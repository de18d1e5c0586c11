---------------------------- MODULE GuiLinkProofs ----------------------------
(***************************************************************************)
(* The list of the window and the list of the daemon, for any number of    *)
(* jobs, gestures and messages on their way.                               *)
(*                                                                         *)
(* The two agree when nothing is on its way because they agree on what is: *)
(* replaying the broadcasts on the list of the window gives the list of    *)
(* the daemon with the jobs that the requests on their way will add. When  *)
(* a list of jobs crosses an addition it is only known to cover that of    *)
(* the daemon, with no more jobs behind than are still to be added. There  *)
(* are no recursive definitions for this: a replay is the sequence of the  *)
(* lists it goes through.                                                  *)
(*                                                                         *)
(* The second half is the socket below. Induction is from TriggerProofs.   *)
(***************************************************************************)
EXTENDS GuiLink, IpcChannel, TriggerProofs

IdSet  == JobIds \cup {0}
JobRec == [id : IdSet, running : BOOLEAN]

-----------------------------------------------------------------------------
(* Lists and their identities *)

LEMMA DropIndex ==
  ASSUME NEW S, NEW s \in Seq(S), NEW i \in 1 .. Len(s)
  PROVE  /\ Without(s, i) \in Seq(S)
         /\ Len(Without(s, i)) = Len(s) - 1
         /\ \A j \in 1 .. Len(s) - 1 : Without(s, i)[j] = IF j < i THEN s[j] ELSE s[j + 1]
<1> DEFINE a == SubSeq(s, 1, i - 1)
           b == SubSeq(s, i + 1, Len(s))
<1>1. a \in Seq(S) /\ Len(a) = i - 1 /\ \A j \in 1 .. i - 1 : a[j] = s[j]
  BY SubSeqProperties
<1>2. b \in Seq(S) /\ Len(b) = Len(s) - i /\ \A j \in 1 .. Len(s) - i : b[j] = s[i + j]
  BY SubSeqProperties
<1>3. Without(s, i) = a \o b BY DEF Without, RemoveAt
<1> HIDE DEF a, b
<1>n. Len(s) \in Nat /\ i \in Nat OBVIOUS
<1>4. a \o b \in Seq(S) /\ Len(a \o b) = Len(s) - 1
  <2>1. a \o b \in Seq(S) /\ Len(a \o b) = Len(a) + Len(b) BY <1>1, <1>2, ConcatProperties
  <2> QED BY <1>n, <1>1, <1>2, <2>1
<1>5. \A j \in 1 .. Len(s) - 1 : (a \o b)[j] = IF j < i THEN s[j] ELSE s[j + 1]
  <2> SUFFICES ASSUME NEW j \in 1 .. Len(s) - 1
               PROVE  (a \o b)[j] = IF j < i THEN s[j] ELSE s[j + 1]
    OBVIOUS
  <2>1. (a \o b)[j] = IF j <= Len(a) THEN a[j] ELSE b[j - Len(a)]
    BY <1>1, <1>2, <1>4, ConcatProperties
  <2>2. CASE j < i BY <1>1, <2>1, <2>2
  <2>3. CASE ~(j < i)
    <3>1. (a \o b)[j] = b[j - (i - 1)] BY <1>1, <2>1, <2>3
    <3>2. j - (i - 1) \in 1 .. Len(s) - i BY <2>3
    <3>3. b[j - (i - 1)] = s[i + (j - (i - 1))] BY <1>2, <3>2
    <3> QED BY <2>3, <3>1, <3>3
  <2> QED BY <2>2, <2>3
<1> QED BY <1>3, <1>4, <1>5

\* Two lists of one length with the same elements are the same.
LEMMA SameList ==
  ASSUME NEW S, NEW s \in Seq(S), NEW t \in Seq(S), Len(s) = Len(t),
         \A j \in 1 .. Len(s) : s[j] = t[j]
  PROVE  s = t
BY SeqEqual

\* A change within the first of two lists is a change of the two together.
LEMMA PutConcat ==
  ASSUME NEW S, NEW s \in Seq(S), NEW t \in Seq(S), NEW i \in 1 .. Len(s), NEW y \in S
  PROVE  [s EXCEPT ![i] = y] \o t = [s \o t EXCEPT ![i] = y]
<1> DEFINE q == s \o t
           m == [s EXCEPT ![i] = y]
           l == [q EXCEPT ![i] = y]
           r == m \o t
           n == Len(s) + Len(t)
<1>0. Len(s) \in Nat /\ Len(t) \in Nat OBVIOUS
<1>1. q \in Seq(S) /\ Len(q) = n
      /\ \A j \in 1 .. n : q[j] = IF j <= Len(s) THEN s[j] ELSE t[j - Len(s)]
  BY ConcatProperties
<1>2. m \in Seq(S) /\ Len(m) = Len(s) /\ \A j \in 1 .. Len(s) : m[j] = IF j = i THEN y ELSE s[j]
  BY ExceptSeq
<1> HIDE DEF q, m
<1>3. r \in Seq(S) /\ Len(r) = n
      /\ \A j \in 1 .. n : r[j] = IF j <= Len(s) THEN m[j] ELSE t[j - Len(s)]
  <2>1. /\ r \in Seq(S) /\ Len(r) = Len(m) + Len(t)
        /\ \A j \in 1 .. Len(m) + Len(t) : r[j] = IF j <= Len(m) THEN m[j] ELSE t[j - Len(m)]
    BY <1>2, ConcatProperties
  <2> QED BY <1>2, <2>1
<1>4. l \in Seq(S) /\ Len(l) = n /\ \A j \in 1 .. n : l[j] = IF j = i THEN y ELSE q[j]
  <2>1. i \in 1 .. Len(q) BY <1>0, <1>1
  <2>2. /\ l \in Seq(S) /\ Len(l) = Len(q)
        /\ \A j \in 1 .. Len(q) : l[j] = IF j = i THEN y ELSE q[j]
    BY <1>1, <2>1, ExceptSeq
  <2> QED BY <1>1, <2>2
<1> HIDE DEF l, r
<1>5. \A j \in 1 .. n : l[j] = r[j]
  <2> SUFFICES ASSUME NEW j \in 1 .. n PROVE l[j] = r[j]
    OBVIOUS
  <2>1. CASE j <= Len(s)
    <3>1. j \in 1 .. Len(s) BY <1>0, <2>1
    <3> QED BY <1>1, <1>2, <1>3, <1>4, <2>1, <3>1
  <2>2. CASE ~(j <= Len(s))
    <3>1. j # i BY <1>0, <2>2
    <3> QED BY <1>1, <1>3, <1>4, <2>2, <3>1
  <2> QED BY <2>1, <2>2
<1>6. l = r BY <1>3, <1>4, <1>5, SameList
<1> QED BY <1>6 DEF l, r, q, m

LEMMA DropConcat ==
  ASSUME NEW S, NEW s \in Seq(S), NEW t \in Seq(S), NEW i \in 1 .. Len(s)
  PROVE  Without(s, i) \o t = Without(s \o t, i)
<1> DEFINE q == s \o t
           m == Without(s, i)
           l == Without(q, i)
           r == m \o t
           n == Len(s) + Len(t)
<1>0. Len(s) \in Nat /\ Len(t) \in Nat OBVIOUS
<1>1. q \in Seq(S) /\ Len(q) = n
      /\ \A j \in 1 .. n : q[j] = IF j <= Len(s) THEN s[j] ELSE t[j - Len(s)]
  BY ConcatProperties
<1>2. m \in Seq(S) /\ Len(m) = Len(s) - 1
      /\ \A j \in 1 .. Len(s) - 1 : m[j] = IF j < i THEN s[j] ELSE s[j + 1]
  BY DropIndex
<1> HIDE DEF q, m
<1>3. r \in Seq(S) /\ Len(r) = n - 1
      /\ \A j \in 1 .. n - 1 : r[j] = IF j <= Len(s) - 1 THEN m[j] ELSE t[j - (Len(s) - 1)]
  <2>1. /\ r \in Seq(S) /\ Len(r) = Len(m) + Len(t)
        /\ \A j \in 1 .. Len(m) + Len(t) : r[j] = IF j <= Len(m) THEN m[j] ELSE t[j - Len(m)]
    BY <1>2, ConcatProperties
  <2>2. Len(m) = Len(s) - 1 /\ Len(m) + Len(t) = n - 1 BY <1>0, <1>2
  <2> QED BY <2>1, <2>2
<1>4. l \in Seq(S) /\ Len(l) = n - 1
      /\ \A j \in 1 .. n - 1 : l[j] = IF j < i THEN q[j] ELSE q[j + 1]
  <2>1. i \in 1 .. Len(q) BY <1>0, <1>1
  <2>2. /\ l \in Seq(S) /\ Len(l) = Len(q) - 1
        /\ \A j \in 1 .. Len(q) - 1 : l[j] = IF j < i THEN q[j] ELSE q[j + 1]
    BY <1>1, <2>1, DropIndex
  <2> QED BY <1>1, <2>2
<1> HIDE DEF l, r
<1>5. \A j \in 1 .. n - 1 : l[j] = r[j]
  <2> SUFFICES ASSUME NEW j \in 1 .. n - 1 PROVE l[j] = r[j]
    OBVIOUS
  <2>0. j \in 1 .. n /\ j + 1 \in 1 .. n BY <1>0
  <2>1. CASE j <= Len(s) - 1
    <3>1. j \in 1 .. Len(s) - 1 /\ j <= Len(s) /\ j + 1 <= Len(s) BY <1>0, <2>1
    <3>2. q[j] = s[j] /\ q[j + 1] = s[j + 1] BY <1>1, <2>0, <3>1
    <3> QED BY <1>2, <1>3, <1>4, <2>1, <3>1, <3>2
  <2>2. CASE ~(j <= Len(s) - 1)
    <3>1. ~(j < i) /\ ~(j + 1 <= Len(s)) /\ j + 1 - Len(s) = j - (Len(s) - 1) BY <1>0, <2>2
    <3>2. q[j + 1] = t[j - (Len(s) - 1)] BY <1>1, <2>0, <3>1
    <3> QED BY <1>3, <1>4, <2>2, <3>1, <3>2
  <2> QED BY <2>1, <2>2
<1>6. l = r
  <2>1. Len(l) = Len(r) /\ \A j \in 1 .. Len(l) : l[j] = r[j] BY <1>3, <1>4, <1>5
  <2> QED BY <1>3, <1>4, <2>1, SameList
<1> QED BY <1>6 DEF l, r, q, m

LEMMA PutAppend ==
  ASSUME NEW S, NEW s \in Seq(S), NEW i \in 1 .. Len(s), NEW x \in S, NEW y \in S
  PROVE  [Append(s, x) EXCEPT ![i] = y] = Append([s EXCEPT ![i] = y], x)
<1>1. <<x>> \in Seq(S) OBVIOUS
<1>2. Append(s, x) = s \o <<x>> BY AppendIsConcat
<1>3. [s EXCEPT ![i] = y] \in Seq(S) BY ExceptSeq
<1>4. Append([s EXCEPT ![i] = y], x) = [s EXCEPT ![i] = y] \o <<x>> BY <1>3, AppendIsConcat
<1>5. [s EXCEPT ![i] = y] \o <<x>> = [s \o <<x>> EXCEPT ![i] = y]
  <2>1. \A t \in Seq(S) : [s EXCEPT ![i] = y] \o t = [s \o t EXCEPT ![i] = y] BY PutConcat
  <2> QED BY <1>1, <2>1, Zenon
<1> QED BY ONLY <1>2, <1>4, <1>5

LEMMA DropAppend ==
  ASSUME NEW S, NEW s \in Seq(S), NEW i \in 1 .. Len(s), NEW x \in S
  PROVE  Without(Append(s, x), i) = Append(Without(s, i), x)
<1>1. <<x>> \in Seq(S) OBVIOUS
<1>2. Append(s, x) = s \o <<x>> BY AppendIsConcat
<1>3. Without(s, i) \in Seq(S) BY DropIndex
<1>4. Append(Without(s, i), x) = Without(s, i) \o <<x>> BY <1>3, AppendIsConcat
<1>5. Without(s, i) \o <<x>> = Without(s \o <<x>>, i) BY <1>1, DropConcat
<1> QED BY ONLY <1>2, <1>4, <1>5

\* What a change of a list of jobs is for its identities
LEMMA IdsAre ==
  ASSUME NEW jobs \in Seq(JobRec)
  PROVE  /\ Ids(jobs) \in Seq(IdSet) /\ Len(Ids(jobs)) = Len(jobs)
         /\ DOMAIN Ids(jobs) = DOMAIN jobs
         /\ \A i \in 1 .. Len(jobs) : Ids(jobs)[i] = jobs[i].id
<1>0. \A i \in 1 .. Len(jobs) : jobs[i] \in JobRec BY ElementOfSeq
<1>1. \A i \in 1 .. Len(jobs) : jobs[i].id \in IdSet BY <1>0 DEF JobRec
<1>2. Ids(jobs) = [i \in 1 .. Len(jobs) |-> jobs[i].id] BY DEF Ids
<1>3. Len(jobs) \in Nat OBVIOUS
<1>4. Ids(jobs) \in [1 .. Len(jobs) -> IdSet] BY <1>1, <1>2
<1>5. Ids(jobs) \in Seq(IdSet) /\ Len(Ids(jobs)) = Len(jobs) BY <1>2, <1>3, <1>4
<1> QED BY <1>2, <1>5

LEMMA IdsAppend ==
  ASSUME NEW jobs \in Seq(JobRec), NEW j \in JobRec
  PROVE  Append(jobs, j) \in Seq(JobRec) /\ Ids(Append(jobs, j)) = Append(Ids(jobs), j.id)
<1>1. Append(jobs, j) \in Seq(JobRec) OBVIOUS
<1>2. j.id \in IdSet BY DEF JobRec
<1>3. Ids(jobs) \in Seq(IdSet) /\ Len(Ids(jobs)) = Len(jobs)
      /\ \A i \in 1 .. Len(jobs) : Ids(jobs)[i] = jobs[i].id
  BY IdsAre
<1>4. Ids(Append(jobs, j)) \in Seq(IdSet) /\ Len(Ids(Append(jobs, j))) = Len(jobs) + 1
      /\ \A i \in 1 .. Len(jobs) + 1 : Ids(Append(jobs, j))[i] = Append(jobs, j)[i].id
  <2>1. Len(Append(jobs, j)) = Len(jobs) + 1 OBVIOUS
  <2>2. /\ Ids(Append(jobs, j)) \in Seq(IdSet) /\ Len(Ids(Append(jobs, j))) = Len(Append(jobs, j))
        /\ \A i \in 1 .. Len(Append(jobs, j)) : Ids(Append(jobs, j))[i] = Append(jobs, j)[i].id
    BY <1>1, IdsAre
  <2> QED BY <2>1, <2>2
<1>5. Append(Ids(jobs), j.id) \in Seq(IdSet) /\ Len(Append(Ids(jobs), j.id)) = Len(jobs) + 1
  BY <1>2, <1>3
<1>6. \A i \in 1 .. Len(jobs) + 1 : Ids(Append(jobs, j))[i] = Append(Ids(jobs), j.id)[i]
  BY <1>2, <1>3, <1>4
<1> QED BY <1>1, <1>4, <1>5, <1>6, SameList

LEMMA IdsPut ==
  ASSUME NEW jobs \in Seq(JobRec), NEW i, NEW j \in JobRec
  PROVE  /\ [jobs EXCEPT ![i] = j] \in Seq(JobRec)
         /\ Ids([jobs EXCEPT ![i] = j]) = [Ids(jobs) EXCEPT ![i] = j.id]
<1>1. [jobs EXCEPT ![i] = j] \in Seq(JobRec)
  <2>1. CASE i \in 1 .. Len(jobs) BY <2>1, ExceptSeq
  <2>2. CASE i \notin 1 .. Len(jobs)
    <3>1. [jobs EXCEPT ![i] = j] = jobs BY <2>2
    <3> QED BY <3>1
  <2> QED BY <2>1, <2>2
<1> QED BY <1>1 DEF Ids

LEMMA IdsDrop ==
  ASSUME NEW jobs \in Seq(JobRec), NEW i \in 1 .. Len(jobs)
  PROVE  Without(jobs, i) \in Seq(JobRec) /\ Ids(Without(jobs, i)) = Without(Ids(jobs), i)
<1> DEFINE n == Len(jobs)
<1>0. n \in Nat OBVIOUS
<1>1. Without(jobs, i) \in Seq(JobRec) /\ Len(Without(jobs, i)) = n - 1
      /\ \A j \in 1 .. n - 1 : Without(jobs, i)[j] = IF j < i THEN jobs[j] ELSE jobs[j + 1]
  BY DropIndex
<1>2. Ids(jobs) \in Seq(IdSet) /\ Len(Ids(jobs)) = n /\ \A j \in 1 .. n : Ids(jobs)[j] = jobs[j].id
  BY IdsAre
<1>3. Without(Ids(jobs), i) \in Seq(IdSet) /\ Len(Without(Ids(jobs), i)) = n - 1
      /\ \A j \in 1 .. n - 1 : Without(Ids(jobs), i)[j] = IF j < i THEN Ids(jobs)[j] ELSE Ids(jobs)[j + 1]
  BY <1>2, DropIndex
<1>4. Ids(Without(jobs, i)) \in Seq(IdSet) /\ Len(Ids(Without(jobs, i))) = n - 1
      /\ \A j \in 1 .. n - 1 : Ids(Without(jobs, i))[j] = Without(jobs, i)[j].id
  BY <1>1, IdsAre
<1> HIDE DEF n
<1>5. \A j \in 1 .. n - 1 : Ids(Without(jobs, i))[j] = Without(Ids(jobs), i)[j]
  <2> SUFFICES ASSUME NEW j \in 1 .. n - 1
               PROVE  Ids(Without(jobs, i))[j] = Without(Ids(jobs), i)[j]
    OBVIOUS
  <2>1. j \in 1 .. n /\ j + 1 \in 1 .. n BY <1>0
  <2>2. CASE j < i BY <1>1, <1>2, <1>3, <1>4, <2>1, <2>2
  <2>3. CASE ~(j < i) BY <1>1, <1>2, <1>3, <1>4, <2>1, <2>3
  <2> QED BY <2>2, <2>3
<1>6. Ids(Without(jobs, i)) = Without(Ids(jobs), i) BY <1>3, <1>4, <1>5, SameList
<1> QED BY <1>1, <1>6

LEMMA IdsMarked ==
  ASSUME NEW jobs \in Seq(JobRec), NEW i, NEW b \in BOOLEAN
  PROVE  Marked(jobs, i, b) \in Seq(JobRec) /\ Ids(Marked(jobs, i, b)) = Ids(jobs)
<1>0. \A j \in 1 .. Len(jobs) : jobs[j] \in JobRec BY ElementOfSeq
<1>1. \A j \in 1 .. Len(jobs) : [jobs[j] EXCEPT !.running = b] \in JobRec
                                /\ [jobs[j] EXCEPT !.running = b].id = jobs[j].id
  BY <1>0 DEF JobRec
<1>2. Marked(jobs, i, b)
        = [j \in 1 .. Len(jobs) |-> IF j = i THEN [jobs[j] EXCEPT !.running = b] ELSE jobs[j]]
  BY DEF Marked
<1>3. \A j \in 1 .. Len(jobs) : Marked(jobs, i, b)[j] \in JobRec /\ Marked(jobs, i, b)[j].id = jobs[j].id
  BY <1>1, <1>2
<1>4. Len(jobs) \in Nat /\ DOMAIN Marked(jobs, i, b) = 1 .. Len(jobs) BY <1>2
<1>5. Marked(jobs, i, b) \in [1 .. Len(jobs) -> JobRec] BY <1>2, <1>3
<1>6. Marked(jobs, i, b) \in Seq(JobRec) BY <1>4, <1>5
<1> QED BY <1>3, <1>4, <1>6 DEF Ids

-----------------------------------------------------------------------------
(* What is on its way *)

Requests == [kind : {"get_jobs", "add_job", "update_job", "delete_job", "run_job", "stop_job"},
             index : Nat, job : JobRec, req : Nat]
Notes    == [kind : {"job_added", "job_updated", "job_deleted", "job_started", "job_completed",
                     "job_stopped"},
             index : Nat, job : JobRec, req : Nat]
Lists    == [kind : {"jobs_list"}, jobs : Seq(JobRec), index : Nat, job : JobRec, req : Nat]

\* A broadcast that the window reads with the identities s in its list, and
\* those it has afterwards. A job that is added is in the list already, or is
\* put behind it, or takes the place of another: a list that arrived meanwhile
\* came from before it was added.
Fits(m, s) ==
  CASE m.kind = "job_added" -> m.index \in 1 .. Len(s) + 1
    [] m.kind \in {"job_updated", "job_deleted"} -> m.index \in DOMAIN s
    [] OTHER -> TRUE
Then(m, s) ==
  CASE m.kind = "jobs_list" -> Ids(m.jobs)
    [] m.kind = "job_added" -> IF m.index > Len(s) THEN Append(s, m.job.id)
                               ELSE [s EXCEPT ![m.index] = m.job.id]
    [] m.kind = "job_updated" -> [s EXCEPT ![m.index] = m.job.id]
    [] m.kind = "job_deleted" -> Without(s, m.index)
    [] OTHER -> s

\* The added job is the one with that index, and nothing changes.
InPlace(m, s) == m.kind = "job_added" => m.index \in DOMAIN s /\ s[m.index] = m.job.id

\* Whether the window had one more job or not, it has this list afterwards.
Collapses(m, s) ==
  m.kind = "jobs_list" \/ (m.kind = "job_added" /\ m.index = Len(s) + 1)

\* h goes through the lists of a window that has the list s and reads ms.
IsReplay(h, s, ms) ==
  /\ h \in [0 .. Len(ms) -> Seq(IdSet)] /\ h[0] = s
  /\ \A k \in 1 .. Len(ms) : Fits(ms[k], h[k - 1]) /\ h[k] = Then(ms[k], h[k - 1])
Exactly(h, ms) == \A k \in 1 .. Len(ms) : InPlace(ms[k], h[k - 1])

\* adds are the jobs that the requests rs will add, g[k] the number of them
\* that the first k add. The list of jobs is asked for first, if at all.
IsCount(g, adds, rs) ==
  /\ adds \in Seq(IdSet)
  /\ g \in [0 .. Len(rs) -> 0 .. Len(adds)] /\ g[0] = 0 /\ g[Len(rs)] = Len(adds)
  /\ \A j, k \in 0 .. Len(rs) : j <= k => g[j] <= g[k]
  /\ \A k \in 1 .. Len(rs) :
       /\ k # 1 => rs[k].kind # "get_jobs"
       /\ IF rs[k].kind = "add_job" THEN g[k] = g[k - 1] + 1 /\ adds[g[k]] = rs[k].job.id
          ELSE g[k] = g[k - 1]

\* The list is asked for, and will replace what the window has.
ListAsked(rs) == rs # <<>> /\ Head(rs).kind = "get_jobs"

\* The list e begins with d and has at most n jobs more: n jobs that are added
\* behind d, each put behind e or in the place of its index, make the two equal.
Covers(e, d, n) ==
  Len(d) <= Len(e) /\ Len(e) <= Len(d) + n /\ \A i \in 1 .. Len(d) : e[i] = d[i]

\* The window has the identities s, the broadcasts ms are on their way to it,
\* the daemon has the identities d and the requests rs are on their way to it.
\* The window may have one of the jobs it added in the place of another, if a
\* list of jobs has crossed an addition.
Traced(s, ms, d, rs, crossed) ==
  \E h, g, adds :
    /\ IsReplay(h, s, ms) /\ IsCount(g, adds, rs)
    /\ ListAsked(rs) \/ Covers(h[Len(ms)], d, Len(adds))
    /\ ~crossed => Exactly(h, ms) /\ (ListAsked(rs) \/ h[Len(ms)] = d \o adds)

\* A broadcast that fits leaves a list.
LEMMA ThenList ==
  ASSUME NEW m \in Notes \cup Lists, NEW s \in Seq(IdSet), Fits(m, s)
  PROVE  Then(m, s) \in Seq(IdSet)
<1>0. m.job.id \in IdSet BY DEF Notes, Lists, JobRec
<1>1. DOMAIN s = 1 .. Len(s) /\ Len(s) \in Nat OBVIOUS
<1>2. CASE m.kind = "job_updated"
  <2>1. m.index \in 1 .. Len(s) BY <1>1, <1>2 DEF Fits
  <2>2. [s EXCEPT ![m.index] = m.job.id] \in Seq(IdSet) BY <1>0, <2>1, ExceptSeq
  <2> QED BY <1>2, <2>2 DEF Then
<1>3. CASE m.kind = "job_deleted"
  <2>1. m.index \in 1 .. Len(s) BY <1>1, <1>3 DEF Fits
  <2>2. Without(s, m.index) \in Seq(IdSet) BY <2>1, DropIndex
  <2> QED BY <1>3, <2>2 DEF Then
<1>4. CASE m.kind = "jobs_list"
  <2>1. m.jobs \in Seq(JobRec) BY <1>4 DEF Notes, Lists
  <2>2. Ids(m.jobs) \in Seq(IdSet) BY <2>1, IdsAre
  <2> QED BY <1>4, <2>2 DEF Then
<1>5. CASE m.kind = "job_added"
  <2>1. m.index \in 1 .. Len(s) + 1 BY <1>5 DEF Fits
  <2>2. Append(s, m.job.id) \in Seq(IdSet) BY <1>0, AppendProperties
  <2>3. m.index \in 1 .. Len(s) => [s EXCEPT ![m.index] = m.job.id] \in Seq(IdSet)
    BY <1>0, ExceptSeq
  <2> QED BY <1>1, <1>5, <2>1, <2>2, <2>3 DEF Then
<1>6. CASE m.kind \notin {"jobs_list", "job_added", "job_updated", "job_deleted"}
  BY <1>6 DEF Then
<1> QED BY <1>2, <1>3, <1>4, <1>5, <1>6

\* A broadcast does the same to a list with one more job at its end, ...
LEMMA ThenAppend ==
  ASSUME NEW m \in Notes \cup Lists, NEW s \in Seq(IdSet), NEW x \in IdSet, Fits(m, s),
         ~Collapses(m, s)
  PROVE  Fits(m, Append(s, x)) /\ Then(m, Append(s, x)) = Append(Then(m, s), x)
<1>0. m.job.id \in IdSet BY DEF Notes, Lists, JobRec
<1>1. DOMAIN s = 1 .. Len(s) /\ Len(s) \in Nat OBVIOUS
<1>2. DOMAIN Append(s, x) = 1 .. Len(s) + 1 /\ Len(Append(s, x)) = Len(s) + 1 OBVIOUS
<1>3. m.kind \in {"job_added", "job_updated", "job_deleted"} => m.index \in 1 .. Len(s)
  BY <1>1 DEF Fits, Collapses
<1>4. Fits(m, Append(s, x)) BY <1>1, <1>2, <1>3 DEF Fits
<1>5. CASE m.kind \in {"job_added", "job_updated"}
  <2>1. m.index \in 1 .. Len(s) BY <1>3, <1>5
  <2>2. \A i \in 1 .. Len(s), y \in IdSet :
          [Append(s, x) EXCEPT ![i] = y] = Append([s EXCEPT ![i] = y], x)
    BY PutAppend
  <2>3. [Append(s, x) EXCEPT ![m.index] = m.job.id] = Append([s EXCEPT ![m.index] = m.job.id], x)
    BY <1>0, <2>1, <2>2, Zenon
  <2>4. ~(m.index > Len(s)) /\ ~(m.index > Len(Append(s, x))) BY <1>1, <1>2, <2>1
  <2>5. Then(m, s) = [s EXCEPT ![m.index] = m.job.id] BY <1>5, <2>4 DEF Then
  <2>6. Then(m, Append(s, x)) = [Append(s, x) EXCEPT ![m.index] = m.job.id]
    BY <1>5, <2>4 DEF Then
  <2> QED BY <1>4, <2>3, <2>5, <2>6
<1>6. CASE m.kind = "job_deleted"
  <2>1. m.index \in 1 .. Len(s) BY <1>3, <1>6
  <2>2. Without(Append(s, x), m.index) = Append(Without(s, m.index), x) BY <2>1, DropAppend
  <2> QED BY <1>4, <1>6, <2>2 DEF Then
<1>7. CASE m.kind \notin {"jobs_list", "job_added", "job_updated", "job_deleted"}
  BY <1>4, <1>7 DEF Then
<1>8. m.kind # "jobs_list" BY DEF Collapses
<1> QED BY <1>5, <1>6, <1>7, <1>8

\* ... or makes the two lists one.
LEMMA ThenCollapse ==
  ASSUME NEW m \in Notes \cup Lists, NEW s \in Seq(IdSet), NEW x \in IdSet, Fits(m, s),
         Collapses(m, s)
  PROVE  Fits(m, Append(s, x)) /\ Then(m, Append(s, x)) = Then(m, s)
<1>1. CASE m.kind = "jobs_list" BY <1>1 DEF Fits, Then
<1>2. CASE m.kind = "job_added" /\ m.index = Len(s) + 1
  <2> DEFINE y == m.job.id
             n == Len(s) + 1
             p == Append(s, x)
             q == [p EXCEPT ![n] = y]
             r == Append(s, y)
  <2>0. y \in IdSet /\ Len(s) \in Nat BY DEF Notes, Lists, JobRec
  <2> HIDE DEF y
  <2>1. p \in Seq(IdSet) /\ Len(p) = n /\ n \in 1 .. n /\ \A i \in 1 .. Len(s) : p[i] = s[i]
    BY <2>0, AppendProperties
  <2>2. r \in Seq(IdSet) /\ Len(r) = n /\ r[n] = y /\ \A i \in 1 .. Len(s) : r[i] = s[i]
    BY <2>0, AppendProperties
  <2> HIDE DEF p, r
  <2>3. q \in Seq(IdSet) /\ Len(q) = n /\ \A i \in 1 .. n : q[i] = IF i = n THEN y ELSE p[i]
    BY <2>0, <2>1, ExceptSeq
  <2> HIDE DEF q
  <2>4. \A i \in 1 .. n : i # n => i \in 1 .. Len(s) BY <2>0
  <2> HIDE DEF n
  <2>5. \A i \in 1 .. Len(q) : q[i] = r[i] BY <2>1, <2>2, <2>3, <2>4
  <2>6. q = r BY <2>2, <2>3, <2>5, SameList
  <2>7. Fits(m, p) BY <1>2, <2>0, <2>1 DEF Fits, n
  <2>8. Then(m, p) = q /\ Then(m, s) = r BY <1>2, <2>0, <2>1 DEF Then, n, q, r, y
  <2> QED BY <2>6, <2>7, <2>8 DEF p
<1> QED BY <1>1, <1>2 DEF Collapses

\* A window with one more job at the end of its list ends with that job more,
\* or with the same list. An exact replay without a list ends with it.
LEMMA ReplayAppend ==
  ASSUME NEW ms \in Seq(Notes \cup Lists), NEW s \in Seq(IdSet), NEW h, NEW x \in IdSet,
         IsReplay(h, s, ms)
  PROVE  \E f : /\ IsReplay(f, Append(s, x), ms)
                /\ f[Len(ms)] \in {h[Len(ms)], Append(h[Len(ms)], x)}
                /\ Exactly(h, ms) /\ (\A k \in 1 .. Len(ms) : ms[k].kind # "jobs_list")
                     => Exactly(f, ms) /\ f[Len(ms)] = Append(h[Len(ms)], x)
<1> DEFINE Apart(k) == \A q \in 1 .. k : ~Collapses(ms[q], h[q - 1])
           f == [k \in 0 .. Len(ms) |-> IF Apart(k) THEN Append(h[k], x) ELSE h[k]]
<1>0. Len(ms) \in Nat /\ h \in [0 .. Len(ms) -> Seq(IdSet)] BY DEF IsReplay
<1>1. \A k \in 0 .. Len(ms) : /\ f[k] = IF Apart(k) THEN Append(h[k], x) ELSE h[k]
                              /\ f[k] \in Seq(IdSet)
  BY <1>0
<1>2. f \in [0 .. Len(ms) -> Seq(IdSet)]
  <2>1. f = [k \in 0 .. Len(ms) |-> f[k]] OBVIOUS
  <2> HIDE DEF f
  <2> QED BY <1>1, <2>1
<1>3. f[0] = Append(s, x)
  <2>1. Apart(0) /\ 0 \in 0 .. Len(ms) BY <1>0
  <2> QED BY <1>1, <2>1 DEF IsReplay
<1>4. \A k \in 1 .. Len(ms) : Apart(k) <=> Apart(k - 1) /\ ~Collapses(ms[k], h[k - 1])
  <2>1. ASSUME NEW k \in 1 .. Len(ms)
        PROVE  Apart(k) <=> Apart(k - 1) /\ ~Collapses(ms[k], h[k - 1])
    <3>1. 1 .. k = (1 .. k - 1) \cup {k} BY <1>0
    <3> QED BY <3>1
  <2> QED BY <2>1
<1> HIDE DEF f, Apart
<1>5. ASSUME NEW k \in 1 .. Len(ms)
      PROVE  /\ Fits(ms[k], f[k - 1]) /\ f[k] = Then(ms[k], f[k - 1])
  <2>1. k - 1 \in 0 .. Len(ms) /\ k \in 0 .. Len(ms) BY <1>0
  <2>2. ms[k] \in Notes \cup Lists BY ElementOfSeq
  <2>3. h[k - 1] \in Seq(IdSet) BY <1>0, <2>1
  <2>4. Fits(ms[k], h[k - 1]) /\ h[k] = Then(ms[k], h[k - 1]) BY DEF IsReplay
  <2>5. CASE ~Apart(k - 1)
    <3>1. f[k - 1] = h[k - 1] /\ f[k] = h[k] BY <1>1, <1>4, <2>1, <2>5
    <3> QED BY <2>4, <3>1
  <2>6. CASE Apart(k - 1) /\ Collapses(ms[k], h[k - 1])
    <3>1. f[k - 1] = Append(h[k - 1], x) /\ f[k] = h[k] BY <1>1, <1>4, <2>1, <2>6
    <3>2. Fits(ms[k], Append(h[k - 1], x))
          /\ Then(ms[k], Append(h[k - 1], x)) = Then(ms[k], h[k - 1])
      BY <2>2, <2>3, <2>4, <2>6, ThenCollapse
    <3> QED BY <2>4, <3>1, <3>2
  <2>7. CASE Apart(k - 1) /\ ~Collapses(ms[k], h[k - 1])
    <3>1. f[k - 1] = Append(h[k - 1], x) /\ f[k] = Append(h[k], x) BY <1>1, <1>4, <2>1, <2>7
    <3>2. Fits(ms[k], Append(h[k - 1], x))
          /\ Then(ms[k], Append(h[k - 1], x)) = Append(Then(ms[k], h[k - 1]), x)
      BY <2>2, <2>3, <2>4, <2>7, ThenAppend
    <3> QED BY <2>4, <3>1, <3>2
  <2> QED BY <2>5, <2>6, <2>7
<1>6. IsReplay(f, Append(s, x), ms) BY <1>2, <1>3, <1>5 DEF IsReplay
<1>7. f[Len(ms)] \in {h[Len(ms)], Append(h[Len(ms)], x)}
  <2>1. Len(ms) \in 0 .. Len(ms) BY <1>0
  <2> QED BY <1>1, <2>1
<1>8. ASSUME Exactly(h, ms), \A k \in 1 .. Len(ms) : ms[k].kind # "jobs_list"
      PROVE  Exactly(f, ms) /\ f[Len(ms)] = Append(h[Len(ms)], x)
  <2>1. ASSUME NEW q \in 1 .. Len(ms)
        PROVE  ~Collapses(ms[q], h[q - 1])
    <3>1. InPlace(ms[q], h[q - 1]) /\ ms[q].kind # "jobs_list" BY <1>8 DEF Exactly
    <3>2. q - 1 \in 0 .. Len(ms) BY <1>0
    <3>3. h[q - 1] \in Seq(IdSet) BY <1>0, <3>2
    <3> DEFINE t == h[q - 1]
    <3>4. DOMAIN t = 1 .. Len(t) /\ Len(t) \in Nat BY <3>3
    <3> HIDE DEF t
    <3>5. ms[q].kind = "job_added" => ms[q].index # Len(t) + 1 BY <3>1, <3>4 DEF InPlace, t
    <3> QED BY <3>1, <3>5 DEF Collapses, t
  <2>2. \A k \in 0 .. Len(ms) : Apart(k)
    <3>1. \A k \in 0 .. Len(ms) : \A q \in 1 .. k : q \in 1 .. Len(ms) BY <1>0
    <3> QED BY <2>1, <3>1 DEF Apart
  <2>3. \A k \in 0 .. Len(ms) : f[k] = Append(h[k], x) BY <1>1, <2>2
  <2>4. ASSUME NEW k \in 1 .. Len(ms) PROVE InPlace(ms[k], f[k - 1])
    <3>1. InPlace(ms[k], h[k - 1]) BY <1>8 DEF Exactly
    <3>2. k - 1 \in 0 .. Len(ms) BY <1>0
    <3>3. f[k - 1] = Append(h[k - 1], x) /\ h[k - 1] \in Seq(IdSet) BY <1>0, <2>3, <3>2
    <3> DEFINE t == h[k - 1]
    <3>4. /\ DOMAIN t = 1 .. Len(t) /\ Len(t) \in Nat /\ DOMAIN Append(t, x) = 1 .. Len(t) + 1
          /\ \A i \in 1 .. Len(t) : Append(t, x)[i] = t[i]
      BY <3>3
    <3> HIDE DEF t
    <3>5. InPlace(ms[k], t) => InPlace(ms[k], Append(t, x)) BY <3>4 DEF InPlace
    <3> QED BY <3>1, <3>3, <3>5 DEF t
  <2>5. Len(ms) \in 0 .. Len(ms) BY <1>0
  <2> QED BY <2>3, <2>4, <2>5 DEF Exactly
<1> QED BY <1>6, <1>7, <1>8

LEMMA ReplayTail ==
  ASSUME NEW ms \in Seq(Notes \cup Lists), NEW s \in Seq(IdSet), NEW h,
         IsReplay(h, s, ms), ms # <<>>
  PROVE  /\ Fits(Head(ms), s)
         /\ Exactly(h, ms) => InPlace(Head(ms), s)
         /\ \E f : /\ IsReplay(f, Then(Head(ms), s), Tail(ms)) /\ f[Len(Tail(ms))] = h[Len(ms)]
                   /\ Exactly(h, ms) => Exactly(f, Tail(ms))
<1> DEFINE n == Len(Tail(ms))
           f == [k \in 0 .. n |-> h[k + 1]]
<1>0. Len(ms) \in Nat /\ h \in [0 .. Len(ms) -> Seq(IdSet)] /\ h[0] = s BY DEF IsReplay
<1>1. Len(ms) \in Nat \ {0} /\ n = Len(ms) - 1 /\ Head(ms) = ms[1]
      /\ \A k \in 1 .. n : Tail(ms)[k] = ms[k + 1]
  BY EmptySeq, HeadTailProperties
<1> HIDE DEF n
<1>2. \A k \in 1 .. Len(ms) : Fits(ms[k], h[k - 1]) /\ h[k] = Then(ms[k], h[k - 1]) BY DEF IsReplay
<1>3. Fits(ms[1], h[1 - 1]) /\ h[1] = Then(ms[1], h[1 - 1]) BY <1>1, <1>2
<1>4. Fits(Head(ms), s) /\ h[1] = Then(Head(ms), s) BY <1>0, <1>1, <1>3
<1>4a. Exactly(h, ms) => InPlace(Head(ms), s)
  <2>1. Exactly(h, ms) => InPlace(ms[1], h[1 - 1])
    <3>1. 1 \in 1 .. Len(ms) BY <1>1
    <3> QED BY <3>1 DEF Exactly
  <2> QED BY <1>0, <1>1, <2>1
<1>5. f \in [0 .. n -> Seq(IdSet)] /\ \A k \in 0 .. n : f[k] = h[k + 1]
  <2>1. \A k \in 0 .. n : k + 1 \in 0 .. Len(ms) BY <1>1
  <2> QED BY <1>0, <2>1
<1>6. f[0] = Then(Head(ms), s) BY <1>1, <1>4, <1>5
<1> HIDE DEF f
<1>7. ASSUME NEW k \in 1 .. n
      PROVE  /\ Fits(Tail(ms)[k], f[k - 1]) /\ f[k] = Then(Tail(ms)[k], f[k - 1])
             /\ Exactly(h, ms) => InPlace(Tail(ms)[k], f[k - 1])
  <2>1. k + 1 \in 1 .. Len(ms) /\ k - 1 \in 0 .. n /\ k \in 0 .. n /\ (k + 1) - 1 = k /\ (k - 1) + 1 = k
    BY <1>1
  <2>2. Fits(ms[k + 1], h[k]) /\ h[k + 1] = Then(ms[k + 1], h[k]) BY <1>2, <2>1
  <2>3. f[k - 1] = h[k] /\ f[k] = h[k + 1] BY <1>5, <2>1
  <2>4. Exactly(h, ms) => InPlace(ms[k + 1], h[(k + 1) - 1]) BY <2>1 DEF Exactly
  <2>5. Exactly(h, ms) => InPlace(ms[k + 1], h[k]) BY <2>1, <2>4
  <2> QED BY <1>1, <2>2, <2>3, <2>5
<1>8. IsReplay(f, Then(Head(ms), s), Tail(ms)) BY <1>5, <1>6, <1>7 DEF IsReplay, n
<1>9. f[n] = h[Len(ms)] BY <1>1, <1>5
<1>10. Exactly(h, ms) => Exactly(f, Tail(ms)) BY <1>7 DEF Exactly, n
<1> QED BY <1>4, <1>4a, <1>8, <1>9, <1>10 DEF n

LEMMA ReplayNext ==
  ASSUME NEW ms \in Seq(Notes \cup Lists), NEW s \in Seq(IdSet), NEW h, NEW m \in Notes \cup Lists,
         IsReplay(h, s, ms), Fits(m, h[Len(ms)])
  PROVE  \E f : /\ IsReplay(f, s, Append(ms, m))
                /\ f[Len(Append(ms, m))] = Then(m, h[Len(ms)])
                /\ Exactly(h, ms) /\ InPlace(m, h[Len(ms)]) => Exactly(f, Append(ms, m))
<1> DEFINE n == Len(ms)
           q == Append(ms, m)
           f == [k \in 0 .. n + 1 |-> IF k <= n THEN h[k] ELSE Then(m, h[n])]
<1>0. n \in Nat /\ h \in [0 .. n -> Seq(IdSet)] /\ h[0] = s BY DEF IsReplay
<1>1. Len(q) = n + 1 /\ (\A k \in 1 .. n : q[k] = ms[k]) /\ q[n + 1] = m BY AppendProperties
<1>2. \A k \in 1 .. n : Fits(ms[k], h[k - 1]) /\ h[k] = Then(ms[k], h[k - 1]) BY DEF IsReplay
<1>2a. Exactly(h, ms) => \A k \in 1 .. n : InPlace(ms[k], h[k - 1]) BY DEF Exactly
<1>3. h[n] \in Seq(IdSet) BY <1>0
<1>4. Then(m, h[n]) \in Seq(IdSet) BY <1>3, ThenList
<1> HIDE DEF n, q
<1>5. (\A k \in 0 .. n : f[k] = h[k]) /\ f[n + 1] = Then(m, h[n])
      /\ f \in [0 .. n + 1 -> Seq(IdSet)]
  BY <1>0, <1>4
<1> HIDE DEF f
<1>6. ASSUME NEW k \in 1 .. n + 1
      PROVE  /\ Fits(q[k], f[k - 1]) /\ f[k] = Then(q[k], f[k - 1])
             /\ Exactly(h, ms) /\ InPlace(m, h[n]) => InPlace(q[k], f[k - 1])
  <2>1. CASE k <= n
    <3>1. k \in 1 .. n /\ k \in 0 .. n /\ k - 1 \in 0 .. n BY <1>0, <2>1
    <3>2. f[k] = h[k] /\ f[k - 1] = h[k - 1] /\ q[k] = ms[k] BY <1>1, <1>5, <3>1
    <3> QED BY <1>2, <1>2a, <3>1, <3>2
  <2>2. CASE k = n + 1
    <3>1. k - 1 = n /\ n \in 0 .. n BY <1>0, <2>2
    <3>2. f[k - 1] = h[n] /\ f[k] = Then(m, h[n]) /\ q[k] = m BY <1>1, <1>5, <2>2, <3>1
    <3> QED BY <3>2 DEF n
  <2> QED BY <1>0, <2>1, <2>2
<1>7. f[0] = s BY <1>0, <1>5
<1>8. IsReplay(f, s, q) BY <1>1, <1>5, <1>6, <1>7 DEF IsReplay
<1>9. Exactly(h, ms) /\ InPlace(m, h[n]) => Exactly(f, q) BY <1>1, <1>6 DEF Exactly
<1> QED BY <1>1, <1>5, <1>8, <1>9 DEF n, q

LEMMA CountAdd ==
  ASSUME NEW rs \in Seq(Requests), NEW adds, NEW g, NEW r \in Requests,
         IsCount(g, adds, rs), r.kind = "add_job"
  PROVE  \E f : IsCount(f, Append(adds, r.job.id), Append(rs, r))
<1> DEFINE n == Len(rs)
           a == Len(adds)
           q == Append(rs, r)
           b == Append(adds, r.job.id)
           f == [k \in 0 .. n + 1 |-> IF k <= n THEN g[k] ELSE a + 1]
<1>0. adds \in Seq(IdSet) /\ g \in [0 .. n -> 0 .. a] /\ g[0] = 0 /\ g[n] = a
  BY DEF IsCount
<1>1. n \in Nat /\ a \in Nat BY <1>0
<1>2. Len(q) = n + 1 /\ (\A k \in 1 .. n : q[k] = rs[k]) /\ q[n + 1] = r BY AppendProperties
<1>3. r.job.id \in IdSet BY DEF Requests, JobRec
<1>4. b \in Seq(IdSet) /\ Len(b) = a + 1 /\ (\A k \in 1 .. a : b[k] = adds[k])
      /\ b[a + 1] = r.job.id
  BY <1>0, <1>3, AppendProperties
<1>5. \A k \in 1 .. n : /\ k # 1 => rs[k].kind # "get_jobs"
                        /\ IF rs[k].kind = "add_job"
                           THEN g[k] = g[k - 1] + 1 /\ adds[g[k]] = rs[k].job.id
                           ELSE g[k] = g[k - 1]
  BY DEF IsCount
<1>6. \A j, k \in 0 .. n : j <= k => g[j] <= g[k] BY DEF IsCount
<1> HIDE DEF n, a, q, b
<1>7. (\A k \in 0 .. n : f[k] = g[k]) /\ f[n + 1] = a + 1 /\ f \in [0 .. n + 1 -> 0 .. a + 1]
  BY <1>0, <1>1
<1> HIDE DEF f
<1>8. ASSUME NEW j \in 0 .. n + 1, NEW k \in 0 .. n + 1, j <= k PROVE f[j] <= f[k]
  <2>1. CASE k <= n
    <3>1. j \in 0 .. n /\ k \in 0 .. n BY <1>1, <1>8, <2>1
    <3> QED BY <1>6, <1>7, <1>8, <3>1
  <2>2. CASE k = n + 1 BY <1>1, <1>7, <2>2
  <2> QED BY <1>1, <2>1, <2>2
<1>9. ASSUME NEW k \in 1 .. n + 1
      PROVE  /\ k # 1 => q[k].kind # "get_jobs"
             /\ IF q[k].kind = "add_job" THEN f[k] = f[k - 1] + 1 /\ b[f[k]] = q[k].job.id
                ELSE f[k] = f[k - 1]
  <2>1. CASE k <= n
    <3>1. k \in 1 .. n /\ k \in 0 .. n /\ k - 1 \in 0 .. n BY <1>1, <2>1
    <3>2. f[k] = g[k] /\ f[k - 1] = g[k - 1] /\ q[k] = rs[k] BY <1>2, <1>7, <3>1
    <3>3. k # 1 => rs[k].kind # "get_jobs" BY <1>5, <3>1
    <3>4. CASE rs[k].kind = "add_job"
      <4>1. g[k] = g[k - 1] + 1 /\ adds[g[k]] = rs[k].job.id BY <1>5, <3>1, <3>4
      <4>2. g[k - 1] \in 0 .. a /\ g[k] \in 0 .. a BY <1>0, <3>1
      <4>3. g[k] \in 1 .. a BY <1>1, <4>1, <4>2
      <4> QED BY <1>4, <3>2, <3>3, <3>4, <4>1, <4>3
    <3>5. CASE rs[k].kind # "add_job" BY <1>5, <3>1, <3>2, <3>3, <3>5
    <3> QED BY <3>4, <3>5
  <2>2. CASE k = n + 1
    <3>1. k - 1 = n /\ n \in 0 .. n BY <1>1, <2>2
    <3>2. f[k] = a + 1 /\ f[k - 1] = a /\ q[k] = r BY <1>0, <1>2, <1>7, <2>2, <3>1
    <3> QED BY <1>4, <3>2
  <2> QED BY <1>1, <2>1, <2>2
<1>10. f[0] = 0 /\ f[n + 1] = a + 1 BY <1>0, <1>1, <1>7
<1>11. IsCount(f, b, q) BY <1>2, <1>4, <1>7, <1>8, <1>9, <1>10 DEF IsCount
<1> QED BY <1>11 DEF q, b

LEMMA CountOther ==
  ASSUME NEW rs \in Seq(Requests), NEW adds, NEW g, NEW r \in Requests,
         IsCount(g, adds, rs), r.kind \notin {"add_job", "get_jobs"}
  PROVE  \E f : IsCount(f, adds, Append(rs, r))
<1> DEFINE n == Len(rs)
           a == Len(adds)
           q == Append(rs, r)
           f == [k \in 0 .. n + 1 |-> IF k <= n THEN g[k] ELSE a]
<1>0. adds \in Seq(IdSet) /\ g \in [0 .. n -> 0 .. a] /\ g[0] = 0 /\ g[n] = a
  BY DEF IsCount
<1>1. n \in Nat /\ a \in Nat BY <1>0
<1>2. Len(q) = n + 1 /\ (\A k \in 1 .. n : q[k] = rs[k]) /\ q[n + 1] = r BY AppendProperties
<1>5. \A k \in 1 .. n : /\ k # 1 => rs[k].kind # "get_jobs"
                        /\ IF rs[k].kind = "add_job"
                           THEN g[k] = g[k - 1] + 1 /\ adds[g[k]] = rs[k].job.id
                           ELSE g[k] = g[k - 1]
  BY DEF IsCount
<1>6. \A j, k \in 0 .. n : j <= k => g[j] <= g[k] BY DEF IsCount
<1> HIDE DEF n, a, q
<1>7. (\A k \in 0 .. n : f[k] = g[k]) /\ f[n + 1] = a /\ f \in [0 .. n + 1 -> 0 .. a]
  BY <1>0, <1>1
<1> HIDE DEF f
<1>8. ASSUME NEW j \in 0 .. n + 1, NEW k \in 0 .. n + 1, j <= k PROVE f[j] <= f[k]
  <2>1. CASE k <= n
    <3>1. j \in 0 .. n /\ k \in 0 .. n BY <1>1, <1>8, <2>1
    <3> QED BY <1>6, <1>7, <1>8, <3>1
  <2>2. CASE k = n + 1 BY <1>1, <1>7, <2>2
  <2> QED BY <1>1, <2>1, <2>2
<1>9. ASSUME NEW k \in 1 .. n + 1
      PROVE  /\ k # 1 => q[k].kind # "get_jobs"
             /\ IF q[k].kind = "add_job" THEN f[k] = f[k - 1] + 1 /\ adds[f[k]] = q[k].job.id
                ELSE f[k] = f[k - 1]
  <2>1. CASE k <= n
    <3>1. k \in 1 .. n /\ k \in 0 .. n /\ k - 1 \in 0 .. n BY <1>1, <2>1
    <3>2. f[k] = g[k] /\ f[k - 1] = g[k - 1] /\ q[k] = rs[k] BY <1>2, <1>7, <3>1
    <3> QED BY <1>5, <3>1, <3>2
  <2>2. CASE k = n + 1
    <3>1. k - 1 = n /\ n \in 0 .. n BY <1>1, <2>2
    <3>2. f[k] = a /\ f[k - 1] = a /\ q[k] = r BY <1>0, <1>2, <1>7, <2>2, <3>1
    <3> QED BY <3>2
  <2> QED BY <1>1, <2>1, <2>2
<1>10. f[0] = 0 /\ f[n + 1] = a BY <1>0, <1>1, <1>7
<1>11. IsCount(f, adds, q) BY <1>0, <1>2, <1>7, <1>8, <1>9, <1>10 DEF IsCount, a
<1> QED BY <1>11 DEF q

LEMMA CountTail ==
  ASSUME NEW rs \in Seq(Requests), NEW adds, NEW g,
         IsCount(g, adds, rs), rs # <<>>, Head(rs).kind # "add_job"
  PROVE  \E f : IsCount(f, adds, Tail(rs))
<1> DEFINE n == Len(Tail(rs))
           a == Len(adds)
           q == Tail(rs)
           f == [k \in 0 .. n |-> g[k + 1]]
<1>0. adds \in Seq(IdSet) /\ g \in [0 .. Len(rs) -> 0 .. a] /\ g[0] = 0 /\ g[Len(rs)] = a
  BY DEF IsCount
<1>1. Len(rs) \in Nat \ {0} /\ n = Len(rs) - 1 /\ Head(rs) = rs[1]
      /\ \A k \in 1 .. n : q[k] = rs[k + 1]
  BY EmptySeq, HeadTailProperties
<1>2. n \in Nat /\ a \in Nat /\ 1 \in 1 .. Len(rs) BY <1>0, <1>1
<1>5. \A k \in 1 .. Len(rs) :
        /\ k # 1 => rs[k].kind # "get_jobs"
        /\ IF rs[k].kind = "add_job" THEN g[k] = g[k - 1] + 1 /\ adds[g[k]] = rs[k].job.id
           ELSE g[k] = g[k - 1]
  BY DEF IsCount
<1>6. \A j, k \in 0 .. Len(rs) : j <= k => g[j] <= g[k] BY DEF IsCount
<1> HIDE DEF n, a, q
<1>7. (\A k \in 0 .. n : f[k] = g[k + 1]) /\ f \in [0 .. n -> 0 .. a]
  <2>1. \A k \in 0 .. n : k + 1 \in 0 .. Len(rs) BY <1>1
  <2> QED BY <1>0, <2>1
<1> HIDE DEF f
<1>8. ASSUME NEW j \in 0 .. n, NEW k \in 0 .. n, j <= k PROVE f[j] <= f[k]
  <2>1. j + 1 \in 0 .. Len(rs) /\ k + 1 \in 0 .. Len(rs) /\ j + 1 <= k + 1 BY <1>1, <1>8
  <2> QED BY <1>6, <1>7, <2>1
<1>9. ASSUME NEW k \in 1 .. n
      PROVE  /\ k # 1 => q[k].kind # "get_jobs"
             /\ IF q[k].kind = "add_job" THEN f[k] = f[k - 1] + 1 /\ adds[f[k]] = q[k].job.id
                ELSE f[k] = f[k - 1]
  <2>1. k + 1 \in 1 .. Len(rs) /\ k \in 0 .. n /\ k - 1 \in 0 .. n /\ (k + 1) - 1 = k /\ (k - 1) + 1 = k
    BY <1>1
  <2>2. f[k] = g[k + 1] /\ f[k - 1] = g[k] /\ q[k] = rs[k + 1] BY <1>1, <1>7, <2>1
  <2>3. /\ rs[k + 1].kind # "get_jobs"
        /\ IF rs[k + 1].kind = "add_job" THEN g[k + 1] = g[k] + 1 /\ adds[g[k + 1]] = rs[k + 1].job.id
           ELSE g[k + 1] = g[k]
    BY <1>5, <2>1
  <2> QED BY <2>2, <2>3
<1>10. g[1] = 0
  <2>1. g[1] = g[1 - 1] BY <1>1, <1>2, <1>5
  <2> QED BY <1>0, <2>1
<1>11. f[0] = 0 /\ f[n] = a
  <2>1. 0 \in 0 .. n /\ n \in 0 .. n /\ n + 1 = Len(rs) /\ 0 + 1 = 1 BY <1>1, <1>2
  <2> QED BY <1>0, <1>7, <1>10, <2>1
<1>12. IsCount(f, adds, q) BY <1>0, <1>7, <1>8, <1>9, <1>11 DEF IsCount, a, n, q
<1> QED BY <1>12 DEF q

LEMMA CountTailAdd ==
  ASSUME NEW rs \in Seq(Requests), NEW adds, NEW g,
         IsCount(g, adds, rs), rs # <<>>, Head(rs).kind = "add_job"
  PROVE  /\ adds \in Seq(IdSet) /\ adds # <<>> /\ Head(adds) = Head(rs).job.id
         /\ \E f : IsCount(f, Tail(adds), Tail(rs))
<1> DEFINE n == Len(Tail(rs))
           a == Len(adds)
           q == Tail(rs)
           b == Tail(adds)
           f == [k \in 0 .. n |-> g[k + 1] - 1]
<1>0. adds \in Seq(IdSet) /\ g \in [0 .. Len(rs) -> 0 .. a] /\ g[0] = 0 /\ g[Len(rs)] = a
  BY DEF IsCount
<1>1. Len(rs) \in Nat \ {0} /\ n = Len(rs) - 1 /\ Head(rs) = rs[1]
      /\ \A k \in 1 .. n : q[k] = rs[k + 1]
  BY EmptySeq, HeadTailProperties
<1>2. n \in Nat /\ a \in Nat /\ 1 \in 1 .. Len(rs) BY <1>0, <1>1
<1>5. \A k \in 1 .. Len(rs) :
        /\ k # 1 => rs[k].kind # "get_jobs"
        /\ IF rs[k].kind = "add_job" THEN g[k] = g[k - 1] + 1 /\ adds[g[k]] = rs[k].job.id
           ELSE g[k] = g[k - 1]
  BY DEF IsCount
<1>6. \A j, k \in 0 .. Len(rs) : j <= k => g[j] <= g[k] BY DEF IsCount
<1>10. g[1] = 1 /\ adds[1] = Head(rs).job.id
  <2>1. g[1] = g[1 - 1] + 1 /\ adds[g[1]] = rs[1].job.id BY <1>1, <1>2, <1>5
  <2>2. g[1] = 1 BY <1>0, <2>1
  <2> QED BY <1>1, <2>1, <2>2
<1>3. a >= 1
  <2>1. g[1] \in 0 .. a BY <1>0, <1>1
  <2> QED BY <1>2, <1>10, <2>1
<1>4. adds # <<>> /\ Head(adds) = adds[1] BY <1>0, <1>3
<1>13. b \in Seq(IdSet) /\ Len(b) = a - 1 /\ \A k \in 1 .. a - 1 : b[k] = adds[k + 1]
  <2>1. b \in Seq(IdSet) /\ Len(b) = a - 1 /\ \A k \in 1 .. Len(b) : b[k] = adds[k + 1]
    BY <1>0, <1>4, HeadTailProperties
  <2> QED BY <2>1
<1> HIDE DEF n, a, q, b
<1>14. \A k \in 0 .. n : k + 1 \in 0 .. Len(rs) /\ g[k + 1] \in 1 .. a
  <2> SUFFICES ASSUME NEW k \in 0 .. n PROVE k + 1 \in 0 .. Len(rs) /\ g[k + 1] \in 1 .. a
    OBVIOUS
  <2>1. k + 1 \in 0 .. Len(rs) /\ 1 \in 0 .. Len(rs) /\ 1 <= k + 1 BY <1>1, <1>2
  <2>2. g[1] <= g[k + 1] BY <1>6, <2>1
  <2>3. g[k + 1] \in 0 .. a BY <1>0, <2>1
  <2> QED BY <1>2, <1>10, <2>1, <2>2, <2>3
<1>7. (\A k \in 0 .. n : f[k] = g[k + 1] - 1) /\ f \in [0 .. n -> 0 .. a - 1]
  <2>1. \A k \in 0 .. n : g[k + 1] - 1 \in 0 .. a - 1 BY <1>2, <1>14
  <2> QED BY <2>1
<1> HIDE DEF f
<1>8. ASSUME NEW j \in 0 .. n, NEW k \in 0 .. n, j <= k PROVE f[j] <= f[k]
  <2>1. j + 1 \in 0 .. Len(rs) /\ k + 1 \in 0 .. Len(rs) /\ j + 1 <= k + 1 BY <1>1, <1>8
  <2>2. g[j + 1] <= g[k + 1] BY <1>6, <2>1
  <2>3. g[j + 1] \in 1 .. a /\ g[k + 1] \in 1 .. a BY <1>14
  <2>4. f[j] = g[j + 1] - 1 /\ f[k] = g[k + 1] - 1 BY <1>7
  <2> QED BY <1>2, <2>2, <2>3, <2>4
<1>9. ASSUME NEW k \in 1 .. n
      PROVE  /\ k # 1 => q[k].kind # "get_jobs"
             /\ IF q[k].kind = "add_job" THEN f[k] = f[k - 1] + 1 /\ b[f[k]] = q[k].job.id
                ELSE f[k] = f[k - 1]
  <2>1. k + 1 \in 1 .. Len(rs) /\ k \in 0 .. n /\ k - 1 \in 0 .. n /\ (k + 1) - 1 = k /\ (k - 1) + 1 = k
    BY <1>1
  <2>2. f[k] = g[k + 1] - 1 /\ f[k - 1] = g[k] - 1 /\ q[k] = rs[k + 1] BY <1>1, <1>7, <2>1
  <2>3. /\ rs[k + 1].kind # "get_jobs"
        /\ IF rs[k + 1].kind = "add_job" THEN g[k + 1] = g[k] + 1 /\ adds[g[k + 1]] = rs[k + 1].job.id
           ELSE g[k + 1] = g[k]
    BY <1>5, <2>1
  <2>4. g[k + 1] \in 1 .. a /\ g[k] \in 1 .. a
    <3>1. g[(k - 1) + 1] \in 1 .. a BY <1>14, <2>1
    <3> QED BY <1>14, <2>1, <3>1
  <2>5. CASE rs[k + 1].kind = "add_job"
    <3>1. g[k + 1] = g[k] + 1 /\ adds[g[k + 1]] = rs[k + 1].job.id BY <2>3, <2>5
    <3>2. f[k] \in 1 .. a - 1 /\ f[k] + 1 = g[k + 1] /\ f[k] = f[k - 1] + 1 BY <1>2, <2>2, <2>4, <3>1
    <3>3. b[f[k]] = adds[f[k] + 1] BY <1>13, <3>2
    <3> QED BY <2>2, <2>5, <3>1, <3>2, <3>3
  <2>6. CASE rs[k + 1].kind # "add_job" BY <2>2, <2>3, <2>6
  <2> QED BY <2>5, <2>6
<1>11. f[0] = 0 /\ f[n] = a - 1
  <2>1. 0 \in 0 .. n /\ n \in 0 .. n /\ n + 1 = Len(rs) /\ 0 + 1 = 1 BY <1>1, <1>2
  <2>2. f[0] = g[0 + 1] - 1 /\ f[n] = g[n + 1] - 1 BY <1>7, <2>1
  <2>3. f[0] = g[1] - 1 /\ f[n] = a - 1 BY <1>0, <2>1, <2>2
  <2> QED BY <1>10, <2>3
<1>12. IsCount(f, b, q) BY <1>7, <1>8, <1>9, <1>11, <1>13 DEF IsCount, n, q
<1> QED BY <1>0, <1>4, <1>10, <1>12 DEF q, b

\* Requests that add no job
LEMMA CountNone ==
  ASSUME NEW rs \in Seq(Requests), NEW adds, NEW g, IsCount(g, adds, rs),
         \A k \in 1 .. Len(rs) : rs[k].kind # "add_job"
  PROVE  adds = <<>>
<1> DEFINE n == Len(rs)
           S == {k \in Nat : k <= n => g[k] = 0}
<1>0. n \in Nat /\ adds \in Seq(IdSet) /\ g[0] = 0 /\ g[n] = Len(adds) BY DEF IsCount
<1>1. \A k \in 1 .. n : g[k] = g[k - 1] BY DEF IsCount
<1> HIDE DEF n
<1>2. 0 \in S BY <1>0
<1>3. ASSUME NEW k \in S PROVE k + 1 \in S
  <2>1. k \in Nat /\ (k <= n => g[k] = 0) OBVIOUS
  <2>2. k + 1 \in Nat BY ONLY <2>1
  <2>3. k + 1 <= n => k <= n /\ k + 1 \in 1 .. n /\ (k + 1) - 1 = k BY ONLY <1>0, <2>1
  <2>4. k + 1 <= n => g[k + 1] = g[(k + 1) - 1] BY <1>1, <2>3
  <2>5. k + 1 <= n => g[k + 1] = 0 BY ONLY <2>1, <2>3, <2>4
  <2> QED BY ONLY <2>2, <2>5
<1>4. S = Nat
  <2>1. S \in SUBSET Nat OBVIOUS
  <2> HIDE DEF S
  <2> QED BY <1>2, <1>3, <2>1, Induction
<1>5. Len(adds) = 0 BY <1>0, <1>4
<1> QED BY <1>0, <1>5, EmptySeq

\* The list of jobs is not asked for again.
LEMMA AskedOnce ==
  ASSUME NEW rs \in Seq(Requests), NEW adds, NEW g, IsCount(g, adds, rs), rs # <<>>
  PROVE  ~ListAsked(Tail(rs))
<1> SUFFICES ASSUME Tail(rs) # <<>>, Head(Tail(rs)).kind = "get_jobs" PROVE FALSE
  BY DEF ListAsked
<1>1. Tail(rs) \in Seq(Requests) /\ Len(Tail(rs)) = Len(rs) - 1
      /\ \A k \in 1 .. Len(Tail(rs)) : Tail(rs)[k] = rs[k + 1]
  BY HeadTailProperties
<1>2. Len(Tail(rs)) \in Nat \ {0} /\ Head(Tail(rs)) = Tail(rs)[1] BY <1>1, EmptySeq
<1>3. 1 \in 1 .. Len(Tail(rs)) BY <1>2
<1>4. Head(Tail(rs)) = rs[1 + 1] BY <1>1, <1>2, <1>3
<1>5. 2 \in 1 .. Len(rs) BY <1>1, <1>2
<1>6. rs[2].kind # "get_jobs"
  <2>1. \A k \in 1 .. Len(rs) : k # 1 => rs[k].kind # "get_jobs" BY DEF IsCount
  <2> QED BY <1>5, <2>1
<1> QED BY <1>4, <1>6

-----------------------------------------------------------------------------
(* What a step does to the trace *)

\* One more request behind the first
LEMMA FirstStays ==
  ASSUME NEW rs \in Seq(Requests), NEW r \in Requests
  PROVE  Append(rs, r) # <<>> /\ Head(Append(rs, r)) = IF rs = <<>> THEN r ELSE Head(rs)
<1>1. Append(rs, r) \in Seq(Requests) /\ Append(rs, r) # <<>> /\ Len(Append(rs, r)) = Len(rs) + 1
      /\ (\A i \in 1 .. Len(rs) : Append(rs, r)[i] = rs[i]) /\ Append(rs, r)[Len(rs) + 1] = r
  BY AppendProperties
<1>2. CASE rs = <<>>
  <2>1. Len(rs) = 0 BY <1>2
  <2>2. Append(rs, r)[1] = r BY <1>1, <2>1
  <2> QED BY <1>1, <1>2, <2>2
<1>3. CASE rs # <<>>
  <2>1. Len(rs) \in Nat \ {0} BY <1>3, EmptySeq
  <2>2. Append(rs, r)[1] = rs[1] BY <1>1, <2>1
  <2> QED BY <1>1, <1>3, <2>2
<1> QED BY <1>2, <1>3

LEMMA AskedStays ==
  ASSUME NEW rs \in Seq(Requests), NEW r \in Requests, r.kind # "get_jobs"
  PROVE  ListAsked(Append(rs, r)) = ListAsked(rs)
<1>1. Append(rs, r) # <<>> /\ Head(Append(rs, r)) = IF rs = <<>> THEN r ELSE Head(rs) BY FirstStays
<1> QED BY <1>1 DEF ListAsked

\* The window asks for the list of jobs.
LEMMA TracedInit ==
  ASSUME NEW d \in Seq(IdSet), NEW r \in Requests, r.kind = "get_jobs", NEW crossed \in BOOLEAN
  PROVE  Traced(<<>>, <<>>, d, <<r>>, crossed)
<1> DEFINE h == [k \in 0 .. 0 |-> <<>>]
           g == [k \in 0 .. 1 |-> 0]
           rs == <<r>>
<1>0. Len(<<>>) = 0 /\ <<>> \in Seq(IdSet) /\ rs # <<>> /\ Len(rs) = 1 /\ rs[1] = r /\ Head(rs) = r
  OBVIOUS
<1>1. h \in [0 .. 0 -> Seq(IdSet)] /\ h[0] = <<>> BY <1>0
<1> HIDE DEF h, rs
<1>2. IsReplay(h, <<>>, <<>>)
  <2>1. \A k \in 1 .. 0 : FALSE OBVIOUS
  <2> QED BY <1>0, <1>1, <2>1 DEF IsReplay
<1>3. Exactly(h, <<>>)
  <2>1. \A k \in 1 .. 0 : FALSE OBVIOUS
  <2> QED BY <1>0, <2>1 DEF Exactly
<1>4. g \in [0 .. 1 -> 0 .. 0] /\ \A k \in 0 .. 1 : g[k] = 0 OBVIOUS
<1> HIDE DEF g
<1>5. IsCount(g, <<>>, rs)
  <2>1. \A j, k \in 0 .. 1 : j <= k => g[j] <= g[k] BY <1>4
  <2>2. \A k \in 1 .. 1 : /\ k # 1 => rs[k].kind # "get_jobs"
                          /\ IF rs[k].kind = "add_job" THEN g[k] = g[k - 1] + 1 /\ <<>>[g[k]] = rs[k].job.id
                             ELSE g[k] = g[k - 1]
    <3>1. ASSUME NEW k \in 1 .. 1 PROVE k = 1 /\ g[k] = g[k - 1] /\ rs[k].kind # "add_job"
      BY <1>0, <1>4
    <3> QED BY <3>1
  <2> QED BY <1>0, <1>4, <2>1, <2>2 DEF IsCount
<1>6. ListAsked(rs) BY <1>0 DEF ListAsked
<1> QED BY <1>2, <1>3, <1>5, <1>6 DEF Traced, rs

\* Nothing on its way: the two lists are one.
LEMMA TracedEnd ==
  ASSUME NEW s, NEW d \in Seq(IdSet), NEW crossed \in BOOLEAN, Traced(s, <<>>, d, <<>>, crossed)
  PROVE  s = d
<1>1. PICK h, g, adds :
        /\ IsReplay(h, s, <<>>) /\ IsCount(g, adds, <<>>)
        /\ ListAsked(<<>>) \/ Covers(h[Len(<<>>)], d, Len(adds))
  BY DEF Traced
<1>2. Len(<<>>) = 0 OBVIOUS
<1>3. h[0] = s /\ s \in Seq(IdSet) BY <1>1, <1>2 DEF IsReplay
<1>4. g[0] = 0 /\ g[Len(<<>>)] = Len(adds) BY <1>1 DEF IsCount
<1>5. Len(adds) = 0 BY <1>2, <1>4
<1>6. Covers(s, d, 0) BY <1>1, <1>2, <1>3, <1>5 DEF ListAsked
<1>7. Len(s) \in Nat /\ Len(d) \in Nat BY <1>3
<1>8. Len(s) = Len(d) /\ \A i \in 1 .. Len(d) : s[i] = d[i] BY <1>6, <1>7 DEF Covers
<1> QED BY <1>3, <1>8, SameList

\* Concatenation of identities may be regrouped.
LEMMA ConcatRegroups == \A u, v, w \in Seq(IdSet) : (u \o v) \o w = u \o (v \o w)
<1> SUFFICES ASSUME NEW u \in Seq(IdSet), NEW v \in Seq(IdSet), NEW w \in Seq(IdSet)
             PROVE  (u \o v) \o w = u \o (v \o w)
  OBVIOUS
<1> QED BY ONLY u \in Seq(IdSet), v \in Seq(IdSet), w \in Seq(IdSet), ConcatAssociative

\* The window adds a job to its list and asks the daemon to add it.
LEMMA TracedAdd ==
  ASSUME NEW s \in Seq(IdSet), NEW ms \in Seq(Notes \cup Lists), NEW d \in Seq(IdSet),
         NEW rs \in Seq(Requests), NEW r \in Requests, r.kind = "add_job",
         NEW crossed \in BOOLEAN, NEW later \in BOOLEAN, Traced(s, ms, d, rs, crossed),
         ~later => /\ ~crossed /\ ~ListAsked(rs)
                 /\ \A k \in 1 .. Len(ms) : ms[k].kind # "jobs_list"
  PROVE  Traced(Append(s, r.job.id), ms, d, Append(rs, r), later)
<1> DEFINE x == r.job.id
<1>0. x \in IdSet BY DEF Requests, JobRec
<1>1. PICK h, g, adds :
        /\ IsReplay(h, s, ms) /\ IsCount(g, adds, rs)
        /\ ListAsked(rs) \/ Covers(h[Len(ms)], d, Len(adds))
        /\ ~crossed => Exactly(h, ms) /\ (ListAsked(rs) \/ h[Len(ms)] = d \o adds)
  BY DEF Traced
<1>2. adds \in Seq(IdSet) BY <1>1 DEF IsCount
<1> HIDE DEF x
<1>3. PICK f : /\ IsReplay(f, Append(s, x), ms)
               /\ f[Len(ms)] \in {h[Len(ms)], Append(h[Len(ms)], x)}
               /\ Exactly(h, ms) /\ (\A k \in 1 .. Len(ms) : ms[k].kind # "jobs_list")
                    => Exactly(f, ms) /\ f[Len(ms)] = Append(h[Len(ms)], x)
  BY <1>0, <1>1, ReplayAppend
<1>4. PICK c : IsCount(c, Append(adds, x), Append(rs, r)) BY <1>1, CountAdd DEF x
<1>5. Append(d \o adds, x) = d \o Append(adds, x)
  <2>1. Append(adds, x) = adds \o <<x>> BY <1>0, <1>2, AppendIsConcat
  <2>2. d \o adds \in Seq(IdSet) BY <1>2, ConcatProperties
  <2>3. Append(d \o adds, x) = (d \o adds) \o <<x>> BY <1>0, <2>2, AppendIsConcat
  <2>4. <<x>> \in Seq(IdSet) BY <1>0
  <2>5. (d \o adds) \o <<x>> = d \o (adds \o <<x>>) BY <1>2, <2>4, ConcatRegroups, Zenon
  <2> QED BY <2>1, <2>3, <2>5
<1>6. ListAsked(Append(rs, r)) = ListAsked(rs) BY AskedStays
<1>7. ~later => Exactly(f, ms) /\ f[Len(ms)] = d \o Append(adds, x) BY <1>1, <1>3, <1>5
<1>8. Covers(h[Len(ms)], d, Len(adds)) => Covers(f[Len(ms)], d, Len(Append(adds, x)))
  <2> DEFINE e == h[Len(ms)]
  <2>1. e \in Seq(IdSet)
    <3>1. Len(ms) \in 0 .. Len(ms) OBVIOUS
    <3> QED BY <1>1, <3>1 DEF IsReplay
  <2>2. Len(Append(adds, x)) = Len(adds) + 1 /\ Len(adds) \in Nat /\ Len(d) \in Nat /\ Len(e) \in Nat
    BY <1>0, <1>2, <2>1
  <2>3. Len(Append(e, x)) = Len(e) + 1 /\ \A i \in 1 .. Len(e) : Append(e, x)[i] = e[i]
    BY <1>0, <2>1, AppendProperties
  <2>4. f[Len(ms)] = e \/ f[Len(ms)] = Append(e, x) BY <1>3
  <2> HIDE DEF e
  <2>5. Covers(e, d, Len(adds)) => Covers(e, d, Len(adds) + 1) BY <2>2 DEF Covers
  <2>6. Covers(e, d, Len(adds)) => Covers(Append(e, x), d, Len(adds) + 1)
    BY <2>2, <2>3 DEF Covers
  <2>7. Covers(e, d, Len(adds)) => Covers(f[Len(ms)], d, Len(adds) + 1)
    <3>1. CASE f[Len(ms)] = e BY <2>5, <3>1
    <3>2. CASE f[Len(ms)] = Append(e, x) BY <2>6, <3>2
    <3> QED BY <2>4, <3>1, <3>2
  <2> QED BY <2>2, <2>7 DEF e
<1>9. ListAsked(Append(rs, r)) \/ Covers(f[Len(ms)], d, Len(Append(adds, x))) BY <1>1, <1>6, <1>8
<1> QED BY <1>3, <1>4, <1>7, <1>9 DEF Traced, x

\* The window sends another request.
LEMMA TracedAsk ==
  ASSUME NEW s, NEW ms, NEW d, NEW rs \in Seq(Requests), NEW r \in Requests,
         r.kind \notin {"add_job", "get_jobs"}, NEW crossed \in BOOLEAN,
         Traced(s, ms, d, rs, crossed)
  PROVE  Traced(s, ms, d, Append(rs, r), crossed)
<1>1. PICK h, g, adds :
        /\ IsReplay(h, s, ms) /\ IsCount(g, adds, rs)
        /\ ListAsked(rs) \/ Covers(h[Len(ms)], d, Len(adds))
        /\ ~crossed => Exactly(h, ms) /\ (ListAsked(rs) \/ h[Len(ms)] = d \o adds)
  BY DEF Traced
<1>2. PICK c : IsCount(c, adds, Append(rs, r)) BY <1>1, CountOther
<1>3. ListAsked(Append(rs, r)) = ListAsked(rs) BY AskedStays
<1> QED BY <1>1, <1>2, <1>3 DEF Traced

\* The window reads the first broadcast.
LEMMA TracedRead ==
  ASSUME NEW s \in Seq(IdSet), NEW ms \in Seq(Notes \cup Lists), NEW d, NEW rs,
         NEW crossed \in BOOLEAN, ms # <<>>, Traced(s, ms, d, rs, crossed)
  PROVE  /\ Fits(Head(ms), s) /\ (~crossed => InPlace(Head(ms), s))
         /\ Traced(Then(Head(ms), s), Tail(ms), d, rs, crossed)
<1>1. PICK h, g, adds :
        /\ IsReplay(h, s, ms) /\ IsCount(g, adds, rs)
        /\ ListAsked(rs) \/ Covers(h[Len(ms)], d, Len(adds))
        /\ ~crossed => Exactly(h, ms) /\ (ListAsked(rs) \/ h[Len(ms)] = d \o adds)
  BY DEF Traced
<1>2. Fits(Head(ms), s) /\ (~crossed => InPlace(Head(ms), s)) BY <1>1, ReplayTail
<1>3. PICK f : /\ IsReplay(f, Then(Head(ms), s), Tail(ms)) /\ f[Len(Tail(ms))] = h[Len(ms)]
               /\ Exactly(h, ms) => Exactly(f, Tail(ms))
  BY <1>1, ReplayTail
<1>4. /\ ListAsked(rs) \/ Covers(f[Len(Tail(ms))], d, Len(adds))
      /\ ~crossed => Exactly(f, Tail(ms)) /\ (ListAsked(rs) \/ f[Len(Tail(ms))] = d \o adds)
  BY <1>1, <1>3
<1> QED BY <1>1, <1>2, <1>3, <1>4 DEF Traced

\* The daemon drops the first request, or has answered it without a change.
LEMMA TracedDrop ==
  ASSUME NEW s, NEW ms, NEW d, NEW rs \in Seq(Requests), rs # <<>>,
         Head(rs).kind \notin {"add_job", "get_jobs"},
         NEW crossed \in BOOLEAN, Traced(s, ms, d, rs, crossed)
  PROVE  Traced(s, ms, d, Tail(rs), crossed)
<1>1. PICK h, g, adds :
        /\ IsReplay(h, s, ms) /\ IsCount(g, adds, rs)
        /\ ListAsked(rs) \/ Covers(h[Len(ms)], d, Len(adds))
        /\ ~crossed => Exactly(h, ms) /\ (ListAsked(rs) \/ h[Len(ms)] = d \o adds)
  BY DEF Traced
<1>2. PICK c : IsCount(c, adds, Tail(rs)) BY <1>1, CountTail
<1>3. ~ListAsked(rs) BY DEF ListAsked
<1> QED BY <1>1, <1>2, <1>3 DEF Traced

\* The broadcast m tells a change of the list d into e: whatever list covers d,
\* or has the jobs to come behind it, does so with e afterwards.
Says(m, d, e) ==
  /\ \A t \in Seq(IdSet), n \in Nat :
       Covers(t, d, n) => Fits(m, t) /\ Covers(Then(m, t), e, n)
  /\ \A adds \in Seq(IdSet) : Then(m, d \o adds) = e \o adds

\* The daemon changes its list to e and says so.
LEMMA TracedTell ==
  ASSUME NEW s \in Seq(IdSet), NEW ms \in Seq(Notes \cup Lists), NEW d \in Seq(IdSet), NEW rs,
         NEW m \in Notes, NEW e, NEW crossed \in BOOLEAN, m.kind # "job_added",
         ListAsked(rs) => m.kind \in {"job_started", "job_completed", "job_stopped"},
         Says(m, d, e), Traced(s, ms, d, rs, crossed)
  PROVE  Traced(s, Append(ms, m), e, rs, crossed)
<1>1. PICK h, g, adds :
        /\ IsReplay(h, s, ms) /\ IsCount(g, adds, rs)
        /\ ListAsked(rs) \/ Covers(h[Len(ms)], d, Len(adds))
        /\ ~crossed => Exactly(h, ms) /\ (ListAsked(rs) \/ h[Len(ms)] = d \o adds)
  BY DEF Traced
<1>2. adds \in Seq(IdSet) /\ Len(adds) \in Nat BY <1>1 DEF IsCount
<1>3. h[Len(ms)] \in Seq(IdSet)
  <2>1. Len(ms) \in 0 .. Len(ms) OBVIOUS
  <2> QED BY <1>1, <2>1 DEF IsReplay
<1>4. Fits(m, h[Len(ms)])
  <2>1. ListAsked(rs) => Fits(m, h[Len(ms)]) BY DEF Fits
  <2> QED BY <1>1, <1>2, <1>3, <2>1 DEF Says
<1>5. InPlace(m, h[Len(ms)]) BY DEF InPlace
<1>6. PICK f : /\ IsReplay(f, s, Append(ms, m))
               /\ f[Len(Append(ms, m))] = Then(m, h[Len(ms)])
               /\ Exactly(h, ms) /\ InPlace(m, h[Len(ms)]) => Exactly(f, Append(ms, m))
  BY <1>1, <1>4, ReplayNext
<1>7. ListAsked(rs) \/ Covers(f[Len(Append(ms, m))], e, Len(adds)) BY <1>1, <1>2, <1>3, <1>6 DEF Says
<1>8. ~crossed => /\ Exactly(f, Append(ms, m))
                  /\ ListAsked(rs) \/ f[Len(Append(ms, m))] = e \o adds
  BY <1>1, <1>2, <1>5, <1>6 DEF Says
<1> QED BY <1>1, <1>6, <1>7, <1>8 DEF Traced

\* The daemon sends its list, asked to or not.
LEMMA TracedList ==
  ASSUME NEW s \in Seq(IdSet), NEW ms \in Seq(Notes \cup Lists), NEW d \in Seq(IdSet),
         NEW rs \in Seq(Requests), NEW m \in Lists, Ids(m.jobs) = d,
         NEW crossed \in BOOLEAN, NEW later \in BOOLEAN,
         ~later => ~crossed /\ \A k \in 1 .. Len(rs) : rs[k].kind # "add_job",
         Traced(s, ms, d, rs, crossed)
  PROVE  /\ Traced(s, Append(ms, m), d, rs, later)
         /\ ListAsked(rs) => Traced(s, Append(ms, m), d, Tail(rs), later)
<1>1. PICK h, g, adds :
        /\ IsReplay(h, s, ms) /\ IsCount(g, adds, rs)
        /\ ListAsked(rs) \/ Covers(h[Len(ms)], d, Len(adds))
        /\ ~crossed => Exactly(h, ms) /\ (ListAsked(rs) \/ h[Len(ms)] = d \o adds)
  BY DEF Traced
<1>2. adds \in Seq(IdSet) /\ Len(adds) \in Nat BY <1>1 DEF IsCount
<1>3. m.kind = "jobs_list" BY DEF Lists
<1>4. Fits(m, h[Len(ms)]) /\ InPlace(m, h[Len(ms)]) /\ Then(m, h[Len(ms)]) = d
  BY <1>3 DEF Fits, InPlace, Then
<1>5. PICK f : /\ IsReplay(f, s, Append(ms, m))
               /\ f[Len(Append(ms, m))] = Then(m, h[Len(ms)])
               /\ Exactly(h, ms) /\ InPlace(m, h[Len(ms)]) => Exactly(f, Append(ms, m))
  BY <1>1, <1>4, ReplayNext
<1>6. f[Len(Append(ms, m))] = d BY <1>4, <1>5
<1>7. Covers(d, d, Len(adds))
  <2>1. Len(d) \in Nat OBVIOUS
  <2> QED BY <1>2, <2>1 DEF Covers
<1>8. ~later => d = d \o adds
  <2>1. ~later => adds = <<>> BY <1>1, CountNone
  <2>2. d \o <<>> = d BY ConcatEmptySeq
  <2> QED BY <2>1, <2>2
<1>9. ~later => Exactly(f, Append(ms, m)) BY <1>1, <1>4, <1>5
<1>10. Traced(s, Append(ms, m), d, rs, later)
  <2>1. /\ ListAsked(rs) \/ Covers(f[Len(Append(ms, m))], d, Len(adds))
        /\ ~later => /\ Exactly(f, Append(ms, m))
                     /\ ListAsked(rs) \/ f[Len(Append(ms, m))] = d \o adds
    BY <1>6, <1>7, <1>8, <1>9
  <2> QED BY <1>1, <1>5, <2>1 DEF Traced
<1>11. ASSUME ListAsked(rs) PROVE Traced(s, Append(ms, m), d, Tail(rs), later)
  <2>1. rs # <<>> /\ Head(rs).kind # "add_job" BY <1>11 DEF ListAsked
  <2>2. PICK c : IsCount(c, adds, Tail(rs)) BY <1>1, <2>1, CountTail
  <2>3. /\ ListAsked(Tail(rs)) \/ Covers(f[Len(Append(ms, m))], d, Len(adds))
        /\ ~later => /\ Exactly(f, Append(ms, m))
                     /\ ListAsked(Tail(rs)) \/ f[Len(Append(ms, m))] = d \o adds
    BY <1>6, <1>7, <1>8, <1>9
  <2> QED BY <1>5, <2>2, <2>3 DEF Traced
<1> QED BY <1>10, <1>11

\* The daemon adds the job of the first request and says so.
LEMMA TracedAdded ==
  ASSUME NEW s \in Seq(IdSet), NEW ms \in Seq(Notes \cup Lists), NEW d \in Seq(IdSet),
         NEW rs \in Seq(Requests), rs # <<>>, Head(rs).kind = "add_job",
         NEW m \in Notes, m.kind = "job_added", m.index = Len(d) + 1, m.job = Head(rs).job,
         NEW crossed \in BOOLEAN, Traced(s, ms, d, rs, crossed)
  PROVE  Traced(s, Append(ms, m), Append(d, Head(rs).job.id), Tail(rs), crossed)
<1> DEFINE x == Head(rs).job.id
           e == Append(d, x)
           n == Len(d) + 1
<1>0. x \in IdSet /\ m.job.id = x
  <2>1. Head(rs) \in Requests BY HeadTailProperties
  <2> QED BY <2>1 DEF Requests, JobRec
<1>1. PICK h, g, adds :
        /\ IsReplay(h, s, ms) /\ IsCount(g, adds, rs)
        /\ ListAsked(rs) \/ Covers(h[Len(ms)], d, Len(adds))
        /\ ~crossed => Exactly(h, ms) /\ (ListAsked(rs) \/ h[Len(ms)] = d \o adds)
  BY DEF Traced
<1>1a. ~ListAsked(rs) BY DEF ListAsked
<1>2. adds \in Seq(IdSet) /\ adds # <<>> /\ Head(adds) = x BY <1>1, CountTailAdd
<1>3. PICK c : IsCount(c, Tail(adds), Tail(rs)) BY <1>1, CountTailAdd
<1> DEFINE t == h[Len(ms)]
<1>4. t \in Seq(IdSet)
  <2>1. Len(ms) \in 0 .. Len(ms) OBVIOUS
  <2> QED BY <1>1, <2>1 DEF IsReplay
<1> HIDE DEF x, t
<1>5. Len(d) \in Nat /\ Len(adds) \in Nat \ {0} /\ adds[1] = x /\ Len(t) \in Nat
      /\ Len(Tail(adds)) = Len(adds) - 1
  BY <1>2, <1>4, EmptySeq, HeadTailProperties
<1>6. Covers(t, d, Len(adds)) BY <1>1, <1>1a DEF t
<1>7. Fits(m, t) /\ Covers(Then(m, t), e, Len(Tail(adds)))
  <2>1. n \in 1 .. Len(t) + 1 BY <1>5, <1>6 DEF Covers
  <2>2. Fits(m, t) BY <2>1 DEF Fits
  <2>3. Len(e) = n /\ e[n] = x /\ \A i \in 1 .. Len(d) : e[i] = d[i] BY <1>0, AppendProperties
  <2> HIDE DEF e
  <2>4. CASE n > Len(t)
    <3> DEFINE q == Append(t, x)
    <3>1. Then(m, t) = q BY <1>0, <2>4 DEF Then
    <3>2. Len(t) = Len(d) BY <1>5, <2>1, <2>4
    <3>3. Len(q) = n /\ q[n] = x /\ \A i \in 1 .. Len(d) : q[i] = t[i]
      BY <1>0, <1>4, <3>2, AppendProperties
    <3> HIDE DEF q
    <3>4. \A i \in 1 .. n : q[i] = e[i]
      <4>1. \A i \in 1 .. n : i = n \/ i \in 1 .. Len(d) BY <1>5
      <4>2. \A i \in 1 .. Len(d) : q[i] = e[i] BY <1>6, <2>3, <3>3 DEF Covers
      <4> QED BY <2>3, <3>3, <4>1, <4>2
    <3>5. Covers(q, e, Len(Tail(adds))) BY <1>5, <2>3, <3>3, <3>4 DEF Covers
    <3> QED BY <2>2, <3>1, <3>5
  <2>5. CASE ~(n > Len(t))
    <3> DEFINE q == [t EXCEPT ![n] = x]
    <3>1. Then(m, t) = q BY <1>0, <2>5 DEF Then
    <3>2. n \in 1 .. Len(t) BY <2>1, <2>5, <1>5
    <3>3. Len(q) = Len(t) /\ \A i \in 1 .. Len(t) : q[i] = IF i = n THEN x ELSE t[i]
      BY <1>0, <1>4, <3>2, ExceptSeq
    <3> HIDE DEF q
    <3>4. \A i \in 1 .. n : q[i] = e[i]
      <4>1. \A i \in 1 .. n : i \in 1 .. Len(t) /\ (i = n \/ (i # n /\ i \in 1 .. Len(d)))
        BY <1>5, <3>2
      <4>2. ASSUME NEW i \in 1 .. n PROVE q[i] = e[i]
        <5>1. i \in 1 .. Len(t) /\ (i = n \/ (i # n /\ i \in 1 .. Len(d))) BY <4>1
        <5>2. CASE i = n BY <2>3, <3>3, <5>1, <5>2
        <5>3. CASE i # n /\ i \in 1 .. Len(d)
          <6>1. q[i] = t[i] BY <3>3, <5>1, <5>3
          <6>2. t[i] = d[i] BY <1>6, <5>3 DEF Covers
          <6> QED BY <2>3, <5>3, <6>1, <6>2
        <5> QED BY <5>1, <5>2, <5>3
      <4> QED BY <4>2
    <3>5. n <= Len(q) /\ Len(q) <= n + (Len(adds) - 1) BY <1>5, <1>6, <3>2, <3>3 DEF Covers
    <3>6. Covers(q, e, Len(Tail(adds))) BY <1>5, <2>3, <3>4, <3>5 DEF Covers
    <3> QED BY <2>2, <3>1, <3>6
  <2> QED BY <2>4, <2>5
<1>8. ASSUME t = d \o adds
      PROVE  InPlace(m, t) /\ Then(m, t) = t
  <2>1. t \in Seq(IdSet) /\ Len(t) = Len(d) + Len(adds)
        /\ \A i \in 1 .. Len(d) + Len(adds) : t[i] = IF i <= Len(d) THEN d[i] ELSE adds[i - Len(d)]
    BY <1>2, <1>4, <1>8, ConcatProperties
  <2>2. n \in 1 .. Len(d) + Len(adds) /\ ~(n <= Len(d)) /\ n - Len(d) = 1 BY <1>5
  <2>3. t[n] = x BY <1>5, <2>1, <2>2
  <2>4. DOMAIN t = 1 .. Len(t) BY <1>4
  <2>5. n \in DOMAIN t /\ ~(n > Len(t)) BY <1>5, <2>1, <2>2, <2>4
  <2>6. [t EXCEPT ![n] = x] = t
    <3>1. t = [k \in DOMAIN t |-> t[k]] BY <1>4
    <3> QED BY <2>3, <3>1
  <2>7. InPlace(m, t) BY <1>0, <2>3, <2>5 DEF InPlace
  <2>8. Then(m, t) = t BY <1>0, <2>5, <2>6 DEF Then
  <2> QED BY <2>7, <2>8
<1>9. PICK f : /\ IsReplay(f, s, Append(ms, m))
               /\ f[Len(Append(ms, m))] = Then(m, t)
               /\ Exactly(h, ms) /\ InPlace(m, t) => Exactly(f, Append(ms, m))
  BY <1>1, <1>7, ReplayNext DEF t
<1>10. d \o adds = e \o Tail(adds)
  <2>1. e = d \o <<x>> BY <1>0, AppendIsConcat
  <2>2. <<x>> \in Seq(IdSet) /\ Tail(adds) \in Seq(IdSet) BY <1>0, <1>2
  <2>3. (d \o <<x>>) \o Tail(adds) = d \o (<<x>> \o Tail(adds)) BY <2>2, ConcatRegroups, Zenon
  <2>4. <<x>> \o Tail(adds) = adds
    <3>1. /\ <<x>> \o Tail(adds) \in Seq(IdSet)
          /\ Len(<<x>> \o Tail(adds)) = Len(<<x>>) + Len(Tail(adds))
          /\ \A i \in 1 .. Len(<<x>>) + Len(Tail(adds)) :
               (<<x>> \o Tail(adds))[i] = IF i <= Len(<<x>>) THEN <<x>>[i] ELSE Tail(adds)[i - Len(<<x>>)]
      BY <2>2, ConcatProperties
    <3>2. Len(<<x>>) = 1 /\ <<x>>[1] = x /\ Len(Tail(adds)) = Len(adds) - 1
          /\ \A i \in 1 .. Len(adds) - 1 : Tail(adds)[i] = adds[i + 1]
      BY <1>2, HeadTailProperties
    <3> DEFINE v == <<x>> \o Tail(adds)
    <3>3. Len(v) = Len(adds) /\ \A i \in 1 .. Len(adds) : v[i] = IF i <= 1 THEN x ELSE adds[i]
      <4>1. Len(<<x>>) + Len(Tail(adds)) = Len(adds) BY <1>5, <3>2
      <4>2. ASSUME NEW i \in 1 .. Len(adds) PROVE v[i] = IF i <= 1 THEN x ELSE adds[i]
        <5>1. CASE i <= 1
          <6>1. i = 1 BY <5>1
          <6> QED BY <3>1, <3>2, <4>1, <6>1
        <5>2. CASE ~(i <= 1)
          <6>1. i - 1 \in 1 .. Len(adds) - 1 /\ (i - 1) + 1 = i BY <1>5, <5>2
          <6>2. v[i] = Tail(adds)[i - 1] BY <3>1, <3>2, <4>1, <5>2
          <6>3. Tail(adds)[i - 1] = adds[i] BY <3>2, <6>1
          <6> QED BY <5>2, <6>2, <6>3
        <5> QED BY <5>1, <5>2
      <4> QED BY <3>1, <4>1, <4>2
    <3> HIDE DEF v
    <3>4. \A i \in 1 .. Len(v) : v[i] = adds[i] BY <1>5, <3>3
    <3>5. v \in Seq(IdSet) BY <3>1 DEF v
    <3>6. v = adds BY <1>2, <3>3, <3>4, <3>5, SameList
    <3> QED BY <3>6 DEF v
  <2> QED BY <2>1, <2>3, <2>4
<1>11. Covers(f[Len(Append(ms, m))], e, Len(Tail(adds))) BY <1>7, <1>9
<1>12. ~crossed => Exactly(f, Append(ms, m)) /\ f[Len(Append(ms, m))] = e \o Tail(adds)
  <2> SUFFICES ASSUME ~crossed
               PROVE  Exactly(f, Append(ms, m)) /\ f[Len(Append(ms, m))] = e \o Tail(adds)
    OBVIOUS
  <2>1. Exactly(h, ms) /\ t = d \o adds BY <1>1, <1>1a DEF t
  <2>2. InPlace(m, t) /\ Then(m, t) = t BY <1>8, <2>1
  <2> QED BY <1>9, <1>10, <2>1, <2>2
<1> QED BY <1>3, <1>9, <1>11, <1>12 DEF Traced, x

\* What the daemon says, for the lists that cover its own
LEMMA SaysQuiet ==
  ASSUME NEW d, NEW m, m.kind \in {"job_started", "job_completed", "job_stopped"}
  PROVE  Says(m, d, d)
BY DEF Says, Fits, Then

LEMMA SaysUpdated ==
  ASSUME NEW d \in Seq(IdSet), NEW m \in Notes, m.kind = "job_updated", m.index \in 1 .. Len(d),
         NEW e, e = [d EXCEPT ![m.index] = m.job.id]
  PROVE  Says(m, d, e)
<1> DEFINE i == m.index
           x == m.job.id
<1>1. x \in IdSet /\ Len(d) \in Nat BY DEF Notes, JobRec
<1>2. ASSUME NEW t \in Seq(IdSet), NEW n \in Nat, Covers(t, d, n)
      PROVE  Fits(m, t) /\ Covers(Then(m, t), e, n)
  <2> DEFINE q == [t EXCEPT ![i] = x]
  <2>1. i \in 1 .. Len(t) /\ Len(t) \in Nat /\ DOMAIN t = 1 .. Len(t) BY <1>1, <1>2 DEF Covers
  <2>2. Fits(m, t) BY <2>1 DEF Fits
  <2>3. Then(m, t) = q BY DEF Then
  <2> HIDE DEF i, x
  <2>4. Len(q) = Len(t) /\ \A k \in 1 .. Len(t) : q[k] = IF k = i THEN x ELSE t[k]
    BY <1>1, <2>1, ExceptSeq
  <2>5. Len(e) = Len(d) /\ \A k \in 1 .. Len(d) : e[k] = IF k = i THEN x ELSE d[k]
    <3>1. i \in 1 .. Len(d) BY DEF i
    <3>2. e = [d EXCEPT ![i] = x] BY DEF i, x
    <3> QED BY <1>1, <3>1, <3>2, ExceptSeq
  <2> HIDE DEF q
  <2>6. Len(e) <= Len(q) /\ Len(q) <= Len(e) + n BY <1>2, <2>4, <2>5 DEF Covers
  <2>7. ASSUME NEW k \in 1 .. Len(e) PROVE q[k] = e[k]
    <3>1. k \in 1 .. Len(d) /\ k \in 1 .. Len(t) BY <1>1, <2>1, <2>4, <2>5, <2>6
    <3>2. t[k] = d[k] BY <1>2, <3>1 DEF Covers
    <3> QED BY <2>4, <2>5, <3>1, <3>2
  <2>8. Covers(q, e, n) BY <2>6, <2>7 DEF Covers
  <2> QED BY <2>2, <2>3, <2>8
<1>3. ASSUME NEW adds \in Seq(IdSet) PROVE Then(m, d \o adds) = e \o adds
  <2>1. \A k \in 1 .. Len(d), y \in IdSet : [d EXCEPT ![k] = y] \o adds = [d \o adds EXCEPT ![k] = y]
    BY PutConcat
  <2>2. [d EXCEPT ![m.index] = m.job.id] \o adds = [d \o adds EXCEPT ![m.index] = m.job.id]
    BY <1>1, <2>1, Zenon
  <2> QED BY <2>2 DEF Then
<1> QED BY <1>2, <1>3 DEF Says

LEMMA SaysDeleted ==
  ASSUME NEW d \in Seq(IdSet), NEW m \in Notes, m.kind = "job_deleted", m.index \in 1 .. Len(d),
         NEW e, e = Without(d, m.index)
  PROVE  Says(m, d, e)
<1> DEFINE i == m.index
<1>1. Len(d) \in Nat OBVIOUS
<1>2. ASSUME NEW t \in Seq(IdSet), NEW n \in Nat, Covers(t, d, n)
      PROVE  Fits(m, t) /\ Covers(Then(m, t), e, n)
  <2> DEFINE q == Without(t, i)
  <2>1. i \in 1 .. Len(t) /\ Len(t) \in Nat /\ DOMAIN t = 1 .. Len(t) BY <1>1, <1>2 DEF Covers
  <2>2. Fits(m, t) BY <2>1 DEF Fits
  <2>3. Then(m, t) = q BY DEF Then
  <2>3a. i \in 1 .. Len(d) /\ e = Without(d, i) OBVIOUS
  <2> HIDE DEF i
  <2>4. Len(q) = Len(t) - 1
        /\ \A k \in 1 .. Len(t) - 1 : q[k] = IF k < i THEN t[k] ELSE t[k + 1]
    BY <2>1, DropIndex
  <2>5. Len(e) = Len(d) - 1
        /\ \A k \in 1 .. Len(d) - 1 : e[k] = IF k < i THEN d[k] ELSE d[k + 1]
    BY <2>3a, DropIndex
  <2> HIDE DEF q
  <2>6. Len(d) <= Len(t) /\ Len(t) <= Len(d) + n BY <1>2 DEF Covers
  <2>7. Len(e) <= Len(q) /\ Len(q) <= Len(e) + n BY <1>1, <2>1, <2>4, <2>5, <2>6
  <2>8. ASSUME NEW k \in 1 .. Len(e) PROVE q[k] = e[k]
    <3>1. k \in 1 .. Len(d) - 1 /\ k \in 1 .. Len(t) - 1 BY <1>1, <2>1, <2>5, <2>6
    <3>2. k \in 1 .. Len(d) /\ k + 1 \in 1 .. Len(d) BY <1>1, <3>1
    <3>3. t[k] = d[k] /\ t[k + 1] = d[k + 1] BY <1>2, <3>2 DEF Covers
    <3> QED BY <2>4, <2>5, <3>1, <3>3
  <2>9. Covers(q, e, n) BY <2>7, <2>8 DEF Covers
  <2> QED BY <2>2, <2>3, <2>9
<1>3. ASSUME NEW adds \in Seq(IdSet) PROVE Then(m, d \o adds) = e \o adds
  <2>1. Without(d, m.index) \o adds = Without(d \o adds, m.index) BY DropConcat
  <2> QED BY <2>1 DEF Then
<1> QED BY <1>2, <1>3 DEF Says

-----------------------------------------------------------------------------
(* Types *)

RowRec   == [id : IdSet, stop : BOOLEAN]
Callbacks == [req : Nat, kind : {"list", "label", "run", "stopped"}, index : Nat]
StopRecs == [id : IdSet, at : Nat, req : Nat]

WireTypes ==
  /\ list \in Seq(JobRec) /\ saved \in Seq(JobRec) /\ mirror \in Seq(JobRec)
  /\ rows \in Seq(RowRec)
  /\ up \in Seq(Requests) /\ down \in Seq(Notes \cup Lists)
  /\ waiting \subseteq Callbacks /\ nextReq \in Nat
  /\ linked \in BOOLEAN /\ staleMap \in BOOLEAN /\ staleSave \in BOOLEAN
  /\ addCrossed \in BOOLEAN
  /\ dialog \in [index : Nat, job : JobRec]
  /\ stops \subseteq StopRecs

LEMMA NoJobIs == NoJob \in JobRec
BY DEF NoJob, Job, JobRec, IdSet

\* The rows of a list, and a list of rows with other buttons
LEMMA RebuiltRows ==
  ASSUME NEW jobs \in Seq(JobRec)
  PROVE  Rebuilt(jobs) \in Seq(RowRec) /\ RowIds(Rebuilt(jobs)) = Ids(jobs)
<1>0. \A i \in 1 .. Len(jobs) : jobs[i] \in JobRec BY ElementOfSeq
<1>1. Rebuilt(jobs) = [i \in 1 .. Len(jobs) |-> Row(jobs[i])] BY DEF Rebuilt
<1>2. \A i \in 1 .. Len(jobs) : Row(jobs[i]) \in RowRec /\ Row(jobs[i]).id = jobs[i].id
  BY <1>0 DEF Row, RowRec, JobRec
<1>3. Len(jobs) \in Nat /\ Rebuilt(jobs) \in [1 .. Len(jobs) -> RowRec] BY <1>1, <1>2
<1>4. Rebuilt(jobs) \in Seq(RowRec) BY <1>3
<1> QED BY <1>1, <1>2, <1>4 DEF RowIds, Ids

LEMMA SameRows ==
  ASSUME NEW rs \in Seq(RowRec), NEW q, DOMAIN q = DOMAIN rs, q = [i \in DOMAIN q |-> q[i]],
         \A i \in DOMAIN rs : q[i] = rs[i] \/ \E b \in BOOLEAN : q[i] = [rs[i] EXCEPT !.stop = b]
  PROVE  q \in Seq(RowRec) /\ RowIds(q) = RowIds(rs)
<1>0. Len(rs) \in Nat /\ DOMAIN rs = 1 .. Len(rs) OBVIOUS
<1>1. ASSUME NEW i \in 1 .. Len(rs) PROVE q[i] \in RowRec /\ q[i].id = rs[i].id
  <2>1. rs[i] \in RowRec BY ElementOfSeq
  <2>2. CASE q[i] = rs[i] BY <2>1, <2>2
  <2>3. CASE \E b \in BOOLEAN : q[i] = [rs[i] EXCEPT !.stop = b]
    <3>1. PICK b \in BOOLEAN : q[i] = [rs[i] EXCEPT !.stop = b] BY <2>3
    <3> QED BY <2>1, <3>1 DEF RowRec
  <2> QED BY <1>0, <2>2, <2>3
<1>2. q = [i \in 1 .. Len(rs) |-> q[i]] BY <1>0
<1>3. q \in [1 .. Len(rs) -> RowRec] BY <1>1, <1>2
<1>4. q \in Seq(RowRec) BY <1>0, <1>3
<1> QED BY <1>0, <1>1, <1>4 DEF RowIds

LEMMA WithStopRows ==
  ASSUME WireTypes, NEW i, NEW b \in BOOLEAN
  PROVE  WithStop(i, b) \in Seq(RowRec) /\ RowIds(WithStop(i, b)) = RowIds(rows)
<1>0. rows \in Seq(RowRec) BY DEF WireTypes
<1>1. WithStop(i, b) = [j \in DOMAIN rows |-> IF j = i THEN [rows[j] EXCEPT !.stop = b] ELSE rows[j]]
  BY DEF WithStop
<1> DEFINE q == WithStop(i, b)
<1>2. DOMAIN q = DOMAIN rows /\ q = [j \in DOMAIN q |-> q[j]] BY <1>1
<1>3. \A j \in DOMAIN rows : q[j] = rows[j] \/ \E c \in BOOLEAN : q[j] = [rows[j] EXCEPT !.stop = c]
  BY <1>1
<1> HIDE DEF q
<1>4. q \in Seq(RowRec) /\ RowIds(q) = RowIds(rows) BY <1>0, <1>2, <1>3, SameRows
<1> QED BY <1>4 DEF q

\* What send_request() does with one request and with two
Asks == [kind : {"add_job", "update_job", "delete_job", "run_job", "stop_job"}, index : Nat,
         job : JobRec, then : {"label", "run", "stopped"}]
Asked(a, n)  == Request(a.kind, a.index, a.job, n)
Awaits(a, n) == [req |-> n, kind |-> a.then, index |-> a.index]

LEMMA AskedIs ==
  ASSUME NEW a \in Asks, NEW n \in Nat
  PROVE  Asked(a, n) \in Requests /\ Awaits(a, n) \in Callbacks
BY DEF Asks, Asked, Awaits, Request, Requests, Callbacks

LEMMA SentOne ==
  ASSUME WireTypes, linked, NEW a \in Asks, Sent(<<a>>)
  PROVE  /\ up' = Append(up, Asked(a, nextReq))
         /\ waiting' = waiting \cup {Awaits(a, nextReq)}
         /\ nextReq' = nextReq + 1
<1>0. nextReq \in Nat /\ up \in Seq(Requests) BY DEF WireTypes
<1>1. DOMAIN <<a>> = {1} /\ <<a>>[1] = a /\ Len(<<a>>) = 1 OBVIOUS
<1>2. up' = up \o [k \in {1} |-> Request(a.kind, a.index, a.job, nextReq + k - 1)]
  BY <1>1 DEF Sent
<1>3. nextReq + 1 - 1 = nextReq BY <1>0
<1>4. [k \in {1} |-> Request(a.kind, a.index, a.job, nextReq + k - 1)] = <<Asked(a, nextReq)>>
  BY <1>3 DEF Asked
<1>5. Asked(a, nextReq) \in Requests BY <1>0, AskedIs
<1>6. up' = Append(up, Asked(a, nextReq)) BY <1>0, <1>2, <1>4, <1>5, AppendIsConcat
<1>7. waiting' = waiting \cup {Awaits(a, nextReq)}
  <2>1. waiting' = waiting \cup {[req |-> nextReq + k - 1, kind |-> <<a>>[k].then,
                                  index |-> <<a>>[k].index] : k \in {1}}
    BY <1>1 DEF Sent
  <2> QED BY <1>1, <1>3, <2>1 DEF Awaits
<1>8. nextReq' = nextReq + 1 BY <1>1 DEF Sent
<1> QED BY <1>6, <1>7, <1>8

LEMMA SentTwo ==
  ASSUME WireTypes, linked, NEW a \in Asks, NEW b \in Asks, Sent(<<a, b>>)
  PROVE  /\ up' = Append(Append(up, Asked(a, nextReq)), Asked(b, nextReq + 1))
         /\ waiting' = waiting \cup {Awaits(a, nextReq), Awaits(b, nextReq + 1)}
         /\ nextReq' = nextReq + 2
<1>0. nextReq \in Nat /\ up \in Seq(Requests) BY DEF WireTypes
<1> DEFINE s == <<a, b>>
           u == Asked(a, nextReq)
           v == Asked(b, nextReq + 1)
           q == [k \in 1 .. 2 |-> Request(s[k].kind, s[k].index, s[k].job, nextReq + k - 1)]
<1>1. DOMAIN s = 1 .. 2 /\ s[1] = a /\ s[2] = b /\ Len(s) = 2 OBVIOUS
<1>2. up' = up \o q BY <1>1 DEF Sent
<1>3. nextReq + 1 - 1 = nextReq /\ nextReq + 2 - 1 = nextReq + 1 BY <1>0
<1>4. q[1] = u /\ q[2] = v BY <1>1, <1>3 DEF Asked
<1>5. u \in Requests /\ v \in Requests
  <2>1. nextReq + 1 \in Nat BY <1>0
  <2> QED BY <1>0, <2>1, AskedIs
<1>7. waiting' = waiting \cup {Awaits(a, nextReq), Awaits(b, nextReq + 1)}
  <2>1. waiting' = waiting \cup {[req |-> nextReq + k - 1, kind |-> s[k].then,
                                  index |-> s[k].index] : k \in 1 .. 2}
    BY <1>1 DEF Sent
  <2> QED BY <1>1, <1>3, <2>1 DEF Awaits
<1>8. nextReq' = nextReq + 2 BY <1>1 DEF Sent
<1> HIDE DEF u, v, s
<1>6. up' = Append(Append(up, u), v)
  <2>1. q = <<u>> \o <<v>>
    <3> DEFINE w == <<u>> \o <<v>>
    <3>1. <<u>> \in Seq(Requests) /\ <<v>> \in Seq(Requests) BY <1>5
    <3>2. w \in Seq(Requests) /\ Len(w) = Len(<<u>>) + Len(<<v>>)
          /\ \A i \in 1 .. Len(<<u>>) + Len(<<v>>) :
               w[i] = IF i <= Len(<<u>>) THEN <<u>>[i] ELSE <<v>>[i - Len(<<u>>)]
      BY <3>1, ConcatProperties
    <3>3. Len(<<u>>) = 1 /\ Len(<<v>>) = 1 /\ <<u>>[1] = u /\ <<v>>[1] = v OBVIOUS
    <3>4. Len(w) = 2 /\ w[1] = u /\ w[2] = v BY <3>2, <3>3
    <3>5. q \in [1 .. 2 -> Requests]
      <4>1. \A k \in 1 .. 2 : k = 1 \/ k = 2 OBVIOUS
      <4>2. \A k \in 1 .. 2 : q[k] \in Requests BY <1>4, <1>5, <4>1
      <4>3. q = [k \in 1 .. 2 |-> q[k]] OBVIOUS
      <4> HIDE DEF q
      <4> QED BY <4>2, <4>3
    <3>6. Len(q) = 2 BY <3>5
    <3> HIDE DEF q, w
    <3>7. q \in Seq(Requests) BY <3>5, <3>6, SeqDef
    <3>8. \A k \in 1 .. Len(q) : q[k] = w[k] BY <1>4, <3>4, <3>6
    <3>9. q = w BY <3>2, <3>4, <3>6, <3>7, <3>8, SameList
    <3> QED BY <3>9 DEF w
  <2>2. <<u>> \in Seq(Requests) /\ <<v>> \in Seq(Requests) BY <1>5
  <2>3. up \o (<<u>> \o <<v>>) = (up \o <<u>>) \o <<v>> BY <1>0, <2>2, ConcatAssociative
  <2>4. up \o <<u>> = Append(up, u) BY <1>0, <1>5, AppendIsConcat
  <2>5. Append(up, u) \in Seq(Requests) BY <1>0, <1>5, AppendProperties
  <2>6. Append(up, u) \o <<v>> = Append(Append(up, u), v) BY <1>5, <2>5, AppendIsConcat
  <2> QED BY <1>2, <2>1, <2>3, <2>4, <2>6
<1> QED BY <1>6, <1>7, <1>8 DEF u, v

LEMMA PairIs ==
  ASSUME NEW a \in Asks, NEW b \in Asks
  PROVE  <<a>> \o <<b>> = <<a, b>> /\ <<a>> \o <<>> = <<a>>
<1>1. <<a>> \in Seq(Asks) OBVIOUS
<1>2. <<a>> \o <<>> = <<a>> BY <1>1, ConcatEmptySeq
<1>3. <<a>> \o <<b>> = Append(<<a>>, b) BY <1>1, AppendIsConcat
<1>4. Append(<<a>>, b) = <<a, b>>
  <2> DEFINE q == Append(<<a>>, b)
             w == <<a, b>>
  <2>1. Len(<<a>>) = 1 /\ <<a>>[1] = a OBVIOUS
  <2>2. q \in Seq(Asks) /\ Len(q) = Len(<<a>>) + 1 /\ q[Len(<<a>>) + 1] = b
        /\ \A i \in 1 .. Len(<<a>>) : q[i] = <<a>>[i]
    BY <1>1, AppendProperties
  <2>3. Len(q) = 2 /\ q[1] = a /\ q[2] = b BY <2>1, <2>2
  <2>4. w \in Seq(Asks) /\ Len(w) = 2 /\ w[1] = a /\ w[2] = b OBVIOUS
  <2> HIDE DEF q, w
  <2>5. \A i \in 1 .. Len(q) : q[i] = w[i] BY <2>3, <2>4
  <2>6. q = w BY <2>2, <2>3, <2>4, <2>5, SameList
  <2> QED BY <2>6 DEF q, w
<1> QED BY <1>2, <1>3, <1>4

LEMMA SentTypes ==
  ASSUME WireTypes, NEW a \in Asks, Sent(<<a>>)
  PROVE  up' \in Seq(Requests) /\ waiting' \subseteq Callbacks /\ nextReq' \in Nat
<1>1. CASE ~linked BY <1>1 DEF Sent, WireTypes
<1>2. CASE linked
  <2>1. /\ up' = Append(up, Asked(a, nextReq))
        /\ waiting' = waiting \cup {Awaits(a, nextReq)}
        /\ nextReq' = nextReq + 1
    BY <1>2, SentOne
  <2>2. nextReq \in Nat /\ up \in Seq(Requests) /\ waiting \subseteq Callbacks BY DEF WireTypes
  <2>3. Asked(a, nextReq) \in Requests /\ Awaits(a, nextReq) \in Callbacks BY <2>2, AskedIs
  <2>4. up' \in Seq(Requests) BY <2>1, <2>2, <2>3, AppendProperties
  <2> QED BY <2>1, <2>2, <2>3, <2>4
<1> QED BY <1>1, <1>2

LEMMA SentTypesTwo ==
  ASSUME WireTypes, NEW a \in Asks, NEW b \in Asks, Sent(<<a, b>>)
  PROVE  up' \in Seq(Requests) /\ waiting' \subseteq Callbacks /\ nextReq' \in Nat
<1>1. CASE ~linked BY <1>1 DEF Sent, WireTypes
<1>2. CASE linked
  <2> DEFINE u == Asked(a, nextReq)
             v == Asked(b, nextReq + 1)
  <2>1. /\ up' = Append(Append(up, u), v)
        /\ waiting' = waiting \cup {Awaits(a, nextReq), Awaits(b, nextReq + 1)}
        /\ nextReq' = nextReq + 2
    BY <1>2, SentTwo
  <2>2. nextReq \in Nat /\ nextReq + 1 \in Nat /\ up \in Seq(Requests) /\ waiting \subseteq Callbacks
    BY DEF WireTypes
  <2>3. u \in Requests /\ Awaits(a, nextReq) \in Callbacks BY <2>2, AskedIs
  <2>4. v \in Requests /\ Awaits(b, nextReq + 1) \in Callbacks BY <2>2, AskedIs
  <2> HIDE DEF u, v
  <2>5. Append(up, u) \in Seq(Requests) BY <2>2, <2>3, AppendProperties
  <2>6. up' \in Seq(Requests) BY <2>1, <2>4, <2>5, AppendProperties
  <2> QED BY <2>1, <2>2, <2>3, <2>4, <2>6
<1> QED BY <1>1, <1>2

\* What the window makes of a broadcast is a list and rows.
LEMMA SeenTypes ==
  ASSUME WireTypes, NEW m \in Notes \cup Lists
  PROVE  Seen(m) \in Seq(JobRec) /\ RowsAfter(m, Seen(m)) \in Seq(RowRec)
<1>0. mirror \in Seq(JobRec) /\ rows \in Seq(RowRec) BY DEF WireTypes
<1>1. DOMAIN mirror = 1 .. Len(mirror) /\ DOMAIN rows = 1 .. Len(rows) /\ Len(rows) \in Nat
  BY <1>0
<1>2. m.job \in JobRec BY DEF Notes, Lists
<1>3. Row(m.job) \in RowRec BY <1>2 DEF Row, RowRec, JobRec
<1>4. \A i : [mirror EXCEPT ![i] = m.job] \in Seq(JobRec) BY <1>0, <1>2, IdsPut
<1>5. [rows EXCEPT ![m.index] = Row(m.job)] \in Seq(RowRec)
  <2>1. CASE m.index \in 1 .. Len(rows) BY <1>0, <1>3, <2>1, ExceptSeq
  <2>2. CASE m.index \notin 1 .. Len(rows)
    <3>1. [rows EXCEPT ![m.index] = Row(m.job)] = rows BY <1>0, <1>1, <2>2
    <3> QED BY <1>0, <3>1
  <2> QED BY <2>1, <2>2
<1>6. CASE m.kind = "jobs_list"
  <2>1. m.jobs \in Seq(JobRec) BY <1>6 DEF Notes, Lists
  <2>2. Seen(m) = m.jobs /\ RowsAfter(m, Seen(m)) = Rebuilt(m.jobs) BY <1>6 DEF Seen, RowsAfter
  <2> QED BY <2>1, <2>2, RebuiltRows
<1>7. CASE m.kind = "job_added"
  <2>1. Seen(m) = WithAdded(mirror, m) BY <1>7 DEF Seen
  <2>2. Append(mirror, m.job) \in Seq(JobRec) BY <1>0, <1>2, AppendProperties
  <2>3. Seen(m) \in Seq(JobRec) BY <1>4, <2>1, <2>2 DEF WithAdded
  <2>4. RowsAfter(m, Seen(m)) = IF Len(rows) < Len(Seen(m))
                                THEN Append(rows, Row(Seen(m)[Len(rows) + 1])) ELSE rows
    BY <1>7 DEF RowsAfter
  <2>5. CASE Len(rows) < Len(Seen(m))
    <3>1. Len(rows) + 1 \in 1 .. Len(Seen(m)) BY <1>1, <2>3, <2>5
    <3>2. Seen(m)[Len(rows) + 1] \in JobRec BY <2>3, <3>1, ElementOfSeq
    <3>3. Row(Seen(m)[Len(rows) + 1]) \in RowRec BY <3>2 DEF Row, RowRec, JobRec
    <3>4. Append(rows, Row(Seen(m)[Len(rows) + 1])) \in Seq(RowRec) BY <1>0, <3>3, AppendProperties
    <3> QED BY <2>3, <2>4, <2>5, <3>4
  <2> QED BY <1>0, <2>3, <2>4, <2>5
<1>8. CASE m.kind = "job_updated"
  <2>1. Seen(m) \in Seq(JobRec) BY <1>0, <1>4, <1>8 DEF Seen
  <2>2. RowsAfter(m, Seen(m)) \in Seq(RowRec) BY <1>0, <1>5, <1>8 DEF RowsAfter
  <2> QED BY <2>1, <2>2
<1>9. CASE m.kind = "job_deleted"
  <2>1. m.index \in DOMAIN mirror => Without(mirror, m.index) \in Seq(JobRec) BY <1>0, <1>1, IdsDrop
  <2>2. Seen(m) = IF m.index \in DOMAIN mirror THEN Without(mirror, m.index) ELSE mirror
    BY <1>9 DEF Seen
  <2>3. Seen(m) \in Seq(JobRec) BY <1>0, <2>1, <2>2
  <2>4. Rebuilt(Seen(m)) \in Seq(RowRec) BY <2>3, RebuiltRows
  <2>5. RowsAfter(m, Seen(m)) = IF m.index \in DOMAIN mirror THEN Rebuilt(Seen(m)) ELSE rows
    BY <1>9 DEF RowsAfter
  <2> QED BY <1>0, <2>3, <2>4, <2>5
<1>10. CASE m.kind = "job_stopped"
  <2>1. Seen(m) = Marked(mirror, m.index, FALSE) BY <1>10 DEF Seen
  <2>2. Seen(m) \in Seq(JobRec) BY <1>0, <2>1, IdsMarked
  <2>3. RowsAfter(m, Seen(m)) = WithStop(m.index, FALSE) BY <1>10 DEF RowsAfter
  <2> QED BY <2>2, <2>3, WithStopRows
<1>11. CASE m.kind \in {"job_started", "job_completed"}
  <2>1. Seen(m) = mirror BY <1>11 DEF Seen
  <2>2. \E b \in BOOLEAN : RowsAfter(m, Seen(m)) = WithStop(m.index, b) BY <1>11 DEF RowsAfter
  <2> QED BY <1>0, <2>1, <2>2, WithStopRows
<1> QED BY <1>6, <1>7, <1>8, <1>9, <1>10, <1>11 DEF Notes, Lists

LEMMA NotesAre ==
  ASSUME NEW kind \in {"job_added", "job_updated", "job_deleted", "job_started", "job_completed",
                       "job_stopped"},
         NEW i \in Nat, NEW j \in JobRec, NEW n \in Nat
  PROVE  Note(kind, i, j, n) \in Notes
BY DEF Note, Notes

\* A message the daemon sends is one of the types.
LEMMA ToldTypes ==
  ASSUME WireTypes, NEW m \in Notes \cup Lists, Told(m)
  PROVE  down' \in Seq(Notes \cup Lists)
<1>1. down \in Seq(Notes \cup Lists) BY DEF WireTypes
<1>2. Append(down, m) \in Seq(Notes \cup Lists) BY <1>1, AppendProperties
<1> QED BY <1>2 DEF Told

LEMMA TypesInit == LinkInit => WireTypes
<1> SUFFICES ASSUME LinkInit PROVE WireTypes
  OBVIOUS
<1>1. list \in Seq([id : JobIds, running : BOOLEAN])
  BY GuiLinkAssumption DEF LinkInit
<1>2. [id : JobIds, running : BOOLEAN] \subseteq JobRec BY DEF JobRec, IdSet
<1>3. list \in Seq(JobRec) BY <1>1, <1>2, SeqMonotonic
<1>4. Request("get_jobs", 0, NoJob, 1) \in Requests BY NoJobIs DEF Request, Requests
<1>5. NoDialog \in [index : Nat, job : JobRec] BY DEF NoDialog, Job, JobRec, IdSet
<1>6. <<Request("get_jobs", 0, NoJob, 1)>> \in Seq(Requests) BY <1>4
<1>7. up \in Seq(Requests) BY <1>6 DEF LinkInit
<1>8. waiting \subseteq Callbacks BY DEF LinkInit, Callbacks
<1>9. list \in Seq(JobRec) /\ saved \in Seq(JobRec) BY <1>3 DEF LinkInit
<1>10. mirror \in Seq(JobRec) /\ rows \in Seq(RowRec) /\ down \in Seq(Notes \cup Lists)
  <2>1. mirror = <<>> /\ rows = <<>> /\ down = <<>> BY DEF LinkInit
  <2> QED BY <2>1, EmptySeq
<1> QED BY <1>5, <1>7, <1>8, <1>9, <1>10 DEF LinkInit, WireTypes

LEMMA TypesView ==
  ASSUME WireTypes,
         ShowJobsPage \/ \E i \in DOMAIN rows : ClickRun(i) \/ ClickStop(i) \/ ClickDelete(i) \/ OpenEdit(i)
  PROVE  WireTypes'
<1>0. DOMAIN rows = 1 .. Len(rows) /\ DOMAIN mirror = 1 .. Len(mirror) BY DEF WireTypes
<1>1. CASE ShowJobsPage
  <2>1. saved \in Seq(JobRec) BY DEF WireTypes
  <2>2. Rebuilt(saved) \in Seq(RowRec) BY <2>1, RebuiltRows
  <2> QED BY <1>1, <2>1, <2>2 DEF ShowJobsPage, Gesture, WireTypes, daemonVars
<1>2. ASSUME NEW i \in DOMAIN rows, ClickRun(i) PROVE WireTypes'
  <2>1. Asking("run_job", i, NoJob, "label") \in Asks BY <1>0, NoJobIs DEF Asking, Asks
  <2>2. Sent(<<Asking("run_job", i, NoJob, "label")>>) BY <1>2 DEF ClickRun
  <2>3. up' \in Seq(Requests) /\ waiting' \subseteq Callbacks /\ nextReq' \in Nat
    BY <2>1, <2>2, SentTypes
  <2>4. WithStop(i, TRUE) \in Seq(RowRec) BY WithStopRows
  <2>5. rows' \in Seq(RowRec) BY <1>2, <2>4 DEF ClickRun, WireTypes
  <2> QED BY <1>2, <2>3, <2>5 DEF ClickRun, RowsUp, WireTypes, daemonVars
<1>3. ASSUME NEW i \in DOMAIN rows, ClickStop(i) PROVE WireTypes'
  <2>1. Asking("stop_job", i, NoJob, "stopped") \in Asks BY <1>0, NoJobIs DEF Asking, Asks
  <2>2. Sent(<<Asking("stop_job", i, NoJob, "stopped")>>) BY <1>3 DEF ClickStop
  <2>3. up' \in Seq(Requests) /\ waiting' \subseteq Callbacks /\ nextReq' \in Nat
    BY <2>1, <2>2, SentTypes
  <2> QED BY <1>3, <2>3 DEF ClickStop, RowsUp, WireTypes, daemonVars
<1>4. ASSUME NEW i \in DOMAIN rows, ClickDelete(i) PROVE WireTypes'
  <2>1. Asking("delete_job", i, NoJob, "label") \in Asks BY <1>0, NoJobIs DEF Asking, Asks
  <2>2. Sent(<<Asking("delete_job", i, NoJob, "label")>>) BY <1>4 DEF ClickDelete
  <2>3. up' \in Seq(Requests) /\ waiting' \subseteq Callbacks /\ nextReq' \in Nat
    BY <2>1, <2>2, SentTypes
  <2>4. i \in 1 .. Len(mirror) /\ mirror \in Seq(JobRec) BY <1>0, <1>4 DEF ClickDelete, WireTypes
  <2>5. Without(mirror, i) \in Seq(JobRec) BY <2>4, IdsDrop
  <2>6. Rebuilt(Without(mirror, i)) \in Seq(RowRec) BY <2>5, RebuiltRows
  <2>7. CASE linked BY <1>4, <2>3, <2>7 DEF ClickDelete, RowsUp, WireTypes, daemonVars
  <2>8. CASE ~linked
    BY <1>4, <2>3, <2>5, <2>6, <2>8 DEF ClickDelete, RowsUp, WireTypes, daemonVars, ViewSaves
  <2> QED BY <2>7, <2>8
<1>5. ASSUME NEW i \in DOMAIN rows, OpenEdit(i) PROVE WireTypes'
  <2>1. i \in 1 .. Len(mirror) /\ mirror \in Seq(JobRec) BY <1>0, <1>5 DEF OpenEdit, WireTypes
  <2>2. mirror[i] \in JobRec BY <2>1, ElementOfSeq
  <2>3. [index |-> i, job |-> Job(mirror[i].id, FALSE)] \in [index : Nat, job : JobRec]
    BY <2>1, <2>2 DEF Job, JobRec
  <2> QED BY <1>5, <2>3 DEF OpenEdit, RowsUp, WireTypes, daemonVars
<1> QED BY <1>1, <1>2, <1>3, <1>4, <1>5

LEMMA TypesAdd ==
  ASSUME WireTypes, NEW id \in JobIds, NEW run \in BOOLEAN, AddNew(id, run)
  PROVE  WireTypes'
<1> DEFINE a == Asking("add_job", Len(Append(mirror, Job(id, FALSE))), Job(id, FALSE),
                       IF run THEN "run" ELSE "label")
<1>0. mirror \in Seq(JobRec) /\ rows \in Seq(RowRec) BY DEF WireTypes
<1>1. Job(id, FALSE) \in JobRec /\ Row(Job(id, FALSE)) \in RowRec
  BY DEF Job, JobRec, Row, RowRec, IdSet
<1>2. Append(mirror, Job(id, FALSE)) \in Seq(JobRec) BY <1>0, <1>1, AppendProperties
<1>3. Append(rows, Row(Job(id, FALSE))) \in Seq(RowRec) BY <1>0, <1>1, AppendProperties
<1>4. Len(Append(mirror, Job(id, FALSE))) \in Nat BY <1>2, LenProperties
<1>5. a \in Asks BY <1>1, <1>4 DEF Asking, Asks
<1>6. Sent(<<a>>) BY DEF AddNew
<1>7. up' \in Seq(Requests) /\ waiting' \subseteq Callbacks /\ nextReq' \in Nat
  BY <1>5, <1>6, SentTypes
<1>8. staleSave' \in BOOLEAN /\ staleMap' \in BOOLEAN /\ addCrossed' \in BOOLEAN
  BY DEF AddNew, ViewSaves, WireTypes, InFlight, ListComing
<1> QED BY <1>2, <1>3, <1>7, <1>8 DEF AddNew, ViewSaves, WireTypes, daemonVars

\* The requests of an edit that is saved
EditAsks(run) ==
  <<Asking("update_job", dialog.index, dialog.job, "label")>> \o
  (IF run THEN <<Asking("run_job", dialog.index, NoJob, "label")>> ELSE <<>>)

LEMMA EditAsksAre ==
  ASSUME WireTypes, NEW run \in BOOLEAN
  PROVE  LET a == Asking("update_job", dialog.index, dialog.job, "label")
             b == Asking("run_job", dialog.index, NoJob, "label") IN
         /\ a \in Asks /\ b \in Asks
         /\ EditAsks(run) = IF run THEN <<a, b>> ELSE <<a>>
<1> DEFINE a == Asking("update_job", dialog.index, dialog.job, "label")
           b == Asking("run_job", dialog.index, NoJob, "label")
<1>1. a \in Asks /\ b \in Asks BY NoJobIs DEF WireTypes, Asking, Asks
<1>2. EditAsks(run) = <<a>> \o (IF run THEN <<b>> ELSE <<>>) BY DEF EditAsks
<1> HIDE DEF a, b
<1>3. <<a>> \o <<b>> = <<a, b>> /\ <<a>> \o <<>> = <<a>> BY <1>1, PairIs
<1>4. EditAsks(run) = IF run THEN <<a, b>> ELSE <<a>> BY <1>2, <1>3
<1> QED BY <1>1, <1>4 DEF a, b

LEMMA TypesEdit ==
  ASSUME WireTypes, NEW run \in BOOLEAN, SaveEdit(run)
  PROVE  WireTypes'
<1> DEFINE jobs == [mirror EXCEPT ![dialog.index] = dialog.job]
<1>0. NoDialog \in [index : Nat, job : JobRec] BY DEF NoDialog, Job, JobRec, IdSet
<1>1. CASE dialog.index \notin DOMAIN mirror
  BY <1>0, <1>1 DEF SaveEdit, WireTypes, daemonVars
<1>2. CASE dialog.index \in DOMAIN mirror
  <2>1. mirror \in Seq(JobRec) /\ dialog.job \in JobRec BY DEF WireTypes
  <2>2. jobs \in Seq(JobRec) /\ DOMAIN jobs = DOMAIN mirror BY <2>1, IdsPut
  <2>3. Rebuilt(jobs) \in Seq(RowRec) BY <2>2, RebuiltRows
  <2>4. [Rebuilt(jobs) EXCEPT ![dialog.index].stop = TRUE] \in Seq(RowRec)
    <3> DEFINE rs == Rebuilt(jobs)
               q == [rs EXCEPT ![dialog.index].stop = TRUE]
    <3>1. DOMAIN q = DOMAIN rs /\ q = [i \in DOMAIN q |-> q[i]]
      OBVIOUS
    <3>2. \A i \in DOMAIN rs : q[i] = rs[i] \/ \E b \in BOOLEAN : q[i] = [rs[i] EXCEPT !.stop = b]
      OBVIOUS
    <3>3. rs \in Seq(RowRec) BY <2>3
    <3> HIDE DEF rs, q
    <3>4. q \in Seq(RowRec) BY <3>1, <3>2, <3>3, SameRows
    <3> QED BY <3>4 DEF q, rs
  <2>5. mirror' = jobs /\ saved' = jobs /\ staleSave' \in BOOLEAN /\ staleMap' \in BOOLEAN
    BY <1>2 DEF SaveEdit, ViewSaves, WireTypes, InFlight
  <2>6. rows' = IF run /\ linked THEN [Rebuilt(jobs) EXCEPT ![dialog.index].stop = TRUE] ELSE Rebuilt(jobs)
    BY <1>2 DEF SaveEdit
  <2>7. rows' \in Seq(RowRec) BY <2>3, <2>4, <2>6
  <2>8. Sent(EditAsks(run)) BY <1>2 DEF SaveEdit, EditAsks
  <2> DEFINE a == Asking("update_job", dialog.index, dialog.job, "label")
             b == Asking("run_job", dialog.index, NoJob, "label")
  <2>9. a \in Asks /\ b \in Asks /\ EditAsks(run) = IF run THEN <<a, b>> ELSE <<a>>
    BY EditAsksAre
  <2> HIDE DEF a, b
  <2>10. up' \in Seq(Requests) /\ waiting' \subseteq Callbacks /\ nextReq' \in Nat
    <3>1. CASE run
      <4>1. Sent(<<a, b>>) BY <2>8, <2>9, <3>1
      <4> QED BY <2>9, <4>1, SentTypesTwo
    <3>2. CASE ~run
      <4>1. Sent(<<a>>) BY <2>8, <2>9, <3>2
      <4> QED BY <2>9, <4>1, SentTypes
    <3> QED BY <3>1, <3>2
  <2>11. dialog' = NoDialog /\ UNCHANGED <<list, stops, down, linked, addCrossed>> BY DEF SaveEdit, daemonVars
  <2> HIDE DEF jobs
  <2> QED BY <1>0, <2>2, <2>5, <2>7, <2>10, <2>11 DEF WireTypes
<1> QED BY <1>1, <1>2

LEMMA TypesReceive ==
  ASSUME WireTypes, Receive
  PROVE  WireTypes'
<1> DEFINE m == Head(down)
           jobs == Seen(m)
           base == RowsAfter(m, jobs)
           cbs == {w \in waiting : m.req # NoReq /\ w.req = m.req}
           runs == {w \in cbs : w.kind = "run" /\ w.index \in DOMAIN jobs /\ w.index \in DOMAIN base}
           w0 == CHOOSE w \in runs : TRUE
<1>0. down \in Seq(Notes \cup Lists) /\ down # <<>> BY DEF WireTypes, Receive
<1>1. m \in Notes \cup Lists /\ Tail(down) \in Seq(Notes \cup Lists) BY <1>0, HeadTailProperties
<1> HIDE DEF m
<1>2. jobs \in Seq(JobRec) /\ base \in Seq(RowRec) BY <1>1, SeenTypes
<1> HIDE DEF base
<1>3. mirror' = jobs /\ down' = Tail(down) BY DEF Receive, m
<1>4. rows' \in Seq(RowRec)
  <2> DEFINE q == [i \in DOMAIN base |->
                     IF \E w \in runs : w.index = i THEN [base[i] EXCEPT !.stop = TRUE]
                     ELSE IF \E w \in cbs : w.kind = "stopped" /\ w.index = i
                     THEN [base[i] EXCEPT !.stop = FALSE] ELSE base[i]]
  <2>1. rows' = q BY DEF Receive, m, base
  <2>2. DOMAIN q = DOMAIN base /\ q = [i \in DOMAIN q |-> q[i]] OBVIOUS
  <2>3. \A i \in DOMAIN base : q[i] = base[i] \/ \E b \in BOOLEAN : q[i] = [base[i] EXCEPT !.stop = b]
    OBVIOUS
  <2> HIDE DEF q
  <2>4. q \in Seq(RowRec) BY <1>2, <2>2, <2>3, SameRows
  <2> QED BY <2>1, <2>4
<1>5. waiting \subseteq Callbacks /\ nextReq \in Nat /\ up \in Seq(Requests) BY DEF WireTypes
<1>6. up' \in Seq(Requests) /\ waiting' \subseteq Callbacks /\ nextReq' \in Nat
  <2>1. CASE runs = {}
    <3>1. waiting' = waiting \ cbs /\ up' = up /\ nextReq' = nextReq BY <2>1 DEF Receive, m, base
    <3> QED BY <1>5, <3>1
  <2>2. CASE runs # {}
    <3>1. /\ up' = Append(up, Request("run_job", w0.index, NoJob, nextReq))
          /\ waiting' = (waiting \ cbs) \cup {[req |-> nextReq, kind |-> "label", index |-> w0.index]}
          /\ nextReq' = nextReq + 1
      BY <2>2 DEF Receive, m, base
    <3>2. w0 \in Callbacks BY <1>5, <2>2
    <3> HIDE DEF w0, runs, cbs
    <3>3. w0.index \in Nat BY <3>2 DEF Callbacks
    <3>4. Request("run_job", w0.index, NoJob, nextReq) \in Requests
      BY <1>5, <3>3, NoJobIs DEF Request, Requests
    <3>5. up' \in Seq(Requests) BY <1>5, <3>1, <3>4, AppendProperties
    <3>6. [req |-> nextReq, kind |-> "label", index |-> w0.index] \in Callbacks BY <1>5, <3>3 DEF Callbacks
    <3> QED BY <1>5, <3>1, <3>5, <3>6
  <2> QED BY <2>1, <2>2
<1> HIDE DEF jobs, runs, cbs
<1>7. saved' \in Seq(JobRec) /\ staleSave' \in BOOLEAN
  <2>1. (saved' = jobs /\ staleSave' = (staleSave \/ (up # <<>> \/ Tail(down) # <<>>)))
        \/ (saved' = saved /\ staleSave' = staleSave)
    BY DEF Receive, m, jobs, ViewSaves
  <2> QED BY <1>2, <2>1 DEF WireTypes
<1>8. UNCHANGED <<list, stops, linked, dialog, staleMap, addCrossed>> BY DEF Receive, daemonVars
<1> QED BY <1>1, <1>2, <1>3, <1>4, <1>6, <1>7, <1>8 DEF WireTypes

LEMMA TypesHandle ==
  ASSUME WireTypes, Handle
  PROVE  WireTypes'
<1> DEFINE r == Head(up)
<1>0. up \in Seq(Requests) /\ up # <<>> BY DEF WireTypes, Handle
<1>1. r \in Requests /\ Tail(up) \in Seq(Requests) BY <1>0, HeadTailProperties
<1>2. up' = Tail(up) BY DEF Handle
<1>3. UNCHANGED <<linked, mirror, rows, dialog, waiting, nextReq, staleMap, staleSave, addCrossed>>
  BY DEF Handle, viewVars
<1>4. CASE ~(r.kind \in {"get_jobs", "add_job"} \/ r.index \in DOMAIN list)
  <2>1. UNCHANGED <<list, stops, saved, down>> BY <1>4 DEF Handle, daemonVars
  <2> QED BY <1>1, <1>2, <1>3, <2>1 DEF WireTypes
<1>5. CASE r.kind \in {"get_jobs", "add_job"} \/ r.index \in DOMAIN list
  <2>0. HandleRequest(r) BY <1>5 DEF Handle
  <2> HIDE DEF r
  <2>1. list \in Seq(JobRec) /\ saved \in Seq(JobRec) /\ down \in Seq(Notes \cup Lists)
        /\ stops \subseteq StopRecs
    BY DEF WireTypes
  <2>2. Len(list) \in Nat /\ DOMAIN list = 1 .. Len(list) BY <2>1
  <2>3. r.job \in JobRec /\ r.req \in Nat /\ r.index \in Nat /\ NoJob \in JobRec
    BY <1>1, NoJobIs DEF Requests
  <2>4. list' \in Seq(JobRec) /\ saved' \in Seq(JobRec) /\ down' \in Seq(Notes \cup Lists)
        /\ stops' \subseteq StopRecs
    <3>1. CASE r.kind = "get_jobs"
      <4> DEFINE m == Jobs(r.req)
      <4>1. m \in Lists BY <2>1, <2>3 DEF Jobs, Lists
      <4>2. Told(m) /\ UNCHANGED <<list, saved, stops>> BY <2>0, <3>1 DEF HandleRequest, daemonVars
      <4> HIDE DEF m
      <4>3. down' \in Seq(Notes \cup Lists) BY <4>1, <4>2, ToldTypes
      <4> QED BY <2>1, <4>2, <4>3
    <3>2. CASE r.kind = "add_job"
      <4> DEFINE m == Note("job_added", Len(list) + 1, r.job, r.req)
      <4>1. m \in Notes BY <2>2, <2>3, NotesAre
      <4>2. Told(m) /\ list' = Append(list, r.job) /\ saved' = list' /\ stops' = stops
        BY <2>0, <3>2 DEF HandleRequest, DaemonSaves
      <4> HIDE DEF m
      <4>3. down' \in Seq(Notes \cup Lists) BY <4>1, <4>2, ToldTypes
      <4>4. Append(list, r.job) \in Seq(JobRec) BY <2>1, <2>3, AppendProperties
      <4> QED BY <2>1, <4>2, <4>3, <4>4
    <3>3. CASE r.kind = "update_job"
      <4> DEFINE m == Note("job_updated", r.index, r.job, r.req)
      <4>1. m \in Notes BY <2>3, NotesAre
      <4>2. Told(m) /\ list' = [list EXCEPT ![r.index] = r.job] /\ saved' = list' /\ stops' = stops
        BY <2>0, <3>3 DEF HandleRequest, DaemonSaves
      <4> HIDE DEF m
      <4>3. down' \in Seq(Notes \cup Lists) BY <4>1, <4>2, ToldTypes
      <4>4. [list EXCEPT ![r.index] = r.job] \in Seq(JobRec) BY <2>1, <2>3, IdsPut
      <4> QED BY <2>1, <4>2, <4>3, <4>4
    <3>4. CASE r.kind = "delete_job"
      <4> DEFINE m == Note("job_deleted", r.index, NoJob, r.req)
      <4>1. m \in Notes BY <2>3, NotesAre
      <4>2. Told(m) /\ list' = Without(list, r.index) /\ saved' = list' /\ stops' = stops
        BY <2>0, <3>4 DEF HandleRequest, DaemonSaves
      <4> HIDE DEF m
      <4>3. down' \in Seq(Notes \cup Lists) BY <4>1, <4>2, ToldTypes
      <4>4. r.index \in 1 .. Len(list) BY <1>5, <2>2, <3>4
      <4>5. Without(list, r.index) \in Seq(JobRec) BY <2>1, <4>4, IdsDrop
      <4> QED BY <2>1, <4>2, <4>3, <4>5
    <3>5. CASE r.kind = "run_job"
      <4> DEFINE m == Note("job_started", r.index, NoJob, r.req)
      <4>1. m \in Notes BY <2>3, NotesAre
      <4>2. Told(m) /\ stops' = stops
            /\ ((list' = list /\ saved' = saved)
                \/ (list' = Marked(list, r.index, TRUE) /\ saved' = list'))
        BY <2>0, <3>5 DEF HandleRequest, DaemonSaves
      <4> HIDE DEF m
      <4>3. down' \in Seq(Notes \cup Lists) BY <4>1, <4>2, ToldTypes
      <4>4. Marked(list, r.index, TRUE) \in Seq(JobRec) BY <2>1, IdsMarked
      <4> QED BY <2>1, <4>2, <4>3, <4>4
    <3>6. CASE r.kind = "stop_job"
      <4> DEFINE s == [id |-> list[r.index].id, at |-> r.index, req |-> r.req]
      <4>1. UNCHANGED <<list, saved, down>> /\ stops' \subseteq stops \cup {s}
        BY <2>0, <3>6 DEF HandleRequest
      <4>2. r.index \in 1 .. Len(list) BY <1>5, <2>2, <3>6
      <4>3. list[r.index] \in JobRec BY <2>1, <4>2, ElementOfSeq
      <4>4. s \in StopRecs BY <2>3, <4>3 DEF StopRecs, JobRec
      <4> HIDE DEF s
      <4> QED BY <2>1, <4>1, <4>4
    <3> QED BY <1>1, <3>1, <3>2, <3>3, <3>4, <3>5, <3>6 DEF Requests
  <2> QED BY <1>1, <1>2, <1>3, <2>4 DEF WireTypes
<1> QED BY <1>4, <1>5

\* A change of the running flag of a job that the daemon tells
LEMMA TypesMarked ==
  ASSUME WireTypes, NEW i \in DOMAIN list, NEW b \in BOOLEAN, NEW n \in Nat,
         NEW kind \in {"job_started", "job_completed", "job_stopped"},
         list' = Marked(list, i, b), saved' = DaemonSaves, Told(Note(kind, i, NoJob, n)),
         stops' \subseteq stops,
         UNCHANGED <<up, linked, viewVars, staleMap, staleSave, addCrossed>>
  PROVE  WireTypes'
<1>1. list \in Seq(JobRec) /\ stops \subseteq StopRecs BY DEF WireTypes
<1>2. i \in Nat BY <1>1
<1>3. list' \in Seq(JobRec) BY <1>1, IdsMarked
<1>4. Note(kind, i, NoJob, n) \in Notes BY <1>2, NoJobIs, NotesAre
<1>5. down' \in Seq(Notes \cup Lists) BY <1>4, ToldTypes
<1> QED BY <1>1, <1>3, <1>5 DEF WireTypes, DaemonSaves, viewVars

LEMMA TypesStep == WireTypes /\ [LinkNext]_linkVars => WireTypes'
<1> SUFFICES ASSUME WireTypes, [LinkNext]_linkVars PROVE WireTypes'
  OBVIOUS
<1>1. CASE ShowJobsPage BY <1>1, TypesView
<1>2. CASE Receive BY <1>2, TypesReceive
<1>3. CASE Handle BY <1>3, TypesHandle
<1>4. CASE DaemonEnds
  <2>1. <<>> \in Seq(Requests) /\ <<>> \in Seq(Notes \cup Lists) BY EmptySeq
  <2> QED BY <1>4, <2>1 DEF DaemonEnds, WireTypes, viewVars
<1>5. ASSUME NEW i \in DOMAIN rows, ClickRun(i) \/ ClickStop(i) \/ ClickDelete(i) \/ OpenEdit(i)
      PROVE  WireTypes'
  BY <1>5, TypesView
<1>6. ASSUME NEW id \in JobIds, NEW run \in BOOLEAN, AddNew(id, run) PROVE WireTypes'
  BY <1>6, TypesAdd
<1>7. ASSUME NEW run \in BOOLEAN, SaveEdit(run) PROVE WireTypes' BY <1>7, TypesEdit
<1>8. ASSUME NEW i \in DOMAIN list, AutoRun(i) PROVE WireTypes'
  <2>1. NoReq \in Nat BY DEF NoReq
  <2>2. /\ list' = Marked(list, i, TRUE) /\ saved' = DaemonSaves
        /\ Told(Note("job_started", i, NoJob, NoReq)) /\ stops' \subseteq stops
        /\ UNCHANGED <<up, linked, viewVars, staleMap, staleSave, addCrossed>>
    BY <1>8 DEF AutoRun
  <2> QED BY <2>1, <2>2, TypesMarked
<1>9. ASSUME NEW i \in DOMAIN list, TrackedRunEnds(i) PROVE WireTypes'
  <2>1. NoReq \in Nat BY DEF NoReq
  <2>2. /\ list' = Marked(list, i, FALSE) /\ saved' = DaemonSaves
        /\ Told(Note("job_completed", i, NoJob, NoReq)) /\ stops' \subseteq stops
        /\ UNCHANGED <<up, linked, viewVars, staleMap, staleSave, addCrossed>>
    BY <1>9 DEF TrackedRunEnds
  <2> QED BY <2>1, <2>2, TypesMarked
<1>10. ASSUME NEW s \in stops, StopCallAnswered(s) PROVE WireTypes'
  <2>1. CASE s.at \in DOMAIN list /\ list[s.at].id = s.id /\ Tracked(s.at)
    <3>1. s.req \in Nat BY DEF WireTypes, StopRecs
    <3>2. /\ list' = Marked(list, s.at, FALSE) /\ saved' = DaemonSaves
          /\ Told(Note("job_stopped", s.at, NoJob, s.req)) /\ stops' \subseteq stops
          /\ UNCHANGED <<up, linked, viewVars, staleMap, staleSave, addCrossed>>
      BY <1>10, <2>1 DEF StopCallAnswered
    <3> QED BY <2>1, <3>1, <3>2, TypesMarked
  <2>2. CASE ~(s.at \in DOMAIN list /\ list[s.at].id = s.id /\ Tracked(s.at))
    BY <1>10, <2>2 DEF StopCallAnswered, WireTypes, viewVars
  <2> QED BY <2>1, <2>2
<1>12. CASE MountsListed
  <2>1. list \in Seq(JobRec) BY DEF WireTypes
  <2>2. Jobs(NoReq) \in Lists BY <2>1, NoJobIs DEF Jobs, NoReq, Lists
  <2>3. Told(Jobs(NoReq)) BY <1>12 DEF MountsListed
  <2>4. down' \in Seq(Notes \cup Lists) BY <2>2, <2>3, ToldTypes
  <2>5. addCrossed' \in BOOLEAN BY <1>12 DEF MountsListed, AddComing, WireTypes
  <2> QED BY <1>12, <2>1, <2>4, <2>5 DEF MountsListed, DaemonSaves, WireTypes, viewVars
<1>11. CASE UNCHANGED linkVars BY <1>11 DEF linkVars, daemonVars, viewVars, WireTypes
<1> QED BY <1>1, <1>2, <1>3, <1>4, <1>5, <1>6, <1>7, <1>8, <1>9, <1>10, <1>11, <1>12 DEF LinkNext

-----------------------------------------------------------------------------
(* The invariant *)

\* The file holds the jobs of the daemon, or those the window made of them
\* with the job that it has asked the daemon to add next.
FileInv ==
  \/ Ids(saved) = Ids(list)
  \/ /\ up # <<>> /\ Head(up).kind = "add_job"
     /\ Ids(saved) = Append(Ids(list), Head(up).job.id)

AgreeInv ==
  ~staleMap =>
    /\ ~addCrossed => RowIds(rows) = Ids(mirror)
    /\ linked => Traced(Ids(mirror), down, Ids(list), up, addCrossed)
    /\ linked /\ ~staleSave => FileInv

\* A list of jobs and an addition are not under way together, unless they have
\* crossed.
CrossInv == linked /\ ~addCrossed /\ ListComing => ~AddComing

\* What is under way when a message is put behind the others, or taken
LEMMA KindsAppend ==
  ASSUME NEW S, NEW s \in Seq(S), NEW x \in S, NEW kind
  PROVE  (\E k \in DOMAIN Append(s, x) : Append(s, x)[k].kind = kind)
           => x.kind = kind \/ \E k \in DOMAIN s : s[k].kind = kind
<1>1. Append(s, x) \in Seq(S) /\ Len(Append(s, x)) = Len(s) + 1
      /\ (\A k \in 1 .. Len(s) : Append(s, x)[k] = s[k]) /\ Append(s, x)[Len(s) + 1] = x
  BY AppendProperties
<1>2. DOMAIN Append(s, x) = 1 .. Len(s) + 1 /\ DOMAIN s = 1 .. Len(s) /\ Len(s) \in Nat BY <1>1
<1>3. ASSUME NEW k \in 1 .. Len(s) + 1, Append(s, x)[k].kind = kind
      PROVE  x.kind = kind \/ \E j \in 1 .. Len(s) : s[j].kind = kind
  <2>1. CASE k = Len(s) + 1 BY <1>1, <1>3, <2>1
  <2>2. CASE k # Len(s) + 1
    <3>1. k \in 1 .. Len(s) BY <1>2, <2>2
    <3> QED BY <1>1, <1>3, <3>1
  <2> QED BY <2>1, <2>2
<1> QED BY <1>2, <1>3

LEMMA KindsTail ==
  ASSUME NEW S, NEW s \in Seq(S), s # <<>>, NEW kind
  PROVE  (\E k \in DOMAIN Tail(s) : Tail(s)[k].kind = kind) => \E k \in DOMAIN s : s[k].kind = kind
<1>1. Tail(s) \in Seq(S) /\ Len(Tail(s)) = Len(s) - 1
      /\ \A k \in 1 .. Len(Tail(s)) : Tail(s)[k] = s[k + 1]
  BY HeadTailProperties
<1>2. DOMAIN Tail(s) = 1 .. Len(Tail(s)) /\ DOMAIN s = 1 .. Len(s) /\ Len(s) \in Nat BY <1>1
<1>3. ASSUME NEW k \in 1 .. Len(Tail(s)), Tail(s)[k].kind = kind
      PROVE  \E j \in 1 .. Len(s) : s[j].kind = kind
  <2>1. k + 1 \in 1 .. Len(s) BY <1>1, <1>2
  <2> QED BY <1>1, <1>3, <2>1
<1> QED BY <1>2, <1>3

\* The same of what the window and the daemon send
LEMMA NoMoreAsked ==
  ASSUME WireTypes, NEW r \in Requests, up' = Append(up, r), r.kind # "get_jobs"
  PROVE  /\ (down' = down => (ListComing' => ListComing))
         /\ (r.kind # "add_job" => (AddComing' => AddComing))
<1>1. up \in Seq(Requests) BY DEF WireTypes
<1>2. (\E k \in DOMAIN up' : up'[k].kind = "get_jobs") => \E k \in DOMAIN up : up[k].kind = "get_jobs"
  BY <1>1, KindsAppend
<1>3. (\E k \in DOMAIN up' : up'[k].kind = "add_job")
        => r.kind = "add_job" \/ \E k \in DOMAIN up : up[k].kind = "add_job"
  BY <1>1, KindsAppend
<1> QED BY <1>2, <1>3 DEF ListComing, AddComing

LEMMA CrossAdd ==
  ASSUME WireTypes, CrossInv, NEW id \in JobIds, NEW run \in BOOLEAN, AddNew(id, run)
  PROVE  CrossInv'
<1> DEFINE j == Job(id, FALSE)
           jobs == Append(mirror, j)
           a == Asking("add_job", Len(jobs), j, IF run THEN "run" ELSE "label")
           r == Asked(a, nextReq)
<1> SUFFICES ASSUME linked', ~addCrossed' PROVE ~ListComing'
  BY DEF CrossInv
<1>1. linked /\ down' = down /\ ~ListComing /\ Sent(<<a>>) BY DEF AddNew
<1>2. mirror \in Seq(JobRec) /\ nextReq \in Nat BY DEF WireTypes
<1>3. j \in JobRec BY DEF Job, JobRec, IdSet
<1>4. a \in Asks
  <2>1. jobs \in Seq(JobRec) BY <1>2, <1>3, AppendProperties
  <2>2. Len(jobs) \in Nat BY <2>1, LenProperties
  <2> QED BY <1>3, <2>2 DEF Asking, Asks
<1>5. a.kind = "add_job" BY DEF Asking
<1> HIDE DEF a
<1>6. r \in Requests /\ r.kind = "add_job" BY <1>2, <1>4, <1>5, AskedIs DEF Asked, Request
<1>7. up' = Append(up, r) BY <1>1, <1>4, SentOne
<1> HIDE DEF r
<1> QED BY <1>1, <1>6, <1>7, NoMoreAsked

\* A click
LEMMA CrossAsk ==
  ASSUME WireTypes, CrossInv, NEW a \in Asks, a.kind # "add_job", Sent(<<a>>),
         UNCHANGED <<down, linked, addCrossed>>
  PROVE  CrossInv'
<1> SUFFICES ASSUME linked', ~addCrossed', ListComing' PROVE ~AddComing'
  BY DEF CrossInv
<1> DEFINE r == Asked(a, nextReq)
<1>0. nextReq \in Nat BY DEF WireTypes
<1>1. up' = Append(up, r) BY SentOne
<1>2. r \in Requests /\ r.kind \notin {"add_job", "get_jobs"}
  BY <1>0, AskedIs DEF Asked, Request, Asks
<1> HIDE DEF r
<1> QED BY <1>1, <1>2, NoMoreAsked DEF CrossInv

LEMMA CrossClick ==
  ASSUME WireTypes, CrossInv, NEW i \in DOMAIN rows,
         ClickRun(i) \/ ClickStop(i) \/ ClickDelete(i) \/ OpenEdit(i)
  PROVE  CrossInv'
<1>0. i \in Nat BY DEF WireTypes
<1> DEFINE a == Asking("run_job", i, NoJob, "label")
           b == Asking("stop_job", i, NoJob, "stopped")
           c == Asking("delete_job", i, NoJob, "label")
<1>1. a \in Asks /\ b \in Asks /\ c \in Asks BY <1>0, NoJobIs DEF Asking, Asks
<1>2. a.kind # "add_job" /\ b.kind # "add_job" /\ c.kind # "add_job" BY DEF Asking
<1>3. CASE ClickRun(i)
  <2>1. Sent(<<a>>) /\ UNCHANGED <<down, linked, addCrossed>> BY <1>3 DEF ClickRun
  <2> HIDE DEF a
  <2> QED BY <1>1, <1>2, <2>1, CrossAsk
<1>4. CASE ClickStop(i)
  <2>1. Sent(<<b>>) /\ UNCHANGED <<down, linked, addCrossed>> BY <1>4 DEF ClickStop
  <2> HIDE DEF b
  <2> QED BY <1>1, <1>2, <2>1, CrossAsk
<1>5. CASE ClickDelete(i)
  <2>1. Sent(<<c>>) /\ UNCHANGED <<down, linked, addCrossed>> BY <1>5 DEF ClickDelete
  <2> HIDE DEF c
  <2> QED BY <1>1, <1>2, <2>1, CrossAsk
<1>6. CASE OpenEdit(i) BY <1>6 DEF OpenEdit, CrossInv, ListComing, AddComing
<1> QED BY <1>3, <1>4, <1>5, <1>6

LEMMA CrossEdit ==
  ASSUME WireTypes, CrossInv, NEW run \in BOOLEAN, SaveEdit(run)
  PROVE  CrossInv'
<1> DEFINE a == Asking("update_job", dialog.index, dialog.job, "label")
           b == Asking("run_job", dialog.index, NoJob, "label")
           u == Asked(a, nextReq)
           v == Asked(b, nextReq + 1)
<1> SUFFICES ASSUME linked', ~addCrossed', ListComing' PROVE ~AddComing'
  BY DEF CrossInv
<1>0. nextReq \in Nat /\ up \in Seq(Requests) BY DEF WireTypes
<1>1. linked /\ ~addCrossed /\ down' = down BY DEF SaveEdit
<1>2. CASE dialog.index \notin DOMAIN mirror
  <2>1. up' = up BY <1>2 DEF SaveEdit
  <2> QED BY <1>1, <2>1 DEF CrossInv, ListComing, AddComing
<1>3. CASE dialog.index \in DOMAIN mirror
  <2>1. Sent(EditAsks(run)) BY <1>3 DEF SaveEdit, EditAsks
  <2>2. a \in Asks /\ b \in Asks /\ EditAsks(run) = IF run THEN <<a, b>> ELSE <<a>>
    BY EditAsksAre
  <2>3. a.kind = "update_job" /\ b.kind = "run_job" BY DEF Asking
  <2> HIDE DEF a, b
  <2>4. u \in Requests /\ v \in Requests
    <3>1. nextReq + 1 \in Nat BY <1>0
    <3> QED BY <1>0, <2>2, <3>1, AskedIs
  <2>5. u.kind \notin {"add_job", "get_jobs"} /\ v.kind \notin {"add_job", "get_jobs"}
    BY <2>3 DEF Asked, Request
  <2>6. up' = Append(up, u) \/ up' = Append(Append(up, u), v)
    <3>1. CASE run
      <4>1. Sent(<<a, b>>) BY <2>1, <2>2, <3>1
      <4> QED BY <1>1, <2>2, <4>1, SentTwo
    <3>2. CASE ~run
      <4>1. Sent(<<a>>) BY <2>1, <2>2, <3>2
      <4> QED BY <1>1, <2>2, <4>1, SentOne
    <3> QED BY <3>1, <3>2
  <2> HIDE DEF u, v
  <2>7. ASSUME NEW kind \in {"add_job", "get_jobs"}, \E k \in DOMAIN up' : up'[k].kind = kind
        PROVE  \E k \in DOMAIN up : up[k].kind = kind
    <3>1. (\E k \in DOMAIN Append(up, u) : Append(up, u)[k].kind = kind)
            => \E k \in DOMAIN up : up[k].kind = kind
      BY <1>0, <2>4, <2>5, KindsAppend
    <3>2. Append(up, u) \in Seq(Requests) BY <1>0, <2>4, AppendProperties
    <3> DEFINE w == Append(up, u)
    <3>3. (\E k \in DOMAIN Append(w, v) : Append(w, v)[k].kind = kind)
            => v.kind = kind \/ \E k \in DOMAIN w : w[k].kind = kind
      <4>1. w \in Seq(Requests) BY <3>2
      <4> HIDE DEF w
      <4> QED BY <2>4, <4>1, KindsAppend
    <3> QED BY <2>5, <2>6, <2>7, <3>1, <3>3
  <2>8. (AddComing' => AddComing) /\ (ListComing' => ListComing)
    BY <1>1, <2>7 DEF AddComing, ListComing
  <2> QED BY <1>1, <2>8 DEF CrossInv
<1> QED BY <1>2, <1>3

LEMMA CrossReceive ==
  ASSUME WireTypes, CrossInv, Receive
  PROVE  CrossInv'
<1> DEFINE m == Head(down)
           jobs == Seen(m)
           base == RowsAfter(m, jobs)
           cbs == {w \in waiting : m.req # NoReq /\ w.req = m.req}
           runs == {w \in cbs : w.kind = "run" /\ w.index \in DOMAIN jobs /\ w.index \in DOMAIN base}
           w0 == CHOOSE w \in runs : TRUE
           r == Request("run_job", w0.index, NoJob, nextReq)
<1>0. down \in Seq(Notes \cup Lists) /\ down # <<>> /\ up \in Seq(Requests)
      /\ waiting \subseteq Callbacks /\ nextReq \in Nat
  BY DEF WireTypes, Receive
<1>1. down' = Tail(down) /\ linked' = linked /\ addCrossed' = addCrossed BY DEF Receive
<1>2. up' = up \/ (runs # {} /\ up' = Append(up, r)) BY DEF Receive
<1>3. runs # {} => r \in Requests /\ r.kind = "run_job"
  <2>1. SUFFICES ASSUME runs # {} PROVE r \in Requests /\ r.kind = "run_job"
    OBVIOUS
  <2>2. w0 \in Callbacks BY <1>0, <2>1
  <2> HIDE DEF w0, runs, cbs
  <2>3. w0.index \in Nat BY <2>2 DEF Callbacks
  <2> QED BY <1>0, <2>3, NoJobIs DEF Request, Requests
<1> HIDE DEF runs, cbs, w0, r
<1>4. (\E k \in DOMAIN down' : down'[k].kind = "jobs_list")
        => \E k \in DOMAIN down : down[k].kind = "jobs_list"
  BY <1>0, <1>1, KindsTail
<1>5. ASSUME NEW kind \in {"add_job", "get_jobs"}, \E k \in DOMAIN up' : up'[k].kind = kind
      PROVE  \E k \in DOMAIN up : up[k].kind = kind
  <2>1. CASE up' = up BY <1>5, <2>1
  <2>2. CASE runs # {} /\ up' = Append(up, r)
    <3>1. r \in Requests /\ r.kind # kind BY <1>3, <2>2
    <3> QED BY <1>0, <1>5, <2>2, <3>1, KindsAppend
  <2> QED BY <1>2, <2>1, <2>2
<1> QED BY <1>1, <1>4, <1>5 DEF CrossInv, ListComing, AddComing

LEMMA CrossHandle ==
  ASSUME WireTypes, CrossInv, Handle
  PROVE  CrossInv'
<1> DEFINE r == Head(up)
<1>0. up \in Seq(Requests) /\ up # <<>> /\ down \in Seq(Notes \cup Lists) /\ list \in Seq(JobRec)
  BY DEF WireTypes, Handle
<1>1. up' = Tail(up) /\ linked' = linked /\ addCrossed' = addCrossed BY DEF Handle
<1>2. \A kind : (\E k \in DOMAIN up' : up'[k].kind = kind) => \E k \in DOMAIN up : up[k].kind = kind
  BY <1>0, <1>1, KindsTail
<1>3. ASSUME r.kind # "get_jobs", \E k \in DOMAIN down' : down'[k].kind = "jobs_list"
      PROVE  \E k \in DOMAIN down : down[k].kind = "jobs_list"
  <2>0. r \in Requests BY <1>0, HeadTailProperties
  <2>1. r.job \in JobRec /\ r.req \in Nat /\ r.index \in Nat /\ NoJob \in JobRec
    BY <2>0, NoJobIs DEF Requests
  <2>2. down' = down \/ \E m \in Notes : Told(m)
    <3>1. CASE ~(r.kind = "add_job" \/ r.index \in DOMAIN list) BY <1>3, <3>1 DEF Handle
    <3>2. CASE r.kind = "add_job" \/ r.index \in DOMAIN list
      <4>0. HandleRequest(r) BY <3>2 DEF Handle
      <4>1. Len(list) + 1 \in Nat BY <1>0
      <4>2. /\ Note("job_added", Len(list) + 1, r.job, r.req) \in Notes
            /\ Note("job_updated", r.index, r.job, r.req) \in Notes
            /\ Note("job_deleted", r.index, NoJob, r.req) \in Notes
            /\ Note("job_started", r.index, NoJob, r.req) \in Notes
        BY <2>1, <4>1, NotesAre
      <4> HIDE DEF r
      <4>3. CASE r.kind = "add_job" BY <4>0, <4>2, <4>3 DEF HandleRequest
      <4>4. CASE r.kind = "update_job" BY <4>0, <4>2, <4>4 DEF HandleRequest
      <4>5. CASE r.kind = "delete_job" BY <4>0, <4>2, <4>5 DEF HandleRequest
      <4>6. CASE r.kind = "run_job" BY <4>0, <4>2, <4>6 DEF HandleRequest
      <4>7. CASE r.kind = "stop_job" BY <4>0, <4>7 DEF HandleRequest
      <4> QED BY <1>3, <2>0, <4>3, <4>4, <4>5, <4>6, <4>7 DEF Requests
    <3> QED BY <3>1, <3>2
  <2>3. CASE down' = down BY <1>3, <2>3
  <2>4. ASSUME NEW m \in Notes, Told(m)
        PROVE  \E k \in DOMAIN down : down[k].kind = "jobs_list"
    <3>1. down' = Append(down, m) /\ m.kind # "jobs_list" BY <2>4 DEF Told, Notes
    <3>2. m \in Notes \cup Lists OBVIOUS
    <3> QED BY <1>0, <1>3, <3>1, <3>2, KindsAppend
  <2> QED BY <2>2, <2>3, <2>4
<1>4. r.kind = "get_jobs" => \E k \in DOMAIN up : up[k].kind = "get_jobs"
  <2>1. 1 \in DOMAIN up /\ r = up[1] BY <1>0, EmptySeq
  <2> QED BY <2>1
<1> HIDE DEF r
<1>5. ListComing' => ListComing BY <1>2, <1>3, <1>4 DEF ListComing
<1>6. AddComing' => AddComing BY <1>2 DEF AddComing
<1> QED BY <1>1, <1>5, <1>6 DEF CrossInv

\* A message about a run
LEMMA CrossTold ==
  ASSUME WireTypes, CrossInv, NEW m \in Notes, Told(m), UNCHANGED <<up, linked, addCrossed>>
  PROVE  CrossInv'
<1>0. down \in Seq(Notes \cup Lists) BY DEF WireTypes
<1>1. down' = Append(down, m) /\ m.kind # "jobs_list" BY DEF Told, Notes
<1>2. m \in Notes \cup Lists OBVIOUS
<1>3. (\E k \in DOMAIN down' : down'[k].kind = "jobs_list")
        => \E k \in DOMAIN down : down[k].kind = "jobs_list"
  BY <1>0, <1>1, <1>2, KindsAppend
<1> QED BY <1>3 DEF CrossInv, ListComing, AddComing

LEMMA CrossStep == WireTypes /\ CrossInv /\ [LinkNext]_linkVars => CrossInv'
<1> SUFFICES ASSUME WireTypes, CrossInv, [LinkNext]_linkVars PROVE CrossInv'
  OBVIOUS
<1>1. CASE ShowJobsPage BY <1>1 DEF ShowJobsPage, CrossInv, ListComing, AddComing
<1>2. CASE Receive BY <1>2, CrossReceive
<1>3. CASE Handle BY <1>3, CrossHandle
<1>4. CASE MountsListed
  <2>1. linked' = linked /\ addCrossed' = (addCrossed \/ AddComing) /\ AddComing' = AddComing
    BY <1>4 DEF MountsListed, AddComing
  <2> QED BY <2>1 DEF CrossInv
<1>5. CASE DaemonEnds BY <1>5 DEF DaemonEnds, CrossInv
<1>6. ASSUME NEW i \in DOMAIN rows, ClickRun(i) \/ ClickStop(i) \/ ClickDelete(i) \/ OpenEdit(i)
      PROVE  CrossInv'
  BY <1>6, CrossClick
<1>7. ASSUME NEW id \in JobIds, NEW run \in BOOLEAN, AddNew(id, run) PROVE CrossInv'
  BY <1>7, CrossAdd
<1>8. ASSUME NEW run \in BOOLEAN, SaveEdit(run) PROVE CrossInv' BY <1>8, CrossEdit
<1>9. ASSUME NEW i \in DOMAIN list, AutoRun(i) \/ TrackedRunEnds(i) PROVE CrossInv'
  <2>1. i \in Nat BY DEF WireTypes
  <2>2. /\ Note("job_started", i, NoJob, NoReq) \in Notes
        /\ Note("job_completed", i, NoJob, NoReq) \in Notes
    BY <2>1, NoJobIs, NotesAre DEF NoReq
  <2>3. /\ \E m \in Notes : Told(m)
        /\ UNCHANGED <<up, linked, addCrossed>>
    BY <1>9, <2>2 DEF AutoRun, TrackedRunEnds
  <2> QED BY <2>3, CrossTold
<1>10. ASSUME NEW s \in stops, StopCallAnswered(s) PROVE CrossInv'
  <2>1. s \in StopRecs BY DEF WireTypes
  <2>2. Note("job_stopped", s.at, NoJob, s.req) \in Notes BY <2>1, NoJobIs, NotesAre DEF StopRecs
  <2>3. UNCHANGED <<up, linked, addCrossed>> BY <1>10 DEF StopCallAnswered
  <2>4. down' = down \/ \E m \in Notes : Told(m) BY <1>10, <2>2 DEF StopCallAnswered
  <2>5. CASE down' = down BY <2>3, <2>5 DEF CrossInv, ListComing, AddComing
  <2>6. CASE \E m \in Notes : Told(m) BY <2>3, <2>6, CrossTold
  <2> QED BY <2>4, <2>5, <2>6
<1>11. CASE UNCHANGED linkVars BY <1>11 DEF linkVars, CrossInv, ListComing, AddComing
<1> QED BY <1>1, <1>2, <1>3, <1>4, <1>5, <1>6, <1>7, <1>8, <1>9, <1>10, <1>11 DEF LinkNext

LEMMA FileKept ==
  ASSUME WireTypes, FileInv, NEW r \in Requests, up' = Append(up, r),
         saved' = saved, list' = list
  PROVE  FileInv'
<1>1. up \in Seq(Requests) BY DEF WireTypes
<1>2. up' # <<>> /\ Head(up') = IF up = <<>> THEN r ELSE Head(up) BY <1>1, FirstStays
<1> QED BY <1>2 DEF FileInv

LEMMA RowsAppend ==
  ASSUME NEW rs \in Seq(RowRec), NEW r \in RowRec
  PROVE  RowIds(Append(rs, r)) = Append(RowIds(rs), r.id)
<1>1. \A i \in 1 .. Len(rs) : rs[i] \in RowRec BY ElementOfSeq
<1>2. \A i \in 1 .. Len(rs) : rs[i].id \in IdSet BY <1>1 DEF RowRec
<1>3. r.id \in IdSet BY DEF RowRec
<1>4. Len(rs) \in Nat /\ RowIds(rs) = [i \in 1 .. Len(rs) |-> rs[i].id] BY DEF RowIds
<1>5. RowIds(rs) \in [1 .. Len(rs) -> IdSet] BY <1>2, <1>4
<1>6. RowIds(rs) \in Seq(IdSet) /\ Len(RowIds(rs)) = Len(rs)
      /\ \A i \in 1 .. Len(rs) : RowIds(rs)[i] = rs[i].id
  BY <1>4, <1>5
<1>7. Append(rs, r) \in Seq(RowRec) /\ Len(Append(rs, r)) = Len(rs) + 1
      /\ (\A i \in 1 .. Len(rs) : Append(rs, r)[i] = rs[i]) /\ Append(rs, r)[Len(rs) + 1] = r
  BY AppendProperties
<1> DEFINE q == RowIds(Append(rs, r))
           w == Append(RowIds(rs), r.id)
<1>8. q = [i \in 1 .. Len(rs) + 1 |-> Append(rs, r)[i].id] BY <1>7 DEF RowIds
<1>9. \A i \in 1 .. Len(rs) + 1 : q[i] = IF i <= Len(rs) THEN rs[i].id ELSE r.id
  <2>1. ASSUME NEW i \in 1 .. Len(rs) + 1 PROVE q[i] = IF i <= Len(rs) THEN rs[i].id ELSE r.id
    <3>1. q[i] = Append(rs, r)[i].id BY <1>8
    <3>2. CASE i <= Len(rs)
      <4>1. i \in 1 .. Len(rs) BY <1>4, <3>2
      <4> QED BY <1>7, <3>1, <3>2, <4>1
    <3>3. CASE ~(i <= Len(rs))
      <4>1. i = Len(rs) + 1 BY <1>4, <3>3
      <4> QED BY <1>7, <3>1, <3>3, <4>1
    <3> QED BY <3>2, <3>3
  <2> QED BY <2>1
<1>10. q \in Seq(IdSet) /\ Len(q) = Len(rs) + 1
  <2>1. \A i \in 1 .. Len(rs) + 1 : q[i] \in IdSet BY <1>2, <1>3, <1>4, <1>9
  <2>2. Len(rs) + 1 \in Nat BY <1>4
  <2> HIDE DEF q
  <2>3. q \in [1 .. Len(rs) + 1 -> IdSet] BY <1>8, <2>1
  <2> QED BY <2>2, <2>3
<1>11. w \in Seq(IdSet) /\ Len(w) = Len(rs) + 1
       /\ (\A i \in 1 .. Len(rs) : w[i] = rs[i].id) /\ w[Len(rs) + 1] = r.id
  BY <1>3, <1>6, AppendProperties
<1> HIDE DEF q, w
<1>12. \A i \in 1 .. Len(q) : q[i] = w[i] BY <1>4, <1>9, <1>10, <1>11
<1>13. q = w BY <1>10, <1>11, <1>12, SameList
<1> QED BY <1>13 DEF q, w

LEMMA AgreeInit == LinkInit => AgreeInv /\ CrossInv
<1> SUFFICES ASSUME LinkInit PROVE AgreeInv /\ CrossInv
  OBVIOUS
<1> DEFINE r == Request("get_jobs", 0, NoJob, 1)
<1>1. mirror = <<>> /\ rows = <<>> /\ down = <<>> /\ saved = list /\ up = <<r>> BY DEF LinkInit
<1>2. RowIds(rows) = Ids(mirror) /\ Ids(mirror) = <<>> BY <1>1 DEF RowIds, Ids
<1>3. WireTypes BY TypesInit
<1>4. Ids(list) \in Seq(IdSet) BY <1>3, IdsAre DEF WireTypes
<1>5. r \in Requests /\ r.kind = "get_jobs" BY NoJobIs DEF Request, Requests
<1> HIDE DEF r
<1>6. addCrossed \in BOOLEAN BY <1>3 DEF WireTypes
<1>7. Traced(<<>>, <<>>, Ids(list), <<r>>, addCrossed) BY <1>4, <1>5, <1>6, TracedInit
<1>8. Traced(Ids(mirror), down, Ids(list), up, addCrossed) BY <1>1, <1>2, <1>7
<1>9. FileInv BY <1>1 DEF FileInv
<1>10. AgreeInv BY <1>2, <1>8, <1>9 DEF AgreeInv
<1>11. ~AddComing BY <1>1, <1>5 DEF AddComing
<1> QED BY <1>10, <1>11 DEF CrossInv

LEMMA AgreeShow ==
  ASSUME WireTypes, AgreeInv, ShowJobsPage
  PROVE  AgreeInv'
<1> SUFFICES ASSUME ~staleMap' PROVE AgreeInv'
  BY DEF AgreeInv
<1>1. ~staleMap /\ ~InFlight /\ ~staleSave
  BY DEF ShowJobsPage
<1>2. mirror' = saved /\ rows' = Rebuilt(saved) BY DEF ShowJobsPage
<1>3. UNCHANGED <<list, saved, up, down, linked, staleSave, addCrossed>> BY DEF ShowJobsPage, daemonVars
<1>4. saved \in Seq(JobRec) /\ list \in Seq(JobRec) /\ addCrossed \in BOOLEAN BY DEF WireTypes
<1>5. RowIds(rows)' = Ids(mirror)'
  <2>1. RowIds(Rebuilt(saved)) = Ids(saved) BY <1>4, RebuiltRows
  <2> QED BY <1>2, <2>1
<1>6. CASE ~linked BY <1>3, <1>5, <1>6 DEF AgreeInv
<1>7. CASE linked
  <2>1. up = <<>> /\ down = <<>> BY <1>1 DEF InFlight
  <2>3. Traced(Ids(mirror), <<>>, Ids(list), <<>>, addCrossed) BY <1>1, <1>7, <2>1 DEF AgreeInv
  <2>4. Ids(list) \in Seq(IdSet) BY <1>4, IdsAre
  <2>5. Ids(mirror) = Ids(list) BY <1>4, <2>3, <2>4, TracedEnd
  <2>6. FileInv BY <1>1, <1>7 DEF AgreeInv
  <2>7. Ids(saved) = Ids(list) BY <2>1, <2>6 DEF FileInv
  <2>8. Traced(Ids(mirror'), down', Ids(list'), up', addCrossed')
    <3>1. Ids(mirror') = Ids(mirror) BY <1>2, <2>5, <2>7
    <3>2. Ids(list') = Ids(list) /\ down' = <<>> /\ up' = <<>> /\ addCrossed' = addCrossed
      BY <1>3, <2>1
    <3> QED BY <2>3, <3>1, <3>2
  <2>9. FileInv' BY <1>3, <2>7 DEF FileInv
  <2> QED BY <1>5, <2>8, <2>9 DEF AgreeInv
<1> QED BY <1>6, <1>7

\* A click asks one thing of the daemon.
LEMMA AgreeAsk ==
  ASSUME WireTypes, AgreeInv, ~staleMap, linked,
         NEW a \in Asks, a.kind # "add_job", Sent(<<a>>), RowIds(rows)' = RowIds(rows),
         UNCHANGED <<list, saved, down, linked, mirror, staleMap, staleSave, addCrossed>>
  PROVE  AgreeInv'
<1>1. Traced(Ids(mirror), down, Ids(list), up, addCrossed) BY DEF AgreeInv
<1>2. nextReq \in Nat /\ up \in Seq(Requests) /\ addCrossed \in BOOLEAN BY DEF WireTypes
<1> DEFINE r == Asked(a, nextReq)
<1>3. up' = Append(up, r) BY SentOne
<1>4. r \in Requests BY <1>2, AskedIs
<1>5. r.kind \notin {"add_job", "get_jobs"} BY DEF Asked, Request, Asks
<1> HIDE DEF r
<1>7. Traced(Ids(mirror), down, Ids(list), up', addCrossed)
  BY <1>1, <1>2, <1>3, <1>4, <1>5, TracedAsk
<1>8. Traced(Ids(mirror), down, Ids(list), up, addCrossed)'
  <2>1. Ids(mirror') = Ids(mirror) /\ Ids(list') = Ids(list) /\ down' = down
        /\ addCrossed' = addCrossed
    OBVIOUS
  <2> QED BY <1>7, <2>1
<1>10. linked /\ ~staleSave => FileInv' BY <1>3, <1>4, FileKept DEF AgreeInv
<1>11. ~addCrossed' => RowIds(rows)' = Ids(mirror)'
  <2>1. Ids(mirror') = Ids(mirror) OBVIOUS
  <2> QED BY <2>1 DEF AgreeInv
<1> QED BY <1>8, <1>10, <1>11 DEF AgreeInv

LEMMA AgreeClick ==
  ASSUME WireTypes, AgreeInv, NEW i \in DOMAIN rows,
         ClickRun(i) \/ ClickStop(i) \/ ClickDelete(i) \/ OpenEdit(i)
  PROVE  AgreeInv'
<1> SUFFICES ASSUME ~staleMap' PROVE AgreeInv'
  BY DEF AgreeInv
<1>0. i \in Nat /\ DOMAIN mirror = 1 .. Len(mirror) BY DEF WireTypes
<1>1. (~addCrossed => RowIds(rows) = Ids(mirror)) /\ ~staleMap
  <2>1. staleMap' = staleMap
    <3>1. ClickRun(i) => staleMap' = staleMap BY DEF ClickRun
    <3>2. ClickStop(i) => staleMap' = staleMap BY DEF ClickStop
    <3>3. ClickDelete(i) => staleMap' = staleMap BY DEF ClickDelete
    <3>4. OpenEdit(i) => staleMap' = staleMap BY DEF OpenEdit
    <3> QED BY <3>1, <3>2, <3>3, <3>4
  <2> QED BY <2>1 DEF AgreeInv
<1>2. CASE ClickRun(i)
  <2>1. Asking("run_job", i, NoJob, "label") \in Asks BY <1>0, NoJobIs DEF Asking, Asks
  <2>2. UNCHANGED <<list, saved, down, linked, mirror, staleMap, staleSave, addCrossed>>
    BY <1>2 DEF ClickRun, daemonVars
  <2>3. RowIds(rows)' = RowIds(rows)
    <3>1. RowIds(WithStop(i, TRUE)) = RowIds(rows) BY WithStopRows
    <3> QED BY <1>2, <3>1 DEF ClickRun
  <2>4. CASE ~linked
    <3>1. Ids(mirror') = Ids(mirror) BY <2>2
    <3> QED BY <1>1, <2>2, <2>3, <2>4, <3>1 DEF AgreeInv
  <2>5. CASE linked
    <3> DEFINE a == Asking("run_job", i, NoJob, "label")
    <3>1. a.kind # "add_job" BY DEF Asking
    <3>2. Sent(<<a>>) BY <1>2 DEF ClickRun
    <3> HIDE DEF a
    <3> QED BY <1>0, <1>1, <2>1, <2>2, <2>3, <2>5, <3>1, <3>2, AgreeAsk DEF a
  <2> QED BY <2>4, <2>5
<1>3. CASE ClickStop(i)
  <2>1. Asking("stop_job", i, NoJob, "stopped") \in Asks BY <1>0, NoJobIs DEF Asking, Asks
  <2>2. UNCHANGED <<list, saved, down, linked, mirror, rows, staleMap, staleSave, addCrossed>>
    BY <1>3 DEF ClickStop, daemonVars
  <2>3. RowIds(rows)' = RowIds(rows) BY <2>2
  <2>4. CASE ~linked
    <3>1. Ids(mirror') = Ids(mirror) BY <2>2
    <3> QED BY <1>1, <2>2, <2>3, <2>4, <3>1 DEF AgreeInv
  <2>5. CASE linked
    <3> DEFINE a == Asking("stop_job", i, NoJob, "stopped")
    <3>1. a.kind # "add_job" BY DEF Asking
    <3>2. Sent(<<a>>) BY <1>3 DEF ClickStop
    <3> HIDE DEF a
    <3> QED BY <1>0, <1>1, <2>1, <2>2, <2>3, <2>5, <3>1, <3>2, AgreeAsk DEF a
  <2> QED BY <2>4, <2>5
<1>4. CASE ClickDelete(i)
  <2>1. Asking("delete_job", i, NoJob, "label") \in Asks BY <1>0, NoJobIs DEF Asking, Asks
  <2>2. UNCHANGED <<list, down, linked, staleMap, addCrossed>> BY <1>4 DEF ClickDelete, daemonVars
  <2>3. CASE ~linked
    <3>1. mirror' = Without(mirror, i) /\ rows' = Rebuilt(Without(mirror, i))
      BY <1>4, <2>3 DEF ClickDelete
    <3>2. mirror \in Seq(JobRec) /\ i \in 1 .. Len(mirror) BY <1>0, <1>4 DEF ClickDelete, WireTypes
    <3>3. Without(mirror, i) \in Seq(JobRec) BY <3>2, IdsDrop
    <3>4. RowIds(Rebuilt(Without(mirror, i))) = Ids(Without(mirror, i)) BY <3>3, RebuiltRows
    <3>5. RowIds(rows') = Ids(mirror') BY <3>1, <3>4
    <3> QED BY <2>2, <2>3, <3>5 DEF AgreeInv
  <2>4. CASE linked
    <3> DEFINE a == Asking("delete_job", i, NoJob, "label")
    <3>1. a.kind # "add_job" BY DEF Asking
    <3>2. Sent(<<a>>) BY <1>4 DEF ClickDelete
    <3>3. UNCHANGED <<list, saved, down, linked, mirror, rows, staleMap, staleSave, addCrossed>>
      BY <1>4, <2>4 DEF ClickDelete, daemonVars
    <3>4. RowIds(rows)' = RowIds(rows) BY <3>3
    <3> HIDE DEF a
    <3> QED BY <1>0, <1>1, <2>1, <2>4, <3>1, <3>2, <3>3, <3>4, AgreeAsk DEF a
  <2> QED BY <2>3, <2>4
<1>5. CASE OpenEdit(i)
  <2>1. UNCHANGED <<list, saved, up, down, linked, mirror, rows, staleMap, staleSave, addCrossed>>
    BY <1>5 DEF OpenEdit, daemonVars
  <2>2. Ids(mirror') = Ids(mirror) /\ RowIds(rows') = RowIds(rows) /\ Ids(list') = Ids(list) BY <2>1
  <2>3. CASE ~linked BY <1>1, <2>1, <2>2, <2>3 DEF AgreeInv
  <2>4. CASE linked
    <3>1. Traced(Ids(mirror), down, Ids(list), up, addCrossed) BY <1>1, <2>4 DEF AgreeInv
    <3>3. Traced(Ids(mirror'), down', Ids(list'), up', addCrossed') BY <2>1, <2>2, <3>1
    <3>4. linked /\ ~staleSave => FileInv' BY <1>1, <2>1 DEF AgreeInv, FileInv
    <3> QED BY <1>1, <2>1, <2>2, <3>3, <3>4 DEF AgreeInv
  <2> QED BY <2>3, <2>4
<1> QED BY <1>2, <1>3, <1>4, <1>5

LEMMA AgreeAdd ==
  ASSUME WireTypes, AgreeInv, NEW id \in JobIds, NEW run \in BOOLEAN, AddNew(id, run)
  PROVE  AgreeInv'
<1> DEFINE j == Job(id, FALSE)
           jobs == Append(mirror, j)
           a == Asking("add_job", Len(jobs), j, IF run THEN "run" ELSE "label")
           r == Asked(a, nextReq)
<1> SUFFICES ASSUME ~staleMap' PROVE AgreeInv'
  BY DEF AgreeInv
<1>0. mirror \in Seq(JobRec) /\ rows \in Seq(RowRec) /\ list \in Seq(JobRec)
      /\ up \in Seq(Requests) /\ down \in Seq(Notes \cup Lists) /\ nextReq \in Nat
      /\ addCrossed \in BOOLEAN
  BY DEF WireTypes
<1>1. j \in JobRec /\ j.id = id /\ Row(j) \in RowRec /\ Row(j).id = id
  BY DEF Job, JobRec, Row, RowRec, IdSet
<1>2. ~staleMap /\ addCrossed' = (addCrossed \/ ListComing) BY DEF AddNew
<1>2a. addCrossed' \in BOOLEAN BY <1>0, <1>2 DEF ListComing
<1>3. mirror' = jobs /\ rows' = Append(rows, Row(j)) /\ saved' = jobs
      /\ staleSave' = (staleSave \/ InFlight) /\ Sent(<<a>>)
  BY DEF AddNew, ViewSaves
<1>4. UNCHANGED <<list, down, linked>> BY DEF AddNew, daemonVars
<1> HIDE DEF j
<1>5. jobs \in Seq(JobRec) /\ Ids(jobs) = Append(Ids(mirror), id) BY <1>0, <1>1, IdsAppend
<1>6. ~addCrossed' => RowIds(rows') = Ids(mirror')
  <2>1. RowIds(Append(rows, Row(j))) = Append(RowIds(rows), id) BY <1>0, <1>1, RowsAppend
  <2>2. ~addCrossed' => RowIds(rows) = Ids(mirror) BY <1>2 DEF AgreeInv
  <2> QED BY <1>3, <1>5, <2>1, <2>2
<1>7. CASE ~linked BY <1>4, <1>6, <1>7 DEF AgreeInv
<1>8. CASE linked
  <2>1. a \in Asks
    <3>1. Len(jobs) \in Nat BY <1>5, LenProperties
    <3> QED BY <1>1, <3>1 DEF Asking, Asks
  <2>2. a.kind = "add_job" /\ a.job = j BY DEF Asking
  <2> HIDE DEF a
  <2>3. up' = Append(up, r) BY <1>3, <1>8, <2>1, SentOne
  <2>4. r \in Requests BY <1>0, <2>1, AskedIs
  <2>5. r.kind = "add_job" /\ r.job = j BY <2>2 DEF Asked, Request
  <2> HIDE DEF r
  <2>6. ~addCrossed' => /\ ~addCrossed /\ ~ListAsked(up)
                        /\ \A k \in 1 .. Len(down) : down[k].kind # "jobs_list"
    <3> SUFFICES ASSUME ~ListComing
                 PROVE  ~ListAsked(up) /\ \A k \in 1 .. Len(down) : down[k].kind # "jobs_list"
      BY <1>2
    <3>1. \A k \in 1 .. Len(down) : down[k].kind # "jobs_list" BY <1>0 DEF ListComing
    <3>2. ASSUME ListAsked(up) PROVE FALSE
      <4>1. up # <<>> /\ Head(up).kind = "get_jobs" BY <3>2 DEF ListAsked
      <4>2. 1 \in DOMAIN up /\ Head(up) = up[1] BY <1>0, <4>1, EmptySeq
      <4> QED BY <4>1, <4>2 DEF ListComing
    <3> QED BY <3>1, <3>2
  <2>8. Traced(Ids(mirror), down, Ids(list), up, addCrossed) BY <1>2, <1>8 DEF AgreeInv
  <2>9. Ids(mirror) \in Seq(IdSet) /\ Ids(list) \in Seq(IdSet) BY <1>0, IdsAre
  <2>10. Traced(Append(Ids(mirror), r.job.id), down, Ids(list), Append(up, r), addCrossed')
    BY <1>0, <1>2a, <2>4, <2>5, <2>6, <2>8, <2>9, TracedAdd
  <2>11. Traced(Ids(mirror'), down', Ids(list'), up', addCrossed')
    <3>1. Ids(mirror') = Append(Ids(mirror), r.job.id) BY <1>1, <1>3, <1>5, <2>5
    <3>2. Ids(list') = Ids(list) /\ down' = down BY <1>4
    <3> QED BY <2>3, <2>10, <3>1, <3>2
  <2>12. ASSUME ~staleSave' PROVE FileInv'
    <3>1. ~staleSave /\ up = <<>> /\ down = <<>> BY <1>3, <2>12 DEF InFlight
    <3>2. Ids(mirror) = Ids(list) BY <1>0, <2>8, <2>9, <3>1, TracedEnd
    <3>3. up' # <<>> /\ Head(up') = r
      <4>1. Append(up, r) # <<>> /\ Head(Append(up, r)) = r BY <1>0, <2>4, <3>1, FirstStays
      <4> QED BY <2>3, <4>1
    <3>4. Ids(saved') = Append(Ids(list'), Head(up').job.id)
      <4>1. Ids(list') = Ids(list) BY <1>4
      <4>2. Ids(saved') = Append(Ids(list), id) BY <1>3, <1>5, <3>2
      <4> QED BY <1>1, <2>5, <3>3, <4>1, <4>2
    <3> QED BY <2>5, <3>3, <3>4 DEF FileInv
  <2> QED BY <1>6, <2>11, <2>12 DEF AgreeInv
<1> QED BY <1>7, <1>8

LEMMA AgreeEdit ==
  ASSUME WireTypes, AgreeInv, NEW run \in BOOLEAN, SaveEdit(run)
  PROVE  AgreeInv'
<1> DEFINE i == dialog.index
           jobs == [mirror EXCEPT ![i] = dialog.job]
           a == Asking("update_job", i, dialog.job, "label")
           b == Asking("run_job", i, NoJob, "label")
<1> SUFFICES ASSUME ~staleMap' PROVE AgreeInv'
  BY DEF AgreeInv
<1>0. mirror \in Seq(JobRec) /\ rows \in Seq(RowRec) /\ list \in Seq(JobRec)
      /\ up \in Seq(Requests) /\ down \in Seq(Notes \cup Lists) /\ nextReq \in Nat
      /\ dialog.job \in JobRec /\ addCrossed \in BOOLEAN
  BY DEF WireTypes
<1>1. ~staleMap /\ UNCHANGED <<list, down, linked, addCrossed>>
  BY DEF SaveEdit, daemonVars
<1>2. ~addCrossed => RowIds(rows) = Ids(mirror) BY <1>1 DEF AgreeInv
<1>3. linked => Traced(Ids(mirror), down, Ids(list), up, addCrossed) BY <1>1 DEF AgreeInv
<1>4. CASE i \notin DOMAIN mirror
  <2>1. UNCHANGED <<mirror, saved, staleSave, rows, up>> BY <1>4 DEF SaveEdit
  <2>2. RowIds(rows') = RowIds(rows) /\ Ids(mirror') = Ids(mirror) /\ Ids(list') = Ids(list)
        /\ Ids(saved') = Ids(saved)
    BY <1>1, <2>1
  <2>4. linked => Traced(Ids(mirror'), down', Ids(list'), up', addCrossed') BY <1>1, <1>3, <2>1, <2>2
  <2>5. linked /\ ~staleSave => FileInv' BY <1>1, <2>1, <2>2 DEF AgreeInv, FileInv
  <2>6. ~addCrossed' => RowIds(rows') = Ids(mirror') BY <1>1, <1>2, <2>2
  <2> QED BY <1>1, <2>1, <2>4, <2>5, <2>6 DEF AgreeInv
<1>5. CASE i \in DOMAIN mirror
  <2>1. /\ mirror' = jobs /\ saved' = jobs /\ staleSave' = (staleSave \/ InFlight)
        /\ rows' = (IF run /\ linked THEN [Rebuilt(jobs) EXCEPT ![i].stop = TRUE] ELSE Rebuilt(jobs))
        /\ staleMap' = (staleMap \/ mirror[i].id # dialog.job.id)
    BY <1>5 DEF SaveEdit, ViewSaves
  <2>2. jobs \in Seq(JobRec) /\ Ids(jobs) = [Ids(mirror) EXCEPT ![i] = dialog.job.id]
    BY <1>0, IdsPut
  <2>3. Ids(jobs) = Ids(mirror)
    <3>1. Ids(mirror)[i] = dialog.job.id BY <1>5, <2>1 DEF Ids
    <3>2. Ids(mirror) = [k \in DOMAIN Ids(mirror) |-> Ids(mirror)[k]] BY DEF Ids
    <3> HIDE DEF jobs
    <3> DEFINE s == Ids(mirror)
    <3>3. s[i] = dialog.job.id /\ s = [k \in DOMAIN s |-> s[k]] BY <3>1, <3>2
    <3>4. Ids(jobs) = [s EXCEPT ![i] = dialog.job.id] BY <2>2
    <3> HIDE DEF s
    <3>5. [s EXCEPT ![i] = dialog.job.id] = s BY <3>3
    <3> QED BY <3>4, <3>5 DEF s
  <2>4. RowIds(rows') = Ids(jobs)
    <3>1. Rebuilt(jobs) \in Seq(RowRec) /\ RowIds(Rebuilt(jobs)) = Ids(jobs) BY <2>2, RebuiltRows
    <3>2. RowIds([Rebuilt(jobs) EXCEPT ![i].stop = TRUE]) = RowIds(Rebuilt(jobs))
      <4> DEFINE rs == Rebuilt(jobs)
                 q == [rs EXCEPT ![i].stop = TRUE]
      <4>1. DOMAIN q = DOMAIN rs /\ q = [k \in DOMAIN q |-> q[k]] OBVIOUS
      <4>2. \A k \in DOMAIN rs : q[k] = rs[k] \/ \E c \in BOOLEAN : q[k] = [rs[k] EXCEPT !.stop = c]
        OBVIOUS
      <4>3. rs \in Seq(RowRec) BY <3>1
      <4> HIDE DEF rs, q
      <4>4. RowIds(q) = RowIds(rs) BY <4>1, <4>2, <4>3, SameRows
      <4> QED BY <4>4 DEF q, rs
    <3> QED BY <2>1, <3>1, <3>2
  <2>5. RowIds(rows') = Ids(mirror') BY <2>1, <2>4
  <2>6. CASE ~linked BY <1>1, <2>5, <2>6 DEF AgreeInv
  <2>7. CASE linked
    <3>0. Traced(Ids(mirror), down, Ids(list), up, addCrossed) BY <1>3, <2>7
    <3>1. Sent(EditAsks(run)) BY <1>5 DEF SaveEdit, EditAsks
    <3>2. a \in Asks /\ b \in Asks /\ EditAsks(run) = IF run THEN <<a, b>> ELSE <<a>>
      BY EditAsksAre
    <3>3. a.kind = "update_job" /\ b.kind = "run_job" BY DEF Asking
    <3> HIDE DEF a, b, jobs, i
    <3> DEFINE u == Asked(a, nextReq)
               v == Asked(b, nextReq + 1)
    <3>4. u \in Requests /\ v \in Requests
      <4>1. nextReq + 1 \in Nat BY <1>0
      <4> QED BY <1>0, <3>2, <4>1, AskedIs
    <3>5. u.kind \notin {"add_job", "get_jobs"} /\ v.kind \notin {"add_job", "get_jobs"}
      BY <3>3 DEF Asked, Request
    <3> HIDE DEF u, v
    <3>7. Append(up, u) \in Seq(Requests) BY <1>0, <3>4, AppendProperties
    <3>8. Traced(Ids(mirror), down, Ids(list), Append(up, u), addCrossed)
      BY <1>0, <3>0, <3>4, <3>5, TracedAsk
    <3>9. Traced(Ids(mirror), down, Ids(list), Append(Append(up, u), v), addCrossed)
      BY <1>0, <3>4, <3>5, <3>7, <3>8, TracedAsk
    <3>10. Traced(Ids(mirror), down, Ids(list), up', addCrossed)
      <4>1. CASE run
        <5>1. Sent(<<a, b>>) BY <3>1, <3>2, <4>1
        <5>2. up' = Append(Append(up, u), v) BY <2>7, <3>2, <5>1, SentTwo DEF u, v
        <5> QED BY <3>9, <5>2
      <4>2. CASE ~run
        <5>1. Sent(<<a>>) BY <3>1, <3>2, <4>2
        <5>2. up' = Append(up, u) BY <2>7, <3>2, <5>1, SentOne DEF u
        <5> QED BY <3>8, <5>2
      <4> QED BY <4>1, <4>2
    <3>12. Traced(Ids(mirror'), down', Ids(list'), up', addCrossed')
      <4>1. Ids(mirror') = Ids(mirror) /\ Ids(list') = Ids(list) /\ down' = down
            /\ addCrossed' = addCrossed
        BY <1>1, <2>1, <2>3
      <4> QED BY <3>10, <4>1
    <3>13. ASSUME ~staleSave' PROVE FileInv'
      <4>1. up = <<>> /\ down = <<>> BY <2>1, <3>13 DEF InFlight
      <4>2. Ids(list) \in Seq(IdSet) BY <1>0, IdsAre
      <4>3. Ids(mirror) = Ids(list) BY <1>0, <3>0, <4>1, <4>2, TracedEnd
      <4>4. Ids(saved') = Ids(list') BY <1>1, <2>1, <2>3, <4>3
      <4> QED BY <4>4 DEF FileInv
    <3> QED BY <2>5, <3>12, <3>13 DEF AgreeInv
  <2> QED BY <2>6, <2>7
<1> QED BY <1>4, <1>5

\* What the window makes of a broadcast that fits, and of its rows when the
\* job that is added is the one with that index
LEMMA SeenIds ==
  ASSUME WireTypes, NEW m \in Notes \cup Lists, Fits(m, Ids(mirror))
  PROVE  Ids(Seen(m)) = Then(m, Ids(mirror))
<1>0. mirror \in Seq(JobRec) /\ m.job \in JobRec BY DEF WireTypes, Notes, Lists
<1>1. DOMAIN Ids(mirror) = DOMAIN mirror BY DEF Ids
<1>2. DOMAIN mirror = 1 .. Len(mirror) /\ Len(mirror) \in Nat /\ Ids(mirror) \in Seq(IdSet)
      /\ Len(Ids(mirror)) = Len(mirror)
  BY <1>0, IdsAre
<1>3. \A i : Ids([mirror EXCEPT ![i] = m.job]) = [Ids(mirror) EXCEPT ![i] = m.job.id]
  <2> DEFINE x == m.job
  <2>1. x \in JobRec BY <1>0
  <2> HIDE DEF x
  <2>2. ASSUME NEW i
        PROVE  Ids([mirror EXCEPT ![i] = x]) = [Ids(mirror) EXCEPT ![i] = x.id]
    BY ONLY <1>0, <2>1, IdsPut
  <2> QED BY <2>2 DEF x
<1>4. CASE m.kind = "jobs_list" BY <1>4 DEF Seen, Then
<1>5. CASE m.kind = "job_added"
  <2>1. CASE m.index > Len(mirror)
    <3>1. Seen(m) = Append(mirror, m.job) BY <1>5, <2>1 DEF Seen, WithAdded
    <3>2. Then(m, Ids(mirror)) = Append(Ids(mirror), m.job.id) BY <1>2, <1>5, <2>1 DEF Then
    <3> DEFINE x == m.job
    <3>3. x \in JobRec BY <1>0
    <3> HIDE DEF x
    <3>4. Ids(Append(mirror, x)) = Append(Ids(mirror), x.id) BY <1>0, <3>3, IdsAppend
    <3> QED BY <3>1, <3>2, <3>4 DEF x
  <2>2. CASE ~(m.index > Len(mirror))
    <3>1. Seen(m) = [mirror EXCEPT ![m.index] = m.job] BY <1>5, <2>2 DEF Seen, WithAdded
    <3>2. Then(m, Ids(mirror)) = [Ids(mirror) EXCEPT ![m.index] = m.job.id]
      BY <1>2, <1>5, <2>2 DEF Then
    <3> QED BY <1>3, <3>1, <3>2
  <2> QED BY <2>1, <2>2
<1>6. CASE m.kind = "job_updated"
  <2>1. m.index \in DOMAIN mirror BY <1>1, <1>6 DEF Fits
  <2>2. Seen(m) = [mirror EXCEPT ![m.index] = m.job] BY <1>6, <2>1 DEF Seen
  <2>3. Then(m, Ids(mirror)) = [Ids(mirror) EXCEPT ![m.index] = m.job.id] BY <1>6 DEF Then
  <2> QED BY <1>3, <2>2, <2>3
<1>7. CASE m.kind = "job_deleted"
  <2>1. m.index \in DOMAIN mirror BY <1>1, <1>7 DEF Fits
  <2>2. Seen(m) = Without(mirror, m.index) BY <1>7, <2>1 DEF Seen
  <2>3. Ids(Without(mirror, m.index)) = Without(Ids(mirror), m.index) BY <1>0, <1>2, <2>1, IdsDrop
  <2>4. Then(m, Ids(mirror)) = Without(Ids(mirror), m.index) BY <1>7 DEF Then
  <2> QED BY <2>2, <2>3, <2>4
<1>8. CASE m.kind = "job_stopped"
  <2>1. Seen(m) = Marked(mirror, m.index, FALSE) BY <1>8 DEF Seen
  <2>2. Ids(Marked(mirror, m.index, FALSE)) = Ids(mirror) BY <1>0, IdsMarked
  <2>3. Then(m, Ids(mirror)) = Ids(mirror) BY <1>8 DEF Then
  <2> QED BY <2>1, <2>2, <2>3
<1>9. CASE m.kind \in {"job_started", "job_completed"}
  <2>1. Seen(m) = mirror BY <1>9 DEF Seen
  <2>2. Then(m, Ids(mirror)) = Ids(mirror) BY <1>9 DEF Then
  <2> QED BY <2>1, <2>2
<1> QED BY <1>4, <1>5, <1>6, <1>7, <1>8, <1>9 DEF Notes, Lists

LEMMA SeenRows ==
  ASSUME WireTypes, RowIds(rows) = Ids(mirror), NEW m \in Notes \cup Lists, Fits(m, Ids(mirror)),
         InPlace(m, Ids(mirror))
  PROVE  RowIds(RowsAfter(m, Seen(m))) = Ids(Seen(m))
<1>0. mirror \in Seq(JobRec) /\ rows \in Seq(RowRec) /\ m.job \in JobRec
  BY DEF WireTypes, Notes, Lists
<1>1. DOMAIN Ids(mirror) = DOMAIN mirror /\ DOMAIN RowIds(rows) = DOMAIN rows BY DEF Ids, RowIds
<1>1a. DOMAIN rows = DOMAIN mirror
  <2>1. DOMAIN RowIds(rows) = DOMAIN Ids(mirror) OBVIOUS
  <2> QED BY <1>1, <2>1
<1>2. DOMAIN rows = DOMAIN mirror /\ DOMAIN mirror = 1 .. Len(mirror) /\ DOMAIN rows = 1 .. Len(rows)
      /\ Len(mirror) \in Nat /\ Len(rows) \in Nat
  BY <1>0, <1>1a, LenProperties
<1>3. Len(rows) = Len(mirror) BY <1>2
<1>3a. \A i : /\ [mirror EXCEPT ![i] = m.job] \in Seq(JobRec)
              /\ Ids([mirror EXCEPT ![i] = m.job]) = [Ids(mirror) EXCEPT ![i] = m.job.id]
  <2> DEFINE x == m.job
  <2>1. x \in JobRec BY <1>0
  <2> HIDE DEF x
  <2>2. ASSUME NEW i
        PROVE  /\ [mirror EXCEPT ![i] = x] \in Seq(JobRec)
               /\ Ids([mirror EXCEPT ![i] = x]) = [Ids(mirror) EXCEPT ![i] = x.id]
    BY ONLY <1>0, <2>1, IdsPut
  <2> QED BY <2>2 DEF x
<1>4. CASE m.kind = "jobs_list"
  <2>1. RowsAfter(m, Seen(m)) = Rebuilt(Seen(m)) /\ Seen(m) = m.jobs BY <1>4 DEF RowsAfter, Seen
  <2>2. m.jobs \in Seq(JobRec) BY <1>4 DEF Notes, Lists
  <2> QED BY <2>1, <2>2, RebuiltRows
<1>5. CASE m.kind = "job_added"
  <2>1. m.index \in DOMAIN mirror /\ Ids(mirror)[m.index] = m.job.id BY <1>1, <1>5 DEF InPlace
  <2>2. Seen(m) = [mirror EXCEPT ![m.index] = m.job]
    <3>1. ~(m.index > Len(mirror)) BY <1>2, <2>1
    <3> QED BY <1>5, <3>1 DEF Seen, WithAdded
  <2>3. Ids([mirror EXCEPT ![m.index] = m.job]) = [Ids(mirror) EXCEPT ![m.index] = m.job.id]
        /\ [mirror EXCEPT ![m.index] = m.job] \in Seq(JobRec)
    BY <1>3a
  <2>4. [Ids(mirror) EXCEPT ![m.index] = m.job.id] = Ids(mirror)
    <3> DEFINE s == Ids(mirror)
    <3>1. s[m.index] = m.job.id /\ s = [k \in DOMAIN s |-> s[k]] BY <2>1 DEF Ids
    <3> HIDE DEF s
    <3>2. [s EXCEPT ![m.index] = m.job.id] = s BY <3>1
    <3> QED BY <3>2 DEF s
  <2>6. Len(Seen(m)) = Len(mirror)
    <3>1. DOMAIN Seen(m) = 1 .. Len(mirror) BY <1>2, <2>2
    <3> QED BY <1>2, <2>2, <2>3, <3>1
  <2>7. RowsAfter(m, Seen(m)) = rows
    <3>1. ~(Len(rows) < Len(Seen(m))) BY <1>2, <1>3, <2>6
    <3> HIDE DEF Seen
    <3> QED BY <1>5, <3>1 DEF RowsAfter
  <2> QED BY <2>2, <2>3, <2>4, <2>7
<1>6. CASE m.kind = "job_updated"
  <2>1. m.index \in DOMAIN mirror BY <1>1, <1>6 DEF Fits
  <2>2. Seen(m) = [mirror EXCEPT ![m.index] = m.job] BY <1>6, <2>1 DEF Seen
  <2>3. Ids([mirror EXCEPT ![m.index] = m.job]) = [Ids(mirror) EXCEPT ![m.index] = m.job.id]
    BY <1>3a
  <2>4. RowsAfter(m, Seen(m)) = [rows EXCEPT ![m.index] = Row(m.job)] BY <1>6, <2>1 DEF RowsAfter
  <2>5. RowIds([rows EXCEPT ![m.index] = Row(m.job)]) = [RowIds(rows) EXCEPT ![m.index] = m.job.id]
    BY DEF RowIds, Row
  <2> QED BY <2>2, <2>3, <2>4, <2>5
<1>7. CASE m.kind = "job_deleted"
  <2>1. m.index \in DOMAIN mirror BY <1>1, <1>7 DEF Fits
  <2>2. Seen(m) = Without(mirror, m.index) BY <1>7, <2>1 DEF Seen
  <2>3. Without(mirror, m.index) \in Seq(JobRec)
        /\ Ids(Without(mirror, m.index)) = Without(Ids(mirror), m.index)
    BY <1>0, <1>2, <2>1, IdsDrop
  <2>4. RowsAfter(m, Seen(m)) = Rebuilt(Seen(m)) BY <1>7, <2>1 DEF RowsAfter
  <2>5. RowIds(Rebuilt(Seen(m))) = Ids(Seen(m)) BY <2>2, <2>3, RebuiltRows
  <2> QED BY <2>2, <2>3, <2>4, <2>5
<1>8. CASE m.kind = "job_stopped"
  <2>1. Seen(m) = Marked(mirror, m.index, FALSE) /\ RowsAfter(m, Seen(m)) = WithStop(m.index, FALSE)
    BY <1>8 DEF Seen, RowsAfter
  <2>2. Ids(Marked(mirror, m.index, FALSE)) = Ids(mirror) BY <1>0, IdsMarked
  <2>3. RowIds(WithStop(m.index, FALSE)) = RowIds(rows) BY WithStopRows
  <2> QED BY <2>1, <2>2, <2>3
<1>9. CASE m.kind \in {"job_started", "job_completed"}
  <2>1. Seen(m) = mirror BY <1>9 DEF Seen
  <2>2. \E b \in BOOLEAN : RowsAfter(m, Seen(m)) = WithStop(m.index, b) BY <1>9 DEF RowsAfter
  <2>3. RowIds(RowsAfter(m, Seen(m))) = RowIds(rows) BY <2>2, WithStopRows
  <2> QED BY <2>1, <2>3
<1> QED BY <1>4, <1>5, <1>6, <1>7, <1>8, <1>9 DEF Notes, Lists

\* The buttons that the callbacks change leave the jobs of the rows.
LEMMA ReceiveRows ==
  ASSUME WireTypes, Receive
  PROVE  RowIds(rows') = RowIds(RowsAfter(Head(down), Seen(Head(down))))
<1> DEFINE m == Head(down)
           jobs == Seen(m)
           base == RowsAfter(m, jobs)
           cbs == {w \in waiting : m.req # NoReq /\ w.req = m.req}
           runs == {w \in cbs : w.kind = "run" /\ w.index \in DOMAIN jobs /\ w.index \in DOMAIN base}
           q == [i \in DOMAIN base |->
                   IF \E w \in runs : w.index = i THEN [base[i] EXCEPT !.stop = TRUE]
                   ELSE IF \E w \in cbs : w.kind = "stopped" /\ w.index = i
                   THEN [base[i] EXCEPT !.stop = FALSE] ELSE base[i]]
<1>0. down \in Seq(Notes \cup Lists) /\ down # <<>> BY DEF WireTypes, Receive
<1>1. m \in Notes \cup Lists BY <1>0, HeadTailProperties
<1>2. base \in Seq(RowRec) BY <1>1, SeenTypes
<1>3. rows' = q BY DEF Receive
<1> HIDE DEF base, cbs, runs
<1>4. DOMAIN q = DOMAIN base /\ q = [i \in DOMAIN q |-> q[i]] OBVIOUS
<1>5. \A i \in DOMAIN base : q[i] = base[i] \/ \E b \in BOOLEAN : q[i] = [base[i] EXCEPT !.stop = b]
  OBVIOUS
<1> HIDE DEF q
<1>6. RowIds(q) = RowIds(base) BY <1>2, <1>4, <1>5, SameRows
<1> QED BY <1>3, <1>6 DEF base

\* The window reads a broadcast.
LEMMA AgreeRead ==
  ASSUME WireTypes, AgreeInv, Receive
  PROVE  AgreeInv'
<1> SUFFICES ASSUME ~staleMap' PROVE AgreeInv'
  BY DEF AgreeInv
<1> DEFINE m == Head(down)
           jobs == Seen(m)
           base == RowsAfter(m, jobs)
           cbs == {w \in waiting : m.req # NoReq /\ w.req = m.req}
           runs == {w \in cbs : w.kind = "run" /\ w.index \in DOMAIN jobs /\ w.index \in DOMAIN base}
           w0 == CHOOSE w \in runs : TRUE
           r == Request("run_job", w0.index, NoJob, nextReq)
<1>0. down \in Seq(Notes \cup Lists) /\ down # <<>> /\ mirror \in Seq(JobRec) /\ list \in Seq(JobRec)
      /\ up \in Seq(Requests) /\ waiting \subseteq Callbacks /\ nextReq \in Nat
      /\ addCrossed \in BOOLEAN
  BY DEF WireTypes, Receive
<1>1. m \in Notes \cup Lists BY <1>0, HeadTailProperties
<1>2. /\ linked /\ ~staleMap /\ Traced(Ids(mirror), down, Ids(list), up, addCrossed)
      /\ ~addCrossed => RowIds(rows) = Ids(mirror)
  BY DEF AgreeInv, Receive
<1>3. Ids(mirror) \in Seq(IdSet) /\ Ids(list) \in Seq(IdSet) BY <1>0, IdsAre
<1>4. /\ Fits(m, Ids(mirror)) /\ (~addCrossed => InPlace(m, Ids(mirror)))
      /\ Traced(Then(m, Ids(mirror)), Tail(down), Ids(list), up, addCrossed)
  BY <1>0, <1>2, <1>3, TracedRead
<1>5. mirror' = jobs /\ down' = Tail(down) /\ UNCHANGED <<list, linked, staleMap, addCrossed>>
  BY DEF Receive, daemonVars
<1>6. RowIds(rows') = RowIds(base) BY ReceiveRows
<1>7. Ids(jobs) = Then(m, Ids(mirror)) BY <1>1, <1>4, SeenIds
<1>8. ~addCrossed' => RowIds(rows') = Ids(mirror')
  <2>1. ~addCrossed => RowIds(base) = Ids(jobs) BY <1>1, <1>2, <1>4, SeenRows
  <2> HIDE DEF base, jobs
  <2> QED BY <1>5, <1>6, <2>1
<1>9. up' = up \/ (runs # {} /\ up' = Append(up, r)) BY DEF Receive
<1>10. \/ saved' = jobs /\ staleSave' = (staleSave \/ (up # <<>> \/ Tail(down) # <<>>))
       \/ saved' = saved /\ staleSave' = staleSave
  BY DEF Receive, ViewSaves
<1>11. runs # {} => r \in Requests /\ r.kind = "run_job"
  <2>1. SUFFICES ASSUME runs # {} PROVE r \in Requests /\ r.kind = "run_job"
    OBVIOUS
  <2>2. w0 \in Callbacks BY <1>0, <2>1
  <2> HIDE DEF w0, runs, cbs
  <2>3. w0.index \in Nat BY <2>2 DEF Callbacks
  <2> QED BY <1>0, <2>3, NoJobIs DEF Request, Requests
<1> HIDE DEF runs, cbs, w0, r, base
<1> HIDE DEF jobs, m
<1>13. Traced(Then(m, Ids(mirror)), Tail(down), Ids(list), up', addCrossed)
  <2>1. CASE up' = up BY <1>4, <2>1
  <2>2. CASE runs # {} /\ up' = Append(up, r)
    <3>1. r.kind \notin {"add_job", "get_jobs"} /\ r \in Requests BY <1>11, <2>2
    <3>2. Traced(Then(m, Ids(mirror)), Tail(down), Ids(list), Append(up, r), addCrossed)
      BY <1>0, <1>4, <3>1, TracedAsk
    <3> QED BY <2>2, <3>2
  <2> QED BY <1>9, <2>1, <2>2
<1>14. Traced(Ids(mirror'), down', Ids(list'), up', addCrossed')
  <2>1. Ids(mirror') = Then(m, Ids(mirror)) /\ Ids(list') = Ids(list) /\ addCrossed' = addCrossed
    BY <1>5, <1>7
  <2> QED BY <1>5, <1>13, <2>1
<1>15. ASSUME ~staleSave' PROVE FileInv'
  <2>1. CASE saved' = jobs /\ staleSave' = (staleSave \/ (up # <<>> \/ Tail(down) # <<>>))
    <3>1. up = <<>> /\ Tail(down) = <<>> BY <1>15, <2>1
    <3>2. Traced(Then(m, Ids(mirror)), <<>>, Ids(list), <<>>, addCrossed) BY <1>4, <3>1
    <3>3. Then(m, Ids(mirror)) = Ids(list) BY <1>0, <1>3, <3>2, TracedEnd
    <3>4. Ids(saved') = Ids(list') BY <1>5, <1>7, <2>1, <3>3
    <3> QED BY <3>4 DEF FileInv
  <2>2. CASE saved' = saved /\ staleSave' = staleSave
    <3>1. FileInv BY <1>2, <1>15, <2>2 DEF AgreeInv
    <3>2. CASE up' = up BY <1>5, <2>2, <3>1, <3>2 DEF FileInv
    <3>3. CASE runs # {} /\ up' = Append(up, r)
      <4>1. r \in Requests BY <1>11, <3>3
      <4> QED BY <1>5, <2>2, <3>1, <3>3, <4>1, FileKept
    <3> QED BY <1>9, <3>2, <3>3
  <2> QED BY <1>10, <2>1, <2>2
<1> QED BY <1>8, <1>14, <1>15 DEF AgreeInv

\* The daemon's list, as a message
LEMMA JobsIs ==
  ASSUME WireTypes, NEW n \in Nat
  PROVE  Jobs(n) \in Lists /\ Jobs(n).jobs = list /\ Ids(Jobs(n).jobs) = Ids(list)
BY NoJobIs DEF Jobs, Lists, WireTypes

\* The daemon sends the list of jobs that the window asked for.
LEMMA AgreeListSent ==
  ASSUME WireTypes, AgreeInv, CrossInv, Handle, ~staleMap, Head(up).kind = "get_jobs"
  PROVE  AgreeInv'
<1> DEFINE r == Head(up)
           m == Jobs(r.req)
<1>0. up \in Seq(Requests) /\ up # <<>> /\ down \in Seq(Notes \cup Lists) /\ list \in Seq(JobRec)
      /\ mirror \in Seq(JobRec) /\ addCrossed \in BOOLEAN
  BY DEF WireTypes, Handle
<1>1. linked /\ Traced(Ids(mirror), down, Ids(list), up, addCrossed)
      /\ (~addCrossed => RowIds(rows) = Ids(mirror))
  BY DEF AgreeInv, Handle
<1>2. r.req \in Nat
  <2>1. r \in Requests BY <1>0, HeadTailProperties
  <2> QED BY <2>1 DEF Requests
<1>3. m \in Lists /\ Ids(m.jobs) = Ids(list) BY <1>2, JobsIs
<1>4. Told(m) /\ UNCHANGED <<list, saved>>
  <2>1. HandleRequest(r) BY DEF Handle
  <2> QED BY <2>1 DEF HandleRequest
<1>5. up' = Tail(up) /\ UNCHANGED <<linked, mirror, rows, staleMap, staleSave, addCrossed>>
  BY DEF Handle, viewVars
<1>6. ~addCrossed => \A k \in 1 .. Len(up) : up[k].kind # "add_job"
  <2>1. 1 \in DOMAIN up /\ Head(up) = up[1] /\ DOMAIN up = 1 .. Len(up) BY <1>0, EmptySeq
  <2>2. ListComing BY <2>1 DEF ListComing
  <2> QED BY <1>1, <2>1, <2>2 DEF CrossInv, AddComing
<1>7. Ids(mirror) \in Seq(IdSet) /\ Ids(list) \in Seq(IdSet) BY <1>0, IdsAre
<1> HIDE DEF m
<1>8. ListAsked(up) BY <1>0 DEF ListAsked
<1>9. Traced(Ids(mirror), Append(down, m), Ids(list), Tail(up), addCrossed)
  BY <1>0, <1>1, <1>3, <1>6, <1>7, <1>8, TracedList
<1>10. Ids(list') = Ids(list) /\ Ids(mirror') = Ids(mirror) /\ RowIds(rows') = RowIds(rows)
       /\ Ids(saved') = Ids(saved)
  BY <1>4, <1>5
<1>11. Traced(Ids(mirror'), down', Ids(list'), up', addCrossed')
  BY <1>4, <1>5, <1>9, <1>10 DEF Told
<1>12. ASSUME ~staleSave' PROVE FileInv'
  <2>1. FileInv BY <1>1, <1>5, <1>12 DEF AgreeInv
  <2>2. Ids(saved) = Ids(list) BY <2>1 DEF FileInv
  <2> QED BY <1>10, <2>2 DEF FileInv
<1> QED BY <1>1, <1>5, <1>10, <1>11, <1>12 DEF AgreeInv

\* It sends the list to everyone when the mounts were listed.
LEMMA AgreeMounts ==
  ASSUME WireTypes, AgreeInv, MountsListed
  PROVE  AgreeInv'
<1> SUFFICES ASSUME ~staleMap' PROVE AgreeInv'
  BY DEF AgreeInv
<1> DEFINE m == Jobs(NoReq)
<1>0. up \in Seq(Requests) /\ down \in Seq(Notes \cup Lists) /\ list \in Seq(JobRec)
      /\ mirror \in Seq(JobRec) /\ addCrossed \in BOOLEAN
  BY DEF WireTypes
<1>1. linked /\ list' = list /\ saved' = list /\ Told(m) /\ addCrossed' = (addCrossed \/ AddComing)
      /\ UNCHANGED <<up, linked, mirror, rows, staleMap, staleSave>>
  BY DEF MountsListed, DaemonSaves, viewVars
<1>2. Traced(Ids(mirror), down, Ids(list), up, addCrossed)
      /\ (~addCrossed => RowIds(rows) = Ids(mirror))
  BY <1>1 DEF AgreeInv
<1>3. m \in Lists /\ Ids(m.jobs) = Ids(list)
  <2>1. NoReq \in Nat BY DEF NoReq
  <2> QED BY <2>1, JobsIs
<1> HIDE DEF m
<1>4. addCrossed' \in BOOLEAN BY <1>0, <1>1 DEF AddComing
<1>5. ~addCrossed' => ~addCrossed /\ \A k \in 1 .. Len(up) : up[k].kind # "add_job"
  <2>1. DOMAIN up = 1 .. Len(up) BY <1>0
  <2> QED BY <1>1, <2>1 DEF AddComing
<1>6. Ids(mirror) \in Seq(IdSet) /\ Ids(list) \in Seq(IdSet) BY <1>0, IdsAre
<1>7. Traced(Ids(mirror), Append(down, m), Ids(list), up, addCrossed')
  BY <1>0, <1>2, <1>3, <1>4, <1>5, <1>6, TracedList
<1>8. Ids(list') = Ids(list) /\ Ids(mirror') = Ids(mirror) /\ RowIds(rows') = RowIds(rows)
      /\ Ids(saved') = Ids(list')
  BY <1>1
<1>9. Traced(Ids(mirror'), down', Ids(list'), up', addCrossed') BY <1>1, <1>7, <1>8 DEF Told
<1>10. FileInv' BY <1>8 DEF FileInv
<1> QED BY <1>2, <1>5, <1>8, <1>9, <1>10 DEF AgreeInv

\* The daemon takes a request out.
LEMMA TracedTaken ==
  ASSUME NEW s, NEW ms, NEW d, NEW rs \in Seq(Requests), rs # <<>>, NEW crossed,
         Traced(s, ms, d, rs, crossed)
  PROVE  ~ListAsked(Tail(rs))
<1>1. PICK h, g, adds : IsCount(g, adds, rs) BY DEF Traced
<1> QED BY <1>1, AskedOnce

\* A request that leaves the list as it is, or that the daemon drops
LEMMA AgreeDropped ==
  ASSUME WireTypes, AgreeInv, Handle, ~staleMap, Head(up).kind \notin {"add_job", "get_jobs"},
         UNCHANGED <<list, saved>>,
         down' = down \/ \E m \in Notes : m.kind = "job_started" /\ Told(m)
  PROVE  AgreeInv'
<1>0. up \in Seq(Requests) /\ up # <<>> /\ list \in Seq(JobRec) /\ mirror \in Seq(JobRec)
      /\ down \in Seq(Notes \cup Lists) /\ addCrossed \in BOOLEAN
  BY DEF WireTypes, Handle
<1>1. linked /\ Traced(Ids(mirror), down, Ids(list), up, addCrossed)
      /\ (~addCrossed => RowIds(rows) = Ids(mirror))
  BY DEF AgreeInv, Handle
<1>2. up' = Tail(up) /\ UNCHANGED <<linked, mirror, rows, staleMap, staleSave, addCrossed>>
  BY DEF Handle, viewVars
<1>3. Traced(Ids(mirror), down, Ids(list), Tail(up), addCrossed) BY <1>0, <1>1, TracedDrop
<1>4. Ids(mirror) \in Seq(IdSet) /\ Ids(list) \in Seq(IdSet) BY <1>0, IdsAre
<1>5. Traced(Ids(mirror), down', Ids(list), up', addCrossed)
  <2>1. CASE down' = down BY <1>2, <1>3, <2>1
  <2>2. ASSUME NEW m \in Notes, m.kind = "job_started", Told(m)
        PROVE  Traced(Ids(mirror), down', Ids(list), up', addCrossed)
    <3> DEFINE d == Ids(list)
    <3>1. Says(m, d, d) BY <2>2, SaysQuiet
    <3>2. d \in Seq(IdSet) /\ Traced(Ids(mirror), down, d, Tail(up), addCrossed) BY <1>3, <1>4
    <3> HIDE DEF d
    <3>3. Traced(Ids(mirror), Append(down, m), d, Tail(up), addCrossed)
      BY <1>0, <1>4, <2>2, <3>1, <3>2, TracedTell
    <3> QED BY <1>2, <2>2, <3>3 DEF Told, d
  <2> QED BY <2>1, <2>2
<1>6. Ids(list') = Ids(list) /\ Ids(mirror') = Ids(mirror) /\ RowIds(rows') = RowIds(rows)
      /\ Ids(saved') = Ids(saved)
  BY <1>2
<1>7. Traced(Ids(mirror'), down', Ids(list'), up', addCrossed') BY <1>2, <1>5, <1>6
<1>8. ASSUME ~staleSave' PROVE FileInv'
  <2>1. FileInv BY <1>1, <1>2, <1>8 DEF AgreeInv
  <2>2. Ids(saved) = Ids(list) BY <2>1 DEF FileInv
  <2> QED BY <1>6, <2>2 DEF FileInv
<1> QED BY <1>1, <1>2, <1>6, <1>7, <1>8 DEF AgreeInv

\* A change of the list that the daemon saves and tells
LEMMA AgreeChanged ==
  ASSUME WireTypes, AgreeInv, Handle, ~staleMap, saved' = list',
         Traced(Ids(mirror), down', Ids(list'), Tail(up), addCrossed)
  PROVE  AgreeInv'
<1>1. linked /\ (~addCrossed => RowIds(rows) = Ids(mirror)) BY DEF AgreeInv, Handle
<1>2. up' = Tail(up) /\ UNCHANGED <<linked, mirror, rows, staleMap, staleSave, addCrossed>>
  BY DEF Handle, viewVars
<1>3. Ids(mirror') = Ids(mirror) /\ RowIds(rows') = RowIds(rows) BY <1>2
<1>4. Traced(Ids(mirror'), down', Ids(list'), up', addCrossed') BY <1>2, <1>3
<1>5. Ids(saved') = Ids(list') OBVIOUS
<1>6. FileInv' BY <1>5 DEF FileInv
<1> QED BY <1>1, <1>2, <1>3, <1>4, <1>6 DEF AgreeInv

LEMMA AgreeHandle ==
  ASSUME WireTypes, AgreeInv, CrossInv, Handle
  PROVE  AgreeInv'
<1> SUFFICES ASSUME ~staleMap' PROVE AgreeInv'
  BY DEF AgreeInv
<1>0. ~staleMap BY DEF Handle
<1>1. CASE Head(up).kind = "get_jobs" BY <1>0, <1>1, AgreeListSent
<1>2. CASE Head(up).kind # "get_jobs"
  <2> DEFINE r == Head(up)
             d == Ids(list)
             s == Ids(mirror)
  <2>0. up \in Seq(Requests) /\ up # <<>> /\ list \in Seq(JobRec) /\ mirror \in Seq(JobRec)
        /\ down \in Seq(Notes \cup Lists) /\ addCrossed \in BOOLEAN
    BY DEF WireTypes, Handle
  <2>1. Traced(s, down, d, up, addCrossed) BY <1>0 DEF AgreeInv, Handle
  <2>2. s \in Seq(IdSet) /\ d \in Seq(IdSet) /\ Len(d) = Len(list) BY <2>0, IdsAre
  <2>3. ~ListAsked(Tail(up)) BY <2>0, <2>1, TracedTaken
  <2>4. r \in Requests BY <2>0, HeadTailProperties
  <2>5. r.job \in JobRec /\ r.req \in Nat /\ r.index \in Nat /\ NoJob \in JobRec
    BY <2>4, NoJobIs DEF Requests
  <2>6. DOMAIN list = 1 .. Len(list) /\ Len(list) \in Nat BY <2>0
  <2>7. CASE ~(r.kind \in {"get_jobs", "add_job"} \/ r.index \in DOMAIN list)
    <3>1. UNCHANGED <<list, saved>> /\ down' = down BY <2>7 DEF Handle, daemonVars
    <3> QED BY <1>0, <1>2, <2>7, <3>1, AgreeDropped
  <2>8. CASE r.kind \in {"get_jobs", "add_job"} \/ r.index \in DOMAIN list
    <3>0. HandleRequest(r) BY <2>8 DEF Handle
    <3>1. CASE r.kind = "add_job"
      <4> DEFINE m == Note("job_added", Len(list) + 1, r.job, r.req)
      <4>1. m \in Notes BY <2>5, <2>6, NotesAre
      <4>2. Told(m) /\ list' = Append(list, r.job) /\ saved' = list'
        BY <3>0, <3>1 DEF HandleRequest, DaemonSaves
      <4>3. m.kind = "job_added" /\ m.index = Len(d) + 1 /\ m.job = r.job BY <2>2 DEF Note
      <4> HIDE DEF m
      <4>4. Ids(list') = Append(d, r.job.id) BY <2>0, <2>5, <4>2, IdsAppend
      <4> HIDE DEF d, s
      <4>5. Traced(s, Append(down, m), Append(d, r.job.id), Tail(up), addCrossed)
        BY <2>0, <2>1, <2>2, <3>1, <4>1, <4>3, TracedAdded
      <4>6. Traced(s, down', Ids(list'), Tail(up), addCrossed) BY <4>2, <4>4, <4>5 DEF Told
      <4> QED BY <1>0, <1>2, <4>2, <4>6, AgreeChanged DEF s
    <3>2. CASE r.kind = "update_job"
      <4> DEFINE m == Note("job_updated", r.index, r.job, r.req)
      <4>1. m \in Notes BY <2>5, NotesAre
      <4>2. Told(m) /\ list' = [list EXCEPT ![r.index] = r.job] /\ saved' = list'
        BY <3>0, <3>2 DEF HandleRequest, DaemonSaves
      <4>3. m.kind = "job_updated" /\ m.index = r.index /\ m.job = r.job BY DEF Note
      <4>3a. r.index \in 1 .. Len(d) BY <2>2, <2>6, <2>8, <3>2
      <4> DEFINE e == [d EXCEPT ![r.index] = r.job.id]
      <4> HIDE DEF m
      <4>4. Ids(list') = e BY <2>0, <2>5, <4>2, IdsPut
      <4>5. Traced(s, down, d, Tail(up), addCrossed) BY <1>2, <2>0, <2>1, <3>2, TracedDrop
      <4> HIDE DEF d, s
      <4>6. m.index \in 1 .. Len(d) BY <4>3, <4>3a
      <4>7. e = [d EXCEPT ![m.index] = m.job.id] BY <4>3
      <4> HIDE DEF e
      <4>8. Says(m, d, e) BY <2>2, <4>1, <4>3, <4>6, <4>7, SaysUpdated
      <4>9. Traced(s, Append(down, m), e, Tail(up), addCrossed)
        BY <2>0, <2>2, <2>3, <4>1, <4>3, <4>5, <4>8, TracedTell
      <4>10. Traced(s, down', Ids(list'), Tail(up), addCrossed) BY <4>2, <4>4, <4>9 DEF Told
      <4> QED BY <1>0, <1>2, <4>2, <4>10, AgreeChanged DEF s
    <3>3. CASE r.kind = "delete_job"
      <4> DEFINE m == Note("job_deleted", r.index, NoJob, r.req)
      <4>1. m \in Notes BY <2>5, NotesAre
      <4>2. Told(m) /\ list' = Without(list, r.index) /\ saved' = list'
        BY <3>0, <3>3 DEF HandleRequest, DaemonSaves
      <4>3. m.kind = "job_deleted" /\ m.index = r.index BY DEF Note
      <4>3a. r.index \in 1 .. Len(d) /\ r.index \in 1 .. Len(list) BY <2>2, <2>6, <2>8, <3>3
      <4> DEFINE e == Without(d, r.index)
      <4> HIDE DEF m
      <4>4. Ids(list') = e BY <2>0, <4>2, <4>3a, IdsDrop
      <4>5. Traced(s, down, d, Tail(up), addCrossed) BY <1>2, <2>0, <2>1, <3>3, TracedDrop
      <4> HIDE DEF d, s
      <4>6. m.index \in 1 .. Len(d) BY <4>3, <4>3a
      <4>7. e = Without(d, m.index) BY <4>3
      <4> HIDE DEF e
      <4>8. Says(m, d, e) BY <2>2, <4>1, <4>3, <4>6, <4>7, SaysDeleted
      <4>9. Traced(s, Append(down, m), e, Tail(up), addCrossed)
        BY <2>0, <2>2, <2>3, <4>1, <4>3, <4>5, <4>8, TracedTell
      <4>10. Traced(s, down', Ids(list'), Tail(up), addCrossed) BY <4>2, <4>4, <4>9 DEF Told
      <4> QED BY <1>0, <1>2, <4>2, <4>10, AgreeChanged DEF s
    <3>4. CASE r.kind = "run_job"
      <4> DEFINE m == Note("job_started", r.index, NoJob, r.req)
      <4>1. m \in Notes BY <2>5, NotesAre
      <4>2. Told(m)
            /\ ((list' = list /\ saved' = saved)
                \/ (list' = Marked(list, r.index, TRUE) /\ saved' = list'))
        BY <3>0, <3>4 DEF HandleRequest, DaemonSaves
      <4>3. m.kind = "job_started" BY DEF Note
      <4> HIDE DEF m
      <4>4. CASE list' = list /\ saved' = saved
        BY <1>0, <1>2, <3>4, <4>1, <4>2, <4>3, <4>4, AgreeDropped
      <4>5. CASE list' = Marked(list, r.index, TRUE) /\ saved' = list'
        <5>1. Ids(list') = d BY <2>0, <4>5, IdsMarked
        <5>2. Traced(s, down, d, Tail(up), addCrossed) BY <1>2, <2>0, <2>1, <3>4, TracedDrop
        <5> HIDE DEF d, s
        <5>3. Says(m, d, d) BY <4>3, SaysQuiet
        <5>4. Traced(s, Append(down, m), d, Tail(up), addCrossed)
          BY <2>0, <2>2, <4>1, <4>3, <5>2, <5>3, TracedTell
        <5>5. Traced(s, down', Ids(list'), Tail(up), addCrossed) BY <4>2, <5>1, <5>4 DEF Told
        <5> QED BY <1>0, <1>2, <4>5, <5>5, AgreeChanged DEF s
      <4> QED BY <4>2, <4>4, <4>5
    <3>5. CASE r.kind = "stop_job"
      <4>1. UNCHANGED <<list, saved>> /\ down' = down BY <3>0, <3>5 DEF HandleRequest
      <4> QED BY <1>0, <1>2, <3>5, <4>1, AgreeDropped
    <3> QED BY <1>2, <2>4, <3>1, <3>2, <3>3, <3>4, <3>5 DEF Requests
  <2> QED BY <2>7, <2>8
<1> QED BY <1>1, <1>2

\* A change of the running flag of a job that the daemon tells
LEMMA AgreeMarked ==
  ASSUME WireTypes, AgreeInv, linked, NEW i \in DOMAIN list, NEW b \in BOOLEAN, NEW n \in Nat,
         NEW kind \in {"job_started", "job_completed", "job_stopped"},
         list' = Marked(list, i, b), saved' = DaemonSaves, Told(Note(kind, i, NoJob, n)),
         UNCHANGED <<up, linked, viewVars, staleMap, staleSave, addCrossed>>
  PROVE  AgreeInv'
<1> SUFFICES ASSUME ~staleMap' PROVE AgreeInv'
  BY DEF AgreeInv
<1> DEFINE m == Note(kind, i, NoJob, n)
           d == Ids(list)
           s == Ids(mirror)
<1>0. list \in Seq(JobRec) /\ mirror \in Seq(JobRec) /\ down \in Seq(Notes \cup Lists)
      /\ addCrossed \in BOOLEAN
  BY DEF WireTypes
<1>1. i \in Nat BY <1>0
<1>2. m \in Notes BY <1>1, NoJobIs, NotesAre
<1>3. m.kind = kind BY DEF Note
<1>4. down' = Append(down, m) BY DEF Told
<1> HIDE DEF m
<1>5. UNCHANGED <<up, mirror, rows>> BY DEF viewVars
<1>6. Ids(list') = d BY <1>0, IdsMarked
<1>7. Ids(mirror') = s /\ RowIds(rows') = RowIds(rows) BY <1>5
<1>8. s \in Seq(IdSet) /\ d \in Seq(IdSet) BY <1>0, IdsAre
<1>9. FileInv'
  <2>1. saved' = list' BY DEF DaemonSaves
  <2>2. Ids(saved') = Ids(list') BY <2>1
  <2> QED BY <2>2 DEF FileInv
<1>10. ~addCrossed' => RowIds(rows') = Ids(mirror') BY <1>7 DEF AgreeInv
<1>11. Traced(s, down, d, up, addCrossed) BY DEF AgreeInv
<1> HIDE DEF d, s
<1>12. Says(m, d, d) BY <1>3, SaysQuiet
<1>13. Traced(s, Append(down, m), d, up, addCrossed)
  BY <1>0, <1>2, <1>3, <1>8, <1>11, <1>12, TracedTell
<1>14. Traced(Ids(mirror'), down', Ids(list'), up', addCrossed') BY <1>4, <1>5, <1>6, <1>7, <1>13
<1> QED BY <1>9, <1>10, <1>14 DEF AgreeInv

LEMMA AgreeStep == WireTypes /\ AgreeInv /\ CrossInv /\ [LinkNext]_linkVars => AgreeInv'
<1> SUFFICES ASSUME WireTypes, AgreeInv, CrossInv, [LinkNext]_linkVars PROVE AgreeInv'
  OBVIOUS
<1>1. CASE ShowJobsPage BY <1>1, AgreeShow
<1>2. CASE Receive BY <1>2, AgreeRead
<1>3. CASE Handle BY <1>3, AgreeHandle
<1>4. CASE DaemonEnds
  <2>1. linked' = FALSE /\ UNCHANGED <<mirror, rows, staleMap, addCrossed>> BY <1>4 DEF DaemonEnds, viewVars
  <2>2. Ids(mirror') = Ids(mirror) /\ RowIds(rows') = RowIds(rows) BY <2>1
  <2> QED BY <2>1, <2>2 DEF AgreeInv
<1>5. ASSUME NEW i \in DOMAIN rows, ClickRun(i) \/ ClickStop(i) \/ ClickDelete(i) \/ OpenEdit(i)
      PROVE  AgreeInv'
  BY <1>5, AgreeClick
<1>6. ASSUME NEW id \in JobIds, NEW run \in BOOLEAN, AddNew(id, run) PROVE AgreeInv'
  BY <1>6, AgreeAdd
<1>7. ASSUME NEW run \in BOOLEAN, SaveEdit(run) PROVE AgreeInv' BY <1>7, AgreeEdit
<1>8. ASSUME NEW i \in DOMAIN list, AutoRun(i) PROVE AgreeInv'
  <2>1. NoReq \in Nat BY DEF NoReq
  <2>2. /\ linked /\ list' = Marked(list, i, TRUE) /\ saved' = DaemonSaves
        /\ Told(Note("job_started", i, NoJob, NoReq))
        /\ UNCHANGED <<up, linked, viewVars, staleMap, staleSave, addCrossed>>
    BY <1>8 DEF AutoRun
  <2> QED BY <2>1, <2>2, AgreeMarked
<1>9. ASSUME NEW i \in DOMAIN list, TrackedRunEnds(i) PROVE AgreeInv'
  <2>1. NoReq \in Nat BY DEF NoReq
  <2>2. /\ linked /\ list' = Marked(list, i, FALSE) /\ saved' = DaemonSaves
        /\ Told(Note("job_completed", i, NoJob, NoReq))
        /\ UNCHANGED <<up, linked, viewVars, staleMap, staleSave, addCrossed>>
    BY <1>9 DEF TrackedRunEnds
  <2> QED BY <2>1, <2>2, AgreeMarked
<1>10. ASSUME NEW s \in stops, StopCallAnswered(s) PROVE AgreeInv'
  <2>1. CASE s.at \in DOMAIN list /\ list[s.at].id = s.id /\ Tracked(s.at)
    <3>1. s.req \in Nat BY DEF WireTypes, StopRecs
    <3>2. /\ linked /\ list' = Marked(list, s.at, FALSE) /\ saved' = DaemonSaves
          /\ Told(Note("job_stopped", s.at, NoJob, s.req))
          /\ UNCHANGED <<up, linked, viewVars, staleMap, staleSave, addCrossed>>
      BY <1>10, <2>1 DEF StopCallAnswered
    <3> QED BY <2>1, <3>1, <3>2, AgreeMarked
  <2>2. CASE ~(s.at \in DOMAIN list /\ list[s.at].id = s.id /\ Tracked(s.at))
    <3>1. UNCHANGED <<list, saved, down, up, linked, mirror, rows, staleMap, staleSave, addCrossed>>
      BY <1>10, <2>2 DEF StopCallAnswered, viewVars
    <3>3. FileInv' = FileInv BY <3>1 DEF FileInv
    <3>4. Ids(mirror') = Ids(mirror) /\ RowIds(rows') = RowIds(rows) /\ Ids(list') = Ids(list) BY <3>1
    <3>5. Traced(Ids(mirror'), down', Ids(list'), up', addCrossed')
      = Traced(Ids(mirror), down, Ids(list), up, addCrossed)
      BY <3>1, <3>4
    <3> QED BY <3>1, <3>3, <3>4, <3>5 DEF AgreeInv
  <2> QED BY <2>1, <2>2
<1>11. CASE UNCHANGED linkVars
  <2>1. UNCHANGED <<list, saved, down, up, linked, mirror, rows, staleMap, staleSave, addCrossed>>
    BY <1>11 DEF linkVars, daemonVars, viewVars
  <2>2. FileInv' = FileInv BY <2>1 DEF FileInv
  <2>3. Ids(mirror') = Ids(mirror) /\ RowIds(rows') = RowIds(rows) /\ Ids(list') = Ids(list) BY <2>1
  <2>4. Traced(Ids(mirror'), down', Ids(list'), up', addCrossed')
      = Traced(Ids(mirror), down, Ids(list), up, addCrossed)
    BY <2>1, <2>3
  <2> QED BY <2>1, <2>2, <2>3, <2>4 DEF AgreeInv
<1>12. CASE MountsListed BY <1>12, AgreeMounts
<1> QED BY <1>1, <1>2, <1>3, <1>4, <1>5, <1>6, <1>7, <1>8, <1>9, <1>10, <1>11, <1>12 DEF LinkNext

-----------------------------------------------------------------------------
(* Theorems *)

LEMMA LinkInvariant == LinkSpec => [](WireTypes /\ AgreeInv /\ CrossInv)
<1>1. LinkInit => WireTypes /\ AgreeInv /\ CrossInv BY TypesInit, AgreeInit
<1>2. WireTypes /\ AgreeInv /\ CrossInv /\ [LinkNext]_linkVars => (WireTypes /\ AgreeInv /\ CrossInv)'
  BY TypesStep, AgreeStep, CrossStep
<1> QED BY <1>1, <1>2, PTL DEF LinkSpec

\* Every row of the window stays with the job of its index, unless a list of
\* jobs crosses an addition.
THEOREM RowsFollow == LinkSpec => []RowsMatch
<1>1. WireTypes /\ AgreeInv => RowsMatch BY DEF AgreeInv, RowsMatch
<1> QED BY <1>1, LinkInvariant, PTL

\* When nothing is on its way the window shows the jobs of the daemon.
THEOREM MirrorFollows == LinkSpec => []MirrorAgrees
<1>1. WireTypes /\ AgreeInv => MirrorAgrees
  <2> SUFFICES ASSUME WireTypes, AgreeInv, Settled, ~staleMap PROVE Ids(mirror) = Ids(list)
    BY DEF MirrorAgrees
  <2>1. linked /\ up = <<>> /\ down = <<>> BY DEF Settled, InFlight
  <2>2. Traced(Ids(mirror), <<>>, Ids(list), <<>>, addCrossed) BY <2>1 DEF AgreeInv
  <2>3. list \in Seq(JobRec) /\ addCrossed \in BOOLEAN BY DEF WireTypes
  <2>4. Ids(list) \in Seq(IdSet) BY <2>3, IdsAre
  <2> QED BY <2>2, <2>3, <2>4, TracedEnd
<1> QED BY <1>1, LinkInvariant, PTL

\* When nothing is on its way the file holds the jobs of the daemon.
THEOREM FileFollows == LinkSpec => []FileAgrees
<1>1. WireTypes /\ AgreeInv => FileAgrees
  <2> SUFFICES ASSUME AgreeInv, Settled, ~staleSave, ~staleMap PROVE Ids(saved) = Ids(list)
    BY DEF FileAgrees
  <2>1. linked /\ up = <<>> BY DEF Settled, InFlight
  <2>2. FileInv BY <2>1 DEF AgreeInv
  <2> QED BY <2>1, <2>2 DEF FileInv
<1> QED BY <1>1, LinkInvariant, PTL

-----------------------------------------------------------------------------
(* The type invariant. WireTypes allows a job the identity 0 of NoJob, which *)
(* messages carry that name no job; in a list, or in a message that puts a   *)
(* job into one, it is never found.                                          *)

OwnJob   == [id : JobIds, running : BOOLEAN]
OwnAsk   == {r \in Requests : r.kind \in {"add_job", "update_job"} => r.job \in OwnJob}
OwnNote  == {m \in Notes \cup Lists : /\ m.kind \in {"job_added", "job_updated"} => m.job \in OwnJob
                                      /\ m.kind = "jobs_list" => m.jobs \in Seq(OwnJob)}

OwnLists == list \in Seq(OwnJob) /\ saved \in Seq(OwnJob) /\ mirror \in Seq(OwnJob)
OwnRuns  == \A x \in live : x.id \in JobIds
ReqsNumbered == nextReq \in Nat \ {0} /\ \A w \in waiting : w.req \in 1 .. nextReq - 1
Gestures == pageShown \in BOOLEAN /\ gestures \in 0 .. MaxGestures

OwnInv ==
  /\ OwnLists /\ OwnRuns /\ ReqsNumbered /\ Gestures
  /\ up \in Seq(OwnAsk) /\ down \in Seq(OwnNote)
  /\ dialog # NoDialog => dialog.job \in OwnJob

LEMMA OwnPut ==
  ASSUME NEW jobs \in Seq(OwnJob), NEW i, NEW j \in OwnJob
  PROVE  [jobs EXCEPT ![i] = j] \in Seq(OwnJob)
<1>1. CASE i \in 1 .. Len(jobs) BY <1>1, ExceptSeq
<1>2. CASE i \notin 1 .. Len(jobs)
  <2>1. [jobs EXCEPT ![i] = j] = jobs BY <1>2
  <2> QED BY <2>1
<1> QED BY <1>1, <1>2

LEMMA OwnMarked ==
  ASSUME NEW jobs \in Seq(OwnJob), NEW i, NEW b \in BOOLEAN
  PROVE  Marked(jobs, i, b) \in Seq(OwnJob)
<1>1. \A j \in 1 .. Len(jobs) : jobs[j] \in OwnJob BY ElementOfSeq
<1>2. \A j \in 1 .. Len(jobs) : [jobs[j] EXCEPT !.running = b] \in OwnJob BY <1>1 DEF OwnJob
<1>3. Marked(jobs, i, b)
        = [j \in 1 .. Len(jobs) |-> IF j = i THEN [jobs[j] EXCEPT !.running = b] ELSE jobs[j]]
  BY DEF Marked
<1>4. Len(jobs) \in Nat /\ Marked(jobs, i, b) \in [1 .. Len(jobs) -> OwnJob]
  BY <1>1, <1>2, <1>3
<1> QED BY <1>4

\* What is asked puts own jobs on their way and numbers what it waits for.
LEMMA OwnAsked ==
  ASSUME WireTypes, NEW a \in Asks, a.kind \in {"add_job", "update_job"} => a.job \in OwnJob,
         NEW n \in Nat
  PROVE  Asked(a, n) \in OwnAsk
<1>1. Asked(a, n) \in Requests BY AskedIs
<1>2. Asked(a, n).kind = a.kind /\ Asked(a, n).job = a.job BY DEF Asked, Request
<1> QED BY <1>1, <1>2 DEF OwnAsk

LEMMA OwnSent ==
  ASSUME WireTypes, OwnInv, NEW a \in Asks,
         a.kind \in {"add_job", "update_job"} => a.job \in OwnJob, Sent(<<a>>)
  PROVE  up' \in Seq(OwnAsk) /\ ReqsNumbered'
<1>1. CASE ~linked BY <1>1 DEF Sent, OwnInv, ReqsNumbered
<1>2. CASE linked
  <2>1. /\ up' = Append(up, Asked(a, nextReq))
        /\ waiting' = waiting \cup {Awaits(a, nextReq)}
        /\ nextReq' = nextReq + 1
    BY <1>2, SentOne
  <2>2. nextReq \in Nat \ {0} /\ up \in Seq(OwnAsk) /\ \A w \in waiting : w.req \in 1 .. nextReq - 1
    BY DEF OwnInv, ReqsNumbered
  <2>3. Asked(a, nextReq) \in OwnAsk BY <2>2, OwnAsked
  <2>4. up' \in Seq(OwnAsk) BY <2>1, <2>2, <2>3, AppendProperties
  <2>5. Awaits(a, nextReq).req = nextReq BY DEF Awaits
  <2>6. \A w \in waiting' : w.req \in 1 .. nextReq
    BY <2>1, <2>2, <2>5
  <2> QED BY <2>1, <2>2, <2>4, <2>6 DEF ReqsNumbered
<1> QED BY <1>1, <1>2

LEMMA OwnSentTwo ==
  ASSUME WireTypes, OwnInv, NEW a \in Asks, NEW b \in Asks,
         a.kind \in {"add_job", "update_job"} => a.job \in OwnJob,
         b.kind \in {"add_job", "update_job"} => b.job \in OwnJob, Sent(<<a, b>>)
  PROVE  up' \in Seq(OwnAsk) /\ ReqsNumbered'
<1>1. CASE ~linked BY <1>1 DEF Sent, OwnInv, ReqsNumbered
<1>2. CASE linked
  <2> DEFINE u == Asked(a, nextReq)
             v == Asked(b, nextReq + 1)
  <2>1. /\ up' = Append(Append(up, u), v)
        /\ waiting' = waiting \cup {Awaits(a, nextReq), Awaits(b, nextReq + 1)}
        /\ nextReq' = nextReq + 2
    BY <1>2, SentTwo
  <2>2. nextReq \in Nat \ {0} /\ up \in Seq(OwnAsk) /\ \A w \in waiting : w.req \in 1 .. nextReq - 1
    BY DEF OwnInv, ReqsNumbered
  <2>3. nextReq + 1 \in Nat BY <2>2
  <2>4. u \in OwnAsk /\ v \in OwnAsk BY <2>2, <2>3, OwnAsked
  <2>5. Awaits(a, nextReq).req = nextReq /\ Awaits(b, nextReq + 1).req = nextReq + 1 BY DEF Awaits
  <2> HIDE DEF u, v
  <2>6. Append(up, u) \in Seq(OwnAsk) BY <2>2, <2>4, AppendProperties
  <2>7. up' \in Seq(OwnAsk) BY <2>1, <2>4, <2>6, AppendProperties
  <2>8. \A w \in waiting' : w.req \in 1 .. nextReq + 1
    BY <2>1, <2>2, <2>5
  <2>9. nextReq' \in Nat \ {0} /\ nextReq' - 1 = nextReq + 1 BY <2>1, <2>2
  <2>10. ReqsNumbered' BY <2>8, <2>9 DEF ReqsNumbered
  <2> QED BY <2>7, <2>10
<1> QED BY <1>1, <1>2

\* The window makes a list of own jobs of a broadcast.
LEMMA OwnSeen ==
  ASSUME WireTypes, OwnInv, NEW m \in OwnNote
  PROVE  Seen(m) \in Seq(OwnJob)
<1>0. mirror \in Seq(OwnJob) /\ DOMAIN mirror = 1 .. Len(mirror) BY DEF OwnInv, OwnLists
<1>1. CASE m.kind = "jobs_list" BY <1>1 DEF Seen, OwnNote
<1>2. CASE m.kind = "job_added"
  <2>1. m.job \in OwnJob BY <1>2 DEF OwnNote
  <2>2. Seen(m) = WithAdded(mirror, m) BY <1>2 DEF Seen
  <2>3. Append(mirror, m.job) \in Seq(OwnJob) BY <1>0, <2>1, AppendProperties
  <2>4. [mirror EXCEPT ![m.index] = m.job] \in Seq(OwnJob) BY <1>0, <2>1, OwnPut
  <2> QED BY <2>2, <2>3, <2>4 DEF WithAdded
<1>3. CASE m.kind = "job_updated"
  <2>1. m.job \in OwnJob BY <1>3 DEF OwnNote
  <2>2. [mirror EXCEPT ![m.index] = m.job] \in Seq(OwnJob) BY <1>0, <2>1, OwnPut
  <2> QED BY <1>0, <1>3, <2>2 DEF Seen
<1>4. CASE m.kind = "job_deleted"
  <2>1. m.index \in DOMAIN mirror => Without(mirror, m.index) \in Seq(OwnJob) BY <1>0, DropIndex
  <2> QED BY <1>0, <1>4, <2>1 DEF Seen
<1>5. CASE m.kind = "job_stopped"
  <2>1. Marked(mirror, m.index, FALSE) \in Seq(OwnJob) BY <1>0, OwnMarked
  <2> QED BY <1>5, <2>1 DEF Seen
<1>6. CASE m.kind \in {"job_started", "job_completed"} BY <1>0, <1>6 DEF Seen
<1> QED BY <1>1, <1>2, <1>3, <1>4, <1>5, <1>6 DEF OwnNote, Notes, Lists

LEMMA OwnTold ==
  ASSUME OwnInv, NEW m \in OwnNote, Told(m)
  PROVE  down' \in Seq(OwnNote)
<1>1. down \in Seq(OwnNote) BY DEF OwnInv
<1>2. Append(down, m) \in Seq(OwnNote) BY <1>1, AppendProperties
<1> QED BY <1>2 DEF Told

LEMMA OwnNotes ==
  ASSUME NEW kind \in {"job_added", "job_updated", "job_deleted", "job_started", "job_completed",
                       "job_stopped"},
         NEW i \in Nat, NEW j \in JobRec, NEW n \in Nat,
         kind \in {"job_added", "job_updated"} => j \in OwnJob
  PROVE  Note(kind, i, j, n) \in OwnNote
<1>1. Note(kind, i, j, n) \in Notes BY NotesAre
<1>2. Note(kind, i, j, n).kind = kind /\ Note(kind, i, j, n).job = j BY DEF Note
<1>3. kind # "jobs_list" OBVIOUS
<1> QED BY <1>1, <1>2, <1>3 DEF OwnNote

LEMMA OwnInit == LinkInit => OwnInv
<1> SUFFICES ASSUME LinkInit PROVE OwnInv
  OBVIOUS
<1>1. list \in Seq(OwnJob) /\ MaxGestures \in Nat BY GuiLinkAssumption DEF LinkInit, OwnJob
<1>2. mirror = <<>> /\ down = <<>> BY DEF LinkInit
<1>3. mirror \in Seq(OwnJob) /\ down \in Seq(OwnNote) BY <1>2, EmptySeq
<1>4. OwnLists /\ OwnRuns BY <1>1, <1>3 DEF LinkInit, OwnLists, OwnRuns
<1>5. Request("get_jobs", 0, NoJob, 1) \in OwnAsk
  BY NoJobIs DEF Request, Requests, OwnAsk
<1>6. up \in Seq(OwnAsk)
  <2>1. <<Request("get_jobs", 0, NoJob, 1)>> \in Seq(OwnAsk) BY <1>5
  <2> QED BY <2>1 DEF LinkInit
<1>7. ReqsNumbered
  <2>1. waiting = {[req |-> 1, kind |-> "list", index |-> 0]} /\ nextReq = 2 BY DEF LinkInit
  <2>2. \A w \in waiting : w.req = 1 BY <2>1
  <2> QED BY <2>1, <2>2 DEF ReqsNumbered
<1>8. Gestures
  <2>1. pageShown = FALSE /\ gestures = 0 BY DEF LinkInit
  <2>2. 0 \in 0 .. MaxGestures BY <1>1
  <2> QED BY <2>1, <2>2 DEF Gestures
<1>9. dialog = NoDialog BY DEF LinkInit
<1> QED BY <1>3, <1>4, <1>6, <1>7, <1>8, <1>9 DEF OwnInv

LEMMA OwnView ==
  ASSUME WireTypes, OwnInv,
         ShowJobsPage \/ \E i \in DOMAIN rows : ClickRun(i) \/ ClickStop(i) \/ ClickDelete(i) \/ OpenEdit(i)
  PROVE  OwnInv'
<1>0. DOMAIN rows = 1 .. Len(rows) /\ DOMAIN mirror = 1 .. Len(mirror) BY DEF WireTypes
<1>1. gestures' \in 0 .. MaxGestures
  <2>1. Gesture BY DEF ShowJobsPage, ClickRun, ClickStop, ClickDelete, OpenEdit, RowsUp
  <2>2. gestures < MaxGestures /\ gestures' = gestures + 1 BY <2>1 DEF Gesture
  <2>3. gestures \in 0 .. MaxGestures /\ MaxGestures \in Nat BY GuiLinkAssumption DEF OwnInv, Gestures
  <2> QED BY <2>2, <2>3
<1>2. CASE ShowJobsPage
  BY <1>1, <1>2 DEF ShowJobsPage, Gesture, OwnInv, OwnLists, OwnRuns, ReqsNumbered, Gestures, daemonVars
<1>3. ASSUME NEW i \in DOMAIN rows, ClickRun(i) PROVE OwnInv'
  <2>1. Asking("run_job", i, NoJob, "label") \in Asks BY <1>0, NoJobIs DEF Asking, Asks
  <2>2. Sent(<<Asking("run_job", i, NoJob, "label")>>) BY <1>3 DEF ClickRun
  <2>3. Asking("run_job", i, NoJob, "label").kind \notin {"add_job", "update_job"} BY DEF Asking
  <2>4. up' \in Seq(OwnAsk) /\ ReqsNumbered' BY <2>1, <2>2, <2>3, OwnSent
  <2> QED BY <1>1, <1>3, <2>4 DEF ClickRun, RowsUp, OwnInv, OwnLists, OwnRuns, Gestures, daemonVars
<1>4. ASSUME NEW i \in DOMAIN rows, ClickStop(i) PROVE OwnInv'
  <2>1. Asking("stop_job", i, NoJob, "stopped") \in Asks BY <1>0, NoJobIs DEF Asking, Asks
  <2>2. Sent(<<Asking("stop_job", i, NoJob, "stopped")>>) BY <1>4 DEF ClickStop
  <2>3. Asking("stop_job", i, NoJob, "stopped").kind \notin {"add_job", "update_job"} BY DEF Asking
  <2>4. up' \in Seq(OwnAsk) /\ ReqsNumbered' BY <2>1, <2>2, <2>3, OwnSent
  <2> QED BY <1>1, <1>4, <2>4 DEF ClickStop, RowsUp, OwnInv, OwnLists, OwnRuns, Gestures, daemonVars
<1>5. ASSUME NEW i \in DOMAIN rows, ClickDelete(i) PROVE OwnInv'
  <2>1. Asking("delete_job", i, NoJob, "label") \in Asks BY <1>0, NoJobIs DEF Asking, Asks
  <2>2. Sent(<<Asking("delete_job", i, NoJob, "label")>>) BY <1>5 DEF ClickDelete
  <2>3. Asking("delete_job", i, NoJob, "label").kind \notin {"add_job", "update_job"} BY DEF Asking
  <2>4. up' \in Seq(OwnAsk) /\ ReqsNumbered' BY <2>1, <2>2, <2>3, OwnSent
  <2>5. i \in 1 .. Len(mirror) /\ mirror \in Seq(OwnJob)
    BY <1>0, <1>5 DEF ClickDelete, OwnInv, OwnLists
  <2>6. Without(mirror, i) \in Seq(OwnJob) BY <2>5, DropIndex
  <2>7. OwnLists' BY <1>5, <2>6 DEF ClickDelete, ViewSaves, OwnInv, OwnLists, daemonVars
  <2> QED BY <1>1, <1>5, <2>4, <2>7 DEF ClickDelete, RowsUp, OwnInv, OwnRuns, Gestures, daemonVars
<1>6. ASSUME NEW i \in DOMAIN rows, OpenEdit(i) PROVE OwnInv'
  <2>1. i \in 1 .. Len(mirror) /\ mirror \in Seq(OwnJob) BY <1>0, <1>6 DEF OpenEdit, OwnInv, OwnLists
  <2>2. mirror[i] \in OwnJob BY <2>1, ElementOfSeq
  <2>3. Job(mirror[i].id, FALSE) \in OwnJob BY <2>2 DEF Job, OwnJob
  <2>4. dialog'.job \in OwnJob BY <1>6, <2>3 DEF OpenEdit
  <2> QED BY <1>1, <1>6, <2>4
          DEF OpenEdit, RowsUp, OwnInv, OwnLists, OwnRuns, ReqsNumbered, Gestures, daemonVars
<1> QED BY <1>2, <1>3, <1>4, <1>5, <1>6

LEMMA OwnAdd ==
  ASSUME WireTypes, OwnInv, NEW id \in JobIds, NEW run \in BOOLEAN, AddNew(id, run)
  PROVE  OwnInv'
<1> DEFINE a == Asking("add_job", Len(Append(mirror, Job(id, FALSE))), Job(id, FALSE),
                       IF run THEN "run" ELSE "label")
<1>0. mirror \in Seq(OwnJob) BY DEF OwnInv, OwnLists
<1>1. Job(id, FALSE) \in OwnJob /\ Job(id, FALSE) \in JobRec BY DEF Job, OwnJob, JobRec, IdSet
<1>2. Append(mirror, Job(id, FALSE)) \in Seq(OwnJob) BY <1>0, <1>1, AppendProperties
<1>3. Len(Append(mirror, Job(id, FALSE))) \in Nat BY <1>2, LenProperties
<1>4. a \in Asks /\ a.job \in OwnJob BY <1>1, <1>3 DEF Asking, Asks
<1>5. Sent(<<a>>) BY DEF AddNew
<1> HIDE DEF a
<1>6. up' \in Seq(OwnAsk) /\ ReqsNumbered' BY <1>4, <1>5, OwnSent
<1>7. gestures' \in 0 .. MaxGestures BY GuiLinkAssumption DEF AddNew, Gesture, OwnInv, Gestures
<1> QED BY <1>2, <1>6, <1>7 DEF AddNew, ViewSaves, OwnInv, OwnLists, OwnRuns, Gestures, daemonVars

LEMMA OwnEdit ==
  ASSUME WireTypes, OwnInv, NEW run \in BOOLEAN, SaveEdit(run)
  PROVE  OwnInv'
<1> DEFINE jobs == [mirror EXCEPT ![dialog.index] = dialog.job]
           a == Asking("update_job", dialog.index, dialog.job, "label")
           b == Asking("run_job", dialog.index, NoJob, "label")
<1>1. CASE dialog.index \notin DOMAIN mirror
  BY <1>1 DEF SaveEdit, OwnInv, OwnLists, OwnRuns, ReqsNumbered, Gestures, daemonVars
<1>2. CASE dialog.index \in DOMAIN mirror
  <2>1. mirror \in Seq(OwnJob) /\ dialog.job \in OwnJob BY DEF OwnInv, OwnLists, SaveEdit
  <2>2. jobs \in Seq(OwnJob) BY <2>1, OwnPut
  <2>3. mirror' = jobs /\ saved' = jobs BY <1>2 DEF SaveEdit, ViewSaves
  <2>4. Sent(EditAsks(run)) BY <1>2 DEF SaveEdit, EditAsks
  <2>5. a \in Asks /\ b \in Asks /\ EditAsks(run) = IF run THEN <<a, b>> ELSE <<a>>
    BY EditAsksAre
  <2>6. a.job \in OwnJob /\ b.kind \notin {"add_job", "update_job"} BY <2>1 DEF Asking
  <2> HIDE DEF a, b
  <2>7. up' \in Seq(OwnAsk) /\ ReqsNumbered'
    <3>1. CASE run
      <4>1. Sent(<<a, b>>) BY <2>4, <2>5, <3>1
      <4> QED BY <2>5, <2>6, <4>1, OwnSentTwo
    <3>2. CASE ~run
      <4>1. Sent(<<a>>) BY <2>4, <2>5, <3>2
      <4> QED BY <2>5, <2>6, <4>1, OwnSent
    <3> QED BY <3>1, <3>2
  <2>8. dialog' = NoDialog /\ UNCHANGED <<list, live, down, pageShown, gestures>> BY DEF SaveEdit, daemonVars
  <2>9. NoDialog' = NoDialog BY DEF NoDialog, Job
  <2> HIDE DEF jobs
  <2> QED BY <2>2, <2>3, <2>7, <2>8, <2>9 DEF OwnInv, OwnLists, OwnRuns, Gestures
<1> QED BY <1>1, <1>2

LEMMA OwnReceive ==
  ASSUME WireTypes, OwnInv, Receive
  PROVE  OwnInv'
<1> DEFINE m == Head(down)
           jobs == Seen(m)
           base == RowsAfter(m, jobs)
           cbs == {w \in waiting : m.req # NoReq /\ w.req = m.req}
           runs == {w \in cbs : w.kind = "run" /\ w.index \in DOMAIN jobs /\ w.index \in DOMAIN base}
           w0 == CHOOSE w \in runs : TRUE
<1>0. down \in Seq(OwnNote) /\ down # <<>> BY DEF OwnInv, Receive
<1>1. m \in OwnNote /\ Tail(down) \in Seq(OwnNote) BY <1>0, HeadTailProperties
<1> HIDE DEF m
<1>2. jobs \in Seq(OwnJob) BY <1>1, OwnSeen
<1> HIDE DEF base
<1>3. mirror' = jobs /\ down' = Tail(down) BY DEF Receive, m
<1>4. waiting \subseteq Callbacks /\ nextReq \in Nat \ {0} /\ up \in Seq(OwnAsk)
      /\ \A w \in waiting : w.req \in 1 .. nextReq - 1
  BY DEF WireTypes, OwnInv, ReqsNumbered
<1>5. up' \in Seq(OwnAsk) /\ ReqsNumbered'
  <2>1. CASE runs = {}
    <3>1. waiting' = waiting \ cbs /\ up' = up /\ nextReq' = nextReq BY <2>1 DEF Receive, m, base
    <3> QED BY <1>4, <3>1 DEF ReqsNumbered
  <2>2. CASE runs # {}
    <3>1. /\ up' = Append(up, Request("run_job", w0.index, NoJob, nextReq))
          /\ waiting' = (waiting \ cbs) \cup {[req |-> nextReq, kind |-> "label", index |-> w0.index]}
          /\ nextReq' = nextReq + 1
      BY <2>2 DEF Receive, m, base
    <3>2. w0 \in Callbacks BY <1>4, <2>2
    <3> HIDE DEF w0, runs, cbs
    <3>3. w0.index \in Nat BY <3>2 DEF Callbacks
    <3>4. Request("run_job", w0.index, NoJob, nextReq) \in OwnAsk
      BY <1>4, <3>3, NoJobIs DEF Request, Requests, OwnAsk
    <3>5. up' \in Seq(OwnAsk) BY <1>4, <3>1, <3>4, AppendProperties
    <3>6. \A w \in waiting' : w \in waiting \/ w.req = nextReq BY <3>1
    <3>7. \A w \in waiting' : w.req \in 1 .. nextReq BY <1>4, <3>6
    <3> QED BY <1>4, <3>1, <3>5, <3>7 DEF ReqsNumbered
  <2> QED BY <2>1, <2>2
<1> HIDE DEF jobs, runs, cbs
<1>6. saved' = jobs \/ saved' = saved BY DEF Receive, m, jobs, ViewSaves
<1>7. UNCHANGED <<list, live, dialog, pageShown, gestures>> BY DEF Receive, daemonVars
<1>8. OwnLists' BY <1>2, <1>3, <1>6, <1>7 DEF OwnInv, OwnLists
<1> QED BY <1>1, <1>3, <1>5, <1>7, <1>8 DEF OwnInv, OwnRuns, Gestures

\* A change of the running flag of a job that the daemon tells
LEMMA OwnFlagged ==
  ASSUME WireTypes, OwnInv, NEW i \in DOMAIN list, NEW b \in BOOLEAN, NEW n \in Nat,
         NEW kind \in {"job_started", "job_completed", "job_stopped"},
         list' = Marked(list, i, b), saved' = DaemonSaves, Told(Note(kind, i, NoJob, n)),
         \A x \in live' : x \in live \/ x.id = list[i].id,
         UNCHANGED <<up, viewVars, gestures>>
  PROVE  OwnInv'
<1>1. list \in Seq(OwnJob) /\ i \in 1 .. Len(list) BY DEF OwnInv, OwnLists
<1>2. list' \in Seq(OwnJob) BY <1>1, OwnMarked
<1>3. list[i].id \in JobIds
  <2>1. list[i] \in OwnJob BY <1>1, ElementOfSeq
  <2> QED BY <2>1 DEF OwnJob
<1>4. Note(kind, i, NoJob, n) \in OwnNote BY <1>1, NoJobIs, OwnNotes
<1>5. down' \in Seq(OwnNote) BY <1>4, OwnTold
<1>6. OwnRuns' BY <1>3 DEF OwnInv, OwnRuns
<1> QED BY <1>2, <1>5, <1>6 DEF OwnInv, OwnLists, ReqsNumbered, Gestures, DaemonSaves, viewVars

LEMMA OwnJobs ==
  ASSUME WireTypes, OwnInv, NEW n \in Nat
  PROVE  Jobs(n) \in OwnNote
<1>1. Jobs(n) \in Lists /\ Jobs(n).jobs = list BY JobsIs
<1>2. Jobs(n).kind = "jobs_list" BY DEF Jobs
<1>3. list \in Seq(OwnJob) BY DEF OwnInv, OwnLists
<1> QED BY <1>1, <1>2, <1>3 DEF OwnNote

LEMMA OwnHandled ==
  ASSUME WireTypes, OwnInv, NEW r \in OwnAsk, HandleRequest(r),
         r.kind \in {"get_jobs", "add_job"} \/ r.index \in DOMAIN list
  PROVE  list' \in Seq(OwnJob) /\ saved' \in Seq(OwnJob) /\ OwnRuns' /\ down' \in Seq(OwnNote)
<1>1. list \in Seq(OwnJob) /\ saved \in Seq(OwnJob) /\ OwnRuns /\ down \in Seq(OwnNote)
  BY DEF OwnInv, OwnLists
<1>2. Len(list) \in Nat /\ DOMAIN list = 1 .. Len(list) BY <1>1
<1>3. r.job \in JobRec /\ r.req \in Nat /\ r.index \in Nat /\ NoJob \in JobRec
  BY NoJobIs DEF OwnAsk, Requests
<1>4. CASE r.kind = "get_jobs"
  <2> DEFINE m == Jobs(r.req)
  <2>3. m \in OwnNote BY <1>3, OwnJobs
  <2>4. Told(m) /\ UNCHANGED <<list, saved, live>> BY <1>4 DEF HandleRequest, daemonVars
  <2> HIDE DEF m
  <2>5. down' \in Seq(OwnNote) BY <2>3, <2>4, OwnTold
  <2> QED BY <1>1, <2>4, <2>5 DEF OwnRuns
<1>5. CASE r.kind = "add_job"
  <2> DEFINE m == Note("job_added", Len(list) + 1, r.job, r.req)
  <2>1. r.job \in OwnJob BY <1>5 DEF OwnAsk
  <2>2. m \in OwnNote BY <1>2, <1>3, <2>1, OwnNotes
  <2>3. Told(m) /\ list' = Append(list, r.job) /\ saved' = list' /\ live' = live
    BY <1>5 DEF HandleRequest, DaemonSaves
  <2> HIDE DEF m
  <2>4. down' \in Seq(OwnNote) BY <2>2, <2>3, OwnTold
  <2>5. Append(list, r.job) \in Seq(OwnJob) BY <1>1, <2>1, AppendProperties
  <2> QED BY <1>1, <2>3, <2>4, <2>5 DEF OwnRuns
<1>6. CASE r.kind = "update_job"
  <2> DEFINE m == Note("job_updated", r.index, r.job, r.req)
  <2>1. r.job \in OwnJob BY <1>6 DEF OwnAsk
  <2>2. m \in OwnNote BY <1>3, <2>1, OwnNotes
  <2>3. Told(m) /\ list' = [list EXCEPT ![r.index] = r.job] /\ saved' = list' /\ live' = live
    BY <1>6 DEF HandleRequest, DaemonSaves
  <2> HIDE DEF m
  <2>4. down' \in Seq(OwnNote) BY <2>2, <2>3, OwnTold
  <2>5. [list EXCEPT ![r.index] = r.job] \in Seq(OwnJob) BY <1>1, <2>1, OwnPut
  <2> QED BY <1>1, <2>3, <2>4, <2>5 DEF OwnRuns
<1>7. CASE r.kind = "delete_job"
  <2> DEFINE m == Note("job_deleted", r.index, NoJob, r.req)
  <2>1. m \in OwnNote BY <1>3, OwnNotes
  <2>2. /\ Told(m) /\ list' = Without(list, r.index) /\ saved' = list'
        /\ live' = {Run(x.id, x.at, IF x.slot > r.index THEN x.slot - 1 ELSE x.slot) :
                      x \in {y \in live : y.slot # r.index}}
    BY <1>7 DEF HandleRequest, DaemonSaves
  <2>2a. \A y \in live' : \E x \in live : y.id = x.id BY <2>2 DEF Run
  <2>2b. OwnRuns' BY <1>1, <2>2a DEF OwnRuns
  <2> HIDE DEF m
  <2>3. down' \in Seq(OwnNote) BY <2>1, <2>2, OwnTold
  <2>4. r.index \in 1 .. Len(list) BY <1>2, <1>7
  <2>5. Without(list, r.index) \in Seq(OwnJob) BY <1>1, <2>4, DropIndex
  <2> QED BY <2>2, <2>2b, <2>3, <2>5
<1>8. CASE r.kind = "run_job"
  <2> DEFINE m == Note("job_started", r.index, NoJob, r.req)
             x == Run(list[r.index].id, r.index, r.index)
  <2>1. m \in OwnNote BY <1>3, OwnNotes
  <2>2. Told(m) /\ live' \subseteq live \cup {x}
        /\ ((list' = list /\ saved' = saved)
            \/ (list' = Marked(list, r.index, TRUE) /\ saved' = list'))
    BY <1>8 DEF HandleRequest, DaemonSaves
  <2>3. x.id \in JobIds
    <3>1. r.index \in 1 .. Len(list) BY <1>2, <1>8
    <3>2. list[r.index] \in OwnJob BY <1>1, <3>1, ElementOfSeq
    <3> QED BY <3>2 DEF OwnJob, Run
  <2> HIDE DEF m, x
  <2>4. down' \in Seq(OwnNote) BY <2>1, <2>2, OwnTold
  <2>5. Marked(list, r.index, TRUE) \in Seq(OwnJob) BY <1>1, OwnMarked
  <2>6. OwnRuns' BY <1>1, <2>2, <2>3 DEF OwnRuns
  <2> QED BY <1>1, <2>2, <2>4, <2>5, <2>6
<1>9. CASE r.kind = "stop_job"
  <2>1. UNCHANGED <<list, live, saved, down>> BY <1>9 DEF HandleRequest
  <2> QED BY <1>1, <2>1 DEF OwnRuns
<1> QED BY <1>4, <1>5, <1>6, <1>7, <1>8, <1>9 DEF OwnAsk, Requests

LEMMA OwnHandle ==
  ASSUME WireTypes, OwnInv, Handle
  PROVE  OwnInv'
<1> DEFINE r == Head(up)
<1>0. up \in Seq(OwnAsk) /\ up # <<>> BY DEF OwnInv, Handle
<1>1. r \in OwnAsk /\ Tail(up) \in Seq(OwnAsk) BY <1>0, HeadTailProperties
<1>2. up' = Tail(up) /\ UNCHANGED <<viewVars, gestures>> BY DEF Handle
<1>3. list' \in Seq(OwnJob) /\ saved' \in Seq(OwnJob) /\ OwnRuns' /\ down' \in Seq(OwnNote)
  <2>1. CASE r.kind \in {"get_jobs", "add_job"} \/ r.index \in DOMAIN list
    <3>1. HandleRequest(r) BY <2>1 DEF Handle
    <3> QED BY <1>1, <2>1, <3>1, OwnHandled
  <2>2. CASE ~(r.kind \in {"get_jobs", "add_job"} \/ r.index \in DOMAIN list)
    <3>1. UNCHANGED <<list, live, saved, down>> BY <2>2 DEF Handle, daemonVars
    <3> QED BY <3>1 DEF OwnInv, OwnLists, OwnRuns
  <2> QED BY <2>1, <2>2
<1> HIDE DEF r
<1> QED BY <1>1, <1>2, <1>3 DEF OwnInv, OwnLists, ReqsNumbered, Gestures, viewVars

LEMMA OwnStep == WireTypes /\ OwnInv /\ [LinkNext]_linkVars => OwnInv'
<1> SUFFICES ASSUME WireTypes, OwnInv, [LinkNext]_linkVars PROVE OwnInv'
  OBVIOUS
<1>1. CASE ShowJobsPage BY <1>1, OwnView
<1>2. CASE Receive BY <1>2, OwnReceive
<1>3. CASE Handle BY <1>3, OwnHandle
<1>4. CASE DaemonEnds
  <2>1. <<>> \in Seq(OwnAsk) /\ <<>> \in Seq(OwnNote) BY EmptySeq
  <2> QED BY <1>4, <2>1 DEF DaemonEnds, OwnInv, OwnLists, OwnRuns, ReqsNumbered, Gestures, viewVars
<1>5. ASSUME NEW i \in DOMAIN rows, ClickRun(i) \/ ClickStop(i) \/ ClickDelete(i) \/ OpenEdit(i)
      PROVE  OwnInv'
  BY <1>5, OwnView
<1>6. ASSUME NEW id \in JobIds, NEW run \in BOOLEAN, AddNew(id, run) PROVE OwnInv'
  BY <1>6, OwnAdd
<1>7. ASSUME NEW run \in BOOLEAN, SaveEdit(run) PROVE OwnInv' BY <1>7, OwnEdit
<1>8. ASSUME NEW i \in DOMAIN list, AutoRun(i) PROVE OwnInv'
  <2>1. NoReq \in Nat BY DEF NoReq
  <2>2. /\ list' = Marked(list, i, TRUE) /\ saved' = DaemonSaves
        /\ Told(Note("job_started", i, NoJob, NoReq))
        /\ \A x \in live' : x \in live \/ x.id = list[i].id
        /\ UNCHANGED <<up, viewVars, gestures>>
    BY <1>8 DEF AutoRun, Run
  <2> QED BY <2>1, <2>2, OwnFlagged
<1>9. ASSUME NEW i \in DOMAIN list, TrackedRunEnds(i) PROVE OwnInv'
  <2>1. NoReq \in Nat BY DEF NoReq
  <2>2. /\ list' = Marked(list, i, FALSE) /\ saved' = DaemonSaves
        /\ Told(Note("job_completed", i, NoJob, NoReq))
        /\ \A x \in live' : x \in live \/ x.id = list[i].id
        /\ UNCHANGED <<up, viewVars, gestures>>
    BY <1>9 DEF TrackedRunEnds
  <2> QED BY <2>1, <2>2, OwnFlagged
<1>10. ASSUME NEW s \in stops, StopCallAnswered(s) PROVE OwnInv'
  <2>1. CASE s.at \in DOMAIN list /\ list[s.at].id = s.id /\ Tracked(s.at)
    <3>1. s.req \in Nat BY DEF WireTypes, StopRecs
    <3>2. /\ list' = Marked(list, s.at, FALSE) /\ saved' = DaemonSaves
          /\ Told(Note("job_stopped", s.at, NoJob, s.req))
          /\ \A x \in live' : x \in live \/ x.id = list[s.at].id
          /\ UNCHANGED <<up, viewVars, gestures>>
      BY <1>10, <2>1 DEF StopCallAnswered
    <3> QED BY <2>1, <3>1, <3>2, OwnFlagged
  <2>2. CASE ~(s.at \in DOMAIN list /\ list[s.at].id = s.id /\ Tracked(s.at))
    BY <1>10, <2>2 DEF StopCallAnswered, OwnInv, OwnLists, OwnRuns, ReqsNumbered, Gestures, viewVars
  <2> QED BY <2>1, <2>2
<1>12. CASE MountsListed
  <2>1. NoReq \in Nat BY DEF NoReq
  <2>2. Jobs(NoReq) \in OwnNote BY <2>1, OwnJobs
  <2>3. Told(Jobs(NoReq)) BY <1>12 DEF MountsListed
  <2>4. down' \in Seq(OwnNote) BY <2>2, <2>3, OwnTold
  <2> QED BY <1>12, <2>4 DEF MountsListed, DaemonSaves, OwnInv, OwnLists, OwnRuns, ReqsNumbered,
                             Gestures, viewVars
<1>11. CASE UNCHANGED linkVars
  BY <1>11 DEF linkVars, daemonVars, viewVars, OwnInv, OwnLists, OwnRuns, ReqsNumbered, Gestures
<1> QED BY <1>1, <1>2, <1>3, <1>4, <1>5, <1>6, <1>7, <1>8, <1>9, <1>10, <1>11, <1>12 DEF LinkNext

\* Whatever requests, broadcasts, edits and deletions cross, every job in the
\* lists of the window, the daemon and the file is one that there is, so is the
\* job of every run under way, and each callback waits for a number sent before.
THEOREM LinkTypesHold == LinkSpec => []LinkTypeOK
<1>1. LinkInit => WireTypes /\ OwnInv BY TypesInit, OwnInit
<1>2. WireTypes /\ OwnInv /\ [LinkNext]_linkVars => (WireTypes /\ OwnInv)'
  BY TypesStep, OwnStep
<1>3. WireTypes /\ OwnInv => LinkTypeOK
  <2> SUFFICES ASSUME WireTypes, OwnInv PROVE LinkTypeOK
    OBVIOUS
  <2>1. ASSUME NEW jobs \in Seq(OwnJob), NEW i \in DOMAIN jobs
        PROVE  jobs[i].id \in JobIds /\ jobs[i].running \in BOOLEAN
    <3>1. jobs[i] \in OwnJob BY ElementOfSeq
    <3> QED BY <3>1 DEF OwnJob
  <2>2. \A jobs \in {list, saved, mirror} : jobs \in Seq(OwnJob) BY DEF OwnInv, OwnLists
  <2> QED BY <2>1, <2>2 DEF WireTypes, OwnInv, OwnRuns, ReqsNumbered, Gestures, LinkTypeOK
<1> QED BY <1>1, <1>2, <1>3, PTL DEF LinkSpec

-----------------------------------------------------------------------------
(***************************************************************************)
(* The socket. A stream is what an end has read and not yet taken out and  *)
(* what is on its way to it. The frames in it rise; a stream of which none *)
(* was cut holds exactly the frames that follow the last message taken     *)
(* out, and what an end keeps between two reads is less than a frame.      *)
(***************************************************************************)
Units == [n : Nat, at : 1 .. FrameLen]

\* What the loop does at a position, given what it does at the later ones.
LoopAt(buf, odd, from, pos) ==
        LET left == Len(buf) - pos
            size == IF left < HeaderLen THEN 0 ELSE Size(buf[pos + 1], buf[pos + 2], odd)
            body == SubSeq(buf, pos + HeaderLen + 1, pos + HeaderLen + size)
            Stop(ok) == [messages |-> <<>>, pos |-> pos, ok |-> ok] IN
        CASE size > MaxSize                            -> Stop(FALSE)
          [] size <= MaxSize /\ left < HeaderLen + size -> Stop(TRUE)
          [] OTHER -> LET rest == from[pos + HeaderLen + size] IN
                      [rest EXCEPT !.messages = Parsed(body) \o @]

\* The function that Loop defines.
LoopFrom(buf, odd) == CHOOSE from : from = [pos \in 0 .. Len(buf) |-> LoopAt(buf, odd, from, pos)]

LEMMA LoopStarts ==
  ASSUME NEW buf, NEW odd
  PROVE  Loop(buf, odd) = LoopFrom(buf, odd)[0]
BY DEF Loop, LoopFrom, LoopAt

\* What the loop reads at a position, and what it makes of it.
SizeAt(buf, odd, pos) ==
  IF Len(buf) - pos < HeaderLen THEN 0 ELSE Size(buf[pos + 1], buf[pos + 2], odd)
BodyAt(buf, odd, pos) ==
  SubSeq(buf, pos + HeaderLen + 1, pos + HeaderLen + SizeAt(buf, odd, pos))
LoopEnded(pos)  == [messages |-> <<>>, pos |-> pos, ok |-> TRUE]
LoopFailed(pos) == [messages |-> <<>>, pos |-> pos, ok |-> FALSE]
WithMessage(body, rest) == [rest EXCEPT !.messages = Parsed(body) \o @]

LEMMA SizeTyped ==
  ASSUME NEW buf \in Seq(Units), NEW odd \in Nat, NEW pos \in 0 .. Len(buf)
  PROVE  SizeAt(buf, odd, pos) \in Nat
<1>1. Len(buf) \in Nat /\ pos \in Nat
  OBVIOUS
<1>2. \A u, v \in Units : Size(u, v, odd) \in Nat
  BY DEF Size, FrameLen, HeaderLen, MaxSize, Units
<1>3. CASE Len(buf) - pos < HeaderLen
  BY <1>3 DEF SizeAt
<1>4. CASE ~(Len(buf) - pos < HeaderLen)
  <2>1. pos + 1 \in 1 .. Len(buf) /\ pos + 2 \in 1 .. Len(buf)
    BY <1>1, <1>4 DEF HeaderLen
  <2>2. buf[pos + 1] \in Units /\ buf[pos + 2] \in Units
    BY <2>1
  <2> QED BY <1>2, <1>4, <2>2 DEF SizeAt
<1> QED BY <1>3, <1>4

LEMMA LoopAtIs ==
  ASSUME NEW buf \in Seq(Units), NEW odd \in Nat, NEW pos \in 0 .. Len(buf), NEW from
  PROVE  LET size == SizeAt(buf, odd, pos) IN
         /\ size > MaxSize => LoopAt(buf, odd, from, pos) = LoopFailed(pos)
         /\ size <= MaxSize /\ Len(buf) - pos < HeaderLen + size =>
              LoopAt(buf, odd, from, pos) = LoopEnded(pos)
         /\ size <= MaxSize /\ ~(Len(buf) - pos < HeaderLen + size) =>
              LoopAt(buf, odd, from, pos)
                = WithMessage(BodyAt(buf, odd, pos), from[pos + HeaderLen + size])
<1> DEFINE size == SizeAt(buf, odd, pos)
<1>1. size \in Nat /\ MaxSize \in Nat
  BY SizeTyped DEF MaxSize
<1>2. LoopAt(buf, odd, from, pos) =
        CASE size > MaxSize -> LoopFailed(pos)
          [] size <= MaxSize /\ Len(buf) - pos < HeaderLen + size -> LoopEnded(pos)
          [] OTHER -> WithMessage(BodyAt(buf, odd, pos), from[pos + HeaderLen + size])
  BY DEF LoopAt, SizeAt, BodyAt, LoopEnded, LoopFailed, WithMessage
<1> HIDE DEF size
<1>3. ASSUME size > MaxSize
      PROVE  LoopAt(buf, odd, from, pos) = LoopFailed(pos)
  BY <1>1, <1>2, <1>3
<1>4. ASSUME size <= MaxSize, Len(buf) - pos < HeaderLen + size
      PROVE  LoopAt(buf, odd, from, pos) = LoopEnded(pos)
  BY <1>1, <1>2, <1>4
<1>5. ASSUME size <= MaxSize, ~(Len(buf) - pos < HeaderLen + size)
      PROVE  LoopAt(buf, odd, from, pos)
               = WithMessage(BodyAt(buf, odd, pos), from[pos + HeaderLen + size])
  BY <1>1, <1>2, <1>5
<1> QED BY <1>3, <1>4, <1>5 DEF size

\* The loop is defined: what it does at a position depends on later ones only.
LEMMA LoopDefined ==
  ASSUME NEW buf \in Seq(Units), NEW odd \in Nat
  PROVE  LET from == LoopFrom(buf, odd) IN
         \A pos \in 0 .. Len(buf) : from[pos] = LoopAt(buf, odd, from, pos)
<1> DEFINE N == Len(buf)
           LoopStep(g, pos) == LoopAt(buf, odd, g, pos)
           Reached == {n \in Nat : n <= N => \E g : g = [pos \in N - n .. N |-> LoopStep(g, pos)]}
<1>1. N \in Nat
  OBVIOUS
<1> HIDE DEF N
<1>2. ASSUME NEW g, NEW h, NEW pos \in 0 .. N, \A i \in pos + 1 .. N : g[i] = h[i]
      PROVE  LoopStep(g, pos) = LoopStep(h, pos)
  <2> DEFINE size == SizeAt(buf, odd, pos)
  <2>1. size \in Nat /\ pos \in Nat /\ MaxSize \in Nat
    <3>1. pos \in 0 .. Len(buf)
      BY DEF N
    <3> QED BY <3>1, SizeTyped DEF MaxSize
  <2>2. CASE size > MaxSize
    BY <2>2, LoopAtIs DEF N
  <2>3. CASE size <= MaxSize /\ N - pos < HeaderLen + size
    BY <2>3, LoopAtIs DEF N
  <2>4. CASE size <= MaxSize /\ ~(N - pos < HeaderLen + size)
    <3>1. pos + HeaderLen + size \in pos + 1 .. N
      BY <1>1, <2>1, <2>4 DEF HeaderLen
    <3>2. g[pos + HeaderLen + size] = h[pos + HeaderLen + size]
      BY <1>2, <3>1
    <3> QED BY <2>4, <3>2, LoopAtIs DEF N
  <2> QED BY <2>1, <2>2, <2>3, <2>4 DEF MaxSize
<1> HIDE DEF LoopStep
<1>3. 0 \in Reached
  <2> DEFINE g == [pos \in N .. N |-> LoopStep(<<>>, N)]
  <2>1. \A i \in N + 1 .. N : FALSE
    BY <1>1
  <2>2. LoopStep(g, N) = LoopStep(<<>>, N)
    BY <1>1, <1>2, <2>1
  <2>3. g = [pos \in N .. N |-> LoopStep(g, pos)]
    BY <1>1, <2>2
  <2>4. N - 0 = N
    BY <1>1
  <2> HIDE DEF g
  <2> QED BY <2>3, <2>4
<1>4. ASSUME NEW n \in Reached
      PROVE  n + 1 \in Reached
  <2> SUFFICES ASSUME n + 1 <= N
               PROVE  \E g : g = [pos \in N - (n + 1) .. N |-> LoopStep(g, pos)]
    OBVIOUS
  <2>1. PICK g : g = [pos \in N - n .. N |-> LoopStep(g, pos)]
    BY <1>1
  <2> DEFINE m == N - (n + 1)
             h == [pos \in m .. N |-> IF pos = m THEN LoopStep(g, m) ELSE g[pos]]
  <2>2. m \in Nat /\ m + 1 = N - n /\ m < N
    BY <1>1
  <2> HIDE DEF m
  <2>3. \A i \in m + 1 .. N : h[i] = g[i] /\ g[i] = LoopStep(g, i)
    <3> SUFFICES ASSUME NEW i \in m + 1 .. N
                 PROVE  h[i] = g[i] /\ g[i] = LoopStep(g, i)
      OBVIOUS
    <3>1. i \in N - n .. N /\ i \in m .. N /\ i # m
      BY <1>1, <2>2
    <3> QED BY <2>1, <3>1
  <2>4. ASSUME NEW pos \in m .. N
        PROVE  LoopStep(h, pos) = LoopStep(g, pos)
    <3>1. \A i \in pos + 1 .. N : h[i] = g[i]
      BY <1>1, <2>2, <2>3
    <3>2. pos \in 0 .. N
      BY <1>1, <2>2
    <3> HIDE DEF h
    <3> QED BY <1>2, <3>1, <3>2
  <2>5. \A pos \in m .. N : h[pos] = LoopStep(h, pos)
    <3> SUFFICES ASSUME NEW pos \in m .. N
                 PROVE  h[pos] = LoopStep(h, pos)
      OBVIOUS
    <3>1. CASE pos = m
      BY <2>4, <3>1
    <3>2. CASE pos # m
      <4>1. pos \in m + 1 .. N
        BY <1>1, <2>2, <3>2
      <4> HIDE DEF h
      <4> QED BY <2>3, <2>4, <4>1
    <3> QED BY <3>1, <3>2
  <2>6. h = [pos \in m .. N |-> LoopStep(h, pos)]
    BY <2>5
  <2> HIDE DEF h
  <2> QED BY <2>6 DEF m
<1>5. \E g : g = [pos \in 0 .. N |-> LoopStep(g, pos)]
  <2>1. Reached \in SUBSET Nat
    OBVIOUS
  <2>2. N \in Reached
    <3> HIDE DEF Reached
    <3> QED BY <1>1, <1>3, <1>4, <2>1, Induction
  <2>3. N - N = 0
    BY <1>1
  <2> QED BY <1>1, <2>2, <2>3
<1> DEFINE from == LoopFrom(buf, odd)
<1>6. from = [pos \in 0 .. N |-> LoopStep(from, pos)]
  BY <1>5 DEF LoopFrom, LoopStep, N
<1> HIDE DEF from
<1>7. \A pos \in 0 .. N : from[pos] = LoopStep(from, pos)
  BY <1>6
<1> QED BY <1>7 DEF from, LoopStep, N

\* Units in the order in which they were sent.
Rank(u)   == FrameLen * u.n + u.at
Rising(s) == \A i, j \in DOMAIN s : i < j => Rank(s[i]) < Rank(s[j])

LEMMA FrameUnits ==
  ASSUME NEW n \in Nat
  PROVE  /\ Frame(n) \in Seq(Units) /\ Len(Frame(n)) = FrameLen
         /\ \A i \in 1 .. FrameLen : Frame(n)[i] \in Units /\ Frame(n)[i].n = n /\ Frame(n)[i].at = i
  BY DEF Frame, FrameLen, Units

LEMMA UnitIs ==
  ASSUME NEW u \in Units
  PROVE  u = [n |-> u.n, at |-> u.at] /\ u.n \in Nat /\ u.at \in 1 .. 4
  BY DEF Units, FrameLen

LEMMA ParsedBody ==
  ASSUME NEW body \in Seq(Units)
  PROVE  \/ Parsed(body) = <<>>
         \/ /\ Len(body) = 2 /\ body[1].n = body[2].n /\ body[2].at = 4
            /\ Parsed(body) = <<body[1].n>>
<1>1. CASE Len(body) = 2 /\ body = SubSeq(Frame(body[1].n), 3, 4)
  <2> DEFINE n == body[1].n
             t == SubSeq(Frame(n), 3, 4)
  <2>1. n \in Nat
    <3>1. 1 \in 1 .. Len(body)
      BY <1>1
    <3>2. body[1] \in Units
      BY <3>1, ElementOfSeq
    <3> QED BY <3>2, UnitIs
  <2> HIDE DEF n
  <2>2. \A i \in 3 .. 4 : Frame(n)[i] \in Units
    BY <2>1, FrameUnits DEF FrameLen
  <2>3. t[2] = Frame(n)[4]
    <3>1. \A i \in 1 .. 4 - 3 + 1 : t[i] = Frame(n)[3 + i - 1]
      BY <2>2, SubSeqProperties
    <3> QED BY <3>1
  <2>4. body[2].n = n /\ body[2].at = 4
    BY <1>1, <2>1, <2>3, FrameUnits DEF FrameLen, n
  <2> QED BY <1>1, <2>4 DEF Parsed, FrameLen, HeaderLen, n
<1>2. CASE ~(Len(body) = 2 /\ body = SubSeq(Frame(body[1].n), 3, 4))
  BY <1>2 DEF Parsed, FrameLen, HeaderLen
<1> QED BY <1>1, <1>2

LEMMA WholeBody ==
  ASSUME NEW body \in Seq(Units), NEW n \in Nat, Len(body) = 2,
         body[1].n = n, body[1].at = 3, body[2].n = n, body[2].at = 4
  PROVE  Parsed(body) = <<n>>
<1> DEFINE t == SubSeq(Frame(n), 3, 4)
<1>1. \A i \in 3 .. 4 : Frame(n)[i] \in Units
  BY FrameUnits DEF FrameLen
<1>2. t \in Seq(Units) /\ Len(t) = 2 /\ t[1] = Frame(n)[3] /\ t[2] = Frame(n)[4]
  <2>1. /\ t \in Seq(Units) /\ Len(t) = IF 3 <= 4 THEN 4 - 3 + 1 ELSE 0
        /\ \A i \in 1 .. 4 - 3 + 1 : t[i] = Frame(n)[3 + i - 1]
    BY <1>1, SubSeqProperties
  <2> HIDE DEF t
  <2> QED BY <2>1
<1> HIDE DEF t
<1>3. body[1] = t[1]
  <2>1. t[1] \in Units /\ t[1].n = n /\ t[1].at = 3
    BY <1>2, FrameUnits DEF FrameLen
  <2>2. body[1] \in Units
    OBVIOUS
  <2> QED BY <2>1, <2>2, UnitIs
<1>4. body[2] = t[2]
  <2>1. t[2] \in Units /\ t[2].n = n /\ t[2].at = 4
    BY <1>2, FrameUnits DEF FrameLen
  <2>2. body[2] \in Units
    <3>1. 2 \in 1 .. Len(body)
      OBVIOUS
    <3> QED BY <3>1, ElementOfSeq
  <2> QED BY <2>1, <2>2, UnitIs
<1>5. body = t
  <2>1. \A i \in 1 .. Len(body) : body[i] = t[i]
    BY <1>3, <1>4
  <2> QED BY <1>2, <2>1, SeqEqual
<1> QED BY <1>5 DEF Parsed, FrameLen, HeaderLen, t

LEMMA BodyUnits ==
  ASSUME NEW buf \in Seq(Units), NEW odd \in Nat, NEW pos \in 0 .. Len(buf),
         ~(Len(buf) - pos < HeaderLen + SizeAt(buf, odd, pos))
  PROVE  LET body == BodyAt(buf, odd, pos) IN
         /\ body \in Seq(Units) /\ Len(body) = SizeAt(buf, odd, pos)
         /\ \A i \in 1 .. SizeAt(buf, odd, pos) : body[i] = buf[pos + 2 + i]
<1> DEFINE size == SizeAt(buf, odd, pos)
           a == pos + HeaderLen + 1
           z == pos + HeaderLen + size
           body == SubSeq(buf, a, z)
<1>1. size \in Nat /\ pos \in Nat /\ Len(buf) \in Nat
  BY SizeTyped
<1> HIDE DEF size
<1>2. a \in Nat /\ z \in Nat /\ a = pos + 3 /\ z = pos + 2 + size /\ z <= Len(buf)
  BY <1>1 DEF HeaderLen, size
<1>3. \A i \in a .. z : buf[i] \in Units
  BY <1>1, <1>2
<1>4. BodyAt(buf, odd, pos) = body
  BY DEF BodyAt, size
<1> HIDE DEF a, z
<1>5. /\ body \in Seq(Units) /\ Len(body) = IF a <= z THEN z - a + 1 ELSE 0
      /\ \A i \in 1 .. z - a + 1 : body[i] = buf[a + i - 1]
  BY <1>2, <1>3, SubSeqProperties
<1> HIDE DEF body
<1>6. Len(body) = size
  BY <1>1, <1>2, <1>5
<1>7. ASSUME NEW i \in 1 .. size
      PROVE  body[i] = buf[pos + 2 + i]
  <2>1. i \in 1 .. z - a + 1 /\ a + i - 1 = pos + 2 + i
    BY <1>1, <1>2
  <2> QED BY <1>5, <2>1
<1> QED BY <1>4, <1>5, <1>6, <1>7 DEF size

Conns == [down : Seq(Units), m_buffer : Seq(Units), heard : Seq(Nat), since : Nat, odd : Nat,
          up : Seq(Units), cbuf : Seq(Units), served : Seq(Nat), first : Nat]

DownStream(c) == c.m_buffer \o c.down
UpStream(c)   == c.cbuf \o c.up

\* What was taken out is earlier than what is on its way.
Follows(taken, s, upto) ==
  /\ Rising(s)
  /\ \A j \in DOMAIN s : s[j].n <= upto
  /\ \A i \in DOMAIN taken : taken[i] <= upto
  /\ \A i \in DOMAIN taken, j \in DOMAIN s : taken[i] < s[j].n

InRow(s, before) == \A i \in DOMAIN s : Rank(s[i]) = FrameLen * (before + 1) + i

\* None was cut: the stream holds the frames behind the last one taken out.
Steady(taken, before, s, buf, upto) ==
  /\ \A i \in DOMAIN taken : taken[i] = before + i
  /\ InRow(s, before + Len(taken))
  /\ Len(s) + FrameLen * (before + Len(taken)) = FrameLen * upto
  /\ Len(buf) < FrameLen

Unread(c) == c.down = <<>> /\ c.m_buffer = <<>> /\ c.heard = <<>> /\ c.odd = 0

LEMMA Behind ==
  ASSUME NEW u \in Units, NEW v \in Units, u.at = FrameLen, Rank(u) < Rank(v)
  PROVE  u.n < v.n
BY UnitIs DEF Rank, FrameLen

\* A read moves n units of the pipe to what is held, and pos of them go.
Reading(T, held, pipe, n, pos) ==
  LET buf  == held \o SubSeq(pipe, 1, n)
      left == Compacted(buf, pos)
      rest == SubSeq(pipe, n + 1, Len(pipe))
      s    == held \o pipe
      t    == left \o rest IN
  /\ buf \in Seq(T) /\ left \in Seq(T) /\ rest \in Seq(T) /\ s \in Seq(T) /\ t \in Seq(T)
  /\ Len(buf) = Len(held) + n /\ Len(left) = Len(buf) - pos
  /\ Len(s) = Len(held) + Len(pipe) /\ Len(t) = Len(s) - pos
  /\ \A i \in 1 .. Len(buf) : buf[i] = s[i]
  /\ \A i \in 1 .. Len(t) : t[i] = s[pos + i]

LEMMA StreamRead ==
  ASSUME NEW T, NEW held \in Seq(T), NEW pipe \in Seq(T), NEW n \in 0 .. Len(pipe),
         NEW pos \in 0 .. Len(held) + n
  PROVE  Reading(T, held, pipe, n, pos)
<1> DEFINE buf  == held \o SubSeq(pipe, 1, n)
           left == Compacted(buf, pos)
           rest == SubSeq(pipe, n + 1, Len(pipe))
           s    == held \o pipe
           t    == left \o rest
           H    == Len(held)
           P    == Len(pipe)
<1>0. H \in Nat /\ P \in Nat /\ n \in Nat /\ n <= P /\ pos \in Nat /\ pos <= H + n
  OBVIOUS
<1>1. /\ SubSeq(pipe, 1, n) \in Seq(T) /\ Len(SubSeq(pipe, 1, n)) = n
      /\ \A i \in 1 .. n : SubSeq(pipe, 1, n)[i] = pipe[i]
  <2>1. \A i \in 1 .. n : pipe[i] \in T
    BY <1>0
  <2> QED BY <1>0, <2>1, SubSeqProperties
<1>2. /\ rest \in Seq(T) /\ Len(rest) = P - n
      /\ \A i \in 1 .. P - n : rest[i] = pipe[n + i]
  <2>1. \A i \in n + 1 .. P : pipe[i] \in T
    BY <1>0
  <2>2. /\ rest \in Seq(T) /\ Len(rest) = IF n + 1 <= P THEN P - (n + 1) + 1 ELSE 0
        /\ \A i \in 1 .. P - (n + 1) + 1 : rest[i] = pipe[(n + 1) + i - 1]
    BY <1>0, <2>1, SubSeqProperties
  <2> HIDE DEF rest
  <2>3. ASSUME NEW i \in 1 .. P - n
        PROVE  rest[i] = pipe[n + i]
    <3>1. i \in 1 .. P - (n + 1) + 1 /\ (n + 1) + i - 1 = n + i
      BY <1>0
    <3> QED BY <2>2, <3>1
  <2> QED BY <1>0, <2>2, <2>3
<1> HIDE DEF rest
<1>3. /\ buf \in Seq(T) /\ Len(buf) = H + n
      /\ \A i \in 1 .. H + n : buf[i] = IF i <= H THEN held[i] ELSE pipe[i - H]
  <2>1. /\ buf \in Seq(T) /\ Len(buf) = Len(held) + Len(SubSeq(pipe, 1, n))
        /\ \A i \in 1 .. Len(held) + Len(SubSeq(pipe, 1, n)) :
             buf[i] = IF i <= Len(held) THEN held[i] ELSE SubSeq(pipe, 1, n)[i - Len(held)]
    BY <1>1, ConcatProperties
  <2> HIDE DEF buf
  <2> QED BY <1>0, <1>1, <2>1
<1> HIDE DEF buf
<1>4. /\ left \in Seq(T) /\ Len(left) = H + n - pos
      /\ \A i \in 1 .. H + n - pos : left[i] = buf[pos + i]
  <2>1. \A i \in pos + 1 .. H + n : buf[i] \in T
    BY <1>0, <1>3
  <2>2. /\ left \in Seq(T) /\ Len(left) = IF pos + 1 <= H + n THEN H + n - (pos + 1) + 1 ELSE 0
        /\ \A i \in 1 .. H + n - (pos + 1) + 1 : left[i] = buf[(pos + 1) + i - 1]
    BY <1>0, <1>3, <2>1, SubSeqProperties DEF Compacted
  <2> HIDE DEF left
  <2>3. ASSUME NEW i \in 1 .. H + n - pos
        PROVE  left[i] = buf[pos + i]
    <3>1. i \in 1 .. H + n - (pos + 1) + 1 /\ (pos + 1) + i - 1 = pos + i
      BY <1>0
    <3> QED BY <2>2, <3>1
  <2> QED BY <1>0, <2>2, <2>3
<1> HIDE DEF left
<1>5. /\ s \in Seq(T) /\ Len(s) = H + P
      /\ \A i \in 1 .. H + P : s[i] = IF i <= H THEN held[i] ELSE pipe[i - H]
  BY ConcatProperties
<1> HIDE DEF s
<1>6. /\ t \in Seq(T) /\ Len(t) = Len(left) + Len(rest)
      /\ \A i \in 1 .. Len(left) + Len(rest) :
           t[i] = IF i <= Len(left) THEN left[i] ELSE rest[i - Len(left)]
  BY <1>2, <1>4, ConcatProperties
<1> HIDE DEF t
<1>7. \A i \in 1 .. Len(buf) : buf[i] = s[i]
  <2> SUFFICES ASSUME NEW i \in 1 .. Len(buf)
               PROVE  buf[i] = s[i]
    OBVIOUS
  <2>1. i \in 1 .. H + n /\ i \in 1 .. H + P
    BY <1>0, <1>3
  <2> QED BY <1>3, <1>5, <2>1
<1>8. Len(t) = Len(s) - pos
  <2>1. Len(left) + Len(rest) = (H + n - pos) + (P - n)
    BY <1>2, <1>4
  <2>2. (H + n - pos) + (P - n) = (H + P) - pos
    BY <1>0
  <2> QED BY <1>5, <1>6, <2>1, <2>2
<1>9. ASSUME NEW i \in 1 .. Len(t)
      PROVE  t[i] = s[pos + i]
  <2> HIDE DEF H, P
  <2>1. CASE i <= Len(left)
    <3>1. i \in 1 .. H + n - pos /\ pos + i \in 1 .. Len(buf)
      BY <1>0, <1>3, <1>4, <2>1
    <3>2. t[i] = left[i]
      BY <1>2, <1>4, <1>6, <1>9, <2>1
    <3> QED BY <1>4, <1>7, <3>1, <3>2
  <2>2. CASE ~(i <= Len(left))
    <3> DEFINE j == i - Len(left)
    <3>1. j \in 1 .. P - n /\ pos + i \in 1 .. H + P /\ ~(pos + i <= H) /\ (pos + i) - H = n + j
      BY <1>0, <1>2, <1>4, <1>5, <1>6, <1>8, <2>2
    <3>2. t[i] = rest[j]
      BY <1>0, <1>2, <1>4, <1>6, <2>2
    <3> HIDE DEF j
    <3>3. s[pos + i] = pipe[n + j]
      BY <1>5, <3>1
    <3> QED BY <1>2, <3>1, <3>2, <3>3
  <2> QED BY <2>1, <2>2
<1>10. /\ buf \in Seq(T) /\ left \in Seq(T) /\ rest \in Seq(T) /\ s \in Seq(T) /\ t \in Seq(T)
       /\ Len(buf) = Len(held) + n /\ Len(left) = Len(buf) - pos
       /\ Len(s) = Len(held) + Len(pipe) /\ Len(t) = Len(s) - pos
       /\ \A i \in 1 .. Len(buf) : buf[i] = s[i]
       /\ \A i \in 1 .. Len(t) : t[i] = s[pos + i]
  BY <1>2, <1>3, <1>4, <1>5, <1>6, <1>7, <1>8, <1>9
<1> HIDE DEF H, P
<1> QED BY <1>10 DEF buf, left, rest, s, t, Reading

\* What the loop takes out of a rising buffer, from a position on.
Increased(l, buf, pos) ==
  /\ l \in [messages : Seq(Nat), pos : pos .. Len(buf), ok : BOOLEAN]
  /\ Increasing(l.messages)
  /\ \A i \in DOMAIN l.messages : \E j \in pos + 1 .. l.pos :
       l.messages[i] = buf[j].n /\ buf[j].at = FrameLen

LEMMA IncreasedEmpty ==
  ASSUME NEW buf \in Seq(Units), NEW pos \in 0 .. Len(buf)
  PROVE  Increased(LoopEnded(pos), buf, pos) /\ Increased(LoopFailed(pos), buf, pos)
<1>1. <<>> \in Seq(Nat) /\ DOMAIN <<>> = {}
  OBVIOUS
<1>2. Increasing(<<>>)
  BY <1>1 DEF Increasing
<1>3. pos \in pos .. Len(buf)
  OBVIOUS
<1>4. Increased(LoopEnded(pos), buf, pos)
  BY <1>1, <1>2, <1>3 DEF Increased, LoopEnded
<1>5. Increased(LoopFailed(pos), buf, pos)
  BY <1>1, <1>2, <1>3 DEF Increased, LoopFailed
<1> QED BY <1>4, <1>5

\* A message in front of what the rest of the loop takes out.
LEMMA InFront ==
  ASSUME NEW m \in Nat, NEW ms \in Seq(Nat)
  PROVE  LET all == <<m>> \o ms IN
         /\ all \in Seq(Nat) /\ Len(all) = Len(ms) + 1 /\ all[1] = m
         /\ \A i \in DOMAIN all : i # 1 => i - 1 \in DOMAIN ms /\ all[i] = ms[i - 1]
<1> DEFINE all == <<m>> \o ms
<1>1. <<m>> \in Seq(Nat) /\ Len(<<m>>) = 1 /\ <<m>>[1] = m
  OBVIOUS
<1>2. /\ all \in Seq(Nat) /\ Len(all) = 1 + Len(ms)
      /\ \A i \in 1 .. 1 + Len(ms) : all[i] = IF i <= 1 THEN <<m>>[i] ELSE ms[i - 1]
  BY <1>1, ConcatProperties
<1> HIDE DEF all
<1> QED BY <1>1, <1>2 DEF all

LEMMA LoopRising ==
  ASSUME NEW buf \in Seq(Units), NEW odd \in Nat, Rising(buf)
  PROVE  Increased(Loop(buf, odd), buf, 0)
<1> DEFINE N == Len(buf)
           from == LoopFrom(buf, odd)
           Good(m) == \A pos \in 0 .. N : N - pos <= m => Increased(from[pos], buf, pos)
           Done == {m \in Nat : Good(m)}
<1>1. N \in Nat /\ DOMAIN buf = 1 .. N
  OBVIOUS
<1>2. \A pos \in 0 .. N : from[pos] = LoopAt(buf, odd, from, pos)
  BY LoopDefined
<1>3. Loop(buf, odd) = from[0]
  BY LoopStarts
<1> HIDE DEF from
<1>4. ASSUME NEW pos \in 0 .. N,
             \A next \in pos + 1 .. N : Increased(from[next], buf, next)
      PROVE  Increased(from[pos], buf, pos)
  <2> DEFINE size == SizeAt(buf, odd, pos)
             next == pos + HeaderLen + size
             body == BodyAt(buf, odd, pos)
             rest == from[next]
  <2>1. size \in Nat /\ pos \in Nat /\ MaxSize \in Nat
    BY SizeTyped DEF MaxSize
  <2>2. CASE size > MaxSize
    BY <1>2, <2>2, LoopAtIs, IncreasedEmpty
  <2>3. CASE size <= MaxSize /\ N - pos < HeaderLen + size
    BY <1>2, <2>3, LoopAtIs, IncreasedEmpty
  <2>4. CASE size <= MaxSize /\ ~(N - pos < HeaderLen + size)
    <3>1. next \in pos + 1 .. N /\ next = pos + 2 + size /\ next \in Nat
      BY <1>1, <2>1, <2>4 DEF HeaderLen
    <3>2. from[pos] = WithMessage(body, rest)
      BY <1>2, <2>4, LoopAtIs
    <3>3. Increased(rest, buf, next)
      BY <1>4, <3>1
    <3>4. /\ body \in Seq(Units) /\ Len(body) = size
          /\ \A i \in 1 .. size : body[i] = buf[pos + 2 + i]
      BY <2>4, BodyUnits
    <3> HIDE DEF body, rest, next, size
    <3>5. rest \in [messages : Seq(Nat), pos : next .. N, ok : BOOLEAN] /\ rest.pos \in pos .. N
      BY <1>1, <2>1, <3>1, <3>3 DEF Increased
    <3>6. CASE Parsed(body) = <<>>
      <4>1. <<>> \o rest.messages = rest.messages
        BY <3>5
      <4>2. from[pos] = rest
        BY <3>2, <3>5, <3>6, <4>1 DEF WithMessage
      <4>3. \A j \in next + 1 .. rest.pos : j \in pos + 1 .. rest.pos
        BY <2>1, <3>1, <3>5
      <4> QED BY <3>3, <3>5, <4>2, <4>3 DEF Increased
    <3>7. CASE /\ Len(body) = 2 /\ body[1].n = body[2].n /\ body[2].at = 4
               /\ Parsed(body) = <<body[1].n>>
      <4> DEFINE m   == body[1].n
                 ms  == rest.messages
                 all == <<m>> \o ms
                 at  == pos + 4
      <4>1. size = 2 /\ next = at /\ at \in pos + 1 .. N /\ at \in 1 .. N
        BY <2>1, <3>1, <3>4, <3>7
      <4>2. body[2] = buf[at] /\ buf[at] \in Units /\ buf[at].n = m /\ buf[at].at = FrameLen
        <5>1. 2 \in 1 .. size /\ pos + 2 + 2 = at
          BY <2>1, <4>1
        <5>2. body[2] = buf[at]
          BY <3>4, <5>1
        <5> QED BY <3>7, <4>1, <5>2 DEF FrameLen
      <4>3. m \in Nat /\ ms \in Seq(Nat)
        BY <3>5, <4>2, UnitIs
      <4> HIDE DEF m, ms
      <4>4. from[pos] = [rest EXCEPT !.messages = all]
        BY <3>2, <3>7 DEF WithMessage, m, ms
      <4>5. /\ all \in Seq(Nat) /\ Len(all) = Len(ms) + 1 /\ all[1] = m
            /\ \A i \in DOMAIN all : i # 1 => i - 1 \in DOMAIN ms /\ all[i] = ms[i - 1]
        BY <4>3, InFront
      <4> HIDE DEF all
      <4>6. /\ from[pos] \in [messages : Seq(Nat), pos : pos .. N, ok : BOOLEAN]
            /\ from[pos].messages = all /\ from[pos].pos = rest.pos
        BY <3>5, <4>4, <4>5
      <4>7. ASSUME NEW i \in DOMAIN ms
            PROVE  /\ m < ms[i]
                   /\ \E j \in pos + 1 .. rest.pos : ms[i] = buf[j].n /\ buf[j].at = FrameLen
        <5>1. PICK j \in next + 1 .. rest.pos : ms[i] = buf[j].n /\ buf[j].at = FrameLen
          BY <3>3 DEF Increased, ms
        <5>2. j \in pos + 1 .. rest.pos /\ j \in 1 .. N /\ at < j
          BY <1>1, <2>1, <3>1, <3>5, <4>1
        <5>3. Rank(buf[at]) < Rank(buf[j])
          BY <1>1, <4>1, <5>2 DEF Rising
        <5>4. buf[j] \in Units
          BY <1>1, <5>2
        <5>5. buf[at].n < buf[j].n
          BY <4>2, <5>3, <5>4, Behind
        <5> QED BY <4>2, <5>1, <5>2, <5>5
      <4>8. Increasing(all)
        <5> SUFFICES ASSUME NEW i \in DOMAIN all, NEW j \in DOMAIN all, i < j
                     PROVE  all[i] < all[j]
          BY DEF Increasing
        <5>1. i \in Nat /\ j \in Nat /\ i >= 1 /\ j # 1
          BY <4>5
        <5>2. j - 1 \in DOMAIN ms /\ all[j] = ms[j - 1]
          BY <4>5, <5>1
        <5>3. CASE i = 1
          BY <4>5, <4>7, <5>2, <5>3
        <5>4. CASE i # 1
          <6>1. i - 1 \in DOMAIN ms /\ all[i] = ms[i - 1] /\ i - 1 < j - 1
            BY <4>5, <5>1, <5>4
          <6> QED BY <3>3, <5>2, <6>1 DEF Increased, Increasing, ms
        <5> QED BY <5>3, <5>4
      <4>9. ASSUME NEW i \in DOMAIN all
            PROVE  \E j \in pos + 1 .. rest.pos : all[i] = buf[j].n /\ buf[j].at = FrameLen
        <5>1. CASE i = 1
          <6>1. at \in pos + 1 .. rest.pos
            BY <2>1, <3>1, <3>5, <4>1
          <6> QED BY <4>2, <4>5, <5>1, <6>1
        <5>2. CASE i # 1
          BY <4>5, <4>7, <5>2
        <5> QED BY <5>1, <5>2
      <4> QED BY <4>6, <4>8, <4>9 DEF Increased
    <3> QED BY <3>4, <3>6, <3>7, ParsedBody
  <2> QED BY <2>1, <2>2, <2>3, <2>4
<1>5. 0 \in Done
  <2>1. ASSUME NEW pos \in 0 .. N, N - pos <= 0
        PROVE  Increased(from[pos], buf, pos)
    <3>1. \A next \in pos + 1 .. N : FALSE
      BY <1>1, <2>1
    <3> QED BY <1>4, <3>1
  <2> QED BY <2>1
<1>6. ASSUME NEW m \in Done
      PROVE  m + 1 \in Done
  <2>1. ASSUME NEW pos \in 0 .. N, N - pos <= m + 1
        PROVE  Increased(from[pos], buf, pos)
    <3>1. ASSUME NEW next \in pos + 1 .. N
          PROVE  Increased(from[next], buf, next)
      <4>1. next \in 0 .. N /\ N - next <= m
        BY <1>1, <2>1
      <4> QED BY <4>1
    <3> QED BY <1>4, <3>1
  <2> QED BY <2>1
<1>7. N \in Done
  <2>1. Done \in SUBSET Nat
    OBVIOUS
  <2> HIDE DEF Done
  <2> QED BY <1>1, <1>5, <1>6, <2>1, Induction
<1>8. 0 \in 0 .. N /\ N - 0 <= N
  BY <1>1
<1>9. Increased(from[0], buf, 0)
  BY <1>7, <1>8
<1> QED BY <1>3, <1>9

\* Where a unit of frames in a row stands says what it is.
LEMMA UnitAt ==
  ASSUME NEW u \in Units, NEW before \in Nat, NEW f \in Nat, NEW r \in 1 .. FrameLen,
         Rank(u) = FrameLen * (before + 1) + FrameLen * f + r
  PROVE  u.n = before + 1 + f /\ u.at = r
BY UnitIs DEF Rank, FrameLen

LEMMA WholeFrames ==
  ASSUME NEW N \in Nat
  PROVE  \E q \in Nat : 4 * q <= N /\ N < 4 * q + 4
<1> DEFINE S == {n \in Nat : \E q \in Nat : 4 * q <= n /\ n < 4 * q + 4}
<1>1. 0 \in S
  <2>1. 0 \in Nat /\ 4 * 0 <= 0 /\ 0 < 4 * 0 + 4
    OBVIOUS
  <2> QED BY <2>1
<1>2. ASSUME NEW n \in S
      PROVE  n + 1 \in S
  <2>1. PICK q \in Nat : 4 * q <= n /\ n < 4 * q + 4
    OBVIOUS
  <2>2. CASE n + 1 < 4 * q + 4
    <3>1. 4 * q <= n + 1
      BY <2>1
    <3> QED BY <2>2, <3>1
  <2>3. CASE ~(n + 1 < 4 * q + 4)
    <3> DEFINE r == q + 1
    <3>1. r \in Nat /\ 4 * r <= n + 1 /\ n + 1 < 4 * r + 4
      BY <2>1, <2>3
    <3> HIDE DEF r
    <3> QED BY <3>1
  <2>4. n + 1 < 4 * q + 4 \/ ~(n + 1 < 4 * q + 4)
    OBVIOUS
  <2> HIDE DEF S
  <2> QED BY <2>2, <2>3, <2>4
<1>3. N \in S
  <2>1. S \in SUBSET Nat
    OBVIOUS
  <2> HIDE DEF S
  <2> QED BY <1>1, <1>2, <2>1, Induction
<1> QED BY <1>3

\* The loop in step: it takes out the whole frames and leaves the part of one.
LEMMA LoopInStep ==
  ASSUME NEW buf \in Seq(Units), NEW odd \in Nat, NEW before \in Nat, InRow(buf, before)
  PROVE  LET l == Loop(buf, odd) IN
         /\ l.ok /\ l.pos = FrameLen * Len(l.messages)
         /\ l.pos <= Len(buf) /\ Len(buf) < l.pos + FrameLen
         /\ \A i \in DOMAIN l.messages : l.messages[i] = before + i
<1> DEFINE N == Len(buf)
           from == LoopFrom(buf, odd)
<1>1. N \in Nat /\ DOMAIN buf = 1 .. N
  OBVIOUS
<1>2. \A pos \in 0 .. N : from[pos] = LoopAt(buf, odd, from, pos)
  BY LoopDefined
<1>3. Loop(buf, odd) = from[0]
  BY LoopStarts
<1>4. PICK q \in Nat : 4 * q <= N /\ N < 4 * q + 4
  BY <1>1, WholeFrames
<1> DEFINE Whole(l, m) ==
             /\ l \in [messages : Seq(Nat), pos : {4 * q}, ok : {TRUE}]
             /\ Len(l.messages) = m
             /\ \A i \in DOMAIN l.messages : l.messages[i] = before + (q - m) + i
           Done == {m \in Nat : m <= q => Whole(from[4 * (q - m)], m)}
<1> HIDE DEF from
<1>5. ASSUME NEW f \in Nat, NEW r \in 1 .. 4, 4 * f + r <= N
      PROVE  buf[4 * f + r] \in Units /\ buf[4 * f + r].n = before + 1 + f /\ buf[4 * f + r].at = r
  <2>1. 4 * f + r \in 1 .. N
    BY <1>1, <1>5
  <2>2. buf[4 * f + r] \in Units
    BY <1>1, <2>1
  <2>3. Rank(buf[4 * f + r]) = FrameLen * (before + 1) + (4 * f + r)
    BY <1>1, <2>1 DEF InRow
  <2>4. Rank(buf[4 * f + r]) = FrameLen * (before + 1) + FrameLen * f + r
    BY <2>3 DEF FrameLen
  <2> DEFINE u == buf[4 * f + r]
  <2> HIDE DEF u
  <2>5. r \in 1 .. FrameLen
    BY DEF FrameLen
  <2>6. u \in Units /\ Rank(u) = FrameLen * (before + 1) + FrameLen * f + r
    BY <2>2, <2>4 DEF u
  <2>7. u.n = before + 1 + f /\ u.at = r
    BY <2>5, <2>6, UnitAt
  <2> QED BY <2>2, <2>7 DEF u
<1>6. 0 \in Done
  <2> DEFINE pos == 4 * q
  <2>1. pos \in 0 .. N /\ 4 * (q - 0) = pos
    BY <1>1, <1>4
  <2>2. SizeAt(buf, odd, pos) <= MaxSize /\ N - pos < HeaderLen + SizeAt(buf, odd, pos)
    <3>1. CASE N - pos < 2
      BY <1>1, <1>4, <3>1 DEF SizeAt, HeaderLen, MaxSize
    <3>2. CASE ~(N - pos < 2)
      <4>1. 4 * q + 1 <= N /\ 4 * q + 2 <= N
        BY <1>1, <1>4, <3>2
      <4>2. 1 \in 1 .. 4 /\ 2 \in 1 .. 4
        OBVIOUS
      <4>3. buf[pos + 1].at = 1 /\ buf[pos + 2].at = 2
        BY <1>5, <4>1, <4>2
      <4>4. SizeAt(buf, odd, pos) = 2
        BY <3>2, <4>3 DEF SizeAt, Size, HeaderLen, FrameLen
      <4> QED BY <1>1, <1>4, <4>4 DEF HeaderLen, MaxSize
    <3> QED BY <3>1, <3>2
  <2>3. from[pos] = LoopEnded(pos)
    BY <1>2, <2>1, <2>2, LoopAtIs
  <2>4. <<>> \in Seq(Nat) /\ DOMAIN <<>> = {} /\ Len(<<>>) = 0
    OBVIOUS
  <2>5. Whole(from[pos], 0)
    BY <2>3, <2>4 DEF LoopEnded
  <2> HIDE DEF Whole, pos
  <2> QED BY <2>1, <2>5
<1>7. ASSUME NEW m \in Done
      PROVE  m + 1 \in Done
  <2> HIDE DEF Whole
  <2> SUFFICES ASSUME m + 1 <= q
               PROVE  Whole(from[4 * (q - (m + 1))], m + 1)
    OBVIOUS
  <2> USE DEF Whole
  <2> DEFINE f == q - (m + 1)
             pos == 4 * f
             rest == from[4 * (q - m)]
             size == SizeAt(buf, odd, pos)
             body == BodyAt(buf, odd, pos)
  <2>0. m \in Nat /\ m <= q /\ Whole(rest, m)
    <3>1. m \in Nat /\ m <= q
      OBVIOUS
    <3> HIDE DEF Whole
    <3> QED BY <3>1
  <2>1. f \in Nat /\ 4 * f + 4 <= N /\ pos \in 0 .. N /\ 4 * (q - m) = pos + 4 /\ q - m = f + 1
    BY <1>1, <1>4, <2>0
  <2> HIDE DEF f
  <2>2. /\ buf[4 * f + 1].at = 1 /\ buf[4 * f + 2].at = 2
        /\ buf[4 * f + 3].at = 3 /\ buf[4 * f + 4].at = 4
        /\ buf[4 * f + 3].n = before + 1 + f /\ buf[4 * f + 4].n = before + 1 + f
    <3>1. 1 \in 1 .. 4 /\ 2 \in 1 .. 4 /\ 3 \in 1 .. 4 /\ 4 \in 1 .. 4
      OBVIOUS
    <3>2. 4 * f + 1 <= N /\ 4 * f + 2 <= N /\ 4 * f + 3 <= N
      BY <1>1, <2>1
    <3> QED BY <1>5, <2>1, <3>1, <3>2
  <2>3. size = 2 /\ ~(N - pos < HeaderLen + size) /\ size <= MaxSize
    <3>1. ~(N - pos < 2)
      BY <1>1, <2>1
    <3>2. size = 2
      BY <2>2, <3>1 DEF SizeAt, Size, HeaderLen, FrameLen
    <3> QED BY <1>1, <2>1, <3>2 DEF HeaderLen, MaxSize
  <2>4. from[pos] = WithMessage(body, rest)
    <3>1. from[pos] = WithMessage(body, from[pos + HeaderLen + size])
      BY <1>2, <2>1, <2>3, LoopAtIs
    <3>2. pos + HeaderLen + size = 4 * (q - m)
      <4> HIDE DEF size
      <4> QED BY <2>1, <2>3 DEF HeaderLen
    <3> QED BY <3>1, <3>2
  <2>5. /\ body \in Seq(Units) /\ Len(body) = 2
        /\ body[1] = buf[4 * f + 3] /\ body[2] = buf[4 * f + 4]
    <3>1. /\ body \in Seq(Units) /\ Len(body) = size
          /\ \A i \in 1 .. size : body[i] = buf[pos + 2 + i]
      BY <2>1, <2>3, BodyUnits
    <3> HIDE DEF body, size
    <3>2. 1 \in 1 .. size /\ 2 \in 1 .. size /\ pos + 2 + 1 = 4 * f + 3 /\ pos + 2 + 2 = 4 * f + 4
      BY <2>1, <2>3
    <3> QED BY <2>3, <3>1, <3>2
  <2> DEFINE n == before + 1 + f
             ms == rest.messages
             all == <<n>> \o ms
  <2>6. n \in Nat
    BY <2>1
  <2> HIDE DEF body, n
  <2>7. Parsed(body) = <<n>>
    BY <2>2, <2>5, <2>6, WholeBody DEF n
  <2> HIDE DEF rest
  <2>8. /\ rest \in [messages : Seq(Nat), pos : {4 * q}, ok : {TRUE}]
        /\ ms \in Seq(Nat) /\ Len(ms) = m /\ \A i \in DOMAIN ms : ms[i] = before + (q - m) + i
    BY <2>0
  <2> HIDE DEF ms
  <2>9. from[pos] = [rest EXCEPT !.messages = all]
    BY <2>4, <2>7 DEF WithMessage, ms
  <2>10. /\ all \in Seq(Nat) /\ Len(all) = Len(ms) + 1 /\ all[1] = n
         /\ \A i \in DOMAIN all : i # 1 => i - 1 \in DOMAIN ms /\ all[i] = ms[i - 1]
    BY <2>6, <2>8, InFront
  <2> HIDE DEF all
  <2>11. /\ from[pos] \in [messages : Seq(Nat), pos : {4 * q}, ok : {TRUE}]
         /\ from[pos].messages = all
    BY <2>8, <2>9, <2>10
  <2>12. ASSUME NEW i \in DOMAIN all
         PROVE  all[i] = before + (q - (m + 1)) + i
    <3>1. CASE i = 1
      BY <2>10, <3>1 DEF n, f
    <3>2. CASE i # 1
      <4>1. i - 1 \in DOMAIN ms /\ all[i] = ms[i - 1] /\ i \in Nat
        BY <2>10, <3>2
      <4>2. all[i] = before + (q - m) + (i - 1)
        BY <2>8, <4>1
      <4> QED BY <2>0, <4>1, <4>2
    <3> QED BY <3>1, <3>2
  <2>13. Whole(from[pos], m + 1)
    BY <2>8, <2>10, <2>11, <2>12
  <2> HIDE DEF Whole
  <2> QED BY <2>13 DEF f
<1>8. q \in Done
  <2>1. Done \in SUBSET Nat
    OBVIOUS
  <2> HIDE DEF Done
  <2> QED BY <1>6, <1>7, <2>1, Induction
<1>9. Whole(from[0], q)
  <2>1. q <= q /\ 4 * (q - q) = 0
    OBVIOUS
  <2> HIDE DEF Whole
  <2> QED BY <1>8, <2>1
<1>10. q - q = 0
  OBVIOUS
<1> DEFINE l == from[0]
<1> HIDE DEF l
<1>11. /\ l \in [messages : Seq(Nat), pos : {4 * q}, ok : {TRUE}] /\ Len(l.messages) = q
       /\ \A i \in DOMAIN l.messages : l.messages[i] = before + (q - q) + i
  BY <1>9 DEF l
<1>12. \A i \in DOMAIN l.messages : l.messages[i] = before + i
  BY <1>10, <1>11
<1>13. l.ok /\ l.pos = FrameLen * Len(l.messages) /\ l.pos <= Len(buf) /\ Len(buf) < l.pos + FrameLen
  BY <1>4, <1>11 DEF FrameLen
<1> QED BY <1>3, <1>12, <1>13 DEF l

\* Messages put behind the ones taken before.
LEMMA TakenOn ==
  ASSUME NEW taken \in Seq(Nat), NEW ms \in Seq(Nat), NEW k \in 0 .. Len(ms)
  PROVE  LET all == taken \o SubSeq(ms, 1, k) IN
         /\ all \in Seq(Nat) /\ Len(all) = Len(taken) + k
         /\ \A i \in 1 .. Len(taken) : all[i] = taken[i]
         /\ \A i \in 1 .. k : all[Len(taken) + i] = ms[i]
<1> DEFINE some == SubSeq(ms, 1, k)
           all  == taken \o some
<1>0. Len(taken) \in Nat /\ k \in Nat /\ Len(ms) \in Nat /\ k <= Len(ms)
  OBVIOUS
<1>1. some \in Seq(Nat) /\ Len(some) = k /\ \A i \in 1 .. k : some[i] = ms[i]
  <2>1. \A i \in 1 .. k : ms[i] \in Nat
    BY <1>0
  <2> QED BY <1>0, <2>1, SubSeqProperties
<1> HIDE DEF some
<1>2. /\ all \in Seq(Nat) /\ Len(all) = Len(taken) + Len(some)
      /\ \A i \in 1 .. Len(taken) + Len(some) :
           all[i] = IF i <= Len(taken) THEN taken[i] ELSE some[i - Len(taken)]
  BY <1>1, ConcatProperties
<1> HIDE DEF all
<1>3. \A i \in 1 .. Len(taken) : all[i] = taken[i]
  BY <1>0, <1>1, <1>2
<1>4. ASSUME NEW i \in 1 .. k
      PROVE  all[Len(taken) + i] = ms[i]
  <2>1. Len(taken) + i \in 1 .. Len(taken) + Len(some) /\ ~(Len(taken) + i <= Len(taken))
        /\ (Len(taken) + i) - Len(taken) = i
    BY <1>0, <1>1
  <2> QED BY <1>1, <1>2, <2>1
<1> QED BY <1>1, <1>2, <1>3, <1>4 DEF all, some

LEMMA TakenAll ==
  ASSUME NEW ms \in Seq(Nat)
  PROVE  SubSeq(ms, 1, Len(ms)) = ms
<1> DEFINE some == SubSeq(ms, 1, Len(ms))
<1>1. some \in Seq(Nat) /\ Len(some) = Len(ms) /\ \A i \in 1 .. Len(ms) : some[i] = ms[i]
  <2>1. \A i \in 1 .. Len(ms) : ms[i] \in Nat
    OBVIOUS
  <2> QED BY <2>1, SubSeqProperties
<1> HIDE DEF some
<1>2. some = ms
  BY <1>1, SeqEqual
<1> QED BY <1>2 DEF some

LEMMA TakenRises ==
  ASSUME NEW taken \in Seq(Nat), NEW ms \in Seq(Nat), NEW k \in 0 .. Len(ms),
         Increasing(taken), Increasing(ms),
         \A i \in DOMAIN taken, j \in DOMAIN ms : taken[i] < ms[j]
  PROVE  Increasing(taken \o SubSeq(ms, 1, k))
<1> DEFINE all == taken \o SubSeq(ms, 1, k)
           T   == Len(taken)
<1>1. /\ all \in Seq(Nat) /\ Len(all) = T + k
      /\ \A i \in 1 .. T : all[i] = taken[i]
      /\ \A i \in 1 .. k : all[T + i] = ms[i]
  BY TakenOn
<1> HIDE DEF all
<1>2. T \in Nat /\ k \in Nat /\ DOMAIN taken = 1 .. T /\ 1 .. k \subseteq DOMAIN ms
  OBVIOUS
<1> HIDE DEF T
<1> SUFFICES Increasing(all)
  BY DEF all
<1>5. DOMAIN all = 1 .. T + k
  BY <1>1
<1> SUFFICES ASSUME NEW i \in 1 .. T + k, NEW j \in 1 .. T + k, i < j
             PROVE  all[i] < all[j]
  BY <1>5 DEF Increasing
<1>3. CASE j <= T
  <2>1. i \in 1 .. T /\ j \in 1 .. T
    BY <1>2, <1>3
  <2> QED BY <1>1, <1>2, <2>1 DEF Increasing
<1>4. CASE ~(j <= T)
  <2> DEFINE b == j - T
  <2>1. b \in 1 .. k /\ j = T + b
    BY <1>2, <1>4
  <2> HIDE DEF b
  <2>2. CASE i <= T
    <3>1. i \in 1 .. T
      BY <1>2, <2>2
    <3> QED BY <1>1, <1>2, <2>1, <3>1
  <2>3. CASE ~(i <= T)
    <3> DEFINE a == i - T
    <3>1. a \in 1 .. k /\ i = T + a /\ a < b
      BY <1>2, <2>1, <2>3
    <3> HIDE DEF a
    <3> QED BY <1>1, <1>2, <2>1, <3>1 DEF Increasing
  <2> QED BY <2>2, <2>3
<1> QED BY <1>3, <1>4

\* A read, whatever the stream: what it takes out is later than all before.
LEMMA ReadFollows ==
  ASSUME NEW held \in Seq(Units), NEW pipe \in Seq(Units), NEW n \in 0 .. Len(pipe),
         NEW odd \in Nat, NEW taken \in Seq(Nat), NEW upto \in Nat,
         Increasing(taken), Follows(taken, held \o pipe, upto)
  PROVE  LET l    == Loop(held \o SubSeq(pipe, 1, n), odd)
             left == Compacted(held \o SubSeq(pipe, 1, n), l.pos)
             rest == SubSeq(pipe, n + 1, Len(pipe)) IN
         /\ l.messages \in Seq(Nat) /\ left \in Seq(Units) /\ rest \in Seq(Units)
         /\ \A k \in 0 .. Len(l.messages) : /\ taken \o SubSeq(l.messages, 1, k) \in Seq(Nat)
                                            /\ Increasing(taken \o SubSeq(l.messages, 1, k))
         /\ Follows(taken \o l.messages, left \o rest, upto)
<1> DEFINE buf  == held \o SubSeq(pipe, 1, n)
           l    == Loop(buf, odd)
           left == Compacted(buf, l.pos)
           rest == SubSeq(pipe, n + 1, Len(pipe))
           s    == held \o pipe
           t    == left \o rest
           ms   == l.messages
           pos  == l.pos
<1>0. Len(held) \in Nat /\ Len(pipe) \in Nat /\ n \in Nat /\ n <= Len(pipe) /\ 0 \in 0 .. Len(held) + n
  OBVIOUS
<1>1. /\ buf \in Seq(Units) /\ s \in Seq(Units) /\ Len(buf) = Len(held) + n
      /\ Len(s) = Len(held) + Len(pipe)
      /\ \A i \in 1 .. Len(buf) : buf[i] = s[i]
  <2>1. Reading(Units, held, pipe, n, 0)
    BY <1>0, StreamRead
  <2> QED BY <2>1 DEF Reading
<1>2. Rising(s) /\ \A j \in DOMAIN s : s[j].n <= upto
  BY DEF Follows
<1>3. \A i \in DOMAIN taken : taken[i] <= upto /\ \A j \in DOMAIN s : taken[i] < s[j].n
  BY DEF Follows
<1> HIDE DEF s, buf
<1>4. Len(buf) \in Nat /\ Len(s) \in Nat /\ Len(buf) <= Len(s)
      /\ DOMAIN s = 1 .. Len(s) /\ DOMAIN buf = 1 .. Len(buf)
  BY <1>0, <1>1
<1>5. Rising(buf)
  <2>1. \A i \in DOMAIN buf : i \in DOMAIN s /\ buf[i] = s[i]
    BY <1>1, <1>4
  <2> QED BY <1>2, <2>1 DEF Rising
<1>6. Increased(l, buf, 0)
  BY <1>1, <1>5, LoopRising
<1> HIDE DEF l
<1>7. /\ l \in [messages : Seq(Nat), pos : 0 .. Len(buf), ok : BOOLEAN]
      /\ ms \in Seq(Nat) /\ pos \in 0 .. Len(held) + n /\ Increasing(ms)
  BY <1>1, <1>6 DEF Increased
<1>8. \A i \in DOMAIN ms : \E j \in 1 .. pos : ms[i] = buf[j].n /\ buf[j].at = FrameLen
  <2>1. 0 + 1 = 1
    OBVIOUS
  <2> QED BY <1>6, <2>1 DEF Increased
<1> HIDE DEF ms, pos
<1>9. /\ left \in Seq(Units) /\ rest \in Seq(Units) /\ t \in Seq(Units)
      /\ Len(t) = Len(s) - pos /\ \A i \in 1 .. Len(t) : t[i] = s[pos + i]
  <2>1. Reading(Units, held, pipe, n, pos)
    BY <1>7, StreamRead
  <2> QED BY <2>1 DEF Reading, buf, s, pos
<1> HIDE DEF left, rest, t
<1>10. ASSUME NEW i \in DOMAIN ms
       PROVE  \E j \in 1 .. pos : j \in 1 .. Len(s) /\ ms[i] = s[j].n /\ s[j].at = FrameLen
  <2>1. PICK j \in 1 .. pos : ms[i] = buf[j].n /\ buf[j].at = FrameLen
    BY <1>8
  <2>2. j \in 1 .. Len(buf) /\ j \in 1 .. Len(s)
    BY <1>1, <1>4, <1>7
  <2> QED BY <1>1, <2>1, <2>2
<1>11. \A i \in DOMAIN taken, j \in DOMAIN ms : taken[i] < ms[j]
  BY <1>3, <1>4, <1>10
<1>12. ASSUME NEW k \in 0 .. Len(ms)
       PROVE  taken \o SubSeq(ms, 1, k) \in Seq(Nat) /\ Increasing(taken \o SubSeq(ms, 1, k))
  BY <1>7, <1>11, TakenOn, TakenRises
<1>13. Follows(taken \o ms, t, upto)
  <2> DEFINE all == taken \o ms
             T   == Len(taken)
             M   == Len(ms)
  <2>1. M \in Nat /\ T \in Nat /\ DOMAIN taken = 1 .. T /\ DOMAIN ms = 1 .. M /\ M \in 0 .. M
    BY <1>7
  <2>2. SubSeq(ms, 1, M) = ms
    BY <1>7, TakenAll
  <2>3. /\ all \in Seq(Nat) /\ Len(all) = T + M
        /\ \A i \in 1 .. T : all[i] = taken[i]
        /\ \A i \in 1 .. M : all[T + i] = ms[i]
    BY <1>7, <2>1, <2>2, TakenOn
  <2> HIDE DEF all, T, M
  <2>4. ASSUME NEW i \in DOMAIN t
        PROVE  pos + i \in DOMAIN s /\ t[i] = s[pos + i] /\ i \in Nat /\ i >= 1
    <3>1. pos \in Nat
      BY <1>0, <1>7
    <3>2. i \in 1 .. Len(t) /\ Len(t) \in Nat
      BY <1>9
    <3> QED BY <1>4, <1>9, <3>1, <3>2
  <2>5. Rising(t)
    <3> SUFFICES ASSUME NEW i \in DOMAIN t, NEW j \in DOMAIN t, i < j
                 PROVE  Rank(t[i]) < Rank(t[j])
      BY DEF Rising
    <3>1. pos + i < pos + j
      BY <1>7, <2>4
    <3> QED BY <1>2, <2>4, <3>1 DEF Rising
  <2>6. \A j \in DOMAIN t : t[j].n <= upto
    BY <1>2, <2>4
  <2>7. ASSUME NEW i \in DOMAIN all
        PROVE  all[i] <= upto /\ \A j \in DOMAIN t : all[i] < t[j].n
    <3>1. CASE i \in 1 .. T
      BY <1>3, <2>1, <2>3, <2>4, <3>1
    <3>2. CASE i \notin 1 .. T
      <4> DEFINE a == i - T
      <4>1. a \in 1 .. M /\ i = T + a
        BY <2>1, <2>3, <3>2
      <4> HIDE DEF a
      <4>2. all[i] = ms[a]
        BY <2>3, <4>1
      <4>3. PICK p \in 1 .. pos : p \in 1 .. Len(s) /\ ms[a] = s[p].n /\ s[p].at = FrameLen
        BY <1>10, <2>1, <4>1
      <4>4. ASSUME NEW j \in DOMAIN t
            PROVE  all[i] < t[j].n
        <5>1. p < pos + j /\ pos + j \in DOMAIN s /\ t[j] = s[pos + j]
          BY <1>7, <2>4
        <5>2. Rank(s[p]) < Rank(s[pos + j])
          BY <1>2, <1>4, <4>3, <5>1 DEF Rising
        <5>3. s[p] \in Units /\ s[pos + j] \in Units
          BY <1>1, <1>4, <4>3, <5>1
        <5>4. s[p].n < s[pos + j].n
          BY <4>3, <5>2, <5>3, Behind
        <5> QED BY <4>2, <4>3, <5>1, <5>4
      <4> QED BY <1>2, <1>4, <4>2, <4>3, <4>4
    <3> QED BY <3>1, <3>2
  <2> QED BY <2>5, <2>6, <2>7 DEF Follows, all
<1> QED BY <1>7, <1>9, <1>12, <1>13 DEF l, buf, left, rest, t, ms, pos

\* A read in step takes out the frames that follow.
LEMMA ReadSteady ==
  ASSUME NEW held \in Seq(Units), NEW pipe \in Seq(Units), NEW n \in 0 .. Len(pipe),
         NEW odd \in Nat, NEW taken \in Seq(Nat), NEW before \in Nat, NEW upto \in Nat,
         Steady(taken, before, held \o pipe, held, upto),
         Loop(held \o SubSeq(pipe, 1, n), odd).messages \in Seq(Nat)
  PROVE  LET l    == Loop(held \o SubSeq(pipe, 1, n), odd)
             left == Compacted(held \o SubSeq(pipe, 1, n), l.pos)
             rest == SubSeq(pipe, n + 1, Len(pipe)) IN
         l.ok /\ Steady(taken \o l.messages, before, left \o rest, left, upto)
<1> DEFINE buf  == held \o SubSeq(pipe, 1, n)
           l    == Loop(buf, odd)
           left == Compacted(buf, l.pos)
           rest == SubSeq(pipe, n + 1, Len(pipe))
           s    == held \o pipe
           t    == left \o rest
           ms   == l.messages
           pos  == l.pos
           T    == Len(taken)
           M    == Len(ms)
           all  == taken \o ms
<1>0. Len(held) \in Nat /\ Len(pipe) \in Nat /\ n \in Nat /\ n <= Len(pipe) /\ 0 \in 0 .. Len(held) + n
      /\ T \in Nat /\ DOMAIN taken = 1 .. T /\ M \in Nat /\ DOMAIN ms = 1 .. M
  OBVIOUS
<1>1. /\ buf \in Seq(Units) /\ s \in Seq(Units) /\ Len(buf) = Len(held) + n
      /\ Len(s) = Len(held) + Len(pipe)
      /\ \A i \in 1 .. Len(buf) : buf[i] = s[i]
  <2>1. Reading(Units, held, pipe, n, 0)
    BY <1>0, StreamRead
  <2> QED BY <2>1 DEF Reading
<1>2. /\ \A i \in DOMAIN taken : taken[i] = before + i
      /\ \A i \in DOMAIN s : Rank(s[i]) = FrameLen * ((before + T) + 1) + i
      /\ Len(s) + FrameLen * (before + T) = FrameLen * upto
  BY DEF Steady, InRow
<1>3. /\ taken \o SubSeq(ms, 1, M) \in Seq(Nat) /\ Len(taken \o SubSeq(ms, 1, M)) = T + M
      /\ \A i \in 1 .. T : (taken \o SubSeq(ms, 1, M))[i] = taken[i]
      /\ \A i \in 1 .. M : (taken \o SubSeq(ms, 1, M))[T + i] = ms[i]
  <2>1. M \in 0 .. Len(ms)
    BY <1>0
  <2> QED BY <2>1, TakenOn
<1>4. SubSeq(ms, 1, M) = ms
  BY TakenAll
<1>5. /\ all \in Seq(Nat) /\ Len(all) = T + M
      /\ \A i \in 1 .. T : all[i] = taken[i]
      /\ \A i \in 1 .. M : all[T + i] = ms[i]
  BY <1>3, <1>4
<1> HIDE DEF s, buf, all
<1>6. Len(buf) \in Nat /\ Len(s) \in Nat /\ Len(buf) <= Len(s)
      /\ DOMAIN s = 1 .. Len(s) /\ DOMAIN buf = 1 .. Len(buf)
  BY <1>0, <1>1
<1>7. InRow(buf, before + T)
  <2>1. \A i \in DOMAIN buf : i \in DOMAIN s /\ buf[i] = s[i]
    BY <1>1, <1>6
  <2> QED BY <1>2, <2>1 DEF InRow
<1>8. /\ l.ok /\ pos = FrameLen * M /\ pos <= Len(buf) /\ Len(buf) < pos + FrameLen
      /\ \A i \in DOMAIN ms : ms[i] = (before + T) + i
  <2>1. before + T \in Nat
    BY <1>0
  <2> QED BY <1>1, <1>7, <2>1, LoopInStep
<1> HIDE DEF l, T, M, ms, pos
<1>9. pos \in Nat /\ pos \in 0 .. Len(held) + n
  BY <1>0, <1>1, <1>6, <1>8 DEF FrameLen
<1>10. /\ left \in Seq(Units) /\ t \in Seq(Units) /\ Len(left) = Len(buf) - pos
       /\ Len(t) = Len(s) - pos /\ \A i \in 1 .. Len(t) : t[i] = s[pos + i]
  <2>1. Reading(Units, held, pipe, n, pos)
    BY <1>9, StreamRead
  <2> QED BY <2>1 DEF Reading, buf, s, pos
<1> HIDE DEF left, rest, t
<1>11. ASSUME NEW i \in DOMAIN all
       PROVE  all[i] = before + i
  <2>1. CASE i \in 1 .. T
    BY <1>0, <1>2, <1>5, <2>1
  <2>2. CASE i \notin 1 .. T
    <3> DEFINE a == i - T
    <3>0. i \in 1 .. T + M /\ T \in Nat /\ M \in Nat
      BY <1>0, <1>5
    <3>1. a \in 1 .. M /\ i = T + a
      BY <2>2, <3>0
    <3> HIDE DEF a
    <3>2. all[i] = (before + T) + a
      BY <1>0, <1>5, <1>8, <3>1
    <3> QED BY <1>0, <3>1, <3>2
  <2> QED BY <2>1, <2>2
<1>12. InRow(t, before + Len(all))
  <2> SUFFICES ASSUME NEW i \in DOMAIN t
               PROVE  Rank(t[i]) = FrameLen * ((before + Len(all)) + 1) + i
    BY DEF InRow
  <2>1. i \in 1 .. Len(t) /\ pos + i \in DOMAIN s /\ i \in Nat
    <3>1. i \in 1 .. Len(t) /\ Len(t) \in Nat
      BY <1>10
    <3>2. pos \in Nat /\ Len(t) = Len(s) - pos /\ Len(s) \in Nat
      BY <1>6, <1>9, <1>10
    <3> QED BY <1>6, <3>1, <3>2
  <2>2. Rank(t[i]) = FrameLen * ((before + T) + 1) + (pos + i)
    BY <1>2, <1>10, <2>1
  <2> QED BY <1>0, <1>5, <1>8, <2>1, <2>2 DEF FrameLen
<1>13. Len(t) + FrameLen * (before + Len(all)) = FrameLen * upto
  <2>1. T \in Nat /\ M \in Nat
    BY <1>0
  <2>2. Len(s) + 4 * (before + T) = 4 * upto /\ Len(t) = Len(s) - 4 * M /\ Len(all) = T + M
    BY <1>2, <1>5, <1>8, <1>10 DEF FrameLen
  <2>3. (Len(s) - 4 * M) + 4 * (before + (T + M)) = Len(s) + 4 * (before + T)
    BY <1>6, <2>1
  <2>4. Len(t) + 4 * (before + Len(all)) = 4 * upto
    BY <2>2, <2>3
  <2> QED BY <2>4 DEF FrameLen
<1>14. Len(left) < FrameLen
  BY <1>6, <1>8, <1>9, <1>10 DEF FrameLen
<1>15. l.ok /\ Steady(all, before, t, left, upto)
  BY <1>8, <1>11, <1>12, <1>13, <1>14 DEF Steady
<1> QED BY <1>15 DEF l, buf, left, rest, t, all, ms

\* A write puts the first k units of frame n behind the stream.
Growing(held, pipe, n, k) ==
  LET s == held \o pipe
      p == pipe \o Part(n, k)
      t == held \o p IN
  /\ s \in Seq(Units) /\ p \in Seq(Units) /\ t \in Seq(Units) /\ Len(t) = Len(s) + k
  /\ \A i \in 1 .. Len(s) : t[i] = s[i]
  /\ \A i \in 1 .. k : t[Len(s) + i].n = n /\ t[Len(s) + i].at = i

LEMMA StreamGrows ==
  ASSUME NEW held \in Seq(Units), NEW pipe \in Seq(Units), NEW n \in Nat, NEW k \in 0 .. FrameLen
  PROVE  Growing(held, pipe, n, k)
<1> DEFINE share == Part(n, k)
           s    == held \o pipe
           p    == pipe \o share
           t    == held \o p
           H    == Len(held)
           P    == Len(pipe)
<1>0. H \in Nat /\ P \in Nat /\ k \in Nat /\ k <= 4
  BY DEF FrameLen
<1>1. share \in Seq(Units) /\ Len(share) = k /\ \A i \in 1 .. k : share[i].n = n /\ share[i].at = i
  <2>1. \A i \in 1 .. k : Frame(n)[i] \in Units /\ Frame(n)[i].n = n /\ Frame(n)[i].at = i
    <3>1. \A i \in 1 .. k : i \in 1 .. 4
      BY <1>0
    <3>2. \A i \in 1 .. 4 : Frame(n)[i] \in Units /\ Frame(n)[i].n = n /\ Frame(n)[i].at = i
      BY FrameUnits DEF FrameLen
    <3> QED BY <3>1, <3>2
  <2>2. /\ SubSeq(Frame(n), 1, k) \in Seq(Units)
        /\ Len(SubSeq(Frame(n), 1, k)) = IF 1 <= k THEN k - 1 + 1 ELSE 0
        /\ \A i \in 1 .. k - 1 + 1 : SubSeq(Frame(n), 1, k)[i] = Frame(n)[1 + i - 1]
    BY <1>0, <2>1, SubSeqProperties
  <2>3. share \in Seq(Units) /\ Len(share) = k
    BY <1>0, <2>2 DEF Part
  <2>4. ASSUME NEW i \in 1 .. k
        PROVE  share[i] = Frame(n)[i]
    <3>1. i \in 1 .. k - 1 + 1 /\ 1 + i - 1 = i
      BY <1>0
    <3> QED BY <2>2, <3>1 DEF Part
  <2> QED BY <2>1, <2>3, <2>4
<1> HIDE DEF share
<1>2. /\ s \in Seq(Units) /\ Len(s) = H + P
      /\ \A i \in 1 .. H + P : s[i] = IF i <= H THEN held[i] ELSE pipe[i - H]
  BY ConcatProperties
<1>3. /\ p \in Seq(Units) /\ Len(p) = P + k
      /\ \A i \in 1 .. P + k : p[i] = IF i <= P THEN pipe[i] ELSE share[i - P]
  <2>1. /\ p \in Seq(Units) /\ Len(p) = Len(pipe) + Len(share)
        /\ \A i \in 1 .. Len(pipe) + Len(share) : p[i] = IF i <= Len(pipe) THEN pipe[i] ELSE share[i - Len(pipe)]
    BY <1>1, ConcatProperties
  <2> HIDE DEF p
  <2> QED BY <1>1, <2>1
<1> HIDE DEF s, p
<1>4. /\ t \in Seq(Units) /\ Len(t) = H + Len(p)
      /\ \A i \in 1 .. H + Len(p) : t[i] = IF i <= H THEN held[i] ELSE p[i - H]
  BY <1>3, ConcatProperties
<1> HIDE DEF t, H, P
<1>5. ASSUME NEW i \in 1 .. Len(s)
      PROVE  t[i] = s[i]
  <2>1. i \in 1 .. H + P /\ i \in 1 .. H + Len(p) /\ i \in Nat
    BY <1>0, <1>2, <1>3
  <2>2. CASE i <= H
    BY <1>2, <1>4, <2>1, <2>2
  <2>3. CASE ~(i <= H)
    <3>1. i - H \in 1 .. P + k /\ i - H <= P
      BY <1>0, <2>1, <2>3
    <3> QED BY <1>2, <1>3, <1>4, <2>1, <2>3, <3>1
  <2> QED BY <2>2, <2>3
<1>6. ASSUME NEW i \in 1 .. k
      PROVE  t[Len(s) + i] = share[i]
  <2> DEFINE a == H + P + i
  <2>1. a \in 1 .. H + Len(p) /\ ~(a <= H) /\ a - H = P + i /\ P + i \in 1 .. P + k /\ ~(P + i <= P)
        /\ (P + i) - P = i
    BY <1>0, <1>3
  <2>2. t[a] = p[P + i]
    BY <1>4, <2>1
  <2>3. p[P + i] = share[i]
    BY <1>3, <2>1
  <2> QED BY <1>2, <2>2, <2>3
<1>7. Len(t) = Len(s) + k
  <2>1. H + (P + k) = (H + P) + k
    BY <1>0
  <2> QED BY <1>2, <1>3, <1>4, <2>1
<1>8. /\ s \in Seq(Units) /\ p \in Seq(Units) /\ t \in Seq(Units) /\ Len(t) = Len(s) + k
      /\ \A i \in 1 .. Len(s) : t[i] = s[i]
      /\ \A i \in 1 .. k : t[Len(s) + i].n = n /\ t[Len(s) + i].at = i
  BY <1>1, <1>2, <1>3, <1>4, <1>5, <1>6, <1>7
<1> QED BY <1>8 DEF Growing, s, p, t, share

LEMMA WholePart ==
  ASSUME NEW n \in Nat
  PROVE  Part(n, FrameLen) = Frame(n)
<1>1. \A i \in 1 .. 4 : Frame(n)[i] \in Units
  BY FrameUnits DEF FrameLen
<1>2. /\ Part(n, 4) \in Seq(Units) /\ Len(Part(n, 4)) = 4
      /\ \A i \in 1 .. 4 : Part(n, 4)[i] = Frame(n)[i]
  <2>1. /\ SubSeq(Frame(n), 1, 4) \in Seq(Units)
        /\ Len(SubSeq(Frame(n), 1, 4)) = IF 1 <= 4 THEN 4 - 1 + 1 ELSE 0
        /\ \A i \in 1 .. 4 - 1 + 1 : SubSeq(Frame(n), 1, 4)[i] = Frame(n)[1 + i - 1]
    BY <1>1, SubSeqProperties
  <2>2. 4 - 1 + 1 = 4 /\ \A i \in 1 .. 4 : 1 + i - 1 = i
    OBVIOUS
  <2> QED BY <2>1, <2>2 DEF Part
<1>3. Frame(n) \in Seq(Units) /\ Len(Frame(n)) = 4
  BY FrameUnits DEF FrameLen
<1>4. Part(n, 4) = Frame(n)
  BY <1>2, <1>3, SeqEqual
<1> QED BY <1>4 DEF FrameLen

LEMMA FollowsGrows ==
  ASSUME NEW held \in Seq(Units), NEW pipe \in Seq(Units), NEW taken \in Seq(Nat),
         NEW upto \in Nat, NEW k \in 0 .. FrameLen, Follows(taken, held \o pipe, upto)
  PROVE  Follows(taken, held \o (pipe \o Part(upto + 1, k)), upto + 1)
<1> DEFINE s == held \o pipe
           t == held \o (pipe \o Part(upto + 1, k))
<1>1. Growing(held, pipe, upto + 1, k)
  BY StreamGrows
<1>2. /\ s \in Seq(Units) /\ t \in Seq(Units) /\ Len(t) = Len(s) + k
      /\ \A i \in 1 .. Len(s) : t[i] = s[i]
      /\ \A i \in 1 .. k : t[Len(s) + i].n = upto + 1 /\ t[Len(s) + i].at = i
  BY <1>1 DEF Growing
<1> HIDE DEF t, s
<1>3. /\ Rising(s) /\ \A j \in DOMAIN s : s[j].n <= upto
      /\ \A i \in DOMAIN taken : taken[i] <= upto /\ \A j \in DOMAIN s : taken[i] < s[j].n
  BY DEF Follows, s
<1>4. Len(s) \in Nat /\ k \in Nat /\ DOMAIN s = 1 .. Len(s) /\ DOMAIN t = 1 .. Len(s) + k
      /\ \A i \in DOMAIN taken : taken[i] \in Nat
  BY <1>2
<1>5. ASSUME NEW j \in DOMAIN t
      PROVE  \/ j \in DOMAIN s /\ t[j] = s[j] /\ s[j] \in Units
             \/ \E a \in 1 .. k : j = Len(s) + a /\ t[j].n = upto + 1 /\ t[j].at = a
  <2>1. CASE j <= Len(s)
    BY <1>2, <1>4, <2>1
  <2>2. CASE ~(j <= Len(s))
    <3>1. j - Len(s) \in 1 .. k /\ j = Len(s) + (j - Len(s))
      BY <1>4, <2>2
    <3> QED BY <1>2, <3>1
  <2> QED BY <2>1, <2>2
<1>6. Rising(t)
  <2> SUFFICES ASSUME NEW i \in DOMAIN t, NEW j \in DOMAIN t, i < j
               PROVE  Rank(t[i]) < Rank(t[j])
    BY DEF Rising
  <2>1. CASE j \in DOMAIN s
    <3>1. i \in DOMAIN s
      BY <1>4, <2>1
    <3> QED BY <1>2, <1>3, <1>4, <2>1, <3>1 DEF Rising
  <2>2. CASE j \notin DOMAIN s
    <3>1. PICK b \in 1 .. k : j = Len(s) + b /\ t[j].n = upto + 1 /\ t[j].at = b
      BY <1>5, <2>2
    <3>2. CASE i \in DOMAIN s
      <4>1. t[i] = s[i] /\ s[i] \in Units /\ s[i].n <= upto
        BY <1>2, <1>3, <1>4, <3>2
      <4>2. s[i].n \in Nat /\ s[i].at \in 1 .. 4
        BY <4>1, UnitIs
      <4>3. Rank(t[i]) = 4 * s[i].n + s[i].at /\ Rank(t[j]) = 4 * (upto + 1) + b
        BY <3>1, <4>1 DEF Rank, FrameLen
      <4> QED BY <4>1, <4>2, <4>3
    <3>3. CASE i \notin DOMAIN s
      <4>1. PICK a \in 1 .. k : i = Len(s) + a /\ t[i].n = upto + 1 /\ t[i].at = a
        BY <1>5, <3>3
      <4>2. a < b
        BY <1>4, <3>1, <4>1
      <4>3. Rank(t[i]) = 4 * (upto + 1) + a /\ Rank(t[j]) = 4 * (upto + 1) + b
        BY <3>1, <4>1 DEF Rank, FrameLen
      <4> QED BY <4>2, <4>3
    <3> QED BY <3>2, <3>3
  <2> QED BY <2>1, <2>2
<1>7. ASSUME NEW j \in DOMAIN t
      PROVE  t[j].n <= upto + 1 /\ \A i \in DOMAIN taken : taken[i] < t[j].n
  <2>1. CASE j \in DOMAIN s
    <3>1. t[j] = s[j] /\ s[j] \in Units
      BY <1>2, <1>4, <2>1
    <3>2. s[j].n \in Nat /\ s[j].n <= upto /\ \A i \in DOMAIN taken : taken[i] < s[j].n
      BY <1>3, <2>1, <3>1, UnitIs
    <3> QED BY <3>1, <3>2
  <2>2. CASE j \notin DOMAIN s
    <3>1. t[j].n = upto + 1
      BY <1>5, <2>2
    <3> QED BY <1>3, <1>4, <3>1
  <2> QED BY <2>1, <2>2
<1>8. \A i \in DOMAIN taken : taken[i] <= upto + 1
  BY <1>3, <1>4
<1> QED BY <1>6, <1>7, <1>8 DEF Follows, t

LEMMA LastFour ==
  ASSUME NEW L \in Nat, NEW i \in 1 .. L + 4, i \notin 1 .. L
  PROVE  \E a \in 1 .. 4 : i = L + a
OBVIOUS

LEMMA SteadyGrows ==
  ASSUME NEW held \in Seq(Units), NEW pipe \in Seq(Units), NEW taken \in Seq(Nat),
         NEW before \in Nat, NEW upto \in Nat, Steady(taken, before, held \o pipe, held, upto)
  PROVE  Steady(taken, before, held \o (pipe \o Frame(upto + 1)), held, upto + 1)
<1> DEFINE s == held \o pipe
           t == held \o (pipe \o Frame(upto + 1))
           T == Len(taken)
<1>0. T \in Nat /\ 4 \in 0 .. FrameLen
  BY DEF FrameLen
<1>1. Part(upto + 1, 4) = Frame(upto + 1)
  BY WholePart DEF FrameLen
<1>2. Growing(held, pipe, upto + 1, 4)
  BY <1>0, StreamGrows
<1>3. /\ s \in Seq(Units) /\ t \in Seq(Units) /\ Len(t) = Len(s) + 4
      /\ \A i \in 1 .. Len(s) : t[i] = s[i]
      /\ \A i \in 1 .. 4 : t[Len(s) + i].n = upto + 1 /\ t[Len(s) + i].at = i
  BY <1>1, <1>2 DEF Growing
<1> HIDE DEF t, s, T
<1>4. /\ \A i \in DOMAIN taken : taken[i] = before + i
      /\ \A i \in DOMAIN s : Rank(s[i]) = 4 * ((before + T) + 1) + i
      /\ Len(s) + 4 * (before + T) = 4 * upto
      /\ Len(held) < FrameLen
  BY DEF Steady, InRow, s, T, FrameLen
<1>5. Len(s) \in Nat /\ DOMAIN s = 1 .. Len(s) /\ DOMAIN t = 1 .. Len(s) + 4
  BY <1>3
<1>8. Len(s) + 4 * (before + T) = 4 * upto /\ T \in Nat
  BY <1>0, <1>4
<1>6. ASSUME NEW i \in DOMAIN t
      PROVE  Rank(t[i]) = 4 * ((before + T) + 1) + i
  <2>1. CASE i \in DOMAIN s
    BY <1>3, <1>4, <1>5, <2>1
  <2>2. CASE i \notin DOMAIN s
    <3>1. PICK L \in Nat : L = Len(s)
      BY <1>5
    <3>2. i \in 1 .. L + 4 /\ i \notin 1 .. L
      BY <1>5, <2>2, <3>1
    <3>3. PICK a \in 1 .. 4 : i = L + a
      BY <3>2, LastFour
    <3>4. Rank(t[i]) = 4 * (upto + 1) + a
      BY <1>3, <3>1, <3>3 DEF Rank, FrameLen
    <3>5. 4 * (upto + 1) + a = 4 * ((before + T) + 1) + (L + a)
      BY <1>8, <3>1
    <3> QED BY <3>3, <3>4, <3>5
  <2> QED BY <2>1, <2>2
<1>7. Len(t) + 4 * (before + T) = 4 * (upto + 1)
  <2>1. PICK L \in Nat : L = Len(s)
    BY <1>5
  <2>2. PICK X \in Nat : X = before + T
    BY <1>0
  <2>3. L + 4 * X = 4 * upto
    BY <1>8, <2>1, <2>2
  <2>4. (L + 4) + 4 * X = 4 * (upto + 1)
    BY <2>3
  <2>5. Len(t) = L + 4
    BY <1>3, <2>1
  <2> QED BY <2>2, <2>4, <2>5
<1> QED BY <1>4, <1>6, <1>7 DEF Steady, InRow, t, T, FrameLen

\* The invariant, of a connection and of the two ends.
Rises(c)       == Increasing(c.heard) /\ Increasing(c.served)
Served(c, n)   == Steady(c.served, c.first, UpStream(c), c.cbuf, n)
Heard(c, n)    == Follows(c.heard, DownStream(c), n)
HeardAll(c, n) == c.odd = 0 => Steady(c.heard, c.since, DownStream(c), c.m_buffer, n)

Ends ==
  /\ {opened, told, sent} \subseteq Nat /\ window \in 0 .. opened
  /\ backlog \cup clients \subseteq 1 .. opened /\ backlog \cap clients = {}
  /\ DOMAIN conn = (backlog \cup clients \cup {window}) \ {0}
Connections ==
  /\ conn \in [DOMAIN conn -> Conns]
  /\ \A k \in DOMAIN conn : Rises(conn[k])
OpenConnection(c) ==
  /\ Served(c, sent) /\ Heard(c, told)
  /\ window \in clients => HeardAll(c, told)
  /\ window \in backlog => Unread(c)
ChannelInv == Ends /\ Connections /\ (window # 0 => OpenConnection(conn[window]))

LEMMA ConnFields ==
  ASSUME NEW c \in Conns
  PROVE  /\ c.down \in Seq(Units) /\ c.m_buffer \in Seq(Units) /\ c.heard \in Seq(Nat)
         /\ c.since \in Nat /\ c.odd \in Nat /\ c.up \in Seq(Units) /\ c.cbuf \in Seq(Units)
         /\ c.served \in Seq(Nat) /\ c.first \in Nat
BY DEF Conns

LEMMA WindowHeld ==
  ASSUME ChannelInv, window # 0
  PROVE  window \in DOMAIN conn /\ conn[window] \in Conns /\ Rises(conn[window])
         /\ OpenConnection(conn[window])
<1>1. window \in DOMAIN conn
  BY DEF ChannelInv, Ends
<1> QED BY <1>1 DEF ChannelInv, Connections

\* Putting one connection in the place of another keeps the rest.
LEMMA Replaced ==
  ASSUME Connections, NEW k \in DOMAIN conn, NEW d \in Conns, Rises(d),
         conn' = [conn EXCEPT ![k] = d]
  PROVE  /\ Connections' /\ DOMAIN conn' = DOMAIN conn /\ conn'[k] = d
         /\ \A j \in DOMAIN conn : j # k => conn'[j] = conn[j]
<1>1. conn \in [DOMAIN conn -> Conns]
  BY DEF Connections
<1>2. /\ DOMAIN conn' = DOMAIN conn /\ conn'[k] = d
      /\ \A j \in DOMAIN conn : j # k => conn'[j] = conn[j]
      /\ conn' \in [DOMAIN conn -> Conns]
  BY <1>1
<1>3. \A j \in DOMAIN conn' : Rises(conn'[j])
  BY <1>2 DEF Connections
<1>4. Connections'
  BY <1>2, <1>3 DEF Connections
<1> QED BY <1>2, <1>4

LEMMA Dropped ==
  ASSUME Connections, NEW ks, conn' = HeldBy(ks)
  PROVE  /\ Connections' /\ DOMAIN conn' = DOMAIN conn \cap ks
         /\ \A j \in DOMAIN conn' : conn'[j] = conn[j]
<1>1. /\ DOMAIN conn' = DOMAIN conn \cap ks
      /\ \A j \in DOMAIN conn' : conn'[j] = conn[j]
      /\ conn' \in [DOMAIN conn' -> Conns]
  BY DEF HeldBy, Connections
<1>2. \A j \in DOMAIN conn' : Rises(conn'[j])
  BY <1>1 DEF Connections
<1> QED BY <1>1, <1>2 DEF Connections

LEMMA FollowsLater ==
  ASSUME NEW s \in Seq(Units), NEW taken \in Seq(Nat), NEW upto \in Nat, Follows(taken, s, upto)
  PROVE  Follows(taken, s, upto + 1)
<1>1. \A j \in DOMAIN s : s[j] \in Units /\ s[j].n \in Nat
  BY UnitIs
<1>2. \A i \in DOMAIN taken : taken[i] \in Nat
  OBVIOUS
<1>3. \A j \in DOMAIN s : s[j].n <= upto + 1
  BY <1>1 DEF Follows
<1>4. \A i \in DOMAIN taken : taken[i] <= upto + 1
  BY <1>2 DEF Follows
<1> QED BY <1>3, <1>4 DEF Follows

LEMMA SteadyFollows ==
  ASSUME NEW s \in Seq(Units), NEW taken \in Seq(Nat), NEW before \in Nat, NEW upto \in Nat, NEW buf,
         Steady(taken, before, s, buf, upto)
  PROVE  Follows(taken, s, upto)
<1>1. PICK L \in Nat, T \in Nat : L = Len(s) /\ T = Len(taken)
  OBVIOUS
<1>2. PICK X \in Nat : X = before + T
  BY <1>1
<1>3. DOMAIN s = 1 .. L /\ DOMAIN taken = 1 .. T
  BY <1>1
<1>4. /\ \A i \in DOMAIN taken : taken[i] = before + i
      /\ \A i \in DOMAIN s : Rank(s[i]) = 4 * (X + 1) + i
      /\ L + 4 * X = 4 * upto
  BY <1>1, <1>2 DEF Steady, InRow, FrameLen
<1>5. Rising(s)
  <2> SUFFICES ASSUME NEW i \in DOMAIN s, NEW j \in DOMAIN s, i < j
               PROVE  Rank(s[i]) < Rank(s[j])
    BY DEF Rising
  <2>1. Rank(s[i]) = 4 * (X + 1) + i /\ Rank(s[j]) = 4 * (X + 1) + j /\ i \in Nat /\ j \in Nat
    BY <1>3, <1>4
  <2> QED BY <2>1
<1>6. X <= upto
  BY <1>4
<1>7. ASSUME NEW i \in DOMAIN taken
      PROVE  taken[i] <= X
  BY <1>2, <1>3, <1>4
<1>8. ASSUME NEW j \in DOMAIN s
      PROVE  s[j].n \in Nat /\ s[j].n <= upto /\ X < s[j].n
  <2>1. PICK n \in Nat, a \in 1 .. 4 : n = s[j].n /\ a = s[j].at
    BY UnitIs
  <2>2. 4 * n + a = 4 * (X + 1) + j /\ j \in 1 .. L
    BY <1>3, <1>4, <2>1 DEF Rank, FrameLen
  <2>3. L + 4 * X = 4 * upto
    BY <1>4
  <2>4. n <= upto /\ X < n
    BY <2>2, <2>3
  <2> QED BY <2>1, <2>4
<1>9. ASSUME NEW i \in DOMAIN taken
      PROVE  taken[i] <= upto /\ \A j \in DOMAIN s : taken[i] < s[j].n
  <2>1. taken[i] \in Nat
    OBVIOUS
  <2> QED BY <1>6, <1>7, <1>8, <2>1
<1> QED BY <1>5, <1>8, <1>9 DEF Follows

\* A connection that nothing was sent on.
LEMMA NothingYet ==
  ASSUME NEW n \in Nat, NEW m \in Nat
  PROVE  Steady(<<>>, n, <<>> \o <<>>, <<>>, n) /\ Follows(<<>>, <<>> \o <<>>, m)
<1>1. <<>> \o <<>> = <<>> /\ DOMAIN <<>> = {} /\ Len(<<>>) = 0
  OBVIOUS
<1>2. Steady(<<>>, n, <<>>, <<>>, n)
  BY <1>1 DEF Steady, InRow, FrameLen
<1>3. Follows(<<>>, <<>>, m)
  BY <1>1 DEF Follows, Rising
<1> QED BY <1>1, <1>2, <1>3

LEMMA ConnDisconnected ==
  ASSUME NEW d \in Conns, Rises(d)
  PROVE  Disconnected(d) \in Conns /\ Rises(Disconnected(d))
<1>1. <<>> \in Seq(Units)
  OBVIOUS
<1>2. /\ Disconnected(d) \in Conns
      /\ Disconnected(d).heard = d.heard /\ Disconnected(d).served = d.served
  BY <1>1 DEF Conns, Disconnected
<1> QED BY <1>2 DEF Rises

\* The window's end is closed, by the user or by a write that ended early.
LEMMA DisconnectStep ==
  ASSUME ChannelInv, window # 0, ~HungUp, NEW d \in Conns, Rises(d), Disconnect(d),
         UNCHANGED <<backlog, clients, opened, told>>, sent' \in Nat
  PROVE  ChannelInv'
<1>1. Connections' /\ DOMAIN conn' = DOMAIN conn /\ window' = 0
  BY WindowHeld, ConnDisconnected, Replaced DEF ChannelInv, Disconnect
<1>2. Ends'
  BY <1>1 DEF ChannelInv, Ends, HungUp
<1> QED BY <1>1, <1>2 DEF ChannelInv

LEMMA ConnSent ==
  ASSUME NEW d \in Conns, NEW n \in Nat, Rises(d)
  PROVE  LET e == [d EXCEPT !.up = @ \o Frame(n + 1)] IN
         /\ e \in Conns /\ Rises(e)
         /\ Served(d, n) => Served(e, n + 1)
         /\ \A m : Heard(d, m) => Heard(e, m)
         /\ \A m : HeardAll(d, m) => HeardAll(e, m)
         /\ Unread(d) => Unread(e)
<1> DEFINE p == d.up \o Frame(n + 1)
           e == [d EXCEPT !.up = p]
<1>1. p \in Seq(Units)
  <2>1. Frame(n + 1) \in Seq(Units) /\ d.up \in Seq(Units)
    BY FrameUnits, ConnFields
  <2> QED BY <2>1
<1>2. Served(d, n) => Steady(d.served, d.first, d.cbuf \o p, d.cbuf, n + 1)
  BY ConnFields, SteadyGrows DEF Served, UpStream
<1> HIDE DEF p
<1>3. /\ e \in Conns /\ e.down = d.down /\ e.m_buffer = d.m_buffer /\ e.heard = d.heard
      /\ e.since = d.since /\ e.odd = d.odd /\ e.up = p /\ e.cbuf = d.cbuf
      /\ e.served = d.served /\ e.first = d.first
  BY <1>1 DEF Conns
<1> HIDE DEF e
<1>4. /\ Rises(e) /\ (Served(d, n) => Served(e, n + 1))
      /\ \A m : Heard(d, m) => Heard(e, m)
      /\ \A m : HeardAll(d, m) => HeardAll(e, m)
      /\ Unread(d) => Unread(e)
  BY <1>2, <1>3 DEF Rises, Served, UpStream, Heard, HeardAll, DownStream, Unread
<1> QED BY <1>3, <1>4 DEF e, p

LEMMA SendingStep ==
  ASSUME ChannelInv, window # 0, ~HungUp, NEW d \in Conns, Rises(d), NEW k \in 0 .. FrameLen,
         k = FrameLen => OpenConnection(d), Sending(d, k), sent' = sent + 1,
         UNCHANGED <<backlog, clients, opened, told>>
  PROVE  ChannelInv'
<1>0. sent \in Nat /\ sent' \in Nat
  BY DEF ChannelInv, Ends
<1>1. CASE k < FrameLen
  BY <1>0, <1>1, DisconnectStep DEF Sending
<1>2. CASE ~(k < FrameLen)
  <2>0. PICK e : e = [d EXCEPT !.up = @ \o Frame(sent + 1)]
    OBVIOUS
  <2>1. k = FrameLen /\ OpenConnection(d)
    BY <1>2 DEF FrameLen
  <2>2. window' = window /\ conn' = [conn EXCEPT ![window] = e]
    BY <1>2, <2>0 DEF Sending
  <2>3. /\ e \in Conns /\ Rises(e)
        /\ Served(d, sent) => Served(e, sent + 1)
        /\ \A m : Heard(d, m) => Heard(e, m)
        /\ \A m : HeardAll(d, m) => HeardAll(e, m)
        /\ Unread(d) => Unread(e)
    BY <1>0, <2>0, ConnSent
  <2>4. Connections' /\ DOMAIN conn' = DOMAIN conn /\ conn'[window] = e
    BY <2>2, <2>3, WindowHeld, Replaced DEF ChannelInv
  <2>5. Ends'
    BY <1>0, <2>2, <2>4 DEF ChannelInv, Ends
  <2>6. OpenConnection(e)'
    BY <2>1, <2>2, <2>3 DEF OpenConnection
  <2>7. conn'[window'] = e
    BY <2>2, <2>4
  <2> QED BY <2>4, <2>5, <2>6, <2>7 DEF ChannelInv
<1> QED BY <1>1, <1>2

LEMMA WindowReads ==
  ASSUME IpcChannelAssumption, ChannelInv, NEW n \in 1 .. Chunk, ClientReadable(n)
  PROVE  ChannelInv'
<1> DEFINE w    == conn[window]
           buf  == w.m_buffer \o SubSeq(w.down, 1, n)
           loop == Loop(buf, w.odd)
           all  == Len(loop.messages)
<1>1. window # 0 /\ ~HungUp /\ n \in 1 .. Len(w.down)
      /\ UNCHANGED <<listening, backlog, clients, opened, told>> /\ sent \in Nat /\ told \in Nat
  <2>1. Chunk \in Nat
    BY DEF IpcChannelAssumption
  <2>2. window # 0 /\ w \in Conns
    BY WindowHeld DEF ClientReadable
  <2>3. Len(w.down) \in Nat
    BY <2>2, ConnFields
  <2> QED BY <2>1, <2>2, <2>3 DEF ClientReadable, Reads, ChannelInv, Ends
<1>2. w \in Conns /\ Rises(w) /\ OpenConnection(w)
  BY <1>1, WindowHeld
<1>3. PICK c \in Conns : c = w
  BY <1>2
<1>4. window \in clients
  <2>1. Len(<<>>) = 0
    OBVIOUS
  <2>2. ~Unread(c)
    BY <1>1, <1>3, <2>1 DEF Unread
  <2> QED BY <1>1, <1>2, <1>3, <2>2 DEF OpenConnection, HungUp
<1>5. /\ c.down \in Seq(Units) /\ c.m_buffer \in Seq(Units) /\ c.heard \in Seq(Nat)
      /\ c.since \in Nat /\ c.odd \in Nat
      /\ Increasing(c.heard) /\ Follows(c.heard, c.m_buffer \o c.down, told)
      /\ n \in 0 .. Len(c.down)
  BY <1>1, <1>2, <1>3, ConnFields DEF Rises, OpenConnection, Heard, DownStream
<1>6. PICK l : l = Loop(c.m_buffer \o SubSeq(c.down, 1, n), c.odd)
  OBVIOUS
<1>7. PICK left, rest : /\ left = Compacted(c.m_buffer \o SubSeq(c.down, 1, n), l.pos)
                        /\ rest = SubSeq(c.down, n + 1, Len(c.down))
  OBVIOUS
<1>8. /\ l.messages \in Seq(Nat) /\ left \in Seq(Units) /\ rest \in Seq(Units)
      /\ \A k \in 0 .. Len(l.messages) : /\ c.heard \o SubSeq(l.messages, 1, k) \in Seq(Nat)
                                         /\ Increasing(c.heard \o SubSeq(l.messages, 1, k))
      /\ Follows(c.heard \o l.messages, left \o rest, told)
  BY <1>1, <1>5, <1>6, <1>7, ReadFollows
<1>9. c.odd = 0 => Steady(c.heard \o l.messages, c.since, left \o rest, left, told)
  <2> SUFFICES ASSUME c.odd = 0
               PROVE  Steady(c.heard \o l.messages, c.since, left \o rest, left, told)
    OBVIOUS
  <2>1. Steady(c.heard, c.since, c.m_buffer \o c.down, c.m_buffer, told)
    BY <1>2, <1>3, <1>4 DEF OpenConnection, HeardAll, DownStream
  <2> QED BY <1>1, <1>5, <1>6, <1>7, <1>8, <2>1, ReadSteady
<1> DEFINE Got(k) == [c EXCEPT !.down = SubSeq(@, n + 1, Len(@)),
                               !.m_buffer = Compacted(buf, loop.pos),
                               !.heard = @ \o SubSeq(loop.messages, 1, k)]
<1>10. ASSUME NEW k \in 0 .. Len(l.messages)
       PROVE  /\ Got(k) \in Conns /\ Rises(Got(k))
              /\ k = Len(l.messages) => OpenConnection(Got(k))
  <2>1. PICK h : h = c.heard \o SubSeq(l.messages, 1, k)
    OBVIOUS
  <2>2. PICK d : d = [c EXCEPT !.down = rest, !.m_buffer = left, !.heard = h]
    OBVIOUS
  <2>3. Got(k) = d
    BY <1>3, <1>6, <1>7, <2>1, <2>2
  <2>4. h \in Seq(Nat) /\ Increasing(h)
    BY <1>8, <2>1
  <2>5. /\ d \in Conns /\ d.down = rest /\ d.m_buffer = left /\ d.heard = h
        /\ d.since = c.since /\ d.odd = c.odd /\ d.up = c.up /\ d.cbuf = c.cbuf
        /\ d.served = c.served /\ d.first = c.first
    BY <1>8, <2>2, <2>4 DEF Conns
  <2>6. Rises(d)
    BY <1>2, <1>3, <2>4, <2>5 DEF Rises
  <2>7. ASSUME k = Len(l.messages)
        PROVE  OpenConnection(d)
    <3>1. h = c.heard \o l.messages
      BY <1>8, <2>1, <2>7, TakenAll
    <3>2. Served(d, sent)
      BY <1>2, <1>3, <2>5 DEF OpenConnection, Served, UpStream
    <3>3. Heard(d, told)
      BY <1>8, <2>5, <3>1 DEF Heard, DownStream
    <3>4. HeardAll(d, told)
      BY <1>9, <2>5, <3>1 DEF HeardAll, DownStream
    <3>5. window \notin backlog
      BY <1>4 DEF ChannelInv, Ends
    <3> QED BY <3>2, <3>3, <3>4, <3>5 DEF OpenConnection
  <2> QED BY <2>3, <2>5, <2>6, <2>7
<1>11. loop = l /\ all = Len(l.messages) /\ all \in Nat /\ all \in 0 .. Len(l.messages)
  BY <1>3, <1>6, <1>8
<1>12. \/ /\ IF loop.ok THEN UNCHANGED window /\ conn' = [conn EXCEPT ![window] = Got(all)]
                        ELSE Disconnect(Got(all))
          /\ UNCHANGED sent
       \/ /\ sent < MaxSent /\ sent' = sent + 1
          /\ \E i \in 1 .. all, k \in Cuts(c.up) : Sending(Got(i), k)
       \/ /\ loop.ok /\ all > 0 /\ sent < MaxSent /\ sent' = sent + 1
          /\ Sending(Got(all), FrameLen)
  BY <1>3 DEF ClientReadable, ClientReads
<1> HIDE DEF loop, all, Got
<1>13. CASE /\ IF loop.ok THEN UNCHANGED window /\ conn' = [conn EXCEPT ![window] = Got(all)]
                          ELSE Disconnect(Got(all))
            /\ UNCHANGED sent
  <2>1. PICK d : d = Got(all)
    OBVIOUS
  <2>2. d \in Conns /\ Rises(d) /\ OpenConnection(d)
    BY <1>10, <1>11, <2>1
  <2>3. CASE loop.ok
    <3>1. window' = window /\ conn' = [conn EXCEPT ![window] = d] /\ sent' = sent
      BY <1>13, <2>1, <2>3
    <3>2. Connections' /\ DOMAIN conn' = DOMAIN conn /\ conn'[window] = d
      BY <1>1, <2>2, <3>1, WindowHeld, Replaced DEF ChannelInv
    <3>3. Ends'
      BY <1>1, <3>1, <3>2 DEF ChannelInv, Ends
    <3>4. OpenConnection(d)'
      BY <1>1, <2>2, <3>1 DEF OpenConnection
    <3> QED BY <3>1, <3>2, <3>3, <3>4 DEF ChannelInv
  <2>4. CASE ~loop.ok
    BY <1>1, <1>13, <2>1, <2>2, <2>4, DisconnectStep
  <2> QED BY <2>3, <2>4
<1>14. CASE /\ sent < MaxSent /\ sent' = sent + 1
            /\ \E i \in 1 .. all, k \in Cuts(c.up) : Sending(Got(i), k)
  <2>1. PICK i \in 1 .. all, k \in Cuts(c.up) : Sending(Got(i), k)
    BY <1>14
  <2>2. PICK d : d = Got(i)
    OBVIOUS
  <2>3. d \in Conns /\ Rises(d)
    <3>1. i \in 0 .. Len(l.messages)
      BY <1>11
    <3> QED BY <1>10, <2>2, <3>1
  <2>4. k \in 0 .. FrameLen /\ k # FrameLen
    BY DEF Cuts, FrameLen
  <2> QED BY <1>1, <1>14, <2>1, <2>2, <2>3, <2>4, SendingStep
<1>15. CASE /\ loop.ok /\ all > 0 /\ sent < MaxSent /\ sent' = sent + 1
            /\ Sending(Got(all), FrameLen)
  <2>1. PICK d : d = Got(all)
    OBVIOUS
  <2>2. d \in Conns /\ Rises(d) /\ OpenConnection(d)
    BY <1>10, <1>11, <2>1
  <2>3. FrameLen \in 0 .. FrameLen
    BY DEF FrameLen
  <2> QED BY <1>1, <1>15, <2>1, <2>2, <2>3, SendingStep
<1> QED BY <1>12, <1>13, <1>14, <1>15

LEMMA WindowSends ==
  ASSUME ChannelInv, SendMessage
  PROVE  ChannelInv'
<1>1. PICK k \in Cuts(conn[window].up) \cup {FrameLen} : Sending(conn[window], k)
  BY DEF SendMessage
<1>2. PICK d : d = conn[window]
  OBVIOUS
<1>3. k \in 0 .. FrameLen
  BY DEF Cuts, FrameLen
<1>4. window # 0 /\ ~HungUp /\ sent' = sent + 1 /\ UNCHANGED <<backlog, clients, opened, told>>
  BY DEF SendMessage
<1>5. d \in Conns /\ Rises(d) /\ OpenConnection(d)
  BY <1>2, <1>4, WindowHeld
<1> QED BY <1>1, <1>2, <1>3, <1>4, <1>5, SendingStep

LEMMA WindowCloses ==
  ASSUME ChannelInv, CloseWindow \/ ServerHangsUp
  PROVE  ChannelInv'
<1>1. CASE CloseWindow
  <2>1. PICK d : d = conn[window]
    OBVIOUS
  <2>2. window # 0 /\ ~HungUp /\ Disconnect(d) /\ sent' \in Nat
        /\ UNCHANGED <<backlog, clients, opened, told>>
    BY <1>1, <2>1 DEF CloseWindow, ChannelInv, Ends
  <2>3. d \in Conns /\ Rises(d)
    BY <2>1, <2>2, WindowHeld
  <2> QED BY <2>2, <2>3, DisconnectStep
<1>2. CASE ServerHangsUp
  <2>1. window' = 0 /\ conn' = HeldBy(clients \cup backlog)
        /\ UNCHANGED <<listening, backlog, clients, opened, told, sent>>
    BY <1>2 DEF ServerHangsUp
  <2>2. Connections' /\ DOMAIN conn' = DOMAIN conn \cap (clients \cup backlog)
    BY <2>1, Dropped DEF ChannelInv
  <2>3. Ends'
    BY <2>1, <2>2 DEF ChannelInv, Ends
  <2> QED BY <2>1, <2>2, <2>3 DEF ChannelInv
<1> QED BY <1>1, <1>2

LEMMA WindowOpens ==
  ASSUME ChannelInv, OpenWindow
  PROVE  ChannelInv'
<1>1. PICK w : w = opened + 1
  OBVIOUS
<1>2. PICK d : d = NewConn(sent)
  OBVIOUS
<1>3. /\ window = 0 /\ opened' = w /\ window' = w /\ backlog' = backlog \cup {w}
      /\ conn' = [k \in DOMAIN conn \cup {w} |-> IF k = w THEN d ELSE conn[k]]
      /\ UNCHANGED <<listening, clients, told, sent>>
  BY <1>1, <1>2 DEF OpenWindow
<1>4. sent \in Nat /\ told \in Nat /\ opened \in Nat
  BY DEF ChannelInv, Ends
<1>5. /\ d \in Conns /\ d.down = <<>> /\ d.m_buffer = <<>> /\ d.heard = <<>> /\ d.odd = 0
      /\ d.up = <<>> /\ d.cbuf = <<>> /\ d.served = <<>> /\ d.first = sent
  <2>1. <<>> \in Seq(Units) /\ <<>> \in Seq(Nat)
    OBVIOUS
  <2> QED BY <1>2, <1>4, <2>1 DEF NewConn, Conns
<1>6. w \notin backlog \cup clients /\ w # 0 /\ w \in Nat
  BY <1>1, <1>4 DEF ChannelInv, Ends
<1>7. DOMAIN conn' = DOMAIN conn \cup {w} /\ conn'[w] = d
      /\ \A k \in DOMAIN conn : k # w => conn'[k] = conn[k]
  BY <1>3
<1>8. Ends'
  <2>1. backlog' \cup clients' \subseteq 1 .. opened' /\ window' \in 0 .. opened'
    BY <1>1, <1>3, <1>4 DEF ChannelInv, Ends
  <2>2. DOMAIN conn = backlog \cup clients /\ 0 \notin backlog \cup clients /\ backlog \cap clients = {}
    BY <1>3 DEF ChannelInv, Ends
  <2>3. DOMAIN conn' = (backlog' \cup clients' \cup {window'}) \ {0} /\ backlog' \cap clients' = {}
    BY <1>3, <1>6, <1>7, <2>2
  <2>4. {opened', told', sent'} \subseteq Nat
    BY <1>3, <1>4, <1>6
  <2> QED BY <2>1, <2>3, <2>4 DEF Ends
<1>9. Rises(d)
  <2>1. DOMAIN <<>> = {}
    OBVIOUS
  <2> QED BY <1>5, <2>1 DEF Rises, Increasing
<1>10. Connections'
  <2>1. \A k \in DOMAIN conn' : conn'[k] \in Conns /\ Rises(conn'[k])
    BY <1>5, <1>7, <1>9 DEF ChannelInv, Connections
  <2>2. conn' = [k \in DOMAIN conn' |-> conn'[k]]
    BY <1>3, <1>7
  <2>3. conn' \in [DOMAIN conn' -> Conns]
    BY <2>1, <2>2
  <2> QED BY <2>1, <2>3 DEF Connections
<1>11. OpenConnection(d)'
  <2>1. Served(d, sent) /\ Heard(d, told)
    BY <1>4, <1>5, NothingYet DEF Served, UpStream, Heard, DownStream
  <2>2. Unread(d)
    BY <1>5 DEF Unread
  <2> QED BY <1>3, <1>6, <2>1, <2>2 DEF OpenConnection
<1> QED BY <1>3, <1>7, <1>8, <1>10, <1>11 DEF ChannelInv

LEMMA ServerSends ==
  ASSUME IpcChannelAssumption, ChannelInv, SendToAll
  PROVE  ChannelInv'
<1>1. told \in Nat /\ told' = told + 1 /\ UNCHANGED <<listening, backlog, clients, window, opened, sent>>
  BY DEF SendToAll, ChannelInv, Ends
<1>2. CASE window \notin clients
  <2>1. conn' = conn
    BY <1>2 DEF SendToAll
  <2>2. Ends' /\ Connections'
    BY <1>1, <2>1 DEF ChannelInv, Ends, Connections
  <2>3. ASSUME window # 0
        PROVE  OpenConnection(conn[window])'
    <3>1. PICK c : c = conn[window]
      OBVIOUS
    <3>2. c \in Conns /\ OpenConnection(c)
      BY <2>3, <3>1, WindowHeld
    <3>3. Heard(c, told + 1)
      <4>1. c.m_buffer \o c.down \in Seq(Units) /\ c.heard \in Seq(Nat)
        BY <3>2, ConnFields
      <4> QED BY <1>1, <3>2, <4>1, FollowsLater DEF OpenConnection, Heard, DownStream
    <3>4. OpenConnection(c)'
      BY <1>1, <1>2, <3>2, <3>3 DEF OpenConnection
    <3> QED BY <1>1, <2>1, <3>1, <3>4
  <2> QED BY <1>1, <2>2, <2>3 DEF ChannelInv
<1>3. CASE window \in clients
  <2>1. window # 0
    BY <1>3 DEF ChannelInv, Ends
  <2>2. PICK c : c = conn[window]
    OBVIOUS
  <2>3. c \in Conns /\ Rises(c) /\ OpenConnection(c) /\ window \in DOMAIN conn
    BY <2>1, <2>2, WindowHeld
  <2>4. \E k \in 0 .. FrameLen, o \in Nat :
          /\ k # FrameLen => o # 0
          /\ k = FrameLen => o = c.odd
          /\ conn' = [conn EXCEPT ![window] = [c EXCEPT !.down = @ \o Part(told + 1, k), !.odd = o]]
    <3>1. conn \in [DOMAIN conn -> Conns]
      BY DEF ChannelInv, Connections
    <3>2. ASSUME conn' = [conn EXCEPT ![window].down = @ \o Frame(told + 1)]
          PROVE  conn' = [conn EXCEPT ![window] = [c EXCEPT !.down = @ \o Part(told + 1, FrameLen), !.odd = c.odd]]
      <4>1. Part(told + 1, FrameLen) = Frame(told + 1)
        BY <1>1, WholePart
      <4>2. [c EXCEPT !.down = c.down \o Frame(told + 1)]
              = [c EXCEPT !.down = c.down \o Frame(told + 1), !.odd = c.odd]
        BY <2>3 DEF Conns
      <4>3. conn' = [conn EXCEPT ![window] = [c EXCEPT !.down = c.down \o Frame(told + 1)]]
        BY <2>2, <3>2
      <4> QED BY <4>1, <4>2, <4>3
    <3>3. ASSUME NEW k \in Cuts(c.down), NEW odd \in OddSizes,
                 conn' = [conn EXCEPT ![window].down = @ \o Part(told + 1, k),
                                      ![window].odd  = IF @ = 0 THEN odd ELSE @]
          PROVE  LET o == IF c.odd = 0 THEN odd ELSE c.odd IN
                 /\ k \in 0 .. FrameLen /\ k # FrameLen /\ o \in Nat /\ o # 0
                 /\ conn' = [conn EXCEPT ![window] = [c EXCEPT !.down = @ \o Part(told + 1, k), !.odd = o]]
      <4>1. k \in 0 .. FrameLen /\ k # FrameLen
        BY DEF Cuts, FrameLen
      <4>2. odd \in Nat /\ odd # 0 /\ c.odd \in Nat
        BY <2>3, ConnFields DEF IpcChannelAssumption
      <4>3. conn' = [conn EXCEPT ![window] =
                       [c EXCEPT !.down = @ \o Part(told + 1, k), !.odd = IF c.odd = 0 THEN odd ELSE c.odd]]
        BY <2>2, <2>3, <3>1, <3>3 DEF Conns
      <4> QED BY <4>1, <4>2, <4>3
    <3>4. \/ conn' = [conn EXCEPT ![window].down = @ \o Frame(told + 1)]
          \/ \E k \in Cuts(c.down), odd \in OddSizes :
               conn' = [conn EXCEPT ![window].down = @ \o Part(told + 1, k),
                                    ![window].odd  = IF @ = 0 THEN odd ELSE @]
      BY <1>3, <2>2 DEF SendToAll
    <3>5. CASE conn' = [conn EXCEPT ![window].down = @ \o Frame(told + 1)]
      <4>1. FrameLen \in 0 .. FrameLen /\ c.odd \in Nat
        BY <2>3, ConnFields DEF FrameLen
      <4> QED BY <3>2, <3>5, <4>1
    <3>6. CASE \E k \in Cuts(c.down), odd \in OddSizes :
                 conn' = [conn EXCEPT ![window].down = @ \o Part(told + 1, k),
                                      ![window].odd  = IF @ = 0 THEN odd ELSE @]
      BY <3>3, <3>6
    <3> QED BY <3>4, <3>5, <3>6
  <2>5. PICK k \in 0 .. FrameLen, o \in Nat :
          /\ k # FrameLen => o # 0
          /\ k = FrameLen => o = c.odd
          /\ conn' = [conn EXCEPT ![window] = [c EXCEPT !.down = @ \o Part(told + 1, k), !.odd = o]]
    BY <2>4
  <2>6. PICK p : p = c.down \o Part(told + 1, k)
    OBVIOUS
  <2>7. PICK e : e = [c EXCEPT !.down = p, !.odd = o]
    OBVIOUS
  <2>8. conn' = [conn EXCEPT ![window] = e]
    BY <2>5, <2>6, <2>7
  <2>9. /\ c.down \in Seq(Units) /\ c.m_buffer \in Seq(Units) /\ c.heard \in Seq(Nat)
        /\ c.since \in Nat /\ Follows(c.heard, c.m_buffer \o c.down, told)
    BY <2>3, ConnFields DEF OpenConnection, Heard, DownStream
  <2>10. p \in Seq(Units)
    <3>1. Growing(c.m_buffer, c.down, told + 1, k)
      BY <1>1, <2>9, StreamGrows
    <3> QED BY <2>6, <3>1 DEF Growing
  <2>11. /\ e \in Conns /\ e.down = p /\ e.m_buffer = c.m_buffer /\ e.heard = c.heard
         /\ e.since = c.since /\ e.odd = o /\ e.up = c.up /\ e.cbuf = c.cbuf
         /\ e.served = c.served /\ e.first = c.first
    BY <2>3, <2>7, <2>10 DEF Conns
  <2>12. Rises(e) /\ Served(e, sent)
    BY <2>3, <2>11 DEF Rises, OpenConnection, Served, UpStream
  <2>13. Heard(e, told + 1)
    BY <1>1, <2>6, <2>9, <2>11, FollowsGrows DEF Heard, DownStream
  <2>14. HeardAll(e, told + 1)
    <3> SUFFICES ASSUME o = 0
                 PROVE  Steady(c.heard, c.since, c.m_buffer \o p, c.m_buffer, told + 1)
      BY <2>11 DEF HeardAll, DownStream
    <3>1. k = FrameLen /\ c.odd = 0
      BY <2>5
    <3>2. p = c.down \o Frame(told + 1)
      <4>1. Part(told + 1, FrameLen) = Frame(told + 1)
        BY <1>1, WholePart
      <4> QED BY <2>6, <3>1, <4>1
    <3>3. Steady(c.heard, c.since, c.m_buffer \o c.down, c.m_buffer, told)
      BY <1>3, <2>3, <3>1 DEF OpenConnection, HeardAll, DownStream
    <3> QED BY <1>1, <2>9, <3>2, <3>3, SteadyGrows
  <2>15. window \notin backlog
    BY <1>3 DEF ChannelInv, Ends
  <2>16. Connections' /\ DOMAIN conn' = DOMAIN conn /\ conn'[window] = e
    BY <2>3, <2>8, <2>11, <2>12, Replaced DEF ChannelInv
  <2>17. Ends'
    BY <1>1, <2>16 DEF ChannelInv, Ends
  <2>18. OpenConnection(e)'
    BY <1>1, <2>12, <2>13, <2>14, <2>15 DEF OpenConnection
  <2> QED BY <1>1, <2>16, <2>17, <2>18 DEF ChannelInv
<1> QED BY <1>2, <1>3

LEMMA ServerAccepts ==
  ASSUME ChannelInv, NEW k \in DOMAIN conn, AcceptClient(k)
  PROVE  ChannelInv'
<1>1. /\ k \in backlog /\ backlog' = backlog \ {k} /\ clients' = clients \cup {k}
      /\ UNCHANGED <<listening, window, opened, told, sent>> /\ told \in Nat
  BY DEF AcceptClient, ChannelInv, Ends
<1>2. PICK c : c = conn[k]
  OBVIOUS
<1>3. c \in Conns /\ Rises(c)
  BY <1>2 DEF ChannelInv, Connections
<1>4. PICK e : e = [c EXCEPT !.since = told]
  OBVIOUS
<1>5. conn' = [conn EXCEPT ![k] = e]
  BY <1>2, <1>4 DEF AcceptClient
<1>6. /\ e \in Conns /\ e.down = c.down /\ e.m_buffer = c.m_buffer /\ e.heard = c.heard
      /\ e.since = told /\ e.odd = c.odd /\ e.up = c.up /\ e.cbuf = c.cbuf
      /\ e.served = c.served /\ e.first = c.first
  BY <1>1, <1>3, <1>4 DEF Conns
<1>7. Rises(e)
  BY <1>3, <1>6 DEF Rises
<1>8. /\ Connections' /\ DOMAIN conn' = DOMAIN conn /\ conn'[k] = e
      /\ \A j \in DOMAIN conn : j # k => conn'[j] = conn[j]
  BY <1>5, <1>6, <1>7, Replaced DEF ChannelInv
<1>9. Ends'
  BY <1>1, <1>8 DEF ChannelInv, Ends
<1>10. ASSUME window # 0
       PROVE  OpenConnection(conn[window])'
  <2>1. window \in DOMAIN conn /\ OpenConnection(conn[window])
    BY <1>10, WindowHeld
  <2>2. CASE window = k
    <3>1. Served(c, sent) /\ Heard(c, told) /\ Unread(c)
      BY <1>1, <1>2, <2>1, <2>2 DEF OpenConnection
    <3>2. Served(e, sent) /\ Heard(e, told)
      BY <1>6, <3>1 DEF Served, UpStream, Heard, DownStream
    <3>3. HeardAll(e, told)
      BY <1>1, <1>6, <3>1, NothingYet DEF HeardAll, DownStream, Unread
    <3>4. OpenConnection(e)'
      BY <1>1, <2>2, <3>2, <3>3 DEF OpenConnection
    <3> QED BY <1>1, <1>8, <2>2, <3>4
  <2>3. CASE window # k
    <3>1. PICK d : d = conn[window]
      OBVIOUS
    <3>2. conn'[window] = d
      BY <1>8, <2>1, <2>3, <3>1
    <3>3. OpenConnection(d)'
      BY <1>1, <2>1, <2>3, <3>1 DEF OpenConnection
    <3> QED BY <1>1, <3>2, <3>3
  <2> QED BY <2>2, <2>3
<1> QED BY <1>1, <1>8, <1>9, <1>10 DEF ChannelInv

LEMMA ServerReads ==
  ASSUME IpcChannelAssumption, ChannelInv, NEW k \in DOMAIN conn, NEW n \in 1 .. Chunk,
         ReadFromClient(k, n)
  PROVE  ChannelInv'
<1>1. PICK c : c = conn[k]
  OBVIOUS
<1>2. /\ k \in clients /\ k = window /\ n \in Reads(c.up)
      /\ UNCHANGED <<listening, backlog, window, opened, told, sent>>
  BY <1>1 DEF ReadFromClient
<1>3. window # 0 /\ sent \in Nat
  BY <1>2 DEF ChannelInv, Ends
<1>4. c \in Conns /\ Rises(c) /\ OpenConnection(c)
  BY <1>1, <1>2, <1>3, WindowHeld
<1>5. /\ c.up \in Seq(Units) /\ c.cbuf \in Seq(Units) /\ c.served \in Seq(Nat)
      /\ c.first \in Nat /\ c.odd \in Nat
      /\ Increasing(c.served) /\ Steady(c.served, c.first, c.cbuf \o c.up, c.cbuf, sent)
  BY <1>4, ConnFields DEF Rises, OpenConnection, Served, UpStream
<1>6. n \in 0 .. Len(c.up)
  <2>1. Chunk \in Nat /\ Len(c.up) \in Nat
    BY <1>5 DEF IpcChannelAssumption
  <2> QED BY <1>2, <2>1 DEF Reads
<1>7. PICK l : l = Loop(c.cbuf \o SubSeq(c.up, 1, n), c.odd)
  OBVIOUS
<1>8. PICK left, rest : /\ left = Compacted(c.cbuf \o SubSeq(c.up, 1, n), l.pos)
                        /\ rest = SubSeq(c.up, n + 1, Len(c.up))
  OBVIOUS
<1>9. Follows(c.served, c.cbuf \o c.up, sent)
  <2>1. c.cbuf \o c.up \in Seq(Units)
    BY <1>5
  <2> QED BY <1>3, <1>5, <2>1, SteadyFollows
<1>10. /\ l.messages \in Seq(Nat) /\ left \in Seq(Units) /\ rest \in Seq(Units)
       /\ \A i \in 0 .. Len(l.messages) : /\ c.served \o SubSeq(l.messages, 1, i) \in Seq(Nat)
                                          /\ Increasing(c.served \o SubSeq(l.messages, 1, i))
  BY <1>3, <1>5, <1>6, <1>7, <1>8, <1>9, ReadFollows
<1>11. l.ok /\ Steady(c.served \o l.messages, c.first, left \o rest, left, sent)
  BY <1>3, <1>5, <1>6, <1>7, <1>8, <1>10, ReadSteady
<1>12. PICK h : h = c.served \o l.messages
  OBVIOUS
<1>13. h \in Seq(Nat) /\ Increasing(h)
  <2>1. Len(l.messages) \in 0 .. Len(l.messages) /\ SubSeq(l.messages, 1, Len(l.messages)) = l.messages
    BY <1>10, TakenAll
  <2> QED BY <1>10, <1>12, <2>1
<1>14. PICK e : e = [c EXCEPT !.up = rest, !.cbuf = left, !.served = h]
  OBVIOUS
<1>15. conn' = [conn EXCEPT ![k] = e] /\ clients' = clients
  <2>1. /\ conn' = [conn EXCEPT ![k].up = SubSeq(@, n + 1, Len(@)),
                                ![k].cbuf = left,
                                ![k].served = @ \o l.messages]
        /\ clients' = clients
    BY <1>1, <1>7, <1>8, <1>11 DEF ReadFromClient
  <2>2. conn \in [DOMAIN conn -> Conns]
    BY DEF ChannelInv, Connections
  <2> QED BY <1>1, <1>4, <1>8, <1>12, <1>14, <2>1, <2>2 DEF Conns
<1>16. /\ e \in Conns /\ e.down = c.down /\ e.m_buffer = c.m_buffer /\ e.heard = c.heard
       /\ e.since = c.since /\ e.odd = c.odd /\ e.up = rest /\ e.cbuf = left
       /\ e.served = h /\ e.first = c.first
  BY <1>4, <1>10, <1>13, <1>14 DEF Conns
<1>17. Rises(e)
  BY <1>4, <1>13, <1>16 DEF Rises
<1>18. Connections' /\ DOMAIN conn' = DOMAIN conn /\ conn'[k] = e
  BY <1>15, <1>16, <1>17, Replaced DEF ChannelInv
<1>19. Ends'
  BY <1>2, <1>15, <1>18 DEF ChannelInv, Ends
<1>20. OpenConnection(e)'
  <2>1. Served(e, sent)
    BY <1>11, <1>12, <1>16 DEF Served, UpStream
  <2>2. Heard(e, told) /\ HeardAll(e, told)
    BY <1>2, <1>4, <1>16 DEF OpenConnection, Heard, HeardAll, DownStream
  <2>3. window \notin backlog
    BY <1>2 DEF ChannelInv, Ends
  <2> QED BY <1>2, <1>15, <2>1, <2>2, <2>3 DEF OpenConnection
<1> QED BY <1>2, <1>18, <1>19, <1>20 DEF ChannelInv

LEMMA ServerLetsGo ==
  ASSUME ChannelInv, (\E k \in DOMAIN conn : ClientHangsUp(k)) \/ ServerStop
  PROVE  ChannelInv'
<1>1. PICK ks : /\ conn' = HeldBy(ks) /\ UNCHANGED <<window, opened, told, sent>>
                /\ backlog' \subseteq backlog /\ clients' \subseteq clients
                /\ (window # 0 => window \in ks)
                /\ (window \in clients' => window \in clients)
                /\ DOMAIN conn \cap ks = (backlog' \cup clients' \cup {window}) \ {0}
  <2>1. ASSUME NEW k \in DOMAIN conn, ClientHangsUp(k)
        PROVE  LET ks == DOMAIN conn \ {k} IN
               /\ conn' = HeldBy(ks) /\ UNCHANGED <<window, opened, told, sent>>
               /\ backlog' \subseteq backlog /\ clients' \subseteq clients
               /\ (window # 0 => window \in ks)
               /\ DOMAIN conn \cap ks = (backlog' \cup clients' \cup {window}) \ {0}
    BY <2>1 DEF ClientHangsUp, Removed, ChannelInv, Ends
  <2>2. ASSUME ServerStop
        PROVE  LET ks == {window} IN
               /\ conn' = HeldBy(ks) /\ UNCHANGED <<window, opened, told, sent>>
               /\ backlog' \subseteq backlog /\ clients' \subseteq clients
               /\ (window # 0 => window \in ks)
               /\ DOMAIN conn \cap ks = (backlog' \cup clients' \cup {window}) \ {0}
    BY <2>2 DEF ServerStop, ChannelInv, Ends
  <2> QED BY <2>1, <2>2
<1>2. /\ Connections' /\ DOMAIN conn' = DOMAIN conn \cap ks
      /\ \A j \in DOMAIN conn' : conn'[j] = conn[j]
  BY <1>1, Dropped DEF ChannelInv
<1>3. Ends'
  BY <1>1, <1>2 DEF ChannelInv, Ends
<1>4. ASSUME window # 0
      PROVE  OpenConnection(conn[window])'
  <2>1. PICK c : c = conn[window]
    OBVIOUS
  <2>2. window \in DOMAIN conn /\ OpenConnection(c)
    BY <1>4, <2>1, WindowHeld
  <2>3. conn'[window] = c
    BY <1>1, <1>2, <1>4, <2>1, <2>2
  <2>4. OpenConnection(c)'
    BY <1>1, <2>2 DEF OpenConnection
  <2> QED BY <1>1, <2>3, <2>4
<1> QED BY <1>1, <1>2, <1>3, <1>4 DEF ChannelInv

LEMMA ChannelStarts ==
  ASSUME ChannelInit
  PROVE  ChannelInv
<1>1. DOMAIN conn = {} /\ conn \in [DOMAIN conn -> Conns]
  BY DEF ChannelInit
<1> QED BY <1>1 DEF ChannelInit, ChannelInv, Ends, Connections

LEMMA ChannelStep ==
  ASSUME IpcChannelAssumption, ChannelInv, [ChannelNext]_channelVars
  PROVE  ChannelInv'
<1>1. CASE \E n \in 1 .. Chunk : ClientReadable(n)
  BY <1>1, WindowReads
<1>2. CASE \E k \in DOMAIN conn, n \in 1 .. Chunk : ReadFromClient(k, n)
  BY <1>2, ServerReads
<1>3. CASE \E k \in DOMAIN conn : AcceptClient(k)
  BY <1>3, ServerAccepts
<1>4. CASE \E k \in DOMAIN conn : ClientHangsUp(k)
  BY <1>4, ServerLetsGo
<1>5. CASE OpenWindow
  BY <1>5, WindowOpens
<1>6. CASE CloseWindow \/ ServerHangsUp
  BY <1>6, WindowCloses
<1>7. CASE SendMessage
  BY <1>7, WindowSends
<1>8. CASE SendToAll
  BY <1>8, ServerSends
<1>9. CASE ServerStop
  BY <1>9, ServerLetsGo
<1>10. CASE ServerStart \/ UNCHANGED channelVars
  <2>1. UNCHANGED <<backlog, clients, window, opened, told, sent, conn>>
    BY <1>10 DEF ServerStart, channelVars
  <2> QED BY <2>1 DEF ChannelInv, Ends, Connections, OpenConnection
<1> QED BY <1>1, <1>2, <1>3, <1>4, <1>5, <1>6, <1>7, <1>8, <1>9, <1>10 DEF ChannelNext

LEMMA InStepNow ==
  ASSUME NEW held \in Seq(Units), NEW taken \in Seq(Nat), NEW before \in Nat, NEW upto \in Nat,
         NEW pipe \in Seq(Units), Steady(taken, before, held \o pipe, held, upto)
  PROVE  InStep(taken, before, upto, pipe)
<1>1. \A i \in DOMAIN taken : taken[i] = before + i
  BY DEF Steady
<1>2. ASSUME pipe = <<>>
      PROVE  before + Len(taken) = upto
  <2>1. held \o pipe = held
    BY <1>2
  <2>2. PICK X \in Nat, L \in Nat : X = before + Len(taken) /\ L = Len(held)
    OBVIOUS
  <2>3. L + 4 * X = 4 * upto /\ L < 4
    BY <2>1, <2>2 DEF Steady, FrameLen
  <2>4. X = upto
    BY <2>3
  <2> QED BY <2>2, <2>4
<1> QED BY <1>1, <1>2 DEF InStep

LEMMA FramesInOrder ==
  ASSUME ChannelInv
  PROVE  FramesArrive
<1>1. ASSUME NEW k \in DOMAIN conn
      PROVE  Increasing(conn[k].heard) /\ Increasing(conn[k].served)
  BY DEF ChannelInv, Connections, Rises
<1>2. ASSUME NEW k \in DOMAIN conn, k = window, k \in clients
      PROVE  /\ conn[k].odd = 0 => InStep(conn[k].heard, conn[k].since, told, conn[k].down)
             /\ InStep(conn[k].served, conn[k].first, sent, conn[k].up)
  <2>1. window # 0 /\ told \in Nat /\ sent \in Nat
    BY <1>2 DEF ChannelInv, Ends
  <2>2. PICK c \in Conns : c = conn[k] /\ OpenConnection(c)
    BY <1>2, <2>1, WindowHeld
  <2>3. /\ Steady(c.served, c.first, c.cbuf \o c.up, c.cbuf, sent)
        /\ c.odd = 0 => Steady(c.heard, c.since, c.m_buffer \o c.down, c.m_buffer, told)
    BY <1>2, <2>2 DEF OpenConnection, Served, UpStream, HeardAll, DownStream
  <2> QED BY <2>1, <2>2, <2>3, ConnFields, InStepNow
<1> QED BY <1>1, <1>2 DEF FramesArrive, ToldInOrder, SentInOrder

\* However reads and writes divide the frames of the socket, through windows
\* that come and go and a daemon that restarts, both ends take the messages
\* out in order, at most once and as they were sent; a connected window's
\* requests all arrive, and its broadcasts too unless one of them was cut.
THEOREM FramesAlwaysArrive == ChannelSpec => []FramesArrive
<1>1. ChannelInit => ChannelInv
  BY ChannelStarts
<1>2. ChannelInv /\ [ChannelNext]_channelVars => ChannelInv'
  BY IpcChannelAssumption, ChannelStep
<1>3. ChannelInv => FramesArrive
  BY FramesInOrder
<1> QED BY <1>1, <1>2, <1>3, PTL DEF ChannelSpec

\* The two ends hold the connections there are and no others, through windows
\* that come and go and a daemon that stops with clients it has not accepted.
THEOREM ChannelTypes == ChannelSpec => []ChannelTypeOK
<1> DEFINE TypeInv == ChannelInv /\ ChannelTypeOK
<1>1. ChannelInit => TypeInv
  <2>1. ChannelInit => ChannelTypeOK
    BY IpcChannelAssumption, ChannelStarts DEF ChannelInit, ChannelTypeOK
  <2> QED BY <2>1, ChannelStarts
<1>2. TypeInv /\ [ChannelNext]_channelVars => TypeInv'
  <2> SUFFICES ASSUME ChannelInv, ChannelTypeOK, [ChannelNext]_channelVars
               PROVE  ChannelTypeOK'
    BY IpcChannelAssumption, ChannelStep
  <2>1. Ends'
    BY IpcChannelAssumption, ChannelStep DEF ChannelInv
  <2>2. listening' \in BOOLEAN
    BY DEF ChannelTypeOK, ChannelNext, channelVars, ClientReadable, ReadFromClient, AcceptClient,
           ClientHangsUp, OpenWindow, CloseWindow, ServerHangsUp, SendMessage, SendToAll, ServerStop,
           ServerStart
  <2>3. told' = told \/ (told < MaxTold /\ told' = told + 1)
    BY DEF ChannelTypeOK, ChannelNext, channelVars, ClientReadable, ReadFromClient, AcceptClient,
           ClientHangsUp, OpenWindow, CloseWindow, ServerHangsUp, SendMessage, SendToAll, ServerStop,
           ServerStart
  <2>4. sent' = sent \/ (sent < MaxSent /\ sent' = sent + 1)
    BY DEF ChannelTypeOK, ChannelNext, channelVars, ClientReadable, ClientReads, ReadFromClient, AcceptClient,
           ClientHangsUp, OpenWindow, CloseWindow, ServerHangsUp, SendMessage, SendToAll, ServerStop,
           ServerStart
  <2>5. told' \in 0 .. MaxTold /\ sent' \in 0 .. MaxSent
    BY <2>3, <2>4, IpcChannelAssumption DEF ChannelTypeOK
  <2> QED BY <2>1, <2>2, <2>5 DEF ChannelTypeOK, Ends
<1>3. TypeInv => ChannelTypeOK
  OBVIOUS
<1> QED BY <1>1, <1>2, <1>3, PTL DEF ChannelSpec

=============================================================================
