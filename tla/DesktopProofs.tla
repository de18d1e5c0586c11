--------------------------- MODULE DesktopProofs ---------------------------
(***************************************************************************)
(* The components beside the job engine, for every value of their          *)
(* constants: the activity log, the remotes pages, the job edit dialog,    *)
(* the file browser and the compare dialog. Each has an inductive          *)
(* invariant of its own, since they share nothing. At the end, with the    *)
(* modules that this one extends, what the whole of MCDesktop keeps.       *)
(***************************************************************************)
EXTENDS MCDesktop, GuiLinkProofs

-----------------------------------------------------------------------------
(***************************************************************************)
(* The activity log. A process between taking the lock file and giving it  *)
(* back is its holder, and the lines it read to rewrite are still those    *)
(* of the file.                                                            *)
(***************************************************************************)
Shaped(o) == o = [kind |-> o.kind, phase |-> o.phase, line |-> o.line, lines |-> o.lines,
                  days |-> o.days, cutoff |-> o.cutoff, kept |-> o.kept]

LockInv ==
  /\ op = [p \in Writers |-> op[p]] /\ \A p \in Writers : Shaped(op[p])
  /\ \A p \in Writers :
       /\ op[p].phase \in {"inside", "read"} => holder = p
       /\ op[p].phase = "read" => op[p].kept = Kept(op[p], log)
  /\ log = sequential

LEMMA OpCalled ==
  ASSUME NEW kind
  PROVE  Op(kind) = [kind |-> kind, phase |-> "called", line |-> NoLog, lines |-> <<>>,
                     days |-> 0, cutoff |-> 0, kept |-> <<>>]
<1>1. [Idle EXCEPT !.kind = kind] = [kind |-> kind, phase |-> "none", line |-> NoLog, lines |-> <<>>,
                                     days |-> 0, cutoff |-> 0, kept |-> <<>>]
  BY DEF Idle
<1>2. Op(kind) = [[Idle EXCEPT !.kind = kind] EXCEPT !.phase = "called"]
  BY DEF Op
<1> QED BY <1>1, <1>2

\* One process moves on: what it needs to be in "inside" or "read", and that it
\* changes the log only as the holder of the lock.
LEMMA OneMoves ==
  ASSUME LockInv, NEW p \in Writers, NEW o,
         op' = [op EXCEPT ![p] = o], Shaped(o),
         o.phase \in {"inside", "read"} => holder' = p,
         o.phase = "read" => o.kept = Kept(o, log'),
         log' = log \/ op[p].phase \in {"inside", "read"},
         holder' = holder \/ holder = p \/ holder = Nobody,
         log' = sequential'
  PROVE  LockInv'
<1>1. op' = [q \in Writers |-> op'[q]] /\ op'[p] = o /\ \A q \in Writers \ {p} : op'[q] = op[q]
  BY DEF LockInv
<1>2. \A q \in Writers : Shaped(op'[q])
  BY <1>1 DEF LockInv
<1>3. ASSUME NEW q \in Writers, q # p
      PROVE  /\ op'[q].phase \in {"inside", "read"} => holder' = q
             /\ op'[q].phase = "read" => op'[q].kept = Kept(op'[q], log')
  <2>1. op'[q] = op[q]
    BY <1>1, <1>3
  <2>2. q # Nobody
    BY DEF Writers, Nobody
  <2>3. op[q].phase \in {"inside", "read"} => holder = q /\ holder' = q /\ log' = log
    BY <1>3, <2>2 DEF LockInv
  <2> QED BY <2>1, <2>3 DEF LockInv
<1>4. \A q \in Writers : /\ op'[q].phase \in {"inside", "read"} => holder' = q
                         /\ op'[q].phase = "read" => op'[q].kept = Kept(op'[q], log')
  BY <1>1, <1>3
<1>5. Shaped(op[p])' <=> Shaped(op'[p])
  BY DEF Shaped
<1> QED BY <1>1, <1>2, <1>4 DEF LockInv, Shaped, Kept

LEMMA LockStep ==
  ASSUME LockInv, [LogNext]_logVars
  PROVE  LockInv'
<1>1. CASE UNCHANGED <<log, holder, op, sequential>>
  BY <1>1 DEF LockInv, Kept, Shaped
<1>2. CASE DayPasses
  BY <1>1, <1>2 DEF DayPasses
<1>3. CASE DaemonDies
  <2>1. "daemon" \in Writers /\ Shaped(Idle) /\ Idle.phase \notin {"inside", "read"}
    BY DEF Writers, Idle, Shaped
  <2>2. /\ op' = [op EXCEPT !["daemon"] = Idle] /\ log' = log /\ log' = sequential'
        /\ holder' = holder \/ holder = "daemon"
    BY <1>3 DEF DaemonDies, Leave, LockInv
  <2> HIDE DEF Idle
  <2> QED BY <2>1, <2>2, OneMoves
<1>4. CASE Refresh \/ AskDelete \/ \E picks \in SUBSET DOMAIN store : SelectLines(picks)
  BY <1>1, <1>4 DEF Refresh, AskDelete, SelectLines
<1>5. ASSUME NEW days \in Retentions, TypeRetention(days)
      PROVE  LockInv'
  BY <1>1, <1>5 DEF TypeRetention
<1>6. ASSUME NEW failed \in BOOLEAN, Report(failed)
      PROVE  LockInv'
  <2> DEFINE n == IF failed THEN [n |-> written + 1, day |-> today] ELSE NoLog
             o == [Op("append") EXCEPT !.line = n]
  <2>1. "daemon" \in Writers /\ Shaped(o) /\ o.phase \notin {"inside", "read"}
    BY OpCalled DEF Writers, Shaped
  <2>2. /\ op' = [op EXCEPT !["daemon"] = o] /\ log' = log /\ log' = sequential'
        /\ holder' = holder
    BY <1>6 DEF Report, LockInv
  <2> HIDE DEF o
  <2> QED BY <2>1, <2>2, OneMoves
<1>7. ASSUME NEW yes \in BOOLEAN, Confirm(yes)
      PROVE  LockInv'
  <2> DEFINE o == [Op("delete") EXCEPT !.lines = Chosen]
  <2>1. "window" \in Writers /\ Shaped(o) /\ o.phase \notin {"inside", "read"}
    BY OpCalled DEF Writers, Shaped
  <2>2. /\ op' = [op EXCEPT !["window"] = o] \/ op' = op
        /\ log' = log /\ log' = sequential' /\ holder' = holder /\ sequential' = sequential
    BY <1>7 DEF Confirm, LockInv
  <2> HIDE DEF o
  <2>3. CASE op' = [op EXCEPT !["window"] = o]
    BY <2>1, <2>2, <2>3, OneMoves
  <2> QED BY <1>1, <2>2, <2>3
<1>8. ASSUME NEW p \in Writers, Prune(p)
      PROVE  LockInv'
  <2> DEFINE o == [Op("prune") EXCEPT !.days = retention]
  <2>1. Shaped(o) /\ o.phase \notin {"inside", "read"}
    BY OpCalled DEF Shaped
  <2>2. /\ op' = [op EXCEPT ![p] = o] /\ log' = log /\ log' = sequential'
        /\ holder' = holder
    BY <1>8 DEF Prune, LockInv
  <2> HIDE DEF o
  <2> QED BY <2>1, <2>2, OneMoves
<1>9. ASSUME NEW p \in Writers, Enter(p)
      PROVE  LockInv'
  <2> DEFINE o == [op[p] EXCEPT !.phase = "inside"]
  <2>1. Shaped(op[p])
    BY DEF LockInv
  <2>2. Shaped(o) /\ o.phase = "inside"
    BY <2>1 DEF Shaped
  <2>3. /\ op' = [op EXCEPT ![p] = o] /\ log' = log /\ log' = sequential'
        /\ holder = Nobody /\ holder' = p
    BY <1>9 DEF Enter, MayEnter, LockInv
  <2> HIDE DEF o
  <2> QED BY <2>2, <2>3, OneMoves
<1>10. ASSUME NEW p \in Writers, AppendLine(p)
       PROVE  LockInv'
  <2>1. Shaped(Idle) /\ Idle.phase \notin {"inside", "read"}
    BY DEF Idle, Shaped
  <2>2. /\ op' = [op EXCEPT ![p] = Idle] /\ log' = sequential' /\ op[p].phase = "inside"
        /\ holder' = holder \/ holder = p
    BY <1>10 DEF AppendLine, Leave, LockInv
  <2> HIDE DEF Idle
  <2> QED BY <2>1, <2>2, OneMoves
<1>11. ASSUME NEW p \in Writers, ReadForRewrite(p)
       PROVE  LockInv'
  <2> DEFINE c == [op[p] EXCEPT !.cutoff = today - op[p].days]
             r == [op[p] EXCEPT !.cutoff = today - op[p].days, !.phase = "read"]
             o == [r EXCEPT !.kept = Kept(r, log)]
  <2>1. Shaped(op[p])
    BY DEF LockInv
  <2>2. Shaped(r) /\ r.phase = "read"
    <3>1. Shaped(c)
      BY <2>1 DEF Shaped
    <3>2. r = [c EXCEPT !.phase = "read"]
      OBVIOUS
    <3> HIDE DEF c, r
    <3> QED BY <3>1, <3>2 DEF Shaped
  <2> HIDE DEF r
  <2>3. /\ Shaped(o) /\ o.phase = "read" /\ o.kept = Kept(r, log)
        /\ o.kind = r.kind /\ o.cutoff = r.cutoff /\ o.lines = r.lines
    BY <2>2 DEF Shaped
  <2>4. /\ op' = [op EXCEPT ![p] = o] /\ log' = log /\ log' = sequential' /\ holder' = holder
        /\ op[p].phase = "inside"
    BY <1>11 DEF ReadForRewrite, LockInv, r
  <2> HIDE DEF o
  <2>5. o.kept = Kept(o, log') /\ holder = p
    BY <2>3, <2>4 DEF Kept, LockInv
  <2> QED BY <2>3, <2>4, <2>5, OneMoves
<1>12. ASSUME NEW p \in Writers, NEW done \in BOOLEAN, Rename(p, done)
       PROVE  LockInv'
  <2> DEFINE o == [op[p] EXCEPT !.phase = IF done THEN "renamed" ELSE "failed"]
  <2>1. Shaped(op[p])
    BY DEF LockInv
  <2>2. Shaped(o) /\ o.phase \notin {"inside", "read"}
    BY <2>1 DEF Shaped
  <2>3. /\ op' = [op EXCEPT ![p] = o] /\ op[p].phase = "read"
        /\ holder' = holder \/ holder = p
    BY <1>12 DEF Rename, Leave
  <2>4. log' = sequential'
    BY <1>12, <2>3 DEF Rename, LockInv
  <2> HIDE DEF o
  <2> QED BY <2>2, <2>3, <2>4, OneMoves
<1>13. ASSUME NEW p \in Writers, FinishRewrite(p)
       PROVE  LockInv'
  <2>1. Shaped(Idle) /\ Idle.phase \notin {"inside", "read"}
    BY DEF Idle, Shaped
  <2>2. /\ op' = [op EXCEPT ![p] = Idle] /\ log' = log /\ log' = sequential' /\ holder' = holder
    BY <1>13 DEF FinishRewrite, LockInv
  <2> HIDE DEF Idle
  <2> QED BY <2>1, <2>2, OneMoves
<1>14. CASE UNCHANGED logVars
  BY <1>1, <1>14 DEF logVars
<1> QED
  BY <1>2, <1>3, <1>4, <1>5, <1>6, <1>7, <1>8, <1>9, <1>10, <1>11, <1>12, <1>13, <1>14 DEF LogNext

LEMMA LockStarts == LogInit => LockInv
<1> SUFFICES ASSUME LogInit
             PROVE  LockInv
  OBVIOUS
<1>1. op = [p \in Writers |-> Idle] /\ log = sequential
  BY DEF LogInit
<1>2. Shaped(Idle) /\ Idle.phase \notin {"inside", "read"}
  BY DEF Idle, Shaped
<1> HIDE DEF Idle
<1> QED BY <1>1, <1>2 DEF LockInv

\* "Keeps appends from the daemon and rewrites from the GUI from racing each
\* other" (activity_log.cpp): the log file is what it would be, had each append,
\* prune and deletion been one step, however long the log is, whatever lines
\* repeat and whenever the daemon dies.
THEOREM LogIsSequential == LogSpec => []LogSequential
<1>1. LogInit => LockInv
  BY LockStarts
<1>2. LockInv /\ [LogNext]_logVars => LockInv'
  BY LockStep
<1>3. LockInv => LogSequential
  BY DEF LockInv, LogSequential
<1> QED BY <1>1, <1>2, <1>3, PTL DEF LogSpec

LogLinks == [n : Nat, day : Nat]
LogLines == [day : Nat, link : LogLinks]

\* An error log is linked once.
Once(s) == \A i, j \in DOMAIN s : s[i].link = s[j].link /\ s[i].link # NoLog => i = j

\* What is selected of some lines: those at the rows, and no link twice.
LEMMA SelectedPart ==
  ASSUME NEW T, NEW s \in Seq(T), NEW picks
  PROVE  LET left == Selected(s, picks) IN
         /\ left \in Seq(T)
         /\ \A j \in DOMAIN left : \E i \in DOMAIN s : left[j] = s[i] /\ i \in picks
         /\ Once(s) => Once(left)
<1> DEFINE Keep(g, i) == IF i = 0 THEN <<>>
                         ELSE IF i \in picks THEN Append(g[i - 1], s[i]) ELSE g[i - 1]
           kept == CHOOSE g : g = [i \in 0 .. Len(s) |-> Keep(g, i)]
<1>1. Len(s) \in Nat /\ DOMAIN s = 1 .. Len(s) /\ \A i \in DOMAIN s : s[i] \in T
  OBVIOUS
<1>2. kept = [i \in 0 .. Len(s) |-> Keep(kept, i)]
  <2> DEFINE Reached == {n \in Nat : \E g : g = [i \in 0 .. n |-> Keep(g, i)]}
  <2>1. 0 \in Reached
    <3> DEFINE g == [i \in 0 .. 0 |-> <<>>]
    <3>1. g = [i \in 0 .. 0 |-> Keep(g, i)]
      OBVIOUS
    <3> HIDE DEF Keep, g
    <3> QED BY <3>1
  <2>2. ASSUME NEW n \in Reached
        PROVE  n + 1 \in Reached
    <3>1. PICK g : g = [i \in 0 .. n |-> Keep(g, i)]
      OBVIOUS
    <3> DEFINE h == [i \in 0 .. (n + 1) |-> IF i = n + 1 THEN Keep(g, n + 1) ELSE g[i]]
    <3>2. \A i \in 0 .. (n + 1) : Keep(h, i) = Keep(g, i)
      OBVIOUS
    <3> HIDE DEF Keep
    <3>3. \A i \in 0 .. n : g[i] = Keep(g, i)
      BY <3>1
    <3>4. h = [i \in 0 .. (n + 1) |-> Keep(h, i)]
      BY <3>2, <3>3
    <3> HIDE DEF h
    <3> QED BY <3>4
  <2> HIDE DEF Keep
  <2>3. Reached \in SUBSET Nat
    OBVIOUS
  <2>4. Len(s) \in Reached
    <3> HIDE DEF Reached
    <3> QED BY <1>1, <2>1, <2>2, <2>3, Induction
  <2> QED BY <2>4
<1>3. Selected(s, picks) = kept[Len(s)]
  BY DEF Selected
<1> HIDE DEF kept
<1>4. kept[0] = <<>>
  BY <1>1, <1>2
<1>5. \A i \in 1 .. Len(s) :
        kept[i] = IF i \in picks THEN Append(kept[i - 1], s[i]) ELSE kept[i - 1]
  <2>1. \A i \in 0 .. Len(s) : kept[i] = Keep(kept, i)
    <3> HIDE DEF Keep
    <3> QED BY <1>2
  <2> QED BY <1>1, <2>1
<1> HIDE DEF Keep
<1> DEFINE Right(n) ==
             /\ kept[n] \in Seq(T)
             /\ \A j \in DOMAIN kept[n] : \E i \in 1 .. n : kept[n][j] = s[i] /\ i \in picks
             /\ Once(s) => Once(kept[n])
           Done == {n \in Nat : n <= Len(s) => Right(n)}
<1>6. 0 \in Done
  <2>1. kept[0] \in Seq(T) /\ DOMAIN kept[0] = {} /\ 1 .. 0 = {}
    BY <1>4
  <2> QED BY <2>1 DEF Once
<1>7. ASSUME NEW n \in Done
      PROVE  n + 1 \in Done
  <2> SUFFICES ASSUME n + 1 <= Len(s)
               PROVE  Right(n + 1)
    OBVIOUS
  <2>1. Right(n)
    BY <1>1
  <2>2. CASE n + 1 \notin picks
    <3>1. kept[n + 1] = kept[n]
      BY <1>1, <1>5, <2>2
    <3> QED BY <2>1, <2>2, <3>1
  <2>3. CASE n + 1 \in picks
    <3>1. kept[n + 1] = Append(kept[n], s[n + 1]) /\ s[n + 1] \in T
      <4>1. n + 1 \in 1 .. Len(s) /\ (n + 1) - 1 = n
        BY <1>1
      <4> QED BY <1>1, <1>5, <2>3, <4>1
    <3> DEFINE k == kept[n]  l == kept[n + 1]
    <3>2. /\ l \in Seq(T) /\ Len(l) = Len(k) + 1 /\ l[Len(k) + 1] = s[n + 1]
          /\ \A j \in 1 .. Len(k) : l[j] = k[j]
          /\ DOMAIN l = 1 .. Len(k) + 1 /\ DOMAIN k = 1 .. Len(k) /\ Len(k) \in Nat
      BY <2>1, <3>1
    <3>3. \A j \in 1 .. Len(k) : \E i \in 1 .. n : l[j] = s[i] /\ i \in picks
      BY <2>1, <3>2
    <3>4. Once(s) => Once(k)
      BY <2>1
    <3> HIDE DEF k, l
    <3>5. \A j \in DOMAIN l : \E i \in 1 .. n + 1 : l[j] = s[i] /\ i \in picks
      <4> SUFFICES ASSUME NEW j \in DOMAIN l
                   PROVE  \E i \in 1 .. n + 1 : l[j] = s[i] /\ i \in picks
        OBVIOUS
      <4>1. CASE j = Len(k) + 1
        <5>1. n + 1 \in 1 .. n + 1
          OBVIOUS
        <5> QED BY <2>3, <3>2, <4>1, <5>1
      <4>2. CASE j \in 1 .. Len(k)
        <5>1. PICK i \in 1 .. n : l[j] = s[i] /\ i \in picks
          BY <3>3, <4>2
        <5>2. i \in 1 .. n + 1
          OBVIOUS
        <5> QED BY <5>1, <5>2
      <4> QED BY <3>2, <4>1, <4>2
    <3>6. ASSUME Once(s)
          PROVE  Once(l)
      <4>1. ASSUME NEW i \in 1 .. Len(k), l[i].link # NoLog
            PROVE  l[i].link # s[n + 1].link
        <5>1. PICK r \in 1 .. n : l[i] = s[r]
          BY <3>3
        <5>2. r \in DOMAIN s /\ n + 1 \in DOMAIN s /\ r # n + 1
          BY <1>1
        <5> QED BY <3>6, <4>1, <5>1, <5>2 DEF Once
      <4> SUFFICES ASSUME NEW i \in DOMAIN l, NEW j \in DOMAIN l, l[i].link = l[j].link, l[i].link # NoLog
                   PROVE  i = j
        BY DEF Once
      <4>2. CASE i \in 1 .. Len(k) /\ j \in 1 .. Len(k)
        BY <3>2, <3>4, <3>6, <4>2 DEF Once
      <4>3. CASE i = Len(k) + 1 \/ j = Len(k) + 1
        BY <3>2, <4>1, <4>3
      <4> QED BY <3>2, <4>2, <4>3
    <3> QED BY <3>2, <3>5, <3>6 DEF l
  <2> QED BY <2>2, <2>3
<1>8. Len(s) \in Done
  <2>1. Done \in SUBSET Nat
    OBVIOUS
  <2> HIDE DEF Done
  <2> QED BY <1>1, <1>6, <1>7, <2>1, Induction
<1>9. Right(Len(s))
  BY <1>1, <1>8
<1> QED BY <1>1, <1>3, <1>9

\* A line that is linked once and is an entry goes.
LEMMA MinusTakes ==
  ASSUME NEW T, NEW s \in Seq(T), NEW entries \in Seq(T), Once(s)
  PROVE  \A j \in DOMAIN Minus(s, entries) :
           LET x == Minus(s, entries)[j] IN
           x.link # NoLog => \A k \in DOMAIN entries : entries[k] # x
<1> DEFINE picks == {i \in DOMAIN s :
             Occurrences(SubSeq(s, 1, i), s[i]) > Occurrences(entries, s[i])}
<1>1. Minus(s, entries) = Selected(s, picks)
  BY DEF Minus
<1> SUFFICES ASSUME NEW j \in DOMAIN Selected(s, picks), Selected(s, picks)[j].link # NoLog,
                    NEW k \in DOMAIN entries, entries[k] = Selected(s, picks)[j]
             PROVE  FALSE
  BY <1>1
<1>2. PICK i \in DOMAIN s : Selected(s, picks)[j] = s[i] /\ i \in picks
  <2> HIDE DEF picks
  <2> QED BY SelectedPart
<1> DEFINE early == {r \in DOMAIN SubSeq(s, 1, i) : SubSeq(s, 1, i)[r] = s[i]}
           equal == {r \in DOMAIN entries : entries[r] = s[i]}
<1>3. early = {i}
  <2>1. /\ DOMAIN SubSeq(s, 1, i) = 1 .. i /\ 1 .. i \subseteq DOMAIN s /\ i \in 1 .. i
        /\ \A r \in 1 .. i : SubSeq(s, 1, i)[r] = s[r]
    OBVIOUS
  <2>2. \A r \in 1 .. i : s[r] = s[i] => r = i
    BY <1>2, <2>1 DEF Once
  <2> QED BY <2>1, <2>2
<1>4. Cardinality(early) = 1
  BY <1>3, FS_Singleton
<1>5. IsFiniteSet(equal)
  <2>1. IsFiniteSet(DOMAIN entries)
    <3>1. DOMAIN entries = 1 .. Len(entries) /\ Len(entries) \in Nat
      OBVIOUS
    <3> QED BY <3>1, FS_Interval
  <2>2. equal \subseteq DOMAIN entries
    OBVIOUS
  <2> QED BY <2>1, <2>2, FS_Subset
<1>6. Cardinality(equal) \in Nat /\ Cardinality(equal) # 0
  <2>1. k \in equal
    BY <1>2
  <2> HIDE DEF equal
  <2> QED BY <1>5, <2>1, FS_CardinalityType, FS_EmptySet
<1>7. Cardinality(early) > Cardinality(equal)
  BY <1>2 DEF Occurrences
<1> HIDE DEF early, equal
<1> QED BY <1>4, <1>6, <1>7

LEMMA KeptPart ==
  ASSUME NEW T, NEW s \in Seq(T), NEW o
  PROVE  /\ Kept(o, s) \in Seq(T) /\ ToSet(Kept(o, s)) \subseteq ToSet(s)
         /\ Once(s) => Once(Kept(o, s))
<1>1. PICK picks : Kept(o, s) = Selected(s, picks)
  BY DEF Kept, Remaining, Minus
<1>2. ToSet(Selected(s, picks)) \subseteq ToSet(s)
  BY SelectedPart DEF ToSet
<1> QED BY <1>1, <1>2, SelectedPart

(***************************************************************************)
(* The lines that are anywhere name their error logs by numbers used once. *)
(* The one that the daemon is about to add names a log no line has yet,    *)
(* and once a deletion has renamed the file, no line of it has the log of  *)
(* a line that went. So what a deletion drops after the lock was released  *)
(* are the logs of no line, and what a prune drops is what it sweeps.      *)
(***************************************************************************)
Known == ToSet(log) \cup ToSet(store) \cup ToSet(op["window"].lines)

LinkTypes ==
  /\ written \in Nat /\ today \in Nat /\ swept \in Int /\ retention \in Nat
  /\ log \in Seq(LogLines) /\ store \in Seq(LogLines) /\ op["window"].lines \in Seq(LogLines)
  /\ op["window"].kind # "append" /\ op["daemon"].kind # "delete"
  /\ \A p \in Writers : op[p].days \in Nat

Numbers ==
  /\ \A x \in Known : x.link.n <= written
  /\ \A x, y \in Known : x.link = y.link /\ x.link # NoLog => x = y
  /\ Once(log)

Reported(link) ==
  /\ link \in LogLinks /\ link.n <= written
  /\ link # NoLog => /\ link \in errorLogs \/ Expired(link, swept)
                     /\ \A x \in Known : x.link # link

Gone ==
  op["window"].kind = "delete" /\ op["window"].phase = "renamed" =>
    \A x \in ToSet(log) : x.link \notin Links(op["window"].lines)

Outlive == \A x \in ToSet(log) : x.link # NoLog => x.link \in errorLogs \/ Expired(x.link, swept)

LinkInv ==
  /\ LinkTypes /\ Numbers /\ Gone /\ Outlive
  /\ op["daemon"].kind = "append" => Reported(op["daemon"].line)

LEMMA KnownTyped ==
  ASSUME LinkTypes
  PROVE  \A x \in Known : /\ x \in LogLines /\ x.link \in LogLinks /\ x.day \in Nat
                          /\ x.link.n \in Nat /\ x.link.day \in Nat
<1>1. \A s \in Seq(LogLines) : ToSet(s) \subseteq LogLines
  BY DEF ToSet
<1>2. Known \subseteq LogLines
  BY <1>1 DEF Known, LinkTypes
<1> QED BY <1>2 DEF LogLines, LogLinks

LEMMA OpMoves ==
  ASSUME LockInv, NEW p \in Writers, NEW o, op' = [op EXCEPT ![p] = o]
  PROVE  op'[p] = o /\ \A q \in Writers \ {p} : op'[q] = op[q]
BY DEF LockInv

\* A step that touches neither the log nor what is known of it.
LEMMA LogRests ==
  ASSUME LinkInv, UNCHANGED <<log, errorLogs, swept, written, today>>, Known' \subseteq Known,
         LinkTypes', Gone',
         op["daemon"].kind' = "append" =>
           op["daemon"].kind = "append" /\ op["daemon"].line' = op["daemon"].line
  PROVE  LinkInv'
<1>1. Numbers'
  BY DEF LinkInv, Numbers, Once
<1>2. Outlive'
  BY DEF LinkInv, Outlive, Expired
<1>3. op["daemon"].kind' = "append" => Reported(op["daemon"].line)'
  BY DEF LinkInv, Reported, Expired
<1> QED BY <1>1, <1>2, <1>3 DEF LinkInv

LEMMA ShownPart ==
  ASSUME LinkTypes, ReadLog
  PROVE  store' \in Seq(LogLines) /\ ToSet(store') \subseteq ToSet(log)
<1>1. PICK a \in Nat \ {0} : Shown = SubSeq(log, a, Len(log))
  <2> DEFINE a == IF Len(log) > LastLines THEN Len(log) - LastLines + 1 ELSE 1
  <2>1. Len(log) \in Nat /\ LastLines \in Nat
    BY LogAssumption DEF LinkTypes
  <2>2. a \in Nat \ {0}
    BY <2>1
  <2>3. Shown = SubSeq(log, a, Len(log))
    BY DEF Shown
  <2> QED BY <2>2, <2>3
<1>2. Shown \in Seq(LogLines) /\ \A i \in DOMAIN Shown : Shown[i] \in ToSet(log)
  <2>1. log \in Seq(LogLines) /\ Len(log) \in Nat
    BY DEF LinkTypes
  <2>2. /\ Shown \in Seq(LogLines)
        /\ \A i \in DOMAIN Shown : Shown[i] = log[a + i - 1] /\ a + i - 1 \in DOMAIN log
    BY <1>1, <2>1
  <2> QED BY <2>2 DEF ToSet
<1>3. /\ Len(Shown) \in Nat /\ DOMAIN Shown = 1 .. Len(Shown)
      /\ Reverse(Shown) = [i \in 1 .. Len(Shown) |-> Shown[(Len(Shown) - i) + 1]]
  BY <1>2 DEF Reverse
<1>4. \A i \in 1 .. Len(Shown) : (Len(Shown) - i) + 1 \in DOMAIN Shown
  BY <1>3
<1>5. \A i \in DOMAIN Shown : Shown[i] \in LogLines
  BY <1>2
<1> HIDE DEF Shown
<1>6. Reverse(Shown) \in Seq(LogLines)
  BY <1>3, <1>4, <1>5
<1>7. ToSet(Reverse(Shown)) \subseteq ToSet(log)
  <2>1. \A i \in 1 .. Len(Shown) : Reverse(Shown)[i] \in ToSet(log)
    BY <1>2, <1>3, <1>4
  <2>2. DOMAIN Reverse(Shown) = 1 .. Len(Shown)
    BY <1>3
  <2>3. ToSet(Reverse(Shown)) = {Reverse(Shown)[i] : i \in DOMAIN Reverse(Shown)}
    BY DEF ToSet
  <2> QED BY <2>1, <2>2, <2>3
<1> QED BY <1>6, <1>7 DEF ReadLog

\* One process moves on, and nothing else that matters here.
LEMMA OneMovesOn ==
  ASSUME LinkInv, LockInv, NEW p \in Writers, NEW o, op' = [op EXCEPT ![p] = o],
         UNCHANGED <<today, log, errorLogs, store, written, swept>>, retention' = retention,
         p = "window" => /\ o.kind # "append" /\ o.lines \in Seq(LogLines)
                         /\ ToSet(o.lines) \subseteq Known,
         p = "daemon" => /\ o.kind # "delete"
                         /\ o.kind = "append" => op[p].kind = "append" /\ o.line = op[p].line,
         o.days \in Nat, o.phase # "renamed"
  PROVE  LinkInv'
<1>1. op'[p] = o /\ \A q \in Writers \ {p} : op'[q] = op[q]
  BY OpMoves
<1>2. Writers = {"daemon", "window"} /\ p \in {"daemon", "window"}
  BY DEF Writers
<1>3. LinkTypes'
  BY <1>1, <1>2 DEF LinkTypes, LinkInv
<1>4. Known' \subseteq Known
  BY <1>1, <1>2 DEF Known
<1>6. Gone'
  <2> SUFFICES ASSUME op'["window"].kind = "delete", op'["window"].phase = "renamed"
               PROVE  \A x \in ToSet(log') : x.link \notin Links(op'["window"].lines)
    BY DEF Gone
  <2>1. op'["window"] = op["window"]
    BY <1>1, <1>2
  <2> QED BY <2>1 DEF Gone, LinkInv
<1>7. op["daemon"].kind' = "append" =>
        op["daemon"].kind = "append" /\ op["daemon"].line' = op["daemon"].line
  BY <1>1, <1>2
<1> QED BY <1>3, <1>4, <1>6, <1>7, LogRests

LEMMA ReportLinks ==
  ASSUME LinkInv, LockInv, NEW failed \in BOOLEAN, Report(failed)
  PROVE  LinkInv'
<1>0. PICK link : link = IF failed THEN [n |-> written + 1, day |-> today] ELSE NoLog
  OBVIOUS
<1> DEFINE o == [Op("append") EXCEPT !.line = link]
<1>1. o = [kind |-> "append", phase |-> "called", line |-> link, lines |-> <<>>, days |-> 0,
           cutoff |-> 0, kept |-> <<>>]
  BY OpCalled
<1>2. /\ "daemon" \in Writers /\ op' = [op EXCEPT !["daemon"] = o] /\ written' = written + 1
      /\ errorLogs' = IF failed THEN errorLogs \cup {link} ELSE errorLogs
      /\ today' = today /\ log' = log /\ store' = store /\ swept' = swept /\ retention' = retention
  BY <1>0 DEF Report, Writers, shownVars
<1> HIDE DEF o
<1>3. op'["daemon"] = o /\ op'["window"] = op["window"] /\ \A q \in Writers : q # "daemon" => op'[q] = op[q]
  BY <1>2, OpMoves DEF Writers
<1>4. /\ written \in Nat /\ today \in Nat /\ Known' = Known
      /\ \A x \in Known : x.link.n \in Nat /\ x.link.n <= written
  BY <1>2, <1>3, KnownTyped DEF Known, LinkInv, LinkTypes, Numbers
<1>5. LinkTypes'
  <2>1. o.days \in Nat /\ o.kind # "delete"
    BY <1>1
  <2>2. \A q \in Writers : op'[q].days \in Nat
    BY <1>3, <2>1 DEF LinkTypes, LinkInv
  <2> QED BY <1>2, <1>3, <2>1, <2>2 DEF LinkTypes, LinkInv
<1>6. Numbers'
  <2>1. \A x \in Known : x.link.n <= written + 1
    BY <1>4
  <2> QED BY <1>2, <1>4, <2>1 DEF Numbers, LinkInv, Once
<1>8. Gone'
  BY <1>2, <1>3 DEF Gone, LinkInv
<1>9. Outlive'
  BY <1>2 DEF Outlive, LinkInv, Expired
<1>10. Reported(op["daemon"].line)'
  <2>1. op'["daemon"].line = link /\ link \in LogLinks /\ link.n <= written'
    BY <1>0, <1>1, <1>2, <1>3, <1>4 DEF LogLinks, NoLog
  <2>2. ASSUME link # NoLog
        PROVE  link \in errorLogs' /\ \A x \in Known' : x.link # link
    <3>1. link.n = written + 1 /\ link \in errorLogs'
      BY <1>0, <1>2, <2>2
    <3>2. \A x \in Known : x.link.n # written + 1
      BY <1>4
    <3> QED BY <1>4, <3>1, <3>2
  <2> QED BY <2>1, <2>2 DEF Reported
<1> QED BY <1>5, <1>6, <1>8, <1>9, <1>10 DEF LinkInv

LEMMA AppendLinks ==
  ASSUME LinkInv, LockInv, NEW p \in Writers, AppendLine(p)
  PROVE  LinkInv'
<1> DEFINE n == op["daemon"].line
           x == Line(n)
<1>1. /\ p = "daemon" /\ log' = Append(log, x) /\ op' = [op EXCEPT ![p] = Idle]
      /\ today' = today /\ errorLogs' = errorLogs /\ store' = store /\ written' = written
      /\ swept' = swept /\ retention' = retention /\ op["daemon"].kind = "append"
  BY DEF AppendLine, LinkInv, LinkTypes, Writers, shownVars
<1>2. op'["daemon"] = Idle /\ op'["window"] = op["window"]
  BY <1>1, OpMoves DEF Writers
<1>3. Reported(n) /\ written \in Nat /\ today \in Nat /\ log \in Seq(LogLines)
  BY <1>1 DEF LinkInv, LinkTypes
<1>4. x \in LogLines /\ x.link = n /\ n.n <= written
  BY <1>3 DEF Line, LogLines, Reported
<1>5. n # NoLog => /\ n \in errorLogs \/ Expired(n, swept)
                   /\ \A y \in Known : y.link # n
  BY <1>3 DEF Reported
<1> HIDE DEF n, x
<1>6. /\ log' \in Seq(LogLines) /\ Len(log) \in Nat /\ DOMAIN log' = 1 .. Len(log) + 1
      /\ DOMAIN log = 1 .. Len(log) /\ log'[Len(log) + 1] = x
      /\ \A i \in 1 .. Len(log) : log'[i] = log[i]
  BY <1>1, <1>3, <1>4
<1>7. ToSet(log') \subseteq ToSet(log) \cup {x}
  <2>1. \A i \in DOMAIN log' : log'[i] \in ToSet(log) \cup {x}
    BY <1>6 DEF ToSet
  <2> QED BY <2>1 DEF ToSet
<1>8. Known' \subseteq Known \cup {x}
  BY <1>1, <1>2, <1>7 DEF Known
<1>9. LinkTypes'
  <2>1. \A q \in Writers : op'[q].days \in Nat
    BY <1>2 DEF Writers, LinkTypes, LinkInv, Idle
  <2>2. op'["daemon"].kind # "delete"
    BY <1>2 DEF Idle
  <2> QED BY <1>1, <1>2, <1>6, <2>1, <2>2 DEF LinkTypes, LinkInv
<1>10. Numbers'
  <2>1. \A y \in Known' : y.link.n <= written'
    BY <1>1, <1>4, <1>8 DEF Numbers, LinkInv
  <2>2. \A y, z \in Known' : y.link = z.link /\ y.link # NoLog => y = z
    BY <1>4, <1>5, <1>8 DEF Numbers, LinkInv
  <2>3. Once(log')
    <3>1. \A i \in 1 .. Len(log) : log[i].link # NoLog => log[i].link # x.link
      <4>1. \A i \in 1 .. Len(log) : log[i] \in Known
        BY <1>6 DEF Known, ToSet
      <4> QED BY <1>4, <1>5, <4>1
    <3>2. Once(log)
      BY DEF LinkInv, Numbers
    <3> SUFFICES ASSUME NEW i \in DOMAIN log', NEW j \in DOMAIN log',
                        log'[i].link = log'[j].link, log'[i].link # NoLog
                 PROVE  i = j
      BY DEF Once
    <3>3. CASE i \in 1 .. Len(log) /\ j \in 1 .. Len(log)
      BY <1>6, <3>2, <3>3 DEF Once
    <3>4. CASE i = Len(log) + 1 \/ j = Len(log) + 1
      BY <1>6, <3>1, <3>4
    <3> QED BY <1>6, <3>3, <3>4
  <2> QED BY <2>1, <2>2, <2>3 DEF Numbers
<1>12. Gone'
  <2> SUFFICES ASSUME op["window"].kind = "delete", op["window"].phase = "renamed"
               PROVE  \A y \in ToSet(log') : y.link \notin Links(op["window"].lines)
    BY <1>2 DEF Gone
  <2>1. \A y \in ToSet(log) : y.link \notin Links(op["window"].lines)
    BY DEF Gone, LinkInv
  <2>2. \A e \in Links(op["window"].lines) : e # NoLog /\ \E y \in Known : y.link = e
    BY DEF Links, Known, ToSet
  <2>3. n \notin Links(op["window"].lines)
    BY <1>5, <2>2
  <2> QED BY <1>4, <1>7, <2>1, <2>3
<1>13. Outlive'
  <2>1. \A y \in ToSet(log) : y.link # NoLog => y.link \in errorLogs \/ Expired(y.link, swept)
    BY DEF Outlive, LinkInv
  <2> QED BY <1>1, <1>4, <1>5, <1>7, <2>1 DEF Outlive, Expired
<1>14. op["daemon"].kind' # "append"
  BY <1>2 DEF Idle
<1> QED BY <1>9, <1>10, <1>12, <1>13, <1>14 DEF LinkInv

LEMMA ReadLinks ==
  ASSUME LinkInv, LockInv, NEW p \in Writers, ReadForRewrite(p)
  PROVE  LinkInv'
<1>0. PICK c : c = today - op[p].days
  OBVIOUS
<1> DEFINE r == [op[p] EXCEPT !.cutoff = today - op[p].days, !.phase = "read"]
           o == [r EXCEPT !.kept = Kept(r, log)]
<1>1. /\ r.kind = op[p].kind /\ r.lines = op[p].lines /\ r.line = op[p].line
      /\ r.days = op[p].days /\ r.phase = "read" /\ Shaped(r)
  <2> DEFINE d == [op[p] EXCEPT !.cutoff = today - op[p].days]
  <2>1. Shaped(op[p])
    BY DEF LockInv
  <2>2. /\ d.kind = op[p].kind /\ d.lines = op[p].lines /\ d.line = op[p].line
        /\ d.days = op[p].days /\ Shaped(d)
    <3>1. d = [op[p] EXCEPT !.cutoff = c]
      BY <1>0
    <3> HIDE DEF d
    <3> QED BY <2>1, <3>1 DEF Shaped
  <2>3. r = [d EXCEPT !.phase = "read"]
    OBVIOUS
  <2> HIDE DEF d, r
  <2> QED BY <2>2, <2>3 DEF Shaped
<1>2. /\ op' = [op EXCEPT ![p] = o] /\ op[p].kind \in {"prune", "delete"}
      /\ today' = today /\ log' = log /\ errorLogs' = errorLogs /\ store' = store
      /\ written' = written /\ retention' = retention /\ swept' = swept
  BY DEF ReadForRewrite, shownVars
<1> HIDE DEF r
<1>3. /\ o.kind = op[p].kind /\ o.lines = op[p].lines /\ o.phase = "read"
      /\ o.days = op[p].days /\ o.line = op[p].line
  BY <1>1 DEF Shaped
<1> HIDE DEF o
<1>4. p = "daemon" => o.kind # "delete" /\ o.kind # "append"
  BY <1>2, <1>3 DEF LinkInv, LinkTypes
<1>5. p = "window" => /\ o.kind # "append" /\ o.lines \in Seq(LogLines)
                      /\ ToSet(o.lines) \subseteq Known
  BY <1>2, <1>3 DEF LinkInv, LinkTypes, Known
<1>6. o.days \in Nat /\ o.phase # "renamed"
  BY <1>3 DEF LinkInv, LinkTypes
<1> QED BY <1>2, <1>4, <1>5, <1>6, OneMovesOn

\* The lines of a deletion are not in the file that replaces the log.
LEMMA DeletedGone ==
  ASSUME LinkInv, op["window"].kind = "delete"
  PROVE  \A x \in ToSet(Kept(op["window"], log)) : x.link \notin Links(op["window"].lines)
<1> DEFINE lines == op["window"].lines
<1>1. Kept(op["window"], log) = Minus(log, lines)
  BY DEF Kept, Remaining
<1>2. log \in Seq(LogLines) /\ lines \in Seq(LogLines) /\ Once(log)
  BY DEF LinkInv, LinkTypes, Numbers
<1>3. ToSet(Minus(log, lines)) \subseteq ToSet(log)
  BY <1>1, <1>2, KeptPart
<1> SUFFICES ASSUME NEW j \in DOMAIN Minus(log, lines), Minus(log, lines)[j].link \in Links(lines)
             PROVE  FALSE
  BY <1>1 DEF ToSet
<1> DEFINE x == Minus(log, lines)[j]
<1>4. PICK k \in DOMAIN lines : lines[k].link = x.link /\ x.link # NoLog
  BY DEF Links
<1>5. x \in Known /\ lines[k] \in Known
  BY <1>3 DEF Known, ToSet
<1>6. lines[k] = x
  BY <1>4, <1>5 DEF LinkInv, Numbers
<1> QED BY <1>2, <1>4, <1>6, MinusTakes

LEMMA RenameLinks ==
  ASSUME LinkInv, LockInv, NEW p \in Writers, NEW done \in BOOLEAN, Rename(p, done)
  PROVE  LinkInv'
<1> DEFINE o == [op[p] EXCEPT !.phase = IF done THEN "renamed" ELSE "failed"]
<1>1. /\ op' = [op EXCEPT ![p] = o] /\ op[p].phase = "read"
      /\ log' = IF done THEN Kept(op[p], log) ELSE log
      /\ today' = today /\ errorLogs' = errorLogs /\ store' = store /\ written' = written
      /\ swept' = swept /\ retention' = retention
  BY DEF Rename, LockInv, shownVars
<1>2. /\ o.kind = op[p].kind /\ o.lines = op[p].lines /\ o.days = op[p].days
      /\ o.line = op[p].line /\ o.phase = IF done THEN "renamed" ELSE "failed"
  BY DEF LockInv, Shaped
<1> HIDE DEF o
<1>3. op'[p] = o /\ \A q \in Writers \ {p} : op'[q] = op[q]
  BY <1>1, OpMoves
<1>4. "daemon" \in Writers /\ "window" \in Writers /\ log \in Seq(LogLines)
  BY DEF Writers, LinkInv, LinkTypes
<1>5. \A q \in Writers : /\ op'[q].kind = op[q].kind /\ op'[q].lines = op[q].lines
                         /\ op'[q].days = op[q].days /\ op'[q].line = op[q].line
  BY <1>2, <1>3
<1>6. log' \in Seq(LogLines) /\ ToSet(log') \subseteq ToSet(log) /\ Once(log')
  <2>1. Once(log)
    BY DEF LinkInv, Numbers
  <2> QED BY <1>1, <1>4, <2>1, KeptPart
<1>7. LinkTypes'
  BY <1>1, <1>4, <1>5, <1>6 DEF LinkTypes, LinkInv
<1>8. Known' \subseteq Known
  BY <1>1, <1>4, <1>5, <1>6 DEF Known
<1>9. Numbers'
  BY <1>1, <1>6, <1>8 DEF Numbers, LinkInv
<1>11. Gone'
  <2> SUFFICES ASSUME op'["window"].kind = "delete", op'["window"].phase = "renamed"
               PROVE  \A x \in ToSet(log') : x.link \notin Links(op["window"].lines)
    BY <1>4, <1>5 DEF Gone
  <2>1. CASE p = "window"
    <3>1. done /\ log' = Kept(op["window"], log)
      BY <1>1, <1>2, <1>3, <2>1
    <3> QED BY <1>4, <1>5, <3>1, DeletedGone
  <2>2. CASE p # "window"
    <3>1. op'["window"] = op["window"]
      BY <1>3, <1>4, <2>2
    <3> QED BY <1>6, <3>1 DEF Gone, LinkInv
  <2> QED BY <2>1, <2>2
<1>12. Outlive'
  BY <1>1, <1>6 DEF Outlive, LinkInv, Expired
<1>13. op["daemon"].kind' = "append" => Reported(op["daemon"].line)'
  <2> SUFFICES ASSUME op["daemon"].kind = "append"
               PROVE  Reported(op["daemon"].line)'
    BY <1>4, <1>5
  <2> QED BY <1>1, <1>4, <1>5, <1>8 DEF Reported, Expired, LinkInv
<1> QED BY <1>7, <1>9, <1>11, <1>12, <1>13 DEF LinkInv

LEMMA FinishLinks ==
  ASSUME LinkInv, LockInv, NEW p \in Writers, FinishRewrite(p)
  PROVE  LinkInv'
<1>0. PICK cutoff \in SweepCutoffs(op[p]) :
        /\ errorLogs' = DropLogs(op[p], op[p].phase = "renamed", cutoff)
        /\ swept' = IF op[p].kind = "prune" /\ cutoff > swept THEN cutoff ELSE swept
  BY DEF FinishRewrite
<1>1. /\ op' = [op EXCEPT ![p] = Idle] /\ op[p].phase \in {"renamed", "failed"}
      /\ store' = store \/ ReadLog
      /\ today' = today /\ log' = log /\ written' = written
      /\ retention' = retention
  BY DEF FinishRewrite
<1>2. /\ Idle.kind = "idle" /\ Idle.phase = "none" /\ Idle.lines = <<>> /\ Idle.days = 0
  BY DEF Idle
<1>3. op'[p] = Idle /\ \A q \in Writers \ {p} : op'[q] = op[q]
  BY <1>1, OpMoves
<1>4. "daemon" \in Writers /\ "window" \in Writers
  BY DEF Writers
<1>5. store' \in Seq(LogLines) /\ ToSet(store') \subseteq Known
  BY <1>1, ShownPart DEF Known, LinkInv, LinkTypes
<1>6. op'["window"] = op["window"] \/ op'["window"] = Idle
  BY <1>3, <1>4
<1>13. /\ swept \in Int /\ swept' \in Int /\ swept <= swept'
       /\ op[p].kind = "prune" => cutoff <= swept'
  <2>1. swept \in Int /\ today \in Nat /\ op[p].days \in Nat
    BY DEF LinkInv, LinkTypes
  <2>2. cutoff \in Int
    BY <2>1 DEF SweepCutoffs
  <2> QED BY <1>0, <2>1, <2>2
<1>7. LinkTypes'
  <2>1. op'["window"].lines \in Seq(LogLines) /\ op'["window"].kind # "append"
    <3>1. <<>> \in Seq(LogLines)
      OBVIOUS
    <3>2. CASE op'["window"] = Idle
      BY <1>2, <3>1, <3>2
    <3> QED BY <1>6, <3>2 DEF LinkInv, LinkTypes
  <2>2. op'["daemon"].kind # "delete"
    BY <1>2, <1>3, <1>4 DEF LinkInv, LinkTypes
  <2>3. \A q \in Writers : op'[q].days \in Nat
    BY <1>2, <1>3 DEF LinkInv, LinkTypes
  <2> QED BY <1>1, <1>5, <1>13, <2>1, <2>2, <2>3 DEF LinkTypes, LinkInv
<1>8. Known' \subseteq Known
  <2>1. ToSet(op'["window"].lines) \subseteq Known
    BY <1>2, <1>6 DEF Known, ToSet
  <2> QED BY <1>1, <1>5, <2>1 DEF Known
<1>9. Numbers'
  BY <1>1, <1>8 DEF Numbers, LinkInv, Once
<1>11. Gone'
  BY <1>1, <1>2, <1>6 DEF Gone, LinkInv
<1>12. ASSUME NEW e \in errorLogs, e \notin errorLogs'
       PROVE  \/ op[p].kind = "prune" /\ Expired(e, cutoff)
              \/ op[p].kind = "delete" /\ op[p].phase = "renamed" /\ e \in Links(op[p].lines)
  BY <1>0, <1>12 DEF DropLogs
<1>14. op[p].kind = "delete" => p = "window"
  BY DEF Writers, LinkInv, LinkTypes
<1>15. Outlive'
  <2> SUFFICES ASSUME NEW x \in ToSet(log), x.link # NoLog, x.link \notin errorLogs'
               PROVE  Expired(x.link, swept')
    BY <1>1 DEF Outlive, Expired
  <2>1. x.link.day \in Nat
    BY KnownTyped DEF Known, LinkInv
  <2>2. CASE x.link \notin errorLogs
    <3>1. x.link.day < swept
      BY <2>2 DEF Outlive, Expired, LinkInv
    <3> QED BY <1>13, <2>1, <3>1 DEF Expired
  <2>3. CASE x.link \in errorLogs
    <3>1. CASE op[p].kind = "prune" /\ Expired(x.link, cutoff)
      <4>1. cutoff \in Int
        BY DEF SweepCutoffs, LinkInv, LinkTypes
      <4> QED BY <1>13, <2>1, <3>1, <4>1 DEF Expired
    <3>2. CASE op[p].kind = "delete" /\ op[p].phase = "renamed" /\ x.link \in Links(op[p].lines)
      BY <1>14, <3>2 DEF Gone, LinkInv
    <3> QED BY <1>12, <2>3, <3>1, <3>2
  <2> QED BY <2>2, <2>3
<1>16. op["daemon"].kind' = "append" => Reported(op["daemon"].line)'
  <2> SUFFICES ASSUME op'["daemon"].kind = "append"
               PROVE  Reported(op["daemon"].line)'
    OBVIOUS
  <2>1. p # "daemon" /\ op'["daemon"] = op["daemon"]
    BY <1>2, <1>3, <1>4
  <2>2. PICK e : e = op["daemon"].line
    OBVIOUS
  <2>3. Reported(e)
    BY <2>1, <2>2 DEF LinkInv
  <2>4. ASSUME e # NoLog
        PROVE  e \in errorLogs' \/ Expired(e, swept')
    <3>1. /\ e \in errorLogs \/ Expired(e, swept)
          /\ e.day \in Nat /\ \A x \in Known : x.link # e
      BY <2>3, <2>4 DEF Reported, LogLinks
    <3>2. Expired(e, swept) => Expired(e, swept')
      BY <1>13, <3>1 DEF Expired
    <3>3. ~(op[p].kind = "delete" /\ e \in Links(op[p].lines))
      BY <1>14, <3>1 DEF Links, Known, ToSet
    <3>4. op[p].kind = "prune" /\ Expired(e, cutoff) => Expired(e, swept')
      <4>1. cutoff \in Int
        BY DEF SweepCutoffs, LinkInv, LinkTypes
      <4> QED BY <1>13, <3>1, <4>1 DEF Expired
    <3> QED BY <1>12, <3>1, <3>2, <3>3, <3>4
  <2>5. Reported(e)'
    BY <1>1, <1>8, <2>3, <2>4 DEF Reported, Expired
  <2> QED BY <2>1, <2>2, <2>5
<1> QED BY <1>7, <1>9, <1>11, <1>15, <1>16 DEF LinkInv

\* A step that leaves the processes and the file where they are.
LEMMA ViewMoves ==
  ASSUME LinkInv, UNCHANGED <<log, errorLogs, op, written, swept>>,
         retention' \in Nat, store' = store \/ ReadLog,
         today' = today \/ today' = today + 1
  PROVE  LinkInv'
<1>1. store' \in Seq(LogLines) /\ ToSet(store') \subseteq Known
  BY ShownPart DEF Known, LinkInv, LinkTypes
<1>2. Known' \subseteq Known
  BY <1>1 DEF Known
<1>3. today \in Nat /\ today' \in Nat /\ today <= today'
  BY DEF LinkInv, LinkTypes
<1>4. LinkTypes'
  BY <1>1, <1>3 DEF LinkInv, LinkTypes
<1>5. Numbers'
  BY <1>2 DEF LinkInv, Numbers, Once
<1>7. Gone' /\ Outlive'
  BY DEF LinkInv, Gone, Outlive, Expired
<1>8. op["daemon"].kind' = "append" => Reported(op["daemon"].line)'
  BY <1>2 DEF LinkInv, Reported, Expired
<1> QED BY <1>4, <1>5, <1>7, <1>8 DEF LinkInv

LEMMA LinkStep ==
  ASSUME LinkInv, LockInv, [LogNext]_logVars
  PROVE  LinkInv'
<1>1. retention \in Nat /\ Retentions \subseteq Nat /\ "daemon" \in Writers /\ "window" \in Writers
  BY LogAssumption DEF LinkInv, LinkTypes, Writers
<1>2. CASE DayPasses
  BY <1>1, <1>2, ViewMoves DEF DayPasses, shownVars
<1>3. CASE DaemonDies
  <2>1. /\ op' = [op EXCEPT !["daemon"] = Idle] /\ retention' = retention
        /\ UNCHANGED <<today, log, errorLogs, store, written, swept>>
    BY <1>3 DEF DaemonDies, shownVars
  <2>2. Idle.kind = "idle" /\ Idle.phase = "none" /\ Idle.days \in Nat /\ "daemon" # "window"
    BY DEF Idle
  <2> QED BY <1>1, <2>1, <2>2, OneMovesOn
<1>4. CASE Refresh
  BY <1>1, <1>4, ViewMoves DEF Refresh
<1>5. CASE AskDelete \/ \E picks \in SUBSET DOMAIN store : SelectLines(picks)
  BY <1>1, <1>5, ViewMoves DEF AskDelete, SelectLines
<1>6. ASSUME NEW days \in Retentions, TypeRetention(days)
      PROVE  LinkInv'
  BY <1>1, <1>6, ViewMoves DEF TypeRetention
<1>7. ASSUME NEW yes \in BOOLEAN, Confirm(yes)
      PROVE  LinkInv'
  <2> DEFINE o == [Op("delete") EXCEPT !.lines = Chosen]
  <2>1. o = [kind |-> "delete", phase |-> "called", line |-> NoLog, lines |-> Chosen,
             days |-> 0, cutoff |-> 0, kept |-> <<>>]
    BY OpCalled
  <2>2. /\ op' = [op EXCEPT !["window"] = o] \/ op' = op
        /\ retention' = retention
        /\ UNCHANGED <<today, log, errorLogs, store, written, swept>>
    BY <1>7 DEF Confirm
  <2> HIDE DEF o
  <2>3. CASE op' = op
    BY <1>1, <2>2, <2>3, ViewMoves
  <2>4. CASE op' = [op EXCEPT !["window"] = o]
    <3>1. store \in Seq(LogLines)
      BY DEF LinkInv, LinkTypes
    <3>2. o.lines \in Seq(LogLines) /\ ToSet(o.lines) \subseteq ToSet(store)
      BY <2>1, <3>1, SelectedPart DEF Chosen, ToSet
    <3>3. o.kind # "append" /\ o.phase # "renamed" /\ o.days \in Nat /\ "window" # "daemon"
      BY <2>1
    <3>4. ToSet(o.lines) \subseteq Known
      BY <3>2 DEF Known
    <3> QED BY <1>1, <2>2, <2>4, <3>2, <3>3, <3>4, OneMovesOn
  <2> QED BY <2>2, <2>3, <2>4
<1>8. ASSUME NEW p \in Writers, Prune(p)
      PROVE  LinkInv'
  <2> DEFINE o == [Op("prune") EXCEPT !.days = retention]
  <2>1. /\ o.kind = "prune" /\ o.phase = "called" /\ o.lines = <<>> /\ o.days = retention
        /\ o.lines \in Seq(LogLines) /\ ToSet(o.lines) \subseteq Known /\ o.days \in Nat
    <3>1. o.kind = "prune" /\ o.phase = "called" /\ o.lines = <<>> /\ o.days = retention
      BY OpCalled
    <3>2. <<>> \in Seq(LogLines) /\ ToSet(<<>>) = {}
      BY DEF ToSet
    <3> HIDE DEF o
    <3> QED BY <1>1, <3>1, <3>2
  <2>2. /\ op' = [op EXCEPT ![p] = o] /\ retention' = retention
        /\ UNCHANGED <<today, log, errorLogs, store, written, swept>>
    BY <1>8 DEF Prune, shownVars
  <2> HIDE DEF o
  <2> QED BY <2>1, <2>2, OneMovesOn
<1>9. ASSUME NEW p \in Writers, Enter(p)
      PROVE  LinkInv'
  <2> DEFINE o == [op[p] EXCEPT !.phase = "inside"]
  <2>1. /\ o.kind = op[p].kind /\ o.phase = "inside" /\ o.lines = op[p].lines
        /\ o.line = op[p].line /\ o.days = op[p].days
    BY DEF LockInv, Shaped
  <2>2. /\ op' = [op EXCEPT ![p] = o] /\ retention' = retention
        /\ UNCHANGED <<today, log, errorLogs, store, written, swept>>
    BY <1>9 DEF Enter, shownVars
  <2> HIDE DEF o
  <2>3. p = "window" => /\ o.kind # "append" /\ o.lines \in Seq(LogLines)
                        /\ ToSet(o.lines) \subseteq Known
    BY <2>1 DEF LinkInv, LinkTypes, Known
  <2>4. p = "daemon" => /\ o.kind # "delete"
                        /\ o.kind = "append" => op[p].kind = "append" /\ o.line = op[p].line
    BY <2>1 DEF LinkInv, LinkTypes
  <2>5. o.days \in Nat
    BY <2>1 DEF LinkInv, LinkTypes
  <2> QED BY <2>1, <2>2, <2>3, <2>4, <2>5, OneMovesOn
<1>10. CASE UNCHANGED logVars
  BY <1>1, <1>10, ViewMoves DEF logVars
<1> QED
  BY <1>2, <1>3, <1>4, <1>5, <1>6, <1>7, <1>8, <1>9, <1>10,
     ReportLinks, AppendLinks, ReadLinks, RenameLinks, FinishLinks DEF LogNext

LEMMA LinkStarts == LogInit => LinkInv
<1> SUFFICES ASSUME LogInit
             PROVE  LinkInv
  OBVIOUS
<1>1. /\ log = <<>> /\ store = <<>> /\ written = 0 /\ today = 0 /\ swept = 0
      /\ retention \in Nat /\ op["window"] = Idle /\ op["daemon"] = Idle
  BY LogAssumption DEF LogInit, Writers
<1>2. Idle.kind = "idle" /\ Idle.lines = <<>> /\ Idle.days = 0
  BY DEF Idle
<1>3. Known = {} /\ ToSet(log) = {} /\ DOMAIN log = {}
  BY <1>1, <1>2 DEF Known, ToSet
<1>0. \A p \in Writers : op[p].days \in Nat
  BY <1>1, <1>2 DEF Writers
<1>4. LinkTypes /\ Numbers /\ Gone /\ Outlive
  BY <1>0, <1>1, <1>2, <1>3 DEF LinkTypes, Numbers, Once, Gone, Outlive
<1> QED BY <1>1, <1>2, <1>4 DEF LinkInv

\* A line that links an error log can still show it, in whatever order the
\* daemon and the window append, prune and delete, whichever rewrite fails,
\* whenever the daemon dies and whenever the days pass, unless the log was older
\* than the cutoff that a prune put to the error logs (prune_error_logs).
THEOREM LinksAreKept == LogSpec => []LinkedLogKept
<1>1. LogInit => LockInv /\ LinkInv
  BY LockStarts, LinkStarts
<1>2. LockInv /\ LinkInv /\ [LogNext]_logVars => LockInv' /\ LinkInv'
  BY LockStep, LinkStep
<1>3. LinkInv => LinkedLogKept
  <2> SUFFICES ASSUME LinkInv, NEW i \in DOMAIN log, log[i].link # NoLog
               PROVE  log[i].link \in errorLogs \/ Expired(log[i].link, swept)
    BY DEF LinkedLogKept
  <2>1. log[i] \in ToSet(log)
    BY DEF ToSet
  <2> QED BY <2>1 DEF LinkInv, Outlive
<1> QED BY <1>1, <1>2, <1>3, PTL DEF LogSpec

LEMMA LogDays ==
  ASSUME LinkInv, LockInv, LogTypeOK, [LogNext]_logVars
  PROVE  \A i \in DOMAIN log' : log'[i].day <= today'
<1> DEFINE T == [day : 0 .. today, link : LogLinks]
<1>1. today \in Nat /\ log \in Seq(LogLines)
  BY DEF LinkInv, LinkTypes
<1>2. log \in Seq(T)
  <2>1. ASSUME NEW i \in 1 .. Len(log)
        PROVE  log[i] \in T
    <3>1. log[i] \in LogLines
      BY <1>1, <2>1
    <3>2. DOMAIN log = 1 .. Len(log)
      BY <1>1
    <3>3. log[i].day <= today
      BY <2>1, <3>2 DEF LogTypeOK
    <3>4. /\ log[i] = [day |-> log[i].day, link |-> log[i].link] /\ log[i].day \in Nat
          /\ log[i].link \in LogLinks
      BY <3>1 DEF LogLines
    <3>5. log[i].day \in 0 .. today
      BY <1>1, <3>3, <3>4
    <3> QED BY <3>4, <3>5
  <2> HIDE DEF T
  <2>2. log = [i \in 1 .. Len(log) |-> log[i]] /\ Len(log) \in Nat
    BY <1>1
  <2> QED BY <2>1, <2>2
<1>3. ASSUME NEW s \in Seq(T), NEW i \in DOMAIN s
      PROVE  s[i].day <= today
  <2>1. s[i] \in T
    <3> HIDE DEF T
    <3> QED BY <1>3
  <2> QED BY <1>1, <2>1
<1>4. CASE UNCHANGED <<log, today>>
  BY <1>4 DEF LogTypeOK
<1>5. CASE DayPasses
  <2>1. log' = log /\ today' = today + 1
    BY <1>5 DEF DayPasses
  <2>2. \A i \in DOMAIN log : log[i].day \in 0 .. today
    <3> HIDE DEF T
    <3>1. \A i \in DOMAIN log : log[i] \in T
      BY <1>2
    <3> QED BY <3>1 DEF T
  <2> QED BY <1>1, <2>1, <2>2
<1>6. ASSUME NEW p \in Writers, AppendLine(p)
      PROVE  log' \in Seq(T) /\ today' = today
  <2>1. op[p].line \in LogLinks
    <3>1. p = "daemon" /\ op["daemon"].kind = "append"
      BY <1>6 DEF AppendLine, LinkInv, LinkTypes, Writers
    <3> QED BY <3>1 DEF LinkInv, LinkTypes, Reported
  <2>2. Line(op[p].line) \in T
    BY <1>1, <2>1 DEF Line
  <2> QED BY <1>2, <1>6, <2>2 DEF AppendLine
<1>7. ASSUME NEW p \in Writers, NEW done \in BOOLEAN, Rename(p, done)
      PROVE  log' \in Seq(T) /\ today' = today
  <2>1. Kept(op[p], log) \in Seq(T)
    BY <1>2, KeptPart
  <2>2. op[p].kept = Kept(op[p], log)
    BY <1>7 DEF Rename, LockInv
  <2> HIDE DEF T
  <2> QED BY <1>2, <1>7, <2>1, <2>2 DEF Rename
<1>8. \/ UNCHANGED <<log, today>> \/ DayPasses
      \/ \E p \in Writers : AppendLine(p)
      \/ \E p \in Writers, done \in BOOLEAN : Rename(p, done)
  BY DEF LogNext, logVars, shownVars, DaemonDies, Refresh, AskDelete, Report, TypeRetention, SelectLines, Confirm,
         Prune, Enter, ReadForRewrite, FinishRewrite
<1>9. log' \in Seq(T) /\ today' = today =>
        \A i \in DOMAIN log' : log'[i].day <= today'
  BY <1>3
<1> HIDE DEF T
<1> QED BY <1>4, <1>5, <1>6, <1>7, <1>8, <1>9

\* The lines of the log are of days that came, and the rows that are selected
\* are rows of the list as the view read it last.
THEOREM LogTypes == LogSpec => []LogTypeOK
<1> DEFINE TypeInv == LockInv /\ LinkInv /\ LogTypeOK
<1>1. LogInit => TypeInv
  <2>1. LogInit => LogTypeOK
    BY LogAssumption DEF LogInit, LogTypeOK
  <2> QED BY <2>1, LockStarts, LinkStarts
<1>2. TypeInv /\ [LogNext]_logVars => TypeInv'
  <2> SUFFICES ASSUME LockInv, LinkInv, LogTypeOK, [LogNext]_logVars
               PROVE  LogTypeOK'
    BY LockStep, LinkStep
  <2>1. /\ today' = today \/ (today < MaxDay /\ today' = today + 1)
        /\ written' = written \/ (written < MaxLines /\ written' = written + 1)
        /\ retention' = retention \/ retention' \in Retentions
    BY DEF LogTypeOK, LogNext, logVars, shownVars, DayPasses, DaemonDies, Refresh, AskDelete, Report,
           TypeRetention, SelectLines, Confirm, Prune, Enter, AppendLine, ReadForRewrite, Rename,
           FinishRewrite
  <2>2. holder' \in Writers \cup {Nobody}
    BY DEF LogTypeOK, LogNext, logVars, shownVars, DayPasses, DaemonDies, Refresh, AskDelete, Report,
           TypeRetention, SelectLines, Confirm, Prune, Enter, Leave, AppendLine, ReadForRewrite, Rename,
           FinishRewrite
  <2>3. selection' \subseteq DOMAIN store'
    BY DEF LogTypeOK, LogNext, logVars, shownVars, DayPasses, DaemonDies, Refresh, ReadLog, AskDelete, Report,
           TypeRetention, SelectLines, Confirm, Prune, Enter, AppendLine, ReadForRewrite, Rename,
           FinishRewrite
  <2>4. today' \in 0 .. MaxDay /\ written' \in 0 .. MaxLines /\ retention' \in Retentions
    BY <2>1, LogAssumption DEF LogTypeOK
  <2> QED BY <2>2, <2>3, <2>4, LogDays DEF LogTypeOK
<1>3. TypeInv => LogTypeOK
  OBVIOUS
<1> QED BY <1>1, <1>2, <1>3, PTL DEF LogSpec

-----------------------------------------------------------------------------
(***************************************************************************)
(* The remotes pages. A save is answered for by the subprocess that runs   *)
(* for it, until its callback has concluded it.                            *)
(***************************************************************************)
SaveShaped(s) ==
  s = [view |-> s.view, name |-> s.name, type |-> s.type, token |-> s.token,
       command |-> s.command, left |-> s.left, answer |-> s.answer]

SavesShaped == views \in Nat /\ \A s \in saves : SaveShaped(s)

\* What the end of a subprocess and a question that is answered leave of a save.
Ended(s, answer) == [s EXCEPT !.answer = answer]
Further(s) == [s EXCEPT !.left = @ - 1, !.command = "continue", !.answer = None]

LEMMA SaveEnded ==
  ASSUME NEW s, SaveShaped(s), NEW answer
  PROVE  /\ SaveShaped(Ended(s, answer)) /\ Ended(s, answer).name = s.name
         /\ Ended(s, answer).left = s.left /\ Ended(s, answer).answer = answer
<1> DEFINE t == Ended(s, answer)
<1>1. t = [s EXCEPT !.answer = answer]
  BY DEF Ended
<1> HIDE DEF t
<1>2. SaveShaped(t) /\ t.name = s.name /\ t.left = s.left /\ t.answer = answer
  BY <1>1 DEF SaveShaped
<1> QED BY <1>2 DEF t

LEMMA SaveGoesOn ==
  ASSUME NEW s, SaveShaped(s)
  PROVE  /\ SaveShaped(Further(s)) /\ Further(s).name = s.name
         /\ Further(s).left = s.left - 1 /\ Further(s).answer = None
<1> DEFINE l == s.left - 1
           n == None
           a == [s EXCEPT !.left = l]
           b == [a EXCEPT !.command = "continue"]
           t == [b EXCEPT !.answer = n]
<1>1. Further(s) = t
  BY DEF Further
<1> HIDE DEF l, n
<1>2. SaveShaped(a) /\ a.name = s.name /\ a.left = l
  BY DEF SaveShaped
<1> HIDE DEF a
<1>3. SaveShaped(b) /\ b.name = a.name /\ b.left = a.left
  BY <1>2 DEF SaveShaped
<1> HIDE DEF b
<1>4. SaveShaped(t) /\ t.name = b.name /\ t.left = b.left /\ t.answer = n
  BY <1>3 DEF SaveShaped
<1> QED BY <1>1, <1>2, <1>3, <1>4 DEF l, n

\* The steps that are none of a save.
LEMMA SavesRest ==
  ASSUME [RemotesNext]_remoteVars
  PROVE  \/ saves' = saves /\ unsure' = unsure /\ conf' \subseteq conf
         \/ \E name \in RemoteNames : Save(name)
         \/ \E s \in saves : CommandAnswered(s) \/ \E answer \in Answers : CommandEnds(s, answer)
<1>1. CASE UNCHANGED remoteVars
  BY <1>1 DEF remoteVars, procVars
<1>2. CASE Remapped \/ ShowAddRemote \/ Authorize \/ \E cancel \in BOOLEAN : LeaveEditPage(cancel)
  BY <1>2 DEF Remapped, ShowAddRemote, Opened, Authorize, LeaveEditPage, procVars
<1>3. CASE \E l \in listings : ListReads(l) \/ \E ok \in BOOLEAN : ListAnswered(l, ok)
  BY <1>3 DEF ListReads, ListAnswered, procVars
<1>4. CASE \E row \in remotes : ClickDeleteRemote(row) \/ ShowEditRemote(row)
  BY <1>4 DEF ClickDeleteRemote, ShowEditRemote, Opened
<1>5. CASE \E d \in deletions : RemoteDeleted(d) \/ \E ok \in BOOLEAN : DeletionEnds(d, ok)
  BY <1>5 DEF RemoteDeleted, DeletionEnds
<1>6. CASE \/ \E view \in loading, ok \in BOOLEAN : ProvidersLoaded(view, ok)
           \/ \E p \in Providers : SelectProvider(p)
           \/ \E a \in auths, ok \in BOOLEAN : AuthorizeAnswered(a, ok)
  BY <1>6 DEF ProvidersLoaded, SelectProvider, AuthorizeAnswered, procVars
<1> QED BY <1>1, <1>2, <1>3, <1>4, <1>5, <1>6 DEF RemotesNext, WindowNext

\* How a step of a save changes the saves.
LEMMA AnswerMoves ==
  ASSUME NEW s \in saves, CommandAnswered(s)
  PROVE  \/ /\ saves' = saves \ {s}
            /\ unsure' = IF s.answer = "complete" THEN unsure ELSE unsure \cup {s.name}
         \/ saves' = (saves \ {s}) \cup {Further(s)} /\ unsure' = unsure /\ s.left # 0
  BY DEF CommandAnswered, Concluded, Exhausted, Continued, Further

LEMMA NewSave ==
  ASSUME NEW name, Save(name)
  PROVE  \E s : /\ saves' = saves \cup {s} /\ unsure' = unsure \ {name} /\ conf' = conf
                /\ SaveShaped(s) /\ s.name = name /\ s.left = MaxSteps /\ s.answer = None
<1> DEFINE cmd == IF edit.editing = None THEN "create" ELSE "update"
           s == [view |-> edit.id, name |-> name, type |-> edit.provider, token |-> edit.token,
                 command |-> cmd, left |-> MaxSteps, answer |-> None]
<1>1. saves' = saves \cup {s} /\ unsure' = unsure \ {name} /\ conf' = conf
  BY DEF Save
<1>2. SaveShaped(s) /\ s.name = name /\ s.left = MaxSteps /\ s.answer = None
  BY DEF SaveShaped
<1> HIDE DEF s
<1> QED BY <1>1, <1>2

LEMMA SavesStep ==
  ASSUME SavesShaped, [RemotesNext]_remoteVars
  PROVE  SavesShaped'
<1>1. views' \in Nat
  <2>1. views' = views \/ views' = views + 1
    BY DEF RemotesNext, WindowNext, remoteVars, procVars, Remapped, ShowAddRemote, ShowEditRemote,
           Opened, ListReads, ListAnswered, ClickDeleteRemote, RemoteDeleted, DeletionEnds,
           ProvidersLoaded, SelectProvider, Authorize, AuthorizeAnswered, LeaveEditPage, Save,
           CommandAnswered, CommandEnds
  <2> QED BY <2>1 DEF SavesShaped
<1>2. ASSUME NEW name \in RemoteNames, Save(name)
      PROVE  \A s \in saves' : SaveShaped(s)
  BY <1>2, NewSave DEF SavesShaped
<1>3. ASSUME NEW s \in saves, CommandAnswered(s)
      PROVE  \A t \in saves' : SaveShaped(t)
  BY <1>3, AnswerMoves, SaveGoesOn DEF SavesShaped
<1>4. ASSUME NEW s \in saves, NEW answer \in Answers, CommandEnds(s, answer)
      PROVE  \A t \in saves' : SaveShaped(t)
  <2>1. saves' = (saves \ {s}) \cup {Ended(s, answer)}
    BY <1>4 DEF CommandEnds, Ended
  <2> QED BY <2>1, SaveEnded DEF SavesShaped
<1>5. \A s \in saves' : SaveShaped(s)
  BY <1>2, <1>3, <1>4, SavesRest DEF SavesShaped
<1> QED BY <1>1, <1>5 DEF SavesShaped, SaveShaped

LEMMA RemotesStart == RemotesInit => SavesShaped
BY DEF RemotesInit, SavesShaped

\* Who answers for a remote that has a question open.
Answered(c, S, U) == \/ \E s \in S : s.name = c.name /\ s.answer # "complete"
                     \/ c.name \in U

LEMMA HalfSavedStep ==
  ASSUME SavesShaped, HalfSavedIsKnown, [RemotesNext]_remoteVars
  PROVE  HalfSavedIsKnown'
<1>1. \A c \in conf : c.open => Answered(c, saves, unsure)
  BY DEF HalfSavedIsKnown, Answered
<1>2. SUFFICES ASSUME NEW c \in conf', c.open
               PROVE  Answered(c, saves', unsure')
  BY DEF HalfSavedIsKnown, Answered
<1>3. CASE saves' = saves /\ unsure' = unsure /\ conf' \subseteq conf
  BY <1>1, <1>2, <1>3
<1>4. ASSUME NEW name \in RemoteNames, Save(name)
      PROVE  Answered(c, saves', unsure')
  <2>1. None # "complete"
    BY DEF None
  <2> QED BY <1>1, <1>2, <1>4, <2>1, NewSave DEF Answered
<1>5. ASSUME NEW s \in saves, CommandAnswered(s)
      PROVE  Answered(c, saves', unsure')
  <2>1. conf' = conf /\ None # "complete"
    BY <1>5 DEF CommandAnswered, None
  <2>2. SaveShaped(s)
    BY DEF SavesShaped
  <2>3. Further(s).name = s.name /\ Further(s).answer = None
    BY <2>2, SaveGoesOn
  <2> QED BY <1>1, <1>2, <1>5, <2>1, <2>3, AnswerMoves DEF Answered
<1>6. ASSUME NEW s \in saves, NEW answer \in Answers, CommandEnds(s, answer)
      PROVE  Answered(c, saves', unsure')
  <2>1. saves' = (saves \ {s}) \cup {Ended(s, answer)} /\ unsure' = unsure
    BY <1>6 DEF CommandEnds, Ended
  <2>2. Ended(s, answer).name = s.name /\ Ended(s, answer).answer = answer
    BY SaveEnded DEF SavesShaped
  <2>3. CASE answer # "complete" /\ c.name = s.name
    BY <2>1, <2>2, <2>3 DEF Answered
  <2>4. ASSUME c \notin conf
        PROVE  c.name = s.name /\ answer # "complete"
    <3>1. conf' = conf \/ conf' = Written(s, answer # "complete")
      BY <1>6 DEF CommandEnds
    <3>2. PICK type, token, more : /\ c = [name |-> s.name, type |-> type, token |-> token, open |-> more]
                                   /\ more = (answer # "complete")
      BY <1>2, <2>4, <3>1 DEF Written
    <3> QED BY <1>2, <3>2
  <2>5. answer = "complete" => ~(c \in conf /\ c.name = s.name)
    <3>1. SUFFICES ASSUME answer = "complete", c \in conf, c.name = s.name
                   PROVE  FALSE
      OBVIOUS
    <3>2. conf' = Written(s, FALSE)
      BY <1>6, <3>1 DEF CommandEnds
    <3>3. c \notin conf \ Named(s.name)
      BY <3>1 DEF Named
    <3>4. PICK type, token : c = [name |-> s.name, type |-> type, token |-> token, open |-> FALSE]
      BY <1>2, <3>2, <3>3 DEF Written
    <3> QED BY <1>2, <3>4
  <2>6. CASE c.name # s.name
    BY <1>1, <1>2, <2>1, <2>4, <2>6 DEF Answered
  <2>7. CASE answer = "complete" /\ c.name = s.name
    BY <1>2, <2>4, <2>5, <2>7
  <2> QED BY <2>3, <2>6, <2>7
<1> QED BY <1>3, <1>4, <1>5, <1>6, SavesRest

\* However many questions rclone asks, and whichever saves and deletions of one
\* name run side by side (backend_edit_view.cpp), a remote that has a question
\* open is either still being saved or its last save ended in an error.
THEOREM HalfSavedRemotesAreKnown == RemotesSpec => []HalfSavedIsKnown
<1>1. RemotesInit => SavesShaped /\ HalfSavedIsKnown
  <2>1. RemotesInit => HalfSavedIsKnown
    BY RemotesAssumption DEF RemotesInit, HalfSavedIsKnown
  <2> QED BY <2>1, RemotesStart
<1>2. SavesShaped /\ HalfSavedIsKnown /\ [RemotesNext]_remoteVars =>
        SavesShaped' /\ HalfSavedIsKnown'
  BY SavesStep, HalfSavedStep
<1> QED BY <1>1, <1>2, PTL DEF RemotesSpec

EditShaped(e) ==
  e = [id |-> e.id, editing |-> e.editing, type |-> e.type, loaded |-> e.loaded,
       provider |-> e.provider, token |-> e.token, waiting |-> e.waiting,
       saving |-> e.saving, name |-> e.name]
Granted      == Providers \cup {None}
EditTyped(e) == EditShaped(e) /\ e.provider \in Granted /\ e.token \in Granted

LEMMA EditSet ==
  ASSUME NEW e, EditTyped(e), NEW x
  PROVE  /\ EditTyped([e EXCEPT !.loaded = x])  /\ [e EXCEPT !.loaded = x].id = e.id
         /\ EditTyped([e EXCEPT !.waiting = x]) /\ [e EXCEPT !.waiting = x].id = e.id
         /\ EditTyped([e EXCEPT !.saving = x])  /\ [e EXCEPT !.saving = x].id = e.id
         /\ EditTyped([e EXCEPT !.name = x])    /\ [e EXCEPT !.name = x].id = e.id
         /\ x \in Granted => /\ EditTyped([e EXCEPT !.provider = x])
                             /\ [e EXCEPT !.provider = x].id = e.id
         /\ x \in Granted => /\ EditTyped([e EXCEPT !.token = x])
                             /\ [e EXCEPT !.token = x].id = e.id
<1>1. EditShaped(e) /\ e.provider \in Granted /\ e.token \in Granted
  BY DEF EditTyped
<1>2. EditTyped([e EXCEPT !.loaded = x]) /\ [e EXCEPT !.loaded = x].id = e.id
  <2> DEFINE s == [e EXCEPT !.loaded = x]
  <2>1. EditShaped(s)
    BY <1>1 DEF EditShaped
  <2>2. s.id = e.id /\ s.provider = e.provider /\ s.token = e.token
    BY <1>1 DEF EditShaped
  <2> HIDE DEF s
  <2>3. EditTyped(s) /\ s.id = e.id
    BY <1>1, <2>1, <2>2 DEF EditTyped
  <2> QED BY <2>3 DEF s
<1>3. EditTyped([e EXCEPT !.waiting = x]) /\ [e EXCEPT !.waiting = x].id = e.id
  <2> DEFINE s == [e EXCEPT !.waiting = x]
  <2>1. EditShaped(s)
    BY <1>1 DEF EditShaped
  <2>2. s.id = e.id /\ s.provider = e.provider /\ s.token = e.token
    BY <1>1 DEF EditShaped
  <2> HIDE DEF s
  <2>3. EditTyped(s) /\ s.id = e.id
    BY <1>1, <2>1, <2>2 DEF EditTyped
  <2> QED BY <2>3 DEF s
<1>4. EditTyped([e EXCEPT !.saving = x]) /\ [e EXCEPT !.saving = x].id = e.id
  <2> DEFINE s == [e EXCEPT !.saving = x]
  <2>1. EditShaped(s)
    BY <1>1 DEF EditShaped
  <2>2. s.id = e.id /\ s.provider = e.provider /\ s.token = e.token
    BY <1>1 DEF EditShaped
  <2> HIDE DEF s
  <2>3. EditTyped(s) /\ s.id = e.id
    BY <1>1, <2>1, <2>2 DEF EditTyped
  <2> QED BY <2>3 DEF s
<1>5. EditTyped([e EXCEPT !.name = x]) /\ [e EXCEPT !.name = x].id = e.id
  <2> DEFINE s == [e EXCEPT !.name = x]
  <2>1. EditShaped(s)
    BY <1>1 DEF EditShaped
  <2>2. s.id = e.id /\ s.provider = e.provider /\ s.token = e.token
    BY <1>1 DEF EditShaped
  <2> HIDE DEF s
  <2>3. EditTyped(s) /\ s.id = e.id
    BY <1>1, <2>1, <2>2 DEF EditTyped
  <2> QED BY <2>3 DEF s
<1>6. ASSUME x \in Granted
      PROVE  EditTyped([e EXCEPT !.provider = x]) /\ [e EXCEPT !.provider = x].id = e.id
  <2> DEFINE s == [e EXCEPT !.provider = x]
  <2>1. EditShaped(s)
    BY <1>1 DEF EditShaped
  <2>2. s.id = e.id /\ s.provider = x /\ s.token = e.token
    BY <1>1 DEF EditShaped
  <2> HIDE DEF s
  <2>3. EditTyped(s) /\ s.id = e.id
    BY <1>1, <1>6, <2>1, <2>2 DEF EditTyped
  <2> QED BY <2>3 DEF s
<1>7. ASSUME x \in Granted
      PROVE  EditTyped([e EXCEPT !.token = x]) /\ [e EXCEPT !.token = x].id = e.id
  <2> DEFINE s == [e EXCEPT !.token = x]
  <2>1. EditShaped(s)
    BY <1>1 DEF EditShaped
  <2>2. s.id = e.id /\ s.provider = e.provider /\ s.token = x
    BY <1>1 DEF EditShaped
  <2> HIDE DEF s
  <2>3. EditTyped(s) /\ s.id = e.id
    BY <1>1, <1>7, <2>1, <2>2 DEF EditTyped
  <2> QED BY <2>3 DEF s
<1> QED BY <1>2, <1>3, <1>4, <1>5, <1>6, <1>7

LEMMA SelectingTyped ==
  ASSUME NEW e, EditTyped(e), NEW p \in Providers
  PROVE  EditTyped(Selecting(e, p)) /\ Selecting(e, p).id = e.id
<1> DEFINE a == [e EXCEPT !.provider = p]
           n == None
           b == [a EXCEPT !.token = n]
<1>1. Selecting(e, p) = [b EXCEPT !.waiting = FALSE]
  BY DEF Selecting
<1>2. p \in Granted /\ n \in Granted
  BY DEF Granted
<1>3. EditTyped(a) /\ a.id = e.id
  BY <1>2, EditSet
<1> HIDE DEF a, n
<1>4. EditTyped(b) /\ b.id = a.id
  BY <1>2, <1>3, EditSet
<1> HIDE DEF b
<1>5. \A x : LET s == [b EXCEPT !.waiting = x] IN EditTyped(s) /\ s.id = b.id
  BY <1>4, EditSet
<1> QED BY <1>1, <1>3, <1>4, <1>5

LEMMA PageNumbered ==
  ASSUME SavesShaped, NEW editing, NEW type, Opened(editing, type)
  PROVE  EditTyped(edit') /\ edit'.id # 0
<1> DEFINE n == views + 1
           a == [NoEdit EXCEPT !.id = n]
           b == [a EXCEPT !.editing = editing]
<1>1. edit' = [b EXCEPT !.type = type]
  BY DEF Opened
<1>2. n # 0
  BY DEF SavesShaped
<1> HIDE DEF n
<1>3. a = [NoEdit EXCEPT !.id = n]
  OBVIOUS
<1>9. b = [a EXCEPT !.editing = editing]
  OBVIOUS
<1> HIDE DEF a, b
<1>4. a = [id |-> n, editing |-> None, type |-> None, loaded |-> FALSE, provider |-> None,
           token |-> None, waiting |-> FALSE, saving |-> FALSE, name |-> None]
  BY <1>3 DEF NoEdit
<1>8. b = [id |-> n, editing |-> editing, type |-> None, loaded |-> FALSE, provider |-> None,
           token |-> None, waiting |-> FALSE, saving |-> FALSE, name |-> None]
  BY <1>4, <1>9
<1>5. edit' = [id |-> n, editing |-> editing, type |-> type, loaded |-> FALSE, provider |-> None,
               token |-> None, waiting |-> FALSE, saving |-> FALSE, name |-> None]
  BY <1>1, <1>8
<1>6. EditShaped(edit') /\ edit'.id = n
  BY <1>5 DEF EditShaped
<1>7. edit'.provider = None /\ edit'.token = None
  BY <1>5
<1> QED BY <1>2, <1>6, <1>7 DEF EditTyped, Granted

\* The page of a step is typed and is the page before it, or a new one.
LEMMA EditMoves ==
  ASSUME SavesShaped, RemotesAssumption, EditTyped(edit), \A a \in auths : a.provider \in Providers,
         [RemotesNext]_remoteVars
  PROVE  EditTyped(edit') /\ (edit'.id = edit.id \/ edit'.id # 0)
<1>1. ASSUME NEW editing, NEW type, Opened(editing, type)
      PROVE  EditTyped(edit') /\ edit'.id # 0
  BY <1>1, PageNumbered
<1>2. CASE ShowAddRemote \/ \E row \in remotes : ShowEditRemote(row)
  BY <1>1, <1>2 DEF ShowAddRemote, ShowEditRemote
<1>3. ASSUME NEW view \in loading, NEW ok \in BOOLEAN, ProvidersLoaded(view, ok)
      PROVE  EditTyped(edit') /\ edit'.id = edit.id
  <2> DEFINE p == IF edit.type \in Providers THEN edit.type ELSE First
             b == Selecting(edit, p)
  <2>1. edit' = [b EXCEPT !.loaded = TRUE] \/ edit' = edit
    BY <1>3 DEF ProvidersLoaded
  <2>2. p \in Providers
    BY RemotesAssumption
  <2> HIDE DEF p
  <2>3. EditTyped(b) /\ b.id = edit.id
    BY <2>2, SelectingTyped
  <2> HIDE DEF b
  <2>4. \A x : LET s == [b EXCEPT !.loaded = x] IN EditTyped(s) /\ s.id = b.id
    BY <2>3, EditSet
  <2> QED BY <2>1, <2>3, <2>4
<1>4. ASSUME NEW p \in Providers, SelectProvider(p)
      PROVE  EditTyped(edit') /\ edit'.id = edit.id
  BY <1>4, SelectingTyped DEF SelectProvider
<1>5. CASE Authorize
  BY <1>5, EditSet DEF Authorize
<1>6. ASSUME NEW a \in auths, NEW ok \in BOOLEAN, AuthorizeAnswered(a, ok)
      PROVE  EditTyped(edit') /\ edit'.id = edit.id
  <2> DEFINE tok == IF ok THEN a.provider ELSE edit.token
             b == [edit EXCEPT !.waiting = FALSE]
  <2>1. edit' = [b EXCEPT !.token = tok] \/ edit' = edit
    BY <1>6 DEF AuthorizeAnswered
  <2>2. tok \in Granted
    BY DEF EditTyped, Granted
  <2> HIDE DEF tok
  <2>3. EditTyped(b) /\ b.id = edit.id
    BY EditSet
  <2> HIDE DEF b
  <2>4. LET s == [b EXCEPT !.token = tok] IN EditTyped(s) /\ s.id = b.id
    BY <2>2, <2>3, EditSet
  <2> QED BY <2>1, <2>3, <2>4
<1>7. ASSUME NEW name \in RemoteNames, Save(name)
      PROVE  EditTyped(edit') /\ edit'.id = edit.id
  <2> DEFINE a == [edit EXCEPT !.saving = TRUE]
  <2>1. edit' = [a EXCEPT !.name = name]
    BY <1>7 DEF Save
  <2>2. EditTyped(a) /\ a.id = edit.id
    BY EditSet
  <2> HIDE DEF a
  <2>3. LET s == [a EXCEPT !.name = name] IN EditTyped(s) /\ s.id = a.id
    BY <2>2, EditSet
  <2> QED BY <2>1, <2>2, <2>3
<1>8. ASSUME NEW s \in saves,
             CommandAnswered(s) \/ \E answer \in Answers : CommandEnds(s, answer)
      PROVE  EditTyped(edit') /\ edit'.id = edit.id
  <2>1. edit' = edit \/ edit' = [edit EXCEPT !.saving = FALSE]
    BY <1>8 DEF CommandAnswered, CommandEnds, Concluded, Exhausted, Continued
  <2>2. \A x : LET e == [edit EXCEPT !.saving = x] IN EditTyped(e) /\ e.id = edit.id
    BY EditSet
  <2> QED BY <2>1, <2>2
<1>9. CASE edit' = edit
  BY <1>9
<1>10. CASE Remapped \/ (\E cancel \in BOOLEAN : LeaveEditPage(cancel)) \/ UNCHANGED remoteVars
            \/ (\E l \in listings : ListReads(l) \/ \E ok \in BOOLEAN : ListAnswered(l, ok))
            \/ (\E row \in remotes : ClickDeleteRemote(row))
            \/ (\E d \in deletions : RemoteDeleted(d) \/ \E ok \in BOOLEAN : DeletionEnds(d, ok))
  BY <1>9, <1>10
     DEF Remapped, LeaveEditPage, ListReads, ListAnswered, ClickDeleteRemote, RemoteDeleted,
         DeletionEnds, remoteVars
<1> QED
  BY <1>2, <1>3, <1>4, <1>5, <1>6, <1>7, <1>8, <1>10 DEF RemotesNext, WindowNext

\* The saves and sign-ins under way, and rclone's remotes.
UnderWay ==
  /\ \A a \in auths : a.provider \in Providers
  /\ \A s \in saves : s.name \in RemoteNames /\ s.left \in 0 .. MaxSteps
OneRemoteEach ==
  \A c, d \in conf : c.name \in RemoteNames /\ (c.name = d.name => c = d)

LEMMA UnderWayStep ==
  ASSUME SavesShaped, RemotesAssumption, EditTyped(edit), UnderWay, [RemotesNext]_remoteVars
  PROVE  UnderWay'
<1>1. \A a \in auths' : a.provider \in Providers
  <2>1. CASE Authorize
    <3>1. /\ auths' = auths \cup {[view |-> edit.id, provider |-> edit.provider]}
          /\ edit.provider \in Providers
      BY <2>1, RemotesAssumption DEF Authorize
    <3> QED BY <3>1 DEF UnderWay
  <2>2. auths' \subseteq auths \/ Authorize
    BY DEF RemotesNext, WindowNext, remoteVars, procVars, Remapped, ShowAddRemote, ShowEditRemote,
           Opened, ListReads, ListAnswered, ClickDeleteRemote, RemoteDeleted, DeletionEnds,
           ProvidersLoaded, SelectProvider, AuthorizeAnswered, LeaveEditPage, Save,
           CommandAnswered, CommandEnds
  <2> QED BY <2>1, <2>2 DEF UnderWay
<1>2. ASSUME NEW name \in RemoteNames, Save(name)
      PROVE  \A s \in saves' : s.name \in RemoteNames /\ s.left \in 0 .. MaxSteps
  BY <1>2, NewSave, RemotesAssumption DEF UnderWay
<1>3. ASSUME NEW s \in saves, CommandAnswered(s)
      PROVE  \A t \in saves' : t.name \in RemoteNames /\ t.left \in 0 .. MaxSteps
  <2>1. Further(s).name = s.name /\ Further(s).left = s.left - 1
    BY SaveGoesOn DEF SavesShaped
  <2>2. s.name \in RemoteNames /\ s.left \in 0 .. MaxSteps
    BY DEF UnderWay
  <2>3. s.left # 0 => Further(s).left \in 0 .. MaxSteps
    BY <2>1, <2>2, RemotesAssumption
  <2> QED BY <1>3, <2>1, <2>2, <2>3, AnswerMoves DEF UnderWay
<1>4. ASSUME NEW s \in saves, NEW answer \in Answers, CommandEnds(s, answer)
      PROVE  \A t \in saves' : t.name \in RemoteNames /\ t.left \in 0 .. MaxSteps
  <2>1. saves' = (saves \ {s}) \cup {Ended(s, answer)}
    BY <1>4 DEF CommandEnds, Ended
  <2>2. Ended(s, answer).name = s.name /\ Ended(s, answer).left = s.left
    BY SaveEnded DEF SavesShaped
  <2> QED BY <2>1, <2>2 DEF UnderWay
<1>5. \A s \in saves' : s.name \in RemoteNames /\ s.left \in 0 .. MaxSteps
  BY <1>2, <1>3, <1>4, SavesRest DEF UnderWay
<1> QED BY <1>1, <1>5 DEF UnderWay

LEMMA RemotesOnce ==
  ASSUME SavesShaped, OneRemoteEach, UnderWay, [RemotesNext]_remoteVars
  PROVE  OneRemoteEach'
<1>1. CASE conf' \subseteq conf
  BY <1>1 DEF OneRemoteEach
<1>2. ASSUME NEW s \in saves, NEW more \in BOOLEAN, conf' = Written(s, more)
      PROVE  OneRemoteEach'
  <2>1. PICK type, token : conf' = (conf \ Named(s.name)) \cup
                            {[name |-> s.name, type |-> type, token |-> token, open |-> more]}
    BY <1>2 DEF Written
  <2> DEFINE new == [name |-> s.name, type |-> type, token |-> token, open |-> more]
  <2>2. conf' = (conf \ Named(s.name)) \cup {new} /\ new.name = s.name
    BY <2>1
  <2>3. s.name \in RemoteNames
    BY DEF UnderWay
  <2> HIDE DEF new
  <2>4. \A c \in conf \ Named(s.name) : c \in conf /\ c.name # s.name
    BY DEF Named
  <2> QED BY <2>2, <2>3, <2>4 DEF OneRemoteEach
<1>3. \/ conf' \subseteq conf
      \/ \E s \in saves, more \in BOOLEAN : conf' = Written(s, more)
  <2>1. ASSUME NEW s \in saves, NEW answer \in Answers, CommandEnds(s, answer)
        PROVE  conf' = conf \/ \E more \in BOOLEAN : conf' = Written(s, more)
    BY <2>1 DEF CommandEnds
  <2>2. ASSUME NEW name \in RemoteNames, Save(name)
        PROVE  conf' = conf
    BY <2>2 DEF Save
  <2>3. ASSUME NEW s \in saves, CommandAnswered(s)
        PROVE  conf' = conf
    BY <2>3 DEF CommandAnswered
  <2> QED BY <2>1, <2>2, <2>3, SavesRest
<1> QED BY <1>1, <1>2, <1>3

\* rclone has one remote of a name, however the saves of several edit pages and
\* deletions fall together, and an edit page that is shown is a page.
THEOREM RemoteTypes == RemotesSpec => []RemotesTypeOK
<1> DEFINE TypeInv == /\ SavesShaped /\ EditTyped(edit) /\ (onTop => edit.id # 0)
                      /\ UnderWay /\ OneRemoteEach
<1>1. RemotesInit => TypeInv
  <2> SUFFICES ASSUME RemotesInit
               PROVE  TypeInv
    OBVIOUS
  <2>1. EditTyped(NoEdit)
    BY DEF EditTyped, EditShaped, NoEdit, Granted
  <2>2. edit = NoEdit /\ ~onTop /\ auths = {} /\ saves = {} /\ conf = Conf0
    BY DEF RemotesInit
  <2>3. OneRemoteEach
    BY <2>2, RemotesAssumption DEF OneRemoteEach
  <2> QED BY <2>1, <2>2, <2>3, RemotesStart DEF UnderWay
<1>2. TypeInv /\ [RemotesNext]_remoteVars => TypeInv'
  <2> SUFFICES ASSUME TypeInv, [RemotesNext]_remoteVars
               PROVE  TypeInv'
    OBVIOUS
  <2>1. SavesShaped' /\ UnderWay' /\ OneRemoteEach'
    BY SavesStep, UnderWayStep, RemotesOnce, RemotesAssumption
  <2>2. EditTyped(edit') /\ (edit'.id = edit.id \/ edit'.id # 0)
    BY EditMoves, RemotesAssumption DEF UnderWay
  <2>3. onTop' => onTop \/ edit'.id # 0
    <3>1. ASSUME NEW editing, NEW type, Opened(editing, type)
          PROVE  edit'.id # 0
      BY <3>1, PageNumbered
    <3>2. \/ onTop' => onTop
          \/ \E editing, type : Opened(editing, type)
      BY DEF RemotesNext, WindowNext, remoteVars, Remapped, ShowAddRemote, ShowEditRemote,
             ListReads, ListAnswered, ClickDeleteRemote, RemoteDeleted, DeletionEnds,
             ProvidersLoaded, SelectProvider, Authorize, AuthorizeAnswered, LeaveEditPage, Save,
             CommandAnswered, CommandEnds, Concluded, Exhausted, Continued
    <3> QED BY <3>1, <3>2
  <2> QED BY <2>1, <2>2, <2>3
<1>3. TypeInv => RemotesTypeOK
  <2> SUFFICES ASSUME TypeInv
               PROVE  RemotesTypeOK
    OBVIOUS
  <2>1. ASSUME NEW c \in conf
        PROVE  c.name \in RemoteNames /\ Cardinality(Named(c.name)) = 1
    <3>1. Named(c.name) = {c} /\ c.name \in RemoteNames
      BY DEF OneRemoteEach, Named
    <3> QED BY <3>1, FS_Singleton
  <2>2. edit.provider \in Providers \cup {None} /\ edit.token \in Providers \cup {None}
    BY DEF EditTyped, Granted
  <2>3. onTop => edit # NoEdit
    BY DEF NoEdit
  <2>4. \A s \in saves : s.left \in 0 .. MaxSteps
    BY DEF UnderWay
  <2> QED BY <2>1, <2>2, <2>3, <2>4 DEF RemotesTypeOK
<1> QED BY <1>1, <1>2, <1>3, PTL DEF RemotesSpec

-----------------------------------------------------------------------------
(***************************************************************************)
(* The job edit dialog. A stored schedule names all days by "*" only, so   *)
(* that the form it opens stores the same schedule again, and the preset   *)
(* found for the one is right for the other.                               *)
(***************************************************************************)
FormShaped(f) ==
  f = [type |-> f.type, paths |-> f.paths, local |-> f.local, transfer |-> f.transfer,
       bisync |-> f.bisync, force |-> f.force, mountAtStartup |-> f.mountAtStartup, cache |-> f.cache,
       watch |-> f.watch, scheduled |-> f.scheduled, time |-> f.time, checked |-> f.checked]

FormInv ==
  /\ FormShaped(form) /\ GuardedRowsStayOut /\ PresetIsTrue
  /\ job # NothingStored => job.time # "blank" /\ job.weekdays # Weekdays

LEMMA DaysReturn ==
  /\ \A w : w # Weekdays => DowToCron(DowFromCron(w)) = w
  /\ \A w : DowToCron(w) # Weekdays
  BY FormAssumption DEF DowToCron, DowFromCron, Every

LEMMA PresetsAreCrons ==
  ASSUME NEW p \in DOMAIN Presets
  PROVE  /\ Presets[p] = [time |-> Presets[p].time, weekdays |-> Presets[p].weekdays]
         /\ Presets[p].time # "blank" /\ Presets[p].weekdays # Weekdays
<1>1. {0} # Weekdays /\ Every # Weekdays
  BY FormAssumption DEF Every
<1> HIDE DEF Every
<1> QED BY <1>1 DEF Presets

LEMMA CronOfFields ==
  ASSUME NEW f, NEW g, f.time = g.time, f.checked = g.checked
  PROVE  GetCron(f) = GetCron(g)
  BY DEF GetCron

\* The form opens on a schedule that it would store again.
LEMMA FormOpens ==
  ASSUME FormInv, NEW f, NEW sched, Show(f, sched), FormShaped(f), GetCron(f) = sched
  PROVE  FormInv'
<1>1. form' = f /\ preset' = Detected(sched) /\ preview' = GetCron(f) /\ job' = job
  BY DEF Show
<1>2. Detected(sched) # Custom => Presets[Detected(sched)] = sched
  BY DEF Detected
<1>3. PresetIsTrue'
  BY <1>1, <1>2 DEF PresetIsTrue, GetCron
<1> QED BY <1>1, <1>3 DEF FormInv, FormShaped, GuardedRowsStayOut

LEMMA FormTouched ==
  ASSUME FormInv, NEW f, Touched(f), FormShaped(f), f.time = form.time, f.checked = form.checked
  PROVE  FormInv'
<1>1. form' = f /\ UNCHANGED <<job, preset, preview, open>>
  BY DEF Touched
<1>2. GetCron(f) = GetCron(form)
  BY CronOfFields
<1>3. PresetIsTrue'
  BY <1>1, <1>2 DEF FormInv, PresetIsTrue, GetCron
<1> QED BY <1>1, <1>3 DEF FormInv, FormShaped, GuardedRowsStayOut

\* A cron field that changes changes the form, and what its handler shows.
TimeSet(f, time) == [f EXCEPT !.time = time]
DaysSet(f, days) == [f EXCEPT !.checked = days]

LEMMA FieldForms ==
  ASSUME NEW f, FormShaped(f), NEW x
  PROVE  /\ FormShaped(TimeSet(f, x)) /\ TimeSet(f, x).time = x
         /\ TimeSet(f, x).checked = f.checked
         /\ TimeSet(f, x).type = f.type /\ TimeSet(f, x).cache = f.cache
         /\ FormShaped(DaysSet(f, x)) /\ DaysSet(f, x).checked = x
         /\ DaysSet(f, x).time = f.time
         /\ DaysSet(f, x).type = f.type /\ DaysSet(f, x).cache = f.cache
<1> DEFINE g == [f EXCEPT !.time = x]
           h == [f EXCEPT !.checked = x]
<1>1. FormShaped(g) /\ g.time = x /\ g.checked = f.checked /\ g.type = f.type /\ g.cache = f.cache
  BY DEF FormShaped
<1>2. FormShaped(h) /\ h.checked = x /\ h.time = f.time /\ h.type = f.type /\ h.cache = f.cache
  BY DEF FormShaped
<1>3. TimeSet(f, x) = g /\ DaysSet(f, x) = h
  BY DEF TimeSet, DaysSet
<1> HIDE DEF g, h
<1> QED BY <1>1, <1>2, <1>3

\* A display of the form f, with its own preview.
Shows(s, f, p) == s = Display(f, p, GetCron(f))

LEMMA FieldShows ==
  ASSUME NEW f, NEW p, NEW v, NEW x
  PROVE  /\ Shows(WithTime(Display(f, p, v), x, FALSE), TimeSet(f, x), Custom)
         /\ Shows(WithDays(Display(f, p, v), x, FALSE), DaysSet(f, x), Custom)
         /\ Shows(WithTime(Display(f, p, v), x, TRUE), TimeSet(f, x), p)
         /\ Shows(WithDays(Display(f, p, v), x, TRUE), DaysSet(f, x), p)
<1> DEFINE s == Display(f, p, v)
<1>1. ASSUME NEW g
      PROVE  /\ [s EXCEPT !.form = g] = Display(g, p, v)
             /\ Shows(FieldChanged(Display(g, p, v), TRUE), g, p)
             /\ Shows(FieldChanged(Display(g, p, v), FALSE), g, Custom)
  BY DEF Display, FieldChanged, Shows
<1>2. s.form = f
  BY DEF Display
<1>3. \A u : WithTime(s, x, u) = FieldChanged([s EXCEPT !.form = TimeSet(f, x)], u)
  <2>1. [s EXCEPT !.form = [@ EXCEPT !.time = x]] = [s EXCEPT !.form = TimeSet(f, x)]
    BY <1>2 DEF TimeSet
  <2> QED BY <2>1 DEF WithTime
<1>4. \A u : WithDays(s, x, u) = FieldChanged([s EXCEPT !.form = DaysSet(f, x)], u)
  <2>1. [s EXCEPT !.form = [@ EXCEPT !.checked = x]] = [s EXCEPT !.form = DaysSet(f, x)]
    BY <1>2 DEF DaysSet
  <2> QED BY <2>1 DEF WithDays
<1> HIDE DEF s
<1>5. Shows(WithTime(s, x, FALSE), TimeSet(f, x), Custom) /\ Shows(WithTime(s, x, TRUE), TimeSet(f, x), p)
  BY <1>1, <1>3
<1>6. Shows(WithDays(s, x, FALSE), DaysSet(f, x), Custom) /\ Shows(WithDays(s, x, TRUE), DaysSet(f, x), p)
  BY <1>1, <1>4
<1> QED BY <1>5, <1>6 DEF s

LEMMA FieldShown ==
  ASSUME NEW s, NEW f, NEW p, Displays(s), Shows(s, f, p)
  PROVE  form' = f /\ preset' = p /\ preview' = GetCron(f) /\ job' = job /\ open /\ open' = open
  BY DEF Displays, Display, Shows

\* The two fields of a preset are filled in under m_preset_updating.
PresetForm(sched) == DaysSet(TimeSet(form, sched.time), DowFromCron(sched.weekdays))

LEMMA PresetShows ==
  ASSUME NEW p \in DOMAIN Presets, SelectPreset(p)
  PROVE  \E s : Displays(s) /\ Shows(s, PresetForm(Presets[p]), p)
<1> DEFINE g == TimeSet(form, Presets[p].time)
           d == DowFromCron(Presets[p].weekdays)
           a == WithTime(Display(form, p, preview), Presets[p].time, TRUE)
           s == WithDays(a, d, TRUE)
<1>1. p # Custom
  BY DEF Presets, Custom
<1>2. Displays(s)
  BY <1>1 DEF SelectPreset, FilledIn
<1>3. Shows(a, g, p)
  BY FieldShows
<1> HIDE DEF g, d, a
<1>4. Shows(WithDays(Display(g, p, GetCron(g)), d, TRUE), DaysSet(g, d), p)
  BY FieldShows
<1>5. a = Display(g, p, GetCron(g))
  BY <1>3 DEF Shows
<1>6. Shows(s, DaysSet(g, d), p)
  BY <1>4, <1>5
<1>7. DaysSet(g, d) = PresetForm(Presets[p])
  BY DEF g, d, PresetForm
<1> HIDE DEF s
<1> QED BY <1>2, <1>6, <1>7

LEMMA FormDisplayed ==
  ASSUME FormInv, NEW s, NEW f, NEW p, Displays(s), Shows(s, f, p), FormShaped(f),
         p # Custom => GetCron(f) = Presets[p]
  PROVE  FormInv'
<1>1. form' = f /\ preset' = p /\ preview' = GetCron(f) /\ job' = job
  BY FieldShown
<1>2. PresetIsTrue'
  BY <1>1 DEF PresetIsTrue, GetCron
<1> QED BY <1>1, <1>2 DEF FormInv, FormShaped, GuardedRowsStayOut

\* A field that the user changes leaves no preset; "Custom" changes no field.
LEMMA UserShows ==
  /\ \A time : ChangeTime(time) => \E s : Displays(s) /\ Shows(s, TimeSet(form, time), Custom)
  /\ \A d \in Weekdays : ToggleDay(d) =>
       \E days, s : /\ Displays(s) /\ Shows(s, DaysSet(form, days), Custom)
                    /\ form.checked \subseteq Weekdays => days \subseteq Weekdays
  /\ FormInv /\ SelectPreset(Custom) => \E s : Displays(s) /\ Shows(s, form, Custom)
<1>1. ASSUME NEW time, ChangeTime(time)
      PROVE  \E s : Displays(s) /\ Shows(s, TimeSet(form, time), Custom)
  <2> DEFINE s == WithTime(Display(form, preset, preview), time, FALSE)
  <2>1. Displays(s)
    BY <1>1 DEF ChangeTime
  <2>2. Shows(s, TimeSet(form, time), Custom)
    BY FieldShows
  <2> HIDE DEF s
  <2> QED BY <2>1, <2>2
<1>2. ASSUME NEW d \in Weekdays, ToggleDay(d)
      PROVE  \E days, s : /\ Displays(s) /\ Shows(s, DaysSet(form, days), Custom)
                          /\ form.checked \subseteq Weekdays => days \subseteq Weekdays
  <2> DEFINE days == IF d \in form.checked THEN form.checked \ {d} ELSE form.checked \cup {d}
             s == WithDays(Display(form, preset, preview), days, FALSE)
  <2>1. Displays(s)
    BY <1>2 DEF ToggleDay
  <2>2. form.checked \subseteq Weekdays => days \subseteq Weekdays
    OBVIOUS
  <2> HIDE DEF days
  <2>3. Shows(s, DaysSet(form, days), Custom)
    BY FieldShows
  <2> HIDE DEF s
  <2> QED BY <2>1, <2>2, <2>3
<1>3. ASSUME FormInv, SelectPreset(Custom)
      PROVE  \E s : Displays(s) /\ Shows(s, form, Custom)
  <2>1. Displays(Display(form, Custom, preview))
    BY <1>3 DEF SelectPreset
  <2>2. open
    BY <2>1 DEF Displays
  <2>3. Shows(Display(form, Custom, preview), form, Custom)
    BY <1>3, <2>2 DEF FormInv, PresetIsTrue, Shows
  <2> QED BY <2>1, <2>3
<1> QED BY <1>1, <1>2, <1>3

LEMMA FormStep ==
  ASSUME FormInv, [FormNext]_formVars
  PROVE  FormInv'
<1>1. FormShaped(form)
  BY DEF FormInv
<1>2. CASE EditJob
  <2> DEFINE f == FormOf(job)
             sched == [time |-> job.time, weekdays |-> job.weekdays]
  <2>1. job.time # "blank" /\ job.weekdays # Weekdays /\ Show(f, sched)
    BY <1>2 DEF EditJob, FormInv
  <2>2. f.time = job.time /\ f.checked = DowFromCron(job.weekdays) /\ FormShaped(f)
    BY DEF FormOf, FormShaped
  <2> HIDE DEF f
  <2>3. GetCron(f) = sched
    BY <2>1, <2>2, DaysReturn DEF GetCron
  <2> HIDE DEF sched
  <2> QED BY <2>1, <2>2, <2>3, FormOpens
<1>3. CASE Commit
  <2>1. job' = BuildJob(form) /\ ~open' /\ form' = form
    BY <1>3 DEF Commit
  <2>2. GuardedRowsStayOut'
    BY <2>1 DEF GuardedRowsStayOut, BuildJob, Applies
  <2>3. job'.time # "blank" /\ job'.weekdays # Weekdays
    <3>1. job'.time = GetCron(form).time /\ job'.weekdays = GetCron(form).weekdays
      BY <2>1 DEF BuildJob
    <3> QED BY <3>1, DaysReturn DEF GetCron
  <2>4. PresetIsTrue'
    BY <2>1 DEF PresetIsTrue
  <2> QED BY <2>1, <2>2, <2>3, <2>4 DEF FormInv, FormShaped
<1>4. CASE Discard
  BY <1>4 DEF Discard, FormInv, FormShaped, GuardedRowsStayOut, PresetIsTrue
<1>5. CASE ToggleTransfer \/ ToggleBisync \/ ToggleForce \/ ToggleStartup \/ ToggleWatch \/ ToggleSchedule
  <2>1. CASE ToggleBisync
    <3> DEFINE f == [form EXCEPT !.bisync = ~@]
    <3>1. FormShaped(f) /\ f.time = form.time /\ f.checked = form.checked
      BY <1>1 DEF FormShaped
    <3>2. Touched(f)
      BY <2>1 DEF ToggleBisync
    <3> HIDE DEF f
    <3> QED BY <3>1, <3>2, FormTouched
  <2>2. CASE ToggleForce
    <3> DEFINE f == [form EXCEPT !.force = ~@]
    <3>1. FormShaped(f) /\ f.time = form.time /\ f.checked = form.checked
      BY <1>1 DEF FormShaped
    <3>2. Touched(f)
      BY <2>2 DEF ToggleForce
    <3> HIDE DEF f
    <3> QED BY <3>1, <3>2, FormTouched
  <2>3. CASE ToggleStartup
    <3> DEFINE f == [form EXCEPT !.mountAtStartup = ~@]
    <3>1. FormShaped(f) /\ f.time = form.time /\ f.checked = form.checked
      BY <1>1 DEF FormShaped
    <3>2. Touched(f)
      BY <2>3 DEF ToggleStartup
    <3> HIDE DEF f
    <3> QED BY <3>1, <3>2, FormTouched
  <2>4. CASE ToggleWatch
    <3> DEFINE f == [form EXCEPT !.watch = ~@]
    <3>1. FormShaped(f) /\ f.time = form.time /\ f.checked = form.checked
      BY <1>1 DEF FormShaped
    <3>2. Touched(f)
      BY <2>4 DEF ToggleWatch
    <3> HIDE DEF f
    <3> QED BY <3>1, <3>2, FormTouched
  <2>5. CASE ToggleSchedule
    <3> DEFINE f == [form EXCEPT !.scheduled = ~@]
    <3>1. FormShaped(f) /\ f.time = form.time /\ f.checked = form.checked
      BY <1>1 DEF FormShaped
    <3>2. Touched(f)
      BY <2>5 DEF ToggleSchedule
    <3> HIDE DEF f
    <3> QED BY <3>1, <3>2, FormTouched
  <2>6. CASE ToggleTransfer
    <3> DEFINE f == [form EXCEPT !.transfer = ~@]
    <3>1. FormShaped(f) /\ f.time = form.time /\ f.checked = form.checked
      BY <1>1 DEF FormShaped
    <3>2. Touched(f)
      BY <2>6 DEF ToggleTransfer
    <3> HIDE DEF f
    <3> QED BY <3>1, <3>2, FormTouched
  <2> QED BY <1>5, <2>1, <2>2, <2>3, <2>4, <2>5, <2>6
<1>6. ASSUME NEW type \in Types, OpenNew(type)
      PROVE  FormInv'
  <2> DEFINE f == NewForm(type)
             sched == [time |-> "0 * *", weekdays |-> Every]
  <2>1. f.time = "0 * *" /\ f.checked = Weekdays /\ FormShaped(f)
    BY DEF NewForm, FormShaped
  <2>2. Show(f, sched)
    BY <1>6 DEF OpenNew
  <2> HIDE DEF f
  <2>3. GetCron(f) = sched
    BY <2>1 DEF GetCron, DowToCron
  <2> HIDE DEF sched
  <2> QED BY <2>1, <2>2, <2>3, FormOpens
<1>7. ASSUME NEW type \in Types, ChangeType(type)
      PROVE  FormInv'
  <2> DEFINE f == [form EXCEPT !.type = type]
  <2>1. FormShaped(f) /\ f.time = form.time /\ f.checked = form.checked
    BY <1>1 DEF FormShaped
  <2>2. Touched(f)
    BY <1>7 DEF ChangeType
  <2> HIDE DEF f
  <2> QED BY <2>1, <2>2, FormTouched
<1>8. ASSUME NEW full \in BOOLEAN, NEW local \in BOOLEAN, ChangePaths(full, local)
      PROVE  FormInv'
  <2> DEFINE near == full /\ local
             g == [form EXCEPT !.paths = full]
             f == [g EXCEPT !.local = near]
  <2>1. Touched(f)
    BY <1>8 DEF ChangePaths
  <2> HIDE DEF near
  <2>2. FormShaped(g) /\ g.time = form.time /\ g.checked = form.checked
    BY <1>1 DEF FormShaped
  <2> HIDE DEF g
  <2>3. FormShaped(f) /\ f.time = g.time /\ f.checked = g.checked
    BY <2>2 DEF FormShaped
  <2> HIDE DEF f
  <2> QED BY <2>1, <2>2, <2>3, FormTouched
<1>9. ASSUME NEW cached \in Caches, ChangeCache(cached)
      PROVE  FormInv'
  <2> DEFINE f == [form EXCEPT !.cache = cached]
  <2>1. FormShaped(f) /\ f.time = form.time /\ f.checked = form.checked
    BY <1>1 DEF FormShaped
  <2>2. Touched(f)
    BY <1>9 DEF ChangeCache
  <2> HIDE DEF f
  <2> QED BY <2>1, <2>2, FormTouched
<1>10. ASSUME NEW time \in Times, ChangeTime(time)
       PROVE  FormInv'
  BY <1>1, <1>10, UserShows, FieldForms, FormDisplayed
<1>11. ASSUME NEW d \in Weekdays, ToggleDay(d)
       PROVE  FormInv'
  BY <1>1, <1>11, UserShows, FieldForms, FormDisplayed
<1>12. ASSUME NEW p \in DOMAIN Presets \cup {Custom}, SelectPreset(p)
       PROVE  FormInv'
  <2>1. CASE p = Custom
    BY <1>1, <1>12, <2>1, UserShows, FormDisplayed
  <2>2. CASE p \in DOMAIN Presets
    <3> DEFINE time == Presets[p].time
               days == DowFromCron(Presets[p].weekdays)
               g == TimeSet(form, time)
               f == DaysSet(g, days)
    <3>1. PICK s : Displays(s) /\ Shows(s, f, p)
      BY <1>12, <2>2, PresetShows DEF PresetForm
    <3>2. /\ Presets[p] = [time |-> time, weekdays |-> Presets[p].weekdays]
          /\ time # "blank" /\ DowToCron(days) = Presets[p].weekdays
      BY <2>2, PresetsAreCrons, DaysReturn
    <3> HIDE DEF time, days
    <3>3. FormShaped(g) /\ g.time = time
      BY <1>1, FieldForms
    <3> HIDE DEF g
    <3>4. FormShaped(f) /\ f.time = g.time /\ f.checked = days
      BY <3>3, FieldForms
    <3> HIDE DEF f
    <3>5. GetCron(f) = Presets[p]
      BY <3>2, <3>3, <3>4 DEF GetCron
    <3> QED BY <3>1, <3>4, <3>5, FormDisplayed
  <2> QED BY <2>1, <2>2
<1>13. CASE UNCHANGED formVars
  BY <1>13 DEF formVars, FormInv, FormShaped, GuardedRowsStayOut, PresetIsTrue, GetCron
<1> QED
  BY <1>2, <1>3, <1>4, <1>5, <1>6, <1>7, <1>8, <1>9, <1>10, <1>11, <1>12, <1>13 DEF FormNext

LEMMA FormAlways == FormSpec => []FormInv
<1>1. FormInit => FormInv
  BY DEF FormInit, FormInv, NewForm, FormShaped, GuardedRowsStayOut, PresetIsTrue
<1>2. FormInv /\ [FormNext]_formVars => FormInv'
  BY FormStep
<1> QED BY <1>1, <1>2, PTL DEF FormSpec

\* Of the options whose rows build_job() asks about, a job is stored without
\* those of another type, whatever the hidden rows hold and however often the
\* form is opened and stored.
THEOREM HiddenRowsStayOut == FormSpec => []GuardedRowsStayOut
<1>1. FormInv => GuardedRowsStayOut
  BY DEF FormInv
<1> QED BY <1>1, FormAlways, PTL

\* The preset that the dialog names is the schedule it would store, and so is
\* its preview: after opening, after any change and after another preset, for
\* every set of weekdays in which Sunday is not alone.
THEOREM PresetsAreTrue == FormSpec => []PresetIsTrue
<1>1. FormInv => PresetIsTrue
  BY DEF FormInv
<1> QED BY <1>1, FormAlways, PTL

\* The fields of a stored job are values that the rows of the form can show.
StoredTyped ==
  job # NothingStored =>
    /\ job.type \in Types /\ job.cache \in Caches \cup {""} /\ job.time \in Times
    /\ job.weekdays = Every \/ job.weekdays \subseteq Weekdays

FormTyped(f) ==
  f.type \in Types /\ f.cache \in Caches /\ f.time \in Times /\ f.checked \subseteq Weekdays

LEMMA PresetTyped ==
  ASSUME NEW p \in DOMAIN Presets
  PROVE  Presets[p].time \in Times /\ DowFromCron(Presets[p].weekdays) \subseteq Weekdays
BY FormAssumption DEF Presets, Times, DowFromCron, Every

\* A form that was opened, changed and stored in any order holds a type, a
\* cache mode, a time and days that its rows offer, and names a known preset.
THEOREM FormTypes == FormSpec => []FormTypeOK
<1> DEFINE TypeInv == FormInv /\ StoredTyped /\ FormTypeOK
<1>1. FormInit => FormInv /\ StoredTyped /\ FormTypeOK
  <2>1. FormInit => FormInv
    BY DEF FormInit, FormInv, NewForm, FormShaped, GuardedRowsStayOut, PresetIsTrue
  <2>2. FormInit => StoredTyped
    BY DEF FormInit, StoredTyped
  <2>3. FormInit => touches \in 0 .. MaxTouches
    BY FormAssumption DEF FormInit
  <2>4. FormTyped(NewForm("sync"))
    BY DEF NewForm, FormTyped, Types, Caches, Times
  <2>5. FormInit => form = NewForm("sync") /\ preset = Custom
    BY DEF FormInit
  <2> QED BY <2>1, <2>2, <2>3, <2>4, <2>5 DEF FormTyped, FormTypeOK
<1>2. TypeInv /\ [FormNext]_formVars => TypeInv'
  <2> SUFFICES ASSUME FormInv, StoredTyped, FormTypeOK, [FormNext]_formVars
               PROVE  StoredTyped' /\ FormTypeOK'
    BY FormStep
  <2>1. FormShaped(form) /\ FormTyped(form)
    BY DEF FormInv, FormTypeOK, FormTyped
  <2>2. StoredTyped'
    <3>1. CASE Commit
      <4>1. job' = BuildJob(form)
        BY <3>1 DEF Commit
      <4>2. BuildJob(form).type = form.type /\ BuildJob(form).cache \in {"", form.cache}
        BY DEF BuildJob
      <4>3. /\ BuildJob(form).time = GetCron(form).time
            /\ BuildJob(form).weekdays = DowToCron(form.checked)
        BY DEF BuildJob, GetCron
      <4>4. GetCron(form).time \in Times
        BY <2>1 DEF GetCron, FormTyped, Times
      <4>5. DowToCron(form.checked) = Every \/ DowToCron(form.checked) \subseteq Weekdays
        BY <2>1 DEF DowToCron, FormTyped
      <4> QED BY <2>1, <4>1, <4>2, <4>3, <4>4, <4>5 DEF StoredTyped, FormTyped
    <3>2. CASE job' = job
      BY <3>2 DEF StoredTyped
    <3> QED
      BY <3>1, <3>2
         DEF FormNext, formVars, Discard, EditJob, OpenNew, Show, ToggleTransfer, ToggleBisync, ToggleForce,
             ToggleStartup, ToggleWatch, ToggleSchedule, ChangeType, ChangePaths, ChangeCache, Touched,
             ChangeTime, ToggleDay, Displays, SelectPreset
  <2>3. FormTyped(form')
    <3>1. CASE EditJob
      <4>1. form' = FormOf(job) /\ job # NothingStored
        BY <3>1 DEF EditJob, Show
      <4>2. FormTyped(FormOf(job))
        BY <4>1 DEF StoredTyped, FormOf, FormTyped, DowFromCron, Caches
      <4> QED BY <4>1, <4>2
    <3>2. ASSUME NEW type \in Types, OpenNew(type)
          PROVE  FormTyped(form')
      BY <3>2 DEF OpenNew, Show, NewForm, FormTyped, Caches, Times
    <3>3. CASE Commit \/ Discard \/ UNCHANGED formVars
      BY <2>1, <3>3 DEF Commit, Discard, formVars
    <3>4. CASE ToggleTransfer \/ ToggleBisync \/ ToggleForce \/ ToggleStartup \/ ToggleWatch \/ ToggleSchedule
      BY <2>1, <3>4
         DEF ToggleTransfer, ToggleBisync, ToggleForce, ToggleStartup, ToggleWatch, ToggleSchedule, Touched,
             FormShaped, FormTyped
    <3>5. ASSUME NEW type \in Types, ChangeType(type)
          PROVE  FormTyped(form')
      BY <2>1, <3>5 DEF ChangeType, Touched, FormShaped, FormTyped
    <3>6. ASSUME NEW full \in BOOLEAN, NEW local \in BOOLEAN, ChangePaths(full, local)
          PROVE  FormTyped(form')
      BY <2>1, <3>6 DEF ChangePaths, Touched, FormShaped, FormTyped
    <3>7. ASSUME NEW cache \in Caches, ChangeCache(cache)
          PROVE  FormTyped(form')
      BY <2>1, <3>7 DEF ChangeCache, Touched, FormShaped, FormTyped
    <3>8. ASSUME NEW time \in Times, ChangeTime(time)
          PROVE  FormTyped(form')
      <4>1. form' = TimeSet(form, time)
        BY <3>8, UserShows, FieldShown
      <4> QED BY <2>1, <4>1, FieldForms DEF FormTyped
    <3>9. ASSUME NEW d \in Weekdays, ToggleDay(d)
          PROVE  FormTyped(form')
      <4>1. PICK days : form' = DaysSet(form, days) /\ days \subseteq Weekdays
        BY <2>1, <3>9, UserShows, FieldShown DEF FormTyped
      <4> QED BY <2>1, <4>1, FieldForms DEF FormTyped
    <3>10. ASSUME NEW p \in DOMAIN Presets \cup {Custom}, SelectPreset(p)
           PROVE  FormTyped(form')
      <4>1. CASE p = Custom
        BY <2>1, <3>10, <4>1, UserShows, FieldShown
      <4>2. CASE p \in DOMAIN Presets
        <5> DEFINE time == Presets[p].time
                   days == DowFromCron(Presets[p].weekdays)
        <5>1. form' = DaysSet(TimeSet(form, time), days)
          BY <3>10, <4>2, PresetShows, FieldShown DEF PresetForm
        <5>2. time \in Times /\ days \subseteq Weekdays
          BY <4>2, PresetTyped
        <5> HIDE DEF time, days
        <5>3. FormShaped(TimeSet(form, time)) /\ FormTyped(TimeSet(form, time))
          BY <2>1, <5>2, FieldForms DEF FormTyped
        <5> QED BY <5>1, <5>2, <5>3, FieldForms DEF FormTyped
      <4> QED BY <4>1, <4>2
    <3> QED BY <3>1, <3>2, <3>3, <3>4, <3>5, <3>6, <3>7, <3>8, <3>9, <3>10 DEF FormNext
  <2>4. preset' \in DOMAIN Presets \cup {Custom}
    <3>1. \A c : Detected(c) \in DOMAIN Presets \cup {Custom}
      BY DEF Detected
    <3>2. ASSUME NEW time \in Times, ChangeTime(time)
          PROVE  preset' = Custom
      BY <3>2, UserShows, FieldShown
    <3>3. ASSUME NEW d \in Weekdays, ToggleDay(d)
          PROVE  preset' = Custom
      BY <3>3, UserShows, FieldShown
    <3>4. ASSUME NEW p \in DOMAIN Presets \cup {Custom}, SelectPreset(p)
          PROVE  preset' = p
      <4>1. p = Custom => preset' = p
        BY <3>4, UserShows, FieldShown
      <4>2. p \in DOMAIN Presets => preset' = p
        BY <3>4, PresetShows, FieldShown
      <4> QED BY <4>1, <4>2
    <3> HIDE DEF Presets
    <3> QED
      BY <3>1, <3>2, <3>3, <3>4
         DEF FormTypeOK, FormNext, formVars, Commit, Discard, EditJob, OpenNew, Show, ToggleTransfer,
             ToggleBisync, ToggleForce, ToggleStartup, ToggleWatch, ToggleSchedule, ChangeType,
             ChangePaths, ChangeCache, Touched
  <2>5. touches' = touches \/ (touches < MaxTouches /\ touches' = touches + 1)
    BY DEF FormTypeOK, FormNext, formVars, Commit, Discard, EditJob, OpenNew, Show, Touch, ToggleTransfer, ToggleBisync,
           ToggleForce, ToggleStartup, ToggleWatch, ToggleSchedule, ChangeType, ChangePaths,
           ChangeCache, Touched, ChangeTime, ToggleDay, Displays, SelectPreset
  <2>6. touches' \in 0 .. MaxTouches
    BY <2>5, FormAssumption DEF FormTypeOK
  <2> QED BY <2>2, <2>3, <2>4, <2>6 DEF FormTyped, FormTypeOK
<1>3. TypeInv => FormTypeOK
  OBVIOUS
<1> QED BY <1>1, <1>2, <1>3, PTL DEF FormSpec

-----------------------------------------------------------------------------
(***************************************************************************)
(* The file browser. A listing that is still awaited and bears the         *)
(* generation of its pane is one of the directory the pane is at, so only  *)
(* such a listing is ever shown; older ones bear lower numbers.            *)
(***************************************************************************)
DirPaths      == Seq(DirNames)
Visited(from) == [remote : {from}, path : DirPaths]

PaneShaped(r) ==
  r = [remote |-> r.remote, path |-> r.path, history |-> r.history, gen |-> r.gen,
       content |-> r.content, list |-> r.list, chosen |-> r.chosen, known |-> r.known,
       mapped |-> r.mapped, hidden |-> r.hidden, shownAt |-> r.shownAt]

PaneTyped(r) ==
  /\ PaneShaped(r) /\ r.gen \in Nat /\ r.path \in DirPaths
  /\ r.history \in Seq(Visited(r.remote)) /\ r.known \subseteq Remotes

ShowsItself(r) ==
  r.content \in {"files", "empty", "error"} =>
    /\ r.shownAt = At(r)
    /\ r.content # "error" => \A e \in r.list : e.at = At(r)

\* The open listings S of the panes P
Awaiting(S, P) ==
  \A a \in S : /\ a.p \in Panes /\ a.gen \in Nat /\ a.gen <= P[a.p].gen
               /\ a.gen = P[a.p].gen => a.at = At(P[a.p])

Mapped(P) ==
  IF P["left"].mapped = TRUE THEN \A p \in Panes : P[p].remote # NoRemote
  ELSE \A p \in Panes : P[p].remote = NoRemote /\ P[p].content = "no-remote"

PanesInv ==
  /\ pane = [p \in Panes |-> pane[p]] /\ \A p \in Panes : PaneTyped(pane[p]) /\ ShowsItself(pane[p])
  /\ Awaiting(asks, pane) /\ Mapped(pane)
  /\ pane["left"].mapped \in BOOLEAN /\ (~pane["left"].mapped => asks = {} /\ ops = {})
  /\ active \in Panes /\ UnreadableSpared

LEMMA SidesDiffer == \A p \in Panes : Other(p) \in Panes
  BY DEF Other, Panes

\* The paths a pane can go to, and its history with the place it leaves.
LEMMA PathsLead ==
  ASSUME NEW r, PaneTyped(r)
  PROVE  /\ \A n \in 0 .. Len(r.path) : SubSeq(r.path, 1, n) \in DirPaths
         /\ r.path # <<>> => Front(r.path) \in DirPaths
         /\ \A name \in DirNames : Append(r.path, name) \in DirPaths
         /\ Append(r.history, Here(r)) \in Seq(Visited(r.remote))
         /\ r.history # <<>> => /\ Front(r.history) \in Seq(Visited(r.remote))
                                /\ Last(r.history).path \in DirPaths
<1>1. r.path \in Seq(DirNames) /\ r.history \in Seq(Visited(r.remote))
  BY DEF PaneTyped, DirPaths
<1>2. \A i \in 1 .. Len(r.path) : r.path[i] \in DirNames
  BY <1>1, ElementOfSeq
<1>3. \A i \in 1 .. Len(r.history) : r.history[i] \in Visited(r.remote)
  BY <1>1, ElementOfSeq
<1>4. Len(r.path) \in Nat /\ Len(r.history) \in Nat
  BY <1>1
<1>5. \A n \in 0 .. Len(r.path) : SubSeq(r.path, 1, n) \in DirPaths
  <2> TAKE n \in 0 .. Len(r.path)
  <2>1. n \in Int /\ \A i \in 1 .. n : r.path[i] \in DirNames
    BY <1>2, <1>4
  <2> QED BY <2>1, SubSeqProperties DEF DirPaths
<1>6. ASSUME r.path # <<>>
      PROVE  Front(r.path) \in DirPaths
  <2>1. Len(r.path) # 0
    BY <1>1, <1>6, EmptySeq
  <2> QED BY <1>4, <1>5, <2>1 DEF Front
<1>7. \A name \in DirNames : Append(r.path, name) \in DirPaths
  BY <1>1 DEF DirPaths
<1>8. Append(r.history, Here(r)) \in Seq(Visited(r.remote))
  <2>1. Here(r) \in Visited(r.remote)
    BY <1>1 DEF Here, Visited, DirPaths
  <2> QED BY <1>1, <2>1
<1>9. ASSUME r.history # <<>>
      PROVE  Front(r.history) \in Seq(Visited(r.remote)) /\ Last(r.history).path \in DirPaths
  <2>1. Len(r.history) # 0
    BY <1>1, <1>9, EmptySeq
  <2>2. Len(r.history) - 1 \in Int /\ \A i \in 1 .. Len(r.history) - 1 : r.history[i] \in Visited(r.remote)
    BY <1>3, <1>4
  <2>3. Front(r.history) \in Seq(Visited(r.remote))
    BY <2>2, SubSeqProperties DEF Front
  <2>4. Last(r.history) \in Visited(r.remote)
    BY <1>3, <1>4, <2>1 DEF Last
  <2> QED BY <2>3, <2>4 DEF Visited
<1> QED BY <1>5, <1>6, <1>7, <1>8, <1>9

\* navigate(): a new generation, and the loading page.
LEMMA MovedOn ==
  ASSUME NEW r, PaneTyped(r), r.remote # NoRemote, NEW path \in DirPaths
  PROVE  LET m == Moved(r, path) IN
         /\ PaneTyped(m) /\ m.gen = r.gen + 1 /\ m.content = "loading" /\ m.path = path
         /\ m.remote = r.remote /\ m.mapped = r.mapped
<1> DEFINE g == r.gen + 1
           a == [r EXCEPT !.path = path]
           b == [a EXCEPT !.gen = g]
           m == [b EXCEPT !.content = "loading"]
<1>1. Moved(r, path) = m
  BY DEF Moved
<1>2. PaneShaped(r) /\ g \in Nat /\ r.history \in Seq(Visited(r.remote)) /\ r.known \subseteq Remotes
  BY DEF PaneTyped
<1>3. g = r.gen + 1
  OBVIOUS
<1> HIDE DEF g
<1>4. PaneShaped(a) /\ a.path = path /\ a.remote = r.remote
  BY <1>2 DEF PaneShaped
<1>5. a.history = r.history /\ a.known = r.known /\ a.mapped = r.mapped
  BY <1>2 DEF PaneShaped
<1> HIDE DEF a
<1>6. PaneShaped(b) /\ b.path = a.path /\ b.remote = a.remote /\ b.gen = g
  BY <1>4 DEF PaneShaped
<1>7. b.history = a.history /\ b.known = a.known /\ b.mapped = a.mapped
  BY <1>4 DEF PaneShaped
<1> HIDE DEF b
<1>8. PaneShaped(m) /\ m.path = b.path /\ m.remote = b.remote /\ m.gen = b.gen
  BY <1>6 DEF PaneShaped
<1>9. m.history = b.history /\ m.known = b.known /\ m.mapped = b.mapped /\ m.content = "loading"
  BY <1>6 DEF PaneShaped
<1> HIDE DEF m
<1>10. PaneTyped(m)
  BY <1>2, <1>4, <1>5, <1>6, <1>7, <1>8, <1>9 DEF PaneTyped
<1>11. m.gen = r.gen + 1 /\ m.content = "loading" /\ m.path = path /\ m.remote = r.remote
       /\ m.mapped = r.mapped
  BY <1>3, <1>4, <1>5, <1>6, <1>7, <1>8, <1>9
<1> QED BY <1>1, <1>10, <1>11

\* One pane goes somewhere, with a changed history, remote or setting.
LEMMA OneNavigates ==
  ASSUME PanesInv, pane["left"].mapped, NEW p \in Panes, NEW r, PaneTyped(r),
         r.gen = pane[p].gen, r.mapped = pane[p].mapped, r.remote # NoRemote,
         NEW path \in DirPaths, Navigate(p, r, path), UnreadableSpared', active' \in Panes
  PROVE  PanesInv'
<1> DEFINE m == Moved(r, path)
<1>1. /\ PaneTyped(m) /\ m.gen = r.gen + 1 /\ m.content = "loading" /\ m.path = path
      /\ m.remote = r.remote /\ m.mapped = r.mapped
  BY MovedOn
<1>2. pane' = [pane EXCEPT ![p] = m] /\ asks' = asks \cup Ask(p, m)
  BY DEF Navigate
<1> HIDE DEF m
<1>3. pane' = [q \in Panes |-> pane'[q]] /\ pane'[p] = m /\ \A q \in Panes \ {p} : pane'[q] = pane[q]
  BY <1>2 DEF PanesInv
<1>4. \A q \in Panes : PaneTyped(pane'[q]) /\ ShowsItself(pane'[q])
  BY <1>1, <1>3 DEF PanesInv, ShowsItself
<1>5. Awaiting(asks', pane')
  <2> SUFFICES ASSUME NEW a \in asks'
               PROVE  /\ a.p \in Panes /\ a.gen \in Nat /\ a.gen <= pane'[a.p].gen
                      /\ a.gen = pane'[a.p].gen => a.at = At(pane'[a.p])
    BY DEF Awaiting
  <2>1. pane[p].gen \in Nat /\ m.gen \in Nat /\ m.gen = pane[p].gen + 1
    BY <1>1 DEF PanesInv, PaneTyped
  <2>2. CASE a \in asks
    <3>1. /\ a.p \in Panes /\ a.gen \in Nat /\ a.gen <= pane[a.p].gen
          /\ a.gen = pane[a.p].gen => a.at = At(pane[a.p])
      BY <2>2 DEF PanesInv, Awaiting
    <3>2. CASE a.p = p
      BY <1>3, <2>1, <3>1, <3>2
    <3>3. CASE a.p # p
      BY <1>3, <3>1, <3>3
    <3> QED BY <3>2, <3>3
  <2>3. CASE a \notin asks
    <3>1. a = [p |-> p, gen |-> m.gen, at |-> At(m)]
      BY <1>2, <2>3 DEF Ask
    <3>2. a.p = p /\ a.gen = m.gen /\ a.at = At(m)
      BY <3>1
    <3> QED BY <1>3, <2>1, <3>2
  <2> QED BY <2>2, <2>3
<1>6. "left" \in Panes /\ \A q \in Panes : pane[q].remote # NoRemote
  BY DEF PanesInv, Mapped, Panes
<1>7. pane'["left"].mapped = pane["left"].mapped
  BY <1>1, <1>3, <1>6
<1>8. Mapped(pane') /\ pane'["left"].mapped \in BOOLEAN /\ pane'["left"].mapped = TRUE
  BY <1>1, <1>3, <1>6, <1>7 DEF PanesInv, Mapped
<1> QED BY <1>3, <1>4, <1>5, <1>8 DEF PanesInv

\* Both panes go somewhere at once.
LEMMA BothNavigate ==
  ASSUME PanesInv, NEW w, w = [p \in Panes |-> w[p]], pane' = w,
         \A p \in Panes : /\ PaneTyped(w[p]) /\ w[p].gen = pane[p].gen + 1
                          /\ w[p].content = "loading" /\ w[p].remote # NoRemote,
         w["left"].mapped = TRUE,
         asks' \subseteq asks \cup UNION {Ask(p, w[p]) : p \in Panes},
         UnreadableSpared', active' \in Panes
  PROVE  PanesInv'
<1>1. \A q \in Panes : PaneTyped(pane'[q]) /\ ShowsItself(pane'[q])
  BY DEF ShowsItself
<1>2. Awaiting(asks', pane')
  <2> SUFFICES ASSUME NEW a \in asks'
               PROVE  /\ a.p \in Panes /\ a.gen \in Nat /\ a.gen <= pane'[a.p].gen
                      /\ a.gen = pane'[a.p].gen => a.at = At(pane'[a.p])
    BY DEF Awaiting
  <2>1. \A p \in Panes : pane[p].gen \in Nat /\ w[p].gen \in Nat /\ w[p].gen = pane[p].gen + 1
    BY DEF PanesInv, PaneTyped
  <2>2. CASE a \in asks
    <3>1. a.p \in Panes /\ a.gen \in Nat /\ a.gen <= pane[a.p].gen
      BY <2>2 DEF PanesInv, Awaiting
    <3> QED BY <2>1, <3>1
  <2>3. CASE a \notin asks
    <3>1. PICK p \in Panes : a \in Ask(p, w[p])
      BY <2>3
    <3>2. a = [p |-> p, gen |-> w[p].gen, at |-> At(w[p])]
      BY <3>1 DEF Ask
    <3>3. a.p = p /\ a.gen = w[p].gen /\ a.at = At(w[p])
      BY <3>2
    <3> QED BY <2>1, <3>3
  <2> QED BY <2>2, <2>3
<1>3. Mapped(pane') /\ pane'["left"].mapped \in BOOLEAN /\ pane'["left"].mapped
  BY DEF Mapped
<1> QED BY <1>1, <1>2, <1>3 DEF PanesInv

\* One pane changes what it shows or selects, and stays where it is.
LEMMA OneStays ==
  ASSUME PanesInv, NEW p \in Panes, NEW r, PaneTyped(r), ShowsItself(r),
         r.gen = pane[p].gen, r.remote = pane[p].remote, r.path = pane[p].path,
         r.mapped = pane[p].mapped,
         pane[p].remote # NoRemote \/ r.content = pane[p].content,
         pane' = [pane EXCEPT ![p] = r], asks' \subseteq asks, ops' = ops, active' \in Panes
  PROVE  PanesInv'
<1>1. pane' = [q \in Panes |-> pane'[q]] /\ pane'[p] = r /\ \A q \in Panes \ {p} : pane'[q] = pane[q]
  BY DEF PanesInv
<1>2. \A q \in Panes : PaneTyped(pane'[q]) /\ ShowsItself(pane'[q])
  BY <1>1 DEF PanesInv
<1>3. \A q \in Panes : pane'[q].gen = pane[q].gen /\ At(pane'[q]) = At(pane[q])
  BY <1>1 DEF At
<1>4. Awaiting(asks', pane')
  BY <1>3 DEF PanesInv, Awaiting
<1>5. "left" \in Panes
  BY DEF Panes
<1>6. pane'["left"].mapped = pane["left"].mapped /\ \A q \in Panes : pane'[q].remote = pane[q].remote
  BY <1>1, <1>5
<1>7. Mapped(pane')
  <2>1. CASE pane["left"].mapped = TRUE
    BY <1>6, <2>1 DEF PanesInv, Mapped
  <2>2. CASE pane["left"].mapped # TRUE
    <3>1. \A q \in Panes : pane[q].remote = NoRemote /\ pane[q].content = "no-remote"
      BY <2>2 DEF PanesInv, Mapped
    <3>2. \A q \in Panes : pane'[q].content = pane[q].content
      BY <1>1, <3>1
    <3> QED BY <1>6, <2>2, <3>1, <3>2 DEF Mapped
  <2> QED BY <2>1, <2>2
<1>8. ~pane'["left"].mapped => asks' = {} /\ ops' = {}
  BY <1>6 DEF PanesInv
<1>9. UnreadableSpared'
  BY DEF PanesInv, UnreadableSpared
<1> QED BY <1>1, <1>2, <1>4, <1>6, <1>7, <1>8, <1>9 DEF PanesInv

\* The panes as they are; a deletion, a folder or a job is asked for.
LEMMA NoneMoves ==
  ASSUME PanesInv, UNCHANGED <<pane, asks>>, active' \in Panes, UnreadableSpared',
         ops' = ops \/ pane["left"].mapped
  PROVE  PanesInv'
  BY DEF PanesInv, Awaiting, Mapped, PaneTyped, PaneShaped, ShowsItself, At

LEMMA PanesMapped ==
  ASSUME PanesInv, MapPanes
  PROVE  PanesInv'
<1> DEFINE M(p) == [pane[p] EXCEPT !.mapped = TRUE]
           A(p) == [M(p) EXCEPT !.remote = Local]
           B(p) == Switched(M(p), Local)
           W(p) == Moved(B(p), Home)
           w == [p \in Panes |-> W(p)]
<1>1. pane' = w /\ asks' = UNION {Ask(p, W(p)) : p \in Panes} /\ active' = "right" /\ ops' = ops
  BY DEF MapPanes
<1>2. Home \in DirPaths /\ Local # NoRemote
  BY BrowserAssumption DEF DirPaths, Local, NoRemote
<1>3. ASSUME NEW p \in Panes
      PROVE  /\ PaneTyped(W(p)) /\ W(p).gen = pane[p].gen + 1 /\ W(p).content = "loading"
             /\ W(p).remote = Local /\ W(p).mapped = TRUE
  <2> DEFINE a == M(p)
             c == [a EXCEPT !.remote = Local]
             b == [c EXCEPT !.history = <<>>]
  <2>1. PaneShaped(pane[p]) /\ pane[p].gen \in Nat /\ pane[p].path \in DirPaths /\ pane[p].known \subseteq Remotes
    BY DEF PanesInv, PaneTyped
  <2>2. B(p) = b
    BY DEF Switched
  <2>13. a = [pane[p] EXCEPT !.mapped = TRUE]
    OBVIOUS
  <2> HIDE DEF a, M
  <2>3. PaneShaped(a) /\ a.gen = pane[p].gen /\ a.path = pane[p].path
    BY <2>1, <2>13 DEF PaneShaped
  <2>4. a.known = pane[p].known /\ a.mapped = TRUE
    BY <2>1, <2>13 DEF PaneShaped
  <2>5. PaneShaped(c) /\ c.gen = a.gen /\ c.path = a.path /\ c.known = a.known
    BY <2>3 DEF PaneShaped
  <2>6. c.mapped = a.mapped /\ c.remote = Local
    BY <2>3 DEF PaneShaped
  <2> HIDE DEF c
  <2>7. PaneShaped(b) /\ b.gen = c.gen /\ b.path = c.path /\ b.known = c.known
    BY <2>5 DEF PaneShaped
  <2>8. b.mapped = c.mapped /\ b.remote = c.remote /\ b.history = <<>>
    BY <2>5 DEF PaneShaped
  <2> HIDE DEF b
  <2>9. PaneTyped(b)
    BY <2>1, <2>3, <2>4, <2>5, <2>6, <2>7, <2>8 DEF PaneTyped
  <2>10. b.remote = Local /\ b.mapped = TRUE /\ b.gen = pane[p].gen
    BY <2>3, <2>4, <2>5, <2>6, <2>7, <2>8
  <2> HIDE DEF B
  <2>11. W(p) = Moved(b, Home)
    BY <2>2
  <2> HIDE DEF W
  <2>12. PaneTyped(W(p)) /\ W(p).gen = b.gen + 1 /\ W(p).content = "loading"
         /\ W(p).remote = b.remote /\ W(p).mapped = b.mapped
    BY <1>2, <2>9, <2>10, <2>11, MovedOn
  <2> QED BY <2>10, <2>12
<1> HIDE DEF W, M, A, B
<1>4. \A p \in Panes : w[p] = W(p)
  OBVIOUS
<1>5. w = [p \in Panes |-> w[p]]
  OBVIOUS
<1>6. asks' \subseteq asks \cup UNION {Ask(p, w[p]) : p \in Panes}
  BY <1>1, <1>4
<1> HIDE DEF w
<1>7. UnreadableSpared'
  BY <1>1 DEF PanesInv, UnreadableSpared
<1>8. w["left"].mapped = TRUE /\ active' \in Panes
  BY <1>1, <1>3, <1>4 DEF Panes
<1>9. \A p \in Panes : /\ PaneTyped(w[p]) /\ w[p].gen = pane[p].gen + 1
                        /\ w[p].content = "loading" /\ w[p].remote # NoRemote
  BY <1>2, <1>3, <1>4
<1>10. pane' = w
  BY <1>1 DEF w
<1> HIDE DEF w
<1> QED BY <1>5, <1>6, <1>7, <1>8, <1>9, <1>10, BothNavigate

LEMMA PanesSwapped ==
  ASSUME PanesInv, SwapPanes
  PROVE  PanesInv'
<1> DEFINE To(p) == [pane[p] EXCEPT !.remote  = pane[Other(p)].remote,
                                    !.path    = pane[Other(p)].path,
                                    !.history = pane[Other(p)].history]
           W(p) == Moved(To(p), To(p).path)
           w == [p \in Panes |-> W(p)]
<1>1. /\ pane' = w /\ asks' = asks \cup UNION {Ask(p, W(p)) : p \in Panes}
      /\ active' = active /\ ops' = ops /\ pane["left"].mapped
  BY DEF SwapPanes, User
<1>2. \A p \in Panes : pane[p].remote # NoRemote
  BY <1>1 DEF PanesInv, Mapped
<1>3. ASSUME NEW p \in Panes
      PROVE  /\ PaneTyped(W(p)) /\ W(p).gen = pane[p].gen + 1 /\ W(p).content = "loading"
             /\ W(p).remote # NoRemote /\ W(p).mapped = pane[p].mapped
  <2> DEFINE o == pane[Other(p)]
             a == [pane[p] EXCEPT !.remote = o.remote]
             b == [a EXCEPT !.path = o.path]
             t == [b EXCEPT !.history = o.history]
  <2>1. To(p) = t
    OBVIOUS
  <2>2. PaneShaped(pane[p]) /\ pane[p].gen \in Nat /\ pane[p].known \subseteq Remotes
    BY DEF PanesInv, PaneTyped
  <2>3. o.path \in DirPaths /\ o.history \in Seq(Visited(o.remote)) /\ o.remote # NoRemote
    BY <1>2, SidesDiffer DEF PanesInv, PaneTyped
  <2> HIDE DEF o
  <2>4. PaneShaped(a) /\ a.gen = pane[p].gen /\ a.known = pane[p].known
    BY <2>2 DEF PaneShaped
  <2>5. a.mapped = pane[p].mapped /\ a.remote = o.remote
    BY <2>2 DEF PaneShaped
  <2> HIDE DEF a
  <2>6. PaneShaped(b) /\ b.gen = a.gen /\ b.known = a.known
    BY <2>4 DEF PaneShaped
  <2>7. b.mapped = a.mapped /\ b.remote = a.remote /\ b.path = o.path
    BY <2>4 DEF PaneShaped
  <2> HIDE DEF b
  <2>8. PaneShaped(t) /\ t.gen = b.gen /\ t.known = b.known
    BY <2>6 DEF PaneShaped
  <2>9. t.mapped = b.mapped /\ t.remote = b.remote /\ t.path = b.path /\ t.history = o.history
    BY <2>6 DEF PaneShaped
  <2> HIDE DEF t
  <2>10. PaneTyped(t)
    BY <2>2, <2>3, <2>4, <2>5, <2>6, <2>7, <2>8, <2>9 DEF PaneTyped
  <2>11. t.remote # NoRemote /\ t.path \in DirPaths /\ t.gen = pane[p].gen /\ t.mapped = pane[p].mapped
    BY <2>3, <2>4, <2>5, <2>6, <2>7, <2>8, <2>9
  <2> HIDE DEF To
  <2>12. W(p) = Moved(t, t.path)
    BY <2>1
  <2> HIDE DEF W
  <2>13. PaneTyped(W(p)) /\ W(p).gen = t.gen + 1 /\ W(p).content = "loading"
         /\ W(p).remote = t.remote /\ W(p).mapped = t.mapped
    BY <2>10, <2>11, <2>12, MovedOn
  <2> QED BY <2>11, <2>13
<1> HIDE DEF W, To
<1>4. \A p \in Panes : w[p] = W(p)
  OBVIOUS
<1>5. w = [p \in Panes |-> w[p]]
  OBVIOUS
<1>6. asks' \subseteq asks \cup UNION {Ask(p, w[p]) : p \in Panes}
  BY <1>1, <1>4
<1> HIDE DEF w
<1>7. UnreadableSpared' /\ active' \in Panes
  BY <1>1 DEF PanesInv, UnreadableSpared
<1>8. w["left"].mapped = TRUE
  BY <1>1, <1>3, <1>4 DEF Panes, PanesInv
<1>9. \A p \in Panes : /\ PaneTyped(w[p]) /\ w[p].gen = pane[p].gen + 1
                        /\ w[p].content = "loading" /\ w[p].remote # NoRemote
  BY <1>3, <1>4
<1>10. pane' = w
  BY <1>1 DEF w
<1> HIDE DEF w
<1> QED BY <1>5, <1>6, <1>7, <1>8, <1>9, <1>10, BothNavigate

LEMMA HistoryChanged ==
  ASSUME NEW r, PaneTyped(r), NEW h \in Seq(Visited(r.remote))
  PROVE  LET s == [r EXCEPT !.history = h] IN
         PaneTyped(s) /\ s.gen = r.gen /\ s.mapped = r.mapped /\ s.remote = r.remote
<1> DEFINE s == [r EXCEPT !.history = h]
<1>1. PaneShaped(r)
  BY DEF PaneTyped
<1>2. PaneShaped(s) /\ s.history = h /\ s.gen = r.gen /\ s.mapped = r.mapped
  BY <1>1 DEF PaneShaped
<1>3. s.remote = r.remote /\ s.path = r.path /\ s.known = r.known
  BY <1>1 DEF PaneShaped
<1> HIDE DEF s
<1>4. PaneTyped(s)
  BY <1>2, <1>3 DEF PaneTyped
<1> QED BY <1>2, <1>3, <1>4 DEF s

\* A place is left for another one below, above or beside it.
LEMMA RememberedNavigates ==
  ASSUME PanesInv, pane["left"].mapped, NEW p \in Panes, NEW path \in DirPaths,
         Navigate(p, Remembered(pane[p]), path), ops' = ops, active' \in Panes
  PROVE  PanesInv'
<1> DEFINE h == Append(pane[p].history, Here(pane[p]))
           r == [pane[p] EXCEPT !.history = h]
<1>1. Remembered(pane[p]) = r
  BY DEF Remembered
<1>2. PaneTyped(pane[p]) /\ pane[p].remote # NoRemote
  BY DEF PanesInv, Mapped
<1>3. h \in Seq(Visited(pane[p].remote))
  BY <1>2, PathsLead
<1> HIDE DEF h
<1>4. PaneTyped(r) /\ r.gen = pane[p].gen /\ r.mapped = pane[p].mapped /\ r.remote = pane[p].remote
  BY <1>2, <1>3, HistoryChanged
<1> HIDE DEF r
<1>5. UnreadableSpared'
  BY DEF PanesInv, UnreadableSpared
<1>6. Navigate(p, r, path)
  BY <1>1
<1> QED BY <1>2, <1>4, <1>5, <1>6, OneNavigates

LEMMA RemoteSelected ==
  ASSUME PanesInv, NEW p \in Panes, NEW remote, SelectRemote(p, remote)
  PROVE  PanesInv'
<1> DEFINE c == [pane[p] EXCEPT !.remote = remote]
           r == [c EXCEPT !.history = <<>>]
<1>1. PaneShaped(pane[p]) /\ pane[p].gen \in Nat /\ pane[p].path \in DirPaths /\ pane[p].known \subseteq Remotes
  BY DEF PanesInv, PaneTyped
<1>2. /\ Navigate(p, r, StartOf(remote)) /\ active' = p /\ pane["left"].mapped
      /\ UnreadableSpared'
  BY DEF SelectRemote, User, Switched, PanesInv, UnreadableSpared
<1>3. remote # NoRemote /\ StartOf(remote) \in DirPaths
  <2>1. remote \in Remotes \cup {Local}
    BY <1>1 DEF SelectRemote
  <2>2. Home \in DirPaths /\ <<>> \in DirPaths
    BY BrowserAssumption DEF DirPaths
  <2> QED BY <2>1, <2>2, BrowserAssumption DEF StartOf, NoRemote, Local
<1>4. PaneShaped(c) /\ c.gen = pane[p].gen /\ c.path = pane[p].path /\ c.known = pane[p].known
  BY <1>1 DEF PaneShaped
<1>5. c.mapped = pane[p].mapped /\ c.remote = remote
  BY <1>1 DEF PaneShaped
<1> HIDE DEF c
<1>6. PaneShaped(r) /\ r.gen = c.gen /\ r.path = c.path /\ r.known = c.known
  BY <1>4 DEF PaneShaped
<1>7. r.mapped = c.mapped /\ r.remote = c.remote /\ r.history = <<>>
  BY <1>4 DEF PaneShaped
<1> HIDE DEF r
<1>8. PaneTyped(r)
  BY <1>1, <1>4, <1>5, <1>6, <1>7 DEF PaneTyped
<1> QED BY <1>2, <1>3, <1>4, <1>5, <1>6, <1>7, <1>8, OneNavigates

\* An answer of the pane's own generation is of the directory the pane is at.
LEMMA ListingAnswered ==
  ASSUME PanesInv, NEW a, AnswerListing(a)
  PROVE  PanesInv'
<1>1. /\ a \in asks /\ asks' = asks \ {a} /\ active' = active /\ ops' = ops
  BY DEF AnswerListing
<1>2. CASE pane' = pane
  <2>1. Awaiting(asks', pane)
    BY <1>1 DEF PanesInv, Awaiting
  <2>2. UnreadableSpared'
    BY <1>1 DEF PanesInv, UnreadableSpared
  <2>3. ~pane["left"].mapped => asks' = {} /\ ops' = {}
    BY <1>1 DEF PanesInv
  <2> QED BY <1>1, <1>2, <2>1, <2>2, <2>3
        DEF PanesInv, Mapped, PaneTyped, PaneShaped, ShowsItself, At, Awaiting
<1>3. CASE Current(a)
  <2> DEFINE p == a.p
             r == pane[p]
  <2>1. p \in Panes /\ a.at = At(r) /\ PaneTyped(r)
    BY <1>1, <1>3 DEF PanesInv, Awaiting, Current
  <2>2. PaneShaped(r)
    BY <2>1 DEF PaneTyped
  <2>3. r.remote # NoRemote
    BY <1>1, <2>1 DEF PanesInv, Mapped
  <2>4. CASE pane' = [pane EXCEPT ![p] = Listed(@, a.at)]
    <3> DEFINE picks == Visible(r, Entries(a.at))
               found == IF Entries(a.at) = {} THEN "empty" ELSE "files"
               b == [r EXCEPT !.list = picks]
               c == [b EXCEPT !.chosen = {}]
               d == [c EXCEPT !.shownAt = a.at]
               n == [d EXCEPT !.content = found]
    <3>1. pane' = [pane EXCEPT ![p] = n]
      BY <2>4 DEF Listed
    <3>2. (\A e \in picks : e.at = a.at) /\ found \in {"empty", "files"}
      BY DEF Visible, Entries
    <3> HIDE DEF picks, found, r
    <3>3. PaneShaped(b) /\ b.gen = r.gen /\ b.path = r.path /\ b.known = r.known
      BY <2>2 DEF PaneShaped
    <3>4. b.remote = r.remote /\ b.mapped = r.mapped /\ b.history = r.history /\ b.list = picks
      BY <2>2 DEF PaneShaped
    <3> HIDE DEF b
    <3>5. PaneShaped(c) /\ c.gen = b.gen /\ c.path = b.path /\ c.known = b.known
      BY <3>3 DEF PaneShaped
    <3>6. c.remote = b.remote /\ c.mapped = b.mapped /\ c.history = b.history /\ c.list = b.list
      BY <3>3 DEF PaneShaped
    <3> HIDE DEF c
    <3>7. PaneShaped(d) /\ d.gen = c.gen /\ d.path = c.path /\ d.known = c.known /\ d.shownAt = a.at
      BY <3>5 DEF PaneShaped
    <3>8. d.remote = c.remote /\ d.mapped = c.mapped /\ d.history = c.history /\ d.list = c.list
      BY <3>5 DEF PaneShaped
    <3> HIDE DEF d
    <3>9. PaneShaped(n) /\ n.gen = d.gen /\ n.path = d.path /\ n.known = d.known /\ n.shownAt = d.shownAt
      BY <3>7 DEF PaneShaped
    <3>10. n.remote = d.remote /\ n.mapped = d.mapped /\ n.history = d.history /\ n.list = d.list
           /\ n.content = found
      BY <3>7 DEF PaneShaped
    <3> HIDE DEF n
    <3>11. /\ n.gen = r.gen /\ n.path = r.path /\ n.known = r.known /\ n.remote = r.remote
           /\ n.mapped = r.mapped /\ n.history = r.history /\ n.list = picks /\ n.shownAt = a.at
      BY <3>3, <3>4, <3>5, <3>6, <3>7, <3>8, <3>9, <3>10
    <3>12. PaneTyped(n)
      BY <2>1, <3>9, <3>11 DEF PaneTyped
    <3>13. At(n) = a.at
      BY <2>1, <3>11 DEF At
    <3>14. ShowsItself(n)
      BY <3>2, <3>11, <3>13 DEF ShowsItself
    <3>15. asks' \subseteq asks /\ active' \in Panes
      BY <1>1 DEF PanesInv
    <3>16. n.gen = pane[p].gen /\ n.path = pane[p].path /\ n.remote = pane[p].remote /\ n.mapped = pane[p].mapped
      BY <3>11 DEF r
    <3>17. pane[p].remote # NoRemote
      BY <2>3 DEF r
    <3> HIDE DEF p
    <3> QED BY <1>1, <2>1, <3>1, <3>12, <3>14, <3>15, <3>16, <3>17, OneStays
  <2>5. CASE pane' = [pane EXCEPT ![p] = Failed(@, a.at)]
    <3> DEFINE d == [r EXCEPT !.content = "error"]
               n == [d EXCEPT !.shownAt = a.at]
    <3>1. pane' = [pane EXCEPT ![p] = n]
      BY <2>5 DEF Failed
    <3> HIDE DEF r
    <3>2. PaneShaped(d) /\ d.gen = r.gen /\ d.path = r.path /\ d.known = r.known
      BY <2>2 DEF PaneShaped
    <3>3. d.remote = r.remote /\ d.mapped = r.mapped /\ d.history = r.history /\ d.content = "error"
      BY <2>2 DEF PaneShaped
    <3> HIDE DEF d
    <3>4. PaneShaped(n) /\ n.gen = d.gen /\ n.path = d.path /\ n.known = d.known /\ n.shownAt = a.at
      BY <3>2 DEF PaneShaped
    <3>5. n.remote = d.remote /\ n.mapped = d.mapped /\ n.history = d.history /\ n.content = d.content
      BY <3>2 DEF PaneShaped
    <3> HIDE DEF n
    <3>6. /\ n.gen = r.gen /\ n.path = r.path /\ n.known = r.known /\ n.remote = r.remote
          /\ n.mapped = r.mapped /\ n.history = r.history /\ n.content = "error"
      BY <3>2, <3>3, <3>4, <3>5
    <3>7. PaneTyped(n)
      BY <2>1, <3>4, <3>6 DEF PaneTyped
    <3>8. At(n) = a.at
      BY <2>1, <3>6 DEF At
    <3>9. ShowsItself(n)
      BY <3>4, <3>6, <3>8 DEF ShowsItself
    <3>10. asks' \subseteq asks /\ active' \in Panes
      BY <1>1 DEF PanesInv
    <3>11. n.gen = pane[p].gen /\ n.path = pane[p].path /\ n.remote = pane[p].remote /\ n.mapped = pane[p].mapped
      BY <3>6 DEF r
    <3>12. pane[p].remote # NoRemote
      BY <2>3 DEF r
    <3> HIDE DEF p
    <3> QED BY <1>1, <2>1, <3>1, <3>7, <3>9, <3>10, <3>11, <3>12, OneStays
  <2> QED BY <1>3, <2>4, <2>5 DEF AnswerListing
<1> QED BY <1>2, <1>3 DEF AnswerListing

LEMMA BrowserStep ==
  ASSUME PanesInv, [BrowserNext]_browserVars
  PROVE  PanesInv'
<1>1. UnreadableSpared /\ active \in Panes /\ \A p \in Panes : PaneTyped(pane[p]) /\ ShowsItself(pane[p])
  BY DEF PanesInv
<1>2. ASSUME ops' = ops
      PROVE  UnreadableSpared'
  BY <1>1, <1>2 DEF UnreadableSpared
<1>3. CASE MapPanes
  BY <1>3, PanesMapped
<1>4. ASSUME NEW p \in Panes, RemotesArrive(p)
      PROVE  PanesInv'
  <2> DEFINE r == [pane[p] EXCEPT !.known = Remotes]
  <2>1. PaneShaped(pane[p])
    BY <1>1 DEF PaneTyped
  <2>2. PaneShaped(r) /\ r.gen = pane[p].gen /\ r.path = pane[p].path /\ r.remote = pane[p].remote
    BY <2>1 DEF PaneShaped
  <2>3. r.mapped = pane[p].mapped /\ r.history = pane[p].history /\ r.content = pane[p].content
    BY <2>1 DEF PaneShaped
  <2>4. r.list = pane[p].list /\ r.shownAt = pane[p].shownAt /\ r.known = Remotes
    BY <2>1 DEF PaneShaped
  <2>5. pane' = [pane EXCEPT ![p] = r] /\ asks' = asks /\ ops' = ops /\ active' = active
    BY <1>4 DEF RemotesArrive
  <2> HIDE DEF r
  <2>6. PaneTyped(r)
    BY <1>1, <2>2, <2>3, <2>4 DEF PaneTyped
  <2>7. ShowsItself(r)
    BY <1>1, <2>2, <2>3, <2>4 DEF ShowsItself, At
  <2>8. asks' \subseteq asks /\ active' \in Panes
    BY <1>1, <2>5
  <2> QED BY <2>2, <2>3, <2>5, <2>6, <2>7, <2>8, OneStays
<1>5. ASSUME NEW p \in Panes, NEW n \in 0 .. Len(pane[p].path), Crumb(p, n)
      PROVE  PanesInv'
  <2>1. SubSeq(pane[p].path, 1, n) \in DirPaths
    BY <1>1, <1>5, PathsLead
  <2>2. /\ Navigate(p, Remembered(pane[p]), SubSeq(pane[p].path, 1, n)) /\ ops' = ops
        /\ active' \in Panes /\ pane["left"].mapped
    BY <1>1, <1>5 DEF Crumb, User
  <2> QED BY <2>1, <2>2, RememberedNavigates
<1>6. ASSUME NEW p \in Panes, NEW e \in pane[p].list, OpenRow(p, e)
      PROVE  PanesInv'
  <2>1. Append(pane[p].path, e.name) \in DirPaths
    BY <1>1, <1>6, PathsLead DEF OpenRow, IsDir
  <2>2. /\ Navigate(p, Remembered(pane[p]), Append(pane[p].path, e.name)) /\ ops' = ops
        /\ active' \in Panes /\ pane["left"].mapped
    BY <1>1, <1>6 DEF OpenRow, User
  <2> QED BY <2>1, <2>2, RememberedNavigates
<1>7. ASSUME NEW p \in Panes, GoUp(p)
      PROVE  PanesInv'
  <2>1. Front(pane[p].path) \in DirPaths
    BY <1>1, <1>7, PathsLead DEF GoUp, AtRoot
  <2>2. /\ Navigate(p, Remembered(pane[p]), Front(pane[p].path)) /\ ops' = ops
        /\ active' \in Panes /\ pane["left"].mapped
    BY <1>1, <1>7 DEF GoUp, User
  <2> QED BY <2>1, <2>2, RememberedNavigates
<1>8. ASSUME NEW p \in Panes, GoBack(p)
      PROVE  PanesInv'
  <2> DEFINE h == Front(pane[p].history)
             path == Last(pane[p].history).path
             r == [pane[p] EXCEPT !.history = h]
  <2>1. Navigate(p, r, path) /\ ops' = ops /\ active' \in Panes /\ pane["left"].mapped
    BY <1>8 DEF GoBack, User
  <2>2. h \in Seq(Visited(pane[p].remote)) /\ path \in DirPaths
    BY <1>1, <1>8, PathsLead DEF GoBack
  <2> HIDE DEF h, path
  <2>3. PaneTyped(r) /\ r.gen = pane[p].gen /\ r.mapped = pane[p].mapped /\ r.remote = pane[p].remote
    BY <1>1, <2>2, HistoryChanged
  <2>4. pane[p].remote # NoRemote
    BY <2>1 DEF PanesInv, Mapped
  <2> HIDE DEF r
  <2> QED BY <1>2, <2>1, <2>2, <2>3, <2>4, OneNavigates
<1>9. ASSUME NEW p \in Panes, pane["left"].mapped, ops' = ops \/ UnreadableSpared', active' \in Panes,
             Navigate(p, pane[p], pane[p].path)
      PROVE  PanesInv'
  <2>1. pane[p].path \in DirPaths /\ pane[p].remote # NoRemote
    BY <1>1, <1>9 DEF PaneTyped, PanesInv, Mapped
  <2> QED BY <1>1, <1>2, <1>9, <2>1, OneNavigates
<1>10. ASSUME NEW p \in Panes, RefreshPane(p)
       PROVE  PanesInv'
  BY <1>9, <1>10 DEF RefreshPane, User
<1>11. ASSUME NEW p \in Panes, ToggleHidden(p)
       PROVE  PanesInv'
  <2> DEFINE r == [pane[p] EXCEPT !.hidden = ~@]
  <2>1. Navigate(p, r, pane[p].path) /\ ops' = ops /\ active' = active /\ pane["left"].mapped
    BY <1>11 DEF ToggleHidden, User
  <2>2. PaneShaped(pane[p])
    BY <1>1 DEF PaneTyped
  <2>3. PaneShaped(r) /\ r.gen = pane[p].gen /\ r.path = pane[p].path /\ r.remote = pane[p].remote
    BY <2>2 DEF PaneShaped
  <2>4. r.mapped = pane[p].mapped /\ r.history = pane[p].history /\ r.known = pane[p].known
    BY <2>2 DEF PaneShaped
  <2> HIDE DEF r
  <2>5. PaneTyped(r)
    BY <1>1, <2>3, <2>4 DEF PaneTyped
  <2>6. pane[p].path \in DirPaths /\ pane[p].remote # NoRemote
    BY <1>1, <2>1 DEF PaneTyped, PanesInv, Mapped
  <2>7. active' \in Panes
    BY <1>1, <2>1
  <2> QED BY <1>2, <2>1, <2>3, <2>4, <2>5, <2>6, <2>7, OneNavigates
<1>12. ASSUME NEW p \in Panes, NEW remote \in Remotes \cup {Local}, SelectRemote(p, remote)
       PROVE  PanesInv'
  BY <1>12, RemoteSelected
<1>13. ASSUME NEW p \in Panes, NEW picks, Choose(p, picks)
       PROVE  PanesInv'
  <2> DEFINE r == [pane[p] EXCEPT !.chosen = picks]
  <2>1. PaneShaped(pane[p])
    BY <1>1 DEF PaneTyped
  <2>2. PaneShaped(r) /\ r.gen = pane[p].gen /\ r.path = pane[p].path /\ r.remote = pane[p].remote
    BY <2>1 DEF PaneShaped
  <2>3. r.mapped = pane[p].mapped /\ r.history = pane[p].history /\ r.content = pane[p].content
    BY <2>1 DEF PaneShaped
  <2>4. r.list = pane[p].list /\ r.shownAt = pane[p].shownAt /\ r.known = pane[p].known
    BY <2>1 DEF PaneShaped
  <2>5. pane' = [pane EXCEPT ![p] = r] /\ asks' = asks /\ ops' = ops /\ active' = p
    BY <1>13 DEF Choose
  <2> HIDE DEF r
  <2>6. PaneTyped(r)
    BY <1>1, <2>2, <2>3, <2>4 DEF PaneTyped
  <2>7. ShowsItself(r)
    BY <1>1, <2>2, <2>3, <2>4 DEF ShowsItself, At
  <2>8. asks' \subseteq asks /\ active' \in Panes
    BY <2>5
  <2> QED BY <2>2, <2>3, <2>5, <2>6, <2>7, <2>8, OneStays
<1>14. CASE SwapPanes
  BY <1>14, PanesSwapped
<1>15. ASSUME NEW a \in asks, AnswerListing(a)
       PROVE  PanesInv'
  BY <1>15, ListingAnswered
<1>16. CASE DeleteAsked
  BY <1>1, <1>2, <1>16, NoneMoves DEF DeleteAsked
<1>17. ASSUME NEW picks, NEW kind, NEW dir, NEW pats, NEW before \in SUBSET ops,
              \A e \in picks : e.name \notin BadNames,
              ops' = before \cup {[kind |-> kind, dir |-> dir, pats |-> pats, rows |-> picks]}
       PROVE  UnreadableSpared'
  <2>1. SUFFICES ASSUME NEW o \in ops'
                 PROVE  \A e \in o.rows : e.name \notin BadNames
    BY DEF UnreadableSpared
  <2>2. o \in ops \/ o = [kind |-> kind, dir |-> dir, pats |-> pats, rows |-> picks]
    BY <1>17
  <2>3. o \in ops \/ o.rows = picks
    BY <2>2
  <2> QED BY <1>1, <1>17, <2>3 DEF UnreadableSpared
<1>18. \A r : \A e \in SelectedFiles(r) : e.name \notin BadNames
  BY DEF SelectedFiles
<1>19. ASSUME NEW yes \in BOOLEAN, DeleteAnswered(yes)
       PROVE  PanesInv'
  <2> DEFINE r == pane[active]
  <2>1. CASE ops' = ops
    BY <1>1, <1>2, <1>19, <2>1, NoneMoves DEF DeleteAnswered
  <2>2. CASE ops' # ops
    <3>1. /\ ops' = ops \cup {[kind |-> "delete", dir |-> At(r), pats |-> Patterns(SelectedFiles(r)),
                               rows |-> SelectedFiles(r)]}
          /\ UNCHANGED <<pane, asks, active>> /\ r.remote # NoRemote
      BY <1>19, <2>2 DEF DeleteAnswered
    <3>2. UnreadableSpared'
      BY <1>17, <1>18, <3>1
    <3>3. pane["left"].mapped
      BY <1>1, <3>1 DEF PanesInv, Mapped
    <3> QED BY <1>1, <3>1, <3>2, <3>3, NoneMoves
  <2> QED BY <2>1, <2>2
<1>20. CASE MakeFolder
  <2> DEFINE picks == {}
  <2>1. /\ ops' = ops \cup {[kind |-> "mkdir", dir |-> At(pane[active]), pats |-> {}, rows |-> picks]}
        /\ UNCHANGED <<pane, asks, active>> /\ pane["left"].mapped
    BY <1>20 DEF MakeFolder, User
  <2>2. UnreadableSpared'
    <3>1. \A e \in picks : e.name \notin BadNames
      OBVIOUS
    <3> HIDE DEF picks
    <3> QED BY <1>17, <2>1, <3>1
  <2> QED BY <1>1, <2>1, <2>2, NoneMoves
<1>21. CASE JobAsked
  <2> DEFINE r == pane["left"]
             before == {o \in ops : o.kind # "job"}
  <2>1. /\ ops' = before \cup {[kind |-> "job", dir |-> At(r), pats |-> Patterns(SelectedFiles(r)),
                                rows |-> SelectedFiles(r)]}
        /\ UNCHANGED <<pane, asks, active>> /\ pane["left"].mapped
    BY <1>21 DEF JobAsked, User
  <2>2. before \in SUBSET ops
    OBVIOUS
  <2> HIDE DEF before
  <2>3. UnreadableSpared'
    BY <1>17, <1>18, <2>1, <2>2
  <2> QED BY <1>1, <2>1, <2>3, NoneMoves
<1>22. ASSUME NEW o \in ops, JobDialogEnds(o)
       PROVE  PanesInv'
  <2>1. ops' = ops \ {o} /\ UNCHANGED <<pane, asks, active>>
    BY <1>22 DEF JobDialogEnds
  <2>2. UnreadableSpared'
    BY <1>1, <2>1 DEF UnreadableSpared
  <2>3. pane["left"].mapped
    BY DEF PanesInv
  <2> QED BY <1>1, <2>1, <2>2, <2>3, NoneMoves
<1>23. ASSUME NEW o \in ops, NEW ok \in BOOLEAN, OpDone(o, ok)
       PROVE  PanesInv'
  <2>1. ops' = ops \ {o} /\ Navigate(active, pane[active], pane[active].path) /\ active' = active
    BY <1>23 DEF OpDone
  <2>2. UnreadableSpared'
    BY <1>1, <2>1 DEF UnreadableSpared
  <2>3. pane["left"].mapped
    BY DEF PanesInv
  <2> QED BY <1>1, <1>9, <2>1, <2>2, <2>3
<1>24. CASE UNCHANGED browserVars
  BY <1>1, <1>2, <1>24, NoneMoves DEF browserVars
<1> QED
  BY <1>3, <1>4, <1>5, <1>6, <1>7, <1>8, <1>10, <1>11, <1>12, <1>13, <1>14, <1>15, <1>16, <1>19,
     <1>20, <1>21, <1>22, <1>23, <1>24 DEF BrowserNext

LEMMA BrowserStarts == BrowserInit => PanesInv
<1> SUFFICES ASSUME BrowserInit
             PROVE  PanesInv
  OBVIOUS
<1>1. /\ pane = [p \in Panes |-> FreshPane] /\ asks = {} /\ ops = {} /\ active = "left"
  BY DEF BrowserInit
<1>2. /\ PaneShaped(FreshPane) /\ FreshPane.gen = 0 /\ FreshPane.path = <<>>
      /\ FreshPane.history = <<>> /\ FreshPane.known = {}
  BY DEF FreshPane, PaneShaped
<1>3. FreshPane.remote = NoRemote /\ FreshPane.content = "no-remote" /\ FreshPane.mapped = FALSE
  BY DEF FreshPane
<1> HIDE DEF FreshPane
<1>4. PaneTyped(FreshPane) /\ ShowsItself(FreshPane)
  BY <1>2, <1>3 DEF PaneTyped, DirPaths, ShowsItself
<1>5. "left" \in Panes
  BY DEF Panes
<1> QED BY <1>1, <1>3, <1>4, <1>5 DEF PanesInv, Awaiting, Mapped, UnreadableSpared

LEMMA BrowserAlways == BrowserSpec => []PanesInv
<1>1. BrowserInit => PanesInv
  BY BrowserStarts
<1>2. PanesInv /\ [BrowserNext]_browserVars => PanesInv'
  BY BrowserStep
<1> QED BY <1>1, <1>2, PTL DEF BrowserSpec

\* The rows, the empty page or the error a pane shows are those of the
\* directory its path names, in whatever order rclone answers, whatever is
\* swapped, selected and deleted meanwhile (the generations of navigate()).
THEOREM PanesAreCurrent == BrowserSpec => []ShownIsCurrent
<1>1. PanesInv => ShownIsCurrent
  BY DEF PanesInv, ShowsItself, ShownIsCurrent
<1> QED BY <1>1, BrowserAlways, PTL

\* The way back of a pane stays within its remote: a swap takes it along and
\* another remote forgets it, however long it has become.
THEOREM HistoriesFollow == BrowserSpec => []HistoryOfRemote
<1>1. PanesInv => HistoryOfRemote
  <2> SUFFICES ASSUME PanesInv, NEW p \in Panes, NEW i \in DOMAIN pane[p].history
               PROVE  pane[p].history[i].remote = pane[p].remote
    BY DEF HistoryOfRemote
  <2>1. pane[p].history \in Seq(Visited(pane[p].remote))
    BY DEF PanesInv, PaneTyped
  <2>2. pane[p].history[i] \in Visited(pane[p].remote)
    BY <2>1, ElementOfSeq
  <2> QED BY <2>2 DEF Visited
<1> QED BY <1>1, BrowserAlways, PTL

\* No deletion and no job is given a row that the pane greys out, though
\* select-all selects it and lists and panes change under the selection.
THEOREM UnreadableRowsAreSpared == BrowserSpec => []UnreadableSpared
<1>1. PanesInv => UnreadableSpared
  BY DEF PanesInv
<1> QED BY <1>1, BrowserAlways, PTL

\* What a pane offers and selects: a selection is of rows that are listed.
PaneOffers(r) ==
  /\ r.chosen \subseteq r.list /\ r.known \in {{}, Remotes}
  /\ r.remote \in Remotes \cup {Local, NoRemote}
  /\ r.content \in {"no-remote", "loading", "empty", "error", "files"}

Offered(r) == PaneShaped(r) /\ PaneOffers(r)

\* Another place, history, remote or setting leaves rows and selection alone.
LEMMA OffersKept ==
  ASSUME NEW r, Offered(r), NEW x
  PROVE  /\ Offered([r EXCEPT !.path = x]) /\ Offered([r EXCEPT !.history = x])
         /\ Offered([r EXCEPT !.hidden = x]) /\ Offered([r EXCEPT !.mapped = x])
         /\ x \in Remotes \cup {Local, NoRemote} => Offered([r EXCEPT !.remote = x])
<1>0. PaneShaped(r) /\ PaneOffers(r)
  BY DEF Offered
<1>1. ASSUME NEW s, PaneShaped(s), s.list = r.list, s.chosen = r.chosen, s.known = r.known,
             s.content = r.content, s.remote \in Remotes \cup {Local, NoRemote}
      PROVE  Offered(s)
  BY <1>0, <1>1 DEF Offered, PaneOffers
<1>2. r.remote \in Remotes \cup {Local, NoRemote}
  BY <1>0 DEF PaneOffers
<1>3. Offered([r EXCEPT !.path = x])
  <2> DEFINE s == [r EXCEPT !.path = x]
  <2>1. PaneShaped(s)
    BY <1>0 DEF PaneShaped
  <2>2. s.list = r.list /\ s.chosen = r.chosen /\ s.known = r.known
    BY <1>0 DEF PaneShaped
  <2>3. s.content = r.content /\ s.remote = r.remote
    BY <1>0 DEF PaneShaped
  <2> HIDE DEF s
  <2>4. Offered(s)
    BY <1>1, <1>2, <2>1, <2>2, <2>3
  <2> QED BY <2>4 DEF s
<1>4. Offered([r EXCEPT !.history = x])
  <2> DEFINE s == [r EXCEPT !.history = x]
  <2>1. PaneShaped(s)
    BY <1>0 DEF PaneShaped
  <2>2. s.list = r.list /\ s.chosen = r.chosen /\ s.known = r.known
    BY <1>0 DEF PaneShaped
  <2>3. s.content = r.content /\ s.remote = r.remote
    BY <1>0 DEF PaneShaped
  <2> HIDE DEF s
  <2>4. Offered(s)
    BY <1>1, <1>2, <2>1, <2>2, <2>3
  <2> QED BY <2>4 DEF s
<1>5. Offered([r EXCEPT !.hidden = x])
  <2> DEFINE s == [r EXCEPT !.hidden = x]
  <2>1. PaneShaped(s)
    BY <1>0 DEF PaneShaped
  <2>2. s.list = r.list /\ s.chosen = r.chosen /\ s.known = r.known
    BY <1>0 DEF PaneShaped
  <2>3. s.content = r.content /\ s.remote = r.remote
    BY <1>0 DEF PaneShaped
  <2> HIDE DEF s
  <2>4. Offered(s)
    BY <1>1, <1>2, <2>1, <2>2, <2>3
  <2> QED BY <2>4 DEF s
<1>6. Offered([r EXCEPT !.mapped = x])
  <2> DEFINE s == [r EXCEPT !.mapped = x]
  <2>1. PaneShaped(s)
    BY <1>0 DEF PaneShaped
  <2>2. s.list = r.list /\ s.chosen = r.chosen /\ s.known = r.known
    BY <1>0 DEF PaneShaped
  <2>3. s.content = r.content /\ s.remote = r.remote
    BY <1>0 DEF PaneShaped
  <2> HIDE DEF s
  <2>4. Offered(s)
    BY <1>1, <1>2, <2>1, <2>2, <2>3
  <2> QED BY <2>4 DEF s
<1>7. ASSUME x \in Remotes \cup {Local, NoRemote}
      PROVE  Offered([r EXCEPT !.remote = x])
  <2> DEFINE s == [r EXCEPT !.remote = x]
  <2>1. PaneShaped(s)
    BY <1>0 DEF PaneShaped
  <2>2. s.list = r.list /\ s.chosen = r.chosen /\ s.known = r.known
    BY <1>0 DEF PaneShaped
  <2>3. s.content = r.content /\ s.remote = x
    BY <1>0 DEF PaneShaped
  <2> HIDE DEF s
  <2>4. Offered(s)
    BY <1>1, <1>7, <2>1, <2>2, <2>3
  <2> QED BY <2>4 DEF s
<1> QED BY <1>3, <1>4, <1>5, <1>6, <1>7

LEMMA OffersMoved ==
  ASSUME NEW r, PaneShaped(r), PaneOffers(r), NEW path
  PROVE  PaneOffers(Moved(r, path))
<1> DEFINE g == r.gen + 1
           m == [r EXCEPT !.path = path, !.gen = g, !.content = "loading"]
<1>1. Moved(r, path) = r \/ Moved(r, path) = m
  BY DEF Moved
<1> HIDE DEF g
<1>2. m.content = "loading" /\ m.chosen = r.chosen /\ m.list = r.list
  BY DEF PaneShaped
<1>3. m.known = r.known /\ m.remote = r.remote
  BY DEF PaneShaped
<1> HIDE DEF m
<1>4. PaneOffers(m)
  BY <1>2, <1>3 DEF PaneOffers
<1> QED BY <1>1, <1>4

LEMMA SwitchedOffers ==
  ASSUME NEW r, Offered(r), NEW remote \in Remotes \cup {Local}
  PROVE  Offered(Switched(r, remote))
<1> DEFINE s == [r EXCEPT !.remote = remote]
<1>1. Offered(s)
  BY OffersKept
<1>2. Switched(r, remote) = [s EXCEPT !.history = <<>>]
  BY DEF Switched
<1> HIDE DEF s
<1>3. \A h : Offered([s EXCEPT !.history = h])
  BY <1>1, OffersKept
<1> QED BY <1>2, <1>3

LEMMA OffersNavigated ==
  ASSUME PanesInv, \A p \in Panes : PaneOffers(pane[p]), NEW q \in Panes,
         NEW r, PaneShaped(r), PaneOffers(r), NEW path, Navigate(q, r, path)
  PROVE  \A p \in Panes : PaneOffers(pane'[p])
<1>1. pane' = [pane EXCEPT ![q] = Moved(r, path)] /\ pane = [p \in Panes |-> pane[p]]
  BY DEF Navigate, PanesInv
<1>2. \A p \in Panes : pane'[p] = Moved(r, path) \/ pane'[p] = pane[p]
  BY <1>1
<1> QED BY <1>2, OffersMoved

LEMMA OffersStep ==
  ASSUME PanesInv, \A p \in Panes : PaneOffers(pane[p]), [BrowserNext]_browserVars
  PROVE  \A p \in Panes : PaneOffers(pane'[p])
<1>1. \A p \in Panes : PaneShaped(pane[p]) /\ Offered(pane[p])
  BY DEF PanesInv, PaneTyped, Offered
<1>2. pane = [p \in Panes |-> pane[p]] /\ active \in Panes
  BY DEF PanesInv
<1>3. ASSUME NEW q \in Panes, NEW r, PaneOffers(r), pane' = [pane EXCEPT ![q] = r]
      PROVE  \A p \in Panes : PaneOffers(pane'[p])
  BY <1>2, <1>3
<1>4. CASE MapPanes
  <2>1. \A p \in Panes : pane'[p] = Moved(Switched([pane[p] EXCEPT !.mapped = TRUE], Local), Home)
    BY <1>4 DEF MapPanes
  <2>2. ASSUME NEW p \in Panes
        PROVE  PaneOffers(pane'[p])
    <3> DEFINE r == [pane[p] EXCEPT !.mapped = TRUE]
    <3>1. Offered(r)
      BY <1>1, OffersKept
    <3>2. pane'[p] = Moved(Switched(r, Local), Home)
      BY <2>1
    <3> HIDE DEF r
    <3>3. \A remote \in Remotes \cup {Local} : Offered(Switched(r, remote))
      BY <3>1, SwitchedOffers
    <3>4. Offered(Switched(r, Local))
      BY <3>3
    <3> QED BY <3>2, <3>4, OffersMoved DEF Offered
  <2> QED BY <2>2
<1>5. ASSUME NEW q \in Panes, RemotesArrive(q)
      PROVE  \A p \in Panes : PaneOffers(pane'[p])
  <2> DEFINE r == [pane[q] EXCEPT !.known = Remotes]
  <2>1. r.known = Remotes /\ r.list = pane[q].list /\ r.chosen = pane[q].chosen
    BY <1>1 DEF PaneShaped
  <2>2. r.remote = pane[q].remote /\ r.content = pane[q].content
    BY <1>1 DEF PaneShaped
  <2>3. pane' = [pane EXCEPT ![q] = r]
    BY <1>5 DEF RemotesArrive
  <2> HIDE DEF r
  <2>4. PaneOffers(r)
    BY <2>1, <2>2 DEF PaneOffers
  <2> QED BY <1>3, <2>3, <2>4
<1>6. ASSUME NEW q \in Panes, NEW h
      PROVE  LET r == [pane[q] EXCEPT !.history = h] IN PaneShaped(r) /\ PaneOffers(r)
  BY <1>1, OffersKept DEF Offered
<1>7. ASSUME NEW q \in Panes, NEW n, Crumb(q, n)
      PROVE  \A p \in Panes : PaneOffers(pane'[p])
  BY <1>6, <1>7, OffersNavigated DEF Crumb, Remembered
<1>8. ASSUME NEW q \in Panes, NEW e, OpenRow(q, e)
      PROVE  \A p \in Panes : PaneOffers(pane'[p])
  BY <1>6, <1>8, OffersNavigated DEF OpenRow, Remembered
<1>9. ASSUME NEW q \in Panes, GoUp(q)
      PROVE  \A p \in Panes : PaneOffers(pane'[p])
  BY <1>6, <1>9, OffersNavigated DEF GoUp, Remembered
<1>10. ASSUME NEW q \in Panes, GoBack(q)
       PROVE  \A p \in Panes : PaneOffers(pane'[p])
  BY <1>6, <1>10, OffersNavigated DEF GoBack
<1>11. ASSUME NEW q \in Panes, RefreshPane(q)
       PROVE  \A p \in Panes : PaneOffers(pane'[p])
  BY <1>1, <1>11, OffersNavigated DEF RefreshPane
<1>12. ASSUME NEW o, NEW ok, OpDone(o, ok)
       PROVE  \A p \in Panes : PaneOffers(pane'[p])
  BY <1>1, <1>2, <1>12, OffersNavigated DEF OpDone
<1>13. ASSUME NEW q \in Panes, ToggleHidden(q)
       PROVE  \A p \in Panes : PaneOffers(pane'[p])
  <2> DEFINE x == ~pane[q].hidden
             r == [pane[q] EXCEPT !.hidden = x]
  <2>1. Navigate(q, r, pane[q].path)
    BY <1>13 DEF ToggleHidden
  <2> HIDE DEF x
  <2>2. Offered(r)
    BY <1>1, OffersKept
  <2> HIDE DEF r
  <2> QED BY <2>1, <2>2, OffersNavigated DEF Offered
<1>14. ASSUME NEW q \in Panes, NEW remote \in Remotes \cup {Local}, SelectRemote(q, remote)
       PROVE  \A p \in Panes : PaneOffers(pane'[p])
  <2>1. Navigate(q, Switched(pane[q], remote), StartOf(remote))
    BY <1>14 DEF SelectRemote
  <2>2. Offered(Switched(pane[q], remote))
    BY <1>1, SwitchedOffers
  <2> QED BY <2>1, <2>2, OffersNavigated DEF Offered
<1>15. ASSUME NEW q \in Panes, NEW picks, picks \subseteq pane[q].list, Choose(q, picks)
       PROVE  \A p \in Panes : PaneOffers(pane'[p])
  <2> DEFINE r == [pane[q] EXCEPT !.chosen = picks]
  <2>1. r.known = pane[q].known /\ r.list = pane[q].list /\ r.chosen = picks
    BY <1>1 DEF PaneShaped
  <2>2. r.remote = pane[q].remote /\ r.content = pane[q].content
    BY <1>1 DEF PaneShaped
  <2>3. pane' = [pane EXCEPT ![q] = r]
    BY <1>15 DEF Choose
  <2> HIDE DEF r
  <2>4. PaneOffers(r)
    BY <1>15, <2>1, <2>2 DEF PaneOffers
  <2> QED BY <1>3, <2>3, <2>4
<1>16. CASE SwapPanes
  <2>1. ASSUME NEW p \in Panes
        PROVE  PaneOffers(pane'[p])
    <3> DEFINE o == pane[Other(p)]
               a == [pane[p] EXCEPT !.remote = o.remote]
               b == [a EXCEPT !.path = o.path]
               t == [b EXCEPT !.history = o.history]
    <3>1. pane'[p] = Moved(t, t.path)
      BY <1>16 DEF SwapPanes
    <3>2. o.remote \in Remotes \cup {Local, NoRemote}
      BY SidesDiffer DEF PaneOffers
    <3> HIDE DEF o
    <3>3. Offered(a)
      BY <1>1, <3>2, OffersKept
    <3> HIDE DEF a
    <3>4. Offered(b)
      BY <3>3, OffersKept
    <3> HIDE DEF b
    <3>5. Offered(t)
      BY <3>4, OffersKept
    <3> HIDE DEF t
    <3> QED BY <3>1, <3>5, OffersMoved DEF Offered
  <2> QED BY <2>1
<1>17. ASSUME NEW a \in asks, AnswerListing(a)
       PROVE  \A p \in Panes : PaneOffers(pane'[p])
  <2>1. a.p \in Panes
    BY DEF PanesInv, Awaiting
  <2> DEFINE l == Listed(pane[a.p], a.at)
             f == Failed(pane[a.p], a.at)
  <2>2. pane' = pane \/ pane' = [pane EXCEPT ![a.p] = l] \/ pane' = [pane EXCEPT ![a.p] = f]
    BY <1>17 DEF AnswerListing
  <2>3. /\ l.known = pane[a.p].known /\ l.chosen = {} /\ l.content \in {"empty", "files"}
        /\ l.remote = pane[a.p].remote
    BY <1>1, <2>1 DEF PaneShaped, Listed
  <2>4. /\ f.known = pane[a.p].known /\ f.chosen = pane[a.p].chosen /\ f.content = "error"
        /\ f.remote = pane[a.p].remote /\ f.list = pane[a.p].list
    BY <1>1, <2>1 DEF PaneShaped, Failed
  <2> HIDE DEF l, f
  <2>5. PaneOffers(l) /\ PaneOffers(f)
    BY <2>1, <2>3, <2>4 DEF PaneOffers
  <2> QED BY <1>3, <2>1, <2>2, <2>5
<1>18. ASSUME pane' = pane
       PROVE  \A p \in Panes : PaneOffers(pane'[p])
  BY <1>18
<1>19. CASE DeleteAsked \/ (\E yes \in BOOLEAN : DeleteAnswered(yes)) \/ MakeFolder \/ JobAsked
            \/ (\E o \in ops : JobDialogEnds(o)) \/ UNCHANGED browserVars
  <2>1. pane' = pane
    BY <1>19 DEF DeleteAsked, DeleteAnswered, MakeFolder, JobAsked, JobDialogEnds, browserVars
  <2> QED BY <1>18, <2>1
<1> QED
  BY <1>4, <1>5, <1>7, <1>8, <1>9, <1>10, <1>11, <1>12, <1>13, <1>14, <1>15, <1>16, <1>17, <1>19
     DEF BrowserNext

\* A selection of a pane is of rows that it lists, also when the list is
\* replaced under it, and no listing under way is ahead of its pane.
THEOREM BrowserTypes == BrowserSpec => []BrowserTypeOK
<1> DEFINE TypeInv == /\ PanesInv /\ \A p \in Panes : PaneOffers(pane[p])
                      /\ alert \in BOOLEAN /\ moves \in 0 .. MaxMoves
<1>1. BrowserInit => /\ PanesInv /\ \A p \in Panes : PaneOffers(pane[p])
                     /\ alert \in BOOLEAN /\ moves \in 0 .. MaxMoves
  <2>1. PaneOffers(FreshPane)
    BY DEF PaneOffers, FreshPane
  <2>2. BrowserInit => \A p \in Panes : PaneOffers(pane[p])
    BY <2>1 DEF BrowserInit
  <2>3. BrowserInit => alert \in BOOLEAN
    BY DEF BrowserInit
  <2>4. BrowserInit => moves \in 0 .. MaxMoves
    BY BrowserAssumption DEF BrowserInit
  <2> QED BY <2>2, <2>3, <2>4, BrowserStarts
<1>2. TypeInv /\ [BrowserNext]_browserVars => TypeInv'
  <2> SUFFICES ASSUME TypeInv, [BrowserNext]_browserVars
               PROVE  TypeInv'
    OBVIOUS
  <2>1. alert' \in BOOLEAN
    BY DEF BrowserNext, browserVars, MapPanes, RemotesArrive, GoBack, GoUp, RefreshPane, ToggleHidden,
           SelectRemote, Crumb, OpenRow, Choose, SwapPanes, AnswerListing, DeleteAsked, DeleteAnswered,
           MakeFolder, JobAsked, JobDialogEnds, OpDone
  <2>2. moves' = moves \/ (moves < MaxMoves /\ moves' = moves + 1)
    BY DEF BrowserNext, browserVars, MapPanes, RemotesArrive, GoBack, GoUp, RefreshPane, ToggleHidden,
           SelectRemote, Crumb, OpenRow, Choose, SwapPanes, AnswerListing, DeleteAsked, DeleteAnswered,
           MakeFolder, JobAsked, JobDialogEnds, OpDone, User
  <2>3. moves' \in 0 .. MaxMoves
    BY <2>2, BrowserAssumption
  <2> QED BY <2>1, <2>3, BrowserStep, OffersStep
<1>3. TypeInv => BrowserTypeOK
  BY DEF PanesInv, Awaiting, PaneOffers, BrowserTypeOK
<1> QED BY <1>1, <1>2, <1>3, PTL DEF BrowserSpec

-----------------------------------------------------------------------------
(***************************************************************************)
(* The compare dialog. A file of a dry run gets one kind from the log, so  *)
(* the rows of the merge that are files are as many as the kinds count.    *)
(***************************************************************************)
\* No scan is started on behalf of a compare dialog that was closed (m_alive
\* in the callback of each command), whatever deletions and copies still run.
THEOREM ClosedDialogsLoadNothing == CompareSpec => NoLoadAfterClose
<1>1. [CompareNext]_compareVars => [~alive => latest' = latest]_compareVars
  BY DEF CompareNext, compareVars, uiVars, Answer, ToggleFilter, TurnPage, Pick, Command,
     CommandDone, CloseDialog, Click
<1> QED BY <1>1, PTL DEF CompareSpec, NoLoadAfterClose

\* The rows of different files are in an order.
Listable(S) ==
  /\ IsFiniteSet(S)
  /\ \A c \in S : c.file.dir \in Nat /\ c.file.raw \in Nat /\ ~IsHeader(c)
  /\ \A c, d \in S : c.file.raw = d.file.raw => c = d

\* Every place in the order is that of a row.
LEMMA SortedIn ==
  ASSUME NEW S, Listable(S)
  PROVE  /\ Cardinality(S) \in Nat
         /\ \A i \in 1 .. Cardinality(S) : Sorted(S)[i] \in S
<1> DEFINE n == Cardinality(S)
           Lower(c) == {d \in S : Before(d, c)}
           f == [c \in S |-> Cardinality(Lower(c)) + 1]
<1>1. n \in Nat /\ IsFiniteSet(S)
  BY FS_CardinalityType DEF Listable
<1>2. ASSUME NEW c \in S
      PROVE  /\ IsFiniteSet(Lower(c)) /\ Cardinality(Lower(c)) \in Nat
             /\ Cardinality(Lower(c)) + 1 \in 1 .. n
  <2>1. Lower(c) \subseteq S \ {c}
    BY DEF Before, Listable
  <2>2. IsFiniteSet(S \ {c}) /\ Cardinality(S \ {c}) = n - 1
    BY <1>1, FS_RemoveElement
  <2> HIDE DEF Lower, n
  <2>3. IsFiniteSet(Lower(c)) /\ Cardinality(Lower(c)) <= n - 1
    BY <2>1, <2>2, FS_Subset
  <2>4. Cardinality(Lower(c)) \in Nat
    BY <2>3, FS_CardinalityType
  <2> QED BY <1>1, <2>3, <2>4
<1>3. ASSUME NEW c \in S, NEW d \in S, Before(c, d)
      PROVE  Cardinality(Lower(c)) # Cardinality(Lower(d))
  <2>1. Lower(c) \subseteq Lower(d)
    BY <1>3 DEF Before, Listable
  <2>2. c \in Lower(d) /\ c \notin Lower(c)
    BY <1>3 DEF Before, Listable
  <2> HIDE DEF Lower
  <2> QED BY <1>2, <2>1, <2>2, FS_Subset
<1>4. \A c, d \in S : c # d => Before(c, d) \/ Before(d, c)
  BY DEF Before, Listable
<1>5. f \in Injection(S, 1 .. n)
  <2> HIDE DEF Lower, n
  <2>1. f \in [S -> 1 .. n]
    BY <1>2
  <2>2. ASSUME NEW c \in S, NEW d \in S, f[c] = f[d]
        PROVE  c = d
    <3>1. Cardinality(Lower(c)) = Cardinality(Lower(d))
      BY <1>2, <2>2
    <3> QED BY <1>3, <1>4, <3>1
  <2> HIDE DEF f
  <2> QED BY <2>1, <2>2 DEF Injection, IsInjective
<1>6. IsFiniteSet(1 .. n) /\ Cardinality(1 .. n) = n
  BY <1>1, FS_Interval
<1>7. f \in Surjection(S, 1 .. n)
  <2> HIDE DEF f
  <2> QED BY <1>5, <1>6, FS_Injection
<1>8. ASSUME NEW i \in 1 .. n
      PROVE  Sorted(S)[i] \in S
  <2>1. PICK c \in S : f[c] = i
    <3> HIDE DEF f, n
    <3> QED BY <1>7 DEF Surjection
  <2>2. Cardinality(Lower(c)) = i - 1
    <3> HIDE DEF Lower, n
    <3> QED BY <1>1, <1>2, <2>1
  <2>3. Sorted(S)[i] = CHOOSE d \in S : Cardinality({e \in S : Before(e, d)}) = i - 1
    BY DEF Sorted
  <2> QED BY <2>2, <2>3
<1> QED BY <1>1, <1>8

LEMMA CountAppend ==
  ASSUME NEW T, NEW s \in Seq(T), NEW r \in T
  PROVE  /\ Append(s, r) \in Seq(T)
         /\ FileCount(s) \in Nat
         /\ FileCount(Append(s, r)) = IF IsHeader(r) THEN FileCount(s) ELSE FileCount(s) + 1
<1> DEFINE t == Append(s, r)
           A == {i \in DOMAIN s : ~IsHeader(s[i])}
           B == {i \in DOMAIN t : ~IsHeader(t[i])}
<1>1. /\ t \in Seq(T) /\ Len(s) \in Nat /\ DOMAIN s = 1 .. Len(s) /\ DOMAIN t = 1 .. Len(s) + 1
      /\ t[Len(s) + 1] = r /\ \A i \in 1 .. Len(s) : t[i] = s[i]
  OBVIOUS
<1> HIDE DEF t
<1>2. IsFiniteSet(A) /\ Cardinality(A) \in Nat /\ Len(s) + 1 \notin A
  <2>1. IsFiniteSet(1 .. Len(s)) /\ A \subseteq 1 .. Len(s)
    BY <1>1, FS_Interval
  <2>2. Len(s) + 1 \notin 1 .. Len(s)
    BY <1>1
  <2> HIDE DEF A
  <2>3. IsFiniteSet(A)
    BY <2>1, FS_Subset
  <2> QED BY <2>1, <2>2, <2>3, FS_CardinalityType
<1>3. B = IF IsHeader(r) THEN A ELSE A \cup {Len(s) + 1}
  <2>1. \A i : i \in 1 .. Len(s) + 1 <=> i \in 1 .. Len(s) \/ i = Len(s) + 1
    BY <1>1
  <2> QED BY <1>1, <2>1
<1>4. FileCount(s) = Cardinality(A) /\ FileCount(t) = Cardinality(B)
  BY DEF FileCount
<1> HIDE DEF A, B
<1>5. CASE IsHeader(r)
  BY <1>1, <1>2, <1>3, <1>4, <1>5 DEF t
<1>6. CASE ~IsHeader(r)
  <2>1. Cardinality(B) = Cardinality(A) + 1
    BY <1>2, <1>3, <1>6, FS_AddElement
  <2> QED BY <1>1, <1>2, <1>4, <1>6, <2>1 DEF t
<1> QED BY <1>5, <1>6

\* merge_results(): the list has one row of a file for each result.
LEMMA MergedCount ==
  ASSUME NEW S, Listable(S)
  PROVE  FileCount(Merged(S)) = Cardinality(S)
<1> DEFINE N == Cardinality(S)
           sorted == Sorted(S)
           dir(n) == sorted[n].file.dir
           Step(g, n) == IF n = 0 THEN <<>>
                         ELSE IF n > 1 /\ dir(n - 1) = dir(n) THEN Append(g[n - 1], sorted[n])
                         ELSE Append(Append(g[n - 1], Header(dir(n))), sorted[n])
           rowsTo == CHOOSE g : g = [n \in 0 .. N |-> Step(g, n)]
           T == S \cup {Header(c.file.dir) : c \in S}
<1>1. N \in Nat /\ \A i \in 1 .. N : sorted[i] \in S
  BY SortedIn
<1>2. Merged(S) = rowsTo[N]
  BY DEF Merged
<1>3. rowsTo = [n \in 0 .. N |-> Step(rowsTo, n)]
  <2> HIDE DEF N, sorted
  <2> DEFINE Reached == {n \in Nat : \E g : g = [i \in 0 .. n |-> Step(g, i)]}
  <2>1. 0 \in Reached
    <3> DEFINE g == [i \in 0 .. 0 |-> <<>>]
    <3>1. g = [i \in 0 .. 0 |-> Step(g, i)]
      OBVIOUS
    <3> HIDE DEF Step, g
    <3> QED BY <3>1
  <2>2. ASSUME NEW n \in Reached
        PROVE  n + 1 \in Reached
    <3>1. PICK g : g = [i \in 0 .. n |-> Step(g, i)]
      OBVIOUS
    <3> DEFINE h == [i \in 0 .. (n + 1) |-> IF i = n + 1 THEN Step(g, n + 1) ELSE g[i]]
    <3>2. \A i \in 0 .. (n + 1) : Step(h, i) = Step(g, i)
      OBVIOUS
    <3> HIDE DEF Step
    <3>3. \A i \in 0 .. n : g[i] = Step(g, i)
      BY <3>1
    <3>4. h = [i \in 0 .. (n + 1) |-> Step(h, i)]
      BY <3>2, <3>3
    <3> HIDE DEF h
    <3> QED BY <3>4
  <2> HIDE DEF Step
  <2>3. Reached \in SUBSET Nat
    OBVIOUS
  <2>4. N \in Reached
    <3> HIDE DEF Reached
    <3> QED BY <1>1, <2>1, <2>2, <2>3, Induction
  <2> QED BY <2>4
<1> HIDE DEF N, sorted, rowsTo
<1>4. \A n \in 0 .. N : rowsTo[n] = Step(rowsTo, n)
  <2> HIDE DEF Step
  <2> QED BY <1>3
<1> DEFINE Right(n) == rowsTo[n] \in Seq(T) /\ FileCount(rowsTo[n]) = n
           Done == {n \in Nat : n <= N => Right(n)}
<1>5. 0 \in Done
  <2>1. rowsTo[0] = <<>>
    BY <1>1, <1>4
  <2>2. FileCount(<<>>) = 0
    <3>1. {i \in DOMAIN <<>> : ~IsHeader(<<>>[i])} = {}
      OBVIOUS
    <3> QED BY <3>1, FS_EmptySet DEF FileCount
  <2>3. <<>> \in Seq(T)
    OBVIOUS
  <2> QED BY <2>1, <2>2, <2>3
<1>6. ASSUME NEW n \in Done
      PROVE  n + 1 \in Done
  <2> SUFFICES ASSUME n + 1 <= N
               PROVE  Right(n + 1)
    OBVIOUS
  <2>1. Right(n) /\ n + 1 \in 1 .. N /\ n + 1 \in 0 .. N /\ (n + 1) - 1 = n /\ n + 1 # 0
    BY <1>1
  <2> DEFINE c == sorted[n + 1]
             k == rowsTo[n]
             head == Header(dir(n + 1))
  <2>2. c \in S /\ c \in T /\ head \in T /\ ~IsHeader(c) /\ IsHeader(head)
    BY <1>1, <2>1 DEF Listable, IsHeader, Header
  <2>3. rowsTo[n + 1] = Append(k, c) \/ rowsTo[n + 1] = Append(Append(k, head), c)
    BY <1>4, <2>1
  <2> HIDE DEF T, c, k, head
  <2>4. k \in Seq(T) /\ FileCount(k) = n
    BY <2>1 DEF k
  <2>5. Append(k, c) \in Seq(T) /\ FileCount(Append(k, c)) = n + 1
    BY <2>2, <2>4, CountAppend
  <2>6. Append(k, head) \in Seq(T) /\ FileCount(Append(k, head)) = n
    BY <2>2, <2>4, CountAppend
  <2>7. Append(Append(k, head), c) \in Seq(T) /\ FileCount(Append(Append(k, head), c)) = n + 1
    BY <2>2, <2>6, CountAppend
  <2> QED BY <2>3, <2>5, <2>7
<1>7. N \in Done
  <2>1. Done \in SUBSET Nat
    OBVIOUS
  <2> HIDE DEF Done
  <2> QED BY <1>1, <1>5, <1>6, <2>1, Induction
<1> QED BY <1>1, <1>2, <1>7 DEF N

\* The numbers of the kinds add up to the number of all.
LEMMA SumOfParts ==
  ASSUME NEW B, IsFiniteSet(B), NEW f,
         f = [kind \in {k[2] : k \in B} |-> Cardinality({k \in B : k[2] = kind})]
  PROVE  SumFunction(f) = Cardinality(B)
<1> DEFINE D == {k[2] : k \in B}
           Share(s) == {k \in B : k[2] \in s}
           One(s) == CHOOSE x \in s : TRUE
           Step(g, s) == IF s = {} THEN 0 ELSE f[One(s)] + g[s \ {One(s)}]
           sum == CHOOSE g : g = [s \in SUBSET D |-> Step(g, s)]
           parts == [s \in SUBSET D |-> Cardinality(Share(s))]
<1>1. SumFunction(f) = sum[D] /\ DOMAIN f = D
  BY DEF SumFunction, SumFunctionOnSet, FoldFunctionOnSet, MapThenFoldSet
<1>2. \A s : IsFiniteSet(Share(s)) /\ Cardinality(Share(s)) \in Nat
  <2> SUFFICES ASSUME NEW s
               PROVE  IsFiniteSet(Share(s)) /\ Cardinality(Share(s)) \in Nat
    OBVIOUS
  <2>1. Share(s) \subseteq B
    OBVIOUS
  <2> HIDE DEF Share
  <2>2. IsFiniteSet(Share(s))
    BY <2>1, FS_Subset
  <2> QED BY <2>2, FS_CardinalityType
<1>3. ASSUME NEW s \in SUBSET D, s # {}
      PROVE  /\ One(s) \in s
             /\ Cardinality(Share(s)) = f[One(s)] + Cardinality(Share(s \ {One(s)}))
  <2>1. One(s) \in s
    BY <1>3
  <2> DEFINE x == One(s)
             P == Share({x})
             Q == Share(s \ {x})
  <2>2. Share(s) = P \cup Q /\ P \cap Q = {}
    <3> HIDE DEF One
    <3> QED BY <2>1
  <2>3. f[x] = Cardinality(P)
    <3>1. {k \in B : k[2] \in {x}} = {k \in B : k[2] = x}
      OBVIOUS
    <3> HIDE DEF One
    <3> QED BY <2>1, <3>1
  <2>4. Cardinality(P \cap Q) = 0
    BY <2>2, FS_EmptySet
  <2>5. IsFiniteSet(P) /\ IsFiniteSet(Q) /\ Cardinality(P) \in Nat /\ Cardinality(Q) \in Nat
    BY <1>2
  <2> HIDE DEF P, Q, x, Share
  <2>6. Cardinality(P \cup Q) = Cardinality(P) + Cardinality(Q)
    <3>1. Cardinality(P \cup Q) = Cardinality(P) + Cardinality(Q) - Cardinality(P \cap Q)
      BY <2>5, FS_Union
    <3> QED BY <2>4, <2>5, <3>1
  <2> QED BY <2>1, <2>2, <2>3, <2>6 DEF Q, x
<1>4. parts = [s \in SUBSET D |-> Step(parts, s)]
  <2>1. \A s \in SUBSET D : parts[s] = Step(parts, s)
    <3> SUFFICES ASSUME NEW s \in SUBSET D
                 PROVE  parts[s] = Step(parts, s)
      OBVIOUS
    <3>1. CASE s = {}
      <4>1. Share(s) = {}
        BY <3>1
      <4> QED BY <3>1, <4>1, FS_EmptySet
    <3>2. CASE s # {}
      <4>1. /\ One(s) \in s
            /\ Cardinality(Share(s)) = f[One(s)] + Cardinality(Share(s \ {One(s)}))
        BY <1>3, <3>2
      <4> HIDE DEF One, Share
      <4>2. s \ {One(s)} \in SUBSET D
        OBVIOUS
      <4> QED BY <3>2, <4>1, <4>2
    <3> QED BY <3>1, <3>2
  <2> HIDE DEF Step, Share
  <2>2. parts = [s \in SUBSET D |-> parts[s]]
    OBVIOUS
  <2> HIDE DEF parts
  <2> QED BY <2>1, <2>2
<1>5. sum = [s \in SUBSET D |-> Step(sum, s)]
  <2> HIDE DEF parts, Step, D
  <2> QED BY <1>4
<1> HIDE DEF sum
<1>6. \A s \in SUBSET D : sum[s] = Step(sum, s)
  <2> HIDE DEF Step, D
  <2> QED BY <1>5
<1>7. IsFiniteSet(D)
  <2> DEFINE kindOf == [k \in B |-> k[2]]
  <2>1. kindOf \in Surjection(B, D)
    BY DEF Surjection
  <2> HIDE DEF D, kindOf
  <2> QED BY <2>1, FS_Surjection
<1> DEFINE Done == {n \in Nat : \A s \in SUBSET D : Cardinality(s) = n => sum[s] = Cardinality(Share(s))}
<1>8. 0 \in Done
  <2> SUFFICES ASSUME NEW s \in SUBSET D, Cardinality(s) = 0
               PROVE  sum[s] = Cardinality(Share(s))
    OBVIOUS
  <2>1. s = {}
    <3> HIDE DEF D
    <3>1. IsFiniteSet(s)
      BY <1>7, FS_Subset
    <3> QED BY <3>1, FS_EmptySet
  <2>2. Share(s) = {}
    BY <2>1
  <2>3. sum[s] = 0
    BY <1>6, <2>1
  <2> QED BY <2>2, <2>3, FS_EmptySet
<1>9. ASSUME NEW n \in Done
      PROVE  n + 1 \in Done
  <2> SUFFICES ASSUME NEW s \in SUBSET D, Cardinality(s) = n + 1
               PROVE  sum[s] = Cardinality(Share(s))
    OBVIOUS
  <2>1. s # {} /\ IsFiniteSet(s)
    <3> HIDE DEF D
    <3>1. IsFiniteSet(s)
      BY <1>7, FS_Subset
    <3> QED BY <3>1, FS_EmptySet
  <2>2. /\ One(s) \in s
        /\ Cardinality(Share(s)) = f[One(s)] + Cardinality(Share(s \ {One(s)}))
    BY <1>3, <2>1
  <2> DEFINE rest == s \ {One(s)}
  <2>3. sum[s] = f[One(s)] + sum[rest]
    BY <1>6, <2>1
  <2> HIDE DEF One, Share, Step
  <2>4. rest \in SUBSET D
    OBVIOUS
  <2>5. Cardinality(rest) = n
    <3>1. Cardinality(s \ {One(s)}) = Cardinality(s) - 1
      BY <2>1, <2>2, FS_RemoveElement
    <3> QED BY <3>1
  <2>6. sum[rest] = Cardinality(Share(rest))
    <3> HIDE DEF rest
    <3> QED BY <2>4, <2>5
  <2> QED BY <2>2, <2>3, <2>6
<1>10. Cardinality(D) \in Done
  <2>1. Done \in SUBSET Nat /\ Cardinality(D) \in Nat
    <3> HIDE DEF D
    <3> QED BY <1>7, FS_CardinalityType
  <2> HIDE DEF Done
  <2> QED BY <1>8, <1>9, <2>1, Induction
<1>11. Share(D) = B
  OBVIOUS
<1>12. sum[D] = Cardinality(Share(D))
  <2> HIDE DEF D, Share
  <2> QED BY <1>10
<1> QED BY <1>1, <1>11, <1>12

Actions == [file : Files, skipped : STRING, error : BOOLEAN, fs : BOOLEAN]
Decided == {"error", "move", "update", "copy", "del_src", "del"}

\* One action of a dry run decides at most one thing of a file.
LEMMA KindsPart ==
  ASSUME NEW a \in Actions, NEW load, IsFiniteSet(load.src), FilesOf(load.src) \subseteq Files
  PROVE  /\ IsFiniteSet(KindsOf(a, load)) /\ KindsOf(a, load) \subseteq Files \X Decided
         /\ \A k, n \in KindsOf(a, load) : k[1] = n[1] => k = n
<1> DEFINE moved == {<<f, "move">> : f \in FilesOf(load.src)}
<1>1. a.file \in Files /\ a.error \in BOOLEAN /\ a.fs \in BOOLEAN
  BY DEF Actions
<1>2. \/ KindsOf(a, load) = {}
      \/ \E kind \in Decided : KindsOf(a, load) = {<<a.file, kind>>}
      \/ KindsOf(a, load) = moved
  <2>1. CASE a.error /\ a.fs
    <3>1. KindsOf(a, load) = {}
      BY <2>1 DEF KindsOf, KindsOfFile
    <3> QED BY <3>1
  <2>2. CASE a.error /\ ~a.fs
    <3>1. KindsOf(a, load) = {<<a.file, "error">>} /\ "error" \in Decided
      BY <2>2 DEF KindsOf, KindsOfFile, Decided
    <3> HIDE DEF moved
    <3> QED BY <3>1
  <2>3. CASE ~a.error /\ a.fs
    <3>1. KindsOf(a, load) = IF a.skipped = "server-side directory move" THEN moved ELSE {}
      BY <2>3 DEF KindsOf, KindsOfFile
    <3> HIDE DEF moved
    <3> QED BY <3>1
  <2>4. CASE ~a.error /\ ~a.fs
    <3>1. CASE a.skipped = "copy"
      <4>1. TransferKind(a.file, FALSE, FilesOf(load.dst)) \in Decided
        BY DEF TransferKind, Decided
      <4> QED BY <2>4, <3>1, <4>1 DEF KindsOf, KindsOfFile
    <3>2. CASE a.skipped = "move"
      BY <2>4, <3>2 DEF KindsOf, KindsOfFile, Decided
    <3>3. CASE a.skipped = "delete"
      BY <2>4, <3>3 DEF KindsOf, KindsOfFile, Decided
    <3>4. CASE a.skipped \notin {"copy", "move", "delete"}
      BY <2>4, <3>4 DEF KindsOf, KindsOfFile
    <3> QED BY <3>1, <3>2, <3>3, <3>4
  <2> QED BY <1>1, <2>1, <2>2, <2>3, <2>4
<1>3. IsFiniteSet(moved) /\ moved \subseteq Files \X Decided /\ \A k, n \in moved : k[1] = n[1] => k = n
  <2> DEFINE g == [e \in load.src |-> <<e.file, "move">>]
  <2>1. g \in Surjection(load.src, moved)
    BY DEF Surjection, FilesOf
  <2>2. IsFiniteSet(moved)
    <3> HIDE DEF g, moved
    <3> QED BY <2>1, FS_Surjection
  <2> QED BY <2>2 DEF Decided
<1> HIDE DEF moved
<1>4. ASSUME NEW kind \in Decided
      PROVE  LET one == {<<a.file, kind>>} IN
             /\ IsFiniteSet(one) /\ one \subseteq Files \X Decided
             /\ \A k, n \in one : k[1] = n[1] => k = n
  <2> DEFINE x == <<a.file, kind>>
  <2>1. x \in Files \X Decided
    BY <1>1
  <2> HIDE DEF x
  <2>2. IsFiniteSet({x}) /\ {x} \subseteq Files \X Decided /\ \A k, n \in {x} : k = n
    BY <2>1, FS_Singleton
  <2> QED BY <2>2 DEF x
<1>5. CASE KindsOf(a, load) = {}
  BY <1>5, FS_EmptySet
<1> QED BY <1>2, <1>3, <1>4, <1>5

DryLoads == [id : Nat, answered : SUBSET Parts, src : {{}, SrcFiles}, dst : {{}, DstFiles},
             check : DryLogs \cup {<<>>}, failed : BOOLEAN]

LEMMA DryLoadTyped ==
  ASSUME CompareAssumption, NEW l \in DryLoads
  PROVE  /\ l.check \in Seq(Actions) /\ IsFiniteSet(l.src) /\ FilesOf(l.src) \subseteq Files
         /\ IsFiniteSet(DOMAIN l.check)
<1>1. l.check \in Seq(Actions)
  <2>1. \A entry \in DryLogs : entry \in Seq(Actions)
    BY DEF CompareAssumption, Actions
  <2>2. <<>> \in Seq(Actions)
    OBVIOUS
  <2> QED BY <2>1, <2>2 DEF DryLoads
<1>2. IsFiniteSet(l.src) /\ FilesOf(l.src) \subseteq Files
  <2>1. l.src = {} \/ l.src = SrcFiles
    BY DEF DryLoads
  <2>2. FilesOf({}) \subseteq Files /\ FilesOf(SrcFiles) \subseteq Files
    BY DEF FilesOf, Files
  <2> QED BY <2>1, <2>2, FS_EmptySet DEF CompareAssumption
<1>3. IsFiniteSet(DOMAIN l.check)
  <2>1. Len(l.check) \in Nat /\ DOMAIN l.check = 1 .. Len(l.check)
    BY <1>1
  <2> QED BY <2>1, FS_Interval
<1> QED BY <1>1, <1>2, <1>3

\* dry_run_to_checks(): the map by_path holds a file once.
LEMMA ByPathPart ==
  ASSUME CompareAssumption, NEW l \in DryLoads
  PROVE  /\ IsFiniteSet(ByPath(l)) /\ ByPath(l) \subseteq Files \X Decided
         /\ \A k, n \in ByPath(l) : k[1] = n[1] => k = n
<1> DEFINE kinds(i) == KindsOf(l.check[i], l)
           last(i) == {k \in kinds(i) : \A j \in DOMAIN l.check : j > i => \A n \in kinds(j) : n[1] # k[1]}
           lasts == {last(i) : i \in DOMAIN l.check}
<1>1. ByPath(l) = UNION lasts
  BY DEF ByPath
<1>2. \A i \in DOMAIN l.check : /\ IsFiniteSet(kinds(i)) /\ kinds(i) \subseteq Files \X Decided
                                /\ \A k, n \in kinds(i) : k[1] = n[1] => k = n
  <2> SUFFICES ASSUME NEW i \in DOMAIN l.check
               PROVE  /\ IsFiniteSet(kinds(i)) /\ kinds(i) \subseteq Files \X Decided
                      /\ \A k, n \in kinds(i) : k[1] = n[1] => k = n
    OBVIOUS
  <2>1. l.check[i] \in Actions
    <3>1. l.check \in Seq(Actions)
      BY DryLoadTyped
    <3> QED BY <3>1
  <2> QED BY <2>1, DryLoadTyped, KindsPart
<1> HIDE DEF kinds
<1>3. IsFiniteSet(UNION lasts)
  <2>1. IsFiniteSet(lasts)
    <3> DEFINE g == [i \in DOMAIN l.check |-> last(i)]
    <3>1. g \in Surjection(DOMAIN l.check, lasts)
      BY DEF Surjection
    <3> HIDE DEF g, lasts
    <3> QED BY <3>1, DryLoadTyped, FS_Surjection
  <2>2. \A t \in lasts : IsFiniteSet(t)
    <3> SUFFICES ASSUME NEW i \in DOMAIN l.check
                 PROVE  IsFiniteSet(last(i))
      OBVIOUS
    <3>1. last(i) \subseteq kinds(i)
      OBVIOUS
    <3> HIDE DEF last
    <3> QED BY <1>2, <3>1, FS_Subset
  <2> HIDE DEF lasts
  <2> QED BY <2>1, <2>2, FS_UNION
<1>4. UNION lasts \subseteq Files \X Decided
  BY <1>2
<1>5. ASSUME NEW k \in UNION lasts, NEW n \in UNION lasts, k[1] = n[1]
      PROVE  k = n
  <2>1. PICK i \in DOMAIN l.check : k \in last(i)
    OBVIOUS
  <2>2. PICK j \in DOMAIN l.check : n \in last(j)
    OBVIOUS
  <2>3. i \in Nat /\ j \in Nat
    <3>1. l.check \in Seq(Actions)
      BY DryLoadTyped
    <3> QED BY <3>1
  <2>4. ~(j > i) /\ ~(i > j)
    BY <1>5, <2>1, <2>2
  <2> QED BY <1>2, <1>5, <2>1, <2>2, <2>3, <2>4
<1> QED BY <1>1, <1>3, <1>4, <1>5

LEMMA DryChecksListable ==
  ASSUME CompareAssumption, NEW l \in DryLoads
  PROVE  Listable(DryChecks(l)) /\ Cardinality(DryChecks(l)) = Cardinality(ByPath(l))
<1> DEFINE B == ByPath(l)
           Entered(k) == [file |-> k[1], status |-> DryStatus(k[2], k[1], l)]
           g == [k \in B |-> Entered(k)]
<1>1. /\ IsFiniteSet(B) /\ B \subseteq Files \X Decided
      /\ \A k, n \in B : k[1] = n[1] => k = n
  BY ByPathPart
<1>2. DryChecks(l) = {Entered(k) : k \in B}
  BY DEF DryChecks
<1> HIDE DEF B
<1>3. \A k \in B : Entered(k).file = k[1] /\ k[1] \in Files /\ k[2] \in Decided
  BY <1>1
<1>4. \A k \in B : Entered(k).status # "/"
  <2> SUFFICES ASSUME NEW k \in B
               PROVE  DryStatus(k[2], k[1], l) # "/"
    OBVIOUS
  <2>1. k[2] \in Decided
    BY <1>3
  <2> QED BY <2>1 DEF DryStatus, Decided
<1> HIDE DEF Entered
<1>5. g \in Bijection(B, DryChecks(l))
  <2>1. \A k, n \in B : Entered(k) = Entered(n) => k = n
    BY <1>1, <1>3
  <2> QED BY <1>2, <2>1 DEF Bijection, Injection, Surjection, IsInjective
<1>6. IsFiniteSet(DryChecks(l)) /\ Cardinality(DryChecks(l)) = Cardinality(B)
  <2> HIDE DEF g
  <2>1. ExistsBijection(B, DryChecks(l))
    BY <1>5 DEF ExistsBijection
  <2> QED BY <1>1, <2>1, FS_Bijection
<1>7. \A c \in DryChecks(l) : c.file.dir \in Nat /\ c.file.raw \in Nat /\ ~IsHeader(c)
  BY <1>2, <1>3, <1>4 DEF CompareAssumption, IsHeader
<1>8. ASSUME NEW c \in DryChecks(l), NEW d \in DryChecks(l), c.file.raw = d.file.raw
      PROVE  c = d
  <2>1. PICK k \in B : c = Entered(k)
    BY <1>2
  <2>2. PICK n \in B : d = Entered(n)
    BY <1>2
  <2>3. c.file \in Files /\ d.file \in Files
    BY <1>3, <2>1, <2>2
  <2>4. c.file = d.file
    BY <1>8, <2>3 DEF CompareAssumption
  <2> QED BY <1>1, <1>3, <2>1, <2>2, <2>4
<1> QED BY <1>6, <1>7, <1>8 DEF Listable, B

\* update_dry_run_summary() and merge_results() agree.
LEMMA TallyAgrees ==
  ASSUME CompareAssumption, NEW l \in DryLoads
  PROVE  SumFunction(Tallied(l)) = FileCount(Merged(DryChecks(l)))
<1> DEFINE B == ByPath(l)
<1>1. IsFiniteSet(B)
  BY ByPathPart
<1>2. Tallied(l) = [kind \in {k[2] : k \in B} |-> Cardinality({k \in B : k[2] = kind})]
  BY DEF Tallied
<1>3. SumFunction(Tallied(l)) = Cardinality(B)
  <2> HIDE DEF B
  <2> QED BY <1>1, <1>2, SumOfParts
<1> QED BY <1>3, DryChecksListable, MergedCount

(***************************************************************************)
(* A preview has no commands, so its loads list the two sides as they were *)
(* and read one of the logs.                                               *)
(***************************************************************************)
DryInv ==
  /\ latest \in Nat
  /\ IsDry => /\ commands = {} /\ side = [src |-> SrcFiles, dst |-> DstFiles]
              /\ loads \subseteq DryLoads /\ TallyMatchesRows

LEMMA ResultTyped ==
  ASSUME IsDry, side = [src |-> SrcFiles, dst |-> DstFiles], NEW load \in DryLoads,
         NEW where \in Parts, NEW ok \in BOOLEAN, NEW l \in Result(load, where, ok)
  PROVE  l \in DryLoads
<1> DEFINE a == [load EXCEPT !.answered = @ \cup {where}]
<1>1. a \in DryLoads
  BY DEF DryLoads
<1> HIDE DEF a
<1>2. CASE where = "src"
  BY <1>1, <1>2 DEF Result, DryLoads, a
<1>3. CASE where = "dst"
  BY <1>1, <1>3 DEF Result, DryLoads, a
<1>4. CASE where = "check"
  <2>1. CASE ok
    <3>1. l \in {[a EXCEPT !.check = entry] : entry \in DryLogs}
      BY <1>4, <2>1 DEF Result, a
    <3> QED BY <1>1, <3>1 DEF DryLoads
  <2>2. CASE ~ok
    <3>1. l = [a EXCEPT !.failed = TRUE]
      BY <1>4, <2>2 DEF Result, a
    <3> QED BY <1>1, <3>1 DEF DryLoads
  <2> QED BY <2>1, <2>2
<1> QED BY <1>2, <1>3, <1>4 DEF Parts

LEMMA AnswerTallied ==
  ASSUME CompareAssumption, DryInv, IsDry, NEW load \in loads, NEW where \in Parts, NEW ok \in BOOLEAN,
         Answer(load, where, ok)
  PROVE  DryInv'
<1>1. PICK l \in Result(load, where, ok) :
        IF l.answered # Parts
        THEN loads' = (loads \ {load}) \cup {l} /\ UNCHANGED <<uiVars, tally, fsErrors>>
        ELSE /\ loads' = loads \ {load}
             /\ IF alive THEN Finish(l) ELSE UNCHANGED <<uiVars, tally, fsErrors>>
  BY DEF Answer
<1>2. mode' = mode /\ side' = side /\ latest' = latest /\ commands' = commands
  BY DEF Answer
<1>3. l \in DryLoads
  BY ResultTyped DEF DryInv
<1>4. loads' \subseteq DryLoads
  BY <1>1, <1>3 DEF DryInv
<1>5. \/ tally' = tally /\ allRows' = allRows
      \/ tally' = Tallied(l) /\ allRows' = Merged(DryChecks(l))
  BY <1>1 DEF Finish, uiVars
<1>6. TallyMatchesRows'
  <2>1. CASE tally' = tally /\ allRows' = allRows
    BY <1>2, <2>1 DEF DryInv, TallyMatchesRows, IsDry
  <2>2. CASE tally' = Tallied(l) /\ allRows' = Merged(DryChecks(l))
    <3>1. SumFunction(Tallied(l)) = FileCount(Merged(DryChecks(l)))
      BY <1>3, TallyAgrees
    <3> QED BY <2>2, <3>1 DEF TallyMatchesRows
  <2> QED BY <1>5, <2>1, <2>2
<1> QED BY <1>2, <1>4, <1>6 DEF DryInv, IsDry

LEMMA TallyRests ==
  ASSUME DryInv, UNCHANGED <<mode, latest, tally, allRows>>, loads' \subseteq loads,
         IsDry => side' = side /\ commands' = commands
  PROVE  DryInv'
<1>1. TallyMatchesRows' <=> TallyMatchesRows
  BY DEF TallyMatchesRows, IsDry
<1> QED BY <1>1 DEF DryInv, IsDry

LEMMA TallyStep ==
  ASSUME CompareAssumption, DryInv, [CompareNext]_compareVars
  PROVE  DryInv'
<1>1. ASSUME NEW load \in loads, NEW where \in Parts, NEW ok \in BOOLEAN, Answer(load, where, ok)
      PROVE  DryInv'
  <2>1. CASE IsDry
    BY <1>1, <2>1, AnswerTallied
  <2>2. CASE ~IsDry
    BY <1>1, <2>2 DEF Answer, DryInv, IsDry
  <2> QED BY <2>1, <2>2
<1>2. ASSUME NEW s \in Statuses, ToggleFilter(s)
      PROVE  DryInv'
  BY <1>2, TallyRests DEF ToggleFilter
<1>3. ASSUME NEW n, TurnPage(n)
      PROVE  DryInv'
  BY <1>3, TallyRests DEF TurnPage
<1>4. ASSUME NEW rs, Pick(rs)
      PROVE  DryInv'
  BY <1>4, TallyRests DEF Pick
<1>5. ASSUME NEW v \in Verbs, Command(v)
      PROVE  DryInv'
  BY <1>5, TallyRests DEF Command
<1>6. ASSUME NEW c \in commands, NEW ok \in BOOLEAN, CommandDone(c, ok)
      PROVE  DryInv'
  BY <1>6 DEF CommandDone, StartLoad, DryInv, IsDry
<1>7. CASE CloseDialog
  <2>1. /\ UNCHANGED <<mode, latest, tally, allRows, side, commands>> /\ loads' \subseteq loads
    BY <1>7 DEF CloseDialog, uiVars
  <2> QED BY <2>1, TallyRests
<1>8. CASE UNCHANGED compareVars
  BY <1>8, TallyRests DEF compareVars, uiVars
<1> QED BY <1>1, <1>2, <1>3, <1>4, <1>5, <1>6, <1>7, <1>8 DEF CompareNext

\* The summary of a dry run counts every file once: its numbers add up to the
\* rows of files in the list, whatever the log says of a file, how often and in
\* which order, and whichever load of the dialog ended last.
THEOREM SummaryMatchesRows == CompareSpec => []TallyMatchesRows
<1>1. CompareInit => DryInv
  <2> SUFFICES ASSUME CompareInit
               PROVE  DryInv
    OBVIOUS
  <2>1. /\ latest = 1 /\ commands = {} /\ side = [src |-> SrcFiles, dst |-> DstFiles]
        /\ loads = {NewLoad(1)} /\ allRows = <<>> /\ tally = [k \in {} |-> 0]
    BY DEF CompareInit
  <2>2. NewLoad(1) \in DryLoads
    BY DEF NewLoad, DryLoads
  <2>3. TallyMatchesRows
    <3>1. tally = [kind \in {k[2] : k \in {}} |-> Cardinality({k \in {} : k[2] = kind})]
      BY <2>1
    <3>2. SumFunction(tally) = 0
      BY <3>1, SumOfParts, FS_EmptySet
    <3>3. FileCount(<<>>) = 0
      <4>1. {i \in DOMAIN <<>> : ~IsHeader(<<>>[i])} = {}
        OBVIOUS
      <4> QED BY <4>1, FS_EmptySet DEF FileCount
    <3> QED BY <2>1, <3>2, <3>3 DEF TallyMatchesRows
  <2> QED BY <2>1, <2>2, <2>3 DEF DryInv
<1>2. DryInv /\ [CompareNext]_compareVars => DryInv'
  BY CompareAssumption, TallyStep
<1>3. DryInv => TallyMatchesRows
  BY DEF DryInv, TallyMatchesRows
<1> QED BY <1>1, <1>2, <1>3, PTL DEF CompareSpec

LoadShaped(l) ==
  l = [id |-> l.id, answered |-> l.answered, src |-> l.src, dst |-> l.dst, check |-> l.check,
       failed |-> l.failed]

LEMMA ResultShaped ==
  ASSUME NEW load, LoadShaped(load), NEW share \in Parts, NEW ok \in BOOLEAN,
         NEW l \in Result(load, share, ok)
  PROVE  LoadShaped(l) /\ l.id = load.id /\ l.answered = load.answered \cup {share}
<1> DEFINE a == load.answered \cup {share}
           k == [load EXCEPT !.answered = a]
<1>1. LoadShaped(k) /\ k.id = load.id /\ k.answered = a
  BY DEF LoadShaped
<1> DEFINE e(x) == [k EXCEPT !.check = x]
           f(x) == [k EXCEPT !.failed = x]
<1>2. \E x : l = e(x) \/ l = f(x) \/ (share \in {"src", "dst"} /\ l = [k EXCEPT ![share] = x])
  BY DEF Result, Parts
<1> HIDE DEF a, k
<1>3. \A x : LoadShaped(e(x)) /\ e(x).id = k.id /\ e(x).answered = k.answered
  BY <1>1 DEF LoadShaped
<1>4. \A x : LoadShaped(f(x)) /\ f(x).id = k.id /\ f(x).answered = k.answered
  BY <1>1 DEF LoadShaped
<1>5. \A x : LET g == [k EXCEPT !.src = x] IN LoadShaped(g) /\ g.id = k.id /\ g.answered = k.answered
  BY <1>1 DEF LoadShaped
<1>6. \A x : LET g == [k EXCEPT !.dst = x] IN LoadShaped(g) /\ g.id = k.id /\ g.answered = k.answered
  BY <1>1 DEF LoadShaped
<1>7. PICK x : l = e(x) \/ l = f(x) \/ l = [k EXCEPT !.src = x] \/ l = [k EXCEPT !.dst = x]
  BY <1>2
<1> HIDE DEF e, f
<1>8. LoadShaped(l) /\ l.id = k.id /\ l.answered = k.answered
  BY <1>3, <1>4, <1>5, <1>6, <1>7
<1> QED BY <1>1, <1>8 DEF a

\* No load has a number above the latest one, whichever commands end and
\* reload while others run, and no command is given without a file.
THEOREM CompareTypes == CompareSpec => []CompareTypeOK
<1> DEFINE TypeInv == latest \in Nat /\ (\A l \in loads : LoadShaped(l)) /\ CompareTypeOK
<1>1. CompareInit => TypeInv
  <2> SUFFICES ASSUME CompareInit
               PROVE  TypeInv
    OBVIOUS
  <2>1. \A l \in loads : LoadShaped(l) /\ l.id = 1 /\ l.answered = {}
    BY DEF CompareInit, NewLoad, LoadShaped
  <2>2. /\ mode \in {"compare"} \cup DryTypes /\ alive \in BOOLEAN /\ commands = {}
        /\ stack = "loading" /\ shownStatus = Statuses
    BY DEF CompareInit
  <2>3. latest = 1 /\ clicks \in 0 .. MaxClicks
    BY CompareAssumption DEF CompareInit
  <2> QED BY <2>1, <2>2, <2>3 DEF CompareTypeOK
<1>2. TypeInv /\ [CompareNext]_compareVars => TypeInv'
  <2> SUFFICES ASSUME TypeInv, [CompareNext]_compareVars
               PROVE  TypeInv'
    OBVIOUS
  <2>1. mode' \in {"compare"} \cup DryTypes /\ alive' \in BOOLEAN
    BY DEF CompareTypeOK, CompareNext, compareVars, uiVars, Answer, ToggleFilter, TurnPage, Pick,
           Command, CommandDone, CloseDialog
  <2>2. clicks' = clicks \/ (clicks < MaxClicks /\ clicks' = clicks + 1)
    BY DEF CompareNext, compareVars, uiVars, Answer, ToggleFilter, TurnPage, Pick, Click,
           Command, CommandDone, CloseDialog
  <2>3. clicks' \in 0 .. MaxClicks
    BY <2>2, CompareAssumption DEF CompareTypeOK
  <2>4. stack' \in {"loading", "results", "error", "empty"} /\ shownStatus' \subseteq Statuses
    BY DEF CompareTypeOK, CompareNext, compareVars, uiVars, Answer, Finish, ShowPage, ToggleFilter,
           TurnPage, Pick, Command, CommandDone, CloseDialog
  <2>5. latest' \in Nat /\ latest <= latest' /\ \A l \in loads' :
          LoadShaped(l) /\ l.id \in 1 .. latest' /\ l.answered \subseteq Parts
    <3>1. \A l \in loads : LoadShaped(l) /\ l.id \in 1 .. latest /\ l.answered \subseteq Parts
      BY DEF CompareTypeOK
    <3>2. CASE latest' = latest /\ loads' \subseteq loads
      BY <3>1, <3>2
    <3>3. ASSUME NEW load \in loads, NEW share \in Parts, NEW ok \in BOOLEAN, Answer(load, share, ok)
          PROVE  latest' = latest /\ \A l \in loads' :
                   LoadShaped(l) /\ l.id \in 1 .. latest /\ l.answered \subseteq Parts
      <4>1. latest' = latest
        BY <3>3 DEF Answer
      <4>2. \A l \in loads' : l \in loads \/ l \in Result(load, share, ok)
        BY <3>3 DEF Answer
      <4>3. \A l \in Result(load, share, ok) :
              LoadShaped(l) /\ l.id = load.id /\ l.answered = load.answered \cup {share}
        BY <3>1, ResultShaped
      <4> QED BY <3>1, <4>1, <4>2, <4>3
    <3>4. CASE StartLoad
      <4>1. latest' = latest + 1 /\ latest \in Nat
        BY <3>4 DEF StartLoad
      <4>2. \A l \in loads' : l \in loads \/ l = NewLoad(latest')
        BY <3>4 DEF StartLoad
      <4>3. LET l == NewLoad(latest') IN LoadShaped(l) /\ l.id = latest' /\ l.answered = {}
        BY DEF NewLoad, LoadShaped
      <4>4. latest' \in 1 .. latest' /\ 1 .. latest \subseteq 1 .. latest'
        BY <4>1
      <4> QED BY <3>1, <4>1, <4>2, <4>3, <4>4
    <3>5. \/ latest' = latest /\ loads' \subseteq loads
          \/ StartLoad
          \/ \E l \in loads, share \in Parts, ok \in BOOLEAN : Answer(l, share, ok)
      BY DEF CompareNext, compareVars, uiVars, ToggleFilter, TurnPage, Pick, Command, CommandDone,
             CloseDialog
    <3> QED BY <3>2, <3>3, <3>4, <3>5
  <2>6. \A c \in commands' : c.verb \in Verbs /\ c.files # {}
    <3>1. CASE commands' \subseteq commands
      BY <3>1 DEF CompareTypeOK
    <3>2. ASSUME NEW v \in Verbs, Command(v)
          PROVE  \A c \in commands' : c.verb \in Verbs /\ c.files # {}
      <4>1. picked # {} /\ commands' = commands \cup {[verb |-> v, files |-> picked, n |-> clicks]}
        BY <3>2 DEF Command
      <4>2. \A c \in commands' : c \in commands \/ (c.verb = v /\ c.files = picked)
        BY <4>1
      <4> QED BY <4>1, <4>2 DEF CompareTypeOK
    <3>3. commands' \subseteq commands \/ \E v \in Verbs : Command(v)
      BY DEF CompareNext, compareVars, uiVars, Answer, ToggleFilter, TurnPage, Pick, CommandDone,
             CloseDialog
    <3> QED BY <3>1, <3>2, <3>3
  <2> QED BY <2>1, <2>3, <2>4, <2>5, <2>6 DEF CompareTypeOK
<1>3. TypeInv => CompareTypeOK
  OBVIOUS
<1> QED BY <1>1, <1>2, <1>3, PTL DEF CompareSpec

-----------------------------------------------------------------------------
(***************************************************************************)
(* All of them. A step of the whole is a step of one component, and the    *)
(* others rest, so a behaviour of the whole is one of each component and   *)
(* every theorem about a component is one about the whole.                 *)
(***************************************************************************)

LEMMA PartMoves ==
  ASSUME [DesktopNext]_desktopVars
  PROVE  /\ UNCHANGED part
         /\ [BrowserNext]_browserVars
         /\ [CompareNext]_compareVars
         /\ [RemotesNext]_remoteVars
         /\ [FormNext]_formVars
         /\ [LinkNext]_linkVars
         /\ [ChannelNext]_channelVars
         /\ [DirNext]_dirVars
         /\ [TriggerNext]_watchVars
         /\ [CronNext]_cronVars
         /\ [LogNext]_logVars
<1>1. CASE UNCHANGED desktopVars BY <1>1 DEF desktopVars, Windows, Services, Sockets
<1>2. CASE DesktopNext BY <1>2 DEF DesktopNext, Windows, Services, Sockets
<1> QED BY <1>1, <1>2

LEMMA EachMoves ==
  DesktopSpec => BrowserSpec /\ CompareSpec /\ RemotesSpec /\ FormSpec /\ LinkSpec
                 /\ ChannelSpec /\ DirSpec /\ TriggerSpec /\ CronSpec /\ LogSpec
<1>1. DesktopSpec => BrowserSpec
  <2>1. DesktopInit => BrowserInit BY DEF DesktopInit
  <2>2. [DesktopNext]_desktopVars => [BrowserNext]_browserVars BY PartMoves
  <2> QED BY <2>1, <2>2, PTL DEF DesktopSpec, BrowserSpec
<1>2. DesktopSpec => CompareSpec
  <2>1. DesktopInit => CompareInit BY DEF DesktopInit
  <2>2. [DesktopNext]_desktopVars => [CompareNext]_compareVars BY PartMoves
  <2> QED BY <2>1, <2>2, PTL DEF DesktopSpec, CompareSpec
<1>3. DesktopSpec => RemotesSpec
  <2>1. DesktopInit => RemotesInit BY DEF DesktopInit
  <2>2. [DesktopNext]_desktopVars => [RemotesNext]_remoteVars BY PartMoves
  <2> QED BY <2>1, <2>2, PTL DEF DesktopSpec, RemotesSpec
<1>4. DesktopSpec => FormSpec
  <2>1. DesktopInit => FormInit BY DEF DesktopInit
  <2>2. [DesktopNext]_desktopVars => [FormNext]_formVars BY PartMoves
  <2> QED BY <2>1, <2>2, PTL DEF DesktopSpec, FormSpec
<1>5. DesktopSpec => LinkSpec
  <2>1. DesktopInit => LinkInit BY DEF DesktopInit
  <2>2. [DesktopNext]_desktopVars => [LinkNext]_linkVars BY PartMoves
  <2> QED BY <2>1, <2>2, PTL DEF DesktopSpec, LinkSpec
<1>6. DesktopSpec => ChannelSpec
  <2>1. DesktopInit => ChannelInit BY DEF DesktopInit
  <2>2. [DesktopNext]_desktopVars => [ChannelNext]_channelVars BY PartMoves
  <2> QED BY <2>1, <2>2, PTL DEF DesktopSpec, ChannelSpec
<1>7. DesktopSpec => DirSpec
  <2>1. DesktopInit => DirInit BY DEF DesktopInit
  <2>2. [DesktopNext]_desktopVars => [DirNext]_dirVars BY PartMoves
  <2> QED BY <2>1, <2>2, PTL DEF DesktopSpec, DirSpec
<1>8. DesktopSpec => TriggerSpec
  <2>1. DesktopInit => TriggerInit BY DEF DesktopInit
  <2>2. [DesktopNext]_desktopVars => [TriggerNext]_watchVars BY PartMoves
  <2> QED BY <2>1, <2>2, PTL DEF DesktopSpec, TriggerSpec
<1>9. DesktopSpec => CronSpec
  <2>1. DesktopInit => CronInit BY DEF DesktopInit
  <2>2. [DesktopNext]_desktopVars => [CronNext]_cronVars BY PartMoves
  <2> QED BY <2>1, <2>2, PTL DEF DesktopSpec, CronSpec
<1>10. DesktopSpec => LogSpec
  <2>1. DesktopInit => LogInit BY DEF DesktopInit
  <2>2. [DesktopNext]_desktopVars => [LogNext]_logVars BY PartMoves
  <2> QED BY <2>1, <2>2, PTL DEF DesktopSpec, LogSpec
<1> QED BY <1>1, <1>2, <1>3, <1>4, <1>5, <1>6, <1>7, <1>8, <1>9, <1>10

\* Every component keeps its types, also when they are explored together: what is
\* on its way, listed, waited for and shown names jobs, remotes, files and requests
\* that there are.
THEOREM DesktopTypes == DesktopSpec => []DesktopTypeOK
<1>1. DesktopSpec => [](part \in Explored)
  <2>1. DesktopInit => part \in Explored BY DEF DesktopInit
  <2>2. part \in Explored /\ [DesktopNext]_desktopVars => (part \in Explored)' BY PartMoves
  <2> QED BY <2>1, <2>2, PTL DEF DesktopSpec
<1>2. /\ part \in Explored
      /\ BrowserTypeOK
      /\ CompareTypeOK
      /\ RemotesTypeOK
      /\ FormTypeOK
      /\ LinkTypeOK
      /\ ChannelTypeOK
      /\ DirTypeOK
      /\ TriggerTypeOK
      /\ CronTypeOK
      /\ LogTypeOK
      => DesktopTypeOK
  BY DEF DesktopTypeOK
<1> QED BY <1>1, <1>2, EachMoves, BrowserTypes, CompareTypes, RemoteTypes, FormTypes, LinkTypesHold,
         ChannelTypes, WatcherTypes, DebounceTypes, ScheduleTypes, LogTypes, PTL
=============================================================================
