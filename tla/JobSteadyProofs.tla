-------------------------- MODULE JobSteadyProofs --------------------------
(***************************************************************************)
(* JobDaemon while no job is deleted, for every set of jobs and every      *)
(* value of the bounds: the counter is exact, no run is forgotten, what is *)
(* recorded of a run is true of it, a job has one instance in rcd, keeps   *)
(* its schedule and is not resubmitted for ever. A deletion moves the      *)
(* indices under the callbacks of other jobs, and these may fail then.     *)
(***************************************************************************)
EXTENDS JobRefinementProofs, JobLedgerProofs

\* The slots, the ledger and the list are well-formed, and own each other.
SteadyInv == LifeInv /\ OwnerInv

\* on_run_job has been called on these slots, this ledger and this counter.
Ran(slots, L, n, P) ==
  \/ Skipped(slots, L, n)
  \/ \E d \in Ids, trig \in Triggers : P[d] # 0 /\ Begun(slots, L, n, P, d, trig)

\* The slots mid are those of on_job_completed after the claim of job i.
Freed(slots, mid, i) ==
  /\ mid[i].run = 0
  /\ \A j \in Ids : j # i => mid[j] = slots[j]

LEMMA SteadyAlways ==
  ASSUME Deletable = {}
  PROVE  Spec => []SteadyInv
<1>1. Init => LifeInv BY InitInv
<1>2. LifeInv /\ [Next]_vars => LifeInv' BY NextInv
<1>3. Spec => []LifeInv BY <1>1, <1>2, PTL DEF Spec
<1> QED BY <1>3, OwnerAlways, PTL DEF SteadyInv

\* A launch runs on slots that agree with the present ones.
LEMMA LaunchRan ==
  ASSUME TypeOK, NEW P, Launch(P)
  PROVE  \E slots \in Slots : Agree(st, slots, pos) /\ Ran(slots, runs, count, P)
<1>1. PICK slots \in Slots, due \in SUBSET Ids, trig \in Triggers :
        /\ Agree(st, slots, pos)
        /\ \E d : due \subseteq {d}
        /\ \A j \in due : P[j] # 0
        /\ OnRunJob(slots, runs, count, P, due, trig)
  BY DEF Launch
<1>2. PICK d : due \subseteq {d} BY <1>1
<1>3. runs \in Ledgers /\ count \in Nat BY TypeShape
<1>4. Skipped(slots, runs, count) \/ (d \in due /\ Begun(slots, runs, count, P, d, trig))
  BY <1>1, <1>2, <1>3, LaunchFacts
<1>5. Ran(slots, runs, count, P) BY <1>1, <1>4 DEF Ran
<1> QED BY <1>1, <1>5

\* on_job_completed frees the slot, ends the run and pays for it, and at its
\* last verdict calls on_run_job.
LEMMA CompletedRan ==
  ASSUME TypeOK, NEW slots \in Slots, NEW c \in Calls, Valid(c),
         slots[c.id].run \in DOMAIN runs[c.id],
         NEW outcome \in Outcomes, NEW nobase,
         OnJobCompleted(slots, runs, c, outcome, nobase)
  PROVE  \E mid \in Slots :
           /\ Freed(slots, mid, c.id)
           /\ Ran(mid, End(runs, c.id, slots[c.id].run, outcome), Dec(count), pos)
<1> DEFINE claimed == [slots EXCEPT ![c.id] = Claim(@)]
           ended   == End(runs, c.id, slots[c.id].run, outcome)
<1>t. runs \in Ledgers /\ count \in Nat BY TypeShape
<1>c. c.id \in Ids /\ pos[c.id] # 0 /\ slots[c.id] \in Slot BY DEF Calls, Valid, Slots
<1>0. Claim(slots[c.id]) \in Slot /\ Claim(slots[c.id]).run = 0 BY <1>c DEF Claim, Slot
<1>1. claimed \in Slots /\ Freed(slots, claimed, c.id) BY <1>c, <1>0 DEF Freed, Slots
<1>2. ended \in Ledgers BY <1>c, <1>t, EndInLedgers
<1>n. Dec(count) \in Nat BY <1>t DEF Dec
<1>5. \/ ResyncRetry(claimed, ended, c)
      \/ BackoffRetry(claimed, ended, c)
      \/ FinalVerdict(claimed, ended, c)
  BY DEF OnJobCompleted
<1> HIDE DEF claimed, ended
<1> SUFFICES \E mid \in Slots : Freed(slots, mid, c.id) /\ Ran(mid, ended, Dec(count), pos)
  BY DEF ended
<1>s. ASSUME NEW s \in Slot, s.run = 0, NEW mid, mid = [claimed EXCEPT ![c.id] = s]
      PROVE  mid \in Slots /\ Freed(slots, mid, c.id)
  BY <1>c, <1>1, <1>s DEF Freed, Slots
<1>d. claimed[c.id] \in Slot /\ claimed[c.id].run = 0 BY <1>c, <1>1 DEF Freed, Slots
<1>6. CASE ResyncRetry(claimed, ended, c)
  <2> DEFINE s == [claimed[c.id] EXCEPT !.resyncTried = TRUE, !.resync = TRUE]
  <2>1. s \in Slot /\ s.run = 0 BY <1>d DEF Slot
  <2>2. st' = [claimed EXCEPT ![c.id] = s]
    BY <1>c, <1>1, <1>6 DEF ResyncRetry, Slots
  <2> HIDE DEF s
  <2>3. Skipped(st', ended, Dec(count)) BY <1>6 DEF ResyncRetry, Skipped
  <2>4. st' \in Slots /\ Freed(slots, st', c.id) BY <1>s, <2>1, <2>2
  <2> QED BY <2>3, <2>4 DEF Ran
<1>7. CASE BackoffRetry(claimed, ended, c)
  <2> DEFINE s == [claimed[c.id] EXCEPT !.retries = @ + 1]
  <2>1. s \in Slot /\ s.run = 0 BY <1>d DEF Slot
  <2>2. st' = [claimed EXCEPT ![c.id] = s]
    BY <1>c, <1>1, <1>7 DEF BackoffRetry, Slots
  <2> HIDE DEF s
  <2>3. Skipped(st', ended, Dec(count)) BY <1>7 DEF BackoffRetry, Skipped
  <2>4. st' \in Slots /\ Freed(slots, st', c.id) BY <1>s, <2>1, <2>2
  <2> QED BY <2>3, <2>4 DEF Ran
<1>8. CASE FinalVerdict(claimed, ended, c)
  <2> DEFINE s == [claimed[c.id] EXCEPT !.retries = 0, !.running = FALSE]
             done == [claimed EXCEPT ![c.id].retries = 0, ![c.id].running = FALSE]
  <2>1. PICK due \in {d \in DueSets(pos, sched) : d \subseteq {c.id}} :
          OnRunJob(done, ended, Dec(count), pos, due, "sched")
    BY <1>8 DEF FinalVerdict
  <2>2. s \in Slot /\ s.run = 0 BY <1>d DEF Slot
  <2>3. done = [claimed EXCEPT ![c.id] = s] BY <1>c, <1>1 DEF Slots
  <2> HIDE DEF done, s
  <2>4. done \in Slots /\ Freed(slots, done, c.id) BY <1>s, <2>2, <2>3
  <2>5. due \in SUBSET Ids /\ due \subseteq {c.id} BY <1>c
  <2>6. Skipped(done, ended, Dec(count))
        \/ (c.id \in due /\ Begun(done, ended, Dec(count), pos, c.id, "sched"))
    BY <1>2, <1>n, <2>1, <2>4, <2>5, LaunchFacts DEF Triggers
  <2>7. Ran(done, ended, Dec(count), pos) BY <1>c, <2>6 DEF Ran, Triggers
  <2> QED BY <2>4, <2>7
<1> QED BY <1>5, <1>6, <1>7, <1>8

\* A start request that fails leaves what is tracked as it is, ...
LEMMA FailedFacts ==
  ASSUME SteadyInv, NEW c \in subs, SubmitFailed(c)
  PROVE  /\ c.id \in Ids /\ Open(runs, c.id, c.run) /\ c.run \in DOMAIN runs[c.id]
         /\ \A j \in Ids : st'[j].run = st[j].run /\ st'[j].pollBusy = st[j].pollBusy
         /\ UNCHANGED <<polls, pos, up, boots>>
         /\ subs' = subs \ {c} /\ count' = Dec(count)
         /\ \E p \in Phases :
              /\ losses' = 0 => p = "lost"
              /\ p = "lost" \/ p = runs[c.id][c.run].phase
              /\ runs' = End([runs EXCEPT ![c.id][c.run].phase = p], c.id, c.run, "rejected")
<1>t. subs \subseteq Calls /\ runs \in Ledgers /\ losses \in Nat
  BY TypeShape DEF SteadyInv, LifeInv
<1>1. c.id \in Ids /\ Open(runs, c.id, c.run) /\ c.run \in DOMAIN runs[c.id]
  BY <1>t DEF SteadyInv, OwnerInv, Owned, Open, Calls
<1>2. Valid(c) /\ ClearSubmitting(c.idx) \in Slots
  BY ClearsOne DEF SteadyInv
<1>3. st' = [ClearSubmitting(c.idx) EXCEPT ![c.id].running = FALSE]
  BY <1>2 DEF SubmitFailed
<1>4. \A j \in Ids : /\ st'[j].run = ClearSubmitting(c.idx)[j].run
                     /\ st'[j].pollBusy = ClearSubmitting(c.idx)[j].pollBusy
  BY <1>1, <1>2, <1>3 DEF Slots, Slot
<1>5. Agree(st, ClearSubmitting(c.idx), pos)
  BY ClearFacts, TypeShape DEF SteadyInv, LifeInv
<1>6. \A j \in Ids : st'[j].run = st[j].run /\ st'[j].pollBusy = st[j].pollBusy
  BY <1>4, <1>5 DEF Agree, Alike, SameRuns
<1>7. PICK p \in Phases :
        /\ p = "lost" \/ (Lose /\ p = runs[c.id][c.run].phase)
        /\ runs' = End([runs EXCEPT ![c.id][c.run].phase = p], c.id, c.run, "rejected")
  BY DEF SubmitFailed
<1>8. losses' = 0 => p = "lost" BY <1>t, <1>7 DEF Lose
<1> QED BY <1>1, <1>6, <1>7, <1>8 DEF SubmitFailed

\* ... and one that is accepted is tracked by its slot, which tracked nothing.
LEMMA AcceptedFacts ==
  ASSUME SteadyInv, NEW c \in subs, SubmitAccepted(c)
  PROVE  /\ c.id \in Ids /\ Open(runs, c.id, c.run) /\ c.run # 0 /\ st[c.id].run = 0
         /\ st'[c.id].run = c.run
         /\ \A j \in Ids : j # c.id => st'[j].run = st[j].run
         /\ \A j \in Ids : st'[j].pollBusy = st[j].pollBusy
         /\ UNCHANGED <<polls, pos, up, boots, runs, count>>
         /\ subs' = subs \ {c}
<1>t. subs \subseteq Calls /\ runs \in Ledgers BY TypeShape DEF SteadyInv, LifeInv
<1>1. c.id \in Ids /\ Open(runs, c.id, c.run) /\ c.run # 0 /\ st[c.id].run = 0
  BY <1>t DEF SteadyInv, LifeInv, OwnerInv, Owned, CallsOK, Calls
<1>2. Valid(c) /\ ClearSubmitting(c.idx) \in Slots
  BY ClearsOne DEF SteadyInv
<1>3. st' = [ClearSubmitting(c.idx) EXCEPT ![c.id].run = c.run]
  BY <1>2 DEF SubmitAccepted
<1>4. /\ st'[c.id].run = c.run
      /\ \A j \in Ids : j # c.id => st'[j].run = ClearSubmitting(c.idx)[j].run
      /\ \A j \in Ids : st'[j].pollBusy = ClearSubmitting(c.idx)[j].pollBusy
  BY <1>1, <1>2, <1>3 DEF Slots, Slot
<1>5. Agree(st, ClearSubmitting(c.idx), pos)
  BY ClearFacts, TypeShape DEF SteadyInv, LifeInv
<1> QED BY <1>1, <1>2, <1>4, <1>5 DEF Agree, Alike, SameRuns, SubmitAccepted

\* A stop that is answered takes the run from its slot.
LEMMA StoppedFacts ==
  ASSUME SteadyInv, Stopping
  PROVE  \E i \in Ids :
           /\ st[i].run # 0 /\ Open(runs, i, st[i].run)
           /\ Freed(st, st', i)
           /\ runs' = End(runs, i, st[i].run, "stopped")
           /\ count' = Dec(count) /\ UNCHANGED <<subs, polls, pos, up, boots>>
<1>t. st \in Slots /\ stops \subseteq Calls BY TypeShape DEF SteadyInv, LifeInv
<1>1. PICK c \in stops :
        /\ Concerns(c)
        /\ st' = [st EXCEPT ![c.id].run = 0, ![c.id].running = FALSE]
        /\ runs' = End(runs, c.id, st[c.id].run, "stopped")
        /\ count' = Dec(count) /\ UNCHANGED <<subs, polls, pos, up, boots>>
  BY DEF Stopping
<1>2. c.id \in Ids /\ st[c.id].run # 0 BY <1>t, <1>1 DEF Calls, Concerns
<1>3. Open(runs, c.id, st[c.id].run) BY <1>2 DEF SteadyInv, OwnerInv, Owned
<1>4. Freed(st, st', c.id) BY <1>t, <1>1, <1>2 DEF Freed, Slots, Slot
<1> QED BY <1>1, <1>2, <1>3, <1>4

\* A verdict does so too, and may start the next run.
LEMMA VerdictFacts ==
  ASSUME SteadyInv, Completing
  PROVE  \E c \in polls, slots \in Slots, mid \in Slots, outcome \in Outcomes :
           /\ polls' = polls \ {c} /\ Told(c, outcome)
           /\ c.id \in Ids /\ st[c.id].run # 0 /\ Open(runs, c.id, st[c.id].run)
           /\ \A j \in Ids : slots[j].run = st[j].run
           /\ \A j \in Ids : j # c.id => slots[j].pollBusy = st[j].pollBusy
           /\ Freed(slots, mid, c.id)
           /\ Ran(mid, End(runs, c.id, st[c.id].run, outcome), Dec(count), pos)
           /\ UNCHANGED <<pos, up, boots>>
<1>t. polls \subseteq Calls BY TypeShape DEF SteadyInv, LifeInv
<1>1. PICK c \in polls, slots \in Slots, outcome \in Outcomes, nobase \in BOOLEAN :
        /\ polls' = polls \ {c} /\ Concerns(c) /\ Told(c, outcome)
        /\ Alike(st, slots, pos)
        /\ \A j \in Ids : j # c.id => slots[j].pollBusy = st[j].pollBusy
        /\ OnJobCompleted(slots, runs, c, outcome, nobase)
        /\ UNCHANGED <<pos, up, boots>>
  BY DEF Completing
<1>2. c \in Calls /\ c.id \in Ids /\ Valid(c) /\ st[c.id].run # 0
  BY <1>t, <1>1 DEF Calls, Concerns
<1>3. \A j \in Ids : slots[j].run = st[j].run BY <1>1 DEF Alike, SameRuns
<1>4. Open(runs, c.id, st[c.id].run) BY <1>2 DEF SteadyInv, OwnerInv, Owned
<1>5. slots[c.id].run \in DOMAIN runs[c.id] BY <1>2, <1>3, <1>4 DEF Open
<1>6. TypeOK BY DEF SteadyInv, LifeInv
<1>7. PICK mid \in Slots :
        /\ Freed(slots, mid, c.id)
        /\ Ran(mid, End(runs, c.id, slots[c.id].run, outcome), Dec(count), pos)
  BY <1>1, <1>2, <1>5, <1>6, CompletedRan
<1>8. Ran(mid, End(runs, c.id, st[c.id].run, outcome), Dec(count), pos)
  BY <1>2, <1>3, <1>7
<1> QED BY <1>1, <1>2, <1>3, <1>4, <1>7, <1>8

-----------------------------------------------------------------------------
(* The counter is exact *)

Exact(n, S, slots) ==
  IsFiniteSet(S) /\ n = Cardinality(S) + Cardinality(TrackedIn(slots))

\* Paying for a start request or for a tracked run keeps the counter exact.
LEMMA DecExact ==
  ASSUME NEW n \in Nat, NEW S, NEW slots, Exact(n, S, slots),
         NEW T, NEW slotsB,
         \/ (\E x \in S : T = S \ {x}) /\ TrackedIn(slotsB) = TrackedIn(slots)
         \/ T = S /\ \E x \in TrackedIn(slots) : TrackedIn(slotsB) = TrackedIn(slots) \ {x}
  PROVE  Exact(Dec(n), T, slotsB)
<1>1. IsFiniteSet(S) /\ Cardinality(S) \in Nat
  BY FS_CardinalityType DEF Exact
<1>2. Cardinality(TrackedIn(slots)) \in Nat /\ IsFiniteSet(TrackedIn(slots))
  BY TrackedFinite
<1>3. CASE (\E x \in S : T = S \ {x}) /\ TrackedIn(slotsB) = TrackedIn(slots)
  <2>1. IsFiniteSet(T) /\ Cardinality(T) = Cardinality(S) - 1
    BY <1>1, <1>3, FS_RemoveElement
  <2>2. Cardinality(T) \in Nat BY <2>1, FS_CardinalityType
  <2> QED BY <1>1, <1>2, <1>3, <2>1, <2>2 DEF Exact, Dec
<1>4. CASE T = S /\ \E x \in TrackedIn(slots) : TrackedIn(slotsB) = TrackedIn(slots) \ {x}
  <2>1. Cardinality(TrackedIn(slotsB)) = Cardinality(TrackedIn(slots)) - 1
    BY <1>2, <1>4, FS_RemoveElement
  <2>2. Cardinality(TrackedIn(slotsB)) \in Nat BY TrackedFinite
  <2> QED BY <1>1, <1>2, <1>4, <2>1, <2>2 DEF Exact, Dec
<1> QED BY <1>3, <1>4

\* The request of a run that is begun is a new one.
LEMMA RanExact ==
  ASSUME NEW slots \in Slots, NEW L, NEW n \in Nat, NEW P, Exact(n, subs, slots),
         \A c \in subs : c.run \in DOMAIN L[c.id], \A j \in Ids : L[j] \in Seq(Run),
         Ran(slots, L, n, P)
  PROVE  Exact(count', subs', st')
<1>1. CASE Skipped(slots, L, n) BY <1>1 DEF Skipped
<1>2. ASSUME NEW d \in Ids, NEW trig \in Triggers, Begun(slots, L, n, P, d, trig)
      PROVE  Exact(count', subs', st')
  <2> DEFINE x == Call(P[d], d, Len(L[d]) + 1)
             s == [slots[d] EXCEPT !.submitting = TRUE, !.running = TRUE, !.resync = FALSE]
  <2>1. st' = [slots EXCEPT ![d] = s] /\ subs' = subs \cup {x} /\ count' = n + 1
    BY <1>2 DEF Begun
  <2>2. x.id = d /\ x.run = Len(L[d]) + 1 BY DEF Call
  <2>3. Len(L[d]) + 1 \notin DOMAIN L[d]
    <3>1. L[d] \in Seq(Run) OBVIOUS
    <3> QED BY <3>1
  <2>4. s.run = slots[d].run BY DEF Slots, Slot
  <2> HIDE DEF x, s
  <2>5. x \notin subs BY <2>2, <2>3
  <2>6. \A j \in Ids : slots[j].run = st'[j].run BY <2>1, <2>4 DEF Slots
  <2>7. TrackedIn(st') = TrackedIn(slots) BY <2>6, TrackedSame
  <2>8. IsFiniteSet(subs) /\ Cardinality(subs) \in Nat BY FS_CardinalityType DEF Exact
  <2>9. IsFiniteSet(subs') /\ Cardinality(subs') = Cardinality(subs) + 1
    BY <2>1, <2>5, <2>8, FS_AddElement
  <2>10. Cardinality(TrackedIn(slots)) \in Nat BY TrackedFinite
  <2> QED BY <2>1, <2>7, <2>8, <2>9, <2>10 DEF Exact
<1> QED BY <1>1, <1>2 DEF Ran

\* Every step pays for what it takes.
LEMMA NextExact ==
  ASSUME SteadyInv, Exact(count, subs, st), [Next]_vars, Deletable = {}
  PROVE  Exact(count', subs', st')
<1>t. /\ TypeOK /\ count \in Nat /\ runs \in Ledgers /\ st \in Slots /\ subs \subseteq Calls
      /\ Dec(count) \in Nat
  BY TypeShape DEF SteadyInv, LifeInv, Dec
<1>o. \A c \in subs : c.id \in Ids /\ c.run \in DOMAIN runs[c.id]
  BY <1>t DEF SteadyInv, OwnerInv, Owned, Open, Calls
<1>q. \A j \in Ids : runs[j] \in Seq(Run) BY <1>t DEF Ledgers
<1>s. ASSUME count' = count, subs' = subs, \A j \in Ids : st'[j].run = st[j].run
      PROVE  Exact(count', subs', st')
  <2>1. TrackedIn(st') = TrackedIn(st) BY <1>s, TrackedSame
  <2> QED BY <1>s, <2>1 DEF Exact
<1>l. ASSUME NEW P, Launch(P) PROVE Exact(count', subs', st')
  <2>1. PICK slots \in Slots : Agree(st, slots, pos) /\ Ran(slots, runs, count, P)
    BY <1>t, <1>l, LaunchRan
  <2>2. \A j \in Ids : st[j].run = slots[j].run BY <2>1 DEF Agree, Alike, SameRuns
  <2>3. TrackedIn(st) = TrackedIn(slots) BY <2>2, TrackedSame
  <2>4. Exact(count, subs, slots) BY <2>3 DEF Exact
  <2> QED BY <1>t, <1>o, <1>q, <2>1, <2>4, RanExact
<1>f. ASSUME NEW a, NEW b, NEW i \in Ids, \A j \in Ids : a[j].run = st[j].run,
             st[i].run # 0, Freed(a, b, i)
      PROVE  Exact(Dec(count), subs, b)
  <2>1. \A j \in Ids : b[j].run = IF j = i THEN 0 ELSE st[j].run BY <1>f DEF Freed
  <2>2. TrackedIn(b) = TrackedIn(st) \ {i} /\ i \in TrackedIn(st)
    BY <1>f, <2>1 DEF TrackedIn
  <2> QED BY <1>t, <2>2, DecExact
<1>1. CASE Quiet BY <1>1, <1>s DEF Quiet, Agree, Alike, SameRuns
<1>2. CASE Asking
  <2>1. \A j \in Ids : st'[j].run = st[j].run BY <1>2, <1>t DEF Asking, Slots, Slot
  <2> QED BY <1>2, <1>s, <2>1 DEF Asking
<1>3. CASE Replying BY <1>3, <1>s DEF Replying, Alike, SameRuns
<1>4. CASE Starting BY <1>4, <1>l DEF Starting
<1>5. CASE Adding BY <1>5, <1>l DEF Adding
<1>6. CASE Booting BY <1>6, <1>l DEF Booting
<1>7. CASE Completing
  <2>1. PICK c \in polls, slots \in Slots, mid \in Slots, outcome \in Outcomes :
          /\ c.id \in Ids /\ st[c.id].run # 0 /\ Open(runs, c.id, st[c.id].run)
          /\ \A j \in Ids : slots[j].run = st[j].run
          /\ Freed(slots, mid, c.id)
          /\ Ran(mid, End(runs, c.id, st[c.id].run, outcome), Dec(count), pos)
    BY <1>7, VerdictFacts
  <2> DEFINE L == End(runs, c.id, st[c.id].run, outcome)
  <2>2. Exact(Dec(count), subs, mid) BY <1>f, <2>1
  <2>3. st[c.id].run \in DOMAIN runs[c.id] BY <2>1 DEF Open
  <2>4. L \in Ledgers /\ \A j \in Ids : DOMAIN L[j] = DOMAIN runs[j]
    BY <1>t, <2>1, <2>3, EndInLedgers, EndFacts
  <2>5. Ran(mid, L, Dec(count), pos) BY <2>1
  <2> HIDE DEF L
  <2>6. (\A d \in subs : d.run \in DOMAIN L[d.id]) /\ \A j \in Ids : L[j] \in Seq(Run)
    BY <1>o, <2>4 DEF Ledgers
  <2> QED BY <1>t, <2>2, <2>5, <2>6, RanExact
<1>8. CASE Stopping
  <2>1. PICK i \in Ids : /\ st[i].run # 0 /\ Freed(st, st', i)
                         /\ count' = Dec(count) /\ subs' = subs
    BY <1>8, StoppedFacts
  <2>2. Exact(Dec(count), subs, st') BY <1>f, <2>1
  <2> QED BY <2>1, <2>2
<1>9. CASE RcdMoves BY <1>9, <1>s DEF RcdMoves
<1>10. CASE Ending
  <2>1. subs' = {} /\ count' = 0 /\ \A j \in Ids : st'[j] = EmptySlot
    BY <1>10, <1>t, DownFacts
  <2>2. TrackedIn(st') = {} BY <2>1 DEF TrackedIn, EmptySlot
  <2> QED BY <2>1, <2>2, FS_EmptySet DEF Exact
<1>11. ASSUME NEW c \in subs, SubmitFailed(c) PROVE Exact(count', subs', st')
  <2>1. /\ \A j \in Ids : st'[j].run = st[j].run
        /\ subs' = subs \ {c} /\ count' = Dec(count)
    BY <1>11, FailedFacts
  <2>2. TrackedIn(st') = TrackedIn(st) BY <2>1, TrackedSame
  <2>3. Exact(Dec(count), subs \ {c}, st') BY <1>t, <2>2, DecExact
  <2> QED BY <2>1, <2>3
<1>12. ASSUME NEW c \in subs, SubmitAccepted(c) PROVE Exact(count', subs', st')
  <2>1. /\ c.id \in Ids /\ c.run # 0 /\ st[c.id].run = 0 /\ st'[c.id].run = c.run
        /\ \A j \in Ids : j # c.id => st'[j].run = st[j].run
        /\ subs' = subs \ {c} /\ count' = count
    BY <1>12, AcceptedFacts
  <2>2. TrackedIn(st') = TrackedIn(st) \cup {c.id} /\ c.id \notin TrackedIn(st)
    BY <2>1 DEF TrackedIn
  <2>3. IsFiniteSet(TrackedIn(st)) /\ Cardinality(TrackedIn(st)) \in Nat BY TrackedFinite
  <2>4. Cardinality(TrackedIn(st')) = Cardinality(TrackedIn(st)) + 1
    BY <2>2, <2>3, FS_AddElement
  <2>5. IsFiniteSet(subs) /\ Cardinality(subs) \in Nat BY FS_CardinalityType DEF Exact
  <2>6. IsFiniteSet(subs') /\ Cardinality(subs') = Cardinality(subs) - 1
    BY <2>1, <2>5, FS_RemoveElement
  <2> QED BY <1>t, <2>1, <2>3, <2>4, <2>5, <2>6 DEF Exact
<1>13. ~ \E j \in Ids : DeleteJob(j) BY DEF DeleteJob
<1> QED BY <1>t, <1>1, <1>2, <1>3, <1>4, <1>5, <1>6, <1>7, <1>8, <1>9, <1>10, <1>11, <1>12,
           <1>13, EveryStep DEF StepKind

\* While no job is deleted, the submission, retry, resync, stop and verdict
\* paths pay every increment of on_run_job back exactly once, for any number of
\* jobs, edits, restarts and lost answers: the tray spinner neither stops early
\* nor goes on after the last run.
THEOREM CounterIsExact ==
  ASSUME Deletable = {}
  PROVE  Spec => []CountExact
<1>1. Init => Exact(count, subs, st)
  <2> SUFFICES ASSUME Init PROVE Exact(count, subs, st)
    OBVIOUS
  <2>1. TrackedIn(st) = {} BY DEF Init, TrackedIn, EmptySlot
  <2>2. count = 0 /\ subs = {} BY DEF Init
  <2> QED BY <2>1, <2>2, FS_EmptySet DEF Exact
<1>2. SteadyInv /\ Exact(count, subs, st) /\ [Next]_vars => Exact(count, subs, st)'
  BY NextExact
<1>3. Exact(count, subs, st) => CountExact BY DEF Exact, CountExact, Tracked, TrackedIn
<1> QED BY <1>1, <1>2, <1>3, SteadyAlways, PTL DEF Spec

-----------------------------------------------------------------------------
(* No run is forgotten *)

\* Every open run is tracked by its slot or awaited by a start request.
Kept(slots, L, S) ==
  \A j \in Ids : \A k \in DOMAIN L[j] :
    Open(L, j, k) => slots[j].run = k \/ \E c \in S : c.id = j /\ c.run = k

\* Ending a run closes that one and opens none.
LEMMA EndOpens ==
  ASSUME NEW L \in Ledgers, NEW x \in Ids, NEW r, Open(L, x, r), NEW o \in Outcomes,
         NEW j \in Ids, NEW k, Open(End(L, x, r, o), j, k)
  PROVE  Open(L, j, k) /\ ~(j = x /\ k = r)
<1> DEFINE M == End(L, x, r, o)
<1>1. r \in DOMAIN L[x] /\ L[x][r].ends = <<>> BY DEF Open
<1>2. /\ DOMAIN M[j] = DOMAIN L[j]
      /\ j # x => M[j] = L[j]
      /\ \A i \in DOMAIN L[x] : i # r => M[x][i] = L[x][i]
      /\ M[x][r].ends = Append(L[x][r].ends, o)
  BY <1>1, EndFacts
<1>3. Append(<<>>, o) # <<>> OBVIOUS
<1>4. k \in DOMAIN M[j] /\ M[j][k].ends = <<>> BY DEF Open
<1> HIDE DEF M
<1> QED BY <1>1, <1>2, <1>3, <1>4 DEF Open

\* on_run_job opens the run it asks rcd for, at most.
LEMMA BegunOpens ==
  ASSUME NEW slots, NEW L \in Ledgers, NEW n, NEW P, NEW d \in Ids, NEW trig,
         Begun(slots, L, n, P, d, trig), NEW j \in Ids, NEW k, Open(runs', j, k)
  PROVE  Open(L, j, k) \/ (j = d /\ k = Len(L[d]) + 1)
<1> DEFINE e == NewRun(trig, slots[d].resync)
<1>1. runs' = [L EXCEPT ![d] = Append(L[d], e)] /\ e \in Run BY DEF Begun
<1>2. L[d] \in Seq(Run) BY DEF Ledgers
<1> HIDE DEF e
<1>3. /\ DOMAIN runs'[d] = DOMAIN L[d] \cup {Len(L[d]) + 1}
      /\ \A i \in DOMAIN L[d] : runs'[d][i] = L[d][i]
      /\ \A i \in Ids : i # d => runs'[i] = L[i]
  BY <1>1, <1>2, AppendFacts DEF Ledgers
<1> QED BY <1>3 DEF Open

\* The slots on which on_run_job leaves track what they did.
LEMMA RanRuns ==
  ASSUME NEW slots \in Slots, NEW L, NEW n, NEW P, Ran(slots, L, n, P)
  PROVE  /\ subs \subseteq subs'
         /\ \A j \in Ids : st'[j].run = slots[j].run /\ st'[j].pollBusy = slots[j].pollBusy
<1>1. CASE Skipped(slots, L, n) BY <1>1 DEF Skipped
<1>2. ASSUME NEW d \in Ids, NEW trig, Begun(slots, L, n, P, d, trig)
      PROVE  /\ subs \subseteq subs'
             /\ \A j \in Ids : st'[j].run = slots[j].run /\ st'[j].pollBusy = slots[j].pollBusy
  BY <1>2 DEF Begun, Slots, Slot
<1> QED BY <1>1, <1>2 DEF Ran

LEMMA RanKept ==
  ASSUME NEW slots \in Slots, NEW L \in Ledgers, NEW n, NEW P, Kept(slots, L, subs),
         Ran(slots, L, n, P)
  PROVE  Kept(st', runs', subs')
<1>r. /\ subs \subseteq subs'
      /\ \A j \in Ids : st'[j].run = slots[j].run
  BY RanRuns
<1>1. CASE Skipped(slots, L, n) BY <1>1 DEF Skipped
<1>2. ASSUME NEW d \in Ids, NEW trig, Begun(slots, L, n, P, d, trig)
      PROVE  Kept(st', runs', subs')
  <2>1. Call(P[d], d, Len(L[d]) + 1) \in subs' BY <1>2 DEF Begun
  <2>2. \E c \in subs' : c.id = d /\ c.run = Len(L[d]) + 1 BY <2>1 DEF Call
  <2>3. \A j \in Ids : \A k : Open(runs', j, k) => Open(L, j, k) \/ (j = d /\ k = Len(L[d]) + 1)
    BY <1>2, BegunOpens
  <2>4. \A j \in Ids : \A k : Open(L, j, k) => k \in DOMAIN L[j] BY DEF Open
  <2> QED BY <1>r, <2>2, <2>3, <2>4 DEF Kept
<1> QED BY <1>1, <1>2 DEF Ran

\* Freeing a slot together with the end of its run forgets none.
LEMMA FreedKept ==
  ASSUME NEW slots, NEW L \in Ledgers, NEW S, Kept(slots, L, S), NEW i \in Ids,
         Open(L, i, slots[i].run), NEW o \in Outcomes, NEW mid, Freed(slots, mid, i)
  PROVE  Kept(mid, End(L, i, slots[i].run, o), S)
<1> DEFINE M == End(L, i, slots[i].run, o)
<1>1. \A j \in Ids : \A k : Open(M, j, k) => Open(L, j, k) /\ ~(j = i /\ k = slots[i].run)
  BY EndOpens
<1> HIDE DEF M
<1>2. \A j \in Ids : \A k : Open(L, j, k) => k \in DOMAIN L[j] BY DEF Open
<1>3. Kept(mid, M, S) BY <1>1, <1>2 DEF Kept, Freed
<1> QED BY <1>3 DEF M

\* No step forgets a run, until the daemon ends.
LEMMA NextKept ==
  ASSUME SteadyInv, Kept(st, runs, subs), [Next]_vars, Deletable = {}, up, up', boots' = boots
  PROVE  Kept(st', runs', subs')
<1>t. /\ TypeOK /\ runs \in Ledgers /\ st \in Slots /\ subs \subseteq Calls /\ boots \in Nat
  BY TypeShape DEF SteadyInv, LifeInv
<1>s. ASSUME runs' = runs, subs' = subs, \A j \in Ids : st'[j].run = st[j].run
      PROVE  Kept(st', runs', subs')
  BY <1>s DEF Kept, Open
<1>l. ASSUME NEW P, Launch(P) PROVE Kept(st', runs', subs')
  <2>1. PICK slots \in Slots : Agree(st, slots, pos) /\ Ran(slots, runs, count, P)
    BY <1>t, <1>l, LaunchRan
  <2>2. \A j \in Ids : st[j].run = slots[j].run BY <2>1 DEF Agree, Alike, SameRuns
  <2>3. Kept(slots, runs, subs) BY <2>2 DEF Kept
  <2> QED BY <1>t, <2>1, <2>3, RanKept
<1>1. CASE Quiet BY <1>1, <1>s DEF Quiet, Agree, Alike, SameRuns
<1>2. CASE Asking
  <2>1. \A j \in Ids : st'[j].run = st[j].run BY <1>2, <1>t DEF Asking, Slots, Slot
  <2> QED BY <1>2, <1>s, <2>1 DEF Asking
<1>3. CASE Replying BY <1>3, <1>s DEF Replying, Alike, SameRuns
<1>4. CASE Starting BY <1>4, <1>l DEF Starting
<1>5. CASE Adding BY <1>5, <1>l DEF Adding
<1>6. CASE Booting BY <1>6 DEF Booting
<1>7. CASE Completing
  <2>1. PICK c \in polls, slots \in Slots, mid \in Slots, outcome \in Outcomes :
          /\ c.id \in Ids /\ st[c.id].run # 0 /\ Open(runs, c.id, st[c.id].run)
          /\ \A j \in Ids : slots[j].run = st[j].run
          /\ Freed(slots, mid, c.id)
          /\ Ran(mid, End(runs, c.id, st[c.id].run, outcome), Dec(count), pos)
    BY <1>7, VerdictFacts
  <2> DEFINE L == End(runs, c.id, st[c.id].run, outcome)
  <2>2. Kept(slots, runs, subs) BY <2>1 DEF Kept
  <2>3. L = End(runs, c.id, slots[c.id].run, outcome) BY <2>1
  <2>4. Kept(mid, L, subs) BY <1>t, <2>1, <2>2, <2>3, FreedKept
  <2>5. st[c.id].run \in DOMAIN runs[c.id] BY <2>1 DEF Open
  <2>6. L \in Ledgers BY <1>t, <2>1, <2>5, EndInLedgers
  <2>7. Ran(mid, L, Dec(count), pos) BY <2>1
  <2> HIDE DEF L
  <2> QED BY <2>4, <2>6, <2>7, RanKept
<1>8. CASE Stopping
  <2>1. PICK i \in Ids : /\ Open(runs, i, st[i].run) /\ Freed(st, st', i)
                         /\ runs' = End(runs, i, st[i].run, "stopped") /\ subs' = subs
    BY <1>8, StoppedFacts
  <2>2. Kept(st', End(runs, i, st[i].run, "stopped"), subs)
    BY <1>t, <2>1, FreedKept DEF Outcomes
  <2> QED BY <2>1, <2>2
<1>9. CASE RcdMoves
  <2>1. PICK x \in Ids, p \in Phases : \E r \in DOMAIN runs[x] :
          /\ runs' = [runs EXCEPT ![x][r].phase = p]
          /\ UNCHANGED <<st, subs>>
    BY <1>9 DEF RcdMoves
  <2>2. PICK r \in DOMAIN runs[x] : runs' = [runs EXCEPT ![x][r].phase = p]
    BY <2>1
  <2>3. \A j \in Ids : \A k : Open(runs', j, k) => Open(runs, j, k) /\ k \in DOMAIN runs[j]
    BY <1>t, <2>2, PhaseFacts DEF Open
  <2> QED BY <2>1, <2>3 DEF Kept
<1>10. CASE Ending BY <1>10, <1>t, DownFacts
<1>11. ASSUME NEW c \in subs, SubmitFailed(c) PROVE Kept(st', runs', subs')
  <2>1. /\ c.id \in Ids /\ Open(runs, c.id, c.run) /\ c.run \in DOMAIN runs[c.id]
        /\ \A j \in Ids : st'[j].run = st[j].run
        /\ subs' = subs \ {c}
    BY <1>11, FailedFacts
  <2>2. PICK p \in Phases : runs' = End([runs EXCEPT ![c.id][c.run].phase = p], c.id, c.run, "rejected")
    BY <1>11, FailedFacts
  <2> DEFINE M == [runs EXCEPT ![c.id][c.run].phase = p]
  <2>3. M \in Ledgers BY <1>t, <2>1, PhaseInLedgers
  <2>4. \A j \in Ids : \A k : Open(M, j, k) <=> Open(runs, j, k)
    BY <1>t, <2>1, PhaseFacts DEF Open
  <2>5. runs' = End(M, c.id, c.run, "rejected") BY <2>2
  <2> HIDE DEF M
  <2>6. Open(M, c.id, c.run) BY <2>1, <2>4
  <2>7. \A j \in Ids : \A k : Open(runs', j, k) => Open(M, j, k) /\ ~(j = c.id /\ k = c.run)
    BY <2>1, <2>3, <2>5, <2>6, EndOpens DEF Outcomes
  <2>8. \A j \in Ids : \A k : Open(runs, j, k) => k \in DOMAIN runs[j] BY DEF Open
  <2> QED BY <2>1, <2>4, <2>7, <2>8 DEF Kept
<1>12. ASSUME NEW c \in subs, SubmitAccepted(c) PROVE Kept(st', runs', subs')
  <2>1. /\ c.id \in Ids /\ st[c.id].run = 0 /\ st'[c.id].run = c.run
        /\ \A j \in Ids : j # c.id => st'[j].run = st[j].run
        /\ subs' = subs \ {c} /\ runs' = runs
    BY <1>12, AcceptedFacts
  <2>2. \A j \in Ids : \A k \in DOMAIN runs[j] : k # 0 BY <1>t DEF Ledgers
  <2> QED BY <2>1, <2>2 DEF Kept, Open
<1>13. ~ \E j \in Ids : DeleteJob(j) BY DEF DeleteJob
<1> QED BY <1>t, <1>1, <1>2, <1>3, <1>4, <1>5, <1>6, <1>7, <1>8, <1>9, <1>10, <1>11, <1>12,
           <1>13, EveryStep DEF StepKind

\* Only a start of the daemon brings it up.
LEMMA UpAfterBoot ==
  ASSUME TypeOK, [Next]_vars, up', ~up
  PROVE  boots' = boots + 1
<1>1. CASE Booting BY <1>1 DEF Booting
<1>2. CASE Ending BY <1>2, DownFacts, TypeShape
<1> QED BY <1>1, <1>2, EveryStep DEF StepKind, Quiet, Asking, Replying, Starting, Adding, Completing,
           Stopping, RcdMoves, DeleteJob, SubmitFailed, SubmitAccepted

\* The first life of the daemon forgets no run.
KeptInv == SteadyInv /\ (boots = 0 /\ up => Kept(st, runs, subs))

LEMMA KeptAlways ==
  ASSUME Deletable = {}
  PROVE  Spec => []KeptInv
<1>1. Init => Kept(st, runs, subs) BY DEF Init, Kept
<1>2. SteadyInv /\ (boots = 0 /\ up => Kept(st, runs, subs)) /\ [Next]_vars
        => (boots = 0 /\ up => Kept(st, runs, subs))'
  <2> SUFFICES ASSUME SteadyInv, boots = 0 /\ up => Kept(st, runs, subs), [Next]_vars,
                      boots' = 0, up'
               PROVE  Kept(st', runs', subs')
    OBVIOUS
  <2>0. TypeOK /\ boots \in Nat BY DEF SteadyInv, LifeInv, TypeOK
  <2>1. boots' = boots BY <2>0, BootsGrow
  <2>2. up BY <2>0, <2>1, UpAfterBoot
  <2> QED BY <2>1, <2>2, NextKept
<1> QED BY <1>1, <1>2, SteadyAlways, PTL DEF Spec, KeptInv

\* While no job is deleted, a run that rcd executes and the daemon has not ended
\* is always tracked by the job's slot or awaited by its start request: a second
\* submission never overwrites job_id, whatever the interleaving of triggers,
\* edits, retries, resyncs and lost answers.
THEOREM NoRunIsForgotten ==
  ASSUME Deletable = {}
  PROVE  Spec => []NoRunForgotten
<1>1. KeptInv => NoRunForgotten BY DEF KeptInv, Kept, Open, NoRunForgotten
<1> QED BY <1>1, KeptAlways, PTL

-----------------------------------------------------------------------------
(* What is recorded of a run is true *)

\* No run of the job ended by a stop.
Unbroken(L, j) == \A k \in DOMAIN L[j] : L[j][k].ends # <<"stopped">>

\* A status request is about the run its slot tracks, and there is one at most:
\* only a stop frees the slot under a request.
Asked(slots, L, Q) ==
  \A j \in Ids : Unbroken(L, j) =>
    /\ \A c \in Q : c.id = j => /\ slots[j].run = c.run /\ slots[j].run # 0
                                /\ slots[j].pollBusy
    /\ \A c, d \in Q : c.id = j /\ d.id = j => c = d

\* What a verdict says of a run in this phase is true of it.  Without a loss, the
\* run is over when it is said.
Fits(outcome, phase, n) ==
  /\ outcome = "ok" => phase \in {"ok", "lost"}
  /\ outcome = "failed" => phase \in {"err", "nobase", "lost"}
  /\ n = 0 => phase \notin Live

Just(r, n) == \A o \in Outcomes : r.ends = <<o>> => Fits(o, r.phase, n)
Sound(L, n) == \A j \in Ids : Unbroken(L, j) => \A k \in DOMAIN L[j] : Just(L[j][k], n)

\* A recorded verdict stays the right one: an answer that is lost stays lost, and a
\* run that has finished changes no more, except that rcd forgets it.
LEMMA JustMoves ==
  ASSUME NEW r \in Run, NEW s \in Run, NEW n, NEW m, Just(r, n), s.ends = r.ends,
         s.phase = r.phase \/ s.phase = "lost" \/ Progress(r.phase, s.phase),
         m = 0 => n = 0
  PROVE  Just(s, m)
BY DEF Just, Fits, Progress, Live, Finished, Phases, Run

LEMMA SoundMoves ==
  ASSUME NEW L \in Ledgers, NEW M \in Ledgers, NEW n, NEW m, Sound(L, n), m = 0 => n = 0,
         \A j \in Ids : DOMAIN M[j] = DOMAIN L[j],
         \A j \in Ids : \A k \in DOMAIN L[j] :
           /\ M[j][k].ends = L[j][k].ends
           /\ \/ M[j][k].phase = L[j][k].phase \/ M[j][k].phase = "lost"
              \/ Progress(L[j][k].phase, M[j][k].phase)
  PROVE  Sound(M, m)
<1> SUFFICES ASSUME NEW j \in Ids, Unbroken(M, j), NEW k \in DOMAIN M[j]
             PROVE  Just(M[j][k], m)
  BY DEF Sound
<1>1. k \in DOMAIN L[j] /\ L[j][k] \in Run /\ M[j][k] \in Run BY DEF Ledgers
<1>2. Unbroken(L, j) BY DEF Unbroken
<1>3. Just(L[j][k], n) BY <1>1, <1>2 DEF Sound
<1> QED BY <1>1, <1>3, JustMoves

\* Ending an open run with an outcome that fits it
LEMMA EndSound ==
  ASSUME NEW L \in Ledgers, NEW n, Sound(L, n), NEW m, m = 0 => n = 0,
         NEW x \in Ids, NEW r, Open(L, x, r), NEW o \in Outcomes,
         Unbroken(L, x) /\ o # "stopped" => Fits(o, L[x][r].phase, m)
  PROVE  /\ Sound(End(L, x, r, o), m)
         /\ \A j \in Ids : Unbroken(End(L, x, r, o), j) => Unbroken(L, j)
         /\ o = "stopped" => ~Unbroken(End(L, x, r, o), x)
<1> DEFINE M == End(L, x, r, o)
<1>1. r \in DOMAIN L[x] /\ L[x][r].ends = <<>> BY DEF Open
<1>2. /\ \A j \in Ids : DOMAIN M[j] = DOMAIN L[j]
      /\ \A j \in Ids : j # x => M[j] = L[j]
      /\ \A k \in DOMAIN L[x] : k # r => M[x][k] = L[x][k]
      /\ M[x][r].ends = Append(L[x][r].ends, o)
      /\ M[x][r].phase = L[x][r].phase
  BY <1>1, EndFacts
<1>3. M[x][r].ends = <<o>> BY <1>1, <1>2
<1>4. M \in Ledgers BY <1>1, EndInLedgers
<1>5. <<>> # <<"stopped">> OBVIOUS
<1> HIDE DEF M
<1>6. \A j \in Ids : Unbroken(M, j) => Unbroken(L, j)
  BY <1>1, <1>2, <1>5 DEF Unbroken
<1>7. o = "stopped" => ~Unbroken(M, x) BY <1>1, <1>2, <1>3 DEF Unbroken
<1>8. ASSUME NEW j \in Ids, Unbroken(M, j), NEW k \in DOMAIN M[j] PROVE Just(M[j][k], m)
  <2>1. Unbroken(L, j) /\ k \in DOMAIN L[j] BY <1>2, <1>6, <1>8
  <2>2. CASE j = x /\ k = r
    <3>1. o # "stopped" BY <1>7, <1>8, <2>2
    <3>2. Fits(o, M[x][r].phase, m) BY <1>2, <2>1, <2>2, <3>1
    <3>3. \A p \in Outcomes : <<o>> = <<p>> => p = o OBVIOUS
    <3> QED BY <1>3, <2>2, <3>2, <3>3 DEF Just
  <2>3. CASE ~(j = x /\ k = r)
    <3>1. M[j][k] = L[j][k] BY <1>2, <2>1, <2>3
    <3>2. L[j][k] \in Run /\ M[j][k] \in Run BY <1>4, <2>1, <1>8 DEF Ledgers
    <3>3. Just(L[j][k], n) BY <2>1 DEF Sound
    <3> QED BY <3>1, <3>2, <3>3, JustMoves
  <2> QED BY <2>2, <2>3
<1>9. Sound(M, m) BY <1>8 DEF Sound
<1> QED BY <1>6, <1>7, <1>9 DEF M

\* A run that begins has no verdict.
LEMMA RanSound ==
  ASSUME NEW slots \in Slots, NEW L \in Ledgers, NEW n, NEW P, Ran(slots, L, n, P),
         NEW m, Sound(L, m)
  PROVE  /\ Sound(runs', m)
         /\ \A j \in Ids : Unbroken(runs', j) => Unbroken(L, j)
<1>1. CASE Skipped(slots, L, n) BY <1>1 DEF Skipped
<1>2. ASSUME NEW d \in Ids, NEW trig, Begun(slots, L, n, P, d, trig)
      PROVE  /\ Sound(runs', m)
             /\ \A j \in Ids : Unbroken(runs', j) => Unbroken(L, j)
  <2> DEFINE e == NewRun(trig, slots[d].resync)
  <2>1. runs' = [L EXCEPT ![d] = Append(L[d], e)] /\ e \in Run BY <1>2 DEF Begun
  <2>2. L[d] \in Seq(Run) BY DEF Ledgers
  <2>3. e.ends = <<>> BY DEF NewRun
  <2> HIDE DEF e
  <2>4. /\ DOMAIN runs'[d] = DOMAIN L[d] \cup {Len(L[d]) + 1}
        /\ \A i \in DOMAIN L[d] : runs'[d][i] = L[d][i]
        /\ runs'[d][Len(L[d]) + 1] = e
        /\ \A i \in Ids : i # d => runs'[i] = L[i]
    BY <2>1, <2>2, AppendFacts DEF Ledgers
  <2>5. \A j \in Ids : Unbroken(runs', j) => Unbroken(L, j) BY <2>4 DEF Unbroken
  <2>6. \A o \in Outcomes : <<>> # <<o>> OBVIOUS
  <2>7. Just(e, m) BY <2>3, <2>6 DEF Just
  <2>8. ASSUME NEW j \in Ids, Unbroken(runs', j), NEW k \in DOMAIN runs'[j]
        PROVE  Just(runs'[j][k], m)
    <3>1. Unbroken(L, j) BY <2>5, <2>8
    <3>2. runs'[j][k] = e \/ (k \in DOMAIN L[j] /\ runs'[j][k] = L[j][k]) BY <2>4, <2>8
    <3> QED BY <2>7, <3>1, <3>2 DEF Sound
  <2> QED BY <2>5, <2>8 DEF Sound
<1> QED BY <1>1, <1>2 DEF Ran

\* Requests and slots that do not move keep the requests to their runs.
LEMMA AskedSame ==
  ASSUME NEW a, NEW b, NEW L, NEW M, NEW Q, NEW R \in SUBSET Q, Asked(a, L, Q),
         \A j \in Ids : Unbroken(M, j) => Unbroken(L, j),
         \A j \in Ids : Unbroken(M, j) =>
           \/ b[j].run = a[j].run /\ b[j].pollBusy = a[j].pollBusy
           \/ \A c \in R : c.id # j
  PROVE  Asked(b, M, R)
BY DEF Asked

\* What is lost stays lost.
LEMMA LossesGrow == ASSUME TypeOK, [Next]_vars PROVE losses' = 0 => losses = 0
<1> SUFFICES losses' = losses \/ losses' = losses + 1
  BY DEF TypeOK
<1>1. CASE User
  BY <1>1 DEF User, RunJob, StopJob, AddJob, UpdateJob, DeleteJob, WatchEvent
<1>2. ASSUME NEW t \in timers, SchedTimer(t) \/ RetryTimer(t) \/ WatchTimer(t) \/ PollTick(t)
      PROVE  losses' = losses
  BY <1>2 DEF SchedTimer, RetryTimer, WatchTimer, PollTick
<1>3. ASSUME NEW c \in idles, ResyncIdle(c) PROVE losses' = losses BY <1>3 DEF ResyncIdle
<1>4. ASSUME NEW c \in subs, SubmitFailed(c) \/ SubmitAccepted(c)
      PROVE  losses' = losses \/ losses' = losses + 1
  BY <1>4 DEF SubmitFailed, SubmitAccepted, Lose, NoLoss
<1>5. ASSUME NEW c \in polls, StatusIgnored(c) \/ StatusAnswered(c) \/ StatusMissed(c)
      PROVE  losses' = losses \/ losses' = losses + 1
  BY <1>5 DEF StatusIgnored, StatusAnswered, StatusMissed, Lose, NoLoss
<1>6. ASSUME NEW c \in stops, StopAnswered(c) PROVE losses' = losses \/ losses' = losses + 1
  BY <1>6 DEF StopAnswered, Lose, NoLoss
<1>7. CASE Rcd
  BY <1>7 DEF Rcd, RcdAccepts, RcdFinishes, RcdStops, RcdForgets, Lose, NoLoss
<1>8. CASE Lifecycle BY <1>8 DEF Lifecycle, Stop, Crash, GoDown, Boot
<1>9. CASE UNCHANGED vars BY <1>9 DEF vars
<1> QED BY <1>1, <1>2, <1>3, <1>4, <1>5, <1>6, <1>7, <1>8, <1>9 DEF Next, MainLoop

TruthInv == Asked(st, runs, polls) /\ Sound(runs, losses)

\* Every step keeps the requests to their runs and the verdicts true.
LEMMA NextTruth ==
  ASSUME SteadyInv, TruthInv, [Next]_vars, Deletable = {}
  PROVE  TruthInv'
<1>t. /\ TypeOK /\ runs \in Ledgers /\ st \in Slots /\ polls \subseteq Calls /\ losses \in Nat
      /\ subs \subseteq Calls
  BY TypeShape DEF SteadyInv, LifeInv
<1>n. losses' = 0 => losses = 0 BY <1>t, LossesGrow
<1>r. runs' \in Ledgers BY <1>t, NextType DEF TypeOK, Ledgers
<1>i. Asked(st, runs, polls) /\ Sound(runs, losses) BY DEF TruthInv
<1>m. ASSUME runs' = runs PROVE Sound(runs', losses')
  BY <1>t, <1>n, <1>i, <1>m, SoundMoves
<1>s. ASSUME runs' = runs, polls' = polls,
             \A j \in Ids : st'[j].run = st[j].run /\ st'[j].pollBusy = st[j].pollBusy
      PROVE  TruthInv'
  <2>1. Asked(st', runs, polls) BY <1>i, <1>s, AskedSame
  <2> QED BY <1>m, <1>s, <2>1 DEF TruthInv
<1>l. ASSUME NEW P, Launch(P), polls' = polls PROVE TruthInv'
  <2>1. PICK slots \in Slots : Agree(st, slots, pos) /\ Ran(slots, runs, count, P)
    BY <1>t, <1>l, LaunchRan
  <2>2. \A j \in Ids : st'[j].run = st[j].run /\ st'[j].pollBusy = st[j].pollBusy
    BY <2>1, RanRuns DEF Agree, Alike, SameRuns
  <2>3. Sound(runs, losses') BY <1>t, <1>n, <1>i, SoundMoves
  <2>4. Sound(runs', losses') /\ \A j \in Ids : Unbroken(runs', j) => Unbroken(runs, j)
    BY <1>t, <2>1, <2>3, RanSound
  <2>5. Asked(st', runs', polls) BY <1>i, <2>2, <2>4, AskedSame
  <2> QED BY <1>l, <2>4, <2>5 DEF TruthInv
<1>1. CASE Quiet
  BY <1>1, <1>s DEF Quiet, Agree, Alike, SameRuns
<1>2. CASE Asking
  <2>1. PICK j \in Ids : /\ st[j].run # 0 /\ ~st[j].pollBusy
                         /\ st' = [st EXCEPT ![j].pollBusy = TRUE]
                         /\ polls' = polls \cup {Call(pos[j], j, st[j].run)}
                         /\ runs' = runs
    BY <1>2 DEF Asking
  <2> DEFINE x == Call(pos[j], j, st[j].run)
  <2>2. x.id = j /\ x.run = st[j].run BY DEF Call
  <2>3. /\ \A i \in Ids : st'[i].run = st[i].run
        /\ \A i \in Ids : i # j => st'[i].pollBusy = st[i].pollBusy
        /\ st'[j].pollBusy
    BY <1>t, <2>1 DEF Slots, Slot
  <2>4. polls' = polls \cup {x} BY <2>1
  <2> HIDE DEF x
  <2>5. Unbroken(runs, j) => \A c \in polls : c.id # j BY <1>i, <2>1 DEF Asked
  <2>6. ASSUME NEW i \in Ids, Unbroken(runs, i)
        PROVE  /\ \A c \in polls' : c.id = i => /\ st'[i].run = c.run /\ st'[i].run # 0
                                                /\ st'[i].pollBusy
               /\ \A c, d \in polls' : c.id = i /\ d.id = i => c = d
    <3>1. CASE i = j BY <2>1, <2>2, <2>3, <2>4, <2>5, <2>6, <3>1
    <3>2. CASE i # j BY <1>i, <2>2, <2>3, <2>4, <2>6, <3>2 DEF Asked
    <3> QED BY <3>1, <3>2
  <2> QED BY <1>m, <2>1, <2>6 DEF TruthInv, Asked
<1>3. CASE Replying
  <2>1. PICK c \in polls : /\ polls' = polls \ {c} /\ runs' = runs
                           /\ \A j \in Ids : st'[j].run = st[j].run
                           /\ \A j \in Ids : j # c.id => st'[j].pollBusy = st[j].pollBusy
    BY <1>3 DEF Replying, Alike, SameRuns
  <2>2. c.id \in Ids /\ (Unbroken(runs, c.id) => \A d \in polls \ {c} : d.id # c.id)
    BY <1>t, <1>i DEF Asked, Calls
  <2>3. Asked(st', runs, polls \ {c}) BY <1>i, <2>1, <2>2, AskedSame
  <2> QED BY <1>m, <2>1, <2>3 DEF TruthInv
<1>4. CASE Starting BY <1>4, <1>l DEF Starting
<1>5. CASE Adding BY <1>5, <1>l DEF Adding
<1>6. CASE Booting BY <1>6, <1>l DEF Booting
<1>7. CASE Completing
  <2>1. PICK c \in polls, slots \in Slots, mid \in Slots, outcome \in Outcomes :
          /\ polls' = polls \ {c} /\ Told(c, outcome)
          /\ c.id \in Ids /\ st[c.id].run # 0 /\ Open(runs, c.id, st[c.id].run)
          /\ \A j \in Ids : slots[j].run = st[j].run
          /\ \A j \in Ids : j # c.id => slots[j].pollBusy = st[j].pollBusy
          /\ Freed(slots, mid, c.id)
          /\ Ran(mid, End(runs, c.id, st[c.id].run, outcome), Dec(count), pos)
    BY <1>7, VerdictFacts
  <2> DEFINE k == st[c.id].run
             L == End(runs, c.id, k, outcome)
  <2>2. Unbroken(runs, c.id) => /\ c.run = k
                                /\ \A d \in polls \ {c} : d.id # c.id
    BY <1>i, <2>1 DEF Asked
  <2>3. Unbroken(runs, c.id) => Fits(outcome, runs[c.id][k].phase, losses')
    <3>1. SUFFICES ASSUME c.run = k PROVE Fits(outcome, runs[c.id][k].phase, losses')
      BY <2>2
    <3>2. runs[c.id][k].phase \in Phases
      <4>1. runs[c.id] \in Seq(Run) /\ k \in DOMAIN runs[c.id] BY <1>t, <2>1 DEF Open, Ledgers
      <4>2. runs[c.id][k] \in Run BY <4>1
      <4> QED BY <4>2 DEF Run
    <3>3. losses' = losses + 1 => losses' # 0 BY <1>t
    <3> QED BY <2>1, <3>1, <3>2, <3>3 DEF Told, Fits, Verdict, Finished, Live, Phases
  <2>4. k \in DOMAIN runs[c.id] BY <2>1 DEF Open
  <2>5. L \in Ledgers BY <1>t, <2>1, <2>4, EndInLedgers
  <2>6. Sound(L, losses') /\ \A j \in Ids : Unbroken(L, j) => Unbroken(runs, j)
    BY <1>t, <1>n, <1>i, <2>1, <2>3, EndSound
  <2>7. Ran(mid, L, Dec(count), pos) BY <2>1
  <2> HIDE DEF L, k
  <2>8. Sound(runs', losses') /\ \A j \in Ids : Unbroken(runs', j) => Unbroken(L, j)
    BY <2>5, <2>6, <2>7, RanSound
  <2>9. \A j \in Ids : st'[j].run = mid[j].run /\ st'[j].pollBusy = mid[j].pollBusy
    BY <2>7, RanRuns
  <2>10. \A j \in Ids : j # c.id => st'[j].run = st[j].run /\ st'[j].pollBusy = st[j].pollBusy
    BY <2>1, <2>9 DEF Freed
  <2>11. Asked(st', runs', polls \ {c}) BY <1>i, <2>2, <2>6, <2>8, <2>10, AskedSame
  <2> QED BY <2>1, <2>8, <2>11 DEF TruthInv
<1>8. CASE Stopping
  <2>1. PICK i \in Ids : /\ Open(runs, i, st[i].run) /\ Freed(st, st', i)
                         /\ runs' = End(runs, i, st[i].run, "stopped") /\ polls' = polls
    BY <1>8, StoppedFacts
  <2>2. /\ Sound(runs', losses') /\ ~Unbroken(runs', i)
        /\ \A j \in Ids : Unbroken(runs', j) => Unbroken(runs, j)
    BY <1>t, <1>n, <1>i, <2>1, EndSound DEF Outcomes
  <2>3. Asked(st', runs', polls) BY <1>i, <2>1, <2>2, AskedSame DEF Freed
  <2> QED BY <2>1, <2>2, <2>3 DEF TruthInv
<1>9. CASE RcdMoves
  <2>1. PICK x \in Ids, p \in Phases : \E r \in DOMAIN runs[x] :
          /\ Progress(runs[x][r].phase, p)
          /\ runs' = [runs EXCEPT ![x][r].phase = p]
          /\ UNCHANGED <<st, polls>>
    BY <1>9 DEF RcdMoves
  <2>2. PICK r \in DOMAIN runs[x] : /\ runs' = [runs EXCEPT ![x][r].phase = p]
                                    /\ Progress(runs[x][r].phase, p)
    BY <2>1
  <2>3. /\ \A j \in Ids : DOMAIN runs'[j] = DOMAIN runs[j]
        /\ \A j \in Ids : \A k \in DOMAIN runs[j] :
             /\ runs'[j][k].ends = runs[j][k].ends
             /\ \/ runs'[j][k].phase = runs[j][k].phase
                \/ Progress(runs[j][k].phase, runs'[j][k].phase)
    BY <1>t, <2>2, PhaseFacts
  <2>4. Sound(runs', losses') BY <1>t, <1>n, <1>i, <1>r, <2>3, SoundMoves
  <2>5. \A j \in Ids : Unbroken(runs', j) => Unbroken(runs, j) BY <2>3 DEF Unbroken
  <2>6. Asked(st, runs', polls) BY <1>i, <2>5, AskedSame
  <2> QED BY <2>1, <2>4, <2>6 DEF TruthInv
<1>10. CASE Ending
  <2>1. /\ polls' = {}
        /\ \A j \in Ids : DOMAIN runs'[j] = DOMAIN runs[j]
        /\ \A j \in Ids : \A k \in DOMAIN runs[j] :
             /\ runs'[j][k].ends = runs[j][k].ends
             /\ runs'[j][k].phase \in {runs[j][k].phase, "lost"}
    BY <1>10, <1>t, DownFacts
  <2>2. Sound(runs', losses') BY <1>t, <1>n, <1>i, <1>r, <2>1, SoundMoves
  <2> QED BY <2>1, <2>2 DEF TruthInv, Asked
<1>11. ASSUME NEW c \in subs, SubmitFailed(c) PROVE TruthInv'
  <2>1. /\ c.id \in Ids /\ Open(runs, c.id, c.run) /\ c.run \in DOMAIN runs[c.id]
        /\ \A j \in Ids : st'[j].run = st[j].run /\ st'[j].pollBusy = st[j].pollBusy
        /\ polls' = polls
    BY <1>11, FailedFacts
  <2>2. PICK p \in Phases :
          /\ losses' = 0 => p = "lost"
          /\ runs' = End([runs EXCEPT ![c.id][c.run].phase = p], c.id, c.run, "rejected")
          /\ p = "lost" \/ p = runs[c.id][c.run].phase
    BY <1>11, FailedFacts
  <2> DEFINE M == [runs EXCEPT ![c.id][c.run].phase = p]
  <2>3. M \in Ledgers BY <1>t, <2>1, PhaseInLedgers
  <2>4. /\ \A j \in Ids : DOMAIN M[j] = DOMAIN runs[j]
        /\ \A j \in Ids : \A k \in DOMAIN runs[j] :
             /\ M[j][k].ends = runs[j][k].ends
             /\ M[j][k].phase = runs[j][k].phase \/ M[j][k].phase = "lost"
        /\ M[c.id][c.run].phase = p
    BY <1>t, <2>1, <2>2, PhaseFacts
  <2>5. runs' = End(M, c.id, c.run, "rejected") BY <2>2
  <2> HIDE DEF M
  <2>6. Sound(M, losses') BY <1>t, <1>n, <1>i, <2>3, <2>4, SoundMoves
  <2>7. Open(M, c.id, c.run) BY <2>1, <2>4 DEF Open
  <2>8. Fits("rejected", p, losses') BY <2>2 DEF Fits, Live
  <2>9. Sound(runs', losses') /\ \A j \in Ids : Unbroken(runs', j) => Unbroken(M, j)
    BY <2>1, <2>3, <2>4, <2>5, <2>6, <2>7, <2>8, EndSound DEF Outcomes
  <2>10. \A j \in Ids : Unbroken(M, j) => Unbroken(runs, j) BY <2>4 DEF Unbroken
  <2>11. Asked(st', runs', polls) BY <1>i, <2>1, <2>9, <2>10, AskedSame
  <2> QED BY <2>1, <2>9, <2>11 DEF TruthInv
<1>12. ASSUME NEW c \in subs, SubmitAccepted(c) PROVE TruthInv'
  <2>1. /\ c.id \in Ids /\ st[c.id].run = 0
        /\ \A j \in Ids : j # c.id => st'[j].run = st[j].run
        /\ \A j \in Ids : st'[j].pollBusy = st[j].pollBusy
        /\ polls' = polls /\ runs' = runs
    BY <1>12, AcceptedFacts
  <2>2. Unbroken(runs, c.id) => \A d \in polls : d.id # c.id BY <1>i, <2>1 DEF Asked
  <2>3. Asked(st', runs, polls) BY <1>i, <2>1, <2>2, AskedSame
  <2> QED BY <1>m, <2>1, <2>3 DEF TruthInv
<1>13. ~ \E j \in Ids : DeleteJob(j) BY DEF DeleteJob
<1> QED BY <1>t, <1>1, <1>2, <1>3, <1>4, <1>5, <1>6, <1>7, <1>8, <1>9, <1>10, <1>11, <1>12,
           <1>13, EveryStep DEF StepKind

LEMMA TruthAlways ==
  ASSUME Deletable = {}
  PROVE  Spec => []TruthInv
<1>1. Init => TruthInv BY DEF Init, TruthInv, Asked, Sound
<1>2. SteadyInv /\ TruthInv /\ [Next]_vars => TruthInv' BY NextTruth
<1> QED BY <1>1, <1>2, SteadyAlways, PTL DEF Spec

\* While no job is deleted, success is never recorded for a run that failed, nor
\* failure for one that went well, as long as nobody stops the job: the answer
\* that is applied to the run a slot tracks is always about that run, through
\* missed polls, retries, resyncs, restarts and what rcd forgets.
THEOREM VerdictsAreTrue ==
  ASSUME Deletable = {}
  PROVE  Spec => []VerdictIsTrue
<1>1. TruthInv => VerdictIsTrue
  <2> SUFFICES ASSUME TruthInv, NEW j \in Ids, Unstopped(j), NEW k \in DOMAIN runs[j]
               PROVE  /\ runs[j][k].ends = <<"ok">> => runs[j][k].phase \in {"ok", "lost"}
                      /\ runs[j][k].ends = <<"failed">> =>
                           runs[j][k].phase \in {"err", "nobase", "lost"}
    BY DEF VerdictIsTrue
  <2>1. Unbroken(runs, j) BY DEF Unstopped, Unbroken
  <2>2. Just(runs[j][k], losses) BY <2>1 DEF TruthInv, Sound
  <2> QED BY <2>2 DEF Just, Fits, Outcomes
<1> QED BY <1>1, TruthAlways, PTL

\* A sequence of one element at most is empty or that element.
LEMMA ShortSeq ==
  ASSUME NEW S, NEW s \in Seq(S), Len(s) <= 1
  PROVE  s = <<>> \/ \E e \in S : s = <<e>>
<1>1. CASE Len(s) = 0 BY <1>1
<1>2. CASE Len(s) = 1
  <2>1. 1 \in DOMAIN s BY <1>2
  <2>2. s[1] \in S BY <2>1
  <2>3. s = <<s[1]>> BY <1>2, <2>2
  <2> QED BY <2>2, <2>3
<1>3. Len(s) \in Nat OBVIOUS
<1>4. ASSUME NEW n \in Nat, n <= 1 PROVE n = 0 \/ n = 1 BY <1>4
<1>5. Len(s) = 0 \/ Len(s) = 1 BY ONLY Len(s) <= 1, <1>3, <1>4, Zenon
<1> QED BY <1>1, <1>2, <1>5

\* While no job is deleted and no answer is lost, the first life of the daemon has
\* rcd execute one instance of a job at a time, through triggers, retries,
\* resyncs and edits: two bisync runs of a pair would collide on its lock.
THEOREM OneInstance ==
  ASSUME Deletable = {}
  PROVE  Spec => []OneLiveRun
<1>1. KeptInv /\ TruthInv => OneLiveRun
  <2> SUFFICES ASSUME KeptInv, TruthInv, NEW j \in Ids,
                      losses = 0, boots = 0, up, Unstopped(j)
               PROVE  Cardinality({k \in DOMAIN runs[j] : runs[j][k].phase \in Live}) <= 1
    BY DEF OneLiveRun
  <2> DEFINE A == {k \in DOMAIN runs[j] : runs[j][k].phase \in Live}
  <2>1. ASSUME NEW k \in A PROVE Open(runs, j, k)
    <3>1. TypeOK /\ OwnerInv BY DEF KeptInv, SteadyInv, LifeInv
    <3>2. runs[j][k] \in Run /\ Len(runs[j][k].ends) <= 1
      BY <3>1, TypeShape DEF OwnerInv, Owned, Ledgers
    <3>3. Unbroken(runs, j) BY DEF Unstopped, Unbroken
    <3>4. Just(runs[j][k], 0) BY <3>3 DEF TruthInv, Sound
    <3>5. \A o \in Outcomes : runs[j][k].ends # <<o>> BY <2>1, <3>4 DEF Just, Fits
    <3>6. runs[j][k].ends = <<>> BY <3>2, <3>5, ShortSeq DEF Run
    <3> QED BY <2>1, <3>6 DEF Open
  <2>2. \A k \in A : st[j].run = k \/ \E c \in subs : c.id = j /\ c.run = k
    BY <2>1 DEF KeptInv, Kept, Open
  <2>3. \A c, d \in subs : c.id = j /\ d.id = j => c = d
    BY DEF KeptInv, SteadyInv, LifeInv, CallsOK
  <2>4. \A c \in subs : c.id = j => st[j].run = 0
    BY DEF KeptInv, SteadyInv, LifeInv, CallsOK
  <2>5. \A k \in A : k # 0
    BY TypeShape DEF KeptInv, SteadyInv, LifeInv, Ledgers
  <2> HIDE DEF A
  <2>6. \A k, m \in A : k = m BY <2>2, <2>3, <2>4, <2>5
  <2>7. ASSUME A = {} PROVE Cardinality(A) <= 1
    <3>1. Cardinality(A) = 0 BY <2>7, FS_EmptySet
    <3> QED BY <3>1
  <2>8. ASSUME NEW k \in A PROVE Cardinality(A) <= 1
    <3>1. A = {k} BY <2>6, <2>8
    <3>2. Cardinality(A) = 1 BY <3>1, FS_Singleton
    <3> QED BY <3>2
  <2>9. Cardinality(A) <= 1 BY <2>7, <2>8
  <2> QED BY <2>9 DEF A
<1> QED BY <1>1, KeptAlways, TruthAlways, PTL

-----------------------------------------------------------------------------
(* The schedule is kept *)

\* What ScheduleKept asks of a job with an enabled schedule
Provided(j) ==
  \/ Timer("sched", pos[j], j) \in timers
  \/ Busy(st[j])
  \/ Timer("retry", pos[j], j) \in timers
  \/ [idx |-> pos[j], id |-> j] \in idles
  \/ runs[j] # <<>> /\ runs[j][Len(runs[j])].ends = <<"rejected">>

\* A start request is about the latest run of its job.
Latest(L, S) == \A c \in S : c.run \in DOMAIN L[c.id] /\ c.run + 1 \notin DOMAIN L[c.id]

\* on_run_job makes the job that is due busy, and leaves the others as they are.
LEMMA RunProvides ==
  ASSUME NEW slots \in Slots, NEW L \in Ledgers, NEW n, NEW P, NEW due, NEW trig,
         OnRunJob(slots, L, n, P, due, trig), NEW j \in Ids
  PROVE  /\ Busy(slots[j]) \/ j \in due => Busy(st'[j])
         /\ Busy(st'[j]) \/ (st'[j] = slots[j] /\ runs'[j] = L[j])
<1>0. slots[j] \in Slot BY DEF Slots
<1>1. CASE j \in Going(slots, due)
  <2>1. st'[j] = [slots[j] EXCEPT !.submitting = TRUE, !.running = TRUE, !.resync = FALSE]
    BY <1>1 DEF OnRunJob
  <2>2. st'[j].submitting BY <1>0, <2>1 DEF Slot
  <2> QED BY <2>2 DEF Busy
<1>2. CASE j \notin Going(slots, due)
  <2>1. st'[j] = slots[j] /\ runs'[j] = L[j] BY <1>2 DEF OnRunJob
  <2>2. j \in due => Busy(slots[j]) BY <1>2 DEF Going
  <2> QED BY <2>1, <2>2
<1> QED BY <1>1, <1>2

\* A job stays provided while its timers, idle callbacks and ledger stay.
LEMMA StillProvided ==
  ASSUME NEW j \in Ids, Provided(j), pos'[j] = pos[j], Busy(st[j]) => Busy(st'[j]),
         \A t \in timers : t.id = j /\ t.idx = pos[j] /\ t.kind \in {"sched", "retry"}
                             => t \in timers',
         [idx |-> pos[j], id |-> j] \in idles => [idx |-> pos[j], id |-> j] \in idles',
         Busy(st'[j]) \/ runs'[j] = runs[j]
  PROVE  Provided(j)'
BY DEF Provided, Timer

\* schedule_all_jobs provides for every job with a schedule that has an occurrence.
LEMMA ScheduleProvides ==
  ASSUME NEW slots \in Slots, runs \in Ledgers, NEW n, NEW T, NEW due, NEW none \in SUBSET Sparse,
         OnRunJob(slots, runs, n, pos', due, "sched"),
         NEW j \in Ids \ Sparse, pos'[j] # 0, sched'[j],
         \A t \in ScheduleAll(T, pos', sched', due \cup none) : t.kind # "watch" => t \in timers'
  PROVE  Provided(j)'
<1>1. CASE j \in due
  <2>1. Busy(st'[j]) BY <1>1, RunProvides
  <2> QED BY <2>1 DEF Provided
<1>2. CASE j \notin due
  <2>1. Timer("sched", pos'[j], j) \in ScheduleAll(T, pos', sched', due \cup none)
    <3>1. j \notin due \cup none BY <1>2
    <3> QED BY <3>1 DEF ScheduleAll
  <2>2. Timer("sched", pos'[j], j).kind # "watch" BY DEF Timer
  <2>3. Timer("sched", pos'[j], j) \in timers' BY <2>1, <2>2
  <2> QED BY <2>3 DEF Provided
<1> QED BY <1>1, <1>2

\* A source that fires starts its own job, and takes no timer of another's.
LEMMA FiringProvides ==
  ASSUME TypeOK, NEW x, x.id \in Ids, NEW trig, NEW slots \in Slots,
         \A i \in Ids : Busy(slots[i]) <=> Busy(st[i]),
         OnRunJob(slots, runs, count, pos, IF Valid(x) THEN {x.id} ELSE {}, trig),
         NEW j \in Ids, pos[j] # 0, Provided(j), UNCHANGED pos,
         \/ timers' = timers /\ idles' = idles \ {x}
         \/ timers' = timers \ {x} /\ idles' = idles
  PROVE  Provided(j)'
<1>t. runs \in Ledgers /\ pos \in [Ids -> Nat] BY TypeShape
<1>1. CASE Valid(x) /\ x.id = j
  <2>1. Busy(st'[j]) BY <1>t, <1>1, RunProvides
  <2> QED BY <2>1 DEF Provided
<1>2. CASE ~(Valid(x) /\ x.id = j)
  <2>1. Busy(st[j]) => Busy(st'[j]) BY <1>t, RunProvides
  <2>2. Busy(st'[j]) \/ runs'[j] = runs[j] BY <1>t, RunProvides
  <2>3. ~(x.id = j /\ x.idx = pos[j]) BY <1>2 DEF Valid
  <2>4. x # [idx |-> pos[j], id |-> j] BY <2>3
  <2> QED BY <2>1, <2>2, <2>3, <2>4, StillProvided
<1> QED BY <1>1, <1>2

\* A request of the user keeps every job provided.
LEMMA RequestsProvide ==
  ASSUME TypeOK, ListOK, ScheduleKept, Requests \/ Edits,
         NEW j \in Ids \ Sparse, pos'[j] # 0, sched'[j]
  PROVE  Provided(j)'
<1>t. st \in Slots /\ runs \in Ledgers /\ pos \in [Ids -> Nat] /\ timers \subseteq Timers
  BY TypeShape
<1>b. \A s \in Slots : NoPending(s) \in Slots BY PendingAgrees
<1>1. ASSUME NEW i \in Ids, RunJob(i) PROVE Provided(j)'
  <2>1. OnRunJob(st, runs, count, pos, {i}, "user") /\ UNCHANGED <<timers, idles, pos, sched>>
    BY <1>1 DEF RunJob
  <2>2. Provided(j) BY <1>1, <2>1 DEF RunJob, ScheduleKept, InList, Provided
  <2>3. (Busy(st[j]) => Busy(st'[j])) /\ (Busy(st'[j]) \/ runs'[j] = runs[j])
    BY <1>t, <2>1, RunProvides
  <2> QED BY <2>1, <2>2, <2>3, StillProvided
<1>2. ASSUME NEW i \in Ids, StopJob(i) PROVE Provided(j)'
  <2>1. timers' = Without(timers, "retry", i) /\ UNCHANGED <<st, runs, idles, pos, sched>>
        /\ st[i].run # 0
    BY <1>2 DEF StopJob
  <2>2. Provided(j) BY <1>2, <2>1 DEF StopJob, ScheduleKept, InList, Provided
  <2>3. CASE i = j
    <3>1. Busy(st'[j]) BY <2>1, <2>3 DEF Busy
    <3> QED BY <3>1 DEF Provided
  <2>4. CASE i # j
    <3>1. \A t \in timers : t.id = j => t \in timers' BY <2>1, <2>4 DEF Without
    <3> QED BY <2>1, <2>2, <3>1, StillProvided
  <2> QED BY <2>3, <2>4
<1>3. ASSUME NEW i \in Ids, AddJob(i) PROVE Provided(j)'
  <2>1. PICK due \in DueSets(pos', sched), none \in SUBSET Sparse :
          /\ timers' = NoWatchTimers(ScheduleAll(timers, pos', sched, due \cup none))
          /\ OnRunJob(NoPending(st), runs, count, pos', due, "sched")
    BY <1>3 DEF AddJob
  <2>2. sched' = sched BY <1>3 DEF AddJob
  <2>3. \A t \in ScheduleAll(timers, pos', sched', due \cup none) : t.kind # "watch" => t \in timers'
    BY <2>1, <2>2 DEF NoWatchTimers
  <2> QED BY <1>t, <1>b, <2>1, <2>3, ScheduleProvides
<1>4. ASSUME NEW i \in Ids, UpdateJob(i) PROVE Provided(j)'
  <2> DEFINE halted == [st EXCEPT ![i].running = FALSE]
  <2>1. PICK due \in DueSets(pos, sched'), none \in SUBSET Sparse :
          /\ timers' = NoWatchTimers(ScheduleAll(timers, pos, sched', due \cup none))
          /\ OnRunJob(NoPending(halted), runs, count, pos, due, "sched")
    BY <1>4 DEF UpdateJob
  <2>2. pos' = pos BY <1>4 DEF UpdateJob
  <2>3. \A t \in ScheduleAll(timers, pos', sched', due \cup none) : t.kind # "watch" => t \in timers'
    BY <2>1, <2>2 DEF NoWatchTimers
  <2>4. halted \in Slots BY <1>t DEF Slots, Slot
  <2> HIDE DEF halted
  <2>5. OnRunJob(NoPending(halted), runs, count, pos', due, "sched") BY <2>1, <2>2
  <2> QED BY <1>t, <1>b, <2>3, <2>4, <2>5, ScheduleProvides
<1>5. ASSUME NEW i \in Ids, WatchEvent(i) PROVE Provided(j)'
  <2>1. timers' = Rearm(timers, "watch", pos[i], i) /\ UNCHANGED <<runs, idles, pos, sched>>
    BY <1>5 DEF WatchEvent
  <2>2. Provided(j) BY <1>5, <2>1 DEF WatchEvent, ScheduleKept, InList, Provided
  <2>3. \A t \in timers : t.kind \in {"sched", "retry"} => t \in timers'
    BY <2>1 DEF Rearm, Without
  <2>4. Busy(st[j]) => Busy(st'[j]) BY <1>t, <1>5 DEF WatchEvent, Busy, Slots, Slot
  <2> QED BY <2>1, <2>2, <2>3, <2>4, StillProvided
<1> QED BY <1>1, <1>2, <1>3, <1>4, <1>5 DEF Requests, Edits

\* So does a source that fires.
LEMMA SourcesProvide ==
  ASSUME TypeOK, ScheduleKept, Sources, NEW j \in Ids \ Sparse, pos'[j] # 0, sched'[j]
  PROVE  Provided(j)'
<1>t. st \in Slots /\ runs \in Ledgers /\ timers \subseteq Timers
      /\ idles \subseteq [idx : Nat, id : Ids]
  BY TypeShape
<1>i. (\A t \in timers : t.id \in Ids) /\ \A c \in idles : c.id \in Ids BY <1>t DEF Timers
<1>0. up /\ UNCHANGED <<pos, sched>>
  BY DEF Sources, SchedTimer, RetryTimer, WatchTimer, PollTick, ResyncIdle
<1>p. pos[j] # 0 /\ Provided(j) BY <1>0 DEF ScheduleKept, InList, Provided
<1>1. ASSUME NEW t \in timers, SchedTimer(t) \/ RetryTimer(t) PROVE Provided(j)'
  <2>1. /\ timers' = timers \ {t} /\ idles' = idles
        /\ \E trig \in Triggers :
             OnRunJob(st, runs, count, pos, IF Valid(t) THEN {t.id} ELSE {}, trig)
    BY <1>1 DEF SchedTimer, RetryTimer, Triggers
  <2> QED BY <1>t, <1>i, <1>0, <1>p, <2>1, FiringProvides
<1>2. ASSUME NEW t \in timers, WatchTimer(t) PROVE Provided(j)'
  <2>1. timers' = timers \ {t} /\ t.kind = "watch" /\ UNCHANGED idles BY <1>2 DEF WatchTimer
  <2>2. \A u \in timers : u.kind \in {"sched", "retry"} => u \in timers' BY <2>1
  <2> DEFINE slots == [st EXCEPT ![t.id].pending = FALSE]
  <2>3. slots \in Slots /\ (Busy(slots[j]) <=> Busy(st[j]))
    BY <1>t, <1>i DEF Busy, Slots, Slot
  <2>4. \/ OnRunJob(slots, runs, count, pos, {t.id}, "watch")
        \/ st' = st /\ runs' = runs
    BY <1>2 DEF WatchTimer
  <2> HIDE DEF slots
  <2>5. (Busy(st[j]) => Busy(st'[j])) /\ (Busy(st'[j]) \/ runs'[j] = runs[j])
    BY <1>t, <2>3, <2>4, RunProvides
  <2> QED BY <1>0, <1>p, <2>1, <2>2, <2>5, StillProvided
<1>3. ASSUME NEW t \in timers, PollTick(t) PROVE Provided(j)'
  <2>1. /\ t.kind = "poll" /\ (timers' = timers \ {t} \/ timers' = timers)
        /\ UNCHANGED <<idles, runs>>
        /\ st' = st \/ st' = [st EXCEPT ![t.id].pollBusy = TRUE]
    BY <1>3 DEF PollTick
  <2>2. \A u \in timers : u.kind \in {"sched", "retry"} => u \in timers' BY <2>1
  <2>3. Busy(st[j]) => Busy(st'[j]) BY <1>t, <1>i, <2>1 DEF Busy, Slots, Slot
  <2> QED BY <1>0, <1>p, <2>1, <2>2, <2>3, StillProvided
<1>4. ASSUME NEW c \in idles, ResyncIdle(c) PROVE Provided(j)'
  <2>1. /\ timers' = timers /\ idles' = idles \ {c}
        /\ OnRunJob(st, runs, count, pos, IF Valid(c) THEN {c.id} ELSE {}, "resync")
    BY <1>4 DEF ResyncIdle
  <2> QED BY <1>t, <1>i, <1>0, <1>p, <2>1, FiringProvides
<1> QED BY <1>1, <1>2, <1>3, <1>4 DEF Sources

\* The verdict of a run provides for its job, by a retry, a resync, the next run
\* or the schedule.
LEMMA VerdictProvides ==
  ASSUME TypeOK, NEW slots \in Slots, NEW c \in Calls, Valid(c),
         \A i \in Ids : i # c.id => slots[i] = st[i],
         slots[c.id].run \in DOMAIN runs[c.id],
         NEW outcome \in Outcomes, NEW nobase,
         OnJobCompleted(slots, runs, c, outcome, nobase), UNCHANGED <<pos, sched>>,
         NEW j \in Ids \ Sparse, sched[j], Provided(j)
  PROVE  Provided(j)'
<1> DEFINE claimed == [slots EXCEPT ![c.id] = Claim(@)]
           ended   == End(runs, c.id, slots[c.id].run, outcome)
<1>t. runs \in Ledgers BY TypeShape
<1>c. c.id \in Ids /\ pos[c.id] = c.idx BY DEF Calls, Valid
<1>1. claimed \in Slots /\ \A i \in Ids : i # c.id => claimed[i] = st[i]
  BY <1>c DEF Claim, Slots, Slot
<1>2. ended \in Ledgers /\ \A i \in Ids : i # c.id => ended[i] = runs[i]
  BY <1>c, <1>t, EndInLedgers, EndFacts
<1>5. \/ ResyncRetry(claimed, ended, c)
      \/ BackoffRetry(claimed, ended, c)
      \/ FinalVerdict(claimed, ended, c)
  BY DEF OnJobCompleted
<1> HIDE DEF claimed, ended
<1>6. CASE ResyncRetry(claimed, ended, c)
  <2>1. CASE j = c.id
    <3>1. [idx |-> pos'[j], id |-> j] \in idles' BY <1>c, <1>6, <2>1 DEF ResyncRetry
    <3> QED BY <3>1 DEF Provided
  <2>2. CASE j # c.id
    <3>1. /\ st'[j] = st[j] /\ runs'[j] = runs[j] /\ idles \subseteq idles'
          /\ \A t \in timers : t.kind \in {"sched", "retry"} => t \in timers'
      BY <1>c, <1>1, <1>2, <1>6, <2>2 DEF ResyncRetry, Without, Slots
    <3> QED BY <3>1, StillProvided
  <2> QED BY <2>1, <2>2
<1>7. CASE BackoffRetry(claimed, ended, c)
  <2>1. CASE j = c.id
    <3>1. Timer("retry", pos'[j], j) \in timers' BY <1>c, <1>7, <2>1 DEF BackoffRetry, Rearm
    <3> QED BY <3>1 DEF Provided
  <2>2. CASE j # c.id
    <3>1. /\ st'[j] = st[j] /\ runs'[j] = runs[j] /\ idles = idles'
          /\ \A t \in timers : t.id = j /\ t.kind \in {"sched", "retry"} => t \in timers'
      BY <1>c, <1>1, <1>2, <1>7, <2>2 DEF BackoffRetry, Rearm, Without, Slots
    <3> QED BY <3>1, StillProvided
  <2> QED BY <2>1, <2>2
<1>8. CASE FinalVerdict(claimed, ended, c)
  <2> DEFINE done == [claimed EXCEPT ![c.id].retries = 0, ![c.id].running = FALSE]
             quiet == Without(timers, "poll", c.id)
  <2>1. PICK due \in {d \in DueSets(pos, sched) : d \subseteq {c.id}}, none \in SUBSET Sparse :
          /\ timers' = IF claimed[c.id].pending
                       THEN Rearm(Reschedule(quiet, c, due \cup none), "watch", c.idx, c.id)
                       ELSE Reschedule(quiet, c, due \cup none)
          /\ OnRunJob(done, ended, Dec(count), pos, due, "sched")
          /\ UNCHANGED idles
    BY <1>8 DEF FinalVerdict
  <2>2. done \in Slots /\ \A i \in Ids : i # c.id => done[i] = st[i]
    <3> DEFINE s == [claimed[c.id] EXCEPT !.retries = 0, !.running = FALSE]
    <3>1. claimed[c.id] \in Slot BY <1>c, <1>1 DEF Slots
    <3>2. s \in Slot BY <3>1 DEF Slot
    <3>3. done = [claimed EXCEPT ![c.id] = s] BY <1>c, <1>1 DEF Slots
    <3> HIDE DEF s
    <3> QED BY <1>1, <3>2, <3>3 DEF Slots
  <2>3. \A t \in Reschedule(quiet, c, due \cup none) : t.kind # "watch" => t \in timers'
    BY <2>1 DEF Rearm, Without
  <2> HIDE DEF done
  <2>4. CASE j = c.id /\ j \in due
    <3>1. Busy(st'[j]) BY <1>2, <2>1, <2>2, <2>4, RunProvides
    <3> QED BY <3>1 DEF Provided
  <2>5. CASE j = c.id /\ j \notin due
    <3>1. due = {} BY <2>1, <2>5
    <3>2. Timer("sched", c.idx, c.id) \in Reschedule(quiet, c, due \cup none)
      <4>1. c.id \notin due \cup none BY <2>1, <2>5, <3>1
      <4> QED BY <2>5, <4>1 DEF Reschedule, Rearm
    <3>3. Timer("sched", c.idx, c.id) \in timers' BY <2>3, <3>2 DEF Timer
    <3> QED BY <1>c, <2>5, <3>3 DEF Provided
  <2>6. CASE j # c.id
    <3>1. (Busy(st[j]) => Busy(st'[j])) /\ (Busy(st'[j]) \/ runs'[j] = runs[j])
      BY <1>2, <2>1, <2>2, <2>6, RunProvides
    <3>2. \A t \in timers : t.id = j /\ t.kind \in {"sched", "retry"} => t \in timers'
      BY <2>1, <2>3, <2>6 DEF Reschedule, Rearm, Without
    <3> QED BY <2>1, <3>1, <3>2, StillProvided
  <2> QED BY <2>4, <2>5, <2>6
<1> QED BY <1>5, <1>6, <1>7, <1>8

\* The index of the last run
LEMMA LastIndex ==
  ASSUME NEW s \in Seq(Run), NEW k \in DOMAIN s, k + 1 \notin DOMAIN s
  PROVE  s # <<>> /\ k = Len(s)
OBVIOUS

\* Sequences with one domain are equally long.
LEMMA SameLength ==
  ASSUME NEW a \in Seq(Run), NEW b \in Seq(Run), DOMAIN a = DOMAIN b
  PROVE  Len(a) = Len(b)
<1>1. Len(a) \in Nat /\ Len(b) \in Nat /\ 1..Len(a) = 1..Len(b) OBVIOUS
<1>2. ASSUME NEW m \in Nat, NEW n \in Nat, 1..m = 1..n, m < n PROVE FALSE
  <2>1. n \in 1..n /\ n \notin 1..m BY <1>2
  <2> QED BY <1>2, <2>1
<1>3. ~(Len(a) < Len(b)) /\ ~(Len(b) < Len(a)) BY <1>1, <1>2
<1> QED BY <1>1, <1>3

\* An answer about the tracked run: the slot's poll is over, and the run goes on
\* or on_job_completed is called.
Heard(c, slots) ==
  /\ \A i \in Ids : i # c.id => slots[i] = st[i]
  /\ \A i \in Ids : Core(slots[i], st[i])
  /\ \/ st' = slots /\ UNCHANGED <<runs, timers, idles>>
     \/ \E outcome \in Outcomes, nobase \in BOOLEAN :
          OnJobCompleted(slots, runs, c, outcome, nobase)

LEMMA StatusFacts ==
  ASSUME TypeOK, NEW c \in polls, StatusAnswered(c) \/ StatusMissed(c)
  PROVE  \E slots \in Slots : Heard(c, slots)
<1>t. /\ st \in Slots /\ polls \subseteq Calls BY TypeShape
<1>c. c.id \in Ids /\ st[c.id] \in Slot BY <1>t DEF Calls, Slots
<1>s. ASSUME NEW s \in Slot, Core(s, st[c.id]), NEW slots, slots = [st EXCEPT ![c.id] = s],
             \/ st' = slots /\ UNCHANGED <<runs, timers, idles>>
             \/ \E outcome \in Outcomes, nobase \in BOOLEAN :
                  OnJobCompleted(slots, runs, c, outcome, nobase)
      PROVE  \E x \in Slots : Heard(c, x)
  <2>1. slots \in Slots BY <1>t, <1>c, <1>s DEF Slots
  <2>2. \A i \in Ids : i # c.id => slots[i] = st[i] BY <1>t, <1>s DEF Slots
  <2>3. slots[c.id] = s BY <1>t, <1>c, <1>s DEF Slots
  <2>4. \A i \in Ids : Core(slots[i], st[i]) BY <1>s, <2>2, <2>3 DEF Core
  <2> QED BY <1>s, <2>1, <2>2, <2>4 DEF Heard
<1>1. CASE StatusAnswered(c)
  <2> DEFINE s == [st[c.id] EXCEPT !.pollBusy = FALSE, !.pollFails = 0]
             seen == [st EXCEPT ![c.id].pollBusy = FALSE, ![c.id].pollFails = 0]
             phase == runs[c.id][c.run].phase
  <2>1. s \in Slot /\ Core(s, st[c.id]) BY <1>c DEF Slot, Core
  <2>2. seen = [st EXCEPT ![c.id] = s] BY <1>t, <1>c DEF Slots
  <2>3. \/ st' = seen /\ UNCHANGED <<runs, timers, idles>>
        \/ OnJobCompleted(seen, runs, c, Verdict(phase), phase = "nobase")
    BY <1>1 DEF StatusAnswered
  <2>4. Verdict(phase) \in Outcomes /\ (phase = "nobase") \in BOOLEAN BY DEF Verdict, Outcomes
  <2> HIDE DEF s, seen, phase
  <2> QED BY <1>s, <2>1, <2>2, <2>3, <2>4
<1>2. CASE StatusMissed(c)
  <2> DEFINE s == Miss(st[c.id])
             missed == [st EXCEPT ![c.id] = Miss(@)]
  <2>1. st[c.id].pollFails + 1 \in Nat BY <1>c DEF Slot
  <2>2. s \in Slot /\ Core(s, st[c.id]) BY <1>c, <2>1 DEF Slot, Miss, Core
  <2>3. missed = [st EXCEPT ![c.id] = s] BY <1>t, <1>c DEF Slots
  <2>4. \/ st' = missed /\ UNCHANGED <<runs, timers, idles>>
        \/ OnJobCompleted(missed, runs, c, "gaveup", FALSE)
    BY <1>2 DEF StatusMissed
  <2>5. "gaveup" \in Outcomes BY DEF Outcomes
  <2> HIDE DEF s, missed
  <2> QED BY <1>s, <2>2, <2>3, <2>4, <2>5
<1> QED BY <1>1, <1>2

\* An answer of rcd keeps every job provided: while nobody stops the job, only a
\* submission error ends a run without a verdict.
LEMMA AnswersProvide ==
  ASSUME SteadyInv, ScheduleKept, stops = {}, Latest(runs, subs), Answers,
         NEW j \in Ids \ Sparse, pos'[j] # 0, sched'[j]
  PROVE  Provided(j)'
<1>t. /\ TypeOK /\ st \in Slots /\ runs \in Ledgers /\ subs \subseteq Calls /\ polls \subseteq Calls
  BY TypeShape DEF SteadyInv, LifeInv
<1>0. up /\ UNCHANGED <<pos, sched>>
  BY DEF Answers, SubmitFailed, SubmitAccepted, StatusIgnored, StatusAnswered, StatusMissed,
         StopAnswered, daemonVars
<1>p. pos[j] # 0 /\ Provided(j) BY <1>0 DEF ScheduleKept, InList, Provided
<1>1. ASSUME NEW c \in subs, SubmitFailed(c) PROVE Provided(j)'
  <2>1. UNCHANGED <<timers, idles>> /\ c.id \in Ids BY <1>1, <1>t DEF SubmitFailed, Calls
  <2>2. PICK p \in Phases :
          runs' = End([runs EXCEPT ![c.id][c.run].phase = p], c.id, c.run, "rejected")
    BY <1>1 DEF SubmitFailed
  <2> DEFINE M == [runs EXCEPT ![c.id][c.run].phase = p]
  <2>3. c.run \in DOMAIN runs[c.id] /\ Open(runs, c.id, c.run)
    BY <2>1 DEF SteadyInv, OwnerInv, Owned, Open
  <2>4. /\ M \in Ledgers /\ DOMAIN M[c.id] = DOMAIN runs[c.id]
        /\ \A i \in Ids : i # c.id => M[i] = runs[i]
        /\ M[c.id][c.run].ends = <<>>
    BY <1>t, <2>1, <2>3, PhaseInLedgers, PhaseFacts DEF Open
  <2>5. runs' = End(M, c.id, c.run, "rejected") BY <2>2
  <2> HIDE DEF M
  <2>6. /\ runs' \in Ledgers /\ DOMAIN runs'[c.id] = DOMAIN runs[c.id]
        /\ \A i \in Ids : i # c.id => runs'[i] = runs[i]
        /\ runs'[c.id][c.run].ends = Append(M[c.id][c.run].ends, "rejected")
    <3>1. "rejected" \in Outcomes /\ c.run \in DOMAIN M[c.id] BY <2>3, <2>4 DEF Outcomes
    <3> QED BY <2>1, <2>4, <2>5, <3>1, EndInLedgers, EndFacts
  <2>7. CASE j = c.id
    <3>1. runs'[j] \in Seq(Run) /\ c.run \in DOMAIN runs'[j] /\ c.run + 1 \notin DOMAIN runs'[j]
      BY <2>3, <2>6, <2>7 DEF Ledgers, Latest
    <3>2. runs'[j] # <<>> /\ c.run = Len(runs'[j]) BY <3>1, LastIndex
    <3>3. runs'[j][c.run].ends = <<"rejected">> BY <2>4, <2>6, <2>7
    <3> QED BY <3>2, <3>3 DEF Provided
  <2>8. CASE j # c.id
    <3>1. Valid(c) /\ ClearSubmitting(c.idx)[j] = st[j]
      BY <1>1, <1>t, <2>8, ClearsOne DEF SteadyInv
    <3>2. st'[j] = st[j] BY <1>1, <2>8, <3>1 DEF SubmitFailed
    <3> QED BY <1>0, <1>p, <2>1, <2>6, <2>8, <3>2, StillProvided
  <2> QED BY <2>7, <2>8
<1>2. ASSUME NEW c \in subs, SubmitAccepted(c) PROVE Provided(j)'
  <2>1. /\ c.id \in Ids /\ c.run # 0 /\ st'[c.id].run = c.run /\ runs' = runs
    BY <1>2, AcceptedFacts
  <2>2. Valid(c) BY <1>2, ClearsOne DEF SteadyInv
  <2>3. CASE j = c.id
    <3>1. Busy(st'[j]) BY <2>1, <2>3 DEF Busy
    <3> QED BY <3>1 DEF Provided
  <2>4. CASE j # c.id
    <3>1. ClearSubmitting(c.idx)[j] = st[j] BY <1>2, <2>4, ClearsOne DEF SteadyInv
    <3>2. ClearSubmitting(c.idx) \in Slots BY <1>t, ClearFacts
    <3>3. st'[j] = st[j] /\ timers \subseteq timers' /\ idles' = idles
      BY <1>2, <2>2, <2>4, <3>1, <3>2 DEF SubmitAccepted, Slots
    <3> QED BY <1>0, <1>p, <2>1, <3>3, StillProvided
  <2> QED BY <2>3, <2>4
<1>3. ASSUME NEW c \in polls, StatusIgnored(c) PROVE Provided(j)'
  BY <1>3, <1>0, <1>p, StillProvided DEF StatusIgnored, daemonVars
<1>4. ASSUME NEW c \in polls, StatusAnswered(c) \/ StatusMissed(c) PROVE Provided(j)'
  <2>1. c \in Calls /\ c.id \in Ids /\ Valid(c) /\ st[c.id].run # 0
    BY <1>t, <1>4 DEF Calls, Concerns, StatusAnswered, StatusMissed
  <2>2. PICK slots \in Slots : Heard(c, slots) BY <1>t, <1>4, StatusFacts
  <2>3. slots[c.id].run \in DOMAIN runs[c.id]
    BY <2>1, <2>2 DEF Heard, Core, SteadyInv, OwnerInv, Owned, Open
  <2>4. CASE st' = slots /\ UNCHANGED <<runs, timers, idles>>
    <3>1. Busy(st[j]) => Busy(st'[j]) BY <2>2, <2>4 DEF Busy, Heard, Core
    <3> QED BY <1>0, <1>p, <2>4, <3>1, StillProvided
  <2>5. ASSUME NEW outcome \in Outcomes, NEW nobase \in BOOLEAN,
               OnJobCompleted(slots, runs, c, outcome, nobase)
        PROVE  Provided(j)'
    <3>1. sched[j] BY <1>0
    <3>2. \A i \in Ids : i # c.id => slots[i] = st[i] BY <2>2 DEF Heard
    <3> QED BY <1>t, <1>0, <1>p, <2>1, <2>3, <2>5, <3>1, <3>2, VerdictProvides
  <2> QED BY <2>2, <2>4, <2>5 DEF Heard
<1> QED BY <1>1, <1>2, <1>3, <1>4 DEF Answers

\* rcd decides nothing about schedules, and a start of the daemon arms them.
LEMMA OutsideProvides ==
  ASSUME TypeOK, DownOK, ScheduleKept, Rcd \/ Lifecycle,
         NEW j \in Ids \ Sparse, up', pos'[j] # 0, sched'[j]
  PROVE  Provided(j)'
<1>t. st \in Slots /\ runs \in Ledgers BY TypeShape
<1>1. CASE Rcd
  <2>1. PICK x \in Ids : \E r \in DOMAIN runs[x], p \in Phases : Becomes(x, r, p)
    BY <1>1 DEF Rcd, RcdAccepts, RcdFinishes, RcdStops, RcdForgets, Phases, Finished
  <2>2. PICK r \in DOMAIN runs[x], p \in Phases : Becomes(x, r, p) BY <2>1
  <2>3. runs' = [runs EXCEPT ![x][r].phase = p] /\ UNCHANGED daemonVars BY <2>2 DEF Becomes
  <2>4. /\ DOMAIN runs'[j] = DOMAIN runs[j]
        /\ \A k \in DOMAIN runs[j] : runs'[j][k].ends = runs[j][k].ends
    BY <1>t, <2>3, PhaseFacts
  <2>5. runs' \in Ledgers BY <1>t, <2>3, PhaseInLedgers
  <2>6. Provided(j) BY <2>3 DEF ScheduleKept, InList, Provided, daemonVars
  <2>7. runs[j] # <<>> /\ runs[j][Len(runs[j])].ends = <<"rejected">>
          => runs'[j] # <<>> /\ runs'[j][Len(runs'[j])].ends = <<"rejected">>
    <3>1. runs[j] \in Seq(Run) /\ runs'[j] \in Seq(Run) BY <1>t, <2>5 DEF Ledgers
    <3>2. Len(runs'[j]) = Len(runs[j]) BY <2>4, <3>1, SameLength
    <3>3. runs[j] # <<>> => Len(runs[j]) \in DOMAIN runs[j] BY <3>1
    <3>4. runs[j] # <<>> => runs'[j] # <<>> BY <3>1, <3>2
    <3> QED BY <2>4, <3>2, <3>3, <3>4
  <2> QED BY <2>3, <2>6, <2>7 DEF Provided, daemonVars
<1>2. CASE Stop \/ Crash BY <1>2 DEF Stop, Crash, GoDown
<1>3. CASE Boot
  <2>1. PICK due \in DueSets(pos, sched), none \in SUBSET Sparse :
          /\ timers' = ScheduleAll({}, pos, sched, due \cup none)
          /\ OnRunJob(st, runs, count, pos, due, "sched")
    BY <1>3 DEF Boot
  <2>2. UNCHANGED <<pos, sched>> BY <1>3 DEF Boot
  <2>3. OnRunJob(st, runs, count, pos', due, "sched") BY <2>1, <2>2
  <2>4. \A t \in ScheduleAll({}, pos', sched', due \cup none) : t.kind # "watch" => t \in timers'
    BY <2>1, <2>2
  <2> QED BY <1>t, <2>3, <2>4, ScheduleProvides
<1> QED BY <1>1, <1>2, <1>3 DEF Lifecycle

\* A new run is the latest of its job, and no request for an older one is left.
LEMMA NextLatest ==
  ASSUME SteadyInv, SteadyInv', Latest(runs, subs), [Next]_vars, Deletable = {}
  PROVE  Latest(runs', subs')
<1>t. /\ TypeOK /\ runs \in Ledgers /\ st \in Slots /\ subs \subseteq Calls
  BY TypeShape DEF SteadyInv, LifeInv
<1>s. ASSUME \A j \in Ids : DOMAIN runs'[j] = DOMAIN runs[j], subs' \subseteq subs
      PROVE  Latest(runs', subs')
  BY <1>t, <1>s DEF Latest, Calls
<1>r. ASSUME NEW slots \in Slots, NEW L \in Ledgers, NEW n, NEW P, Ran(slots, L, n, P),
             \A j \in Ids : DOMAIN L[j] = DOMAIN runs[j]
      PROVE  Latest(runs', subs')
  <2>1. CASE Skipped(slots, L, n) BY <1>s, <1>r, <2>1 DEF Skipped
  <2>2. ASSUME NEW d \in Ids, NEW trig, Begun(slots, L, n, P, d, trig)
        PROVE  Latest(runs', subs')
    <3> DEFINE e == NewRun(trig, slots[d].resync)
               x == Call(P[d], d, Len(L[d]) + 1)
    <3>1. /\ runs' = [L EXCEPT ![d] = Append(L[d], e)] /\ e \in Run
          /\ subs' = subs \cup {x}
      BY <2>2 DEF Begun
    <3>2. L[d] \in Seq(Run) BY <1>r DEF Ledgers
    <3>3. x.id = d /\ x.run = Len(L[d]) + 1 BY DEF Call
    <3> HIDE DEF e, x
    <3>4. /\ DOMAIN runs'[d] = DOMAIN L[d] \cup {Len(L[d]) + 1}
          /\ Len(L[d]) + 1 \notin DOMAIN L[d]
          /\ \A i \in Ids : i # d => runs'[i] = L[i]
      BY <1>r, <3>1, <3>2, AppendFacts DEF Ledgers
    <3>5. \A c \in subs : c.id # d
      <4>1. SUFFICES ASSUME NEW c \in subs, c.id = d PROVE FALSE
        OBVIOUS
      <4>2. c = x BY <3>1, <3>3, <4>1 DEF SteadyInv, LifeInv, CallsOK
      <4>3. c.run \in DOMAIN L[d] BY <1>r, <4>1 DEF Latest
      <4> QED BY <3>3, <3>4, <4>2, <4>3
    <3>6. Len(L[d]) + 1 + 1 \notin DOMAIN runs'[d]
      <4>1. Len(L[d]) \in Nat /\ DOMAIN L[d] = 1..Len(L[d]) BY <3>2
      <4> QED BY <3>4, <4>1
    <3>7. \A c \in subs : c.run \in DOMAIN runs'[c.id] /\ c.run + 1 \notin DOMAIN runs'[c.id]
      BY <1>t, <1>r, <3>4, <3>5 DEF Latest, Calls
    <3> QED BY <3>1, <3>3, <3>4, <3>6, <3>7 DEF Latest
  <2> QED BY <1>r, <2>1, <2>2 DEF Ran
<1>l. ASSUME NEW P, Launch(P) PROVE Latest(runs', subs')
  BY <1>t, <1>l, <1>r, LaunchRan
<1>1. CASE Quiet BY <1>1, <1>s DEF Quiet
<1>2. CASE Asking BY <1>2, <1>s DEF Asking
<1>3. CASE Replying BY <1>3, <1>s DEF Replying
<1>4. CASE Starting BY <1>4, <1>l DEF Starting
<1>5. CASE Adding BY <1>5, <1>l DEF Adding
<1>6. CASE Booting BY <1>6, <1>l DEF Booting
<1>7. CASE Completing
  <2>1. PICK c \in polls, slots \in Slots, mid \in Slots, outcome \in Outcomes :
          /\ c.id \in Ids /\ Open(runs, c.id, st[c.id].run)
          /\ Ran(mid, End(runs, c.id, st[c.id].run, outcome), Dec(count), pos)
    BY <1>7, VerdictFacts
  <2>2. st[c.id].run \in DOMAIN runs[c.id] BY <2>1 DEF Open
  <2>3. /\ End(runs, c.id, st[c.id].run, outcome) \in Ledgers
        /\ \A j \in Ids : DOMAIN End(runs, c.id, st[c.id].run, outcome)[j] = DOMAIN runs[j]
    BY <1>t, <2>1, <2>2, EndInLedgers, EndFacts
  <2> QED BY <1>r, <2>1, <2>3
<1>8. CASE Stopping
  <2>1. PICK i \in Ids : /\ Open(runs, i, st[i].run)
                         /\ runs' = End(runs, i, st[i].run, "stopped") /\ subs' = subs
    BY <1>8, StoppedFacts
  <2>2. \A j \in Ids : DOMAIN runs'[j] = DOMAIN runs[j]
    BY <1>t, <2>1, EndFacts DEF Open, Outcomes
  <2> QED BY <1>s, <2>1, <2>2
<1>9. CASE RcdMoves
  <2>1. PICK x \in Ids, p \in Phases : \E r \in DOMAIN runs[x] :
          runs' = [runs EXCEPT ![x][r].phase = p] /\ subs' = subs
    BY <1>9 DEF RcdMoves
  <2>2. \A j \in Ids : DOMAIN runs'[j] = DOMAIN runs[j] BY <1>t, <2>1, PhaseFacts
  <2> QED BY <1>s, <2>1, <2>2
<1>10. CASE Ending BY <1>10, <1>t, <1>s, DownFacts
<1>11. ASSUME NEW c \in subs, SubmitFailed(c) PROVE Latest(runs', subs')
  <2>1. c.id \in Ids /\ c.run \in DOMAIN runs[c.id] /\ subs' \subseteq subs
    BY <1>11, FailedFacts
  <2>2. PICK p \in Phases :
          runs' = End([runs EXCEPT ![c.id][c.run].phase = p], c.id, c.run, "rejected")
    BY <1>11, FailedFacts
  <2> DEFINE M == [runs EXCEPT ![c.id][c.run].phase = p]
  <2>3. M \in Ledgers /\ \A j \in Ids : DOMAIN M[j] = DOMAIN runs[j]
    BY <1>t, <2>1, PhaseInLedgers, PhaseFacts
  <2>4. runs' = End(M, c.id, c.run, "rejected") BY <2>2
  <2> HIDE DEF M
  <2>5. \A j \in Ids : DOMAIN runs'[j] = DOMAIN M[j]
    BY <2>1, <2>3, <2>4, EndFacts DEF Outcomes
  <2> QED BY <1>s, <2>1, <2>3, <2>5
<1>12. ASSUME NEW c \in subs, SubmitAccepted(c) PROVE Latest(runs', subs')
  <2>1. subs' \subseteq subs /\ runs' = runs BY <1>12, AcceptedFacts
  <2> QED BY <1>s, <2>1
<1>13. ~ \E j \in Ids : DeleteJob(j) BY DEF DeleteJob
<1> QED BY <1>t, <1>1, <1>2, <1>3, <1>4, <1>5, <1>6, <1>7, <1>8, <1>9, <1>10, <1>11, <1>12,
           <1>13, EveryStep DEF StepKind

\* No stop is under way when nobody may ask for one.
LEMMA NoStops ==
  ASSUME Stoppable = {}, stops = {}, [Next]_vars
  PROVE  stops' = {}
<1>1. CASE User
  BY <1>1 DEF User, RunJob, StopJob, AddJob, UpdateJob, DeleteJob, WatchEvent
<1>2. CASE MainLoop
  BY <1>2 DEF MainLoop, SchedTimer, RetryTimer, WatchTimer, PollTick, ResyncIdle, SubmitFailed,
              SubmitAccepted, StatusIgnored, StatusAnswered, StatusMissed, StopAnswered
<1>3. CASE Rcd
  BY <1>3 DEF Rcd, RcdAccepts, RcdFinishes, RcdStops, RcdForgets, Becomes, callVars
<1>4. CASE Lifecycle BY <1>4 DEF Lifecycle, Stop, Crash, GoDown, Boot
<1>5. CASE UNCHANGED vars BY <1>5 DEF vars, callVars
<1> QED BY <1>1, <1>2, <1>3, <1>4, <1>5 DEF Next

SchedInv == stops = {} /\ Latest(runs, subs) /\ ScheduleKept

\* While nobody deletes or stops a job, a job whose enabled schedule has a next
\* occurrence whenever schedule_job looks (it is not Sparse) never drops out of
\* it, unless its last start was refused: its timer is armed, or it
\* is busy, or a retry or resync of it is in store, whatever is edited, lost,
\* forgotten or restarted.  (A stop of a run that the schedule started leaves the
\* job without a timer.)
THEOREM ScheduleIsKept ==
  ASSUME Deletable = {}, Stoppable = {}
  PROVE  Spec => []ScheduleKept
<1>1. Init => SchedInv
  <2> SUFFICES ASSUME Init PROVE SchedInv
    OBVIOUS
  <2>1. ASSUME NEW j \in Ids \ Sparse, pos[j] # 0, sched[j]
        PROVE  Timer("sched", pos[j], j) \in timers
    <3>1. PICK none \in SUBSET Sparse : timers = ScheduleAll({}, pos, sched, none)
      BY DEF Init
    <3> QED BY <2>1, <3>1 DEF ScheduleAll
  <2> QED BY <2>1 DEF SchedInv, ScheduleKept, InList, Latest, Init
<1>2. SteadyInv /\ SteadyInv' /\ SchedInv /\ [Next]_vars => SchedInv'
  <2> SUFFICES ASSUME SteadyInv, SteadyInv', SchedInv, [Next]_vars PROVE SchedInv'
    OBVIOUS
  <2>1. stops' = {} BY NoStops DEF SchedInv
  <2>2. Latest(runs', subs') BY NextLatest DEF SchedInv
  <2>3. ASSUME NEW j \in Ids \ Sparse, up', pos'[j] # 0, sched'[j] PROVE Provided(j)'
    <3>1. TypeOK /\ ListOK /\ DownOK BY DEF SteadyInv, LifeInv
    <3>2. CASE UNCHANGED vars
      BY <2>3, <3>2 DEF vars, daemonVars, SchedInv, ScheduleKept, InList, Provided
    <3>3. CASE Next
      BY <2>3, <3>1, <3>3, StepKinds, RequestsProvide, SourcesProvide, AnswersProvide,
         OutsideProvides DEF SchedInv
    <3> QED BY <3>2, <3>3
  <2>4. ScheduleKept' BY <2>3 DEF ScheduleKept, InList, Provided
  <2> QED BY <2>1, <2>2, <2>4 DEF SchedInv
<1>3. SchedInv => ScheduleKept BY DEF SchedInv
<1> QED BY <1>1, <1>2, <1>3, SteadyAlways, PTL DEF Spec

-----------------------------------------------------------------------------
(* A row of automatic runs is bounded *)

\* The starts that the retry budget still pays for: what is left of it, and all
\* of it again when a retry is in store while another run is under way, since
\* the verdict of that run gives the budget back; ...
Row(w, a, r) ==
  IF "retry" \in a THEN (IF w = "idle" THEN MaxRetries + 1 - r ELSE MaxRetries + 1)
  ELSE IF w = "idle" THEN 0 ELSE MaxRetries - r

\* ... and with the resync, which may be followed by a row of its own. Nothing
\* starts a job that is idle and has nothing in store.
Spare(w, a, r, v) ==
  IF w = "idle" /\ a = {} THEN 0
  ELSE Row(w, a, r) + (IF "resync" \in a \/ ~v THEN MaxRetries + 1 ELSE 0)

SpareOf(j) == Spare(WorkOf(j), AheadOf(j), st[j].retries, st[j].resyncTried)

\* The budget is respected, and a resync is in store only once it is tried.
Budget(a, r, v) == r <= MaxRetries /\ ("resync" \in a => v)
Budgeted(j) == Budget(AheadOf(j), st[j].retries, st[j].resyncTried)

Longest == 2 * (MaxRetries + 1)

LEMMA SpareRange ==
  ASSUME NEW w, NEW a, NEW r \in Nat, NEW v, Budget(a, r, v)
  PROVE  Spare(w, a, r, v) \in Nat /\ Spare(w, a, r, v) <= Longest
BY NumbersAssumption DEF Spare, Row, Budget, Longest

\* What happens to work under way never adds to the starts that are left.
LEMMA SpareShrinks ==
  ASSUME NEW w, NEW x, NEW a, NEW b, NEW r \in Nat, NEW q \in Nat, NEW v, NEW u,
         Budget(a, r, v),
         \/ x = w /\ b = a /\ q = r /\ u = v
         \/ w # "idle" /\ b \subseteq a /\ q = r /\ u = v
         \/ w = "tracked" /\ x = "idle" /\ r < MaxRetries /\ q = r + 1 /\ b = a \cup {"retry"} /\ u = v
         \/ w = "tracked" /\ x = "idle" /\ v = FALSE /\ u = TRUE /\ b = a \cup {"resync"} /\ q = r
         \/ w = "tracked" /\ q = 0 /\ b = a /\ u = v /\ x = "idle"
         \/ x = "idle" /\ b = {} /\ q = 0
  PROVE  Budget(b, q, u) /\ Spare(x, b, q, u) <= Spare(w, a, r, v)
BY NumbersAssumption, SMTT(60) DEF Spare, Row, Budget

\* A start from the store uses one of them up.
LEMMA SpareUsed ==
  ASSUME NEW a, NEW s \in a, s \in {"retry", "resync"}, NEW r \in Nat, NEW v, Budget(a, r, v)
  PROVE  Spare("asked", a \ {s}, r, v) + 1 <= Spare("idle", a, r, v)
BY NumbersAssumption DEF Spare, Row, Budget

Asks(j) == WorkOf(j) # "asked" /\ WorkOf(j)' = "asked"

\* A step keeps a job within its budget, and adds nothing to the starts left
\* to it unless it starts the job.
Tends(j) == Budgeted(j)' /\ (SpareOf(j)' <= SpareOf(j) \/ Asks(j))

\* The life of a job tends to an end between the starts that the user, the
\* schedule and the watch ask for.
LEMMA LifeTends ==
  ASSUME TypeOK, TypeOK', NEW j \in Ids, Budgeted(j), Lives(j)
  PROVE  Tends(j)
<1> DEFINE w == WorkOf(j)
           a == AheadOf(j)
           r == st[j].retries
           v == st[j].resyncTried
<1>t. /\ r \in Nat /\ r' \in Nat /\ v \in BOOLEAN /\ v' \in BOOLEAN
      /\ Budget(a, r, v)
  BY DEF TypeOK, Slot, Budgeted
<1>1. CASE UNCHANGED Life(j)!lifeVars
  <2>1. w' = w /\ a' = a /\ r' = r /\ v' = v BY <1>1 DEF Life!lifeVars
  <2> HIDE DEF w, a, r, v
  <2>2. Budget(a', r', v') /\ Spare(w', a', r', v') <= Spare(w, a, r, v)
    BY <1>t, <2>1, SpareShrinks
  <2> QED BY <2>2 DEF Tends, Budgeted, SpareOf, w, a, r, v
<1>2. CASE Life(j)!Begin({}) \/ \E s \in AheadOf(j) : Life(j)!Begin({s})
  <2>1. /\ \E s : a' = a \ s
        /\ r' = r /\ v' = v /\ Asks(j)
    BY <1>2 DEF Life!Begin, Asks
  <2> HIDE DEF w, a, r, v
  <2>2. Budget(a', r', v') BY <1>t, <2>1 DEF Budget
  <2> QED BY <2>1, <2>2 DEF Tends, Budgeted, a, r, v
<1>3. CASE \E again \in BOOLEAN : Life(j)!Concludes(again)
  <2>1. /\ w = "tracked" /\ r' = 0 /\ a' = a /\ v' = v
        /\ w' = "idle" \/ Asks(j)
    BY <1>3 DEF Life!Concludes, Asks
  <2> HIDE DEF w, a, r, v
  <2>2. Budget(a', r', v') BY <1>t, <2>1, NumbersAssumption DEF Budget
  <2>3. w' = "idle" => Spare(w', a', r', v') <= Spare(w, a, r, v)
    BY <1>t, <2>1, SpareShrinks
  <2> QED BY <2>1, <2>2, <2>3 DEF Tends, Budgeted, SpareOf, w, a, r, v
<1>4. CASE \/ \E s \in AheadOf(j) : Life(j)!Overtaken(s)
           \/ Life(j)!Accepted \/ Life(j)!Rejected \/ Life(j)!TriesAgain \/ Life(j)!Resyncs
           \/ Life(j)!StopAsked \/ Life(j)!Stopped \/ Life(j)!Forgotten
  <2>1. \/ w # "idle" /\ a' \subseteq a /\ r' = r /\ v' = v
        \/ w = "tracked" /\ w' = "idle" /\ r < MaxRetries /\ r' = r + 1 /\ a' = a \cup {"retry"}
             /\ v' = v
        \/ w = "tracked" /\ w' = "idle" /\ v = FALSE /\ v' = TRUE /\ a' = a \cup {"resync"} /\ r' = r
        \/ w' = "idle" /\ a' = {} /\ r' = 0
    BY <1>4, <1>t DEF Life!Overtaken, Life!Accepted, Life!Rejected, Life!TriesAgain, Life!Resyncs,
                Life!StopAsked, Life!Stopped, Life!Forgotten
  <2> HIDE DEF w, a, r, v
  <2>2. Budget(a', r', v') /\ Spare(w', a', r', v') <= Spare(w, a, r, v)
    <3>1. CASE w # "idle" /\ a' \subseteq a /\ r' = r /\ v' = v
      BY <1>t, <3>1, SpareShrinks
    <3>2. CASE w = "tracked" /\ w' = "idle" /\ r < MaxRetries /\ r' = r + 1
                 /\ a' = a \cup {"retry"} /\ v' = v
      BY <1>t, <3>2, SpareShrinks
    <3>3. CASE w = "tracked" /\ w' = "idle" /\ v = FALSE /\ v' = TRUE /\ a' = a \cup {"resync"} /\ r' = r
      BY <1>t, <3>3, SpareShrinks
    <3>4. CASE w' = "idle" /\ a' = {} /\ r' = 0 BY <1>t, <3>4, SpareShrinks
    <3> QED BY <2>1, <3>1, <3>2, <3>3, <3>4
  <2> QED BY <2>2 DEF Tends, Budgeted, SpareOf, w, a, r, v
<1> QED BY <1>1, <1>2, <1>3, <1>4 DEF Lives, Life!LifeNext

\* An edit clears the flag that shows the job as running, and may start it.
LEMMA SameTends ==
  ASSUME TypeOK, NEW j \in Ids, Budgeted(j), SameArms(j),
         st'[j].retries = st[j].retries, st'[j].resyncTried = st[j].resyncTried,
         WorkOf(j)' = WorkOf(j) \/ Asks(j)
  PROVE  Tends(j)
<1>1. AheadOf(j)' = AheadOf(j) BY DEF SameArms, AheadOf
<1>2. Budgeted(j)' BY <1>1 DEF Budgeted, Budget
<1>3. WorkOf(j)' = WorkOf(j) => SpareOf(j)' = SpareOf(j) BY <1>1 DEF SpareOf
<1>4. SpareOf(j) \in Nat BY SpareRange DEF TypeOK, Slot, Budgeted, SpareOf
<1> QED BY <1>2, <1>3, <1>4 DEF Tends

\* Ledgers of a job that tell of the same starts, ...
SameTrigs(s, t) == Len(t) = Len(s) /\ \A k \in DOMAIN s : t[k].trig = s[k].trig

\* ... and of one more
Grown(s, t, trig) ==
  /\ Len(t) = Len(s) + 1
  /\ \A k \in DOMAIN s : t[k].trig = s[k].trig
  /\ t[Len(t)].trig = trig

\* Every automatic run has its opening run near, ...
Rows(s) == \A k \in DOMAIN s : \E i \in 0..Longest : i < k /\ s[k - i].trig \notin Automatic

\* ... and near enough for the n automatic starts that are still to come.
Near(s, n) ==
  n = 0 \/ \E i \in 0..Longest : i + n <= Longest /\ i < Len(s) /\ s[Len(s) - i].trig \notin Automatic

LEMMA RowSame ==
  ASSUME NEW s \in Seq(Run), NEW t \in Seq(Run), SameTrigs(s, t), Rows(s),
         NEW n \in Nat, NEW m \in Nat, Near(s, n), m <= n
  PROVE  Rows(t) /\ Near(t, m)
<1>0. /\ Longest \in Nat /\ Len(s) \in Nat /\ Len(t) = Len(s)
      /\ DOMAIN s = 1..Len(s) /\ DOMAIN t = 1..Len(s)
  BY NumbersAssumption DEF SameTrigs, Longest
<1>1. ASSUME NEW k \in DOMAIN t
      PROVE  \E i \in 0..Longest : i < k /\ t[k - i].trig \notin Automatic
  <2>1. PICK i \in 0..Longest : i < k /\ s[k - i].trig \notin Automatic BY <1>0 DEF Rows
  <2>2. k - i \in DOMAIN s BY <1>0, <2>1
  <2> QED BY <2>1, <2>2 DEF SameTrigs
<1>2. CASE n = 0
  <2>1. m = 0 BY <1>2
  <2> QED BY <1>1, <2>1 DEF Rows, Near
<1>3. CASE n # 0
  <2>1. PICK i \in 0..Longest :
          i + n <= Longest /\ i < Len(s) /\ s[Len(s) - i].trig \notin Automatic
    BY <1>3 DEF Near
  <2>2. Len(s) - i \in DOMAIN s BY <1>0, <2>1
  <2>3. i + m <= Longest BY <1>0, <2>1
  <2>4. t[Len(t) - i].trig \notin Automatic BY <1>0, <2>1, <2>2 DEF SameTrigs
  <2> QED BY <1>0, <1>1, <2>1, <2>3, <2>4 DEF Rows, Near
<1> QED BY <1>2, <1>3

LEMMA RowGrown ==
  ASSUME NEW s \in Seq(Run), NEW t \in Seq(Run), NEW trig, Grown(s, t, trig), Rows(s),
         NEW n \in Nat, NEW m \in Nat, Near(s, n), m <= Longest,
         trig \in Automatic => m + 1 <= n
  PROVE  Rows(t) /\ Near(t, m)
<1>0. /\ Longest \in Nat /\ Len(s) \in Nat /\ Len(t) = Len(s) + 1
      /\ DOMAIN s = 1..Len(s) /\ DOMAIN t = 1..(Len(s) + 1)
  BY NumbersAssumption DEF Grown, Longest
<1>1. ASSUME NEW k \in DOMAIN s
      PROVE  \E i \in 0..Longest : i < k /\ t[k - i].trig \notin Automatic
  <2>1. PICK i \in 0..Longest : i < k /\ s[k - i].trig \notin Automatic BY <1>0 DEF Rows
  <2>2. k - i \in DOMAIN s BY <1>0, <2>1
  <2> QED BY <2>1, <2>2 DEF Grown
<1>2. \E i \in 0..Longest :
        i + m <= Longest /\ i < Len(t) /\ t[Len(t) - i].trig \notin Automatic
  <2>1. CASE trig \notin Automatic
    <3>1. t[Len(t) - 0].trig \notin Automatic BY <1>0, <2>1 DEF Grown
    <3> QED BY <1>0, <3>1
  <2>2. CASE trig \in Automatic
    <3>1. PICK i \in 0..Longest :
            i + n <= Longest /\ i < Len(s) /\ s[Len(s) - i].trig \notin Automatic
      BY <2>2 DEF Near
    <3>2. Len(s) - i \in DOMAIN s /\ Len(t) - (i + 1) = Len(s) - i BY <1>0, <3>1
    <3>3. t[Len(t) - (i + 1)].trig \notin Automatic BY <3>1, <3>2 DEF Grown
    <3>4. i + 1 \in 0..Longest /\ (i + 1) + m <= Longest /\ i + 1 < Len(t)
      BY <1>0, <2>2, <3>1
    <3> QED BY <3>3, <3>4
  <2> QED BY <2>1, <2>2
<1>3. \A k \in DOMAIN t : k \in DOMAIN s \/ k = Len(t) BY <1>0
<1>4. Near(t, m) BY <1>2 DEF Near
<1>5. Rows(t) BY <1>1, <1>2, <1>3 DEF Rows
<1> QED BY <1>4, <1>5

\* A step moves a job: nothing starts and no start is added to those left, or
\* a run starts, and if it starts by itself it uses one of them up.
Moves(j) ==
  \/ SameTrigs(runs[j], runs'[j]) /\ SpareOf(j)' <= SpareOf(j)
  \/ \E trig \in Triggers :
       Grown(runs[j], runs'[j], trig) /\ (trig \in Automatic => SpareOf(j)' + 1 <= SpareOf(j))

LEMMA RunTrigs ==
  ASSUME NEW slots \in Slots, NEW L \in Ledgers, NEW n, NEW P, NEW due, NEW trig \in Triggers,
         OnRunJob(slots, L, n, P, due, trig), NEW j \in Ids, SameTrigs(runs[j], L[j])
  PROVE  \/ st'[j] = slots[j] /\ SameTrigs(runs[j], runs'[j])
         \/ j \in due /\ ~Busy(slots[j]) /\ WorkOf(j)' = "asked" /\ Grown(runs[j], runs'[j], trig)
            /\ st'[j].retries = slots[j].retries /\ st'[j].resyncTried = slots[j].resyncTried
<1>0. slots[j] \in Slot /\ L[j] \in Seq(Run) BY DEF Slots, Ledgers
<1>1. CASE j \in Going(slots, due)
  <2> DEFINE e == NewRun(trig, slots[j].resync)
  <2>1. /\ st'[j] = [slots[j] EXCEPT !.submitting = TRUE, !.running = TRUE, !.resync = FALSE]
        /\ runs'[j] = Append(L[j], e)
    BY <1>1 DEF OnRunJob
  <2>2. j \in due /\ ~Busy(slots[j]) BY <1>1 DEF Going
  <2>3. /\ st'[j].retries = slots[j].retries /\ st'[j].resyncTried = slots[j].resyncTried
        /\ st'[j].run = 0 /\ st'[j].submitting
    BY <1>0, <2>1, <2>2 DEF Slot, Busy
  <2>4. WorkOf(j)' = "asked" BY <2>3 DEF WorkOf
  <2>5. e \in Run /\ e.trig = trig BY <1>0 DEF NewRun, Run, Phases, Slot
  <2> HIDE DEF e
  <2>6. /\ DOMAIN runs'[j] = DOMAIN L[j] \cup {Len(L[j]) + 1}
        /\ \A k \in DOMAIN L[j] : runs'[j][k] = L[j][k]
        /\ runs'[j][Len(L[j]) + 1] = e
        /\ Len(runs'[j]) = Len(L[j]) + 1
    BY <1>0, <2>1, <2>5, AppendFacts
  <2> QED BY <2>2, <2>3, <2>4, <2>5, <2>6 DEF SameTrigs, Grown
<1>2. CASE j \notin Going(slots, due)
  <2>1. st'[j] = slots[j] /\ runs'[j] = L[j] BY <1>2 DEF OnRunJob
  <2> QED BY <2>1
<1> QED BY <1>1, <1>2

LEMMA BeginMoves ==
  ASSUME NEW slots \in Slots, NEW L \in Ledgers, NEW n, NEW P, NEW due,
         NEW trig \in Triggers \ Automatic, OnRunJob(slots, L, n, P, due, trig),
         NEW j \in Ids, SameTrigs(runs[j], L[j]), Tends(j),
         \/ slots[j].run = st[j].run /\ slots[j].submitting = st[j].submitting
         \/ ~slots[j].submitting
  PROVE  Moves(j)
<1>1. CASE st'[j] = slots[j] /\ SameTrigs(runs[j], runs'[j])
  <2>1. ~Asks(j) BY <1>1 DEF Asks, WorkOf
  <2> QED BY <1>1, <2>1 DEF Tends, Moves
<1>2. CASE Grown(runs[j], runs'[j], trig) BY <1>2 DEF Moves
<1> QED BY <1>1, <1>2, RunTrigs

\* A start from the store
LEMMA StoredMoves ==
  ASSUME TypeOK, NEW n, NEW P, NEW due, NEW trig \in Automatic,
         OnRunJob(st, runs, n, P, due, trig), NEW j \in Ids, Budgeted(j), Tends(j),
         NEW s, s \in AheadOf(j), AheadOf(j)' = AheadOf(j) \ {s}
  PROVE  Moves(j)
<1>0. st \in Slots /\ runs \in Ledgers /\ trig \in Triggers BY TypeShape DEF Automatic, Triggers
<1>s. SameTrigs(runs[j], runs[j]) BY DEF SameTrigs
<1>1. CASE st'[j] = st[j] /\ SameTrigs(runs[j], runs'[j])
  <2>1. ~Asks(j) BY <1>1 DEF Asks, WorkOf
  <2> QED BY <1>1, <2>1 DEF Tends, Moves
<1>2. CASE /\ ~Busy(st[j]) /\ WorkOf(j)' = "asked" /\ Grown(runs[j], runs'[j], trig)
           /\ st'[j].retries = st[j].retries /\ st'[j].resyncTried = st[j].resyncTried
  <2>1. WorkOf(j) = "idle" BY <1>2 DEF Busy, WorkOf
  <2>2. s \in {"retry", "resync"} BY DEF AheadOf
  <2>3. st[j].retries \in Nat /\ Budget(AheadOf(j), st[j].retries, st[j].resyncTried)
    BY <1>0 DEF Slots, Slot, Budgeted
  <2>4. Spare("asked", AheadOf(j) \ {s}, st[j].retries, st[j].resyncTried) + 1
          <= Spare("idle", AheadOf(j), st[j].retries, st[j].resyncTried)
    BY <2>2, <2>3, SpareUsed
  <2>5. SpareOf(j)' + 1 <= SpareOf(j) BY <1>2, <2>1, <2>4 DEF SpareOf
  <2> QED BY <1>0, <1>2, <2>5 DEF Moves
<1> QED BY <1>0, <1>s, <1>1, <1>2, RunTrigs

LEMMA CalmMoves ==
  ASSUME NEW j \in Ids, Tends(j), SameTrigs(runs[j], runs'[j]),
         WorkOf(j)' # "asked" \/ WorkOf(j)' = WorkOf(j)
  PROVE  Moves(j)
BY DEF Tends, Moves, Asks

LEMMA RequestsMove ==
  ASSUME LifeInv, TypeOK', Requests \/ Edits, NEW j \in Ids, Budgeted(j)
  PROVE  Tends(j) /\ Moves(j)
<1>t. TypeOK /\ st \in Slots /\ runs \in Ledgers BY TypeShape DEF LifeInv
<1>s. SameTrigs(runs[j], runs[j]) BY DEF SameTrigs
<1>n. \A s \in Slots : /\ NoPending(s) \in Slots /\ NoPending(s)[j].run = s[j].run
                       /\ NoPending(s)[j].submitting = s[j].submitting
                       /\ NoPending(s)[j].retries = s[j].retries
                       /\ NoPending(s)[j].resyncTried = s[j].resyncTried
  <2> SUFFICES ASSUME NEW s \in Slots
               PROVE  /\ NoPending(s) \in Slots /\ NoPending(s)[j].run = s[j].run
                      /\ NoPending(s)[j].submitting = s[j].submitting
                      /\ NoPending(s)[j].retries = s[j].retries
                      /\ NoPending(s)[j].resyncTried = s[j].resyncTried
    OBVIOUS
  <2>1. NoPending(s) \in Slots BY PendingAgrees
  <2> QED BY <2>1 DEF NoPending, Slots, Slot
<1>k. {"user", "sched", "watch"} \subseteq Triggers \ Automatic BY DEF Triggers, Automatic
<1>l. CASE Requests
  <2>t. Tends(j) BY <1>t, <1>l, RequestsLive, LifeTends
  <2>1. ASSUME NEW i \in Ids, RunJob(i) PROVE Moves(j)
    <3>1. OnRunJob(st, runs, count, pos, {i}, "user") BY <2>1 DEF RunJob
    <3> QED BY <1>t, <1>s, <1>k, <2>t, <3>1, BeginMoves
  <2>2. ASSUME NEW i \in Ids, StopJob(i) PROVE Moves(j)
    <3>1. st' = st /\ runs' = runs BY <2>2 DEF StopJob
    <3>2. WorkOf(j)' = WorkOf(j) BY <3>1 DEF WorkOf
    <3> QED BY <1>s, <2>t, <3>1, <3>2, CalmMoves
  <2>3. ASSUME NEW i \in Ids, AddJob(i) PROVE Moves(j)
    <3>1. PICK due : OnRunJob(NoPending(st), runs, count, pos', due, "sched")
      BY <2>3 DEF AddJob
    <3> QED BY <1>t, <1>s, <1>n, <1>k, <2>t, <3>1, BeginMoves
  <2>4. ASSUME NEW i \in Ids, WatchEvent(i) PROVE Moves(j)
    <3>1. runs' = runs BY <2>4 DEF WatchEvent
    <3>2. st'[j].run = st[j].run /\ st'[j].submitting = st[j].submitting
      BY <1>t, <2>4 DEF WatchEvent, Slots, Slot
    <3>3. WorkOf(j)' = WorkOf(j) BY <3>2 DEF WorkOf
    <3> QED BY <1>s, <2>t, <3>1, <3>3, CalmMoves
  <2> QED BY <1>l, <2>t, <2>1, <2>2, <2>3, <2>4 DEF Requests
<1>e. CASE Edits
  <2>1. PICK i \in Ids : UpdateJob(i) BY <1>e DEF Edits
  <2> DEFINE s == [st EXCEPT ![i].running = FALSE]
  <2>2. PICK due \in DueSets(pos, sched'), none \in SUBSET Sparse :
          /\ timers' = NoWatchTimers(ScheduleAll(timers, pos, sched', due \cup none))
          /\ OnRunJob(NoPending(s), runs, count, pos, due, "sched")
    BY <2>1 DEF UpdateJob
  <2>3. UNCHANGED idles BY <2>1 DEF UpdateJob
  <2>4. SameArms(j)
    BY <2>2, <2>3 DEF SameArms, RetryArmed, ResyncArmed, NoWatchTimers, ScheduleAll, Timer
  <2>5. s \in Slots BY ZenonT(60), <1>t DEF Slots, Slot
  <2>6. /\ s[j].run = st[j].run /\ s[j].submitting = st[j].submitting
        /\ s[j].retries = st[j].retries /\ s[j].resyncTried = st[j].resyncTried
    BY <1>t DEF Slots, Slot
  <2> HIDE DEF s
  <2> DEFINE slots == NoPending(s)
  <2>7. /\ slots \in Slots
        /\ slots[j].run = st[j].run /\ slots[j].submitting = st[j].submitting
        /\ slots[j].retries = st[j].retries /\ slots[j].resyncTried = st[j].resyncTried
    BY <1>n, <2>5, <2>6
  <2> HIDE DEF slots
  <2>8. OnRunJob(slots, runs, count, pos, due, "sched") BY <2>2 DEF slots
  <2>9. /\ st'[j].retries = st[j].retries /\ st'[j].resyncTried = st[j].resyncTried
        /\ WorkOf(j)' = WorkOf(j) \/ Asks(j)
    <3>1. CASE st'[j] = slots[j]
      <4>1. WorkOf(j)' = WorkOf(j) BY <2>7, <3>1 DEF WorkOf
      <4> QED BY <2>7, <3>1, <4>1
    <3>2. CASE /\ ~Busy(slots[j]) /\ WorkOf(j)' = "asked"
               /\ st'[j].retries = slots[j].retries /\ st'[j].resyncTried = slots[j].resyncTried
      <4>1. WorkOf(j) = "idle" BY <2>7, <3>2 DEF Busy, WorkOf
      <4> QED BY <2>7, <3>2, <4>1 DEF Asks
    <3> QED BY <1>t, <1>s, <1>k, <2>7, <2>8, <3>1, <3>2, RunTrigs
  <2>t. Tends(j) BY <1>t, <2>4, <2>9, SameTends
  <2> QED BY <1>t, <1>s, <1>k, <2>7, <2>8, <2>t, BeginMoves
<1> QED BY <1>l, <1>e

LEMMA SourcesMove ==
  ASSUME LifeInv, TypeOK', Sources, NEW j \in Ids, Budgeted(j)
  PROVE  Tends(j) /\ Moves(j)
<1>t. /\ TypeOK /\ st \in Slots /\ runs \in Ledgers /\ timers \subseteq Timers
      /\ idles \subseteq [idx : Nat, id : Ids]
  BY TypeShape DEF LifeInv
<1>s. SameTrigs(runs[j], runs[j]) BY DEF SameTrigs
<1>k. {"sched", "watch"} \subseteq Triggers \ Automatic /\ {"retry", "resync"} \subseteq Automatic
      /\ Automatic \subseteq Triggers
  BY DEF Triggers, Automatic
<1>e. Tends(j) BY <1>t, SourcesLive, LifeTends
\* on_run_job for another job
<1>o. ASSUME NEW due, NEW trig \in Triggers, OnRunJob(st, runs, count, pos, due, trig), j \notin due
      PROVE  Moves(j)
  <2>1. st'[j] = st[j] /\ SameTrigs(runs[j], runs'[j]) BY <1>t, <1>s, <1>o, RunTrigs
  <2>2. WorkOf(j)' = WorkOf(j) BY <2>1 DEF WorkOf
  <2> QED BY <1>e, <2>1, <2>2, CalmMoves
<1>1. ASSUME NEW t \in timers, SchedTimer(t) PROVE Moves(j)
  <2>1. PICK due : OnRunJob(st, runs, count, pos, due, "sched") BY <1>1 DEF SchedTimer
  <2> QED BY <1>t, <1>s, <1>k, <1>e, <2>1, BeginMoves
<1>2. ASSUME NEW t \in timers, RetryTimer(t) PROVE Moves(j)
  <2>1. OnRunJob(st, runs, count, pos, {t.id}, "retry") BY <1>t, <1>2, RetryTaken
  <2>2. CASE t.id = j
    <3>1. "retry" \in AheadOf(j) /\ AheadOf(j)' = AheadOf(j) \ {"retry"} BY <1>2, <2>2, RetryTaken
    <3> QED BY <1>t, <1>k, <1>e, <2>1, <3>1, StoredMoves
  <2>3. CASE t.id # j
    <3>1. j \notin {t.id} BY <2>3
    <3> QED BY <1>k, <1>o, <2>1, <3>1
  <2> QED BY <2>2, <2>3
<1>3. ASSUME NEW t \in timers, WatchTimer(t) PROVE Moves(j)
  <2>1. CASE Valid(t)
    <3> DEFINE slots == [st EXCEPT ![t.id].pending = FALSE]
    <3>1. OnRunJob(slots, runs, count, pos, {t.id}, "watch") BY <1>3, <2>1 DEF WatchTimer
    <3>2. slots \in Slots BY ZenonT(60), <1>t DEF Slots, Slot
    <3>3. slots[j].run = st[j].run /\ slots[j].submitting = st[j].submitting
      BY <1>t DEF Slots, Slot
    <3> HIDE DEF slots
    <3> QED BY <1>t, <1>s, <1>k, <1>e, <3>1, <3>2, <3>3, BeginMoves
  <2>2. CASE ~Valid(t)
    <3>1. st' = st /\ runs' = runs BY <1>3, <2>2 DEF WatchTimer
    <3>2. WorkOf(j)' = WorkOf(j) BY <3>1 DEF WorkOf
    <3> QED BY <1>s, <1>e, <3>1, <3>2, CalmMoves
  <2> QED BY <2>1, <2>2
<1>4. ASSUME NEW t \in timers, PollTick(t) PROVE Moves(j)
  <2>1. runs' = runs BY <1>4 DEF PollTick
  <2>2. st'[j].run = st[j].run /\ st'[j].submitting = st[j].submitting
    BY <1>t, <1>4 DEF PollTick, Slots, Slot
  <2>3. WorkOf(j)' = WorkOf(j) BY <2>2 DEF WorkOf
  <2> QED BY <1>s, <1>e, <2>1, <2>3, CalmMoves
<1>5. ASSUME NEW c \in idles, ResyncIdle(c) PROVE Moves(j)
  <2>1. OnRunJob(st, runs, count, pos, {c.id}, "resync") BY <1>t, <1>5, ResyncTaken
  <2>2. CASE c.id = j
    <3>1. "resync" \in AheadOf(j) /\ AheadOf(j)' = AheadOf(j) \ {"resync"}
      BY <1>5, <2>2, ResyncTaken
    <3> QED BY <1>t, <1>k, <1>e, <2>1, <3>1, StoredMoves
  <2>3. CASE c.id # j
    <3>1. j \notin {c.id} BY <2>3
    <3> QED BY <1>k, <1>o, <2>1, <3>1
  <2> QED BY <2>2, <2>3
<1> QED BY <1>e, <1>1, <1>2, <1>3, <1>4, <1>5 DEF Sources

\* Ending a run, or its move in rcd, leaves what started it.
LEMMA EndTrigs ==
  ASSUME NEW L \in Ledgers, NEW x \in Ids, NEW r \in DOMAIN L[x], NEW o \in Outcomes, NEW j \in Ids
  PROVE  SameTrigs(L[j], End(L, x, r, o)[j])
<1> DEFINE M == End(L, x, r, o)
<1>1. /\ DOMAIN M[j] = DOMAIN L[j]
      /\ \A k \in DOMAIN L[j] : M[j][k].trig = L[j][k].trig
  BY EndFacts
<1>2. M \in Ledgers BY EndInLedgers
<1> HIDE DEF M
<1>3. Len(M[j]) = Len(L[j]) BY <1>1, <1>2, SameLength DEF Ledgers
<1> QED BY <1>1, <1>3 DEF SameTrigs, M

LEMMA PhaseTrigs ==
  ASSUME NEW L \in Ledgers, NEW x \in Ids, NEW r \in DOMAIN L[x], NEW p \in Phases, NEW j \in Ids
  PROVE  SameTrigs(L[j], [L EXCEPT ![x][r].phase = p][j])
<1> DEFINE M == [L EXCEPT ![x][r].phase = p]
<1>1. /\ DOMAIN M[j] = DOMAIN L[j]
      /\ \A k \in DOMAIN L[j] : M[j][k].trig = L[j][k].trig
  BY PhaseFacts
<1>2. M \in Ledgers BY PhaseInLedgers
<1> HIDE DEF M
<1>3. Len(M[j]) = Len(L[j]) BY <1>1, <1>2, SameLength DEF Ledgers
<1> QED BY <1>1, <1>3 DEF SameTrigs, M

\* The end of a tracked run starts nothing but a run of the schedule.
LEMMA CompletedMoves ==
  ASSUME TypeOK, NEW c \in Calls, NEW slots \in Slots, \A i \in Ids : Core(slots[i], st[i]),
         slots[c.id].run \in DOMAIN runs[c.id], ~slots[c.id].submitting,
         NEW outcome \in Outcomes, NEW nobase,
         OnJobCompleted(slots, runs, c, outcome, nobase), NEW j \in Ids, Tends(j)
  PROVE  Moves(j)
<1> DEFINE claimed == [slots EXCEPT ![c.id] = Claim(@)]
           ended   == End(runs, c.id, slots[c.id].run, outcome)
<1>t. runs \in Ledgers BY TypeShape
<1>c. c.id \in Ids /\ slots[c.id] \in Slot BY DEF Calls, Slots
<1>0. Claim(slots[c.id]) \in Slot /\ ~Claim(slots[c.id]).submitting BY <1>c DEF Claim, Slot
<1>1. /\ claimed \in Slots /\ claimed[c.id] \in Slot /\ ~claimed[c.id].submitting
      /\ \A i \in Ids : i # c.id => claimed[i] = slots[i]
  BY <1>c, <1>0 DEF Slots
<1>2. ended \in Ledgers /\ SameTrigs(runs[j], ended[j]) BY <1>c, <1>t, EndInLedgers, EndTrigs
<1>5. \/ ResyncRetry(claimed, ended, c)
      \/ BackoffRetry(claimed, ended, c)
      \/ FinalVerdict(claimed, ended, c)
  BY DEF OnJobCompleted
<1> HIDE DEF claimed, ended
\* what is done to the slot of c.id does not ask for a start
<1>s. ASSUME NEW s \in Slot, ~s.submitting, NEW mid, mid = [claimed EXCEPT ![c.id] = s]
      PROVE  /\ mid \in Slots
             /\ \/ mid[j].run = st[j].run /\ mid[j].submitting = st[j].submitting
                \/ ~mid[j].submitting
  <2>1. mid \in Slots BY <1>1, <1>s DEF Slots
  <2>2. CASE j = c.id BY <1>1, <1>s, <2>1, <2>2 DEF Slots
  <2>3. CASE j # c.id
    <3>1. mid[j] = slots[j] BY <1>1, <1>s, <2>3 DEF Slots
    <3> QED BY <2>1, <3>1 DEF Core
  <2> QED BY <2>2, <2>3
<1>r. ASSUME NEW s \in Slot, ~s.submitting, st' = [claimed EXCEPT ![c.id] = s], runs' = ended
      PROVE  Moves(j)
  <2>1. \/ st'[j].run = st[j].run /\ st'[j].submitting = st[j].submitting
        \/ ~st'[j].submitting
    BY <1>r, <1>s
  <2>2. WorkOf(j)' # "asked" \/ WorkOf(j)' = WorkOf(j) BY <2>1 DEF WorkOf
  <2> QED BY <1>2, <1>r, <2>2, CalmMoves
<1>6. CASE ResyncRetry(claimed, ended, c)
  <2> DEFINE s == [claimed[c.id] EXCEPT !.resyncTried = TRUE, !.resync = TRUE]
  <2>1. s \in Slot /\ ~s.submitting BY <1>1 DEF Slot
  <2>2. st' = [claimed EXCEPT ![c.id] = s] BY <1>c, <1>1, <1>6 DEF ResyncRetry, Slots
  <2>3. runs' = ended BY <1>6 DEF ResyncRetry
  <2> HIDE DEF s
  <2> QED BY <1>r, <2>1, <2>2, <2>3
<1>7. CASE BackoffRetry(claimed, ended, c)
  <2> DEFINE s == [claimed[c.id] EXCEPT !.retries = @ + 1]
  <2>1. s \in Slot /\ ~s.submitting BY <1>1 DEF Slot
  <2>2. st' = [claimed EXCEPT ![c.id] = s] BY <1>c, <1>1, <1>7 DEF BackoffRetry, Slots
  <2>3. runs' = ended BY <1>7 DEF BackoffRetry
  <2> HIDE DEF s
  <2> QED BY <1>r, <2>1, <2>2, <2>3
<1>8. CASE FinalVerdict(claimed, ended, c)
  <2> DEFINE s == [claimed[c.id] EXCEPT !.retries = 0, !.running = FALSE]
             done == [claimed EXCEPT ![c.id].retries = 0, ![c.id].running = FALSE]
  <2>1. PICK due : OnRunJob(done, ended, Dec(count), pos, due, "sched")
    BY <1>8 DEF FinalVerdict
  <2>2. s \in Slot /\ ~s.submitting BY <1>1 DEF Slot
  <2>3. done = [claimed EXCEPT ![c.id] = s] BY <1>c, <1>1 DEF Slots
  <2> HIDE DEF done, s
  <2>4. /\ done \in Slots
        /\ \/ done[j].run = st[j].run /\ done[j].submitting = st[j].submitting
           \/ ~done[j].submitting
    BY <1>s, <2>2, <2>3
  <2>5. "sched" \in Triggers \ Automatic BY DEF Triggers, Automatic
  <2> QED BY <1>2, <2>1, <2>4, <2>5, BeginMoves
<1> QED BY <1>5, <1>6, <1>7, <1>8

LEMMA AnswersMove ==
  ASSUME SteadyInv, TypeOK', Answers, NEW j \in Ids, Budgeted(j)
  PROVE  Tends(j) /\ Moves(j)
<1>t. /\ LifeInv /\ TypeOK /\ st \in Slots /\ runs \in Ledgers /\ subs \subseteq Calls
      /\ polls \subseteq Calls /\ stops \subseteq Calls
  BY TypeShape DEF SteadyInv, LifeInv
<1>e. Tends(j) BY <1>t, AnswersLive, LifeTends
<1>s. SameTrigs(runs[j], runs[j]) BY DEF SameTrigs
<1>o. \A i \in Ids : st[i].run # 0 => st[i].run \in DOMAIN runs[i] /\ ~st[i].submitting
  BY DEF SteadyInv, LifeInv, CallsOK, OwnerInv, Owned, Open
<1>1. ASSUME NEW c \in subs, SubmitFailed(c) PROVE Moves(j)
  <2>1. c.id \in Ids /\ c.run \in DOMAIN runs[c.id] BY <1>1, FailedFacts
  <2>2. PICK p \in Phases :
          runs' = End([runs EXCEPT ![c.id][c.run].phase = p], c.id, c.run, "rejected")
    BY <1>1 DEF SubmitFailed
  <2> DEFINE M == [runs EXCEPT ![c.id][c.run].phase = p]
  <2>3. M \in Ledgers /\ c.run \in DOMAIN M[c.id] /\ SameTrigs(runs[j], M[j])
    <3>1. M \in Ledgers BY <1>t, <2>1, PhaseInLedgers
    <3>2. DOMAIN M[c.id] = DOMAIN runs[c.id] BY <1>t, <2>1, PhaseFacts
    <3>3. SameTrigs(runs[j], M[j]) BY <1>t, <2>1, PhaseTrigs
    <3> HIDE DEF M
    <3> QED BY <2>1, <3>1, <3>2, <3>3
  <2>4. runs' = End(M, c.id, c.run, "rejected") /\ "rejected" \in Outcomes
    BY <2>2 DEF Outcomes
  <2> HIDE DEF M
  <2>5. SameTrigs(M[j], runs'[j]) BY <2>1, <2>3, <2>4, EndTrigs
  <2>6. M[j] \in Seq(Run) /\ runs[j] \in Seq(Run) BY <1>t, <2>3 DEF Ledgers
  <2>7. SameTrigs(runs[j], runs'[j]) BY <2>3, <2>5, <2>6 DEF SameTrigs
  <2>8. Valid(c) /\ st' = [ClearSubmitting(c.idx) EXCEPT ![c.id].running = FALSE]
    BY <1>t, <1>1, ClearsOne DEF SubmitFailed
  <2>9. st'[j].run = st[j].run /\ (~st'[j].submitting \/ st'[j].submitting = st[j].submitting)
    <3> DEFINE q == ClearSubmitting(c.idx)
    <3>1. /\ q \in Slots
          /\ q[j].run = st[j].run /\ (~q[j].submitting \/ q[j].submitting = st[j].submitting)
      <4>1. q \in Slots BY <1>t, ClearFacts
      <4>2. q[j] = st[j] \/ q[j] = [st[j] EXCEPT !.submitting = FALSE] BY DEF ClearSubmitting
      <4> QED BY <1>t, <4>1, <4>2 DEF Slots, Slot
    <3> HIDE DEF q
    <3>2. st' = [q EXCEPT ![c.id].running = FALSE] BY <2>8 DEF q
    <3> QED BY <2>1, <3>1, <3>2 DEF Slots, Slot
  <2>10. WorkOf(j)' # "asked" \/ WorkOf(j)' = WorkOf(j) BY <2>9 DEF WorkOf
  <2> QED BY <1>e, <2>7, <2>10, CalmMoves
<1>2. ASSUME NEW c \in subs, SubmitAccepted(c) PROVE Moves(j)
  <2>1. /\ c.id \in Ids /\ st'[c.id].run # 0 /\ runs' = runs
    BY <1>2, AcceptedFacts
  <2>2. CASE j = c.id
    <3>1. WorkOf(j)' = "tracked" BY <2>1, <2>2 DEF WorkOf
    <3> QED BY <1>e, <1>s, <2>1, <3>1, CalmMoves
  <2>3. CASE j # c.id
    <3>1. Valid(c) /\ ClearSubmitting(c.idx)[j] = st[j] BY <1>t, <1>2, <2>3, ClearsOne
    <3>2. ClearSubmitting(c.idx) \in Slots BY <1>t, ClearFacts
    <3>3. st'[j] = st[j] BY <1>2, <2>3, <3>1, <3>2 DEF SubmitAccepted, Slots
    <3>4. WorkOf(j)' = WorkOf(j) BY <3>3 DEF WorkOf
    <3> QED BY <1>e, <1>s, <2>1, <3>4, CalmMoves
  <2> QED BY <2>2, <2>3
<1>3. ASSUME NEW c \in polls, StatusIgnored(c) PROVE Moves(j)
  <2>1. runs' = runs /\ st' = st BY <1>3 DEF StatusIgnored, daemonVars
  <2>2. WorkOf(j)' = WorkOf(j) BY <2>1 DEF WorkOf
  <2> QED BY <1>e, <1>s, <2>1, <2>2, CalmMoves
<1>4. ASSUME NEW c \in polls, StatusAnswered(c) \/ StatusMissed(c) PROVE Moves(j)
  <2>1. c \in Calls /\ c.id \in Ids /\ st[c.id].run # 0
    BY <1>t, <1>4 DEF Calls, Concerns, StatusAnswered, StatusMissed
  <2>2. PICK slots \in Slots : Heard(c, slots) BY <1>t, <1>4, StatusFacts
  <2>3. /\ \A i \in Ids : Core(slots[i], st[i])
        /\ slots[c.id].run \in DOMAIN runs[c.id] /\ ~slots[c.id].submitting
    BY <1>o, <2>1, <2>2 DEF Heard, Core
  <2>4. CASE st' = slots /\ UNCHANGED <<runs, timers, idles>>
    <3>1. WorkOf(j)' = WorkOf(j) BY <2>3, <2>4 DEF WorkOf, Core
    <3> QED BY <1>e, <1>s, <2>4, <3>1, CalmMoves
  <2>5. ASSUME NEW outcome \in Outcomes, NEW nobase \in BOOLEAN,
               OnJobCompleted(slots, runs, c, outcome, nobase)
        PROVE  Moves(j)
    BY <1>t, <1>e, <2>1, <2>3, <2>5, CompletedMoves
  <2> QED BY <2>2, <2>4, <2>5 DEF Heard
<1>5. ASSUME NEW c \in stops, StopAnswered(c) PROVE Moves(j)
  <2>1. CASE ~Concerns(c)
    <3>1. UNCHANGED <<st, runs>> BY <1>5, <2>1 DEF StopAnswered
    <3>2. WorkOf(j)' = WorkOf(j) BY <3>1 DEF WorkOf
    <3> QED BY <1>e, <1>s, <3>1, <3>2, CalmMoves
  <2>2. CASE Concerns(c)
    <3>1. /\ st' = [st EXCEPT ![c.id].run = 0, ![c.id].running = FALSE]
          /\ runs' = End(runs, c.id, st[c.id].run, "stopped")
      BY <1>5, <2>2 DEF StopAnswered
    <3>2. c.id \in Ids /\ st[c.id].run \in DOMAIN runs[c.id] /\ ~st[c.id].submitting
      BY <1>t, <1>o, <2>2 DEF Concerns, Calls
    <3>3. "stopped" \in Outcomes BY DEF Outcomes
    <3>4. SameTrigs(runs[j], runs'[j]) BY <1>t, <3>1, <3>2, <3>3, EndTrigs
    <3>5. \/ st'[j].run = st[j].run /\ st'[j].submitting = st[j].submitting
          \/ ~st'[j].submitting
      BY <1>t, <3>1, <3>2 DEF Slots, Slot
    <3>6. WorkOf(j)' # "asked" \/ WorkOf(j)' = WorkOf(j) BY <3>5 DEF WorkOf
    <3> QED BY <1>e, <3>4, <3>6, CalmMoves
  <2> QED BY <2>1, <2>2
<1> QED BY <1>e, <1>1, <1>2, <1>3, <1>4, <1>5 DEF Answers

LEMMA OutsideMoves ==
  ASSUME LifeInv, TypeOK', Rcd \/ Lifecycle, NEW j \in Ids, Budgeted(j)
  PROVE  Tends(j) /\ Moves(j)
<1>t. TypeOK /\ st \in Slots /\ runs \in Ledgers BY TypeShape DEF LifeInv
<1>e. Tends(j) BY <1>t, OutsideLives, LifeTends
<1>s. SameTrigs(runs[j], runs[j]) BY DEF SameTrigs
<1>1. CASE Rcd
  <2>1. PICK i \in Ids, p \in Phases : \E k \in DOMAIN runs[i] :
          runs' = [runs EXCEPT ![i][k].phase = p] /\ st' = st
    BY <1>1 DEF Rcd, RcdAccepts, RcdFinishes, RcdStops, RcdForgets, Becomes, daemonVars, Phases,
                Finished
  <2>2. SameTrigs(runs[j], runs'[j]) BY <1>t, <2>1, PhaseTrigs
  <2>3. WorkOf(j)' = WorkOf(j) BY <2>1 DEF WorkOf
  <2> QED BY <1>e, <2>2, <2>3, CalmMoves
<1>2. CASE Stop \/ Crash
  <2>1. st'[j] = EmptySlot BY <1>2 DEF Stop, Crash, GoDown
  <2>2. WorkOf(j)' # "asked" BY <2>1 DEF WorkOf, EmptySlot
  <2>3. CASE Crash
    <3>1. runs' = runs BY <2>3 DEF Crash, GoDown
    <3> QED BY <1>e, <1>s, <2>2, <3>1, CalmMoves
  <2>4. CASE Stop
    <3>1. runs'[j] = [k \in DOMAIN runs[j] |-> [runs[j][k] EXCEPT !.phase = "lost"]]
      BY <2>4 DEF Stop, GoDown
    <3>2. runs[j] \in Seq(Run) /\ \A k \in DOMAIN runs[j] : runs[j][k] \in Run
      BY <1>t DEF Ledgers
    <3>3. DOMAIN runs'[j] = DOMAIN runs[j] /\ \A k \in DOMAIN runs[j] : runs'[j][k].trig = runs[j][k].trig
      BY <3>1, <3>2 DEF Run
    <3>4. runs'[j] \in Seq(Run) BY DEF TypeOK
    <3>5. Len(runs'[j]) = Len(runs[j]) BY <3>2, <3>3, <3>4, SameLength
    <3>6. SameTrigs(runs[j], runs'[j]) BY <3>3, <3>5 DEF SameTrigs
    <3> QED BY <1>e, <2>2, <3>6, CalmMoves
  <2> QED BY <1>2, <2>3, <2>4
<1>3. CASE Boot
  <2>1. PICK due : OnRunJob(st, runs, count, pos, due, "sched") BY <1>3 DEF Boot
  <2>2. "sched" \in Triggers \ Automatic BY DEF Triggers, Automatic
  <2> QED BY <1>t, <1>e, <1>s, <2>1, <2>2, BeginMoves
<1> QED BY <1>e, <1>1, <1>2, <1>3 DEF Lifecycle

LEMMA NextMoves ==
  ASSUME SteadyInv, SteadyInv', [Next]_vars, Deletable = {}, NEW j \in Ids, Budgeted(j)
  PROVE  Tends(j) /\ Moves(j)
<1>t. LifeInv /\ TypeOK /\ TypeOK' BY DEF SteadyInv, LifeInv
<1>1. CASE Next
  BY <1>1, <1>t, StepKinds, RequestsMove, SourcesMove, AnswersMove, OutsideMoves
<1>2. CASE UNCHANGED vars
  <2>1. /\ SameTrigs(runs[j], runs'[j]) /\ SameArms(j) /\ st' = st
    BY <1>2 DEF vars, daemonVars, SameTrigs, SameArms, RetryArmed, ResyncArmed
  <2>2. WorkOf(j)' = WorkOf(j) BY <2>1 DEF WorkOf
  <2>3. Tends(j) BY <1>t, <2>1, <2>2, SameTends
  <2> QED BY <2>1, <2>2, <2>3, CalmMoves
<1> QED BY <1>1, <1>2

\* The automatic starts that are left to a job never reach further than its bound.
RowInv == \A j \in Ids : Budgeted(j) /\ Rows(runs[j]) /\ Near(runs[j], SpareOf(j))

\* While no job is deleted, the daemon does not resubmit a job by itself for ever,
\* whatever is edited, stopped, started by hand, lost or restarted meanwhile:
\* between two runs that the user, the schedule or the watch asked for, there are
\* at most two retry budgets' worth of automatic ones.
THEOREM AutomaticRunsAreBounded ==
  ASSUME Deletable = {}
  PROVE  Spec => []AutoRunsBounded
<1>1. Init => RowInv
  <2> SUFFICES ASSUME Init, NEW j \in Ids
               PROVE  Budgeted(j) /\ Rows(runs[j]) /\ Near(runs[j], SpareOf(j))
    BY DEF RowInv
  <2>1. /\ WorkOf(j) = "idle" /\ AheadOf(j) = {} /\ st[j].retries = 0
        /\ runs[j] = <<>>
    <3>1. st[j] = EmptySlot /\ runs[j] = <<>> BY DEF Init
    <3>2. WorkOf(j) = "idle" /\ st[j].retries = 0 BY <3>1 DEF WorkOf, EmptySlot
    <3>3. ~RetryArmed(j) /\ ~ResyncArmed(j)
      BY DEF Init, ScheduleAll, Timer, RetryArmed, ResyncArmed
    <3> QED BY <3>1, <3>2, <3>3 DEF AheadOf
  <2>2. SpareOf(j) = 0 BY <2>1 DEF SpareOf, Spare
  <2> QED BY <2>1, <2>2, NumbersAssumption DEF Budgeted, Budget, Rows, Near
<1>2. SteadyInv /\ SteadyInv' /\ RowInv /\ [Next]_vars => RowInv'
  <2> SUFFICES ASSUME SteadyInv, SteadyInv', RowInv, [Next]_vars, NEW j \in Ids
               PROVE  Budgeted(j)' /\ Rows(runs'[j]) /\ Near(runs'[j], SpareOf(j)')
    BY DEF RowInv
  <2>1. Budgeted(j) /\ Rows(runs[j]) /\ Near(runs[j], SpareOf(j)) BY DEF RowInv
  <2>2. Tends(j) /\ Moves(j) BY <2>1, NextMoves
  <2>3. Budgeted(j)' BY <2>2 DEF Tends
  <2>t. TypeOK /\ TypeOK' BY DEF SteadyInv, LifeInv
  <2>4. SpareOf(j) \in Nat BY <2>1, <2>t, SpareRange DEF TypeOK, Slot, Budgeted, SpareOf
  <2>5. SpareOf(j)' \in Nat /\ SpareOf(j)' <= Longest
    BY <2>3, <2>t, SpareRange DEF TypeOK, Slot, Budgeted, SpareOf
  <2>6. runs[j] \in Seq(Run) /\ runs'[j] \in Seq(Run) BY <2>t DEF TypeOK
  <2>7. CASE SameTrigs(runs[j], runs'[j]) /\ SpareOf(j)' <= SpareOf(j)
    BY <2>1, <2>3, <2>4, <2>5, <2>6, <2>7, RowSame
  <2>8. ASSUME NEW trig \in Triggers, Grown(runs[j], runs'[j], trig),
               trig \in Automatic => SpareOf(j)' + 1 <= SpareOf(j)
        PROVE  Rows(runs'[j]) /\ Near(runs'[j], SpareOf(j)')
    BY <2>1, <2>4, <2>5, <2>6, <2>8, RowGrown
  <2> QED BY <2>2, <2>3, <2>7, <2>8 DEF Moves
<1>3. RowInv => AutoRunsBounded BY DEF RowInv, Rows, Longest, AutoRunsBounded
<1> QED BY <1>1, <1>2, <1>3, SteadyAlways, PTL DEF Spec

=============================================================================
