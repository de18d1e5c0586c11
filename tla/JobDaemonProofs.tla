-------------------------- MODULE JobDaemonProofs --------------------------
(***************************************************************************)
(* Proofs about JobDaemon for every set of jobs and every value of the     *)
(* bounds.                                                                 *)
(***************************************************************************)
EXTENDS JobDaemon, FiniteSetTheorems, TLAPS

Ledgers == [Ids -> Seq(Run)]
Slots   == [Ids -> Slot]
Calls   == [idx : Nat, id : Ids, run : Nat]
Timers  == [kind : TimerKinds, idx : Nat, id : Ids]

-----------------------------------------------------------------------------
(* Lemmas about the operators *)

\* Changing one element of a sequence within its type keeps the type.
LEMMA UpdateInSeq ==
  ASSUME NEW S, NEW s \in Seq(S), NEW k, NEW e, k \in DOMAIN s => e \in S
  PROVE  [s EXCEPT ![k] = e] \in Seq(S)
<1>1. PICK n \in Nat : s \in [1..n -> S]
  OBVIOUS
<1>2. [s EXCEPT ![k] = e] \in [1..n -> S]
  BY <1>1
<1> QED BY <1>2

\* A run of the ledger may change its phase, ...
LEMMA PhaseInLedgers ==
  ASSUME NEW L \in Ledgers, NEW j \in Ids, NEW k, NEW p \in Phases
  PROVE  [L EXCEPT ![j][k].phase = p] \in Ledgers
<1> DEFINE e == [L[j][k] EXCEPT !.phase = p]
<1>1. L[j] \in Seq(Run) BY DEF Ledgers
<1>2. k \in DOMAIN L[j] => L[j][k] \in Run BY <1>1
<1>3. k \in DOMAIN L[j] => e \in Run BY <1>2 DEF Run
<1>4. [L[j] EXCEPT ![k] = e] \in Seq(Run)
  <2> HIDE DEF e
  <2> QED BY <1>1, <1>3, UpdateInSeq
<1> QED BY <1>4 DEF Ledgers

\* ... and end.
LEMMA EndInLedgers ==
  ASSUME NEW L \in Ledgers, NEW j \in Ids, NEW k, NEW o \in Outcomes
  PROVE  End(L, j, k, o) \in Ledgers
<1> DEFINE e == [L[j][k] EXCEPT !.ends = Append(@, o)]
<1>1. L[j] \in Seq(Run) BY DEF Ledgers
<1>2. k \in DOMAIN L[j] => L[j][k] \in Run BY <1>1
<1>3. ASSUME k \in DOMAIN L[j] PROVE e \in Run
  <2>1. L[j][k].ends \in Seq(Outcomes) BY <1>2, <1>3 DEF Run
  <2>2. Append(L[j][k].ends, o) \in Seq(Outcomes) BY <2>1
  <2> QED BY <1>2, <1>3, <2>2 DEF Run
<1>4. [L[j] EXCEPT ![k] = e] \in Seq(Run)
  <2> HIDE DEF e
  <2> QED BY <1>1, <1>3, UpdateInSeq
<1> QED BY <1>4 DEF Ledgers, End

\* A set with one possible member
LEMMA AtMostOne ==
  ASSUME NEW S, NEW d, S = {} \/ S = {d}
  PROVE  IsFiniteSet(S) /\ Cardinality(S) \in {0, 1}
<1>1. CASE S = {} BY <1>1, FS_EmptySet
<1>2. CASE S = {d}
  <2>1. IsFiniteSet({d}) /\ Cardinality({d}) = 1 BY FS_Singleton
  <2> QED BY <1>2, <2>1
<1> QED BY <1>1, <1>2

\* What on_run_job leaves has the right type, ...
LEMMA OnRunJobType ==
  ASSUME NEW slots \in Slots, NEW ledger \in Ledgers, NEW n \in Nat,
         NEW P \in [Ids -> Nat], NEW due \in SUBSET Ids, NEW d, due \subseteq {d},
         NEW trig \in Triggers, subs \subseteq Calls, dirty \in [Ids -> BOOLEAN],
         OnRunJob(slots, ledger, n, P, due, trig)
  PROVE  st' \in Slots /\ count' \in Nat /\ subs' \subseteq Calls
         /\ runs' \in Ledgers /\ dirty' \in [Ids -> BOOLEAN]
<1> DEFINE go == Going(slots, due)
<1>0. go \subseteq Ids /\ (go = {} \/ go = {d})
  BY DEF Going
<1>1. Cardinality(go) \in Nat
  <2> HIDE DEF go
  <2>1. Cardinality(go) \in {0, 1} BY <1>0, AtMostOne, Zenon
  <2> QED BY ONLY <2>1
<1>a. st' = [j \in Ids |->
               IF j \in go
               THEN [slots[j] EXCEPT !.submitting = TRUE, !.running = TRUE, !.resync = FALSE]
               ELSE slots[j]]
  BY DEF OnRunJob
<1>b. count' = n + Cardinality(go)
  BY Zenon DEF OnRunJob
<1>c. subs' = subs \cup {Call(P[j], j, Len(ledger[j]) + 1) : j \in go}
  BY Zenon DEF OnRunJob
<1>d. runs' = [j \in Ids |->
                 IF j \in go THEN Append(ledger[j], NewRun(trig, slots[j].resync))
                             ELSE ledger[j]]
  BY Zenon DEF OnRunJob
<1>e. dirty' = [j \in Ids |-> dirty[j] /\ j \notin go]
  BY Zenon DEF OnRunJob
<1> HIDE DEF go
<1>2. st' \in Slots BY ZenonT(60), <1>a DEF Slots, Slot
<1>3. count' \in Nat BY <1>b, <1>1
<1>4. subs' \subseteq Calls
  <2>1. \A j \in go : Len(ledger[j]) + 1 \in Nat BY <1>0 DEF Ledgers
  <2>2. {Call(P[j], j, Len(ledger[j]) + 1) : j \in go} \subseteq Calls
    BY <1>0, <2>1 DEF Calls, Call
  <2> QED BY <1>c, <2>2
<1>5. runs' \in Ledgers
  <2>1. ASSUME NEW j \in Ids PROVE Append(ledger[j], NewRun(trig, slots[j].resync)) \in Seq(Run)
    <3>1. slots[j].resync \in BOOLEAN BY DEF Slots, Slot
    <3>2. NewRun(trig, slots[j].resync) \in Run BY <3>1 DEF NewRun, Run, Phases
    <3> QED BY <3>2 DEF Ledgers
  <2> QED BY <1>d, <2>1 DEF Ledgers
<1>6. dirty' \in [Ids -> BOOLEAN] BY <1>e
<1> QED BY <1>2, <1>3, <1>4, <1>5, <1>6

\* ... and so have the schedules it arms.
LEMMA ScheduleAllType ==
  ASSUME NEW T \in SUBSET Timers, NEW P \in [Ids -> Nat], NEW enabled, NEW due
  PROVE  ScheduleAll(T, P, enabled, due) \subseteq Timers
BY DEF ScheduleAll, Timers, Timer, TimerKinds

\* A job that a clock tick makes due is one of the jobs, and there is one at most.
LEMMA DueSetsType ==
  ASSUME NEW P, NEW enabled, NEW due \in DueSets(P, enabled)
  PROVE  due \subseteq Ids /\ \E d : due \subseteq {d}
BY DEF DueSets

-----------------------------------------------------------------------------
(* Type correctness *)

\* TypeOK, with the names of this module
LEMMA TypeShape ==
  TypeOK <=> /\ up \in BOOLEAN /\ pos \in [Ids -> Nat] /\ fresh \subseteq Ids
             /\ sched \in [Ids -> BOOLEAN] /\ st \in Slots /\ count \in Nat
             /\ timers \subseteq Timers /\ idles \subseteq [idx : Nat, id : Ids]
             /\ subs \subseteq Calls /\ polls \subseteq Calls /\ stops \subseteq Calls
             /\ runs \in Ledgers /\ dirty \in [Ids -> BOOLEAN] /\ boots \in Nat /\ losses \in Nat
BY DEF TypeOK, Slots, Ledgers, Calls, Timers

\* The initial states are well-typed.
LEMMA InitType == Init => TypeOK
<1> SUFFICES ASSUME Init PROVE TypeOK
  OBVIOUS
<1>1. Cardinality(Initial) \in Nat
  BY SetsAssumption, FS_Subset, FS_CardinalityType
<1>2. pos \in [Ids -> Nat] BY <1>1 DEF Init
<1>3. timers \subseteq Timers
  BY <1>2, ScheduleAllType DEF Init
<1>4. st \in Slots BY DEF Init, Slots, Slot, EmptySlot
<1>5. runs \in Ledgers BY DEF Init, Ledgers
<1> QED BY <1>2, <1>3, <1>4, <1>5, TypeShape, SetsAssumption DEF Init, Calls

\* The verdict of a run keeps the types.
LEMMA CompletedType ==
  ASSUME TypeOK, NEW slots \in Slots, NEW ledger \in Ledgers,
         NEW c, c.idx \in Nat, c.id \in Ids,
         NEW outcome \in Outcomes, NEW nobase \in BOOLEAN,
         OnJobCompleted(slots, ledger, c, outcome, nobase)
  PROVE  /\ st' \in Slots /\ count' \in Nat /\ timers' \subseteq Timers
         /\ idles' \subseteq [idx : Nat, id : Ids] /\ subs' \subseteq Calls
         /\ runs' \in Ledgers /\ dirty' \in [Ids -> BOOLEAN]
<1> DEFINE claimed == [slots EXCEPT ![c.id] = Claim(@)]
           ended == End(ledger, c.id, slots[c.id].run, outcome)
<1>1. claimed \in Slots BY DEF Slots, Slot, Claim
<1>2. ended \in Ledgers BY EndInLedgers
<1>3. Dec(count) \in Nat BY TypeShape DEF Dec
<1>t. /\ timers \subseteq Timers /\ pos \in [Ids -> Nat] /\ subs \subseteq Calls
      /\ idles \subseteq [idx : Nat, id : Ids] /\ dirty \in [Ids -> BOOLEAN]
  BY TypeShape
<1>5. \/ ResyncRetry(claimed, ended, c)
      \/ BackoffRetry(claimed, ended, c)
      \/ FinalVerdict(claimed, ended, c)
  BY DEF OnJobCompleted
<1> HIDE DEF claimed, ended
<1>6. CASE ResyncRetry(claimed, ended, c)
  <2>1. st' \in Slots BY ZenonT(60), <1>1, <1>6 DEF ResyncRetry, Slots, Slot
  <2>2. timers' \subseteq Timers BY <1>6, <1>t DEF ResyncRetry, Without
  <2>3. idles' \subseteq [idx : Nat, id : Ids] BY <1>6, <1>t DEF ResyncRetry
  <2> QED BY <1>2, <1>3, <1>6, <1>t, <2>1, <2>2, <2>3 DEF ResyncRetry
<1>7. CASE BackoffRetry(claimed, ended, c)
  <2>1. st' \in Slots BY <1>1, <1>7 DEF BackoffRetry, Slots, Slot
  <2>2. timers' \subseteq Timers
    BY <1>7, <1>t DEF BackoffRetry, Rearm, Without, Timer, Timers, TimerKinds
  <2> QED BY <1>2, <1>3, <1>7, <1>t, <2>1, <2>2 DEF BackoffRetry
<1>8. CASE FinalVerdict(claimed, ended, c)
  <2> DEFINE done == [claimed EXCEPT ![c.id].retries = 0, ![c.id].running = FALSE]
  <2>1. done \in Slots BY ZenonT(60), <1>1 DEF Slots, Slot
  <2>2. PICK due \in DueSets(pos, sched), none \in SUBSET Sparse :
          /\ timers' \subseteq timers \cup {Timer("sched", c.idx, c.id), Timer("watch", c.idx, c.id)}
          /\ OnRunJob(done, ended, Dec(count), pos, due, "sched")
          /\ UNCHANGED idles
    BY <1>8 DEF FinalVerdict, Reschedule, Rearm, Without
  <2> HIDE DEF done
  <2>3. due \in SUBSET Ids /\ \E d : due \subseteq {d} BY DueSetsType
  <2>4. /\ st' \in Slots /\ count' \in Nat /\ subs' \subseteq Calls
        /\ runs' \in Ledgers /\ dirty' \in [Ids -> BOOLEAN]
    BY <1>2, <1>3, <1>t, <2>1, <2>2, <2>3, OnRunJobType DEF Triggers
  <2>5. timers' \subseteq Timers
    BY <1>t, <2>2 DEF Timer, Timers, TimerKinds
  <2> QED BY <1>t, <2>2, <2>4, <2>5
<1> QED BY <1>5, <1>6, <1>7, <1>8

\* Each step keeps the types: one step of the proof per action.
LEMMA NextType == TypeOK /\ [Next]_vars => TypeOK'
<1> SUFFICES ASSUME TypeOK, [Next]_vars PROVE TypeOK'
  OBVIOUS
<1>t. /\ up \in BOOLEAN /\ pos \in [Ids -> Nat] /\ fresh \subseteq Ids
      /\ sched \in [Ids -> BOOLEAN] /\ st \in Slots /\ count \in Nat
      /\ timers \subseteq Timers /\ idles \subseteq [idx : Nat, id : Ids]
      /\ subs \subseteq Calls /\ polls \subseteq Calls /\ stops \subseteq Calls
      /\ runs \in Ledgers /\ dirty \in [Ids -> BOOLEAN] /\ boots \in Nat /\ losses \in Nat
  BY TypeShape
<1> DEFINE Goal ==
      /\ up' \in BOOLEAN /\ pos' \in [Ids -> Nat] /\ fresh' \subseteq Ids
      /\ sched' \in [Ids -> BOOLEAN] /\ st' \in Slots /\ count' \in Nat
      /\ timers' \subseteq Timers /\ idles' \subseteq [idx : Nat, id : Ids]
      /\ subs' \subseteq Calls /\ polls' \subseteq Calls /\ stops' \subseteq Calls
      /\ runs' \in Ledgers /\ dirty' \in [Ids -> BOOLEAN] /\ boots' \in Nat /\ losses' \in Nat
<1> SUFFICES Goal
  BY DEF TypeOK, Slots, Ledgers, Calls, Timers
<1>d. Dec(count) \in Nat BY <1>t DEF Dec
<1>p. NoPending(st) \in Slots BY ZenonT(60), <1>t DEF NoPending, Slots, Slot
<1>1. ASSUME NEW j \in Ids, RunJob(j) PROVE Goal
  <2>1. OnRunJob(st, runs, count, pos, {j}, "user") BY <1>1 DEF RunJob
  <2>2. /\ st' \in Slots /\ count' \in Nat /\ subs' \subseteq Calls
        /\ runs' \in Ledgers /\ dirty' \in [Ids -> BOOLEAN]
    BY <1>t, <2>1, OnRunJobType DEF Triggers
  <2> QED BY <1>1, <1>t, <2>2 DEF RunJob
<1>2. ASSUME NEW j \in Ids, StopJob(j) PROVE Goal
  <2>1. timers' \subseteq Timers BY <1>2, <1>t DEF StopJob, Without
  <2>2. stops' \subseteq Calls
    BY <1>2, <1>t DEF StopJob, Call, Calls, Slots, Slot
  <2> QED BY <1>2, <1>t, <2>1, <2>2 DEF StopJob
<1>3. ASSUME NEW j \in Ids, AddJob(j) PROVE Goal
  <2>1. Size \in Nat
    BY SetsAssumption, FS_Subset, FS_CardinalityType DEF Size
  <2>2. pos' \in [Ids -> Nat] BY <1>3, <1>t, <2>1 DEF AddJob
  <2>3. PICK due \in DueSets(pos', sched), none \in SUBSET Sparse :
          /\ timers' = NoWatchTimers(ScheduleAll(timers, pos', sched, due \cup none))
          /\ OnRunJob(NoPending(st), runs, count, pos', due, "sched")
    BY <1>3 DEF AddJob
  <2>4. due \in SUBSET Ids /\ \E d : due \subseteq {d} BY DueSetsType
  <2>5. timers' \subseteq Timers
    BY <1>t, <2>2, <2>3, ScheduleAllType DEF NoWatchTimers
  <2>6. /\ st' \in Slots /\ count' \in Nat /\ subs' \subseteq Calls
        /\ runs' \in Ledgers /\ dirty' \in [Ids -> BOOLEAN]
    BY <1>t, <1>p, <2>2, <2>3, <2>4, OnRunJobType DEF Triggers
  <2> QED BY <1>3, <1>t, <2>2, <2>5, <2>6 DEF AddJob
<1>4. ASSUME NEW j \in Ids, UpdateJob(j) PROVE Goal
  <2>1. sched' \in [Ids -> BOOLEAN] BY <1>4, <1>t DEF UpdateJob
  <2> DEFINE edited == NoPending([st EXCEPT ![j].running = FALSE])
  <2>2. edited \in Slots BY ZenonT(60), <1>t DEF NoPending, Slots, Slot
  <2>3. PICK due \in DueSets(pos, sched'), none \in SUBSET Sparse :
          /\ timers' = NoWatchTimers(ScheduleAll(timers, pos, sched', due \cup none))
          /\ OnRunJob(edited, runs, count, pos, due, "sched")
    BY <1>4 DEF UpdateJob
  <2>4. due \in SUBSET Ids /\ \E d : due \subseteq {d} BY DueSetsType
  <2>5. timers' \subseteq Timers
    BY <1>t, <2>3, ScheduleAllType DEF NoWatchTimers
  <2> HIDE DEF edited
  <2>6. /\ st' \in Slots /\ count' \in Nat /\ subs' \subseteq Calls
        /\ runs' \in Ledgers /\ dirty' \in [Ids -> BOOLEAN]
    BY <1>t, <2>2, <2>3, <2>4, OnRunJobType DEF Triggers
  <2> QED BY <1>4, <1>t, <2>1, <2>5, <2>6 DEF UpdateJob
<1>5. ASSUME NEW j \in Ids, DeleteJob(j) PROVE Goal
  <2>1. pos' \in [Ids -> Nat] BY <1>5, <1>t DEF DeleteJob, Erase
  <2>2. st' \in Slots
    BY ZenonT(60), <1>5, <1>t DEF DeleteJob, NoPending, Slots, Slot, EmptySlot
  <2>3. timers' \subseteq Timers BY <1>5, <1>t DEF DeleteJob, NoWatchTimers
  <2>4. count' \in Nat BY <1>5, <1>t, <1>d DEF DeleteJob
  <2>5. sched' \in [Ids -> BOOLEAN] /\ dirty' \in [Ids -> BOOLEAN] BY <1>5, <1>t DEF DeleteJob
  <2> QED BY <1>5, <1>t, <2>1, <2>2, <2>3, <2>4, <2>5 DEF DeleteJob
<1>6. ASSUME NEW j \in Ids, WatchEvent(j) PROVE Goal
  <2>1. st' \in Slots BY ZenonT(60), <1>6, <1>t DEF WatchEvent, Slots, Slot
  <2>2. timers' \subseteq Timers
    BY <1>6, <1>t DEF WatchEvent, Rearm, Without, Timer, Timers, TimerKinds
  <2>3. dirty' \in [Ids -> BOOLEAN] BY <1>6, <1>t DEF WatchEvent
  <2> QED BY <1>6, <1>t, <2>1, <2>2, <2>3 DEF WatchEvent
<1>7. ASSUME NEW t \in timers, SchedTimer(t) PROVE Goal
  <2> DEFINE due == IF Valid(t) THEN {t.id} ELSE {}
  <2>1. due \in SUBSET Ids /\ due \subseteq {t.id} BY <1>t DEF Timers
  <2>2. OnRunJob(st, runs, count, pos, due, "sched") BY <1>7 DEF SchedTimer
  <2> HIDE DEF due
  <2>3. /\ st' \in Slots /\ count' \in Nat /\ subs' \subseteq Calls
        /\ runs' \in Ledgers /\ dirty' \in [Ids -> BOOLEAN]
    BY <1>t, <2>1, <2>2, OnRunJobType DEF Triggers
  <2> QED BY <1>7, <1>t, <2>3 DEF SchedTimer
<1>8. ASSUME NEW t \in timers, RetryTimer(t) PROVE Goal
  <2> DEFINE due == IF Valid(t) THEN {t.id} ELSE {}
  <2>1. due \in SUBSET Ids /\ due \subseteq {t.id} BY <1>t DEF Timers
  <2>2. OnRunJob(st, runs, count, pos, due, "retry") BY <1>8 DEF RetryTimer
  <2> HIDE DEF due
  <2>3. /\ st' \in Slots /\ count' \in Nat /\ subs' \subseteq Calls
        /\ runs' \in Ledgers /\ dirty' \in [Ids -> BOOLEAN]
    BY <1>t, <2>1, <2>2, OnRunJobType DEF Triggers
  <2> QED BY <1>8, <1>t, <2>3 DEF RetryTimer
<1>9. ASSUME NEW c \in idles, ResyncIdle(c) PROVE Goal
  <2> DEFINE due == IF Valid(c) THEN {c.id} ELSE {}
  <2>1. due \in SUBSET Ids /\ due \subseteq {c.id} BY <1>t
  <2>2. OnRunJob(st, runs, count, pos, due, "resync") BY <1>9 DEF ResyncIdle
  <2> HIDE DEF due
  <2>3. /\ st' \in Slots /\ count' \in Nat /\ subs' \subseteq Calls
        /\ runs' \in Ledgers /\ dirty' \in [Ids -> BOOLEAN]
    BY <1>t, <2>1, <2>2, OnRunJobType DEF Triggers
  <2> QED BY <1>9, <1>t, <2>3 DEF ResyncIdle
<1>10. ASSUME NEW t \in timers, WatchTimer(t) PROVE Goal
  <2>1. CASE Valid(t)
    <3> DEFINE slots == [st EXCEPT ![t.id].pending = FALSE]
    <3>1. t.id \in Ids BY <1>t DEF Timers
    <3>2. slots \in Slots BY ZenonT(60), <1>t, <3>1 DEF Slots, Slot
    <3>3. OnRunJob(slots, runs, count, pos, {t.id}, "watch") BY <1>10, <2>1 DEF WatchTimer
    <3> HIDE DEF slots
    <3>4. /\ st' \in Slots /\ count' \in Nat /\ subs' \subseteq Calls
          /\ runs' \in Ledgers /\ dirty' \in [Ids -> BOOLEAN]
      BY <1>t, <3>1, <3>2, <3>3, OnRunJobType DEF Triggers
    <3> QED BY <1>10, <1>t, <3>4 DEF WatchTimer
  <2>2. CASE ~Valid(t) BY <1>10, <1>t, <2>2 DEF WatchTimer
  <2> QED BY <2>1, <2>2
<1>11. ASSUME NEW t \in timers, PollTick(t) PROVE Goal
  <2>1. t.id \in Ids /\ t.idx \in Nat BY <1>t DEF Timers
  <2>2. st' \in Slots
    <3>1. [st EXCEPT ![t.id].pollBusy = TRUE] \in Slots BY <1>t, <2>1 DEF Slots, Slot
    <3>2. st' = st \/ st' = [st EXCEPT ![t.id].pollBusy = TRUE] BY <1>11 DEF PollTick
    <3> QED BY <1>t, <3>1, <3>2
  <2>3. polls' \subseteq Calls
    BY <1>11, <1>t, <2>1 DEF PollTick, Calls, Call, Slots, Slot
  <2> QED BY <1>11, <1>t, <2>2, <2>3 DEF PollTick
<1>s. \A i \in Nat : ClearSubmitting(i) \in Slots
  BY ZenonT(60), <1>t DEF ClearSubmitting, Slots, Slot
<1>12. ASSUME NEW c \in subs, SubmitFailed(c) PROVE Goal
  <2>1. c.id \in Ids /\ c.idx \in Nat BY <1>t DEF Calls
  <2>2. st' \in Slots
    <3>1. ClearSubmitting(c.idx) \in Slots BY <2>1, <1>s
    <3>2. [ClearSubmitting(c.idx) EXCEPT ![c.id].running = FALSE] \in Slots
      BY <2>1, <3>1 DEF Slots, Slot
    <3> QED BY <1>12, <3>1, <3>2 DEF SubmitFailed
  <2>3. PICK p \in Phases :
          runs' = End([runs EXCEPT ![c.id][c.run].phase = p], c.id, c.run, "rejected")
    BY <1>12 DEF SubmitFailed
  <2>4. runs' \in Ledgers
    BY <1>t, <2>1, <2>3, PhaseInLedgers, EndInLedgers DEF Outcomes
  <2>5. losses' \in Nat BY <1>12, <1>t DEF SubmitFailed, Lose, NoLoss
  <2> QED BY <1>12, <1>t, <1>d, <2>2, <2>4, <2>5 DEF SubmitFailed
<1>13. ASSUME NEW c \in subs, SubmitAccepted(c) PROVE Goal
  <2>1. c.id \in Ids /\ c.idx \in Nat /\ c.run \in Nat BY <1>t DEF Calls
  <2>2. ClearSubmitting(c.idx) \in Slots BY <2>1, <1>s
  <2>3. CASE Valid(c)
    <3>1. st' \in Slots
      <4>1. [ClearSubmitting(c.idx) EXCEPT ![c.id].run = c.run] \in Slots
        BY <2>1, <2>2 DEF Slots, Slot
      <4> QED BY <1>13, <2>3, <4>1 DEF SubmitAccepted
    <3>2. timers' \subseteq Timers
      BY <1>13, <1>t, <2>1, <2>3 DEF SubmitAccepted, Timer, Timers, TimerKinds
    <3> QED BY <1>13, <1>t, <2>3, <3>1, <3>2 DEF SubmitAccepted
  <2>4. CASE ~Valid(c)
    <3>1. runs' \in Ledgers
      BY <1>13, <1>t, <2>1, <2>4, EndInLedgers DEF SubmitAccepted, Outcomes
    <3> QED BY <1>13, <1>t, <1>d, <2>2, <2>4, <3>1 DEF SubmitAccepted
  <2> QED BY <2>3, <2>4
<1>14. ASSUME NEW c \in polls, StatusIgnored(c) PROVE Goal
  BY <1>14, <1>t DEF StatusIgnored, daemonVars
<1>15. ASSUME NEW c \in polls, StatusAnswered(c) PROVE Goal
  <2> DEFINE phase == runs[c.id][c.run].phase
             seen == [st EXCEPT ![c.id].pollBusy = FALSE, ![c.id].pollFails = 0]
  <2>1. c.id \in Ids /\ c.idx \in Nat BY <1>t DEF Calls
  <2>2. seen \in Slots BY ZenonT(60), <1>t, <2>1 DEF Slots, Slot
  <2>3. runs \in Ledgers BY <1>t
  <2>4. Verdict(phase) \in Outcomes BY DEF Verdict, Outcomes
  <2>5. \/ /\ st' = seen
           /\ UNCHANGED <<runs, count, timers, idles, subs, dirty>>
        \/ OnJobCompleted(seen, runs, c, Verdict(phase), phase = "nobase")
    BY <1>15 DEF StatusAnswered
  <2> HIDE DEF seen
  <2>6. (phase = "nobase") \in BOOLEAN OBVIOUS
  <2> HIDE DEF phase
  <2>7. CASE OnJobCompleted(seen, runs, c, Verdict(phase), phase = "nobase")
    <3>1. /\ st' \in Slots /\ count' \in Nat /\ timers' \subseteq Timers
          /\ idles' \subseteq [idx : Nat, id : Ids] /\ subs' \subseteq Calls
          /\ runs' \in Ledgers /\ dirty' \in [Ids -> BOOLEAN]
      BY <2>1, <2>2, <2>3, <2>4, <2>6, <2>7, CompletedType
    <3> QED BY <1>15, <1>t, <3>1 DEF StatusAnswered
  <2>8. CASE /\ st' = seen
             /\ UNCHANGED <<runs, count, timers, idles, subs, dirty>>
    BY <1>15, <1>t, <2>2, <2>3, <2>8 DEF StatusAnswered
  <2> QED BY <2>5, <2>7, <2>8
<1>16. ASSUME NEW c \in polls, StatusMissed(c) PROVE Goal
  <2> DEFINE missed == [st EXCEPT ![c.id] = Miss(@)]
  <2>1. c.id \in Ids /\ c.idx \in Nat BY <1>t DEF Calls
  <2>2. missed \in Slots
    <3>1. st[c.id] \in Slot /\ st[c.id].pollFails + 1 \in Nat
      BY <1>t, <2>1 DEF Slots, Slot
    <3>2. Miss(st[c.id]) \in Slot
      BY <3>1 DEF Slot, Miss
    <3> QED BY <1>t, <2>1, <3>2 DEF Slots
  <2>3. runs \in Ledgers BY <1>t
  <2>4. losses' \in Nat BY SMTT(30), <1>16, <1>t DEF StatusMissed, Lose, NoLoss
  <2>5. \/ /\ st' = missed
           /\ UNCHANGED <<runs, count, timers, idles, subs, dirty>>
        \/ OnJobCompleted(missed, runs, c, "gaveup", FALSE)
    BY <1>16 DEF StatusMissed
  <2> HIDE DEF missed
  <2>6. CASE OnJobCompleted(missed, runs, c, "gaveup", FALSE)
    <3>1. /\ st' \in Slots /\ count' \in Nat /\ timers' \subseteq Timers
          /\ idles' \subseteq [idx : Nat, id : Ids] /\ subs' \subseteq Calls
          /\ runs' \in Ledgers /\ dirty' \in [Ids -> BOOLEAN]
      BY <2>1, <2>2, <2>3, <2>6, CompletedType DEF Outcomes
    <3> QED BY <1>16, <1>t, <2>4, <3>1 DEF StatusMissed
  <2>7. CASE /\ st' = missed
             /\ UNCHANGED <<runs, count, timers, idles, subs, dirty>>
    BY <1>16, <1>t, <2>2, <2>3, <2>4, <2>7 DEF StatusMissed
  <2> QED BY <2>5, <2>6, <2>7
<1>17. ASSUME NEW c \in stops, StopAnswered(c) PROVE Goal
  <2>1. c.id \in Ids /\ c.idx \in Nat BY <1>t DEF Calls
  <2>2. [st EXCEPT ![c.id].run = 0, ![c.id].running = FALSE] \in Slots
    BY ZenonT(60), <1>t, <2>1 DEF Slots, Slot
  <2>3. End(runs, c.id, st[c.id].run, "stopped") \in Ledgers
    BY <1>t, <2>1, EndInLedgers DEF Outcomes
  <2>4. Without(timers, "poll", c.id) \subseteq Timers BY <1>t DEF Without
  <2>5. losses' \in Nat BY <1>17, <1>t DEF StopAnswered, Lose, NoLoss
  <2> QED BY <1>17, <1>t, <1>d, <2>2, <2>3, <2>4, <2>5 DEF StopAnswered
<1>18. ASSUME NEW j \in Ids, NEW k, NEW p \in Phases, Becomes(j, k, p),
              losses' \in Nat
       PROVE Goal
  <2>1. runs' \in Ledgers BY <1>18, <1>t, PhaseInLedgers DEF Becomes
  <2> QED BY <1>18, <1>t, <2>1 DEF Becomes, daemonVars, callVars
<1>19. ASSUME Rcd PROVE Goal
  <2>1. PICK j \in Ids : \E k \in DOMAIN runs[j] :
          RcdAccepts(j, k) \/ RcdFinishes(j, k) \/ RcdStops(j, k) \/ RcdForgets(j, k)
    BY <1>19 DEF Rcd
  <2>2. PICK k \in DOMAIN runs[j] :
          RcdAccepts(j, k) \/ RcdFinishes(j, k) \/ RcdStops(j, k) \/ RcdForgets(j, k)
    BY <2>1
  <2>3. losses' \in Nat
    BY <2>2, <1>t DEF RcdAccepts, RcdFinishes, RcdStops, RcdForgets, Lose, NoLoss
  <2>4. \E p \in Phases : Becomes(j, k, p)
    BY <2>2 DEF RcdAccepts, RcdFinishes, RcdStops, RcdForgets, Phases, Finished
  <2> QED BY <2>3, <2>4, <1>18
<1>20. ASSUME NEW L \in Ledgers, GoDown(L) PROVE Goal
  <2>1. st' \in Slots BY <1>20 DEF GoDown, Slots, Slot, EmptySlot
  <2> QED BY <1>20, <1>t, <2>1 DEF GoDown
<1>21. ASSUME Lifecycle PROVE Goal
  <2>1. CASE Stop
    <3> DEFINE L == [j \in Ids |-> [k \in DOMAIN runs[j] |-> [runs[j][k] EXCEPT !.phase = "lost"]]]
    <3>1. ASSUME NEW j \in Ids PROVE L[j] \in Seq(Run)
      <4>1. PICK n \in Nat : runs[j] \in [1..n -> Run] BY <1>t DEF Ledgers
      <4>2. \A k \in 1..n : [runs[j][k] EXCEPT !.phase = "lost"] \in Run
        BY <4>1 DEF Run, Phases
      <4>3. L[j] \in [1..n -> Run] BY <4>1, <4>2
      <4> HIDE DEF L
      <4> QED BY <4>3
    <3>2. L \in Ledgers BY <3>1 DEF Ledgers
    <3>3. GoDown(L) BY <2>1 DEF Stop
    <3> HIDE DEF L
    <3> QED BY <3>2, <3>3, <1>20
  <2>2. CASE Crash BY <2>2, <1>t, <1>20 DEF Crash
  <2>3. CASE Boot
    <3>1. PICK due \in DueSets(pos, sched), none \in SUBSET Sparse :
            /\ timers' = ScheduleAll({}, pos, sched, due \cup none)
            /\ OnRunJob(st, runs, count, pos, due, "sched")
      BY <2>3 DEF Boot
    <3>2. due \in SUBSET Ids /\ \E d : due \subseteq {d} BY DueSetsType
    <3>3. timers' \subseteq Timers BY <1>t, <3>1, ScheduleAllType
    <3>4. /\ st' \in Slots /\ count' \in Nat /\ subs' \subseteq Calls
          /\ runs' \in Ledgers /\ dirty' \in [Ids -> BOOLEAN]
      BY <1>t, <3>1, <3>2, OnRunJobType DEF Triggers
    <3>5. /\ up' = TRUE /\ boots' = boots + 1
          /\ UNCHANGED <<pos, fresh, sched, idles, polls, stops, losses>>
      BY <2>3 DEF Boot
    <3> QED BY <1>t, <3>3, <3>4, <3>5
  <2> QED BY <1>21, <2>1, <2>2, <2>3 DEF Lifecycle
<1>22. CASE UNCHANGED vars
  BY <1>22, <1>t DEF vars, daemonVars, callVars
<1>23. CASE User
  BY <1>23, <1>1, <1>2, <1>3, <1>4, <1>5, <1>6 DEF User
<1>24. CASE MainLoop
  <2>1. CASE \E t \in timers : SchedTimer(t) \/ RetryTimer(t) \/ WatchTimer(t) \/ PollTick(t)
    BY <2>1, <1>7, <1>8, <1>10, <1>11
  <2>2. CASE \E c \in idles : ResyncIdle(c)
    BY <2>2, <1>9
  <2>3. CASE \E c \in subs : SubmitFailed(c) \/ SubmitAccepted(c)
    BY <2>3, <1>12, <1>13
  <2>4. CASE \E c \in polls : StatusIgnored(c) \/ StatusAnswered(c) \/ StatusMissed(c)
    BY <2>4, <1>14, <1>15, <1>16
  <2>5. CASE \E c \in stops : StopAnswered(c)
    BY <2>5, <1>17
  <2> QED BY <1>24, <2>1, <2>2, <2>3, <2>4, <2>5 DEF MainLoop
<1> QED BY <1>19, <1>21, <1>22, <1>23, <1>24 DEF Next

\* Every reachable state is well-typed: no index, counter or flag of the daemon
\* leaves its range under any list of jobs, any order of callbacks, any faults.
THEOREM TypeCorrect == Spec => []TypeOK
  BY InitType, NextType, PTL DEF Spec

-----------------------------------------------------------------------------
(* The running-job counter *)

TrackedIn(slots) == {j \in Ids : slots[j].run # 0}

Covers(n, S, slots) ==
  IsFiniteSet(S) /\ n >= Cardinality(S) + Cardinality(TrackedIn(slots))

\* CountCovers with what makes it inductive: cardinalities are numbers
CountInv == TypeOK /\ Covers(count, subs, st)

\* The tracked jobs are finitely many, so they can be counted.
LEMMA TrackedFinite ==
  ASSUME NEW slots
  PROVE  IsFiniteSet(TrackedIn(slots)) /\ Cardinality(TrackedIn(slots)) \in Nat
<1>1. TrackedIn(slots) \in SUBSET Ids BY DEF TrackedIn
<1>2. IsFiniteSet(TrackedIn(slots)) BY <1>1, SetsAssumption, FS_Subset
<1> QED BY <1>2, FS_CardinalityType

\* A step that leaves every job_id alone leaves the tracked jobs alone.
LEMMA TrackedSame ==
  ASSUME NEW slots, NEW slotsB, \A j \in Ids : slots[j].run = slotsB[j].run
  PROVE  TrackedIn(slots) = TrackedIn(slotsB)
BY DEF TrackedIn

\* Taking one element out of either set pays for one decrement, which the
\* clamp does not swallow.
LEMMA DecCovers ==
  ASSUME NEW n \in Nat, NEW S, NEW slots, Covers(n, S, slots),
         NEW T, NEW slotsB,
         \/ (\E x \in S : T = S \ {x}) /\ TrackedIn(slotsB) = TrackedIn(slots)
         \/ T = S /\ \E x \in TrackedIn(slots) : TrackedIn(slotsB) = TrackedIn(slots) \ {x}
  PROVE  Covers(Dec(n), T, slotsB)
<1>1. IsFiniteSet(S) /\ Cardinality(S) \in Nat
  BY FS_CardinalityType DEF Covers
<1>2. Cardinality(TrackedIn(slots)) \in Nat /\ IsFiniteSet(TrackedIn(slots))
  BY TrackedFinite
<1>3. CASE (\E x \in S : T = S \ {x}) /\ TrackedIn(slotsB) = TrackedIn(slots)
  <2>1. IsFiniteSet(T) /\ Cardinality(T) = Cardinality(S) - 1
    BY <1>1, <1>3, FS_RemoveElement
  <2>2. Cardinality(T) \in Nat BY <2>1, FS_CardinalityType
  <2> QED BY <1>1, <1>2, <1>3, <2>1, <2>2 DEF Covers, Dec
<1>4. CASE T = S /\ \E x \in TrackedIn(slots) : TrackedIn(slotsB) = TrackedIn(slots) \ {x}
  <2>1. Cardinality(TrackedIn(slotsB)) = Cardinality(TrackedIn(slots)) - 1
    BY <1>2, <1>4, FS_RemoveElement
  <2>2. Cardinality(TrackedIn(slotsB)) \in Nat BY TrackedFinite
  <2> QED BY <1>1, <1>2, <1>4, <2>1, <2>2 DEF Covers, Dec
<1> QED BY <1>3, <1>4

\* on_run_job increments once per request it sends.
LEMMA OnRunJobCovers ==
  ASSUME NEW slots \in Slots, NEW ledger, NEW n \in Nat, NEW P,
         NEW due \in SUBSET Ids, NEW d, due \subseteq {d}, NEW trig,
         Covers(n, subs, slots), OnRunJob(slots, ledger, n, P, due, trig)
  PROVE  Covers(count', subs', st')
<1> DEFINE go == Going(slots, due)
<1>0. go \subseteq Ids /\ (go = {} \/ go = {d})
  BY DEF Going
<1>a. st' = [j \in Ids |->
               IF j \in go
               THEN [slots[j] EXCEPT !.submitting = TRUE, !.running = TRUE, !.resync = FALSE]
               ELSE slots[j]]
  BY DEF OnRunJob
<1>b. count' = n + Cardinality(go)
  BY Zenon DEF OnRunJob
<1>c. subs' = subs \cup {Call(P[j], j, Len(ledger[j]) + 1) : j \in go}
  BY Zenon DEF OnRunJob
<1> HIDE DEF go
<1>1. TrackedIn(st') = TrackedIn(slots)
  <2>1. \A j \in Ids : st'[j].run = slots[j].run BY <1>a DEF Slots, Slot
  <2> QED BY <2>1, TrackedSame
<1>2. IsFiniteSet(subs) /\ Cardinality(subs) \in Nat
  BY FS_CardinalityType DEF Covers
<1>3. Cardinality(TrackedIn(slots)) \in Nat BY TrackedFinite
<1>4. CASE go = {}
  <2>1. subs' = subs /\ Cardinality(go) = 0 BY <1>c, <1>4, FS_EmptySet
  <2> QED BY <1>1, <1>b, <2>1 DEF Covers
<1>5. CASE go = {d}
  <2>1. subs' = subs \cup {Call(P[d], d, Len(ledger[d]) + 1)} BY <1>c, <1>5
  <2>2. IsFiniteSet(subs') /\ Cardinality(subs') <= Cardinality(subs) + 1
    <3> DEFINE x == Call(P[d], d, Len(ledger[d]) + 1)
    <3>1. subs' = subs \cup {x} BY <2>1
    <3> HIDE DEF x
    <3>2. IsFiniteSet(subs \cup {x})
          /\ Cardinality(subs \cup {x})
               = IF x \in subs THEN Cardinality(subs) ELSE Cardinality(subs) + 1
      BY <1>2, FS_AddElement
    <3> QED BY <1>2, <3>1, <3>2
  <2>3. Cardinality(subs') \in Nat BY <2>2, FS_CardinalityType
  <2>4. Cardinality(go) = 1 BY <1>5, FS_Singleton
  <2> QED BY <1>1, <1>2, <1>3, <1>b, <2>2, <2>3, <2>4 DEF Covers
<1> QED BY <1>0, <1>4, <1>5

\* on_job_completed claims the run and pays its increment back.
LEMMA CompletedCovers ==
  ASSUME TypeOK, NEW slots \in Slots, NEW ledger, NEW c, c.id \in Ids,
         slots[c.id].run # 0, Covers(count, subs, slots),
         NEW outcome, NEW nobase \in BOOLEAN,
         OnJobCompleted(slots, ledger, c, outcome, nobase)
  PROVE  Covers(count', subs', st')
<1> DEFINE claimed == [slots EXCEPT ![c.id] = Claim(@)]
           ended == End(ledger, c.id, slots[c.id].run, outcome)
<1>1. claimed \in Slots BY DEF Slots, Slot, Claim
<1>t. count \in Nat BY TypeShape
<1>2. Covers(Dec(count), subs, claimed)
  <2>1. TrackedIn(claimed) = TrackedIn(slots) \ {c.id}
    BY DEF TrackedIn, Claim, Slots, Slot
  <2>2. c.id \in TrackedIn(slots) BY DEF TrackedIn
  <2> HIDE DEF claimed
  <2> QED BY <1>t, <2>1, <2>2, DecCovers
<1>3. Dec(count) \in Nat BY <1>t DEF Dec
<1>5. \/ ResyncRetry(claimed, ended, c)
      \/ BackoffRetry(claimed, ended, c)
      \/ FinalVerdict(claimed, ended, c)
  BY DEF OnJobCompleted
<1> HIDE DEF claimed, ended
<1>6. ASSUME NEW slotsB, \A j \in Ids : slotsB[j].run = claimed[j].run
      PROVE  Covers(Dec(count), subs, slotsB)
  <2>1. TrackedIn(slotsB) = TrackedIn(claimed) BY <1>6, TrackedSame
  <2> QED BY <1>2, <2>1 DEF Covers
<1>7. CASE ResyncRetry(claimed, ended, c)
  <2>1. \A j \in Ids : st'[j].run = claimed[j].run
    BY <1>1, <1>7 DEF ResyncRetry, Slots, Slot
  <2> QED BY <1>6, <1>7, <2>1 DEF ResyncRetry
<1>8. CASE BackoffRetry(claimed, ended, c)
  <2>1. \A j \in Ids : st'[j].run = claimed[j].run
    BY <1>1, <1>8 DEF BackoffRetry, Slots, Slot
  <2> QED BY <1>6, <1>8, <2>1 DEF BackoffRetry
<1>9. CASE FinalVerdict(claimed, ended, c)
  <2> DEFINE done == [claimed EXCEPT ![c.id].retries = 0, ![c.id].running = FALSE]
  <2>0. /\ [claimed[c.id] EXCEPT !.retries = 0, !.running = FALSE] \in Slot
        /\ [claimed[c.id] EXCEPT !.retries = 0, !.running = FALSE].run = claimed[c.id].run
    BY ZenonT(60), <1>1 DEF Slots, Slot
  <2>1. done \in Slots /\ \A j \in Ids : done[j].run = claimed[j].run
    BY <1>1, <2>0 DEF Slots
  <2>2. PICK due \in DueSets(pos, sched) : OnRunJob(done, ended, Dec(count), pos, due, "sched")
    BY <1>9 DEF FinalVerdict
  <2> HIDE DEF done
  <2>3. due \in SUBSET Ids /\ \E d : due \subseteq {d} BY DueSetsType
  <2>4. Covers(Dec(count), subs, done) BY <1>6, <2>1
  <2> QED BY <1>3, <2>1, <2>2, <2>3, <2>4, OnRunJobCovers
<1> QED BY <1>5, <1>7, <1>8, <1>9

\* Each step keeps the counter ahead of the work: only the actions that touch
\* job_id, the submissions or the counter need an argument.
LEMMA NextCovers == CountInv /\ [Next]_vars => Covers(count', subs', st')
<1> SUFFICES ASSUME TypeOK, Covers(count, subs, st), [Next]_vars
             PROVE  Covers(count', subs', st')
  BY DEF CountInv
<1>t. /\ pos \in [Ids -> Nat] /\ sched \in [Ids -> BOOLEAN] /\ st \in Slots /\ count \in Nat
      /\ timers \subseteq Timers /\ idles \subseteq [idx : Nat, id : Ids]
      /\ subs \subseteq Calls /\ polls \subseteq Calls /\ stops \subseteq Calls
      /\ runs \in Ledgers
  BY TypeShape
<1>s. ASSUME count' = count, subs' = subs, \A j \in Ids : st'[j].run = st[j].run
      PROVE  Covers(count', subs', st')
  <2>1. TrackedIn(st') = TrackedIn(st) BY <1>s, TrackedSame
  <2> QED BY <1>s, <2>1 DEF Covers
<1>r. ASSUME NEW slots \in Slots, \A j \in Ids : slots[j].run = st[j].run,
             NEW P, NEW due \in SUBSET Ids, NEW d, due \subseteq {d}, NEW trig,
             OnRunJob(slots, runs, count, P, due, trig)
      PROVE  Covers(count', subs', st')
  <2>1. TrackedIn(slots) = TrackedIn(st) BY <1>r, TrackedSame
  <2>2. Covers(count, subs, slots) BY <2>1 DEF Covers
  <2> QED BY <1>t, <1>r, <2>2, OnRunJobCovers
<1>p. NoPending(st) \in Slots /\ \A j \in Ids : NoPending(st)[j].run = st[j].run
  BY ZenonT(60), <1>t DEF NoPending, Slots, Slot
<1>1. ASSUME NEW j \in Ids, RunJob(j) PROVE Covers(count', subs', st')
  BY <1>1, <1>t, <1>r DEF RunJob
<1>2. ASSUME NEW j \in Ids, StopJob(j) PROVE Covers(count', subs', st')
  BY <1>2, <1>s DEF StopJob
<1>3. ASSUME NEW j \in Ids, AddJob(j) PROVE Covers(count', subs', st')
  <2>1. PICK due \in DueSets(pos', sched) :
          OnRunJob(NoPending(st), runs, count, pos', due, "sched")
    BY <1>3 DEF AddJob
  <2>2. due \in SUBSET Ids /\ \E d : due \subseteq {d} BY DueSetsType
  <2> QED BY <1>p, <1>r, <2>1, <2>2
<1>4. ASSUME NEW j \in Ids, UpdateJob(j) PROVE Covers(count', subs', st')
  <2> DEFINE edited == NoPending([st EXCEPT ![j].running = FALSE])
  <2>1. edited \in Slots /\ \A i \in Ids : edited[i].run = st[i].run
    BY ZenonT(60), <1>t DEF NoPending, Slots, Slot
  <2>2. PICK due \in DueSets(pos, sched') : OnRunJob(edited, runs, count, pos, due, "sched")
    BY <1>4 DEF UpdateJob
  <2>3. due \in SUBSET Ids /\ \E d : due \subseteq {d} BY DueSetsType
  <2> HIDE DEF edited
  <2> QED BY <1>r, <2>1, <2>2, <2>3
<1>5. ASSUME NEW j \in Ids, DeleteJob(j) PROVE Covers(count', subs', st')
  <2>1. /\ st' = NoPending([st EXCEPT ![j] = EmptySlot]) /\ subs' = subs
        /\ count' = IF st[j].run # 0 THEN Dec(count) ELSE count
    BY <1>5 DEF DeleteJob, Owes
  <2>2. \A i \in Ids : st'[i].run = IF i = j THEN 0 ELSE st[i].run
    BY <1>t, <2>1 DEF NoPending, EmptySlot, Slots, Slot
  <2>3. CASE st[j].run # 0
    <3>1. TrackedIn(st') = TrackedIn(st) \ {j} BY <2>2 DEF TrackedIn
    <3>2. j \in TrackedIn(st) BY <2>3 DEF TrackedIn
    <3>3. count' = Dec(count) /\ subs' = subs BY <2>1, <2>3
    <3>4. Covers(Dec(count), subs, st') BY ONLY <1>t, <3>1, <3>2, DecCovers, Covers(count, subs, st)
    <3> QED BY <3>3, <3>4
  <2>4. CASE st[j].run = 0
    BY <1>s, <2>1, <2>2, <2>4
  <2> QED BY <2>3, <2>4
<1>6. ASSUME NEW j \in Ids, WatchEvent(j) PROVE Covers(count', subs', st')
  <2>1. \A i \in Ids : st'[i].run = st[i].run
    BY <1>6, <1>t DEF WatchEvent, Slots, Slot
  <2> QED BY <1>6, <1>s, <2>1 DEF WatchEvent
<1>7. ASSUME NEW t \in timers, SchedTimer(t) \/ RetryTimer(t) PROVE Covers(count', subs', st')
  <2> DEFINE due == IF Valid(t) THEN {t.id} ELSE {}
  <2>1. due \in SUBSET Ids /\ due \subseteq {t.id} BY <1>t DEF Timers
  <2>2. PICK trig \in Triggers : OnRunJob(st, runs, count, pos, due, trig)
    BY <1>7 DEF SchedTimer, RetryTimer, Triggers
  <2> HIDE DEF due
  <2> QED BY <1>t, <1>r, <2>1, <2>2
<1>8. ASSUME NEW c \in idles, ResyncIdle(c) PROVE Covers(count', subs', st')
  <2> DEFINE due == IF Valid(c) THEN {c.id} ELSE {}
  <2>1. due \in SUBSET Ids /\ due \subseteq {c.id} BY <1>t
  <2>2. OnRunJob(st, runs, count, pos, due, "resync") BY <1>8 DEF ResyncIdle
  <2> HIDE DEF due
  <2> QED BY <1>t, <1>r, <2>1, <2>2
<1>9. ASSUME NEW t \in timers, WatchTimer(t) PROVE Covers(count', subs', st')
  <2>1. CASE Valid(t)
    <3> DEFINE slots == [st EXCEPT ![t.id].pending = FALSE]
    <3>1. t.id \in Ids BY <1>t DEF Timers
    <3>2. slots \in Slots /\ \A j \in Ids : slots[j].run = st[j].run
      BY ZenonT(60), <1>t, <3>1 DEF Slots, Slot
    <3>3. OnRunJob(slots, runs, count, pos, {t.id}, "watch") BY <1>9, <2>1 DEF WatchTimer
    <3> HIDE DEF slots
    <3> QED BY <1>r, <3>1, <3>2, <3>3
  <2>2. CASE ~Valid(t) BY <1>9, <1>s, <2>2 DEF WatchTimer
  <2> QED BY <2>1, <2>2
<1>10. ASSUME NEW t \in timers, PollTick(t) PROVE Covers(count', subs', st')
  <2>1. t.id \in Ids BY <1>t DEF Timers
  <2>2. st' = st \/ st' = [st EXCEPT ![t.id].pollBusy = TRUE] BY <1>10 DEF PollTick
  <2>3. \A j \in Ids : st'[j].run = st[j].run BY <1>t, <2>1, <2>2 DEF Slots, Slot
  <2> QED BY <1>10, <1>s, <2>3 DEF PollTick
<1>c. ASSUME NEW i
      PROVE  ClearSubmitting(i) \in Slots
             /\ \A j \in Ids : ClearSubmitting(i)[j].run = st[j].run
  BY ZenonT(60), <1>t DEF ClearSubmitting, Slots, Slot
<1>d. ASSUME NEW c \in subs, subs' = subs \ {c}, count' = Dec(count),
             \A j \in Ids : st'[j].run = st[j].run
      PROVE  Covers(count', subs', st')
  <2>1. TrackedIn(st') = TrackedIn(st) BY <1>d, TrackedSame
  <2> QED BY <1>t, <1>d, <2>1, DecCovers
<1>11. ASSUME NEW c \in subs, SubmitFailed(c) PROVE Covers(count', subs', st')
  <2>1. c.id \in Ids BY <1>t DEF Calls
  <2>2. st' = ClearSubmitting(c.idx)
        \/ st' = [ClearSubmitting(c.idx) EXCEPT ![c.id].running = FALSE]
    BY <1>11 DEF SubmitFailed
  <2>3. \A j \in Ids : st'[j].run = st[j].run BY <1>c, <2>1, <2>2 DEF Slots, Slot
  <2> QED BY <1>11, <1>d, <2>3 DEF SubmitFailed
<1>12. ASSUME NEW c \in subs, SubmitAccepted(c) PROVE Covers(count', subs', st')
  <2>1. c.id \in Ids BY <1>t DEF Calls
  <2>2. CASE Valid(c)
    <3>1. /\ st' = [ClearSubmitting(c.idx) EXCEPT ![c.id].run = c.run]
          /\ count' = count /\ subs' = subs \ {c}
      BY <1>12, <2>2 DEF SubmitAccepted
    <3>2. TrackedIn(st') \subseteq TrackedIn(st) \cup {c.id}
      BY <1>c, <2>1, <3>1 DEF TrackedIn, Slots, Slot
    <3>3. IsFiniteSet(subs) /\ Cardinality(subs) \in Nat
      BY FS_CardinalityType DEF Covers
    <3>4. IsFiniteSet(subs') /\ Cardinality(subs') = Cardinality(subs) - 1
      BY <3>1, <3>3, FS_RemoveElement
    <3>5. IsFiniteSet(TrackedIn(st)) /\ Cardinality(TrackedIn(st)) \in Nat
      BY TrackedFinite
    <3>6. /\ IsFiniteSet(TrackedIn(st) \cup {c.id})
          /\ Cardinality(TrackedIn(st) \cup {c.id}) <= Cardinality(TrackedIn(st)) + 1
      BY <3>5, FS_AddElement
    <3>7. Cardinality(TrackedIn(st')) <= Cardinality(TrackedIn(st) \cup {c.id})
      BY <3>2, <3>6, FS_Subset
    <3>8. /\ Cardinality(TrackedIn(st')) \in Nat
          /\ Cardinality(TrackedIn(st) \cup {c.id}) \in Nat
      BY <3>6, TrackedFinite, FS_CardinalityType
    <3>9. Cardinality(subs') \in Nat BY <3>4, FS_CardinalityType
    <3> QED BY <1>t, <3>1, <3>3, <3>4, <3>5, <3>6, <3>7, <3>8, <3>9 DEF Covers
  <2>3. CASE ~Valid(c)
    <3>1. st' = ClearSubmitting(c.idx) /\ count' = Dec(count) /\ subs' = subs \ {c}
      BY <1>12, <2>3 DEF SubmitAccepted
    <3>2. \A j \in Ids : st'[j].run = st[j].run BY <1>c, <3>1
    <3> QED BY <1>d, <3>1, <3>2
  <2> QED BY <2>2, <2>3
<1>13. ASSUME NEW c \in polls, StatusIgnored(c) PROVE Covers(count', subs', st')
  BY <1>13, <1>s DEF StatusIgnored, daemonVars
<1>14. ASSUME NEW c \in polls, NEW slots \in Slots, \A j \in Ids : slots[j].run = st[j].run,
              Concerns(c), NEW ledger, NEW outcome, NEW nobase \in BOOLEAN,
              OnJobCompleted(slots, ledger, c, outcome, nobase)
       PROVE  Covers(count', subs', st')
  <2>1. c.id \in Ids BY <1>t DEF Calls
  <2>2. slots[c.id].run # 0 BY <1>14, <2>1 DEF Concerns
  <2>3. TrackedIn(slots) = TrackedIn(st) BY <1>14, TrackedSame
  <2>4. Covers(count, subs, slots) BY <2>3 DEF Covers
  <2> QED BY <1>14, <2>1, <2>2, <2>4, CompletedCovers
<1>15. ASSUME NEW c \in polls, StatusAnswered(c) PROVE Covers(count', subs', st')
  <2> DEFINE phase == runs[c.id][c.run].phase
             seen == [st EXCEPT ![c.id].pollBusy = FALSE, ![c.id].pollFails = 0]
  <2>1. c.id \in Ids BY <1>t DEF Calls
  <2>2. seen \in Slots BY ZenonT(60), <1>t, <2>1 DEF Slots, Slot
  <2>3. \A j \in Ids : seen[j].run = st[j].run BY <1>t, <2>1 DEF Slots, Slot
  <2>5. Concerns(c) BY <1>15 DEF StatusAnswered
  <2>6. \/ st' = seen /\ count' = count /\ subs' = subs
        \/ OnJobCompleted(seen, runs, c, Verdict(phase), phase = "nobase")
    BY <1>15 DEF StatusAnswered
  <2>7. (phase = "nobase") \in BOOLEAN OBVIOUS
  <2> HIDE DEF seen, phase
  <2>8. CASE st' = seen /\ count' = count /\ subs' = subs BY <1>s, <2>3, <2>8
  <2>9. CASE OnJobCompleted(seen, runs, c, Verdict(phase), phase = "nobase")
    BY <1>14, <2>2, <2>3, <2>5, <2>7, <2>9
  <2> QED BY <2>6, <2>8, <2>9
<1>16. ASSUME NEW c \in polls, StatusMissed(c) PROVE Covers(count', subs', st')
  <2> DEFINE missed == [st EXCEPT ![c.id] = Miss(@)]
  <2>1. c.id \in Ids BY <1>t DEF Calls
  <2>2. missed \in Slots /\ \A j \in Ids : missed[j].run = st[j].run
    <3>1. st[c.id] \in Slot /\ st[c.id].pollFails + 1 \in Nat
      BY <1>t, <2>1 DEF Slots, Slot
    <3>2. Miss(st[c.id]) \in Slot /\ Miss(st[c.id]).run = st[c.id].run
      BY <3>1 DEF Slot, Miss
    <3> QED BY <1>t, <2>1, <3>2 DEF Slots
  <2>3. Concerns(c) BY <1>16 DEF StatusMissed
  <2>4. \/ st' = missed /\ count' = count /\ subs' = subs
        \/ OnJobCompleted(missed, runs, c, "gaveup", FALSE)
    BY <1>16 DEF StatusMissed
  <2> HIDE DEF missed
  <2>5. CASE st' = missed /\ count' = count /\ subs' = subs BY <1>s, <2>2, <2>5
  <2>6. CASE OnJobCompleted(missed, runs, c, "gaveup", FALSE)
    BY <1>14, <2>2, <2>3, <2>6
  <2> QED BY <2>4, <2>5, <2>6
<1>17. ASSUME NEW c \in stops, StopAnswered(c) PROVE Covers(count', subs', st')
  <2>1. c.id \in Ids BY <1>t DEF Calls
  <2>2. CASE Concerns(c)
    <3>1. /\ st' = [st EXCEPT ![c.id].run = 0, ![c.id].running = FALSE]
          /\ count' = Dec(count) /\ subs' = subs
      BY <1>17, <2>2 DEF StopAnswered
    <3>2. TrackedIn(st') = TrackedIn(st) \ {c.id}
      BY <1>t, <2>1, <3>1 DEF TrackedIn, Slots, Slot
    <3>3. c.id \in TrackedIn(st) BY <2>1, <2>2 DEF TrackedIn, Concerns
    <3> QED BY <1>t, <3>1, <3>2, <3>3, DecCovers
  <2>3. CASE ~Concerns(c) BY <1>17, <1>s, <2>3 DEF StopAnswered
  <2> QED BY <2>2, <2>3
<1>18. ASSUME Rcd PROVE Covers(count', subs', st')
  <2>1. count' = count /\ subs' = subs /\ st' = st
    BY <1>18 DEF Rcd, RcdAccepts, RcdFinishes, RcdStops, RcdForgets, Becomes, daemonVars, callVars
  <2> QED BY <1>s, <2>1
<1>19. ASSUME Stop \/ Crash PROVE Covers(count', subs', st')
  <2>1. count' = 0 /\ subs' = {} /\ st' = [j \in Ids |-> EmptySlot]
    BY <1>19 DEF Stop, Crash, GoDown
  <2>2. TrackedIn(st') = {} BY <2>1 DEF TrackedIn, EmptySlot
  <2> QED BY <2>1, <2>2, FS_EmptySet DEF Covers
<1>20. ASSUME Boot PROVE Covers(count', subs', st')
  <2>1. PICK due \in DueSets(pos, sched) : OnRunJob(st, runs, count, pos, due, "sched")
    BY <1>20 DEF Boot
  <2>2. due \in SUBSET Ids /\ \E d : due \subseteq {d} BY DueSetsType
  <2> QED BY <1>t, <1>r, <2>1, <2>2
<1>21. CASE UNCHANGED vars BY <1>21, <1>s DEF vars, daemonVars, callVars
<1>22. CASE User BY <1>22, <1>1, <1>2, <1>3, <1>4, <1>5, <1>6 DEF User
<1>23. CASE MainLoop
  <2>1. CASE \E t \in timers : SchedTimer(t) \/ RetryTimer(t) \/ WatchTimer(t) \/ PollTick(t)
    BY <2>1, <1>7, <1>9, <1>10
  <2>2. CASE \E c \in idles : ResyncIdle(c)
    BY <2>2, <1>8
  <2>3. CASE \E c \in subs : SubmitFailed(c) \/ SubmitAccepted(c)
    BY <2>3, <1>11, <1>12
  <2>4. CASE \E c \in polls : StatusIgnored(c) \/ StatusAnswered(c) \/ StatusMissed(c)
    BY <2>4, <1>13, <1>15, <1>16
  <2>5. CASE \E c \in stops : StopAnswered(c)
    BY <2>5, <1>17
  <2> QED BY <1>23, <2>1, <2>2, <2>3, <2>4, <2>5 DEF MainLoop
<1> QED BY <1>18, <1>19, <1>20, <1>21, <1>22, <1>23 DEF Next, Lifecycle

\* At the start there is no work to cover.
LEMMA InitCovers == Init => Covers(count, subs, st)
<1> SUFFICES ASSUME Init PROVE Covers(count, subs, st)
  OBVIOUS
<1>1. TrackedIn(st) = {} BY DEF Init, TrackedIn, EmptySlot
<1>2. count = 0 /\ subs = {} BY DEF Init
<1> QED BY <1>1, <1>2, FS_EmptySet DEF Covers

\* m_running_job_count covers the submissions awaited and the runs tracked,
\* for any number of jobs deleted under any number of outstanding calls: the
\* spinner is never taken down while work is under way, and the clamps of the
\* counter are dead code.
THEOREM CounterCoversWork == Spec => []CountCovers
<1>1. Init => CountInv BY InitType, InitCovers DEF CountInv
<1>2. CountInv /\ [Next]_vars => CountInv'
  <2> SUFFICES ASSUME CountInv, [Next]_vars PROVE CountInv'
    OBVIOUS
  <2>1. TypeOK' BY NextType DEF CountInv
  <2>2. Covers(count', subs', st') BY NextCovers
  <2> QED BY <2>1, <2>2 DEF CountInv
<1>3. CountInv => CountCovers BY DEF CountInv, Covers, CountCovers, Tracked, TrackedIn
<1> QED BY <1>1, <1>2, <1>3, PTL DEF Spec
=============================================================================
