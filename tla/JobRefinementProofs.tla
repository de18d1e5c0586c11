------------------------ MODULE JobRefinementProofs ------------------------
(***************************************************************************)
(* JobDaemon implements JobLife, for every set of jobs and every value of  *)
(* the bounds, while nobody deletes or edits a job (a deletion moves the   *)
(* indices under the callbacks of other jobs, and an edit overwrites the   *)
(* running flag).                                                          *)
(***************************************************************************)
EXTENDS JobRefinement, JobDaemonProofs

\* What the life of a job reads in its slot
Core(s, t) ==
  /\ s.run = t.run /\ s.submitting = t.submitting /\ s.running = t.running
  /\ s.retries = t.retries /\ s.resyncTried = t.resyncTried

SameArms(j) == (RetryArmed(j)' <=> RetryArmed(j)) /\ (ResyncArmed(j)' <=> ResyncArmed(j))

Lives(j) == [Life(j)!LifeNext]_(Life(j)!lifeVars)

\* Indices are those of the list, ...
ListOK ==
  /\ \A j \in fresh : pos[j] = 0
  /\ \A j \in Ids : pos[j] <= Size
  /\ \A i, j \in Ids : InList(i) /\ pos[i] = pos[j] => i = j

\* ... a start request belongs to a slot that waits for it and tracks nothing, ...
CallsOK(S, slots, P) ==
  /\ \A c \in S : /\ c.idx # 0 /\ P[c.id] = c.idx /\ c.run # 0
                  /\ slots[c.id].submitting /\ slots[c.id].run = 0
  /\ \A c, d \in S : c.id = d.id => c = d
  /\ \A j \in Ids : slots[j].run # 0 => ~slots[j].submitting

\* ... the starts in store are for their own job, ...
ArmsOK ==
  /\ \A t \in timers : t.kind = "retry" => Valid(t)
  /\ \A c \in idles : Valid(c)

\* ... and a daemon that is down has nothing.
DownOK ==
  ~up => /\ \A j \in Ids : st[j] = EmptySlot
         /\ timers = {} /\ idles = {} /\ subs = {}

LifeInv == TypeOK /\ ListOK /\ CallsOK(subs, st, pos) /\ ArmsOK /\ DownOK

-----------------------------------------------------------------------------
(* Steps of one life *)

\* A handler that leaves the job as it is is a stutter.
LEMMA CoreStutters ==
  ASSUME NEW j \in Ids, Core(st'[j], st[j]), SameArms(j)
  PROVE  Lives(j)
BY DEF Lives, Life!lifeVars, Core, SameArms, WorkOf, AheadOf

\* on_run_job begins a run or skips the job; nothing was in store for it that
\* is gone now.
LEMMA StartLives ==
  ASSUME NEW j \in Ids, NEW slots \in Slots, NEW ledger, NEW n, NEW P, NEW due, NEW trig,
         Core(slots[j], st[j]), SameArms(j),
         OnRunJob(slots, ledger, n, P, due, trig)
  PROVE  Lives(j)
<1>1. CASE j \in Going(slots, due)
  <2>1. st'[j] = [slots[j] EXCEPT !.submitting = TRUE, !.running = TRUE, !.resync = FALSE]
    BY <1>1 DEF OnRunJob
  <2>2. slots[j].run = 0 /\ ~slots[j].submitting BY <1>1 DEF Going, Busy
  <2>3. WorkOf(j) = "idle" BY <2>2 DEF WorkOf, Core
  <2>4. WorkOf(j)' = "asked" BY <2>1, <2>2 DEF WorkOf, Slots, Slot
  <2>5. AheadOf(j)' = AheadOf(j) \ {} BY DEF SameArms, AheadOf
  <2>6. /\ st'[j].running = TRUE /\ st'[j].retries = st[j].retries
        /\ st'[j].resyncTried = st[j].resyncTried
    BY <2>1 DEF Core, Slots, Slot
  <2> QED BY <2>3, <2>4, <2>5, <2>6 DEF Lives, Life!LifeNext, Life!Begin
<1>2. CASE j \notin Going(slots, due)
  <2>1. st'[j] = slots[j] BY <1>2 DEF OnRunJob
  <2> QED BY <2>1, CoreStutters
<1> QED BY <1>1, <1>2

\* A start that was in store begins a run, or is overtaken by the work under way.
LEMMA StoredStartLives ==
  ASSUME NEW j \in Ids, NEW ledger, NEW n, NEW P, NEW due, NEW trig, st \in Slots,
         NEW s, s \in AheadOf(j), AheadOf(j)' = AheadOf(j) \ {s}, j \in due,
         OnRunJob(st, ledger, n, P, due, trig)
  PROVE  Lives(j)
<1>1. CASE j \in Going(st, due)
  <2>1. st'[j] = [st[j] EXCEPT !.submitting = TRUE, !.running = TRUE, !.resync = FALSE]
    BY <1>1 DEF OnRunJob
  <2>2. st[j].run = 0 /\ ~st[j].submitting BY <1>1 DEF Going, Busy
  <2>3. WorkOf(j) = "idle" BY <2>2 DEF WorkOf
  <2>4. WorkOf(j)' = "asked" BY <2>1, <2>2 DEF WorkOf, Slots, Slot
  <2>5. /\ st'[j].running = TRUE /\ st'[j].retries = st[j].retries
        /\ st'[j].resyncTried = st[j].resyncTried
    BY <2>1 DEF Slots, Slot
  <2> QED BY <2>3, <2>4, <2>5 DEF Lives, Life!LifeNext, Life!Begin
<1>2. CASE j \notin Going(st, due)
  <2>1. st'[j] = st[j] BY <1>2 DEF OnRunJob
  <2>2. WorkOf(j) # "idle" BY <1>2 DEF Going, Busy, WorkOf
  <2>3. WorkOf(j)' = WorkOf(j) BY <2>1 DEF WorkOf
  <2> QED BY <2>1, <2>2, <2>3 DEF Lives, Life!LifeNext, Life!Overtaken
<1> QED BY <1>1, <1>2

\* Timers of another kind do not matter, nor do those of another job.
LEMMA OtherTimers ==
  ASSUME NEW j \in Ids, NEW T,
         \A t : t.kind = "retry" /\ t.id = j => (t \in T <=> t \in timers),
         timers' = T, UNCHANGED idles
  PROVE  SameArms(j)
BY DEF SameArms, RetryArmed, ResyncArmed

\* on_job_completed: the run that was tracked ends, in one of three ways.
LEMMA CompletedLives ==
  ASSUME NEW c \in Calls, NEW slots \in Slots, st \in Slots,
         \A i \in Ids : Core(slots[i], st[i]),
         slots[c.id].run # 0, ~slots[c.id].submitting,
         NEW ledger, NEW outcome, NEW nobase,
         OnJobCompleted(slots, ledger, c, outcome, nobase), NEW j \in Ids
  PROVE  Lives(j)
<1> DEFINE claimed == [slots EXCEPT ![c.id] = Claim(@)]
           ended   == End(ledger, c.id, slots[c.id].run, outcome)
<1>c. c.id \in Ids BY DEF Calls
<1>1. /\ \A i \in Ids : i # c.id => claimed[i] = slots[i]
      /\ claimed[c.id] = Claim(slots[c.id])
      /\ claimed \in Slots
  BY <1>c DEF Claim, Slots, Slot
<1>2. /\ claimed[c.id].run = 0 /\ ~claimed[c.id].submitting
      /\ claimed[c.id].running = st[c.id].running /\ claimed[c.id].retries = st[c.id].retries
      /\ claimed[c.id].resyncTried = st[c.id].resyncTried
  BY <1>c, <1>1 DEF Claim, Slots, Slot, Core
<1>3. WorkOf(c.id) = "tracked" BY <1>c DEF WorkOf, Core
<1>4. \A i \in Ids : i # c.id => Core(claimed[i], st[i]) BY <1>1
<1> HIDE DEF claimed
<1>5. CASE ResyncRetry(claimed, ended, c) /\ ~slots[c.id].resyncTried
  <2>1. /\ st'[c.id].run = 0 /\ ~st'[c.id].submitting
        /\ st'[c.id].running = st[c.id].running /\ st'[c.id].retries = st[c.id].retries
        /\ st'[c.id].resyncTried = TRUE
        /\ \A i \in Ids : i # c.id => st'[i] = claimed[i]
    BY <1>c, <1>1, <1>2, <1>5 DEF ResyncRetry, Slots, Slot
  <2>2. RetryArmed(j)' <=> RetryArmed(j) BY <1>5 DEF ResyncRetry, RetryArmed, Without
  <2>3. CASE j = c.id
    <3>0. [idx |-> c.idx, id |-> c.id] \in idles' BY <1>5 DEF ResyncRetry
    <3>1. ResyncArmed(j)'
      <4> DEFINE call == [idx |-> c.idx, id |-> c.id]
      <4>1. call.id = j BY <2>3
      <4> HIDE DEF call
      <4> QED BY <3>0, <4>1 DEF ResyncArmed, call
    <3>2. AheadOf(j)' = AheadOf(j) \cup {"resync"} BY <2>2, <3>1 DEF AheadOf
    <3>3. WorkOf(j)' = "idle" BY <2>1, <2>3 DEF WorkOf
    <3>4. st[j].resyncTried = FALSE BY <1>5, <1>c, <2>3 DEF Core, Slots, Slot
    <3> QED BY <1>3, <2>1, <2>3, <3>2, <3>3, <3>4 DEF Lives, Life!LifeNext, Life!Resyncs
  <2>4. CASE j # c.id
    <3>1. ResyncArmed(j)' <=> ResyncArmed(j) BY <1>5, <2>4 DEF ResyncRetry, ResyncArmed
    <3> QED BY <1>4, <2>1, <2>2, <2>4, <3>1, CoreStutters DEF SameArms
  <2> QED BY <2>3, <2>4
<1>6. CASE BackoffRetry(claimed, ended, c) /\ Retryable(slots[c.id], outcome)
  <2>1. /\ st'[c.id].run = 0 /\ ~st'[c.id].submitting
        /\ st'[c.id].running = st[c.id].running /\ st'[c.id].retries = st[c.id].retries + 1
        /\ st'[c.id].resyncTried = st[c.id].resyncTried
        /\ \A i \in Ids : i # c.id => st'[i] = claimed[i]
    BY <1>c, <1>1, <1>2, <1>6 DEF BackoffRetry, Slots, Slot
  <2>2. ResyncArmed(j)' <=> ResyncArmed(j) BY <1>6 DEF BackoffRetry, ResyncArmed
  <2>3. CASE j = c.id
    <3>0. Timer("retry", c.idx, c.id) \in timers' BY <1>6 DEF BackoffRetry, Rearm
    <3>1. RetryArmed(j)' BY <2>3, <3>0 DEF RetryArmed, Timer
    <3>2. AheadOf(j)' = AheadOf(j) \cup {"retry"} BY <2>2, <3>1 DEF AheadOf
    <3>3. WorkOf(j)' = "idle" BY <2>1, <2>3 DEF WorkOf
    <3>4. st[j].retries < MaxRetries BY <1>6, <1>c, <2>3 DEF Core, Retryable
    <3> QED BY <1>3, <2>1, <2>3, <3>2, <3>3, <3>4 DEF Lives, Life!LifeNext, Life!TriesAgain
  <2>4. CASE j # c.id
    <3>1. RetryArmed(j)' <=> RetryArmed(j)
      BY <1>6, <2>4 DEF BackoffRetry, RetryArmed, Rearm, Without, Timer
    <3> QED BY <1>4, <2>1, <2>2, <2>4, <3>1, CoreStutters DEF SameArms
  <2> QED BY <2>3, <2>4
<1>7. CASE FinalVerdict(claimed, ended, c)
  <2> DEFINE done == [claimed EXCEPT ![c.id].retries = 0, ![c.id].running = FALSE]
  <2>1. PICK due \in {d \in DueSets(pos, sched) : d \subseteq {c.id}}, none \in SUBSET Sparse :
          /\ timers' = LET timed == Reschedule(Without(timers, "poll", c.id), c, due \cup none)
                       IN IF claimed[c.id].pending THEN Rearm(timed, "watch", c.idx, c.id) ELSE timed
          /\ OnRunJob(done, ended, Dec(count), pos, due, "sched")
          /\ UNCHANGED idles
    BY <1>7 DEF FinalVerdict
  <2>2. SameArms(j)
    BY <2>1 DEF SameArms, RetryArmed, ResyncArmed, Reschedule, Rearm, Without, Timer
  <2>a. done[c.id] = [claimed[c.id] EXCEPT !.retries = 0, !.running = FALSE]
    BY <1>c, <1>1 DEF Slots
  <2>b. \A i \in Ids : i # c.id => done[i] = claimed[i] BY <1>1 DEF Slots
  <2>c. claimed[c.id] \in Slot BY <1>c, <1>1 DEF Slots
  <2>e. done \in Slots BY ZenonT(60), <1>1 DEF Slots, Slot
  <2>3. /\ done[c.id].run = 0 /\ ~done[c.id].submitting /\ done[c.id].running = FALSE
        /\ done[c.id].retries = 0 /\ done[c.id].resyncTried = st[c.id].resyncTried
        /\ \A i \in Ids : i # c.id => done[i] = claimed[i]
        /\ done \in Slots
    <3> HIDE DEF done
    <3> QED BY <1>2, <2>a, <2>b, <2>c, <2>e DEF Slot
  <2> HIDE DEF done
  <2>4. CASE j # c.id
    <3>1. j \notin Going(done, due) BY <2>1, <2>4 DEF Going
    <3>2. st'[j] = done[j] BY <2>1, <3>1 DEF OnRunJob
    <3> QED BY <1>4, <2>2, <2>3, <2>4, <3>2, CoreStutters
  <2>5. CASE j = c.id /\ j \in Going(done, due)
    <3>1. st'[j] = [done[j] EXCEPT !.submitting = TRUE, !.running = TRUE, !.resync = FALSE]
      BY <2>1, <2>5 DEF OnRunJob
    <3>2. /\ st'[j].run = 0 /\ st'[j].submitting /\ st'[j].running = TRUE
          /\ st'[j].retries = 0 /\ st'[j].resyncTried = st[j].resyncTried
      BY <2>3, <2>5, <3>1 DEF Slots, Slot
    <3>3. WorkOf(j)' = "asked" BY <3>2 DEF WorkOf
    <3>4. AheadOf(j)' = AheadOf(j) BY <2>2 DEF SameArms, AheadOf
    <3> QED BY <1>3, <2>5, <3>2, <3>3, <3>4 DEF Lives, Life!LifeNext, Life!Concludes
  <2>6. CASE j = c.id /\ j \notin Going(done, due)
    <3>1. st'[j] = done[j] BY <2>1, <2>6 DEF OnRunJob
    <3>3. WorkOf(j)' = "idle" BY <2>3, <2>6, <3>1 DEF WorkOf
    <3>4. AheadOf(j)' = AheadOf(j) BY <2>2 DEF SameArms, AheadOf
    <3> QED BY <1>3, <2>3, <2>6, <3>1, <3>3, <3>4 DEF Lives, Life!LifeNext, Life!Concludes
  <2> QED BY <2>4, <2>5, <2>6
<1> QED BY <1>5, <1>6, <1>7 DEF OnJobCompleted, claimed

-----------------------------------------------------------------------------
(* Every step is a step of each life, or leaves it alone *)

Requests == \E i \in Ids : RunJob(i) \/ StopJob(i) \/ AddJob(i) \/ WatchEvent(i)
Sources  ==
  \/ \E t \in timers : SchedTimer(t) \/ RetryTimer(t) \/ WatchTimer(t) \/ PollTick(t)
  \/ \E c \in idles : ResyncIdle(c)

LEMMA RequestsLive ==
  ASSUME LifeInv, Requests, NEW j \in Ids
  PROVE  Lives(j)
<1>t. st \in Slots BY TypeShape DEF LifeInv
<1>p. NoPending(st) \in Slots BY ZenonT(60), <1>t DEF NoPending, Slots, Slot
<1>1. ASSUME NEW i \in Ids, RunJob(i) PROVE Lives(j)
  <2>1. OnRunJob(st, runs, count, pos, {i}, "user") BY <1>1 DEF RunJob
  <2>2. SameArms(j) BY <1>1 DEF RunJob, SameArms, RetryArmed, ResyncArmed
  <2> QED BY <1>t, <2>1, <2>2, StartLives DEF Core
<1>2. ASSUME NEW i \in Ids, StopJob(i) PROVE Lives(j)
  <2>1. st'[j] = st[j] BY <1>2 DEF StopJob
  <2>2. ResyncArmed(j)' <=> ResyncArmed(j) BY <1>2 DEF StopJob, ResyncArmed
  <2>3. CASE i = j
    <3>1. ~RetryArmed(j)' BY <1>2, <2>3 DEF StopJob, RetryArmed, Without
    <3>2. AheadOf(j)' = AheadOf(j) \ {"retry"} BY <2>2, <3>1 DEF AheadOf
    <3>3. WorkOf(j) = "tracked" /\ WorkOf(j)' = WorkOf(j) BY <1>2, <2>1, <2>3 DEF StopJob, WorkOf
    <3> QED BY <2>1, <3>2, <3>3 DEF Lives, Life!LifeNext, Life!StopAsked
  <2>4. CASE i # j
    <3>1. RetryArmed(j)' <=> RetryArmed(j) BY <1>2, <2>4 DEF StopJob, RetryArmed, Without
    <3> QED BY <2>1, <2>2, <3>1, CoreStutters DEF SameArms, Core
  <2> QED BY <2>3, <2>4
<1>3. ASSUME NEW i \in Ids, AddJob(i) PROVE Lives(j)
  <2>1. PICK due \in DueSets(pos', sched), none \in SUBSET Sparse :
          /\ timers' = NoWatchTimers(ScheduleAll(timers, pos', sched, due \cup none))
          /\ OnRunJob(NoPending(st), runs, count, pos', due, "sched")
    BY <1>3 DEF AddJob
  <2>2. UNCHANGED idles BY <1>3 DEF AddJob
  <2>3. SameArms(j)
    BY <2>1, <2>2 DEF SameArms, RetryArmed, ResyncArmed, NoWatchTimers, ScheduleAll, Timer
  <2>4. Core(NoPending(st)[j], st[j]) BY <1>t DEF NoPending, Core, Slots, Slot
  <2> QED BY <1>p, <2>1, <2>3, <2>4, StartLives
<1>4. ASSUME NEW i \in Ids, WatchEvent(i) PROVE Lives(j)
  <2>1. Core(st'[j], st[j]) BY <1>4, <1>t DEF WatchEvent, Core, Slots, Slot
  <2>2. SameArms(j)
    BY <1>4 DEF WatchEvent, SameArms, RetryArmed, ResyncArmed, Rearm, Without, Timer
  <2> QED BY <2>1, <2>2, CoreStutters
<1> QED BY <1>1, <1>2, <1>3, <1>4 DEF Requests

\* The retry timer of a job takes the one retry in store for it, ...
LEMMA RetryTaken ==
  ASSUME LifeInv, NEW t \in timers, RetryTimer(t)
  PROVE  /\ OnRunJob(st, runs, count, pos, {t.id}, "retry")
         /\ "retry" \in AheadOf(t.id) /\ AheadOf(t.id)' = AheadOf(t.id) \ {"retry"}
<1>t. timers \subseteq Timers BY TypeShape DEF LifeInv
<1>1. Valid(t) /\ t.kind = "retry" BY DEF RetryTimer, LifeInv, ArmsOK
<1>2. OnRunJob(st, runs, count, pos, {t.id}, "retry") BY <1>1 DEF RetryTimer
<1>3. timers' = timers \ {t} /\ UNCHANGED idles BY DEF RetryTimer
<1>4. \A u \in timers : u.kind = "retry" /\ u.id = t.id => u = t
  <2> SUFFICES ASSUME NEW u \in timers, u.kind = "retry", u.id = t.id PROVE u = t
    OBVIOUS
  <2>1. Valid(u) BY DEF LifeInv, ArmsOK
  <2>2. u.idx = t.idx BY <1>1, <2>1 DEF Valid
  <2>3. u \in Timers /\ t \in Timers BY <1>t
  <2> QED BY <1>1, <2>2, <2>3 DEF Timers
<1>5. RetryArmed(t.id) /\ ~RetryArmed(t.id)' BY <1>1, <1>3, <1>4 DEF RetryArmed
<1>6. ResyncArmed(t.id)' <=> ResyncArmed(t.id) BY <1>3 DEF ResyncArmed
<1> QED BY <1>2, <1>5, <1>6 DEF AheadOf

\* ... and the idle callback of the resync takes the one resync.
LEMMA ResyncTaken ==
  ASSUME LifeInv, NEW c \in idles, ResyncIdle(c)
  PROVE  /\ OnRunJob(st, runs, count, pos, {c.id}, "resync")
         /\ "resync" \in AheadOf(c.id) /\ AheadOf(c.id)' = AheadOf(c.id) \ {"resync"}
<1>t. idles \subseteq [idx : Nat, id : Ids] BY TypeShape DEF LifeInv
<1>1. Valid(c) BY DEF LifeInv, ArmsOK
<1>2. OnRunJob(st, runs, count, pos, {c.id}, "resync") BY <1>1 DEF ResyncIdle
<1>3. idles' = idles \ {c} /\ UNCHANGED timers BY DEF ResyncIdle
<1>4. \A d \in idles : d.id = c.id => d = c
  <2> SUFFICES ASSUME NEW d \in idles, d.id = c.id PROVE d = c
    OBVIOUS
  <2>1. Valid(d) BY DEF LifeInv, ArmsOK
  <2>2. d.idx = c.idx BY <1>1, <2>1 DEF Valid
  <2>3. d \in [idx : Nat, id : Ids] /\ c \in [idx : Nat, id : Ids] BY <1>t
  <2> QED BY <2>2, <2>3
<1>5. ResyncArmed(c.id) /\ ~ResyncArmed(c.id)' BY <1>3, <1>4 DEF ResyncArmed
<1>6. RetryArmed(c.id)' <=> RetryArmed(c.id) BY <1>3 DEF RetryArmed
<1> QED BY <1>2, <1>5, <1>6 DEF AheadOf

LEMMA SourcesLive ==
  ASSUME LifeInv, Sources, NEW j \in Ids
  PROVE  Lives(j)
<1>t. st \in Slots /\ timers \subseteq Timers /\ idles \subseteq [idx : Nat, id : Ids]
  BY TypeShape DEF LifeInv
<1>c. Core(st[j], st[j]) BY DEF Core
<1>1. ASSUME NEW t \in timers, SchedTimer(t) PROVE Lives(j)
  <2> DEFINE due == IF Valid(t) THEN {t.id} ELSE {}
  <2>1. OnRunJob(st, runs, count, pos, due, "sched") BY <1>1 DEF SchedTimer
  <2>2. SameArms(j) BY <1>1 DEF SchedTimer, SameArms, RetryArmed, ResyncArmed
  <2> QED BY <1>t, <1>c, <2>1, <2>2, StartLives
<1>2. ASSUME NEW t \in timers, RetryTimer(t) PROVE Lives(j)
  <2>1. OnRunJob(st, runs, count, pos, {t.id}, "retry") BY <1>2, RetryTaken
  <2>2. CASE t.id = j BY <1>t, <1>2, <2>1, <2>2, RetryTaken, StoredStartLives
  <2>3. CASE t.id # j
    <3>1. SameArms(j) BY <1>2, <2>3 DEF RetryTimer, SameArms, RetryArmed, ResyncArmed
    <3> QED BY <1>t, <1>c, <2>1, <3>1, StartLives
  <2> QED BY <2>2, <2>3
<1>3. ASSUME NEW t \in timers, WatchTimer(t) PROVE Lives(j)
  <2>1. SameArms(j) BY <1>3 DEF WatchTimer, SameArms, RetryArmed, ResyncArmed
  <2>2. CASE Valid(t)
    <3> DEFINE slots == [st EXCEPT ![t.id].pending = FALSE]
    <3>1. OnRunJob(slots, runs, count, pos, {t.id}, "watch") BY <1>3, <2>2 DEF WatchTimer
    <3>2. slots \in Slots BY ZenonT(60), <1>t DEF Slots, Slot
    <3>3. Core(slots[j], st[j]) BY <1>t DEF Core, Slots, Slot
    <3> HIDE DEF slots
    <3> QED BY <2>1, <3>1, <3>2, <3>3, StartLives
  <2>3. CASE ~Valid(t)
    <3>1. st' = st BY <1>3, <2>3 DEF WatchTimer
    <3> QED BY <2>1, <3>1, CoreStutters DEF Core
  <2> QED BY <2>2, <2>3
<1>4. ASSUME NEW t \in timers, PollTick(t) PROVE Lives(j)
  <2>1. Core(st'[j], st[j]) BY <1>4, <1>t DEF PollTick, Core, Slots, Slot
  <2>2. SameArms(j) BY <1>4 DEF PollTick, SameArms, RetryArmed, ResyncArmed
  <2> QED BY <2>1, <2>2, CoreStutters
<1>5. ASSUME NEW c \in idles, ResyncIdle(c) PROVE Lives(j)
  <2>1. OnRunJob(st, runs, count, pos, {c.id}, "resync") BY <1>5, ResyncTaken
  <2>2. CASE c.id = j BY <1>t, <1>5, <2>1, <2>2, ResyncTaken, StoredStartLives
  <2>3. CASE c.id # j
    <3>1. SameArms(j) BY <1>5, <2>3 DEF ResyncIdle, SameArms, RetryArmed, ResyncArmed
    <3> QED BY <1>t, <1>c, <2>1, <3>1, StartLives
  <2> QED BY <2>2, <2>3
<1> QED BY <1>1, <1>2, <1>3, <1>4, <1>5 DEF Sources

Answers ==
  \/ \E c \in subs : SubmitFailed(c) \/ SubmitAccepted(c)
  \/ \E c \in polls : StatusIgnored(c) \/ StatusAnswered(c) \/ StatusMissed(c)
  \/ \E c \in stops : StopAnswered(c)

\* A list that keeps ListOK has one job at an index.
LEMMA ClearsOne ==
  ASSUME LifeInv, NEW c \in subs
  PROVE  /\ Valid(c) /\ c.id \in Ids /\ WorkOf(c.id) = "asked"
         /\ ClearSubmitting(c.idx)[c.id] = [st[c.id] EXCEPT !.submitting = FALSE]
         /\ \A j \in Ids : j # c.id => ClearSubmitting(c.idx)[j] = st[j]
         /\ ClearSubmitting(c.idx) \in Slots
<1>t. st \in Slots /\ subs \subseteq Calls BY TypeShape DEF LifeInv
<1>1. Valid(c) /\ c.id \in Ids BY <1>t DEF LifeInv, CallsOK, Valid, Calls
<1>2. WorkOf(c.id) = "asked" BY DEF LifeInv, CallsOK, WorkOf
<1>3. ClearSubmitting(c.idx)[c.id] = [st[c.id] EXCEPT !.submitting = FALSE]
  BY <1>1 DEF ClearSubmitting, Valid, InList
<1>4. \A j \in Ids : j # c.id => ClearSubmitting(c.idx)[j] = st[j]
  BY <1>1 DEF ClearSubmitting, Valid, InList, LifeInv, ListOK
<1>5. ClearSubmitting(c.idx) \in Slots
  BY ZenonT(60), <1>t DEF ClearSubmitting, Slots, Slot
<1> QED BY <1>1, <1>2, <1>3, <1>4, <1>5

LEMMA AnswersLive ==
  ASSUME LifeInv, Answers, NEW j \in Ids
  PROVE  Lives(j)
<1>t. st \in Slots /\ subs \subseteq Calls /\ polls \subseteq Calls /\ stops \subseteq Calls
  BY TypeShape DEF LifeInv
<1>1. ASSUME NEW c \in subs, SubmitFailed(c) PROVE Lives(j)
  <2>1. st' = [ClearSubmitting(c.idx) EXCEPT ![c.id].running = FALSE]
    BY <1>1, ClearsOne DEF SubmitFailed
  <2>2. SameArms(j) BY <1>1 DEF SubmitFailed, SameArms, RetryArmed, ResyncArmed
  <2>3. CASE j = c.id
    <3>1. st'[j] = [st[j] EXCEPT !.submitting = FALSE, !.running = FALSE]
      <4>1. ClearSubmitting(c.idx) \in Slots BY ClearsOne
      <4>2. st'[j] = [ClearSubmitting(c.idx)[j] EXCEPT !.running = FALSE]
        BY <2>1, <2>3, <4>1 DEF Slots
      <4> QED BY <2>3, <4>2, ClearsOne
    <3>2. /\ st'[j].run = 0 /\ ~st'[j].submitting /\ st'[j].running = FALSE
          /\ st'[j].retries = st[j].retries /\ st'[j].resyncTried = st[j].resyncTried
      BY <1>t, <2>3, <3>1 DEF LifeInv, CallsOK, Slots, Slot
    <3>3. WorkOf(j) = "asked" /\ WorkOf(j)' = "idle" BY <2>3, <3>2, ClearsOne DEF WorkOf
    <3>4. AheadOf(j)' = AheadOf(j) BY <2>2 DEF SameArms, AheadOf
    <3> QED BY <3>2, <3>3, <3>4 DEF Lives, Life!LifeNext, Life!Rejected
  <2>4. CASE j # c.id
    <3>1. st'[j] = st[j] BY <2>1, <2>4, ClearsOne DEF Slots
    <3> QED BY <2>2, <3>1, CoreStutters DEF Core
  <2> QED BY <2>3, <2>4
<1>2. ASSUME NEW c \in subs, SubmitAccepted(c) PROVE Lives(j)
  <2>1. /\ st' = [ClearSubmitting(c.idx) EXCEPT ![c.id].run = c.run]
        /\ timers' = timers \cup {Timer("poll", c.idx, c.id)} /\ UNCHANGED idles
    BY <1>2, ClearsOne DEF SubmitAccepted
  <2>2. SameArms(j) BY <2>1 DEF SameArms, RetryArmed, ResyncArmed, Timer
  <2>3. CASE j = c.id
    <3>1. st'[j] = [st[j] EXCEPT !.submitting = FALSE, !.run = c.run]
      <4>1. ClearSubmitting(c.idx) \in Slots BY ClearsOne
      <4>2. st'[j] = [ClearSubmitting(c.idx)[j] EXCEPT !.run = c.run]
        BY <2>1, <2>3, <4>1 DEF Slots
      <4> QED BY <2>3, <4>2, ClearsOne
    <3>2. /\ st'[j].run # 0 /\ st'[j].running = st[j].running
          /\ st'[j].retries = st[j].retries /\ st'[j].resyncTried = st[j].resyncTried
      BY <1>t, <2>3, <3>1 DEF LifeInv, CallsOK, Slots, Slot
    <3>3. WorkOf(j) = "asked" /\ WorkOf(j)' = "tracked" BY <2>3, <3>2, ClearsOne DEF WorkOf
    <3>4. AheadOf(j)' = AheadOf(j) BY <2>2 DEF SameArms, AheadOf
    <3> QED BY <3>2, <3>3, <3>4 DEF Lives, Life!LifeNext, Life!Accepted
  <2>4. CASE j # c.id
    <3>1. st'[j] = st[j] BY <2>1, <2>4, ClearsOne DEF Slots
    <3> QED BY <2>2, <3>1, CoreStutters DEF Core
  <2> QED BY <2>3, <2>4
<1>3. ASSUME NEW c \in polls, StatusIgnored(c) PROVE Lives(j)
  BY <1>3, CoreStutters
     DEF StatusIgnored, daemonVars, Core, SameArms, RetryArmed, ResyncArmed
<1>4. ASSUME NEW c \in polls, Concerns(c) PROVE st[c.id].run # 0 /\ ~st[c.id].submitting
  BY <1>t, <1>4 DEF Concerns, Calls, LifeInv, CallsOK
<1>5. ASSUME NEW c \in polls, StatusAnswered(c) PROVE Lives(j)
  <2> DEFINE seen   == [st EXCEPT ![c.id].pollBusy = FALSE, ![c.id].pollFails = 0]
             phase  == runs[c.id][c.run].phase
  <2>1. Concerns(c) BY <1>5 DEF StatusAnswered
  <2>2. seen \in Slots BY ZenonT(60), <1>t DEF Slots, Slot
  <2>3. \A i \in Ids : Core(seen[i], st[i]) BY <1>t DEF Core, Slots, Slot
  <2>4. \/ st' = seen /\ UNCHANGED <<timers, idles>>
        \/ OnJobCompleted(seen, runs, c, Verdict(phase), phase = "nobase")
    BY <1>5 DEF StatusAnswered
  <2>5. c \in Calls /\ c.id \in Ids BY <1>t DEF Calls
  <2> HIDE DEF seen, phase
  <2>6. seen[c.id].run # 0 /\ ~seen[c.id].submitting
    BY <1>4, <2>1, <2>3, <2>5 DEF Core
  <2>7. CASE st' = seen /\ UNCHANGED <<timers, idles>>
    BY <2>3, <2>7, CoreStutters DEF SameArms, RetryArmed, ResyncArmed
  <2>8. CASE OnJobCompleted(seen, runs, c, Verdict(phase), phase = "nobase")
    BY <1>t, <2>2, <2>3, <2>5, <2>6, <2>8, CompletedLives
  <2> QED BY <2>4, <2>7, <2>8
<1>6. ASSUME NEW c \in polls, StatusMissed(c) PROVE Lives(j)
  <2> DEFINE missed == [st EXCEPT ![c.id] = Miss(@)]
  <2>1. Concerns(c) BY <1>6 DEF StatusMissed
  <2>2. missed \in Slots
    <3>1. /\ c.id \in Ids /\ st[c.id] \in Slot
          /\ st[c.id].pollFails + 1 \in Nat
      BY <1>t DEF Calls, Slots, Slot
    <3>2. Miss(st[c.id]) \in Slot BY <3>1 DEF Slot, Miss
    <3> QED BY <1>t, <3>1, <3>2 DEF Slots
  <2>3. \A i \in Ids : Core(missed[i], st[i]) BY <1>t DEF Core, Slots, Slot, Miss
  <2>4. \/ st' = missed /\ UNCHANGED <<timers, idles>>
        \/ OnJobCompleted(missed, runs, c, "gaveup", FALSE)
    BY <1>6 DEF StatusMissed
  <2>5. c \in Calls /\ c.id \in Ids BY <1>t DEF Calls
  <2> HIDE DEF missed
  <2>6. missed[c.id].run # 0 /\ ~missed[c.id].submitting
    BY <1>4, <2>1, <2>3, <2>5 DEF Core
  <2>7. CASE st' = missed /\ UNCHANGED <<timers, idles>>
    BY <2>3, <2>7, CoreStutters DEF SameArms, RetryArmed, ResyncArmed
  <2>8. CASE OnJobCompleted(missed, runs, c, "gaveup", FALSE)
    BY <1>t, <2>2, <2>3, <2>5, <2>6, <2>8, CompletedLives
  <2> QED BY <2>4, <2>7, <2>8
<1>7. ASSUME NEW c \in stops, StopAnswered(c) PROVE Lives(j)
  <2>1. UNCHANGED idles BY <1>7 DEF StopAnswered
  <2>2. CASE ~Concerns(c)
    <3>1. UNCHANGED <<st, timers>> BY <1>7, <2>2 DEF StopAnswered
    <3> QED BY <2>1, <3>1, CoreStutters DEF Core, SameArms, RetryArmed, ResyncArmed
  <2>3. CASE Concerns(c)
    <3>1. /\ st' = [st EXCEPT ![c.id].run = 0, ![c.id].running = FALSE]
          /\ timers' = Without(timers, "poll", c.id)
      BY <1>7, <2>3 DEF StopAnswered
    <3>2. SameArms(j) BY <2>1, <3>1 DEF SameArms, RetryArmed, ResyncArmed, Without
    <3>3. c.id \in Ids /\ st[c.id].run # 0 /\ ~st[c.id].submitting
      BY <1>t, <2>3 DEF Concerns, Calls, LifeInv, CallsOK
    <3>4. CASE j = c.id
      <4>1. st'[j] = [st[j] EXCEPT !.run = 0, !.running = FALSE] BY <1>t, <3>1, <3>4 DEF Slots
      <4>2. /\ st'[j].run = 0 /\ ~st'[j].submitting /\ st'[j].running = FALSE
            /\ st'[j].retries = st[j].retries /\ st'[j].resyncTried = st[j].resyncTried
        BY <1>t, <3>3, <3>4, <4>1 DEF Slots, Slot
      <4>3. WorkOf(j) = "tracked" /\ WorkOf(j)' = "idle" BY <3>3, <3>4, <4>2 DEF WorkOf
      <4>4. AheadOf(j)' = AheadOf(j) BY <3>2 DEF SameArms, AheadOf
      <4> QED BY <4>2, <4>3, <4>4 DEF Lives, Life!LifeNext, Life!Stopped
    <3>5. CASE j # c.id
      <4>1. st'[j] = st[j] BY <1>t, <3>1, <3>5 DEF Slots
      <4> QED BY <3>2, <4>1, CoreStutters DEF Core
    <3> QED BY <3>4, <3>5
  <2> QED BY <2>2, <2>3
<1> QED BY <1>1, <1>2, <1>3, <1>5, <1>6, <1>7 DEF Answers

\* rcd does not touch the daemon, its end forgets everything, and its start may
\* begin a run.
LEMMA OutsideLives ==
  ASSUME LifeInv, Rcd \/ Lifecycle, NEW j \in Ids
  PROVE  Lives(j)
<1>t. st \in Slots BY TypeShape DEF LifeInv
<1>1. CASE Rcd
  <2>1. UNCHANGED daemonVars
    BY <1>1 DEF Rcd, RcdAccepts, RcdFinishes, RcdStops, RcdForgets, Becomes
  <2> QED BY <2>1, CoreStutters DEF daemonVars, Core, SameArms, RetryArmed, ResyncArmed
<1>2. ASSUME NEW L, GoDown(L) PROVE Lives(j)
  <2>1. st'[j] = EmptySlot /\ timers' = {} /\ idles' = {} BY <1>2 DEF GoDown
  <2>2. WorkOf(j)' = "idle" BY <2>1 DEF WorkOf, EmptySlot
  <2>3. AheadOf(j)' = {} BY <2>1 DEF AheadOf, RetryArmed, ResyncArmed
  <2>4. st'[j].running = FALSE /\ st'[j].retries = 0 /\ st'[j].resyncTried = FALSE
    BY <2>1 DEF EmptySlot
  <2> QED BY <2>2, <2>3, <2>4 DEF Lives, Life!LifeNext, Life!Forgotten
<1>3. CASE Boot
  <2>1. PICK due \in DueSets(pos, sched), none \in SUBSET Sparse :
          /\ timers' = ScheduleAll({}, pos, sched, due \cup none)
          /\ OnRunJob(st, runs, count, pos, due, "sched")
    BY <1>3 DEF Boot
  <2>2. timers = {} /\ UNCHANGED idles BY <1>3 DEF Boot, LifeInv, DownOK
  <2>3. SameArms(j)
    BY <2>1, <2>2 DEF SameArms, RetryArmed, ResyncArmed, ScheduleAll, Timer
  <2> QED BY <1>t, <2>1, <2>3, StartLives DEF Core
<1> QED BY <1>1, <1>2, <1>3 DEF Lifecycle, Stop, Crash

Edits == \E j \in Ids : UpdateJob(j)

\* Without deletions every step is of one of these kinds.
LEMMA StepKinds ==
  ASSUME Next, Deletable = {}
  PROVE  Requests \/ Edits \/ Sources \/ Answers \/ Rcd \/ Lifecycle
BY DEF Next, User, MainLoop, Requests, Edits, Sources, Answers, DeleteJob

LEMMA NextLives ==
  ASSUME LifeInv, [Next]_vars, Deletable = {}, Editable = {}
  PROVE  \A j \in Ids : Lives(j)
<1> SUFFICES ASSUME NEW j \in Ids PROVE Lives(j)
  OBVIOUS
<1>1. CASE Next
  <2>1. ~Edits BY DEF Edits, UpdateJob
  <2> QED BY <1>1, <2>1, StepKinds, RequestsLive, SourcesLive, AnswersLive, OutsideLives
<1>2. CASE UNCHANGED vars
  BY <1>2, CoreStutters DEF vars, daemonVars, Core, SameArms, RetryArmed, ResyncArmed
<1> QED BY <1>1, <1>2

\* Every life begins at its beginning.
LEMMA InitLives == Init => \A j \in Ids : Life(j)!LifeInit
<1> SUFFICES ASSUME Init, NEW j \in Ids PROVE Life(j)!LifeInit
  OBVIOUS
<1>1. st[j] = EmptySlot BY DEF Init
<1>2. WorkOf(j) = "idle" BY <1>1 DEF WorkOf, EmptySlot
<1>3. ~RetryArmed(j) /\ ~ResyncArmed(j) BY DEF Init, ScheduleAll, Timer, RetryArmed, ResyncArmed
<1> QED BY <1>1, <1>2, <1>3 DEF Life!LifeInit, AheadOf, EmptySlot

-----------------------------------------------------------------------------
(* The invariant *)

\* Only an added job changes the list: it comes last.
LEMMA ListKept ==
  ASSUME LifeInv, [Next]_vars, Deletable = {}
  PROVE  ListOK'
<1>t. pos \in [Ids -> Nat] /\ fresh \subseteq Ids BY TypeShape DEF LifeInv
<1>1. ASSUME NEW i \in Ids, AddJob(i) PROVE ListOK'
  <2> DEFINE listed == {j \in Ids : InList(j)}
  <2>1. i \in fresh /\ fresh' = fresh \ {i} /\ pos' = [pos EXCEPT ![i] = Size + 1]
    BY <1>1 DEF AddJob
  <2>2. i \notin listed BY <2>1 DEF LifeInv, ListOK, InList
  <2>3. IsFiniteSet(listed) /\ Cardinality(listed) \in Nat
    BY SetsAssumption, FS_Subset, FS_CardinalityType
  <2>4. Cardinality(listed \cup {i}) = Cardinality(listed) + 1
    BY <2>2, <2>3, FS_AddElement
  <2>5. {j \in Ids : InList(j)}' = listed \cup {i}
    BY <1>t, <2>1, <2>3 DEF InList, Size
  <2>6. Size \in Nat /\ Size' = Size + 1 BY <2>3, <2>4, <2>5 DEF Size
  <2> QED BY <1>t, <2>1, <2>6 DEF ListOK, LifeInv, InList
<1>2. CASE UNCHANGED <<pos, fresh>> BY <1>2 DEF LifeInv, ListOK, Size, InList
<1>3. \/ UNCHANGED <<pos, fresh>>
      \/ \E i \in Ids : AddJob(i)
  <2>1. CASE Next
    <3>1. CASE Requests
      BY <3>1 DEF Requests, RunJob, StopJob, WatchEvent
    <3>e. CASE Edits BY <3>e DEF Edits, UpdateJob
    <3>2. CASE Sources
      BY <3>2 DEF Sources, SchedTimer, RetryTimer, WatchTimer, PollTick, ResyncIdle
    <3>3. CASE Answers
      BY <3>3 DEF Answers, SubmitFailed, SubmitAccepted, StatusIgnored, StatusAnswered,
                  StatusMissed, StopAnswered, daemonVars
    <3>4. CASE Rcd
      BY <3>4 DEF Rcd, RcdAccepts, RcdFinishes, RcdStops, RcdForgets, Becomes, daemonVars
    <3>5. CASE Lifecycle
      BY <3>5 DEF Lifecycle, Stop, Crash, GoDown, Boot
    <3> QED BY <2>1, <3>1, <3>e, <3>2, <3>3, <3>4, <3>5, StepKinds
  <2>2. CASE UNCHANGED vars BY <2>2 DEF vars, daemonVars
  <2> QED BY <2>1, <2>2
<1> QED BY <1>1, <1>2, <1>3

\* A daemon that is down takes no step but its start.
LEMMA DownKept ==
  ASSUME LifeInv, [Next]_vars, Deletable = {}
  PROVE  DownOK'
<1>1. CASE Next
  <2>1. CASE Requests
    <3>1. up' BY <2>1 DEF Requests, RunJob, StopJob, AddJob, WatchEvent
    <3> QED BY <3>1 DEF DownOK
  <2>e. CASE Edits
    <3>1. up' BY <2>e DEF Edits, UpdateJob
    <3> QED BY <3>1 DEF DownOK
  <2>2. CASE Sources
    <3>1. ASSUME NEW t, SchedTimer(t) PROVE up' BY <3>1 DEF SchedTimer
    <3>2. ASSUME NEW t, RetryTimer(t) PROVE up' BY <3>2 DEF RetryTimer
    <3>3. ASSUME NEW t, WatchTimer(t) PROVE up' BY <3>3 DEF WatchTimer
    <3>4. ASSUME NEW t, PollTick(t) PROVE up' BY <3>4 DEF PollTick
    <3>5. ASSUME NEW c, ResyncIdle(c) PROVE up' BY <3>5 DEF ResyncIdle
    <3>6. up' BY <2>2, <3>1, <3>2, <3>3, <3>4, <3>5 DEF Sources
    <3> QED BY <3>6 DEF DownOK
  <2>3. CASE Answers
    <3>1. ASSUME NEW c, SubmitFailed(c) PROVE up' BY <3>1 DEF SubmitFailed
    <3>2. ASSUME NEW c, SubmitAccepted(c) PROVE up' BY <3>2 DEF SubmitAccepted
    <3>3. ASSUME NEW c, StatusIgnored(c) PROVE up' BY <3>3 DEF StatusIgnored, daemonVars
    <3>4. ASSUME NEW c, StatusAnswered(c) PROVE up' BY <3>4 DEF StatusAnswered
    <3>5. ASSUME NEW c, StatusMissed(c) PROVE up' BY <3>5 DEF StatusMissed
    <3>6. ASSUME NEW c, StopAnswered(c) PROVE up' BY <3>6 DEF StopAnswered
    <3>7. up' BY <2>3, <3>1, <3>2, <3>3, <3>4, <3>5, <3>6 DEF Answers
    <3> QED BY <3>7 DEF DownOK
  <2>4. CASE Rcd
    BY <2>4 DEF Rcd, RcdAccepts, RcdFinishes, RcdStops, RcdForgets, Becomes, daemonVars,
                callVars, LifeInv, DownOK
  <2>5. CASE Lifecycle
    BY <2>5 DEF Lifecycle, Stop, Crash, GoDown, Boot, DownOK
  <2> QED BY <1>1, <2>1, <2>e, <2>2, <2>3, <2>4, <2>5, StepKinds
<1>2. CASE UNCHANGED vars BY <1>2 DEF vars, daemonVars, callVars, LifeInv, DownOK
<1> QED BY <1>1, <1>2

\* Slots that agree on what is under way serve the same start requests.
LEMMA CallsSame ==
  ASSUME NEW S \in SUBSET Calls, NEW P, NEW a, NEW b, CallsOK(S, a, P),
         \A j \in Ids : a[j].run = b[j].run /\ a[j].submitting = b[j].submitting
  PROVE  CallsOK(S, b, P)
BY DEF CallsOK, Calls

\* on_run_job adds the request of a slot that had none.
LEMMA CallsBegin ==
  ASSUME NEW slots \in Slots, NEW ledger \in Ledgers, NEW n, NEW P,
         NEW due \in SUBSET Ids, NEW trig, \A j \in due : P[j] # 0,
         subs \subseteq Calls, CallsOK(subs, slots, P),
         OnRunJob(slots, ledger, n, P, due, trig)
  PROVE  CallsOK(subs', st', P)
<1> DEFINE go == Going(slots, due)
<1>1. go \subseteq due /\ \A j \in go : slots[j].run = 0 /\ ~slots[j].submitting
  BY DEF Going, Busy
<1>2. subs' = subs \cup {Call(P[j], j, Len(ledger[j]) + 1) : j \in go}
  BY DEF OnRunJob
<1>3. /\ \A j \in go : st'[j] = [slots[j] EXCEPT !.submitting = TRUE, !.running = TRUE,
                                                !.resync = FALSE]
      /\ \A j \in Ids : j \notin go => st'[j] = slots[j]
  BY <1>1 DEF OnRunJob
<1>4. \A j \in go : st'[j].submitting = TRUE /\ st'[j].run = 0
  <2> SUFFICES ASSUME NEW j \in go PROVE st'[j].submitting = TRUE /\ st'[j].run = 0
    OBVIOUS
  <2>1. st'[j] = [slots[j] EXCEPT !.submitting = TRUE, !.running = TRUE, !.resync = FALSE]
    BY <1>3
  <2>2. slots[j] \in Slot /\ slots[j].run = 0 BY <1>1 DEF Slots
  <2> HIDE DEF go
  <2> QED BY <2>1, <2>2 DEF Slot
<1>5. \A j \in go : Len(ledger[j]) + 1 # 0
  <2> SUFFICES ASSUME NEW j \in go PROVE Len(ledger[j]) + 1 # 0
    OBVIOUS
  <2>1. ledger[j] \in Seq(Run) BY <1>1 DEF Ledgers
  <2>2. Len(ledger[j]) \in Nat BY <2>1
  <2> QED BY <2>2
<1>6. \A c \in subs : c.id \in Ids /\ c.id \notin go BY <1>1 DEF CallsOK, Calls
<1> HIDE DEF go
<1>7. \A c \in subs' : c \in subs \/ \E j \in go : /\ c.idx = P[j] /\ c.id = j /\ c.run # 0
                                                 /\ c = Call(P[j], j, Len(ledger[j]) + 1)
  BY <1>2, <1>5 DEF Call
<1>8. \A c \in subs' : /\ c.idx # 0 /\ P[c.id] = c.idx /\ c.run # 0
                       /\ st'[c.id].submitting /\ st'[c.id].run = 0
  <2> SUFFICES ASSUME NEW c \in subs'
               PROVE  /\ c.idx # 0 /\ P[c.id] = c.idx /\ c.run # 0
                      /\ st'[c.id].submitting /\ st'[c.id].run = 0
    OBVIOUS
  <2>1. CASE c \in subs
    <3>1. st'[c.id] = slots[c.id] BY <1>3, <1>6, <2>1
    <3> QED BY <2>1, <3>1 DEF CallsOK
  <2>2. CASE c \notin subs
    <3>1. PICK j \in go : c.idx = P[j] /\ c.id = j /\ c.run # 0 BY <1>7, <2>2
    <3> QED BY <1>1, <1>4, <3>1
  <2> QED BY <2>1, <2>2
<1>9. \A c, d \in subs' : c.id = d.id => c = d BY <1>6, <1>7 DEF CallsOK
<1>10. \A j \in Ids : st'[j].run # 0 => ~st'[j].submitting BY <1>3, <1>4 DEF CallsOK
<1> QED BY <1>8, <1>9, <1>10 DEF CallsOK

\* Callbacks keep their validity while the list does.
LEMMA ArmsKept ==
  ASSUME ArmsOK, UNCHANGED pos,
         \A t \in timers' : t.kind = "retry" => t \in timers \/ Valid(t),
         \A c \in idles' : c \in idles \/ Valid(c)
  PROVE  ArmsOK'
BY DEF ArmsOK, Valid

\* A start in store outlives an added job.
LEMMA RequestsKeep ==
  ASSUME LifeInv, Requests
  PROVE  CallsOK(subs', st', pos') /\ ArmsOK'
<1>t. /\ st \in Slots /\ subs \subseteq Calls /\ runs \in Ledgers
      /\ timers \subseteq Timers /\ idles \subseteq [idx : Nat, id : Ids]
      /\ pos \in [Ids -> Nat]
  BY TypeShape DEF LifeInv
<1>i. CallsOK(subs, st, pos) /\ ArmsOK BY DEF LifeInv
<1>p. NoPending(st) \in Slots BY ZenonT(60), <1>t DEF NoPending, Slots, Slot
<1>1. ASSUME NEW i \in Ids, RunJob(i) PROVE CallsOK(subs', st', pos') /\ ArmsOK'
  <2>1. OnRunJob(st, runs, count, pos, {i}, "user") /\ UNCHANGED <<pos, timers, idles>>
    BY <1>1 DEF RunJob
  <2>2. pos[i] # 0 BY <1>1 DEF RunJob, InList
  <2>3. CallsOK(subs', st', pos) BY <1>t, <1>i, <2>1, <2>2, CallsBegin
  <2> QED BY <1>i, <2>1, <2>3, ArmsKept
<1>2. ASSUME NEW i \in Ids, StopJob(i) PROVE CallsOK(subs', st', pos') /\ ArmsOK'
  <2>1. UNCHANGED <<subs, st, pos, idles>> /\ timers' \subseteq timers
    BY <1>2 DEF StopJob, Without
  <2> QED BY <1>i, <2>1, ArmsKept
<1>3. ASSUME NEW i \in Ids, AddJob(i) PROVE CallsOK(subs', st', pos') /\ ArmsOK'
  <2>1. PICK due \in DueSets(pos', sched), none \in SUBSET Sparse :
          /\ timers' = NoWatchTimers(ScheduleAll(timers, pos', sched, due \cup none))
          /\ OnRunJob(NoPending(st), runs, count, pos', due, "sched")
    BY <1>3 DEF AddJob
  <2>2. /\ pos[i] = 0 /\ \A j \in Ids : j # i => pos'[j] = pos[j]
        /\ UNCHANGED idles
    BY <1>3, <1>t DEF AddJob, LifeInv, ListOK
  <2>3. CallsOK(subs, st, pos') BY <1>t, <1>i, <2>2 DEF CallsOK, Calls
  <2>4. \A j \in Ids : NoPending(st)[j].run = st[j].run
                       /\ NoPending(st)[j].submitting = st[j].submitting
    BY <1>t DEF NoPending, Slots, Slot
  <2>5. CallsOK(subs, NoPending(st), pos') BY <1>t, <2>3, <2>4, CallsSame
  <2>6. due \in SUBSET Ids /\ \A j \in due : pos'[j] # 0 BY DEF DueSets
  <2>7. CallsOK(subs', st', pos') BY <1>t, <1>p, <2>1, <2>5, <2>6, CallsBegin
  <2>8. \A t \in timers' : t.kind = "retry" => t \in timers
    BY <2>1 DEF NoWatchTimers, ScheduleAll, Timer
  <2>9. ArmsOK' BY <1>t, <1>i, <2>2, <2>8 DEF ArmsOK, Valid, Timers
  <2> QED BY <2>7, <2>9
<1>4. ASSUME NEW i \in Ids, WatchEvent(i) PROVE CallsOK(subs', st', pos') /\ ArmsOK'
  <2>1. \A j \in Ids : st[j].run = st'[j].run /\ st[j].submitting = st'[j].submitting
    BY <1>4, <1>t DEF WatchEvent, Slots, Slot
  <2>2. UNCHANGED <<subs, pos, idles>> BY <1>4 DEF WatchEvent
  <2>3. CallsOK(subs', st', pos') BY <1>t, <1>i, <2>1, <2>2, CallsSame
  <2>4. \A t \in timers' : t.kind = "retry" => t \in timers
    BY <1>4 DEF WatchEvent, Rearm, Without, Timer
  <2> QED BY <1>i, <2>2, <2>3, <2>4, ArmsKept
<1> QED BY <1>1, <1>2, <1>3, <1>4 DEF Requests

\* An edit arms the schedules and leaves the rest in place.
LEMMA EditsKeep ==
  ASSUME LifeInv, Edits
  PROVE  CallsOK(subs', st', pos') /\ ArmsOK'
<1>t. st \in Slots /\ subs \subseteq Calls /\ runs \in Ledgers BY TypeShape DEF LifeInv
<1>i. CallsOK(subs, st, pos) /\ ArmsOK BY DEF LifeInv
<1>1. PICK i \in Ids : UpdateJob(i) BY DEF Edits
<1> DEFINE edited == NoPending([st EXCEPT ![i].running = FALSE])
<1>2. PICK due \in DueSets(pos, sched'), none \in SUBSET Sparse :
        /\ timers' = NoWatchTimers(ScheduleAll(timers, pos, sched', due \cup none))
        /\ OnRunJob(edited, runs, count, pos, due, "sched")
  BY <1>1 DEF UpdateJob
<1>3. UNCHANGED <<pos, idles>> BY <1>1 DEF UpdateJob
<1>4. /\ edited \in Slots
      /\ \A j \in Ids : st[j].run = edited[j].run /\ st[j].submitting = edited[j].submitting
  BY ZenonT(60), <1>t DEF NoPending, Slots, Slot
<1> HIDE DEF edited
<1>5. CallsOK(subs, edited, pos) BY <1>t, <1>i, <1>4, CallsSame
<1>6. due \in SUBSET Ids /\ \A j \in due : pos[j] # 0 BY DEF DueSets
<1>7. CallsOK(subs', st', pos) BY <1>t, <1>2, <1>4, <1>5, <1>6, CallsBegin
<1>8. \A t \in timers' : t.kind = "retry" => t \in timers
  BY <1>2 DEF NoWatchTimers, ScheduleAll, Timer
<1> QED BY <1>i, <1>3, <1>7, <1>8, ArmsKept

LEMMA SourcesKeep ==
  ASSUME LifeInv, Sources
  PROVE  CallsOK(subs', st', pos') /\ ArmsOK'
<1>t. /\ st \in Slots /\ subs \subseteq Calls /\ runs \in Ledgers
      /\ timers \subseteq Timers /\ idles \subseteq [idx : Nat, id : Ids]
  BY TypeShape DEF LifeInv
<1>i. CallsOK(subs, st, pos) /\ ArmsOK BY DEF LifeInv
<1>v. \A x : x.id \in Ids /\ Valid(x) => pos[x.id] # 0 BY DEF Valid
<1>1. ASSUME UNCHANGED pos, timers' \subseteq timers, idles' \subseteq idles PROVE ArmsOK'
  BY <1>i, <1>1, ArmsKept
<1>2. ASSUME NEW x, x.id \in Ids, NEW slots \in Slots, CallsOK(subs, slots, pos),
             UNCHANGED pos, NEW trig,
             OnRunJob(slots, runs, count, pos, IF Valid(x) THEN {x.id} ELSE {}, trig)
      PROVE  CallsOK(subs', st', pos')
  <2> DEFINE due == IF Valid(x) THEN {x.id} ELSE {}
  <2>1. due \in SUBSET Ids /\ \A j \in due : pos[j] # 0 BY <1>2, <1>v
  <2>2. OnRunJob(slots, runs, count, pos, due, trig) BY <1>2
  <2> HIDE DEF due
  <2>3. CallsOK(subs', st', pos) BY <1>t, <1>2, <2>1, <2>2, CallsBegin
  <2> QED BY <1>2, <2>3
<1>3. ASSUME NEW t \in timers, SchedTimer(t) PROVE CallsOK(subs', st', pos') /\ ArmsOK'
  <2>1. /\ OnRunJob(st, runs, count, pos, IF Valid(t) THEN {t.id} ELSE {}, "sched")
        /\ UNCHANGED <<pos, idles>> /\ timers' \subseteq timers
    BY <1>3 DEF SchedTimer
  <2>2. t.id \in Ids BY <1>t DEF Timers
  <2> QED BY <1>t, <1>i, <1>1, <1>2, <2>1, <2>2
<1>4. ASSUME NEW t \in timers, RetryTimer(t) PROVE CallsOK(subs', st', pos') /\ ArmsOK'
  <2>1. /\ OnRunJob(st, runs, count, pos, IF Valid(t) THEN {t.id} ELSE {}, "retry")
        /\ UNCHANGED <<pos, idles>> /\ timers' \subseteq timers
    BY <1>4 DEF RetryTimer
  <2>2. t.id \in Ids BY <1>t DEF Timers
  <2> QED BY <1>t, <1>i, <1>1, <1>2, <2>1, <2>2
<1>5. ASSUME NEW t \in timers, WatchTimer(t) PROVE CallsOK(subs', st', pos') /\ ArmsOK'
  <2>1. UNCHANGED <<pos, idles>> /\ timers' \subseteq timers BY <1>5 DEF WatchTimer
  <2>2. t.id \in Ids BY <1>t DEF Timers
  <2>3. CASE Valid(t)
    <3> DEFINE slots == [st EXCEPT ![t.id].pending = FALSE]
    <3>1. OnRunJob(slots, runs, count, pos, {t.id}, "watch") BY <1>5, <2>3 DEF WatchTimer
    <3>2. slots \in Slots BY ZenonT(60), <1>t DEF Slots, Slot
    <3>3. \A j \in Ids : st[j].run = slots[j].run /\ st[j].submitting = slots[j].submitting
      BY <1>t DEF Slots, Slot
    <3> HIDE DEF slots
    <3>4. CallsOK(subs, slots, pos) BY <1>t, <1>i, <3>3, CallsSame
    <3>5. pos[t.id] # 0 BY <1>v, <2>2, <2>3
    <3>6. CallsOK(subs', st', pos) BY <1>t, <2>2, <3>1, <3>2, <3>4, <3>5, CallsBegin
    <3> QED BY <1>1, <2>1, <3>6
  <2>4. CASE ~Valid(t)
    <3>1. UNCHANGED <<st, subs>> BY <1>5, <2>4 DEF WatchTimer
    <3> QED BY <1>i, <1>1, <2>1, <3>1
  <2> QED BY <2>3, <2>4
<1>6. ASSUME NEW t \in timers, PollTick(t) PROVE CallsOK(subs', st', pos') /\ ArmsOK'
  <2>1. UNCHANGED <<subs, pos, idles>> /\ timers' \subseteq timers BY <1>6 DEF PollTick
  <2>2. \A j \in Ids : st[j].run = st'[j].run /\ st[j].submitting = st'[j].submitting
    BY <1>6, <1>t DEF PollTick, Slots, Slot
  <2>3. CallsOK(subs', st', pos') BY <1>t, <1>i, <2>1, <2>2, CallsSame
  <2> QED BY <1>1, <2>1, <2>3
<1>7. ASSUME NEW c \in idles, ResyncIdle(c) PROVE CallsOK(subs', st', pos') /\ ArmsOK'
  <2>1. /\ OnRunJob(st, runs, count, pos, IF Valid(c) THEN {c.id} ELSE {}, "resync")
        /\ UNCHANGED <<pos, timers>> /\ idles' \subseteq idles
    BY <1>7 DEF ResyncIdle
  <2>2. c.id \in Ids BY <1>t
  <2> QED BY <1>t, <1>i, <1>1, <1>2, <2>1, <2>2
<1> QED BY <1>3, <1>4, <1>5, <1>6, <1>7 DEF Sources

\* on_job_completed takes the run from its slot before it does anything else, so
\* whatever it starts has the slot for itself.
LEMMA CompletedKeeps ==
  ASSUME LifeInv, NEW c \in Calls, Valid(c), NEW slots \in Slots,
         CallsOK(subs, slots, pos), slots[c.id].run # 0,
         NEW ledger \in Ledgers, NEW outcome \in Outcomes, NEW nobase,
         OnJobCompleted(slots, ledger, c, outcome, nobase), UNCHANGED pos
  PROVE  CallsOK(subs', st', pos') /\ ArmsOK'
<1> DEFINE claimed == [slots EXCEPT ![c.id] = Claim(@)]
           ended   == End(ledger, c.id, slots[c.id].run, outcome)
<1>t. subs \subseteq Calls /\ ArmsOK BY TypeShape DEF LifeInv
<1>c. c.id \in Ids /\ pos[c.id] # 0 BY DEF Calls, Valid
<1>1. /\ \A i \in Ids : i # c.id => claimed[i] = slots[i]
      /\ claimed[c.id] = Claim(slots[c.id])
      /\ claimed \in Slots
  BY <1>c DEF Claim, Slots, Slot
<1>2. claimed[c.id].run = 0 BY <1>c, <1>1 DEF Claim, Slots, Slot
<1>3. CallsOK(subs, claimed, pos) BY <1>t, <1>1, <1>2 DEF CallsOK, Calls
<1>4. ended \in Ledgers BY <1>c, EndInLedgers
<1> HIDE DEF claimed, ended
<1>5. CASE ResyncRetry(claimed, ended, c)
  <2>1. \A j \in Ids : claimed[j].run = st'[j].run /\ claimed[j].submitting = st'[j].submitting
    BY <1>1, <1>5 DEF ResyncRetry, Slots, Slot
  <2>2. CallsOK(subs, st', pos) BY <1>t, <1>3, <2>1, CallsSame
  <2>3. \A t \in timers' : t \in timers BY <1>5 DEF ResyncRetry, Without
  <2>4. \A d \in idles' : d \in idles \/ Valid(d) BY <1>5 DEF ResyncRetry, Valid
  <2>5. UNCHANGED subs BY <1>5 DEF ResyncRetry
  <2> QED BY <1>t, <2>2, <2>3, <2>4, <2>5, ArmsKept
<1>6. CASE BackoffRetry(claimed, ended, c)
  <2>1. \A j \in Ids : claimed[j].run = st'[j].run /\ claimed[j].submitting = st'[j].submitting
    BY <1>1, <1>6 DEF BackoffRetry, Slots, Slot
  <2>2. CallsOK(subs, st', pos) BY <1>t, <1>3, <2>1, CallsSame
  <2>3. \A t \in timers' : t \in timers \/ Valid(t)
    BY <1>6 DEF BackoffRetry, Rearm, Without, Timer, Valid
  <2>4. UNCHANGED <<subs, idles>> BY <1>6 DEF BackoffRetry
  <2> QED BY <1>t, <2>2, <2>3, <2>4, ArmsKept
<1>7. CASE FinalVerdict(claimed, ended, c)
  <2> DEFINE done == [claimed EXCEPT ![c.id].retries = 0, ![c.id].running = FALSE]
  <2>1. PICK due \in {d \in DueSets(pos, sched) : d \subseteq {c.id}}, none \in SUBSET Sparse :
          /\ timers' = LET timed == Reschedule(Without(timers, "poll", c.id), c, due \cup none)
                       IN IF claimed[c.id].pending THEN Rearm(timed, "watch", c.idx, c.id) ELSE timed
          /\ OnRunJob(done, ended, Dec(count), pos, due, "sched")
          /\ UNCHANGED idles
    BY <1>7 DEF FinalVerdict
  <2>2. done \in Slots BY ZenonT(60), <1>1 DEF Slots, Slot
  <2>3. \A j \in Ids : claimed[j].run = done[j].run /\ claimed[j].submitting = done[j].submitting
    BY <1>1 DEF Slots, Slot
  <2> HIDE DEF done
  <2>4. CallsOK(subs, done, pos) BY <1>t, <1>3, <2>3, CallsSame
  <2>5. due \in SUBSET Ids /\ \A j \in due : pos[j] # 0 BY <1>c
  <2>6. CallsOK(subs', st', pos) BY <1>t, <1>4, <2>1, <2>2, <2>4, <2>5, CallsBegin
  <2>7. \A t \in timers' : t.kind = "retry" => t \in timers
    BY <2>1 DEF Reschedule, Rearm, Without, Timer
  <2> QED BY <1>t, <2>1, <2>6, <2>7, ArmsKept
<1> QED BY <1>5, <1>6, <1>7 DEF OnJobCompleted, claimed, ended

LEMMA AnswersKeep ==
  ASSUME LifeInv, Answers
  PROVE  CallsOK(subs', st', pos') /\ ArmsOK'
<1>t. /\ st \in Slots /\ subs \subseteq Calls /\ polls \subseteq Calls /\ stops \subseteq Calls
      /\ runs \in Ledgers
  BY TypeShape DEF LifeInv
<1>i. CallsOK(subs, st, pos) /\ ArmsOK BY DEF LifeInv
<1>1. ASSUME NEW c \in subs, SubmitFailed(c) PROVE CallsOK(subs', st', pos') /\ ArmsOK'
  <2>1. /\ st' = [ClearSubmitting(c.idx) EXCEPT ![c.id].running = FALSE]
        /\ subs' = subs \ {c} /\ UNCHANGED <<pos, timers, idles>>
    BY <1>1, ClearsOne DEF SubmitFailed
  <2>2. /\ \A j \in Ids : j # c.id => st'[j] = st[j]
        /\ st'[c.id].run = st[c.id].run /\ st'[c.id].submitting = FALSE
    <3>1. ClearSubmitting(c.idx) \in Slots BY ClearsOne
    <3>2. \A j \in Ids : j # c.id => st'[j] = st[j] BY <2>1, <3>1, ClearsOne DEF Slots
    <3>3. st'[c.id] = [ClearSubmitting(c.idx)[c.id] EXCEPT !.running = FALSE]
      BY <2>1, <3>1, ClearsOne DEF Slots
    <3>4. st'[c.id] = [st[c.id] EXCEPT !.submitting = FALSE, !.running = FALSE]
      BY <3>3, ClearsOne
    <3>5. c.id \in Ids BY ClearsOne
    <3> QED BY <1>t, <3>2, <3>4, <3>5 DEF Slots, Slot
  <2>3. CallsOK(subs', st', pos') BY <1>t, <1>i, <2>1, <2>2 DEF CallsOK, Calls
  <2> QED BY <1>i, <2>1, <2>3, ArmsKept
<1>2. ASSUME NEW c \in subs, SubmitAccepted(c) PROVE CallsOK(subs', st', pos') /\ ArmsOK'
  <2>1. /\ st' = [ClearSubmitting(c.idx) EXCEPT ![c.id].run = c.run]
        /\ timers' = timers \cup {Timer("poll", c.idx, c.id)}
        /\ subs' = subs \ {c} /\ UNCHANGED <<pos, idles>>
    BY <1>2, ClearsOne DEF SubmitAccepted
  <2>2. /\ \A j \in Ids : j # c.id => st'[j] = st[j]
        /\ st'[c.id].submitting = FALSE
    <3>1. ClearSubmitting(c.idx) \in Slots BY ClearsOne
    <3>2. \A j \in Ids : j # c.id => st'[j] = st[j] BY <2>1, <3>1, ClearsOne DEF Slots
    <3>3. st'[c.id] = [ClearSubmitting(c.idx)[c.id] EXCEPT !.run = c.run]
      BY <2>1, <3>1, ClearsOne DEF Slots
    <3>4. st'[c.id] = [st[c.id] EXCEPT !.submitting = FALSE, !.run = c.run]
      BY <3>3, ClearsOne
    <3>5. c.id \in Ids BY ClearsOne
    <3> QED BY <1>t, <3>2, <3>4, <3>5 DEF Slots, Slot
  <2>3. CallsOK(subs', st', pos') BY <1>t, <1>i, <2>1, <2>2 DEF CallsOK, Calls
  <2>4. \A t \in timers' : t.kind = "retry" => t \in timers BY <2>1 DEF Timer
  <2> QED BY <1>i, <2>1, <2>3, <2>4, ArmsKept
<1>3. ASSUME NEW c \in polls, StatusIgnored(c) PROVE CallsOK(subs', st', pos') /\ ArmsOK'
  <2>1. UNCHANGED <<subs, st, pos, timers, idles>> BY <1>3 DEF StatusIgnored, daemonVars
  <2> QED BY <1>i, <2>1, ArmsKept
<1>4. ASSUME NEW slots \in Slots, UNCHANGED <<pos, subs, timers, idles>>, st' = slots,
             \A j \in Ids : st[j].run = slots[j].run /\ st[j].submitting = slots[j].submitting
      PROVE  CallsOK(subs', st', pos') /\ ArmsOK'
  <2>1. CallsOK(subs, slots, pos) BY <1>t, <1>i, <1>4, CallsSame
  <2> QED BY <1>i, <1>4, <2>1, ArmsKept
<1>5. ASSUME NEW c \in polls, StatusAnswered(c) PROVE CallsOK(subs', st', pos') /\ ArmsOK'
  <2> DEFINE seen   == [st EXCEPT ![c.id].pollBusy = FALSE, ![c.id].pollFails = 0]
             phase  == runs[c.id][c.run].phase
  <2>1. Concerns(c) /\ UNCHANGED pos BY <1>5 DEF StatusAnswered
  <2>2. seen \in Slots BY ZenonT(60), <1>t DEF Slots, Slot
  <2>3. \A i \in Ids : st[i].run = seen[i].run /\ st[i].submitting = seen[i].submitting
    BY <1>t DEF Slots, Slot
  <2>4. \/ st' = seen /\ UNCHANGED <<subs, timers, idles>>
        \/ OnJobCompleted(seen, runs, c, Verdict(phase), phase = "nobase")
    BY <1>5 DEF StatusAnswered
  <2>5. c \in Calls /\ c.id \in Ids BY <1>t DEF Calls
  <2>6. runs \in Ledgers BY <1>t
  <2>7. Verdict(phase) \in Outcomes BY DEF Verdict, Outcomes
  <2> HIDE DEF seen, phase
  <2>8. Valid(c) /\ seen[c.id].run # 0 BY <2>1, <2>3, <2>5 DEF Concerns
  <2>9. CallsOK(subs, seen, pos) BY <1>t, <1>i, <2>3, CallsSame
  <2>10. CASE st' = seen /\ UNCHANGED <<subs, timers, idles>>
    BY <1>4, <2>1, <2>2, <2>3, <2>10
  <2>11. CASE OnJobCompleted(seen, runs, c, Verdict(phase), phase = "nobase")
    BY <2>1, <2>2, <2>5, <2>6, <2>7, <2>8, <2>9, <2>11, CompletedKeeps
  <2> QED BY <2>4, <2>10, <2>11
<1>6. ASSUME NEW c \in polls, StatusMissed(c) PROVE CallsOK(subs', st', pos') /\ ArmsOK'
  <2> DEFINE missed == [st EXCEPT ![c.id] = Miss(@)]
  <2>1. Concerns(c) /\ UNCHANGED pos BY <1>6 DEF StatusMissed
  <2>2. missed \in Slots
    <3>1. /\ c.id \in Ids /\ st[c.id] \in Slot
          /\ st[c.id].pollFails + 1 \in Nat
      BY <1>t DEF Calls, Slots, Slot
    <3>2. Miss(st[c.id]) \in Slot BY <3>1 DEF Slot, Miss
    <3> QED BY <1>t, <3>1, <3>2 DEF Slots
  <2>3. \A i \in Ids : st[i].run = missed[i].run /\ st[i].submitting = missed[i].submitting
    BY <1>t DEF Slots, Slot, Miss
  <2>4. \/ st' = missed /\ UNCHANGED <<subs, timers, idles>>
        \/ OnJobCompleted(missed, runs, c, "gaveup", FALSE)
    BY <1>6 DEF StatusMissed
  <2>5. c \in Calls /\ c.id \in Ids BY <1>t DEF Calls
  <2>6. runs \in Ledgers BY <1>t
  <2> HIDE DEF missed
  <2>7. Valid(c) /\ missed[c.id].run # 0 BY <2>1, <2>3, <2>5 DEF Concerns
  <2>8. CallsOK(subs, missed, pos) BY <1>t, <1>i, <2>3, CallsSame
  <2>9. CASE st' = missed /\ UNCHANGED <<subs, timers, idles>>
    BY <1>4, <2>1, <2>2, <2>3, <2>9
  <2>10. CASE OnJobCompleted(missed, runs, c, "gaveup", FALSE)
    BY <2>1, <2>2, <2>5, <2>6, <2>7, <2>8, <2>10, CompletedKeeps DEF Outcomes
  <2> QED BY <2>4, <2>9, <2>10
<1>7. ASSUME NEW c \in stops, StopAnswered(c) PROVE CallsOK(subs', st', pos') /\ ArmsOK'
  <2>1. UNCHANGED <<pos, idles, subs>> BY <1>7 DEF StopAnswered
  <2>2. CASE ~Concerns(c)
    <3>1. UNCHANGED <<st, timers>> BY <1>7, <2>2 DEF StopAnswered
    <3> QED BY <1>i, <2>1, <3>1, ArmsKept
  <2>3. CASE Concerns(c)
    <3>1. /\ st' = [st EXCEPT ![c.id].run = 0, ![c.id].running = FALSE]
          /\ timers' \subseteq timers
      BY <1>7, <2>3 DEF StopAnswered, Without
    <3>2. c.id \in Ids /\ st[c.id].run # 0 BY <1>t, <2>3 DEF Concerns, Calls
    <3>3. /\ \A j \in Ids : j # c.id => st'[j] = st[j]
          /\ st'[c.id].run = 0
      BY <1>t, <3>1, <3>2 DEF Slots, Slot
    <3>4. CallsOK(subs', st', pos') BY <1>t, <1>i, <2>1, <3>2, <3>3 DEF CallsOK, Calls
    <3> QED BY <1>i, <2>1, <3>1, <3>4, ArmsKept
  <2> QED BY <2>2, <2>3
<1> QED BY <1>1, <1>2, <1>3, <1>5, <1>6, <1>7 DEF Answers

LEMMA OutsideKeeps ==
  ASSUME LifeInv, Rcd \/ Lifecycle
  PROVE  CallsOK(subs', st', pos') /\ ArmsOK'
<1>t. st \in Slots /\ subs \subseteq Calls /\ runs \in Ledgers BY TypeShape DEF LifeInv
<1>i. CallsOK(subs, st, pos) /\ ArmsOK BY DEF LifeInv
<1>1. CASE Rcd
  <2>1. UNCHANGED <<subs, st, pos, timers, idles>>
    BY <1>1 DEF Rcd, RcdAccepts, RcdFinishes, RcdStops, RcdForgets, Becomes, daemonVars, callVars
  <2> QED BY <1>i, <2>1, ArmsKept
<1>2. ASSUME NEW L, GoDown(L) PROVE CallsOK(subs', st', pos') /\ ArmsOK'
  <2>1. subs' = {} /\ timers' = {} /\ idles' = {} /\ \A j \in Ids : st'[j] = EmptySlot
    BY <1>2 DEF GoDown
  <2> QED BY <2>1 DEF CallsOK, ArmsOK, EmptySlot
<1>3. CASE Boot
  <2>1. PICK due \in DueSets(pos, sched), none \in SUBSET Sparse :
          /\ timers' = ScheduleAll({}, pos, sched, due \cup none)
          /\ OnRunJob(st, runs, count, pos, due, "sched")
    BY <1>3 DEF Boot
  <2>2. UNCHANGED <<pos, idles>> BY <1>3 DEF Boot
  <2>3. due \in SUBSET Ids /\ \A j \in due : pos[j] # 0 BY DEF DueSets
  <2>4. CallsOK(subs', st', pos) BY <1>t, <1>i, <2>1, <2>3, CallsBegin
  <2>5. \A t \in timers' : t.kind # "retry" BY <2>1 DEF ScheduleAll, Timer
  <2> QED BY <1>i, <2>2, <2>4, <2>5, ArmsKept
<1> QED BY <1>1, <1>2, <1>3 DEF Lifecycle, Stop, Crash

\* The invariant is kept by every step ...
LEMMA NextInv ==
  ASSUME LifeInv, [Next]_vars, Deletable = {}
  PROVE  LifeInv'
<1>1. TypeOK' BY NextType DEF LifeInv
<1>2. ListOK' BY ListKept
<1>3. DownOK' BY DownKept
<1>4. CallsOK(subs', st', pos') /\ ArmsOK'
  <2>1. CASE Next
    BY <2>1, StepKinds, RequestsKeep, EditsKeep, SourcesKeep, AnswersKeep, OutsideKeeps
  <2>2. CASE UNCHANGED vars
    <3>1. UNCHANGED <<subs, st, pos, timers, idles>> BY <2>2 DEF vars, daemonVars, callVars
    <3> QED BY <3>1, ArmsKept DEF LifeInv
  <2> QED BY <2>1, <2>2
<1> QED BY <1>1, <1>2, <1>3, <1>4 DEF LifeInv

\* ... and holds at the start.
LEMMA InitInv == Init => LifeInv
<1> SUFFICES ASSUME Init PROVE LifeInv
  OBVIOUS
<1>1. TypeOK BY InitType
<1>2. ListOK
  <2> DEFINE listed == {j \in Ids : InList(j)}
  <2>1. listed = Initial BY SetsAssumption DEF Init, InList
  <2>2. Size = Cardinality(Initial) BY <2>1 DEF Size
  <2>3. IsFiniteSet(Initial) BY SetsAssumption, FS_Subset
  <2>4. Cardinality(Initial) \in Nat BY <2>3, FS_CardinalityType
  <2>5. \A j \in fresh : pos[j] = 0 BY SetsAssumption DEF Init
  <2>6. \A j \in Ids : pos[j] <= Size BY <2>2, <2>4 DEF Init
  <2>7. \A i, j \in Ids : InList(i) /\ pos[i] = pos[j] => i = j BY DEF Init, InList
  <2> QED BY <2>5, <2>6, <2>7 DEF ListOK
<1>3. CallsOK(subs, st, pos)
  <2>1. subs = {} /\ \A j \in Ids : st[j] = EmptySlot BY DEF Init
  <2> QED BY <2>1 DEF CallsOK, EmptySlot
<1>4. ArmsOK BY DEF Init, ArmsOK, ScheduleAll, Timer
<1>5. DownOK BY DEF Init, DownOK
<1> QED BY <1>1, <1>2, <1>3, <1>4, <1>5 DEF LifeInv

-----------------------------------------------------------------------------

\* The daemon implements the life of every job, for any number of jobs, any
\* retry budget and any number of restarts and lost answers, as long as nobody
\* deletes or edits a job.
THEOREM ImplementsLife ==
  ASSUME Deletable = {}, Editable = {}
  PROVE  Spec => LivesAsPromised
<1> DEFINE Begins == \A j \in Ids : Life(j)!LifeInit
           Moves  == \A j \in Ids : [Life(j)!LifeNext]_(Life(j)!lifeVars)
<1>1. Init => LifeInv BY InitInv
<1>2. Init => Begins BY InitLives
<1>3. LifeInv /\ [Next]_vars => LifeInv' BY NextInv
<1>4. LifeInv /\ [Next]_vars => [Moves]_vars BY NextLives DEF Lives
<1>5. LivesAsPromised <=> Begins /\ [][Moves]_vars BY DEF LivesAsPromised
<1> HIDE DEF Begins, Moves
<1> QED BY <1>1, <1>2, <1>3, <1>4, <1>5, PTL DEF Spec

=============================================================================
