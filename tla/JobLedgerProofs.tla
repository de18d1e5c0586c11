-------------------------- MODULE JobLedgerProofs --------------------------
(***************************************************************************)
(* The ledger of JobDaemon for every set of jobs and every value of the    *)
(* bounds, whatever the user adds, edits, stops and deletes: which slot    *)
(* owns which run, how often a run ends, and how often rcd is asked for a  *)
(* --resync.                                                               *)
(***************************************************************************)
EXTENDS JobDaemonProofs

\* Run k of job j has not ended.
Open(L, j, k) == k \in DOMAIN L[j] /\ L[j][k].ends = <<>>

\* Who owns the open runs: the slot that tracks one is in the list and the run
\* is its job's own; a start request has a run to itself, which no slot tracks;
\* and a run ends once.
Owned(slots, L, S, P) ==
  /\ \A j \in Ids : slots[j].run # 0 => P[j] # 0 /\ Open(L, j, slots[j].run)
  /\ \A j \in Ids : P[j] = 0 => slots[j] = EmptySlot
  /\ \A c \in S : Open(L, c.id, c.run) /\ slots[c.id].run # c.run
  /\ \A c, d \in S : c.id = d.id /\ c.run = d.run => c = d
  /\ \A j \in Ids : \A k \in DOMAIN L[j] : Len(L[j][k].ends) <= 1

\* Slots that track the same runs, for the jobs of the list P
SameRuns(a, b, P) ==
  \A j \in Ids : a[j].run = b[j].run /\ (P[j] = 0 /\ a[j] = EmptySlot => b[j] = EmptySlot)

\* Slots that also agree on the bisync resync, ...
Alike(a, b, P) ==
  /\ SameRuns(a, b, P)
  /\ \A j \in Ids : a[j].resync = b[j].resync /\ a[j].resyncTried = b[j].resyncTried

\* ... and on the status request under way
Agree(a, b, P) == Alike(a, b, P) /\ \A j \in Ids : a[j].pollBusy = b[j].pollBusy

-----------------------------------------------------------------------------
(* Twelve kinds of steps *)

\* Nothing of the ledger changes, and no status request.
Quiet ==
  /\ Agree(st, st', pos) /\ (up \/ st' = st)
  /\ UNCHANGED <<runs, subs, polls, pos, fresh, up, boots, count>>

\* The status of a tracked run is asked for, ...
Asking ==
  \E j \in Ids :
    /\ up /\ pos[j] # 0 /\ st[j].run # 0 /\ ~st[j].pollBusy
    /\ st' = [st EXCEPT ![j].pollBusy = TRUE]
    /\ polls' = polls \cup {Call(pos[j], j, st[j].run)}
    /\ UNCHANGED <<runs, subs, pos, fresh, up, boots, count>>

\* ... and a reply changes nothing but the bookkeeping of the requests.
Replying ==
  \E c \in polls :
    /\ up /\ polls' = polls \ {c}
    /\ Alike(st, st', pos)
    /\ \A j \in Ids : j # c.id => st'[j].pollBusy = st[j].pollBusy
    /\ UNCHANGED <<runs, subs, pos, fresh, up, boots, count>>

\* on_run_job is called for one job of the list, or for none.
Launch(P) ==
  \E slots \in Slots, due \in SUBSET Ids, trig \in Triggers :
    /\ Agree(st, slots, pos)
    /\ \E d : due \subseteq {d}
    /\ \A j \in due : P[j] # 0
    /\ OnRunJob(slots, runs, count, P, due, trig)

Starting == up /\ Launch(pos) /\ UNCHANGED <<polls, pos, fresh, up, boots>>

Adding ==
  up /\ \E j \in fresh :
    /\ fresh' = fresh \ {j}
    /\ pos' = [pos EXCEPT ![j] = Size + 1]
    /\ Launch(pos')
    /\ UNCHANGED <<polls, up, boots>>

Booting ==
  /\ ~up /\ up' = TRUE /\ boots' = boots + 1
  /\ Launch(pos)
  /\ UNCHANGED <<polls, pos, fresh>>

\* The reply c gives its run this outcome: rcd said so, or does not know the
\* run, or its answer was lost.
Told(c, outcome) ==
  \/ runs[c.id][c.run].phase \in Finished /\ outcome = Verdict(runs[c.id][c.run].phase)
  \/ outcome = "gaveup" /\ (runs[c.id][c.run].phase = "lost" \/ losses' = losses + 1)

\* A verdict reached the slot that tracks a run.
Completing ==
  \E c \in polls, slots \in Slots, outcome \in Outcomes, nobase \in BOOLEAN :
    /\ up /\ polls' = polls \ {c} /\ Concerns(c) /\ Told(c, outcome)
    /\ Alike(st, slots, pos)
    /\ \A j \in Ids : j # c.id => slots[j].pollBusy = st[j].pollBusy
    /\ OnJobCompleted(slots, runs, c, outcome, nobase)
    /\ UNCHANGED <<pos, fresh, up, boots>>

Stopping ==
  \E c \in stops :
    /\ up /\ Concerns(c)
    /\ st' = [st EXCEPT ![c.id].run = 0, ![c.id].running = FALSE]
    /\ runs' = End(runs, c.id, st[c.id].run, "stopped")
    /\ count' = Dec(count)
    /\ UNCHANGED <<subs, polls, pos, fresh, up, boots>>

\* The ways of a run in rcd
Progress(p, q) ==
  \/ p = "queued" /\ q = "running"
  \/ p = "running" /\ q \in Finished
  \/ p \notin {"queued", "lost"} /\ q = "lost"

RcdMoves ==
  \E j \in Ids, p \in Phases : \E k \in DOMAIN runs[j] :
    /\ Progress(runs[j][k].phase, p)
    /\ runs' = [runs EXCEPT ![j][k].phase = p]
    /\ UNCHANGED <<st, subs, polls, pos, fresh, up, boots, count>>

Ending == Stop \/ Crash

StepKind ==
  \/ Quiet \/ Asking \/ Replying \/ Starting \/ Adding \/ Booting
  \/ Completing \/ Stopping \/ RcdMoves \/ Ending
  \/ \E j \in Ids : DeleteJob(j)
  \/ \E c \in subs : SubmitFailed(c) \/ SubmitAccepted(c)

\* Clearing the pending flags changes nothing of the work.
LEMMA PendingAgrees ==
  ASSUME NEW a \in Slots, NEW P
  PROVE  NoPending(a) \in Slots /\ Agree(a, NoPending(a), P)
<1>1. ASSUME NEW j \in Ids
      PROVE  /\ NoPending(a)[j] \in Slot
             /\ a[j].run = NoPending(a)[j].run /\ a[j].resync = NoPending(a)[j].resync
             /\ a[j].resyncTried = NoPending(a)[j].resyncTried
             /\ a[j].pollBusy = NoPending(a)[j].pollBusy
  <2>1. a[j] \in Slot BY DEF Slots
  <2>2. NoPending(a)[j] = [a[j] EXCEPT !.pending = FALSE] BY DEF NoPending
  <2> QED BY ZenonT(60), <2>1, <2>2 DEF Slot
<1>2. ASSUME NEW j \in Ids, a[j] = EmptySlot PROVE NoPending(a)[j] = EmptySlot
  <2>1. NoPending(a)[j] = [EmptySlot EXCEPT !.pending = FALSE] BY <1>2 DEF NoPending
  <2>2. ASSUME NEW s \in Slot, s.pending = FALSE PROVE [s EXCEPT !.pending = FALSE] = s
    BY <2>2 DEF Slot
  <2>3. EmptySlot \in Slot /\ EmptySlot.pending = FALSE BY DEF EmptySlot, Slot
  <2>4. [EmptySlot EXCEPT !.pending = FALSE] = EmptySlot BY <2>2, <2>3
  <2> QED BY <2>1, <2>4
<1>3. NoPending(a) \in Slots BY <1>1 DEF NoPending, Slots
<1> QED BY <1>1, <1>2, <1>3 DEF Agree, Alike, SameRuns

\* So does changing a flag of a slot in the list.
LEMMA OneAlike ==
  ASSUME NEW a \in Slots, NEW P, NEW x \in Ids, P[x] # 0, NEW s \in Slot,
         s.run = a[x].run, s.resync = a[x].resync, s.resyncTried = a[x].resyncTried
  PROVE  [a EXCEPT ![x] = s] \in Slots /\ Alike(a, [a EXCEPT ![x] = s], P)
BY DEF Alike, SameRuns, Slots

LEMMA OneAgrees ==
  ASSUME NEW a \in Slots, NEW P, NEW x \in Ids, P[x] # 0, NEW s \in Slot,
         s.run = a[x].run, s.resync = a[x].resync, s.resyncTried = a[x].resyncTried,
         s.pollBusy = a[x].pollBusy
  PROVE  [a EXCEPT ![x] = s] \in Slots /\ Agree(a, [a EXCEPT ![x] = s], P)
BY DEF Agree, Alike, SameRuns, Slots

LEMMA AgreeTrans ==
  ASSUME NEW a, NEW b, NEW c, NEW P, Agree(a, b, P), Agree(b, c, P)
  PROVE  Agree(a, c, P)
BY DEF Agree, Alike, SameRuns

LEMMA AgreeSelf == ASSUME NEW a, NEW P PROVE Agree(a, a, P)
BY DEF Agree, Alike, SameRuns

\* A handler that calls on_run_job for a job of the list, if its closure is
\* still valid, launches.
LEMMA ClosureLaunches ==
  ASSUME TypeOK, NEW x, x.id \in Ids, NEW trig \in Triggers,
         OnRunJob(st, runs, count, pos, IF Valid(x) THEN {x.id} ELSE {}, trig)
  PROVE  Launch(pos)
<1> DEFINE due == IF Valid(x) THEN {x.id} ELSE {}
<1>1. due \in SUBSET Ids /\ due \subseteq {x.id} /\ \A j \in due : pos[j] # 0 BY DEF Valid
<1>2. st \in Slots /\ OnRunJob(st, runs, count, pos, due, trig) BY TypeShape
<1> HIDE DEF due
<1> QED BY <1>1, <1>2, AgreeSelf DEF Launch

\* So does a handler that arms the schedules of the list.
LEMMA ScheduleLaunches ==
  ASSUME NEW slots \in Slots, NEW P, NEW enabled, NEW due \in DueSets(P, enabled),
         Agree(st, slots, pos), OnRunJob(slots, runs, count, P, due, "sched")
  PROVE  Launch(P)
<1>1. due \in SUBSET Ids /\ \E d : due \subseteq {d} BY DueSetsType
<1>2. \A j \in due : P[j] # 0 BY DEF DueSets
<1> QED BY <1>1, <1>2 DEF Launch, Triggers

\* A request of the user is one of the kinds.
LEMMA UserKind ==
  ASSUME TypeOK, User
  PROVE  StepKind
<1>t. /\ st \in Slots /\ fresh \subseteq Ids BY TypeShape
<1>p. NoPending(st) \in Slots /\ Agree(st, NoPending(st), pos) BY <1>t, PendingAgrees
<1>1. ASSUME NEW j \in Ids, RunJob(j) PROVE StepKind
  <2>1. OnRunJob(st, runs, count, pos, {j}, "user") /\ pos[j] # 0 BY <1>1 DEF RunJob, InList
  <2>2. Launch(pos) BY <1>t, <2>1, AgreeSelf DEF Launch, Triggers
  <2> QED BY <1>1, <2>2 DEF RunJob, Starting, StepKind
<1>2. ASSUME NEW j \in Ids, StopJob(j) PROVE StepKind
  BY <1>2, AgreeSelf DEF StopJob, Quiet, StepKind
<1>3. ASSUME NEW j \in Ids, AddJob(j) PROVE StepKind
  <2>1. PICK due \in DueSets(pos', sched) :
          OnRunJob(NoPending(st), runs, count, pos', due, "sched")
    BY <1>3 DEF AddJob
  <2>2. Launch(pos') BY <1>p, <2>1, ScheduleLaunches
  <2> QED BY <1>3, <2>2 DEF AddJob, Adding, StepKind
<1>4. ASSUME NEW j \in Ids, UpdateJob(j) PROVE StepKind
  <2> DEFINE halted == [st EXCEPT ![j].running = FALSE]
  <2>1. PICK due \in DueSets(pos, sched') :
          OnRunJob(NoPending(halted), runs, count, pos, due, "sched")
    BY <1>4 DEF UpdateJob
  <2>2. halted \in Slots /\ Agree(st, halted, pos)
    <3> DEFINE s == [st[j] EXCEPT !.running = FALSE]
    <3>1. /\ s \in Slot /\ s.run = st[j].run /\ s.resync = st[j].resync
          /\ s.resyncTried = st[j].resyncTried /\ s.pollBusy = st[j].pollBusy
      BY ZenonT(60), <1>t DEF Slots, Slot
    <3>2. halted = [st EXCEPT ![j] = s] BY <1>t DEF Slots
    <3>3. pos[j] # 0 BY <1>4 DEF UpdateJob, InList
    <3> HIDE DEF s, halted
    <3> QED BY <1>t, <3>1, <3>2, <3>3, OneAgrees
  <2> HIDE DEF halted
  <2>3. NoPending(halted) \in Slots /\ Agree(st, NoPending(halted), pos)
    BY <2>2, PendingAgrees, AgreeTrans
  <2>4. Launch(pos) BY <2>1, <2>3, ScheduleLaunches
  <2> QED BY <1>4, <2>4 DEF UpdateJob, Starting, StepKind
<1>5. ASSUME NEW j \in Ids, WatchEvent(j) PROVE StepKind
  <2> DEFINE s == [st[j] EXCEPT !.pending = TRUE]
  <2>1. /\ s \in Slot /\ s.run = st[j].run /\ s.resync = st[j].resync
        /\ s.resyncTried = st[j].resyncTried /\ s.pollBusy = st[j].pollBusy
    BY ZenonT(60), <1>t DEF Slots, Slot
  <2>2. st' = [st EXCEPT ![j] = s] BY <1>5, <1>t DEF WatchEvent, Slots
  <2>3. pos[j] # 0 BY <1>5 DEF WatchEvent, InList
  <2> HIDE DEF s
  <2>4. Agree(st, st', pos) BY <1>t, <2>1, <2>2, <2>3, OneAgrees
  <2> QED BY <1>5, <2>4 DEF WatchEvent, Quiet, StepKind
<1>6. ASSUME NEW j \in Ids, DeleteJob(j) PROVE StepKind
  BY <1>6 DEF StepKind
<1> QED BY <1>1, <1>2, <1>3, <1>4, <1>5, <1>6 DEF User

\* So is a timer, an idle callback, ...
LEMMA SourceKind ==
  ASSUME TypeOK,
         \/ \E t \in timers : SchedTimer(t) \/ RetryTimer(t) \/ WatchTimer(t) \/ PollTick(t)
         \/ \E c \in idles : ResyncIdle(c)
  PROVE  StepKind
<1>t. st \in Slots /\ timers \subseteq Timers /\ idles \subseteq [idx : Nat, id : Ids]
  BY TypeShape
<1>i. \A t \in timers : t.id \in Ids BY <1>t DEF Timers
<1>1. ASSUME NEW t \in timers, SchedTimer(t) PROVE StepKind
  <2>1. Launch(pos) BY <1>1, <1>i, ClosureLaunches DEF SchedTimer, Triggers
  <2> QED BY <1>1, <2>1 DEF SchedTimer, Starting, StepKind
<1>2. ASSUME NEW t \in timers, RetryTimer(t) PROVE StepKind
  <2>1. Launch(pos) BY <1>2, <1>i, ClosureLaunches DEF RetryTimer, Triggers
  <2> QED BY <1>2, <2>1 DEF RetryTimer, Starting, StepKind
<1>3. ASSUME NEW c \in idles, ResyncIdle(c) PROVE StepKind
  <2>0. c.id \in Ids BY <1>t
  <2>1. Launch(pos) BY <1>3, <2>0, ClosureLaunches DEF ResyncIdle, Triggers
  <2> QED BY <1>3, <2>1 DEF ResyncIdle, Starting, StepKind
<1>4. ASSUME NEW t \in timers, WatchTimer(t) PROVE StepKind
  <2>1. CASE Valid(t)
    <3> DEFINE s == [st[t.id] EXCEPT !.pending = FALSE]
               slots == [st EXCEPT ![t.id] = s]
    <3>1. /\ s \in Slot /\ s.run = st[t.id].run /\ s.resync = st[t.id].resync
          /\ s.resyncTried = st[t.id].resyncTried /\ s.pollBusy = st[t.id].pollBusy
      BY ZenonT(60), <1>t, <1>i DEF Slots, Slot
    <3>2. [st EXCEPT ![t.id].pending = FALSE] = slots BY <1>t, <1>i DEF Slots
    <3>3. pos[t.id] # 0 BY <2>1 DEF Valid
    <3>4. OnRunJob([st EXCEPT ![t.id].pending = FALSE], runs, count, pos, {t.id}, "watch")
      BY <1>4, <2>1 DEF WatchTimer
    <3>5. OnRunJob(slots, runs, count, pos, {t.id}, "watch") BY <3>2, <3>4
    <3> HIDE DEF s
    <3>6. slots \in Slots /\ Agree(st, slots, pos) BY <1>t, <1>i, <3>1, <3>3, OneAgrees
    <3> HIDE DEF slots
    <3>7. Launch(pos) BY <1>i, <3>3, <3>5, <3>6 DEF Launch, Triggers
    <3> QED BY <1>4, <3>7 DEF WatchTimer, Starting, StepKind
  <2>2. CASE ~Valid(t)
    BY <1>4, <2>2, AgreeSelf DEF WatchTimer, Quiet, StepKind
  <2> QED BY <2>1, <2>2
<1>5. ASSUME NEW t \in timers, PollTick(t) PROVE StepKind
  <2>1. CASE st' = st /\ polls' = polls
    BY <1>5, <2>1, AgreeSelf DEF PollTick, Quiet, StepKind
  <2>2. CASE ~(st' = st /\ polls' = polls)
    <3>1. /\ Valid(t) /\ st[t.id].run # 0 /\ ~st[t.id].pollBusy
          /\ st' = [st EXCEPT ![t.id].pollBusy = TRUE]
          /\ polls' = polls \cup {Call(t.idx, t.id, st[t.id].run)}
      BY <1>5, <2>2 DEF PollTick
    <3>2. t.id \in Ids /\ pos[t.id] # 0 /\ t.idx = pos[t.id] BY <1>i, <3>1 DEF Valid
    <3> QED BY <1>5, <3>1, <3>2 DEF PollTick, Asking, StepKind
  <2> QED BY <2>1, <2>2
<1> QED BY <1>1, <1>2, <1>3, <1>4, <1>5

\* ... an answer of rcd, ...
LEMMA AnswerKind ==
  ASSUME TypeOK,
         \/ \E c \in subs : SubmitFailed(c) \/ SubmitAccepted(c)
         \/ \E c \in polls : StatusIgnored(c) \/ StatusAnswered(c) \/ StatusMissed(c)
         \/ \E c \in stops : StopAnswered(c)
  PROVE  StepKind
<1>t. /\ st \in Slots /\ subs \subseteq Calls /\ polls \subseteq Calls /\ stops \subseteq Calls
  BY TypeShape
<1>1. ASSUME NEW c \in subs, SubmitFailed(c) \/ SubmitAccepted(c) PROVE StepKind
  BY <1>1 DEF StepKind
<1>2. ASSUME NEW c \in polls, StatusIgnored(c) PROVE StepKind
  BY <1>2, AgreeSelf DEF StatusIgnored, daemonVars, Agree, Replying, StepKind
<1>3. ASSUME NEW c \in polls, StatusAnswered(c) PROVE StepKind
  <2> DEFINE phase == runs[c.id][c.run].phase
             seen == [st EXCEPT ![c.id].pollBusy = FALSE, ![c.id].pollFails = 0]
             s == [st[c.id] EXCEPT !.pollBusy = FALSE, !.pollFails = 0]
  <2>1. c.id \in Ids /\ Concerns(c) /\ pos[c.id] # 0
    BY <1>3, <1>t DEF StatusAnswered, Concerns, Valid, Calls
  <2>2. /\ s \in Slot /\ s.run = st[c.id].run /\ s.resync = st[c.id].resync
        /\ s.resyncTried = st[c.id].resyncTried
    BY ZenonT(60), <1>t, <2>1 DEF Slots, Slot
  <2>3. seen = [st EXCEPT ![c.id] = s] BY <1>t, <2>1 DEF Slots
  <2>4. \/ st' = seen /\ UNCHANGED <<runs, count, subs>>
        \/ /\ phase \in Finished
           /\ OnJobCompleted(seen, runs, c, Verdict(phase), phase = "nobase")
    BY <1>3 DEF StatusAnswered
  <2>5. up /\ polls' = polls \ {c} /\ UNCHANGED <<pos, fresh, up, boots>>
    BY <1>3 DEF StatusAnswered
  <2>t. phase \in Finished => Told(c, Verdict(phase)) BY DEF Told
  <2>6. Verdict(phase) \in Outcomes /\ (phase = "nobase") \in BOOLEAN
    BY DEF Verdict, Outcomes
  <2> HIDE DEF s, seen, phase
  <2>7. /\ seen \in Slots /\ Alike(st, seen, pos)
        /\ \A j \in Ids : j # c.id => seen[j].pollBusy = st[j].pollBusy
    <3>1. [st EXCEPT ![c.id] = s] \in Slots /\ Alike(st, [st EXCEPT ![c.id] = s], pos)
      BY ONLY <1>t, <2>1, <2>2, OneAlike
    <3>2. \A j \in Ids : j # c.id => seen[j] = st[j] BY <2>3 DEF Slots
    <3> QED BY <2>3, <3>1, <3>2
  <2>8. CASE st' = seen /\ UNCHANGED <<runs, count, subs>>
    BY <2>5, <2>7, <2>8 DEF Replying, StepKind
  <2>9. CASE phase \in Finished
             /\ OnJobCompleted(seen, runs, c, Verdict(phase), phase = "nobase")
    BY <2>1, <2>5, <2>t, <2>6, <2>7, <2>9 DEF Completing, StepKind
  <2> QED BY <2>4, <2>8, <2>9
<1>4. ASSUME NEW c \in polls, StatusMissed(c) PROVE StepKind
  <2> DEFINE missed == [st EXCEPT ![c.id] = Miss(@)]
             s == Miss(st[c.id])
  <2>1. c.id \in Ids /\ Concerns(c) /\ pos[c.id] # 0
    BY <1>4, <1>t DEF StatusMissed, Concerns, Valid, Calls
  <2>2. /\ s \in Slot /\ s.run = st[c.id].run /\ s.resync = st[c.id].resync
        /\ s.resyncTried = st[c.id].resyncTried
    <3>1. st[c.id] \in Slot /\ st[c.id].pollFails + 1 \in Nat BY <1>t, <2>1 DEF Slots, Slot
    <3> QED BY <3>1 DEF Slot, Miss
  <2>3. missed = [st EXCEPT ![c.id] = s] BY <1>t, <2>1 DEF Slots
  <2>4. \/ st' = missed /\ UNCHANGED <<runs, count, subs>>
        \/ OnJobCompleted(missed, runs, c, "gaveup", FALSE)
    BY <1>4 DEF StatusMissed
  <2>5. up /\ polls' = polls \ {c} /\ UNCHANGED <<pos, fresh, up, boots>>
    BY <1>4 DEF StatusMissed
  <2>t. Told(c, "gaveup") BY <1>4 DEF StatusMissed, Lose, NoLoss, Told
  <2> HIDE DEF s, missed
  <2>6. /\ missed \in Slots /\ Alike(st, missed, pos)
        /\ \A j \in Ids : j # c.id => missed[j].pollBusy = st[j].pollBusy
    <3>1. [st EXCEPT ![c.id] = s] \in Slots /\ Alike(st, [st EXCEPT ![c.id] = s], pos)
      BY ONLY <1>t, <2>1, <2>2, OneAlike
    <3>2. \A j \in Ids : j # c.id => missed[j] = st[j] BY <2>3 DEF Slots
    <3> QED BY <2>3, <3>1, <3>2
  <2>7. CASE st' = missed /\ UNCHANGED <<runs, count, subs>>
    BY <2>5, <2>6, <2>7 DEF Replying, StepKind
  <2>8. CASE OnJobCompleted(missed, runs, c, "gaveup", FALSE)
    BY <2>1, <2>5, <2>t, <2>6, <2>8 DEF Completing, StepKind, Outcomes
  <2> QED BY <2>4, <2>7, <2>8
<1>5. ASSUME NEW c \in stops, StopAnswered(c) PROVE StepKind
  <2>1. CASE Concerns(c) BY <1>5, <2>1 DEF StopAnswered, Stopping, StepKind
  <2>2. CASE ~Concerns(c) BY <1>5, <2>2, AgreeSelf DEF StopAnswered, Quiet, StepKind
  <2> QED BY <2>1, <2>2
<1> QED BY <1>1, <1>2, <1>3, <1>4, <1>5

\* ... and what happens outside the main loop.
LEMMA OutsideKind ==
  ASSUME TypeOK, Rcd \/ Lifecycle
  PROVE  StepKind
<1>t. st \in Slots BY TypeShape
<1>1. ASSUME NEW j \in Ids, NEW k \in DOMAIN runs[j],
             RcdAccepts(j, k) \/ RcdFinishes(j, k) \/ RcdStops(j, k) \/ RcdForgets(j, k)
      PROVE  StepKind
  <2>1. PICK p \in Phases : Progress(runs[j][k].phase, p) /\ Becomes(j, k, p)
    BY <1>1 DEF RcdAccepts, RcdFinishes, RcdStops, RcdForgets, Phases, Finished, Progress
  <2> QED BY <2>1 DEF Becomes, daemonVars, callVars, RcdMoves, StepKind
<1>2. CASE Stop \/ Crash BY <1>2 DEF Ending, StepKind
<1>3. CASE Boot
  <2>1. PICK due \in DueSets(pos, sched) : OnRunJob(st, runs, count, pos, due, "sched")
    BY <1>3 DEF Boot
  <2>2. Launch(pos) BY <1>t, <2>1, AgreeSelf, ScheduleLaunches
  <2> QED BY <1>3, <2>2 DEF Boot, Booting, StepKind
<1> QED BY <1>1, <1>2, <1>3 DEF Rcd, Lifecycle

\* Every step is one of the twelve kinds.
LEMMA EveryStep ==
  ASSUME TypeOK, [Next]_vars
  PROVE  StepKind
<1>1. CASE UNCHANGED vars
  BY <1>1, AgreeSelf DEF vars, daemonVars, callVars, Quiet, StepKind
<1>2. CASE MainLoop BY <1>2, SourceKind, AnswerKind DEF MainLoop
<1> QED BY <1>1, <1>2, UserKind, OutsideKind DEF Next

-----------------------------------------------------------------------------
(* The ledger's operators *)

\* Ending a run changes how that run ended and nothing else.
LEMMA EndFacts ==
  ASSUME NEW L \in Ledgers, NEW x \in Ids, NEW r \in DOMAIN L[x], NEW o \in Outcomes
  PROVE  /\ \A j \in Ids : DOMAIN End(L, x, r, o)[j] = DOMAIN L[j]
         /\ \A j \in Ids : j # x => End(L, x, r, o)[j] = L[j]
         /\ \A k \in DOMAIN L[x] : k # r => End(L, x, r, o)[x][k] = L[x][k]
         /\ End(L, x, r, o)[x][r].ends = Append(L[x][r].ends, o)
         /\ End(L, x, r, o)[x][r].phase = L[x][r].phase
         /\ End(L, x, r, o)[x][r].trig = L[x][r].trig
         /\ End(L, x, r, o)[x][r].resync = L[x][r].resync
<1> DEFINE e == [L[x][r] EXCEPT !.ends = Append(@, o)]
<1>1. L[x] \in Seq(Run) /\ L[x][r] \in Run BY DEF Ledgers
<1>2. /\ e.ends = Append(L[x][r].ends, o) /\ e.phase = L[x][r].phase
      /\ e.trig = L[x][r].trig /\ e.resync = L[x][r].resync
  BY <1>1 DEF Run
<1>3. End(L, x, r, o) = [L EXCEPT ![x] = [L[x] EXCEPT ![r] = e]]
  BY DEF End, Ledgers
<1> HIDE DEF e
<1>4. DOMAIN L = Ids BY DEF Ledgers
<1> QED BY <1>1, <1>2, <1>3, <1>4

\* So does a change of its phase.
LEMMA PhaseFacts ==
  ASSUME NEW L \in Ledgers, NEW x \in Ids, NEW r \in DOMAIN L[x], NEW p \in Phases
  PROVE  /\ \A j \in Ids : DOMAIN [L EXCEPT ![x][r].phase = p][j] = DOMAIN L[j]
         /\ \A j \in Ids : j # x => [L EXCEPT ![x][r].phase = p][j] = L[j]
         /\ \A k \in DOMAIN L[x] : k # r => [L EXCEPT ![x][r].phase = p][x][k] = L[x][k]
         /\ [L EXCEPT ![x][r].phase = p][x][r].ends = L[x][r].ends
         /\ [L EXCEPT ![x][r].phase = p][x][r].phase = p
         /\ [L EXCEPT ![x][r].phase = p][x][r].trig = L[x][r].trig
         /\ [L EXCEPT ![x][r].phase = p][x][r].resync = L[x][r].resync
<1> DEFINE e == [L[x][r] EXCEPT !.phase = p]
<1>1. L[x] \in Seq(Run) /\ L[x][r] \in Run BY DEF Ledgers
<1>2. /\ e.ends = L[x][r].ends /\ e.phase = p
      /\ e.trig = L[x][r].trig /\ e.resync = L[x][r].resync
  BY <1>1 DEF Run
<1>3. [L EXCEPT ![x][r].phase = p] = [L EXCEPT ![x] = [L[x] EXCEPT ![r] = e]]
  BY DEF Ledgers
<1> HIDE DEF e
<1>4. DOMAIN L = Ids BY DEF Ledgers
<1> QED BY <1>1, <1>2, <1>3, <1>4

\* A new run comes last in the ledger of its job.
LEMMA AppendFacts ==
  ASSUME NEW s \in Seq(Run), NEW e \in Run
  PROVE  /\ DOMAIN Append(s, e) = DOMAIN s \cup {Len(s) + 1}
         /\ Len(s) + 1 \notin DOMAIN s
         /\ \A k \in DOMAIN s : Append(s, e)[k] = s[k]
         /\ Append(s, e)[Len(s) + 1] = e
<1>1. Len(s) \in Nat /\ DOMAIN s = 1..Len(s) OBVIOUS
<1>2. DOMAIN Append(s, e) = 1..(Len(s) + 1) OBVIOUS
<1> QED BY <1>1, <1>2

\* on_run_job skips its job, ...
Skipped(slots, L, n) == st' = slots /\ subs' = subs /\ runs' = L /\ count' = n

\* ... or begins a run of a job that is not busy, and asks rcd for it.
Begun(slots, L, n, P, d, trig) ==
  /\ d \in Ids /\ ~Busy(slots[d])
  /\ st' = [slots EXCEPT ![d] = [slots[d] EXCEPT !.submitting = TRUE, !.running = TRUE,
                                                 !.resync = FALSE]]
  /\ subs' = subs \cup {Call(P[d], d, Len(L[d]) + 1)}
  /\ runs' = [L EXCEPT ![d] = Append(L[d], NewRun(trig, slots[d].resync))]
  /\ NewRun(trig, slots[d].resync) \in Run
  /\ count' = n + 1

LEMMA LaunchFacts ==
  ASSUME NEW slots \in Slots, NEW L \in Ledgers, NEW n \in Nat, NEW P, NEW due \in SUBSET Ids,
         NEW d, due \subseteq {d}, NEW trig \in Triggers,
         OnRunJob(slots, L, n, P, due, trig)
  PROVE  Skipped(slots, L, n) \/ (d \in due /\ Begun(slots, L, n, P, d, trig))
<1> DEFINE go == Going(slots, due)
<1>0. go = {} \/ (go = {d} /\ d \in due /\ d \in Ids /\ ~Busy(slots[d]))
  BY DEF Going
<1>a. /\ st' = [j \in Ids |->
                  IF j \in go
                  THEN [slots[j] EXCEPT !.submitting = TRUE, !.running = TRUE, !.resync = FALSE]
                  ELSE slots[j]]
      /\ count' = n + Cardinality(go)
      /\ subs' = subs \cup {Call(P[j], j, Len(L[j]) + 1) : j \in go}
      /\ runs' = [j \in Ids |->
                    IF j \in go THEN Append(L[j], NewRun(trig, slots[j].resync))
                                ELSE L[j]]
  BY Zenon DEF OnRunJob
<1> HIDE DEF go
<1>1. CASE go = {}
  <2>1. Cardinality(go) = 0 BY <1>1, FS_EmptySet
  <2> QED BY <1>1, <1>a, <2>1 DEF Slots, Ledgers, Skipped
<1>2. CASE go = {d} /\ d \in due /\ d \in Ids /\ ~Busy(slots[d])
  <2>0. Cardinality(go) = 1 BY <1>2, FS_Singleton
  <2>1. st' = [slots EXCEPT ![d] = [slots[d] EXCEPT !.submitting = TRUE, !.running = TRUE,
                                                    !.resync = FALSE]]
    BY <1>2, <1>a DEF Slots
  <2>2. subs' = subs \cup {Call(P[d], d, Len(L[d]) + 1)} BY <1>2, <1>a
  <2>3. runs' = [L EXCEPT ![d] = Append(L[d], NewRun(trig, slots[d].resync))]
    BY <1>2, <1>a DEF Ledgers
  <2>4. NewRun(trig, slots[d].resync) \in Run
    <3>1. slots[d].resync \in BOOLEAN BY <1>2 DEF Slots, Slot
    <3> QED BY <3>1 DEF NewRun, Run, Phases
  <2> QED BY <1>2, <1>a, <2>0, <2>1, <2>2, <2>3, <2>4 DEF Begun
<1> QED BY <1>0, <1>1, <1>2

-----------------------------------------------------------------------------
(* Owned is kept *)

\* A run keeps its owner while its end is not written, whatever else moves.
LEMMA OwnedSame ==
  ASSUME NEW a, NEW b, NEW L, NEW M, NEW S, S \subseteq Calls, NEW P,
         Owned(a, L, S, P), SameRuns(a, b, P),
         \A j \in Ids : DOMAIN M[j] = DOMAIN L[j],
         \A j \in Ids : \A k \in DOMAIN L[j] : M[j][k].ends = L[j][k].ends
  PROVE  Owned(b, M, S, P)
<1>1. \A j \in Ids : b[j].run # 0 => P[j] # 0 /\ Open(M, j, b[j].run)
  BY DEF Owned, SameRuns, Open
<1>2. \A j \in Ids : P[j] = 0 => b[j] = EmptySlot BY DEF Owned, SameRuns
<1>3. \A c \in S : Open(M, c.id, c.run) /\ b[c.id].run # c.run
  BY DEF Owned, SameRuns, Open, Calls
<1>4. \A j \in Ids : \A k \in DOMAIN M[j] : Len(M[j][k].ends) <= 1 BY DEF Owned
<1> QED BY <1>1, <1>2, <1>3, <1>4 DEF Owned

\* An added job has no slot yet.
LEMMA OwnedAdded ==
  ASSUME NEW a, NEW L, NEW S, NEW P, Owned(a, L, S, P),
         NEW Q, \A j \in Ids : Q[j] = 0 => P[j] = 0
  PROVE  Owned(a, L, S, Q)
BY DEF Owned

\* A launched run is new, so its request is its only owner.
LEMMA OwnedLaunched ==
  ASSUME NEW slots \in Slots, NEW L \in Ledgers, NEW n \in Nat, NEW P, NEW due \in SUBSET Ids, NEW d,
         due \subseteq {d}, \A j \in due : P[j] # 0, NEW trig \in Triggers,
         subs \subseteq Calls, Owned(slots, L, subs, P),
         OnRunJob(slots, L, n, P, due, trig)
  PROVE  Owned(st', runs', subs', P)
<1> DEFINE r == Len(L[d]) + 1
           x == Call(P[d], d, r)
           e == NewRun(trig, slots[d].resync)
           s == [slots[d] EXCEPT !.submitting = TRUE, !.running = TRUE, !.resync = FALSE]
<1>1. CASE Skipped(slots, L, n) BY <1>1 DEF Skipped
<1>2. ASSUME d \in due, Begun(slots, L, n, P, d, trig)
      PROVE  Owned(st', runs', subs', P)
  <2>b. /\ d \in due /\ d \in Ids /\ ~Busy(slots[d])
        /\ st' = [slots EXCEPT ![d] = s]
        /\ subs' = subs \cup {x}
        /\ runs' = [L EXCEPT ![d] = Append(L[d], e)]
        /\ e \in Run
    BY <1>2 DEF Begun
  <2>0. L[d] \in Seq(Run) /\ slots[d] \in Slot BY <2>b DEF Ledgers, Slots
  <2>1. s.run = 0 BY <2>b, <2>0 DEF Busy, Slot
  <2>2. e.ends = <<>> BY DEF NewRun
  <2>3. x.id = d /\ x.run = r BY DEF Call
  <2>4. r # 0 BY <2>0
  <2> HIDE DEF x, e, s
  <2>5. /\ DOMAIN runs'[d] = DOMAIN L[d] \cup {r} /\ r \notin DOMAIN L[d]
        /\ \A k \in DOMAIN L[d] : runs'[d][k] = L[d][k]
        /\ runs'[d][r] = e
        /\ \A j \in Ids : j # d => runs'[j] = L[j]
    BY <2>b, <2>0, AppendFacts DEF Ledgers
  <2>6. /\ \A j \in Ids : j # d => st'[j] = slots[j]
        /\ st'[d].run = 0 /\ slots[d].run = 0
    BY <2>b, <2>1 DEF Slots, Busy
  <2> HIDE DEF r
  <2>7. \A j \in Ids : \A k : Open(L, j, k) => Open(runs', j, k) BY <2>5 DEF Open
  <2>8. Open(runs', d, r) BY <2>2, <2>5 DEF Open
  <2>9. \A j \in Ids : st'[j].run # 0 => P[j] # 0 /\ Open(runs', j, st'[j].run)
    BY <2>6, <2>7 DEF Owned
  <2>10. \A j \in Ids : P[j] = 0 => st'[j] = EmptySlot BY <2>b, <2>6 DEF Owned
  <2>11. \A c \in subs' : Open(runs', c.id, c.run) /\ st'[c.id].run # c.run
    <3>1. \A c \in subs : c.id \in Ids BY DEF Calls
    <3>2. \A c \in subs : c.run # 0 BY <3>1, <2>0 DEF Owned, Open, Ledgers
    <3>3. \A c \in subs : Open(runs', c.id, c.run) /\ st'[c.id].run # c.run
      BY <2>6, <2>7, <3>1, <3>2 DEF Owned
    <3> QED BY <2>b, <2>3, <2>4, <2>6, <2>8, <3>3
  <2>12. \A c \in subs : ~(c.id = d /\ c.run = r) BY <2>5 DEF Owned, Open
  <2>13. \A c, k \in subs' : c.id = k.id /\ c.run = k.run => c = k
    BY <2>b, <2>3, <2>12 DEF Owned
  <2>14. \A j \in Ids : \A k \in DOMAIN runs'[j] : Len(runs'[j][k].ends) <= 1
    BY <2>2, <2>5 DEF Owned
  <2> QED BY <2>9, <2>10, <2>11, <2>13, <2>14 DEF Owned
<1>3. Skipped(slots, L, n) \/ (d \in due /\ Begun(slots, L, n, P, d, trig)) BY LaunchFacts
<1> QED BY <1>1, <1>2, <1>3

\* A run that ends loses the slot or the request that owned it.
LEMMA OwnedEnded ==
  ASSUME NEW slots \in Slots, NEW L \in Ledgers, NEW S, S \subseteq Calls, NEW P,
         Owned(slots, L, S, P), NEW x \in Ids, NEW r, Open(L, x, r), NEW o \in Outcomes,
         NEW b, NEW T \in SUBSET S,
         \/ r = slots[x].run /\ b[x].run = 0 /\ P[x] # 0
         \/ SameRuns(slots, b, P) /\ \E c \in S : c.id = x /\ c.run = r /\ T = S \ {c},
         \A j \in Ids : j # x => b[j] = slots[j] \/ SameRuns(slots, b, P)
  PROVE  Owned(b, End(L, x, r, o), T, P)
<1> DEFINE M == End(L, x, r, o)
<1>1. r \in DOMAIN L[x] BY DEF Open
<1>2. /\ \A j \in Ids : DOMAIN M[j] = DOMAIN L[j]
      /\ \A j \in Ids : j # x => M[j] = L[j]
      /\ \A k \in DOMAIN L[x] : k # r => M[x][k] = L[x][k]
      /\ M[x][r].ends = Append(L[x][r].ends, o)
  BY <1>1, EndFacts
<1>3. Len(M[x][r].ends) = 1
  <2>1. M[x][r].ends = Append(<<>>, o) BY <1>2 DEF Open
  <2> QED BY <2>1
<1> SUFFICES Owned(b, M, T, P)
  OBVIOUS
<1> HIDE DEF M
<1>4. \A j \in Ids : \A k : Open(L, j, k) /\ ~(j = x /\ k = r) => Open(M, j, k)
  BY <1>2 DEF Open
<1>5. \A j \in Ids : \A k \in DOMAIN M[j] : Len(M[j][k].ends) <= 1
  BY <1>2, <1>3 DEF Owned
<1>6. \A c, d \in T : c.id = d.id /\ c.run = d.run => c = d BY DEF Owned
<1>i. \A c \in S : c.id \in Ids BY DEF Calls
<1>0. \A j \in Ids : \A k : Open(L, j, k) => k # 0 BY DEF Open, Ledgers
<1>7. CASE r = slots[x].run /\ b[x].run = 0 /\ P[x] # 0
  <2>1. \A j \in Ids : j # x => /\ b[j].run = slots[j].run
                                /\ P[j] = 0 /\ slots[j] = EmptySlot => b[j] = EmptySlot
    BY DEF SameRuns
  <2>2. \A j \in Ids : b[j].run # 0 => P[j] # 0 /\ Open(M, j, b[j].run)
    BY <1>4, <1>7, <2>1 DEF Owned
  <2>3. \A j \in Ids : P[j] = 0 => b[j] = EmptySlot BY <1>7, <2>1 DEF Owned
  <2>4. \A c \in T : Open(M, c.id, c.run) /\ b[c.id].run # c.run
    BY <1>0, <1>4, <1>7, <1>i, <2>1 DEF Owned
  <2> QED BY <1>5, <1>6, <2>2, <2>3, <2>4 DEF Owned
<1>8. CASE SameRuns(slots, b, P) /\ \E c \in S : c.id = x /\ c.run = r /\ T = S \ {c}
  <2>1. PICK c \in S : c.id = x /\ c.run = r /\ T = S \ {c} BY <1>8
  <2>2. slots[x].run # r /\ \A d \in T : ~(d.id = x /\ d.run = r) BY <2>1 DEF Owned
  <2>3. \A j \in Ids : b[j].run # 0 => P[j] # 0 /\ Open(M, j, b[j].run)
    BY <1>4, <1>8, <2>2 DEF Owned, SameRuns
  <2>4. \A j \in Ids : P[j] = 0 => b[j] = EmptySlot BY <1>8 DEF Owned, SameRuns
  <2>5. \A d \in T : Open(M, d.id, d.run) /\ b[d.id].run # d.run
    BY <1>4, <1>8, <1>i, <2>2 DEF Owned, SameRuns
  <2> QED BY <1>5, <1>6, <2>3, <2>4, <2>5 DEF Owned
<1> QED BY <1>7, <1>8

\* on_job_completed takes the run from its slot before it does anything else.
LEMMA CompletedOwned ==
  ASSUME TypeOK, NEW slots \in Slots, Owned(slots, runs, subs, pos),
         NEW c \in Calls, Valid(c), slots[c.id].run # 0,
         NEW outcome \in Outcomes, NEW nobase,
         OnJobCompleted(slots, runs, c, outcome, nobase)
  PROVE  Owned(st', runs', subs', pos)
<1> DEFINE claimed == [slots EXCEPT ![c.id] = Claim(@)]
           ended   == End(runs, c.id, slots[c.id].run, outcome)
<1>t. runs \in Ledgers /\ subs \subseteq Calls /\ count \in Nat BY TypeShape
<1>c. c.id \in Ids /\ pos[c.id] # 0 BY DEF Calls, Valid
<1>1. /\ \A i \in Ids : i # c.id => claimed[i] = slots[i]
      /\ claimed[c.id].run = 0 /\ claimed \in Slots
  BY <1>c DEF Claim, Slots, Slot
<1>2. ended \in Ledgers BY <1>c, <1>t, EndInLedgers
<1>n. Dec(count) \in Nat BY <1>t DEF Dec
<1>5. \/ ResyncRetry(claimed, ended, c)
      \/ BackoffRetry(claimed, ended, c)
      \/ FinalVerdict(claimed, ended, c)
  BY DEF OnJobCompleted
<1>o. Open(runs, c.id, slots[c.id].run) BY <1>c DEF Owned
<1> HIDE DEF claimed
<1>3. Owned(claimed, ended, subs, pos)
  BY <1>t, <1>c, <1>1, <1>o, OwnedEnded
<1> HIDE DEF ended
<1>s. ASSUME NEW b, \A i \in Ids : i # c.id => b[i] = claimed[i], b[c.id].run = 0
      PROVE  Owned(b, ended, subs, pos)
  <2>1. SameRuns(claimed, b, pos) BY <1>c, <1>1, <1>s DEF SameRuns
  <2> QED BY <1>t, <1>3, <2>1, OwnedSame
<1>6. CASE ResyncRetry(claimed, ended, c)
  <2>1. /\ \A i \in Ids : i # c.id => st'[i] = claimed[i]
        /\ st'[c.id].run = 0
    BY <1>c, <1>1, <1>6 DEF ResyncRetry, Slots, Slot
  <2>2. runs' = ended /\ subs' = subs BY <1>6 DEF ResyncRetry
  <2> QED BY <1>s, <2>1, <2>2
<1>7. CASE BackoffRetry(claimed, ended, c)
  <2>1. /\ \A i \in Ids : i # c.id => st'[i] = claimed[i]
        /\ st'[c.id].run = 0
    BY <1>c, <1>1, <1>7 DEF BackoffRetry, Slots, Slot
  <2>2. runs' = ended /\ subs' = subs BY <1>7 DEF BackoffRetry
  <2> QED BY <1>s, <2>1, <2>2
<1>8. CASE FinalVerdict(claimed, ended, c)
  <2> DEFINE done == [claimed EXCEPT ![c.id].retries = 0, ![c.id].running = FALSE]
  <2>1. PICK due \in {d \in DueSets(pos, sched) : d \subseteq {c.id}} :
          OnRunJob(done, ended, Dec(count), pos, due, "sched")
    BY <1>8 DEF FinalVerdict
  <2>2. done \in Slots
    <3> DEFINE e == [claimed[c.id] EXCEPT !.retries = 0, !.running = FALSE]
    <3>1. claimed[c.id] \in Slot BY <1>c, <1>1 DEF Slots
    <3>2. e \in Slot BY <3>1 DEF Slot
    <3>3. done = [claimed EXCEPT ![c.id] = e] BY <1>c, <1>1 DEF Slots
    <3> HIDE DEF e, done
    <3> QED BY <1>1, <3>2, <3>3 DEF Slots
  <2>3. /\ \A i \in Ids : i # c.id => done[i] = claimed[i]
        /\ done[c.id].run = 0
    BY <1>c, <1>1 DEF Slots, Slot
  <2> HIDE DEF done
  <2>4. Owned(done, ended, subs, pos) BY <1>s, <2>3
  <2>5. due \in SUBSET Ids /\ due \subseteq {c.id} /\ \A j \in due : pos[j] # 0 BY <1>c
  <2> QED BY <1>t, <1>2, <1>n, <2>1, <2>2, <2>4, <2>5, OwnedLaunched DEF Triggers
<1> QED BY <1>5, <1>6, <1>7, <1>8

\* done_cb clears a flag of the slot at its index, if there is one.
LEMMA ClearFacts ==
  ASSUME st \in Slots, NEW i
  PROVE  ClearSubmitting(i) \in Slots /\ Agree(st, ClearSubmitting(i), pos)
<1>1. ASSUME NEW j \in Ids
      PROVE  /\ ClearSubmitting(i)[j] \in Slot
             /\ ClearSubmitting(i)[j].run = st[j].run
             /\ ClearSubmitting(i)[j].resync = st[j].resync
             /\ ClearSubmitting(i)[j].resyncTried = st[j].resyncTried
             /\ ClearSubmitting(i)[j].pollBusy = st[j].pollBusy
             /\ pos[j] = 0 => ClearSubmitting(i)[j] = st[j]
  <2>1. st[j] \in Slot BY DEF Slots
  <2>2. \/ ClearSubmitting(i)[j] = st[j]
        \/ ClearSubmitting(i)[j] = [st[j] EXCEPT !.submitting = FALSE] /\ pos[j] # 0
    BY DEF ClearSubmitting, InList
  <2>3. [st[j] EXCEPT !.submitting = FALSE] \in Slot
    BY ZenonT(60), <2>1 DEF Slot
  <2> QED BY <2>1, <2>2, <2>3 DEF Slot
<1>2. ClearSubmitting(i) \in Slots BY <1>1 DEF ClearSubmitting, Slots
<1> QED BY <1>1, <1>2 DEF Agree, Alike, SameRuns

\* The answer to a start request ends the run of that request or hands it to
\* the slot.
LEMMA SubmitOwned ==
  ASSUME TypeOK, Owned(st, runs, subs, pos),
         NEW c \in subs, SubmitFailed(c) \/ SubmitAccepted(c)
  PROVE  Owned(st', runs', subs', pos')
<1>t. /\ st \in Slots /\ runs \in Ledgers /\ subs \subseteq Calls BY TypeShape
<1>c. c.id \in Ids /\ Open(runs, c.id, c.run) /\ c.run \in DOMAIN runs[c.id]
  BY <1>t DEF Calls, Owned, Open
<1>s. ClearSubmitting(c.idx) \in Slots /\ Agree(st, ClearSubmitting(c.idx), pos)
  BY <1>t, ClearFacts
<1>1. CASE SubmitFailed(c)
  <2>1. PICK p \in Phases :
          runs' = End([runs EXCEPT ![c.id][c.run].phase = p], c.id, c.run, "rejected")
    BY <1>1 DEF SubmitFailed
  <2> DEFINE L == [runs EXCEPT ![c.id][c.run].phase = p]
  <2>2. /\ L \in Ledgers
        /\ \A j \in Ids : DOMAIN L[j] = DOMAIN runs[j]
        /\ \A j \in Ids : \A k \in DOMAIN runs[j] : L[j][k].ends = runs[j][k].ends
    BY <1>t, <1>c, PhaseInLedgers, PhaseFacts
  <2>3. runs' = End(L, c.id, c.run, "rejected") BY <2>1
  <2> HIDE DEF L
  <2>4. Owned(st, L, subs, pos)
    BY <1>t, <2>2, OwnedSame, AgreeSelf DEF Agree, Alike
  <2>5. subs' = subs \ {c} /\ pos' = pos BY <1>1 DEF SubmitFailed
  <2>6. SameRuns(st, st', pos)
    <3>1. CASE Valid(c)
      <4>1. st' = [ClearSubmitting(c.idx) EXCEPT ![c.id].running = FALSE]
        BY <1>1, <3>1 DEF SubmitFailed
      <4>2. /\ \A j \in Ids : st'[j].run = ClearSubmitting(c.idx)[j].run
            /\ \A j \in Ids : j # c.id => st'[j] = ClearSubmitting(c.idx)[j]
        BY <1>s, <4>1 DEF Slots, Slot
      <4>3. pos[c.id] # 0 BY <3>1 DEF Valid
      <4> QED BY <1>s, <4>2, <4>3 DEF Agree, Alike, SameRuns
    <3>2. CASE ~Valid(c) BY <1>1, <1>s, <3>2 DEF SubmitFailed, Agree, Alike
    <3> QED BY <3>1, <3>2
  <2>7. Open(L, c.id, c.run) BY <1>c, <2>2 DEF Open
  <2>8. Owned(st', End(L, c.id, c.run, "rejected"), subs \ {c}, pos)
    BY <1>t, <1>c, <2>2, <2>4, <2>6, <2>7, OwnedEnded DEF Outcomes
  <2> QED BY <2>3, <2>5, <2>8
<1>2. CASE SubmitAccepted(c) /\ ~Valid(c)
  <2>1. /\ st' = ClearSubmitting(c.idx) /\ subs' = subs \ {c} /\ pos' = pos
        /\ runs' = End(runs, c.id, c.run, "abandoned")
    BY <1>2 DEF SubmitAccepted
  <2>2. SameRuns(st, st', pos) BY <1>s, <2>1 DEF Agree, Alike
  <2>3. Owned(st', End(runs, c.id, c.run, "abandoned"), subs \ {c}, pos)
    BY <1>t, <1>c, <2>2, OwnedEnded DEF Outcomes
  <2> QED BY <2>1, <2>3
<1>3. CASE SubmitAccepted(c) /\ Valid(c)
  <2>1. /\ st' = [ClearSubmitting(c.idx) EXCEPT ![c.id].run = c.run]
        /\ subs' = subs \ {c} /\ pos' = pos /\ runs' = runs
    BY <1>3 DEF SubmitAccepted
  <2>2. /\ st'[c.id].run = c.run
        /\ \A j \in Ids : j # c.id => st'[j] = ClearSubmitting(c.idx)[j]
    BY <1>c, <1>s, <2>1 DEF Slots, Slot
  <2>3. pos[c.id] # 0 BY <1>3 DEF Valid
  <2>4. \A j \in Ids : st'[j].run # 0 => pos[j] # 0 /\ Open(runs, j, st'[j].run)
    BY <1>c, <1>s, <2>2, <2>3 DEF Agree, Alike, SameRuns, Owned
  <2>5. \A j \in Ids : pos[j] = 0 => st'[j] = EmptySlot
    BY <1>s, <2>2, <2>3 DEF Agree, Alike, SameRuns, Owned
  <2>6. \A d \in subs \ {c} : d.id \in Ids /\ ~(d.id = c.id /\ d.run = c.run)
    BY <1>t DEF Owned, Calls
  <2>7. \A d \in subs \ {c} : Open(runs, d.id, d.run) /\ st'[d.id].run # d.run
    BY <1>s, <2>2, <2>6 DEF Agree, Alike, SameRuns, Owned
  <2>8. Owned(st', runs, subs \ {c}, pos) BY <2>4, <2>5, <2>7 DEF Owned
  <2> QED BY <2>1, <2>8
<1> QED BY <1>1, <1>2, <1>3

\* The end of the daemon empties its memory, and the ledger loses phases at most.
LEMMA DownFacts ==
  ASSUME Ending, runs \in Ledgers
  PROVE  /\ \A j \in Ids : st'[j] = EmptySlot
         /\ subs' = {} /\ polls' = {} /\ count' = 0 /\ up' = FALSE
         /\ pos' = pos /\ fresh' = fresh /\ boots' = boots
         /\ \A j \in Ids : DOMAIN runs'[j] = DOMAIN runs[j]
         /\ \A j \in Ids : \A k \in DOMAIN runs[j] :
              /\ runs'[j][k].ends = runs[j][k].ends
              /\ runs'[j][k].resync = runs[j][k].resync
              /\ runs'[j][k].phase \in {runs[j][k].phase, "lost"}
<1>1. PICK L : GoDown(L) /\ (L = runs \/ L = [j \in Ids |-> [k \in DOMAIN runs[j] |->
                                                [runs[j][k] EXCEPT !.phase = "lost"]]])
  BY DEF Ending, Stop, Crash
<1>2. /\ \A j \in Ids : st'[j] = EmptySlot
      /\ subs' = {} /\ polls' = {} /\ count' = 0 /\ up' = FALSE
      /\ pos' = pos /\ fresh' = fresh /\ boots' = boots /\ runs' = L
  BY <1>1 DEF GoDown
<1>3. ASSUME NEW j \in Ids PROVE DOMAIN L[j] = DOMAIN runs[j] BY <1>1
<1>4. ASSUME NEW j \in Ids, NEW k \in DOMAIN runs[j]
      PROVE  /\ L[j][k].ends = runs[j][k].ends /\ L[j][k].resync = runs[j][k].resync
             /\ L[j][k].phase \in {runs[j][k].phase, "lost"}
  <2>1. runs[j][k] \in Run BY DEF Ledgers
  <2>2. L[j][k] = runs[j][k] \/ L[j][k] = [runs[j][k] EXCEPT !.phase = "lost"] BY <1>1
  <2> QED BY <2>1, <2>2 DEF Run
<1> QED BY <1>2, <1>3, <1>4

\* Every step keeps the owners.
LEMMA NextOwned ==
  ASSUME TypeOK, Owned(st, runs, subs, pos), [Next]_vars
  PROVE  Owned(st', runs', subs', pos')
<1>t. /\ st \in Slots /\ runs \in Ledgers /\ subs \subseteq Calls /\ polls \subseteq Calls
      /\ stops \subseteq Calls /\ pos \in [Ids -> Nat] /\ fresh \subseteq Ids /\ count \in Nat
  BY TypeShape
<1>l. ASSUME NEW P, Launch(P), \A j \in Ids : P[j] = 0 => pos[j] = 0
      PROVE  Owned(st', runs', subs', P)
  <2>1. PICK slots \in Slots, due \in SUBSET Ids, trig \in Triggers :
          /\ Agree(st, slots, pos)
          /\ \E d : due \subseteq {d}
          /\ \A j \in due : P[j] # 0
          /\ OnRunJob(slots, runs, count, P, due, trig)
    BY <1>l DEF Launch
  <2>2. Owned(slots, runs, subs, pos) BY <1>t, <2>1, OwnedSame DEF Agree, Alike
  <2>3. Owned(slots, runs, subs, P) BY <1>l, <2>2, OwnedAdded
  <2> QED BY <1>t, <2>1, <2>3, OwnedLaunched
<1>1. CASE Quiet
  <2>1. Owned(st', runs, subs, pos) BY <1>t, <1>1, OwnedSame DEF Quiet, Agree, Alike
  <2> QED BY <1>1, <2>1 DEF Quiet
<1>a. CASE Asking
  <2>1. PICK j \in Ids : st' = [st EXCEPT ![j].pollBusy = TRUE] /\ pos[j] # 0
    BY <1>a DEF Asking
  <2>2. SameRuns(st, st', pos) BY <1>t, <2>1 DEF SameRuns, Slots, Slot
  <2>3. runs' = runs /\ subs' = subs /\ pos' = pos BY <1>a DEF Asking
  <2> QED BY <1>t, <2>2, <2>3, OwnedSame
<1>b. CASE Replying
  <2>1. Owned(st', runs, subs, pos) BY <1>t, <1>b, OwnedSame DEF Replying, Alike
  <2> QED BY <1>b, <2>1 DEF Replying
<1>2. CASE Starting BY <1>2, <1>l DEF Starting
<1>3. CASE Adding
  <2>1. PICK j \in fresh : pos' = [pos EXCEPT ![j] = Size + 1] /\ Launch(pos')
    BY <1>3 DEF Adding
  <2>2. Size \in Nat BY SetsAssumption, FS_Subset, FS_CardinalityType DEF Size
  <2>3. \A i \in Ids : pos'[i] = 0 => pos[i] = 0 BY <1>t, <2>1, <2>2
  <2> QED BY <1>l, <2>1, <2>3
<1>4. CASE Booting BY <1>4, <1>l DEF Booting
<1>5. CASE Completing
  <2>1. PICK c \in polls, slots \in Slots, outcome \in Outcomes, nobase \in BOOLEAN :
          /\ Concerns(c) /\ Alike(st, slots, pos) /\ pos' = pos
          /\ OnJobCompleted(slots, runs, c, outcome, nobase)
    BY <1>5 DEF Completing
  <2>2. c \in Calls /\ c.id \in Ids BY <1>t DEF Calls
  <2>3. Owned(slots, runs, subs, pos) BY <1>t, <2>1, OwnedSame DEF Agree, Alike
  <2>4. Valid(c) /\ slots[c.id].run # 0 BY <2>1, <2>2 DEF Concerns, Agree, Alike, SameRuns
  <2> QED BY <2>1, <2>2, <2>3, <2>4, CompletedOwned
<1>6. CASE Stopping
  <2>1. PICK c \in stops :
          /\ Concerns(c) /\ pos' = pos /\ subs' = subs
          /\ st' = [st EXCEPT ![c.id].run = 0, ![c.id].running = FALSE]
          /\ runs' = End(runs, c.id, st[c.id].run, "stopped")
    BY <1>6 DEF Stopping
  <2>2. c.id \in Ids /\ pos[c.id] # 0 /\ st[c.id].run # 0
    BY <1>t, <2>1 DEF Calls, Concerns, Valid
  <2>3. /\ \A i \in Ids : i # c.id => st'[i] = st[i]
        /\ st'[c.id].run = 0
    BY <1>t, <2>1, <2>2 DEF Slots, Slot
  <2>4. Open(runs, c.id, st[c.id].run) BY <2>2 DEF Owned
  <2>5. Owned(st', End(runs, c.id, st[c.id].run, "stopped"), subs, pos)
    BY <1>t, <2>2, <2>3, <2>4, OwnedEnded DEF Outcomes
  <2> QED BY <2>1, <2>5
<1>7. CASE RcdMoves
  <2>1. PICK j \in Ids, p \in Phases : \E k \in DOMAIN runs[j] :
          /\ runs' = [runs EXCEPT ![j][k].phase = p]
          /\ UNCHANGED <<st, subs, pos>>
    BY <1>7 DEF RcdMoves
  <2>2. PICK k \in DOMAIN runs[j] :
          runs' = [runs EXCEPT ![j][k].phase = p] /\ UNCHANGED <<st, subs, pos>>
    BY <2>1
  <2>3. /\ \A i \in Ids : DOMAIN runs'[i] = DOMAIN runs[i]
        /\ \A i \in Ids : \A m \in DOMAIN runs[i] : runs'[i][m].ends = runs[i][m].ends
    BY <1>t, <2>2, PhaseFacts
  <2>4. Owned(st, runs', subs, pos) BY <1>t, <2>3, OwnedSame, AgreeSelf DEF Agree, Alike
  <2> QED BY <2>2, <2>4
<1>8. CASE Ending
  <2>1. /\ \A j \in Ids : st'[j] = EmptySlot
        /\ subs' = {} /\ pos' = pos
        /\ \A j \in Ids : DOMAIN runs'[j] = DOMAIN runs[j]
        /\ \A j \in Ids : \A k \in DOMAIN runs[j] : runs'[j][k].ends = runs[j][k].ends
    BY <1>8, <1>t, DownFacts
  <2>2. \A j \in Ids : st'[j].run = 0 BY <2>1 DEF EmptySlot
  <2> QED BY <2>1, <2>2 DEF Owned
<1>9. ASSUME NEW j \in Ids, DeleteJob(j) PROVE Owned(st', runs', subs', pos')
  <2>1. /\ st' = NoPending([st EXCEPT ![j] = EmptySlot]) /\ pos' = Erase(j)
        /\ subs' = subs /\ runs' = runs /\ pos[j] # 0
    BY <1>9 DEF DeleteJob, InList
  <2>2. /\ pos'[j] = 0
        /\ \A i \in Ids : i # j => (pos'[i] = 0 <=> pos[i] = 0)
    BY <1>t, <2>1 DEF Erase
  <2>3. [st EXCEPT ![j] = EmptySlot] \in Slots BY <1>t DEF Slots, Slot, EmptySlot
  <2>4. Agree([st EXCEPT ![j] = EmptySlot], st', pos') BY <2>1, <2>3, PendingAgrees
  <2>5. Owned([st EXCEPT ![j] = EmptySlot], runs, subs, pos')
    <3> DEFINE b == [st EXCEPT ![j] = EmptySlot]
    <3>1. b[j] = EmptySlot /\ \A i \in Ids : i # j => b[i] = st[i] BY <1>t DEF Slots
    <3>2. b[j].run = 0 BY <3>1 DEF EmptySlot
    <3>3. \A c \in subs : c.id \in Ids /\ c.run # 0 BY <1>t DEF Owned, Open, Calls, Ledgers
    <3> HIDE DEF b
    <3>4. \A i \in Ids : b[i].run # 0 => pos'[i] # 0 /\ Open(runs, i, b[i].run)
      BY <2>2, <3>1, <3>2 DEF Owned
    <3>5. \A i \in Ids : pos'[i] = 0 => b[i] = EmptySlot BY <2>2, <3>1 DEF Owned
    <3>6. \A c \in subs : Open(runs, c.id, c.run) /\ b[c.id].run # c.run
      BY <3>1, <3>2, <3>3 DEF Owned
    <3> QED BY <3>4, <3>5, <3>6 DEF Owned, b
  <2>6. Owned(st', runs, subs, pos') BY <1>t, <2>4, <2>5, OwnedSame DEF Agree, Alike
  <2> QED BY <2>1, <2>6
<1>10. ASSUME NEW c \in subs, SubmitFailed(c) \/ SubmitAccepted(c)
       PROVE  Owned(st', runs', subs', pos')
  BY <1>10, SubmitOwned
<1> QED BY <1>1, <1>a, <1>b, <1>2, <1>3, <1>4, <1>5, <1>6, <1>7, <1>8, <1>9, <1>10, EveryStep
        DEF StepKind

\* At the start nobody owns anything.
LEMMA InitOwned == Init => Owned(st, runs, subs, pos)
<1> SUFFICES ASSUME Init PROVE Owned(st, runs, subs, pos)
  OBVIOUS
<1>1. /\ \A j \in Ids : st[j] = EmptySlot /\ runs[j] = <<>>
      /\ subs = {}
  BY DEF Init
<1>2. \A j \in Ids : st[j].run = 0 BY <1>1 DEF EmptySlot
<1> QED BY <1>1, <1>2 DEF Owned

\* The owners, with the types that make the invariant inductive
OwnerInv == TypeOK /\ Owned(st, runs, subs, pos)

LEMMA OwnerAlways == Spec => []OwnerInv
<1>1. Init => OwnerInv BY InitType, InitOwned DEF OwnerInv
<1>2. OwnerInv /\ [Next]_vars => OwnerInv'
  <2> SUFFICES ASSUME OwnerInv, [Next]_vars PROVE OwnerInv'
    OBVIOUS
  <2>1. TypeOK' BY NextType DEF OwnerInv
  <2>2. Owned(st', runs', subs', pos') BY NextOwned DEF OwnerInv
  <2> QED BY <2>1, <2>2 DEF OwnerInv
<1> QED BY <1>1, <1>2, PTL DEF Spec

\* However jobs are added, edited and deleted under outstanding calls, a slot
\* tracks a run of its own job that has not ended, and a job that has left the
\* list leaves nothing behind that could act for it: the captured index and uuid
\* of every callback are enough.
THEOREM SlotsOwnTheirRuns == Spec => []SlotOwnsRun
<1>1. OwnerInv => SlotOwnsRun
  BY DEF OwnerInv, Owned, Open, SlotOwnsRun, InList
<1> QED BY <1>1, OwnerAlways, PTL

\* Whatever stops, verdicts, submission errors and deletions race for a run,
\* one of them at most ends it.
THEOREM RunsEndOnce == Spec => []OutcomeOnce
<1>1. OwnerInv => OutcomeOnce BY DEF OwnerInv, Owned, OutcomeOnce
<1> QED BY <1>1, OwnerAlways, PTL

-----------------------------------------------------------------------------
(* At most one --resync in a life of the daemon *)

\* The runs of job j for which rcd was asked to resync
Resyncs(L, j) == {k \in DOMAIN L[j] : L[j][k].resync}

Bit(b) == IF b = TRUE THEN 1 ELSE 0

\* For a job of the list, a resync that was or is to be asked for is paid by
\* the single-shot guard of its slot, or by a restart, which clears the guard.
Paid(slots, L, P, b) ==
  \A j \in Ids : P[j] # 0 =>
    Cardinality(Resyncs(L, j)) + Bit(slots[j].resync) <= b + Bit(slots[j].resyncTried)

Within(L, b) == \A j \in Ids : Cardinality(Resyncs(L, j)) <= b + 1

\* A uuid that no job has had yet has no place and no runs; a daemon that is
\* down has no work.
Unused == \A j \in fresh : pos[j] = 0 /\ DOMAIN runs[j] = {}
Memoryless == ~up => \A j \in Ids : st[j] = EmptySlot

ResyncInv ==
  OwnerInv /\ Unused /\ Memoryless /\ Within(runs, boots) /\ (up => Paid(st, runs, pos, boots))

\* The runs of a job are finitely many, ...
LEMMA ResyncsFinite ==
  ASSUME NEW L \in Ledgers, NEW j \in Ids
  PROVE  IsFiniteSet(Resyncs(L, j)) /\ Cardinality(Resyncs(L, j)) \in Nat
<1>1. L[j] \in Seq(Run) BY DEF Ledgers
<1>2. Resyncs(L, j) \subseteq 1..Len(L[j]) /\ Len(L[j]) \in Nat BY <1>1 DEF Resyncs
<1>3. IsFiniteSet(1..Len(L[j])) BY <1>2, FS_Interval
<1>4. IsFiniteSet(Resyncs(L, j)) BY <1>2, <1>3, FS_Subset
<1> QED BY <1>4, FS_CardinalityType

\* M is L with one more run, e, of job d.
Extends(M, L, d, e) == M = [L EXCEPT ![d] = Append(L[d], e)]

\* The resyncs of the ledgers M and L differ by e, a run of d.
Counted(M, L, d, e) ==
  /\ Cardinality(Resyncs(M, d)) = Cardinality(Resyncs(L, d)) + Bit(e.resync)
  /\ \A j \in Ids : j # d => Resyncs(M, j) = Resyncs(L, j)

\* ... and one that is begun counts if it resyncs.
LEMMA ResyncsAppended ==
  ASSUME NEW L \in Ledgers, NEW d \in Ids, NEW e \in Run, NEW M, Extends(M, L, d, e)
  PROVE  Counted(M, L, d, e)
<1> DEFINE r == Len(L[d]) + 1
<1>m. M = [L EXCEPT ![d] = Append(L[d], e)] BY DEF Extends
<1>1. L[d] \in Seq(Run) /\ DOMAIN L = Ids /\ e.resync \in BOOLEAN BY DEF Ledgers, Run
<1>2. /\ DOMAIN M[d] = DOMAIN L[d] \cup {r} /\ r \notin DOMAIN L[d]
      /\ \A k \in DOMAIN L[d] : M[d][k] = L[d][k]
      /\ M[d][r] = e
  BY <1>1, <1>m, AppendFacts
<1>3. r \notin Resyncs(L, d) BY <1>2 DEF Resyncs
<1>f. IsFiniteSet(Resyncs(L, d)) /\ Cardinality(Resyncs(L, d)) \in Nat BY ResyncsFinite
<1>o. ASSUME NEW j \in Ids, j # d PROVE Resyncs(M, j) = Resyncs(L, j)
  <2>1. M[j] = L[j] BY <1>1, <1>m, <1>o
  <2> QED BY <2>1 DEF Resyncs
<1> HIDE DEF r
<1>4. CASE e.resync = TRUE
  <2>1. Resyncs(M, d) = Resyncs(L, d) \cup {r} BY <1>2, <1>4 DEF Resyncs
  <2>2. Cardinality(Resyncs(L, d) \cup {r}) = Cardinality(Resyncs(L, d)) + 1
    BY <1>3, <1>f, FS_AddElement
  <2>3. Bit(e.resync) = 1 BY <1>4 DEF Bit
  <2>4. Cardinality(Resyncs(M, d)) = Cardinality(Resyncs(L, d)) + Bit(e.resync)
    BY <2>1, <2>2, <2>3
  <2> QED BY Zenon, <1>o, <2>4 DEF Counted
<1>5. CASE e.resync = FALSE
  <2>1. Resyncs(M, d) = Resyncs(L, d) BY <1>2, <1>5 DEF Resyncs
  <2>3. Bit(e.resync) = 0 BY <1>5 DEF Bit
  <2>4. Cardinality(Resyncs(M, d)) = Cardinality(Resyncs(L, d)) + Bit(e.resync)
    BY <1>f, <2>1, <2>3
  <2> QED BY Zenon, <1>o, <2>4 DEF Counted
<1> QED BY <1>1, <1>4, <1>5

\* What keeps the flags and the resyncs of the ledger keeps the balance.
LEMMA PaidSame ==
  ASSUME NEW a, NEW slots, NEW L, NEW M, NEW P, NEW b, Paid(a, L, P, b),
         \A j \in Ids : a[j].resync = slots[j].resync /\ a[j].resyncTried = slots[j].resyncTried,
         \A j \in Ids : DOMAIN M[j] = DOMAIN L[j],
         \A j \in Ids : \A k \in DOMAIN L[j] : M[j][k].resync = L[j][k].resync
  PROVE  Paid(slots, M, P, b)
<1>1. \A j \in Ids : Resyncs(M, j) = Resyncs(L, j) BY DEF Resyncs
<1> QED BY <1>1 DEF Paid

\* A launched run takes the flag of its slot with it.
LEMMA PaidLaunched ==
  ASSUME NEW slots \in Slots, NEW L \in Ledgers, NEW n \in Nat, NEW P,
         NEW due \in SUBSET Ids, NEW d, due \subseteq {d}, \A j \in due : P[j] # 0,
         NEW trig \in Triggers, NEW b \in Nat, Paid(slots, L, P, b),
         OnRunJob(slots, L, n, P, due, trig)
  PROVE  Paid(st', runs', P, b)
<1>1. CASE Skipped(slots, L, n) BY <1>1 DEF Skipped
<1>2. ASSUME d \in due, Begun(slots, L, n, P, d, trig) PROVE Paid(st', runs', P, b)
  <2> DEFINE s == [slots[d] EXCEPT !.submitting = TRUE, !.running = TRUE, !.resync = FALSE]
             e == NewRun(trig, slots[d].resync)
  <2>1. /\ d \in Ids /\ st' = [slots EXCEPT ![d] = s]
        /\ runs' = [L EXCEPT ![d] = Append(L[d], e)] /\ e \in Run
    BY <1>2 DEF Begun
  <2>2. slots[d] \in Slot /\ e.resync = slots[d].resync BY <2>1 DEF Slots, NewRun
  <2>3. s.resync = FALSE /\ s.resyncTried = slots[d].resyncTried BY <2>2 DEF Slot
  <2>4. slots[d].resync \in BOOLEAN /\ slots[d].resyncTried \in BOOLEAN BY <2>2 DEF Slot
  <2> HIDE DEF s, e
  <2>e. Extends(runs', L, d, e) BY <2>1 DEF Extends
  <2>5. /\ Cardinality(Resyncs(runs', d)) = Cardinality(Resyncs(L, d)) + Bit(e.resync)
        /\ \A j \in Ids : j # d => Resyncs(runs', j) = Resyncs(L, j)
    <3>1. Counted(runs', L, d, e) BY Zenon, <2>1, <2>e, ResyncsAppended
    <3> QED BY Zenon, <3>1 DEF Counted
  <2>6. st'[d] = s /\ \A j \in Ids : j # d => st'[j] = slots[j] BY <2>1 DEF Slots
  <2>7. Cardinality(Resyncs(L, d)) \in Nat BY <2>1, ResyncsFinite
  <2>8. Cardinality(Resyncs(L, d)) + Bit(slots[d].resync) <= b + Bit(slots[d].resyncTried)
    BY <1>2, <2>1 DEF Paid
  <2>9. Cardinality(Resyncs(runs', d)) + Bit(s.resync) <= b + Bit(s.resyncTried)
    BY <2>2, <2>3, <2>4, <2>5, <2>7, <2>8 DEF Bit
  <2> QED BY <1>2, <2>5, <2>6, <2>9 DEF Paid
<1> QED BY <1>1, <1>2, LaunchFacts

\* The resync retry sets the guard with the flag.
LEMMA CompletedPaid ==
  ASSUME TypeOK, NEW slots \in Slots, Owned(slots, runs, subs, pos),
         Paid(slots, runs, pos, boots),
         NEW c \in Calls, Valid(c), slots[c.id].run # 0,
         NEW outcome \in Outcomes, NEW nobase,
         OnJobCompleted(slots, runs, c, outcome, nobase)
  PROVE  Paid(st', runs', pos, boots)
<1> DEFINE claimed == [slots EXCEPT ![c.id] = Claim(@)]
           ended   == End(runs, c.id, slots[c.id].run, outcome)
<1>t. runs \in Ledgers /\ subs \subseteq Calls /\ count \in Nat /\ boots \in Nat BY TypeShape
<1>c. c.id \in Ids /\ pos[c.id] # 0 /\ slots[c.id] \in Slot BY DEF Calls, Valid, Slots
<1>0. Claim(slots[c.id]) \in Slot BY <1>c DEF Claim, Slot
<1>1. /\ claimed \in Slots
      /\ \A i \in Ids : claimed[i].resync = slots[i].resync
                        /\ claimed[i].resyncTried = slots[i].resyncTried
  BY <1>c, <1>0 DEF Claim, Slots, Slot
<1>2. ended \in Ledgers BY <1>c, <1>t, EndInLedgers
<1>n. Dec(count) \in Nat BY <1>t DEF Dec
<1>5. \/ ResyncRetry(claimed, ended, c) /\ ~slots[c.id].resyncTried
      \/ BackoffRetry(claimed, ended, c)
      \/ FinalVerdict(claimed, ended, c)
  BY DEF OnJobCompleted
<1>o. slots[c.id].run \in DOMAIN runs[c.id] BY <1>c DEF Owned, Open
<1>e. /\ \A j \in Ids : DOMAIN ended[j] = DOMAIN runs[j]
      /\ \A j \in Ids : \A k \in DOMAIN runs[j] : ended[j][k].resync = runs[j][k].resync
  BY <1>t, <1>c, <1>o, EndFacts
<1> HIDE DEF claimed, ended
<1>s. ASSUME NEW b, \A i \in Ids : b[i].resync = claimed[i].resync
                                   /\ b[i].resyncTried = claimed[i].resyncTried
      PROVE  Paid(b, ended, pos, boots)
  <2>1. \A i \in Ids : slots[i].resync = b[i].resync /\ slots[i].resyncTried = b[i].resyncTried
    BY <1>1, <1>s
  <2>2. \A j \in Ids : Resyncs(ended, j) = Resyncs(runs, j) BY <1>e DEF Resyncs
  <2> QED BY <2>1, <2>2 DEF Paid
<1>6. CASE ResyncRetry(claimed, ended, c) /\ ~slots[c.id].resyncTried
  <2>1. /\ \A i \in Ids : i # c.id => st'[i] = claimed[i]
        /\ st'[c.id].resync = TRUE /\ st'[c.id].resyncTried = TRUE
    BY <1>c, <1>1, <1>6 DEF ResyncRetry, Slots, Slot
  <2>2. Paid(claimed, ended, pos, boots) BY <1>s
  <2>3. claimed[c.id].resyncTried = FALSE /\ claimed[c.id].resync \in BOOLEAN
    BY <1>c, <1>1, <1>6 DEF Slots, Slot
  <2>4. Cardinality(Resyncs(ended, c.id)) \in Nat BY <1>c, <1>2, ResyncsFinite
  <2>5. Cardinality(Resyncs(ended, c.id)) <= boots
    BY <1>c, <1>t, <2>2, <2>3, <2>4 DEF Paid, Bit
  <2>6. Cardinality(Resyncs(ended, c.id)) + Bit(st'[c.id].resync)
          <= boots + Bit(st'[c.id].resyncTried)
    BY <1>t, <2>1, <2>4, <2>5 DEF Bit
  <2>7. Paid(st', ended, pos, boots) BY <1>c, <2>1, <2>2, <2>6 DEF Paid
  <2>8. runs' = ended BY <1>6 DEF ResyncRetry
  <2> QED BY <2>7, <2>8
<1>7. CASE BackoffRetry(claimed, ended, c)
  <2>1. \A i \in Ids : st'[i].resync = claimed[i].resync
                       /\ st'[i].resyncTried = claimed[i].resyncTried
    BY <1>c, <1>1, <1>7 DEF BackoffRetry, Slots, Slot
  <2>2. runs' = ended BY <1>7 DEF BackoffRetry
  <2> QED BY <1>s, <2>1, <2>2
<1>8. CASE FinalVerdict(claimed, ended, c)
  <2> DEFINE e == [claimed[c.id] EXCEPT !.retries = 0, !.running = FALSE]
             done == [claimed EXCEPT ![c.id].retries = 0, ![c.id].running = FALSE]
  <2>1. PICK due \in {d \in DueSets(pos, sched) : d \subseteq {c.id}} :
          OnRunJob(done, ended, Dec(count), pos, due, "sched")
    BY <1>8 DEF FinalVerdict
  <2>2. claimed[c.id] \in Slot BY <1>c, <1>1 DEF Slots
  <2>3. /\ e \in Slot /\ e.resync = claimed[c.id].resync
        /\ e.resyncTried = claimed[c.id].resyncTried
    BY <2>2 DEF Slot
  <2>4. done = [claimed EXCEPT ![c.id] = e] BY <1>c, <1>1 DEF Slots
  <2> HIDE DEF done, e
  <2>5. /\ done \in Slots
        /\ \A i \in Ids : done[i].resync = claimed[i].resync
                          /\ done[i].resyncTried = claimed[i].resyncTried
    BY <1>1, <2>3, <2>4 DEF Slots
  <2>6. Paid(done, ended, pos, boots) BY <1>s, <2>5
  <2>7. due \in SUBSET Ids /\ due \subseteq {c.id} /\ \A j \in due : pos[j] # 0 BY <1>c
  <2> QED BY <1>t, <1>2, <1>n, <2>1, <2>5, <2>6, <2>7, PaidLaunched DEF Triggers
<1> QED BY <1>5, <1>6, <1>7, <1>8

\* Runs are begun, and their flags are written, for the jobs of the list only.
SameLog(L, M, j) == DOMAIN M[j] = DOMAIN L[j] /\ Resyncs(M, j) = Resyncs(L, j)

\* A launch begins a run of a job of the list.
LEMMA LaunchLogs ==
  ASSUME TypeOK, NEW P, Launch(P)
  PROVE  \A j \in Ids : P[j] = 0 => SameLog(runs, runs', j)
<1>1. PICK slots \in Slots, due \in SUBSET Ids, trig \in Triggers :
        /\ \A j \in due : P[j] # 0
        /\ OnRunJob(slots, runs, count, P, due, trig)
  BY DEF Launch
<1>2. \A j \in Ids : j \notin due => runs'[j] = runs[j]
  BY <1>1 DEF OnRunJob, Going
<1> QED BY <1>1, <1>2 DEF SameLog, Resyncs

\* A ledger whose runs keep their flags
LEMMA FlagsLog ==
  ASSUME NEW L, NEW M, \A j \in Ids : DOMAIN M[j] = DOMAIN L[j],
         \A j \in Ids : \A k \in DOMAIN L[j] : M[j][k].resync = L[j][k].resync
  PROVE  \A j \in Ids : SameLog(L, M, j)
BY DEF SameLog, Resyncs

\* Ending a run ...
LEMMA EndLog ==
  ASSUME NEW L \in Ledgers, NEW x \in Ids, NEW r, Open(L, x, r), NEW o \in Outcomes
  PROVE  \A j \in Ids : SameLog(L, End(L, x, r, o), j)
<1> DEFINE M == End(L, x, r, o)
<1>1. r \in DOMAIN L[x] BY DEF Open
<1>2. /\ \A j \in Ids : DOMAIN M[j] = DOMAIN L[j]
      /\ \A j \in Ids : j # x => M[j] = L[j]
      /\ \A k \in DOMAIN L[x] : k # r => M[x][k] = L[x][k]
      /\ M[x][r].resync = L[x][r].resync
  BY <1>1, EndFacts
<1> HIDE DEF M
<1>3. \A j \in Ids : \A k \in DOMAIN L[j] : M[j][k].resync = L[j][k].resync
  BY <1>1, <1>2
<1>4. \A j \in Ids : SameLog(L, M, j) BY <1>2, <1>3, FlagsLog
<1> QED BY <1>4 DEF M

\* ... or moving it to another phase keeps its flag, ...
LEMMA PhaseLog ==
  ASSUME NEW L \in Ledgers, NEW x \in Ids, NEW r \in DOMAIN L[x], NEW p \in Phases
  PROVE  \A j \in Ids : SameLog(L, [L EXCEPT ![x][r].phase = p], j)
<1> DEFINE M == [L EXCEPT ![x][r].phase = p]
<1>2. /\ \A j \in Ids : DOMAIN M[j] = DOMAIN L[j]
      /\ \A j \in Ids : j # x => M[j] = L[j]
      /\ \A k \in DOMAIN L[x] : k # r => M[x][k] = L[x][k]
      /\ M[x][r].resync = L[x][r].resync
  BY PhaseFacts
<1> HIDE DEF M
<1>3. \A j \in Ids : \A k \in DOMAIN L[j] : M[j][k].resync = L[j][k].resync
  BY <1>2
<1>4. \A j \in Ids : SameLog(L, M, j) BY <1>2, <1>3, FlagsLog
<1> QED BY <1>4 DEF M

\* ... and so does the answer to its start request.
LEMMA AnswerLog ==
  ASSUME TypeOK, Owned(st, runs, subs, pos), NEW c \in subs,
         SubmitFailed(c) \/ SubmitAccepted(c)
  PROVE  \A j \in Ids : SameLog(runs, runs', j)
<1>t. runs \in Ledgers /\ subs \subseteq Calls BY TypeShape
<1>c. c.id \in Ids /\ Open(runs, c.id, c.run) /\ c.run \in DOMAIN runs[c.id]
  BY <1>t DEF Calls, Owned, Open
<1>1. CASE SubmitFailed(c)
  <2>1. PICK p \in Phases :
          runs' = End([runs EXCEPT ![c.id][c.run].phase = p], c.id, c.run, "rejected")
    BY <1>1 DEF SubmitFailed
  <2> DEFINE L == [runs EXCEPT ![c.id][c.run].phase = p]
  <2>2. L \in Ledgers BY <1>t, <1>c, PhaseInLedgers
  <2>3. \A j \in Ids : SameLog(runs, L, j) BY <1>t, <1>c, PhaseLog
  <2>4. Open(L, c.id, c.run) BY <1>t, <1>c, PhaseFacts DEF Open
  <2>5. runs' = End(L, c.id, c.run, "rejected") BY <2>1
  <2> HIDE DEF L
  <2>6. \A j \in Ids : SameLog(L, runs', j) BY <1>c, <2>2, <2>4, <2>5, EndLog DEF Outcomes
  <2> QED BY <2>3, <2>6 DEF SameLog
<1>2. CASE SubmitAccepted(c)
  <2>1. runs' = runs \/ runs' = End(runs, c.id, c.run, "abandoned")
    BY <1>2 DEF SubmitAccepted
  <2>2. \A j \in Ids : SameLog(runs, runs, j) BY DEF SameLog
  <2> QED BY <1>t, <1>c, <2>1, <2>2, EndLog DEF Outcomes
<1> QED BY <1>1, <1>2

\* What becomes of the log of a job that is not in the list: nothing.
LEMMA NextLogs ==
  ASSUME OwnerInv, [Next]_vars
  PROVE  \A j \in Ids : SameLog(runs, runs', j) \/ (up' = TRUE /\ pos'[j] # 0)
<1>t. /\ TypeOK /\ st \in Slots /\ runs \in Ledgers /\ subs \subseteq Calls
      /\ polls \subseteq Calls /\ stops \subseteq Calls
      /\ Owned(st, runs, subs, pos) /\ up \in BOOLEAN
  BY TypeShape DEF OwnerInv
<1>1. CASE Quiet \/ Asking \/ Replying
  <2>1. runs' = runs BY <1>1 DEF Quiet, Asking, Replying
  <2> QED BY <2>1 DEF SameLog
<1>2. CASE Starting
  <2>1. \A j \in Ids : pos[j] = 0 => SameLog(runs, runs', j)
    BY <1>2, <1>t, LaunchLogs DEF Starting
  <2> QED BY <1>2, <1>t, <2>1 DEF Starting
<1>3. CASE Adding
  <2>1. \A j \in Ids : pos'[j] = 0 => SameLog(runs, runs', j)
    BY <1>3, <1>t, LaunchLogs DEF Adding
  <2> QED BY <1>3, <1>t, <2>1 DEF Adding
<1>4. CASE Booting
  <2>1. \A j \in Ids : pos[j] = 0 => SameLog(runs, runs', j)
    BY <1>4, <1>t, LaunchLogs DEF Booting
  <2> QED BY <1>4, <1>t, <2>1 DEF Booting
<1>5. CASE Completing
  <2>1. PICK c \in polls, slots \in Slots, outcome \in Outcomes, nobase \in BOOLEAN :
          /\ up /\ up' = up /\ pos' = pos /\ Concerns(c)
          /\ OnJobCompleted(slots, runs, c, outcome, nobase)
    BY <1>5 DEF Completing
  <2>2. c.id \in Ids /\ pos[c.id] # 0 BY <1>t, <2>1 DEF Calls, Concerns, Valid
  <2> DEFINE claimed == [slots EXCEPT ![c.id] = Claim(@)]
             ended   == End(runs, c.id, slots[c.id].run, outcome)
  <2>3. \A j \in Ids : j # c.id => ended[j] = runs[j] BY <1>t DEF End, Ledgers
  <2>4. \/ ResyncRetry(claimed, ended, c)
        \/ BackoffRetry(claimed, ended, c)
        \/ FinalVerdict(claimed, ended, c)
    BY <2>1 DEF OnJobCompleted
  <2> HIDE DEF claimed, ended
  <2>5. CASE FinalVerdict(claimed, ended, c)
    <3>1. PICK due \in {d \in DueSets(pos, sched) : d \subseteq {c.id}} :
            OnRunJob([claimed EXCEPT ![c.id].retries = 0, ![c.id].running = FALSE], ended,
                     Dec(count), pos, due, "sched")
      BY <2>5 DEF FinalVerdict
    <3>2. \A j \in Ids : j \notin due => runs'[j] = ended[j]
      BY <3>1 DEF OnRunJob, Going
    <3> QED BY <2>1, <2>2, <2>3, <3>2, <1>t DEF SameLog, Resyncs
  <2>6. CASE ResyncRetry(claimed, ended, c) \/ BackoffRetry(claimed, ended, c)
    <3>1. runs' = ended BY <2>6 DEF ResyncRetry, BackoffRetry
    <3> QED BY <2>1, <2>2, <2>3, <3>1, <1>t DEF SameLog, Resyncs
  <2> QED BY <2>4, <2>5, <2>6
<1>6. CASE Stopping
  <2>1. PICK c \in stops : Concerns(c) /\ runs' = End(runs, c.id, st[c.id].run, "stopped")
    BY <1>6 DEF Stopping
  <2>2. c.id \in Ids /\ Open(runs, c.id, st[c.id].run)
    BY <1>t, <2>1 DEF Calls, Concerns, Owned
  <2> QED BY <1>t, <2>1, <2>2, EndLog DEF Outcomes
<1>7. CASE RcdMoves
  <2>1. PICK j \in Ids, p \in Phases : \E k \in DOMAIN runs[j] :
          runs' = [runs EXCEPT ![j][k].phase = p]
    BY <1>7 DEF RcdMoves
  <2>2. PICK k \in DOMAIN runs[j] : runs' = [runs EXCEPT ![j][k].phase = p] BY <2>1
  <2> QED BY <1>t, <2>2, PhaseLog
<1>8. CASE Ending BY <1>8, <1>t, DownFacts, FlagsLog
<1>9. ASSUME NEW d \in Ids, DeleteJob(d) PROVE \A j \in Ids : SameLog(runs, runs', j)
  BY <1>9 DEF DeleteJob, SameLog, Resyncs
<1>10. ASSUME NEW c \in subs, SubmitFailed(c) \/ SubmitAccepted(c)
       PROVE  \A j \in Ids : SameLog(runs, runs', j)
  BY <1>t, <1>10, AnswerLog
<1> QED BY <1>t, <1>1, <1>2, <1>3, <1>4, <1>5, <1>6, <1>7, <1>8, <1>9, <1>10, EveryStep
        DEF StepKind

\* A launch keeps the balance of the list P.
LEMMA LaunchPaid ==
  ASSUME TypeOK, NEW P, Launch(P), NEW b \in Nat, Paid(st, runs, P, b)
  PROVE  Paid(st', runs', P, b)
<1>1. PICK slots \in Slots, due \in SUBSET Ids, trig \in Triggers :
        /\ Agree(st, slots, pos)
        /\ \E d : due \subseteq {d}
        /\ \A j \in due : P[j] # 0
        /\ OnRunJob(slots, runs, count, P, due, trig)
  BY DEF Launch
<1>2. PICK d : due \subseteq {d} BY <1>1
<1>3. Paid(slots, runs, P, b) BY <1>1, PaidSame DEF Agree, Alike
<1>4. runs \in Ledgers /\ count \in Nat BY TypeShape
<1> QED BY <1>1, <1>2, <1>3, <1>4, PaidLaunched

\* A job without resyncs and without the flag owes nothing.
LEMMA PaidUnused ==
  ASSUME NEW j, NEW slots, NEW L, NEW b \in Nat, slots[j] = EmptySlot, DOMAIN L[j] = {}
  PROVE  Cardinality(Resyncs(L, j)) + Bit(slots[j].resync) <= b + Bit(slots[j].resyncTried)
<1>1. Resyncs(L, j) = {} BY DEF Resyncs
<1>2. Cardinality(Resyncs(L, j)) = 0 BY <1>1, FS_EmptySet
<1>3. Bit(slots[j].resync) = 0 /\ Bit(slots[j].resyncTried) = 0 BY DEF EmptySlot, Bit
<1> QED BY <1>2, <1>3

\* A boot pays for one resync of every job, and the guards are clear again.
LEMMA BootPays ==
  ASSUME NEW slots, NEW L \in Ledgers, NEW P, NEW b \in Nat, Within(L, b),
         \A j \in Ids : slots[j] = EmptySlot
  PROVE  Paid(slots, L, P, b + 1)
<1> SUFFICES ASSUME NEW j \in Ids
             PROVE  Cardinality(Resyncs(L, j)) + Bit(slots[j].resync)
                      <= (b + 1) + Bit(slots[j].resyncTried)
  BY DEF Paid
<1>1. Bit(slots[j].resync) = 0 /\ Bit(slots[j].resyncTried) = 0 BY DEF EmptySlot, Bit
<1>2. Cardinality(Resyncs(L, j)) \in Nat BY ResyncsFinite
<1> QED BY <1>1, <1>2 DEF Within

\* What is paid is within the bound.
LEMMA PaidWithin ==
  ASSUME NEW slots, NEW L \in Ledgers, NEW P, NEW b \in Nat, Paid(slots, L, P, b),
         NEW j \in Ids, P[j] # 0
  PROVE  Cardinality(Resyncs(L, j)) <= b + 1
<1>1. /\ Bit(slots[j].resync) \in {0, 1} /\ Bit(slots[j].resyncTried) \in {0, 1}
      /\ Cardinality(Resyncs(L, j)) \in Nat
  BY ResyncsFinite DEF Bit
<1> QED BY <1>1 DEF Paid

\* The balance is kept by every step after which the daemon is up.
LEMMA NextPaid ==
  ASSUME ResyncInv, [Next]_vars, up'
  PROVE  Paid(st', runs', pos', boots')
<1>t. /\ TypeOK /\ st \in Slots /\ runs \in Ledgers /\ subs \subseteq Calls /\ fresh \subseteq Ids
      /\ polls \subseteq Calls /\ stops \subseteq Calls /\ boots \in Nat /\ pos \in [Ids -> Nat]
      /\ Owned(st, runs, subs, pos) /\ (up => Paid(st, runs, pos, boots))
  BY TypeShape DEF ResyncInv, OwnerInv
<1>s. ASSUME up, \A j \in Ids : SameLog(runs, runs', j), boots' = boots,
             \A j \in Ids : pos'[j] # 0 => /\ pos[j] # 0 /\ st'[j].resync = st[j].resync
                                           /\ st'[j].resyncTried = st[j].resyncTried
      PROVE  Paid(st', runs', pos', boots')
  BY <1>s, <1>t DEF Paid, SameLog
<1>l. up /\ boots' = boots /\ (\A j \in Ids : SameLog(runs, runs', j)) /\ pos' = pos
        /\ (\A j \in Ids : st'[j].resync = st[j].resync /\ st'[j].resyncTried = st[j].resyncTried)
        => Paid(st', runs', pos', boots')
  BY <1>s
<1>n. \A j \in Ids : SameLog(runs, runs, j) BY DEF SameLog
<1>1. CASE Quiet
  <2>1. up /\ boots' = boots /\ runs' = runs /\ pos' = pos BY <1>1 DEF Quiet
  <2>2. \A j \in Ids : st'[j].resync = st[j].resync /\ st'[j].resyncTried = st[j].resyncTried
    BY <1>1 DEF Quiet, Agree, Alike
  <2> QED BY <1>l, <1>n, <2>1, <2>2
<1>a. CASE Asking
  <2>1. up /\ boots' = boots /\ runs' = runs /\ pos' = pos BY <1>a DEF Asking
  <2>2. \A j \in Ids : st'[j].resync = st[j].resync /\ st'[j].resyncTried = st[j].resyncTried
    BY <1>a, <1>t DEF Asking, Slots, Slot
  <2> QED BY <1>l, <1>n, <2>1, <2>2
<1>b. CASE Replying
  <2>1. up /\ boots' = boots /\ runs' = runs /\ pos' = pos BY <1>b DEF Replying
  <2>2. \A j \in Ids : st'[j].resync = st[j].resync /\ st'[j].resyncTried = st[j].resyncTried
    BY <1>b DEF Replying, Alike
  <2> QED BY <1>l, <1>n, <2>1, <2>2
<1>2. CASE Starting BY <1>2, <1>t, LaunchPaid DEF Starting
<1>3. CASE Adding
  <2>1. PICK j \in fresh : pos' = [pos EXCEPT ![j] = Size + 1] /\ Launch(pos')
    BY <1>3 DEF Adding
  <2>2. up /\ boots' = boots BY <1>3 DEF Adding
  <2>3. j \in Ids /\ st[j] = EmptySlot /\ DOMAIN runs[j] = {}
    BY <1>t DEF ResyncInv, Unused, Owned
  <2>4. \A i \in Ids : i # j => pos'[i] = pos[i] BY <1>t, <2>1
  <2>5. Paid(st, runs, pos', boots) BY <1>t, <2>2, <2>3, <2>4, PaidUnused DEF Paid
  <2> QED BY <1>t, <2>1, <2>2, <2>5, LaunchPaid
<1>4. CASE Booting
  <2>1. Paid(st, runs, pos, boots + 1)
    BY <1>t, <1>4, BootPays DEF ResyncInv, Memoryless, Booting
  <2> QED BY <1>4, <1>t, <2>1, LaunchPaid DEF Booting
<1>5. CASE Completing
  <2>1. PICK c \in polls, slots \in Slots, outcome \in Outcomes, nobase \in BOOLEAN :
          /\ up /\ boots' = boots /\ Concerns(c) /\ Alike(st, slots, pos) /\ pos' = pos
          /\ OnJobCompleted(slots, runs, c, outcome, nobase)
    BY <1>5 DEF Completing
  <2>2. c \in Calls /\ c.id \in Ids BY <1>t DEF Calls
  <2>3. Owned(slots, runs, subs, pos) BY <1>t, <2>1, OwnedSame DEF Agree, Alike
  <2>4. Paid(slots, runs, pos, boots) BY <1>t, <2>1, PaidSame DEF Agree, Alike
  <2>5. Valid(c) /\ slots[c.id].run # 0 BY <2>1, <2>2 DEF Concerns, Agree, Alike, SameRuns
  <2> QED BY <1>t, <2>1, <2>2, <2>3, <2>4, <2>5, CompletedPaid
<1>6. CASE Stopping
  <2>1. PICK c \in stops :
          /\ Concerns(c) /\ up /\ boots' = boots /\ pos' = pos
          /\ st' = [st EXCEPT ![c.id].run = 0, ![c.id].running = FALSE]
          /\ runs' = End(runs, c.id, st[c.id].run, "stopped")
    BY <1>6 DEF Stopping
  <2>2. c.id \in Ids /\ Open(runs, c.id, st[c.id].run)
    BY <1>t, <2>1 DEF Calls, Concerns, Owned
  <2>3. \A j \in Ids : st'[j].resync = st[j].resync /\ st'[j].resyncTried = st[j].resyncTried
    BY <1>t, <2>1, <2>2 DEF Slots, Slot
  <2>4. \A j \in Ids : SameLog(runs, runs', j) BY <1>t, <2>1, <2>2, EndLog DEF Outcomes
  <2> QED BY <1>l, <2>1, <2>3, <2>4
<1>7. CASE RcdMoves
  <2>1. \A j \in Ids : SameLog(runs, runs', j)
    <3>1. PICK j \in Ids, p \in Phases : \E k \in DOMAIN runs[j] :
            runs' = [runs EXCEPT ![j][k].phase = p]
      BY <1>7 DEF RcdMoves
    <3>2. PICK k \in DOMAIN runs[j] : runs' = [runs EXCEPT ![j][k].phase = p] BY <3>1
    <3> QED BY <1>t, <3>2, PhaseLog
  <2>2. up /\ boots' = boots /\ pos' = pos /\ st' = st BY <1>7 DEF RcdMoves
  <2> QED BY <1>l, <2>1, <2>2
<1>8. CASE Ending BY <1>8, <1>t, DownFacts
<1>9. ASSUME NEW d \in Ids, DeleteJob(d) PROVE Paid(st', runs', pos', boots')
  <2>1. /\ up /\ st' = NoPending([st EXCEPT ![d] = EmptySlot]) /\ pos' = Erase(d)
        /\ runs' = runs /\ boots' = boots
    BY <1>9 DEF DeleteJob
  <2>2. [st EXCEPT ![d] = EmptySlot] \in Slots BY <1>t DEF Slots, Slot, EmptySlot
  <2>3. Agree([st EXCEPT ![d] = EmptySlot], st', pos') BY <2>1, <2>2, PendingAgrees
  <2>4. \A j \in Ids : j # d => /\ [st EXCEPT ![d] = EmptySlot][j] = st[j]
    BY <1>t DEF Slots
  <2>5. \A j \in Ids : pos'[j] # 0 => j # d /\ pos[j] # 0
    BY <1>t, <2>1 DEF Erase
  <2>6. \A j \in Ids : pos'[j] # 0 => /\ pos[j] # 0 /\ st'[j].resync = st[j].resync
                                      /\ st'[j].resyncTried = st[j].resyncTried
    BY <2>3, <2>4, <2>5 DEF Agree, Alike
  <2> QED BY <1>s, <1>n, <2>1, <2>6
<1>10. ASSUME NEW c \in subs, SubmitFailed(c) \/ SubmitAccepted(c)
       PROVE  Paid(st', runs', pos', boots')
  <2>0. c.id \in Ids BY <1>t DEF Calls
  <2>1. up /\ boots' = boots /\ pos' = pos BY <1>10 DEF SubmitFailed, SubmitAccepted
  <2>2. ClearSubmitting(c.idx) \in Slots /\ Agree(st, ClearSubmitting(c.idx), pos)
    BY <1>t, ClearFacts
  <2>3. \/ st' = ClearSubmitting(c.idx)
        \/ st' = [ClearSubmitting(c.idx) EXCEPT ![c.id].running = FALSE]
        \/ st' = [ClearSubmitting(c.idx) EXCEPT ![c.id].run = c.run]
    BY <1>10 DEF SubmitFailed, SubmitAccepted
  <2>4. \A j \in Ids : /\ st'[j].resync = ClearSubmitting(c.idx)[j].resync
                       /\ st'[j].resyncTried = ClearSubmitting(c.idx)[j].resyncTried
    BY <2>0, <2>2, <2>3 DEF Slots, Slot
  <2>5. \A j \in Ids : st'[j].resync = st[j].resync /\ st'[j].resyncTried = st[j].resyncTried
    BY <2>2, <2>4 DEF Agree, Alike
  <2>6. \A j \in Ids : SameLog(runs, runs', j) BY <1>t, <1>10, AnswerLog
  <2> QED BY <1>l, <2>1, <2>5, <2>6
<1> QED BY <1>t, <1>1, <1>a, <1>b, <1>2, <1>3, <1>4, <1>5, <1>6, <1>7, <1>8, <1>9, <1>10, EveryStep
        DEF StepKind

\* The jobs that have never been in the list stay out of it until they are added.
LEMMA NextUnused ==
  ASSUME ResyncInv, [Next]_vars
  PROVE  /\ \A j \in fresh' : j \in fresh /\ pos'[j] = 0
         /\ ~up' => \A j \in Ids : st'[j] = EmptySlot
<1>t. /\ TypeOK /\ pos \in [Ids -> Nat] /\ fresh \subseteq Ids /\ runs \in Ledgers
      /\ \A j \in fresh : pos[j] = 0
      /\ ~up => \A j \in Ids : st[j] = EmptySlot
  BY TypeShape DEF ResyncInv, OwnerInv, Unused, Memoryless
<1>1. CASE Quiet BY <1>1, <1>t DEF Quiet
<1>a. CASE Asking \/ Replying
  <2>1. up /\ up' = up /\ fresh' = fresh /\ pos' = pos BY <1>a DEF Asking, Replying
  <2> QED BY <1>t, <2>1
<1>2. CASE Starting \/ Booting BY <1>2, <1>t DEF Starting, Booting
<1>3. CASE Adding BY <1>3, <1>t DEF Adding
<1>4. CASE Completing \/ Stopping
  <2>1. up /\ up' = up /\ fresh' = fresh /\ pos' = pos BY <1>4 DEF Completing, Stopping
  <2> QED BY <1>t, <2>1
<1>5. CASE RcdMoves BY <1>5, <1>t DEF RcdMoves
<1>6. CASE Ending BY <1>6, <1>t, DownFacts
<1>7. ASSUME NEW j \in Ids, DeleteJob(j)
      PROVE  (\A i \in fresh' : i \in fresh /\ pos'[i] = 0) /\ up'
  <2>1. pos' = Erase(j) /\ fresh' = fresh /\ up /\ up' = up BY <1>7 DEF DeleteJob
  <2> QED BY <1>t, <2>1 DEF Erase
<1>8. ASSUME NEW c \in subs, SubmitFailed(c) \/ SubmitAccepted(c)
      PROVE  (\A i \in fresh' : i \in fresh /\ pos'[i] = 0) /\ up'
  BY <1>8, <1>t DEF SubmitFailed, SubmitAccepted
<1> QED BY <1>t, <1>1, <1>a, <1>2, <1>3, <1>4, <1>5, <1>6, <1>7, <1>8, EveryStep DEF StepKind

\* A restart never takes back a boot.
LEMMA BootsGrow == ASSUME TypeOK, [Next]_vars PROVE boots' = boots \/ boots' = boots + 1
<1>1. CASE Booting BY <1>1 DEF Booting
<1>2. CASE Ending BY <1>2, DownFacts, TypeShape
<1> QED BY <1>1, <1>2, EveryStep DEF StepKind, Quiet, Asking, Replying, Starting, Adding, Completing,
           Stopping, RcdMoves, DeleteJob, SubmitFailed, SubmitAccepted

LEMMA NextResync == ResyncInv /\ [Next]_vars => ResyncInv'
<1> SUFFICES ASSUME ResyncInv, [Next]_vars PROVE ResyncInv'
  OBVIOUS
<1>1. OwnerInv'
  <2>1. TypeOK' BY NextType DEF ResyncInv, OwnerInv
  <2>2. Owned(st', runs', subs', pos') BY NextOwned DEF ResyncInv, OwnerInv
  <2> QED BY <2>1, <2>2 DEF OwnerInv
<1>t. runs' \in Ledgers /\ boots \in Nat /\ boots' \in Nat /\ fresh \subseteq Ids /\ TypeOK
      /\ runs \in Ledgers
  BY <1>1, TypeShape DEF ResyncInv, OwnerInv, TypeOK, Ledgers
<1>2. up' => Paid(st', runs', pos', boots') BY NextPaid
<1>3. \A j \in Ids : SameLog(runs, runs', j) \/ (up' = TRUE /\ pos'[j] # 0)
  BY NextLogs DEF ResyncInv
<1>4. Unused' BY <1>3, <1>t, NextUnused DEF ResyncInv, Unused, SameLog
<1>5. Memoryless' BY NextUnused DEF Memoryless
<1>6. Within(runs', boots')
  <2> SUFFICES ASSUME NEW j \in Ids PROVE Cardinality(Resyncs(runs', j)) <= boots' + 1
    BY DEF Within
  <2>1. CASE SameLog(runs, runs', j)
    <3>1. Resyncs(runs', j) = Resyncs(runs, j) BY <2>1 DEF SameLog
    <3>2. Cardinality(Resyncs(runs, j)) <= boots + 1 BY DEF ResyncInv, Within
    <3>3. Cardinality(Resyncs(runs, j)) \in Nat BY <1>t, ResyncsFinite
    <3> QED BY <1>t, <3>1, <3>2, <3>3, BootsGrow
  <2>2. CASE up' = TRUE /\ pos'[j] # 0
    BY <1>t, <1>2, <2>2, PaidWithin
  <2> QED BY <1>3, <2>1, <2>2
<1> QED BY <1>1, <1>2, <1>4, <1>5, <1>6 DEF ResyncInv

LEMMA InitResync == Init => ResyncInv
<1> SUFFICES ASSUME Init PROVE ResyncInv
  OBVIOUS
<1>1. OwnerInv BY InitType, InitOwned DEF OwnerInv
<1>2. \A j \in Ids : st[j] = EmptySlot /\ runs[j] = <<>> BY DEF Init
<1>3. boots = 0 /\ up = TRUE /\ fresh = Ids \ Initial
      /\ \A j \in Ids : pos[j] # 0 <=> j \in Initial
  BY DEF Init
<1>4. \A j \in Ids : DOMAIN runs[j] = {} BY <1>2
<1>5. Unused BY <1>3, <1>4 DEF Unused
<1>6. Paid(st, runs, pos, boots) BY <1>2, <1>3, <1>4, PaidUnused DEF Paid
<1>7. Within(runs, boots)
  <2>1. \A j \in Ids : Cardinality(Resyncs(runs, j)) = 0
    <3>1. \A j \in Ids : Resyncs(runs, j) = {} BY <1>4 DEF Resyncs
    <3> QED BY <3>1, FS_EmptySet
  <2> QED BY <1>3, <2>1 DEF Within
<1> QED BY <1>1, <1>2, <1>3, <1>5, <1>6, <1>7 DEF ResyncInv, Memoryless

\* However often the resync retry, the backoff, the schedule and the user
\* resubmit a bisync job, and whatever is deleted or restarted meanwhile, rcd is
\* asked for a --resync of it at most once in a life of the daemon: a repeated
\* one could resurrect deleted files.
THEOREM OneResyncPerLife == Spec => []ResyncOnce
<1>1. Spec => []ResyncInv BY InitResync, NextResync, PTL DEF Spec
<1>2. ResyncInv => ResyncOnce BY DEF ResyncInv, Within, Resyncs, ResyncOnce
<1> QED BY <1>1, <1>2, PTL

=============================================================================
