------------------------------ MODULE JobDaemon ------------------------------
(***************************************************************************)
(* The job engine of the MtSync daemon (src/src/daemon.cpp) for transfer   *)
(* jobs: Sync, Copy, Move and bisync.                                      *)
(*                                                                         *)
(* Everything in the daemon runs on one GLib main loop, so a handler (an   *)
(* IPC request, a timer, an idle callback, the completion callback of an   *)
(* HTTP call to `rclone rcd') is one atomic step.  The interleaving is in  *)
(* the order of those handlers: several HTTP calls are outstanding at once *)
(* and every callback captured, when it was created, the INDEX of its job  *)
(* in m_jobs / m_job_state and the job's uuid.                             *)
(*                                                                         *)
(* m_jobs and m_job_state are parallel vectors that grow and shrink        *)
(* together.  pos[j] is the (1-based) index of job j in both, 0 when the   *)
(* job is not in the list; st[j] is its JobState with the run-time fields  *)
(* of its Job.                                                             *)
(***************************************************************************)
EXTENDS Naturals, Sequences, FiniteSets

CONSTANTS
  Ids,          \* job uuids
  Initial,      \* the jobs that jobs.json lists at the first start
  Bisync,       \* the Sync jobs with the bisync flag
  Watched,      \* the jobs with watch_enabled and a local source
  Scheduled,    \* the jobs that start with schedule_enabled
  Sparse,       \* the jobs whose schedule may have no occurrence in the four
                \* years next_occurrence searches: 31 February, a bad field
  Deletable,    \* the jobs the user may delete in this instance
  Editable,     \* the jobs the user may edit and save
  Stoppable,    \* the jobs the user may stop
  MaxRetries,   \* job.retries, or the settings' default
  PollLimit,    \* missed polls before giving up: 6 in the code
  MaxTriggers,  \* bound: user, schedule and watch starts of a job
  MaxBoots,     \* bound: restarts of the daemon
  MaxLosses     \* bound: answers of rcd that are lost, jobs it forgets

ASSUME SetsAssumption ==
  /\ IsFiniteSet(Ids)
  /\ Initial \subseteq Ids /\ Bisync \subseteq Ids /\ Watched \subseteq Ids
  /\ Scheduled \subseteq Ids /\ Sparse \subseteq Ids /\ Deletable \subseteq Ids
  /\ Editable \subseteq Ids /\ Stoppable \subseteq Ids
ASSUME NumbersAssumption ==
  /\ MaxRetries \in Nat /\ PollLimit \in Nat \ {0}
  /\ MaxTriggers \in Nat /\ MaxBoots \in Nat /\ MaxLosses \in Nat

VARIABLES
  up,       \* m_running
  pos,      \* index of each job in m_jobs and m_job_state, 0: absent
  fresh,    \* uuids no job has had yet
  sched,    \* Job::schedule_enabled
  st,       \* JobState and the run-time fields of Job
  count,    \* m_running_job_count
  timers,   \* connected one-shot timers and poll timers, by their closure
  idles,    \* pending idle callbacks of the bisync retry
  subs,     \* start requests whose done_cb has not run
  polls,    \* job/status requests whose callback has not run
  stops,    \* job/stop requests whose callback has not run
  runs,     \* ledger: the runs of each job, as rcd and as the daemon see them
  dirty,    \* history: a watched source changed after the last start
  boots,    \* restarts so far
  losses    \* answers lost and jobs forgotten so far

daemonVars == <<up, pos, fresh, sched, st, count, timers, idles>>
callVars   == <<subs, polls, stops>>
vars       == <<daemonVars, callVars, runs, dirty, boots, losses>>

-----------------------------------------------------------------------------
(* Data *)

TimerKinds == {"poll", "sched", "retry", "watch"}
Triggers   == {"user", "sched", "watch", "retry", "resync"}
Automatic  == {"retry", "resync"}

\* What rcd knows of a run: the request is on its way, the job runs, it has
\* finished (well, badly, or badly for want of a bisync baseline), or rcd does
\* not know it (rejected, expired, or rcd itself died).
Phases   == {"queued", "running", "ok", "err", "nobase", "lost"}
Finished == {"ok", "err", "nobase"}
Live     == {"queued", "running"}

\* How the daemon ended a run.
Outcomes == {"rejected", "abandoned", "stopped", "ok", "failed", "gaveup"}

\* A run of the ledger.  ends lists the outcomes the daemon gave it.
Run  == [phase : Phases, trig : Triggers, resync : BOOLEAN, ends : Seq(Outcomes)]
NewRun(trig, resync) ==
  [phase |-> "queued", trig |-> trig, resync |-> resync, ends |-> <<>>]

\* job_id is the number of the run in the ledger of the job, 0 for -1.
Slot == [run : Nat, submitting : BOOLEAN, pollBusy : BOOLEAN, pollFails : Nat,
         retries : Nat, resync : BOOLEAN, resyncTried : BOOLEAN,
         pending : BOOLEAN, running : BOOLEAN]
EmptySlot ==
  [run |-> 0, submitting |-> FALSE, pollBusy |-> FALSE, pollFails |-> 0,
   retries |-> 0, resync |-> FALSE, resyncTried |-> FALSE,
   pending |-> FALSE, running |-> FALSE]

Timer(kind, i, j)  == [kind |-> kind, idx |-> i, id |-> j]
Call(i, j, r)      == [idx |-> i, id |-> j, run |-> r]

InList(j) == pos[j] # 0
Size      == Cardinality({j \in Ids : InList(j)})

\* Slip: the closure checks its index and not the uuid.
InRange(c) == c.idx \in 1..Size

\* index < m_jobs.size() && m_jobs[index].id == uuid, of a captured closure
Valid(c) == c.idx # 0 /\ pos[c.id] = c.idx

\* Slips the runs must notice: the guard forgets one of its two halves.
BusyIfTracked(s) == s.run # 0
BusyIfSubmitting(s) == s.submitting

\* already_running in on_run_job
Busy(s) == s.run # 0 \/ s.submitting

\* m_running_job_count-- with its clamp at zero
Dec(n) == IF n > 0 THEN n - 1 ELSE 0

\* An answer that is lost although rcd did its part; rcd forgetting a job
Lose == losses < MaxLosses /\ losses' = losses + 1
NoLoss == losses' = losses

\* Disconnecting the slot's connection of one kind
Without(T, kind, j) == {t \in T : ~(t.kind = kind /\ t.id = j)}
Rearm(T, kind, i, j) == Without(T, kind, j) \cup {Timer(kind, i, j)}

Starts(j) == Cardinality({k \in DOMAIN runs[j] : runs[j][k].trig \notin Automatic})
CanTrigger(j) == Starts(j) < MaxTriggers

End(ledger, j, k, outcome) ==
  [ledger EXCEPT ![j][k].ends = Append(@, outcome)]

-----------------------------------------------------------------------------
(* Starting runs and arming schedules *)

\* The jobs of due that are not skipped
Going(slots, due) == {j \in due : ~Busy(slots[j])}

\* on_run_job for the jobs in due (at most one), on the given slots, ledger
\* and counter: skipped when the previous instance is tracked or submitting.
OnRunJob(slots, ledger, n, P, due, trig) ==
  LET go == Going(slots, due)
  IN /\ st' = [j \in Ids |->
                 IF j \in go
                 THEN [slots[j] EXCEPT !.submitting = TRUE, !.running = TRUE, !.resync = FALSE]
                 ELSE slots[j]]
     /\ count' = n + Cardinality(go)
     /\ subs' = subs \cup {Call(P[j], j, Len(ledger[j]) + 1) : j \in go}
     /\ runs' = [j \in Ids |->
                   IF j \in go THEN Append(ledger[j], NewRun(trig, slots[j].resync))
                               ELSE ledger[j]]
     /\ dirty' = [j \in Ids |-> dirty[j] /\ j \notin go]

\* schedule_job arms the timer, unless the schedule has no next occurrence (the
\* job is in none, and a timer it had stays) or the next occurrence has passed
\* between the two clock reads: then it runs the job at once.  An instant falls
\* between the two reads of one job at most, so due has at most one member.
DueSets(P, enabled) ==
  {{}} \cup {{j} : j \in {i \in Ids : P[i] # 0 /\ enabled[i] /\ CanTrigger(i)}}

ScheduleAll(T, P, enabled, skip) ==
  LET armed == {j \in Ids : P[j] # 0 /\ enabled[j]} \ skip
  IN {t \in T : ~(t.kind = "sched" /\ t.id \in armed)}
       \cup {Timer("sched", P[j], j) : j \in armed}

\* setup_all_watches: every watch is torn down, its pending trigger with it
NoWatchTimers(T) == {t \in T : t.kind # "watch"}
NoPending(slots) == [j \in Ids |-> [slots[j] EXCEPT !.pending = FALSE]]

-----------------------------------------------------------------------------
(* IPC requests *)

RunJob(j) ==
  /\ up /\ InList(j) /\ CanTrigger(j)
  /\ OnRunJob(st, runs, count, pos, {j}, "user")
  /\ UNCHANGED <<up, pos, fresh, sched, timers, idles, polls, stops, boots, losses>>

\* Slip: the job is shown as stopped when the request is sent.
StopJobAtOnce(j) ==
  /\ up /\ j \in Stoppable /\ InList(j)
  /\ st[j].run # 0
  /\ st' = [st EXCEPT ![j].running = FALSE]
  /\ timers' = Without(timers, "retry", j)
  /\ stops' = stops \cup {Call(pos[j], j, st[j].run)}
  /\ UNCHANGED <<up, pos, fresh, sched, count, idles, subs, polls, runs, dirty, boots, losses>>

StopJob(j) ==
  /\ up /\ j \in Stoppable /\ InList(j)
  /\ st[j].run # 0
  /\ timers' = Without(timers, "retry", j)
  /\ stops' = stops \cup {Call(pos[j], j, st[j].run)}
  /\ UNCHANGED <<up, pos, fresh, sched, st, count, idles, subs, polls, runs, dirty, boots, losses>>

AddJob(j) ==
  /\ up /\ j \in fresh
  /\ fresh' = fresh \ {j}
  /\ pos' = [pos EXCEPT ![j] = Size + 1]
  /\ \E due \in DueSets(pos', sched), none \in SUBSET Sparse :
       /\ timers' = NoWatchTimers(ScheduleAll(timers, pos', sched, due \cup none))
       /\ OnRunJob(NoPending(st), runs, count, pos', due, "sched")
  /\ UNCHANGED <<up, sched, idles, polls, stops, boots, losses>>

\* The job edit dialog builds the Job it sends with running = false.
UpdateJob(j) ==
  /\ up /\ j \in Editable /\ InList(j)
  /\ \E on \in BOOLEAN : sched' = [sched EXCEPT ![j] = on]
  /\ \E due \in DueSets(pos, sched'), none \in SUBSET Sparse :
       /\ timers' = NoWatchTimers(ScheduleAll(timers, pos, sched', due \cup none))
       /\ OnRunJob(NoPending([st EXCEPT ![j].running = FALSE]), runs, count, pos, due, "sched")
  /\ UNCHANGED <<up, pos, fresh, idles, polls, stops, boots, losses>>

\* Erasing index i from both vectors: the later jobs move down one index.
\* Slip: every index moves.
EraseShiftsAll(j) == [i \in Ids |-> IF i = j THEN 0 ELSE pos[i] - 1]
Erase(j) == [i \in Ids |-> IF i = j THEN 0
                           ELSE IF pos[i] > pos[j] THEN pos[i] - 1 ELSE pos[i]]

\* No schedule is re-armed.  The counter pays only for a run with a job_id: the
\* answer to a submission pays for itself.  Slip: it pays for both.
OwesIfBusy(s) == Busy(s)
Owes(s) == s.run # 0
DeleteJob(j) ==
  /\ up /\ j \in Deletable /\ InList(j)
  /\ count' = IF Owes(st[j]) THEN Dec(count) ELSE count
  /\ pos' = Erase(j)
  /\ timers' = NoWatchTimers({t \in timers : t.id # j})
  /\ st' = NoPending([st EXCEPT ![j] = EmptySlot])
  /\ sched' = [sched EXCEPT ![j] = FALSE]
  /\ dirty' = [dirty EXCEPT ![j] = FALSE]
  /\ UNCHANGED <<up, fresh, idles, subs, polls, stops, runs, boots, losses>>

-----------------------------------------------------------------------------
(* Timers, idle callbacks and the directory watch *)

SchedTimer(t) ==
  /\ up /\ t \in timers /\ t.kind = "sched"
  /\ Valid(t) => CanTrigger(t.id)
  /\ timers' = timers \ {t}
  /\ OnRunJob(st, runs, count, pos, IF Valid(t) THEN {t.id} ELSE {}, "sched")
  /\ UNCHANGED <<up, pos, fresh, sched, idles, polls, stops, boots, losses>>

\* Slip: the source is not removed, it fires again and again.
RetryTimerStays(t) ==
  /\ up /\ t \in timers /\ t.kind = "retry"
  /\ OnRunJob(st, runs, count, pos, IF Valid(t) THEN {t.id} ELSE {}, "retry")
  /\ UNCHANGED <<up, pos, fresh, sched, timers, idles, polls, stops, boots, losses>>

RetryTimer(t) ==
  /\ up /\ t \in timers /\ t.kind = "retry"
  /\ timers' = timers \ {t}
  /\ OnRunJob(st, runs, count, pos, IF Valid(t) THEN {t.id} ELSE {}, "retry")
  /\ UNCHANGED <<up, pos, fresh, sched, idles, polls, stops, boots, losses>>

ResyncIdle(c) ==
  /\ up /\ c \in idles
  /\ idles' = idles \ {c}
  /\ OnRunJob(st, runs, count, pos, IF Valid(c) THEN {c.id} ELSE {}, "resync")
  /\ UNCHANGED <<up, pos, fresh, sched, timers, polls, stops, boots, losses>>

\* fire_watch_triggered_run, from the debounce timer
WatchTimer(t) ==
  /\ up /\ t \in timers /\ t.kind = "watch"
  /\ Valid(t) => CanTrigger(t.id)
  /\ timers' = timers \ {t}
  /\ IF Valid(t)
     THEN OnRunJob([st EXCEPT ![t.id].pending = FALSE], runs, count, pos, {t.id}, "watch")
     ELSE UNCHANGED <<st, count, subs, runs, dirty>>
  /\ UNCHANGED <<up, pos, fresh, sched, idles, polls, stops, boots, losses>>

\* The watcher reports a change: on_watch_changed.  setup_all_watches renewed
\* the watcher after the last change of the list, so its index is current.
WatchEvent(j) ==
  /\ up /\ j \in Watched /\ InList(j)
  /\ st' = [st EXCEPT ![j].pending = TRUE]
  /\ timers' = Rearm(timers, "watch", pos[j], j)
  /\ dirty' = [dirty EXCEPT ![j] = TRUE]
  /\ UNCHANGED <<up, pos, fresh, sched, count, idles, subs, polls, stops, runs, boots, losses>>

\* The 500 ms poll timer asks for the status of the tracked run, or ends itself.
PollTick(t) ==
  /\ up /\ t \in timers /\ t.kind = "poll"
  /\ \/ /\ ~Valid(t) \/ st[t.id].run = 0
        /\ timers' = timers \ {t}
        /\ UNCHANGED <<st, polls>>
     \/ /\ Valid(t) /\ st[t.id].run # 0 /\ ~st[t.id].pollBusy
        /\ st' = [st EXCEPT ![t.id].pollBusy = TRUE]
        /\ polls' = polls \cup {Call(t.idx, t.id, st[t.id].run)}
        /\ UNCHANGED timers
  /\ UNCHANGED <<up, pos, fresh, sched, count, idles, subs, stops, runs, dirty, boots, losses>>

-----------------------------------------------------------------------------
(* Callbacks of the calls to rcd *)

\* done_cb clears the submitting flag of whatever slot is at its index.
ClearSubmitting(i) ==
  [j \in Ids |-> IF InList(j) /\ pos[j] = i
                 THEN [st[j] EXCEPT !.submitting = FALSE] ELSE st[j]]

SubmitFailed(c) ==
  /\ up /\ c \in subs
  /\ \E p \in Phases :          \* rcd refused it, or only the answer was lost
       /\ \/ p = "lost" /\ runs[c.id][c.run].phase = "queued" /\ NoLoss
          \/ p = runs[c.id][c.run].phase /\ Lose
       /\ runs' = End([runs EXCEPT ![c.id][c.run].phase = p], c.id, c.run, "rejected")
  /\ subs' = subs \ {c}
  /\ st' = IF Valid(c) THEN [ClearSubmitting(c.idx) EXCEPT ![c.id].running = FALSE]
                       ELSE ClearSubmitting(c.idx)
  /\ count' = Dec(count)
  /\ UNCHANGED <<up, pos, fresh, sched, timers, idles, polls, stops, dirty, boots>>

SubmitAccepted(c) ==
  /\ up /\ c \in subs
  /\ runs[c.id][c.run].phase # "queued"
  /\ subs' = subs \ {c}
  /\ IF Valid(c)
     THEN /\ st' = [ClearSubmitting(c.idx) EXCEPT ![c.id].run = c.run]
          /\ timers' = timers \cup {Timer("poll", c.idx, c.id)}
          /\ UNCHANGED <<count, runs>>
     ELSE /\ st' = ClearSubmitting(c.idx)
          /\ count' = Dec(count)
          /\ runs' = End(runs, c.id, c.run, "abandoned")
          /\ UNCHANGED timers
  /\ UNCHANGED <<up, pos, fresh, sched, idles, polls, stops, dirty, boots, losses>>

-----------------------------------------------------------------------------
(* on_job_completed: the slot's run is over with this outcome *)

\* The claim: job_id is cleared first, and the poll of the run with it.
\* Slip: job_id is left to be cleared later.
ClaimLate(s) == [s EXCEPT !.pollBusy = FALSE]
Claim(s) == [s EXCEPT !.run = 0, !.pollBusy = FALSE]

Retryable(s, outcome) == outcome # "ok" /\ s.retries < MaxRetries

\* Slip: the single-shot guard is not set.
ResyncRetryAgain(slots, ledger, c) ==
  /\ st' = [slots EXCEPT ![c.id].resync = TRUE]
  /\ idles' = idles \cup {[idx |-> c.idx, id |-> c.id]}
  /\ timers' = Without(timers, "poll", c.id)
  /\ runs' = ledger
  /\ count' = Dec(count)
  /\ UNCHANGED <<subs, dirty>>

\* One retry with --resync at the next idle moment, outside the retry budget
ResyncRetry(slots, ledger, c) ==
  /\ st' = [slots EXCEPT ![c.id].resyncTried = TRUE, ![c.id].resync = TRUE]
  /\ idles' = idles \cup {[idx |-> c.idx, id |-> c.id]}
  /\ timers' = Without(timers, "poll", c.id)
  /\ runs' = ledger
  /\ count' = Dec(count)
  /\ UNCHANGED <<subs, dirty>>

\* Slip: the increment of on_run_job is not balanced (the leak of 0.9.4).
BackoffRetryLeaks(slots, ledger, c) ==
  /\ st' = [slots EXCEPT ![c.id].retries = @ + 1]
  /\ timers' = Rearm(Without(timers, "poll", c.id), "retry", c.idx, c.id)
  /\ runs' = ledger
  /\ UNCHANGED <<count, idles, subs, dirty>>

\* A retry after the backoff delay; Job::running stays set
BackoffRetry(slots, ledger, c) ==
  /\ st' = [slots EXCEPT ![c.id].retries = @ + 1]
  /\ timers' = Rearm(Without(timers, "poll", c.id), "retry", c.idx, c.id)
  /\ runs' = ledger
  /\ count' = Dec(count)
  /\ UNCHANGED <<idles, subs, dirty>>

\* schedule_job at the verdict.  Slip: only a timer that is still armed is renewed.
RescheduleIfArmed(T, c, skip) ==
  IF c.id \notin skip /\ Timer("sched", c.idx, c.id) \in T
  THEN Rearm(T, "sched", c.idx, c.id) ELSE T
Reschedule(T, c, skip) ==
  IF sched[c.id] /\ c.id \notin skip THEN Rearm(T, "sched", c.idx, c.id) ELSE T

\* The verdict: reschedule, and look again at a pending watch trigger
FinalVerdict(slots, ledger, c) ==
  \E due \in {d \in DueSets(pos, sched) : d \subseteq {c.id}}, none \in SUBSET Sparse :
    LET done  == [slots EXCEPT ![c.id].retries = 0, ![c.id].running = FALSE]
        quiet == Without(timers, "poll", c.id)
        timed == Reschedule(quiet, c, due \cup none)
    IN /\ timers' = IF slots[c.id].pending THEN Rearm(timed, "watch", c.idx, c.id) ELSE timed
       /\ OnRunJob(done, ledger, Dec(count), pos, due, "sched")
       /\ UNCHANGED idles

OnJobCompleted(slots, ledger, c, outcome, nobase) ==
  LET claimed == [slots EXCEPT ![c.id] = Claim(@)]
      ended   == End(ledger, c.id, slots[c.id].run, outcome)
  IN IF nobase /\ c.id \in Bisync /\ ~slots[c.id].resyncTried
     THEN ResyncRetry(claimed, ended, c)
     ELSE IF Retryable(slots[c.id], outcome)
          THEN BackoffRetry(claimed, ended, c)
          ELSE FinalVerdict(claimed, ended, c)

-----------------------------------------------------------------------------
(* Callbacks of job/status and job/stop *)

\* The slot still tracks a run: both callbacks return early otherwise
Concerns(c) == Valid(c) /\ st[c.id].run # 0

\* Slip: a finished job counts as a successful one.
VerdictFinished(phase) == "ok"
\* status->success of a finished job
Verdict(phase) == IF phase = "ok" THEN "ok" ELSE "failed"

StatusIgnored(c) ==
  /\ up /\ c \in polls /\ ~Concerns(c)
  /\ polls' = polls \ {c}
  /\ UNCHANGED <<daemonVars, subs, stops, runs, dirty, boots, losses>>

\* The answer, which is about run c.run, is applied to the run the slot tracks.
StatusAnswered(c) ==
  /\ up /\ c \in polls /\ Concerns(c)
  /\ polls' = polls \ {c}
  /\ LET phase  == runs[c.id][c.run].phase
         seen   == [st EXCEPT ![c.id].pollBusy = FALSE, ![c.id].pollFails = 0]
     IN \/ /\ phase \in Live
           /\ st' = seen
           /\ UNCHANGED <<runs, count, timers, idles, subs, dirty>>
        \/ /\ phase \in Finished
           /\ OnJobCompleted(seen, runs, c, Verdict(phase), phase = "nobase")
  /\ UNCHANGED <<up, pos, fresh, sched, stops, boots, losses>>

\* A missed poll.  Slip: the early return leaves poll_in_flight set.
MissKeepsFlag(s) == [s EXCEPT !.pollFails = @ + 1]
Miss(s) == [s EXCEPT !.pollBusy = FALSE, !.pollFails = @ + 1]

\* No answer, or rcd does not know the job
StatusMissed(c) ==
  /\ up /\ c \in polls /\ Concerns(c)
  /\ IF runs[c.id][c.run].phase = "lost" THEN NoLoss ELSE Lose
  /\ polls' = polls \ {c}
  /\ LET missed == [st EXCEPT ![c.id] = Miss(@)]
     IN IF missed[c.id].pollFails < PollLimit
        THEN /\ st' = missed
             /\ UNCHANGED <<runs, count, timers, idles, subs, dirty>>
        ELSE OnJobCompleted(missed, runs, c, "gaveup", FALSE)
  /\ UNCHANGED <<up, pos, fresh, sched, stops, boots>>

\* The callback of job/stop does not look at the result, nor at which run it
\* stopped.
StopAnswered(c) ==
  /\ up /\ c \in stops
  /\ IF runs[c.id][c.run].phase \in Live THEN Lose ELSE NoLoss
  /\ stops' = stops \ {c}
  /\ IF Concerns(c)
     THEN /\ st' = [st EXCEPT ![c.id].run = 0, ![c.id].running = FALSE]
          /\ timers' = Without(timers, "poll", c.id)
          /\ count' = Dec(count)
          /\ runs' = End(runs, c.id, st[c.id].run, "stopped")
     ELSE UNCHANGED <<st, timers, count, runs>>
  /\ UNCHANGED <<up, pos, fresh, sched, idles, subs, polls, dirty, boots>>

-----------------------------------------------------------------------------
(* rclone rcd, external *)

Becomes(j, k, phase) ==
  /\ runs' = [runs EXCEPT ![j][k].phase = phase]
  /\ UNCHANGED <<daemonVars, callVars, dirty, boots>>

RcdAccepts(j, k) == runs[j][k].phase = "queued" /\ Becomes(j, k, "running") /\ NoLoss

RcdFinishes(j, k) ==
  /\ runs[j][k].phase = "running"
  /\ \E p \in IF j \in Bisync /\ ~runs[j][k].resync THEN Finished ELSE {"ok", "err"} :
       Becomes(j, k, p)
  /\ NoLoss

RcdStops(j, k) ==
  /\ runs[j][k].phase = "running"
  /\ \E c \in stops : c.id = j /\ c.run = k
  /\ Becomes(j, k, "err")
  /\ NoLoss

\* rcd died, or dropped a finished job from its table
RcdForgets(j, k) ==
  /\ runs[j][k].phase \notin {"queued", "lost"}
  /\ Lose
  /\ Becomes(j, k, "lost")

-----------------------------------------------------------------------------
(* Shutdown, crash and start of the daemon *)

\* All of the daemon's memory goes; jobs.json keeps the list.
GoDown(ledger) ==
  /\ up /\ boots < MaxBoots
  /\ up' = FALSE
  /\ st' = [j \in Ids |-> EmptySlot]
  /\ count' = 0
  /\ timers' = {} /\ idles' = {} /\ subs' = {} /\ polls' = {} /\ stops' = {}
  /\ dirty' = [j \in Ids |-> FALSE]
  /\ runs' = ledger
  /\ UNCHANGED <<pos, fresh, sched, boots, losses>>

\* stop() ends with stop_daemon(): rcd and its jobs end too
Stop == GoDown([j \in Ids |-> [k \in DOMAIN runs[j] |-> [runs[j][k] EXCEPT !.phase = "lost"]]])

\* The process dies: rcd goes on with its jobs
Crash == GoDown(runs)

\* The constructor: load_jobs, schedule_all_jobs, setup_all_watches
Boot ==
  /\ ~up
  /\ up' = TRUE
  /\ boots' = boots + 1
  /\ \E due \in DueSets(pos, sched), none \in SUBSET Sparse :
       /\ timers' = ScheduleAll({}, pos, sched, due \cup none)
       /\ OnRunJob(st, runs, count, pos, due, "sched")
  /\ UNCHANGED <<pos, fresh, sched, idles, polls, stops, losses>>

-----------------------------------------------------------------------------

\* The list in some order, its scheduled jobs armed where there is an occurrence
Init ==
  /\ up = TRUE
  /\ pos \in [Ids -> 0..Cardinality(Initial)]
  /\ \A j \in Ids : pos[j] # 0 <=> j \in Initial
  /\ \A i, j \in Initial : pos[i] = pos[j] => i = j
  /\ fresh = Ids \ Initial
  /\ sched = [j \in Ids |-> j \in Scheduled]
  /\ st = [j \in Ids |-> EmptySlot]
  /\ count = 0
  /\ \E none \in SUBSET Sparse : timers = ScheduleAll({}, pos, sched, none)
  /\ idles = {} /\ subs = {} /\ polls = {} /\ stops = {}
  /\ runs = [j \in Ids |-> <<>>]
  /\ dirty = [j \in Ids |-> FALSE]
  /\ boots = 0
  /\ losses = 0

User == \E j \in Ids :
  RunJob(j) \/ StopJob(j) \/ AddJob(j) \/ UpdateJob(j) \/ DeleteJob(j) \/ WatchEvent(j)

MainLoop ==
  \/ \E t \in timers : SchedTimer(t) \/ RetryTimer(t) \/ WatchTimer(t) \/ PollTick(t)
  \/ \E c \in idles : ResyncIdle(c)
  \/ \E c \in subs : SubmitFailed(c) \/ SubmitAccepted(c)
  \/ \E c \in polls : StatusIgnored(c) \/ StatusAnswered(c) \/ StatusMissed(c)
  \/ \E c \in stops : StopAnswered(c)

Rcd == \E j \in Ids : \E k \in DOMAIN runs[j] :
  RcdAccepts(j, k) \/ RcdFinishes(j, k) \/ RcdStops(j, k) \/ RcdForgets(j, k)

Lifecycle == Stop \/ Crash \/ Boot

Next == User \/ MainLoop \/ Rcd \/ Lifecycle

Spec == Init /\ [][Next]_vars

\* The main loop dispatches every source that stays ready, and every call to
\* rcd is answered within the session's 20 s timeout, with an error if need be;
\* rcd takes up a request and a job of it ends.  Nothing is assumed of the user,
\* of schedules, of the file system or of the daemon's lifecycle.
ForJob(S, j) == {x \in S : x.id = j}
Fairness ==
  \A j \in Ids :
    /\ WF_vars(\E t \in ForJob(timers, j) : RetryTimer(t))
    /\ WF_vars(\E t \in ForJob(timers, j) : PollTick(t))
    /\ WF_vars(\E c \in ForJob(idles, j) : ResyncIdle(c))
    /\ WF_vars(\E c \in ForJob(subs, j) : SubmitFailed(c) \/ SubmitAccepted(c))
    /\ WF_vars(\E c \in ForJob(polls, j) :
                 StatusIgnored(c) \/ StatusAnswered(c) \/ StatusMissed(c))
    /\ WF_vars(\E k \in DOMAIN runs[j] : RcdAccepts(j, k))
    /\ WF_vars(\E k \in DOMAIN runs[j] : RcdFinishes(j, k))

FairSpec == Spec /\ Fairness

-----------------------------------------------------------------------------
(* Properties *)

\* Every variable has its type.
TypeOK ==
  /\ up \in BOOLEAN
  /\ pos \in [Ids -> Nat]
  /\ fresh \subseteq Ids
  /\ sched \in [Ids -> BOOLEAN]
  /\ st \in [Ids -> Slot]
  /\ count \in Nat
  /\ timers \subseteq [kind : TimerKinds, idx : Nat, id : Ids]
  /\ idles \subseteq [idx : Nat, id : Ids]
  /\ subs \subseteq [idx : Nat, id : Ids, run : Nat]
  /\ polls \subseteq [idx : Nat, id : Ids, run : Nat]
  /\ stops \subseteq [idx : Nat, id : Ids, run : Nat]
  /\ runs \in [Ids -> Seq(Run)]
  /\ dirty \in [Ids -> BOOLEAN]
  /\ boots \in Nat
  /\ losses \in Nat

Tracked == {j \in Ids : st[j].run # 0}

\* m_running_job_count never falls short of the work under way: the runs the
\* daemon tracks and the start requests it waits for.  So the tray spinner
\* never stops early, whatever the user deletes while calls are outstanding,
\* and the clamps of the counter at zero never bite.
CountCovers == count >= Cardinality(subs) + Cardinality(Tracked)

\* While no job is deleted the counter is exact: every increment of on_run_job
\* is paid back once on the submission, retry, resync, stop and verdict paths
\* (the leak of 0.9.4).
CountExact == count = Cardinality(subs) + Cardinality(Tracked)

\* A run ends at most once: a stop, a verdict and a submission error that race
\* for it cannot both take it (the claim on job_id in on_job_completed).
OutcomeOnce == \A j \in Ids : \A k \in DOMAIN runs[j] : Len(runs[j][k].ends) <= 1

\* The daemon does not resubmit a job by itself forever: a row of automatic
\* runs is no longer than two retry budgets, each with the run that opened it.
\* Two things open one while the user does nothing: the bisync resync, and a
\* retry timer left armed when a manual run overtook the backoff.
AutoRunsBounded ==
  \A j \in Ids : \A k \in DOMAIN runs[j] :
    \E i \in 0..(2 * (MaxRetries + 1)) : i < k /\ runs[j][k - i].trig \notin Automatic

\* rcd is asked for a --resync at most once per job in a daemon's life: the
\* resync rebuilds the baseline, so repeating it could resurrect deleted files.
ResyncOnce ==
  \A j \in Ids : Cardinality({k \in DOMAIN runs[j] : runs[j][k].resync}) <= boots + 1

\* A callback is for the job it captured only: while jobs are added and deleted
\* under outstanding calls, a slot tracks a run of its own job and no verdict,
\* retry or resync survives for a job that has left the list.
SlotOwnsRun ==
  \A j \in Ids :
    /\ st[j].run # 0 => /\ InList(j)
                        /\ st[j].run \in DOMAIN runs[j]
                        /\ runs[j][st[j].run].ends = <<>>
    /\ ~InList(j) => st[j] = EmptySlot

\* While the list does not change under it, no run is forgotten: a run that rcd
\* executes and that the daemon has not ended is the one its slot tracks or
\* awaits.  A second submission must not overwrite job_id.
NoRunForgotten ==
  \A j \in Ids : \A k \in DOMAIN runs[j] :
    boots = 0 /\ up /\ runs[j][k].phase \in Live /\ runs[j][k].ends = <<>>
      => st[j].run = k \/ \E c \in subs : c.id = j /\ c.run = k

\* Nobody has asked for a stop of the job.
Unstopped(j) ==
  /\ \A c \in stops : c.id # j
  /\ \A k \in DOMAIN runs[j] : runs[j][k].ends # <<"stopped">>

\* As long as no answer is lost, nobody stops the job and the daemon lives, rcd
\* executes one instance of a job at a time, through retries, resyncs and
\* triggers: two bisync runs of a pair collide on its lock.
OneLiveRun ==
  \A j \in Ids : losses = 0 /\ boots = 0 /\ up /\ Unstopped(j) =>
    Cardinality({k \in DOMAIN runs[j] : runs[j][k].phase \in Live}) <= 1

\* While nobody stops the job, the verdict of a run is about that run: success
\* is never recorded for a run that failed, nor failure for one that went well.
VerdictIsTrue ==
  \A j \in Ids : Unstopped(j) => \A k \in DOMAIN runs[j] :
    /\ runs[j][k].ends = <<"ok">> => runs[j][k].phase \in {"ok", "lost"}
    /\ runs[j][k].ends = <<"failed">> => runs[j][k].phase \in {"err", "nobase", "lost"}

\* A job whose enabled schedule has a next occurrence whenever schedule_job looks
\* for one is armed, or it is being run and the verdict will arm it again.  The
\* one way out is the submission error, which ends a run without rescheduling
\* the job.  A schedule without an occurrence (Sparse) promises nothing:
\* schedule_job returns, and nothing looks again until an edit or a verdict.
ScheduleKept ==
  \A j \in Ids \ Sparse :
    up /\ InList(j) /\ sched[j] =>
      \/ Timer("sched", pos[j], j) \in timers
      \/ Busy(st[j])
      \/ Timer("retry", pos[j], j) \in timers
      \/ [idx |-> pos[j], id |-> j] \in idles
      \/ runs[j] # <<>> /\ runs[j][Len(runs[j])].ends = <<"rejected">>

\* The job is being worked on: submitted, tracked, or waiting for its own retry
Working(j) ==
  Busy(st[j]) \/ (\E t \in timers : t.kind = "retry" /\ t.id = j) \/ \E c \in idles : c.id = j

\* While nobody stops a job or changes the list, the work on it comes to an
\* end: it does not stay running, or waiting to retry, for ever.
Settles == \A j \in Ids : Working(j) ~> ~Working(j)

-----------------------------------------------------------------------------
(* What the documentation says and the code does not do: each is violated *)

\* README.md:56 (and CHANGELOG.md:54, "a change is never silently dropped"): a
\* watch trigger that is skipped is retried once the running instance ends.  So
\* after a verdict, a change that no run has covered is still pending.
ChangeRemembered ==
  \A j \in Ids :
    up /\ InList(j) /\ dirty[j] /\ ~Working(j)
      /\ runs[j] # <<>> /\ runs[j][Len(runs[j])].ends \in {<<"ok">>, <<"failed">>}
      => st[j].pending

\* daemon.cpp:534: the captured uuid detects that the job was deleted.  So a
\* callback is only dropped for a job that was.
DroppedOnlyIfDeleted == \A c \in subs \cup polls : InList(c.id) => Valid(c)

\* daemon.cpp:519: a job is skipped while rcd has not acknowledged its start
\* request.  So no job has two start requests outstanding.
OneSubmission == \A c, d \in subs : c.id = d.id => c = d

\* daemon.hpp:67: poll_in_flight means that a status request is pending
PollFlagHonest == \A j \in Ids : st[j].pollBusy => \E c \in polls : c.id = j

=============================================================================
