---------------------------- MODULE WatchTrigger ----------------------------
(***************************************************************************)
(* The debounce of one watched job in the daemon (daemon.cpp,              *)
(* on_watch_changed and what surrounds it): a burst of file changes is     *)
(* turned into one run, when it has been quiet for the debounce time or    *)
(* when the burst has lasted for the maximum wait.                         *)
(*                                                                         *)
(* Time passes in units; a timer that is due fires before time passes on.  *)
(***************************************************************************)
EXTENDS Integers

CONSTANTS
  Jobs0,          \* the watched jobs there may be, with their own times
  SettingDebounce, SettingMaxWait, \* the settings, for the times a job leaves open
  MaxClock        \* bound: the time that is looked at

\* The settings page stores positive times only.
ASSUME WatchTriggerAssumption ==
  /\ Jobs0 \subseteq [mount : BOOLEAN, local : BOOLEAN, debounce : Int, maxWait : Int]
  /\ SettingDebounce \in Nat /\ SettingMaxWait \in Nat /\ MaxClock \in Nat

VARIABLES
  watchedJob,     \* the job: [mount, local, debounce, maxWait] (-1: not set)
  watching,       \* whether the slot has a watcher
  clock, pending, burst, due,
  noted,          \* first and last change not answered by a run (for the properties)
  fired           \* the last triggered run (for the properties)

watchVars == <<watchedJob, watching, clock, pending, burst, due, noted, fired>>

Never  == -1                                 \* no timer, no change
NoNote == [first |-> Never, last |-> Never]

(***************************************************************************)
(* The settings that stand in for the values the job leaves open.          *)
(***************************************************************************)
Debounce == IF watchedJob.debounce > 0 THEN watchedJob.debounce ELSE SettingDebounce
MaxWait  == IF watchedJob.maxWait > 0 THEN watchedJob.maxWait ELSE SettingMaxWait

(***************************************************************************)
(* setup_watch(): a mount has nothing to sync, a remote nothing to watch.  *)
(***************************************************************************)
Watchable(job) == ~job.mount /\ job.local

TriggerInit ==
  /\ watchedJob \in Jobs0 /\ watching = Watchable(watchedJob)
  /\ clock = 0 /\ pending = FALSE /\ burst = 0 /\ due = Never
  /\ noted = NoNote /\ fired = [at |-> Never, first |-> Never, last |-> Never]

Minimum(a, b) == IF a < b THEN a ELSE b
Clamp(x, hi)  == IF x < 0 THEN 0 ELSE Minimum(x, hi)

(***************************************************************************)
(* A change in the tree: the burst keeps its start, the timer is set anew. *)
(***************************************************************************)
SlipBurstStart == clock
BurstStart == IF pending THEN burst ELSE clock

SlipFireIn(start) == IF pending THEN due - clock ELSE Minimum(Debounce, MaxWait)
FireIn(start) == Clamp(Minimum(Debounce, MaxWait - (clock - start)), Debounce)

TreeChanged ==
  /\ watching
  /\ pending' = TRUE /\ burst' = BurstStart
  /\ due' = clock + FireIn(BurstStart)
  /\ noted' = [first |-> IF noted.first = Never THEN clock ELSE noted.first, last |-> clock]
  /\ UNCHANGED <<watchedJob, watching, clock, fired>>

(***************************************************************************)
(* fire_watch_triggered_run()                                              *)
(***************************************************************************)
TriggerFires ==
  /\ due # Never /\ due <= clock
  /\ pending' = FALSE /\ due' = Never
  /\ fired' = [at |-> clock, first |-> noted.first, last |-> noted.last]
  /\ noted' = NoNote
  /\ UNCHANGED <<watchedJob, watching, clock, burst>>

(***************************************************************************)
(* setup_all_watches(): any change of the job list, also of another job,   *)
(* drops the timer and the trigger; the job itself may have been edited.   *)
(***************************************************************************)
ListChanged(job) ==
  /\ job \in Jobs0
  /\ watchedJob' = job /\ watching' = Watchable(job)
  /\ pending' = FALSE /\ due' = Never /\ noted' = NoNote
  /\ UNCHANGED <<clock, burst, fired>>

TimePasses ==
  /\ clock < MaxClock /\ ~(due # Never /\ due <= clock)
  /\ clock' = clock + 1
  /\ UNCHANGED <<watchedJob, watching, pending, burst, due, noted, fired>>

TriggerNext ==
  \/ TreeChanged \/ TriggerFires \/ TimePasses
  \/ \E job \in Jobs0 : ListChanged(job)

TriggerSpec == TriggerInit /\ [][TriggerNext]_watchVars

(***************************************************************************)
(* Properties.                                                             *)
(***************************************************************************)
TriggerTypeOK ==
  /\ watchedJob \in Jobs0 /\ watching \in BOOLEAN /\ pending \in BOOLEAN
  /\ clock \in 0 .. MaxClock /\ burst \in 0 .. MaxClock /\ due \in Int
  /\ due # Never => watching /\ pending

\* A change is not put off for longer than the maximum wait, however many
\* follow it (README: debounced with a max-wait cap), unless the job list
\* changed in between.
BurstBounded == noted.first # Never => clock - noted.first <= MaxWait

\* A trigger fires early only for a reason: the tree has been quiet for the
\* debounce time, or the burst has lasted for the maximum wait.
FiresWhenQuiet ==
  [][fired' # fired => \/ clock - noted.last >= Debounce
                       \/ clock - noted.first >= MaxWait]_watchVars
=============================================================================
