------------------------------ MODULE JobLife ------------------------------
(***************************************************************************)
(* What the daemon promises of one transfer job while nobody edits or      *)
(* deletes jobs: at any time it does at most one thing for the job, every  *)
(* start is answered by one end, and the job starts by itself only after a *)
(* run that failed, within its budget. JobDaemon implements this for every *)
(* job; JobRefinement holds the mapping.                                   *)
(***************************************************************************)
EXTENDS Naturals

CONSTANT MaxRetries

VARIABLES
  work,      \* what is under way: nothing, a start request, a run
  shown,     \* whether the job is shown as running
  tries,     \* retries since the last verdict
  resynced,  \* whether a resync has been tried
  ahead      \* the automatic starts that are in store

lifeVars == <<work, shown, tries, resynced, ahead>>

Works     == {"idle", "asked", "tracked"}
OwnStarts == {"retry", "resync"}

LifeInit == work = "idle" /\ shown = FALSE /\ tries = 0 /\ resynced = FALSE /\ ahead = {}

\* A start: by somebody, or one of the starts in store.
Begin(from) ==
  /\ work = "idle" /\ work' = "asked" /\ shown' = TRUE
  /\ ahead' = ahead \ from
  /\ UNCHANGED <<tries, resynced>>

\* A start in store comes up while the job is at work: it is dropped.
Overtaken(s) ==
  /\ work # "idle" /\ s \in ahead /\ ahead' = ahead \ {s}
  /\ UNCHANGED <<work, shown, tries, resynced>>

Accepted ==
  /\ work = "asked" /\ work' = "tracked"
  /\ UNCHANGED <<shown, tries, resynced, ahead>>

Rejected ==
  /\ work = "asked" /\ work' = "idle" /\ shown' = FALSE
  /\ UNCHANGED <<tries, resynced, ahead>>

\* The run failed and is tried again later; the job stays shown as running.
TriesAgain ==
  /\ work = "tracked" /\ work' = "idle" /\ tries < MaxRetries
  /\ tries' = tries + 1 /\ ahead' = ahead \cup {"retry"}
  /\ UNCHANGED <<shown, resynced>>

\* The run found no bisync baseline: one resync, outside the budget.
Resyncs ==
  /\ work = "tracked" /\ work' = "idle" /\ resynced = FALSE
  /\ resynced' = TRUE /\ ahead' = ahead \cup {"resync"}
  /\ UNCHANGED <<shown, tries>>

\* The verdict; the schedule may start the next run with it.
Concludes(again) ==
  /\ work = "tracked" /\ work' = (IF again THEN "asked" ELSE "idle") /\ shown' = again
  /\ tries' = 0
  /\ UNCHANGED <<resynced, ahead>>

\* A stop is asked for, which cancels a retry in store, and takes effect.
StopAsked ==
  /\ work = "tracked" /\ ahead' = ahead \ {"retry"}
  /\ UNCHANGED <<work, shown, tries, resynced>>
Stopped ==
  /\ work = "tracked" /\ work' = "idle" /\ shown' = FALSE
  /\ UNCHANGED <<tries, resynced, ahead>>

\* The daemon ends, and forgets.
Forgotten ==
  /\ work' = "idle" /\ shown' = FALSE /\ tries' = 0 /\ resynced' = FALSE /\ ahead' = {}

LifeNext ==
  \/ Begin({}) \/ (\E s \in ahead : Begin({s}) \/ Overtaken(s))
  \/ Accepted \/ Rejected \/ TriesAgain \/ Resyncs \/ StopAsked \/ Stopped
  \/ (\E again \in BOOLEAN : Concludes(again)) \/ Forgotten

LifeSpec == LifeInit /\ [][LifeNext]_lifeVars

-----------------------------------------------------------------------------

LifeTypeOK ==
  /\ work \in Works /\ shown \in BOOLEAN /\ tries \in Nat
  /\ resynced \in BOOLEAN /\ ahead \subseteq OwnStarts

\* A job that is not shown as running is idle, and the retries since its last
\* verdict are within the budget.
ShownWhileWorking ==
  /\ ~shown => work = "idle"
  /\ tries <= MaxRetries
=============================================================================
