--------------------------- MODULE JobRefinement ---------------------------
(***************************************************************************)
(* JobDaemon implements JobLife: what the slot, the timers and the idle    *)
(* callbacks of a job say about its life.                                  *)
(***************************************************************************)
EXTENDS JobDaemon

WorkOf(j) ==
  IF st[j].run # 0 THEN "tracked" ELSE IF st[j].submitting THEN "asked" ELSE "idle"

RetryArmed(j)   == \E t \in timers : t.kind = "retry" /\ t.id = j
ResyncArmed(j)  == \E c \in idles : c.id = j
AheadOf(j) ==
  (IF RetryArmed(j) THEN {"retry"} ELSE {}) \cup (IF ResyncArmed(j) THEN {"resync"} ELSE {})

Life(j) == INSTANCE JobLife WITH
  work <- WorkOf(j), shown <- st[j].running, tries <- st[j].retries,
  resynced <- st[j].resyncTried, ahead <- AheadOf(j)

\* While no job is edited or deleted, every job lives as JobLife says, through
\* lost answers, manual starts that overtake a retry, stops and restarts: no
\* handler ends work that another has ended, starts a second one beside the
\* first, retries beyond the budget, or leaves a job shown as running or not
\* running against what is done for it.
LivesAsPromised ==
  /\ \A j \in Ids : Life(j)!LifeInit
  /\ [][\A j \in Ids : [Life(j)!LifeNext]_(Life(j)!lifeVars)]_vars
=============================================================================
