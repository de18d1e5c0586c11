------------------------------ MODULE RcloneRc ------------------------------
(***************************************************************************)
(* The daemon's side of the `rclone rcd' process (rclone/rclone_rc.cpp):   *)
(* probing the port, adopting what listens there or spawning a process,    *)
(* verifying it, and stopping it.                                          *)
(*                                                                         *)
(* ensure_daemon is called once, by the daemon's constructor.  Two HTTP    *)
(* calls of it may be outstanding, the probe and the verification; each    *)
(* has a sentinel that stop_daemon sets, because their callbacks would     *)
(* touch a RcloneRc that is being destroyed.                               *)
(***************************************************************************)
EXTENDS Naturals

CONSTANT MaxLosses   \* bound: calls that fail although rcd serves

ASSUME LossesAssumption == MaxLosses \in Nat

VARIABLES
  pid,          \* m_daemon_pid: "none" (0), "adopted" (-1), "child"
  childWatch,   \* m_child_watch_id is set
  verifyTimer,  \* the source m_verify_timer_id is connected
  probe,        \* the core/version call of ensure_daemon and its sentinel
  verify,       \* the core/version call of the verification and its sentinel
  child,        \* the process spawned: "zombie" when it has not been reaped
  other,        \* an rcd that an earlier daemon left behind is alive
  mounted,      \* the mount points that the serving rcd has up
  losses

rcVars == <<pid, childWatch, verifyTimer, probe, verify, child, other, mounted, losses>>

CallStates == {"none", "live", "cancelled"}

RcTypeOK ==
  /\ pid \in {"none", "adopted", "child"}
  /\ childWatch \in BOOLEAN /\ verifyTimer \in BOOLEAN
  /\ probe \in CallStates /\ verify \in CallStates
  /\ child \in {"none", "alive", "zombie"}
  /\ other \in BOOLEAN
  /\ losses \in Nat

\* Somebody listens on the port: the process that was there first
Serving == other \/ child = "alive"

Lose   == losses < MaxLosses /\ losses' = losses + 1
NoLoss == losses' = losses

\* A call ends in an error: nobody listens, or its answer is lost or too late.
NoAnswer == IF Serving THEN Lose ELSE NoLoss

\* The mounts end with the process that serves.
MountsWithout(process) == IF process = "child" /\ other THEN mounted ELSE {}

\* Slip: the sentinel is not set.
Forgotten(call) == call
Cancelled(call) == IF call = "live" THEN "cancelled" ELSE call

-----------------------------------------------------------------------------

\* stop_daemon, with the calls that stay outstanding.  For an adopted rcd it only
\* queues core/quit: libsoup sends it from a later iteration of the main loop,
\* and there is none after stop().
StopDaemon(p, v) ==
  /\ verifyTimer' = FALSE
  /\ childWatch' = FALSE
  /\ probe' = Cancelled(p)
  /\ verify' = Cancelled(v)
  /\ pid' = "none"
  /\ IF pid = "child"
     THEN child' = "none" /\ mounted' = MountsWithout("child")
     ELSE UNCHANGED <<child, mounted>>

SpawnDaemon(result) ==
  \/ /\ result = "failed"      \* rclone is not found, or cannot be started
     /\ UNCHANGED <<pid, child, childWatch, verifyTimer>>
  \/ /\ result = "none"
     /\ pid' = "child" /\ child' = "alive"
     /\ childWatch' = TRUE /\ verifyTimer' = TRUE

\* The answer to the probe.  result is what the callback of ensure_daemon gets,
\* "none" if it is not called.
ProbeAnswered(result) ==
  /\ probe # "none" /\ probe' = "none"
  /\ \/ /\ probe = "cancelled" /\ result = "none"
        /\ NoLoss /\ UNCHANGED <<pid, child, childWatch, verifyTimer>>
     \/ /\ probe = "live" /\ Serving /\ result = "ok"
        /\ pid' = "adopted"
        /\ NoLoss /\ UNCHANGED <<child, childWatch, verifyTimer>>
     \/ /\ probe = "live" /\ NoAnswer
        /\ SpawnDaemon(result)
  /\ UNCHANGED <<verify, other, mounted>>

VerifyTimer ==
  /\ verifyTimer
  /\ verifyTimer' = FALSE
  /\ verify' = "live"
  /\ UNCHANGED <<pid, childWatch, probe, child, other, mounted, losses>>

VerifyAnswered(result) ==
  /\ verify # "none"
  /\ \/ /\ verify = "cancelled" /\ result = "none" /\ NoLoss
        /\ verify' = "none"
        /\ UNCHANGED <<pid, childWatch, verifyTimer, probe, child, mounted>>
     \/ /\ verify = "live" /\ Serving /\ result = "ok" /\ NoLoss
        /\ verify' = "none"
        /\ UNCHANGED <<pid, childWatch, verifyTimer, probe, child, mounted>>
     \/ /\ verify = "live" /\ result = "failed" /\ NoAnswer
        /\ StopDaemon(probe, "none")
  /\ UNCHANGED other

\* The child watch reaps the process.  Slip: the pid is kept.
ReapKeepsPid == childWatch' = FALSE /\ child' = "none" /\ UNCHANGED pid
Reap == childWatch' = FALSE /\ child' = "none" /\ pid' = "none"

ChildWatch ==
  /\ childWatch /\ child = "zombie"
  /\ Reap
  /\ UNCHANGED <<verifyTimer, probe, verify, other, mounted, losses>>

\* External: either rcd may die at any time, a child that finds the port taken
\* sooner than later.
ChildDies ==
  /\ child = "alive"
  /\ child' = "zombie"
  /\ mounted' = MountsWithout("child")
  /\ UNCHANGED <<pid, childWatch, verifyTimer, probe, verify, other, losses>>

OtherDies ==
  /\ other
  /\ other' = FALSE
  /\ mounted' = MountsWithout("other")
  /\ UNCHANGED <<pid, childWatch, verifyTimer, probe, verify, child, losses>>

\* The daemon's process has ended: its child, if alive, is somebody else's now.
ProcessEnds ==
  /\ pid' = "none" /\ child' = "none" /\ other' = Serving
  /\ childWatch' = FALSE /\ verifyTimer' = FALSE
  /\ probe' = "none" /\ verify' = "none"
  /\ UNCHANGED <<mounted, losses>>

\* ensure_daemon, by the constructor of a fresh process
EnsureDaemon ==
  /\ pid = "none"
  /\ probe' = "live"
  /\ UNCHANGED <<pid, childWatch, verifyTimer, verify, child, other, mounted, losses>>

RcInit ==
  /\ pid = "none" /\ childWatch = FALSE /\ verifyTimer = FALSE
  /\ probe = "none" /\ verify = "none"
  /\ child = "none" /\ other = FALSE
  /\ mounted = {}
  /\ losses = 0

=============================================================================
