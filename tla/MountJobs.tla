------------------------------ MODULE MountJobs ------------------------------
(***************************************************************************)
(* The mount jobs of the daemon (src/src/daemon.cpp) over the rcd process  *)
(* of RcloneRc: mounting, unmounting, the start-up adoption, the health    *)
(* check, edits of the list under live mounts, and the end of the daemon.  *)
(*                                                                         *)
(* stop() may run while other sources of the same main loop iteration are  *)
(* waiting to be dispatched: the daemon is then "draining", its IPC server *)
(* is gone and callbacks still arrive.                                     *)
(***************************************************************************)
EXTENDS RcloneRc, FiniteSets

CONSTANTS
  Jobs,        \* mount jobs, each with a mount point of its own
  Initial,     \* the jobs jobs.json lists at the first start
  Startup,     \* the jobs with mount_at_startup
  Deletable, Editable

ASSUME JobsAssumption ==
  /\ IsFiniteSet(Jobs)
  /\ Initial \subseteq Jobs /\ Startup \subseteq Jobs
  /\ Deletable \subseteq Jobs /\ Editable \subseteq Jobs

VARIABLES
  phase,       \* "up", "draining" after stop(), "off"
  pos,         \* index in m_jobs, 0: absent
  fresh,       \* jobs not yet created
  active,      \* Job::active
  running,     \* Job::running
  submitting,  \* JobState::submitting
  calls,       \* mount/* calls whose callback has not run
  misuse       \* kinds of the callbacks that used the destroyed IPC server

jobVars == <<pos, fresh, active, running, submitting>>
vars    == <<rcVars, phase, jobVars, calls, misuse>>

Kinds == {"mount", "unmount", "health", "startup"}

\* A call: progress is what rcd has made of it, list what it answered to
\* listmounts, n tells calls of one kind for one job apart.
Call(kind, i, S, n) ==
  [kind |-> kind, idx |-> i, jobs |-> S, n |-> n, progress |-> "sent", list |-> {}]
CallType ==
  [kind : Kinds, idx : Nat, jobs : SUBSET Jobs, n : Nat,
   progress : {"sent", "done", "refused"}, list : SUBSET Jobs]

InList(j) == pos[j] # 0
Size      == Cardinality({j \in Jobs : InList(j)})
Of(kind, j) == {c \in calls : c.kind = kind /\ c.jobs = {j}}
Outstanding(kind) == {c \in calls : c.kind = kind}

\* index < m_jobs.size() && m_jobs[index].id == uuid
Valid(c) == \A j \in c.jobs : c.idx # 0 /\ pos[j] = c.idx

-----------------------------------------------------------------------------
(* Mounting and unmounting *)

\* Slip: only the active flag is looked at.
MountedOrMountingBlind(j) == active[j]
\* already_running of a mount job
MountedOrMounting(j) == active[j] \/ submitting[j]

\* on_run_job for the jobs S; the jobs U have just been found mounted.
OnRunJob(S, U, earlier) ==
  LET go == {j \in S : ~MountedOrMounting(j)}
  IN /\ submitting' = [j \in Jobs |-> submitting[j] \/ j \in go]
     /\ running' = [j \in Jobs |-> running[j] \/ j \in go \cup U]
     /\ active' = [j \in Jobs |-> active[j] \/ j \in go \cup U]
     /\ calls' = earlier \cup
          {Call("mount", pos[j], {j}, Cardinality(Of("mount", j))) : j \in go}

\* The request, or a schedule that falls due
RunJob(j) ==
  /\ phase = "up" /\ InList(j)
  /\ OnRunJob({j}, {}, calls)
  /\ UNCHANGED <<rcVars, phase, pos, fresh, misuse>>

\* The request is sent whether or not the job is active.
StopJob(j) ==
  /\ phase = "up" /\ InList(j) /\ Of("unmount", j) = {}
  /\ calls' = calls \cup {Call("unmount", pos[j], {j}, 0)}
  /\ UNCHANGED <<rcVars, phase, jobVars, misuse>>

\* How a call ends for its callback: with a result, or with an error
Succeeds(c, ok) ==
  \/ ok /\ c.progress = "done" /\ NoLoss
  \/ ~ok /\ c.progress = "refused" /\ NoLoss
  \/ ~ok /\ c.progress # "refused" /\ NoAnswer

\* The callback uses the IPC server, which stop() has destroyed.
UsesServer(c) == misuse' = IF phase = "draining" THEN misuse \cup {c.kind} ELSE misuse

ClearSubmitting(c) ==
  submitting' = [j \in Jobs |-> submitting[j] /\ ~(InList(j) /\ pos[j] = c.idx)]

MountAnswered(c, ok) ==
  /\ phase # "off" /\ c \in calls /\ c.kind = "mount" /\ Succeeds(c, ok)
  /\ calls' = calls \ {c}
  /\ ClearSubmitting(c)
  /\ IF Valid(c)
     THEN active' = [j \in Jobs |-> IF j \in c.jobs THEN ok ELSE active[j]] /\ UsesServer(c)
     ELSE UNCHANGED <<active, misuse>>
  /\ UNCHANGED <<pid, childWatch, verifyTimer, probe, verify, child, other, mounted>>
  /\ UNCHANGED <<phase, pos, fresh, running>>

\* The callback does not look at the result.
UnmountAnswered(c, ok) ==
  /\ phase # "off" /\ c \in calls /\ c.kind = "unmount" /\ Succeeds(c, ok)
  /\ calls' = calls \ {c}
  /\ IF Valid(c)
     THEN active' = [j \in Jobs |-> active[j] /\ j \notin c.jobs] /\ UsesServer(c)
     ELSE UNCHANGED <<active, misuse>>
  /\ UNCHANGED <<pid, childWatch, verifyTimer, probe, verify, child, other, mounted>>
  /\ UNCHANGED <<phase, pos, fresh, running, submitting>>

-----------------------------------------------------------------------------
(* Health check and start-up *)

\* Every 60 s; the session's timeout is 20 s, so one check is out at a time.
HealthTimer ==
  /\ phase = "up" /\ Outstanding("health") = {}
  /\ \E j \in Jobs : InList(j) /\ active[j]
  /\ calls' = calls \cup {Call("health", 0, {}, 0)}
  /\ UNCHANGED <<rcVars, phase, jobVars, misuse>>

\* Slips: an error tells nothing; the callback does not look at m_running.
LiveOrUnknown(c, ok) == IF ok THEN c.list ELSE Jobs
Ignores == FALSE

\* live_mounts: a failed listing is an empty one.
LiveMounts(c, ok) == IF ok THEN c.list ELSE {}
\* if (!m_running) return;
Guarded == phase = "draining"

HealthAnswered(c, ok) ==
  LET stale == {j \in Jobs : InList(j) /\ active[j] /\ j \notin LiveMounts(c, ok)}
  IN /\ phase # "off" /\ c \in calls /\ c.kind = "health" /\ Succeeds(c, ok)
     /\ calls' = calls \ {c}
     /\ IF Guarded
        THEN UNCHANGED <<active, running, misuse>>
        ELSE /\ active' = [j \in Jobs |-> active[j] /\ j \notin stale]
             /\ running' = [j \in Jobs |-> running[j] /\ j \notin stale]
             /\ IF stale = {} THEN UNCHANGED misuse ELSE UsesServer(c)
     /\ UNCHANGED <<pid, childWatch, verifyTimer, probe, verify, child, other, mounted>>
     /\ UNCHANGED <<phase, pos, fresh, submitting>>

\* The callback of ensure_daemon asks for the mounts once rcd serves.
EnsureCallback(result) ==
  /\ calls' = IF result = "ok" /\ ~Guarded
              THEN calls \cup {Call("startup", 0, {}, 0)} ELSE calls
  /\ UNCHANGED <<phase, jobVars, misuse>>

StartupAnswered(c, ok) ==
  LET up == {j \in Jobs : InList(j) /\ j \in LiveMounts(c, ok)}
  IN /\ phase # "off" /\ c \in calls /\ c.kind = "startup" /\ Succeeds(c, ok)
     /\ IF Guarded
        THEN calls' = calls \ {c} /\ UNCHANGED <<active, running, submitting, misuse>>
        ELSE /\ OnRunJob({j \in Startup : InList(j)} \ up, up, calls \ {c})
             /\ UsesServer(c)
     /\ UNCHANGED <<pid, childWatch, verifyTimer, probe, verify, child, other, mounted>>
     /\ UNCHANGED <<phase, pos, fresh>>

-----------------------------------------------------------------------------
(* Edits of the list.  They are saved at once, so pos outlives the process. *)

\* Slip: m_jobs.size() instead of size() - 1 after push_back
NewIndexPast == Size + 2
NewIndex == Size + 1

AddJob(j) ==
  /\ phase = "up" /\ j \in fresh
  /\ fresh' = fresh \ {j}
  /\ pos' = [pos EXCEPT ![j] = NewIndex]
  /\ UNCHANGED <<rcVars, phase, active, running, submitting, calls, misuse>>

\* The GUI's job carries neither flag.
UpdateJob(j) ==
  /\ phase = "up" /\ InList(j) /\ j \in Editable
  /\ active' = [active EXCEPT ![j] = FALSE]
  /\ running' = [running EXCEPT ![j] = FALSE]
  /\ UNCHANGED <<rcVars, phase, pos, fresh, submitting, calls, misuse>>

\* Nothing is unmounted.
DeleteJob(j) ==
  /\ phase = "up" /\ InList(j) /\ j \in Deletable
  /\ pos' = [k \in Jobs |-> IF k = j THEN 0
                            ELSE IF pos[k] > pos[j] THEN pos[k] - 1 ELSE pos[k]]
  /\ active' = [active EXCEPT ![j] = FALSE]
  /\ running' = [running EXCEPT ![j] = FALSE]
  /\ submitting' = [submitting EXCEPT ![j] = FALSE]
  /\ UNCHANGED <<rcVars, phase, fresh, calls, misuse>>

-----------------------------------------------------------------------------
(* The rcd process, for the daemon *)

Probe  == \E r \in {"none", "ok", "failed"} :
            phase # "off" /\ ProbeAnswered(r) /\ EnsureCallback(r)
Verify == \E r \in {"none", "ok", "failed"} :
            phase # "off" /\ VerifyAnswered(r) /\ EnsureCallback(r)

RcStep ==
  /\ phase # "off"
  /\ VerifyTimer \/ ChildWatch \/ ChildDies
  /\ UNCHANGED <<phase, jobVars, calls, misuse>>

\* External: rcd executes a mount call; a mount point that is up is refused, as
\* is whatever the system refuses.  A mount can also die on its own.
RcdHandles(c) ==
  /\ c \in calls /\ c.progress = "sent" /\ Serving
  /\ \/ /\ c.kind = "mount" /\ c.jobs \cap mounted = {}
        /\ mounted' = mounted \cup c.jobs
        /\ calls' = (calls \ {c}) \cup {[c EXCEPT !.progress = "done"]}
     \/ /\ c.kind = "unmount" /\ c.jobs \subseteq mounted
        /\ mounted' = mounted \ c.jobs
        /\ calls' = (calls \ {c}) \cup {[c EXCEPT !.progress = "done"]}
     \/ /\ c.kind \in {"mount", "unmount"}
        /\ calls' = (calls \ {c}) \cup {[c EXCEPT !.progress = "refused"]}
        /\ UNCHANGED mounted
     \/ /\ c.kind \in {"health", "startup"}
        /\ calls' = (calls \ {c}) \cup {[c EXCEPT !.progress = "done", !.list = mounted]}
        /\ UNCHANGED mounted
  /\ UNCHANGED <<pid, childWatch, verifyTimer, probe, verify, child, other, losses>>
  /\ UNCHANGED <<phase, jobVars, misuse>>

MountDies(j) ==
  /\ j \in mounted /\ mounted' = mounted \ {j}
  /\ UNCHANGED <<pid, childWatch, verifyTimer, probe, verify, child, other, losses>>
  /\ UNCHANGED <<phase, jobVars, calls, misuse>>

OtherRcdDies == OtherDies /\ UNCHANGED <<phase, jobVars, calls, misuse>>

-----------------------------------------------------------------------------
(* Stop, crash and start of the daemon *)

Stop ==
  /\ phase = "up" /\ phase' = "draining"
  /\ StopDaemon(probe, verify)
  /\ submitting' = [j \in Jobs |-> FALSE]
  /\ UNCHANGED <<other, losses, pos, fresh, active, running, calls, misuse>>

\* The main loop ends after stop(), or the process dies before.
Exit ==
  /\ phase # "off" /\ phase' = "off"
  /\ ProcessEnds
  /\ calls' = {} /\ misuse' = {}
  /\ submitting' = [j \in Jobs |-> FALSE]
  /\ UNCHANGED <<pos, fresh, active, running>>

Boot ==
  /\ phase = "off" /\ phase' = "up"
  /\ EnsureDaemon
  /\ active' = [j \in Jobs |-> FALSE]
  /\ running' = [j \in Jobs |-> FALSE]
  /\ UNCHANGED <<pos, fresh, submitting, calls, misuse>>

Init ==
  /\ RcInit
  /\ phase = "off"
  /\ pos \in [Jobs -> 0..Cardinality(Initial)]
  /\ \A j \in Jobs : (pos[j] = 0) <=> (j \notin Initial)
  /\ \A j, k \in Initial : pos[j] = pos[k] => j = k
  /\ fresh = Jobs \ Initial
  /\ active = [j \in Jobs |-> FALSE]
  /\ running = [j \in Jobs |-> FALSE]
  /\ submitting = [j \in Jobs |-> FALSE]
  /\ calls = {} /\ misuse = {}

Answers ==
  \E c \in calls, ok \in BOOLEAN :
    MountAnswered(c, ok) \/ UnmountAnswered(c, ok)
    \/ HealthAnswered(c, ok) \/ StartupAnswered(c, ok)

Edits == \E j \in Jobs : AddJob(j) \/ UpdateJob(j) \/ DeleteJob(j)

Next ==
  \/ \E j \in Jobs : RunJob(j) \/ StopJob(j) \/ MountDies(j)
  \/ Edits
  \/ HealthTimer \/ Answers
  \/ \E c \in calls : RcdHandles(c)
  \/ Probe \/ Verify \/ RcStep \/ OtherRcdDies
  \/ Stop \/ Exit \/ Boot

Spec == Init /\ [][Next]_vars

\* The timer fires; rcd answers or the session's timeout ends the call.
FairSpec ==
  /\ Spec
  /\ WF_vars(HealthTimer)
  /\ WF_vars(\E c \in Outstanding("health") : RcdHandles(c))
  /\ WF_vars(\E c \in Outstanding("health"), ok \in BOOLEAN : HealthAnswered(c, ok))

-----------------------------------------------------------------------------
(* Properties *)

\* Every variable has its type; pos numbers the list without gaps.
TypeOK ==
  /\ RcTypeOK
  /\ mounted \subseteq Jobs
  /\ phase \in {"up", "draining", "off"}
  /\ pos \in [Jobs -> Nat] /\ fresh \subseteq Jobs
  /\ {pos[j] : j \in {k \in Jobs : InList(k)}} = 1..Size
  /\ active \in [Jobs -> BOOLEAN] /\ running \in [Jobs -> BOOLEAN]
  /\ submitting \in [Jobs -> BOOLEAN]
  /\ calls \subseteq CallType /\ misuse \subseteq Kinds

\* The daemon signals and reaps m_daemon_pid only while it is the pid of a child
\* it has not reaped, and watches exactly that child (rclone_rc.cpp:207-217, 276-295).
PidIsOurs ==
  /\ pid = "child" <=> child # "none"
  /\ childWatch <=> pid = "child"

\* After stop() no rcd of the daemon runs, and no answer that is still to come
\* starts one (rclone_rc.cpp:137, 258-274).
StopEndsChild == phase # "up" => child = "none" /\ ~verifyTimer

\* The start-up and health callbacks return before they touch the IPC server that
\* stop() has destroyed (daemon.cpp:295, 300, 344).
StartupQuiet == misuse \cap {"health", "startup"} = {}

\* While no other job is deleted, a job has at most one mount request outstanding, even
\* if a health check, an unmount or an edit clears its active flag meanwhile
\* (daemon.cpp:519-530).
OneMount == \A j \in Jobs : Cardinality(Of("mount", j)) <= 1

\* A job shown as mounted while its mount is gone is found out (daemon.cpp:334-366).
Healed ==
  \A j \in Jobs :
    phase = "up" /\ InList(j) /\ active[j] /\ j \notin mounted
      ~> phase # "up" \/ ~active[j] \/ j \in mounted

\* A mount job that the list reports as running, which the job view shows as
\* mounted, is active (job_view.cpp:590-596).
ShownIsActive == phase = "up" => \A j \in Jobs : InList(j) /\ running[j] => active[j]

=============================================================================
