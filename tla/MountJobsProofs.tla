--------------------------- MODULE MountJobsProofs ---------------------------
(***************************************************************************)
(* What MountJobs promises about the list, the rcd process, the requests   *)
(* and the end of the daemon, for any set of mount jobs and any number of  *)
(* lost answers.                                                           *)
(***************************************************************************)
EXTENDS MountJobs, FiniteSetTheorems, TLAPS

\* PidIsOurs and StopEndsChild are kept by what else is true of the pid: it is not
\* overwritten, because the probe is answered only while there is none, and after
\* stop() no live call and no timer is left that could set it.
RcInv ==
  /\ PidIsOurs
  /\ probe = "live" => pid = "none"
  /\ phase # "up" => /\ pid = "none" /\ ~verifyTimer
                     /\ probe # "live" /\ verify # "live"

\* What the conjuncts of RcInv say of the rc variables alone.
rcOnly == <<pid, childWatch, verifyTimer, probe, verify, child>>

LEMMA RcInvImplies == RcInv => PidIsOurs /\ StopEndsChild
BY DEF RcInv, PidIsOurs, StopEndsChild

LEMMA InitRcInv == Init => RcInv
BY DEF Init, RcInit, RcInv, PidIsOurs

\* The steps of the jobs leave the process alone.
LEMMA JobsLeaveRc ==
  ASSUME RcInv, UNCHANGED <<rcOnly, phase>>
  PROVE  RcInv'
BY DEF RcInv, PidIsOurs, rcOnly

LEMMA ProbeKeepsRcInv == ASSUME RcInv, Probe PROVE RcInv'
<1>1. PICK r \in {"none", "ok", "failed"} : phase # "off" /\ ProbeAnswered(r) /\ EnsureCallback(r)
  BY DEF Probe
<1>2. phase' = phase /\ verify' = verify /\ probe' = "none"
  BY <1>1 DEF EnsureCallback, ProbeAnswered
<1>3. CASE probe # "live"
  <2>1. UNCHANGED <<pid, child, childWatch, verifyTimer>>
    BY <1>1, <1>3 DEF ProbeAnswered
  <2> QED BY <1>2, <2>1 DEF RcInv, PidIsOurs
<1>4. CASE probe = "live"
  <2>1. phase = "up" /\ pid = "none" /\ child = "none" /\ ~childWatch
    BY <1>4 DEF RcInv, PidIsOurs
  <2>2. CASE UNCHANGED <<child, childWatch>> /\ pid' \in {"adopted", pid}
    BY <1>2, <2>1, <2>2 DEF RcInv, PidIsOurs
  <2>3. CASE pid' = "child" /\ child' = "alive" /\ childWatch' = TRUE
    BY <1>2, <2>1, <2>3 DEF RcInv, PidIsOurs
  <2> QED BY <1>1, <1>4, <2>2, <2>3 DEF ProbeAnswered, SpawnDaemon
<1> QED BY <1>3, <1>4

LEMMA VerifyKeepsRcInv == ASSUME RcInv, Verify PROVE RcInv'
<1>1. PICK r \in {"none", "ok", "failed"} : phase # "off" /\ VerifyAnswered(r) /\ EnsureCallback(r)
  BY DEF Verify
<1>2. phase' = phase
  BY <1>1 DEF EnsureCallback
<1>3. CASE verify' = "none" /\ UNCHANGED <<pid, childWatch, verifyTimer, probe, child>>
  BY <1>2, <1>3 DEF RcInv, PidIsOurs
<1>4. CASE verify = "live" /\ StopDaemon(probe, "none")
  BY <1>2, <1>4 DEF RcInv, PidIsOurs, StopDaemon, Cancelled
<1> QED BY <1>1, <1>3, <1>4 DEF VerifyAnswered

LEMMA RcStepKeepsRcInv == ASSUME RcInv, RcStep PROVE RcInv'
<1>1. CASE VerifyTimer
  BY <1>1 DEF RcStep, VerifyTimer, RcInv, PidIsOurs
<1>2. CASE ChildWatch
  BY <1>2 DEF RcStep, ChildWatch, Reap, RcInv, PidIsOurs
<1>3. CASE ChildDies
  BY <1>3 DEF RcStep, ChildDies, RcInv, PidIsOurs
<1> QED BY <1>1, <1>2, <1>3 DEF RcStep

LEMMA StopKeepsRcInv == ASSUME RcInv, Stop PROVE RcInv'
BY DEF Stop, StopDaemon, Cancelled, RcInv, PidIsOurs

LEMMA ExitKeepsRcInv == ASSUME RcInv, Exit PROVE RcInv'
BY DEF Exit, ProcessEnds, RcInv, PidIsOurs

LEMMA BootKeepsRcInv == ASSUME RcInv, Boot PROVE RcInv'
BY DEF Boot, EnsureDaemon, RcInv, PidIsOurs

LEMMA NextKeepsRcInv == ASSUME RcInv, [Next]_vars PROVE RcInv'
<1>1. CASE UNCHANGED vars
  BY <1>1, JobsLeaveRc DEF vars, rcVars, rcOnly
<1>2. CASE \E j \in Jobs : RunJob(j) \/ StopJob(j) \/ MountDies(j)
  BY <1>2, JobsLeaveRc DEF RunJob, StopJob, MountDies, rcVars, rcOnly
<1>3. CASE Edits
  BY <1>3, JobsLeaveRc DEF Edits, AddJob, UpdateJob, DeleteJob, rcVars, rcOnly
<1>4. CASE HealthTimer \/ \E c \in calls : RcdHandles(c)
  BY <1>4, JobsLeaveRc DEF HealthTimer, RcdHandles, rcVars, rcOnly
<1>5. CASE Answers
  BY <1>5, JobsLeaveRc DEF Answers, MountAnswered, UnmountAnswered, HealthAnswered,
                           StartupAnswered, rcOnly
<1>6. CASE OtherRcdDies
  BY <1>6, JobsLeaveRc DEF OtherRcdDies, OtherDies, rcOnly
<1> QED
  BY <1>1, <1>2, <1>3, <1>4, <1>5, <1>6, ProbeKeepsRcInv, VerifyKeepsRcInv, RcStepKeepsRcInv,
     StopKeepsRcInv, ExitKeepsRcInv, BootKeepsRcInv DEF Next

LEMMA RcAlways == Spec => []RcInv
<1>1. RcInv /\ [Next]_vars => RcInv'
  BY NextKeepsRcInv
<1> QED BY <1>1, InitRcInv, PTL DEF Spec

\* The pid that the daemon signals and reaps is that of a child it has not reaped,
\* and that child is the one it watches.
THEOREM RcdIsOurs == Spec => []PidIsOurs
BY RcAlways, RcInvImplies, PTL

\* After stop() the daemon has no rcd and nothing left that would start one.
THEOREM StopIsFinal == Spec => []StopEndsChild
BY RcAlways, RcInvImplies, PTL

-----------------------------------------------------------------------------

LEMMA NextKeepsStartupQuiet ==
  ASSUME StartupQuiet, [Next]_vars
  PROVE  StartupQuiet'
<1>1. CASE UNCHANGED misuse
  BY <1>1 DEF StartupQuiet
<1>2. CASE Answers
  <2>1. PICK c \in calls, ok \in BOOLEAN :
          \/ MountAnswered(c, ok) \/ UnmountAnswered(c, ok)
          \/ HealthAnswered(c, ok) \/ StartupAnswered(c, ok)
    BY <1>2 DEF Answers
  <2>2. CASE MountAnswered(c, ok) \/ UnmountAnswered(c, ok)
    BY <2>2 DEF MountAnswered, UnmountAnswered, UsesServer, StartupQuiet
  <2>3. CASE HealthAnswered(c, ok) \/ StartupAnswered(c, ok)
    BY <2>3, <1>1 DEF HealthAnswered, StartupAnswered, UsesServer, Guarded
  <2> QED BY <2>1, <2>2, <2>3
<1>3. CASE Exit
  BY <1>3 DEF Exit, StartupQuiet
<1> QED
  BY <1>1, <1>2, <1>3 DEF Next, Edits, RunJob, StopJob, MountDies, AddJob, UpdateJob, DeleteJob,
     HealthTimer, RcdHandles, Probe, Verify, EnsureCallback, RcStep, OtherRcdDies, Stop, Boot, vars

\* The start-up and health callbacks never reach the IPC server that stop() has
\* destroyed, whatever the order of the answers and of the end of the daemon.
THEOREM CallbacksQuiet == Spec => []StartupQuiet
<1>1. Init => StartupQuiet
  BY DEF Init, StartupQuiet
<1>2. StartupQuiet /\ [Next]_vars => StartupQuiet'
  BY NextKeepsStartupQuiet
<1> QED BY <1>1, <1>2, PTL DEF Spec

-----------------------------------------------------------------------------
(* The list and the types *)

Listed(P) == {j \in Jobs : P[j] # 0}

\* The list has no gaps and one job at an index.
Numbered(P) ==
  /\ {P[j] : j \in Listed(P)} = 1..Cardinality(Listed(P))
  /\ \A i, j \in Listed(P) : P[i] = P[j] => i = j

LEMMA ListedFinite ==
  ASSUME NEW P
  PROVE  IsFiniteSet(Listed(P)) /\ Cardinality(Listed(P)) \in Nat
<1>1. Listed(P) \in SUBSET Jobs BY DEF Listed
<1> QED BY <1>1, JobsAssumption, FS_Subset, FS_CardinalityType

\* jobs.json numbers its jobs.
LEMMA InitNumbered ==
  ASSUME NEW P \in [Jobs -> 0..Cardinality(Initial)],
         \A j \in Jobs : (P[j] = 0) <=> (j \notin Initial),
         \A j, k \in Initial : P[j] = P[k] => j = k
  PROVE  Numbered(P)
<1> DEFINE n == Cardinality(Initial)
           f == [j \in Initial |-> P[j]]
<1>1. Listed(P) = Initial BY JobsAssumption DEF Listed
<1>2. IsFiniteSet(Initial) /\ n \in Nat BY <1>1, ListedFinite
<1>3. \A j \in Initial : P[j] \in 1..n BY <1>2, JobsAssumption
<1>4. IsFiniteSet(1..n) /\ Cardinality(1..n) = n BY <1>2, FS_Interval
<1>5. f \in Injection(Initial, 1..n) BY <1>3 DEF Injection, IsInjective
<1>6. f \in Surjection(Initial, 1..n) BY <1>4, <1>5, FS_Injection
<1>7. \A m \in 1..n : \E j \in Initial : P[j] = m
  <2> SUFFICES ASSUME NEW m \in 1..n PROVE \E j \in Initial : f[j] = m
    OBVIOUS
  <2> HIDE DEF f
  <2> QED BY <1>6 DEF Surjection
<1>8. {P[j] : j \in Initial} = 1..n BY <1>3, <1>7
<1> QED BY <1>1, <1>8 DEF Numbered

\* A new job comes last, ...
LEMMA AddNumbered ==
  ASSUME NEW P \in [Jobs -> Nat], Numbered(P), NEW j \in Jobs, P[j] = 0
  PROVE  Numbered([P EXCEPT ![j] = Cardinality(Listed(P)) + 1])
<1> DEFINE n == Cardinality(Listed(P))
           Q == [P EXCEPT ![j] = n + 1]
<1>1. IsFiniteSet(Listed(P)) /\ n \in Nat /\ j \notin Listed(P) BY ListedFinite DEF Listed
<1>2. Listed(Q) = Listed(P) \cup {j} BY <1>1 DEF Listed
<1>3. Cardinality(Listed(Q)) = n + 1 BY <1>1, <1>2, FS_AddElement
<1>4. \A i \in Listed(P) : Q[i] = P[i] /\ P[i] \in 1..n BY <1>1 DEF Numbered, Listed
<1>5. Q[j] = n + 1 OBVIOUS
<1>6. {P[i] : i \in Listed(P)} = 1..n BY DEF Numbered
<1> HIDE DEF Q, n
<1>7. {Q[i] : i \in Listed(Q)} = 1..(n + 1) BY <1>1, <1>2, <1>4, <1>5, <1>6
<1>8. \A i, k \in Listed(Q) : Q[i] = Q[k] => i = k
  BY <1>1, <1>2, <1>4, <1>5 DEF Numbered
<1> QED BY <1>3, <1>7, <1>8 DEF Numbered, Q, n

\* ... and a deletion closes the gap it leaves.
LEMMA DeleteNumbered ==
  ASSUME NEW P \in [Jobs -> Nat], Numbered(P), NEW j \in Jobs, P[j] # 0
  PROVE  LET Q == [k \in Jobs |-> IF k = j THEN 0 ELSE IF P[k] > P[j] THEN P[k] - 1 ELSE P[k]]
         IN  Q \in [Jobs -> Nat] /\ Numbered(Q)
<1> DEFINE n == Cardinality(Listed(P))
           Q == [k \in Jobs |-> IF k = j THEN 0 ELSE IF P[k] > P[j] THEN P[k] - 1 ELSE P[k]]
<1>1. IsFiniteSet(Listed(P)) /\ n \in Nat /\ j \in Listed(P) BY ListedFinite DEF Listed
<1>2. \A i \in Listed(P) : P[i] \in 1..n BY DEF Numbered
<1>3. \A i \in Listed(P) : i # j => P[i] # P[j] BY <1>1 DEF Numbered
<1>0. Q \in [Jobs -> Nat] OBVIOUS
<1>4. Listed(Q) = Listed(P) \ {j} BY DEF Listed
<1>5. Cardinality(Listed(Q)) = n - 1 BY <1>1, <1>4, FS_RemoveElement
<1>6. \A i \in Listed(P) : i # j => Q[i] = IF P[i] > P[j] THEN P[i] - 1 ELSE P[i]
  BY DEF Listed
<1> HIDE DEF Q
<1>7. \A i \in Listed(Q) : Q[i] \in 1..(n - 1)
  <2> SUFFICES ASSUME NEW i \in Listed(Q) PROVE Q[i] \in 1..(n - 1)
    OBVIOUS
  <2>1. i \in Listed(P) /\ i # j BY <1>4
  <2> QED BY <1>1, <1>2, <1>3, <1>6, <2>1
<1>8. \A m \in 1..(n - 1) : \E i \in Listed(Q) : Q[i] = m
  <2> SUFFICES ASSUME NEW m \in 1..(n - 1) PROVE \E i \in Listed(Q) : Q[i] = m
    OBVIOUS
  <2>1. CASE m < P[j]
    <3>1. PICK i \in Listed(P) : P[i] = m BY <1>1 DEF Numbered
    <3> QED BY <1>1, <1>2, <1>4, <1>6, <2>1, <3>1
  <2>2. CASE ~(m < P[j])
    <3>1. m + 1 \in 1..n BY <1>1
    <3>2. PICK i \in Listed(P) : P[i] = m + 1 BY <3>1 DEF Numbered
    <3> QED BY <1>1, <1>2, <1>4, <1>6, <2>2, <3>2
  <2> QED BY <2>1, <2>2
<1>9. {Q[i] : i \in Listed(Q)} = 1..(n - 1) BY <1>7, <1>8
<1>10. \A i, k \in Listed(Q) : Q[i] = Q[k] => i = k
  <2> SUFFICES ASSUME NEW i \in Listed(Q), NEW k \in Listed(Q), Q[i] = Q[k] PROVE i = k
    OBVIOUS
  <2>1. i \in Listed(P) /\ i # j /\ k \in Listed(P) /\ k # j BY <1>4
  <2>2. P[i] = P[k] BY <1>1, <1>2, <1>3, <1>6, <2>1
  <2> QED BY <2>1, <2>2 DEF Numbered
<1>11. Numbered(Q) BY <1>5, <1>9, <1>10 DEF Numbered
<1> QED BY <1>0, <1>11 DEF Q

\* The calls are finitely many, the list is one, and no job is created twice.
ShapeInv ==
  /\ TypeOK /\ Numbered(pos) /\ IsFiniteSet(calls)
  /\ \A j \in fresh : pos[j] = 0

LEMMA NumberedShape ==
  ASSUME Numbered(pos)
  PROVE  {pos[j] : j \in {k \in Jobs : InList(k)}} = 1..Size
BY DEF Numbered, Listed, InList, Size

LEMMA InitShape == Init => ShapeInv
<1> SUFFICES ASSUME Init PROVE ShapeInv
  OBVIOUS
<1>1. Numbered(pos) BY InitNumbered DEF Init
<1>2. IsFiniteSet(calls) BY FS_EmptySet DEF Init
<1>3. Cardinality(Initial) \in Nat BY JobsAssumption, FS_Subset, FS_CardinalityType
<1>4. RcTypeOK BY DEF Init, RcInit, RcTypeOK, CallStates
<1>5. \A j \in fresh : pos[j] = 0 BY JobsAssumption DEF Init
<1> QED BY <1>1, <1>2, <1>3, <1>4, <1>5, NumberedShape DEF ShapeInv, TypeOK, Init, RcInit

\* A request that on_run_job sends
LEMMA RunShape ==
  ASSUME ShapeInv, NEW S \in SUBSET Jobs, NEW U, NEW earlier \in SUBSET calls,
         OnRunJob(S, U, earlier)
  PROVE  /\ calls' \subseteq CallType /\ IsFiniteSet(calls')
         /\ active' \in [Jobs -> BOOLEAN] /\ running' \in [Jobs -> BOOLEAN]
         /\ submitting' \in [Jobs -> BOOLEAN]
<1> DEFINE go == {j \in S : ~MountedOrMounting(j)}
           f == [j \in go |-> Call("mount", pos[j], {j}, Cardinality(Of("mount", j)))]
           new == {f[j] : j \in go}
<1>1. calls' = earlier \cup new BY DEF OnRunJob
<1>2. ASSUME NEW j \in Jobs PROVE Cardinality(Of("mount", j)) \in Nat
  <2>1. Of("mount", j) \in SUBSET calls BY DEF Of
  <2> QED BY <2>1, FS_Subset, FS_CardinalityType DEF ShapeInv
<1>3. \A j \in go : f[j] \in CallType
  BY <1>2 DEF Call, CallType, Kinds, ShapeInv, TypeOK
<1>4. IsFiniteSet(go) BY JobsAssumption, FS_Subset
<1>5. f \in Surjection(go, new) BY DEF Surjection
<1>6. IsFiniteSet(new) BY <1>4, <1>5, FS_Surjection
<1>7. IsFiniteSet(earlier) BY FS_Subset DEF ShapeInv
<1>8. new \subseteq CallType BY <1>3
<1>9. calls \subseteq CallType BY DEF ShapeInv, TypeOK
<1> HIDE DEF new
<1>10. calls' \subseteq CallType /\ IsFiniteSet(calls') BY <1>1, <1>6, <1>7, <1>8, <1>9, FS_Union
<1> QED BY <1>10 DEF OnRunJob, ShapeInv, TypeOK

\* One more call, one less, or one that rcd has looked at
LEMMA CallsShape ==
  ASSUME ShapeInv,
         \/ calls' \subseteq calls
         \/ \E c \in CallType : calls' = calls \cup {c}
         \/ \E c \in CallType : \E d \in calls : calls' = (calls \ {d}) \cup {c}
  PROVE  calls' \subseteq CallType /\ IsFiniteSet(calls')
<1>1. IsFiniteSet(calls) /\ calls \subseteq CallType BY DEF ShapeInv, TypeOK
<1>2. CASE calls' \subseteq calls BY <1>1, <1>2, FS_Subset
<1>3. CASE \E c \in CallType : calls' = calls \cup {c} BY <1>1, <1>3, FS_AddElement
<1>4. CASE \E c \in CallType : \E d \in calls : calls' = (calls \ {d}) \cup {c}
  <2>1. PICK c \in CallType, d \in calls : calls' = (calls \ {d}) \cup {c} BY <1>4
  <2>2. IsFiniteSet(calls \ {d}) BY <1>1, FS_RemoveElement
  <2>3. IsFiniteSet((calls \ {d}) \cup {c}) BY <2>2, FS_AddElement
  <2> QED BY <1>1, <2>1, <2>3
<1> QED BY <1>2, <1>3, <1>4

\* The rc variables keep their types, whatever is done to the process.
LEMMA RcShape ==
  ASSUME RcTypeOK, mounted \subseteq Jobs,
         \/ \E r \in {"none", "ok", "failed"} : ProbeAnswered(r) \/ VerifyAnswered(r)
         \/ VerifyTimer \/ ChildWatch \/ ChildDies \/ OtherDies \/ ProcessEnds \/ EnsureDaemon
         \/ StopDaemon(probe, verify) /\ UNCHANGED <<other, losses>>
  PROVE  RcTypeOK' /\ mounted' \subseteq Jobs
<1>n. NoAnswer => losses' \in Nat BY DEF NoAnswer, Lose, NoLoss, RcTypeOK
<1>s. ASSUME StopDaemon(probe, verify) \/ StopDaemon(probe, "none"), losses' \in Nat, other' = other
      PROVE  RcTypeOK' /\ mounted' \subseteq Jobs
  BY <1>s DEF StopDaemon, Cancelled, MountsWithout, RcTypeOK, CallStates
<1>1. ASSUME NEW r, ProbeAnswered(r) PROVE RcTypeOK' /\ mounted' \subseteq Jobs
  <2>1. losses' \in Nat BY <1>1, <1>n DEF ProbeAnswered, NoLoss, RcTypeOK
  <2> QED BY <1>1, <2>1 DEF ProbeAnswered, SpawnDaemon, RcTypeOK, CallStates
<1>2. ASSUME NEW r, VerifyAnswered(r) PROVE RcTypeOK' /\ mounted' \subseteq Jobs
  <2>1. losses' \in Nat /\ other' = other BY <1>2, <1>n DEF VerifyAnswered, NoLoss, RcTypeOK
  <2>2. CASE StopDaemon(probe, "none") BY <1>s, <2>1, <2>2
  <2>3. CASE verify' = "none" /\ UNCHANGED <<pid, childWatch, verifyTimer, probe, child, mounted>>
    BY <2>1, <2>3 DEF RcTypeOK, CallStates
  <2> QED BY <1>2, <2>2, <2>3 DEF VerifyAnswered
<1>3. CASE VerifyTimer \/ ChildWatch \/ ChildDies \/ OtherDies \/ ProcessEnds \/ EnsureDaemon
  BY <1>3 DEF VerifyTimer, ChildWatch, Reap, ChildDies, OtherDies, ProcessEnds, EnsureDaemon,
              MountsWithout, Serving, RcTypeOK, CallStates
<1>4. CASE StopDaemon(probe, verify) /\ UNCHANGED <<other, losses>>
  BY <1>4, <1>s DEF RcTypeOK
<1> QED BY <1>1, <1>2, <1>3, <1>4

RcSame == UNCHANGED <<pid, childWatch, verifyTimer, probe, verify, child, other, mounted>>

\* What an answer or a step of the rcd process leaves of the types
LEMMA AnswersShape ==
  ASSUME ShapeInv, NEW c \in calls, NEW ok \in BOOLEAN,
         \/ MountAnswered(c, ok) \/ UnmountAnswered(c, ok)
         \/ HealthAnswered(c, ok) \/ StartupAnswered(c, ok)
  PROVE  ShapeInv'
<1>t. /\ RcTypeOK /\ mounted \subseteq Jobs /\ phase \in {"up", "draining", "off"}
      /\ pos \in [Jobs -> Nat] /\ fresh \subseteq Jobs /\ misuse \subseteq Kinds
      /\ active \in [Jobs -> BOOLEAN] /\ running \in [Jobs -> BOOLEAN]
      /\ submitting \in [Jobs -> BOOLEAN]
      /\ c.kind \in Kinds
  BY DEF ShapeInv, TypeOK, CallType
<1>1. losses' \in Nat
  <2>1. Succeeds(c, ok)
    BY DEF MountAnswered, UnmountAnswered, HealthAnswered, StartupAnswered
  <2> QED BY <1>t, <2>1 DEF Succeeds, NoLoss, NoAnswer, Lose, RcTypeOK
<1>2. RcSame /\ UNCHANGED <<phase, pos, fresh>>
  BY DEF MountAnswered, UnmountAnswered, HealthAnswered, StartupAnswered, RcSame
<1>3. RcTypeOK' /\ mounted' \subseteq Jobs BY <1>t, <1>1, <1>2 DEF RcSame, RcTypeOK
<1>4. misuse' \subseteq Kinds
  BY <1>t DEF MountAnswered, UnmountAnswered, HealthAnswered, StartupAnswered, UsesServer
<1>5. /\ calls' \subseteq CallType /\ IsFiniteSet(calls')
      /\ active' \in [Jobs -> BOOLEAN] /\ running' \in [Jobs -> BOOLEAN]
      /\ submitting' \in [Jobs -> BOOLEAN]
  <2>1. CASE MountAnswered(c, ok) \/ UnmountAnswered(c, ok) \/ HealthAnswered(c, ok)
    <3>1. calls' \subseteq calls
      BY <2>1 DEF MountAnswered, UnmountAnswered, HealthAnswered
    <3>2. /\ active' \in [Jobs -> BOOLEAN] /\ running' \in [Jobs -> BOOLEAN]
          /\ submitting' \in [Jobs -> BOOLEAN]
      BY <1>t, <2>1 DEF MountAnswered, UnmountAnswered, HealthAnswered, ClearSubmitting
    <3> QED BY <3>1, <3>2, CallsShape
  <2>2. CASE StartupAnswered(c, ok)
    <3>1. CASE calls' = calls \ {c} /\ UNCHANGED <<active, running, submitting, misuse>>
      <4>1. calls' \subseteq calls BY <3>1
      <4> QED BY <1>t, <3>1, <4>1, CallsShape
    <3> DEFINE up == {j \in Jobs : InList(j) /\ j \in LiveMounts(c, ok)}
               S  == {j \in Startup : InList(j)} \ up
    <3>2. CASE OnRunJob(S, up, calls \ {c})
      <4>1. S \in SUBSET Jobs BY JobsAssumption
      <4> HIDE DEF S, up
      <4> QED BY <3>2, <4>1, RunShape
    <3> QED BY <2>2, <3>1, <3>2 DEF StartupAnswered
  <2> QED BY <2>1, <2>2
<1>6. Numbered(pos)' BY <1>2 DEF ShapeInv, Numbered, Listed
<1>7. \A j \in fresh' : pos'[j] = 0 BY <1>2 DEF ShapeInv
<1> QED BY <1>t, <1>2, <1>3, <1>4, <1>5, <1>6, <1>7, NumberedShape
        DEF ShapeInv, TypeOK, InList, Size

\* A step that touches neither the list nor the requests
LEMMA ProcessShape ==
  ASSUME ShapeInv, RcTypeOK', mounted' \subseteq Jobs, phase' \in {"up", "draining", "off"},
         UNCHANGED <<pos, fresh>>, calls' \subseteq CallType, IsFiniteSet(calls'),
         misuse' \subseteq Kinds,
         active' \in [Jobs -> BOOLEAN], running' \in [Jobs -> BOOLEAN],
         submitting' \in [Jobs -> BOOLEAN]
  PROVE  ShapeInv'
<1>1. Numbered(pos)' BY DEF ShapeInv, Numbered, Listed
<1> QED BY <1>1, NumberedShape DEF ShapeInv, TypeOK, InList, Size

\* An edit of the list leaves it a list.
LEMMA EditsShape == ASSUME ShapeInv, Edits PROVE ShapeInv'
<1>t. /\ RcTypeOK /\ mounted \subseteq Jobs /\ phase \in {"up", "draining", "off"}
      /\ pos \in [Jobs -> Nat] /\ fresh \subseteq Jobs /\ misuse \subseteq Kinds
      /\ active \in [Jobs -> BOOLEAN] /\ running \in [Jobs -> BOOLEAN]
      /\ submitting \in [Jobs -> BOOLEAN] /\ calls \subseteq CallType
      /\ IsFiniteSet(calls) /\ Numbered(pos) /\ \A j \in fresh : pos[j] = 0
  BY DEF ShapeInv, TypeOK
<1>1. PICK j \in Jobs : AddJob(j) \/ UpdateJob(j) \/ DeleteJob(j) BY DEF Edits
<1>2. RcTypeOK' /\ mounted' \subseteq Jobs
  BY <1>t, <1>1 DEF AddJob, UpdateJob, DeleteJob, rcVars, RcTypeOK
<1>3. /\ phase' = phase /\ misuse' = misuse /\ calls' = calls /\ fresh' \subseteq fresh
      /\ active' \in [Jobs -> BOOLEAN] /\ running' \in [Jobs -> BOOLEAN]
      /\ submitting' \in [Jobs -> BOOLEAN]
  BY <1>t, <1>1 DEF AddJob, UpdateJob, DeleteJob
<1>4. pos' \in [Jobs -> Nat] /\ Numbered(pos)' /\ \A k \in fresh' : pos'[k] = 0
  <2>1. CASE AddJob(j)
    <3>1. Size = Cardinality(Listed(pos)) BY DEF Size, Listed, InList
    <3>2. pos' = [pos EXCEPT ![j] = Cardinality(Listed(pos)) + 1] /\ fresh' = fresh \ {j}
      BY <2>1, <3>1 DEF AddJob, NewIndex
    <3>3. pos[j] = 0 BY <1>t, <2>1 DEF AddJob
    <3>4. Numbered([pos EXCEPT ![j] = Cardinality(Listed(pos)) + 1]) BY <1>t, <3>3, AddNumbered
    <3>5. Numbered(pos') BY <3>2, <3>4
    <3>6. Cardinality(Listed(pos)) \in Nat BY ListedFinite
    <3>7. pos' \in [Jobs -> Nat] BY <1>t, <3>2, <3>6
    <3>8. \A k \in fresh' : pos'[k] = 0 BY <1>t, <3>2
    <3> QED BY <3>5, <3>7, <3>8 DEF Numbered, Listed
  <2>2. CASE UpdateJob(j) BY <1>t, <2>2 DEF UpdateJob, Numbered, Listed
  <2>3. CASE DeleteJob(j)
    <3>1. pos[j] # 0 BY <2>3 DEF DeleteJob, InList
    <3>2. pos' = [k \in Jobs |-> IF k = j THEN 0
                                 ELSE IF pos[k] > pos[j] THEN pos[k] - 1 ELSE pos[k]]
          /\ fresh' = fresh
      BY <2>3 DEF DeleteJob
    <3>3. pos' \in [Jobs -> Nat] /\ Numbered(pos') BY <1>t, <3>1, <3>2, DeleteNumbered
    <3>4. \A k \in fresh' : pos'[k] = 0 BY <1>t, <3>2
    <3> QED BY <3>3, <3>4 DEF Numbered, Listed
  <2> QED BY <1>1, <2>1, <2>2, <2>3
<1>5. {pos'[k] : k \in {i \in Jobs : pos'[i] # 0}} = 1..Cardinality({i \in Jobs : pos'[i] # 0})
  BY <1>4 DEF Numbered, Listed
<1>6. TypeOK' BY <1>t, <1>2, <1>3, <1>4, <1>5 DEF TypeOK, InList, Size
<1> QED BY <1>t, <1>3, <1>4, <1>6 DEF ShapeInv

\* rcd executes a call.
LEMMA HandlesShape ==
  ASSUME ShapeInv, NEW c \in calls, RcdHandles(c)
  PROVE  ShapeInv'
<1>t. /\ RcTypeOK /\ mounted \subseteq Jobs /\ phase \in {"up", "draining", "off"}
      /\ misuse \subseteq Kinds /\ calls \subseteq CallType
      /\ active \in [Jobs -> BOOLEAN] /\ running \in [Jobs -> BOOLEAN]
      /\ submitting \in [Jobs -> BOOLEAN]
  BY DEF ShapeInv, TypeOK
<1>1. c \in CallType BY <1>t
<1>2. c.jobs \subseteq Jobs BY <1>1 DEF CallType
<1>3. /\ [c EXCEPT !.progress = "done"] \in CallType
      /\ [c EXCEPT !.progress = "refused"] \in CallType
      /\ [c EXCEPT !.progress = "done", !.list = mounted] \in CallType
  BY <1>t, <1>1 DEF CallType
<1>4. \E d \in CallType : calls' = (calls \ {c}) \cup {d} BY <1>3 DEF RcdHandles
<1>5. \E d \in CallType : \E e \in calls : calls' = (calls \ {e}) \cup {d} BY <1>4
<1>6. calls' \subseteq CallType /\ IsFiniteSet(calls') BY <1>5, CallsShape
<1>7. RcTypeOK' /\ mounted' \subseteq Jobs BY <1>t, <1>2 DEF RcdHandles, RcTypeOK
<1>8. UNCHANGED <<phase, jobVars, misuse>> BY DEF RcdHandles
<1> QED BY <1>t, <1>6, <1>7, <1>8, ProcessShape DEF jobVars

LEMMA NextShape == ASSUME ShapeInv, [Next]_vars PROVE ShapeInv'
<1>t. /\ RcTypeOK /\ mounted \subseteq Jobs /\ phase \in {"up", "draining", "off"}
      /\ misuse \subseteq Kinds /\ calls \subseteq CallType /\ IsFiniteSet(calls)
      /\ active \in [Jobs -> BOOLEAN] /\ running \in [Jobs -> BOOLEAN]
      /\ submitting \in [Jobs -> BOOLEAN] /\ pos \in [Jobs -> Nat]
  BY DEF ShapeInv, TypeOK
<1>1. CASE UNCHANGED vars
  <2>1. RcTypeOK' BY <1>t, <1>1 DEF vars, rcVars, RcTypeOK
  <2> QED BY <1>t, <1>1, <2>1, ProcessShape DEF vars, rcVars, jobVars
<1>2. ASSUME NEW j \in Jobs, RunJob(j) PROVE ShapeInv'
  <2>1. OnRunJob({j}, {}, calls) /\ UNCHANGED <<rcVars, phase, pos, fresh, misuse>>
    BY <1>2 DEF RunJob
  <2>2. /\ calls' \subseteq CallType /\ IsFiniteSet(calls')
        /\ active' \in [Jobs -> BOOLEAN] /\ running' \in [Jobs -> BOOLEAN]
        /\ submitting' \in [Jobs -> BOOLEAN]
    BY <2>1, RunShape
  <2>3. RcTypeOK' /\ mounted' \subseteq Jobs BY <1>t, <2>1 DEF rcVars, RcTypeOK
  <2> QED BY <1>t, <2>1, <2>2, <2>3, ProcessShape
<1>c. ASSUME NEW c \in CallType, calls' = calls \cup {c}, UNCHANGED <<rcVars, phase, jobVars, misuse>>
      PROVE  ShapeInv'
  <2>1. \E d \in CallType : calls' = calls \cup {d} BY <1>c
  <2>2. calls' \subseteq CallType /\ IsFiniteSet(calls') BY <2>1, CallsShape
  <2>3. RcTypeOK' /\ mounted' \subseteq Jobs BY <1>t, <1>c DEF rcVars, RcTypeOK
  <2> QED BY <1>t, <1>c, <2>2, <2>3, ProcessShape DEF jobVars
<1>3. ASSUME NEW j \in Jobs, StopJob(j) PROVE ShapeInv'
  <2>1. Call("unmount", pos[j], {j}, 0) \in CallType BY <1>t DEF Call, CallType, Kinds
  <2> QED BY <1>3, <1>c, <2>1 DEF StopJob
<1>4. CASE HealthTimer
  <2>1. Call("health", 0, {}, 0) \in CallType BY DEF Call, CallType, Kinds
  <2> QED BY <1>4, <1>c, <2>1 DEF HealthTimer
<1>5. ASSUME NEW j \in Jobs, MountDies(j) PROVE ShapeInv'
  <2>1. RcTypeOK' /\ mounted' \subseteq Jobs BY <1>t, <1>5 DEF MountDies, RcTypeOK
  <2> QED BY <1>t, <1>5, <2>1, ProcessShape DEF MountDies, jobVars
<1>6. ASSUME RcTypeOK', mounted' \subseteq Jobs, NEW r, EnsureCallback(r) PROVE ShapeInv'
  <2>1. calls' \subseteq CallType /\ IsFiniteSet(calls')
    <3>1. CASE calls' = calls BY <1>t, <3>1
    <3>2. CASE calls' = calls \cup {Call("startup", 0, {}, 0)}
      <4>1. Call("startup", 0, {}, 0) \in CallType BY DEF Call, CallType, Kinds
      <4>2. \E d \in CallType : calls' = calls \cup {d} BY <3>2, <4>1
      <4> QED BY <4>2, CallsShape
    <3> QED BY <1>6, <3>1, <3>2 DEF EnsureCallback
  <2> QED BY <1>t, <1>6, <2>1, ProcessShape DEF EnsureCallback, jobVars
<1>7. CASE Probe
  <2>1. PICK r \in {"none", "ok", "failed"} : ProbeAnswered(r) /\ EnsureCallback(r)
    BY <1>7 DEF Probe
  <2>2. RcTypeOK' /\ mounted' \subseteq Jobs BY <1>t, <2>1, RcShape
  <2> QED BY <1>6, <2>1, <2>2
<1>8. CASE Verify
  <2>1. PICK r \in {"none", "ok", "failed"} : VerifyAnswered(r) /\ EnsureCallback(r)
    BY <1>8 DEF Verify
  <2>2. RcTypeOK' /\ mounted' \subseteq Jobs BY <1>t, <2>1, RcShape
  <2> QED BY <1>6, <2>1, <2>2
<1>9. CASE RcStep \/ OtherRcdDies
  <2>1. (VerifyTimer \/ ChildWatch \/ ChildDies \/ OtherDies) /\ UNCHANGED <<phase, jobVars, calls, misuse>>
    BY <1>9 DEF RcStep, OtherRcdDies
  <2>2. RcTypeOK' /\ mounted' \subseteq Jobs BY <1>t, <2>1, RcShape
  <2> QED BY <1>t, <2>1, <2>2, ProcessShape DEF jobVars
<1>10. CASE Stop
  <2>1. StopDaemon(probe, verify) /\ UNCHANGED <<other, losses>> BY <1>10 DEF Stop
  <2>2. RcTypeOK' /\ mounted' \subseteq Jobs BY <1>t, <2>1, RcShape
  <2> QED BY <1>t, <1>10, <2>2, ProcessShape DEF Stop
<1>11. CASE Exit
  <2>1. ProcessEnds BY <1>11 DEF Exit
  <2>2. RcTypeOK' /\ mounted' \subseteq Jobs BY <1>t, <2>1, RcShape
  <2>3. calls' \subseteq CallType /\ IsFiniteSet(calls') BY <1>11, FS_EmptySet DEF Exit
  <2> QED BY <1>t, <1>11, <2>2, <2>3, ProcessShape DEF Exit
<1>12. CASE Boot
  <2>1. EnsureDaemon BY <1>12 DEF Boot
  <2>2. RcTypeOK' /\ mounted' \subseteq Jobs BY <1>t, <2>1, RcShape
  <2> QED BY <1>t, <1>12, <2>2, ProcessShape DEF Boot
<1> QED
  BY <1>1, <1>2, <1>3, <1>4, <1>5, <1>7, <1>8, <1>9, <1>10, <1>11, <1>12, EditsShape,
     HandlesShape, AnswersShape DEF Next, Answers

\* The list of mount jobs stays a list without gaps through every edit, under any
\* callback, and every variable keeps its type.
THEOREM MountTypes == Spec => []TypeOK
<1>1. ShapeInv /\ [Next]_vars => ShapeInv' BY NextShape
<1>2. ShapeInv => TypeOK BY DEF ShapeInv
<1> QED BY <1>1, <1>2, InitShape, PTL DEF Spec

-----------------------------------------------------------------------------
(* One mount request *)

\* What a mount call says of the job it is for
ForJob(c, j) ==
  /\ c.jobs = {j} /\ pos[j] # 0 /\ c.idx = pos[j]
  /\ phase = "up" => submitting[j] = TRUE

\* A second mount is not requested because the flag of the first is still up: only
\* the callback of that request lowers it, which holds as long as the index that the
\* callback carries is that of its job, and of no other.
OneInv ==
  /\ ShapeInv
  /\ phase = "off" => calls = {}
  /\ \A c \in calls : c.kind = "mount" => \E j \in Jobs : ForJob(c, j)
  /\ \A c, d \in calls : c.kind = "mount" /\ d.kind = "mount" /\ c.jobs = d.jobs => c = d

LEMMA OneInvImplies == OneInv => OneMount
<1> SUFFICES ASSUME OneInv, NEW j \in Jobs PROVE Cardinality(Of("mount", j)) <= 1
  BY DEF OneMount
<1>1. \A c, d \in Of("mount", j) : c = d BY DEF OneInv, Of
<1>2. CASE Of("mount", j) = {} BY <1>2, FS_EmptySet
<1>3. CASE Of("mount", j) # {}
  <2>1. PICK c : c \in Of("mount", j) BY <1>3
  <2>2. Of("mount", j) = {c} BY <1>1, <2>1
  <2>3. Cardinality({c}) = 1 BY FS_Singleton
  <2> QED BY <2>2, <2>3
<1> QED BY <1>2, <1>3

\* A step that adds no mount call and lowers no flag that one relies on
LEMMA OneKept ==
  ASSUME OneInv, ShapeInv', phase' = "off" => calls' = {},
         \A c \in calls' : c.kind = "mount" => c \in calls,
         \A j \in Jobs : pos[j] # 0 => pos'[j] = pos[j],
         \A c \in calls' : c.kind = "mount" /\ phase' = "up" =>
           phase = "up" /\ \A j \in c.jobs : submitting[j] = TRUE => submitting'[j] = TRUE
  PROVE  OneInv'
<1>1. ASSUME NEW c \in calls', c.kind = "mount"
      PROVE \E j \in Jobs : ForJob(c, j)'
  <2>1. PICK j \in Jobs : ForJob(c, j) BY <1>1 DEF OneInv
  <2>2. c.jobs = {j} /\ pos'[j] # 0 /\ c.idx = pos'[j] BY <2>1 DEF ForJob
  <2>3. phase' = "up" => submitting'[j] = TRUE BY <1>1, <2>1 DEF ForJob
  <2> QED BY <2>2, <2>3 DEF ForJob
<1>2. \A c, d \in calls' : c.kind = "mount" /\ d.kind = "mount" /\ c.jobs = d.jobs => c = d
  BY DEF OneInv
<1> QED BY <1>1, <1>2 DEF OneInv

\* on_run_job asks for a mount only of jobs whose flag is down.
LEMMA RunAddsOne ==
  ASSUME OneInv, ShapeInv', phase = "up", NEW S, NEW U, NEW earlier \in SUBSET calls,
         S \subseteq {j \in Jobs : InList(j)},
         OnRunJob(S, U, earlier), UNCHANGED <<phase, pos>>
  PROVE  OneInv'
<1> DEFINE go == {j \in S : ~MountedOrMounting(j)}
           new == {Call("mount", pos[j], {j}, Cardinality(Of("mount", j))) : j \in go}
<1>0. go \subseteq Jobs /\ \A j \in go : pos[j] # 0 BY DEF InList
<1>1. calls' = earlier \cup new BY DEF OnRunJob
<1>2. \A j \in Jobs : submitting'[j] = (submitting[j] \/ j \in go) BY DEF OnRunJob
<1>3. \A j \in go : submitting[j] = FALSE
  BY <1>0 DEF MountedOrMounting, OneInv, ShapeInv, TypeOK
<1>4. \A c \in new : \E j \in go : c.jobs = {j} /\ c.idx = pos[j] /\ c = Call("mount", pos[j], {j}, Cardinality(Of("mount", j)))
  BY DEF Call
<1>5. \A c \in earlier : c \in calls OBVIOUS
<1> HIDE DEF go, new
<1>6. ASSUME NEW c \in calls', c.kind = "mount"
      PROVE \E j \in Jobs : ForJob(c, j)'
  <2>1. CASE c \in earlier
    <3>1. PICK j \in Jobs : ForJob(c, j) BY <1>6, <1>5, <2>1 DEF OneInv
    <3>2. submitting'[j] = TRUE BY <1>2, <3>1 DEF ForJob
    <3> QED BY <3>1, <3>2 DEF ForJob
  <2>2. CASE c \in new
    <3>1. PICK j \in go : c.jobs = {j} /\ c.idx = pos[j] BY <1>4, <2>2
    <3>2. j \in Jobs /\ pos[j] # 0 BY <1>0
    <3>3. submitting'[j] = TRUE BY <1>2, <3>2
    <3> QED BY <3>1, <3>2, <3>3 DEF ForJob
  <2> QED BY <1>1, <1>6, <2>1, <2>2
<1>7. ASSUME NEW c \in earlier, c.kind = "mount", NEW d \in new PROVE c.jobs # d.jobs
  <2>1. PICK j \in Jobs : ForJob(c, j) BY <1>5, <1>7 DEF OneInv
  <2>2. PICK k \in go : d.jobs = {k} BY <1>4
  <2>3. submitting[j] = TRUE BY <2>1 DEF ForJob
  <2>4. j # k BY <1>3, <2>3
  <2>5. c.jobs = {j} BY <2>1 DEF ForJob
  <2> QED BY <2>2, <2>4, <2>5
<1>8. ASSUME NEW c \in new, NEW d \in new, c.jobs = d.jobs PROVE c = d
  <2>1. PICK j \in go : c.jobs = {j} /\ c = Call("mount", pos[j], {j}, Cardinality(Of("mount", j)))
    BY <1>4
  <2>2. PICK k \in go : d.jobs = {k} /\ d = Call("mount", pos[k], {k}, Cardinality(Of("mount", k)))
    BY <1>4
  <2>3. j = k BY <1>8, <2>1, <2>2
  <2> QED BY <2>1, <2>2, <2>3
<1>9. \A c, d \in calls' : c.kind = "mount" /\ d.kind = "mount" /\ c.jobs = d.jobs => c = d
  <2> SUFFICES ASSUME NEW c \in calls', NEW d \in calls', c.kind = "mount", d.kind = "mount",
                      c.jobs = d.jobs
               PROVE c = d
    OBVIOUS
  <2>1. CASE c \in earlier /\ d \in earlier BY <1>5, <2>1 DEF OneInv
  <2>2. CASE c \in earlier /\ d \in new BY <1>7, <2>2
  <2>3. CASE c \in new /\ d \in earlier BY <1>7, <2>3
  <2>4. CASE c \in new /\ d \in new BY <1>8, <2>4
  <2> QED BY <1>1, <2>1, <2>2, <2>3, <2>4
<1>10. phase' # "off" OBVIOUS
<1> QED BY <1>6, <1>9, <1>10 DEF OneInv

\* The callback of a mount call lowers the flag of its own job only.
LEMMA AnswerKeepsOne ==
  ASSUME OneInv, ShapeInv', NEW c \in calls, NEW ok \in BOOLEAN,
         \/ MountAnswered(c, ok) \/ UnmountAnswered(c, ok)
         \/ HealthAnswered(c, ok) \/ StartupAnswered(c, ok)
  PROVE  OneInv'
<1>1. CASE MountAnswered(c, ok)
  <2>1. /\ c.kind = "mount" /\ calls' = calls \ {c} /\ UNCHANGED <<phase, pos>> /\ phase # "off"
        /\ ClearSubmitting(c)
    BY <1>1 DEF MountAnswered
  <2>2. PICK j \in Jobs : ForJob(c, j) BY <2>1 DEF OneInv
  <2>3. ASSUME NEW d \in calls', d.kind = "mount", NEW k \in d.jobs, submitting[k] = TRUE
        PROVE submitting'[k] = TRUE
    <3>1. d \in calls /\ d # c BY <2>1
    <3>2. PICK i \in Jobs : ForJob(d, i) BY <2>3, <3>1 DEF OneInv
    <3>3. k = i BY <3>2 DEF ForJob
    <3>4. d.jobs # c.jobs BY <2>1, <2>3, <3>1 DEF OneInv
    <3>5. i # j BY <2>2, <3>2, <3>4 DEF ForJob
    <3>6. i \in Listed(pos) /\ j \in Listed(pos) BY <2>2, <3>2 DEF ForJob, Listed
    <3>7. pos[i] # pos[j] BY <3>5, <3>6 DEF OneInv, ShapeInv, Numbered
    <3>8. c.idx = pos[j] BY <2>2 DEF ForJob
    <3> QED BY <2>1, <2>3, <3>3, <3>7, <3>8 DEF ClearSubmitting
  <2> QED BY <2>1, <2>3, OneKept
<1>2. CASE UnmountAnswered(c, ok) BY <1>2, OneKept DEF UnmountAnswered
<1>3. CASE HealthAnswered(c, ok) BY <1>3, OneKept DEF HealthAnswered
<1>4. CASE StartupAnswered(c, ok)
  <2> DEFINE up == {j \in Jobs : InList(j) /\ j \in LiveMounts(c, ok)}
             S  == {j \in Startup : InList(j)} \ up
  <2>1. CASE calls' = calls \ {c} /\ UNCHANGED <<active, running, submitting, misuse>>
    BY <1>4, <2>1, OneKept DEF StartupAnswered
  <2>2. CASE ~Guarded /\ OnRunJob(S, up, calls \ {c})
    <3>1. S \subseteq {j \in Jobs : InList(j)} BY JobsAssumption
    <3>2. phase \in {"up", "draining", "off"} BY DEF OneInv, ShapeInv, TypeOK
    <3>3. phase = "up" /\ UNCHANGED <<phase, pos>> BY <1>4, <2>2, <3>2 DEF StartupAnswered, Guarded
    <3> HIDE DEF S, up
    <3> QED BY <2>2, <3>1, <3>3, RunAddsOne
  <2> QED BY <1>4, <2>1, <2>2 DEF StartupAnswered
<1> QED BY <1>1, <1>2, <1>3, <1>4

\* rcd's answer changes nothing the daemon has noted about the call.
LEMMA HandlesKeepsOne ==
  ASSUME OneInv, ShapeInv', NEW c \in calls, RcdHandles(c)
  PROVE  OneInv'
<1>1. c \in CallType BY DEF OneInv, ShapeInv, TypeOK
<1>m. mounted \subseteq Jobs BY DEF OneInv, ShapeInv, TypeOK
<1>2. UNCHANGED <<phase, pos, submitting>> BY DEF RcdHandles, jobVars
<1>3. PICK e \in CallType : /\ calls' = (calls \ {c}) \cup {e}
                           /\ e.kind = c.kind /\ e.jobs = c.jobs /\ e.idx = c.idx
  <2> DEFINE a == [c EXCEPT !.progress = "done"]
             b == [c EXCEPT !.progress = "refused"]
             l == [c EXCEPT !.progress = "done", !.list = mounted]
  <2>1. /\ a \in CallType /\ a.kind = c.kind /\ a.jobs = c.jobs /\ a.idx = c.idx
        /\ b \in CallType /\ b.kind = c.kind /\ b.jobs = c.jobs /\ b.idx = c.idx
    BY <1>1 DEF CallType
  <2>2. l \in CallType /\ l.kind = c.kind /\ l.jobs = c.jobs /\ l.idx = c.idx
    BY <1>1, <1>m DEF CallType
  <2>3. \/ calls' = (calls \ {c}) \cup {a} \/ calls' = (calls \ {c}) \cup {b}
        \/ calls' = (calls \ {c}) \cup {l}
    BY DEF RcdHandles
  <2> HIDE DEF a, b, l
  <2> QED BY <2>1, <2>2, <2>3
<1>4. phase' # "off" BY <1>2 DEF OneInv
<1>5. \A d \in calls' : d.kind = "mount" => \E j \in Jobs : ForJob(d, j)'
  <2> SUFFICES ASSUME NEW d \in calls', d.kind = "mount" PROVE \E j \in Jobs : ForJob(d, j)'
    OBVIOUS
  <2>1. PICK f \in calls : f.kind = "mount" /\ f.jobs = d.jobs /\ f.idx = d.idx BY <1>3
  <2>2. PICK j \in Jobs : ForJob(f, j) BY <2>1 DEF OneInv
  <2> QED BY <1>2, <2>1, <2>2 DEF ForJob
<1>6. \A d, f \in calls' : d.kind = "mount" /\ f.kind = "mount" /\ d.jobs = f.jobs => d = f
  BY <1>3 DEF OneInv
<1> QED BY <1>4, <1>5, <1>6 DEF OneInv

LEMMA EditsKeepOne ==
  ASSUME Deletable = {}, OneInv, ShapeInv', Edits
  PROVE  OneInv'
<1>1. PICK j \in Jobs : AddJob(j) \/ UpdateJob(j) BY DEF Edits, DeleteJob
<1>2. UNCHANGED <<phase, submitting, calls>> /\ phase = "up" BY <1>1 DEF AddJob, UpdateJob
<1>3. \A k \in Jobs : pos[k] # 0 => pos'[k] = pos[k]
  BY <1>1 DEF AddJob, UpdateJob, OneInv, ShapeInv, TypeOK
<1> QED BY <1>2, <1>3, OneKept

LEMMA NextKeepsOne ==
  ASSUME Deletable = {}, OneInv, [Next]_vars
  PROVE  OneInv'
<1>0. ShapeInv' BY NextShape DEF OneInv
<1>k. phase \in {"up", "draining", "off"} BY DEF OneInv, ShapeInv, TypeOK
<1>1. CASE UNCHANGED <<phase, pos, submitting, calls>>
  BY <1>0, <1>1, OneKept DEF OneInv
<1>2. ASSUME NEW j \in Jobs, RunJob(j) PROVE OneInv'
  <2>1. {j} \subseteq {k \in Jobs : InList(k)} BY <1>2 DEF RunJob
  <2>2. OnRunJob({j}, {}, calls) /\ phase = "up" /\ UNCHANGED <<phase, pos>> BY <1>2 DEF RunJob
  <2> QED BY <1>0, <2>1, <2>2, RunAddsOne
<1>3. ASSUME NEW d, d.kind # "mount", calls' = calls \cup {d}, phase # "off",
             UNCHANGED <<phase, pos, submitting>>
      PROVE  OneInv'
  BY <1>0, <1>3, OneKept
<1>4. ASSUME NEW j \in Jobs, StopJob(j) PROVE OneInv'
  <2>1. Call("unmount", pos[j], {j}, 0).kind # "mount" BY DEF Call
  <2> QED BY <1>3, <1>4, <2>1 DEF StopJob, jobVars
<1>5. CASE HealthTimer
  <2>1. Call("health", 0, {}, 0).kind # "mount" BY DEF Call
  <2> QED BY <1>3, <1>5, <2>1 DEF HealthTimer, jobVars
<1>6. ASSUME NEW r, EnsureCallback(r), phase # "off" PROVE OneInv'
  <2>1. Call("startup", 0, {}, 0).kind # "mount" BY DEF Call
  <2> QED BY <1>1, <1>3, <1>6, <2>1 DEF EnsureCallback, jobVars
<1>7. CASE Probe \/ Verify BY <1>6, <1>7 DEF Probe, Verify
<1>8. CASE RcStep \/ OtherRcdDies \/ \E j \in Jobs : MountDies(j)
  BY <1>1, <1>8 DEF RcStep, OtherRcdDies, MountDies, jobVars
<1>9. CASE Stop BY <1>0, <1>9, OneKept DEF Stop
<1>10. CASE Exit BY <1>0, <1>10, OneKept DEF Exit
<1>11. CASE Boot
  <2>1. calls' = {} BY <1>11 DEF Boot, OneInv
  <2> QED BY <1>0, <1>11, <2>1, OneKept DEF Boot
<1>12. CASE UNCHANGED vars BY <1>1, <1>12 DEF vars, jobVars
<1> QED
  BY <1>0, <1>2, <1>4, <1>5, <1>7, <1>8, <1>9, <1>10, <1>11, <1>12, EditsKeepOne,
     HandlesKeepsOne, AnswerKeepsOne DEF Next, Answers

\* While no job is deleted, a job has at most one mount request outstanding, whatever
\* a health check, an unmount, an edit or a restart does to its active flag meanwhile.
\* A deletion moves the later jobs to other indices, and the callback of a mount
\* lowers the flag by the index it was sent with.
THEOREM OneMountEach == ASSUME Deletable = {} PROVE Spec => []OneMount
<1>1. Init => OneInv BY InitShape DEF Init, OneInv
<1>2. OneInv /\ [Next]_vars => OneInv' BY NextKeepsOne
<1> QED BY <1>1, <1>2, OneInvImplies, PTL DEF Spec

=============================================================================
