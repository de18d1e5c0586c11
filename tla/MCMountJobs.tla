---------------------------- MODULE MCMountJobs ----------------------------
(* Instances of MountJobs for TLC: one mount job, added by the user and       *)
(* mounted at start-up from then on.                                         *)
EXTENDS MountJobs
CONSTANT m1
=============================================================================
