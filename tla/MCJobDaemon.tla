---------------------------- MODULE MCJobDaemon ----------------------------
(* Instances of JobDaemon for TLC: jobs are model values; each configuration *)
(* says which operations the user performs and which faults occur.           *)
EXTENDS JobRefinement
CONSTANTS j1, j2
=============================================================================
