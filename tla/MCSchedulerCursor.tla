------------------------- MODULE MCSchedulerCursor -------------------------
(* Instances of SchedulerCursor for TLC.  Ids are ordered and the run      *)
(* checks liveness, so there is no symmetry.                               *)
EXTENDS SchedulerCursor
=============================================================================
