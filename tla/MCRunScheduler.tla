--------------------------- MODULE MCRunScheduler ---------------------------
(* RunScheduler with a few runs.  The state space is finite without any     *)
(* bound: runs may be stepped for ever.                                     *)
EXTENDS RunScheduler
=============================================================================
