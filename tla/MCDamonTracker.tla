--------------------------- MODULE MCDamonTracker ---------------------------
(***************************************************************************)
(* TLC instantiation of DamonTracker: the pids and the runtime steps are   *)
(* given in the .cfg files.  A runtime step below 1000 ns charges nothing  *)
(* as read bytes, one of 2000 ns or more a write byte, so the steps chosen *)
(* reach every branch of the byte heuristic.                               *)
(***************************************************************************)
EXTENDS DamonTracker, TLC

CONSTANTS p1, p2

\* The pids are interchangeable: update_damon_data treats every key alike.
PidSymmetry == Permutations(Pids)

=============================================================================
