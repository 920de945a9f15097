--------------------------- MODULE MCMinimalSched ---------------------------
(***************************************************************************)
(* TLC instantiation of MinimalSched.  Four task slots: a "python" and a   *)
(* "vdb" task (both VectorDB by their first character), a "kworker" and a  *)
(* "bash" task, with nice-0 and nice+3-like weights.  Each run picks the   *)
(* tasks it needs.  A slice is two time units, so a stop can use part of a *)
(* slice or all of it.                                                     *)
(***************************************************************************)
EXTENDS MinimalSched

CONSTANTS py, vd, kw, sh

MCComm == [t \in Tasks |-> CASE t = py -> <<"p", "y">>
                             [] t = vd -> <<"v", "d">>
                             [] t = kw -> <<"k", "w">>
                             [] OTHER  -> <<"b", "a">>]

MCWeight == [t \in Tasks |-> IF t = kw THEN 50 ELSE 100]

\* Bound on the virtual clocks: states beyond it are not explored.
MaxVtime == 8

VtimeBound ==
    /\ global_vtime <= MaxVtime
    /\ \A t \in Tasks : dsq_vtime[t] <= MaxVtime

\* Scope of a run in which the tasks live throughout: no exit is explored.
TasksStay == \A t \in Tasks : tstate[t] # "free"

=============================================================================
