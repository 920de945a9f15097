\* Two cxl_bandwidth_scheduler processes, each with or without -T.  The
\* loaders terminate, so the final states have no successor.
CONSTANTS
    l1 = l1
    l2 = l2
    Procs <- MCProcs
    Variants = {"bandwidth"}
SPECIFICATION Spec
INVARIANTS ActiveWhileServing CleanupOnEveryPath
 
CHECK_DEADLOCK FALSE
