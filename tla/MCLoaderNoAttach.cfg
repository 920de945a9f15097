\* cxl_sched: the object is loaded but never attached.
CONSTANTS
    l1 = l1
    l2 = l2
    Procs <- MCProcs
    Variants = {"cxl_sched"}
SPECIFICATION Spec
INVARIANT ActiveWhileServing
CHECK_DEADLOCK FALSE
