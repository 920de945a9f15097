\* cxl_minimal_test: select_cpu returns -1.
CONSTANTS
    a = a
    b = b
    c = c
    k = k
    NoTask = NoTask
    Tasks <- MCTasks
    Pinned <- MCPinned
    NrCpus = 2
    MaxRenice = 1
    Variants = {"cxl_minimal_test"}
SPECIFICATION Spec
INVARIANT SchedulerStaysEnabled
CHECK_DEADLOCK FALSE
