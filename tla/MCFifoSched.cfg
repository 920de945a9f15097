\* noop, test_simple and emergency_scheduler on two CPUs, with three tasks free to move and one pinned.
CONSTANTS
    a = a
    b = b
    c = c
    k = k
    NoTask = NoTask
    Tasks <- MCTasks
    Pinned <- MCPinned
    NrCpus = 2
    MaxRenice = 1
    Variants = {"noop", "test", "emergency"}
SPECIFICATION Spec
INVARIANTS EnqueuePlacesTask SchedulerStaysEnabled
PROPERTIES EnqueuedTaskRuns 
