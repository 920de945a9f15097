\* Two pids sharing a one-entry map, runtime steps that reach the read and
\* the write branch and both locality directions.
CONSTANTS
    p1 = p1
    p2 = p2
    Pids = {p1, p2}
    MAX_TASKS = 1
    RunSteps = {700, 1500, 3000}
    MaxRuntime = 4500
    MaxAccesses = 11
    NoEntry = NoEntry
SPECIFICATION Spec
INVARIANT TypeOK
INVARIANT IoPatternConsistent
INVARIANT BytesWithinRuntime
SYMMETRY PidSymmetry
