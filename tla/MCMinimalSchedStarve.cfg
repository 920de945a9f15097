\* One CPU, two VectorDB tasks ("python" and "vdb") and a "bash" task, all living throughout.
CONSTANTS
    py = py
    vd = vd
    kw = kw
    sh = sh
    Tasks = {py, vd, sh}
    NrCpus = 1
    SliceDfl = 2
    Comm <- MCComm
    Weight <- MCWeight
    NoTask = NoTask
    NoCtx = NoCtx
SPECIFICATION Spec
CONSTRAINT VtimeBound TasksStay
PROPERTY QueuedTaskRuns
