\* One CPU, one VectorDB task among three: the fairness window and the vtime-queue refinement on a uniprocessor.
CONSTANTS
    py = py
    vd = vd
    kw = kw
    sh = sh
    Tasks = {py, kw, sh}
    NrCpus = 1
    SliceDfl = 2
    Comm <- MCComm
    Weight <- MCWeight
    NoTask = NoTask
    NoCtx = NoCtx
SPECIFICATION Spec
CONSTRAINT VtimeBound
INVARIANT TypeOK
INVARIANT FairnessWindow
PROPERTY ImplementsVtimeQueue
