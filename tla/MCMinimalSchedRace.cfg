\* Two CPUs: cxl_running runs on both at once.
CONSTANTS
    py = py
    vd = vd
    kw = kw
    sh = sh
    Tasks = {py, kw, sh}
    NrCpus = 2
    SliceDfl = 2
    Comm <- MCComm
    Weight <- MCWeight
    NoTask = NoTask
    NoCtx = NoCtx
SPECIFICATION Spec
CONSTRAINT VtimeBound
PROPERTY ClockMonotonic
