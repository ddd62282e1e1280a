\* One partition, two requests, one that breaks off included, up to two faults
\* of any kind, lazy loading.
SPECIFICATION Spec
CONSTANTS
    p1 = p1  p2 = p2
    r1 = r1  r2 = r2
    Parts = {p1}
    Requests = {r1, r2}
    Star = Star  Cache = Cache  Idle = Idle  NoPart = NoPart
    Jobs <- FaultJobs
    AutoLoad = TRUE
    FaultKinds = {"timeout", "loss", "readerCrash", "writerCrash", "flushFail"}
    MaxFaults = 2
INVARIANTS NoHandleOverWal
PROPERTIES PromiseKept
