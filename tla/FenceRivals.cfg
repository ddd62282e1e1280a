\* Two inserts into the same partition: the end of the first lifts the fence of the second.
SPECIFICATION Spec
CONSTANTS
    p1 = p1  p2 = p2
    r1 = r1  r2 = r2
    Parts = {p1}
    Requests = {r1, r2}
    Star = Star  Cache = Cache  Idle = Idle  NoPart = NoPart
    Jobs <- RivalJobs
    AutoLoad = FALSE
    FaultKinds = {}
    MaxFaults = 0
INVARIANTS AckedFenceKeepsReaderOut
