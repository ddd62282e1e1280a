\* Two requests of any kind, with searches and the refresh loop, no faults.
SPECIFICATION Spec
CONSTANTS
    p1 = p1  p2 = p2
    r1 = r1  r2 = r2
    Parts = {p1, p2}
    Requests = {r1, r2}
    Star = Star  Cache = Cache  Idle = Idle  NoPart = NoPart
    Jobs <- MixedJobs
    AutoLoad = FALSE
    FaultKinds = {}
    MaxFaults = 0
INVARIANTS FencedStaysClosed WriterKeepsNoIdleHandle NoWalAtRest AckedFenceHolds
