\* Progress of requests, loop and endpoints; one flush may fail.
SPECIFICATION FairSpec
CONSTANTS
    p1 = p1  p2 = p2
    r1 = r1  r2 = r2
    Parts = {p1}
    Requests = {r1, r2}
    Star = Star  Cache = Cache  Idle = Idle  NoPart = NoPart
    Jobs <- SingleJobs
    AutoLoad = FALSE
    FaultKinds = {"flushFail"}
    MaxFaults = 1
PROPERTIES RequestsComplete LoadedEventuallyOpen ReleasedEventuallyClosed
