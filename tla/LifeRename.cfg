\* A loaded collection is renamed; no fault.
SPECIFICATION FairSpec
CONSTANTS
    a = a  b = b  main = main  side = side  ix = ix
    Names = {a, b}
    Parts = {main, side}
    Default = main
    Indexes = {ix}
    Star = Star  None = None
    AutoLoad = FALSE
    MaxRequests = 3
    FaultKinds = {}
    MaxFaults = 0
PROPERTIES LockFollowsName
