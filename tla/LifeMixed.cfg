\* Two names, two partitions, four requests, two faults.
SPECIFICATION FairSpec
CONSTANTS
    a = a  b = b  main = main  side = side  ix = ix
    Names = {a, b}
    Parts = {main, side}
    Default = main
    Indexes = {ix}
    Star = Star  None = None
    AutoLoad = FALSE
    MaxRequests = 4
    FaultKinds = {"crash", "loss", "readerCrash"}
    MaxFaults = 2
INVARIANTS CatalogMatchesDisk NoForeignDirectory DropLeavesNothing
           IndexesFollowCollection NoOrphanDirectory
PROPERTIES HandlesCatchUp
