\* Crashes of the writer and snapshots that cannot be written.
SPECIFICATION Spec
CONSTANTS
    root = root  a = a  b = b
    Docs = {root, a, b}
    Root = root
    NoFile = NoFile
    Limit = 3
    MaxWrites = 5
    FaultKinds = {"crash", "write"}
    MaxFaults = 2
INVARIANTS AckedDeletesSurvive
PROPERTIES PublishedDurably
