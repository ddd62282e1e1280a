\* Crashes, failing scans, deletes and file writes.
SPECIFICATION Spec
CONSTANTS
    root = root  a = a  b = b
    Docs = {root, a, b}
    Root = root
    NoFile = NoFile
    Limit = 3
    MaxWrites = 5
    FaultKinds = {"crash", "write", "scan", "delete"}
    MaxFaults = 3
INVARIANTS AckedUpsertsSurvive
PROPERTIES ReaderNeverGoesBack
