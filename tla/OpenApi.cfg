SPECIFICATION FairSpec
CONSTANTS
    Loop = loop
    Callers = {c}
    NoDocs = NoDocs
    NoOne = NoOne
    Pending = Pending
    Retries = 2
    Periodic = TRUE
    MaxVersion = 1
    MaxFaults = 3
INVARIANTS OkIsFresh DocumentedRoutesWork
PROPERTIES DocsNeverGoBack RefreshesEnd DocsCatchUp
