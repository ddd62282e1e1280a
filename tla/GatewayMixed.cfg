SPECIFICATION FairSpec
CONSTANTS
    root = root
    u = u
    p = p
    q = q
    admin = admin
    reviewer = reviewer
    read = read
    default = default
    db = db
    NoCreds = NoCreds
    EnvUser = root
    EnvPassword = p
    Admin = admin
    DefaultDb = default
    Users = {root, u}
    Passwords = {p, q}
    Roles = {admin, reviewer}
    Privileges = {read}
    Databases = {default, db}
    r1 = r1
    r2 = r2
    r3 = r3
    Requests = {r1, r2, r3}
    Workloads <- MCWorkloads
    Catalog0 <- MCCatalogs
    MaxFaults = 2
CHECK_DEADLOCK FALSE
INVARIANTS AtMostOnce OnlyVouchedRuns AckedPasswordWorks ListsShowAcked TraceEndToEnd
PROPERTIES RequestsAnswered
