\* A job of up to three rows in batches of two beside one insert of a client;
\* two faults.  It stops when job and client are done.
SPECIFICATION FairSpec
CONSTANTS
    main = main  job1 = job1
    Threads = {main, job1}
    Main = main  Nobody = Nobody  NoJob = NoJob
    SeqSize = 2  WorkerSize = 2  Worker = 1  TsSize = 32  Epoch = 1  Start = 2
    MaxRows = 3  Batch = 2
    MaxClock = 2  MaxLives = 2  MaxInserts = 1
    FaultKinds = {"put", "crash"}
    MaxFaults = 2
INVARIANTS ImportedRowsAreStored
PROPERTIES KeysIncrease JobNeverGoesBack JobsEnd
CHECK_DEADLOCK FALSE
