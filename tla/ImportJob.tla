----------------------------- MODULE ImportJob -----------------------------
(***************************************************************************)
(* Import jobs: each on a thread of its own, which reads the files, inserts *)
(* their rows in batches and writes its progress to the job's document,     *)
(* while the event loop inserts, drops and creates the collection.  Rows    *)
(* get automatic keys.  How an insert gets its handle is FenceProtocol's    *)
(* subject; here it stores its rows or raises.                              *)
(***************************************************************************)
EXTENDS Snowflake, FiniteSets

CONSTANTS Main,        \* the thread of the event loop
          NoJob,       \* there is no document
          MaxRows,     \* rows of the files of a job
          Batch,       \* rows of a batch (500)
          MaxClock,    \* time passes up to here, and whenever a thread waits for it
          MaxLives,    \* how often the collection may be created
          MaxInserts,  \* how many rows clients may insert
          FaultKinds,  \* the faults that may happen
          MaxFaults    \* how many faults may happen

ASSUME ImportAssumption ==
    /\ Main \in Threads
    /\ MaxRows \in Nat /\ Batch \in Nat \ {0} /\ MaxFaults \in Nat
    /\ MaxClock \in Nat /\ MaxLives \in Nat \ {0} /\ MaxInserts \in Nat

VARIABLES
    doc,      \* doc[j]: the document of job j
    job,      \* job[j]: the thread's dictionary; Pending when there is no thread
    file,     \* file[j]: where its rows come from, how many, for which collection
    pc,       \* where a thread is
    left,     \* rows of its batch that have no key yet
    batch,    \* keys of its batch
    handle,   \* the collection its handle is open on
    coll,     \* the collection that has the name, by number; 0 if none has
    lives,    \* how often the collection was created
    rows,     \* <<key, thread>>: the rows of the collection
    inserts,  \* rows that clients have inserted
    faults    \* number of faults so far

jobVars   == <<doc, job, file>>
batchVars == <<left, batch, handle>>
collVars  == <<coll, lives, rows>>
vars == <<keyVars, jobVars, pc, batchVars, collVars, inserts, faults>>

Jobs   == Threads \ {Main}
States == <<"Pending", "Downloading", "Parsing", "Importing", "Completed", "Failed">>
Rank(s) == CHOOSE i \in DOMAIN States : States[i] = s

Body == {"begin", "download", "parse", "import", "convert", "count"}

StateNames == {States[i] : i \in DOMAIN States}
Documents ==
    [state : StateNames, progress : 0 .. 100,
     imported_rows : 0 .. MaxRows, total_rows : 0 .. MaxRows]
Pending == [state |-> "Pending", progress |-> 0, imported_rows |-> 0, total_rows |-> 0]

ASSUME NoJobAssumption == NoJob \notin Documents

JobTypeOK ==
    /\ doc \in [Jobs -> Documents \cup {NoJob}]
    /\ job \in [Jobs -> Documents]
    /\ file \in [Jobs -> [s3 : BOOLEAN, size : 0 .. MaxRows, for : 0 .. MaxLives]]
    /\ pc \in [Threads -> Body \cup {"none", "failing", "outer", "ended"}]
    /\ left \in [Threads -> 0 .. Batch] /\ batch \in [Threads -> SUBSET Nat]
    /\ handle \in [Threads -> 0 .. MaxLives]
    /\ coll \in 0 .. MaxLives /\ lives \in 1 .. MaxLives
    /\ rows \subseteq Nat \X Threads
    /\ inserts \in 0 .. MaxInserts /\ faults \in 0 .. MaxFaults

TypeOK == KeysTypeOK /\ JobTypeOK

Init ==
    /\ KeysInit
    /\ doc = [j \in Jobs |-> NoJob] /\ job = [j \in Jobs |-> Pending]
    /\ file = [j \in Jobs |-> [s3 |-> FALSE, size |-> 0, for |-> 0]]
    /\ pc = [t \in Threads |-> "none"]
    /\ left = [t \in Threads |-> 0] /\ batch = [t \in Threads |-> {}]
    /\ handle = [t \in Threads |-> 0]
    /\ coll = 1 /\ lives = 1 /\ rows = {} /\ inserts = 0 /\ faults = 0

Fault(kind) == kind \in FaultKinds /\ faults < MaxFaults /\ faults' = faults + 1

Goto(t, where) == pc' = [pc EXCEPT ![t] = where]

-----------------------------------------------------------------------------
(* A job                                                                   *)

\* Where an exception leads to: the handler of _run_job_async, the one of
\* _run_job, or out of the thread.
Handler(where) ==
    CASE where \in Body -> "failing" [] where = "failing" -> "outer" [] OTHER -> "ended"

Raise(j) == Goto(j, Handler(pc[j]))

\* put_import_job: the document is stored, or storing it raises; it may have
\* reached the catalog all the same.
Put(j, d, where) ==
    \/ doc' = [doc EXCEPT ![j] = d] /\ Goto(j, where) /\ UNCHANGED faults
    \/ /\ Fault("put") /\ Raise(j)
       /\ doc' = [doc EXCEPT ![j] = d] \/ UNCHANGED doc

Update(j, d, where) ==
    /\ Put(j, d, where)
    /\ job' = [job EXCEPT ![j] = IF pc'[j] \in {"outer", "ended"} THEN Pending ELSE d]
    /\ UNCHANGED <<file, batchVars, collVars, keyVars, inserts>>

\* The API's call: it needs the collection and returns with the thread started.
Create(j) ==
    /\ pc[j] = "none" /\ pc[Main] = "none" /\ coll # 0
    /\ \E s3 \in BOOLEAN, n \in 0 .. MaxRows :
          file' = [file EXCEPT ![j] = [s3 |-> s3, size |-> n, for |-> coll]]
    /\ Put(j, Pending, "begin")
    /\ UNCHANGED <<job, batchVars, collVars, keyVars, inserts>>

\* The thread reads its document.  Files on S3 are downloaded first.
Begin(j) ==
    /\ pc[j] = "begin"
    /\ LET s3 == file[j].s3
       IN  Update(j, [doc[j] EXCEPT !.state = IF s3 THEN "Downloading" ELSE "Parsing"],
                  IF s3 THEN "download" ELSE "parse")

Download(j) ==
    /\ pc[j] = "download"
    /\ Update(j, [job[j] EXCEPT !.state = "Parsing"], "parse")

Parse(j) ==
    /\ pc[j] = "parse"
    /\ Update(j, [job[j] EXCEPT !.state = "Importing", !.total_rows = file[j].size], "import")

\* The locals of an insert go when it ends.
Forget(T) ==
    /\ left' = [t \in Threads |-> IF t \in T THEN 0 ELSE left[t]]
    /\ batch' = [t \in Threads |-> IF t \in T THEN {} ELSE batch[t]]
    /\ handle' = [t \in Threads |-> IF t \in T THEN 0 ELSE handle[t]]

\* A download, a file, a row, a handle or an insert may fail.
Breaks(j) ==
    /\ pc[j] \in {"download", "parse", "import", "convert"} /\ spinner # j
    /\ Raise(j) /\ Forget({j})
    /\ UNCHANGED <<jobVars, collVars, keyVars, inserts, faults>>

Smaller(m, n) == IF m < n THEN m ELSE n

\* A thread begins to insert n rows.
StartBatch(t, n) ==
    /\ coll # 0
    /\ handle' = [handle EXCEPT ![t] = coll]
    /\ left' = [left EXCEPT ![t] = n] /\ batch' = [batch EXCEPT ![t] = {}]
    /\ Goto(t, "convert")
    /\ UNCHANGED <<jobVars, collVars, keyVars, faults>>

NextChunk(j) == Smaller(Batch, job[j].total_rows - job[j].imported_rows)

NextBatch(j) ==
    /\ pc[j] = "import" /\ job[j].imported_rows < job[j].total_rows
    /\ StartBatch(j, NextChunk(j))
    /\ UNCHANGED inserts

\* require_collection
NoCollection(j) ==
    /\ pc[j] = "import" /\ job[j].imported_rows < job[j].total_rows
    /\ coll = 0 /\ Raise(j)
    /\ UNCHANGED <<jobVars, batchVars, collVars, keyVars, inserts, faults>>

\* The rows get their keys one after the other (_entity_to_doc).
Convert(t) ==
    /\ pc[t] = "convert" /\ left[t] > 0
    /\ Draw(t)
    /\ IF drawn' = drawn THEN UNCHANGED <<left, batch>>
       ELSE /\ left' = [left EXCEPT ![t] = @ - 1]
            /\ batch' = [batch EXCEPT ![t] = @ \cup {newest'}]
    /\ UNCHANGED <<jobVars, pc, handle, collVars, inserts, faults>>

\* The engine stores a row whose key it does not have.
Stored(t, keys) ==
    IF handle[t] # coll THEN rows
    ELSE rows \cup ({k \in keys : \A r \in rows : r[1] # k} \X {t})

Insert(t, done, failed) ==
    /\ pc[t] = "convert" /\ left[t] = 0
    /\ \/ rows' = Stored(t, batch[t]) /\ Goto(t, done)
       \/ \E keys \in SUBSET batch[t] : rows' = Stored(t, keys) /\ Goto(t, failed)
    /\ Forget({t})
    /\ UNCHANGED <<jobVars, coll, lives, keyVars, inserts, faults>>

\* imported += len(chunk)
Counted_Full(j) == job[j].imported_rows + Batch   \* mutant: every batch is full
Counted(j) == job[j].imported_rows + NextChunk(j)

Percent(n, total) == (n * 100) \div (IF total > 1 THEN total ELSE 1)

Count(j) ==
    /\ pc[j] = "count"
    /\ LET n == Counted(j)
       IN  Update(j, [job[j] EXCEPT !.imported_rows = n,
                                    !.progress = Percent(n, job[j].total_rows)], "import")

Complete(j) ==
    /\ pc[j] = "import" /\ job[j].imported_rows >= job[j].total_rows
    /\ Update(j, [job[j] EXCEPT !.state = "Completed", !.progress = 100], "ended")

\* The two exception handlers: the one of the job's coroutine writes what the
\* thread knows, the one around it what the catalog says.
Failed_Not(d) == d                          \* mutant: the state stays
Failed(d) == [d EXCEPT !.state = "Failed"]

Fail(j) ==
    /\ pc[j] = "failing"
    /\ Update(j, Failed(job[j]), "outer")

Reread_New(j) == Pending                    \* mutant: {"job_id": job_id}
Reread(j) == doc[j]

FailOutside(j) ==
    /\ pc[j] = "outer"
    /\ Update(j, Failed(Reread(j)), "ended")

JobStep(j) ==
    \/ Begin(j) \/ Download(j) \/ Parse(j) \/ NextBatch(j) \/ NoCollection(j)
    \/ Convert(j) \/ Insert(j, "count", "failing") \/ Count(j) \/ Complete(j)
    \/ Fail(j) \/ FailOutside(j)

-----------------------------------------------------------------------------
(* The event loop, the clock and crashes                                   *)

\* A client inserts a row.  With its handle open, the loop does nothing else.
ClientInserts ==
    /\ pc[Main] = "none" /\ inserts < MaxInserts /\ inserts' = inserts + 1
    /\ StartBatch(Main, 1)

LoopStep == Convert(Main) \/ Insert(Main, "none", "none")

DropCollection ==
    /\ pc[Main] = "none" /\ coll # 0
    /\ coll' = 0 /\ rows' = {}
    /\ UNCHANGED <<jobVars, pc, batchVars, lives, keyVars, inserts, faults>>

CreateCollection ==
    /\ pc[Main] = "none" /\ coll = 0 /\ lives < MaxLives
    /\ lives' = lives + 1 /\ coll' = lives'
    /\ UNCHANGED <<jobVars, pc, batchVars, rows, keyVars, inserts, faults>>

TimePasses ==
    /\ now < MaxClock \/ spinner # Nobody
    /\ Tick
    /\ UNCHANGED <<jobVars, pc, batchVars, collVars, inserts, faults>>

\* Threads die with the writer; documents and rows stay.
Crash ==
    /\ Fault("crash") /\ RestartKeys
    /\ pc' = [t \in Threads |-> IF t = Main \/ pc[t] = "none" THEN "none" ELSE "ended"]
    /\ job' = [j \in Jobs |-> Pending] /\ Forget(Threads)
    /\ UNCHANGED <<doc, file, collVars, inserts>>

Next ==
    \/ \E j \in Jobs : Create(j) \/ JobStep(j) \/ Breaks(j)
    \/ ClientInserts \/ LoopStep \/ DropCollection \/ CreateCollection
    \/ TimePasses \/ Crash

Spec == Init /\ [][Next]_vars

\* Threads run, the loop too, and so does the clock while somebody waits for it.
Fairness ==
    /\ \A j \in Jobs : WF_vars(JobStep(j))
    /\ WF_vars(LoopStep)
    /\ WF_vars(spinner # Nobody /\ TimePasses)

FairSpec == Spec /\ Fairness

-----------------------------------------------------------------------------
(* Properties                                                              *)

RowsOf(j) == {r \in rows : r[2] = j}

\* What a job reports as imported is in the collection, and a completed job has
\* imported all rows of its files, each once - unless the collection that it
\* was created for is gone.
ImportedRowsAreStored ==
    \A j \in Jobs :
        (doc[j] # NoJob /\ file[j].for = coll) =>
            /\ doc[j].imported_rows <= Cardinality(RowsOf(j))
            /\ doc[j].progress = 100 => Cardinality(RowsOf(j)) = file[j].size
            /\ doc[j].state = "Completed" => doc[j].progress = 100

\* A job's document never goes back, in state or in number, whatever fails
\* (DESIGN 9.5, but that a job whose last write failed is first Completed, then
\* Failed).
JobNeverGoesBack ==
    [][\A j \in Jobs : doc[j] # NoJob =>
          /\ Rank(doc'[j].state) >= Rank(doc[j].state)
          /\ doc'[j].imported_rows >= doc[j].imported_rows
          /\ doc'[j].total_rows >= doc[j].total_rows
          /\ doc'[j].progress >= doc[j].progress]_doc

\* A job that was started ends, as Completed or Failed, unless the writer dies
\* or its document cannot be written.
JobsEnd ==
    \A j \in Jobs :
        pc[j] = "begin" ~> \/ doc[j] # NoJob /\ doc[j].state \in {"Completed", "Failed"}
                           \/ faults > 0
=============================================================================
