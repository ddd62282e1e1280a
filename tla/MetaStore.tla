----------------------------- MODULE MetaStore -----------------------------
(***************************************************************************)
(* The catalog's storage: the writer keeps its documents in a zvec         *)
(* collection and in a dictionary, and mirrors the dictionary to a         *)
(* snapshot file, the only thing the reader reads.  The engine is external *)
(* and durable: what a call changed survives a crash of the writer.        *)
(*                                                                         *)
(* A document's payload is the number of the write that stored it.         *)
(***************************************************************************)
EXTENDS Integers, FiniteSets

CONSTANTS Docs,        \* document ids
          Root,        \* a document of ensure_defaults, never deleted
          NoFile,      \* the snapshot file does not exist
          Limit,       \* topk of the query that rebuilds the cache
          MaxWrites,   \* how many writes may happen
          FaultKinds,  \* the faults that may happen
          MaxFaults    \* how many faults may happen

ASSUME StoreAssumption ==
    /\ Root \in Docs /\ IsFiniteSet(Docs)
    /\ Limit \in Nat /\ MaxWrites \in Nat /\ MaxFaults \in Nat
    /\ NoFile \notin [Docs -> 0 .. MaxWrites]

VARIABLES
    engine,    \* the documents of xvector_meta, by id
    cache,     \* the writer's _docs
    snapshot,  \* catalog_snapshot.json, or NoFile
    opened,    \* the writer's _opened
    op,        \* the upsert or delete between its engine call and its snapshot
    rcache,    \* the reader's _docs
    clock,     \* number of writes so far
    maybe,     \* maybe[d]: the values the caller of the store may expect of d
    newest,    \* newest[d]: the latest value of d the reader has shown
    faults     \* number of faults so far

writer == <<engine, cache, snapshot, opened, op, clock, maybe>>
reader == <<rcache, newest>>
vars   == <<writer, reader, faults>>

Absent  == 0
Values  == 0 .. MaxWrites
Nothing == [d \in Docs |-> Absent]
NoOp    == [doc |-> Root, value |-> -1]

TypeOK ==
    /\ engine \in [Docs -> Values]
    /\ cache \in [Docs -> Values]
    /\ rcache \in [Docs -> Values]
    /\ snapshot \in [Docs -> Values] \cup {NoFile}
    /\ opened \in BOOLEAN
    /\ op \in [doc : Docs, value : Values] \cup {NoOp}
    /\ clock \in Values
    /\ maybe \in [Docs -> SUBSET Values]
    /\ newest \in [Docs -> Values]
    /\ faults \in 0 .. MaxFaults

Init ==
    /\ engine = Nothing /\ cache = Nothing /\ snapshot = NoFile
    /\ opened = FALSE /\ op = NoOp /\ rcache = Nothing
    /\ clock = 0 /\ maybe = [d \in Docs |-> {Absent}]
    /\ newest = Nothing /\ faults = 0

Fault(kind) == kind \in FaultKinds /\ faults < MaxFaults /\ faults' = faults + 1

Present(m) == {d \in Docs : m[d] # Absent}

-----------------------------------------------------------------------------
(* The writer.  Its lock admits one upsert or delete at a time.            *)

Ready == opened /\ op = NoOp

\* The engine's upsert returned; the cache does not show the document yet.
Upsert(d) ==
    /\ Ready /\ clock < MaxWrites
    /\ d = Root \/ cache[Root] # Absent
    /\ clock' = clock + 1
    /\ engine' = [engine EXCEPT ![d] = clock']
    /\ op' = [doc |-> d, value |-> clock']
    /\ maybe' = [maybe EXCEPT ![d] = @ \cup {clock'}]
    /\ UNCHANGED <<cache, snapshot, opened, reader, faults>>

EngineWithout_Kept(d) == engine                          \* mutant: cache only
EngineWithout(d) == [engine EXCEPT ![d] = Absent]

\* The engine's delete returned or failed: a failure is taken for a miss.
Delete(d) ==
    /\ Ready /\ d # Root /\ clock < MaxWrites
    /\ clock' = clock + 1
    /\ \/ engine' = EngineWithout(d) /\ UNCHANGED faults
       \/ Fault("delete") /\ UNCHANGED engine
    /\ op' = [doc |-> d, value |-> Absent]
    /\ maybe' = [maybe EXCEPT ![d] = @ \cup {Absent}]
    /\ UNCHANGED <<cache, snapshot, opened, reader>>

Applied(m, o) == [m EXCEPT ![o.doc] = o.value]

Cached_Not == cache                         \* mutant: only the snapshot changes
Cached == Applied(cache, op)

Mirrored_Stale == cache                     \* mutant: snapshot before the cache
Mirrored == Applied(cache, op)

\* Cache and snapshot follow, and the call returns; if the file cannot be
\* written, it raises, and cache and engine are changed all the same.
Finish ==
    /\ opened /\ op # NoOp
    /\ cache' = Cached
    /\ \/ /\ snapshot' = Mirrored
          /\ maybe' = [maybe EXCEPT ![op.doc] = {op.value}]
          /\ UNCHANGED faults
       \/ Fault("write") /\ UNCHANGED <<snapshot, maybe>>
    /\ op' = NoOp
    /\ UNCHANGED <<engine, opened, clock, reader>>

PublishSnapshot ==
    /\ Ready /\ snapshot' = cache
    /\ UNCHANGED <<engine, cache, opened, op, clock, maybe, reader, faults>>

\* What the scan of the engine may return: at most Limit documents.
Scanned ==
    {[d \in Docs |-> IF d \in S THEN engine[d] ELSE Absent] :
        S \in {T \in SUBSET Present(engine) :
                  \/ T = Present(engine) /\ Cardinality(T) <= Limit
                  \/ Cardinality(T) = Limit}}

\* open: rebuild the cache.  A scan that fails leaves it empty, and an empty
\* cache is filled from the snapshot.  If the flush fails, the writer does not
\* start, and nothing changes.
UseScan_Always(m) == TRUE                   \* mutant: clobbers a good snapshot
UseScan(m) == m # Nothing \/ snapshot = NoFile

Open ==
    /\ ~opened
    /\ \E m \in Scanned \cup {Nothing} :
          /\ IF m \in Scanned THEN UNCHANGED faults ELSE Fault("scan")
          /\ IF UseScan(m) THEN cache' = m /\ snapshot' = m
                           ELSE cache' = snapshot /\ UNCHANGED snapshot
    /\ opened' = TRUE
    /\ UNCHANGED <<engine, op, clock, maybe, reader>>

\* close flushes, whether or not the file can be written.
Close ==
    /\ Ready
    /\ \/ snapshot' = cache /\ UNCHANGED faults
       \/ Fault("write") /\ UNCHANGED snapshot
    /\ cache' = Nothing /\ opened' = FALSE
    /\ UNCHANGED <<engine, op, clock, maybe, reader>>

Crash ==
    /\ opened /\ Fault("crash")
    /\ cache' = Nothing /\ opened' = FALSE /\ op' = NoOp
    /\ UNCHANGED <<engine, snapshot, clock, maybe, reader>>

-----------------------------------------------------------------------------
(* The reader loads the whole snapshot for every get and list.             *)

Larger(m, n) == [d \in Docs |-> IF m[d] > n[d] THEN m[d] ELSE n[d]]

LoadSnapshot ==
    /\ snapshot # NoFile
    /\ rcache' = snapshot
    /\ newest' = Larger(newest, snapshot)
    /\ UNCHANGED <<writer, faults>>

ReaderRestarts ==
    /\ rcache' = Nothing
    /\ UNCHANGED <<writer, newest, faults>>

Next ==
    \/ \E d \in Docs : Upsert(d) \/ Delete(d)
    \/ Finish \/ PublishSnapshot \/ Open \/ Close \/ Crash
    \/ LoadSnapshot \/ ReaderRestarts

Spec == Init /\ [][Next]_vars

-----------------------------------------------------------------------------
(* Properties                                                              *)

\* What an upsert stored and acknowledged is there whenever the store is open,
\* after crashes, failed scans and failed snapshot writes of later calls.
AckedUpsertsSurvive ==
    Ready => \A d \in Docs : Absent \notin maybe[d] => cache[d] \in maybe[d]

\* ... and what a delete removed and acknowledged stays away.
AckedDeletesSurvive ==
    Ready => \A d \in Docs : maybe[d] = {Absent} => cache[d] = Absent

\* What the reader sees of a document never goes back to an older value, not
\* even after the document was gone.
ReaderNeverGoesBack ==
    [][\A d \in Docs : rcache'[d] # rcache[d] =>
          rcache'[d] = Absent \/ rcache'[d] >= newest[d]]_vars

\* The reader sees durable states of the catalog only: what a crash cannot undo.
Promise ==
    INSTANCE PublishedMap WITH
        truth <- engine, shown <- snapshot, seen <- rcache
PublishedDurably == Promise!Spec
=============================================================================
