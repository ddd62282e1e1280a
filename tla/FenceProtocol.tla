---------------------------- MODULE FenceProtocol ----------------------------
(***************************************************************************)
(* How one writer and one reader process share the partitions of a         *)
(* collection: the writer fences the reader out of the partitions it is    *)
(* about to change (with_reader_released), changes them, seals their WAL   *)
(* and tells the reader to open them again, while the reader's refresh     *)
(* loop and its searches close, seal and reopen handles of their own       *)
(* accord.  Requests are one-shot and run on the writer's single event     *)
(* loop, except import batches, which run on a thread of their own.        *)
(***************************************************************************)
EXTENDS CollectionManager

CONSTANTS Jobs,       \* Jobs[r]: what request r may be asked to do
          AutoLoad,   \* settings.auto_load
          FaultKinds, \* the faults that may happen
          MaxFaults,  \* how many faults may happen
          Idle,       \* the writer's event loop runs no request
          NoPart      \* the refresh loop waits for no seal

WriteKinds == {"insert", "badInsert", "import", "delete", "index"}
LoadKinds  == {"load", "release", "loadParts", "releaseParts"}
Job        == [kind : WriteKinds \cup LoadKinds, parts : (SUBSET Parts) \ {{}}]
Stages     == {"new", "closing", "body", "opened", "mutated", "notifying", "done"}
Message    == [path : {"close", "open", "unfence"}, req : Requests,
               parts : SUBSET Parts, stage : {"closing", "notifying"}]
Asker      == {"loop", "search"}
Seal       == [from : Asker, parts : SUBSET Parts]

ASSUME ProtocolAssumption ==
    /\ Jobs \in [Requests -> SUBSET Job]
    /\ AutoLoad \in BOOLEAN
    /\ MaxFaults \in Nat
    /\ Idle \notin Requests
    /\ NoPart \notin Parts

VARIABLES
    load,       \* the load state in the shared catalog
    pc,         \* pc[r]: the stage request r has reached
    job,        \* job[r]: what r was asked to do
    todo,       \* todo[r]: partitions r has still to change
    wasLoaded,  \* wasLoaded[r]: the load state r read when it began
    loop,       \* the request the writer's event loop is running
    net,        \* notifications on their way to the reader
    seals,      \* /internal/flush calls on their way to the writer
    scanning,   \* the refresh loop holds coord_lock
    rtodo,      \* partitions the refresh loop has still to visit
    rcur,       \* partition for which it awaits a seal
    sparts,     \* partitions of the refreshing search, {} if there is none
    held,       \* requests whose fence the running reader has acknowledged
    faults      \* faults so far

writerVars == <<pc, job, todo, wasLoaded, loop>>
loopVars   == <<scanning, rtodo, rcur>>
vars == <<storeVars, load, writerVars, net, seals, loopVars, sparts, held, faults>>

NoJob == [kind |-> "insert", parts |-> {}]

TypeOK ==
    /\ StoreTypeOK
    /\ load \in [loaded : BOOLEAN, parts : SUBSET Parts]
    /\ pc   \in [Requests -> Stages]
    /\ job  \in [Requests -> Job \cup {NoJob}]
    /\ todo \in [Requests -> SUBSET Parts]
    /\ wasLoaded \in [Requests -> BOOLEAN]
    /\ loop \in Requests \cup {Idle}
    /\ net \in SUBSET Message
    /\ seals \in SUBSET Seal
    /\ scanning \in BOOLEAN
    /\ rtodo \in SUBSET Parts
    /\ rcur \in Parts \cup {NoPart}
    /\ sparts \in SUBSET Parts
    /\ held \in SUBSET Requests
    /\ faults \in 0 .. MaxFaults

Init ==
    /\ StoreInit
    /\ load \in [loaded : BOOLEAN, parts : {{}}]
    /\ pc   = [r \in Requests |-> "new"]
    /\ job  = [r \in Requests |-> NoJob]
    /\ todo = [r \in Requests |-> {}]
    /\ wasLoaded = [r \in Requests |-> FALSE]
    /\ loop = Idle
    /\ net = {}
    /\ seals = {}
    /\ scanning = FALSE
    /\ rtodo = {}
    /\ rcur = NoPart
    /\ sparts = {}
    /\ held = {}
    /\ faults = 0

-----------------------------------------------------------------------------
(* Helpers                                                                 *)

Fault(kind) ==
    /\ kind \in FaultKinds
    /\ faults < MaxFaults
    /\ faults' = faults + 1

\* Flushing some partitions: the flushes of Failed raise.
FlushFails(Failed) ==
    IF Failed = {} THEN UNCHANGED faults ELSE Fault("flushFail")

\* An import batch runs on its job's thread, everything else on the loop.
OnThread(k) == k = "import"

LoopFree(k) == OnThread(k) \/ loop = Idle

Running(r) == OnThread(job[r].kind) \/ loop = r

LoadedParts == IF load.parts = {} THEN Parts ELSE load.parts

\* r has sent a notification from its present stage and awaits the answer.
Waiting(r) == \E m \in net : m.req = r /\ m.stage = pc[r]

Send(path, r, S, stage) ==
    net' = net \cup {[path |-> path, req |-> r, parts |-> S, stage |-> stage]}

-----------------------------------------------------------------------------
(* Writer: insert, upsert, delete and index creation                       *)

\* Enter with_reader_released: read the load state, ask the reader to close.
BeginWrite(r, j) ==
    /\ pc[r] = "new" /\ j.kind \in WriteKinds /\ LoopFree(j.kind)
    /\ pc'  = [pc EXCEPT ![r] = "closing"]
    /\ job' = [job EXCEPT ![r] = j]
    /\ todo' = [todo EXCEPT ![r] = j.parts]
    /\ wasLoaded' = [wasLoaded EXCEPT ![r] = load.loaded]
    /\ Send("close", r, j.parts, "closing")
    /\ UNCHANGED <<storeVars, load, loop, seals, loopVars, sparts, held, faults>>

\* The awaited call returned: the request goes on.
Proceed(r) ==
    /\ LoopFree(job[r].kind)
    /\ \/ /\ pc[r] = "closing"
          /\ pc' = [pc EXCEPT ![r] = "body"]
          /\ loop' = IF OnThread(job[r].kind) THEN loop ELSE r
       \/ /\ pc[r] = "notifying"
          /\ pc' = [pc EXCEPT ![r] = "done"]
          /\ UNCHANGED loop
    /\ UNCHANGED <<storeVars, load, job, todo, wasLoaded, net, seals, loopVars,
                   sparts, held>>

\* ... because the reader answered or the connection failed,
Answered(r) == ~Waiting(r) /\ Proceed(r) /\ UNCHANGED faults

\* ... or because the timeout of the call passed; the reader may serve it yet.
TimedOut(r) == Waiting(r) /\ Proceed(r) /\ Fault("timeout")

\* Index creation pops the cached handle of p before it opens p.
RefsBeforeOpen(r, p) ==
    IF job[r].kind = "index" THEN RefsAfterPop({p})[p] ELSE refs[p]

FlushedBeforeOpen(r, p) ==
    IF job[r].kind = "index" THEN CachedIn({p}) ELSE {}

\* open_partition: the cached handle, or a new one if its lock is free.
OpenForWrite(r, p) ==
    /\ pc[r] = "body" /\ p \in todo[r] /\ Running(r)
    /\ Cache \in RefsBeforeOpen(r, p) \/ (RefsBeforeOpen(r, p) = {} /\ rh[p] = Closed)
    /\ \E Failed \in SUBSET FlushedBeforeOpen(r, p) :
          /\ wal' = WalAfterFlush(FlushedBeforeOpen(r, p), Failed)
          /\ FlushFails(Failed)
    /\ refs' = [refs EXCEPT ![p] = RefsBeforeOpen(r, p) \cup {r, Cache}]
    /\ pc' = [pc EXCEPT ![r] = "opened"]
    /\ UNCHANGED <<ver, rh, fenced, load, job, todo, wasLoaded, loop, net, seals,
                   loopVars, sparts, held>>

\* The lock stays taken for all retries.  Index creation goes on with the
\* next partition, every other request gives up.
OpenFails(r, p) ==
    /\ pc[r] = "body" /\ p \in todo[r] /\ Running(r)
    /\ Cache \notin RefsBeforeOpen(r, p)
    /\ RefsBeforeOpen(r, p) # {} \/ rh[p] # Closed
    /\ \E Failed \in SUBSET FlushedBeforeOpen(r, p) :
          /\ wal' = WalAfterFlush(FlushedBeforeOpen(r, p), Failed)
          /\ FlushFails(Failed)
    /\ refs' = [refs EXCEPT ![p] = RefsBeforeOpen(r, p)]
    /\ todo' = [todo EXCEPT ![r] = IF job[r].kind = "index" THEN @ \ {p} ELSE {}]
    /\ UNCHANGED <<ver, rh, fenced, load, pc, job, wasLoaded, loop, net, seals,
                   loopVars, sparts, held>>

\* The engine call: it appends to the WAL and changes what an open shows.  An
\* insert that breaks off gets no further than ensure_pk_column_on_handle, which
\* alters the files of a partition without the key column.
Mutate(r, p) ==
    /\ pc[r] = "opened" /\ r \in refs[p] /\ Running(r)
    /\ wal' = [wal EXCEPT ![p] = TRUE]
    /\ ver' = [ver EXCEPT ![p] = @ + 1]
    /\ pc' = [pc EXCEPT ![r] = "mutated"]
    /\ UNCHANGED <<refs, rh, fenced, load, job, todo, wasLoaded, loop, net, seals,
                   loopVars, sparts, held, faults>>

\* insert converts the entities outside its try: one without a primary key
\* ends the body with the handle still in the cache.
AbortInsert(r, p) ==
    /\ pc[r] \in {"opened", "mutated"} /\ r \in refs[p] /\ Running(r)
    /\ job[r].kind = "badInsert"
    /\ refs' = [refs EXCEPT ![p] = @ \ {r}]
    /\ todo' = [todo EXCEPT ![r] = {}]
    /\ pc' = [pc EXCEPT ![r] = "body"]
    /\ UNCHANGED <<wal, ver, rh, fenced, load, job, wasLoaded, loop, net, seals,
                   loopVars, sparts, held, faults>>

\* close_partition in the finally: a cached handle is flushed and popped.  If
\* the engine rejected the call, only index creation visits the next partition.
CloseAfterWrite(r, p) ==
    /\ pc[r] \in {"opened", "mutated"} /\ r \in refs[p] /\ Running(r)
    /\ job[r].kind # "badInsert"
    /\ \E Failed \in SUBSET CachedIn({p}) :
          /\ wal' = WalAfterFlush(CachedIn({p}), Failed)
          /\ FlushFails(Failed)
    /\ refs' = [refs EXCEPT ![p] = RefsAfterClose(r, p)]
    /\ todo' = [todo EXCEPT ![r] =
                  IF pc[r] = "opened" /\ job[r].kind # "index" THEN {} ELSE @ \ {p}]
    /\ pc' = [pc EXCEPT ![r] = "body"]
    /\ UNCHANGED <<ver, rh, fenced, load, job, wasLoaded, loop, net, seals,
                   loopVars, sparts, held>>

\* The partitions of r that are flushed once more before the reader may open.
SealedBy_None(r) == {}                                    \* mutant: trusts the close
SealedBy(r) == {p \in job[r].parts : wal[p] /\ MayFlush(p)}

\* Leave with_reader_released: seal what has a WAL, then let the reader in.
SealAndNotify(r) ==
    /\ pc[r] = "body" /\ todo[r] = {} /\ Running(r)
    /\ \E Failed \in SUBSET SealedBy(r) :
          wal' = WalAfterFlush(SealedBy(r), Failed) /\ FlushFails(Failed)
    /\ Send(IF wasLoaded[r] THEN "open" ELSE "unfence", r, job[r].parts, "notifying")
    /\ pc' = [pc EXCEPT ![r] = "notifying"]
    /\ loop' = IF OnThread(job[r].kind) THEN loop ELSE Idle
    /\ held' = held \ {r}
    /\ UNCHANGED <<refs, ver, rh, fenced, load, job, todo, wasLoaded, seals,
                   loopVars, sparts>>

-----------------------------------------------------------------------------
(* Writer: load and release                                                *)

\* Record the load state, close (and flush) the writer's handles, notify.
ChangeLoad(r, j, newLoad, path, named) ==
    /\ pc[r] = "new" /\ loop = Idle
    /\ load' = newLoad
    /\ \E Failed \in SUBSET CachedIn(j.parts) :
          /\ wal' = WalAfterFlush(CachedIn(j.parts), Failed)
          /\ FlushFails(Failed)
    /\ refs' = RefsAfterPop(j.parts)
    /\ pc'  = [pc EXCEPT ![r] = "notifying"]
    /\ job' = [job EXCEPT ![r] = j]
    /\ Send(path, r, named, "notifying")
    /\ UNCHANGED <<ver, rh, fenced, todo, wasLoaded, loop, seals, loopVars,
                   sparts, held>>

NotLoaded == [loaded |-> FALSE, parts |-> {}]

LoadCollection(r, j) ==
    /\ j.kind = "load" /\ j.parts = Parts
    /\ ChangeLoad(r, j, [loaded |-> TRUE, parts |-> {}], "open", Parts)

\* The close message has no fence field and names no partition: the whole
\* collection stays fenced.
ReleaseCollection(r, j) ==
    /\ j.kind = "release" /\ j.parts = Parts
    /\ ChangeLoad(r, j, NotLoaded, "close", {})

LoadPartitions(r, j) ==
    /\ j.kind = "loadParts"
    /\ ChangeLoad(r, j, [loaded |-> TRUE, parts |-> j.parts], "open", j.parts)

\* Only a release of every partition changes the load state.
ReleasePartitions(r, j) ==
    /\ j.kind = "releaseParts"
    /\ ChangeLoad(r, j, IF Parts \subseteq j.parts THEN NotLoaded ELSE load,
                  "close", j.parts)

-----------------------------------------------------------------------------
(* Writer: /internal/flush                                                 *)

\* Requests that await the reader leave the loop to /internal/flush.
LoopServesFlush_Blocked ==                          \* mutant: notify_reader blocks
    loop = Idle /\ \A r \in Requests : ~Waiting(r)
LoopServesFlush == loop = Idle

HandleFlush(s) ==
    LET flushed == {p \in s.parts : MayFlush(p)}
    IN  /\ s \in seals /\ LoopServesFlush
        /\ seals' = seals \ {s}
        /\ \E Failed \in SUBSET flushed :
              wal' = WalAfterFlush(flushed, Failed) /\ FlushFails(Failed)
        /\ UNCHANGED <<refs, ver, rh, fenced, load, writerVars, net, loopVars,
                       sparts, held>>

-----------------------------------------------------------------------------
(* Reader: the endpoints the writer notifies                               *)

\* Each takes coord_lock, which the refresh loop holds while it scans.
Received(m, path) == m \in net /\ m.path = path /\ ~scanning /\ net' = net \ {m}

HandleClose(m) ==
    /\ Received(m, "close")
    /\ fenced' = fenced \cup FenceKeys(m.parts)
    /\ rh' = WithClosed(rh, Covered(m.parts))
    /\ held' = IF m.stage = "closing" /\ pc[m.req] = "closing"
                 THEN held \cup {m.req} ELSE held
    /\ UNCHANGED <<refs, wal, ver, load, writerVars, seals, loopVars, sparts, faults>>

\* Skips partitions with a WAL and stops at the first one that fails to open.
HandleOpen(m) ==
    LET fence  == UnfencedKeys(m.parts)
        wanted == {p \in m.parts : ~wal[p]}
        opened == {p \in wanted : MayOpenRO(p, fence)}
    IN  /\ Received(m, "open")
        /\ fenced' = fence
        /\ \E S \in SUBSET opened :
              /\ opened = wanted => S = opened
              /\ rh' = WithOpened(rh, S)
        /\ UNCHANGED <<refs, wal, ver, load, writerVars, seals, loopVars, sparts,
                       held, faults>>

HandleUnfence(m) ==
    /\ Received(m, "unfence")
    /\ fenced' = UnfencedKeys(m.parts)
    /\ UNCHANGED <<refs, wal, ver, rh, load, writerVars, seals, loopVars, sparts,
                   held, faults>>

-----------------------------------------------------------------------------
(* Reader: the refresh loop                                                *)

KeepsOpen_Always == TRUE                            \* mutant: ignores the load state
KeepsOpen == load.loaded \/ AutoLoad

RefreshBegin ==
    /\ ~scanning
    /\ IF KeepsOpen
         THEN scanning' = TRUE /\ rtodo' = LoadedParts /\ UNCHANGED rh
         ELSE rh' = WithClosed(rh, Parts) /\ UNCHANGED <<scanning, rtodo>>
    /\ UNCHANGED <<refs, wal, ver, fenced, load, writerVars, net, seals, rcur,
                   sparts, held, faults>>

RefreshSkip(p) ==
    /\ scanning /\ rcur = NoPart /\ p \in rtodo /\ IsFenced(p)
    /\ rtodo' = rtodo \ {p}
    /\ UNCHANGED <<storeVars, load, writerVars, net, seals, scanning, rcur, sparts,
                   held, faults>>

\* open_partition(force_reopen) of p, whose failure the callers swallow.
Reopened(h, S) ==
    WithOpened(WithClosed(h, S), {p \in S : MayOpenRO(p, fenced)})

RefreshReopen(p) ==
    /\ scanning /\ rcur = NoPart /\ p \in rtodo /\ ~IsFenced(p) /\ ~wal[p]
    /\ rh' = Reopened(rh, {p})
    /\ rtodo' = rtodo \ {p}
    /\ UNCHANGED <<refs, wal, ver, fenced, load, writerVars, net, seals, scanning,
                   rcur, sparts, held, faults>>

\* A WAL is left: close, and await the writer's seal with coord_lock held.
RefreshAskSeal(p) ==
    /\ scanning /\ rcur = NoPart /\ p \in rtodo /\ ~IsFenced(p) /\ wal[p]
    /\ rh' = WithClosed(rh, {p})
    /\ seals' = seals \cup {[from |-> "loop", parts |-> {p}]}
    /\ rcur' = p
    /\ UNCHANGED <<refs, wal, ver, fenced, load, writerVars, net, scanning, rtodo,
                   sparts, held, faults>>

SealPending(asker) == \E s \in seals : s.from = asker

\* The seal was answered, or its timeout passed while it is still under way.
SealReturns(asker) ==
    IF SealPending(asker) THEN Fault("timeout") ELSE UNCHANGED faults

RefreshSealed ==
    /\ rcur # NoPart
    /\ SealReturns("loop")
    /\ rh' = IF wal[rcur] THEN rh ELSE Reopened(rh, {rcur})
    /\ rtodo' = rtodo \ {rcur}
    /\ rcur' = NoPart
    /\ UNCHANGED <<refs, wal, ver, fenced, load, writerVars, net, seals, scanning,
                   sparts, held>>

RefreshEnd ==
    /\ scanning /\ rtodo = {} /\ rcur = NoPart
    /\ scanning' = FALSE
    /\ UNCHANGED <<storeVars, load, writerVars, net, seals, rtodo, rcur, sparts,
                   held, faults>>

\* /internal/reload reopens every open handle.  None of them has a WAL
\* (NoHandleOverWal), so it asks for no seal.
Reload ==
    /\ ~scanning
    /\ rh' = Reopened(rh, {p \in Parts : rh[p] # Closed})
    /\ UNCHANGED <<refs, wal, ver, fenced, load, writerVars, net, seals, loopVars,
                   sparts, held, faults>>

-----------------------------------------------------------------------------
(* Reader: get, query, search and get_stats                                *)

MayServe == load.loaded \/ AutoLoad

\* Opens the named partitions in turn until one fails; a handle that is open
\* already is used as it is.
Search(S) ==
    LET missing == {p \in S : rh[p] = Closed}
        good    == {p \in missing : MayOpenRO(p, fenced)}
    IN  /\ MayServe
        /\ \E D \in SUBSET good :
              /\ good = missing => D = good
              /\ rh' = WithOpened(rh, D)
        /\ UNCHANGED <<refs, wal, ver, fenced, load, writerVars, net, seals,
                       loopVars, sparts, held, faults>>

\* get_stats asks for no load and passes over the partitions that fail.
GetStats(S) ==
    /\ rh' = WithOpened(rh, {p \in S : rh[p] = Closed /\ MayOpenRO(p, fenced)})
    /\ UNCHANGED <<refs, wal, ver, fenced, load, writerVars, net, seals, loopVars,
                   sparts, held, faults>>

\* A search with refresh closes its handles and awaits a seal, without
\* coord_lock,
SearchAskSeal(S) ==
    /\ MayServe /\ sparts = {}
    /\ sparts' = S
    /\ rh' = WithClosed(rh, S)
    /\ seals' = seals \cup {[from |-> "search", parts |-> S]}
    /\ UNCHANGED <<refs, wal, ver, fenced, load, writerVars, net, loopVars, held, faults>>

\* ... then reopens what it can and goes on as any other search.
SearchSealed ==
    LET tried == {p \in sparts : ~wal[p] /\ ~IsFenced(p)}
    IN  /\ sparts # {}
        /\ SealReturns("search")
        /\ rh' = Reopened(rh, tried)
        /\ sparts' = {}
        /\ UNCHANGED <<refs, wal, ver, fenced, load, writerVars, net, seals,
                       loopVars, held>>

-----------------------------------------------------------------------------
(* Faults                                                                  *)

\* A notification is lost: the writer sees the call fail and goes on.
LoseMessage(m) ==
    /\ m \in net /\ Fault("loss")
    /\ net' = net \ {m}
    /\ UNCHANGED <<storeVars, load, writerVars, seals, loopVars, sparts, held>>

\* The call for a seal fails.
LoseSeal(s) ==
    /\ s \in seals /\ Fault("loss")
    /\ seals' = seals \ {s}
    /\ UNCHANGED <<storeVars, load, writerVars, net, loopVars, sparts, held>>

\* Handles, fences and calls in progress are gone; files and catalog stay.
ReaderCrash ==
    /\ Fault("readerCrash")
    /\ rh' = WithClosed(rh, Parts)
    /\ fenced' = {} /\ held' = {} /\ net' = {}
    /\ scanning' = FALSE /\ rtodo' = {} /\ rcur' = NoPart /\ sparts' = {}
    /\ UNCHANGED <<refs, wal, ver, load, writerVars, seals>>

WriterCrash ==
    /\ Fault("writerCrash")
    /\ refs' = [p \in Parts |-> {}]
    /\ pc' = [r \in Requests |-> IF pc[r] = "new" THEN "new" ELSE "done"]
    /\ todo' = [r \in Requests |-> {}]
    /\ loop' = Idle /\ seals' = {} /\ held' = {}
    /\ UNCHANGED <<wal, ver, rh, fenced, load, job, wasLoaded, net, loopVars, sparts>>

-----------------------------------------------------------------------------
Step(r) ==
    \/ Answered(r)
    \/ \E p \in Parts : \/ OpenForWrite(r, p) \/ OpenFails(r, p) \/ Mutate(r, p)
                        \/ AbortInsert(r, p) \/ CloseAfterWrite(r, p)
    \/ SealAndNotify(r)

Begin(r, j) ==
    \/ BeginWrite(r, j)
    \/ LoadCollection(r, j) \/ ReleaseCollection(r, j)
    \/ LoadPartitions(r, j) \/ ReleasePartitions(r, j)

Handle(m) == HandleClose(m) \/ HandleOpen(m) \/ HandleUnfence(m)

Refresh ==
    \/ RefreshBegin \/ RefreshSealed \/ RefreshEnd
    \/ \E p \in Parts : RefreshSkip(p) \/ RefreshReopen(p) \/ RefreshAskSeal(p)

Read ==
    \/ \E S \in (SUBSET Parts) \ {{}} : Search(S) \/ GetStats(S) \/ SearchAskSeal(S)
    \/ SearchSealed \/ Reload

Disturb ==
    \/ \E r \in Requests : TimedOut(r)
    \/ \E m \in net : LoseMessage(m)
    \/ \E s \in seals : LoseSeal(s)
    \/ ReaderCrash \/ WriterCrash

Next ==
    \/ \E r \in Requests : Step(r) \/ \E j \in Jobs[r] : Begin(r, j)
    \/ \E m \in net : Handle(m)
    \/ \E s \in seals : HandleFlush(s)
    \/ Refresh \/ Read \/ Disturb

Spec == Init /\ [][Next]_vars

\* Every process goes on when it can.  An endpoint that waits for coord_lock
\* gets it in turn (asyncio.Lock is first come, first served), so it is not
\* overtaken for ever by the refresh loop: strong fairness.
Fairness ==
    /\ \A r \in Requests : WF_vars(Step(r))
    /\ \A r \in Requests : SF_vars(\E m \in net : m.req = r /\ Handle(m))
    /\ \A a \in Asker : WF_vars(\E s \in seals : s.from = a /\ HandleFlush(s))
    /\ WF_vars(Refresh)
    /\ WF_vars(SearchSealed)

FairSpec == Spec /\ Fairness

-----------------------------------------------------------------------------
(* Properties                                                              *)

\* A fenced partition has no open handle on the reader, whatever searches,
\* the refresh loop and late notifications do (fence_partitions).
FencedStaysClosed == \A p \in Parts : IsFenced(p) => rh[p] = Closed

\* The reader never keeps open a partition with a WAL: zvec would replay it
\* through a read-only handle (has_wal before every read-only open).
NoHandleOverWal == \A p \in Parts : wal[p] => rh[p] = Closed

\* Nobody reads what the writer has open (the engine's lock).
LockExclusion == \A p \in Parts : refs[p] # {} => rh[p] = Closed

\* An open handle of the reader shows the files as they are.
HandlesAreCurrent == \A p \in Parts : rh[p] \in {Closed, ver[p]}

\* The inductive invariant behind the promise below.
Safety == LockExclusion /\ HandlesAreCurrent /\ NoHandleOverWal /\ FencedStaysClosed

\* The writer changes files only while the reader has them closed, and the
\* reader opens only sealed, current ones: the promise of SharedPartition.
Promise == INSTANCE SharedPartition WITH version <- ver, view <- rh, dirty <- wal
PromiseKept == Promise!Spec

\* q has begun, and may lift a fence that protects a partition of r.
Rival(q, r) ==
    job[q].parts \cap job[r].parts # {} /\ job[q].kind \notin {"release", "releaseParts"}

\* From the reader's acknowledgement to the end of the write, the partitions
\* of a request without rivals stay fenced and closed (with_reader_released).
AckedFenceHolds ==
    \A r \in held :
        (\A q \in Requests \ {r} : ~Rival(q, r)) =>
            \A p \in job[r].parts : p \in fenced /\ rh[p] = Closed

\* ... and so they would whoever else writes, if the fence counted its owners.
AckedFenceKeepsReaderOut ==
    \A r \in held : \A p \in job[r].parts : rh[p] = Closed

\* The writer's cache holds a read-write handle only while a request uses it
\* ("Writer must not keep RW handles; they block reader RO open").
WriterKeepsNoIdleHandle ==
    \A p \in Parts : Cache \in refs[p] => refs[p] # {Cache}

\* Without faults every write has sealed its partitions before it lets the
\* reader back in, even when an import thread shares the writer's handle.
NoWalAtRest ==
    (faults = 0 /\ \A r \in Requests : pc[r] \notin {"body", "opened", "mutated"})
        => \A p \in Parts : ~wal[p]

\* No request hangs: the writer awaits the reader's endpoints, which wait for
\* coord_lock, which the refresh loop holds while it awaits the writer.
RequestsComplete == \A r \in Requests : (pc[r] # "new") ~> (pc[r] = "done")

\* A release's message is under way although a load followed it.
ReleaseOvertaken ==
    load.loaded /\ \E m \in net : m.path = "close" /\ m.stage = "notifying"

\* A partition that stays loaded is open again and again, unless a release is
\* overtaken by a load: what an open notification leaves closed, the refresh
\* loop opens (DESIGN 10.4: "worst delay about N seconds").
LoadedEventuallyOpen ==
    \A p \in Parts :
        <>[](load.loaded /\ p \in LoadedParts) /\ []~ReleaseOvertaken
            => []<>(rh[p] # Closed)

\* A collection that stays released ends up closed on the reader.
ReleasedEventuallyClosed ==
    <>[](~load.loaded) => []<>(\A p \in Parts : rh[p] = Closed)
=============================================================================
