-------------------------- MODULE FenceProtocolProofs --------------------------
(***************************************************************************)
(* Proofs about FenceProtocol, for every collection, every set of requests, *)
(* every choice of jobs and faults.                                        *)
(*                                                                         *)
(* First that the protocol keeps the promise of SharedPartition: every step *)
(* takes one of three turns with the shared files: the reader closes and    *)
(* opens handles, the writer opens, flushes and drops handles, or the      *)
(* writer changes the files of a partition.  Each turn keeps Safety, and    *)
(* each is a step of SharedPartition.                                      *)
(*                                                                         *)
(* Then that only a rival can lift the fence of a request: while a         *)
(* request whose fence the reader has acknowledged is at work, the refresh *)
(* loop, the searches, late notifications of its own and requests that     *)
(* share no partition with it leave its partitions fenced and closed.      *)
(*                                                                         *)
(* Last, who holds the handles and the WALs that a write has left.         *)
(***************************************************************************)
EXTENDS FenceProtocol, TLAPS

USE DEF Closed

-----------------------------------------------------------------------------
(* Types                                                                   *)

\* The initial states are well typed (startup of the two processes).
LEMMA InitTypeOK == Init => TypeOK
  <1> SUFFICES ASSUME Init PROVE TypeOK
    OBVIOUS
  <1>1. StoreTypeOK
    BY DEF Init, StoreInit, StoreTypeOK
  <1>2. load \in [loaded : BOOLEAN, parts : SUBSET Parts]
    BY DEF Init
  <1>3. faults \in 0 .. MaxFaults
    BY ProtocolAssumption DEF Init
  <1>4. /\ pc \in [Requests -> Stages]
        /\ job \in [Requests -> Job \cup {NoJob}]
        /\ todo \in [Requests -> SUBSET Parts]
        /\ wasLoaded \in [Requests -> BOOLEAN]
    BY DEF Init, Stages
  <1> QED BY <1>1, <1>2, <1>3, <1>4 DEF Init, TypeOK

\* Every step of a request that is under way keeps the types.
LEMMA StepTypeOK ==
    ASSUME TypeOK, NEW r \in Requests, Step(r)
    PROVE  TypeOK'
  <1> USE DEF TypeOK, StoreTypeOK, Stages, writerVars, loopVars, storeVars
  <1>f. ASSUME NEW F, FlushFails(F) PROVE faults' \in 0 .. MaxFaults
    BY <1>f, ProtocolAssumption DEF FlushFails, Fault
  <1>1. CASE Answered(r)
    BY <1>1 DEF Answered, Proceed
  <1>2. ASSUME NEW p \in Parts, OpenForWrite(r, p) PROVE TypeOK'
    <2>1. wal' \in [Parts -> BOOLEAN]
      BY <1>2 DEF OpenForWrite, WalAfterFlush
    <2>2. RefsBeforeOpen(r, p) \in SUBSET (Requests \cup {Cache})
      BY DEF RefsBeforeOpen, RefsAfterPop
    <2>3. refs' \in [Parts -> SUBSET (Requests \cup {Cache})]
      BY <1>2, <2>2 DEF OpenForWrite
    <2> QED BY <1>2, <1>f, <2>1, <2>3 DEF OpenForWrite
  <1>3. ASSUME NEW p \in Parts, OpenFails(r, p) PROVE TypeOK'
    <2>1. wal' \in [Parts -> BOOLEAN]
      BY <1>3 DEF OpenFails, WalAfterFlush
    <2>2. RefsBeforeOpen(r, p) \in SUBSET (Requests \cup {Cache})
      BY DEF RefsBeforeOpen, RefsAfterPop
    <2>3. refs' \in [Parts -> SUBSET (Requests \cup {Cache})]
      BY <1>3, <2>2 DEF OpenFails
    <2> QED BY <1>3, <1>f, <2>1, <2>3 DEF OpenFails
  <1>4. ASSUME NEW p \in Parts, Mutate(r, p) PROVE TypeOK'
    BY <1>4 DEF Mutate
  <1>5. ASSUME NEW p \in Parts, AbortInsert(r, p) PROVE TypeOK'
    BY <1>5 DEF AbortInsert
  <1>6. ASSUME NEW p \in Parts, CloseAfterWrite(r, p) PROVE TypeOK'
    <2>1. wal' \in [Parts -> BOOLEAN]
      BY <1>6 DEF CloseAfterWrite, WalAfterFlush
    <2> QED BY <1>6, <1>f, <2>1 DEF CloseAfterWrite, RefsAfterClose
  <1>7. CASE SealAndNotify(r)
    <2>1. wal' \in [Parts -> BOOLEAN]
      BY <1>7 DEF SealAndNotify, WalAfterFlush
    <2>2. job[r].parts \in SUBSET Parts
      BY DEF Job, NoJob
    <2>3. net' \in SUBSET Message
      BY <1>7, <2>2 DEF SealAndNotify, Send, Message
    <2> QED BY <1>7, <1>f, <2>1, <2>3 DEF SealAndNotify
  <1> QED BY <1>1, <1>2, <1>3, <1>4, <1>5, <1>6, <1>7 DEF Step

\* A request that loads or releases keeps the types.
LEMMA ChangeLoadTypeOK ==
    ASSUME TypeOK, NEW r \in Requests, NEW j \in Job,
           NEW newLoad \in [loaded : BOOLEAN, parts : SUBSET Parts],
           NEW path \in {"open", "close"}, NEW named \in SUBSET Parts,
           ChangeLoad(r, j, newLoad, path, named)
    PROVE  TypeOK'
  <1> USE DEF TypeOK, StoreTypeOK, Stages, ChangeLoad, loopVars
  <1>1. net' \in SUBSET Message
    BY DEF Send, Message
  <1>2. wal' \in [Parts -> BOOLEAN] /\ faults' \in 0 .. MaxFaults
    BY ProtocolAssumption DEF WalAfterFlush, FlushFails, Fault
  <1>3. refs' \in [Parts -> SUBSET (Requests \cup {Cache})]
    BY DEF RefsAfterPop
  <1> QED BY <1>1, <1>2, <1>3

\* Every request that begins keeps the types.
LEMMA BeginTypeOK ==
    ASSUME TypeOK, NEW r \in Requests, NEW j \in Jobs[r], Begin(r, j)
    PROVE  TypeOK'
  <1>j. j \in Job /\ j.parts \in SUBSET Parts
    BY ProtocolAssumption DEF Job
  <1>1. CASE BeginWrite(r, j)
    <2> USE DEF TypeOK, StoreTypeOK, Stages, writerVars, loopVars, storeVars
    <2>1. net' \in SUBSET Message
      BY <1>1, <1>j DEF BeginWrite, Send, Message
    <2> QED BY <1>1, <1>j, <2>1 DEF BeginWrite
  <1>3. CASE LoadCollection(r, j)
    <2> DEFINE newLoad == [loaded |-> TRUE, parts |-> {}]
    <2>1. newLoad \in [loaded : BOOLEAN, parts : SUBSET Parts]
      BY <1>j
    <2>2. ChangeLoad(r, j, newLoad, "open", Parts)
      BY <1>3 DEF LoadCollection
    <2> HIDE DEF newLoad
    <2> QED BY <2>1, <2>2, <1>j, ChangeLoadTypeOK
  <1>4. CASE ReleaseCollection(r, j)
    <2> DEFINE newLoad == [loaded |-> FALSE, parts |-> {}]
    <2>1. newLoad \in [loaded : BOOLEAN, parts : SUBSET Parts]
      BY <1>j
    <2>2. ChangeLoad(r, j, newLoad, "close", {})
      BY <1>4 DEF ReleaseCollection, NotLoaded
    <2> HIDE DEF newLoad
    <2> QED BY <2>1, <2>2, <1>j, ChangeLoadTypeOK
  <1>5. CASE LoadPartitions(r, j)
    <2> DEFINE newLoad == [loaded |-> TRUE, parts |-> j.parts]
    <2>1. newLoad \in [loaded : BOOLEAN, parts : SUBSET Parts]
      BY <1>j
    <2>2. ChangeLoad(r, j, newLoad, "open", j.parts)
      BY <1>5 DEF LoadPartitions
    <2> HIDE DEF newLoad
    <2> QED BY <2>1, <2>2, <1>j, ChangeLoadTypeOK
  <1>6. CASE ReleasePartitions(r, j)
    <2>1. NotLoaded \in [loaded : BOOLEAN, parts : SUBSET Parts]
      BY DEF NotLoaded
    <2>2. load \in [loaded : BOOLEAN, parts : SUBSET Parts]
      BY DEF TypeOK
    <2> QED BY <1>6, <1>j, <2>1, <2>2, ChangeLoadTypeOK DEF ReleasePartitions
  <1> QED BY <1>1, <1>3, <1>4, <1>5, <1>6 DEF Begin

\* What the reader's cache operations return is a cache.
LEMMA ReaderCacheType ==
    ASSUME StoreTypeOK, NEW S, NEW h \in [Parts -> Nat \cup {Closed}]
    PROVE  /\ WithClosed(h, S) \in [Parts -> Nat \cup {Closed}]
           /\ WithOpened(h, S) \in [Parts -> Nat \cup {Closed}]
           /\ Reopened(h, S)   \in [Parts -> Nat \cup {Closed}]
  BY DEF WithClosed, WithOpened, Reopened, StoreTypeOK

\* Every endpoint of the reader and of the writer keeps the types.
LEMMA HandleTypeOK ==
    ASSUME TypeOK,
           \/ \E m \in net : Handle(m)
           \/ \E s \in seals : HandleFlush(s)
    PROVE  TypeOK'
  <1> USE DEF TypeOK, StoreTypeOK, writerVars, loopVars, storeVars
  <1>1. ASSUME NEW m \in net, HandleClose(m) PROVE TypeOK'
    <2>1. m \in Message
      OBVIOUS
    <2>2. fenced' \in SUBSET (Parts \cup {Star})
      BY <1>1, <2>1 DEF HandleClose, FenceKeys, Message
    <2>3. rh' \in [Parts -> Nat \cup {Closed}]
      BY <1>1, ReaderCacheType DEF HandleClose
    <2>4. held' \in SUBSET Requests
      BY <1>1, <2>1 DEF HandleClose, Message
    <2> QED BY <1>1, <2>2, <2>3, <2>4 DEF HandleClose, Received
  <1>2. ASSUME NEW m \in net, HandleOpen(m) PROVE TypeOK'
    <2>1. fenced' \in SUBSET (Parts \cup {Star})
      BY <1>2 DEF HandleOpen, UnfencedKeys
    <2>2. rh' \in [Parts -> Nat \cup {Closed}]
      BY <1>2, ReaderCacheType DEF HandleOpen
    <2> QED BY <1>2, <2>1, <2>2 DEF HandleOpen, Received
  <1>3. ASSUME NEW m \in net, HandleUnfence(m) PROVE TypeOK'
    BY <1>3 DEF HandleUnfence, Received, UnfencedKeys
  <1>4. ASSUME NEW s \in seals, HandleFlush(s) PROVE TypeOK'
    <2>1. wal' \in [Parts -> BOOLEAN] /\ faults' \in 0 .. MaxFaults
      BY <1>4, ProtocolAssumption DEF HandleFlush, WalAfterFlush, FlushFails, Fault
    <2> QED BY <1>4, <2>1 DEF HandleFlush
  <1> QED BY <1>1, <1>2, <1>3, <1>4 DEF Handle

\* Every step of the refresh loop keeps the types.
LEMMA RefreshTypeOK == ASSUME TypeOK, Refresh PROVE TypeOK'
  <1> USE DEF TypeOK, StoreTypeOK, writerVars, loopVars, storeVars
  <1>1. CASE RefreshBegin
    <2>1. rh' \in [Parts -> Nat \cup {Closed}]
      BY <1>1, ReaderCacheType DEF RefreshBegin
    <2> QED BY <1>1, <2>1 DEF RefreshBegin, LoadedParts
  <1>2. CASE RefreshSealed
    <2>1. rh' \in [Parts -> Nat \cup {Closed}]
      BY <1>2, ReaderCacheType DEF RefreshSealed
    <2>2. faults' \in 0 .. MaxFaults
      BY <1>2, ProtocolAssumption DEF RefreshSealed, SealReturns, Fault
    <2> QED BY <1>2, <2>1, <2>2 DEF RefreshSealed
  <1>3. CASE RefreshEnd
    BY <1>3 DEF RefreshEnd
  <1>4. ASSUME NEW p \in Parts, RefreshSkip(p) PROVE TypeOK'
    BY <1>4 DEF RefreshSkip
  <1>5. ASSUME NEW p \in Parts, RefreshReopen(p) PROVE TypeOK'
    <2>1. rh' \in [Parts -> Nat \cup {Closed}]
      BY <1>5, ReaderCacheType DEF RefreshReopen
    <2> QED BY <1>5, <2>1 DEF RefreshReopen
  <1>6. ASSUME NEW p \in Parts, RefreshAskSeal(p) PROVE TypeOK'
    <2>1. rh' \in [Parts -> Nat \cup {Closed}]
      BY <1>6, ReaderCacheType DEF RefreshAskSeal
    <2>2. seals' \in SUBSET Seal
      BY <1>6 DEF RefreshAskSeal, Seal, Asker
    <2> QED BY <1>6, <2>1, <2>2 DEF RefreshAskSeal
  <1> QED BY <1>1, <1>2, <1>3, <1>4, <1>5, <1>6 DEF Refresh

\* Every read keeps the types.
LEMMA ReadTypeOK == ASSUME TypeOK, Read PROVE TypeOK'
  <1> USE DEF TypeOK, StoreTypeOK, writerVars, loopVars, storeVars
  <1>1. ASSUME NEW S \in SUBSET Parts, Search(S) PROVE TypeOK'
    <2>1. rh' \in [Parts -> Nat \cup {Closed}]
      BY <1>1, ReaderCacheType DEF Search
    <2> QED BY <1>1, <2>1 DEF Search
  <1>2. ASSUME NEW S \in SUBSET Parts, GetStats(S) PROVE TypeOK'
    <2>1. rh' \in [Parts -> Nat \cup {Closed}]
      BY <1>2, ReaderCacheType DEF GetStats
    <2> QED BY <1>2, <2>1 DEF GetStats
  <1>3. ASSUME NEW S \in SUBSET Parts, SearchAskSeal(S) PROVE TypeOK'
    <2>1. rh' \in [Parts -> Nat \cup {Closed}]
      BY <1>3, ReaderCacheType DEF SearchAskSeal
    <2>2. seals' \in SUBSET Seal
      BY <1>3 DEF SearchAskSeal, Seal, Asker
    <2> QED BY <1>3, <2>1, <2>2 DEF SearchAskSeal
  <1>4. CASE SearchSealed
    <2>1. rh' \in [Parts -> Nat \cup {Closed}]
      BY <1>4, ReaderCacheType DEF SearchSealed
    <2>2. faults' \in 0 .. MaxFaults
      BY <1>4, ProtocolAssumption DEF SearchSealed, SealReturns, Fault
    <2> QED BY <1>4, <2>1, <2>2 DEF SearchSealed
  <1>5. CASE Reload
    <2>1. rh' \in [Parts -> Nat \cup {Closed}]
      BY <1>5, ReaderCacheType DEF Reload
    <2> QED BY <1>5, <2>1 DEF Reload
  <1> QED BY <1>1, <1>2, <1>3, <1>4, <1>5 DEF Read

\* Every fault keeps the types.
LEMMA DisturbTypeOK == ASSUME TypeOK, Disturb PROVE TypeOK'
  <1> USE DEF TypeOK, StoreTypeOK, Stages, writerVars, loopVars, storeVars
  <1>f. ASSUME NEW kind, Fault(kind) PROVE faults' \in 0 .. MaxFaults
    BY <1>f, ProtocolAssumption DEF Fault
  <1>1. ASSUME NEW r \in Requests, TimedOut(r) PROVE TypeOK'
    BY <1>1, <1>f DEF TimedOut, Proceed
  <1>2. ASSUME NEW m \in net, LoseMessage(m) PROVE TypeOK'
    BY <1>2, <1>f DEF LoseMessage
  <1>3. ASSUME NEW s \in seals, LoseSeal(s) PROVE TypeOK'
    BY <1>3, <1>f DEF LoseSeal
  <1>4. CASE ReaderCrash
    <2>1. rh' \in [Parts -> Nat \cup {Closed}]
      BY <1>4, ReaderCacheType DEF ReaderCrash
    <2> QED BY <1>4, <1>f, <2>1 DEF ReaderCrash
  <1>5. CASE WriterCrash
    BY <1>5, <1>f DEF WriterCrash
  <1> HIDE DEF TypeOK
  <1> QED BY <1>1, <1>2, <1>3, <1>4, <1>5 DEF Disturb

\* Every state the protocol reaches is well typed.
THEOREM TypeCorrect == Spec => []TypeOK
  <1>1. ASSUME TypeOK, [Next]_vars PROVE TypeOK'
    <2>1. CASE Next
      <3>1. ASSUME NEW r \in Requests, Step(r) PROVE TypeOK'
        BY <1>1, <3>1, StepTypeOK
      <3>2. ASSUME NEW r \in Requests, NEW j \in Jobs[r], Begin(r, j) PROVE TypeOK'
        BY <1>1, <3>2, BeginTypeOK
      <3>3. CASE (\E m \in net : Handle(m)) \/ (\E s \in seals : HandleFlush(s))
        BY <1>1, <3>3, HandleTypeOK
      <3>4. CASE Refresh \/ Read \/ Disturb
        BY <1>1, <3>4, RefreshTypeOK, ReadTypeOK, DisturbTypeOK
      <3> QED BY <2>1, <3>1, <3>2, <3>3, <3>4 DEF Next
    <2>2. CASE UNCHANGED vars
      BY <1>1, <2>2 DEF vars, TypeOK, StoreTypeOK, writerVars, loopVars, storeVars
    <2> QED BY <1>1, <2>1, <2>2
  <1> QED BY <1>1, InitTypeOK, PTL DEF Spec

-----------------------------------------------------------------------------
(* Turns                                                                   *)

ReaderTurn ==
    /\ UNCHANGED <<refs, wal, ver>>
    /\ \A p \in Parts : \/ rh'[p] \in {rh[p], Closed}
                        \/ MayOpenRO(p, fenced') /\ rh'[p] = ver[p]
    /\ \A p \in Parts : {p, Star} \cap fenced' # {} => IsFenced(p) \/ rh'[p] = Closed

HandleTurn ==
    /\ UNCHANGED <<ver, rh, fenced>>
    /\ \A p \in Parts : refs'[p] # {} => refs[p] # {} \/ rh[p] = Closed
    /\ \A p \in Parts : wal'[p] => wal[p]

ChangeTurn(p) ==
    /\ refs[p] # {}
    /\ wal' = [wal EXCEPT ![p] = TRUE]
    /\ ver' = [ver EXCEPT ![p] = @ + 1]
    /\ UNCHANGED <<refs, rh, fenced>>

Turn == ReaderTurn \/ HandleTurn \/ \E p \in Parts : ChangeTurn(p)

-----------------------------------------------------------------------------
(* Every step is a turn                                                    *)

\* A step that touches no file and no handle is a turn.
LEMMA IdleTurn == ASSUME UNCHANGED storeVars PROVE HandleTurn
  BY DEF storeVars, HandleTurn

\* Flushing removes WAL files and adds none.
LEMMA FlushAddsNoWal ==
    ASSUME NEW S, NEW F, wal' = WalAfterFlush(S, F)
    PROVE  \A p \in Parts : wal'[p] => wal[p]
  BY DEF WalAfterFlush

\* The steps of a request under way: opening takes the lock while the reader
\* has the partition closed, and only the engine call changes files.
LEMMA StepTurn ==
    ASSUME TypeOK, NEW r \in Requests, Step(r)
    PROVE  Turn
  <1>1. CASE Answered(r)
    BY <1>1, IdleTurn DEF Answered, Proceed, Turn
  <1>p. ASSUME NEW p \in Parts PROVE RefsBeforeOpen(r, p) \subseteq refs[p]
    BY DEF RefsBeforeOpen, RefsAfterPop
  <1>2. ASSUME NEW p \in Parts, OpenForWrite(r, p) PROVE Turn
    <2>1. \A q \in Parts : wal'[q] => wal[q]
      BY <1>2, FlushAddsNoWal DEF OpenForWrite
    <2>2. refs[p] # {} \/ rh[p] = Closed
      BY <1>2, <1>p DEF OpenForWrite
    <2>3. \A q \in Parts : refs'[q] # {} => refs[q] # {} \/ rh[q] = Closed
      BY <1>2, <2>2 DEF OpenForWrite, TypeOK, StoreTypeOK
    <2> QED BY <1>2, <2>1, <2>3 DEF OpenForWrite, HandleTurn, Turn
  <1>3. ASSUME NEW p \in Parts, OpenFails(r, p) PROVE Turn
    <2>1. \A q \in Parts : wal'[q] => wal[q]
      BY <1>3, FlushAddsNoWal DEF OpenFails
    <2>2. \A q \in Parts : refs'[q] # {} => refs[q] # {}
      BY <1>3, <1>p DEF OpenFails, TypeOK, StoreTypeOK
    <2> QED BY <1>3, <2>1, <2>2 DEF OpenFails, HandleTurn, Turn
  <1>4. ASSUME NEW p \in Parts, Mutate(r, p) PROVE Turn
    BY <1>4 DEF Mutate, ChangeTurn, Turn
  <1>5. ASSUME NEW p \in Parts, AbortInsert(r, p) PROVE Turn
    <2>1. \A q \in Parts : refs'[q] # {} => refs[q] # {}
      BY <1>5 DEF AbortInsert, TypeOK, StoreTypeOK
    <2> QED BY <1>5, <2>1 DEF AbortInsert, HandleTurn, Turn
  <1>6. ASSUME NEW p \in Parts, CloseAfterWrite(r, p) PROVE Turn
    <2>1. \A q \in Parts : wal'[q] => wal[q]
      BY <1>6, FlushAddsNoWal DEF CloseAfterWrite
    <2>2. \A q \in Parts : refs'[q] # {} => refs[q] # {}
      BY <1>6 DEF CloseAfterWrite, RefsAfterClose, TypeOK, StoreTypeOK
    <2> QED BY <1>6, <2>1, <2>2 DEF CloseAfterWrite, HandleTurn, Turn
  <1>7. CASE SealAndNotify(r)
    <2>1. \A q \in Parts : wal'[q] => wal[q]
      BY <1>7, FlushAddsNoWal DEF SealAndNotify
    <2> QED BY <1>7, <2>1 DEF SealAndNotify, HandleTurn, Turn
  <1> QED BY <1>1, <1>2, <1>3, <1>4, <1>5, <1>6, <1>7 DEF Step

\* Beginning a request pops and flushes handles at most.
LEMMA BeginTurn ==
    ASSUME NEW r, NEW j, Begin(r, j)
    PROVE  HandleTurn
  <1>1. CASE BeginWrite(r, j)
    BY <1>1, IdleTurn DEF BeginWrite
  <1>2. ASSUME NEW l, NEW path, NEW named, ChangeLoad(r, j, l, path, named)
        PROVE  HandleTurn
    <2>1. \A q \in Parts : wal'[q] => wal[q]
      BY <1>2, FlushAddsNoWal DEF ChangeLoad
    <2>2. \A q \in Parts : refs'[q] # {} => refs[q] # {}
      BY <1>2 DEF ChangeLoad, RefsAfterPop
    <2> QED BY <1>2, <2>1, <2>2 DEF ChangeLoad, HandleTurn
  <1> QED BY <1>1, <1>2 DEF Begin, LoadCollection, ReleaseCollection,
             LoadPartitions, ReleasePartitions

\* Closing some handles and opening others, with the fence as it is.
LEMMA RehandleTurn ==
    ASSUME TypeOK, NEW S, NEW T \in SUBSET Parts,
           \A p \in T : MayOpenRO(p, fenced),
           rh' = WithOpened(WithClosed(rh, S), T),
           UNCHANGED <<refs, wal, ver, fenced>>
    PROVE  ReaderTurn
  BY DEF ReaderTurn, WithOpened, WithClosed, IsFenced

\* Closing handles only.
LEMMA CloseTurn ==
    ASSUME TypeOK, NEW S, rh' = WithClosed(rh, S),
           UNCHANGED <<refs, wal, ver, fenced>>
    PROVE  ReaderTurn
  BY DEF ReaderTurn, WithClosed, IsFenced

\* Opening handles only.
LEMMA OpenTurn ==
    ASSUME TypeOK, NEW T \in SUBSET Parts, \A p \in T : MayOpenRO(p, fenced),
           rh' = WithOpened(rh, T), UNCHANGED <<refs, wal, ver, fenced>>
    PROVE  ReaderTurn
  BY DEF ReaderTurn, WithOpened, IsFenced

\* open_partition(force_reopen) is a reader's turn.
LEMMA ReopenTurn ==
    ASSUME TypeOK, NEW S \in SUBSET Parts, rh' = Reopened(rh, S),
           UNCHANGED <<refs, wal, ver, fenced>>
    PROVE  ReaderTurn
  BY RehandleTurn DEF Reopened

\* The endpoints: fencing closes what it fences, an open notification opens
\* only what its own unfencing left unfenced, a flush removes WAL files.
LEMMA EndpointTurn ==
    ASSUME TypeOK,
           \/ \E m \in net : Handle(m)
           \/ \E s \in seals : HandleFlush(s)
    PROVE  Turn
  <1>1. ASSUME NEW m \in net, HandleClose(m) PROVE ReaderTurn
    <2>1. \A p \in Parts : {p, Star} \cap FenceKeys(m.parts) # {} => rh'[p] = Closed
      BY <1>1, CacheAssumption
         DEF HandleClose, FenceKeys, WithClosed, Covered, TypeOK, Message
    <2>2. \A p \in Parts : {p, Star} \cap fenced' # {} => IsFenced(p) \/ rh'[p] = Closed
      BY <1>1, <2>1 DEF HandleClose, IsFenced
    <2>3. \A p \in Parts : rh'[p] \in {rh[p], Closed}
      BY <1>1 DEF HandleClose, WithClosed
    <2> QED BY <1>1, <2>2, <2>3 DEF HandleClose, ReaderTurn
  <1>2. ASSUME NEW m \in net, HandleOpen(m) PROVE ReaderTurn
    <2>1. PICK S : /\ S \subseteq {p \in m.parts : MayOpenRO(p, fenced')}
                   /\ rh' = WithOpened(rh, S)
      BY <1>2 DEF HandleOpen
    <2>2. \A p \in Parts : \/ rh'[p] \in {rh[p], Closed}
                           \/ MayOpenRO(p, fenced') /\ rh'[p] = ver[p]
      BY <2>1 DEF WithOpened
    <2>3. fenced' \subseteq fenced
      BY <1>2 DEF HandleOpen, UnfencedKeys
    <2> QED BY <1>2, <2>2, <2>3 DEF HandleOpen, ReaderTurn, IsFenced
  <1>3. ASSUME NEW m \in net, HandleUnfence(m) PROVE ReaderTurn
    BY <1>3 DEF HandleUnfence, UnfencedKeys, ReaderTurn, IsFenced
  <1>4. ASSUME NEW s \in seals, HandleFlush(s) PROVE HandleTurn
    <2>1. \A q \in Parts : wal'[q] => wal[q]
      BY <1>4, FlushAddsNoWal DEF HandleFlush
    <2> QED BY <1>4, <2>1 DEF HandleFlush, HandleTurn
  <1> QED BY <1>1, <1>2, <1>3, <1>4 DEF Handle, Turn

\* The refresh loop closes, and opens what is unfenced, sealed and unlocked.
LEMMA RefreshTurn == ASSUME TypeOK, Refresh PROVE Turn
  <1>0. CASE UNCHANGED storeVars
    BY <1>0, IdleTurn DEF Turn
  <1>1. CASE RefreshBegin
    BY <1>1, <1>0, CloseTurn DEF RefreshBegin, Turn, storeVars
  <1>2. CASE RefreshSealed
    <2>1. rcur \in Parts
      BY <1>2 DEF RefreshSealed, TypeOK
    <2>2. {rcur} \in SUBSET Parts
      BY <2>1
    <2> QED BY <1>2, <1>0, <2>2, ReopenTurn DEF RefreshSealed, Turn, storeVars
  <1>3. CASE RefreshEnd
    BY <1>3, <1>0 DEF RefreshEnd
  <1>4. ASSUME NEW p \in Parts, RefreshSkip(p) PROVE Turn
    BY <1>4, <1>0 DEF RefreshSkip
  <1>5. ASSUME NEW p \in Parts, RefreshReopen(p) PROVE Turn
    <2>1. {p} \in SUBSET Parts
      OBVIOUS
    <2> QED BY <1>5, <2>1, ReopenTurn DEF RefreshReopen, Turn
  <1>6. ASSUME NEW p \in Parts, RefreshAskSeal(p) PROVE Turn
    BY <1>6, CloseTurn DEF RefreshAskSeal, Turn
  <1> QED BY <1>1, <1>2, <1>3, <1>4, <1>5, <1>6 DEF Refresh

\* So do the searches, which do not hold coord_lock.
LEMMA ReadTurn == ASSUME TypeOK, Read PROVE ReaderTurn
  <1>1. ASSUME NEW S \in SUBSET Parts, Search(S) PROVE ReaderTurn
    <2>1. PICK D : /\ D \in SUBSET {p \in S : MayOpenRO(p, fenced)}
                   /\ rh' = WithOpened(rh, D)
      BY <1>1 DEF Search
    <2>2. D \in SUBSET Parts
      BY <2>1
    <2> QED BY <1>1, <2>1, <2>2, OpenTurn DEF Search
  <1>2. ASSUME NEW S \in SUBSET Parts, GetStats(S) PROVE ReaderTurn
    <2> DEFINE D == {p \in S : rh[p] = Closed /\ MayOpenRO(p, fenced)}
    <2>1. D \in SUBSET Parts /\ \A p \in D : MayOpenRO(p, fenced)
      OBVIOUS
    <2>2. rh' = WithOpened(rh, D) /\ UNCHANGED <<refs, wal, ver, fenced>>
      BY <1>2 DEF GetStats
    <2> HIDE DEF D
    <2> QED BY <2>1, <2>2, OpenTurn
  <1>3. ASSUME NEW S \in SUBSET Parts, SearchAskSeal(S) PROVE ReaderTurn
    BY <1>3, CloseTurn DEF SearchAskSeal
  <1>4. CASE SearchSealed
    <2> DEFINE tried == {p \in sparts : ~wal[p] /\ ~IsFenced(p)}
    <2>1. tried \in SUBSET Parts
      BY DEF TypeOK
    <2>2. rh' = Reopened(rh, tried) /\ UNCHANGED <<refs, wal, ver, fenced>>
      BY <1>4 DEF SearchSealed
    <2> HIDE DEF tried
    <2> QED BY <2>1, <2>2, ReopenTurn
  <1>5. CASE Reload
    <2> DEFINE open == {p \in Parts : rh[p] # Closed}
    <2>1. open \in SUBSET Parts
      OBVIOUS
    <2>2. rh' = Reopened(rh, open) /\ UNCHANGED <<refs, wal, ver, fenced>>
      BY <1>5 DEF Reload
    <2> HIDE DEF open
    <2> QED BY <2>1, <2>2, ReopenTurn
  <1> QED BY <1>1, <1>2, <1>3, <1>4, <1>5 DEF Read

\* A fault drops handles, fences and calls, never files.
LEMMA DisturbTurn == ASSUME TypeOK, Disturb PROVE Turn
  <1>1. ASSUME NEW r \in Requests, TimedOut(r) PROVE HandleTurn
    BY <1>1, IdleTurn DEF TimedOut, Proceed
  <1>2. ASSUME NEW m \in net, LoseMessage(m) PROVE HandleTurn
    BY <1>2, IdleTurn DEF LoseMessage
  <1>3. ASSUME NEW s \in seals, LoseSeal(s) PROVE HandleTurn
    BY <1>3, IdleTurn DEF LoseSeal
  <1>4. CASE ReaderCrash
    BY <1>4 DEF ReaderCrash, ReaderTurn, WithClosed, Turn
  <1>5. CASE WriterCrash
    BY <1>5 DEF WriterCrash, HandleTurn, Turn
  <1> QED BY <1>1, <1>2, <1>3, <1>4, <1>5 DEF Disturb, Turn

\* Every step of the protocol is one of the three turns.
LEMMA NextTurn == ASSUME TypeOK, [Next]_vars PROVE Turn
  <1>1. CASE UNCHANGED vars
    BY <1>1, IdleTurn DEF vars, Turn, storeVars
  <1>2. ASSUME NEW r \in Requests, Step(r) PROVE Turn
    BY <1>2, StepTurn
  <1>3. ASSUME NEW r \in Requests, NEW j \in Jobs[r], Begin(r, j) PROVE Turn
    BY <1>3, BeginTurn DEF Turn
  <1>4. CASE (\E m \in net : Handle(m)) \/ (\E s \in seals : HandleFlush(s))
    BY <1>4, EndpointTurn
  <1>5. CASE Refresh \/ Read \/ Disturb
    BY <1>5, RefreshTurn, ReadTurn, DisturbTurn DEF Turn
  <1> QED BY <1>1, <1>2, <1>3, <1>4, <1>5 DEF Next

-----------------------------------------------------------------------------
(* Every turn keeps Safety                                                 *)

\* A reader's turn opens only what the writer does not have open.
LEMMA TurnSafety == ASSUME TypeOK, TypeOK', Safety, Turn PROVE Safety'
  <1> USE DEF Safety, LockExclusion, HandlesAreCurrent, NoHandleOverWal,
              FencedStaysClosed, TypeOK, StoreTypeOK
  <1>1. CASE ReaderTurn
    BY <1>1 DEF ReaderTurn, MayOpenRO, SharedLockFree, IsFenced
  <1>2. CASE HandleTurn
    BY <1>2 DEF HandleTurn, IsFenced
  <1>3. ASSUME NEW p \in Parts, ChangeTurn(p) PROVE Safety'
    BY <1>3 DEF ChangeTurn, IsFenced
  <1> QED BY <1>1, <1>2, <1>3 DEF Turn

\* No fenced partition is open on the reader, no partition with a WAL is,
\* none that the writer has open is, and what is open is current.
THEOREM SafetyHolds == Spec => []Safety
  <1>1. Init => Safety
    BY DEF Init, StoreInit, Safety, LockExclusion, HandlesAreCurrent,
           NoHandleOverWal, FencedStaysClosed
  <1>2. TypeOK /\ TypeOK' /\ Safety /\ [Next]_vars => Safety'
    BY NextTurn, TurnSafety
  <1> QED BY <1>1, <1>2, TypeCorrect, PTL DEF Spec

\* Fenced partitions stay closed, for every number of requests and faults.
THEOREM FencedStaysClosedHolds == Spec => []FencedStaysClosed
  <1>1. Safety => FencedStaysClosed
    BY DEF Safety
  <1> QED BY <1>1, SafetyHolds, PTL

\* The reader never has a partition open that has a WAL.
THEOREM NoHandleOverWalHolds == Spec => []NoHandleOverWal
  <1>1. Safety => NoHandleOverWal
    BY DEF Safety
  <1> QED BY <1>1, SafetyHolds, PTL

-----------------------------------------------------------------------------
(* Every turn is a step of SharedPartition                                 *)

LEMMA TurnImplements ==
    ASSUME TypeOK, TypeOK', Safety, Turn
    PROVE  [Promise!Next]_(Promise!vars)
  <1> USE DEF Promise!Next, Promise!vars, Promise!NoView
  <1>1. CASE ReaderTurn
    <2>1. rh' \in [Parts -> Int]
      BY DEF TypeOK, StoreTypeOK
    <2>2. Promise!Look
      BY <1>1, <2>1 DEF ReaderTurn, MayOpenRO, Promise!Look
    <2> QED BY <2>2
  <1>2. CASE HandleTurn
    <2>1. wal' \in [Parts -> BOOLEAN] /\ wal \in [Parts -> BOOLEAN]
      BY DEF TypeOK, StoreTypeOK
    <2>2. \A p \in Parts : wal'[p] # wal[p] => wal[p] /\ rh[p] = Closed
      BY <1>2, <2>1 DEF HandleTurn, Safety, NoHandleOverWal
    <2>3. Promise!SealSome
      BY <1>2, <2>1, <2>2 DEF HandleTurn, Promise!SealSome
    <2> QED BY <2>3
  <1>3. ASSUME NEW p \in Parts, ChangeTurn(p) PROVE Promise!Change(p)
    BY <1>3 DEF ChangeTurn, Safety, LockExclusion, Promise!Change
  <1> QED BY <1>1, <1>2, <1>3 DEF Turn

\* The fence protocol keeps the promise of SharedPartition: files change only
\* while the reader has them closed, and the reader opens only sealed, current
\* versions, whatever is lost, late, or crashes.
THEOREM PromiseHolds == Spec => PromiseKept
  <1>1. Init => Promise!Init
    BY DEF Init, StoreInit, Promise!Init, Promise!NoView
  <1>2. TypeOK /\ TypeOK' /\ Safety /\ [Next]_vars => [Promise!Next]_(Promise!vars)
    BY NextTurn, TurnImplements
  <1> QED BY <1>1, <1>2, TypeCorrect, SafetyHolds, PTL
          DEF Spec, PromiseKept, Promise!Spec

-----------------------------------------------------------------------------
(* Ownership                                                               *)

HIDE DEF Closed

Early == {"closing", "body", "opened", "mutated"}
Late  == {"notifying", "done"}

\* What a notification under way says about the request that sent it.
Owned(m) ==
    /\ pc[m.req] # "new"
    /\ job[m.req] \in Jobs[m.req]
    /\ m.path = "close" /\ m.stage = "closing" => m.parts = job[m.req].parts
    /\ m.path # "close" =>
          /\ m.parts = job[m.req].parts
          /\ job[m.req].kind \notin {"release", "releaseParts"}
          /\ pc[m.req] \in Late

NoRival(r) == \A q \in Requests \ {r} : ~Rival(q, r)

\* What the reader's acknowledgement of the fence of r means.
Held(r) ==
    /\ pc[r] \in Early
    /\ job[r] \in Jobs[r]
    /\ NoRival(r) => job[r].parts \subseteq fenced

\* A request knows what it was asked, and only writes have a body.
Begun(r) ==
    /\ IF pc[r] = "new" THEN job[r] = NoJob ELSE job[r] \in Jobs[r]
    /\ pc[r] \in Early => job[r].kind \in WriteKinds

Ownership ==
    /\ \A r \in Requests : Begun(r)
    /\ \A m \in net : Owned(m)
    /\ \A r \in held : Held(r)

\* A step that sends, acknowledges and fences nothing keeps Ownership, if no
\* request starts again or goes back.
LEMMA QuietStep ==
    ASSUME TypeOK, TypeOK', Ownership,
           net' \subseteq net, held' \subseteq held, UNCHANGED <<job, fenced>>,
           \A r \in Requests : /\ pc[r] = "new" <=> pc'[r] = "new"
                               /\ pc[r] \in Late => pc'[r] \in Late
                               /\ pc[r] \in Early /\ r \in held' => pc'[r] \in Early
    PROVE  Ownership'
  <1>1. \A m \in net : m.req \in Requests
    BY DEF TypeOK, Message
  <1>2. ASSUME NEW m \in net' PROVE Owned(m)'
    BY <1>1, <1>2 DEF Ownership, Owned
  <1>3. ASSUME NEW r \in held' PROVE Held(r)'
    BY <1>3 DEF Ownership, Held, TypeOK, NoRival, Rival
  <1>4. ASSUME NEW r \in Requests PROVE Begun(r)'
    BY <1>4 DEF Ownership, Begun, TypeOK, Stages, Early, Late
  <1> QED BY <1>2, <1>3, <1>4 DEF Ownership

\* A job has a partition at least.
LEMMA JobParts ==
    ASSUME NEW r \in Requests, NEW j \in Jobs[r]
    PROVE  j \in Job /\ j.parts \subseteq Parts /\ j.parts # {}
  BY ProtocolAssumption DEF Job

\* The steps of a request under way: it gives up its acknowledgement when it
\* sends its last notification.
LEMMA StepOwnership ==
    ASSUME TypeOK, TypeOK', Ownership, NEW r \in Requests, Step(r)
    PROVE  Ownership'
  <1>1. CASE Answered(r)
    BY <1>1, QuietStep DEF Answered, Proceed, storeVars, TypeOK, Early, Late
  <1>2. ASSUME NEW p \in Parts,
               \/ OpenForWrite(r, p) \/ OpenFails(r, p) \/ Mutate(r, p)
               \/ AbortInsert(r, p) \/ CloseAfterWrite(r, p)
        PROVE  Ownership'
    <2> USE DEF TypeOK, Early, Late
    <2>1. CASE OpenForWrite(r, p)
      BY <2>1, QuietStep DEF OpenForWrite
    <2>2. CASE OpenFails(r, p)
      BY <2>2, QuietStep DEF OpenFails
    <2>3. CASE Mutate(r, p)
      BY <2>3, QuietStep DEF Mutate
    <2>4. CASE AbortInsert(r, p)
      BY <2>4, QuietStep DEF AbortInsert
    <2>5. CASE CloseAfterWrite(r, p)
      BY <2>5, QuietStep DEF CloseAfterWrite
    <2> QED BY <1>2, <2>1, <2>2, <2>3, <2>4, <2>5
  <1>3. CASE SealAndNotify(r)
    <2>1. /\ pc[r] = "body" /\ pc' = [pc EXCEPT ![r] = "notifying"]
          /\ held' = held \ {r} /\ UNCHANGED <<job, fenced>>
      BY <1>3 DEF SealAndNotify
    <2>2. /\ job[r] \in Jobs[r] /\ job[r].kind \in WriteKinds
      BY <2>1 DEF Ownership, Begun, Early
    <2>3. ASSUME NEW m \in net' PROVE Owned(m)'
      <3>1. CASE m \in net
        BY <2>1, <3>1 DEF Ownership, Owned, TypeOK, Message, Late
      <3>2. CASE m \notin net
        <4>1. m.req = r /\ m.path # "close" /\ m.parts = job[r].parts
          BY <1>3, <3>2, <2>3 DEF SealAndNotify, Send
        <4> QED BY <4>1, <2>1, <2>2 DEF Owned, WriteKinds, TypeOK, Late
      <3> QED BY <3>1, <3>2
    <2>4. ASSUME NEW q \in held' PROVE Held(q)'
      BY <2>1, <2>4 DEF Ownership, Held, TypeOK, NoRival, Rival
    <2>5. ASSUME NEW q \in Requests PROVE Begun(q)'
      BY <2>1, <2>2 DEF Ownership, Begun, TypeOK, Early
    <2> QED BY <2>3, <2>4, <2>5 DEF Ownership
  <1> QED BY <1>1, <1>2, <1>3 DEF Step

\* A request that begins is neither held nor has it sent anything before.
LEMMA BeginOwnership ==
    ASSUME TypeOK, TypeOK', Ownership,
           NEW r \in Requests, NEW j \in Jobs[r], Begin(r, j)
    PROVE  Ownership'
  <1>1. /\ pc[r] = "new" /\ job' = [job EXCEPT ![r] = j]
        /\ UNCHANGED <<fenced, held>>
    BY DEF Begin, BeginWrite, LoadCollection, ReleaseCollection, LoadPartitions,
           ReleasePartitions, ChangeLoad, storeVars
  <1>2. \/ pc' = [pc EXCEPT ![r] = "closing"] /\ j.kind \in WriteKinds
        \/ pc' = [pc EXCEPT ![r] = "notifying"]
    BY DEF Begin, BeginWrite, LoadCollection, ReleaseCollection, LoadPartitions,
           ReleasePartitions, ChangeLoad
  <1>3. ASSUME NEW m \in net', m \notin net
        PROVE  /\ m.req = r
               /\ m.path = "close" /\ m.stage = "closing" => m.parts = j.parts
               /\ m.path # "close" =>
                     /\ m.parts = j.parts /\ pc'[r] = "notifying"
                     /\ j.kind \notin {"release", "releaseParts"}
    <2>1. CASE BeginWrite(r, j)
      BY <1>3, <2>1 DEF BeginWrite, Send
    <2>2. CASE LoadCollection(r, j)
      BY <1>3, <2>2 DEF LoadCollection, ChangeLoad, Send, TypeOK
    <2>3. CASE ReleaseCollection(r, j)
      BY <1>3, <2>3 DEF ReleaseCollection, ChangeLoad, Send
    <2>4. CASE LoadPartitions(r, j)
      BY <1>3, <2>4 DEF LoadPartitions, ChangeLoad, Send, TypeOK
    <2>5. CASE ReleasePartitions(r, j)
      BY <1>3, <2>5 DEF ReleasePartitions, ChangeLoad, Send
    <2> QED BY <2>1, <2>2, <2>3, <2>4, <2>5 DEF Begin
  <1>4. ASSUME NEW m \in net' PROVE Owned(m)'
    <2>1. CASE m \in net
      BY <1>1, <1>2, <2>1 DEF Ownership, Owned, TypeOK, Message
    <2>2. CASE m \notin net
      BY <1>1, <1>2, <1>3, <1>4, <2>2 DEF Owned, TypeOK, Late
    <2> QED BY <2>1, <2>2
  <1>5. ASSUME NEW q \in held' PROVE Held(q)'
    <2>1. q \in Requests /\ q # r /\ Held(q)
      BY <1>1, <1>5 DEF Ownership, Held, TypeOK, Early
    <2>2. job[r].parts = {}
      BY <1>1 DEF Ownership, Begun, NoJob
    <2>3. NoRival(q)' => NoRival(q)
      BY <1>1, <2>1, <2>2 DEF NoRival, Rival, TypeOK
    <2> QED BY <1>1, <1>2, <2>1, <2>3 DEF Held, TypeOK, Early
  <1>6. ASSUME NEW q \in Requests PROVE Begun(q)'
    BY <1>1, <1>2 DEF Ownership, Begun, TypeOK, Early
  <1> QED BY <1>4, <1>5, <1>6 DEF Ownership

\* The endpoints: a notification of q lifts the fence of r only if q is r, and
\* then r is no longer held, or if q is a rival of r.
LEMMA EndpointOwnership ==
    ASSUME TypeOK, TypeOK', Ownership,
           \/ \E m \in net : Handle(m)
           \/ \E s \in seals : HandleFlush(s)
    PROVE  Ownership'
  <1>1. ASSUME NEW m \in net, HandleClose(m) PROVE Ownership'
    <2>1. /\ net' \subseteq net /\ fenced \subseteq fenced'
          /\ UNCHANGED <<pc, job>>
          /\ fenced' = fenced \cup FenceKeys(m.parts)
      BY <1>1 DEF HandleClose, Received, writerVars
    <2>2. m.req \in Requests
      BY DEF TypeOK, Message
    <2>3. ASSUME NEW r \in held', r \notin held PROVE Held(r)'
      <3>1. r = m.req /\ m.stage = "closing" /\ pc[r] = "closing" /\ m.path = "close"
        BY <1>1, <2>3 DEF HandleClose, Received
      <3>2. job[r] \in Jobs[r] /\ m.parts = job[r].parts
        BY <3>1 DEF Ownership, Owned
      <3>3. job[r].parts \subseteq fenced'
        BY <2>1, <2>2, <3>1, <3>2, JobParts DEF FenceKeys
      <3> QED BY <2>1, <3>1, <3>2, <3>3 DEF Held, Early, NoRival, Rival
    <2>4. ASSUME NEW r \in held' PROVE Held(r)'
      BY <2>1, <2>3 DEF Ownership, Held, NoRival, Rival
    <2> QED BY <2>1, <2>4 DEF Ownership, Owned, Begun
  <1>2. ASSUME NEW m \in net, HandleOpen(m) \/ HandleUnfence(m) PROVE Ownership'
    <2>1. /\ net' \subseteq net /\ UNCHANGED <<pc, job, held>>
          /\ fenced' = UnfencedKeys(m.parts) /\ m.path # "close"
      BY <1>2 DEF HandleOpen, HandleUnfence, Received, writerVars
    <2>2. /\ m.req \in Requests /\ job[m.req] \in Jobs[m.req]
          /\ m.parts = job[m.req].parts /\ pc[m.req] \in Late
          /\ job[m.req].kind \notin {"release", "releaseParts"}
      BY <2>1 DEF Ownership, Owned, TypeOK, Message
    <2>3. ASSUME NEW r \in held, NoRival(r) PROVE job[r].parts \subseteq fenced'
      <3>1. pc[r] \in Early /\ job[r] \in Jobs[r] /\ job[r].parts \subseteq fenced
        BY <2>3 DEF Ownership, Held
      <3>2. m.req # r
        BY <2>2, <3>1 DEF Early, Late
      <3>3. m.parts \cap job[r].parts = {}
        BY <2>2, <2>3, <3>1, <3>2 DEF NoRival, Rival
      <3>4. Covered(m.parts) = m.parts
        BY <2>2, JobParts DEF Covered
      <3>5. r \in Requests
        BY DEF TypeOK
      <3> QED BY <2>1, <3>1, <3>3, <3>4, <3>5, JobParts, CacheAssumption
              DEF UnfencedKeys
    <2>4. ASSUME NEW r \in held' PROVE Held(r)'
      BY <2>1, <2>3 DEF Ownership, Held, NoRival, Rival
    <2> QED BY <2>1, <2>4 DEF Ownership, Owned, Begun
  <1>3. ASSUME NEW s \in seals, HandleFlush(s) PROVE Ownership'
    BY <1>3, QuietStep DEF HandleFlush, writerVars
  <1> QED BY <1>1, <1>2, <1>3 DEF Handle

\* The refresh loop and the searches leave the fences alone.
LEMMA ReaderOwnership ==
    ASSUME TypeOK, TypeOK', Ownership, Refresh \/ Read
    PROVE  Ownership'
  <1>1. UNCHANGED <<net, held, job, fenced, pc>>
    BY DEF Refresh, RefreshBegin, RefreshSealed, RefreshEnd, RefreshSkip,
           RefreshReopen, RefreshAskSeal, Read, Search, GetStats, SearchAskSeal,
           SearchSealed, Reload, storeVars, writerVars
  <1> QED BY <1>1, QuietStep

\* A fault acknowledges nothing; a reader that restarts has forgotten its
\* fences, and nobody holds one any more.
LEMMA DisturbOwnership ==
    ASSUME TypeOK, TypeOK', Ownership, Disturb
    PROVE  Ownership'
  <1>1. ASSUME NEW r \in Requests, TimedOut(r) PROVE Ownership'
    BY <1>1, QuietStep DEF TimedOut, Proceed, storeVars, TypeOK, Early, Late
  <1>2. ASSUME NEW m \in net, LoseMessage(m) PROVE Ownership'
    BY <1>2, QuietStep DEF LoseMessage, storeVars, writerVars
  <1>3. ASSUME NEW s \in seals, LoseSeal(s) PROVE Ownership'
    BY <1>3, QuietStep DEF LoseSeal, storeVars, writerVars
  <1>4. CASE ReaderCrash
    BY <1>4 DEF ReaderCrash, writerVars, Ownership, Begun
  <1>5. CASE WriterCrash
    BY <1>5, QuietStep DEF WriterCrash, TypeOK, Late
  <1> QED BY <1>1, <1>2, <1>3, <1>4, <1>5 DEF Disturb

\* Ownership is an invariant.
THEOREM OwnershipHolds == Spec => []Ownership
  <1>1. Init => Ownership
    BY DEF Init, Ownership, Begun, Early
  <1>2. ASSUME TypeOK, TypeOK', Ownership, [Next]_vars PROVE Ownership'
    <2>1. CASE UNCHANGED vars
      BY <1>2, <2>1, QuietStep DEF vars, storeVars, writerVars
    <2>2. ASSUME NEW r \in Requests, Step(r) PROVE Ownership'
      BY <1>2, <2>2, StepOwnership
    <2>3. ASSUME NEW r \in Requests, NEW j \in Jobs[r], Begin(r, j) PROVE Ownership'
      BY <1>2, <2>3, BeginOwnership
    <2>4. CASE (\E m \in net : Handle(m)) \/ (\E s \in seals : HandleFlush(s))
      BY <1>2, <2>4, EndpointOwnership
    <2>5. CASE Refresh \/ Read \/ Disturb
      BY <1>2, <2>5, ReaderOwnership, DisturbOwnership
    <2> QED BY <1>2, <2>1, <2>2, <2>3, <2>4, <2>5 DEF Next
  <1> QED BY <1>1, <1>2, TypeCorrect, PTL DEF Spec

\* A fence the reader has acknowledged protects a request without rivals to
\* the end of its write (with_reader_released), whatever else goes on.
THEOREM AckedFenceIsKept == Spec => []AckedFenceHolds
  <1>1. ASSUME TypeOK, Safety, Ownership PROVE AckedFenceHolds
    <2>1. ASSUME NEW r \in held, NoRival(r), NEW p \in job[r].parts
          PROVE  p \in fenced /\ rh[p] = Closed
      <3>1. p \in fenced /\ job[r] \in Jobs[r] /\ r \in Requests
        BY <1>1, <2>1 DEF Ownership, Held, TypeOK
      <3>2. p \in Parts
        BY <3>1, JobParts
      <3> QED BY <1>1, <3>1, <3>2 DEF Safety, FencedStaysClosed, IsFenced
    <2> QED BY <2>1 DEF AckedFenceHolds, NoRival
  <1> QED BY <1>1, TypeCorrect, SafetyHolds, OwnershipHolds, PTL

-----------------------------------------------------------------------------
(* Who owns the writer's handles and the WALs                              *)

AtWork == {"opened", "mutated"}

\* A request references the handle that it works with, and no other.
Users ==
    \A r \in Requests :
        /\ todo[r] \subseteq job[r].parts
        /\ \A p \in Parts : r \in refs[p] => pc[r] \in AtWork /\ p \in job[r].parts
        /\ \A p, q \in Parts : r \in refs[p] /\ r \in refs[q] => p = q

\* r broke off before its try, and may have left p's handle in the cache.
MayHaveLeft(r, p) == job[r].kind = "badInsert" /\ p \in job[r].parts

\* Only such a request leaves a handle that nobody uses.
IdleHandlesExplained ==
    \A p \in Parts : refs[p] = {Cache} => \E r \in Requests : MayHaveLeft(r, p)

\* r has not come to the end of its body.
InBody(r) == pc[r] \in {"body"} \cup AtWork

\* While nothing has failed, somebody is left to seal every WAL.
WalsExplained ==
    faults = 0 => \A p \in Parts : wal[p] =>
                    \E r \in Requests : InBody(r) /\ p \in job[r].parts

Handles == Users /\ IdleHandlesExplained /\ WalsExplained

\* A step that leaves jobs and handles alone, seals at most, and ends nobody's body.
LEMMA QuietHandles ==
    ASSUME TypeOK, TypeOK', Handles,
           UNCHANGED <<refs, job, todo>>, faults' = 0 => faults = 0,
           \A p \in Parts : wal'[p] => wal[p],
           \A r \in Requests : /\ pc[r] \in AtWork => pc'[r] \in AtWork
                               /\ InBody(r) => InBody(r)'
    PROVE  Handles'
  <1>1. Users'
    BY DEF Handles, Users
  <1>2. IdleHandlesExplained'
    BY DEF Handles, IdleHandlesExplained, MayHaveLeft
  <1>3. WalsExplained'
    BY DEF Handles, WalsExplained
  <1> QED BY <1>1, <1>2, <1>3 DEF Handles

\* Faults are counted and never forgotten.
LEMMA FaultsStay ==
    ASSUME TypeOK,
           \/ UNCHANGED faults
           \/ \E k \in {"timeout", "loss", "readerCrash", "writerCrash"} : Fault(k)
           \/ \E F : FlushFails(F)
    PROVE  faults' = 0 => faults = 0
  BY ProtocolAssumption DEF TypeOK, FlushFails, Fault

\* A flush that may fail, while nothing has failed, has not failed.
LEMMA NoFlushFailed ==
    ASSUME TypeOK, NEW F, FlushFails(F), faults' = 0
    PROVE  F = {}
  BY ProtocolAssumption DEF TypeOK, FlushFails, Fault

\* A request that changes the references of one partition, in its body before
\* and after, and does not leave an unexplained handle.
LEMMA BodyHandles ==
    ASSUME TypeOK, TypeOK', Handles, NEW r \in Requests, NEW p \in Parts,
           InBody(r), InBody(r)', UNCHANGED job, faults' = 0 => faults = 0,
           todo'[r] \subseteq todo[r],
           \A s \in Requests \ {r} : pc'[s] = pc[s] /\ todo'[s] = todo[s],
           \A q \in Parts : wal'[q] => wal[q] \/ (q = p /\ p \in job[r].parts),
           \A q \in Parts \ {p} : refs'[q] = refs[q] /\ r \notin refs[q],
           refs'[p] \subseteq refs[p] \cup {r, Cache},
           r \in refs'[p] => pc'[r] \in AtWork /\ p \in job[r].parts,
           refs'[p] = {Cache} => MayHaveLeft(r, p)
    PROVE  Handles'
  <1>1. \A s \in Requests : s # Cache
    BY CacheAssumption
  <1>3. Users'
    <2> SUFFICES ASSUME NEW s \in Requests
                 PROVE  /\ todo'[s] \subseteq job'[s].parts
                        /\ \A q \in Parts : s \in refs'[q] => pc'[s] \in AtWork /\ q \in job'[s].parts
                        /\ \A q, o \in Parts : s \in refs'[q] /\ s \in refs'[o] => q = o
      BY DEF Users
    <2>1. CASE s = r
      BY <2>1 DEF Handles, Users
    <2>2. CASE s # r
      <3>1. \A q \in Parts : s \in refs'[q] => s \in refs[q]
        BY <1>1, <2>2
      <3> QED BY <2>2, <3>1 DEF Handles, Users
    <2> QED BY <2>1, <2>2
  <1>4. IdleHandlesExplained'
    BY DEF Handles, IdleHandlesExplained, MayHaveLeft
  <1>5. WalsExplained'
    <2>1. \A s \in Requests : InBody(s) => InBody(s)'
      BY DEF InBody
    <2> QED BY <2>1 DEF Handles, WalsExplained
  <1> QED BY <1>3, <1>4, <1>5 DEF Handles

\* The steps of a request under way: it takes a handle for a partition of its
\* own, drops it before it takes another, and seals what it has written
\* unless somebody who still uses the handle is left to do it.
LEMMA StepHandles ==
    ASSUME TypeOK, TypeOK', Safety, Handles, NEW r \in Requests, Step(r)
    PROVE  Handles'
  <1> USE DEF AtWork, InBody
  <1>1. CASE Answered(r)
    BY <1>1, QuietHandles DEF Answered, Proceed, storeVars, TypeOK
  <1>r. r # Cache
    BY CacheAssumption
  <1>p. ASSUME NEW p \in Parts PROVE RefsBeforeOpen(r, p) \subseteq refs[p]
    BY DEF RefsBeforeOpen, RefsAfterPop
  <1>b. pc[r] = "body" => \A q \in Parts : r \notin refs[q]
    BY DEF Handles, Users
  <1>u. \A p, q \in Parts : r \in refs[p] /\ q # p => r \notin refs[q]
    BY DEF Handles, Users
  <1>j. \A p \in Parts : r \in refs[p] => p \in job[r].parts
    BY DEF Handles, Users
  <1>t. todo[r] \subseteq job[r].parts
    BY DEF Handles, Users
  <1>c. ASSUME NEW stage \in Stages, pc' = [pc EXCEPT ![r] = stage]
        PROVE  pc'[r] = stage /\ \A s \in Requests \ {r} : pc'[s] = pc[s]
    BY <1>c DEF TypeOK
  <1>s. {"body", "opened", "mutated"} \subseteq Stages
    BY DEF Stages
  <1>2. ASSUME NEW p \in Parts, OpenForWrite(r, p) PROVE Handles'
    <2>1. \A q \in Parts : wal'[q] => wal[q]
      BY <1>2, FlushAddsNoWal DEF OpenForWrite
    <2>2. faults' = 0 => faults = 0
      BY <1>2, FaultsStay DEF OpenForWrite
    <2>3. refs'[p] = RefsBeforeOpen(r, p) \cup {r, Cache} /\ \A q \in Parts \ {p} : refs'[q] = refs[q]
      BY <1>2 DEF OpenForWrite, TypeOK, StoreTypeOK
    <2>4. pc' = [pc EXCEPT ![r] = "opened"] /\ pc[r] = "body" /\ p \in todo[r] /\ UNCHANGED <<job, todo>>
      BY <1>2 DEF OpenForWrite
    <2>5. pc'[r] = "opened" /\ \A s \in Requests \ {r} : pc'[s] = pc[s]
      BY <1>c, <1>s, <2>4
    <2> QED BY <1>r, <1>p, <1>b, <1>t, <2>5, <2>1, <2>2, <2>3, <2>4, BodyHandles
  <1>3. ASSUME NEW p \in Parts, OpenFails(r, p) PROVE Handles'
    <2>1. \A q \in Parts : wal'[q] => wal[q]
      BY <1>3, FlushAddsNoWal DEF OpenFails
    <2>2. faults' = 0 => faults = 0
      BY <1>3, FaultsStay DEF OpenFails
    <2>3. refs'[p] = RefsBeforeOpen(r, p) /\ \A q \in Parts \ {p} : refs'[q] = refs[q]
      BY <1>3 DEF OpenFails, TypeOK, StoreTypeOK
    <2>4. /\ pc[r] = "body" /\ UNCHANGED <<job, pc>> /\ Cache \notin refs'[p]
          /\ todo'[r] \subseteq todo[r] /\ \A s \in Requests \ {r} : todo'[s] = todo[s]
      BY <1>3, <2>3 DEF OpenFails, TypeOK
    <2> QED BY <1>p, <1>b, <2>1, <2>2, <2>3, <2>4, BodyHandles
  <1>4. ASSUME NEW p \in Parts, Mutate(r, p) PROVE Handles'
    <2>1. \A q \in Parts : wal'[q] => wal[q] \/ q = p
      BY <1>4 DEF Mutate, TypeOK, StoreTypeOK
    <2>2. refs[p] # {Cache}
      BY <1>4, <1>r DEF Mutate
    <2>3. pc'[r] = "mutated" /\ \A s \in Requests \ {r} : pc'[s] = pc[s]
      BY <1>4, <1>c, <1>s DEF Mutate
    <2>4. r \in refs[p] /\ pc[r] = "opened" /\ UNCHANGED <<refs, job, todo, faults>>
      BY <1>4 DEF Mutate
    <2> QED BY <1>u, <1>j, <2>1, <2>2, <2>3, <2>4, BodyHandles
  <1>5. ASSUME NEW p \in Parts, AbortInsert(r, p) PROVE Handles'
    <2>1. refs'[p] = refs[p] \ {r} /\ \A q \in Parts \ {p} : refs'[q] = refs[q]
      BY <1>5 DEF AbortInsert, TypeOK, StoreTypeOK
    <2>2. MayHaveLeft(r, p)
      BY <1>5, <1>j DEF AbortInsert, MayHaveLeft
    <2>3. todo'[r] \subseteq todo[r] /\ \A s \in Requests \ {r} : todo'[s] = todo[s]
      BY <1>5 DEF AbortInsert, TypeOK
    <2>4. pc'[r] = "body" /\ \A s \in Requests \ {r} : pc'[s] = pc[s]
      BY <1>5, <1>c, <1>s DEF AbortInsert
    <2>5. r \in refs[p] /\ pc[r] \in AtWork /\ UNCHANGED <<wal, job, faults>>
      BY <1>5 DEF AbortInsert
    <2> QED BY <1>u, <2>1, <2>2, <2>3, <2>4, <2>5, BodyHandles
  <1>6. ASSUME NEW p \in Parts, CloseAfterWrite(r, p) PROVE Handles'
    <2>1. \A q \in Parts : wal'[q] => wal[q]
      BY <1>6, FlushAddsNoWal DEF CloseAfterWrite
    <2>2. faults' = 0 => faults = 0
      BY <1>6, FaultsStay DEF CloseAfterWrite
    <2>3. refs'[p] = refs[p] \ {r, Cache} /\ \A q \in Parts \ {p} : refs'[q] = refs[q]
      BY <1>6 DEF CloseAfterWrite, RefsAfterClose, TypeOK, StoreTypeOK
    <2>4. todo'[r] \subseteq todo[r] /\ \A s \in Requests \ {r} : todo'[s] = todo[s]
      BY <1>6 DEF CloseAfterWrite, TypeOK
    <2>5. /\ pc[r] \in AtWork /\ r \in refs[p] /\ UNCHANGED job
          /\ pc'[r] = "body" /\ \A s \in Requests \ {r} : pc'[s] = pc[s]
      BY <1>6, <1>c, <1>s DEF CloseAfterWrite
    <2> QED BY <1>u, <2>1, <2>2, <2>3, <2>4, <2>5, BodyHandles
  <1>7. CASE SealAndNotify(r)
    <2>1. PICK Failed : wal' = WalAfterFlush(SealedBy(r), Failed) /\ FlushFails(Failed)
      BY <1>7 DEF SealAndNotify
    <2>2. \A q \in Parts : wal'[q] => wal[q]
      BY <2>1, FlushAddsNoWal
    <2>3. faults' = 0 => faults = 0 /\ Failed = {}
      BY <2>1, FaultsStay, NoFlushFailed
    <2>4. /\ UNCHANGED <<refs, job, todo>> /\ pc[r] = "body" /\ pc' = [pc EXCEPT ![r] = "notifying"]
      BY <1>7 DEF SealAndNotify
    <2>5. Users' /\ IdleHandlesExplained'
      BY <2>4 DEF Handles, Users, IdleHandlesExplained, MayHaveLeft, TypeOK
    <2>6. ASSUME faults' = 0, NEW p \in Parts, wal'[p]
          PROVE  \E s \in Requests \ {r} : InBody(s) /\ p \in job[s].parts
      <3>1. PICK s \in Requests : InBody(s) /\ p \in job[s].parts
        BY <2>2, <2>3, <2>6 DEF Handles, WalsExplained
      <3>2. CASE s = r
        <4>1. p \notin SealedBy(r)
          BY <2>1, <2>3, <2>6 DEF WalAfterFlush
        <4>2. ~MayFlush(p)
          BY <2>2, <2>6, <3>1, <3>2, <4>1 DEF SealedBy
        <4>3. refs[p] # {} /\ Cache \notin refs[p]
          BY <2>2, <2>6, <4>2 DEF MayFlush, MayOpenRW, Safety, NoHandleOverWal
        <4>4. PICK q \in Requests : q \in refs[p]
          BY <4>3 DEF TypeOK, StoreTypeOK
        <4>5. q # r /\ InBody(q) /\ p \in job[q].parts
          BY <2>4, <4>4 DEF Handles, Users
        <4> QED BY <4>5
      <3> QED BY <3>1, <3>2
    <2>7. WalsExplained'
      BY <2>4, <2>6 DEF WalsExplained, TypeOK
    <2> QED BY <2>5, <2>7 DEF Handles
  <1> QED BY <1>1, <1>2, <1>3, <1>4, <1>5, <1>6, <1>7 DEF Step

\* What a request that begins changes: a load or a release drops references
\* of the cache, in use or not.
Starts(r, j) ==
    /\ pc[r] = "new" /\ pc'[r] \notin AtWork
    /\ job'[r] = j
    /\ todo'[r] \in {j.parts, todo[r]}
    /\ \A s \in Requests \ {r} : job'[s] = job[s] /\ pc'[s] = pc[s] /\ todo'[s] = todo[s]
    /\ \A p \in Parts : refs'[p] \in {refs[p], refs[p] \ {Cache}} /\ (wal'[p] => wal[p])
    /\ faults' = 0 => faults = 0

LEMMA BeginStarts ==
    ASSUME TypeOK, NEW r \in Requests, NEW j \in Jobs[r], Begin(r, j)
    PROVE  Starts(r, j)
  <1> USE DEF Starts, TypeOK, StoreTypeOK, AtWork
  <1>1. CASE BeginWrite(r, j)
    BY <1>1 DEF BeginWrite, storeVars
  <1>2. ASSUME NEW l, NEW path, NEW named, ChangeLoad(r, j, l, path, named)
        PROVE  Starts(r, j)
    <2>1. \A q \in Parts : wal'[q] => wal[q]
      BY <1>2, FlushAddsNoWal DEF ChangeLoad
    <2>2. faults' = 0 => faults = 0
      BY <1>2, FaultsStay DEF ChangeLoad
    <2>3. \A q \in Parts : refs'[q] \in {refs[q], refs[q] \ {Cache}}
      BY <1>2 DEF ChangeLoad, RefsAfterPop
    <2> QED BY <1>2, <2>1, <2>2, <2>3 DEF ChangeLoad
  <1> QED BY <1>1, <1>2 DEF Begin, LoadCollection, ReleaseCollection,
             LoadPartitions, ReleasePartitions

\* A request that begins has left no handle and no WAL before.
LEMMA BeginHandles ==
    ASSUME TypeOK, TypeOK', Ownership, Handles,
           NEW r \in Requests, NEW j \in Jobs[r], Begin(r, j)
    PROVE  Handles'
  <1>1. Starts(r, j)
    BY BeginStarts
  <1>2. job[r].parts = {}
    BY <1>1 DEF Starts, Ownership, Begun, NoJob
  <1>3. todo[r] = {} /\ \A p \in Parts : r \notin refs[p]
    BY <1>2 DEF Handles, Users
  <1>c. \A s \in Requests : s # Cache
    BY CacheAssumption
  <1>4. Users'
    BY <1>1, <1>3, <1>c DEF Starts, Handles, Users
  <1>5. IdleHandlesExplained'
    <2> SUFFICES ASSUME NEW p \in Parts, refs'[p] = {Cache}
                 PROVE  \E s \in Requests : MayHaveLeft(s, p)'
      BY DEF IdleHandlesExplained
    <2>1. refs[p] = {Cache}
      BY <1>1 DEF Starts
    <2>2. PICK s \in Requests : MayHaveLeft(s, p)
      BY <2>1 DEF Handles, IdleHandlesExplained
    <2> QED BY <1>1, <1>2, <2>2 DEF Starts, MayHaveLeft
  <1>6. WalsExplained'
    <2> SUFFICES ASSUME NEW p \in Parts, wal'[p], faults' = 0
                 PROVE  \E s \in Requests : InBody(s)' /\ p \in job'[s].parts
      BY DEF WalsExplained
    <2>1. PICK s \in Requests : InBody(s) /\ p \in job[s].parts
      BY <1>1 DEF Starts, Handles, WalsExplained
    <2> QED BY <1>1, <1>2, <2>1 DEF Starts, InBody
  <1> QED BY <1>4, <1>5, <1>6 DEF Handles

\* Everything else leaves the handles of a running writer alone; a writer that
\* dies has none, and counts as a fault.
LEMMA OtherHandles ==
    ASSUME TypeOK, TypeOK', Handles,
           \/ \E m \in net : Handle(m)
           \/ \E s \in seals : HandleFlush(s)
           \/ Refresh \/ Read \/ Disturb
    PROVE  Handles'
  <1>1. ASSUME NEW m \in net, Handle(m) PROVE Handles'
    BY <1>1, QuietHandles
       DEF Handle, HandleClose, HandleOpen, HandleUnfence, writerVars, InBody
  <1>2. ASSUME NEW s \in seals, HandleFlush(s) PROVE Handles'
    <2>1. \A q \in Parts : wal'[q] => wal[q]
      BY <1>2, FlushAddsNoWal DEF HandleFlush
    <2>2. faults' = 0 => faults = 0
      BY <1>2, FaultsStay DEF HandleFlush
    <2> QED BY <1>2, <2>1, <2>2, QuietHandles DEF HandleFlush, writerVars, InBody
  <1>3. CASE Refresh \/ Read
    <2>1. UNCHANGED <<refs, wal, writerVars>>
      BY <1>3 DEF Refresh, RefreshBegin, RefreshSealed, RefreshEnd, RefreshSkip,
           RefreshReopen, RefreshAskSeal, Read, Search, GetStats, SearchAskSeal,
           SearchSealed, Reload, storeVars, writerVars
    <2>2. faults' = 0 => faults = 0
      BY <1>3, FaultsStay
         DEF Refresh, RefreshBegin, RefreshSealed, RefreshEnd, RefreshSkip,
           RefreshReopen, RefreshAskSeal, Read, Search, GetStats, SearchAskSeal,
           SearchSealed, Reload, SealReturns
    <2> QED BY <2>1, <2>2, QuietHandles DEF writerVars, InBody
  <1>4. ASSUME NEW r \in Requests, TimedOut(r) PROVE Handles'
    <2>1. faults' = 0 => faults = 0
      BY <1>4, FaultsStay DEF TimedOut
    <2> QED BY <1>4, <2>1, QuietHandles
            DEF TimedOut, Proceed, storeVars, TypeOK, AtWork, InBody
  <1>5. CASE \/ \E m \in net : LoseMessage(m)
             \/ \E s \in seals : LoseSeal(s)
             \/ ReaderCrash
    <2>1. faults' = 0 => faults = 0
      BY <1>5, FaultsStay DEF LoseMessage, LoseSeal, ReaderCrash
    <2> QED BY <1>5, <2>1, QuietHandles
            DEF LoseMessage, LoseSeal, ReaderCrash, storeVars, writerVars, InBody
  <1>6. CASE WriterCrash
    <2>1. faults' # 0
      BY <1>6, ProtocolAssumption DEF WriterCrash, Fault, TypeOK
    <2>2. \A p \in Parts : refs'[p] = {}
      BY <1>6 DEF WriterCrash
    <2>3. \A r \in Requests : todo'[r] = {}
      BY <1>6 DEF WriterCrash
    <2> QED BY <2>1, <2>2, <2>3
            DEF Handles, Users, IdleHandlesExplained, WalsExplained
  <1> QED BY <1>1, <1>2, <1>3, <1>4, <1>5, <1>6 DEF Disturb

\* Handles is an invariant.
LEMMA HandlesHold == Spec => []Handles
  <1>1. Init => Handles
    BY DEF Init, StoreInit, Handles, Users, IdleHandlesExplained, WalsExplained
  <1>2. ASSUME TypeOK, TypeOK', Safety, Ownership, Handles, [Next]_vars PROVE Handles'
    <2>1. CASE UNCHANGED vars
      BY <1>2, <2>1, QuietHandles DEF vars, storeVars, writerVars, InBody
    <2>2. ASSUME NEW r \in Requests, Step(r) PROVE Handles'
      BY <1>2, <2>2, StepHandles
    <2>3. ASSUME NEW r \in Requests, NEW j \in Jobs[r], Begin(r, j) PROVE Handles'
      BY <1>2, <2>3, BeginHandles
    <2>4. CASE \/ \E m \in net : Handle(m)
               \/ \E s \in seals : HandleFlush(s)
               \/ Refresh \/ Read \/ Disturb
      BY <1>2, <2>4, OtherHandles
    <2> QED BY <1>2, <2>1, <2>2, <2>3, <2>4 DEF Next
  <1> QED BY <1>1, <1>2, TypeCorrect, SafetyHolds, OwnershipHolds, PTL DEF Spec

\* A handle of the writer that nobody uses was left by an insert that broke off
\* outside its try (services/vector.py:136); faults and crashes leave none.
THEOREM OnlyBrokenInsertsLeaveHandles == Spec => []IdleHandlesExplained
  <1>1. Handles => IdleHandlesExplained
    BY DEF Handles
  <1> QED BY <1>1, HandlesHold, PTL

\* Without such an insert, the writer's cache holds a handle only while some
\* request uses it ("Writer must not keep RW handles; they block reader RO
\* open"), whatever fails.
THEOREM NoIdleHandles ==
    ASSUME \A r \in Requests : \A j \in Jobs[r] : j.kind # "badInsert"
    PROVE  Spec => []WriterKeepsNoIdleHandle
  <1>1. Ownership /\ Handles => WriterKeepsNoIdleHandle
    <2> SUFFICES ASSUME Ownership, Handles, NEW p \in Parts, refs[p] = {Cache}
                 PROVE  FALSE
      BY DEF WriterKeepsNoIdleHandle
    <2>1. PICK r \in Requests : MayHaveLeft(r, p)
      BY DEF Handles, IdleHandlesExplained
    <2> QED BY <2>1 DEF MayHaveLeft, Ownership, Begun, NoJob
  <1> QED BY <1>1, OwnershipHolds, HandlesHold, PTL

\* A write that meets no fault has sealed its partitions before it lets the
\* reader back in, also when an import thread shares its handle and it cannot
\* seal them itself: somebody who can is still at work (the two flushes at the
\* end of with_reader_released).
THEOREM WritesSeal == Spec => []NoWalAtRest
  <1>1. Handles => NoWalAtRest
    BY DEF Handles, WalsExplained, NoWalAtRest, InBody, AtWork
  <1> QED BY <1>1, HandlesHold, PTL
=============================================================================
