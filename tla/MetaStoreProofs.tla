-------------------------- MODULE MetaStoreProofs --------------------------
(***************************************************************************)
(* Proofs about MetaStore for any set of documents, any number of writes,  *)
(* crashes and failures.                                                   *)
(***************************************************************************)
EXTENDS MetaStore, FiniteSetTheorems, TLAPS

-----------------------------------------------------------------------------
(* Types and the life of a call                                            *)

DeleteMayFail == "delete" \in FaultKinds

\* A call is under way only while the store is open, what a call changed
\* is in the engine already, an open store has published, and before the first
\* publication nothing was ever written.
Orderly ==
    /\ op # NoOp => opened
    /\ op # NoOp => op.value = engine[op.doc] \/ (op.value = Absent /\ DeleteMayFail)
    /\ opened => snapshot # NoFile
    /\ snapshot = NoFile => engine = Nothing
    /\ snapshot = NoFile => \A d \in Docs : maybe[d] = {Absent}

TInv == TypeOK /\ Orderly

\* NoOp stands for no call: it is unlike any upsert or delete.
LEMMA RealOp == \A d \in Docs, v \in Values : [doc |-> d, value |-> v] # NoOp
  <1> SUFFICES ASSUME NEW d \in Docs, NEW v \in Values, [doc |-> d, value |-> v] = NoOp
               PROVE FALSE
    OBVIOUS
  <1>1. [doc |-> d, value |-> v].value = NoOp.value
    OBVIOUS
  <1> QED BY <1>1, StoreAssumption DEF NoOp, Values

\* A map of documents is never the missing file.
LEMMA MapIsNoFile == NoFile \notin [Docs -> Values]
  BY StoreAssumption DEF Values

LEMMA NothingIsMap == Nothing \in [Docs -> Values]
  BY StoreAssumption DEF Nothing, Absent, Values

\* A rebuild reads documents of the engine only.
LEMMA ScannedMaps ==
    ASSUME TypeOK, NEW m \in Scanned
    PROVE  m \in [Docs -> Values] /\ \A d \in Docs : m[d] \in {Absent, engine[d]}
  <1>1. PICK S \in SUBSET Docs : m = [d \in Docs |-> IF d \in S THEN engine[d] ELSE Absent]
    BY DEF Scanned, Present
  <1>2. Absent \in Values
    BY StoreAssumption DEF Absent, Values
  <1> QED BY <1>1, <1>2 DEF TypeOK

\* If its query has no fewer results than there are documents, it reads all.
LEMMA ScannedIsEngine ==
    ASSUME TypeOK, Cardinality(Docs) <= Limit, NEW m \in Scanned
    PROVE  m = engine
  <1>1. PICK T \in SUBSET Present(engine) :
            /\ m = [d \in Docs |-> IF d \in T THEN engine[d] ELSE Absent]
            /\ T = Present(engine) \/ Cardinality(T) = Limit
    BY DEF Scanned
  <1>2. T \subseteq Docs
    BY DEF Present
  <1>3. T = Present(engine)
    <2>1. CASE Cardinality(T) = Limit
      <3>1. IsFiniteSet(T) /\ Cardinality(T) <= Cardinality(Docs)
        BY <1>2, FS_Subset, StoreAssumption
      <3>2. Cardinality(T) = Cardinality(Docs)
        BY <2>1, <3>1, FS_CardinalityType, StoreAssumption
      <3>3. T = Docs
        BY <1>2, <3>2, FS_Subset, StoreAssumption
      <3> QED BY <3>3 DEF Present
    <2> QED BY <1>1, <2>1
  <1> QED BY <1>1, <1>3 DEF Present, TypeOK

LEMMA InitTInv == Init => TInv
  <1> SUFFICES ASSUME Init PROVE TInv
    OBVIOUS
  <1>1. 0 \in Values /\ 0 \in 0 .. MaxFaults
    BY StoreAssumption DEF Values
  <1>2. maybe \in [Docs -> SUBSET Values]
    BY <1>1 DEF Init, Absent
  <1>3. TypeOK
    BY <1>1, <1>2, NothingIsMap DEF Init, TypeOK
  <1>4. Orderly
    BY DEF Init, Orderly
  <1> QED BY <1>3, <1>4 DEF TInv

\* Every step keeps the types.
LEMMA NextTypeOK == TypeOK /\ [Next]_vars => TypeOK'
  <1> SUFFICES ASSUME TypeOK, [Next]_vars PROVE TypeOK'
    OBVIOUS
  <1> USE DEF TypeOK, writer, reader
  <1>f. ASSUME NEW k, Fault(k) PROVE faults' \in 0 .. MaxFaults
    BY <1>f, StoreAssumption DEF Fault
  <1>0. Absent \in Values /\ Nothing \in [Docs -> Values]
    BY NothingIsMap, StoreAssumption DEF Absent, Values
  <1>1. ASSUME NEW d \in Docs, Upsert(d) PROVE TypeOK'
    <2>1. clock' \in Values
      BY <1>1, StoreAssumption DEF Upsert, Values
    <2> QED BY <1>1, <2>1 DEF Upsert
  <1>2. ASSUME NEW d \in Docs, Delete(d) PROVE TypeOK'
    <2>1. clock' \in Values
      BY <1>2, StoreAssumption DEF Delete, Values
    <2>2. faults' \in 0 .. MaxFaults /\ engine' \in [Docs -> Values]
      BY <1>2, <1>0, <1>f DEF Delete, EngineWithout
    <2> QED BY <1>2, <1>0, <2>1, <2>2 DEF Delete
  <1>3. CASE Finish
    <2>1. op \in [doc : Docs, value : Values]
      BY <1>3 DEF Finish
    <2>2. Applied(cache, op) \in [Docs -> Values]
      BY <2>1 DEF Applied
    <2>3. maybe' \in [Docs -> SUBSET Values] /\ faults' \in 0 .. MaxFaults
      BY <1>3, <1>f, <2>1 DEF Finish
    <2> QED BY <1>3, <2>2, <2>3 DEF Finish, Cached, Mirrored
  <1>4. CASE PublishSnapshot
    BY <1>4 DEF PublishSnapshot
  <1>5. CASE Open
    <2>1. PICK m \in Scanned \cup {Nothing} :
              /\ IF m \in Scanned THEN UNCHANGED faults ELSE Fault("scan")
              /\ IF UseScan(m) THEN cache' = m /\ snapshot' = m
                               ELSE cache' = snapshot /\ UNCHANGED snapshot
      BY <1>5 DEF Open
    <2>2. m \in [Docs -> Values]
      BY <2>1, <1>0, ScannedMaps
    <2>3. cache' \in [Docs -> Values] /\ snapshot' \in [Docs -> Values] \cup {NoFile}
      BY <2>1, <2>2 DEF UseScan
    <2>4. faults' \in 0 .. MaxFaults
      BY <2>1, <1>f
    <2> QED BY <1>5, <2>3, <2>4 DEF Open
  <1>6. CASE Close
    BY <1>6, <1>f, <1>0 DEF Close
  <1>7. CASE Crash
    BY <1>7, <1>f, <1>0 DEF Crash
  <1>8. CASE LoadSnapshot
    <2>1. snapshot \in [Docs -> Values]
      BY <1>8 DEF LoadSnapshot
    <2>2. Larger(newest, snapshot) \in [Docs -> Values]
      BY <2>1 DEF Larger
    <2> QED BY <1>8, <2>1, <2>2 DEF LoadSnapshot
  <1>9. CASE ReaderRestarts
    BY <1>9, <1>0 DEF ReaderRestarts
  <1>10. CASE UNCHANGED vars
    BY <1>10 DEF vars
  <1> QED BY <1>1, <1>2, <1>3, <1>4, <1>5, <1>6, <1>7, <1>8, <1>9, <1>10 DEF Next

\* A call brings the documents it names; no call is no document.
LEMMA OpCases == TypeOK /\ op # NoOp => op \in [doc : Docs, value : Values]
  BY DEF TypeOK

\* Every step keeps the order of calls, files and publications.
LEMMA NextOrderly == TInv /\ TypeOK' /\ [Next]_vars => Orderly'
  <1> SUFFICES ASSUME TypeOK, Orderly, TypeOK', [Next]_vars PROVE Orderly'
    BY DEF TInv
  <1> USE DEF Orderly, writer, reader
  <1>m. \A f \in [Docs -> Values] : f # NoFile
    BY MapIsNoFile
  <1>t. /\ cache \in [Docs -> Values] /\ engine \in [Docs -> Values]
        /\ snapshot # NoFile => snapshot \in [Docs -> Values]
    BY DEF TypeOK
  <1>1. ASSUME NEW d \in Docs, Upsert(d) PROVE Orderly'
    <2>1. opened /\ opened' /\ snapshot' = snapshot /\ snapshot # NoFile
      BY <1>1 DEF Upsert, Ready
    <2>2. engine'[d] = clock' /\ op' = [doc |-> d, value |-> clock']
      BY <1>1, <1>t DEF Upsert
    <2>3. op'.value = clock' /\ op'.doc = d
      BY <2>2
    <2> QED BY <2>1, <2>2, <2>3
  <1>2. ASSUME NEW d \in Docs, Delete(d) PROVE Orderly'
    <2>1. opened /\ opened' /\ snapshot' = snapshot /\ snapshot # NoFile
      BY <1>2 DEF Delete, Ready
    <2>2. op'.value = Absent /\ op'.doc = d
      BY <1>2 DEF Delete
    <2>3. engine'[d] = Absent \/ DeleteMayFail
      BY <1>2, <1>t DEF Delete, EngineWithout, Fault, DeleteMayFail
    <2> QED BY <2>1, <2>2, <2>3
  <1>3. CASE Finish
    <2>1. Applied(cache, op) \in [Docs -> Values]
      BY <1>3, <1>t, OpCases DEF Finish, Applied
    <2>2. snapshot' # NoFile
      BY <1>3, <2>1, <1>m DEF Finish, Cached, Mirrored
    <2>3. op' = NoOp
      BY <1>3 DEF Finish
    <2> QED BY <2>2, <2>3
  <1>4. CASE PublishSnapshot
    <2>1. snapshot' # NoFile /\ op' = NoOp
      BY <1>4, <1>t, <1>m DEF PublishSnapshot, Ready
    <2> QED BY <2>1
  <1>5. CASE Open
    <2>1. PICK m \in Scanned \cup {Nothing} :
              IF UseScan(m) THEN cache' = m /\ snapshot' = m
                            ELSE cache' = snapshot /\ UNCHANGED snapshot
      BY <1>5 DEF Open
    <2>2. m \in [Docs -> Values]
      BY NothingIsMap, ScannedMaps
    <2>3. snapshot' # NoFile
      BY <2>1, <2>2, <1>m DEF UseScan
    <2>4. op' = NoOp
      BY <1>5 DEF Open
    <2> QED BY <2>3, <2>4
  <1>6. CASE Close
    <2>1. snapshot' # NoFile /\ op' = NoOp
      BY <1>6, <1>t, <1>m DEF Close, Ready
    <2> QED BY <2>1
  <1>7. CASE Crash
    BY <1>7 DEF Crash
  <1>8. CASE LoadSnapshot
    BY <1>8 DEF LoadSnapshot
  <1>9. CASE ReaderRestarts
    BY <1>9 DEF ReaderRestarts
  <1>10. CASE UNCHANGED vars
    BY <1>10 DEF vars
  <1> QED BY <1>1, <1>2, <1>3, <1>4, <1>5, <1>6, <1>7, <1>8, <1>9, <1>10 DEF Next

\* The types of the store's state hold in every behaviour (meta/store.py).
THEOREM StoreTypes == Spec => []TypeOK
  <1>1. TInv /\ [Next]_vars => TInv'
    BY NextTypeOK, NextOrderly DEF TInv
  <1>2. TInv => TypeOK
    BY DEF TInv
  <1> QED BY InitTInv, <1>1, <1>2, PTL DEF Spec

-----------------------------------------------------------------------------
(* Acknowledged calls                                                      *)

\* A failing delete can leave any document behind that may be absent.
Tracked(d) == Absent \notin maybe[d] \/ ~DeleteMayFail

\* The three places a tracked document is kept in have one of its values, each
\* place as soon as it exists.
Kept ==
    \A d \in Docs : Tracked(d) =>
        /\ engine[d] \in maybe[d]
        /\ opened => cache[d] \in maybe[d]
        /\ snapshot # NoFile => snapshot[d] \in maybe[d]

\* What a call is about to store is among the values to expect.
Expected == op # NoOp => op.value \in maybe[op.doc]

KInv == TInv /\ Kept /\ Expected

\* Every step keeps them, if the rebuild reads all documents.
LEMMA NextKept ==
    ASSUME Cardinality(Docs) <= Limit, KInv, TInv', [Next]_vars
    PROVE  Kept' /\ Expected'
  <1> USE DEF KInv, Kept, Expected, Tracked, writer, reader
  <1>t. /\ cache \in [Docs -> Values] /\ engine \in [Docs -> Values]
        /\ snapshot # NoFile => snapshot \in [Docs -> Values]
        /\ maybe \in [Docs -> SUBSET Values]
        /\ op = NoOp \/ op \in [doc : Docs, value : Values]
    BY DEF TInv, TypeOK
  <1>o. Orderly /\ Orderly'
    BY DEF TInv
  <1>1. ASSUME NEW d \in Docs, Upsert(d) PROVE Kept' /\ Expected'
    <2>1. /\ opened /\ opened' /\ cache' = cache /\ snapshot' = snapshot
          /\ engine' = [engine EXCEPT ![d] = clock']
          /\ maybe' = [maybe EXCEPT ![d] = @ \cup {clock'}]
          /\ op' = [doc |-> d, value |-> clock']
      BY <1>1 DEF Upsert, Ready
    <2>2. Expected'
      BY <2>1, <1>t
    <2>3. \A x \in Docs : maybe[x] \subseteq maybe'[x]
      BY <2>1, <1>t
    <2>4. \A x \in Docs : engine'[x] = engine[x] \/ engine'[x] \in maybe'[x]
      BY <2>1, <1>t
    <2>5. Kept'
      BY <2>1, <2>3, <2>4
    <2> QED BY <2>2, <2>5
  <1>2. ASSUME NEW d \in Docs, Delete(d) PROVE Kept' /\ Expected'
    <2>1. /\ opened /\ opened' /\ cache' = cache /\ snapshot' = snapshot
          /\ \/ engine' = [engine EXCEPT ![d] = Absent]
             \/ engine' = engine /\ DeleteMayFail
          /\ maybe' = [maybe EXCEPT ![d] = @ \cup {Absent}]
          /\ op' = [doc |-> d, value |-> Absent]
      BY <1>2 DEF Delete, Ready, EngineWithout, Fault, DeleteMayFail
    <2>2. Expected'
      BY <2>1, <1>t
    <2>3. Absent \in maybe'[d] /\ maybe[d] \subseteq maybe'[d]
      BY <2>1, <1>t
    <2>4. engine'[d] = Absent \/ DeleteMayFail
      BY <2>1, <1>t
    <2>5. \A x \in Docs \ {d} : maybe'[x] = maybe[x] /\ engine'[x] = engine[x]
      BY <2>1, <1>t
    <2>6. Kept'
      BY <2>1, <2>3, <2>4, <2>5
    <2> QED BY <2>2, <2>6
  <1>3. CASE Finish
    <2>1. /\ opened /\ opened' /\ op # NoOp /\ op' = NoOp
          /\ op \in [doc : Docs, value : Values]
          /\ engine' = engine
          /\ cache' = [cache EXCEPT ![op.doc] = op.value]
          /\ \/ /\ snapshot' = cache'
                /\ maybe' = [maybe EXCEPT ![op.doc] = {op.value}]
             \/ snapshot' = snapshot /\ maybe' = maybe
      BY <1>3, <1>t DEF Finish, Cached, Mirrored, Applied
    <2>2. \A x \in Docs : cache'[x] = IF x = op.doc THEN op.value ELSE cache[x]
      BY <2>1, <1>t
    <2>3. op.value = engine[op.doc] \/ (op.value = Absent /\ DeleteMayFail)
      BY <2>1, <1>o DEF Orderly
    <2>4. CASE snapshot' = cache' /\ maybe' = [maybe EXCEPT ![op.doc] = {op.value}]
      <3>1. \A x \in Docs : maybe'[x] = IF x = op.doc THEN {op.value} ELSE maybe[x]
        BY <2>1, <2>4, <1>t
      <3> QED BY <2>1, <2>2, <2>3, <2>4, <3>1
    <2>5. CASE snapshot' = snapshot /\ maybe' = maybe
      BY <2>1, <2>2, <2>5
    <2> QED BY <2>1, <2>4, <2>5
  <1>4. CASE PublishSnapshot
    BY <1>4 DEF PublishSnapshot, Ready
  <1>5. CASE Open
    <2>1. PICK m \in Scanned \cup {Nothing} :
              IF UseScan(m) THEN cache' = m /\ snapshot' = m
                            ELSE cache' = snapshot /\ UNCHANGED snapshot
      BY <1>5 DEF Open
    <2>2. engine' = engine /\ maybe' = maybe /\ op' = op
      BY <1>5 DEF Open
    <2>3. CASE ~UseScan(m)
      BY <2>1, <2>2, <2>3 DEF UseScan
    <2>4. CASE UseScan(m)
      <3>1. m \in Scanned => m = engine
        BY ScannedIsEngine DEF TInv
      <3>2. m = engine
        BY <2>4, <3>1, <1>o DEF UseScan, Orderly
      <3> QED BY <2>1, <2>2, <2>4, <3>2
    <2> QED BY <2>3, <2>4
  <1>6. CASE Close
    BY <1>6 DEF Close, Ready
  <1>7. CASE Crash
    BY <1>7 DEF Crash
  <1>8. CASE LoadSnapshot
    BY <1>8 DEF LoadSnapshot
  <1>9. CASE ReaderRestarts
    BY <1>9 DEF ReaderRestarts
  <1>10. CASE UNCHANGED vars
    BY <1>10 DEF vars
  <1> QED BY <1>1, <1>2, <1>3, <1>4, <1>5, <1>6, <1>7, <1>8, <1>9, <1>10 DEF Next

\* KInv is inductive.
LEMMA Keeping ==
    ASSUME Cardinality(Docs) <= Limit
    PROVE  (Init => KInv) /\ (KInv /\ [Next]_vars => KInv')
  <1>1. Init => KInv
    <2> SUFFICES ASSUME Init PROVE Kept /\ Expected
      BY InitTInv DEF KInv
    <2>1. \A d \in Docs : maybe[d] = {Absent} /\ engine[d] = Absent
      BY DEF Init, Nothing
    <2>2. op = NoOp /\ ~opened /\ snapshot = NoFile
      BY DEF Init
    <2> QED BY <2>1, <2>2 DEF Kept, Expected
  <1>2. KInv /\ [Next]_vars => KInv'
    <2> SUFFICES ASSUME KInv, [Next]_vars PROVE KInv'
      OBVIOUS
    <2>1. TInv'
      BY NextTypeOK, NextOrderly DEF KInv, TInv
    <2> QED BY <2>1, NextKept DEF KInv
  <1> QED BY <1>1, <1>2

\* An acknowledged upsert is never lost, whatever crashes and failing scans,
\* deletes and file writes follow it, as long as the catalog is no larger than
\* the topk of the query that rebuilds it (store.py:224).
THEOREM AckedUpsertsHold ==
    ASSUME Cardinality(Docs) <= Limit
    PROVE  Spec => []AckedUpsertsSurvive
  <1>1. KInv => AckedUpsertsSurvive
    BY DEF KInv, Kept, Tracked, AckedUpsertsSurvive, Ready
  <1> QED BY Keeping, <1>1, PTL DEF Spec

\* ... and an acknowledged delete is never undone, if the engine's own deletes
\* do not fail (store.py:184 takes their failures for misses).
THEOREM AckedDeletesHold ==
    ASSUME Cardinality(Docs) <= Limit, ~DeleteMayFail
    PROVE  Spec => []AckedDeletesSurvive
  <1>1. KInv => AckedDeletesSurvive
    BY DEF KInv, Kept, Tracked, AckedDeletesSurvive, Ready
  <1> QED BY Keeping, <1>1, PTL DEF Spec

-----------------------------------------------------------------------------
(* The store implements the published map                                  *)

\* Between calls the cache is the engine, and during one it is one change
\* behind; an engine without Root is empty and so is its snapshot.
Synced ==
    /\ Ready => cache = engine
    /\ op # NoOp => engine = Applied(cache, op)
    /\ engine[Root] = Absent => engine = Nothing /\ snapshot \in {NoFile, Nothing}

SInv == TInv /\ Synced

\* No engine call fails; the writer may crash and the file may not be written.
EngineHolds == FaultKinds \cap {"scan", "delete"} = {}

\* Every step keeps the three copies in step and is one of the map's, or none.
LEMMA NextSynced ==
    ASSUME Cardinality(Docs) <= Limit, EngineHolds, SInv, TInv', [Next]_vars
    PROVE  Synced' /\ [Promise!Next]_(Promise!vars)
  <1> USE DEF SInv, Synced, writer, reader
  <1>t. /\ cache \in [Docs -> Values] /\ engine \in [Docs -> Values]
        /\ snapshot # NoFile => snapshot \in [Docs -> Values]
        /\ op = NoOp \/ op \in [doc : Docs, value : Values]
        /\ clock \in Values /\ clock' \in Values /\ Absent \in Values /\ Root \in Docs
    BY StoreAssumption DEF TInv, TypeOK, Values, Absent
  <1>p. ASSUME UNCHANGED <<engine, snapshot, rcache>>
        PROVE  [Promise!Next]_(Promise!vars)
    BY <1>p DEF Promise!vars
  <1>q. ASSUME snapshot' = engine, UNCHANGED <<engine, rcache>>
        PROVE  [Promise!Next]_(Promise!vars)
    BY <1>q DEF Promise!Next, Promise!Publish
  <1>f. ~Fault("scan") /\ ~Fault("delete")
    BY DEF Fault, EngineHolds
  <1> DEFINE Goal == Synced' /\ [Promise!Next]_(Promise!vars)
  <1>1. ASSUME NEW d \in Docs, Upsert(d) PROVE Goal
    <2>1. /\ cache = engine /\ cache' = cache /\ snapshot' = snapshot /\ rcache' = rcache
          /\ engine' = [engine EXCEPT ![d] = clock']
          /\ op' = [doc |-> d, value |-> clock']
          /\ d = Root \/ cache[Root] # Absent
      BY <1>1 DEF Upsert, Ready
    <2>2. op' # NoOp /\ engine' = Applied(cache', op')
      BY <2>1, <1>t, RealOp DEF Applied
    <2>3. clock' # Absent
      BY <1>1, StoreAssumption DEF Upsert, TInv, TypeOK, Values, Absent
    <2>4. engine'[Root] # Absent
      BY <2>1, <2>3, <1>t
    <2>5. Promise!Next
      BY <2>1, <1>t DEF Promise!Next, Promise!Set
    <2> QED BY <2>2, <2>4, <2>5 DEF Ready
  <1>2. ASSUME NEW d \in Docs, Delete(d) PROVE Goal
    <2>1. /\ cache = engine /\ cache' = cache /\ snapshot' = snapshot /\ rcache' = rcache
          /\ engine' = [engine EXCEPT ![d] = Absent]
          /\ op' = [doc |-> d, value |-> Absent]
          /\ d # Root
      BY <1>2, <1>f DEF Delete, Ready, EngineWithout
    <2>2. op' # NoOp /\ engine' = Applied(cache', op')
      BY <2>1, <1>t, RealOp DEF Applied
    <2>3. engine'[Root] = engine[Root]
      BY <2>1, <1>t
    <2>4. engine = Nothing => engine' = Nothing
      BY <2>1, <1>t DEF Nothing
    <2>5. Promise!Next
      BY <2>1, <1>t DEF Promise!Next, Promise!Set
    <2> QED BY <2>1, <2>2, <2>3, <2>4, <2>5 DEF Ready
  <1>3. CASE Finish
    <2>1. /\ engine = Applied(cache, op) /\ cache' = engine /\ op' = NoOp
          /\ engine' = engine /\ rcache' = rcache
          /\ snapshot' = engine \/ snapshot' = snapshot
      BY <1>3 DEF Finish, Cached, Mirrored
    <2> QED BY <2>1, <1>p, <1>q
  <1>4. CASE PublishSnapshot
    <2>1. snapshot' = engine /\ UNCHANGED <<engine, cache, op, rcache>>
      BY <1>4 DEF PublishSnapshot
    <2>2. opened' = opened
      BY <1>4 DEF PublishSnapshot
    <2> QED BY <2>1, <2>2, <1>q DEF Ready
  <1>5. CASE Open
    <2>1. PICK m \in Scanned \cup {Nothing} :
              /\ IF m \in Scanned THEN UNCHANGED faults ELSE Fault("scan")
              /\ IF UseScan(m) THEN cache' = m /\ snapshot' = m
                               ELSE cache' = snapshot /\ UNCHANGED snapshot
      BY <1>5 DEF Open
    <2>2. m = engine
      BY <2>1, <1>f, ScannedIsEngine DEF TInv
    <2>3. UNCHANGED <<engine, op, rcache>> /\ ~opened
      BY <1>5 DEF Open
    <2>4. op = NoOp
      BY <2>3 DEF TInv, Orderly
    <2>5. CASE UseScan(m)
      BY <2>1, <2>2, <2>3, <2>4, <2>5, <1>q
    <2>6. CASE ~UseScan(m)
      <3>1. engine = Nothing /\ snapshot # NoFile
        BY <2>2, <2>6 DEF UseScan
      <3>2. engine[Root] = Absent
        BY <3>1, <1>t DEF Nothing
      <3>3. cache' = engine /\ snapshot' = snapshot
        BY <2>1, <2>6, <3>1, <3>2
      <3> QED BY <2>3, <2>4, <3>3, <1>p
    <2> QED BY <2>5, <2>6
  <1>6. CASE Close
    <2>1. /\ snapshot' = engine \/ snapshot' = snapshot
          /\ engine' = engine /\ rcache' = rcache /\ op' = NoOp /\ ~opened'
      BY <1>6 DEF Close, Ready
    <2> QED BY <2>1, <1>p, <1>q DEF Ready
  <1>7. CASE Crash
    BY <1>7, <1>p DEF Crash, Ready
  <1>8. CASE LoadSnapshot
    <2>1. Promise!See
      BY <1>8 DEF LoadSnapshot, Promise!See
    <2> QED BY <1>8, <2>1 DEF LoadSnapshot, Promise!Next, Ready
  <1>9. CASE ReaderRestarts
    <2>1. Promise!Forget
      BY <1>9 DEF ReaderRestarts, Promise!Forget, Promise!Nothing, Nothing
    <2> QED BY <1>9, <2>1 DEF ReaderRestarts, Promise!Next, Ready
  <1>10. CASE UNCHANGED vars
    BY <1>10, <1>p DEF vars, Ready
  <1> QED BY <1>1, <1>2, <1>3, <1>4, <1>5, <1>6, <1>7, <1>8, <1>9, <1>10 DEF Next

\* While no engine call fails and the rebuild reads all documents, the reader
\* sees durable states of the catalog only, through crashes of the writer and
\* snapshots that could not be written.
THEOREM StoreImplementsMap ==
    ASSUME Cardinality(Docs) <= Limit, EngineHolds
    PROVE  Spec => PublishedDurably
  <1>1. Init => SInv /\ Promise!Init
    <2> SUFFICES ASSUME Init PROVE Synced /\ Promise!Init
      BY InitTInv DEF SInv
    <2>1. Synced
      BY DEF Init, Synced, Ready
    <2>2. Promise!Init
      BY DEF Init, Promise!Init, Promise!Nothing, Nothing
    <2> QED BY <2>1, <2>2
  <1>2. SInv /\ [Next]_vars => SInv' /\ [Promise!Next]_(Promise!vars)
    <2> SUFFICES ASSUME SInv, [Next]_vars PROVE SInv' /\ [Promise!Next]_(Promise!vars)
      OBVIOUS
    <2>1. TInv'
      BY NextTypeOK, NextOrderly DEF SInv, TInv
    <2> QED BY <2>1, NextSynced DEF SInv
  <1> QED BY <1>1, <1>2, PTL DEF Spec, PublishedDurably, Promise!Spec

-----------------------------------------------------------------------------
(* What the reader sees                                                    *)

\* x is no older than y, or it shows nothing.
Later(x, y) == x = Absent \/ x >= y

Shown(d) == IF snapshot = NoFile THEN Absent ELSE snapshot[d]
Coming(d) == IF op # NoOp /\ op.doc = d THEN op.value ELSE cache[d]

\* A document's values get no older from the reader to the snapshot, the cache,
\* what the call under way makes of it, and the engine.  Since a place may have
\* lost the document, each pair has to be compared.
Aged(d) ==
    /\ {newest[d], Shown(d), cache[d], Coming(d), engine[d]} \subseteq 0 .. clock
    /\ Later(Shown(d), newest[d])
    /\ Later(cache[d], newest[d]) /\ Later(cache[d], Shown(d))
    /\ Later(Coming(d), newest[d]) /\ Later(Coming(d), Shown(d))
    /\ Later(engine[d], newest[d]) /\ Later(engine[d], Shown(d))
    /\ Later(engine[d], cache[d]) /\ Later(engine[d], Coming(d))

AInv == TInv /\ \A d \in Docs : Aged(d)

\* The reader shows a document's newest value, or none.
Newer == \A d \in Docs : rcache'[d] # rcache[d] => rcache'[d] = Absent \/ rcache'[d] >= newest[d]

\* Every step keeps a document's values in that order.
LEMMA NextAged ==
    ASSUME AInv, TInv', [Next]_vars, NEW x \in Docs
    PROVE  Aged(x)'
  <1> DEFINE N == newest[x]
             S == Shown(x)
             C == cache[x]
             O == Coming(x)
             E == engine[x]
  <1> USE DEF writer, reader
  <1>a. /\ N \in 0 .. clock /\ S \in 0 .. clock /\ C \in 0 .. clock /\ O \in 0 .. clock /\ E \in 0 .. clock
        /\ Later(S, N) /\ Later(C, N) /\ Later(C, S) /\ Later(O, N) /\ Later(O, S)
        /\ Later(E, N) /\ Later(E, S) /\ Later(E, C) /\ Later(E, O)
    BY DEF AInv, Aged
  <1>t. /\ cache \in [Docs -> Values] /\ engine \in [Docs -> Values] /\ newest \in [Docs -> Values]
        /\ snapshot # NoFile => snapshot \in [Docs -> Values]
        /\ clock \in Nat /\ clock' \in Nat
        /\ op = NoOp \/ op \in [doc : Docs, value : Values]
    BY StoreAssumption DEF AInv, TInv, TypeOK, Values
  <1>o. /\ op # NoOp => opened /\ (op.value = engine[op.doc] \/ op.value = Absent)
        /\ opened => snapshot # NoFile
        /\ snapshot' = NoFile => \A d \in Docs : engine'[d] = Absent
    BY DEF AInv, TInv, Orderly, Nothing
  <1>m. \A f \in [Docs -> Values] : f # NoFile
    BY MapIsNoFile
  <1>1. ASSUME NEW d \in Docs, Upsert(d) PROVE Aged(x)'
    <2>1. /\ clock' = clock + 1 /\ UNCHANGED <<cache, snapshot, newest>> /\ op = NoOp
          /\ engine' = [engine EXCEPT ![d] = clock']
          /\ op' = [doc |-> d, value |-> clock']
      BY <1>1 DEF Upsert, Ready
    <2>2. op' # NoOp /\ op'.doc = d /\ op'.value = clock'
      <3>1. clock' # -1
        BY <1>t
      <3> QED BY <2>1, <3>1 DEF NoOp
    <2>3. N' = N /\ S' = S /\ C' = C
      BY <2>1 DEF Shown
    <2>4. IF x = d THEN O' = clock' /\ E' = clock' ELSE O' = C /\ E' = E
      BY <1>t, <2>1, <2>2 DEF Coming
    <2> HIDE DEF N, S, C, O, E
    <2>5. CASE x = d
      BY <1>a, <1>t, <2>1, <2>3, <2>4, <2>5 DEF Aged, Later, N, S, C, O, E, Absent
    <2>6. CASE x # d
      BY <1>a, <1>t, <2>1, <2>3, <2>4, <2>6 DEF Aged, Later, N, S, C, O, E, Absent
    <2> QED BY <2>5, <2>6
  <1>2. ASSUME NEW d \in Docs, Delete(d) PROVE Aged(x)'
    <2>1. /\ clock' = clock + 1 /\ UNCHANGED <<cache, snapshot, newest>> /\ op = NoOp
          /\ engine' = [engine EXCEPT ![d] = Absent] \/ engine' = engine
          /\ op' = [doc |-> d, value |-> Absent]
      BY <1>2 DEF Delete, Ready, EngineWithout
    <2>2. op' # NoOp /\ op'.doc = d /\ op'.value = Absent
      BY <2>1 DEF NoOp, Absent
    <2>3. N' = N /\ S' = S /\ C' = C
      BY <2>1 DEF Shown
    <2>4. (O' = Absent \/ O' = C) /\ (E' = Absent \/ E' = E)
      BY <1>t, <2>1, <2>2 DEF Coming
    <2> HIDE DEF N, S, C, O, E
    <2> QED BY <1>a, <1>t, <2>1, <2>3, <2>4 DEF Aged, Later, N, S, C, O, E, Absent
  <1>3. ASSUME UNCHANGED <<clock, engine>>, C' = O \/ C' = C \/ C' = Absent, O' = C',
               S' = S \/ S' = C', C' = C => (S' = S \/ S' = C),
               N' = N
        PROVE  Aged(x)'
    <2>1. E' = E
      BY <1>3
    <2> HIDE DEF N, S, C, O, E
    <2> QED BY <1>a, <1>t, <1>3, <2>1 DEF Aged, Later, N, S, C, O, E, Absent
  <1>4. CASE Finish
    <2>1. /\ UNCHANGED <<clock, engine, newest>> /\ op # NoOp /\ op' = NoOp
          /\ cache' = [cache EXCEPT ![op.doc] = op.value]
          /\ snapshot' = cache' \/ snapshot' = snapshot
      BY <1>4 DEF Finish, Cached, Mirrored, Applied
    <2>2. C' = O
      BY <1>t, <2>1 DEF Coming
    <2>3. O' = C'
      BY <2>1 DEF Coming
    <2>4. S' = S \/ S' = C'
      BY <2>1, <1>t, <1>m, <1>o DEF Shown, Absent
    <2>5. C' = C => S' = S \/ S' = C
      BY <2>4
    <2> QED BY <1>3, <2>1, <2>2, <2>3, <2>4, <2>5
  <1>5. CASE PublishSnapshot
    <2>1. UNCHANGED <<clock, engine, newest, cache, op>> /\ snapshot' = cache /\ op = NoOp
      BY <1>5 DEF PublishSnapshot, Ready
    <2>2. C' = C /\ O' = C' /\ S' = C /\ N' = N
      BY <2>1, <1>t, <1>m DEF Coming, Shown
    <2> QED BY <1>3, <2>1, <2>2
  <1>6. CASE Close
    <2>1. /\ UNCHANGED <<clock, engine, newest, op>> /\ op = NoOp /\ cache' = Nothing
          /\ snapshot' = cache \/ snapshot' = snapshot
      BY <1>6 DEF Close, Ready
    <2>2. C' = Absent /\ O' = C' /\ N' = N /\ O = C
      BY <2>1 DEF Coming, Nothing
    <2>3. S' = S \/ S' = C
      BY <2>1, <1>t, <1>m DEF Shown
    <2> HIDE DEF N, S, C, O, E
    <2>4. E' = E
      BY <2>1 DEF E
    <2> QED BY <1>a, <1>t, <2>1, <2>2, <2>3, <2>4 DEF Aged, Later, N, S, C, O, E, Absent
  <1>7. CASE Crash
    <2>1. UNCHANGED <<clock, engine, newest, snapshot>> /\ cache' = Nothing /\ op' = NoOp
      BY <1>7 DEF Crash
    <2>2. C' = Absent /\ O' = C' /\ N' = N /\ S' = S
      BY <2>1 DEF Coming, Nothing, Shown
    <2> QED BY <1>3, <2>1, <2>2
  <1>8. CASE Open
    <2>1. PICK m \in Scanned \cup {Nothing} :
              IF UseScan(m) THEN cache' = m /\ snapshot' = m
                            ELSE cache' = snapshot /\ UNCHANGED snapshot
      BY <1>8 DEF Open
    <2>2. UNCHANGED <<clock, engine, newest, op>> /\ op = NoOp
      BY <1>8, <1>o DEF Open
    <2>3. m \in [Docs -> Values] /\ m[x] \in {Absent, engine[x]}
      BY ScannedMaps, NothingIsMap DEF AInv, TInv, Nothing
    <2>4. O' = C' /\ N' = N /\ E' = E
      BY <2>2 DEF Coming
    <2>5. CASE UseScan(m)
      <3>1. C' \in {Absent, E} /\ S' = C'
        BY <2>1, <2>3, <2>5, <1>m DEF Shown
      <3> HIDE DEF N, S, C, O, E
      <3> QED BY <1>a, <1>t, <2>2, <2>4, <3>1 DEF Aged, Later, N, S, C, O, E, Absent
    <2>6. CASE ~UseScan(m)
      <3>1. C' = S /\ S' = S
        BY <2>1, <2>6 DEF Shown, UseScan
      <3> HIDE DEF N, S, C, O, E
      <3> QED BY <1>a, <1>t, <2>2, <2>4, <3>1 DEF Aged, Later, N, S, C, O, E, Absent
    <2> QED BY <2>5, <2>6
  <1>9. CASE LoadSnapshot
    <2>1. UNCHANGED <<clock, engine, snapshot, cache, op>> /\ newest' = Larger(newest, snapshot)
      BY <1>9 DEF LoadSnapshot
    <2>2. S' = S /\ C' = C /\ O' = O /\ E' = E
      BY <2>1 DEF Shown, Coming
    <2>3. N' = N \/ N' = S
      BY <1>9, <2>1 DEF Larger, LoadSnapshot, Shown
    <2> HIDE DEF N, S, C, O, E
    <2> QED BY <1>a, <1>t, <2>1, <2>2, <2>3 DEF Aged, Later, N, S, C, O, E, Absent
  <1>10. CASE ReaderRestarts \/ UNCHANGED vars
    BY <1>10 DEF ReaderRestarts, vars, AInv, Aged, Shown, Coming
  <1> QED BY <1>1, <1>2, <1>4, <1>5, <1>6, <1>7, <1>8, <1>9, <1>10 DEF Next

\* What the reader sees of a document never gets older, for any number of
\* documents and writes, and also beside failing deletes, scans that fail or
\* find too little, and snapshots that cannot be written (load_snapshot).
THEOREM ReaderMovesForward == Spec => ReaderNeverGoesBack
  <1>1. Init => AInv
    <2> SUFFICES ASSUME Init PROVE \A d \in Docs : Aged(d)
      BY InitTInv DEF AInv
    <2>1. /\ op = NoOp /\ snapshot = NoFile /\ clock = 0
          /\ \A d \in Docs : cache[d] = 0 /\ engine[d] = 0 /\ newest[d] = 0
      BY DEF Init, Nothing, Absent
    <2> QED BY <2>1 DEF Aged, Later, Shown, Coming, Absent
  <1>2. AInv /\ [Next]_vars => AInv' /\ [Newer]_vars
    <2> SUFFICES ASSUME AInv, [Next]_vars PROVE AInv' /\ [Newer]_vars
      OBVIOUS
    <2>1. TInv'
      BY NextTypeOK, NextOrderly DEF AInv, TInv
    <2>2. AInv'
      BY <2>1, NextAged DEF AInv
    <2>3. CASE LoadSnapshot
      <3>1. \A d \in Docs : rcache'[d] = Shown(d) /\ Later(Shown(d), newest[d])
        BY <2>3 DEF LoadSnapshot, Shown, AInv, Aged
      <3> QED BY <2>2, <3>1 DEF Newer, Later
    <2>4. CASE ReaderRestarts
      BY <2>2, <2>4 DEF ReaderRestarts, Newer, Nothing
    <2>5. CASE UNCHANGED rcache \/ UNCHANGED vars
      BY <2>2, <2>5 DEF Newer
    <2> QED BY <2>3, <2>4, <2>5
            DEF Next, Upsert, Delete, Finish, PublishSnapshot, Open, Close, Crash, reader
  <1> QED BY <1>1, <1>2, PTL DEF Spec, ReaderNeverGoesBack, Newer
=============================================================================
