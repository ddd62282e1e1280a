------------------------- MODULE VectorSearchProofs -------------------------
(***************************************************************************)
(* Proofs about VectorSearch, for any partitions, keys, points, queries and *)
(* limits: its types, that zvec's metrics follow the catalog, and that get, *)
(* query, search and hybrid search answer as they should.  What a read      *)
(* returns is in VectorSearchReads; here is what holds of the states it     *)
(* reads.                                                                  *)
(***************************************************************************)
EXTENDS VectorSearchReads

-----------------------------------------------------------------------------
(* Index documents and metrics                                             *)

\* Of documents that are all applied, every one is about the vector field.
LEMMA TakenIs ==
    ASSUME NEW docs \in Seq(IndexDocs)
    PROVE  /\ Taken(docs) \in Seq(IndexDocs)
           /\ Taken(docs) = docs => \A i \in DOMAIN docs : docs[i].field = Vec
<1> DEFINE B == {i \in 1 .. Len(docs) : docs[i].field # Vec}  m == Min(B)
<1>1. Len(docs) \in Nat /\ DOMAIN docs = 1 .. Len(docs) /\ \A i \in DOMAIN docs : docs[i] \in IndexDocs
  BY ElementOfSeq, LenProperties
<1>2. CASE B = {}
  <2>1. Taken(docs) = docs
    BY <1>2 DEF Taken, SelectInSeq
  <2> QED
    BY <1>1, <1>2, <2>1
<1>3. CASE B # {}
  <2>0. B \in SUBSET Nat
    OBVIOUS
  <2>1. m \in B
    <3> HIDE DEF B
    <3> QED
      BY <1>3, <2>0, MinIs
  <2>2. m \in 1 .. Len(docs) /\ m # 0
    BY <2>1
  <2>3. Taken(docs) = SubSeq(docs, 1, m - 1)
    BY <1>3, <2>2 DEF Taken, SelectInSeq
  <2> HIDE DEF m
  <2>4. \A i \in 1 .. m - 1 : docs[i] \in IndexDocs
    BY <1>1, <2>2
  <2>5. /\ SubSeq(docs, 1, m - 1) \in Seq(IndexDocs)
        /\ Len(SubSeq(docs, 1, m - 1)) = IF 1 <= m - 1 THEN (m - 1) - 1 + 1 ELSE 0
    BY <1>1, <2>2, <2>4, SubSeqProperties
  <2>6. Len(SubSeq(docs, 1, m - 1)) # Len(docs)
    BY <1>1, <2>2, <2>5
  <2> QED
    BY <2>3, <2>5, <2>6
<1> QED
  BY <1>2, <1>3

LEMMA PutIs ==
    ASSUME CatalogOK, NEW doc \in IndexDocs
    PROVE  PutIndex(doc) \in Seq(IndexDocs) /\ PutIndex(doc) # <<>>
<1>1. /\ indexes \in Seq(IndexDocs) /\ Len(indexes) \in Nat /\ DOMAIN indexes = 1 .. Len(indexes)
      /\ \A i \in DOMAIN indexes : indexes[i] \in IndexDocs
  BY ElementOfSeq, LenProperties DEF CatalogOK
<1>2. CASE \E i \in DOMAIN indexes : indexes[i].name = doc.name
  <2> DEFINE f == [i \in 1 .. Len(indexes) |-> IF indexes[i].name = doc.name THEN doc ELSE indexes[i]]
  <2>1. PutIndex(doc) = f
    BY <1>1, <1>2 DEF PutIndex
  <2>2. f \in [1 .. Len(indexes) -> IndexDocs]
    BY <1>1
  <2>3. 1 .. Len(indexes) # {}
    BY <1>1, <1>2
  <2>4. f # <<>>
    <3>1. DOMAIN f # {}
      BY <2>3
    <3> QED
      BY <3>1
  <2> HIDE DEF f
  <2>5. f \in Seq(IndexDocs)
    BY <1>1, <2>2, IsASeq
  <2> QED
    BY <2>1, <2>4, <2>5
<1>3. CASE ~ \E i \in DOMAIN indexes : indexes[i].name = doc.name
  <2>1. PutIndex(doc) = Append(indexes, doc)
    BY <1>3 DEF PutIndex
  <2> QED
    BY <1>1, <2>1, AppendProperties
<1> QED
  BY <1>2, <1>3

-----------------------------------------------------------------------------
(* The inductive invariant                                                 *)

\* As long as settled holds, a partition whose metric is not the catalog's is on
\* the list of an index creation that has still to be applied ...
Followed ==
    settled => \A p \in ToSet(parts) :
                  engine[p] = SortMetric \/ \E c \in creates : p \in ToSet(c.parts)

\* ... which has at least its own document to apply.
Pending == \A c \in creates : c.indexes # <<>>

\* A key column came to rows that were there only where the key was not mirrored
\* from the start (KeysMirrored), and the lists of a hybrid search are searches'
\* answers (RankedOK).
IInv == CatalogOK /\ RowsOK /\ Followed /\ Pending /\ KeysMirrored /\ RankedOK

LEMMA KeptIs == Kept({Scalar, Extra}) \in SUBSET {Scalar, Extra}
BY DEF Kept

LEMMA WriteKeeps ==
    ASSUME IInv, Write
    PROVE  IInv'
<1> PICK p \in ToSet(parts), k \in Keys, at \in Points :
       LET row == [at |-> at, column |-> "key", fields |-> Kept({Scalar, Extra})]
       IN /\ writes < MaxWrites /\ writes' = writes + 1
          /\ store' = [store EXCEPT ![p] = [j \in {k} \cup Stored(p) |->
                                             IF j = k THEN row ELSE Filled(p)[j]]]
          /\ mirrored' = [mirrored EXCEPT ![p] = TRUE]
          /\ UNCHANGED <<schemaVars, ranked, faults>>
  BY DEF Write
<1> DEFINE row == [at |-> at, column |-> "key", fields |-> Kept({Scalar, Extra})]
<1>1. /\ UNCHANGED <<legacy, parts, engine, indexes, creates, settled, indexOps, ranked, faults>>
      /\ CatalogOK /\ RowsOK /\ p \in PartNames
  BY PartsAre DEF IInv, schemaVars
<1>2. row \in Rows /\ row.column = "key"
  BY KeptIs DEF Rows
<1> HIDE DEF row
<1>3. CatalogOK' /\ Followed' /\ Pending' /\ RankedOK'
  BY <1>1 DEF IInv, CatalogOK, Followed, Pending, RankedOK, SortMetric
<1>4. /\ DOMAIN store' = PartNames
      /\ store'[p] = [j \in {k} \cup Stored(p) |-> IF j = k THEN row ELSE Filled(p)[j]]
      /\ \A q \in PartNames \ {p} : store'[q] = store[q] /\ mirrored'[q] = mirrored[q]
      /\ mirrored'[p] = TRUE
  BY <1>1 DEF RowsOK, row
<1>5. /\ DOMAIN store'[p] = {k} \cup Stored(p)
      /\ store'[p][k] = row
      /\ \A j \in Stored(p) \ {k} : store'[p][j] = Filled(p)[j]
  BY <1>4
<1>6. \A j \in Stored(p) : Filled(p)[j] \in Rows
  BY <1>1 DEF RowsOK, Filled, Rows
<1>7. ASSUME NEW q \in PartNames, NEW j \in Stored(q)'
      PROVE  /\ j \in Keys /\ q \in ToSet(parts)
             /\ store'[q][j] \in Rows /\ (store'[q][j].column # "none" => mirrored'[q])
  <2>1. CASE q = p
    <3>1. j = k \/ j \in Stored(p) \ {k}
      BY <1>5, <1>7, <2>1 DEF Stored
    <3>2. \A i \in Stored(p) : i \in Keys
      BY <1>1 DEF RowsOK
    <3> QED
      BY <1>2, <1>4, <1>5, <1>6, <2>1, <3>1, <3>2
  <2>2. CASE q # p
    <3>1. j \in Stored(q) /\ store'[q] = store[q] /\ mirrored'[q] = mirrored[q]
      BY <1>4, <1>7, <2>2 DEF Stored
    <3> QED
      BY <1>1, <3>1 DEF RowsOK
  <2> QED
    BY <2>1, <2>2
<1>8. mirrored' \in [PartNames -> BOOLEAN] /\ writes' \in 0 .. MaxWrites
  BY <1>1, SearchAssumption DEF RowsOK
<1>9. RowsOK'
  BY <1>1, <1>4, <1>7, <1>8 DEF RowsOK
<1>10. KeysMirrored'
  <2> SUFFICES ASSUME ~legacy, NEW q \in PartNames
               PROVE  mirrored'[q] /\ \A j \in Stored(q)' : store'[q][j].column # "zero"
    BY <1>1 DEF KeysMirrored
  <2>1. mirrored[q] /\ \A j \in Stored(q) : store[q][j].column # "zero"
    BY DEF IInv, KeysMirrored
  <2>2. CASE q = p
    <3>1. \A j \in Stored(p) : Filled(p)[j] = store[p][j]
      BY <2>1, <2>2 DEF Filled
    <3>2. \A j \in Stored(q)' : j = k \/ j \in Stored(p) \ {k}
      BY <1>5, <2>2 DEF Stored
    <3> QED
      BY <1>2, <1>4, <1>5, <2>1, <2>2, <3>1, <3>2
  <2>3. CASE q # p
    BY <1>4, <2>1, <2>3 DEF Stored
  <2> QED
    BY <2>2, <2>3
<1> QED
  BY <1>3, <1>9, <1>10 DEF IInv

LEMMA DeleteKeeps ==
    ASSUME IInv, Delete
    PROVE  IInv'
<1> PICK k \in Keys :
       /\ writes < MaxWrites /\ writes' = writes + 1
       /\ store' = [p \in PartNames |-> Restrict(store[p], Stored(p) \ {k})]
       /\ UNCHANGED <<schemaVars, mirrored, ranked, faults>>
  BY DEF Delete
<1>1. /\ UNCHANGED <<legacy, parts, engine, indexes, creates, settled, indexOps, mirrored, ranked, faults>>
      /\ RowsOK
  BY DEF IInv, schemaVars
<1>2. CatalogOK' /\ Followed' /\ Pending' /\ RankedOK'
  BY <1>1 DEF IInv, CatalogOK, Followed, Pending, RankedOK, SortMetric
<1>3. /\ DOMAIN store' = PartNames
      /\ \A p \in PartNames : /\ DOMAIN store'[p] = Stored(p) \ {k}
                              /\ \A j \in Stored(p) \ {k} : store'[p][j] = store[p][j]
  BY DEF Restrict
<1>4. writes' \in 0 .. MaxWrites
  BY <1>1, SearchAssumption DEF RowsOK
<1>5. RowsOK'
  BY <1>1, <1>3, <1>4 DEF RowsOK, Stored
<1>6. KeysMirrored'
  <2> SUFFICES ASSUME ~legacy, NEW p \in PartNames
               PROVE  mirrored[p] /\ \A j \in Stored(p)' : store'[p][j].column # "zero"
    BY <1>1 DEF KeysMirrored
  <2>1. mirrored[p] /\ \A j \in Stored(p) : store[p][j].column # "zero"
    BY DEF IInv, KeysMirrored
  <2>2. \A j \in Stored(p)' : j \in Stored(p) /\ store'[p][j] = store[p][j]
    BY <1>3 DEF Stored
  <2> QED
    BY <2>1, <2>2
<1> QED
  BY <1>2, <1>5, <1>6 DEF IInv

LEMMA CreateIndexKeeps ==
    ASSUME IInv, CreateIndex
    PROVE  IInv'
<1> PICK doc \in IndexDocs :
       /\ indexOps + Len(ranked) < MaxOps /\ indexOps' = indexOps + 1
       /\ indexes' = PutIndex(doc)
       /\ creates' = creates \cup {[indexes |-> indexes', parts |-> parts]}
       /\ UNCHANGED <<legacy, parts, engine, settled, rowVars, ranked, faults>>
  BY DEF CreateIndex
<1> DEFINE c == [indexes |-> indexes', parts |-> parts]
<1>1. CatalogOK /\ RowsOK /\ Pending /\ KeysMirrored /\ RankedOK
  BY DEF IInv
<1>2. indexes' \in Seq(IndexDocs) /\ indexes' # <<>>
  BY <1>1, PutIs
<1>3. Len(ranked) \in Nat
  BY <1>1, RankedIs
<1>4. indexOps' \in 0 .. MaxOps
  BY <1>1, <1>3, SearchAssumption DEF CatalogOK
<1>5. c \in [indexes : Seq(IndexDocs), parts : Seq(PartNames)] /\ c.indexes # <<>> /\ c.parts = parts
  BY <1>1, <1>2 DEF CatalogOK
<1>6. creates' = creates \cup {c}
  OBVIOUS
<1> HIDE DEF c
<1>7. CatalogOK'
  BY <1>1, <1>2, <1>4, <1>5, <1>6 DEF CatalogOK
<1>8. RowsOK' /\ KeysMirrored' /\ RankedOK'
  BY <1>1 DEF RowsOK, KeysMirrored, RankedOK, rowVars, Stored
<1>9. Pending'
  BY <1>1, <1>5, <1>6 DEF Pending
<1>10. Followed'
  BY <1>5, <1>6 DEF Followed
<1> QED
  BY <1>7, <1>8, <1>9, <1>10 DEF IInv

\* What is clean has given every partition it altered the catalog's metric.
LEMMA ApplyIndexKeeps ==
    ASSUME IInv, ApplyIndex
    PROVE  IInv'
<1> PICK c \in creates : \E refused \in SUBSET ToSet(c.parts) :
       LET altered == (ToSet(c.parts) \cap ToSet(parts)) \ refused
           taken   == Taken(c.indexes)
           clean   == c.indexes = indexes /\ taken = indexes /\ refused = {}
       IN /\ IF refused = {} THEN UNCHANGED faults
                             ELSE faults < MaxFaults /\ faults' = faults + 1
          /\ creates' = creates \ {c}
          /\ engine' = [p \in PartNames |-> IF p \in altered THEN LastMetric(taken, engine[p])
                                                             ELSE engine[p]]
          /\ settled' = (clean /\ (settled \/ ToSet(parts) \subseteq altered))
          /\ UNCHANGED <<legacy, parts, indexes, indexOps, rowVars, ranked>>
  BY DEF ApplyIndex
<1> PICK refused \in SUBSET ToSet(c.parts) :
       LET altered == (ToSet(c.parts) \cap ToSet(parts)) \ refused
           taken   == Taken(c.indexes)
           clean   == c.indexes = indexes /\ taken = indexes /\ refused = {}
       IN /\ IF refused = {} THEN UNCHANGED faults
                             ELSE faults < MaxFaults /\ faults' = faults + 1
          /\ creates' = creates \ {c}
          /\ engine' = [p \in PartNames |-> IF p \in altered THEN LastMetric(taken, engine[p])
                                                             ELSE engine[p]]
          /\ settled' = (clean /\ (settled \/ ToSet(parts) \subseteq altered))
          /\ UNCHANGED <<legacy, parts, indexes, indexOps, rowVars, ranked>>
  OBVIOUS
<1> DEFINE altered == (ToSet(c.parts) \cap ToSet(parts)) \ refused
           taken == Taken(c.indexes)
           clean == c.indexes = indexes /\ taken = indexes /\ refused = {}
<1>1. /\ CatalogOK /\ RowsOK /\ Followed /\ Pending /\ KeysMirrored /\ RankedOK
      /\ UNCHANGED <<legacy, parts, indexes, indexOps, store, mirrored, writes, ranked>>
      /\ creates' = creates \ {c}
      /\ engine' = [p \in PartNames |-> IF p \in altered THEN LastMetric(taken, engine[p])
                                                         ELSE engine[p]]
      /\ settled' = (clean /\ (settled \/ ToSet(parts) \subseteq altered))
  BY DEF IInv, rowVars
<1>2. c.indexes \in Seq(IndexDocs) /\ c.indexes # <<>>
  BY <1>1 DEF CatalogOK, Pending
<1>3. taken \in Seq(IndexDocs) /\ (taken = c.indexes => \A i \in DOMAIN c.indexes : c.indexes[i].field = Vec)
  BY <1>2, TakenIs
<1>4. faults' \in 0 .. MaxFaults
  BY <1>1, SearchAssumption DEF CatalogOK
<1> HIDE DEF taken
<1>5. engine' \in [PartNames -> Metrics]
  <2>1. \A p \in PartNames : LastMetric(taken, engine[p]) \in Metrics
    <3> TAKE p \in PartNames
    <3>1. engine[p] \in Metrics
      BY <1>1 DEF CatalogOK
    <3>2. CASE OfVec(taken) = {}
      BY <3>1, <3>2 DEF LastMetric
    <3>3. CASE OfVec(taken) # {}
      BY <1>3, <3>3, MetricIs
    <3> QED
      BY <3>2, <3>3
  <2> QED
    BY <1>1, <2>1 DEF CatalogOK
<1>6. CatalogOK'
  <2>1. clean \in BOOLEAN /\ settled' \in BOOLEAN
    BY <1>1 DEF clean
  <2> QED
    BY <1>1, <1>4, <1>5, <2>1 DEF CatalogOK
<1>7. RowsOK' /\ KeysMirrored' /\ RankedOK' /\ Pending'
  BY <1>1 DEF RowsOK, KeysMirrored, RankedOK, Pending, Stored
<1>8. ASSUME clean, NEW p \in altered PROVE engine'[p] = SortMetric
  <2>1. taken = indexes /\ c.indexes = indexes
    BY <1>8 DEF clean
  <2>2. Len(indexes) \in Nat /\ DOMAIN indexes = 1 .. Len(indexes) /\ 1 \in DOMAIN indexes
    BY <1>2, <2>1, LenProperties, EmptySeq
  <2>3. OfVec(taken) # {}
    BY <1>3, <2>1, <2>2 DEF OfVec
  <2>4. LastMetric(taken, engine[p]) = LastMetric(taken, FieldMetric)
    BY <1>3, <2>3, MetricIs
  <2>5. p \in PartNames
    BY <1>1, PartsAre DEF altered
  <2> QED
    BY <1>1, <2>1, <2>4, <2>5 DEF SortMetric
<1>9. Followed'
  <2> SUFFICES ASSUME settled', NEW p \in ToSet(parts)
               PROVE  engine'[p] = SortMetric \/ \E d \in creates' : p \in ToSet(d.parts)
    BY <1>1 DEF Followed, SortMetric
  <2>1. clean /\ (settled \/ ToSet(parts) \subseteq altered)
    BY <1>1
  <2>2. CASE p \in altered
    BY <1>8, <2>1, <2>2
  <2>3. CASE p \notin altered
    <3>1. settled /\ p \notin ToSet(c.parts)
      BY <2>1, <2>3 DEF altered, clean
    <3>2. engine[p] = SortMetric \/ \E d \in creates : p \in ToSet(d.parts)
      BY <1>1, <3>1 DEF Followed
    <3>3. engine'[p] = engine[p]
      BY <1>1, <2>3, PartsAre
    <3> QED
      BY <1>1, <3>1, <3>2, <3>3
  <2> QED
    BY <2>2, <2>3
<1> QED
  BY <1>6, <1>7, <1>9 DEF IInv

LEMMA DropIndexKeeps ==
    ASSUME IInv, DropIndex
    PROVE  IInv'
<1> PICK i \in DOMAIN indexes :
       /\ indexes' = RemoveAt(indexes, i)
       /\ settled' = (settled /\ SchemaMetric(indexes') = SchemaMetric(indexes))
       /\ UNCHANGED <<legacy, parts, engine, creates, indexOps, rowVars, ranked, faults>>
  BY DEF DropIndex
<1>1. CatalogOK /\ RowsOK /\ Followed /\ Pending /\ KeysMirrored /\ RankedOK
  BY DEF IInv
<1>2. indexes' \in Seq(IndexDocs)
  <2>1. indexes \in Seq(IndexDocs) /\ i \in 1 .. Len(indexes)
    BY <1>1, LenProperties DEF CatalogOK
  <2> QED
    BY <2>1, Removed
<1>3. settled' \in BOOLEAN
  BY <1>1 DEF CatalogOK
<1>4. CatalogOK'
  BY <1>1, <1>2, <1>3 DEF CatalogOK
<1>5. RowsOK' /\ Pending' /\ KeysMirrored' /\ RankedOK'
  BY <1>1 DEF RowsOK, Pending, KeysMirrored, RankedOK, rowVars, Stored
<1>6. settled' => settled /\ SortMetric' = SortMetric
  BY DEF SchemaMetric, SortMetric
<1>7. Followed'
  BY <1>1, <1>6 DEF Followed
<1> QED
  BY <1>4, <1>5, <1>7 DEF IInv

LEMMA CreatePartitionKeeps ==
    ASSUME IInv, CreatePartition
    PROVE  IInv'
<1> PICK p \in PartNames \ ToSet(parts) :
       /\ parts' = Append(parts, p)
       /\ engine' = [engine EXCEPT ![p] = SchemaMetric(indexes)]
       /\ mirrored' = [mirrored EXCEPT ![p] = ~legacy]
       /\ UNCHANGED <<legacy, indexes, creates, settled, indexOps, store, writes, ranked, faults>>
  BY DEF CreatePartition
<1>1. /\ CatalogOK /\ RowsOK /\ Followed /\ Pending /\ KeysMirrored /\ RankedOK
      /\ parts \in Seq(PartNames) /\ parts # <<>> /\ parts[1] = "_default" /\ IsInjective(parts)
  BY DEF IInv, CatalogOK
<1>2. /\ Len(parts) \in Nat /\ DOMAIN parts = 1 .. Len(parts)
      /\ \A i \in DOMAIN parts : parts[i] \in PartNames /\ parts[i] \in ToSet(parts)
  BY <1>1, PartsAre
<1>3. /\ parts' \in Seq(PartNames) /\ Len(parts') = Len(parts) + 1
      /\ \A i \in 1 .. Len(parts) : parts'[i] = parts[i]
      /\ parts'[Len(parts) + 1] = p
  BY <1>1, AppendProperties
<1>4. DOMAIN parts' = 1 .. Len(parts) + 1
  BY <1>3, LenProperties
<1>5. \A i \in DOMAIN parts' : (i \in DOMAIN parts /\ parts'[i] = parts[i]) \/ (i = Len(parts) + 1 /\ parts'[i] = p)
  BY <1>2, <1>3, <1>4
<1>6. \A i \in DOMAIN parts : i \in DOMAIN parts' /\ parts'[i] = parts[i]
  BY <1>2, <1>3, <1>4
<1>7. ToSet(parts)' = ToSet(parts) \cup {p}
  <2>1. Len(parts) + 1 \in DOMAIN parts'
    BY <1>2, <1>4
  <2>2. \A x : x \in ToSet(parts)' <=> \E i \in DOMAIN parts' : x = parts'[i]
    BY DEF ToSet
  <2>3. \A x : x \in ToSet(parts) <=> \E i \in DOMAIN parts : x = parts[i]
    BY DEF ToSet
  <2> QED
    BY <1>3, <1>5, <1>6, <2>1, <2>2, <2>3
<1>8. IsInjective(parts')
  <2>1. \A i \in DOMAIN parts : parts[i] # p
    BY <1>2
  <2> QED
    BY <1>1, <1>5, <2>1 DEF IsInjective
<1>9. parts' # <<>> /\ parts'[1] = "_default"
  <2>1. Len(parts) # 0
    BY <1>1, EmptySeq
  <2> QED
    BY <1>1, <1>2, <1>3, <2>1
<1>10. SchemaMetric(indexes) \in Metrics /\ SchemaMetric(indexes) = SortMetric
  <2>1. indexes \in Seq(IndexDocs)
    BY <1>1 DEF CatalogOK
  <2>2. CASE OfVec(indexes) = {}
    BY <2>2, SearchAssumption DEF SchemaMetric, SortMetric, LastMetric
  <2>3. CASE OfVec(indexes) # {}
    BY <2>1, <2>3, MetricIs DEF SchemaMetric, SortMetric
  <2> QED
    BY <2>2, <2>3
<1>11. engine' \in [PartNames -> Metrics] /\ mirrored' \in [PartNames -> BOOLEAN]
  <2>1. (~legacy) \in BOOLEAN
    BY Zenon
  <2> QED
    BY <1>1, <1>10, <2>1 DEF CatalogOK, RowsOK
<1>12. CatalogOK'
  BY <1>1, <1>3, <1>8, <1>9, <1>11 DEF CatalogOK
<1>13. RowsOK'
  <2>1. \A q \in PartNames \ {p} : mirrored'[q] = mirrored[q]
    BY <1>1 DEF RowsOK
  <2>2. \A k \in Stored(p) : FALSE
    BY <1>1 DEF RowsOK
  <2> QED
    BY <1>1, <1>7, <1>11, <2>1, <2>2 DEF RowsOK, Stored
<1>14. Pending' /\ RankedOK'
  BY <1>1 DEF Pending, RankedOK
<1>15. Followed'
  <2>1. \A q \in ToSet(parts) : q # p /\ engine'[q] = engine[q]
    BY <1>1, PartsAre DEF CatalogOK
  <2>2. engine'[p] = SortMetric
    BY <1>1, <1>10 DEF CatalogOK
  <2> QED
    BY <1>1, <1>7, <2>1, <2>2 DEF Followed, SortMetric
<1>16. KeysMirrored'
  <2> SUFFICES ASSUME ~legacy, NEW q \in PartNames
               PROVE  mirrored'[q] /\ \A k \in Stored(q)' : store'[q][k].column # "zero"
    BY <1>1 DEF KeysMirrored
  <2>1. mirrored[q] /\ \A k \in Stored(q) : store[q][k].column # "zero"
    BY <1>1 DEF KeysMirrored
  <2>2. mirrored'[q]
    BY <1>1, <2>1 DEF RowsOK
  <2> QED
    BY <2>1, <2>2 DEF Stored
<1> QED
  BY <1>12, <1>13, <1>14, <1>15, <1>16 DEF IInv

LEMMA DropPartitionKeeps ==
    ASSUME IInv, DropPartition
    PROVE  IInv'
<1> PICK i \in DOMAIN parts :
       /\ parts[i] # "_default"
       /\ parts' = RemoveAt(parts, i)
       /\ store' = [store EXCEPT ![parts[i]] = <<>>]
       /\ engine' = [engine EXCEPT ![parts[i]] = FieldMetric]
       /\ mirrored' = [mirrored EXCEPT ![parts[i]] = ~legacy]
       /\ UNCHANGED <<legacy, indexes, creates, settled, writes, indexOps, ranked, faults>>
  BY DEF DropPartition
<1> DEFINE p == parts[i]
<1>1. /\ CatalogOK /\ RowsOK /\ Followed /\ Pending /\ KeysMirrored /\ RankedOK
      /\ parts \in Seq(PartNames) /\ parts # <<>> /\ parts[1] = "_default" /\ IsInjective(parts)
  BY DEF IInv, CatalogOK
<1>2. /\ Len(parts) \in Nat /\ DOMAIN parts = 1 .. Len(parts)
      /\ \A j \in DOMAIN parts : parts[j] \in PartNames /\ parts[j] \in ToSet(parts)
      /\ p \in PartNames
  BY <1>1, PartsAre
<1>3. /\ parts' \in Seq(PartNames) /\ Len(parts') = Len(parts) - 1
      /\ \A j \in 1 .. Len(parts) - 1 : parts'[j] = IF j < i THEN parts[j] ELSE parts[j + 1]
  BY <1>1, <1>2, Removed
<1>4. DOMAIN parts' = 1 .. Len(parts) - 1
  BY <1>3, LenProperties
<1> DEFINE From(j) == IF j < i THEN j ELSE j + 1
<1>5. \A j \in DOMAIN parts' : From(j) \in DOMAIN parts \ {i} /\ parts'[j] = parts[From(j)]
  BY <1>2, <1>3, <1>4
<1>6. \A j \in DOMAIN parts \ {i} : \E k \in DOMAIN parts' : parts'[k] = parts[j]
  <2> TAKE j \in DOMAIN parts \ {i}
  <2> DEFINE k == IF j < i THEN j ELSE j - 1
  <2>1. k \in DOMAIN parts' /\ From(k) = j
    BY <1>2, <1>4
  <2> HIDE DEF k
  <2> QED
    BY <1>5, <2>1
<1>7. \A j, k \in DOMAIN parts' : From(j) = From(k) => j = k
  BY <1>2, <1>4
<1> HIDE DEF From
<1>8. IsInjective(parts')
  BY <1>1, <1>5, <1>7 DEF IsInjective
<1>9. \A q : q \in ToSet(parts)' <=> q \in ToSet(parts) /\ q # p
  <2>1. \A x : x \in ToSet(parts)' <=> \E j \in DOMAIN parts' : x = parts'[j]
    BY DEF ToSet
  <2>2. \A x : x \in ToSet(parts) <=> \E j \in DOMAIN parts : x = parts[j]
    BY DEF ToSet
  <2>3. \A j \in DOMAIN parts : parts[j] = p => j = i
    BY <1>1 DEF IsInjective
  <2> QED
    BY <1>5, <1>6, <2>1, <2>2, <2>3
<1>10. parts' # <<>> /\ parts'[1] = "_default"
  <2>1. i # 1
    BY <1>1
  <2>2. 1 \in 1 .. Len(parts) - 1 /\ 1 < i
    BY <1>2, <2>1
  <2>3. parts' # <<>>
    BY <1>4, <2>2
  <2> QED
    BY <1>1, <1>3, <2>2, <2>3
<1> HIDE DEF p
<1>11. engine' \in [PartNames -> Metrics] /\ mirrored' \in [PartNames -> BOOLEAN]
  <2>1. (~legacy) \in BOOLEAN
    BY Zenon
  <2> QED
    BY <1>1, <2>1, SearchAssumption DEF CatalogOK, RowsOK
<1>12. CatalogOK'
  BY <1>1, <1>3, <1>8, <1>10, <1>11 DEF CatalogOK
<1>13. RowsOK'
  <2>1. \A q \in PartNames \ {p} : store'[q] = store[q] /\ mirrored'[q] = mirrored[q]
    BY <1>1 DEF RowsOK, p
  <2>2. DOMAIN store' = PartNames /\ DOMAIN store'[p] = {}
    <3>1. store'[p] = <<>>
      BY <1>1, <1>2 DEF RowsOK, p
    <3> QED
      BY <1>1, <3>1 DEF RowsOK
  <2> QED
    BY <1>1, <1>9, <1>11, <2>1, <2>2 DEF RowsOK, Stored
<1>14. Pending' /\ RankedOK'
  BY <1>1 DEF Pending, RankedOK
<1>15. Followed'
  <2>1. \A q \in ToSet(parts) : q # p => engine'[q] = engine[q]
    BY <1>1, PartsAre DEF CatalogOK, p
  <2> QED
    BY <1>1, <1>9, <2>1 DEF Followed, SortMetric
<1>16. KeysMirrored'
  <2> SUFFICES ASSUME ~legacy, NEW q \in PartNames
               PROVE  mirrored'[q] /\ \A k \in Stored(q)' : store'[q][k].column # "zero"
    BY <1>1 DEF KeysMirrored
  <2>1. mirrored[q] /\ \A k \in Stored(q) : store[q][k].column # "zero"
    BY <1>1 DEF KeysMirrored
  <2>2. mirrored'[q]
    BY <1>1, <2>1 DEF RowsOK
  <2>3. CASE q = p
    <3>1. store'[p] = <<>>
      BY <1>1, <1>2 DEF RowsOK, p
    <3> QED
      BY <2>2, <2>3, <3>1 DEF Stored
  <2>4. CASE q # p
    BY <1>1, <2>1, <2>2, <2>4 DEF RowsOK, Stored, p
  <2> QED
    BY <2>3, <2>4
<1> QED
  BY <1>12, <1>13, <1>14, <1>15, <1>16 DEF IInv

\* What is put on the lists is a search's answer, in which no id is twice.
LEMMA HybridKeeps ==
    ASSUME IInv, SubSearch \/ HybridDone
    PROVE  IInv'
<1>1. /\ UNCHANGED <<schemaVars, rowVars, faults>> /\ CatalogOK /\ RowsOK /\ RankedOK
      /\ ranked' = <<>> \/ \E q \in Queries : ranked' = Append(ranked, Search(parts, q, MaxLimit, {}))
  BY DEF SubSearch, HybridDone, IInv
<1>2. CatalogOK' /\ RowsOK' /\ Followed' /\ Pending' /\ KeysMirrored'
  BY <1>1 DEF IInv, CatalogOK, RowsOK, Followed, Pending, KeysMirrored, SortMetric, Stored,
     schemaVars, rowVars
<1>3. RankedOK'
  <2>1. CASE ranked' = <<>>
    BY <2>1 DEF RankedOK
  <2>2. ASSUME NEW q \in Queries, ranked' = Append(ranked, Search(parts, q, MaxLimit, {}))
        PROVE  RankedOK'
    <3> DEFINE l == Search(parts, q, MaxLimit, {})
    <3>1. l \in Seq(Hit) /\ Distinct(l)
      BY <1>1, SearchIs, SearchAssumption DEF CatalogOK
    <3> HIDE DEF l
    <3>2. ranked \in Seq(Seq(Hit)) /\ \A n \in 1 .. Len(ranked) : Distinct(ranked[n])
      BY <1>1 DEF RankedOK
    <3>3. /\ ranked' \in Seq(Seq(Hit)) /\ Len(ranked') = Len(ranked) + 1 /\ Len(ranked) \in Nat
          /\ \A n \in 1 .. Len(ranked) : ranked'[n] = ranked[n]
          /\ ranked'[Len(ranked) + 1] = l
      BY <2>2, <3>1, <3>2, AppendProperties, LenProperties DEF l
    <3>4. ASSUME NEW n \in 1 .. Len(ranked') PROVE Distinct(ranked'[n])
      <4>1. n \in 1 .. Len(ranked) \/ n = Len(ranked) + 1
        BY <3>3
      <4>2. CASE n \in 1 .. Len(ranked)
        BY <3>2, <3>3, <4>2
      <4>3. CASE n = Len(ranked) + 1
        BY <3>1, <3>3, <4>3
      <4> QED
        BY <4>1, <4>2, <4>3
    <3> QED
      BY <3>3, <3>4 DEF RankedOK
  <2> QED
    BY <1>1, <2>1, <2>2
<1> QED
  BY <1>2, <1>3 DEF IInv

LEMMA InitHolds == Init => IInv
<1> SUFFICES ASSUME Init PROVE IInv
  OBVIOUS
<1>1. /\ parts = <<"_default">> /\ indexes = <<>> /\ creates = {} /\ ranked = <<>>
      /\ settled = TRUE /\ writes = 0 /\ indexOps = 0 /\ faults = 0
      /\ legacy \in BOOLEAN
      /\ mirrored = [p \in PartNames |-> ~legacy]
      /\ engine = [p \in PartNames |-> FieldMetric]
  BY SearchAssumption DEF Init
<1>2. /\ parts \in Seq(PartNames) /\ parts # <<>> /\ parts[1] = "_default" /\ DOMAIN parts = {1}
      /\ ToSet(parts) = {"_default"}
  BY <1>1, SearchAssumption DEF ToSet
<1>3. CatalogOK
  <2>1. IsInjective(parts)
    BY <1>2 DEF IsInjective
  <2>2. engine \in [PartNames -> Metrics] /\ indexes \in Seq(IndexDocs)
    BY <1>1, SearchAssumption
  <2> QED
    BY <1>1, <1>2, <2>1, <2>2, SearchAssumption DEF CatalogOK
<1>4. RowsOK /\ KeysMirrored
  <2> PICK K \in {{}, Keys} : \E at \in [K -> Points] :
          store = [p \in PartNames |-> [k \in (IF p = "_default" THEN K ELSE {}) |->
                     [at |-> at[k], column |-> IF legacy THEN "none" ELSE "key", fields |-> Kept({Scalar, Extra})]]]
    BY DEF Init
  <2> PICK at \in [K -> Points] :
          store = [p \in PartNames |-> [k \in (IF p = "_default" THEN K ELSE {}) |->
                     [at |-> at[k], column |-> IF legacy THEN "none" ELSE "key", fields |-> Kept({Scalar, Extra})]]]
    OBVIOUS
  <2>1. K \subseteq Keys
    OBVIOUS
  <2>2. DOMAIN store = PartNames
    OBVIOUS
  <2>3. ASSUME NEW p \in PartNames, NEW k \in Stored(p)
        PROVE  /\ k \in Keys /\ p \in ToSet(parts)
               /\ store[p][k] \in Rows /\ (store[p][k].column # "none" => mirrored[p])
               /\ store[p][k].column # "zero"
    <3>1. p = "_default" /\ k \in K
      BY <2>3 DEF Stored
    <3>2. store[p][k] = [at |-> at[k], column |-> IF legacy THEN "none" ELSE "key",
                         fields |-> Kept({Scalar, Extra})]
      BY <3>1
    <3>3. store[p][k] \in Rows
      BY <3>1, <3>2, KeptIs DEF Rows
    <3>4. store[p][k].column = IF legacy THEN "none" ELSE "key"
      BY <3>2
    <3>5. mirrored[p] = ~legacy
      BY <1>1
    <3> QED
      BY <1>2, <2>1, <3>1, <3>3, <3>4, <3>5
  <2>4. mirrored \in [PartNames -> BOOLEAN]
    BY <1>1
  <2>5. writes \in 0 .. MaxWrites
    BY <1>1, SearchAssumption
  <2> QED
    BY <1>1, <2>2, <2>3, <2>4, <2>5 DEF RowsOK, KeysMirrored
<1>5. Followed
  <2>1. OfVec(indexes) = {}
    BY <1>1 DEF OfVec
  <2>2. SortMetric = FieldMetric
    BY <2>1 DEF SortMetric, LastMetric
  <2> QED
    BY <1>1, <1>2, <2>2, SearchAssumption DEF Followed
<1>6. Pending /\ RankedOK
  BY <1>1 DEF Pending, RankedOK
<1> QED
  BY <1>3, <1>4, <1>5, <1>6 DEF IInv

LEMMA NextKeeps ==
    ASSUME IInv, [Next]_vars
    PROVE  IInv'
<1>1. CASE UNCHANGED vars
  BY <1>1 DEF IInv, CatalogOK, RowsOK, Followed, Pending, KeysMirrored, RankedOK, SortMetric,
     Stored, vars, schemaVars, rowVars
<1> QED
  BY <1>1, WriteKeeps, DeleteKeeps, CreateIndexKeeps, ApplyIndexKeeps, DropIndexKeeps,
     CreatePartitionKeeps, DropPartitionKeeps, HybridKeeps DEF Next

\* The invariant holds in every behaviour, for any partitions, keys and indexes.
LEMMA Inductive == Spec => []IInv
BY InitHolds, NextKeeps, PTL DEF Spec

-----------------------------------------------------------------------------
(* The theorems                                                            *)

\* The catalog and the partitions keep their types, a dropped partition leaves no
\* rows behind, and no row has a key column that zvec's schema of its partition
\* lacks (ensure_pk_column_on_handle).
THEOREM RowsHaveTheirColumn == Spec => [](CatalogOK /\ RowsOK)
<1>1. IInv => CatalogOK /\ RowsOK
  BY DEF IInv
<1> QED
  BY <1>1, Inductive, PTL

\* Once no index creation is under way, zvec ranks every partition under the
\* metric by which search sorts, however creations, drops and partitions came in
\* between; the exceptions are those that settled records.
THEOREM MetricsFollowCatalog == Spec => []EngineFollowsCatalog
<1>1. IInv => EngineFollowsCatalog
  BY DEF IInv, Followed, EngineFollowsCatalog, AtRest
<1> QED
  BY <1>1, Inductive, PTL

\* Every variable keeps its type; the lists of a hybrid search are lists of hits
\* whose ids are keys, or the zero of a column that was added later.
THEOREM TypeCorrect == Spec => []TypeOK
<1>1. IInv => TypeOK
  BY DEF IInv, TypeOK, RankedOK, Hit
<1> QED
  BY <1>1, Inductive, PTL

\* However rows, partitions and key columns came and went, and however zvec's
\* fetch answers for an id that a partition does not have: a get finds every key
\* that a readable partition has, once and with the fields it was asked for, if
\* those answers are plain misses; if they are not, a get by Int64 keys does so or
\* fails, and one by VarChar keys misses only what is behind such an answer.
THEOREM GetAnswers == Spec => []GetFindsEveryKey
<1>1. IInv => GetFindsEveryKey
  BY GetHolds DEF IInv
<1> QED
  BY <1>1, Inductive, PTL

\* A query without a filter returns every row of every partition, or as many as
\* its limit.
THEOREM QueryAnswers == Spec => []QueryReturnsEveryRow
<1>1. IInv => QueryReturnsEveryRow
  BY QueryHolds DEF IInv
<1> QED
  BY <1>1, Inductive, PTL

\* While no index creation is under way, a search returns the nearest keys of the
\* partitions, in order and each once at its best score, from the partitions'
\* own best rows.
THEOREM SearchAnswers == Spec => []SearchFindsNearest
<1>1. IInv => EngineFollowsCatalog
  BY DEF IInv, Followed, EngineFollowsCatalog, AtRest
<1>2. IInv => SearchFindsNearest
  BY <1>1, SearchHolds DEF IInv
<1> QED
  BY <1>2, Inductive, PTL

\* Fusion by reciprocal ranks or by weights loses no hit, and never turns round two
\* hits that the lists agree on.
THEOREM FusionAnswers == Spec => []FusionKeepsAgreement
<1>1. IInv => FusionKeepsAgreement
  BY FusionHolds DEF IInv
<1> QED
  BY <1>1, Inductive, PTL
=============================================================================
