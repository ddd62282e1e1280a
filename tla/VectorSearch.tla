---------------------------- MODULE VectorSearch ----------------------------
(***************************************************************************)
(* The reads of a collection (search, query, get, hybrid search) over what  *)
(* its writes, its indexes and its partitions leave behind.  A partition is *)
(* ranked by zvec under the metric of the index zvec was last given; the    *)
(* service merges the partitions' answers under the metric the catalog      *)
(* records.  How a process gets a handle is FenceProtocol's subject: a read *)
(* sees the partitions as the last write left them.  The key field is "id". *)
(***************************************************************************)
EXTENDS Integers, SequencesExt

CONSTANTS PartNames,    \* names of partitions; "_default" is always there
          Keys,         \* primary keys, positive integers; so are VarChar keys here
          Gets,         \* what is asked of get: [ids, out], keys and output fields
          Points,       \* the vectors, of dimension one
          Queries,      \* query vectors
          Metrics,      \* metrics in use, a subset of L2, IP and COSINE
          FieldMetric,  \* the metric_type of the vector field
          IndexNames,
          Legacies,     \* TRUE: the key was not mirrored when it was created
          Dynamic,      \* enable_dynamic_field
          MaxLimit,     \* the largest limit of a search
          RrfK,         \* the constant k of reciprocal rank fusion
          MaxWrites,    \* rows written or deleted
          MaxOps,       \* index creations and lists of a hybrid search
          MaxFaults     \* alterations that zvec refuses

ASSUME SearchAssumption ==
    /\ "_default" \in PartNames /\ FieldMetric \in Metrics
    /\ Legacies \subseteq BOOLEAN
    /\ Keys \subseteq Nat \ {0} /\ IsFiniteSet(Keys) /\ IsFiniteSet(PartNames)
    /\ Points \subseteq Int /\ Queries \subseteq Int /\ Metrics \subseteq {"L2", "IP", "COSINE"}
    /\ MaxLimit \in Nat /\ RrfK \in Nat
    /\ MaxWrites \in Nat /\ MaxOps \in Nat /\ MaxFaults \in Nat

VARIABLES
    legacy,    \* the catalog's schema does not list the key as a scalar
    parts,     \* the catalog's partitions, oldest first
    store,     \* store[p]: the rows of partition p, by key
    mirrored,  \* mirrored[p]: zvec's schema of p has a column for the key
    engine,    \* engine[p]: the metric zvec ranks p by
    indexes,   \* the catalog's index documents, oldest first
    creates,   \* index creations that wait for the readers to let go
    ranked,    \* the lists of a hybrid search in progress
    settled,   \* (history) the last index creation reached every partition
    writes, indexOps, faults

schemaVars == <<legacy, parts, engine, indexes, creates, settled, indexOps>>
rowVars    == <<store, mirrored, writes>>
vars == <<schemaVars, rowVars, ranked, faults>>

Vec    == "vec"                       \* the vector field
Fields == {Vec, "missing"}            \* what CreateIndex may be asked to index
Scalar == "color"                     \* a declared scalar field
Extra  == "note"                      \* a field that is not declared
Outs   == SUBSET {Scalar, Extra}      \* the output fields that are asked for
Rows   == [at : Points, column : {"key", "zero", "none"}, fields : SUBSET {Scalar, Extra}]
\* what create stores: the metric and the type have been found constructible,
\* the field has not been looked up
IndexDocs == [name : IndexNames, field : Fields, metric : Metrics]
Stored(p) == DOMAIN store[p]

ASSUME GetAssumption == Gets \subseteq [ids : SUBSET Keys, out : Outs]

CatalogOK ==
    /\ legacy \in BOOLEAN /\ settled \in BOOLEAN
    /\ parts \in Seq(PartNames) /\ parts # <<>> /\ parts[1] = "_default"
    /\ IsInjective(parts)
    /\ engine \in [PartNames -> Metrics]
    /\ indexes \in Seq(IndexDocs)
    /\ creates \subseteq [indexes : Seq(IndexDocs), parts : Seq(PartNames)]
    /\ indexOps \in 0 .. MaxOps /\ faults \in 0 .. MaxFaults

\* no row of a partition that the catalog does not list, none ahead of its column
RowsOK ==
    /\ DOMAIN store = PartNames
    /\ mirrored \in [PartNames -> BOOLEAN]
    /\ \A p \in PartNames : \A k \in Stored(p) :
          /\ k \in Keys /\ p \in ToSet(parts)
          /\ store[p][k] \in Rows
          /\ store[p][k].column # "none" => mirrored[p]
    /\ writes \in 0 .. MaxWrites

TypeOK ==
    /\ CatalogOK /\ RowsOK
    /\ ranked \in Seq(Seq([id : Keys \cup {0}, score : Int, shows : SUBSET {Scalar, Extra}]))

(* The entity's fields become columns of the row; undeclared ones go to the   *)
(* dynamic field, or nowhere.                                                 *)
Kept(fields) == IF Dynamic THEN fields ELSE fields \cap {Scalar}

(* A collection without indexes, with rows in "_default": the partition was  *)
(* created with none, and rows of a legacy one have no key column.            *)
Init ==
    /\ legacy \in Legacies
    /\ parts = <<"_default">>
    /\ \E K \in {{}, Keys} : \E at \in [K -> Points] :
          store = [p \in PartNames |-> [k \in (IF p = "_default" THEN K ELSE {}) |->
                     [at |-> at[k], column |-> IF legacy THEN "none" ELSE "key", fields |-> Kept({Scalar, Extra})]]]
    /\ mirrored = [p \in PartNames |-> ~legacy]
    /\ engine = [p \in PartNames |-> FieldMetric]
    /\ indexes = <<>> /\ creates = {} /\ ranked = <<>> /\ settled = TRUE
    /\ writes = 0 /\ indexOps = 0 /\ faults = 0

-----------------------------------------------------------------------------
(* Writes *)
\* ensure_pk_column_on_handle: where the key column is missing it is added, and
\* the rows that are there get its default, zero
Filled(p) == [k \in Stored(p) |-> IF mirrored[p] THEN store[p][k]
                                  ELSE [store[p][k] EXCEPT !.column = "zero"]]

\* insert or upsert of one row; the key is mirrored into its column
Write ==
    \E p \in ToSet(parts), k \in Keys, at \in Points :
       LET row == [at |-> at, column |-> "key", fields |-> Kept({Scalar, Extra})]
       IN /\ writes < MaxWrites
          /\ writes' = writes + 1
          /\ store' = [store EXCEPT ![p] = [j \in {k} \cup Stored(p) |->
                                             IF j = k THEN row ELSE Filled(p)[j]]]
          /\ mirrored' = [mirrored EXCEPT ![p] = TRUE]
          /\ UNCHANGED <<schemaVars, ranked, faults>>

\* delete by key, in every partition
Delete ==
    \E k \in Keys :
       /\ writes < MaxWrites
       /\ \E p \in PartNames : k \in Stored(p)
       /\ writes' = writes + 1
       /\ store' = [p \in PartNames |-> Restrict(store[p], Stored(p) \ {k})]
       /\ UNCHANGED <<schemaVars, mirrored, ranked, faults>>

-----------------------------------------------------------------------------
(* Indexes.  A vector column has one metric: that of the last document about *)
(* the field, or the field's own.                                             *)
OfVec(docs) == {i \in DOMAIN docs : docs[i].field = Vec}
LastMetric(docs, default) == IF OfVec(docs) = {} THEN default ELSE docs[Max(OfVec(docs))].metric

\* (mutant) as collection.create: no index definitions are passed
SchemaMetric_Plain(docs) == FieldMetric
\* zvec's metric in the schema of a new partition
SchemaMetric(docs) == LastMetric(docs, FieldMetric)

\* put_index: a document of the same name keeps its place
PutIndex(doc) ==
    IF \E i \in DOMAIN indexes : indexes[i].name = doc.name
    THEN [i \in DOMAIN indexes |-> IF indexes[i].name = doc.name THEN doc ELSE indexes[i]]
    ELSE Append(indexes, doc)

\* create: the document is stored and both lists are read before the wait
CreateIndex ==
    \E doc \in IndexDocs :
       /\ indexOps + Len(ranked) < MaxOps
       /\ indexOps' = indexOps + 1
       /\ indexes' = PutIndex(doc)
       /\ creates' = creates \cup {[indexes |-> indexes', parts |-> parts]}
       /\ UNCHANGED <<legacy, parts, engine, settled, rowVars, ranked, faults>>

\* The documents that are applied: up to the first that zvec does not take,
\* for the exception that raises ends the loop and is swallowed.
Taken(docs) ==
    LET bad == SelectInSeq(docs, LAMBDA d : d.field # Vec)
    IN IF bad = 0 THEN docs ELSE SubSeq(docs, 1, bad - 1)

\* _apply_index_to_partition on each partition of the creation's list; a
\* partition that is gone raises at open.  zvec may refuse to alter one.
ApplyIndex ==
    \E c \in creates :
       \E refused \in SUBSET ToSet(c.parts) :
          LET altered == (ToSet(c.parts) \cap ToSet(parts)) \ refused
              taken   == Taken(c.indexes)
              clean   == c.indexes = indexes /\ taken = indexes /\ refused = {}
          IN /\ IF refused = {} THEN UNCHANGED faults
                                ELSE faults < MaxFaults /\ faults' = faults + 1
             /\ creates' = creates \ {c}
             /\ engine' = [p \in PartNames |-> IF p \in altered THEN LastMetric(taken, engine[p])
                                                                ELSE engine[p]]
             /\ settled' = (clean /\ (settled \/ ToSet(parts) \subseteq altered))
             /\ UNCHANGED <<legacy, parts, indexes, indexOps, rowVars, ranked>>

\* drop removes the document and leaves zvec alone
DropIndex ==
    \E i \in DOMAIN indexes :
       /\ indexes' = RemoveAt(indexes, i)
       /\ settled' = (settled /\ SchemaMetric(indexes') = SchemaMetric(indexes))
       /\ UNCHANGED <<legacy, parts, engine, creates, indexOps, rowVars, ranked, faults>>

-----------------------------------------------------------------------------
(* Partitions *)
CreatePartition ==
    \E p \in PartNames \ ToSet(parts) :
       /\ parts' = Append(parts, p)
       /\ engine' = [engine EXCEPT ![p] = SchemaMetric(indexes)]
       /\ mirrored' = [mirrored EXCEPT ![p] = ~legacy]
       /\ UNCHANGED <<legacy, indexes, creates, settled, indexOps, store, writes, ranked, faults>>

\* (mutant) the partition's directory is left behind
DropPartition_FilesStay ==
    \E i \in DOMAIN parts :
       /\ parts[i] # "_default"
       /\ parts' = RemoveAt(parts, i)
       /\ UNCHANGED <<legacy, engine, indexes, creates, settled, indexOps, rowVars, ranked, faults>>

DropPartition ==
    \E i \in DOMAIN parts :
       /\ parts[i] # "_default"
       /\ parts' = RemoveAt(parts, i)
       /\ store' = [store EXCEPT ![parts[i]] = <<>>]
       /\ engine' = [engine EXCEPT ![parts[i]] = FieldMetric]
       /\ mirrored' = [mirrored EXCEPT ![parts[i]] = ~legacy]
       /\ UNCHANGED <<legacy, indexes, creates, settled, writes, indexOps, ranked, faults>>

-----------------------------------------------------------------------------
(* The elements of a finite set in a given order, first to last               *)
InOrder(S, before(_, _)) ==
    [n \in 1 .. Cardinality(S) |-> CHOOSE x \in S : Cardinality({y \in S : before(y, x)}) = n - 1]

(* What the engine (external) answers: the best `limit` rows of one partition *)
(* under its own metric.  L2 is a distance, the others are similarities.      *)
Sign(x) == IF x = 0 THEN 0 ELSE IF x < 0 THEN -1 ELSE 1
Score(metric, q, v) == CASE metric = "L2" -> (q - v) * (q - v)
                         [] metric = "IP" -> q * v
                         [] metric = "COSINE" -> Sign(q) * Sign(v)

\* reverse = metric in {IP, COSINE}
Descending(metric) == metric \in {"IP", "COSINE"}

\* Python's sort: rows with equal scores keep their order
StableSort(rows, descending) ==
    LET closer(a, b) == IF descending THEN a > b ELSE a < b
        order == InOrder(DOMAIN rows, LAMBDA i, j : \/ closer(rows[i].score, rows[j].score)
                                                   \/ (rows[i].score = rows[j].score /\ i < j))
    IN  [n \in DOMAIN order |-> rows[order[n]]]

Cut(seq, limit) == SubSeq(seq, 1, IF limit < Len(seq) THEN limit ELSE Len(seq))
Ascending(S) == InOrder(S, LAMBDA j, k : j < k)

EngineQuery(p, q, limit) ==
    LET keys == Ascending(Stored(p))
        scored == [i \in DOMAIN keys |->
                     [key |-> keys[i], score |-> Score(engine[p], q, store[p][keys[i]].at)]]
    IN Cut(StableSort(scored, Descending(engine[p])), limit)

\* _resolve_output: the scalar columns asked of zvec, {} for all there are;
\* never the key, which is to come from the document's id
Columns(out) == out \cap {Scalar}

\* _item_to_entity: the id is the document's, unless the columns that came
\* back have one; the fields are cut to those asked for.
Shown(p, key, columns, out) ==
    LET row == store[p][key]
        came == IF columns = {} THEN row.fields ELSE row.fields \cap columns
    IN [id |-> IF columns = {} /\ row.column = "zero" THEN 0 ELSE key,
        shows |-> IF out = {} THEN came ELSE came \cap out]

Entities(p, q, limit, out) ==
    LET hits == EngineQuery(p, q, limit)
        shown(i) == Shown(p, hits[i].key, Columns(out), out)
    IN [i \in DOMAIN hits |-> [id |-> shown(i).id, shows |-> shown(i).shows, score |-> hits[i].score]]

-----------------------------------------------------------------------------
(* search: the partitions' hits, sorted under the catalog's metric, without   *)
(* those whose id has been seen, cut.                                         *)
SortMetric == LastMetric(indexes, FieldMetric)
Merged(ps, q, limit, out) == FlattenSeq([i \in DOMAIN ps |-> Entities(ps[i], q, limit, out)])
Deduped(rows) ==
    LET first == Ascending({i \in DOMAIN rows : \A j \in 1 .. i - 1 : rows[j].id # rows[i].id})
    IN [i \in DOMAIN first |-> rows[first[i]]]
\* (mutant) cut before the duplicates are out
Search_CutFirst(ps, q, limit, out) ==
    Deduped(Cut(StableSort(Merged(ps, q, limit, out), Descending(SortMetric)), limit))
Search(ps, q, limit, out) ==
    Cut(Deduped(StableSort(Merged(ps, q, limit, out), Descending(SortMetric))), limit)

\* (mutant) without duplicates, as in search
Query_Deduped(ps, limit, out) ==
    Cut(Deduped(Merged(ps, 0, limit, IF out = {} THEN {"id", Scalar, Vec} ELSE out)), limit)

\* query without a filter: a search with the zero vector whose order is kept.
\* When no fields are asked for, those of the schema are.
Query(ps, limit, out) ==
    Cut(Merged(ps, 0, limit, IF out = {} THEN {"id", Scalar, Vec} ELSE out), limit)

\* What fetch (external) does with an id that the partition does not have: it
\* answers None, {id: None} or [] ("plain"), or something else that does not
\* name the id, as {} ("bare").  Or it raises, for that id as for any other.
FetchKinds == {"plain", "bare", "raises"}
\* A later column of zeros is only made for integer keys.
PkTypes == IF legacy THEN {"Int64"} ELSE {"Int64", "VarChar"}
\* the id "None" of an item without one
Nameless == -1

\* the ids of which partition i of ps yields an item, right or wrong, and those of
\* them that no earlier partition did: an exception is a miss
\* (mutant) an id is seen once it was asked for, found or not
Fresh_SeenTooEarly(ps, i, ids, fetch) ==
    IF i = 1 /\ fetch[ps[1]] # "raises" THEN ids \cap Stored(ps[1]) ELSE {}
Fetched(p, ids, fetch) ==
    CASE fetch[p] = "plain"  -> ids \cap Stored(p)
      [] fetch[p] = "bare"   -> ids
      [] fetch[p] = "raises" -> {}
Fresh(ps, i, ids, fetch) ==
    Fetched(ps[i], ids, fetch) \ UNION {Fetched(ps[j], ids, fetch) : j \in 1 .. i - 1}

\* _fetch_to_entity: a bare item is no miss, but an entity without an id
FetchedEntity(p, key, out) ==
    IF key \in Stored(p) THEN Shown(p, key, {}, out) ELSE [id |-> Nameless, shows |-> {}]

GetRows(ps, ids, fetch, out) ==
    FlattenSeq([i \in DOMAIN ps |->
        LET order == Ascending(Fresh(ps, i, ids, fetch))
        IN  [n \in DOMAIN order |-> FetchedEntity(ps[i], order[n], out)]])

\* get: partition after partition, the ids that no earlier one yielded, with all
\* their columns.  An Int64 key cannot be made of "None", which get does not catch.
Get(ps, ids, fetch, pkType, out) ==
    IF pkType = "Int64" /\ \E i \in DOMAIN ps : ~(Fresh(ps, i, ids, fetch) \subseteq Stored(ps[i]))
    THEN [raised |-> TRUE, rows |-> <<>>]
    ELSE [raised |-> FALSE, rows |-> GetRows(ps, ids, fetch, out)]

-----------------------------------------------------------------------------
(* hybrid_search: one search after another, each waiting for a refresh, and  *)
(* the fusion of the lists.  Scores are scaled to integers: a common         *)
(* denominator of all 1/(k+rank), and of all score/max.                      *)
SubSearch ==
    \E q \in Queries :
       /\ indexOps + Len(ranked) < MaxOps
       /\ ranked' = Append(ranked, Search(parts, q, MaxLimit, {}))
       /\ UNCHANGED <<schemaVars, rowVars, faults>>
HybridDone ==
    /\ ranked # <<>>
    /\ ranked' = <<>>
    /\ UNCHANGED <<schemaVars, rowVars, faults>>

Ids(list) == {list[i].id : i \in DOMAIN list}
RankIn(list, id) == CHOOSE i \in DOMAIN list : list[i].id = id
Product(f) == FoldFunction(LAMBDA a, b : a * b, 1, f)

AllIds(lists) == UNION {Ids(lists[n]) : n \in DOMAIN lists}

\* (mutant) sorted without reverse
Fused_Ascending(lists, total) ==
    LET met == Deduped(FlattenSeq(lists))
        scored == [i \in DOMAIN met |-> [id |-> met[i].id, score |-> total[met[i].id]]]
    IN StableSort(scored, FALSE)

\* the ids in the order they were first met, by descending fused score
Fused(lists, total) ==
    LET met == Deduped(FlattenSeq(lists))
        scored == [i \in DOMAIN met |-> [id |-> met[i].id, score |-> total[met[i].id]]]
    IN StableSort(scored, TRUE)

RrfUnit == Product([r \in 1 .. MaxLimit |-> RrfK + r])
RrfFuse(lists) ==
    LET part(n, id) == IF id \in Ids(lists[n]) THEN RrfUnit \div (RrfK + RankIn(lists[n], id)) ELSE 0
    IN Fused(lists, [id \in AllIds(lists) |-> SumFunction([n \in DOMAIN lists |-> part(n, id)])])

\* zip stops at the shorter of weights and lists; max is 1 where all scores are 0
Magnitude(x) == IF x < 0 THEN -x ELSE x
Largest(list) ==
    LET m == Max({0} \cup {Magnitude(list[i].score) : i \in DOMAIN list}) IN IF m = 0 THEN 1 ELSE m
WeightedFuse(lists, weights) ==
    LET n == IF Len(weights) < Len(lists) THEN Len(weights) ELSE Len(lists)
        zipped == SubSeq(lists, 1, n)
        others(i) == Product([j \in (1 .. n) \ {i} |-> Largest(lists[j])])
        part(i, id) == IF id \in Ids(lists[i])
                       THEN weights[i] * lists[i][RankIn(lists[i], id)].score * others(i) ELSE 0
    IN Fused(zipped, [id \in AllIds(zipped) |-> SumFunction([i \in 1 .. n |-> part(i, id)])])

-----------------------------------------------------------------------------
Next == \/ Write \/ Delete
        \/ CreateIndex \/ ApplyIndex \/ DropIndex
        \/ CreatePartition \/ DropPartition
        \/ SubSearch \/ HybridDone

Spec == Init /\ [][Next]_vars

-----------------------------------------------------------------------------
(* Properties *)
Limits == 1 .. MaxLimit
Closer(metric, a, b) == IF Descending(metric) THEN a > b ELSE a < b
Ahead(list, x, y) == /\ x \in Ids(list) /\ y \in Ids(list)
                     /\ RankIn(list, x) < RankIn(list, y)

\* The catalog's index documents and zvec agree
AtRest == settled /\ creates = {}
\* The key column cannot come back in the place of the document's id
KeySafe(out) == ~legacy \/ Columns(out) # {}

\* Once no index creation is under way, every partition, those created
\* meanwhile included, is ranked by zvec under the metric by which search sorts
\* what it merges -- unless an index was dropped, an alteration was refused or
\* creations overlapped since the last that reached all (index.py create, drop).
EngineFollowsCatalog == AtRest => \A p \in ToSet(parts) : engine[p] = SortMetric

\* A search returns the `limit` nearest of all keys in the partitions it was
\* asked about, nearest first and each once at its best score, although every
\* partition contributes its own first hits only and a key may be in several.
SearchFindsNearest ==
    AtRest =>
    \A ps \in {parts} \cup {<<p>> : p \in ToSet(parts)}, q \in Queries, limit \in Limits,
       out \in {o \in {{}, {Scalar}} : KeySafe(o)} :
       LET r == Search(ps, q, limit, out)
           keys == UNION {Stored(p) : p \in ToSet(ps)}
           scores(k) == {Score(SortMetric, q, store[p][k].at) : p \in {x \in ToSet(ps) : k \in Stored(x)}}
           best(k) == CHOOSE s \in scores(k) : \A t \in scores(k) : ~Closer(SortMetric, t, s)
           n == Cardinality(keys)
       IN /\ Len(r) = (IF n < limit THEN n ELSE limit)
          /\ \A i, j \in DOMAIN r : i < j => /\ r[i].id # r[j].id
                                             /\ ~Closer(SortMetric, r[j].score, r[i].score)
          /\ \A i \in DOMAIN r : /\ r[i].id \in keys /\ r[i].score = best(r[i].id)
                                 /\ \A k \in keys \ Ids(r) : ~Closer(SortMetric, best(k), r[i].score)

\* A get returns every key it was asked for that some readable partition has,
\* once, with the fields it was asked for, and under its own key where no key
\* column was added later -- if zvec answers plainly for an id that it has not.
\* If it answers with a bare item (vector.py:582), a get by Int64 keys fails or is
\* as complete as that; a get by VarChar keys may miss a key, but only one behind
\* such a partition.
GetFindsEveryKey ==
    \A g \in Gets, fetch \in [ToSet(parts) -> FetchKinds], pkType \in PkTypes :
       LET r == Get(parts, g.ids, fetch, pkType, g.out)
           good == {p \in ToSet(parts) : fetch[p] # "raises"}
           plain == \A p \in good : fetch[p] = "plain"
           stored == g.ids \cap UNION {Stored(p) : p \in good}
       IN /\ r.raised => pkType = "Int64" /\ ~plain
          /\ ~r.raised /\ (plain \/ pkType = "Int64") =>
                /\ Len(r.rows) = Cardinality(stored)
                /\ ~legacy => Ids(r.rows) = stored
                /\ \A i \in DOMAIN r.rows : \E p \in good, k \in stored :
                      /\ k \in Stored(p) /\ r.rows[i].id \in {k, 0}
                      /\ store[p][k].fields \cap (IF g.out = {} THEN {Scalar, Extra} ELSE g.out) \subseteq r.rows[i].shows
          /\ pkType = "VarChar" =>
                \A i \in DOMAIN parts :
                   fetch[parts[i]] # "raises" /\ (\A j \in 1 .. i - 1 : fetch[parts[j]] # "bare")
                      => g.ids \cap Stored(parts[i]) \subseteq Ids(r.rows)

\* A query without a filter returns every row of every partition, those of
\* a key that is in two partitions included, or exactly `limit` of them.
QueryReturnsEveryRow ==
    \A limit \in {1, Cardinality(Keys), Cardinality(PartNames \X Keys)} :
       LET r == Query(parts, limit, {})
           stored == {pk \in ToSet(parts) \X Keys : pk[2] \in Stored(pk[1])}
       IN /\ Len(r) = (IF Cardinality(stored) < limit THEN Cardinality(stored) ELSE limit)
          /\ \A k \in Keys : Cardinality({i \in DOMAIN r : r[i].id = k})
                                <= Cardinality({pk \in stored : pk[2] = k})

\* Fusion keeps every hit once, and ranks a hit that is ahead of another in
\* every list with the other ahead of it -- by weights, if the lists' scores
\* descend: a list of distances is fused upside down.
FusionKeepsAgreement ==
    LET rrf == RrfFuse(ranked)
        similar == \A n \in DOMAIN ranked : \A i, j \in DOMAIN ranked[n] :
                      i < j => ranked[n][i].score >= ranked[n][j].score
        all == AllIds(ranked)
        complete(f, lists) == Len(f) = Cardinality(Ids(f)) /\ Ids(f) = AllIds(lists)
    IN /\ complete(rrf, ranked)
       /\ \A x, y \in all :
             (\A n \in DOMAIN ranked : y \in Ids(ranked[n]) => Ahead(ranked[n], x, y)) => ~Ahead(rrf, y, x)
       /\ \A weights \in UNION {[1 .. n -> 1 .. 2] : n \in 0 .. MaxOps} :
             LET w == WeightedFuse(ranked, weights)
                 zipped == {n \in DOMAIN ranked : n <= Len(weights)}
             IN /\ complete(w, [n \in zipped |-> ranked[n]])
                /\ similar => \A x, y \in Ids(w) : (\A n \in zipped : Ahead(ranked[n], x, y)) => ~Ahead(w, y, x)

=============================================================================
