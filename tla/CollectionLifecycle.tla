------------------------ MODULE CollectionLifecycle ------------------------
(***************************************************************************)
(* Creation, removal and renaming of collections, partitions, indexes and  *)
(* aliases in a database: a handler of the writer is a sequence of durable *)
(* steps on documents and directories, with the message to the reader as   *)
(* its last one.  The reader reads the documents and opens the directories *)
(* in between.                                                             *)
(*                                                                         *)
(* Collections and directories are told apart by the number of the request *)
(* that created them.  The database is not the default one, which can      *)
(* neither be created nor dropped.                                         *)
(***************************************************************************)
EXTENDS Integers, Sequences, FiniteSets

CONSTANTS Names,       \* names of collections and aliases
          Parts,       \* partition names
          Default,     \* the partition every collection has
          Indexes,     \* index names
          Star,        \* the fence key of a whole collection
          None,        \* no collection, no directory, no alias, no load state
          AutoLoad,    \* settings.auto_load
          MaxRequests, \* how many requests the writer may get
          FaultKinds,  \* the faults that may happen
          MaxFaults    \* how many faults may happen

ASSUME LifecycleAssumption ==
    /\ Default \in Parts /\ Star \notin Parts
    /\ AutoLoad \in BOOLEAN /\ MaxRequests \in Nat /\ MaxFaults \in Nat
    /\ None \notin Names \cup (1 .. MaxRequests) /\ None \notin BOOLEAN

VARIABLES
    cat,     \* the documents: database, collections, partitions, indexes,
             \* aliases, load states
    dir,     \* dir[n][p]: the directory of partition p of collection n
    todo,    \* what is left of the handler the writer is in
    net,     \* calls to the reader that are under way
    rh,      \* rh[n][p]: the directory the reader's handle of n/p is open on
    fenced,  \* the reader's _fenced
    visit,   \* names the refresh loop has listed and not visited yet
    clock,   \* number of requests so far
    home,    \* history: the collection a directory was created for
    torn,    \* history: a rename stopped between directory and documents
    defined, \* history: the indexes of each collection that were not dropped
    faults   \* number of faults so far

disk   == <<cat, dir, home>>
writer == <<todo, clock, torn, defined>>
reader == <<rh, fenced, visit>>
vars   == <<disk, writer, reader, net, faults>>

Ids    == 1 .. MaxRequests
Exists(n) == cat.coll[n] # None
NoDirs == [p \in Parts |-> None]

Init ==
    /\ cat = [db    |-> TRUE,
              coll  |-> [n \in Names |-> None], part  |-> [n \in Names |-> {}],
              alias |-> [n \in Names |-> None], index |-> [n \in Names |-> {}],
              load  |-> [n \in Names |-> None]]
    /\ dir = [n \in Names |-> NoDirs] /\ rh = [n \in Names |-> NoDirs]
    /\ todo = <<>> /\ net = {} /\ fenced = {} /\ visit = {}
    /\ clock = 0 /\ home = [i \in Ids |-> None] /\ torn = FALSE /\ defined = {}
    /\ faults = 0

Fault(kind) == kind \in FaultKinds /\ faults < MaxFaults /\ faults' = faults + 1

Resolve(x) == IF ~Exists(x) /\ cat.alias[x] # None THEN cat.alias[x] ELSE x

ListPartitions(n) == cat.part[n] \cup (IF Exists(n) THEN {Default} ELSE {})

AliasesOf(n) == {a \in Names : cat.alias[a] = n}

-----------------------------------------------------------------------------
(* Steps of the handlers, each durable when it has happened                *)

PutDb(v)         == [do |-> "db", val |-> v]
PutColl(n, id)   == [do |-> "put", doc |-> "coll",  name |-> n, val |-> id]
PutLoad(n, v)    == [do |-> "put", doc |-> "load",  name |-> n, val |-> v]
PutAlias(a, n)   == [do |-> "put", doc |-> "alias", name |-> a, val |-> n]
MakeDir(n, p, c) == [do |-> "mkdir", name |-> n, val |-> p, for |-> c]
RemoveDirs(M, S) == [do |-> "rmdir", val |-> M \X S]
MoveDir(o, n)    == [do |-> "move",  name |-> o, val |-> n]
Tell(kind, n, S) == [do |-> "tell",  name |-> n, val |-> S, kind |-> kind]

\* A loop over a set: one step for each element, in some order.
ForEach(step)    == IF step.val = {} THEN <<>> ELSE <<step>>
PutParts(n, S)   == ForEach([do |-> "add", doc |-> "part",  name |-> n, val |-> S])
PutIndexes(n, S) == ForEach([do |-> "add", doc |-> "index", name |-> n, val |-> S])
DelParts(n, S)   == ForEach([do |-> "del", doc |-> "part",  name |-> n, val |-> S])
DelIndexes(n, S) == ForEach([do |-> "del", doc |-> "index", name |-> n, val |-> S])
DelAliases(S)    == ForEach([do |-> "unalias", val |-> S])

\* catalog.delete_collection_meta
DelMeta_KeepAliases(n) ==                   \* mutant: aliases stay
    <<PutColl(n, None)>> \o DelParts(n, ListPartitions(n))
        \o DelIndexes(n, cat.index[n]) \o <<PutLoad(n, None)>>
DelMeta(n) ==
    <<PutColl(n, None)>> \o DelParts(n, ListPartitions(n))
        \o DelIndexes(n, cat.index[n]) \o DelAliases(AliasesOf(n)) \o <<PutLoad(n, None)>>

\* The handlers.  CollectionService ...
DropDatabaseSteps == <<PutDb(FALSE), RemoveDirs(Names, Parts)>>

CreateSteps(n, id) ==
    <<PutColl(n, id)>> \o PutParts(n, {Default})
        \o <<MakeDir(n, Default, id), PutLoad(n, FALSE)>>

DropSteps_KeepDirs(n) ==                    \* mutant: only the documents go
    DelMeta(n) \o <<Tell("close", n, {})>>
DropSteps_DocsFirst(n) ==                   \* mutant: directories go last
    DelMeta(n) \o <<RemoveDirs({n}, Parts), Tell("close", n, {})>>
DropSteps(n) ==
    <<RemoveDirs({n}, Parts)>> \o DelMeta(n) \o <<Tell("close", n, {})>>

RenameSteps_NoParts(o, n) ==                \* mutant: partitions not rewritten
    <<MoveDir(o, n)>> \o DelMeta(o) \o <<PutColl(n, cat.coll[o])>>
        \o PutIndexes(n, cat.index[o]) \o <<PutLoad(n, cat.load[o] = TRUE)>>
RenameSteps_NoIndexes(o, n) ==              \* mutant: indexes not rewritten
    <<MoveDir(o, n)>> \o DelMeta(o) \o <<PutColl(n, cat.coll[o])>>
        \o PutParts(n, ListPartitions(o)) \o <<PutLoad(n, cat.load[o] = TRUE)>>
RenameSteps(o, n) ==
    <<MoveDir(o, n)>> \o DelMeta(o) \o <<PutColl(n, cat.coll[o])>>
        \o PutParts(n, ListPartitions(o)) \o PutIndexes(n, cat.index[o])
        \o <<PutLoad(n, cat.load[o] = TRUE)>>

\* ... and PartitionService.
CreatePartSteps(n, p) ==
    PutParts(n, {p}) \o <<MakeDir(n, p, cat.coll[n])>>

DropPartSteps(n, p) ==
    <<RemoveDirs({n}, {p})>> \o DelParts(n, {p}) \o <<Tell("close", n, {p})>>

-----------------------------------------------------------------------------
(* The writer                                                              *)

\* No handler awaits before its last step, so a request begins when no other
\* one has steps left.
Begin(steps) ==
    /\ todo = <<>> /\ clock < MaxRequests /\ clock' = clock + 1
    /\ todo' = steps
    /\ UNCHANGED <<disk, torn, reader, net, faults>>

Request(steps) == Begin(steps) /\ UNCHANGED defined

CreateDatabase == ~cat.db /\ Request(<<PutDb(TRUE)>>)

DropDatabase ==
    /\ cat.db /\ \A n \in Names : ~Exists(n)
    /\ Request(DropDatabaseSteps)

CreateCollection(n) ==
    cat.db /\ ~Exists(n) /\ Request(CreateSteps(n, clock + 1))

DropCollection(x) ==
    LET n == Resolve(x) IN Exists(n) /\ Request(DropSteps(n))

RenameCollection(o, n) ==
    Exists(o) /\ ~Exists(n) /\ Request(RenameSteps(o, n))

CreatePartition(x, p) ==
    LET n == Resolve(x) IN
    p # Default /\ Exists(n) /\ p \notin cat.part[n] /\ Request(CreatePartSteps(n, p))

DropPartition(x, p) ==
    LET n == Resolve(x) IN
    p # Default /\ p \in cat.part[n] /\ Request(DropPartSteps(n, p))

Load(x) ==
    LET n == Resolve(x) IN
    Exists(n) /\ Request(<<PutLoad(n, TRUE), Tell("open", n, ListPartitions(n))>>)

Release(x) ==
    LET n == Resolve(x) IN
    Exists(n) /\ Request(<<PutLoad(n, FALSE), Tell("close", n, {})>>)

CreateAlias(a, n) ==
    /\ Exists(n) /\ cat.alias[a] = None /\ ~Exists(a)
    /\ Request(<<PutAlias(a, n)>>)

AlterAlias(a, n) ==
    /\ Exists(n) /\ cat.alias[a] # None
    /\ Request(<<PutAlias(a, n)>>)

DropAlias(a) == cat.alias[a] # None /\ Request(DelAliases({a}))

\* What follows, for a new index, is a write of every partition
\* (FenceProtocol's index job).
CreateIndex(x, i) ==
    LET n == Resolve(x) IN
    /\ Exists(n) /\ Begin(PutIndexes(n, {i}))
    /\ defined' = defined \cup {<<cat.coll[n], i>>}

DropIndex(x, i) ==
    LET n == Resolve(x) IN
    /\ i \in cat.index[n] /\ Begin(DelIndexes(n, {i}))
    /\ defined' = defined \ {<<cat.coll[n], i>>}

\* The rest of the handler when all of a step but S is done.
Left(S) ==
    IF S = {} THEN Tail(todo) ELSE <<[Head(todo) EXCEPT !.val = S]>> \o Tail(todo)

\* One document is written, or deleted.
StepDocument(s) ==
    /\ UNCHANGED <<dir, home, net>>
    /\ \/ s.do = "db" /\ cat' = [cat EXCEPT !.db = s.val] /\ todo' = Tail(todo)
       \/ /\ s.do = "put"
          /\ cat' = [cat EXCEPT ![s.doc][s.name] = s.val]
          /\ todo' = Tail(todo)
       \/ /\ s.do \in {"add", "del", "unalias"}
          /\ \E x \in s.val :
                /\ cat' = CASE s.do = "add" -> [cat EXCEPT ![s.doc][s.name] = @ \cup {x}]
                            [] s.do = "del" -> [cat EXCEPT ![s.doc][s.name] = @ \ {x}]
                            [] s.do = "unalias" -> [cat EXCEPT !.alias[x] = None]
                /\ todo' = Left(s.val \ {x})

\* One directory is created, removed or renamed; if that is impossible, the
\* handler raises, and what it did stays.
Present(D) == {d \in D : dir[d[1]][d[2]] # None}

StepDirectory(s) ==
    /\ UNCHANGED <<cat, net>>
    /\ \/ /\ s.do = "mkdir"
          /\ IF dir[s.name][s.val] # None
             THEN todo' = <<>> /\ UNCHANGED <<dir, home>>
             ELSE /\ dir' = [dir EXCEPT ![s.name][s.val] = clock]
                  /\ home' = [home EXCEPT ![clock] = s.for]
                  /\ todo' = Tail(todo)
       \/ /\ s.do = "rmdir" /\ UNCHANGED home
          /\ IF Present(s.val) = {}
             THEN todo' = Tail(todo) /\ UNCHANGED dir
             ELSE \E d \in Present(s.val) :
                     /\ dir' = [dir EXCEPT ![d[1]][d[2]] = None]
                     /\ todo' = Left(s.val \ {d})
       \/ /\ s.do = "move" /\ UNCHANGED home
          /\ \/ /\ dir[s.val] = NoDirs
                /\ dir' = [dir EXCEPT ![s.val] = dir[s.name], ![s.name] = NoDirs]
                /\ todo' = Tail(todo)
             \/ /\ dir[s.val] # NoDirs \/ dir[s.name] = NoDirs
                /\ todo' = <<>> /\ UNCHANGED dir

StepTell(s) ==
    /\ s.do = "tell"
    /\ net' = net \cup {[kind |-> s.kind, name |-> s.name, parts |-> s.val, of |-> clock]}
    /\ todo' = Tail(todo)
    /\ UNCHANGED disk

Step ==
    /\ todo # <<>>
    /\ LET s == Head(todo) IN StepDocument(s) \/ StepDirectory(s) \/ StepTell(s)
    /\ UNCHANGED <<clock, torn, defined, reader, faults>>

\* The directory is renamed and the collection's document not written yet.
HalfRenamed ==
    /\ Head(todo).do # "move"
    /\ \E i \in DOMAIN todo :
          todo[i].do = "put" /\ todo[i].doc = "coll"
          /\ todo[i].val \notin {None, clock}

\* The writer dies, or a step raises: what is left of the handler is not done.
Interrupted ==
    /\ todo # <<>> /\ Fault("crash") /\ todo' = <<>>
    /\ torn' = (torn \/ HalfRenamed)
    /\ UNCHANGED <<disk, clock, defined, reader, net>>

-----------------------------------------------------------------------------
(* The reader.  The refresh loop holds coord_lock while it visits.         *)

Fenced(n, p) == <<n, p>> \in fenced \/ <<n, Star>> \in fenced

\* force_reopen: a cached handle is not good enough.
Reopened_Cached(n, p) == IF rh[n][p] # None THEN rh[n][p] ELSE dir[n][p]   \* mutant
Reopened(n, p) == dir[n][p]

\* /internal/open: the first partition without a directory ends it.
ServeOpen(m) ==
    /\ m \in net /\ m.kind = "open" /\ visit = {}
    /\ fenced' = fenced \ ({m.name} \X (m.parts \cup {Star}))
    /\ LET there == {p \in m.parts : dir[m.name][p] # None}
       IN  \E S \in SUBSET there :
          /\ S = m.parts \/ there # m.parts
          /\ rh' = [rh EXCEPT ![m.name] =
                      [p \in Parts |-> IF p \in S THEN Reopened(m.name, p) ELSE @[p]]]
    /\ net' = net \ {m}
    /\ UNCHANGED <<disk, writer, visit, faults>>

FenceKeys(m) == {m.name} \X (IF m.parts = {} THEN {Star} ELSE m.parts)

\* /internal/close; the writer's close calls of this module all fence.
ServeClose(m) ==
    /\ m \in net /\ m.kind = "close" /\ visit = {}
    /\ fenced' = fenced \cup FenceKeys(m)
    /\ rh' = [rh EXCEPT ![m.name] =
                [p \in Parts |-> IF m.parts = {} \/ p \in m.parts THEN None ELSE @[p]]]
    /\ net' = net \ {m}
    /\ UNCHANGED <<disk, writer, visit, faults>>

RefreshLists ==
    /\ visit = {} /\ visit' = {n \in Names : Exists(n)}
    /\ UNCHANGED <<disk, writer, rh, fenced, net, faults>>

\* A name may be gone by the time its turn comes.
RefreshVisits(n) ==
    /\ n \in visit /\ visit' = visit \ {n}
    /\ LET listed == ListPartitions(n)
           parts  == IF listed = {} THEN {Default} ELSE listed
       IN  rh' = [rh EXCEPT ![n] =
                    IF cat.load[n] # TRUE /\ ~AutoLoad THEN NoDirs
                    ELSE [p \in Parts |-> IF p \in parts /\ ~Fenced(n, p)
                                          THEN Reopened(n, p) ELSE @[p]]]
    /\ UNCHANGED <<disk, writer, fenced, net, faults>>

\* A search opens what is not open, or reopens if it is to refresh.
Search(x, p) ==
    LET n == Resolve(x) IN
    /\ Exists(n) /\ (cat.load[n] = TRUE \/ AutoLoad)
    /\ \/ rh[n][p] = None /\ ~Fenced(n, p) /\ rh' = [rh EXCEPT ![n][p] = dir[n][p]]
       \/ rh' = [rh EXCEPT ![n][p] = IF Fenced(n, p) THEN None ELSE dir[n][p]]
    /\ UNCHANGED <<disk, writer, fenced, visit, net, faults>>

\* get_stats, of a partition or of one after another of a collection, asks for
\* no load and opens what is not open; a partition's does not even look for the
\* collection's document.
GetStats(x, p) ==
    LET n == Resolve(x) IN
    /\ rh[n][p] = None /\ dir[n][p] # None /\ ~Fenced(n, p)
    /\ rh' = [rh EXCEPT ![n][p] = dir[n][p]]
    /\ UNCHANGED <<disk, writer, fenced, visit, net, faults>>

ReaderRestarts ==
    /\ Fault("readerCrash")
    /\ rh' = [n \in Names |-> NoDirs] /\ fenced' = {} /\ visit' = {}
    /\ UNCHANGED <<disk, writer, net>>

Lose(m) ==
    /\ m \in net /\ Fault("loss") /\ net' = net \ {m}
    /\ UNCHANGED <<disk, writer, reader>>

Next ==
    \/ \E n \in Names : CreateCollection(n) \/ DropCollection(n) \/ Load(n) \/ Release(n)
    \/ \E n \in Names, p \in Parts : CreatePartition(n, p) \/ DropPartition(n, p)
    \/ \E o, n \in Names : RenameCollection(o, n) \/ CreateAlias(o, n) \/ AlterAlias(o, n)
    \/ \E a \in Names : DropAlias(a)
    \/ \E n \in Names, i \in Indexes : CreateIndex(n, i) \/ DropIndex(n, i)
    \/ CreateDatabase \/ DropDatabase
    \/ Step \/ Interrupted
    \/ \E m \in net : ServeOpen(m) \/ ServeClose(m) \/ Lose(m)
    \/ RefreshLists \/ \E n \in Names : RefreshVisits(n)
    \/ \E n \in Names, p \in Parts : Search(n, p) \/ GetStats(n, p)
    \/ ReaderRestarts

Spec == Init /\ [][Next]_vars

\* The refresh loop is a task of the reader's event loop.
FairSpec == Spec /\ WF_vars(RefreshLists) /\ \A n \in Names : WF_vars(RefreshVisits(n))

-----------------------------------------------------------------------------
(* Properties                                                              *)

\* Between requests, and if none was interrupted, the documents describe the
\* directories: a partition is listed if and only if it has one, made for its
\* collection; load states, indexes and aliases belong to a collection.
CatalogMatchesDisk ==
    (todo = <<>> /\ faults = 0) =>
        \A n \in Names :
            /\ \A p \in Parts :
                  dir[n][p] # None <=> (Exists(n) /\ p \in cat.part[n])
            /\ \A p \in Parts : dir[n][p] # None => home[dir[n][p]] = cat.coll[n]
            /\ Exists(n) <=> cat.load[n] # None
            /\ ~Exists(n) => cat.part[n] = {} /\ cat.index[n] = {} /\ AliasesOf(n) = {}

\* Whatever was interrupted before, but for a rename, a collection never shows
\* a directory that was made for another one.
NoForeignDirectory ==
    ~torn => \A n \in Names : \A p \in ListPartitions(n) :
                Exists(n) /\ dir[n][p] # None => home[dir[n][p]] = cat.coll[n]

\* Dropping a collection leaves nothing of it, also when what made it was
\* interrupted (DESIGN 8.4: "close handles, delete directories and the meta,
\* index, alias and load documents").
DropLeavesNothing ==
    \A n \in Names :
        (todo = <<Tell("close", n, {})>> /\ ~Exists(n)) =>
            /\ dir[n] = NoDirs /\ cat.part[n] = {}
            /\ cat.load[n] = None /\ cat.index[n] = {} /\ AliasesOf(n) = {}

\* A collection has the indexes that were created for it and not dropped,
\* under whatever names it and they were used (rename_collection).
IndexesFollowCollection ==
    (todo = <<>> /\ faults = 0) =>
        \A n \in Names : Exists(n) =>
            cat.index[n] = {i \in Indexes : <<cat.coll[n], i>> \in defined}

\* A collection's document is written before and deleted after its directories:
\* whatever was interrupted, but for a rename, no directory stays without a
\* collection, where no request would ever remove it and it would keep the name
\* from being used again.
NoOrphanDirectory ==
    (todo = <<>> /\ ~torn) => \A n \in Names : dir[n] # NoDirs => Exists(n)

\* The reader's handle of a partition that stays is in the end of no directory
\* but its own, if it is open at all, however often the name was dropped, created
\* and renamed before, and whatever calls were lost.
HandlesCatchUp ==
    \A n \in Names, p \in Parts :
        <>[](Exists(n) /\ p \in cat.part[n]) => <>[](rh[n][p] \in {None, dir[n][p]})

\* What the writer has the reader close by its name, so that it can lock the
\* directory, does not stay open there under another name
\* (with_reader_released, the refresh loop).
LockFollowsName ==
    []<>(\A m, n \in Names : \A p, q \in Parts :
            m # n /\ Exists(n) /\ dir[n][p] # None => rh[m][q] # dir[n][p])
=============================================================================
