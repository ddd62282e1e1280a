-------------------------- MODULE CollectionManager --------------------------
(***************************************************************************)
(* The two handle caches (one CollectionManager per process) over the zvec *)
(* partition directories that the writer and the reader share.             *)
(*                                                                         *)
(* One collection is modelled; a partition p stands for the cache key      *)
(* "db/coll/p".  The engine (zvec) is external and is modelled as          *)
(* collection_mgr.py relies on it: a read-write open takes an exclusive    *)
(* lock, a read-only open a shared one, the lock lasts until the last      *)
(* Python reference to the handle is dropped, a write leaves a WAL file    *)
(* that a successful flush removes, and a handle shows the partition as it *)
(* was when it was opened.                                                 *)
(***************************************************************************)
EXTENDS Integers, FiniteSets

CONSTANTS Parts,     \* the partitions of the collection
          Requests,  \* the requests the writer serves
          Star,      \* the collection-wide fence key "db/coll/*"
          Cache      \* the reference the writer's _handles dictionary holds

ASSUME CacheAssumption == Star \notin Parts /\ Cache \notin Requests

VARIABLES
    refs,    \* refs[p]: who references the writer's read-write handle of p
    wal,     \* wal[p]: a *.wal file is left under the directory of p
    ver,     \* ver[p]: number of changes made to the files of p
    rh,      \* rh[p]: version the reader's handle of p shows, or Closed
    fenced   \* the reader's _fenced set

storeVars == <<refs, wal, ver, rh, fenced>>

Closed == -1

StoreTypeOK ==
    /\ refs   \in [Parts -> SUBSET (Requests \cup {Cache})]
    /\ wal    \in [Parts -> BOOLEAN]
    /\ ver    \in [Parts -> Nat]
    /\ rh     \in [Parts -> Nat \cup {Closed}]
    /\ fenced \in SUBSET (Parts \cup {Star})

StoreInit ==
    /\ refs   = [p \in Parts |-> {}]
    /\ wal    = [p \in Parts |-> FALSE]
    /\ ver    = [p \in Parts |-> 0]
    /\ rh     = [p \in Parts |-> Closed]
    /\ fenced = {}

-----------------------------------------------------------------------------
(* The fence (reader side)                                                 *)

IsFenced(p) == p \in fenced \/ Star \in fenced

\* An empty partition list means the whole collection.
Covered(S) == IF S = {} THEN Parts ELSE S

FenceKeys(S) == IF S = {} THEN {Star} ELSE S

\* Unfencing anything also drops the collection-wide key.
UnfencedKeys_All(S) == {}                              \* mutant: drops every key
UnfencedKeys_KeepStar(S) == fenced \ Covered(S)        \* mutant: keeps "db/coll/*"
UnfencedKeys(S) == fenced \ (Covered(S) \cup {Star})

-----------------------------------------------------------------------------
(* Reader handles                                                          *)

\* The cache h after the handles of S are popped and released.
WithClosed(h, S) == [p \in Parts |-> IF p \in S THEN Closed ELSE h[p]]

\* The cache h after every partition of S is opened anew.
WithOpened(h, S) == [p \in Parts |-> IF p \in S THEN ver[p] ELSE h[p]]

\* No exclusive lock is held on p: the shared lock can be taken.
SharedLockFree(p) == refs[p] = {}

MayOpenRO_NoFence(p, fence) == ~wal[p] /\ SharedLockFree(p)  \* mutant: no fence check
MayOpenRO_NoWal(p, fence) ==                                 \* mutant: no WAL check
    {p, Star} \cap fence = {} /\ SharedLockFree(p)
\* open_partition of the reader succeeds for p when fence is the fence set.
MayOpenRO(p, fence) ==
    /\ {p, Star} \cap fence = {}
    /\ ~wal[p]
    /\ SharedLockFree(p)

-----------------------------------------------------------------------------
(* Writer handles                                                          *)

\* A new read-write handle of p can be opened: nobody else has p open.
MayOpenRW(p) == refs[p] = {} /\ rh[p] = Closed

\* flush_partition succeeds for p: in place when cached, else open-flush-close.
MayFlush(p) == Cache \in refs[p] \/ MayOpenRW(p)

\* The WAL files left when S is flushed but the flushes of Failed fail.
WalAfterFlush(S, Failed) == [p \in Parts |-> wal[p] /\ p \notin S \ Failed]

RefsAfterClose_NoPop(r, p) == refs[p] \ {r}   \* mutant: the entry stays in _handles
\* The references left when r closes p: its own and the cache's go.
RefsAfterClose(r, p) == refs[p] \ {r, Cache}

\* The references left when the cache entries of S are popped.
RefsAfterPop(S) == [p \in Parts |-> IF p \in S THEN refs[p] \ {Cache} ELSE refs[p]]

\* The partitions of S whose handle is cached.
CachedIn(S) == {p \in S : Cache \in refs[p]}

=============================================================================
