-------------------------- MODULE OpenApiCacheProofs --------------------------
(***************************************************************************)
(* Proofs about OpenApiCache for any callers, any number of attempts,       *)
(* versions and faults.                                                     *)
(***************************************************************************)
EXTENDS OpenApiCache, TLAPS

USE OpenApiAssumption, NoneAssumption
USE DEF Servers, Actors, Versions

\* What fetching relies on besides the types: only the holder of the lock
\* fetches, and before its last attempt it may pause.
Held ==
    \A a \in Actors :
        /\ pc[a] \in {"fetching", "pausing"} => holder = a
        /\ pc[a] = "pausing" => attempt[a] < Retries

\* ... and what it has been sent is no older than what it was called for or
\* what the cache holds, so that a merge never takes the cache back.
Current ==
    /\ cache # NoDocs => \A s \in Servers : cache[s] <= version[s]
    /\ \A a \in Actors, s \in Servers :
          /\ asked[a][s] <= version[s]
          /\ pc[a] = "fetching" /\ got[a][s] # Pending =>
                /\ asked[a][s] <= got[a][s] /\ got[a][s] <= version[s]
                /\ cache # NoDocs => cache[s] <= got[a][s]

IInv == TypeOK /\ Held /\ Current /\ OkIsFresh

-----------------------------------------------------------------------------
\* The gateway starts with nothing cached and a refresh that waits.
LEMMA InitInv == Init => IInv
  <1> SUFFICES ASSUME Init PROVE IInv
    OBVIOUS
  <1>1. TypeOK
    <2>1. version \in [Servers -> Versions] /\ up \in [Servers -> BOOLEAN]
      BY DEF Init
    <2>2. waiters \in Seq(Actors)
      BY DEF Init, GatewayState
    <2>3. /\ cache = NoDocs /\ holder = NoOne /\ booted = FALSE /\ faults \in 0..MaxFaults
          /\ pc \in [Actors -> {"idle", "waiting", "fetching", "pausing"}]
          /\ attempt \in [Actors -> 0..Retries]
          /\ got \in [Actors -> [Servers -> Versions \cup {Pending}]]
          /\ reply \in [Actors -> {"none", "ok", "failed"}]
      BY DEF Init, GatewayState, Nothing
    <2>4. asked \in [Actors -> [Servers -> Versions]]
      BY <2>1 DEF Init
    <2> QED BY <2>1, <2>2, <2>3, <2>4 DEF TypeOK
  <1>2. Held
    BY DEF Init, GatewayState, Held
  <1>3. Current
    BY DEF Init, GatewayState, Current
  <1>4. OkIsFresh
    BY DEF Init, GatewayState, OkIsFresh
  <1> QED BY <1>1, <1>2, <1>3, <1>4 DEF IInv

\* A response is noted for its request alone.
LEMMA Fetch ==
    ASSUME got \in [Actors -> [Servers -> Versions \cup {Pending}]], version \in [Servers -> Versions],
           NEW a \in Actors, NEW s \in Servers, got' = [got EXCEPT ![a][s] = version[s]]
    PROVE  /\ got' \in [Actors -> [Servers -> Versions \cup {Pending}]]
           /\ \A b \in Actors, t \in Servers :
                 got'[b][t] = IF b = a /\ t = s THEN version[s] ELSE got[b][t]
  <1> DEFINE new == [got[a] EXCEPT ![s] = version[s]]
  <1>1. got' = [got EXCEPT ![a] = new]
    OBVIOUS
  <1>2. /\ new \in [Servers -> Versions \cup {Pending}]
        /\ \A t \in Servers : new[t] = IF t = s THEN version[s] ELSE got[a][t]
    OBVIOUS
  <1> HIDE DEF new
  <1> QED BY <1>1, <1>2

\* Every step keeps the types.
LEMMA TypesKept == TypeOK /\ Held /\ [Next]_vars => TypeOK'
  <1> SUFFICES ASSUME TypeOK, Held, [Next]_vars PROVE TypeOK'
    OBVIOUS
  <1> USE DEF TypeOK, servers
  <1>1. ASSUME NEW a \in Actors, Ask(a) PROVE TypeOK'
    BY <1>1 DEF Ask
  <1>2. ASSUME NEW a \in Actors, Acquire(a) PROVE TypeOK'
    BY <1>2 DEF Acquire, Fresh, Nothing
  <1>3. ASSUME NEW a \in Actors, Retry(a) PROVE TypeOK'
    BY <1>3 DEF Retry, Fresh, Nothing, Held
  <1>4. ASSUME NEW a \in Actors, Merge(a) PROVE TypeOK'
    <2>1. got[a] \in [Servers -> Versions]
      BY <1>4 DEF Merge
    <2> QED BY <1>4, <2>1 DEF Merge, Return
  <1>5. ASSUME NEW a \in Actors, NEW s \in Servers, Fetched(a, s) PROVE TypeOK'
    <2>1. got' \in [Actors -> [Servers -> Versions \cup {Pending}]]
      BY <1>5, Fetch DEF Fetched
    <2> QED BY <1>5, <2>1 DEF Fetched
  <1>6. ASSUME NEW a \in Actors, NEW s \in Servers, FetchFails(a, s) PROVE TypeOK'
    <2>1. faults' \in 0..MaxFaults
      BY <1>6 DEF FetchFails, Unreachable
    <2>2. CASE LastAttempt(attempt[a])
      BY <1>6, <2>1, <2>2 DEF FetchFails, Return
    <2>3. CASE ~LastAttempt(attempt[a])
      BY <1>6, <2>1, <2>3 DEF FetchFails
    <2> QED BY <2>2, <2>3
  <1>7. ASSUME NEW s \in Servers, Stop(s) PROVE TypeOK'
    BY <1>7 DEF Stop
  <1>8. ASSUME NEW s \in Servers, Start(s) PROVE TypeOK'
    BY <1>8 DEF Start
  <1>9. CASE GatewayRestarts
    <2>1. waiters' = <<Loop>> /\ <<Loop>> \in Seq(Actors)
      BY <1>9 DEF GatewayRestarts
    <2>2. /\ pc' \in [Actors -> {"idle", "waiting", "fetching", "pausing"}]
          /\ attempt' \in [Actors -> 0..Retries]
          /\ got' \in [Actors -> [Servers -> Versions \cup {Pending}]]
          /\ reply' \in [Actors -> {"none", "ok", "failed"}]
          /\ asked' \in [Actors -> [Servers -> Versions]]
      BY <1>9 DEF GatewayRestarts, Nothing
    <2>3. faults' \in 0..MaxFaults /\ cache' = NoDocs /\ holder' = NoOne /\ booted' = FALSE
      BY <1>9 DEF GatewayRestarts
    <2> QED BY <1>9, <2>1, <2>2, <2>3 DEF GatewayRestarts
  <1>10. CASE UNCHANGED vars
    BY <1>10 DEF vars
  <1> HIDE DEF TypeOK
  <1> QED BY <1>1, <1>2, <1>3, <1>4, <1>5, <1>6, <1>7, <1>8, <1>9, <1>10
             DEF Next, Refresh, Environment

\* ... and that one refresh has the lock at a time.
LEMMA HeldKept == TypeOK /\ Held /\ [Next]_vars => Held'
  <1> SUFFICES ASSUME TypeOK, Held, [Next]_vars PROVE Held'
    OBVIOUS
  <1> USE DEF TypeOK, Held, servers
  <1>1. ASSUME NEW a \in Actors, Ask(a) PROVE Held'
    BY <1>1 DEF Ask
  <1>2. ASSUME NEW a \in Actors, Acquire(a) PROVE Held'
    BY <1>2 DEF Acquire, LockFree
  <1>3. ASSUME NEW a \in Actors, Retry(a) PROVE Held'
    BY <1>3 DEF Retry
  <1>4. ASSUME NEW a \in Actors, Merge(a) PROVE Held'
    BY <1>4 DEF Merge, Return
  <1>5. ASSUME NEW a \in Actors, NEW s \in Servers, Fetched(a, s) PROVE Held'
    BY <1>5 DEF Fetched
  <1>6. ASSUME NEW a \in Actors, NEW s \in Servers, FetchFails(a, s) PROVE Held'
    BY <1>6 DEF FetchFails, Return, LastAttempt
  <1>7. ASSUME NEW s \in Servers, Stop(s) \/ Start(s) PROVE Held'
    BY <1>7 DEF Stop, Start
  <1>8. CASE GatewayRestarts
    BY <1>8 DEF GatewayRestarts
  <1>9. CASE UNCHANGED vars
    BY <1>9 DEF vars
  <1> QED BY <1>1, <1>2, <1>3, <1>4, <1>5, <1>6, <1>7, <1>8, <1>9
             DEF Next, Refresh, Environment

\* What the servers would send now is never older than what was fetched.
LEMMA CurrentKept == TypeOK /\ Held /\ Current /\ [Next]_vars => Current'
  <1> SUFFICES ASSUME TypeOK, Held, Current, [Next]_vars PROVE Current'
    OBVIOUS
  <1> USE DEF TypeOK, Current, servers
  <1>1. ASSUME NEW a \in Actors, Ask(a) PROVE Current'
    BY <1>1 DEF Ask
  <1>2. ASSUME NEW a \in Actors, Acquire(a) PROVE Current'
    BY <1>2 DEF Acquire, Fresh, Nothing
  <1>3. ASSUME NEW a \in Actors, Retry(a) PROVE Current'
    BY <1>3 DEF Retry, Fresh, Nothing
  <1>4. ASSUME NEW a \in Actors, Merge(a) PROVE Current'
    <2>1. \A b \in Actors : pc'[b] # "fetching"
      BY <1>4 DEF Merge, Return, Held
    <2>2. \A s \in Servers : cache'[s] <= version'[s]
      BY <1>4 DEF Merge
    <2> QED BY <1>4, <2>1, <2>2 DEF Merge
  <1>5. ASSUME NEW a \in Actors, NEW s \in Servers, Fetched(a, s) PROVE Current'
    <2>1. /\ version[s] \in Nat /\ asked[a][s] <= version[s]
          /\ cache # NoDocs => cache[s] <= version[s]
      OBVIOUS
    <2>2. \A b \in Actors, t \in Servers :
             got'[b][t] = IF b = a /\ t = s THEN version[s] ELSE got[b][t]
      BY <1>5, Fetch DEF Fetched
    <2>3. UNCHANGED <<version, cache, pc, asked>>
      BY <1>5 DEF Fetched
    <2>4. SUFFICES ASSUME NEW b \in Actors, NEW t \in Servers, pc[b] = "fetching", got'[b][t] # Pending
                   PROVE  /\ asked[b][t] <= got'[b][t] /\ got'[b][t] <= version[t]
                          /\ cache # NoDocs => cache[t] <= got'[b][t]
      BY <2>3
    <2>5. CASE b = a /\ t = s
      BY <2>1, <2>2, <2>5
    <2>6. CASE ~(b = a /\ t = s)
      <3>1. got'[b][t] = got[b][t]
        BY <2>2, <2>6
      <3> QED BY <2>4, <3>1
    <2> QED BY <2>5, <2>6
  <1>6. ASSUME NEW a \in Actors, NEW s \in Servers, FetchFails(a, s) PROVE Current'
    BY <1>6 DEF FetchFails, Return
  <1>7. ASSUME NEW s \in Servers, Stop(s) PROVE Current'
    BY <1>7 DEF Stop
  <1>8. ASSUME NEW s \in Servers, Start(s) PROVE Current'
    <2>1. \A t \in Servers : version'[t] \in Nat /\ version[t] <= version'[t]
      BY <1>8 DEF Start
    <2> QED BY <1>8, <2>1 DEF Start
  <1>9. CASE GatewayRestarts
    BY <1>9 DEF GatewayRestarts
  <1>10. CASE UNCHANGED vars
    BY <1>10 DEF vars
  <1> QED BY <1>1, <1>2, <1>3, <1>4, <1>5, <1>6, <1>7, <1>8, <1>9, <1>10
             DEF Next, Refresh, Environment

\* The cache changes in a merge and when the gateway restarts, and a merge
\* takes it no way back.
LEMMA CacheStep ==
    ASSUME TypeOK, Held, Current, [Next]_vars, cache # NoDocs, ~GatewayRestarts
    PROVE  Newer(cache, cache')
  <1> USE DEF TypeOK, Newer, servers
  <1>1. ASSUME NEW a \in Actors, Merge(a) PROVE Newer(cache, cache')
    <2>1. got[a] \in [Servers -> Versions]
      BY <1>1 DEF Merge
    <2> QED BY <1>1, <2>1 DEF Merge, Current
  <1>2. CASE cache' = cache
    BY <1>2
  <1>3. \/ cache' = cache \/ \E a \in Actors : Merge(a)
    BY DEF Next, Refresh, Environment, vars, Ask, Acquire, Retry, Fetched, FetchFails, Stop, Start
  <1> QED BY <1>1, <1>2, <1>3

\* An answer stays true: the cache is only replaced by newer documentation.
LEMMA FreshKept == IInv /\ [Next]_vars => OkIsFresh'
  <1> SUFFICES ASSUME IInv, [Next]_vars, NEW a \in Actors, reply'[a] = "ok"
               PROVE  cache' # NoDocs /\ \A s \in Servers : cache'[s] >= asked'[a][s]
    BY DEF OkIsFresh
  <1> USE DEF IInv, TypeOK, servers
  <1>1. ~GatewayRestarts
    BY DEF GatewayRestarts
  <1>2. CASE Merge(a)
    <2>1. got[a] \in [Servers -> Versions]
      BY <1>2 DEF Merge
    <2> QED BY <1>2, <2>1 DEF Merge, Current
  <1>3. CASE ~Merge(a)
    <2>1. reply[a] = "ok" /\ asked'[a] = asked[a]
      BY <1>1, <1>3 DEF Next, Refresh, Environment, vars, Ask, Acquire, Retry, Merge, Return,
                        Fetched, FetchFails, Stop, Start
    <2>2. cache # NoDocs /\ \A s \in Servers : cache[s] >= asked[a][s]
      BY <2>1 DEF OkIsFresh
    <2>3. Newer(cache, cache')
      BY <1>1, <2>2, CacheStep
    <2>4. cache \in [Servers -> Versions]
      BY <2>2
    <2>5. cache' \in [Servers -> Versions]
      <3>1. TypeOK'
        BY TypesKept
      <3> QED BY <3>1, <2>3 DEF Newer
    <2> QED BY <2>1, <2>2, <2>3, <2>4, <2>5 DEF Newer
  <1> QED BY <1>2, <1>3

LEMMA InvKept == IInv /\ [Next]_vars => IInv'
  BY TypesKept, HeldKept, CurrentKept, FreshKept DEF IInv

LEMMA InvHolds == Spec => []IInv
  <1>1. Init => IInv
    BY InitInv
  <1>2. IInv /\ [Next]_vars => IInv'
    BY InvKept
  <1> QED BY <1>1, <1>2, PTL DEF Spec

-----------------------------------------------------------------------------
\* The state of the cache is well typed (OpenAPIMerger).
THEOREM CacheTypes == Spec => []TypeOK
  <1>1. IInv => TypeOK
    BY DEF IInv
  <1> QED BY <1>1, InvHolds, PTL

\* A refresh that says ok has brought what the servers had when it was called,
\* whatever refreshes and failures came before (OpenAPIMerger.refresh).
THEOREM AnswersAreFresh == Spec => []OkIsFresh
  <1>1. IInv => OkIsFresh
    BY DEF IInv
  <1> QED BY <1>1, InvHolds, PTL

\* Merged documentation is never replaced by an older one (_lock, _schema).
THEOREM CacheIsMonotone == Spec => DocsNeverGoBack
  <1>1. IInv /\ [Next]_vars => [cache # NoDocs /\ ~GatewayRestarts => Newer(cache, cache')]_vars
    BY CacheStep DEF IInv
  <1> QED BY <1>1, InvHolds, PTL DEF Spec, DocsNeverGoBack

-----------------------------------------------------------------------------
(* Routing *)

\* The three tables kept by hand agree: what the gateway sends to a server is
\* what that server's router has, and no path is sent to both.
LEMMA RoutersMatchTable ==
    /\ Handlers.W = ToWriter /\ Handlers.R = ToReader
    /\ ToWriter \cap ToReader = {}
  <1>1. Handlers.W = ToWriter
    BY DEF Handlers, WriterCatalog, WriterStorage, WriterRoles, WriterUsers, WriterVectors, ToWriter
  <1>2. Handlers.R = ToReader
    BY DEF Handlers, ReaderCatalog, ReaderVectors, ToReader
  <1>3. ASSUME NEW p \in ToWriter PROVE p \notin ToReader
    BY <1>3 DEF ToWriter, ToReader, Paths
  <1> QED BY <1>1, <1>2, <1>3

\* Every path the gateway routes is about a resource that has a tag.
LEMMA RoutedPathsHaveTags == \A p \in ToWriter \cup ToReader : InferResource(p) # "Other"
  <1> DEFINE Known == {"databases", "aliases", "collections", "partitions", "indexes", "import",
                       "roles", "users", "entities"}
  <1>1. \A p \in ToWriter \cup ToReader : p[1] \in Known \cup {"jobs/import"}
    BY DEF ToWriter, ToReader, Paths
  <1>2. DOMAIN Resource = Known /\ \A r \in Known : Resource[r] # "Other"
    BY DEF Resource
  <1> HIDE DEF Known
  <1> QED BY <1>1, <1>2 DEF InferResource

LEMMA Tags ==
    ASSUME NEW S, NEW r
    PROVE  /\ PathsIn(Tagged(S, r)) = S
           /\ \A d \in Tagged(S, r) : /\ d.path \in S /\ d.role = r
                                      /\ d.resource = TagForPath(d.path, r)
  <1>1. \A d \in Tagged(S, r) : d.path \in S /\ d.role = r /\ d.resource = TagForPath(d.path, r)
    BY DEF Tagged
  <1>2. ASSUME NEW p \in S PROVE \E d \in Tagged(S, r) : d.path = p
    <2> DEFINE d == [path |-> p, role |-> r, resource |-> TagForPath(p, r)]
    <2>1. d \in Tagged(S, r)
      BY DEF Tagged
    <2>2. d.path = p
      OBVIOUS
    <2> QED BY <2>1, <2>2
  <1> QED BY <1>1, <1>2 DEF PathsIn

\* What the two documentations are made of.
LEMMA Merging ==
    ASSUME NEW writer, NEW reader
    PROVE  /\ \A d \in MergeSchemas(writer, reader) :
                 \/ d.role = "G" /\ d.path \in GatewayOwn
                 \/ /\ d.role = "W" /\ d.path \in writer \ GatewayOwn
                    /\ d.resource = TagForPath(d.path, "W")
                 \/ /\ d.role = "R" /\ d.path \in reader \ GatewayOwn
                    /\ d.resource = TagForPath(d.path, "R")
           /\ writer \cup reader \subseteq PathsIn(MergeSchemas(writer, reader))
  <1> DEFINE fromG == Tagged(GatewayOwn, "G")
             fromW == {d \in Tagged(writer, "W") : d.path \notin PathsIn(fromG)}
             fromR == {d \in Tagged(reader, "R") : d.path \notin PathsIn(fromG \cup fromW)}
  <1>1. MergeSchemas(writer, reader) = fromG \cup fromW \cup fromR
    BY DEF MergeSchemas
  <1>2. PathsIn(fromG) = GatewayOwn
    BY Tags
  <1>3. \A d \in fromG : d.role = "G" /\ d.path \in GatewayOwn
    BY Tags
  <1>4. \A d \in fromW : /\ d.role = "W" /\ d.path \in writer \ GatewayOwn
                         /\ d.resource = TagForPath(d.path, "W")
    BY <1>2, Tags
  <1>5. PathsIn(fromG) \subseteq PathsIn(fromG \cup fromW)
    BY DEF PathsIn
  <1>6. \A d \in fromR : /\ d.role = "R" /\ d.path \in reader \ GatewayOwn
                         /\ d.resource = TagForPath(d.path, "R")
    BY <1>2, <1>5, Tags
  <1>7. ASSUME NEW p \in writer \cup reader PROVE p \in PathsIn(fromG \cup fromW \cup fromR)
    <2>1. \A D, E : D \subseteq E => PathsIn(D) \subseteq PathsIn(E)
      BY DEF PathsIn
    <2>2. p \in writer => p \in PathsIn(Tagged(writer, "W"))
      BY Tags
    <2>3. p \in reader => p \in PathsIn(Tagged(reader, "R"))
      BY Tags
    <2>4. CASE p \in PathsIn(fromG \cup fromW)
      BY <2>1, <2>4
    <2>5. CASE p \notin PathsIn(fromG \cup fromW)
      <3>1. p \notin writer
        <4>1. ASSUME p \in writer PROVE p \in PathsIn(fromG \cup fromW)
          <5>1. PICK d \in Tagged(writer, "W") : d.path = p
            BY <2>2, <4>1 DEF PathsIn
          <5>2. d \in fromW \/ p \in PathsIn(fromG)
            BY <5>1
          <5> HIDE DEF fromG, fromW
          <5> QED BY <1>5, <5>1, <5>2 DEF PathsIn
        <4> QED BY <2>5, <4>1
      <3>2. PICK d \in Tagged(reader, "R") : d.path = p
        BY <2>3, <3>1 DEF PathsIn
      <3>3. d \in fromR
        BY <2>5, <3>2
      <3> HIDE DEF fromG, fromW, fromR
      <3> QED BY <3>2, <3>3 DEF PathsIn
    <2> QED BY <2>4, <2>5
  <1> HIDE DEF fromG, fromW, fromR
  <1> QED BY <1>1, <1>3, <1>4, <1>6, <1>7

\* Whatever the gateway documents, before the first merge and after any, it can
\* reach, for its routing table, the servers' routers and the tags agree.
THEOREM DocumentedPathsAreServed == Spec => []DocumentedRoutesWork
  <1>1. \A d \in LocalDocs : Works(d)
    BY Merging DEF LocalDocs, Works
  <1>2. \A d \in MergedDocs : Works(d)
    <2> DEFINE W == Own.W \cup Handlers.W  R == Own.R \cup Handlers.R
    <2>1. W \ GatewayOwn \subseteq ToWriter /\ R \ GatewayOwn \subseteq ToReader
      <3>1. Own.W \subseteq GatewayOwn /\ Own.R \subseteq GatewayOwn
        BY DEF Own, GatewayOwn
      <3> QED BY <3>1, RoutersMatchTable
    <2>2. \A p \in ToWriter : Target(p) = "W" /\ TagForPath(p, "W") # "Other"
      BY RoutedPathsHaveTags DEF Target, TagForPath
    <2>3. \A p \in ToReader : Target(p) = "R" /\ TagForPath(p, "R") # "Other"
      BY RoutersMatchTable, RoutedPathsHaveTags DEF Target, TagForPath
    <2> HIDE DEF W, R
    <2>4. \A d \in MergeSchemas(W, R) :
                 \/ d.role = "G" /\ d.path \in GatewayOwn
                 \/ d.role = "W" /\ d.path \in ToWriter /\ d.resource = TagForPath(d.path, "W")
                 \/ d.role = "R" /\ d.path \in ToReader /\ d.resource = TagForPath(d.path, "R")
      BY <2>1, Merging
    <2>5. MergedDocs = MergeSchemas(W, R)
      BY DEF MergedDocs, W, R
    <2>6. \A d \in MergeSchemas(W, R) : Works(d)
      BY <2>2, <2>3, <2>4, RoutersMatchTable DEF Works
    <2> QED BY <2>5, <2>6
  <1>3. ToWriter \cup ToReader \subseteq PathsIn(MergedDocs)
    BY Merging, RoutersMatchTable DEF MergedDocs
  <1>4. DocumentedRoutesWork
    BY <1>1, <1>2, <1>3 DEF DocumentedRoutesWork
  <1> QED BY <1>4, PTL
=============================================================================
