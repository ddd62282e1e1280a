---------------------------- MODULE OpenApiCache ----------------------------
(***************************************************************************)
(* The documentation the gateway merges from those of writer and reader     *)
(* (gateway/openapi_merge.py) and keeps in memory.  A loop and the callers  *)
(* of POST /openapi/refresh renew it, one at a time under an asyncio.Lock;  *)
(* the servers may stop, come back with other routes, or answer too late.   *)
(***************************************************************************)
EXTENDS Routing, Naturals, Sequences

CONSTANTS
    Loop,          \* the refresh at startup and the background loop after it
    Callers,       \* clients of POST /openapi/refresh
    Retries,       \* XVECTOR_OPENAPI_REFRESH_RETRIES, at least 1
    Periodic,      \* XVECTOR_OPENAPI_REFRESH_SECONDS > 0
    MaxVersion,    \* bound: how often the documentation of a server changes
    NoDocs, NoOne, Pending,   \* None: no cache yet, a free lock, no response yet
    MaxFaults      \* bound: servers that stop, late answers, gateway restarts

ASSUME OpenApiAssumption ==
    /\ Loop \notin Callers
    /\ Retries \in Nat \ {0}
    /\ Periodic \in BOOLEAN
    /\ MaxVersion \in Nat
    /\ MaxFaults \in Nat

Servers == {"W", "R"}
Actors == {Loop} \cup Callers
Versions == 0..MaxVersion

ASSUME NoneAssumption ==
    /\ NoDocs \notin [Servers -> Versions]
    /\ NoOne \notin Actors
    /\ Pending \notin Versions

VARIABLES
    version,   \* which documentation each server would send now
    up,        \* the servers that answer
    cache,     \* _schema: the versions it was merged from
    holder,    \* who holds _lock
    waiters,   \* who waits for it, in the lock's order
    pc,        \* idle, waiting, fetching, pausing
    attempt,   \* _fetch_with_retries
    got,       \* what the two requests of this attempt have brought
    reply,     \* what the last refresh of an actor returned
    asked,     \* history: the versions when the refresh was called
    booted,    \* the startup handler has ended
    faults

vars == <<version, up, cache, holder, waiters, pc, attempt, got, reply, asked, booted, faults>>
servers == <<version, up>>

Nothing == [s \in Servers |-> Pending]

GatewayState ==
    /\ cache = NoDocs
    /\ holder = NoOne
    /\ waiters = <<Loop>>
    /\ pc = [a \in Actors |-> IF a = Loop THEN "waiting" ELSE "idle"]
    /\ attempt = [a \in Actors |-> 0]
    /\ got = [a \in Actors |-> Nothing]
    /\ reply = [a \in Actors |-> "none"]
    /\ booted = FALSE

Init ==
    /\ version = [s \in Servers |-> 0]
    /\ up \in [Servers -> BOOLEAN]
    /\ GatewayState
    /\ asked = [a \in Actors |-> version]
    /\ faults = 0

-----------------------------------------------------------------------------
(* refresh *)

\* start_background_refresh refreshes once before the gateway serves and, if a
\* period is set, starts the loop
\* (mutant) an exception ends the loop
MayAsk_UntilFailure(a) == pc[a] = "idle" /\ booted /\ (a = Loop => Periodic /\ reply[a] # "failed")
MayAsk(a) == pc[a] = "idle" /\ booted /\ (a = Loop => Periodic)

Ask(a) ==
    /\ MayAsk(a)
    /\ pc' = [pc EXCEPT ![a] = "waiting"]
    /\ waiters' = Append(waiters, a)
    /\ asked' = [asked EXCEPT ![a] = version]
    /\ reply' = [reply EXCEPT ![a] = "none"]
    /\ UNCHANGED <<servers, cache, holder, attempt, got, booted, faults>>

\* (mutant) no lock: whoever waits may go on
LockFree_Always(h) == TRUE
LockFree(h) == h = NoOne

\* what an attempt starts from
\* (mutant) what earlier requests have brought
Fresh_Kept(responses) == responses
Fresh(responses) == Nothing

Acquire(a) ==
    /\ waiters # <<>> /\ a = Head(waiters)
    /\ LockFree(holder)
    /\ holder' = a
    /\ waiters' = Tail(waiters)
    /\ pc' = [pc EXCEPT ![a] = "fetching"]
    /\ attempt' = [attempt EXCEPT ![a] = 1]
    /\ got' = [got EXCEPT ![a] = Fresh(@)]
    /\ UNCHANGED <<servers, cache, reply, asked, booted, faults>>

Fetched(a, s) ==
    /\ pc[a] = "fetching" /\ got[a][s] = Pending
    /\ up[s]
    /\ got' = [got EXCEPT ![a][s] = version[s]]
    /\ UNCHANGED <<servers, cache, holder, waiters, pc, attempt, reply, asked, booted, faults>>

\* the refresh returns and leaves the lock
Return(a, r) ==
    /\ pc' = [pc EXCEPT ![a] = "idle"]
    /\ reply' = [reply EXCEPT ![a] = r]
    /\ holder' = NoOne
    /\ booted' = (booted \/ a = Loop)

LastAttempt(n) == n = Retries

\* a server that is gone is noticed, by a refusal or by the client's timeout
\* (mutant) a client without a timeout
Unreachable_Unnoticed(s) == FALSE
Unreachable(s) == ~up[s]

\* one failing request ends the attempt (gather), and what the other brought
\* is dropped; after the last attempt the cache stays
FetchFails(a, s) ==
    /\ pc[a] = "fetching" /\ got[a][s] = Pending
    /\ Unreachable(s) \/ (up[s] /\ faults < MaxFaults)
    /\ faults' = IF up[s] THEN faults + 1 ELSE faults
    /\ IF LastAttempt(attempt[a])
       THEN Return(a, "failed")
       ELSE pc' = [pc EXCEPT ![a] = "pausing"] /\ UNCHANGED <<reply, holder, booted>>
    /\ UNCHANGED <<servers, cache, waiters, attempt, got, asked>>

Retry(a) ==
    /\ pc[a] = "pausing"
    /\ pc' = [pc EXCEPT ![a] = "fetching"]
    /\ attempt' = [attempt EXCEPT ![a] = @ + 1]
    /\ got' = [got EXCEPT ![a] = Fresh(@)]
    /\ UNCHANGED <<servers, cache, holder, waiters, reply, asked, booted, faults>>

Merge(a) ==
    /\ pc[a] = "fetching" /\ \A s \in Servers : got[a][s] # Pending
    /\ cache' = got[a]
    /\ Return(a, "ok")
    /\ UNCHANGED <<servers, waiters, attempt, got, asked, faults>>

-----------------------------------------------------------------------------
(* the environment *)

Stop(s) ==
    /\ up[s] /\ faults < MaxFaults
    /\ up' = [up EXCEPT ![s] = FALSE]
    /\ faults' = faults + 1
    /\ UNCHANGED <<version, cache, holder, waiters, pc, attempt, got, reply, asked, booted>>

\* a server comes back, as it was or with other routes
Start(s) ==
    /\ ~up[s]
    /\ up' = [up EXCEPT ![s] = TRUE]
    /\ \E v \in Versions : v \in {version[s], version[s] + 1} /\ version' = [version EXCEPT ![s] = v]
    /\ UNCHANGED <<cache, holder, waiters, pc, attempt, got, reply, asked, booted, faults>>

GatewayRestarts ==
    /\ faults < MaxFaults
    /\ faults' = faults + 1
    /\ cache' = NoDocs
    /\ holder' = NoOne
    /\ waiters' = <<Loop>>
    /\ pc' = [a \in Actors |-> IF a = Loop THEN "waiting" ELSE "idle"]
    /\ attempt' = [a \in Actors |-> 0]
    /\ got' = [a \in Actors |-> Nothing]
    /\ reply' = [a \in Actors |-> "none"]
    /\ asked' = [a \in Actors |-> version]
    /\ booted' = FALSE
    /\ UNCHANGED servers

Refresh(a) == Acquire(a) \/ Retry(a) \/ Merge(a) \/ \E s \in Servers : Fetched(a, s) \/ FetchFails(a, s)
Environment == GatewayRestarts \/ \E s \in Servers : Stop(s) \/ Start(s)
Next == (\E a \in Actors : Ask(a) \/ Refresh(a)) \/ Environment

Spec == Init /\ [][Next]_vars

\* The event loop runs what can run, requests are answered, refused or time
\* out, and the loop wakes up; nobody has to call, fail or restart.
Fairness ==
    /\ \A a \in Actors : WF_vars(Refresh(a))
    /\ WF_vars(Ask(Loop))
FairSpec == Spec /\ Fairness

-----------------------------------------------------------------------------
TypeOK ==
    /\ version \in [Servers -> Versions]
    /\ up \in [Servers -> BOOLEAN]
    /\ cache \in [Servers -> Versions] \cup {NoDocs}
    /\ holder \in Actors \cup {NoOne}
    /\ waiters \in Seq(Actors)
    /\ pc \in [Actors -> {"idle", "waiting", "fetching", "pausing"}]
    /\ attempt \in [Actors -> 0..Retries]
    /\ got \in [Actors -> [Servers -> Versions \cup {Pending}]]
    /\ reply \in [Actors -> {"none", "ok", "failed"}]
    /\ asked \in [Actors -> [Servers -> Versions]]
    /\ booted \in BOOLEAN
    /\ faults \in 0..MaxFaults

\* A refresh that answers ok has brought documentation at least as new as the
\* servers had when it was called, however many refreshes ran before its own
\* and whatever attempts failed (OpenAPIMerger.refresh under its lock).
OkIsFresh ==
    \A a \in Actors : reply[a] = "ok" =>
        cache # NoDocs /\ \A s \in Servers : cache[s] >= asked[a][s]

\* Once merged the documentation never goes back: no concurrent or failed
\* refresh replaces it by an older one or by none (DESIGN-api-docs 4.4.2, 4.7).
Newer(old, new) == new # NoDocs /\ \A s \in Servers : new[s] >= old[s]
DocsNeverGoBack == [][cache # NoDocs /\ ~GatewayRestarts => Newer(cache, cache')]_vars

\* What the gateway documents it can reach: each path is sent to the server its
\* tag names and answered by a route there, in the local documentation before
\* the first merge as in the merged one, which leaves no routed path out.
DocumentedRoutesWork ==
    LET docs == IF cache = NoDocs THEN LocalDocs ELSE MergedDocs
    IN  /\ \A d \in docs : Works(d)
        /\ cache # NoDocs => ToWriter \cup ToReader \subseteq PathsIn(docs)

\* Every refresh returns, although the servers may never answer again.
RefreshesEnd == \A a \in Actors : pc[a] = "waiting" ~> pc[a] = "idle"

\* When both servers stay up the documentation catches up with them by itself
\* (start_background_refresh; DESIGN-api-docs section 7, item 8).
DocsCatchUp == Periodic => (<>[](\A s \in Servers : up[s]) => <>[](cache = version))
=============================================================================
