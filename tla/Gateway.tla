------------------------------ MODULE Gateway ------------------------------
(***************************************************************************)
(* A request from the client through the gateway to writer or reader and    *)
(* back: authentication at the writer, routing, forwarding, the servers'    *)
(* catalog and its published copy, and the id by which logs are joined      *)
(* (api/gateway_app.py, gateway/proxy.py, auth/gateway_auth.py, and the     *)
(* trace middleware of all three).  Connections break, answers come too     *)
(* late, and servers die and come back.                                     *)
(***************************************************************************)
EXTENDS Accounts, Routing

CONSTANTS
    Requests,      \* the requests of a behaviour, each sent once
    Workloads,     \* what they ask: functions from Requests to [creds, ids, call]
    NoCreds,       \* no header, or one that is not Bearer USER:PASSWORD
    Catalog0,      \* the catalogs the writer may have on disk at the start
    MaxFaults      \* bound: crashes, late answers, failing snapshots

ASSUME GatewayAssumption ==
    /\ Catalog0 \subseteq Catalogs /\ MaxFaults \in Nat
    /\ NoCreds \notin Users \X Passwords

Servers == {"W", "R"}
None == "none"

VARIABLES
    cat,         \* the writer's catalog: engine and cache
    published,   \* its snapshot, which the reader loads for every read
    up,          \* the servers that run
    input,       \* what each request asks
    pc,          \* new, verifying, accepted, waiting, done
    net,         \* the forwarded request: not sent, sent, lost, or what came back
    answer,      \* what the client got: none, ok, error, 401, 404, 500
    runs,        \* history: how often a server has executed it
    seen,        \* history: the trace id in the log of the server
    vouched,     \* history: its credentials were valid while it was pending
    sure,        \* history: they were promised when it came, and not changed since
    firm,        \* history: it was executed, and nothing that undoes it is under way or came since
    owed,        \* history: the databases it has to show
    promised,    \* history: the password each user was told to have, or none
    held,        \* history: the databases whose creation was acknowledged
    faults

history == <<runs, seen, vouched, sure, firm, owed, promised, held>>
clients == <<input, answer>>
vars == <<cat, published, up, input, pc, net, answer, history, faults>>

Call(r) == input[r].call
Creds(r) == input[r].creds

-----------------------------------------------------------------------------
(* common/trace.py: the ids are those of X-Request-Id, X-Trace-Id and       *)
(* traceparent; an absent, blank or malformed one is no id.                 *)
Absent == <<"absent">>
Blank == <<"blank">>
Malformed == <<"malformed">>
NoId == {Absent, Blank, Malformed}
Generated(r, server) == <<"xv", r, server>>

ResolveTraceId(ids, generated) ==
    LET given == {i \in 1..3 : ids[i] \notin NoId}
    IN  IF given = {} THEN generated ELSE ids[CHOOSE i \in given : \A j \in given : i <= j]

TraceId(r) == ResolveTraceId(input[r].ids, Generated(r, "G"))

\* forward keeps the client's headers and adds its own X-Request-Id, under
\* another spelling; the server reads the first.  A client sends each header at
\* most once here: of two, resolve_trace_id reads the first and forward keeps the
\* last (proxy.py:52).
\* (mutant) the client's headers are passed on as they are
Downstream_Unchanged(ids, id) == ids
Downstream(ids, id) == IF ids[1] = Absent THEN [ids EXCEPT ![1] = id] ELSE ids

\* the paths of which Accounts has the handlers
Handled == WriterUsers \cup WriterRoles \cup Paths("databases", {"create", "drop", "list"})

\* a request comes with a user and a password or with nothing of the kind, with
\* ids of which only the traceparent has a form to be checked, and goes to
\* a handler of Accounts, or to none
ClientInput(i) ==
    /\ i.creds \in (Users \X Passwords) \cup {NoCreds}
    /\ DOMAIN i.ids = 1 .. 3 /\ Malformed \notin {i.ids[1], i.ids[2]}
    /\ Target(i.call.path) # NoTarget => i.call.path \in Handled

ASSUME WorkloadAssumption ==
    /\ None \notin Passwords
    /\ \A w \in Workloads, r \in Requests : ClientInput(w[r])

-----------------------------------------------------------------------------
Pending == {"verifying", "accepted", "waiting"}
Message(at) == [at |-> at, status |-> None, shown |-> {}]
Answer(status, show) == [at |-> "back", status |-> status, shown |-> show]
Lost(s) == [r \in Requests |-> IF net[r].at = "sent" /\ Target(Call(r).path) = s THEN Message("lost") ELSE net[r]]
Unresolved(r) == pc[r] \in Pending \/ net[r].at = "sent"

\* the requests that take away what has been promised
ChangesUser(c, u) == c.path \in {<<"users", "drop">>, <<"users", "update_password">>} /\ c.user = u
DropsDb(c, d) == c.path = <<"databases", "drop">> /\ c.db = d
Undoes(c, d) ==
    \/ d.path \in {<<"users", "create">>, <<"users", "update_password">>} /\ ChangesUser(c, d.user)
    \/ d.path = <<"databases", "create">> /\ DropsDb(c, d.db)
\* and what a writer that starts takes away: it gives the bootstrap user the
\* environment's password again
TakenBack(u, password) == u = EnvUser /\ password # EnvPassword

Init ==
    /\ \E c \in Catalog0 : cat = EnsureDefaults(c)
    /\ published = cat
    /\ up = Servers
    /\ input \in Workloads
    /\ pc = [r \in Requests |-> "new"]
    /\ net = [r \in Requests |-> Message("not sent")]
    /\ answer = [r \in Requests |-> None]
    /\ runs = [r \in Requests |-> 0]
    /\ seen = [r \in Requests |-> Absent]
    /\ vouched = [r \in Requests |-> FALSE]
    /\ sure = [r \in Requests |-> FALSE]
    /\ firm = [r \in Requests |-> FALSE]
    /\ owed = [r \in Requests |-> {}]
    /\ promised = [u \in Users |-> IF u \in DOMAIN cat.users THEN cat.users[u].password ELSE None]
    /\ held = cat.dbs
    /\ faults = 0

\* what an answer tells the client of the state it can count on
Acknowledged(r, status) ==
    LET c == Call(r)
        promise == status = "ok" /\ firm[r]
    IN  /\ promised' = IF promise /\ c.path[1] = "users"
                       THEN [promised EXCEPT ![c.user] = c.new] ELSE promised
        /\ held' = IF promise /\ c.path[1] = "databases" THEN held \cup {c.db} ELSE held

AnswerWith(r, status) ==
    /\ pc' = [pc EXCEPT ![r] = "done"]
    /\ answer' = [answer EXCEPT ![r] = status]

-----------------------------------------------------------------------------
(* proxy_all and auth *)

\* the gateway compares with its own environment before it asks the writer
Arrive(r) ==
    /\ pc[r] = "new"
    /\ IF Creds(r) = NoCreds THEN AnswerWith(r, "401")
       ELSE /\ pc' = [pc EXCEPT ![r] = IF BootstrapMatches(Creds(r)[1], Creds(r)[2]) THEN "accepted" ELSE "verifying"]
            /\ UNCHANGED answer
    /\ vouched' = [vouched EXCEPT ![r] = Creds(r) # NoCreds /\ Verify(cat, Creds(r)[1], Creds(r)[2])]
    /\ sure' = [q \in Requests |->
                  IF q = r THEN Creds(r) # NoCreds /\ promised[Creds(r)[1]] = Creds(r)[2] /\ ~ChangesUser(Call(r), Creds(r)[1])
                  ELSE sure[q] /\ ~ChangesUser(Call(r), Creds(q)[1])]
    /\ firm' = [q \in Requests |-> firm[q] /\ ~Undoes(Call(r), Call(q))]
    /\ promised' = [u \in Users |-> IF ChangesUser(Call(r), u) THEN None ELSE promised[u]]
    /\ held' = {d \in held : ~DropsDb(Call(r), d)}
    /\ owed' = [q \in Requests |-> {d \in IF q = r THEN held ELSE owed[q] : ~DropsDb(Call(r), d)}]
    /\ UNCHANGED <<cat, published, up, net, input, runs, seen, faults>>

\* what the gateway makes of the writer's answer
\* (mutant) an answer is taken for a yes
Accepts_Any(ok) == TRUE
Accepts(ok) == ok

VerifyAnswered(r) ==
    /\ pc[r] = "verifying" /\ "W" \in up
    /\ IF Accepts(Verify(cat, Creds(r)[1], Creds(r)[2]))
       THEN pc' = [pc EXCEPT ![r] = "accepted"] /\ UNCHANGED answer
       ELSE AnswerWith(r, "401")
    /\ UNCHANGED <<cat, published, up, net, input, history, faults>>

\* the writer cannot be reached, or not within 10 seconds
VerifyFails(r) ==
    /\ pc[r] = "verifying"
    /\ "W" \notin up \/ faults < MaxFaults
    /\ faults' = IF "W" \in up THEN faults + 1 ELSE faults
    /\ AnswerWith(r, "500")
    /\ UNCHANGED <<cat, published, up, net, input, history>>

\* POST /v2/vectordb/auth ends here
AuthDone(r) ==
    /\ pc[r] = "accepted" /\ Call(r).path = <<"system", "auth">>
    /\ AnswerWith(r, "ok")
    /\ UNCHANGED <<cat, published, up, net, input, history, faults>>

Proxied(r) == pc[r] = "accepted" /\ Call(r).path \notin GatewayOwn

UnknownRoute(r) ==
    /\ Proxied(r) /\ Target(Call(r).path) = NoTarget
    /\ AnswerWith(r, "404")
    /\ UNCHANGED <<cat, published, up, net, input, history, faults>>

Forward(r) ==
    /\ Proxied(r) /\ Target(Call(r).path) \in up
    /\ pc' = [pc EXCEPT ![r] = "waiting"]
    /\ net' = [net EXCEPT ![r] = Message("sent")]
    /\ UNCHANGED <<cat, published, up, clients, history, faults>>

Refuse(r) ==
    /\ Proxied(r) /\ Target(Call(r).path) \in Servers \ up
    /\ AnswerWith(r, "500")
    /\ UNCHANGED <<cat, published, up, net, input, history, faults>>

AnswerArrives(r) ==
    /\ pc[r] = "waiting" /\ net[r].at = "back"
    /\ AnswerWith(r, net[r].status)
    /\ Acknowledged(r, net[r].status)
    /\ UNCHANGED <<cat, published, up, net, input, runs, seen, vouched, sure, firm, owed, faults>>

\* a connection that has broken raises RequestError
\* (mutant) nobody notices
Broken_Unnoticed(at) == FALSE
Broken(at) == at = "lost"
ConnectionLost(r) ==
    /\ pc[r] = "waiting" /\ Broken(net[r].at)
    /\ AnswerWith(r, "500")
    /\ UNCHANGED <<cat, published, up, net, input, history, faults>>

\* after 120 seconds the gateway gives up, and the server may still answer
\* (mutant) it sends the request again
AfterTimeout_Retry(r) == "accepted"
AfterTimeout(r) == "done"
Timeout(r) ==
    /\ pc[r] = "waiting" /\ net[r].at # "lost" /\ faults < MaxFaults
    /\ faults' = faults + 1
    /\ pc' = [pc EXCEPT ![r] = AfterTimeout(r)]
    /\ answer' = [answer EXCEPT ![r] = "500"]
    /\ UNCHANGED <<cat, published, up, net, input, history>>

-----------------------------------------------------------------------------
(* The servers: reads are served from the snapshot by the reader, and from  *)
(* the catalog by the writer, which publishes every change before it        *)
(* answers.  A snapshot that cannot be written turns the answer into an     *)
(* error, and the writer may die before it publishes; the change stays.     *)

\* (mutant) the snapshot is written by a later request
Publishes_Later(old, new) == old
Publishes(old, new) == new

Outcomes == {"answered", "unpublished", "dies"}

Execute(r, outcome) ==
    LET server == Target(Call(r).path)
        result == Handle(IF server = "W" THEN cat ELSE published, Call(r))
        changes == server = "W" /\ result.cat # cat
    IN  /\ net[r].at = "sent" /\ server \in up
        /\ outcome # "answered" => changes /\ faults < MaxFaults
        /\ faults' = IF outcome = "answered" THEN faults ELSE faults + 1
        /\ runs' = [runs EXCEPT ![r] = @ + 1]
        /\ seen' = [seen EXCEPT ![r] = ResolveTraceId(Downstream(input[r].ids, TraceId(r)), Generated(r, server))]
        /\ cat' = IF changes THEN result.cat ELSE cat
        /\ published' = IF changes /\ outcome = "answered" THEN Publishes(published, result.cat) ELSE published
        /\ IF outcome = "dies"
           THEN /\ up' = up \ {"W"}
                /\ net' = Lost("W")
           ELSE /\ net' = [net EXCEPT ![r] = IF outcome = "answered"
                                             THEN Answer(result.status, result.shown)
                                             ELSE Answer("error", {})]
                /\ UNCHANGED up
        /\ vouched' = [q \in Requests |->
                         \/ vouched[q]
                         \/ pc[q] = "verifying" /\ Verify(cat', Creds(q)[1], Creds(q)[2])]
        /\ firm' = [firm EXCEPT ![r] =
                       /\ Call(r).path \in {<<"users", "create">>, <<"users", "update_password">>, <<"databases", "create">>}
                       /\ \A q \in Requests \ {r} : ~(Unresolved(q) /\ Undoes(Call(q), Call(r)))]
        /\ UNCHANGED <<pc, clients, sure, owed, promised, held>>

Crash(s) ==
    /\ s \in up /\ faults < MaxFaults
    /\ faults' = faults + 1
    /\ up' = up \ {s}
    /\ net' = Lost(s)
    /\ UNCHANGED <<cat, published, pc, clients, history>>

\* the writer seeds its defaults and publishes before it serves
Start(s) ==
    /\ s \notin up
    /\ up' = up \cup {s}
    /\ cat' = IF s = "W" THEN EnsureDefaults(cat) ELSE cat
    /\ published' = IF s = "W" THEN cat' ELSE published
    /\ vouched' = [q \in Requests |->
                     \/ vouched[q]
                     \/ pc[q] = "verifying" /\ Verify(cat', Creds(q)[1], Creds(q)[2])]
    /\ IF s = "W"
       THEN /\ promised' = [u \in Users |-> IF TakenBack(u, promised[u]) THEN None ELSE promised[u]]
            /\ sure' = [q \in Requests |-> sure[q] /\ ~TakenBack(Creds(q)[1], Creds(q)[2])]
            /\ firm' = [q \in Requests |->
                          firm[q] /\ ~(Call(q).path[1] = "users" /\ TakenBack(Call(q).user, Call(q).new))]
       ELSE UNCHANGED <<promised, sure, firm>>
    /\ UNCHANGED <<pc, net, clients, runs, seen, owed, held, faults>>

-----------------------------------------------------------------------------
Serve(r) == \E outcome \in Outcomes : Execute(r, outcome)

Step(r) ==
    \/ VerifyAnswered(r) \/ VerifyFails(r)
    \/ AuthDone(r) \/ UnknownRoute(r) \/ Forward(r) \/ Refuse(r)
    \/ AnswerArrives(r) \/ ConnectionLost(r) \/ Timeout(r)

Next == \/ \E r \in Requests : Arrive(r) \/ Step(r) \/ Serve(r)
        \/ \E s \in Servers : Crash(s) \/ Start(s)

Spec == Init /\ [][Next]_vars

\* The gateway goes on with what it has, and a server that runs serves what
\* was sent to it; nobody has to send, crash, time out or restart.
Fairness == \A r \in Requests : WF_vars(Step(r)) /\ WF_vars(Serve(r))
FairSpec == Spec /\ Fairness

-----------------------------------------------------------------------------
TypeOK ==
    /\ pc \in [Requests -> {"new", "done"} \cup Pending]
    /\ DOMAIN net = Requests
    /\ \A r \in Requests : net[r].at \in {"not sent", "sent", "lost", "back"}
    /\ DOMAIN answer = Requests
    /\ runs \in [Requests -> Nat]
    /\ vouched \in [Requests -> BOOLEAN]

\* No request is executed twice, and one answered with ok was executed: the
\* gateway never sends a request again, not after a timeout either
\* (GatewayProxy.forward).
AtMostOnce ==
    \A r \in Requests :
        /\ runs[r] <= 1
        /\ answer[r] = "ok" /\ Call(r).path \notin GatewayOwn => runs[r] = 1

\* A server executes only what somebody asked whose credentials were valid at
\* some moment between its arrival and their verification, although passwords
\* change and the writer restarts meanwhile (proxy_all).
OnlyVouchedRuns == \A r \in Requests : runs[r] > 0 => vouched[r]

\* Whoever was told that a password is set gets in with it until somebody asks
\* to change it, across crashes, restarts and failing snapshots of the writer --
\* but the bootstrap user with a changed password only until the writer's next
\* start, where ensure_defaults puts the environment's back (catalog.py:34).
AckedPasswordWorks == \A r \in Requests : sure[r] => answer[r] # "401"

\* A list of databases contains those whose creation was acknowledged before
\* it was asked for, although another server answers it.
ListsShowAcked ==
    \A r \in Requests :
        Call(r).path = <<"databases", "list">> /\ answer[r] = "ok" => owed[r] \subseteq net[r].shown

\* The server logs a request that has each header at most once under the id the
\* client is told, unless the client sends a blank X-Request-Id and nothing else to
\* tell it by
\* (DESIGN-api-docs section 7, items 1 and 2).
TraceEndToEnd ==
    \A r \in Requests :
        LET ids == input[r].ids
        IN  seen[r] # Absent => seen[r] = TraceId(r) \/ (ids[1] = Blank /\ {ids[2], ids[3]} \subseteq NoId)

\* Every request is answered, whatever dies.
RequestsAnswered == \A r \in Requests : pc[r] \in Pending ~> pc[r] = "done"
=============================================================================
