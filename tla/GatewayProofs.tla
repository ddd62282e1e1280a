---------------------------- MODULE GatewayProofs ----------------------------
(***************************************************************************)
(* Proofs about Gateway for any requests, workloads, catalogs and faults.   *)
(* How often a request runs, for whom, and under which id, does not depend  *)
(* on what the handlers do; whether promises are kept does: Minds says what *)
(* that needs of a handler, and HandlersMind that each of them has it.      *)
(***************************************************************************)
EXTENDS Gateway, TLAPS

USE DEF Pending, Servers, Message, Answer, AnswerWith, None

\* A request is sent once, from "accepted", and executed once, while it is
\* under way; what comes back has been executed.
SentOnce ==
    \A r \in Requests :
        /\ pc[r] \in {"new", "verifying", "accepted"} => net[r].at = "not sent"
        /\ net[r].at \in {"not sent", "sent"} => runs[r] = 0
        /\ net[r].at = "back" => runs[r] = 1
        /\ runs[r] \in {0, 1}

\* Only what was executed is answered with ok, but for what the gateway answers.
Honest ==
    \A r \in Requests : answer[r] = "ok" /\ Call(r).path \notin GatewayOwn => runs[r] = 1

\* What has passed the verification is vouched for, and so is what would pass
\* it now.
VouchedOf(r) ==
    /\ pc[r] \in {"accepted", "waiting"} \/ net[r].at # "not sent" => vouched[r]
    /\ pc[r] = "verifying" /\ Verify(cat, Creds(r)[1], Creds(r)[2]) => vouched[r]
    /\ runs[r] # 0 => net[r].at # "not sent"
Vouched == \A r \in Requests : VouchedOf(r)

IInv == TypeOK /\ SentOnce /\ Honest /\ Vouched

-----------------------------------------------------------------------------
\* Nothing has been sent at the start.
LEMMA InitInv == Init => IInv
  <1> SUFFICES ASSUME Init PROVE IInv
    OBVIOUS
  <1>1. TypeOK
    BY DEF Init, TypeOK
  <1>2. \A r \in Requests : /\ pc[r] = "new" /\ net[r].at = "not sent"
                             /\ answer[r] = "none" /\ runs[r] = 0
    BY DEF Init
  <1>3. SentOnce
    BY <1>2 DEF SentOnce
  <1>4. Honest
    BY <1>2 DEF Honest
  <1>5. Vouched
    BY <1>2 DEF Vouched, VouchedOf
  <1> QED BY <1>1, <1>3, <1>4, <1>5 DEF IInv

\* A request that arrives is vouched for if its credentials are valid, those of
\* the environment among them.
LEMMA ArriveInv == ASSUME IInv, NEW r \in Requests, Arrive(r) PROVE IInv'
  <1> USE DEF IInv, TypeOK, Arrive
  <1>1. TypeOK'
    OBVIOUS
  <1>2. SentOnce'
    BY DEF SentOnce
  <1>3. Honest'
    BY DEF Honest, Call
  <1>4. Vouched'
    <2>1. /\ UNCHANGED <<cat, net, input, runs>> /\ pc[r] = "new" /\ net[r].at = "not sent"
          /\ \A q \in Requests \ {r} : pc'[q] = pc[q] /\ vouched'[q] = vouched[q]
      BY DEF SentOnce
    <2>2. CASE Creds(r) = NoCreds
      <3>1. pc'[r] = "done"
        BY <2>2
      <3>2. SUFFICES ASSUME NEW q \in Requests PROVE VouchedOf(q)'
        BY DEF Vouched
      <3>3. VouchedOf(q)
        BY DEF Vouched
      <3> QED BY <2>1, <3>1, <3>3 DEF VouchedOf, Creds
    <2>3. CASE Creds(r) # NoCreds
      <3>1. /\ vouched'[r] <=> Verify(cat, Creds(r)[1], Creds(r)[2])
            /\ pc'[r] = IF BootstrapMatches(Creds(r)[1], Creds(r)[2]) THEN "accepted" ELSE "verifying"
        BY <2>3
      <3>2. BootstrapMatches(Creds(r)[1], Creds(r)[2]) => Verify(cat, Creds(r)[1], Creds(r)[2])
        BY DEF Verify
      <3>3. runs[r] = 0
        BY <2>1 DEF SentOnce
      <3>4. SUFFICES ASSUME NEW q \in Requests PROVE VouchedOf(q)'
        BY DEF Vouched
      <3>5. VouchedOf(q)
        BY DEF Vouched
      <3>6. CASE q = r
        BY <2>1, <3>1, <3>2, <3>3, <3>6 DEF VouchedOf, Creds
      <3>7. CASE q # r
        BY <2>1, <3>5, <3>7 DEF VouchedOf, Creds
      <3> QED BY <3>6, <3>7
    <2> QED BY <2>2, <2>3
  <1> QED BY <1>1, <1>2, <1>3, <1>4

\* The steps of the gateway that neither send nor accept.
LEMMA EndInv ==
    ASSUME IInv, NEW r \in Requests, NEW status, pc[r] \in Pending,
           AnswerWith(r, status),
           status = "ok" /\ Call(r).path \notin GatewayOwn => runs[r] = 1,
           UNCHANGED <<cat, net, input, runs, vouched>>
    PROVE  IInv'
  <1> USE DEF IInv, TypeOK
  <1>1. TypeOK'
    OBVIOUS
  <1>2. SentOnce'
    BY DEF SentOnce
  <1>3. Honest'
    BY DEF Honest, Call
  <1>4. Vouched'
    BY DEF Vouched, VouchedOf, Creds
  <1> QED BY <1>1, <1>2, <1>3, <1>4

\* The gateway's steps with a request keep the invariant: it sends what it has
\* accepted once, and answers ok when the server did.
LEMMA StepInv == ASSUME IInv, NEW r \in Requests, Step(r) PROVE IInv'
  <1>1. CASE VerifyAnswered(r)
    <2>1. CASE ~Verify(cat, Creds(r)[1], Creds(r)[2])
      BY <1>1, <2>1, EndInv DEF VerifyAnswered, Accepts, history
    <2>2. CASE Verify(cat, Creds(r)[1], Creds(r)[2])
      <3> USE <1>1, <2>2 DEF VerifyAnswered, Accepts, history, IInv, TypeOK
      <3>1. TypeOK'
        OBVIOUS
      <3>2. SentOnce'
        BY DEF SentOnce
      <3>3. Honest'
        BY DEF Honest, Call
      <3>4. Vouched'
        BY DEF Vouched, VouchedOf, Creds
      <3> QED BY <3>1, <3>2, <3>3, <3>4
    <2> QED BY <2>1, <2>2
  <1>2. CASE VerifyFails(r) \/ UnknownRoute(r) \/ Refuse(r) \/ ConnectionLost(r)
    <2>1. /\ pc[r] \in Pending /\ UNCHANGED <<cat, net, input, runs, vouched>>
          /\ AnswerWith(r, "500") \/ AnswerWith(r, "404")
      BY <1>2 DEF VerifyFails, UnknownRoute, Refuse, ConnectionLost, Proxied, history
    <2> HIDE DEF AnswerWith
    <2> QED BY <2>1, EndInv
  <1>3. CASE AuthDone(r)
    <2>1. /\ pc[r] \in Pending /\ UNCHANGED <<cat, net, input, runs, vouched>>
          /\ AnswerWith(r, "ok") /\ Call(r).path = <<"system", "auth">>
      BY <1>3 DEF AuthDone, history
    <2>2. <<"system", "auth">> \in GatewayOwn
      BY DEF GatewayOwn
    <2> HIDE DEF AnswerWith
    <2> QED BY <2>1, <2>2, EndInv
  <1>4. CASE Forward(r)
    <2> USE <1>4 DEF Forward, Proxied, history, clients, IInv, TypeOK
    <2>1. TypeOK'
      OBVIOUS
    <2>2. SentOnce'
      BY DEF SentOnce
    <2>3. Honest'
      BY DEF Honest, Call
    <2>4. Vouched'
      BY DEF Vouched, VouchedOf, Creds
    <2> QED BY <2>1, <2>2, <2>3, <2>4
  <1>5. CASE AnswerArrives(r)
    <2>1. runs[r] = 1
      BY <1>5 DEF AnswerArrives, IInv, SentOnce
    <2> HIDE DEF AnswerWith
    <2>2. /\ pc[r] \in Pending /\ UNCHANGED <<cat, net, input, runs, vouched>>
          /\ AnswerWith(r, net[r].status)
      BY <1>5 DEF AnswerArrives
    <2> QED BY <2>1, <2>2, EndInv
  <1>6. CASE Timeout(r)
    <2>1. /\ pc[r] \in Pending /\ UNCHANGED <<cat, net, input, runs, vouched>>
          /\ AnswerWith(r, "500")
      BY <1>6 DEF Timeout, AfterTimeout, history
    <2> HIDE DEF AnswerWith
    <2> QED BY <2>1, EndInv
  <1> QED BY <1>1, <1>2, <1>3, <1>4, <1>5, <1>6 DEF Step

\* Arithmetic: a count that is 0 or 1.
LEMMA AtMost == \A x \in {0, 1} : x <= 1 /\ (x > 0 => x # 0)
  OBVIOUS

LEMMA Increment ==
    ASSUME NEW f, NEW x, f[x] = 0
    PROVE  [f EXCEPT ![x] = @ + 1] = [f EXCEPT ![x] = 1]
  OBVIOUS

\* A server executes what is under way, which then is back or lost.
LEMMA ServeInv == ASSUME IInv, NEW r \in Requests, Serve(r) PROVE IInv'
  <1> PICK outcome \in Outcomes : Execute(r, outcome)
    BY DEF Serve
  <1> USE DEF IInv, TypeOK
  <1>1. /\ net[r].at = "sent" /\ runs' = [runs EXCEPT ![r] = @ + 1]
        /\ UNCHANGED <<pc, input, answer>>
        /\ \A q \in Requests : vouched[q] => vouched'[q]
        /\ vouched' \in [Requests -> BOOLEAN]
        /\ \A q \in Requests : pc[q] = "verifying" /\ Verify(cat', Creds(q)[1], Creds(q)[2]) => vouched'[q]
    BY DEF Execute, clients
  <1>2. /\ DOMAIN net' = Requests
        /\ net'[r].at \in {"back", "lost"}
        /\ \A q \in Requests \ {r} :
              net'[q].at = net[q].at \/ (net[q].at = "sent" /\ net'[q].at = "lost")
    <2>1. CASE outcome = "dies"
      <3>1. Target(Call(r).path) = "W" /\ net' = Lost("W")
        BY <2>1 DEF Execute
      <3> QED BY <1>1, <3>1 DEF Lost
    <2>2. CASE outcome # "dies"
      <3>1. \E m : m.at = "back" /\ net' = [net EXCEPT ![r] = m]
        BY <2>2 DEF Execute
      <3> QED BY <3>1
    <2> QED BY <2>1, <2>2
  <1>7. runs[r] = 0 /\ runs' = [runs EXCEPT ![r] = 1] /\ runs'[r] = 1 /\ \A q \in Requests \ {r} : runs'[q] = runs[q]
    <2>1. runs[r] = 0
      BY <1>1 DEF SentOnce
    <2>2. runs' = [runs EXCEPT ![r] = 1]
      BY <1>1, <2>1, Increment
    <2> QED BY <2>1, <2>2
  <1>8. pc[r] \notin {"new", "verifying", "accepted"}
    BY <1>1 DEF SentOnce
  <1>3. TypeOK'
    <2>1. \A q \in Requests : net'[q].at \in {"not sent", "sent", "lost", "back"}
      BY <1>2
    <2>2. runs' \in [Requests -> Nat]
      BY <1>7
    <2> QED BY <1>1, <1>2, <2>1, <2>2
  <1>4. SentOnce'
    <2> SUFFICES ASSUME NEW q \in Requests
                 PROVE  /\ pc[q] \in {"new", "verifying", "accepted"} => net'[q].at = "not sent"
                        /\ net'[q].at \in {"not sent", "sent"} => runs'[q] = 0
                        /\ net'[q].at = "back" => runs'[q] = 1
                        /\ runs'[q] \in {0, 1}
      BY <1>1 DEF SentOnce
    <2>1. CASE q = r
      BY <1>2, <1>7, <1>8, <2>1
    <2>2. CASE q # r
      BY <1>2, <1>7, <2>2 DEF SentOnce
    <2> QED BY <2>1, <2>2
  <1>5. Honest'
    BY <1>1, <1>7 DEF Honest, Call
  <1>6. Vouched'
    BY <1>1, <1>2 DEF Vouched, VouchedOf, Creds, SentOnce
  <1> QED BY <1>3, <1>4, <1>5, <1>6

\* A server that dies loses what was sent to it; a writer that starts may make
\* credentials valid that were not.
LEMMA ServerInv == ASSUME IInv, NEW s \in Servers, Crash(s) \/ Start(s) PROVE IInv'
  <1>1. CASE Crash(s)
    <2> USE <1>1 DEF IInv, TypeOK, Crash, Lost, history, clients
    <2>1. TypeOK'
      OBVIOUS
    <2>2. SentOnce'
      BY DEF SentOnce
    <2>3. Honest'
      BY DEF Honest, Call
    <2>4. Vouched'
      BY DEF Vouched, VouchedOf, Creds
    <2> QED BY <2>1, <2>2, <2>3, <2>4
  <1>2. CASE Start(s)
    <2> USE <1>2 DEF IInv, TypeOK, Start, clients
    <2>1. TypeOK'
      OBVIOUS
    <2>2. SentOnce'
      BY DEF SentOnce
    <2>3. Honest'
      BY DEF Honest, Call
    <2>4. Vouched'
      BY DEF Vouched, VouchedOf, Creds
    <2> QED BY <2>1, <2>2, <2>3, <2>4
  <1> QED BY <1>1, <1>2

LEMMA InvKept == IInv /\ [Next]_vars => IInv'
  <1> SUFFICES ASSUME IInv, [Next]_vars PROVE IInv'
    OBVIOUS
  <1>1. CASE UNCHANGED vars
    BY <1>1 DEF vars, history, IInv, TypeOK, SentOnce, Honest, Vouched, VouchedOf, Call, Creds
  <1> QED BY <1>1, ArriveInv, StepInv, ServeInv, ServerInv DEF Next

LEMMA InvHolds == Spec => []IInv
  <1>1. Init => IInv
    BY InitInv
  <1>2. IInv /\ [Next]_vars => IInv'
    BY InvKept
  <1> QED BY <1>1, <1>2, PTL DEF Spec

-----------------------------------------------------------------------------
\* What the gateway keeps of its requests has the declared types, whatever the
\* servers do (proxy_all).
THEOREM GatewayTypes == Spec => []TypeOK
  <1>1. IInv => TypeOK
    BY DEF IInv
  <1> QED BY <1>1, InvHolds, PTL

\* No request is executed twice, and what is answered with ok was executed, for
\* any number of requests, crashes and timeouts (GatewayProxy.forward).
THEOREM ExecutedAtMostOnce == Spec => []AtMostOnce
  <1>1. IInv => AtMostOnce
    <2>1. IInv => \A r \in Requests :
                     /\ runs[r] \in {0, 1}
                     /\ answer[r] = "ok" /\ Call(r).path \notin GatewayOwn => runs[r] = 1
      BY DEF IInv, SentOnce, Honest
    <2> QED BY <2>1, AtMost DEF AtMostOnce
  <1> QED BY <1>1, InvHolds, PTL

\* A server executes only requests whose credentials were valid at some moment
\* while they were verified (proxy_all, authenticate_via_writer).
THEOREM OnlyVouchedRequestsRun == Spec => []OnlyVouchedRuns
  <1>1. IInv => OnlyVouchedRuns
    <2>1. IInv => \A r \in Requests : runs[r] \in {0, 1} /\ (runs[r] # 0 => vouched[r])
      BY DEF IInv, SentOnce, Vouched, VouchedOf
    <2> QED BY <2>1, AtMost DEF OnlyVouchedRuns
  <1> QED BY <1>1, InvHolds, PTL

-----------------------------------------------------------------------------
(* The id by which logs are joined                                         *)

\* The first id wins.
LEMMA FirstIdWins ==
    ASSUME NEW ids, NEW g, ids[1] \notin NoId
    PROVE  ResolveTraceId(ids, g) = ids[1]
  <1> DEFINE given == {i \in 1..3 : ids[i] \notin NoId}
             least == CHOOSE i \in given : \A j \in given : i <= j
  <1>1. 1 \in given /\ \A j \in given : 1 <= j
    OBVIOUS
  <1>2. least \in given /\ \A j \in given : least <= j
    BY <1>1
  <1>3. least = 1
    BY <1>1, <1>2
  <1> QED BY <1>1, <1>3 DEF ResolveTraceId

\* What is resolved is an id, and the generated one is used only if none is given.
LEMMA ResolvedIsId ==
    ASSUME NEW ids, NEW g, g \notin NoId
    PROVE  ResolveTraceId(ids, g) \notin NoId
  <1> DEFINE given == {i \in 1..3 : ids[i] \notin NoId}
             least == CHOOSE i \in given : \A j \in given : i <= j
  <1>1. CASE given = {}
    BY <1>1 DEF ResolveTraceId
  <1>2. CASE given # {}
    <2>1. \E i \in given : \A j \in given : i <= j
      <3>1. given \subseteq {1, 2, 3}
        OBVIOUS
      <3> HIDE DEF given
      <3>2. CASE 1 \in given
        BY <3>1, <3>2
      <3>3. CASE 1 \notin given /\ 2 \in given
        BY <3>1, <3>3
      <3>4. CASE 1 \notin given /\ 2 \notin given
        <4>1. given = {3}
          BY <1>2, <3>1, <3>4
        <4> QED BY <4>1
      <3> QED BY <3>2, <3>3, <3>4
    <2>2. least \in given
      BY <2>1
    <2> QED BY <1>2, <2>2 DEF ResolveTraceId
  <1> QED BY <1>1, <1>2

LEMMA GivenIdsDecide ==
    ASSUME NEW ids, NEW g, NEW h, \E i \in 1..3 : ids[i] \notin NoId
    PROVE  ResolveTraceId(ids, g) = ResolveTraceId(ids, h)
  BY DEF ResolveTraceId

\* The server resolves what is forwarded to the id that the gateway resolved.
LEMMA IdIsForwarded ==
    ASSUME NEW r \in Requests, NEW server, ClientInput(input[r])
    PROVE  LET ids == input[r].ids
               id  == ResolveTraceId(Downstream(ids, TraceId(r)), Generated(r, server))
           IN  id = TraceId(r) \/ (ids[1] = Blank /\ {ids[2], ids[3]} \subseteq NoId)
  <1> DEFINE ids == input[r].ids
  <1>1. Generated(r, "G") \notin NoId
    BY DEF Generated, NoId, Absent, Blank, Malformed
  <1>2. DOMAIN ids = 1 .. 3 /\ ids[1] # Malformed
    BY DEF ClientInput
  <1>3. CASE ids[1] = Absent
    <2>1. Downstream(ids, TraceId(r))[1] = TraceId(r)
      BY <1>2, <1>3 DEF Downstream
    <2>2. TraceId(r) \notin NoId
      BY <1>1, ResolvedIsId DEF TraceId
    <2> QED BY <2>1, <2>2, FirstIdWins
  <1>4. CASE ids[1] \notin NoId
    BY <1>4, FirstIdWins DEF Downstream, NoId, TraceId
  <1>5. CASE ids[1] = Blank
    <2>1. Downstream(ids, TraceId(r)) = ids
      BY <1>5 DEF Downstream, Blank, Absent
    <2>2. CASE ids[2] \notin NoId \/ ids[3] \notin NoId
      BY <2>1, <2>2, GivenIdsDecide DEF TraceId
    <2> QED BY <1>5, <2>2
  <1> QED BY <1>2, <1>3, <1>4, <1>5 DEF NoId

\* A server logs a request under the id that the client is told, unless the
\* client sends a blank X-Request-Id and no other id, for any values of headers
\* that come at most once, any requests and faults (the trace middleware of
\* gateway and servers, GatewayProxy.forward).
THEOREM TracesAreJoined == Spec => []TraceEndToEnd
  <1> DEFINE Asked == \A r \in Requests : ClientInput(input[r])
             Traced == Asked /\ TraceEndToEnd /\ DOMAIN seen = Requests
  <1>1. Init => Traced
    <2> SUFFICES ASSUME Init PROVE Traced
      OBVIOUS
    <2>1. \A r \in Requests : seen[r] = Absent
      BY DEF Init
    <2>2. input \in Workloads /\ DOMAIN seen = Requests
      BY DEF Init
    <2> QED BY <2>1, <2>2, WorkloadAssumption DEF TraceEndToEnd
  <1>2. ASSUME Traced, [Next]_vars PROVE Traced'
    <2>1. CASE UNCHANGED <<input, seen>>
      BY <1>2, <2>1 DEF TraceEndToEnd, TraceId
    <2>2. ASSUME NEW r \in Requests, NEW outcome, Execute(r, outcome) PROVE Traced'
      <3>1. UNCHANGED input
        BY <2>2 DEF Execute, clients
      <3>2. seen' = [seen EXCEPT ![r] = ResolveTraceId(Downstream(input[r].ids, TraceId(r)),
                                                       Generated(r, Target(Call(r).path)))]
        BY <2>2 DEF Execute
      <3>3. \A q \in Requests \ {r} : seen'[q] = seen[q]
        BY <3>2
      <3>4. seen'[r] = ResolveTraceId(Downstream(input[r].ids, TraceId(r)),
                                      Generated(r, Target(Call(r).path)))
        BY <1>2, <3>2
      <3>5. DOMAIN seen' = Requests
        BY <1>2, <3>2
      <3>6. \/ seen'[r] = TraceId(r)
            \/ input[r].ids[1] = Blank /\ {input[r].ids[2], input[r].ids[3]} \subseteq NoId
        BY <1>2, <3>4, IdIsForwarded
      <3> QED BY <1>2, <3>1, <3>3, <3>5, <3>6 DEF TraceEndToEnd, TraceId
    <2>3. CASE UNCHANGED vars
      BY <2>1, <2>3 DEF vars, history
    <2>4. ASSUME NEW r \in Requests, Arrive(r) PROVE Traced'
      BY <2>1, <2>4 DEF Arrive
    <2>5. ASSUME NEW r \in Requests, Step(r) PROVE Traced'
      BY <2>1, <2>5
         DEF Step, VerifyAnswered, VerifyFails, AuthDone, UnknownRoute, Forward, Refuse,
             AnswerArrives, ConnectionLost, Timeout, history, clients
    <2>6. ASSUME NEW s \in Servers, Crash(s) \/ Start(s) PROVE Traced'
      BY <2>1, <2>6 DEF Crash, Start, history, clients
    <2> QED BY <1>2, <2>2, <2>3, <2>4, <2>5, <2>6 DEF Next, Serve
  <1>3. Traced => TraceEndToEnd
    OBVIOUS
  <1> QED BY <1>1, <1>2, <1>3, PTL DEF Spec

-----------------------------------------------------------------------------
(* What clients have been told                                             *)

\* A catalog has its three parts, and users have theirs.
Shaped(k) ==
    /\ DOMAIN k = {"users", "roles", "dbs"}
    /\ \A u \in DOMAIN k.users : DOMAIN k.users[u] = {"password", "roles", "bootstrap"}

Password(k, u, w) == u \in DOMAIN k.users /\ k.users[u].password = w

Sets    == {<<"users", "create">>, <<"users", "update_password">>}
Creates == <<"databases", "create">>
Lists   == <<"databases", "list">>

\* What c was asked for is there.
Effect(c) ==
    /\ c.path = Creates => c.db \in cat.dbs \cap published.dbs
    /\ c.path \in Sets => Password(cat, c.user, c.new)

FirmOf(r) ==
    firm[r] =>
        /\ Call(r).path \in Sets \cup {Creates}
        /\ net[r].at \in {"back", "lost"}
        /\ \A q \in Requests \ {r} : Unresolved(q) => ~Undoes(Call(q), Call(r))
        /\ net[r].at = "back" /\ net[r].status = "ok" => Effect(Call(r))

HeldOf(d) ==
    /\ d \in cat.dbs \cap published.dbs
    /\ \A q \in Requests : Unresolved(q) => ~DropsDb(Call(q), d)

PromisedOf(u) ==
    promised[u] # None =>
        /\ Password(cat, u, promised[u])
        /\ \A q \in Requests : Unresolved(q) => ~ChangesUser(Call(q), u)

SureOf(r) ==
    sure[r] => /\ pc[r] # "new" /\ answer[r] # "401"
               /\ Creds(r) \in Users \X Passwords
               /\ promised[Creds(r)[1]] = Creds(r)[2]

OwedOf(r) ==
    /\ owed[r] \subseteq held
    /\ Call(r).path = Lists /\ net[r].at = "back" => owed[r] \subseteq net[r].shown

BackOf(r) ==
    /\ pc[r] = "new" => answer[r] = None
    /\ net[r].at = "back" => net[r].status \in {"ok", "error"}
    /\ answer[r] = "ok" /\ Call(r).path \notin GatewayOwn => net[r].at = "back"

Shapes ==
    /\ Shaped(cat) /\ Shaped(published) /\ up \subseteq Servers
    /\ \A r \in Requests : ClientInput(input[r])
    /\ firm \in [Requests -> BOOLEAN] /\ sure \in [Requests -> BOOLEAN]
    /\ DOMAIN owed = Requests /\ DOMAIN promised = Users

Promises ==
    /\ Shapes
    /\ \A d \in held : HeldOf(d)
    /\ \A u \in Users : PromisedOf(u)
    /\ \A r \in Requests : FirmOf(r) /\ SureOf(r) /\ OwedOf(r) /\ BackOf(r)

-----------------------------------------------------------------------------
(* What a handler does to the catalog                                      *)

\* What the proofs need of res, which a handler makes of k for c: it keeps what
\* c is not about, and an ok says that c was done.
Minds(k, c, res) ==
    /\ Shaped(res.cat) /\ res.status \in {"ok", "error"}
    /\ \A d \in k.dbs : DropsDb(c, d) \/ d \in res.cat.dbs
    /\ \A u \in DOMAIN k.users : ChangesUser(c, u) \/ Password(res.cat, u, k.users[u].password)
    /\ res.status = "ok" /\ c.path = Creates => c.db \in res.cat.dbs \ k.dbs
    /\ res.status = "ok" /\ c.path \in Sets => Password(res.cat, c.user, c.new)

\* The handlers of users.
LEMMA UsersMind ==
    ASSUME NEW k, NEW c, Shaped(k)
    PROVE  /\ c.path = <<"users", "create">> => Minds(k, c, CreateUser(k, c))
           /\ c.path = <<"users", "drop">> => Minds(k, c, DropUser(k, c))
           /\ c.path = <<"users", "update_password">> => Minds(k, c, UpdatePassword(k, c))
           /\ c.path = <<"users", "grant_role">> => Minds(k, c, GrantRole(k, c))
           /\ c.path = <<"users", "revoke_role">> => Minds(k, c, RevokeRole(k, c))
           /\ c.path = <<"users", "describe">> => Minds(k, c, DescribeUser(k, c))
  <1> USE DEF Minds, Shaped, Password, Sets, Creates, Result, Refused, Done,
              DropsDb, ChangesUser
  <1>1. c.path = <<"users", "create">> => Minds(k, c, CreateUser(k, c))
    BY DEF CreateUser, Put
  <1>2. c.path = <<"users", "drop">> => Minds(k, c, DropUser(k, c))
    BY DEF DropUser, Without
  <1>3. c.path = <<"users", "update_password">> => Minds(k, c, UpdatePassword(k, c))
    BY DEF UpdatePassword, Put, Verify, BootstrapMatches
  <1>4. c.path = <<"users", "grant_role">> => Minds(k, c, GrantRole(k, c))
    BY DEF GrantRole
  <1>5. c.path = <<"users", "revoke_role">> => Minds(k, c, RevokeRole(k, c))
    BY DEF RevokeRole
  <1>6. c.path = <<"users", "describe">> => Minds(k, c, DescribeUser(k, c))
    BY DEF DescribeUser
  <1> QED BY <1>1, <1>2, <1>3, <1>4, <1>5, <1>6

\* The handlers of roles.
LEMMA RolesMind ==
    ASSUME NEW k, NEW c, Shaped(k), c.path[1] = "roles"
    PROVE  /\ Minds(k, c, CreateRole(k, c)) /\ Minds(k, c, DropRole(k, c))
           /\ Minds(k, c, DescribeRole(k, c))
           /\ Minds(k, c, GrantPrivilege(k, c)) /\ Minds(k, c, RevokePrivilege(k, c))
  <1> USE DEF Minds, Shaped, Password, Sets, Creates, Result, Refused, Done,
              DropsDb, ChangesUser
  <1>1. Minds(k, c, CreateRole(k, c))
    BY DEF CreateRole
  <1>2. Minds(k, c, DropRole(k, c))
    BY DEF DropRole
  <1>3. Minds(k, c, DescribeRole(k, c))
    BY DEF DescribeRole
  <1>4. Minds(k, c, GrantPrivilege(k, c))
    BY DEF GrantPrivilege
  <1>5. Minds(k, c, RevokePrivilege(k, c))
    BY DEF RevokePrivilege
  <1> QED BY <1>1, <1>2, <1>3, <1>4, <1>5

\* The handlers of databases, and the lists.
LEMMA DatabasesMind ==
    ASSUME NEW k, NEW c, Shaped(k)
    PROVE  /\ c.path = Creates => Minds(k, c, CreateDatabase(k, c))
           /\ c.path = <<"databases", "drop">> => Minds(k, c, DropDatabase(k, c))
           /\ \A shown : c.path \notin Sets \cup {Creates} => Minds(k, c, Result(k, "ok", shown))
  <1> USE DEF Minds, Shaped, Password, Sets, Creates, Result, Refused, Done,
              DropsDb, ChangesUser
  <1>1. c.path = Creates => Minds(k, c, CreateDatabase(k, c))
    BY DEF CreateDatabase
  <1>2. c.path = <<"databases", "drop">> => Minds(k, c, DropDatabase(k, c))
    BY DEF DropDatabase
  <1> QED BY <1>1, <1>2

\* Every handler minds what others were promised.
LEMMA HandlersMind ==
    ASSUME NEW k, NEW c, Shaped(k), c.path \in Handled
    PROVE  /\ Minds(k, c, Handle(k, c))
           /\ c.path = Lists => Handle(k, c).shown = k.dbs
  <1>1. CASE c.path \in WriterUsers
    <2>1. c.path = <<"users", "create">> => Handle(k, c) = CreateUser(k, c)
      BY DEF Handle
    <2>2. c.path = <<"users", "drop">> => Handle(k, c) = DropUser(k, c)
      BY DEF Handle
    <2>3. c.path = <<"users", "update_password">> => Handle(k, c) = UpdatePassword(k, c)
      BY DEF Handle
    <2>4. c.path = <<"users", "grant_role">> => Handle(k, c) = GrantRole(k, c)
      BY DEF Handle
    <2>5. c.path = <<"users", "revoke_role">> => Handle(k, c) = RevokeRole(k, c)
      BY DEF Handle
    <2>6. c.path = <<"users", "describe">> => Handle(k, c) = DescribeUser(k, c)
      BY DEF Handle
    <2>7. c.path \in {<<"users", "list">>, <<"users", "lists">>} => Handle(k, c) = Result(k, "ok", DOMAIN k.users)
      BY DEF Handle
    <2>8. c.path \in {<<"users", "list">>, <<"users", "lists">>} => c.path \notin Sets \cup {Creates}
      BY DEF Sets, Creates
    <2>9. c.path # Lists
      BY <1>1 DEF WriterUsers, Paths, Lists
    <2>10. c.path \in {<<"users", "list">>, <<"users", "lists">>} => Minds(k, c, Handle(k, c))
      BY <2>7, <2>8, DatabasesMind
    <2>11. c.path \in {<<"users", x>> : x \in {"create", "drop", "update_password", "grant_role",
                                               "revoke_role", "describe", "list", "lists"}}
      BY <1>1 DEF WriterUsers, Paths
    <2> QED BY <2>1, <2>2, <2>3, <2>4, <2>5, <2>6, <2>9, <2>10, <2>11, UsersMind
  <1>2. CASE c.path \in WriterRoles
    <2>1. c.path = <<"roles", "create">> => Handle(k, c) = CreateRole(k, c)
      BY DEF Handle
    <2>2. c.path = <<"roles", "drop">> => Handle(k, c) = DropRole(k, c)
      BY DEF Handle
    <2>3. c.path = <<"roles", "describe">> => Handle(k, c) = DescribeRole(k, c)
      BY DEF Handle
    <2>4. c.path = <<"roles", "grant_privilege">> => Handle(k, c) = GrantPrivilege(k, c)
      BY DEF Handle
    <2>5. c.path = <<"roles", "revoke_privilege">> => Handle(k, c) = RevokePrivilege(k, c)
      BY DEF Handle
    <2>6. c.path \in {<<"roles", "list">>, <<"roles", "lists">>} => Handle(k, c) = Result(k, "ok", DOMAIN k.roles)
      BY DEF Handle
    <2>7. c.path[1] = "roles" /\ c.path \notin Sets \cup {Creates} /\ c.path # Lists
      BY <1>2 DEF WriterRoles, Paths, Sets, Creates, Lists
    <2> QED BY <1>2, <2>1, <2>2, <2>3, <2>4, <2>5, <2>6, <2>7, RolesMind, DatabasesMind
            DEF WriterRoles, Paths
  <1>3. CASE c.path \in Paths("databases", {"create", "drop", "list"})
    <2>1. c.path = Creates => Handle(k, c) = CreateDatabase(k, c)
      BY DEF Handle, Creates
    <2>2. c.path = <<"databases", "drop">> => Handle(k, c) = DropDatabase(k, c)
      BY DEF Handle
    <2>3. c.path = Lists => Handle(k, c) = Result(k, "ok", k.dbs)
      BY DEF Handle, Lists
    <2>4. c.path \in {Creates, <<"databases", "drop">>, Lists}
      BY <1>3 DEF Paths, Creates, Lists
    <2>5. Lists \notin Sets \cup {Creates} /\ <<"databases", "drop">> # Lists /\ Creates # Lists
      BY DEF Lists, Sets, Creates
    <2>6. c.path = Lists => Minds(k, c, Handle(k, c)) /\ Handle(k, c).shown = k.dbs
      <3>1. Result(k, "ok", k.dbs).shown = k.dbs
        BY DEF Result
      <3> QED BY <2>3, <2>5, <3>1, DatabasesMind
    <2> QED BY <2>1, <2>2, <2>4, <2>5, <2>6, DatabasesMind
  <1> QED BY <1>1, <1>2, <1>3 DEF Handled
-----------------------------------------------------------------------------
(* Promises are kept                                                       *)

\* What a writer that starts leaves of the catalog.
LEMMA DefaultsKeep ==
    ASSUME NEW k, Shaped(k)
    PROVE  LET e == EnsureDefaults(k)
           IN  /\ Shaped(e) /\ k.dbs \subseteq e.dbs
               /\ \A u, w : ~TakenBack(u, w) /\ Password(k, u, w) => Password(e, u, w)
  BY DEF EnsureDefaults, Put, Shaped, Password, TakenBack

\* At the start the catalog holds what it is said to hold.
LEMMA InitPromises == Init => Promises
  <1> SUFFICES ASSUME Init PROVE Promises
    OBVIOUS
  <1>1. PICK c \in Catalog0 : cat = EnsureDefaults(c)
    BY DEF Init
  <1>2. c \in Catalogs
    BY GatewayAssumption
  <1>3. Shaped(cat)
    <2>1. Shaped(c)
      BY <1>2 DEF Shaped, Catalogs, User
    <2> QED BY <1>1, <2>1, DefaultsKeep
  <1>4. \A r \in Requests :
            /\ pc[r] = "new" /\ net[r].at = "not sent" /\ answer[r] = "none"
            /\ ~firm[r] /\ ~sure[r] /\ owed[r] = {} /\ ~Unresolved(r)
    BY DEF Init, Unresolved
  <1>5. Shapes
    <2>1. \A r \in Requests : ClientInput(input[r])
      BY WorkloadAssumption DEF Init
    <2> QED BY <1>3, <2>1 DEF Init, Shapes
  <1>6. \A d \in held : HeldOf(d)
    BY <1>4 DEF Init, HeldOf
  <1>7. \A u \in Users : PromisedOf(u)
    BY <1>4 DEF Init, PromisedOf, Password
  <1>8. \A r \in Requests : FirmOf(r) /\ SureOf(r) /\ OwedOf(r) /\ BackOf(r)
    BY <1>4 DEF FirmOf, SureOf, OwedOf, BackOf
  <1> QED BY <1>5, <1>6, <1>7, <1>8 DEF Promises

\* A request that arrives ends the promises that it may take away, and counts
\* on those that are left.
LEMMA ArrivePromises == ASSUME IInv, Promises, NEW r \in Requests, Arrive(r) PROVE Promises'
  <1> DEFINE c == Call(r)
  <1>1. /\ UNCHANGED <<cat, published, up, net, input>> /\ pc[r] = "new" /\ net[r].at = "not sent"
        /\ \A q \in Requests \ {r} : pc'[q] = pc[q] /\ answer'[q] = answer[q]
        /\ pc'[r] \in {"done", "accepted", "verifying"}
        /\ answer'[r] # "ok" /\ (Creds(r) # NoCreds => answer'[r] # "401")
    <2>1. pc[r] = "new" /\ answer[r] = None /\ net[r].at = "not sent"
      BY DEF IInv, SentOnce, Promises, BackOf, Arrive
    <2> QED BY <2>1 DEF Arrive, IInv, TypeOK
  <1>2. /\ sure' \in [Requests -> BOOLEAN] /\ firm' \in [Requests -> BOOLEAN]
        /\ DOMAIN promised' = Users /\ DOMAIN owed' = Requests
    BY DEF Arrive, Promises, Shapes
  <1>3. /\ sure'[r] => Creds(r) # NoCreds /\ promised[Creds(r)[1]] = Creds(r)[2] /\ ~ChangesUser(c, Creds(r)[1])
        /\ \A q \in Requests \ {r} : sure'[q] => sure[q] /\ ~ChangesUser(c, Creds(q)[1])
        /\ \A q \in Requests : firm'[q] => firm[q] /\ ~Undoes(c, Call(q))
        /\ \A u \in Users : promised'[u] = IF ChangesUser(c, u) THEN None ELSE promised[u]
        /\ \A d : d \in held' <=> d \in held /\ ~DropsDb(c, d)
    BY DEF Arrive
  <1>4. /\ \A q \in Requests \ {r} : owed'[q] = {d \in owed[q] : ~DropsDb(c, d)}
        /\ owed'[r] = {d \in held : ~DropsDb(c, d)}
    BY DEF Arrive
  <1>5. /\ \A q \in Requests : Call(q)' = Call(q) /\ Creds(q)' = Creds(q)
        /\ \A q \in Requests \ {r} : Unresolved(q)' <=> Unresolved(q)
    BY <1>1 DEF Call, Creds, Unresolved
  <1> HIDE DEF c
  <1>6. Shapes'
    BY <1>1, <1>2 DEF Promises, Shapes
  <1>7. ASSUME NEW d \in held' PROVE HeldOf(d)'
    <2>1. HeldOf(d) /\ ~DropsDb(c, d)
      BY <1>3, <1>7 DEF Promises
    <2> QED BY <1>1, <1>5, <2>1 DEF HeldOf, c
  <1>8. ASSUME NEW u \in Users PROVE PromisedOf(u)'
    <2>1. PromisedOf(u)
      BY DEF Promises
    <2> QED BY <1>1, <1>3, <1>5, <2>1 DEF PromisedOf, c
  <1>9. ASSUME NEW q \in Requests PROVE FirmOf(q)'
    <2>1. FirmOf(q)
      BY DEF Promises
    <2>2. Effect(Call(q)) => Effect(Call(q))'
      BY <1>1, <1>5 DEF Effect
    <2> QED BY <1>1, <1>3, <1>5, <2>1, <2>2 DEF FirmOf, c
  <1>10. ASSUME NEW q \in Requests PROVE SureOf(q)'
    <2>1. CASE q # r
      <3>1. SureOf(q)
        BY DEF Promises
      <3> QED BY <1>1, <1>3, <1>5, <2>1, <3>1 DEF SureOf
    <2>2. CASE q = r
      <3>1. Creds(r) # NoCreds => Creds(r) \in Users \X Passwords
        BY DEF Promises, Shapes, ClientInput, Creds
      <3> QED BY <1>1, <1>3, <1>5, <2>2, <3>1 DEF SureOf
    <2> QED BY <2>1, <2>2
  <1>11. ASSUME NEW q \in Requests PROVE OwedOf(q)'
    <2>1. OwedOf(q)
      BY DEF Promises
    <2>2. owed'[q] \subseteq held'
      <3>1. CASE q = r
        BY <1>3, <1>4, <3>1
      <3>2. CASE q # r
        BY <1>3, <1>4, <2>1, <3>2 DEF OwedOf
      <3> QED BY <3>1, <3>2
    <2>3. CASE q = r
      BY <1>1, <2>2, <2>3 DEF OwedOf
    <2>4. CASE q # r
      <3>1. owed'[q] \subseteq owed[q]
        BY <1>4, <2>4
      <3> QED BY <1>1, <1>5, <2>1, <2>2, <2>4, <3>1 DEF OwedOf
    <2> QED BY <2>3, <2>4
  <1>12. ASSUME NEW q \in Requests PROVE BackOf(q)'
    <2>1. BackOf(q)
      BY DEF Promises
    <2> QED BY <1>1, <1>5, <2>1 DEF BackOf
  <1> QED BY <1>6, <1>7, <1>8, <1>9, <1>10, <1>11, <1>12 DEF Promises

\* The gateway's steps before the answer tell nobody anything, and do not
\* refuse a user whose password was promised.
LEMMA QuietPromises ==
    ASSUME IInv, Promises, NEW r \in Requests, pc[r] \in Pending,
           pc'[r] # "new", \A q \in Requests \ {r} : pc'[q] = pc[q] /\ answer'[q] = answer[q],
           answer'[r] = "401" => answer[r] = "401" \/ ~sure[r],
           answer'[r] = "ok" => answer[r] = "ok" \/ Call(r).path \in GatewayOwn,
           \/ UNCHANGED net
           \/ net[r].at = "not sent" /\ net' = [net EXCEPT ![r] = Message("sent")],
           UNCHANGED <<cat, published, up, input, firm, sure, owed, promised, held>>
    PROVE  Promises'
  <1>1. /\ \A q \in Requests : Call(q)' = Call(q) /\ Creds(q)' = Creds(q)
        /\ \A q \in Requests : net'[q] = net[q] \/ (net[q].at = "not sent" /\ net'[q].at = "sent")
        /\ \A q \in Requests \ {r} : net'[q] = net[q]
    <2>1. DOMAIN net = Requests
      BY DEF IInv, TypeOK
    <2>2. \A q \in Requests : Call(q)' = Call(q) /\ Creds(q)' = Creds(q)
      BY DEF Call, Creds
    <2>3. CASE UNCHANGED net
      BY <2>2, <2>3
    <2>4. CASE net[r].at = "not sent" /\ net' = [net EXCEPT ![r] = Message("sent")]
      <3>1. net'[r].at = "sent" /\ \A q \in Requests \ {r} : net'[q] = net[q]
        BY <2>1, <2>4
      <3> QED BY <2>2, <2>4, <3>1
    <2> QED BY <2>3, <2>4
  <1>2. \A q \in Requests : Unresolved(q)' => Unresolved(q)
    BY <1>1 DEF Unresolved
  <1>3. Shapes'
    BY DEF Promises, Shapes
  <1>4. ASSUME NEW d \in held' PROVE HeldOf(d)'
    BY <1>1, <1>2, <1>4 DEF Promises, HeldOf
  <1>5. ASSUME NEW u \in Users PROVE PromisedOf(u)'
    BY <1>1, <1>2 DEF Promises, PromisedOf
  <1>6. ASSUME NEW q \in Requests PROVE FirmOf(q)' /\ SureOf(q)' /\ OwedOf(q)' /\ BackOf(q)'
    <2>1. FirmOf(q) /\ SureOf(q) /\ OwedOf(q) /\ BackOf(q)
      BY DEF Promises
    <2>2. Effect(Call(q)) => Effect(Call(q))'
      BY <1>1 DEF Effect
    <2>3. FirmOf(q)'
      BY <1>1, <1>2, <2>1, <2>2 DEF FirmOf
    <2>4. SureOf(q)'
      BY <1>1, <2>1 DEF SureOf
    <2>5. OwedOf(q)'
      BY <1>1, <2>1 DEF OwedOf
    <2>6. BackOf(q)'
      <3>1. CASE q = r
        BY <1>1, <2>1, <3>1 DEF BackOf
      <3>2. CASE q # r
        BY <1>1, <2>1, <3>2 DEF BackOf
      <3> QED BY <3>1, <3>2
    <2> QED BY <2>3, <2>4, <2>5, <2>6
  <1> QED BY <1>3, <1>4, <1>5, <1>6 DEF Promises

\* An answer promises what is there.
LEMMA AckPromises == ASSUME IInv, Promises, NEW r \in Requests, AnswerArrives(r) PROVE Promises'
  <1> DEFINE c == Call(r)
             told == firm[r] /\ net[r].status = "ok"
  <1>1. /\ UNCHANGED <<cat, published, up, net, input, firm, sure, owed>>
        /\ pc[r] = "waiting" /\ net[r].at = "back"
        /\ pc'[r] = "done" /\ answer'[r] = net[r].status
        /\ \A q \in Requests \ {r} : pc'[q] = pc[q] /\ answer'[q] = answer[q]
    BY DEF AnswerArrives, IInv, TypeOK
  <1>2. net[r].status \in {"ok", "error"}
    BY <1>1 DEF Promises, BackOf
  <1>3. /\ \A q \in Requests : Call(q)' = Call(q) /\ Creds(q)' = Creds(q)
        /\ \A q \in Requests : Unresolved(q)' => Unresolved(q) /\ q # r
    BY <1>1 DEF Call, Creds, Unresolved
  <1>4. told => /\ c.path \in Sets \cup {Creates} /\ Effect(c)
                /\ \A q \in Requests \ {r} : Unresolved(q) => ~Undoes(Call(q), c)
    BY <1>1 DEF Promises, FirmOf
  <1>5. /\ Creates[1] = "databases"
        /\ \A path \in Sets : path[1] = "users"
    BY DEF Creates, Sets
  <1>6. /\ promised' = IF told /\ c.path[1] = "users"
                       THEN [promised EXCEPT ![c.user] = c.new] ELSE promised
        /\ held' = IF told /\ c.path[1] = "databases" THEN held \cup {c.db} ELSE held
    BY DEF AnswerArrives, Acknowledged
  <1>7. DOMAIN promised = Users
    BY DEF Promises, Shapes
  <1>8. ASSUME NEW u \in Users
        PROVE  \/ promised'[u] = promised[u]
               \/ /\ told /\ c.path \in Sets /\ u = c.user
                  /\ promised'[u] = c.new /\ Password(cat, u, c.new)
    <2>1. CASE told /\ c.path[1] = "users" /\ u = c.user
      <3>1. c.path \in Sets /\ Effect(c)
        BY <1>4, <1>5, <2>1
      <3>2. promised'[u] = c.new
        BY <1>6, <1>7, <2>1
      <3> QED BY <2>1, <3>1, <3>2 DEF Effect
    <2>2. CASE ~(told /\ c.path[1] = "users" /\ u = c.user)
      BY <1>6, <1>7, <2>2
    <2> QED BY <2>1, <2>2
  <1>9. Shapes'
    BY <1>1, <1>6, <1>7 DEF Promises, Shapes
  <1> HIDE DEF c, told
  <1>10. ASSUME NEW d \in held' PROVE HeldOf(d)'
    <2>1. CASE d \in held
      <3>1. HeldOf(d)
        BY <2>1 DEF Promises
      <3> QED BY <1>1, <1>3, <3>1 DEF HeldOf
    <2>2. CASE d \notin held
      <3>1. told /\ c.path[1] = "databases" /\ d = c.db
        BY <1>6, <1>10, <2>2
      <3>2. c.path = Creates
        BY <1>4, <1>5, <3>1
      <3>3. d \in cat.dbs \cap published.dbs
        BY <1>4, <3>1, <3>2 DEF Effect
      <3>4. \A q \in Requests \ {r} : Unresolved(q) => ~DropsDb(Call(q), d)
        BY <1>4, <3>1, <3>2 DEF Undoes, Creates
      <3> QED BY <1>1, <1>3, <3>3, <3>4 DEF HeldOf
    <2> QED BY <2>1, <2>2
  <1>11. ASSUME NEW u \in Users PROVE PromisedOf(u)'
    <2>1. PromisedOf(u)
      BY DEF Promises
    <2>2. CASE promised'[u] = promised[u]
      BY <1>1, <1>3, <2>1, <2>2 DEF PromisedOf
    <2>3. CASE /\ told /\ c.path \in Sets /\ u = c.user
               /\ promised'[u] = c.new /\ Password(cat, u, c.new)
      <3>1. \A q \in Requests \ {r} : Unresolved(q) => ~ChangesUser(Call(q), u)
        BY <1>4, <2>3 DEF Undoes, Sets
      <3> QED BY <1>1, <1>3, <2>3, <3>1 DEF PromisedOf
    <2> QED BY <1>8, <2>2, <2>3
  <1>12. ASSUME NEW q \in Requests PROVE SureOf(q)'
    <2>1. SureOf(q)
      BY DEF Promises
    <2>2. CASE sure[q]
      <3> DEFINE u == Creds(q)[1]
                 w == Creds(q)[2]
      <3>1. u \in Users /\ w \in Passwords /\ promised[u] = w /\ Creds(q) \in Users \X Passwords
        BY <2>1, <2>2 DEF SureOf
      <3>2. Password(cat, u, w)
        BY <3>1, WorkloadAssumption DEF Promises, PromisedOf
      <3>3. promised'[u] = w
        <4> HIDE DEF u, w
        <4> QED BY <1>8, <3>1, <3>2 DEF Password
      <3> QED BY <1>1, <1>2, <1>3, <2>1, <2>2, <3>1, <3>3 DEF SureOf
    <2> QED BY <1>1, <2>2 DEF SureOf
  <1>13. ASSUME NEW q \in Requests PROVE FirmOf(q)' /\ OwedOf(q)' /\ BackOf(q)'
    <2>1. FirmOf(q) /\ OwedOf(q) /\ BackOf(q)
      BY DEF Promises
    <2>2. Effect(Call(q)) => Effect(Call(q))'
      BY <1>1, <1>3 DEF Effect
    <2>3. FirmOf(q)'
      BY <1>1, <1>3, <2>1, <2>2 DEF FirmOf
    <2>4. OwedOf(q)'
      BY <1>1, <1>3, <1>6, <2>1 DEF OwedOf
    <2>5. BackOf(q)'
      BY <1>1, <1>3, <2>1 DEF BackOf
    <2> QED BY <2>3, <2>4, <2>5
  <1> QED BY <1>9, <1>10, <1>11, <1>12, <1>13 DEF Promises
\* The gateway's steps keep the promises.
LEMMA StepPromises == ASSUME IInv, Promises, NEW r \in Requests, Step(r) PROVE Promises'
  <1> HIDE DEF AnswerWith
  <1>1. CASE AnswerArrives(r)
    BY <1>1, AckPromises
  <1>2. ASSUME NEW status, AnswerWith(r, status)
        PROVE  /\ pc'[r] # "new" /\ answer'[r] = status
               /\ \A q \in Requests \ {r} : pc'[q] = pc[q] /\ answer'[q] = answer[q]
    BY <1>2 DEF AnswerWith, IInv, TypeOK
  <1>3. CASE VerifyAnswered(r)
    <2>1. pc[r] \in Pending /\ UNCHANGED <<cat, published, up, net, input, firm, sure, owed, promised, held>>
      BY <1>3 DEF VerifyAnswered, history
    <2>2. CASE Verify(cat, Creds(r)[1], Creds(r)[2])
      <3>1. pc' = [pc EXCEPT ![r] = "accepted"] /\ UNCHANGED answer
        BY <1>3, <2>2 DEF VerifyAnswered, Accepts
      <3>2. pc'[r] # "new" /\ \A q \in Requests \ {r} : pc'[q] = pc[q]
        BY <3>1 DEF IInv, TypeOK
      <3> QED BY <2>1, <3>1, <3>2, QuietPromises
    <2>3. CASE ~Verify(cat, Creds(r)[1], Creds(r)[2])
      <3>1. AnswerWith(r, "401")
        BY <1>3, <2>3 DEF VerifyAnswered, Accepts
      <3>2. ~sure[r]
        <4>1. SUFFICES ASSUME sure[r] PROVE FALSE
          OBVIOUS
        <4> DEFINE u == Creds(r)[1]
                   w == Creds(r)[2]
        <4>2. u \in Users /\ w \in Passwords /\ promised[u] = w
          BY <4>1 DEF Promises, SureOf
        <4>3. Password(cat, u, w)
          BY <4>2, WorkloadAssumption DEF Promises, PromisedOf
        <4> QED BY <2>3, <4>3 DEF Verify, Password
      <3>3. answer'[r] = "401"
        BY <1>2, <3>1
      <3> QED BY <1>2, <2>1, <3>1, <3>2, <3>3, QuietPromises
    <2> QED BY <2>2, <2>3
  <1>4. CASE VerifyFails(r) \/ UnknownRoute(r) \/ Refuse(r) \/ ConnectionLost(r) \/ Timeout(r)
    <2>1. /\ pc[r] \in Pending
          /\ UNCHANGED <<cat, published, up, net, input, firm, sure, owed, promised, held>>
          /\ AnswerWith(r, "500") \/ AnswerWith(r, "404")
      BY <1>4 DEF VerifyFails, UnknownRoute, Refuse, ConnectionLost, Timeout, AfterTimeout,
                  AnswerWith, Proxied, history
    <2>2. answer'[r] \in {"500", "404"}
      BY <1>2, <2>1
    <2> QED BY <1>2, <2>1, <2>2, QuietPromises
  <1>5. CASE AuthDone(r)
    <2>1. /\ pc[r] \in Pending
          /\ UNCHANGED <<cat, published, up, net, input, firm, sure, owed, promised, held>>
          /\ AnswerWith(r, "ok") /\ Call(r).path \in GatewayOwn
      BY <1>5 DEF AuthDone, history, GatewayOwn
    <2>2. answer'[r] = "ok"
      BY <1>2, <2>1
    <2> QED BY <1>2, <2>1, <2>2, QuietPromises
  <1>6. CASE Forward(r)
    <2>1. /\ pc[r] = "accepted" /\ UNCHANGED answer
          /\ UNCHANGED <<cat, published, up, input, firm, sure, owed, promised, held>>
          /\ pc' = [pc EXCEPT ![r] = "waiting"]
          /\ net' = [net EXCEPT ![r] = Message("sent")]
      BY <1>6 DEF Forward, Proxied, clients, history
    <2>2. pc'[r] # "new" /\ \A q \in Requests \ {r} : pc'[q] = pc[q]
      BY <2>1 DEF IInv, TypeOK
    <2>3. net[r].at = "not sent"
      BY <2>1 DEF IInv, SentOnce
    <2> QED BY <2>1, <2>2, <2>3, QuietPromises
  <1> QED BY <1>1, <1>3, <1>4, <1>5, <1>6 DEF Step

\* A server does what r asks, which leaves alone what was promised to others,
\* and has published it when it says so.
LEMMA ExecPromises ==
    ASSUME IInv, Promises, NEW r \in Requests, NEW outcome \in Outcomes, Execute(r, outcome)
    PROVE  Promises'
  <1> DEFINE c == Call(r)
             server == Target(c.path)
             k == IF server = "W" THEN cat ELSE published
             result == Handle(k, c)
             changes == server = "W" /\ result.cat # cat
  <1>1. net[r].at = "sent" /\ server \in Servers /\ Shaped(k)
    BY DEF Execute, Promises, Shapes
  <1>2. c.path \in Handled
    <2>1. ClientInput(input[r])
      BY DEF Promises, Shapes
    <2>2. server # NoTarget
      BY <1>1 DEF NoTarget
    <2> QED BY <2>1, <2>2 DEF ClientInput, Call
  <1>3. Minds(k, c, result) /\ (c.path = Lists => result.shown = k.dbs)
    BY <1>1, <1>2, HandlersMind
  <1>4. /\ c.path \in Sets \cup {Creates} => server = "W"
        /\ c.path = Lists => server = "R"
    BY DEF Target, ToWriter, ToReader, Paths, Sets, Creates, Lists
  <1>5. /\ cat' = IF changes THEN result.cat ELSE cat
        /\ published' = IF changes /\ outcome = "answered" THEN result.cat ELSE published
        /\ outcome # "answered" => changes
        /\ UNCHANGED <<pc, input, answer, sure, owed, promised, held>>
        /\ up' \subseteq up
    BY DEF Execute, Publishes, clients
  <1>6. /\ outcome = "answered" => net'[r] = Answer(result.status, result.shown)
        /\ outcome # "answered" =>
              \/ net'[r].at = "lost"
              \/ net'[r].at = "back" /\ net'[r].status = "error"
        /\ \A q \in Requests \ {r} :
              net'[q] = net[q] \/ (net[q].at = "sent" /\ net'[q].at = "lost")
    <2>1. DOMAIN net = Requests
      BY DEF IInv, TypeOK
    <2>2. CASE outcome = "dies"
      <3>1. net' = Lost("W") /\ server = "W"
        BY <1>5, <2>2 DEF Execute
      <3> QED BY <1>1, <2>2, <3>1 DEF Lost
    <2>3. CASE outcome = "answered"
      <3>1. net' = [net EXCEPT ![r] = Answer(result.status, result.shown)]
        BY <2>3 DEF Execute
      <3> HIDE DEF result, Answer
      <3> QED BY <2>1, <2>3, <3>1
    <2>4. CASE outcome = "unpublished"
      <3>1. net' = [net EXCEPT ![r] = Answer("error", {})]
        BY <2>4 DEF Execute
      <3> QED BY <2>1, <2>4, <3>1
    <2> QED BY <2>2, <2>3, <2>4 DEF Outcomes
  <1>7. /\ firm' \in [Requests -> BOOLEAN]
        /\ \A q \in Requests \ {r} : firm'[q] = firm[q]
        /\ firm'[r] => /\ c.path \in Sets \cup {Creates}
                       /\ \A q \in Requests \ {r} : Unresolved(q) => ~Undoes(Call(q), c)
    <2>1. firm' = [firm EXCEPT ![r] =
                       /\ c.path \in {<<"users", "create">>, <<"users", "update_password">>, <<"databases", "create">>}
                       /\ \A q \in Requests \ {r} : ~(Unresolved(q) /\ Undoes(Call(q), c))]
      BY DEF Execute
    <2>2. firm \in [Requests -> BOOLEAN]
      BY DEF Promises, Shapes
    <2>3. /\ firm' \in [Requests -> BOOLEAN]
          /\ \A q \in Requests \ {r} : firm'[q] = firm[q]
          /\ firm'[r] = (/\ c.path \in {<<"users", "create">>, <<"users", "update_password">>, <<"databases", "create">>}
                         /\ \A q \in Requests \ {r} : ~(Unresolved(q) /\ Undoes(Call(q), c)))
      BY <2>1, <2>2
    <2> HIDE DEF c
    <2> QED BY <2>3 DEF Sets, Creates
  <1> HIDE DEF c, server, k, result, changes
  <1>8. /\ \A q \in Requests : Call(q)' = Call(q) /\ Creds(q)' = Creds(q)
        /\ net'[r].at # "sent"
        /\ \A q \in Requests : Unresolved(q)' => Unresolved(q)
        /\ Unresolved(r)
    <2>1. net'[r].at # "sent"
      BY <1>6
    <2>2. \A q \in Requests : Call(q)' = Call(q) /\ Creds(q)' = Creds(q)
      BY <1>5 DEF Call, Creds
    <2>3. Unresolved(r)
      BY <1>1 DEF Unresolved
    <2>4. \A q \in Requests : Unresolved(q)' => Unresolved(q)
      BY <1>1, <1>5, <1>6, <2>1 DEF Unresolved
    <2> QED BY <2>1, <2>2, <2>3, <2>4
  <1>9. Shaped(cat') /\ Shaped(published')
    BY <1>3, <1>5 DEF Minds, Promises, Shapes
  <1>10. ASSUME NEW d, ~DropsDb(c, d), d \in cat.dbs \cap published.dbs
         PROVE  d \in cat'.dbs \cap published'.dbs
    <2>1. changes => d \in result.cat.dbs
      BY <1>3, <1>10 DEF Minds, changes, k
    <2> QED BY <1>5, <1>10, <2>1
  <1>11. ASSUME NEW u, NEW w, ~ChangesUser(c, u), Password(cat, u, w)
         PROVE  Password(cat', u, w)
    <2>1. changes => Password(result.cat, u, w)
      BY <1>3, <1>11 DEF Minds, changes, k, Password
    <2> QED BY <1>5, <1>11, <2>1
  <1>12. Shapes'
    BY <1>5, <1>7, <1>9 DEF Promises, Shapes
  <1>13. ASSUME NEW d \in held' PROVE HeldOf(d)'
    <2>1. HeldOf(d)
      BY <1>5, <1>13 DEF Promises
    <2>2. d \in cat'.dbs \cap published'.dbs
      BY <1>8, <1>10, <2>1 DEF HeldOf, c
    <2> QED BY <1>8, <2>1, <2>2 DEF HeldOf
  <1>14. ASSUME NEW u \in Users PROVE PromisedOf(u)'
    <2>1. PromisedOf(u)
      BY DEF Promises
    <2>2. promised[u] # None => Password(cat', u, promised[u])
      BY <1>8, <1>11, <2>1 DEF PromisedOf, c
    <2> QED BY <1>5, <1>8, <2>1, <2>2 DEF PromisedOf
  <1>15. ASSUME NEW q \in Requests PROVE FirmOf(q)'
    <2>1. CASE q # r
      <3> SUFFICES ASSUME firm[q] PROVE FirmOf(q)'
        BY <1>7, <2>1 DEF FirmOf
      <3>1. FirmOf(q)
        BY DEF Promises
      <3>2. net'[q] = net[q]
        BY <1>6, <2>1, <3>1 DEF FirmOf
      <3>3. ~Undoes(c, Call(q)) /\ Call(q).path \in Sets \cup {Creates}
        BY <1>8, <2>1, <3>1 DEF FirmOf, c
      <3>4. Effect(Call(q)) => Effect(Call(q))'
        <4> SUFFICES ASSUME Effect(Call(q)) PROVE Effect(Call(q))'
          OBVIOUS
        <4>1. Call(q).path = Creates => Call(q).db \in cat'.dbs \cap published'.dbs
          BY <1>10, <3>3 DEF Effect, Undoes, Creates
        <4>2. Call(q).path \in Sets => Password(cat', Call(q).user, Call(q).new)
          BY <1>11, <3>3 DEF Effect, Undoes, Sets
        <4> QED BY <1>8, <4>1, <4>2 DEF Effect
      <3> QED BY <1>7, <1>8, <3>1, <3>2, <3>4 DEF FirmOf
    <2>2. CASE q = r
      <3> SUFFICES ASSUME firm'[r] PROVE FirmOf(r)'
        BY <2>2 DEF FirmOf
      <3>1. server = "W" /\ k = cat /\ c.path \in Sets \cup {Creates}
        BY <1>4, <1>7 DEF k
      <3>2. net'[r].at \in {"back", "lost"}
        BY <1>6
      <3>3. net'[r].at = "back" /\ net'[r].status = "ok" => outcome = "answered" /\ result.status = "ok"
        BY <1>6
      <3>4. cat' = result.cat
        BY <1>5, <3>1 DEF changes
      <3>5. outcome = "answered" /\ result.status = "ok" => Effect(c)'
        <4> SUFFICES ASSUME outcome = "answered", result.status = "ok" PROVE Effect(c)'
          OBVIOUS
        <4>1. c.path = Creates => c.db \in cat'.dbs \cap published'.dbs
          <5> SUFFICES ASSUME c.path = Creates PROVE c.db \in cat'.dbs \cap published'.dbs
            OBVIOUS
          <5>1. c.db \in result.cat.dbs /\ c.db \notin cat.dbs
            BY <1>3, <3>1 DEF Minds
          <5>2. changes
            BY <3>1, <5>1 DEF changes
          <5> QED BY <1>5, <3>4, <5>1, <5>2
        <4>2. c.path \in Sets => Password(cat', c.user, c.new)
          BY <1>3, <3>4 DEF Minds
        <4>3. c' = c
          BY <1>8 DEF c
        <4> QED BY <4>1, <4>2, <4>3 DEF Effect
      <3> QED BY <1>7, <1>8, <3>1, <3>2, <3>3, <3>5 DEF FirmOf, c
    <2> QED BY <2>1, <2>2
  <1>16. ASSUME NEW q \in Requests PROVE SureOf(q)'
    BY <1>5, <1>8 DEF Promises, SureOf
  <1>17. ASSUME NEW q \in Requests PROVE OwedOf(q)'
    <2>1. OwedOf(q) /\ \A d \in held : HeldOf(d)
      BY DEF Promises
    <2>2. CASE q # r
      BY <1>5, <1>6, <1>8, <2>1, <2>2 DEF OwedOf
    <2>3. CASE q = r
      <3>1. CASE c.path = Lists
        <4>1. server = "R" /\ ~changes /\ k = published
          BY <1>4, <3>1 DEF changes, k
        <4>2. net'[r].shown = published.dbs
          BY <1>3, <1>5, <1>6, <3>1, <4>1
        <4>3. owed[r] \subseteq published.dbs
          BY <2>1, <2>3 DEF OwedOf, HeldOf
        <4> QED BY <1>5, <2>1, <2>3, <4>2, <4>3 DEF OwedOf
      <3>2. CASE c.path # Lists
        BY <1>5, <1>8, <2>1, <2>3, <3>2 DEF OwedOf, c
      <3> QED BY <3>1, <3>2
    <2> QED BY <2>2, <2>3
  <1>18. ASSUME NEW q \in Requests PROVE BackOf(q)'
    <2>1. BackOf(q)
      BY DEF Promises
    <2>2. result.status \in {"ok", "error"}
      BY <1>3 DEF Minds
    <2>3. CASE q # r
      BY <1>5, <1>6, <1>8, <2>1, <2>3 DEF BackOf
    <2>4. CASE q = r
      <3>1. net'[r].at = "back" => net'[r].status \in {"ok", "error"}
        BY <1>6, <2>2
      <3> QED BY <1>1, <1>5, <1>8, <2>1, <2>4, <3>1 DEF BackOf
    <2> QED BY <2>3, <2>4
  <1> QED BY <1>12, <1>13, <1>14, <1>15, <1>16, <1>17, <1>18 DEF Promises

\* What was promised survives a crash, for the writer's changes are on disk; a
\* writer that starts takes back no more than what nobody counts on any more.
LEMMA ServerPromises == ASSUME IInv, Promises, NEW s \in Servers, Crash(s) \/ Start(s) PROVE Promises'
  <1>1. /\ UNCHANGED <<pc, input, answer, owed, held>>
        /\ up' \subseteq Servers
        /\ \A q \in Requests : net'[q] = net[q] \/ (net[q].at = "sent" /\ net'[q].at = "lost")
    <2>1. CASE Crash(s)
      BY <2>1 DEF Crash, Lost, clients, history, Promises, Shapes
    <2>2. CASE Start(s)
      BY <2>2 DEF Start, clients, Promises, Shapes
    <2> QED BY <2>1, <2>2
  <1> DEFINE kept(u, w) == Password(cat, u, w) => Password(cat', u, w)
  <1>2. /\ Shaped(cat') /\ Shaped(published')
        /\ \A d \in cat.dbs \cap published.dbs : d \in cat'.dbs \cap published'.dbs
        /\ firm' \in [Requests -> BOOLEAN] /\ sure' \in [Requests -> BOOLEAN] /\ DOMAIN promised' = Users
        /\ \A u \in Users : promised'[u] # None => promised'[u] = promised[u] /\ kept(u, promised[u])
        /\ \A q \in Requests : sure'[q] => sure[q] /\ promised'[Creds(q)[1]] = promised[Creds(q)[1]]
        /\ \A q \in Requests : firm'[q] => firm[q] /\ (Call(q).path \in Sets => kept(Call(q).user, Call(q).new))
    <2>1. CASE UNCHANGED <<cat, published, firm, sure, promised>>
      <3>1. Shapes
        BY DEF Promises
      <3> QED BY <2>1, <3>1 DEF Shapes
    <2>2. CASE Start(s) /\ s = "W"
      <3>1. cat' = EnsureDefaults(cat) /\ published' = cat' /\ Shapes
        BY <2>2 DEF Start, Promises
      <3>2. Shaped(cat') /\ cat.dbs \subseteq cat'.dbs /\ \A u, w : ~TakenBack(u, w) => kept(u, w)
        BY <3>1, DefaultsKeep DEF Shapes
      <3> HIDE DEF kept
      <3>3. \A u \in Users : promised'[u] = IF TakenBack(u, promised[u]) THEN None ELSE promised[u]
        BY <2>2 DEF Start
      <3>4. \A u \in Users : promised'[u] # None => promised'[u] = promised[u] /\ kept(u, promised[u])
        BY <3>2, <3>3
      <3>5. DOMAIN promised' = Users /\ firm' \in [Requests -> BOOLEAN] /\ sure' \in [Requests -> BOOLEAN]
        <4> DEFINE stays(q) == ~TakenBack(Creds(q)[1], Creds(q)[2])
                   done(q) == ~(Call(q).path[1] = "users" /\ TakenBack(Call(q).user, Call(q).new))
        <4>1. /\ sure' = [q \in Requests |-> sure[q] /\ stays(q)]
              /\ firm' = [q \in Requests |-> firm[q] /\ done(q)]
              /\ promised' = [u \in Users |-> IF TakenBack(u, promised[u]) THEN None ELSE promised[u]]
          BY <2>2 DEF Start
        <4> HIDE DEF stays, done
        <4>2. \A q \in Requests : (sure[q] /\ stays(q)) \in BOOLEAN /\ (firm[q] /\ done(q)) \in BOOLEAN
          BY Zenon
        <4>3. sure' \in [Requests -> BOOLEAN] /\ firm' \in [Requests -> BOOLEAN]
          BY <4>1, <4>2, Zenon
        <4>4. DOMAIN promised' = Users
          BY <4>1, Zenon
        <4> QED BY <4>3, <4>4
      <3>6. ASSUME NEW q \in Requests, sure'[q]
            PROVE  sure[q] /\ promised'[Creds(q)[1]] = promised[Creds(q)[1]]
        <4>1. sure[q] /\ ~TakenBack(Creds(q)[1], Creds(q)[2])
          BY <2>2, <3>6 DEF Start
        <4>2. Creds(q) \in Users \X Passwords /\ promised[Creds(q)[1]] = Creds(q)[2]
          BY <4>1 DEF Promises, SureOf
        <4> QED BY <3>3, <4>1, <4>2
      <3>7. ASSUME NEW q \in Requests, firm'[q]
            PROVE  firm[q] /\ (Call(q).path \in Sets => kept(Call(q).user, Call(q).new))
        <4>1. firm[q] /\ ~(Call(q).path[1] = "users" /\ TakenBack(Call(q).user, Call(q).new))
          BY <2>2, <3>7 DEF Start
        <4>2. Call(q).path \in Sets => Call(q).path[1] = "users"
          BY DEF Sets
        <4> QED BY <3>2, <4>1, <4>2
      <3>8. Shaped(published') /\ \A d \in cat.dbs \cap published.dbs : d \in cat'.dbs \cap published'.dbs
        BY <3>1, <3>2
      <3>9. \A q \in Requests : sure'[q] => sure[q] /\ promised'[Creds(q)[1]] = promised[Creds(q)[1]]
        BY <3>6
      <3>10. \A q \in Requests : firm'[q] => firm[q] /\ (Call(q).path \in Sets => kept(Call(q).user, Call(q).new))
        BY <3>7
      <3> QED BY <3>2, <3>4, <3>5, <3>8, <3>9, <3>10, Zenon
    <2>3. Crash(s) => UNCHANGED <<cat, published, firm, sure, promised>>
      BY DEF Crash, history
    <2>4. Start(s) /\ s # "W" => UNCHANGED <<cat, published, firm, sure, promised>>
      BY DEF Start
    <2> QED BY <2>1, <2>2, <2>3, <2>4
  <1>3. /\ \A q \in Requests : Call(q)' = Call(q) /\ Creds(q)' = Creds(q)
        /\ \A q \in Requests : Unresolved(q)' => Unresolved(q)
    BY <1>1 DEF Call, Creds, Unresolved
  <1>4. Shapes'
    BY <1>1, <1>2 DEF Promises, Shapes
  <1>5. ASSUME NEW d \in held' PROVE HeldOf(d)'
    <2>1. HeldOf(d)
      BY <1>1, <1>5 DEF Promises
    <2> QED BY <1>2, <1>3, <2>1 DEF HeldOf
  <1>6. ASSUME NEW u \in Users PROVE PromisedOf(u)'
    <2>1. PromisedOf(u)
      BY DEF Promises
    <2> QED BY <1>2, <1>3, <2>1 DEF PromisedOf
  <1>7. ASSUME NEW q \in Requests PROVE FirmOf(q)' /\ SureOf(q)' /\ OwedOf(q)' /\ BackOf(q)'
    <2>1. FirmOf(q) /\ SureOf(q) /\ OwedOf(q) /\ BackOf(q)
      BY DEF Promises
    <2>2. firm'[q] /\ Effect(Call(q)) => Effect(Call(q))'
      BY <1>2, <1>3 DEF Effect
    <2>3. FirmOf(q)'
      BY <1>1, <1>2, <1>3, <2>1, <2>2 DEF FirmOf
    <2>4. SureOf(q)'
      BY <1>1, <1>2, <1>3, <2>1 DEF SureOf
    <2>5. OwedOf(q)'
      BY <1>1, <1>3, <2>1 DEF OwedOf
    <2>6. BackOf(q)'
      BY <1>1, <1>3, <2>1 DEF BackOf
    <2> QED BY <2>3, <2>4, <2>5, <2>6
  <1> QED BY <1>4, <1>5, <1>6, <1>7 DEF Promises

LEMMA PromisesKept == IInv /\ Promises /\ [Next]_vars => Promises'
  <1> SUFFICES ASSUME IInv, Promises, [Next]_vars PROVE Promises'
    OBVIOUS
  <1>1. CASE UNCHANGED vars
    <2> USE <1>1 DEF vars, history, Promises, Call, Creds, Unresolved
    <2>1. Shapes'
      BY DEF Shapes
    <2>2. \A d \in held' : HeldOf(d)'
      BY DEF HeldOf
    <2>3. \A u \in Users : PromisedOf(u)'
      BY DEF PromisedOf
    <2>4. \A q \in Requests : FirmOf(q)'
      BY DEF FirmOf, Effect
    <2>5. \A q \in Requests : SureOf(q)' /\ OwedOf(q)' /\ BackOf(q)'
      BY DEF SureOf, OwedOf, BackOf
    <2> QED BY <2>1, <2>2, <2>3, <2>4, <2>5
  <1> QED BY <1>1, ArrivePromises, StepPromises, ExecPromises, ServerPromises DEF Next, Serve

LEMMA PromisesHold == Spec => []Promises
  <1>1. Init => Promises
    BY InitPromises
  <1>2. IInv /\ Promises /\ [Next]_vars => Promises'
    BY PromisesKept
  <1> QED BY <1>1, <1>2, InvHolds, PTL DEF Spec

\* For any catalog, requests and faults: a user who was told that a password is
\* set is not refused with it before somebody asks to change it.  A crash of the
\* writer takes no password back, and the defaults it sees to when it starts only
\* one: the bootstrap user's, if it is not the environment's, which therefore
\* counts until that start (UserService, ensure_defaults).
THEOREM PasswordsWork == Spec => []AckedPasswordWorks
  <1>1. Promises => AckedPasswordWorks
    BY DEF Promises, SureOf, AckedPasswordWorks
  <1> QED BY <1>1, PromisesHold, PTL

\* The reader's list of databases contains what the writer acknowledged before
\* it was asked for, for any requests and faults: the writer publishes before
\* it answers, and a restart keeps both copies (Catalog.publish_snapshot).
THEOREM AckedDatabasesAreListed == Spec => []ListsShowAcked
  <1>1. Promises => ListsShowAcked
    <2> SUFFICES ASSUME Promises, NEW r \in Requests, Call(r).path = Lists, answer[r] = "ok"
                 PROVE  owed[r] \subseteq net[r].shown
      BY DEF ListsShowAcked, Lists
    <2>1. Lists \notin GatewayOwn
      BY DEF Lists, GatewayOwn, Health, Paths
    <2>2. BackOf(r) /\ OwedOf(r)
      BY DEF Promises
    <2> QED BY <2>1, <2>2 DEF BackOf, OwedOf
  <1> QED BY <1>1, PromisesHold, PTL
=============================================================================
