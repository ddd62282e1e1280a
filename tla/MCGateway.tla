----------------------------- MODULE MCGateway -----------------------------
EXTENDS Gateway, TLC

CONSTANTS r1, r2, r3, root, u, p, q, admin, reviewer, read, default, db

MCPassword == [password |-> p, roles |-> {}, bootstrap |-> FALSE]
\* nothing but the defaults, or a user, a role and a database besides
MCCatalogs == {[users |-> <<>>, roles |-> <<>>, dbs |-> {}],
               [users |-> (u :> MCPassword), roles |-> (reviewer :> {read}), dbs |-> {db}]}

Root == <<root, p>>
Ids == <<Absent, Absent, Absent>>
Sends(creds, calls) == {[creds |-> creds, ids |-> Ids, call |-> c] : c \in calls}

UserCalls == {[path |-> <<"users", "create">>, user |-> u, new |-> q],
              [path |-> <<"users", "drop">>, user |-> u],
              [path |-> <<"users", "update_password">>, user |-> u, old |-> p, new |-> q]}
RoleCalls == {[path |-> <<"users", "grant_role">>, user |-> u, role |-> reviewer],
              [path |-> <<"users", "revoke_role">>, user |-> u, role |-> reviewer],
              [path |-> <<"users", "describe">>, user |-> u],
              [path |-> <<"roles", "create">>, role |-> reviewer],
              [path |-> <<"roles", "drop">>, role |-> reviewer],
              [path |-> <<"roles", "describe">>, role |-> reviewer],
              [path |-> <<"roles", "grant_privilege">>, role |-> reviewer, privilege |-> read],
              [path |-> <<"roles", "revoke_privilege">>, role |-> reviewer, privilege |-> read]}
DbCalls == {[path |-> <<"databases", "create">>, db |-> db], [path |-> <<"databases", "drop">>, db |-> db]}
ListDbs == [path |-> <<"databases", "list">>]

RootCall == [path |-> <<"users", "update_password">>, user |-> root, old |-> p, new |-> q]

\* the bootstrap user changes things, the other one comes with either password
MCInputs ==
    Sends(Root, UserCalls \cup DbCalls \cup RoleCalls)
    \cup Sends(<<u, p>>, {ListDbs, [path |-> <<"users", "list">>], [path |-> <<"users", "drop">>, user |-> root]})
    \cup Sends(<<u, q>>, {ListDbs, [path |-> <<"databases", "nosuch">>]})
    \cup Sends(NoCreds, {ListDbs})
    \cup {[creds |-> Root, ids |-> i, call |-> ListDbs] :
             i \in {<<Blank, Absent, Absent>>, <<Blank, <<"client">>, Absent>>, <<<<"client">>, <<"other">>, Absent>>,
                    <<Absent, Absent, Malformed>>}}
    \cup Sends(<<u, p>>, {[path |-> <<"system", "auth">>]})

Idle == [creds |-> NoCreds, ids |-> Ids, call |-> ListDbs]
Three(a, b, c) == r1 :> a @@ r2 :> b @@ r3 :> c

\* a change next to any request, and two changes of one object next to a third
\* request that shows what they left; the bootstrap user's own password too
MCWorkloads ==
    LET users == Sends(Root, UserCalls)
        dbs == Sends(Root, DbCalls)
    IN  {Three(a, b, Idle) : a \in users \cup dbs, b \in MCInputs}
        \cup {Three(a, b, Idle) : a \in Sends(Root, RoleCalls), b \in Sends(Root, RoleCalls)}
        \cup {Three(a, b, c) : a \in {x \in users : x.call.path[2] # "create"}, b \in users, c \in Sends(<<u, q>>, {ListDbs})}
        \cup {Three(a, b, c) : a \in Sends(Root, {RootCall}), b \in {Idle} \cup Sends(<<root, q>>, {[RootCall EXCEPT !.old = q, !.new = p]}),
                               c \in Sends(<<root, q>>, {ListDbs})}
        \cup {Three(a, b, c) : a \in {x \in dbs : x.call.path[2] # "create"}, b \in dbs, c \in Sends(Root, {ListDbs})}
=============================================================================
