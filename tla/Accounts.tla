------------------------------ MODULE Accounts ------------------------------
(***************************************************************************)
(* Users, roles and databases as the writer's catalog keeps them            *)
(* (services/user.py, services/role.py, meta/catalog.py), and what each     *)
(* request does to them.  The handlers run on the writer's event loop       *)
(* without an await: each is one step.  A salted hash is modelled by what   *)
(* verify_password tells of it: which password it was made from.            *)
(***************************************************************************)
EXTENDS Naturals

CONSTANTS
    EnvUser, EnvPassword,   \* XVECTOR_USERNAME, XVECTOR_PASSWORD
    Admin,                  \* the role "admin"
    DefaultDb,              \* the database "default"
    Users, Passwords, Roles, Privileges, Databases

ASSUME AccountsAssumption ==
    EnvUser \in Users /\ EnvPassword \in Passwords /\ Admin \in Roles /\ DefaultDb \in Databases

User == [password : Passwords, roles : SUBSET Roles, bootstrap : BOOLEAN]
Catalogs == [users : UNION {[S -> User] : S \in SUBSET Users},
             roles : UNION {[S -> SUBSET Privileges] : S \in SUBSET Roles},
             dbs : SUBSET Databases]

Put(f, x, v) == [y \in DOMAIN f \cup {x} |-> IF y = x THEN v ELSE f[y]]
Without(f, x) == [y \in DOMAIN f \ {x} |-> f[y]]

-----------------------------------------------------------------------------
(* auth/password.py, UserService.verify *)
BootstrapMatches(user, password) == user = EnvUser /\ password = EnvPassword

Verify(cat, user, password) ==
    \/ BootstrapMatches(user, password)
    \/ user \in DOMAIN cat.users /\ cat.users[user].password = password

(* ensure_defaults: what the writer sees to when it starts *)
EnsureDefaults(cat) ==
    LET password == IF EnvUser \in DOMAIN cat.users /\ ~cat.users[EnvUser].bootstrap
                    THEN cat.users[EnvUser].password ELSE EnvPassword
    IN  [users |-> Put(cat.users, EnvUser, [password |-> password, roles |-> {Admin}, bootstrap |-> TRUE]),
         roles |-> IF Admin \in DOMAIN cat.roles THEN cat.roles ELSE Put(cat.roles, Admin, {}),
         dbs |-> cat.dbs \cup {DefaultDb}]

-----------------------------------------------------------------------------
(* A handler returns the catalog it leaves, its status and what it shows.   *)
Result(cat, status, shown) == [cat |-> cat, status |-> status, shown |-> shown]
Refused(cat) == Result(cat, "error", {})
Done(cat) == Result(cat, "ok", {})

\* (mutant) a user that exists is written over
CreateUser_Overwrites(cat, c) ==
    Done([cat EXCEPT !.users = Put(@, c.user, [password |-> c.new, roles |-> {}, bootstrap |-> FALSE])])
CreateUser(cat, c) ==
    IF c.user \in DOMAIN cat.users THEN Refused(cat)
    ELSE Done([cat EXCEPT !.users = Put(@, c.user, [password |-> c.new, roles |-> {}, bootstrap |-> FALSE])])

DropUser(cat, c) ==
    IF c.user = EnvUser \/ c.user \notin DOMAIN cat.users THEN Refused(cat)
    ELSE Done([cat EXCEPT !.users = Without(@, c.user)])

\* the old password is the stored one or, for the bootstrap user, the
\* environment's, which makes the user's document if there is none
UpdatePassword(cat, c) ==
    IF ~Verify(cat, c.user, c.old) THEN Refused(cat)
    ELSE LET doc == IF c.user \in DOMAIN cat.users THEN [cat.users[c.user] EXCEPT !.password = c.new]
                    ELSE [password |-> c.new, roles |-> {Admin}, bootstrap |-> TRUE]
         IN  Done([cat EXCEPT !.users = Put(@, c.user, doc)])

GrantRole(cat, c) ==
    IF c.user \notin DOMAIN cat.users \/ c.role \notin DOMAIN cat.roles THEN Refused(cat)
    ELSE Done([cat EXCEPT !.users[c.user].roles = @ \cup {c.role}])

RevokeRole(cat, c) ==
    IF c.user \notin DOMAIN cat.users THEN Refused(cat)
    ELSE Done([cat EXCEPT !.users[c.user].roles = @ \ {c.role}])

DescribeUser(cat, c) ==
    IF c.user \notin DOMAIN cat.users THEN Refused(cat) ELSE Result(cat, "ok", cat.users[c.user].roles)

CreateRole(cat, c) ==
    IF c.role \in DOMAIN cat.roles THEN Refused(cat) ELSE Done([cat EXCEPT !.roles = Put(@, c.role, {})])

\* the role stays in the lists of the users that have it
DropRole(cat, c) ==
    IF c.role = Admin \/ c.role \notin DOMAIN cat.roles THEN Refused(cat)
    ELSE Done([cat EXCEPT !.roles = Without(@, c.role)])

DescribeRole(cat, c) ==
    IF c.role \notin DOMAIN cat.roles THEN Refused(cat) ELSE Result(cat, "ok", cat.roles[c.role])

GrantPrivilege(cat, c) ==
    IF c.role \notin DOMAIN cat.roles THEN Refused(cat)
    ELSE Done([cat EXCEPT !.roles[c.role] = @ \cup {c.privilege}])

RevokePrivilege(cat, c) ==
    IF c.role \notin DOMAIN cat.roles THEN Refused(cat)
    ELSE Done([cat EXCEPT !.roles[c.role] = @ \ {c.privilege}])

CreateDatabase(cat, c) ==
    IF c.db \in cat.dbs THEN Refused(cat) ELSE Done([cat EXCEPT !.dbs = @ \cup {c.db}])

DropDatabase(cat, c) ==
    IF c.db = DefaultDb \/ c.db \notin cat.dbs THEN Refused(cat) ELSE Done([cat EXCEPT !.dbs = @ \ {c.db}])

\* the router of the writer, for the requests whose state is kept here
Handle(cat, c) ==
    CASE c.path = <<"users", "create">> -> CreateUser(cat, c)
      [] c.path = <<"users", "drop">> -> DropUser(cat, c)
      [] c.path = <<"users", "update_password">> -> UpdatePassword(cat, c)
      [] c.path = <<"users", "grant_role">> -> GrantRole(cat, c)
      [] c.path = <<"users", "revoke_role">> -> RevokeRole(cat, c)
      [] c.path = <<"users", "describe">> -> DescribeUser(cat, c)
      [] c.path \in {"users"} \X {"list", "lists"} -> Result(cat, "ok", DOMAIN cat.users)
      [] c.path = <<"roles", "create">> -> CreateRole(cat, c)
      [] c.path = <<"roles", "drop">> -> DropRole(cat, c)
      [] c.path = <<"roles", "describe">> -> DescribeRole(cat, c)
      [] c.path \in {"roles"} \X {"list", "lists"} -> Result(cat, "ok", DOMAIN cat.roles)
      [] c.path = <<"roles", "grant_privilege">> -> GrantPrivilege(cat, c)
      [] c.path = <<"roles", "revoke_privilege">> -> RevokePrivilege(cat, c)
      [] c.path = <<"databases", "create">> -> CreateDatabase(cat, c)
      [] c.path = <<"databases", "drop">> -> DropDatabase(cat, c)
      [] c.path = <<"databases", "list">> -> Result(cat, "ok", cat.dbs)
=============================================================================
