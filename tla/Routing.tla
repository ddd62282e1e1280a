------------------------------ MODULE Routing ------------------------------
(***************************************************************************)
(* Which server a path belongs to, three times over: the gateway's table,   *)
(* the routers of the two servers, and the tags of the documentation the    *)
(* gateway merges from the servers' own.  All three are kept by hand.       *)
(* A path under /v2/vectordb is <<resource, operation>>.                    *)
(***************************************************************************)
Paths(resource, ops) == {resource} \X ops

-----------------------------------------------------------------------------
(* router_table.py *)
ToWriter ==
    Paths("databases", {"create", "drop"})
    \cup Paths("aliases", {"create", "drop", "alter"})
    \cup Paths("collections", {"create", "drop", "rename", "load", "release"})
    \cup Paths("partitions", {"create", "drop", "load", "release"})
    \cup Paths("indexes", {"create", "drop"})
    \cup Paths("jobs/import", {"create", "get_progress", "list"})
    \cup Paths("import", {"create", "get_progress", "list"})
    \cup Paths("roles", {"create", "drop", "describe", "list", "lists", "grant_privilege", "revoke_privilege"})
    \cup Paths("users", {"create", "drop", "describe", "list", "lists", "update_password", "grant_role", "revoke_role"})
    \cup Paths("entities", {"insert", "upsert", "delete"})

ToReader ==
    Paths("databases", {"list", "describe"})
    \cup Paths("aliases", {"describe", "list"})
    \cup Paths("collections", {"describe", "has", "list", "get_load_state", "get_stats"})
    \cup Paths("partitions", {"has", "list", "get_stats"})
    \cup Paths("indexes", {"describe", "list"})
    \cup Paths("entities", {"get", "query", "search", "hybrid_search"})

NoTarget == "none"
Target(path) == IF path \in ToWriter THEN "W" ELSE IF path \in ToReader THEN "R" ELSE NoTarget

-----------------------------------------------------------------------------
(* build_writer_router, by resource *)
WriterCatalog ==
    Paths("databases", {"create", "drop"})
    \cup Paths("aliases", {"create", "drop", "alter"})
    \cup Paths("collections", {"create", "drop", "rename", "load", "release"})
WriterStorage ==
    Paths("partitions", {"create", "drop", "load", "release"})
    \cup Paths("indexes", {"create", "drop"})
    \cup Paths("jobs/import", {"create", "get_progress", "list"})
    \cup Paths("import", {"create", "get_progress", "list"})
WriterRoles == Paths("roles", {"create", "drop", "describe", "list", "lists", "grant_privilege", "revoke_privilege"})
WriterUsers == Paths("users", {"create", "drop", "describe", "list", "lists", "update_password", "grant_role", "revoke_role"})
WriterVectors == Paths("entities", {"insert", "upsert", "delete"})

(* build_reader_router *)
ReaderCatalog ==
    Paths("databases", {"list", "describe"})
    \cup Paths("aliases", {"describe", "list"})
    \cup Paths("collections", {"describe", "has", "list", "get_load_state", "get_stats"})
    \cup Paths("partitions", {"has", "list", "get_stats"})
    \cup Paths("indexes", {"describe", "list"})
ReaderVectors == Paths("entities", {"get", "query", "search", "hybrid_search"})

Handlers == [W |-> WriterCatalog \cup WriterStorage \cup WriterRoles \cup WriterUsers \cup WriterVectors,
             R |-> ReaderCatalog \cup ReaderVectors]

\* what each application answers next to its router, and the gateway itself;
\* /internal is in no server's documentation
Health == Paths("system", {"healthz", "readyz", "heartbeat"})
Own == [W |-> Health, R |-> Health \ {<<"system", "heartbeat">>}]
GatewayOwn == Health \cup {<<"system", "auth">>, <<"admin", "openapi/refresh">>}

-----------------------------------------------------------------------------
(* openapi_merge.py: the tag of an operation is <<role, resource>> *)
Resource ==
    [collections |-> "Collection", aliases |-> "Alias", indexes |-> "Index", partitions |-> "Partition",
     roles |-> "Role", users |-> "User", entities |-> "Vector", databases |-> "Database", import |-> "Import"]
InferResource(path) ==
    IF path[1] = "jobs/import" THEN "Import"
    ELSE IF path[1] \in DOMAIN Resource THEN Resource[path[1]] ELSE "Other"

TagForPath(path, role) ==
    IF role = "G" THEN (IF path[1] = "admin" THEN "Admin" ELSE "System") ELSE InferResource(path)

Tagged(paths, role) == {[path |-> p, role |-> role, resource |-> TagForPath(p, role)] : p \in paths}
PathsIn(docs) == {d.path : d \in docs}

\* (mutant) what the reader documents replaces what is there
MergeSchemas_ReaderWins(writer, reader) ==
    LET fromR == Tagged(reader, "R")
        fromG == {d \in Tagged(GatewayOwn, "G") : d.path \notin reader}
    IN  fromG \cup fromR \cup {d \in Tagged(writer, "W") : d.path \notin PathsIn(fromG) \cup reader}
\* the gateway's own paths first, then the writer's, then the reader's
MergeSchemas(writer, reader) ==
    LET fromG == Tagged(GatewayOwn, "G")
        fromW == {d \in Tagged(writer, "W") : d.path \notin PathsIn(fromG)}
        fromR == {d \in Tagged(reader, "R") : d.path \notin PathsIn(fromG \cup fromW)}
    IN  fromG \cup fromW \cup fromR

LocalDocs == MergeSchemas({}, {})
MergedDocs == MergeSchemas(Own.W \cup Handlers.W, Own.R \cup Handlers.R)

\* An operation in the documentation is served where the gateway sends it:
\* by the gateway itself, or by the router of the server its tag names.
Works(d) == IF d.role = "G" THEN d.path \in GatewayOwn
            ELSE d.path \in Handlers[d.role] /\ Target(d.path) = d.role /\ d.resource # "Other"
=============================================================================
