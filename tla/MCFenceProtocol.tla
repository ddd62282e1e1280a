--------------------------- MODULE MCFenceProtocol ---------------------------
(***************************************************************************)
(* Instances of FenceProtocol for TLC.                                     *)
(***************************************************************************)
EXTENDS FenceProtocol, TLC

CONSTANTS p1, p2, r1, r2

Of(kinds, sets) == [kind : kinds, parts : sets]

One   == {{p1}}
Other == {{p2}}
All   == {Parts}

\* Two requests of every kind but an insert that breaks off.
MixedJobs ==
    [r \in {r1, r2} |->
        Of({"insert", "import", "loadParts", "releaseParts"}, One)
          \cup Of({"insert"}, Other)
          \cup Of({"delete", "index", "load", "release"}, All)]

\* Whatever comes to a collection of a single partition.
SingleJobs ==
    [r \in {r1, r2} |-> Of({"insert", "import", "index", "load", "release"}, One)]

\* ... an insert that breaks off, and leaves its handle open, included.
FaultJobs == [r \in {r1, r2} |-> SingleJobs[r] \cup Of({"badInsert"}, One)]

\* The counterexample.
RivalJobs == [r \in {r1, r2} |-> Of({"insert"}, One)]

=============================================================================
