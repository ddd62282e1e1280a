---------------------------- MODULE PublishedMap ----------------------------
(***************************************************************************)
(* What the metadata store promises: a durable map that its owner changes  *)
(* one key at a time and publishes as a whole, and an observer that sees   *)
(* what was published last.                                                *)
(***************************************************************************)
CONSTANTS Docs, Values, Absent, NoFile

VARIABLES truth,  \* the durable map
          shown,  \* what is published, or NoFile
          seen    \* what the observer saw last

vars == <<truth, shown, seen>>

Nothing == [d \in Docs |-> Absent]

Init == truth = Nothing /\ shown = NoFile /\ seen = Nothing

Set(d, v) == truth' = [truth EXCEPT ![d] = v] /\ UNCHANGED <<shown, seen>>

Publish == shown' = truth /\ UNCHANGED <<truth, seen>>

See == shown # NoFile /\ seen' = shown /\ UNCHANGED <<truth, shown>>

Forget == seen' = Nothing /\ UNCHANGED <<truth, shown>>

Next == Publish \/ See \/ Forget \/ \E d \in Docs, v \in Values : Set(d, v)

Spec == Init /\ [][Next]_vars
=============================================================================
