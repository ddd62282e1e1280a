--------------------------- MODULE SharedPartition ---------------------------
(***************************************************************************)
(* What the fence protocol promises about a partition directory that one   *)
(* process changes and another one reads: files change only while the      *)
(* reader has them closed, and the reader opens only the current version,  *)
(* and only when no WAL is left that the open would have to replay.        *)
(***************************************************************************)
EXTENDS Integers

CONSTANT Parts

VARIABLES version,  \* version[p]: number of changes made to p
          view,     \* view[p]: version the reader shows, or NoView
          dirty     \* dirty[p]: p has a WAL that has not been sealed

vars == <<version, view, dirty>>

NoView == -1

Init ==
    /\ version = [p \in Parts |-> 0]
    /\ view    = [p \in Parts |-> NoView]
    /\ dirty   = [p \in Parts |-> FALSE]

\* The reader closes some partitions and opens some clean ones anew.
Look ==
    /\ view' \in [Parts -> Int]
    /\ \A p \in Parts : \/ view'[p] \in {view[p], NoView}
                        \/ view'[p] = version[p] /\ ~dirty[p]
    /\ UNCHANGED <<version, dirty>>

Change(p) ==
    /\ view[p] = NoView
    /\ version' = [version EXCEPT ![p] = @ + 1]
    /\ dirty'   = [dirty EXCEPT ![p] = TRUE]
    /\ UNCHANGED view

\* Some partitions are sealed, none of which the reader shows.
SealSome ==
    /\ dirty' \in [Parts -> BOOLEAN]
    /\ \A p \in Parts : dirty'[p] # dirty[p] => dirty[p] /\ view[p] = NoView
    /\ UNCHANGED <<version, view>>

Next == Look \/ SealSome \/ \E p \in Parts : Change(p)

Spec == Init /\ [][Next]_vars
=============================================================================
