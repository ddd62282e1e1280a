---------------------------- MODULE MCMetaStore ----------------------------
(***************************************************************************)
(* Instances of MetaStore for TLC: a document that always exists and two   *)
(* that come and go.                                                       *)
(***************************************************************************)
EXTENDS MetaStore

CONSTANTS root, a, b
=============================================================================
