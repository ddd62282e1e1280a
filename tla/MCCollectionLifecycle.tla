----------------------- MODULE MCCollectionLifecycle -----------------------
(***************************************************************************)
(* Instances of CollectionLifecycle for TLC.                               *)
(***************************************************************************)
EXTENDS CollectionLifecycle

CONSTANTS a, b, main, side, ix
=============================================================================
