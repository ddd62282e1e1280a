---------------------------- MODULE MCImportJob ----------------------------
(***************************************************************************)
(* Instances of ImportJob for TLC.                                         *)
(***************************************************************************)
EXTENDS ImportJob

CONSTANTS main, job1
=============================================================================
