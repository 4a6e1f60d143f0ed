---------------------------- MODULE MCSourceLease ----------------------------
(***************************************************************************)
(* Instances of SourceLease for TLC.                                       *)
(***************************************************************************)
EXTENDS SourceLease
=============================================================================
