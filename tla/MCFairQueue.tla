----------------------------- MODULE MCFairQueue -----------------------------
(***************************************************************************)
(* Instances of FairQueue for TLC.                                         *)
(***************************************************************************)
EXTENDS FairQueue
=============================================================================
