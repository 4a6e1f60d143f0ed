------------------------------ MODULE MCAdapter ------------------------------
(***************************************************************************)
(* Instances of Adapter for TLC.                                           *)
(***************************************************************************)
EXTENDS Adapter

DefaultAndStrict == {{}, {"negative", "excessive", "adjusted"}}
=============================================================================
