---------------------------- MODULE MCActiveSet ----------------------------
(* ActiveSet with its inductive invariant, for TLC. *)
EXTENDS ActiveSetInv
=============================================================================
