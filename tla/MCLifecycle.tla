---------------------------- MODULE MCLifecycle ----------------------------
(* Lifecycle, for TLC: the configurations give its constants. *)
EXTENDS Lifecycle
=============================================================================
