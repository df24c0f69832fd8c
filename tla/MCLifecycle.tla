---------------------------- MODULE MCLifecycle ----------------------------
(***************************************************************************)
(* Two runs of the program: the second starts from what the first left.    *)
(***************************************************************************)
EXTENDS Lifecycle
=============================================================================
