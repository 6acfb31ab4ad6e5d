------------------------------ MODULE MCSlingshot ------------------------------
(***************************************************************************)
(* Bounds for TLC: a batch of two among five tokens, so that batches are   *)
(* full, short and several, and three workers one after the other.         *)
(***************************************************************************)
EXTENDS Slingshot

=============================================================================
