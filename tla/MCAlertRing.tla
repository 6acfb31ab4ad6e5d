------------------------------ MODULE MCAlertRing ------------------------------
(* Finite instances of AlertRing; producers are interchangeable. *)
EXTENDS AlertRing, TLC

Symmetric == Permutations(Producers)
================================================================================
