----------------------------- MODULE MCPredatorGate -----------------------------
(* Model-checking instance of PredatorGate: sectors are interchangeable.   *)
EXTENDS PredatorGate, TLC

SectorSymmetry == Permutations(Sectors)

=============================================================================
