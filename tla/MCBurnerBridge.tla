--------------------------- MODULE MCBurnerBridge ---------------------------
(* Instance of BurnerBridge for TLC: sectors are interchangeable.          *)
EXTENDS BurnerBridge, TLC

SectorSymmetry == Permutations(Sectors)
=============================================================================
