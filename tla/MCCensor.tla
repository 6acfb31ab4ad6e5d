------------------------------- MODULE MCCensor -------------------------------
(* Instance of Censor for TLC.                                             *)
EXTENDS Censor, TLC

\* A refused warrant, a refused green light, or both granted.
AnyAnswer == {<<FALSE, TRUE>>, <<TRUE, FALSE>>, <<TRUE, TRUE>>}

\* No action reads the answer, and the properties that do are about steps.
WithoutAnswer == <<book, sit, outside>>

Symmetry == Permutations(Targets \ Unnumbered)
===============================================================================
