---------------------------- MODULE MCCrossValidator ----------------------------
(***************************************************************************)
(* Instance of CrossValidator for TLC: a text, one with another tick salt, *)
(* and one whose entropy and salt join to the same string as the first.    *)
(***************************************************************************)
EXTENDS CrossValidator, TLC

MCTexts ==
  {[entropy |-> <<"e">>, tick_salt |-> <<"t", Bars, "u">>],
   [entropy |-> <<"e">>, tick_salt |-> <<"wrong">>],
   [entropy |-> <<"e", Bars, "t">>, tick_salt |-> <<"u">>]}

\* nothing tells the members of these sets apart
MCSymmetry ==
  Permutations(Seeds) \cup Permutations(Secrets) \cup Permutations(SeedBuffers)
    \cup Permutations(Slots) \cup Permutations(Threads)

=============================================================================
