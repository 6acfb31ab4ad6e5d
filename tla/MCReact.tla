-------------------------------- MODULE MCReact --------------------------------
(* Finite instances of React: threads and valid sectors are interchangeable. *)
EXTENDS React, TLC

Symmetric == Permutations(Threads) \cup Permutations(Sectors)
================================================================================
