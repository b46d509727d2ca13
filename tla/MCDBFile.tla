------------------------------ MODULE MCDBFile ------------------------------
(* Names that all hash to one chain, and symmetry, for the run of DBFile.   *)
EXTENDS DBFile, TLC

OneChain == [f \in Names |-> 0]

Symmetry == Permutations(Clients) \cup Permutations(Names)
=============================================================================
