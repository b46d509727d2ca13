--------------------------- MODULE MCPart3BufMgr ----------------------------
(* Symmetry for the run of Part3BufMgr.                                     *)
EXTENDS Part3BufMgr, TLC

Symmetry == Permutations(Clients) \cup Permutations(Data) \cup Permutations(Files)
=============================================================================
