------------------------------ MODULE MCBufMgr ------------------------------
(* Model values and symmetry for the runs of BufMgr.                        *)
EXTENDS BufMgr, TLC

Symmetry == Permutations(Clients) \cup Permutations(Data) \cup Permutations(Files)
=============================================================================
