-------------------------- MODULE MCStage4HeapFile --------------------------
(* Filters and symmetry for the run of Stage4HeapFile.                      *)
EXTENDS Stage4HeapFile, TLC

CONSTANTS r1, r2, r3

All == {Records}

\* A record of NeverFits bytes passes the check of InsertFileScan::insertRecord,
\* but no page takes it; of TooLong bytes, it does not pass.
NeverFits == DataSize - SlotSize + 1
TooLong   == DataSize + 1
FitOrNot == {RecLen, NeverFits, TooLong}

SymmetryAll == Permutations(Scanners) \cup Permutations(Records)
=============================================================================
