----------------------------- MODULE MCHeapFile -----------------------------
(* Filters and symmetry for the runs of HeapFile.                           *)
EXTENDS HeapFile, TLC

CONSTANTS r1, r2, r3

AllOrNot1 == {Records, Records \ {r1}}
All == {Records}

\* A record of NeverFits bytes passes the check of InsertFileScan::insertRecord,
\* but no page takes it; of TooLong bytes, it does not pass.
NeverFits == DataSize - SlotSize + 1
TooLong   == DataSize + 1
FitOrTooLong == {RecLen, TooLong}
FitOrNot == {RecLen, NeverFits, TooLong}

Symmetry == Permutations(Scanners)
SymmetryAll == Permutations(Scanners) \cup Permutations(Records)
=============================================================================
