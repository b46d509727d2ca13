----------------------------- MODULE MCCatalog ------------------------------
(* Attributes and symmetry for the runs of Catalog: a narrow and a wide x, a *)
(* y of two sizes to go with them, and one whose name is too long.           *)
EXTENDS Catalog, TLC

CONSTANTS x, y, long

Attributes == {Attr(x, 1), Attr(x, 3), Attr(y, 1), Attr(y, 2), Attr(long, 1)}

Symmetry == Permutations(Users)
=============================================================================
