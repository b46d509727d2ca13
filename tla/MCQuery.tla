------------------------------ MODULE MCQuery ------------------------------
(* Two relations for the runs of Query: `left' has an int and a float, and   *)
(* `right' an int.  Numbers have four bits; a float has a sign, two bits of  *)
(* exponent and one of mantissa.                                             *)
EXTENDS Query, TLC

CONSTANTS left, right, id, weight, ref

Attr(name, type)     == [name |-> name, type |-> type]
Value(name, type, n) == [name |-> name, type |-> type, num |-> n]
Literal(type, n)     == [type |-> type, num |-> n]

Attributes == (left  :> <<Attr(id, "INTEGER"), Attr(weight, "FLOAT")>>)
           @@ (right :> <<Attr(ref, "INTEGER")>>)

Floats == (-8 :> 15) @@ (1 :> 2) @@ (3 :> 5)

Literals == {Literal("INTEGER", 1), Literal("FLOAT", 3)}

\* For `left' out of order, then with a name it does not have and an int for
\* the float; for `right'.
Lists == {<<Value(weight, "FLOAT", 1), Value(id, "INTEGER", 3)>>,
          <<Value(ref, "INTEGER", -8), Value(weight, "INTEGER", 3)>>,
          <<Value(ref, "INTEGER", 1)>>, <<Value(ref, "INTEGER", 3)>>}

AttrLists == {<< <<left, 1>> >>, << <<right, 1>> >>, << <<left, 2>>, <<right, 1>> >>}
=============================================================================
