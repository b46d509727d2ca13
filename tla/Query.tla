------------------------------- MODULE Query -------------------------------
(***************************************************************************)
(* The relational operators of stage6, record by record: QU_Insert         *)
(* (insert.C), QU_Delete (delete.C), QU_Select (select.C) and QU_Join      *)
(* (join.C) as the interpreter calls them (parser/interp.C), over heap     *)
(* files that keep the promises of RecordMap, with the comparisons of      *)
(* HeapFileScan (heapfile.C).                                              *)
(*                                                                         *)
(* A relation is the sequence of its records in the order a scan meets     *)
(* them, with the empty slots.  A statement is a sequence of steps, one    *)
(* for each record that a scan returns.                                    *)
(*                                                                         *)
(* A field is its bits, which mean what the type they are read with says.  *)
(* Strings are left out: they have no conversion and no arithmetic.        *)
(***************************************************************************)
EXTENDS Integers, Sequences, FiniteSets

CONSTANTS
    Schema,      \* attributes of each relation: a sequence of [name, type]
    Tmp,         \* the result of a query without INTO, "Tmp_Minirel_Result"
    Half,        \* half as many as there are values of an int, or of a float
    FloatBits,   \* the bits of a float with the value of a number
    Values,      \* values that WHERE compares with: sets of [type, num]
    InsertLists, \* the lists of INSERT: sequences of [name, type, num]
    Projections, \* the attribute lists of SELECT: sequences of attributes
    JoinMethods, \* values of JoinMethod, set when the program starts
    NoWhere,     \* a statement without WHERE
    NoStatement, \* none is running
    Empty,       \* an empty slot
    MaxTuples,   \* bound: slots that INSERT fills
    Capacity     \* slots of a relation when the disk is full

Relations == DOMAIN Schema
Types     == {"INTEGER", "FLOAT"}
Operators == {"LT", "LTE", "EQ", "GTE", "GT", "NE"}
Bits      == 0 .. 2 * Half - 1
Attrs     == UNION {{r} \X DOMAIN Schema[r] : r \in Relations}

TypeOf(attr) == Schema[attr[1]][attr[2]].type

\* What the bits of an int and of a float are worth.  Floats are ordered by
\* sign and magnitude, and there are two zeros; only their order matters, and
\* infinities and NaNs are left out.
Worth(type, b) == IF type = "INTEGER"
                  THEN IF b < Half THEN b ELSE b - 2 * Half
                  ELSE IF b < Half THEN b ELSE Half - b

\* A record has the bits of each attribute; a slot may be empty.
Slot(columns) == [columns -> Bits] \cup {Empty}

Wheres(r) == {NoWhere} \cup
             [attr : {a \in Attrs : a[1] = r}, op : Operators, value : Values]

\* The statements, as the interpreter passes them on.
Statement ==
    [kind : {"INSERT"}, rel : Relations, list : InsertLists]
      \cup (UNION {[kind : {"DELETE"}, rel : {r}, where : Wheres(r)] : r \in Relations})
      \cup (UNION {[kind : {"SELECT"}, rel : {r}, proj : Projections, where : Wheres(r),
                    into : Relations \cup {Tmp}] : r \in Relations})
      \cup [kind : {"JOIN"}, attr1 : Attrs, op : Operators, attr2 : Attrs,
            proj : Projections, into : Relations \cup {Tmp}, nested : BOOLEAN]

ASSUME HalfAssumption == Half \in Nat \ {0}

\* No two attributes of a relation have one name (Catalog).
ASSUME SchemaAssumption ==
    \A r \in Relations :
        /\ Len(Schema[r]) \in Nat /\ DOMAIN Schema[r] = 1 .. Len(Schema[r])
        /\ \A i \in DOMAIN Schema[r] : Schema[r][i].type \in Types
        /\ \A i, j \in DOMAIN Schema[r] : Schema[r][i].name = Schema[r][j].name => i = j
ASSUME FloatAssumption ==
    \A m, n \in DOMAIN FloatBits :
        /\ n \in Int /\ FloatBits[n] \in Bits
        /\ m < n => Worth("FLOAT", FloatBits[m]) < Worth("FLOAT", FloatBits[n])
ASSUME LiteralsAssumption ==
    /\ \A v \in Values : v.type \in Types /\ v.num \in DOMAIN FloatBits
    /\ \A list \in InsertLists :
           /\ Len(list) \in Nat /\ DOMAIN list = 1 .. Len(list)
           /\ \A i \in DOMAIN list : list[i].type \in Types /\ list[i].num \in DOMAIN FloatBits
ASSUME ProjectionsAssumption == \A proj \in Projections : proj \in Seq(Attrs)
ASSUME NamesAssumption == Tmp \notin Relations
ASSUME SentinelAssumption ==
    /\ NoStatement \notin Statement
    /\ NoWhere \notin [attr : Attrs, op : Operators, value : Values]
    /\ NoWhere \notin [col : Nat, op : Operators, type : Types, bits : Bits]
    /\ \A r \in Relations : Empty \notin [DOMAIN Schema[r] -> Bits]
    /\ \A proj \in Projections : Empty \notin [DOMAIN proj -> Bits]
ASSUME BoundsAssumption == MaxTuples \in Nat /\ Capacity \in Nat /\ MaxTuples <= Capacity

VARIABLES
    rel,     \* the records of each relation and of the temporary one
    stmt,    \* the statement that runs
    pos,     \* slots where its outer and its inner scan are, 0 before the first
    status,  \* IDLE, RUNNING, what QU_... returned, or EXIT after exit(1)
    before   \* history: the relations as the statement found them

vars == <<rel, stmt, pos, status, before>>

-----------------------------------------------------------------------------
(* Values and comparisons                                                   *)

\* atoi and atof of a literal, stored as a type.
BitsOf(type, num) == IF type = "INTEGER" THEN num % (2 * Half) ELSE FloatBits[num]

\* The subtraction of ints wraps.
Wrap(n) == ((n + Half) % (2 * Half)) - Half

diff(type, a, f) == LET d == Worth(type, a) - Worth(type, f)
                    IN  IF type = "INTEGER" THEN Wrap(d) ELSE d

Holds(op, d) == \/ op = "LT"  /\ d < 0
                \/ op = "LTE" /\ d <= 0
                \/ op = "EQ"  /\ d = 0
                \/ op = "GTE" /\ d >= 0
                \/ op = "GT"  /\ d > 0
                \/ op = "NE"  /\ d # 0

\* A filter is the column, the type and the operator to compare with, and the
\* bits to compare to; the column stands for offset and length.
matchRec(filter, t) ==
    filter = NoWhere \/ /\ filter.col \in DOMAIN t
                        /\ Holds(filter.op, diff(filter.type, t[filter.col], filter.bits))

\* Mutants: a scan goes on behind the slot after the one it is at; a scan goes on
\* at the slot it is at.
AheadSkips(s, filter, k) ==
    {j \in DOMAIN s : j > k + (IF k = 0 THEN 0 ELSE 1) /\ s[j] # Empty /\ matchRec(filter, s[j])}
AheadStays(s, filter, k) == {j \in DOMAIN s : j >= k /\ s[j] # Empty /\ matchRec(filter, s[j])}

\* The records a scan of s has ahead of slot k, and the first of them.
Ahead(s, filter, k) == {j \in DOMAIN s : j > k /\ s[j] # Empty /\ matchRec(filter, s[j])}
First(slots) == CHOOSE j \in slots : \A k \in slots : j <= k

-----------------------------------------------------------------------------
(* Heap files.  Inserting looks for an empty slot in the last page only,    *)
(* and where that page begins is not known here: any empty slot may be      *)
(* taken, or a new one.  Slots at the end of a page go when they are empty. *)

Put(s, t) == {[s EXCEPT ![k] = t] : k \in {j \in DOMAIN s : s[j] = Empty}}
                 \cup (IF Len(s) < Capacity THEN {Append(s, t)} ELSE {})

Full(s) == Len(s) = Capacity

Trim(s) == LET used == {k \in DOMAIN s : s[k] # Empty}
           IN  SubSeq(s, 1, IF used = {} THEN 0 ELSE CHOOSE k \in used : \A j \in used : j <= k)

-----------------------------------------------------------------------------
(* Statements                                                               *)

\* Mutant: values are taken by place.
ValueIndexOfPlace(list, i, name) == i

\* Values are taken by name; a name the list does not have gets the value that
\* stands in its place.  Their bits are those of the literal's type.
ValueIndex(list, i, name) ==
    IF \E j \in DOMAIN list : list[j].name = name
    THEN First({j \in DOMAIN list : list[j].name = name})
    ELSE i

NewRecord(r, list) ==
    [i \in DOMAIN Schema[r] |->
        LET v == list[ValueIndex(list, i, Schema[r][i].name)] IN BitsOf(v.type, v.num)]

\* DELETE converts the literal to the type it was written with.
DeleteFilter(s) ==
    IF s.where = NoWhere THEN NoWhere
    ELSE [col |-> s.where.attr[2], op |-> s.where.op, type |-> s.where.value.type,
          bits |-> BitsOf(s.where.value.type, s.where.value.num)]

\* Mutant: SELECT converts it as DELETE does.
SelectFilterOfLiteral(s) == DeleteFilter(s)

\* SELECT converts it to the type of the attribute.
SelectFilter(s) ==
    IF s.where = NoWhere THEN NoWhere
    ELSE LET type == TypeOf(s.where.attr)
         IN  [col |-> s.where.attr[2], op |-> s.where.op, type |-> type,
              bits |-> BitsOf(type, s.where.value.num)]

\* Mutant: the operator stays as it is.
FlipNothing(op) == op

\* The inner scan of a join compares the other way round.
Flip(op) == CASE op = "GT" -> "LT" [] op = "GTE" -> "LTE"
              [] op = "LT" -> "GT" [] op = "LTE" -> "GTE"
              [] OTHER -> op

InnerFilter(s, outerRec) ==
    [col |-> s.attr2[2], op |-> Flip(s.op), type |-> TypeOf(s.attr2), bits |-> outerRec[s.attr1[2]]]

\* An attribute of the outer relation's name comes from the outer record.
Output(proj, outerName, outerRec, innerRec) ==
    [i \in DOMAIN proj |-> IF proj[i][1] = outerName THEN outerRec[proj[i][2]]
                                                     ELSE innerRec[proj[i][2]]]

\* The attributes are of the relations that the query is about.
From(proj, names) == \A i \in DOMAIN proj : proj[i][1] \in names

\* Mutant: the number of attributes is not compared.
IntoWider(proj, target) ==
    target = Tmp \/ /\ target # Tmp
                    /\ \A i \in DOMAIN proj \cap DOMAIN Schema[target] :
                           TypeOf(proj[i]) = Schema[target][i].type

\* The result is new, or it has attributes of the same number and types.
Into(proj, target) ==
    \/ target = Tmp
    \/ /\ target # Tmp
       /\ Len(Schema[target]) = Len(proj)
       /\ \A i \in DOMAIN proj : TypeOf(proj[i]) = Schema[target][i].type

-----------------------------------------------------------------------------
(* Actions                                                                  *)

Init == /\ rel = [r \in Relations \cup {Tmp} |-> <<>>]
        /\ stmt = NoStatement
        /\ pos = <<0, 0>>
        /\ status = "IDLE"
        /\ before = rel

Begin(s, st) == /\ stmt' = s
                /\ status' = st
                /\ UNCHANGED <<pos, before>>

\* The scans go on from here.
Go(outer, inner) == pos' = <<outer, inner>> /\ UNCHANGED <<stmt, status, before>>

Return(st) == status' = st /\ UNCHANGED <<rel, stmt, pos, before>>

\* INSERT INTO r (...) VALUES (...), which fails on a full disk unless it finds
\* an empty slot.
QU_Insert(r, list) ==
    LET s == [kind |-> "INSERT", rel |-> r, list |-> list]
    IN  \/ /\ Len(list) # Len(Schema[r])
           /\ Begin(s, "BADCATPARM")
           /\ UNCHANGED rel
        \/ /\ Len(list) = Len(Schema[r]) /\ Full(rel[r])
           /\ Begin(s, "UNIXERR")
           /\ UNCHANGED rel
        \/ /\ Len(list) = Len(Schema[r]) /\ Len(rel[r]) < MaxTuples
           /\ Begin(s, "OK")
           /\ \E f \in Put(rel[r], NewRecord(r, list)) : rel' = [rel EXCEPT ![r] = f]

\* DELETE FROM r WHERE ...
BeginDelete(r) == \E w \in Wheres(r) :
    /\ Begin([kind |-> "DELETE", rel |-> r, where |-> w], "RUNNING")
    /\ UNCHANGED rel

\* scanNext and deleteRecord
QU_Delete ==
    /\ status = "RUNNING" /\ stmt.kind = "DELETE"
    /\ LET slots == Ahead(rel[stmt.rel], DeleteFilter(stmt), pos[1])
           j     == First(slots)
       IN  \/ /\ slots # {}
              /\ rel' = [rel EXCEPT ![stmt.rel] = Trim([@ EXCEPT ![j] = Empty])]
              /\ Go(j, 0)
           \/ slots = {} /\ Return("OK")

\* SELECT proj INTO target FROM r WHERE ...
BeginSelect(r, proj, target) == \E w \in Wheres(r) :
    /\ From(proj, {r}) /\ Into(proj, target)
    /\ Begin([kind |-> "SELECT", rel |-> r, proj |-> proj, where |-> w, into |-> target],
             "RUNNING")
    /\ UNCHANGED rel

\* scanNext, getRecord and insertRecord
ScanSelect ==
    /\ status = "RUNNING" /\ stmt.kind = "SELECT"
    /\ LET slots == Ahead(rel[stmt.rel], SelectFilter(stmt), pos[1])
           j     == First(slots)
           rec   == rel[stmt.rel][j]
       IN  \/ /\ slots # {}
              /\ \E f \in Put(rel[stmt.into], Output(stmt.proj, stmt.rel, rec, rec)) :
                     rel' = [rel EXCEPT ![stmt.into] = f]
              /\ Go(j, 0)
           \/ slots # {} /\ Full(rel[stmt.into]) /\ Return("UNIXERR")
           \/ slots = {} /\ Return("OK")

\* Only the nested loops are there; the other joins return at once.
NestedLoops(method, op) == method = "NLJoin" \/ (method = "HashJoin" /\ op # "EQ")

\* SELECT proj INTO target FROM ... WHERE attr1 op attr2.  The interpreter sets
\* both types and lengths to -1, so that QU_Join always finds them equal.
BeginJoin(attr1, op, attr2, proj, target, method) ==
    /\ From(proj, {attr1[1], attr2[1]}) /\ Into(proj, target)
    /\ Begin([kind |-> "JOIN", attr1 |-> attr1, op |-> op, attr2 |-> attr2, proj |-> proj,
              into |-> target, nested |-> NestedLoops(method, op)],
             IF NestedLoops(method, op) THEN "RUNNING" ELSE "OK")
    /\ UNCHANGED rel

Matches == IF pos[1] = 0 THEN {}
           ELSE Ahead(rel[stmt.attr2[1]], InnerFilter(stmt, rel[stmt.attr1[1]][pos[1]]), pos[2])

\* scanNext of the outer scan, at the beginning and after the inner scan
NLJoinOuter ==
    /\ status = "RUNNING" /\ stmt.kind = "JOIN"
    /\ Matches = {}
    /\ LET slots == Ahead(rel[stmt.attr1[1]], NoWhere, pos[1])
       IN  \/ slots # {} /\ Go(First(slots), 0) /\ UNCHANGED rel
           \/ slots = {} /\ Return("OK")

\* scanNext of the inner scan and insertRecord, which is asserted to succeed
NLJoinInner ==
    /\ status = "RUNNING" /\ stmt.kind = "JOIN"
    /\ Matches # {}
    /\ LET j == First(Matches)
       IN  \/ /\ \E f \in Put(rel[stmt.into], Output(stmt.proj, stmt.attr1[1],
                                                     rel[stmt.attr1[1]][pos[1]],
                                                     rel[stmt.attr2[1]][j])) :
                     rel' = [rel EXCEPT ![stmt.into] = f]
              /\ Go(pos[1], j)
           \/ Full(rel[stmt.into]) /\ Return("EXIT")

\* The interpreter prints the temporary result and destroys it.
Finish == /\ status \notin {"IDLE", "RUNNING", "EXIT"}
          /\ rel' = [rel EXCEPT ![Tmp] = <<>>]
          /\ before' = rel'
          /\ stmt' = NoStatement /\ pos' = <<0, 0>> /\ status' = "IDLE"

\* The interpreter takes one statement at a time.
Call == /\ status = "IDLE"
        /\ \/ \E r \in Relations, list \in InsertLists : QU_Insert(r, list)
           \/ \E r \in Relations : BeginDelete(r)
           \/ \E r \in Relations, proj \in Projections, target \in Relations \cup {Tmp} :
                  BeginSelect(r, proj, target)
           \/ \E attr1, attr2 \in Attrs, op \in Operators, proj \in Projections,
                 target \in Relations \cup {Tmp}, method \in JoinMethods :
                  BeginJoin(attr1, op, attr2, proj, target, method)

Step == QU_Delete \/ ScanSelect \/ NLJoinOuter \/ NLJoinInner \/ Finish

Next == Call \/ Step

\* A statement that was begun is carried on; nobody has to begin one.
Spec == Init /\ [][Next]_vars /\ WF_vars(Step)

-----------------------------------------------------------------------------
(* Properties                                                               *)

(* Slots hold records of the relation's attributes or nothing, and a scan   *)
(* is at a slot of a relation or before the first.                          *)
TypeOK ==
    /\ DOMAIN rel = Relations \cup {Tmp} /\ DOMAIN before = Relations \cup {Tmp}
    /\ \A r \in Relations : /\ rel[r] \in Seq(Slot(DOMAIN Schema[r]))
                            /\ before[r] \in Seq(Slot(DOMAIN Schema[r]))
    /\ rel[Tmp] = <<>> \/ rel[Tmp] \in Seq([DOMAIN stmt.proj -> Bits])
    /\ before[Tmp] = <<>>
    /\ \A r \in DOMAIN rel : Len(rel[r]) <= Capacity
    /\ pos \in (0 .. Capacity) \X (0 .. Capacity)
    /\ status \in {"IDLE", "RUNNING", "OK", "BADCATPARM", "UNIXERR", "EXIT"}
    /\ stmt \in Statement \cup {NoStatement}
    /\ stmt = NoStatement <=> status = "IDLE"

Used(s)     == {k \in DOMAIN s : s[k] # Empty}
Count(s, t) == Cardinality({k \in Used(s) : s[k] = t})

\* The difference of the two is a value of the type.
NoOverflow(type, a, b) ==
    type = "INTEGER" => Worth(type, a) - Worth(type, b) \in -Half .. Half - 1

\* What WHERE says of a record, if both sides are values of the attribute's type.
Satisfies(t, w) ==
    w = NoWhere \/ LET type == TypeOf(w.attr)
                   IN  Holds(w.op, Worth(type, t[w.attr[2]]) - Worth(type, BitsOf(type, w.value.num)))

Comparable(s, w) ==
    w = NoWhere \/ LET type == TypeOf(w.attr)
                   IN  \A k \in Used(s) :
                           NoOverflow(type, s[k][w.attr[2]], BitsOf(type, w.value.num))

\* The result has got records made from what a statement is to find, not more
\* than one from each, and when it is done it has one from each.
ResultIs(found, MadeFrom(_)) ==
    LET new == rel[stmt.into]
        old == before[stmt.into]
    IN  /\ \A k \in Used(new) : Count(new, new[k]) - Count(old, new[k])
                                    <= Cardinality({x \in found : MadeFrom(x) = new[k]})
        /\ status = "OK" =>
               Cardinality(Used(new)) = Cardinality(Used(old)) + Cardinality(found)

SelectIsExact ==
    LET s == before[stmt.rel]
        Projected(k) == [i \in DOMAIN stmt.proj |-> s[k][stmt.proj[i][2]]]
    IN  Comparable(s, stmt.where) =>
            ResultIs({k \in Used(s) : Satisfies(s[k], stmt.where)}, Projected)

(* SELECT finds each record that satisfies WHERE once and no other, whatever *)
(* type the literal was written with, and one that fails on the way leaves a *)
(* part of that (select.C:183-219), unless an int overflows in a comparison  *)
(* (heapfile.C:439) or the result is the relation it reads.                  *)
SelectExact == (stmt # NoStatement /\ stmt.kind = "SELECT" /\ stmt.into # stmt.rel) => SelectIsExact

(* "Selects records from the specified relation" (select.C:21): also when    *)
(* the result is that relation.  The scan then meets the records it inserts. *)
SelectsFromRelation == (stmt # NoStatement /\ stmt.kind = "SELECT") => SelectIsExact

(* A join of two relations on attributes of one type has one record for each *)
(* pair that satisfies the condition as it was written, with each attribute  *)
(* from its relation (join.C:104-162), however many empty slots, equal keys  *)
(* and operators turned round there are on the way.                          *)
JoinExact ==
    (/\ stmt # NoStatement /\ stmt.kind = "JOIN"
     /\ stmt.nested
     /\ stmt.attr1[1] # stmt.attr2[1] /\ stmt.into \notin {stmt.attr1[1], stmt.attr2[1]}
     /\ TypeOf(stmt.attr1) = TypeOf(stmt.attr2)) =>
        LET s1 == before[stmt.attr1[1]]
            s2 == before[stmt.attr2[1]]
            c1 == stmt.attr1[2]
            c2 == stmt.attr2[2]
            type  == TypeOf(stmt.attr1)
            pairs == Used(s1) \X Used(s2)
            Pair(p) == [i \in DOMAIN stmt.proj |->
                           (IF stmt.proj[i][1] = stmt.attr1[1] THEN s1[p[1]] ELSE s2[p[2]])
                               [stmt.proj[i][2]]]
        IN  (\A p \in pairs : NoOverflow(type, s2[p[2]][c2], s1[p[1]][c1])) =>
                ResultIs({p \in pairs : Holds(stmt.op, Worth(type, s1[p[1]][c1])
                                                       - Worth(type, s2[p[2]][c2]))}, Pair)

(* DELETE removes the records that satisfy WHERE and no other, and moves    *)
(* none, while its scan goes on from the slots it empties (delete.C:81-90), *)
(* if the literal has the attribute's type.                                 *)
DeleteExact ==
    (/\ stmt # NoStatement /\ stmt.kind = "DELETE" /\ status = "OK"
     /\ stmt.where # NoWhere => stmt.where.value.type = TypeOf(stmt.where.attr)
     /\ Comparable(before[stmt.rel], stmt.where)) =>
        LET s == before[stmt.rel]
        IN  rel[stmt.rel] = Trim([k \in DOMAIN s |->
                IF s[k] # Empty /\ Satisfies(s[k], stmt.where) THEN Empty ELSE s[k]])

(* INSERT that names each attribute once, in any order, and gives it a value *)
(* of its type adds one record, with each value in its place, or fails and   *)
(* leaves the relation as it was (insert.C:68-127).                          *)
InsertByName ==
    (/\ stmt # NoStatement /\ stmt.kind = "INSERT"
     /\ \A i \in DOMAIN Schema[stmt.rel] : \E j \in DOMAIN stmt.list :
            /\ stmt.list[j].name = Schema[stmt.rel][i].name
            /\ stmt.list[j].type = Schema[stmt.rel][i].type
     /\ Len(stmt.list) = Len(Schema[stmt.rel])) =>
        LET new == rel[stmt.rel]
            old == before[stmt.rel]
        IN  IF status # "OK" THEN new = old
            ELSE \E k \in Used(new) \ Used(old) :
                /\ Used(new) = Used(old) \cup {k} /\ \A j \in Used(old) : new[j] = old[j]
                /\ \A i, j \in DOMAIN stmt.list :
                       stmt.list[j].name = Schema[stmt.rel][i].name =>
                           new[k][i] = BitsOf(Schema[stmt.rel][i].type, stmt.list[j].num)

(* Every statement comes to its end: no scan stays where it is, and one that *)
(* meets what it inserts stops when the disk is full (join.C:114-162).       *)
StatementEnds == status = "RUNNING" ~> status # "RUNNING"
=============================================================================
