---------------------------- MODULE QueryProofs ----------------------------
(***************************************************************************)
(* Proofs about the statements, for any relations, attributes, literals    *)
(* and sizes of numbers.                                                   *)
(*                                                                         *)
(* What a scan has met of a relation is the records up to its slot that    *)
(* match (Hits).  While a statement runs, its result is what was there and *)
(* one record made from each hit (Grown), or what was there without the    *)
(* hits (Erased); at the end nothing is ahead of the scan, and the hits    *)
(* are what the statement was to find.                                     *)
(***************************************************************************)
EXTENDS Query, FiniteSetTheorems, SequenceTheorems, NaturalsInduction,
        WellFoundedInduction, TLAPS

\* For the CHOOSEs of the model: the least of a set of slots is there.
LEMMA Least ==
    ASSUME NEW T, T \subseteq Nat, T # {}
    PROVE  \E x \in T : \A y \in T : x <= y
<1>. DEFINE R == OpToRel(<, Nat)
<1>1. \A x, y \in Nat : (<<y, x>> \in R) <=> (y < x)
  BY DEF OpToRel
<1>2. IsWellFoundedOn(R, Nat)
  BY NatLessThanWellFounded
<1>. HIDE DEF R
<1>3. PICK x \in T : \A y \in T : <<y, x>> \notin R
  BY <1>2, WFMin
<1>4. \A y \in T : y \in Nat /\ x \in Nat /\ ~(y < x)
  BY <1>1, <1>3
<1>. QED BY <1>4

LEMMA FirstIs ==
    ASSUME NEW S, S \subseteq Nat, S # {}
    PROVE  First(S) \in S /\ \A k \in S : First(S) <= k
BY Least DEF First

\* The greatest of a set of slots.
LEMMA Greatest ==
    ASSUME NEW n \in Nat, NEW T, T \subseteq 0 .. n, T # {}
    PROVE  \E x \in T : \A y \in T : y <= x
<1>. DEFINE U == {n - y : y \in T}
<1>1. PICK t \in T : TRUE
  OBVIOUS
<1>2. \A y \in T : n - y \in Nat
  OBVIOUS
<1>3. U \subseteq Nat /\ n - t \in U
  BY <1>2
<1>. HIDE DEF U
<1>4. PICK u \in U : \A y \in U : u <= y
  BY <1>3, Least
<1>5. PICK x \in T : u = n - x
  BY DEF U
<1>6. ASSUME NEW y \in T PROVE y <= x
  <2>1. n - y \in U
    BY DEF U
  <2>2. n - x <= n - y
    BY <1>4, <1>5, <2>1
  <2>. QED BY <2>2
<1>. QED BY <1>6

-----------------------------------------------------------------------------
(* Values and comparisons.                                                 *)

LEMMA BitsTyped ==
    ASSUME NEW type \in Types, NEW num \in DOMAIN FloatBits
    PROVE  BitsOf(type, num) \in Bits
<1>1. num \in Int /\ FloatBits[num] \in Bits
  BY FloatAssumption
<1>2. num % (2 * Half) \in 0 .. 2 * Half - 1
  BY <1>1, HalfAssumption
<1>. QED BY <1>1, <1>2 DEF BitsOf, Bits

LEMMA WorthTyped ==
    ASSUME NEW type, NEW b \in Bits
    PROVE  Worth(type, b) \in Int
BY HalfAssumption DEF Worth, Bits

\* A difference that is a value of the type does not wrap.
LEMMA DiffExact ==
    ASSUME NEW type \in Types, NEW a \in Bits, NEW b \in Bits, NoOverflow(type, a, b)
    PROVE  diff(type, a, b) = Worth(type, a) - Worth(type, b)
<1>1. ASSUME NEW n \in -Half .. Half - 1 PROVE Wrap(n) = n
  <2>1. n + Half \in 0 .. 2 * Half - 1 /\ 2 * Half \in Nat \ {0}
    BY HalfAssumption
  <2>2. (n + Half) % (2 * Half) = n + Half
    BY <2>1
  <2>. QED BY <2>2, HalfAssumption DEF Wrap
<1>. PICK d : d = Worth(type, a) - Worth(type, b)
  OBVIOUS
<1>2. CASE type = "INTEGER"
  <2>1. d \in -Half .. Half - 1
    BY <1>2 DEF NoOverflow
  <2>2. diff(type, a, b) = Wrap(d)
    BY <1>2 DEF diff
  <2>. QED BY <1>1, <2>1, <2>2
<1>3. CASE type # "INTEGER"
  BY <1>3 DEF diff
<1>. QED BY <1>2, <1>3

\* The inner scan of a join asks the same question the other way round.
LEMMA FlipIsConverse ==
    ASSUME NEW op \in Operators, NEW a \in Int, NEW b \in Int
    PROVE  Holds(Flip(op), b - a) <=> Holds(op, a - b)
<1>1. op \in {"LT", "LTE"} => (Holds(Flip(op), b - a) <=> Holds(op, a - b))
  BY DEF Flip, Holds
<1>2. op \in {"GT", "GTE"} => (Holds(Flip(op), b - a) <=> Holds(op, a - b))
  BY DEF Flip, Holds
<1>3. op \in {"EQ", "NE"} => (Holds(Flip(op), b - a) <=> Holds(op, a - b))
  BY DEF Flip, Holds
<1>. QED BY <1>1, <1>2, <1>3 DEF Operators

-----------------------------------------------------------------------------
(* Heap files.                                                             *)

LEMMA UsedSlots ==
    ASSUME NEW S, NEW s \in Seq(S)
    PROVE  /\ Used(s) \subseteq 1 .. Len(s) /\ Used(s) \subseteq Nat \ {0}
           /\ IsFiniteSet(Used(s)) /\ Cardinality(Used(s)) \in Nat
           /\ \A k \in Used(s) : s[k] \in S
<1>1. DOMAIN s = 1 .. Len(s) /\ Len(s) \in Nat
  OBVIOUS
<1>2. Used(s) \subseteq 1 .. Len(s)
  BY <1>1 DEF Used
<1>3. IsFiniteSet(1 .. Len(s))
  BY <1>1, FS_Interval
<1>4. IsFiniteSet(Used(s)) /\ Cardinality(Used(s)) \in Nat
  BY <1>2, <1>3, FS_Subset, FS_CardinalityType
<1>. QED BY <1>1, <1>2, <1>4 DEF Used

\* A record goes into a slot that was empty or not there.
PutAt(f, s, k, t) ==
    /\ k \notin Used(s) /\ k \in Nat \ {0}
    /\ Used(f) = Used(s) \cup {k}
    /\ f[k] = t
    /\ \A j \in Used(s) : f[j] = s[j]
    /\ \/ k \in DOMAIN s /\ Len(f) = Len(s)
       \/ k = Len(f) /\ Len(f) = Len(s) + 1
    /\ Len(s) <= Capacity => Len(f) <= Capacity

LEMMA PutEffect ==
    ASSUME NEW S, NEW s \in Seq(S), NEW t \in S, t # Empty, NEW f \in Put(s, t)
    PROVE  f \in Seq(S) /\ \E k : PutAt(f, s, k, t)
<1>1. DOMAIN s = 1 .. Len(s) /\ Len(s) \in Nat /\ Capacity \in Nat
  BY BoundsAssumption
<1>2. ASSUME NEW k \in DOMAIN s, s[k] = Empty, f = [s EXCEPT ![k] = t]
      PROVE  f \in Seq(S) /\ \E j : PutAt(f, s, j, t)
  <2>1. f \in Seq(S) /\ Len(f) = Len(s)
    BY <1>1, <1>2, ExceptSeq
  <2>2. DOMAIN f = DOMAIN s /\ f[k] = t /\ \A j \in DOMAIN s : j # k => f[j] = s[j]
    BY <1>2
  <2>3. Used(f) = Used(s) \cup {k} /\ k \notin Used(s)
    BY <1>2, <2>2 DEF Used
  <2>4. k \in Nat \ {0} /\ \A j \in Used(s) : f[j] = s[j]
    BY <1>1, <2>2, <2>3 DEF Used
  <2>5. PutAt(f, s, k, t)
    BY <2>1, <2>2, <2>3, <2>4 DEF PutAt
  <2>. QED BY <2>1, <2>5
<1>3. ASSUME Len(s) < Capacity, f = Append(s, t)
      PROVE  f \in Seq(S) /\ \E j : PutAt(f, s, j, t)
  <2>. DEFINE k == Len(s) + 1
  <2>1. f \in Seq(S) /\ Len(f) = k
    BY <1>3
  <2>2. DOMAIN f = DOMAIN s \cup {k} /\ f[k] = t /\ \A j \in DOMAIN s : f[j] = s[j]
    BY <1>1, <1>3
  <2>3. Used(f) = Used(s) \cup {k} /\ k \notin Used(s)
    BY <1>1, <2>2 DEF Used
  <2>4. PutAt(f, s, k, t)
    BY <1>1, <1>3, <2>1, <2>2, <2>3 DEF PutAt, Used
  <2>. QED BY <2>1, <2>4
<1>. QED BY <1>2, <1>3 DEF Put

\* Empty slots at the end go, and nothing else.
LastUsed(s) == IF Used(s) = {} THEN 0 ELSE CHOOSE k \in Used(s) : \A j \in Used(s) : j <= k

LEMMA LastUsedIs ==
    ASSUME NEW S, NEW s \in Seq(S)
    PROVE  /\ LastUsed(s) \in 0 .. Len(s)
           /\ \A k \in Used(s) : k <= LastUsed(s)
           /\ Used(s) = {} => LastUsed(s) = 0
           /\ Used(s) # {} => LastUsed(s) \in Used(s)
<1>1. CASE Used(s) = {}
  BY <1>1 DEF LastUsed
<1>2. CASE Used(s) # {}
  <2>1. Len(s) \in Nat /\ Used(s) \subseteq 0 .. Len(s)
    BY UsedSlots
  <2>2. \E k \in Used(s) : \A j \in Used(s) : j <= k
    BY <1>2, <2>1, Greatest
  <2>. QED BY <1>2, <2>1, <2>2 DEF LastUsed
<1>. QED BY <1>1, <1>2

LEMMA TrimEffect ==
    ASSUME NEW S, NEW s \in Seq(S)
    PROVE  /\ Trim(s) \in Seq(S)
           /\ Len(Trim(s)) = LastUsed(s) /\ Len(Trim(s)) <= Len(s)
           /\ \A k \in 1 .. LastUsed(s) : Trim(s)[k] = s[k]
           /\ Used(Trim(s)) = Used(s)
<1>1. LastUsed(s) \in 0 .. Len(s) /\ Len(s) \in Nat /\ DOMAIN s = 1 .. Len(s)
  BY LastUsedIs
<1>2. Trim(s) = SubSeq(s, 1, LastUsed(s))
  BY DEF Trim, LastUsed, Used
<1>3. \A k \in 1 .. LastUsed(s) : s[k] \in S
  BY <1>1
<1>4. /\ Trim(s) \in Seq(S)
      /\ Len(Trim(s)) = LastUsed(s)
      /\ \A k \in 1 .. LastUsed(s) : Trim(s)[k] = s[k]
  BY <1>1, <1>2, <1>3, SubSeqProperties
<1>5. DOMAIN Trim(s) = 1 .. LastUsed(s)
  BY <1>4
<1>6. Used(Trim(s)) = Used(s)
  BY <1>1, <1>4, <1>5, LastUsedIs DEF Used
<1>. QED BY <1>1, <1>4, <1>6

\* What is left does not depend on the empty slots behind the last record.
LEMMA TrimSame ==
    ASSUME NEW S, NEW s \in Seq(S), NEW u \in Seq(S), Used(s) = Used(u),
           \A k \in Used(s) : s[k] = u[k]
    PROVE  Trim(s) = Trim(u)
<1>1. LastUsed(s) = LastUsed(u)
  BY DEF LastUsed
<1>2. \A k \in 1 .. LastUsed(s) : k \in DOMAIN s /\ k \in DOMAIN u
  BY <1>1, LastUsedIs
<1>3. \A k \in 1 .. LastUsed(s) : s[k] = u[k]
  BY <1>2 DEF Used
<1>4. /\ Trim(s) \in Seq(S) /\ Trim(u) \in Seq(S)
      /\ Len(Trim(s)) = Len(Trim(u))
      /\ \A k \in 1 .. Len(Trim(s)) : Trim(s)[k] = Trim(u)[k]
  BY <1>1, <1>3, TrimEffect
<1>. QED BY <1>4, SeqEqual

\* A relation that ends with a record is as it would be trimmed.
LEMMA TrimNothing ==
    ASSUME NEW S, NEW s \in Seq(S), s # <<>> => Len(s) \in Used(s)
    PROVE  Trim(s) = s
<1>1. LastUsed(s) = Len(s)
  <2>1. LastUsed(s) \in 0 .. Len(s) /\ Len(s) \in Nat /\ \A k \in Used(s) : k <= LastUsed(s)
    BY LastUsedIs
  <2>2. CASE s = <<>>
    BY <2>1, <2>2
  <2>3. CASE s # <<>>
    BY <2>1, <2>3
  <2>. QED BY <2>2, <2>3
<1>. QED BY <1>1, TrimEffect, SeqEqual

-----------------------------------------------------------------------------
(* The inductive invariant.                                                *)

Names  == Relations \cup {Tmp}
Target == IF stmt.kind \in {"INSERT", "DELETE"} THEN stmt.rel ELSE stmt.into

\* No relation has an empty slot at its end.
Ended(s) == s = <<>> \/ Len(s) \in Used(s)

\* A statement changes its target and nothing else.
Frame ==
    /\ \A r \in Names : Ended(rel[r]) /\ Ended(before[r])
    /\ \A r \in Names : stmt = NoStatement \/ r # Target => rel[r] = before[r]
    /\ stmt = NoStatement => pos = <<0, 0>>

\* The records that a scan has met up to slot k.
Hits(s, filter, k) == {j \in DOMAIN s : j <= k /\ s[j] # Empty /\ matchRec(filter, s[j])}

Erased(s, slots) == [k \in DOMAIN s |-> IF k \in slots THEN Empty ELSE s[k]]

\* One record for each of what was found, made of it.
Grown(new, old, found, made) ==
    /\ Cardinality(Used(new)) = Cardinality(Used(old)) + Cardinality(found)
    /\ \A t : Count(new, t) = Count(old, t) + Cardinality({x \in found : made[x] = t})

Inserted ==
    \/ status = "BADCATPARM" /\ Len(stmt.list) # Len(Schema[stmt.rel])
    \/ /\ status = "UNIXERR" /\ Len(stmt.list) = Len(Schema[stmt.rel])
       /\ rel[stmt.rel] = before[stmt.rel]
    \/ /\ status = "OK" /\ Len(stmt.list) = Len(Schema[stmt.rel])
       /\ rel[stmt.rel] \in Put(before[stmt.rel], NewRecord(stmt.rel, stmt.list))

Deleted ==
    LET s == before[stmt.rel]
        f == DeleteFilter(stmt)
    IN  /\ rel[stmt.rel] = Trim(Erased(s, Hits(s, f, pos[1])))
        /\ status = "OK" => Ahead(s, f, pos[1]) = {}

Selected ==
    LET s == before[stmt.rel]
        f == SelectFilter(stmt)
    IN  /\ From(stmt.proj, {stmt.rel}) /\ Into(stmt.proj, stmt.into)
        /\ stmt.into # stmt.rel =>
               /\ Grown(rel[stmt.into], before[stmt.into], Hits(s, f, pos[1]),
                        [j \in Used(s) |-> Output(stmt.proj, stmt.rel, s[j], s[j])])
               /\ status = "OK" => Ahead(s, f, pos[1]) = {}

\* The pairs that a join has met, in the order of the outer and the inner scan.
Met(s1, s2) ==
    {p \in Used(s1) \X Used(s2) :
        /\ p[1] < pos[1] \/ (p[1] = pos[1] /\ p[2] <= pos[2])
        /\ matchRec(InnerFilter(stmt, s1[p[1]]), s2[p[2]])}

Joined ==
    LET s1 == before[stmt.attr1[1]]
        s2 == before[stmt.attr2[1]]
    IN  /\ From(stmt.proj, {stmt.attr1[1], stmt.attr2[1]}) /\ Into(stmt.proj, stmt.into)
        /\ pos[1] = 0 \/ pos[1] \in Used(rel[stmt.attr1[1]])
        /\ stmt.into \notin {stmt.attr1[1], stmt.attr2[1]} =>
               /\ Grown(rel[stmt.into], before[stmt.into], Met(s1, s2),
                        [p \in Used(s1) \X Used(s2) |->
                            Output(stmt.proj, stmt.attr1[1], s1[p[1]], s2[p[2]])])
               /\ stmt.nested /\ status = "OK" =>
                      Matches = {} /\ Ahead(s1, NoWhere, pos[1]) = {}

IInv == /\ TypeOK /\ Frame
        /\ stmt # NoStatement =>
               /\ stmt.kind = "INSERT" => Inserted
               /\ stmt.kind = "DELETE" => Deleted
               /\ stmt.kind = "SELECT" => Selected
               /\ stmt.kind = "JOIN" => Joined

-----------------------------------------------------------------------------
(* Statements and what they compare and make.                              *)

LEMMA StatementFields ==
    ASSUME NEW s \in Statement
    PROVE  /\ s # NoStatement /\ s.kind \in {"INSERT", "DELETE", "SELECT", "JOIN"}
           /\ s.kind = "INSERT" => s.rel \in Relations /\ s.list \in InsertLists
           /\ s.kind = "DELETE" => s.rel \in Relations /\ s.where \in Wheres(s.rel)
           /\ s.kind = "SELECT" => /\ s.rel \in Relations /\ s.where \in Wheres(s.rel)
                                   /\ s.proj \in Projections /\ s.into \in Names
           /\ s.kind = "JOIN" => /\ s.attr1 \in Attrs /\ s.attr2 \in Attrs
                                 /\ s.op \in Operators /\ s.nested \in BOOLEAN
                                 /\ s.proj \in Projections /\ s.into \in Names
<1>1. CASE s \in [kind : {"INSERT"}, rel : Relations, list : InsertLists]
  BY <1>1, SentinelAssumption
<1>2. CASE s \in UNION {[kind : {"DELETE"}, rel : {r}, where : Wheres(r)] : r \in Relations}
  BY <1>2, SentinelAssumption
<1>3. CASE s \in UNION {[kind : {"SELECT"}, rel : {r}, proj : Projections, where : Wheres(r),
                         into : Relations \cup {Tmp}] : r \in Relations}
  BY <1>3, SentinelAssumption DEF Names
<1>4. CASE s \in [kind : {"JOIN"}, attr1 : Attrs, op : Operators, attr2 : Attrs,
                  proj : Projections, into : Relations \cup {Tmp}, nested : BOOLEAN]
  BY <1>4, SentinelAssumption DEF Names
<1>. QED BY <1>1, <1>2, <1>3, <1>4 DEF Statement

LEMMA AttrFields ==
    ASSUME NEW a \in Attrs
    PROVE  /\ a[1] \in Relations /\ a[2] \in DOMAIN Schema[a[1]] /\ a[2] \in Nat
           /\ TypeOf(a) \in Types
<1>1. PICK r \in Relations : a \in {r} \X DOMAIN Schema[r]
  BY DEF Attrs
<1>2. a[1] = r /\ a[2] \in DOMAIN Schema[r]
  BY <1>1
<1>. QED BY <1>2, SchemaAssumption DEF TypeOf

LEMMA WhereFields ==
    ASSUME NEW r \in Relations, NEW w \in Wheres(r), w # NoWhere
    PROVE  /\ w.attr \in Attrs /\ w.attr[1] = r /\ w.op \in Operators
           /\ w.value.type \in Types /\ w.value.num \in DOMAIN FloatBits
<1>1. w.attr \in Attrs /\ w.attr[1] = r /\ w.op \in Operators /\ w.value \in Values
  BY DEF Wheres
<1>. QED BY <1>1, LiteralsAssumption

\* A filter that compares column col with bits b.
Filter(col, op, type, b) == [col |-> col, op |-> op, type |-> type, bits |-> b]

LEMMA MatchIs ==
    ASSUME NEW col \in Nat, NEW op \in Operators, NEW type \in Types, NEW b \in Bits,
           NEW C, NEW t \in [C -> Bits], col \in C, NoOverflow(type, t[col], b)
    PROVE  matchRec(Filter(col, op, type, b), t) <=>
               Holds(op, Worth(type, t[col]) - Worth(type, b))
<1>. DEFINE f == Filter(col, op, type, b)
<1>1. f # NoWhere
  BY SentinelAssumption DEF Filter
<1>2. f.col = col /\ f.op = op /\ f.type = type /\ f.bits = b
  BY DEF Filter
<1>3. t[col] \in Bits /\ DOMAIN t = C
  OBVIOUS
<1>4. diff(type, t[col], b) = Worth(type, t[col]) - Worth(type, b)
  BY <1>3, DiffExact
<1>. QED BY <1>1, <1>2, <1>3, <1>4 DEF matchRec

\* The filter that asks what WHERE says.
Asked(w) == IF w = NoWhere THEN NoWhere
            ELSE Filter(w.attr[2], w.op, TypeOf(w.attr), BitsOf(TypeOf(w.attr), w.value.num))

LEMMA AskedSatisfies ==
    ASSUME NEW r \in Relations, NEW w \in Wheres(r), NEW q \in Seq(Slot(DOMAIN Schema[r])),
           Comparable(q, w), NEW k \in Used(q)
    PROVE  matchRec(Asked(w), q[k]) <=> Satisfies(q[k], w)
<1>1. CASE w = NoWhere
  BY <1>1 DEF Asked, matchRec, Satisfies
<1>2. CASE w # NoWhere
  <2>. DEFINE type == TypeOf(w.attr)  b == BitsOf(type, w.value.num)
  <2>1. /\ w.attr \in Attrs /\ w.attr[1] = r /\ w.op \in Operators
        /\ w.value.num \in DOMAIN FloatBits
    BY <1>2, WhereFields
  <2>2. /\ type \in Types /\ w.attr[2] \in Nat /\ w.attr[2] \in DOMAIN Schema[r]
    BY <2>1, AttrFields
  <2>3. b \in Bits
    BY <2>1, <2>2, BitsTyped
  <2>4. q[k] \in [DOMAIN Schema[r] -> Bits]
    BY UsedSlots DEF Used, Slot
  <2>5. NoOverflow(type, q[k][w.attr[2]], b)
    BY <1>2 DEF Comparable
  <2>6. Asked(w) = Filter(w.attr[2], w.op, type, b)
    BY <1>2 DEF Asked
  <2>7. matchRec(Asked(w), q[k]) <=> Holds(w.op, Worth(type, q[k][w.attr[2]]) - Worth(type, b))
    BY <2>1, <2>2, <2>3, <2>4, <2>5, <2>6, MatchIs
  <2>. QED BY <1>2, <2>7 DEF Satisfies
<1>. QED BY <1>1, <1>2

LEMMA SelectAsks ==
    ASSUME NEW s
    PROVE  SelectFilter(s) = Asked(s.where)
BY DEF SelectFilter, Asked, Filter

\* DELETE asks it if the literal has the attribute's type.
LEMMA DeleteAsks ==
    ASSUME NEW s, s.where # NoWhere => s.where.value.type = TypeOf(s.where.attr)
    PROVE  DeleteFilter(s) = Asked(s.where)
BY DEF DeleteFilter, Asked, Filter


\* What SELECT and a join make has a value for each attribute of the list.
LEMMA OutputTyped ==
    ASSUME NEW proj \in Projections, NEW o \in Relations, NEW i \in Relations,
           From(proj, {o, i}), NEW t1 \in [DOMAIN Schema[o] -> Bits],
           NEW t2 \in [DOMAIN Schema[i] -> Bits]
    PROVE  Output(proj, o, t1, t2) \in [DOMAIN proj -> Bits] /\ Output(proj, o, t1, t2) # Empty
<1>1. proj \in Seq(Attrs)
  BY ProjectionsAssumption
<1>2. ASSUME NEW c \in DOMAIN proj
      PROVE  (IF proj[c][1] = o THEN t1[proj[c][2]] ELSE t2[proj[c][2]]) \in Bits
  <2>1. proj[c] \in Attrs
    BY <1>1
  <2>2. proj[c][2] \in DOMAIN Schema[proj[c][1]]
    BY <2>1, AttrFields
  <2>. QED BY <2>2 DEF From
<1>3. Output(proj, o, t1, t2) \in [DOMAIN proj -> Bits]
  BY <1>2 DEF Output
<1>. QED BY <1>3, SentinelAssumption

LEMMA IntoColumns ==
    ASSUME NEW proj \in Projections, NEW r \in Relations, Into(proj, r)
    PROVE  DOMAIN proj = DOMAIN Schema[r]
<1>1. r # Tmp
  BY NamesAssumption
<1>2. proj \in Seq(Attrs) /\ Len(Schema[r]) = Len(proj)
  BY <1>1, ProjectionsAssumption DEF Into
<1>. QED BY <1>2, SchemaAssumption

\* A list of as many values as there are attributes has one for each of them.
LEMMA ValueIndexIn ==
    ASSUME NEW r \in Relations, NEW list \in InsertLists, Len(list) = Len(Schema[r]),
           NEW i \in DOMAIN Schema[r], NEW name
    PROVE  ValueIndex(list, i, name) \in DOMAIN list
<1>1. DOMAIN list = 1 .. Len(list) /\ DOMAIN Schema[r] = DOMAIN list
  BY LiteralsAssumption, SchemaAssumption
<1>2. CASE \E j \in DOMAIN list : list[j].name = name
  <2>. DEFINE named == {j \in DOMAIN list : list[j].name = name}
  <2>1. named \subseteq Nat /\ named # {}
    BY <1>1, <1>2, LiteralsAssumption
  <2>2. ValueIndex(list, i, name) = First(named)
    BY <1>2 DEF ValueIndex
  <2>. QED BY <2>1, <2>2, FirstIs
<1>3. CASE ~\E j \in DOMAIN list : list[j].name = name
  BY <1>1, <1>3 DEF ValueIndex
<1>. QED BY <1>2, <1>3

LEMMA NewRecordTyped ==
    ASSUME NEW r \in Relations, NEW list \in InsertLists, Len(list) = Len(Schema[r])
    PROVE  NewRecord(r, list) \in [DOMAIN Schema[r] -> Bits] /\ NewRecord(r, list) # Empty
<1>1. ASSUME NEW i \in DOMAIN Schema[r]
      PROVE  LET v == list[ValueIndex(list, i, Schema[r][i].name)]
             IN  BitsOf(v.type, v.num) \in Bits
  <2>. PICK n : n = ValueIndex(list, i, Schema[r][i].name)
    OBVIOUS
  <2>1. n \in DOMAIN list
    BY ValueIndexIn
  <2>2. list[n].type \in Types /\ list[n].num \in DOMAIN FloatBits
    BY <2>1, LiteralsAssumption
  <2>. QED BY <2>2, BitsTyped
<1>2. NewRecord(r, list) \in [DOMAIN Schema[r] -> Bits]
  BY <1>1 DEF NewRecord
<1>. QED BY <1>2, SentinelAssumption

-----------------------------------------------------------------------------
(* Scans.                                                                  *)

LEMMA HitsNone ==
    ASSUME NEW S, NEW s \in Seq(S), NEW f
    PROVE  Hits(s, f, 0) = {}
<1>1. DOMAIN s \subseteq Nat \ {0}
  OBVIOUS
<1>. QED BY <1>1 DEF Hits

LEMMA HitsNext ==
    ASSUME NEW S, NEW s \in Seq(S), NEW f, NEW k \in Nat, Ahead(s, f, k) # {},
           NEW j, j = First(Ahead(s, f, k))
    PROVE  /\ j \in Used(s) /\ j > k /\ j \in Nat /\ matchRec(f, s[j])
           /\ j \notin Hits(s, f, k) /\ Hits(s, f, j) = Hits(s, f, k) \cup {j}
<1>1. DOMAIN s \subseteq Nat /\ Ahead(s, f, k) \subseteq Nat
  BY DEF Ahead
<1>2. j \in Ahead(s, f, k) /\ \A i \in Ahead(s, f, k) : j <= i
  BY <1>1, FirstIs
<1>3. j \in DOMAIN s /\ j > k /\ s[j] # Empty /\ matchRec(f, s[j])
  BY <1>2 DEF Ahead
<1>4. ASSUME NEW i \in DOMAIN s
      PROVE  i \in Hits(s, f, j) <=> i \in Hits(s, f, k) \cup {j}
  <2>1. i \in Ahead(s, f, k) => j <= i
    BY <1>2
  <2>. QED BY <1>1, <1>3, <2>1 DEF Ahead, Hits
<1>5. Hits(s, f, j) \subseteq DOMAIN s /\ Hits(s, f, k) \subseteq DOMAIN s
  BY DEF Hits
<1>6. j \notin Hits(s, f, k)
  BY <1>1, <1>3 DEF Hits
<1>. QED BY <1>1, <1>3, <1>4, <1>5, <1>6 DEF Used

LEMMA HitsAll ==
    ASSUME NEW S, NEW s \in Seq(S), NEW f, NEW k \in Nat, Ahead(s, f, k) = {}
    PROVE  Hits(s, f, k) = {j \in Used(s) : matchRec(f, s[j])}
<1>1. DOMAIN s \subseteq Nat
  OBVIOUS
<1>. QED BY <1>1 DEF Ahead, Hits, Used

LEMMA HitsFinite ==
    ASSUME NEW S, NEW s \in Seq(S), NEW f, NEW k
    PROVE  Hits(s, f, k) \subseteq Used(s) /\ IsFiniteSet(Hits(s, f, k))
<1>1. Hits(s, f, k) \subseteq Used(s)
  BY DEF Hits, Used
<1>. QED BY <1>1, UsedSlots, FS_Subset

-----------------------------------------------------------------------------
(* A result grows by one record for each one found.                        *)

LEMMA GrownNothing ==
    ASSUME NEW S, NEW s \in Seq(S), NEW made
    PROVE  Grown(s, s, {}, made)
<1>1. Cardinality(Used(s)) \in Nat /\ IsFiniteSet(Used(s))
  BY UsedSlots
<1>2. ASSUME NEW t
      PROVE  Count(s, t) = Count(s, t) + Cardinality({x \in {} : made[x] = t})
  <2>1. Cardinality({x \in {} : made[x] = t}) = 0
    <3>1. {x \in {} : made[x] = t} = {}
      OBVIOUS
    <3>. QED BY <3>1, FS_EmptySet
  <2>2. Count(s, t) \in Nat
    BY <1>1, FS_Subset, FS_CardinalityType DEF Count
  <2>. QED BY <2>1, <2>2
<1>3. Cardinality(Used(s)) = Cardinality(Used(s)) + Cardinality({})
  BY <1>1, FS_EmptySet
<1>. QED BY <1>2, <1>3 DEF Grown

LEMMA CountTyped ==
    ASSUME NEW S, NEW s \in Seq(S), NEW t
    PROVE  IsFiniteSet({k \in Used(s) : s[k] = t}) /\ Count(s, t) \in Nat
<1>1. IsFiniteSet({k \in Used(s) : s[k] = t})
  BY UsedSlots, FS_Subset
<1>. QED BY <1>1, FS_CardinalityType DEF Count

LEMMA CountPut ==
    ASSUME NEW S, NEW s \in Seq(S), NEW f, NEW k, NEW t, PutAt(f, s, k, t), NEW u
    PROVE  Count(f, u) = Count(s, u) + (IF t = u THEN 1 ELSE 0)
<1>. DEFINE C == {j \in Used(s) : s[j] = u}
<1>1. IsFiniteSet(C) /\ Count(s, u) = Cardinality(C) /\ Cardinality(C) \in Nat /\ k \notin C
  BY CountTyped DEF Count, PutAt
<1>2. CASE t = u
  <2>1. {j \in Used(f) : f[j] = u} = C \cup {k}
    BY <1>2 DEF PutAt
  <2>2. Cardinality(C \cup {k}) = Cardinality(C) + 1
    BY <1>1, FS_AddElement
  <2>. QED BY <1>1, <1>2, <2>1, <2>2 DEF Count
<1>3. CASE t # u
  <2>1. {j \in Used(f) : f[j] = u} = C
    BY <1>3 DEF PutAt
  <2>2. Count(f, u) = Cardinality(C)
    BY <2>1 DEF Count
  <2>. QED BY <1>1, <1>3, <2>2
<1>. QED BY <1>2, <1>3

LEMMA GrownOne ==
    ASSUME NEW S, NEW new \in Seq(S), NEW old \in Seq(S),
           NEW found, IsFiniteSet(found), NEW x, x \notin found,
           NEW made, Grown(new, old, found, made),
           NEW f, NEW k, PutAt(f, new, k, made[x])
    PROVE  Grown(f, old, found \cup {x}, made)
<1>1. /\ IsFiniteSet(Used(new)) /\ Cardinality(Used(new)) \in Nat
      /\ Cardinality(Used(old)) \in Nat
  BY UsedSlots
<1>2. Cardinality(Used(f)) = Cardinality(Used(new)) + 1
  BY <1>1, FS_AddElement DEF PutAt
<1>3. /\ Cardinality(found) \in Nat
      /\ Cardinality(found \cup {x}) = Cardinality(found) + 1
  BY FS_AddElement, FS_CardinalityType
<1>4. Cardinality(Used(f)) = Cardinality(Used(old)) + Cardinality(found \cup {x})
  BY <1>1, <1>2, <1>3 DEF Grown
<1>5. ASSUME NEW t
      PROVE  Count(f, t) = Count(old, t) + Cardinality({y \in found \cup {x} : made[y] = t})
  <2>. DEFINE F == {y \in found : made[y] = t}  G == {y \in found \cup {x} : made[y] = t}
  <2>1. IsFiniteSet(F) /\ Cardinality(F) \in Nat /\ x \notin F
    BY FS_Subset, FS_CardinalityType
  <2>2. Count(new, t) = Count(old, t) + Cardinality(F)
    BY DEF Grown
  <2>3. Count(old, t) \in Nat
    BY CountTyped
  <2>4. Count(f, t) = Count(new, t) + (IF made[x] = t THEN 1 ELSE 0)
    BY CountPut
  <2>5. CASE made[x] = t
    <3>1. G = F \cup {x}
      BY <2>5
    <3>2. Cardinality(G) = Cardinality(F) + 1
      BY <2>1, <3>1, FS_AddElement
    <3>. HIDE DEF F, G
    <3>. QED BY <2>1, <2>2, <2>3, <2>4, <2>5, <3>2 DEF G
  <2>6. CASE made[x] # t
    <3>1. G = F
      BY <2>6
    <3>2. Cardinality(G) = Cardinality(F)
      BY <3>1
    <3>. HIDE DEF F, G
    <3>. QED BY <2>1, <2>2, <2>3, <2>4, <2>6, <3>2 DEF G
  <2>. QED BY <2>5, <2>6
<1>. QED BY <1>4, <1>5 DEF Grown

\* A part of what is to be found gives no record too often.
LEMMA GrownAtMost ==
    ASSUME NEW S, NEW new \in Seq(S), NEW old \in Seq(S),
           NEW all, IsFiniteSet(all), NEW found, found \subseteq all,
           NEW made, Grown(new, old, found, made), NEW t
    PROVE  Count(new, t) - Count(old, t) <= Cardinality({x \in all : made[x] = t})
<1>. DEFINE F == {x \in found : made[x] = t}  A == {x \in all : made[x] = t}
<1>1. F \subseteq A /\ IsFiniteSet(A)
  BY FS_Subset
<1>2. Cardinality(F) <= Cardinality(A) /\ Cardinality(F) \in Nat /\ Cardinality(A) \in Nat
  BY <1>1, FS_Subset, FS_CardinalityType
<1>3. Count(new, t) = Count(old, t) + Cardinality(F) /\ Count(old, t) \in Nat
  BY CountTyped DEF Grown
<1>. QED BY <1>2, <1>3


-----------------------------------------------------------------------------
(* What the steps have in common.                                          *)

\* The slots of a relation; those of the temporary one hold what is made.
Slots(r) == IF r = Tmp THEN [DOMAIN stmt.proj -> Bits] ELSE Slot(DOMAIN Schema[r])

LEMMA RelTyped ==
    ASSUME TypeOK, NEW r \in Names
    PROVE  /\ rel[r] \in Seq(Slots(r)) /\ before[r] \in Seq(Slots(r))
           /\ Len(rel[r]) \in 0 .. Capacity
<1>1. /\ r \in Relations => /\ rel[r] \in Seq(Slot(DOMAIN Schema[r]))
                            /\ before[r] \in Seq(Slot(DOMAIN Schema[r]))
      /\ rel[Tmp] = <<>> \/ rel[Tmp] \in Seq([DOMAIN stmt.proj -> Bits])
      /\ before[Tmp] = <<>> /\ Len(rel[r]) <= Capacity
  BY DEF TypeOK, Names
<1>. PICK S : S = [DOMAIN stmt.proj -> Bits]
  OBVIOUS
<1>2. CASE r = Tmp
  <2>1. rel[r] \in Seq(S) /\ before[r] \in Seq(S)
    <3>1. rel[r] = <<>> \/ rel[r] \in Seq(S)
      BY <1>1, <1>2, Zenon
    <3>2. before[r] = <<>>
      BY <1>1, <1>2, Zenon
    <3>. QED BY <3>1, <3>2, EmptySeq, Zenon
  <2>2. Slots(r) = S
    BY <1>2 DEF Slots
  <2>. QED BY <1>1, <2>1, <2>2, BoundsAssumption
<1>3. CASE r # Tmp
  BY <1>1, <1>3, BoundsAssumption DEF Slots, Names
<1>. QED BY <1>2, <1>3

LEMMA EndedPut ==
    ASSUME NEW S, NEW s \in Seq(S), NEW f \in Seq(S), NEW k, NEW t, PutAt(f, s, k, t), Ended(s)
    PROVE  Ended(f)
<1>1. Used(f) = Used(s) \cup {k} /\ Len(s) \in Nat /\ Len(f) \in Nat
  BY DEF PutAt
<1>2. CASE k \in DOMAIN s /\ Len(f) = Len(s)
  BY <1>1, <1>2 DEF Ended
<1>3. CASE k = Len(f)
  BY <1>1, <1>3 DEF Ended
<1>. QED BY <1>2, <1>3 DEF PutAt

\* A relation that gets a record, and the others.
LEMMA PutInto ==
    ASSUME TypeOK, NEW r \in Names, NEW S, rel[r] \in Seq(S), NEW t \in S, t # Empty,
           NEW f \in Put(rel[r], t), rel' = [rel EXCEPT ![r] = f]
    PROVE  /\ DOMAIN rel' = Names /\ rel'[r] = f /\ f \in Seq(S) /\ Len(f) <= Capacity
           /\ Ended(rel[r]) => Ended(f)
           /\ \E k : PutAt(f, rel[r], k, t)
           /\ \A q \in Names : q # r => rel'[q] = rel[q]
<1>1. DOMAIN rel = Names /\ Len(rel[r]) <= Capacity
  BY DEF TypeOK, Names
<1>2. DOMAIN rel' = Names /\ rel'[r] = f /\ \A q \in Names : q # r => rel'[q] = rel[q]
  BY <1>1
<1>3. f \in Seq(S) /\ \E k : PutAt(f, rel[r], k, t)
  BY PutEffect
<1>4. Len(f) <= Capacity
  BY <1>1, <1>3 DEF PutAt
<1>5. Ended(rel[r]) => Ended(f)
  BY <1>3, EndedPut
<1>. QED BY <1>2, <1>3, <1>4, <1>5

\* Between two statements nothing is different from what the next one finds.
LEMMA Idle ==
    ASSUME IInv, status = "IDLE"
    PROVE  /\ stmt = NoStatement /\ pos = <<0, 0>> /\ rel[Tmp] = <<>>
           /\ \A r \in Names : rel[r] = before[r]
<1>1. stmt = NoStatement /\ before[Tmp] = <<>>
  BY DEF IInv, TypeOK
<1>2. pos = <<0, 0>> /\ \A r \in Names : rel[r] = before[r]
  BY <1>1 DEF IInv, Frame
<1>. QED BY <1>1, <1>2 DEF Names

LEMMA BeginStep ==
    ASSUME IInv, status = "IDLE", NEW s \in Statement,
           NEW st \in {"RUNNING", "OK", "BADCATPARM", "UNIXERR"}, Begin(s, st), UNCHANGED rel
    PROVE  TypeOK' /\ Frame' /\ stmt' # NoStatement
<1>1. stmt' = s /\ status' = st /\ UNCHANGED <<rel, pos, before>>
  BY DEF Begin
<1>2. s # NoStatement /\ rel[Tmp] = <<>> /\ \A r \in Names : rel[r] = before[r]
  BY StatementFields, Idle
<1>3. TypeOK'
  BY <1>1, <1>2 DEF IInv, TypeOK
<1>4. Frame'
  BY <1>1, <1>2 DEF IInv, Frame
<1>. QED BY <1>1, <1>2, <1>3, <1>4

LEMMA ReturnStep ==
    ASSUME IInv, status = "RUNNING", NEW st \in {"OK", "UNIXERR", "EXIT"}, Return(st)
    PROVE  TypeOK' /\ Frame' /\ stmt \in Statement
<1>1. status' = st /\ UNCHANGED <<rel, stmt, pos, before>>
  BY DEF Return
<1>2. stmt \in Statement /\ stmt # NoStatement
  BY DEF IInv, TypeOK
<1>3. TypeOK'
  BY <1>1, <1>2 DEF IInv, TypeOK
<1>4. Frame'
  BY <1>1 DEF IInv, Frame, Target
<1>. QED BY <1>2, <1>3, <1>4

\* A statement changes its target, when it begins or on its way.
LEMMA ChangeStep ==
    ASSUME IInv, NEW r \in Names, NEW f, rel' = [rel EXCEPT ![r] = f],
           f \in Seq(Slots(r)'), Len(f) <= Capacity, Ended(f),
           stmt' \in Statement, stmt' = stmt \/ status = "IDLE", Target' = r, before' = before,
           pos' \in (0 .. Capacity) \X (0 .. Capacity), status' \in {"RUNNING", "OK"}
    PROVE  /\ TypeOK' /\ Frame' /\ rel'[r] = f
           /\ \A q \in Names : q # r => rel'[q] = rel[q] /\ rel'[q] = before[q]
<1>1. TypeOK /\ Frame
  BY DEF IInv
<1>2. DOMAIN rel = Names /\ DOMAIN before = Names /\ Names = Relations \cup {Tmp}
  BY <1>1 DEF TypeOK, Names
<1>3. DOMAIN rel' = Names /\ rel'[r] = f
  BY <1>2
<1>4. ASSUME NEW q \in Names, q # r PROVE rel'[q] = rel[q] /\ rel'[q] = before[q]
  <2>1. rel'[q] = rel[q]
    BY <1>2, <1>4
  <2>2. CASE status = "IDLE"
    BY <2>1, <2>2, Idle
  <2>3. CASE stmt' = stmt
    <3>1. Target = r /\ stmt # NoStatement
      BY <2>3, StatementFields DEF Target
    <3>. QED BY <1>1, <1>4, <2>1, <3>1 DEF Frame
  <2>. QED BY <2>1, <2>2, <2>3
<1>5. ASSUME NEW q \in Relations
      PROVE  rel'[q] \in Seq(Slot(DOMAIN Schema[q])) /\ before'[q] \in Seq(Slot(DOMAIN Schema[q]))
  <2>1. q \in Names /\ q # Tmp /\ before[q] \in Seq(Slot(DOMAIN Schema[q]))
    BY <1>1, NamesAssumption DEF TypeOK, Names
  <2>2. CASE q = r
    BY <1>3, <2>1, <2>2 DEF Slots
  <2>3. CASE q # r
    BY <1>4, <2>1, <2>3
  <2>. QED BY <2>2, <2>3
<1>6. before'[Tmp] = <<>>
  BY <1>1 DEF TypeOK
<1>7. rel'[Tmp] = <<>> \/ rel'[Tmp] \in Seq([DOMAIN stmt'.proj -> Bits])
  <2>1. CASE Tmp = r
    BY <1>3, <2>1 DEF Slots
  <2>2. CASE Tmp # r
    BY <1>2, <1>4, <1>6, <2>2
  <2>. QED BY <2>1, <2>2
<1>8. ASSUME NEW q \in Names PROVE Len(rel'[q]) <= Capacity
  <2>1. Len(rel[q]) <= Capacity
    BY <1>1, <1>2 DEF TypeOK
  <2>. QED BY <1>3, <1>4, <2>1
<1>9. stmt' # NoStatement
  BY StatementFields
<1>10. TypeOK'
  BY <1>2, <1>3, <1>5, <1>6, <1>7, <1>8, <1>9 DEF TypeOK
<1>11. Frame'
  <2>1. ASSUME NEW q \in Names PROVE Ended(rel'[q]) /\ Ended(before'[q])
    <3>1. Ended(rel[q]) /\ Ended(before[q])
      BY <1>1 DEF Frame
    <3>2. CASE q = r
      BY <1>3, <3>1, <3>2
    <3>3. CASE q # r
      BY <1>4, <3>1, <3>3
    <3>. QED BY <3>2, <3>3
  <2>. QED BY <1>4, <1>9, <2>1 DEF Frame
<1>. QED BY <1>3, <1>4, <1>10, <1>11

\* SELECT and a join put a record into their result, and the scans go on.
LEMMA PutStep ==
    ASSUME IInv, status = "RUNNING", stmt.kind \in {"SELECT", "JOIN"}, Into(stmt.proj, stmt.into),
           NEW t \in [DOMAIN stmt.proj -> Bits], t # Empty,
           NEW f \in Put(rel[stmt.into], t), rel' = [rel EXCEPT ![stmt.into] = f],
           NEW a \in 0 .. Capacity, NEW b \in 0 .. Capacity, Go(a, b)
    PROVE  /\ TypeOK' /\ Frame' /\ stmt.into \in Names /\ rel'[stmt.into] = f
           /\ \E k : PutAt(f, rel[stmt.into], k, t)
           /\ \A q \in Names : q # stmt.into => rel'[q] = rel[q]
<1>. DEFINE r == stmt.into
<1>1. stmt \in Statement /\ stmt # NoStatement /\ TypeOK /\ Frame
  BY DEF IInv, TypeOK
<1>2. r \in Names /\ stmt.proj \in Projections
  BY <1>1, StatementFields
<1>3. pos' = <<a, b>> /\ UNCHANGED <<stmt, status, before>>
  BY DEF Go
<1>4. rel[r] \in Seq(Slots(r)) /\ t \in Slots(r)
  <2>1. CASE r = Tmp
    BY <1>1, <1>2, <2>1, RelTyped DEF Slots
  <2>2. CASE r # Tmp
    <3>1. DOMAIN stmt.proj = DOMAIN Schema[r]
      BY <1>2, <2>2, IntoColumns DEF Names
    <3>. QED BY <1>1, <1>2, <2>2, <3>1, RelTyped DEF Slots, Slot
  <2>. QED BY <2>1, <2>2
<1>5. /\ DOMAIN rel' = Names /\ rel'[r] = f /\ f \in Seq(Slots(r)) /\ Len(f) <= Capacity
      /\ Ended(rel[r]) => Ended(f)
      /\ \E k : PutAt(f, rel[r], k, t)
      /\ \A q \in Names : q # r => rel'[q] = rel[q]
  <2>. PICK S : S = Slots(r)
    OBVIOUS
  <2>. QED BY <1>1, <1>2, <1>4, PutInto
<1>6. Slots(r)' = Slots(r) /\ Target' = r
  BY <1>1, <1>3 DEF Slots, Target
<1>7. status' = "RUNNING" /\ pos' \in (0 .. Capacity) \X (0 .. Capacity) /\ Ended(f)
  BY <1>1, <1>2, <1>3, <1>5 DEF Frame
<1>8. TypeOK' /\ Frame'
  BY <1>1, <1>2, <1>3, <1>5, <1>6, <1>7, ChangeStep
<1>. QED BY <1>2, <1>5, <1>8


-----------------------------------------------------------------------------
(* Each action keeps the invariant.                                        *)

LEMMA InitInv == Init => IInv
<1>. SUFFICES ASSUME Init PROVE IInv
  OBVIOUS
<1>1. /\ DOMAIN rel = Names /\ before = rel /\ \A r \in Names : rel[r] = <<>>
      /\ stmt = NoStatement /\ pos = <<0, 0>> /\ status = "IDLE"
  BY DEF Init, Names
<1>2. ASSUME NEW r \in Relations
      PROVE  /\ rel[r] \in Seq(Slot(DOMAIN Schema[r]))
             /\ before[r] \in Seq(Slot(DOMAIN Schema[r]))
  BY <1>1, EmptySeq DEF Names
<1>3. pos \in (0 .. Capacity) \X (0 .. Capacity)
  BY <1>1, BoundsAssumption
<1>4. \A r \in Names : Len(rel[r]) <= Capacity /\ before[Tmp] = <<>>
  BY <1>1, BoundsAssumption DEF Names
<1>5. TypeOK
  BY <1>1, <1>2, <1>3, <1>4 DEF TypeOK, Names
<1>6. Frame
  BY <1>1 DEF Frame, Ended
<1>. QED BY <1>1, <1>5, <1>6 DEF IInv

LEMMA InsertStep ==
    ASSUME IInv, status = "IDLE", NEW r \in Relations, NEW list \in InsertLists,
           QU_Insert(r, list)
    PROVE  IInv'
<1>. DEFINE s == [kind |-> "INSERT", rel |-> r, list |-> list]
<1>1. s \in Statement /\ s.kind = "INSERT" /\ s.rel = r /\ s.list = list
  BY DEF Statement
<1>2. /\ r \in Names /\ r # Tmp /\ pos = <<0, 0>> /\ TypeOK /\ Frame
      /\ rel[r] = before[r]
  BY Idle, NamesAssumption DEF Names, IInv
<1>. HIDE DEF s
<1>3. CASE Len(list) # Len(Schema[r]) /\ Begin(s, "BADCATPARM") /\ UNCHANGED rel
  <2>1. TypeOK' /\ Frame'
    BY <1>1, <1>3, BeginStep
  <2>2. stmt' = s /\ status' = "BADCATPARM"
    BY <1>3 DEF Begin
  <2>. QED BY <1>1, <1>3, <2>1, <2>2 DEF IInv, Inserted
<1>4. ASSUME Len(list) = Len(Schema[r]), Begin(s, "OK"),
             NEW f \in Put(rel[r], NewRecord(r, list)), rel' = [rel EXCEPT ![r] = f]
      PROVE  IInv'
  <2>1. stmt' = s /\ status' = "OK" /\ pos' = pos /\ before' = before
    BY <1>4 DEF Begin
  <2>. PICK t : t = NewRecord(r, list)
    OBVIOUS
  <2>. PICK S : S = Slot(DOMAIN Schema[r])
    OBVIOUS
  <2>2. t \in S /\ t # Empty
    BY <1>4, NewRecordTyped DEF Slot
  <2>3. rel[r] \in Seq(S) /\ Slots(r)' = S
    BY <1>2, RelTyped DEF Slots
  <2>4. f \in Seq(S) /\ Len(f) <= Capacity /\ Ended(f)
    BY <1>2, <1>4, <2>2, <2>3, PutInto DEF Frame
  <2>5. Target' = r
    BY <1>1, <2>1 DEF Target
  <2>6. pos' \in (0 .. Capacity) \X (0 .. Capacity)
    BY <1>2, <2>1 DEF TypeOK
  <2>7. TypeOK' /\ Frame' /\ rel'[r] = f
    BY <1>1, <1>2, <1>4, <2>1, <2>3, <2>4, <2>5, <2>6, ChangeStep
  <2>8. Inserted'
    BY <1>1, <1>2, <1>4, <2>1, <2>7 DEF Inserted
  <2>. QED BY <1>1, <2>1, <2>7, <2>8 DEF IInv
<1>5. CASE Len(list) = Len(Schema[r]) /\ Begin(s, "UNIXERR") /\ UNCHANGED rel
  <2>1. TypeOK' /\ Frame'
    BY <1>1, <1>5, BeginStep
  <2>2. stmt' = s /\ status' = "UNIXERR" /\ UNCHANGED <<rel, before>>
    BY <1>5 DEF Begin
  <2>3. Inserted'
    BY <1>1, <1>2, <1>5, <2>2 DEF Inserted
  <2>. QED BY <1>1, <2>1, <2>2, <2>3 DEF IInv
<1>. QED BY <1>3, <1>4, <1>5 DEF QU_Insert, s

\* Nothing is found yet when a statement begins.
LEMMA BeginDeleteStep ==
    ASSUME IInv, status = "IDLE", NEW r \in Relations, BeginDelete(r)
    PROVE  IInv'
<1>1. PICK w \in Wheres(r) :
          /\ Begin([kind |-> "DELETE", rel |-> r, where |-> w], "RUNNING")
          /\ UNCHANGED rel
  BY DEF BeginDelete
<1>. PICK s : s = [kind |-> "DELETE", rel |-> r, where |-> w]
  OBVIOUS
<1>2. s \in Statement /\ s.kind = "DELETE" /\ s.rel = r
  BY DEF Statement
<1>3. TypeOK' /\ Frame' /\ stmt' = s /\ status' = "RUNNING" /\ UNCHANGED <<rel, pos, before>>
  BY <1>1, <1>2, BeginStep DEF Begin
<1>4. /\ r \in Names /\ r # Tmp /\ pos = <<0, 0>> /\ TypeOK /\ Frame
      /\ rel[r] = before[r]
  BY Idle, NamesAssumption DEF Names, IInv
<1>5. Deleted'
  <2>. PICK q : q = before[r]
    OBVIOUS
  <2>. PICK S : S = Slot(DOMAIN Schema[r])
    OBVIOUS
  <2>. PICK f : f = DeleteFilter(s)
    OBVIOUS
  <2>1. q \in Seq(S)
    BY <1>4, RelTyped DEF Slots
  <2>2. Hits(q, f, 0) = {}
    BY <2>1, HitsNone
  <2>3. Erased(q, {}) = q
    BY <2>1 DEF Erased
  <2>4. Trim(q) = q
    BY <1>4, <2>1, TrimNothing DEF Frame, Ended
  <2>5. rel'[r] = Trim(Erased(q, Hits(q, f, pos'[1])))
    BY <1>3, <1>4, <2>2, <2>3, <2>4
  <2>6. before'[stmt'.rel] = q /\ DeleteFilter(stmt)' = f /\ stmt'.rel = r
    BY <1>2, <1>3 DEF DeleteFilter
  <2>. QED BY <1>3, <2>5, <2>6 DEF Deleted
<1>. QED BY <1>2, <1>3, <1>5 DEF IInv

LEMMA BeginSelectStep ==
    ASSUME IInv, status = "IDLE", NEW r \in Relations, NEW proj \in Projections,
           NEW target \in Names, BeginSelect(r, proj, target)
    PROVE  IInv'
<1>1. PICK w \in Wheres(r) :
          /\ From(proj, {r}) /\ Into(proj, target)
          /\ Begin([kind |-> "SELECT", rel |-> r, proj |-> proj, where |-> w, into |-> target],
                   "RUNNING")
          /\ UNCHANGED rel
  BY DEF BeginSelect
<1>. PICK s : s = [kind |-> "SELECT", rel |-> r, proj |-> proj, where |-> w, into |-> target]
  OBVIOUS
<1>2. s \in Statement /\ s.kind = "SELECT" /\ s.rel = r /\ s.proj = proj /\ s.into = target
  BY DEF Statement, Names
<1>3. TypeOK' /\ Frame' /\ stmt' = s /\ status' = "RUNNING" /\ UNCHANGED <<rel, pos, before>>
  BY <1>1, <1>2, BeginStep DEF Begin
<1>4. r \in Names /\ pos = <<0, 0>> /\ TypeOK /\ rel[target] = before[target]
  BY Idle DEF Names, IInv
<1>5. Selected'
  <2>. PICK q : q = before[r]
    OBVIOUS
  <2>. PICK f : f = SelectFilter(s)
    OBVIOUS
  <2>. PICK made : made = [j \in Used(q) |-> Output(proj, r, q[j], q[j])]
    OBVIOUS
  <2>1. Hits(q, f, 0) = {}
    BY <1>4, RelTyped, HitsNone
  <2>2. Grown(rel[target], rel[target], {}, made)
    BY <1>4, RelTyped, GrownNothing
  <2>3. Grown(rel'[target], before'[target], Hits(q, f, pos'[1]), made)
    BY <1>3, <1>4, <2>1, <2>2
  <2>4. /\ before'[stmt'.rel] = q /\ SelectFilter(stmt)' = f /\ stmt'.into = target
        /\ stmt'.proj = proj /\ stmt'.rel = r
    BY <1>2, <1>3 DEF SelectFilter, TypeOf
  <2>. QED BY <1>1, <1>3, <2>3, <2>4 DEF Selected
<1>. QED BY <1>2, <1>3, <1>5 DEF IInv


LEMMA BeginJoinStep ==
    ASSUME IInv, status = "IDLE", NEW attr1 \in Attrs, NEW op \in Operators, NEW attr2 \in Attrs,
           NEW proj \in Projections, NEW target \in Names, NEW method \in JoinMethods,
           BeginJoin(attr1, op, attr2, proj, target, method)
    PROVE  IInv'
<1>. PICK nested : nested = NestedLoops(method, op)
  OBVIOUS
<1>. PICK s : s = [kind |-> "JOIN", attr1 |-> attr1, op |-> op, attr2 |-> attr2, proj |-> proj,
                   into |-> target, nested |-> nested]
  OBVIOUS
<1>. PICK st : st = IF nested THEN "RUNNING" ELSE "OK"
  OBVIOUS
<1>1. /\ From(proj, {attr1[1], attr2[1]}) /\ Into(proj, target)
      /\ Begin(s, st) /\ UNCHANGED rel
  BY DEF BeginJoin
<1>2. /\ s \in Statement /\ s.kind = "JOIN" /\ s.attr1 = attr1 /\ s.attr2 = attr2 /\ s.op = op
      /\ s.proj = proj /\ s.into = target /\ s.nested = nested
  BY DEF Statement, Names, NestedLoops
<1>3. TypeOK' /\ Frame' /\ stmt' = s /\ status' = st /\ UNCHANGED <<rel, pos, before>>
  BY <1>1, <1>2, BeginStep DEF Begin
<1>4. pos = <<0, 0>> /\ TypeOK /\ rel[target] = before[target]
  BY Idle DEF IInv
<1>5. Joined'
  <2>. PICK s1 : s1 = before[attr1[1]]
    OBVIOUS
  <2>. PICK s2 : s2 = before[attr2[1]]
    OBVIOUS
  <2>. PICK made : made = [p \in Used(s1) \X Used(s2) |->
                              Output(proj, attr1[1], s1[p[1]], s2[p[2]])]
    OBVIOUS
  <2>1. attr1[1] \in Names
    BY AttrFields DEF Names
  <2>2. Used(s1) \subseteq Nat \ {0}
    BY <1>4, <2>1, RelTyped, UsedSlots
  <2>3. Met(s1, s2)' = {}
    BY <1>3, <1>4, <2>2 DEF Met
  <2>4. Grown(rel[target], rel[target], {}, made)
    BY <1>4, RelTyped, GrownNothing
  <2>5. Grown(rel'[target], before'[target], Met(s1, s2)', made)
    BY <1>3, <1>4, <2>3, <2>4
  <2>6. /\ before'[stmt'.attr1[1]] = s1 /\ before'[stmt'.attr2[1]] = s2
        /\ stmt'.into = target /\ stmt'.proj = proj /\ stmt'.attr1 = attr1 /\ stmt'.attr2 = attr2
        /\ ~(stmt'.nested /\ status' = "OK")
    BY <1>2, <1>3
  <2>7. pos'[1] = 0
    BY <1>3, <1>4
  <2>. QED BY <1>1, <2>5, <2>6, <2>7 DEF Joined
<1>. QED BY <1>2, <1>3, <1>5 DEF IInv

-----------------------------------------------------------------------------
(* A DELETE empties one slot after the other.                              *)

LEMMA ErasedEffect ==
    ASSUME NEW S, Empty \in S, NEW s \in Seq(S), NEW P
    PROVE  /\ Erased(s, P) \in Seq(S) /\ Used(Erased(s, P)) = Used(s) \ P
           /\ \A k \in Used(s) \ P : Erased(s, P)[k] = s[k]
<1>1. DOMAIN s = 1 .. Len(s) /\ Len(s) \in Nat /\ \A k \in DOMAIN s : s[k] \in S
  OBVIOUS
<1>2. Erased(s, P) \in [1 .. Len(s) -> S]
  BY <1>1 DEF Erased
<1>3. Erased(s, P) \in Seq(S)
  BY <1>1, <1>2, SeqDef
<1>. QED BY <1>3 DEF Erased, Used

LEMMA TrimErased ==
    ASSUME NEW S, Empty \in S, NEW s \in Seq(S), NEW P, NEW e, e = Trim(Erased(s, P))
    PROVE  e \in Seq(S) /\ Used(e) = Used(s) \ P /\ \A k \in Used(e) : e[k] = s[k]
<1>. PICK u : u = Erased(s, P)
  OBVIOUS
<1>1. u \in Seq(S) /\ Used(u) = Used(s) \ P /\ \A k \in Used(s) \ P : u[k] = s[k]
  BY ErasedEffect
<1>2. e \in Seq(S) /\ Used(e) = Used(u) /\ \A k \in 1 .. LastUsed(u) : e[k] = u[k]
  BY <1>1, TrimEffect
<1>3. \A k \in Used(u) : k \in 1 .. LastUsed(u)
  BY <1>1, LastUsedIs, UsedSlots
<1>. QED BY <1>1, <1>2, <1>3

LEMMA TrimEnded ==
    ASSUME NEW S, NEW s \in Seq(S)
    PROVE  Ended(Trim(s))
<1>1. Trim(s) \in Seq(S) /\ Len(Trim(s)) = LastUsed(s) /\ Used(Trim(s)) = Used(s)
  BY TrimEffect
<1>2. Used(s) = {} => LastUsed(s) = 0
  BY LastUsedIs
<1>3. Used(s) # {} => LastUsed(s) \in Used(s)
  BY LastUsedIs
<1>4. Len(Trim(s)) = 0 => Trim(s) = <<>>
  BY <1>1
<1>. QED BY <1>1, <1>2, <1>3, <1>4 DEF Ended

\* What the scan has ahead is what it had ahead when nothing was deleted.
LEMMA AheadErased ==
    ASSUME NEW S, Empty \in S, NEW s \in Seq(S), NEW f, NEW k \in Nat,
           NEW e, e = Trim(Erased(s, Hits(s, f, k)))
    PROVE  Ahead(e, f, k) = Ahead(s, f, k)
<1>1. e \in Seq(S) /\ Used(e) = Used(s) \ Hits(s, f, k) /\ \A j \in Used(e) : e[j] = s[j]
  BY TrimErased
<1>2. Ahead(e, f, k) = {j \in Used(e) : j > k /\ matchRec(f, e[j])}
  BY DEF Ahead, Used
<1>3. Ahead(s, f, k) = {j \in Used(s) : j > k /\ matchRec(f, s[j])}
  BY DEF Ahead, Used
<1>4. \A j \in Used(s) : j > k => j \notin Hits(s, f, k)
  <2>1. Used(s) \subseteq Nat
    BY UsedSlots
  <2>. QED BY <2>1 DEF Hits
<1>. QED BY <1>1, <1>2, <1>3, <1>4

LEMMA EraseNext ==
    ASSUME NEW S, Empty \in S, NEW s \in Seq(S), NEW f, NEW k \in Nat,
           NEW e, e = Trim(Erased(s, Hits(s, f, k))), Ahead(s, f, k) # {},
           NEW j, j = First(Ahead(s, f, k))
    PROVE  /\ [e EXCEPT ![j] = Empty] \in Seq(S) /\ Len([e EXCEPT ![j] = Empty]) = Len(e)
           /\ Trim([e EXCEPT ![j] = Empty]) = Trim(Erased(s, Hits(s, f, j)))
<1>. PICK u : u = [e EXCEPT ![j] = Empty]
  OBVIOUS
<1>. PICK v : v = Erased(s, Hits(s, f, j))
  OBVIOUS
<1>1. /\ j \in Used(s) /\ j \notin Hits(s, f, k)
      /\ Hits(s, f, j) = Hits(s, f, k) \cup {j}
  BY HitsNext
<1>2. e \in Seq(S) /\ Used(e) = Used(s) \ Hits(s, f, k) /\ \A i \in Used(e) : e[i] = s[i]
  BY TrimErased
<1>3. v \in Seq(S) /\ Used(v) = Used(e) \ {j} /\ \A i \in Used(v) : v[i] = s[i]
  BY <1>1, <1>2, ErasedEffect
<1>4. u \in Seq(S) /\ Len(u) = Len(e)
  <2>1. j \in 1 .. Len(e)
    BY <1>1, <1>2, UsedSlots
  <2>. QED BY <1>2, <2>1, ExceptSeq
<1>5. DOMAIN u = DOMAIN e /\ \A i \in DOMAIN e : u[i] = IF i = j THEN Empty ELSE e[i]
  BY <1>2
<1>6. Used(u) = Used(e) \ {j} /\ \A i \in Used(u) : u[i] = e[i]
  BY <1>5 DEF Used
<1>7. Used(u) = Used(v) /\ \A i \in Used(u) : u[i] = v[i]
  BY <1>2, <1>3, <1>6
<1>8. \A x, y \in Seq(S) :
          Used(x) = Used(y) /\ (\A i \in Used(x) : x[i] = y[i]) => Trim(x) = Trim(y)
  BY TrimSame
<1>9. Trim(u) = Trim(v)
  BY <1>3, <1>4, <1>7, <1>8
<1>. QED BY <1>4, <1>9


LEMMA DeleteStep ==
    ASSUME IInv, QU_Delete
    PROVE  IInv'
<1>. PICK r : r = stmt.rel
  OBVIOUS
<1>. PICK q : q = before[r]
  OBVIOUS
<1>. PICK S : S = Slot(DOMAIN Schema[r])
  OBVIOUS
<1>. PICK f : f = DeleteFilter(stmt)
  OBVIOUS
<1>. PICK k : k = pos[1]
  OBVIOUS
<1>. PICK e : e = rel[r]
  OBVIOUS
<1>1. /\ TypeOK /\ Frame /\ Deleted /\ stmt \in Statement /\ stmt # NoStatement
      /\ stmt.kind = "DELETE" /\ status = "RUNNING"
  BY DEF QU_Delete, IInv, TypeOK
<1>2. r \in Relations /\ r \in Names /\ r # Tmp
  BY <1>1, StatementFields, NamesAssumption DEF Names
<1>3. q \in Seq(S) /\ e \in Seq(S) /\ Len(e) \in 0 .. Capacity /\ Empty \in S
  BY <1>1, <1>2, RelTyped DEF Slots, Slot
<1>4. k \in Nat
  BY <1>1 DEF TypeOK
<1>5. e = Trim(Erased(q, Hits(q, f, k)))
  BY <1>1 DEF Deleted
<1>6. Ahead(e, f, k) = Ahead(q, f, k)
  BY <1>3, <1>4, <1>5, AheadErased
<1>7. CASE Ahead(e, f, k) = {} /\ Return("OK")
  <2>1. TypeOK' /\ Frame'
    BY <1>1, <1>7, ReturnStep
  <2>2. UNCHANGED <<rel, stmt, pos, before>>
    BY <1>7 DEF Return
  <2>3. Deleted'
    BY <1>1, <1>6, <1>7, <2>2 DEF Deleted, DeleteFilter
  <2>. QED BY <1>1, <2>1, <2>2, <2>3 DEF IInv
<1>8. ASSUME Ahead(e, f, k) # {}, NEW j, j = First(Ahead(e, f, k)),
             rel' = [rel EXCEPT ![r] = Trim([e EXCEPT ![j] = Empty])], Go(j, 0)
      PROVE  IInv'
  <2>. PICK u : u = [e EXCEPT ![j] = Empty]
    OBVIOUS
  <2>1. pos' = <<j, 0>> /\ UNCHANGED <<stmt, status, before>>
    BY <1>8 DEF Go
  <2>2. /\ u \in Seq(S) /\ Len(u) = Len(e)
        /\ Trim(u) = Trim(Erased(q, Hits(q, f, j)))
    BY <1>3, <1>4, <1>5, <1>6, <1>8, EraseNext
  <2>3. Trim(u) \in Seq(S) /\ Len(Trim(u)) <= Capacity /\ Ended(Trim(u))
    <3>1. Trim(u) \in Seq(S) /\ Len(Trim(u)) <= Len(u) /\ Ended(Trim(u))
      BY <2>2, TrimEffect, TrimEnded
    <3>. QED BY <1>3, <2>2, <3>1, BoundsAssumption
  <2>4. pos' \in (0 .. Capacity) \X (0 .. Capacity)
    <3>1. j \in Used(e)
      BY <1>3, <1>4, <1>8, HitsNext
    <3>2. j \in 1 .. Len(e)
      BY <1>3, <3>1, UsedSlots
    <3>. QED BY <1>3, <2>1, <3>2, BoundsAssumption
  <2>5. Slots(r)' = S /\ Target' = r
    BY <1>1, <1>2, <2>1 DEF Slots, Target
  <2>6. TypeOK' /\ Frame' /\ rel'[r] = Trim(u)
    BY <1>1, <1>2, <1>8, <2>1, <2>3, <2>4, <2>5, ChangeStep
  <2>7. rel'[r] = Trim(Erased(q, Hits(q, f, pos'[1])))
    BY <2>1, <2>2, <2>6
  <2>8. before'[stmt'.rel] = q /\ DeleteFilter(stmt)' = f /\ stmt'.rel = r /\ status' # "OK"
    BY <1>1, <2>1 DEF DeleteFilter
  <2>9. Deleted'
    BY <2>7, <2>8 DEF Deleted
  <2>. QED BY <1>1, <2>1, <2>6, <2>9 DEF IInv
<1>9. \/ Ahead(e, f, k) = {} /\ Return("OK")
      \/ /\ Ahead(e, f, k) # {} /\ Go(First(Ahead(e, f, k)), 0)
         /\ rel' = [rel EXCEPT ![r] = Trim([e EXCEPT ![First(Ahead(e, f, k))] = Empty])]
  BY DEF QU_Delete
<1>. QED BY <1>7, <1>8, <1>9

LEMMA ScanSelectStep ==
    ASSUME IInv, ScanSelect
    PROVE  IInv'
<1>. PICK r : r = stmt.rel
  OBVIOUS
<1>. PICK into : into = stmt.into
  OBVIOUS
<1>. PICK q : q = before[r]
  OBVIOUS
<1>. PICK f : f = SelectFilter(stmt)
  OBVIOUS
<1>. PICK k : k = pos[1]
  OBVIOUS
<1>. PICK e : e = rel[r]
  OBVIOUS
<1>. PICK S : S = Slot(DOMAIN Schema[r])
  OBVIOUS
<1>. PICK made : made = [j \in Used(q) |-> Output(stmt.proj, r, q[j], q[j])]
  OBVIOUS
<1>1. /\ TypeOK /\ Frame /\ Selected /\ stmt \in Statement /\ stmt # NoStatement
      /\ stmt.kind = "SELECT" /\ status = "RUNNING"
  BY DEF ScanSelect, IInv, TypeOK
<1>2. /\ r \in Relations /\ r \in Names /\ r # Tmp /\ into \in Names
      /\ stmt.proj \in Projections
  BY <1>1, StatementFields, NamesAssumption DEF Names
<1>3. q \in Seq(S) /\ e \in Seq(S) /\ Len(e) \in 0 .. Capacity
  BY <1>1, <1>2, RelTyped DEF Slots
<1>4. k \in Nat
  BY <1>1 DEF TypeOK
<1>5. From(stmt.proj, {r}) /\ Into(stmt.proj, into)
  BY <1>1 DEF Selected
<1>6. into # r => e = q /\ Grown(rel[into], before[into], Hits(q, f, k), made)
  <2>1. into # r => e = q
    BY <1>1, <1>2 DEF Frame, Target
  <2>. QED BY <1>1, <2>1 DEF Selected
<1>7. ASSUME NEW st \in {"OK", "UNIXERR"}, Return(st), st = "OK" => Ahead(e, f, k) = {}
      PROVE  IInv'
  <2>1. TypeOK' /\ Frame'
    BY <1>1, <1>7, ReturnStep
  <2>2. status' = st /\ UNCHANGED <<rel, stmt, pos, before>>
    BY <1>7 DEF Return
  <2>3. SelectFilter(stmt)' = f
    BY <2>2 DEF SelectFilter, TypeOf
  <2>4. Selected'
    BY <1>5, <1>6, <1>7, <2>2, <2>3 DEF Selected
  <2>. QED BY <1>1, <2>1, <2>2, <2>4 DEF IInv
<1>8. ASSUME Ahead(e, f, k) # {}, NEW j, j = First(Ahead(e, f, k)),
             NEW g \in Put(rel[into], Output(stmt.proj, r, e[j], e[j])),
             rel' = [rel EXCEPT ![into] = g], Go(j, 0)
      PROVE  IInv'
  <2>. PICK t : t = Output(stmt.proj, r, e[j], e[j])
    OBVIOUS
  <2>1. pos' = <<j, 0>> /\ UNCHANGED <<stmt, status, before>>
    BY <1>8 DEF Go
  <2>2. /\ j \in Used(e) /\ j \notin Hits(e, f, k)
        /\ Hits(e, f, j) = Hits(e, f, k) \cup {j}
    BY <1>3, <1>4, <1>8, HitsNext
  <2>3. j \in 0 .. Capacity /\ 0 \in 0 .. Capacity
    <3>1. j \in 1 .. Len(e)
      BY <1>3, <2>2, UsedSlots
    <3>. QED BY <1>3, <3>1, BoundsAssumption
  <2>4. e[j] \in [DOMAIN Schema[r] -> Bits]
    BY <1>3, <2>2, UsedSlots DEF Used, Slot
  <2>5. t \in [DOMAIN stmt.proj -> Bits] /\ t # Empty
    BY <1>2, <1>5, <2>4, OutputTyped
  <2>6. /\ TypeOK' /\ Frame' /\ rel'[into] = g /\ \E c : PutAt(g, rel[into], c, t)
    BY <1>1, <1>5, <1>8, <2>3, <2>5, PutStep
  <2>7. ASSUME into # r PROVE Grown(rel'[into], before'[into], Hits(q, f, j), made)
    <3>. PICK c : PutAt(g, rel[into], c, t)
      BY <2>6
    <3>1. made[j] = t
      BY <1>6, <2>2, <2>7
    <3>2. IsFiniteSet(Hits(q, f, k)) /\ j \notin Hits(q, f, k)
      BY <1>3, <1>6, <2>2, <2>7, HitsFinite
    <3>. PICK T : T = Slots(into)
      OBVIOUS
    <3>3. rel[into] \in Seq(T) /\ before[into] \in Seq(T)
      BY <1>1, <1>2, RelTyped
    <3>4. PutAt(g, rel[into], c, made[j])
      BY <3>1
    <3>5. Grown(g, before[into], Hits(q, f, k) \cup {j}, made)
      BY <1>6, <2>7, <3>2, <3>3, <3>4, GrownOne
    <3>. QED BY <1>6, <2>1, <2>2, <2>6, <2>7, <3>5
  <2>8. SelectFilter(stmt)' = f /\ status' # "OK" /\ pos'[1] = j
    BY <1>1, <2>1 DEF SelectFilter, TypeOf
  <2>9. Selected'
    BY <1>5, <2>1, <2>7, <2>8 DEF Selected
  <2>. QED BY <1>1, <2>1, <2>6, <2>9 DEF IInv
<1>9. \/ \E g \in Put(rel[into], Output(stmt.proj, r, e[First(Ahead(e, f, k))],
                                        e[First(Ahead(e, f, k))])) :
             /\ Ahead(e, f, k) # {} /\ rel' = [rel EXCEPT ![into] = g]
             /\ Go(First(Ahead(e, f, k)), 0)
      \/ Return("UNIXERR")
      \/ Ahead(e, f, k) = {} /\ Return("OK")
  BY DEF ScanSelect
<1>. QED BY <1>7, <1>8, <1>9


-----------------------------------------------------------------------------
(* A join has met the pairs up to where its scans are.                     *)

\* What the steps of a join find.
JoinNames == {stmt.attr1[1], stmt.attr2[1]}

LEMMA JoinState ==
    ASSUME IInv, status = "RUNNING", stmt.kind = "JOIN"
    PROVE  /\ TypeOK /\ Frame /\ Joined /\ stmt \in Statement /\ stmt # NoStatement
           /\ stmt.attr1[1] \in Relations /\ stmt.attr2[1] \in Relations
           /\ JoinNames \subseteq Names /\ stmt.into \in Names /\ stmt.proj \in Projections
           /\ pos \in (0 .. Capacity) \X (0 .. Capacity) /\ pos = <<pos[1], pos[2]>>
           /\ \A r \in Relations : /\ rel[r] \in Seq(Slot(DOMAIN Schema[r]))
                                   /\ before[r] \in Seq(Slot(DOMAIN Schema[r]))
                                   /\ Len(rel[r]) \in 0 .. Capacity
           /\ stmt.into \notin JoinNames => \A r \in JoinNames : rel[r] = before[r]
<1>1. TypeOK /\ Frame /\ Joined /\ stmt \in Statement /\ stmt # NoStatement
  BY DEF IInv, TypeOK
<1>2. /\ stmt.attr1 \in Attrs /\ stmt.attr2 \in Attrs
      /\ stmt.into \in Names /\ stmt.proj \in Projections
  BY <1>1, StatementFields
<1>3. stmt.attr1[1] \in Relations /\ stmt.attr2[1] \in Relations
  BY <1>2, AttrFields
<1>4. JoinNames \subseteq Names
  BY <1>3 DEF JoinNames, Names
<1>5. pos \in (0 .. Capacity) \X (0 .. Capacity) /\ pos = <<pos[1], pos[2]>>
  BY <1>1 DEF TypeOK
<1>6. ASSUME NEW r \in Relations
      PROVE  /\ rel[r] \in Seq(Slot(DOMAIN Schema[r]))
             /\ before[r] \in Seq(Slot(DOMAIN Schema[r]))
             /\ Len(rel[r]) \in 0 .. Capacity
  <2>1. r \in Names /\ r # Tmp
    BY NamesAssumption DEF Names
  <2>. QED BY <1>1, <2>1, RelTyped DEF Slots
<1>7. ASSUME stmt.into \notin JoinNames, NEW r \in JoinNames PROVE rel[r] = before[r]
  <2>1. Target = stmt.into
    BY DEF Target
  <2>. QED BY <1>1, <1>4, <1>7, <2>1 DEF Frame
<1>. QED BY <1>1, <1>2, <1>3, <1>4, <1>5, <1>6, <1>7

\* The outer scan goes on: a record ahead of it is in no pair met so far, and
\* the inner scan has met all that match the record it leaves.
LEMMA MetOuter ==
    ASSUME NEW S1, NEW s1 \in Seq(S1), NEW S2, NEW s2 \in Seq(S2),
           NEW a \in Nat, NEW b \in Nat, pos = <<a, b>>,
           a # 0 => Ahead(s2, InnerFilter(stmt, s1[a]), b) = {},
           Ahead(s1, NoWhere, a) # {}, NEW j, j = First(Ahead(s1, NoWhere, a)),
           pos' = <<j, 0>>, stmt' = stmt
    PROVE  Met(s1, s2)' = Met(s1, s2)
<1>1. Used(s1) \subseteq Nat \ {0} /\ Used(s2) \subseteq Nat \ {0}
  BY UsedSlots
<1>2. j \in Used(s1) /\ j > a
  BY HitsNext
<1>3. ASSUME NEW i \in Used(s1), i > a PROVE j <= i
  <2>1. i \in Ahead(s1, NoWhere, a)
    BY <1>3 DEF Ahead, Used, matchRec
  <2>2. Ahead(s1, NoWhere, a) \subseteq Nat
    BY <1>1 DEF Ahead, Used
  <2>. QED BY <2>1, <2>2, FirstIs
<1>4. ASSUME NEW p \in Used(s1) \X Used(s2),
             matchRec(InnerFilter(stmt, s1[p[1]]), s2[p[2]])
      PROVE  (p[1] < j \/ (p[1] = j /\ p[2] <= 0)) <=> (p[1] < a \/ (p[1] = a /\ p[2] <= b))
  <2>1. p[1] \in Used(s1) /\ p[2] \in Used(s2) /\ p[1] \in Nat \ {0} /\ p[2] \in Nat \ {0}
    BY <1>1
  <2>2. p[1] > a => j <= p[1]
    BY <1>3, <2>1
  <2>3. p[1] = a => p[2] <= b
    <3>1. SUFFICES ASSUME p[1] = a, p[2] > b PROVE FALSE
      BY <2>1
    <3>2. p[2] \in Ahead(s2, InnerFilter(stmt, s1[a]), b)
      BY <1>4, <2>1, <3>1 DEF Ahead, Used
    <3>. QED BY <2>1, <3>1, <3>2
  <2>. QED BY <1>1, <1>2, <2>1, <2>2, <2>3
<1>5. pos[1] = a /\ pos[2] = b /\ pos'[1] = j /\ pos'[2] = 0
  OBVIOUS
<1>. DEFINE M(p) == matchRec(InnerFilter(stmt, s1[p[1]]), s2[p[2]])
<1>6. Met(s1, s2) = {p \in Used(s1) \X Used(s2) :
                        (p[1] < a \/ (p[1] = a /\ p[2] <= b)) /\ M(p)}
  BY <1>5 DEF Met
<1>7. Met(s1, s2)' = {p \in Used(s1) \X Used(s2) :
                        (p[1] < j \/ (p[1] = j /\ p[2] <= 0)) /\ M(p)}
  BY <1>5 DEF Met, InnerFilter, TypeOf
<1>. HIDE DEF M
<1>8. \A p \in Used(s1) \X Used(s2) : M(p) =>
          ((p[1] < j \/ (p[1] = j /\ p[2] <= 0)) <=> (p[1] < a \/ (p[1] = a /\ p[2] <= b)))
  BY <1>4 DEF M
<1>. QED BY <1>6, <1>7, <1>8

\* The inner scan goes on: one more pair is met.
LEMMA MetInner ==
    ASSUME NEW S1, NEW s1 \in Seq(S1), NEW S2, NEW s2 \in Seq(S2),
           NEW a \in Nat, NEW b \in Nat, pos[1] = a, pos[2] = b, a \in Used(s1),
           Ahead(s2, InnerFilter(stmt, s1[a]), b) # {},
           NEW j, j = First(Ahead(s2, InnerFilter(stmt, s1[a]), b)),
           NEW x, x = <<a, j>>, pos'[1] = a, pos'[2] = j, stmt' = stmt,
           NEW met, met = Met(s1, s2) \cup {x}
    PROVE  /\ x \in Used(s1) \X Used(s2) /\ x \notin Met(s1, s2)
           /\ Met(s1, s2)' = met
<1>. PICK f : f = InnerFilter(stmt, s1[a])
  OBVIOUS
<1>1. Used(s1) \subseteq Nat \ {0} /\ Used(s2) \subseteq Nat \ {0}
  BY UsedSlots
<1>2. j \in Used(s2) /\ j > b /\ matchRec(f, s2[j])
  BY HitsNext
<1>3. ASSUME NEW i \in Used(s2), i > b, matchRec(f, s2[i]) PROVE j <= i
  <2>1. i \in Ahead(s2, f, b)
    BY <1>3 DEF Ahead, Used
  <2>2. Ahead(s2, f, b) \subseteq Nat
    BY <1>1 DEF Ahead, Used
  <2>. QED BY <2>1, <2>2, FirstIs
<1>4. pos[1] = a /\ pos[2] = b /\ pos'[1] = a /\ pos'[2] = j
  OBVIOUS
<1>. DEFINE M(p) == matchRec(InnerFilter(stmt, s1[p[1]]), s2[p[2]])
<1>5. Met(s1, s2) = {p \in Used(s1) \X Used(s2) :
                        (p[1] < a \/ (p[1] = a /\ p[2] <= b)) /\ M(p)}
  BY <1>4 DEF Met
<1>6. Met(s1, s2)' = {p \in Used(s1) \X Used(s2) :
                        (p[1] < a \/ (p[1] = a /\ p[2] <= j)) /\ M(p)}
  BY <1>4 DEF Met, InnerFilter, TypeOf
<1>7. ASSUME NEW p \in Used(s1) \X Used(s2), p[1] = a
      PROVE  M(p) <=> matchRec(f, s2[p[2]])
  BY <1>7
<1>8. M(<<a, j>>) /\ <<a, j>> \in Used(s1) \X Used(s2)
  BY <1>2
<1>. HIDE DEF M
<1>9. ASSUME NEW p \in Used(s1) \X Used(s2), M(p)
      PROVE  (p[1] < a \/ (p[1] = a /\ p[2] <= j)) <=>
                 (p[1] < a \/ (p[1] = a /\ p[2] <= b)) \/ p = <<a, j>>
  <2>1. /\ p[1] \in Used(s1) /\ p[2] \in Used(s2) /\ p[1] \in Nat /\ p[2] \in Nat
        /\ p = <<p[1], p[2]>>
    BY <1>1
  <2>2. p[1] = a /\ p[2] > b => j <= p[2]
    BY <1>3, <1>7, <1>9, <2>1
  <2>. QED BY <1>1, <1>2, <2>1, <2>2
<1>10. <<a, j>> \notin Met(s1, s2)
  BY <1>1, <1>2, <1>5
<1>11. Met(s1, s2)' = Met(s1, s2) \cup {<<a, j>>}
  BY <1>5, <1>6, <1>8, <1>9
<1>. QED BY <1>8, <1>10, <1>11


\* What of Joined does not depend on where the scans are.
LEMMA JoinedFields ==
    ASSUME Joined
    PROVE  /\ From(stmt.proj, JoinNames) /\ Into(stmt.proj, stmt.into)
           /\ pos[1] = 0 \/ pos[1] \in Used(rel[stmt.attr1[1]])
BY DEF Joined, JoinNames

LEMMA NLJoinOuterStep ==
    ASSUME IInv, NLJoinOuter
    PROVE  IInv'
<1>. PICK o : o = stmt.attr1[1]
  OBVIOUS
<1>. PICK i : i = stmt.attr2[1]
  OBVIOUS
<1>. PICK into : into = stmt.into
  OBVIOUS
<1>. PICK s1 : s1 = before[o]
  OBVIOUS
<1>. PICK s2 : s2 = before[i]
  OBVIOUS
<1>. PICK a : a = pos[1]
  OBVIOUS
<1>. PICK b : b = pos[2]
  OBVIOUS
<1>. PICK e : e = rel[o]
  OBVIOUS
<1>m. PICK made : made = [p \in Used(s1) \X Used(s2) |-> Output(stmt.proj, o, s1[p[1]], s2[p[2]])]
  OBVIOUS
<1>1. status = "RUNNING" /\ stmt.kind = "JOIN" /\ Matches = {}
  BY DEF NLJoinOuter
<1>2. /\ TypeOK /\ Frame /\ Joined /\ stmt \in Statement /\ stmt # NoStatement
      /\ o \in Relations /\ pos = <<a, b>> /\ a \in Nat /\ b \in 0 .. Capacity
      /\ s1 \in Seq(Slot(DOMAIN Schema[o])) /\ s2 \in Seq(Slot(DOMAIN Schema[i]))
      /\ e \in Seq(Slot(DOMAIN Schema[o])) /\ Len(e) \in 0 .. Capacity
      /\ into \notin {o, i} => e = s1 /\ rel[i] = s2
  BY <1>1, JoinState DEF JoinNames
<1>3. /\ From(stmt.proj, {o, i}) /\ Into(stmt.proj, into)
      /\ a = 0 \/ a \in Used(e)
      /\ into \notin {o, i} => Grown(rel[into], before[into], Met(s1, s2), made)
  BY <1>2, <1>m DEF Joined
<1>4. CASE Ahead(e, NoWhere, a) = {} /\ Return("OK")
  <2>1. TypeOK' /\ Frame'
    BY <1>1, <1>4, ReturnStep
  <2>2. status' = "OK" /\ UNCHANGED <<rel, stmt, pos, before>>
    BY <1>4 DEF Return
  <2>3. Matches' = {} /\ Met(s1, s2)' = Met(s1, s2)
    BY <1>1, <2>2 DEF Matches, Met, InnerFilter, TypeOf
  <2>4. /\ stmt'.attr1[1] = o /\ stmt'.attr2[1] = i /\ stmt'.into = into
        /\ before'[o] = s1 /\ before'[i] = s2 /\ rel'[o] = e /\ pos'[1] = a
        /\ rel'[into] = rel[into] /\ before'[into] = before[into] /\ stmt'.proj = stmt.proj
    BY <2>2
  <2>5. Joined'
    BY <1>2, <1>3, <1>4, <1>m, <2>3, <2>4 DEF Joined
  <2>. QED BY <1>1, <1>2, <2>1, <2>2, <2>5 DEF IInv
<1>5. ASSUME Ahead(e, NoWhere, a) # {}, NEW j, j = First(Ahead(e, NoWhere, a)), Go(j, 0),
             UNCHANGED rel
      PROVE  IInv'
  <2>1. pos' = <<j, 0>> /\ UNCHANGED <<rel, stmt, status, before>>
    BY <1>5 DEF Go
  <2>2. j \in Used(e)
    BY <1>2, <1>5, HitsNext
  <2>3. pos' \in (0 .. Capacity) \X (0 .. Capacity)
    <3>1. j \in 1 .. Len(e)
      BY <1>2, <2>2, UsedSlots
    <3>. QED BY <1>2, <2>1, <3>1, BoundsAssumption
  <2>4. TypeOK'
    BY <1>2, <2>1, <2>3 DEF TypeOK
  <2>5. Frame'
    BY <1>2, <2>1 DEF Frame, Target
  <2>6. ASSUME into \notin {o, i} PROVE Met(s1, s2)' = Met(s1, s2)
    <3>1. e = s1 /\ rel[i] = s2 /\ b \in Nat
      BY <1>2, <2>6
    <3>2. a # 0 => Ahead(s2, InnerFilter(stmt, s1[a]), b) = {}
      BY <1>1, <3>1 DEF Matches
    <3>. QED BY <1>2, <1>5, <2>1, <3>1, <3>2, MetOuter
  <2>7. /\ stmt'.attr1[1] = o /\ stmt'.attr2[1] = i /\ stmt'.into = into
        /\ before'[o] = s1 /\ before'[i] = s2 /\ rel'[o] = e /\ pos'[1] = j
        /\ rel'[into] = rel[into] /\ before'[into] = before[into] /\ stmt'.proj = stmt.proj
        /\ status' # "OK"
    BY <1>1, <2>1
  <2>8. Joined'
    BY <1>3, <1>m, <2>2, <2>6, <2>7 DEF Joined
  <2>. QED BY <1>1, <1>2, <2>1, <2>4, <2>5, <2>8 DEF IInv
<1>6. \/ Ahead(e, NoWhere, a) = {} /\ Return("OK")
      \/ /\ Ahead(e, NoWhere, a) # {} /\ Go(First(Ahead(e, NoWhere, a)), 0)
         /\ UNCHANGED rel
  BY DEF NLJoinOuter
<1>. QED BY <1>4, <1>5, <1>6

LEMMA NLJoinInnerStep ==
    ASSUME IInv, NLJoinInner
    PROVE  IInv'
<1>. PICK o : o = stmt.attr1[1]
  OBVIOUS
<1>. PICK i : i = stmt.attr2[1]
  OBVIOUS
<1>. PICK into : into = stmt.into
  OBVIOUS
<1>. PICK s1 : s1 = before[o]
  OBVIOUS
<1>. PICK s2 : s2 = before[i]
  OBVIOUS
<1>. PICK a : a = pos[1]
  OBVIOUS
<1>. PICK b : b = pos[2]
  OBVIOUS
<1>. PICK e : e = rel[o]
  OBVIOUS
<1>. PICK d : d = rel[i]
  OBVIOUS
<1>m. PICK made : made = [p \in Used(s1) \X Used(s2) |-> Output(stmt.proj, o, s1[p[1]], s2[p[2]])]
  OBVIOUS
<1>. PICK f : f = InnerFilter(stmt, e[a])
  OBVIOUS
<1>1. status = "RUNNING" /\ stmt.kind = "JOIN" /\ Matches # {}
  BY DEF NLJoinInner
<1>2. /\ TypeOK /\ Frame /\ Joined /\ stmt \in Statement /\ stmt # NoStatement
      /\ o \in Relations /\ i \in Relations /\ into \in Names /\ stmt.proj \in Projections
      /\ pos = <<a, b>> /\ a \in 0 .. Capacity /\ a \in Nat /\ b \in Nat
      /\ s1 \in Seq(Slot(DOMAIN Schema[o])) /\ s2 \in Seq(Slot(DOMAIN Schema[i]))
      /\ e \in Seq(Slot(DOMAIN Schema[o])) /\ d \in Seq(Slot(DOMAIN Schema[i]))
      /\ Len(d) \in 0 .. Capacity
      /\ into \notin {o, i} => e = s1 /\ d = s2
  BY <1>1, JoinState DEF JoinNames
<1>3. /\ From(stmt.proj, {o, i}) /\ Into(stmt.proj, into)
      /\ a = 0 \/ a \in Used(e)
      /\ into \notin {o, i} => Grown(rel[into], before[into], Met(s1, s2), made)
  BY <1>2, <1>m DEF Joined
<1>4. a \in Used(e) /\ Matches = Ahead(d, f, b)
  BY <1>1, <1>3 DEF Matches
<1>5. CASE Return("EXIT")
  <2>1. TypeOK' /\ Frame'
    BY <1>1, <1>5, ReturnStep
  <2>2. status' = "EXIT" /\ UNCHANGED <<rel, stmt, pos, before>>
    BY <1>5 DEF Return
  <2>3. Met(s1, s2)' = Met(s1, s2)
    BY <2>2 DEF Met, InnerFilter, TypeOf
  <2>4. /\ stmt'.attr1[1] = o /\ stmt'.attr2[1] = i /\ stmt'.into = into
        /\ before'[o] = s1 /\ before'[i] = s2 /\ rel'[o] = e /\ pos'[1] = a
        /\ rel'[into] = rel[into] /\ before'[into] = before[into] /\ stmt'.proj = stmt.proj
        /\ status' # "OK"
    BY <2>2
  <2>5. Joined'
    BY <1>3, <1>m, <2>3, <2>4 DEF Joined
  <2>. QED BY <1>1, <1>2, <2>1, <2>2, <2>5 DEF IInv
<1>6. ASSUME NEW j, j = First(Ahead(d, f, b)),
             NEW g \in Put(rel[into], Output(stmt.proj, o, e[a], d[j])),
             rel' = [rel EXCEPT ![into] = g], Go(a, j)
      PROVE  IInv'
  <2>. PICK t : t = Output(stmt.proj, o, e[a], d[j])
    OBVIOUS
  <2>1. pos' = <<a, j>> /\ UNCHANGED <<stmt, status, before>>
    BY <1>6 DEF Go
  <2>2. j \in Used(d)
    BY <1>1, <1>2, <1>4, <1>6, HitsNext
  <2>3. j \in 0 .. Capacity
    <3>1. j \in 1 .. Len(d)
      BY <1>2, <2>2, UsedSlots
    <3>. QED BY <1>2, <3>1, BoundsAssumption
  <2>4. e[a] \in [DOMAIN Schema[o] -> Bits] /\ d[j] \in [DOMAIN Schema[i] -> Bits]
    BY <1>2, <1>4, <2>2, UsedSlots DEF Used, Slot
  <2>5. t \in [DOMAIN stmt.proj -> Bits] /\ t # Empty
    BY <1>2, <1>3, <2>4, OutputTyped, ZenonT(60)
  <2>6. /\ TypeOK' /\ Frame' /\ rel'[into] = g /\ \E c : PutAt(g, rel[into], c, t)
        /\ \A q \in Names : q # into => rel'[q] = rel[q]
    <3>1. g \in Put(rel[stmt.into], t) /\ rel' = [rel EXCEPT ![stmt.into] = g]
      BY <1>6
    <3>2. stmt.kind \in {"SELECT", "JOIN"} /\ Into(stmt.proj, stmt.into) /\ Go(a, j)
      BY <1>1, <1>3, <1>6
    <3>. QED BY <1>1, <1>2, <2>3, <2>5, <3>1, <3>2, PutStep, ZenonT(60)
  <2>. PICK c : PutAt(g, rel[into], c, t)
    BY <2>6
  <2>7. a \in Used(rel'[o])
    <3>1. CASE o = into
      BY <1>4, <2>6, <3>1 DEF PutAt
    <3>2. CASE o # into
      BY <1>2, <1>4, <2>6, <3>2 DEF Names
    <3>. QED BY <3>1, <3>2
  <2>8. ASSUME into \notin {o, i}
        PROVE  Grown(rel'[into], before'[into], Met(s1, s2)', made)
    <3>1. e = s1 /\ d = s2
      BY <1>2, <2>8
    <3>. PICK x : x = <<a, j>>
      OBVIOUS
    <3>2. /\ x \in Used(s1) \X Used(s2) /\ x \notin Met(s1, s2)
          /\ Met(s1, s2)' = Met(s1, s2) \cup {x}
      <4>. PICK S1 : S1 = Slot(DOMAIN Schema[o])
        OBVIOUS
      <4>. PICK S2 : S2 = Slot(DOMAIN Schema[i])
        OBVIOUS
      <4>1. /\ a \in Used(s1) /\ Ahead(s2, InnerFilter(stmt, s1[a]), b) # {}
            /\ j = First(Ahead(s2, InnerFilter(stmt, s1[a]), b))
        BY <1>1, <1>4, <1>6, <3>1
      <4>2. s1 \in Seq(S1) /\ s2 \in Seq(S2)
        BY <1>2
      <4>3. /\ pos[1] = a /\ pos[2] = b /\ a \in Nat /\ b \in Nat
            /\ pos'[1] = a /\ pos'[2] = j /\ stmt' = stmt
        BY <1>2, <2>1
      <4>. PICK met : met = Met(s1, s2) \cup {x}
        OBVIOUS
      <4>4. x = <<a, j>> /\ met = Met(s1, s2) \cup {x}
        OBVIOUS
      <4>5. x \in Used(s1) \X Used(s2) /\ x \notin Met(s1, s2)
        BY <4>1, <4>2, <4>3, MetInner
      <4>6. Met(s1, s2)' = met
        BY ONLY <4>1, <4>2, <4>3, <4>4, MetInner, Zenon
      <4>. QED BY <4>4, <4>5, <4>6
    <3>. PICK met : met = Met(s1, s2)
      OBVIOUS
    <3>3. made[x] = t
      BY <1>m, <3>1, <3>2
    <3>4. IsFiniteSet(met)
      <4>1. IsFiniteSet(Used(s1) \X Used(s2))
        BY <1>2, UsedSlots, FS_Product
      <4>2. met \subseteq Used(s1) \X Used(s2)
        BY DEF Met
      <4>. QED BY <4>1, <4>2, FS_Subset
    <3>. PICK T : T = Slots(into)
      OBVIOUS
    <3>5. rel[into] \in Seq(T) /\ before[into] \in Seq(T)
      BY <1>2, RelTyped
    <3>6. PutAt(g, rel[into], c, made[x])
      BY <3>3
    <3>7. Grown(g, before[into], met \cup {x}, made)
      BY <1>3, <2>8, <3>2, <3>4, <3>5, <3>6, GrownOne
    <3>. QED BY <2>1, <2>6, <3>2, <3>7
  <2>9. /\ stmt'.attr1[1] = o /\ stmt'.attr2[1] = i /\ stmt'.into = into
        /\ before'[o] = s1 /\ before'[i] = s2 /\ pos'[1] = a
        /\ stmt'.proj = stmt.proj /\ status' # "OK"
    BY <1>1, <2>1
  <2>10. Joined'
    BY <1>3, <1>m, <2>7, <2>8, <2>9 DEF Joined
  <2>. QED BY <1>1, <1>2, <2>1, <2>6, <2>10 DEF IInv
<1>7. \/ Return("EXIT")
      \/ \E g \in Put(rel[into], Output(stmt.proj, o, e[a], d[First(Ahead(d, f, b))])) :
             rel' = [rel EXCEPT ![into] = g] /\ Go(a, First(Ahead(d, f, b)))
  BY <1>4 DEF NLJoinInner
<1>. QED BY <1>5, <1>6, <1>7

LEMMA FinishStep ==
    ASSUME IInv, Finish
    PROVE  IInv'
<1>1. TypeOK /\ Frame /\ DOMAIN rel = Names
  BY DEF IInv, TypeOK, Names
<1>2. /\ stmt' = NoStatement /\ status' = "IDLE" /\ pos' = <<0, 0>> /\ before' = rel'
      /\ DOMAIN rel' = Names /\ rel'[Tmp] = <<>>
      /\ \A r \in Relations : rel'[r] = rel[r]
  BY <1>1, NamesAssumption DEF Finish, Names
<1>3. \A r \in Names : Len(rel'[r]) <= Capacity /\ Ended(rel'[r])
  <2>1. Len(rel'[Tmp]) <= Capacity /\ Ended(rel'[Tmp])
    BY <1>2, BoundsAssumption DEF Ended
  <2>2. \A r \in Relations : Len(rel[r]) <= Capacity /\ Ended(rel[r])
    BY <1>1 DEF TypeOK, Frame, Names
  <2>. QED BY <1>2, <2>1, <2>2 DEF Names
<1>4. pos' \in (0 .. Capacity) \X (0 .. Capacity)
  BY <1>2, BoundsAssumption
<1>5. TypeOK'
  BY <1>1, <1>2, <1>3, <1>4 DEF TypeOK, Names
<1>6. Frame'
  BY <1>2, <1>3 DEF Frame
<1>. QED BY <1>2, <1>5, <1>6 DEF IInv

LEMMA StutterStep ==
    ASSUME IInv, UNCHANGED vars
    PROVE  IInv'
<1>1. TypeOK' /\ Frame'
  BY DEF IInv, TypeOK, Frame, Target, vars
<1>2. Inserted => Inserted'
  BY DEF Inserted, vars
<1>3. Deleted => Deleted'
  BY DEF Deleted, DeleteFilter, vars
<1>4. Selected => Selected'
  BY DEF Selected, SelectFilter, TypeOf, vars
<1>5. Joined => Joined'
  BY DEF Joined, Met, Matches, InnerFilter, TypeOf, vars
<1>. QED BY <1>1, <1>2, <1>3, <1>4, <1>5 DEF IInv, vars


-----------------------------------------------------------------------------
(* The theorems.                                                           *)

LEMMA NextInv == IInv /\ [Next]_vars => IInv'
<1>. SUFFICES ASSUME IInv, [Next]_vars PROVE IInv'
  OBVIOUS
<1>1. CASE Call
  <2>1. status = "IDLE"
    BY <1>1 DEF Call
  <2>2. ASSUME NEW r \in Relations, NEW list \in InsertLists, QU_Insert(r, list) PROVE IInv'
    BY <2>1, <2>2, InsertStep
  <2>3. ASSUME NEW r \in Relations, BeginDelete(r) PROVE IInv'
    BY <2>1, <2>3, BeginDeleteStep
  <2>4. ASSUME NEW r \in Relations, NEW proj \in Projections, NEW target \in Names,
               BeginSelect(r, proj, target)
        PROVE  IInv'
    BY <2>1, <2>4, BeginSelectStep
  <2>5. ASSUME NEW attr1 \in Attrs, NEW attr2 \in Attrs, NEW op \in Operators,
               NEW proj \in Projections, NEW target \in Names, NEW method \in JoinMethods,
               BeginJoin(attr1, op, attr2, proj, target, method)
        PROVE  IInv'
    BY <2>1, <2>5, BeginJoinStep
  <2>. QED BY <1>1, <2>2, <2>3, <2>4, <2>5 DEF Call, Names
<1>2. CASE Step
  BY <1>2, DeleteStep, ScanSelectStep, NLJoinOuterStep, NLJoinInnerStep, FinishStep DEF Step
<1>3. CASE UNCHANGED vars
  BY <1>3, StutterStep
<1>. QED BY <1>1, <1>2, <1>3 DEF Next

THEOREM Invariance == Spec => []IInv
BY InitInv, NextInv, PTL DEF Spec

(* Slots hold records of the relation's attributes or nothing, whatever the *)
(* statements (insert.C:60-104, select.C:183-219, join.C:104-162).          *)
THEOREM TypeCorrect == Spec => []TypeOK
<1>1. IInv => TypeOK
  BY DEF IInv
<1>. QED BY <1>1, Invariance, PTL

\* What DELETE leaves at its end.
LEMMA DeleteIsExact == IInv => DeleteExact
<1>. SUFFICES ASSUME IInv, stmt # NoStatement, stmt.kind = "DELETE", status = "OK",
                     stmt.where # NoWhere => stmt.where.value.type = TypeOf(stmt.where.attr),
                     Comparable(before[stmt.rel], stmt.where)
              PROVE  LET s == before[stmt.rel]
                     IN  rel[stmt.rel] = Trim([k \in DOMAIN s |->
                            IF s[k] # Empty /\ Satisfies(s[k], stmt.where) THEN Empty ELSE s[k]])
  BY DEF DeleteExact
<1>. PICK r : r = stmt.rel
  OBVIOUS
<1>. PICK s : s = before[r]
  OBVIOUS
<1>. PICK w : w = stmt.where
  OBVIOUS
<1>. PICK f : f = DeleteFilter(stmt)
  OBVIOUS
<1>. PICK k : k = pos[1]
  OBVIOUS
<1>1. TypeOK /\ Deleted /\ stmt \in Statement
  BY DEF IInv, TypeOK
<1>2. r \in Relations /\ w \in Wheres(r) /\ r \in Names /\ r # Tmp
  BY <1>1, StatementFields, NamesAssumption DEF Names
<1>3. s \in Seq(Slot(DOMAIN Schema[r])) /\ k \in Nat
  BY <1>1, <1>2, RelTyped DEF TypeOK, Slots
<1>4. rel[r] = Trim(Erased(s, Hits(s, f, k))) /\ Ahead(s, f, k) = {}
  BY <1>1 DEF Deleted
<1>5. Hits(s, f, k) = {j \in Used(s) : matchRec(f, s[j])}
  BY <1>3, <1>4, HitsAll
<1>6. f = Asked(w)
  BY DeleteAsks
<1>7. \A j \in Used(s) : matchRec(f, s[j]) <=> Satisfies(s[j], w)
  BY <1>2, <1>3, <1>6, AskedSatisfies
<1>8. Erased(s, Hits(s, f, k)) =
          [j \in DOMAIN s |-> IF s[j] # Empty /\ Satisfies(s[j], w) THEN Empty ELSE s[j]]
  BY <1>5, <1>7 DEF Erased, Used
<1>. QED BY <1>4, <1>8

(* DELETE removes the records that satisfy WHERE and no other, and moves     *)
(* none, however many slots its scan empties on the way (delete.C:81-90).    *)
THEOREM DeleteExactAlways == Spec => []DeleteExact
BY Invariance, DeleteIsExact, PTL

LEMMA SelectIsExactInv == IInv => SelectExact
<1>. SUFFICES ASSUME IInv, stmt # NoStatement, stmt.kind = "SELECT", stmt.into # stmt.rel,
                     Comparable(before[stmt.rel], stmt.where)
              PROVE  SelectIsExact
  BY DEF SelectExact, SelectIsExact
<1>. PICK r : r = stmt.rel
  OBVIOUS
<1>. PICK s : s = before[r]
  OBVIOUS
<1>. PICK w : w = stmt.where
  OBVIOUS
<1>. PICK f : f = SelectFilter(stmt)
  OBVIOUS
<1>. PICK k : k = pos[1]
  OBVIOUS
<1>. PICK new : new = rel[stmt.into]
  OBVIOUS
<1>. PICK old : old = before[stmt.into]
  OBVIOUS
<1>. PICK made : made = [j \in Used(s) |-> Output(stmt.proj, r, s[j], s[j])]
  OBVIOUS
<1>. PICK found : found = {j \in Used(s) : Satisfies(s[j], w)}
  OBVIOUS
<1>. DEFINE Projected(j) == [i \in DOMAIN stmt.proj |-> s[j][stmt.proj[i][2]]]
<1>1. TypeOK /\ Selected /\ stmt \in Statement
  BY DEF IInv, TypeOK
<1>2. /\ r \in Relations /\ w \in Wheres(r) /\ r \in Names /\ r # Tmp
      /\ stmt.into \in Names
  BY <1>1, StatementFields, NamesAssumption DEF Names
<1>3. s \in Seq(Slot(DOMAIN Schema[r])) /\ k \in Nat
  BY <1>1, <1>2, RelTyped DEF TypeOK, Slots
<1>4. Grown(new, old, Hits(s, f, k), made) /\ (status = "OK" => Ahead(s, f, k) = {})
  BY <1>1 DEF Selected
<1>5. f = Asked(w)
  BY SelectAsks
<1>6. found = {j \in Used(s) : matchRec(f, s[j])}
  <2>1. \A j \in Used(s) : matchRec(f, s[j]) <=> Satisfies(s[j], w)
    BY <1>2, <1>3, <1>5, AskedSatisfies
  <2>. QED BY <2>1
<1>7. Hits(s, f, k) \subseteq found /\ IsFiniteSet(found)
  <2>1. IsFiniteSet(found)
    BY <1>3, UsedSlots, FS_Subset
  <2>. QED BY <1>6, <2>1 DEF Hits, Used
<1>8. status = "OK" => Hits(s, f, k) = found
  BY <1>3, <1>4, <1>6, HitsAll
<1>9. ASSUME NEW j \in found PROVE made[j] = Projected(j)
  BY DEF Output
<1>10. ASSUME NEW t
       PROVE  Count(new, t) - Count(old, t) <= Cardinality({j \in found : Projected(j) = t})
  <2>. PICK T : T = Slots(stmt.into)
    OBVIOUS
  <2>1. new \in Seq(T) /\ old \in Seq(T)
    BY <1>1, <1>2, RelTyped
  <2>2. Count(new, t) - Count(old, t) <= Cardinality({j \in found : made[j] = t})
    BY <1>4, <1>7, <2>1, GrownAtMost
  <2>3. {j \in found : made[j] = t} = {j \in found : Projected(j) = t}
    BY <1>9
  <2>. QED BY <2>2, <2>3
<1>11. status = "OK" => Cardinality(Used(new)) = Cardinality(Used(old)) + Cardinality(found)
  BY <1>4, <1>8 DEF Grown
<1>12. \A j \in Used(new) : Count(new, new[j]) - Count(old, new[j])
                                <= Cardinality({x \in found : Projected(x) = new[j]})
  BY <1>10
<1>. QED BY <1>11, <1>12 DEF SelectIsExact, ResultIs

(* SELECT finds each record that satisfies WHERE once and no other, whatever *)
(* type the literal was written with (select.C:183-219).                     *)
THEOREM SelectExactAlways == Spec => []SelectExact
BY Invariance, SelectIsExactInv, PTL


LEMMA JoinIsExact == IInv => JoinExact
<1>. SUFFICES ASSUME IInv, stmt # NoStatement, stmt.kind = "JOIN", stmt.nested,
                     stmt.into \notin {stmt.attr1[1], stmt.attr2[1]},
                     TypeOf(stmt.attr1) = TypeOf(stmt.attr2)
              PROVE
        LET s1 == before[stmt.attr1[1]]
            s2 == before[stmt.attr2[1]]
            c1 == stmt.attr1[2]
            c2 == stmt.attr2[2]
            type  == TypeOf(stmt.attr1)
            pairs == Used(s1) \X Used(s2)
            Pair(p) == [i \in DOMAIN stmt.proj |->
                           (IF stmt.proj[i][1] = stmt.attr1[1] THEN s1[p[1]] ELSE s2[p[2]])
                               [stmt.proj[i][2]]]
        IN  (\A p \in pairs : NoOverflow(type, s2[p[2]][c2], s1[p[1]][c1])) =>
                ResultIs({p \in pairs : Holds(stmt.op, Worth(type, s1[p[1]][c1])
                                                       - Worth(type, s2[p[2]][c2]))}, Pair)
  BY DEF JoinExact
<1>. PICK o : o = stmt.attr1[1]
  OBVIOUS
<1>. PICK i : i = stmt.attr2[1]
  OBVIOUS
<1>. PICK s1 : s1 = before[o]
  OBVIOUS
<1>. PICK s2 : s2 = before[i]
  OBVIOUS
<1>. PICK c1 : c1 = stmt.attr1[2]
  OBVIOUS
<1>. PICK c2 : c2 = stmt.attr2[2]
  OBVIOUS
<1>. PICK type : type = TypeOf(stmt.attr1)
  OBVIOUS
<1>. PICK new : new = rel[stmt.into]
  OBVIOUS
<1>. PICK old : old = before[stmt.into]
  OBVIOUS
<1>m. PICK made : made = [p \in Used(s1) \X Used(s2) |-> Output(stmt.proj, o, s1[p[1]], s2[p[2]])]
  OBVIOUS
<1>f. PICK found : found = {p \in Used(s1) \X Used(s2) :
                              Holds(stmt.op, Worth(type, s1[p[1]][c1]) - Worth(type, s2[p[2]][c2]))}
  OBVIOUS
<1>. DEFINE Pair(p) == [c \in DOMAIN stmt.proj |->
                           (IF stmt.proj[c][1] = o THEN s1[p[1]] ELSE s2[p[2]])[stmt.proj[c][2]]]
<1>. DEFINE S1 == before[stmt.attr1[1]]  S2 == before[stmt.attr2[1]]
            Holding == {p \in Used(S1) \X Used(S2) :
                           Holds(stmt.op, Worth(TypeOf(stmt.attr1), S1[p[1]][stmt.attr1[2]])
                                          - Worth(TypeOf(stmt.attr1), S2[p[2]][stmt.attr2[2]]))}
            PairOf(p) == [c \in DOMAIN stmt.proj |->
                             (IF stmt.proj[c][1] = stmt.attr1[1] THEN S1[p[1]] ELSE S2[p[2]])
                                 [stmt.proj[c][2]]]
<1>1. SUFFICES ASSUME \A p \in Used(S1) \X Used(S2) :
                          NoOverflow(TypeOf(stmt.attr1), S2[p[2]][stmt.attr2[2]],
                                     S1[p[1]][stmt.attr1[2]])
               PROVE  /\ \A k \in Used(rel[stmt.into]) :
                             Count(rel[stmt.into], rel[stmt.into][k])
                                 - Count(before[stmt.into], rel[stmt.into][k])
                               <= Cardinality({p \in Holding : PairOf(p) = rel[stmt.into][k]})
                      /\ status = "OK" => Cardinality(Used(rel[stmt.into])) =
                             Cardinality(Used(before[stmt.into])) + Cardinality(Holding)
  BY DEF ResultIs
<1>2. \A p \in Used(s1) \X Used(s2) : NoOverflow(type, s2[p[2]][c2], s1[p[1]][c1])
  BY <1>1
<1>3. found = Holding
  BY <1>f
<1>4. \A p : PairOf(p) = Pair(p)
  OBVIOUS
<1>5. TypeOK /\ Frame /\ Joined /\ stmt \in Statement
  BY DEF IInv, TypeOK
<1>6. /\ stmt.attr1 \in Attrs /\ stmt.attr2 \in Attrs /\ stmt.op \in Operators
      /\ stmt.into \in Names
  BY <1>2, <1>5, StatementFields
<1>7. /\ o \in Relations /\ i \in Relations /\ type \in Types
      /\ c1 \in DOMAIN Schema[o] /\ c2 \in DOMAIN Schema[i] /\ c2 \in Nat
      /\ o \in Names /\ i \in Names /\ o # Tmp /\ i # Tmp
  BY <1>6, AttrFields, NamesAssumption DEF Names
<1>8. /\ s1 \in Seq(Slot(DOMAIN Schema[o])) /\ s2 \in Seq(Slot(DOMAIN Schema[i]))
      /\ rel[o] = s1 /\ rel[i] = s2
  <2>1. s1 \in Seq(Slot(DOMAIN Schema[o])) /\ s2 \in Seq(Slot(DOMAIN Schema[i]))
    BY <1>5, <1>7, RelTyped DEF Slots
  <2>2. Target = stmt.into
    BY <1>2 DEF Target
  <2>. QED BY <1>2, <1>5, <1>7, <2>1, <2>2 DEF Frame
<1>9. ASSUME NEW p \in Used(s1) \X Used(s2)
      PROVE  matchRec(InnerFilter(stmt, s1[p[1]]), s2[p[2]]) <=> p \in found
  <2>. PICK a : a = s1[p[1]][c1]
    OBVIOUS
  <2>. PICK t : t = s2[p[2]]
    OBVIOUS
  <2>1. p[1] \in Used(s1) /\ p[2] \in Used(s2)
    OBVIOUS
  <2>2. s1[p[1]] \in [DOMAIN Schema[o] -> Bits] /\ t \in [DOMAIN Schema[i] -> Bits]
    BY <1>8, <2>1, UsedSlots DEF Used, Slot
  <2>3. a \in Bits /\ t[c2] \in Bits
    BY <1>7, <2>2
  <2>4. InnerFilter(stmt, s1[p[1]]) = Filter(c2, Flip(stmt.op), type, a)
    BY <1>2 DEF InnerFilter, Filter
  <2>5. Flip(stmt.op) \in Operators
    BY <1>6 DEF Flip, Operators
  <2>6. NoOverflow(type, t[c2], a)
    BY <1>2
  <2>7. matchRec(Filter(c2, Flip(stmt.op), type, a), t) <=>
            Holds(Flip(stmt.op), Worth(type, t[c2]) - Worth(type, a))
    BY <1>7, <2>2, <2>3, <2>5, <2>6, MatchIs
  <2>8. Holds(Flip(stmt.op), Worth(type, t[c2]) - Worth(type, a)) <=>
            Holds(stmt.op, Worth(type, a) - Worth(type, t[c2]))
    BY <1>6, <2>3, WorthTyped, FlipIsConverse
  <2>. QED BY <1>f, <2>4, <2>7, <2>8
<1>t. PICK met : met = Met(s1, s2)
  OBVIOUS
<1>10. Grown(new, old, met, made)
  BY <1>5, <1>m, <1>t DEF Joined
<1>11. status = "OK" => Matches = {} /\ Ahead(s1, NoWhere, pos[1]) = {}
  BY <1>5 DEF Joined
<1>12. met \subseteq found /\ IsFiniteSet(found)
  <2>1. IsFiniteSet(Used(s1) \X Used(s2))
    BY <1>8, UsedSlots, FS_Product
  <2>2. IsFiniteSet(found)
    BY <1>f, <2>1, FS_Subset
  <2>. QED BY <1>9, <1>f, <1>t, <2>2, ZenonT(60) DEF Met
<1>13. status = "OK" => met = found
  <2>. SUFFICES ASSUME status = "OK", NEW p \in found PROVE p \in met
    BY <1>12
  <2>1. /\ p \in Used(s1) \X Used(s2) /\ p[1] \in Used(s1) /\ p[2] \in Used(s2)
        /\ matchRec(InnerFilter(stmt, s1[p[1]]), s2[p[2]])
    BY <1>9, <1>f
  <2>2. p[1] \in Nat \ {0} /\ p[2] \in Nat /\ pos[1] \in Nat /\ pos[2] \in Nat
    <3>1. Used(s1) \subseteq Nat \ {0} /\ Used(s2) \subseteq Nat \ {0}
      BY <1>8, UsedSlots
    <3>2. pos \in (0 .. Capacity) \X (0 .. Capacity)
      BY <1>5 DEF TypeOK
    <3>. QED BY <2>1, <3>1, <3>2
  <2>3. p[1] <= pos[1]
    <3>1. SUFFICES ASSUME p[1] > pos[1] PROVE FALSE
      BY <2>2
    <3>2. p[1] \in Ahead(s1, NoWhere, pos[1])
      BY <2>1, <3>1 DEF Ahead, Used, matchRec
    <3>. QED BY <1>11, <3>2
  <2>4. p[1] = pos[1] => p[2] <= pos[2]
    <3>1. SUFFICES ASSUME p[1] = pos[1], p[2] > pos[2] PROVE FALSE
      BY <2>2
    <3>2. Matches = Ahead(s2, InnerFilter(stmt, s1[pos[1]]), pos[2])
      BY <1>8, <2>2, <3>1 DEF Matches
    <3>3. p[2] \in Ahead(s2, InnerFilter(stmt, s1[pos[1]]), pos[2])
      BY <2>1, <3>1 DEF Ahead, Used
    <3>4. p[2] \in Matches
      BY <3>2, <3>3
    <3>. QED BY <1>11, <3>4
  <2>. QED BY <1>t, <2>1, <2>2, <2>3, <2>4 DEF Met
<1>14. ASSUME NEW p \in found PROVE made[p] = Pair(p)
  BY <1>f, <1>m DEF Output
<1>15. ASSUME NEW t
       PROVE  Count(new, t) - Count(old, t) <= Cardinality({p \in found : Pair(p) = t})
  <2>. PICK T : T = Slots(stmt.into)
    OBVIOUS
  <2>1. new \in Seq(T) /\ old \in Seq(T)
    BY <1>5, <1>6, RelTyped
  <2>2. Count(new, t) - Count(old, t) <= Cardinality({p \in found : made[p] = t})
    BY ONLY <1>10, <1>12, <2>1, GrownAtMost
  <2>3. {p \in found : made[p] = t} = {p \in found : Pair(p) = t}
    BY <1>14
  <2>. QED BY <2>2, <2>3
<1>16. status = "OK" => Cardinality(Used(new)) = Cardinality(Used(old)) + Cardinality(found)
  BY <1>10, <1>13 DEF Grown
<1>. HIDE DEF Holding, PairOf, Pair
<1>17. \A t : {p \in Holding : PairOf(p) = t} = {p \in found : Pair(p) = t}
  BY <1>3, <1>4
<1>. QED BY <1>15, <1>16, <1>3, <1>17

(* A join has one record for each pair that satisfies the condition as it    *)
(* was written, with each attribute from its relation (join.C:104-162).      *)
THEOREM JoinExactAlways == Spec => []JoinExact
BY Invariance, JoinIsExact, PTL

\* Each value has the name of another attribute, so no two have one name.
LEMMA OneValueEach ==
    ASSUME NEW r \in Relations, NEW list \in InsertLists, Len(list) = Len(Schema[r]),
           \A i \in DOMAIN Schema[r] : \E j \in DOMAIN list :
               list[j].name = Schema[r][i].name /\ list[j].type = Schema[r][i].type
    PROVE  \A i \in DOMAIN Schema[r] : \A j, k \in DOMAIN list :
               list[j].name = Schema[r][i].name /\ list[k].name = Schema[r][i].name =>
                   j = k /\ list[j].type = Schema[r][i].type
<1>. DEFINE D == 1 .. Len(list)
            g == [i \in D |-> CHOOSE j \in D : /\ list[j].name = Schema[r][i].name
                                              /\ list[j].type = Schema[r][i].type]
<1>1. Len(list) \in Nat /\ DOMAIN list = D /\ DOMAIN Schema[r] = D
  BY LiteralsAssumption, SchemaAssumption
<1>2. ASSUME NEW i \in D
      PROVE  /\ g[i] \in D /\ list[g[i]].name = Schema[r][i].name
             /\ list[g[i]].type = Schema[r][i].type
  BY <1>1
<1>. HIDE DEF g
<1>3. ASSUME NEW i \in D, NEW k \in D, g[i] = g[k] PROVE i = k
  <2>1. list[g[i]].name = Schema[r][i].name /\ list[g[k]].name = Schema[r][k].name
    BY <1>2
  <2>2. Schema[r][i].name = Schema[r][k].name
    BY <1>3, <2>1
  <2>. QED BY <1>1, <2>2, SchemaAssumption
<1>4. g \in [D -> D]
  BY <1>2 DEF g
<1>5. g \in Injection(D, D)
  BY <1>3, <1>4 DEF Injection, IsInjective
<1>6. g \in Surjection(D, D)
  <2>1. IsFiniteSet(D)
    BY <1>1, FS_Interval
  <2>. QED BY <1>5, <2>1, FS_Injection
<1>7. ASSUME NEW i \in D, NEW j \in D, list[j].name = Schema[r][i].name PROVE j = g[i]
  <2>1. PICK k \in D : g[k] = j
    BY <1>6 DEF Surjection
  <2>2. list[g[k]].name = Schema[r][k].name
    BY <1>2
  <2>3. Schema[r][k].name = Schema[r][i].name
    BY <1>7, <2>1, <2>2
  <2>4. k = i
    BY <1>1, <2>3, SchemaAssumption
  <2>. QED BY <2>1, <2>4
<1>8. SUFFICES ASSUME NEW i \in DOMAIN Schema[r], NEW j \in DOMAIN list, NEW k \in DOMAIN list,
                      list[j].name = Schema[r][i].name, list[k].name = Schema[r][i].name
               PROVE  j = k /\ list[j].type = Schema[r][i].type
  OBVIOUS
<1>9. i \in D /\ j \in D /\ k \in D
  BY <1>1
<1>10. j = g[i] /\ k = g[i]
  BY <1>7, <1>8, <1>9
<1>. QED BY <1>2, <1>9, <1>10

LEMMA InsertIsByName == IInv => InsertByName
<1>. PICK r : r = stmt.rel
  OBVIOUS
<1>. PICK list : list = stmt.list
  OBVIOUS
<1>. PICK new : new = rel[r]
  OBVIOUS
<1>. PICK old : old = before[r]
  OBVIOUS
<1>. PICK t : t = NewRecord(r, list)
  OBVIOUS
<1>1. SUFFICES ASSUME IInv, stmt # NoStatement, stmt.kind = "INSERT",
                      \A i \in DOMAIN Schema[r] : \E j \in DOMAIN list :
                          list[j].name = Schema[r][i].name /\ list[j].type = Schema[r][i].type,
                      Len(list) = Len(Schema[r])
               PROVE  IF status # "OK" THEN new = old
                      ELSE \E k \in Used(new) \ Used(old) :
                          /\ Used(new) = Used(old) \cup {k}
                          /\ \A j \in Used(old) : new[j] = old[j]
                          /\ \A i, j \in DOMAIN list :
                                 list[j].name = Schema[r][i].name =>
                                     new[k][i] = BitsOf(Schema[r][i].type, list[j].num)
  BY DEF InsertByName
<1>2. TypeOK /\ Inserted /\ stmt \in Statement
  BY <1>1 DEF IInv, TypeOK
<1>3. r \in Relations /\ list \in InsertLists /\ r \in Names /\ r # Tmp
  BY <1>1, <1>2, StatementFields, NamesAssumption DEF Names
<1>4. IF status = "OK" THEN new \in Put(old, t) ELSE new = old
  BY <1>1, <1>2 DEF Inserted
<1>5. t \in Slot(DOMAIN Schema[r]) /\ t # Empty
  BY <1>1, <1>3, NewRecordTyped DEF Slot
<1>6. old \in Seq(Slot(DOMAIN Schema[r]))
  BY <1>2, <1>3, RelTyped DEF Slots
<1>. SUFFICES ASSUME status = "OK"
              PROVE  \E k \in Used(new) \ Used(old) :
                         /\ Used(new) = Used(old) \cup {k}
                         /\ \A j \in Used(old) : new[j] = old[j]
                         /\ \A i, j \in DOMAIN list :
                                list[j].name = Schema[r][i].name =>
                                    new[k][i] = BitsOf(Schema[r][i].type, list[j].num)
  BY <1>4
<1>7. PICK k : PutAt(new, old, k, t)
  BY <1>4, <1>5, <1>6, PutEffect
<1>8. DOMAIN list = DOMAIN Schema[r] /\ DOMAIN list \subseteq Nat
  BY <1>1, <1>3, LiteralsAssumption, SchemaAssumption
<1>9. \A i \in DOMAIN Schema[r] : \A j, n \in DOMAIN list :
           list[j].name = Schema[r][i].name /\ list[n].name = Schema[r][i].name =>
               j = n /\ list[j].type = Schema[r][i].type
  BY <1>1, <1>3, OneValueEach
<1>10. ASSUME NEW i \in DOMAIN list, NEW j \in DOMAIN list, list[j].name = Schema[r][i].name
      PROVE  t[i] = BitsOf(Schema[r][i].type, list[j].num)
  <2>. DEFINE named == {n \in DOMAIN list : list[n].name = Schema[r][i].name}
  <2>1. named \subseteq Nat /\ j \in named
    BY <1>8, <1>10
  <2>2. First(named) \in named
    BY <2>1, FirstIs
  <2>. PICK n : n = First(named)
    OBVIOUS
  <2>3. n \in DOMAIN list /\ list[n].name = Schema[r][i].name
    BY <2>2
  <2>4. i \in DOMAIN Schema[r] /\ r \in Relations /\ list \in InsertLists
    BY <1>3, <1>8
  <2>5. n = j /\ list[j].type = Schema[r][i].type
    BY <1>10, <1>9, <2>3, <2>4
  <2>6. First(named) = j /\ list[j].type = Schema[r][i].type
    BY <2>5
  <2>7. ValueIndex(list, i, Schema[r][i].name) = j
    BY <1>10, <2>6 DEF ValueIndex
  <2>. QED BY <1>8, <2>6, <2>7 DEF NewRecord
<1>. QED BY <1>7, <1>10 DEF PutAt

(* INSERT that names each attribute once, in any order, and gives it a value *)
(* of its type adds one record, with each value in its place, or fails and   *)
(* leaves the relation as it was (insert.C:68-127).                          *)
THEOREM InsertByNameAlways == Spec => []InsertByName
BY Invariance, InsertIsByName, PTL
=============================================================================
