--------------------------- MODULE CatalogProofs ---------------------------
(***************************************************************************)
(* Proofs about the catalogs, for any relations, attributes and sizes.     *)
(*                                                                         *)
(* The entries of a relation are a prefix of the list it was made from, in *)
(* its order, with the offsets that follow from it (EntriesSound), and     *)
(* attributes of users come from a CREATE that took them (UsersAttrs).     *)
(* A statement is calls in their order: each call has a lemma that says    *)
(* what it leaves whatever it returns, and the lemma of the statement      *)
(* follows the calls.                                                      *)
(***************************************************************************)
EXTENDS Catalog, SequenceTheorems, NaturalsInduction, WellFoundedInduction, TLAPS

\* For the CHOOSEs of the model: what may be chosen is there.
LEMMA Smallest ==
    ASSUME NEW T, T \subseteq Nat, T # {}
    PROVE  \E x \in T : \A y \in T : x <= y
<1>. DEFINE R == OpToRel(<, Nat)
<1>1. IsWellFoundedOn(R, Nat)
  BY NatLessThanWellFounded
<1>2. \A x, y \in Nat : (<<y, x>> \in R) <=> (y < x)
  BY DEF OpToRel
<1>. HIDE DEF R
<1>3. PICK x \in T : \A y \in T : ~(<<y, x>> \in R)
  BY <1>1, WFMin
<1>4. ASSUME NEW y \in T PROVE x <= y
  <2>1. x \in Nat /\ y \in Nat /\ ~(y < x)
    BY <1>2, <1>3
  <2>. QED BY <2>1
<1>. QED BY <1>4

-----------------------------------------------------------------------------
(* Offsets.                                                                *)

\* f has the offsets behind the first 0 to k attributes.
Offsets(list, k, f) ==
    f = [n \in 0 .. k |-> IF n = 0 THEN 0 ELSE f[n - 1] + list[n].attrLen]

Measured(list, k) == \A i \in 1 .. k : list[i].attrLen \in Nat

OffsetsOf(list, k) == CHOOSE f : Offsets(list, k, f)

\* The recursion has a solution: the shortest list without one would be one
\* attribute longer than a list that has it.
LEMMA OffsetsExist ==
    ASSUME NEW list, NEW k \in Nat
    PROVE  \E f : Offsets(list, k, f)
<1>. DEFINE T == {n \in Nat : ~ \E f : Offsets(list, n, f)}
<1>. SUFFICES ASSUME T # {} PROVE FALSE
  OBVIOUS
<1>1. PICK n \in T : \A m \in T : n <= m
  <2>1. T \subseteq Nat
    OBVIOUS
  <2>. HIDE DEF T
  <2>. QED BY <2>1, Smallest
<1>2. CASE n = 0
  <2>1. Offsets(list, 0, [m \in 0 .. 0 |-> 0])
    BY DEF Offsets
  <2>. QED BY <1>2, <2>1
<1>3. CASE n # 0
  <2>1. n - 1 \in Nat /\ ~(n <= n - 1)
    BY <1>3
  <2>2. PICK f : Offsets(list, n - 1, f)
    BY <1>1, <2>1
  <2>. DEFINE g == [m \in 0 .. n |-> IF m = 0 THEN 0 ELSE f[m - 1] + list[m].attrLen]
  <2>3. \A m \in 0 .. n - 1 : f[m] = IF m = 0 THEN 0 ELSE f[m - 1] + list[m].attrLen
    BY <2>2 DEF Offsets
  <2>4. \A m \in 0 .. n - 1 : g[m] = f[m]
    BY <2>1, <2>3
  <2>5. \A m \in 0 .. n : m # 0 => g[m - 1] = f[m - 1]
    BY <2>1, <2>4
  <2>6. g = [m \in 0 .. n |-> IF m = 0 THEN 0 ELSE g[m - 1] + list[m].attrLen]
    <3>1. \A m \in 0 .. n : g[m] = IF m = 0 THEN 0 ELSE g[m - 1] + list[m].attrLen
      BY <2>5
    <3>2. g = [m \in 0 .. n |-> g[m]]
      OBVIOUS
    <3>. HIDE DEF g
    <3>. QED BY <3>1, <3>2
  <2>7. Offsets(list, n, g)
    <3>. HIDE DEF g
    <3>. QED BY <2>6 DEF Offsets
  <2>. QED BY <2>7
<1>. QED BY <1>2, <1>3

SameLengths(l1, l2, k) == \A i \in 1 .. k : l1[i].attrLen = l2[i].attrLen

LEMMA OffsetsAre ==
    ASSUME NEW list, NEW k \in Nat
    PROVE  /\ OffsetAfter(list, k) = OffsetsOf(list, k)[k]
           /\ Offsets(list, k, OffsetsOf(list, k))
<1>1. OffsetAfter(list, k) = OffsetsOf(list, k)[k]
  BY DEF OffsetAfter, OffsetsOf, Offsets
<1>. QED BY <1>1, OffsetsExist DEF OffsetsOf

\* Two solutions agree as far as the lists do.
LEMMA OffsetsAgree ==
    ASSUME NEW l1, NEW l2, NEW k1 \in Nat, NEW k2 \in Nat, NEW k \in Nat, k <= k1, k <= k2,
           SameLengths(l1, l2, k), NEW f, Offsets(l1, k1, f), NEW g, Offsets(l2, k2, g)
    PROVE  f[k] = g[k]
<1>. DEFINE T == {n \in 0 .. k : f[n] # g[n]}
<1>. SUFFICES ASSUME T # {} PROVE FALSE
  OBVIOUS
<1>1. PICK n \in T : \A m \in T : n <= m
  <2>1. T \subseteq Nat
    OBVIOUS
  <2>. HIDE DEF T
  <2>. QED BY <2>1, Smallest
<1>2. /\ \A m \in 0 .. k1 : f[m] = IF m = 0 THEN 0 ELSE f[m - 1] + l1[m].attrLen
      /\ \A m \in 0 .. k2 : g[m] = IF m = 0 THEN 0 ELSE g[m - 1] + l2[m].attrLen
      /\ n \in 0 .. k1 /\ n \in 0 .. k2
  BY DEF Offsets
<1>3. n # 0 => n - 1 \in 0 .. k /\ ~(n <= n - 1) /\ n \in 1 .. k
  OBVIOUS
<1>4. n # 0 => f[n - 1] = g[n - 1]
  BY <1>1, <1>3
<1>5. CASE n = 0
  BY <1>1, <1>2, <1>5
<1>6. CASE n # 0
  <2>1. l1[n].attrLen = l2[n].attrLen
    BY <1>3, <1>6 DEF SameLengths
  <2>2. f[n] = f[n - 1] + l1[n].attrLen /\ g[n] = g[n - 1] + l2[n].attrLen
    BY <1>2, <1>6
  <2>. QED BY <1>1, <1>4, <1>6, <2>1, <2>2
<1>. QED BY <1>5, <1>6

\* An offset depends on the lengths of the attributes before it only.
LEMMA OffsetSame ==
    ASSUME NEW l1, NEW l2, NEW k \in Nat, SameLengths(l1, l2, k)
    PROVE  OffsetAfter(l1, k) = OffsetAfter(l2, k)
<1>1. /\ k <= k /\ Offsets(l1, k, OffsetsOf(l1, k)) /\ Offsets(l2, k, OffsetsOf(l2, k))
      /\ OffsetAfter(l1, k) = OffsetsOf(l1, k)[k] /\ OffsetAfter(l2, k) = OffsetsOf(l2, k)[k]
  BY OffsetsAre
<1>. QED BY <1>1, OffsetsAgree

\* Each attribute lies behind the one before it.
LEMMA OffsetStep ==
    ASSUME NEW list, NEW k \in Nat
    PROVE  /\ OffsetAfter(list, 0) = 0
           /\ OffsetAfter(list, k + 1) = OffsetAfter(list, k) + list[k + 1].attrLen
<1>1. OffsetAfter(list, 0) = 0
  BY OffsetsAre DEF Offsets
<1>. DEFINE f == OffsetsOf(list, k)
<1>. DEFINE g == OffsetsOf(list, k + 1)
<1>2. k + 1 \in Nat /\ k <= k /\ k <= k + 1 /\ Offsets(list, k, f) /\ Offsets(list, k + 1, g)
  BY OffsetsAre
<1>3. OffsetAfter(list, k) = f[k] /\ OffsetAfter(list, k + 1) = g[k + 1]
  BY <1>2, OffsetsAre
<1>. HIDE DEF f, g
<1>4. f[k] = g[k]
  <2>1. SameLengths(list, list, k)
    BY DEF SameLengths
  <2>. QED BY <1>2, <2>1, OffsetsAgree
<1>5. g[k + 1] = g[k] + list[k + 1].attrLen
  <2>1. k + 1 \in 0 .. k + 1 /\ k + 1 # 0 /\ (k + 1) - 1 = k
    OBVIOUS
  <2>. QED BY <1>2, <2>1 DEF Offsets
<1>. QED BY <1>1, <1>3, <1>4, <1>5

\* Offsets are numbers, and they do not fall.
LEMMA OffsetsGrow ==
    ASSUME NEW list, NEW k \in Nat, Measured(list, k)
    PROVE  \A i \in 0 .. k : OffsetAfter(list, i) \in Nat /\ OffsetAfter(list, i) <= OffsetAfter(list, k)
<1>1. \A i \in 0 .. k : OffsetAfter(list, i) \in Nat
  <2>. DEFINE T == {n \in 0 .. k : OffsetAfter(list, n) \notin Nat}
  <2>. SUFFICES ASSUME T # {} PROVE FALSE
    OBVIOUS
  <2>1. PICK n \in T : \A m \in T : n <= m
    <3>1. T \subseteq Nat
      OBVIOUS
    <3>. HIDE DEF T
    <3>. QED BY <3>1, Smallest
  <2>2. CASE n = 0
    BY <2>1, <2>2, OffsetStep
  <2>3. CASE n # 0
    <3>1. n - 1 \in 0 .. k /\ ~(n <= n - 1) /\ n \in 1 .. k /\ (n - 1) + 1 = n
      BY <2>3
    <3>2. OffsetAfter(list, n - 1) \in Nat
      BY <2>1, <3>1
    <3>3. OffsetAfter(list, (n - 1) + 1) = OffsetAfter(list, n - 1) + list[(n - 1) + 1].attrLen
      BY <3>1, OffsetStep
    <3>4. list[n].attrLen \in Nat
      BY <3>1 DEF Measured
    <3>. QED BY <3>1, <3>2, <3>3, <3>4
  <2>. QED BY <2>2, <2>3
<1>2. \A i \in 0 .. k : OffsetAfter(list, i) <= OffsetAfter(list, k)
  <2>. DEFINE T == {n \in 0 .. k : ~(OffsetAfter(list, k - n) <= OffsetAfter(list, k))}
  <2>1. T = {}
    <3>. SUFFICES ASSUME T # {} PROVE FALSE
      OBVIOUS
    <3>1. PICK n \in T : \A m \in T : n <= m
      <4>1. T \subseteq Nat
        OBVIOUS
      <4>. HIDE DEF T
      <4>. QED BY <4>1, Smallest
    <3>2. CASE n = 0
      BY <1>1, <3>2
    <3>3. CASE n # 0
      <4>1. n - 1 \in 0 .. k /\ ~(n <= n - 1) /\ k - n \in Nat /\ k - n + 1 \in 1 .. k
            /\ k - (n - 1) = k - n + 1 /\ k - n \in 0 .. k /\ k - n + 1 \in 0 .. k
        BY <3>3
      <4>2. OffsetAfter(list, k - (n - 1)) <= OffsetAfter(list, k)
        BY <3>1, <4>1
      <4>3. OffsetAfter(list, k - n + 1) = OffsetAfter(list, k - n) + list[k - n + 1].attrLen
        BY <4>1, OffsetStep
      <4>4. list[k - n + 1].attrLen \in Nat
        BY <4>1 DEF Measured
      <4>5. OffsetAfter(list, k - n) \in Nat /\ OffsetAfter(list, k) \in Nat
        BY <1>1, <4>1
      <4>6. ~(OffsetAfter(list, k - n) <= OffsetAfter(list, k))
        BY <3>1
      <4>. QED BY <4>1, <4>2, <4>3, <4>4, <4>5, <4>6
    <3>. QED BY <3>2, <3>3
  <2>2. ASSUME NEW i \in 0 .. k PROVE OffsetAfter(list, i) <= OffsetAfter(list, k)
    <3>1. k - i \in 0 .. k /\ k - (k - i) = i
      OBVIOUS
    <3>2. OffsetAfter(list, k - (k - i)) <= OffsetAfter(list, k)
      BY <2>1, <3>1
    <3>. QED BY <3>1, <3>2
  <2>. QED BY <2>2
<1>. QED BY <1>1, <1>2
-----------------------------------------------------------------------------
(* What the catalogs say of a relation.                                    *)

CatalogColumns == {"relName", "attrCnt", "attrName", "attrOffset", "attrType", "attrLen"}

ColumnNames == AttrNames \cup CatalogColumns

Column   == [attrName: ColumnNames, attrLen: Nat]
Entry    == [attrName: ColumnNames, attrLen: Nat, attrOffset: Nat]
RelEntry == [attrCnt: Nat \ {0}]
Layouts  == {Layout(list) : list \in AttrLists}

DbType == [relcat: [Names -> Seq(RelEntry)], attrcat: [Names -> Seq(Entry)],
           files: SUBSET Names, open: [Names -> Nat], rows: [Names -> SUBSET Layouts]]

Distinct(list) == \A i, j \in DOMAIN list : list[i].attrName = list[j].attrName => i = j

\* A relation has one entry, and attributes only with it, each behind the other.
EntriesSound(rel, attrs) ==
    /\ Len(rel) <= 1
    /\ attrs # <<>> => rel # <<>>
    /\ Distinct(attrs)
    /\ \A k \in DOMAIN attrs : attrs[k].attrOffset = OffsetAfter(attrs, k - 1)

\* A CREATE, of a user or for a query, took these attributes.
UsersAttrs(attrs) ==
    /\ Len(attrs) <= MaxAttrs
    /\ Width(attrs) <= PageSize
    /\ \A k \in DOMAIN attrs : /\ Attr(attrs[k].attrName, attrs[k].attrLen) \in Attribute
                              /\ attrs[k].attrName \notin LongNames

RelationSound(d, r) ==
    /\ EntriesSound(d.relcat[r], d.attrcat[r])
    /\ r \in Relations => UsersAttrs(d.attrcat[r])
    /\ r \notin d.files => d.rows[r] = {}

CatInv(d) == d \in DbType /\ \A r \in Names : RelationSound(d, r)

Elsewhere(d, e, r) ==
    \A q \in Names \ {r} :
        /\ e.relcat[q] = d.relcat[q] /\ e.attrcat[q] = d.attrcat[q]
        /\ q \in e.files <=> q \in d.files
        /\ e.open[q] = d.open[q] /\ e.rows[q] = d.rows[q]

LEMMA OneRelation ==
    ASSUME NEW d, NEW e, NEW r, CatInv(d), e \in DbType, Elsewhere(d, e, r), RelationSound(e, r)
    PROVE  CatInv(e)
<1>. SUFFICES ASSUME NEW q \in Names PROVE RelationSound(e, q)
  BY DEF CatInv
<1>1. CASE q = r
  BY <1>1
<1>2. CASE q # r
  BY <1>2 DEF CatInv, Elsewhere, RelationSound
<1>. QED BY <1>1, <1>2

LEMMA ListsTyped ==
    ASSUME NEW list \in AttrLists
    PROVE  /\ list \in Seq(Column) /\ Len(list) \in 1 .. MaxAttrs /\ DOMAIN list = 1 .. Len(list)
           /\ \A k \in DOMAIN list : list[k] \in Attribute
                                     /\ Attr(list[k].attrName, list[k].attrLen) \in Attribute
<1>1. PICK n \in 1 .. MaxAttrs : list \in [1 .. n -> Attribute]
  BY DEF AttrLists
<1>2. n \in Nat
  BY SizesAssumption
<1>3. ASSUME NEW a \in Attribute PROVE a \in Column
  <2>1. a = Attr(a.attrName, a.attrLen) /\ a.attrLen \in Nat /\ a.attrName \in ColumnNames
    BY SizesAssumption DEF AttrNames, ColumnNames
  <2>. QED BY <2>1 DEF Attr, Column
<1>4. list \in Seq(Column) /\ Len(list) = n /\ DOMAIN list = 1 .. n
  BY <1>1, <1>2, <1>3
<1>5. \A k \in 1 .. n : list[k] \in Attribute /\ Attr(list[k].attrName, list[k].attrLen) \in Attribute
  BY <1>1, SizesAssumption
<1>. QED BY <1>4, <1>5

\* The entries createRel makes for the first n attributes of a list.
Entries(list, n) ==
    [k \in 1 .. n |-> [attrName |-> list[k].attrName, attrLen |-> list[k].attrLen,
                       attrOffset |-> OffsetAfter(list, k - 1)]]

LEMMA SeqMeasured ==
    ASSUME NEW list \in Seq(Column), NEW n \in 0 .. Len(list)
    PROVE  Measured(list, n)
<1>1. \A k \in 1 .. n : list[k] \in Column
  <2>1. \A k \in 1 .. n : k \in 1 .. Len(list)
    OBVIOUS
  <2>. QED BY <2>1
<1>. QED BY <1>1 DEF Measured, Column

LEMMA EntriesOfList ==
    ASSUME NEW list \in Seq(Column), NEW n \in 0 .. Len(list)
    PROVE  /\ Entries(list, n) \in Seq(Entry) /\ Len(Entries(list, n)) = n
           /\ DOMAIN Entries(list, n) = 1 .. n
           /\ \A k \in 1 .. n : /\ Entries(list, n)[k].attrName = list[k].attrName
                               /\ Entries(list, n)[k].attrLen = list[k].attrLen
                               /\ Entries(list, n)[k].attrOffset = OffsetAfter(list, k - 1)
           /\ \A k \in 0 .. n : OffsetAfter(Entries(list, n), k) = OffsetAfter(list, k)
<1>. DEFINE e == Entries(list, n)
<1>1. n \in Nat /\ n <= Len(list) /\ DOMAIN list = 1 .. Len(list) /\ Len(list) \in Nat
  OBVIOUS
<1>2. ASSUME NEW k \in 1 .. n
      PROVE  [attrName |-> list[k].attrName, attrLen |-> list[k].attrLen,
              attrOffset |-> OffsetAfter(list, k - 1)] \in Entry
  <2>1. k \in 1 .. Len(list) /\ k - 1 \in 0 .. n
    BY <1>1
  <2>2. list[k] \in Column
    BY <2>1
  <2>3. OffsetAfter(list, k - 1) \in Nat
    BY <1>1, <2>1, SeqMeasured, OffsetsGrow
  <2>. QED BY <2>2, <2>3 DEF Column, Entry
<1>3. e \in [1 .. n -> Entry]
  BY <1>2 DEF Entries
<1>4. e \in Seq(Entry) /\ Len(e) = n /\ DOMAIN e = 1 .. n
  BY <1>1, <1>3
<1>5. \A k \in 1 .. n : /\ e[k].attrName = list[k].attrName
                        /\ e[k].attrLen = list[k].attrLen
                        /\ e[k].attrOffset = OffsetAfter(list, k - 1)
  BY DEF Entries
<1>6. ASSUME NEW k \in 0 .. n PROVE OffsetAfter(e, k) = OffsetAfter(list, k)
  <2>1. SameLengths(e, list, k) /\ k \in Nat
    <3>1. \A i \in 1 .. k : i \in 1 .. n
      BY <1>1
    <3>. QED BY <1>5, <3>1 DEF SameLengths
  <2>. HIDE DEF e
  <2>. QED BY <2>1, OffsetSame
<1>. QED BY <1>4, <1>5, <1>6

-----------------------------------------------------------------------------
(* createRel.                                                              *)

\* The entries of relation r for the first n attributes of a list.
Registered(d, r, list, n) == WithAttrs(WithRel(d, r, list), r, list, n)

LEMMA RegisteredFields ==
    ASSUME NEW d \in DbType, NEW r \in Names, NEW list \in Seq(Column), list # <<>>,
           NEW n \in 0 .. Len(list), d.relcat[r] = <<>>, d.attrcat[r] = <<>>,
           NEW e, e = Registered(d, r, list, n)
    PROVE  /\ e \in DbType /\ Elsewhere(d, e, r)
           /\ e.relcat[r] = <<[attrCnt |-> Len(list)]>>
           /\ e.attrcat[r] = Entries(list, n)
           /\ e.files = d.files /\ e.open = d.open /\ e.rows = d.rows
<1>. DEFINE rel == [attrCnt |-> Len(list)]
<1>1. Len(list) \in Nat \ {0}
  OBVIOUS
<1>2. rel \in RelEntry /\ <<rel>> \in Seq(RelEntry) /\ Append(<<>>, rel) = <<rel>>
  BY <1>1 DEF RelEntry
<1>3. Entries(list, n) \in Seq(Entry) /\ <<>> \o Entries(list, n) = Entries(list, n)
  BY EntriesOfList
<1>4. WithRel(d, r, list) = [d EXCEPT !.relcat[r] = Append(@, rel)]
  BY DEF WithRel
<1>5. e = [WithRel(d, r, list) EXCEPT !.attrcat[r] = @ \o Entries(list, n)]
  BY DEF Registered, WithAttrs, Entries
<1>. HIDE DEF rel
<1>6. /\ d.relcat \in [Names -> Seq(RelEntry)] /\ d.attrcat \in [Names -> Seq(Entry)]
      /\ d.files \in SUBSET Names /\ d.open \in [Names -> Nat] /\ d.rows \in [Names -> SUBSET Layouts]
  BY DEF DbType
<1>7. PICK c : c = WithRel(d, r, list)
  OBVIOUS
<1>8. /\ c \in DbType /\ c.relcat = [d.relcat EXCEPT ![r] = <<rel>>] /\ c.attrcat = d.attrcat
      /\ c.files = d.files /\ c.open = d.open /\ c.rows = d.rows
  <2>1. c.relcat = [d.relcat EXCEPT ![r] = <<rel>>]
    BY <1>2, <1>4, <1>6, <1>7 DEF DbType
  <2>2. c.attrcat = d.attrcat /\ c.files = d.files /\ c.open = d.open /\ c.rows = d.rows
    BY <1>4, <1>7 DEF DbType
  <2>3. [d.relcat EXCEPT ![r] = <<rel>>] \in [Names -> Seq(RelEntry)]
    BY <1>2, <1>6
  <2>4. c = [d EXCEPT !.relcat = [d.relcat EXCEPT ![r] = <<rel>>]]
    BY <1>2, <1>4, <1>6, <1>7 DEF DbType
  <2>5. c \in DbType
    BY <2>3, <2>4 DEF DbType
  <2>. QED BY <2>1, <2>2, <2>5
<1>9. /\ e \in DbType /\ e.attrcat = [c.attrcat EXCEPT ![r] = Entries(list, n)]
      /\ e.relcat = c.relcat /\ e.files = c.files /\ e.open = c.open /\ e.rows = c.rows
  <2>1. e = [c EXCEPT !.attrcat[r] = @ \o Entries(list, n)] /\ c.attrcat[r] = <<>>
    BY <1>5, <1>7, <1>8
  <2>2. e.attrcat = [c.attrcat EXCEPT ![r] = Entries(list, n)]
    BY <1>3, <1>8, <2>1 DEF DbType
  <2>3. e.relcat = c.relcat /\ e.files = c.files /\ e.open = c.open /\ e.rows = c.rows
    BY <1>8, <2>1 DEF DbType
  <2>4. [c.attrcat EXCEPT ![r] = Entries(list, n)] \in [Names -> Seq(Entry)]
    BY <1>3, <1>6, <1>8
  <2>5. e = [c EXCEPT !.attrcat = [c.attrcat EXCEPT ![r] = Entries(list, n)]]
    BY <1>3, <1>8, <2>1 DEF DbType
  <2>6. e \in DbType
    BY <1>8, <2>4, <2>5 DEF DbType
  <2>. QED BY <2>2, <2>3, <2>6
<1>. QED BY <1>6, <1>8, <1>9 DEF Elsewhere, rel

\* The entries are sound whether or not all attributes were entered.
LEMMA RegisteredSound ==
    ASSUME NEW d, CatInv(d), NEW r \in Names, NEW list \in Seq(Column), list # <<>>,
           NEW n \in 0 .. Len(list), d.relcat[r] = <<>>, Distinct(list),
           r \in Relations => /\ list \in AttrLists /\ Width(list) <= PageSize
                              /\ \A k \in 1 .. n : list[k].attrName \notin LongNames,
           NEW e, e = Registered(d, r, list, n)
    PROVE  /\ CatInv(e) /\ Elsewhere(d, e, r)
           /\ e.relcat[r] = <<[attrCnt |-> Len(list)]>>
           /\ e.attrcat[r] = Entries(list, n)
           /\ e.files = d.files /\ e.open = d.open /\ e.rows = d.rows
<1>1. d \in DbType /\ RelationSound(d, r) /\ d.attrcat[r] = <<>>
  BY DEF CatInv, RelationSound, EntriesSound
<1>2. /\ e \in DbType /\ Elsewhere(d, e, r)
      /\ e.relcat[r] = <<[attrCnt |-> Len(list)]>>
      /\ e.attrcat[r] = Entries(list, n)
      /\ e.files = d.files /\ e.open = d.open /\ e.rows = d.rows
  BY <1>1, RegisteredFields
<1>. DEFINE a == Entries(list, n)
<1>3. /\ Len(a) = n /\ DOMAIN a = 1 .. n /\ n \in Nat /\ DOMAIN list = 1 .. Len(list)
      /\ \A k \in 1 .. n : k \in DOMAIN list
      /\ \A k \in 1 .. n : /\ a[k].attrName = list[k].attrName
                          /\ a[k].attrLen = list[k].attrLen
                          /\ a[k].attrOffset = OffsetAfter(list, k - 1)
      /\ \A k \in 0 .. n : OffsetAfter(a, k) = OffsetAfter(list, k)
  BY EntriesOfList
<1>. HIDE DEF a
<1>4. EntriesSound(e.relcat[r], a)
  <2>1. Len(<<[attrCnt |-> Len(list)]>>) = 1 /\ <<[attrCnt |-> Len(list)]>> # <<>>
    OBVIOUS
  <2>2. \A k \in 1 .. n : k - 1 \in 0 .. n
    BY <1>3
  <2>3. \A k \in DOMAIN a : a[k].attrOffset = OffsetAfter(a, k - 1)
    BY <1>3, <2>2
  <2>4. Distinct(a)
    BY <1>3 DEF Distinct
  <2>. QED BY <1>2, <2>1, <2>3, <2>4 DEF EntriesSound
<1>5. ASSUME r \in Relations PROVE UsersAttrs(a)
  <2>1. Len(list) <= MaxAttrs /\ \A k \in DOMAIN list : Attr(list[k].attrName, list[k].attrLen) \in Attribute
    BY <1>5, ListsTyped, SizesAssumption
  <2>2. Len(a) <= MaxAttrs
    BY <1>3, <2>1, SizesAssumption
  <2>3. Width(a) <= PageSize
    <3>1. Width(a) = OffsetAfter(list, n) /\ Width(list) = OffsetAfter(list, Len(list))
      BY <1>3 DEF Width
    <3>2. Len(list) \in 0 .. Len(list) /\ Measured(list, Len(list)) /\ Len(list) \in Nat
      BY SeqMeasured
    <3>3. /\ OffsetAfter(list, n) <= OffsetAfter(list, Len(list))
          /\ OffsetAfter(list, n) \in Nat /\ OffsetAfter(list, Len(list)) \in Nat
      BY <3>2, OffsetsGrow
    <3>. QED BY <1>5, <3>1, <3>3, SizesAssumption
  <2>. QED BY <1>3, <1>5, <2>1, <2>2, <2>3 DEF UsersAttrs
<1>6. RelationSound(e, r)
  BY <1>1, <1>2, <1>4, <1>5 DEF RelationSound, a
<1>. QED BY <1>2, <1>6, OneRelation

\* What a CREATE that says OK has made of r.
Created(d, e, r, list) ==
    /\ e.relcat[r] = <<[attrCnt |-> Len(e.attrcat[r])]>>
    /\ e.attrcat[r] # <<>> /\ Layout(e.attrcat[r]) = Layout(list)
    /\ r \in e.files /\ e.rows[r] = {} /\ e.open[r] = d.open[r]

ShortNames(list) == \A k \in DOMAIN list : list[k].attrName \notin LongNames

LEMMA HeapFileEffect ==
    ASSUME NEW d, CatInv(d), NEW r \in Names, NEW o, o = createHeapFile(d, r)
    PROVE  /\ CatInv(o.db) /\ Elsewhere(d, o.db, r)
           /\ o.db.relcat = d.relcat /\ o.db.attrcat = d.attrcat /\ o.db.rows = d.rows
           /\ r \in d.files <=> o.status # "OK"
           /\ r \notin d.files => r \in o.db.files /\ o.db.open = d.open
<1>1. d \in DbType /\ RelationSound(d, r)
  BY DEF CatInv
<1>2. CASE r \in d.files
  <2>1. PICK e : e = [d EXCEPT !.open[r] = @ + 1]
    OBVIOUS
  <2>2. o.db = e /\ o.status = "FILEEXISTS"
    BY <1>2, <2>1 DEF createHeapFile, Outcome
  <2>3. e.open = [d.open EXCEPT ![r] = @ + 1] /\ e = [d EXCEPT !.open = [d.open EXCEPT ![r] = @ + 1]]
    BY <1>1, <2>1 DEF DbType
  <2>4. /\ e \in DbType /\ e.relcat = d.relcat /\ e.attrcat = d.attrcat
        /\ e.files = d.files /\ e.rows = d.rows
    <3>1. [d.open EXCEPT ![r] = @ + 1] \in [Names -> Nat]
      BY <1>1 DEF DbType
    <3>. QED BY <1>1, <2>3, <3>1 DEF DbType
  <2>5. Elsewhere(d, e, r)
    <3>1. d.open \in [Names -> Nat]
      BY <1>1 DEF DbType
    <3>. QED BY <2>3, <2>4, <3>1 DEF Elsewhere
  <2>6. RelationSound(e, r)
    BY <1>1, <2>4 DEF RelationSound
  <2>7. CatInv(e)
    BY <2>4, <2>5, <2>6, OneRelation
  <2>. QED BY <1>2, <2>2, <2>4, <2>5, <2>7
<1>3. CASE r \notin d.files
  <2>1. PICK e : e = [d EXCEPT !.files = @ \cup {r}]
    OBVIOUS
  <2>2. o.db = e /\ o.status = "OK"
    BY <1>3, <2>1 DEF createHeapFile, Outcome
  <2>3. /\ e \in DbType /\ e.relcat = d.relcat /\ e.attrcat = d.attrcat
        /\ e.files = d.files \cup {r} /\ e.rows = d.rows /\ e.open = d.open
    BY <1>1, <2>1 DEF DbType
  <2>4. Elsewhere(d, e, r)
    BY <2>3 DEF Elsewhere
  <2>5. RelationSound(e, r)
    BY <1>1, <2>3 DEF RelationSound
  <2>6. CatInv(e)
    BY <2>3, <2>4, <2>5, OneRelation
  <2>. QED BY <1>3, <2>2, <2>3, <2>4, <2>6
<1>. QED BY <1>2, <1>3

\* The three ways a CREATE ends: refused with nothing done, at a name that is
\* too long with the entries before it made, or at the heap file.
LEMMA CreateWays ==
    ASSUME NEW d, NEW r, NEW list \in AttrLists, NEW o, o = createRel(d, r, list)
    PROVE  \/ \E s : o = Outcome(d, s) /\ s # "OK"
           \/ /\ ~Listed(d, r) /\ Distinct(list) /\ Width(list) <= PageSize
              /\ \/ \E k \in 1 .. Len(list) :
                        /\ list[k].attrName \in LongNames
                        /\ \A j \in 1 .. k - 1 : list[j].attrName \notin LongNames
                        /\ o = Outcome(Registered(d, r, list, k - 1), "NAMETOOLONG")
                 \/ ShortNames(list) /\ o = createHeapFile(Registered(d, r, list, Len(list)), r)
<1>. DEFINE over == {k \in DOMAIN list : list[k].attrName \in LongNames}
<1>. DEFINE first == CHOOSE k \in over : \A j \in over : k <= j
<1>1. DOMAIN list = 1 .. Len(list) /\ Len(list) \in Nat
  BY ListsTyped, SizesAssumption
<1>2. ASSUME ~ \E s : o = Outcome(d, s) /\ s # "OK"
      PROVE  /\ ~Listed(d, r) /\ Distinct(list) /\ ~TooWide(list)
             /\ o = IF over # {} THEN Outcome(Registered(d, r, list, first - 1), "NAMETOOLONG")
                    ELSE createHeapFile(Registered(d, r, list, Len(list)), r)
  BY <1>2 DEF createRel, RelExists, Distinct, Registered
<1>3. Width(list) \in Nat
  <2>1. list \in Seq(Column) /\ Len(list) \in 0 .. Len(list)
    BY <1>1, ListsTyped
  <2>2. Measured(list, Len(list))
    BY <2>1, SeqMeasured
  <2>. QED BY <1>1, <2>2, OffsetsGrow DEF Width
<1>4. ~TooWide(list) => Width(list) <= PageSize
  BY <1>3, SizesAssumption DEF TooWide
<1>5. CASE over # {}
  <2>1. over \subseteq Nat
    BY <1>1
  <2>2. PICK k \in over : \A j \in over : k <= j
    <3>. HIDE DEF over
    <3>. QED BY <1>5, <2>1, Smallest
  <2>3. first \in over /\ \A j \in over : first <= j
    BY <2>2
  <2>. HIDE DEF first
  <2>4. first \in 1 .. Len(list) /\ list[first].attrName \in LongNames
    BY <1>1, <2>3
  <2>5. \A j \in 1 .. first - 1 : list[j].attrName \notin LongNames
    <3>1. \A j \in 1 .. first - 1 : j \in DOMAIN list /\ ~(first <= j)
      BY <1>1, <2>4
    <3>. QED BY <2>3, <3>1
  <2>. QED BY <1>2, <1>4, <1>5, <2>4, <2>5
<1>6. CASE over = {}
  <2>1. ShortNames(list)
    BY <1>6 DEF ShortNames
  <2>. QED BY <1>2, <1>4, <1>6, <2>1
<1>. QED BY <1>5, <1>6

LEMMA CreateEffect ==
    ASSUME NEW d, CatInv(d), NEW r \in Names, NEW list \in AttrLists,
           NEW o, o = createRel(d, r, list)
    PROVE  /\ CatInv(o.db) /\ Elsewhere(d, o.db, r)
           /\ d.relcat[r] # <<>> => o.db = d /\ o.status # "OK"
           /\ o.status = "OK" => Created(d, o.db, r, list)
           /\ r \notin d.files /\ ShortNames(list) /\ o.status # "OK" => o.db = d
<1>1. RelationSound(d, r) /\ d \in DbType /\ list \in Seq(Column) /\ list # <<>>
      /\ Len(list) \in Nat /\ DOMAIN list = 1 .. Len(list)
  <2>1. list # <<>>
    BY ListsTyped
  <2>. QED BY <2>1, ListsTyped, SizesAssumption DEF CatInv
<1>2. Elsewhere(d, d, r)
  BY DEF Elsewhere
<1>3. CASE \E s : o = Outcome(d, s) /\ s # "OK"
  BY <1>2, <1>3 DEF Outcome
<1>4. ASSUME ~Listed(d, r), Distinct(list), Width(list) <= PageSize,
             NEW k \in 1 .. Len(list), list[k].attrName \in LongNames,
             \A j \in 1 .. k - 1 : list[j].attrName \notin LongNames,
             o = Outcome(Registered(d, r, list, k - 1), "NAMETOOLONG")
      PROVE  /\ CatInv(o.db) /\ Elsewhere(d, o.db, r)
             /\ d.relcat[r] = <<>> /\ o.status # "OK" /\ ~ShortNames(list)
  <2>1. k - 1 \in 0 .. Len(list) /\ d.relcat[r] = <<>>
    BY <1>1, <1>4 DEF Listed
  <2>2. PICK e : e = Registered(d, r, list, k - 1)
    OBVIOUS
  <2>3. CatInv(e) /\ Elsewhere(d, e, r)
    BY <1>1, <1>4, <2>1, <2>2, RegisteredSound
  <2>4. ~ShortNames(list)
    BY <1>1, <1>4 DEF ShortNames
  <2>. QED BY <1>4, <2>1, <2>2, <2>3, <2>4 DEF Outcome
<1>5. ASSUME ~Listed(d, r), Distinct(list), Width(list) <= PageSize, ShortNames(list),
             o = createHeapFile(Registered(d, r, list, Len(list)), r)
      PROVE  /\ CatInv(o.db) /\ Elsewhere(d, o.db, r)
             /\ d.relcat[r] = <<>>
             /\ o.status = "OK" => Created(d, o.db, r, list)
             /\ o.status # "OK" => r \in d.files
  <2>1. Len(list) \in 0 .. Len(list) /\ d.relcat[r] = <<>>
    BY <1>1, <1>5 DEF Listed
  <2>2. PICK e : e = Registered(d, r, list, Len(list))
    OBVIOUS
  <2>3. \A k \in 1 .. Len(list) : list[k].attrName \notin LongNames
    BY <1>1, <1>5 DEF ShortNames
  <2>4. /\ CatInv(e) /\ Elsewhere(d, e, r)
        /\ e.relcat[r] = <<[attrCnt |-> Len(list)]>>
        /\ e.attrcat[r] = Entries(list, Len(list))
        /\ e.files = d.files /\ e.open = d.open /\ e.rows = d.rows
    BY <1>1, <1>5, <2>1, <2>2, <2>3, RegisteredSound
  <2>5. o = createHeapFile(e, r)
    BY <1>5, <2>2
  <2>6. /\ CatInv(o.db) /\ Elsewhere(e, o.db, r)
        /\ o.db.relcat = e.relcat /\ o.db.attrcat = e.attrcat /\ o.db.rows = e.rows
        /\ r \in e.files <=> o.status # "OK"
        /\ r \notin e.files => r \in o.db.files /\ o.db.open = e.open
    BY <2>4, <2>5, HeapFileEffect
  <2>7. Elsewhere(d, o.db, r)
    BY <2>4, <2>6 DEF Elsewhere
  <2>8. ASSUME o.status = "OK" PROVE Created(d, o.db, r, list)
    <3>. DEFINE a == Entries(list, Len(list))
    <3>1. /\ Len(a) = Len(list) /\ DOMAIN a = 1 .. Len(list)
          /\ \A k \in 1 .. Len(list) : a[k].attrLen = list[k].attrLen
      BY <1>1, <2>1, EntriesOfList
    <3>. HIDE DEF a
    <3>2. Layout(a) = Layout(list) /\ a # <<>>
      <4>1. a # <<>>
        BY <1>1, <3>1
      <4>2. Layout(a) = Layout(list)
        BY <1>1, <3>1 DEF Layout
      <4>. QED BY <4>1, <4>2
    <3>3. d.rows[r] = {}
      BY <1>1, <2>4, <2>6, <2>8 DEF RelationSound
    <3>4. o.db.relcat[r] = <<[attrCnt |-> Len(a)]>> /\ o.db.attrcat[r] = a
      BY <2>4, <2>6, <3>1 DEF a
    <3>5. r \in o.db.files /\ o.db.rows[r] = {} /\ o.db.open[r] = d.open[r]
      BY <2>4, <2>6, <2>8, <3>3
    <3>. QED BY <3>2, <3>4, <3>5 DEF Created
  <2>. QED BY <2>1, <2>4, <2>6, <2>7, <2>8
<1>6. \/ \E s : o = Outcome(d, s) /\ s # "OK"
      \/ /\ ~Listed(d, r) /\ Distinct(list) /\ Width(list) <= PageSize
         /\ \/ \E k \in 1 .. Len(list) :
                   /\ list[k].attrName \in LongNames
                   /\ \A j \in 1 .. k - 1 : list[j].attrName \notin LongNames
                   /\ o = Outcome(Registered(d, r, list, k - 1), "NAMETOOLONG")
            \/ ShortNames(list) /\ o = createHeapFile(Registered(d, r, list, Len(list)), r)
  BY CreateWays
<1>7. CASE \/ ~Listed(d, r) /\ ShortNames(list) /\ Distinct(list) /\ Width(list) <= PageSize
                /\ o = createHeapFile(Registered(d, r, list, Len(list)), r)
  BY <1>5, <1>7
<1>8. CASE ~Listed(d, r) /\ Distinct(list) /\ Width(list) <= PageSize
            /\ \E k \in 1 .. Len(list) :
                   /\ list[k].attrName \in LongNames
                   /\ \A j \in 1 .. k - 1 : list[j].attrName \notin LongNames
                   /\ o = Outcome(Registered(d, r, list, k - 1), "NAMETOOLONG")
  BY <1>4, <1>8
<1>. QED BY <1>3, <1>6, <1>7, <1>8

-----------------------------------------------------------------------------
(* destroyRel.                                                             *)

LEMMA NoneAfterOne ==
    ASSUME NEW s \in Seq(RelEntry), s # <<>>, Len(s) <= 1
    PROVE  Tail(s) = <<>>
<1>1. Len(s) \in Nat /\ (Len(s) = 0 <=> s = <<>>)
  BY EmptySeq
<1>2. Len(s) = 1
  BY <1>1
<1>3. Tail(s) \in Seq(RelEntry) /\ Len(Tail(s)) = 0
  BY <1>2, HeadTailProperties
<1>. QED BY <1>3, EmptySeq

\* The parts of a relation go one by one: attributes, entry, file. What is not
\* there to go ends the call with the parts before it gone.
LEMMA DestroyEffect ==
    ASSUME NEW d, CatInv(d), NEW r \in Names, NEW o, o = destroyRel(d, r)
    PROVE  /\ CatInv(o.db) /\ Elsewhere(d, o.db, r) /\ o.db.open = d.open
           /\ r \in Catalogs => o.db = d
           /\ /\ r \notin Catalogs /\ d.relcat[r] # <<>> /\ d.attrcat[r] # <<>>
              /\ r \in d.files /\ d.open[r] = 0
              => o.db.relcat[r] = <<>> /\ o.db.attrcat[r] = <<>> /\ r \notin o.db.files
<1>1. d \in DbType /\ RelationSound(d, r) /\ Elsewhere(d, d, r)
  BY DEF CatInv, Elsewhere
<1>2. CASE r \in Catalogs \/ d.attrcat[r] = <<>>
  <2>1. o.db = d
    BY <1>2 DEF destroyRel, getRelInfo, Outcome
  <2>. QED BY <1>1, <1>2, <2>1
<1>3. CASE r \notin Catalogs /\ d.attrcat[r] # <<>>
  <2>1. PICK d1 : d1 = dropRelation(d, r)
    OBVIOUS
  <2>2. d1 = [d EXCEPT !.attrcat = [d.attrcat EXCEPT ![r] = <<>>]]
    BY <1>1, <2>1 DEF dropRelation, DbType
  <2>3. [d.attrcat EXCEPT ![r] = <<>>] \in [Names -> Seq(Entry)]
    BY <1>1 DEF DbType
  <2>4. /\ d1 \in DbType /\ d1.attrcat = [d.attrcat EXCEPT ![r] = <<>>] /\ d1.relcat = d.relcat
        /\ d1.files = d.files /\ d1.open = d.open /\ d1.rows = d.rows
    BY <1>1, <2>2, <2>3 DEF DbType
  <2>5. d.relcat[r] # <<>> /\ Len(d.relcat[r]) <= 1 /\ d.relcat[r] \in Seq(RelEntry)
    BY <1>1, <1>3 DEF RelationSound, EntriesSound, DbType
  <2>6. Tail(d.relcat[r]) = <<>>
    BY <2>5, NoneAfterOne
  <2>7. PICK d2 : d2 = removeInfo(d1, r)
    OBVIOUS
  <2>8. d2 = [d1 EXCEPT !.relcat = [d1.relcat EXCEPT ![r] = <<>>]]
    BY <1>1, <2>4, <2>6, <2>7 DEF removeInfo, DbType
  <2>9. [d1.relcat EXCEPT ![r] = <<>>] \in [Names -> Seq(RelEntry)]
    BY <2>4 DEF DbType
  <2>10. /\ d2 \in DbType /\ d2.attrcat = [d.attrcat EXCEPT ![r] = <<>>]
         /\ d2.relcat = [d.relcat EXCEPT ![r] = <<>>]
         /\ d2.files = d.files /\ d2.open = d.open /\ d2.rows = d.rows
    BY <2>4, <2>8, <2>9 DEF DbType
  <2>11. o = destroyHeapFile(d2, r)
    BY <1>3, <2>1, <2>4, <2>5, <2>7 DEF destroyRel, getRelInfo, Listed
  <2>12. PICK e : e = o.db
    OBVIOUS
  <2>13. /\ e \in DbType /\ e.relcat = d2.relcat /\ e.attrcat = d2.attrcat /\ e.open = d2.open
         /\ \A q \in Names \ {r} : (q \in e.files <=> q \in d2.files) /\ e.rows[q] = d2.rows[q]
         /\ r \notin e.files => e.rows[r] = {}
         /\ r \in d2.files /\ d2.open[r] = 0 => r \notin e.files
    <3>1. CASE d2.open[r] > 0
      <4>1. e = d2
        BY <2>11, <2>12, <3>1 DEF destroyHeapFile, Outcome
      <4>. QED BY <1>1, <2>10, <3>1, <4>1 DEF RelationSound
    <3>2. CASE ~(d2.open[r] > 0) /\ r \notin d2.files
      <4>1. e = d2
        BY <2>11, <2>12, <3>2 DEF destroyHeapFile, Outcome
      <4>. QED BY <1>1, <2>10, <3>2, <4>1 DEF RelationSound
    <3>3. CASE ~(d2.open[r] > 0) /\ r \in d2.files
      <4>1. e = [d2 EXCEPT !.files = @ \ {r}, !.rows[r] = {}]
        BY <2>11, <2>12, <3>3 DEF destroyHeapFile, Outcome
      <4>2. e = [d2 EXCEPT !.files = d2.files \ {r}, !.rows = [d2.rows EXCEPT ![r] = {}]]
        BY <2>10, <4>1 DEF DbType
      <4>3. [d2.rows EXCEPT ![r] = {}] \in [Names -> SUBSET Layouts] /\ d2.rows \in [Names -> SUBSET Layouts]
        BY <2>10 DEF DbType
      <4>4. /\ e \in DbType /\ e.relcat = d2.relcat /\ e.attrcat = d2.attrcat /\ e.open = d2.open
            /\ e.files = d2.files \ {r} /\ e.rows = [d2.rows EXCEPT ![r] = {}]
        BY <2>10, <4>2, <4>3 DEF DbType
      <4>. QED BY <4>3, <4>4
    <3>. QED BY <3>1, <3>2, <3>3
  <2>14. d.relcat \in [Names -> Seq(RelEntry)] /\ d.attrcat \in [Names -> Seq(Entry)]
    BY <1>1 DEF DbType
  <2>15. Elsewhere(d, e, r) /\ e.open = d.open
    BY <2>10, <2>13, <2>14 DEF Elsewhere
  <2>16. e.relcat[r] = <<>> /\ e.attrcat[r] = <<>>
    BY <2>10, <2>13, <2>14
  <2>17. RelationSound(e, r)
    <3>1. OffsetAfter(<<>>, 0) = 0 /\ Len(<<>>) = 0 /\ DOMAIN <<>> = {}
      BY OffsetStep
    <3>2. EntriesSound(<<>>, <<>>)
      BY <3>1 DEF EntriesSound, Distinct
    <3>3. UsersAttrs(<<>>)
      BY <3>1, SizesAssumption DEF UsersAttrs, Width
    <3>. QED BY <2>13, <2>16, <3>2, <3>3 DEF RelationSound
  <2>18. CatInv(e)
    BY <2>13, <2>15, <2>17, OneRelation
  <2>. QED BY <1>3, <2>10, <2>12, <2>13, <2>15, <2>16, <2>18
<1>. QED BY <1>2, <1>3

-----------------------------------------------------------------------------
(* Tuples.                                                                 *)

LEMMA RowsEffect ==
    ASSUME NEW d, CatInv(d), NEW r \in d.files, NEW l \in Layouts, NEW e, e = WithRows(d, r, l)
    PROVE  /\ CatInv(e) /\ Elsewhere(d, e, r)
           /\ e.relcat = d.relcat /\ e.attrcat = d.attrcat /\ e.files = d.files /\ e.open = d.open
           /\ e.rows[r] = d.rows[r] \cup {l}
<1>1. d \in DbType /\ RelationSound(d, r) /\ r \in Names
  BY DEF CatInv, DbType
<1>2. e = [d EXCEPT !.rows = [d.rows EXCEPT ![r] = @ \cup {l}]]
  BY <1>1 DEF WithRows, DbType
<1>3. /\ d.rows \in [Names -> SUBSET Layouts]
      /\ [d.rows EXCEPT ![r] = @ \cup {l}] \in [Names -> SUBSET Layouts]
  <2>1. d.rows \in [Names -> SUBSET Layouts]
    BY <1>1 DEF DbType
  <2>2. d.rows[r] \cup {l} \in SUBSET Layouts
    BY <1>1, <2>1
  <2>. QED BY <2>1, <2>2
<1>4. /\ e \in DbType /\ e.relcat = d.relcat /\ e.attrcat = d.attrcat /\ e.files = d.files
      /\ e.open = d.open /\ e.rows = [d.rows EXCEPT ![r] = @ \cup {l}]
  BY <1>1, <1>2, <1>3 DEF DbType
<1>5. Elsewhere(d, e, r) /\ e.rows[r] = d.rows[r] \cup {l}
  BY <1>1, <1>3, <1>4 DEF Elsewhere
<1>6. RelationSound(e, r)
  BY <1>1, <1>4 DEF RelationSound
<1>. QED BY <1>4, <1>5, <1>6, OneRelation

LEMMA SelectEffect ==
    ASSUME NEW d, CatInv(d), NEW result \in d.files, NEW r, NEW list \in AttrLists, NEW w, NEW some,
           NEW e, e = QU_Select(d, result, r, list, w, some).db
    PROVE  /\ CatInv(e) /\ Elsewhere(d, e, result)
           /\ e.relcat = d.relcat /\ e.attrcat = d.attrcat /\ e.files = d.files /\ e.open = d.open
           /\ e.rows[result] \subseteq d.rows[result] \cup {Layout(list)}
<1>1. e = d \/ e = WithRows(d, result, Layout(list))
  BY DEF QU_Select, Outcome
<1>2. Elsewhere(d, d, result) /\ Layout(list) \in Layouts
  BY DEF Elsewhere, Layouts
<1>3. CASE e = d
  BY <1>2, <1>3
<1>4. CASE e = WithRows(d, result, Layout(list))
  BY <1>2, <1>4, RowsEffect
<1>. QED BY <1>1, <1>3, <1>4

\* A relation with attributes is read and written with a layout that a CREATE
\* may give.
LEMMA LayoutOfUser ==
    ASSUME NEW d, CatInv(d), NEW r \in Relations, d.attrcat[r] # <<>>
    PROVE  Layout(d.attrcat[r]) \in Layouts
<1>. DEFINE attrs == d.attrcat[r]
<1>1. r \in Names /\ attrs \in Seq(Entry) /\ UsersAttrs(attrs)
  <2>1. r \in Names
    BY DEF Names
  <2>. QED BY <2>1 DEF CatInv, RelationSound, DbType
<1>. HIDE DEF attrs
<1>2. Len(attrs) \in 1 .. MaxAttrs /\ DOMAIN attrs = 1 .. Len(attrs)
  <2>1. Len(attrs) \in Nat \ {0} /\ DOMAIN attrs = 1 .. Len(attrs)
    BY <1>1, EmptySeq, LenProperties DEF attrs
  <2>. QED BY <1>1, <2>1, SizesAssumption DEF UsersAttrs
<1>. DEFINE list == [k \in 1 .. Len(attrs) |-> Attr(attrs[k].attrName, attrs[k].attrLen)]
<1>3. list \in [1 .. Len(attrs) -> Attribute]
  BY <1>1, <1>2 DEF UsersAttrs
<1>4. list \in AttrLists
  BY <1>2, <1>3 DEF AttrLists
<1>5. Layout(attrs) = Layout(list)
  <2>1. \A k \in 1 .. Len(attrs) : list[k].attrLen = attrs[k].attrLen
    BY DEF Attr
  <2>2. DOMAIN list = 1 .. Len(attrs)
    OBVIOUS
  <2>. HIDE DEF list
  <2>. QED BY <1>2, <2>1, <2>2 DEF Layout
<1>. QED BY <1>4, <1>5 DEF Layouts, attrs

\* What a query asks of a relation is a list that CREATE may take, with names
\* that fit.
LEMMA ProjectionTyped ==
    ASSUME NEW d, CatInv(d), NEW r \in Users, NEW seq \in Projections, HasAll(d, r, seq)
    PROVE  Projection(d, r, seq) \in AttrLists /\ ShortNames(Projection(d, r, seq))
<1>1. PICK n \in 1 .. MaxAttrs : seq \in [1 .. n -> AttrNames]
  BY DEF Projections
<1>. DEFINE attrs == d.attrcat[r]
<1>2. attrs \in Seq(Entry) /\ UsersAttrs(attrs)
  <2>1. r \in Names /\ r \in Relations
    BY DEF Names, Relations
  <2>. QED BY <2>1 DEF CatInv, RelationSound, DbType
<1>. DEFINE p == Projection(d, r, seq)
<1>3. ASSUME NEW k \in 1 .. n
      PROVE  /\ getInfo(d, r, seq[k]) \in {attrs[i] : i \in DOMAIN attrs}
             /\ getInfo(d, r, seq[k]).attrName = seq[k]
  <2>. DEFINE T == {i \in DOMAIN attrs : attrs[i].attrName = seq[k]}
  <2>1. T # {}
    BY <1>1 DEF HasAll, Has
  <2>2. T \subseteq Nat /\ DOMAIN attrs = 1 .. Len(attrs) /\ Len(attrs) \in Nat
    BY <1>2, LenProperties
  <2>3. PICK i \in T : \A j \in T : i <= j
    <3>. HIDE DEF T
    <3>. QED BY <2>1, <2>2, Smallest
  <2>4. \A j \in 1 .. i - 1 : j \in DOMAIN attrs /\ ~(i <= j)
    BY <2>2
  <2>5. \E x \in DOMAIN attrs : /\ attrs[x].attrName = seq[k]
                               /\ \A j \in 1 .. x - 1 : attrs[j].attrName # seq[k]
    BY <2>3, <2>4
  <2>. QED BY <2>5 DEF getInfo
<1>4. ASSUME NEW k \in 1 .. n
      PROVE  /\ [attrName |-> seq[k], attrLen |-> getInfo(d, r, seq[k]).attrLen] \in Attribute
             /\ seq[k] \notin LongNames
  <2>1. PICK i \in DOMAIN attrs : getInfo(d, r, seq[k]) = attrs[i]
    BY <1>3
  <2>2. attrs[i].attrName = seq[k]
    BY <1>3, <2>1
  <2>3. /\ Attr(attrs[i].attrName, attrs[i].attrLen) \in Attribute
        /\ attrs[i].attrName \notin LongNames
    BY <1>2 DEF UsersAttrs
  <2>. QED BY <2>1, <2>2, <2>3 DEF Attr
<1>5. p = [k \in 1 .. n |-> [attrName |-> seq[k], attrLen |-> getInfo(d, r, seq[k]).attrLen]]
  BY <1>1 DEF Projection
<1>6. p \in [1 .. n -> Attribute]
  BY <1>4, <1>5
<1>7. \A k \in DOMAIN p : p[k].attrName = seq[k] /\ k \in 1 .. n
  BY <1>5
<1>. QED BY <1>4, <1>6, <1>7 DEF AttrLists, ShortNames

-----------------------------------------------------------------------------
(* Statements.                                                             *)

Whole(d, r) ==
    /\ d.relcat[r] = <<[attrCnt |-> Len(d.attrcat[r])]>> /\ d.attrcat[r] # <<>>
    /\ r \in d.files /\ d.rows[r] \subseteq {Layout(d.attrcat[r])}

NoTmp(d) == d.relcat[Tmp] = <<>> /\ d.attrcat[Tmp] = <<>> /\ Tmp \notin d.files /\ d.open[Tmp] = 0

IInv ==
    /\ CatInv(db) /\ NoTmp(db)
    /\ \A r \in Catalogs : db.relcat[r] # <<>>
    /\ made \subseteq Users /\ \A r \in made : Whole(db, r)

LEMMA UsersAreNames ==
    /\ Users \subseteq Names /\ Users \subseteq Relations /\ Catalogs \subseteq Names
    /\ Tmp \in Names /\ Tmp \in Relations /\ Tmp \notin Users /\ Tmp \notin Catalogs
    /\ \A r \in Users : r \notin Catalogs
  BY NamesAssumption DEF Names, Relations

\* A statement that changes one relation of the user.
LEMMA StatementOn ==
    ASSUME IInv, NEW r \in Users, CatInv(db'), Elsewhere(db, db', r),
           made' \subseteq made \cup {r}, r \in made' => Whole(db', r)
    PROVE  IInv'
<1>1. Tmp \in Names \ {r} /\ Users \subseteq Names /\ \A c \in Catalogs : c \in Names \ {r}
  BY UsersAreNames
<1>2. NoTmp(db') /\ \A c \in Catalogs : db'.relcat[c] # <<>>
  BY <1>1 DEF IInv, NoTmp, Elsewhere
<1>3. made' \subseteq Users
  BY DEF IInv
<1>4. ASSUME NEW q \in made' PROVE Whole(db', q)
  <2>1. CASE q = r
    BY <1>4, <2>1
  <2>2. CASE q # r
    <3>1. q \in Names \ {r} /\ Whole(db, q)
      BY <1>1, <1>3, <1>4, <2>2 DEF IInv
    <3>. QED BY <3>1 DEF Whole, Elsewhere
  <2>. QED BY <2>1, <2>2
<1>. QED BY <1>2, <1>3, <1>4 DEF IInv

LEMMA NothingDone ==
    ASSUME IInv, db' = db, made' = made
    PROVE  IInv'
  BY DEF IInv

LEMMA CreateStep ==
    ASSUME IInv, NEW r \in Users \cup Catalogs, NEW list \in AttrLists, Create(r, list)
    PROVE  IInv'
<1>1. PICK o : o = createRel(db, r, list)
  OBVIOUS
<1>2. db' = o.db /\ made' = IF o.status = "OK" THEN made \cup {r} ELSE made
  BY <1>1 DEF Create, Result
<1>3. r \in Names /\ CatInv(db)
  BY UsersAreNames DEF IInv
<1>4. /\ CatInv(o.db) /\ Elsewhere(db, o.db, r)
      /\ db.relcat[r] # <<>> => o.db = db /\ o.status # "OK"
      /\ o.status = "OK" => Created(db, o.db, r, list)
  BY <1>1, <1>3, CreateEffect
<1>5. CASE db.relcat[r] # <<>>
  BY <1>2, <1>4, <1>5, NothingDone
<1>6. CASE db.relcat[r] = <<>>
  <2>1. r \in Users /\ r \notin made
    <3>1. \A x : <<x>> # <<>>
      OBVIOUS
    <3>2. r \in made => db.relcat[r] = <<[attrCnt |-> Len(db.attrcat[r])]>>
      BY DEF IInv, Whole
    <3>. QED BY <1>6, <3>1, <3>2 DEF IInv
  <2>2. r \in made' => Whole(db', r)
    <3>1. r \in made' => o.status = "OK"
      BY <1>2, <2>1
    <3>2. Created(db, o.db, r, list) => Whole(o.db, r)
      BY DEF Created, Whole
    <3>. QED BY <1>2, <1>4, <3>1, <3>2
  <2>3. CatInv(db') /\ Elsewhere(db, db', r) /\ made' \subseteq made \cup {r}
    BY <1>2, <1>4
  <2>. QED BY <2>1, <2>2, <2>3, StatementOn
<1>. QED BY <1>5, <1>6

LEMMA DestroyStep ==
    ASSUME IInv, NEW r \in Users \cup Catalogs, Destroy(r)
    PROVE  IInv'
<1>1. PICK o : o = destroyRel(db, r)
  OBVIOUS
<1>2. db' = o.db /\ made' = made \ {r}
  BY <1>1 DEF Destroy, Result
<1>3. r \in Names /\ CatInv(db)
  BY UsersAreNames DEF IInv
<1>4. CatInv(o.db) /\ Elsewhere(db, o.db, r) /\ (r \in Catalogs => o.db = db)
  BY <1>1, <1>3, DestroyEffect
<1>5. CASE r \in Catalogs
  <2>1. made' = made
    BY <1>2, <1>5, UsersAreNames DEF IInv
  <2>. QED BY <1>2, <1>4, <1>5, <2>1, NothingDone
<1>6. CASE r \in Users
  <2>1. CatInv(db') /\ Elsewhere(db, db', r) /\ made' \subseteq made \cup {r} /\ r \notin made'
    BY <1>2, <1>4
  <2>. QED BY <1>6, <2>1, StatementOn
<1>. QED BY <1>5, <1>6

\* LOAD and INSERT write with the layout the relation is read with.
LEMMA WriteStep ==
    ASSUME IInv, NEW r \in Users, r \in db.files, db.attrcat[r] # <<>>,
           db' = WithRows(db, r, Layout(db.attrcat[r])), made' = made
    PROVE  IInv'
<1>1. Layout(db.attrcat[r]) \in Layouts /\ CatInv(db)
  BY LayoutOfUser, UsersAreNames DEF IInv
<1>2. /\ CatInv(db') /\ Elsewhere(db, db', r)
      /\ db'.relcat = db.relcat /\ db'.attrcat = db.attrcat /\ db'.files = db.files
      /\ db'.rows[r] = db.rows[r] \cup {Layout(db.attrcat[r])}
  BY <1>1, RowsEffect
<1>3. r \in made' => Whole(db', r)
  BY <1>2 DEF IInv, Whole
<1>. QED BY <1>2, <1>3, StatementOn

LEMMA LoadStep ==
    ASSUME IInv, NEW r \in Users \cup Catalogs, Load(r)
    PROVE  IInv'
<1>. DEFINE attrs == db.attrcat[r]
<1>1. \/ db' = db
      \/ r \in Users /\ db' = [db EXCEPT !.open[r] = @ + 1]
      \/ r \in Users /\ r \in db.files /\ attrs # <<>> /\ db' = WithRows(db, r, Layout(attrs))
  BY DEF Load, Result, Outcome, getRelInfo
<1>2. made' = made
  BY DEF Load
<1>3. CASE db' = db
  BY <1>2, <1>3, NothingDone
<1>4. CASE r \in Users /\ db' = [db EXCEPT !.open[r] = @ + 1]
  <2>1. r \in Names /\ db \in DbType /\ RelationSound(db, r)
    BY <1>4, UsersAreNames DEF IInv, CatInv
  <2>2. db.open \in [Names -> Nat] /\ [db.open EXCEPT ![r] = @ + 1] \in [Names -> Nat]
    BY <2>1 DEF DbType
  <2>3. db' = [db EXCEPT !.open = [db.open EXCEPT ![r] = @ + 1]]
    BY <1>4, <2>1 DEF DbType
  <2>4. /\ db' \in DbType /\ db'.relcat = db.relcat /\ db'.attrcat = db.attrcat
        /\ db'.files = db.files /\ db'.rows = db.rows /\ db'.open = [db.open EXCEPT ![r] = @ + 1]
    BY <2>1, <2>2, <2>3 DEF DbType
  <2>5. Elsewhere(db, db', r)
    BY <2>2, <2>4 DEF Elsewhere
  <2>8. RelationSound(db', r)
    BY <2>1, <2>4 DEF RelationSound
  <2>6. CatInv(db')
    BY <2>4, <2>5, <2>8, OneRelation DEF IInv
  <2>7. r \in made' => Whole(db', r)
    BY <1>2, <2>4 DEF IInv, Whole
  <2>. QED BY <1>2, <1>4, <2>5, <2>6, <2>7, StatementOn
<1>5. CASE r \in Users /\ r \in db.files /\ attrs # <<>> /\ db' = WithRows(db, r, Layout(attrs))
  BY <1>2, <1>5, WriteStep
<1>. QED BY <1>1, <1>3, <1>4, <1>5

LEMMA InsertStep ==
    ASSUME IInv, NEW r \in Users, NEW n \in 1 .. MaxAttrs, Insert(r, n)
    PROVE  IInv'
<1>. DEFINE attrs == db.attrcat[r]
<1>1. \/ db' = db
      \/ r \in db.files /\ attrs # <<>> /\ db' = WithRows(db, r, Layout(attrs))
  BY DEF Insert, Result, Outcome, getRelInfo
<1>2. made' = made
  BY DEF Insert
<1>3. CASE db' = db
  BY <1>2, <1>3, NothingDone
<1>4. CASE r \in db.files /\ attrs # <<>> /\ db' = WithRows(db, r, Layout(attrs))
  BY <1>2, <1>4, WriteStep
<1>. QED BY <1>1, <1>3, <1>4

LEMMA DeleteStep ==
    ASSUME IInv, NEW r \in Users, NEW gone \in SUBSET db.rows[r], Delete(r, gone)
    PROVE  IInv'
<1>1. r \in Names /\ db \in DbType /\ RelationSound(db, r) /\ r \in db.files
  BY UsersAreNames DEF IInv, CatInv, Delete
<1>2. db' = [db EXCEPT !.rows[r] = @ \ gone] /\ made' = made
  BY DEF Delete, Result, Outcome
<1>3. /\ db.rows \in [Names -> SUBSET Layouts]
      /\ [db.rows EXCEPT ![r] = @ \ gone] \in [Names -> SUBSET Layouts]
  <2>1. db.rows \in [Names -> SUBSET Layouts]
    BY <1>1 DEF DbType
  <2>2. db.rows[r] \ gone \in SUBSET Layouts
    BY <1>1, <2>1
  <2>. QED BY <2>1, <2>2
<1>4. db' = [db EXCEPT !.rows = [db.rows EXCEPT ![r] = @ \ gone]]
  BY <1>1, <1>2 DEF DbType
<1>5. /\ db' \in DbType /\ db'.relcat = db.relcat /\ db'.attrcat = db.attrcat
      /\ db'.files = db.files /\ db'.open = db.open /\ db'.rows = [db.rows EXCEPT ![r] = @ \ gone]
  BY <1>1, <1>3, <1>4 DEF DbType
<1>6. Elsewhere(db, db', r) /\ RelationSound(db', r)
  BY <1>1, <1>3, <1>5 DEF Elsewhere, RelationSound
<1>7. CatInv(db')
  BY <1>5, <1>6, OneRelation DEF IInv
<1>8. r \in made' => Whole(db', r)
  BY <1>1, <1>2, <1>3, <1>5 DEF IInv, Whole
<1>. QED BY <1>2, <1>6, <1>7, <1>8, StatementOn

-----------------------------------------------------------------------------
(* Queries.                                                                *)

\* A query that projects r has a list that CREATE may take.
LEMMA SelectStep ==
    ASSUME IInv, NEW r \in Users, NEW seq \in Projections, NEW w, NEW some,
           Select(r, seq, w, some)
    PROVE  IInv'
<1>1. made' = made
  BY DEF Select
<1>2. CASE db' = db
  BY <1>1, <1>2, NothingDone
<1>3. ASSUME db' # db
      PROVE  HasAll(db, r, seq) /\ LET list == Projection(db, r, seq)
                                       o == createRel(db, Tmp, list)
                                   IN  db' = IF o.status # "OK" THEN o.db
                                             ELSE destroyRel(QU_Select(o.db, Tmp, r, list, w, some).db, Tmp).db
  BY <1>3 DEF Select, Result, Outcome, TmpDropped
<1>4. CASE db' # db
  <2>1. PICK list, o : list = Projection(db, r, seq) /\ o = createRel(db, Tmp, list)
    OBVIOUS
  <2>2. list \in AttrLists /\ ShortNames(list)
    BY <1>3, <1>4, <2>1, ProjectionTyped DEF IInv
  <2>3. /\ CatInv(o.db) /\ Elsewhere(db, o.db, Tmp)
        /\ o.status = "OK" => Created(db, o.db, Tmp, list)
        /\ o.status # "OK" => o.db = db
    BY <2>1, <2>2, CreateEffect, UsersAreNames DEF IInv, NoTmp
  <2>4. o.status = "OK"
    BY <1>3, <1>4, <2>1, <2>3
  <2>5. PICK e : e = QU_Select(o.db, Tmp, r, list, w, some).db
    OBVIOUS
  <2>6. /\ CatInv(e) /\ Elsewhere(o.db, e, Tmp)
        /\ e.relcat = o.db.relcat /\ e.attrcat = o.db.attrcat /\ e.files = o.db.files
        /\ e.open = o.db.open
    <3>1. PICK c : c = o.db
      OBVIOUS
    <3>2. CatInv(c) /\ Tmp \in c.files /\ e = QU_Select(c, Tmp, r, list, w, some).db
      BY <2>3, <2>4, <2>5, <3>1 DEF Created
    <3>. QED BY <2>2, <3>1, <3>2, SelectEffect
  <2>7. db' = destroyRel(e, Tmp).db
    BY <1>3, <1>4, <2>1, <2>4, <2>5
  <2>8. /\ e.relcat[Tmp] # <<>> /\ e.attrcat[Tmp] # <<>> /\ Tmp \in e.files /\ e.open[Tmp] = 0
    <3>1. \A x : <<x>> # <<>>
      OBVIOUS
    <3>2. Created(db, o.db, Tmp, list) /\ db.open[Tmp] = 0
      BY <2>3, <2>4 DEF IInv, NoTmp
    <3>3. o.db.relcat[Tmp] # <<>>
      BY <3>1, <3>2 DEF Created
    <3>. QED BY <2>6, <3>2, <3>3 DEF Created
  <2>9. /\ CatInv(db') /\ Elsewhere(e, db', Tmp) /\ db'.open = e.open
        /\ db'.relcat[Tmp] = <<>> /\ db'.attrcat[Tmp] = <<>> /\ Tmp \notin db'.files
    BY <2>6, <2>7, <2>8, DestroyEffect, UsersAreNames
  <2>10. Elsewhere(db, db', Tmp)
    BY <2>3, <2>6, <2>9 DEF Elsewhere
  <2>11. NoTmp(db')
    BY <2>8, <2>9 DEF NoTmp
  <2>12. \A c \in Catalogs : db'.relcat[c] # <<>>
    <3>1. \A c \in Catalogs : c \in Names \ {Tmp}
      BY UsersAreNames
    <3>. QED BY <2>10, <3>1 DEF IInv, Elsewhere
  <2>13. ASSUME NEW q \in made PROVE Whole(db', q)
    <3>1. q \in Names \ {Tmp}
      BY UsersAreNames DEF IInv
    <3>. QED BY <2>10, <3>1 DEF IInv, Whole, Elsewhere
  <2>. QED BY <1>1, <2>9, <2>11, <2>12, <2>13 DEF IInv
<1>. QED BY <1>2, <1>4

LEMMA SelectIntoNewStep ==
    ASSUME IInv, NEW r \in Users, NEW seq \in Projections, NEW w, NEW some,
           NEW result \in Users, SelectIntoNew(result, r, seq, w, some)
    PROVE  IInv'
<1>1. db.attrcat[result] = <<>> /\ result \notin made /\ CatInv(db) /\ result \in Names
  <2>1. db.attrcat[result] = <<>>
    BY DEF SelectIntoNew, getRelInfo
  <2>. QED BY <2>1, UsersAreNames DEF IInv, Whole
<1>2. CASE ~HasAll(db, r, seq)
  <2>1. db' = db /\ made' = made
    BY <1>2 DEF SelectIntoNew, Result, Outcome
  <2>. QED BY <2>1, NothingDone
<1>3. CASE HasAll(db, r, seq)
  <2>1. PICK list, o : list = Projection(db, r, seq) /\ o = createRel(db, result, list)
    OBVIOUS
  <2>2. list \in AttrLists
    BY <1>1, <1>3, <2>1, ProjectionTyped
  <2>3. /\ CatInv(o.db) /\ Elsewhere(db, o.db, result)
        /\ o.status = "OK" => Created(db, o.db, result, list)
    BY <1>1, <2>1, <2>2, CreateEffect
  <2>4. \/ o.status # "OK" /\ db' = o.db /\ made' = made
        \/ /\ o.status = "OK" /\ db' = QU_Select(o.db, result, r, list, w, some).db
           /\ made' = made \cup {result}
    BY <1>3, <2>1 DEF SelectIntoNew, Result
  <2>5. CASE o.status # "OK"
    BY <1>1, <2>3, <2>4, <2>5, StatementOn
  <2>6. CASE o.status = "OK"
    <3>1. Created(db, o.db, result, list)
      BY <2>3, <2>6
    <3>2. /\ CatInv(db') /\ Elsewhere(o.db, db', result)
          /\ db'.relcat = o.db.relcat /\ db'.attrcat = o.db.attrcat /\ db'.files = o.db.files
          /\ db'.rows[result] \subseteq o.db.rows[result] \cup {Layout(list)}
      <4>1. PICK c, e : c = o.db /\ e = QU_Select(c, result, r, list, w, some).db
        OBVIOUS
      <4>2. CatInv(c) /\ result \in c.files /\ db' = e
        BY <2>3, <2>4, <2>6, <3>1, <4>1 DEF Created
      <4>3. /\ CatInv(e) /\ Elsewhere(c, e, result)
            /\ e.relcat = c.relcat /\ e.attrcat = c.attrcat /\ e.files = c.files
            /\ e.rows[result] \subseteq c.rows[result] \cup {Layout(list)}
        BY <2>2, <4>1, <4>2, SelectEffect
      <4>. QED BY <4>1, <4>2, <4>3
    <3>3. Elsewhere(db, db', result)
      BY <2>3, <3>2 DEF Elsewhere
    <3>4. Whole(db', result)
      BY <3>1, <3>2 DEF Created, Whole
    <3>. QED BY <2>4, <2>6, <3>2, <3>3, <3>4, StatementOn
  <2>. QED BY <2>5, <2>6
<1>. QED BY <1>2, <1>3

LEMMA SelectIntoOldStep ==
    ASSUME IInv, NEW r \in Users, NEW seq \in Projections, NEW w, NEW some,
           NEW result \in Users, SelectIntoOld(result, r, seq, w, some)
    PROVE  IInv'
<1>1. made' = made /\ CatInv(db)
  BY DEF SelectIntoOld, IInv
<1>2. CASE db' = db
  BY <1>1, <1>2, NothingDone
<1>3. CASE db' # db
  <2>1. PICK list : list = Projection(db, r, seq)
    OBVIOUS
  <2>2. /\ HasAll(db, r, seq) /\ Layout(db.attrcat[result]) = Layout(list) /\ result \in db.files
        /\ db' = QU_Select(db, result, r, list, w, some).db
    BY <1>3, <2>1 DEF SelectIntoOld, SameTypes, getRelInfo, Result, Outcome
  <2>3. list \in AttrLists
    BY <1>1, <2>1, <2>2, ProjectionTyped
  <2>4. /\ CatInv(db') /\ Elsewhere(db, db', result)
        /\ db'.relcat = db.relcat /\ db'.attrcat = db.attrcat /\ db'.files = db.files
        /\ db'.rows[result] \subseteq db.rows[result] \cup {Layout(list)}
    BY <1>1, <2>2, <2>3, SelectEffect
  <2>5. result \in made' => Whole(db', result)
    BY <1>1, <2>2, <2>4 DEF IInv, Whole
  <2>. QED BY <1>1, <2>4, <2>5, StatementOn
<1>. QED BY <1>2, <1>3

LEMMA RestartStep ==
    ASSUME IInv, Restart
    PROVE  IInv'
<1>1. db \in DbType /\ \A r \in Names : RelationSound(db, r)
  BY DEF IInv, CatInv
<1>2. /\ db' \in DbType /\ db'.relcat = db.relcat /\ db'.attrcat = db.attrcat
      /\ db'.files = db.files /\ db'.rows = db.rows /\ db'.open = Openers
  <2>1. Openers \in [Names -> Nat]
    BY DEF Openers
  <2>. QED BY <1>1, <2>1 DEF Restart, DbType
<1>3. CatInv(db')
  BY <1>1, <1>2 DEF CatInv, RelationSound
<1>4. NoTmp(db')
  <2>1. Openers[Tmp] = 0
    BY UsersAreNames DEF Openers
  <2>. QED BY <1>2, <2>1 DEF IInv, NoTmp
<1>5. \A r \in made : Whole(db', r)
  BY <1>2 DEF IInv, Whole
<1>. QED BY <1>2, <1>3, <1>4, <1>5 DEF IInv, Restart

-----------------------------------------------------------------------------
(* The invariant.                                                          *)

\* dbcreate puts the two catalogs into the catalogs.
LEMMA InitIInv == Init => IInv
<1>. SUFFICES ASSUME Init PROVE IInv
  OBVIOUS
<1>1. PICK d : d = [relcat |-> [r \in Names |-> <<>>], attrcat |-> [r \in Names |-> <<>>],
                    files |-> Catalogs, open |-> Openers, rows |-> [r \in Names |-> {}]]
  OBVIOUS
<1>2. db = Registered(Registered(d, RELCATNAME, RelCatAttrs, Len(RelCatAttrs)),
                      ATTRCATNAME, AttrCatAttrs, Len(AttrCatAttrs)) /\ made = {}
  BY <1>1 DEF Init, Described, Registered
<1>3. CatInv(d)
  <2>1. d \in DbType
    <3>1. Openers \in [Names -> Nat] /\ Catalogs \in SUBSET Names
      BY UsersAreNames DEF Openers
    <3>2. /\ [r \in Names |-> <<>>] \in [Names -> Seq(RelEntry)]
          /\ [r \in Names |-> <<>>] \in [Names -> Seq(Entry)]
          /\ [r \in Names |-> {}] \in [Names -> SUBSET Layouts]
      OBVIOUS
    <3>. QED BY <1>1, <3>1, <3>2 DEF DbType
  <2>2. ASSUME NEW r \in Names PROVE RelationSound(d, r)
    <3>1. OffsetAfter(<<>>, 0) = 0 /\ Len(<<>>) = 0 /\ DOMAIN <<>> = {}
      BY OffsetStep
    <3>2. EntriesSound(<<>>, <<>>)
      BY <3>1 DEF EntriesSound, Distinct
    <3>3. UsersAttrs(<<>>)
      BY <3>1, SizesAssumption DEF UsersAttrs, Width
    <3>4. d.relcat[r] = <<>> /\ d.attrcat[r] = <<>> /\ d.rows[r] = {}
      BY <1>1
    <3>. QED BY <3>2, <3>3, <3>4 DEF RelationSound
  <2>. QED BY <2>1, <2>2 DEF CatInv
<1>4. /\ RELCATNAME \in Names /\ ATTRCATNAME \in Names /\ RELCATNAME # ATTRCATNAME
      /\ RELCATNAME \notin Relations /\ ATTRCATNAME \notin Relations
  BY NamesAssumption DEF Names, Catalogs, RELCATNAME, ATTRCATNAME
<1>5. /\ RelCatAttrs \in Seq(Column) /\ RelCatAttrs # <<>> /\ Len(RelCatAttrs) \in 0 .. Len(RelCatAttrs)
      /\ Distinct(RelCatAttrs)
  BY DEF RelCatAttrs, Attr, Column, ColumnNames, CatalogColumns, Distinct
<1>6. /\ AttrCatAttrs \in Seq(Column) /\ AttrCatAttrs # <<>>
      /\ Len(AttrCatAttrs) \in 0 .. Len(AttrCatAttrs) /\ Distinct(AttrCatAttrs)
  BY DEF AttrCatAttrs, Attr, Column, ColumnNames, CatalogColumns, Distinct
<1>7. PICK e : e = Registered(d, RELCATNAME, RelCatAttrs, Len(RelCatAttrs))
  OBVIOUS
<1>8. /\ CatInv(e) /\ Elsewhere(d, e, RELCATNAME) /\ e.files = d.files /\ e.open = d.open
      /\ e.relcat[RELCATNAME] = <<[attrCnt |-> Len(RelCatAttrs)]>>
  <2>1. d.relcat[RELCATNAME] = <<>>
    BY <1>1, <1>4
  <2>. QED BY <1>3, <1>4, <1>5, <1>7, <2>1, RegisteredSound
<1>9. /\ CatInv(db) /\ Elsewhere(e, db, ATTRCATNAME) /\ db.files = e.files /\ db.open = e.open
      /\ db.relcat[ATTRCATNAME] = <<[attrCnt |-> Len(AttrCatAttrs)]>>
  <2>1. e.relcat[ATTRCATNAME] = <<>>
    BY <1>1, <1>4, <1>8 DEF Elsewhere
  <2>2. PICK b : b = Registered(e, ATTRCATNAME, AttrCatAttrs, Len(AttrCatAttrs))
    OBVIOUS
  <2>3. db = b
    BY <1>2, <1>7, <2>2
  <2>. QED BY <1>4, <1>6, <1>8, <2>1, <2>2, <2>3, RegisteredSound
<1>10. NoTmp(db)
  <2>1. Tmp \in Names /\ Tmp # RELCATNAME /\ Tmp # ATTRCATNAME /\ Tmp \notin Catalogs
    BY UsersAreNames DEF Catalogs
  <2>2. d.relcat[Tmp] = <<>> /\ d.attrcat[Tmp] = <<>> /\ Tmp \notin d.files /\ d.open[Tmp] = 0
    BY <1>1, <2>1 DEF Openers
  <2>. QED BY <1>8, <1>9, <2>1, <2>2 DEF NoTmp, Elsewhere
<1>11. \A c \in Catalogs : db.relcat[c] # <<>>
  <2>1. \A x : <<x>> # <<>>
    OBVIOUS
  <2>2. db.relcat[RELCATNAME] = e.relcat[RELCATNAME]
    BY <1>4, <1>9 DEF Elsewhere
  <2>3. db.relcat[RELCATNAME] # <<>> /\ db.relcat[ATTRCATNAME] # <<>>
    BY <1>8, <1>9, <2>1, <2>2
  <2>. QED BY <2>3 DEF Catalogs
<1>. QED BY <1>2, <1>9, <1>10, <1>11 DEF IInv

LEMMA NextIInv == IInv /\ [Next]_vars => IInv'
<1>. SUFFICES ASSUME IInv, [Next]_vars PROVE IInv'
  OBVIOUS
<1>1. ASSUME NEW r \in Users \cup Catalogs, NEW list \in AttrLists, Create(r, list) PROVE IInv'
  BY <1>1, CreateStep
<1>2. ASSUME NEW r \in Users \cup Catalogs, Destroy(r) \/ Load(r) PROVE IInv'
  BY <1>2, DestroyStep, LoadStep
<1>3. ASSUME NEW r \in Users, NEW n \in 1 .. MaxAttrs, Insert(r, n) PROVE IInv'
  BY <1>3, InsertStep
<1>4. ASSUME NEW r \in Users, NEW gone \in SUBSET db.rows[r], Delete(r, gone) PROVE IInv'
  BY <1>4, DeleteStep
<1>5. ASSUME NEW r \in Users, NEW seq \in Projections, NEW w, NEW some,
             \/ Select(r, seq, w, some)
             \/ \E result \in Users : SelectIntoNew(result, r, seq, w, some)
             \/ \E result \in Users : SelectIntoOld(result, r, seq, w, some)
      PROVE  IInv'
  BY <1>5, SelectStep, SelectIntoNewStep, SelectIntoOldStep
<1>6. CASE Restart
  BY <1>6, RestartStep
<1>7. CASE UNCHANGED vars
  BY <1>7, NothingDone DEF vars
<1>. QED BY <1>1, <1>2, <1>3, <1>4, <1>5, <1>6, <1>7 DEF Next

\* The catalogs are sound for every relation, and those that users made are
\* whole, after every sequence of statements that succeed or fail.
THEOREM IInvAlways == Spec => []IInv
  BY InitIInv, NextIInv, PTL DEF Spec

\* Every entry has its type, and the attributes of a relation lie within what
\* createRel accepts as the width of a tuple (create.C:31-41).
THEOREM TypeCorrect == Spec => []TypeOK
<1>1. IInv => TypeOK
  <2>. SUFFICES ASSUME IInv PROVE TypeOK
    OBVIOUS
  <2>1. db \in DbType
    BY DEF IInv, CatInv
  <2>2. /\ \A r \in Names : db.relcat[r] \in Seq([attrCnt: Nat \ {0}])
        /\ db.files \subseteq Names /\ db.open \in [Names -> Nat]
        /\ \A r \in Names : db.rows[r] \subseteq {Layout(list) : list \in AttrLists}
        /\ \A r \in Names : db.attrcat[r] \in Seq(Entry)
    BY <2>1 DEF DbType, RelEntry, Layouts
  <2>3. ASSUME NEW r \in Relations, NEW i \in DOMAIN db.attrcat[r],
               NEW e, e = db.attrcat[r][i]
        PROVE  /\ Attr(e.attrName, e.attrLen) \in Attribute
               /\ e.attrOffset >= 0 /\ e.attrOffset + e.attrLen <= PageSize
    <3>. DEFINE attrs == db.attrcat[r]
    <3>1. /\ UsersAttrs(attrs) /\ attrs \in Seq(Entry)
          /\ EntriesSound(db.relcat[r], attrs)
      <4>1. r \in Names
        BY DEF Names
      <4>. QED BY <2>2, <4>1 DEF IInv, CatInv, RelationSound
    <3>2. Len(attrs) \in Nat /\ DOMAIN attrs = 1 .. Len(attrs)
          /\ \A k \in 1 .. Len(attrs) : attrs[k] \in Entry
      BY <3>1, LenProperties, ElementOfSeq
    <3>3. e = attrs[i] /\ e.attrOffset = OffsetAfter(attrs, i - 1)
      BY <2>3, <3>1 DEF EntriesSound
    <3>. HIDE DEF attrs
    <3>4. Measured(attrs, Len(attrs))
      BY <3>2 DEF Measured, Entry
    <3>5. i \in 0 .. Len(attrs) /\ i - 1 \in 0 .. Len(attrs) /\ i - 1 \in Nat /\ (i - 1) + 1 = i
          /\ i \in 1 .. Len(attrs)
      BY <3>2 DEF attrs
    <3>6. /\ OffsetAfter(attrs, i) <= OffsetAfter(attrs, Len(attrs))
          /\ OffsetAfter(attrs, i - 1) \in Nat /\ OffsetAfter(attrs, i) \in Nat
          /\ OffsetAfter(attrs, Len(attrs)) \in Nat
      BY <3>2, <3>4, <3>5, OffsetsGrow
    <3>7. OffsetAfter(attrs, (i - 1) + 1) = OffsetAfter(attrs, i - 1) + attrs[(i - 1) + 1].attrLen
      BY <3>5, OffsetStep
    <3>8. OffsetAfter(attrs, Len(attrs)) <= PageSize
      BY <3>1 DEF UsersAttrs, Width
    <3>9. e.attrOffset + e.attrLen <= PageSize /\ e.attrOffset >= 0
      BY <3>3, <3>5, <3>6, <3>7, <3>8, SizesAssumption
    <3>. QED BY <3>1, <3>3, <3>5, <3>9 DEF UsersAttrs, attrs
  <2>4. made \subseteq Users
    BY DEF IInv
  <2>. QED BY <2>2, <2>3, <2>4 DEF TypeOK
<1>. QED BY <1>1, IInvAlways, PTL

\* A lookup by relation name, or by relation and attribute name, finds the only
\* entry there is.
THEOREM KeysUniqueAlways == Spec => []KeysUnique
<1>1. IInv => KeysUnique
  BY DEF IInv, CatInv, RelationSound, EntriesSound, Distinct, KeysUnique
<1>. QED BY <1>1, IInvAlways, PTL

\* attrcat has attributes of listed relations only, with the offsets the tuples
\* have, wherever a CREATE or a DESTROY stopped.
THEOREM AttrcatSoundAlways == Spec => []AttrcatSound
<1>1. IInv => AttrcatSound
  BY DEF IInv, CatInv, RelationSound, EntriesSound, AttrcatSound, getRelInfo, Listed
<1>. QED BY <1>1, IInvAlways, PTL

\* A relation that CREATE said OK to keeps its entry, its attributes, its file
\* and the layout of its tuples until DESTROY is called on it.
THEOREM MadeIsWholeAlways == Spec => []MadeIsWhole
<1>1. IInv => MadeIsWhole
  BY DEF IInv, Whole, MadeIsWhole, getRelInfo
<1>. QED BY <1>1, IInvAlways, PTL

\* Every query without INTO drops its temporary result, also when it fails in
\* any of its calls.
THEOREM TmpIsGoneAlways == Spec => []TmpIsGone
<1>1. IInv => TmpIsGone
  BY DEF IInv, NoTmp, TmpIsGone, Listed, getRelInfo
<1>. QED BY <1>1, IInvAlways, PTL
=============================================================================
