--------------------------- MODULE HeapFileProofs ---------------------------
(***************************************************************************)
(* Proofs about the heap file, for any number of objects, pages and        *)
(* records, and any sizes.                                                 *)
(*                                                                         *)
(* A chain grows at its end only, so its pages are numbered in the order   *)
(* of the chain (FileInv): that is what a walk along the forward pointers  *)
(* visits.  The objects are somewhere on the chain, the open insertion at  *)
(* its end (HandleInv); the pins are theirs, and a page that has to be     *)
(* written has an object that says so (PoolInv).  What a scan owes is      *)
(* ahead of it on the chain, and what it will owe again when it goes back  *)
(* to its mark is ahead of the mark (ScanInv).                             *)
(***************************************************************************)
EXTENDS HeapFile, FiniteSetTheorems, WellFoundedInduction, TLAPS

\* Slots of data pages.
PageType == [slots: Seq(Records \cup {NoRecord}), next: DataPages \cup {NoPage}]

SlotsFit(pg) == (RecLen + SlotSize) * Len(pg.slots) <= DataSize

HeaderType == [firstPage: DataPages, lastPage: DataPages, pageCnt: Nat, recCnt: Int]

FileInv ==
    /\ header \in HeaderType
    /\ header.firstPage = 2 /\ header.lastPage = header.pageCnt + 1
    /\ pages \in [2 .. header.lastPage -> PageType]
    /\ \A p \in 2 .. header.lastPage :
        /\ pages[p].next = IF p = header.lastPage THEN NoPage ELSE p + 1
        /\ SlotsFit(pages[p])

Slot == {NullRID} \cup Nat

HandleType ==
    [open: BOOLEAN, curPage: Nat, curPageNo: Int, curDirty: BOOLEAN, hdrDirty: BOOLEAN,
     curRec: Slot, filter: SUBSET Records, current: Records \cup {NoRecord},
     marked: [pageNo: Nat, rec: Slot, todo: SUBSET Records]]

\* Where object h is, and where it may go back to.
PlaceSound(h) ==
    LET o == handle[h]
    IN  /\ o.curPage # Null => /\ o.open
                               /\ o.curPage \in 2 .. header.lastPage /\ o.curPageNo = o.curPage
        /\ o.marked.pageNo # 0 => o.marked.pageNo \in 2 .. header.lastPage
        /\ o.open /\ h \notin Scanners => o.curPage # Null
        /\ o.open /\ h \in Inserters => o.curPage = header.lastPage

HandleInv ==
    /\ handle \in [Handles -> HandleType]
    /\ todo \in [Scanners -> SUBSET Records]
    /\ \A h \in Handles : PlaceSound(h)
    /\ \A h, i \in Inserters : handle[h].open /\ handle[i].open => h = i

PoolType == [pins: [PageNos -> Nat], unsaved: SUBSET PageNos]

\* Somebody who has page p pinned will unpin it dirty.
Saves(h, p) ==
    handle[h].open /\ IF p = HdrPageNo THEN handle[h].hdrDirty
                      ELSE handle[h].curPage = p /\ CloseDirty(h)

PoolInv ==
    /\ pool \in PoolType
    /\ PinsAreHandles
    /\ \A p \in pool.unsaved : \E h \in Handles : Saves(h, p)

HeapInv == FileInv /\ HandleInv /\ PoolInv

-----------------------------------------------------------------------------
(* Data pages.                                                             *)

\* For the CHOOSEs of the model: what may be chosen is there.
LEMMA Smallest ==
    ASSUME NEW T, T \subseteq Nat, T # {}
    PROVE  \E x \in T : \A y \in T : x <= y
<1>. DEFINE R == OpToRel(<, Nat)
<1>1. IsWellFoundedOn(R, Nat)
  BY NatLessThanWellFounded
<1>2. \A x, y \in Nat : (<<y, x>> \in R) <=> (y < x)
  BY DEF OpToRel
<1>. HIDE DEF R
<1>3. PICK x \in T : \A y \in T : ~(<<y, x>> \in R)
  BY <1>1, WFMin
<1>4. ASSUME NEW y \in T PROVE x <= y
  <2>1. x \in Nat /\ y \in Nat
    OBVIOUS
  <2>2. ~(y < x)
    BY <1>2, <1>3, <2>1
  <2>. QED BY <2>1, <2>2
<1>. QED BY <1>4

LEMMA SlotsTyped ==
    ASSUME NEW pg \in PageType
    PROVE  /\ Len(pg.slots) \in Nat /\ DOMAIN pg.slots = 1 .. Len(pg.slots)
           /\ \A i \in 1 .. Len(pg.slots) : pg.slots[i] \in Records \cup {NoRecord}
           /\ \A n \in Int : Holds(pg, n) <=>
                n \in 0 .. Len(pg.slots) - 1 /\ pg.slots[n + 1] # NoRecord
           /\ SlotsInUse(pg) = {n \in 0 .. Len(pg.slots) - 1 : Holds(pg, n)}
<1>1. pg.slots \in Seq(Records \cup {NoRecord})
  BY DEF PageType
<1>2. /\ Len(pg.slots) \in Nat /\ DOMAIN pg.slots = 1 .. Len(pg.slots)
      /\ \A i \in 1 .. Len(pg.slots) : pg.slots[i] \in Records \cup {NoRecord}
  BY <1>1
<1>3. \A n \in Int : n + 1 \in 1 .. Len(pg.slots) <=> n \in 0 .. Len(pg.slots) - 1
  BY <1>2
<1>. QED BY <1>2, <1>3 DEF Holds, SlotsInUse

\* The slot an insertion takes is free.
LEMMA FirstEmptyIsFree ==
    ASSUME NEW pg \in PageType
    PROVE  /\ FirstEmpty(pg) \in 0 .. Len(pg.slots)
           /\ ~Holds(pg, FirstEmpty(pg))
           /\ \A m \in 0 .. FirstEmpty(pg) - 1 : Holds(pg, m)
<1>. DEFINE T == {n \in 0 .. Len(pg.slots) : ~Holds(pg, n)}
<1>1. Len(pg.slots) \in T /\ T \subseteq Nat
  BY SlotsTyped
<1>2. PICK n \in T : \A m \in T : n <= m
  BY <1>1, Smallest
<1>3. ASSUME NEW m \in 0 .. n - 1 PROVE Holds(pg, m)
  <2>1. m \in 0 .. Len(pg.slots) /\ ~(n <= m)
    BY <1>2, SlotsTyped
  <2>. QED BY <1>2, <2>1
<1>4. n \in 0 .. Len(pg.slots) /\ ~Holds(pg, n)
  BY <1>2
<1>. QED BY <1>3, <1>4 DEF FirstEmpty

\* Only a page with no empty slot gets a slot more, and that is paid for.
LEMMA OneSlotMore ==
    ASSUME NEW n \in Nat, RecLen + SlotSize <= DataSize - RecLen * n - SlotSize * n
    PROVE  (RecLen + SlotSize) * (n + 1) <= DataSize
<1>1. (RecLen + SlotSize) * (n + 1) = RecLen * n + SlotSize * n + (RecLen + SlotSize)
  <2>1. \A a, b, c \in Nat : (a + b) * (c + 1) = a * c + b * c + (a + b)
    OBVIOUS
  <2>. QED BY <2>1, SizesAssumption
<1>2. RecLen * n \in Nat /\ SlotSize * n \in Nat /\ RecLen \in Nat /\ SlotSize \in Nat
      /\ DataSize \in Nat
  BY SizesAssumption
<1>3. \A a, b, c, d \in Nat : c <= d - a - b => a + b + c <= d
  OBVIOUS
<1>4. RecLen + SlotSize \in Nat
  BY SizesAssumption
<1>. QED BY <1>1, <1>2, <1>3, <1>4

\* What PageInsert makes of page pg.
Inserted(pg, n, r, new) ==
    /\ new \in PageType /\ SlotsFit(new) /\ new.next = pg.next
    /\ n \in Nat /\ ~Holds(pg, n)
    /\ \A m \in Int : Holds(new, m) <=> Holds(pg, m) \/ m = n
    /\ new.slots[n + 1] = r
    /\ \A m \in Int : Holds(pg, m) => new.slots[m + 1] = pg.slots[m + 1]

LEMMA PageInsertEffect ==
    ASSUME NEW pg \in PageType, SlotsFit(pg), Accepts(pg, RecLen), NEW r \in Records
    PROVE  Inserted(pg, FirstEmpty(pg), r, PageInsert(pg, r))
<1>. DEFINE L == Len(pg.slots)
<1>. DEFINE n == FirstEmpty(pg)
<1>. DEFINE size == IF n = L THEN L + 1 ELSE L
<1>. DEFINE slots == [i \in 1 .. size |-> IF i = n + 1 THEN r ELSE pg.slots[i]]
<1>. DEFINE new == PageInsert(pg, r)
<1>1. L \in Nat /\ n \in 0 .. L /\ ~Holds(pg, n) /\ \A m \in 0 .. n - 1 : Holds(pg, m)
  BY SlotsTyped, FirstEmptyIsFree
<1>2. new = [pg EXCEPT !.slots = slots]
  BY DEF PageInsert
<1>. HIDE DEF n, new
<1>3. size \in Nat /\ n + 1 \in 1 .. size /\ L <= size
      /\ \A i \in 1 .. size : i # n + 1 => i \in 1 .. L
  BY <1>1
<1>. HIDE DEF size
<1>4. \A i \in 1 .. size : slots[i] \in Records \cup {NoRecord}
  BY <1>3, SlotsTyped
<1>5. slots \in Seq(Records \cup {NoRecord}) /\ Len(slots) = size
  BY <1>3, <1>4
<1>. HIDE DEF slots
<1>6. new \in PageType /\ new.next = pg.next /\ new.slots = slots
  BY <1>2, <1>5 DEF PageType
<1>7. /\ slots[n + 1] = r
      /\ \A i \in 1 .. L : i # n + 1 => slots[i] = pg.slots[i]
  BY <1>1, <1>3 DEF slots
<1>. HIDE DEF L
<1>8. ASSUME NEW m \in Int
      PROVE  /\ Holds(new, m) <=> Holds(pg, m) \/ m = n
             /\ Holds(pg, m) => new.slots[m + 1] = pg.slots[m + 1]
  <2>1. Holds(new, m) <=> m \in 0 .. size - 1 /\ slots[m + 1] # NoRecord
    BY <1>5, <1>6, SlotsTyped
  <2>2. Holds(pg, m) <=> m \in 0 .. L - 1 /\ pg.slots[m + 1] # NoRecord
    BY SlotsTyped DEF L
  <2>3. CASE m = n
    <3>1. m \in 0 .. size - 1
      BY <1>1, <1>3, <2>3
    <3>. QED BY <1>1, <1>7, <2>1, <2>3, <3>1, RecordsAssumption
  <2>4. CASE m # n
    <3>1. m \in 0 .. size - 1 => m + 1 \in 1 .. size /\ m + 1 # n + 1
      BY <1>1, <1>3, <2>4
    <3>2. m \in 0 .. L - 1 => m + 1 \in 1 .. L /\ m + 1 # n + 1 /\ m \in 0 .. size - 1
      BY <1>1, <1>3, <2>4
    <3>3. m \in 0 .. size - 1 => m \in 0 .. L - 1
      <4>1. m \in 0 .. size - 1 => m + 1 \in 1 .. L
        BY <1>3, <3>1
      <4>. QED BY <1>1, <4>1
    <3>. QED BY <1>6, <1>7, <2>1, <2>2, <2>4, <3>2, <3>3
  <2>. QED BY <2>3, <2>4
<1>9. SlotsFit(new)
  <2>1. CASE n # L
    BY <1>5, <1>6, <2>1 DEF SlotsFit, L, size
  <2>2. CASE n = L
    <3>1. SlotsInUse(pg) = 0 .. L - 1
      BY <1>1, <2>2, SlotsTyped DEF L
    <3>2. Cardinality(SlotsInUse(pg)) = L
      BY <1>1, <3>1, FS_Interval
    <3>3. (RecLen + SlotSize) * (L + 1) <= DataSize
      BY <1>1, <3>2, OneSlotMore DEF Accepts, L
    <3>. QED BY <1>5, <1>6, <2>2, <3>3 DEF SlotsFit, size
  <2>. QED BY <2>1, <2>2
<1>. QED BY <1>1, <1>6, <1>7, <1>8, <1>9 DEF Inserted, n, new

\* The slots that stay after the last one is deleted: up to one in use.
SlotsLeft(n, kept) ==
    CHOOSE k \in 0 .. n : /\ \A m \in kept : m < k
                          /\ k > 0 => k - 1 \in kept

LEMMA LastInUse ==
    ASSUME NEW n \in Nat, NEW kept, kept \subseteq 0 .. n - 1
    PROVE  /\ SlotsLeft(n, kept) \in 0 .. n
           /\ \A m \in kept : m < SlotsLeft(n, kept)
<1>. DEFINE T == {k \in 0 .. n : \A m \in kept : m < k}
<1>1. n \in T /\ T \subseteq Nat
  OBVIOUS
<1>2. PICK k \in T : \A j \in T : k <= j
  BY <1>1, Smallest
<1>3. k > 0 => k - 1 \in kept
  <2>. SUFFICES ASSUME k > 0, k - 1 \notin kept PROVE FALSE
    OBVIOUS
  <2>1. k - 1 \in 0 .. n /\ ~(k <= k - 1)
    BY <1>2
  <2>2. ASSUME NEW m \in kept PROVE m < k - 1
    <3>1. m \in Nat /\ m < k /\ m # k - 1 /\ k \in Nat
      BY <1>2
    <3>. QED BY <3>1
  <2>. QED BY <1>2, <2>1, <2>2
<1>4. k \in 0 .. n /\ \A m \in kept : m < k
  BY <1>2
<1>. QED BY <1>3, <1>4 DEF SlotsLeft

\* What PageDelete makes of page pg.
Deleted(pg, n, new) ==
    /\ new \in PageType /\ SlotsFit(new) /\ new.next = pg.next
    /\ \A m \in Int : Holds(new, m) <=> Holds(pg, m) /\ m # n
    /\ \A m \in Int : Holds(new, m) => new.slots[m + 1] = pg.slots[m + 1]

\* Fewer slots fit as well.
LEMMA FewerFit ==
    ASSUME NEW a \in Nat, NEW b \in Nat, a <= b, (RecLen + SlotSize) * b <= DataSize
    PROVE  (RecLen + SlotSize) * a <= DataSize
<1>1. \A x, y, z \in Nat : x <= y => z * x <= z * y
  OBVIOUS
<1>2. RecLen + SlotSize \in Nat /\ DataSize \in Nat
  BY SizesAssumption
<1>3. (RecLen + SlotSize) * a <= (RecLen + SlotSize) * b
  BY <1>1, <1>2
<1>4. (RecLen + SlotSize) * a \in Nat /\ (RecLen + SlotSize) * b \in Nat
  BY <1>2
<1>. QED BY <1>2, <1>3, <1>4

LEMMA PageDeleteEffect ==
    ASSUME NEW pg \in PageType, SlotsFit(pg), NEW n \in Int, Holds(pg, n)
    PROVE  Deleted(pg, n, PageDelete(pg, n))
<1>. DEFINE L == Len(pg.slots)
<1>. DEFINE kept == SlotsInUse(pg) \ {n}
<1>. DEFINE last == SlotsLeft(n, kept)
<1>. DEFINE cnt == IF n = L - 1 THEN last ELSE L
<1>. DEFINE slots == [i \in 1 .. cnt |-> IF i = n + 1 THEN NoRecord ELSE pg.slots[i]]
<1>. DEFINE new == PageDelete(pg, n)
<1>1. L \in Nat /\ n \in 0 .. L - 1
  BY SlotsTyped
<1>2. new = [pg EXCEPT !.slots = slots]
  BY DEF PageDelete, SlotsLeft
<1>3. cnt \in 0 .. L /\ \A m \in kept : m < cnt
  <2>1. CASE n = L - 1
    <3>1. kept \subseteq 0 .. n - 1
      <4>1. ASSUME NEW m \in kept PROVE m \in 0 .. n - 1
        <5>1. m \in 0 .. L - 1 /\ m # n
          BY DEF SlotsInUse
        <5>. QED BY <1>1, <2>1, <5>1
      <4>. QED BY <4>1
    <3>0. n \in Nat
      BY <1>1
    <3>. HIDE DEF kept, L
    <3>2. last \in 0 .. n /\ \A m \in kept : m < last
      BY <3>0, <3>1, LastInUse
    <3>. HIDE DEF last
    <3>. QED BY <1>1, <2>1, <3>2
  <2>2. CASE n # L - 1
    BY <1>1, <2>2 DEF SlotsInUse
  <2>. QED BY <2>1, <2>2
<1>. HIDE DEF new, cnt, last
<1>4. \A i \in 1 .. cnt : slots[i] \in Records \cup {NoRecord}
  BY <1>1, <1>3, SlotsTyped
<1>5. slots \in Seq(Records \cup {NoRecord}) /\ Len(slots) = cnt
  BY <1>3, <1>4
<1>. HIDE DEF slots
<1>6. new \in PageType /\ new.next = pg.next /\ new.slots = slots
  BY <1>2, <1>5 DEF PageType
<1>7. SlotsFit(new)
  BY <1>1, <1>3, <1>5, <1>6, FewerFit DEF SlotsFit
<1>8. ASSUME NEW m \in Int
      PROVE  /\ Holds(new, m) <=> Holds(pg, m) /\ m # n
             /\ Holds(new, m) => new.slots[m + 1] = pg.slots[m + 1]
  <2>1. Holds(new, m) <=> m \in 0 .. cnt - 1 /\ slots[m + 1] # NoRecord
    BY <1>5, <1>6, SlotsTyped
  <2>2. m \in 0 .. cnt - 1 =>
            slots[m + 1] = IF m = n THEN NoRecord ELSE pg.slots[m + 1]
    BY <1>1, <1>3 DEF slots
  <2>3. Holds(pg, m) <=> m \in 0 .. L - 1 /\ pg.slots[m + 1] # NoRecord
    BY SlotsTyped
  <2>. HIDE DEF L
  <2>4. m \in 0 .. cnt - 1 => m \in 0 .. L - 1
    BY <1>1, <1>3
  <2>5. Holds(pg, m) /\ m # n => m \in 0 .. cnt - 1
    <3>1. Holds(pg, m) /\ m # n => m \in kept
      BY <2>3 DEF SlotsInUse, L
    <3>. QED BY <1>1, <1>3, <2>3, <3>1
  <2>. QED BY <1>6, <2>1, <2>2, <2>3, <2>4, <2>5
<1>. QED BY <1>6, <1>7, <1>8 DEF Deleted, new

\* A page that fits has no slot numbers but those of SlotNos.
LEMMA SlotNosOfPage ==
    ASSUME NEW pg \in PageType, SlotsFit(pg), NEW n \in Int, Holds(pg, n)
    PROVE  n \in SlotNos
<1>. DEFINE w == RecLen + SlotSize
<1>1. Len(pg.slots) \in Nat /\ n \in 0 .. Len(pg.slots) - 1
  BY SlotsTyped
<1>2. w \in Nat \ {0} /\ DataSize \in Nat
  BY SizesAssumption
<1>3. w * Len(pg.slots) <= DataSize
  BY DEF SlotsFit
<1>. HIDE DEF w
<1>4. ASSUME NEW a \in Nat, NEW b \in Nat \ {0}, NEW c \in Nat, b * a <= c
      PROVE  a <= c \div b
  <2>1. c \div b \in Int /\ c < b * (c \div b + 1)
    BY <1>4
  <2>2. ASSUME ~(a <= c \div b) PROVE FALSE
    <3>1. c \div b + 1 <= a
      BY <2>1, <2>2
    <3>2. \A x, y \in Int : x <= y => b * x <= b * y
      OBVIOUS
    <3>3. b * (c \div b + 1) <= b * a
      BY <2>1, <3>1, <3>2
    <3>4. b * (c \div b + 1) \in Int /\ b * a \in Int
      BY <2>1
    <3>. QED BY <1>4, <2>1, <3>3, <3>4
  <2>. QED BY <2>2
<1>5. Len(pg.slots) <= DataSize \div w
  BY <1>1, <1>2, <1>3, <1>4
<1>6. DataSize \div w \in Int
  BY <1>2
<1>. QED BY <1>1, <1>5, <1>6 DEF SlotNos, w

-----------------------------------------------------------------------------
(* The chain.                                                              *)

\* a[k]: the page a walk from p has reached with step k.
Reaches(p, a) ==
    a = [k \in 1 .. MaxPageNo |->
            IF k = 1 THEN p
            ELSE IF a[k - 1] \notin DOMAIN pages THEN NoPage
            ELSE pages[a[k - 1]].next]

Reached(p) == CHOOSE a : Reaches(p, a)

LEMMA PathIsReached ==
    ASSUME NEW p
    PROVE  PathFrom(p) = [k \in {j \in 1 .. MaxPageNo : Reached(p)[j] # NoPage} |-> Reached(p)[k]]
  BY DEF PathFrom, Reached, Reaches

\* The pages of the chain are numbered in its order.
LEMMA PathOfChain ==
    ASSUME FileInv, NEW p \in DOMAIN pages
    PROVE  PathFrom(p) = [k \in 1 .. header.lastPage - p + 1 |-> p + k - 1]
<1>. DEFINE last == header.lastPage
<1>. DEFINE g == [k \in 1 .. MaxPageNo |-> IF p + k - 1 <= last THEN p + k - 1 ELSE NoPage]
<1>1. last \in Nat /\ p \in Nat /\ 2 <= p /\ p <= last /\ last <= MaxPageNo
      /\ DOMAIN pages = 2 .. last /\ MaxPageNo \in Nat
      /\ \A q \in 2 .. last : pages[q].next = IF q = last THEN NoPage ELSE q + 1
  BY MaxPageNoAssumption DEF FileInv, HeaderType, DataPages
<1>. HIDE DEF last
<1>2. ASSUME NEW k \in 1 .. MaxPageNo
      PROVE  g[k] = IF k = 1 THEN p
                    ELSE IF g[k - 1] \notin DOMAIN pages THEN NoPage
                    ELSE pages[g[k - 1]].next
  <2>1. CASE k = 1
    BY <1>1, <2>1
  <2>2. CASE k # 1
    <3>1. k - 1 \in 1 .. MaxPageNo /\ g[k - 1] = IF p + k - 2 <= last THEN p + k - 2 ELSE NoPage
      BY <1>1, <2>2
    <3>2. CASE p + k - 2 <= last
      <4>1. g[k - 1] \in 2 .. last /\ g[k - 1] = p + k - 2
        BY <1>1, <2>2, <3>1, <3>2
      <4>2. pages[g[k - 1]].next = IF p + k - 2 = last THEN NoPage ELSE p + k - 1
        <5>1. p + k - 2 \in 2 .. last /\ (p + k - 2) + 1 = p + k - 1
          BY <1>1, <2>2, <3>2
        <5>2. pages[p + k - 2].next = IF p + k - 2 = last THEN NoPage ELSE (p + k - 2) + 1
          BY <1>1, <5>1
        <5>. QED BY <4>1, <5>1, <5>2
      <4>. QED BY <1>1, <2>2, <3>2, <4>1, <4>2
    <3>3. CASE ~(p + k - 2 <= last)
      BY <1>1, <2>2, <3>1, <3>3 DEF NoPage
    <3>. QED BY <3>2, <3>3
  <2>. QED BY <2>1, <2>2
<1>3. Reaches(p, g)
  <2>1. g = [k \in 1 .. MaxPageNo |-> g[k]]
    OBVIOUS
  <2>. HIDE DEF g
  <2>. QED BY <1>2, <2>1 DEF Reaches
<1>. DEFINE a == Reached(p)
<1>4. Reaches(p, a)
  BY <1>3 DEF Reached
<1>. HIDE DEF a, g
<1>5. \A k \in 1 .. MaxPageNo : a[k] = IF k = 1 THEN p
                    ELSE IF a[k - 1] \notin DOMAIN pages THEN NoPage
                    ELSE pages[a[k - 1]].next
  BY <1>4 DEF Reaches
\* The first step they differ at is none.
<1>6. \A k \in 1 .. MaxPageNo : a[k] = g[k]
  <2>. DEFINE T == {k \in 1 .. MaxPageNo : a[k] # g[k]}
  <2>. SUFFICES ASSUME T # {} PROVE FALSE
    OBVIOUS
  <2>1. PICK k \in T : \A j \in T : k <= j
    <3>1. T \subseteq Nat
      OBVIOUS
    <3>. HIDE DEF T
    <3>. QED BY <3>1, Smallest
  <2>2. k # 1 => k - 1 \in 1 .. MaxPageNo /\ ~(k <= k - 1)
    BY <1>1
  <2>3. k # 1 => a[k - 1] = g[k - 1]
    BY <2>1, <2>2
  <2>. QED BY <1>2, <1>5, <2>1, <2>3
<1>7. {j \in 1 .. MaxPageNo : a[j] # NoPage} = 1 .. last - p + 1
  <2>1. \A j \in 1 .. MaxPageNo : a[j] # NoPage <=> p + j - 1 <= last
    BY <1>1, <1>6 DEF g, NoPage
  <2>2. \A j \in Int : j \in 1 .. MaxPageNo /\ p + j - 1 <= last <=> j \in 1 .. last - p + 1
    BY <1>1
  <2>3. \A j \in 1 .. last - p + 1 : j \in Int
    OBVIOUS
  <2>. QED BY <2>1, <2>2, <2>3
<1>8. ASSUME NEW j \in 1 .. last - p + 1 PROVE a[j] = p + j - 1
  <2>1. j \in 1 .. MaxPageNo /\ p + j - 1 <= last
    BY <1>1
  <2>. QED BY <1>6, <2>1 DEF g
<1>9. PathFrom(p) = [k \in 1 .. last - p + 1 |-> a[k]]
  BY <1>7, PathIsReached DEF a
<1>. QED BY <1>8, <1>9 DEF last

LEMMA PathPages ==
    ASSUME FileInv, NEW p \in DOMAIN pages
    PROVE  /\ DOMAIN PathFrom(p) = 1 .. header.lastPage - p + 1
           /\ Len(PathFrom(p)) = header.lastPage - p + 1 /\ Len(PathFrom(p)) \in Nat \ {0}
           /\ PathFrom(p)[Len(PathFrom(p))] = header.lastPage
           /\ PathFrom(p)[1] = p
           /\ \A k \in DOMAIN PathFrom(p) : PathFrom(p)[k] = p + k - 1
                                            /\ PathFrom(p)[k] \in DOMAIN pages
<1>. DEFINE n == header.lastPage - p + 1
<1>1. n \in Nat \ {0} /\ p \in Nat /\ header.lastPage \in Nat /\ DOMAIN pages = 2 .. header.lastPage
      /\ p \in 2 .. header.lastPage
  BY DEF FileInv, HeaderType, DataPages
<1>. DEFINE path == PathFrom(p)
<1>2. path = [k \in 1 .. n |-> p + k - 1]
  BY PathOfChain
<1>3. path \in Seq(Int) /\ Len(path) = n
  BY <1>1, <1>2
<1>4. \A k \in 1 .. n : p + k - 1 \in 2 .. header.lastPage
  BY <1>1
<1>5. DOMAIN path = 1 .. n /\ n \in 1 .. n /\ 1 \in 1 .. n /\ \A k \in 1 .. n : path[k] = p + k - 1
  BY <1>1, <1>2
<1>. HIDE DEF path
<1>6. p + n - 1 = header.lastPage /\ p + 1 - 1 = p
  BY <1>1
<1>7. path[n] = p + n - 1 /\ path[1] = p + 1 - 1
  BY <1>5
<1>8. /\ DOMAIN path = 1 .. n
      /\ Len(path) = n /\ Len(path) \in Nat \ {0}
      /\ path[Len(path)] = header.lastPage
      /\ path[1] = p
      /\ \A k \in DOMAIN path : path[k] = p + k - 1 /\ path[k] \in DOMAIN pages
  BY <1>1, <1>3, <1>4, <1>5, <1>6, <1>7
<1>. QED BY <1>8 DEF path

-----------------------------------------------------------------------------
(* The objects and their pins.                                             *)

\* The pages object h has pinned.
PagesOf(h) ==
    IF handle[h].open THEN {HdrPageNo} \cup ({handle[h].curPage} \ {Null}) ELSE {}

LEMMA PinningIsOf ==
    ASSUME NEW p \in PageNos
    PROVE  Pinning(p) = {h \in Handles : p \in PagesOf(h)}
  BY DEF Pinning, Open, PagesOf, PageNos, Null

\* From pool b to pool c one pin is taken from the pages of A and one is put on
\* the pages of B.
Repinned(b, c, A, B) ==
    /\ c \in PoolType
    /\ \A p \in PageNos :
        c.pins[p] = b.pins[p] - (IF p \in A THEN 1 ELSE 0) + (IF p \in B THEN 1 ELSE 0)

\* What other objects than h may see of a step of h: nothing of theirs but
\* where a scan was, or what it owes.
OthersStay(h) ==
    \A k \in Handles : k # h =>
        /\ handle'[k].open = handle[k].open
        /\ handle'[k].curPage = handle[k].curPage /\ handle'[k].curPageNo = handle[k].curPageNo
        /\ handle'[k].curDirty = handle[k].curDirty /\ handle'[k].hdrDirty = handle[k].hdrDirty
        /\ handle'[k].marked.pageNo = handle[k].marked.pageNo

LEMMA PinsFollow ==
    ASSUME PoolInv, HandleInv, NEW h \in Handles, OthersStay(h),
           Repinned(pool, pool', PagesOf(h), PagesOf(h)')
    PROVE  PinsAreHandles'
<1>. SUFFICES ASSUME NEW p \in PageNos
              PROVE  pool'.pins[p] = Cardinality(Pinning(p)')
  BY DEF PinsAreHandles
<1>1. pool.pins[p] = Cardinality(Pinning(p)) /\ pool.pins[p] \in Nat
  BY DEF PoolInv, PinsAreHandles, PoolType
<1>2. Pinning(p) = {k \in Handles : p \in PagesOf(k)}
  BY PinningIsOf
<1>3. Pinning(p)' = {k \in Handles : p \in PagesOf(k)'}
  <2>1. Handles' = Handles
    BY DEF Handles
  <2>. QED BY DEF Pinning, Open, PagesOf, PageNos, Null
<1>4. \A k \in Handles : k # h => PagesOf(k)' = PagesOf(k)
  BY DEF OthersStay, PagesOf
<1>5. IsFiniteSet(Pinning(p)) /\ Cardinality(Pinning(p)) \in Nat
  <2>1. IsFiniteSet(Pinning(p))
    BY <1>2, HandlesAssumption, FS_Subset
  <2>. QED BY <2>1, FS_CardinalityType
<1>6. CASE p \in PagesOf(h) /\ p \notin PagesOf(h)'
  <2>1. Pinning(p)' = Pinning(p) \ {h} /\ h \in Pinning(p)
    BY <1>2, <1>3, <1>4, <1>6
  <2>2. Cardinality(Pinning(p) \ {h}) = Cardinality(Pinning(p)) - 1
    BY <1>5, <2>1, FS_RemoveElement
  <2>. QED BY <1>1, <1>6, <2>1, <2>2 DEF Repinned
<1>7. CASE p \notin PagesOf(h) /\ p \in PagesOf(h)'
  <2>1. Pinning(p)' = Pinning(p) \cup {h} /\ h \notin Pinning(p)
    BY <1>2, <1>3, <1>4, <1>7
  <2>2. Cardinality(Pinning(p) \cup {h}) = Cardinality(Pinning(p)) + 1
    BY <1>5, <2>1, FS_AddElement
  <2>. QED BY <1>1, <1>7, <2>1, <2>2 DEF Repinned
<1>8. CASE p \in PagesOf(h) <=> p \in PagesOf(h)'
  <2>1. Pinning(p)' = Pinning(p)
    BY <1>2, <1>3, <1>4, <1>8
  <2>. QED BY <1>1, <1>8, <2>1 DEF Repinned
<1>. QED BY <1>6, <1>7, <1>8

\* What a page is pinned by can be given back.
LEMMA HeldIsPinned ==
    ASSUME PoolInv, NEW h \in Handles, NEW p \in PageNos, p \in PagesOf(h)
    PROVE  pool.pins[p] \in Nat /\ pool.pins[p] > 0
<1>1. h \in Pinning(p) /\ IsFiniteSet(Pinning(p))
  BY PinningIsOf, HandlesAssumption, FS_Subset
<1>2. Cardinality(Pinning(p)) # 0 /\ Cardinality(Pinning(p)) \in Nat
  BY <1>1, FS_EmptySet, FS_CardinalityType
<1>. QED BY <1>2 DEF PoolInv, PinsAreHandles

\* A step of one object keeps the invariant if the object says so of its own
\* place, pins and changes.
LEMMA ObjectStep ==
    ASSUME HeapInv, NEW h \in Handles, OthersStay(h), FileInv',
           handle' \in [Handles -> HandleType], todo' \in [Scanners -> SUBSET Records],
           header'.lastPage = header.lastPage
                \/ (header'.lastPage > header.lastPage /\ handle[h].open /\ h \in Inserters),
           PlaceSound(h)',
           h \in Inserters /\ handle'[h].open => handle[h].open \/ Open \cap Inserters = {},
           Repinned(pool, pool', PagesOf(h), PagesOf(h)'),
           \A p \in pool'.unsaved : Saves(h, p)' \/ (p \in pool.unsaved /\ ~Saves(h, p))
    PROVE  HeapInv'
<1>1. header.lastPage \in Nat /\ header'.lastPage \in Nat
  BY DEF HeapInv, FileInv, HeaderType, DataPages
<1>2. ASSUME NEW k \in Handles PROVE PlaceSound(k)'
  <2>. SUFFICES ASSUME k # h PROVE PlaceSound(k)'
    OBVIOUS
  <2>1. PlaceSound(k)
    BY DEF HeapInv, HandleInv
  <2>2. 2 .. header.lastPage \subseteq 2 .. header'.lastPage
    BY <1>1
  <2>3. k \in Inserters /\ handle[k].open => header'.lastPage = header.lastPage
    BY <1>1 DEF HeapInv, HandleInv
  <2>. QED BY <2>1, <2>2, <2>3 DEF PlaceSound, OthersStay
<1>3. ASSUME NEW k \in Inserters, NEW i \in Inserters, handle'[k].open, handle'[i].open
      PROVE  k = i
  <2>1. \A j \in Inserters : j \in Handles
    BY DEF Handles
  <2>2. \A j \in Inserters : handle'[j].open => j = h \/ handle[j].open
    BY <2>1 DEF OthersStay
  <2>3. CASE handle[h].open
    BY <1>3, <2>1, <2>2, <2>3 DEF HeapInv, HandleInv
  <2>4. CASE ~handle[h].open
    BY <1>3, <2>1, <2>2, <2>4 DEF HeapInv, HandleInv, Open
  <2>. QED BY <2>3, <2>4
<1>4. ASSUME NEW p \in pool'.unsaved PROVE \E k \in Handles : Saves(k, p)'
  <2>1. CASE Saves(h, p)'
    BY <2>1
  <2>2. CASE p \in pool.unsaved /\ ~Saves(h, p)
    <3>1. PICK k \in Handles : Saves(k, p)
      BY <2>2 DEF HeapInv, PoolInv
    <3>2. Saves(k, p)'
      BY <2>2, <3>1 DEF Saves, CloseDirty, OthersStay
    <3>. QED BY <3>2
  <2>. QED BY <2>1, <2>2
<1>5. PinsAreHandles'
  BY PinsFollow DEF HeapInv
<1>6. HandleInv'
  BY <1>2, <1>3 DEF HandleInv
<1>7. PoolInv'
  BY <1>4, <1>5 DEF PoolInv, Repinned
<1>. QED BY <1>6, <1>7 DEF HeapInv

LEMMA PinEffect ==
    ASSUME NEW b \in PoolType, NEW p \in PageNos
    PROVE  /\ pin(b, p) \in PoolType /\ pin(b, p).unsaved = b.unsaved
           /\ pin(b, p).pins[p] = b.pins[p] + 1
           /\ \A q \in PageNos : q # p => pin(b, p).pins[q] = b.pins[q]
  BY DEF PoolType, pin

LEMMA UnPinEffect ==
    ASSUME NEW b \in PoolType, NEW p \in PageNos, b.pins[p] > 0, NEW dirty \in BOOLEAN
    PROVE  /\ unPin(b, p, dirty) \in PoolType
           /\ unPin(b, p, dirty).unsaved = IF dirty THEN b.unsaved \ {p} ELSE b.unsaved
           /\ unPin(b, p, dirty).pins[p] = b.pins[p] - 1
           /\ \A q \in PageNos : q # p => unPin(b, p, dirty).pins[q] = b.pins[q]
<1>. DEFINE less == [b.pins EXCEPT ![p] = IF @ = 0 THEN 0 ELSE @ - 1]
<1>. DEFINE left == IF dirty THEN b.unsaved \ {p} ELSE b.unsaved
<1>1. b.pins \in [PageNos -> Nat] /\ b.unsaved \in SUBSET PageNos
  BY DEF PoolType
<1>2. less \in [PageNos -> Nat] /\ less[p] = b.pins[p] - 1
      /\ \A q \in PageNos : q # p => less[q] = b.pins[q]
  BY <1>1
<1>3. unPin(b, p, dirty) = [b EXCEPT !.pins = less, !.unsaved = left]
  BY DEF unPin
<1>4. left \in SUBSET PageNos
  BY <1>1
<1>. HIDE DEF less, left
<1>5. /\ unPin(b, p, dirty) \in PoolType
      /\ unPin(b, p, dirty).unsaved = left /\ unPin(b, p, dirty).pins = less
  BY <1>2, <1>3, <1>4 DEF PoolType
<1>. QED BY <1>2, <1>5 DEF left

LEMMA TouchEffect ==
    ASSUME NEW b \in PoolType, NEW P \in SUBSET PageNos
    PROVE  touch(b, P) \in PoolType /\ touch(b, P).pins = b.pins
           /\ touch(b, P).unsaved = b.unsaved \cup P
  BY DEF PoolType, touch

\* An object that moves gives up one page for another.
LEMMA MovedEffect ==
    ASSUME NEW b \in PoolType, NEW o \in HandleType, o.curPage \in PageNos,
           b.pins[o.curPage] > 0, NEW p \in PageNos
    PROVE  /\ Repinned(b, Moved(b, o, p), {o.curPage}, {p})
           /\ Moved(b, o, p).unsaved = IF p # o.curPage /\ o.curDirty
                                       THEN b.unsaved \ {o.curPage} ELSE b.unsaved
<1>1. CASE p = o.curPage
  BY <1>1 DEF Moved, Repinned, PoolType
<1>2. CASE p # o.curPage
  <2>. DEFINE c == unPin(b, o.curPage, o.curDirty)
  <2>1. o.curDirty \in BOOLEAN
    BY DEF HandleType
  <2>2. /\ c \in PoolType
        /\ c.unsaved = IF o.curDirty THEN b.unsaved \ {o.curPage} ELSE b.unsaved
        /\ c.pins[o.curPage] = b.pins[o.curPage] - 1
        /\ \A q \in PageNos : q # o.curPage => c.pins[q] = b.pins[q]
    BY <2>1, UnPinEffect
  <2>. HIDE DEF c
  <2>3. /\ pin(c, p) \in PoolType /\ pin(c, p).unsaved = c.unsaved
        /\ pin(c, p).pins[p] = c.pins[p] + 1
        /\ \A q \in PageNos : q # p => pin(c, p).pins[q] = c.pins[q]
    BY <2>2, PinEffect
  <2>4. Moved(b, o, p) = pin(c, p)
    BY <1>2 DEF Moved, c
  <2>5. \A q \in PageNos : b.pins[q] \in Nat
    BY DEF PoolType
  <2>. QED BY <1>2, <2>2, <2>3, <2>4, <2>5 DEF Repinned
<1>. QED BY <1>1, <1>2

\* The type of an object that moves, and its place.
LEMMA MovedToEffect ==
    ASSUME NEW o \in HandleType, NEW p \in Nat, NEW n \in Slot
    PROVE  LET m == MovedTo(o, p, n)
           IN  /\ m \in HandleType /\ m.open = o.open /\ m.curPage = p /\ m.curPageNo = p
               /\ m.curRec = n /\ m.hdrDirty = o.hdrDirty /\ m.marked = o.marked
               /\ m.filter = o.filter /\ m.current = o.current
               /\ m.curDirty = (o.curDirty /\ p = o.curPage)
<1>. DEFINE d == o.curDirty /\ p = o.curPage
<1>. DEFINE m == MovedTo(o, p, n)
<1>1. d \in BOOLEAN
  OBVIOUS
<1>2. m = [o EXCEPT !.curPage = p, !.curPageNo = p, !.curRec = n, !.curDirty = d]
  BY DEF MovedTo
<1>. HIDE DEF m, d
<1>3. /\ m.open = o.open /\ m.curPage = p /\ m.curPageNo = p
      /\ m.curRec = n /\ m.hdrDirty = o.hdrDirty /\ m.marked = o.marked
      /\ m.filter = o.filter /\ m.current = o.current /\ m.curDirty = d
  BY <1>2 DEF HandleType
<1>4. m \in HandleType
  <2>1. p \in Int
    OBVIOUS
  <2>. QED BY <1>1, <1>2, <2>1 DEF HandleType
<1>. QED BY <1>3, <1>4 DEF m, d

MovedOn(o, p, n, c) == [MovedTo(o, p, n) EXCEPT !.current = c]

LEMMA MovedOnEffect ==
    ASSUME NEW o \in HandleType, NEW p \in Nat, NEW n \in Slot, NEW c \in Records \cup {NoRecord}
    PROVE  LET m == MovedOn(o, p, n, c)
           IN  /\ m \in HandleType /\ m.open = o.open /\ m.curPage = p /\ m.curPageNo = p
               /\ m.curRec = n /\ m.hdrDirty = o.hdrDirty /\ m.marked = o.marked
               /\ m.filter = o.filter /\ m.current = c
               /\ m.curDirty = (o.curDirty /\ p = o.curPage)
<1>. DEFINE w == MovedTo(o, p, n)
<1>. DEFINE m == MovedOn(o, p, n, c)
<1>1. /\ w \in HandleType /\ w.open = o.open /\ w.curPage = p /\ w.curPageNo = p
      /\ w.curRec = n /\ w.hdrDirty = o.hdrDirty /\ w.marked = o.marked /\ w.filter = o.filter
      /\ w.curDirty = (o.curDirty /\ p = o.curPage)
  BY MovedToEffect
<1>2. m = [w EXCEPT !.current = c]
  BY DEF MovedOn
<1>. HIDE DEF w, m
<1>3. /\ m \in HandleType /\ m.open = o.open /\ m.curPage = p /\ m.curPageNo = p
      /\ m.curRec = n /\ m.hdrDirty = o.hdrDirty /\ m.marked = o.marked
      /\ m.filter = o.filter /\ m.current = c
      /\ m.curDirty = (o.curDirty /\ p = o.curPage)
  BY <1>1, <1>2 DEF HandleType
<1>. QED BY <1>3 DEF m

ClosedFacts ==
    /\ Closed \in HandleType /\ ~Closed.open /\ Closed.curPage = Null
    /\ Closed.curDirty = FALSE /\ Closed.hdrDirty = FALSE /\ Closed.marked.pageNo = 0
    /\ Closed.current = NoRecord /\ Closed.curRec = NullRID

LEMMA ClosedTyped == ClosedFacts
  BY DEF ClosedFacts, Closed, HandleType, Slot, Null, NullRID

LEMMA PagesAreNos ==
    ASSUME FileInv
    PROVE  /\ DOMAIN pages = 2 .. header.lastPage /\ 2 .. header.lastPage \subseteq PageNos
           /\ header.lastPage \in DOMAIN pages /\ header.firstPage \in DOMAIN pages
           /\ HdrPageNo \in PageNos /\ HdrPageNo \notin DOMAIN pages /\ Null \notin PageNos
           /\ HdrPageNo # Null /\ \A p \in PageNos : p \in Nat
           /\ Null \notin DOMAIN pages
<1>1. header.lastPage \in 2 .. MaxPageNo
  BY DEF FileInv, HeaderType, DataPages
<1>. QED BY <1>1, MaxPageNoAssumption DEF FileInv, HeaderType, DataPages, PageNos, HdrPageNo, Null

-----------------------------------------------------------------------------
(* Opening and closing.                                                    *)

LEMMA OneObject ==
    ASSUME HandleInv, NEW h \in Handles, NEW o \in HandleType,
           handle' = [handle EXCEPT ![h] = o]
    PROVE  /\ handle' \in [Handles -> HandleType] /\ handle'[h] = o
           /\ \A k \in Handles : k # h => handle'[k] = handle[k]
           /\ OthersStay(h)
  BY DEF HandleInv, OthersStay

LEMMA FileKept == FileInv /\ UNCHANGED <<header, pages>> => FileInv'
  BY DEF FileInv

LEMMA OpenStep ==
    ASSUME HeapInv, NEW h \in Handles, ~handle[h].open, NEW p \in DOMAIN pages,
           NEW o \in HandleType, o.open, o.curPage = p, o.curPageNo = p, o.marked.pageNo = 0,
           handle' = [handle EXCEPT ![h] = o],
           pool' = pin(pin(pool, HdrPageNo), p),
           todo' \in [Scanners -> SUBSET Records],
           h \in Inserters => p = header.lastPage /\ Open \cap Inserters = {},
           UNCHANGED <<header, pages>>
    PROVE  HeapInv'
<1>. USE DEF HeapInv
<1>0. /\ DOMAIN pages = 2 .. header.lastPage /\ p \in PageNos /\ HdrPageNo \in PageNos
      /\ p # HdrPageNo /\ p # Null
  BY PagesAreNos
<1>1. /\ handle' \in [Handles -> HandleType] /\ handle'[h] = o /\ OthersStay(h)
  BY OneObject
<1>2. PagesOf(h) = {} /\ PagesOf(h)' = {HdrPageNo, p}
  BY <1>0, <1>1 DEF PagesOf
<1>. DEFINE b == pin(pool, HdrPageNo)
<1>3. /\ pool \in PoolType /\ b \in PoolType /\ b.unsaved = pool.unsaved
      /\ b.pins[HdrPageNo] = pool.pins[HdrPageNo] + 1
      /\ \A q \in PageNos : q # HdrPageNo => b.pins[q] = pool.pins[q]
  BY <1>0, PinEffect DEF PoolInv
<1>. HIDE DEF b
<1>4. /\ pool' \in PoolType /\ pool'.unsaved = pool.unsaved
      /\ pool'.pins[p] = b.pins[p] + 1
      /\ \A q \in PageNos : q # p => pool'.pins[q] = b.pins[q]
  BY <1>0, <1>3, PinEffect DEF b
<1>5. Repinned(pool, pool', PagesOf(h), PagesOf(h)')
  <2>1. \A q \in PageNos : pool.pins[q] \in Nat
    BY <1>3 DEF PoolType
  <2>. QED BY <1>0, <1>2, <1>3, <1>4, <2>1 DEF Repinned
<1>6. PlaceSound(h)'
  BY <1>0, <1>1 DEF PlaceSound
<1>7. \A q \in pool'.unsaved : Saves(h, q)' \/ (q \in pool.unsaved /\ ~Saves(h, q))
  BY <1>4 DEF Saves
<1>8. FileInv'
  BY FileKept
<1>9. /\ header'.lastPage = header.lastPage
            \/ (header'.lastPage > header.lastPage /\ handle[h].open /\ h \in Inserters)
      /\ (h \in Inserters /\ handle'[h].open) => handle[h].open \/ Open \cap Inserters = {}
  <2>1. header' = header
    OBVIOUS
  <2>2. h \in Inserters => Open \cap Inserters = {}
    OBVIOUS
  <2>. QED BY <2>1, <2>2
<1>. HIDE DEF HeapInv
<1>. QED BY <1>1, <1>5, <1>6, <1>7, <1>8, <1>9, ObjectStep

LEMMA HeapFileOpenStep ==
    ASSUME HeapInv, NEW h \in Handles,
           HeapFileOpen(h) \/ InsertFileScanOpen(h)
    PROVE  HeapInv'
<1>. USE DEF HeapInv
<1>1. PICK p \in DOMAIN pages : Constructed(h, p) /\
            (h \in Inserters => p = header.lastPage /\ Open \cap Inserters = {})
  BY PagesAreNos, HandlesAssumption DEF HeapFileOpen, InsertFileScanOpen
<1>. DEFINE o == [Closed EXCEPT !.open = TRUE, !.curPage = p, !.curPageNo = p]
<1>2. /\ o \in HandleType /\ o.open /\ o.curPage = p /\ o.curPageNo = p
      /\ o.marked.pageNo = 0
  <2>1. p \in Nat /\ p \in Int
    BY PagesAreNos
  <2>. QED BY <2>1, ClosedTyped DEF ClosedFacts, HandleType
<1>3. /\ ~handle[h].open /\ handle' = [handle EXCEPT ![h] = o]
      /\ pool' = pin(pin(pool, HdrPageNo), p) /\ UNCHANGED <<header, pages, todo>>
  BY <1>1 DEF Constructed
<1>. HIDE DEF o
<1>4. todo' \in [Scanners -> SUBSET Records]
  BY <1>3 DEF HandleInv
<1>. HIDE DEF HeapInv
<1>. QED BY <1>1, <1>2, <1>3, <1>4, OpenStep

LEMMA HeapFileScanOpenStep ==
    ASSUME HeapInv, NEW s \in Scanners, NEW f \in Filters, HeapFileScanOpen(s, f)
    PROVE  HeapInv'
<1>. USE DEF HeapInv
<1>. DEFINE p == header.firstPage
<1>. DEFINE o == [Closed EXCEPT !.open = TRUE, !.curPage = p, !.curPageNo = p, !.filter = f]
<1>1. p \in DOMAIN pages /\ p \in Nat /\ p \in Int /\ s \in Handles /\ s \notin Inserters
  BY PagesAreNos, HandlesAssumption DEF Handles
<1>2. /\ o \in HandleType /\ o.open /\ o.curPage = p /\ o.curPageNo = p
      /\ o.marked.pageNo = 0
  BY <1>1, ClosedTyped, RecordsAssumption DEF ClosedFacts, HandleType
<1>3. /\ ~handle[s].open /\ handle' = [handle EXCEPT ![s] = o]
      /\ pool' = pin(pin(pool, HdrPageNo), p) /\ UNCHANGED <<header, pages>>
  BY DEF HeapFileScanOpen
<1>. HIDE DEF o, p
<1>4. todo' \in [Scanners -> SUBSET Records]
  BY RecordsAssumption DEF HandleInv, HeapFileScanOpen
<1>. HIDE DEF HeapInv
<1>. QED BY <1>1, <1>2, <1>3, <1>4, OpenStep

\* A destructor gives back the page q, if there is one, and the header page.
GivenBack(b, q, d, e) == unPin(IF q = Null THEN b ELSE unPin(b, q, d), HdrPageNo, e)

LEMMA GivenBackEffect ==
    ASSUME NEW b \in PoolType, NEW q \in PageNos \cup {Null}, NEW d \in BOOLEAN, NEW e \in BOOLEAN,
           Null \notin PageNos, HdrPageNo \in PageNos, q # HdrPageNo,
           b.pins[HdrPageNo] > 0, q # Null => b.pins[q] > 0
    PROVE  /\ Repinned(b, GivenBack(b, q, d, e), {HdrPageNo} \cup ({q} \ {Null}), {})
           /\ \A p \in GivenBack(b, q, d, e).unsaved :
                p \in b.unsaved /\ (d => p # q) /\ (e => p # HdrPageNo)
<1>. DEFINE c == IF q = Null THEN b ELSE unPin(b, q, d)
<1>1. /\ c \in PoolType
      /\ c.unsaved = IF q # Null /\ d THEN b.unsaved \ {q} ELSE b.unsaved
      /\ q # Null => c.pins[q] = b.pins[q] - 1
      /\ \A p \in PageNos : p # q => c.pins[p] = b.pins[p]
  <2>1. CASE q = Null
    BY <2>1
  <2>2. CASE q # Null
    <3>1. q \in PageNos /\ c = unPin(b, q, d) /\ b.pins[q] > 0
      BY <2>2
    <3>2. /\ unPin(b, q, d) \in PoolType
          /\ unPin(b, q, d).unsaved = IF d THEN b.unsaved \ {q} ELSE b.unsaved
          /\ unPin(b, q, d).pins[q] = b.pins[q] - 1
          /\ \A p \in PageNos : p # q => unPin(b, q, d).pins[p] = b.pins[p]
      BY <3>1, UnPinEffect, ZenonT(30)
    <3>. HIDE DEF c
    <3>. QED BY <2>2, <3>1, <3>2
  <2>. QED BY <2>1, <2>2
<1>. DEFINE g == GivenBack(b, q, d, e)
<1>2. g = unPin(c, HdrPageNo, e)
  BY DEF GivenBack
<1>. HIDE DEF c, g
<1>3. c.pins[HdrPageNo] = b.pins[HdrPageNo]
  BY <1>1
<1>4. /\ g \in PoolType
      /\ g.unsaved = IF e THEN c.unsaved \ {HdrPageNo} ELSE c.unsaved
      /\ g.pins[HdrPageNo] = c.pins[HdrPageNo] - 1
      /\ \A p \in PageNos : p # HdrPageNo => g.pins[p] = c.pins[p]
  BY <1>1, <1>2, <1>3, UnPinEffect
<1>5. \A p \in PageNos : b.pins[p] \in Nat
  BY DEF PoolType
<1>6. Repinned(b, g, {HdrPageNo} \cup ({q} \ {Null}), {})
  <2>. SUFFICES ASSUME NEW p \in PageNos
                PROVE  g.pins[p] = b.pins[p] - (IF p \in {HdrPageNo} \cup ({q} \ {Null}) THEN 1 ELSE 0)
                                             + (IF p \in {} THEN 1 ELSE 0)
    BY <1>4 DEF Repinned
  <2>1. CASE p = HdrPageNo
    BY <1>3, <1>4, <1>5, <2>1
  <2>2. CASE p = q
    BY <1>1, <1>4, <1>5, <2>2
  <2>3. CASE p # q /\ p # HdrPageNo
    BY <1>1, <1>4, <1>5, <2>3
  <2>. QED BY <2>1, <2>2, <2>3
<1>7. \A p \in b.unsaved : p # Null
  BY DEF PoolType
<1>. QED BY <1>1, <1>4, <1>6, <1>7 DEF g

LEMMA CloseStep ==
    ASSUME HeapInv, NEW h \in Handles, Close(h)
    PROVE  HeapInv'
<1>. USE DEF HeapInv
<1>1. /\ handle[h].open /\ handle[h] \in HandleType /\ PlaceSound(h)
      /\ CloseDirty(h) \in BOOLEAN /\ handle[h].hdrDirty \in BOOLEAN /\ handle[h].curPage \in Nat
  BY DEF Close, HandleInv, HandleType, CloseDirty
<1>2. /\ handle' = [handle EXCEPT ![h] = Closed]
      /\ pool' = GivenBack(pool, handle[h].curPage, CloseDirty(h), handle[h].hdrDirty)
      /\ UNCHANGED <<header, pages>>
      /\ todo' \in [Scanners -> SUBSET Records]
  BY DEF Close, HandleInv, GivenBack
<1>3. /\ HdrPageNo \in PageNos /\ HdrPageNo # Null /\ Null \notin PageNos
      /\ handle[h].curPage # HdrPageNo /\ handle[h].curPage \in PageNos \cup {Null}
  BY <1>1, PagesAreNos DEF PlaceSound
<1>4. handle' \in [Handles -> HandleType] /\ handle'[h] = Closed /\ OthersStay(h)
  BY <1>2, ClosedTyped, OneObject DEF ClosedFacts
<1>5. PagesOf(h) = {HdrPageNo} \cup ({handle[h].curPage} \ {Null}) /\ PagesOf(h)' = {}
  BY <1>1, <1>4, ClosedTyped DEF PagesOf, ClosedFacts
<1>6. /\ pool \in PoolType /\ pool.pins[HdrPageNo] > 0
      /\ handle[h].curPage # Null => pool.pins[handle[h].curPage] > 0
  BY <1>3, <1>5, HeldIsPinned DEF PoolInv
<1>7. /\ Repinned(pool, pool', PagesOf(h), {})
      /\ \A p \in pool'.unsaved :
            p \in pool.unsaved /\ (CloseDirty(h) => p # handle[h].curPage)
                               /\ (handle[h].hdrDirty => p # HdrPageNo)
  <2>1. PICK q \in PageNos \cup {Null}, d \in BOOLEAN, e \in BOOLEAN :
            q = handle[h].curPage /\ d = CloseDirty(h) /\ e = handle[h].hdrDirty
    BY <1>1, <1>3
  <2>2. pool' = GivenBack(pool, q, d, e) /\ q # HdrPageNo /\ (q # Null => pool.pins[q] > 0)
    BY <1>2, <1>3, <1>6, <2>1
  <2>3. /\ Repinned(pool, pool', {HdrPageNo} \cup ({q} \ {Null}), {})
        /\ \A p \in pool'.unsaved : p \in pool.unsaved /\ (d => p # q) /\ (e => p # HdrPageNo)
    BY <1>3, <1>6, <2>2, GivenBackEffect
  <2>. QED BY <1>5, <2>1, <2>3
<1>8. Repinned(pool, pool', PagesOf(h), PagesOf(h)')
  BY <1>5, <1>7
<1>9. \A p \in pool'.unsaved : Saves(h, p)' \/ (p \in pool.unsaved /\ ~Saves(h, p))
  BY <1>7 DEF Saves
<1>10. PlaceSound(h)'
  BY <1>4, ClosedTyped DEF PlaceSound, ClosedFacts, Null
<1>11. FileInv'
  BY <1>2, FileKept
<1>12. /\ header'.lastPage = header.lastPage
            \/ (header'.lastPage > header.lastPage /\ handle[h].open /\ h \in Inserters)
       /\ (h \in Inserters /\ handle'[h].open) => handle[h].open \/ Open \cap Inserters = {}
  <2>1. header' = header
    BY <1>2
  <2>2. ~handle'[h].open
    BY <1>4, ClosedTyped DEF ClosedFacts
  <2>. QED BY <2>1, <2>2
<1>. HIDE DEF HeapInv
<1>. QED BY <1>2, <1>4, <1>8, <1>9, <1>10, <1>11, <1>12, ObjectStep
-----------------------------------------------------------------------------
(* Scans and reads.                                                        *)

\* An object that is not an insertion moves from its page, or from the page
\* it has just pinned, to page p.
LEMMA MoveStep ==
    ASSUME HeapInv, NEW h \in Handles, h \notin Inserters, handle[h].open,
           NEW o \in HandleType, NEW b, NEW p \in DOMAIN pages, NEW m \in HandleType,
           o.curPage \in DOMAIN pages, o.hdrDirty = handle[h].hdrDirty,
           o.marked = handle[h].marked,
           \/ o.curPage = handle[h].curPage /\ o.curDirty = handle[h].curDirty /\ b = pool
           \/ handle[h].curPage = Null /\ ~o.curDirty /\ b = pin(pool, o.curPage),
           m.open, m.curPage = p, m.curPageNo = p, m.hdrDirty = o.hdrDirty,
           m.marked = o.marked, m.curDirty = (o.curDirty /\ p = o.curPage),
           handle' = [handle EXCEPT ![h] = m], pool' = Moved(b, o, p),
           todo' \in [Scanners -> SUBSET Records], header' = header, pages' = pages
    PROVE  HeapInv'
<1>. USE DEF HeapInv
<1>0. /\ DOMAIN pages = 2 .. header.lastPage
      /\ p \in PageNos /\ o.curPage \in PageNos /\ HdrPageNo \in PageNos
      /\ p # HdrPageNo /\ p # Null /\ o.curPage # HdrPageNo /\ o.curPage # Null
      /\ Null \notin PageNos /\ HdrPageNo # Null
  BY PagesAreNos
<1>1. handle' \in [Handles -> HandleType] /\ handle'[h] = m /\ OthersStay(h)
  BY OneObject
<1>2. PagesOf(h) = {HdrPageNo} \cup ({handle[h].curPage} \ {Null}) /\ PagesOf(h)' = {HdrPageNo, p}
  BY <1>0, <1>1 DEF PagesOf
<1>3. pool \in PoolType /\ \A q \in PageNos : pool.pins[q] \in Nat
  BY DEF PoolInv, PoolType
<1>4. /\ b \in PoolType /\ b.unsaved = pool.unsaved /\ b.pins[o.curPage] > 0
      /\ Repinned(pool, b, PagesOf(h), {HdrPageNo, o.curPage})
  <2>1. CASE o.curPage = handle[h].curPage /\ b = pool
    <3>1. o.curPage \in PagesOf(h) /\ PagesOf(h) = {HdrPageNo, o.curPage}
      BY <1>0, <1>2, <2>1
    <3>2. pool.pins[o.curPage] > 0
      BY <1>0, <3>1, HeldIsPinned
    <3>3. Repinned(pool, pool, PagesOf(h), PagesOf(h))
      BY <1>3 DEF Repinned
    <3>. QED BY <1>3, <2>1, <3>1, <3>2, <3>3
  <2>2. CASE handle[h].curPage = Null /\ b = pin(pool, o.curPage)
    <3>1. PagesOf(h) = {HdrPageNo}
      BY <1>2, <2>2
    <3>2. /\ b \in PoolType /\ b.unsaved = pool.unsaved
          /\ b.pins[o.curPage] = pool.pins[o.curPage] + 1
          /\ \A q \in PageNos : q # o.curPage => b.pins[q] = pool.pins[q]
      BY <1>0, <1>3, <2>2, PinEffect
    <3>. QED BY <1>0, <1>3, <3>1, <3>2 DEF Repinned
  <2>. QED BY <2>1, <2>2
<1>5. /\ Repinned(b, pool', {o.curPage}, {p})
      /\ pool'.unsaved = IF p # o.curPage /\ o.curDirty THEN b.unsaved \ {o.curPage} ELSE b.unsaved
  BY <1>0, <1>4, MovedEffect
<1>6. Repinned(pool, pool', PagesOf(h), PagesOf(h)')
  <2>. SUFFICES ASSUME NEW q \in PageNos
                PROVE  pool'.pins[q] = pool.pins[q] - (IF q \in PagesOf(h) THEN 1 ELSE 0)
                                                    + (IF q \in {HdrPageNo, p} THEN 1 ELSE 0)
    BY <1>2, <1>5 DEF Repinned
  <2>1. b.pins[q] = pool.pins[q] - (IF q \in PagesOf(h) THEN 1 ELSE 0)
                                 + (IF q \in {HdrPageNo, o.curPage} THEN 1 ELSE 0)
    BY <1>4 DEF Repinned
  <2>2. pool'.pins[q] = b.pins[q] - (IF q \in {o.curPage} THEN 1 ELSE 0)
                                  + (IF q \in {p} THEN 1 ELSE 0)
    BY <1>5 DEF Repinned
  <2>. QED BY <1>0, <1>3, <2>1, <2>2
<1>7. PlaceSound(h)'
  <2>1. PlaceSound(h)
    BY DEF HandleInv
  <2>. QED BY <1>0, <1>1, <2>1 DEF PlaceSound
<1>8. \A q \in pool'.unsaved : Saves(h, q)' \/ (q \in pool.unsaved /\ ~Saves(h, q))
  <2>. SUFFICES ASSUME NEW q \in pool'.unsaved, Saves(h, q)
                PROVE  Saves(h, q)' /\ q \in pool.unsaved
    BY <1>4, <1>5
  <2>1. q \in pool.unsaved /\ q \in PageNos
    BY <1>3, <1>4, <1>5 DEF PoolType
  <2>2. CASE q = HdrPageNo
    BY <1>1, <2>1, <2>2 DEF Saves
  <2>3. CASE q # HdrPageNo
    <3>1. handle[h].curPage = q /\ handle[h].curDirty
      BY <2>3 DEF Saves, CloseDirty
    <3>2. o.curPage = q /\ o.curDirty
      BY <1>0, <2>1, <3>1
    <3>3. p = q
      BY <1>5, <3>2
    <3>. QED BY <1>1, <2>1, <2>3, <3>2, <3>3 DEF Saves, CloseDirty
  <2>. QED BY <2>2, <2>3
<1>9. FileInv'
  BY FileKept
<1>10. /\ header'.lastPage = header.lastPage
             \/ (header'.lastPage > header.lastPage /\ handle[h].open /\ h \in Inserters)
       /\ (h \in Inserters /\ handle'[h].open) => handle[h].open \/ Open \cap Inserters = {}
  OBVIOUS
<1>. HIDE DEF HeapInv
<1>. QED BY <1>1, <1>6, <1>7, <1>8, <1>9, <1>10, ObjectStep

\* An object stays where it is, with what it has to save.
LEMMA StayStep ==
    ASSUME HeapInv, NEW h \in Handles, NEW m \in HandleType,
           m.open = handle[h].open, m.curPage = handle[h].curPage,
           m.curPage # Null => m.curPageNo = handle[h].curPageNo,
           handle[h].hdrDirty => m.hdrDirty, handle[h].curDirty => m.curDirty,
           m.marked.pageNo \in {0, handle[h].marked.pageNo, handle[h].curPage},
           handle' = [handle EXCEPT ![h] = m],
           todo' \in [Scanners -> SUBSET Records], header' = header, pages' = pages, pool' = pool
    PROVE  HeapInv'
<1>. USE DEF HeapInv
<1>1. handle' \in [Handles -> HandleType] /\ handle'[h] = m /\ OthersStay(h)
  BY OneObject
<1>2. PagesOf(h) = PagesOf(h)'
  BY <1>1 DEF PagesOf
<1>3. Repinned(pool, pool', PagesOf(h), PagesOf(h)')
  <2>1. pool \in PoolType /\ \A q \in PageNos : pool.pins[q] \in Nat
    BY DEF PoolInv, PoolType
  <2>. QED BY <1>2, <2>1 DEF Repinned
<1>4. PlaceSound(h)'
  <2>1. PlaceSound(h)
    BY DEF HandleInv
  <2>. QED BY <1>1, <2>1 DEF PlaceSound, Null
<1>5. \A q \in pool'.unsaved : Saves(h, q)' \/ (q \in pool.unsaved /\ ~Saves(h, q))
  BY <1>1 DEF Saves, CloseDirty
<1>6. FileInv'
  BY FileKept
<1>7. /\ header'.lastPage = header.lastPage
            \/ (header'.lastPage > header.lastPage /\ handle[h].open /\ h \in Inserters)
      /\ (h \in Inserters /\ handle'[h].open) => handle[h].open \/ Open \cap Inserters = {}
  BY <1>1
<1>. HIDE DEF HeapInv
<1>. QED BY <1>1, <1>3, <1>4, <1>5, <1>6, <1>7, ObjectStep

LEMMA MarkStep ==
    ASSUME HeapInv, NEW s \in Scanners, markScan(s) \/ markDirty(s)
    PROVE  HeapInv'
<1>1. /\ s \in Handles /\ handle \in [Handles -> HandleType] /\ PlaceSound(s)
      /\ todo \in [Scanners -> SUBSET Records] /\ handle[s].curPage # Null
  BY DEF HeapInv, HandleInv, Handles, markScan, markDirty
<1>2. handle[s].curPageNo = handle[s].curPage /\ handle[s].curPage \in Nat
  BY <1>1 DEF PlaceSound, HandleType
<1>3. CASE markScan(s)
  <2>. DEFINE k == [pageNo |-> handle[s].curPageNo, rec |-> handle[s].curRec, todo |-> todo[s]]
  <2>. DEFINE m == [handle[s] EXCEPT !.marked = k]
  <2>1. k \in [pageNo: Nat, rec: Slot, todo: SUBSET Records] /\ k.pageNo = handle[s].curPage
    BY <1>1, <1>2 DEF HandleType
  <2>2. handle' = [handle EXCEPT ![s] = m] /\ UNCHANGED <<header, pages, pool, todo>>
    BY <1>3 DEF markScan
  <2>. HIDE DEF k
  <2>3. /\ m \in HandleType /\ m.open = handle[s].open /\ m.curPage = handle[s].curPage
        /\ m.curPageNo = handle[s].curPageNo /\ m.hdrDirty = handle[s].hdrDirty
        /\ m.curDirty = handle[s].curDirty /\ m.marked.pageNo = handle[s].curPage
    BY <1>1, <2>1 DEF HandleType
  <2>. HIDE DEF m
  <2>. QED BY <1>1, <2>2, <2>3, StayStep
<1>4. CASE markDirty(s)
  <2>. DEFINE m == [handle[s] EXCEPT !.curDirty = TRUE]
  <2>1. handle' = [handle EXCEPT ![s] = m] /\ UNCHANGED <<header, pages, pool, todo>>
    BY <1>4 DEF markDirty
  <2>2. /\ m \in HandleType /\ m.open = handle[s].open /\ m.curPage = handle[s].curPage
        /\ m.curPageNo = handle[s].curPageNo /\ m.hdrDirty = handle[s].hdrDirty
        /\ m.curDirty /\ m.marked.pageNo = handle[s].marked.pageNo
    BY <1>1 DEF HandleType
  <2>. HIDE DEF m
  <2>. QED BY <1>1, <2>1, <2>2, StayStep
<1>. QED BY <1>3, <1>4

LEMMA ResetStep ==
    ASSUME HeapInv, NEW s \in Scanners, resetScan(s)
    PROVE  HeapInv'
<1>. DEFINE o == handle[s]
<1>. DEFINE p == handle[s].marked.pageNo
<1>. DEFINE n == handle[s].marked.rec
<1>1. /\ s \in Handles /\ s \notin Inserters /\ o \in HandleType /\ PlaceSound(s)
      /\ todo \in [Scanners -> SUBSET Records] /\ FileInv
  BY HandlesAssumption DEF HeapInv, HandleInv, Handles
<1>2. p \in DOMAIN pages /\ p \in Nat /\ n \in Slot /\ o.marked.todo \in SUBSET Records
  BY <1>1, PagesAreNos DEF resetScan, PlaceSound, HandleType
<1>3. o.curPage \in DOMAIN pages /\ o.open
  BY <1>1, PagesAreNos DEF resetScan, PlaceSound
<1>. DEFINE m == MovedOn(o, p, n, NoRecord)
<1>4. /\ m \in HandleType /\ m.open = o.open /\ m.curPage = p /\ m.curPageNo = p
      /\ m.hdrDirty = o.hdrDirty /\ m.marked = o.marked
      /\ m.curDirty = (o.curDirty /\ p = o.curPage)
  BY <1>1, <1>2, MovedOnEffect
<1>5. /\ handle' = [handle EXCEPT ![s] = m] /\ pool' = Moved(pool, o, p)
      /\ todo' \in [Scanners -> SUBSET Records] /\ header' = header /\ pages' = pages
  BY <1>1, <1>2 DEF resetScan, ResetPage, MovedOn
<1>6. /\ o.curPage = handle[s].curPage /\ o.curDirty = handle[s].curDirty
      /\ o.hdrDirty = handle[s].hdrDirty /\ o.marked = handle[s].marked
  OBVIOUS
<1>. HIDE DEF m, p, n, o
<1>. QED BY <1>1, <1>2, <1>3, <1>4, <1>5, <1>6, MoveStep DEF o
LEMMA GetRecordStep ==
    ASSUME HeapInv, NEW h \in Readers, NEW p \in DataPages, NEW n \in SlotNos, getRecord(h, p, n)
    PROVE  HeapInv'
<1>. DEFINE o == handle[h]
<1>. DEFINE m == MovedTo(o, p, n)
<1>1. /\ h \in Handles /\ h \notin Inserters /\ h \notin Scanners /\ o \in HandleType
      /\ todo \in [Scanners -> SUBSET Records] /\ FileInv /\ PlaceSound(h)
  BY HandlesAssumption DEF HeapInv, HandleInv, Handles
<1>2. /\ o.open /\ p \in DOMAIN pages /\ handle' = [handle EXCEPT ![h] = m]
      /\ pool' = Moved(pool, o, p) /\ UNCHANGED <<header, pages, todo>>
  BY DEF getRecord
<1>3. o.curPage \in DOMAIN pages /\ p \in Nat /\ n \in Slot
  BY <1>1, <1>2, PagesAreNos DEF PlaceSound, DataPages, SlotNos, Slot
<1>4. /\ m \in HandleType /\ m.open = o.open /\ m.curPage = p /\ m.curPageNo = p
      /\ m.hdrDirty = o.hdrDirty /\ m.marked = o.marked
      /\ m.curDirty = (o.curDirty /\ p = o.curPage)
  BY <1>1, <1>3, MovedToEffect
<1>5. /\ o.curPage = handle[h].curPage /\ o.curDirty = handle[h].curDirty
      /\ o.hdrDirty = handle[h].hdrDirty /\ o.marked = handle[h].marked
      /\ todo' \in [Scanners -> SUBSET Records] /\ header' = header /\ pages' = pages
  BY <1>1, <1>2
<1>. HIDE DEF m, o
<1>. QED BY <1>1, <1>2, <1>3, <1>4, <1>5, MoveStep DEF o

LEMMA EndScanStep ==
    ASSUME HeapInv, NEW s \in Scanners, endScan(s)
    PROVE  HeapInv'
<1>. DEFINE m == [handle[s] EXCEPT !.curPage = Null, !.curPageNo = 0, !.curDirty = FALSE]
<1>1. /\ s \in Handles /\ s \notin Inserters /\ handle[s] \in HandleType /\ PlaceSound(s)
      /\ todo \in [Scanners -> SUBSET Records] /\ FileInv /\ HandleInv /\ PoolInv
      /\ pool \in PoolType /\ handle[s].curDirty \in BOOLEAN
  BY HandlesAssumption DEF HeapInv, HandleInv, Handles, PoolInv, HandleType
<1>2. /\ handle' = [handle EXCEPT ![s] = m]
      /\ pool' = unPin(pool, handle[s].curPage, handle[s].curDirty)
      /\ handle[s].curPage # Null /\ header' = header /\ pages' = pages /\ todo' = todo
  BY DEF endScan
<1>3. /\ m \in HandleType /\ m.open = handle[s].open /\ m.curPage = Null
      /\ m.hdrDirty = handle[s].hdrDirty /\ ~m.curDirty
      /\ m.marked = handle[s].marked
  <2>. DEFINE d == FALSE
  <2>1. m = [handle[s] EXCEPT !.curPage = Null, !.curPageNo = 0, !.curDirty = d] /\ d \in BOOLEAN
    OBVIOUS
  <2>2. Null \in Nat /\ 0 \in Int
    BY DEF Null
  <2>. HIDE DEF d, m
  <2>3. /\ m \in HandleType /\ m.open = handle[s].open /\ m.curPage = Null
        /\ m.hdrDirty = handle[s].hdrDirty /\ m.curDirty = d
        /\ m.marked = handle[s].marked
    BY <1>1, <2>1, <2>2 DEF HandleType
  <2>. QED BY <2>3 DEF d
<1>. HIDE DEF m
<1>4. handle' \in [Handles -> HandleType] /\ handle'[s] = m /\ OthersStay(s)
  BY <1>1, <1>2, <1>3, OneObject
<1>5. /\ handle[s].open /\ handle[s].curPage \in PageNos /\ handle[s].curPage # HdrPageNo
      /\ HdrPageNo \in PageNos /\ HdrPageNo # Null
  BY <1>1, <1>2, PagesAreNos DEF PlaceSound
<1>6. PagesOf(s) = {HdrPageNo, handle[s].curPage} /\ PagesOf(s)' = {HdrPageNo}
  BY <1>2, <1>3, <1>4, <1>5 DEF PagesOf
<1>7. pool.pins[handle[s].curPage] > 0
  BY <1>1, <1>5, <1>6, HeldIsPinned
<1>8. /\ pool' \in PoolType
      /\ pool'.unsaved = IF handle[s].curDirty THEN pool.unsaved \ {handle[s].curPage}
                         ELSE pool.unsaved
      /\ pool'.pins[handle[s].curPage] = pool.pins[handle[s].curPage] - 1
      /\ \A q \in PageNos : q # handle[s].curPage => pool'.pins[q] = pool.pins[q]
  <2>1. PICK q \in PageNos, d \in BOOLEAN : q = handle[s].curPage /\ d = handle[s].curDirty
    BY <1>1, <1>5
  <2>2. pool' = unPin(pool, q, d) /\ pool.pins[q] > 0
    BY <1>2, <1>7, <2>1
  <2>3. /\ pool' \in PoolType
        /\ pool'.unsaved = IF d THEN pool.unsaved \ {q} ELSE pool.unsaved
        /\ pool'.pins[q] = pool.pins[q] - 1
        /\ \A r \in PageNos : r # q => pool'.pins[r] = pool.pins[r]
    BY <1>1, <2>2, UnPinEffect
  <2>. QED BY <2>1, <2>3
<1>9. Repinned(pool, pool', PagesOf(s), PagesOf(s)')
  <2>1. \A q \in PageNos : pool.pins[q] \in Nat
    BY <1>1 DEF PoolType
  <2>. QED BY <1>5, <1>6, <1>8, <2>1 DEF Repinned
<1>10. PlaceSound(s)'
  BY <1>1, <1>2, <1>3, <1>4 DEF PlaceSound
<1>11. \A q \in pool'.unsaved : Saves(s, q)' \/ (q \in pool.unsaved /\ ~Saves(s, q))
  BY <1>1, <1>3, <1>4, <1>5, <1>8 DEF Saves, CloseDirty
<1>12. FileInv'
  BY <1>1, <1>2, FileKept
<1>13. /\ header'.lastPage = header.lastPage
             \/ (header'.lastPage > header.lastPage /\ handle[s].open /\ s \in Inserters)
       /\ (s \in Inserters /\ handle'[s].open) => handle[s].open \/ Open \cap Inserters = {}
       /\ todo' \in [Scanners -> SUBSET Records]
  BY <1>1, <1>2
<1>. QED BY <1>1, <1>4, <1>9, <1>10, <1>11, <1>12, <1>13, ObjectStep

\* In the order of a walk, a set of places has a last one.
LEMMA LastOfPlaces ==
    ASSUME NEW L \in Nat, NEW S, S \subseteq (1 .. L) \X SlotNos, S # {}
    PROVE  \E x \in S : \A y \in S : y = x \/ Before(y, x)
<1>1. PICK K \in Int : SlotNos = 0 .. K
  BY SizesAssumption DEF SlotNos
<1>2. \A x \in S : /\ x[1] \in 1 .. L /\ x[2] \in 0 .. K /\ x = <<x[1], x[2]>>
                   /\ L - x[1] \in Nat /\ K - x[2] \in Nat
  <2>. SUFFICES ASSUME NEW x \in S
                PROVE  /\ x[1] \in 1 .. L /\ x[2] \in 0 .. K /\ x = <<x[1], x[2]>>
                       /\ L - x[1] \in Nat /\ K - x[2] \in Nat
    OBVIOUS
  <2>1. x \in (1 .. L) \X (0 .. K)
    BY <1>1
  <2>2. x[1] \in 1 .. L /\ x[2] \in 0 .. K /\ x = <<x[1], x[2]>>
    BY <2>1
  <2>. QED BY <1>1, <2>2
<1>. DEFINE T == {L - x[1] : x \in S}
<1>3. T \subseteq Nat /\ T # {}
  BY <1>2
<1>. HIDE DEF T
<1>4. PICK t \in T : \A u \in T : t <= u
  BY <1>3, Smallest
<1>5. PICK v \in S : t = L - v[1]
  BY <1>4 DEF T
<1>6. \A y \in S : y[1] <= v[1]
  <2>. SUFFICES ASSUME NEW y \in S PROVE y[1] <= v[1]
    OBVIOUS
  <2>1. t <= L - y[1]
    BY <1>4 DEF T
  <2>. QED BY <1>2, <1>5, <2>1
<1>. DEFINE U == {K - x[2] : x \in {z \in S : z[1] = v[1]}}
<1>7. U \subseteq Nat /\ U # {}
  BY <1>2
<1>. HIDE DEF U
<1>8. PICK m \in U : \A u \in U : m <= u
  BY <1>7, Smallest
<1>9. PICK x \in S : x[1] = v[1] /\ m = K - x[2]
  BY <1>8 DEF U
<1>10. ASSUME NEW y \in S PROVE y = x \/ Before(y, x)
  <2>1. CASE y[1] # v[1]
    <3>1. y[1] \in Int /\ v[1] \in Int
      BY <1>2
    <3>2. y[1] < x[1]
      BY <1>6, <1>9, <2>1, <3>1
    <3>. QED BY <3>2 DEF Before
  <2>2. CASE y[1] = v[1]
    <3>1. K - y[2] \in U
      BY <2>2 DEF U
    <3>2. K - x[2] <= K - y[2] /\ x[2] \in Int /\ y[2] \in Int
      BY <1>2, <1>8, <1>9, <3>1
    <3>3. y[2] < x[2] \/ y[2] = x[2]
      BY <3>2
    <3>. QED BY <1>2, <1>9, <2>2, <3>3 DEF Before
  <2>. QED BY <2>1, <2>2
<1>. QED BY <1>10
\* What a walk has before it is on the chain, and the last of it is defined.
LEMMA AheadEffect ==
    ASSUME FileInv, NEW p \in DOMAIN pages, NEW n
    PROVE  LET path == PathFrom(p)
               past == Ahead(path, n)
           IN  /\ \A x \in past : /\ path[x[1]] \in DOMAIN pages /\ x[2] \in Nat
                                  /\ RecordAt(path, x) \in Records
               /\ past # {} => (CHOOSE x \in past : \A y \in past : (y = x \/ Before(y, x))) \in past
<1>. DEFINE path == PathFrom(p)
<1>. DEFINE past == Ahead(path, n)
<1>1. /\ DOMAIN path = 1 .. Len(path) /\ Len(path) \in Nat
      /\ \A k \in DOMAIN path : path[k] \in DOMAIN pages
  BY PathPages
<1>2. pages \in [2 .. header.lastPage -> PageType] /\ SlotNos \subseteq Nat
  BY DEF FileInv, SlotNos
<1>. HIDE DEF path
<1>3. past \subseteq (1 .. Len(path)) \X SlotNos
  BY <1>1 DEF Ahead
<1>4. ASSUME NEW x \in past
      PROVE  path[x[1]] \in DOMAIN pages /\ x[2] \in Nat /\ RecordAt(path, x) \in Records
  <2>1. x[1] \in DOMAIN path /\ x[2] \in SlotNos /\ Holds(pages[path[x[1]]], x[2])
    BY DEF Ahead
  <2>2. pages[path[x[1]]] \in PageType /\ x[2] \in Nat /\ path[x[1]] \in DOMAIN pages
    BY <1>1, <1>2, <2>1
  <2>. DEFINE pg == pages[path[x[1]]]
  <2>. DEFINE m == x[2]
  <2>3. pg \in PageType /\ m \in Int /\ Holds(pg, m)
    BY <2>1, <2>2
  <2>. HIDE DEF pg, m
  <2>4. pg.slots[m + 1] \in Records
    BY <2>3, SlotsTyped
  <2>. QED BY <2>2, <2>4 DEF RecordAt, pg, m
<1>. HIDE DEF past
<1>5. ASSUME past # {}
      PROVE  (CHOOSE x \in past : \A y \in past : (y = x \/ Before(y, x))) \in past
  <2>1. \E x \in past : \A y \in past : y = x \/ Before(y, x)
    BY <1>1, <1>3, <1>5, LastOfPlaces
  <2>. QED BY <2>1
<1>. QED BY <1>4, <1>5 DEF path, past

LEMMA WalkStep ==
    ASSUME HeapInv, NEW s \in Scanners, handle[s].open,
           NEW o \in HandleType, NEW b,
           o.curPage \in DOMAIN pages, o.hdrDirty = handle[s].hdrDirty,
           o.marked = handle[s].marked, o.open,
           \/ o.curPage = handle[s].curPage /\ o.curDirty = handle[s].curDirty /\ b = pool
           \/ handle[s].curPage = Null /\ ~o.curDirty /\ b = pin(pool, o.curPage),
           Walk(s, b, o), header' = header, pages' = pages
    PROVE  HeapInv'
<1>. DEFINE path == PathFrom(o.curPage)
<1>. DEFINE past == Ahead(path, o.curRec)
<1>1. /\ s \in Handles /\ s \notin Inserters /\ FileInv /\ todo \in [Scanners -> SUBSET Records]
      /\ \A q \in DOMAIN pages : q \in Nat
  BY HandlesAssumption, PagesAreNos DEF HeapInv, HandleInv, Handles
<1>2. /\ path[Len(path)] = header.lastPage /\ header.lastPage \in DOMAIN pages
  BY <1>1, PathPages, PagesAreNos
<1>3. /\ \A x \in past : /\ path[x[1]] \in DOMAIN pages /\ x[2] \in Nat
                         /\ RecordAt(path, x) \in Records
      /\ past # {} => (CHOOSE x \in past : \A y \in past : (y = x \/ Before(y, x))) \in past
  BY <1>1, AheadEffect
<1>4. PICK p \in DOMAIN pages, n \in Slot, c \in Records \cup {NoRecord} :
        /\ handle' = [handle EXCEPT ![s] = [MovedTo(o, p, n) EXCEPT !.current = c]]
        /\ pool' = Moved(b, o, p)
        /\ todo' \in [Scanners -> SUBSET Records]
  <2>1. ASSUME NEW x \in past,
               handle' = [handle EXCEPT ![s] =
                    [MovedTo(o, path[x[1]], x[2]) EXCEPT !.current = RecordAt(path, x)]],
               pool' = Moved(b, o, path[x[1]]),
               todo' = [todo EXCEPT ![s] = @ \ {RecordAt(path, x)}]
        PROVE  \E p \in DOMAIN pages, n \in Slot, c \in Records \cup {NoRecord} :
                 /\ handle' = [handle EXCEPT ![s] = [MovedTo(o, p, n) EXCEPT !.current = c]]
                 /\ pool' = Moved(b, o, p)
                 /\ todo' \in [Scanners -> SUBSET Records]
    <3>1. path[x[1]] \in DOMAIN pages /\ x[2] \in Slot /\ RecordAt(path, x) \in Records \cup {NoRecord}
      BY <1>3 DEF Slot
    <3>2. todo' \in [Scanners -> SUBSET Records]
      BY <1>1, <2>1
    <3>. QED BY <2>1, <3>1, <3>2
  <2>2. ASSUME NEW rec, rec = o.curRec \/ (past # {} /\ rec =
                    (CHOOSE x \in past : \A y \in past : (y = x \/ Before(y, x)))[2]),
               handle' = [handle EXCEPT ![s] =
                    [MovedTo(o, path[Len(path)], rec) EXCEPT !.current = NoRecord]],
               pool' = Moved(b, o, path[Len(path)]), todo' = todo
        PROVE  \E p \in DOMAIN pages, n \in Slot, c \in Records \cup {NoRecord} :
                 /\ handle' = [handle EXCEPT ![s] = [MovedTo(o, p, n) EXCEPT !.current = c]]
                 /\ pool' = Moved(b, o, p)
                 /\ todo' \in [Scanners -> SUBSET Records]
    <3>1. rec \in Slot
      BY <1>3, <2>2 DEF Slot, HandleType
    <3>2. path[Len(path)] \in DOMAIN pages
      BY <1>2
    <3>. QED BY <1>1, <2>2, <3>1, <3>2
  <2>3. CASE \E x \in past : 
                /\ handle' = [handle EXCEPT ![s] =
                    [MovedTo(o, path[x[1]], x[2]) EXCEPT !.current = RecordAt(path, x)]]
                /\ pool' = Moved(b, o, path[x[1]])
                /\ todo' = [todo EXCEPT ![s] = @ \ {RecordAt(path, x)}]
    BY <2>1, <2>3
  <2>4. CASE \E rec : /\ rec = o.curRec \/ (past # {} /\ rec =
                            (CHOOSE x \in past : \A y \in past : (y = x \/ Before(y, x)))[2])
                      /\ handle' = [handle EXCEPT ![s] =
                            [MovedTo(o, path[Len(path)], rec) EXCEPT !.current = NoRecord]]
                      /\ pool' = Moved(b, o, path[Len(path)]) /\ todo' = todo
    BY <2>2, <2>4
  <2>. QED BY <2>3, <2>4 DEF Walk
<1>. DEFINE m == MovedOn(o, p, n, c)
<1>5. /\ m \in HandleType /\ m.open = o.open /\ m.curPage = p /\ m.curPageNo = p
      /\ m.hdrDirty = o.hdrDirty /\ m.marked = o.marked
      /\ m.curDirty = (o.curDirty /\ p = o.curPage)
  <2>1. p \in Nat
    BY <1>1
  <2>2. /\ m \in HandleType /\ m.curPage = p /\ m.curPageNo = p
        /\ m.hdrDirty = o.hdrDirty /\ m.marked = o.marked
    BY <2>1, MovedOnEffect
  <2>3. m.open = o.open
    BY <2>1, MovedOnEffect
  <2>4. m.curDirty = (o.curDirty /\ p = o.curPage)
    BY <2>1, MovedOnEffect
  <2>. HIDE DEF m
  <2>. QED BY <2>2, <2>3, <2>4
<1>6. handle' = [handle EXCEPT ![s] = m] /\ pool' = Moved(b, o, p)
      /\ todo' \in [Scanners -> SUBSET Records]
  BY <1>4 DEF MovedOn
<1>. HIDE DEF m
<1>. QED BY <1>1, <1>5, <1>6, MoveStep

LEMMA ScanNextStep ==
    ASSUME HeapInv, NEW s \in Scanners, scanNext(s)
    PROVE  HeapInv'
<1>1. /\ handle[s] \in HandleType /\ PlaceSound(s) /\ FileInv
  BY DEF HeapInv, HandleInv, Handles
<1>2. PICK o \in HandleType : o = handle[s]
  BY <1>1
<1>3. /\ o.open /\ Walk(s, pool, o) /\ header' = header /\ pages' = pages
      /\ o.curPage \in DOMAIN pages
  BY <1>1, <1>2, PagesAreNos DEF scanNext, PlaceSound
<1>4. /\ o.hdrDirty = handle[s].hdrDirty /\ o.marked = handle[s].marked /\ handle[s].open
      /\ o.curPage = handle[s].curPage /\ o.curDirty = handle[s].curDirty
  BY <1>2, <1>3
<1>. QED BY <1>3, <1>4, WalkStep

LEMMA ScanAgainStep ==
    ASSUME HeapInv, NEW s \in Scanners, scanAgain(s)
    PROVE  HeapInv'
<1>. DEFINE p == header.firstPage
<1>1. /\ handle[s] \in HandleType /\ PlaceSound(s) /\ FileInv /\ s \in Handles
      /\ todo \in [Scanners -> SUBSET Records] /\ p \in DOMAIN pages /\ p \in Nat /\ p \in Int
      /\ handle[s].open /\ handle[s].curPage = Null /\ header' = header /\ pages' = pages
  BY PagesAreNos DEF HeapInv, HandleInv, Handles, scanAgain
<1>2. ASSUME handle' = [handle EXCEPT ![s].curPageNo = Eof, ![s].current = NoRecord],
             pool' = pool, todo' = todo
      PROVE  HeapInv'
  <2>. DEFINE m == [handle[s] EXCEPT !.curPageNo = Eof, !.current = NoRecord]
  <2>1. handle' = [handle EXCEPT ![s] = m]
    BY <1>1, <1>2 DEF HandleType
  <2>2. /\ m \in HandleType /\ m.open = handle[s].open /\ m.curPage = Null
        /\ m.hdrDirty = handle[s].hdrDirty /\ m.curDirty = handle[s].curDirty
        /\ m.marked = handle[s].marked
    <3>1. Eof \in Int /\ NoRecord \in Records \cup {NoRecord}
      BY DEF Eof
    <3>. QED BY <1>1, <3>1 DEF HandleType
  <2>. HIDE DEF m
  <2>. QED BY <1>1, <1>2, <2>1, <2>2, StayStep
<1>3. ASSUME Walk(s, pin(pool, p), [handle[s] EXCEPT !.curPage = p, !.curPageNo = p,
                                                 !.curDirty = FALSE, !.curRec = NullRID])
      PROVE  HeapInv'
  <2>. DEFINE d == FALSE
  <2>. DEFINE o == [handle[s] EXCEPT !.curPage = p, !.curPageNo = p,
                                     !.curDirty = d, !.curRec = NullRID]
  <2>1. Walk(s, pin(pool, p), o) /\ d \in BOOLEAN
    BY <1>3
  <2>. HIDE DEF d, p
  <2>2. /\ o \in HandleType /\ o.open = handle[s].open /\ o.curPage = p
        /\ o.hdrDirty = handle[s].hdrDirty /\ o.curDirty = d
        /\ o.marked = handle[s].marked
    BY <1>1, <2>1 DEF HandleType, Slot
  <2>. HIDE DEF o
  <2>3. ~d
    BY DEF d
  <2>. QED BY <1>1, <2>1, <2>2, <2>3, WalkStep
<1>. QED BY <1>1, <1>2, <1>3 DEF scanAgain
-----------------------------------------------------------------------------
(* The records of the file.                                                *)

\* There is a record with RID <<x, m>>.
At(x, m) == x \in DOMAIN pages /\ Holds(pages[x], m)

\* What a step does to the records of the file: one more, one less, none.
Gains(p, n, r) ==
    /\ p \in DOMAIN pages' /\ n \in Nat /\ ~At(p, n)
    /\ \A x, m \in Int : At(x, m)' <=> At(x, m) \/ (x = p /\ m = n)
    /\ pages'[p].slots[n + 1] = r
    /\ \A x, m \in Int : At(x, m) => pages'[x].slots[m + 1] = pages[x].slots[m + 1]
    /\ header'.recCnt = header.recCnt + 1

Loses(p, n) ==
    /\ p \in DOMAIN pages /\ n \in Nat /\ At(p, n)
    /\ \A x, m \in Int : At(x, m)' <=> At(x, m) /\ ~(x = p /\ m = n)
    /\ \A x, m \in Int : At(x, m)' => pages'[x].slots[m + 1] = pages[x].slots[m + 1]
    /\ header'.recCnt = header.recCnt - 1

Keeps ==
    /\ \A x, m \in Int : At(x, m)' <=> At(x, m)
    /\ \A x, m \in Int : At(x, m) => pages'[x].slots[m + 1] = pages[x].slots[m + 1]
    /\ header'.recCnt = header.recCnt

\* One page is exchanged for another with the same link.
LEMMA PageExchanged ==
    ASSUME FileInv, NEW p \in DOMAIN pages, NEW new \in PageType, SlotsFit(new),
           new.next = pages[p].next, pages' = [pages EXCEPT ![p] = new],
           NEW c \in Int, header' = [header EXCEPT !.recCnt = c]
    PROVE  /\ FileInv' /\ header'.lastPage = header.lastPage /\ header'.recCnt = c
           /\ DOMAIN pages' = DOMAIN pages /\ pages'[p] = new
           /\ \A x \in DOMAIN pages : x # p => pages'[x] = pages[x]
<1>1. /\ header' \in HeaderType /\ header'.firstPage = header.firstPage
      /\ header'.lastPage = header.lastPage /\ header'.pageCnt = header.pageCnt
      /\ header'.recCnt = c
  BY DEF FileInv, HeaderType
<1>2. /\ pages \in [2 .. header.lastPage -> PageType]
      /\ pages' \in [2 .. header.lastPage -> PageType] /\ pages'[p] = new
      /\ \A x \in DOMAIN pages : x # p => pages'[x] = pages[x]
      /\ DOMAIN pages' = DOMAIN pages /\ DOMAIN pages = 2 .. header.lastPage
  BY DEF FileInv
<1>3. \A x \in 2 .. header.lastPage : pages'[x].next = pages[x].next /\ SlotsFit(pages'[x])
  <2>. TAKE x \in 2 .. header.lastPage
  <2>1. CASE x = p
    BY <1>2, <2>1
  <2>2. CASE x # p
    BY <1>2, <2>2 DEF FileInv
  <2>. QED BY <2>1, <2>2
<1>4. FileInv'
  BY <1>1, <1>2, <1>3 DEF FileInv
<1>. QED BY <1>1, <1>2, <1>4

\* An object with a page writes to it, to the header page or to both, and
\* notes it.
LEMMA WriteStep ==
    ASSUME HeapInv, NEW h \in Handles, NEW P \in SUBSET {handle[h].curPage, HdrPageNo},
           handle[h].open, handle[h].curPage # Null,
           handle' \in [Handles -> HandleType], OthersStay(h),
           handle'[h].open, handle'[h].curPage = handle[h].curPage,
           handle'[h].curPageNo = handle[h].curPageNo,
           handle'[h].marked.pageNo = handle[h].marked.pageNo,
           handle'[h].hdrDirty, handle'[h].curDirty,
           pool' = touch(pool, P), todo' \in [Scanners -> SUBSET Records],
           FileInv', header'.lastPage = header.lastPage
    PROVE  HeapInv'
<1>. USE DEF HeapInv
<1>1. PlaceSound(h) /\ pool \in PoolType
  BY DEF HandleInv, PoolInv
<1>2. handle[h].curPage \in PageNos /\ HdrPageNo \in PageNos
  BY <1>1, PagesAreNos DEF PlaceSound
<1>3. pool' \in PoolType /\ pool'.pins = pool.pins /\ pool'.unsaved = pool.unsaved \cup P
  <2>1. PICK Q \in SUBSET PageNos : Q = P
    BY <1>2
  <2>. QED BY <1>1, <2>1, TouchEffect
<1>4. PagesOf(h)' = PagesOf(h)
  BY DEF PagesOf
<1>5. Repinned(pool, pool', PagesOf(h), PagesOf(h)')
  <2>1. \A q \in PageNos : pool.pins[q] \in Nat
    BY <1>1 DEF PoolType
  <2>. QED BY <1>3, <1>4, <2>1 DEF Repinned
<1>6. PlaceSound(h)'
  BY <1>1 DEF PlaceSound
<1>7. \A q \in pool'.unsaved : Saves(h, q)' \/ (q \in pool.unsaved /\ ~Saves(h, q))
  <2>. TAKE q \in pool'.unsaved
  <2>1. CASE q = HdrPageNo \/ q = handle[h].curPage
    BY <2>1 DEF Saves, CloseDirty
  <2>2. CASE q # HdrPageNo /\ q # handle[h].curPage
    BY <1>3, <2>2 DEF Saves
  <2>. QED BY <2>1, <2>2
<1>8. /\ header'.lastPage = header.lastPage
            \/ (header'.lastPage > header.lastPage /\ handle[h].open /\ h \in Inserters)
      /\ (h \in Inserters /\ handle'[h].open) => handle[h].open \/ Open \cap Inserters = {}
  OBVIOUS
<1>. HIDE DEF HeapInv
<1>. QED BY <1>5, <1>6, <1>7, <1>8, ObjectStep

\* The lengths a page takes a record of.
LEMMA LengthThatFits ==
    ASSUME NEW pg \in PageType, NEW len \in Lengths, Accepts(pg, len)
    PROVE  len = RecLen
<1>1. Len(pg.slots) \in Nat /\ Cardinality(SlotsInUse(pg)) \in Nat
  <2>1. Len(pg.slots) \in Nat /\ SlotsInUse(pg) \subseteq 0 .. Len(pg.slots) - 1
    BY SlotsTyped DEF SlotsInUse
  <2>2. IsFiniteSet(0 .. Len(pg.slots) - 1)
    BY <2>1, FS_Interval
  <2>. QED BY <2>1, <2>2, FS_Subset, FS_CardinalityType
<1>2. /\ RecLen * Cardinality(SlotsInUse(pg)) \in Nat /\ SlotSize * Len(pg.slots) \in Nat
      /\ DataSize \in Nat /\ len \in Nat /\ SlotSize \in Nat
      /\ len = RecLen \/ len + SlotSize > DataSize
  BY <1>1, SizesAssumption, LengthsAssumption
<1>3. \A a, b, c, d \in Nat : a <= b - c - d => a <= b
  OBVIOUS
<1>4. len + SlotSize \in Nat /\ len + SlotSize <= DataSize
  BY <1>2, <1>3 DEF Accepts
<1>. QED BY <1>2, <1>4
\* An object that changes a page and the header notes both.
BothDirty(o) == [o EXCEPT !.hdrDirty = TRUE, !.curDirty = TRUE]

LEMMA BothDirtyEffect ==
    ASSUME NEW o \in HandleType
    PROVE  /\ BothDirty(o) \in HandleType
           /\ BothDirty(o).open = o.open /\ BothDirty(o).curPage = o.curPage
           /\ BothDirty(o).curPageNo = o.curPageNo /\ BothDirty(o).marked = o.marked
           /\ BothDirty(o).hdrDirty = TRUE /\ BothDirty(o).curDirty = TRUE
<1>. DEFINE d == TRUE
<1>1. BothDirty(o) = [o EXCEPT !.hdrDirty = d, !.curDirty = d] /\ d \in BOOLEAN
  BY DEF BothDirty
<1>. HIDE DEF d
<1>2. /\ BothDirty(o) \in HandleType
      /\ BothDirty(o).open = o.open /\ BothDirty(o).curPage = o.curPage
      /\ BothDirty(o).curPageNo = o.curPageNo /\ BothDirty(o).marked = o.marked
      /\ BothDirty(o).hdrDirty = d /\ BothDirty(o).curDirty = d
  BY <1>1 DEF HandleType
<1>. QED BY <1>2 DEF d

LEMMA InsertHereStep ==
    ASSUME HeapInv, NEW h \in Inserters, NEW r \in Records, NEW len \in Lengths,
           handle[h].open, InsertHere(h, r, len), todo' = todo
    PROVE  HeapInv' /\ Gains(handle[h].curPage, FirstEmpty(pages[handle[h].curPage]), r)
<1>1. /\ h \in Handles /\ handle[h] \in HandleType /\ PlaceSound(h) /\ FileInv /\ HandleInv
      /\ h \notin Scanners /\ pages \in [2 .. header.lastPage -> PageType]
      /\ header \in HeaderType /\ todo \in [Scanners -> SUBSET Records]
  BY HandlesAssumption DEF HeapInv, HandleInv, Handles, FileInv
<1>2. PICK p \in DOMAIN pages : p = handle[h].curPage /\ p # Null /\ p \in 2 .. header.lastPage
  BY <1>1, PagesAreNos DEF PlaceSound
<1>. DEFINE pg == pages[p]
<1>. DEFINE n == FirstEmpty(pg)
<1>3. /\ pg \in PageType /\ SlotsFit(pg) /\ Accepts(pg, len)
      /\ pages' = [pages EXCEPT ![p] = PageInsert(pg, r)]
      /\ header' = [header EXCEPT !.recCnt = header.recCnt + 1]
      /\ pool' = touch(pool, {handle[h].curPage, HdrPageNo})
      /\ handle' = [handle EXCEPT ![h] = BothDirty(handle[h])]
  <2>1. handle' = [handle EXCEPT ![h] = BothDirty(handle[h])]
    BY <1>1 DEF InsertHere, BothDirty
  <2>. QED BY <1>1, <1>2, <2>1 DEF InsertHere, FileInv
<1>. HIDE DEF pg
<1>4. PICK new : new = PageInsert(pg, r) /\ Inserted(pg, n, r, new)
  <2>1. len = RecLen
    BY <1>3, LengthThatFits
  <2>2. Accepts(pg, RecLen)
    BY <1>3, <2>1
  <2>. QED BY <1>3, <2>2, PageInsertEffect
<1>. HIDE DEF n
<1>5. new \in PageType /\ SlotsFit(new) /\ new.next = pages[p].next
  BY <1>4 DEF Inserted, pg
<1>6. PICK c \in Int : c = header.recCnt + 1
  BY <1>1 DEF HeaderType
<1>7. /\ FileInv' /\ header'.lastPage = header.lastPage /\ header'.recCnt = c
      /\ DOMAIN pages' = DOMAIN pages /\ pages'[p] = new
      /\ \A x \in DOMAIN pages : x # p => pages'[x] = pages[x]
  <2>1. pages' = [pages EXCEPT ![p] = new] /\ header' = [header EXCEPT !.recCnt = c]
    BY <1>3, <1>4, <1>6
  <2>. QED BY <1>1, <1>5, <2>1, PageExchanged
<1>8. Gains(p, n, r)
  <2>1. /\ n \in Nat /\ ~Holds(pages[p], n) /\ pages'[p].slots[n + 1] = r
        /\ \A m \in Int : Holds(pages'[p], m) <=> Holds(pages[p], m) \/ m = n
        /\ \A m \in Int : Holds(pages[p], m) => pages'[p].slots[m + 1] = pages[p].slots[m + 1]
    BY <1>4, <1>7 DEF Inserted, pg
  <2>2. \A x, m \in Int : At(x, m)' <=> At(x, m) \/ (x = p /\ m = n)
    BY <1>7, <2>1 DEF At
  <2>3. \A x, m \in Int : At(x, m) => pages'[x].slots[m + 1] = pages[x].slots[m + 1]
    BY <1>7, <2>1 DEF At
  <2>4. ~At(p, n)
    BY <2>1 DEF At
  <2>. QED BY <1>6, <1>7, <2>1, <2>2, <2>3, <2>4 DEF Gains
<1>9. /\ handle' \in [Handles -> HandleType] /\ OthersStay(h)
      /\ handle'[h].open /\ handle'[h].curPage = handle[h].curPage
      /\ handle'[h].curPageNo = handle[h].curPageNo
      /\ handle'[h].marked.pageNo = handle[h].marked.pageNo
      /\ handle'[h].hdrDirty /\ handle'[h].curDirty
  <2>. DEFINE m == BothDirty(handle[h])
  <2>1. /\ m \in HandleType /\ m.open = handle[h].open /\ m.curPage = handle[h].curPage
        /\ m.curPageNo = handle[h].curPageNo /\ m.marked = handle[h].marked
        /\ m.hdrDirty = TRUE /\ m.curDirty = TRUE
    BY <1>1, BothDirtyEffect
  <2>2. handle' = [handle EXCEPT ![h] = m]
    BY <1>3
  <2>. HIDE DEF m
  <2>3. handle' \in [Handles -> HandleType] /\ handle'[h] = m /\ OthersStay(h)
    BY <1>1, <2>1, <2>2, OneObject
  <2>. QED BY <2>1, <2>3
<1>10. HeapInv'
  <2>1. {handle[h].curPage, HdrPageNo} \in SUBSET {handle[h].curPage, HdrPageNo}
    OBVIOUS
  <2>2. todo' \in [Scanners -> SUBSET Records] /\ handle[h].curPage # Null
    BY <1>1, <1>2
  <2>. QED BY <1>1, <1>3, <1>7, <1>9, <2>1, <2>2, WriteStep
<1>. QED BY <1>2, <1>8, <1>10 DEF n, pg

LEMMA EmptyPageTyped ==
    /\ EmptyPage \in PageType /\ SlotsFit(EmptyPage) /\ EmptyPage.next = NoPage
    /\ \A m \in Int : ~Holds(EmptyPage, m)
  BY SizesAssumption DEF EmptyPage, PageType, SlotsFit, Holds

\* The page a full chain gets is the next of the file.
LEMMA NextPage ==
    ASSUME FileInv
    PROVE  NextPageNo = header.lastPage + 1 /\ header.lastPage \in Nat /\ header.lastPage >= 2
<1>1. header.lastPage \in Nat /\ header.lastPage >= 2 /\ DOMAIN pages = 2 .. header.lastPage
  BY DEF FileInv, HeaderType, DataPages
<1>2. Cardinality(DOMAIN pages) = header.lastPage - 1
  <2>. DEFINE l == header.lastPage
  <2>1. l \in Int /\ 2 \in Int /\ l >= 2
    BY <1>1
  <2>. HIDE DEF l
  <2>2. Cardinality(2 .. l) = IF 2 > l THEN 0 ELSE l - 2 + 1
    BY <2>1, FS_Interval
  <2>3. Cardinality(2 .. l) = l - 1
    BY <2>1, <2>2
  <2>. QED BY <1>1, <2>3 DEF l
<1>. QED BY <1>1, <1>2 DEF NextPageNo, HdrPageNo
\* The chain gets page q behind its last page p.
LEMMA ChainGrows ==
    ASSUME FileInv, NEW q \in PageNos, q = header.lastPage + 1,
           NEW new \in PageType, SlotsFit(new), new.next = NoPage,
           pages' = [Linked(header.lastPage, q) EXCEPT ![q] = new],
           NEW c \in Int,
           header' = [header EXCEPT !.lastPage = q, !.pageCnt = header.pageCnt + 1, !.recCnt = c]
    PROVE  /\ FileInv' /\ header'.lastPage = q /\ header'.recCnt = c
           /\ q \notin DOMAIN pages /\ DOMAIN pages' = DOMAIN pages \cup {q} /\ pages'[q] = new
           /\ \A x \in DOMAIN pages : pages'[x].slots = pages[x].slots
<1>1. PICK l \in Nat : l = header.lastPage /\ l >= 2
  BY DEF FileInv, HeaderType, DataPages
<1>2. /\ q = l + 1 /\ l \in 2 .. l /\ q \notin 2 .. l /\ 2 .. q = (2 .. l) \cup {q} /\ q \in DataPages
      /\ header \in HeaderType /\ header.pageCnt = l - 1
  BY <1>1 DEF PageNos, DataPages, FileInv, HeaderType
<1>3. /\ header' \in HeaderType /\ header'.firstPage = 2 /\ header'.lastPage = q
      /\ header'.pageCnt = q - 1 /\ header'.recCnt = c
  <2>1. q - 1 \in Nat /\ header.pageCnt + 1 = q - 1
    BY <1>1, <1>2
  <2>2. header' = [header EXCEPT !.lastPage = q, !.pageCnt = q - 1, !.recCnt = c]
    BY <2>1
  <2>. QED BY <1>2, <2>1, <2>2 DEF FileInv, HeaderType
<1>4. /\ pages \in [2 .. l -> PageType] /\ pages[l].next = NoPage
      /\ \A x \in 2 .. l : SlotsFit(pages[x]) /\ pages[x].next = IF x = l THEN NoPage ELSE x + 1
  BY <1>1, <1>2 DEF FileInv
<1>. DEFINE full == [pages[l] EXCEPT !.next = q]
<1>5. full \in PageType /\ full.slots = pages[l].slots /\ full.next = q
  BY <1>2, <1>4 DEF PageType
<1>6. Linked(l, q) = [x \in 2 .. q |-> IF x = q THEN EmptyPage ELSE IF x = l THEN full ELSE pages[x]]
  BY <1>2, <1>4 DEF Linked
<1>. HIDE DEF full
<1>7. pages' = [x \in 2 .. q |-> IF x = q THEN new ELSE IF x = l THEN full ELSE pages[x]]
  BY <1>1, <1>2, <1>6
<1>8. \A x \in 2 .. q : /\ pages'[x] \in PageType /\ SlotsFit(pages'[x])
                        /\ pages'[x].next = IF x = q THEN NoPage ELSE x + 1
  <2>. TAKE x \in 2 .. q
  <2>1. CASE x = q
    BY <1>2, <1>7, <2>1
  <2>2. CASE x = l
    <3>1. pages'[x] = full /\ x # q /\ x \in 2 .. l
      BY <1>2, <1>7, <2>2
    <3>2. SlotsFit(full)
      BY <1>4, <1>5, <2>2, <3>1 DEF SlotsFit
    <3>. QED BY <1>2, <1>5, <2>2, <3>1, <3>2
  <2>3. CASE x # q /\ x # l
    <3>1. pages'[x] = pages[x] /\ x \in 2 .. l
      BY <1>2, <1>7, <2>3
    <3>. QED BY <1>4, <2>3, <3>1
  <2>. QED BY <2>1, <2>2, <2>3
<1>9. pages' \in [2 .. q -> PageType]
  BY <1>7, <1>8
<1>10. FileInv'
  <2>1. header'.lastPage = header'.pageCnt + 1
    BY <1>2, <1>3
  <2>. QED BY <1>3, <1>8, <1>9, <2>1 DEF FileInv
<1>11. \A x \in 2 .. l : pages'[x].slots = pages[x].slots
  <2>. TAKE x \in 2 .. l
  <2>1. CASE x = l
    BY <1>2, <1>5, <1>7, <2>1
  <2>2. CASE x # l
    BY <1>2, <1>7, <2>2
  <2>. QED BY <2>1, <2>2
<1>12. DOMAIN pages' = DOMAIN pages \cup {q} /\ q \notin DOMAIN pages /\ pages'[q] = new
  BY <1>2, <1>4, <1>7
<1>. QED BY <1>3, <1>4, <1>10, <1>11, <1>12

\* The insertion leaves page p, written back, for the new page q.
PagesLeft(b, p, q) == pin(unPin(touch(b, {p, q, HdrPageNo}), p, TRUE), q)

LEMMA PagesLeftEffect ==
    ASSUME NEW b \in PoolType, NEW p \in PageNos, NEW q \in PageNos, p # q, HdrPageNo \in PageNos,
           b.pins[p] > 0
    PROVE  /\ Repinned(b, PagesLeft(b, p, q), {p}, {q})
           /\ PagesLeft(b, p, q).unsaved = (b.unsaved \cup {p, q, HdrPageNo}) \ {p}
<1>. DEFINE c == touch(b, {p, q, HdrPageNo})
<1>. DEFINE d == unPin(c, p, TRUE)
<1>1. c \in PoolType /\ c.pins = b.pins /\ c.unsaved = b.unsaved \cup {p, q, HdrPageNo}
  BY TouchEffect
<1>. HIDE DEF c
<1>2. /\ d \in PoolType /\ d.unsaved = c.unsaved \ {p} /\ d.pins[p] = c.pins[p] - 1
      /\ \A x \in PageNos : x # p => d.pins[x] = c.pins[x]
  BY <1>1, UnPinEffect
<1>. HIDE DEF d
<1>3. /\ pin(d, q) \in PoolType /\ pin(d, q).unsaved = d.unsaved /\ pin(d, q).pins[q] = d.pins[q] + 1
      /\ \A x \in PageNos : x # q => pin(d, q).pins[x] = d.pins[x]
  BY <1>2, PinEffect
<1>4. PagesLeft(b, p, q) = pin(d, q)
  BY DEF PagesLeft, c, d
<1>5. \A x \in PageNos : b.pins[x] \in Nat
  BY DEF PoolType
<1>6. Repinned(b, PagesLeft(b, p, q), {p}, {q})
  BY <1>1, <1>2, <1>3, <1>4, <1>5 DEF Repinned
<1>. QED BY <1>1, <1>2, <1>3, <1>4, <1>6

\* The object an insertion has moved to the new page q.
OnNewPage(o, q, d) ==
    [o EXCEPT !.hdrDirty = TRUE, !.curDirty = d, !.curPage = q, !.curPageNo = q]

LEMMA OnNewPageEffect ==
    ASSUME NEW o \in HandleType, NEW q \in Nat, NEW d \in BOOLEAN
    PROVE  /\ OnNewPage(o, q, d) \in HandleType
           /\ OnNewPage(o, q, d).open = o.open /\ OnNewPage(o, q, d).curPage = q
           /\ OnNewPage(o, q, d).curPageNo = q /\ OnNewPage(o, q, d).marked = o.marked
           /\ OnNewPage(o, q, d).hdrDirty = TRUE
<1>. DEFINE e == TRUE
<1>1. /\ OnNewPage(o, q, d) = [o EXCEPT !.hdrDirty = e, !.curDirty = d, !.curPage = q, !.curPageNo = q]
      /\ e \in BOOLEAN /\ q \in Int
  BY DEF OnNewPage
<1>. HIDE DEF e
<1>2. /\ OnNewPage(o, q, d) \in HandleType
      /\ OnNewPage(o, q, d).open = o.open /\ OnNewPage(o, q, d).curPage = q
      /\ OnNewPage(o, q, d).curPageNo = q /\ OnNewPage(o, q, d).marked = o.marked
      /\ OnNewPage(o, q, d).hdrDirty = e
  BY <1>1 DEF HandleType
<1>. QED BY <1>2 DEF e

LEMMA InsertNewPageStep ==
    ASSUME HeapInv, NEW h \in Inserters, NEW r \in Records, NEW len \in Lengths,
           handle[h].open, InsertNewPage(h, r, len), todo' = todo
    PROVE  HeapInv' /\ (Keeps \/ Gains(NextPageNo, FirstEmpty(EmptyPage), r))
<1>1. /\ h \in Handles /\ handle[h] \in HandleType /\ PlaceSound(h) /\ FileInv /\ HandleInv /\ PoolInv
      /\ h \notin Scanners /\ header \in HeaderType /\ todo \in [Scanners -> SUBSET Records]
      /\ pool \in PoolType
  BY HandlesAssumption DEF HeapInv, HandleInv, Handles, FileInv, PoolInv
<1>2. /\ DOMAIN pages = 2 .. header.lastPage /\ header.lastPage \in DOMAIN pages
      /\ handle[h].curPage = header.lastPage /\ HdrPageNo \in PageNos /\ HdrPageNo # Null
      /\ HdrPageNo \notin DOMAIN pages /\ DOMAIN pages \subseteq PageNos /\ Null \notin DOMAIN pages
  BY <1>1, PagesAreNos DEF PlaceSound
<1>. DEFINE fits == Accepts(EmptyPage, len)
<1>3. PICK q \in PageNos : q = NextPageNo /\ q = header.lastPage + 1 /\ q # HdrPageNo /\ q # Null
                           /\ q \in Nat
  <2>1. NextPageNo = header.lastPage + 1 /\ header.lastPage \in Nat /\ header.lastPage >= 2
    BY <1>1, NextPage
  <2>2. NextPageNo <= MaxPageNo
    BY DEF InsertNewPage
  <2>. QED BY <2>1, <2>2, MaxPageNoAssumption DEF PageNos, HdrPageNo, Null
<1>4. PICK c \in Int : c = IF fits THEN header.recCnt + 1 ELSE header.recCnt
  BY <1>1 DEF HeaderType
<1>. DEFINE new == IF fits THEN PageInsert(EmptyPage, r) ELSE EmptyPage
<1>5. /\ pages' = [Linked(header.lastPage, q) EXCEPT ![q] = new]
      /\ header' = [header EXCEPT !.lastPage = q, !.pageCnt = header.pageCnt + 1, !.recCnt = c]
      /\ pool' = PagesLeft(pool, header.lastPage, q)
      /\ handle' = [handle EXCEPT ![h] = OnNewPage(handle[h], q, handle[h].curDirty \/ fits)]
  <2>1. pages' = [Linked(header.lastPage, q) EXCEPT ![q] = new]
    <3>1. q \in DOMAIN Linked(header.lastPage, q) /\ Linked(header.lastPage, q)[q] = EmptyPage
      BY DEF Linked
    <3>. QED BY <1>2, <1>3, <3>1 DEF InsertNewPage
  <2>2. header' = [header EXCEPT !.lastPage = q, !.pageCnt = header.pageCnt + 1, !.recCnt = c]
    BY <1>1, <1>3, <1>4 DEF InsertNewPage
  <2>3. pool' = PagesLeft(pool, header.lastPage, q)
    BY <1>2, <1>3 DEF InsertNewPage, PagesLeft, LeaveFull
  <2>4. handle' = [handle EXCEPT ![h] = OnNewPage(handle[h], q, handle[h].curDirty \/ fits)]
    BY <1>1, <1>3 DEF InsertNewPage, OnNewPage
  <2>. QED BY <2>1, <2>2, <2>3, <2>4
<1>6. /\ new \in PageType /\ SlotsFit(new) /\ new.next = NoPage
      /\ fits => Inserted(EmptyPage, FirstEmpty(EmptyPage), r, new)
      /\ ~fits => new = EmptyPage
  <2>1. CASE fits
    <3>1. Accepts(EmptyPage, RecLen)
      BY <2>1, EmptyPageTyped, LengthThatFits
    <3>2. Inserted(EmptyPage, FirstEmpty(EmptyPage), r, new)
      BY <2>1, <3>1, EmptyPageTyped, PageInsertEffect
    <3>. QED BY <2>1, <3>2, EmptyPageTyped DEF Inserted
  <2>2. CASE ~fits
    BY <2>2, EmptyPageTyped
  <2>. QED BY <2>1, <2>2
<1>. HIDE DEF new
<1>7. /\ FileInv' /\ header'.lastPage = q /\ header'.recCnt = c
      /\ q \notin DOMAIN pages /\ DOMAIN pages' = DOMAIN pages \cup {q} /\ pages'[q] = new
      /\ \A x \in DOMAIN pages : pages'[x].slots = pages[x].slots
  BY <1>1, <1>3, <1>5, <1>6, ChainGrows
<1>8. \A x \in DOMAIN pages, m \in Int : Holds(pages'[x], m) <=> Holds(pages[x], m)
  BY <1>7 DEF Holds
<1>9. ASSUME fits PROVE Gains(NextPageNo, FirstEmpty(EmptyPage), r)
  <2>. DEFINE n == FirstEmpty(EmptyPage)
  <2>1. /\ n \in Nat /\ pages'[q].slots[n + 1] = r
        /\ \A m \in Int : Holds(pages'[q], m) <=> m = n
    BY <1>6, <1>7, <1>9, EmptyPageTyped DEF Inserted
  <2>. HIDE DEF n
  <2>2. \A x, m \in Int : At(x, m)' <=> At(x, m) \/ (x = q /\ m = n)
    BY <1>7, <1>8, <2>1 DEF At
  <2>3. \A x, m \in Int : At(x, m) => pages'[x].slots[m + 1] = pages[x].slots[m + 1]
    BY <1>7 DEF At
  <2>4. ~At(q, n)
    BY <1>7 DEF At
  <2>5. Gains(q, n, r)
    BY <1>4, <1>7, <1>9, <2>1, <2>2, <2>3, <2>4 DEF Gains
  <2>. QED BY <1>3, <2>5 DEF n
<1>10. ASSUME ~fits PROVE Keeps
  <2>1. \A x, m \in Int : At(x, m)' <=> At(x, m)
    BY <1>6, <1>7, <1>8, <1>10, EmptyPageTyped DEF At
  <2>2. \A x, m \in Int : At(x, m) => pages'[x].slots[m + 1] = pages[x].slots[m + 1]
    BY <1>7 DEF At
  <2>. QED BY <1>4, <1>7, <1>10, <2>1, <2>2 DEF Keeps
<1>. DEFINE m == OnNewPage(handle[h], q, handle[h].curDirty \/ fits)
<1>11. /\ m \in HandleType /\ m.open = handle[h].open /\ m.curPage = q /\ m.curPageNo = q
       /\ m.marked = handle[h].marked /\ m.hdrDirty = TRUE
  <2>1. PICK d \in BOOLEAN : d = (handle[h].curDirty \/ fits)
    OBVIOUS
  <2>2. PICK o \in HandleType : o = handle[h]
    BY <1>1
  <2>3. m = OnNewPage(o, q, d)
    BY <2>1, <2>2
  <2>. HIDE DEF m
  <2>4. /\ m \in HandleType /\ m.open = o.open /\ m.curPage = q /\ m.curPageNo = q
        /\ m.marked = o.marked /\ m.hdrDirty = TRUE
    BY <1>3, <2>3, OnNewPageEffect
  <2>. QED BY <2>2, <2>4
<1>12. handle' = [handle EXCEPT ![h] = m]
  BY <1>5
<1>. HIDE DEF m, fits
<1>13. handle' \in [Handles -> HandleType] /\ handle'[h] = m /\ OthersStay(h)
  BY <1>1, <1>11, <1>12, OneObject
<1>14. PagesOf(h) = {HdrPageNo, header.lastPage} /\ PagesOf(h)' = {HdrPageNo, q}
  BY <1>2, <1>3, <1>11, <1>13 DEF PagesOf
<1>15. /\ Repinned(pool, pool', {header.lastPage}, {q})
       /\ pool'.unsaved = (pool.unsaved \cup {header.lastPage, q, HdrPageNo}) \ {header.lastPage}
       /\ header.lastPage \in PageNos
  <2>1. PICK p \in PageNos : p = header.lastPage
    BY <1>2
  <2>2. pool.pins[p] > 0
    BY <1>1, <1>14, <2>1, HeldIsPinned
  <2>3. p # q /\ pool' = PagesLeft(pool, p, q)
    BY <1>2, <1>5, <1>7, <2>1
  <2>4. Repinned(pool, pool', {p}, {q}) /\ pool'.unsaved = (pool.unsaved \cup {p, q, HdrPageNo}) \ {p}
    BY <1>1, <1>2, <2>2, <2>3, PagesLeftEffect
  <2>. QED BY <2>1, <2>4
<1>16. Repinned(pool, pool', PagesOf(h), PagesOf(h)')
  <2>1. \A x \in PageNos : pool.pins[x] \in Nat
    BY <1>1 DEF PoolType
  <2>. QED BY <1>2, <1>3, <1>14, <1>15, <2>1 DEF Repinned
<1>17. /\ header.lastPage \in Nat /\ header.lastPage >= 2
       /\ header'.lastPage > header.lastPage
  <2>1. header.lastPage \in Nat /\ header.lastPage >= 2
    BY <1>1 DEF HeaderType, DataPages
  <2>. QED BY <1>3, <1>7, <2>1
<1>18. PlaceSound(h)'
  <2>1. q \in 2 .. q /\ 2 .. header.lastPage \subseteq 2 .. q
    BY <1>3, <1>7, <1>17
  <2>. QED BY <1>1, <1>3, <1>7, <1>11, <1>13, <2>1 DEF PlaceSound
<1>19. \A x \in pool'.unsaved : Saves(h, x)' \/ (x \in pool.unsaved /\ ~Saves(h, x))
  <2>. TAKE x \in pool'.unsaved
  <2>1. CASE x = HdrPageNo \/ x = q
    BY <1>3, <1>11, <1>13, <2>1 DEF Saves, CloseDirty
  <2>2. CASE x # HdrPageNo /\ x # q
    BY <1>2, <1>15, <2>2 DEF Saves
  <2>. QED BY <2>1, <2>2
<1>20. /\ header'.lastPage = header.lastPage
             \/ (header'.lastPage > header.lastPage /\ handle[h].open /\ h \in Inserters)
       /\ (h \in Inserters /\ handle'[h].open) => handle[h].open \/ Open \cap Inserters = {}
       /\ todo' \in [Scanners -> SUBSET Records]
  BY <1>1, <1>17
<1>21. HeapInv'
  BY <1>1, <1>7, <1>13, <1>16, <1>18, <1>19, <1>20, ObjectStep
<1>. QED BY <1>9, <1>10, <1>21
\* What a scan keeps of itself when a record goes: the record is not owed any
\* more, not even at the mark, and the one that deleted it has pages to write.
Forgets(o, r, b) ==
    [o EXCEPT !.marked.todo = @ \ {r}, !.hdrDirty = @ \/ b, !.curDirty = @ \/ b]

LEMMA ForgetsEffect ==
    ASSUME NEW o \in HandleType, NEW r, NEW b \in BOOLEAN
    PROVE  LET m == Forgets(o, r, b)
           IN  /\ m \in HandleType /\ m.open = o.open /\ m.curPage = o.curPage
               /\ m.curPageNo = o.curPageNo /\ m.marked.pageNo = o.marked.pageNo
               /\ m.hdrDirty = (o.hdrDirty \/ b) /\ m.curDirty = (o.curDirty \/ b)
<1>. DEFINE m == Forgets(o, r, b)
<1>. DEFINE mark == [o.marked EXCEPT !.todo = @ \ {r}]
<1>. DEFINE d == o.hdrDirty \/ b
<1>. DEFINE e == o.curDirty \/ b
<1>1. mark \in [pageNo: Nat, rec: Slot, todo: SUBSET Records] /\ mark.pageNo = o.marked.pageNo
  <2>1. PICK k \in [pageNo: Nat, rec: Slot, todo: SUBSET Records] : k = o.marked
    BY DEF HandleType
  <2>2. mark = [k EXCEPT !.todo = k.todo \ {r}]
    BY <2>1
  <2>3. k.todo \ {r} \in SUBSET Records
    OBVIOUS
  <2>. HIDE DEF mark
  <2>. QED BY <2>1, <2>2, <2>3
<1>2. d \in BOOLEAN /\ e \in BOOLEAN
  OBVIOUS
<1>3. m = [o EXCEPT !.marked = mark, !.hdrDirty = d, !.curDirty = e]
  BY DEF Forgets, HandleType
<1>. HIDE DEF m, mark, d, e
<1>4. /\ m \in HandleType /\ m.open = o.open /\ m.curPage = o.curPage
      /\ m.curPageNo = o.curPageNo /\ m.marked = mark /\ m.hdrDirty = d /\ m.curDirty = e
  BY <1>1, <1>2, <1>3 DEF HandleType
<1>. QED BY <1>1, <1>4 DEF m, d, e

LEMMA DeleteStep ==
    ASSUME HeapInv, NEW s \in Scanners, HasCurrent(s), deleteRecord(s)
    PROVE  HeapInv' /\ Loses(handle[s].curPage, handle[s].curRec)
<1>1. /\ s \in Handles /\ handle[s] \in HandleType /\ PlaceSound(s) /\ FileInv /\ HandleInv
      /\ pages \in [2 .. header.lastPage -> PageType] /\ handle \in [Handles -> HandleType]
      /\ header \in HeaderType /\ todo \in [Scanners -> SUBSET Records]
      /\ handle[s].open /\ handle[s].curPage # Null /\ Scanners \subseteq Handles
  BY DEF HeapInv, HandleInv, Handles, FileInv, deleteRecord
<1>2. PICK p \in DOMAIN pages : p = handle[s].curPage /\ p \in 2 .. header.lastPage
  BY <1>1 DEF PlaceSound
<1>3. PICK n \in Int : n = handle[s].curRec /\ n \in Slot
  BY <1>1 DEF HandleType, Slot, NullRID
<1>. DEFINE pg == pages[p]
<1>. DEFINE r == pages[p].slots[n + 1]
<1>4. /\ pg \in PageType /\ SlotsFit(pg) /\ Holds(pg, n) /\ n \in Nat
      /\ pages' = [pages EXCEPT ![p] = PageDelete(pg, n)]
      /\ header' = [header EXCEPT !.recCnt = header.recCnt - 1]
      /\ pool' = touch(pool, {handle[s].curPage, HdrPageNo})
      /\ todo' = [t \in Scanners |-> todo[t] \ {r}]
      /\ handle' = [h \in Handles |-> IF h \notin Scanners THEN handle[h]
                                      ELSE Forgets(handle[h], r, h = s)]
  <2>1. Holds(pg, n)
    BY <1>2, <1>3 DEF HasCurrent
  <2>2. pg \in PageType /\ SlotsFit(pg)
    BY <1>1, <1>2 DEF FileInv
  <2>3. n \in Nat
    <3>. HIDE DEF pg
    <3>1. n \in 0 .. Len(pg.slots) - 1
      BY <2>1, <2>2, SlotsTyped
    <3>. QED BY <3>1
  <2>4. /\ pages' = [pages EXCEPT ![p] = PageDelete(pg, n)]
        /\ header' = [header EXCEPT !.recCnt = header.recCnt - 1]
        /\ pool' = touch(pool, {handle[s].curPage, HdrPageNo})
        /\ todo' = [t \in Scanners |-> todo[t] \ {r}]
    BY <1>1, <1>2, <1>3, <2>1 DEF deleteRecord
  <2>5. handle' = [h \in Handles |-> IF h \notin Scanners THEN handle[h]
                                      ELSE Forgets(handle[h], r, h = s)]
    BY <1>2, <1>3, <2>1 DEF deleteRecord, Forgets
  <2>. QED BY <2>1, <2>2, <2>3, <2>4, <2>5
<1>. HIDE DEF pg, r
<1>5. PICK new : new = PageDelete(pg, n) /\ Deleted(pg, n, new)
  BY <1>4, PageDeleteEffect
<1>6. PICK c \in Int : c = header.recCnt - 1
  BY <1>1 DEF HeaderType
<1>7. /\ FileInv' /\ header'.lastPage = header.lastPage /\ header'.recCnt = c
      /\ DOMAIN pages' = DOMAIN pages /\ pages'[p] = new
      /\ \A x \in DOMAIN pages : x # p => pages'[x] = pages[x]
  <2>1. pages' = [pages EXCEPT ![p] = new] /\ header' = [header EXCEPT !.recCnt = c]
    BY <1>4, <1>5, <1>6
  <2>2. new \in PageType /\ SlotsFit(new) /\ new.next = pages[p].next
    BY <1>5 DEF Deleted, pg
  <2>. QED BY <1>1, <2>1, <2>2, PageExchanged
<1>8. Loses(p, n)
  <2>1. /\ Holds(pages[p], n)
        /\ \A m \in Int : Holds(pages'[p], m) <=> Holds(pages[p], m) /\ m # n
        /\ \A m \in Int : Holds(pages'[p], m) => pages'[p].slots[m + 1] = pages[p].slots[m + 1]
    BY <1>4, <1>5, <1>7 DEF Deleted, pg
  <2>2. \A x, m \in Int : At(x, m)' <=> At(x, m) /\ ~(x = p /\ m = n)
    BY <1>7, <2>1 DEF At
  <2>3. \A x, m \in Int : At(x, m)' => pages'[x].slots[m + 1] = pages[x].slots[m + 1]
    BY <1>7, <2>1 DEF At
  <2>4. At(p, n)
    BY <2>1 DEF At
  <2>. QED BY <1>4, <1>6, <1>7, <2>2, <2>3, <2>4 DEF Loses
<1>9. \A h \in Scanners :
        LET m == Forgets(handle[h], r, h = s)
        IN  /\ m \in HandleType /\ m.open = handle[h].open /\ m.curPage = handle[h].curPage
            /\ m.curPageNo = handle[h].curPageNo /\ m.marked.pageNo = handle[h].marked.pageNo
            /\ m.hdrDirty = (handle[h].hdrDirty \/ h = s)
            /\ m.curDirty = (handle[h].curDirty \/ h = s)
  <2>. TAKE h \in Scanners
  <2>1. PICK o \in HandleType : o = handle[h]
    BY <1>1
  <2>2. PICK b \in BOOLEAN : b = (h = s)
    OBVIOUS
  <2>3. PICK m : m = Forgets(handle[h], r, h = s)
    OBVIOUS
  <2>4. m = Forgets(o, r, b)
    BY <2>1, <2>2, <2>3
  <2>5. /\ m \in HandleType /\ m.open = o.open /\ m.curPage = o.curPage
        /\ m.curPageNo = o.curPageNo /\ m.marked.pageNo = o.marked.pageNo
        /\ m.hdrDirty = (o.hdrDirty \/ b) /\ m.curDirty = (o.curDirty \/ b)
    BY <2>4, ForgetsEffect
  <2>. QED BY <2>1, <2>2, <2>3, <2>5
<1>10. handle' \in [Handles -> HandleType]
  BY <1>1, <1>4, <1>9
<1>11. ASSUME NEW h \in Handles, h # s
       PROVE  /\ handle'[h].open = handle[h].open
              /\ handle'[h].curPage = handle[h].curPage /\ handle'[h].curPageNo = handle[h].curPageNo
              /\ handle'[h].curDirty = handle[h].curDirty /\ handle'[h].hdrDirty = handle[h].hdrDirty
              /\ handle'[h].marked.pageNo = handle[h].marked.pageNo
  <2>1. CASE h \notin Scanners
    BY <1>4, <2>1
  <2>2. CASE h \in Scanners
    <3>1. PICK m : m = Forgets(handle[h], r, h = s) /\ m = handle'[h]
      BY <1>4, <2>2
    <3>2. /\ m.open = handle[h].open /\ m.curPage = handle[h].curPage
          /\ m.curPageNo = handle[h].curPageNo /\ m.marked.pageNo = handle[h].marked.pageNo
          /\ m.hdrDirty = (handle[h].hdrDirty \/ h = s)
          /\ m.curDirty = (handle[h].curDirty \/ h = s)
      BY <1>9, <2>2, <3>1
    <3>3. handle[h].hdrDirty \in BOOLEAN /\ handle[h].curDirty \in BOOLEAN
      BY <1>1 DEF HandleType
    <3>. QED BY <1>11, <3>1, <3>2, <3>3
  <2>. QED BY <2>1, <2>2
<1>12. /\ handle'[s].open /\ handle'[s].curPage = handle[s].curPage
       /\ handle'[s].curPageNo = handle[s].curPageNo
       /\ handle'[s].marked.pageNo = handle[s].marked.pageNo
       /\ handle'[s].hdrDirty /\ handle'[s].curDirty
  <2>1. PICK m : m = Forgets(handle[s], r, s = s) /\ m = handle'[s]
    BY <1>1, <1>4
  <2>2. /\ m.open = handle[s].open /\ m.curPage = handle[s].curPage
        /\ m.curPageNo = handle[s].curPageNo /\ m.marked.pageNo = handle[s].marked.pageNo
        /\ m.hdrDirty = (handle[s].hdrDirty \/ s = s)
        /\ m.curDirty = (handle[s].curDirty \/ s = s)
    BY <1>9, <2>1
  <2>. QED BY <1>1, <2>1, <2>2
<1>13. OthersStay(s)
  BY <1>11 DEF OthersStay
<1>14. todo' \in [Scanners -> SUBSET Records]
  BY <1>1, <1>4
<1>15. HeapInv'
  <2>1. {handle[s].curPage, HdrPageNo} \in SUBSET {handle[s].curPage, HdrPageNo}
    OBVIOUS
  <2>. QED BY <1>1, <1>4, <1>7, <1>10, <1>12, <1>13, <1>14, <2>1, WriteStep
<1>. QED BY <1>2, <1>3, <1>8, <1>15
-----------------------------------------------------------------------------
(* The invariant.                                                          *)

LEMMA InitHeapInv == Init => HeapInv
<1>. SUFFICES ASSUME Init PROVE HeapInv
  OBVIOUS
<1>1. FileInv
  <2>1. header \in HeaderType /\ header.firstPage = 2 /\ header.lastPage = 2 /\ header.pageCnt = 1
    BY MaxPageNoAssumption DEF Init, HeaderType, DataPages
  <2>2. 2 .. 2 = {2}
    OBVIOUS
  <2>3. pages \in [2 .. 2 -> PageType] /\ pages[2] = EmptyPage
    BY <2>2, EmptyPageTyped DEF Init
  <2>. QED BY <2>1, <2>2, <2>3, EmptyPageTyped DEF FileInv
<1>2. handle = [h \in Handles |-> Closed]
  BY DEF Init
<1>3. HandleInv
  <2>1. todo \in [Scanners -> SUBSET Records]
    BY DEF Init
  <2>2. handle \in [Handles -> HandleType]
    BY <1>2, ClosedTyped DEF ClosedFacts
  <2>3. \A h \in Handles : PlaceSound(h)
    BY <1>2, ClosedTyped DEF ClosedFacts, PlaceSound
  <2>4. \A h \in Inserters : ~handle[h].open
    BY <1>2, ClosedTyped DEF ClosedFacts, Handles
  <2>. QED BY <2>1, <2>2, <2>3, <2>4 DEF HandleInv
<1>4. PoolInv
  <2>1. pool \in PoolType /\ pool.unsaved = {} /\ \A p \in PageNos : pool.pins[p] = 0
    BY DEF Init, PoolType
  <2>2. \A p : Pinning(p) = {}
    BY <1>2, ClosedTyped DEF ClosedFacts, Pinning, Open
  <2>. QED BY <2>1, <2>2, FS_EmptySet DEF PoolInv, PinsAreHandles
<1>. QED BY <1>1, <1>3, <1>4 DEF HeapInv

LEMMA HeapInvStays == HeapInv /\ UNCHANGED <<header, pages, pool, handle, todo>> => HeapInv'
<1>. SUFFICES ASSUME HeapInv, UNCHANGED <<header, pages, pool, handle, todo>> PROVE HeapInv'
  OBVIOUS
<1>1. FileInv'
  BY FileKept DEF HeapInv
<1>2. HandleInv'
  BY DEF HeapInv, HandleInv, PlaceSound
<1>3. PoolInv'
  BY DEF HeapInv, PoolInv, PinsAreHandles, Pinning, Open, Saves, CloseDirty
<1>. QED BY <1>1, <1>2, <1>3 DEF HeapInv

\* What a step does to the records.
RecordsStep ==
    \/ header' = header /\ pages' = pages
    \/ Keeps
    \/ \E p, n, r : r \in Records /\ Gains(p, n, r)
    \/ \E p, n : Loses(p, n)

LEMMA NextHeapInv == HeapInv /\ [Next]_vars => HeapInv' /\ RecordsStep
<1>. SUFFICES ASSUME HeapInv, [Next]_vars PROVE HeapInv' /\ RecordsStep
  OBVIOUS
<1>1. CASE UNCHANGED vars
  BY <1>1, HeapInvStays DEF vars, RecordsStep
<1>2. ASSUME NEW h \in Readers, HeapFileOpen(h) PROVE HeapInv' /\ RecordsStep
  <2>1. h \in Handles /\ header' = header /\ pages' = pages
    BY <1>2 DEF Handles, HeapFileOpen, Constructed
  <2>. QED BY <1>2, <2>1, HeapFileOpenStep DEF RecordsStep
<1>3. ASSUME NEW h \in Inserters, InsertFileScanOpen(h) PROVE HeapInv' /\ RecordsStep
  <2>1. h \in Handles /\ header' = header /\ pages' = pages
    BY <1>3 DEF Handles, InsertFileScanOpen, Constructed
  <2>. QED BY <1>3, <2>1, HeapFileOpenStep DEF RecordsStep
<1>4. ASSUME NEW s \in Scanners, NEW f \in Filters, HeapFileScanOpen(s, f)
      PROVE  HeapInv' /\ RecordsStep
  <2>1. header' = header /\ pages' = pages
    BY <1>4 DEF HeapFileScanOpen
  <2>. QED BY <1>4, <2>1, HeapFileScanOpenStep DEF RecordsStep
<1>5. ASSUME NEW h \in Handles, Close(h) PROVE HeapInv' /\ RecordsStep
  <2>1. header' = header /\ pages' = pages
    BY <1>5 DEF Close
  <2>. QED BY <1>5, <2>1, CloseStep DEF RecordsStep
<1>6. ASSUME NEW h \in Inserters, NEW r \in Records, NEW len \in Lengths, insertRecord(h, r, len)
      PROVE  HeapInv' /\ RecordsStep
  <2>1. handle[h].open /\ todo' = todo
    BY <1>6 DEF insertRecord
  <2>2. CASE InsertHere(h, r, len)
    BY <2>1, <2>2, InsertHereStep DEF RecordsStep
  <2>3. CASE InsertNewPage(h, r, len)
    BY <2>1, <2>3, InsertNewPageStep DEF RecordsStep
  <2>4. CASE UNCHANGED <<header, pages, pool, handle>>
    BY <2>1, <2>4, HeapInvStays DEF RecordsStep
  <2>. QED BY <1>6, <2>2, <2>3, <2>4 DEF insertRecord
<1>7. ASSUME NEW s \in Scanners, scanNext(s) PROVE HeapInv' /\ RecordsStep
  <2>1. header' = header /\ pages' = pages
    BY <1>7 DEF scanNext
  <2>. QED BY <1>7, <2>1, ScanNextStep DEF RecordsStep
<1>8. ASSUME NEW s \in Scanners, scanAgain(s) PROVE HeapInv' /\ RecordsStep
  <2>1. header' = header /\ pages' = pages
    BY <1>8 DEF scanAgain
  <2>. QED BY <1>8, <2>1, ScanAgainStep DEF RecordsStep
<1>9. ASSUME NEW s \in Scanners, endScan(s) PROVE HeapInv' /\ RecordsStep
  <2>1. header' = header /\ pages' = pages
    BY <1>9 DEF endScan
  <2>. QED BY <1>9, <2>1, EndScanStep DEF RecordsStep
<1>10. ASSUME NEW s \in Markers, markScan(s) \/ markDirty(s) PROVE HeapInv' /\ RecordsStep
  <2>1. s \in Scanners /\ header' = header /\ pages' = pages
    BY <1>10, HandlesAssumption DEF markScan, markDirty
  <2>. QED BY <1>10, <2>1, MarkStep DEF RecordsStep
<1>11. ASSUME NEW s \in Markers, resetScan(s) PROVE HeapInv' /\ RecordsStep
  <2>1. s \in Scanners /\ header' = header /\ pages' = pages
    BY <1>11, HandlesAssumption DEF resetScan
  <2>. QED BY <1>11, <2>1, ResetStep DEF RecordsStep
<1>12. ASSUME NEW s \in Scanners, HasCurrent(s), deleteRecord(s) PROVE HeapInv' /\ RecordsStep
  BY <1>12, DeleteStep DEF RecordsStep
<1>13. ASSUME NEW h \in Readers, NEW p \in DataPages, NEW n \in SlotNos, getRecord(h, p, n)
       PROVE  HeapInv' /\ RecordsStep
  <2>1. header' = header /\ pages' = pages
    BY <1>13 DEF getRecord
  <2>. QED BY <1>13, <2>1, GetRecordStep DEF RecordsStep
<1>. QED BY <1>1, <1>2, <1>3, <1>4, <1>5, <1>6, <1>7, <1>8, <1>9, <1>10, <1>11, <1>12, <1>13 DEF Next

-----------------------------------------------------------------------------
(* The count of records, and the file as a map of records.                 *)

RidsFacts ==
    /\ \A y \in Rids : y = <<y[1], y[2]>> /\ y[1] \in DataPages /\ y[2] \in SlotNos
    /\ \A x, m \in Int : <<x, m>> \in Rids <=> At(x, m)
    /\ IsFiniteSet(Rids)
    /\ RecordsOnChain = [x \in Rids |-> pages[x[1]].slots[x[2] + 1]]

LEMMA RidsAre == FileInv => RidsFacts
<1>. SUFFICES ASSUME FileInv PROVE RidsFacts
  OBVIOUS
<1>1. /\ DOMAIN pages = 2 .. header.lastPage /\ header.lastPage \in DataPages
      /\ \A x \in DOMAIN pages : pages[x] \in PageType /\ SlotsFit(pages[x])
      /\ header.firstPage = 2 /\ 2 \in DOMAIN pages
  BY DEF FileInv, HeaderType, DataPages
<1>2. \A x \in DOMAIN pages : x \in DataPages
  BY <1>1, MaxPageNoAssumption DEF DataPages
<1>3. \A y \in Rids : y = <<y[1], y[2]>> /\ y[1] \in DOMAIN pages /\ y[2] \in SlotNos
                      /\ Holds(pages[y[1]], y[2])
  BY DEF Rids
<1>4. \A x, m \in Int : <<x, m>> \in Rids <=> At(x, m)
  <2>. TAKE x, m \in Int
  <2>1. At(x, m) => m \in SlotNos
    BY <1>1, SlotNosOfPage DEF At
  <2>. QED BY <2>1 DEF Rids, At
<1>5. IsFiniteSet(Rids)
  <2>1. PICK K \in Int : SlotNos = 0 .. K
    BY SizesAssumption DEF SlotNos
  <2>2. IsFiniteSet(SlotNos)
    BY <2>1, FS_Interval
  <2>3. IsFiniteSet(DOMAIN pages)
    <3>1. PICK l \in Int : l = header.lastPage
      BY <1>1 DEF DataPages
    <3>2. DOMAIN pages = 2 .. l /\ 2 \in Int
      BY <1>1, <3>1
    <3>. QED BY <3>2, FS_Interval
  <2>4. IsFiniteSet((DOMAIN pages) \X SlotNos)
    BY <2>2, <2>3, FS_Product
  <2>5. Rids \subseteq (DOMAIN pages) \X SlotNos
    BY DEF Rids
  <2>. QED BY <2>4, <2>5, FS_Subset
<1>6. RecordsOnChain = [x \in Rids |-> pages[x[1]].slots[x[2] + 1]]
  <2>. DEFINE path == PathFrom(header.firstPage)
  <2>. DEFINE on == {path[i] : i \in DOMAIN path}
  <2>1. PICK l \in Int : l = header.lastPage
    BY <1>1 DEF DataPages
  <2>2. /\ DOMAIN path = 1 .. l - 1
        /\ \A k \in DOMAIN path : path[k] = k + 1
    BY <1>1, <2>1, PathPages
  <2>. HIDE DEF path
  <2>3. on = DOMAIN pages
    <3>1. \A x \in 2 .. l : x - 1 \in 1 .. l - 1 /\ x = (x - 1) + 1
      BY <2>1
    <3>2. \A k \in 1 .. l - 1 : k + 1 \in 2 .. l
      BY <2>1
    <3>. QED BY <1>1, <2>1, <2>2, <3>1, <3>2
  <2>4. {y \in Rids : y[1] \in on} = Rids
    BY <1>3, <2>3
  <2>5. RecordsOnChain = [x \in {y \in Rids : y[1] \in on} |-> pages[x[1]].slots[x[2] + 1]]
    BY DEF RecordsOnChain, path
  <2>. QED BY <2>4, <2>5
<1>. QED BY <1>2, <1>3, <1>4, <1>5, <1>6 DEF RidsFacts

\* The records after a step, by their RIDs.
LEMMA RidsStep ==
    ASSUME RidsFacts, RidsFacts', FileInv, FileInv', RecordsStep, RecCntCorrect
    PROVE  RecCntCorrect' /\ [Map!Next]_RecordsOnChain
<1>1. /\ Cardinality(Rids) \in Nat
      /\ \A y \in Rids : y = <<y[1], y[2]>> /\ y[1] \in Int /\ y[2] \in Int
      /\ \A y \in Rids' : y = <<y[1], y[2]>> /\ y[1] \in Int /\ y[2] \in Int
  BY FS_CardinalityType DEF RidsFacts, DataPages, SlotNos
<1>2. ASSUME Rids' = Rids, header'.recCnt = header.recCnt,
             \A y \in Rids : pages'[y[1]].slots[y[2] + 1] = pages[y[1]].slots[y[2] + 1]
      PROVE  RecCntCorrect' /\ RecordsOnChain' = RecordsOnChain
  BY <1>2 DEF RidsFacts, RecCntCorrect
<1>3. CASE header' = header /\ pages' = pages
  BY <1>2, <1>3 DEF Rids
<1>4. CASE Keeps
  <2>1. Rids' = Rids
    BY <1>1, <1>4 DEF Keeps, RidsFacts
  <2>2. \A y \in Rids : pages'[y[1]].slots[y[2] + 1] = pages[y[1]].slots[y[2] + 1]
    BY <1>1, <1>4 DEF Keeps, RidsFacts
  <2>. QED BY <1>2, <1>4, <2>1, <2>2 DEF Keeps
<1>5. ASSUME NEW p, NEW n, NEW r \in Records, Gains(p, n, r)
      PROVE  RecCntCorrect' /\ [Map!Next]_RecordsOnChain
  <2>1. p \in Int /\ n \in Int
    BY <1>5 DEF Gains, FileInv, HeaderType, DataPages
  <2>2. Rids' = Rids \cup {<<p, n>>} /\ <<p, n>> \notin Rids
    BY <1>1, <1>5, <2>1 DEF Gains, RidsFacts
  <2>3. Cardinality(Rids') = Cardinality(Rids) + 1
    BY <2>2, FS_AddElement DEF RidsFacts
  <2>4. RecCntCorrect'
    BY <1>5, <2>3 DEF RecCntCorrect, Gains
  <2>5. <<p, n>> \in DataPages \X SlotNos
    <3>1. <<p, n>> \in Rids'
      BY <2>2
    <3>. QED BY <3>1 DEF RidsFacts
  <2>6. \A y \in Rids : y # <<p, n>> /\ pages'[y[1]].slots[y[2] + 1] = pages[y[1]].slots[y[2] + 1]
    BY <1>1, <1>5, <2>2 DEF Gains, RidsFacts
  <2>7. RecordsOnChain' = [m \in DOMAIN RecordsOnChain \cup {<<p, n>>} |->
                                IF m = <<p, n>> THEN r ELSE RecordsOnChain[m]]
    BY <1>5, <2>2, <2>6 DEF Gains, RidsFacts
  <2>8. <<p, n>> \notin DOMAIN RecordsOnChain
    BY <2>2 DEF RidsFacts
  <2>. QED BY <2>4, <2>5, <2>7, <2>8 DEF Map!Next, Map!Insert
<1>6. ASSUME NEW p, NEW n, Loses(p, n)
      PROVE  RecCntCorrect' /\ [Map!Next]_RecordsOnChain
  <2>1. p \in Int /\ n \in Int
    BY <1>6 DEF Loses, FileInv, HeaderType, DataPages
  <2>2. Rids' = Rids \ {<<p, n>>} /\ <<p, n>> \in Rids
    BY <1>1, <1>6, <2>1 DEF Loses, RidsFacts
  <2>3. Cardinality(Rids') = Cardinality(Rids) - 1
    BY <2>2, FS_RemoveElement DEF RidsFacts
  <2>4. RecCntCorrect'
    BY <1>6, <2>3 DEF RecCntCorrect, Loses
  <2>5. <<p, n>> \in DataPages \X SlotNos
    BY <2>2 DEF RidsFacts
  <2>6. \A y \in Rids' : y \in Rids /\ pages'[y[1]].slots[y[2] + 1] = pages[y[1]].slots[y[2] + 1]
    BY <1>1, <1>6, <2>2 DEF Loses, RidsFacts
  <2>7. RecordsOnChain' = [m \in DOMAIN RecordsOnChain \ {<<p, n>>} |-> RecordsOnChain[m]]
    BY <2>2, <2>6 DEF RidsFacts
  <2>8. <<p, n>> \in DOMAIN RecordsOnChain
    BY <2>2 DEF RidsFacts
  <2>. QED BY <2>4, <2>5, <2>7, <2>8 DEF Map!Next, Map!Delete
<1>. QED BY <1>3, <1>4, <1>5, <1>6 DEF RecordsStep
IInv == HeapInv /\ RecCntCorrect

LEMMA InitIInv == Init => IInv
<1>. SUFFICES ASSUME Init PROVE IInv
  OBVIOUS
<1>1. HeapInv
  BY InitHeapInv
<1>2. Rids = {}
  <2>1. \A x \in DOMAIN pages : pages[x] = EmptyPage
    BY DEF Init
  <2>2. \A m \in SlotNos : m \in Int
    BY DEF SlotNos
  <2>. QED BY <2>1, <2>2, EmptyPageTyped DEF Rids
<1>3. header.recCnt = 0
  BY DEF Init
<1>. QED BY <1>1, <1>2, <1>3, FS_EmptySet DEF IInv, RecCntCorrect

LEMMA NextIInv == IInv /\ [Next]_vars => IInv' /\ [Map!Next]_RecordsOnChain
<1>1. HeapInv /\ [Next]_vars => HeapInv' /\ RecordsStep
  BY NextHeapInv
<1>2. HeapInv => RidsFacts /\ FileInv
  BY RidsAre DEF HeapInv
<1>3. HeapInv' => RidsFacts' /\ FileInv'
  BY <1>2, PTL
<1>4. RidsFacts /\ RidsFacts' /\ FileInv /\ FileInv' /\ RecordsStep /\ RecCntCorrect
        => RecCntCorrect' /\ [Map!Next]_RecordsOnChain
  BY RidsStep
<1>. QED BY <1>1, <1>2, <1>3, <1>4 DEF IInv

\* The invariant of the heap file: the chain is numbered in its order, the
\* objects are on it, and pins, changes and the count of records are theirs.
THEOREM IInvAlways == Spec => []IInv
<1>1. Init => IInv
  BY InitIInv
<1>2. IInv /\ [Next]_vars => IInv'
  BY NextIInv
<1>. QED BY <1>1, <1>2, PTL DEF Spec

\* The state of the heap file has its types, whatever the objects do.
THEOREM TypeCorrect == Spec => []TypeOK
<1>1. IInv => TypeOK
  <2>. SUFFICES ASSUME IInv PROVE TypeOK
    OBVIOUS
  <2>1. FileInv /\ HandleInv /\ pool \in PoolType
    BY DEF IInv, HeapInv, PoolInv
  <2>2. header \in HeaderType /\ pages \in [2 .. header.lastPage -> PageType]
        /\ DOMAIN pages = 2 .. header.lastPage /\ header.lastPage \in DataPages
    BY <2>1 DEF FileInv, HeaderType
  <2>3. ASSUME NEW p \in DOMAIN pages
        PROVE  /\ p \in DataPages /\ pages[p].next \in DataPages \cup {NoPage}
               /\ pages[p].slots \in Seq(Records \cup {NoRecord})
    <3>1. pages[p] \in PageType /\ p \in DataPages
      BY <2>2, MaxPageNoAssumption DEF DataPages
    <3>. QED BY <3>1 DEF PageType
  <2>4. ASSUME NEW h \in Handles
        PROVE  /\ handle[h].curPage \in DOMAIN pages \cup {Null}
               /\ handle[h].curRec \in {NullRID} \cup Nat
               /\ {handle[h].open, handle[h].curDirty, handle[h].hdrDirty} \subseteq BOOLEAN
    <3>1. handle[h] \in HandleType /\ PlaceSound(h)
      BY <2>1 DEF HandleInv
    <3>2. handle[h].curPage \in DOMAIN pages \cup {Null}
      BY <2>2, <3>1 DEF PlaceSound
    <3>. QED BY <3>1, <3>2 DEF HandleType, Slot
  <2>. QED BY <2>1, <2>2, <2>3, <2>4 DEF TypeOK, HeaderType, PoolType, HandleInv
<1>. QED BY <1>1, IInvAlways, PTL

\* Every pin of the heap file is one of an open object, and no object has lost
\* its own: pages are pinned as often as the objects that stand on them.
THEOREM PinsAreHandlesAlways == Spec => []PinsAreHandles
<1>1. IInv => PinsAreHandles
  BY DEF IInv, HeapInv, PoolInv
<1>. QED BY <1>1, IInvAlways, PTL

\* A page that was changed and not yet unpinned dirty is pinned: the buffer
\* manager cannot drop the change.
THEOREM NoChangeLostAlways == Spec => []NoChangeLost
<1>1. IInv => NoChangeLost
  <2>. SUFFICES ASSUME IInv, NEW p \in pool.unsaved PROVE pool.pins[p] > 0
    BY DEF NoChangeLost
  <2>1. PoolInv /\ pool \in PoolType /\ FileInv /\ p \in PageNos
    BY DEF IInv, HeapInv, PoolInv, PoolType
  <2>2. PICK h \in Handles : Saves(h, p)
    BY <2>1 DEF PoolInv
  <2>3. p \in PagesOf(h)
    <3>1. p # Null
      BY <2>1, PagesAreNos
    <3>. QED BY <2>2, <3>1 DEF Saves, PagesOf
  <2>. QED BY <2>1, <2>2, <2>3, HeldIsPinned
<1>. QED BY <1>1, IInvAlways, PTL

\* From firstPage the forward pointers visit every data page once, pageCnt of
\* them, and end in lastPage.
THEOREM ChainSoundAlways == Spec => []ChainSound
<1>1. IInv => ChainSound
  <2>. SUFFICES ASSUME IInv PROVE ChainSound
    OBVIOUS
  <2>. DEFINE path == PathFrom(header.firstPage)
  <2>1. FileInv /\ header.firstPage \in DOMAIN pages
    BY PagesAreNos DEF IInv, HeapInv
  <2>2. /\ DOMAIN pages = 2 .. header.lastPage /\ header.firstPage = 2
        /\ header.lastPage \in Int /\ header.pageCnt \in Int /\ header.lastPage = header.pageCnt + 1
    BY <2>1 DEF FileInv, HeaderType, DataPages
  <2>3. /\ DOMAIN path = 1 .. header.lastPage - 1 /\ Len(path) = header.pageCnt
        /\ path[Len(path)] = header.lastPage
        /\ \A k \in DOMAIN path : path[k] = k + 1 /\ path[k] \in DOMAIN pages
    <3>0. PICK p \in DOMAIN pages : p = header.firstPage /\ p = 2
      BY <2>1, <2>2
    <3>1. /\ DOMAIN path = 1 .. header.lastPage - 2 + 1 /\ Len(path) = header.lastPage - 2 + 1
          /\ path[Len(path)] = header.lastPage
          /\ \A k \in DOMAIN path : path[k] = 2 + k - 1 /\ path[k] \in DOMAIN pages
      <4>1. /\ DOMAIN PathFrom(p) = 1 .. header.lastPage - p + 1
            /\ Len(PathFrom(p)) = header.lastPage - p + 1
            /\ PathFrom(p)[Len(PathFrom(p))] = header.lastPage
            /\ \A k \in DOMAIN PathFrom(p) : PathFrom(p)[k] = p + k - 1
                                             /\ PathFrom(p)[k] \in DOMAIN pages
        BY <2>1, PathPages
      <4>. QED BY <3>0, <4>1
    <3>. HIDE DEF path
    <3>2. /\ header.lastPage - 2 + 1 = header.lastPage - 1 /\ header.lastPage - 2 + 1 = header.pageCnt
          /\ \A k \in Int : 2 + k - 1 = k + 1
      BY <2>2
    <3>3. \A k \in 1 .. header.lastPage - 1 : k \in Int
      OBVIOUS
    <3>. QED BY <3>1, <3>2, <3>3
  <2>. HIDE DEF path
  <2>4. {path[i] : i \in DOMAIN path} = DOMAIN pages
    <3>1. \A x \in 2 .. header.lastPage : x - 1 \in 1 .. header.lastPage - 1 /\ x = (x - 1) + 1
      BY <2>2
    <3>. QED BY <2>2, <2>3, <3>1
  <2>. QED BY <2>3, <2>4 DEF ChainSound, path
<1>. QED BY <1>1, IInvAlways, PTL

\* getRecCnt is the number of records in the file.
THEOREM RecCntCorrectAlways == Spec => []RecCntCorrect
<1>1. IInv => RecCntCorrect
  BY DEF IInv
<1>. QED BY <1>1, IInvAlways, PTL

\* Along the chain a record has one RID from its insertion to its deletion, and
\* nothing but a deletion takes it away, whatever scans and insertions run
\* beside one another.
THEOREM ImplementsRecordMapAlways == Spec => ImplementsRecordMap
<1>1. Init => Map!Init
  <2>. SUFFICES ASSUME Init PROVE Map!Init
    OBVIOUS
  <2>1. RidsFacts /\ IInv
    BY InitIInv, RidsAre DEF IInv, HeapInv
  <2>2. Rids = {}
    <3>1. header.recCnt = 0 /\ Cardinality(Rids) = 0 /\ IsFiniteSet(Rids)
      BY <2>1 DEF Init, IInv, RecCntCorrect, RidsFacts
    <3>. QED BY <3>1, FS_EmptySet
  <2>. QED BY <2>1, <2>2 DEF Map!Init, RidsFacts
<1>2. IInv /\ [Next]_vars => [Map!Next]_RecordsOnChain
  BY NextIInv
<1>. QED BY <1>1, <1>2, IInvAlways, PTL DEF Spec, ImplementsRecordMap, Map!Spec
-----------------------------------------------------------------------------
(* What a scan owes.                                                       *)

\* The records of T pass the filter f and are in the pages P on slots behind
\* slot n of page p, or anywhere if there is no page p.
Owed(P, f, T, p, n) ==
    \A r \in T :
        /\ r \in f
        /\ \E x, m \in Int : /\ x \in DOMAIN P /\ Holds(P[x], m) /\ P[x].slots[m + 1] = r
                             /\ p = Null \/ x > p \/ (x = p /\ m > n)

\* What scan s owes is ahead of it, and ahead of its mark.
ScanSound(s) ==
    LET o == handle[s]
    IN  /\ ~o.open => todo[s] = {}
        /\ Owed(pages, o.filter, todo[s], o.curPage, o.curRec)
        /\ o.marked.pageNo # 0 => Owed(pages, o.filter, o.marked.todo, o.marked.pageNo, o.marked.rec)

ScanInv == \A s \in Scanners : ScanSound(s)

LEMMA OwedLess ==
    ASSUME NEW f, NEW T, NEW U, U \subseteq T, NEW p, NEW n, Owed(pages, f, T, p, n)
    PROVE  Owed(pages, f, U, p, n) /\ \A k : Owed(pages, f, U, Null, k)
  BY DEF Owed, At

\* Everything is ahead of the first slot of the first page.
LEMMA OwedFromFirst ==
    ASSUME FileInv, NEW f, NEW T, NEW n, Owed(pages, f, T, Null, n)
    PROVE  Owed(pages, f, T, header.firstPage, NullRID)
<1>. SUFFICES ASSUME NEW r \in T
              PROVE  r \in f /\ \E x, m \in Int :
                        /\ At(x, m) /\ pages[x].slots[m + 1] = r
                        /\ x > header.firstPage \/ (x = header.firstPage /\ m > NullRID)
  BY DEF Owed, At
<1>1. PICK x, m \in Int : r \in f /\ At(x, m) /\ pages[x].slots[m + 1] = r
  BY DEF Owed, At
<1>2. x >= 2 /\ header.firstPage = 2
  BY <1>1 DEF At, FileInv
<1>3. m >= 0
  <2>1. pages[x] \in PageType
    BY <1>1 DEF At, FileInv
  <2>2. m \in 0 .. Len(pages[x].slots) - 1
    BY <1>1, <2>1, SlotsTyped DEF At
  <2>. QED BY <2>2
<1>4. x > header.firstPage \/ (x = header.firstPage /\ m > NullRID)
  BY <1>2, <1>3 DEF NullRID
<1>. QED BY <1>1, <1>4

\* A record that stays is owed as before.
LEMMA OwedStays ==
    ASSUME NEW f, NEW T, NEW p, NEW n, Owed(pages, f, T, p, n),
           \/ pages' = pages
           \/ \A x, m \in Int : At(x, m) => At(x, m)' /\ pages'[x].slots[m + 1] = pages[x].slots[m + 1]
    PROVE  Owed(pages', f, T, p, n)
<1>1. \A x, m \in Int : At(x, m) => At(x, m)' /\ pages'[x].slots[m + 1] = pages[x].slots[m + 1]
  BY DEF At
<1>. QED BY <1>1 DEF Owed, At

LEMMA OwedWithout ==
    ASSUME NEW f, NEW T, NEW p, NEW n, Owed(pages, f, T, p, n),
           NEW y, NEW k, Loses(y, k), NEW gone, gone = pages[y].slots[k + 1]
    PROVE  Owed(pages', f, T \ {gone}, p, n)
<1>. SUFFICES ASSUME NEW r \in T, r # gone
              PROVE  r \in f /\ \E x, m \in Int :
                        /\ At(x, m)' /\ pages'[x].slots[m + 1] = r
                        /\ p = Null \/ x > p \/ (x = p /\ m > n)
  BY DEF Owed, At
<1>1. PICK x, m \in Int : /\ r \in f /\ At(x, m) /\ pages[x].slots[m + 1] = r
                          /\ p = Null \/ x > p \/ (x = p /\ m > n)
  BY DEF Owed, At
<1>2. At(x, m)' /\ pages'[x].slots[m + 1] = r
  BY <1>1 DEF Loses
<1>. QED BY <1>1, <1>2

\* A walk from object o meets what is owed: the hit it stops at is the first
\* of it, and without a hit nothing is owed.
LEMMA WalkOwes ==
    ASSUME FileInv, NEW o \in HandleType, o.curPage \in DOMAIN pages,
           NEW T, Owed(pages, o.filter, T, o.curPage, o.curRec)
    PROVE  LET path == PathFrom(o.curPage)
               hits == {x \in Ahead(path, o.curRec) : RecordAt(path, x) \in o.filter}
           IN  /\ hits = {} => T = {}
               /\ \A x \in hits :
                    (\A y \in hits : y = x \/ Before(x, y))
                        => Owed(pages, o.filter, T \ {RecordAt(path, x)}, path[x[1]], x[2])
<1>. DEFINE c == o.curPage
<1>. DEFINE path == PathFrom(o.curPage)
<1>. DEFINE hits == {x \in Ahead(path, o.curRec) : RecordAt(path, x) \in o.filter}
<1>1. /\ c \in Int /\ c # Null /\ DOMAIN pages = 2 .. header.lastPage /\ header.lastPage \in Int
      /\ c \in 2 .. header.lastPage
      /\ \A x \in DOMAIN pages : pages[x] \in PageType /\ SlotsFit(pages[x])
  <2>1. c # Null /\ DOMAIN pages = 2 .. header.lastPage
    BY PagesAreNos
  <2>2. header.lastPage \in Int
    BY DEF FileInv, HeaderType, DataPages
  <2>3. c \in 2 .. header.lastPage /\ c \in Int
    BY <2>1
  <2>4. \A x \in DOMAIN pages : pages[x] \in PageType /\ SlotsFit(pages[x])
    BY <2>1 DEF FileInv
  <2>. QED BY <2>1, <2>2, <2>3, <2>4
<1>2. /\ DOMAIN path = 1 .. header.lastPage - c + 1
      /\ \A k \in DOMAIN path : path[k] = c + k - 1
  BY PathPages
<1>3. ASSUME NEW r \in T
      PROVE  \E k, m \in Int : /\ <<k, m>> \in hits /\ k \in DOMAIN path
                               /\ At(path[k], m) /\ pages[path[k]].slots[m + 1] = r
  <2>1. PICK y, m \in Int : /\ r \in o.filter /\ At(y, m) /\ pages[y].slots[m + 1] = r
                            /\ c = Null \/ y > c \/ (y = c /\ m > o.curRec)
    BY DEF Owed, At
  <2>2. y \in DOMAIN pages /\ Holds(pages[y], m) /\ m \in SlotNos
    BY <1>1, <2>1, SlotNosOfPage DEF At
  <2>. DEFINE k == y - c + 1
  <2>3. k \in 1 .. header.lastPage - c + 1 /\ c + k - 1 = y /\ (k = 1 => y = c)
    BY <1>1, <2>1, <2>2
  <2>4. k \in DOMAIN path /\ path[k] = y /\ k \in Int
    BY <1>2, <2>3
  <2>. HIDE DEF k, path
  <2>5. k = 1 => m > o.curRec
    BY <1>1, <2>1, <2>3
  <2>6. <<k, m>> \in Ahead(path, o.curRec)
    BY <2>2, <2>4, <2>5 DEF Ahead
  <2>7. RecordAt(path, <<k, m>>) = r
    BY <2>1, <2>4 DEF RecordAt
  <2>. QED BY <2>1, <2>4, <2>6, <2>7 DEF path
<1>4. hits = {} => T = {}
  BY <1>3
<1>5. ASSUME NEW x \in hits, \A y \in hits : y = x \/ Before(x, y)
      PROVE  Owed(pages, o.filter, T \ {RecordAt(path, x)}, path[x[1]], x[2])
  <2>1. /\ x[1] \in DOMAIN path /\ x[2] \in SlotNos /\ x = <<x[1], x[2]>>
    BY DEF Ahead
  <2>. SUFFICES ASSUME NEW r \in T, r # RecordAt(path, x)
                PROVE  r \in o.filter /\ \E y, m \in Int :
                            /\ At(y, m) /\ pages[y].slots[m + 1] = r
                            /\ y > path[x[1]] \/ (y = path[x[1]] /\ m > x[2])
    BY DEF Owed, At
  <2>2. PICK k, m \in Int : /\ <<k, m>> \in hits /\ k \in DOMAIN path
                            /\ At(path[k], m) /\ pages[path[k]].slots[m + 1] = r
    BY <1>3
  <2>3. r \in o.filter
    BY DEF Owed, At
  <2>4. <<k, m>> # x
    BY <2>1, <2>2 DEF RecordAt
  <2>5. Before(x, <<k, m>>)
    BY <1>5, <2>2, <2>4
  <2>6. x[1] \in Int /\ path[x[1]] = c + x[1] - 1 /\ path[k] = c + k - 1 /\ path[k] \in Int
    <3>1. \A i \in DOMAIN path : i \in Int
      BY <1>2
    <3>2. x[1] \in Int /\ path[x[1]] = c + x[1] - 1 /\ path[k] = c + k - 1
      BY <1>2, <2>1, <2>2, <3>1
    <3>. HIDE DEF path
    <3>. QED BY <1>1, <3>2
  <2>. HIDE DEF path, hits
  <2>7. x[1] < k \/ (x[1] = k /\ x[2] < m)
    BY <2>5 DEF Before
  <2>8. path[k] > path[x[1]] \/ (path[k] = path[x[1]] /\ m > x[2])
    <3>1. CASE x[1] < k
      BY <1>1, <2>6, <3>1
    <3>2. CASE x[1] = k /\ x[2] < m
      <4>1. x[2] \in Int
        BY <2>1 DEF SlotNos
      <4>. QED BY <3>2, <4>1
    <3>. QED BY <2>7, <3>1, <3>2
  <2>. QED BY <2>2, <2>3, <2>6, <2>8
<1>. QED BY <1>4, <1>5
\* Records stay with a step of these.
RecordsStay ==
    \/ pages' = pages
    \/ \A x, m \in Int : At(x, m) => At(x, m)' /\ pages'[x].slots[m + 1] = pages[x].slots[m + 1]

\* A scan that does not move owes what it owed, less what it gave.
LEMMA ScanStays ==
    ASSUME NEW s \in Scanners, ScanSound(s), RecordsStay, todo'[s] = todo[s],
           handle'[s].open = handle[s].open, handle'[s].curPage = handle[s].curPage,
           handle'[s].curRec = handle[s].curRec, handle'[s].filter = handle[s].filter,
           handle'[s].marked = handle[s].marked
    PROVE  ScanSound(s)'
<1>1. PICK f, T, p, n, U, q, k :
        /\ f = handle[s].filter /\ T = todo[s] /\ p = handle[s].curPage /\ n = handle[s].curRec
        /\ U = handle[s].marked.todo /\ q = handle[s].marked.pageNo /\ k = handle[s].marked.rec
  OBVIOUS
<1>2. (~handle[s].open => T = {}) /\ Owed(pages, f, T, p, n) /\ (q # 0 => Owed(pages, f, U, q, k))
  BY <1>1 DEF ScanSound
<1>3. Owed(pages', f, T, p, n) /\ (q # 0 => Owed(pages', f, U, q, k))
  BY <1>2, OwedStays DEF RecordsStay
<1>4. /\ ~handle'[s].open => todo'[s] = {}
      /\ Owed(pages', handle'[s].filter, todo'[s], handle'[s].curPage, handle'[s].curRec)
      /\ handle'[s].marked.pageNo # 0 =>
            Owed(pages', handle'[s].filter, handle'[s].marked.todo, handle'[s].marked.pageNo,
                 handle'[s].marked.rec)
  BY <1>1, <1>2, <1>3
<1>. QED BY <1>4 DEF ScanSound

\* One scan makes a step, or an object that is none.
LEMMA OneScan ==
    ASSUME HandleInv, ScanInv, NEW h \in Handles, NEW m, handle' = [handle EXCEPT ![h] = m],
           RecordsStay, \A t \in Scanners : t # h => todo'[t] = todo[t],
           h \in Scanners => ScanSound(h)'
    PROVE  ScanInv'
<1>. SUFFICES ASSUME NEW t \in Scanners, t # h PROVE ScanSound(t)'
  BY DEF ScanInv
<1>1. handle'[t] = handle[t] /\ ScanSound(t)
  BY DEF HandleInv, Handles, ScanInv
<1>. QED BY <1>1, ScanStays

\* Scan s, at object o, walks.
LEMMA WalkScans ==
    ASSUME HeapInv, ScanInv, NEW s \in Scanners, handle[s].open,
           NEW o \in HandleType, NEW b, o.curPage \in DOMAIN pages, o.open,
           o.filter = handle[s].filter, o.marked = handle[s].marked,
           Owed(pages, o.filter, todo[s], o.curPage, o.curRec),
           Walk(s, b, o), header' = header, pages' = pages
    PROVE  ScanInv' /\ (status' = "FILEEOF" => todo[s] = {})
<1>. DEFINE path == PathFrom(o.curPage)
<1>. DEFINE past == Ahead(path, o.curRec)
<1>. DEFINE hits == {x \in past : RecordAt(path, x) \in o.filter}
<1>1. /\ s \in Handles /\ FileInv /\ HandleInv /\ todo \in [Scanners -> SUBSET Records]
      /\ handle \in [Handles -> HandleType] /\ \A q \in DOMAIN pages : q \in Nat
      /\ ScanSound(s)
  BY PagesAreNos DEF HeapInv, HandleInv, Handles, ScanInv
<1>2. PICK T : T = todo[s] /\ Owed(pages, o.filter, T, o.curPage, o.curRec)
  OBVIOUS
<1>3. /\ hits = {} => T = {}
      /\ \A x \in hits :
            (\A y \in hits : y = x \/ Before(x, y))
                => Owed(pages, o.filter, T \ {RecordAt(path, x)}, path[x[1]], x[2])
  BY <1>1, <1>2, WalkOwes
<1>4. /\ \A x \in past : /\ path[x[1]] \in DOMAIN pages /\ x[2] \in Nat
                         /\ RecordAt(path, x) \in Records
      /\ past # {} => (CHOOSE x \in past : \A y \in past : (y = x \/ Before(y, x))) \in past
      /\ path[Len(path)] \in DOMAIN pages
  <2>1. path[Len(path)] = header.lastPage /\ header.lastPage \in DOMAIN pages
    BY <1>1, PathPages, PagesAreNos
  <2>. QED BY <1>1, <2>1, AheadEffect
<1>. HIDE DEF hits, past, path
<1>5. ASSUME NEW p \in DOMAIN pages, NEW n \in Slot, NEW c \in Records \cup {NoRecord}, NEW U,
             handle' = [handle EXCEPT ![s] = MovedOn(o, p, n, c)],
             todo'[s] = U, \A t \in Scanners : t # s => todo'[t] = todo[t],
             Owed(pages, o.filter, U, p, n)
      PROVE  ScanInv'
  <2>1. PICK m : m = MovedOn(o, p, n, c)
    OBVIOUS
  <2>2. /\ m.open = o.open /\ m.curPage = p /\ m.curRec = n /\ m.marked = o.marked
        /\ m.filter = o.filter
    <3>1. p \in Nat
      BY <1>1
    <3>2. m.curPage = p /\ m.curRec = n /\ m.marked = o.marked
      BY <2>1, <3>1, MovedOnEffect
    <3>3. m.open = o.open
      BY <2>1, <3>1, MovedOnEffect
    <3>4. m.filter = o.filter
      BY <2>1, <3>1, MovedOnEffect
    <3>. QED BY <3>2, <3>3, <3>4
  <2>3. handle' = [handle EXCEPT ![s] = m] /\ handle'[s] = m
    BY <1>1, <1>5, <2>1
  <2>4. handle[s].marked.pageNo # 0 =>
            Owed(pages, handle[s].filter, handle[s].marked.todo, handle[s].marked.pageNo,
                 handle[s].marked.rec)
    BY <1>1 DEF ScanSound
  <2>5. /\ ~m.open => todo'[s] = {}
        /\ Owed(pages', m.filter, todo'[s], m.curPage, m.curRec)
        /\ m.marked.pageNo # 0 =>
                Owed(pages', m.filter, m.marked.todo, m.marked.pageNo, m.marked.rec)
    BY <1>5, <2>2, <2>4
  <2>6. ScanSound(s)'
    BY <2>3, <2>5 DEF ScanSound
  <2>. QED BY <1>1, <1>5, <2>3, <2>6, OneScan DEF RecordsStay
<1>6. ASSUME NEW x \in hits, \A y \in hits : y = x \/ Before(x, y),
             handle' = [handle EXCEPT ![s] = MovedOn(o, path[x[1]], x[2], RecordAt(path, x))],
             todo' = [todo EXCEPT ![s] = @ \ {RecordAt(path, x)}],
             status' = "OK"
      PROVE  ScanInv' /\ (status' = "FILEEOF" => todo[s] = {})
  <2>1. /\ path[x[1]] \in DOMAIN pages /\ x[2] \in Slot /\ RecordAt(path, x) \in Records \cup {NoRecord}
    BY <1>4 DEF Slot, hits
  <2>2. Owed(pages, o.filter, T \ {RecordAt(path, x)}, path[x[1]], x[2])
    BY <1>3, <1>6
  <2>3. todo'[s] = T \ {RecordAt(path, x)} /\ \A t \in Scanners : t # s => todo'[t] = todo[t]
    BY <1>1, <1>2, <1>6
  <2>4. PICK p \in DOMAIN pages, n \in Slot, c \in Records \cup {NoRecord},
            U \in {T \ {RecordAt(path, x)}} :
            p = path[x[1]] /\ n = x[2] /\ c = RecordAt(path, x)
    BY <2>1
  <2>5. ScanInv'
    BY <1>5, <1>6, <2>2, <2>3, <2>4
  <2>. QED BY <1>6, <2>5
<1>7. ASSUME hits = {}, NEW rec,
             rec = o.curRec \/ (past # {} /\ rec =
                    (CHOOSE x \in past : \A y \in past : (y = x \/ Before(y, x)))[2]),
             handle' = [handle EXCEPT ![s] = MovedOn(o, path[Len(path)], rec, NoRecord)],
             todo' = todo
      PROVE  ScanInv' /\ (status' = "FILEEOF" => todo[s] = {})
  <2>1. rec \in Slot
    BY <1>4, <1>7 DEF Slot, HandleType
  <2>2. todo[s] = {}
    BY <1>2, <1>3, <1>7
  <2>3. PICK p \in DOMAIN pages : p = path[Len(path)]
    BY <1>4
  <2>4. Owed(pages, o.filter, {}, p, rec)
    BY DEF Owed
  <2>5. NoRecord \in Records \cup {NoRecord} /\ todo'[s] = {}
        /\ handle' = [handle EXCEPT ![s] = MovedOn(o, p, rec, NoRecord)]
    BY <1>7, <2>2, <2>3
  <2>6. ScanInv'
    BY <1>5, <1>7, <2>1, <2>4, <2>5
  <2>. QED BY <2>2, <2>6
<1>8. CASE \E x \in hits :
            /\ \A y \in hits : y = x \/ Before(x, y)
            /\ handle' = [handle EXCEPT ![s] = MovedOn(o, path[x[1]], x[2], RecordAt(path, x))]
            /\ todo' = [todo EXCEPT ![s] = @ \ {RecordAt(path, x)}]
            /\ status' = "OK"
  BY <1>6, <1>8
<1>9. CASE \E rec : /\ hits = {}
                    /\ rec = o.curRec \/ (past # {} /\ rec =
                            (CHOOSE x \in past : \A y \in past : (y = x \/ Before(y, x)))[2])
                    /\ handle' = [handle EXCEPT ![s] = MovedOn(o, path[Len(path)], rec, NoRecord)]
                    /\ todo' = todo
  BY <1>7, <1>9
<1>. QED BY <1>8, <1>9 DEF Walk, MovedOn, hits, past, path
\* Steps of objects that are no scans, and of scans that stay.
LEMMA OthersScanInv ==
    ASSUME HandleInv, ScanInv, NEW h \in Handles, NEW m, handle' = [handle EXCEPT ![h] = m],
           RecordsStay, \A t \in Scanners : todo'[t] = todo[t],
           h \in Scanners => /\ m.open = handle[h].open /\ m.curPage = handle[h].curPage
                             /\ m.curRec = handle[h].curRec /\ m.filter = handle[h].filter
                             /\ m.marked = handle[h].marked
    PROVE  ScanInv'
<1>1. handle'[h] = m
  BY DEF HandleInv
<1>2. h \in Scanners => ScanSound(h)'
  BY <1>1, ScanStays DEF ScanInv
<1>. QED BY <1>2, OneScan

LEMMA OpenScanInv ==
    ASSUME HeapInv, ScanInv, NEW s \in Scanners, NEW f \in Filters, HeapFileScanOpen(s, f)
    PROVE  ScanInv'
<1>. DEFINE m == [Closed EXCEPT !.open = TRUE, !.curPage = header.firstPage,
                                !.curPageNo = header.firstPage, !.filter = f]
<1>. DEFINE T == {r \in f : \E p \in DOMAIN pages, n \in SlotNos :
                                Holds(pages[p], n) /\ pages[p].slots[n + 1] = r}
<1>1. /\ s \in Handles /\ FileInv /\ HandleInv /\ header.firstPage \in Int
      /\ todo \in [Scanners -> SUBSET Records] /\ handle \in [Handles -> HandleType]
  BY DEF HeapInv, HandleInv, Handles, FileInv, HeaderType, DataPages
<1>2. /\ handle' = [handle EXCEPT ![s] = m] /\ todo' = [todo EXCEPT ![s] = T] /\ pages' = pages
  BY DEF HeapFileScanOpen
<1>3. /\ m.open = TRUE /\ m.curPage = header.firstPage /\ m.curRec = NullRID /\ m.filter = f
      /\ m.marked.pageNo = 0
  BY DEF Closed
<1>. HIDE DEF m
<1>4. Owed(pages, f, T, Null, NullRID)
  <2>1. /\ \A p \in DOMAIN pages : p \in Int
        /\ \A n \in SlotNos : n \in Int
    BY <1>1 DEF FileInv, SlotNos
  <2>. QED BY <2>1 DEF Owed
<1>. HIDE DEF T
<1>5. Owed(pages, f, T, header.firstPage, NullRID)
  BY <1>1, <1>4, OwedFromFirst
<1>6. todo'[s] = T /\ handle'[s] = m /\ \A t \in Scanners : t # s => todo'[t] = todo[t]
  BY <1>1, <1>2
<1>7. /\ ~handle'[s].open => todo'[s] = {}
      /\ Owed(pages', handle'[s].filter, todo'[s], handle'[s].curPage, handle'[s].curRec)
      /\ handle'[s].marked.pageNo = 0
  BY <1>2, <1>3, <1>5, <1>6
<1>8. ScanSound(s)'
  BY <1>7 DEF ScanSound
<1>. QED BY <1>1, <1>2, <1>6, <1>8, OneScan DEF RecordsStay

LEMMA CloseScanInv ==
    ASSUME HeapInv, ScanInv, NEW h \in Handles, Close(h)
    PROVE  ScanInv'
<1>1. /\ HandleInv /\ todo \in [Scanners -> SUBSET Records] /\ handle \in [Handles -> HandleType]
      /\ handle' = [handle EXCEPT ![h] = Closed] /\ pages' = pages /\ handle'[h] = Closed
      /\ h \in Scanners => todo'[h] = {}
      /\ \A t \in Scanners : t # h => todo'[t] = todo[t]
  BY DEF HeapInv, HandleInv, Close
<1>2. ASSUME h \in Scanners PROVE ScanSound(h)'
  <2>1. Closed.marked.pageNo = 0
    BY ClosedTyped DEF ClosedFacts
  <2>2. Owed(pages', handle'[h].filter, todo'[h], handle'[h].curPage, handle'[h].curRec)
    BY <1>1, <1>2 DEF Owed
  <2>. QED BY <1>1, <1>2, <2>1, <2>2 DEF ScanSound
<1>. QED BY <1>1, <1>2, OneScan DEF RecordsStay

LEMMA ScanNextScanInv ==
    ASSUME HeapInv, ScanInv, NEW s \in Scanners, scanNext(s)
    PROVE  ScanInv' /\ (status' = "FILEEOF" => todo[s] = {})
<1>1. /\ handle[s] \in HandleType /\ PlaceSound(s) /\ FileInv /\ ScanSound(s)
  BY DEF HeapInv, HandleInv, Handles, ScanInv
<1>2. PICK o \in HandleType : o = handle[s]
  BY <1>1
<1>3. /\ o.open /\ Walk(s, pool, o) /\ header' = header /\ pages' = pages
      /\ o.curPage \in DOMAIN pages
  BY <1>1, <1>2, PagesAreNos DEF scanNext, PlaceSound
<1>4. /\ o.filter = handle[s].filter /\ o.marked = handle[s].marked /\ handle[s].open
      /\ Owed(pages, o.filter, todo[s], o.curPage, o.curRec)
  BY <1>1, <1>2, <1>3 DEF ScanSound
<1>. QED BY <1>3, <1>4, WalkScans

LEMMA ScanAgainScanInv ==
    ASSUME HeapInv, ScanInv, NEW s \in Scanners, scanAgain(s)
    PROVE  ScanInv' /\ (status' = "FILEEOF" /\ handle'[s].curPage # Null => todo[s] = {})
<1>. DEFINE p == header.firstPage
<1>1. /\ handle[s] \in HandleType /\ FileInv /\ s \in Handles /\ ScanSound(s) /\ HandleInv
      /\ handle \in [Handles -> HandleType]
      /\ todo \in [Scanners -> SUBSET Records] /\ p \in DOMAIN pages /\ p \in Nat /\ p \in Int
      /\ handle[s].open /\ handle[s].curPage = Null /\ header' = header /\ pages' = pages
  BY PagesAreNos DEF HeapInv, HandleInv, Handles, scanAgain, ScanInv
<1>2. ASSUME handle' = [handle EXCEPT ![s].curPageNo = Eof, ![s].current = NoRecord],
             todo' = todo
      PROVE  ScanInv' /\ handle'[s].curPage = Null
  <2>. DEFINE m == [handle[s] EXCEPT !.curPageNo = Eof, !.current = NoRecord]
  <2>1. handle' = [handle EXCEPT ![s] = m]
    BY <1>1, <1>2 DEF HandleType
  <2>2. /\ m.open = handle[s].open /\ m.curPage = Null /\ m.curRec = handle[s].curRec
        /\ m.filter = handle[s].filter /\ m.marked = handle[s].marked
    BY <1>1 DEF HandleType
  <2>. HIDE DEF m
  <2>3. ScanInv'
    <3>1. RecordsStay /\ \A t \in Scanners : todo'[t] = todo[t]
      BY <1>1, <1>2 DEF RecordsStay
    <3>2. /\ m.open = handle[s].open /\ m.curPage = handle[s].curPage
          /\ m.curRec = handle[s].curRec /\ m.filter = handle[s].filter
          /\ m.marked = handle[s].marked
      BY <1>1, <2>2
    <3>. QED BY <1>1, <2>1, <3>1, <3>2, OthersScanInv
  <2>. QED BY <1>1, <2>1, <2>2, <2>3
<1>3. ASSUME Walk(s, pin(pool, p), [handle[s] EXCEPT !.curPage = p, !.curPageNo = p,
                                                 !.curDirty = FALSE, !.curRec = NullRID])
      PROVE  ScanInv' /\ (status' = "FILEEOF" => todo[s] = {})
  <2>. DEFINE d == FALSE
  <2>. DEFINE o == [handle[s] EXCEPT !.curPage = p, !.curPageNo = p,
                                     !.curDirty = d, !.curRec = NullRID]
  <2>1. Walk(s, pin(pool, p), o) /\ d \in BOOLEAN
    BY <1>3
  <2>2. Owed(pages, handle[s].filter, todo[s], p, NullRID)
    BY <1>1, OwedFromFirst DEF ScanSound
  <2>. HIDE DEF d, p
  <2>3. /\ o \in HandleType /\ o.open = handle[s].open /\ o.curPage = p /\ o.curRec = NullRID
        /\ o.filter = handle[s].filter /\ o.marked = handle[s].marked
    BY <1>1, <2>1 DEF HandleType, Slot
  <2>. HIDE DEF o
  <2>4. Owed(pages, o.filter, todo[s], o.curPage, o.curRec)
    BY <2>2, <2>3
  <2>. QED BY <1>1, <2>1, <2>3, <2>4, WalkScans
<1>. QED BY <1>1, <1>2, <1>3 DEF scanAgain
LEMMA EndScanScanInv ==
    ASSUME HeapInv, ScanInv, NEW s \in Scanners, endScan(s)
    PROVE  ScanInv'
<1>. DEFINE m == [handle[s] EXCEPT !.curPage = Null, !.curPageNo = 0, !.curDirty = FALSE]
<1>1. /\ s \in Handles /\ HandleInv /\ ScanSound(s) /\ handle[s] \in HandleType
      /\ handle' = [handle EXCEPT ![s] = m] /\ todo' = todo /\ pages' = pages /\ handle[s].open
  BY DEF HeapInv, HandleInv, Handles, ScanInv, endScan
<1>2. /\ m.open = handle[s].open /\ m.curPage = Null /\ m.curRec = handle[s].curRec
      /\ m.filter = handle[s].filter /\ m.marked = handle[s].marked
  BY <1>1 DEF HandleType
<1>. HIDE DEF m
<1>3. handle'[s] = m
  BY <1>1 DEF HandleInv
<1>4. /\ Owed(pages, m.filter, todo[s], Null, m.curRec)
      /\ m.marked.pageNo # 0 =>
            Owed(pages, m.filter, m.marked.todo, m.marked.pageNo, m.marked.rec)
  <2>1. PICK T : T = todo[s] /\ Owed(pages, handle[s].filter, T, handle[s].curPage, handle[s].curRec)
    BY <1>1 DEF ScanSound
  <2>2. Owed(pages, handle[s].filter, T, Null, handle[s].curRec)
    BY <2>1, OwedLess
  <2>. QED BY <1>1, <1>2, <2>1, <2>2 DEF ScanSound
<1>5. ScanSound(s)'
  <2>1. /\ handle'[s].open
        /\ Owed(pages', handle'[s].filter, todo'[s], handle'[s].curPage, handle'[s].curRec)
        /\ handle'[s].marked.pageNo # 0 =>
            Owed(pages', handle'[s].filter, handle'[s].marked.todo, handle'[s].marked.pageNo,
                 handle'[s].marked.rec)
    BY <1>1, <1>2, <1>3, <1>4
  <2>. QED BY <2>1 DEF ScanSound
<1>. QED BY <1>1, <1>5, OneScan DEF RecordsStay

LEMMA MarkScanInv ==
    ASSUME HeapInv, ScanInv, NEW s \in Scanners, markScan(s) \/ markDirty(s)
    PROVE  ScanInv'
<1>1. /\ s \in Handles /\ HandleInv /\ ScanSound(s) /\ handle[s] \in HandleType
      /\ todo' = todo /\ pages' = pages /\ handle[s].open /\ PlaceSound(s) /\ handle[s].curPage # Null
  BY DEF HeapInv, HandleInv, Handles, ScanInv, markScan, markDirty
<1>2. CASE markDirty(s)
  <2>. DEFINE m == [handle[s] EXCEPT !.curDirty = TRUE]
  <2>1. /\ handle' = [handle EXCEPT ![s] = m]
        /\ m.open = handle[s].open /\ m.curPage = handle[s].curPage
        /\ m.curRec = handle[s].curRec /\ m.filter = handle[s].filter
        /\ m.marked = handle[s].marked
    BY <1>1, <1>2 DEF markDirty, HandleType
  <2>. HIDE DEF m
  <2>2. RecordsStay /\ \A t \in Scanners : todo'[t] = todo[t]
    BY <1>1 DEF RecordsStay
  <2>. QED BY <1>1, <2>1, <2>2, OthersScanInv
<1>3. CASE markScan(s)
  <2>. DEFINE k == [pageNo |-> handle[s].curPageNo, rec |-> handle[s].curRec, todo |-> todo[s]]
  <2>. DEFINE m == [handle[s] EXCEPT !.marked = k]
  <2>1. handle' = [handle EXCEPT ![s] = m]
    BY <1>3 DEF markScan
  <2>2. k.pageNo = handle[s].curPage /\ k.rec = handle[s].curRec /\ k.todo = todo[s]
    BY <1>1 DEF PlaceSound
  <2>. HIDE DEF k
  <2>3. /\ m.open = handle[s].open /\ m.curPage = handle[s].curPage
        /\ m.curRec = handle[s].curRec /\ m.filter = handle[s].filter /\ m.marked = k
    BY <1>1 DEF HandleType
  <2>. HIDE DEF m
  <2>4. handle'[s] = m
    BY <1>1, <2>1 DEF HandleInv
  <2>5. ScanSound(s)'
    <3>1. /\ handle'[s].open
          /\ Owed(pages', handle'[s].filter, todo'[s], handle'[s].curPage, handle'[s].curRec)
          /\ Owed(pages', handle'[s].filter, handle'[s].marked.todo, handle'[s].marked.pageNo,
                  handle'[s].marked.rec)
      BY <1>1, <2>2, <2>3, <2>4 DEF ScanSound
    <3>. QED BY <3>1 DEF ScanSound
  <2>. QED BY <1>1, <2>1, <2>5, OneScan DEF RecordsStay
<1>. QED BY <1>2, <1>3

LEMMA ResetScanInv ==
    ASSUME HeapInv, ScanInv, NEW s \in Scanners, resetScan(s)
    PROVE  ScanInv'
<1>1. /\ s \in Handles /\ HandleInv /\ FileInv /\ ScanSound(s) /\ handle[s] \in HandleType
      /\ PlaceSound(s) /\ todo \in [Scanners -> SUBSET Records]
  BY DEF HeapInv, HandleInv, Handles, ScanInv
<1>2. /\ todo' = [todo EXCEPT ![s] = handle[s].marked.todo] /\ pages' = pages
      /\ handle[s].open /\ handle[s].marked.pageNo > 0
      /\ handle' = [handle EXCEPT ![s] =
                MovedOn(handle[s], handle[s].marked.pageNo, handle[s].marked.rec, NoRecord)]
  BY DEF resetScan, ResetPage, MovedOn
<1>3. PICK o \in HandleType, p \in Nat, n \in Slot, U \in SUBSET Records :
        o = handle[s] /\ p = handle[s].marked.pageNo /\ n = handle[s].marked.rec
        /\ U = handle[s].marked.todo /\ o.open
  BY <1>1, <1>2 DEF HandleType
<1>4. PICK m : m = MovedOn(o, p, n, NoRecord)
  OBVIOUS
<1>5. /\ m.curPage = p /\ m.curRec = n /\ m.marked = o.marked /\ m.filter = o.filter
      /\ m.open
  <2>1. NoRecord \in Records \cup {NoRecord}
    OBVIOUS
  <2>2. m.curPage = p /\ m.curRec = n /\ m.marked = o.marked
    BY <1>4, <2>1, MovedOnEffect
  <2>3. m.filter = o.filter
    BY <1>4, <2>1, MovedOnEffect
  <2>4. m.open = o.open
    BY <1>4, <2>1, MovedOnEffect
  <2>. QED BY <1>3, <2>2, <2>3, <2>4
<1>6. handle' = [handle EXCEPT ![s] = m] /\ handle'[s] = m /\ todo'[s] = U
      /\ \A t \in Scanners : t # s => todo'[t] = todo[t]
  BY <1>1, <1>2, <1>3, <1>4 DEF HandleInv
<1>7. Owed(pages, o.filter, U, p, n) /\ p # 0
  BY <1>1, <1>2, <1>3 DEF ScanSound
<1>8. o.marked.todo = U /\ o.marked.pageNo = p /\ o.marked.rec = n
  BY <1>3
<1>9. ScanSound(s)'
  <2>1. /\ handle'[s].open
        /\ Owed(pages', handle'[s].filter, todo'[s], handle'[s].curPage, handle'[s].curRec)
        /\ Owed(pages', handle'[s].filter, handle'[s].marked.todo, handle'[s].marked.pageNo,
                handle'[s].marked.rec)
    BY <1>2, <1>5, <1>6, <1>7, <1>8
  <2>. QED BY <2>1 DEF ScanSound
<1>. QED BY <1>1, <1>2, <1>6, <1>9, OneScan DEF RecordsStay

LEMMA DeleteScanInv ==
    ASSUME HeapInv, ScanInv, NEW s \in Scanners, HasCurrent(s), deleteRecord(s)
    PROVE  ScanInv'
<1>1. PICK y, k, gone :
        /\ y = handle[s].curPage /\ k = handle[s].curRec /\ gone = pages[y].slots[k + 1]
        /\ Loses(y, k)
  BY DeleteStep
<1>2. /\ todo' = [t \in Scanners |-> todo[t] \ {gone}]
      /\ handle' = [h \in Handles |-> IF h \notin Scanners THEN handle[h]
                                      ELSE Forgets(handle[h], gone, h = s)]
  BY <1>1 DEF deleteRecord, HasCurrent, Forgets
<1>. SUFFICES ASSUME NEW t \in Scanners PROVE ScanSound(t)'
  BY DEF ScanInv
<1>3. /\ t \in Handles /\ handle[t] \in HandleType /\ ScanSound(t)
  BY DEF HeapInv, HandleInv, Handles, ScanInv
<1>4. PICK m : m = Forgets(handle[t], gone, t = s) /\ handle'[t] = m
  BY <1>2, <1>3
<1>5. /\ m.open = handle[t].open /\ m.curPage = handle[t].curPage /\ m.curRec = handle[t].curRec
      /\ m.filter = handle[t].filter
      /\ m.marked.pageNo = handle[t].marked.pageNo /\ m.marked.rec = handle[t].marked.rec
      /\ m.marked.todo = handle[t].marked.todo \ {gone}
  <2>1. handle[t].marked \in [pageNo: Nat, rec: Slot, todo: SUBSET Records]
    BY <1>3 DEF HandleType
  <2>. QED BY <1>3, <1>4, <2>1 DEF Forgets, HandleType
<1>6. PICK f, T, p, n, U, q, i :
        /\ f = handle[t].filter /\ T = todo[t] /\ p = handle[t].curPage /\ n = handle[t].curRec
        /\ U = handle[t].marked.todo /\ q = handle[t].marked.pageNo /\ i = handle[t].marked.rec
  OBVIOUS
<1>7. (~handle[t].open => T = {}) /\ Owed(pages, f, T, p, n) /\ (q # 0 => Owed(pages, f, U, q, i))
  BY <1>3, <1>6 DEF ScanSound
<1>8. Owed(pages', f, T \ {gone}, p, n) /\ (q # 0 => Owed(pages', f, U \ {gone}, q, i))
  BY <1>1, <1>7, OwedWithout
<1>9. /\ ~handle'[t].open => todo'[t] = {}
      /\ Owed(pages', handle'[t].filter, todo'[t], handle'[t].curPage, handle'[t].curRec)
      /\ handle'[t].marked.pageNo # 0 =>
            Owed(pages', handle'[t].filter, handle'[t].marked.todo, handle'[t].marked.pageNo,
                 handle'[t].marked.rec)
  BY <1>2, <1>4, <1>5, <1>6, <1>7, <1>8
<1>. QED BY <1>9 DEF ScanSound
\* No step of an object that is no scan takes a record away.
LEMMA InsertScanInv ==
    ASSUME HeapInv, ScanInv, NEW h \in Inserters, NEW r \in Records, NEW len \in Lengths,
           insertRecord(h, r, len)
    PROVE  ScanInv'
<1>1. /\ HandleInv /\ todo' = todo /\ handle[h].open /\ h \notin Scanners /\ h \in Handles
      /\ handle \in [Handles -> HandleType]
  BY HandlesAssumption DEF HeapInv, HandleInv, Handles, insertRecord
<1>2. RecordsStay
  <2>1. CASE InsertHere(h, r, len)
    BY <1>1, <2>1, InsertHereStep DEF Gains, RecordsStay
  <2>2. CASE InsertNewPage(h, r, len)
    BY <1>1, <2>2, InsertNewPageStep DEF Gains, Keeps, RecordsStay
  <2>3. CASE UNCHANGED <<header, pages, pool, handle>>
    BY <2>3 DEF RecordsStay
  <2>. QED BY <2>1, <2>2, <2>3 DEF insertRecord
<1>3. \A t \in Scanners : handle'[t] = handle[t]
  <2>1. \A t \in Scanners : t \in Handles /\ t # h
    BY <1>1 DEF Handles
  <2>2. CASE InsertHere(h, r, len)
    BY <1>1, <2>1, <2>2 DEF InsertHere
  <2>3. CASE InsertNewPage(h, r, len)
    BY <1>1, <2>1, <2>3 DEF InsertNewPage
  <2>4. CASE UNCHANGED <<header, pages, pool, handle>>
    BY <2>4
  <2>. QED BY <2>2, <2>3, <2>4 DEF insertRecord
<1>. SUFFICES ASSUME NEW t \in Scanners PROVE ScanSound(t)'
  BY DEF ScanInv
<1>4. ScanSound(t) /\ handle'[t] = handle[t] /\ todo'[t] = todo[t]
  BY <1>1, <1>3 DEF ScanInv
<1>. QED BY <1>2, <1>4, ScanStays

LEMMA OpenScansStay ==
    ASSUME HeapInv, ScanInv, NEW h \in Handles, h \notin Scanners,
           HeapFileOpen(h) \/ InsertFileScanOpen(h)
    PROVE  ScanInv'
<1>1. PICK m : handle' = [handle EXCEPT ![h] = m] /\ pages' = pages /\ todo' = todo
  BY DEF HeapFileOpen, InsertFileScanOpen, Constructed
<1>2. HandleInv /\ RecordsStay
  BY <1>1 DEF HeapInv, RecordsStay
<1>. QED BY <1>1, <1>2, OthersScanInv

LEMMA ReadScansStay ==
    ASSUME HeapInv, ScanInv, NEW h \in Readers, NEW p \in DataPages, NEW n \in SlotNos,
           getRecord(h, p, n)
    PROVE  ScanInv'
<1>1. PICK m : handle' = [handle EXCEPT ![h] = m] /\ pages' = pages /\ todo' = todo
  BY DEF getRecord
<1>2. HandleInv /\ RecordsStay /\ h \in Handles /\ h \notin Scanners
  BY <1>1, HandlesAssumption DEF HeapInv, RecordsStay, Handles
<1>. QED BY <1>1, <1>2, OthersScanInv

LEMMA InitScanInv == Init => ScanInv
<1>. SUFFICES ASSUME Init, NEW s \in Scanners PROVE ScanSound(s)
  BY DEF ScanInv
<1>1. handle[s] = Closed /\ todo[s] = {}
  BY DEF Init, Handles
<1>. QED BY <1>1, ClosedTyped DEF ScanSound, Owed, ClosedFacts

LEMMA NextScanInv == HeapInv /\ ScanInv /\ [Next]_vars => ScanInv'
<1>. SUFFICES ASSUME HeapInv, ScanInv, [Next]_vars PROVE ScanInv'
  OBVIOUS
<1>1. CASE UNCHANGED vars
  <2>1. RecordsStay /\ handle' = handle /\ todo' = todo
    BY <1>1 DEF vars, RecordsStay
  <2>. SUFFICES ASSUME NEW s \in Scanners PROVE ScanSound(s)'
    BY DEF ScanInv
  <2>. QED BY <2>1, ScanStays DEF ScanInv
<1>2. ASSUME NEW h \in Readers, HeapFileOpen(h) PROVE ScanInv'
  BY <1>2, OpenScansStay, HandlesAssumption DEF Handles
<1>3. ASSUME NEW h \in Inserters, InsertFileScanOpen(h) PROVE ScanInv'
  BY <1>3, OpenScansStay, HandlesAssumption DEF Handles
<1>4. ASSUME NEW s \in Scanners, NEW f \in Filters, HeapFileScanOpen(s, f) PROVE ScanInv'
  BY <1>4, OpenScanInv
<1>5. ASSUME NEW h \in Handles, Close(h) PROVE ScanInv'
  BY <1>5, CloseScanInv
<1>6. ASSUME NEW h \in Inserters, NEW r \in Records, NEW len \in Lengths, insertRecord(h, r, len)
      PROVE  ScanInv'
  BY <1>6, InsertScanInv
<1>7. ASSUME NEW s \in Scanners, scanNext(s) PROVE ScanInv'
  BY <1>7, ScanNextScanInv
<1>8. ASSUME NEW s \in Scanners, scanAgain(s) PROVE ScanInv'
  BY <1>8, ScanAgainScanInv
<1>9. ASSUME NEW s \in Scanners, endScan(s) PROVE ScanInv'
  BY <1>9, EndScanScanInv
<1>10. ASSUME NEW s \in Markers, markScan(s) \/ markDirty(s) PROVE ScanInv'
  BY <1>10, MarkScanInv, HandlesAssumption
<1>11. ASSUME NEW s \in Markers, resetScan(s) PROVE ScanInv'
  BY <1>11, ResetScanInv, HandlesAssumption
<1>12. ASSUME NEW s \in Scanners, HasCurrent(s), deleteRecord(s) PROVE ScanInv'
  BY <1>12, DeleteScanInv
<1>13. ASSUME NEW h \in Readers, NEW p \in DataPages, NEW n \in SlotNos, getRecord(h, p, n)
       PROVE  ScanInv'
  BY <1>13, ReadScansStay
<1>. QED BY <1>1, <1>2, <1>3, <1>4, <1>5, <1>6, <1>7, <1>8, <1>9, <1>10, <1>11, <1>12, <1>13 DEF Next

\* A scan that says FILEEOF has returned every matching record that was in the
\* file when it started and was not deleted, for any number of scans,
\* insertions and reads beside it, across pages, marks and a second run.
THEOREM ScanCompleteAlways == Spec => ScanComplete
<1>1. Init => HeapInv /\ ScanInv
  BY InitHeapInv, InitScanInv
<1>2. HeapInv /\ ScanInv /\ [Next]_vars => HeapInv' /\ ScanInv'
  BY NextHeapInv, NextScanInv
<1>3. HeapInv /\ ScanInv
        => \A s \in Scanners :
                /\ status' = "FILEEOF"
                /\ scanNext(s) \/ (scanAgain(s) /\ handle'[s].curPage # Null)
                => todo[s] = {}
  BY ScanNextScanInv, ScanAgainScanInv
<1>. QED BY <1>1, <1>2, <1>3, PTL DEF Spec, ScanComplete
=============================================================================
