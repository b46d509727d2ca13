-------------------------- MODULE SlottedPageProofs --------------------------
(***************************************************************************)
(* Proofs about the data page, for a data area, slots and records of any   *)
(* size.                                                                   *)
(***************************************************************************)
EXTENDS SlottedPage, TLAPS

-----------------------------------------------------------------------------
(* The inductive invariant.                                                *)

\* The last slot is in use: emptied slots are given back from the end.
LastInUse == slotCnt > 0 => slot[slotCnt - 1].length # NotInUse

IInv == TypeOK /\ SpaceAccounted /\ RecordsTile /\ LastInUse

LEMMA InitIInv == Init => IInv
<1>. SUFFICES ASSUME Init PROVE IInv
  OBVIOUS
<1>1. SlotNos = {} /\ Live = {}
  BY DEF Init, SlotNos, Live
<1>2. DOMAIN slot = {} /\ slot = [n \in DOMAIN slot |-> slot[n]]
  BY DEF Init
<1>3. slot \in [SlotNos -> [offset: Nat, length: Nat \cup {NotInUse}]]
  BY <1>1, <1>2
<1>4. TypeOK
  BY <1>3, SizesAssumption DEF Init, TypeOK, Addr
<1>5. SpaceAccounted /\ RecordsTile /\ LastInUse
  BY <1>1, SizesAssumption DEF Init, SpaceAccounted, RecordsTile, LastInUse
<1>. QED BY <1>4, <1>5 DEF IInv

\* Multiplying by the slot size, for the accounting.
LEMMA SlotSizeArithmetic ==
    /\ \A x \in Int : SlotSize * (x + 1) = SlotSize * x + SlotSize
    /\ \A x, y \in Int : SlotSize * (x - y) = SlotSize * x - SlotSize * y
    /\ \A x \in Nat : SlotSize * x \in Nat
    /\ \A x \in Int : SlotSize * x \in Int /\ SlotSize * x = x * SlotSize
BY SizesAssumption

-----------------------------------------------------------------------------
(* insertRecord.                                                           *)

\* What a successful insert does: the record gets slot n, which was free, and
\* the bytes from freePtr on; other slots and the bytes in front stay.
InsertedAt(n, r) ==
    /\ n \in 0 .. slotCnt /\ n \notin Live
    /\ slotCnt' = IF n = slotCnt THEN slotCnt + 1 ELSE slotCnt
    /\ SlotNos' = SlotNos \cup {n}
    /\ Live' = Live \cup {n}
    /\ slot' \in [SlotNos' -> [offset: Nat, length: Nat \cup {NotInUse}]]
    /\ slot'[n].offset = freePtr /\ slot'[n].length = Len(r)
    /\ \A m \in SlotNos : m # n => slot'[m] = slot[m]
    /\ freePtr' = freePtr + Len(r)
    /\ freeSpace' = DataSize - freePtr' - SlotSize * slotCnt'
    /\ freeSpace' \in Nat /\ freePtr' <= DataSize
    /\ data' \in [Addr -> Byte]
    /\ \A a \in Addr : a < freePtr => data'[a] = data[a]
    /\ \A j \in 1 .. Len(r) : data'[freePtr + j - 1] = r[j]
    /\ status' = "OK"

LEMMA InsertEffect ==
    ASSUME IInv, NEW r \in Records, insertRecord(r), Len(r) + SlotSize <= freeSpace
    PROVE  \E n \in 0 .. slotCnt : IsFirstEmpty(n) /\ InsertedAt(n, r)
<1>. USE DEF IInv
<1>1. /\ r \in Seq(Byte) /\ Len(r) \in Nat /\ Len(r) > 0
      /\ \A j \in 1 .. Len(r) : r[j] \in Byte
  BY RecordsAssumption
<1>2. /\ slotCnt \in Nat /\ freePtr \in Nat /\ freeSpace \in Nat
      /\ SlotSize \in Nat /\ SlotSize > 0 /\ DataSize \in Nat
      /\ freeSpace = DataSize - freePtr - SlotSize * slotCnt
      /\ SlotSize * slotCnt \in Nat
  BY SizesAssumption, SlotSizeArithmetic DEF TypeOK, SpaceAccounted
<1>3. ~(Len(r) + SlotSize > freeSpace)
  BY <1>1, <1>2
<1>4. PICK n \in 0 .. slotCnt :
        /\ IsFirstEmpty(n)
        /\ slotCnt' = IF n = slotCnt THEN slotCnt + 1 ELSE slotCnt
        /\ freeSpace' = freeSpace - Len(r) - (IF n = slotCnt THEN SlotSize ELSE 0)
        /\ slot' = [m \in 0 .. slotCnt' - 1 |->
                      IF m = n THEN [offset |-> freePtr, length |-> Len(r)]
                      ELSE slot[m]]
  BY <1>3 DEF insertRecord, SlotCost
<1>5. /\ data' = [a \in Addr |->
                    IF a \in freePtr .. freePtr + Len(r) - 1
                    THEN r[a - freePtr + 1] ELSE data[a]]
      /\ freePtr' = freePtr + Len(r)
      /\ status' = "OK"
  BY <1>3 DEF insertRecord
<1>6. slotCnt' \in Nat /\ SlotNos' = SlotNos \cup {n} /\ n \in SlotNos'
  BY <1>2, <1>4 DEF SlotNos
<1>7. n \notin Live
  BY <1>2, <1>4 DEF IsFirstEmpty, Live, SlotNos
<1>8. /\ slot' \in [SlotNos' -> [offset: Nat, length: Nat \cup {NotInUse}]]
      /\ slot'[n].offset = freePtr /\ slot'[n].length = Len(r)
      /\ \A m \in SlotNos : m # n => slot'[m] = slot[m]
  <2>1. slot' = [m \in SlotNos' |-> IF m = n THEN [offset |-> freePtr, length |-> Len(r)]
                                    ELSE slot[m]]
    BY <1>4 DEF SlotNos
  <2>2. \A m \in SlotNos : slot[m] \in [offset: Nat, length: Nat \cup {NotInUse}]
    BY DEF TypeOK
  <2>. QED BY <1>1, <1>2, <1>6, <2>1, <2>2
<1>9. Live' = Live \cup {n}
  <2>1. Live' = {m \in SlotNos' : slot'[m].length # NotInUse}
    BY DEF Live
  <2>2. slot'[n].length # NotInUse
    BY <1>1, <1>8 DEF NotInUse
  <2>3. \A m \in SlotNos : m # n => slot'[m].length = slot[m].length
    BY <1>8
  <2>. QED BY <1>6, <2>1, <2>2, <2>3 DEF Live
<1>10. /\ freeSpace' = DataSize - freePtr' - SlotSize * slotCnt'
       /\ freeSpace' \in Nat /\ freePtr' <= DataSize
  <2>1. CASE n = slotCnt
    <3>1. SlotSize * slotCnt' = SlotSize * slotCnt + SlotSize
      BY <1>2, <1>4, <2>1, SlotSizeArithmetic
    <3>. QED BY <1>1, <1>2, <1>4, <1>5, <2>1, <3>1
  <2>2. CASE n # slotCnt
    BY <1>1, <1>2, <1>4, <1>5, <2>2
  <2>. QED BY <2>1, <2>2
<1>11. /\ data' \in [Addr -> Byte]
       /\ \A a \in Addr : a < freePtr => data'[a] = data[a]
  BY <1>1, <1>2, <1>5 DEF TypeOK, Addr
<1>12. \A j \in 1 .. Len(r) : data'[freePtr + j - 1] = r[j]
  BY <1>1, <1>2, <1>5, <1>10 DEF Addr
<1>. QED BY <1>4, <1>5, <1>6, <1>7, <1>8, <1>9, <1>10, <1>11, <1>12 DEF InsertedAt

LEMMA InsertStep ==
    ASSUME IInv, NEW r \in Records, insertRecord(r)
    PROVE  IInv'
<1>1. CASE Len(r) + SlotSize > freeSpace
  BY <1>1 DEF insertRecord, IInv, TypeOK, SpaceAccounted, RecordsTile, LastInUse,
              SlotNos, Live, In, Addr
<1>2. CASE ~(Len(r) + SlotSize > freeSpace)
  <2>1. Len(r) \in Nat /\ Len(r) > 0
    BY RecordsAssumption
  <2>2. PICK n \in 0 .. slotCnt : IsFirstEmpty(n) /\ InsertedAt(n, r)
    BY <1>2, <2>1, SizesAssumption, InsertEffect DEF IInv, TypeOK
  <2>3. /\ freePtr \in Nat /\ slotCnt \in Nat
        /\ \A m \in Live : /\ m \in SlotNos
                           /\ slot[m].offset \in Nat /\ slot[m].length \in Nat
                           /\ slot[m].length > 0
                           /\ slot[m].offset + slot[m].length <= freePtr
    BY DEF IInv, TypeOK, RecordsTile, Live
  <2>4. TypeOK'
    <3>1. SlotSize * slotCnt' \in Nat /\ slotCnt' \in Nat
      <4>1. slotCnt' \in Nat
        BY <2>2, <2>3 DEF InsertedAt
      <4>. QED BY <4>1, SlotSizeArithmetic
    <3>2. freeSpace' \in 0 .. DataSize /\ freePtr' \in 0 .. DataSize
      BY <2>1, <2>2, <2>3, <3>1, SizesAssumption DEF InsertedAt
    <3>. QED BY <2>2, <3>1, <3>2 DEF TypeOK, InsertedAt
  <2>5. SpaceAccounted'
    BY <2>2 DEF SpaceAccounted, InsertedAt
  <2>6. \A m \in Live : m # n /\ slot'[m] = slot[m]
    BY <2>2, <2>3 DEF InsertedAt
  <2>7. RecordsTile'
    <3>1. \A a \in 0 .. freePtr' - 1 : \E m \in Live' : In(a, m)'
      <4>. SUFFICES ASSUME NEW a \in 0 .. freePtr' - 1
                    PROVE  \E m \in Live' : In(a, m)'
        OBVIOUS
      <4>1. CASE a < freePtr
        <5>1. PICK m \in Live : In(a, m)
          BY <2>3, <4>1 DEF IInv, RecordsTile
        <5>. QED BY <2>2, <2>6, <5>1 DEF InsertedAt, In
      <4>2. CASE ~(a < freePtr)
        <5>1. In(a, n)'
          BY <2>1, <2>2, <2>3, <4>2 DEF InsertedAt, In
        <5>. QED BY <2>2, <5>1 DEF InsertedAt
      <4>. QED BY <4>1, <4>2
    <3>2. \A m \in Live' : /\ slot'[m].length > 0
                           /\ slot'[m].offset + slot'[m].length <= freePtr'
      BY <2>1, <2>2, <2>3, <2>6 DEF InsertedAt
    <3>3. \A m1, m2 \in Live' : m1 # m2 =>
            \/ slot'[m1].offset + slot'[m1].length <= slot'[m2].offset
            \/ slot'[m2].offset + slot'[m2].length <= slot'[m1].offset
      BY <2>1, <2>2, <2>3, <2>6 DEF InsertedAt, IInv, RecordsTile
    <3>. QED BY <3>1, <3>2, <3>3 DEF RecordsTile
  <2>8. LastInUse'
    <3>1. CASE n = slotCnt
      <4>1. slotCnt' - 1 = n
        BY <2>2, <2>3, <3>1 DEF InsertedAt
      <4>. QED BY <2>1, <2>2, <4>1 DEF InsertedAt, LastInUse, NotInUse
    <3>2. CASE n # slotCnt
      <4>1. slotCnt' = slotCnt
        BY <2>2, <2>3, <3>2 DEF InsertedAt
      <4>2. slotCnt > 0 => slotCnt - 1 \in Live
        BY <2>3 DEF IInv, LastInUse, Live, SlotNos
      <4>. QED BY <2>6, <4>1, <4>2 DEF LastInUse, IInv
    <3>. QED BY <3>1, <3>2
  <2>. QED BY <2>4, <2>5, <2>7, <2>8 DEF IInv
<1>. QED BY <1>1, <1>2

-----------------------------------------------------------------------------
(* deleteRecord.                                                           *)

\* Where the bytes of record m start once record n has been taken out.
NewOffset(m, n) ==
    IF slot[m].offset > slot[n].offset THEN slot[m].offset - slot[n].length
    ELSE slot[m].offset

\* What a successful delete does: record n is gone, the records behind it move
\* down by its length together with their slots, the others stay.
Deleted(n) ==
    /\ n \in Live
    /\ Live' = Live \ {n}
    /\ slotCnt' \in Nat
    /\ slotCnt' > 0 => slotCnt' - 1 \in Live'
    /\ slot' \in [SlotNos' -> [offset: Nat, length: Nat \cup {NotInUse}]]
    /\ \A m \in Live' : /\ slot'[m].offset = NewOffset(m, n)
                        /\ slot'[m].length = slot[m].length
    /\ freePtr' = freePtr - slot[n].length
    /\ freeSpace' = DataSize - freePtr' - SlotSize * slotCnt'
    /\ data' = Compacted(slot[n].offset, slot[n].length)
    /\ status' = "OK"

\* The records of a page, as numbers.
LEMMA LiveFacts ==
    ASSUME IInv
    PROVE  /\ freePtr \in Nat /\ slotCnt \in Nat /\ freePtr <= DataSize
           /\ \A m \in Live : /\ m \in SlotNos
                              /\ slot[m].offset \in Nat /\ slot[m].length \in Nat
                              /\ slot[m].length > 0
                              /\ slot[m].offset + slot[m].length <= freePtr
           /\ \A m, n \in Live : m # n =>
                 \/ slot[m].offset + slot[m].length <= slot[n].offset
                 \/ slot[n].offset + slot[n].length <= slot[m].offset
BY SizesAssumption DEF IInv, TypeOK, RecordsTile, Live

LEMMA ShiftedSlots ==
    ASSUME IInv, NEW n \in Live
    PROVE  /\ Shifted(n) \in [SlotNos -> [offset: Nat, length: Nat \cup {NotInUse}]]
           /\ \A m \in SlotNos : Shifted(n)[m].length = slot[m].length
           /\ \A m \in Live : Shifted(n)[m].offset = NewOffset(m, n)
<1>1. ASSUME NEW m \in SlotNos
      PROVE  /\ Shifted(n)[m] \in [offset: Nat, length: Nat \cup {NotInUse}]
             /\ Shifted(n)[m].length = slot[m].length
             /\ m \in Live => Shifted(n)[m].offset = NewOffset(m, n)
  <2>1. slot[m] \in [offset: Nat, length: Nat \cup {NotInUse}]
    BY DEF IInv, TypeOK
  <2>2. m \in Live <=> slot[m].length >= 0
    BY <2>1 DEF Live, NotInUse
  <2>3. CASE slot[m].length >= 0 /\ slot[m].offset > slot[n].offset
    <3>1. Shifted(n)[m] = [slot[m] EXCEPT !.offset = slot[m].offset - slot[n].length]
      BY <2>3 DEF Shifted
    <3>2. m # n
      BY <2>3, LiveFacts
    <3>3. slot[m].offset - slot[n].length \in Nat
      BY <2>2, <2>3, <3>2, LiveFacts
    <3>. QED BY <2>1, <2>3, <3>1, <3>3 DEF NewOffset
  <2>4. CASE ~(slot[m].length >= 0 /\ slot[m].offset > slot[n].offset)
    <3>1. Shifted(n)[m] = slot[m]
      BY <2>4 DEF Shifted
    <3>. QED BY <2>1, <2>2, <2>4, <3>1 DEF NewOffset
  <2>. QED BY <2>3, <2>4
<1>2. Shifted(n) = [m \in SlotNos |-> Shifted(n)[m]]
  BY DEF Shifted
<1>. QED BY <1>1, <1>2 DEF Live

LEMMA DeleteEffect ==
    ASSUME IInv, NEW n \in SlotNos, slot[n].length > 0, deleteRecord(n)
    PROVE  Deleted(n)
<1>1. n \in Live /\ slot[n].length \in Nat
  <2>1. slot[n].length \in Nat \cup {NotInUse}
    BY DEF IInv, TypeOK
  <2>. QED BY <2>1 DEF Live, NotInUse
<1>2. /\ data' = Compacted(slot[n].offset, slot[n].length)
      /\ freePtr' = freePtr - slot[n].length
      /\ status' = "OK"
  BY DEF deleteRecord
<1>. DEFINE S == Shifted(n)
<1>. DEFINE SlotType == [offset: Nat, length: Nat \cup {NotInUse}]
<1>3. /\ S \in [SlotNos -> SlotType]
      /\ \A m \in SlotNos : S[m].length = slot[m].length
      /\ \A m \in Live : S[m].offset = NewOffset(m, n)
  BY <1>1, ShiftedSlots
<1>. HIDE DEF S, SlotType
<1>4. /\ slotCnt \in Nat /\ freePtr \in Int /\ freeSpace \in Int /\ DataSize \in Nat
      /\ SlotSize \in Nat
      /\ freeSpace = DataSize - freePtr - SlotSize * slotCnt
      /\ SlotSize * slotCnt \in Nat
  BY SizesAssumption, SlotSizeArithmetic DEF IInv, TypeOK, SpaceAccounted
<1>5. CASE n = slotCnt - 1
  <2>1. PICK k \in 0 .. slotCnt - 1 :
          /\ IsCompactCount(k)
          /\ slotCnt' = k
          /\ slot' = [m \in 0 .. k - 1 |-> S[m]]
          /\ freeSpace' = freeSpace + slot[n].length + (slotCnt - k) * SlotSize
    BY <1>5 DEF deleteRecord, S
  <2>2. SlotNos' = 0 .. k - 1 /\ SlotNos' \subseteq SlotNos /\ k \in Nat
    BY <1>4, <2>1 DEF SlotNos
  <2>3. Live' = Live \ {n}
    <3>1. Live' = {m \in SlotNos' : slot[m].length # NotInUse}
      BY <1>3, <2>1, <2>2 DEF Live
    <3>2. \A m \in SlotNos : m # n /\ m \notin SlotNos' => slot[m].length = NotInUse
      BY <1>4, <1>5, <2>1, <2>2 DEF IsCompactCount, SlotNos
    <3>3. n \notin SlotNos'
      BY <1>4, <1>5, <2>1, <2>2
    <3>. QED BY <2>2, <3>1, <3>2, <3>3 DEF Live
  <2>4. slot' \in [SlotNos' -> SlotType]
    BY <1>3, <2>1, <2>2
  <2>5. \A m \in Live' : slot'[m] = S[m] /\ m \in SlotNos
    BY <2>1, <2>2, <2>3 DEF Live
  <2>6. slotCnt' > 0 => slotCnt' - 1 \in Live'
    <3>1. ASSUME k > 0 PROVE k - 1 \in Live /\ k - 1 # n
      BY <1>4, <1>5, <2>1, <3>1 DEF IsCompactCount, Live, SlotNos
    <3>. QED BY <2>1, <2>3, <3>1
  <2>7. freeSpace' = DataSize - freePtr' - SlotSize * slotCnt'
    <3>1. (slotCnt - k) * SlotSize = SlotSize * slotCnt - SlotSize * k
      BY <1>4, <2>2, SlotSizeArithmetic
    <3>2. SlotSize * k \in Int
      BY <2>2, SlotSizeArithmetic
    <3>. QED BY <1>1, <1>2, <1>4, <2>1, <3>1, <3>2
  <2>. QED BY <1>1, <1>2, <1>3, <2>1, <2>2, <2>3, <2>4, <2>5, <2>6, <2>7 DEF Deleted, SlotType
<1>6. CASE n # slotCnt - 1
  <2>1. /\ slot' = [S EXCEPT ![n] = [offset |-> 0, length |-> NotInUse]]
        /\ freeSpace' = freeSpace + slot[n].length
        /\ slotCnt' = slotCnt
    BY <1>6 DEF deleteRecord, S
  <2>2. SlotNos' = SlotNos
    BY <2>1 DEF SlotNos
  <2>3. slot' \in [SlotNos' -> SlotType]
    BY <1>3, <2>1, <2>2 DEF SlotType
  <2>4. /\ slot'[n].length = NotInUse
        /\ \A m \in SlotNos : m # n => slot'[m] = S[m]
    BY <1>3, <2>1
  <2>5. Live' = Live \ {n}
    <3>1. Live' = {m \in SlotNos : slot'[m].length # NotInUse}
      BY <2>2 DEF Live
    <3>. QED BY <1>3, <2>4, <3>1 DEF Live
  <2>6. slotCnt' > 0 => slotCnt' - 1 \in Live'
    BY <1>4, <1>6, <2>1, <2>5 DEF IInv, LastInUse, Live, SlotNos
  <2>7. freeSpace' = DataSize - freePtr' - SlotSize * slotCnt'
    BY <1>1, <1>2, <1>4, <2>1
  <2>. QED BY <1>1, <1>2, <1>3, <1>4, <2>1, <2>3, <2>4, <2>5, <2>6, <2>7 DEF Deleted, SlotType, Live
<1>. QED BY <1>5, <1>6

LEMMA DeleteStep ==
    ASSUME IInv, NEW n \in Nat, deleteRecord(n)
    PROVE  IInv'
<1>1. CASE ~(n \in SlotNos /\ slot[n].length > 0)
  BY <1>1 DEF deleteRecord, IInv, TypeOK, SpaceAccounted, RecordsTile, LastInUse,
              SlotNos, Live, In, Addr
<1>2. CASE n \in SlotNos /\ slot[n].length > 0
  <2>. DEFINE off == slot[n].offset
  <2>. DEFINE len == slot[n].length
  <2>1. Deleted(n)
    BY <1>2, DeleteEffect
  <2>2. /\ n \in Live /\ Live' = Live \ {n}
        /\ off \in Nat /\ len \in Nat /\ len > 0 /\ off + len <= freePtr
        /\ freePtr \in Nat /\ freePtr <= DataSize
        /\ freePtr' = freePtr - len
    BY <2>1, LiveFacts DEF Deleted
  <2>3. \A m \in Live : /\ slot[m].offset \in Nat /\ slot[m].length \in Nat
                        /\ slot[m].length > 0
                        /\ slot[m].offset + slot[m].length <= freePtr
    BY LiveFacts
  <2>4. \A m \in Live' : \/ /\ slot[m].offset + slot[m].length <= off
                            /\ slot'[m].offset = slot[m].offset
                         \/ /\ off + len <= slot[m].offset
                            /\ slot'[m].offset = slot[m].offset - len
    <3>. SUFFICES ASSUME NEW m \in Live'
                  PROVE  \/ /\ slot[m].offset + slot[m].length <= off
                            /\ slot'[m].offset = slot[m].offset
                         \/ /\ off + len <= slot[m].offset
                            /\ slot'[m].offset = slot[m].offset - len
      OBVIOUS
    <3>1. m \in Live /\ m # n
      BY <2>2
    <3>2. slot[m].offset + slot[m].length <= off \/ off + len <= slot[m].offset
      BY <2>2, <3>1, LiveFacts
    <3>3. slot'[m].offset = IF slot[m].offset > off THEN slot[m].offset - len
                            ELSE slot[m].offset
      BY <2>1 DEF Deleted, NewOffset
    <3>4. slot[m].offset \in Nat /\ slot[m].length \in Nat /\ slot[m].length > 0
      BY <2>3, <3>1
    <3>. HIDE DEF off, len
    <3>. QED BY <2>2, <3>2, <3>3, <3>4
  <2>5. \A m \in Live' : slot'[m].length = slot[m].length
    BY <2>1 DEF Deleted
  <2>. HIDE DEF off, len
  <2>6. RecordsTile'
    <3>1. ASSUME NEW a \in 0 .. freePtr' - 1
          PROVE  \E m \in Live' : In(a, m)'
      <4>1. CASE a < off
        <5>1. PICK m \in Live : In(a, m)
          BY <2>2, <4>1 DEF IInv, RecordsTile
        <5>2. m \in Live'
          BY <2>2, <4>1, <5>1 DEF In, off
        <5>. QED BY <2>2, <2>3, <2>4, <2>5, <4>1, <5>1, <5>2 DEF In
      <4>2. CASE ~(a < off)
        <5>1. a + len \in 0 .. freePtr - 1
          BY <2>2
        <5>2. PICK m \in Live : In(a + len, m)
          BY <5>1 DEF IInv, RecordsTile
        <5>3. m \in Live'
          BY <2>2, <4>2, <5>2 DEF In, off, len
        <5>. QED BY <2>2, <2>3, <2>4, <2>5, <4>2, <5>2, <5>3 DEF In
      <4>. QED BY <4>1, <4>2
    <3>2. ASSUME NEW m \in Live'
          PROVE  slot'[m].length > 0 /\ slot'[m].offset + slot'[m].length <= freePtr'
      <4>1. m \in Live /\ slot'[m].length = slot[m].length
        BY <2>2, <2>5
      <4>2. slot[m].offset + slot[m].length <= freePtr /\ slot[m].length > 0
            /\ slot[m].offset \in Nat /\ slot[m].length \in Nat
        BY <2>3, <4>1
      <4>3. CASE slot[m].offset + slot[m].length <= off /\ slot'[m].offset = slot[m].offset
        BY <2>2, <4>1, <4>2, <4>3
      <4>4. CASE off + len <= slot[m].offset /\ slot'[m].offset = slot[m].offset - len
        BY <2>2, <4>1, <4>2, <4>4
      <4>. QED BY <2>4, <4>3, <4>4
    <3>3. ASSUME NEW m1 \in Live', NEW m2 \in Live', m1 # m2
          PROVE  \/ slot'[m1].offset + slot'[m1].length <= slot'[m2].offset
                 \/ slot'[m2].offset + slot'[m2].length <= slot'[m1].offset
      <4>1. \/ slot[m1].offset + slot[m1].length <= slot[m2].offset
            \/ slot[m2].offset + slot[m2].length <= slot[m1].offset
        BY <2>2, <3>3, LiveFacts
      <4>. QED BY <2>2, <2>3, <2>4, <2>5, <4>1
    <3>. QED BY <3>1, <3>2, <3>3 DEF RecordsTile
  <2>7. TypeOK' /\ SpaceAccounted'
    <3>1. SlotSize * slotCnt' \in Nat /\ slotCnt' \in Nat /\ DataSize \in Nat
      <4>1. slotCnt' \in Nat
        BY <2>1 DEF Deleted
      <4>. QED BY <4>1, SlotSizeArithmetic, SizesAssumption
    <3>2. freePtr' \in 0 .. DataSize
      BY <2>2, <3>1
    <3>3. freeSpace' = DataSize - freePtr' - SlotSize * slotCnt'
      BY <2>1 DEF Deleted
    <3>4. freeSpace' \in 0 .. DataSize
      <4>1. SlotSize * slotCnt' <= SlotSize * slotCnt
        <5>1. SlotNos' \subseteq SlotNos
          BY <1>2, LiveFacts DEF deleteRecord, SlotNos
        <5>2. slotCnt' <= slotCnt
          BY <1>2, <3>1, LiveFacts DEF deleteRecord, SlotNos
        <5>3. slotCnt - slotCnt' \in Nat
          BY <3>1, <5>2, LiveFacts
        <5>4. SlotSize * (slotCnt - slotCnt') = SlotSize * slotCnt - SlotSize * slotCnt'
          BY <3>1, LiveFacts, SlotSizeArithmetic
        <5>5. SlotSize * (slotCnt - slotCnt') \in Nat /\ SlotSize * slotCnt \in Int
          BY <5>3, LiveFacts, SlotSizeArithmetic
        <5>. QED BY <3>1, <5>4, <5>5
      <4>2. freeSpace = DataSize - freePtr - SlotSize * slotCnt /\ freeSpace \in Nat
            /\ SlotSize * slotCnt \in Int
        BY SlotSizeArithmetic DEF IInv, SpaceAccounted, TypeOK
      <4>. QED BY <2>2, <3>1, <3>2, <3>3, <4>1, <4>2
    <3>5. data' \in [Addr -> Byte]
      <4>1. data' = [a \in Addr |-> IF a \in off .. freePtr - len - 1
                                    THEN data[a + len] ELSE data[a]]
        BY <2>1 DEF Deleted, Compacted, off, len
      <4>2. \A a \in Addr : data[a] \in Byte
        BY DEF IInv, TypeOK
      <4>3. \A a \in off .. freePtr - len - 1 : a + len \in Addr
        BY <2>2, <3>1 DEF Addr
      <4>. QED BY <4>1, <4>2, <4>3
    <3>. QED BY <2>1, <3>1, <3>2, <3>3, <3>4, <3>5 DEF TypeOK, SpaceAccounted, Deleted
  <2>8. LastInUse'
    BY <2>1 DEF LastInUse, Deleted, Live
  <2>. QED BY <2>6, <2>7, <2>8 DEF IInv
<1>. QED BY <1>1, <1>2

-----------------------------------------------------------------------------
(* The theorems.                                                           *)

LEMMA NextIInv == IInv /\ [Next]_vars => IInv'
<1>. SUFFICES ASSUME IInv, [Next]_vars
              PROVE  IInv'
  OBVIOUS
<1>1. ASSUME NEW r \in Records, insertRecord(r) PROVE IInv'
  BY <1>1, InsertStep
<1>2. ASSUME NEW n \in 0 .. MaxSlotNo, deleteRecord(n) PROVE IInv'
  BY <1>2, DeleteStep
<1>3. CASE UNCHANGED vars
  BY <1>3 DEF vars, IInv, TypeOK, SpaceAccounted, RecordsTile, LastInUse,
              SlotNos, Live, In, Addr
<1>. QED BY <1>1, <1>2, <1>3 DEF Next

\* The inductive invariant holds of every behaviour.
THEOREM Invariance == Spec => []IInv
<1>. QED BY InitIInv, NextIInv, PTL DEF Spec

\* The variables keep their types: free pointer and free space stay within the
\* page.
THEOREM TypeCorrect == Spec => []TypeOK
<1>1. IInv => TypeOK
  BY DEF IInv
<1>. QED BY <1>1, Invariance, PTL

\* freeSpace always is what records and slots leave, so records and slot array
\* never grow into each other, for pages, slots and records of any size.
THEOREM SpaceAccountedAlways == Spec => []SpaceAccounted
<1>1. IInv => SpaceAccounted
  BY DEF IInv
<1>. QED BY <1>1, Invariance, PTL

\* Records always tile the bytes in front of freePtr: compaction leaves no hole
\* and no overlap.
THEOREM RecordsTileAlways == Spec => []RecordsTile
<1>1. IInv => RecordsTile
  BY DEF IInv
<1>. QED BY <1>1, Invariance, PTL

\* A page with no record left has all its space back.
THEOREM EmptyIsFreshAlways == Spec => []EmptyIsFresh
<1>1. IInv => EmptyIsFresh
  <2>. SUFFICES ASSUME IInv, Live = {}
                PROVE  slotCnt = 0 /\ freePtr = 0 /\ freeSpace = DataSize
    BY DEF EmptyIsFresh
  <2>1. slotCnt = 0
    BY LiveFacts DEF IInv, LastInUse, Live, SlotNos
  <2>2. freePtr = 0
    <3>1. freePtr > 0 => 0 \in 0 .. freePtr - 1
      BY LiveFacts
    <3>. QED BY <3>1, LiveFacts DEF IInv, RecordsTile
  <2>. QED BY <2>1, <2>2, SizesAssumption DEF IInv, SpaceAccounted
<1>. QED BY <1>1, Invariance, PTL

-----------------------------------------------------------------------------
(* Records keep their RIDs and bytes: every step is a step of RecordMap or *)
(* leaves its records alone.                                               *)

recs == [n \in Live |-> getRecord(n)]

\* If s slots fit on the page, their numbers are RIDs of RecordMap.
LEMMA SlotNoBound ==
    ASSUME NEW s \in Nat, SlotSize * s <= DataSize, NEW n \in 0 .. s - 1
    PROVE  n \in 0 .. MaxSlotNo
<1>. DEFINE d == DataSize \div SlotSize
<1>1. n \in Nat /\ n + 1 <= s /\ SlotSize \in Nat /\ SlotSize > 0 /\ DataSize \in Nat
  BY SizesAssumption
<1>2. SlotSize * s \in Nat
  BY SlotSizeArithmetic
<1>3. d \in Nat /\ DataSize < SlotSize * (d + 1)
  BY <1>1
<1>4. ASSUME d + 1 <= s - 1 PROVE FALSE
  <2>1. s - (d + 1) \in Nat
    BY <1>1, <1>3, <1>4
  <2>2. SlotSize * (s - (d + 1)) \in Nat
    BY <2>1, SlotSizeArithmetic
  <2>3. SlotSize * (s - (d + 1)) = SlotSize * s - SlotSize * (d + 1)
    BY <1>1, <1>3, SlotSizeArithmetic
  <2>4. SlotSize * (d + 1) \in Int
    BY <1>3, SlotSizeArithmetic
  <2>. QED BY <1>1, <1>2, <1>3, <2>2, <2>3, <2>4
<1>. QED BY <1>1, <1>3, <1>4 DEF MaxSlotNo

\* A step that changes neither slots nor bytes changes no record.
LEMMA RecordsUnchanged ==
    ASSUME UNCHANGED <<data, slot, slotCnt>>
    PROVE  recs' = recs
BY DEF recs, Live, SlotNos, getRecord

LEMMA InsertRefines ==
    ASSUME IInv, NEW r \in Records, insertRecord(r)
    PROVE  Map!Next \/ recs' = recs
<1>1. CASE Len(r) + SlotSize > freeSpace
  BY <1>1, RecordsUnchanged DEF insertRecord
<1>2. CASE ~(Len(r) + SlotSize > freeSpace)
  <2>1. r \in Seq(Byte) /\ Len(r) \in Nat /\ r = [j \in 1 .. Len(r) |-> r[j]]
    BY RecordsAssumption
  <2>2. PICK n \in 0 .. slotCnt : InsertedAt(n, r)
    BY <1>2, <2>1, SizesAssumption, InsertEffect DEF IInv, TypeOK
  <2>3. n \in 0 .. MaxSlotNo
    <3>1. slotCnt \in Nat /\ freePtr \in Nat
      BY SizesAssumption DEF IInv, TypeOK
    <3>2. /\ slotCnt' = IF n = slotCnt THEN slotCnt + 1 ELSE slotCnt
          /\ freeSpace' = DataSize - freePtr' - SlotSize * slotCnt'
          /\ freeSpace' \in Nat /\ freePtr' = freePtr + Len(r)
      BY <2>2 DEF InsertedAt
    <3>3. slotCnt' \in Nat /\ n \in 0 .. slotCnt' - 1 /\ freePtr' \in Nat
      BY <2>1, <3>1, <3>2
    <3>4. SlotSize * slotCnt' \in Nat
      BY <3>3, SlotSizeArithmetic
    <3>5. SlotSize * slotCnt' <= DataSize
      <4>. DEFINE slots == SlotSize * slotCnt'
      <4>1. slots \in Nat /\ freeSpace' = DataSize - freePtr' - slots
        BY <3>2, <3>4
      <4>. HIDE DEF slots
      <4>2. slots <= DataSize
        BY <3>2, <3>3, <4>1, SizesAssumption
      <4>. QED BY <4>2 DEF slots
    <3>. QED BY <3>3, <3>5, SlotNoBound
  <2>4. getRecord(n)' = r
    <3>1. getRecord(n)' = [j \in 1 .. Len(r) |-> data'[freePtr + j - 1]]
      BY <2>2 DEF getRecord, InsertedAt
    <3>2. \A j \in 1 .. Len(r) : data'[freePtr + j - 1] = r[j]
      BY <2>2 DEF InsertedAt
    <3>. QED BY <2>1, <3>1, <3>2
  <2>5. ASSUME NEW m \in Live
        PROVE  getRecord(m)' = getRecord(m)
    <3>1. slot'[m] = slot[m]
      BY <2>2, LiveFacts DEF InsertedAt
    <3>2. \A j \in 1 .. slot[m].length :
             /\ slot[m].offset + j - 1 \in Addr
             /\ slot[m].offset + j - 1 < freePtr
      BY LiveFacts, SizesAssumption DEF Addr
    <3>3. \A j \in 1 .. slot[m].length :
             data'[slot[m].offset + j - 1] = data[slot[m].offset + j - 1]
      BY <2>2, <3>2 DEF InsertedAt
    <3>. QED BY <3>1, <3>3 DEF getRecord
  <2>6. Live' = Live \cup {n} /\ n \notin Live
    BY <2>2 DEF InsertedAt
  <2>7. Map!Insert(n, r)
    <3>1. recs' = [m \in Live' |-> getRecord(m)']
      BY DEF recs
    <3>2. DOMAIN recs = Live /\ \A m \in Live : recs[m] = getRecord(m)
      BY DEF recs
    <3>3. recs' = [m \in Live \cup {n} |-> IF m = n THEN r ELSE recs[m]]
      BY <2>4, <2>5, <2>6, <3>1, <3>2
    <3>. QED BY <2>6, <3>2, <3>3 DEF Map!Insert, recs
  <2>. QED BY <2>3, <2>7 DEF Map!Next
<1>. QED BY <1>1, <1>2

LEMMA DeleteRefines ==
    ASSUME IInv, NEW n \in 0 .. MaxSlotNo, deleteRecord(n)
    PROVE  Map!Next \/ recs' = recs
<1>1. CASE ~(n \in SlotNos /\ slot[n].length > 0)
  BY <1>1, RecordsUnchanged DEF deleteRecord
<1>2. CASE n \in SlotNos /\ slot[n].length > 0
  <2>. DEFINE off == slot[n].offset
  <2>. DEFINE len == slot[n].length
  <2>1. Deleted(n)
    BY <1>2, DeleteEffect
  <2>2. /\ n \in Live /\ Live' = Live \ {n}
        /\ off \in Nat /\ len \in Nat /\ len > 0 /\ off + len <= freePtr
        /\ freePtr \in Nat /\ freePtr <= DataSize
    BY <2>1, LiveFacts DEF Deleted
  <2>3. data' = [a \in Addr |-> IF a \in off .. freePtr - len - 1
                                THEN data[a + len] ELSE data[a]]
    BY <2>1 DEF Deleted, Compacted
  <2>4. ASSUME NEW m \in Live'
        PROVE  getRecord(m)' = getRecord(m)
    <3>. DEFINE o == slot[m].offset
    <3>. DEFINE l == slot[m].length
    <3>1. /\ m \in Live /\ m # n
          /\ o \in Nat /\ l \in Nat /\ l > 0 /\ o + l <= freePtr
          /\ (o + l <= off \/ off + len <= o)
      BY <2>2, LiveFacts
    <3>2. /\ slot'[m].length = l
          /\ slot'[m].offset = IF o > off THEN o - len ELSE o
      BY <2>1 DEF Deleted, NewOffset
    <3>3. getRecord(m)' = [j \in 1 .. l |-> data'[slot'[m].offset + j - 1]]
      BY <3>2 DEF getRecord
    <3>4. getRecord(m) = [j \in 1 .. l |-> data[o + j - 1]]
      BY DEF getRecord
    <3>. HIDE DEF o, l, off, len
    <3>5. ASSUME NEW j \in 1 .. l
          PROVE  data'[slot'[m].offset + j - 1] = data[o + j - 1]
      <4>1. CASE o + l <= off
        <5>1. slot'[m].offset + j - 1 = o + j - 1 /\ o + j - 1 \in Addr /\ o + j - 1 < off
          BY <2>2, <3>1, <3>2, <4>1, SizesAssumption DEF Addr
        <5>. QED BY <2>2, <2>3, <3>1, <5>1
      <4>2. CASE off + len <= o
        <5>. DEFINE a == o - len + j - 1
        <5>1. /\ slot'[m].offset + j - 1 = a
              /\ a \in Addr /\ a \in off .. freePtr - len - 1
              /\ a + len = o + j - 1
          BY <2>2, <3>1, <3>2, <4>2, SizesAssumption DEF Addr
        <5>. HIDE DEF a
        <5>2. data'[a] = data[a + len]
          BY <2>3, <5>1
        <5>. QED BY <5>1, <5>2
      <4>. QED BY <3>1, <4>1, <4>2
    <3>. QED BY <3>3, <3>4, <3>5
  <2>5. Map!Delete(n)
    <3>1. recs' = [m \in Live' |-> getRecord(m)']
      BY DEF recs
    <3>2. DOMAIN recs = Live /\ \A m \in Live : recs[m] = getRecord(m)
      BY DEF recs
    <3>3. recs' = [m \in Live \ {n} |-> recs[m]]
      BY <2>2, <2>4, <3>1, <3>2
    <3>. QED BY <2>2, <3>2, <3>3 DEF Map!Delete, recs
  <2>. QED BY <2>5 DEF Map!Next
<1>. QED BY <1>1, <1>2

\* The page implements RecordMap: a record keeps its slot number and its bytes
\* until it is deleted, through every compaction of bytes and slots.
THEOREM RecordsKept == Spec => ImplementsRecordMap
<1>1. Init => Map!Init
  BY DEF Init, Map!Init, Live, SlotNos
<1>2. IInv /\ [Next]_vars => [Map!Next]_recs
  <2>. SUFFICES ASSUME IInv, [Next]_vars
                PROVE  Map!Next \/ recs' = recs
    OBVIOUS
  <2>1. CASE UNCHANGED vars
    BY <2>1, RecordsUnchanged DEF vars
  <2>. QED BY <2>1, InsertRefines, DeleteRefines DEF Next
<1>. QED BY <1>1, <1>2, Invariance, PTL DEF Spec, ImplementsRecordMap, Map!Spec, recs
=============================================================================
