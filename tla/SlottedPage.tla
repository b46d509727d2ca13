---------------------------- MODULE SlottedPage -----------------------------
(***************************************************************************)
(* The data page of minirel (page.C, page.h): records are packed from the  *)
(* front of the data area, the slot array grows from its end towards them. *)
(* In the code slots have the indices 0, -1, -2, ... and slotCnt is        *)
(* negative; here slot n is slot[-n] of the code and slotCnt its negation. *)
(***************************************************************************)
EXTENDS Integers, Sequences

CONSTANTS
    DataSize,   \* PAGESIZE - DPFIXED, bytes of the data area
    SlotSize,   \* sizeof(slot_t)
    Byte,       \* values of a byte
    Records     \* records the callers insert: nonempty sequences of bytes

ASSUME SizesAssumption == DataSize \in Nat /\ SlotSize \in Nat \ {0}
ASSUME RecordsAssumption ==
    \A r \in Records : r \in Seq(Byte) /\ Len(r) > 0
ASSUME ByteAssumption == Byte # {}

VARIABLES
    data,       \* the data area, addressed from 0
    slot,       \* slot[n]: offset and length of record n
    slotCnt,    \* number of slots
    freePtr,    \* offset of the first free byte
    freeSpace,  \* bytes the page believes are free
    status      \* what the last call returned

vars == <<data, slot, slotCnt, freePtr, freeSpace, status>>

NotInUse == -1      \* length of a slot that is not in use

SlotNos == 0 .. slotCnt - 1

Live == {n \in SlotNos : slot[n].length # NotInUse}

Addr == 0 .. DataSize - 1

\* init; the data area of a fresh page holds whatever the frame held.
Init ==
    /\ data \in {[a \in Addr |-> b] : b \in Byte}
    /\ slot = [n \in {} |-> [offset |-> 0, length |-> 0]]
    /\ slotCnt = 0
    /\ freePtr = 0
    /\ freeSpace = DataSize
    /\ status = "OK"

\* The first slot that is not in use, or slotCnt if there is none.
IsFirstEmpty(n) ==
    /\ n \in 0 .. slotCnt
    /\ n < slotCnt => slot[n].length = NotInUse
    /\ \A m \in 0 .. n - 1 : slot[m].length # NotInUse

\* Mutant: every record is charged a slot.
SlotCostAlways(n) == SlotSize

\* Bytes of the slot array the record in slot n adds.
SlotCost(n) == IF n = slotCnt THEN SlotSize ELSE 0

\* The check asks for room for a slot even if an empty one will be reused.
insertRecord(r) ==
    IF Len(r) + SlotSize > freeSpace
    THEN /\ status' = "NOSPACE"
         /\ UNCHANGED <<data, slot, slotCnt, freePtr, freeSpace>>
    ELSE /\ \E n \in 0 .. slotCnt :
              /\ IsFirstEmpty(n)
              /\ slotCnt' = IF n = slotCnt THEN slotCnt + 1 ELSE slotCnt
              /\ freeSpace' = freeSpace - Len(r) - SlotCost(n)
              /\ slot' = [m \in 0 .. slotCnt' - 1 |->
                            IF m = n THEN [offset |-> freePtr, length |-> Len(r)]
                            ELSE slot[m]]
         /\ data' = [a \in Addr |->
                        IF a \in freePtr .. freePtr + Len(r) - 1
                        THEN r[a - freePtr + 1] ELSE data[a]]
         /\ freePtr' = freePtr + Len(r)
         /\ status' = "OK"

\* Mutant: the last byte stays behind.
CompactedShort(offset, len) ==
    [a \in Addr |-> IF a \in offset .. freePtr - len - 2 THEN data[a + len] ELSE data[a]]

\* bcopy: the bytes after the record, up to freePtr, move len bytes down.
Compacted(offset, len) ==
    [a \in Addr |-> IF a \in offset .. freePtr - len - 1 THEN data[a + len] ELSE data[a]]

\* Mutants: no slot follows its bytes; every slot does.
ShiftedNone(n) == [m \in SlotNos |-> slot[m]]

ShiftedAll(n) ==
    [m \in SlotNos |-> [slot[m] EXCEPT !.offset = @ - slot[n].length]]

\* Slots of records behind the hole follow their bytes.
Shifted(n) ==
    [m \in SlotNos |->
        IF slot[m].length >= 0 /\ slot[m].offset > slot[n].offset
        THEN [slot[m] EXCEPT !.offset = @ - slot[n].length]
        ELSE slot[m]]

\* Mutant: only the freed slot goes.
IsCompactCountOfOne(k) == k = slotCnt - 1

\* Slots left when the last one is freed: it goes, with the empty slots that
\* precede it.
IsCompactCount(k) ==
    /\ k \in 0 .. slotCnt - 1
    /\ k > 0 => slot[k - 1].length # NotInUse
    /\ \A m \in k .. slotCnt - 2 : slot[m].length = NotInUse

deleteRecord(n) ==
    IF n \in SlotNos /\ slot[n].length > 0
    THEN /\ data' = Compacted(slot[n].offset, slot[n].length)
         /\ freePtr' = freePtr - slot[n].length
         /\ IF n = slotCnt - 1
            THEN \E k \in 0 .. slotCnt - 1 :
                    /\ IsCompactCount(k)
                    /\ slotCnt' = k
                    /\ slot' = [m \in 0 .. k - 1 |-> Shifted(n)[m]]
                    /\ freeSpace' = freeSpace + slot[n].length + (slotCnt - k) * SlotSize
            ELSE /\ slot' = [Shifted(n) EXCEPT ![n] = [offset |-> 0, length |-> NotInUse]]
                 /\ freeSpace' = freeSpace + slot[n].length
                 /\ UNCHANGED slotCnt
         /\ status' = "OK"
    ELSE /\ status' = "INVALIDSLOTNO"
         /\ UNCHANGED <<data, slot, slotCnt, freePtr, freeSpace>>

\* Slot numbers a caller may hold: RIDs of records, deleted or not.
MaxSlotNo == DataSize \div SlotSize

Next ==
    \/ \E r \in Records : insertRecord(r)
    \/ \E n \in 0 .. MaxSlotNo : deleteRecord(n)

Spec == Init /\ [][Next]_vars

-----------------------------------------------------------------------------
(* Reading the page.                                                       *)

\* getRecord: the bytes of record n.
getRecord(n) == [j \in 1 .. slot[n].length |-> data[slot[n].offset + j - 1]]

-----------------------------------------------------------------------------
(* Properties.                                                             *)

TypeOK ==
    /\ data \in [Addr -> Byte]
    /\ slotCnt \in Nat
    /\ slot \in [SlotNos -> [offset: Nat, length: Nat \cup {NotInUse}]]
    /\ freePtr \in 0 .. DataSize
    /\ freeSpace \in 0 .. DataSize
    /\ status \in {"OK", "NOSPACE", "INVALIDSLOTNO"}

\* freeSpace is what the records and the slot array leave, so the check
\* insertRecord makes against it keeps the slot array from growing into the
\* records and the records into the slot array.
SpaceAccounted ==
    /\ freeSpace = DataSize - freePtr - SlotSize * slotCnt
    /\ freeSpace >= 0

In(a, n) == slot[n].offset <= a /\ a < slot[n].offset + slot[n].length

\* The records tile the bytes in front of freePtr: no two share a byte, none
\* reaches beyond freePtr, and no byte in front of it is lost to a hole.
RecordsTile ==
    /\ \A a \in 0 .. freePtr - 1 : \E n \in Live : In(a, n)
    /\ \A n \in Live : slot[n].length > 0 /\ slot[n].offset + slot[n].length <= freePtr
    /\ \A m, n \in Live : m # n =>
            \/ slot[m].offset + slot[m].length <= slot[n].offset
            \/ slot[n].offset + slot[n].length <= slot[m].offset

\* A page whose records are all gone is as good as new: no sequence of inserts
\* and deletes leaves empty slots or bytes behind for ever.
EmptyIsFresh ==
    Live = {} => slotCnt = 0 /\ freePtr = 0 /\ freeSpace = DataSize

\* A record keeps its RID and its bytes from insertion to deletion, through
\* every compaction of the data area and of the slot array (see RecordMap).
Map == INSTANCE RecordMap WITH
    RIDs <- 0 .. MaxSlotNo,
    recs <- [n \in Live |-> getRecord(n)]

ImplementsRecordMap == Map!Spec
=============================================================================
