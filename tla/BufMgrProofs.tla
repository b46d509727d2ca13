---------------------------- MODULE BufMgrProofs ----------------------------
(***************************************************************************)
(* Proofs about the buffer manager, for any number of frames, files, pages *)
(* and clients.                                                            *)
(***************************************************************************)
EXTENDS BufMgr, FiniteSetTheorems, TLAPS

-----------------------------------------------------------------------------
(* Helpers.                                                                *)

\* The clock hand always names a frame.
LEMMA HandInFrames ==
    ASSUME TypeOK, NEW k \in Nat
    PROVE  Hand(k) \in Frames
<1>1. clockHand + k \in Int /\ NumBufs \in Int /\ NumBufs > 0
  BY NumBufsAssumption DEF TypeOK, Frames
<1>2. (clockHand + k) % NumBufs \in 0 .. NumBufs - 1
  BY <1>1
<1>. QED BY <1>2 DEF Hand, Frames

\* Each turn of the clock looks at every frame.
LEMMA HandCovers ==
    ASSUME TypeOK, NEW i \in Frames
    PROVE  /\ \E k \in 1 .. NumBufs : Hand(k) = i
           /\ \E k \in NumBufs + 1 .. 2 * NumBufs : Hand(k) = i
<1>1. /\ NumBufs \in Nat \ {0}
      /\ clockHand \in 0 .. NumBufs - 1 /\ i \in 0 .. NumBufs - 1
  BY NumBufsAssumption DEF TypeOK, Frames
<1>2. ASSUME NEW n \in Nat \ {0}, NEW j \in 0 .. n - 1
      PROVE  j % n = j /\ (n + j) % n = j /\ (2 * n + j) % n = j
  BY <1>2
<1>3. i % NumBufs = i /\ (NumBufs + i) % NumBufs = i /\ (2 * NumBufs + i) % NumBufs = i
  BY <1>1, <1>2
<1>4. CASE i > clockHand
  <2>1. i - clockHand \in 1 .. NumBufs /\ clockHand + (i - clockHand) = i
    BY <1>1, <1>4
  <2>2. /\ NumBufs + i - clockHand \in NumBufs + 1 .. 2 * NumBufs
        /\ clockHand + (NumBufs + i - clockHand) = NumBufs + i
    BY <1>1, <1>4
  <2>. QED BY <1>3, <2>1, <2>2 DEF Hand
<1>5. CASE ~(i > clockHand)
  <2>1. /\ NumBufs + i - clockHand \in 1 .. NumBufs
        /\ clockHand + (NumBufs + i - clockHand) = NumBufs + i
    BY <1>1, <1>5
  <2>2. /\ 2 * NumBufs + i - clockHand \in NumBufs + 1 .. 2 * NumBufs
        /\ clockHand + (2 * NumBufs + i - clockHand) = 2 * NumBufs + i
    BY <1>1, <1>5
  <2>. QED BY <1>3, <2>1, <2>2 DEF Hand
<1>. QED BY <1>4, <1>5

\* Sweeping changes nothing but reference bits.
LEMMA SweptFrames ==
    ASSUME TypeOK, NEW k
    PROVE  /\ Swept(k) \in [Frames -> BufDesc]
           /\ \A i \in Frames : /\ Swept(k)[i].page = bufTable[i].page
                                /\ Swept(k)[i].pinCnt = bufTable[i].pinCnt
                                /\ Swept(k)[i].dirty = bufTable[i].dirty
                                /\ Swept(k)[i].valid = bufTable[i].valid
<1>1. \A i \in Frames : bufTable[i] \in BufDesc
  BY DEF TypeOK
<1>2. ASSUME NEW i \in Frames
      PROVE  /\ [bufTable[i] EXCEPT !.refbit = FALSE] \in BufDesc
             /\ [bufTable[i] EXCEPT !.refbit = FALSE].page = bufTable[i].page
             /\ [bufTable[i] EXCEPT !.refbit = FALSE].pinCnt = bufTable[i].pinCnt
             /\ [bufTable[i] EXCEPT !.refbit = FALSE].dirty = bufTable[i].dirty
             /\ [bufTable[i] EXCEPT !.refbit = FALSE].valid = bufTable[i].valid
  BY <1>1 DEF BufDesc
<1>. QED BY <1>1, <1>2 DEF Swept

-----------------------------------------------------------------------------
(* The inductive invariant: the checked invariants, plus two facts the     *)
(* steps need.                                                             *)

\* A frame that is not valid has been cleared: it names no page, is not pinned
\* and is never written back.
InvalidIsClear ==
    \A i \in Frames : ~bufTable[i].valid =>
        /\ bufTable[i].page = NoPage
        /\ bufTable[i].pinCnt = 0
        /\ ~bufTable[i].dirty

\* A page the file has handed out can be read.
InUseOnDisk == \A p \in inUse : disk[p] # Missing

IInv ==
    /\ TypeOK
    /\ HashedIffInPool
    /\ InvalidIsClear
    /\ PinsAreHolders
    /\ InUseOnDisk
    /\ CleanIsOnDisk

\* Since no page is in two frames, a page is written from the frame it is
\* hashed to, or not at all.
LEMMA WriteBackPage ==
    ASSUME TypeOK, HashedIffInPool, InvalidIsClear,
           NEW S \in SUBSET Frames, NEW d
    PROVE  /\ DOMAIN WriteBack(d, S) = Page
           /\ \A p \in Page : WriteBack(d, S)[p] =
                  IF hashTable[p] \in S /\ bufTable[hashTable[p]].dirty
                  THEN bufPool[hashTable[p]] ELSE d[p]
<1>1. SUFFICES ASSUME NEW p \in Page
               PROVE  WriteBack(d, S)[p] =
                        IF hashTable[p] \in S /\ bufTable[hashTable[p]].dirty
                        THEN bufPool[hashTable[p]] ELSE d[p]
  BY DEF WriteBack
<1>. DEFINE W == {i \in S : bufTable[i].dirty /\ bufTable[i].page = p}
<1>2. WriteBack(d, S)[p] = IF W = {} THEN d[p]
                           ELSE bufPool[CHOOSE i \in W : \A j \in W : j <= i]
  BY DEF WriteBack
<1>3. \A i \in W : i \in Frames /\ hashTable[p] = i
  BY SentinelAssumption DEF HashedIffInPool, InvalidIsClear
<1>4. CASE hashTable[p] \in S /\ bufTable[hashTable[p]].dirty
  <2>1. hashTable[p] \in W
    BY <1>4, SentinelAssumption DEF HashedIffInPool
  <2>2. W = {hashTable[p]}
    BY <1>3, <2>1
  <2>3. hashTable[p] \in Frames
    BY <1>3, <2>1
  <2>4. hashTable[p] <= hashTable[p]
    BY <2>3, NumBufsAssumption DEF Frames
  <2>5. (CHOOSE i \in W : \A j \in W : j <= i) = hashTable[p]
    BY <2>2, <2>4
  <2>. QED BY <1>2, <1>4, <2>2, <2>5
<1>5. CASE ~(hashTable[p] \in S /\ bufTable[hashTable[p]].dirty)
  <2>1. W = {}
    BY <1>3, <1>5
  <2>. QED BY <1>2, <1>5, <2>1
<1>. QED BY <1>4, <1>5

\* Writing frames back leaves a disk of the same type, and a page that was on
\* disk is still there.
LEMMA WriteBackType ==
    ASSUME TypeOK, HashedIffInPool, InvalidIsClear, NEW S \in SUBSET Frames,
           NEW d \in [Page -> Contents \cup {Missing}]
    PROVE  /\ WriteBack(d, S) \in [Page -> Contents \cup {Missing}]
           /\ \A p \in Page : d[p] # Missing => WriteBack(d, S)[p] # Missing
<1>1. \A i \in S : bufPool[i] \in Contents /\ bufPool[i] # Missing
  BY SentinelAssumption DEF TypeOK
<1>2. WriteBack(d, S) = [p \in Page |-> WriteBack(d, S)[p]]
  BY DEF WriteBack
<1>. QED BY <1>1, <1>2, WriteBackPage

\* The frame the clock stops at is a frame nobody holds.
LEMMA VictimFree ==
    ASSUME TypeOK, InvalidIsClear, PinsAreHolders, NEW k, FirstStop(k)
    PROVE  /\ Hand(k) \in Frames
           /\ bufTable[Hand(k)].pinCnt = 0
           /\ \A c \in Clients : held[c] # NoPin => held[c].frame # Hand(k)
<1>1. Hand(k) \in Frames
  BY HandInFrames DEF FirstStop
<1>2. bufTable[Hand(k)].pinCnt = 0
  BY <1>1 DEF FirstStop, Stops, InvalidIsClear
<1>3. IsFiniteSet(Holders(Hand(k)))
  BY ClientsAssumption, FS_Subset DEF Holders
<1>4. Holders(Hand(k)) = {}
  BY <1>1, <1>2, <1>3, FS_EmptySet DEF PinsAreHolders
<1>. QED BY <1>1, <1>2, <1>4 DEF Holders
-----------------------------------------------------------------------------
(* The steps.                                                              *)

LEMMA InitIInv == Init => IInv
<1>. SUFFICES ASSUME Init PROVE IInv
  OBVIOUS
<1>1. EmptyDesc \in BufDesc
  BY DEF EmptyDesc, BufDesc
<1>2. TypeOK
  BY <1>1, NumBufsAssumption DEF Init, TypeOK, Frames, Contents, Status
<1>3. \A i \in Frames : Holders(i) = {}
  BY DEF Init, Holders
<1>4. PinsAreHolders
  BY <1>3, FS_EmptySet DEF Init, PinsAreHolders, EmptyDesc
<1>5. HashedIffInPool /\ InvalidIsClear /\ InUseOnDisk /\ CleanIsOnDisk
  BY DEF Init, HashedIffInPool, InvalidIsClear, InUseOnDisk, CleanIsOnDisk, EmptyDesc
<1>. QED BY <1>2, <1>4, <1>5 DEF IInv

\* With every frame pinned only reference bits change.
Exceeded ==
    /\ bufTable' \in [Frames -> BufDesc]
    /\ \A i \in Frames : /\ bufTable'[i].page = bufTable[i].page
                         /\ bufTable'[i].pinCnt = bufTable[i].pinCnt
                         /\ bufTable'[i].dirty = bufTable[i].dirty
                         /\ bufTable'[i].valid = bufTable[i].valid
    /\ status' = "BUFFEREXCEEDED"
    /\ UNCHANGED <<bufPool, hashTable, clockHand, held>>

LEMMA ExceededEffect ==
    ASSUME TypeOK, BufferExceeded
    PROVE  Exceeded
BY SweptFrames DEF BufferExceeded, Exceeded

\* The page that the file has just handed out, if any, is on disk and not in
\* the pool.
LEMMA ExceededStep ==
    ASSUME IInv, Exceeded, NEW p \in Page,
           \/ UNCHANGED <<disk, inUse>>
           \/ p \notin inUse /\ inUse' = inUse \cup {p} /\ disk' = DiskAllocated(p)
    PROVE  IInv'
<1>. USE DEF IInv
<1>1. /\ \A i \in Frames : bufTable'[i] \in BufDesc
      /\ \A i \in Frames : /\ bufTable'[i].page = bufTable[i].page
                           /\ bufTable'[i].pinCnt = bufTable[i].pinCnt
                           /\ bufTable'[i].dirty = bufTable[i].dirty
                           /\ bufTable'[i].valid = bufTable[i].valid
      /\ bufTable' \in [Frames -> BufDesc]
  BY DEF Exceeded
<1>2. /\ inUse \subseteq inUse' /\ inUse' \in SUBSET Page
      /\ disk' \in [Page -> Contents \cup {Missing}]
      /\ \A q \in inUse : disk'[q] = disk[q]
      /\ \A q \in inUse' : disk'[q] # Missing
  BY SentinelAssumption DEF TypeOK, DiskAllocated, InUseOnDisk, Contents
<1>3. TypeOK'
  BY <1>1, <1>2 DEF TypeOK, Exceeded, Status
<1>4. HashedIffInPool'
  BY <1>1, <1>2 DEF HashedIffInPool, Exceeded, TypeOK
<1>5. InvalidIsClear' /\ InUseOnDisk'
  BY <1>1, <1>2 DEF InvalidIsClear, InUseOnDisk
<1>6. \A i \in Frames : Holders(i)' = Holders(i)
  BY DEF Holders, Exceeded
<1>7. PinsAreHolders'
  BY <1>1, <1>6 DEF PinsAreHolders, Exceeded
<1>8. CleanIsOnDisk'
  <2>1. \A i \in Frames : bufTable[i].valid => bufTable[i].page \in inUse
    BY SentinelAssumption DEF HashedIffInPool, TypeOK
  <2>. QED BY <1>1, <1>2, <1>6, <2>1 DEF CleanIsOnDisk, Exceeded
<1>. QED BY <1>3, <1>4, <1>5, <1>7, <1>8

\* What a page coming into frame i of the pool, read or allocated, does to the
\* tables and the disk: the frame was free, its page leaves the hash table, and
\* is on disk if it was dirty.
Installed(c, p, i, mode) ==
    /\ i \in Frames
    /\ bufTable[i].pinCnt = 0
    /\ \A b \in Clients : held[b] # NoPin => held[b].frame # i
    /\ bufTable' \in [Frames -> BufDesc]
    /\ bufTable'[i] = Set(p)
    /\ \A j \in Frames : j # i =>
         /\ bufTable'[j].page = bufTable[j].page
         /\ bufTable'[j].pinCnt = bufTable[j].pinCnt
         /\ bufTable'[j].dirty = bufTable[j].dirty
         /\ bufTable'[j].valid = bufTable[j].valid
    /\ hashTable' \in [Page -> Frames \cup {NoFrame}]
    /\ hashTable'[p] = i
    /\ \A q \in Page : q # p =>
         /\ hashTable'[q] = IF hashTable[q] = i THEN NoFrame ELSE hashTable[q]
         /\ disk'[q] = IF hashTable[q] = i /\ bufTable[i].dirty
                       THEN bufPool[i] ELSE disk[q]
    /\ status' = "OK"
    /\ clockHand' = i
    /\ held' = [held EXCEPT ![c] = [page |-> p, frame |-> i, mode |-> mode]]

LEMMA InstallEffect ==
    ASSUME IInv,
           NEW c \in Clients, NEW p \in Page, NEW k, NEW mode \in {"clean", "fresh"},
           NEW d \in [Page -> Contents \cup {Missing}],
           held[c] = NoPin,
           hashTable[p] = NoFrame,
           FirstStop(k),
           Install(c, p, k, mode),
           \A q \in Page : q # p => d[q] = disk[q],
           disk' = WriteBack(d, {Hand(k)})
    PROVE  Installed(c, p, Hand(k), mode)
<1>. DEFINE i == Hand(k)
<1>. USE DEF IInv
<1>1. /\ i \in Frames
      /\ bufTable[i].pinCnt = 0
      /\ \A b \in Clients : held[b] # NoPin => held[b].frame # i
  BY VictimFree
<1>2. /\ \A j \in Frames : /\ Swept(k)[j] \in BufDesc
                           /\ Swept(k)[j].page = bufTable[j].page
                           /\ Swept(k)[j].pinCnt = bufTable[j].pinCnt
                           /\ Swept(k)[j].dirty = bufTable[j].dirty
                           /\ Swept(k)[j].valid = bufTable[j].valid
      /\ Swept(k) \in [Frames -> BufDesc]
  BY SweptFrames
<1>3. /\ Set(p) \in BufDesc
      /\ Set(p).page = p /\ Set(p).pinCnt = 1 /\ Set(p).dirty = FALSE /\ Set(p).valid = TRUE
  BY DEF Set, BufDesc
<1>4. /\ bufTable' \in [Frames -> BufDesc]
      /\ bufTable'[i] = Set(p)
      /\ \A j \in Frames : j # i => bufTable'[j] = Swept(k)[j]
  BY <1>1, <1>2, <1>3 DEF Install
<1>5. /\ hashTable' \in [Page -> Frames \cup {NoFrame}]
      /\ hashTable'[p] = i
      /\ \A q \in Page : q # p =>
            hashTable'[q] = IF hashTable[q] = i THEN NoFrame ELSE hashTable[q]
      /\ status' = "OK"
  <2>1. Unmapped(i) = [q \in Page |-> IF hashTable[q] = i THEN NoFrame ELSE hashTable[q]]
    <3>1. \A q \in Page : hashTable[q] = i <=> bufTable[i].valid /\ bufTable[i].page = q
      BY <1>1, SentinelAssumption DEF HashedIffInPool
    <3>2. CASE bufTable[i].valid
      BY <1>1, <3>1, <3>2 DEF Unmapped, remove
    <3>3. CASE ~bufTable[i].valid
      BY <1>1, <3>1, <3>3 DEF Unmapped, TypeOK
    <3>. QED BY <3>2, <3>3
  <2>2. Unmapped(i)[p] = NoFrame
    BY <2>1
  <2>3. hashTable' = [Unmapped(i) EXCEPT ![p] = i] /\ status' = "OK"
    BY <2>2 DEF Install, insert, insertStatus
  <2>. QED BY <1>1, <2>1, <2>3 DEF TypeOK
<1>6. held' = [held EXCEPT ![c] = [page |-> p, frame |-> i, mode |-> mode]]
  BY <1>5 DEF Install
<1>7. \A q \in Page : q # p => disk'[q] =
            IF hashTable[q] = i /\ bufTable[i].dirty THEN bufPool[i] ELSE disk[q]
  BY <1>1, WriteBackPage
<1>8. clockHand' = i
  BY DEF Install
<1>. QED BY <1>1, <1>2, <1>4, <1>5, <1>6, <1>7, <1>8 DEF Installed

\* A page comes into the pool, read or allocated: the victim's page leaves the
\* hash table for it, what it held is on disk, and only its frame changes.
LEMMA InstallStep ==
    ASSUME IInv,
           NEW c \in Clients, NEW p \in Page, NEW i, NEW mode \in {"clean", "fresh"},
           held[c] = NoPin,
           hashTable[p] = NoFrame,
           Installed(c, p, i, mode),
           disk' \in [Page -> Contents \cup {Missing}],
           inUse' = inUse \cup {p},
           disk'[p] # Missing,
           bufPool' \in [Frames -> Contents],
           \A j \in Frames : j # i => bufPool'[j] = bufPool[j],
           mode = "clean" => bufPool'[i] = disk'[p]
    PROVE  IInv'
<1>1. /\ i \in Frames
      /\ bufTable[i].pinCnt = 0
      /\ \A b \in Clients : held[b] # NoPin => held[b].frame # i
  BY DEF Installed
<1>2. /\ \A j \in Frames : j # i =>
            /\ bufTable'[j].page = bufTable[j].page
            /\ bufTable'[j].pinCnt = bufTable[j].pinCnt
            /\ bufTable'[j].dirty = bufTable[j].dirty
            /\ bufTable'[j].valid = bufTable[j].valid
      /\ bufTable' \in [Frames -> BufDesc]
      /\ bufTable'[i] = Set(p)
  BY DEF Installed
<1>3. /\ Set(p) \in BufDesc
      /\ Set(p).page = p /\ Set(p).pinCnt = 1 /\ Set(p).dirty = FALSE /\ Set(p).valid = TRUE
  BY DEF Set, BufDesc
<1>5. /\ hashTable' \in [Page -> Frames \cup {NoFrame}]
      /\ hashTable'[p] = i
      /\ \A q \in Page : q # p =>
            hashTable'[q] = IF hashTable[q] = i THEN NoFrame ELSE hashTable[q]
      /\ status' = "OK"
  BY DEF Installed
<1>6. held' = [held EXCEPT ![c] = [page |-> p, frame |-> i, mode |-> mode]]
  BY DEF Installed
<1>4. \A q \in Page : q # p => disk'[q] =
            IF hashTable[q] = i /\ bufTable[i].dirty THEN bufPool[i] ELSE disk[q]
  BY DEF Installed
<1>. USE DEF IInv
<1>. DEFINE pin == [page |-> p, frame |-> i, mode |-> mode]
<1>7. pin \in Pin /\ pin # NoPin
  BY <1>1, SentinelAssumption DEF Pin
<1>8. \A j \in Frames : j # i => Holders(j)' = Holders(j)
  BY <1>6, <1>7 DEF Holders, TypeOK
<1>9. \A j \in Frames : j = i => Holders(j)' = {c}
  BY <1>1, <1>6, <1>7 DEF Holders, TypeOK
<1>11. TypeOK'
  <2>1. clockHand' = i
    BY DEF Installed
  <2>2. held' \in [Clients -> Pin \cup {NoPin}]
    BY <1>6, <1>7 DEF TypeOK
  <2>. QED BY <1>1, <1>2, <1>5, <2>1, <2>2 DEF TypeOK, Status
<1>12. HashedIffInPool'
  <2>1. ASSUME NEW q \in Page, hashTable'[q] # NoFrame
        PROVE  /\ bufTable'[hashTable'[q]].valid
               /\ bufTable'[hashTable'[q]].page = q
               /\ q \in inUse'
    <3>1. CASE q = p
      BY <1>2, <1>3, <1>5, <3>1
    <3>2. CASE q # p
      BY <1>2, <1>5, <2>1, <3>2 DEF HashedIffInPool, TypeOK
    <3>. QED BY <3>1, <3>2
  <2>2. ASSUME NEW j \in Frames, bufTable'[j].valid
        PROVE  bufTable'[j].page \in Page /\ hashTable'[bufTable'[j].page] = j
    <3>1. CASE j = i
      BY <1>2, <1>3, <1>5, <3>1
    <3>2. CASE j # i
      BY <1>2, <1>5, <2>2, <3>2, SentinelAssumption DEF HashedIffInPool
    <3>. QED BY <3>1, <3>2
  <2>. QED BY <2>1, <2>2 DEF HashedIffInPool
<1>13. InvalidIsClear'
  BY <1>2, <1>3 DEF InvalidIsClear
<1>14. PinsAreHolders'
  <2>1. \A b \in Clients : held'[b] # NoPin => hashTable'[held'[b].page] = held'[b].frame
    <3>1. hashTable'[held'[c].page] = held'[c].frame
      BY <1>5, <1>6 DEF TypeOK
    <3>2. ASSUME NEW b \in Clients, b # c, held[b] # NoPin
          PROVE  hashTable'[held[b].page] = held[b].frame
      <4>1. held[b] \in Pin /\ hashTable[held[b].page] = held[b].frame
        BY <3>2 DEF TypeOK, PinsAreHolders
      <4>. QED BY <1>1, <1>5, <3>2, <4>1, SentinelAssumption DEF Pin
    <3>. QED BY <1>6, <3>1, <3>2 DEF TypeOK
  <2>2. ASSUME NEW j \in Frames
        PROVE  bufTable'[j].pinCnt = Cardinality(Holders(j)')
    <3>1. CASE j = i
      <4>1. Cardinality({c}) = 1
        BY FS_Singleton
      <4>. QED BY <1>2, <1>3, <1>9, <3>1, <4>1
    <3>2. CASE j # i
      BY <1>2, <1>8, <3>2 DEF PinsAreHolders
    <3>. QED BY <3>1, <3>2
  <2>. QED BY <2>1, <2>2 DEF PinsAreHolders
<1>15. InUseOnDisk'
  <2>1. bufPool[i] # Missing
    BY <1>1, SentinelAssumption DEF TypeOK
  <2>2. \A q \in inUse : q \in Page /\ disk[q] # Missing
    BY DEF InUseOnDisk, TypeOK
  <2>3. \A q \in inUse' : disk'[q] # Missing
    BY <1>4, <2>1, <2>2
  <2>. QED BY <2>3 DEF InUseOnDisk
<1>16. CleanIsOnDisk'
  <2>. SUFFICES ASSUME NEW j \in Frames, bufTable'[j].valid, ~bufTable'[j].dirty,
                       \A b \in Holders(j)' : held'[b].mode = "clean"
                PROVE  bufPool'[j] = disk'[bufTable'[j].page]
    BY DEF CleanIsOnDisk
  <2>1. CASE j = i
    <3>1. held'[c].mode = mode
      BY <1>6 DEF TypeOK
    <3>2. mode = "clean"
      BY <1>9, <2>1, <3>1
    <3>3. bufTable'[j].page = p
      BY <1>2, <1>3, <2>1
    <3>. QED BY <2>1, <3>2, <3>3
  <2>2. CASE j # i
    <3>1. /\ bufTable'[j].page = bufTable[j].page
          /\ bufTable[j].valid /\ ~bufTable[j].dirty
          /\ bufTable[j].page \in Page /\ hashTable[bufTable[j].page] = j
      BY <1>2, <2>2 DEF HashedIffInPool
    <3>2. \A b \in Holders(j) : held[b].mode = "clean"
      BY <1>6, <1>8, <2>2 DEF TypeOK, Holders
    <3>3. bufPool[j] = disk[bufTable[j].page]
      BY <3>1, <3>2 DEF CleanIsOnDisk
    <3>. QED BY <1>4, <2>2, <3>1, <3>3, SentinelAssumption
  <2>. QED BY <2>1, <2>2
<1>. QED BY <1>11, <1>12, <1>13, <1>14, <1>15, <1>16

\* readPage: a hit adds a holder and a pin to the frame of the page.
LEMMA ReadPageStep ==
    ASSUME IInv, NEW c \in Clients, NEW p \in inUse, readPage(c, p)
    PROVE  IInv'
<1>. USE DEF IInv
<1>. p \in Page /\ held[c] = NoPin
  BY DEF TypeOK, readPage
<1>1. CASE readHit(c, p)
  <2>. DEFINE i == hashTable[p]
  <2>. DEFINE pin == [page |-> p, frame |-> i, mode |-> "clean"]
  <2>1. i \in Frames /\ bufTable[i].valid /\ bufTable[i].page = p
    BY <1>1 DEF readHit, HashedIffInPool, TypeOK
  <2>2. pin \in Pin /\ pin # NoPin
    BY <2>1, SentinelAssumption DEF Pin
  <2>3. held' = [held EXCEPT ![c] = pin]
    BY <1>1 DEF readHit
  <2>4. /\ bufTable' \in [Frames -> BufDesc]
        /\ bufTable'[i].pinCnt = bufTable[i].pinCnt + 1
        /\ \A j \in Frames : j # i => bufTable'[j] = bufTable[j]
        /\ \A j \in Frames : /\ bufTable'[j].page = bufTable[j].page
                             /\ bufTable'[j].dirty = bufTable[j].dirty
                             /\ bufTable'[j].valid = bufTable[j].valid
    BY <1>1, <2>1 DEF readHit, TypeOK, BufDesc
  <2>5. TypeOK'
    BY <1>1, <2>2, <2>3, <2>4 DEF readHit, TypeOK, Status
  <2>6. HashedIffInPool'
    BY <1>1, <2>4 DEF readHit, HashedIffInPool, TypeOK
  <2>7. InvalidIsClear' /\ InUseOnDisk'
    BY <1>1, <2>1, <2>4 DEF readHit, InvalidIsClear, InUseOnDisk
  <2>8. /\ \A j \in Frames : j # i => Holders(j)' = Holders(j)
        /\ \A j \in Frames : j = i => Holders(j)' = Holders(j) \cup {c}
    BY <2>2, <2>3 DEF Holders, TypeOK
  <2>9. PinsAreHolders'
    <3>1. \A b \in Clients : held'[b] # NoPin => hashTable'[held'[b].page] = held'[b].frame
      BY <1>1, <2>3 DEF readHit, PinsAreHolders, TypeOK
    <3>2. ASSUME NEW j \in Frames
          PROVE  bufTable'[j].pinCnt = Cardinality(Holders(j)')
      <4>1. IsFiniteSet(Holders(j)) /\ c \notin Holders(j)
        BY ClientsAssumption, FS_Subset DEF Holders
      <4>2. Cardinality(Holders(j) \cup {c}) = Cardinality(Holders(j)) + 1
        BY <4>1, FS_AddElement
      <4>. QED BY <2>1, <2>4, <2>8, <4>2 DEF PinsAreHolders
    <3>. QED BY <3>1, <3>2 DEF PinsAreHolders
  <2>10. CleanIsOnDisk'
    <3>1. \A j \in Frames : \A b \in Holders(j) : b \in Holders(j)' /\ held'[b] = held[b]
      BY <2>3, <2>8 DEF Holders, TypeOK
    <3>. QED BY <1>1, <2>4, <3>1 DEF readHit, CleanIsOnDisk
  <2>. QED BY <2>5, <2>6, <2>7, <2>9, <2>10
<1>2. CASE readMiss(c, p)
  <2>1. PICK k \in 1 .. 2 * NumBufs :
          /\ FirstStop(k)
          /\ disk' = WriteBack(disk, {Hand(k)})
          /\ disk'[p] # Missing
          /\ bufPool' = [bufPool EXCEPT ![Hand(k)] = disk'[p]]
          /\ Install(c, p, k, "clean")
    BY <1>2 DEF readMiss
  <2>2. Hand(k) \in Frames
    BY <2>1, VictimFree
  <2>3. disk' \in [Page -> Contents \cup {Missing}] /\ disk'[p] \in Contents
    BY <2>1, <2>2, WriteBackType DEF TypeOK
  <2>4. /\ bufPool' \in [Frames -> Contents]
        /\ \A j \in Frames : j # Hand(k) => bufPool'[j] = bufPool[j]
        /\ bufPool'[Hand(k)] = disk'[p]
    BY <2>1, <2>2, <2>3 DEF TypeOK
  <2>5. inUse' = inUse \cup {p} /\ hashTable[p] = NoFrame
    BY <1>2 DEF readMiss
  <2>6. disk \in [Page -> Contents \cup {Missing}]
    BY DEF TypeOK
  <2>. HIDE DEF IInv
  <2>7. Installed(c, p, Hand(k), "clean")
    BY <2>1, <2>5, <2>6, InstallEffect
  <2>. QED BY <2>1, <2>3, <2>4, <2>5, <2>7, InstallStep
<1>3. CASE BufferExceeded /\ UNCHANGED <<disk, inUse>>
  BY <1>3, ExceededEffect, ExceededStep
<1>. QED BY <1>1, <1>2, <1>3 DEF readPage

LEMMA AllocPageStep ==
    ASSUME IInv, NEW c \in Clients, NEW p \in Page, allocPage(c, p)
    PROVE  IInv'
<1>. USE DEF IInv
<1>1. p \notin inUse /\ held[c] = NoPin /\ inUse' = inUse \cup {p}
  BY DEF allocPage, CanAllocate, FreePages, InUseOnDisk
<1>2. hashTable[p] = NoFrame
  BY <1>1 DEF HashedIffInPool
<1>3. CASE BufferExceeded /\ disk' = DiskAllocated(p)
  BY <1>1, <1>3, ExceededEffect, ExceededStep
<1>4. CASE \E k \in 1 .. 2 * NumBufs :
             /\ FirstStop(k)
             /\ disk' = WriteBack(DiskAllocated(p), {Hand(k)})
             /\ Install(c, p, k, "fresh")
             /\ UNCHANGED bufPool
  <2>1. PICK k \in 1 .. 2 * NumBufs :
             /\ FirstStop(k)
             /\ disk' = WriteBack(DiskAllocated(p), {Hand(k)})
             /\ Install(c, p, k, "fresh")
             /\ UNCHANGED bufPool
    BY <1>4
  <2>2. /\ DiskAllocated(p) \in [Page -> Contents \cup {Missing}]
        /\ DiskAllocated(p)[p] # Missing
        /\ \A q \in Page : q # p => DiskAllocated(p)[q] = disk[q]
    BY SentinelAssumption DEF DiskAllocated, TypeOK, Contents
  <2>3. disk'[p] # Missing
    BY <2>1, <2>2, VictimFree, WriteBackType
  <2>4. bufPool' \in [Frames -> Contents] /\ \A j \in Frames : bufPool'[j] = bufPool[j]
    BY <2>1 DEF TypeOK
  <2>5. disk' \in [Page -> Contents \cup {Missing}]
    BY <2>1, <2>2, VictimFree, WriteBackType
  <2>. HIDE DEF IInv
  <2>6. Installed(c, p, Hand(k), "fresh")
    BY <1>1, <1>2, <2>1, <2>2, InstallEffect
  <2>. QED BY <1>1, <1>2, <2>3, <2>4, <2>5, <2>6, InstallStep
<1>. QED BY <1>3, <1>4 DEF allocPage

\* A store through a page pointer changes one frame, and its holder knows.
LEMMA WriteStep ==
    ASSUME IInv, NEW c \in Clients, NEW v \in Data, Write(c, v)
    PROVE  IInv'
<1>. USE DEF IInv
<1>1. /\ held[c] \in Pin /\ held[c] # NoPin
      /\ held[c].frame \in Frames
  BY DEF Write, TypeOK, Pin
<1>. DEFINE pin == [held[c] EXCEPT !.mode = "dirty"]
<1>2. pin \in Pin /\ pin # NoPin /\ pin.frame = held[c].frame /\ pin.page = held[c].page
      /\ pin.mode = "dirty"
  BY <1>1, SentinelAssumption DEF Pin
<1>3. held' = [held EXCEPT ![c] = pin]
  BY DEF Write
<1>4. TypeOK'
  BY <1>1, <1>2, <1>3 DEF Write, TypeOK, Contents
<1>5. HashedIffInPool' /\ InvalidIsClear' /\ InUseOnDisk'
  BY DEF Write, HashedIffInPool, InvalidIsClear, InUseOnDisk
<1>6. \A j \in Frames : Holders(j)' = Holders(j)
  BY <1>1, <1>2, <1>3 DEF Holders, TypeOK
<1>7. PinsAreHolders'
  BY <1>2, <1>3, <1>6 DEF Write, PinsAreHolders, TypeOK
<1>8. CleanIsOnDisk'
  <2>1. ASSUME NEW j \in Frames, j # held[c].frame
        PROVE  bufPool'[j] = bufPool[j] /\ \A b \in Holders(j) : held'[b] = held[b]
    BY <1>1, <1>3, <2>1 DEF Write, TypeOK, Holders
  <2>2. c \in Holders(held[c].frame)' /\ held'[c].mode = "dirty"
    BY <1>1, <1>2, <1>3, <1>6 DEF Holders, TypeOK
  <2>3. ASSUME NEW j \in Frames, j = held[c].frame
        PROVE  \E b \in Holders(j)' : held'[b].mode # "clean"
    BY <2>2, <1>1, <1>6, <2>3 DEF Holders
  <2>. QED BY <1>6, <2>1, <2>3 DEF Write, CleanIsOnDisk
<1>. QED BY <1>4, <1>5, <1>7, <1>8

\* What unPinPage does to the table.
LEMMA UnPinFrames ==
    ASSUME IInv, NEW p \in Page, NEW dirty \in BOOLEAN, unPinPage(p, dirty)
    PROVE  /\ bufTable' \in [Frames -> BufDesc]
           /\ status' \in Status
           /\ \A j \in Frames : /\ bufTable'[j].page = bufTable[j].page
                                /\ bufTable'[j].valid = bufTable[j].valid
                                /\ j # hashTable[p] => bufTable'[j] = bufTable[j]
           /\ \A j \in Frames : j = hashTable[p] =>
                    /\ bufTable'[j].dirty = (bufTable[j].dirty \/ dirty)
                    /\ bufTable'[j].pinCnt = IF bufTable[j].pinCnt = 0 THEN 0
                                             ELSE bufTable[j].pinCnt - 1
<1>. USE DEF IInv
<1>1. CASE hashTable[p] = NoFrame
  BY <1>1, SentinelAssumption DEF unPinPage, Unpinned, TypeOK, Status
<1>2. CASE hashTable[p] # NoFrame
  <2>. DEFINE i == hashTable[p]
  <2>. DEFINE d == [bufTable[i] EXCEPT !.dirty  = @ \/ dirty,
                                       !.pinCnt = IF @ = 0 THEN 0 ELSE @ - 1]
  <2>1. i \in Frames /\ bufTable[i] \in BufDesc
    BY <1>2 DEF TypeOK
  <2>. DEFINE x == bufTable[i].dirty \/ dirty
  <2>. DEFINE n == IF bufTable[i].pinCnt = 0 THEN 0 ELSE bufTable[i].pinCnt - 1
  <2>4. x \in BOOLEAN
    OBVIOUS
  <2>5. n \in Nat
    BY <2>1 DEF BufDesc
  <2>6. d = [bufTable[i] EXCEPT !.dirty = x, !.pinCnt = n]
    OBVIOUS
  <2>2. /\ d \in BufDesc
        /\ d.page = bufTable[i].page /\ d.valid = bufTable[i].valid
        /\ d.dirty = x
        /\ d.pinCnt = n
    <3>. HIDE DEF x, n, d
    <3>. QED BY <2>1, <2>4, <2>5, <2>6 DEF BufDesc
  <2>3. bufTable' = [bufTable EXCEPT ![i] = d] /\ status' \in Status
    BY <1>2 DEF unPinPage, Unpinned, Status
  <2>. HIDE DEF d, x
  <2>7. /\ bufTable' \in [Frames -> BufDesc]
        /\ bufTable'[i] = d
        /\ \A j \in Frames : j # i => bufTable'[j] = bufTable[j]
    BY <2>1, <2>2, <2>3 DEF TypeOK
  <2>8. bufTable'[i].dirty = (bufTable[i].dirty \/ dirty)
    BY <2>2, <2>7 DEF x
  <2>. QED BY <2>2, <2>3, <2>7, <2>8
<1>. QED BY <1>1, <1>2

\* A client gives its pin back: one holder and one pin less, and the frame is
\* marked dirty if this holder changed it.
LEMMA ReleaseStep ==
    ASSUME IInv, NEW c \in Clients, Release(c)
    PROVE  IInv'
<1>. USE DEF IInv
<1>. DEFINE p == held[c].page
<1>. DEFINE i == hashTable[p]
<1>. DEFINE wrote == held[c].mode = "dirty"
<1>1. /\ held[c] \in Pin /\ held[c] # NoPin /\ p \in Page /\ i = held[c].frame
      /\ i \in Frames /\ wrote \in BOOLEAN
  BY DEF Release, TypeOK, Pin, PinsAreHolders
<1>2. unPinPage(p, wrote) /\ held' = [held EXCEPT ![c] = NoPin]
  BY DEF Release
<1>. HIDE DEF wrote
<1>3. /\ bufTable' \in [Frames -> BufDesc] /\ status' \in Status
      /\ \A j \in Frames : /\ bufTable'[j].page = bufTable[j].page
                           /\ bufTable'[j].valid = bufTable[j].valid
                           /\ j # i => bufTable'[j] = bufTable[j]
      /\ bufTable'[i].dirty = (bufTable[i].dirty \/ wrote)
      /\ bufTable'[i].pinCnt = IF bufTable[i].pinCnt = 0 THEN 0
                               ELSE bufTable[i].pinCnt - 1
  BY <1>1, <1>2, UnPinFrames
<1>4. UNCHANGED <<bufPool, hashTable, clockHand, disk, inUse>>
  BY <1>2 DEF unPinPage, Unpinned
<1>5. TypeOK'
  BY <1>2, <1>3, <1>4 DEF TypeOK
<1>6. HashedIffInPool' /\ InUseOnDisk'
  BY <1>3, <1>4 DEF HashedIffInPool, InUseOnDisk, TypeOK
<1>7. InvalidIsClear'
  <2>1. bufTable[i].valid
    BY <1>1, SentinelAssumption DEF HashedIffInPool
  <2>. QED BY <1>1, <1>3, <2>1 DEF InvalidIsClear
<1>8. /\ \A j \in Frames : j # i => Holders(j)' = Holders(j)
      /\ \A j \in Frames : j = i => Holders(j)' = Holders(j) \ {c}
  BY <1>1, <1>2 DEF Holders, TypeOK
<1>9. PinsAreHolders'
  <2>1. \A b \in Clients : held'[b] # NoPin => hashTable'[held'[b].page] = held'[b].frame
    BY <1>2, <1>4 DEF PinsAreHolders, TypeOK
  <2>2. ASSUME NEW j \in Frames
        PROVE  bufTable'[j].pinCnt = Cardinality(Holders(j)')
    <3>1. CASE j # i
      BY <1>3, <1>8, <3>1 DEF PinsAreHolders
    <3>2. CASE j = i
      <4>1. IsFiniteSet(Holders(j)) /\ c \in Holders(j)
        BY <1>1, <3>2, ClientsAssumption, FS_Subset DEF Holders
      <4>2. Cardinality(Holders(j) \ {c}) = Cardinality(Holders(j)) - 1
        BY <4>1, FS_RemoveElement
      <4>3. Cardinality(Holders(j)) # 0 /\ Cardinality(Holders(j)) \in Nat
        BY <4>1, FS_EmptySet, FS_CardinalityType
      <4>4. bufTable[j].pinCnt = Cardinality(Holders(j))
        BY DEF PinsAreHolders
      <4>. QED BY <1>3, <1>8, <3>2, <4>2, <4>3, <4>4
    <3>. QED BY <3>1, <3>2
  <2>. QED BY <2>1, <2>2 DEF PinsAreHolders
<1>10. CleanIsOnDisk'
  <2>. SUFFICES ASSUME NEW j \in Frames, bufTable'[j].valid, ~bufTable'[j].dirty,
                       \A b \in Holders(j)' : held'[b].mode = "clean"
                PROVE  bufPool'[j] = disk'[bufTable'[j].page]
    BY DEF CleanIsOnDisk
  <2>1. bufTable[j].valid /\ ~bufTable[j].dirty
    BY <1>3
  <2>2. \A b \in Holders(j) : b # c => held[b].mode = "clean"
    BY <1>2, <1>8 DEF TypeOK, Holders
  <2>3. c \in Holders(j) => held[c].mode = "clean"
    <3>1. ASSUME c \in Holders(j)
          PROVE  ~wrote /\ held[c].mode # "fresh"
      BY <1>1, <1>3, <3>1 DEF Holders, Release
    <3>. QED BY <1>1, <3>1 DEF wrote, Pin
  <2>4. bufPool[j] = disk[bufTable[j].page]
    BY <2>1, <2>2, <2>3 DEF CleanIsOnDisk
  <2>. QED BY <1>3, <1>4, <2>4
<1>. QED BY <1>5, <1>6, <1>7, <1>9, <1>10

\* A page that nobody holds is not pinned.
LEMMA NobodyPins ==
    ASSUME IInv, NEW p \in Page, NobodyHolds(p)
    PROVE  \A j \in Frames : j = hashTable[p] => bufTable[j].pinCnt = 0
<1>. USE DEF IInv
<1>1. hashTable[p] # NoFrame => bufTable[hashTable[p]].page = p
  BY DEF HashedIffInPool
<1>2. ASSUME NEW j \in Frames, j = hashTable[p]
      PROVE  Holders(j) = {}
  <2>1. ASSUME NEW b \in Holders(j) PROVE FALSE
    <3>1. held[b] \in Pin /\ hashTable[held[b].page] = j /\ held[b].page # p
      BY DEF Holders, NobodyHolds, PinsAreHolders, TypeOK
    <3>. QED BY <1>1, <1>2, <3>1, SentinelAssumption DEF HashedIffInPool, Pin
  <2>. QED BY <2>1
<1>. QED BY <1>2, FS_EmptySet DEF PinsAreHolders

\* A second unpin finds the count at zero: it can only set the dirty bit.
LEMMA LateUnPinStep ==
    ASSUME IInv, NEW p \in Page, NEW dirty \in BOOLEAN, LateUnPin(p, dirty)
    PROVE  IInv'
<1>. USE DEF IInv
<1>1. unPinPage(p, dirty) /\ UNCHANGED held
  BY DEF LateUnPin
<1>2. UNCHANGED <<bufPool, hashTable, clockHand, disk, inUse>>
  BY <1>1 DEF unPinPage, Unpinned
<1>3. hashTable[p] # NoFrame =>
        hashTable[p] \in Frames /\ bufTable[hashTable[p]].valid
          /\ bufTable[hashTable[p]].page = p
  BY DEF HashedIffInPool, TypeOK
<1>4. \A j \in Frames : j = hashTable[p] => bufTable[j].pinCnt = 0
  BY NobodyPins DEF LateUnPin
<1>5. /\ bufTable' \in [Frames -> BufDesc] /\ status' \in Status
      /\ \A j \in Frames : /\ bufTable'[j].page = bufTable[j].page
                           /\ bufTable'[j].valid = bufTable[j].valid
                           /\ bufTable'[j].pinCnt = bufTable[j].pinCnt
                           /\ bufTable[j].dirty => bufTable'[j].dirty
                           /\ j # hashTable[p] => bufTable'[j] = bufTable[j]
  <2>. HIDE DEF IInv
  <2>1. /\ bufTable' \in [Frames -> BufDesc] /\ status' \in Status
        /\ \A j \in Frames : /\ bufTable'[j].page = bufTable[j].page
                             /\ bufTable'[j].valid = bufTable[j].valid
                             /\ j # hashTable[p] => bufTable'[j] = bufTable[j]
    BY <1>1, UnPinFrames
  <2>2. ASSUME NEW j \in Frames, j = hashTable[p]
        PROVE  /\ bufTable'[j].pinCnt = bufTable[j].pinCnt
               /\ bufTable'[j].dirty = (bufTable[j].dirty \/ dirty)
    BY <1>1, <1>4, <2>2, UnPinFrames
  <2>. QED BY <2>1, <2>2
<1>6. TypeOK'
  BY <1>1, <1>2, <1>5 DEF TypeOK
<1>7. HashedIffInPool' /\ InUseOnDisk'
  BY <1>2, <1>5 DEF HashedIffInPool, InUseOnDisk, TypeOK
<1>8. InvalidIsClear'
  BY <1>3, <1>5, SentinelAssumption DEF InvalidIsClear
<1>9. \A j \in Frames : Holders(j)' = Holders(j)
  BY <1>1 DEF Holders
<1>10. PinsAreHolders'
  BY <1>1, <1>2, <1>5, <1>9 DEF PinsAreHolders
<1>11. CleanIsOnDisk'
  BY <1>1, <1>2, <1>5, <1>9 DEF CleanIsOnDisk
<1>. QED BY <1>6, <1>7, <1>8, <1>10, <1>11

\* Clearing a frame.
LEMMA ClearFrame ==
    ASSUME NEW d \in BufDesc
    PROVE  /\ Clear(d) \in BufDesc
           /\ Clear(d).page = NoPage /\ Clear(d).pinCnt = 0
           /\ Clear(d).dirty = FALSE /\ Clear(d).valid = FALSE
BY DEF Clear, BufDesc

\* A page nobody holds is dropped from the pool and goes back to its file.
LEMMA DisposeStep ==
    ASSUME IInv, NEW p \in Page, Dispose(p)
    PROVE  IInv'
<1>. USE DEF IInv
<1>1. /\ inUse' = inUse \ {p} /\ disk' = [disk EXCEPT ![p] = Blank]
      /\ status' = "OK"
      /\ UNCHANGED <<bufPool, clockHand, held>>
      /\ hashTable' = remove(hashTable, p)
      /\ bufTable' = IF hashTable[p] = NoFrame THEN bufTable
                     ELSE [bufTable EXCEPT ![hashTable[p]] = Clear(@)]
  BY DEF Dispose, disposePage
<1>2. hashTable[p] # NoFrame =>
        /\ hashTable[p] \in Frames
        /\ bufTable[hashTable[p]].valid
        /\ bufTable[hashTable[p]].page = p
  BY DEF HashedIffInPool, TypeOK
<1>3. /\ bufTable' \in [Frames -> BufDesc]
      /\ \A j \in Frames : j # hashTable[p] => bufTable'[j] = bufTable[j]
      /\ \A j \in Frames : j = hashTable[p] =>
            /\ bufTable'[j].page = NoPage /\ bufTable'[j].pinCnt = 0
            /\ bufTable'[j].dirty = FALSE /\ bufTable'[j].valid = FALSE
  <2>1. CASE hashTable[p] = NoFrame
    BY <1>1, <2>1, SentinelAssumption DEF TypeOK
  <2>2. CASE hashTable[p] # NoFrame
    <3>1. bufTable[hashTable[p]] \in BufDesc
      BY <1>2, <2>2 DEF TypeOK
    <3>. QED BY <1>1, <1>2, <2>2, <3>1, ClearFrame DEF TypeOK
  <2>. QED BY <2>1, <2>2
<1>4. /\ hashTable' \in [Page -> Frames \cup {NoFrame}]
      /\ hashTable'[p] = NoFrame
      /\ \A q \in Page : q # p => hashTable'[q] = hashTable[q]
  BY <1>1 DEF remove, TypeOK
<1>5. TypeOK'
  BY <1>1, <1>3, <1>4 DEF TypeOK, Status, Contents
<1>6. \A q \in Page : q # p /\ hashTable[q] # NoFrame => hashTable[q] # hashTable[p]
  BY DEF HashedIffInPool
<1>7. HashedIffInPool'
  <2>1. ASSUME NEW q \in Page, hashTable'[q] # NoFrame
        PROVE  /\ bufTable'[hashTable'[q]].valid
               /\ bufTable'[hashTable'[q]].page = q
               /\ q \in inUse'
    BY <1>1, <1>3, <1>4, <1>6, <2>1 DEF HashedIffInPool, TypeOK
  <2>2. ASSUME NEW j \in Frames, bufTable'[j].valid
        PROVE  bufTable'[j].page \in Page /\ hashTable'[bufTable'[j].page] = j
    <3>1. j # hashTable[p] /\ bufTable'[j] = bufTable[j]
      BY <1>3, <2>2
    <3>. QED BY <1>4, <2>2, <3>1 DEF HashedIffInPool
  <2>. QED BY <2>1, <2>2 DEF HashedIffInPool
<1>8. InvalidIsClear' /\ InUseOnDisk'
  BY <1>1, <1>3, SentinelAssumption DEF InvalidIsClear, InUseOnDisk, TypeOK, Contents
<1>9. \A j \in Frames : Holders(j)' = Holders(j)
  BY <1>1 DEF Holders
<1>10. PinsAreHolders'
  <2>1. \A b \in Clients : held[b] # NoPin => held[b].page \in Page /\ held[b].page # p
    BY DEF Dispose, NobodyHolds, TypeOK, Pin
  <2>2. \A j \in Frames : j = hashTable[p] => Holders(j) = {}
    <3>. SUFFICES ASSUME NEW j \in Frames, j = hashTable[p], NEW b \in Holders(j)
                  PROVE  FALSE
      OBVIOUS
    <3>1. hashTable[held[b].page] = hashTable[p] /\ held[b].page \in Page /\ held[b].page # p
      BY <2>1 DEF Holders, PinsAreHolders
    <3>. QED BY <1>6, <3>1, SentinelAssumption
  <2>3. \A j \in Frames : bufTable'[j].pinCnt = Cardinality(Holders(j)')
    BY <1>3, <1>9, <2>2, FS_EmptySet DEF PinsAreHolders
  <2>4. \A b \in Clients : held'[b] # NoPin => hashTable'[held'[b].page] = held'[b].frame
    BY <1>1, <1>4, <2>1 DEF PinsAreHolders
  <2>. QED BY <2>3, <2>4 DEF PinsAreHolders
<1>11. CleanIsOnDisk'
  <2>. SUFFICES ASSUME NEW j \in Frames, bufTable'[j].valid, ~bufTable'[j].dirty,
                       \A b \in Holders(j)' : held'[b].mode = "clean"
                PROVE  bufPool'[j] = disk'[bufTable'[j].page]
    BY DEF CleanIsOnDisk
  <2>1. j # hashTable[p] /\ bufTable'[j] = bufTable[j]
    BY <1>3
  <2>2. bufTable[j].page \in Page /\ bufTable[j].page # p
    BY <2>1 DEF HashedIffInPool
  <2>3. bufPool[j] = disk[bufTable[j].page]
    BY <1>1, <1>9, <2>1 DEF CleanIsOnDisk
  <2>. QED BY <1>1, <2>1, <2>2, <2>3 DEF TypeOK
<1>. QED BY <1>5, <1>7, <1>8, <1>10, <1>11

\* Writing back frames nobody holds leaves the current content of their pages
\* on disk: what was not dirty was there already.
LEMMA WrittenIsCurrent ==
    ASSUME IInv, NEW S \in SUBSET Frames, \A i \in S : bufTable[i].pinCnt = 0,
           NEW p \in Page, hashTable[p] \in S \/ hashTable[p] = NoFrame
    PROVE  WriteBack(disk, S)[p] = Current(p)
<1>. USE DEF IInv
<1>1. WriteBack(disk, S)[p] = IF hashTable[p] \in S /\ bufTable[hashTable[p]].dirty
                              THEN bufPool[hashTable[p]] ELSE disk[p]
  BY WriteBackPage
<1>2. CASE hashTable[p] = NoFrame
  BY <1>1, <1>2, SentinelAssumption DEF Current
<1>3. CASE hashTable[p] \in S
  <2>1. /\ hashTable[p] \in Frames /\ hashTable[p] # NoFrame
        /\ bufTable[hashTable[p]].valid /\ bufTable[hashTable[p]].page = p
    BY <1>3, SentinelAssumption DEF HashedIffInPool
  <2>2. Holders(hashTable[p]) = {}
    <3>1. IsFiniteSet(Holders(hashTable[p]))
      BY ClientsAssumption, FS_Subset DEF Holders
    <3>. QED BY <1>3, <2>1, <3>1, FS_EmptySet DEF PinsAreHolders
  <2>3. bufTable[hashTable[p]].dirty \/ bufPool[hashTable[p]] = disk[p]
    BY <2>1, <2>2 DEF CleanIsOnDisk
  <2>. QED BY <1>1, <1>3, <2>1, <2>3 DEF Current
<1>. QED BY <1>2, <1>3

\* flushFile writes back a set S of frames of the file, none of them pinned,
\* and clears them; OK means that these are all the frames of the file.
Flushed(f, S) ==
    /\ S \in SUBSET FramesOf(f) /\ S \in SUBSET Frames
    /\ \A i \in S : bufTable[i].valid /\ bufTable[i].pinCnt = 0
    /\ status' = "OK" => S = FramesOf(f)
    /\ disk' = WriteBack(disk, S)
    /\ bufTable' \in [Frames -> BufDesc]
    /\ \A j \in Frames : j \notin S => bufTable'[j] = bufTable[j]
    /\ \A j \in S : /\ bufTable'[j].page = NoPage /\ bufTable'[j].pinCnt = 0
                    /\ bufTable'[j].dirty = FALSE /\ bufTable'[j].valid = FALSE
    /\ hashTable' \in [Page -> Frames \cup {NoFrame}]
    /\ \A q \in Page : hashTable'[q] = IF hashTable[q] \in S THEN NoFrame
                                       ELSE hashTable[q]
    /\ status' \in Status
    /\ UNCHANGED <<bufPool, clockHand, inUse, held>>

LEMMA FlushEffect ==
    ASSUME IInv, NEW f \in Files, flushFile(f)
    PROVE  \E S : Flushed(f, S)
<1>. USE DEF IInv
<1>. DEFINE pinned  == {i \in FramesOf(f) : bufTable[i].pinCnt > 0}
<1>. DEFINE flushed == {i \in FramesOf(f) : \A j \in pinned : i < j}
<1>1. /\ disk' = WriteBack(disk, flushed)
      /\ hashTable' = [p \in Page |->
            IF \E i \in flushed : bufTable[i].page = p THEN NoFrame ELSE hashTable[p]]
      /\ bufTable' = [i \in Frames |->
            IF i \in flushed THEN Clear(bufTable[i]) ELSE bufTable[i]]
      /\ status' \in Status
      /\ UNCHANGED <<bufPool, clockHand, inUse, held>>
  BY DEF flushFile, Status
<1>2. /\ flushed \in SUBSET Frames /\ flushed \in SUBSET FramesOf(f)
      /\ \A i \in flushed : bufTable[i].valid /\ bufTable[i].pinCnt = 0
      /\ status' = "OK" => flushed = FramesOf(f)
  <2>1. \A i \in Frames : i \in Int /\ bufTable[i].pinCnt \in Nat
    BY NumBufsAssumption DEF Frames, TypeOK, BufDesc
  <2>2. status' = "OK" => pinned = {}
    BY DEF flushFile
  <2>. QED BY <2>1, <2>2 DEF FramesOf
<1>. HIDE DEF flushed, pinned
<1>3. /\ bufTable' \in [Frames -> BufDesc]
      /\ \A j \in Frames : j \notin flushed => bufTable'[j] = bufTable[j]
      /\ \A j \in flushed :
            /\ bufTable'[j].page = NoPage /\ bufTable'[j].pinCnt = 0
            /\ bufTable'[j].dirty = FALSE /\ bufTable'[j].valid = FALSE
  BY <1>1, <1>2, ClearFrame DEF TypeOK
<1>4. /\ hashTable' \in [Page -> Frames \cup {NoFrame}]
      /\ \A q \in Page : hashTable'[q] = IF hashTable[q] \in flushed THEN NoFrame
                                         ELSE hashTable[q]
  <2>1. \A q \in Page : (\E i \in flushed : bufTable[i].page = q) <=> hashTable[q] \in flushed
    BY <1>2, SentinelAssumption DEF HashedIffInPool
  <2>. QED BY <1>1, <2>1 DEF TypeOK
<1>. HIDE DEF IInv
<1>5. Flushed(f, flushed)
  BY <1>1, <1>2, <1>3, <1>4 DEF Flushed
<1>. QED BY <1>5

\* The frames flushed are not pinned; they are on disk before they are
\* cleared.
LEMMA FlushStep ==
    ASSUME IInv, NEW f \in Files, flushFile(f)
    PROVE  IInv'
<1>. PICK flushed : Flushed(f, flushed)
  BY FlushEffect
<1>. USE DEF IInv
<1>1. /\ disk' = WriteBack(disk, flushed)
      /\ status' \in Status
      /\ UNCHANGED <<bufPool, clockHand, inUse, held>>
  BY DEF Flushed
<1>2. /\ flushed \in SUBSET Frames
      /\ \A i \in flushed : bufTable[i].valid /\ bufTable[i].pinCnt = 0
  BY DEF Flushed
<1>3. /\ bufTable' \in [Frames -> BufDesc]
      /\ \A j \in Frames : j \notin flushed => bufTable'[j] = bufTable[j]
      /\ \A j \in flushed :
            /\ bufTable'[j].page = NoPage /\ bufTable'[j].pinCnt = 0
            /\ bufTable'[j].dirty = FALSE /\ bufTable'[j].valid = FALSE
  BY DEF Flushed
<1>4. /\ hashTable' \in [Page -> Frames \cup {NoFrame}]
      /\ \A q \in Page : hashTable'[q] = IF hashTable[q] \in flushed THEN NoFrame
                                         ELSE hashTable[q]
  BY DEF Flushed
<1>5. /\ disk' \in [Page -> Contents \cup {Missing}]
      /\ \A q \in Page : disk[q] # Missing => disk'[q] # Missing
  BY <1>1, <1>2, WriteBackType DEF TypeOK
<1>6. \A q \in Page : hashTable[q] \notin flushed => disk'[q] = disk[q]
  BY <1>1, <1>2, WriteBackPage
<1>7. TypeOK'
  BY <1>1, <1>3, <1>4, <1>5 DEF TypeOK
<1>8. HashedIffInPool'
  <2>1. ASSUME NEW q \in Page, hashTable'[q] # NoFrame
        PROVE  /\ bufTable'[hashTable'[q]].valid
               /\ bufTable'[hashTable'[q]].page = q
               /\ q \in inUse'
    BY <1>1, <1>3, <1>4, <2>1 DEF HashedIffInPool, TypeOK
  <2>2. ASSUME NEW j \in Frames, bufTable'[j].valid
        PROVE  bufTable'[j].page \in Page /\ hashTable'[bufTable'[j].page] = j
    BY <1>3, <1>4, <2>2 DEF HashedIffInPool
  <2>. QED BY <2>1, <2>2 DEF HashedIffInPool
<1>9. InvalidIsClear' /\ InUseOnDisk'
  BY <1>1, <1>3, <1>5 DEF InvalidIsClear, InUseOnDisk, TypeOK
<1>10. \A j \in Frames : Holders(j)' = Holders(j)
  BY <1>1 DEF Holders
<1>11. \A j \in flushed : Holders(j) = {}
  <2>1. ASSUME NEW j \in flushed
        PROVE  IsFiniteSet(Holders(j)) /\ Cardinality(Holders(j)) = 0
    BY <1>2, ClientsAssumption, FS_Subset DEF Holders, PinsAreHolders
  <2>. QED BY <2>1, FS_EmptySet
<1>12. PinsAreHolders'
  <2>1. \A j \in Frames : bufTable'[j].pinCnt = Cardinality(Holders(j)')
    BY <1>3, <1>10, <1>11, FS_EmptySet DEF PinsAreHolders
  <2>2. ASSUME NEW b \in Clients, held[b] # NoPin
        PROVE  hashTable'[held[b].page] = held[b].frame
    <3>1. held[b].page \in Page /\ hashTable[held[b].page] = held[b].frame
      BY <2>2 DEF PinsAreHolders, TypeOK, Pin
    <3>2. held[b].frame \notin flushed
      BY <1>11, <2>2 DEF Holders
    <3>. QED BY <1>4, <3>1, <3>2
  <2>. QED BY <1>1, <2>1, <2>2 DEF PinsAreHolders
<1>13. CleanIsOnDisk'
  <2>. SUFFICES ASSUME NEW j \in Frames, bufTable'[j].valid, ~bufTable'[j].dirty,
                       \A b \in Holders(j)' : held'[b].mode = "clean"
                PROVE  bufPool'[j] = disk'[bufTable'[j].page]
    BY DEF CleanIsOnDisk
  <2>1. j \notin flushed /\ bufTable'[j] = bufTable[j]
    BY <1>3
  <2>2. bufTable[j].page \in Page /\ hashTable[bufTable[j].page] = j
    BY <2>1 DEF HashedIffInPool
  <2>3. bufPool[j] = disk[bufTable[j].page]
    BY <1>1, <1>10, <2>1 DEF CleanIsOnDisk
  <2>. QED BY <1>1, <1>6, <2>1, <2>2, <2>3
<1>. QED BY <1>7, <1>8, <1>9, <1>12, <1>13

\* A new run starts with an empty pool over the pages that were written.
LEMMA RestartStep ==
    ASSUME IInv, Restart
    PROVE  IInv'
<1>. USE DEF IInv
<1>1. EmptyDesc \in BufDesc /\ EmptyDesc.valid = FALSE /\ EmptyDesc.page = NoPage
        /\ EmptyDesc.pinCnt = 0 /\ EmptyDesc.dirty = FALSE
  BY DEF EmptyDesc, BufDesc
<1>2. /\ disk' \in [Page -> Contents \cup {Missing}]
      /\ \A q \in Page : disk[q] # Missing => disk'[q] # Missing
  BY WriteBackType DEF Restart, TypeOK
<1>3. TypeOK'
  BY <1>1, <1>2, NumBufsAssumption DEF Restart, TypeOK, Frames, Contents, Status
<1>4. HashedIffInPool' /\ InvalidIsClear' /\ InUseOnDisk' /\ CleanIsOnDisk'
  BY <1>1, <1>2 DEF Restart, HashedIffInPool, InvalidIsClear, InUseOnDisk,
                    CleanIsOnDisk, TypeOK
<1>5. \A j \in Frames : Holders(j)' = {}
  BY DEF Restart, Holders
<1>6. PinsAreHolders'
  BY <1>1, <1>5, FS_EmptySet DEF Restart, PinsAreHolders
<1>. QED BY <1>3, <1>4, <1>6

-----------------------------------------------------------------------------
(* The theorems.                                                           *)

LEMMA NextIInv == IInv /\ [Next]_vars => IInv'
<1>. SUFFICES ASSUME IInv, [Next]_vars
              PROVE  IInv'
  OBVIOUS
<1>1. ASSUME NEW c \in Clients, NEW p \in inUse, readPage(c, p) PROVE IInv'
  BY <1>1, ReadPageStep
<1>2. ASSUME NEW c \in Clients, NEW p \in Page, allocPage(c, p) PROVE IInv'
  BY <1>2, AllocPageStep
<1>3. ASSUME NEW c \in Clients, NEW v \in Data, Write(c, v) PROVE IInv'
  BY <1>3, WriteStep
<1>4. ASSUME NEW c \in Clients, Release(c) PROVE IInv'
  BY <1>4, ReleaseStep
<1>5. ASSUME NEW p \in Page, NEW d \in BOOLEAN, LateUnPin(p, d) PROVE IInv'
  BY <1>5, LateUnPinStep
<1>6. ASSUME NEW p \in Page, Dispose(p) PROVE IInv'
  BY <1>6, DisposeStep
<1>7. ASSUME NEW f \in Files, flushFile(f) PROVE IInv'
  BY <1>7, FlushStep
<1>8. CASE Restart
  BY <1>8, RestartStep
<1>9. CASE UNCHANGED vars
  BY <1>9 DEF vars, IInv, TypeOK, HashedIffInPool, InvalidIsClear, PinsAreHolders,
              InUseOnDisk, CleanIsOnDisk, Holders
<1>. QED BY <1>1, <1>2, <1>3, <1>4, <1>5, <1>6, <1>7, <1>8, <1>9 DEF Next

\* The inductive invariant holds of every behaviour.
THEOREM Invariance == Spec => []IInv
<1>. QED BY InitIInv, NextIInv, PTL DEF Spec

\* The variables keep their types, whatever the number of frames, files,
\* pages and clients.
THEOREM TypeCorrect == Spec => []TypeOK
<1>1. IInv => TypeOK
  BY DEF IInv
<1>. QED BY <1>1, Invariance, PTL

\* A page is in the pool if and only if it is in the hash table, and it is in
\* one frame: allocBuf, readPage, allocPage, flushFile and disposePage keep the
\* two in step.
THEOREM HashedIffInPoolAlways == Spec => []HashedIffInPool
<1>1. IInv => HashedIffInPool
  BY DEF IInv
<1>. QED BY <1>1, Invariance, PTL

\* No replacement, flush, disposal or unpin moves a page under a client that
\* has it pinned, and the pin count is the number of such clients.
THEOREM PinsAreHoldersAlways == Spec => []PinsAreHolders
<1>1. IInv => PinsAreHolders
  BY DEF IInv
<1>. QED BY <1>1, Invariance, PTL

\* An update is never lost by a clean drop of its frame: what is not marked
\* dirty is on disk.
THEOREM CleanIsOnDiskAlways == Spec => []CleanIsOnDisk
<1>1. IInv => CleanIsOnDisk
  BY DEF IInv
<1>. QED BY <1>1, Invariance, PTL

-----------------------------------------------------------------------------
(* The action properties.                                                  *)

\* Two turns of the clock look at every frame twice, the second time with
\* every reference bit off: when they find no victim, every frame is pinned.
THEOREM ExceededOnlyIfAllPinnedAlways == Spec => ExceededOnlyIfAllPinned
<1>1. ASSUME TypeOK, BufferExceeded
      PROVE  \A i \in Frames : bufTable[i].pinCnt > 0
  <2>. SUFFICES ASSUME NEW i \in Frames PROVE bufTable[i].pinCnt > 0
    OBVIOUS
  <2>1. PICK k \in NumBufs + 1 .. 2 * NumBufs : Hand(k) = i
    BY <1>1, HandCovers
  <2>2. k \in 1 .. 2 * NumBufs /\ k > NumBufs
    BY <2>1, NumBufsAssumption
  <2>3. bufTable[i].pinCnt # 0
    BY <1>1, <2>1, <2>2 DEF BufferExceeded, NoVictim, Stops
  <2>. QED BY <1>1, <2>3 DEF TypeOK, BufDesc
<1>2. TypeOK /\ [Next]_vars
        => [BufferExceeded => \A i \in Frames : bufTable[i].pinCnt > 0]_vars
  BY <1>1
<1>. QED BY <1>2, TypeCorrect, PTL DEF Spec, ExceededOnlyIfAllPinned

\* With no frame of the file pinned, all of them are flushed.
LEMMA FlushedOnDisk ==
    ASSUME IInv, NEW f \in Files, flushFile(f), status' = "OK"
    PROVE  /\ FramesOf(f)' = {}
           /\ \A p \in inUse : p[1] = f => disk'[p] = Current(p)
<1>1. PICK S : Flushed(f, S)
  BY FlushEffect
<1>2. S = FramesOf(f)
  BY <1>1 DEF Flushed
<1>3. FramesOf(f)' = {}
  BY <1>1, <1>2 DEF Flushed, FramesOf
<1>4. ASSUME NEW p \in inUse, p[1] = f
      PROVE  disk'[p] = Current(p)
  <2>1. p \in Page /\ hashTable[p] \in Frames \cup {NoFrame}
    BY DEF IInv, TypeOK
  <2>2. hashTable[p] \in S \/ hashTable[p] = NoFrame
    BY <1>2, <1>4, <2>1 DEF IInv, HashedIffInPool, FramesOf
  <2>. QED BY <1>1, <2>1, <2>2, WrittenIsCurrent DEF Flushed
<1>. QED BY <1>3, <1>4

\* When flushFile answers OK the file has left the pool and its pages are on
\* disk as the clients last saw them.
THEOREM FlushIsCompleteAlways == Spec => FlushIsComplete
<1>. DEFINE A == \A f \in Files : flushFile(f) /\ status' = "OK" =>
                    /\ FramesOf(f)' = {}
                    /\ \A p \in inUse : p[1] = f => disk'[p] = Current(p)
<1>1. IInv => A
  BY FlushedOnDisk
<1>2. IInv /\ [Next]_vars => [A]_vars
  BY <1>1
<1>. QED BY <1>2, Invariance, PTL DEF Spec, FlushIsComplete

\* The page of a frame that stays valid changes only in the frame a call takes
\* as its victim.
LEMMA OnlyInstallReplaces ==
    ASSUME IInv, Next, NEW i \in Frames,
           bufTable[i].valid, bufTable'[i].valid, bufTable[i].page # bufTable'[i].page
    PROVE  \E k \in 1 .. 2 * NumBufs : FirstStop(k) /\ Hand(k) = i
<1>. USE DEF IInv
<1>1. ASSUME BufferExceeded PROVE FALSE
  BY <1>1, SweptFrames DEF BufferExceeded
<1>2. ASSUME NEW c, NEW p, NEW k \in 1 .. 2 * NumBufs, NEW mode,
             FirstStop(k), Install(c, p, k, mode)
      PROVE  Hand(k) = i
  BY <1>2, SweptFrames DEF Install
<1>3. ASSUME NEW c \in Clients, NEW p \in inUse, readPage(c, p)
      PROVE  \E k \in 1 .. 2 * NumBufs : FirstStop(k) /\ Hand(k) = i
  <2>1. ~readHit(c, p)
    BY DEF readHit, TypeOK, BufDesc
  <2>. QED BY <1>1, <1>2, <1>3, <2>1 DEF readPage, readMiss
<1>4. ASSUME NEW c \in Clients, NEW p \in Page, allocPage(c, p)
      PROVE  \E k \in 1 .. 2 * NumBufs : FirstStop(k) /\ Hand(k) = i
  BY <1>1, <1>2, <1>4 DEF allocPage
<1>5. ASSUME NEW p \in Page, NEW d \in BOOLEAN, unPinPage(p, d) PROVE FALSE
  <2>. HIDE DEF IInv
  <2>. QED BY <1>5, UnPinFrames
<1>6. ASSUME NEW c \in Clients, Release(c) PROVE FALSE
  <2>1. held[c].page \in Page
    BY <1>6 DEF Release, TypeOK, Pin
  <2>2. (held[c].mode = "dirty") \in BOOLEAN
    OBVIOUS
  <2>. QED BY <1>5, <1>6, <2>1, <2>2 DEF Release
<1>7. ASSUME NEW p \in Page, NEW d \in BOOLEAN, LateUnPin(p, d) PROVE FALSE
  BY <1>5, <1>7 DEF LateUnPin
<1>8. ASSUME NEW c \in Clients, NEW v \in Data, Write(c, v) PROVE FALSE
  BY <1>8 DEF Write
<1>9. ASSUME NEW p \in Page, Dispose(p) PROVE FALSE
  BY <1>9, ClearFrame DEF Dispose, disposePage, TypeOK
<1>10. ASSUME NEW f \in Files, flushFile(f) PROVE FALSE
  BY <1>10, ClearFrame DEF flushFile, TypeOK
<1>11. CASE Restart
  BY <1>11 DEF Restart, EmptyDesc
<1>. QED BY <1>3, <1>4, <1>6, <1>7, <1>8, <1>9, <1>10, <1>11 DEF Next

\* A page whose reference bit is on loses its frame only on the second turn of
\* the clock: the first turn met every frame, and none was unpinned with its
\* bit off.
THEOREM SecondChanceAlways == Spec => SecondChance
<1>. DEFINE Referenced(i) == /\ bufTable[i].valid /\ bufTable'[i].valid
                             /\ bufTable[i].page # bufTable'[i].page
                             /\ bufTable[i].refbit
<1>. DEFINE AllReferenced == \A j \in Frames :
                bufTable[j].valid /\ bufTable[j].pinCnt = 0 => bufTable[j].refbit
<1>. DEFINE A == \A i \in Frames : Referenced(i) => AllReferenced
<1>1. ASSUME IInv, Next, NEW i \in Frames, Referenced(i),
             NEW j \in Frames, bufTable[j].valid, bufTable[j].pinCnt = 0
      PROVE  bufTable[j].refbit
  <2>1. PICK k \in 1 .. 2 * NumBufs : FirstStop(k) /\ Hand(k) = i
    BY <1>1, OnlyInstallReplaces
  <2>2. k > NumBufs
    BY <1>1, <2>1 DEF FirstStop, Stops
  <2>3. PICK m \in 1 .. NumBufs : Hand(m) = j
    BY <1>1, HandCovers DEF IInv
  <2>4. ~Stops(m)
    BY <2>1, <2>2, <2>3, NumBufsAssumption DEF FirstStop
  <2>. QED BY <1>1, <2>3, <2>4 DEF Stops
<1>2. IInv /\ [Next]_vars => [A]_vars
  BY <1>1
<1>. QED BY <1>2, Invariance, PTL DEF Spec, SecondChance

-----------------------------------------------------------------------------
(* The buffer manager implements PagePool: the content of a page handed    *)
(* out is that of its frame, or of the disk if it has none.                *)

\* A page handed out has a content.
LEMMA CurrentType ==
    ASSUME IInv, NEW p \in inUse
    PROVE  /\ p \in Page
           /\ Current(p) \in Contents /\ Current(p) # Missing
           /\ storeBar[p] = Current(p)
BY SentinelAssumption DEF IInv, TypeOK, InUseOnDisk, Current, storeBar

\* What a client has pinned is a page handed out, in the frame its pointer
\* leads to.
LEMMA HeldPage ==
    ASSUME IInv, NEW c \in Clients, held[c] # NoPin
    PROVE  /\ held[c] \in Pin
           /\ held[c].page \in Page /\ held[c].page \in inUse
           /\ held[c].page # NoPin
           /\ hashTable[held[c].page] = held[c].frame /\ held[c].frame \in Frames
           /\ pinsBar[c] = held[c].page
BY SentinelAssumption DEF IInv, TypeOK, Pin, PinsAreHolders, HashedIffInPool, pinsBar

\* A page that comes into the pool for client c: no other page changes its
\* content, and the client has it pinned.
LEMMA InstallCurrent ==
    ASSUME IInv, IInv', NEW c \in Clients, NEW p \in Page, NEW i,
           NEW mode \in {"clean", "fresh"},
           Installed(c, p, i, mode),
           \A j \in Frames : j # i => bufPool'[j] = bufPool[j],
           inUse' = inUse \cup {p}
    PROVE  /\ \A q \in inUse : q # p => Current(q)' = Current(q)
           /\ Current(p)' = bufPool'[i]
           /\ storeBar' = [storeBar EXCEPT ![p] = bufPool'[i]]
           /\ pinsBar' = [pinsBar EXCEPT ![c] = p]
<1>1. /\ i \in Frames /\ i # NoFrame
      /\ bufTable[i].pinCnt = 0
      /\ hashTable'[p] = i
      /\ \A q \in Page : q # p =>
            /\ hashTable'[q] = IF hashTable[q] = i THEN NoFrame ELSE hashTable[q]
            /\ disk'[q] = IF hashTable[q] = i /\ bufTable[i].dirty
                          THEN bufPool[i] ELSE disk[q]
      /\ held' = [held EXCEPT ![c] = [page |-> p, frame |-> i, mode |-> mode]]
  BY SentinelAssumption DEF Installed
<1>2. Current(p)' = bufPool'[i]
  BY <1>1 DEF Current
<1>3. ASSUME NEW q \in inUse, q # p
      PROVE  Current(q)' = Current(q)
  <2>1. q \in Page /\ hashTable[q] \in Frames \cup {NoFrame}
    BY DEF IInv, TypeOK
  <2>2. CASE hashTable[q] = i
    <3>1. WriteBack(disk, {i})[q] = Current(q)
      BY <1>1, <2>1, <2>2, WrittenIsCurrent
    <3>2. WriteBack(disk, {i})[q] = IF hashTable[q] \in {i} /\ bufTable[hashTable[q]].dirty
                                    THEN bufPool[hashTable[q]] ELSE disk[q]
      BY <1>1, <2>1, WriteBackPage DEF IInv
    <3>3. disk'[q] = WriteBack(disk, {i})[q] /\ hashTable'[q] = NoFrame
      BY <1>1, <1>3, <2>1, <2>2, <3>2
    <3>. QED BY <3>1, <3>3 DEF Current
  <2>3. CASE hashTable[q] # i
    <3>1. hashTable'[q] = hashTable[q] /\ disk'[q] = disk[q]
      BY <1>1, <1>3, <2>1, <2>3
    <3>2. hashTable[q] # NoFrame => bufPool'[hashTable[q]] = bufPool[hashTable[q]]
      BY <2>1, <2>3
    <3>. QED BY <3>1, <3>2 DEF Current
  <2>. QED BY <2>2, <2>3
<1>4. storeBar' = [storeBar EXCEPT ![p] = bufPool'[i]]
  <2>1. storeBar' = [q \in Page |-> IF q \in inUse \cup {p} THEN Current(q)' ELSE Missing]
    BY DEF storeBar
  <2>. QED BY <1>2, <1>3, <2>1 DEF storeBar
<1>5. pinsBar' = [pinsBar EXCEPT ![c] = p]
  <2>. DEFINE pin == [page |-> p, frame |-> i, mode |-> mode]
  <2>1. held' = [held EXCEPT ![c] = pin] /\ pin.page = p
    BY <1>1
  <2>2. pin # NoPin
    BY <1>1, SentinelAssumption DEF Pin
  <2>3. held \in [Clients -> Pin \cup {NoPin}]
    BY DEF IInv, TypeOK
  <2>. HIDE DEF pin
  <2>. QED BY <2>1, <2>2, <2>3 DEF pinsBar
<1>. QED BY <1>2, <1>3, <1>4, <1>5

\* With every frame pinned no page changes its content.
LEMMA ExceededCurrent ==
    ASSUME Exceeded, NEW p, hashTable[p] # NoFrame \/ disk'[p] = disk[p]
    PROVE  Current(p)' = Current(p)
BY DEF Exceeded, Current

\* readPage gives the client a pin, or answers BUFFEREXCEEDED.
LEMMA ReadPageImplements ==
    ASSUME IInv, IInv', NEW c \in Clients, NEW p \in inUse, readPage(c, p)
    PROVE  Pool!Pin(c, p) \/ UNCHANGED <<storeBar, pinsBar>>
<1>1. /\ p \in Page /\ pinsBar[c] = NoPin /\ storeBar[p] # Missing
      /\ held[c] = NoPin
  BY CurrentType DEF readPage, pinsBar
<1>2. CASE readHit(c, p)
  <2>1. UNCHANGED storeBar
    BY <1>2 DEF readHit, storeBar, Current
  <2>2. pinsBar' = [pinsBar EXCEPT ![c] = p]
    <3>. DEFINE pin == [page |-> p, frame |-> hashTable[p], mode |-> "clean"]
    <3>1. held' = [held EXCEPT ![c] = pin] /\ pin.page = p
      BY <1>2 DEF readHit
    <3>2. pin # NoPin
      BY <1>1, <1>2, SentinelAssumption DEF readHit, Pin, IInv, TypeOK
    <3>3. held \in [Clients -> Pin \cup {NoPin}]
      BY DEF IInv, TypeOK
    <3>. HIDE DEF pin
    <3>. QED BY <3>1, <3>2, <3>3 DEF pinsBar
  <2>. QED BY <1>1, <2>1, <2>2 DEF Pool!Pin
<1>3. CASE readMiss(c, p)
  <2>1. PICK k \in 1 .. 2 * NumBufs :
          /\ FirstStop(k)
          /\ disk' = WriteBack(disk, {Hand(k)})
          /\ bufPool' = [bufPool EXCEPT ![Hand(k)] = disk'[p]]
          /\ Install(c, p, k, "clean")
    BY <1>3 DEF readMiss
  <2>2. hashTable[p] = NoFrame /\ inUse' = inUse \cup {p} /\ UNCHANGED inUse
    BY <1>3 DEF readMiss
  <2>3. disk \in [Page -> Contents \cup {Missing}] /\ bufPool \in [Frames -> Contents]
    BY DEF IInv, TypeOK
  <2>4. Installed(c, p, Hand(k), "clean")
    BY <1>1, <2>1, <2>2, <2>3, InstallEffect
  <2>5. Hand(k) \in Frames
    BY <2>4 DEF Installed
  <2>6. \A j \in Frames : j # Hand(k) => bufPool'[j] = bufPool[j]
    BY <2>1, <2>3
  <2>7. /\ storeBar' = [storeBar EXCEPT ![p] = bufPool'[Hand(k)]]
        /\ pinsBar' = [pinsBar EXCEPT ![c] = p]
    BY <1>1, <2>2, <2>4, <2>6, InstallCurrent
  <2>8. bufPool'[Hand(k)] = storeBar[p]
    <3>1. WriteBack(disk, {Hand(k)})[p] = Current(p)
      BY <1>1, <2>2, <2>4, <2>5, WrittenIsCurrent DEF Installed
    <3>. QED BY <2>1, <2>3, <2>5, <3>1, CurrentType
  <2>9. UNCHANGED storeBar
    BY <2>7, <2>8 DEF storeBar
  <2>. QED BY <1>1, <2>7, <2>9 DEF Pool!Pin
<1>4. CASE BufferExceeded /\ UNCHANGED <<disk, inUse>>
  BY <1>4 DEF BufferExceeded, storeBar, Current, pinsBar
<1>. QED BY <1>2, <1>3, <1>4 DEF readPage

\* allocPage hands the page out and pins it, or strands it in its file.
LEMMA AllocPageImplements ==
    ASSUME IInv, IInv', NEW c \in Clients, NEW p \in Page, allocPage(c, p)
    PROVE  Pool!Allocate(c, p) \/ Pool!Strand(p)
<1>1. /\ p \notin inUse /\ held[c] = NoPin /\ inUse' = inUse \cup {p}
      /\ hashTable[p] = NoFrame
      /\ pinsBar[c] = NoPin /\ storeBar[p] = Missing
  BY DEF IInv, HashedIffInPool, InUseOnDisk, allocPage, CanAllocate, FreePages,
         pinsBar, storeBar
<1>2. Current(p)' \in Contents
  BY <1>1, CurrentType, SentinelAssumption DEF IInv, TypeOK, InUseOnDisk, Current
<1>3. /\ DiskAllocated(p) \in [Page -> Contents \cup {Missing}]
      /\ \A q \in Page : q # p => DiskAllocated(p)[q] = disk[q]
  BY DEF IInv, TypeOK, DiskAllocated, Contents
<1>4. CASE BufferExceeded /\ disk' = DiskAllocated(p)
  <2>1. \A q \in inUse : q \in Page /\ q # p /\ Current(q)' = Current(q)
    BY <1>1, <1>3, <1>4, ExceededEffect, ExceededCurrent DEF IInv, TypeOK
  <2>2. storeBar' = [storeBar EXCEPT ![p] = Current(p)']
    BY <1>1, <2>1 DEF storeBar
  <2>3. UNCHANGED pinsBar
    BY <1>4 DEF BufferExceeded, pinsBar
  <2>. QED BY <1>1, <1>2, <2>2, <2>3 DEF Pool!Strand
<1>5. CASE \E k \in 1 .. 2 * NumBufs :
             /\ FirstStop(k)
             /\ disk' = WriteBack(DiskAllocated(p), {Hand(k)})
             /\ Install(c, p, k, "fresh")
             /\ UNCHANGED bufPool
  <2>1. PICK k \in 1 .. 2 * NumBufs :
             /\ FirstStop(k)
             /\ disk' = WriteBack(DiskAllocated(p), {Hand(k)})
             /\ Install(c, p, k, "fresh")
             /\ UNCHANGED bufPool
    BY <1>5
  <2>2. Installed(c, p, Hand(k), "fresh")
    BY <1>1, <1>3, <2>1, InstallEffect
  <2>3. \A j \in Frames : j # Hand(k) => bufPool'[j] = bufPool[j]
    BY <2>1
  <2>4. /\ storeBar' = [storeBar EXCEPT ![p] = Current(p)']
        /\ pinsBar' = [pinsBar EXCEPT ![c] = p]
    BY <1>1, <2>2, <2>3, InstallCurrent
  <2>. QED BY <1>1, <1>2, <2>4 DEF Pool!Allocate
<1>. QED BY <1>4, <1>5 DEF allocPage

\* A store through a page pointer changes the content of the page it was given
\* for, and of no other: no two pages share a frame.
LEMMA WriteImplements ==
    ASSUME IInv, NEW c \in Clients, NEW v \in Data, Write(c, v)
    PROVE  v \in Contents /\ Pool!Write(c, v)
<1>. PICK p \in Page : p = held[c].page
  BY HeldPage DEF Write
<1>1. /\ p \in inUse /\ p \in Page /\ p # NoPin /\ held[c] \in Pin
      /\ hashTable[p] = held[c].frame /\ held[c].frame \in Frames
      /\ pinsBar[c] = p
  BY HeldPage DEF Write
<1>2. /\ bufPool' = [bufPool EXCEPT ![held[c].frame] = v]
      /\ held' = [held EXCEPT ![c].mode = "dirty"]
      /\ UNCHANGED <<hashTable, disk, inUse>>
      /\ bufPool \in [Frames -> Contents] /\ held \in [Clients -> Pin \cup {NoPin}]
  BY DEF Write, IInv, TypeOK
<1>3. Current(p)' = v
  BY <1>1, <1>2, SentinelAssumption DEF Current
<1>4. ASSUME NEW q \in inUse, q # p
      PROVE  Current(q)' = Current(q)
  <2>1. hashTable[q] # held[c].frame
    BY <1>1, <1>4, SentinelAssumption DEF IInv, TypeOK, HashedIffInPool
  <2>. QED BY <1>2, <2>1 DEF Current
<1>5. storeBar' = [storeBar EXCEPT ![p] = v]
  <2>1. storeBar' = [q \in Page |-> IF q \in inUse THEN Current(q)' ELSE Missing]
    BY <1>2 DEF storeBar
  <2>. QED BY <1>1, <1>2, <1>3, <1>4, <2>1 DEF storeBar
<1>6. UNCHANGED pinsBar
  <2>. DEFINE pin == [held[c] EXCEPT !.mode = "dirty"]
  <2>1. held' = [held EXCEPT ![c] = pin]
    BY <1>2
  <2>2. pin.page = held[c].page /\ pin # NoPin /\ held[c] # NoPin
    BY <1>1, SentinelAssumption DEF Pin
  <2>. HIDE DEF pin
  <2>. QED BY <1>2, <2>1, <2>2 DEF pinsBar
<1>. QED BY <1>1, <1>5, <1>6 DEF Pool!Write, Contents

\* unPinPage is seen only by the client that gives its pin back.
LEMMA ReleaseImplements ==
    ASSUME IInv, NEW c \in Clients, Release(c)
    PROVE  Pool!UnPin(c)
<1>1. pinsBar[c] # NoPin
  BY HeldPage DEF Release
<1>2. UNCHANGED <<bufPool, hashTable, disk, inUse>> /\ held' = [held EXCEPT ![c] = NoPin]
  BY DEF Release, unPinPage
<1>3. UNCHANGED storeBar
  BY <1>2 DEF storeBar, Current
<1>4. pinsBar' = [pinsBar EXCEPT ![c] = NoPin]
  BY <1>2 DEF pinsBar, IInv, TypeOK
<1>. QED BY <1>1, <1>3, <1>4 DEF Pool!UnPin

LEMMA DisposeImplements ==
    ASSUME IInv, NEW p \in Page, Dispose(p)
    PROVE  Pool!Dispose(p)
<1>1. /\ inUse' = inUse \ {p} /\ disk' = [disk EXCEPT ![p] = Blank]
      /\ UNCHANGED <<bufPool, held>>
      /\ hashTable' = remove(hashTable, p)
  BY DEF Dispose, disposePage
<1>2. storeBar[p] # Missing
  BY CurrentType DEF Dispose
<1>3. \A c \in Clients : pinsBar[c] # p
  BY SentinelAssumption DEF Dispose, NobodyHolds, pinsBar
<1>4. \A q \in inUse : q # p => q \in Page /\ Current(q)' = Current(q)
  BY <1>1 DEF Current, remove, IInv, TypeOK
<1>5. storeBar' = [storeBar EXCEPT ![p] = Missing]
  <2>1. storeBar' = [q \in Page |-> IF q \in inUse \ {p} THEN Current(q)' ELSE Missing]
    BY <1>1 DEF storeBar
  <2>. QED BY <1>4, <2>1 DEF storeBar
<1>6. UNCHANGED pinsBar
  BY <1>1 DEF pinsBar
<1>. QED BY <1>2, <1>3, <1>5, <1>6 DEF Pool!Dispose

\* Nobody sees a flush.
LEMMA FlushImplements ==
    ASSUME IInv, NEW f \in Files, flushFile(f)
    PROVE  UNCHANGED <<storeBar, pinsBar>>
<1>1. PICK S : Flushed(f, S)
  BY FlushEffect
<1>2. ASSUME NEW p \in inUse
      PROVE  Current(p)' = Current(p)
  <2>1. p \in Page /\ hashTable[p] \in Frames \cup {NoFrame}
    BY DEF IInv, TypeOK
  <2>2. CASE hashTable[p] \in S
    <3>1. WriteBack(disk, S)[p] = Current(p)
      BY <1>1, <2>1, <2>2, WrittenIsCurrent DEF Flushed
    <3>. QED BY <1>1, <2>1, <2>2, <3>1 DEF Flushed, Current
  <2>3. CASE hashTable[p] \notin S
    <3>1. disk'[p] = disk[p]
      BY <1>1, <2>1, <2>3, WriteBackPage DEF Flushed, IInv
    <3>. QED BY <1>1, <2>1, <2>3, <3>1 DEF Flushed, Current
  <2>. QED BY <2>2, <2>3
<1>. QED BY <1>1, <1>2 DEF Flushed, storeBar, pinsBar

\* A clean end of the program and the next start are not seen either.
LEMMA RestartImplements ==
    ASSUME IInv, Restart
    PROVE  UNCHANGED <<storeBar, pinsBar>>
<1>. DEFINE S == {i \in Frames : bufTable[i].valid}
<1>1. \A i \in S : bufTable[i].pinCnt = 0
  <2>1. \A i \in S : Holders(i) = {}
    BY DEF Restart, Holders
  <2>. QED BY <2>1, FS_EmptySet DEF IInv, PinsAreHolders
<1>2. ASSUME NEW p \in inUse
      PROVE  Current(p)' = Current(p)
  <2>1. p \in Page /\ (hashTable[p] \in S \/ hashTable[p] = NoFrame)
    BY DEF IInv, TypeOK, HashedIffInPool
  <2>2. WriteBack(disk, S)[p] = Current(p)
    BY <1>1, <2>1, WrittenIsCurrent
  <2>. QED BY <2>1, <2>2 DEF Restart, Current
<1>. QED BY <1>2 DEF Restart, storeBar, pinsBar

\* Every step of the buffer manager is a step of the pool of pages, or is not
\* seen through it.
LEMMA NextImplements ==
    ASSUME IInv, IInv', [Next]_vars
    PROVE  [Pool!Next]_<<storeBar, pinsBar>>
<1>1. ASSUME NEW c \in Clients, NEW p \in inUse, readPage(c, p)
      PROVE  [Pool!Next]_<<storeBar, pinsBar>>
  BY <1>1, ReadPageImplements, CurrentType DEF Pool!Next
<1>2. ASSUME NEW c \in Clients, NEW p \in Page, allocPage(c, p)
      PROVE  [Pool!Next]_<<storeBar, pinsBar>>
  BY <1>2, AllocPageImplements DEF Pool!Next
<1>3. ASSUME NEW c \in Clients, NEW v \in Data, Write(c, v)
      PROVE  [Pool!Next]_<<storeBar, pinsBar>>
  BY <1>3, WriteImplements DEF Pool!Next
<1>4. ASSUME NEW c \in Clients, Release(c)
      PROVE  [Pool!Next]_<<storeBar, pinsBar>>
  BY <1>4, ReleaseImplements DEF Pool!Next
<1>5. ASSUME NEW p \in Page, NEW d \in BOOLEAN, LateUnPin(p, d)
      PROVE  UNCHANGED <<storeBar, pinsBar>>
  BY <1>5 DEF LateUnPin, unPinPage, storeBar, pinsBar, Current
<1>6. ASSUME NEW p \in Page, Dispose(p)
      PROVE  [Pool!Next]_<<storeBar, pinsBar>>
  BY <1>6, DisposeImplements DEF Pool!Next
<1>7. ASSUME NEW f \in Files, flushFile(f)
      PROVE  UNCHANGED <<storeBar, pinsBar>>
  BY <1>7, FlushImplements
<1>8. CASE Restart
  BY <1>8, RestartImplements
<1>9. CASE UNCHANGED vars
  BY <1>9 DEF vars, storeBar, pinsBar, Current
<1>. QED BY <1>1, <1>2, <1>3, <1>4, <1>5, <1>6, <1>7, <1>8, <1>9 DEF Next

\* Clients of the buffer manager see a pool of pages with one current content
\* each: caching, the clock, write-back, flushing, disposal and a clean restart
\* are invisible, for any number of frames.
THEOREM ImplementsPagePoolAlways == Spec => ImplementsPagePool
<1>1. Init => Pool!Init
  BY DEF Init, Pool!Init, storeBar, pinsBar
<1>2. IInv /\ IInv' /\ [Next]_vars => [Pool!Next]_<<storeBar, pinsBar>>
  BY NextImplements
<1>. QED BY <1>1, <1>2, Invariance, PTL DEF Spec, ImplementsPagePool, Pool!Spec, Pool!vars
=============================================================================
