------------------------- MODULE Part3BufMgrProofs --------------------------
(***************************************************************************)
(* Proofs about the buffer manager of part3: the invariant of stage6 is    *)
(* one of part3 too, and so is the promise to the clients.  What differs   *)
(* is the clock, the cleared victim of a read that fails, and unPinPage.   *)
(***************************************************************************)
EXTENDS Part3BufMgr, BufMgrProofs

\* The clock hand names a frame.
LEMMA ClockInFrames ==
    ASSUME TypeOK, NEW k \in Nat
    PROVE  Clock!Hand(k) \in Frames
<1>. DEFINE h == (clockHand + NumBufs - 1) % NumBufs
<1>1. clockHand + NumBufs - 1 \in Int /\ NumBufs \in Int /\ NumBufs > 0
  BY NumBufsAssumption DEF TypeOK, Frames
<1>2. h \in Int
  BY <1>1
<1>. HIDE DEF h
<1>3. (h + k) % NumBufs \in 0 .. NumBufs - 1
  BY <1>1, <1>2
<1>. QED BY <1>3 DEF Clock!Hand, Frames, h

\* The frame the clock stops at is a frame nobody holds.
LEMMA ClockVictimFree ==
    ASSUME IInv, NEW k, Clock!FirstStop(k)
    PROVE  /\ Clock!Hand(k) \in Frames
           /\ bufTable[Clock!Hand(k)].pinCnt = 0
           /\ \A c \in Clients : held[c] # NoPin => held[c].frame # Clock!Hand(k)
<1>. PICK i : i = Clock!Hand(k)
  OBVIOUS
<1>1. i \in Frames
  BY ClockInFrames DEF Clock!FirstStop, IInv
<1>2. bufTable[i].pinCnt = 0
  BY <1>1 DEF Clock!FirstStop, Clock!Stops, InvalidIsClear, IInv
<1>3. IsFiniteSet(Holders(i))
  BY ClientsAssumption, FS_Subset DEF Holders
<1>4. Holders(i) = {}
  BY <1>1, <1>2, <1>3, FS_EmptySet DEF PinsAreHolders, IInv
<1>. QED BY <1>1, <1>2, <1>4 DEF Holders

\* Sweeping changes nothing but reference bits.
LEMMA ClockSweptFrames ==
    ASSUME TypeOK, NEW k
    PROVE  /\ Clock!Swept(k) \in [Frames -> BufDesc]
           /\ \A i \in Frames : /\ Clock!Swept(k)[i].page = bufTable[i].page
                                /\ Clock!Swept(k)[i].pinCnt = bufTable[i].pinCnt
                                /\ Clock!Swept(k)[i].dirty = bufTable[i].dirty
                                /\ Clock!Swept(k)[i].valid = bufTable[i].valid
<1>1. \A i \in Frames : bufTable[i] \in BufDesc
  BY DEF TypeOK
<1>2. ASSUME NEW i \in Frames
      PROVE  /\ [bufTable[i] EXCEPT !.refbit = FALSE] \in BufDesc
             /\ [bufTable[i] EXCEPT !.refbit = FALSE].page = bufTable[i].page
             /\ [bufTable[i] EXCEPT !.refbit = FALSE].pinCnt = bufTable[i].pinCnt
             /\ [bufTable[i] EXCEPT !.refbit = FALSE].dirty = bufTable[i].dirty
             /\ [bufTable[i] EXCEPT !.refbit = FALSE].valid = bufTable[i].valid
  BY <1>1 DEF BufDesc
<1>. QED BY <1>1, <1>2 DEF Clock!Swept, Clock!Frames, Frames

LEMMA FullEffect ==
    ASSUME TypeOK, Full
    PROVE  Exceeded
BY ClockSweptFrames DEF Full, Exceeded

\* allocBuf takes frame i: its page leaves the pool, and only reference bits of
\* the others change.
Taken(i, table, hash, d) ==
    /\ table \in [Frames -> BufDesc]
    /\ \A j \in Frames : j # i => /\ table[j].page = bufTable[j].page
                                  /\ table[j].pinCnt = bufTable[j].pinCnt
                                  /\ table[j].dirty = bufTable[j].dirty
                                  /\ table[j].valid = bufTable[j].valid
    /\ table[i].page = NoPage /\ table[i].pinCnt = 0
    /\ table[i].dirty = FALSE /\ table[i].valid = FALSE
    /\ hash = [q \in Page |-> IF hashTable[q] = i THEN NoFrame ELSE hashTable[q]]
    /\ d \in [Page -> Contents \cup {Missing}]
    /\ \A q \in Page : d[q] = IF hashTable[q] = i /\ bufTable[i].dirty
                              THEN bufPool[i] ELSE disk[q]

LEMMA TakenEffect ==
    ASSUME IInv, NEW k, Clock!FirstStop(k)
    PROVE  Taken(Clock!Hand(k), Cleared(k), Unhashed(Clock!Hand(k)), Written(Clock!Hand(k)))
<1>. PICK i : i = Clock!Hand(k)
  OBVIOUS
<1>. PICK t : t = Clock!Swept(k)
  OBVIOUS
<1>. USE DEF IInv
<1>1. i \in Frames /\ bufTable[i].pinCnt = 0 /\ bufTable[i] \in BufDesc
  BY ClockVictimFree DEF TypeOK
<1>2. /\ t \in [Frames -> BufDesc]
      /\ \A j \in Frames : /\ t[j].page = bufTable[j].page
                           /\ t[j].pinCnt = bufTable[j].pinCnt
                           /\ t[j].dirty = bufTable[j].dirty
                           /\ t[j].valid = bufTable[j].valid
  BY ClockSweptFrames
<1>. DEFINE u == IF t[i].valid THEN Clear(t[i]) ELSE t[i]
<1>3. Cleared(k) = [t EXCEPT ![i] = u]
  BY DEF Cleared
<1>4. /\ u \in BufDesc
      /\ u.page = NoPage /\ u.pinCnt = 0 /\ u.dirty = FALSE /\ u.valid = FALSE
  <2>1. t[i] \in BufDesc
    BY <1>1, <1>2
  <2>2. CASE t[i].valid
    BY <2>1, <2>2, ClearFrame
  <2>3. CASE ~t[i].valid
    <3>1. ~bufTable[i].valid
      BY <1>1, <1>2, <2>3
    <3>2. t[i].page = NoPage /\ t[i].pinCnt = 0 /\ ~t[i].dirty
      BY <1>1, <1>2, <3>1 DEF InvalidIsClear
    <3>3. t[i].dirty \in BOOLEAN /\ t[i].valid \in BOOLEAN
      BY <2>1 DEF BufDesc
    <3>. QED BY <2>1, <2>3, <3>2, <3>3
  <2>. QED BY <2>2, <2>3
<1>. HIDE DEF u
<1>5. /\ Cleared(k) \in [Frames -> BufDesc]
      /\ Cleared(k)[i] = u
      /\ \A j \in Frames : j # i => Cleared(k)[j] = t[j]
  BY <1>1, <1>2, <1>3, <1>4
<1>6. Unhashed(i) = [q \in Page |-> IF hashTable[q] = i THEN NoFrame ELSE hashTable[q]]
  <2>1. \A q \in Page : hashTable[q] = i <=> bufTable[i].valid /\ bufTable[i].page = q
    BY <1>1, SentinelAssumption DEF HashedIffInPool
  <2>2. CASE bufTable[i].valid
    BY <1>1, <2>1, <2>2 DEF Unhashed, remove
  <2>3. CASE ~bufTable[i].valid
    BY <1>1, <2>1, <2>3 DEF Unhashed, TypeOK
  <2>. QED BY <2>2, <2>3
<1>7. /\ Written(i) \in [Page -> Contents \cup {Missing}]
      /\ \A q \in Page : Written(i)[q] = IF hashTable[q] = i /\ bufTable[i].dirty
                                         THEN bufPool[i] ELSE disk[q]
  <2>1. disk \in [Page -> Contents \cup {Missing}] /\ {i} \in SUBSET Frames
    BY <1>1 DEF TypeOK
  <2>2. CASE bufTable[i].valid
    <3>1. Written(i) = WriteBack(disk, {i})
      BY <2>2 DEF Written
    <3>. QED BY <2>1, <3>1, WriteBackPage, WriteBackType
  <2>3. CASE ~bufTable[i].valid
    <3>1. Written(i) = disk /\ ~bufTable[i].dirty
      BY <1>1, <2>3 DEF Written, InvalidIsClear
    <3>. QED BY <2>1, <3>1
  <2>. QED BY <2>2, <2>3
<1>. QED BY <1>2, <1>4, <1>5, <1>6, <1>7, <1>1 DEF Taken


-----------------------------------------------------------------------------
(* The steps.                                                              *)

\* Frame i, taken in step k, becomes the frame of page p. Reading and
\* allocating differ in what the page and the frame then hold.
LEMMA OccupyEffect ==
    ASSUME IInv, NEW c \in Clients, NEW p \in Page, NEW k, NEW mode \in {"clean", "fresh"},
           held[c] = NoPin,
           hashTable[p] = NoFrame,
           Clock!FirstStop(k),
           Occupy(c, p, k, mode),
           \A q \in Page : q # p => disk'[q] = Written(Clock!Hand(k))[q]
    PROVE  Installed(c, p, Clock!Hand(k), mode)
<1>. PICK i : i = Clock!Hand(k)
  OBVIOUS
<1>. PICK t : t = Cleared(k)
  OBVIOUS
<1>. PICK h : h = Unhashed(i)
  OBVIOUS
<1>. PICK d : d = Written(i)
  OBVIOUS
<1>1. /\ i \in Frames
      /\ bufTable[i].pinCnt = 0
      /\ \A b \in Clients : held[b] # NoPin => held[b].frame # i
  BY ClockVictimFree
<1>2. Taken(i, t, h, d)
  BY TakenEffect
<1>3. /\ clockHand' = i
      /\ bufTable' = [t EXCEPT ![i] = Set(p)]
      /\ hashTable' = insert(h, p, i)
      /\ status' = insertStatus(h, p)
      /\ status' = "OK" => held' = [held EXCEPT ![c] = [page |-> p, frame |-> i, mode |-> mode]]
  BY DEF Occupy
<1>4. /\ hashTable' = [h EXCEPT ![p] = i] /\ status' = "OK"
      /\ \A q \in Page : h[q] = IF hashTable[q] = i THEN NoFrame ELSE hashTable[q]
      /\ h \in [Page -> Frames \cup {NoFrame}]
  BY <1>2, <1>3 DEF Taken, insert, insertStatus, IInv, TypeOK
<1>5. /\ bufTable' \in [Frames -> BufDesc]
      /\ bufTable'[i] = Set(p)
      /\ \A j \in Frames : j # i => bufTable'[j] = t[j]
  <2>1. Set(p) \in BufDesc
    BY DEF Set, BufDesc
  <2>2. t \in [Frames -> BufDesc]
    BY <1>2 DEF Taken
  <2>. QED BY <1>1, <1>3, <2>1, <2>2
<1>6. /\ hashTable' \in [Page -> Frames \cup {NoFrame}]
      /\ hashTable'[p] = i
      /\ \A q \in Page : q # p =>
            /\ hashTable'[q] = IF hashTable[q] = i THEN NoFrame ELSE hashTable[q]
            /\ disk'[q] = IF hashTable[q] = i /\ bufTable[i].dirty
                          THEN bufPool[i] ELSE disk[q]
  BY <1>1, <1>2, <1>4 DEF Taken
<1>. QED BY <1>1, <1>2, <1>3, <1>4, <1>5, <1>6 DEF Taken, Installed

\* A read of a page its file does not have leaves the frame cleared: the page
\* it had is on disk, and nobody had it pinned.
Evicted(i) ==
    /\ i \in Frames
    /\ bufTable[i].pinCnt = 0
    /\ \A b \in Clients : held[b] # NoPin => held[b].frame # i
    /\ Taken(i, bufTable', hashTable', disk')
    /\ clockHand' = i
    /\ status' = "UNIXERR"
    /\ UNCHANGED <<bufPool, inUse, held>>

LEMMA EvictedStep ==
    ASSUME IInv, NEW i, Evicted(i)
    PROVE  IInv'
<1>. USE DEF IInv
<1>1. /\ i \in Frames
      /\ bufTable[i].pinCnt = 0
      /\ \A b \in Clients : held[b] # NoPin => held[b].frame # i
      /\ clockHand' = i
      /\ status' = "UNIXERR"
      /\ UNCHANGED <<bufPool, inUse, held>>
  BY DEF Evicted
<1>2. /\ bufTable' \in [Frames -> BufDesc]
      /\ \A j \in Frames : j # i => /\ bufTable'[j].page = bufTable[j].page
                                    /\ bufTable'[j].pinCnt = bufTable[j].pinCnt
                                    /\ bufTable'[j].dirty = bufTable[j].dirty
                                    /\ bufTable'[j].valid = bufTable[j].valid
      /\ bufTable'[i].page = NoPage /\ bufTable'[i].pinCnt = 0
      /\ bufTable'[i].dirty = FALSE /\ bufTable'[i].valid = FALSE
  BY DEF Evicted, Taken
<1>3. /\ hashTable' \in [Page -> Frames \cup {NoFrame}]
      /\ \A q \in Page : hashTable'[q] = IF hashTable[q] = i THEN NoFrame ELSE hashTable[q]
      /\ disk' \in [Page -> Contents \cup {Missing}]
      /\ \A q \in Page : disk'[q] = IF hashTable[q] = i /\ bufTable[i].dirty
                                    THEN bufPool[i] ELSE disk[q]
  BY DEF Evicted, Taken, TypeOK
<1>4. TypeOK'
  BY <1>1, <1>2, <1>3 DEF TypeOK, Status
<1>5. HashedIffInPool'
  <2>1. ASSUME NEW q \in Page, hashTable'[q] # NoFrame
        PROVE  /\ bufTable'[hashTable'[q]].valid
               /\ bufTable'[hashTable'[q]].page = q
               /\ q \in inUse'
    <3>1. hashTable'[q] = hashTable[q] /\ hashTable[q] # i /\ hashTable[q] \in Frames
      BY <1>3, <2>1 DEF TypeOK
    <3>. QED BY <1>1, <1>2, <2>1, <3>1 DEF HashedIffInPool
  <2>2. ASSUME NEW j \in Frames, bufTable'[j].valid
        PROVE  bufTable'[j].page \in Page /\ hashTable'[bufTable'[j].page] = j
    <3>1. j # i
      BY <1>2, <2>2
    <3>. QED BY <1>2, <1>3, <2>2, <3>1 DEF HashedIffInPool
  <2>. QED BY <2>1, <2>2 DEF HashedIffInPool
<1>6. InvalidIsClear'
  BY <1>2 DEF InvalidIsClear
<1>7. InUseOnDisk'
  <2>1. bufPool[i] # Missing
    BY <1>1, SentinelAssumption DEF TypeOK
  <2>. QED BY <1>1, <1>3, <2>1 DEF InUseOnDisk, TypeOK
<1>8. \A j \in Frames : Holders(j)' = Holders(j)
  BY <1>1 DEF Holders
<1>9. PinsAreHolders'
  <2>1. \A j \in Frames : bufTable'[j].pinCnt = Cardinality(Holders(j)')
    BY <1>1, <1>2, <1>8 DEF PinsAreHolders
  <2>2. ASSUME NEW b \in Clients, held[b] # NoPin
        PROVE  hashTable'[held[b].page] = held[b].frame
    <3>1. held[b].page \in Page /\ hashTable[held[b].page] = held[b].frame
      BY <2>2 DEF PinsAreHolders, TypeOK, Pin
    <3>. QED BY <1>1, <1>3, <2>2, <3>1
  <2>. QED BY <1>1, <2>1, <2>2 DEF PinsAreHolders
<1>10. CleanIsOnDisk'
  <2>. SUFFICES ASSUME NEW j \in Frames, bufTable'[j].valid, ~bufTable'[j].dirty,
                       \A b \in Holders(j)' : held'[b].mode = "clean"
                PROVE  bufPool'[j] = disk'[bufTable'[j].page]
    BY DEF CleanIsOnDisk
  <2>1. j # i /\ bufTable[j].valid /\ ~bufTable[j].dirty /\ bufTable'[j].page = bufTable[j].page
    BY <1>2
  <2>2. bufTable[j].page \in Page /\ hashTable[bufTable[j].page] = j
    BY <2>1 DEF HashedIffInPool
  <2>3. bufPool[j] = disk[bufTable[j].page]
    BY <1>1, <1>8, <2>1 DEF CleanIsOnDisk
  <2>. QED BY <1>1, <1>3, <2>1, <2>2, <2>3
<1>. QED BY <1>4, <1>5, <1>6, <1>7, <1>9, <1>10

\* A page that leaves the pool has its content on disk.
LEMMA TakenCurrent ==
    ASSUME IInv, NEW i \in Frames, bufTable[i].pinCnt = 0,
           NEW t, NEW h, NEW d, Taken(i, t, h, d),
           NEW p \in Page, hashTable[p] = i \/ hashTable[p] = NoFrame
    PROVE  d[p] = Current(p)
<1>1. WriteBack(disk, {i})[p] = Current(p)
  BY WrittenIsCurrent
<1>2. WriteBack(disk, {i})[p] = IF hashTable[p] \in {i} /\ bufTable[hashTable[p]].dirty
                                THEN bufPool[hashTable[p]] ELSE disk[p]
  BY WriteBackPage DEF IInv
<1>3. d[p] = IF hashTable[p] = i /\ bufTable[i].dirty THEN bufPool[i] ELSE disk[p]
  BY DEF Taken
<1>. QED BY <1>1, <1>2, <1>3

LEMMA EvictedImplements ==
    ASSUME IInv, NEW i, Evicted(i)
    PROVE  UNCHANGED <<storeBar, pinsBar>>
<1>1. ASSUME NEW p \in inUse
      PROVE  Current(p)' = Current(p)
  <2>1. p \in Page
    BY DEF IInv, TypeOK
  <2>2. /\ hashTable'[p] = IF hashTable[p] = i THEN NoFrame ELSE hashTable[p]
        /\ disk'[p] = IF hashTable[p] = i /\ bufTable[i].dirty THEN bufPool[i] ELSE disk[p]
        /\ UNCHANGED bufPool /\ i \in Frames /\ bufTable[i].pinCnt = 0
    BY <2>1 DEF Evicted, Taken
  <2>3. CASE hashTable[p] = i
    <3>1. disk'[p] = Current(p)
      BY <2>1, <2>2, <2>3, TakenCurrent DEF Evicted
    <3>. QED BY <2>2, <2>3, <3>1 DEF Current
  <2>4. CASE hashTable[p] # i
    BY <2>2, <2>4 DEF Current
  <2>. QED BY <2>3, <2>4
<1>. QED BY <1>1 DEF Evicted, storeBar, pinsBar


\* A page read into the pool.
ReadIn(c, p, k) ==
    /\ Clock!FirstStop(k)
    /\ disk' = Written(Clock!Hand(k))
    /\ disk'[p] # Missing
    /\ Occupy(c, p, k, "clean")
    /\ bufPool' = [bufPool EXCEPT ![Clock!Hand(k)] = disk'[p]]

\* Where a page that is not in the pool comes from.
LEMMA ReadAbsentWays ==
    ASSUME IInv, NEW c \in Clients, NEW p \in Page, readAbsent(c, p)
    PROVE  /\ hashTable[p] = NoFrame
           /\ UNCHANGED inUse
           /\ \/ Exceeded /\ UNCHANGED disk
              \/ \E k \in 1 .. 2 * NumBufs : ReadIn(c, p, k)
              \/ \E i : Evicted(i)
<1>1. hashTable[p] = NoFrame /\ UNCHANGED inUse
  BY DEF readAbsent
<1>2. CASE Full /\ UNCHANGED disk
  BY <1>1, <1>2, FullEffect DEF IInv
<1>3. ASSUME NEW k \in 1 .. 2 * NumBufs,
             Clock!FirstStop(k),
             disk' = Written(Clock!Hand(k)),
             disk'[p] = Missing,
             clockHand' = Clock!Hand(k),
             bufTable' = Cleared(k),
             hashTable' = Unhashed(Clock!Hand(k)),
             status' = "UNIXERR",
             UNCHANGED <<bufPool, held>>
      PROVE  Evicted(Clock!Hand(k))
  BY <1>1, <1>3, ClockVictimFree, TakenEffect DEF Evicted
<1>4. CASE ~(Full /\ UNCHANGED disk)
  <2>1. PICK k \in 1 .. 2 * NumBufs :
            /\ Clock!FirstStop(k)
            /\ disk' = Written(Clock!Hand(k))
            /\ IF disk'[p] # Missing
               THEN /\ Occupy(c, p, k, "clean")
                    /\ bufPool' = [bufPool EXCEPT ![Clock!Hand(k)] = disk'[p]]
               ELSE /\ clockHand' = Clock!Hand(k)
                    /\ bufTable' = Cleared(k)
                    /\ hashTable' = Unhashed(Clock!Hand(k))
                    /\ status' = "UNIXERR"
                    /\ UNCHANGED <<bufPool, held>>
    BY <1>4 DEF readAbsent
  <2>2. CASE disk'[p] # Missing
    BY <1>1, <2>1, <2>2 DEF ReadIn
  <2>3. CASE disk'[p] = Missing
    BY <1>1, <1>3, <2>1, <2>3
  <2>. QED BY <2>2, <2>3
<1>. QED BY <1>2, <1>4

\* The page read is the current one, and it is the only one in its frame.
LEMMA ReadInEffect ==
    ASSUME IInv, NEW c \in Clients, NEW p \in inUse, held[c] = NoPin,
           hashTable[p] = NoFrame, NEW k \in 1 .. 2 * NumBufs, ReadIn(c, p, k)
    PROVE  \E i \in Frames :
             /\ Installed(c, p, i, "clean")
             /\ disk' \in [Page -> Contents \cup {Missing}]
             /\ bufPool' \in [Frames -> Contents]
             /\ \A j \in Frames : j # i => bufPool'[j] = bufPool[j]
             /\ bufPool'[i] = disk'[p]
             /\ disk'[p] = Current(p)
<1>. PICK i : i = Clock!Hand(k)
  OBVIOUS
<1>0. p \in Page
  BY DEF IInv, TypeOK
<1>1. /\ disk' = Written(i) /\ disk'[p] # Missing
      /\ bufPool' = [bufPool EXCEPT ![i] = disk'[p]]
      /\ Clock!FirstStop(k) /\ Occupy(c, p, k, "clean")
  BY DEF ReadIn
<1>2. i \in Frames /\ bufTable[i].pinCnt = 0
  BY <1>1, ClockVictimFree
<1>3. Installed(c, p, i, "clean")
  BY <1>0, <1>1, OccupyEffect
<1>4. PICK t, h : Taken(i, t, h, disk')
  BY <1>1, TakenEffect
<1>5. disk' \in [Page -> Contents \cup {Missing}] /\ disk'[p] = Current(p)
  <2>1. disk' \in [Page -> Contents \cup {Missing}]
    BY <1>4 DEF Taken
  <2>. QED BY <1>0, <1>2, <1>4, <2>1, TakenCurrent
<1>6. disk'[p] \in Contents
  BY <1>0, <1>1, <1>5
<1>7. /\ bufPool' \in [Frames -> Contents]
      /\ \A j \in Frames : j # i => bufPool'[j] = bufPool[j]
      /\ bufPool'[i] = disk'[p]
  <2>1. bufPool \in [Frames -> Contents]
    BY DEF IInv, TypeOK
  <2>. QED BY <1>1, <1>2, <1>6, <2>1
<1>. QED BY <1>2, <1>3, <1>5, <1>7

\* The pages a client reads: those handed out, and those its file does not
\* have.
LEMMA ReadPage3Step ==
    ASSUME IInv, NEW c \in Clients, NEW p \in inUse \cup {q \in Page : disk[q] = Missing},
           readPage3(c, p)
    PROVE  IInv'
<1>1. p \in Page /\ held[c] = NoPin
  BY DEF readPage3, IInv, TypeOK
<1>2. CASE readHit(c, p)
  <2>1. p \in inUse
    BY <1>1, <1>2 DEF readHit, IInv, HashedIffInPool
  <2>2. readPage(c, p)
    BY <1>1, <1>2 DEF readPage
  <2>. QED BY <2>1, <2>2, ReadPageStep
<1>3. CASE readAbsent(c, p)
  <2>1. CASE Exceeded /\ UNCHANGED disk
    BY <1>1, <1>3, <2>1, ReadAbsentWays, ExceededStep
  <2>2. CASE \E i : Evicted(i)
    BY <2>2, EvictedStep
  <2>3. CASE \E k \in 1 .. 2 * NumBufs : ReadIn(c, p, k)
    <3>1. PICK k \in 1 .. 2 * NumBufs : ReadIn(c, p, k)
      BY <2>3
    <3>2. hashTable[p] = NoFrame /\ UNCHANGED inUse
      BY <1>1, <1>3, ReadAbsentWays
    <3>3. p \in inUse
      <4>1. disk'[p] # Missing /\ disk' = Written(Clock!Hand(k)) /\ Clock!FirstStop(k)
        BY <3>1 DEF ReadIn
      <4>2. Clock!Hand(k) \in Frames
        BY <4>1, ClockVictimFree
      <4>3. PICK i \in Frames : i = Clock!Hand(k)
        BY <4>2
      <4>4. PICK t, h : Taken(i, t, h, disk')
        BY <4>1, <4>3, TakenEffect
      <4>5. disk'[p] = disk[p]
        BY <1>1, <3>2, <4>3, <4>4, SentinelAssumption DEF Taken
      <4>. QED BY <4>1, <4>5
    <3>4. PICK i \in Frames :
             /\ Installed(c, p, i, "clean")
             /\ disk' \in [Page -> Contents \cup {Missing}]
             /\ bufPool' \in [Frames -> Contents]
             /\ \A j \in Frames : j # i => bufPool'[j] = bufPool[j]
             /\ bufPool'[i] = disk'[p]
      BY <1>1, <3>1, <3>2, <3>3, ReadInEffect
    <3>5. inUse' = inUse \cup {p}
      BY <3>2, <3>3
    <3>6. disk'[p] # Missing
      BY <3>1 DEF ReadIn
    <3>. QED BY <1>1, <3>2, <3>4, <3>5, <3>6, InstallStep
  <2>. QED BY <1>1, <1>3, <2>1, <2>2, <2>3, ReadAbsentWays
<1>. QED BY <1>2, <1>3 DEF readPage3

LEMMA ReadPage3Implements ==
    ASSUME IInv, IInv', NEW c \in Clients,
           NEW p \in inUse \cup {q \in Page : disk[q] = Missing}, readPage3(c, p)
    PROVE  (p \in Page /\ Pool!Pin(c, p)) \/ UNCHANGED <<storeBar, pinsBar>>
<1>1. p \in Page /\ held[c] = NoPin /\ pinsBar[c] = NoPin
  BY DEF readPage3, IInv, TypeOK, pinsBar
<1>2. CASE readHit(c, p)
  <2>1. p \in inUse
    BY <1>1, <1>2 DEF readHit, IInv, HashedIffInPool
  <2>2. readPage(c, p)
    BY <1>1, <1>2 DEF readPage
  <2>. QED BY <1>1, <2>1, <2>2, ReadPageImplements
<1>3. CASE readAbsent(c, p)
  <2>0. hashTable[p] = NoFrame /\ UNCHANGED inUse
    BY <1>1, <1>3, ReadAbsentWays
  <2>1. CASE Exceeded /\ UNCHANGED disk
    BY <2>0, <2>1 DEF Exceeded, storeBar, Current, pinsBar
  <2>2. CASE \E i : Evicted(i)
    BY <2>2, EvictedImplements
  <2>3. CASE \E k \in 1 .. 2 * NumBufs : ReadIn(c, p, k)
    <3>1. PICK k \in 1 .. 2 * NumBufs : ReadIn(c, p, k)
      BY <2>3
    <3>2. held'[c] # NoPin /\ hashTable'[p] # NoFrame
      <4>1. Clock!FirstStop(k) /\ Occupy(c, p, k, "clean") /\ disk' = Written(Clock!Hand(k))
        BY <3>1 DEF ReadIn
      <4>2. Installed(c, p, Clock!Hand(k), "clean")
        BY <1>1, <2>0, <4>1, OccupyEffect
      <4>3. PICK i : i = Clock!Hand(k)
        OBVIOUS
      <4>. DEFINE pin == [page |-> p, frame |-> i, mode |-> "clean"]
      <4>4. i \in Frames /\ hashTable'[p] = i /\ held' = [held EXCEPT ![c] = pin]
        BY <4>2, <4>3 DEF Installed
      <4>5. pin # NoPin
        BY <1>1, <4>4, SentinelAssumption DEF Pin
      <4>. HIDE DEF pin
      <4>. QED BY <4>4, <4>5, SentinelAssumption DEF IInv, TypeOK
    <3>3. p \in inUse
      BY <1>1, <2>0, <3>2 DEF IInv, HashedIffInPool
    <3>4. PICK i \in Frames :
             /\ Installed(c, p, i, "clean")
             /\ \A j \in Frames : j # i => bufPool'[j] = bufPool[j]
             /\ bufPool'[i] = disk'[p]
             /\ disk'[p] = Current(p)
      BY <1>1, <2>0, <3>1, <3>3, ReadInEffect
    <3>5. inUse' = inUse \cup {p}
      BY <2>0, <3>3
    <3>6. /\ storeBar' = [storeBar EXCEPT ![p] = bufPool'[i]]
          /\ pinsBar' = [pinsBar EXCEPT ![c] = p]
      BY <1>1, <3>4, <3>5, InstallCurrent
    <3>7. storeBar[p] = Current(p) /\ storeBar[p] # Missing
      BY <3>3, CurrentType
    <3>8. UNCHANGED storeBar
      BY <3>4, <3>6, <3>7 DEF storeBar
    <3>. QED BY <1>1, <3>6, <3>7, <3>8 DEF Pool!Pin
  <2>. QED BY <1>1, <1>3, <2>1, <2>2, <2>3, ReadAbsentWays
<1>. QED BY <1>2, <1>3 DEF readPage3


\* A page allocated into frame i.
LEMMA AllocInEffect ==
    ASSUME IInv, NEW c \in Clients, NEW p \in Page, held[c] = NoPin,
           hashTable[p] = NoFrame,
           NEW k \in 1 .. 2 * NumBufs,
           Clock!FirstStop(k),
           disk' = [Written(Clock!Hand(k)) EXCEPT ![p] = IF disk[p] = Missing THEN Blank ELSE @],
           Occupy(c, p, k, "fresh")
    PROVE  /\ Installed(c, p, Clock!Hand(k), "fresh")
           /\ disk' \in [Page -> Contents \cup {Missing}]
           /\ disk'[p] # Missing
<1>. PICK i : i = Clock!Hand(k)
  OBVIOUS
<1>. PICK d : d = Written(i)
  OBVIOUS
<1>1. PICK t, h : Taken(i, t, h, d)
  BY TakenEffect
<1>2. d \in [Page -> Contents \cup {Missing}] /\ (disk[p] # Missing => d[p] # Missing)
  <2>1. i \in Frames
    BY ClockVictimFree
  <2>2. bufPool[i] # Missing
    BY <2>1, SentinelAssumption DEF IInv, TypeOK
  <2>. QED BY <1>1, <2>2 DEF Taken
<1>3. disk' = [d EXCEPT ![p] = IF disk[p] = Missing THEN Blank ELSE d[p]]
  OBVIOUS
<1>4. /\ disk' \in [Page -> Contents \cup {Missing}]
      /\ disk'[p] # Missing
      /\ \A q \in Page : q # p => disk'[q] = d[q]
  BY <1>2, <1>3, SentinelAssumption DEF Contents
<1>5. Installed(c, p, i, "fresh")
  BY <1>4, OccupyEffect
<1>. QED BY <1>4, <1>5

\* The file hands out a page it has not handed out yet.
LEMMA AllocIsNew ==
    ASSUME IInv, NEW p \in Page, CanAllocate(p)
    PROVE  /\ p \notin inUse /\ hashTable[p] = NoFrame
           /\ storeBar[p] = Missing
           /\ DiskAllocated(p)[p] # Missing
           /\ \A q \in inUse : q # p
BY SentinelAssumption DEF IInv, HashedIffInPool, InUseOnDisk, CanAllocate, FreePages,
   storeBar, DiskAllocated, TypeOK, Contents

LEMMA AllocPage3Step ==
    ASSUME IInv, NEW c \in Clients, NEW p \in Page, allocPage3(c, p)
    PROVE  IInv'
<1>1. held[c] = NoPin /\ inUse' = inUse \cup {p} /\ p \notin inUse /\ hashTable[p] = NoFrame
  BY AllocIsNew DEF allocPage3
<1>2. CASE Full /\ disk' = DiskAllocated(p)
  BY <1>1, <1>2, FullEffect, ExceededStep DEF IInv
<1>3. CASE ~(Full /\ disk' = DiskAllocated(p))
  <2>1. PICK k \in 1 .. 2 * NumBufs :
            /\ Clock!FirstStop(k)
            /\ disk' = [Written(Clock!Hand(k)) EXCEPT ![p] =
                            IF disk[p] = Missing THEN Blank ELSE @]
            /\ Occupy(c, p, k, "fresh")
            /\ UNCHANGED bufPool
    BY <1>3 DEF allocPage3
  <2>2. /\ Installed(c, p, Clock!Hand(k), "fresh")
        /\ disk' \in [Page -> Contents \cup {Missing}]
        /\ disk'[p] # Missing
    BY <1>1, <2>1, AllocInEffect
  <2>3. bufPool' \in [Frames -> Contents] /\ \A j \in Frames : bufPool'[j] = bufPool[j]
    BY <2>1 DEF IInv, TypeOK
  <2>. QED BY <1>1, <2>2, <2>3, InstallStep
<1>. QED BY <1>2, <1>3

LEMMA AllocPage3Implements ==
    ASSUME IInv, IInv', NEW c \in Clients, NEW p \in Page, allocPage3(c, p)
    PROVE  Pool!Allocate(c, p) \/ Pool!Strand(p)
<1>1. /\ held[c] = NoPin /\ inUse' = inUse \cup {p} /\ p \notin inUse
      /\ hashTable[p] = NoFrame /\ pinsBar[c] = NoPin /\ storeBar[p] = Missing
  BY AllocIsNew DEF allocPage3, pinsBar
<1>2. Current(p)' \in Contents
  BY <1>1, CurrentType, SentinelAssumption DEF IInv, TypeOK, InUseOnDisk, Current
<1>3. CASE Full /\ disk' = DiskAllocated(p)
  <2>1. Exceeded
    BY <1>3, FullEffect DEF IInv
  <2>2. \A q \in inUse : q \in Page /\ q # p /\ Current(q)' = Current(q)
    <3>1. \A q \in Page : q # p => disk'[q] = disk[q]
      BY <1>3 DEF DiskAllocated
    <3>. QED BY <1>1, <2>1, <3>1, ExceededCurrent DEF IInv, TypeOK
  <2>3. storeBar' = [storeBar EXCEPT ![p] = Current(p)']
    BY <1>1, <2>2 DEF storeBar
  <2>4. UNCHANGED pinsBar
    BY <2>1 DEF Exceeded, pinsBar
  <2>. QED BY <1>1, <1>2, <2>3, <2>4 DEF Pool!Strand
<1>4. CASE ~(Full /\ disk' = DiskAllocated(p))
  <2>1. PICK k \in 1 .. 2 * NumBufs :
            /\ Clock!FirstStop(k)
            /\ disk' = [Written(Clock!Hand(k)) EXCEPT ![p] =
                            IF disk[p] = Missing THEN Blank ELSE @]
            /\ Occupy(c, p, k, "fresh")
            /\ UNCHANGED bufPool
    BY <1>4 DEF allocPage3
  <2>2. Installed(c, p, Clock!Hand(k), "fresh")
    BY <1>1, <2>1, AllocInEffect
  <2>3. \A j \in Frames : j # Clock!Hand(k) => bufPool'[j] = bufPool[j]
    BY <2>1
  <2>4. /\ storeBar' = [storeBar EXCEPT ![p] = Current(p)']
        /\ pinsBar' = [pinsBar EXCEPT ![c] = p]
    BY <1>1, <2>2, <2>3, InstallCurrent
  <2>. QED BY <1>1, <1>2, <2>4 DEF Pool!Allocate
<1>. QED BY <1>3, <1>4

\* The order of the check and the dirty flag makes no difference for a page
\* that is pinned.
LEMMA ReleaseAsStage6 ==
    ASSUME IInv, NEW c \in Clients, Release3(c)
    PROVE  Release(c)
<1>. PICK i : i = hashTable[held[c].page]
  OBVIOUS
<1>. PICK dirty : dirty = (held[c].mode = "dirty")
  OBVIOUS
<1>1. /\ hashTable[held[c].page] = held[c].frame /\ i \in Frames
      /\ c \in Holders(i) /\ bufTable[i].pinCnt = Cardinality(Holders(i))
  BY HeldPage DEF Release3, Holders, IInv, PinsAreHolders
<1>2. bufTable[i].pinCnt # 0
  <2>1. IsFiniteSet(Holders(i))
    BY ClientsAssumption, FS_Subset DEF Holders
  <2>. QED BY <1>1, <2>1, FS_EmptySet
<1>3. Unpinned3(bufTable[i], dirty) = Unpinned(bufTable[i], dirty)
  <2>1. bufTable[i] \in BufDesc
    BY <1>1 DEF IInv, TypeOK
  <2>2. Unpinned3(bufTable[i], dirty) =
            [bufTable[i] EXCEPT !.pinCnt = bufTable[i].pinCnt - 1,
                                !.dirty = bufTable[i].dirty \/ dirty]
    BY <1>2 DEF Unpinned3
  <2>3. Unpinned(bufTable[i], dirty) =
            [bufTable[i] EXCEPT !.dirty = bufTable[i].dirty \/ dirty,
                                !.pinCnt = bufTable[i].pinCnt - 1]
    BY <1>2 DEF Unpinned
  <2>4. ASSUME NEW r \in BufDesc, NEW n, NEW d
        PROVE  [r EXCEPT !.pinCnt = n, !.dirty = d] = [r EXCEPT !.dirty = d, !.pinCnt = n]
    BY ONLY r \in BufDesc DEF BufDesc
  <2>. QED BY <2>1, <2>2, <2>3, <2>4
<1>4. /\ status' = "OK" /\ bufTable' = [bufTable EXCEPT ![i] = Unpinned3(bufTable[i], dirty)]
      /\ UNCHANGED <<bufPool, hashTable, clockHand, disk, inUse>>
  BY <1>1, <1>2, SentinelAssumption DEF Release3, unPinPage3
<1>5. unPinPage(held[c].page, dirty)
  BY <1>1, <1>2, <1>3, <1>4, SentinelAssumption DEF unPinPage
<1>. QED BY <1>5 DEF Release, Release3

\* A second unpin changes nothing, not even the dirty bit.
LEMMA LateUnPinChangesNothing ==
    ASSUME IInv, NEW p \in Page, NEW dirty \in BOOLEAN, LateUnPin3(p, dirty)
    PROVE  /\ UNCHANGED <<bufTable, bufPool, hashTable, clockHand, disk, inUse, held>>
           /\ status' \in Status
<1>1. unPinPage3(p, dirty) /\ UNCHANGED held
  BY DEF LateUnPin3
<1>2. CASE hashTable[p] = NoFrame
  BY <1>1, <1>2 DEF unPinPage3, Status
<1>3. CASE hashTable[p] # NoFrame
  <2>1. hashTable[p] \in Frames
    BY <1>3 DEF IInv, TypeOK
  <2>2. bufTable[hashTable[p]].pinCnt = 0
    BY <2>1, NobodyPins DEF LateUnPin3
  <2>3. Unpinned3(bufTable[hashTable[p]], dirty) = bufTable[hashTable[p]]
    BY <2>2 DEF Unpinned3
  <2>4. bufTable' = [bufTable EXCEPT ![hashTable[p]] = bufTable[hashTable[p]]]
    BY <1>1, <1>3, <2>3 DEF unPinPage3
  <2>5. bufTable \in [Frames -> BufDesc]
    BY DEF IInv, TypeOK
  <2>6. bufTable' = bufTable
    BY <2>1, <2>4, <2>5
  <2>. QED BY <1>1, <2>6 DEF unPinPage3, Status
<1>. QED BY <1>2, <1>3

-----------------------------------------------------------------------------
(* The theorems.                                                           *)

LEMMA Next3IInv == IInv /\ [Next3]_vars => IInv'
<1>. SUFFICES ASSUME IInv, [Next3]_vars PROVE IInv'
  OBVIOUS
<1>1. ASSUME NEW c \in Clients, NEW p \in inUse \cup {q \in Page : disk[q] = Missing},
             readPage3(c, p)
      PROVE  IInv'
  BY <1>1, ReadPage3Step
<1>2. ASSUME NEW c \in Clients, NEW p \in Page, allocPage3(c, p) PROVE IInv'
  BY <1>2, AllocPage3Step
<1>3. ASSUME NEW c \in Clients, NEW v \in Data, Write(c, v) PROVE IInv'
  BY <1>3, WriteStep
<1>4. ASSUME NEW c \in Clients, Release3(c) PROVE IInv'
  BY <1>4, ReleaseAsStage6, ReleaseStep
<1>5. ASSUME NEW p \in Page, NEW d \in BOOLEAN, LateUnPin3(p, d) PROVE IInv'
  BY <1>5, LateUnPinChangesNothing
     DEF IInv, TypeOK, HashedIffInPool, InvalidIsClear, PinsAreHolders, InUseOnDisk,
         CleanIsOnDisk, Holders
<1>6. ASSUME NEW p \in Page, Dispose(p) PROVE IInv'
  BY <1>6, DisposeStep
<1>7. ASSUME NEW f \in Files, flushFile(f) PROVE IInv'
  BY <1>7, FlushStep
<1>8. CASE Restart
  BY <1>8, RestartStep
<1>9. CASE UNCHANGED vars
  BY <1>9 DEF vars, IInv, TypeOK, HashedIffInPool, InvalidIsClear, PinsAreHolders,
              InUseOnDisk, CleanIsOnDisk, Holders
<1>. QED BY <1>1, <1>2, <1>3, <1>4, <1>5, <1>6, <1>7, <1>8, <1>9 DEF Next3

\* The invariant of stage6 (hash table and descriptors in step, pins are
\* holders, what is not dirty is on disk) is one of part3's code, which looks at
\* the frames in another order, clears a victim at once and leaves it cleared
\* when the page cannot be read.
THEOREM Invariance3 == Spec3 => []IInv
<1>. QED BY InitIInv, Next3IInv, PTL DEF Spec3

LEMMA Next3Implements ==
    ASSUME IInv, IInv', [Next3]_vars
    PROVE  [Pool!Next]_<<storeBar, pinsBar>>
<1>1. ASSUME NEW c \in Clients, NEW p \in inUse \cup {q \in Page : disk[q] = Missing},
             readPage3(c, p)
      PROVE  [Pool!Next]_<<storeBar, pinsBar>>
  BY <1>1, ReadPage3Implements DEF Pool!Next
<1>2. ASSUME NEW c \in Clients, NEW p \in Page, allocPage3(c, p)
      PROVE  [Pool!Next]_<<storeBar, pinsBar>>
  BY <1>2, AllocPage3Implements DEF Pool!Next
<1>3. ASSUME NEW c \in Clients, NEW v \in Data, Write(c, v)
      PROVE  [Pool!Next]_<<storeBar, pinsBar>>
  BY <1>3, WriteImplements DEF Pool!Next
<1>4. ASSUME NEW c \in Clients, Release3(c)
      PROVE  [Pool!Next]_<<storeBar, pinsBar>>
  BY <1>4, ReleaseAsStage6, ReleaseImplements DEF Pool!Next
<1>5. ASSUME NEW p \in Page, NEW d \in BOOLEAN, LateUnPin3(p, d)
      PROVE  UNCHANGED <<storeBar, pinsBar>>
  BY <1>5, LateUnPinChangesNothing DEF storeBar, pinsBar, Current
<1>6. ASSUME NEW p \in Page, Dispose(p)
      PROVE  [Pool!Next]_<<storeBar, pinsBar>>
  BY <1>6, DisposeImplements DEF Pool!Next
<1>7. ASSUME NEW f \in Files, flushFile(f)
      PROVE  UNCHANGED <<storeBar, pinsBar>>
  BY <1>7, FlushImplements
<1>8. CASE Restart
  BY <1>8, RestartImplements
<1>9. CASE UNCHANGED vars
  BY <1>9 DEF vars, storeBar, pinsBar, Current
<1>. QED BY <1>1, <1>2, <1>3, <1>4, <1>5, <1>6, <1>7, <1>8, <1>9 DEF Next3

\* Clients of part3's buffer manager see a pool of pages with one current
\* content each, also when they read pages that are not there and unpin pages
\* that nobody has pinned.
THEOREM Part3ImplementsPagePool == Spec3 => ImplementsPagePool
<1>1. Init => Pool!Init
  BY DEF Init, Pool!Init, storeBar, pinsBar
<1>2. IInv /\ IInv' /\ [Next3]_vars => [Pool!Next]_<<storeBar, pinsBar>>
  BY Next3Implements
<1>. QED BY <1>1, <1>2, Invariance3, PTL DEF Spec3, ImplementsPagePool, Pool!Spec, Pool!vars
=============================================================================
