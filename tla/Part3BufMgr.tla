---------------------------- MODULE Part3BufMgr -----------------------------
(***************************************************************************)
(* The buffer manager of part3 (part3/buf.C), the team's own: it keeps the *)
(* interface, the descriptors and the hash table of stage6, so this module *)
(* extends BufMgr and replaces what differs: the clock looks at the frame  *)
(* under the hand before it advances, a victim is cleared at once, and     *)
(* unPinPage looks at the pin count before it records the dirty flag.      *)
(***************************************************************************)
EXTENDS BufMgr

\* The clock of stage6 with its hand one frame back: its k-th step looks at
\* the frame that part3 looks at in its k-th step.
Clock == INSTANCE BufMgr WITH clockHand <- (clockHand + NumBufs - 1) % NumBufs

\* Mutant: the victim is not written.
NotWritten(i) == disk

Written(i) == IF bufTable[i].valid THEN WriteBack(disk, {i}) ELSE disk

Unhashed(i) ==
    IF bufTable[i].valid THEN remove(hashTable, bufTable[i].page) ELSE hashTable

\* The descriptors when allocBuf gives out the frame of step k.
Cleared(k) ==
    [Clock!Swept(k) EXCEPT ![Clock!Hand(k)] = IF @.valid THEN Clear(@) ELSE @]

\* Frame i, given out in step k, becomes the frame of page p.
Occupy(c, p, k, mode) ==
    LET i == Clock!Hand(k)
        h == Unhashed(i)
    IN  /\ clockHand' = i
        /\ bufTable' = [Cleared(k) EXCEPT ![i] = Set(p)]
        /\ hashTable' = insert(h, p, i)
        /\ status' = insertStatus(h, p)
        /\ held' = IF status' = "OK"
                   THEN [held EXCEPT ![c] = [page |-> p, frame |-> i, mode |-> mode]]
                   ELSE held

\* allocBuf finds no frame: the hand has made two turns and is back.
Full == Clock!NoVictim /\ bufTable' = Clock!Swept(2 * NumBufs + 1)
        /\ status' = "BUFFEREXCEEDED"
        /\ UNCHANGED <<bufPool, hashTable, clockHand, held>>

\* A page that is not in the pool. If the file does not have it, the frame is
\* left cleared.
readAbsent(c, p) ==
    /\ hashTable[p] = NoFrame
    /\ \/ Full /\ UNCHANGED disk
       \/ \E k \in 1 .. 2 * NumBufs :
            /\ Clock!FirstStop(k)
            /\ disk' = Written(Clock!Hand(k))
            /\ IF disk'[p] # Missing
               THEN /\ Occupy(c, p, k, "clean")
                    /\ bufPool' = [bufPool EXCEPT ![Clock!Hand(k)] = disk'[p]]
               ELSE /\ clockHand' = Clock!Hand(k)
                    /\ bufTable' = Cleared(k)
                    /\ hashTable' = Unhashed(Clock!Hand(k))
                    /\ status' = "UNIXERR"
                    /\ UNCHANGED <<bufPool, held>>
    /\ UNCHANGED inUse

readPage3(c, p) == held[c] = NoPin /\ (readHit(c, p) \/ readAbsent(c, p))

Unpinned3(d, dirty) ==
    IF d.pinCnt = 0 THEN d ELSE [d EXCEPT !.pinCnt = @ - 1, !.dirty = @ \/ dirty]

unPinPage3(p, dirty) ==
    /\ IF hashTable[p] = NoFrame
       THEN status' = "HASHNOTFOUND" /\ UNCHANGED bufTable
       ELSE LET i == hashTable[p]
            IN  /\ bufTable' = [bufTable EXCEPT ![i] = Unpinned3(@, dirty)]
                /\ status' = IF bufTable[i].pinCnt = 0 THEN "PAGENOTPINNED" ELSE "OK"
    /\ UNCHANGED <<bufPool, hashTable, clockHand, disk, inUse>>

\* With every frame pinned the page stays allocated in the file.
allocPage3(c, p) ==
    /\ held[c] = NoPin
    /\ CanAllocate(p)
    /\ inUse' = inUse \cup {p}
    /\ \/ Full /\ disk' = DiskAllocated(p)
       \/ \E k \in 1 .. 2 * NumBufs :
            /\ Clock!FirstStop(k)
            /\ disk' = [Written(Clock!Hand(k)) EXCEPT ![p] =
                            IF disk[p] = Missing THEN Blank ELSE @]
            /\ Occupy(c, p, k, "fresh")
            /\ UNCHANGED bufPool

Release3(c) ==
    /\ held[c] # NoPin
    /\ held[c].mode # "fresh"
    /\ unPinPage3(held[c].page, held[c].mode = "dirty")
    /\ held' = [held EXCEPT ![c] = NoPin]

LateUnPin3(p, dirty) == NobodyHolds(p) /\ unPinPage3(p, dirty) /\ UNCHANGED held

\* Reading a page its file does not have is among the calls here: part3's
\* tests make it (testbuf.C).
Next3 ==
    \/ \E c \in Clients, p \in inUse \cup {q \in Page : disk[q] = Missing} : readPage3(c, p)
    \/ \E c \in Clients, p \in Page : allocPage3(c, p)
    \/ \E c \in Clients, v \in Data : Write(c, v)
    \/ \E c \in Clients : Release3(c)
    \/ \E p \in Page, d \in BOOLEAN : LateUnPin3(p, d)
    \/ \E p \in Page : Dispose(p)
    \/ \E f \in Files : flushFile(f)
    \/ Restart

Spec3 == Init /\ [][Next3]_vars
=============================================================================
