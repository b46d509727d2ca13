------------------------------- MODULE BufMgr -------------------------------
(***************************************************************************)
(* The buffer manager of stage6 (buf.C, buf.h, bufHash.C): a pool of       *)
(* NumBufs frames over the pages of the open files, clock replacement, a   *)
(* hash table from pages to frames, pin counts and dirty bits.             *)
(*                                                                         *)
(* The program is single-threaded, so one action is one call of a BufMgr   *)
(* method.  The concurrency is between the holders of page pointers (heap  *)
(* file scans, insert scans, the two catalogs), which interleave their     *)
(* calls freely: they are the Clients.  A client keeps the contract every  *)
(* caller in stage6 keeps: it unpins what it pinned once, with dirty =     *)
(* true if it wrote, and initialises a page it allocated.                  *)
(***************************************************************************)
EXTENDS Integers, FiniteSets

CONSTANTS
    NumBufs,    \* frames of the pool
    Files,      \* open files
    MaxPageNo,  \* bound: page numbers a file may grow to
    Clients,    \* holders of page pointers
    Data,       \* contents a client may write
    Blank,      \* content of a page the file layer has just zeroed
    Missing,    \* disk "content" of a page past the end of its file
    NoPage, NoFrame, NoPin

Frames   == 0 .. NumBufs - 1
PageNos  == 1 .. MaxPageNo
Page     == Files \X PageNos
Contents == Data \cup {Blank}

BufDesc == [page: Page \cup {NoPage}, pinCnt: Nat, dirty: BOOLEAN,
            valid: BOOLEAN, refbit: BOOLEAN]

\* A client's pin: the page, the frame its pointer leads to, and whether it
\* has written ("clean", "dirty"), or has yet to initialise the page ("fresh").
Pin == [page: Page, frame: Frames, mode: {"clean", "dirty", "fresh"}]

Status == {"OK", "BUFFEREXCEEDED", "HASHNOTFOUND", "HASHTBLERROR",
           "PAGENOTPINNED", "PAGEPINNED", "UNIXERR", "BADPAGENO"}

ASSUME NumBufsAssumption == NumBufs \in Nat \ {0}
ASSUME MaxPageNoAssumption == MaxPageNo \in Nat \ {0}
ASSUME ClientsAssumption == IsFiniteSet(Clients)
ASSUME SentinelAssumption ==
    /\ NoPage \notin Page
    /\ NoFrame \notin Frames
    /\ NoPin \notin Pin /\ NoPin \notin Page
    /\ Missing \notin Contents

VARIABLES
    bufTable,   \* bufTable[i]: descriptor of frame i
    bufPool,    \* bufPool[i]: content of frame i
    hashTable,  \* hashTable[p]: frame of page p, or NoFrame
    clockHand,
    disk,       \* disk[p]: content of p in the unix file, or Missing
    inUse,      \* pages the file layer has handed out and not got back
    held,       \* held[c]: the pin of client c, or NoPin
    status      \* what the last call returned

vars == <<bufTable, bufPool, hashTable, clockHand, disk, inUse, held, status>>

-----------------------------------------------------------------------------
(* Descriptors.                                                            *)

\* Mutant: the page and the valid bit are forgotten.
ClearKeepsPage(d) == [d EXCEPT !.pinCnt = 0, !.dirty = FALSE]

\* The tuple a frame is cleared to keeps its reference bit.
Clear(d) == [d EXCEPT !.page = NoPage, !.pinCnt = 0, !.dirty = FALSE,
                      !.valid = FALSE]

Set(p) == [page |-> p, pinCnt |-> 1, dirty |-> FALSE, valid |-> TRUE,
           refbit |-> TRUE]

\* Mutants: the dirty bit is assigned instead of set; a page that is not pinned
\* loses a pin all the same.
UnpinnedAssigns(d, dirty) ==
    [d EXCEPT !.dirty = dirty, !.pinCnt = IF @ = 0 THEN 0 ELSE @ - 1]

UnpinnedUnchecked(d, dirty) ==
    [d EXCEPT !.dirty = @ \/ dirty, !.pinCnt = @ - 1]

\* What unPinPage makes of a descriptor: dirty is recorded before the pin
\* count is looked at.
Unpinned(d, dirty) ==
    [d EXCEPT !.dirty = @ \/ dirty, !.pinCnt = IF @ = 0 THEN 0 ELSE @ - 1]

Holders(i) == {c \in Clients : held[c] # NoPin /\ held[c].frame = i}

NobodyHolds(p) == \A c \in Clients : held[c] # NoPin => held[c].page # p

(* The hash table: insert refuses a page that is already there.            *)
insert(h, p, i) == IF h[p] = NoFrame THEN [h EXCEPT ![p] = i] ELSE h

insertStatus(h, p) == IF h[p] = NoFrame THEN "OK" ELSE "HASHTBLERROR"

remove(h, p) == [q \in Page |-> IF q = p THEN NoFrame ELSE h[q]]

\* Mutant: the victim is dropped.
WriteBackNothing(d, S) == d

\* Disk d after the frames of S have been written in frame order, each to the
\* page its descriptor names.
WriteBack(d, S) ==
    [p \in Page |->
        LET W == {i \in S : bufTable[i].dirty /\ bufTable[i].page = p}
        IN  IF W = {} THEN d[p]
            ELSE bufPool[CHOOSE i \in W : \A j \in W : j <= i]]

-----------------------------------------------------------------------------
(* allocBuf: the clock.  The loop makes at most 2 * NumBufs steps; step k  *)
(* looks at frame Hand(k) and stops at an invalid frame, or at one that is *)
(* unpinned and whose reference bit is off (on the second turn every bit   *)
(* the first turn met is off).                                             *)

Hand(k) == (clockHand + k) % NumBufs

\* Mutants: a pinned frame may be taken on the second turn; the reference bit
\* is not looked at.
StopsAtPinned(k) ==
    LET d == bufTable[Hand(k)]
    IN  ~d.valid \/ (d.pinCnt = 0 /\ ~d.refbit) \/ k > NumBufs

StopsAtUnpinned(k) ==
    LET d == bufTable[Hand(k)]
    IN  ~d.valid \/ d.pinCnt = 0

Stops(k) ==
    LET d == bufTable[Hand(k)]
    IN  \/ ~d.valid
        \/ d.pinCnt = 0 /\ (~d.refbit \/ k > NumBufs)

FirstStop(k) ==
    /\ k \in 1 .. 2 * NumBufs
    /\ Stops(k)
    /\ \A j \in 1 .. k - 1 : ~Stops(j)

\* Mutant: one turn of the clock.
NoVictimInOneTurn == \A k \in 1 .. NumBufs : ~Stops(k)

NoVictim == \A k \in 1 .. 2 * NumBufs : ~Stops(k)

\* The frames passed over on the way to step k have lost their reference bit.
Swept(k) ==
    [i \in Frames |->
        IF \E j \in 1 .. k - 1 : Hand(j) = i
        THEN [bufTable[i] EXCEPT !.refbit = FALSE]
        ELSE bufTable[i]]

\* Mutant: the victim's page stays in the hash table.
UnmappedNever(i) == hashTable

\* The victim's page leaves the hash table (if the frame was valid); its
\* descriptor is left as it is.
Unmapped(i) ==
    IF bufTable[i].valid THEN remove(hashTable, bufTable[i].page)
    ELSE hashTable

\* All frames pinned: both turns cleared every bit and the hand is back.
BufferExceeded ==
    /\ NoVictim
    /\ bufTable' = Swept(2 * NumBufs + 1)
    /\ status' = "BUFFEREXCEEDED"
    /\ UNCHANGED <<bufPool, hashTable, clockHand, held>>

\* Frame i = Hand(k) becomes the frame of page p, pinned by client c.
Install(c, p, k, mode) ==
    LET i == Hand(k)
        h == Unmapped(i)
    IN  /\ clockHand' = i
        /\ bufTable' = [Swept(k) EXCEPT ![i] = Set(p)]
        /\ hashTable' = insert(h, p, i)
        /\ status' = insertStatus(h, p)
        /\ held' = IF status' = "OK"
                   THEN [held EXCEPT ![c] = [page |-> p, frame |-> i, mode |-> mode]]
                   ELSE held

-----------------------------------------------------------------------------
(* The file layer, as the buffer manager sees it.                          *)

FreePages(f) == {p \in Page : p[1] = f /\ disk[p] # Missing /\ p \notin inUse}

\* p is a page File::allocatePage may hand out: one from the free list if
\* there is any, else the page after the last one.
CanAllocate(p) ==
    IF FreePages(p[1]) # {}
    THEN p \in FreePages(p[1])
    ELSE disk[p] = Missing /\ \A n \in 1 .. p[2] - 1 : disk[<<p[1], n>>] # Missing

\* Extending the file writes a zeroed page; a free page keeps its content.
DiskAllocated(p) == IF disk[p] = Missing THEN [disk EXCEPT ![p] = Blank] ELSE disk

\* The file refuses to take its first page back.
IsFirstPage(p) == p[2] = 1

-----------------------------------------------------------------------------
(* The methods of BufMgr.                                                  *)

readHit(c, p) ==
    /\ hashTable[p] # NoFrame
    /\ LET i == hashTable[p]
       IN  /\ bufTable' = [bufTable EXCEPT ![i].refbit = TRUE,
                                           ![i].pinCnt = @ + 1]
           /\ held' = [held EXCEPT ![c] = [page |-> p, frame |-> i,
                                           mode |-> "clean"]]
    /\ status' = "OK"
    /\ UNCHANGED <<bufPool, hashTable, clockHand, disk, inUse>>

\* The page is read after the victim was written back.
readMiss(c, p) ==
    /\ hashTable[p] = NoFrame
    /\ \E k \in 1 .. 2 * NumBufs :
        /\ FirstStop(k)
        /\ disk' = WriteBack(disk, {Hand(k)})
        /\ disk'[p] # Missing
        /\ bufPool' = [bufPool EXCEPT ![Hand(k)] = disk'[p]]
        /\ Install(c, p, k, "clean")
    /\ UNCHANGED inUse

\* The callers read pages that their file has (Next), so that File::readPage
\* does not fail; Part3BufMgr has reads that do.
readPage(c, p) ==
    /\ held[c] = NoPin
    /\ \/ readHit(c, p)
       \/ readMiss(c, p)
       \/ hashTable[p] = NoFrame /\ BufferExceeded /\ UNCHANGED <<disk, inUse>>

unPinPage(p, dirty) ==
    /\ IF hashTable[p] = NoFrame
       THEN /\ status' = "HASHNOTFOUND"
            /\ UNCHANGED bufTable
       ELSE LET d == bufTable[hashTable[p]]
            IN  /\ status' = IF d.pinCnt = 0 THEN "PAGENOTPINNED" ELSE "OK"
                /\ bufTable' = [bufTable EXCEPT ![hashTable[p]] = Unpinned(d, dirty)]
    /\ UNCHANGED <<bufPool, hashTable, clockHand, disk, inUse>>

\* The file hands the page out first: with every frame pinned it stays
\* allocated in the file although nobody has it.  The frame keeps the content
\* of its victim until the client initialises it.
allocPage(c, p) ==
    /\ held[c] = NoPin
    /\ CanAllocate(p)
    /\ inUse' = inUse \cup {p}
    /\ \/ BufferExceeded /\ disk' = DiskAllocated(p)
       \/ \E k \in 1 .. 2 * NumBufs :
            /\ FirstStop(k)
            /\ disk' = WriteBack(DiskAllocated(p), {Hand(k)})
            /\ Install(c, p, k, "fresh")
            /\ UNCHANGED bufPool

\* The frame is dropped, dirty or not, before the file decides whether it
\* takes the page back.
disposePage(p) ==
    /\ bufTable' = IF hashTable[p] = NoFrame THEN bufTable
                   ELSE [bufTable EXCEPT ![hashTable[p]] = Clear(@)]
    /\ hashTable' = remove(hashTable, p)
    /\ IF IsFirstPage(p)
       THEN /\ status' = "BADPAGENO"
            /\ UNCHANGED <<disk, inUse>>
       ELSE /\ status' = "OK"
            /\ disk' = [disk EXCEPT ![p] = Blank]
            /\ inUse' = inUse \ {p}
    /\ UNCHANGED <<bufPool, clockHand, held>>

FramesOf(f) == {i \in Frames : bufTable[i].valid /\ bufTable[i].page[1] = f}

\* Frames are flushed in order; the first pinned one ends the call and leaves
\* the ones after it alone.
flushFile(f) ==
    LET pinned  == {i \in FramesOf(f) : bufTable[i].pinCnt > 0}
        flushed == {i \in FramesOf(f) : \A j \in pinned : i < j}
    IN  /\ disk' = WriteBack(disk, flushed)
        /\ hashTable' = [p \in Page |->
                IF \E i \in flushed : bufTable[i].page = p THEN NoFrame
                ELSE hashTable[p]]
        /\ bufTable' = [i \in Frames |->
                IF i \in flushed THEN Clear(bufTable[i]) ELSE bufTable[i]]
        /\ status' = IF pinned = {} THEN "OK" ELSE "PAGEPINNED"
        /\ UNCHANGED <<bufPool, clockHand, inUse, held>>

\* The destructor writes every dirty frame and the program ends; a new run of
\* the program constructs an empty pool over the same files.
EmptyDesc == [page |-> NoPage, pinCnt |-> 0, dirty |-> FALSE, valid |-> FALSE,
              refbit |-> FALSE]

Restart ==
    /\ \A c \in Clients : held[c] = NoPin
    /\ disk' = WriteBack(disk, {i \in Frames : bufTable[i].valid})
    /\ bufTable' = [i \in Frames |-> EmptyDesc]
    /\ bufPool' = [i \in Frames |-> Blank]
    /\ hashTable' = [p \in Page |-> NoFrame]
    /\ clockHand' = NumBufs - 1
    /\ status' = "OK"
    /\ UNCHANGED <<inUse, held>>

-----------------------------------------------------------------------------
(* The clients.                                                            *)

\* Store through the page pointer.
Write(c, v) ==
    /\ held[c] # NoPin
    /\ bufPool' = [bufPool EXCEPT ![held[c].frame] = v]
    /\ held' = [held EXCEPT ![c].mode = "dirty"]
    /\ UNCHANGED <<bufTable, hashTable, clockHand, disk, inUse, status>>

Release(c) ==
    /\ held[c] # NoPin
    /\ held[c].mode # "fresh"
    /\ unPinPage(held[c].page, held[c].mode = "dirty")
    /\ held' = [held EXCEPT ![c] = NoPin]

\* A second unpin of a page nobody has pinned any more.
LateUnPin(p, dirty) ==
    /\ NobodyHolds(p)
    /\ unPinPage(p, dirty)
    /\ UNCHANGED held

Dispose(p) ==
    /\ p \in inUse
    /\ NobodyHolds(p)
    /\ ~IsFirstPage(p)
    /\ disposePage(p)

Init ==
    /\ bufTable = [i \in Frames |-> EmptyDesc]
    /\ bufPool = [i \in Frames |-> Blank]
    /\ hashTable = [p \in Page |-> NoFrame]
    /\ clockHand = NumBufs - 1
    /\ disk = [p \in Page |-> Missing]
    /\ inUse = {}
    /\ held = [c \in Clients |-> NoPin]
    /\ status = "OK"

Next ==
    \/ \E c \in Clients, p \in inUse : readPage(c, p)
    \/ \E c \in Clients, p \in Page : allocPage(c, p)
    \/ \E c \in Clients, v \in Data : Write(c, v)
    \/ \E c \in Clients : Release(c)
    \/ \E p \in Page, d \in BOOLEAN : LateUnPin(p, d)
    \/ \E p \in Page : Dispose(p)
    \/ \E f \in Files : flushFile(f)
    \/ Restart

Spec == Init /\ [][Next]_vars

-----------------------------------------------------------------------------
(* Properties.                                                             *)

TypeOK ==
    /\ bufTable \in [Frames -> BufDesc]
    /\ bufPool \in [Frames -> Contents]
    /\ hashTable \in [Page -> Frames \cup {NoFrame}]
    /\ clockHand \in Frames
    /\ disk \in [Page -> Contents \cup {Missing}]
    /\ inUse \in SUBSET Page
    /\ held \in [Clients -> Pin \cup {NoPin}]
    /\ status \in Status

\* The hash table and the descriptors say the same: a page is in the pool if
\* and only if it is in the hash table, in one frame, and only while the file
\* has handed it out (buf.h: "in the buffer pool (ie. in the hash table)").
HashedIffInPool ==
    /\ \A p \in Page : hashTable[p] # NoFrame =>
            /\ bufTable[hashTable[p]].valid
            /\ bufTable[hashTable[p]].page = p
            /\ p \in inUse
    /\ \A i \in Frames : bufTable[i].valid =>
            /\ bufTable[i].page \in Page
            /\ hashTable[bufTable[i].page] = i

\* Every page pointer still leads to the frame of the page it was given for,
\* and the pin count of a frame is the number of pointers into it: no
\* replacement, flush, disposal or unpin by another client moves a page under
\* its holder or takes its pin.
PinsAreHolders ==
    /\ \A c \in Clients : held[c] # NoPin =>
            hashTable[held[c].page] = held[c].frame
    /\ \A i \in Frames : bufTable[i].pinCnt = Cardinality(Holders(i))

\* The dirty bit is never lost: the content of a frame that is not marked
\* dirty and that no holder has changed is the content on disk, so a victim
\* that is dropped without a write loses nothing.
CleanIsOnDisk ==
    \A i \in Frames :
        \/ ~bufTable[i].valid
        \/ bufTable[i].dirty
        \/ \E c \in Holders(i) : held[c].mode # "clean"
        \/ bufPool[i] = disk[bufTable[i].page]

\* BUFFEREXCEEDED is returned only when every frame is pinned: two turns of
\* the clock are enough to find any frame that could be used.
ExceededOnlyIfAllPinned ==
    [][ BufferExceeded => \A i \in Frames : bufTable[i].pinCnt > 0 ]_vars

\* flushFile answers OK only when the file has no frame left and its pages on
\* disk are the ones clients last saw (the call File::close relies on).
Current(p) == IF hashTable[p] # NoFrame THEN bufPool[hashTable[p]] ELSE disk[p]

FlushIsComplete ==
    [][ \A f \in Files : flushFile(f) /\ status' = "OK" =>
            /\ FramesOf(f)' = {}
            /\ \A p \in inUse : p[1] = f => disk'[p] = Current(p) ]_vars

\* Second chance: a page that was referenced since the hand last passed is
\* not replaced while an unpinned page that was not referenced is in the pool.
SecondChance ==
    [][ \A i \in Frames :
            (/\ bufTable[i].valid /\ bufTable'[i].valid
             /\ bufTable[i].page # bufTable'[i].page
             /\ bufTable[i].refbit)
            => \A j \in Frames : bufTable[j].valid /\ bufTable[j].pinCnt = 0
                                    => bufTable[j].refbit ]_vars

\* Through replacement, flushing, disposal and restarts, clients see a pool of
\* pages with one current content each (see PagePool).
storeBar == [p \in Page |-> IF p \in inUse THEN Current(p) ELSE Missing]
pinsBar  == [c \in Clients |-> IF held[c] = NoPin THEN NoPin ELSE held[c].page]

Pool == INSTANCE PagePool WITH Free <- Missing, store <- storeBar, pins <- pinsBar

ImplementsPagePool == Pool!Spec
=============================================================================
