------------------------------ MODULE HeapFile ------------------------------
(***************************************************************************)
(* One heap file of stage6 (heapfile.C): a header page and a chain of data *)
(* pages, worked on by any number of HeapFile objects at once.  A query    *)
(* holds several on one file (a self join has an outer and an inner scan,  *)
(* an insertion into the catalog runs beside the catalog's own handle), so *)
(* their calls interleave; one action is one call.                         *)
(*                                                                         *)
(* Data pages are what SlottedPage proves of them: slot numbers, records   *)
(* of RecLen bytes and the space check.  The buffer pool is what BufMgr    *)
(* promises: a pinned page stays, an unpinned one may be dropped unless it *)
(* was unpinned dirty.  A statement opens at most five objects at once over *)
(* a pool of 100 frames, each with two pages pinned: a full pool is not a  *)
(* case here (it takes dozens of LOADs that failed and left theirs open).  *)
(***************************************************************************)
EXTENDS Integers, Sequences, FiniteSets

CONSTANTS
    Inserters,  \* InsertFileScan objects
    Scanners,   \* HeapFileScan objects
    Markers,    \* the scans whose caller marks positions and pages
    Readers,    \* plain HeapFile objects
    Records,    \* contents of records, RecLen bytes each
    Filters,    \* predicates a scan may be started with: sets of records
    Lengths,    \* record lengths insertRecord is called with
    RecLen, SlotSize, DataSize,
    MaxPageNo,  \* bound: pages the file may grow to
    NoRecord

Handles == Inserters \cup Scanners \cup Readers

HdrPageNo == 1
DataPages == 2 .. MaxPageNo
PageNos   == 1 .. MaxPageNo
SlotNos   == 0 .. (DataSize \div (RecLen + SlotSize)) - 1

Null    == 0        \* curPage of a handle that has no page pinned
NullRID == -1       \* slot number of NULLRID
Eof     == -1       \* curPageNo after an empty first page
NoPage  == -1       \* end of the chain

ASSUME SizesAssumption ==
    /\ RecLen \in Nat \ {0} /\ SlotSize \in Nat \ {0} /\ DataSize \in Nat
    /\ RecLen + SlotSize <= DataSize
\* A record of another length is one no page takes.
ASSUME LengthsAssumption ==
    \A len \in Lengths : len \in Nat /\ (len = RecLen \/ len + SlotSize > DataSize)
ASSUME MaxPageNoAssumption == MaxPageNo \in Nat /\ MaxPageNo >= 2
ASSUME RecordsAssumption == NoRecord \notin Records /\ Filters \subseteq SUBSET Records
\* Every object is of one class, and there are finitely many.
ASSUME HandlesAssumption ==
    /\ IsFiniteSet(Handles) /\ Markers \subseteq Scanners
    /\ Inserters \cap (Scanners \cup Readers) = {} /\ Scanners \cap Readers = {}

VARIABLES
    header,     \* firstPage, lastPage, pageCnt and recCnt of the header page
    pages,      \* pages[p]: slots and nextPage of every allocated data page
    pool,       \* pins[p], and the pages changed since they were last
                \* unpinned dirty
    handle,     \* handle[h]: the fields of object h
    todo,       \* todo[s]: records scan s still owes: in the file and
                \* matching when it started, not deleted, not yet returned
    status

vars == <<header, pages, pool, handle, todo, status>>

-----------------------------------------------------------------------------
(* Data pages.                                                             *)

EmptyPage == [slots |-> <<>>, next |-> NoPage]

\* Slot number n is the code's; the sequence starts at 1.
Holds(pg, n) == n + 1 \in DOMAIN pg.slots /\ pg.slots[n + 1] # NoRecord

SlotsInUse(pg) == {n \in 0 .. Len(pg.slots) - 1 : Holds(pg, n)}

Accepts(pg, len) ==
    len + SlotSize <= DataSize - RecLen * Cardinality(SlotsInUse(pg))
                               - SlotSize * Len(pg.slots)

\* Mutant: the search stops one slot early.
FirstEmptyStopsEarly(pg) ==
    CHOOSE n \in 0 .. Len(pg.slots) :
        /\ ~Holds(pg, n) \/ n = Len(pg.slots) - 1
        /\ \A m \in 0 .. n - 1 : Holds(pg, m)

FirstEmpty(pg) ==
    CHOOSE n \in 0 .. Len(pg.slots) :
        ~Holds(pg, n) /\ \A m \in 0 .. n - 1 : Holds(pg, m)

PageInsert(pg, r) ==
    [pg EXCEPT !.slots = [i \in 1 .. (IF FirstEmpty(pg) = Len(@) THEN Len(@) + 1 ELSE Len(@)) |->
                            IF i = FirstEmpty(pg) + 1 THEN r ELSE @[i]]]

\* The slots behind the last one in use go.
PageDelete(pg, n) ==
    LET kept == SlotsInUse(pg) \ {n}
        cnt  == IF n = Len(pg.slots) - 1
                THEN CHOOSE k \in 0 .. n : /\ \A m \in kept : m < k
                                           /\ k > 0 => k - 1 \in kept
                ELSE Len(pg.slots)
    IN  [pg EXCEPT !.slots = [i \in 1 .. cnt |-> IF i = n + 1 THEN NoRecord ELSE @[i]]]

\* Page numbers from p along the forward pointers.
PathFrom(p) ==
    LET at[k \in 1 .. MaxPageNo] ==
            IF k = 1 THEN p
            ELSE IF at[k - 1] \notin DOMAIN pages THEN NoPage
            ELSE pages[at[k - 1]].next
    IN  [k \in {j \in 1 .. MaxPageNo : at[j] # NoPage} |-> at[k]]

-----------------------------------------------------------------------------
(* The buffer pool.                                                        *)

pin(b, p) == [b EXCEPT !.pins[p] = @ + 1]

unPin(b, p, dirty) ==
    [b EXCEPT !.pins[p] = IF @ = 0 THEN 0 ELSE @ - 1,
              !.unsaved = IF dirty THEN @ \ {p} ELSE @]

touch(b, P) == [b EXCEPT !.unsaved = @ \cup P]

\* Mutant: the page is not given up.
MovedPinsOnly(b, o, p) == IF p = o.curPage THEN b ELSE pin(b, p)

\* Object o gives up its page and moves to page p: pages on the way are pinned
\* and unpinned again, the one it leaves with its dirty flag.
Moved(b, o, p) == IF p = o.curPage THEN b ELSE pin(unPin(b, o.curPage, o.curDirty), p)

MovedTo(o, p, n) ==
    [o EXCEPT !.curPage = p, !.curPageNo = p, !.curRec = n,
              !.curDirty = @ /\ p = o.curPage]

Open == {h \in Handles : handle[h].open}

Closed == [open |-> FALSE, curPage |-> Null, curPageNo |-> 0, curDirty |-> FALSE,
           hdrDirty |-> FALSE, curRec |-> NullRID, filter |-> Records,
           current |-> NoRecord, marked |-> [pageNo |-> 0, rec |-> NullRID, todo |-> {}]]

-----------------------------------------------------------------------------
(* Opening and closing.                                                    *)

\* HeapFile::HeapFile pins the header page and a data page: the first one,
\* which an InsertFileScan exchanges for the last.
Constructed(h, p) ==
    /\ ~handle[h].open
    /\ handle' = [handle EXCEPT ![h] = [Closed EXCEPT !.open = TRUE, !.curPage = p,
                                                      !.curPageNo = p]]
    /\ pool' = pin(pin(pool, HdrPageNo), p)
    /\ status' = "OK"
    /\ UNCHANGED <<header, pages, todo>>

HeapFileOpen(h) == h \in Readers /\ Constructed(h, header.firstPage)

\* Callers have one InsertFileScan on a file at a time.
InsertFileScanOpen(h) ==
    /\ h \in Inserters
    /\ Open \cap Inserters = {}
    /\ Constructed(h, header.lastPage)

\* The constructor of a scan is followed by startScan, with parameters it takes.
HeapFileScanOpen(s, f) ==
    /\ ~handle[s].open
    /\ handle' = [handle EXCEPT ![s] = [Closed EXCEPT !.open = TRUE,
                        !.curPage = header.firstPage, !.curPageNo = header.firstPage,
                        !.filter = f]]
    /\ pool' = pin(pin(pool, HdrPageNo), header.firstPage)
    /\ todo' = [todo EXCEPT ![s] =
            {r \in f : \E p \in DOMAIN pages, n \in SlotNos :
                            Holds(pages[p], n) /\ pages[p].slots[n + 1] = r}]
    /\ status' = "OK"
    /\ UNCHANGED <<header, pages>>

\* The flag a destructor unpins the current page with.
CloseDirty(h) == h \in Inserters \/ handle[h].curDirty

Close(h) ==
    /\ handle[h].open
    /\ LET o == handle[h]
           b == IF o.curPage = Null THEN pool
                ELSE unPin(pool, o.curPage, CloseDirty(h))
       IN  pool' = unPin(b, HdrPageNo, o.hdrDirty)
    /\ handle' = [handle EXCEPT ![h] = Closed]
    /\ todo' = IF h \in Scanners THEN [todo EXCEPT ![h] = {}] ELSE todo
    /\ status' = "OK"
    /\ UNCHANGED <<header, pages>>

-----------------------------------------------------------------------------
(* InsertFileScan.                                                         *)

\* Mutant: the full page is not linked to the new one.
LinkedNot(p, q) == [x \in DOMAIN pages \cup {q} |-> IF x = q THEN EmptyPage ELSE pages[x]]

\* Mutant: the full page is initialised, not the new one.
LinkedInitFull(p, q) ==
    [x \in DOMAIN pages \cup {q} |->
        IF x = q THEN EmptyPage ELSE IF x = p THEN [EmptyPage EXCEPT !.next = q] ELSE pages[x]]

\* The chain after the full page p got the new page q behind it.
Linked(p, q) ==
    [x \in DOMAIN pages \cup {q} |->
        IF x = q THEN EmptyPage ELSE IF x = p THEN [pages[p] EXCEPT !.next = q] ELSE pages[x]]

\* Mutant: the header page is not counted.
NextPageNoOfData == Cardinality(DOMAIN pages)

NextPageNo == HdrPageNo + Cardinality(DOMAIN pages) + 1

InsertHere(h, r, len) ==
    LET p == handle[h].curPage
    IN  /\ Accepts(pages[p], len)
        /\ pages' = [pages EXCEPT ![p] = PageInsert(@, r)]
        /\ header' = [header EXCEPT !.recCnt = @ + 1]
        /\ pool' = touch(pool, {p, HdrPageNo})
        /\ handle' = [handle EXCEPT ![h].hdrDirty = TRUE, ![h].curDirty = TRUE]
        /\ status' = "OK"

\* Mutant: the page that is left is unpinned with the flag as it stands.
LeaveFullFlag(h) == handle[h].curDirty

\* The full page was changed by the link, whatever the flag says.
LeaveFull(h) == TRUE

\* The current page is full: a new one is linked behind it, whether or not
\* the record then fits.
InsertNewPage(h, r, len) ==
    LET p    == handle[h].curPage
        q    == NextPageNo
        fits == Accepts(EmptyPage, len)
    IN  /\ ~Accepts(pages[p], len)
        /\ q <= MaxPageNo
        /\ pages' = [Linked(p, q) EXCEPT ![q] = IF fits THEN PageInsert(@, r) ELSE @]
        /\ header' = [header EXCEPT !.lastPage = q, !.pageCnt = @ + 1,
                                    !.recCnt = IF fits THEN @ + 1 ELSE @]
        /\ pool' = pin(unPin(touch(pool, {p, q, HdrPageNo}), p, LeaveFull(h)), q)
        /\ handle' = [handle EXCEPT ![h].hdrDirty = TRUE,
                                    ![h].curDirty = @ \/ fits,
                                    ![h].curPage = q, ![h].curPageNo = q]
        /\ status' = IF fits THEN "OK" ELSE "NOSPACE"

insertRecord(h, r, len) ==
    /\ handle[h].open
    /\ UNCHANGED todo
    /\ \/ /\ len > DataSize
          /\ status' = "INVALIDRECLEN"
          /\ UNCHANGED <<header, pages, pool, handle>>
       \/ /\ len <= DataSize
          /\ InsertHere(h, r, len) \/ InsertNewPage(h, r, len)

-----------------------------------------------------------------------------
(* HeapFileScan.                                                           *)

\* The records a scan has before it on the pages of path, from slot rec of the
\* first page on: pairs of an index of path and a slot number, in the order of
\* the walk. Mutant: a new page is not entered at its first slot.
Before(x, y) == x[1] < y[1] \/ (x[1] = y[1] /\ x[2] < y[2])

AheadAnywhere(path, rec) ==
    {x \in (DOMAIN path) \X SlotNos : Holds(pages[path[x[1]]], x[2]) /\ x[2] > rec}

Ahead(path, rec) ==
    {x \in (DOMAIN path) \X SlotNos :
        Holds(pages[path[x[1]]], x[2]) /\ (x[1] = 1 => x[2] > rec)}

RecordAt(path, x) == pages[path[x[1]]].slots[x[2] + 1]

\* The loop of scanNext for scan s, from object o that has a page pinned in
\* pool b.  At the end of the file the last page stays pinned, and the scan
\* stands on the last record it walked over.
Walk(s, b, o) ==
    LET path == PathFrom(o.curPage)
        past == Ahead(path, o.curRec)
        hits == {x \in past : RecordAt(path, x) \in o.filter}
    IN  \/ \E x \in hits :
            /\ \A y \in hits : y = x \/ Before(x, y)
            /\ handle' = [handle EXCEPT ![s] =
                    [MovedTo(o, path[x[1]], x[2]) EXCEPT !.current = RecordAt(path, x)]]
            /\ pool' = Moved(b, o, path[x[1]])
            /\ todo' = [todo EXCEPT ![s] = @ \ {RecordAt(path, x)}]
            /\ status' = "OK"
        \/ /\ hits = {}
           /\ LET last == path[Len(path)]
                  rec  == IF past = {} THEN o.curRec
                          ELSE (CHOOSE x \in past : \A y \in past : (y = x \/ Before(y, x)))[2]
              IN  /\ handle' = [handle EXCEPT ![s] =
                            [MovedTo(o, last, rec) EXCEPT !.current = NoRecord]]
                  /\ pool' = Moved(b, o, last)
           /\ status' = "FILEEOF"
           /\ UNCHANGED todo

scanNext(s) ==
    /\ handle[s].open /\ handle[s].curPage # Null
    /\ Walk(s, pool, handle[s])
    /\ UNCHANGED <<header, pages>>

\* A scan that has no page pinned starts again at the first page.
scanAgain(s) ==
    LET o == handle[s]
        p == header.firstPage
    IN  /\ o.open /\ o.curPage = Null
        /\ \/ /\ o.curPageNo < 0 \/ SlotsInUse(pages[p]) = {}
              /\ handle' = [handle EXCEPT ![s].curPageNo = Eof, ![s].current = NoRecord]
              /\ status' = "FILEEOF"
              /\ UNCHANGED <<pool, todo>>
           \/ /\ o.curPageNo >= 0 /\ SlotsInUse(pages[p]) # {}
              /\ Walk(s, pin(pool, p), [o EXCEPT !.curPage = p, !.curPageNo = p,
                                                 !.curDirty = FALSE, !.curRec = NullRID])
        /\ UNCHANGED <<header, pages>>

\* The scan gives its page back; what is left is to close it.
endScan(s) ==
    /\ handle[s].open /\ handle[s].curPage # Null
    /\ pool' = unPin(pool, handle[s].curPage, handle[s].curDirty)
    /\ handle' = [handle EXCEPT ![s].curPage = Null, ![s].curPageNo = 0,
                                ![s].curDirty = FALSE]
    /\ status' = "OK"
    /\ UNCHANGED <<header, pages, todo>>

markScan(s) ==
    /\ handle[s].open /\ handle[s].curPage # Null
    /\ handle' = [handle EXCEPT ![s].marked =
            [pageNo |-> handle[s].curPageNo, rec |-> handle[s].curRec, todo |-> todo[s]]]
    /\ status' = "OK"
    /\ UNCHANGED <<header, pages, pool, todo>>

\* Mutant: the page of the mark is not fetched.
ResetPageKept(o) == o.curPage

ResetPage(o) == o.marked.pageNo

\* Back to the mark: the page is exchanged if it is another one.
resetScan(s) ==
    LET o == handle[s]
    IN  /\ o.open /\ o.curPage # Null /\ o.marked.pageNo > 0
        /\ handle' = [handle EXCEPT ![s] =
                [MovedTo(o, ResetPage(o), o.marked.rec) EXCEPT !.current = NoRecord]]
        /\ pool' = Moved(pool, o, ResetPage(o))
        /\ todo' = [todo EXCEPT ![s] = o.marked.todo]
        /\ status' = "OK"
        /\ UNCHANGED <<header, pages>>

markDirty(s) ==
    /\ handle[s].open /\ handle[s].curPage # Null
    /\ handle' = [handle EXCEPT ![s].curDirty = TRUE]
    /\ status' = "OK"
    /\ UNCHANGED <<header, pages, pool, todo>>

\* deleteRecord of the current record, if it is there; the count of records
\* goes down in any case.
deleteRecord(s) ==
    LET o == handle[s]
        there == Holds(pages[o.curPage], o.curRec)
    IN  /\ o.open /\ o.curPage # Null
        /\ IF there
           THEN LET r == pages[o.curPage].slots[o.curRec + 1]
                IN  /\ pages' = [pages EXCEPT ![o.curPage] = PageDelete(@, o.curRec)]
                    /\ todo' = [t \in Scanners |-> todo[t] \ {r}]
                    /\ handle' = [h \in Handles |->
                            IF h \notin Scanners THEN handle[h]
                            ELSE [handle[h] EXCEPT
                                    !.marked.todo = @ \ {r},
                                    !.hdrDirty = @ \/ h = s,
                                    !.curDirty = @ \/ h = s]]
                    /\ pool' = touch(pool, {o.curPage, HdrPageNo})
                    /\ status' = "OK"
           ELSE /\ handle' = [handle EXCEPT ![s].hdrDirty = TRUE, ![s].curDirty = TRUE]
                /\ pool' = touch(pool, {HdrPageNo})
                /\ status' = "INVALIDSLOTNO"
                /\ UNCHANGED <<pages, todo>>
        /\ header' = [header EXCEPT !.recCnt = @ - 1]

-----------------------------------------------------------------------------
(* HeapFile::getRecord.                                                    *)

getRecord(h, p, n) ==
    LET o == handle[h]
    IN  /\ o.open /\ p \in DOMAIN pages
        /\ handle' = [handle EXCEPT ![h] = MovedTo(o, p, n)]
        /\ pool' = Moved(pool, o, p)
        /\ status' = IF Holds(pages[p], n) THEN "OK" ELSE "INVALIDSLOTNO"
        /\ UNCHANGED <<header, pages, todo>>

-----------------------------------------------------------------------------
\* createHeapFile: a header page and an empty data page, closed again.
Init ==
    /\ header = [firstPage |-> 2, lastPage |-> 2, pageCnt |-> 1, recCnt |-> 0]
    /\ pages = [p \in {2} |-> EmptyPage]
    /\ pool = [pins |-> [p \in PageNos |-> 0], unsaved |-> {}]
    /\ handle = [h \in Handles |-> Closed]
    /\ todo = [s \in Scanners |-> {}]
    /\ status = "OK"

Stored(r) == \E p \in DOMAIN pages : \E i \in DOMAIN pages[p].slots : pages[p].slots[i] = r

\* Callers delete the record scanNext has just given them.
HasCurrent(s) ==
    LET o == handle[s]
    IN  /\ o.current # NoRecord /\ o.curPage # Null
        /\ Holds(pages[o.curPage], o.curRec)
        /\ pages[o.curPage].slots[o.curRec + 1] = o.current

Next ==
    \/ \E h \in Readers : HeapFileOpen(h)
    \/ \E h \in Inserters : InsertFileScanOpen(h)
    \/ \E s \in Scanners, f \in Filters : HeapFileScanOpen(s, f)
    \/ \E h \in Handles : Close(h)
    \/ \E h \in Inserters, r \in Records, len \in Lengths :
            ~Stored(r) /\ insertRecord(h, r, len)
    \/ \E s \in Scanners : scanNext(s) \/ scanAgain(s) \/ endScan(s)
    \/ \E s \in Markers : markScan(s) \/ resetScan(s) \/ markDirty(s)
    \/ \E s \in Scanners : HasCurrent(s) /\ deleteRecord(s)
    \/ \E h \in Readers, p \in DataPages, n \in SlotNos : getRecord(h, p, n)

Spec == Init /\ [][Next]_vars

-----------------------------------------------------------------------------
(* Properties.                                                             *)

TypeOK ==
    /\ header \in [firstPage: DataPages, lastPage: DataPages, pageCnt: Nat, recCnt: Int]
    /\ \A p \in DOMAIN pages : /\ p \in DataPages
                              /\ pages[p].next \in DataPages \cup {NoPage}
                              /\ pages[p].slots \in Seq(Records \cup {NoRecord})
    /\ pool.pins \in [PageNos -> Nat] /\ pool.unsaved \subseteq PageNos
    /\ \A h \in Handles : /\ handle[h].curPage \in DOMAIN pages \cup {Null}
                         /\ handle[h].curRec \in {NullRID} \cup Nat
                         /\ {handle[h].open, handle[h].curDirty, handle[h].hdrDirty}
                                \subseteq BOOLEAN
    /\ todo \in [Scanners -> SUBSET Records]

Pinning(p) ==
    {h \in Open : handle[h].curPage = p} \cup (IF p = HdrPageNo THEN Open ELSE {})

\* heapfile.h: curPage is the "data page currently pinned in buffer pool".
\* Every open object has one pin of its own on the header page and on its
\* current page, and no pin is left behind: an object never gives away the pin
\* of another, and a closed file has no page pinned for ever.
PinsAreHandles == \A p \in PageNos : pool.pins[p] = Cardinality(Pinning(p))

\* A page that was changed is not left to the buffer manager as clean: while
\* its last change was not unpinned dirty, somebody has it pinned.
NoChangeLost == \A p \in pool.unsaved : pool.pins[p] > 0

\* The header describes the chain: from firstPage it visits every data page
\* once, pageCnt pages in all, and ends in lastPage.
ChainSound ==
    LET path == PathFrom(header.firstPage)
    IN  /\ Len(path) = header.pageCnt
        /\ path[Len(path)] = header.lastPage
        /\ {path[i] : i \in DOMAIN path} = DOMAIN pages

\* getRecCnt: "number of records in file", whoever inserted and deleted them.
Rids == {x \in (DOMAIN pages) \X SlotNos : Holds(pages[x[1]], x[2])}

RecCntCorrect == header.recCnt = Cardinality(Rids)

\* A scan that says FILEEOF has returned every matching record that was in the
\* file when it was started and was not deleted, however other objects moved
\* pages and records around it, after a return to its mark, and if it is run
\* again after endScan.  Left out is a scan run again that finds the first page
\* empty: it says FILEEOF without a look at the pages behind (and stays there).
ScanComplete ==
    [][ \A s \in Scanners :
            /\ status' = "FILEEOF"
            /\ scanNext(s) \/ (scanAgain(s) /\ handle'[s].curPage # Null)
            => todo[s] = {} ]_vars

\* Seen along the chain, the file is a RecordMap: a record has one RID from
\* its insertion to its deletion and only a deletion takes it away.
RecordsOnChain ==
    LET path == PathFrom(header.firstPage)
        on   == {path[i] : i \in DOMAIN path}
    IN  [x \in {y \in Rids : y[1] \in on} |-> pages[x[1]].slots[x[2] + 1]]

Map == INSTANCE RecordMap WITH RIDs <- DataPages \X SlotNos, recs <- RecordsOnChain

ImplementsRecordMap == Map!Spec
=============================================================================
