--------------------------- MODULE Stage4HeapFile ---------------------------
(***************************************************************************)
(* The heap file of Stage4 (Stage4/heapfile.C), the team's own: the header *)
(* page, the chain and the handles are those of stage6, so this module     *)
(* extends HeapFile and replaces what differs.  An InsertFileScan stays on *)
(* the first page; a full page is left with the flag as it stands; the new *)
(* page is read again after allocPage has pinned it; a scan that starts    *)
(* again returns the first record without a look back; and getRecord keeps *)
(* its place if there is no such record.                                   *)
(***************************************************************************)
EXTENDS HeapFile

\* The constructor leaves the object where HeapFile::HeapFile has put it.
InsertFileScanOpenFirst(h) ==
    /\ h \in Inserters
    /\ Open \cap Inserters = {}
    /\ Constructed(h, header.firstPage)

\* The full page p is linked to the new page q, whatever p was linked to
\* before.  A record that q does not take leaves it pinned twice; otherwise
\* the second pin is given back and q is the end of the chain.
AppendPage(h, r, len) ==
    LET p     == handle[h].curPage
        q     == NextPageNo
        fits  == Accepts(EmptyPage, len)
        left  == unPin(touch(pool, {p, q, HdrPageNo}), p, handle[h].curDirty)
        twice == pin(pin(left, q), q)
    IN  /\ ~Accepts(pages[p], len)
        /\ q <= MaxPageNo
        /\ pages' = [Linked(p, q) EXCEPT ![q] = IF fits THEN PageInsert(@, r) ELSE @]
        /\ header' = [header EXCEPT !.lastPage = q, !.pageCnt = @ + 1,
                                    !.recCnt = IF fits THEN @ + 1 ELSE @]
        /\ pool' = IF fits THEN touch(unPin(twice, q, handle[h].curDirty), {q}) ELSE twice
        /\ handle' = [handle EXCEPT ![h].hdrDirty = TRUE,
                                    ![h].curDirty = @ \/ fits,
                                    ![h].curPage = q, ![h].curPageNo = q,
                                    ![h].curRec = IF fits THEN 0 ELSE @]
        /\ status' = IF fits THEN "OK" ELSE "NOSPACE"

\* curPage is never NULL here: only the destructor gives it up.
insertRecordHere(h, r, len) ==
    /\ handle[h].open
    /\ UNCHANGED todo
    /\ \/ /\ len > DataSize
          /\ status' = "INVALIDRECLEN"
          /\ UNCHANGED <<header, pages, pool, handle>>
       \/ /\ len <= DataSize
          /\ InsertHere(h, r, len) \/ AppendPage(h, r, len)

\* scanNext without a page: an empty first page is kept, with the record the
\* scan stood on; otherwise the walk begins before its first record.
scanFromStart(s) ==
    LET o    == [handle[s] EXCEPT !.curPage = header.firstPage,
                                  !.curPageNo = header.firstPage, !.curDirty = FALSE]
        b    == pin(pool, header.firstPage)
        none == SlotsInUse(pages[header.firstPage]) = {}
    IN  /\ handle[s].open /\ handle[s].curPage = Null
        /\ \/ /\ none
              /\ handle' = [handle EXCEPT ![s] = [o EXCEPT !.current = NoRecord]]
              /\ pool' = b
              /\ status' = "FILEEOF"
              /\ UNCHANGED todo
           \/ ~none /\ Walk(s, b, [o EXCEPT !.curRec = NullRID])
        /\ UNCHANGED <<header, pages>>

getRecordOrStay(h, p, n) ==
    LET o == handle[h]
    IN  /\ o.open /\ p \in DOMAIN pages
        /\ handle' = [handle EXCEPT ![h] =
                MovedTo(o, p, IF Holds(pages[p], n) THEN n ELSE o.curRec)]
        /\ pool' = Moved(pool, o, p)
        /\ status' = IF Holds(pages[p], n) THEN "OK" ELSE "INVALIDSLOTNO"
        /\ UNCHANGED <<header, pages, todo>>

NextStage4 ==
    \/ \E h \in Readers : HeapFileOpen(h)
    \/ \E h \in Inserters : InsertFileScanOpenFirst(h)
    \/ \E s \in Scanners, f \in Filters : HeapFileScanOpen(s, f)
    \/ \E h \in Handles : Close(h)
    \/ \E h \in Inserters, r \in Records, len \in Lengths :
            ~Stored(r) /\ insertRecordHere(h, r, len)
    \/ \E s \in Scanners : scanNext(s) \/ scanFromStart(s) \/ endScan(s)
    \/ \E s \in Markers : markScan(s) \/ resetScan(s) \/ markDirty(s)
    \/ \E s \in Scanners : HasCurrent(s) /\ deleteRecord(s)
    \/ \E h \in Readers, p \in DataPages, n \in SlotNos : getRecordOrStay(h, p, n)

SpecStage4 == Init /\ [][NextStage4]_vars
=============================================================================
