# Minirel: models, checks and proofs

Minirel is a single-user relational database in C++: a buffer manager over unix
files, heap files with scans over the buffer manager, two catalogs kept in heap
files, and relational operators over heap files. This directory holds TLA+
modules that model it, TLC configurations that check them on small instances,
and proofs checked by TLAPS.

## The system

| Part | Code | State | Operations |
|---|---|---|---|
| File layer | `stage6/db.C`, `db.h` | header page and free list of every unix file; table of open files with open counts | createFile, destroyFile, openFile, closeFile, allocatePage, disposePage, readPage, writePage |
| Buffer manager | `stage6/buf.C`, `buf.h`, `bufHash.C` | frames, descriptors (page, pin count, dirty, valid, reference bit), hash table, clock hand | readPage, unPinPage, allocPage, disposePage, flushFile |
| Buffer manager, part3 | `part3/buf.C` | the same | the same, with the team's own clock |
| Slotted page | `stage6/page.C` | data area, slot array, slotCnt, freePtr, freeSpace | insertRecord, deleteRecord, getRecord, firstRecord, nextRecord |
| Heap file | `stage6/heapfile.C` | header page (first, last, page and record counts), chain of data pages; in every object a pinned page, a current record, dirty flags, a mark | createHeapFile, open, close, getRecord, startScan, scanNext, endScan, markScan, resetScan, deleteRecord, markDirty, insertRecord |
| Catalogs | `stage6/catalog.C`, `create.C`, `destroy.C` | relcat and attrcat, heap files | getInfo, addInfo, removeInfo, getRelInfo, createRel, destroyRel, dropRelation |
| Operators | `stage6/insert.C`, `delete.C`, `select.C`, `join.C` | none of their own | QU_Insert, QU_Delete, QU_Select, QU_Join |
| Sorting | `stage6/sort.C` | runs in temporary heap files | next, setMark, gotoMark |
| Hash table for joins, partitioning | `stage6/joinHT.C`, `partition.C` | | not called by the program |
| Heap file of stage 4 | `Stage4/heapfile.C` | as the heap file | the same; opening an inserter, insertRecord, scanNext and getRecord differ |
| Parser | `stage6/parser/parse.y`, `scan.l`, `scanhelp.C`, `nodes.C`, first half of `interp.C` | a static pool of 100 nodes, one of 5000 characters, the parse tree | new_query, one constructor per node, rewriting of aliases and of INSERT lists, translation of the tree into a call |
| Rest of the front end | `minirel.C`, `load.C`, `print.C`, `help.C`, `quit.C` | | statements |

How they interact. A query opens HeapFileScan and InsertFileScan objects; each
pins the header page and one data page of its file through the one `bufMgr`,
and keeps raw pointers into the pool until it unpins them. The buffer manager
reads, writes, allocates and disposes of pages of the `File` objects, which
`db` shares between objects that have the same file open. When the last of them
closes the file, `File::close` asks the buffer manager to flush it.

What is hard. The program is single-threaded and takes one statement at a time,
so there are no threads and no messages: the concurrency is between the objects
a query holds at the same time. They interleave their calls freely, share pages,
pins, dirty bits and counts, and change pages and chains under each other's
positions. A frame that is reused, a pin that is taken or a dirty bit that is
lost by one of them shows up in another one, many calls later. The other source
of trouble is failure in the middle of a call: there is no log, operations make
several writes or several calls, and error returns leave what was done. A full
pool and full pages are the boundary cases.

The hazards, each at its line, are in `PROJECT.json`, with the properties that
cover them or the reason none does.

What makes each part correct:

- File layer: the free list loses no page and names none that is in use,
  whichever write a failure or crash stops at; open counts are the numbers of
  users, and no file is destroyed under one.
- Buffer manager: a pinned page stays in its frame; pins are the numbers of
  holders; hash table and descriptors agree; no change is dropped without a
  write; a full pool is reported only if it is full; flushFile says OK only if
  it flushed. Together: clients cannot tell the pool from the disk.
- Slotted page: space is accounted for to the byte, records tile the data area,
  and a record keeps its RID and bytes while others are moved.
- Heap file: the chain runs from firstPage to lastPage through pageCnt pages;
  recCnt is exact; each object pins what it points to, once; a changed page is
  unpinned dirty by somebody; a scan returns what was there when it started.
- Parser: what is executed is what was typed, with every qualifier resolved to
  the relation it stands for, or the statement is refused for a reason; what one
  statement took from the pools is free for the next, also after an error.
- Operators: each statement does what the relational algebra says of it, whatever
  its scans meet, and ends.
- Catalogs: lookup keys are keys, attributes have a relation and tile its
  tuples, and a relation that CREATE made stays whole until it is destroyed.

## The modules

| Module | Models | Checked or proved against |
|---|---|---|
| `PagePool` | what a client of a buffer manager may rely on: a page read is the page last written, a pinned page does not change under its holder | |
| `BufMgr` | `stage6/buf.C`, `buf.h`, `bufHash.C` | refines `PagePool` (proved) |
| `BufMgrProofs` | | proofs about `BufMgr` |
| `Part3BufMgr` | `part3/buf.C`, where it differs; extends `BufMgr` | refines `PagePool` (proved) |
| `Part3BufMgrProofs` | | proofs about `Part3BufMgr` |
| `RecordMap` | RIDs and the records they name | |
| `SlottedPage` | `stage6/page.C`, byte by byte | refines `RecordMap` (proved) |
| `SlottedPageProofs` | | proofs about `SlottedPage` |
| `HeapFile` | `stage6/heapfile.C`: any number of objects on one file | refines `RecordMap` (proved) |
| `HeapFileProofs` | | proofs about `HeapFile` |
| `Stage4HeapFile` | `Stage4/heapfile.C`, where it differs; extends `HeapFile` | does not refine `RecordMap` |
| `DBFile` | `stage6/db.C`: File objects, the chains of the table of open files, header pages and free lists | |
| `DBFileProofs` | | proofs about `DBFile` |
| `Catalog` | `stage6/catalog.C`, `create.C`, `destroy.C`, `load.C`, `insert.C`, `delete.C`, `select.C`, statements of `parser/interp.C` | |
| `CatalogProofs` | | proofs about `Catalog` |
| `Query` | `stage6/insert.C`, `delete.C`, `select.C`, `join.C` record by record, `matchRec` of `heapfile.C`, the checks of `parser/interp.C` | definitions of selection, projection, join |
| `QueryProofs` | | proofs about `Query` |
| `Parser` | `parser/parse.y`, `nodes.C`, `scanhelp.C`, the `mk_` functions and the calls of `interp.C` | the statements as typed |
| `ParserProofs` | | proofs about `Parser` |
| `MC*` | symmetry and sets of values for TLC | |

How state and actions correspond to the code:

- `BufMgr`: `bufTable`, `bufPool`, `hashTable`, `clockHand` are the fields of
  that name; the chains of the hash table are a function. `disk` and `inUse` are
  the files below, `held` the page pointers above. An action is a method call;
  the loop of `allocBuf` is the operators `Stops`, `FirstStop`, `NoVictim` and
  `Swept` (how far the hand goes and what it clears), used by `readPage` and
  `allocPage`. `Write`, `Release` and `LateUnPin` are the callers. Status codes
  are the code's. Clients keep to what the callers in stage6 do: they read pages
  that their file has and do not dispose of its first one.
- `Part3BufMgr`: the same state; `Clock` is a different loop, which treats
  invalid frames and the order of its checks differently.
- `SlottedPage`: `data`, `slot`, `slotCnt`, `freePtr`, `freeSpace` are the
  fields; `slotCnt` counts down from 0 in the code and is its absolute value
  here. Slot and page sizes are constants.
- `HeapFile`: `header` and `pages` are the file; `pool` has the pin counts and
  the pages that were changed and not yet unpinned dirty; `handle[h]` has the
  fields of one object (`curPage`, `curPageNo`, `curRec`, dirty flags, mark).
  Data pages and the pool are used through what the modules above show of them.
  `todo` is a history variable: what a scan still owes.
- `Stage4HeapFile`: the state of `HeapFile`. `InsertFileScanOpenFirst`,
  `insertRecordHere` (with `AppendPage` for a full page), `scanFromStart` and
  `getRecordOrStay` replace the actions of stage6; the others are used as they
  are.
- `DBFile`: `object` is the File objects by address, `ht` the chains of
  `OpenFileHashTbl`, `client` the pointers that callers have. The second write of
  `create`, `allocatePage` and `disposePage` is a step of its own (`pending`), which
  may succeed or fail, or the process dies before it.
- `Parser`: `nodepool` is the array of that name up to `nodeptr`, `charpool` the
  strings with `charptr` characters, `stack` the semantic values of the generated
  parser; pointers are places in the pools. A statement is a record of `Statement`,
  which is the grammar without its tokens: lists are not empty, a name may be left
  out where a production has an empty alternative. `Script` turns it into the moves
  the parser makes for it, in their order: the strings it scans and the productions
  it reduces. An action is one move, or `SyntaxError`, which may come at any point
  of a statement, or `interp`, which makes the call that executes the tree (`call`).
  The checks of `interp` against the catalogs are in `Query` and `Catalog`.
  `Field` is the copy of a name into the 32 bytes of an `attrInfo`: what the field
  holds of a longer one (`Garbled`) is no name of the catalogs, which createRel keeps
  shorter. `ValueOf` is `value_of`: an int comes back as it was, a float up to the six
  decimals of "%f" (`SixDecimals`). A string goes into `char value[255]` (`MaxValue`)
  whatever its length; one that does not fit (`LongerThan`) may end the program
  (`OVERRUN`), or do no harm as long as it stays below what the compiler guards
  (`MaxFrame`; 265 in the repository's interp.o, where the word of the stack
  protector, whose lowest byte is zero, lies 264 bytes behind the array's start).
- `Catalog`: a statement is one action, composed of operators that stand for
  the calls the code makes, in their order, each with its early returns: what
  was done before an error return stays. A heap file is the set of the layouts
  of its tuples, which is what reading it through a catalog depends on. `made`
  is a history variable.
- `Query`: `rel` is the records of each relation in scan order with the empty
  slots, `stmt` the statement with its arguments, `pos` the positions of its
  outer and inner scan. `QU_Insert` is one step, which fails for a wrong number of
  values or on a full disk. Begin actions are the interpreter and the QU function up
  to its loop; then a step is one `scanNext` and what is done with its record.
  `Finish` prints and destroys a temporary result. A field is bits; `Worth` says
  what they mean as an int and as a float, `diff` is the subtraction of
  `matchRec`. `before` is a history variable.

## The runs

| Run | What it asks | Bounds |
|---|---|---|
| `bufmgr` | hash table, pins, dirty bits, flush, full pool, second chance, refinement of `PagePool`, through every order of calls | 2 frames, a file of 3 pages, 3 clients |
| `part3_bufmgr` | refinement of `PagePool` by the part3 code, including reads that fail and flushes of another file | 2 frames, 3 files of 1 page, 3 clients |
| `slotted_page` | space, tiling, RIDs and bytes | 12 bytes, records of 1, 2 and 3 bytes, 2 bytes to a slot |
| `heap_file` | one inserter and two deleting scans, interleaved | 2 records to a page, 2 data pages, 3 records |
| `heap_file_chain` | marks, jumps between pages, refinement of `RecordMap` | 1 record to a page, 3 data pages, a scan, a reader, an inserter |
| `db_file` | open counts, the table of open files, and the free list at every write | 2 files of 3 pages with one hash value, 2 clients, 2 File objects |
| `catalog` | statements over two relations, failing wherever the code can fail | 2 relations of up to 2 attributes, 5 attributes, one object left open per file |
| `query` | results of statements record by record, failing or not, and that they end | two relations, numbers of 4 bits, up to 2 records inserted and 3 on the disk, two literals, all operators, every pair of attributes |
| `parser` | what is executed for what was typed; when the program stops | the sizes of the code (100 nodes, 5000 characters, 40 attributes, names of 32 bytes, values of 255); some 700 statements, below |
| `catalog_stale_rows`, `query_into_itself`, `stage4_heap_file` | disagreements between code and documentation, below | as `catalog`, `query`, and `heap_file_chain` without marks |

Why the bounds are enough for the cases that matter. With two frames the third page
replaces one of the first two, with one frame pinned and with both; with three
clients, all frames are pinned while one more asks. The three files of
`part3_bufmgr` are there for flushFile, which `Part3BufMgr` takes from `BufMgr`, to
leave the frames of another file alone. Three records of different lengths on a page
that takes four small ones give every relation of offset order and slot order, reuse
of slots in the middle and the collapse of the slot array. Three data pages have a
first, a last and one in between. Three pages of a file give free lists of length 0
to 2 (the first page is never freed) and both ways to allocate; two files in one
chain of the table of open files are closed from its head and from behind it. Two
attributes give an offset that is not zero, a relation that was cut short after its
first one, and tuples of one width with different layouts from those of two
attributes; two relations allow a query from one into the other. In `query`, two
outer and two inner records give four pairs, one more than the disk takes; -8, 1 and
3 in four bits give comparisons that overflow and that do not; one insert list has
its names out of order, one has a name and a type that are not the relation's. The
statements of `parser` are every SELECT of one or two attributes over six lists of
tables (one, two, with and without aliases, aliases that are names of the other
table, a table twice) and four qualifiers, with no condition, a literal or a join;
INSERTs with lists of equal and unequal lengths; strings of 254, 255, 256 and 265
characters and names of 31 and 32 wherever they are copied, and a float (1e-7) that
is zero in six decimals; CREATEs with lengths in and out of range; every other
statement; and statements one below and one at each limit of the pools and arrays.
As `new_query` empties the pools, the next statement meets only what the last one
left, and any may be the last one. `MaxOpen` = 1 suffices because destroyFile asks
whether a file is open and not how often.

Symmetry is used in runs of safety properties only. Deadlock is checked in every
run but those of `Query`, where the program may exit (the assertion of
join.C:159), and of `Parser`, where it quits, exits or is ended by an overrun.

Fairness is assumed in `Query` only, and only of the steps that carry a statement
on: the program has one thread, nothing in a statement waits for anything, and
the thread runs as long as the process does. Nobody has to enter a statement.
`StatementEnds` shows that no scan stays where it is; that a query into its own
relation ends is due to the full disk (`Capacity`), which the code relies on
too. In the other modules every step is a whole call, nothing is retried or
waited for, and no liveness is claimed. The loops inside calls (the clock,
chains) are part of one step; that the clock ends is part of the definition of
`FirstStop` and `NoVictim`, which bound it as the code does.

## What the runs found

- `catalog_stale_rows`: `destroyRel` forgets a relation before it knows that its
  file can be destroyed. A failed LOAD leaves the file open, DESTROY then drops
  the catalog entries and fails, and after a CREATE of the name with other
  attributes (which fails too, but lists the relation) the old tuples are read
  with the new layout. `MadeIsWhole` shows that relations whose CREATE said OK
  are not affected.
- `query_into_itself`: a SELECT may name as its result the relation it reads. It
  then selects what it inserts, until the disk is full (select.C:183).

- `stage4_heap_file`: an `InsertFileScan` that is opened again on a file of several
  pages stands on the first one. If it is full, its link is overwritten with
  the new page's number (Stage4/heapfile.C:612) and the pages behind it are lost;
  the counts in the header stay as if they were there. The driver opens a second
  inserter only for a record that is refused (testfile.C:659). `TypeOK` and
  `RecCntCorrect` hold of `SpecStage4` with these constants; `PinsAreHandles` does not
  (a record that fits on no page leaves the new page pinned twice, line 636), nor
  does `NoChangeLost` (line 618 unpins the page it has just linked with a flag that
  may be false). In stage6 the three are right.

In stage6, the check for records that are too long leaves out the slot: a record
within that margin passes it, and every attempt links an empty page to the file
before it is refused (heapfile.C:513; `NeverFits` in `MCHeapFile`).

From `Parser`: `value_of` prints a value into an array of 255 bytes (interp.C:958). An
INSERT refuses strings of more than 255 characters (`mk_ins_attrs`), so one of 255
characters gets through and is one byte too long, its end; the string of a condition,
in a SELECT or a DELETE, is not looked at before. In the repository's interp.o nothing
is hit up to 264 characters, and more end the program; how many do is up to the
compiler. A float comes back with six decimals, so 0.0000001 is inserted and compared
as zero (interp.C:955). Names of attributes and relations may have 49 characters and
are copied into 32 bytes (interp.C:143): one of 32 or more is not found, or refused,
as something else than what was typed. `QueryCall` and `UpdateCall` state floats and
names with these limits, and `StopsForCause` which statements an overrun may end.

Also from `Parser`: 100 nodes are fewer than 40 attributes need. An INSERT of 25
attributes or a CREATE of 34 of type char(n) ends the program (nodes.C:68), where
the interpreter takes 39. Statements about indexes reach `assert(0)` (interp.C:644).
char(-23) makes an int and char(-26) a real (parse.y:455). Every string of a
statement takes characters, the identifiers of a SELECT too: one of fifty qualified
attributes of 49 characters each side of the point ends the program for want of
characters (scanhelp.C:18), one of 49 such attributes for want of nodes. Both are
among the statements of the run, as `CharsOf`, on which `StopsForCause` rests, has
to count the strings of every kind of statement. The qualifier of the attribute in a
DELETE is ignored (interp.C:523). A table that is listed twice under two aliases is
one relation after the rewriting: which alias an attribute had is forgotten
(nodes.C:478).

Modelled, and left to the conditions of `SelectExact`, `JoinExact`, `DeleteExact`
and `InsertByName`: the subtraction of `matchRec` overflows (heapfile.C:439);
INSERT stores and DELETE compares values with the type of the literal instead of
the attribute's (insert.C:94, delete.C:52), while SELECT converts; INSERT takes a
value by its place if its name is not there (insert.C:70); the check of join.C:34
never finds a difference; the sort-merge and hash joins return at once.

## What is proved

TLAPS checks the following for every number of frames, files, pages, clients,
objects and records and every size of page, slot and record, from the named
assumptions on the constants only (finitely many clients and objects, positive
sizes, sentinels that are not values, memory for as many File objects as there are
clients, attributes with a name and a positive length, statements that the grammar
allows, arrays with sizes that are natural numbers). Every inductive invariant was
checked by TLC on the runs above before it was proved, but that of `Parser`: it says
that there are moves and places, over which TLC cannot quantify.

`BufMgrProofs`: `Invariance` (`Spec => []IInv`), and from it `TypeCorrect`,
`HashedIffInPoolAlways`, `PinsAreHoldersAlways`, `CleanIsOnDiskAlways`. `IInv` is
the conjunction of the checked invariants and two facts that the steps need:
`InvalidIsClear` (the clock takes an invalid frame without looking at its pin count,
so it must be unpinned, nameless and clean for the pins to stay right) and
`InUseOnDisk` (a page that was handed out can be read, so that readPage does not
fail). The argument has a lemma for the clock (`HandInFrames`, `SweptFrames`,
`VictimFree`: the frame it stops at has no holder), one for writing back
(`WriteBackPage`, `WriteBackType`), one for putting a page into a frame
(`InstallStep`, shared by readPage, allocPage and the calls of part3), and one for
each action. The action properties follow from `IInv` by looking at the steps that
can make their left side true: `ExceededOnlyIfAllPinnedAlways` (after one turn of
the clock every reference bit is off, so a second turn without a victim has met
pinned frames only), `SecondChanceAlways`, `FlushIsCompleteAlways`.
`ImplementsPagePoolAlways` is the refinement: the abstract store is the frame of a
page where it is cached and the disk where it is not, and each call changes it as
`PagePool` says or not at all; `CleanIsOnDisk` is what makes a replacement
invisible.

`Part3BufMgrProofs`: `Invariance3` (`Spec3 => []IInv`) and
`Part3ImplementsPagePool`. The invariant is that of stage6, and so are the lemmas
about pages that come and go; new are the other clock (`ClockVictimFree`), the
victim that is cleared at once (`TakenEffect`), the read that fails and leaves its
frame cleared (`EvictedStep`, which clients do not see) and unPinPage: for a pin
that is held it does what stage6 does (`ReleaseAsStage6`), for one that is not it
does nothing.

`DBFileProofs`: `FileInvAlways`, and from it `TypeCorrect`, `HeaderSoundAlways`,
`OpenCntIsClientsAlways`. `FileInv` has two independent halves. `TableInv`: names
on a chain are distinct and hash to it, an address is in the table under one
name, and its open count is the number of pointers to it; a new File object finds a
free address because each one in use has a client. `HeaderInv`: in every file
the free list and the pages in use divide the allocated ones, the first page is
in use, and the write in progress (`WriteSound`) is the one that turns the header
into what the page already written expects. Until it is made, the page that
allocatePage takes or disposePage gives back is still on its old side, so a
failed write or a crash needs no argument of its own.

`HeapFileProofs`: `IInvAlways`, and from it `TypeCorrect`, `PinsAreHandlesAlways`,
`NoChangeLostAlways`, `ChainSoundAlways`, `RecCntCorrectAlways`; then
`ImplementsRecordMapAlways` and `ScanCompleteAlways`. Pages are only appended, so
their numbers follow the chain (`FileInv`), and `PathFrom`, which the code walks
and the model computes by recursion, is an interval of numbers: `PathOfChain`
is proved by the least counterexample of a well-founded order. `HandleInv` says
where on the chain an object stands (an open inserter at the end, which is what
stage 4 lacks), `PoolInv` that pins and unsaved pages are exactly the objects'.
`RidsStep` says for each call which RIDs it adds or takes away, from which both the
count and the refinement follow. `ScanInv` is the invariant behind scans:
whatever a scan owes is on a page and slot ahead of it, and the same for its
mark; inserting, deleting and the collapse of the slot array keep it.

`SlottedPageProofs`: `Invariance`, and from it `TypeCorrect`,
`SpaceAccountedAlways`, `RecordsTileAlways`, `EmptyIsFreshAlways`, and `RecordsKept`:
`Spec => ImplementsRecordMap`. `IInv` adds to the checked invariants `LastInUse`:
the last slot is never an empty one. Without it `EmptyIsFresh` is not inductive,
as a page could be left with empty slots only. `InsertEffect` and `DeleteEffect`
state what each call does to slots and bytes; deleting moves every record behind
the deleted one by its length, and `RecordsTile` is what makes the moved bytes
those of the records that were there.

`CatalogProofs`: `IInvAlways`, and from it `TypeCorrect`, `KeysUniqueAlways`,
`AttrcatSoundAlways`, `MadeIsWholeAlways`, `TmpIsGoneAlways`. `IInv` says of each
relation that its entries are a prefix of the list it was made from, in its order
and with the offsets that follow from it (`EntriesSound`), that the attributes of a
relation of the user come from a CREATE that took them (`UsersAttrs`), and that
there are no tuples without a file. Statements compose calls that may fail half
way, so each call has a lemma that says what it leaves whatever it returns
(`CreateEffect`, `DestroyEffect`, `RowsEffect`, `SelectEffect`) and the lemma of a
statement follows its calls. That names are short is part of the invariant because
of `TmpIsGone`: a query's result is made from attributes that are in the catalog, and
if one of them could be refused, the result would be left half made. Offsets are a
recursive function (`OffsetAfter`): `OffsetsExist`, `OffsetsAgree` and `OffsetStep`
are proved by a least counterexample, as induction is out of the provers' reach.

`QueryProofs`: `Invariance`, and from it `TypeCorrect`, `SelectExactAlways`,
`JoinExactAlways`, `DeleteExactAlways`, `InsertByNameAlways`. The checked properties
speak of a statement's end; `IInv` says what holds on the way. A scan has met the
records up to its slot that match (`Hits`), a join the pairs up to its two slots
(`Met`); what it made is one record from each of them beside what was there
(`Grown`, a count for each value, as results have duplicates), and a DELETE leaves
what was there without them (`Erased`). `HitsNext`, `MetOuter`, `MetInner` and
`EraseNext` are the steps: a scan that goes to the first record ahead adds it and no
other, an outer scan goes on only when the inner one has nothing ahead, and trimming
the end of a relation takes nothing away that a scan has ahead (`AheadErased`). At
the end nothing is ahead, so what was met is what was to be found (`HitsAll`).
`AskedSatisfies` and `FlipIsConverse` connect filters with the statement as written.
`InsertByName` needs that a list with a value for each attribute has no other
(`OneValueEach`): as many values as attributes, so the map from attributes to values
is onto. Besides those named above, the assumptions are those on the sentinels, that
attributes of a relation have different names (`KeysUnique` of `Catalog`), and what
the parser makes sure of: literals are of a type and have bits.

`ParserProofs`: `Invariance`, and from it `TypeCorrect`, `StopsForCauseAlways`,
`QueryCallAlways`, `UpdateCallAlways`, for statements with lists of any length. The
checked properties speak of the end of a statement; `IInv` says what holds while the
parser reads it. What it has made so far is a *place* (`Place`: the pools, linked as
`Linked` says, and the stack), and a move leads from a place to the next as long as
there is room (`Step`). `Runs(c, p, d)` says that the moves p lead from c to d and
that the pools only grow on the way; `ReadStatement` that the script of a statement
leads from the empty place to one where the pools hold it (`IsRead`): as many nodes
as `NodesOf` says, as many characters as `CharsOf` says, and its tree. Up to the
last production, `IInv` is that the moves left lead to such a place (`MovesLeft`).
It is needed in this form, as it speaks of the nodes a statement *will* take: when a
pool is full, the next place is one with more than there is room for, and the
statement takes no less (`NodesEnough`), so only a statement that is too large stops
the program. Lists are read from their last element on, and `ReadList` is proved for
any kind of elements, as a set of triples <<place, pointer, element>> (an operator
cannot be a parameter of a theorem); the loop over their cells is a least
counterexample. The functions over lists (`Elements`, `Total`, the flattening of
moves) are recursive, and that they exist and follow their equations is proved in
the same way.

The rewriting of a query changes no node but the qualifiers of its attributes
(`SameShape`). `QueryReduced` says that it ends with each qualifier a relation that
the one typed means (`IsMeant`), or with none and a reason for it. An attribute is
replaced once: those of the list and of the condition are different nodes, because a
list is read in the order of its nodes and the condition after it, and two
replacements of one node would resolve a name as if it were an alias.
`QueryAnswered`, `InsertAnswered`, `DeleteAnswered` and `CreateAnswered` follow the
interpreter from such a tree to its call. A refusal is where the checks of the
interpreter meet the statement: attributes up to MAXATTRS are compared with the
relation of the first or with those of the condition, so an attribute that is
refused shows that it has another relation than the sources have, or that a
qualifier means more than one (`OtherRelation`). What an INSERT, a DELETE or a
condition passes on is the literal with its float rounded (`Passed`, `PairsMade`);
that the values copied for a call are literals of the statement is `CopiesLiterals`,
from which an overrun has its cause (`Overruns`). The theorems are about calls that
are reached: of a string too long for its array they say that it may end the program
or be passed on, and nothing else. The assumptions are that sizes are natural
numbers with room for an attribute, that the compiler guards nothing before the end
of the array of values, that what a name without room becomes is no name, that a
string has a length and is not the sign for one that is left out, and that the
statements typed are statements of the grammar.

Only model-checked: `Stage4HeapFile`, whose run is a counterexample, with the other
two counterexamples, and `StatementEnds`, which needs fairness and is out of the
prover's reach. Every invariant and action property that a passing run checks is
stated by a theorem.

## What is not modelled

- Sorting (`sort.C`), the hash table and partitioning (`joinHT.C`, `partition.C`).
  Sorting cannot succeed as written: it opens a temporary file by a class that
  does not create files (sort.C:242). Nothing calls it, nor the hash table or
  partitioning.
- The scanner's automaton and the tables of the generated parser: a statement is
  given as the moves made for it. Length arguments of char that are quoted strings
  (a pointer is then read as a number, parse.y:455). What yyrestart drops after a
  syntax error, as statements are typed one at a time.
- `db.C`, `buf.C` and `page.C` of `Stage4` and `db.C` of `part3`, which are those of
  stage6 up to output and comments.
- `File::close` together with the flush it asks for, whose status it ignores
  (db.C:224). `PinsAreHandles` says that a heap file that is closed has no page
  pinned, and `FlushIsComplete` that flushFile is then complete.
- Strings in `Query`: strncmp has no conversion and no overflow. In `HeapFile` a
  filter is a set of records, in `Catalog` any or none.
- Infinities and NaNs; literals with a fraction.
- The chains of the buffer manager's hash table, statistics, printing, output.
- What is written behind an array besides what `Parser` says of it: a string of
  INSERT or of a condition behind `value`, a long name behind the last `attrInfo` of
  its function (`attr2`), the zero that `lower` puts one byte behind the array of
  `get_id` for an identifier that is refused anyway (scanhelp.C:66).
- Parameters that startScan refuses (heapfile.C:221-228), after which nothing has
  changed: ints and floats, which are the values of `Query`, have one size, so even
  DELETE, which passes the literal's type with the attribute's length (delete.C:52),
  is not refused.
- The last moments of the program: `exit` runs the destructor of the table of open
  files, which closes files that are still open (db.C:25) and asks for their flush;
  after `quit` the buffer manager it asks has been deleted (quit.C:32). `Crash` and
  `Stop` end before that.
- I/O errors other than those of the second write of a call in `DBFile`, the failed
  read in `Part3BufMgr` and the full disk in `Query`; memory that was freed or never
  set. The failed read of stage6 (buf.C:155-156), after which the frame keeps the
  descriptor of the page it lost while the hash table has forgotten it, is not among
  the steps of `BufMgr`: its clients read pages that their file has.
- A pool that is full is a case of `BufMgr` and not of `HeapFile`: a statement
  opens at most five objects with two pins each over 100 frames.
- Statements that name the catalogs as if they were relations of the user.
- The auction data set in `p2`, a separate exercise.

## Plan

A module that composes File and BufMgr: `File::close` with its flush. After it,
`Catalog` and `Query` over one disk whose insertions may fail at any record, for the
statements that end half way (join.C:159).
