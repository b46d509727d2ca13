------------------------------- MODULE DBFile -------------------------------
(***************************************************************************)
(* The file layer of stage6 (db.C, db.h): File objects with their open     *)
(* counts, the hash table of open files that finds them by name, and in    *)
(* every unix file a header page with the head of a list of free pages,    *)
(* whose links are kept in the pages themselves.                           *)
(*                                                                         *)
(* create, allocatePage and disposePage make two writes and have no log.   *)
(* Each write is a step here, and instead of the second one the write may  *)
(* fail (the call returns UNIXERR) or the process may die.                 *)
(***************************************************************************)
EXTENDS Integers, FiniteSets, SequencesExt

CONSTANTS
    Names,      \* file names
    Clients,    \* holders of a File pointer
    Data,       \* contents a client may write
    Blank,      \* a page of zeros
    MaxPageNo,  \* bound: pages a file may grow to
    Addresses,  \* of File objects
    HashOf,     \* HashOf[f]: the chain of file name f
    NoFile,     \* no File object
    Absent,     \* no file of this name
    Headless,   \* a file whose header page was never written
    NoWrite

Pages == 1 .. MaxPageNo
None  == -1         \* nextFree or firstPage that names no page

Link(n) == [nextFree |-> n]
Contents == Data \cup {Blank} \cup {Link(n) : n \in Pages \cup {None}}

Header == [nextFree: Pages \cup {None}, firstPage: Pages \cup {None},
           numPages: 1 .. MaxPageNo + 1]

File == [name: Names, openCnt: Nat]

ASSUME MaxPageNoAssumption == MaxPageNo \in Nat \ {0}
ASSUME HashAssumption == DOMAIN HashOf = Names
\* There is memory for the File objects of all clients.
ASSUME AddressesAssumption ==
    /\ IsFiniteSet(Clients) /\ IsFiniteSet(Addresses)
    /\ Cardinality(Clients) <= Cardinality(Addresses)
ASSUME SentinelAssumption ==
    /\ NoFile \notin Addresses /\ NoFile \notin File
    /\ Absent \notin Header /\ Headless \notin Header /\ Absent # Headless

VARIABLES
    unix,       \* unix[f]: Absent, Headless, or the header page of file f
    page,       \* page[f][p]: content of page p of file f
    object,     \* object[o]: name and open count of the File object at o
    ht,         \* ht[i]: chain i of the table of open files, its head first
    client,     \* client[c]: the File pointer c has, or NoFile
    inUse,      \* inUse[f]: pages handed out and not taken back
    pending,    \* the second write of the call in progress, or NoWrite
    status

vars == <<unix, page, object, ht, client, inUse, pending, status>>

openFiles == <<object, ht>>

HasHeader(f) == unix[f] \notin {Absent, Headless}

Idle == pending = NoWrite

HasFile(c) == client[c] # NoFile

\* The name of the file client c has open.
FileOf(c) == object[client[c]].name

-----------------------------------------------------------------------------
(* OpenFileHashTbl: chains of names and their File objects.                *)

find(f) == {b \in Range(ht[HashOf[f]]) : b.fname = f}

insert(f, o) == [ht EXCEPT ![HashOf[f]] = <<[fname |-> f, file |-> o]>> \o @]

\* The first place of name f on a chain.
PlaceOf(chain, f) ==
    CHOOSE k \in DOMAIN chain :
        chain[k].fname = f /\ \A j \in DOMAIN chain : chain[j].fname = f => k <= j

\* Mutant: the head of the chain is set to what is behind the name.
UnlinkedFromHead(chain, f) == SubSeq(chain, PlaceOf(chain, f) + 1, Len(chain))

Unlinked(chain, f) == RemoveAt(chain, PlaceOf(chain, f))

erase(f) == [ht EXCEPT ![HashOf[f]] = Unlinked(@, f)]

-----------------------------------------------------------------------------
(* File objects, and DB, which finds or makes them.                        *)

New(f) == [name |-> f, openCnt |-> 0]

\* The unix file is opened with the first open only.
Opened(file) == [file EXCEPT !.openCnt = @ + 1]

openStatus(file) ==
    IF file.openCnt = 0 /\ unix[file.name] = Absent THEN "UNIXERR" ELSE "OK"

Closed(file) == [file EXCEPT !.openCnt = @ - 1]

\* File::create makes the file and then writes its header page.
create(f) ==
    IF unix[f] # Absent
    THEN status' = "FILEEXISTS" /\ UNCHANGED <<unix, page, inUse, pending>>
    ELSE /\ unix' = [unix EXCEPT ![f] = Headless]
         /\ page' = [page EXCEPT ![f] = [p \in Pages |-> Blank]]
         /\ inUse' = [inUse EXCEPT ![f] = {}]
         /\ pending' = [op |-> "create", file |-> f, page |-> None,
                        header |-> [nextFree |-> None, firstPage |-> None, numPages |-> 1]]
         /\ UNCHANGED status

destroy(f) ==
    IF unix[f] = Absent THEN status' = "UNIXERR" /\ UNCHANGED unix
    ELSE status' = "OK" /\ unix' = [unix EXCEPT ![f] = Absent]

createFile(f) ==
    /\ Idle
    /\ IF find(f) # {}
       THEN status' = "FILEEXISTS" /\ UNCHANGED <<unix, page, inUse, pending>>
       ELSE create(f)
    /\ UNCHANGED <<openFiles, client>>

destroyFile(f) ==
    /\ Idle
    /\ IF find(f) # {} THEN status' = "FILEOPEN" /\ UNCHANGED unix ELSE destroy(f)
    /\ UNCHANGED <<page, openFiles, client, inUse, pending>>

\* The File object the table has, or a new one that goes into the table.
openFile(c, f) ==
    /\ Idle /\ ~HasFile(c)
    /\ \/ \E b \in find(f) :
            /\ object' = [object EXCEPT ![b.file] = Opened(@)]
            /\ client' = [client EXCEPT ![c] = b.file]
            /\ status' = openStatus(object[b.file])
            /\ UNCHANGED ht
       \/ /\ find(f) = {}
          /\ status' = openStatus(New(f))
          /\ IF status' = "OK"
             THEN LET o == CHOOSE o \in Addresses : object[o] = NoFile
                  IN  /\ object' = [object EXCEPT ![o] = Opened(New(f))]
                      /\ ht' = insert(f, o)
                      /\ client' = [client EXCEPT ![c] = o]
             ELSE UNCHANGED <<openFiles, client>>
    /\ UNCHANGED <<unix, page, inUse, pending>>

\* With the last close the name leaves the table and the File object goes; it
\* stays if the table does not have its name.
closeFile(c) ==
    /\ Idle /\ HasFile(c)
    /\ LET o == client[c]
           f == FileOf(c)
           known == find(f) # {}
       IN  \/ /\ object[o].openCnt > 1
              /\ object' = [object EXCEPT ![o] = Closed(@)]
              /\ status' = "OK"
              /\ UNCHANGED ht
           \/ /\ object[o].openCnt = 1
              /\ object' = [object EXCEPT ![o] = IF known THEN NoFile ELSE Closed(@)]
              /\ ht' = IF known THEN erase(f) ELSE ht
              /\ status' = IF known THEN "OK" ELSE "BADFILEPTR"
    /\ client' = [client EXCEPT ![c] = NoFile]
    /\ UNCHANGED <<unix, page, inUse, pending>>

-----------------------------------------------------------------------------
(* File.                                                                   *)

\* Mutant: the first page is counted from 0.
HeaderFirstFromZero(f, p) ==
    IF unix[f].nextFree # None
    THEN [unix[f] EXCEPT !.nextFree = page[f][p].nextFree]
    ELSE [unix[f] EXCEPT !.numPages = @ + 1,
                         !.firstPage = IF @ = None THEN p - 1 ELSE @]

\* The header with page p taken off the free list, or with p as one page more.
HeaderTaking(f, p) ==
    IF unix[f].nextFree # None
    THEN [unix[f] EXCEPT !.nextFree = page[f][p].nextFree]
    ELSE [unix[f] EXCEPT !.numPages = @ + 1,
                         !.firstPage = IF @ = None THEN p ELSE @]

allocatePage(c) ==
    LET f == FileOf(c)
        p == IF unix[f].nextFree # None THEN unix[f].nextFree ELSE unix[f].numPages
    IN  /\ Idle /\ HasFile(c)
        /\ IF HasHeader(f)
           THEN /\ p \in Pages
                /\ page' = IF unix[f].nextFree # None THEN page
                           ELSE [page EXCEPT ![f][p] = Blank]
                /\ pending' = [op |-> "allocate", file |-> f, page |-> p,
                               header |-> HeaderTaking(f, p)]
                /\ UNCHANGED status
           ELSE status' = "UNIXERR" /\ UNCHANGED <<page, pending>>
        /\ UNCHANGED <<unix, openFiles, client, inUse>>

Refused(f, p) == p = unix[f].firstPage \/ p >= unix[f].numPages

\* Mutant: the list behind the page is dropped.
LinkedAlone(f) == Link(None)

LinkedTo(f) == Link(unix[f].nextFree)

disposePage(c, p) ==
    LET f == FileOf(c)
    IN  /\ Idle /\ HasFile(c)
        /\ IF ~HasHeader(f) \/ Refused(f, p)
           THEN /\ status' = IF HasHeader(f) THEN "BADPAGENO" ELSE "UNIXERR"
                /\ UNCHANGED <<page, pending>>
           ELSE /\ page' = [page EXCEPT ![f][p] = LinkedTo(f)]
                /\ pending' = [op |-> "dispose", file |-> f, page |-> p,
                               header |-> [unix[f] EXCEPT !.nextFree = p]]
                /\ UNCHANGED status
        /\ UNCHANGED <<unix, openFiles, client, inUse>>

writePage(c, p, v) ==
    /\ Idle /\ HasFile(c)
    /\ page' = [page EXCEPT ![FileOf(c)][p] = v]
    /\ status' = "OK"
    /\ UNCHANGED <<unix, openFiles, client, inUse, pending>>

\* intwrite(0, &header): the call takes effect.
HeaderWritten ==
    /\ ~Idle
    /\ unix' = [unix EXCEPT ![pending.file] = pending.header]
    /\ inUse' = [inUse EXCEPT ![pending.file] =
            CASE pending.op = "allocate" -> @ \cup {pending.page}
              [] pending.op = "dispose"  -> @ \ {pending.page}
              [] pending.op = "create"   -> @]
    /\ pending' = NoWrite
    /\ status' = "OK"
    /\ UNCHANGED <<page, openFiles, client>>

HeaderFails ==
    /\ ~Idle
    /\ pending' = NoWrite
    /\ status' = "UNIXERR"
    /\ UNCHANGED <<unix, page, openFiles, client, inUse>>

\* The process ends, in a call or between calls. The files stay.
Crash ==
    /\ pending' = NoWrite
    /\ object' = [o \in Addresses |-> NoFile]
    /\ ht' = [i \in Range(HashOf) |-> <<>>]
    /\ client' = [c \in Clients |-> NoFile]
    /\ status' = "OK"
    /\ UNCHANGED <<unix, page, inUse>>

-----------------------------------------------------------------------------
Init ==
    /\ unix = [f \in Names |-> Absent]
    /\ page = [f \in Names |-> [p \in Pages |-> Blank]]
    /\ object = [o \in Addresses |-> NoFile]
    /\ ht = [i \in Range(HashOf) |-> <<>>]
    /\ client = [c \in Clients |-> NoFile]
    /\ inUse = [f \in Names |-> {}]
    /\ pending = NoWrite
    /\ status = "OK"

\* Clients write and dispose of pages they were given.
Mine(c) == IF HasFile(c) THEN inUse[FileOf(c)] ELSE {}

Next ==
    \/ \E f \in Names : createFile(f) \/ destroyFile(f)
    \/ \E c \in Clients, f \in Names : openFile(c, f)
    \/ \E c \in Clients : closeFile(c) \/ allocatePage(c)
    \/ \E c \in Clients : \E p \in Mine(c) : disposePage(c, p)
    \/ \E c \in Clients : \E p \in Mine(c), v \in Data : writePage(c, p, v)
    \/ HeaderWritten
    \/ HeaderFails
    \/ Crash

Spec == Init /\ [][Next]_vars

-----------------------------------------------------------------------------
(* Properties.                                                             *)

TypeOK ==
    /\ unix \in [Names -> Header \cup {Absent, Headless}]
    /\ page \in [Names -> [Pages -> Contents]]
    /\ object \in [Addresses -> File \cup {NoFile}]
    /\ ht \in [Range(HashOf) -> Seq([fname: Names, file: Addresses])]
    /\ client \in [Clients -> Addresses \cup {NoFile}]
    /\ inUse \in [Names -> SUBSET Pages]
    /\ Idle \/ pending.header \in Header

\* l is the free list of file f: from the header on, every page holds the link
\* to the next, and the last one links to none.
IsFreeList(f, n, l) ==
    /\ \A j, k \in 1 .. n : l[j] = l[k] => j = k
    /\ unix[f].nextFree = IF n = 0 THEN None ELSE l[1]
    /\ \A k \in 1 .. n : page[f][l[k]] = Link(IF k = n THEN None ELSE l[k + 1])

\* After every single write, so for a crash or a failed write at any point:
\* the free list ends, no page of the file is lost, and none is both in use
\* and free, so that allocatePage hands out a page no client still has.
FreeListSound ==
    \A f \in Names : HasHeader(f) =>
        \E n \in 0 .. MaxPageNo : \E l \in [1 .. n -> Pages] :
            /\ IsFreeList(f, n, l)
            /\ Range(l) \cup inUse[f] = 1 .. unix[f].numPages - 1
            /\ Range(l) \cap inUse[f] = {}

\* The page a file was first given stays its first page and stays in use, so a
\* heap file finds its header page again after every open.
FirstPageStays ==
    \A f \in Names : HasHeader(f) =>
        IF inUse[f] = {} THEN unix[f].firstPage = None
        ELSE unix[f].firstPage \in inUse[f] /\ unix[f].firstPage = 1

\* Both hold together whichever write a call ends at, failed or the last before
\* a crash (db.C:245-345): the header is right about every page of its file.
HeaderSound == FreeListSound /\ FirstPageStays

\* The open count of a File object is the number of clients that have it, the
\* table finds it under its name and nothing else, so a file has one object
\* however often it is opened, and no file is destroyed under a client
\* (db.C:53-109, 519-567).
OpenCntIsClients ==
    /\ \A o \in Addresses : object[o] # NoFile =>
        /\ object[o].openCnt = Cardinality({c \in Clients : client[c] = o})
        /\ find(object[o].name) = {[fname |-> object[o].name, file |-> o]}
        /\ unix[object[o].name] # Absent
    /\ \A i \in DOMAIN ht : \A b \in Range(ht[i]) :
        object[b.file] # NoFile /\ object[b.file].name = b.fname
=============================================================================
