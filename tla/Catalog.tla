------------------------------ MODULE Catalog ------------------------------
(***************************************************************************)
(* The catalogs of stage6 and the statements that change them: relcat has  *)
(* an entry per relation and attrcat one per attribute (catalog.C), CREATE *)
(* and DESTROY keep them in step with the heap files (create.C, destroy.C, *)
(* heapfile.C), and LOAD, INSERT, DELETE and SELECT go through them        *)
(* (load.C, insert.C, delete.C, select.C, parser/interp.C).                *)
(*                                                                         *)
(* The program runs one statement at a time, so a statement is one action. *)
(* It is a sequence of calls with early returns, and what the calls before *)
(* an error return have done stays done: each call is an operator from a   *)
(* state to a state and a status, and statements compose them.             *)
(***************************************************************************)
EXTENDS Integers, Sequences, FiniteSets

CONSTANTS
    Users,      \* names of relations that statements mention
    Tmp,        \* the result of a query without INTO, "Tmp_Minirel_Result"
    Attribute,  \* attributes of CREATE, by name and length; a type has one length
    LongNames,  \* names that do not fit into MAXNAME bytes
    NoAttr,     \* a query without WHERE
    PageSize,   \* widest tuple createRel accepts
    MaxTuple,   \* widest tuple a page takes
    MaxAttrs,   \* bound: attributes of a relation
    MaxOpen     \* bound: objects left open on a file

RELCATNAME  == "relcat"
ATTRCATNAME == "attrcat"

Relations == Users \cup {Tmp}
Catalogs  == {RELCATNAME, ATTRCATNAME}
Names     == Relations \cup Catalogs
AttrNames == {a.attrName : a \in Attribute}

Attr(a, len) == [attrName |-> a, attrLen |-> len]

\* Attribute lists of CREATE; the parser gives no empty one.
AttrLists == UNION {[1 .. n -> Attribute] : n \in 1 .. MaxAttrs}

ASSUME NamesAssumption ==
    Catalogs \cap Relations = {} /\ Tmp \notin Users /\ NoAttr \notin AttrNames
ASSUME SizesAssumption ==
    /\ \A a \in Attribute : a = Attr(a.attrName, a.attrLen) /\ a.attrLen \in Nat \ {0}
    /\ MaxAttrs \in Nat \ {0} /\ MaxOpen \in Nat
    /\ MaxTuple \in Nat /\ PageSize \in Nat /\ MaxTuple < PageSize

VARIABLES
    db,         \* the catalogs, the heap files, and the objects left open:
                \*   relcat, attrcat  the entries of each name, in scan order
                \*   files            names of the heap files on disk
                \*   open             objects on a file that stay open
                \*   rows             layouts of the tuples in a heap file
    made        \* relations CREATE said OK to and DESTROY has not been called on

vars == <<db, made>>

-----------------------------------------------------------------------------
(* Reading the catalogs of state d.  Every scan of a catalog asks for one   *)
(* relName, so the order of entries of different relations, which depends  *)
(* on the slots that destroyed ones left, tells no two databases apart;    *)
(* entries of one relation are scanned in the order they were made in.     *)

Listed(d, r) == d.relcat[r] # <<>>

getRelInfo(d, r) == d.attrcat[r]

Has(d, r, a) == \E i \in DOMAIN d.attrcat[r] : d.attrcat[r][i].attrName = a

getInfo(d, r, a) ==
    d.attrcat[r][CHOOSE i \in DOMAIN d.attrcat[r] :
                    /\ d.attrcat[r][i].attrName = a
                    /\ \A j \in 1 .. i - 1 : d.attrcat[r][j].attrName # a]

\* Offset of the attribute behind the first k of a list.
OffsetAfter(list, k) ==
    LET f[n \in 0 .. k] == IF n = 0 THEN 0 ELSE f[n - 1] + list[n].attrLen
    IN  f[k]

Width(list) == OffsetAfter(list, Len(list))

\* What tells tuples apart that are read with one layout and were written with
\* another: the lengths of their attributes.
Layout(list) == [i \in DOMAIN list |-> list[i].attrLen]

Outcome(d, s) == [db |-> d, status |-> s]

-----------------------------------------------------------------------------
(* createRel and destroyRel.                                               *)

\* An empty heap file is made, unless a file of the name can be opened: then
\* the object that opened it is never closed.
createHeapFile(d, r) ==
    IF r \in d.files
    THEN Outcome([d EXCEPT !.open[r] = @ + 1], "FILEEXISTS")
    ELSE Outcome([d EXCEPT !.files = @ \cup {r}], "OK")

\* The first n attributes of the list enter attrcat.
WithAttrs(d, r, list, n) ==
    [d EXCEPT !.attrcat[r] = @ \o [k \in 1 .. n |->
        [attrName |-> list[k].attrName, attrLen |-> list[k].attrLen,
         attrOffset |-> OffsetAfter(list, k - 1)]]]

\* Mutants: attributes whose names are too long are found before the entry of
\* the relation is made; any relation may be created.
WithRelIfNamesFit(d, r, list) ==
    IF \E k \in DOMAIN list : list[k].attrName \in LongNames THEN d
    ELSE [d EXCEPT !.relcat[r] = Append(@, [attrCnt |-> Len(list)])]

RelExistsNever(d, r) == FALSE

RelExists(d, r) == Listed(d, r)

\* Mutant: the first attribute alone is measured.
TooWideFirst(list) == list[1].attrLen > PageSize

TooWide(list) == Width(list) > PageSize

WithRel(d, r, list) ==
    [d EXCEPT !.relcat[r] = Append(@, [attrCnt |-> Len(list)])]

\* A name that is too long ends the call with the entries before it made.
createRel(d, r, list) ==
    LET over == {k \in DOMAIN list : list[k].attrName \in LongNames}
        d1   == WithRel(d, r, list)
    IN  IF r \in LongNames THEN Outcome(d, "NAMETOOLONG")
        ELSE IF RelExists(d, r) THEN Outcome(d, "RELEXISTS")
        ELSE IF \E i, j \in DOMAIN list : i # j /\ list[i].attrName = list[j].attrName
             THEN Outcome(d, "DUPLATTR")
        ELSE IF TooWide(list) THEN Outcome(d, "ATTRTOOLONG")
        ELSE IF over # {}
             THEN Outcome(WithAttrs(d1, r, list, (CHOOSE k \in over : \A j \in over : k <= j) - 1),
                          "NAMETOOLONG")
        ELSE createHeapFile(WithAttrs(d1, r, list, Len(list)), r)

\* destroyHeapFile: no object may have the file open.
destroyHeapFile(d, r) ==
    IF d.open[r] > 0 THEN Outcome(d, "FILEOPEN")
    ELSE IF r \notin d.files THEN Outcome(d, "UNIXERR")
    ELSE Outcome([d EXCEPT !.files = @ \ {r}, !.rows[r] = {}], "OK")

\* The first entry of r leaves relcat.
removeInfo(d, r) == [d EXCEPT !.relcat[r] = Tail(@)]

\* Every attribute the scan has found is removed by its name.
dropRelation(d, r) == [d EXCEPT !.attrcat[r] = <<>>]

\* The catalogs forget the relation before it is known that its file can go.
destroyRel(d, r) ==
    IF r \in Catalogs THEN Outcome(d, "BADCATPARM")
    ELSE IF getRelInfo(d, r) = <<>> THEN Outcome(d, "RELNOTFOUND")
    ELSE LET d1 == dropRelation(d, r)
         IN  IF ~Listed(d1, r) THEN Outcome(d1, "RELNOTFOUND")
             ELSE destroyHeapFile(removeInfo(d1, r), r)

-----------------------------------------------------------------------------
(* Statements.                                                             *)

\* Tuples of layout l go into the file of r.
WithRows(d, r, l) == [d EXCEPT !.rows[r] = @ \cup {l}]

\* The objects of the two catalogs are open for as long as the program runs.
Openers == [r \in Names |-> IF r \in Catalogs THEN 1 ELSE 0]

\* MaxOpen bounds what failing statements add to that.
CanOpen(r) == db.open[r] < Openers[r] + MaxOpen

Result(o) == db' = o.db

Create(r, list) ==
    /\ CanOpen(r)
    /\ LET o == createRel(db, r, list)
       IN  /\ Result(o)
           /\ made' = IF o.status = "OK" THEN made \cup {r} ELSE made

Destroy(r) ==
    /\ Result(destroyRel(db, r))
    /\ made' = made \ {r}

\* Loading one tuple or more: a tuple that no page takes ends the call with
\* the InsertFileScan open.
Load(r) ==
    /\ CanOpen(r)
    /\ LET attrs == getRelInfo(db, r)
       IN  Result(IF r \in Catalogs THEN Outcome(db, "BADCATPARM")
                  ELSE IF ~Listed(db, r) \/ attrs = <<>> THEN Outcome(db, "RELNOTFOUND")
                  ELSE IF r \notin db.files THEN Outcome(db, "UNIXERR")
                  ELSE IF Width(attrs) > MaxTuple
                       THEN Outcome([db EXCEPT !.open[r] = @ + 1], "NOSPACE")
                  ELSE Outcome(WithRows(db, r, Layout(attrs)), "OK"))
    /\ UNCHANGED made

\* Inserting n values. The InsertFileScan is closed on every return. If there
\* is no file to open, its destructor works on fields that were never set:
\* that case is left out.
Insert(r, n) ==
    /\ r \in db.files
    /\ LET attrs == getRelInfo(db, r)
       IN  Result(IF attrs = <<>> THEN Outcome(db, "RELNOTFOUND")
                  ELSE IF n # Len(attrs) THEN Outcome(db, "BADCATPARM")
                  ELSE IF Width(attrs) > MaxTuple THEN Outcome(db, "NOSPACE")
                  ELSE Outcome(WithRows(db, r, Layout(attrs)), "OK"))
    /\ UNCHANGED made

\* Some of the tuples go, or all of them.
Delete(r, gone) ==
    /\ r \in db.files
    /\ gone \subseteq db.rows[r]
    /\ Result(Outcome([db EXCEPT !.rows[r] = @ \ gone], "OK"))
    /\ UNCHANGED made

\* QU_Select into result: tuples of r with the attributes of list, those the
\* condition on attribute w lets through.  Whether any does is left open.
QU_Select(d, result, r, list, w, some) ==
    IF w # NoAttr /\ ~Has(d, r, w) THEN Outcome(d, "ATTRNOTFOUND")
    ELSE IF r \notin d.files THEN Outcome(d, "UNIXERR")
    ELSE IF d.rows[r] = {} \/ ~some THEN Outcome(d, "OK")
    ELSE IF Width(list) > MaxTuple THEN Outcome(d, "NOSPACE")
    ELSE Outcome(WithRows(d, result, Layout(list)), "OK")

\* The projection of r to the attribute names of seq.
HasAll(d, r, seq) == \A i \in DOMAIN seq : Has(d, r, seq[i])

Projection(d, r, seq) ==
    [i \in DOMAIN seq |-> [attrName |-> seq[i], attrLen |-> getInfo(d, r, seq[i]).attrLen]]

\* Mutant: a query that fails leaves its temporary result.
TmpDroppedIfOK(o) == IF o.status = "OK" THEN destroyRel(o.db, Tmp) ELSE o

\* The result of a query without INTO is printed and destroyed, whatever became
\* of the query.
TmpDropped(o) == destroyRel(o.db, Tmp)

\* SELECT without INTO: the temporary result is created, filled and destroyed.
Select(r, seq, w, some) ==
    /\ CanOpen(Tmp)
    /\ IF Listed(db, Tmp) THEN Result(Outcome(db, "TMP_RES_EXISTS"))
       ELSE IF ~HasAll(db, r, seq) THEN Result(Outcome(db, "ATTRNOTFOUND"))
       ELSE LET list == Projection(db, r, seq)
                o    == createRel(db, Tmp, list)
            IN  Result(IF o.status # "OK" THEN o
                       ELSE TmpDropped(QU_Select(o.db, Tmp, r, list, w, some)))
    /\ UNCHANGED made

\* SELECT INTO a relation that has no attributes: it is created, and stays if
\* the query fails.
SelectIntoNew(result, r, seq, w, some) ==
    /\ result # r
    /\ getRelInfo(db, result) = <<>>
    /\ CanOpen(result)
    /\ IF ~HasAll(db, r, seq) THEN Result(Outcome(db, "ATTRNOTFOUND")) /\ UNCHANGED made
       ELSE LET list == Projection(db, r, seq)
                o    == createRel(db, result, list)
            IN  IF o.status # "OK" THEN Result(o) /\ UNCHANGED made
                ELSE /\ Result(QU_Select(o.db, result, r, list, w, some))
                     /\ made' = made \cup {result}

\* Mutant: the attributes are counted but not compared.
SameTypesCount(d, result, r, seq) == TRUE

SameTypes(d, result, r, seq) == Layout(getRelInfo(d, result)) = Layout(Projection(d, r, seq))

\* SELECT INTO a relation that has attributes: they must have the same types.
\* As with Insert, a result that is listed without a file is left out; so is a
\* relation selected into itself, a statement that never ends.
SelectIntoOld(result, r, seq, w, some) ==
    /\ result # r
    /\ getRelInfo(db, result) # <<>>
    /\ IF Len(getRelInfo(db, result)) # Len(seq) THEN Result(Outcome(db, "ATTRTYPEMISMATCH"))
       ELSE IF ~HasAll(db, r, seq) THEN Result(Outcome(db, "ATTRNOTFOUND"))
       ELSE IF ~SameTypes(db, result, r, seq) THEN Result(Outcome(db, "ATTRTYPEMISMATCH"))
       ELSE /\ result \in db.files
            /\ Result(QU_Select(db, result, r, Projection(db, r, seq), w, some))
    /\ UNCHANGED made

\* UT_Quit and a new run of the program.
Restart ==
    /\ db' = [db EXCEPT !.open = Openers]
    /\ UNCHANGED made

-----------------------------------------------------------------------------
(* dbcreate describes the catalogs in the catalogs.                        *)

RelCatAttrs  == <<Attr("relName", 32), Attr("attrCnt", 4)>>
AttrCatAttrs == <<Attr("relName", 32), Attr("attrName", 32), Attr("attrOffset", 4),
                  Attr("attrType", 4), Attr("attrLen", 4)>>

Described(d, r, list) == WithAttrs(WithRel(d, r, list), r, list, Len(list))

Init ==
    /\ db = LET d == [relcat |-> [r \in Names |-> <<>>], attrcat |-> [r \in Names |-> <<>>],
                      files |-> Catalogs, open |-> Openers, rows |-> [r \in Names |-> {}]]
            IN  Described(Described(d, RELCATNAME, RelCatAttrs), ATTRCATNAME, AttrCatAttrs)
    /\ made = {}

\* Statements that change the catalogs as if they were relations of the user
\* are not cases here.
Projections == UNION {[1 .. n -> AttrNames] : n \in 1 .. MaxAttrs}

Next ==
    \/ \E r \in Users \cup Catalogs, list \in AttrLists : Create(r, list)
    \/ \E r \in Users \cup Catalogs : Destroy(r) \/ Load(r)
    \/ \E r \in Users, n \in 1 .. MaxAttrs : Insert(r, n)
    \/ \E r \in Users : \E gone \in SUBSET db.rows[r] : Delete(r, gone)
    \/ \E r \in Users, seq \in Projections, w \in AttrNames \cup {NoAttr}, some \in BOOLEAN :
            \/ Select(r, seq, w, some)
            \/ \E result \in Users : SelectIntoNew(result, r, seq, w, some)
            \/ \E result \in Users : SelectIntoOld(result, r, seq, w, some)
    \/ Restart

Spec == Init /\ [][Next]_vars

-----------------------------------------------------------------------------
(* Properties.                                                             *)

TypeOK ==
    /\ \A r \in Names : db.relcat[r] \in Seq([attrCnt: Nat \ {0}])
    /\ \A r \in Relations : \A i \in DOMAIN db.attrcat[r] :
            LET e == db.attrcat[r][i]
            IN  /\ Attr(e.attrName, e.attrLen) \in Attribute
                /\ e.attrOffset >= 0 /\ e.attrOffset + e.attrLen <= PageSize
    /\ db.files \subseteq Names
    /\ db.open \in [Names -> Nat]
    /\ \A r \in Names : db.rows[r] \subseteq {Layout(list) : list \in AttrLists}
    /\ made \subseteq Users

\* The catalogs are looked up by relation name, and by relation and attribute
\* name.  No sequence of failing CREATEs, DESTROYs and queries leaves two
\* entries under one such key, of which a lookup would find the first only.
KeysUnique ==
    \A r \in Names :
        /\ Len(db.relcat[r]) <= 1
        /\ \A i, j \in DOMAIN db.attrcat[r] :
                db.attrcat[r][i].attrName = db.attrcat[r][j].attrName => i = j

\* createRel makes the entry of a relation before those of its attributes and
\* destroyRel drops it after them, so wherever either stops, attrcat has no
\* attribute of a relation that relcat does not have; and the attributes it has
\* of one, all of them or those up to the failure, lie behind each other in the
\* tuples (create.C:44-70, destroy.C:27-35).
AttrcatSound ==
    \A r \in Names :
        LET attrs == getRelInfo(db, r)
        IN  /\ db.attrcat[r] # <<>> => Listed(db, r)
            /\ \A k \in DOMAIN attrs : attrs[k].attrOffset = OffsetAfter(attrs, k - 1)

\* What CREATE said OK to stays whole until it is destroyed, whatever fails for
\* other relations: it has one entry, as many attributes as that says, a file,
\* and every tuple in the file was written with its layout.
MadeIsWhole ==
    \A r \in made :
        /\ db.relcat[r] = <<[attrCnt |-> Len(getRelInfo(db, r))]>>
        /\ r \in db.files
        /\ db.rows[r] \subseteq {Layout(getRelInfo(db, r))}

\* The result of a query without INTO is gone when the query is over, whether or
\* not it failed: the next one does not find TMP_RES_EXISTS.
TmpIsGone == ~Listed(db, Tmp) /\ getRelInfo(db, Tmp) = <<>> /\ Tmp \notin db.files

\* destroy.C: destroyRel "destroys the heap file containing the tuples in the
\* relation".  So a relation has no tuples of an earlier one of its name: all
\* were written with the layout that it is read with.
RowsFitLayout ==
    \A r \in Users : Listed(db, r) => db.rows[r] \subseteq {Layout(getRelInfo(db, r))}
=============================================================================
