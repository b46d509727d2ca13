------------------------------- MODULE Parser -------------------------------
(***************************************************************************)
(* From a statement to the call that executes it (parser/parse.y, nodes.C, *)
(* scanhelp.C and the mk_ functions of interp.C).  Parse trees are built   *)
(* in two static arrays, of nodes and of characters, that every statement  *)
(* fills from the start and that end the program when they are full.  The  *)
(* interpreter copies the tree into arrays of fixed size: lists of         *)
(* attributes, names, and a value on its way to the call.                  *)
(*                                                                         *)
(* The user types a statement of Statements.  What the generated parser    *)
(* does for it is a script of moves, in the order it makes them: the       *)
(* strings it scans and the productions it reduces, lists from their last  *)
(* element on.  At any point the next token may be one the grammar does    *)
(* not allow.                                                              *)
(***************************************************************************)
EXTENDS Integers, Sequences, SequencesExt

CONSTANTS
    Statements,     \* statements a user may type
    StrLen,         \* StrLen[s]: characters of string s
    MaxNode,        \* MAXNODE: nodes of a parse tree
    MaxChar,        \* MAXCHAR: characters of a statement's strings
    MaxIdLen,       \* MAXSTRINGLEN of scanhelp.C: no identifier is as long
    MaxAttrs,       \* MAXATTRS of interp.C
    MaxStringLen,   \* MAXSTRINGLEN of catalog.h
    MaxName,        \* MAXNAME of catalog.h: bytes of a name in an attrInfo
    Garbled,        \* what an attrInfo holds of a name without room for its end
    MaxValue,       \* bytes of the array value of value_of
    MaxFrame,       \* bytes from there to what the compiler guards
    SixDecimals(_), \* the bits of a FLOAT that was printed by "%f" and read back
    NoStatement

Null   == 0     \* the pointer that leads nowhere
NoName == ""    \* a part of a statement that is left out

-----------------------------------------------------------------------------
(* The statements of the grammar.                                          *)

Str    == DOMAIN StrLen
OptStr == Str \cup {NoName}

List(S) == Seq(S) \ {<<>>}

Number   == [type : {"INTEGER", "FLOAT"}, bits : Int]
Literal  == Number \cup [type : {"STRING"}, str : Str]
Qualattr == [rel : OptStr, attr : Str]
Table    == [rel : Str, alias : OptStr]
Attrtype == [attr : Str, type : {"int", "real", "char"}]
            \cup [attr : Str, type : {"char("}, len : Number]

Where == [kind : {"NONE"}]
         \cup [kind : {"VALUE"}, attr : Qualattr, op : STRING, value : Literal]
         \cup [kind : {"ATTR"}, attr : Qualattr, op : STRING, attr2 : Qualattr]

Statement ==
    [kind : {"SELECT"}, attrs : List(Qualattr), into : OptStr, tables : List(Table),
     where : Where]
    \cup [kind : {"INSERT"}, rel : Str, attrs : List(Str), values : List(Literal)]
    \cup [kind : {"DELETE"}, rel : Str, where : Where]
    \cup [kind : {"CREATE"}, rel : Str, attrs : List(Attrtype), primary : OptStr]
    \cup [kind : {"LOAD"}, rel : Str, file : Str]
    \cup [kind : {"BUILD"}, rel : Str, attr : Str]
    \cup [kind : {"DROP"}, rel : Str, attr : OptStr]
    \cup [kind : {"DESTROY", "PRINT"}, rel : Str]
    \cup [kind : {"HELP"}, rel : OptStr]
    \cup [kind : {"EMPTY", "SHELL", "QUIT", "EOF"}]

ASSUME PoolsAssumption == MaxNode \in Nat /\ MaxChar \in Nat /\ MaxAttrs \in Nat \ {0}
ASSUME StringsAssumption == NoName \notin Str /\ \A s \in Str : StrLen[s] \in Nat
ASSUME ArraysAssumption ==
    /\ MaxName \in Nat /\ Garbled \notin OptStr
    /\ MaxValue \in Nat /\ MaxFrame \in Nat /\ MaxFrame >= MaxValue
ASSUME StatementsAssumption == Statements \subseteq Statement /\ NoStatement \notin Statements

-----------------------------------------------------------------------------

IntFormat   == 105 - 128    \* 'i' - 128
FloatFormat == 102 - 128    \* 'f' - 128

Tmp == "Tmp_Minirel_Result"

VARIABLES
    stmt,       \* the statement at the prompt, or NoStatement
    script,     \* moves the parser has yet to make for it
    nodepool,   \* nodes in use; a pointer to a node is its place
    charpool,   \* strings in use; a pointer to a string is its place
    charptr,    \* characters they take
    stack,      \* semantic values of the parser
    parse_tree,
    call,       \* what the interpreter made of the last tree
    mode        \* "PROMPT", "READ", "INTERP", or why the program stopped

vars == <<stmt, script, nodepool, charpool, charptr, stack, parse_tree, call, mode>>

-----------------------------------------------------------------------------
(* nodes.C: one operator for each kind of node.                            *)

query_node(relname, attrlist, qual) ==
    [kind |-> "N_QUERY", relname |-> relname, attrlist |-> attrlist, qual |-> qual]

insert_node(relname, attrlist) ==
    [kind |-> "N_INSERT", relname |-> relname, attrlist |-> attrlist]

delete_node(relname, qual) == [kind |-> "N_DELETE", relname |-> relname, qual |-> qual]

create_node(relname, attrlist, primattr) ==
    [kind |-> "N_CREATE", relname |-> relname, attrlist |-> attrlist, primattr |-> primattr]

destroy_node(relname) == [kind |-> "N_DESTROY", relname |-> relname]

build_node(relname, attrname, nbuckets) ==
    [kind |-> "N_BUILD", relname |-> relname, attrname |-> attrname, nbuckets |-> nbuckets]

drop_node(relname, attrname) ==
    [kind |-> "N_DROP", relname |-> relname, attrname |-> attrname]

load_node(relname, filename) ==
    [kind |-> "N_LOAD", relname |-> relname, filename |-> filename]

print_node(relname) == [kind |-> "N_PRINT", relname |-> relname]

help_node(relname) == [kind |-> "N_HELP", relname |-> relname]

select_node(selattr, op, value) ==
    [kind |-> "N_SELECT", selattr |-> selattr, op |-> op, value |-> value]

join_node(joinattr1, op, joinattr2) ==
    [kind |-> "N_JOIN", joinattr1 |-> joinattr1, op |-> op, joinattr2 |-> joinattr2]

primattr_node(attrname) == [kind |-> "N_PRIMATTR", attrname |-> attrname]

qualattr_node(relname, attrname) ==
    [kind |-> "N_QUALATTR", relname |-> relname, attrname |-> attrname]

attrval_node(attrname, value) ==
    [kind |-> "N_ATTRVAL", attrname |-> attrname, value |-> value]

attrtype_node(attrname, type) ==
    [kind |-> "N_ATTRTYPE", attrname |-> attrname, type |-> type]

\* A float is the int its bits are.
int_node(ival) == [kind |-> "N_VALUE", type |-> "INTEGER", bits |-> ival]

float_node(rval) == [kind |-> "N_VALUE", type |-> "FLOAT", bits |-> rval]

string_node(s) == [kind |-> "N_VALUE", type |-> "STRING", sval |-> s]

list_node(n) == [kind |-> "N_LIST", self |-> n, next |-> Null]

prepend(n, list) == [kind |-> "N_LIST", self |-> n, next |-> list]

alias_node(relname, alias) == [kind |-> "N_ALIAS", relname |-> relname, alias |-> alias]

\* The elements of a list of pool: pointers to nodes.
Cells(pool) == {i \in DOMAIN pool : pool[i].kind = "N_LIST"}

Elements(pool, list) ==
    LET from[i \in {Null} \cup Cells(pool)] ==
            IF i = Null THEN <<>> ELSE <<pool[i].self>> \o from[pool[i].next]
    IN  from[list]

\* The string a pointer leads to.
Name(s) == IF s = Null THEN NoName ELSE charpool[s]

-----------------------------------------------------------------------------
(* Rewriting: the lists of an INSERT are merged, and aliases are replaced  *)
(* by the names of their relations, both in place.                         *)

\* Mutant: what is left of the values is not looked at.
SameLengthOrMore(attrs, values) == Len(attrs) <= Len(values)

SameLength(attrs, values) == Len(attrs) = Len(values)

merge_attr_value_list(attr_list, value_list) ==
    LET attrs  == Elements(nodepool, attr_list)
        values == Elements(nodepool, value_list)
    IN  [list |-> IF SameLength(attrs, values) THEN attr_list ELSE Null,
         pool |-> [i \in DOMAIN nodepool |->
                    LET K == {k \in DOMAIN attrs \cap DOMAIN values : attrs[k] = i}
                    IN  IF K = {} THEN nodepool[i]
                        ELSE [nodepool[i] EXCEPT !.value = values[CHOOSE k \in K : TRUE]]]]

\* The name of the first table of the list that has this name or alias; the
\* string itself if it is the table's own name.
find_match_in_alias(tables, s) ==
    LET Named(t)   == Name(t.relname) = Name(s)
        Aliased(t) == t.alias # Null /\ Name(t.alias) = Name(s)
        K == {k \in DOMAIN tables : Named(tables[k]) \/ Aliased(tables[k])}
    IN  IF K = {} THEN Null
        ELSE LET t == tables[CHOOSE k \in K : \A j \in K : k <= j]
             IN  IF Named(t) THEN s ELSE t.relname

\* What becomes of the qualifier s of an attribute, Null if it is refused: it
\* may be left out with one table only.
Qualifier(tables, s) ==
    IF s # Null THEN find_match_in_alias(tables, s)
    ELSE IF Len(tables) > 1 THEN Null
    ELSE tables[1].relname

\* The attributes attrs of a tree in their order, up to the first that is
\* refused.
Replaced(pool, alias, attrs) ==
    LET aliases == Elements(pool, alias)
        tables  == [k \in DOMAIN aliases |-> pool[aliases[k]]]
        to(k)   == Qualifier(tables, pool[attrs[k]].relname)
        bad     == {k \in DOMAIN attrs : to(k) = Null}
    IN  [ok   |-> bad = {},
         pool |-> [i \in DOMAIN pool |->
                    LET K == {k \in DOMAIN attrs : attrs[k] = i /\ \A j \in bad : k < j}
                    IN  IF K = {} THEN pool[i]
                        ELSE [pool[i] EXCEPT !.relname = to(CHOOSE k \in K : TRUE)]]]

replace_alias_in_qualattr_list(pool, alias, qualattr_list) ==
    Replaced(pool, alias, Elements(pool, qualattr_list))

\* Mutant: the right side of a join keeps its alias.
ConditionAttrsLeft(cond) ==
    IF cond.kind = "N_SELECT" THEN <<cond.selattr>> ELSE <<cond.joinattr1>>

ConditionAttrs(cond) ==
    IF cond.kind = "N_SELECT" THEN <<cond.selattr>> ELSE <<cond.joinattr1, cond.joinattr2>>

replace_alias_in_condition(pool, alias, where) ==
    Replaced(pool, alias, IF where = Null THEN <<>> ELSE ConditionAttrs(pool[where]))

-----------------------------------------------------------------------------
(* The moves of the parser for a statement (parse.y).                      *)

Id(s)      == [op |-> "id", str |-> s]
Move(name) == [op |-> name]
Reduce(name, arity) == [op |-> name, arity |-> arity]

\* A part the grammar lets one leave out.
OptId(s) == IF s = NoName THEN Move("nothing") ELSE Id(s)

\* Right recursive lists: the elements in their order, then the cells from the
\* last to the first.
ListMoves(elements) ==
    FlattenSeq(elements) \o <<Reduce("list", 1)>>
        \o [k \in 1 .. Len(elements) - 1 |-> Reduce("prepend", 2)]

QualattrMoves(a) == <<OptId(a.rel), Id(a.attr), Reduce("qualattr", 2)>>

ValueMoves(v) ==
    IF v.type = "STRING" THEN <<[op |-> "qstring", str |-> v.str], Reduce("string", 1)>>
    ELSE <<[op |-> v.type, bits |-> v.bits, arity |-> 0]>>

TableMoves(t) == <<Id(t.rel), OptId(t.alias), Reduce("alias", 2)>>

WhereMoves(w) ==
    CASE w.kind = "NONE"  -> <<Move("nothing")>>
      [] w.kind = "VALUE" -> QualattrMoves(w.attr) \o ValueMoves(w.value)
                             \o <<[op |-> "select", cmp |-> w.op, arity |-> 2]>>
      [] w.kind = "ATTR"  -> QualattrMoves(w.attr) \o QualattrMoves(w.attr2)
                             \o <<[op |-> "join", cmp |-> w.op, arity |-> 2]>>

AttrtypeMoves(d) ==
    CASE d.type = "int"  -> <<Id(d.attr), [op |-> "attrtype", format |-> IntFormat, arity |-> 1]>>
      [] d.type = "real" -> <<Id(d.attr), [op |-> "attrtype", format |-> FloatFormat, arity |-> 1]>>
      [] d.type = "char" -> <<Id(d.attr), [op |-> "attrtype", format |-> 2, arity |-> 1]>>
      [] d.type = "char(" -> <<Id(d.attr)>> \o ValueMoves(d.len) \o <<Reduce("attrtypelen", 2)>>

PrimaryMoves(attr) ==
    IF attr = NoName THEN <<Move("nothing")>> ELSE <<Id(attr), Reduce("primattr", 1)>>

Of(Moves(_), elements) == ListMoves([k \in DOMAIN elements |-> Moves(elements[k])])

AttribMoves(attr) == <<Id(attr), Move("nothing"), Reduce("attrval", 2)>>

CommandMoves(st) ==
    CASE st.kind = "SELECT" -> Of(QualattrMoves, st.attrs) \o <<OptId(st.into)>>
                               \o Of(TableMoves, st.tables) \o WhereMoves(st.where)
                               \o <<Move("query")>>
      [] st.kind = "INSERT" -> <<Id(st.rel)>> \o Of(AttribMoves, st.attrs)
                               \o Of(ValueMoves, st.values) \o <<Move("insert")>>
      [] st.kind = "DELETE" -> <<Id(st.rel)>> \o WhereMoves(st.where) \o <<Reduce("delete", 2)>>
      [] st.kind = "CREATE" -> <<Id(st.rel)>> \o Of(AttrtypeMoves, st.attrs)
                               \o PrimaryMoves(st.primary) \o <<Reduce("create", 3)>>
      [] st.kind = "LOAD"   -> <<Id(st.rel), [op |-> "qstring", str |-> st.file], Reduce("load", 2)>>
      [] st.kind = "BUILD"  -> <<Id(st.rel), Id(st.attr), Reduce("build", 2)>>
      [] st.kind = "DROP"   -> <<Id(st.rel), OptId(st.attr), Reduce("drop", 2)>>
      [] st.kind = "DESTROY" -> <<Id(st.rel), Reduce("destroy", 1)>>
      [] st.kind = "PRINT"  -> <<Id(st.rel), Reduce("print", 1)>>
      [] st.kind = "HELP"   -> <<OptId(st.rel), Reduce("help", 1)>>
      [] st.kind = "EMPTY"  -> <<Move("nothing")>>

Script(st) ==
    CASE st.kind \in {"QUIT", "EOF"} -> <<Move("quit")>>
      [] st.kind = "SHELL" -> <<Move("shell")>>
      [] OTHER -> CommandMoves(st) \o <<Move("command")>>

-----------------------------------------------------------------------------
(* Reading a statement.                                                    *)

NoCall == [fn |-> "none", error |-> "E_OK"]

Init == /\ stmt = NoStatement /\ script = <<>>
        /\ nodepool = <<>> /\ charpool = <<>> /\ charptr = 0
        /\ stack = <<>> /\ parse_tree = Null /\ call = NoCall /\ mode = "PROMPT"

\* new_query and the prompt of parse.
Prompt(st) ==
    /\ mode = "PROMPT"
    /\ stmt' = st /\ script' = Script(st)
    /\ nodepool' = <<>> /\ charpool' = <<>> /\ charptr' = 0
    /\ stack' = <<>> /\ call' = NoCall /\ mode' = "READ"
    /\ UNCHANGED parse_tree

Ahead(name) == mode = "READ" /\ Head(script).op = name

\* exit or abort, in the middle of a statement.
Stop(why) ==
    /\ mode' = why
    /\ UNCHANGED <<stmt, script, nodepool, charpool, charptr, stack, parse_tree, call>>

\* start: error.  The pools stay as they are up to the next new_query, but for
\* the characters.
SyntaxError ==
    /\ mode = "READ"
    /\ charpool' = <<>> /\ charptr' = 0 /\ stack' = <<>> /\ script' = <<>>
    /\ parse_tree' = Null /\ mode' = "PROMPT"
    /\ UNCHANGED <<stmt, nodepool, call>>

NoRoom(len) == charptr + len > MaxChar

\* mk_string: a copy of a string with its end.
string_alloc(s) ==
    IF NoRoom(StrLen[s] + 1) THEN Stop("OUT_OF_CHARS")
    ELSE /\ charptr' = charptr + StrLen[s] + 1
         /\ charpool' = Append(charpool, s)
         /\ stack' = Append(stack, Len(charpool) + 1)
         /\ script' = Tail(script)
         /\ UNCHANGED <<stmt, nodepool, parse_tree, call, mode>>

\* An identifier that is too long is no token, which is a syntax error.
get_id ==
    /\ Ahead("id") /\ StrLen[Head(script).str] < MaxIdLen
    /\ string_alloc(Head(script).str)

get_qstring == Ahead("qstring") /\ string_alloc(Head(script).str)

nothing ==
    /\ Ahead("nothing")
    /\ stack' = Append(stack, Null) /\ script' = Tail(script)
    /\ UNCHANGED <<stmt, nodepool, charpool, charptr, parse_tree, call, mode>>

\* Mutant: the last node is never given out.
PoolFullEarly(pool) == Len(pool) + 1 = MaxNode

PoolFull(pool) == Len(pool) = MaxNode

\* newnode: the top n values of the stack make way for a node at the end of
\* pool, which is the node pool as a rewriting has left it.
newnode(pool, n, node) ==
    IF PoolFull(pool) THEN Stop("OUT_OF_NODES")
    ELSE /\ nodepool' = Append(pool, node)
         /\ stack' = Append(SubSeq(stack, 1, Len(stack) - n), Len(pool) + 1)
         /\ script' = Tail(script)
         /\ UNCHANGED <<stmt, charpool, charptr, parse_tree, call, mode>>

\* A statement that is refused is no tree.
NoTree(pool, n) ==
    /\ nodepool' = pool
    /\ stack' = Append(SubSeq(stack, 1, Len(stack) - n), Null)
    /\ script' = Tail(script)
    /\ UNCHANGED <<stmt, charpool, charptr, parse_tree, call, mode>>

\* The i-th of the top n values of the stack.
Arg(n, i) == stack[Len(stack) - n + i]

\* The node the move m makes of the values v, some of them nodes of pool.
NodeOf(pool, m, v) ==
    CASE m.op = "INTEGER"     -> int_node(m.bits)
      [] m.op = "FLOAT"       -> float_node(m.bits)
      [] m.op = "string"      -> string_node(v[1])
      [] m.op = "qualattr"    -> qualattr_node(v[1], v[2])
      [] m.op = "alias"       -> alias_node(v[1], v[2])
      [] m.op = "attrval"     -> attrval_node(v[1], v[2])
      [] m.op = "list"        -> list_node(v[1])
      [] m.op = "prepend"     -> prepend(v[1], v[2])
      [] m.op = "select"      -> select_node(v[1], m.cmp, v[2])
      [] m.op = "join"        -> join_node(v[1], m.cmp, v[2])
      [] m.op = "attrtype"    -> attrtype_node(v[1], m.format)
      [] m.op = "attrtypelen" -> attrtype_node(v[1], pool[v[2]].bits)
      [] m.op = "primattr"    -> primattr_node(v[1])
      [] m.op = "delete"      -> delete_node(v[1], v[2])
      [] m.op = "create"      -> create_node(v[1], v[2], v[3])
      [] m.op = "destroy"     -> destroy_node(v[1])
      [] m.op = "build"       -> build_node(v[1], v[2], 0)
      [] m.op = "drop"        -> drop_node(v[1], v[2])
      [] m.op = "load"        -> load_node(v[1], v[2])
      [] m.op = "print"       -> print_node(v[1])
      [] m.op = "help"        -> help_node(v[1])

ReduceNode ==
    /\ mode = "READ" /\ "arity" \in DOMAIN Head(script)
    /\ LET n == Head(script).arity
       IN  newnode(nodepool, n, NodeOf(nodepool, Head(script), [i \in 1 .. n |-> Arg(n, i)]))

\* query: the attributes, the name of the result, the tables, the condition.
ReduceQuery ==
    /\ Ahead("query")
    /\ LET list == replace_alias_in_qualattr_list(nodepool, Arg(4, 3), Arg(4, 1))
           cond == replace_alias_in_condition(list.pool, Arg(4, 3), Arg(4, 4))
       IN  IF ~list.ok THEN NoTree(list.pool, 4)
           ELSE IF ~cond.ok THEN NoTree(cond.pool, 4)
           ELSE newnode(cond.pool, 4, query_node(Arg(4, 2), Arg(4, 1), Arg(4, 4)))

\* insert: the relation, its attributes and the values.
ReduceInsert ==
    /\ Ahead("insert")
    /\ LET tmp == merge_attr_value_list(Arg(3, 2), Arg(3, 3))
       IN  IF tmp.list = Null THEN NoTree(tmp.pool, 3)
           ELSE newnode(tmp.pool, 3, insert_node(Arg(3, 1), tmp.list))

\* start: command ';'.  Without a tree parse goes back to the prompt.
Accept ==
    /\ Ahead("command")
    /\ parse_tree' = Last(stack)
    /\ mode' = IF parse_tree' = Null THEN "PROMPT" ELSE "INTERP"
    /\ stack' = <<>> /\ script' = <<>>
    /\ UNCHANGED <<stmt, nodepool, charpool, charptr, call>>

ShellCommand ==
    /\ Ahead("shell")
    /\ parse_tree' = Null /\ mode' = "PROMPT" /\ script' = <<>>
    /\ UNCHANGED <<stmt, nodepool, charpool, charptr, stack, call>>

quit == Ahead("quit") /\ Stop("QUIT")

-----------------------------------------------------------------------------
(* interp: the tree becomes the call that executes it.  That the result    *)
(* relation fits (interp.C:83-117, 146-197) is the business of Query.      *)

Refused(error) == [fn |-> "none", error |-> error]

\* Mutant: the array of attributes may be full to the last entry but one.
TooManyBut(n) == n > MaxAttrs

TooMany(n) == n = MaxAttrs

\* The loops over lists stop after MAXATTRS elements.
Upto(list) ==
    LET all == Elements(nodepool, list)
    IN  IF Len(all) > MaxAttrs THEN SubSeq(all, 1, MaxAttrs) ELSE all

RelAttr(n) == [rel |-> Name(nodepool[n].relname), attr |-> Name(nodepool[n].attrname)]

RelAttrs(list) == LET nodes == Upto(list) IN [k \in DOMAIN nodes |-> RelAttr(nodes[k])]

\* strcpy into an attrInfo.  A name that does not fit runs on into the field
\* behind, which is set next: what stands there is no name of the catalogs.
Field(s) == IF s \in Str /\ StrLen[s] >= MaxName THEN Garbled ELSE s

AttrInfo(a)      == [rel |-> Field(a.rel), attr |-> Field(a.attr)]
AttrInfos(attrs) == [k \in DOMAIN attrs |-> AttrInfo(attrs[k])]

\* The text value_of makes of a value node, as the operators read it: with the
\* type of the node.
ValueOf(n) ==
    LET v == nodepool[n]
    IN  CASE v.type = "INTEGER" -> [type |-> v.type, bits |-> v.bits]
          [] v.type = "FLOAT"   -> [type |-> v.type, bits |-> SixDecimals(v.bits)]
          [] v.type = "STRING"  -> [type |-> v.type, str |-> Name(v.sval)]

\* mk_attrnames: all attributes are from relname, or from that of the first.
mk_attrnames(list, relname) ==
    LET attrs == RelAttrs(list)
        rel   == IF relname = NoName THEN attrs[1].rel ELSE relname
    IN  IF \E k \in DOMAIN attrs : attrs[k].rel # rel THEN Refused("E_INCOMPATIBLE")
        ELSE IF TooMany(Len(attrs)) THEN Refused("E_TOOMANYATTRS")
        ELSE [fn |-> "attrnames", attrs |-> attrs]

mk_qual_attrs(list, relname1, relname2) ==
    LET attrs == RelAttrs(list)
    IN  IF \E k \in DOMAIN attrs : attrs[k].rel \notin {relname1, relname2}
        THEN Refused("E_INCOMPATIBLE")
        ELSE IF TooMany(Len(attrs)) THEN Refused("E_TOOMANYATTRS")
        ELSE [fn |-> "qual_attrs", attrs |-> attrs]

ResultName(n) == IF n.relname = Null THEN Tmp ELSE Name(n.relname)

\* The joined attributes follow the others in the array.
QueryCallOf(n) ==
    IF n.qual = Null THEN
        LET mk == mk_attrnames(n.attrlist, NoName)
        IN  IF mk.fn = "none" THEN mk
            ELSE [fn |-> "QU_Select", result |-> ResultName(n),
                  attrs |-> AttrInfos(mk.attrs), where |-> [kind |-> "NONE"]]
    ELSE IF nodepool[n.qual].kind = "N_SELECT" THEN
        LET qual == nodepool[n.qual]
            mk   == mk_attrnames(n.attrlist, RelAttr(qual.selattr).rel)
        IN  IF mk.fn = "none" THEN mk
            ELSE [fn |-> "QU_Select", result |-> ResultName(n),
                  attrs |-> AttrInfos(mk.attrs),
                  where |-> [kind |-> "VALUE", attr |-> AttrInfo(RelAttr(qual.selattr)),
                             op |-> qual.op, value |-> ValueOf(qual.value)]]
    ELSE
        LET qual  == nodepool[n.qual]
            attr1 == RelAttr(qual.joinattr1)
            attr2 == RelAttr(qual.joinattr2)
            mk    == mk_qual_attrs(n.attrlist, attr1.rel, attr2.rel)
        IN  IF mk.fn = "none" THEN mk
            ELSE [fn |-> "QU_Join", result |-> ResultName(n),
                  attrs |-> AttrInfos(mk.attrs \o <<attr1, attr2>>), op |-> qual.op]

Pairs(list) ==
    LET attrs == Upto(list)
    IN  [k \in DOMAIN attrs |-> [attr |-> Name(nodepool[attrs[k]].attrname),
                                 value |-> ValueOf(nodepool[attrs[k]].value)]]

TooLong(v) == v.type = "STRING" /\ StrLen[v.str] > MaxStringLen

mk_ins_attrs(list) ==
    LET pairs == Pairs(list)
    IN  IF \E k \in DOMAIN pairs : TooLong(pairs[k].value) THEN Refused("E_STRINGTOOLONG")
        ELSE IF TooMany(Len(pairs)) THEN Refused("E_TOOMANYATTRS")
        ELSE [fn |-> "ins_attrs", attrs |-> pairs]

InsertCallOf(n) ==
    LET mk == mk_ins_attrs(n.attrlist)
    IN  IF mk.fn = "none" THEN mk
        ELSE [fn |-> "QU_Insert", relname |-> Name(n.relname),
              attrs |-> [k \in DOMAIN mk.attrs |-> [mk.attrs[k] EXCEPT !.attr = Field(@)]]]

\* Only a selection may qualify a DELETE.  The relation its attribute names is
\* not looked at, and the name of the attribute not copied.
DeleteCallOf(n) ==
    IF n.qual = Null THEN
        [fn |-> "QU_Delete", relname |-> Name(n.relname), where |-> [kind |-> "NONE"]]
    ELSE IF nodepool[n.qual].kind # "N_SELECT" THEN Refused("Syntax Error")
    ELSE [fn |-> "QU_Delete", relname |-> Name(n.relname),
          where |-> [kind |-> "VALUE", attr |-> RelAttr(nodepool[n.qual].selattr).attr,
                     op |-> nodepool[n.qual].op, value |-> ValueOf(nodepool[n.qual].value)]]

parse_format_string(format) ==
    CASE format = IntFormat   -> [ok |-> TRUE, type |-> "INTEGER", len |-> 4]
      [] format = FloatFormat -> [ok |-> TRUE, type |-> "FLOAT", len |-> 4]
      [] format \in 1 .. 255  -> [ok |-> TRUE, type |-> "STRING", len |-> format]
      [] OTHER                -> [ok |-> FALSE]

mk_attr_descrs(list) ==
    LET attrs == Upto(list)
        formats == [k \in DOMAIN attrs |-> parse_format_string(nodepool[attrs[k]].type)]
    IN  IF \E k \in DOMAIN formats : ~formats[k].ok THEN Refused("E_INVFORMATSTRING")
        ELSE IF TooMany(Len(attrs)) THEN Refused("E_TOOMANYATTRS")
        ELSE [fn |-> "attr_descrs",
              attrs |-> [k \in DOMAIN attrs |->
                           [attr |-> Name(nodepool[attrs[k]].attrname),
                            type |-> formats[k].type, len |-> formats[k].len]]]

\* The primary attribute is not passed on.
CreateCallOf(n) ==
    LET mk == mk_attr_descrs(n.attrlist)
    IN  IF mk.fn = "none" THEN mk
        ELSE [fn |-> "createRel", relname |-> Name(n.relname),
              attrs |-> [k \in DOMAIN mk.attrs |-> [mk.attrs[k] EXCEPT !.attr = Field(@)]]]

CallOf(n) ==
    CASE n.kind = "N_QUERY"   -> QueryCallOf(n)
      [] n.kind = "N_INSERT"  -> InsertCallOf(n)
      [] n.kind = "N_DELETE"  -> DeleteCallOf(n)
      [] n.kind = "N_CREATE"  -> CreateCallOf(n)
      [] n.kind = "N_DESTROY" -> [fn |-> "destroyRel", relname |-> Name(n.relname)]
      [] n.kind = "N_LOAD"    -> [fn |-> "UT_Load", relname |-> Name(n.relname),
                                  file |-> Name(n.filename)]
      [] n.kind = "N_PRINT"   -> [fn |-> "UT_Print", relname |-> Name(n.relname)]
      [] n.kind = "N_HELP"    -> [fn |-> "help", relname |-> Name(n.relname)]

\* interp has no case for the statements about indexes: assert(0).
NoCase == {"N_BUILD", "N_DROP"}

\* The values that value_of copies for a tree: that of a condition, and those
\* of an INSERT up to the first that is too long.
Copied(n) ==
    CASE n.kind = "N_INSERT" ->
            LET pairs == Pairs(n.attrlist)
            IN  {pairs[k].value :
                    k \in {k \in DOMAIN pairs : \A j \in 1 .. k : ~TooLong(pairs[j].value)}}
      [] n.kind \in {"N_QUERY", "N_DELETE"} ->
            LET c == CallOf(n)
            IN  IF "where" \in DOMAIN c /\ c.where.kind = "VALUE" THEN {c.where.value} ELSE {}
      [] OTHER -> {}

\* The string and its end take more than len bytes.
LongerThan(v, len) == v.type = "STRING" /\ StrLen[v.str] + 1 > len

\* A string too long for value_of is written past its array all the same.  That
\* ends the program, or does no harm if nothing lies there.
interp ==
    /\ mode = "INTERP"
    /\ LET n == nodepool[parse_tree]
       IN  \/ n.kind \in NoCase /\ Stop("ABORT")
           \/ (\E v \in Copied(n) : LongerThan(v, MaxValue)) /\ Stop("OVERRUN")
           \/ /\ n.kind \notin NoCase
              /\ \A v \in Copied(n) : ~LongerThan(v, MaxFrame)
              /\ call' = CallOf(n) /\ mode' = "PROMPT"
              /\ UNCHANGED <<stmt, script, nodepool, charpool, charptr, stack, parse_tree>>

Next == \/ \E st \in Statements : Prompt(st)
        \/ SyntaxError
        \/ get_id
        \/ get_qstring
        \/ nothing
        \/ ReduceNode
        \/ ReduceQuery
        \/ ReduceInsert
        \/ Accept
        \/ ShellCommand
        \/ quit
        \/ interp

Spec == Init /\ [][Next]_vars

-----------------------------------------------------------------------------
(* What the statements mean.                                               *)

\* The relations a qualifier may stand for: a table's name or an alias, and
\* nothing only if there is one table.
Meaning(st, q) ==
    {st.tables[k].rel : k \in
        {k \in DOMAIN st.tables :
            \/ q = NoName /\ Len(st.tables) = 1
            \/ q # NoName /\ q \in {st.tables[k].rel, st.tables[k].alias}}}

WhereAttrs(w) == CASE w.kind = "NONE"  -> <<>>
                   [] w.kind = "VALUE" -> <<w.attr>>
                   [] w.kind = "ATTR"  -> <<w.attr, w.attr2>>

\* The given attribute is the one that was typed, of a relation its qualifier
\* means; names that are longer than any name of the catalogs stay so.
Meant(st, given, a) ==
    given.attr = Field(a.attr) /\ given.rel \in {Field(r) : r \in Meaning(st, a.rel)}

\* A value as it is passed: an int and a string as typed, a float up to its
\* sixth decimal.
Passed(v) == IF v.type = "FLOAT" THEN [v EXCEPT !.bits = SixDecimals(v.bits)] ELSE v

AllMeant(st, given, attrs) ==
    Len(given) = Len(attrs) /\ \A k \in DOMAIN attrs : Meant(st, given[k], attrs[k])

\* The relations the attributes of the result may be from.
Sources(st) ==
    UNION {Meaning(st, a.rel) :
            a \in Range(IF st.where.kind = "NONE" THEN <<st.attrs[1]>>
                        ELSE WhereAttrs(st.where))}

\* Refusing a query needs a reason.
MayRefuse(st) ==
    LET all == Range(st.attrs \o WhereAttrs(st.where))
    IN  \/ \E a \in all : Meaning(st, a.rel) = {}
        \/ \E a \in Range(st.attrs) : ~(Meaning(st, a.rel) \subseteq Sources(st))
        \/ \E a \in all : \E r, q \in Meaning(st, a.rel) : r # q
        \/ Len(st.attrs) >= MaxAttrs

WhereMeant(st) ==
    CASE st.where.kind = "NONE"  -> /\ call.fn = "QU_Select" /\ call.where.kind = "NONE"
                                    /\ AllMeant(st, call.attrs, st.attrs)
      [] st.where.kind = "VALUE" -> /\ call.fn = "QU_Select" /\ call.where.kind = "VALUE"
                                    /\ Meant(st, call.where.attr, st.where.attr)
                                    /\ call.where.op = st.where.op
                                    /\ call.where.value = Passed(st.where.value)
                                    /\ AllMeant(st, call.attrs, st.attrs)
      [] st.where.kind = "ATTR"  -> /\ call.fn = "QU_Join" /\ call.op = st.where.op
                                    /\ AllMeant(st, call.attrs, st.attrs \o WhereAttrs(st.where))

\* The statement was read to its end, for only a syntax error gives its
\* characters back, and what became of it is known.
Answered(kind) ==
    mode = "PROMPT" /\ stmt # NoStatement /\ charptr > 0 /\ stmt.kind = kind

-----------------------------------------------------------------------------
(* Properties                                                              *)

\* The pools hold nodes of parse.h and strings, no more of either than there
\* is room for; every list runs to earlier cells; the arrays of attributes of
\* interp.C, MAXATTRS + 1 entries each, are never written past their end.
TypeOK ==
    /\ Len(nodepool) <= MaxNode /\ charptr <= MaxChar
    /\ \A s \in Range(charpool) : s \in DOMAIN StrLen
    /\ \A i \in DOMAIN nodepool :
         nodepool[i].kind = "N_LIST" => nodepool[i].self < i /\ nodepool[i].next < i
    /\ \A k \in DOMAIN stack : stack[k] \in Nat
    /\ parse_tree \in 0 .. MaxNode
    /\ "attrs" \in DOMAIN call => Len(call.attrs) <= MaxAttrs + 1
    /\ mode \in {"PROMPT", "READ", "INTERP", "QUIT", "ABORT", "OUT_OF_NODES", "OUT_OF_CHARS",
                "OVERRUN"}

\* A SELECT reaches QU_Select or QU_Join with the result, the attributes and
\* the condition that were typed, every attribute of the relation its
\* qualifier names or is an alias of, a float up to its sixth decimal
\* (interp.C:955); one that is not passed on has a
\* qualifier that names no table or more than one, attributes of a relation
\* that the condition is not about, or too many attributes (parse.y:145,
\* nodes.C:467-598, mk_attrnames, mk_qual_attrs).
QueryCall ==
    Answered("SELECT") =>
        IF call.fn = "none" THEN MayRefuse(stmt)
        ELSE /\ call.result = IF stmt.into = NoName THEN Tmp ELSE stmt.into
             /\ WhereMeant(stmt)

\* The type the interpreter gives an attribute of CREATE.
Described(given, d) ==
    /\ given.attr = Field(d.attr)
    /\ CASE d.type = "int"   -> given.type = "INTEGER"
         [] d.type = "real"  -> given.type = "FLOAT"
         [] d.type = "char"  -> given.type = "STRING" /\ given.len = 2
         [] d.type = "char(" -> d.len.bits >= 0 => given.type = "STRING" /\ given.len = d.len.bits

\* An INSERT pairs the k-th attribute with the k-th value, floats up to their
\* sixth decimal, or is refused for lists of different lengths, long strings or
\* too many attributes; a DELETE keeps its condition; a CREATE makes attributes
\* of the types that were typed if all lengths are in 1 .. 255 (nodes.C:439,
\* mk_ins_attrs, value_of, mk_attr_descrs, interp.C:509).  A name that an
\* attrInfo has no room for never becomes one that it has room for.
UpdateCall ==
    /\ Answered("INSERT") =>
         IF call.fn = "none"
         THEN \/ Len(stmt.attrs) # Len(stmt.values) \/ Len(stmt.attrs) >= MaxAttrs
              \/ \E v \in Range(stmt.values) : TooLong(v)
         ELSE /\ call.relname = stmt.rel
              /\ Len(stmt.attrs) = Len(stmt.values)
              /\ call.attrs = [k \in DOMAIN stmt.attrs |->
                                 [attr |-> Field(stmt.attrs[k]), value |-> Passed(stmt.values[k])]]
    /\ Answered("DELETE") =>
         IF call.fn = "none" THEN stmt.where.kind = "ATTR"
         ELSE /\ call.relname = stmt.rel /\ call.where.kind = stmt.where.kind
              /\ stmt.where.kind = "VALUE" =>
                   call.where = [kind |-> "VALUE", attr |-> stmt.where.attr.attr,
                                 op |-> stmt.where.op, value |-> Passed(stmt.where.value)]
    /\ Answered("CREATE") =>
         IF call.fn = "none"
         THEN \/ Len(stmt.attrs) >= MaxAttrs
              \/ \E d \in Range(stmt.attrs) :
                   d.type = "char(" /\ (d.len.type # "INTEGER" \/ d.len.bits \notin 1 .. 255)
         ELSE /\ call.relname = stmt.rel /\ Len(call.attrs) = Len(stmt.attrs)
              /\ \A k \in DOMAIN stmt.attrs : Described(call.attrs[k], stmt.attrs[k])

\* The nodes a statement takes and the bytes of its strings, counted on its text.
Total(f) ==
    LET sum[n \in 0 .. Len(f)] == IF n = 0 THEN 0 ELSE sum[n - 1] + f[n]
    IN  sum[Len(f)]

WhereNodes(w) == IF w.kind = "NONE" THEN 0 ELSE 3

AttrtypeNodes(d) == IF d.type = "char(" THEN 2 ELSE 1

NodesOf(st) ==
    CASE st.kind = "SELECT" -> 2 * Len(st.attrs) + 2 * Len(st.tables) + WhereNodes(st.where) + 1
      [] st.kind = "INSERT" -> 2 * Len(st.attrs) + 2 * Len(st.values) + 1
      [] st.kind = "DELETE" -> WhereNodes(st.where) + 1
      [] st.kind = "CREATE" ->
            Len(st.attrs) + Total([k \in DOMAIN st.attrs |-> AttrtypeNodes(st.attrs[k])])
              + (IF st.primary = NoName THEN 0 ELSE 1) + 1
      [] OTHER -> 1

Bytes(s) == IF s = NoName THEN 0 ELSE StrLen[s] + 1

LiteralBytes(v)  == IF v.type = "STRING" THEN Bytes(v.str) ELSE 0
QualattrBytes(a) == Bytes(a.rel) + Bytes(a.attr)
TableBytes(t)    == Bytes(t.rel) + Bytes(t.alias)

WhereBytes(w) ==
    CASE w.kind = "NONE"  -> 0
      [] w.kind = "VALUE" -> QualattrBytes(w.attr) + LiteralBytes(w.value)
      [] w.kind = "ATTR"  -> QualattrBytes(w.attr) + QualattrBytes(w.attr2)

TotalOf(BytesOf(_), elements) == Total([k \in DOMAIN elements |-> BytesOf(elements[k])])

AttrtypeBytes(d) == Bytes(d.attr)

CharsOf(st) ==
    CASE st.kind = "SELECT" -> TotalOf(QualattrBytes, st.attrs) + Bytes(st.into)
                               + TotalOf(TableBytes, st.tables) + WhereBytes(st.where)
      [] st.kind = "INSERT" -> Bytes(st.rel) + TotalOf(Bytes, st.attrs)
                               + TotalOf(LiteralBytes, st.values)
      [] st.kind = "DELETE" -> Bytes(st.rel) + WhereBytes(st.where)
      [] st.kind = "CREATE" -> Bytes(st.rel) + TotalOf(AttrtypeBytes, st.attrs)
                               + Bytes(st.primary)
      [] st.kind = "LOAD"   -> Bytes(st.rel) + Bytes(st.file)
      [] st.kind \in {"BUILD", "DROP"} -> Bytes(st.rel) + Bytes(st.attr)
      [] st.kind \in {"DESTROY", "PRINT", "HELP"} -> Bytes(st.rel)
      [] OTHER -> 0

\* The literals a statement gives to its operator.
ValuesOf(st) ==
    CASE st.kind = "INSERT" -> Range(st.values)
      [] st.kind \in {"SELECT", "DELETE"} ->
            IF st.where.kind = "VALUE" THEN {st.where.value} ELSE {}
      [] OTHER -> {}

\* The program ends for QUIT or the end of its input, and without closing the
\* catalogs only for a statement that by itself takes more nodes or characters
\* than there are, is about indexes, or has a string of MaxValue characters or
\* more where value_of copies it, which INSERT lets through only up to
\* MaxStringLen: what earlier statements and syntax errors took is free again
\* (nodes.C:42, newnode, string_alloc, interp.C:644, value_of).
StopsForCause ==
    /\ mode = "OUT_OF_NODES" => NodesOf(stmt) > MaxNode
    /\ mode = "OUT_OF_CHARS" => CharsOf(stmt) > MaxChar
    /\ mode = "QUIT"  => stmt.kind \in {"QUIT", "EOF"}
    /\ mode = "ABORT" => stmt.kind \in {"BUILD", "DROP"}
    /\ mode = "OVERRUN" => \E v \in ValuesOf(stmt) :
                               LongerThan(v, MaxValue) /\ (stmt.kind = "INSERT" => ~TooLong(v))
    /\ mode = "INTERP" => Len(nodepool) = NodesOf(stmt)
=============================================================================
