------------------------------ MODULE MCParser ------------------------------
\* Small statements over two relations and two aliases, and statements at the
\* limits of the arrays, which have the sizes of the code.
EXTENDS Parser

Rels == {"r", "s"}

T(rel, alias) == [rel |-> rel, alias |-> alias]
A(rel, attr)  == [rel |-> rel, attr |-> attr]

TableLists == {<<T("r", NoName)>>, <<T("r", "x")>>,
               <<T("r", NoName), T("s", NoName)>>, <<T("r", "x"), T("s", NoName)>>,
               <<T("r", "s"), T("s", "r")>>, <<T("r", "x"), T("r", "y")>>}
Attrs   == {A(q, "a") : q \in {NoName, "r", "s", "x"}}
Num(n)  == [type |-> "INTEGER", bits |-> n]
Quoted(s) == [type |-> "STRING", str |-> s]
Half    == [type |-> "FLOAT", bits |-> 1056964608]    \* the bits of 0.5
Tiny    == [type |-> "FLOAT", bits |-> 869711765]     \* those of 1e-7, printed as 0.000000
None    == [kind |-> "NONE"]
Value(a, v) == [kind |-> "VALUE", attr |-> a, op |-> "EQ", value |-> v]
Join(a, b)  == [kind |-> "ATTR", attr |-> a, op |-> "LT", attr2 |-> b]

Select(attrs, into, tables, where) ==
    [kind |-> "SELECT", attrs |-> attrs, into |-> into, tables |-> tables, where |-> where]
Insert(attrs, values) ==
    [kind |-> "INSERT", rel |-> "r", attrs |-> attrs, values |-> values]
Delete(where) == [kind |-> "DELETE", rel |-> "r", where |-> where]
Create(attrs, primary) ==
    [kind |-> "CREATE", rel |-> "r", attrs |-> attrs, primary |-> primary]
D(attr, type) == [attr |-> attr, type |-> type]
DChar(attr, len) == [attr |-> attr, type |-> "char(", len |-> len]

Times(n, e) == [k \in 1 .. n |-> e]

Selects ==
    {Select(<<a>>, "t", ts, None) : a \in Attrs, ts \in TableLists}
    \cup {Select(<<a, b>>, NoName, ts, None) : a \in Attrs, b \in Attrs, ts \in TableLists}
    \cup {Select(<<a>>, NoName, ts, Value(b, Num(1))) : a \in Attrs, b \in Attrs, ts \in TableLists}
    \cup {Select(<<a, A("s", "b")>>, "t", ts, Join(b, c)) :
            a \in Attrs, b \in Attrs, c \in Attrs, ts \in TableLists}

Inserts ==
    {Insert(as, vs) : as \in {<<"a">>, <<"a", "b">>, <<"b", "a">>},
                      vs \in {<<Num(1)>>, <<Tiny, Half>>, <<Quoted("fits"), Num(1)>>,
                              <<Quoted("most"), Quoted("long")>>, <<Quoted("long"), Quoted("most")>>,
                              <<Num(1), Num(2), Num(3)>>}}

Deletes == {Delete(None), Delete(Join(A("r", "a"), A("s", "a")))}
            \cup {Delete(Value(A("s", "a"), v)) :
                    v \in {Half, Tiny} \cup {Quoted(s) : s \in {"fits", "most", "long", "harm"}}}

\* Strings and names at the ends of the arrays they are copied to.
Copies ==
    {Select(<<A("r", "a")>>, NoName, <<T("r", NoName)>>, Value(A("x", a), v)) :
        a \in {"name", "longname"}, v \in {Tiny, Quoted("fits"), Quoted("harm")}}
    \cup {Select(<<A("r", "a")>>, NoName, <<T("r", NoName)>>, Value(A("r", a), v)) :
            a \in {"name", "longname"}, v \in {Tiny, Quoted("fits"), Quoted("most"), Quoted("harm")}}
    \cup {Select(<<A("x", "name")>>, NoName, <<T("longname", "x"), T("r", NoName)>>, w) :
            w \in {None, Value(A("x", "longname"), Half), Join(A("x", "a"), A("r", "longname"))}}
    \cup {Insert(<<a>>, <<Num(1)>>) : a \in {"name", "longname"}}
    \cup {Delete(Value(A("r", "longname"), Num(1)))}
    \cup {Create(<<D(a, "int")>>, NoName) : a \in {"name", "longname"}}

Creates ==
    {Create(<<D("a", t), DChar("b", n)>>, p) :
        t \in {"int", "real", "char"}, n \in {Num(-23), Num(0), Num(255), Num(256), Half},
        p \in {NoName, "a"}}

Others ==
    {[kind |-> "DESTROY", rel |-> "r"], [kind |-> "DESTROY", rel |-> "longid"],
     [kind |-> "PRINT", rel |-> "r"], [kind |-> "HELP", rel |-> NoName],
     [kind |-> "HELP", rel |-> "r"],
     [kind |-> "LOAD", rel |-> "r", file |-> "fits"],
     [kind |-> "LOAD", rel |-> "r", file |-> "huge"],
     [kind |-> "BUILD", rel |-> "r", attr |-> "a"],
     [kind |-> "DROP", rel |-> "r", attr |-> "a"], [kind |-> "DROP", rel |-> "r", attr |-> NoName],
     [kind |-> "EMPTY"], [kind |-> "SHELL"], [kind |-> "QUIT"], [kind |-> "EOF"]}

\* 24 attributes of INSERT fit into 100 nodes, 25 do not; 33 of type char(n)
\* take all 100, and so do 40 attributes of SELECT not.  100 of the longest
\* identifiers take all 5000 characters.
AtTheLimits ==
    {Insert(Times(n, "a"), Times(n, Num(1))) : n \in {24, 25}}
    \cup {Insert(Times(20, "a"), Times(20, Quoted("most")))}
    \cup {Create(Times(n, DChar("a", Num(9))), NoName) : n \in {33, 34}}
    \cup {Create(Times(n, D("a", "int")), NoName) : n \in {39, 40}}
    \cup {Select(Times(n, A("r", "a")), NoName, <<T("r", NoName)>>, w) :
            n \in {39, 40}, w \in {None, Join(A("r", "a"), A("r", "b"))}}
    \cup {Select(Times(n, A("ident", "ident")), NoName, <<T("r", NoName)>>, None) : n \in {49, 50}}

MCStatements ==
    Selects \cup Inserts \cup Deletes \cup Copies \cup Creates \cup Others \cup AtTheLimits

MCStrLen ==
    [s \in {"r", "s", "t", "x", "y", "a", "b", "name", "longname", "ident", "longid",
            "fits", "most", "long", "harm", "huge"} |->
        CASE s = "name" -> 31 [] s = "longname" -> 32 [] s = "ident" -> 49 [] s = "longid" -> 50
          [] s = "fits" -> 254 [] s = "most" -> 255 [] s = "long" -> 256 [] s = "harm" -> 265
          [] s = "huge" -> 5000 [] OTHER -> 1]

MCSixDecimals(b) == IF b = Tiny.bits THEN 0 ELSE b
=============================================================================
