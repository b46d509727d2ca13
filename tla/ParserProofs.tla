---------------------------- MODULE ParserProofs ----------------------------
(***************************************************************************)
(* Proofs about the parser and the interpreter's calls, for any            *)
(* statements, strings and sizes of the pools.                             *)
(*                                                                         *)
(* What the parser has made so far is a place (Place).  The moves that     *)
(* are left for a statement lead from where the parser is to the place at  *)
(* which the statement is read, however large that is (Runs), and there    *)
(* the pools hold the statement (IsRead): the nodes it takes, the bytes of *)
(* its strings, and its tree.  The pools only grow on the way, so one that *)
(* is full is too small for the statement.                                 *)
(***************************************************************************)
EXTENDS Parser, FiniteSetTheorems, SequenceTheorems, NaturalsInduction,
        WellFoundedInduction, TLAPS

\* For what is proved by a least counterexample, and for the CHOOSEs.
LEMMA Least ==
    ASSUME NEW T, T \subseteq Nat, T # {}
    PROVE  \E x \in T : \A y \in T : x <= y
<1>. DEFINE R == OpToRel(<, Nat)
<1>1. \A x, y \in Nat : (<<y, x>> \in R) <=> (y < x)
  BY DEF OpToRel
<1>2. IsWellFoundedOn(R, Nat)
  BY NatLessThanWellFounded
<1>. HIDE DEF R
<1>3. PICK x \in T : \A y \in T : <<y, x>> \notin R
  BY <1>2, WFMin
<1>4. \A y \in T : y \in Nat /\ x \in Nat /\ ~(y < x)
  BY <1>1, <1>3
<1>. QED BY <1>4

-----------------------------------------------------------------------------
(* Nodes and moves.                                                        *)

Node ==
    [kind : {"N_QUERY"}, relname : Nat, attrlist : Nat, qual : Nat]
    \cup [kind : {"N_INSERT"}, relname : Nat, attrlist : Nat]
    \cup [kind : {"N_DELETE"}, relname : Nat, qual : Nat]
    \cup [kind : {"N_CREATE"}, relname : Nat, attrlist : Nat, primattr : Nat]
    \cup [kind : {"N_DESTROY", "N_PRINT", "N_HELP"}, relname : Nat]
    \cup [kind : {"N_BUILD"}, relname : Nat, attrname : Nat, nbuckets : Nat]
    \cup [kind : {"N_DROP", "N_QUALATTR"}, relname : Nat, attrname : Nat]
    \cup [kind : {"N_LOAD"}, relname : Nat, filename : Nat]
    \cup [kind : {"N_SELECT"}, selattr : Nat, op : STRING, value : Nat]
    \cup [kind : {"N_JOIN"}, joinattr1 : Nat, op : STRING, joinattr2 : Nat]
    \cup [kind : {"N_PRIMATTR"}, attrname : Nat]
    \cup [kind : {"N_ATTRVAL"}, attrname : Nat, value : Nat]
    \cup [kind : {"N_ATTRTYPE"}, attrname : Nat, type : Int]
    \cup [kind : {"N_VALUE"}, type : {"INTEGER", "FLOAT"}, bits : Int]
    \cup [kind : {"N_VALUE"}, type : {"STRING"}, sval : Nat]
    \cup [kind : {"N_LIST"}, self : Nat, next : Nat]
    \cup [kind : {"N_ALIAS"}, relname : Nat, alias : Nat]

LEMMA NodesTyped ==
    ASSUME NEW p \in Nat, NEW q \in Nat, NEW r \in Nat, NEW n \in Int
    PROVE  /\ query_node(p, q, r) \in Node /\ insert_node(p, q) \in Node
           /\ delete_node(p, q) \in Node /\ create_node(p, q, r) \in Node
           /\ destroy_node(p) \in Node /\ build_node(p, q, r) \in Node
           /\ drop_node(p, q) \in Node /\ load_node(p, q) \in Node
           /\ print_node(p) \in Node /\ help_node(p) \in Node
           /\ \A cmp \in STRING :
                select_node(p, cmp, q) \in Node /\ join_node(p, cmp, q) \in Node
           /\ primattr_node(p) \in Node /\ qualattr_node(p, q) \in Node
           /\ attrval_node(p, q) \in Node /\ attrtype_node(p, n) \in Node
           /\ int_node(n) \in Node /\ float_node(n) \in Node /\ string_node(p) \in Node
           /\ list_node(p) \in Node /\ prepend(p, q) \in Node /\ alias_node(p, q) \in Node
BY DEF Node, Null, query_node, insert_node, delete_node, create_node, destroy_node, build_node,
       drop_node, load_node, print_node, help_node, select_node, join_node, primattr_node,
       qualattr_node, attrval_node, attrtype_node, int_node, float_node, string_node,
       list_node, prepend, alias_node

AnyMove ==
    [op : {"id", "qstring"}, str : Str]
    \cup [op : {"nothing", "query", "insert", "command", "shell", "quit"}]
    \cup [op : {"string", "qualattr", "alias", "attrval", "list", "prepend", "attrtypelen",
                "primattr", "delete", "create", "destroy", "build", "drop", "load", "print",
                "help"}, arity : Nat]
    \cup [op : {"INTEGER", "FLOAT"}, bits : Int, arity : {0}]
    \cup [op : {"select", "join"}, cmp : STRING, arity : {2}]
    \cup [op : {"attrtype"}, format : Int, arity : {1}]

\* The moves that every statement is read with.
Pushes(m) == m.op \in {"id", "qstring"}
Reduces(m) == "arity" \in DOMAIN m

-----------------------------------------------------------------------------
(* Places, and the moves between them when there is room.                  *)

\* A list ends, and its cells are cells of lists.
Linked(nodes) ==
    \A i \in Cells(nodes) : /\ nodes[i].self < i /\ nodes[i].next < i
                            /\ nodes[i].next \in {Null} \cup Cells(nodes)

Place ==
    {c \in [nodes : Seq(Node), chars : Seq(Str), used : Nat, stack : Seq(Nat)] :
        Linked(c.nodes)}

Pushed(c, s) ==
    [nodes |-> c.nodes, chars |-> Append(c.chars, s), used |-> c.used + StrLen[s] + 1,
     stack |-> Append(c.stack, Len(c.chars) + 1)]

LeftOut(c) ==
    [nodes |-> c.nodes, chars |-> c.chars, used |-> c.used, stack |-> Append(c.stack, Null)]

Top(c, n) == [i \in 1 .. n |-> c.stack[Len(c.stack) - n + i]]

Reduced(c, n, node) ==
    [nodes |-> Append(c.nodes, node), chars |-> c.chars, used |-> c.used,
     stack |-> Append(SubSeq(c.stack, 1, Len(c.stack) - n), Len(c.nodes) + 1)]

Step(c, m, d) ==
    \/ Pushes(m) /\ d = Pushed(c, m.str)
    \/ m.op = "nothing" /\ d = LeftOut(c)
    \/ /\ Reduces(m) /\ m.arity <= Len(c.stack)
       /\ d = Reduced(c, m.arity, NodeOf(c.nodes, m, Top(c, m.arity)))

\* The pools of d go on from those of c.
Extends(c, d) ==
    /\ Len(c.nodes) <= Len(d.nodes) /\ \A i \in DOMAIN c.nodes : d.nodes[i] = c.nodes[i]
    /\ Len(c.chars) <= Len(d.chars) /\ \A i \in DOMAIN c.chars : d.chars[i] = c.chars[i]
    /\ c.used <= d.used

\* The moves p lead from c to d.
Run(c, p, d, h) ==
    /\ h \in [0 .. Len(p) -> Place] /\ h[0] = c /\ h[Len(p)] = d
    /\ \A k \in 1 .. Len(p) : Step(h[k - 1], p[k], h[k])
    /\ \A k \in 0 .. Len(p) : Extends(h[k], d)

Runs(c, p, d) == \E h : Run(c, p, d, h)

LEMMA PlaceTyped ==
    ASSUME NEW c \in Place
    PROVE  /\ c.nodes \in Seq(Node) /\ c.chars \in Seq(Str) /\ c.used \in Nat
           /\ c.stack \in Seq(Nat)
           /\ Len(c.nodes) \in Nat /\ Len(c.chars) \in Nat /\ Len(c.stack) \in Nat
           /\ DOMAIN c.nodes = 1 .. Len(c.nodes) /\ DOMAIN c.chars = 1 .. Len(c.chars)
           /\ c = [nodes |-> c.nodes, chars |-> c.chars, used |-> c.used, stack |-> c.stack]
           /\ Linked(c.nodes)
BY DEF Place

LEMMA ExtendsItself ==
    ASSUME NEW c \in Place
    PROVE  Extends(c, c)
BY PlaceTyped DEF Extends

LEMMA ExtendsOn ==
    ASSUME NEW c \in Place, NEW d \in Place, NEW e \in Place, Extends(c, d), Extends(d, e)
    PROVE  Extends(c, e)
BY PlaceTyped DEF Extends

LEMMA NoMoves ==
    ASSUME NEW c \in Place
    PROVE  Runs(c, <<>>, c)
<1>1. Run(c, <<>>, c, [k \in 0 .. 0 |-> c])
  BY ExtendsItself DEF Run
<1>. QED BY <1>1 DEF Runs

LEMMA OneMove ==
    ASSUME NEW c \in Place, NEW m \in AnyMove, NEW d \in Place, Step(c, m, d), Extends(c, d)
    PROVE  Runs(c, <<m>>, d)
<1>. DEFINE h == [k \in 0 .. 1 |-> IF k = 0 THEN c ELSE d]
<1>1. Len(<<m>>) = 1 /\ <<m>>[1] = m
  OBVIOUS
<1>2. h \in [0 .. 1 -> Place] /\ h[0] = c /\ h[1] = d
  OBVIOUS
<1>3. Extends(d, d)
  BY ExtendsItself
<1>. HIDE DEF h
<1>4. Run(c, <<m>>, d, h)
  BY <1>1, <1>2, <1>3 DEF Run
<1>. QED BY <1>4 DEF Runs

LEMMA MovesMeet ==
    ASSUME NEW c \in Place, NEW d \in Place, NEW e \in Place,
           NEW p \in Seq(AnyMove), NEW q \in Seq(AnyMove), Runs(c, p, d), Runs(d, q, e)
    PROVE  Runs(c, p \o q, e) /\ p \o q \in Seq(AnyMove)
<1>1. PICK g : Run(c, p, d, g)
  BY DEF Runs
<1>2. PICK h : Run(d, q, e, h)
  BY DEF Runs
<1>. PICK m : m = Len(p)
  OBVIOUS
<1>. PICK n : n = Len(q)
  OBVIOUS
<1>3. /\ m \in Nat /\ n \in Nat /\ p \o q \in Seq(AnyMove) /\ Len(p \o q) = m + n
      /\ \A k \in 1 .. m : (p \o q)[k] = p[k]
      /\ \A k \in 1 .. n : (p \o q)[m + k] = q[k]
  OBVIOUS
<1>. DEFINE f == [k \in 0 .. m + n |-> IF k <= m THEN g[k] ELSE h[k - m]]
<1>4. /\ g \in [0 .. m -> Place] /\ g[0] = c /\ g[m] = d
      /\ \A k \in 1 .. m : Step(g[k - 1], p[k], g[k])
      /\ \A k \in 0 .. m : Extends(g[k], d)
  BY <1>1 DEF Run
<1>5. /\ h \in [0 .. n -> Place] /\ h[0] = d /\ h[n] = e
      /\ \A k \in 1 .. n : Step(h[k - 1], q[k], h[k])
      /\ \A k \in 0 .. n : Extends(h[k], e)
  BY <1>2 DEF Run
<1>6. /\ f \in [0 .. m + n -> Place] /\ \A k \in 0 .. m : f[k] = g[k]
      /\ \A k \in 0 .. n : f[m + k] = h[k]
  <2>1. m \in Nat /\ n \in Nat
    BY <1>3
  <2>2. \A k \in 0 .. m : k \in 0 .. m + n /\ f[k] = g[k]
    BY <2>1
  <2>3. \A k \in 0 .. n : m + k \in 0 .. m + n /\ f[m + k] = h[k]
    <3>1. ASSUME NEW k \in 0 .. n, k # 0 PROVE m + k \in 0 .. m + n /\ f[m + k] = h[k]
      <4>1. m + k \in 0 .. m + n /\ ~(m + k <= m) /\ (m + k) - m = k
        BY <2>1, <3>1
      <4>. QED BY <4>1
    <3>2. m + 0 \in 0 .. m + n /\ f[m + 0] = h[0]
      BY <1>4, <1>5, <2>1, <2>2
    <3>. QED BY <3>1, <3>2
  <2>4. ASSUME NEW k \in 0 .. m + n PROVE f[k] \in Place
    <3>1. CASE k <= m
      BY <1>4, <2>1, <3>1
    <3>2. CASE ~(k <= m)
      <4>1. k - m \in 0 .. n
        BY <2>1, <3>2
      <4>. QED BY <1>5, <3>2, <4>1
    <3>. QED BY <3>1, <3>2
  <2>. QED BY <2>2, <2>3, <2>4
<1>. HIDE DEF f
<1>7. f[0] = c /\ f[m + n] = e
  BY <1>3, <1>4, <1>5, <1>6
<1>8. ASSUME NEW k \in 1 .. m + n PROVE Step(f[k - 1], (p \o q)[k], f[k])
  <2>1. CASE k <= m
    <3>1. k \in 1 .. m /\ k - 1 \in 0 .. m
      BY <1>3, <2>1
    <3>. QED BY <1>3, <1>4, <1>6, <3>1
  <2>2. CASE ~(k <= m)
    <3>. PICK j : j = k - m
      OBVIOUS
    <3>1. j \in 1 .. n /\ j - 1 \in 0 .. n /\ k = m + j /\ k - 1 = m + (j - 1)
      BY <1>3, <2>2
    <3>2. f[m + j] = h[j] /\ f[m + (j - 1)] = h[j - 1]
      <4>1. j \in 0 .. n /\ j - 1 \in 0 .. n
        BY <1>3, <3>1
      <4>. QED BY <1>6, <4>1, ZenonT(40)
    <3>3. (p \o q)[m + j] = q[j]
      BY <1>3, <3>1
    <3>4. f[k - 1] = h[j - 1] /\ f[k] = h[j] /\ (p \o q)[k] = q[j]
      BY <3>1, <3>2, <3>3
    <3>. QED BY <1>5, <3>1, <3>4
  <2>. QED BY <2>1, <2>2
<1>9. ASSUME NEW k \in 0 .. m + n PROVE Extends(f[k], e)
  <2>1. CASE k <= m
    <3>1. k \in 0 .. m
      BY <1>3, <2>1
    <3>2. f[k] = g[k] /\ f[k] \in Place
      BY <1>4, <1>6, <3>1
    <3>3. Extends(d, e)
      BY <1>3, <1>5
    <3>. QED BY <1>4, <3>1, <3>3, <3>2, ExtendsOn
  <2>2. CASE ~(k <= m)
    <3>1. k - m \in 0 .. n /\ k = m + (k - m)
      BY <1>3, <2>2
    <3>. QED BY <1>5, <1>6, <3>1
  <2>. QED BY <2>1, <2>2
<1>10. Run(c, p \o q, e, f)
  BY <1>3, <1>6, <1>7, <1>8, <1>9 DEF Run
<1>. QED BY <1>3, <1>10 DEF Runs

LEMMA FirstMove ==
    ASSUME NEW c, NEW p \in Seq(AnyMove), NEW d, Runs(c, p, d), p # <<>>
    PROVE  \E e \in Place : /\ Step(c, Head(p), e) /\ Runs(e, Tail(p), d)
                            /\ Extends(e, d) /\ Extends(c, d) /\ c \in Place /\ d \in Place
<1>. PICK n : n = Len(p)
  OBVIOUS
<1>1. PICK h : Run(c, p, d, h)
  BY DEF Runs
<1>2. /\ n \in Nat \ {0} /\ Tail(p) \in Seq(AnyMove) /\ Len(Tail(p)) = n - 1 /\ Head(p) = p[1]
      /\ \A k \in 1 .. n - 1 : Tail(p)[k] = p[k + 1]
  BY EmptySeq, HeadTailProperties
<1>3. /\ h \in [0 .. n -> Place] /\ h[0] = c /\ h[n] = d
      /\ \A k \in 1 .. n : Step(h[k - 1], p[k], h[k])
      /\ \A k \in 0 .. n : Extends(h[k], d)
  BY <1>1 DEF Run
<1>. DEFINE g == [k \in 0 .. n - 1 |-> h[k + 1]]
<1>4. g \in [0 .. n - 1 -> Place] /\ g[0] = h[1] /\ g[n - 1] = d
  BY <1>2, <1>3
<1>5. ASSUME NEW k \in 1 .. n - 1 PROVE Step(g[k - 1], Tail(p)[k], g[k])
  <2>1. k + 1 \in 1 .. n /\ (k + 1) - 1 = k /\ k - 1 \in 0 .. n - 1 /\ k \in 0 .. n - 1
    BY <1>2
  <2>2. Step(h[k], p[k + 1], h[k + 1])
    BY <1>3, <2>1
  <2>3. g[k - 1] = h[k] /\ g[k] = h[k + 1]
    BY <2>1
  <2>. QED BY <1>2, <2>2, <2>3
<1>6. \A k \in 0 .. n - 1 : Extends(g[k], d)
  BY <1>2, <1>3
<1>. HIDE DEF g
<1>7. Run(h[1], Tail(p), d, g)
  BY <1>2, <1>4, <1>5, <1>6 DEF Run
<1>8. /\ h[1] \in Place /\ Step(c, Head(p), h[1]) /\ Extends(h[1], d) /\ Extends(c, d)
      /\ c \in Place /\ d \in Place
  BY <1>2, <1>3
<1>. QED BY <1>7, <1>8 DEF Runs

LEMMA NoneLeft ==
    ASSUME NEW c, NEW d, Runs(c, <<>>, d)
    PROVE  c = d
BY DEF Runs, Run

-----------------------------------------------------------------------------
(* Single moves.                                                           *)

\* The moves p lead from c to d and take n nodes and b bytes.
Leads(c, p, d, n, b) ==
    /\ c \in Place /\ d \in Place /\ p \in Seq(AnyMove) /\ Runs(c, p, d) /\ Extends(c, d)
    /\ Len(d.nodes) = Len(c.nodes) + n /\ d.used = c.used + b

LEMMA SumsMeet ==
    ASSUME NEW x \in Nat, NEW i \in Nat, NEW j \in Nat, NEW y, NEW z, y = x + i, z = y + j
    PROVE  z = x + (i + j)
OBVIOUS

LEMMA LeadsOn ==
    ASSUME NEW c, NEW d, NEW e, NEW p, NEW q, NEW n1 \in Nat, NEW b1 \in Nat,
           NEW n2 \in Nat, NEW b2 \in Nat, Leads(c, p, d, n1, b1), Leads(d, q, e, n2, b2)
    PROVE  Leads(c, p \o q, e, n1 + n2, b1 + b2)
<1>1. /\ c \in Place /\ d \in Place /\ e \in Place /\ p \in Seq(AnyMove) /\ q \in Seq(AnyMove)
      /\ Runs(c, p, d) /\ Runs(d, q, e) /\ Extends(c, d) /\ Extends(d, e)
      /\ Len(d.nodes) = Len(c.nodes) + n1 /\ Len(e.nodes) = Len(d.nodes) + n2
      /\ d.used = c.used + b1 /\ e.used = d.used + b2
  BY DEF Leads
<1>2. Runs(c, p \o q, e) /\ p \o q \in Seq(AnyMove)
  BY <1>1, MovesMeet
<1>3. Extends(c, e)
  BY <1>1, ExtendsOn
<1>4. Len(c.nodes) \in Nat /\ c.used \in Nat
  BY <1>1, PlaceTyped
<1>5. Len(e.nodes) = Len(c.nodes) + (n1 + n2)
  <2>1. PICK x : x = Len(c.nodes)
    OBVIOUS
  <2>2. PICK y : y = Len(d.nodes)
    OBVIOUS
  <2>3. PICK z : z = Len(e.nodes)
    OBVIOUS
  <2>4. x \in Nat /\ y = x + n1 /\ z = y + n2
    BY <1>1, <1>4, <2>1, <2>2, <2>3
  <2>5. z = x + (n1 + n2)
    BY <2>4, SumsMeet
  <2>. QED BY <2>1, <2>3, <2>5
<1>6. e.used = c.used + (b1 + b2)
  BY <1>1, <1>4, SumsMeet
<1>. QED BY <1>1, <1>2, <1>3, <1>5, <1>6 DEF Leads

LEMMA Concats ==
    /\ \A s, t, u \in Seq(Nat) : (s \o t) \o u = s \o (t \o u)
    /\ \A s, t \in Seq(Nat) : s \o t \in Seq(Nat)
    /\ \A s \in Seq(Nat), v \in Nat : Append(s, v) = s \o <<v>> /\ <<v>> \in Seq(Nat)
<1>1. \A s, t, u \in Seq(Nat) : (s \o t) \o u = s \o (t \o u)
  BY ConcatAssociative
<1>2. \A s, t \in Seq(Nat) : s \o t \in Seq(Nat)
  OBVIOUS
<1>3. \A s \in Seq(Nat), v \in Nat : Append(s, v) = s \o <<v>> /\ <<v>> \in Seq(Nat)
  BY AppendIsConcat
<1>. QED BY <1>1, <1>2, <1>3

LEMMA Stacked ==
    ASSUME NEW s \in Seq(Nat), NEW v1 \in Nat, NEW v2 \in Nat, NEW v3 \in Nat
    PROVE  /\ Append(s, v1) = s \o <<v1>>
           /\ Append(Append(s, v1), v2) = s \o <<v1, v2>>
           /\ Append(Append(Append(s, v1), v2), v3) = s \o <<v1, v2, v3>>
           /\ s \o <<>> = s
<1>1. \A t \in Seq(Nat), v \in Nat : Append(t, v) = t \o <<v>>
  BY AppendIsConcat
<1>2. \A t, u, w \in Seq(Nat) : (t \o u) \o w = t \o (u \o w)
  BY ConcatAssociative
<1>3. <<v1>> \o <<v2>> = <<v1, v2>> /\ <<v1, v2>> \o <<v3>> = <<v1, v2, v3>>
  <2>1. <<v1>> \o <<v2>> \in Seq(Nat) /\ <<v1, v2>> \in Seq(Nat)
    OBVIOUS
  <2>2. /\ Len(<<v1>> \o <<v2>>) = 2 /\ Len(<<v1, v2>>) = 2
        /\ \A i \in 1 .. 2 : (<<v1>> \o <<v2>>)[i] = <<v1, v2>>[i]
    OBVIOUS
  <2>3. <<v1, v2>> \o <<v3>> \in Seq(Nat) /\ <<v1, v2, v3>> \in Seq(Nat)
    OBVIOUS
  <2>4. /\ Len(<<v1, v2>> \o <<v3>>) = 3 /\ Len(<<v1, v2, v3>>) = 3
        /\ \A i \in 1 .. 3 : (<<v1, v2>> \o <<v3>>)[i] = <<v1, v2, v3>>[i]
    OBVIOUS
  <2>. QED BY <2>1, <2>2, <2>3, <2>4, SeqEqual
<1>4. /\ <<v1>> \in Seq(Nat) /\ <<v2>> \in Seq(Nat) /\ <<v3>> \in Seq(Nat)
      /\ <<v1, v2>> \in Seq(Nat)
  OBVIOUS
<1>5. Append(s, v1) \in Seq(Nat) /\ Append(Append(s, v1), v2) \in Seq(Nat)
  OBVIOUS
<1>6. Append(Append(s, v1), v2) = s \o <<v1, v2>>
  BY <1>1, <1>2, <1>3, <1>4, <1>5
<1>7. Append(Append(Append(s, v1), v2), v3) = (s \o <<v1, v2>>) \o <<v3>>
  BY <1>1, <1>5, <1>6
<1>8. (s \o <<v1, v2>>) \o <<v3>> = s \o <<v1, v2, v3>>
  BY <1>2, <1>3, <1>4
<1>9. s \o <<>> = s
  BY ConcatEmptySeq
<1>. QED BY <1>1, <1>6, <1>7, <1>8, <1>9

\* v is the pointer to s, or leads nowhere if s is left out.
IsName(chars, v, s) ==
    IF s = NoName THEN v = Null ELSE v \in DOMAIN chars /\ chars[v] = s

LEMMA NameKept ==
    ASSUME NEW c \in Place, NEW d \in Place, Extends(c, d), NEW v, NEW s, IsName(c.chars, v, s)
    PROVE  IsName(d.chars, v, s)
BY PlaceTyped DEF IsName, Extends

LEMMA BytesTyped ==
    /\ \A s \in OptStr : Bytes(s) \in Nat
    /\ \A s \in Str : s \in OptStr /\ s # NoName /\ Bytes(s) = StrLen[s] + 1
BY StringsAssumption DEF OptStr, Bytes

LEMMA Push ==
    ASSUME NEW c \in Place, NEW s \in Str, NEW op \in {"id", "qstring"}
    PROVE  \E d : \E v \in Nat :
               /\ Leads(c, <<[op |-> op, str |-> s]>>, d, 0, Bytes(s)) /\ d.nodes = c.nodes
               /\ d.stack = Append(c.stack, v) /\ IsName(d.chars, v, s) /\ v # Null
<1>. DEFINE m == [op |-> op, str |-> s]
            d == Pushed(c, s)
<1>1. /\ c.nodes \in Seq(Node) /\ c.chars \in Seq(Str) /\ c.used \in Nat /\ c.stack \in Seq(Nat)
      /\ Linked(c.nodes)
  BY PlaceTyped
<1>2. StrLen[s] \in Nat /\ s # NoName /\ Bytes(s) = StrLen[s] + 1
  BY BytesTyped, StringsAssumption
<1>3. /\ d.nodes = c.nodes /\ d.chars = Append(c.chars, s) /\ d.used = c.used + Bytes(s)
      /\ d.stack = Append(c.stack, Len(c.chars) + 1)
  <2>1. \A i, j \in Nat : i + j + 1 = i + (j + 1)
    OBVIOUS
  <2>2. c.used + StrLen[s] + 1 = c.used + (StrLen[s] + 1)
    BY <1>1, <1>2, <2>1
  <2>. QED BY <1>2, <2>2 DEF Pushed
<1>4. d \in Place
  <2>1. /\ Append(c.chars, s) \in Seq(Str) /\ c.used + StrLen[s] + 1 \in Nat
        /\ Append(c.stack, Len(c.chars) + 1) \in Seq(Nat)
    BY <1>1, <1>2
  <2>. QED BY <1>1, <2>1 DEF Pushed, Place
<1>5. m \in AnyMove
  BY DEF AnyMove
<1>6. Step(c, m, d)
  BY DEF Step, Pushes
<1>7. Extends(c, d)
  BY <1>1, <1>2, <1>3, PlaceTyped DEF Extends
<1>. HIDE DEF d, m
<1>8. Runs(c, <<m>>, d) /\ <<m>> \in Seq(AnyMove)
  BY <1>4, <1>5, <1>6, <1>7, OneMove
<1>9. Len(d.nodes) = Len(c.nodes) + 0
  BY <1>1, <1>3
<1>10. Leads(c, <<m>>, d, 0, Bytes(s))
  BY <1>3, <1>4, <1>7, <1>8, <1>9 DEF Leads
<1>11. Len(c.chars) + 1 \in Nat /\ IsName(d.chars, Len(c.chars) + 1, s) /\ Len(c.chars) + 1 # Null
  BY <1>1, <1>2, <1>3 DEF IsName, Null
<1>. QED BY <1>3, <1>10, <1>11 DEF m

LEMMA ReadId ==
    ASSUME NEW c \in Place, NEW s \in Str
    PROVE  \E d : \E v \in Nat :
               /\ Leads(c, <<Id(s)>>, d, 0, Bytes(s)) /\ d.nodes = c.nodes
               /\ d.stack = Append(c.stack, v) /\ IsName(d.chars, v, s) /\ v # Null
BY Push DEF Id

LEMMA LeaveOut ==
    ASSUME NEW c \in Place
    PROVE  \E d : /\ Leads(c, <<Move("nothing")>>, d, 0, 0) /\ d.nodes = c.nodes
                  /\ d.stack = Append(c.stack, Null)
<1>. DEFINE m == Move("nothing")
            d == LeftOut(c)
<1>1. /\ c.nodes \in Seq(Node) /\ c.chars \in Seq(Str) /\ c.used \in Nat /\ c.stack \in Seq(Nat)
      /\ Linked(c.nodes)
  BY PlaceTyped
<1>2. /\ d.nodes = c.nodes /\ d.chars = c.chars /\ d.used = c.used
      /\ d.stack = Append(c.stack, Null)
  BY DEF LeftOut
<1>3. d \in Place
  BY <1>1 DEF LeftOut, Place, Null
<1>4. m \in AnyMove /\ m.op = "nothing"
  BY DEF AnyMove, Move
<1>5. Step(c, m, d)
  BY <1>4 DEF Step
<1>6. Extends(c, d)
  BY <1>1, <1>2 DEF Extends
<1>. HIDE DEF d, m
<1>7. Runs(c, <<m>>, d) /\ <<m>> \in Seq(AnyMove)
  BY <1>3, <1>4, <1>5, <1>6, OneMove
<1>8. Len(d.nodes) = Len(c.nodes) + 0 /\ d.used = c.used + 0
  BY <1>1, <1>2
<1>9. Leads(c, <<m>>, d, 0, 0)
  BY <1>3, <1>6, <1>7, <1>8 DEF Leads
<1>. QED BY <1>2, <1>9 DEF m

LEMMA ReadOptId ==
    ASSUME NEW c \in Place, NEW s \in OptStr
    PROVE  \E d : \E v \in Nat :
               /\ Leads(c, <<OptId(s)>>, d, 0, Bytes(s)) /\ d.nodes = c.nodes
               /\ d.stack = Append(c.stack, v) /\ IsName(d.chars, v, s)
<1>1. CASE s = NoName
  <2>1. OptId(s) = Move("nothing") /\ Bytes(s) = 0 /\ Null \in Nat
    BY <1>1 DEF OptId, Bytes, Null
  <2>. QED BY <1>1, <2>1, LeaveOut DEF IsName
<1>2. CASE s # NoName
  <2>1. s \in Str /\ OptId(s) = Id(s)
    BY <1>2 DEF OptStr, OptId
  <2>. QED BY <2>1, ReadId
<1>. QED BY <1>1, <1>2

LEMMA Joined ==
    ASSUME NEW s \in Seq(Nat), NEW t \in Seq(Nat)
    PROVE  /\ Len(s) \in Nat /\ Len(t) \in Nat /\ s \o t \in Seq(Nat)
           /\ Len(s \o t) = Len(s) + Len(t)
           /\ \A i \in 1 .. Len(s) : (s \o t)[i] = s[i]
           /\ \A i \in 1 .. Len(t) : (s \o t)[Len(s) + i] = t[i]
OBVIOUS

\* The move m makes node of the values v, which are on the stack above s.
Makes(c, m, s, v, node) ==
    /\ c \in Place /\ m \in AnyMove /\ Reduces(m)
    /\ s \in Seq(Nat) /\ v \in Seq(Nat) /\ c.stack = s \o v /\ Len(v) = m.arity
    /\ node = NodeOf(c.nodes, m, v) /\ node \in Node
    /\ node.kind = "N_LIST" =>
         node.self <= Len(c.nodes) /\ node.next \in {Null} \cup Cells(c.nodes)

Made(c, m, s, node, d) ==
    /\ Leads(c, <<m>>, d, 1, 0) /\ d.chars = c.chars /\ d.nodes = Append(c.nodes, node)
    /\ d.stack = Append(s, Len(d.nodes)) /\ d.nodes[Len(d.nodes)] = node
    /\ Len(d.nodes) \in DOMAIN d.nodes

\* A production of n = m.arity values puts its node in their place.
LEMMA Build ==
    ASSUME NEW c, NEW m, NEW s, NEW v, NEW node, Makes(c, m, s, v, node)
    PROVE  \E d : Made(c, m, s, node, d)
<1>1. /\ c \in Place /\ m \in AnyMove /\ Reduces(m)
      /\ s \in Seq(Nat) /\ v \in Seq(Nat) /\ c.stack = s \o v /\ Len(v) = m.arity
      /\ node = NodeOf(c.nodes, m, v) /\ node \in Node
      /\ node.kind = "N_LIST" =>
           node.self <= Len(c.nodes) /\ node.next \in {Null} \cup Cells(c.nodes)
  BY DEF Makes
<1>2. PICK k : k = Len(c.nodes)
  OBVIOUS
<1>. DEFINE d == [nodes |-> Append(c.nodes, node), chars |-> c.chars, used |-> c.used,
                  stack |-> Append(s, k + 1)]
<1>3. /\ c.nodes \in Seq(Node) /\ c.chars \in Seq(Str) /\ c.used \in Nat /\ k \in Nat
      /\ DOMAIN c.nodes = 1 .. k /\ Linked(c.nodes)
  BY <1>1, <1>2, PlaceTyped
<1>4. /\ Append(c.nodes, node) \in Seq(Node) /\ Len(Append(c.nodes, node)) = k + 1
      /\ DOMAIN Append(c.nodes, node) = 1 .. k + 1
      /\ \A i \in 1 .. k : Append(c.nodes, node)[i] = c.nodes[i]
      /\ Append(c.nodes, node)[k + 1] = node
  BY <1>1, <1>2, <1>3, AppendProperties
<1>5. d \in Place
  <2>1. d \in [nodes : Seq(Node), chars : Seq(Str), used : Nat, stack : Seq(Nat)]
    BY <1>1, <1>3, <1>4
  <2>2. ASSUME NEW i \in Cells(d.nodes)
        PROVE  /\ d.nodes[i].self < i /\ d.nodes[i].next < i
               /\ d.nodes[i].next \in {Null} \cup Cells(d.nodes)
    <3>1. i \in 1 .. k + 1 /\ d.nodes[i].kind = "N_LIST"
      BY <1>3, <1>4 DEF Cells
    <3>2. \A j \in Cells(c.nodes) : j \in 1 .. k /\ j \in Cells(d.nodes)
      BY <1>3, <1>4 DEF Cells
    <3>3. CASE i = k + 1
      <4>1. node.kind = "N_LIST" /\ d.nodes[i] = node
        BY <1>4, <3>1, <3>3
      <4>2. node.self \in Nat /\ node.next \in Nat
        BY <1>1, <4>1 DEF Node
      <4>. QED BY <1>1, <1>2, <1>3, <3>2, <3>3, <4>1, <4>2 DEF Null
    <3>4. CASE i # k + 1
      <4>1. i \in Cells(c.nodes) /\ d.nodes[i] = c.nodes[i]
        BY <1>3, <1>4, <3>1, <3>4 DEF Cells
      <4>. QED BY <1>3, <3>2, <4>1 DEF Linked
    <3>. QED BY <3>3, <3>4
  <2>. QED BY <2>1, <2>2 DEF Place, Linked
<1>6. PICK n : n = m.arity
  OBVIOUS
<1>7. /\ n \in Nat /\ n <= Len(c.stack) /\ SubSeq(c.stack, 1, Len(c.stack) - n) = s
      /\ Top(c, n) = v
  <2>1. n \in Nat /\ Len(s) \in Nat /\ Len(c.stack) = Len(s) + n /\ Len(v) = n
    BY <1>1, <1>6, Joined, ZenonT(40)
  <2>2. SubSeq(s \o v, 1, Len(s)) = s
    BY <1>1, SubSeqOfConcat1, SubSeqFull
  <2>3. Len(c.stack) - n = Len(s) /\ n <= Len(c.stack)
    BY <2>1
  <2>4. \A i \in 1 .. n : c.stack[Len(s) + i] = v[i]
    BY <1>1, <2>1, Joined
  <2>5. Top(c, n) = [i \in 1 .. n |-> v[i]]
    BY <2>3, <2>4 DEF Top
  <2>6. v = [i \in 1 .. n |-> v[i]]
    BY <1>1, <2>1
  <2>. QED BY <1>1, <2>1, <2>2, <2>3, <2>5, <2>6
<1>8. Step(c, m, d)
  BY <1>1, <1>2, <1>6, <1>7 DEF Step, Reduced
<1>9. Extends(c, d)
  BY <1>2, <1>3, <1>4 DEF Extends
<1>10. /\ d.nodes = Append(c.nodes, node) /\ Len(d.nodes) = k + 1 /\ d.used = c.used + 0
       /\ d.stack = Append(s, k + 1) /\ d.chars = c.chars /\ k + 1 \in DOMAIN d.nodes
  BY <1>3, <1>4
<1>. HIDE DEF d
<1>11. Runs(c, <<m>>, d) /\ <<m>> \in Seq(AnyMove)
  BY <1>1, <1>5, <1>8, <1>9, OneMove
<1>12. Leads(c, <<m>>, d, 1, 0)
  BY <1>1, <1>2, <1>5, <1>9, <1>10, <1>11 DEF Leads
<1>13. Made(c, m, s, node, d)
  BY <1>4, <1>10, <1>12 DEF Made
<1>. QED BY <1>13

-----------------------------------------------------------------------------
(* Strings and the nodes that are made of them.                            *)

LEMMA Tuples ==
    ASSUME NEW x, NEW y, NEW z
    PROVE  <<x>> \o <<y>> = <<x, y>> /\ <<x, y>> \o <<z>> = <<x, y, z>>
<1>. DEFINE S == {x, y, z}
<1>1. <<x>> \o <<y>> \in Seq(S) /\ <<x, y>> \in Seq(S)
  OBVIOUS
<1>2. /\ Len(<<x>> \o <<y>>) = 2 /\ Len(<<x, y>>) = 2
      /\ \A i \in 1 .. 2 : (<<x>> \o <<y>>)[i] = <<x, y>>[i]
  OBVIOUS
<1>3. <<x, y>> \o <<z>> \in Seq(S) /\ <<x, y, z>> \in Seq(S)
  OBVIOUS
<1>4. /\ Len(<<x, y>> \o <<z>>) = 3 /\ Len(<<x, y, z>>) = 3
      /\ \A i \in 1 .. 3 : (<<x, y>> \o <<z>>)[i] = <<x, y, z>>[i]
  OBVIOUS
<1>. QED BY <1>1, <1>2, <1>3, <1>4, SeqEqual

\* The moves that read the string s, or see that it is left out.
NameMove(m, s) ==
    \/ s \in OptStr /\ m = OptId(s)
    \/ s \in Str /\ m = [op |-> "qstring", str |-> s]

LEMMA ReadName ==
    ASSUME NEW c \in Place, NEW m, NEW s, NameMove(m, s)
    PROVE  \E d : \E v \in Nat :
               /\ Leads(c, <<m>>, d, 0, Bytes(s)) /\ d.nodes = c.nodes /\ Bytes(s) \in Nat
               /\ d.stack = Append(c.stack, v) /\ IsName(d.chars, v, s)
BY ReadOptId, Push, BytesTyped DEF NameMove, OptStr

LEMMA ReadTwoNames ==
    ASSUME NEW c \in Place, NEW m1, NEW s1, NameMove(m1, s1), NEW m2, NEW s2, NameMove(m2, s2)
    PROVE  \E d : \E v1, v2 \in Nat :
               /\ Leads(c, <<m1, m2>>, d, 0, Bytes(s1) + Bytes(s2)) /\ d.nodes = c.nodes
               /\ d.stack = c.stack \o <<v1, v2>>
               /\ IsName(d.chars, v1, s1) /\ IsName(d.chars, v2, s2)
               /\ Bytes(s1) \in Nat /\ Bytes(s2) \in Nat
<1>1. PICK d1 : \E v \in Nat :
          /\ Leads(c, <<m1>>, d1, 0, Bytes(s1)) /\ d1.nodes = c.nodes /\ Bytes(s1) \in Nat
          /\ d1.stack = Append(c.stack, v) /\ IsName(d1.chars, v, s1)
  BY ReadName
<1>2. PICK v1 \in Nat : d1.stack = Append(c.stack, v1) /\ IsName(d1.chars, v1, s1)
  BY <1>1
<1>3. d1 \in Place
  BY <1>1 DEF Leads
<1>4. PICK d2 : \E v \in Nat :
          /\ Leads(d1, <<m2>>, d2, 0, Bytes(s2)) /\ d2.nodes = d1.nodes /\ Bytes(s2) \in Nat
          /\ d2.stack = Append(d1.stack, v) /\ IsName(d2.chars, v, s2)
  BY <1>3, ReadName
<1>5. PICK v2 \in Nat : d2.stack = Append(d1.stack, v2) /\ IsName(d2.chars, v2, s2)
  BY <1>4
<1>6. Leads(c, <<m1>> \o <<m2>>, d2, 0 + 0, Bytes(s1) + Bytes(s2))
  BY <1>1, <1>4, LeadsOn
<1>7. Leads(c, <<m1, m2>>, d2, 0, Bytes(s1) + Bytes(s2))
  <2>1. <<m1>> \o <<m2>> = <<m1, m2>>
    BY Tuples
  <2>2. 0 + 0 = 0
    OBVIOUS
  <2>. QED BY <1>6, <2>1, <2>2
<1>8. IsName(d2.chars, v1, s1)
  BY <1>2, <1>3, <1>4, NameKept DEF Leads
<1>9. d2.stack = c.stack \o <<v1, v2>>
  BY <1>2, <1>5, PlaceTyped, Stacked
<1>. QED BY <1>1, <1>4, <1>5, <1>7, <1>8, <1>9

\* The moves p put a node on the stack, and that is the last one.
Adds(c, p, d, n, b) ==
    /\ Leads(c, p, d, n, b) /\ d.stack = Append(c.stack, Len(d.nodes))
    /\ Len(d.nodes) \in DOMAIN d.nodes

\* The last node is the one that m makes of strings s1 and s2.
OfOne(d, m, v1, s1) == d.nodes[Len(d.nodes)] = NodeOf(<<>>, m, <<v1>>) /\ IsName(d.chars, v1, s1)

OfTwo(d, m, v1, s1, v2, s2) ==
    /\ d.nodes[Len(d.nodes)] = NodeOf(<<>>, m, <<v1, v2>>)
    /\ IsName(d.chars, v1, s1) /\ IsName(d.chars, v2, s2)

LEMMA NodeOfOne ==
    ASSUME NEW pool, NEW m, NEW v
    PROVE  /\ m.op = "string" => NodeOf(pool, m, v) = string_node(v[1])
           /\ m.op = "list" => NodeOf(pool, m, v) = list_node(v[1])
           /\ m.op = "attrtype" => NodeOf(pool, m, v) = attrtype_node(v[1], m.format)
           /\ m.op = "primattr" => NodeOf(pool, m, v) = primattr_node(v[1])
           /\ m.op = "destroy" => NodeOf(pool, m, v) = destroy_node(v[1])
           /\ m.op = "print" => NodeOf(pool, m, v) = print_node(v[1])
           /\ m.op = "help" => NodeOf(pool, m, v) = help_node(v[1])
           /\ m.op = "INTEGER" => NodeOf(pool, m, v) = int_node(m.bits)
           /\ m.op = "FLOAT" => NodeOf(pool, m, v) = float_node(m.bits)
BY DEF NodeOf

LEMMA NodeOfTwo ==
    ASSUME NEW pool, NEW m, NEW v
    PROVE  /\ m.op = "qualattr" => NodeOf(pool, m, v) = qualattr_node(v[1], v[2])
           /\ m.op = "alias" => NodeOf(pool, m, v) = alias_node(v[1], v[2])
           /\ m.op = "attrval" => NodeOf(pool, m, v) = attrval_node(v[1], v[2])
           /\ m.op = "prepend" => NodeOf(pool, m, v) = prepend(v[1], v[2])
           /\ m.op = "select" => NodeOf(pool, m, v) = select_node(v[1], m.cmp, v[2])
           /\ m.op = "join" => NodeOf(pool, m, v) = join_node(v[1], m.cmp, v[2])
           /\ m.op = "attrtypelen" => NodeOf(pool, m, v) = attrtype_node(v[1], pool[v[2]].bits)
           /\ m.op = "delete" => NodeOf(pool, m, v) = delete_node(v[1], v[2])
           /\ m.op = "create" => NodeOf(pool, m, v) = create_node(v[1], v[2], v[3])
           /\ m.op = "build" => NodeOf(pool, m, v) = build_node(v[1], v[2], 0)
           /\ m.op = "drop" => NodeOf(pool, m, v) = drop_node(v[1], v[2])
           /\ m.op = "load" => NodeOf(pool, m, v) = load_node(v[1], v[2])
BY DEF NodeOf

LEMMA BuildOfOne ==
    ASSUME NEW c \in Place, NEW m1, NEW s1, NameMove(m1, s1), NEW m \in AnyMove,
           Reduces(m), m.arity = 1,
           m.op \in {"string", "primattr", "attrtype", "destroy", "print", "help"}
    PROVE  \E d : \E v \in Nat :
               Adds(c, <<m1, m>>, d, 1, Bytes(s1)) /\ OfOne(d, m, v, s1)
<1>1. PICK d1 : \E v \in Nat :
          /\ Leads(c, <<m1>>, d1, 0, Bytes(s1)) /\ d1.nodes = c.nodes /\ Bytes(s1) \in Nat
          /\ d1.stack = Append(c.stack, v) /\ IsName(d1.chars, v, s1)
  BY ReadName
<1>2. PICK v \in Nat : d1.stack = Append(c.stack, v) /\ IsName(d1.chars, v, s1)
  BY <1>1
<1>3. d1 \in Place
  BY <1>1 DEF Leads
<1>. DEFINE node == NodeOf(d1.nodes, m, <<v>>)
<1>4. node = NodeOf(<<>>, m, <<v>>) /\ node \in Node /\ node.kind # "N_LIST"
  <2>1. m.op = "attrtype" => m.format \in Int
    BY DEF AnyMove
  <2>2. <<v>>[1] = v
    OBVIOUS
  <2>3. \A f \in Int : /\ string_node(v) \in Node /\ primattr_node(v) \in Node
                       /\ attrtype_node(v, f) \in Node /\ destroy_node(v) \in Node
                       /\ print_node(v) \in Node /\ help_node(v) \in Node
    BY NodesTyped
  <2>4. \A f : /\ string_node(v).kind # "N_LIST" /\ primattr_node(v).kind # "N_LIST"
               /\ attrtype_node(v, f).kind # "N_LIST" /\ destroy_node(v).kind # "N_LIST"
               /\ print_node(v).kind # "N_LIST" /\ help_node(v).kind # "N_LIST"
    BY DEF string_node, primattr_node, attrtype_node, destroy_node, print_node, help_node
  <2>. QED BY <2>1, <2>2, <2>3, <2>4, NodeOfOne
<1>. HIDE DEF node
<1>5. /\ <<v>> \in Seq(Nat) /\ Len(<<v>>) = 1
  OBVIOUS
<1>6. c.stack \in Seq(Nat)
  BY PlaceTyped
<1>7. d1.stack = c.stack \o <<v>>
  BY <1>2, <1>6, Stacked
<1>8. Makes(d1, m, c.stack, <<v>>, node)
  BY <1>3, <1>4, <1>5, <1>6, <1>7 DEF Makes, node
<1>9. PICK d : Made(d1, m, c.stack, node, d)
  BY <1>8, Build
<1>10. /\ Leads(d1, <<m>>, d, 1, 0) /\ d.chars = d1.chars
       /\ d.stack = Append(c.stack, Len(d.nodes)) /\ d.nodes[Len(d.nodes)] = node
       /\ Len(d.nodes) \in DOMAIN d.nodes
  BY <1>9 DEF Made
<1>11. Leads(c, <<m1>> \o <<m>>, d, 0 + 1, Bytes(s1) + 0)
  BY <1>1, <1>10, LeadsOn
<1>12. 0 + 1 = 1 /\ Bytes(s1) + 0 = Bytes(s1)
  BY <1>1
<1>13. Leads(c, <<m1, m>>, d, 1, Bytes(s1))
  BY <1>11, <1>12, Tuples
<1>. QED BY <1>2, <1>4, <1>10, <1>13 DEF Adds, OfOne

LEMMA BuildOfTwo ==
    ASSUME NEW c \in Place, NEW m1, NEW s1, NameMove(m1, s1), NEW m2, NEW s2, NameMove(m2, s2),
           NEW op \in {"qualattr", "alias", "attrval", "build", "drop", "load"}
    PROVE  \E d : \E v1, v2 \in Nat :
               /\ Adds(c, <<m1, m2, Reduce(op, 2)>>, d, 1, Bytes(s1) + Bytes(s2))
               /\ OfTwo(d, Reduce(op, 2), v1, s1, v2, s2)
<1>1. PICK d1 : \E v1, v2 \in Nat :
          /\ Leads(c, <<m1, m2>>, d1, 0, Bytes(s1) + Bytes(s2)) /\ d1.nodes = c.nodes
          /\ d1.stack = c.stack \o <<v1, v2>>
          /\ IsName(d1.chars, v1, s1) /\ IsName(d1.chars, v2, s2)
          /\ Bytes(s1) \in Nat /\ Bytes(s2) \in Nat
  BY ReadTwoNames
<1>2. PICK v1 \in Nat, v2 \in Nat : /\ d1.stack = c.stack \o <<v1, v2>>
                                    /\ IsName(d1.chars, v1, s1) /\ IsName(d1.chars, v2, s2)
  BY <1>1
<1>3. d1 \in Place
  BY <1>1 DEF Leads
<1>. DEFINE m == Reduce(op, 2)
            node == NodeOf(d1.nodes, m, <<v1, v2>>)
<1>4. m \in AnyMove /\ Reduces(m) /\ m.arity = 2 /\ m.op = op
  BY DEF AnyMove, Reduce, Reduces
<1>5. node = NodeOf(<<>>, m, <<v1, v2>>) /\ node \in Node /\ node.kind # "N_LIST"
  <2>1. <<v1, v2>>[1] = v1 /\ <<v1, v2>>[2] = v2
    OBVIOUS
  <2>2. /\ qualattr_node(v1, v2) \in Node /\ alias_node(v1, v2) \in Node
        /\ attrval_node(v1, v2) \in Node /\ build_node(v1, v2, 0) \in Node
        /\ drop_node(v1, v2) \in Node /\ load_node(v1, v2) \in Node
    BY NodesTyped
  <2>3. /\ qualattr_node(v1, v2).kind # "N_LIST" /\ alias_node(v1, v2).kind # "N_LIST"
        /\ attrval_node(v1, v2).kind # "N_LIST" /\ build_node(v1, v2, 0).kind # "N_LIST"
        /\ drop_node(v1, v2).kind # "N_LIST" /\ load_node(v1, v2).kind # "N_LIST"
    BY DEF qualattr_node, alias_node, attrval_node, build_node, drop_node, load_node
  <2>. HIDE DEF m
  <2>. QED BY <1>4, <2>1, <2>2, <2>3, NodeOfTwo
<1>. HIDE DEF node, m
<1>6. <<v1, v2>> \in Seq(Nat) /\ Len(<<v1, v2>>) = 2
  OBVIOUS
<1>7. c.stack \in Seq(Nat)
  BY PlaceTyped
<1>8. Makes(d1, m, c.stack, <<v1, v2>>, node)
  BY <1>2, <1>3, <1>4, <1>5, <1>6, <1>7 DEF Makes, node
<1>9. PICK d : Made(d1, m, c.stack, node, d)
  BY <1>8, Build
<1>10. /\ Leads(d1, <<m>>, d, 1, 0) /\ d.chars = d1.chars
       /\ d.stack = Append(c.stack, Len(d.nodes)) /\ d.nodes[Len(d.nodes)] = node
       /\ Len(d.nodes) \in DOMAIN d.nodes
  BY <1>9 DEF Made
<1>11. PICK b : b = Bytes(s1) + Bytes(s2)
  OBVIOUS
<1>12. b \in Nat /\ b + 0 = b /\ 0 + 1 = 1
  BY <1>1, <1>11
<1>13. Leads(c, <<m1, m2>> \o <<m>>, d, 0 + 1, b + 0)
  BY <1>1, <1>10, <1>11, <1>12, LeadsOn
<1>14. Leads(c, <<m1, m2, m>>, d, 1, Bytes(s1) + Bytes(s2))
  BY <1>13, <1>11, <1>12, Tuples
<1>. QED BY <1>2, <1>5, <1>10, <1>14 DEF m, Adds, OfTwo

-----------------------------------------------------------------------------
(* The elements of lists: what the nodes of a place are of a statement.    *)

IsQualattr(d, v, a) ==
    /\ v \in DOMAIN d.nodes /\ d.nodes[v].kind = "N_QUALATTR"
    /\ IsName(d.chars, d.nodes[v].relname, a.rel) /\ IsName(d.chars, d.nodes[v].attrname, a.attr)

IsTable(d, v, t) ==
    /\ v \in DOMAIN d.nodes /\ d.nodes[v].kind = "N_ALIAS"
    /\ IsName(d.chars, d.nodes[v].relname, t.rel) /\ IsName(d.chars, d.nodes[v].alias, t.alias)

IsAttrib(d, v, attr) ==
    /\ v \in DOMAIN d.nodes /\ d.nodes[v].kind = "N_ATTRVAL"
    /\ IsName(d.chars, d.nodes[v].attrname, attr)

IsLiteral(d, v, x) ==
    /\ v \in DOMAIN d.nodes /\ d.nodes[v].kind = "N_VALUE" /\ d.nodes[v].type = x.type
    /\ IF x.type = "STRING" THEN IsName(d.chars, d.nodes[v].sval, x.str)
       ELSE d.nodes[v].bits = x.bits

FormatOf(x) ==
    CASE x.type = "int"   -> IntFormat
      [] x.type = "real"  -> FloatFormat
      [] x.type = "char"  -> 2
      [] x.type = "char(" -> x.len.bits

IsAttrtype(d, v, x) ==
    /\ v \in DOMAIN d.nodes /\ d.nodes[v].kind = "N_ATTRTYPE"
    /\ IsName(d.chars, d.nodes[v].attrname, x.attr) /\ d.nodes[v].type = FormatOf(x)

LEMMA ElementsKept ==
    ASSUME NEW c \in Place, NEW d \in Place, Extends(c, d), NEW v, NEW x
    PROVE  /\ IsQualattr(c, v, x) => IsQualattr(d, v, x)
           /\ IsTable(c, v, x) => IsTable(d, v, x)
           /\ IsAttrib(c, v, x) => IsAttrib(d, v, x)
           /\ IsLiteral(c, v, x) => IsLiteral(d, v, x)
           /\ IsAttrtype(c, v, x) => IsAttrtype(d, v, x)
<1>1. v \in DOMAIN c.nodes => v \in DOMAIN d.nodes /\ d.nodes[v] = c.nodes[v]
  BY PlaceTyped DEF Extends
<1>2. \A p, s : IsName(c.chars, p, s) => IsName(d.chars, p, s)
  BY NameKept
<1>3. IsQualattr(c, v, x) => IsQualattr(d, v, x)
  BY <1>1, <1>2 DEF IsQualattr
<1>4. IsTable(c, v, x) => IsTable(d, v, x)
  BY <1>1, <1>2 DEF IsTable
<1>5. IsAttrib(c, v, x) => IsAttrib(d, v, x)
  BY <1>1, <1>2 DEF IsAttrib
<1>6. IsLiteral(c, v, x) => IsLiteral(d, v, x)
  BY <1>1, <1>2 DEF IsLiteral
<1>7. IsAttrtype(c, v, x) => IsAttrtype(d, v, x)
  BY <1>1, <1>2 DEF IsAttrtype
<1>. QED BY <1>3, <1>4, <1>5, <1>6, <1>7

LEMMA ReadQualattr ==
    ASSUME NEW c \in Place, NEW a \in Qualattr
    PROVE  \E d : Adds(c, QualattrMoves(a), d, 1, QualattrBytes(a)) /\ IsQualattr(d, Len(d.nodes), a)
<1>1. a.rel \in OptStr /\ a.attr \in Str
  BY DEF Qualattr
<1>2. NameMove(OptId(a.rel), a.rel) /\ NameMove(Id(a.attr), a.attr)
  BY <1>1, BytesTyped DEF NameMove, OptId
<1>3. PICK d : \E v1, v2 \in Nat :
          /\ Adds(c, <<OptId(a.rel), Id(a.attr), Reduce("qualattr", 2)>>, d, 1,
                  Bytes(a.rel) + Bytes(a.attr))
          /\ OfTwo(d, Reduce("qualattr", 2), v1, a.rel, v2, a.attr)
  BY <1>2, BuildOfTwo
<1>4. PICK v1 \in Nat, v2 \in Nat :
          OfTwo(d, Reduce("qualattr", 2), v1, a.rel, v2, a.attr)
  BY <1>3
<1>5. NodeOf(<<>>, Reduce("qualattr", 2), <<v1, v2>>) = qualattr_node(v1, v2)
  BY NodeOfTwo DEF Reduce
<1>6. IsQualattr(d, Len(d.nodes), a)
  BY <1>3, <1>4, <1>5 DEF Adds, OfTwo, IsQualattr, qualattr_node
<1>. QED BY <1>3, <1>6 DEF QualattrMoves, QualattrBytes

LEMMA ReadTable ==
    ASSUME NEW c \in Place, NEW t \in Table
    PROVE  \E d : Adds(c, TableMoves(t), d, 1, TableBytes(t)) /\ IsTable(d, Len(d.nodes), t)
<1>1. t.rel \in Str /\ t.alias \in OptStr
  BY DEF Table
<1>2. NameMove(Id(t.rel), t.rel) /\ NameMove(OptId(t.alias), t.alias)
  BY <1>1, BytesTyped DEF NameMove, OptId
<1>3. PICK d : \E v1, v2 \in Nat :
          /\ Adds(c, <<Id(t.rel), OptId(t.alias), Reduce("alias", 2)>>, d, 1,
                  Bytes(t.rel) + Bytes(t.alias))
          /\ OfTwo(d, Reduce("alias", 2), v1, t.rel, v2, t.alias)
  BY <1>2, BuildOfTwo
<1>4. PICK v1 \in Nat, v2 \in Nat :
          OfTwo(d, Reduce("alias", 2), v1, t.rel, v2, t.alias)
  BY <1>3
<1>5. NodeOf(<<>>, Reduce("alias", 2), <<v1, v2>>) = alias_node(v1, v2)
  BY NodeOfTwo DEF Reduce
<1>6. IsTable(d, Len(d.nodes), t)
  BY <1>3, <1>4, <1>5 DEF Adds, OfTwo, IsTable, alias_node
<1>. QED BY <1>3, <1>6 DEF TableMoves, TableBytes

LEMMA ReadAttrib ==
    ASSUME NEW c \in Place, NEW attr \in Str
    PROVE  \E d : Adds(c, AttribMoves(attr), d, 1, Bytes(attr)) /\ IsAttrib(d, Len(d.nodes), attr)
<1>1. NameMove(Id(attr), attr) /\ NameMove(Move("nothing"), NoName)
  BY BytesTyped DEF NameMove, OptId, OptStr
<1>2. PICK d : \E v1, v2 \in Nat :
          /\ Adds(c, <<Id(attr), Move("nothing"), Reduce("attrval", 2)>>, d, 1,
                  Bytes(attr) + Bytes(NoName))
          /\ OfTwo(d, Reduce("attrval", 2), v1, attr, v2, NoName)
  BY <1>1, BuildOfTwo
<1>3. PICK v1 \in Nat, v2 \in Nat :
          OfTwo(d, Reduce("attrval", 2), v1, attr, v2, NoName)
  BY <1>2
<1>4. NodeOf(<<>>, Reduce("attrval", 2), <<v1, v2>>) = attrval_node(v1, v2)
  BY NodeOfTwo DEF Reduce
<1>5. IsAttrib(d, Len(d.nodes), attr)
  BY <1>2, <1>3, <1>4 DEF Adds, OfTwo, IsAttrib, attrval_node
<1>6. Bytes(attr) + Bytes(NoName) = Bytes(attr)
  <2>1. Bytes(NoName) = 0 /\ Bytes(attr) \in Nat
    BY BytesTyped DEF Bytes
  <2>. QED BY <2>1
<1>. QED BY <1>2, <1>5, <1>6 DEF AttribMoves

LEMMA ReadLiteral ==
    ASSUME NEW c \in Place, NEW x \in Literal
    PROVE  \E d : Adds(c, ValueMoves(x), d, 1, LiteralBytes(x)) /\ IsLiteral(d, Len(d.nodes), x)
<1>1. CASE x.type = "STRING"
  <2>. DEFINE m == Reduce("string", 1)
              q == [op |-> "qstring", str |-> x.str]
  <2>1. x.str \in Str
    BY <1>1 DEF Literal, Number
  <2>2. NameMove(q, x.str)
    BY <2>1 DEF NameMove
  <2>3. /\ m \in AnyMove /\ Reduces(m) /\ m.arity = 1 /\ m.op = "string"
    BY DEF AnyMove, Reduces, Reduce
  <2>. HIDE DEF m, q
  <2>4. PICK d : \E v \in Nat : Adds(c, <<q, m>>, d, 1, Bytes(x.str)) /\ OfOne(d, m, v, x.str)
    BY <2>2, <2>3, BuildOfOne
  <2>5. PICK v \in Nat : OfOne(d, m, v, x.str)
    BY <2>4
  <2>6. NodeOf(<<>>, m, <<v>>) = string_node(v)
    BY <2>3, NodeOfOne
  <2>7. IsLiteral(d, Len(d.nodes), x)
    BY <1>1, <2>4, <2>5, <2>6 DEF Adds, OfOne, IsLiteral, string_node
  <2>8. ValueMoves(x) = <<q, m>> /\ LiteralBytes(x) = Bytes(x.str)
    BY <1>1 DEF ValueMoves, LiteralBytes, q, m
  <2>. QED BY <2>4, <2>7, <2>8
<1>2. CASE x.type # "STRING"
  <2>. DEFINE m == [op |-> x.type, bits |-> x.bits, arity |-> 0]
              node == NodeOf(c.nodes, m, <<>>)
  <2>1. x.type \in {"INTEGER", "FLOAT"} /\ x.bits \in Int
    BY <1>2 DEF Literal, Number
  <2>2. m \in AnyMove /\ Reduces(m) /\ m.arity = 0 /\ m.op = x.type /\ m.bits = x.bits
    BY <2>1 DEF AnyMove, Reduces
  <2>. HIDE DEF m
  <2>3. node = [kind |-> "N_VALUE", type |-> x.type, bits |-> x.bits]
    BY <2>1, <2>2, NodeOfOne DEF int_node, float_node
  <2>4. node \in Node /\ node.kind # "N_LIST"
    BY <2>1, <2>3 DEF Node
  <2>. HIDE DEF node
  <2>5. c.stack \in Seq(Nat) /\ <<>> \in Seq(Nat) /\ c.stack = c.stack \o <<>> /\ Len(<<>>) = 0
    <3>1. c.stack \in Seq(Nat)
      BY PlaceTyped
    <3>. QED BY <3>1, ConcatEmptySeq
  <2>6. Makes(c, m, c.stack, <<>>, node)
    BY <2>2, <2>4, <2>5 DEF Makes, node
  <2>7. PICK d : Made(c, m, c.stack, node, d)
    BY <2>6, Build
  <2>8. Adds(c, <<m>>, d, 1, 0) /\ d.nodes[Len(d.nodes)] = node
    BY <2>7 DEF Made, Adds
  <2>9. IsLiteral(d, Len(d.nodes), x)
    BY <1>2, <2>1, <2>3, <2>8 DEF Adds, IsLiteral
  <2>10. ValueMoves(x) = <<m>> /\ LiteralBytes(x) = 0
    BY <1>2 DEF ValueMoves, LiteralBytes, m
  <2>. QED BY <2>8, <2>9, <2>10
<1>. QED BY <1>1, <1>2

\* Two values are on the stack, the second of them the last node.
LEMMA TwoOnTop ==
    ASSUME NEW s \in Seq(Nat), NEW v1 \in Nat, NEW v2 \in Nat, NEW c, NEW d,
           c.stack = Append(s, v1), d.stack = Append(c.stack, v2)
    PROVE  /\ d.stack = s \o <<v1, v2>> /\ <<v1, v2>> \in Seq(Nat) /\ Len(<<v1, v2>>) = 2
           /\ <<v1, v2>>[1] = v1 /\ <<v1, v2>>[2] = v2
<1>1. <<v1, v2>> \in Seq(Nat) /\ Len(<<v1, v2>>) = 2
  OBVIOUS
<1>2. <<v1, v2>>[1] = v1 /\ <<v1, v2>>[2] = v2
  OBVIOUS
<1>3. Append(Append(s, v1), v2) = s \o <<v1, v2>>
  BY Stacked
<1>. QED BY <1>1, <1>2, <1>3

LEMMA ReadAttrtype ==
    ASSUME NEW c \in Place, NEW x \in Attrtype
    PROVE  \E d : /\ Adds(c, AttrtypeMoves(x), d, AttrtypeNodes(x), AttrtypeBytes(x))
                  /\ IsAttrtype(d, Len(d.nodes), x)
<1>1. CASE x.type # "char("
  <2>. DEFINE m == [op |-> "attrtype", format |-> FormatOf(x), arity |-> 1]
  <2>1. x.attr \in Str /\ x.type \in {"int", "real", "char"}
    BY <1>1 DEF Attrtype
  <2>2. NameMove(Id(x.attr), x.attr)
    BY <2>1, BytesTyped DEF NameMove, OptId
  <2>3. FormatOf(x) \in Int
    BY <2>1 DEF FormatOf, IntFormat, FloatFormat
  <2>4. m \in AnyMove /\ Reduces(m) /\ m.arity = 1 /\ m.op = "attrtype" /\ m.format = FormatOf(x)
    BY <2>3 DEF AnyMove, Reduces
  <2>5. AttrtypeMoves(x) = <<Id(x.attr), m>>
    BY <2>1 DEF AttrtypeMoves, FormatOf
  <2>. HIDE DEF m
  <2>6. PICK d : \E v \in Nat : /\ Adds(c, <<Id(x.attr), m>>, d, 1, Bytes(x.attr))
                               /\ OfOne(d, m, v, x.attr)
    BY <2>2, <2>4, BuildOfOne
  <2>7. PICK v \in Nat : OfOne(d, m, v, x.attr)
    BY <2>6
  <2>8. NodeOf(<<>>, m, <<v>>) = attrtype_node(v, FormatOf(x))
    BY <2>4, NodeOfOne
  <2>9. IsAttrtype(d, Len(d.nodes), x)
    BY <2>6, <2>7, <2>8 DEF Adds, OfOne, IsAttrtype, attrtype_node
  <2>. QED BY <1>1, <2>5, <2>6, <2>9 DEF AttrtypeNodes, AttrtypeBytes
<1>2. CASE x.type = "char("
  <2>. DEFINE m == Reduce("attrtypelen", 2)
  <2>1. x.attr \in Str /\ x.len \in Number
    BY <1>2 DEF Attrtype
  <2>2. x.len \in Literal /\ x.len.type # "STRING" /\ LiteralBytes(x.len) = 0 /\ x.len.bits \in Int
    BY <2>1 DEF Literal, Number, LiteralBytes
  <2>3. PICK d1 : \E v \in Nat :
            /\ Leads(c, <<Id(x.attr)>>, d1, 0, Bytes(x.attr)) /\ d1.nodes = c.nodes
            /\ d1.stack = Append(c.stack, v) /\ IsName(d1.chars, v, x.attr) /\ v # Null
    BY <2>1, ReadId
  <2>4. PICK v \in Nat : d1.stack = Append(c.stack, v) /\ IsName(d1.chars, v, x.attr)
    BY <2>3
  <2>5. d1 \in Place
    BY <2>3 DEF Leads
  <2>6. PICK d2 : Adds(d1, ValueMoves(x.len), d2, 1, 0) /\ IsLiteral(d2, Len(d2.nodes), x.len)
    BY <2>2, <2>5, ReadLiteral
  <2>7. d2 \in Place /\ Extends(d1, d2) /\ d2.stack = Append(d1.stack, Len(d2.nodes))
    BY <2>6 DEF Adds, Leads
  <2>8. IsName(d2.chars, v, x.attr)
    BY <2>4, <2>5, <2>7, NameKept
  <2>9. PICK w : w = Len(d2.nodes)
    OBVIOUS
  <2>10. w \in Nat /\ d2.nodes[w].bits = x.len.bits
    BY <2>2, <2>6, <2>7, <2>9, PlaceTyped DEF IsLiteral
  <2>11. c.stack \in Seq(Nat)
    BY PlaceTyped
  <2>12. d2.stack = Append(d1.stack, w)
    BY <2>7, <2>9
  <2>13. /\ d2.stack = c.stack \o <<v, w>> /\ <<v, w>> \in Seq(Nat) /\ Len(<<v, w>>) = 2
         /\ <<v, w>>[1] = v /\ <<v, w>>[2] = w /\ c.stack \in Seq(Nat)
    BY <2>4, <2>10, <2>11, <2>12, TwoOnTop, SMTT(30)
  <2>. DEFINE node == attrtype_node(v, x.len.bits)
  <2>14. m \in AnyMove /\ Reduces(m) /\ m.arity = 2 /\ m.op = "attrtypelen"
    BY DEF AnyMove, Reduces, Reduce
  <2>. HIDE DEF m
  <2>15. node = NodeOf(d2.nodes, m, <<v, w>>)
    BY <2>10, <2>13, <2>14, NodeOfTwo
  <2>16. node \in Node
    BY <2>2, NodesTyped
  <2>17. node.kind = "N_ATTRTYPE" /\ node.attrname = v /\ node.type = x.len.bits
    BY DEF attrtype_node
  <2>. HIDE DEF node
  <2>18. Makes(d2, m, c.stack, <<v, w>>, node)
    BY <2>7, <2>13, <2>14, <2>15, <2>16, <2>17 DEF Makes
  <2>19. PICK d : Made(d2, m, c.stack, node, d)
    BY <2>18, Build
  <2>20. /\ Leads(d2, <<m>>, d, 1, 0) /\ d.stack = Append(c.stack, Len(d.nodes))
         /\ Len(d.nodes) \in DOMAIN d.nodes /\ d.nodes[Len(d.nodes)] = node /\ d.chars = d2.chars
    BY <2>19 DEF Made
  <2>21. Bytes(x.attr) \in Nat
    BY <2>1, BytesTyped
  <2>22. Leads(c, <<Id(x.attr)>> \o ValueMoves(x.len), d2, 0 + 1, Bytes(x.attr) + 0)
    BY <2>3, <2>6, <2>21, LeadsOn DEF Adds
  <2>23. 0 + 1 = 1 /\ Bytes(x.attr) + 0 = Bytes(x.attr) /\ 1 + 1 = 2
    BY <2>21
  <2>24. Leads(c, (<<Id(x.attr)>> \o ValueMoves(x.len)) \o <<m>>, d, 1 + 1, Bytes(x.attr) + 0)
    BY <2>20, <2>21, <2>22, <2>23, LeadsOn
  <2>25. AttrtypeMoves(x) = (<<Id(x.attr)>> \o ValueMoves(x.len)) \o <<m>>
    BY <1>2 DEF AttrtypeMoves, m
  <2>26. IsAttrtype(d, Len(d.nodes), x)
    BY <1>2, <2>8, <2>17, <2>20 DEF IsAttrtype, FormatOf
  <2>. QED BY <1>2, <2>20, <2>23, <2>24, <2>25, <2>26 DEF Adds, AttrtypeNodes, AttrtypeBytes
<1>. QED BY <1>1, <1>2

-----------------------------------------------------------------------------
(* The recursive functions of the model: they exist, and are what their    *)
(* equations say.                                                          *)

\* f is a after i steps of g.
Iterates(n, a, g, f) == f[0] = a /\ \A i \in 1 .. n : f[i] = g[i][f[i - 1]]

LEMMA IterationExists ==
    ASSUME NEW n \in Nat, NEW S, NEW a \in S, NEW g \in [1 .. n -> [S -> S]]
    PROVE  \E f \in [0 .. n -> S] : Iterates(n, a, g, f)
<1>. DEFINE P(k) == \E f \in [0 .. k -> S] : Iterates(k, a, g, f)
            T == {k \in 0 .. n : ~ P(k)}
<1>. SUFFICES ASSUME T # {} PROVE FALSE
  OBVIOUS
<1>1. PICK k \in T : \A j \in T : k <= j
  <2>1. T \subseteq Nat
    OBVIOUS
  <2>. HIDE DEF T
  <2>. QED BY <2>1, Least
<1>2. P(0)
  <2>1. [i \in 0 .. 0 |-> a] \in [0 .. 0 -> S] /\ Iterates(0, a, g, [i \in 0 .. 0 |-> a])
    BY DEF Iterates
  <2>. QED BY <2>1
<1>3. k \in 1 .. n /\ k - 1 \in 0 .. n /\ ~(k <= k - 1)
  <2>1. k \in 0 .. n /\ k # 0
    BY <1>2
  <2>. QED BY <2>1
<1>4. P(k - 1)
  <2>1. k - 1 \notin T
    BY <1>1, <1>3
  <2>. QED BY <1>3, <2>1
<1>5. PICK f \in [0 .. k - 1 -> S] : Iterates(k - 1, a, g, f)
  BY <1>4
<1>6. f[0] = a /\ \A i \in 1 .. k - 1 : f[i] = g[i][f[i - 1]]
  BY <1>5 DEF Iterates
<1>7. g[k][f[k - 1]] \in S
  <2>1. k - 1 \in 0 .. k - 1 /\ g[k] \in [S -> S]
    BY <1>3
  <2>2. f[k - 1] \in S
    BY <2>1
  <2>. QED BY <2>1, <2>2
<1>. DEFINE h == [i \in 0 .. k |-> IF i = k THEN g[k][f[k - 1]] ELSE f[i]]
<1>8. h \in [0 .. k -> S]
  <2>1. ASSUME NEW i \in 0 .. k, i # k PROVE f[i] \in S
    <3>1. i \in 0 .. k - 1
      BY <1>3, <2>1
    <3>. QED BY <3>1
  <2>. QED BY <1>7, <2>1
<1>9. h[0] = a /\ \A i \in 1 .. k - 1 : h[i] = f[i] /\ h[i - 1] = f[i - 1]
  BY <1>3, <1>6
<1>10. h[k] = g[k][f[k - 1]] /\ h[k - 1] = f[k - 1]
  BY <1>3
<1>. HIDE DEF h
<1>11. \A i \in 1 .. k : h[i] = g[i][h[i - 1]]
  <2>1. ASSUME NEW i \in 1 .. k, i # k PROVE h[i] = g[i][h[i - 1]]
    <3>1. i \in 1 .. k - 1
      BY <1>3, <2>1
    <3>. QED BY <1>6, <1>9, <3>1
  <2>. QED BY <1>10, <2>1
<1>12. Iterates(k, a, g, h)
  BY <1>9, <1>11 DEF Iterates
<1>13. P(k)
  BY <1>8, <1>12
<1>. QED BY <1>1, <1>13

IsSum(n, f, s) == s[0] = 0 /\ \A k \in 1 .. n : s[k] = s[k - 1] + f[k]

LEMMA TotalIsSum ==
    ASSUME NEW n \in Nat, NEW f \in [1 .. n -> Nat]
    PROVE  \E s \in [0 .. n -> Nat] : IsSum(n, f, s) /\ Total(f) = s[n]
<1>. DEFINE Eq(s) == s = [k \in 0 .. n |-> IF k = 0 THEN 0 ELSE s[k - 1] + f[k]]
            g == [i \in 1 .. n |-> [x \in Nat |-> x + f[i]]]
<1>1. g \in [1 .. n -> [Nat -> Nat]]
  OBVIOUS
<1>2. PICK h \in [0 .. n -> Nat] : Iterates(n, 0, g, h)
  <2>1. 0 \in Nat
    OBVIOUS
  <2>. HIDE DEF g
  <2>. QED BY <1>1, <2>1, IterationExists
<1>3. h[0] = 0 /\ \A i \in 1 .. n : h[i] = h[i - 1] + f[i]
  <2>1. ASSUME NEW i \in 1 .. n PROVE h[i] = h[i - 1] + f[i]
    <3>1. i - 1 \in 0 .. n
      OBVIOUS
    <3>2. h[i - 1] \in Nat
      BY <3>1
    <3>3. g[i][h[i - 1]] = h[i - 1] + f[i]
      BY <3>2
    <3>. QED BY <1>2, <3>3 DEF Iterates
  <2>2. h[0] = 0
    BY <1>2 DEF Iterates
  <2>. QED BY <2>1, <2>2
<1>. HIDE DEF g
<1>4. \A k \in 0 .. n : h[k] = IF k = 0 THEN 0 ELSE h[k - 1] + f[k]
  BY <1>3
<1>5. Eq(h)
  BY <1>4
<1>. DEFINE s == CHOOSE s : Eq(s)
<1>6. Eq(s)
  BY <1>5
<1>7. Len(f) = n
  OBVIOUS
<1>8. Total(f) = s[n]
  BY <1>7 DEF Total
<1>. HIDE DEF s
<1>9. \A k \in 0 .. n : s[k] = IF k = 0 THEN 0 ELSE s[k - 1] + f[k]
  BY <1>6
<1>. HIDE DEF Eq
<1>10. s[0] = 0 /\ \A k \in 1 .. n : s[k] = s[k - 1] + f[k]
  BY <1>9
<1>11. s = [k \in 0 .. n |-> s[k]]
  BY <1>6 DEF Eq
<1>12. \A k \in 0 .. n : s[k] \in Nat
  <2>. DEFINE T == {k \in 0 .. n : s[k] \notin Nat}
  <2>. SUFFICES ASSUME T # {} PROVE FALSE
    OBVIOUS
  <2>1. PICK k \in T : \A j \in T : k <= j
    <3>1. T \subseteq Nat
      OBVIOUS
    <3>. HIDE DEF T
    <3>. QED BY <3>1, Least
  <2>2. k \in 1 .. n /\ k - 1 \in 0 .. n /\ ~(k <= k - 1)
    BY <1>10
  <2>3. s[k - 1] \in Nat
    BY <2>1, <2>2
  <2>. QED BY <1>10, <2>2, <2>3
<1>13. s \in [0 .. n -> Nat]
  BY <1>11, <1>12
<1>. QED BY <1>8, <1>10, <1>13 DEF IsSum

Joins(n, seqs, f) == f[0] = <<>> /\ \A k \in 1 .. n : f[k] = f[k - 1] \o seqs[k]

LEMMA FlattenJoins ==
    ASSUME NEW S, NEW n \in Nat \ {0}, NEW seqs \in [1 .. n -> Seq(S)]
    PROVE  \E f \in [0 .. n -> Seq(S)] : Joins(n, seqs, f) /\ FlattenSeq(seqs) = f[n]
<1>. DEFINE Eq(t) == t = [i \in 1 .. n |-> IF i = 1 THEN seqs[i] ELSE t[i - 1] \o seqs[i]]
            g == [i \in 1 .. n |-> [x \in Seq(S) |-> x \o seqs[i]]]
<1>1. g \in [1 .. n -> [Seq(S) -> Seq(S)]]
  OBVIOUS
<1>2. PICK h \in [0 .. n -> Seq(S)] : Iterates(n, <<>>, g, h)
  <2>1. <<>> \in Seq(S)
    OBVIOUS
  <2>. HIDE DEF g
  <2>. QED BY <1>1, <2>1, IterationExists
<1>3. h[0] = <<>> /\ \A i \in 1 .. n : h[i] = h[i - 1] \o seqs[i]
  <2>1. ASSUME NEW i \in 1 .. n PROVE h[i] = h[i - 1] \o seqs[i]
    <3>1. i - 1 \in 0 .. n
      OBVIOUS
    <3>2. h[i - 1] \in Seq(S)
      BY <3>1
    <3>3. g[i][h[i - 1]] = h[i - 1] \o seqs[i]
      BY <3>2
    <3>. QED BY <1>2, <3>3 DEF Iterates
  <2>2. h[0] = <<>>
    BY <1>2 DEF Iterates
  <2>. QED BY <2>1, <2>2
<1>. HIDE DEF g
<1>. DEFINE e == [i \in 1 .. n |-> h[i]]
<1>4. Eq(e)
  <2>1. \A i \in 1 .. n : i # 1 => i - 1 \in 1 .. n /\ e[i - 1] = h[i - 1]
    OBVIOUS
  <2>2. h[1] = seqs[1]
    <3>1. 1 \in 1 .. n /\ 1 - 1 = 0 /\ seqs[1] \in Seq(S)
      OBVIOUS
    <3>2. <<>> \o seqs[1] = seqs[1]
      BY <3>1, ConcatEmptySeq
    <3>. QED BY <1>3, <3>1, <3>2
  <2>3. \A i \in 1 .. n : e[i] = IF i = 1 THEN seqs[i] ELSE e[i - 1] \o seqs[i]
    BY <1>3, <2>1, <2>2
  <2>4. e = [i \in 1 .. n |-> e[i]]
    OBVIOUS
  <2>. HIDE DEF e
  <2>. QED BY <2>3, <2>4
<1>. HIDE DEF e
<1>. DEFINE t == CHOOSE t : Eq(t)
<1>5. Eq(t)
  BY <1>4
<1>6. Len(seqs) = n /\ n # 0
  OBVIOUS
<1>7. FlattenSeq(seqs) = t[n]
  BY <1>6 DEF FlattenSeq
<1>. HIDE DEF t
<1>8. \A i \in 1 .. n : t[i] = IF i = 1 THEN seqs[i] ELSE t[i - 1] \o seqs[i]
  BY <1>5
<1>. DEFINE f == [i \in 0 .. n |-> IF i = 0 THEN <<>> ELSE t[i]]
<1>9. ASSUME NEW k \in 1 .. n PROVE f[k] = f[k - 1] \o seqs[k]
  <2>1. CASE k = 1
    <3>1. seqs[1] \in Seq(S) /\ k - 1 = 0
      BY <2>1
    <3>2. <<>> \o seqs[1] = seqs[1]
      BY <3>1, ConcatEmptySeq
    <3>. QED BY <1>8, <2>1, <3>1, <3>2
  <2>2. CASE k # 1
    <3>1. k - 1 \in 0 .. n /\ k - 1 # 0 /\ k \in 0 .. n /\ k # 0
      BY <2>2
    <3>. QED BY <1>8, <2>2, <3>1
  <2>. QED BY <2>1, <2>2
<1>10. f[0] = <<>> /\ f[n] = t[n] /\ f = [i \in 0 .. n |-> f[i]]
  OBVIOUS
<1>. HIDE DEF f
<1>11. \A k \in 0 .. n : f[k] \in Seq(S)
  <2>. DEFINE T == {k \in 0 .. n : f[k] \notin Seq(S)}
  <2>. SUFFICES ASSUME T # {} PROVE FALSE
    OBVIOUS
  <2>1. PICK k \in T : \A j \in T : k <= j
    <3>1. T \subseteq Nat
      OBVIOUS
    <3>. HIDE DEF T
    <3>. QED BY <3>1, Least
  <2>2. k \in 1 .. n /\ k - 1 \in 0 .. n /\ ~(k <= k - 1)
    <3>1. <<>> \in Seq(S) /\ f[0] = <<>> /\ f[k] \notin Seq(S)
      BY <1>10
    <3>2. k # 0
      BY <3>1
    <3>. QED BY <3>2
  <2>3. f[k - 1] \in Seq(S) /\ seqs[k] \in Seq(S)
    BY <2>1, <2>2
  <2>4. f[k - 1] \o seqs[k] \in Seq(S)
    BY <2>3
  <2>. QED BY <1>9, <2>2, <2>4
<1>12. f \in [0 .. n -> Seq(S)]
  BY <1>10, <1>11
<1>. QED BY <1>7, <1>9, <1>10, <1>12 DEF Joins

\* The cells of a list lie one after the other, its first cell last.
ListAt(nodes, l, ptrs) ==
    \A i \in 1 .. Len(ptrs) :
        /\ l - i + 1 \in DOMAIN nodes
        /\ nodes[l - i + 1] = [kind |-> "N_LIST", self |-> ptrs[i],
                               next |-> IF i = Len(ptrs) THEN Null ELSE l - i]

\* f follows the links of the cells.
Follows(nodes, f) ==
    f = [i \in {Null} \cup Cells(nodes) |->
            IF i = Null THEN <<>> ELSE <<nodes[i].self>> \o f[nodes[i].next]]

LEMMA FollowsExists ==
    ASSUME NEW nodes \in Seq(Node), Linked(nodes)
    PROVE  \E f : Follows(nodes, f)
<1>. DEFINE N == Len(nodes)
            D == {Null} \cup Cells(nodes)
            P(k) == \E f \in [D -> Seq(Nat)] :
                        /\ f[Null] = <<>>
                        /\ \A i \in Cells(nodes) :
                             i <= k => f[i] = <<nodes[i].self>> \o f[nodes[i].next]
<1>1. /\ N \in Nat /\ \A i \in Cells(nodes) : /\ i \in 1 .. N /\ nodes[i].self \in Nat
                                              /\ nodes[i].next \in Nat
  <2>1. ASSUME NEW i \in Cells(nodes)
        PROVE  i \in 1 .. N /\ nodes[i].self \in Nat /\ nodes[i].next \in Nat
    <3>1. i \in 1 .. N /\ nodes[i] \in Node /\ nodes[i].kind = "N_LIST"
      BY DEF Cells
    <3>. QED BY <3>1 DEF Node
  <2>. QED BY <2>1
<1>2. \A i \in Cells(nodes) : nodes[i].next < i /\ nodes[i].next \in D
  BY DEF Linked
<1>3. Null \in Nat /\ Null \in D
  BY DEF Null
<1>. HIDE DEF N, D
<1>4. P(0)
  <2>1. [i \in D |-> <<>>] \in [D -> Seq(Nat)]
    OBVIOUS
  <2>2. \A i \in Cells(nodes) : ~(i <= 0)
    BY <1>1
  <2>3. [i \in D |-> <<>>][Null] = <<>>
    BY <1>3
  <2>. QED BY <2>1, <2>2, <2>3
<1>5. P(N)
  <2>. DEFINE T == {k \in 0 .. N : ~ P(k)}
  <2>. SUFFICES ASSUME T # {} PROVE FALSE
    <3>1. N \in 0 .. N
      BY <1>1
    <3>. HIDE DEF P
    <3>. QED BY <3>1
  <2>1. PICK k \in T : \A j \in T : k <= j
    <3>1. T \subseteq Nat
      BY <1>1
    <3>. HIDE DEF T
    <3>. QED BY <3>1, Least
  <2>2. k \in 1 .. N /\ k - 1 \in 0 .. N /\ ~(k <= k - 1)
    <3>1. k \in 0 .. N /\ k # 0
      BY <1>4
    <3>. QED BY <1>1, <3>1
  <2>3. P(k - 1)
    <3>1. k - 1 \notin T
      BY <2>1, <2>2
    <3>. QED BY <2>2, <3>1
  <2>4. PICK f \in [D -> Seq(Nat)] :
            /\ f[Null] = <<>>
            /\ \A i \in Cells(nodes) :
                 i <= k - 1 => f[i] = <<nodes[i].self>> \o f[nodes[i].next]
    BY <2>3
  <2>. DEFINE g == [i \in D |-> IF i = k /\ i \in Cells(nodes)
                                THEN <<nodes[i].self>> \o f[nodes[i].next] ELSE f[i]]
  <2>5. \A i \in Cells(nodes) : <<nodes[i].self>> \o f[nodes[i].next] \in Seq(Nat)
    <3>1. ASSUME NEW i \in Cells(nodes) PROVE <<nodes[i].self>> \o f[nodes[i].next] \in Seq(Nat)
      <4>1. f[nodes[i].next] \in Seq(Nat)
        BY <1>2, <2>4
      <4>2. <<nodes[i].self>> \in Seq(Nat)
        BY <1>1
      <4>. QED BY <4>1, <4>2
    <3>. QED BY <3>1
  <2>6. g \in [D -> Seq(Nat)]
    BY <2>4, <2>5
  <2>7. g[Null] = <<>>
    <3>1. Null # k
      BY <2>2, SMTT(30) DEF Null
    <3>. QED BY <1>3, <2>4, <3>1
  <2>8. ASSUME NEW i \in Cells(nodes), i <= k
        PROVE  g[i] = <<nodes[i].self>> \o g[nodes[i].next]
    <3>1. nodes[i].next # k /\ nodes[i].next \in D /\ i \in D
      BY <1>1, <1>2, <2>2, <2>8 DEF D
    <3>2. g[nodes[i].next] = f[nodes[i].next]
      BY <3>1, SMTT(30)
    <3>3. CASE i = k
      BY <3>1, <3>2, <3>3, ZenonT(40)
    <3>4. CASE i # k
      <4>1. i <= k - 1
        BY <1>1, <2>2, <2>8, <3>4
      <4>2. g[i] = f[i]
        BY <3>1, <3>4
      <4>. QED BY <2>4, <3>2, <4>1, <4>2
    <3>. QED BY <3>3, <3>4
  <2>. HIDE DEF g
  <2>9. P(k)
    BY <2>6, <2>7, <2>8
  <2>. QED BY <2>1, <2>9
<1>6. PICK f \in [D -> Seq(Nat)] :
          /\ f[Null] = <<>>
          /\ \A i \in Cells(nodes) : i <= N => f[i] = <<nodes[i].self>> \o f[nodes[i].next]
  BY <1>5
<1>7. \A i \in D : f[i] = IF i = Null THEN <<>> ELSE <<nodes[i].self>> \o f[nodes[i].next]
  <2>1. \A i \in Cells(nodes) : i <= N
    BY <1>1
  <2>. QED BY <1>6, <2>1 DEF D
<1>8. f = [i \in D |-> IF i = Null THEN <<>> ELSE <<nodes[i].self>> \o f[nodes[i].next]]
  BY <1>6, <1>7
<1>. QED BY <1>8 DEF Follows, D

LEMMA SubSeqFrom ==
    ASSUME NEW s \in Seq(Nat), NEW i \in 1 .. Len(s)
    PROVE  <<s[i]>> \o SubSeq(s, i + 1, Len(s)) = SubSeq(s, i, Len(s))
<1>. DEFINE n == Len(s)
            l == <<s[i]>> \o SubSeq(s, i + 1, n)
            r == SubSeq(s, i, n)
<1>1. n \in Nat /\ s[i] \in Nat
  OBVIOUS
<1>2. /\ SubSeq(s, i + 1, n) \in Seq(Nat) /\ Len(SubSeq(s, i + 1, n)) = n - i
      /\ \A j \in 1 .. n - i : SubSeq(s, i + 1, n)[j] = s[i + j]
  BY SMTT(30)
<1>3. r \in Seq(Nat) /\ Len(r) = n - i + 1 /\ \A j \in 1 .. n - i + 1 : r[j] = s[i + j - 1]
  BY SMTT(30)
<1>4. <<s[i]>> \in Seq(Nat) /\ Len(<<s[i]>>) = 1 /\ <<s[i]>>[1] = s[i]
  BY <1>1
<1>5. /\ l \in Seq(Nat) /\ Len(l) = n - i + 1 /\ l[1] = s[i]
      /\ \A j \in 1 .. n - i : l[1 + j] = s[i + j]
  BY <1>1, <1>2, <1>4, Joined
<1>. HIDE DEF n, l, r
<1>6. ASSUME NEW j \in 1 .. Len(l) PROVE l[j] = r[j]
  <2>1. CASE j = 1
    BY <1>1, <1>3, <1>5, <2>1
  <2>2. CASE j # 1
    <3>1. j - 1 \in 1 .. n - i /\ 1 + (j - 1) = j /\ i + (j - 1) = i + j - 1
      BY <1>1, <1>5, <2>2
    <3>. QED BY <1>1, <1>3, <1>5, <3>1
  <2>. QED BY <2>1, <2>2
<1>7. l = r
  BY <1>3, <1>5, <1>6, SeqEqual
<1>. QED BY <1>7 DEF l, r, n

LEMMA ElementsAre ==
    ASSUME NEW nodes \in Seq(Node), Linked(nodes), NEW ptrs \in Seq(Nat), ptrs # <<>>,
           NEW l \in Nat, ListAt(nodes, l, ptrs)
    PROVE  Elements(nodes, l) = ptrs
<1>. DEFINE n == Len(ptrs)
            f == CHOOSE f : Follows(nodes, f)
<1>1. Follows(nodes, f)
  BY FollowsExists
<1>2. Elements(nodes, l) = f[l]
  BY DEF Elements, Follows
<1>. HIDE DEF f
<1>3. n \in Nat \ {0}
  OBVIOUS
<1>4. ASSUME NEW i \in 1 .. n
      PROVE  f[l - i + 1] = <<ptrs[i]>> \o (IF i = n THEN <<>> ELSE f[l - i])
  <2>. DEFINE c == l - i + 1
  <2>1. /\ c \in DOMAIN nodes /\ nodes[c].kind = "N_LIST" /\ nodes[c].self = ptrs[i]
        /\ nodes[c].next = IF i = n THEN Null ELSE l - i
    <3>1. /\ c \in DOMAIN nodes
          /\ nodes[c] = [kind |-> "N_LIST", self |-> ptrs[i],
                         next |-> IF i = n THEN Null ELSE l - i]
      BY DEF ListAt
    <3>. HIDE DEF c, n
    <3>. QED BY <3>1
  <2>2. c \in Cells(nodes) /\ c # Null
    BY <2>1 DEF Cells, Null
  <2>. HIDE DEF c
  <2>3. f[c] = <<nodes[c].self>> \o f[nodes[c].next]
    BY <1>1, <2>2 DEF Follows
  <2>4. f[Null] = <<>>
    BY <1>1 DEF Follows
  <2>. QED BY <2>1, <2>3, <2>4 DEF c
<1>5. f[l] = SubSeq(ptrs, 1, n)
  <2>. DEFINE T == {j \in 0 .. n - 1 : f[l - (n - j) + 1] # SubSeq(ptrs, n - j, n)}
  <2>1. CASE T = {}
    <3>1. n - 1 \in 0 .. n - 1 /\ n - (n - 1) = 1 /\ l - 1 + 1 = l
      BY <1>3
    <3>2. f[l - (n - (n - 1)) + 1] = SubSeq(ptrs, n - (n - 1), n)
      BY <2>1, <3>1
    <3>. QED BY <3>1, <3>2
  <2>2. CASE T # {}
    <3>1. PICK j \in T : \A k \in T : j <= k
      <4>1. T \subseteq Nat
        BY <1>3
      <4>. HIDE DEF T
      <4>. QED BY <2>2, <4>1, Least
    <3>2. PICK i : i = n - j
      OBVIOUS
    <3>3. i \in 1 .. n /\ j \in 0 .. n - 1 /\ f[l - i + 1] # SubSeq(ptrs, i, n)
      BY <1>3, <3>1, <3>2
    <3>4. <<ptrs[i]>> \o SubSeq(ptrs, i + 1, n) = SubSeq(ptrs, i, n)
      BY <3>3, SubSeqFrom
    <3>5. CASE i = n
      <4>1. SubSeq(ptrs, i + 1, n) = <<>>
        BY <1>3, <3>5, SubSeqEmpty
      <4>. QED BY <1>4, <3>3, <3>4, <3>5, <4>1
    <3>6. CASE i # n
      <4>1. j - 1 \in 0 .. n - 1 /\ ~(j <= j - 1) /\ n - (j - 1) = i + 1 /\ l - (i + 1) + 1 = l - i
        BY <1>3, <3>2, <3>3, <3>6
      <4>2. j - 1 \notin T
        BY <3>1, <4>1
      <4>3. f[l - (n - (j - 1)) + 1] = SubSeq(ptrs, n - (j - 1), n)
        BY <4>1, <4>2
      <4>4. f[l - i] = SubSeq(ptrs, i + 1, n)
        BY <4>1, <4>3
      <4>. QED BY <1>4, <3>3, <3>4, <3>6, <4>4
    <3>. QED BY <3>5, <3>6
  <2>. QED BY <2>1, <2>2
<1>6. SubSeq(ptrs, 1, n) = ptrs
  BY SubSeqFull
<1>. QED BY <1>2, <1>5, <1>6

-----------------------------------------------------------------------------
(* Lists.  Elements of X are read with the moves mv, which take nd nodes   *)
(* and by bytes; <<d, v, x>> is in R if node v of the place d is x.        *)

Readable(X, mv, nd, by, R) ==
    /\ mv \in [X -> Seq(AnyMove)] /\ nd \in [X -> Nat \ {0}] /\ by \in [X -> Nat]
    /\ \A c \in Place, x \in X : \E d : /\ Adds(c, mv[x], d, nd[x], by[x])
                                        /\ <<d, Len(d.nodes), x>> \in R
    /\ \A c, d \in Place : \A v \in Nat, x \in X :
         Extends(c, d) /\ <<c, v, x>> \in R => <<d, v, x>> \in R

\* The nodes ptrs of d are the first n of the elements xs, in their order.
AreElements(d, ptrs, xs, n, R) ==
    /\ ptrs \in Seq(Nat) /\ Len(ptrs) = n
    /\ \A i \in 1 .. n : <<d, ptrs[i], xs[i]>> \in R /\ ptrs[i] \in 1 .. Len(d.nodes)
    /\ \A i, j \in 1 .. n : i < j => ptrs[i] < ptrs[j]

LEMMA AppendPointer ==
    ASSUME NEW s \in Seq(Nat), NEW t \in Seq(Nat), NEW v \in Nat
    PROVE  /\ s \o Append(t, v) = Append(s \o t, v) /\ Append(t, v) \in Seq(Nat)
           /\ Len(Append(t, v)) = Len(t) + 1 /\ Append(t, v)[Len(t) + 1] = v
           /\ \A i \in 1 .. Len(t) : Append(t, v)[i] = t[i]
<1>1. \A u \in Seq(Nat) : Append(u, v) = u \o <<v>>
  BY AppendIsConcat
<1>2. <<v>> \in Seq(Nat) /\ s \o t \in Seq(Nat)
  OBVIOUS
<1>3. (s \o t) \o <<v>> = s \o (t \o <<v>>)
  BY <1>2, ConcatAssociative
<1>4. /\ Append(t, v) \in Seq(Nat) /\ Len(Append(t, v)) = Len(t) + 1
      /\ Append(t, v)[Len(t) + 1] = v /\ \A i \in 1 .. Len(t) : Append(t, v)[i] = t[i]
  BY AppendProperties
<1>. QED BY <1>1, <1>2, <1>3, <1>4

\* What has been read of the list after k elements.
ReadUpTo(c, p, d, k, n, b, ptrs, xs, R) ==
    Leads(c, p, d, n, b) /\ d.stack = c.stack \o ptrs /\ AreElements(d, ptrs, xs, k, R)

LEMMA ReadNext ==
    ASSUME NEW X, NEW mv, NEW nd, NEW by, NEW R, Readable(X, mv, nd, by, R), NEW c \in Place,
           NEW k \in Nat, NEW xs, \A i \in 1 .. k + 1 : xs[i] \in X,
           NEW p, NEW d, NEW n \in Nat, NEW b \in Nat, NEW ptrs,
           ReadUpTo(c, p, d, k, n, b, ptrs, xs, R)
    PROVE  \E e, q : ReadUpTo(c, p \o mv[xs[k + 1]], e, k + 1, n + nd[xs[k + 1]],
                             b + by[xs[k + 1]], q, xs, R)
<1>1. PICK x : x = xs[k + 1]
  OBVIOUS
<1>2. x \in X /\ k + 1 \in 1 .. k + 1
  BY <1>1
<1>3. PICK nx : nx = nd[x]
  OBVIOUS
<1>4. PICK bx : bx = by[x]
  OBVIOUS
<1>5. nx \in Nat \ {0} /\ bx \in Nat
  BY <1>2, <1>3, <1>4 DEF Readable
<1>6. Leads(c, p, d, n, b) /\ d.stack = c.stack \o ptrs /\ d \in Place
  BY DEF ReadUpTo, Leads
<1>7. /\ ptrs \in Seq(Nat) /\ Len(ptrs) = k
      /\ \A i \in 1 .. k : <<d, ptrs[i], xs[i]>> \in R /\ ptrs[i] \in 1 .. Len(d.nodes)
      /\ \A i, j \in 1 .. k : i < j => ptrs[i] < ptrs[j]
  BY DEF ReadUpTo, AreElements
<1>8. PICK e : Adds(d, mv[x], e, nx, bx) /\ <<e, Len(e.nodes), x>> \in R
  BY <1>2, <1>3, <1>4, <1>6 DEF Readable
<1>9. PICK v : v = Len(e.nodes)
  OBVIOUS
<1>10. PICK w : w = Len(d.nodes)
  OBVIOUS
<1>11. /\ e \in Place /\ Extends(d, e) /\ e.stack = Append(d.stack, v) /\ <<e, v, x>> \in R
       /\ v = w + nx /\ Leads(d, mv[x], e, nx, bx)
  BY <1>8, <1>9, <1>10 DEF Adds, Leads
<1>12. w \in Nat
  BY <1>6, <1>10, PlaceTyped
<1>13. v \in Nat /\ w < v
  BY <1>5, <1>11, <1>12
<1>14. Leads(c, p \o mv[x], e, n + nx, b + bx)
  BY <1>5, <1>6, <1>11, LeadsOn
<1>15. c.stack \in Seq(Nat)
  BY PlaceTyped
<1>16. PICK q : q = Append(ptrs, v)
  OBVIOUS
<1>17. /\ q \in Seq(Nat) /\ Len(q) = k + 1 /\ q[k + 1] = v /\ \A i \in 1 .. k : q[i] = ptrs[i]
       /\ c.stack \o q = Append(c.stack \o ptrs, v)
  <2>1. ptrs \in Seq(Nat) /\ Len(ptrs) = k
    BY <1>7
  <2>2. PICK s \in Seq(Nat) : s = c.stack
    BY <1>15
  <2>3. /\ s \o q = Append(s \o ptrs, v) /\ q \in Seq(Nat)
        /\ Len(q) = Len(ptrs) + 1 /\ q[Len(ptrs) + 1] = v
        /\ \A i \in 1 .. Len(ptrs) : q[i] = ptrs[i]
    BY <1>13, <1>16, <2>1, AppendPointer
  <2>. QED BY <2>1, <2>2, <2>3
<1>18. ASSUME NEW i \in 1 .. k + 1 PROVE <<e, q[i], xs[i]>> \in R /\ q[i] \in 1 .. v
  <2>1. CASE i = k + 1
    <3>1. <<e, q[i], xs[i]>> \in R
      BY <1>1, <1>11, <1>17, <2>1
    <3>2. q[i] \in 1 .. v
      BY <1>12, <1>13, <1>17, <2>1
    <3>. QED BY <3>1, <3>2
  <2>2. CASE i # k + 1
    <3>1. i \in 1 .. k
      BY <2>2
    <3>2. q[i] = ptrs[i] /\ <<d, ptrs[i], xs[i]>> \in R /\ ptrs[i] \in 1 .. w
      BY <1>7, <1>10, <1>17, <3>1
    <3>3. xs[i] \in X /\ ptrs[i] \in Nat
      BY <1>12, <3>2
    <3>4. <<e, ptrs[i], xs[i]>> \in R
      BY <1>6, <1>11, <3>2, <3>3 DEF Readable
    <3>5. ptrs[i] \in 1 .. v
      BY <1>12, <1>13, <3>2
    <3>. QED BY <3>2, <3>4, <3>5
  <2>. QED BY <2>1, <2>2
<1>19. ASSUME NEW i \in 1 .. k + 1, NEW j \in 1 .. k + 1, i < j PROVE q[i] < q[j]
  <2>1. i \in 1 .. k
    BY <1>19
  <2>2. CASE j = k + 1
    <3>1. q[i] = ptrs[i] /\ ptrs[i] \in 1 .. w /\ q[j] = v
      BY <1>7, <1>10, <1>17, <2>1, <2>2
    <3>. QED BY <1>12, <1>13, <3>1
  <2>3. CASE j # k + 1
    <3>1. j \in 1 .. k
      BY <2>3
    <3>. QED BY <1>7, <1>17, <1>19, <2>1, <3>1
  <2>. QED BY <2>2, <2>3
<1>20. AreElements(e, q, xs, k + 1, R)
  BY <1>9, <1>17, <1>18, <1>19 DEF AreElements
<1>21. ReadUpTo(c, p \o mv[x], e, k + 1, n + nx, b + bx, q, xs, R)
  BY <1>6, <1>11, <1>14, <1>17, <1>20 DEF ReadUpTo
<1>. QED BY <1>1, <1>3, <1>4, <1>21

\* The moves for the first elements of xs, their nodes and their bytes.
SumsUp(n, xs, X, mv, nd, by, f, sn, sb) ==
    /\ \A i \in 1 .. n : xs[i] \in X
    /\ Joins(n, [k \in 1 .. n |-> mv[xs[k]]], f)
    /\ sn \in [0 .. n -> Nat] /\ IsSum(n, [k \in 1 .. n |-> nd[xs[k]]], sn)
    /\ sb \in [0 .. n -> Nat] /\ IsSum(n, [k \in 1 .. n |-> by[xs[k]]], sb)

\* All elements.
LEMMA ReadElements ==
    ASSUME NEW X, NEW mv, NEW nd, NEW by, NEW R, Readable(X, mv, nd, by, R),
           NEW c \in Place, NEW n \in Nat, NEW xs, NEW f, NEW sn, NEW sb,
           SumsUp(n, xs, X, mv, nd, by, f, sn, sb)
    PROVE  \E d, ptrs : ReadUpTo(c, f[n], d, n, sn[n], sb[n], ptrs, xs, R)
<1>. DEFINE P(k) == \E d, ptrs : ReadUpTo(c, f[k], d, k, sn[k], sb[k], ptrs, xs, R)
            T == {k \in 0 .. n : ~ P(k)}
<1>1. P(0)
  <2>1. f[0] = <<>> /\ sn[0] = 0 /\ sb[0] = 0
    BY DEF SumsUp, Joins, IsSum
  <2>2. Leads(c, <<>>, c, 0, 0)
    <3>1. Runs(c, <<>>, c) /\ Extends(c, c) /\ <<>> \in Seq(AnyMove)
      BY NoMoves, ExtendsItself
    <3>2. Len(c.nodes) = Len(c.nodes) + 0 /\ c.used = c.used + 0
      BY PlaceTyped
    <3>. QED BY <3>1, <3>2 DEF Leads
  <2>3. AreElements(c, <<>>, xs, 0, R)
    BY DEF AreElements
  <2>4. c.stack = c.stack \o <<>>
    BY PlaceTyped, ConcatEmptySeq
  <2>5. ReadUpTo(c, <<>>, c, 0, 0, 0, <<>>, xs, R)
    BY <2>2, <2>3, <2>4 DEF ReadUpTo
  <2>. QED BY <2>1, <2>5
<1>2. ASSUME NEW k \in 0 .. n - 1, P(k) PROVE P(k + 1)
  <2>1. k \in Nat /\ k + 1 \in 1 .. n /\ (k + 1) - 1 = k /\ \A i \in 1 .. k + 1 : xs[i] \in X
    BY DEF SumsUp
  <2>2. f[k + 1] = f[k] \o mv[xs[k + 1]]
    BY <2>1 DEF SumsUp, Joins
  <2>3. /\ sn[k + 1] = sn[k] + nd[xs[k + 1]] /\ sb[k + 1] = sb[k] + by[xs[k + 1]]
        /\ sn[k] \in Nat /\ sb[k] \in Nat
    BY <2>1 DEF SumsUp, IsSum
  <2>4. PICK d, ptrs : ReadUpTo(c, f[k], d, k, sn[k], sb[k], ptrs, xs, R)
    BY <1>2
  <2>5. \E e, q : ReadUpTo(c, f[k] \o mv[xs[k + 1]], e, k + 1, sn[k] + nd[xs[k + 1]],
                          sb[k] + by[xs[k + 1]], q, xs, R)
    BY <2>1, <2>3, <2>4, ReadNext
  <2>. QED BY <2>2, <2>3, <2>5
<1>. HIDE DEF P
<1>3. T = {}
  <2>. SUFFICES ASSUME T # {} PROVE FALSE
    OBVIOUS
  <2>1. PICK k \in T : \A j \in T : k <= j
    <3>1. T \subseteq Nat
      OBVIOUS
    <3>. HIDE DEF T
    <3>. QED BY <3>1, Least
  <2>2. k \in 0 .. n /\ k # 0 /\ ~P(k)
    BY <1>1
  <2>3. k - 1 \in 0 .. n - 1 /\ k - 1 \in 0 .. n /\ ~(k <= k - 1) /\ (k - 1) + 1 = k
    BY <2>2
  <2>4. P(k - 1)
    BY <2>1, <2>3
  <2>5. P((k - 1) + 1)
    BY <1>2, <2>3, <2>4
  <2>. QED BY <2>2, <2>3, <2>5
<1>4. P(n)
  BY <1>3
<1>. QED BY <1>4 DEF P

\* The moves that make j + 1 cells.
CellMoves(j) == <<Reduce("list", 1)>> \o [k \in 1 .. j |-> Reduce("prepend", 2)]

CellOf(ptrs, m, i) ==
    [kind |-> "N_LIST", self |-> ptrs[Len(ptrs) - i], next |-> IF i = 0 THEN Null ELSE m + i]

\* The last j + 1 of the nodes ptrs, on the stack above s, are in cells.
Linking(d, s, ptrs, m, j, e) ==
    /\ m = Len(d.nodes) /\ Leads(d, CellMoves(j), e, j + 1, 0)
    /\ e.stack = s \o Append(SubSeq(ptrs, 1, Len(ptrs) - 1 - j), m + 1 + j)
    /\ \A i \in 0 .. j : m + 1 + i \in DOMAIN e.nodes /\ e.nodes[m + 1 + i] = CellOf(ptrs, m, i)

LEMMA FirstOnes ==
    ASSUME NEW t \in Seq(Nat), NEW r \in 1 .. Len(t)
    PROVE  /\ SubSeq(t, 1, r - 1) \in Seq(Nat) /\ SubSeq(t, 1, r) \in Seq(Nat) /\ t[r] \in Nat
           /\ SubSeq(t, 1, r) = Append(SubSeq(t, 1, r - 1), t[r])
<1>1. PICK u : u = SubSeq(t, 1, r - 1)
  OBVIOUS
<1>2. /\ u \in Seq(Nat) /\ Len(u) = r - 1 /\ t[r] \in Nat
      /\ \A i \in 1 .. r - 1 : u[i] = t[i]
  BY <1>1
<1>3. PICK v : v = SubSeq(t, 1, r)
  OBVIOUS
<1>4. v \in Seq(Nat) /\ Len(v) = r /\ \A i \in 1 .. r : v[i] = t[i]
  BY <1>3
<1>5. /\ Append(u, t[r]) \in Seq(Nat) /\ Len(Append(u, t[r])) = Len(u) + 1
      /\ Append(u, t[r])[Len(u) + 1] = t[r]
      /\ \A i \in 1 .. Len(u) : Append(u, t[r])[i] = u[i]
  BY <1>2, AppendProperties
<1>6. ASSUME NEW i \in 1 .. r PROVE v[i] = Append(u, t[r])[i]
  <2>1. CASE i = r
    BY <1>2, <1>4, <1>5, <2>1
  <2>2. CASE i # r
    <3>1. i \in 1 .. r - 1
      BY <2>2
    <3>. QED BY <1>2, <1>4, <1>5, <3>1
  <2>. QED BY <2>1, <2>2
<1>7. Len(Append(u, t[r])) = r
  BY <1>2, <1>5
<1>8. v = Append(u, t[r])
  BY <1>4, <1>5, <1>6, <1>7, SeqEqual
<1>. QED BY <1>1, <1>2, <1>3, <1>4, <1>8

LEMMA TwoLast ==
    ASSUME NEW s \in Seq(Nat), NEW u \in Seq(Nat), NEW v \in Nat
    PROVE  /\ s \o Append(u, v) = (s \o u) \o <<v>> /\ s \o u \in Seq(Nat)
           /\ \A w \in Nat : s \o Append(Append(u, v), w) = (s \o u) \o <<v, w>>
<1>1. s \o u \in Seq(Nat) /\ Append(u, v) = u \o <<v>> /\ <<v>> \in Seq(Nat)
  BY Concats
<1>2. s \o Append(u, v) = (s \o u) \o <<v>>
  BY <1>1, Concats
<1>3. ASSUME NEW w \in Nat PROVE s \o Append(Append(u, v), w) = (s \o u) \o <<v, w>>
  <2>1. Append(Append(u, v), w) = u \o <<v, w>>
    BY Stacked
  <2>2. <<v, w>> \in Seq(Nat)
    OBVIOUS
  <2>3. s \o (u \o <<v, w>>) = (s \o u) \o <<v, w>>
    BY <2>2, Concats
  <2>. QED BY <2>1, <2>3
<1>. QED BY <1>1, <1>2, <1>3

LEMMA LastOfFirst ==
    ASSUME NEW s \in Seq(Nat), NEW t \in Seq(Nat), NEW r \in 1 .. Len(t)
    PROVE  /\ s \o SubSeq(t, 1, r) = (s \o SubSeq(t, 1, r - 1)) \o <<t[r]>>
           /\ \A w \in Nat : s \o Append(SubSeq(t, 1, r), w)
                             = (s \o SubSeq(t, 1, r - 1)) \o <<t[r], w>>
           /\ SubSeq(t, 1, r - 1) \in Seq(Nat) /\ SubSeq(t, 1, r) \in Seq(Nat)
           /\ s \o SubSeq(t, 1, r - 1) \in Seq(Nat) /\ t[r] \in Nat
<1>1. PICK u : u = SubSeq(t, 1, r - 1)
  OBVIOUS
<1>2. PICK v : v = t[r]
  OBVIOUS
<1>3. /\ u \in Seq(Nat) /\ v \in Nat /\ SubSeq(t, 1, r) \in Seq(Nat)
      /\ SubSeq(t, 1, r) = Append(u, v)
  BY <1>1, <1>2, FirstOnes
<1>4. /\ s \o Append(u, v) = (s \o u) \o <<v>> /\ s \o u \in Seq(Nat)
      /\ \A w \in Nat : s \o Append(Append(u, v), w) = (s \o u) \o <<v, w>>
  BY <1>3, TwoLast
<1>. QED BY <1>1, <1>2, <1>3, <1>4

LEMMA FirstCell ==
    ASSUME NEW d \in Place, NEW s \in Seq(Nat), NEW ptrs \in Seq(Nat), ptrs # <<>>,
           d.stack = s \o ptrs, \A i \in 1 .. Len(ptrs) : ptrs[i] \in 1 .. Len(d.nodes)
    PROVE  \E e : Linking(d, s, ptrs, Len(d.nodes), 0, e)
<1>1. PICK n : n = Len(ptrs)
  OBVIOUS
<1>2. n \in Nat \ {0} /\ n \in 1 .. Len(ptrs) /\ n - 1 = Len(ptrs) - 1 - 0
  BY <1>1
<1>3. PICK m : m = Len(d.nodes)
  OBVIOUS
<1>4. m \in Nat
  BY <1>3, PlaceTyped
<1>5. PICK v : v = ptrs[n]
  OBVIOUS
<1>6. v \in Nat /\ v <= m
  BY <1>2, <1>3, <1>4, <1>5
<1>7. PICK u : u = SubSeq(ptrs, 1, n - 1)
  OBVIOUS
<1>8. SubSeq(ptrs, 1, n) = ptrs
  BY <1>1, SubSeqFull
<1>9. d.stack = (s \o u) \o <<v>> /\ s \o u \in Seq(Nat) /\ u \in Seq(Nat)
  <2>1. /\ s \o SubSeq(ptrs, 1, n) = (s \o SubSeq(ptrs, 1, n - 1)) \o <<ptrs[n]>>
        /\ SubSeq(ptrs, 1, n - 1) \in Seq(Nat) /\ s \o SubSeq(ptrs, 1, n - 1) \in Seq(Nat)
    BY <1>2, LastOfFirst
  <2>. QED BY <1>5, <1>7, <1>8, <2>1
<1>. DEFINE a == Reduce("list", 1)
            node == list_node(v)
<1>10. a \in AnyMove /\ Reduces(a) /\ a.arity = 1 /\ a.op = "list"
  BY DEF AnyMove, Reduces, Reduce
<1>11. node \in Node /\ node = [kind |-> "N_LIST", self |-> v, next |-> Null]
  BY <1>6, NodesTyped DEF list_node
<1>. HIDE DEF a, node
<1>12. <<v>> \in Seq(Nat) /\ Len(<<v>>) = 1 /\ <<v>>[1] = v
  BY <1>6
<1>13. node = NodeOf(d.nodes, a, <<v>>)
  BY <1>10, <1>12, NodeOfOne DEF node
<1>14. node.self <= Len(d.nodes) /\ node.next \in {Null} \cup Cells(d.nodes)
  BY <1>3, <1>6, <1>11
<1>15. Makes(d, a, s \o u, <<v>>, node)
  BY <1>9, <1>10, <1>11, <1>12, <1>13, <1>14 DEF Makes
<1>16. PICK e : Made(d, a, s \o u, node, e)
  BY <1>15, Build
<1>17. /\ Leads(d, <<a>>, e, 1, 0) /\ e.stack = Append(s \o u, Len(e.nodes))
       /\ e.nodes[Len(e.nodes)] = node /\ Len(e.nodes) \in DOMAIN e.nodes
  BY <1>16 DEF Made
<1>18. Len(e.nodes) = m + 1
  BY <1>3, <1>17 DEF Leads
<1>19. CellMoves(0) = <<a>>
  <2>1. [k \in 1 .. 0 |-> Reduce("prepend", 2)] = <<>>
    OBVIOUS
  <2>2. <<a>> \in Seq(AnyMove) /\ <<a>> \o <<>> = <<a>>
    BY <1>10, ConcatEmptySeq
  <2>. QED BY <2>1, <2>2 DEF CellMoves, a
<1>20. e.stack = s \o Append(u, m + 1)
  <2>1. m + 1 \in Nat
    BY <1>4
  <2>2. s \o Append(u, m + 1) = Append(s \o u, m + 1)
    BY <1>9, <2>1, AppendPointer, ZenonT(40)
  <2>. QED BY <1>17, <1>18, <2>2
<1>21. CellOf(ptrs, m, 0) = node
  <2>1. Len(ptrs) - 0 = n
    BY <1>1, <1>2
  <2>. QED BY <1>5, <1>11, <2>1 DEF CellOf
<1>22. m + 1 + 0 = m + 1 /\ 0 + 1 = 1 /\ \A i \in 0 .. 0 : i = 0
  BY <1>4
<1>23. \A i \in 0 .. 0 : m + 1 + i \in DOMAIN e.nodes /\ e.nodes[m + 1 + i] = CellOf(ptrs, m, i)
  BY <1>17, <1>18, <1>21, <1>22
<1>24. Linking(d, s, ptrs, m, 0, e)
  BY <1>2, <1>3, <1>7, <1>17, <1>19, <1>20, <1>22, <1>23 DEF Linking
<1>. QED BY <1>3, <1>24

LEMMA MoreCells ==
    ASSUME NEW j \in Nat
    PROVE  /\ CellMoves(j + 1) = CellMoves(j) \o <<Reduce("prepend", 2)>>
           /\ CellMoves(j) \in Seq(AnyMove) /\ Len(CellMoves(j)) = j + 1
<1>. PICK a : a = Reduce("list", 1)
  OBVIOUS
<1>. PICK b : b = Reduce("prepend", 2)
  OBVIOUS
<1>1. a \in AnyMove /\ b \in AnyMove
  BY DEF AnyMove, Reduce
<1>. DEFINE f(k) == [i \in 1 .. k |-> b]
<1>2. \A k \in Nat : f(k) \in Seq(AnyMove) /\ Len(f(k)) = k /\ \A i \in 1 .. k : f(k)[i] = b
  BY <1>1
<1>3. <<a>> \in Seq(AnyMove) /\ Len(<<a>>) = 1 /\ <<b>> \in Seq(AnyMove) /\ Len(<<b>>) = 1
      /\ <<b>>[1] = b
  BY <1>1
<1>4. f(j + 1) = f(j) \o <<b>>
  <2>1. PICK u \in Seq(AnyMove) : u = f(j)
    BY <1>2
  <2>2. Len(u) = j /\ \A i \in 1 .. j : u[i] = b
    BY <1>2, <2>1
  <2>3. PICK w \in Seq(AnyMove) : w = f(j + 1)
    <3>1. j + 1 \in Nat
      OBVIOUS
    <3>. HIDE DEF f
    <3>. QED BY <1>2, <3>1
  <2>4. Len(w) = j + 1 /\ \A i \in 1 .. j + 1 : w[i] = b
    BY <1>2, <2>3
  <2>. HIDE DEF f
  <2>5. u \o <<b>> \in Seq(AnyMove) /\ Len(u \o <<b>>) = j + 1
    BY <1>3, <2>2
  <2>6. \A i \in 1 .. j + 1 : (u \o <<b>>)[i] = w[i]
    BY <1>3, <2>2, <2>4
  <2>7. u \o <<b>> = w
    BY <2>4, <2>5, <2>6, SeqEqual
  <2>. QED BY <2>1, <2>3, <2>7
<1>5. CellMoves(j) = <<a>> \o f(j) /\ CellMoves(j + 1) = <<a>> \o f(j + 1)
  BY DEF CellMoves
<1>. HIDE DEF f
<1>6. f(j) \in Seq(AnyMove) /\ Len(f(j)) = j
  BY <1>2
<1>7. <<a>> \o (f(j) \o <<b>>) = (<<a>> \o f(j)) \o <<b>>
  BY <1>3, <1>6, ConcatAssociative
<1>8. <<a>> \o f(j) \in Seq(AnyMove) /\ Len(<<a>> \o f(j)) = j + 1
  BY <1>3, <1>6
<1>. QED BY <1>4, <1>5, <1>7, <1>8

LEMMA NextCell ==
    ASSUME NEW d \in Place, NEW s \in Seq(Nat), NEW ptrs \in Seq(Nat), NEW m \in Nat,
           \A i \in 1 .. Len(ptrs) : ptrs[i] \in 1 .. m,
           NEW j \in Nat, j + 1 <= Len(ptrs) - 1, NEW e, Linking(d, s, ptrs, m, j, e)
    PROVE  \E g : Linking(d, s, ptrs, m, j + 1, g)
<1>1. PICK n \in Nat : n = Len(ptrs)
  OBVIOUS
<1>2. PICK r : r = n - 1 - j
  OBVIOUS
<1>3. /\ n \in Nat /\ r \in 1 .. n /\ m \in Nat /\ r - 1 = n - 1 - (j + 1) /\ r = n - (j + 1)
      /\ j + 1 \in Nat /\ m + (j + 1) = m + 1 + j /\ m + 1 + (j + 1) = (m + 1 + j) + 1
  <2>1. j + 1 <= n - 1
    BY <1>1
  <2>2. /\ n - 1 - j \in 1 .. n /\ (n - 1 - j) - 1 = n - 1 - (j + 1) /\ n - 1 - j = n - (j + 1)
        /\ j + 1 \in Nat /\ m + (j + 1) = m + 1 + j /\ m + 1 + (j + 1) = (m + 1 + j) + 1
    <3>1. j + 1 \in Nat /\ m + (j + 1) = m + 1 + j /\ m + 1 + (j + 1) = (m + 1 + j) + 1
      OBVIOUS
    <3>2. (n - 1 - j) - 1 = n - 1 - (j + 1) /\ n - 1 - j = n - (j + 1)
      OBVIOUS
    <3>3. n - 1 - j \in 1 .. n
      BY <2>1
    <3>. QED BY <3>1, <3>2, <3>3
  <2>. QED BY <1>2, <2>2
<1>4. PICK w : w = m + 1 + j
  OBVIOUS
<1>5. PICK v : v = ptrs[r]
  OBVIOUS
<1>6. w \in Nat /\ w # 0 /\ v \in Nat /\ v <= m /\ v < w
  <2>1. ptrs[r] \in 1 .. m
    BY <1>1, <1>3
  <2>2. v \in 1 .. m
    BY <1>5, <2>1
  <2>. QED BY <1>3, <1>4, <2>2
<1>7. PICK u : u = SubSeq(ptrs, 1, r - 1)
  OBVIOUS
<1>8. /\ Leads(d, CellMoves(j), e, j + 1, 0) /\ e.stack = s \o Append(SubSeq(ptrs, 1, r), w)
      /\ \A i \in 0 .. j : m + 1 + i \in DOMAIN e.nodes /\ e.nodes[m + 1 + i] = CellOf(ptrs, m, i)
  BY <1>1, <1>2, <1>4 DEF Linking
<1>9. e.stack = (s \o u) \o <<v, w>> /\ s \o u \in Seq(Nat) /\ u \in Seq(Nat)
  <2>1. /\ s \o Append(SubSeq(ptrs, 1, r), w) = (s \o SubSeq(ptrs, 1, r - 1)) \o <<ptrs[r], w>>
        /\ SubSeq(ptrs, 1, r - 1) \in Seq(Nat) /\ s \o SubSeq(ptrs, 1, r - 1) \in Seq(Nat)
    BY <1>1, <1>3, <1>6, LastOfFirst
  <2>. QED BY <1>5, <1>7, <1>8, <2>1
<1>10. e \in Place /\ Len(e.nodes) = w
  <2>1. e \in Place /\ Len(e.nodes) = m + (j + 1)
    <3>1. m = Len(d.nodes)
      BY DEF Linking
    <3>. QED BY <1>8, <3>1 DEF Leads
  <2>. QED BY <1>3, <1>4, <2>1
<1>11. w \in DOMAIN e.nodes /\ e.nodes[w].kind = "N_LIST"
  <2>1. j \in 0 .. j
    OBVIOUS
  <2>2. w \in DOMAIN e.nodes /\ e.nodes[w] = CellOf(ptrs, m, j)
    BY <1>4, <1>8, <2>1
  <2>3. CellOf(ptrs, m, j).kind = "N_LIST"
    BY DEF CellOf
  <2>. QED BY <2>2, <2>3
<1>12. w \in Cells(e.nodes)
  BY <1>11 DEF Cells
<1>. DEFINE a == Reduce("prepend", 2)
            node == prepend(v, w)
<1>13. a \in AnyMove /\ Reduces(a) /\ a.arity = 2 /\ a.op = "prepend"
  BY DEF AnyMove, Reduces, Reduce
<1>14. node \in Node /\ node = [kind |-> "N_LIST", self |-> v, next |-> w]
  BY <1>6, NodesTyped DEF prepend
<1>15. CellMoves(j + 1) = CellMoves(j) \o <<a>>
  BY MoreCells
<1>. HIDE DEF a
<1>16. <<v, w>> \in Seq(Nat) /\ Len(<<v, w>>) = 2 /\ <<v, w>>[1] = v /\ <<v, w>>[2] = w
  BY <1>6
<1>17. node = NodeOf(e.nodes, a, <<v, w>>)
  BY <1>13, <1>16, NodeOfTwo
<1>. HIDE DEF node
<1>18. node.self <= Len(e.nodes) /\ node.next \in {Null} \cup Cells(e.nodes)
  BY <1>6, <1>10, <1>12, <1>14
<1>19. Makes(e, a, s \o u, <<v, w>>, node)
  BY <1>9, <1>10, <1>13, <1>14, <1>16, <1>17, <1>18 DEF Makes
<1>20. PICK g : Made(e, a, s \o u, node, g)
  BY <1>19, Build
<1>21. /\ Leads(e, <<a>>, g, 1, 0) /\ g.stack = Append(s \o u, Len(g.nodes))
       /\ g.nodes[Len(g.nodes)] = node /\ Len(g.nodes) \in DOMAIN g.nodes
  BY <1>20 DEF Made
<1>22. Len(g.nodes) = w + 1 /\ Extends(e, g) /\ g \in Place
  BY <1>10, <1>21 DEF Leads
<1>23. Leads(d, CellMoves(j + 1), g, (j + 1) + 1, 0)
  <2>1. PICK k \in Nat : k = j + 1
    BY <1>3
  <2>2. Leads(d, CellMoves(j), e, k, 0)
    BY <1>8, <2>1
  <2>3. Leads(d, CellMoves(j) \o <<a>>, g, k + 1, 0 + 0)
    BY <1>21, <2>2, LeadsOn
  <2>4. 0 + 0 = 0
    OBVIOUS
  <2>. QED BY <1>15, <2>1, <2>3, <2>4
<1>24. g.stack = s \o Append(u, w + 1)
  <2>1. w + 1 \in Nat
    BY <1>6
  <2>2. s \o Append(u, w + 1) = Append(s \o u, w + 1)
    BY <1>9, <2>1, AppendPointer, ZenonT(40)
  <2>. QED BY <1>21, <1>22, <2>2
<1>25. CellOf(ptrs, m, j + 1) = node
  <2>1. Len(ptrs) - (j + 1) = r
    BY <1>1, <1>3
  <2>2. j + 1 # 0 /\ m + (j + 1) = w
    <3>1. j + 1 # 0
      OBVIOUS
    <3>. QED BY <1>3, <1>4, <3>1
  <2>. QED BY <1>5, <1>14, <2>1, <2>2 DEF CellOf
<1>26. ASSUME NEW i \in 0 .. j + 1
       PROVE  m + 1 + i \in DOMAIN g.nodes /\ g.nodes[m + 1 + i] = CellOf(ptrs, m, i)
  <2>1. CASE i = j + 1
    <3>1. m + 1 + i = w + 1
      BY <1>3, <1>4, <2>1
    <3>. QED BY <1>21, <1>22, <1>25, <2>1, <3>1
  <2>2. CASE i # j + 1
    <3>1. PICK x : x = m + 1 + i
      OBVIOUS
    <3>2. i \in 0 .. j
      BY <2>2
    <3>3. x \in DOMAIN e.nodes /\ e.nodes[x] = CellOf(ptrs, m, i)
      BY <1>8, <3>1, <3>2
    <3>4. g.nodes[x] = e.nodes[x]
      BY <1>22, <3>3 DEF Extends
    <3>5. x \in DOMAIN g.nodes
      <4>1. DOMAIN e.nodes = 1 .. w /\ DOMAIN g.nodes = 1 .. w + 1
        BY <1>10, <1>22, PlaceTyped
      <4>. QED BY <1>6, <3>3, <4>1
    <3>. QED BY <3>1, <3>3, <3>4, <3>5
  <2>. QED BY <2>1, <2>2
<1>27. Len(ptrs) - 1 - (j + 1) = r - 1 /\ m + 1 + (j + 1) = w + 1
  <2>1. Len(ptrs) - 1 - (j + 1) = r - 1
    BY <1>1, <1>3
  <2>2. m + 1 + (j + 1) = w + 1
    BY <1>3, <1>4
  <2>. QED BY <2>1, <2>2
<1>28. g.stack = s \o Append(SubSeq(ptrs, 1, Len(ptrs) - 1 - (j + 1)), m + 1 + (j + 1))
  BY <1>7, <1>24, <1>27
<1>29. Linking(d, s, ptrs, m, j + 1, g)
  <2>1. m = Len(d.nodes)
    BY DEF Linking
  <2>. QED BY <1>23, <1>26, <1>28, <2>1 DEF Linking
<1>. QED BY <1>29

\* All of the elements are in cells: a list, the last node of e.
LEMMA LinkElements ==
    ASSUME NEW d \in Place, NEW s \in Seq(Nat), NEW ptrs \in Seq(Nat), ptrs # <<>>,
           d.stack = s \o ptrs, \A i \in 1 .. Len(ptrs) : ptrs[i] \in 1 .. Len(d.nodes)
    PROVE  \E e : /\ Leads(d, CellMoves(Len(ptrs) - 1), e, Len(ptrs), 0)
                  /\ e.stack = Append(s, Len(e.nodes)) /\ Len(e.nodes) \in DOMAIN e.nodes
                  /\ ListAt(e.nodes, Len(e.nodes), ptrs)
<1>1. PICK n : n = Len(ptrs)
  OBVIOUS
<1>2. PICK m \in Nat : m = Len(d.nodes)
  BY PlaceTyped
<1>3. n \in Nat \ {0} /\ m \in Nat
  BY <1>1, <1>2
<1>. DEFINE P(j) == \E e : Linking(d, s, ptrs, m, j, e)
            T == {j \in 0 .. n - 1 : ~P(j)}
<1>4. P(0)
  BY <1>2, FirstCell
<1>5. ASSUME NEW j \in Nat, j + 1 <= n - 1, P(j) PROVE P(j + 1)
  <2>1. PICK e : Linking(d, s, ptrs, m, j, e)
    BY <1>5
  <2>2. j + 1 <= Len(ptrs) - 1 /\ \A i \in 1 .. Len(ptrs) : ptrs[i] \in 1 .. m
    BY <1>1, <1>2, <1>5
  <2>3. \E g : Linking(d, s, ptrs, m, j + 1, g)
    BY <2>1, <2>2, NextCell
  <2>. QED BY <2>3
<1>. HIDE DEF P
<1>6. T = {}
  <2>. SUFFICES ASSUME T # {} PROVE FALSE
    OBVIOUS
  <2>1. PICK k \in T : \A j \in T : k <= j
    <3>1. T \subseteq Nat
      OBVIOUS
    <3>. HIDE DEF T
    <3>. QED BY <3>1, Least
  <2>2. k \in 0 .. n - 1 /\ k # 0 /\ ~P(k)
    BY <1>4
  <2>3. /\ k - 1 \in 0 .. n - 1 /\ k - 1 \in Nat /\ ~(k <= k - 1) /\ (k - 1) + 1 = k
        /\ (k - 1) + 1 <= n - 1
    BY <1>3, <2>2
  <2>4. P(k - 1)
    BY <2>1, <2>3
  <2>5. P((k - 1) + 1)
    BY <1>5, <2>3, <2>4
  <2>. QED BY <2>2, <2>3, <2>5
<1>7. P(n - 1)
  BY <1>3, <1>6
<1>8. PICK e : Linking(d, s, ptrs, m, n - 1, e)
  BY <1>7 DEF P
<1>9. PICK l : l = m + n
  OBVIOUS
<1>10. /\ (n - 1) + 1 = n /\ n - 1 - (n - 1) = 0 /\ m + 1 + (n - 1) = l /\ l \in Nat
       /\ SubSeq(ptrs, 1, 0) = <<>>
  BY <1>3, <1>9
<1>11. /\ Leads(d, CellMoves(n - 1), e, n, 0) /\ e.stack = s \o Append(<<>>, l)
       /\ \A i \in 0 .. n - 1 :
            m + 1 + i \in DOMAIN e.nodes /\ e.nodes[m + 1 + i] = CellOf(ptrs, m, i)
  BY <1>1, <1>8, <1>10 DEF Linking
<1>12. Len(e.nodes) = l
  BY <1>2, <1>3, <1>9, <1>11 DEF Leads
<1>13. e.stack = Append(s, l)
  <2>1. Append(<<>>, l) = <<l>> /\ Append(s, l) = s \o <<l>>
    BY <1>10, Concats
  <2>. QED BY <1>11, <2>1
<1>14. ASSUME NEW i \in 1 .. n
       PROVE  /\ l - i + 1 \in DOMAIN e.nodes
              /\ e.nodes[l - i + 1] = [kind |-> "N_LIST", self |-> ptrs[i],
                                       next |-> IF i = n THEN Null ELSE l - i]
  <2>1. /\ n - i \in 0 .. n - 1 /\ m + 1 + (n - i) = l - i + 1 /\ n - (n - i) = i
        /\ (n - i = 0 <=> i = n) /\ m + (n - i) = l - i
    BY <1>3, <1>9
  <2>2. l - i + 1 \in DOMAIN e.nodes /\ e.nodes[l - i + 1] = CellOf(ptrs, m, n - i)
    BY <1>11, <2>1
  <2>3. CellOf(ptrs, m, n - i) = [kind |-> "N_LIST", self |-> ptrs[i],
                                  next |-> IF i = n THEN Null ELSE l - i]
    BY <1>1, <2>1 DEF CellOf
  <2>. QED BY <2>2, <2>3
<1>15. ListAt(e.nodes, l, ptrs)
  BY <1>1, <1>14 DEF ListAt
<1>16. l \in DOMAIN e.nodes
  <2>1. n - 1 \in 0 .. n - 1
    BY <1>3
  <2>. QED BY <1>10, <1>11, <2>1
<1>. QED BY <1>1, <1>11, <1>12, <1>13, <1>15, <1>16

\* The list at l has the elements xs.
IsList(d, l, ptrs, xs, R) ==
    /\ l \in DOMAIN d.nodes /\ ListAt(d.nodes, l, ptrs) /\ AreElements(d, ptrs, xs, Len(xs), R)
    /\ \A i \in 1 .. Len(xs) : ptrs[i] < l

\* What is left of a list after its elements: the moves of ListMoves.
LEMMA MovesOfList ==
    ASSUME NEW n \in Nat \ {0}, NEW seqs \in [1 .. n -> Seq(AnyMove)],
           NEW f \in [0 .. n -> Seq(AnyMove)], FlattenSeq(seqs) = f[n]
    PROVE  ListMoves(seqs) = f[n] \o CellMoves(n - 1)
<1>. PICK a : a = Reduce("list", 1)
  OBVIOUS
<1>. PICK b : b = Reduce("prepend", 2)
  OBVIOUS
<1>1. a \in AnyMove /\ b \in AnyMove
  BY DEF AnyMove, Reduce
<1>2. Len(seqs) = n
  OBVIOUS
<1>3. PICK g : g = [k \in 1 .. n - 1 |-> b]
  OBVIOUS
<1>4. g \in Seq(AnyMove)
  BY <1>1, <1>3
<1>5. <<a>> \in Seq(AnyMove)
  BY <1>1
<1>6. PICK u \in Seq(AnyMove) : u = f[n]
  OBVIOUS
<1>7. (u \o <<a>>) \o g = u \o (<<a>> \o g)
  BY <1>4, <1>5, ConcatAssociative, SMTT(30)
<1>8. CellMoves(n - 1) = <<a>> \o g
  BY <1>3 DEF CellMoves
<1>9. ListMoves(seqs) = (u \o <<a>>) \o g
  BY <1>2, <1>3, <1>6 DEF ListMoves
<1>. QED BY <1>6, <1>7, <1>8, <1>9

LEMMA TotalOfOnes ==
    ASSUME NEW n \in Nat
    PROVE  Total([k \in 1 .. n |-> 1]) = n
<1>. DEFINE f == [k \in 1 .. n |-> 1]
<1>1. f \in [1 .. n -> Nat] /\ \A k \in 1 .. n : f[k] = 1
  OBVIOUS
<1>. HIDE DEF f
<1>2. PICK s \in [0 .. n -> Nat] : IsSum(n, f, s) /\ Total(f) = s[n]
  BY <1>1, TotalIsSum
<1>3. s[0] = 0 /\ \A k \in 1 .. n : s[k] = s[k - 1] + 1
  BY <1>1, <1>2 DEF IsSum
<1>. DEFINE T == {k \in 0 .. n : s[k] # k}
<1>4. CASE T = {}
  <2>1. n \in 0 .. n /\ n \notin T
    BY <1>4
  <2>2. s[n] = n
    BY <2>1
  <2>. QED BY <1>2, <2>2 DEF f
<1>5. CASE T # {}
  <2>1. PICK k \in T : \A j \in T : k <= j
    <3>1. T \subseteq Nat
      OBVIOUS
    <3>. HIDE DEF T
    <3>. QED BY <1>5, <3>1, Least
  <2>2. k \in 1 .. n /\ s[k] # k /\ k - 1 \in 0 .. n /\ ~(k <= k - 1)
    BY <1>3
  <2>3. s[k - 1] = k - 1
    BY <2>1, <2>2
  <2>4. s[k] = (k - 1) + 1
    BY <1>3, <2>2, <2>3
  <2>. QED BY <2>2, <2>4
<1>. QED BY <1>4, <1>5

\* The list xs is the last that has been read on the way from c to d.
ListRead(mv, nd, by, R, c, xs, d, ptrs) ==
    /\ Adds(c, ListMoves([k \in DOMAIN xs |-> mv[xs[k]]]), d,
            Total([k \in DOMAIN xs |-> nd[xs[k]]]) + Len(xs),
            Total([k \in DOMAIN xs |-> by[xs[k]]]))
    /\ IsList(d, Len(d.nodes), ptrs, xs, R)
    /\ Total([k \in DOMAIN xs |-> nd[xs[k]]]) \in Nat
    /\ Total([k \in DOMAIN xs |-> by[xs[k]]]) \in Nat

LEMMA ReadList ==
    ASSUME NEW X, NEW mv, NEW nd, NEW by, NEW R, Readable(X, mv, nd, by, R), NEW c \in Place,
           NEW xs \in List(X)
    PROVE  \E d, ptrs : ListRead(mv, nd, by, R, c, xs, d, ptrs)
<1>1. PICK n : n = Len(xs)
  OBVIOUS
<1>2. n \in Nat \ {0} /\ DOMAIN xs = 1 .. n /\ \A i \in 1 .. n : xs[i] \in X
  BY <1>1 DEF List
<1>3. mv \in [X -> Seq(AnyMove)] /\ nd \in [X -> Nat \ {0}] /\ by \in [X -> Nat]
  BY DEF Readable
<1>. DEFINE m == [k \in 1 .. n |-> mv[xs[k]]]
            fn == [k \in 1 .. n |-> nd[xs[k]]]
            fb == [k \in 1 .. n |-> by[xs[k]]]
<1>4. m \in [1 .. n -> Seq(AnyMove)] /\ fn \in [1 .. n -> Nat] /\ fb \in [1 .. n -> Nat]
  BY <1>2, <1>3
<1>5. /\ m = [k \in DOMAIN xs |-> mv[xs[k]]] /\ fn = [k \in DOMAIN xs |-> nd[xs[k]]]
      /\ fb = [k \in DOMAIN xs |-> by[xs[k]]]
  BY <1>2
<1>. HIDE DEF m, fn, fb
<1>6. PICK f \in [0 .. n -> Seq(AnyMove)] : Joins(n, m, f) /\ FlattenSeq(m) = f[n]
  BY <1>2, <1>4, FlattenJoins
<1>7. PICK sn \in [0 .. n -> Nat] : IsSum(n, fn, sn) /\ Total(fn) = sn[n]
  BY <1>2, <1>4, TotalIsSum
<1>8. PICK sb \in [0 .. n -> Nat] : IsSum(n, fb, sb) /\ Total(fb) = sb[n]
  BY <1>2, <1>4, TotalIsSum
<1>9. PICK d, ptrs : ReadUpTo(c, f[n], d, n, sn[n], sb[n], ptrs, xs, R)
  <2>1. n \in Nat
    BY <1>2
  <2>2. SumsUp(n, xs, X, mv, nd, by, f, sn, sb)
    BY <1>2, <1>6, <1>7, <1>8 DEF SumsUp, m, fn, fb
  <2>. QED BY <2>1, <2>2, ReadElements
<1>10. PICK tn \in Nat : tn = sn[n]
  BY <1>2
<1>11. PICK tb \in Nat : tb = sb[n]
  BY <1>2
<1>12. PICK fl \in Seq(AnyMove) : fl = f[n]
  BY <1>2
<1>13. PICK s \in Seq(Nat) : s = c.stack
  BY PlaceTyped
<1>14. Leads(c, fl, d, tn, tb) /\ d.stack = s \o ptrs /\ AreElements(d, ptrs, xs, n, R)
  BY <1>9, <1>10, <1>11, <1>12, <1>13 DEF ReadUpTo
<1>15. /\ ptrs \in Seq(Nat) /\ Len(ptrs) = n /\ ptrs # <<>> /\ d \in Place
       /\ \A i \in 1 .. n : ptrs[i] \in 1 .. Len(d.nodes)
  BY <1>2, <1>14 DEF AreElements, Leads
<1>16. PICK e : /\ Leads(d, CellMoves(n - 1), e, n, 0)
                /\ e.stack = Append(s, Len(e.nodes)) /\ Len(e.nodes) \in DOMAIN e.nodes
                /\ ListAt(e.nodes, Len(e.nodes), ptrs)
  BY <1>14, <1>15, LinkElements
<1>17. Leads(c, fl \o CellMoves(n - 1), e, tn + n, tb)
  <2>1. Leads(c, fl \o CellMoves(n - 1), e, tn + n, tb + 0)
    BY <1>2, <1>14, <1>16, LeadsOn
  <2>2. tb + 0 = tb
    OBVIOUS
  <2>. QED BY <2>1, <2>2
<1>18. ListMoves(m) = fl \o CellMoves(n - 1)
  BY <1>2, <1>4, <1>6, <1>12, MovesOfList
<1>19. Adds(c, ListMoves(m), e, Total(fn) + Len(xs), Total(fb))
  BY <1>1, <1>7, <1>8, <1>10, <1>11, <1>13, <1>16, <1>17, <1>18 DEF Adds
<1>20. e \in Place /\ Extends(d, e)
  BY <1>16 DEF Leads
<1>21. PICK w : w = Len(d.nodes)
  OBVIOUS
<1>22. PICK l : l = Len(e.nodes)
  OBVIOUS
<1>23. w \in Nat /\ l = w + n
  BY <1>15, <1>16, <1>21, <1>22, PlaceTyped DEF Leads
<1>24. l \in Nat /\ w < l
  BY <1>2, <1>23
<1>25. ASSUME NEW i \in 1 .. n PROVE <<e, ptrs[i], xs[i]>> \in R /\ ptrs[i] \in 1 .. l /\ ptrs[i] < l
  <2>1. <<d, ptrs[i], xs[i]>> \in R /\ ptrs[i] \in 1 .. w
    BY <1>14, <1>21 DEF AreElements
  <2>2. ptrs[i] \in Nat /\ xs[i] \in X
    BY <1>2, <1>23, <2>1, SMTT(30)
  <2>3. <<e, ptrs[i], xs[i]>> \in R
    BY <1>15, <1>20, <2>1, <2>2 DEF Readable
  <2>4. ptrs[i] \in 1 .. l /\ ptrs[i] < l
    BY <1>23, <1>24, <2>1
  <2>. QED BY <2>3, <2>4
<1>26. \A i, j \in 1 .. n : i < j => ptrs[i] < ptrs[j]
  BY <1>14 DEF AreElements
<1>27. AreElements(e, ptrs, xs, n, R)
  BY <1>15, <1>22, <1>25, <1>26 DEF AreElements
<1>28. IsList(e, Len(e.nodes), ptrs, xs, R)
  BY <1>1, <1>16, <1>22, <1>25, <1>27 DEF IsList
<1>29. Total(fn) \in Nat /\ Total(fb) \in Nat
  BY <1>7, <1>8, <1>10, <1>11
<1>. QED BY <1>5, <1>19, <1>28, <1>29 DEF ListRead

Qualattrs == {t \in Place \X Nat \X Qualattr : IsQualattr(t[1], t[2], t[3])}
Tables    == {t \in Place \X Nat \X Table : IsTable(t[1], t[2], t[3])}
Attribs   == {t \in Place \X Nat \X Str : IsAttrib(t[1], t[2], t[3])}
Literals  == {t \in Place \X Nat \X Literal : IsLiteral(t[1], t[2], t[3])}
Attrtypes == {t \in Place \X Nat \X Attrtype : IsAttrtype(t[1], t[2], t[3])}

EmptyPlace == [nodes |-> <<>>, chars |-> <<>>, used |-> 0, stack |-> <<>>]

LEMMA EmptyPlaceTyped ==
    EmptyPlace \in Place
BY DEF EmptyPlace, Place, Linked, Cells

LEMMA ElementBytesTyped ==
    /\ \A x \in Qualattr : QualattrBytes(x) \in Nat
    /\ \A x \in Table : TableBytes(x) \in Nat
    /\ \A x \in Str : Bytes(x) \in Nat
    /\ \A x \in Literal : LiteralBytes(x) \in Nat
    /\ \A x \in Attrtype : AttrtypeBytes(x) \in Nat /\ AttrtypeNodes(x) \in Nat \ {0}
<1>1. \A x \in Qualattr : QualattrBytes(x) \in Nat
  BY BytesTyped DEF Qualattr, OptStr, QualattrBytes
<1>2. \A x \in Table : TableBytes(x) \in Nat
  BY BytesTyped DEF Table, OptStr, TableBytes
<1>3. \A x \in Str : Bytes(x) \in Nat
  BY BytesTyped
<1>4. \A x \in Literal : LiteralBytes(x) \in Nat
  BY BytesTyped DEF Literal, Number, LiteralBytes
<1>5. \A x \in Attrtype : AttrtypeBytes(x) \in Nat /\ AttrtypeNodes(x) \in Nat \ {0}
  BY BytesTyped DEF Attrtype, AttrtypeBytes, AttrtypeNodes
<1>. QED BY <1>1, <1>2, <1>3, <1>4, <1>5

\* What the lemmas above say of one element.
LEMMA ElementsReadable ==
    /\ Readable(Qualattr, [x \in Qualattr |-> QualattrMoves(x)], [x \in Qualattr |-> 1],
                [x \in Qualattr |-> QualattrBytes(x)], Qualattrs)
    /\ Readable(Table, [x \in Table |-> TableMoves(x)], [x \in Table |-> 1],
                [x \in Table |-> TableBytes(x)], Tables)
    /\ Readable(Str, [x \in Str |-> AttribMoves(x)], [x \in Str |-> 1],
                [x \in Str |-> Bytes(x)], Attribs)
    /\ Readable(Literal, [x \in Literal |-> ValueMoves(x)], [x \in Literal |-> 1],
                [x \in Literal |-> LiteralBytes(x)], Literals)
    /\ Readable(Attrtype, [x \in Attrtype |-> AttrtypeMoves(x)], [x \in Attrtype |-> AttrtypeNodes(x)],
                [x \in Attrtype |-> AttrtypeBytes(x)], Attrtypes)
<1>1. Readable(Qualattr, [x \in Qualattr |-> QualattrMoves(x)], [x \in Qualattr |-> 1],
             [x \in Qualattr |-> QualattrBytes(x)], Qualattrs)
  <2>. DEFINE mv == [x \in Qualattr |-> QualattrMoves(x)]
              nd == [x \in Qualattr |-> 1]
              by == [x \in Qualattr |-> QualattrBytes(x)]
  <2>1. \A d, v, x : <<d, v, x>> \in Qualattrs <=>
                       d \in Place /\ v \in Nat /\ x \in Qualattr /\ IsQualattr(d, v, x)
    BY DEF Qualattrs
  <2>2. ASSUME NEW c \in Place, NEW x \in Qualattr
        PROVE  /\ \E d : Adds(c, mv[x], d, nd[x], by[x]) /\ <<d, Len(d.nodes), x>> \in Qualattrs
               /\ mv[x] \in Seq(AnyMove)
    <3>1. PICK d : Adds(c, QualattrMoves(x), d, 1, QualattrBytes(x)) /\ IsQualattr(d, Len(d.nodes), x)
      BY ReadQualattr
    <3>2. Adds(c, mv[x], d, nd[x], by[x])
      BY <3>1
    <3>. HIDE DEF mv, nd, by
    <3>3. d \in Place /\ mv[x] \in Seq(AnyMove)
      BY <3>2 DEF Adds, Leads
    <3>4. Len(d.nodes) \in Nat
      BY <3>3, PlaceTyped
    <3>. QED BY <2>1, <3>1, <3>2, <3>3, <3>4
  <2>3. nd \in [Qualattr -> Nat \ {0}] /\ by \in [Qualattr -> Nat]
    BY ElementBytesTyped
  <2>4. mv \in [Qualattr -> Seq(AnyMove)]
    BY <2>2, EmptyPlaceTyped
  <2>5. \A c, d \in Place : \A v \in Nat, x \in Qualattr :
           Extends(c, d) /\ <<c, v, x>> \in Qualattrs => <<d, v, x>> \in Qualattrs
    BY <2>1, ElementsKept
  <2>. HIDE DEF mv, nd, by
  <2>6. Readable(Qualattr, mv, nd, by, Qualattrs)
    BY <2>2, <2>3, <2>4, <2>5 DEF Readable
  <2>. QED BY <2>6 DEF mv, nd, by
<1>2. Readable(Table, [x \in Table |-> TableMoves(x)], [x \in Table |-> 1],
             [x \in Table |-> TableBytes(x)], Tables)
  <2>. DEFINE mv == [x \in Table |-> TableMoves(x)]
              nd == [x \in Table |-> 1]
              by == [x \in Table |-> TableBytes(x)]
  <2>1. \A d, v, x : <<d, v, x>> \in Tables <=>
                       d \in Place /\ v \in Nat /\ x \in Table /\ IsTable(d, v, x)
    BY DEF Tables
  <2>2. ASSUME NEW c \in Place, NEW x \in Table
        PROVE  /\ \E d : Adds(c, mv[x], d, nd[x], by[x]) /\ <<d, Len(d.nodes), x>> \in Tables
               /\ mv[x] \in Seq(AnyMove)
    <3>1. PICK d : Adds(c, TableMoves(x), d, 1, TableBytes(x)) /\ IsTable(d, Len(d.nodes), x)
      BY ReadTable
    <3>2. Adds(c, mv[x], d, nd[x], by[x])
      BY <3>1
    <3>. HIDE DEF mv, nd, by
    <3>3. d \in Place /\ mv[x] \in Seq(AnyMove)
      BY <3>2 DEF Adds, Leads
    <3>4. Len(d.nodes) \in Nat
      BY <3>3, PlaceTyped
    <3>. QED BY <2>1, <3>1, <3>2, <3>3, <3>4
  <2>3. nd \in [Table -> Nat \ {0}] /\ by \in [Table -> Nat]
    BY ElementBytesTyped
  <2>4. mv \in [Table -> Seq(AnyMove)]
    BY <2>2, EmptyPlaceTyped
  <2>5. \A c, d \in Place : \A v \in Nat, x \in Table :
           Extends(c, d) /\ <<c, v, x>> \in Tables => <<d, v, x>> \in Tables
    BY <2>1, ElementsKept
  <2>. HIDE DEF mv, nd, by
  <2>6. Readable(Table, mv, nd, by, Tables)
    BY <2>2, <2>3, <2>4, <2>5 DEF Readable
  <2>. QED BY <2>6 DEF mv, nd, by
<1>3. Readable(Str, [x \in Str |-> AttribMoves(x)], [x \in Str |-> 1],
             [x \in Str |-> Bytes(x)], Attribs)
  <2>. DEFINE mv == [x \in Str |-> AttribMoves(x)]
              nd == [x \in Str |-> 1]
              by == [x \in Str |-> Bytes(x)]
  <2>1. \A d, v, x : <<d, v, x>> \in Attribs <=>
                       d \in Place /\ v \in Nat /\ x \in Str /\ IsAttrib(d, v, x)
    BY DEF Attribs
  <2>2. ASSUME NEW c \in Place, NEW x \in Str
        PROVE  /\ \E d : Adds(c, mv[x], d, nd[x], by[x]) /\ <<d, Len(d.nodes), x>> \in Attribs
               /\ mv[x] \in Seq(AnyMove)
    <3>1. PICK d : Adds(c, AttribMoves(x), d, 1, Bytes(x)) /\ IsAttrib(d, Len(d.nodes), x)
      BY ReadAttrib
    <3>2. Adds(c, mv[x], d, nd[x], by[x])
      BY <3>1
    <3>. HIDE DEF mv, nd, by
    <3>3. d \in Place /\ mv[x] \in Seq(AnyMove)
      BY <3>2 DEF Adds, Leads
    <3>4. Len(d.nodes) \in Nat
      BY <3>3, PlaceTyped
    <3>. QED BY <2>1, <3>1, <3>2, <3>3, <3>4
  <2>3. nd \in [Str -> Nat \ {0}] /\ by \in [Str -> Nat]
    BY ElementBytesTyped
  <2>4. mv \in [Str -> Seq(AnyMove)]
    BY <2>2, EmptyPlaceTyped
  <2>5. \A c, d \in Place : \A v \in Nat, x \in Str :
           Extends(c, d) /\ <<c, v, x>> \in Attribs => <<d, v, x>> \in Attribs
    BY <2>1, ElementsKept
  <2>. HIDE DEF mv, nd, by
  <2>6. Readable(Str, mv, nd, by, Attribs)
    BY <2>2, <2>3, <2>4, <2>5 DEF Readable
  <2>. QED BY <2>6 DEF mv, nd, by
<1>4. Readable(Literal, [x \in Literal |-> ValueMoves(x)], [x \in Literal |-> 1],
             [x \in Literal |-> LiteralBytes(x)], Literals)
  <2>. DEFINE mv == [x \in Literal |-> ValueMoves(x)]
              nd == [x \in Literal |-> 1]
              by == [x \in Literal |-> LiteralBytes(x)]
  <2>1. \A d, v, x : <<d, v, x>> \in Literals <=>
                       d \in Place /\ v \in Nat /\ x \in Literal /\ IsLiteral(d, v, x)
    BY DEF Literals
  <2>2. ASSUME NEW c \in Place, NEW x \in Literal
        PROVE  /\ \E d : Adds(c, mv[x], d, nd[x], by[x]) /\ <<d, Len(d.nodes), x>> \in Literals
               /\ mv[x] \in Seq(AnyMove)
    <3>1. PICK d : Adds(c, ValueMoves(x), d, 1, LiteralBytes(x)) /\ IsLiteral(d, Len(d.nodes), x)
      BY ReadLiteral
    <3>2. Adds(c, mv[x], d, nd[x], by[x])
      BY <3>1
    <3>. HIDE DEF mv, nd, by
    <3>3. d \in Place /\ mv[x] \in Seq(AnyMove)
      BY <3>2 DEF Adds, Leads
    <3>4. Len(d.nodes) \in Nat
      BY <3>3, PlaceTyped
    <3>. QED BY <2>1, <3>1, <3>2, <3>3, <3>4
  <2>3. nd \in [Literal -> Nat \ {0}] /\ by \in [Literal -> Nat]
    BY ElementBytesTyped
  <2>4. mv \in [Literal -> Seq(AnyMove)]
    BY <2>2, EmptyPlaceTyped
  <2>5. \A c, d \in Place : \A v \in Nat, x \in Literal :
           Extends(c, d) /\ <<c, v, x>> \in Literals => <<d, v, x>> \in Literals
    BY <2>1, ElementsKept
  <2>. HIDE DEF mv, nd, by
  <2>6. Readable(Literal, mv, nd, by, Literals)
    BY <2>2, <2>3, <2>4, <2>5 DEF Readable
  <2>. QED BY <2>6 DEF mv, nd, by
<1>5. Readable(Attrtype, [x \in Attrtype |-> AttrtypeMoves(x)], [x \in Attrtype |-> AttrtypeNodes(x)],
             [x \in Attrtype |-> AttrtypeBytes(x)], Attrtypes)
  <2>. DEFINE mv == [x \in Attrtype |-> AttrtypeMoves(x)]
              nd == [x \in Attrtype |-> AttrtypeNodes(x)]
              by == [x \in Attrtype |-> AttrtypeBytes(x)]
  <2>1. \A d, v, x : <<d, v, x>> \in Attrtypes <=>
                       d \in Place /\ v \in Nat /\ x \in Attrtype /\ IsAttrtype(d, v, x)
    BY DEF Attrtypes
  <2>2. ASSUME NEW c \in Place, NEW x \in Attrtype
        PROVE  /\ \E d : Adds(c, mv[x], d, nd[x], by[x]) /\ <<d, Len(d.nodes), x>> \in Attrtypes
               /\ mv[x] \in Seq(AnyMove)
    <3>1. PICK d : Adds(c, AttrtypeMoves(x), d, AttrtypeNodes(x), AttrtypeBytes(x)) /\ IsAttrtype(d, Len(d.nodes), x)
      BY ReadAttrtype
    <3>2. Adds(c, mv[x], d, nd[x], by[x])
      BY <3>1
    <3>. HIDE DEF mv, nd, by
    <3>3. d \in Place /\ mv[x] \in Seq(AnyMove)
      BY <3>2 DEF Adds, Leads
    <3>4. Len(d.nodes) \in Nat
      BY <3>3, PlaceTyped
    <3>. QED BY <2>1, <3>1, <3>2, <3>3, <3>4
  <2>3. nd \in [Attrtype -> Nat \ {0}] /\ by \in [Attrtype -> Nat]
    BY ElementBytesTyped
  <2>4. mv \in [Attrtype -> Seq(AnyMove)]
    BY <2>2, EmptyPlaceTyped
  <2>5. \A c, d \in Place : \A v \in Nat, x \in Attrtype :
           Extends(c, d) /\ <<c, v, x>> \in Attrtypes => <<d, v, x>> \in Attrtypes
    BY <2>1, ElementsKept
  <2>. HIDE DEF mv, nd, by
  <2>6. Readable(Attrtype, mv, nd, by, Attrtypes)
    BY <2>2, <2>3, <2>4, <2>5 DEF Readable
  <2>. QED BY <2>6 DEF mv, nd, by
<1>. QED BY <1>1, <1>2, <1>3, <1>4, <1>5

LEMMA ReadQualattrs ==
    ASSUME NEW c \in Place, NEW xs \in List(Qualattr)
    PROVE  \E d, ptrs : /\ Adds(c, Of(QualattrMoves, xs), d,
                                2 * Len(xs), TotalOf(QualattrBytes, xs))
                        /\ IsList(d, Len(d.nodes), ptrs, xs, Qualattrs)
                        /\ TotalOf(QualattrBytes, xs) \in Nat
<1>. DEFINE mv == [x \in Qualattr |-> QualattrMoves(x)]
            nd == [x \in Qualattr |-> 1]
            by == [x \in Qualattr |-> QualattrBytes(x)]
<1>1. PICK n : n = Len(xs)
  OBVIOUS
<1>2. n \in Nat /\ DOMAIN xs = 1 .. n /\ \A i \in 1 .. n : xs[i] \in Qualattr
  BY <1>1 DEF List
<1>3. /\ [k \in DOMAIN xs |-> mv[xs[k]]] = [k \in DOMAIN xs |-> QualattrMoves(xs[k])]
      /\ [k \in DOMAIN xs |-> nd[xs[k]]] = [k \in 1 .. n |-> 1]
      /\ [k \in DOMAIN xs |-> by[xs[k]]] = [k \in DOMAIN xs |-> QualattrBytes(xs[k])]
  BY <1>2
<1>4. Readable(Qualattr, mv, nd, by, Qualattrs)
  BY ElementsReadable
<1>. HIDE DEF mv, nd, by
<1>5. PICK d, ptrs : ListRead(mv, nd, by, Qualattrs, c, xs, d, ptrs)
  BY <1>4, ReadList
<1>6. ListMoves([k \in DOMAIN xs |-> mv[xs[k]]]) = Of(QualattrMoves, xs)
  BY <1>3 DEF Of
<1>7. Total([k \in DOMAIN xs |-> by[xs[k]]]) = TotalOf(QualattrBytes, xs)
  BY <1>3 DEF TotalOf
<1>8. Total([k \in DOMAIN xs |-> nd[xs[k]]]) + Len(xs) = 2 * Len(xs)
  <2>1. Total([k \in DOMAIN xs |-> nd[xs[k]]]) = n
    BY <1>2, <1>3, TotalOfOnes
  <2>2. n + n = 2 * n
    BY <1>2
  <2>. QED BY <1>1, <2>1, <2>2
<1>. QED BY <1>5, <1>6, <1>7, <1>8 DEF ListRead

LEMMA ReadTables ==
    ASSUME NEW c \in Place, NEW xs \in List(Table)
    PROVE  \E d, ptrs : /\ Adds(c, Of(TableMoves, xs), d,
                                2 * Len(xs), TotalOf(TableBytes, xs))
                        /\ IsList(d, Len(d.nodes), ptrs, xs, Tables)
                        /\ TotalOf(TableBytes, xs) \in Nat
<1>. DEFINE mv == [x \in Table |-> TableMoves(x)]
            nd == [x \in Table |-> 1]
            by == [x \in Table |-> TableBytes(x)]
<1>1. PICK n : n = Len(xs)
  OBVIOUS
<1>2. n \in Nat /\ DOMAIN xs = 1 .. n /\ \A i \in 1 .. n : xs[i] \in Table
  BY <1>1 DEF List
<1>3. /\ [k \in DOMAIN xs |-> mv[xs[k]]] = [k \in DOMAIN xs |-> TableMoves(xs[k])]
      /\ [k \in DOMAIN xs |-> nd[xs[k]]] = [k \in 1 .. n |-> 1]
      /\ [k \in DOMAIN xs |-> by[xs[k]]] = [k \in DOMAIN xs |-> TableBytes(xs[k])]
  BY <1>2
<1>4. Readable(Table, mv, nd, by, Tables)
  BY ElementsReadable
<1>. HIDE DEF mv, nd, by
<1>5. PICK d, ptrs : ListRead(mv, nd, by, Tables, c, xs, d, ptrs)
  BY <1>4, ReadList
<1>6. ListMoves([k \in DOMAIN xs |-> mv[xs[k]]]) = Of(TableMoves, xs)
  BY <1>3 DEF Of
<1>7. Total([k \in DOMAIN xs |-> by[xs[k]]]) = TotalOf(TableBytes, xs)
  BY <1>3 DEF TotalOf
<1>8. Total([k \in DOMAIN xs |-> nd[xs[k]]]) + Len(xs) = 2 * Len(xs)
  <2>1. Total([k \in DOMAIN xs |-> nd[xs[k]]]) = n
    BY <1>2, <1>3, TotalOfOnes
  <2>2. n + n = 2 * n
    BY <1>2
  <2>. QED BY <1>1, <2>1, <2>2
<1>. QED BY <1>5, <1>6, <1>7, <1>8 DEF ListRead

LEMMA ReadAttribs ==
    ASSUME NEW c \in Place, NEW xs \in List(Str)
    PROVE  \E d, ptrs : /\ Adds(c, Of(AttribMoves, xs), d,
                                2 * Len(xs), TotalOf(Bytes, xs))
                        /\ IsList(d, Len(d.nodes), ptrs, xs, Attribs)
                        /\ TotalOf(Bytes, xs) \in Nat
<1>. DEFINE mv == [x \in Str |-> AttribMoves(x)]
            nd == [x \in Str |-> 1]
            by == [x \in Str |-> Bytes(x)]
<1>1. PICK n : n = Len(xs)
  OBVIOUS
<1>2. n \in Nat /\ DOMAIN xs = 1 .. n /\ \A i \in 1 .. n : xs[i] \in Str
  BY <1>1 DEF List
<1>3. /\ [k \in DOMAIN xs |-> mv[xs[k]]] = [k \in DOMAIN xs |-> AttribMoves(xs[k])]
      /\ [k \in DOMAIN xs |-> nd[xs[k]]] = [k \in 1 .. n |-> 1]
      /\ [k \in DOMAIN xs |-> by[xs[k]]] = [k \in DOMAIN xs |-> Bytes(xs[k])]
  BY <1>2
<1>4. Readable(Str, mv, nd, by, Attribs)
  BY ElementsReadable
<1>. HIDE DEF mv, nd, by
<1>5. PICK d, ptrs : ListRead(mv, nd, by, Attribs, c, xs, d, ptrs)
  BY <1>4, ReadList
<1>6. ListMoves([k \in DOMAIN xs |-> mv[xs[k]]]) = Of(AttribMoves, xs)
  BY <1>3 DEF Of
<1>7. Total([k \in DOMAIN xs |-> by[xs[k]]]) = TotalOf(Bytes, xs)
  BY <1>3 DEF TotalOf
<1>8. Total([k \in DOMAIN xs |-> nd[xs[k]]]) + Len(xs) = 2 * Len(xs)
  <2>1. Total([k \in DOMAIN xs |-> nd[xs[k]]]) = n
    BY <1>2, <1>3, TotalOfOnes
  <2>2. n + n = 2 * n
    BY <1>2
  <2>. QED BY <1>1, <2>1, <2>2
<1>. QED BY <1>5, <1>6, <1>7, <1>8 DEF ListRead

LEMMA ReadLiterals ==
    ASSUME NEW c \in Place, NEW xs \in List(Literal)
    PROVE  \E d, ptrs : /\ Adds(c, Of(ValueMoves, xs), d,
                                2 * Len(xs), TotalOf(LiteralBytes, xs))
                        /\ IsList(d, Len(d.nodes), ptrs, xs, Literals)
                        /\ TotalOf(LiteralBytes, xs) \in Nat
<1>. DEFINE mv == [x \in Literal |-> ValueMoves(x)]
            nd == [x \in Literal |-> 1]
            by == [x \in Literal |-> LiteralBytes(x)]
<1>1. PICK n : n = Len(xs)
  OBVIOUS
<1>2. n \in Nat /\ DOMAIN xs = 1 .. n /\ \A i \in 1 .. n : xs[i] \in Literal
  BY <1>1 DEF List
<1>3. /\ [k \in DOMAIN xs |-> mv[xs[k]]] = [k \in DOMAIN xs |-> ValueMoves(xs[k])]
      /\ [k \in DOMAIN xs |-> nd[xs[k]]] = [k \in 1 .. n |-> 1]
      /\ [k \in DOMAIN xs |-> by[xs[k]]] = [k \in DOMAIN xs |-> LiteralBytes(xs[k])]
  BY <1>2
<1>4. Readable(Literal, mv, nd, by, Literals)
  BY ElementsReadable
<1>. HIDE DEF mv, nd, by
<1>5. PICK d, ptrs : ListRead(mv, nd, by, Literals, c, xs, d, ptrs)
  BY <1>4, ReadList
<1>6. ListMoves([k \in DOMAIN xs |-> mv[xs[k]]]) = Of(ValueMoves, xs)
  BY <1>3 DEF Of
<1>7. Total([k \in DOMAIN xs |-> by[xs[k]]]) = TotalOf(LiteralBytes, xs)
  BY <1>3 DEF TotalOf
<1>8. Total([k \in DOMAIN xs |-> nd[xs[k]]]) + Len(xs) = 2 * Len(xs)
  <2>1. Total([k \in DOMAIN xs |-> nd[xs[k]]]) = n
    BY <1>2, <1>3, TotalOfOnes
  <2>2. n + n = 2 * n
    BY <1>2
  <2>. QED BY <1>1, <2>1, <2>2
<1>. QED BY <1>5, <1>6, <1>7, <1>8 DEF ListRead

LEMMA ReadAttrtypes ==
    ASSUME NEW c \in Place, NEW xs \in List(Attrtype)
    PROVE  \E d, ptrs : /\ Adds(c, Of(AttrtypeMoves, xs), d,
                                Total([k \in DOMAIN xs |-> AttrtypeNodes(xs[k])]) + Len(xs), TotalOf(AttrtypeBytes, xs))
                        /\ IsList(d, Len(d.nodes), ptrs, xs, Attrtypes)
                        /\ TotalOf(AttrtypeBytes, xs) \in Nat
                        /\ Total([k \in DOMAIN xs |-> AttrtypeNodes(xs[k])]) \in Nat
<1>. DEFINE mv == [x \in Attrtype |-> AttrtypeMoves(x)]
            nd == [x \in Attrtype |-> AttrtypeNodes(x)]
            by == [x \in Attrtype |-> AttrtypeBytes(x)]
<1>1. PICK n : n = Len(xs)
  OBVIOUS
<1>2. n \in Nat /\ DOMAIN xs = 1 .. n /\ \A i \in 1 .. n : xs[i] \in Attrtype
  BY <1>1 DEF List
<1>3. /\ [k \in DOMAIN xs |-> mv[xs[k]]] = [k \in DOMAIN xs |-> AttrtypeMoves(xs[k])]
      /\ [k \in DOMAIN xs |-> nd[xs[k]]] = [k \in DOMAIN xs |-> AttrtypeNodes(xs[k])]
      /\ [k \in DOMAIN xs |-> by[xs[k]]] = [k \in DOMAIN xs |-> AttrtypeBytes(xs[k])]
  BY <1>2
<1>4. Readable(Attrtype, mv, nd, by, Attrtypes)
  BY ElementsReadable
<1>. HIDE DEF mv, nd, by
<1>5. PICK d, ptrs : ListRead(mv, nd, by, Attrtypes, c, xs, d, ptrs)
  BY <1>4, ReadList
<1>6. ListMoves([k \in DOMAIN xs |-> mv[xs[k]]]) = Of(AttrtypeMoves, xs)
  BY <1>3 DEF Of
<1>7. Total([k \in DOMAIN xs |-> by[xs[k]]]) = TotalOf(AttrtypeBytes, xs)
  BY <1>3 DEF TotalOf
<1>. QED BY <1>3, <1>5, <1>6, <1>7 DEF ListRead

-----------------------------------------------------------------------------
(* Conditions.                                                             *)

\* v leads to the condition w, the attributes of which follow node m.
IsWhere(d, m, v, w) ==
    CASE w.kind = "NONE"  -> v = Null
      [] w.kind = "VALUE" ->
           /\ v \in DOMAIN d.nodes /\ d.nodes[v].kind = "N_SELECT" /\ d.nodes[v].op = w.op
           /\ m < d.nodes[v].selattr /\ IsQualattr(d, d.nodes[v].selattr, w.attr)
           /\ IsLiteral(d, d.nodes[v].value, w.value)
      [] w.kind = "ATTR"  ->
           /\ v \in DOMAIN d.nodes /\ d.nodes[v].kind = "N_JOIN" /\ d.nodes[v].op = w.op
           /\ m < d.nodes[v].joinattr1 /\ d.nodes[v].joinattr1 < d.nodes[v].joinattr2
           /\ IsQualattr(d, d.nodes[v].joinattr1, w.attr)
           /\ IsQualattr(d, d.nodes[v].joinattr2, w.attr2)

LEMMA WhereCases ==
    ASSUME NEW w \in Where
    PROVE  \/ w.kind = "NONE"
           \/ w.kind = "VALUE" /\ w.attr \in Qualattr /\ w.value \in Literal /\ w.op \in STRING
           \/ w.kind = "ATTR" /\ w.attr \in Qualattr /\ w.attr2 \in Qualattr /\ w.op \in STRING
BY DEF Where

LEMMA WhereKept ==
    ASSUME NEW c \in Place, NEW d \in Place, Extends(c, d), NEW m, NEW v, NEW w \in Where,
           IsWhere(c, m, v, w)
    PROVE  IsWhere(d, m, v, w)
<1>1. \A x \in DOMAIN c.nodes : x \in DOMAIN d.nodes /\ d.nodes[x] = c.nodes[x]
  BY PlaceTyped DEF Extends
<1>2. CASE w.kind = "NONE"
  BY <1>2 DEF IsWhere
<1>3. CASE w.kind = "VALUE"
  BY <1>1, <1>3, ElementsKept DEF IsWhere
<1>4. CASE w.kind = "ATTR"
  BY <1>1, <1>4, ElementsKept DEF IsWhere
<1>. QED BY <1>2, <1>3, <1>4, WhereCases

\* A node that is made of the two nodes on top of the stack.
OnTwo(c, p, d, q, e, m, b, g) ==
    /\ Adds(c, (p \o q) \o <<m>>, g, 3, b)
    /\ Extends(d, g) /\ Extends(e, g) /\ d \in Place /\ e \in Place /\ g \in Place
    /\ Len(c.nodes) < Len(d.nodes) /\ Len(d.nodes) < Len(e.nodes)
    /\ g.nodes[Len(g.nodes)] =
         IF m.op = "select" THEN select_node(Len(d.nodes), m.cmp, Len(e.nodes))
         ELSE join_node(Len(d.nodes), m.cmp, Len(e.nodes))

LEMMA BuildOnTwo ==
    ASSUME NEW c \in Place, NEW d, NEW e, NEW p, NEW q, NEW b1 \in Nat, NEW b2 \in Nat,
           Adds(c, p, d, 1, b1), Adds(d, q, e, 1, b2),
           NEW m \in AnyMove, m.op \in {"select", "join"}
    PROVE  \E g : OnTwo(c, p, d, q, e, m, b1 + b2, g)
<1>1. PICK x : x = Len(c.nodes)
  OBVIOUS
<1>2. PICK y : y = Len(d.nodes)
  OBVIOUS
<1>3. PICK z : z = Len(e.nodes)
  OBVIOUS
<1>4. Leads(c, p, d, 1, b1) /\ Leads(d, q, e, 1, b2) /\ d \in Place /\ e \in Place
  BY DEF Adds, Leads
<1>5. x \in Nat /\ y = x + 1 /\ z = y + 1
  BY <1>1, <1>2, <1>3, <1>4, PlaceTyped DEF Leads
<1>6. y \in Nat /\ z \in Nat /\ x < y /\ y < z
  BY <1>5
<1>7. PICK s \in Seq(Nat) : s = c.stack
  BY PlaceTyped
<1>8. d.stack = Append(s, y) /\ e.stack = Append(d.stack, z)
  BY <1>2, <1>3, <1>7 DEF Adds
<1>9. PICK t : t = <<y, z>>
  OBVIOUS
<1>10. e.stack = s \o t /\ t \in Seq(Nat) /\ Len(t) = 2 /\ t[1] = y /\ t[2] = z
  <2>1. /\ e.stack = s \o <<y, z>> /\ <<y, z>> \in Seq(Nat) /\ Len(<<y, z>>) = 2
        /\ <<y, z>>[1] = y /\ <<y, z>>[2] = z
    BY <1>6, <1>8, TwoOnTop, SMTT(30)
  <2>. QED BY <1>9, <2>1
<1>11. Reduces(m) /\ m.arity = 2 /\ m.cmp \in STRING
  BY DEF AnyMove, Reduces
<1>12. PICK node : node = IF m.op = "select" THEN select_node(y, m.cmp, z)
                          ELSE join_node(y, m.cmp, z)
  OBVIOUS
<1>13. node \in Node /\ node.kind # "N_LIST"
  <2>1. select_node(y, m.cmp, z) \in Node /\ join_node(y, m.cmp, z) \in Node
    <3>1. \A cmp \in STRING : select_node(y, cmp, z) \in Node /\ join_node(y, cmp, z) \in Node
      BY <1>6, NodesTyped
    <3>. QED BY <1>11, <3>1
  <2>2. select_node(y, m.cmp, z).kind = "N_SELECT" /\ join_node(y, m.cmp, z).kind = "N_JOIN"
    BY DEF select_node, join_node
  <2>. QED BY <1>12, <2>1, <2>2
<1>14. node = NodeOf(e.nodes, m, t)
  <2>1. CASE m.op = "select"
    BY <1>10, <1>12, <2>1, NodeOfTwo
  <2>2. CASE m.op = "join"
    BY <1>10, <1>12, <2>2, NodeOfTwo
  <2>. QED BY <2>1, <2>2
<1>15. Makes(e, m, s, t, node)
  BY <1>4, <1>10, <1>11, <1>13, <1>14 DEF Makes
<1>16. PICK g : Made(e, m, s, node, g)
  BY <1>15, Build
<1>17. /\ Leads(e, <<m>>, g, 1, 0) /\ g.stack = Append(s, Len(g.nodes))
       /\ g.nodes[Len(g.nodes)] = node /\ Len(g.nodes) \in DOMAIN g.nodes
  BY <1>16 DEF Made
<1>18. Leads(c, p \o q, e, 1 + 1, b1 + b2)
  BY <1>4, LeadsOn
<1>19. Leads(c, (p \o q) \o <<m>>, g, 3, b1 + b2)
  <2>1. PICK b \in Nat : b = b1 + b2
    OBVIOUS
  <2>2. Leads(c, p \o q, e, 2, b)
    <3>1. 1 + 1 = 2
      OBVIOUS
    <3>. QED BY <1>18, <2>1, <3>1
  <2>3. Leads(c, (p \o q) \o <<m>>, g, 2 + 1, b + 0)
    BY <1>17, <2>2, LeadsOn
  <2>4. 2 + 1 = 3 /\ b + 0 = b
    OBVIOUS
  <2>. QED BY <2>1, <2>3, <2>4
<1>20. Extends(e, g) /\ g \in Place /\ Extends(d, e)
  BY <1>4, <1>17 DEF Leads
<1>21. Extends(d, g)
  BY <1>4, <1>20, ExtendsOn
<1>22. Adds(c, (p \o q) \o <<m>>, g, 3, b1 + b2)
  BY <1>7, <1>17, <1>19 DEF Adds
<1>. QED BY <1>1, <1>2, <1>3, <1>4, <1>6, <1>12, <1>17, <1>20, <1>21, <1>22 DEF OnTwo

\* A condition that has been read on the way from c to d.
WhereRead(c, w, d, v) ==
    /\ Leads(c, WhereMoves(w), d, WhereNodes(w), WhereBytes(w)) /\ v \in Nat
    /\ d.stack = Append(c.stack, v) /\ IsWhere(d, Len(c.nodes), v, w)
    /\ WhereNodes(w) \in Nat /\ WhereBytes(w) \in Nat

LEMMA ReadWhere ==
    ASSUME NEW c \in Place, NEW w \in Where
    PROVE  \E d, v : WhereRead(c, w, d, v)
<1>1. CASE w.kind = "NONE"
  <2>1. PICK d : /\ Leads(c, <<Move("nothing")>>, d, 0, 0) /\ d.nodes = c.nodes
                 /\ d.stack = Append(c.stack, Null)
    BY LeaveOut
  <2>2. WhereMoves(w) = <<Move("nothing")>> /\ WhereNodes(w) = 0 /\ WhereBytes(w) = 0
    BY <1>1 DEF WhereMoves, WhereNodes, WhereBytes
  <2>3. IsWhere(d, Len(c.nodes), Null, w) /\ Null \in Nat
    BY <1>1 DEF IsWhere, Null
  <2>. QED BY <2>1, <2>2, <2>3 DEF WhereRead
<1>2. CASE w.kind = "VALUE"
  <2>1. w.attr \in Qualattr /\ w.value \in Literal /\ w.op \in STRING
    BY <1>2, WhereCases
  <2>2. PICK d : Adds(c, QualattrMoves(w.attr), d, 1, QualattrBytes(w.attr))
                 /\ IsQualattr(d, Len(d.nodes), w.attr)
    BY <2>1, ReadQualattr
  <2>3. d \in Place
    BY <2>2 DEF Adds, Leads
  <2>4. PICK e : Adds(d, ValueMoves(w.value), e, 1, LiteralBytes(w.value))
                 /\ IsLiteral(e, Len(e.nodes), w.value)
    BY <2>1, <2>3, ReadLiteral
  <2>5. QualattrBytes(w.attr) \in Nat /\ LiteralBytes(w.value) \in Nat
    BY <2>1, ElementBytesTyped
  <2>6. PICK m : m = [op |-> "select", cmp |-> w.op, arity |-> 2]
    OBVIOUS
  <2>7. m \in AnyMove /\ m.op = "select" /\ m.cmp = w.op
    BY <2>1, <2>6 DEF AnyMove
  <2>8. PICK g : /\ Adds(c, (QualattrMoves(w.attr) \o ValueMoves(w.value)) \o <<m>>, g, 3,
                         QualattrBytes(w.attr) + LiteralBytes(w.value))
                 /\ Extends(d, g) /\ Extends(e, g) /\ d \in Place /\ e \in Place /\ g \in Place
                 /\ Len(c.nodes) < Len(d.nodes) /\ Len(d.nodes) < Len(e.nodes)
                 /\ g.nodes[Len(g.nodes)] = select_node(Len(d.nodes), w.op, Len(e.nodes))
    <3>1. PICK g : OnTwo(c, QualattrMoves(w.attr), d, ValueMoves(w.value), e, m,
                         QualattrBytes(w.attr) + LiteralBytes(w.value), g)
      BY <2>2, <2>4, <2>5, <2>7, BuildOnTwo
    <3>. QED BY <2>7, <3>1 DEF OnTwo
  <2>9. IsQualattr(g, Len(d.nodes), w.attr) /\ IsLiteral(g, Len(e.nodes), w.value)
    BY <2>2, <2>4, <2>8, ElementsKept
  <2>10. PICK l : l = Len(g.nodes)
    OBVIOUS
  <2>11. l \in DOMAIN g.nodes /\ g.stack = Append(c.stack, l) /\ l \in Nat
    BY <2>8, <2>10, PlaceTyped DEF Adds
  <2>12. IsWhere(g, Len(c.nodes), l, w)
    <3>1. /\ g.nodes[l].kind = "N_SELECT" /\ g.nodes[l].op = w.op
          /\ g.nodes[l].selattr = Len(d.nodes) /\ g.nodes[l].value = Len(e.nodes)
      BY <2>8, <2>10 DEF select_node
    <3>. QED BY <1>2, <2>8, <2>9, <2>11, <3>1 DEF IsWhere
  <2>13. /\ WhereMoves(w) = (QualattrMoves(w.attr) \o ValueMoves(w.value)) \o <<m>>
         /\ WhereNodes(w) = 3 /\ WhereBytes(w) = QualattrBytes(w.attr) + LiteralBytes(w.value)
    BY <1>2, <2>6 DEF WhereMoves, WhereNodes, WhereBytes
  <2>14. WhereBytes(w) \in Nat
    BY <2>5, <2>13
  <2>. QED BY <2>8, <2>11, <2>12, <2>13, <2>14 DEF WhereRead, Adds
<1>3. CASE w.kind = "ATTR"
  <2>1. w.attr \in Qualattr /\ w.attr2 \in Qualattr /\ w.op \in STRING
    BY <1>3, WhereCases
  <2>2. PICK d : Adds(c, QualattrMoves(w.attr), d, 1, QualattrBytes(w.attr))
                 /\ IsQualattr(d, Len(d.nodes), w.attr)
    BY <2>1, ReadQualattr
  <2>3. d \in Place
    BY <2>2 DEF Adds, Leads
  <2>4. PICK e : Adds(d, QualattrMoves(w.attr2), e, 1, QualattrBytes(w.attr2))
                 /\ IsQualattr(e, Len(e.nodes), w.attr2)
    BY <2>1, <2>3, ReadQualattr
  <2>5. QualattrBytes(w.attr) \in Nat /\ QualattrBytes(w.attr2) \in Nat
    BY <2>1, ElementBytesTyped
  <2>6. PICK m : m = [op |-> "join", cmp |-> w.op, arity |-> 2]
    OBVIOUS
  <2>7. m \in AnyMove /\ m.op = "join" /\ m.cmp = w.op
    BY <2>1, <2>6 DEF AnyMove
  <2>8. PICK g : /\ Adds(c, (QualattrMoves(w.attr) \o QualattrMoves(w.attr2)) \o <<m>>, g, 3,
                         QualattrBytes(w.attr) + QualattrBytes(w.attr2))
                 /\ Extends(d, g) /\ Extends(e, g) /\ d \in Place /\ e \in Place /\ g \in Place
                 /\ Len(c.nodes) < Len(d.nodes) /\ Len(d.nodes) < Len(e.nodes)
                 /\ g.nodes[Len(g.nodes)] = join_node(Len(d.nodes), w.op, Len(e.nodes))
    <3>1. PICK g : OnTwo(c, QualattrMoves(w.attr), d, QualattrMoves(w.attr2), e, m,
                         QualattrBytes(w.attr) + QualattrBytes(w.attr2), g)
      BY <2>2, <2>4, <2>5, <2>7, BuildOnTwo
    <3>. QED BY <2>7, <3>1 DEF OnTwo
  <2>9. IsQualattr(g, Len(d.nodes), w.attr) /\ IsQualattr(g, Len(e.nodes), w.attr2)
    BY <2>2, <2>4, <2>8, ElementsKept
  <2>10. PICK l : l = Len(g.nodes)
    OBVIOUS
  <2>11. l \in DOMAIN g.nodes /\ g.stack = Append(c.stack, l) /\ l \in Nat
    BY <2>8, <2>10, PlaceTyped DEF Adds
  <2>12. IsWhere(g, Len(c.nodes), l, w)
    <3>1. /\ g.nodes[l].kind = "N_JOIN" /\ g.nodes[l].op = w.op
          /\ g.nodes[l].joinattr1 = Len(d.nodes) /\ g.nodes[l].joinattr2 = Len(e.nodes)
      BY <2>8, <2>10 DEF join_node
    <3>. QED BY <1>3, <2>8, <2>9, <2>11, <3>1 DEF IsWhere
  <2>13. /\ WhereMoves(w) = (QualattrMoves(w.attr) \o QualattrMoves(w.attr2)) \o <<m>>
         /\ WhereNodes(w) = 3 /\ WhereBytes(w) = QualattrBytes(w.attr) + QualattrBytes(w.attr2)
    BY <1>3, <2>6 DEF WhereMoves, WhereNodes, WhereBytes
  <2>14. WhereBytes(w) \in Nat
    BY <2>5, <2>13
  <2>. QED BY <2>8, <2>11, <2>12, <2>13, <2>14 DEF WhereRead, Adds
<1>. QED BY <1>1, <1>2, <1>3, WhereCases

-----------------------------------------------------------------------------
(* Statements.                                                             *)

Kept(R) ==
    \A c, d \in Place : \A v, x : Extends(c, d) /\ <<c, v, x>> \in R => <<d, v, x>> \in R

LEMMA RelationsKept ==
    Kept(Qualattrs) /\ Kept(Tables) /\ Kept(Attribs) /\ Kept(Literals) /\ Kept(Attrtypes)
<1>1. Kept(Qualattrs)
  BY ElementsKept DEF Kept, Qualattrs
<1>2. Kept(Tables)
  BY ElementsKept DEF Kept, Tables
<1>3. Kept(Attribs)
  BY ElementsKept DEF Kept, Attribs
<1>4. Kept(Literals)
  BY ElementsKept DEF Kept, Literals
<1>5. Kept(Attrtypes)
  BY ElementsKept DEF Kept, Attrtypes
<1>. QED BY <1>1, <1>2, <1>3, <1>4, <1>5

LEMMA ListKept ==
    ASSUME NEW c \in Place, NEW d \in Place, Extends(c, d), NEW R, Kept(R), NEW l, NEW ptrs,
           NEW xs, IsList(c, l, ptrs, xs, R)
    PROVE  IsList(d, l, ptrs, xs, R)
<1>1. \A i \in DOMAIN c.nodes : i \in DOMAIN d.nodes /\ d.nodes[i] = c.nodes[i]
  BY PlaceTyped DEF Extends
<1>2. l \in DOMAIN d.nodes /\ ListAt(d.nodes, l, ptrs)
  BY <1>1 DEF IsList, ListAt
<1>3. 1 .. Len(c.nodes) \subseteq 1 .. Len(d.nodes)
  BY PlaceTyped DEF Extends
<1>4. AreElements(c, ptrs, xs, Len(xs), R)
  BY DEF IsList
<1>5. AreElements(d, ptrs, xs, Len(xs), R)
  <2>1. \A i \in 1 .. Len(xs) : <<d, ptrs[i], xs[i]>> \in R /\ ptrs[i] \in 1 .. Len(d.nodes)
    BY <1>3, <1>4 DEF AreElements, Kept
  <2>. QED BY <1>4, <2>1 DEF AreElements
<1>. QED BY <1>2, <1>5 DEF IsList

\* What the parser does with a statement that it has read.
Rest(st) ==
    CASE st.kind = "SELECT" -> <<Move("query"), Move("command")>>
      [] st.kind = "INSERT" -> <<Move("insert"), Move("command")>>
      [] st.kind = "SHELL"  -> <<Move("shell")>>
      [] st.kind \in {"QUIT", "EOF"} -> <<Move("quit")>>
      [] OTHER -> <<Move("command")>>

IsQueryRead(st, d) ==
    \E a, r, t, w \in Nat : \E ap, tp :
        /\ d.stack = <<a, r, t, w>> /\ a < t
        /\ IsList(d, a, ap, st.attrs, Qualattrs) /\ IsName(d.chars, r, st.into)
        /\ IsList(d, t, tp, st.tables, Tables) /\ IsWhere(d, t, w, st.where)
        /\ Len(d.nodes) + 1 = NodesOf(st)

IsInsertRead(st, d) ==
    \E r, a, v \in Nat : \E ap, vp :
        /\ d.stack = <<r, a, v>>
        /\ IsName(d.chars, r, st.rel) /\ IsList(d, a, ap, st.attrs, Attribs)
        /\ IsList(d, v, vp, st.values, Literals)
        /\ Len(d.nodes) + 1 = NodesOf(st)

LEMMA RestApart ==
    ASSUME NEW p \in Seq(AnyMove), NEW q, NEW m, m = Move(q), q \in {"query", "insert"}
    PROVE  (p \o <<m>>) \o <<Move("command")>> = p \o <<m, Move("command")>>
<1>1. PICK n : n = Move("command")
  OBVIOUS
<1>2. m \in AnyMove /\ n \in AnyMove
  BY <1>1 DEF Move, AnyMove
<1>3. <<m>> \o <<n>> = <<m, n>>
  BY Tuples
<1>4. <<m>> \in Seq(AnyMove) /\ <<n>> \in Seq(AnyMove)
  BY <1>2
<1>5. (p \o <<m>>) \o <<n>> = p \o (<<m>> \o <<n>>)
  BY <1>4, ConcatAssociative
<1>. QED BY <1>1, <1>3, <1>5

\* The moves p lead to the place d at which st has been read.
StatementRead(st, p, d) ==
    /\ Script(st) = p \o Rest(st) /\ p \in Seq(AnyMove)
    /\ Runs(EmptyPlace, p, d) /\ d \in Place /\ d.used = CharsOf(st)

LEMMA StackOf ==
    ASSUME NEW a \in Nat, NEW b \in Nat, NEW c \in Nat, NEW d \in Nat
    PROVE  /\ Append(<<>>, a) = <<a>> /\ Append(<<a>>, b) = <<a, b>>
           /\ Append(<<a, b>>, c) = <<a, b, c>> /\ Append(<<a, b, c>>, d) = <<a, b, c, d>>
<1>1. Append(<<>>, a) = <<a>>
  OBVIOUS
<1>2. <<a>> \in Seq(Nat) /\ <<a, b>> \in Seq(Nat) /\ <<a, b, c>> \in Seq(Nat)
  OBVIOUS
<1>3. \A s \in Seq(Nat), v \in Nat : Append(s, v) = s \o <<v>>
  BY AppendIsConcat
<1>4. <<a>> \o <<b>> = <<a, b>> /\ <<a, b>> \o <<c>> = <<a, b, c>>
  BY Tuples
<1>5. <<a, b, c>> \o <<d>> = <<a, b, c, d>>
  <2>1. <<a, b, c>> \o <<d>> \in Seq(Nat) /\ <<a, b, c, d>> \in Seq(Nat)
    OBVIOUS
  <2>2. /\ Len(<<a, b, c>> \o <<d>>) = 4 /\ Len(<<a, b, c, d>>) = 4
        /\ \A i \in 1 .. 4 : (<<a, b, c>> \o <<d>>)[i] = <<a, b, c, d>>[i]
    OBVIOUS
  <2>. QED BY <2>1, <2>2, SeqEqual
<1>6. Append(<<a>>, b) = <<a, b>> /\ Append(<<a, b>>, c) = <<a, b, c>>
  BY <1>2, <1>3, <1>4
<1>7. Append(<<a, b, c>>, d) = <<a, b, c, d>>
  BY <1>2, <1>3, <1>5
<1>. QED BY <1>1, <1>6, <1>7

LEMMA ReadSelect ==
    ASSUME NEW st \in Statement, st.kind = "SELECT"
    PROVE  \E p, d : StatementRead(st, p, d) /\ IsQueryRead(st, d)
<1>1. /\ st.attrs \in List(Qualattr) /\ st.into \in OptStr /\ st.tables \in List(Table)
      /\ st.where \in Where
  BY DEF Statement
<1>. DEFINE q1 == Of(QualattrMoves, st.attrs)
            q2 == <<OptId(st.into)>>
            q3 == Of(TableMoves, st.tables)
            q4 == WhereMoves(st.where)
            b1 == TotalOf(QualattrBytes, st.attrs)
            b2 == Bytes(st.into)
            b3 == TotalOf(TableBytes, st.tables)
            b4 == WhereBytes(st.where)
            n1 == 2 * Len(st.attrs)
            n3 == 2 * Len(st.tables)
            n4 == WhereNodes(st.where)
<1>2. n1 \in Nat /\ n3 \in Nat
  BY <1>1 DEF List
<1>3. EmptyPlace \in Place /\ EmptyPlace.nodes = <<>> /\ EmptyPlace.stack = <<>>
      /\ EmptyPlace.used = 0
  BY EmptyPlaceTyped DEF EmptyPlace
<1>4. PICK d1, ap : /\ Adds(EmptyPlace, q1, d1, n1, b1)
                    /\ IsList(d1, Len(d1.nodes), ap, st.attrs, Qualattrs) /\ b1 \in Nat
  BY <1>1, <1>3, ReadQualattrs
<1>5. d1 \in Place
  BY <1>4 DEF Adds, Leads
<1>6. PICK d2 : \E v \in Nat : /\ Leads(d1, q2, d2, 0, b2) /\ d2.nodes = d1.nodes
                               /\ d2.stack = Append(d1.stack, v) /\ IsName(d2.chars, v, st.into)
  BY <1>1, <1>5, ReadOptId
<1>7. PICK r \in Nat : /\ Leads(d1, q2, d2, 0, b2) /\ d2.nodes = d1.nodes
                       /\ d2.stack = Append(d1.stack, r) /\ IsName(d2.chars, r, st.into)
  BY <1>6
<1>8. b2 \in Nat
  BY <1>1, BytesTyped
<1>9. d2 \in Place
  BY <1>7 DEF Leads
<1>10. PICK d3, tp : /\ Adds(d2, q3, d3, n3, b3)
                     /\ IsList(d3, Len(d3.nodes), tp, st.tables, Tables) /\ b3 \in Nat
  BY <1>1, <1>9, ReadTables
<1>11. d3 \in Place
  BY <1>10 DEF Adds, Leads
<1>12. PICK d4, w : WhereRead(d3, st.where, d4, w)
  BY <1>1, <1>11, ReadWhere
<1>13. /\ Leads(d3, q4, d4, n4, b4) /\ w \in Nat /\ d4.stack = Append(d3.stack, w)
       /\ IsWhere(d4, Len(d3.nodes), w, st.where) /\ n4 \in Nat /\ b4 \in Nat
  BY <1>12 DEF WhereRead
<1>14. q1 \o q2 \o q3 \o q4 \o <<Move("query")>> = CommandMoves(st)
  BY DEF CommandMoves
<1>15. /\ NodesOf(st) = n1 + n3 + n4 + 1 /\ CharsOf(st) = b1 + b2 + b3 + b4
  BY DEF NodesOf, CharsOf
<1>16. Script(st) = CommandMoves(st) \o <<Move("command")>> /\ Rest(st) = <<Move("query"), Move("command")>>
  BY DEF Script, Rest
<1>. HIDE DEF q1, q2, q3, q4, b1, b2, b3, b4, n1, n3, n4
<1>17. Leads(EmptyPlace, q1 \o q2, d2, n1 + 0, b1 + b2)
  BY <1>2, <1>4, <1>7, <1>8, LeadsOn DEF Adds
<1>18. Leads(EmptyPlace, q1 \o q2 \o q3, d3, n1 + 0 + n3, b1 + b2 + b3)
  <2>1. n1 + 0 \in Nat /\ b1 + b2 \in Nat
    BY <1>2, <1>4, <1>8
  <2>. QED BY <1>2, <1>10, <1>17, <2>1, LeadsOn DEF Adds
<1>19. Leads(EmptyPlace, q1 \o q2 \o q3 \o q4, d4, n1 + 0 + n3 + n4, b1 + b2 + b3 + b4)
  <2>1. n1 + 0 + n3 \in Nat /\ b1 + b2 + b3 \in Nat
    BY <1>2, <1>4, <1>8, <1>10
  <2>. QED BY <1>13, <1>18, <2>1, LeadsOn
<1>20. PICK a : a = Len(d1.nodes)
  OBVIOUS
<1>21. PICK t : t = Len(d3.nodes)
  OBVIOUS
<1>22. a = 0 + n1 /\ t = 0 + (n1 + 0 + n3)
  BY <1>3, <1>4, <1>18, <1>20, <1>21 DEF Adds, Leads
<1>23. n1 # 0 /\ n3 # 0
  <2>1. st.attrs # <<>> /\ st.tables # <<>> /\ st.attrs \in Seq(Qualattr) /\ st.tables \in Seq(Table)
    BY <1>1 DEF List
  <2>2. Len(st.attrs) \in Nat \ {0} /\ Len(st.tables) \in Nat \ {0}
    BY <2>1
  <2>. QED BY <2>2 DEF n1, n3
<1>24. a \in Nat /\ t \in Nat /\ a < t
  BY <1>2, <1>22, <1>23
<1>25. d4.stack = <<a, r, t, w>>
  <2>1. d1.stack = Append(<<>>, a) /\ d3.stack = Append(d2.stack, t)
    BY <1>3, <1>4, <1>10, <1>20, <1>21 DEF Adds
  <2>2. d4.stack = Append(Append(Append(Append(<<>>, a), r), t), w)
    BY <1>7, <1>13, <2>1
  <2>3. /\ Append(<<>>, a) = <<a>> /\ Append(<<a>>, r) = <<a, r>>
        /\ Append(<<a, r>>, t) = <<a, r, t>> /\ Append(<<a, r, t>>, w) = <<a, r, t, w>>
    BY <1>7, <1>13, <1>24, StackOf
  <2>. QED BY <2>2, <2>3
<1>26. Extends(d1, d2) /\ Extends(d2, d3) /\ Extends(d3, d4) /\ d4 \in Place
  BY <1>7, <1>10, <1>13 DEF Adds, Leads
<1>27. Extends(d2, d4) /\ Extends(d1, d4)
  BY <1>5, <1>9, <1>11, <1>26, ExtendsOn
<1>28. IsList(d4, a, ap, st.attrs, Qualattrs)
  BY <1>4, <1>5, <1>20, <1>26, <1>27, ListKept, RelationsKept
<1>29. IsList(d4, t, tp, st.tables, Tables)
  BY <1>10, <1>11, <1>21, <1>26, ListKept, RelationsKept
<1>30. IsName(d4.chars, r, st.into)
  BY <1>7, <1>9, <1>26, <1>27, NameKept
<1>31. Len(d4.nodes) + 1 = NodesOf(st)
  <2>1. PICK l : l = Len(d4.nodes)
    OBVIOUS
  <2>2. l = 0 + (n1 + 0 + n3 + n4)
    BY <1>3, <1>19, <2>1 DEF Leads
  <2>. QED BY <1>2, <1>13, <1>15, <2>1, <2>2
<1>32. d4.used = CharsOf(st)
  <2>1. d4.used = 0 + (b1 + b2 + b3 + b4)
    BY <1>3, <1>19 DEF Leads
  <2>. QED BY <1>4, <1>8, <1>10, <1>13, <1>15, <2>1
<1>33. PICK p : p = q1 \o q2 \o q3 \o q4
  OBVIOUS
<1>34. p \in Seq(AnyMove) /\ Runs(EmptyPlace, p, d4)
  BY <1>19, <1>33 DEF Leads
<1>35. Script(st) = p \o Rest(st)
  BY <1>14, <1>16, <1>33, <1>34, RestApart, ZenonT(40)
<1>36. StatementRead(st, p, d4)
  BY <1>26, <1>32, <1>34, <1>35 DEF StatementRead
<1>37. IsQueryRead(st, d4)
  BY <1>13, <1>21, <1>24, <1>25, <1>28, <1>29, <1>30, <1>31 DEF IsQueryRead
<1>. QED BY <1>36, <1>37

LEMMA ReadInsert ==
    ASSUME NEW st \in Statement, st.kind = "INSERT"
    PROVE  \E p, d : StatementRead(st, p, d) /\ IsInsertRead(st, d)
<1>1. st.rel \in Str /\ st.attrs \in List(Str) /\ st.values \in List(Literal)
  BY DEF Statement
<1>. DEFINE q1 == <<Id(st.rel)>>
            q2 == Of(AttribMoves, st.attrs)
            q3 == Of(ValueMoves, st.values)
            b1 == Bytes(st.rel)
            b2 == TotalOf(Bytes, st.attrs)
            b3 == TotalOf(LiteralBytes, st.values)
            n2 == 2 * Len(st.attrs)
            n3 == 2 * Len(st.values)
<1>2. n2 \in Nat /\ n3 \in Nat
  BY <1>1 DEF List
<1>3. EmptyPlace \in Place /\ EmptyPlace.nodes = <<>> /\ EmptyPlace.stack = <<>>
      /\ EmptyPlace.used = 0
  BY EmptyPlaceTyped DEF EmptyPlace
<1>4. PICK d1 : \E v \in Nat : /\ Leads(EmptyPlace, q1, d1, 0, b1) /\ d1.nodes = EmptyPlace.nodes
                               /\ d1.stack = Append(EmptyPlace.stack, v)
                               /\ IsName(d1.chars, v, st.rel)
  BY <1>1, <1>3, ReadId
<1>5. PICK r \in Nat : /\ Leads(EmptyPlace, q1, d1, 0, b1)
                       /\ d1.stack = Append(<<>>, r) /\ IsName(d1.chars, r, st.rel)
  BY <1>3, <1>4
<1>6. b1 \in Nat
  BY <1>1, BytesTyped
<1>7. d1 \in Place
  BY <1>5 DEF Leads
<1>8. PICK d2, ap : /\ Adds(d1, q2, d2, n2, b2)
                    /\ IsList(d2, Len(d2.nodes), ap, st.attrs, Attribs) /\ b2 \in Nat
  BY <1>1, <1>7, ReadAttribs
<1>9. d2 \in Place
  BY <1>8 DEF Adds, Leads
<1>10. PICK d3, vp : /\ Adds(d2, q3, d3, n3, b3)
                     /\ IsList(d3, Len(d3.nodes), vp, st.values, Literals) /\ b3 \in Nat
  BY <1>1, <1>9, ReadLiterals
<1>11. d3 \in Place
  BY <1>10 DEF Adds, Leads
<1>12. q1 \o q2 \o q3 \o <<Move("insert")>> = CommandMoves(st)
  BY DEF CommandMoves
<1>13. /\ NodesOf(st) = n2 + n3 + 1 /\ CharsOf(st) = b1 + b2 + b3
  BY DEF NodesOf, CharsOf
<1>14. /\ Script(st) = CommandMoves(st) \o <<Move("command")>>
       /\ Rest(st) = <<Move("insert"), Move("command")>>
  BY DEF Script, Rest
<1>. HIDE DEF q1, q2, q3, b1, b2, b3, n2, n3
<1>15. Leads(EmptyPlace, q1 \o q2, d2, 0 + n2, b1 + b2)
  BY <1>2, <1>5, <1>6, <1>8, LeadsOn DEF Adds
<1>16. Leads(EmptyPlace, q1 \o q2 \o q3, d3, 0 + n2 + n3, b1 + b2 + b3)
  <2>1. 0 + n2 \in Nat /\ b1 + b2 \in Nat
    BY <1>2, <1>6, <1>8
  <2>. QED BY <1>2, <1>10, <1>15, <2>1, LeadsOn DEF Adds
<1>17. PICK a : a = Len(d2.nodes)
  OBVIOUS
<1>18. PICK v : v = Len(d3.nodes)
  OBVIOUS
<1>19. a \in Nat /\ v \in Nat
  BY <1>9, <1>11, <1>17, <1>18, PlaceTyped
<1>20. d3.stack = <<r, a, v>>
  <2>1. d2.stack = Append(d1.stack, a) /\ d3.stack = Append(d2.stack, v)
    BY <1>8, <1>10, <1>17, <1>18 DEF Adds
  <2>2. d3.stack = Append(Append(Append(<<>>, r), a), v)
    BY <1>5, <2>1
  <2>3. /\ Append(<<>>, r) = <<r>> /\ Append(<<r>>, a) = <<r, a>>
        /\ Append(<<r, a>>, v) = <<r, a, v>>
    BY <1>5, <1>19, StackOf
  <2>. QED BY <2>2, <2>3
<1>21. Extends(d1, d2) /\ Extends(d2, d3)
  BY <1>8, <1>10 DEF Adds, Leads
<1>22. Extends(d1, d3)
  BY <1>7, <1>9, <1>11, <1>21, ExtendsOn
<1>23. IsList(d3, a, ap, st.attrs, Attribs)
  BY <1>8, <1>9, <1>11, <1>17, <1>21, ListKept, RelationsKept
<1>24. IsName(d3.chars, r, st.rel)
  BY <1>5, <1>7, <1>11, <1>22, NameKept
<1>25. Len(d3.nodes) + 1 = NodesOf(st)
  <2>1. v = 0 + (0 + n2 + n3)
    BY <1>3, <1>16, <1>18 DEF Leads
  <2>. QED BY <1>2, <1>13, <1>18, <2>1
<1>26. d3.used = CharsOf(st)
  <2>1. d3.used = 0 + (b1 + b2 + b3)
    BY <1>3, <1>16 DEF Leads
  <2>. QED BY <1>6, <1>8, <1>10, <1>13, <2>1
<1>27. PICK p : p = q1 \o q2 \o q3
  OBVIOUS
<1>28. p \in Seq(AnyMove) /\ Runs(EmptyPlace, p, d3)
  BY <1>16, <1>27 DEF Leads
<1>29. Script(st) = p \o Rest(st)
  BY <1>12, <1>14, <1>27, <1>28, RestApart, ZenonT(40)
<1>30. StatementRead(st, p, d3)
  BY <1>11, <1>26, <1>28, <1>29 DEF StatementRead
<1>31. IsInsertRead(st, d3)
  BY <1>5, <1>10, <1>18, <1>19, <1>20, <1>23, <1>24, <1>25 DEF IsInsertRead
<1>. QED BY <1>30, <1>31

\* The last node is the tree of a statement that is not rewritten.
IsTree(st, d) ==
    LET n == d.nodes[Len(d.nodes)]
    IN  CASE st.kind = "DELETE" -> /\ n.kind = "N_DELETE" /\ IsName(d.chars, n.relname, st.rel)
                                   /\ IsWhere(d, 0, n.qual, st.where)
          [] st.kind = "CREATE" -> /\ n.kind = "N_CREATE" /\ IsName(d.chars, n.relname, st.rel)
                                   /\ \E ap : IsList(d, n.attrlist, ap, st.attrs, Attrtypes)
          [] st.kind = "LOAD"    -> n.kind = "N_LOAD"
          [] st.kind = "BUILD"   -> n.kind = "N_BUILD"
          [] st.kind = "DROP"    -> n.kind = "N_DROP"
          [] st.kind = "DESTROY" -> n.kind = "N_DESTROY"
          [] st.kind = "PRINT"   -> n.kind = "N_PRINT"
          [] st.kind = "HELP"    -> n.kind = "N_HELP"

IsTreeRead(st, d) ==
    /\ d.stack = <<Len(d.nodes)>> /\ Len(d.nodes) \in DOMAIN d.nodes
    /\ Len(d.nodes) = NodesOf(st) /\ IsTree(st, d)

LEMMA ReadDelete ==
    ASSUME NEW st \in Statement, st.kind = "DELETE"
    PROVE  \E p, d : StatementRead(st, p, d) /\ IsTreeRead(st, d)
<1>1. st.rel \in Str /\ st.where \in Where
  BY DEF Statement
<1>2. EmptyPlace \in Place /\ EmptyPlace.nodes = <<>> /\ EmptyPlace.stack = <<>>
      /\ EmptyPlace.used = 0 /\ Len(EmptyPlace.nodes) = 0
  BY EmptyPlaceTyped DEF EmptyPlace
<1>. DEFINE q1 == <<Id(st.rel)>>
            q2 == WhereMoves(st.where)
            b1 == Bytes(st.rel)
            b2 == WhereBytes(st.where)
            n2 == WhereNodes(st.where)
            m  == Reduce("delete", 2)
<1>3. PICK d1 : \E v \in Nat : /\ Leads(EmptyPlace, q1, d1, 0, b1) /\ d1.nodes = EmptyPlace.nodes
                               /\ d1.stack = Append(EmptyPlace.stack, v)
                               /\ IsName(d1.chars, v, st.rel)
  BY <1>1, <1>2, ReadId
<1>4. PICK r \in Nat : /\ Leads(EmptyPlace, q1, d1, 0, b1) /\ Len(d1.nodes) = 0
                       /\ d1.stack = Append(<<>>, r) /\ IsName(d1.chars, r, st.rel)
  BY <1>2, <1>3
<1>5. b1 \in Nat
  BY <1>1, BytesTyped
<1>6. d1 \in Place
  BY <1>4 DEF Leads
<1>7. PICK d2, w : WhereRead(d1, st.where, d2, w)
  BY <1>1, <1>6, ReadWhere
<1>8. /\ Leads(d1, q2, d2, n2, b2) /\ w \in Nat /\ d2.stack = Append(d1.stack, w)
      /\ IsWhere(d2, 0, w, st.where) /\ n2 \in Nat /\ b2 \in Nat
  BY <1>4, <1>7 DEF WhereRead
<1>9. d2 \in Place /\ Extends(d1, d2)
  BY <1>8 DEF Leads
<1>10. q1 \o q2 \o <<m>> = CommandMoves(st)
  BY DEF CommandMoves
<1>11. /\ NodesOf(st) = n2 + 1 /\ CharsOf(st) = b1 + b2
  BY DEF NodesOf, CharsOf
<1>12. /\ Script(st) = CommandMoves(st) \o <<Move("command")>>
       /\ Rest(st) = <<Move("command")>>
  BY DEF Script, Rest
<1>13. m \in AnyMove /\ Reduces(m) /\ m.arity = 2 /\ m.op = "delete"
  BY DEF AnyMove, Reduces, Reduce
<1>. HIDE DEF q1, q2, b1, b2, n2, m
<1>14. Leads(EmptyPlace, q1 \o q2, d2, 0 + n2, b1 + b2)
  <2>1. Leads(EmptyPlace, q1, d1, 0, b1) /\ Leads(d1, q2, d2, n2, b2)
    BY <1>4, <1>8
  <2>2. b1 \in Nat /\ n2 \in Nat /\ b2 \in Nat
    BY <1>5, <1>8
  <2>. QED BY <2>1, <2>2, LeadsOn
<1>15. PICK t : t = <<r, w>>
  OBVIOUS
<1>16. d2.stack = <<>> \o t /\ t \in Seq(Nat) /\ Len(t) = 2 /\ t[1] = r /\ t[2] = w
       /\ <<>> \in Seq(Nat)
  <2>1. /\ d2.stack = <<>> \o <<r, w>> /\ <<r, w>> \in Seq(Nat) /\ Len(<<r, w>>) = 2
        /\ <<r, w>>[1] = r /\ <<r, w>>[2] = w
    <3>1. PICK s \in Seq(Nat) : s = <<>>
      <4>1. <<>> \in Seq(Nat)
        OBVIOUS
      <4>. QED BY <4>1
    <3>2. d1.stack = Append(s, r) /\ d2.stack = Append(d1.stack, w)
      BY <1>4, <1>8, <3>1
    <3>3. /\ d2.stack = s \o <<r, w>> /\ <<r, w>> \in Seq(Nat) /\ Len(<<r, w>>) = 2
          /\ <<r, w>>[1] = r /\ <<r, w>>[2] = w
      <4>1. r \in Nat /\ w \in Nat
        BY <1>4, <1>8
      <4>. QED BY <3>2, <4>1, TwoOnTop
    <3>. QED BY <3>1, <3>3
  <2>. QED BY <1>15, <2>1
<1>17. PICK node : node = delete_node(r, w)
  OBVIOUS
<1>18. node \in Node /\ node.kind = "N_DELETE" /\ node.relname = r /\ node.qual = w
  <2>1. delete_node(r, w) \in Node
    BY <1>4, <1>8, NodesTyped
  <2>. QED BY <1>17, <2>1 DEF delete_node
<1>19. node = NodeOf(d2.nodes, m, t)
  BY <1>13, <1>16, <1>17, NodeOfTwo
<1>20. Makes(d2, m, <<>>, t, node)
  BY <1>9, <1>13, <1>16, <1>18, <1>19 DEF Makes
<1>21. PICK d : Made(d2, m, <<>>, node, d)
  BY <1>20, Build
<1>22. PICK l : l = Len(d.nodes)
  OBVIOUS
<1>23. /\ Leads(d2, <<m>>, d, 1, 0) /\ d.stack = Append(<<>>, l)
       /\ d.nodes[l] = node /\ l \in DOMAIN d.nodes
  BY <1>21, <1>22 DEF Made
<1>24. Leads(EmptyPlace, q1 \o q2 \o <<m>>, d, 0 + n2 + 1, b1 + b2 + 0)
  <2>1. 0 + n2 \in Nat /\ b1 + b2 \in Nat
    BY <1>5, <1>8
  <2>. QED BY <1>14, <1>23, <2>1, LeadsOn
<1>25. d \in Place /\ Extends(d2, d)
  BY <1>23 DEF Leads
<1>26. Extends(d1, d)
  BY <1>6, <1>9, <1>25, ExtendsOn
<1>27. IsName(d.chars, r, st.rel)
  BY <1>4, <1>6, <1>25, <1>26, NameKept
<1>28. IsWhere(d, 0, w, st.where)
  BY <1>1, <1>8, <1>9, <1>25, WhereKept
<1>29. l = NodesOf(st) /\ d.used = CharsOf(st)
  <2>1. l = 0 + (0 + n2 + 1) /\ d.used = 0 + (b1 + b2 + 0)
    BY <1>2, <1>22, <1>24 DEF Leads
  <2>. QED BY <1>5, <1>8, <1>11, <2>1
<1>30. l \in Nat
  BY <1>22, <1>25, PlaceTyped
<1>31. d.stack = <<l>>
  BY <1>23, <1>30
<1>32. StatementRead(st, CommandMoves(st), d)
  BY <1>10, <1>12, <1>24, <1>25, <1>29 DEF StatementRead, Leads
<1>33. IsTree(st, d)
  BY <1>18, <1>22, <1>23, <1>27, <1>28 DEF IsTree
<1>34. IsTreeRead(st, d)
  BY <1>22, <1>23, <1>29, <1>31, <1>33 DEF IsTreeRead
<1>. QED BY <1>32, <1>34

PrimaryNodes(attr) == IF attr = NoName THEN 0 ELSE 1

LEMMA ReadPrimary ==
    ASSUME NEW c \in Place, NEW attr \in OptStr
    PROVE  \E d : \E v \in Nat :
               /\ Leads(c, PrimaryMoves(attr), d, PrimaryNodes(attr), Bytes(attr))
               /\ d.stack = Append(c.stack, v) /\ PrimaryNodes(attr) \in Nat /\ Bytes(attr) \in Nat
<1>1. CASE attr = NoName
  <2>1. PICK d : Leads(c, <<Move("nothing")>>, d, 0, 0) /\ d.stack = Append(c.stack, Null)
    BY LeaveOut
  <2>. QED BY <1>1, <2>1 DEF PrimaryMoves, PrimaryNodes, Bytes, Null
<1>2. CASE attr # NoName
  <2>1. attr \in Str
    BY <1>2 DEF OptStr
  <2>2. NameMove(Id(attr), attr)
    BY <1>2 DEF NameMove, OptId
  <2>. DEFINE m == Reduce("primattr", 1)
  <2>3. m \in AnyMove /\ Reduces(m) /\ m.arity = 1 /\ m.op = "primattr"
    BY DEF AnyMove, Reduces, Reduce
  <2>4. PrimaryMoves(attr) = <<Id(attr), m>> /\ PrimaryNodes(attr) = 1
    BY <1>2 DEF PrimaryMoves, PrimaryNodes
  <2>. HIDE DEF m
  <2>5. PICK d : \E v \in Nat : Adds(c, <<Id(attr), m>>, d, 1, Bytes(attr)) /\ OfOne(d, m, v, attr)
    BY <2>2, <2>3, BuildOfOne
  <2>6. d \in Place
    BY <2>5 DEF Adds, Leads
  <2>7. Len(d.nodes) \in Nat
    BY <2>6, PlaceTyped
  <2>8. Bytes(attr) \in Nat
    BY BytesTyped
  <2>. QED BY <2>4, <2>5, <2>7, <2>8 DEF Adds
<1>. QED BY <1>1, <1>2

LEMMA ReadCreate ==
    ASSUME NEW st \in Statement, st.kind = "CREATE"
    PROVE  \E p, d : StatementRead(st, p, d) /\ IsTreeRead(st, d)
<1>1. st.rel \in Str /\ st.attrs \in List(Attrtype) /\ st.primary \in OptStr
  BY DEF Statement
<1>2. EmptyPlace \in Place /\ EmptyPlace.nodes = <<>> /\ EmptyPlace.stack = <<>>
      /\ EmptyPlace.used = 0 /\ Len(EmptyPlace.nodes) = 0
  BY EmptyPlaceTyped DEF EmptyPlace
<1>. DEFINE q1 == <<Id(st.rel)>>
            q2 == Of(AttrtypeMoves, st.attrs)
            q3 == PrimaryMoves(st.primary)
            b1 == Bytes(st.rel)
            b2 == TotalOf(AttrtypeBytes, st.attrs)
            b3 == Bytes(st.primary)
            s2 == Total([k \in DOMAIN st.attrs |-> AttrtypeNodes(st.attrs[k])])
            l2 == Len(st.attrs)
            n3 == PrimaryNodes(st.primary)
            m  == Reduce("create", 3)
<1>3. PICK d1 : \E v \in Nat : /\ Leads(EmptyPlace, q1, d1, 0, b1) /\ d1.nodes = EmptyPlace.nodes
                               /\ d1.stack = Append(EmptyPlace.stack, v)
                               /\ IsName(d1.chars, v, st.rel)
  BY <1>1, <1>2, ReadId
<1>4. PICK r \in Nat : /\ Leads(EmptyPlace, q1, d1, 0, b1)
                       /\ d1.stack = Append(<<>>, r) /\ IsName(d1.chars, r, st.rel)
  BY <1>2, <1>3
<1>5. b1 \in Nat
  BY <1>1, BytesTyped
<1>6. d1 \in Place
  BY <1>4 DEF Leads
<1>7. PICK d2, ap : /\ Adds(d1, q2, d2, s2 + l2, b2)
                    /\ IsList(d2, Len(d2.nodes), ap, st.attrs, Attrtypes) /\ b2 \in Nat /\ s2 \in Nat
  BY <1>1, <1>6, ReadAttrtypes
<1>8. l2 \in Nat
  BY <1>1 DEF List
<1>9. d2 \in Place
  BY <1>7 DEF Adds, Leads
<1>10. PICK d3 : \E v \in Nat : /\ Leads(d2, q3, d3, n3, b3) /\ d3.stack = Append(d2.stack, v)
                                /\ n3 \in Nat /\ b3 \in Nat
  BY <1>1, <1>9, ReadPrimary
<1>11. PICK v \in Nat : /\ Leads(d2, q3, d3, n3, b3) /\ d3.stack = Append(d2.stack, v)
                        /\ n3 \in Nat /\ b3 \in Nat
  BY <1>10
<1>12. d3 \in Place /\ Extends(d1, d2) /\ Extends(d2, d3)
  BY <1>7, <1>11 DEF Adds, Leads
<1>13. q1 \o q2 \o q3 \o <<m>> = CommandMoves(st)
  BY DEF CommandMoves
<1>14. /\ NodesOf(st) = l2 + s2 + n3 + 1 /\ CharsOf(st) = b1 + b2 + b3
  BY DEF NodesOf, CharsOf, PrimaryNodes
<1>15. /\ Script(st) = CommandMoves(st) \o <<Move("command")>>
       /\ Rest(st) = <<Move("command")>>
  BY DEF Script, Rest
<1>16. m \in AnyMove /\ Reduces(m) /\ m.arity = 3 /\ m.op = "create"
  BY DEF AnyMove, Reduces, Reduce
<1>. HIDE DEF q1, q2, q3, b1, b2, b3, s2, l2, n3, m
<1>17. PICK n2 \in Nat : n2 = s2 + l2
  BY <1>7, <1>8
<1>18. Leads(EmptyPlace, q1 \o q2, d2, 0 + n2, b1 + b2)
  <2>1. Leads(EmptyPlace, q1, d1, 0, b1) /\ Leads(d1, q2, d2, n2, b2)
    BY <1>4, <1>7, <1>17 DEF Adds
  <2>2. b1 \in Nat /\ b2 \in Nat
    BY <1>5, <1>7
  <2>. QED BY <2>1, <2>2, LeadsOn
<1>19. Leads(EmptyPlace, q1 \o q2 \o q3, d3, 0 + n2 + n3, b1 + b2 + b3)
  <2>1. 0 + n2 \in Nat /\ b1 + b2 \in Nat
    BY <1>5, <1>7
  <2>. QED BY <1>11, <1>18, <2>1, LeadsOn
<1>20. PICK a : a = Len(d2.nodes)
  OBVIOUS
<1>21. a \in Nat
  BY <1>9, <1>20, PlaceTyped
<1>22. PICK t : t = <<r, a, v>>
  OBVIOUS
<1>23. PICK s : s = <<>>
  OBVIOUS
<1>24. s \in Seq(Nat) /\ t \in Seq(Nat) /\ Len(t) = 3 /\ t[1] = r /\ t[2] = a /\ t[3] = v
  <2>1. <<>> \in Seq(Nat)
    OBVIOUS
  <2>2. <<r, a, v>> \in Seq(Nat) /\ Len(<<r, a, v>>) = 3
    BY <1>4, <1>11, <1>21
  <2>. QED BY <1>22, <1>23, <2>1, <2>2
<1>25. d3.stack = s \o t
  <2>1. d2.stack = Append(d1.stack, a) /\ d3.stack = Append(d2.stack, v)
    BY <1>7, <1>11, <1>20 DEF Adds
  <2>2. d3.stack = Append(Append(Append(s, r), a), v)
    BY <1>4, <1>23, <2>1
  <2>3. Append(Append(Append(s, r), a), v) = s \o <<r, a, v>>
    <3>1. r \in Nat /\ a \in Nat /\ v \in Nat
      BY <1>4, <1>11, <1>21
    <3>. QED BY <1>24, <3>1, Stacked
  <2>. QED BY <1>22, <2>2, <2>3
<1>26. PICK node : node = create_node(r, a, v)
  OBVIOUS
<1>27. node \in Node /\ node.kind = "N_CREATE" /\ node.relname = r /\ node.attrlist = a
  <2>1. create_node(r, a, v) \in Node
    BY <1>4, <1>11, <1>21, NodesTyped
  <2>. QED BY <1>26, <2>1 DEF create_node
<1>28. node = NodeOf(d3.nodes, m, t)
  BY <1>16, <1>24, <1>26, NodeOfTwo
<1>29. Makes(d3, m, s, t, node)
  BY <1>12, <1>16, <1>24, <1>25, <1>27, <1>28 DEF Makes
<1>30. PICK d : Made(d3, m, s, node, d)
  BY <1>29, Build
<1>31. PICK l : l = Len(d.nodes)
  OBVIOUS
<1>32. /\ Leads(d3, <<m>>, d, 1, 0) /\ d.stack = Append(<<>>, l)
       /\ d.nodes[l] = node /\ l \in DOMAIN d.nodes
  BY <1>23, <1>30, <1>31 DEF Made
<1>33. Leads(EmptyPlace, q1 \o q2 \o q3 \o <<m>>, d, 0 + n2 + n3 + 1, b1 + b2 + b3 + 0)
  <2>1. 0 + n2 + n3 \in Nat /\ b1 + b2 + b3 \in Nat
    BY <1>5, <1>7, <1>11
  <2>. QED BY <1>19, <1>32, <2>1, LeadsOn
<1>34. d \in Place /\ Extends(d3, d)
  BY <1>32 DEF Leads
<1>35. Extends(d2, d) /\ Extends(d1, d)
  BY <1>6, <1>9, <1>12, <1>34, ExtendsOn
<1>36. IsName(d.chars, r, st.rel)
  BY <1>4, <1>6, <1>34, <1>35, NameKept
<1>37. IsList(d, a, ap, st.attrs, Attrtypes)
  BY <1>7, <1>9, <1>20, <1>34, <1>35, ListKept, RelationsKept
<1>38. l = NodesOf(st) /\ d.used = CharsOf(st)
  <2>1. l = 0 + (0 + n2 + n3 + 1) /\ d.used = 0 + (b1 + b2 + b3 + 0)
    BY <1>2, <1>31, <1>33 DEF Leads
  <2>2. l = l2 + s2 + n3 + 1
    BY <1>7, <1>8, <1>11, <1>17, <2>1
  <2>3. d.used = b1 + b2 + b3
    BY <1>5, <1>7, <1>11, <2>1
  <2>. QED BY <1>14, <2>2, <2>3
<1>39. l \in Nat
  BY <1>31, <1>34, PlaceTyped
<1>40. d.stack = <<l>>
  BY <1>32, <1>39
<1>41. StatementRead(st, CommandMoves(st), d)
  BY <1>13, <1>15, <1>33, <1>34, <1>38 DEF StatementRead, Leads
<1>42. IsTree(st, d)
  BY <1>27, <1>31, <1>32, <1>36, <1>37 DEF IsTree
<1>43. IsTreeRead(st, d)
  BY <1>31, <1>32, <1>38, <1>40, <1>42 DEF IsTreeRead
<1>. QED BY <1>41, <1>43

LEMMA ReadTwoWords ==
    ASSUME NEW st \in Statement, st.kind \in {"LOAD", "BUILD", "DROP"}
    PROVE  \E p, d : StatementRead(st, p, d) /\ IsTreeRead(st, d)
<1>. DEFINE op == CASE st.kind = "LOAD" -> "load" [] st.kind = "BUILD" -> "build"
                    [] st.kind = "DROP" -> "drop"
            s2 == IF st.kind = "LOAD" THEN st.file ELSE st.attr
            m2 == CASE st.kind = "LOAD" -> [op |-> "qstring", str |-> st.file]
                    [] st.kind = "BUILD" -> Id(st.attr) [] st.kind = "DROP" -> OptId(st.attr)
<1>1. st.rel \in Str /\ s2 \in OptStr /\ (st.kind # "DROP" => s2 \in Str)
  BY DEF Statement, OptStr
<1>2. NameMove(Id(st.rel), st.rel)
  BY <1>1, BytesTyped DEF NameMove, OptId
<1>3. NameMove(m2, s2)
  <2>1. CASE st.kind = "LOAD"
    BY <1>1, <2>1 DEF NameMove
  <2>2. CASE st.kind = "BUILD"
    BY <1>1, <2>2, BytesTyped DEF NameMove, OptId
  <2>3. CASE st.kind = "DROP"
    BY <1>1, <2>3 DEF NameMove
  <2>. QED BY <2>1, <2>2, <2>3
<1>4. op \in {"load", "build", "drop"}
  OBVIOUS
<1>5. CommandMoves(st) = <<Id(st.rel), m2, Reduce(op, 2)>>
  BY DEF CommandMoves
<1>6. /\ NodesOf(st) = 1 /\ CharsOf(st) = Bytes(st.rel) + Bytes(s2)
      /\ Script(st) = CommandMoves(st) \o <<Move("command")>>
      /\ Rest(st) = <<Move("command")>>
  BY DEF NodesOf, CharsOf, Script, Rest
<1>7. PICK o : o = op
  OBVIOUS
<1>8. /\ st.kind = "LOAD" => o = "load"
      /\ st.kind = "BUILD" => o = "build"
      /\ st.kind = "DROP" => o = "drop"
  BY <1>7
<1>9. o \in {"qualattr", "alias", "attrval", "build", "drop", "load"}
  BY <1>4, <1>7
<1>. HIDE DEF op, s2, m2
<1>10. PICK d : \E v1, v2 \in Nat :
                  /\ Adds(EmptyPlace, <<Id(st.rel), m2, Reduce(o, 2)>>, d, 1,
                          Bytes(st.rel) + Bytes(s2))
                  /\ OfTwo(d, Reduce(o, 2), v1, st.rel, v2, s2)
  BY <1>2, <1>3, <1>9, EmptyPlaceTyped, BuildOfTwo
<1>11. PICK v1, v2 \in Nat : OfTwo(d, Reduce(o, 2), v1, st.rel, v2, s2)
  BY <1>10
<1>12. /\ Leads(EmptyPlace, CommandMoves(st), d, 1, Bytes(st.rel) + Bytes(s2))
       /\ d.stack = Append(EmptyPlace.stack, Len(d.nodes)) /\ Len(d.nodes) \in DOMAIN d.nodes
  BY <1>5, <1>7, <1>10 DEF Adds
<1>13. EmptyPlace.stack = <<>> /\ EmptyPlace.used = 0 /\ Len(EmptyPlace.nodes) = 0
  BY DEF EmptyPlace
<1>14. Bytes(st.rel) \in Nat /\ Bytes(s2) \in Nat
  BY <1>1, BytesTyped DEF OptStr
<1>15. Len(d.nodes) = NodesOf(st) /\ d.used = CharsOf(st) /\ d \in Place
  <2>1. Len(d.nodes) = 0 + 1 /\ d.used = 0 + (Bytes(st.rel) + Bytes(s2)) /\ d \in Place
    BY <1>12, <1>13 DEF Leads
  <2>. QED BY <1>6, <1>14, <2>1
<1>16. PICK l \in Nat : l = Len(d.nodes)
  BY <1>15, PlaceTyped
<1>17. d.stack = <<l>>
  BY <1>12, <1>13, <1>16
<1>18. d.nodes[l].kind = CASE o = "load" -> "N_LOAD" [] o = "build" -> "N_BUILD"
                           [] o = "drop" -> "N_DROP"
  <2>. PICK t : t = <<v1, v2>>
    OBVIOUS
  <2>1. d.nodes[l] = NodeOf(<<>>, Reduce(o, 2), t)
    BY <1>11, <1>16 DEF OfTwo
  <2>2. Reduce(o, 2).op = o
    BY DEF Reduce
  <2>. QED BY <1>4, <1>7, <2>1, <2>2, NodeOfTwo DEF load_node, build_node, drop_node
<1>19. IsTree(st, d)
  BY <1>8, <1>16, <1>18 DEF IsTree
<1>20. IsTreeRead(st, d)
  BY <1>12, <1>15, <1>16, <1>17, <1>19 DEF IsTreeRead
<1>21. StatementRead(st, CommandMoves(st), d)
  BY <1>6, <1>12, <1>15 DEF StatementRead, Leads
<1>. QED BY <1>20, <1>21

LEMMA ReadOneWord ==
    ASSUME NEW st \in Statement, st.kind \in {"DESTROY", "PRINT", "HELP"}
    PROVE  \E p, d : StatementRead(st, p, d) /\ IsTreeRead(st, d)
<1>. DEFINE op == CASE st.kind = "DESTROY" -> "destroy" [] st.kind = "PRINT" -> "print"
                    [] st.kind = "HELP" -> "help"
            m1 == IF st.kind = "HELP" THEN OptId(st.rel) ELSE Id(st.rel)
            m  == Reduce(op, 1)
<1>1. st.rel \in OptStr /\ (st.kind # "HELP" => st.rel \in Str)
  BY DEF Statement, OptStr
<1>2. NameMove(m1, st.rel)
  <2>1. CASE st.kind = "HELP"
    BY <1>1, <2>1 DEF NameMove
  <2>2. CASE st.kind # "HELP"
    BY <1>1, <2>2, BytesTyped DEF NameMove, OptId
  <2>. QED BY <2>1, <2>2
<1>3. CommandMoves(st) = <<m1, m>>
  BY DEF CommandMoves
<1>4. /\ NodesOf(st) = 1 /\ CharsOf(st) = Bytes(st.rel)
      /\ Script(st) = CommandMoves(st) \o <<Move("command")>>
      /\ Rest(st) = <<Move("command")>>
  BY DEF NodesOf, CharsOf, Script, Rest
<1>5. /\ m \in AnyMove /\ Reduces(m) /\ m.arity = 1
      /\ m.op \in {"string", "primattr", "attrtype", "destroy", "print", "help"}
      /\ st.kind = "DESTROY" => m.op = "destroy"
      /\ st.kind = "PRINT" => m.op = "print"
      /\ st.kind = "HELP" => m.op = "help"
  BY DEF AnyMove, Reduces, Reduce
<1>. HIDE DEF op, m1, m
<1>6. PICK d : \E v \in Nat : Adds(EmptyPlace, <<m1, m>>, d, 1, Bytes(st.rel))
                              /\ OfOne(d, m, v, st.rel)
  BY <1>2, <1>5, EmptyPlaceTyped, BuildOfOne
<1>7. PICK v \in Nat : OfOne(d, m, v, st.rel)
  BY <1>6
<1>8. /\ Leads(EmptyPlace, CommandMoves(st), d, 1, Bytes(st.rel))
      /\ d.stack = Append(EmptyPlace.stack, Len(d.nodes)) /\ Len(d.nodes) \in DOMAIN d.nodes
  BY <1>3, <1>6 DEF Adds
<1>9. EmptyPlace.stack = <<>> /\ EmptyPlace.used = 0 /\ Len(EmptyPlace.nodes) = 0
  BY DEF EmptyPlace
<1>10. Bytes(st.rel) \in Nat
  BY <1>1, BytesTyped DEF OptStr
<1>11. Len(d.nodes) = NodesOf(st) /\ d.used = CharsOf(st) /\ d \in Place
  <2>1. Len(d.nodes) = 0 + 1 /\ d.used = 0 + Bytes(st.rel) /\ d \in Place
    BY <1>8, <1>9 DEF Leads
  <2>. QED BY <1>4, <1>10, <2>1
<1>12. PICK l \in Nat : l = Len(d.nodes)
  BY <1>11, PlaceTyped
<1>13. d.stack = <<l>>
  BY <1>8, <1>9, <1>12
<1>14. d.nodes[l].kind = CASE st.kind = "DESTROY" -> "N_DESTROY" [] st.kind = "PRINT" -> "N_PRINT"
                           [] st.kind = "HELP" -> "N_HELP"
  <2>. PICK t : t = <<v>>
    OBVIOUS
  <2>1. d.nodes[l] = NodeOf(<<>>, m, t)
    BY <1>7, <1>12 DEF OfOne
  <2>. QED BY <1>5, <2>1, NodeOfOne DEF destroy_node, print_node, help_node
<1>15. IsTree(st, d)
  BY <1>12, <1>14 DEF IsTree
<1>16. IsTreeRead(st, d)
  BY <1>8, <1>11, <1>12, <1>13, <1>15 DEF IsTreeRead
<1>17. StatementRead(st, CommandMoves(st), d)
  BY <1>4, <1>8, <1>11 DEF StatementRead, Leads
<1>. QED BY <1>16, <1>17

\* The place at which the parser has read st.
IsRead(st, d) ==
    CASE st.kind = "SELECT" -> IsQueryRead(st, d)
      [] st.kind = "INSERT" -> IsInsertRead(st, d)
      [] st.kind = "EMPTY"  -> d.stack = <<Null>> /\ d.nodes = <<>>
      [] st.kind \in {"SHELL", "QUIT", "EOF"} -> d.nodes = <<>>
      [] OTHER -> IsTreeRead(st, d)

LEMMA ReadNothing ==
    ASSUME NEW st \in Statement, st.kind \in {"EMPTY", "SHELL", "QUIT", "EOF"}
    PROVE  \E p, d : StatementRead(st, p, d) /\ IsRead(st, d)
<1>1. EmptyPlace \in Place /\ EmptyPlace.nodes = <<>> /\ EmptyPlace.stack = <<>>
      /\ EmptyPlace.used = 0
  BY EmptyPlaceTyped DEF EmptyPlace
<1>2. CharsOf(st) = 0
  BY DEF CharsOf
<1>3. CASE st.kind = "EMPTY"
  <2>1. PICK d : /\ Leads(EmptyPlace, <<Move("nothing")>>, d, 0, 0) /\ d.nodes = EmptyPlace.nodes
                 /\ d.stack = Append(EmptyPlace.stack, Null)
    BY <1>1, LeaveOut
  <2>2. Script(st) = <<Move("nothing")>> \o <<Move("command")>> /\ Rest(st) = <<Move("command")>>
    BY <1>3 DEF Script, CommandMoves, Rest
  <2>3. d.used = 0
    BY <1>1, <2>1 DEF Leads
  <2>4. StatementRead(st, <<Move("nothing")>>, d)
    BY <1>2, <2>1, <2>2, <2>3 DEF StatementRead, Leads
  <2>5. d.stack = <<Null>>
    BY <1>1, <2>1 DEF Null
  <2>6. IsRead(st, d)
    BY <1>1, <1>3, <2>1, <2>5 DEF IsRead
  <2>. QED BY <2>4, <2>6
<1>4. CASE st.kind # "EMPTY"
  <2>1. Runs(EmptyPlace, <<>>, EmptyPlace)
    BY <1>1, NoMoves
  <2>2. Script(st) = Rest(st) /\ Rest(st) \in Seq(AnyMove)
    BY <1>4 DEF Script, Rest, AnyMove, Move
  <2>3. Script(st) = <<>> \o Rest(st) /\ <<>> \in Seq(AnyMove)
    BY <2>2, ConcatEmptySeq
  <2>4. StatementRead(st, <<>>, EmptyPlace)
    BY <1>1, <1>2, <2>1, <2>3 DEF StatementRead
  <2>5. IsRead(st, EmptyPlace)
    BY <1>1, <1>4 DEF IsRead
  <2>. QED BY <2>4, <2>5
<1>. QED BY <1>3, <1>4

Kinds == {"SELECT", "INSERT", "DELETE", "CREATE", "LOAD", "BUILD", "DROP", "DESTROY", "PRINT",
          "HELP", "EMPTY", "SHELL", "QUIT", "EOF"}

LEMMA StatementKinds ==
    ASSUME NEW st \in Statement
    PROVE  st.kind \in Kinds
BY DEF Statement, Kinds

\* Every statement is read as long as there is room.
LEMMA ReadStatement ==
    ASSUME NEW st \in Statement
    PROVE  \E p, d : StatementRead(st, p, d) /\ IsRead(st, d)
<1>1. CASE st.kind = "SELECT"
  BY <1>1, ReadSelect DEF IsRead
<1>2. CASE st.kind = "INSERT"
  BY <1>2, ReadInsert DEF IsRead
<1>3. CASE st.kind = "DELETE"
  BY <1>3, ReadDelete DEF IsRead
<1>4. CASE st.kind = "CREATE"
  BY <1>4, ReadCreate DEF IsRead
<1>5. CASE st.kind \in {"LOAD", "BUILD", "DROP"}
  BY <1>5, ReadTwoWords DEF IsRead
<1>6. CASE st.kind \in {"DESTROY", "PRINT", "HELP"}
  BY <1>6, ReadOneWord DEF IsRead
<1>7. CASE st.kind \in {"EMPTY", "SHELL", "QUIT", "EOF"}
  BY <1>7, ReadNothing
<1>. QED BY <1>1, <1>2, <1>3, <1>4, <1>5, <1>6, <1>7, StatementKinds DEF Kinds

-----------------------------------------------------------------------------
(* Qualifiers.  Names are those of the state's character pool.             *)

LEMMA NameIs ==
    ASSUME NEW v, NEW s, charpool \in Seq(Str), IsName(charpool, v, s)
    PROVE  Name(v) = s /\ (v = Null <=> s = NoName)
<1>1. CASE s = NoName
  BY <1>1 DEF IsName, Name
<1>2. CASE s # NoName
  <2>1. v \in DOMAIN charpool /\ charpool[v] = s /\ v # Null
    BY <1>2 DEF IsName, Null
  <2>. QED BY <1>2, <2>1 DEF Name
<1>. QED BY <1>1, <1>2

\* The nodes tables are those of xs.
AreTables(tables, xs) ==
    /\ DOMAIN tables = DOMAIN xs /\ Len(tables) = Len(xs)
    /\ \A k \in DOMAIN xs : /\ tables[k].relname \in Nat
                            /\ IsName(charpool, tables[k].relname, xs[k].rel)
                            /\ IsName(charpool, tables[k].alias, xs[k].alias)

\* A qualifier is replaced by the name of a relation it may stand for, and
\* refused only if there is none.
LEMMA QualifierMeans ==
    ASSUME NEW st, st.tables \in List(Table), NEW tables, AreTables(tables, st.tables),
           charpool \in Seq(Str), NEW s, NEW q \in OptStr, IsName(charpool, s, q)
    PROVE  LET to == Qualifier(tables, s)
           IN  /\ to = Null => Meaning(st, q) = {}
               /\ to # Null => to \in DOMAIN charpool /\ charpool[to] \in Meaning(st, q)
<1>. DEFINE xs == st.tables
<1>1. PICK n : n = Len(xs)
  OBVIOUS
<1>2. /\ n \in Nat \ {0} /\ DOMAIN xs = 1 .. n /\ Len(xs) = n
      /\ \A k \in 1 .. n : xs[k] \in Table
  BY <1>1 DEF List
<1>3. /\ \A k \in 1 .. n : /\ Name(tables[k].relname) = xs[k].rel
                           /\ Name(tables[k].alias) = xs[k].alias
                           /\ tables[k].alias = Null <=> xs[k].alias = NoName
                           /\ tables[k].relname \in DOMAIN charpool
                           /\ charpool[tables[k].relname] = xs[k].rel
      /\ DOMAIN tables = 1 .. n /\ Len(tables) = n
  <2>1. ASSUME NEW k \in 1 .. n
        PROVE  /\ Name(tables[k].relname) = xs[k].rel /\ Name(tables[k].alias) = xs[k].alias
               /\ tables[k].alias = Null <=> xs[k].alias = NoName
               /\ tables[k].relname \in DOMAIN charpool /\ charpool[tables[k].relname] = xs[k].rel
    <3>1. /\ IsName(charpool, tables[k].relname, xs[k].rel)
          /\ IsName(charpool, tables[k].alias, xs[k].alias)
      BY <1>2 DEF AreTables
    <3>2. xs[k].rel # NoName
      BY <1>2, StringsAssumption DEF Table
    <3>3. tables[k].relname \in DOMAIN charpool /\ charpool[tables[k].relname] = xs[k].rel
      BY <3>1, <3>2 DEF IsName
    <3>. QED BY <3>1, <3>3, NameIs
  <2>2. DOMAIN tables = 1 .. n /\ Len(tables) = n
    BY <1>2 DEF AreTables
  <2>. QED BY <2>1, <2>2
<1>4. Name(s) = q /\ (s = Null <=> q = NoName)
  BY NameIs
<1>5. CASE s = Null
  <2>1. Meaning(st, q) = {xs[k].rel : k \in {k \in 1 .. n : n = 1}}
    BY <1>2, <1>4, <1>5 DEF Meaning
  <2>2. CASE n = 1
    <3>1. ~(Len(tables) > 1) /\ 1 \in 1 .. n
      BY <1>2, <1>3, <2>2
    <3>2. Qualifier(tables, s) = tables[1].relname
      BY <1>5, <3>1 DEF Qualifier
    <3>3. tables[1].relname \in DOMAIN charpool /\ charpool[tables[1].relname] = xs[1].rel
      BY <1>3, <3>1
    <3>4. tables[1].relname # Null
      BY <3>3 DEF Null
    <3>. QED BY <2>1, <2>2, <3>1, <3>2, <3>3, <3>4
  <2>3. CASE n # 1
    <3>1. Len(tables) > 1
      <4>1. n > 1
        <5>1. n \in Nat \ {0}
          BY <1>2
        <5>. QED BY <2>3, <5>1
      <4>. QED BY <1>3, <4>1
    <3>. QED BY <1>5, <2>1, <2>3, <3>1 DEF Qualifier
  <2>. QED BY <2>2, <2>3
<1>6. CASE s # Null
  <2>. DEFINE K == {k \in 1 .. n : q \in {xs[k].rel, xs[k].alias}}
              k0 == CHOOSE k \in K : \A j \in K : k <= j
  <2>1. Meaning(st, q) = {xs[k].rel : k \in K}
    BY <1>2, <1>4, <1>6 DEF Meaning
  <2>2. K = {k \in DOMAIN tables :
                \/ Name(tables[k].relname) = Name(s)
                \/ tables[k].alias # Null /\ Name(tables[k].alias) = Name(s)}
    BY <1>3, <1>4, <1>6
  <2>3. Qualifier(tables, s) =
          IF K = {} THEN Null
          ELSE IF Name(tables[k0].relname) = Name(s) THEN s ELSE tables[k0].relname
    <3>. DEFINE M == {k \in DOMAIN tables :
                        \/ Name(tables[k].relname) = Name(s)
                        \/ tables[k].alias # Null /\ Name(tables[k].alias) = Name(s)}
                m0 == CHOOSE k \in M : \A j \in M : k <= j
    <3>1. Qualifier(tables, s) = find_match_in_alias(tables, s)
      BY <1>6 DEF Qualifier
    <3>2. find_match_in_alias(tables, s) =
            IF M = {} THEN Null
            ELSE IF Name(tables[m0].relname) = Name(s) THEN s ELSE tables[m0].relname
      BY Zenon DEF find_match_in_alias
    <3>3. M = K
      BY <2>2
    <3>. HIDE DEF M, K
    <3>. QED BY <3>1, <3>2, <3>3
  <2>4. CASE K = {}
    BY <2>1, <2>3, <2>4
  <2>5. CASE K # {}
    <3>1. k0 \in K
      <4>1. K \subseteq Nat
        BY <1>2
      <4>. HIDE DEF K
      <4>2. \E k \in K : \A j \in K : k <= j
        BY <2>5, <4>1, Least
      <4>. QED BY <4>2
    <3>. PICK z : z = Qualifier(tables, s)
      OBVIOUS
    <3>2. PICK k : k = k0
      OBVIOUS
    <3>3. k \in 1 .. n /\ k \in K
      BY <3>1, <3>2
    <3>4. z = IF Name(tables[k].relname) = Name(s) THEN s ELSE tables[k].relname
      BY <2>3, <2>5, <3>2
    <3>. HIDE DEF K
    <3>5. z \in DOMAIN charpool /\ charpool[z] = xs[k].rel
      <4>1. CASE Name(tables[k].relname) = Name(s)
        <5>1. s \in DOMAIN charpool /\ charpool[s] = q
          BY <1>4, <1>6 DEF IsName
        <5>. QED BY <1>3, <1>4, <3>3, <3>4, <4>1, <5>1
      <4>2. CASE Name(tables[k].relname) # Name(s)
        BY <1>3, <3>3, <3>4, <4>2
      <4>. QED BY <4>1, <4>2
    <3>6. z # Null
      BY <3>5 DEF Null
    <3>. QED BY <2>1, <3>3, <3>5, <3>6
  <2>. QED BY <2>4, <2>5
<1>. QED BY <1>5, <1>6

\* The nodes attrs of pool are attributes xs of st, alias its list of tables.
Replaceable(pool, alias, attrs, st, xs) ==
    /\ pool \in Seq(Node) /\ charpool \in Seq(Str) /\ st.tables \in List(Table)
    /\ LET aliases == Elements(pool, alias)
       IN  AreTables([k \in DOMAIN aliases |-> pool[aliases[k]]], st.tables)
    /\ attrs \in Seq(Nat) /\ DOMAIN attrs = DOMAIN xs
    /\ \A k \in DOMAIN attrs :
         /\ attrs[k] \in DOMAIN pool /\ pool[attrs[k]].kind = "N_QUALATTR"
         /\ xs[k] \in Qualattr /\ IsName(charpool, pool[attrs[k]].relname, xs[k].rel)

\* Only qualifiers of the nodes attrs have changed.
Rewritten(pool, attrs, new) ==
    /\ new \in Seq(Node) /\ Len(new) = Len(pool)
    /\ \A i \in DOMAIN pool : (\A k \in DOMAIN attrs : attrs[k] # i) => new[i] = pool[i]
    /\ \A k \in DOMAIN attrs : /\ new[attrs[k]].kind = "N_QUALATTR"
                               /\ new[attrs[k]].attrname = pool[attrs[k]].attrname

NamesMeant(new, attrs, st, xs) ==
    \A k \in DOMAIN attrs : /\ new[attrs[k]].relname \in DOMAIN charpool
                            /\ charpool[new[attrs[k]].relname] \in Meaning(st, xs[k].rel)

LEMMA QualattrNode ==
    ASSUME NEW n \in Node, n.kind = "N_QUALATTR", NEW v \in Nat
    PROVE  /\ [n EXCEPT !.relname = v] \in Node /\ [n EXCEPT !.relname = v].kind = "N_QUALATTR"
           /\ [n EXCEPT !.relname = v].relname = v
           /\ [n EXCEPT !.relname = v].attrname = n.attrname
<1>1. n \in [kind : {"N_DROP", "N_QUALATTR"}, relname : Nat, attrname : Nat]
  BY DEF Node
<1>2. [n EXCEPT !.relname = v] \in [kind : {"N_DROP", "N_QUALATTR"}, relname : Nat, attrname : Nat]
  BY <1>1
<1>3. [n EXCEPT !.relname = v] \in Node
  BY <1>2 DEF Node
<1>. QED BY <1>1, <1>3

\* list is what becomes of the attributes.
IsReplaced(list, pool, attrs, st, xs) ==
    /\ Rewritten(pool, attrs, list.pool)
    /\ list.ok => NamesMeant(list.pool, attrs, st, xs)
    /\ ~list.ok => \E k \in DOMAIN attrs : Meaning(st, xs[k].rel) = {}

LEMMA ReplacedMeans ==
    ASSUME NEW pool, NEW alias, NEW attrs, NEW st, NEW xs, Replaceable(pool, alias, attrs, st, xs)
    PROVE  IsReplaced(Replaced(pool, alias, attrs), pool, attrs, st, xs)
<1>. DEFINE aliases == Elements(pool, alias)
            tables == [k \in DOMAIN aliases |-> pool[aliases[k]]]
            to(k) == Qualifier(tables, pool[attrs[k]].relname)
            bad == {k \in DOMAIN attrs : to(k) = Null}
            K(i) == {k \in DOMAIN attrs : attrs[k] = i /\ \A j \in bad : k < j}
            new == [i \in DOMAIN pool |->
                       IF K(i) = {} THEN pool[i]
                       ELSE [pool[i] EXCEPT !.relname = to(CHOOSE k \in K(i) : TRUE)]]
<1>1. Replaced(pool, alias, attrs) = [ok |-> bad = {}, pool |-> new]
  BY DEF Replaced
<1>2. /\ pool \in Seq(Node) /\ charpool \in Seq(Str) /\ st.tables \in List(Table)
      /\ AreTables(tables, st.tables) /\ attrs \in Seq(Nat) /\ DOMAIN attrs = DOMAIN xs
      /\ \A k \in DOMAIN attrs :
           /\ attrs[k] \in DOMAIN pool /\ pool[attrs[k]].kind = "N_QUALATTR"
           /\ xs[k] \in Qualattr /\ IsName(charpool, pool[attrs[k]].relname, xs[k].rel)
  BY DEF Replaceable
<1>. HIDE DEF tables
<1>3. ASSUME NEW k \in DOMAIN attrs
      PROVE  /\ to(k) = Null => Meaning(st, xs[k].rel) = {}
             /\ to(k) # Null => to(k) \in DOMAIN charpool /\ charpool[to(k)] \in Meaning(st, xs[k].rel)
             /\ to(k) \in Nat
  <2>1. xs[k].rel \in OptStr
    BY <1>2 DEF Qualattr
  <2>2. /\ to(k) = Null => Meaning(st, xs[k].rel) = {}
        /\ to(k) # Null => to(k) \in DOMAIN charpool /\ charpool[to(k)] \in Meaning(st, xs[k].rel)
    BY <1>2, <2>1, QualifierMeans
  <2>3. DOMAIN charpool \subseteq Nat
    BY <1>2
  <2>. HIDE DEF to
  <2>. QED BY <2>2, <2>3 DEF Null
<1>. HIDE DEF to
<1>4. ASSUME NEW i \in DOMAIN pool, NEW k \in K(i)
      PROVE  i = attrs[k] /\ k \in DOMAIN attrs
  OBVIOUS
<1>5. ASSUME NEW i \in DOMAIN pool
      PROVE  /\ K(i) = {} => new[i] = pool[i]
             /\ K(i) # {} => \E k \in K(i) : new[i] = [pool[i] EXCEPT !.relname = to(k)]
  <2>1. new[i] = IF K(i) = {} THEN pool[i]
                 ELSE [pool[i] EXCEPT !.relname = to(CHOOSE k \in K(i) : TRUE)]
    OBVIOUS
  <2>. HIDE DEF K, new
  <2>2. K(i) # {} => (CHOOSE k \in K(i) : TRUE) \in K(i)
    OBVIOUS
  <2>. QED BY <2>1, <2>2
<1>6. DOMAIN new = DOMAIN pool
  OBVIOUS
<1>. HIDE DEF new, K
<1>7. ASSUME NEW i \in DOMAIN pool
      PROVE  /\ new[i] \in Node
             /\ pool[i].kind = "N_QUALATTR" => /\ new[i].kind = "N_QUALATTR"
                                               /\ new[i].attrname = pool[i].attrname
  <2>1. pool[i] \in Node
    BY <1>2
  <2>2. CASE K(i) = {}
    BY <1>5, <2>1, <2>2
  <2>3. CASE K(i) # {}
    <3>1. PICK k \in K(i) : new[i] = [pool[i] EXCEPT !.relname = to(k)]
      BY <1>5, <2>3
    <3>2. to(k) \in Nat /\ pool[i].kind = "N_QUALATTR"
      BY <1>2, <1>3, <1>4
    <3>. QED BY <2>1, <3>1, <3>2, QualattrNode
  <2>. QED BY <2>2, <2>3
<1>8. new \in Seq(Node) /\ Len(new) = Len(pool)
  <2>1. PICK n : n = Len(pool)
    OBVIOUS
  <2>2. n \in Nat /\ DOMAIN pool = 1 .. n
    BY <1>2, <2>1
  <2>3. DOMAIN new = 1 .. n /\ \A i \in 1 .. n : new[i] \in Node
    BY <1>6, <1>7, <2>2
  <2>4. new = [i \in 1 .. n |-> new[i]]
    BY <1>6, <2>2 DEF new
  <2>5. new \in [1 .. n -> Node]
    BY <2>3, <2>4
  <2>. QED BY <2>1, <2>2, <2>5
<1>9. Rewritten(pool, attrs, new)
  <2>1. \A i \in DOMAIN pool : (\A k \in DOMAIN attrs : attrs[k] # i) => new[i] = pool[i]
    BY <1>4, <1>5
  <2>2. \A k \in DOMAIN attrs : /\ new[attrs[k]].kind = "N_QUALATTR"
                                /\ new[attrs[k]].attrname = pool[attrs[k]].attrname
    BY <1>2, <1>7
  <2>. QED BY <1>8, <2>1, <2>2 DEF Rewritten
<1>10. ASSUME bad = {} PROVE NamesMeant(new, attrs, st, xs)
  <2>. SUFFICES ASSUME NEW k \in DOMAIN attrs
                PROVE  /\ new[attrs[k]].relname \in DOMAIN charpool
                       /\ charpool[new[attrs[k]].relname] \in Meaning(st, xs[k].rel)
    BY DEF NamesMeant
  <2>1. PICK i \in DOMAIN pool : i = attrs[k]
    BY <1>2
  <2>2. k \in K(i)
    BY <1>10, <2>1 DEF K
  <2>3. PICK j \in K(i) : new[i] = [pool[i] EXCEPT !.relname = to(j)]
    BY <1>5, <2>2
  <2>4. j \in DOMAIN attrs /\ attrs[j] = i
    BY <1>4
  <2>5. to(j) = to(k)
    BY <2>1, <2>4 DEF to
  <2>6. to(k) # Null
    BY <1>10
  <2>7. pool[i] \in Node /\ pool[i].kind = "N_QUALATTR"
    BY <1>2, <2>4
  <2>8. new[i].relname = to(k)
    BY <1>3, <2>3, <2>4, <2>5, <2>7, QualattrNode
  <2>. QED BY <1>3, <2>1, <2>6, <2>8
<1>11. ASSUME bad # {} PROVE \E k \in DOMAIN attrs : Meaning(st, xs[k].rel) = {}
  BY <1>3, <1>11
<1>. HIDE DEF bad
<1>12. PICK list : list = Replaced(pool, alias, attrs)
  OBVIOUS
<1>13. list.pool = new /\ (list.ok <=> bad = {})
  <2>1. list = [ok |-> bad = {}, pool |-> new]
    BY <1>1, <1>12, Zenon
  <2>2. list.pool = new
    BY <2>1, Zenon
  <2>3. list.ok = (bad = {})
    BY <2>1, Zenon
  <2>. QED BY <2>2, <2>3
<1>14. IsReplaced(list, pool, attrs, st, xs)
  BY <1>9, <1>10, <1>11, <1>13 DEF IsReplaced
<1>. QED BY <1>12, <1>14

-----------------------------------------------------------------------------
(* The rewriting of a query (production query of parse.y).                 *)

\* What the parser has made so far.
Here == [nodes |-> nodepool, chars |-> charpool, used |-> charptr, stack |-> stack]

LEMMA HereTyped ==
    ASSUME Here \in Place
    PROVE  /\ nodepool \in Seq(Node) /\ Linked(nodepool) /\ charpool \in Seq(Str)
           /\ charptr \in Nat /\ stack \in Seq(Nat) /\ Len(nodepool) \in Nat
           /\ DOMAIN nodepool = 1 .. Len(nodepool)
<1>1. /\ Here.nodes = nodepool /\ Here.chars = charpool /\ Here.used = charptr
      /\ Here.stack = stack
  BY DEF Here
<1>. QED BY <1>1, PlaceTyped

\* Only qualifiers of attributes differ from those of the node pool.
SameShape(pool) ==
    /\ pool \in Seq(Node) /\ Linked(pool) /\ Len(pool) = Len(nodepool)
    /\ DOMAIN pool = DOMAIN nodepool
    /\ \A i \in DOMAIN nodepool :
         /\ pool[i].kind = nodepool[i].kind
         /\ nodepool[i].kind # "N_QUALATTR" => pool[i] = nodepool[i]

AreQualattrs(pool, attrs) ==
    /\ attrs \in Seq(Nat)
    /\ \A k \in DOMAIN attrs : attrs[k] \in DOMAIN pool /\ pool[attrs[k]].kind = "N_QUALATTR"

LEMMA ShapeItself ==
    ASSUME Here \in Place
    PROVE  SameShape(nodepool)
BY HereTyped DEF SameShape

LEMMA ShapeKept ==
    ASSUME Here \in Place, NEW pool, SameShape(pool), NEW attrs, AreQualattrs(pool, attrs),
           NEW new, Rewritten(pool, attrs, new)
    PROVE  SameShape(new)
<1>1. /\ pool \in Seq(Node) /\ new \in Seq(Node) /\ Len(new) = Len(pool)
      /\ Len(pool) = Len(nodepool) /\ DOMAIN pool = DOMAIN nodepool /\ Linked(pool)
  BY DEF SameShape, Rewritten
<1>2. DOMAIN new = DOMAIN pool
  BY <1>1
<1>3. ASSUME NEW i \in DOMAIN pool
      PROVE  new[i].kind = pool[i].kind /\ (pool[i].kind # "N_QUALATTR" => new[i] = pool[i])
  <2>1. CASE \E k \in DOMAIN attrs : attrs[k] = i
    <3>1. PICK k \in DOMAIN attrs : attrs[k] = i
      BY <2>1
    <3>. QED BY <3>1 DEF AreQualattrs, Rewritten
  <2>2. CASE \A k \in DOMAIN attrs : attrs[k] # i
    BY <2>2 DEF Rewritten
  <2>. QED BY <2>1, <2>2
<1>4. Cells(new) = Cells(pool)
  BY <1>2, <1>3 DEF Cells
<1>5. \A i \in Cells(pool) : new[i] = pool[i]
  BY <1>3 DEF Cells
<1>6. Linked(new)
  BY <1>1, <1>4, <1>5 DEF Linked
<1>7. \A i \in DOMAIN nodepool : /\ new[i].kind = nodepool[i].kind
                                 /\ nodepool[i].kind # "N_QUALATTR" => new[i] = nodepool[i]
  BY <1>1, <1>3 DEF SameShape
<1>. QED BY <1>1, <1>2, <1>6, <1>7 DEF SameShape

\* Where the parts of a query are.
QueryReadAt(st, a, r, t, w, ap, tp) ==
    /\ a \in Nat /\ r \in Nat /\ t \in Nat /\ w \in Nat /\ a < t
    /\ IsList(Here, a, ap, st.attrs, Qualattrs) /\ IsName(charpool, r, st.into)
    /\ IsList(Here, t, tp, st.tables, Tables) /\ IsWhere(Here, t, w, st.where)

\* The rewriting changes no cell of a list.
LEMMA ListsOfShape ==
    ASSUME Here \in Place, NEW pool, SameShape(pool), NEW l \in Nat, NEW ptrs,
           NEW xs, xs # <<>>, xs \in Seq(Qualattr) \cup Seq(Table), NEW R,
           IsList(Here, l, ptrs, xs, R)
    PROVE  /\ Elements(pool, l) = ptrs /\ ListAt(pool, l, ptrs) /\ ptrs \in Seq(Nat)
           /\ Len(ptrs) = Len(xs) /\ DOMAIN ptrs = DOMAIN xs
<1>1. /\ ptrs \in Seq(Nat) /\ Len(ptrs) = Len(xs) /\ ListAt(nodepool, l, ptrs)
  BY DEF IsList, AreElements, Here
<1>2. ptrs # <<>> /\ DOMAIN ptrs = DOMAIN xs
  BY <1>1
<1>3. ListAt(pool, l, ptrs)
  <2>. SUFFICES ASSUME NEW i \in 1 .. Len(ptrs)
                PROVE  /\ l - i + 1 \in DOMAIN pool
                       /\ pool[l - i + 1] = [kind |-> "N_LIST", self |-> ptrs[i],
                                             next |-> IF i = Len(ptrs) THEN Null ELSE l - i]
    BY DEF ListAt
  <2>1. PICK c : c = l - i + 1
    OBVIOUS
  <2>2. c \in DOMAIN nodepool
        /\ nodepool[c] = [kind |-> "N_LIST", self |-> ptrs[i],
                          next |-> IF i = Len(ptrs) THEN Null ELSE l - i]
    BY <1>1, <2>1 DEF ListAt
  <2>3. nodepool[c].kind # "N_QUALATTR"
    BY <2>2
  <2>4. c \in DOMAIN pool /\ pool[c] = nodepool[c]
    BY <2>2, <2>3 DEF SameShape
  <2>. QED BY <2>1, <2>2, <2>4
<1>. QED BY <1>1, <1>2, <1>3, ElementsAre DEF SameShape

LEMMA TablesOfShape ==
    ASSUME Here \in Place, NEW pool, SameShape(pool), NEW t \in Nat, NEW tp, NEW xs \in List(Table),
           IsList(Here, t, tp, xs, Tables)
    PROVE  LET aliases == Elements(pool, t)
           IN  AreTables([k \in DOMAIN aliases |-> pool[aliases[k]]], xs)
<1>1. xs \in Seq(Table) /\ xs # <<>>
  BY DEF List
<1>2. Elements(pool, t) = tp /\ tp \in Seq(Nat) /\ Len(tp) = Len(xs) /\ DOMAIN tp = DOMAIN xs
  BY <1>1, ListsOfShape
<1>. PICK n : n = Len(xs)
  OBVIOUS
<1>3. n \in Nat /\ DOMAIN xs = 1 .. n
  BY <1>1
<1>. DEFINE tables == [k \in DOMAIN tp |-> pool[tp[k]]]
<1>4. DOMAIN tables = 1 .. n /\ Len(tables) = n
  BY <1>2, <1>3
<1>5. ASSUME NEW k \in 1 .. n
      PROVE  /\ tables[k].relname \in Nat
             /\ IsName(charpool, tables[k].relname, xs[k].rel)
             /\ IsName(charpool, tables[k].alias, xs[k].alias)
  <2>1. <<Here, tp[k], xs[k]>> \in Tables
    BY <1>3 DEF IsList, AreElements
  <2>2. IsTable(Here, tp[k], xs[k])
    BY <2>1 DEF Tables
  <2>3. /\ tp[k] \in DOMAIN nodepool /\ nodepool[tp[k]].kind = "N_ALIAS"
        /\ IsName(charpool, nodepool[tp[k]].relname, xs[k].rel)
        /\ IsName(charpool, nodepool[tp[k]].alias, xs[k].alias)
    BY <2>2 DEF IsTable, Here
  <2>4. tables[k] = nodepool[tp[k]]
    BY <1>2, <1>3, <2>3 DEF SameShape
  <2>5. nodepool[tp[k]] \in Node
    BY <2>3, HereTyped
  <2>6. nodepool[tp[k]].relname \in Nat
    BY <2>3, <2>5 DEF Node
  <2>. QED BY <2>3, <2>4, <2>6
<1>6. AreTables(tables, xs)
  BY <1>3, <1>4, <1>5 DEF AreTables
<1>. QED BY <1>2, <1>6

\* The node v of d is the attribute x of the query st, under the name of its
\* relation.
IsMeant(st, d, v, x) ==
    /\ v \in DOMAIN d.nodes /\ d.nodes[v].kind = "N_QUALATTR"
    /\ d.nodes[v].relname \in DOMAIN d.chars
    /\ d.chars[d.nodes[v].relname] \in Meaning(st, x.rel)
    /\ IsName(d.chars, d.nodes[v].attrname, x.attr)

IsMeantList(st, d, l, ap) ==
    /\ l \in DOMAIN d.nodes /\ ListAt(d.nodes, l, ap) /\ ap \in Seq(Nat)
    /\ Len(ap) = Len(st.attrs)
    /\ \A k \in 1 .. Len(st.attrs) : IsMeant(st, d, ap[k], st.attrs[k])

IsMeantWhere(st, d, v, w) ==
    CASE w.kind = "NONE"  -> v = Null
      [] w.kind = "VALUE" ->
           /\ v \in DOMAIN d.nodes /\ d.nodes[v].kind = "N_SELECT" /\ d.nodes[v].op = w.op
           /\ IsMeant(st, d, d.nodes[v].selattr, w.attr)
           /\ IsLiteral(d, d.nodes[v].value, w.value)
      [] w.kind = "ATTR"  ->
           /\ v \in DOMAIN d.nodes /\ d.nodes[v].kind = "N_JOIN" /\ d.nodes[v].op = w.op
           /\ IsMeant(st, d, d.nodes[v].joinattr1, w.attr)
           /\ IsMeant(st, d, d.nodes[v].joinattr2, w.attr2)

IsQueryTree(st, d) ==
    LET n == d.nodes[Len(d.nodes)]
    IN  /\ n.kind = "N_QUERY" /\ IsName(d.chars, n.relname, st.into)
        /\ \E ap : IsMeantList(st, d, n.attrlist, ap)
        /\ n.qual \in Nat /\ IsMeantWhere(st, d, n.qual, st.where)

LEMMA StatementParts ==
    ASSUME NEW st \in Statement
    PROVE  /\ st.kind = "SELECT" => /\ st.attrs \in List(Qualattr) /\ st.into \in OptStr
                                    /\ st.tables \in List(Table) /\ st.where \in Where
           /\ st.kind = "INSERT" => /\ st.rel \in Str /\ st.attrs \in List(Str)
                                    /\ st.values \in List(Literal)
           /\ st.kind = "DELETE" => st.rel \in Str /\ st.where \in Where
           /\ st.kind = "CREATE" => st.rel \in Str /\ st.attrs \in List(Attrtype)
BY DEF Statement

\* The attributes of the result are replaced.
LEMMA AttrsReplaced ==
    ASSUME Here \in Place, NEW st \in Statement, st.kind = "SELECT",
           NEW a, NEW r, NEW t, NEW w, NEW ap, NEW tp, QueryReadAt(st, a, r, t, w, ap, tp)
    PROVE  LET list == replace_alias_in_qualattr_list(nodepool, t, a)
           IN  /\ AreQualattrs(nodepool, ap) /\ DOMAIN ap = DOMAIN st.attrs
               /\ IsReplaced(list, nodepool, ap, st, st.attrs) /\ SameShape(list.pool)
<1>1. st.attrs \in List(Qualattr) /\ st.tables \in List(Table)
  BY StatementParts
<1>2. /\ a \in Nat /\ t \in Nat /\ IsList(Here, a, ap, st.attrs, Qualattrs)
      /\ IsList(Here, t, tp, st.tables, Tables)
  BY DEF QueryReadAt
<1>3. SameShape(nodepool)
  BY ShapeItself
<1>4. st.attrs \in Seq(Qualattr) /\ st.attrs # <<>>
  BY <1>1 DEF List
<1>5. Elements(nodepool, a) = ap /\ ap \in Seq(Nat) /\ DOMAIN ap = DOMAIN st.attrs
  BY <1>2, <1>3, <1>4, ListsOfShape
<1>6. ASSUME NEW k \in DOMAIN ap
      PROVE  /\ ap[k] \in DOMAIN nodepool /\ nodepool[ap[k]].kind = "N_QUALATTR"
             /\ st.attrs[k] \in Qualattr
             /\ IsName(charpool, nodepool[ap[k]].relname, st.attrs[k].rel)
  <2>1. k \in 1 .. Len(st.attrs)
    BY <1>4, <1>5
  <2>2. <<Here, ap[k], st.attrs[k]>> \in Qualattrs
    BY <1>2, <2>1 DEF IsList, AreElements
  <2>3. IsQualattr(Here, ap[k], st.attrs[k])
    BY <2>2 DEF Qualattrs
  <2>. QED BY <1>4, <2>1, <2>3 DEF IsQualattr, Here
<1>7. nodepool \in Seq(Node) /\ charpool \in Seq(Str)
  BY HereTyped
<1>8. Replaceable(nodepool, t, ap, st, st.attrs)
  BY <1>1, <1>2, <1>3, <1>5, <1>6, <1>7, TablesOfShape DEF Replaceable
<1>9. AreQualattrs(nodepool, ap)
  BY <1>5, <1>6 DEF AreQualattrs
<1>10. PICK list : list = Replaced(nodepool, t, ap)
  OBVIOUS
<1>11. IsReplaced(list, nodepool, ap, st, st.attrs)
  BY <1>8, <1>10, ReplacedMeans
<1>12. SameShape(list.pool)
  BY <1>3, <1>9, <1>11, ShapeKept DEF IsReplaced
<1>13. replace_alias_in_qualattr_list(nodepool, t, a) = list
  BY <1>5, <1>10 DEF replace_alias_in_qualattr_list
<1>. QED BY <1>5, <1>9, <1>11, <1>12, <1>13

\* The attributes of the condition at w.
ConditionPointers(pool, w) == IF w = Null THEN <<>> ELSE ConditionAttrs(pool[w])

\* They follow the table list t, and are the attributes of the condition x.
AreConditionAttrs(t, attrs, x) ==
    /\ attrs \in Seq(Nat) /\ DOMAIN attrs = DOMAIN WhereAttrs(x)
    /\ \A k \in DOMAIN attrs : t < attrs[k] /\ IsQualattr(Here, attrs[k], WhereAttrs(x)[k])
    /\ \A k \in DOMAIN attrs : WhereAttrs(x)[k] \in Qualattr

LEMMA WherePointers ==
    ASSUME Here \in Place, NEW x \in Where, NEW t \in Nat, NEW w, IsWhere(Here, t, w, x),
           NEW pool, SameShape(pool)
    PROVE  AreConditionAttrs(t, ConditionPointers(pool, w), x)
<1>1. CASE x.kind = "NONE"
  <2>1. w = Null /\ WhereAttrs(x) = <<>>
    BY <1>1 DEF IsWhere, WhereAttrs
  <2>2. ConditionPointers(pool, w) = <<>>
    BY <2>1 DEF ConditionPointers
  <2>. QED BY <2>1, <2>2 DEF AreConditionAttrs
<1>2. CASE x.kind \in {"VALUE", "ATTR"}
  <2>1. /\ w \in DOMAIN nodepool
        /\ nodepool[w].kind = IF x.kind = "VALUE" THEN "N_SELECT" ELSE "N_JOIN"
    BY <1>2 DEF IsWhere, Here
  <2>2. w # Null /\ pool[w] = nodepool[w] /\ nodepool[w] \in Node
    BY <2>1, HereTyped DEF Null, SameShape
  <2>3. CASE x.kind = "VALUE"
    <3>1. PICK v : v = nodepool[w].selattr
      OBVIOUS
    <3>2. ConditionPointers(pool, w) = <<v>> /\ WhereAttrs(x) = <<x.attr>>
      BY <2>1, <2>2, <2>3, <3>1 DEF ConditionPointers, ConditionAttrs, WhereAttrs
    <3>3. t < v /\ IsQualattr(Here, v, x.attr)
      BY <2>3, <3>1 DEF IsWhere, Here
    <3>4. v \in Nat
      BY <3>3, HereTyped DEF IsQualattr, Here
    <3>5. x.attr \in Qualattr
      BY <2>3, WhereCases
    <3>. QED BY <3>2, <3>3, <3>4, <3>5 DEF AreConditionAttrs
  <2>4. CASE x.kind = "ATTR"
    <3>1. PICK v : v = nodepool[w].joinattr1
      OBVIOUS
    <3>2. PICK u : u = nodepool[w].joinattr2
      OBVIOUS
    <3>3. ConditionPointers(pool, w) = <<v, u>> /\ WhereAttrs(x) = <<x.attr, x.attr2>>
      BY <2>1, <2>2, <2>4, <3>1, <3>2 DEF ConditionPointers, ConditionAttrs, WhereAttrs
    <3>4. t < v /\ v < u /\ IsQualattr(Here, v, x.attr) /\ IsQualattr(Here, u, x.attr2)
      BY <2>4, <3>1, <3>2 DEF IsWhere, Here
    <3>5. v \in Nat /\ u \in Nat
      BY <3>4, HereTyped DEF IsQualattr, Here
    <3>6. t < u
      BY <3>4, <3>5
    <3>7. x.attr \in Qualattr /\ x.attr2 \in Qualattr
      BY <2>4, WhereCases
    <3>. QED BY <3>3, <3>4, <3>5, <3>6, <3>7 DEF AreConditionAttrs
  <2>. QED BY <1>2, <2>3, <2>4
<1>. QED BY <1>1, <1>2, WhereCases

\* Then those of the condition.  None of them has changed before.
LEMMA ConditionReplaced ==
    ASSUME Here \in Place, NEW st \in Statement, st.kind = "SELECT",
           NEW a, NEW r, NEW t, NEW w, NEW ap, NEW tp, QueryReadAt(st, a, r, t, w, ap, tp),
           NEW pool, SameShape(pool), AreQualattrs(nodepool, ap), Rewritten(nodepool, ap, pool)
    PROVE  LET cond == replace_alias_in_condition(pool, t, w)
               attrs == ConditionPointers(pool, w)
           IN  /\ AreConditionAttrs(t, attrs, st.where) /\ AreQualattrs(pool, attrs)
               /\ IsReplaced(cond, pool, attrs, st, WhereAttrs(st.where)) /\ SameShape(cond.pool)
<1>1. st.where \in Where /\ st.tables \in List(Table)
  BY StatementParts
<1>2. /\ a \in Nat /\ t \in Nat /\ a < t /\ IsList(Here, a, ap, st.attrs, Qualattrs)
      /\ IsList(Here, t, tp, st.tables, Tables) /\ IsWhere(Here, t, w, st.where)
  BY DEF QueryReadAt
<1>3. PICK attrs : attrs = ConditionPointers(pool, w)
  OBVIOUS
<1>4. PICK xs : xs = WhereAttrs(st.where)
  OBVIOUS
<1>5. AreConditionAttrs(t, attrs, st.where)
  BY <1>1, <1>2, <1>3, WherePointers
<1>6. ASSUME NEW k \in DOMAIN attrs
      PROVE  /\ attrs[k] \in DOMAIN pool /\ pool[attrs[k]].kind = "N_QUALATTR"
             /\ xs[k] \in Qualattr /\ IsName(charpool, pool[attrs[k]].relname, xs[k].rel)
  <2>1. t < attrs[k] /\ IsQualattr(Here, attrs[k], xs[k]) /\ xs[k] \in Qualattr /\ attrs[k] \in Nat
    BY <1>4, <1>5 DEF AreConditionAttrs
  <2>2. /\ attrs[k] \in DOMAIN nodepool /\ nodepool[attrs[k]].kind = "N_QUALATTR"
        /\ IsName(charpool, nodepool[attrs[k]].relname, xs[k].rel)
    BY <2>1 DEF IsQualattr, Here
  <2>3. \A j \in DOMAIN ap : ap[j] # attrs[k]
    <3>. TAKE j \in DOMAIN ap
    <3>1. ap[j] < a /\ ap[j] \in Nat
      <4>1. Len(ap) = Len(st.attrs) /\ ap \in Seq(Nat)
        BY <1>2 DEF IsList, AreElements
      <4>2. j \in 1 .. Len(st.attrs)
        BY <4>1
      <4>. QED BY <1>2, <4>1, <4>2 DEF IsList
    <3>2. a < attrs[k]
      BY <1>2, <2>1
    <3>3. ap[j] < attrs[k]
      BY <1>2, <2>1, <3>1, <3>2
    <3>. QED BY <2>1, <3>1, <3>3
  <2>4. pool[attrs[k]] = nodepool[attrs[k]]
    BY <2>2, <2>3 DEF Rewritten
  <2>. QED BY <2>1, <2>2, <2>4 DEF SameShape
<1>7. attrs \in Seq(Nat) /\ DOMAIN attrs = DOMAIN xs
  BY <1>4, <1>5 DEF AreConditionAttrs
<1>8. AreQualattrs(pool, attrs)
  BY <1>6, <1>7 DEF AreQualattrs
<1>9. pool \in Seq(Node) /\ charpool \in Seq(Str)
  BY HereTyped DEF SameShape
<1>10. Replaceable(pool, t, attrs, st, xs)
  BY <1>1, <1>2, <1>6, <1>7, <1>9, TablesOfShape DEF Replaceable
<1>11. PICK cond : cond = Replaced(pool, t, attrs)
  OBVIOUS
<1>12. IsReplaced(cond, pool, attrs, st, xs)
  BY <1>10, <1>11, ReplacedMeans
<1>13. SameShape(cond.pool)
  BY <1>8, <1>12, ShapeKept DEF IsReplaced
<1>14. replace_alias_in_condition(pool, t, w) = cond
  BY <1>3, <1>11 DEF replace_alias_in_condition, ConditionPointers
<1>. QED BY <1>3, <1>4, <1>5, <1>8, <1>12, <1>13, <1>14

\* All attributes of a query.
LEMMA AllAttrs ==
    ASSUME NEW st \in Statement, st.kind = "SELECT"
    PROVE  /\ st.attrs \in Seq(Qualattr) /\ WhereAttrs(st.where) \in Seq(Qualattr)
           /\ \A k \in DOMAIN st.attrs : st.attrs[k] \in Range(st.attrs \o WhereAttrs(st.where))
           /\ \A k \in DOMAIN WhereAttrs(st.where) :
                WhereAttrs(st.where)[k] \in Range(st.attrs \o WhereAttrs(st.where))
<1>1. st.attrs \in Seq(Qualattr)
  BY StatementParts DEF List
<1>2. PICK ws : ws = WhereAttrs(st.where)
  OBVIOUS
<1>3. ws \in Seq(Qualattr)
  <2>1. st.where \in Where
    BY StatementParts
  <2>2. \A x \in Qualattr : <<x>> \in Seq(Qualattr) /\ \A y \in Qualattr : <<x, y>> \in Seq(Qualattr)
    OBVIOUS
  <2>3. <<>> \in Seq(Qualattr)
    OBVIOUS
  <2>. QED BY <1>2, <2>1, <2>2, <2>3, WhereCases DEF WhereAttrs
<1>4. PICK as \in Seq(Qualattr) : as = st.attrs
  BY <1>1
<1>5. PICK all : all = as \o ws
  OBVIOUS
<1>6. \A u, v \in Seq(Qualattr) :
         /\ \A k \in DOMAIN u : k \in DOMAIN (u \o v) /\ (u \o v)[k] = u[k]
         /\ \A k \in DOMAIN v : Len(u) + k \in DOMAIN (u \o v) /\ (u \o v)[Len(u) + k] = v[k]
  OBVIOUS
<1>7. \A k \in DOMAIN as : k \in DOMAIN all /\ all[k] = as[k]
  BY <1>3, <1>5, <1>6
<1>8. \A k \in DOMAIN ws : Len(as) + k \in DOMAIN all /\ all[Len(as) + k] = ws[k]
  BY <1>3, <1>5, <1>6
<1>. QED BY <1>1, <1>2, <1>3, <1>4, <1>5, <1>7, <1>8 DEF Range

\* Attributes are refused only if one stands for no relation.
LEMMA NotReplaced ==
    ASSUME NEW st \in Statement, st.kind = "SELECT", NEW xs,
           xs = st.attrs \/ xs = WhereAttrs(st.where), NEW list, NEW pool, NEW attrs,
           DOMAIN attrs = DOMAIN xs, IsReplaced(list, pool, attrs, st, xs), ~list.ok
    PROVE  MayRefuse(st)
<1>1. PICK k \in DOMAIN xs : Meaning(st, xs[k].rel) = {}
  BY DEF IsReplaced
<1>2. xs[k] \in Range(st.attrs \o WhereAttrs(st.where))
  BY AllAttrs
<1>. QED BY <1>1, <1>2 DEF MayRefuse

\* The tree that is built on the pool that the rewriting leaves.
TreeOn(d, pool, node) ==
    /\ d \in Place /\ d.chars = charpool /\ Len(d.nodes) = Len(pool) + 1
    /\ d.nodes[Len(d.nodes)] = node /\ \A i \in DOMAIN pool : i \in DOMAIN d.nodes /\ d.nodes[i] = pool[i]

LEMMA QueryTreeMade ==
    ASSUME Here \in Place, NEW st \in Statement, st.kind = "SELECT",
           NEW a, NEW r, NEW t, NEW w, NEW ap, NEW tp, QueryReadAt(st, a, r, t, w, ap, tp),
           NEW pool, NEW attrs, NEW new, AreQualattrs(nodepool, ap), SameShape(pool),
           Rewritten(nodepool, ap, pool), NamesMeant(pool, ap, st, st.attrs),
           AreConditionAttrs(t, attrs, st.where), attrs = ConditionPointers(pool, w),
           AreQualattrs(pool, attrs), SameShape(new), Rewritten(pool, attrs, new),
           NamesMeant(new, attrs, st, WhereAttrs(st.where)),
           NEW d, TreeOn(d, new, query_node(r, a, w))
    PROVE  IsQueryTree(st, d)
<1>1. /\ a \in Nat /\ r \in Nat /\ t \in Nat /\ w \in Nat /\ a < t
      /\ IsList(Here, a, ap, st.attrs, Qualattrs) /\ IsName(charpool, r, st.into)
      /\ IsWhere(Here, t, w, st.where)
  BY DEF QueryReadAt
<1>2. st.attrs \in Seq(Qualattr) /\ st.attrs # <<>> /\ st.where \in Where
  BY StatementParts DEF List
<1>3. /\ d.chars = charpool /\ DOMAIN new = DOMAIN nodepool
      /\ \A i \in DOMAIN nodepool : i \in DOMAIN d.nodes /\ d.nodes[i] = new[i]
  BY DEF TreeOn, SameShape
<1>4. ListAt(new, a, ap) /\ ap \in Seq(Nat) /\ Len(ap) = Len(st.attrs) /\ DOMAIN ap = DOMAIN st.attrs
  BY <1>1, <1>2, ListsOfShape
<1>5. ASSUME NEW k \in DOMAIN ap
      PROVE  IsMeant(st, d, ap[k], st.attrs[k])
  <2>1. k \in 1 .. Len(st.attrs)
    BY <1>2, <1>4
  <2>2. IsQualattr(Here, ap[k], st.attrs[k]) /\ ap[k] < a
    BY <1>1, <2>1 DEF IsList, AreElements, Qualattrs
  <2>3. /\ ap[k] \in DOMAIN nodepool
        /\ IsName(charpool, nodepool[ap[k]].attrname, st.attrs[k].attr)
    BY <2>2 DEF IsQualattr, Here
  <2>4. /\ pool[ap[k]].kind = "N_QUALATTR"
        /\ pool[ap[k]].attrname = nodepool[ap[k]].attrname
        /\ pool[ap[k]].relname \in DOMAIN charpool
        /\ charpool[pool[ap[k]].relname] \in Meaning(st, st.attrs[k].rel)
    BY DEF Rewritten, NamesMeant
  <2>5. \A j \in DOMAIN attrs : attrs[j] # ap[k]
    <3>. TAKE j \in DOMAIN attrs
    <3>1. t < attrs[j] /\ attrs[j] \in Nat
      BY DEF AreConditionAttrs
    <3>2. ap[k] \in Nat /\ ap[k] < a
      BY <1>4, <2>2
    <3>3. ap[k] < attrs[j]
      BY <1>1, <3>1, <3>2
    <3>. QED BY <3>1, <3>2, <3>3
  <2>6. ap[k] \in DOMAIN pool
    BY <2>3 DEF SameShape
  <2>7. new[ap[k]] = pool[ap[k]]
    BY <2>5, <2>6 DEF Rewritten
  <2>8. ap[k] \in DOMAIN d.nodes /\ d.nodes[ap[k]] = pool[ap[k]]
    BY <1>3, <2>3, <2>7
  <2>. QED BY <1>3, <2>3, <2>4, <2>8 DEF IsMeant
<1>6. ASSUME NEW k \in DOMAIN attrs
      PROVE  IsMeant(st, d, attrs[k], WhereAttrs(st.where)[k])
  <2>1. IsQualattr(Here, attrs[k], WhereAttrs(st.where)[k])
    BY DEF AreConditionAttrs
  <2>2. /\ attrs[k] \in DOMAIN nodepool
        /\ IsName(charpool, nodepool[attrs[k]].attrname, WhereAttrs(st.where)[k].attr)
    BY <2>1 DEF IsQualattr, Here
  <2>3. \A j \in DOMAIN ap : ap[j] # attrs[k]
    <3>. TAKE j \in DOMAIN ap
    <3>1. t < attrs[k] /\ attrs[k] \in Nat
      BY DEF AreConditionAttrs
    <3>2. j \in 1 .. Len(st.attrs)
      BY <1>2, <1>4
    <3>3. ap[j] \in Nat /\ ap[j] < a
      BY <1>1, <1>4, <3>2 DEF IsList
    <3>4. ap[j] < attrs[k]
      BY <1>1, <3>1, <3>3
    <3>. QED BY <3>1, <3>3, <3>4
  <2>4. pool[attrs[k]] = nodepool[attrs[k]]
    BY <2>2, <2>3 DEF Rewritten
  <2>5. /\ new[attrs[k]].kind = "N_QUALATTR"
        /\ new[attrs[k]].attrname = pool[attrs[k]].attrname
        /\ new[attrs[k]].relname \in DOMAIN charpool
        /\ charpool[new[attrs[k]].relname] \in Meaning(st, WhereAttrs(st.where)[k].rel)
    BY DEF Rewritten, NamesMeant
  <2>6. attrs[k] \in DOMAIN d.nodes /\ d.nodes[attrs[k]] = new[attrs[k]]
    BY <1>3, <2>2
  <2>. QED BY <1>3, <2>2, <2>4, <2>5, <2>6 DEF IsMeant
<1>7. IsMeantList(st, d, a, ap)
  <2>1. a \in DOMAIN d.nodes
    BY <1>1, <1>3 DEF IsList, Here
  <2>2. ListAt(d.nodes, a, ap)
    BY <1>3, <1>4 DEF ListAt
  <2>. QED BY <1>2, <1>4, <1>5, <2>1, <2>2 DEF IsMeantList
<1>8. IsMeantWhere(st, d, w, st.where)
  <2>1. CASE st.where.kind = "NONE"
    BY <1>1, <2>1 DEF IsWhere, IsMeantWhere
  <2>2. CASE st.where.kind = "VALUE"
    <3>1. /\ w \in DOMAIN nodepool /\ nodepool[w].kind = "N_SELECT"
          /\ nodepool[w].op = st.where.op /\ IsLiteral(Here, nodepool[w].value, st.where.value)
      BY <1>1, <2>2 DEF IsWhere, Here
    <3>2. w # Null /\ pool[w] = nodepool[w] /\ new[w] = nodepool[w]
      BY <3>1, HereTyped DEF SameShape, Null
    <3>3. attrs = <<nodepool[w].selattr>> /\ WhereAttrs(st.where) = <<st.where.attr>>
      BY <2>2, <3>1, <3>2 DEF ConditionPointers, ConditionAttrs, WhereAttrs
    <3>4. IsMeant(st, d, nodepool[w].selattr, st.where.attr)
      BY <1>6, <3>3
    <3>5. w \in DOMAIN d.nodes /\ d.nodes[w] = nodepool[w]
      BY <1>3, <3>1, <3>2
    <3>6. IsLiteral(d, nodepool[w].value, st.where.value)
      <4>1. /\ nodepool[w].value \in DOMAIN nodepool
            /\ nodepool[nodepool[w].value].kind = "N_VALUE"
        BY <3>1 DEF IsLiteral, Here
      <4>2. new[nodepool[w].value] = nodepool[nodepool[w].value]
        BY <4>1 DEF SameShape
      <4>. QED BY <1>3, <3>1, <4>1, <4>2 DEF IsLiteral, Here
    <3>. QED BY <2>2, <3>1, <3>4, <3>5, <3>6 DEF IsMeantWhere
  <2>3. CASE st.where.kind = "ATTR"
    <3>1. w \in DOMAIN nodepool /\ nodepool[w].kind = "N_JOIN" /\ nodepool[w].op = st.where.op
      BY <1>1, <2>3 DEF IsWhere, Here
    <3>2. w # Null /\ pool[w] = nodepool[w] /\ new[w] = nodepool[w]
      BY <3>1, HereTyped DEF SameShape, Null
    <3>3. /\ attrs = <<nodepool[w].joinattr1, nodepool[w].joinattr2>>
          /\ WhereAttrs(st.where) = <<st.where.attr, st.where.attr2>>
      BY <2>3, <3>1, <3>2 DEF ConditionPointers, ConditionAttrs, WhereAttrs
    <3>4. /\ IsMeant(st, d, nodepool[w].joinattr1, st.where.attr)
          /\ IsMeant(st, d, nodepool[w].joinattr2, st.where.attr2)
      BY <1>6, <3>3
    <3>5. w \in DOMAIN d.nodes /\ d.nodes[w] = nodepool[w]
      BY <1>3, <3>1, <3>2
    <3>. QED BY <2>3, <3>1, <3>4, <3>5 DEF IsMeantWhere
  <2>. QED BY <1>2, <2>1, <2>2, <2>3, WhereCases
<1>9. d.nodes[Len(d.nodes)] = query_node(r, a, w)
  BY DEF TreeOn
<1>. QED BY <1>1, <1>3, <1>7, <1>8, <1>9 DEF IsQueryTree, query_node

\* What the production query does: the tree of the query, or a reason for none.
QueryOutcome(st, list, cond, node) ==
    /\ SameShape(list.pool) /\ SameShape(cond.pool)
    /\ ~list.ok \/ ~cond.ok => MayRefuse(st)
    /\ list.ok /\ cond.ok => \A d : TreeOn(d, cond.pool, node) => IsQueryTree(st, d)

LEMMA QueryReduced ==
    ASSUME Here \in Place, NEW st \in Statement, st.kind = "SELECT",
           NEW a, NEW r, NEW t, NEW w, NEW ap, NEW tp, QueryReadAt(st, a, r, t, w, ap, tp)
    PROVE  LET list == replace_alias_in_qualattr_list(nodepool, t, a)
               cond == replace_alias_in_condition(list.pool, t, w)
           IN  QueryOutcome(st, list, cond, query_node(r, a, w))
<1>1. PICK list : list = replace_alias_in_qualattr_list(nodepool, t, a)
  OBVIOUS
<1>2. PICK cond : cond = replace_alias_in_condition(list.pool, t, w)
  OBVIOUS
<1>3. /\ AreQualattrs(nodepool, ap) /\ DOMAIN ap = DOMAIN st.attrs
      /\ IsReplaced(list, nodepool, ap, st, st.attrs) /\ SameShape(list.pool)
  BY <1>1, AttrsReplaced
<1>4. Rewritten(nodepool, ap, list.pool)
  BY <1>3 DEF IsReplaced
<1>5. PICK attrs : attrs = ConditionPointers(list.pool, w)
  OBVIOUS
<1>6. /\ AreConditionAttrs(t, attrs, st.where) /\ AreQualattrs(list.pool, attrs)
      /\ IsReplaced(cond, list.pool, attrs, st, WhereAttrs(st.where)) /\ SameShape(cond.pool)
  BY <1>2, <1>3, <1>4, <1>5, ConditionReplaced
<1>7. DOMAIN attrs = DOMAIN WhereAttrs(st.where)
  BY <1>6 DEF AreConditionAttrs
<1>8. ~list.ok \/ ~cond.ok => MayRefuse(st)
  BY <1>3, <1>6, <1>7, NotReplaced
<1>9. ASSUME list.ok, cond.ok, NEW d, TreeOn(d, cond.pool, query_node(r, a, w))
      PROVE  IsQueryTree(st, d)
  <2>1. NamesMeant(list.pool, ap, st, st.attrs)
    BY <1>3, <1>9 DEF IsReplaced
  <2>2. /\ Rewritten(list.pool, attrs, cond.pool)
        /\ NamesMeant(cond.pool, attrs, st, WhereAttrs(st.where))
    BY <1>6, <1>9 DEF IsReplaced
  <2>. QED BY <1>3, <1>4, <1>5, <1>6, <1>9, <2>1, <2>2, QueryTreeMade
<1>10. QueryOutcome(st, list, cond, query_node(r, a, w))
  BY <1>3, <1>6, <1>8, <1>9 DEF QueryOutcome
<1>. QED BY <1>1, <1>2, <1>10

-----------------------------------------------------------------------------
(* The merging of an INSERT (production insert of parse.y).                *)

\* The pairs of attributes and values of st.
IsPairList(st, d, l, ap) ==
    /\ l \in DOMAIN d.nodes /\ ListAt(d.nodes, l, ap) /\ ap \in Seq(Nat)
    /\ Len(ap) = Len(st.attrs)
    /\ \A k \in 1 .. Len(st.attrs) :
         /\ ap[k] \in DOMAIN d.nodes /\ d.nodes[ap[k]].kind = "N_ATTRVAL"
         /\ IsName(d.chars, d.nodes[ap[k]].attrname, st.attrs[k])
         /\ IsLiteral(d, d.nodes[ap[k]].value, st.values[k])

IsInsertTree(st, d) ==
    LET n == d.nodes[Len(d.nodes)]
    IN  /\ n.kind = "N_INSERT" /\ IsName(d.chars, n.relname, st.rel)
        /\ Len(st.attrs) = Len(st.values)
        /\ \E ap : IsPairList(st, d, n.attrlist, ap)

LEMMA AttrvalNode ==
    ASSUME NEW n \in Node, n.kind = "N_ATTRVAL", NEW v \in Nat
    PROVE  /\ [n EXCEPT !.value = v] \in Node /\ [n EXCEPT !.value = v].kind = "N_ATTRVAL"
           /\ [n EXCEPT !.value = v].value = v
           /\ [n EXCEPT !.value = v].attrname = n.attrname
<1>1. n \in [kind : {"N_ATTRVAL"}, attrname : Nat, value : Nat]
  BY DEF Node
<1>2. [n EXCEPT !.value = v] \in [kind : {"N_ATTRVAL"}, attrname : Nat, value : Nat]
  BY <1>1
<1>3. [n EXCEPT !.value = v] \in Node
  BY <1>2 DEF Node
<1>. QED BY <1>1, <1>3

\* Only values of the nodes ap have changed: those they have in common with vp.
Merged(ap, vp, new) ==
    /\ new \in Seq(Node) /\ Linked(new) /\ Len(new) = Len(nodepool)
    /\ DOMAIN new = DOMAIN nodepool
    /\ \A i \in DOMAIN nodepool : nodepool[i].kind # "N_ATTRVAL" => new[i] = nodepool[i]
    /\ \A k \in DOMAIN ap \cap DOMAIN vp : /\ new[ap[k]].kind = "N_ATTRVAL"
                                          /\ new[ap[k]].attrname = nodepool[ap[k]].attrname
                                          /\ new[ap[k]].value = vp[k]

\* Where the parts of an INSERT are.
InsertReadAt(st, r, a, v, ap, vp) ==
    /\ r \in Nat /\ a \in Nat /\ v \in Nat
    /\ IsName(charpool, r, st.rel) /\ IsList(Here, a, ap, st.attrs, Attribs)
    /\ IsList(Here, v, vp, st.values, Literals)

LEMMA InsertLists ==
    ASSUME Here \in Place, NEW st \in Statement, st.kind = "INSERT",
           NEW r, NEW a, NEW v, NEW ap, NEW vp, InsertReadAt(st, r, a, v, ap, vp)
    PROVE  /\ ap \in Seq(Nat) /\ vp \in Seq(Nat)
           /\ Elements(nodepool, a) = ap /\ Elements(nodepool, v) = vp
           /\ Len(ap) = Len(st.attrs) /\ Len(vp) = Len(st.values)
           /\ DOMAIN ap = 1 .. Len(st.attrs) /\ DOMAIN vp = 1 .. Len(st.values)
           /\ \A k \in DOMAIN ap : IsAttrib(Here, ap[k], st.attrs[k])
           /\ \A k \in DOMAIN vp : IsLiteral(Here, vp[k], st.values[k])
           /\ \A j, k \in DOMAIN ap : ap[j] = ap[k] => j = k
           /\ a \in DOMAIN nodepool /\ ListAt(nodepool, a, ap)
<1>1. /\ IsList(Here, a, ap, st.attrs, Attribs) /\ IsList(Here, v, vp, st.values, Literals)
      /\ a \in Nat /\ v \in Nat
  BY DEF InsertReadAt
<1>2. st.attrs \in Seq(Str) \ {<<>>} /\ st.values \in Seq(Literal) \ {<<>>}
  BY StatementParts DEF List
<1>3. /\ ap \in Seq(Nat) /\ vp \in Seq(Nat) /\ ListAt(nodepool, a, ap) /\ ListAt(nodepool, v, vp)
      /\ Len(ap) = Len(st.attrs) /\ Len(vp) = Len(st.values) /\ a \in DOMAIN nodepool
  BY <1>1 DEF IsList, AreElements, Here
<1>4. ap # <<>> /\ vp # <<>> /\ DOMAIN ap = 1 .. Len(st.attrs) /\ DOMAIN vp = 1 .. Len(st.values)
  BY <1>2, <1>3
<1>5. Elements(nodepool, a) = ap /\ Elements(nodepool, v) = vp
  BY <1>1, <1>3, <1>4, ElementsAre, HereTyped
<1>6. \A k \in DOMAIN ap : IsAttrib(Here, ap[k], st.attrs[k])
  BY <1>1, <1>4 DEF IsList, AreElements, Attribs
<1>7. \A k \in DOMAIN vp : IsLiteral(Here, vp[k], st.values[k])
  BY <1>1, <1>4 DEF IsList, AreElements, Literals
<1>8. ASSUME NEW j \in DOMAIN ap, NEW k \in DOMAIN ap, ap[j] = ap[k] PROVE j = k
  <2>1. ap[j] \in Nat /\ j \in Nat /\ k \in Nat
    BY <1>3
  <2>2. j < k => ap[j] < ap[k]
    BY <1>1, <1>4 DEF IsList, AreElements
  <2>3. k < j => ap[k] < ap[j]
    BY <1>1, <1>4 DEF IsList, AreElements
  <2>. QED BY <1>8, <2>1, <2>2, <2>3
<1>. QED BY <1>3, <1>4, <1>5, <1>6, <1>7, <1>8

LEMMA ListsMerged ==
    ASSUME Here \in Place, NEW st \in Statement, st.kind = "INSERT",
           NEW r, NEW a, NEW v, NEW ap, NEW vp, InsertReadAt(st, r, a, v, ap, vp)
    PROVE  LET tmp == merge_attr_value_list(a, v)
           IN  /\ Merged(ap, vp, tmp.pool)
               /\ tmp.list = IF Len(ap) = Len(vp) THEN a ELSE Null
<1>. DEFINE K(i) == {k \in DOMAIN ap \cap DOMAIN vp : ap[k] = i}
            new == [i \in DOMAIN nodepool |->
                       IF K(i) = {} THEN nodepool[i]
                       ELSE [nodepool[i] EXCEPT !.value = vp[CHOOSE k \in K(i) : TRUE]]]
<1>1. /\ ap \in Seq(Nat) /\ vp \in Seq(Nat)
      /\ Elements(nodepool, a) = ap /\ Elements(nodepool, v) = vp
      /\ \A k \in DOMAIN ap : IsAttrib(Here, ap[k], st.attrs[k])
      /\ \A j, k \in DOMAIN ap : ap[j] = ap[k] => j = k
  BY InsertLists
<1>2. /\ merge_attr_value_list(a, v).pool = new
      /\ merge_attr_value_list(a, v).list = IF Len(ap) = Len(vp) THEN a ELSE Null
  BY <1>1 DEF merge_attr_value_list, SameLength
<1>3. nodepool \in Seq(Node) /\ Linked(nodepool)
  BY HereTyped
<1>4. \A k \in DOMAIN ap : ap[k] \in DOMAIN nodepool /\ nodepool[ap[k]].kind = "N_ATTRVAL"
  BY <1>1 DEF IsAttrib, Here
<1>5. ASSUME NEW i \in DOMAIN nodepool
      PROVE  /\ K(i) = {} => new[i] = nodepool[i]
             /\ \A k \in K(i) : /\ new[i] = [nodepool[i] EXCEPT !.value = vp[k]]
                                /\ k \in DOMAIN ap /\ ap[k] = i /\ vp[k] \in Nat
  <2>1. new[i] = IF K(i) = {} THEN nodepool[i]
                 ELSE [nodepool[i] EXCEPT !.value = vp[CHOOSE k \in K(i) : TRUE]]
    OBVIOUS
  <2>2. ASSUME NEW k \in K(i)
        PROVE  /\ (CHOOSE j \in K(i) : TRUE) = k /\ k \in DOMAIN ap /\ ap[k] = i /\ vp[k] \in Nat
    <3>1. k \in DOMAIN ap /\ k \in DOMAIN vp /\ ap[k] = i
      OBVIOUS
    <3>2. \A j \in K(i) : j = k
      BY <1>1, <3>1
    <3>. HIDE DEF K, new
    <3>. QED BY <1>1, <3>1, <3>2
  <2>. HIDE DEF K, new
  <2>. QED BY <2>1, <2>2
<1>6. DOMAIN new = DOMAIN nodepool
  OBVIOUS
<1>7. \A k \in DOMAIN ap \cap DOMAIN vp : k \in K(ap[k])
  OBVIOUS
<1>. HIDE DEF K, new
<1>8. ASSUME NEW i \in DOMAIN nodepool
      PROVE  /\ new[i] \in Node /\ new[i].kind = nodepool[i].kind
             /\ nodepool[i].kind # "N_ATTRVAL" => new[i] = nodepool[i]
  <2>1. nodepool[i] \in Node
    BY <1>3
  <2>2. CASE K(i) = {}
    BY <1>5, <2>1, <2>2
  <2>3. CASE K(i) # {}
    <3>1. PICK k \in K(i) : TRUE
      BY <2>3
    <3>2. /\ new[i] = [nodepool[i] EXCEPT !.value = vp[k]] /\ vp[k] \in Nat
          /\ nodepool[i].kind = "N_ATTRVAL"
      BY <1>4, <1>5
    <3>. QED BY <2>1, <3>2, AttrvalNode
  <2>. QED BY <2>2, <2>3
<1>9. new \in Seq(Node) /\ Len(new) = Len(nodepool)
  <2>1. PICK n : n = Len(nodepool)
    OBVIOUS
  <2>2. n \in Nat /\ DOMAIN nodepool = 1 .. n
    BY <1>3, <2>1
  <2>3. new = [i \in 1 .. n |-> new[i]]
    BY <1>6, <2>2 DEF new
  <2>4. new \in [1 .. n -> Node]
    BY <1>8, <2>2, <2>3
  <2>. QED BY <2>1, <2>2, <2>4
<1>10. Linked(new)
  <2>1. Cells(new) = Cells(nodepool)
    BY <1>6, <1>8 DEF Cells
  <2>2. \A i \in Cells(nodepool) : new[i] = nodepool[i]
    BY <1>8 DEF Cells
  <2>. QED BY <1>3, <2>1, <2>2 DEF Linked
<1>11. ASSUME NEW k \in DOMAIN ap \cap DOMAIN vp
       PROVE  /\ new[ap[k]].kind = "N_ATTRVAL" /\ new[ap[k]].value = vp[k]
              /\ new[ap[k]].attrname = nodepool[ap[k]].attrname
  <2>1. PICK i \in DOMAIN nodepool : i = ap[k]
    BY <1>4
  <2>2. new[i] = [nodepool[i] EXCEPT !.value = vp[k]] /\ vp[k] \in Nat
    BY <1>5, <1>7, <2>1
  <2>3. nodepool[i] \in Node /\ nodepool[i].kind = "N_ATTRVAL"
    BY <1>3, <1>4, <2>1
  <2>. QED BY <2>1, <2>2, <2>3, AttrvalNode
<1>12. Merged(ap, vp, new)
  BY <1>6, <1>8, <1>9, <1>10, <1>11 DEF Merged
<1>. QED BY <1>2, <1>12

LEMMA InsertTreeMade ==
    ASSUME Here \in Place, NEW st \in Statement, st.kind = "INSERT",
           NEW r, NEW a, NEW v, NEW ap, NEW vp, InsertReadAt(st, r, a, v, ap, vp), Len(ap) = Len(vp),
           NEW new, Merged(ap, vp, new), NEW d, TreeOn(d, new, insert_node(r, a))
    PROVE  IsInsertTree(st, d)
<1>1. /\ ap \in Seq(Nat) /\ vp \in Seq(Nat) /\ Len(ap) = Len(st.attrs) /\ Len(vp) = Len(st.values)
      /\ DOMAIN ap = 1 .. Len(st.attrs) /\ DOMAIN vp = 1 .. Len(st.values)
      /\ \A k \in DOMAIN ap : IsAttrib(Here, ap[k], st.attrs[k])
      /\ \A k \in DOMAIN vp : IsLiteral(Here, vp[k], st.values[k])
      /\ a \in DOMAIN nodepool /\ ListAt(nodepool, a, ap)
  BY InsertLists
<1>2. DOMAIN ap = DOMAIN vp
  BY <1>1
<1>3. /\ d.chars = charpool
      /\ \A i \in DOMAIN nodepool : /\ i \in DOMAIN d.nodes /\ d.nodes[i] = new[i]
                                    /\ nodepool[i].kind # "N_ATTRVAL" => d.nodes[i] = nodepool[i]
  BY DEF TreeOn, Merged
<1>4. ListAt(d.nodes, a, ap)
  <2>. SUFFICES ASSUME NEW i \in 1 .. Len(ap)
                PROVE  /\ a - i + 1 \in DOMAIN d.nodes
                       /\ d.nodes[a - i + 1] = [kind |-> "N_LIST", self |-> ap[i],
                                                next |-> IF i = Len(ap) THEN Null ELSE a - i]
    BY DEF ListAt
  <2>1. PICK c : c = a - i + 1
    OBVIOUS
  <2>2. c \in DOMAIN nodepool
        /\ nodepool[c] = [kind |-> "N_LIST", self |-> ap[i],
                          next |-> IF i = Len(ap) THEN Null ELSE a - i]
    BY <1>1, <2>1 DEF ListAt
  <2>3. nodepool[c].kind # "N_ATTRVAL"
    BY <2>2
  <2>. QED BY <1>3, <2>1, <2>2, <2>3
<1>5. ASSUME NEW k \in 1 .. Len(st.attrs)
      PROVE  /\ ap[k] \in DOMAIN d.nodes /\ d.nodes[ap[k]].kind = "N_ATTRVAL"
             /\ IsName(d.chars, d.nodes[ap[k]].attrname, st.attrs[k])
             /\ IsLiteral(d, d.nodes[ap[k]].value, st.values[k])
  <2>1. k \in DOMAIN ap /\ k \in DOMAIN vp
    BY <1>1, <1>2
  <2>2. ap[k] \in DOMAIN nodepool /\ IsName(charpool, nodepool[ap[k]].attrname, st.attrs[k])
    BY <1>1, <2>1 DEF IsAttrib, Here
  <2>3. /\ new[ap[k]].kind = "N_ATTRVAL" /\ new[ap[k]].value = vp[k]
        /\ new[ap[k]].attrname = nodepool[ap[k]].attrname
    BY <2>1 DEF Merged
  <2>4. /\ vp[k] \in DOMAIN nodepool /\ nodepool[vp[k]].kind = "N_VALUE"
        /\ IsLiteral(Here, vp[k], st.values[k])
    BY <1>1, <2>1 DEF IsLiteral, Here
  <2>5. vp[k] \in DOMAIN d.nodes /\ d.nodes[vp[k]] = nodepool[vp[k]]
    BY <1>3, <2>4
  <2>6. IsLiteral(d, vp[k], st.values[k])
    BY <1>3, <2>4, <2>5 DEF IsLiteral, Here
  <2>. QED BY <1>3, <2>2, <2>3, <2>6
<1>6. a \in DOMAIN d.nodes
  BY <1>1, <1>3
<1>7. IsPairList(st, d, a, ap)
  BY <1>1, <1>4, <1>5, <1>6 DEF IsPairList
<1>8. IsName(d.chars, r, st.rel) /\ Len(st.attrs) = Len(st.values)
  BY <1>1, <1>3 DEF InsertReadAt
<1>9. d.nodes[Len(d.nodes)] = insert_node(r, a)
  BY DEF TreeOn
<1>. QED BY <1>7, <1>8, <1>9 DEF IsInsertTree, insert_node

-----------------------------------------------------------------------------
(* The pools after a production.                                           *)

LEMMA PoolKept ==
    ASSUME Here \in Place, NEW pool \in Seq(Node), Linked(pool), NEW s \in Seq(Nat)
    PROVE  [nodes |-> pool, chars |-> charpool, used |-> charptr, stack |-> s] \in Place
BY HereTyped DEF Place

LEMMA TreeBuilt ==
    ASSUME Here \in Place, NEW pool \in Seq(Node), Linked(pool), NEW node \in Node,
           node.kind # "N_LIST", NEW s \in Seq(Nat)
    PROVE  TreeOn([nodes |-> Append(pool, node), chars |-> charpool, used |-> charptr,
                   stack |-> s], pool, node)
<1>. PICK n : n = Len(pool)
  OBVIOUS
<1>. PICK new : new = Append(pool, node)
  OBVIOUS
<1>1. /\ n \in Nat /\ DOMAIN pool = 1 .. n /\ new \in Seq(Node) /\ Len(new) = n + 1
      /\ DOMAIN new = 1 .. n + 1 /\ new[n + 1] = node /\ \A i \in 1 .. n : new[i] = pool[i]
  OBVIOUS
<1>2. \A i \in DOMAIN pool : i \in DOMAIN new /\ new[i] = pool[i]
  BY <1>1
<1>3. Cells(new) = Cells(pool)
  <2>1. \A i \in DOMAIN new : i \in 1 .. n \/ i = n + 1
    BY <1>1
  <2>. QED BY <1>1, <1>2, <2>1 DEF Cells
<1>4. \A i \in Cells(pool) : new[i] = pool[i]
  BY <1>2 DEF Cells
<1>5. Linked(new)
  BY <1>3, <1>4 DEF Linked
<1>6. PICK d : d = [nodes |-> new, chars |-> charpool, used |-> charptr, stack |-> s]
  OBVIOUS
<1>7. d \in Place
  BY <1>1, <1>5, <1>6, PoolKept
<1>8. d.nodes = new /\ d.chars = charpool
  BY <1>6
<1>9. TreeOn(d, pool, node)
  BY <1>1, <1>2, <1>7, <1>8 DEF TreeOn
<1>. QED BY <1>6, <1>9

-----------------------------------------------------------------------------
(* The interpreter: what it copies from a tree (interp.C).                 *)

\* The pointers s are ap, or the first MaxAttrs of them.
FirstsOf(s, ap) ==
    /\ s \in Seq(Nat) /\ Len(s) \in 1 .. MaxAttrs /\ DOMAIN s = 1 .. Len(s)
    /\ Len(s) <= Len(ap) /\ \A k \in 1 .. Len(s) : s[k] = ap[k]
    /\ Len(s) # MaxAttrs => Len(s) = Len(ap)

LEMMA UptoFirsts ==
    ASSUME Here \in Place, NEW l \in Nat, NEW ap \in Seq(Nat), ap # <<>>, ListAt(nodepool, l, ap)
    PROVE  FirstsOf(Upto(l), ap)
<1>1. Elements(nodepool, l) = ap
  BY ElementsAre, HereTyped
<1>2. PICK s : s = Upto(l)
  OBVIOUS
<1>3. s = IF Len(ap) > MaxAttrs THEN SubSeq(ap, 1, MaxAttrs) ELSE ap
  BY <1>1, <1>2 DEF Upto
<1>4. Len(ap) \in Nat \ {0} /\ DOMAIN ap = 1 .. Len(ap) /\ MaxAttrs \in Nat \ {0}
  BY PoolsAssumption
<1>5. CASE Len(ap) > MaxAttrs
  <2>1. \A m \in 1 .. Len(ap) : /\ SubSeq(ap, 1, m) \in Seq(Nat) /\ Len(SubSeq(ap, 1, m)) = m
                                /\ \A k \in 1 .. m : SubSeq(ap, 1, m)[k] = ap[k]
    OBVIOUS
  <2>2. MaxAttrs \in 1 .. Len(ap)
    BY <1>4, <1>5
  <2>3. s \in Seq(Nat) /\ Len(s) = MaxAttrs /\ \A k \in 1 .. MaxAttrs : s[k] = ap[k]
    BY <1>3, <1>5, <2>1, <2>2
  <2>4. DOMAIN s = 1 .. Len(s) /\ Len(s) \in 1 .. MaxAttrs /\ Len(s) <= Len(ap)
    BY <1>4, <2>2, <2>3
  <2>. QED BY <1>2, <2>3, <2>4 DEF FirstsOf
<1>6. CASE ~(Len(ap) > MaxAttrs)
  <2>1. s = ap /\ Len(ap) \in 1 .. MaxAttrs /\ Len(ap) <= Len(ap)
    BY <1>3, <1>4, <1>6
  <2>. QED BY <1>2, <1>4, <2>1 DEF FirstsOf
<1>. QED BY <1>5, <1>6

AttrName == [rel : Str, attr : Str]

\* The node's names, before they are copied, are those of the attribute x.
Intact(st, a, x) == a.attr = x.attr /\ a.rel \in Meaning(st, x.rel)

AllIntact(st, attrs, xs) ==
    Len(attrs) = Len(xs) /\ \A k \in DOMAIN xs : Intact(st, attrs[k], xs[k])

\* What the copies say of attributes whose names were intact.
LEMMA InfoMeant ==
    ASSUME NEW st, NEW a, NEW x, Intact(st, a, x)
    PROVE  Meant(st, AttrInfo(a), x)
BY DEF Intact, Meant, AttrInfo

LEMMA InfosMeant ==
    ASSUME NEW st, NEW attrs \in Seq(AttrName), NEW xs \in Seq(Qualattr), AllIntact(st, attrs, xs)
    PROVE  AllMeant(st, AttrInfos(attrs), xs) /\ Len(AttrInfos(attrs)) = Len(attrs)
<1>1. PICK m \in Nat : m = Len(attrs)
  OBVIOUS
<1>2. DOMAIN attrs = 1 .. m /\ DOMAIN xs = 1 .. m /\ Len(xs) = m
  BY <1>1 DEF AllIntact
<1>3. PICK infos : infos = AttrInfos(attrs)
  OBVIOUS
<1>4. infos = [k \in 1 .. m |-> AttrInfo(attrs[k])]
  BY <1>2, <1>3 DEF AttrInfos
<1>5. Len(infos) = m
  BY <1>4
<1>6. ASSUME NEW k \in 1 .. m PROVE Meant(st, infos[k], xs[k])
  <2>1. Intact(st, attrs[k], xs[k])
    BY <1>2 DEF AllIntact
  <2>. QED BY <1>4, <2>1, InfoMeant
<1>. QED BY <1>1, <1>2, <1>3, <1>5, <1>6 DEF AllMeant

LEMMA MeantNode ==
    ASSUME Here \in Place, NEW st, NEW v, NEW x \in Qualattr, IsMeant(st, Here, v, x)
    PROVE  RelAttr(v) \in AttrName /\ Intact(st, RelAttr(v), x)
<1>1. charpool \in Seq(Str) /\ DOMAIN charpool \subseteq Nat \ {0}
  BY HereTyped
<1>2. /\ nodepool[v].relname \in DOMAIN charpool
      /\ charpool[nodepool[v].relname] \in Meaning(st, x.rel)
      /\ IsName(charpool, nodepool[v].attrname, x.attr)
  BY DEF IsMeant, Here
<1>3. /\ Name(nodepool[v].relname) = charpool[nodepool[v].relname]
      /\ charpool[nodepool[v].relname] \in Str
  BY <1>1, <1>2 DEF Name, Null
<1>4. Name(nodepool[v].attrname) = x.attr /\ x.attr \in Str
  BY <1>1, <1>2, NameIs DEF Qualattr
<1>. QED BY <1>2, <1>3, <1>4 DEF RelAttr, Intact, AttrName

LEMMA LiteralValue ==
    ASSUME Here \in Place, NEW v, NEW x \in Literal, IsLiteral(Here, v, x)
    PROVE  ValueOf(v) = Passed(x)
<1>1. nodepool[v].type = x.type
  BY DEF IsLiteral, Here
<1>2. CASE x.type = "STRING"
  <2>1. x \in [type : {"STRING"}, str : Str]
    BY <1>2 DEF Literal, Number
  <2>2. IsName(charpool, nodepool[v].sval, x.str)
    BY <1>2 DEF IsLiteral, Here
  <2>3. Name(nodepool[v].sval) = x.str
    BY <2>2, NameIs, HereTyped
  <2>4. ValueOf(v) = [type |-> "STRING", str |-> x.str]
    BY <1>1, <1>2, <2>3 DEF ValueOf
  <2>. QED BY <1>2, <2>1, <2>4 DEF Passed
<1>3. CASE x.type # "STRING"
  <2>1. x \in Number
    BY <1>3 DEF Literal
  <2>2. nodepool[v].bits = x.bits
    BY <1>3 DEF IsLiteral, Here
  <2>3. CASE x.type = "INTEGER"
    <3>1. ValueOf(v) = [type |-> "INTEGER", bits |-> x.bits]
      BY <1>1, <2>2, <2>3 DEF ValueOf
    <3>. QED BY <2>1, <2>3, <3>1 DEF Passed, Number
  <2>4. CASE x.type = "FLOAT"
    <3>1. ValueOf(v) = [type |-> "FLOAT", bits |-> SixDecimals(x.bits)]
      BY <1>1, <2>2, <2>4 DEF ValueOf
    <3>. QED BY <2>1, <2>4, <3>1 DEF Passed, Number
  <2>. QED BY <2>1, <2>3, <2>4 DEF Number
<1>. QED BY <1>2, <1>3

-----------------------------------------------------------------------------
(* Queries.                                                                *)

\* attrs is what mk_attrnames and mk_qual_attrs see of the attributes.
GivenAttrs(st, attrs) ==
    /\ attrs \in Seq(AttrName) /\ Len(attrs) \in 1 .. MaxAttrs /\ DOMAIN attrs = 1 .. Len(attrs)
    /\ Len(attrs) <= Len(st.attrs) /\ (Len(attrs) # MaxAttrs => Len(attrs) = Len(st.attrs))
    /\ \A k \in 1 .. Len(attrs) : Intact(st, attrs[k], st.attrs[k])

LEMMA AttrsGiven ==
    ASSUME Here \in Place, NEW st \in Statement, st.kind = "SELECT", NEW l \in Nat, NEW ap,
           IsMeantList(st, Here, l, ap)
    PROVE  GivenAttrs(st, RelAttrs(l))
<1>1. st.attrs \in Seq(Qualattr) /\ st.attrs # <<>>
  BY StatementParts DEF List
<1>2. /\ ListAt(nodepool, l, ap) /\ ap \in Seq(Nat) /\ Len(ap) = Len(st.attrs)
      /\ \A k \in 1 .. Len(st.attrs) : IsMeant(st, Here, ap[k], st.attrs[k])
  BY DEF IsMeantList, Here
<1>3. ap # <<>>
  BY <1>1, <1>2
<1>4. PICK s : s = Upto(l)
  OBVIOUS
<1>5. FirstsOf(s, ap)
  BY <1>2, <1>3, <1>4, UptoFirsts
<1>6. PICK m : m = Len(s)
  OBVIOUS
<1>7. PICK n : n = Len(st.attrs)
  OBVIOUS
<1>8. /\ m \in 1 .. MaxAttrs /\ DOMAIN s = 1 .. m /\ m <= n /\ (m # MaxAttrs => m = n)
      /\ \A k \in 1 .. m : s[k] = ap[k]
  BY <1>2, <1>5, <1>6, <1>7 DEF FirstsOf
<1>9. n \in Nat /\ m \in Nat /\ \A k \in 1 .. m : k \in 1 .. n
  BY <1>1, <1>7, <1>8, PoolsAssumption
<1>10. PICK attrs : attrs = RelAttrs(l)
  OBVIOUS
<1>11. attrs = [k \in 1 .. m |-> RelAttr(s[k])]
  BY <1>4, <1>8, <1>10 DEF RelAttrs
<1>12. ASSUME NEW k \in 1 .. m
       PROVE  attrs[k] \in AttrName /\ Intact(st, attrs[k], st.attrs[k])
  <2>1. st.attrs[k] \in Qualattr
    BY <1>1, <1>7, <1>9
  <2>2. IsMeant(st, Here, s[k], st.attrs[k])
    BY <1>2, <1>7, <1>8, <1>9
  <2>3. attrs[k] = RelAttr(s[k])
    BY <1>11
  <2>. QED BY <2>1, <2>2, <2>3, MeantNode
<1>13. attrs \in [1 .. m -> AttrName]
  BY <1>11, <1>12
<1>14. attrs \in Seq(AttrName) /\ Len(attrs) = m /\ DOMAIN attrs = 1 .. m
  BY <1>9, <1>13
<1>. QED BY <1>7, <1>8, <1>10, <1>12, <1>14 DEF GivenAttrs

\* The attributes that say which relations a query is about.
SourceAttrs(st) == IF st.where.kind = "NONE" THEN <<st.attrs[1]>> ELSE WhereAttrs(st.where)

\* Of each of them, rels has a relation it may be from.
Covers(st, rels) ==
    \A k \in DOMAIN SourceAttrs(st) : \E q \in rels : q \in Meaning(st, SourceAttrs(st)[k].rel)

LEMMA OtherRelation ==
    ASSUME NEW st \in Statement, st.kind = "SELECT", NEW rels, Covers(st, rels),
           NEW k \in DOMAIN st.attrs, NEW rel, rel \in Meaning(st, st.attrs[k].rel), rel \notin rels
    PROVE  MayRefuse(st)
<1>. DEFINE all == Range(st.attrs \o WhereAttrs(st.where))
<1>1. st.attrs[k] \in Range(st.attrs)
  BY DEF Range
<1>2. CASE ~(Meaning(st, st.attrs[k].rel) \subseteq Sources(st))
  BY <1>1, <1>2 DEF MayRefuse
<1>3. CASE Meaning(st, st.attrs[k].rel) \subseteq Sources(st)
  <2>1. Sources(st) = UNION {Meaning(st, a.rel) : a \in Range(SourceAttrs(st))}
    BY DEF Sources, SourceAttrs
  <2>2. PICK j \in DOMAIN SourceAttrs(st) : rel \in Meaning(st, SourceAttrs(st)[j].rel)
    BY <1>3, <2>1 DEF Range
  <2>3. PICK q \in rels : q \in Meaning(st, SourceAttrs(st)[j].rel)
    BY DEF Covers
  <2>4. SourceAttrs(st)[j] \in all
    <3>1. CASE st.where.kind = "NONE"
      <4>1. SourceAttrs(st)[j] = st.attrs[1]
        BY <3>1 DEF SourceAttrs
      <4>2. 1 \in DOMAIN st.attrs
        BY StatementParts DEF List
      <4>. QED BY <4>1, <4>2, AllAttrs
    <3>2. CASE st.where.kind # "NONE"
      BY <3>2, AllAttrs DEF SourceAttrs
    <3>. QED BY <3>1, <3>2
  <2>5. q # rel
    OBVIOUS
  <2>. HIDE DEF all
  <2>6. \E a \in all : \E p, z \in Meaning(st, a.rel) : p # z
    BY <2>2, <2>3, <2>4, <2>5
  <2>. QED BY <2>6 DEF MayRefuse, all
<1>. QED BY <1>2, <1>3

\* The attributes of a query, or a reason to refuse it.
NamedOrRefused(st, mk, fn) ==
    IF mk.fn = "none" THEN MayRefuse(st) /\ {"attrs", "where"} \cap DOMAIN mk = {}
    ELSE mk.fn = fn /\ mk.attrs \in Seq(AttrName) /\ AllIntact(st, mk.attrs, st.attrs)
         /\ Len(mk.attrs) < MaxAttrs

LEMMA MadeOrRefused ==
    ASSUME NEW st \in Statement, st.kind = "SELECT", NEW attrs, GivenAttrs(st, attrs),
           NEW rels, Covers(st, rels), NEW fn \in {"attrnames", "qual_attrs"}, NEW mk,
           mk = IF \E k \in DOMAIN attrs : attrs[k].rel \notin rels THEN Refused("E_INCOMPATIBLE")
                ELSE IF TooMany(Len(attrs)) THEN Refused("E_TOOMANYATTRS")
                ELSE [fn |-> fn, attrs |-> attrs]
    PROVE  NamedOrRefused(st, mk, fn)
<1>1. /\ attrs \in Seq(AttrName) /\ DOMAIN attrs = 1 .. Len(attrs)
      /\ \A k \in 1 .. Len(attrs) : Intact(st, attrs[k], st.attrs[k])
  BY DEF GivenAttrs
<1>2. st.attrs \in Seq(Qualattr)
  BY StatementParts DEF List
<1>3. PICK m : m = Len(attrs)
  OBVIOUS
<1>4. PICK n : n = Len(st.attrs)
  OBVIOUS
<1>5. m \in Nat /\ n \in Nat /\ m <= n /\ m \in 1 .. MaxAttrs /\ (m # MaxAttrs => m = n)
  BY <1>1, <1>2, <1>3, <1>4 DEF GivenAttrs
<1>6. DOMAIN st.attrs = 1 .. n
  BY <1>2, <1>4
<1>7. \A k \in DOMAIN attrs : k \in DOMAIN st.attrs
  <2>1. DOMAIN attrs = 1 .. m
    BY <1>1, <1>3
  <2>. QED BY <1>5, <1>6, <2>1
<1>8. CASE \E k \in DOMAIN attrs : attrs[k].rel \notin rels
  <2>1. PICK k \in DOMAIN attrs : attrs[k].rel \notin rels
    BY <1>8
  <2>2. attrs[k].rel \in Meaning(st, st.attrs[k].rel)
    BY <1>1 DEF Intact
  <2>3. MayRefuse(st)
    BY <1>7, <2>1, <2>2, OtherRelation
  <2>. QED BY <1>8, <2>3 DEF NamedOrRefused, Refused
<1>9. CASE (\A k \in DOMAIN attrs : attrs[k].rel \in rels) /\ m = MaxAttrs
  <2>1. n >= MaxAttrs
    BY <1>5, <1>9
  <2>2. MayRefuse(st)
    BY <1>4, <2>1 DEF MayRefuse
  <2>3. mk = Refused("E_TOOMANYATTRS")
    BY <1>3, <1>9 DEF TooMany
  <2>. QED BY <2>2, <2>3 DEF NamedOrRefused, Refused
<1>10. CASE (\A k \in DOMAIN attrs : attrs[k].rel \in rels) /\ m # MaxAttrs
  <2>1. mk = [fn |-> fn, attrs |-> attrs]
    BY <1>3, <1>10 DEF TooMany
  <2>2. m = n /\ m < MaxAttrs
    BY <1>5, <1>10, PoolsAssumption
  <2>3. AllIntact(st, attrs, st.attrs)
    BY <1>1, <1>3, <1>4, <1>6, <2>2 DEF AllIntact
  <2>4. mk.fn = fn /\ mk.attrs = attrs /\ fn # "none"
    BY <2>1
  <2>5. Len(attrs) < MaxAttrs
    BY <1>3, <2>2
  <2>. QED BY <1>1, <2>3, <2>4, <2>5 DEF NamedOrRefused
<1>. QED BY <1>8, <1>9, <1>10

LEMMA NamesMade ==
    ASSUME NEW st \in Statement, st.kind = "SELECT", NEW l, GivenAttrs(st, RelAttrs(l)), NEW name,
           NEW rel, rel = IF name = NoName THEN RelAttrs(l)[1].rel ELSE name, Covers(st, {rel})
    PROVE  NamedOrRefused(st, mk_attrnames(l, name), "attrnames")
<1>1. PICK attrs : attrs = RelAttrs(l)
  OBVIOUS
<1>2. PICK mk : mk = mk_attrnames(l, name)
  OBVIOUS
<1>3. mk = IF \E k \in DOMAIN attrs : attrs[k].rel \notin {rel} THEN Refused("E_INCOMPATIBLE")
           ELSE IF TooMany(Len(attrs)) THEN Refused("E_TOOMANYATTRS")
           ELSE [fn |-> "attrnames", attrs |-> attrs]
  <2>1. mk = IF \E k \in DOMAIN attrs : attrs[k].rel # rel THEN Refused("E_INCOMPATIBLE")
             ELSE IF TooMany(Len(attrs)) THEN Refused("E_TOOMANYATTRS")
             ELSE [fn |-> "attrnames", attrs |-> attrs]
    BY <1>1, <1>2 DEF mk_attrnames
  <2>2. \A x : x \notin {rel} <=> x # rel
    OBVIOUS
  <2>. QED BY <2>1, <2>2
<1>. QED BY <1>1, <1>2, <1>3, MadeOrRefused

LEMMA QualAttrsMade ==
    ASSUME NEW st \in Statement, st.kind = "SELECT", NEW l, GivenAttrs(st, RelAttrs(l)),
           NEW rel1, NEW rel2, Covers(st, {rel1, rel2})
    PROVE  NamedOrRefused(st, mk_qual_attrs(l, rel1, rel2), "qual_attrs")
<1>1. PICK attrs : attrs = RelAttrs(l)
  OBVIOUS
<1>2. PICK mk : mk = mk_qual_attrs(l, rel1, rel2)
  OBVIOUS
<1>3. mk = IF \E k \in DOMAIN attrs : attrs[k].rel \notin {rel1, rel2}
           THEN Refused("E_INCOMPATIBLE")
           ELSE IF TooMany(Len(attrs)) THEN Refused("E_TOOMANYATTRS")
           ELSE [fn |-> "qual_attrs", attrs |-> attrs]
  BY <1>1, <1>2 DEF mk_qual_attrs
<1>. QED BY <1>1, <1>2, <1>3, MadeOrRefused

\* QueryCall and the bound of TypeOK, of the call c.
QueryAnswer(st, c) ==
    /\ "attrs" \in DOMAIN c => Len(c.attrs) <= MaxAttrs + 1
    /\ IF c.fn = "none" THEN MayRefuse(st) /\ "where" \notin DOMAIN c
       ELSE /\ c.result = IF st.into = NoName THEN Tmp ELSE st.into
            /\ CASE st.where.kind = "NONE"  ->
                      /\ c.fn = "QU_Select" /\ c.where.kind = "NONE"
                      /\ AllMeant(st, c.attrs, st.attrs)
                 [] st.where.kind = "VALUE" ->
                      /\ c.fn = "QU_Select" /\ c.where.kind = "VALUE"
                      /\ Meant(st, c.where.attr, st.where.attr)
                      /\ c.where.op = st.where.op /\ c.where.value = Passed(st.where.value)
                      /\ AllMeant(st, c.attrs, st.attrs)
                 [] st.where.kind = "ATTR"  ->
                      /\ c.fn = "QU_Join" /\ c.op = st.where.op /\ "where" \notin DOMAIN c
                      /\ AllMeant(st, c.attrs, st.attrs \o WhereAttrs(st.where))

LEMMA RefusedQuery ==
    ASSUME NEW st, NEW mk, NEW fn, NamedOrRefused(st, mk, fn), mk.fn = "none"
    PROVE  QueryAnswer(st, mk)
BY DEF NamedOrRefused, QueryAnswer

LEMMA FewAttrs ==
    ASSUME NEW attrs \in Seq(AttrName), Len(attrs) < MaxAttrs, NEW x \in AttrName, NEW y \in AttrName
    PROVE  attrs \o <<x, y>> \in Seq(AttrName) /\ Len(attrs \o <<x, y>>) <= MaxAttrs + 1
<1>1. /\ Len(attrs) \in Nat /\ Len(attrs \o <<x, y>>) = Len(attrs) + 2
      /\ attrs \o <<x, y>> \in Seq(AttrName)
  OBVIOUS
<1>. QED BY <1>1, PoolsAssumption

LEMMA ResultNamed ==
    ASSUME Here \in Place, NEW n, NEW st, IsName(charpool, n.relname, st.into)
    PROVE  ResultName(n) = IF st.into = NoName THEN Tmp ELSE st.into
<1>1. Name(n.relname) = st.into /\ (n.relname = Null <=> st.into = NoName)
  BY NameIs, HereTyped
<1>. QED BY <1>1 DEF ResultName

\* The attributes of a query without those of a join.
LEMMA GivenInfos ==
    ASSUME NEW st \in Statement, st.kind = "SELECT", NEW attrs \in Seq(AttrName),
           AllIntact(st, attrs, st.attrs), Len(attrs) < MaxAttrs
    PROVE  AllMeant(st, AttrInfos(attrs), st.attrs) /\ Len(AttrInfos(attrs)) <= MaxAttrs + 1
<1>1. st.attrs \in Seq(Qualattr)
  BY StatementParts DEF List
<1>2. AllMeant(st, AttrInfos(attrs), st.attrs) /\ Len(AttrInfos(attrs)) = Len(attrs)
  BY <1>1, InfosMeant
<1>3. Len(attrs) \in Nat
  OBVIOUS
<1>. QED BY <1>2, <1>3, PoolsAssumption

LEMMA PlainQuery ==
    ASSUME Here \in Place, NEW st \in Statement, st.kind = "SELECT", st.where.kind = "NONE",
           NEW n, n.kind = "N_QUERY", IsName(charpool, n.relname, st.into),
           GivenAttrs(st, RelAttrs(n.attrlist)), n.qual = Null
    PROVE  QueryAnswer(st, QueryCallOf(n))
<1>1. PICK mk : mk = mk_attrnames(n.attrlist, NoName)
  OBVIOUS
<1>2. PICK rel : rel = RelAttrs(n.attrlist)[1].rel
  OBVIOUS
<1>3. Covers(st, {rel})
  <2>1. SourceAttrs(st) = <<st.attrs[1]>>
    BY DEF SourceAttrs
  <2>2. 1 \in 1 .. Len(RelAttrs(n.attrlist))
    BY DEF GivenAttrs
  <2>3. rel \in Meaning(st, st.attrs[1].rel)
    BY <1>2, <2>2 DEF GivenAttrs, Intact
  <2>. QED BY <2>1, <2>3 DEF Covers
<1>4. NamedOrRefused(st, mk, "attrnames")
  BY <1>1, <1>2, <1>3, NamesMade
<1>5. PICK c : c = QueryCallOf(n)
  OBVIOUS
<1>6. CASE mk.fn = "none"
  <2>1. c = mk
    BY <1>1, <1>5, <1>6 DEF QueryCallOf
  <2>. QED BY <1>4, <1>5, <1>6, <2>1, RefusedQuery
<1>7. CASE mk.fn # "none"
  <2>1. /\ mk.attrs \in Seq(AttrName) /\ AllIntact(st, mk.attrs, st.attrs)
        /\ Len(mk.attrs) < MaxAttrs
    BY <1>4, <1>7 DEF NamedOrRefused
  <2>2. PICK given : given = AttrInfos(mk.attrs)
    OBVIOUS
  <2>3. AllMeant(st, given, st.attrs) /\ Len(given) <= MaxAttrs + 1
    BY <2>1, <2>2, GivenInfos
  <2>4. PICK res : res = ResultName(n)
    OBVIOUS
  <2>5. c = [fn |-> "QU_Select", result |-> res, attrs |-> given, where |-> [kind |-> "NONE"]]
    BY <1>1, <1>5, <1>7, <2>2, <2>4 DEF QueryCallOf
  <2>6. res = IF st.into = NoName THEN Tmp ELSE st.into
    BY <2>4, ResultNamed
  <2>7. /\ c.fn = "QU_Select" /\ c.result = res /\ c.attrs = given /\ c.where.kind = "NONE"
    BY <2>5
  <2>. QED BY <1>5, <2>3, <2>6, <2>7 DEF QueryAnswer
<1>. QED BY <1>6, <1>7

LEMMA QualifiedQuery ==
    ASSUME Here \in Place, NEW st \in Statement, st.kind = "SELECT", st.where.kind = "VALUE",
           NEW n, n.kind = "N_QUERY", IsName(charpool, n.relname, st.into),
           GivenAttrs(st, RelAttrs(n.attrlist)), IsMeantWhere(st, Here, n.qual, st.where)
    PROVE  QueryAnswer(st, QueryCallOf(n))
<1>1. /\ n.qual \in DOMAIN nodepool /\ nodepool[n.qual].kind = "N_SELECT"
      /\ nodepool[n.qual].op = st.where.op
      /\ IsMeant(st, Here, nodepool[n.qual].selattr, st.where.attr)
      /\ IsLiteral(Here, nodepool[n.qual].value, st.where.value)
  BY DEF IsMeantWhere, Here
<1>2. n.qual # Null
  BY <1>1, HereTyped DEF Null
<1>3. st.where.attr \in Qualattr /\ st.where.value \in Literal
  BY StatementParts, WhereCases
<1>4. PICK x : x = RelAttr(nodepool[n.qual].selattr)
  OBVIOUS
<1>5. x \in AttrName /\ Intact(st, x, st.where.attr)
  BY <1>1, <1>3, <1>4, MeantNode
<1>6. PICK v : v = ValueOf(nodepool[n.qual].value)
  OBVIOUS
<1>7. v = Passed(st.where.value)
  BY <1>1, <1>3, <1>6, LiteralValue
<1>8. PICK mk : mk = mk_attrnames(n.attrlist, x.rel)
  OBVIOUS
<1>9. x.rel # NoName
  BY <1>5, StringsAssumption DEF AttrName
<1>10. Covers(st, {x.rel})
  <2>1. SourceAttrs(st) = <<st.where.attr>>
    BY DEF SourceAttrs, WhereAttrs
  <2>2. x.rel \in Meaning(st, st.where.attr.rel)
    BY <1>5 DEF Intact
  <2>. QED BY <2>1, <2>2 DEF Covers
<1>11. NamedOrRefused(st, mk, "attrnames")
  BY <1>8, <1>9, <1>10, NamesMade
<1>12. PICK res : res = ResultName(n)
  OBVIOUS
<1>13. res = IF st.into = NoName THEN Tmp ELSE st.into
  BY <1>12, ResultNamed
<1>14. PICK op : op = nodepool[n.qual].op
  OBVIOUS
<1>15. PICK c : c = QueryCallOf(n)
  OBVIOUS
<1>16. c = IF mk.fn = "none" THEN mk
           ELSE [fn |-> "QU_Select", result |-> res, attrs |-> AttrInfos(mk.attrs),
                 where |-> [kind |-> "VALUE", attr |-> AttrInfo(x), op |-> op, value |-> v]]
  BY <1>1, <1>2, <1>4, <1>6, <1>8, <1>12, <1>14, <1>15 DEF QueryCallOf
<1>17. CASE mk.fn = "none"
  BY <1>11, <1>15, <1>16, <1>17, RefusedQuery
<1>18. CASE mk.fn # "none"
  <2>1. /\ mk.attrs \in Seq(AttrName) /\ AllIntact(st, mk.attrs, st.attrs)
        /\ Len(mk.attrs) < MaxAttrs
    BY <1>11, <1>18 DEF NamedOrRefused
  <2>2. PICK given : given = AttrInfos(mk.attrs)
    OBVIOUS
  <2>3. AllMeant(st, given, st.attrs) /\ Len(given) <= MaxAttrs + 1
    BY <2>1, <2>2, GivenInfos
  <2>4. PICK a : a = AttrInfo(x)
    OBVIOUS
  <2>5. Meant(st, a, st.where.attr)
    BY <1>5, <2>4, InfoMeant
  <2>6. /\ c.fn = "QU_Select" /\ c.result = res /\ c.attrs = given
        /\ c.where.kind = "VALUE" /\ c.where.attr = a /\ c.where.op = op /\ c.where.value = v
    BY <1>16, <1>18, <2>2, <2>4
  <2>7. op = st.where.op
    BY <1>1, <1>14
  <2>. QED BY <1>7, <1>13, <1>15, <2>3, <2>5, <2>6, <2>7 DEF QueryAnswer
<1>. QED BY <1>17, <1>18

\* The attributes of the condition of a join go into the same array.
LEMMA AttrsJoined ==
    ASSUME NEW st \in Statement, st.kind = "SELECT", NEW attrs \in Seq(AttrName),
           AllIntact(st, attrs, st.attrs), NEW x \in AttrName, NEW y \in AttrName,
           NEW xs, xs = WhereAttrs(st.where), xs = <<st.where.attr, st.where.attr2>>,
           Intact(st, x, st.where.attr), Intact(st, y, st.where.attr2)
    PROVE  AllIntact(st, attrs \o <<x, y>>, st.attrs \o xs)
<1>1. PICK m : m = Len(attrs)
  OBVIOUS
<1>2. Len(st.attrs) = m /\ \A k \in DOMAIN st.attrs : Intact(st, attrs[k], st.attrs[k])
  BY <1>1 DEF AllIntact
<1>3. st.attrs \in Seq(Qualattr) /\ xs \in Seq(Qualattr)
  BY AllAttrs
<1>4. m \in Nat /\ DOMAIN st.attrs = 1 .. m
  BY <1>1, <1>2, <1>3
<1>5. PICK ys : ys = <<x, y>>
  OBVIOUS
<1>6. /\ ys \in Seq(AttrName) /\ Len(ys) = 2 /\ ys[1] = x /\ ys[2] = y
      /\ Len(xs) = 2 /\ xs[1] = st.where.attr /\ xs[2] = st.where.attr2
  BY <1>5
<1>7. \A S : \A u, v \in Seq(S) :
         /\ Len(u \o v) = Len(u) + Len(v) /\ DOMAIN (u \o v) = 1 .. Len(u) + Len(v)
         /\ \A k \in 1 .. Len(u) : (u \o v)[k] = u[k]
         /\ \A k \in 1 .. Len(v) : (u \o v)[Len(u) + k] = v[k]
  OBVIOUS
<1>8. PICK given : given = attrs \o ys
  OBVIOUS
<1>9. PICK all : all = st.attrs \o xs
  OBVIOUS
<1>10. /\ Len(given) = m + 2 /\ \A k \in 1 .. m : given[k] = attrs[k]
       /\ given[m + 1] = x /\ given[m + 2] = y
  <2>1. 1 \in 1 .. 2 /\ 2 \in 1 .. 2
    OBVIOUS
  <2>2. /\ Len(given) = Len(attrs) + Len(ys) /\ \A k \in 1 .. Len(attrs) : given[k] = attrs[k]
        /\ \A k \in 1 .. Len(ys) : given[Len(attrs) + k] = ys[k]
    <3>1. ys \in Seq(AttrName)
      BY <1>6
    <3>. QED BY <1>7, <1>8, <3>1
  <2>3. /\ Len(given) = m + 2 /\ \A k \in 1 .. m : given[k] = attrs[k]
        /\ \A k \in 1 .. 2 : given[m + k] = ys[k]
    BY <1>1, <1>6, <2>2
  <2>. QED BY <1>6, <2>1, <2>3
<1>11. /\ Len(all) = m + 2 /\ DOMAIN all = 1 .. m + 2 /\ \A k \in 1 .. m : all[k] = st.attrs[k]
       /\ all[m + 1] = st.where.attr /\ all[m + 2] = st.where.attr2
  <2>1. 1 \in 1 .. 2 /\ 2 \in 1 .. 2
    OBVIOUS
  <2>2. PICK as \in Seq(Qualattr) : as = st.attrs
    BY <1>3
  <2>3. /\ Len(all) = Len(as) + Len(xs) /\ DOMAIN all = 1 .. Len(as) + Len(xs)
        /\ \A k \in 1 .. Len(as) : all[k] = as[k]
        /\ \A k \in 1 .. Len(xs) : all[Len(as) + k] = xs[k]
    BY <1>3, <1>7, <1>9, <2>2
  <2>4. Len(as) = m
    BY <1>2, <2>2
  <2>5. /\ Len(all) = m + 2 /\ DOMAIN all = 1 .. m + 2 /\ \A k \in 1 .. m : all[k] = as[k]
        /\ \A k \in 1 .. 2 : all[m + k] = xs[k]
    BY <1>6, <2>3, <2>4
  <2>. QED BY <1>6, <2>1, <2>2, <2>5
<1>12. ASSUME NEW k \in 1 .. m + 2 PROVE Intact(st, given[k], all[k])
  <2>1. k \in 1 .. m \/ k = m + 1 \/ k = m + 2
    BY <1>4
  <2>2. CASE k \in 1 .. m
    BY <1>2, <1>4, <1>10, <1>11, <2>2
  <2>3. CASE k = m + 1
    BY <1>10, <1>11, <2>3
  <2>4. CASE k = m + 2
    BY <1>10, <1>11, <2>4
  <2>. QED BY <2>1, <2>2, <2>3, <2>4
<1>13. AllIntact(st, given, all)
  BY <1>10, <1>11, <1>12 DEF AllIntact
<1>. QED BY <1>5, <1>8, <1>9, <1>13

LEMMA JoinQuery ==
    ASSUME Here \in Place, NEW st \in Statement, st.kind = "SELECT", st.where.kind = "ATTR",
           NEW n, n.kind = "N_QUERY", IsName(charpool, n.relname, st.into),
           GivenAttrs(st, RelAttrs(n.attrlist)), IsMeantWhere(st, Here, n.qual, st.where)
    PROVE  QueryAnswer(st, QueryCallOf(n))
<1>1. /\ n.qual \in DOMAIN nodepool /\ nodepool[n.qual].kind = "N_JOIN"
      /\ nodepool[n.qual].op = st.where.op
      /\ IsMeant(st, Here, nodepool[n.qual].joinattr1, st.where.attr)
      /\ IsMeant(st, Here, nodepool[n.qual].joinattr2, st.where.attr2)
  BY DEF IsMeantWhere, Here
<1>2. n.qual # Null
  BY <1>1, HereTyped DEF Null
<1>3. st.where.attr \in Qualattr /\ st.where.attr2 \in Qualattr
  BY StatementParts, WhereCases
<1>4. PICK x : x = RelAttr(nodepool[n.qual].joinattr1)
  OBVIOUS
<1>5. PICK y : y = RelAttr(nodepool[n.qual].joinattr2)
  OBVIOUS
<1>6. /\ x \in AttrName /\ Intact(st, x, st.where.attr)
      /\ y \in AttrName /\ Intact(st, y, st.where.attr2)
  BY <1>1, <1>3, <1>4, <1>5, MeantNode
<1>7. PICK xs : xs = WhereAttrs(st.where)
  OBVIOUS
<1>8. xs = <<st.where.attr, st.where.attr2>>
  BY <1>7 DEF WhereAttrs
<1>9. Covers(st, {x.rel, y.rel})
  <2>1. SourceAttrs(st) = <<st.where.attr, st.where.attr2>>
    BY <1>7, <1>8 DEF SourceAttrs
  <2>2. x.rel \in Meaning(st, st.where.attr.rel) /\ y.rel \in Meaning(st, st.where.attr2.rel)
    BY <1>6 DEF Intact
  <2>. QED BY <2>1, <2>2 DEF Covers
<1>10. PICK mk : mk = mk_qual_attrs(n.attrlist, x.rel, y.rel)
  OBVIOUS
<1>11. NamedOrRefused(st, mk, "qual_attrs")
  BY <1>9, <1>10, QualAttrsMade
<1>12. PICK res : res = ResultName(n)
  OBVIOUS
<1>13. res = IF st.into = NoName THEN Tmp ELSE st.into
  BY <1>12, ResultNamed
<1>14. PICK op : op = nodepool[n.qual].op
  OBVIOUS
<1>15. PICK c : c = QueryCallOf(n)
  OBVIOUS
<1>16. c = IF mk.fn = "none" THEN mk
           ELSE [fn |-> "QU_Join", result |-> res, attrs |-> AttrInfos(mk.attrs \o <<x, y>>), op |-> op]
  BY <1>1, <1>2, <1>4, <1>5, <1>10, <1>12, <1>14, <1>15 DEF QueryCallOf
<1>17. CASE mk.fn = "none"
  BY <1>11, <1>15, <1>16, <1>17, RefusedQuery
<1>18. CASE mk.fn # "none"
  <2>1. /\ mk.attrs \in Seq(AttrName) /\ AllIntact(st, mk.attrs, st.attrs)
        /\ Len(mk.attrs) < MaxAttrs
    BY <1>11, <1>18 DEF NamedOrRefused
  <2>2. PICK all : all = mk.attrs \o <<x, y>>
    OBVIOUS
  <2>3. all \in Seq(AttrName) /\ Len(all) <= MaxAttrs + 1
    BY <1>6, <2>1, <2>2, FewAttrs
  <2>4. AllIntact(st, all, st.attrs \o xs)
    BY <1>6, <1>7, <1>8, <2>1, <2>2, AttrsJoined
  <2>5. st.attrs \o xs \in Seq(Qualattr)
    BY <1>7, AllAttrs
  <2>6. PICK given : given = AttrInfos(all)
    OBVIOUS
  <2>7. AllMeant(st, given, st.attrs \o xs) /\ Len(given) = Len(all)
    BY <2>3, <2>4, <2>5, <2>6, InfosMeant
  <2>8. c = [fn |-> "QU_Join", result |-> res, attrs |-> given, op |-> op]
    BY <1>16, <1>18, <2>2, <2>6
  <2>9. /\ c.fn = "QU_Join" /\ c.result = res /\ c.attrs = given /\ c.op = op
        /\ "where" \notin DOMAIN c
    BY <2>8
  <2>10. op = st.where.op
    BY <1>1, <1>14
  <2>11. Len(given) <= MaxAttrs + 1
    BY <2>3, <2>7
  <2>. QED BY <1>7, <1>13, <1>15, <2>7, <2>9, <2>10, <2>11 DEF QueryAnswer
<1>. QED BY <1>17, <1>18

LEMMA QueryAnswered ==
    ASSUME Here \in Place, NEW st \in Statement, st.kind = "SELECT", IsQueryTree(st, Here)
    PROVE  QueryAnswer(st, QueryCallOf(nodepool[Len(nodepool)]))
<1>1. PICK n : n = nodepool[Len(nodepool)]
  OBVIOUS
<1>2. /\ n.kind = "N_QUERY" /\ IsName(charpool, n.relname, st.into)
      /\ \E ap : IsMeantList(st, Here, n.attrlist, ap) /\ IsMeantWhere(st, Here, n.qual, st.where)
  BY <1>1 DEF IsQueryTree, Here
<1>3. n.attrlist \in Nat
  BY <1>2, HereTyped DEF IsMeantList, Here
<1>4. GivenAttrs(st, RelAttrs(n.attrlist))
  BY <1>2, <1>3, AttrsGiven
<1>5. CASE st.where.kind = "NONE"
  <2>1. n.qual = Null
    BY <1>2, <1>5 DEF IsMeantWhere
  <2>. QED BY <1>1, <1>2, <1>4, <1>5, <2>1, PlainQuery
<1>6. CASE st.where.kind = "VALUE"
  BY <1>1, <1>2, <1>4, <1>6, QualifiedQuery
<1>7. CASE st.where.kind = "ATTR"
  BY <1>1, <1>2, <1>4, <1>7, JoinQuery
<1>8. st.where \in Where
  BY StatementParts
<1>. QED BY <1>5, <1>6, <1>7, <1>8, WhereCases

-----------------------------------------------------------------------------
(* INSERT, DELETE and CREATE.                                              *)

\* UpdateCall and the bound of TypeOK, of the call c.
Bounded(c) == "attrs" \in DOMAIN c => Len(c.attrs) <= MaxAttrs + 1

InsertAnswer(st, c) ==
    IF c.fn = "none"
    THEN \/ Len(st.attrs) # Len(st.values) \/ Len(st.attrs) >= MaxAttrs
         \/ \E v \in Range(st.values) : TooLong(v)
    ELSE /\ c.relname = st.rel /\ Len(st.attrs) = Len(st.values)
         /\ c.attrs = [k \in DOMAIN st.attrs |->
                          [attr |-> Field(st.attrs[k]), value |-> Passed(st.values[k])]]

DeleteAnswer(st, c) ==
    IF c.fn = "none" THEN st.where.kind = "ATTR" /\ "where" \notin DOMAIN c
    ELSE /\ c.relname = st.rel /\ c.where.kind = st.where.kind
         /\ st.where.kind = "VALUE" =>
              c.where = [kind |-> "VALUE", attr |-> st.where.attr.attr,
                         op |-> st.where.op, value |-> Passed(st.where.value)]

CreateAnswer(st, c) ==
    IF c.fn = "none"
    THEN \/ Len(st.attrs) >= MaxAttrs
         \/ \E d \in Range(st.attrs) :
              d.type = "char(" /\ (d.len.type # "INTEGER" \/ d.len.bits \notin 1 .. 255)
    ELSE /\ c.relname = st.rel /\ Len(c.attrs) = Len(st.attrs)
         /\ \A k \in DOMAIN st.attrs : Described(c.attrs[k], st.attrs[k])

\* The elements of a list that the interpreter looks at: the first m of n.
LookedAt(s, ap, xs, m, n) ==
    /\ DOMAIN s = 1 .. m /\ Len(s) = m /\ DOMAIN xs = 1 .. n /\ Len(xs) = n
    /\ m <= n /\ m <= MaxAttrs /\ (m # MaxAttrs => m = n)
    /\ \A k \in 1 .. m : s[k] = ap[k] /\ k \in 1 .. n

LEMMA FirstElements ==
    ASSUME Here \in Place, NEW l \in Nat, NEW ap \in Seq(Nat), NEW X, NEW xs \in List(X),
           ListAt(nodepool, l, ap), Len(ap) = Len(xs)
    PROVE  \E m, n \in Nat : LookedAt(Upto(l), ap, xs, m, n)
<1>1. xs \in Seq(X) /\ xs # <<>>
  BY DEF List
<1>2. ap # <<>>
  BY <1>1
<1>3. PICK s : s = Upto(l)
  OBVIOUS
<1>4. FirstsOf(s, ap)
  BY <1>2, <1>3, UptoFirsts
<1>5. PICK m : m = Len(s)
  OBVIOUS
<1>6. PICK n : n = Len(xs)
  OBVIOUS
<1>7. /\ m \in 1 .. MaxAttrs /\ DOMAIN s = 1 .. m /\ m <= n /\ (m # MaxAttrs => m = n)
      /\ \A k \in 1 .. m : s[k] = ap[k]
  BY <1>4, <1>5, <1>6 DEF FirstsOf
<1>8. n \in Nat /\ DOMAIN xs = 1 .. n
  BY <1>1, <1>6
<1>9. m \in Nat /\ m <= MaxAttrs /\ \A k \in 1 .. m : k \in 1 .. n
  BY <1>7, <1>8, PoolsAssumption
<1>10. LookedAt(s, ap, xs, m, n)
  BY <1>5, <1>6, <1>7, <1>8, <1>9 DEF LookedAt
<1>. QED BY <1>3, <1>8, <1>9, <1>10

\* The pairs the interpreter makes of an INSERT: the first m of len.
PairsOf(st, pairs, m, len) ==
    /\ pairs = [k \in 1 .. m |-> [attr |-> st.attrs[k], value |-> Passed(st.values[k])]]
    /\ DOMAIN st.attrs = 1 .. len /\ DOMAIN st.values = 1 .. len /\ Len(st.attrs) = len
    /\ m <= len /\ m <= MaxAttrs /\ (m # MaxAttrs => m = len) /\ \A k \in 1 .. m : k \in 1 .. len

LEMMA PairsMade ==
    ASSUME Here \in Place, NEW st \in Statement, st.kind = "INSERT", NEW n,
           Len(st.attrs) = Len(st.values), NEW ap, IsPairList(st, Here, n.attrlist, ap)
    PROVE  \E m, len \in Nat : PairsOf(st, Pairs(n.attrlist), m, len)
<1>1. /\ n.attrlist \in Nat /\ ListAt(nodepool, n.attrlist, ap) /\ ap \in Seq(Nat)
      /\ Len(ap) = Len(st.attrs)
      /\ \A k \in 1 .. Len(st.attrs) :
           /\ IsName(charpool, nodepool[ap[k]].attrname, st.attrs[k])
           /\ IsLiteral(Here, nodepool[ap[k]].value, st.values[k])
  BY HereTyped DEF IsPairList, Here
<1>2. st.rel \in Str /\ st.attrs \in List(Str) /\ st.values \in Seq(Literal)
  BY StatementParts DEF List
<1>3. PICK s : s = Upto(n.attrlist)
  OBVIOUS
<1>4. PICK m \in Nat, len \in Nat : LookedAt(s, ap, st.attrs, m, len)
  BY <1>1, <1>2, <1>3, FirstElements
<1>5. /\ DOMAIN s = 1 .. m /\ DOMAIN st.attrs = 1 .. len /\ Len(st.attrs) = len
      /\ m <= len /\ m <= MaxAttrs /\ (m # MaxAttrs => m = len)
      /\ Len(s) = m /\ \A k \in 1 .. m : s[k] = ap[k] /\ k \in 1 .. len
  BY <1>4 DEF LookedAt
<1>6. DOMAIN st.values = 1 .. len
  <2>1. \A v \in Seq(Literal) : DOMAIN v = 1 .. Len(v)
    OBVIOUS
  <2>2. Len(st.values) = len
    BY <1>5
  <2>. QED BY <1>2, <2>1, <2>2
<1>7. PICK pairs : pairs = [k \in 1 .. m |-> [attr |-> st.attrs[k], value |-> Passed(st.values[k])]]
  OBVIOUS
<1>8. ASSUME NEW k \in 1 .. m
      PROVE  /\ Name(nodepool[s[k]].attrname) = st.attrs[k]
             /\ ValueOf(nodepool[s[k]].value) = Passed(st.values[k])
  <2>1. s[k] = ap[k] /\ k \in 1 .. Len(st.attrs) /\ k \in DOMAIN st.values
    BY <1>5, <1>6
  <2>2. st.values[k] \in Literal
    BY <1>2, <2>1
  <2>3. ValueOf(nodepool[s[k]].value) = Passed(st.values[k])
    BY <1>1, <2>1, <2>2, LiteralValue
  <2>4. Name(nodepool[s[k]].attrname) = st.attrs[k]
    BY <1>1, <2>1, NameIs, HereTyped
  <2>. QED BY <2>3, <2>4
<1>9. pairs = [k \in DOMAIN s |-> [attr |-> Name(nodepool[s[k]].attrname),
                                    value |-> ValueOf(nodepool[s[k]].value)]]
  BY <1>5, <1>7, <1>8
<1>10. pairs = Pairs(n.attrlist)
  BY <1>3, <1>9 DEF Pairs
<1>11. PairsOf(st, pairs, m, len)
  BY <1>5, <1>6, <1>7 DEF PairsOf
<1>. QED BY <1>4, <1>10, <1>11

\* A string is as long as it was typed.
LEMMA PassedString ==
    ASSUME NEW v
    PROVE  /\ TooLong(Passed(v)) <=> TooLong(v)
           /\ \A len : LongerThan(Passed(v), len) <=> LongerThan(v, len)
<1>1. CASE v.type = "FLOAT"
  BY <1>1 DEF Passed, TooLong, LongerThan
<1>2. CASE v.type # "FLOAT"
  BY <1>2 DEF Passed
<1>. QED BY <1>1, <1>2

LEMMA InsertAnswered ==
    ASSUME Here \in Place, NEW st \in Statement, st.kind = "INSERT", IsInsertTree(st, Here)
    PROVE  LET c == InsertCallOf(nodepool[Len(nodepool)]) IN InsertAnswer(st, c) /\ Bounded(c)
<1>1. PICK n : n = nodepool[Len(nodepool)]
  OBVIOUS
<1>2. PICK ap : /\ n.kind = "N_INSERT" /\ IsName(charpool, n.relname, st.rel)
                /\ Len(st.attrs) = Len(st.values) /\ IsPairList(st, Here, n.attrlist, ap)
  BY <1>1 DEF IsInsertTree, Here
<1>3. PICK pairs : pairs = Pairs(n.attrlist)
  OBVIOUS
<1>4. PICK m \in Nat, len \in Nat : PairsOf(st, pairs, m, len)
  BY <1>2, <1>3, PairsMade
<1>5. /\ DOMAIN st.attrs = 1 .. len /\ DOMAIN st.values = 1 .. len /\ Len(st.attrs) = len
      /\ m <= len /\ m <= MaxAttrs /\ (m # MaxAttrs => m = len) /\ \A k \in 1 .. m : k \in 1 .. len
      /\ pairs = [k \in 1 .. m |-> [attr |-> st.attrs[k], value |-> Passed(st.values[k])]]
  BY <1>4 DEF PairsOf
<1>6. DOMAIN pairs = 1 .. m /\ Len(pairs) = m
  BY <1>5
<1>7. PICK mk : mk = mk_ins_attrs(n.attrlist)
  OBVIOUS
<1>8. mk = IF \E k \in DOMAIN pairs : TooLong(pairs[k].value) THEN Refused("E_STRINGTOOLONG")
           ELSE IF TooMany(Len(pairs)) THEN Refused("E_TOOMANYATTRS")
           ELSE [fn |-> "ins_attrs", attrs |-> pairs]
  BY <1>3, <1>7 DEF mk_ins_attrs
<1>9. PICK c : c = InsertCallOf(n)
  OBVIOUS
<1>10. PICK rel : rel = Name(n.relname)
  OBVIOUS
<1>11. c = IF mk.fn = "none" THEN mk
           ELSE [fn |-> "QU_Insert", relname |-> rel,
                 attrs |-> [k \in DOMAIN mk.attrs |-> [mk.attrs[k] EXCEPT !.attr = Field(@)]]]
  BY <1>7, <1>9, <1>10 DEF InsertCallOf
<1>12. CASE \E k \in DOMAIN pairs : TooLong(pairs[k].value)
  <2>1. PICK k \in 1 .. m : TooLong(pairs[k].value)
    BY <1>6, <1>12
  <2>2. pairs[k].value = Passed(st.values[k]) /\ k \in DOMAIN st.values
    BY <1>5
  <2>3. st.values[k] \in Range(st.values)
    BY <2>2 DEF Range
  <2>4. TooLong(st.values[k])
    BY <2>1, <2>2, PassedString
  <2>5. c = Refused("E_STRINGTOOLONG")
    BY <1>8, <1>11, <1>12 DEF Refused
  <2>6. c.fn = "none" /\ "attrs" \notin DOMAIN c
    BY <2>5 DEF Refused
  <2>. QED BY <1>1, <1>9, <2>3, <2>4, <2>6 DEF InsertAnswer, Bounded
<1>13. CASE (~\E k \in DOMAIN pairs : TooLong(pairs[k].value)) /\ m = MaxAttrs
  <2>1. Len(st.attrs) >= MaxAttrs
    <3>1. len >= MaxAttrs
      BY <1>5, <1>13, PoolsAssumption
    <3>. QED BY <1>5, <3>1
  <2>2. TooMany(Len(pairs))
    BY <1>6, <1>13 DEF TooMany
  <2>3. mk = Refused("E_TOOMANYATTRS")
    BY <1>8, <1>13, <2>2
  <2>4. c.fn = "none" /\ "attrs" \notin DOMAIN c
    BY <1>11, <2>3 DEF Refused
  <2>. QED BY <1>1, <1>9, <2>1, <2>4 DEF InsertAnswer, Bounded
<1>14. CASE (~\E k \in DOMAIN pairs : TooLong(pairs[k].value)) /\ m # MaxAttrs
  <2>1. ~TooMany(Len(pairs))
    BY <1>6, <1>14 DEF TooMany
  <2>2. mk = [fn |-> "ins_attrs", attrs |-> pairs]
    BY <1>8, <1>14, <2>1
  <2>3. PICK given : given = [k \in DOMAIN pairs |-> [pairs[k] EXCEPT !.attr = Field(@)]]
    OBVIOUS
  <2>4. c = [fn |-> "QU_Insert", relname |-> rel, attrs |-> given]
    BY <1>11, <2>2, <2>3
  <2>5. c.fn = "QU_Insert" /\ c.relname = rel /\ c.attrs = given
    BY <2>4
  <2>6. rel = st.rel
    BY <1>2, <1>10, NameIs, HereTyped
  <2>7. m = len
    BY <1>5, <1>14
  <2>8. given = [k \in DOMAIN st.attrs |->
                    [attr |-> Field(st.attrs[k]), value |-> Passed(st.values[k])]]
    <3>1. \A k \in 1 .. m : pairs[k] = [attr |-> st.attrs[k], value |-> Passed(st.values[k])]
      BY <1>5
    <3>2. ASSUME NEW k \in 1 .. m
          PROVE  [pairs[k] EXCEPT !.attr = Field(@)]
                     = [attr |-> Field(st.attrs[k]), value |-> Passed(st.values[k])]
      <4>1. PICK a : a = st.attrs[k]
        OBVIOUS
      <4>2. PICK v : v = Passed(st.values[k])
        OBVIOUS
      <4>3. pairs[k] = [attr |-> a, value |-> v]
        BY <3>1, <4>1, <4>2
      <4>. QED BY <4>1, <4>2, <4>3
    <3>. QED BY <1>5, <1>6, <2>3, <2>7, <3>2
  <2>9. Len(given) = m
    BY <1>5, <2>7, <2>8
  <2>10. Len(given) <= MaxAttrs + 1
    <3>1. m <= MaxAttrs + 1
      BY <1>5, PoolsAssumption
    <3>. QED BY <2>9, <3>1
  <2>. QED BY <1>1, <1>2, <1>9, <2>5, <2>6, <2>8, <2>10 DEF InsertAnswer, Bounded
<1>. QED BY <1>12, <1>13, <1>14

LEMMA DeleteAnswered ==
    ASSUME Here \in Place, NEW st \in Statement, st.kind = "DELETE", IsTree(st, Here)
    PROVE  LET c == DeleteCallOf(nodepool[Len(nodepool)]) IN DeleteAnswer(st, c) /\ Bounded(c)
<1>1. PICK n : n = nodepool[Len(nodepool)]
  OBVIOUS
<1>2. /\ n.kind = "N_DELETE" /\ IsName(charpool, n.relname, st.rel)
      /\ IsWhere(Here, 0, n.qual, st.where)
  BY <1>1 DEF IsTree, Here
<1>3. st.rel \in Str /\ st.where \in Where
  BY StatementParts
<1>4. PICK rel : rel = Name(n.relname)
  OBVIOUS
<1>5. rel = st.rel
  BY <1>2, <1>4, NameIs, HereTyped
<1>6. PICK c : c = DeleteCallOf(n)
  OBVIOUS
<1>7. CASE st.where.kind = "NONE"
  <2>1. n.qual = Null
    BY <1>2, <1>7 DEF IsWhere
  <2>2. c = [fn |-> "QU_Delete", relname |-> rel, where |-> [kind |-> "NONE"]]
    BY <1>4, <1>6, <2>1 DEF DeleteCallOf
  <2>3. /\ c.fn = "QU_Delete" /\ c.relname = rel /\ c.where.kind = "NONE"
        /\ "attrs" \notin DOMAIN c
    BY <2>2
  <2>. QED BY <1>1, <1>5, <1>6, <1>7, <2>3 DEF DeleteAnswer, Bounded
<1>8. CASE st.where.kind = "VALUE"
  <2>1. /\ n.qual \in DOMAIN nodepool /\ nodepool[n.qual].kind = "N_SELECT"
        /\ nodepool[n.qual].op = st.where.op
        /\ IsQualattr(Here, nodepool[n.qual].selattr, st.where.attr)
        /\ IsLiteral(Here, nodepool[n.qual].value, st.where.value)
    BY <1>2, <1>8 DEF IsWhere, Here
  <2>2. n.qual # Null
    BY <2>1, HereTyped DEF Null
  <2>3. st.where.value \in Literal /\ st.where.attr \in Qualattr
    BY <1>3, <1>8, WhereCases
  <2>4. PICK v : v = ValueOf(nodepool[n.qual].value)
    OBVIOUS
  <2>5. v = Passed(st.where.value)
    BY <2>1, <2>3, <2>4, LiteralValue
  <2>6. PICK a : a = RelAttr(nodepool[n.qual].selattr).attr
    OBVIOUS
  <2>7. a = st.where.attr.attr
    <3>1. IsName(charpool, nodepool[nodepool[n.qual].selattr].attrname, st.where.attr.attr)
      BY <2>1 DEF IsQualattr, Here
    <3>2. Name(nodepool[nodepool[n.qual].selattr].attrname) = st.where.attr.attr
      BY <3>1, NameIs, HereTyped
    <3>. QED BY <2>6, <3>2 DEF RelAttr
  <2>8. PICK op : op = nodepool[n.qual].op
    OBVIOUS
  <2>9. c = [fn |-> "QU_Delete", relname |-> rel,
             where |-> [kind |-> "VALUE", attr |-> a, op |-> op, value |-> v]]
    BY <1>4, <1>6, <2>1, <2>2, <2>4, <2>6, <2>8 DEF DeleteCallOf
  <2>10. /\ c.fn = "QU_Delete" /\ c.relname = rel /\ "attrs" \notin DOMAIN c
         /\ c.where = [kind |-> "VALUE", attr |-> a, op |-> op, value |-> v]
    BY <2>9
  <2>11. c.where.kind = "VALUE"
    BY <2>10
  <2>12. op = st.where.op
    BY <2>1, <2>8
  <2>. QED BY <1>1, <1>5, <1>6, <1>8, <2>5, <2>7, <2>10, <2>11, <2>12 DEF DeleteAnswer, Bounded
<1>9. CASE st.where.kind = "ATTR"
  <2>1. n.qual \in DOMAIN nodepool /\ nodepool[n.qual].kind = "N_JOIN"
    BY <1>2, <1>9 DEF IsWhere, Here
  <2>2. n.qual # Null
    BY <2>1, HereTyped DEF Null
  <2>3. c = Refused("Syntax Error")
    BY <1>6, <2>1, <2>2 DEF DeleteCallOf
  <2>4. c.fn = "none" /\ "attrs" \notin DOMAIN c /\ "where" \notin DOMAIN c
    BY <2>3 DEF Refused
  <2>. QED BY <1>1, <1>6, <1>9, <2>4 DEF DeleteAnswer, Bounded
<1>. QED BY <1>3, <1>7, <1>8, <1>9, WhereCases

\* The format of an attribute of CREATE.
LEMMA FormatDescribes ==
    ASSUME NEW x \in Attrtype
    PROVE  LET f == parse_format_string(FormatOf(x))
           IN  /\ ~f.ok => x.type = "char(" /\ x.len.bits \notin 1 .. 255
               /\ f.ok => \A g : g.attr = Field(x.attr) /\ g.type = f.type /\ g.len = f.len
                                   => Described(g, x)
<1>1. PICK f : f = parse_format_string(FormatOf(x))
  OBVIOUS
<1>2. CASE x.type = "int"
  <2>1. f = [ok |-> TRUE, type |-> "INTEGER", len |-> 4]
    BY <1>1, <1>2 DEF FormatOf, parse_format_string, IntFormat, FloatFormat
  <2>. QED BY <1>1, <1>2, <2>1 DEF Described
<1>3. CASE x.type = "real"
  <2>1. f = [ok |-> TRUE, type |-> "FLOAT", len |-> 4]
    BY <1>1, <1>3 DEF FormatOf, parse_format_string, IntFormat, FloatFormat
  <2>. QED BY <1>1, <1>3, <2>1 DEF Described
<1>4. CASE x.type = "char"
  <2>1. f = [ok |-> TRUE, type |-> "STRING", len |-> 2]
    BY <1>1, <1>4 DEF FormatOf, parse_format_string, IntFormat, FloatFormat
  <2>. QED BY <1>1, <1>4, <2>1 DEF Described
<1>5. CASE x.type = "char("
  <2>1. PICK b \in Int : b = x.len.bits
    BY <1>5 DEF Attrtype, Number
  <2>2. f = parse_format_string(b)
    BY <1>1, <1>5, <2>1 DEF FormatOf
  <2>3. CASE b \in 1 .. 255
    <3>1. f = [ok |-> TRUE, type |-> "STRING", len |-> b]
      BY <2>2, <2>3 DEF parse_format_string, IntFormat, FloatFormat
    <3>. QED BY <1>1, <1>5, <2>1, <3>1 DEF Described
  <2>4. CASE b \notin 1 .. 255 /\ b >= 0
    <3>1. f = [ok |-> FALSE]
      BY <2>2, <2>4 DEF parse_format_string, IntFormat, FloatFormat
    <3>. QED BY <1>1, <1>5, <2>1, <2>4, <3>1
  <2>5. CASE ~(b >= 0)
    <3>1. b \notin 1 .. 255
      BY <2>5
    <3>. QED BY <1>1, <1>5, <2>1, <2>5, <3>1 DEF Described
  <2>. QED BY <2>1, <2>3, <2>4, <2>5
<1>6. x.type \in {"int", "real", "char", "char("}
  BY DEF Attrtype
<1>. QED BY <1>2, <1>3, <1>4, <1>5, <1>6

LEMMA CreateAnswered ==
    ASSUME Here \in Place, NEW st \in Statement, st.kind = "CREATE", IsTree(st, Here)
    PROVE  LET c == CreateCallOf(nodepool[Len(nodepool)]) IN CreateAnswer(st, c) /\ Bounded(c)
<1>1. PICK n : n = nodepool[Len(nodepool)]
  OBVIOUS
<1>2. PICK ap : /\ n.kind = "N_CREATE" /\ IsName(charpool, n.relname, st.rel)
                /\ IsList(Here, n.attrlist, ap, st.attrs, Attrtypes)
  BY <1>1 DEF IsTree, Here
<1>3. st.rel \in Str /\ st.attrs \in List(Attrtype)
  BY StatementParts
<1>4. /\ n.attrlist \in Nat /\ ListAt(nodepool, n.attrlist, ap) /\ ap \in Seq(Nat)
      /\ Len(ap) = Len(st.attrs)
      /\ \A k \in 1 .. Len(st.attrs) : IsAttrtype(Here, ap[k], st.attrs[k])
  <2>1. n.attrlist \in DOMAIN nodepool /\ ListAt(nodepool, n.attrlist, ap)
    BY <1>2 DEF IsList, Here
  <2>2. /\ ap \in Seq(Nat) /\ Len(ap) = Len(st.attrs)
        /\ \A k \in 1 .. Len(st.attrs) : <<Here, ap[k], st.attrs[k]>> \in Attrtypes
    BY <1>2 DEF IsList, AreElements
  <2>3. \A k \in 1 .. Len(st.attrs) : IsAttrtype(Here, ap[k], st.attrs[k])
    BY <2>2 DEF Attrtypes
  <2>4. n.attrlist \in Nat
    BY <2>1, HereTyped
  <2>. QED BY <2>1, <2>2, <2>3, <2>4
<1>5. PICK s : s = Upto(n.attrlist)
  OBVIOUS
<1>6. PICK m \in Nat, len \in Nat : LookedAt(s, ap, st.attrs, m, len)
  BY <1>3, <1>4, <1>5, FirstElements
<1>7. /\ DOMAIN s = 1 .. m /\ Len(s) = m /\ DOMAIN st.attrs = 1 .. len /\ Len(st.attrs) = len
      /\ m <= len /\ m <= MaxAttrs /\ (m # MaxAttrs => m = len)
      /\ \A k \in 1 .. m : s[k] = ap[k] /\ k \in 1 .. len
  BY <1>6 DEF LookedAt
<1>8. PICK formats : formats = [k \in 1 .. m |-> parse_format_string(FormatOf(st.attrs[k]))]
  OBVIOUS
<1>9. PICK descrs : descrs = [k \in 1 .. m |-> [attr |-> st.attrs[k].attr,
                                                type |-> formats[k].type, len |-> formats[k].len]]
  OBVIOUS
<1>10. ASSUME NEW k \in 1 .. m
       PROVE  /\ st.attrs[k] \in Attrtype /\ st.attrs[k] \in Range(st.attrs)
              /\ Name(nodepool[s[k]].attrname) = st.attrs[k].attr
              /\ nodepool[s[k]].type = FormatOf(st.attrs[k])
  <2>1. s[k] = ap[k] /\ k \in 1 .. Len(st.attrs) /\ k \in DOMAIN st.attrs
    BY <1>7
  <2>2. st.attrs[k] \in Attrtype /\ st.attrs[k] \in Range(st.attrs)
    BY <1>3, <2>1 DEF List, Range
  <2>3. /\ IsName(charpool, nodepool[s[k]].attrname, st.attrs[k].attr)
        /\ nodepool[s[k]].type = FormatOf(st.attrs[k])
    BY <1>4, <2>1 DEF IsAttrtype, Here
  <2>4. Name(nodepool[s[k]].attrname) = st.attrs[k].attr
    BY <2>3, NameIs, HereTyped
  <2>. QED BY <2>2, <2>3, <2>4
<1>11. formats = [k \in DOMAIN s |-> parse_format_string(nodepool[s[k]].type)]
  BY <1>7, <1>8, <1>10
<1>12. descrs = [k \in DOMAIN s |-> [attr |-> Name(nodepool[s[k]].attrname),
                                     type |-> formats[k].type, len |-> formats[k].len]]
  BY <1>7, <1>9, <1>10
<1>13. PICK mk : mk = mk_attr_descrs(n.attrlist)
  OBVIOUS
<1>14. mk = IF \E k \in DOMAIN formats : ~formats[k].ok THEN Refused("E_INVFORMATSTRING")
            ELSE IF TooMany(Len(s)) THEN Refused("E_TOOMANYATTRS")
            ELSE [fn |-> "attr_descrs", attrs |-> descrs]
  BY <1>5, <1>11, <1>12, <1>13 DEF mk_attr_descrs
<1>15. PICK c : c = CreateCallOf(n)
  OBVIOUS
<1>16. PICK rel : rel = Name(n.relname)
  OBVIOUS
<1>17. c = IF mk.fn = "none" THEN mk
           ELSE [fn |-> "createRel", relname |-> rel,
                 attrs |-> [k \in DOMAIN mk.attrs |-> [mk.attrs[k] EXCEPT !.attr = Field(@)]]]
  BY <1>13, <1>15, <1>16 DEF CreateCallOf
<1>18. CASE \E k \in DOMAIN formats : ~formats[k].ok
  <2>1. PICK k \in 1 .. m : ~formats[k].ok
    BY <1>8, <1>18
  <2>2. ~parse_format_string(FormatOf(st.attrs[k])).ok
    BY <1>8, <2>1
  <2>3. st.attrs[k].type = "char(" /\ st.attrs[k].len.bits \notin 1 .. 255
    BY <1>10, <2>2, FormatDescribes
  <2>4. mk = Refused("E_INVFORMATSTRING")
    BY <1>14, <1>18
  <2>5. c.fn = "none" /\ "attrs" \notin DOMAIN c
    BY <1>17, <2>4 DEF Refused
  <2>. QED BY <1>1, <1>10, <1>15, <2>3, <2>5 DEF CreateAnswer, Bounded
<1>19. CASE (~\E k \in DOMAIN formats : ~formats[k].ok) /\ m = MaxAttrs
  <2>1. Len(st.attrs) >= MaxAttrs
    <3>1. len >= MaxAttrs
      BY <1>7, <1>19, PoolsAssumption
    <3>. QED BY <1>7, <3>1
  <2>2. TooMany(Len(s))
    BY <1>7, <1>19 DEF TooMany
  <2>3. mk = Refused("E_TOOMANYATTRS")
    BY <1>14, <1>19, <2>2
  <2>4. c.fn = "none" /\ "attrs" \notin DOMAIN c
    BY <1>17, <2>3 DEF Refused
  <2>. QED BY <1>1, <1>15, <2>1, <2>4 DEF CreateAnswer, Bounded
<1>20. CASE (~\E k \in DOMAIN formats : ~formats[k].ok) /\ m # MaxAttrs
  <2>1. ~TooMany(Len(s))
    BY <1>7, <1>20 DEF TooMany
  <2>2. mk = [fn |-> "attr_descrs", attrs |-> descrs]
    BY <1>14, <1>20, <2>1
  <2>3. PICK given : given = [k \in DOMAIN descrs |-> [descrs[k] EXCEPT !.attr = Field(@)]]
    OBVIOUS
  <2>4. c = [fn |-> "createRel", relname |-> rel, attrs |-> given]
    BY <1>17, <2>2, <2>3
  <2>5. c.fn = "createRel" /\ c.relname = rel /\ c.attrs = given
    BY <2>4
  <2>6. rel = st.rel
    BY <1>2, <1>16, NameIs, HereTyped
  <2>7. m = len
    BY <1>7, <1>20
  <2>8. DOMAIN given = 1 .. m /\ Len(given) = m
    BY <1>9, <2>3
  <2>9. Len(given) = Len(st.attrs)
    BY <1>7, <2>7, <2>8
  <2>10. Len(given) <= MaxAttrs + 1
    <3>1. m <= MaxAttrs + 1
      BY <1>7, PoolsAssumption
    <3>. QED BY <2>8, <3>1
  <2>11. ASSUME NEW k \in DOMAIN st.attrs PROVE Described(given[k], st.attrs[k])
    <3>1. k \in 1 .. m
      BY <1>7, <2>7
    <3>2. k \in DOMAIN formats /\ formats[k] = parse_format_string(FormatOf(st.attrs[k]))
      BY <1>8, <3>1
    <3>3. formats[k].ok
      BY <1>20, <3>2
    <3>4. descrs[k] = [attr |-> st.attrs[k].attr, type |-> formats[k].type, len |-> formats[k].len]
      BY <1>9, <3>1
    <3>5. given[k] = [descrs[k] EXCEPT !.attr = Field(@)]
      BY <1>9, <2>3, <3>1
    <3>6. /\ given[k].attr = Field(st.attrs[k].attr) /\ given[k].type = formats[k].type
          /\ given[k].len = formats[k].len
      BY <3>4, <3>5
    <3>. QED BY <1>10, <3>1, <3>2, <3>3, <3>6, FormatDescribes
  <2>. QED BY <1>1, <1>15, <2>5, <2>6, <2>9, <2>10, <2>11 DEF CreateAnswer, Bounded
<1>. QED BY <1>18, <1>19, <1>20

-----------------------------------------------------------------------------
(* The invariant.                                                          *)

Modes ==
    {"PROMPT", "READ", "INTERP", "QUIT", "ABORT", "OUT_OF_NODES", "OUT_OF_CHARS", "OVERRUN"}

\* The pools and the call are as TypeOK says.
Sized ==
    /\ Here \in Place /\ Len(nodepool) <= MaxNode /\ charptr <= MaxChar
    /\ parse_tree \in 0 .. MaxNode /\ Bounded(call) /\ mode \in Modes

\* The moves p are left before the statement is read.
MovesLeft(st, p, d) ==
    /\ script = p \o Rest(st) /\ p \in Seq(AnyMove) /\ Runs(Here, p, d)
    /\ IsRead(st, d) /\ d.used = CharsOf(st)

Tree(st, d) ==
    CASE st.kind = "SELECT" -> IsQueryTree(st, d)
      [] st.kind = "INSERT" -> IsInsertTree(st, d)
      [] OTHER -> IsTree(st, d)

HasTree(st) ==
    /\ st.kind \notin {"EMPTY", "SHELL", "QUIT", "EOF"} /\ Tree(st, Here)
    /\ Len(nodepool) = NodesOf(st) /\ Len(nodepool) \in DOMAIN nodepool

\* There is a reason that the statement has no tree.
Refusable(st) ==
    \/ st.kind = "SELECT" /\ MayRefuse(st)
    \/ st.kind = "INSERT" /\ Len(st.attrs) # Len(st.values)

\* A query or an INSERT has been rewritten.
Finished(st) ==
    /\ script = <<Move("command")>>
    /\ \/ stack = <<Null>> /\ Refusable(st)
       \/ stack = <<Len(nodepool)>> /\ HasTree(st)

Reading ==
    mode = "READ" => /\ stmt \in Statements /\ call = NoCall
                     /\ (\E p, d : MovesLeft(stmt, p, d)) \/ Finished(stmt)

Interpreting ==
    mode = "INTERP" => /\ stmt \in Statements /\ call = NoCall
                       /\ parse_tree = Len(nodepool) /\ HasTree(stmt)

IInv == Sized /\ Reading /\ Interpreting /\ StopsForCause /\ QueryCall /\ UpdateCall

LEMMA StatementsTyped == \A st \in Statements : st \in Statement
BY StatementsAssumption

LEMMA InvariantStarts == Init => IInv
<1>. SUFFICES ASSUME Init PROVE IInv
  OBVIOUS
<1>. USE DEF Init
<1>1. Here = EmptyPlace
  BY DEF Here, EmptyPlace
<1>2. Sized
  BY <1>1, EmptyPlaceTyped, PoolsAssumption DEF Sized, Null, Bounded, NoCall, Modes
<1>3. Reading /\ Interpreting /\ StopsForCause
  BY DEF Reading, Interpreting, StopsForCause
<1>4. QueryCall /\ UpdateCall
  BY DEF QueryCall, UpdateCall, Answered
<1>. QED BY <1>2, <1>3, <1>4 DEF IInv

\* Nothing is asked of a statement that is still being executed.
\* One move further, at e.
Goes(st, e) ==
    /\ e \in Place /\ e.used <= CharsOf(st) /\ CharsOf(st) \in Nat
    /\ Len(e.nodes) <= NodesOf(st) /\ NodesOf(st) \in Nat
    /\ \E p, d : /\ Tail(script) = p \o Rest(st) /\ p \in Seq(AnyMove) /\ Runs(e, p, d)
                 /\ IsRead(st, d) /\ d.used = CharsOf(st)

LEMMA RestNotEmpty ==
    ASSUME NEW st \in Statement
    PROVE  /\ Rest(st) \in Seq(AnyMove) /\ Rest(st) # <<>> /\ Rest(st) = <<>> \o Rest(st)
           /\ Head(Rest(st)) \in {Move("query"), Move("insert"), Move("command"), Move("shell"),
                                  Move("quit")}
<1>1. Rest(st) \in {<<Move("query"), Move("command")>>, <<Move("insert"), Move("command")>>,
                    <<Move("shell")>>, <<Move("quit")>>, <<Move("command")>>}
  BY DEF Rest
<1>2. \A q \in {"query", "insert", "command", "shell", "quit"} : Move(q) \in AnyMove
  BY DEF Move, AnyMove
<1>3. Rest(st) \in Seq(AnyMove) /\ Rest(st) # <<>>
  <2>1. \A a, b \in AnyMove : /\ <<a>> \in Seq(AnyMove) /\ <<a, b>> \in Seq(AnyMove)
                              /\ <<a>> # <<>> /\ <<a, b>> # <<>>
    OBVIOUS
  <2>. QED BY <1>1, <1>2, <2>1
<1>4. Head(Rest(st)) \in {Move("query"), Move("insert"), Move("command"), Move("shell"),
                          Move("quit")}
  BY <1>1
<1>. QED BY <1>3, <1>4, ConcatEmptySeq

\* A statement that is read has not more nodes than it may have.
LEMMA NodesEnough ==
    ASSUME NEW st \in Statement, NEW d \in Place, IsRead(st, d)
    PROVE  Len(d.nodes) <= NodesOf(st) /\ NodesOf(st) \in Nat
<1>1. Len(d.nodes) \in Nat
  BY PlaceTyped
<1>2. CASE st.kind \in {"SELECT", "INSERT"}
  <2>1. Len(d.nodes) + 1 = NodesOf(st)
    BY <1>2 DEF IsRead, IsQueryRead, IsInsertRead
  <2>. QED BY <1>1, <2>1
<1>3. CASE st.kind \in {"EMPTY", "SHELL", "QUIT", "EOF"}
  <2>1. d.nodes = <<>>
    BY <1>3 DEF IsRead
  <2>2. NodesOf(st) = 1 /\ Len(d.nodes) = 0
    BY <1>3, <2>1 DEF NodesOf
  <2>. QED BY <2>2
<1>4. CASE st.kind \notin {"SELECT", "INSERT", "EMPTY", "SHELL", "QUIT", "EOF"}
  <2>1. Len(d.nodes) = NodesOf(st)
    BY <1>4 DEF IsRead, IsTreeRead
  <2>. QED BY <1>1, <2>1
<1>. QED BY <1>2, <1>3, <1>4

LEMMA FirstOfMoves ==
    ASSUME NEW p \in Seq(AnyMove), p # <<>>, NEW r \in Seq(AnyMove)
    PROVE  /\ Head(p \o r) = Head(p) /\ Tail(p \o r) = Tail(p) \o r /\ Head(p) \in AnyMove
           /\ Tail(p) \in Seq(AnyMove)
<1>1. Head(p \o r) = Head(p) /\ Head(p) \in AnyMove /\ Tail(p) \in Seq(AnyMove)
  OBVIOUS
<1>2. PICK x : x = Head(p)
  OBVIOUS
<1>3. PICK q \in Seq(AnyMove) : q = Tail(p)
  BY <1>1
<1>4. p = <<x>> \o q /\ x \in AnyMove
  BY <1>1, <1>2, <1>3
<1>5. p \o r = <<x>> \o (q \o r)
  <2>1. <<x>> \in Seq(AnyMove)
    BY <1>4
  <2>. QED BY <1>4, <2>1, ConcatAssociative
<1>6. q \o r \in Seq(AnyMove)
  OBVIOUS
<1>7. \A s \in Seq(AnyMove) : Tail(<<x>> \o s) = s
  BY <1>4
<1>8. Tail(p \o r) = q \o r
  BY <1>5, <1>6, <1>7
<1>. QED BY <1>1, <1>3, <1>8

LEMMA MoveAhead ==
    ASSUME Here \in Place, NEW st \in Statement, NEW p, NEW d, MovesLeft(st, p, d), p # <<>>
    PROVE  /\ \E e : Step(Here, Head(script), e) /\ Goes(st, e)
           /\ Head(script) \in AnyMove
<1>1. /\ script = p \o Rest(st) /\ p \in Seq(AnyMove) /\ Runs(Here, p, d) /\ IsRead(st, d)
      /\ d.used = CharsOf(st)
  BY DEF MovesLeft
<1>2. /\ Head(script) = Head(p) /\ Tail(script) = Tail(p) \o Rest(st)
      /\ Head(p) \in AnyMove /\ Tail(p) \in Seq(AnyMove)
  BY <1>1, FirstOfMoves, RestNotEmpty
<1>3. PICK e \in Place : /\ Step(Here, Head(p), e) /\ Runs(e, Tail(p), d) /\ Extends(e, d)
                         /\ d \in Place
  BY <1>1, FirstMove
<1>4. /\ Len(d.nodes) <= NodesOf(st) /\ NodesOf(st) \in Nat
  BY <1>1, <1>3, NodesEnough
<1>5. /\ Len(e.nodes) \in Nat /\ Len(d.nodes) \in Nat /\ e.used \in Nat /\ d.used \in Nat
  BY <1>3, PlaceTyped
<1>6. Len(e.nodes) <= NodesOf(st)
  <2>1. Len(e.nodes) <= Len(d.nodes)
    BY <1>3 DEF Extends
  <2>. QED BY <1>4, <1>5, <2>1
<1>7. e.used <= CharsOf(st) /\ CharsOf(st) \in Nat
  BY <1>1, <1>3, <1>5 DEF Extends
<1>8. Goes(st, e)
  BY <1>1, <1>2, <1>3, <1>4, <1>6, <1>7 DEF Goes
<1>. QED BY <1>2, <1>3, <1>8

\* At the end the parser is where the statement is read.
LEMMA AtEnd ==
    ASSUME NEW st \in Statement, NEW p, NEW d, MovesLeft(st, p, d), p = <<>>
    PROVE  script = Rest(st) /\ IsRead(st, Here) /\ charptr = CharsOf(st)
<1>1. Here = d
  BY NoneLeft DEF MovesLeft
<1>2. script = <<>> \o Rest(st) /\ IsRead(st, d) /\ d.used = CharsOf(st)
  BY DEF MovesLeft
<1>3. Here.used = charptr
  BY DEF Here
<1>. QED BY <1>1, <1>2, <1>3, RestNotEmpty

Ends == {"query", "insert", "command", "shell", "quit"}

LEMMA LastMoves ==
    /\ \A q \in Ends : Move(q).op = q /\ ~Reduces(Move(q)) /\ q \notin {"id", "qstring", "nothing"}
    /\ Head(<<Move("command")>>) = Move("command")
    /\ \A m \in AnyMove : Reduces(m) => m.op \notin Ends
BY DEF Ends, Move, Reduces, AnyMove

LEMMA MoveOrEnd ==
    ASSUME Sized, Reading, mode = "READ"
    PROVE  \/ /\ Head(script) \in AnyMove /\ Head(script).op \notin Ends
              /\ \E e : Step(Here, Head(script), e) /\ Goes(stmt, e)
           \/ /\ Head(script).op \in Ends /\ ~Reduces(Head(script))
              /\ \/ script = Rest(stmt) /\ IsRead(stmt, Here)
                 \/ Finished(stmt)
<1>1. Here \in Place /\ stmt \in Statement
  BY StatementsTyped DEF Sized, Reading
<1>2. CASE Finished(stmt)
  <2>1. Head(script) = Move("command")
    BY <1>2, LastMoves DEF Finished
  <2>2. "command" \in Ends
    BY DEF Ends
  <2>. QED BY <1>2, <2>1, <2>2, LastMoves
<1>3. ASSUME NEW p, NEW d, MovesLeft(stmt, p, d), p # <<>>
      PROVE  /\ Head(script) \in AnyMove /\ Head(script).op \notin Ends
             /\ \E e : Step(Here, Head(script), e) /\ Goes(stmt, e)
  <2>1. /\ \E e : Step(Here, Head(script), e) /\ Goes(stmt, e)
        /\ Head(script) \in AnyMove
    BY <1>1, <1>3, MoveAhead
  <2>2. \/ Pushes(Head(script)) \/ Head(script).op = "nothing" \/ Reduces(Head(script))
    BY <2>1 DEF Step
  <2>3. Head(script).op \notin Ends
    BY <2>1, <2>2, LastMoves DEF Pushes, Ends
  <2>. QED BY <2>1, <2>3
<1>4. ASSUME NEW p, NEW d, MovesLeft(stmt, p, d), p = <<>>
      PROVE  /\ Head(script).op \in Ends /\ ~Reduces(Head(script))
             /\ script = Rest(stmt) /\ IsRead(stmt, Here)
  <2>1. script = Rest(stmt) /\ IsRead(stmt, Here)
    BY <1>1, <1>4, AtEnd
  <2>2. \E q \in Ends : Head(script) = Move(q)
    BY <1>1, <2>1, RestNotEmpty DEF Ends
  <2>. QED BY <2>1, <2>2, LastMoves
<1>. QED BY <1>2, <1>3, <1>4 DEF Reading

-----------------------------------------------------------------------------
(* The steps of the parser.                                                *)

\* A move for which there is room.
LEMMA Moved ==
    ASSUME IInv, mode = "READ", NEW e, Goes(stmt, e), Here' = e, script' = Tail(script),
           UNCHANGED <<stmt, parse_tree, call, mode>>,
           Len(nodepool') <= MaxNode, charptr' <= MaxChar
    PROVE  IInv'
<1>1. Sized /\ Reading
  BY DEF IInv
<1>2. Here' \in Place
  BY DEF Goes
<1>3. Sized'
  BY <1>1, <1>2 DEF Sized, Bounded
<1>4. PICK p, d : MovesLeft(stmt, p, d)'
  BY DEF Goes, MovesLeft
<1>5. Reading'
  BY <1>1, <1>4 DEF Reading
<1>6. mode' = "READ"
  OBVIOUS
<1>7. Interpreting' /\ StopsForCause'
  BY <1>6 DEF Interpreting, StopsForCause
<1>8. QueryCall' /\ UpdateCall'
  BY <1>6 DEF QueryCall, UpdateCall, Answered
<1>. QED BY <1>3, <1>5, <1>7, <1>8 DEF IInv

\* A literal of the statement is copied and too long for value_of.
Overruns(st) ==
    \E v \in ValuesOf(st) : LongerThan(v, MaxValue) /\ (st.kind = "INSERT" => ~TooLong(v))

\* The program ends.
LEMMA Stopped ==
    ASSUME IInv, NEW why \in {"QUIT", "ABORT", "OUT_OF_NODES", "OUT_OF_CHARS", "OVERRUN"},
           Stop(why),
           why = "OUT_OF_NODES" => NodesOf(stmt) > MaxNode,
           why = "OUT_OF_CHARS" => CharsOf(stmt) > MaxChar,
           why = "QUIT" => stmt.kind \in {"QUIT", "EOF"},
           why = "ABORT" => stmt.kind \in {"BUILD", "DROP"},
           why = "OVERRUN" => Overruns(stmt)
    PROVE  IInv'
<1>1. /\ mode' = why
      /\ UNCHANGED <<stmt, script, nodepool, charpool, charptr, stack, parse_tree, call>>
  BY DEF Stop
<1>2. Here' = Here
  BY <1>1 DEF Here
<1>3. Sized'
  BY <1>1, <1>2 DEF IInv, Sized, Bounded, Modes
<1>4. Reading' /\ Interpreting'
  BY <1>1 DEF Reading, Interpreting
<1>5. StopsForCause'
  BY <1>1 DEF StopsForCause, Overruns
<1>6. QueryCall' /\ UpdateCall'
  BY <1>1 DEF QueryCall, UpdateCall, Answered
<1>. QED BY <1>3, <1>4, <1>5, <1>6 DEF IInv

LEMMA PromptStep ==
    ASSUME IInv, NEW st \in Statements, Prompt(st)
    PROVE  IInv'
<1>. USE DEF Prompt
<1>1. Here' = EmptyPlace
  BY DEF Here, EmptyPlace
<1>2. Sized'
  BY <1>1, EmptyPlaceTyped, PoolsAssumption DEF IInv, Sized, Bounded, NoCall, Modes
<1>3. Reading'
  <2>1. PICK p, d : StatementRead(st, p, d) /\ IsRead(st, d)
    BY StatementsTyped, ReadStatement
  <2>2. MovesLeft(stmt, p, d)'
    BY <1>1, <2>1 DEF StatementRead, MovesLeft
  <2>. QED BY <2>2 DEF Reading
<1>4. Interpreting' /\ StopsForCause'
  BY DEF Interpreting, StopsForCause
<1>5. QueryCall' /\ UpdateCall'
  BY DEF QueryCall, UpdateCall, Answered
<1>. QED BY <1>2, <1>3, <1>4, <1>5 DEF IInv

LEMMA SyntaxErrorStep ==
    ASSUME IInv, SyntaxError
    PROVE  IInv'
<1>. USE DEF SyntaxError
<1>1. Here' = [nodes |-> nodepool, chars |-> <<>>, used |-> 0, stack |-> <<>>]
  BY DEF Here
<1>2. Here' \in Place
  <2>1. nodepool \in Seq(Node) /\ Linked(nodepool)
    BY HereTyped DEF IInv, Sized
  <2>2. <<>> \in Seq(Str) /\ <<>> \in Seq(Nat)
    OBVIOUS
  <2>. QED BY <1>1, <2>1, <2>2 DEF Place
<1>3. Sized'
  BY <1>2, PoolsAssumption DEF IInv, Sized, Bounded, Modes, Null
<1>4. Reading' /\ Interpreting' /\ StopsForCause'
  BY DEF Reading, Interpreting, StopsForCause
<1>5. QueryCall' /\ UpdateCall'
  BY DEF QueryCall, UpdateCall, Answered
<1>. QED BY <1>3, <1>4, <1>5 DEF IInv

\* get_id and get_qstring.
LEMMA StringStep ==
    ASSUME IInv, mode = "READ", Head(script).op \in {"id", "qstring"},
           string_alloc(Head(script).str)
    PROVE  IInv'
<1>1. Sized /\ Reading /\ Here \in Place
  BY DEF IInv, Sized
<1>2. Head(script).op \notin Ends
  BY DEF Ends
<1>3. PICK e : /\ Head(script) \in AnyMove /\ Step(Here, Head(script), e) /\ Goes(stmt, e)
  BY <1>1, <1>2, MoveOrEnd
<1>4. Head(script).str \in Str /\ ~Reduces(Head(script))
  BY <1>3 DEF AnyMove, Reduces
<1>5. PICK s \in Str : s = Head(script).str
  BY <1>4
<1>6. e = Pushed(Here, s)
  BY <1>3, <1>4, <1>5 DEF Step
<1>7. e.used = charptr + StrLen[s] + 1 /\ charptr \in Nat /\ StrLen[s] \in Nat
  BY <1>1, <1>6, HereTyped, StringsAssumption DEF Pushed, Here
<1>8. PICK b \in Nat : b = StrLen[s]
  BY <1>7
<1>9. CASE NoRoom(b + 1)
  <2>1. charptr + (b + 1) > MaxChar
    BY <1>9 DEF NoRoom
  <2>2. e.used = charptr + b + 1
    BY <1>7, <1>8
  <2>3. charptr + b + 1 <= CharsOf(stmt) /\ CharsOf(stmt) \in Nat
    BY <1>3, <2>2 DEF Goes
  <2>4. CharsOf(stmt) > MaxChar
    BY <1>7, <2>1, <2>3, PoolsAssumption
  <2>5. Stop("OUT_OF_CHARS")
    BY <1>5, <1>8, <1>9 DEF string_alloc
  <2>. QED BY <2>4, <2>5, Stopped
<1>10. CASE ~NoRoom(b + 1)
  <2>1. /\ charptr' = charptr + b + 1 /\ charpool' = Append(charpool, s)
        /\ stack' = Append(stack, Len(charpool) + 1) /\ script' = Tail(script)
        /\ UNCHANGED <<stmt, nodepool, parse_tree, call, mode>>
    BY <1>5, <1>7, <1>8, <1>10 DEF string_alloc
  <2>2. Here' = e
    BY <1>6, <1>8, <2>1 DEF Here, Pushed
  <2>3. charptr' <= MaxChar
    <3>1. ~(charptr + (b + 1) > MaxChar)
      BY <1>10 DEF NoRoom
    <3>. QED BY <1>7, <2>1, <3>1, PoolsAssumption
  <2>4. Len(nodepool') <= MaxNode
    BY <1>1, <2>1 DEF Sized
  <2>. QED BY <1>3, <2>1, <2>2, <2>3, <2>4, Moved
<1>. QED BY <1>9, <1>10

LEMMA NothingStep ==
    ASSUME IInv, nothing
    PROVE  IInv'
<1>1. /\ mode = "READ" /\ Head(script).op = "nothing"
      /\ stack' = Append(stack, Null) /\ script' = Tail(script)
      /\ UNCHANGED <<stmt, nodepool, charpool, charptr, parse_tree, call, mode>>
  BY DEF nothing, Ahead
<1>2. Sized /\ Reading
  BY DEF IInv
<1>3. Head(script).op \notin Ends
  BY <1>1 DEF Ends
<1>4. PICK e : /\ Head(script) \in AnyMove /\ Step(Here, Head(script), e) /\ Goes(stmt, e)
  BY <1>1, <1>2, <1>3, MoveOrEnd
<1>5. ~Reduces(Head(script)) /\ ~Pushes(Head(script))
  BY <1>1, <1>4 DEF AnyMove, Reduces, Pushes
<1>6. e = LeftOut(Here)
  BY <1>4, <1>5 DEF Step
<1>7. Here' = e
  BY <1>1, <1>6 DEF Here, LeftOut
<1>8. Len(nodepool') <= MaxNode /\ charptr' <= MaxChar
  BY <1>1, <1>2 DEF Sized
<1>. QED BY <1>1, <1>4, <1>7, <1>8, Moved

LEMMA ReduceStep ==
    ASSUME IInv, ReduceNode
    PROVE  IInv'
<1>1. mode = "READ" /\ Reduces(Head(script))
  BY DEF ReduceNode, Reduces
<1>2. Sized /\ Reading /\ Here \in Place
  BY DEF IInv, Sized
<1>3. PICK e : /\ Head(script) \in AnyMove /\ Step(Here, Head(script), e) /\ Goes(stmt, e)
  BY <1>1, <1>2, MoveOrEnd
<1>4. ~Pushes(Head(script)) /\ Head(script).op # "nothing"
  BY <1>1, <1>3 DEF AnyMove, Reduces, Pushes
<1>5. PICK n : n = Head(script).arity
  OBVIOUS
<1>6. PICK node : node = NodeOf(nodepool, Head(script), [i \in 1 .. n |-> Arg(n, i)])
  OBVIOUS
<1>7. e = Reduced(Here, n, node)
  <2>1. Top(Here, n) = [i \in 1 .. n |-> Arg(n, i)]
    BY DEF Top, Here, Arg
  <2>2. e = Reduced(Here, n, NodeOf(Here.nodes, Head(script), Top(Here, n)))
    BY <1>3, <1>4, <1>5 DEF Step
  <2>3. Here.nodes = nodepool
    BY DEF Here
  <2>. QED BY <1>6, <2>1, <2>2, <2>3
<1>8. newnode(nodepool, n, node)
  BY <1>5, <1>6 DEF ReduceNode
<1>9. PICK len : len = Len(nodepool)
  OBVIOUS
<1>10. nodepool \in Seq(Node) /\ len \in Nat /\ len <= MaxNode
  BY <1>2, <1>9, HereTyped DEF Sized
<1>11. e.nodes = Append(nodepool, node)
  BY <1>7 DEF Reduced, Here
<1>12. Len(e.nodes) = len + 1
  <2>1. e.nodes \in Seq(Node)
    BY <1>3, PlaceTyped DEF Goes
  <2>. QED BY <1>9, <1>10, <1>11
<1>13. CASE PoolFull(nodepool)
  <2>1. len = MaxNode
    BY <1>9, <1>13 DEF PoolFull
  <2>2. len + 1 <= NodesOf(stmt) /\ NodesOf(stmt) \in Nat
    BY <1>3, <1>12 DEF Goes
  <2>3. NodesOf(stmt) > MaxNode
    BY <1>10, <2>1, <2>2
  <2>4. Stop("OUT_OF_NODES")
    BY <1>8, <1>13 DEF newnode
  <2>. QED BY <2>3, <2>4, Stopped
<1>14. CASE ~PoolFull(nodepool)
  <2>1. /\ nodepool' = Append(nodepool, node)
        /\ stack' = Append(SubSeq(stack, 1, Len(stack) - n), Len(nodepool) + 1)
        /\ script' = Tail(script)
        /\ UNCHANGED <<stmt, charpool, charptr, parse_tree, call, mode>>
    BY <1>8, <1>14 DEF newnode
  <2>2. Here' = e
    BY <1>7, <2>1 DEF Here, Reduced
  <2>3. Len(nodepool') <= MaxNode
    <3>1. len # MaxNode
      BY <1>9, <1>14 DEF PoolFull
    <3>2. Len(nodepool') = len + 1
      BY <1>11, <1>12, <2>1
    <3>3. len + 1 <= MaxNode
      BY <1>10, <3>1, PoolsAssumption
    <3>. QED BY <3>2, <3>3
  <2>4. charptr' <= MaxChar
    BY <1>2, <2>1 DEF Sized
  <2>. QED BY <1>1, <1>3, <2>1, <2>2, <2>3, <2>4, Moved
<1>. QED BY <1>13, <1>14

\* The parser has read a query or an INSERT, whose n parts are on the stack.
Complete(n) ==
    /\ mode = "READ" /\ stmt.kind \in {"SELECT", "INSERT"} /\ stmt \in Statement
    /\ Tail(script) = <<Move("command")>> /\ n \in Nat /\ Len(stack) = n
    /\ Len(nodepool) + 1 = NodesOf(stmt)

LEMMA AllTaken ==
    ASSUME Here \in Place, NEW n \in Nat, Len(stack) = n, NEW v
    PROVE  Append(SubSeq(stack, 1, Len(stack) - n), v) = <<v>>
<1>1. Len(stack) - n = 0 /\ stack \in Seq(Nat)
  BY HereTyped
<1>2. SubSeq(stack, 1, 0) = <<>>
  BY <1>1
<1>3. Append(<<>>, v) = <<v>>
  OBVIOUS
<1>. QED BY <1>1, <1>2, <1>3

LEMMA Refusing ==
    ASSUME IInv, NEW n, Complete(n), NEW pool \in Seq(Node), Linked(pool),
           Len(pool) = Len(nodepool), NoTree(pool, n), Refusable(stmt)
    PROVE  IInv'
<1>1. Sized /\ Reading /\ Here \in Place
  BY DEF IInv, Sized
<1>2. /\ nodepool' = pool /\ stack' = <<Null>> /\ script' = <<Move("command")>>
      /\ mode' = "READ" /\ UNCHANGED <<stmt, charpool, charptr, parse_tree, call, mode>>
  BY <1>1, AllTaken DEF NoTree, Complete
<1>3. Here' \in Place
  <2>1. <<Null>> \in Seq(Nat)
    BY DEF Null
  <2>2. [nodes |-> pool, chars |-> charpool, used |-> charptr, stack |-> <<Null>>] \in Place
    BY <1>1, <2>1, PoolKept
  <2>. QED BY <1>2, <2>2 DEF Here
<1>4. Sized'
  BY <1>1, <1>2, <1>3 DEF Sized, Bounded
<1>5. Finished(stmt)'
  <2>1. Refusable(stmt')
    BY <1>2
  <2>. QED BY <1>2, <2>1 DEF Finished
<1>6. Reading'
  BY <1>1, <1>2, <1>5 DEF Reading, Complete
<1>7. Interpreting' /\ StopsForCause'
  BY <1>2 DEF Interpreting, StopsForCause
<1>8. QueryCall' /\ UpdateCall'
  BY <1>2 DEF QueryCall, UpdateCall, Answered
<1>. QED BY <1>4, <1>6, <1>7, <1>8 DEF IInv

LEMMA Building ==
    ASSUME IInv, NEW n, Complete(n), NEW pool \in Seq(Node), Linked(pool),
           Len(pool) = Len(nodepool), NEW node \in Node, node.kind # "N_LIST",
           newnode(pool, n, node), \A d : TreeOn(d, pool, node) => Tree(stmt, d)
    PROVE  IInv'
<1>1. Sized /\ Reading /\ Here \in Place
  BY DEF IInv, Sized
<1>2. PICK len : len = Len(nodepool)
  OBVIOUS
<1>3. len \in Nat /\ len <= MaxNode /\ Len(pool) = len /\ len + 1 = NodesOf(stmt)
  BY <1>1, <1>2, HereTyped DEF Sized, Complete
<1>4. CASE PoolFull(pool)
  <2>1. len = MaxNode
    BY <1>3, <1>4 DEF PoolFull
  <2>2. NodesOf(stmt) > MaxNode
    BY <1>3, <2>1
  <2>3. Stop("OUT_OF_NODES")
    BY <1>4 DEF newnode
  <2>. QED BY <2>2, <2>3, Stopped
<1>5. CASE ~PoolFull(pool)
  <2>1. /\ nodepool' = Append(pool, node) /\ stack' = <<len + 1>>
        /\ script' = <<Move("command")>> /\ mode' = "READ"
        /\ UNCHANGED <<stmt, charpool, charptr, parse_tree, call, mode>>
    <3>1. Append(SubSeq(stack, 1, Len(stack) - n), Len(pool) + 1) = <<Len(pool) + 1>>
      BY <1>1, AllTaken DEF Complete
    <3>. QED BY <1>3, <1>5, <3>1 DEF newnode, Complete
  <2>2. TreeOn(Here', pool, node)
    <3>1. <<len + 1>> \in Seq(Nat)
      BY <1>3
    <3>2. PICK s \in Seq(Nat) : s = <<len + 1>>
      BY <3>1
    <3>3. TreeOn([nodes |-> Append(pool, node), chars |-> charpool, used |-> charptr,
                  stack |-> s], pool, node)
      BY <1>1, TreeBuilt
    <3>. QED BY <2>1, <3>2, <3>3 DEF Here
  <2>3. /\ Here' \in Place /\ Len(nodepool') = len + 1 /\ Tree(stmt, Here')
    BY <1>3, <2>2 DEF TreeOn, Here
  <2>4. Sized'
    <3>1. len # MaxNode
      BY <1>3, <1>5 DEF PoolFull
    <3>2. len + 1 <= MaxNode
      BY <1>3, <3>1, PoolsAssumption
    <3>. QED BY <1>1, <2>1, <2>3, <3>2 DEF Sized, Bounded
  <2>5. HasTree(stmt)'
    <3>1. DOMAIN nodepool' = 1 .. Len(nodepool') /\ Len(nodepool') \in DOMAIN nodepool'
      <4>1. Here'.nodes = nodepool'
        BY DEF Here
      <4>2. DOMAIN nodepool' = 1 .. Len(nodepool')
        BY <2>3, <4>1, PlaceTyped
      <4>3. len + 1 \in 1 .. len + 1
        BY <1>3
      <4>. QED BY <2>3, <4>2, <4>3
    <3>2. stmt.kind \in {"SELECT", "INSERT"} /\ stmt' = stmt
      BY <2>1 DEF Complete
    <3>3. Tree(stmt, Here)'
      BY <2>3, <3>2
    <3>. QED BY <1>3, <2>3, <3>1, <3>2, <3>3 DEF HasTree
  <2>6. Finished(stmt)'
    BY <2>1, <2>3, <2>5 DEF Finished
  <2>7. Reading'
    BY <1>1, <2>1, <2>6 DEF Reading, Complete
  <2>8. Interpreting' /\ StopsForCause'
    BY <2>1 DEF Interpreting, StopsForCause
  <2>9. QueryCall' /\ UpdateCall'
    BY <2>1 DEF QueryCall, UpdateCall, Answered
  <2>. QED BY <2>4, <2>7, <2>8, <2>9 DEF IInv
<1>. QED BY <1>4, <1>5

\* A production that only one kind of statement ends with.
LEMMA EndsWith ==
    ASSUME IInv, NEW q \in {"query", "insert", "shell", "quit"}, Ahead(q)
    PROVE  /\ mode = "READ" /\ script = Rest(stmt) /\ IsRead(stmt, Here) /\ stmt \in Statement
           /\ q = "query" => stmt.kind = "SELECT" /\ Tail(script) = <<Move("command")>>
           /\ q = "insert" => stmt.kind = "INSERT" /\ Tail(script) = <<Move("command")>>
           /\ q = "shell" => stmt.kind = "SHELL"
           /\ q = "quit" => stmt.kind \in {"QUIT", "EOF"}
<1>1. mode = "READ" /\ Head(script).op = q /\ q \in Ends
  BY DEF Ahead, Ends
<1>2. stmt \in Statement
  BY <1>1, StatementsTyped DEF IInv, Reading
<1>3. ~Finished(stmt)
  <2>1. Move("command").op = "command"
    BY LastMoves DEF Ends
  <2>. QED BY <1>1, <2>1, LastMoves DEF Finished
<1>4. script = Rest(stmt) /\ IsRead(stmt, Here)
  BY <1>1, <1>3, MoveOrEnd DEF IInv
<1>5. /\ Move("query").op = "query" /\ Move("insert").op = "insert"
      /\ Move("command").op = "command" /\ Move("shell").op = "shell"
      /\ Move("quit").op = "quit"
  BY LastMoves DEF Ends
<1>6. \A a, b : /\ Head(<<a>>) = a /\ Head(<<a, b>>) = a /\ Tail(<<a, b>>) = <<b>>
  OBVIOUS
<1>7. CASE stmt.kind = "SELECT"
  <2>1. script = <<Move("query"), Move("command")>>
    BY <1>4, <1>7 DEF Rest
  <2>. QED BY <1>1, <1>2, <1>4, <1>5, <1>6, <1>7, <2>1
<1>8. CASE stmt.kind = "INSERT"
  <2>1. script = <<Move("insert"), Move("command")>>
    BY <1>4, <1>8 DEF Rest
  <2>. QED BY <1>1, <1>2, <1>4, <1>5, <1>6, <1>8, <2>1
<1>9. CASE stmt.kind = "SHELL"
  <2>1. script = <<Move("shell")>>
    BY <1>4, <1>9 DEF Rest
  <2>. QED BY <1>1, <1>2, <1>4, <1>5, <1>6, <1>9, <2>1
<1>10. CASE stmt.kind \in {"QUIT", "EOF"}
  <2>1. script = <<Move("quit")>>
    BY <1>4, <1>10 DEF Rest
  <2>. QED BY <1>1, <1>2, <1>4, <1>5, <1>6, <1>10, <2>1
<1>11. CASE stmt.kind \notin {"SELECT", "INSERT", "SHELL", "QUIT", "EOF"}
  <2>1. script = <<Move("command")>>
    BY <1>4, <1>11 DEF Rest
  <2>. QED BY <1>1, <1>5, <1>6, <2>1
<1>. QED BY <1>7, <1>8, <1>9, <1>10, <1>11

LEMMA QueryStep ==
    ASSUME IInv, ReduceQuery
    PROVE  IInv'
<1>1. Here \in Place
  BY DEF IInv, Sized
<1>2. /\ mode = "READ" /\ IsRead(stmt, Here) /\ stmt \in Statement /\ stmt.kind = "SELECT"
      /\ Tail(script) = <<Move("command")>>
  BY EndsWith DEF ReduceQuery
<1>3. IsQueryRead(stmt, Here)
  BY <1>2 DEF IsRead
<1>4. PICK a, r, t, w, ap, tp :
        /\ {a, r, t, w} \subseteq Nat /\ stack = <<a, r, t, w>> /\ a < t
        /\ IsList(Here, a, ap, stmt.attrs, Qualattrs) /\ IsName(charpool, r, stmt.into)
        /\ IsList(Here, t, tp, stmt.tables, Tables) /\ IsWhere(Here, t, w, stmt.where)
        /\ Len(nodepool) + 1 = NodesOf(stmt)
  BY <1>3 DEF IsQueryRead, Here
<1>5. QueryReadAt(stmt, a, r, t, w, ap, tp)
  BY <1>4 DEF QueryReadAt
<1>6. Arg(4, 1) = a /\ Arg(4, 2) = r /\ Arg(4, 3) = t /\ Arg(4, 4) = w
  BY <1>4 DEF Arg
<1>7. Complete(4)
  <2>1. Len(stack) = 4
    BY <1>4
  <2>. QED BY <1>2, <1>4, <2>1 DEF Complete
<1>8. PICK list : list = replace_alias_in_qualattr_list(nodepool, t, a)
  OBVIOUS
<1>9. PICK cond : cond = replace_alias_in_condition(list.pool, t, w)
  OBVIOUS
<1>10. PICK node : node = query_node(r, a, w)
  OBVIOUS
<1>11. QueryOutcome(stmt, list, cond, node)
  BY <1>1, <1>2, <1>5, <1>8, <1>9, <1>10, QueryReduced
<1>12. IF ~list.ok THEN NoTree(list.pool, 4)
       ELSE IF ~cond.ok THEN NoTree(cond.pool, 4)
       ELSE newnode(cond.pool, 4, node)
  BY <1>6, <1>8, <1>9, <1>10 DEF ReduceQuery
<1>13. /\ list.pool \in Seq(Node) /\ Linked(list.pool) /\ Len(list.pool) = Len(nodepool)
       /\ cond.pool \in Seq(Node) /\ Linked(cond.pool) /\ Len(cond.pool) = Len(nodepool)
  BY <1>11 DEF QueryOutcome, SameShape
<1>14. CASE ~list.ok \/ ~cond.ok
  <2>1. Refusable(stmt)
    BY <1>2, <1>11, <1>14 DEF QueryOutcome, Refusable
  <2>2. NoTree(list.pool, 4) \/ NoTree(cond.pool, 4)
    BY <1>12, <1>14
  <2>. QED BY <1>7, <1>13, <2>1, <2>2, Refusing
<1>15. CASE list.ok /\ cond.ok
  <2>1. newnode(cond.pool, 4, node)
    BY <1>12, <1>15
  <2>2. node \in Node /\ node.kind # "N_LIST"
    BY <1>4, <1>10, NodesTyped DEF query_node
  <2>3. \A d : TreeOn(d, cond.pool, node) => Tree(stmt, d)
    BY <1>2, <1>11, <1>15 DEF QueryOutcome, Tree
  <2>. QED BY <1>7, <1>13, <2>1, <2>2, <2>3, Building
<1>. QED BY <1>14, <1>15

LEMMA InsertStep ==
    ASSUME IInv, ReduceInsert
    PROVE  IInv'
<1>1. Here \in Place
  BY DEF IInv, Sized
<1>2. /\ mode = "READ" /\ IsRead(stmt, Here) /\ stmt \in Statement /\ stmt.kind = "INSERT"
      /\ Tail(script) = <<Move("command")>>
  BY EndsWith DEF ReduceInsert
<1>3. IsInsertRead(stmt, Here)
  BY <1>2 DEF IsRead
<1>4. PICK r, a, v, ap, vp :
        /\ {r, a, v} \subseteq Nat /\ stack = <<r, a, v>> /\ IsName(charpool, r, stmt.rel)
        /\ IsList(Here, a, ap, stmt.attrs, Attribs) /\ IsList(Here, v, vp, stmt.values, Literals)
        /\ Len(nodepool) + 1 = NodesOf(stmt)
  BY <1>3 DEF IsInsertRead, Here
<1>5. InsertReadAt(stmt, r, a, v, ap, vp)
  BY <1>4 DEF InsertReadAt
<1>6. Arg(3, 1) = r /\ Arg(3, 2) = a /\ Arg(3, 3) = v
  BY <1>4 DEF Arg
<1>7. Complete(3)
  <2>1. Len(stack) = 3
    BY <1>4
  <2>. QED BY <1>2, <1>4, <2>1 DEF Complete
<1>8. PICK tmp : tmp = merge_attr_value_list(a, v)
  OBVIOUS
<1>9. Merged(ap, vp, tmp.pool) /\ tmp.list = IF Len(ap) = Len(vp) THEN a ELSE Null
  BY <1>1, <1>2, <1>5, <1>8, ListsMerged
<1>10. /\ Len(ap) = Len(stmt.attrs) /\ Len(vp) = Len(stmt.values) /\ a \in DOMAIN nodepool
  BY <1>1, <1>2, <1>5, InsertLists
<1>11. a # Null
  BY <1>1, <1>10, HereTyped DEF Null
<1>12. IF tmp.list = Null THEN NoTree(tmp.pool, 3)
       ELSE newnode(tmp.pool, 3, insert_node(r, tmp.list))
  BY <1>6, <1>8 DEF ReduceInsert
<1>13. tmp.pool \in Seq(Node) /\ Linked(tmp.pool) /\ Len(tmp.pool) = Len(nodepool)
  BY <1>9 DEF Merged
<1>14. CASE Len(ap) # Len(vp)
  <2>1. Refusable(stmt)
    BY <1>2, <1>10, <1>14 DEF Refusable
  <2>2. NoTree(tmp.pool, 3)
    BY <1>9, <1>12, <1>14
  <2>. QED BY <1>7, <1>13, <2>1, <2>2, Refusing
<1>15. CASE Len(ap) = Len(vp)
  <2>1. newnode(tmp.pool, 3, insert_node(r, a))
    BY <1>9, <1>11, <1>12, <1>15
  <2>2. insert_node(r, a) \in Node /\ insert_node(r, a).kind # "N_LIST"
    BY <1>4, NodesTyped DEF insert_node
  <2>3. \A d : TreeOn(d, tmp.pool, insert_node(r, a)) => Tree(stmt, d)
    BY <1>1, <1>2, <1>5, <1>9, <1>15, InsertTreeMade DEF Tree
  <2>. QED BY <1>7, <1>13, <2>1, <2>2, <2>3, Building
<1>. QED BY <1>14, <1>15

LEMMA ShellStep ==
    ASSUME IInv, ShellCommand
    PROVE  IInv'
<1>1. stmt.kind = "SHELL"
  BY EndsWith DEF ShellCommand
<1>2. /\ parse_tree' = Null /\ mode' = "PROMPT"
      /\ UNCHANGED <<stmt, nodepool, charpool, charptr, stack, call>>
  BY DEF ShellCommand
<1>3. Here' = Here
  BY <1>2 DEF Here
<1>4. Sized'
  BY <1>2, <1>3, PoolsAssumption DEF IInv, Sized, Bounded, Null, Modes
<1>5. Reading' /\ Interpreting' /\ StopsForCause'
  BY <1>2 DEF Reading, Interpreting, StopsForCause
<1>6. QueryCall' /\ UpdateCall'
  BY <1>1, <1>2 DEF QueryCall, UpdateCall, Answered
<1>. QED BY <1>4, <1>5, <1>6 DEF IInv

LEMMA QuitStep ==
    ASSUME IInv, quit
    PROVE  IInv'
<1>1. Ahead("quit") /\ Stop("QUIT")
  BY DEF quit
<1>2. stmt.kind \in {"QUIT", "EOF"}
  BY <1>1, EndsWith
<1>. QED BY <1>1, <1>2, Stopped

\* A tree does not depend on the stack.
LEMMA TreeKept ==
    ASSUME NEW d \in Place, NEW e \in Place, d.nodes = e.nodes, d.chars = e.chars,
           d.used = e.used, NEW st \in Statement, Tree(st, d),
           st.kind \notin {"EMPTY", "SHELL", "QUIT", "EOF"}
    PROVE  Tree(st, e)
<1>1. Extends(d, e)
  BY PlaceTyped DEF Extends
<1>2. \A v, x : IsLiteral(d, v, x) => IsLiteral(e, v, x)
  BY <1>1, ElementsKept
<1>3. \A v, x : IsMeant(st, d, v, x) => IsMeant(st, e, v, x)
  BY DEF IsMeant
<1>4. CASE st.kind = "SELECT"
  <2>1. st.where \in Where
    BY <1>4, StatementParts
  <2>2. \A v : IsMeantWhere(st, d, v, st.where) => IsMeantWhere(st, e, v, st.where)
    <3>1. CASE st.where.kind = "NONE"
      BY <3>1 DEF IsMeantWhere
    <3>2. CASE st.where.kind = "VALUE"
      BY <1>2, <1>3, <3>2 DEF IsMeantWhere
    <3>3. CASE st.where.kind = "ATTR"
      BY <1>3, <3>3 DEF IsMeantWhere
    <3>. QED BY <2>1, <3>1, <3>2, <3>3, WhereCases
  <2>3. \A l, ap : IsMeantList(st, d, l, ap) => IsMeantList(st, e, l, ap)
    BY <1>3 DEF IsMeantList
  <2>4. IsQueryTree(st, d)
    BY <1>4 DEF Tree
  <2>5. IsQueryTree(st, e)
    BY <2>2, <2>3, <2>4 DEF IsQueryTree
  <2>. QED BY <1>4, <2>5 DEF Tree
<1>5. CASE st.kind = "INSERT"
  <2>1. \A l, ap : IsPairList(st, d, l, ap) => IsPairList(st, e, l, ap)
    BY <1>2 DEF IsPairList
  <2>2. IsInsertTree(st, e)
    BY <1>5, <2>1 DEF Tree, IsInsertTree
  <2>. QED BY <1>5, <2>2 DEF Tree
<1>6. CASE st.kind \notin {"SELECT", "INSERT"}
  <2>1. IsTree(st, d)
    BY <1>6 DEF Tree
  <2>2. st.kind = "DELETE" => st.where \in Where
    BY StatementParts
  <2>3. \A m, v : st.kind = "DELETE" /\ IsWhere(d, m, v, st.where) => IsWhere(e, m, v, st.where)
    BY <1>1, <2>2, WhereKept
  <2>4. \A l, ap : IsList(d, l, ap, st.attrs, Attrtypes) => IsList(e, l, ap, st.attrs, Attrtypes)
    BY <1>1, ListKept, RelationsKept
  <2>5. IsTree(st, e)
    <3>. PICK n : n = d.nodes[Len(d.nodes)]
      OBVIOUS
    <3>1. n = e.nodes[Len(e.nodes)]
      OBVIOUS
    <3>2. CASE st.kind = "DELETE"
      BY <2>1, <2>3, <3>2 DEF IsTree
    <3>3. CASE st.kind = "CREATE"
      BY <2>1, <2>4, <3>3 DEF IsTree
    <3>4. CASE st.kind \notin {"DELETE", "CREATE"}
      <4>1. st.kind \in {"LOAD", "BUILD", "DROP", "DESTROY", "PRINT", "HELP"}
        BY <1>6, <3>4, StatementKinds DEF Kinds
      <4>. QED BY <2>1, <4>1 DEF IsTree
    <3>. QED BY <3>2, <3>3, <3>4
  <2>. QED BY <1>6, <2>5 DEF Tree
<1>. QED BY <1>4, <1>5, <1>6

LEMMA AcceptReady ==
    ASSUME IInv, Ahead("command")
    PROVE  /\ mode = "READ" /\ stmt \in Statements /\ stmt \in Statement /\ call = NoCall
           /\ \/ stack = <<Null>> /\ (Refusable(stmt) \/ stmt.kind = "EMPTY")
              \/ stack = <<Len(nodepool)>> /\ HasTree(stmt)
<1>1. mode = "READ" /\ Head(script).op = "command" /\ "command" \in Ends
  BY DEF Ahead, Ends
<1>2. stmt \in Statements /\ stmt \in Statement /\ call = NoCall
  BY <1>1, StatementsTyped DEF IInv, Reading
<1>3. \/ script = Rest(stmt) /\ IsRead(stmt, Here)
      \/ Finished(stmt)
  BY <1>1, MoveOrEnd DEF IInv
<1>4. CASE Finished(stmt)
  BY <1>1, <1>2, <1>4 DEF Finished
<1>5. CASE script = Rest(stmt) /\ IsRead(stmt, Here)
  <2>1. /\ Move("query").op = "query" /\ Move("insert").op = "insert"
        /\ Move("shell").op = "shell" /\ Move("quit").op = "quit"
    BY LastMoves DEF Ends
  <2>2. \A a, b : Head(<<a>>) = a /\ Head(<<a, b>>) = a
    OBVIOUS
  <2>3. stmt.kind \notin {"SELECT", "INSERT", "SHELL", "QUIT", "EOF"}
    <3>1. stmt.kind = "SELECT" => script = <<Move("query"), Move("command")>>
      BY <1>5 DEF Rest
    <3>2. stmt.kind = "INSERT" => script = <<Move("insert"), Move("command")>>
      BY <1>5 DEF Rest
    <3>3. stmt.kind = "SHELL" => script = <<Move("shell")>>
      BY <1>5 DEF Rest
    <3>4. stmt.kind \in {"QUIT", "EOF"} => script = <<Move("quit")>>
      BY <1>5 DEF Rest
    <3>. QED BY <1>1, <2>1, <2>2, <3>1, <3>2, <3>3, <3>4
  <2>4. CASE stmt.kind = "EMPTY"
    BY <1>1, <1>2, <1>5, <2>4 DEF IsRead, Here
  <2>5. CASE stmt.kind # "EMPTY"
    <3>1. IsTreeRead(stmt, Here)
      BY <1>5, <2>3, <2>5 DEF IsRead
    <3>2. /\ stack = <<Len(nodepool)>> /\ Len(nodepool) \in DOMAIN nodepool
          /\ Len(nodepool) = NodesOf(stmt) /\ IsTree(stmt, Here)
      BY <3>1 DEF IsTreeRead, Here
    <3>3. HasTree(stmt)
      BY <2>3, <2>5, <3>2 DEF HasTree, Tree
    <3>. QED BY <1>1, <1>2, <3>2, <3>3
  <2>. QED BY <2>4, <2>5
<1>. QED BY <1>3, <1>4, <1>5

LEMMA AcceptStep ==
    ASSUME IInv, Accept
    PROVE  IInv'
<1>1. /\ Ahead("command") /\ parse_tree' = Last(stack)
      /\ mode' = IF parse_tree' = Null THEN "PROMPT" ELSE "INTERP"
      /\ stack' = <<>> /\ UNCHANGED <<stmt, nodepool, charpool, charptr, call>>
  BY DEF Accept
<1>2. Sized /\ Here \in Place
  BY DEF IInv, Sized
<1>3. /\ mode = "READ" /\ stmt \in Statements /\ stmt \in Statement /\ call = NoCall
      /\ \/ stack = <<Null>> /\ (Refusable(stmt) \/ stmt.kind = "EMPTY")
         \/ stack = <<Len(nodepool)>> /\ HasTree(stmt)
  BY <1>1, AcceptReady
<1>4. Here' = [nodes |-> nodepool, chars |-> charpool, used |-> charptr, stack |-> <<>>]
  BY <1>1 DEF Here
<1>5. Here' \in Place
  <2>1. <<>> \in Seq(Nat)
    OBVIOUS
  <2>. QED BY <1>2, <1>4, <2>1, HereTyped, PoolKept
<1>6. \A x : Last(<<x>>) = x
  BY DEF Last
<1>7. StopsForCause' /\ Reading'
  <2>1. mode' \in {"PROMPT", "INTERP"}
    BY <1>1
  <2>2. mode' = "INTERP" => Len(nodepool') = NodesOf(stmt')
    <3>1. stack = <<Null>> => mode' = "PROMPT"
      BY <1>1, <1>6
    <3>. QED BY <1>1, <1>3, <3>1 DEF HasTree
  <2>. QED BY <2>1, <2>2 DEF StopsForCause, Reading
<1>8. CASE stack = <<Null>> /\ (Refusable(stmt) \/ stmt.kind = "EMPTY")
  <2>1. parse_tree' = Null /\ mode' = "PROMPT"
    BY <1>1, <1>6, <1>8
  <2>2. Sized'
    BY <1>1, <1>2, <1>5, <2>1, PoolsAssumption DEF Sized, Bounded, Null, Modes
  <2>3. Interpreting'
    BY <2>1 DEF Interpreting
  <2>4. call'.fn = "none" /\ stmt' = stmt
    BY <1>1, <1>3 DEF NoCall
  <2>5. QueryCall'
    BY <1>8, <2>4 DEF QueryCall, Answered, Refusable
  <2>6. UpdateCall'
    BY <1>8, <2>4 DEF UpdateCall, Answered, Refusable
  <2>. QED BY <1>7, <2>2, <2>3, <2>5, <2>6 DEF IInv
<1>9. CASE stack = <<Len(nodepool)>> /\ HasTree(stmt)
  <2>1. Len(nodepool) \in Nat \ {0} /\ Len(nodepool) \in DOMAIN nodepool
    BY <1>2, <1>9, HereTyped DEF HasTree
  <2>2. parse_tree' = Len(nodepool) /\ mode' = "INTERP"
    BY <1>1, <1>6, <1>9, <2>1 DEF Null
  <2>3. Sized'
    BY <1>1, <1>2, <1>5, <2>1, <2>2, PoolsAssumption DEF Sized, Bounded, Modes
  <2>4. Tree(stmt, Here')
    <3>1. /\ Here.nodes = nodepool /\ Here.chars = charpool /\ Here.used = charptr
      BY DEF Here
    <3>2. /\ Here'.nodes = nodepool /\ Here'.chars = charpool /\ Here'.used = charptr
      BY <1>4
    <3>. QED BY <1>2, <1>3, <1>5, <1>9, <3>1, <3>2, TreeKept DEF HasTree
  <2>5. HasTree(stmt)'
    BY <1>1, <1>9, <2>1, <2>4 DEF HasTree
  <2>6. Interpreting'
    BY <1>1, <1>3, <2>2, <2>5 DEF Interpreting
  <2>7. QueryCall' /\ UpdateCall'
    BY <2>2 DEF QueryCall, UpdateCall, Answered
  <2>. QED BY <1>7, <2>3, <2>6, <2>7 DEF IInv
<1>. QED BY <1>3, <1>8, <1>9

\* The call the interpreter makes of a tree, and the answers to the statement.
Answers(st, c) ==
    /\ Bounded(c)
    /\ st.kind = "SELECT" => QueryAnswer(st, c)
    /\ st.kind = "INSERT" => InsertAnswer(st, c)
    /\ st.kind = "DELETE" => DeleteAnswer(st, c)
    /\ st.kind = "CREATE" => CreateAnswer(st, c)

LEMMA TreeAnswered ==
    ASSUME Here \in Place, NEW st \in Statement, HasTree(st)
    PROVE  LET n == nodepool[Len(nodepool)]
           IN  IF n.kind \in NoCase THEN st.kind \in {"BUILD", "DROP"} ELSE Answers(st, CallOf(n))
<1>1. PICK n : n = nodepool[Len(nodepool)]
  OBVIOUS
<1>2. Tree(st, Here) /\ Here.nodes = nodepool
  BY DEF HasTree, Here
<1>3. st.kind \in {"SELECT", "INSERT", "DELETE", "CREATE", "LOAD", "BUILD", "DROP", "DESTROY",
                   "PRINT", "HELP"}
  BY StatementKinds DEF HasTree, Kinds
<1>4. CASE st.kind = "SELECT"
  <2>1. IsQueryTree(st, Here)
    BY <1>2, <1>4 DEF Tree
  <2>2. n.kind = "N_QUERY"
    BY <1>1, <1>2, <2>1 DEF IsQueryTree
  <2>3. PICK c : c = QueryCallOf(n)
    OBVIOUS
  <2>4. QueryAnswer(st, c)
    BY <1>1, <1>4, <2>1, <2>3, QueryAnswered
  <2>5. Bounded(c)
    BY <2>4 DEF QueryAnswer, Bounded
  <2>6. CallOf(n) = c
    BY <2>2, <2>3 DEF CallOf
  <2>. QED BY <1>1, <1>4, <2>2, <2>4, <2>5, <2>6 DEF Answers, NoCase
<1>5. CASE st.kind = "INSERT"
  <2>1. IsInsertTree(st, Here)
    BY <1>2, <1>5 DEF Tree
  <2>2. n.kind = "N_INSERT"
    BY <1>1, <1>2, <2>1 DEF IsInsertTree
  <2>3. PICK c : c = InsertCallOf(n)
    OBVIOUS
  <2>4. InsertAnswer(st, c) /\ Bounded(c)
    BY <1>1, <1>5, <2>1, <2>3, InsertAnswered
  <2>5. CallOf(n) = c
    BY <2>2, <2>3 DEF CallOf
  <2>. QED BY <1>1, <1>5, <2>2, <2>4, <2>5 DEF Answers, NoCase
<1>6. CASE st.kind = "DELETE"
  <2>1. IsTree(st, Here)
    BY <1>2, <1>6 DEF Tree
  <2>2. n.kind = "N_DELETE"
    BY <1>1, <1>2, <1>6, <2>1 DEF IsTree
  <2>3. PICK c : c = DeleteCallOf(n)
    OBVIOUS
  <2>4. DeleteAnswer(st, c) /\ Bounded(c)
    BY <1>1, <1>6, <2>1, <2>3, DeleteAnswered
  <2>5. CallOf(n) = c
    BY <2>2, <2>3 DEF CallOf
  <2>. QED BY <1>1, <1>6, <2>2, <2>4, <2>5 DEF Answers, NoCase
<1>7. CASE st.kind = "CREATE"
  <2>1. IsTree(st, Here)
    BY <1>2, <1>7 DEF Tree
  <2>2. n.kind = "N_CREATE"
    BY <1>1, <1>2, <1>7, <2>1 DEF IsTree
  <2>3. PICK c : c = CreateCallOf(n)
    OBVIOUS
  <2>4. CreateAnswer(st, c) /\ Bounded(c)
    BY <1>1, <1>7, <2>1, <2>3, CreateAnswered
  <2>5. CallOf(n) = c
    BY <2>2, <2>3 DEF CallOf
  <2>. QED BY <1>1, <1>7, <2>2, <2>4, <2>5 DEF Answers, NoCase
<1>8. CASE st.kind \in {"LOAD", "BUILD", "DROP", "DESTROY", "PRINT", "HELP"}
  <2>1. IsTree(st, Here)
    BY <1>2, <1>8 DEF Tree
  <2>2. /\ st.kind = "LOAD" => n.kind = "N_LOAD"
        /\ st.kind = "BUILD" => n.kind = "N_BUILD"
        /\ st.kind = "DROP" => n.kind = "N_DROP"
        /\ st.kind = "DESTROY" => n.kind = "N_DESTROY"
        /\ st.kind = "PRINT" => n.kind = "N_PRINT"
        /\ st.kind = "HELP" => n.kind = "N_HELP"
    BY <1>1, <1>2, <2>1 DEF IsTree
  <2>3. n.kind \notin NoCase => Bounded(CallOf(n))
    BY <1>8, <2>2 DEF NoCase, CallOf, Bounded
  <2>. QED BY <1>1, <1>8, <2>2, <2>3 DEF Answers, NoCase
<1>. QED BY <1>3, <1>4, <1>5, <1>6, <1>7, <1>8

\* What value_of copies are literals of the statement.
LEMMA CopiesLiterals ==
    ASSUME Here \in Place, NEW st \in Statement, HasTree(st),
           NEW v \in Copied(nodepool[Len(nodepool)]), LongerThan(v, MaxValue)
    PROVE  Overruns(st)
<1>1. PICK n : n = nodepool[Len(nodepool)]
  OBVIOUS
<1>2. Tree(st, Here) /\ Here.nodes = nodepool
  BY DEF HasTree, Here
<1>3. st.kind \in {"SELECT", "INSERT", "DELETE", "CREATE", "LOAD", "BUILD", "DROP", "DESTROY",
                   "PRINT", "HELP"}
  BY StatementKinds DEF HasTree, Kinds
<1>4. n.kind \in NoCase \/ Answers(st, CallOf(n))
  BY <1>1, TreeAnswered
<1>5. CASE st.kind = "INSERT"
  <2>1. PICK ap : /\ n.kind = "N_INSERT" /\ Len(st.attrs) = Len(st.values)
                  /\ IsPairList(st, Here, n.attrlist, ap)
    BY <1>1, <1>2, <1>5 DEF Tree, IsInsertTree
  <2>2. PICK pairs : pairs = Pairs(n.attrlist)
    OBVIOUS
  <2>3. PICK m \in Nat, len \in Nat : PairsOf(st, pairs, m, len)
    BY <1>5, <2>1, <2>2, PairsMade
  <2>4. PICK k \in DOMAIN pairs : v = pairs[k].value /\ \A j \in 1 .. k : ~TooLong(pairs[j].value)
    BY <1>1, <2>1, <2>2 DEF Copied
  <2>5. /\ k \in 1 .. m /\ k \in 1 .. k /\ k \in DOMAIN st.values
        /\ pairs[k].value = Passed(st.values[k])
    BY <2>3 DEF PairsOf
  <2>6. st.values[k] \in ValuesOf(st)
    BY <1>5, <2>5 DEF ValuesOf, Range
  <2>7. ~TooLong(st.values[k]) /\ LongerThan(st.values[k], MaxValue)
    BY <2>4, <2>5, PassedString
  <2>. QED BY <2>6, <2>7 DEF Overruns
<1>6. CASE st.kind \in {"SELECT", "DELETE"}
  <2>1. n.kind = IF st.kind = "SELECT" THEN "N_QUERY" ELSE "N_DELETE"
    BY <1>1, <1>2, <1>6 DEF Tree, IsQueryTree, IsTree
  <2>2. PICK c : c = CallOf(n)
    OBVIOUS
  <2>3. "where" \in DOMAIN c /\ c.where.kind = "VALUE" /\ v = c.where.value
    BY <1>1, <1>6, <2>1, <2>2 DEF Copied
  <2>4. IF st.kind = "SELECT" THEN QueryAnswer(st, c) ELSE DeleteAnswer(st, c)
    BY <1>4, <1>6, <2>1, <2>2 DEF Answers, NoCase
  <2>5. st.where \in Where
    BY <1>6, StatementParts
  <2>6. st.where.kind = "VALUE" /\ v = Passed(st.where.value)
    <3>1. CASE st.kind = "SELECT"
      BY <2>3, <2>4, <2>5, <3>1, WhereCases DEF QueryAnswer
    <3>2. CASE st.kind = "DELETE"
      BY <2>3, <2>4, <3>2 DEF DeleteAnswer
    <3>. QED BY <1>6, <3>1, <3>2
  <2>7. st.where.value \in ValuesOf(st)
    BY <1>6, <2>6 DEF ValuesOf
  <2>8. LongerThan(st.where.value, MaxValue)
    BY <2>6, PassedString
  <2>. QED BY <1>6, <2>7, <2>8 DEF Overruns
<1>7. CASE st.kind \in {"CREATE", "LOAD", "BUILD", "DROP", "DESTROY", "PRINT", "HELP"}
  <2>1. n.kind \notin {"N_INSERT", "N_QUERY", "N_DELETE"}
    BY <1>1, <1>2, <1>7 DEF Tree, IsTree
  <2>. QED BY <1>1, <2>1 DEF Copied
<1>. QED BY <1>3, <1>5, <1>6, <1>7

LEMMA InterpStep ==
    ASSUME IInv, interp
    PROVE  IInv'
<1>1. PICK n : n = nodepool[parse_tree]
  OBVIOUS
<1>2. /\ Sized /\ Here \in Place /\ stmt \in Statement /\ HasTree(stmt)
      /\ n = nodepool[Len(nodepool)]
  BY <1>1, StatementsTyped DEF IInv, Sized, Interpreting, interp
<1>3. IF n.kind \in NoCase THEN stmt.kind \in {"BUILD", "DROP"} ELSE Answers(stmt, CallOf(n))
  BY <1>2, TreeAnswered
<1>4. CASE n.kind \in NoCase /\ Stop("ABORT")
  BY <1>3, <1>4, Stopped
<1>5. CASE (\E v \in Copied(n) : LongerThan(v, MaxValue)) /\ Stop("OVERRUN")
  BY <1>2, <1>5, CopiesLiterals, Stopped
<1>6. CASE /\ n.kind \notin NoCase /\ call' = CallOf(n) /\ mode' = "PROMPT"
           /\ UNCHANGED <<stmt, script, nodepool, charpool, charptr, stack, parse_tree>>
  <2>1. PICK c : c = CallOf(n)
    OBVIOUS
  <2>2. Answers(stmt, c) /\ call' = c
    BY <1>3, <1>6, <2>1
  <2>3. Here' = Here
    BY <1>6 DEF Here
  <2>4. Sized'
    BY <1>2, <1>6, <2>2, <2>3 DEF Sized, Modes, Answers, Bounded
  <2>5. Reading' /\ Interpreting' /\ StopsForCause'
    BY <1>6 DEF Reading, Interpreting, StopsForCause
  <2>6. QueryCall'
    <3>1. CASE stmt.kind = "SELECT"
      <4>1. QueryAnswer(stmt, c) /\ call' = c /\ stmt' = stmt
        BY <1>6, <2>2, <3>1 DEF Answers
      <4>2. CASE c.fn = "none"
        <5>1. MayRefuse(stmt)
          BY <4>1, <4>2 DEF QueryAnswer
        <5>. QED BY <4>1, <4>2, <5>1 DEF QueryCall
      <4>3. CASE c.fn # "none"
        <5>1. c.result = IF stmt.into = NoName THEN Tmp ELSE stmt.into
          BY <4>1, <4>3 DEF QueryAnswer
        <5>2. WhereMeant(stmt)'
          <6>1. stmt.where \in Where
            BY <1>2, <3>1, StatementParts
          <6>2. CASE stmt.where.kind = "NONE"
            <7>1. /\ c.fn = "QU_Select" /\ c.where.kind = "NONE"
                  /\ AllMeant(stmt, c.attrs, stmt.attrs)
              BY <4>1, <4>3, <6>2 DEF QueryAnswer
            <7>. QED BY <4>1, <6>2, <7>1 DEF WhereMeant
          <6>3. CASE stmt.where.kind = "VALUE"
            <7>1. /\ c.fn = "QU_Select" /\ c.where.kind = "VALUE"
                  /\ Meant(stmt, c.where.attr, stmt.where.attr)
                  /\ c.where.op = stmt.where.op /\ c.where.value = Passed(stmt.where.value)
                  /\ AllMeant(stmt, c.attrs, stmt.attrs)
              BY <4>1, <4>3, <6>3 DEF QueryAnswer
            <7>. QED BY <4>1, <6>3, <7>1 DEF WhereMeant
          <6>4. CASE stmt.where.kind = "ATTR"
            <7>1. /\ c.fn = "QU_Join" /\ c.op = stmt.where.op
                  /\ AllMeant(stmt, c.attrs, stmt.attrs \o WhereAttrs(stmt.where))
              BY <4>1, <4>3, <6>4 DEF QueryAnswer
            <7>. QED BY <4>1, <6>4, <7>1 DEF WhereMeant
          <6>. QED BY <6>1, <6>2, <6>3, <6>4, WhereCases
        <5>. QED BY <4>1, <4>3, <5>1, <5>2 DEF QueryCall
      <4>. QED BY <4>2, <4>3
    <3>2. CASE stmt.kind # "SELECT"
      BY <1>6, <3>2 DEF QueryCall, Answered
    <3>. QED BY <3>1, <3>2
  <2>7. UpdateCall'
    BY <1>6, <2>2
    DEF Answers, InsertAnswer, DeleteAnswer, CreateAnswer, UpdateCall, Answered
  <2>. QED BY <2>4, <2>5, <2>6, <2>7 DEF IInv
<1>. QED BY <1>1, <1>4, <1>5, <1>6 DEF interp

LEMMA InvariantKept == IInv /\ [Next]_vars => IInv'
<1>. SUFFICES ASSUME IInv, [Next]_vars PROVE IInv'
  OBVIOUS
<1>1. CASE \E st \in Statements : Prompt(st)
  BY <1>1, PromptStep
<1>2. CASE SyntaxError
  BY <1>2, SyntaxErrorStep
<1>3. CASE get_id
  BY <1>3, StringStep DEF get_id, Ahead
<1>4. CASE get_qstring
  BY <1>4, StringStep DEF get_qstring, Ahead
<1>5. CASE nothing
  BY <1>5, NothingStep
<1>6. CASE ReduceNode
  BY <1>6, ReduceStep
<1>7. CASE ReduceQuery
  BY <1>7, QueryStep
<1>8. CASE ReduceInsert
  BY <1>8, InsertStep
<1>9. CASE Accept
  BY <1>9, AcceptStep
<1>10. CASE ShellCommand
  BY <1>10, ShellStep
<1>11. CASE quit
  BY <1>11, QuitStep
<1>12. CASE interp
  BY <1>12, InterpStep
<1>13. CASE UNCHANGED vars
  <2>1. UNCHANGED <<stmt, script, nodepool, charpool, charptr, stack, parse_tree, call, mode>>
    BY <1>13 DEF vars
  <2>2. Here' = Here
    BY <2>1 DEF Here
  <2>3. Sized'
    BY <2>1, <2>2 DEF IInv, Sized, Bounded, Modes
  <2>4. Reading' /\ Interpreting'
    <3>1. \A p, d : MovesLeft(stmt, p, d)' <=> MovesLeft(stmt, p, d)
      BY <2>1, <2>2 DEF MovesLeft
    <3>2. HasTree(stmt)' <=> HasTree(stmt)
      BY <2>1, <2>2 DEF HasTree
    <3>3. Finished(stmt)' <=> Finished(stmt)
      BY <2>1, <3>2 DEF Finished
    <3>. QED BY <2>1, <3>1, <3>2, <3>3 DEF IInv, Reading, Interpreting
  <2>5. StopsForCause'
    BY <2>1 DEF IInv, StopsForCause
  <2>6. QueryCall' /\ UpdateCall'
    BY <2>1 DEF IInv, QueryCall, UpdateCall, Answered, WhereMeant
  <2>. QED BY <2>3, <2>4, <2>5, <2>6 DEF IInv
<1>. QED
  BY <1>1, <1>2, <1>3, <1>4, <1>5, <1>6, <1>7, <1>8, <1>9, <1>10, <1>11, <1>12, <1>13 DEF Next

-----------------------------------------------------------------------------
(* The theorems.                                                           *)

(* IInv holds in every state: the parser is at a place from which the moves  *)
(* that are left read the statement, however large it is, a tree that        *)
(* reaches the interpreter is that of the statement, and what was answered   *)
(* is what the properties say.                                               *)
THEOREM Invariance == Spec => []IInv
BY InvariantStarts, InvariantKept, PTL DEF Spec

LEMMA Typed == IInv => TypeOK
<1>. SUFFICES ASSUME IInv PROVE TypeOK
  OBVIOUS
<1>1. Sized /\ Here \in Place
  BY DEF IInv, Sized
<1>2. /\ Linked(nodepool) /\ charpool \in Seq(Str) /\ stack \in Seq(Nat)
  BY <1>1, HereTyped
<1>3. \A s \in Range(charpool) : s \in DOMAIN StrLen
  BY <1>2 DEF Range, Str
<1>4. \A i \in DOMAIN nodepool :
         nodepool[i].kind = "N_LIST" => nodepool[i].self < i /\ nodepool[i].next < i
  BY <1>2 DEF Linked, Cells
<1>5. \A k \in DOMAIN stack : stack[k] \in Nat
  BY <1>2
<1>. QED BY <1>1, <1>3, <1>4, <1>5 DEF Sized, Modes, Bounded, TypeOK

(* The pools never hold more than MaxNode nodes and MaxChar characters,      *)
(* whatever is typed; their lists end, for every cell leads to an earlier    *)
(* one; and the arrays of MAXATTRS + 1 attributes are never written past     *)
(* their end (newnode, string_alloc, the loops of interp.C:509-720).         *)
THEOREM TypeCorrect == Spec => []TypeOK
BY Invariance, Typed, PTL

(* The program ends only for QUIT, for the end of the input, for a statement *)
(* about indexes, for one that by itself takes more nodes or characters than *)
(* there are, and for one with a string of MaxValue characters or more that  *)
(* value_of copies (interp.C:945-966), which in an INSERT is one of no more  *)
(* than MaxStringLen.  Nothing that earlier statements and syntax errors     *)
(* took is missing, for new_query gives it back (nodes.C:42).                *)
THEOREM StopsForCauseAlways == Spec => []StopsForCause
<1>1. IInv => StopsForCause
  BY DEF IInv
<1>. QED BY <1>1, Invariance, PTL

(* A SELECT that reaches QU_Select or QU_Join does so with the attributes,   *)
(* the condition and the result that were typed, every attribute of a        *)
(* relation that its qualifier means, a float up to its sixth decimal, and   *)
(* names of attrInfo that had room for them or are no names at all; one that *)
(* is refused gave a reason (the rewriting of nodes.C:467-598, mk_attrnames, *)
(* mk_qual_attrs, value_of).                                                 *)
THEOREM QueryCallAlways == Spec => []QueryCall
<1>1. IInv => QueryCall
  BY DEF IInv
<1>. QED BY <1>1, Invariance, PTL

(* An INSERT that reaches QU_Insert has its attributes paired with its       *)
(* values, a DELETE that reaches QU_Delete its condition, both with floats   *)
(* up to their sixth decimal; a CREATE makes attributes of the types that    *)
(* were typed; or there is a reason to refuse it (merge_attr_value_list,     *)
(* mk_ins_attrs, value_of, mk_attr_descrs).                                  *)
THEOREM UpdateCallAlways == Spec => []UpdateCall
<1>1. IInv => UpdateCall
  BY DEF IInv
<1>. QED BY <1>1, Invariance, PTL
=============================================================================
