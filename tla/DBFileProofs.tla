---------------------------- MODULE DBFileProofs ----------------------------
(***************************************************************************)
(* Proofs about the file layer, for any number of names, clients and       *)
(* pages, and any hash function.                                           *)
(*                                                                         *)
(* The state has two halves: the table of open files with the File objects *)
(* and their clients (TableInv), and the unix files with the free list in  *)
(* each (HeaderInv).  A call in the file half leaves the table alone, and  *)
(* the table needs of the files only that none it has is destroyed.        *)
(***************************************************************************)
EXTENDS DBFile, FiniteSetTheorems, SequenceTheorems, TLAPS

Bucket == [fname: Names, file: Addresses]

\* A name is on one place of a chain at most.
NameOnce(chain) ==
    \A j, k \in DOMAIN chain : chain[j].fname = chain[k].fname => j = k

-----------------------------------------------------------------------------
(* Chains.                                                                 *)

\* A name added in front.
LEMMA InsertOnChain ==
    ASSUME NEW chain \in Seq(Bucket), NameOnce(chain), NEW b \in Bucket,
           \A d \in Range(chain) : d.fname # b.fname
    PROVE  /\ <<b>> \o chain \in Seq(Bucket)
           /\ NameOnce(<<b>> \o chain)
           /\ Range(<<b>> \o chain) = Range(chain) \cup {b}
<1>. DEFINE new == <<b>> \o chain
<1>1. /\ new \in Seq(Bucket) /\ Len(new) = Len(chain) + 1
      /\ \A i \in 1 .. Len(new) : new[i] = IF i = 1 THEN b ELSE chain[i - 1]
      /\ DOMAIN new = 1 .. Len(new)
      /\ Len(chain) \in Nat /\ DOMAIN chain = 1 .. Len(chain)
  OBVIOUS
<1>. HIDE DEF new
<1>2. Range(new) = Range(chain) \cup {b}
  <2>1. ASSUME NEW x \in Range(new) PROVE x \in Range(chain) \cup {b}
    <3>1. PICK i \in 1 .. Len(new) : x = new[i]
      BY <1>1 DEF Range
    <3>2. i # 1 => i - 1 \in DOMAIN chain
      BY <1>1, <3>1
    <3>. QED BY <1>1, <3>1, <3>2 DEF Range
  <2>2. ASSUME NEW x \in Range(chain) PROVE x \in Range(new)
    <3>1. PICK i \in 1 .. Len(chain) : x = chain[i]
      BY <1>1 DEF Range
    <3>2. i + 1 \in 1 .. Len(new) /\ new[i + 1] = x
      BY <1>1, <3>1
    <3>. QED BY <1>1, <3>2 DEF Range
  <2>3. b \in Range(new)
    BY <1>1 DEF Range
  <2>. QED BY <2>1, <2>2, <2>3
<1>3. NameOnce(new)
  <2>. SUFFICES ASSUME NEW j \in 1 .. Len(new), NEW k \in 1 .. Len(new),
                       new[j].fname = new[k].fname
                PROVE  j = k
    BY <1>1 DEF NameOnce
  <2>1. \A i \in 1 .. Len(new) : i # 1 =>
            i - 1 \in DOMAIN chain /\ new[i] = chain[i - 1] /\ chain[i - 1] \in Range(chain)
    BY <1>1 DEF Range
  <2>2. CASE j # 1 /\ k # 1
    <3>1. j - 1 = k - 1
      BY <2>1, <2>2 DEF NameOnce
    <3>. QED BY <2>2, <3>1
  <2>3. CASE j = 1 \/ k = 1
    BY <1>1, <2>1, <2>3
  <2>. QED BY <2>2, <2>3
<1>. QED BY <1>1, <1>2, <1>3 DEF new

\* A name taken off, wherever on the chain it is.
LEMMA UnlinkedFromChain ==
    ASSUME NEW chain \in Seq(Bucket), NameOnce(chain), NEW f,
           \E d \in Range(chain) : d.fname = f
    PROVE  /\ Unlinked(chain, f) \in Seq(Bucket)
           /\ NameOnce(Unlinked(chain, f))
           /\ Range(Unlinked(chain, f)) = {d \in Range(chain) : d.fname # f}
<1>. DEFINE k == PlaceOf(chain, f)
<1>. DEFINE new == Unlinked(chain, f)
<1>1. Len(chain) \in Nat /\ DOMAIN chain = 1 .. Len(chain)
  OBVIOUS
<1>2. k \in 1 .. Len(chain) /\ chain[k].fname = f
  <2>1. PICK i \in DOMAIN chain : chain[i].fname = f
    BY DEF Range
  <2>2. \A j \in DOMAIN chain : chain[j].fname = f => i <= j
    BY <1>1, <2>1 DEF NameOnce
  <2>. QED BY <1>1, <2>1, <2>2 DEF PlaceOf
<1>. HIDE DEF k
<1>3. /\ new \in Seq(Bucket) /\ Len(new) = Len(chain) - 1
      /\ \A i \in 1 .. Len(new) : new[i] = IF i < k THEN chain[i] ELSE chain[i + 1]
      /\ DOMAIN new = 1 .. Len(new)
  <2>. DEFINE front == SubSeq(chain, 1, k - 1)
  <2>. DEFINE back  == SubSeq(chain, k + 1, Len(chain))
  <2>1. new = front \o back
    BY DEF Unlinked, RemoveAt, k
  <2>2. \A i \in 1 .. Len(chain) : chain[i] \in Bucket
    OBVIOUS
  <2>3. /\ front \in Seq(Bucket) /\ Len(front) = k - 1
        /\ \A i \in 1 .. k - 1 : front[i] = chain[i]
    BY <1>1, <1>2, <2>2
  <2>4. /\ back \in Seq(Bucket) /\ Len(back) = Len(chain) - k
        /\ \A i \in 1 .. Len(chain) - k : back[i] = chain[k + i]
    <3>1. k + 1 \in Int /\ Len(chain) \in Int /\ \A i \in k + 1 .. Len(chain) : chain[i] \in Bucket
      BY <1>1, <1>2, <2>2
    <3>2. /\ back \in Seq(Bucket)
          /\ Len(back) = IF k + 1 <= Len(chain) THEN Len(chain) - (k + 1) + 1 ELSE 0
          /\ \A i \in 1 .. Len(chain) - (k + 1) + 1 : back[i] = chain[(k + 1) + i - 1]
      BY <3>1, SubSeqProperties
    <3>. HIDE DEF back
    <3>3. Len(chain) - (k + 1) + 1 = Len(chain) - k
      BY <1>1, <1>2
    <3>4. Len(back) = Len(chain) - k
      <4>1. ASSUME NEW a \in Nat, NEW b \in 1 .. a
            PROVE  (IF b + 1 <= a THEN a - (b + 1) + 1 ELSE 0) = a - b
        BY <4>1
      <4>. QED BY <1>1, <1>2, <3>2, <4>1
    <3>5. ASSUME NEW i \in 1 .. Len(chain) - k PROVE back[i] = chain[k + i]
      <4>1. (k + 1) + i - 1 = k + i
        BY <1>1, <1>2
      <4>. QED BY <3>2, <3>3, <4>1
    <3>. QED BY <3>2, <3>4, <3>5
  <2>. HIDE DEF new, front, back
  <2>5. /\ new \in Seq(Bucket) /\ Len(new) = Len(front) + Len(back)
        /\ \A i \in 1 .. Len(front) + Len(back) :
                new[i] = IF i <= Len(front) THEN front[i] ELSE back[i - Len(front)]
    BY <2>1, <2>3, <2>4, ConcatProperties
  <2>6. Len(new) = Len(chain) - 1 /\ DOMAIN new = 1 .. Len(new)
    BY <1>1, <1>2, <2>3, <2>4, <2>5
  <2>7. ASSUME NEW i \in 1 .. Len(new)
        PROVE  new[i] = IF i < k THEN chain[i] ELSE chain[i + 1]
    <3>1. CASE i < k
      <4>1. /\ i \in 1 .. k - 1 /\ i \in 1 .. Len(front) + Len(back)
            /\ i <= Len(front)
        BY <1>1, <1>2, <2>3, <2>4, <2>6, <3>1
      <4>. QED BY <2>3, <2>5, <3>1, <4>1
    <3>2. CASE ~(i < k)
      <4>1. i - (k - 1) \in 1 .. Len(chain) - k /\ k + (i - (k - 1)) = i + 1
        BY <1>1, <1>2, <2>6, <3>2
      <4>2. new[i] = back[i - (k - 1)]
        BY <1>1, <1>2, <2>3, <2>4, <2>5, <2>6, <3>2
      <4>. QED BY <2>4, <3>2, <4>1, <4>2
    <3>. QED BY <3>1, <3>2
  <2>. QED BY <2>5, <2>6, <2>7
<1>. HIDE DEF new
<1>4. \A i \in 1 .. Len(new) :
        \E j \in DOMAIN chain : /\ j = IF i < k THEN i ELSE i + 1
                                /\ new[i] = chain[j]
                                /\ j # k
  BY <1>1, <1>2, <1>3
<1>5. Range(new) = {d \in Range(chain) : d.fname # f}
  <2>1. ASSUME NEW x \in Range(new) PROVE x \in Range(chain) /\ x.fname # f
    <3>1. PICK i \in 1 .. Len(new) : x = new[i]
      BY <1>3 DEF Range
    <3>. QED BY <1>1, <1>2, <1>4, <3>1 DEF Range, NameOnce
  <2>2. ASSUME NEW x \in Range(chain), x.fname # f PROVE x \in Range(new)
    <3>1. PICK i \in 1 .. Len(chain) : x = chain[i]
      BY <1>1 DEF Range
    <3>2. i # k
      BY <1>2, <2>2, <3>1
    <3>3. \E j \in 1 .. Len(new) : new[j] = x
      <4>1. CASE i < k
        BY <1>1, <1>2, <1>3, <3>1, <4>1
      <4>2. CASE ~(i < k)
        <5>1. i - 1 \in 1 .. Len(new) /\ ~(i - 1 < k) /\ (i - 1) + 1 = i
          BY <1>1, <1>2, <1>3, <3>1, <3>2, <4>2
        <5>. QED BY <1>3, <3>1, <5>1
      <4>. QED BY <4>1, <4>2
    <3>. QED BY <1>3, <3>3 DEF Range
  <2>. QED BY <2>1, <2>2
<1>6. NameOnce(new)
  BY <1>1, <1>2, <1>3, <1>4 DEF NameOnce
<1>. QED BY <1>3, <1>5, <1>6 DEF new

\* Every chain has the names that hash to it, each once.
ChainsSound ==
    /\ ht \in [Range(HashOf) -> Seq(Bucket)]
    /\ \A i \in Range(HashOf) : /\ NameOnce(ht[i])
                                /\ \A b \in Range(ht[i]) : HashOf[b.fname] = i

\* The table after an insert finds the new name, and the others as before.
LEMMA InsertFinds ==
    ASSUME ChainsSound, NEW f \in Names, NEW o \in Addresses,
           find(f) = {}, ht' = insert(f, o)
    PROVE  /\ ChainsSound'
           /\ \A g \in Names : find(g)' = IF g = f THEN {[fname |-> f, file |-> o]}
                                          ELSE find(g)
<1>. DEFINE h == HashOf[f]
<1>. DEFINE b == [fname |-> f, file |-> o]
<1>. DEFINE new == <<b>> \o ht[h]
<1>1. h \in Range(HashOf) /\ b \in Bucket /\ b.fname = f
  BY HashAssumption DEF Range, Bucket
<1>2. ht[h] \in Seq(Bucket) /\ NameOnce(ht[h]) /\ \A d \in Range(ht[h]) : d.fname # b.fname
  BY <1>1 DEF ChainsSound, find
<1>. HIDE DEF b, h
<1>3. new \in Seq(Bucket) /\ NameOnce(new) /\ Range(new) = Range(ht[h]) \cup {b}
  BY <1>1, <1>2, InsertOnChain
<1>4. ht' = [ht EXCEPT ![h] = new]
  BY DEF insert, h, b
<1>. HIDE DEF new
<1>5. /\ ht' \in [Range(HashOf) -> Seq(Bucket)]
      /\ ht'[h] = new /\ \A i \in Range(HashOf) : i # h => ht'[i] = ht[i]
  BY <1>1, <1>3, <1>4 DEF ChainsSound
<1>6. ChainsSound'
  BY <1>1, <1>3, <1>5 DEF ChainsSound, h
<1>7. ASSUME NEW g \in Names
      PROVE  find(g)' = IF g = f THEN {b} ELSE find(g)
  <2>1. HashOf[g] \in Range(HashOf)
    BY HashAssumption DEF Range
  <2>2. CASE HashOf[g] # h
    BY <1>5, <2>1, <2>2 DEF find, h
  <2>3. CASE HashOf[g] = h
    <3>1. find(g)' = {d \in Range(ht[h]) \cup {b} : d.fname = g}
      BY <1>3, <1>5, <2>3 DEF find
    <3>2. find(g) = {d \in Range(ht[h]) : d.fname = g}
      BY <2>3 DEF find
    <3>. QED BY <1>1, <1>2, <3>1, <3>2
  <2>. QED BY <2>2, <2>3
<1>. QED BY <1>6, <1>7 DEF b

\* After an erase it does not find the name, and the others as before.
LEMMA EraseFinds ==
    ASSUME ChainsSound, NEW f \in Names, find(f) # {}, ht' = erase(f)
    PROVE  /\ ChainsSound'
           /\ \A g \in Names : find(g)' = IF g = f THEN {} ELSE find(g)
<1>. DEFINE h == HashOf[f]
<1>. DEFINE new == Unlinked(ht[h], f)
<1>1. h \in Range(HashOf)
  BY HashAssumption DEF Range
<1>2. ht[h] \in Seq(Bucket) /\ NameOnce(ht[h]) /\ \E d \in Range(ht[h]) : d.fname = f
  BY <1>1 DEF ChainsSound, find
<1>3. /\ new \in Seq(Bucket) /\ NameOnce(new)
      /\ Range(new) = {d \in Range(ht[h]) : d.fname # f}
  BY <1>2, UnlinkedFromChain
<1>4. ht' = [ht EXCEPT ![h] = new]
  BY DEF erase
<1>. HIDE DEF new, h
<1>5. /\ ht' \in [Range(HashOf) -> Seq(Bucket)]
      /\ ht'[h] = new /\ \A i \in Range(HashOf) : i # h => ht'[i] = ht[i]
  BY <1>1, <1>3, <1>4 DEF ChainsSound
<1>6. ChainsSound'
  BY <1>1, <1>3, <1>5 DEF ChainsSound
<1>7. ASSUME NEW g \in Names
      PROVE  find(g)' = IF g = f THEN {} ELSE find(g)
  <2>1. HashOf[g] \in Range(HashOf)
    BY HashAssumption DEF Range
  <2>2. CASE HashOf[g] # h
    BY <1>5, <2>1, <2>2 DEF find, h
  <2>3. CASE HashOf[g] = h
    BY <1>3, <1>5, <2>3 DEF find
  <2>. QED BY <2>2, <2>3
<1>. QED BY <1>6, <1>7

-----------------------------------------------------------------------------
(* The table of open files.                                                *)

Users(o) == {c \in Clients : client[c] = o}

\* The object at address o is the one object of its file, and all its users
\* are counted; it has one.
ObjectSound(o) ==
    LET f == object[o].name
    IN  /\ object[o].openCnt = Cardinality(Users(o)) /\ Users(o) # {}
        /\ find(f) = {[fname |-> f, file |-> o]}
        /\ unix[f] # Absent

TableInv ==
    /\ object \in [Addresses -> File \cup {NoFile}]
    /\ client \in [Clients -> Addresses \cup {NoFile}]
    /\ ChainsSound
    /\ \A o \in Addresses : object[o] # NoFile => ObjectSound(o)
    /\ \A c \in Clients : HasFile(c) => object[client[c]] # NoFile
    /\ \A f \in Names : \A b \in find(f) :
            object[b.file] # NoFile /\ object[b.file].name = f

\* Who has no File pointer finds memory for a new object: every object in use
\* has a client of its own.
LEMMA FreeAddress ==
    ASSUME TableInv, NEW c \in Clients, ~HasFile(c)
    PROVE  \E o \in Addresses : object[o] = NoFile
<1>. SUFFICES ASSUME \A o \in Addresses : object[o] # NoFile PROVE FALSE
  OBVIOUS
<1>. DEFINE U == [o \in Addresses |-> CHOOSE d \in Clients : client[d] = o]
<1>1. \A o \in Addresses : U[o] \in Clients /\ client[U[o]] = o
  <2>1. ASSUME NEW o \in Addresses PROVE \E d \in Clients : client[d] = o
    <3>1. Users(o) # {}
      BY DEF TableInv, ObjectSound
    <3>. QED BY <3>1 DEF Users
  <2>2. ASSUME NEW o \in Addresses
        PROVE  LET d == CHOOSE d \in Clients : client[d] = o
               IN  d \in Clients /\ client[d] = o
    BY <2>1
  <2>. QED BY <2>2
<1>2. U \in Injection(Addresses, Clients \ {c})
  <2>1. \A o \in Addresses : U[o] # c
    BY <1>1, SentinelAssumption DEF HasFile
  <2>2. U \in [Addresses -> Clients \ {c}]
    BY <1>1, <2>1
  <2>3. \A o, q \in Addresses : U[o] = U[q] => o = q
    BY <1>1
  <2>. HIDE DEF U
  <2>. QED BY <2>2, <2>3 DEF Injection, IsInjective
<1>3. /\ IsFiniteSet(Clients \ {c})
      /\ Cardinality(Clients \ {c}) = Cardinality(Clients) - 1
  BY AddressesAssumption, FS_RemoveElement
<1>4. Cardinality(Addresses) <= Cardinality(Clients \ {c})
  BY <1>2, <1>3, FS_Injection
<1>5. Cardinality(Addresses) \in Nat /\ Cardinality(Clients) \in Nat
  BY AddressesAssumption, FS_CardinalityType
<1>. QED BY <1>3, <1>4, <1>5, AddressesAssumption

\* What the table finds is an object under its name.
LEMMA FoundObject ==
    ASSUME TableInv, NEW f \in Names, NEW b \in find(f)
    PROVE  /\ b.file \in Addresses /\ b.fname = f
           /\ object[b.file] \in File /\ object[b.file] # NoFile
           /\ object[b.file].name = f
<1>1. HashOf[f] \in Range(HashOf)
  BY HashAssumption DEF Range
<1>. DEFINE chain == ht[HashOf[f]]
<1>2. chain \in Seq(Bucket)
  BY <1>1 DEF TableInv, ChainsSound
<1>. HIDE DEF chain
<1>3. PICK i \in DOMAIN chain : b = chain[i]
  BY DEF find, Range, chain
<1>4. b \in Bucket
  BY <1>2, <1>3
<1>. QED BY <1>4 DEF Bucket, TableInv, find

\* A call that leaves the table alone, and destroys no file that is in it.
LEMMA TableKept ==
    ASSUME TableInv, UNCHANGED <<object, ht, client>>,
           \A f \in Names : unix'[f] = Absent => unix[f] = Absent \/ find(f) = {}
    PROVE  TableInv'
<1>1. ChainsSound'
  BY DEF TableInv, ChainsSound
<1>2. /\ \A f \in Names : find(f)' = find(f)
      /\ \A o \in Addresses : Users(o)' = Users(o)
      /\ \A c \in Clients : HasFile(c)' = HasFile(c)
  BY DEF find, Users, HasFile
<1>3. ASSUME NEW o \in Addresses, object[o] # NoFile
      PROVE  ObjectSound(o)'
  <2>1. object[o].name \in Names /\ ObjectSound(o)
    BY <1>3 DEF TableInv, File
  <2>2. unix'[object[o].name] # Absent
    BY <2>1 DEF ObjectSound
  <2>. QED BY <1>2, <2>1, <2>2 DEF ObjectSound
<1>. QED BY <1>1, <1>2, <1>3 DEF TableInv

\* DB::openFile: one user more of an object, or an object with one user.
LEMMA OpenTable ==
    ASSUME TableInv, NEW c \in Clients, NEW f \in Names, openFile(c, f)
    PROVE  TableInv'
<1>. USE DEF TableInv
<1>1. ~HasFile(c) /\ client[c] = NoFile /\ UNCHANGED unix
  BY DEF openFile, HasFile
<1>2. ASSUME NEW b \in find(f),
             object' = [object EXCEPT ![b.file] = Opened(@)],
             client' = [client EXCEPT ![c] = b.file],
             UNCHANGED ht
      PROVE  TableInv'
  <2>. HIDE DEF TableInv
  <2>. PICK o \in Addresses : o = b.file
    BY <1>2, FoundObject
  <2>1. object[o] \in File /\ object[o] # NoFile /\ object[o].name = f
    BY <1>2, FoundObject
  <2>. USE DEF TableInv
  <2>. DEFINE opened == Opened(object[o])
  <2>2. opened \in File /\ opened.name = f /\ opened.openCnt = object[o].openCnt + 1
        /\ opened # NoFile
    BY <2>1, SentinelAssumption DEF Opened, File
  <2>3. object' = [object EXCEPT ![o] = opened] /\ client' = [client EXCEPT ![c] = o]
    BY <1>2
  <2>. HIDE DEF opened
  <2>4. /\ \A q \in Addresses : q # o => Users(q)' = Users(q)
        /\ Users(o)' = Users(o) \cup {c} /\ c \notin Users(o)
    BY <1>1, <2>3, SentinelAssumption DEF Users, HasFile
  <2>5. \A g \in Names : find(g)' = find(g)
    BY <1>2 DEF find
  <2>6. ASSUME NEW q \in Addresses, object'[q] # NoFile
        PROVE  ObjectSound(q)'
    <3>1. object[q] # NoFile /\ object'[q].name = object[q].name /\ object[q].name \in Names
      BY <2>1, <2>2, <2>3, <2>6 DEF File
    <3>2. object'[q].openCnt = Cardinality(Users(q)')
      <4>1. CASE q = o
        <5>1. IsFiniteSet(Users(o))
          BY AddressesAssumption, FS_Subset DEF Users
        <5>2. Cardinality(Users(o) \cup {c}) = Cardinality(Users(o)) + 1
          BY <2>4, <5>1, FS_AddElement
        <5>. QED BY <2>1, <2>2, <2>3, <2>4, <4>1, <5>2 DEF ObjectSound
      <4>2. CASE q # o
        BY <2>3, <2>4, <3>1, <4>2 DEF ObjectSound
      <4>. QED BY <4>1, <4>2
    <3>3. Users(q)' # {}
      BY <2>4, <3>1 DEF ObjectSound
    <3>. QED BY <1>1, <2>5, <3>1, <3>2, <3>3 DEF ObjectSound
  <2>7. ChainsSound'
    BY <1>2 DEF ChainsSound
  <2>8. \A d \in Clients : HasFile(d)' => object'[client'[d]] # NoFile
    BY <2>1, <2>2, <2>3 DEF HasFile
  <2>9. \A g \in Names : \A d \in find(g)' : object'[d.file] # NoFile /\ object'[d.file].name = g
    BY <2>1, <2>2, <2>3, <2>5
  <2>. QED BY <2>2, <2>3, <2>6, <2>7, <2>8, <2>9
<1>3. ASSUME find(f) = {}, openStatus(New(f)) = "OK",
             NEW o, o = CHOOSE q \in Addresses : object[q] = NoFile,
             object' = [object EXCEPT ![o] = Opened(New(f))],
             ht' = insert(f, o),
             client' = [client EXCEPT ![c] = o]
      PROVE  TableInv'
  <2>1. o \in Addresses /\ object[o] = NoFile
    <3>. HIDE DEF TableInv
    <3>. QED BY <1>1, <1>3, FreeAddress
  <2>. DEFINE opened == Opened(New(f))
  <2>2. opened \in File /\ opened.name = f /\ opened.openCnt = 1 /\ opened # NoFile
    BY SentinelAssumption DEF Opened, New, File
  <2>3. unix[f] # Absent
    BY <1>3 DEF openStatus, New
  <2>4. /\ ChainsSound'
        /\ \A g \in Names : find(g)' = IF g = f THEN {[fname |-> f, file |-> o]} ELSE find(g)
    BY <1>3, <2>1, InsertFinds
  <2>5. object' = [object EXCEPT ![o] = opened]
    BY <1>3
  <2>. HIDE DEF opened
  <2>6. /\ \A q \in Addresses : q # o => Users(q)' = Users(q)
        /\ Users(o)' = {c}
    <3>1. \A d \in Clients : client[d] # o
      BY <2>1, SentinelAssumption DEF HasFile
    <3>. QED BY <1>1, <1>3, <3>1, SentinelAssumption DEF Users
  <2>7. ASSUME NEW q \in Addresses, object'[q] # NoFile
        PROVE  ObjectSound(q)'
    <3>1. CASE q = o
      <4>1. Cardinality({c}) = 1
        BY FS_Singleton
      <4>. QED BY <1>1, <2>1, <2>2, <2>3, <2>4, <2>5, <2>6, <3>1, <4>1 DEF ObjectSound
    <3>2. CASE q # o
      <4>1. object'[q] = object[q] /\ object[q] \in File /\ object[q].name \in Names
        BY <2>5, <2>7, <3>2 DEF File
      <4>2. ObjectSound(q)
        BY <2>7, <4>1
      <4>3. object[q].name # f
        BY <1>3, <4>2 DEF ObjectSound
      <4>. QED BY <1>1, <2>4, <2>6, <3>2, <4>1, <4>2, <4>3 DEF ObjectSound
    <3>. QED BY <3>1, <3>2
  <2>8. \A d \in Clients : HasFile(d)' => object'[client'[d]] # NoFile
    BY <1>3, <2>1, <2>2, <2>5 DEF HasFile
  <2>9. \A g \in Names : \A d \in find(g)' : object'[d.file] # NoFile /\ object'[d.file].name = g
    <3>0. object \in [Addresses -> File \cup {NoFile}]
      OBVIOUS
    <3>. HIDE DEF TableInv
    <3>1. \A g \in Names : \A d \in find(g) :
            /\ d.file \in Addresses /\ d.file # o
            /\ object[d.file] # NoFile /\ object[d.file].name = g
      BY <2>1, FoundObject
    <3>. QED BY <2>1, <2>2, <2>4, <2>5, <3>0, <3>1
  <2>. QED BY <1>3, <2>1, <2>2, <2>4, <2>5, <2>7, <2>8, <2>9
<1>4. ASSUME UNCHANGED <<openFiles, client>>
      PROVE  TableInv'
  <2>. HIDE DEF TableInv
  <2>. QED BY <1>1, <1>4, TableKept DEF openFiles
<1>. QED BY <1>2, <1>3, <1>4 DEF openFile

\* DB::closeFile: one user less, or with the last one the object and its name
\* go.
LEMMA CloseTable ==
    ASSUME TableInv, NEW c \in Clients, closeFile(c)
    PROVE  TableInv'
<1>. USE DEF TableInv
<1>1. PICK o \in Addresses : o = client[c]
  BY DEF closeFile, HasFile
<1>2. PICK f \in Names : f = object[o].name
  BY <1>1 DEF closeFile, File
<1>3. /\ object[o] \in File /\ object[o] # NoFile /\ ObjectSound(o)
      /\ client' = [client EXCEPT ![c] = NoFile] /\ UNCHANGED unix
      /\ FileOf(c) = f
  BY <1>1, <1>2 DEF closeFile, FileOf
<1>4. /\ \A q \in Addresses : q # o => Users(q)' = Users(q)
      /\ Users(o)' = Users(o) \ {c} /\ c \in Users(o)
      /\ \A d \in Clients : HasFile(d)' => client'[d] = client[d] /\ HasFile(d) /\ d # c
  BY <1>1, <1>3, SentinelAssumption DEF Users, HasFile
<1>5. /\ IsFiniteSet(Users(o)) /\ Cardinality(Users(o)) \in Nat
      /\ Cardinality(Users(o) \ {c}) = Cardinality(Users(o)) - 1
  <2>1. IsFiniteSet(Users(o))
    BY AddressesAssumption, FS_Subset DEF Users
  <2>. QED BY <1>4, <2>1, FS_CardinalityType, FS_RemoveElement
<1>6. CASE /\ object[o].openCnt > 1
           /\ object' = [object EXCEPT ![o] = Closed(@)]
           /\ UNCHANGED ht
  <2>. DEFINE closed == Closed(object[o])
  <2>1. closed \in File /\ closed.name = f /\ closed.openCnt = object[o].openCnt - 1
        /\ closed # NoFile
    <3>1. object[o].openCnt - 1 \in Nat
      BY <1>3, <1>6 DEF File
    <3>. QED BY <1>2, <1>3, <3>1, SentinelAssumption DEF Closed, File
  <2>2. object' = [object EXCEPT ![o] = closed]
    BY <1>6
  <2>. HIDE DEF closed
  <2>3. ChainsSound' /\ \A g \in Names : find(g)' = find(g)
    BY <1>6 DEF ChainsSound, find
  <2>4. ASSUME NEW q \in Addresses, object'[q] # NoFile
        PROVE  ObjectSound(q)'
    <3>1. CASE q = o
      <4>1. Users(o) \ {c} # {}
        <5>1. Cardinality(Users(o) \ {c}) # 0
          BY <1>3, <1>5, <1>6 DEF ObjectSound
        <5>. QED BY <5>1, FS_EmptySet
      <4>2. object'[o] = closed
        BY <2>2
      <4>3. object'[o].openCnt = Cardinality(Users(o)') /\ Users(o)' # {}
        BY <1>3, <1>4, <1>5, <2>1, <4>1, <4>2 DEF ObjectSound
      <4>4. find(f)' = {[fname |-> f, file |-> o]} /\ unix'[f] # Absent
        BY <1>2, <1>3, <2>3 DEF ObjectSound
      <4>. QED BY <2>1, <3>1, <4>2, <4>3, <4>4 DEF ObjectSound
    <3>2. CASE q # o
      <4>1. object'[q] = object[q] /\ object[q].name \in Names /\ ObjectSound(q)
        BY <2>2, <2>4, <3>2 DEF File
      <4>. QED BY <1>3, <1>4, <2>3, <3>2, <4>1 DEF ObjectSound
    <3>. QED BY <3>1, <3>2
  <2>5. \A d \in Clients : HasFile(d)' => object'[client'[d]] # NoFile
    BY <1>4, <2>1, <2>2 DEF HasFile
  <2>6. \A g \in Names : \A d \in find(g)' : object'[d.file] # NoFile /\ object'[d.file].name = g
    BY <1>2, <2>1, <2>2, <2>3
  <2>. QED BY <1>3, <2>1, <2>2, <2>3, <2>4, <2>5, <2>6
<1>7. CASE /\ object[o].openCnt = 1
           /\ object' = [object EXCEPT ![o] = NoFile]
           /\ ht' = erase(f)
  <2>1. find(f) = {[fname |-> f, file |-> o]}
    BY <1>2, <1>3 DEF ObjectSound
  <2>2. ChainsSound' /\ \A g \in Names : find(g)' = IF g = f THEN {} ELSE find(g)
    BY <1>7, <2>1, EraseFinds
  <2>3. Users(o) = {c}
    <3>1. Cardinality(Users(o) \ {c}) = 0 /\ IsFiniteSet(Users(o) \ {c})
      BY <1>3, <1>5, <1>7, FS_Subset DEF ObjectSound
    <3>. QED BY <1>4, <3>1, FS_EmptySet
  <2>4. ASSUME NEW q \in Addresses, object'[q] # NoFile
        PROVE  ObjectSound(q)'
    <3>1. q # o /\ object'[q] = object[q] /\ object[q].name \in Names /\ ObjectSound(q)
      BY <1>7, <2>4 DEF File
    <3>2. ASSUME object[q].name = f PROVE FALSE
      <4>1. find(f) = {[fname |-> f, file |-> q]}
        BY <3>1, <3>2 DEF ObjectSound
      <4>2. [fname |-> f, file |-> q] = [fname |-> f, file |-> o]
        BY <2>1, <4>1
      <4>. QED BY <3>1, <4>2
    <3>. QED BY <1>3, <1>4, <2>2, <3>1, <3>2 DEF ObjectSound
  <2>5. \A d \in Clients : HasFile(d)' => object'[client'[d]] # NoFile
    BY <1>4, <1>7, <2>3 DEF HasFile, Users
  <2>6. \A g \in Names : \A d \in find(g)' : object'[d.file] # NoFile /\ object'[d.file].name = g
    <3>. HIDE DEF TableInv
    <3>1. \A g \in Names : \A d \in find(g) :
            object[d.file] # NoFile /\ object[d.file].name = g
      BY FoundObject
    <3>. QED BY <1>2, <1>7, <2>2, <3>1
  <2>. QED BY <1>3, <1>7, <2>2, <2>4, <2>5, <2>6
<1>8. find(f) # {}
  BY <1>2, <1>3 DEF ObjectSound
<1>. QED BY <1>1, <1>3, <1>6, <1>7, <1>8 DEF closeFile

\* The table of a program that has just begun.
NothingOpen ==
    /\ object = [o \in Addresses |-> NoFile]
    /\ ht = [i \in Range(HashOf) |-> <<>>]
    /\ client = [c \in Clients |-> NoFile]

LEMMA EmptyTable == NothingOpen => TableInv
<1>. SUFFICES ASSUME NothingOpen PROVE TableInv
  OBVIOUS
<1>. USE DEF NothingOpen
<1>1. ChainsSound
  <2>1. \A i \in Range(HashOf) : NameOnce(ht[i]) /\ Range(ht[i]) = {}
    BY DEF NameOnce, Range
  <2>. QED BY <2>1 DEF ChainsSound
<1>2. \A f \in Names : find(f) = {}
  <2>1. \A f \in Names : HashOf[f] \in Range(HashOf)
    BY HashAssumption DEF Range
  <2>. QED BY <2>1 DEF find, Range
<1>. QED BY <1>1, <1>2 DEF TableInv, HasFile

-----------------------------------------------------------------------------
(* The unix files.                                                         *)

FilesTyped ==
    /\ unix \in [Names -> Header \cup {Absent, Headless}]
    /\ page \in [Names -> [Pages -> Contents]]
    /\ inUse \in [Names -> SUBSET Pages]

\* l is the free list of file f and holds the pages that are not in use.
FreeIs(f, n, l) ==
    /\ IsFreeList(f, n, l)
    /\ Range(l) \cup inUse[f] = 1 .. unix[f].numPages - 1
    /\ Range(l) \cap inUse[f] = {}

FirstIs(f) ==
    IF inUse[f] = {} THEN unix[f].firstPage = None
    ELSE unix[f].firstPage \in inUse[f] /\ unix[f].firstPage = 1

\* A file all of whose pages are free has none: the first page is never taken
\* back.
FileSound(f) ==
    HasHeader(f) =>
        /\ \E n \in 0 .. MaxPageNo : \E l \in [1 .. n -> Pages] : FreeIs(f, n, l)
        /\ FirstIs(f)
        /\ inUse[f] = {} => unix[f].numPages = 1

\* The write a call still has to make: the header it read, changed, while the
\* file is as it was left by the call's first write.
CreateSound(w) ==
    /\ unix[w.file] = Headless /\ inUse[w.file] = {}
    /\ w.header = [nextFree |-> None, firstPage |-> None, numPages |-> 1]

AllocateSound(w) ==
    /\ HasHeader(w.file) /\ w.page \in Pages
    /\ w.page = IF unix[w.file].nextFree # None THEN unix[w.file].nextFree
                ELSE unix[w.file].numPages
    /\ w.header = HeaderTaking(w.file, w.page)

DisposeSound(w) ==
    /\ HasHeader(w.file) /\ w.page \in inUse[w.file] /\ ~Refused(w.file, w.page)
    /\ page[w.file][w.page] = LinkedTo(w.file)
    /\ w.header = [unix[w.file] EXCEPT !.nextFree = w.page]

WriteSound(w) ==
    /\ w.file \in Names /\ w.header \in Header
    /\ \/ w.op = "create" /\ CreateSound(w)
       \/ w.op = "allocate" /\ AllocateSound(w)
       \/ w.op = "dispose" /\ DisposeSound(w)

HeaderInv ==
    /\ FilesTyped
    /\ \A f \in Names : FileSound(f)
    /\ ~Idle => WriteSound(pending)

\* A file stays sound if its header does and no free page of it is written.
LEMMA FileKept ==
    ASSUME NEW f \in Names, FileSound(f),
           unix'[f] = unix[f], inUse'[f] = inUse[f],
           HasHeader(f) => \A q \in (1 .. unix[f].numPages - 1) \ inUse[f] :
                                page'[f][q] = page[f][q]
    PROVE  FileSound(f)'
<1>. SUFFICES ASSUME HasHeader(f)' PROVE FileSound(f)'
  BY DEF FileSound
<1>1. HasHeader(f)
  BY DEF HasHeader
<1>2. PICK n \in 0 .. MaxPageNo : \E l \in [1 .. n -> Pages] : FreeIs(f, n, l)
  BY <1>1 DEF FileSound
<1>3. PICK l \in [1 .. n -> Pages] : FreeIs(f, n, l)
  BY <1>2
<1>4. \A k \in 1 .. n : l[k] \in (1 .. unix[f].numPages - 1) \ inUse[f]
  BY <1>3 DEF FreeIs, Range
<1>5. FreeIs(f, n, l)'
  BY <1>1, <1>3, <1>4 DEF FreeIs, IsFreeList
<1>6. FirstIs(f)' /\ (inUse'[f] = {} => unix'[f].numPages = 1)
  BY <1>1 DEF FileSound, FirstIs
<1>. QED BY <1>5, <1>6 DEF FileSound

\* All files are as they were but for one.
LEMMA OthersKept ==
    ASSUME HeaderInv, NEW f \in Names, FileSound(f)',
           \A g \in Names : g # f =>
                unix'[g] = unix[g] /\ inUse'[g] = inUse[g] /\ page'[g] = page[g]
    PROVE  \A g \in Names : FileSound(g)'
<1>. SUFFICES ASSUME NEW g \in Names, g # f PROVE FileSound(g)'
  OBVIOUS
<1>. QED BY FileKept DEF HeaderInv

LEMMA CreateFileStep ==
    ASSUME HeaderInv, NEW f \in Names, createFile(f)
    PROVE  HeaderInv'
<1>1. CASE UNCHANGED <<unix, page, inUse, pending>>
  <2>1. \A g \in Names : FileSound(g)'
    BY <1>1, FileKept DEF HeaderInv
  <2>. QED BY <1>1, <2>1 DEF HeaderInv, FilesTyped, Idle, createFile
<1>2. CASE /\ unix[f] = Absent
           /\ unix' = [unix EXCEPT ![f] = Headless]
           /\ page' = [page EXCEPT ![f] = [p \in Pages |-> Blank]]
           /\ inUse' = [inUse EXCEPT ![f] = {}]
           /\ pending' = [op |-> "create", file |-> f, page |-> None,
                          header |-> [nextFree |-> None, firstPage |-> None, numPages |-> 1]]
  <2>1. FilesTyped'
    BY <1>2 DEF HeaderInv, FilesTyped, Contents
  <2>2. FileSound(f)'
    BY <1>2 DEF HeaderInv, FilesTyped, FileSound, HasHeader
  <2>3. \A g \in Names : FileSound(g)'
    BY <1>2, <2>2, OthersKept DEF HeaderInv, FilesTyped
  <2>4. pending'.header \in Header
    BY <1>2, MaxPageNoAssumption DEF Header
  <2>5. WriteSound(pending)'
    BY <1>2, <2>4 DEF WriteSound, CreateSound, HeaderInv, FilesTyped
  <2>. QED BY <2>1, <2>3, <2>5 DEF HeaderInv
<1>. QED BY <1>1, <1>2 DEF createFile, create

LEMMA DestroyFileStep ==
    ASSUME HeaderInv, NEW f \in Names, destroyFile(f)
    PROVE  HeaderInv'
<1>1. Idle /\ UNCHANGED <<page, inUse, pending>>
  BY DEF destroyFile
<1>2. unix' = unix \/ unix' = [unix EXCEPT ![f] = Absent]
  BY DEF destroyFile, destroy
<1>3. FilesTyped'
  BY <1>1, <1>2 DEF HeaderInv, FilesTyped
<1>4. ASSUME NEW g \in Names PROVE FileSound(g)'
  <2>1. unix'[g] = unix[g] \/ unix'[g] = Absent
    BY <1>2 DEF HeaderInv, FilesTyped
  <2>2. CASE unix'[g] = unix[g]
    BY <1>1, <2>2, FileKept DEF HeaderInv
  <2>3. CASE unix'[g] = Absent
    BY <2>3 DEF FileSound, HasHeader
  <2>. QED BY <2>1, <2>2, <2>3
<1>. QED BY <1>1, <1>3, <1>4 DEF HeaderInv, Idle

\* The free list is empty exactly if the header names no next page.
LEMMA ListEmpty ==
    ASSUME NEW f \in Names, NEW n \in 0 .. MaxPageNo, NEW l \in [1 .. n -> Pages],
           FreeIs(f, n, l)
    PROVE  (n = 0) <=> (unix[f].nextFree = None)
<1>1. n # 0 => l[1] \in Pages
  BY MaxPageNoAssumption
<1>. QED BY <1>1 DEF FreeIs, IsFreeList, None, Pages

LEMMA AllocatePageStep ==
    ASSUME HeaderInv, NEW c \in Clients, FileOf(c) \in Names, allocatePage(c)
    PROVE  HeaderInv'
<1>. PICK f \in Names : f = FileOf(c)
  OBVIOUS
<1>. DEFINE taken == IF unix[f].nextFree # None THEN unix[f].nextFree ELSE unix[f].numPages
<1>1. UNCHANGED <<unix, inUse>>
  BY DEF allocatePage
<1>2. CASE UNCHANGED <<page, pending>>
  <2>1. \A g \in Names : FileSound(g)'
    BY <1>1, <1>2, FileKept DEF HeaderInv
  <2>. QED BY <1>1, <1>2, <2>1 DEF HeaderInv, FilesTyped, Idle, allocatePage
<1>3. ASSUME HasHeader(f), NEW p \in Pages, p = taken,
             page' = IF unix[f].nextFree # None THEN page
                     ELSE [page EXCEPT ![f][p] = Blank],
             pending' = [op |-> "allocate", file |-> f, page |-> p,
                         header |-> HeaderTaking(f, p)]
      PROVE  HeaderInv'
  <2>1. unix[f] \in Header
    BY <1>3 DEF HeaderInv, FilesTyped, HasHeader
  <2>2. FilesTyped'
    <3>1. [page EXCEPT ![f][p] = Blank] \in [Names -> [Pages -> Contents]]
      <4>1. page[f] \in [Pages -> Contents] /\ Blank \in Contents
        BY DEF HeaderInv, FilesTyped, Contents
      <4>. QED BY <1>3, <4>1 DEF HeaderInv, FilesTyped
    <3>. QED BY <1>1, <1>3, <3>1 DEF HeaderInv, FilesTyped
  <2>3. \A q \in (1 .. unix[f].numPages - 1) : page'[f][q] = page[f][q]
    <3>1. CASE unix[f].nextFree # None
      BY <1>3, <3>1
    <3>2. CASE unix[f].nextFree = None
      <4>1. p = unix[f].numPages /\ unix[f].numPages \in Nat
        BY <1>3, <2>1, <3>2 DEF Header
      <4>. QED BY <1>3, <3>2, <4>1 DEF HeaderInv, FilesTyped
    <3>. QED BY <3>1, <3>2
  <2>4. FileSound(f)'
    BY <1>1, <2>3, FileKept DEF HeaderInv
  <2>5. \A g \in Names : FileSound(g)'
    <3>1. \A g \in Names : g # f => page'[g] = page[g]
      BY <1>3 DEF HeaderInv, FilesTyped
    <3>. QED BY <1>1, <2>4, <3>1, OthersKept
  <2>6. HeaderTaking(f, p) \in Header
    <3>1. PICK n \in 0 .. MaxPageNo : \E l \in [1 .. n -> Pages] : FreeIs(f, n, l)
      BY <1>3 DEF HeaderInv, FileSound
    <3>2. PICK l \in [1 .. n -> Pages] : FreeIs(f, n, l)
      BY <3>1
    <3>3. CASE unix[f].nextFree # None
      <4>1. n # 0 /\ l[1] = p
        BY <1>3, <3>2, <3>3, ListEmpty DEF FreeIs, IsFreeList
      <4>2. page[f][p].nextFree \in Pages \cup {None}
        <5>1. page[f][p] = Link(IF 1 = n THEN None ELSE l[1 + 1])
          BY <3>2, <4>1 DEF FreeIs, IsFreeList
        <5>2. n # 1 => l[1 + 1] \in Pages
          BY <4>1
        <5>. QED BY <5>1, <5>2 DEF Link
      <4>. QED BY <2>1, <3>3, <4>2 DEF HeaderTaking, Header
    <3>4. CASE unix[f].nextFree = None
      <4>1. p = unix[f].numPages /\ unix[f].numPages + 1 \in 1 .. MaxPageNo + 1
        BY <1>3, <3>4, MaxPageNoAssumption DEF Pages
      <4>. QED BY <1>3, <2>1, <3>4, <4>1 DEF HeaderTaking, Header
    <3>. QED BY <3>3, <3>4
  <2>7. HeaderTaking(f, p)' = HeaderTaking(f, p)
    <3>1. unix[f].nextFree # None => page' = page
      BY <1>3
    <3>. QED BY <1>1, <3>1 DEF HeaderTaking
  <2>8. WriteSound(pending)'
    <3>. DEFINE w == [op |-> "allocate", file |-> f, page |-> p,
                      header |-> HeaderTaking(f, p)]
    <3>1. /\ pending' = w /\ w.op = "allocate" /\ w.file = f /\ w.page = p
          /\ w.header = HeaderTaking(f, p)
      BY <1>3
    <3>. HIDE DEF w
    <3>2. AllocateSound(pending)'
      BY <1>1, <1>3, <2>7, <3>1 DEF AllocateSound, HasHeader
    <3>. QED BY <2>6, <3>1, <3>2 DEF WriteSound
  <2>. QED BY <2>2, <2>5, <2>8 DEF HeaderInv
<1>. QED BY <1>2, <1>3 DEF allocatePage

\* The link is written to a page in use, which is on no free list.
LEMMA DisposePageStep ==
    ASSUME HeaderInv, NEW c \in Clients, FileOf(c) \in Names,
           NEW p \in inUse[FileOf(c)], disposePage(c, p)
    PROVE  HeaderInv'
<1>. PICK f \in Names : f = FileOf(c)
  OBVIOUS
<1>1. UNCHANGED <<unix, inUse>> /\ p \in Pages /\ p \in inUse[f]
  BY DEF disposePage, HeaderInv, FilesTyped
<1>2. CASE UNCHANGED <<page, pending>>
  <2>1. \A g \in Names : FileSound(g)'
    BY <1>1, <1>2, FileKept DEF HeaderInv
  <2>. QED BY <1>1, <1>2, <2>1 DEF HeaderInv, FilesTyped, Idle, disposePage
<1>3. CASE /\ HasHeader(f) /\ ~Refused(f, p)
           /\ page' = [page EXCEPT ![f][p] = LinkedTo(f)]
           /\ pending' = [op |-> "dispose", file |-> f, page |-> p,
                          header |-> [unix[f] EXCEPT !.nextFree = p]]
  <2>1. unix[f] \in Header
    BY <1>3 DEF HeaderInv, FilesTyped, HasHeader
  <2>2. page' \in [Names -> [Pages -> Contents]]
    <3>1. page[f] \in [Pages -> Contents] /\ LinkedTo(f) \in Contents
      BY <2>1 DEF HeaderInv, FilesTyped, Contents, LinkedTo, Header
    <3>. QED BY <1>3, <3>1 DEF HeaderInv, FilesTyped
  <2>3. /\ page'[f][p] = LinkedTo(f)
        /\ \A q \in Pages : q # p => page'[f][q] = page[f][q]
        /\ \A g \in Names : g # f => page'[g] = page[g]
    BY <1>1, <1>3 DEF HeaderInv, FilesTyped
  <2>4. 1 .. unix[f].numPages - 1 \subseteq Pages
    BY <2>1, MaxPageNoAssumption DEF Header, Pages
  <2>5. FileSound(f)'
    BY <1>1, <2>3, <2>4, FileKept DEF HeaderInv
  <2>6. \A g \in Names : FileSound(g)'
    BY <1>1, <2>3, <2>5, OthersKept
  <2>7. WriteSound(pending)'
    <3>. DEFINE h == [unix[f] EXCEPT !.nextFree = p]
    <3>. DEFINE w == [op |-> "dispose", file |-> f, page |-> p, header |-> h]
    <3>1. h \in Header
      BY <1>1, <2>1 DEF Header
    <3>2. /\ pending' = w /\ w.op = "dispose" /\ w.file = f /\ w.page = p
          /\ w.header = h
      BY <1>3
    <3>. HIDE DEF w
    <3>3. DisposeSound(pending)'
      BY <1>1, <1>3, <2>3, <3>2 DEF DisposeSound, HasHeader, Refused, LinkedTo
    <3>. QED BY <3>1, <3>2, <3>3 DEF WriteSound
  <2>. QED BY <1>1, <2>2, <2>6, <2>7 DEF HeaderInv, FilesTyped
<1>. QED BY <1>2, <1>3 DEF disposePage

LEMMA WritePageStep ==
    ASSUME HeaderInv, NEW c \in Clients, FileOf(c) \in Names,
           NEW p \in inUse[FileOf(c)], NEW v \in Data, writePage(c, p, v)
    PROVE  HeaderInv'
<1>. PICK f \in Names : f = FileOf(c)
  OBVIOUS
<1>1. /\ UNCHANGED <<unix, inUse, pending>> /\ p \in Pages /\ p \in inUse[f] /\ Idle
      /\ page' = [page EXCEPT ![f][p] = v]
  BY DEF writePage, HeaderInv, FilesTyped
<1>2. page' \in [Names -> [Pages -> Contents]]
  <2>1. page[f] \in [Pages -> Contents] /\ v \in Contents
    BY DEF HeaderInv, FilesTyped, Contents
  <2>. QED BY <1>1, <2>1 DEF HeaderInv, FilesTyped
<1>3. /\ \A q \in Pages : q # p => page'[f][q] = page[f][q]
      /\ \A g \in Names : g # f => page'[g] = page[g]
  BY <1>1 DEF HeaderInv, FilesTyped
<1>4. HasHeader(f) => 1 .. unix[f].numPages - 1 \subseteq Pages
  BY MaxPageNoAssumption DEF Header, Pages, HeaderInv, FilesTyped, HasHeader
<1>5. FileSound(f)'
  BY <1>1, <1>3, <1>4, FileKept DEF HeaderInv
<1>6. \A g \in Names : FileSound(g)'
  BY <1>1, <1>3, <1>5, OthersKept
<1>. QED BY <1>1, <1>2, <1>6 DEF HeaderInv, FilesTyped, Idle

\* The header write, by the call it ends.  Every one leaves the page contents
\* alone; what it makes of the free list is a list that is one page shorter,
\* none, or one page longer.
LEMMA CreateWritten ==
    ASSUME HeaderInv, NEW f \in Names, NEW w, w.file = f, CreateSound(w),
           unix'[f] = w.header, inUse'[f] = inUse[f]
    PROVE  FileSound(f)'
<1>1. /\ unix'[f].nextFree = None /\ unix'[f].firstPage = None /\ unix'[f].numPages = 1
      /\ inUse'[f] = {}
  BY DEF CreateSound
<1>. DEFINE l == [k \in 1 .. 0 |-> 1]
<1>2. 0 \in 0 .. MaxPageNo /\ l \in [1 .. 0 -> Pages] /\ Range(l) = {}
  BY MaxPageNoAssumption DEF Range
<1>. HIDE DEF l
<1>3. FreeIs(f, 0, l)'
  BY <1>1, <1>2 DEF FreeIs, IsFreeList
<1>. QED BY <1>1, <1>2, <1>3 DEF FileSound, FirstIs

LEMMA AllocateWritten ==
    ASSUME HeaderInv, NEW f \in Names, NEW w, w.file = f, AllocateSound(w),
           unix'[f] = w.header, inUse'[f] = inUse[f] \cup {w.page},
           page' = page
    PROVE  FileSound(f)'
<1>. PICK p \in Pages : p = w.page
  BY DEF AllocateSound
<1>1. unix[f] \in Header /\ unix[f].numPages \in Nat /\ HasHeader(f) /\ p \in Nat
  BY DEF AllocateSound, HeaderInv, FilesTyped, HasHeader, Header, Pages
<1>2. PICK n \in 0 .. MaxPageNo : \E l \in [1 .. n -> Pages] : FreeIs(f, n, l)
  BY <1>1 DEF HeaderInv, FileSound
<1>3. PICK l \in [1 .. n -> Pages] : FreeIs(f, n, l)
  BY <1>2
<1>4. FirstIs(f) /\ (inUse[f] = {} => unix[f].numPages = 1)
  BY <1>1 DEF HeaderInv, FileSound
<1>5. CASE unix[f].nextFree # None
  <2>1. /\ n \in Nat /\ n # 0 /\ 1 \in 1 .. n /\ l[1] = p
        /\ page[f][p] = Link(IF n = 1 THEN None ELSE l[2])
    BY <1>3, <1>5, ListEmpty DEF FreeIs, IsFreeList, AllocateSound
  <2>2. /\ unix'[f].nextFree = IF n = 1 THEN None ELSE l[2]
        /\ unix'[f].firstPage = unix[f].firstPage
        /\ unix'[f].numPages = unix[f].numPages
    BY <1>1, <1>5, <2>1 DEF AllocateSound, HeaderTaking, Link, Header
  <2>. DEFINE m == [k \in 1 .. n - 1 |-> l[k + 1]]
  <2>3. /\ m \in [1 .. n - 1 -> Pages] /\ n - 1 \in 0 .. MaxPageNo
        /\ \A k \in 1 .. n - 1 : m[k] = l[k + 1] /\ k + 1 \in 1 .. n
    <3>1. n - 1 \in 0 .. MaxPageNo /\ \A k \in 1 .. n - 1 : k + 1 \in 1 .. n
      BY <2>1, MaxPageNoAssumption
    <3>2. \A k \in 1 .. n - 1 : l[k + 1] \in Pages
      BY <3>1
    <3>. QED BY <3>1, <3>2
  <2>. HIDE DEF m
  <2>4. Range(m) = Range(l) \ {p}
    <3>1. ASSUME NEW q \in Range(m) PROVE q \in Range(l) /\ q # p
      <4>1. PICK k \in 1 .. n - 1 : q = l[k + 1]
        BY <2>3, <3>1 DEF Range
      <4>2. k + 1 \in 1 .. n /\ k + 1 # 1
        BY <2>1
      <4>. QED BY <1>3, <2>1, <4>1, <4>2 DEF FreeIs, IsFreeList, Range
    <3>2. ASSUME NEW q \in Range(l), q # p PROVE q \in Range(m)
      <4>1. PICK k \in 1 .. n : q = l[k]
        BY <3>2 DEF Range
      <4>2. k - 1 \in 1 .. n - 1 /\ (k - 1) + 1 = k
        BY <2>1, <3>2, <4>1
      <4>3. m[k - 1] = q
        BY <2>3, <4>1, <4>2
      <4>. QED BY <2>3, <4>2, <4>3 DEF Range
    <3>. QED BY <3>1, <3>2
  <2>5. p \in Range(l)
    BY <2>1 DEF Range
  <2>6. IsFreeList(f, n - 1, m)'
    <3>1. \A j, k \in 1 .. n - 1 : m[j] = m[k] => j = k
      <4>1. SUFFICES ASSUME NEW j \in 1 .. n - 1, NEW k \in 1 .. n - 1, l[j + 1] = l[k + 1]
                     PROVE  j = k
        BY <2>3
      <4>2. j + 1 = k + 1
        BY <1>3, <2>3, <4>1 DEF FreeIs, IsFreeList
      <4>. QED BY <4>2
    <3>2. unix'[f].nextFree = IF n - 1 = 0 THEN None ELSE m[1]
      BY <2>1, <2>2, <2>3
    <3>3. ASSUME NEW k \in 1 .. n - 1
          PROVE  page'[f][m[k]] = Link(IF k = n - 1 THEN None ELSE m[k + 1])
      <4>1. page[f][l[k + 1]] = Link(IF k + 1 = n THEN None ELSE l[(k + 1) + 1])
        BY <1>3, <2>3 DEF FreeIs, IsFreeList
      <4>2. k # n - 1 => k + 1 \in 1 .. n - 1
        BY <2>1
      <4>3. k = n - 1 <=> k + 1 = n
        BY <2>1
      <4>. QED BY <2>3, <4>1, <4>2, <4>3
    <3>. QED BY <3>1, <3>2, <3>3 DEF IsFreeList
  <2>7. FreeIs(f, n - 1, m)'
    <3>1. /\ Range(l) \cup inUse[f] = 1 .. unix[f].numPages - 1
          /\ Range(l) \cap inUse[f] = {}
      BY <1>3 DEF FreeIs
    <3>2. /\ Range(m) \cup inUse'[f] = Range(l) \cup inUse[f]
          /\ Range(m) \cap inUse'[f] = {}
      BY <2>4, <2>5, <3>1
    <3>. QED BY <2>2, <2>6, <3>1, <3>2 DEF FreeIs
  <2>8. inUse[f] # {}
    BY <1>1, <1>3, <1>4, <2>5 DEF FreeIs
  <2>9. FirstIs(f)' /\ inUse'[f] # {}
    BY <1>4, <2>2, <2>8 DEF FirstIs
  <2>. QED BY <2>3, <2>7, <2>9 DEF FileSound
<1>6. CASE unix[f].nextFree = None
  <2>1. n = 0 /\ Range(l) = {}
    <3>1. n = 0
      BY <1>3, <1>6, ListEmpty
    <3>. QED BY <3>1 DEF Range
  <2>2. inUse[f] = 1 .. unix[f].numPages - 1
    BY <1>3, <2>1 DEF FreeIs
  <2>3. /\ p = unix[f].numPages
        /\ unix'[f].nextFree = None
        /\ unix'[f].firstPage = IF unix[f].firstPage = None THEN p ELSE unix[f].firstPage
        /\ unix'[f].numPages = p + 1
    BY <1>1, <1>6 DEF AllocateSound, HeaderTaking, Header
  <2>4. inUse'[f] = 1 .. unix'[f].numPages - 1
    <3>1. ASSUME NEW a \in Nat, a >= 1 PROVE (1 .. a - 1) \cup {a} = 1 .. (a + 1) - 1
      BY <3>1
    <3>. QED BY <2>2, <2>3, <3>1 DEF Pages
  <2>5. FreeIs(f, n, l)'
    BY <1>3, <2>1, <2>3, <2>4 DEF FreeIs, IsFreeList
  <2>6. FirstIs(f)'
    <3>1. CASE inUse[f] = {}
      BY <1>4, <2>3, <3>1 DEF FirstIs
    <3>2. CASE inUse[f] # {}
      BY <1>4, <2>3, <3>2 DEF FirstIs, None
    <3>. QED BY <3>1, <3>2
  <2>. QED BY <2>5, <2>6 DEF FileSound
<1>. QED BY <1>5, <1>6

LEMMA DisposeWritten ==
    ASSUME HeaderInv, NEW f \in Names, NEW w, w.file = f, DisposeSound(w),
           unix'[f] = w.header, inUse'[f] = inUse[f] \ {w.page},
           page' = page
    PROVE  FileSound(f)'
<1>. PICK p \in Pages : p = w.page
  BY DEF DisposeSound, HeaderInv, FilesTyped
<1>1. /\ unix[f] \in Header /\ unix[f].numPages \in 1 .. MaxPageNo + 1
      /\ HasHeader(f) /\ p \in inUse[f]
      /\ p # unix[f].firstPage /\ page[f][p] = Link(unix[f].nextFree)
  BY DEF DisposeSound, HeaderInv, FilesTyped, HasHeader, Header, Refused, LinkedTo
<1>2. PICK n \in 0 .. MaxPageNo : \E l \in [1 .. n -> Pages] : FreeIs(f, n, l)
  BY <1>1 DEF HeaderInv, FileSound
<1>3. PICK l \in [1 .. n -> Pages] : FreeIs(f, n, l)
  BY <1>2
<1>4. FirstIs(f) /\ inUse[f] # {}
  BY <1>1 DEF HeaderInv, FileSound
<1>5. /\ unix'[f].nextFree = p
      /\ unix'[f].firstPage = unix[f].firstPage
      /\ unix'[f].numPages = unix[f].numPages
  BY <1>1 DEF DisposeSound, Header
<1>. DEFINE m == [k \in 1 .. n + 1 |-> IF k = 1 THEN p ELSE l[k - 1]]
<1>6. /\ n \in Nat /\ m \in [1 .. n + 1 -> Pages] /\ m[1] = p
      /\ \A k \in 1 .. n : m[k + 1] = l[k]
      /\ \A k \in 1 .. n + 1 : k # 1 => k - 1 \in 1 .. n /\ m[k] = l[k - 1]
  BY MaxPageNoAssumption
<1>. HIDE DEF m
<1>7. p \notin Range(l) /\ \A k \in 1 .. n : l[k] # p
  BY <1>1, <1>3 DEF FreeIs, Range
<1>8. \A j, k \in 1 .. n + 1 : m[j] = m[k] => j = k
  <2>. SUFFICES ASSUME NEW j \in 1 .. n + 1, NEW k \in 1 .. n + 1, m[j] = m[k]
                PROVE  j = k
    OBVIOUS
  <2>1. CASE j # 1 /\ k # 1
    <3>1. /\ j - 1 \in 1 .. n /\ k - 1 \in 1 .. n
          /\ l[j - 1] = l[k - 1]
      BY <1>6, <2>1
    <3>2. j - 1 = k - 1
      BY <1>3, <3>1 DEF FreeIs, IsFreeList
    <3>. QED BY <1>6, <3>2
  <2>2. CASE j = 1 \/ k = 1
    BY <1>6, <1>7, <2>2
  <2>. QED BY <2>1, <2>2
<1>9. n + 1 \in 0 .. MaxPageNo
  <2>1. m \in Injection(1 .. n + 1, Pages)
    BY <1>6, <1>8 DEF Injection, IsInjective
  <2>2. /\ IsFiniteSet(Pages) /\ Cardinality(Pages) = MaxPageNo
        /\ Cardinality(1 .. n + 1) = n + 1
    BY <1>6, FS_Interval, MaxPageNoAssumption DEF Pages
  <2>3. Cardinality(1 .. n + 1) <= Cardinality(Pages)
    BY <2>1, <2>2, FS_Injection
  <2>. QED BY <1>6, <2>2, <2>3, MaxPageNoAssumption
<1>10. Range(m) = Range(l) \cup {p}
  <2>1. ASSUME NEW q \in Range(m) PROVE q \in Range(l) \cup {p}
    <3>1. PICK k \in 1 .. n + 1 : q = m[k]
      BY <1>6, <2>1 DEF Range
    <3>. QED BY <1>6, <3>1 DEF Range
  <2>2. ASSUME NEW q \in Range(l) PROVE q \in Range(m)
    <3>1. PICK k \in 1 .. n : q = l[k]
      BY <2>2 DEF Range
    <3>2. k + 1 \in 1 .. n + 1
      BY <1>6
    <3>3. m[k + 1] = q
      BY <1>6, <3>1
    <3>. QED BY <1>6, <3>2, <3>3 DEF Range
  <2>3. p \in Range(m)
    <3>1. 1 \in 1 .. n + 1
      BY <1>6
    <3>. QED BY <1>6, <3>1 DEF Range
  <2>. QED BY <2>1, <2>2, <2>3
<1>11. IsFreeList(f, n + 1, m)'
  <2>1. ASSUME NEW k \in 1 .. n + 1
        PROVE  page'[f][m[k]] = Link(IF k = n + 1 THEN None ELSE m[k + 1])
    <3>1. CASE k = 1
      <4>1. unix[f].nextFree = IF n = 0 THEN None ELSE l[1]
        BY <1>3 DEF FreeIs, IsFreeList
      <4>2. n # 0 => m[k + 1] = l[1]
        <5>1. n # 0 => 1 \in 1 .. n
          BY <1>6
        <5>. QED BY <1>6, <3>1, <5>1
      <4>3. k = n + 1 <=> n = 0
        BY <1>6, <3>1
      <4>4. page'[f][m[k]] = Link(unix[f].nextFree)
        BY <1>1, <1>6, <3>1
      <4>. QED BY <4>1, <4>2, <4>3, <4>4
    <3>2. CASE k # 1
      <4>1. k - 1 \in 1 .. n /\ m[k] = l[k - 1]
        BY <1>6, <3>2
      <4>2. page[f][l[k - 1]] = Link(IF k - 1 = n THEN None ELSE l[(k - 1) + 1])
        BY <1>3, <4>1 DEF FreeIs, IsFreeList
      <4>3. k # n + 1 => k \in 1 .. n /\ (k - 1) + 1 = k /\ m[k + 1] = l[k]
        BY <1>6, <3>2
      <4>4. k = n + 1 <=> k - 1 = n
        BY <1>6
      <4>. QED BY <4>1, <4>2, <4>3, <4>4
    <3>. QED BY <3>1, <3>2
  <2>2. unix'[f].nextFree = IF n + 1 = 0 THEN None ELSE m[1]
    BY <1>5, <1>6
  <2>. QED BY <1>8, <2>1, <2>2 DEF IsFreeList
<1>12. FreeIs(f, n + 1, m)'
  <2>1. /\ Range(l) \cup inUse[f] = 1 .. unix[f].numPages - 1
        /\ Range(l) \cap inUse[f] = {}
    BY <1>3 DEF FreeIs
  <2>2. /\ Range(m) \cup inUse'[f] = Range(l) \cup inUse[f]
        /\ Range(m) \cap inUse'[f] = {}
    BY <1>1, <1>10, <2>1
  <2>. QED BY <1>5, <1>11, <2>1, <2>2 DEF FreeIs
<1>13. FirstIs(f)' /\ inUse'[f] # {}
  BY <1>1, <1>4, <1>5 DEF FirstIs
<1>. QED BY <1>6, <1>9, <1>12, <1>13 DEF FileSound

LEMMA HeaderWrittenStep ==
    ASSUME HeaderInv, HeaderWritten
    PROVE  HeaderInv'
<1>. PICK f \in Names : f = pending.file
  BY DEF HeaderInv, WriteSound, HeaderWritten
<1>1. /\ WriteSound(pending) /\ pending.header \in Header
      /\ unix' = [unix EXCEPT ![f] = pending.header]
      /\ page' = page /\ pending' = NoWrite
  BY DEF HeaderInv, WriteSound, HeaderWritten
<1>2. unix'[f] = pending.header /\ \A g \in Names : g # f => unix'[g] = unix[g]
  BY <1>1 DEF HeaderInv, FilesTyped
<1>3. /\ pending.op = "create" => inUse' = [inUse EXCEPT ![f] = @]
      /\ pending.op = "allocate" => inUse' = [inUse EXCEPT ![f] = @ \cup {pending.page}]
      /\ pending.op = "dispose" => inUse' = [inUse EXCEPT ![f] = @ \ {pending.page}]
  BY DEF HeaderWritten
<1>4. /\ inUse' \in [Names -> SUBSET Pages]
      /\ \A g \in Names : g # f => inUse'[g] = inUse[g]
      /\ pending.op = "create" => inUse'[f] = inUse[f]
      /\ pending.op = "allocate" => inUse'[f] = inUse[f] \cup {pending.page}
      /\ pending.op = "dispose" => inUse'[f] = inUse[f] \ {pending.page}
  BY <1>1, <1>3 DEF HeaderInv, FilesTyped, WriteSound, AllocateSound
<1>5. FileSound(f)'
  <2>1. CASE pending.op = "create" /\ CreateSound(pending)
    BY <1>2, <1>4, <2>1, CreateWritten
  <2>2. CASE pending.op = "allocate" /\ AllocateSound(pending)
    BY <1>1, <1>2, <1>4, <2>2, AllocateWritten
  <2>3. CASE pending.op = "dispose" /\ DisposeSound(pending)
    BY <1>1, <1>2, <1>4, <2>3, DisposeWritten
  <2>. QED BY <1>1, <2>1, <2>2, <2>3 DEF WriteSound
<1>6. \A g \in Names : FileSound(g)'
  BY <1>1, <1>2, <1>4, <1>5, OthersKept
<1>7. FilesTyped'
  BY <1>1, <1>4 DEF HeaderInv, FilesTyped
<1>. QED BY <1>1, <1>6, <1>7 DEF HeaderInv, Idle

\* A step that leaves the files alone: HeaderFails and Crash give up the write.
LEMMA FilesKept ==
    ASSUME HeaderInv, UNCHANGED <<unix, page, inUse>>,
           pending' = pending \/ pending' = NoWrite
    PROVE  HeaderInv'
<1>1. \A f \in Names : FileSound(f)'
  BY FileKept DEF HeaderInv
<1>2. FilesTyped'
  BY DEF HeaderInv, FilesTyped
<1>3. ASSUME ~Idle' PROVE WriteSound(pending)'
  <2>1. pending' = pending /\ WriteSound(pending)
    BY <1>3 DEF Idle, HeaderInv
  <2>2. HeaderTaking(pending.file, pending.page)' = HeaderTaking(pending.file, pending.page)
    BY <2>1 DEF HeaderTaking
  <2>. QED BY <2>1, <2>2 DEF WriteSound, CreateSound, AllocateSound, DisposeSound,
                             HasHeader, Refused, LinkedTo
<1>. QED BY <1>1, <1>2, <1>3 DEF HeaderInv

-----------------------------------------------------------------------------
(* Both halves together.                                                   *)

FileInv == TableInv /\ HeaderInv

\* The name of an open file, for the calls on it.
LEMMA OpenName ==
    ASSUME TableInv, NEW c \in Clients, HasFile(c)
    PROVE  FileOf(c) \in Names
<1>1. client[c] \in Addresses /\ object[client[c]] \in File
  BY DEF TableInv, HasFile
<1>. QED BY <1>1 DEF FileOf, File

LEMMA InitFileInv == Init => FileInv
<1>. SUFFICES ASSUME Init PROVE FileInv
  OBVIOUS
<1>1. TableInv
  BY EmptyTable DEF Init, NothingOpen
<1>2. FilesTyped
  BY DEF Init, FilesTyped, Contents
<1>3. \A f \in Names : FileSound(f)
  BY DEF Init, FileSound, HasHeader
<1>. QED BY <1>1, <1>2, <1>3 DEF FileInv, HeaderInv, Init, Idle

\* One step for every call, and under it the half it is about.
LEMMA NextFileInv ==
    ASSUME FileInv, [Next]_vars
    PROVE  FileInv'
<1>. USE DEF FileInv
<1>1. ASSUME NEW f \in Names, createFile(f) PROVE FileInv'
  <2>1. \A g \in Names : unix'[g] = Absent => unix[g] = Absent
    <3>1. unix' = unix \/ unix' = [unix EXCEPT ![f] = Headless]
      BY <1>1 DEF createFile, create
    <3>. QED BY <3>1, SentinelAssumption DEF HeaderInv, FilesTyped
  <2>2. TableInv'
    BY <1>1, <2>1, TableKept DEF createFile, openFiles
  <2>. QED BY <1>1, <2>2, CreateFileStep
<1>2. ASSUME NEW f \in Names, destroyFile(f) PROVE FileInv'
  <2>1. \A g \in Names : unix'[g] = Absent => unix[g] = Absent \/ find(g) = {}
    <3>1. unix' = unix \/ (unix' = [unix EXCEPT ![f] = Absent] /\ find(f) = {})
      BY <1>2 DEF destroyFile, destroy
    <3>. QED BY <3>1 DEF HeaderInv, FilesTyped
  <2>2. TableInv'
    BY <1>2, <2>1, TableKept DEF destroyFile, openFiles
  <2>. QED BY <1>2, <2>2, DestroyFileStep
<1>3. ASSUME NEW c \in Clients, NEW f \in Names, openFile(c, f) PROVE FileInv'
  BY <1>3, OpenTable, FilesKept DEF openFile
<1>4. ASSUME NEW c \in Clients, closeFile(c) PROVE FileInv'
  BY <1>4, CloseTable, FilesKept DEF closeFile
<1>5. ASSUME NEW c \in Clients, allocatePage(c) PROVE FileInv'
  <2>1. UNCHANGED <<unix, openFiles, client>> /\ HasFile(c)
    BY <1>5 DEF allocatePage
  <2>2. TableInv'
    BY <2>1, TableKept DEF openFiles
  <2>. QED BY <1>5, <2>1, <2>2, OpenName, AllocatePageStep
<1>6. ASSUME NEW c \in Clients, NEW p \in Mine(c), disposePage(c, p) PROVE FileInv'
  <2>1. UNCHANGED <<unix, openFiles, client>> /\ HasFile(c) /\ p \in inUse[FileOf(c)]
    BY <1>6 DEF disposePage, Mine
  <2>2. TableInv'
    BY <2>1, TableKept DEF openFiles
  <2>. QED BY <1>6, <2>1, <2>2, OpenName, DisposePageStep
<1>7. ASSUME NEW c \in Clients, NEW p \in Mine(c), NEW v \in Data, writePage(c, p, v)
      PROVE  FileInv'
  <2>1. UNCHANGED <<unix, openFiles, client>> /\ HasFile(c) /\ p \in inUse[FileOf(c)]
    BY <1>7 DEF writePage, Mine
  <2>2. TableInv'
    BY <2>1, TableKept DEF openFiles
  <2>. QED BY <1>7, <2>1, <2>2, OpenName, WritePageStep
<1>8. CASE HeaderWritten
  <2>1. \A f \in Names : unix'[f] # unix[f] => unix'[f] # Absent
    BY <1>8, SentinelAssumption DEF HeaderWritten, HeaderInv, FilesTyped, WriteSound
  <2>2. TableInv'
    BY <1>8, <2>1, TableKept DEF HeaderWritten, openFiles
  <2>. QED BY <1>8, <2>2, HeaderWrittenStep
<1>9. CASE HeaderFails
  BY <1>9, TableKept, FilesKept DEF HeaderFails, openFiles
<1>10. CASE Crash
  <2>1. TableInv'
    <3>1. NothingOpen' => TableInv'
      BY EmptyTable, PTL
    <3>. QED BY <1>10, <3>1 DEF Crash, NothingOpen
  <2>. QED BY <1>10, <2>1, FilesKept DEF Crash
<1>11. CASE UNCHANGED vars
  BY <1>11, TableKept, FilesKept DEF vars
<1>. QED BY <1>1, <1>2, <1>3, <1>4, <1>5, <1>6, <1>7, <1>8, <1>9, <1>10, <1>11 DEF Next

\* The table of open files and the header of every file are right in every
\* reachable state: after each call, each single write and each crash.
THEOREM FileInvAlways == Spec => []FileInv
  BY InitFileInv, NextFileInv, PTL DEF Spec

\* Every variable has its type, and so has the header a call still has to
\* write, which is built from the page it read (db.C:259-345).
THEOREM TypeCorrect == Spec => []TypeOK
<1>1. FileInv => TypeOK
  BY DEF FileInv, TableInv, ChainsSound, Bucket, HeaderInv, FilesTyped, WriteSound, TypeOK
<1>. QED BY <1>1, FileInvAlways, PTL

\* For any number of files, clients and pages, whichever write a call ends at:
\* the free list of every file ends and holds the pages that are not in use,
\* and the first page of a file in use stays its first page (db.C:245-345).
THEOREM HeaderSoundAlways == Spec => []HeaderSound
<1>1. FileInv => HeaderSound
  BY DEF FileInv, HeaderInv, FileSound, FreeIs, FirstIs, HeaderSound, FreeListSound, FirstPageStays
<1>. QED BY <1>1, FileInvAlways, PTL

\* The open count of a File object is the number of its clients, and the table
\* finds one object under its name, whatever the hash function makes of the
\* names (db.C:53-109, 511-567).
THEOREM OpenCntIsClientsAlways == Spec => []OpenCntIsClients
<1>1. FileInv => OpenCntIsClients
  <2>. SUFFICES ASSUME FileInv PROVE OpenCntIsClients
    OBVIOUS
  <2>. USE DEF FileInv, TableInv
  <2>1. ASSUME NEW i \in DOMAIN ht, NEW b \in Range(ht[i])
        PROVE  object[b.file] # NoFile /\ object[b.file].name = b.fname
    <3>1. ht[i] \in Seq(Bucket) /\ HashOf[b.fname] = i
      BY DEF ChainsSound
    <3>2. PICK j \in DOMAIN ht[i] : b = ht[i][j]
      BY DEF Range
    <3>3. b \in Bucket
      BY <3>1, <3>2
    <3>4. b.fname \in Names /\ b \in find(b.fname)
      BY <3>1, <3>3 DEF Bucket, find
    <3>. QED BY <3>4
  <2>. QED BY <2>1 DEF OpenCntIsClients, ObjectSound, Users
<1>. QED BY <1>1, FileInvAlways, PTL
=============================================================================
