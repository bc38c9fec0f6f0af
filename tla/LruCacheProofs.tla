--------------------------- MODULE LruCacheProofs ---------------------------
(***************************************************************************)
(* lru11::Cache, for any keys, values, sizes and elasticities: map, list   *)
(* and nodes agree, the list is the order of use, and the pooled cache     *)
(* implements module ReadCache.                                            *)
(***************************************************************************)
EXTENDS LruCache, SequenceTheorems, FiniteSetTheorems, TLAPS

Types ==
    /\ pooled \in BOOLEAN /\ maxSize \in Nat /\ elasticity \in Nat
    /\ pooled => maxSize = CacheSize /\ elasticity = 0
    /\ map \in [Key -> Address \cup {None}] /\ node \in [Address -> Node \cup {None}]
    /\ list \in Seq(Address) /\ recent \in Seq(Key)
    /\ DOMAIN pool = Buffer /\ currentIndex \in Nat /\ DOMAIN latest = Key

\* The list holds the nodes that are in use, each once, and the map finds them.
Linked ==
    /\ \A i \in 1 .. Len(list) : node[list[i]] # None /\ map[node[list[i]].key] = list[i]
    /\ \A k \in Key : map[k] # None => node[map[k]].key = k /\ \E i \in 1 .. Len(list) : list[i] = map[k]
    /\ \A a \in Address : node[a] # None => \E i \in 1 .. Len(list) : list[i] = a
    /\ \A i, j \in 1 .. Len(list) : list[i] = list[j] => i = j

\* The list is the beginning of the keys by last use.
Ordered ==
    /\ Len(list) <= Len(recent)
    /\ \A i, j \in 1 .. Len(recent) : recent[i] = recent[j] => i = j
    /\ \A i \in 1 .. Len(list) : /\ node[list[i]].key = recent[i]
                                 /\ node[list[i]].value = latest[recent[i]]

\* The size between two operations, and the buffers handed out.
Sized ==
    /\ maxSize > 0 => Len(list) <= maxSize \/ Len(list) < maxSize + elasticity
    /\ pooled => currentIndex = Len(list) /\ \A i \in 1 .. Len(list) : node[list[i]].value \in Buffer
    /\ ~pooled => currentIndex = 0

LruInv == Types /\ Linked /\ Ordered /\ Sized

-----------------------------------------------------------------------------
(* Sequences                                                               *)

\* An element in front of a sequence.
LEMMA ConsFacts ==
    ASSUME NEW S, NEW s \in Seq(S), NEW x \in S
    PROVE  /\ Cons(x, s) \in Seq(S) /\ Len(Cons(x, s)) = Len(s) + 1 /\ Cons(x, s)[1] = x
           /\ \A i \in 2 .. Len(s) + 1 : Cons(x, s)[i] = s[i - 1]
<1>1. <<x>> \in Seq(S) /\ Len(<<x>>) = 1 /\ <<x>>[1] = x OBVIOUS
<1> DEFINE f == <<x>>
<1> HIDE DEF f
<1>2. f \in Seq(S) /\ Len(f) = 1 /\ f[1] = x /\ Cons(x, s) = f \o s BY <1>1 DEF f, Cons
<1>3. Len(s) \in Nat OBVIOUS
<1>4. /\ f \o s \in Seq(S) /\ Len(f \o s) = 1 + Len(s)
      /\ \A i \in 1 .. 1 + Len(s) : (f \o s)[i] = IF i <= 1 THEN f[i] ELSE s[i - 1]
  <2>1. /\ f \o s \in Seq(S) /\ Len(f \o s) = Len(f) + Len(s)
        /\ \A i \in 1 .. Len(f) + Len(s) : (f \o s)[i] = IF i <= Len(f) THEN f[i] ELSE s[i - Len(f)]
    BY <1>2, ConcatProperties, Zenon
  <2> QED BY <1>2, <2>1, Zenon
<1>5. 1 \in 1 .. 1 + Len(s) /\ 1 + Len(s) = Len(s) + 1 BY <1>3
<1>6. \A i \in 2 .. Len(s) + 1 : i \in 1 .. 1 + Len(s) /\ ~ (i <= 1) BY <1>3
<1> QED BY <1>2, <1>4, <1>5, <1>6

\* The same as one fact about r = Cons(x, s).
InFront(r, x, s, S) ==
    /\ r \in Seq(S) /\ Len(r) = Len(s) + 1 /\ r[1] = x
    /\ \A i \in 2 .. Len(s) + 1 : r[i] = s[i - 1]

\* Cons puts an element in front.
LEMMA ConsInFront ==
    ASSUME NEW S, NEW s \in Seq(S), NEW x \in S
    PROVE  InFront(Cons(x, s), x, s, S)
  BY ConsFacts DEF InFront

\* A sequence without its element p.
LEMMA RemoveAtFacts ==
    ASSUME NEW S, NEW s \in Seq(S), NEW p \in 1 .. Len(s)
    PROVE  /\ RemoveAt(s, p) \in Seq(S) /\ Len(RemoveAt(s, p)) = Len(s) - 1
           /\ \A i \in 1 .. Len(s) - 1 : RemoveAt(s, p)[i] = s[IF i < p THEN i ELSE i + 1]
<1> DEFINE u == SubSeq(s, 1, p - 1)
           v == SubSeq(s, p + 1, Len(s))
           L == Len(s)
<1>1. L \in Nat /\ p \in Nat /\ p >= 1 /\ p <= L OBVIOUS
<1>2. u \in Seq(S) /\ Len(u) = p - 1 /\ \A i \in 1 .. p - 1 : u[i] = s[i] OBVIOUS
<1>3. v \in Seq(S) /\ Len(v) = L - p /\ \A i \in 1 .. L - p : v[i] = s[i + p] OBVIOUS
<1>4. RemoveAt(s, p) = u \o v BY DEF RemoveAt
<1> HIDE DEF u, v, L
<1>5. /\ u \o v \in Seq(S) /\ Len(u \o v) = (p - 1) + (L - p)
      /\ \A i \in 1 .. (p - 1) + (L - p) : (u \o v)[i] = IF i <= p - 1 THEN u[i] ELSE v[i - (p - 1)]
  BY <1>2, <1>3, ConcatProperties
<1>6. (p - 1) + (L - p) = L - 1 BY <1>1
<1>7. ASSUME NEW i \in 1 .. L - 1 PROVE (u \o v)[i] = s[IF i < p THEN i ELSE i + 1]
  <2>1. (u \o v)[i] = IF i <= p - 1 THEN u[i] ELSE v[i - (p - 1)] BY <1>5, <1>6
  <2>2. CASE i < p
    <3>1. i <= p - 1 /\ i \in 1 .. p - 1 BY <1>1, <2>2
    <3> QED BY <1>2, <2>1, <2>2, <3>1
  <2>3. CASE ~ i < p
    <3>1. ~ (i <= p - 1) /\ i - (p - 1) \in 1 .. L - p /\ (i - (p - 1)) + p = i + 1 BY <1>1, <2>3
    <3> QED BY <1>3, <2>1, <2>3, <3>1
  <2> QED BY <2>2, <2>3
<1> QED BY <1>4, <1>5, <1>6, <1>7 DEF L

Injective(s) == \A i, j \in 1 .. Len(s) : s[i] = s[j] => i = j

\* Where the element at place i comes from, after the one at place p moved to the front,
\* and after it was taken out.
Moved(p, i) == IF i = 1 THEN p ELSE IF i - 1 < p THEN i - 1 ELSE i
Closed(p, i) == IF i < p THEN i ELSE i + 1

\* RemoveFirst takes out the element at the place it has.
LEMMA RemoveFirstIs ==
    ASSUME NEW S, NEW s \in Seq(S), Injective(s), NEW p \in 1 .. Len(s)
    PROVE  RemoveFirst(s, s[p]) = RemoveAt(s, p)
<1> DEFINE I == {i \in 1 .. Len(s) : s[i] = s[p]}
<1>1. I = {p} BY DEF Injective
<1>2. p <= p OBVIOUS
<1>3. (CHOOSE x \in {p} : \A y \in {p} : x <= y) = p BY <1>2
<1>4. SelectInSeq(s, LAMBDA v : v = s[p]) = IF I # {} THEN Min(I) ELSE 0 BY DEF SelectInSeq
<1>5. SelectInSeq(s, LAMBDA v : v = s[p]) = p
  <2> HIDE DEF I
  <2> QED BY <1>1, <1>3, <1>4 DEF Min
<1> QED BY <1>5 DEF RemoveFirst

\* What is left of a list without repetitions when an element goes.
LEMMA DropFacts ==
    ASSUME NEW S, NEW s \in Seq(S), Injective(s), NEW p \in 1 .. Len(s)
    PROVE  /\ RemoveFirst(s, s[p]) \in Seq(S) /\ Len(RemoveFirst(s, s[p])) = Len(s) - 1
           /\ \A i \in 1 .. Len(s) - 1 : RemoveFirst(s, s[p])[i] = s[Closed(p, i)]
  BY RemoveFirstIs, RemoveAtFacts, SMTT(30) DEF Closed

\* splice moves an element to the front and keeps the others in order.
LEMMA SpliceFacts ==
    ASSUME NEW S, NEW s \in Seq(S), Injective(s), NEW p \in 1 .. Len(s)
    PROVE  /\ Splice(s, s[p]) \in Seq(S) /\ Len(Splice(s, s[p])) = Len(s)
           /\ \A i \in 1 .. Len(s) : Splice(s, s[p])[i] = s[Moved(p, i)]
<1> DEFINE t == RemoveAt(s, p)
           x == s[p]
           L == Len(s)
<1>1. L \in Nat /\ p \in 1 .. L /\ x \in S /\ Splice(s, s[p]) = Cons(x, t) BY RemoveFirstIs DEF Splice
<1>2. t \in Seq(S) /\ Len(t) = L - 1 /\ \A i \in 1 .. L - 1 : t[i] = s[IF i < p THEN i ELSE i + 1]
  BY RemoveAtFacts
<1> HIDE DEF t, x, L
<1>3. /\ Cons(x, t) \in Seq(S) /\ Len(Cons(x, t)) = Len(t) + 1 /\ Cons(x, t)[1] = x
      /\ \A i \in 2 .. Len(t) + 1 : Cons(x, t)[i] = t[i - 1]
  <2>1. InFront(Cons(x, t), x, t, S) BY <1>1, <1>2, ConsInFront
  <2> QED BY <2>1 DEF InFront
<1>4. (L - 1) + 1 = L BY <1>1
<1>5. ASSUME NEW i \in 1 .. L PROVE Cons(x, t)[i] = s[Moved(p, i)]
  <2>1. CASE i = 1 BY <1>3, <2>1 DEF Moved, x
  <2>2. CASE i # 1
    <3>1. i \in 2 .. L /\ i - 1 \in 1 .. L - 1 /\ (i - 1) + 1 = i BY <1>1, <2>2
    <3>2. Cons(x, t)[i] = t[i - 1] BY <1>2, <1>3, <1>4, <3>1
    <3>3. t[i - 1] = s[IF i - 1 < p THEN i - 1 ELSE (i - 1) + 1] BY <1>2, <3>1
    <3> QED BY <2>2, <3>1, <3>2, <3>3 DEF Moved
  <2> QED BY <2>1, <2>2
<1> QED BY <1>1, <1>2, <1>3, <1>4, <1>5 DEF L

\* A key that is new is put in front of the ones that are there.
LEMMA SpliceNew ==
    ASSUME NEW S, NEW s \in Seq(S), NEW x \in S, \A i \in 1 .. Len(s) : s[i] # x
    PROVE  Splice(s, x) = Cons(x, s)
  BY DEF Splice, RemoveFirst

\* Moving and taking out only rearrange places: none is used twice.
LEMMA Places ==
    ASSUME NEW n \in Nat, NEW p \in 1 .. n
    PROVE  /\ \A i \in 1 .. n : Moved(p, i) \in 1 .. n
           /\ \A i, j \in 1 .. n : Moved(p, i) = Moved(p, j) => i = j
           /\ \A i \in 1 .. n : \E j \in 1 .. n : Moved(p, j) = i
           /\ \A i \in 1 .. n - 1 : Closed(p, i) \in 1 .. n /\ Closed(p, i) # p
           /\ \A i, j \in 1 .. n - 1 : Closed(p, i) = Closed(p, j) => i = j
           /\ \A i \in 1 .. n : i # p => \E j \in 1 .. n - 1 : Closed(p, j) = i
<1>1. \A i \in 1 .. n : Moved(p, i) \in 1 .. n BY DEF Moved
<1>2. \A i, j \in 1 .. n : Moved(p, i) = Moved(p, j) => i = j BY DEF Moved
<1>3. ASSUME NEW i \in 1 .. n PROVE \E j \in 1 .. n : Moved(p, j) = i
  <2>1. CASE i = p BY <2>1 DEF Moved
  <2>2. CASE i < p
    <3>1. i + 1 \in 1 .. n /\ Moved(p, i + 1) = i BY <2>2 DEF Moved
    <3> QED BY <3>1
  <2>3. CASE i > p
    <3>1. Moved(p, i) = i BY <2>3 DEF Moved
    <3> QED BY <3>1
  <2> QED BY <2>1, <2>2, <2>3
<1>4. \A i \in 1 .. n - 1 : Closed(p, i) \in 1 .. n /\ Closed(p, i) # p BY DEF Closed
<1>5. \A i, j \in 1 .. n - 1 : Closed(p, i) = Closed(p, j) => i = j BY DEF Closed
<1>6. ASSUME NEW i \in 1 .. n, i # p PROVE \E j \in 1 .. n - 1 : Closed(p, j) = i
  <2>1. CASE i < p
    <3>1. i \in 1 .. n - 1 /\ Closed(p, i) = i BY <2>1 DEF Closed
    <3> QED BY <3>1
  <2>2. CASE i > p
    <3>1. i - 1 \in 1 .. n - 1 /\ Closed(p, i - 1) = i BY <2>2 DEF Closed
    <3> QED BY <3>1
  <2> QED BY <1>6, <2>1, <2>2
<1> QED BY <1>1, <1>2, <1>3, <1>4, <1>5, <1>6

-----------------------------------------------------------------------------
(* Nodes                                                                   *)

\* Types of what the lists hold, for the proofs below.
LEMMA LruTypes ==
    ASSUME Types, Linked
    PROVE  /\ Len(list) \in Nat /\ Len(recent) \in Nat /\ CacheSize \in Nat /\ CacheSize # 0
           /\ \A i \in 1 .. Len(list) : list[i] \in Address /\ node[list[i]] \in Node
           /\ \A i \in 1 .. Len(list) : node[list[i]].key \in Key /\ node[list[i]].value \in Value \cup Buffer
           /\ \A i \in 1 .. Len(recent) : recent[i] \in Key
           /\ None \notin Address /\ None \notin Node
           /\ Injective(list)
<1>1. list \in Seq(Address) /\ recent \in Seq(Key) BY DEF Types
<1>2. Len(list) \in Nat /\ Len(recent) \in Nat BY <1>1
<1>3. \A i \in 1 .. Len(list) : list[i] \in Address BY <1>1
<1>4. \A i \in 1 .. Len(recent) : recent[i] \in Key BY <1>1
<1>5. \A i \in 1 .. Len(list) : node[list[i]] \in Node BY <1>3 DEF Types, Linked
<1>6. \A n \in Node : n.key \in Key /\ n.value \in Value \cup Buffer BY DEF Node
<1> QED BY <1>2, <1>3, <1>4, <1>5, <1>6, LruAssumption, FreeAssumption DEF Linked, Injective

\* There is a node for a new key: every node in use has a key of its own.
LEMMA FreeNodeIsFree ==
    ASSUME Types, Linked
    PROVE  FreeNode \in Address /\ node[FreeNode] = None
<1>1. \E a \in Address : node[a] = None
  <2> SUFFICES ASSUME \A a \in Address : node[a] # None PROVE FALSE OBVIOUS
  <2> DEFINE f == [a \in Address |-> node[a].key]
  <2>1. ASSUME NEW a \in Address PROVE node[a].key \in Key /\ map[node[a].key] = a
    <3>1. PICK i \in 1 .. Len(list) : list[i] = a BY DEF Linked
    <3> QED BY <3>1, LruTypes DEF Linked
  <2>2. f \in [Address -> Key] BY <2>1
  <2>3. IsFiniteSet(Key) /\ Cardinality(Key) \in Nat BY LruAssumption, FS_CardinalityType
  <2>4. IsFiniteSet(Address) /\ Cardinality(Address) = Cardinality(Key) + 1
    <3> DEFINE n == Cardinality(Key) + 1
    <3>1. n \in Int /\ 1 \in Int /\ ~ (1 > n) /\ n - 1 + 1 = n BY <2>3
    <3> HIDE DEF n
    <3>2. IsFiniteSet(1 .. n) /\ Cardinality(1 .. n) = n BY <3>1, FS_Interval
    <3> QED BY <3>2 DEF Address, n
  <2>5. Cardinality(Key) < Cardinality(Address) BY <2>3, <2>4
  <2> HIDE DEF f
  <2>6. \E x, y \in Address : x # y /\ f[x] = f[y] BY <2>2, <2>3, <2>4, <2>5, FS_PigeonHole, Zenon
  <2> QED BY <2>1, <2>6 DEF f
<1> QED BY <1>1 DEF FreeNode

\* The place of a key that is there.
LEMMA PlaceOf ==
    ASSUME Types, Linked, Ordered, NEW k \in Key, map[k] # None
    PROVE  \E p \in 1 .. Len(list) : /\ list[p] = map[k] /\ recent[p] = k /\ node[list[p]].key = k
                                     /\ p \in 1 .. Len(recent)
<1>1. PICK p \in 1 .. Len(list) : list[p] = map[k] BY DEF Linked
<1>2. node[list[p]].key = k /\ recent[p] = k BY <1>1 DEF Linked, Ordered
<1>3. p \in 1 .. Len(recent) BY LruTypes DEF Ordered
<1> QED BY <1>1, <1>2, <1>3

\* A use of a key that is there, with or without a new value: the node moves to the front.
LEMMA HitStep ==
    ASSUME LruInv, NEW k \in Key, map[k] # None,
           map' = map, list' = Splice(list, map[k]), Used(k),
           node' \in [Address -> Node \cup {None}],
           \A a \in Address : /\ node'[a] = None <=> node[a] = None
                              /\ node[a] # None => node'[a].key = node[a].key,
           \A i \in 1 .. Len(list) : node'[list[i]].value = latest'[recent[i]],
           DOMAIN latest' = Key, pooled => UNCHANGED node,
           UNCHANGED <<fixed, buffers>>
    PROVE  LruInv'
<1> DEFINE L == Len(list)
           R == Len(recent)
<1>1. Types /\ Linked /\ Ordered /\ Sized BY DEF LruInv
<1>2. /\ L \in Nat /\ R \in Nat /\ L <= R /\ list \in Seq(Address) /\ recent \in Seq(Key)
      /\ Injective(list) /\ Injective(recent)
  BY <1>1, LruTypes DEF Ordered, Types, Injective
<1>3. PICK p \in 1 .. L : list[p] = map[k] /\ recent[p] = k /\ p \in 1 .. R BY <1>1, PlaceOf
<1>4. list' \in Seq(Address) /\ Len(list') = L /\ \A i \in 1 .. L : list'[i] = list[Moved(p, i)]
  <2>1. list' = Splice(list, list[p]) BY <1>3
  <2> QED BY <1>2, <2>1, SpliceFacts
<1>5. recent' \in Seq(Key) /\ Len(recent') = R /\ \A i \in 1 .. R : recent'[i] = recent[Moved(p, i)]
  <2>1. recent' = Splice(recent, recent[p]) BY <1>3 DEF Used
  <2>2. p \in 1 .. R BY <1>3
  <2> QED BY <1>2, <2>1, <2>2, SpliceFacts
<1>6. /\ \A i \in 1 .. L : Moved(p, i) \in 1 .. L /\ i \in 1 .. R
      /\ \A i, j \in 1 .. L : Moved(p, i) = Moved(p, j) => i = j
      /\ \A i \in 1 .. L : \E j \in 1 .. L : Moved(p, j) = i
  <2>1. \A i \in 1 .. L : i \in 1 .. R BY <1>2
  <2> QED BY <1>2, <2>1, Places, ZenonT(60)
<1>7. \A i \in 1 .. R : Moved(p, i) \in 1 .. R BY <1>2, <1>3, Places
<1>8. \A i, j \in 1 .. R : Moved(p, i) = Moved(p, j) => i = j BY <1>2, <1>3, Places
<1> HIDE DEF L, R
<1>9. \A i \in 1 .. L : list[i] \in Address /\ node[list[i]] # None
                        /\ node'[list[i]] # None /\ node'[list[i]].key = node[list[i]].key
  BY <1>1, LruTypes DEF Linked, L
<1>10. UNCHANGED <<pooled, maxSize, elasticity, pool, currentIndex>> BY DEF fixed, buffers
<1>11. Types' BY <1>1, <1>4, <1>5, <1>10 DEF Types
<1>12. Linked'
  <2>1. ASSUME NEW i \in 1 .. L PROVE node'[list'[i]] # None /\ map'[node'[list'[i]].key] = list'[i]
    <3>1. Moved(p, i) \in 1 .. L /\ list'[i] = list[Moved(p, i)] BY <1>4, <1>6
    <3>2. \A j \in 1 .. L : map[node[list[j]].key] = list[j] BY <1>1 DEF Linked, L
    <3> QED BY <1>9, <3>1, <3>2
  <2>2. ASSUME NEW x \in Address, \E i \in 1 .. L : list[i] = x PROVE \E i \in 1 .. L : list'[i] = x
    <3>1. PICK i \in 1 .. L : list[i] = x BY <2>2
    <3>2. PICK j \in 1 .. L : Moved(p, j) = i BY <1>6
    <3> QED BY <1>4, <3>1, <3>2
  <2>3. ASSUME NEW y \in Key, map'[y] # None
        PROVE  node'[map'[y]].key = y /\ \E i \in 1 .. L : list'[i] = map'[y]
    <3>1. node[map[y]].key = y /\ \E i \in 1 .. L : list[i] = map[y] BY <1>1, <2>3 DEF Linked, L
    <3>2. map[y] \in Address /\ node[map[y]] # None BY <1>9, <3>1
    <3> QED BY <2>2, <3>1, <3>2
  <2>4. ASSUME NEW a \in Address, node'[a] # None PROVE \E i \in 1 .. L : list'[i] = a
    BY <1>1, <2>2, <2>4 DEF Linked, L
  <2>5. ASSUME NEW i \in 1 .. L, NEW j \in 1 .. L, list'[i] = list'[j] PROVE i = j
    <3>1. /\ Moved(p, i) \in 1 .. L /\ Moved(p, j) \in 1 .. L
          /\ list[Moved(p, i)] = list[Moved(p, j)]
      BY <1>4, <1>6, <2>5
    <3>2. Moved(p, i) = Moved(p, j) BY <1>2, <3>1 DEF Injective, L
    <3> QED BY <1>6, <3>2
  <2> QED BY <1>4, <2>1, <2>3, <2>4, <2>5 DEF Linked
<1>13. Ordered'
  <2>1. \A i, j \in 1 .. R : recent'[i] = recent'[j] => i = j
    <3> SUFFICES ASSUME NEW i \in 1 .. R, NEW j \in 1 .. R, recent'[i] = recent'[j] PROVE i = j
      OBVIOUS
    <3>1. /\ Moved(p, i) \in 1 .. R /\ Moved(p, j) \in 1 .. R
          /\ recent[Moved(p, i)] = recent[Moved(p, j)]
      BY <1>5, <1>7
    <3>2. Moved(p, i) = Moved(p, j) BY <1>2, <3>1 DEF Injective, R
    <3> QED BY <1>8, <3>2
  <2>2. ASSUME NEW i \in 1 .. L
        PROVE  node'[list'[i]].key = recent'[i] /\ node'[list'[i]].value = latest'[recent'[i]]
    <3>1. Moved(p, i) \in 1 .. L /\ list'[i] = list[Moved(p, i)] /\ recent'[i] = recent[Moved(p, i)]
      BY <1>4, <1>5, <1>6
    <3>2. \A j \in 1 .. L : node'[list[j]].key = recent[j] /\ node'[list[j]].value = latest'[recent[j]]
      BY <1>1, <1>9 DEF Ordered, L
    <3> QED BY <3>1, <3>2
  <2> QED BY <1>2, <1>4, <1>5, <2>1, <2>2 DEF Ordered
<1>14. Sized'
  <2>1. pooled => \A i \in 1 .. L : node'[list'[i]].value \in Buffer BY <1>1, <1>4, <1>6 DEF Sized, L
  <2> QED BY <1>1, <1>4, <1>10, <2>1 DEF Sized, L
<1> QED BY <1>11, <1>12, <1>13, <1>14 DEF LruInv

\* A key is taken out, of the list, of the map and of the history at the same place.
LEMMA RemoveStep ==
    ASSUME LruInv, NEW k \in Key, RemoveKey(k)
    PROVE  LruInv'
<1> DEFINE L == Len(list)
           R == Len(recent)
           b == map[k]
<1>1. Types /\ Linked /\ Ordered /\ Sized BY DEF LruInv
<1>2. /\ ~pooled /\ b # None /\ list' = RemoveFirst(list, b) /\ recent' = RemoveFirst(recent, k)
      /\ node' = [node EXCEPT ![b] = None] /\ map' = [map EXCEPT ![k] = None]
      /\ UNCHANGED <<pooled, maxSize, elasticity, pool, currentIndex, latest>>
  BY DEF RemoveKey, contains, fixed, buffers
<1>3. /\ L \in Nat /\ R \in Nat /\ L <= R /\ list \in Seq(Address) /\ recent \in Seq(Key)
      /\ Injective(list) /\ Injective(recent)
  BY <1>1, LruTypes DEF Ordered, Types, Injective
<1>4. PICK p \in 1 .. L : list[p] = b /\ recent[p] = k /\ p \in 1 .. R BY <1>1, <1>2, PlaceOf
<1>5. list' \in Seq(Address) /\ Len(list') = L - 1 /\ \A i \in 1 .. L - 1 : list'[i] = list[Closed(p, i)]
  <2>1. list' = RemoveFirst(list, list[p]) BY <1>2, <1>4
  <2> QED BY <1>3, <2>1, DropFacts
<1>6. recent' \in Seq(Key) /\ Len(recent') = R - 1 /\ \A i \in 1 .. R - 1 : recent'[i] = recent[Closed(p, i)]
  <2>1. recent' = RemoveFirst(recent, recent[p]) /\ p \in 1 .. R BY <1>2, <1>4
  <2> QED BY <1>3, <2>1, DropFacts
<1>7. /\ \A i \in 1 .. L - 1 : Closed(p, i) \in 1 .. L /\ Closed(p, i) # p
      /\ \A i, j \in 1 .. L - 1 : Closed(p, i) = Closed(p, j) => i = j
      /\ \A i \in 1 .. L : i # p => \E j \in 1 .. L - 1 : Closed(p, j) = i
  BY <1>3, Places
<1>8. /\ \A i \in 1 .. R - 1 : Closed(p, i) \in 1 .. R
      /\ \A i, j \in 1 .. R - 1 : Closed(p, i) = Closed(p, j) => i = j
  BY <1>3, <1>4, Places
<1>9. \A i \in 1 .. L - 1 : i \in 1 .. R - 1 BY <1>3
<1> HIDE DEF L, R
<1>10. \A i \in 1 .. L : list[i] \in Address /\ node[list[i]] # None /\ map[node[list[i]].key] = list[i]
  BY <1>1, LruTypes DEF Linked, L
<1>11. b \in Address BY <1>4, <1>10
<1>12. \A a \in Address : node'[a] = IF a = b THEN None ELSE node[a] BY <1>1, <1>2 DEF Types
<1>13. \A y \in Key : map'[y] = IF y = k THEN None ELSE map[y] BY <1>1, <1>2 DEF Types
<1>14. ASSUME NEW i \in 1 .. L - 1
       PROVE  /\ Closed(p, i) \in 1 .. L /\ list'[i] = list[Closed(p, i)] /\ list'[i] # b
              /\ list'[i] \in Address /\ node'[list'[i]] = node[list[Closed(p, i)]]
  <2>1. Closed(p, i) \in 1 .. L /\ Closed(p, i) # p /\ list'[i] = list[Closed(p, i)] BY <1>5, <1>7
  <2>2. list'[i] # b BY <1>3, <1>4, <2>1 DEF Injective, L
  <2> QED BY <1>10, <1>12, <2>1, <2>2
<1>15. Types'
  <2>1. node' \in [Address -> Node \cup {None}] /\ map' \in [Key -> Address \cup {None}] BY <1>1, <1>2 DEF Types
  <2> QED BY <1>1, <1>2, <1>5, <1>6, <2>1 DEF Types
<1>16. Linked'
  <2>1. ASSUME NEW i \in 1 .. L - 1 PROVE node'[list'[i]] # None /\ map'[node'[list'[i]].key] = list'[i]
    <3> DEFINE j == Closed(p, i)
    <3>1. j \in 1 .. L /\ list'[i] = list[j] /\ list[j] # b /\ node'[list'[i]] = node[list[j]] BY <1>14
    <3>2. node[list[j]].key # k /\ node[list[j]].key \in Key BY <1>1, <1>10, <3>1, LruTypes DEF L
    <3> QED BY <1>10, <1>13, <3>1, <3>2
  <2>2. ASSUME NEW x \in Address, x # b, \E i \in 1 .. L : list[i] = x PROVE \E i \in 1 .. L - 1 : list'[i] = x
    <3>1. PICK i \in 1 .. L : list[i] = x BY <2>2
    <3>2. i # p BY <1>4, <2>2, <3>1
    <3>3. PICK j \in 1 .. L - 1 : Closed(p, j) = i BY <1>7, <3>2
    <3> QED BY <1>5, <3>1, <3>3
  <2>3. ASSUME NEW y \in Key, map'[y] # None
        PROVE  node'[map'[y]].key = y /\ \E i \in 1 .. L - 1 : list'[i] = map'[y]
    <3>1. y # k /\ map'[y] = map[y] BY <1>13, <2>3
    <3>2. node[map[y]].key = y /\ \E i \in 1 .. L : list[i] = map[y] BY <1>1, <2>3, <3>1 DEF Linked, L
    <3>3. node[b].key = k BY <1>1, <1>2 DEF Linked
    <3>4. map[y] \in Address /\ map[y] # b BY <1>10, <3>1, <3>2, <3>3
    <3> QED BY <1>12, <2>2, <3>1, <3>2, <3>4
  <2>4. ASSUME NEW a \in Address, node'[a] # None PROVE \E i \in 1 .. L - 1 : list'[i] = a
    BY <1>1, <1>12, <2>2, <2>4 DEF Linked, L
  <2>5. ASSUME NEW i \in 1 .. L - 1, NEW j \in 1 .. L - 1, list'[i] = list'[j] PROVE i = j
    <3>1. /\ Closed(p, i) \in 1 .. L /\ Closed(p, j) \in 1 .. L
          /\ list[Closed(p, i)] = list[Closed(p, j)]
      BY <1>5, <1>7, <2>5
    <3>2. Closed(p, i) = Closed(p, j) BY <1>3, <3>1 DEF Injective, L
    <3> QED BY <1>7, <3>2
  <2> QED BY <1>5, <2>1, <2>3, <2>4, <2>5 DEF Linked
<1>17. Ordered'
  <2>1. ASSUME NEW i \in 1 .. R - 1, NEW j \in 1 .. R - 1, recent'[i] = recent'[j] PROVE i = j
    <3>1. Closed(p, i) = Closed(p, j) BY <1>3, <1>6, <1>8, <2>1 DEF Injective, R
    <3> QED BY <1>8, <3>1
  <2>2. ASSUME NEW i \in 1 .. L - 1
        PROVE  node'[list'[i]].key = recent'[i] /\ node'[list'[i]].value = latest'[recent'[i]]
    <3>1. recent'[i] = recent[Closed(p, i)] BY <1>6, <1>9
    <3> QED BY <1>1, <1>2, <1>14, <3>1 DEF Ordered, L
  <2>3. L - 1 <= R - 1 BY <1>3
  <2> QED BY <1>5, <1>6, <2>1, <2>2, <2>3 DEF Ordered
<1>18. Sized'
  <2>1. maxSize \in Nat /\ elasticity \in Nat BY <1>1 DEF Types
  <2>2. maxSize > 0 => L - 1 <= maxSize \/ L - 1 < maxSize + elasticity BY <1>1, <1>3, <2>1 DEF Sized, L
  <2> QED BY <1>1, <1>2, <1>5, <2>2 DEF Sized
<1> QED BY <1>15, <1>16, <1>17, <1>18 DEF LruInv

\* clear leaves nothing that could dangle.
LEMMA ClearStep == ASSUME LruInv, Clear PROVE LruInv'
<1>1. /\ ~pooled /\ map' = [k \in Key |-> None] /\ node' = [a \in Address |-> None] /\ list' = << >>
      /\ recent' = << >> /\ UNCHANGED <<pooled, maxSize, elasticity, pool, currentIndex, latest>>
  BY DEF Clear, fixed, buffers
<1>2. Len(list') = 0 /\ Len(recent') = 0 /\ << >> \in Seq(Address) /\ << >> \in Seq(Key) BY <1>1
<1>3. Types' BY <1>1, <1>2 DEF LruInv, Types
<1>4. Linked' /\ Ordered' BY <1>1, <1>2 DEF Linked, Ordered
<1>5. Sized'
  <2>1. maxSize' \in Nat BY <1>3 DEF Types
  <2> QED BY <1>1, <1>2, <2>1 DEF LruInv, Sized
<1> QED BY <1>3, <1>4, <1>5 DEF LruInv

\* A key that is not there was used, if ever, before the ones that are.
LEMMA UsedNew ==
    ASSUME Types, Linked, Ordered, NEW k \in Key, map[k] = None, Used(k)
    PROVE  /\ recent' \in Seq(Key) /\ Len(list) + 1 <= Len(recent') /\ Injective(recent)'
           /\ recent'[1] = k /\ \A i \in 2 .. Len(list) + 1 : recent'[i] = recent[i - 1]
<1> DEFINE L == Len(list)
           R == Len(recent)
<1>1. L \in Nat /\ R \in Nat /\ L <= R /\ recent \in Seq(Key) /\ Injective(recent)
  BY LruTypes DEF Ordered, Types, Injective
<1>2. ASSUME NEW i \in 1 .. L PROVE recent[i] # k
  <2>1. node[list[i]].key = recent[i] /\ map[node[list[i]].key] = list[i] BY DEF Ordered, Linked
  <2> QED BY <2>1, LruTypes
<1>3. recent' = Splice(recent, k) BY DEF Used
<1>4. CASE \E q \in 1 .. R : recent[q] = k
  <2>1. PICK q \in 1 .. R : recent[q] = k BY <1>4
  <2>2. q > L BY <1>1, <1>2, <2>1
  <2>3. recent' = Splice(recent, recent[q]) BY <1>3, <2>1
  <2>4. recent' \in Seq(Key) /\ Len(recent') = R /\ \A i \in 1 .. R : recent'[i] = recent[Moved(q, i)]
    BY <1>1, <2>3, SpliceFacts
  <2>5. /\ \A i \in 1 .. R : Moved(q, i) \in 1 .. R
        /\ \A i, j \in 1 .. R : Moved(q, i) = Moved(q, j) => i = j
    BY <1>1, Places
  <2> HIDE DEF L, R
  <2>6. Moved(q, 1) = q /\ 1 \in 1 .. R BY <1>1, <2>1 DEF Moved
  <2>7. ASSUME NEW i \in 2 .. L + 1 PROVE Moved(q, i) = i - 1 /\ i \in 1 .. R
    <3>1. i # 1 /\ i - 1 < q /\ i \in 1 .. R BY <1>1, <2>2
    <3> QED BY <3>1 DEF Moved
  <2>8. ASSUME NEW i \in 1 .. R, NEW j \in 1 .. R, recent'[i] = recent'[j] PROVE i = j
    <3>1. Moved(q, i) = Moved(q, j) BY <1>1, <2>4, <2>5, <2>8 DEF Injective, R
    <3> QED BY <2>5, <3>1
  <2>9. L + 1 <= R BY <1>1, <2>1, <2>2
  <2> QED BY <2>1, <2>4, <2>6, <2>7, <2>8, <2>9 DEF Injective, L
<1>5. CASE ~ \E q \in 1 .. R : recent[q] = k
  <2>1. recent' = Cons(k, recent) BY <1>1, <1>3, <1>5, SpliceNew
  <2>2. /\ recent' \in Seq(Key) /\ Len(recent') = R + 1 /\ recent'[1] = k
        /\ \A i \in 2 .. R + 1 : recent'[i] = recent[i - 1]
    <3>1. InFront(Cons(k, recent), k, recent, Key) BY <1>1, ConsInFront
    <3> QED BY <2>1, <3>1 DEF InFront, R
  <2> HIDE DEF L, R
  <2>3. L + 1 <= R + 1 /\ \A i \in 2 .. L + 1 : i \in 2 .. R + 1 BY <1>1
  <2>4. ASSUME NEW i \in 1 .. R + 1, NEW j \in 1 .. R + 1, recent'[i] = recent'[j] PROVE i = j
    <3>1. \A m \in 1 .. R + 1 : m = 1 \/ (m \in 2 .. R + 1 /\ m - 1 \in 1 .. R) BY <1>1
    <3>2. CASE i = 1 /\ j = 1 BY <3>2
    <3>3. CASE i = 1 /\ j # 1 BY <1>5, <2>2, <2>4, <3>1, <3>3
    <3>4. CASE i # 1 /\ j = 1 BY <1>5, <2>2, <2>4, <3>1, <3>4
    <3>5. CASE i # 1 /\ j # 1
      <4>1. recent[i - 1] = recent[j - 1] /\ i - 1 \in 1 .. R /\ j - 1 \in 1 .. R BY <2>2, <2>4, <3>1, <3>5
      <4>2. i - 1 = j - 1 BY <1>1, <4>1 DEF Injective, R
      <4> QED BY <4>2
    <3> QED BY <3>2, <3>3, <3>4, <3>5
  <2> QED BY <2>2, <2>3, <2>4 DEF Injective, L
<1> QED BY <1>4, <1>5

\* What an insertion of a new key does to the list, the map and the nodes: n - 1 of the
\* nodes that were there stay.
Inserted(k, v, n) ==
    /\ list' \in Seq(Address) /\ Len(list') = n /\ list'[1] = FreeNode
    /\ \A i \in 2 .. n : list'[i] = list[i - 1] /\ i - 1 \in 1 .. Len(list)
    /\ node' = [a \in Address |-> IF \E i \in n .. Len(list) : list[i] = a THEN None
                                  ELSE IF a = FreeNode THEN [key |-> k, value |-> v] ELSE node[a]]
    /\ map' = [y \in Key |-> IF y = k THEN FreeNode
                             ELSE IF \E i \in n .. Len(list) : list[i] = map[y] THEN None ELSE map[y]]

\* What insert does to list, map and nodes, with the prune it ends in.
LEMMA InsertFacts ==
    ASSUME Types, Linked, NEW k \in Key, NEW v, map[k] = None, Insert(k, v)
    PROVE  \E n \in 1 .. Len(list) + 1 : n = Kept(Cons(FreeNode, list)) /\ Inserted(k, v, n)
<1> DEFINE L == Len(list)
           a == FreeNode
           l == Cons(a, list)
           n == Kept(l)
<1>2. L \in Nat /\ list \in Seq(Address) /\ a \in Address /\ maxSize \in Nat /\ elasticity \in Nat
  BY LruTypes, FreeNodeIsFree DEF Types
<1>3. l \in Seq(Address) /\ Len(l) = L + 1 /\ l[1] = a /\ \A i \in 2 .. L + 1 : l[i] = list[i - 1]
  <2> HIDE DEF a, L
  <2>1. /\ Cons(a, list) \in Seq(Address) /\ Len(Cons(a, list)) = Len(list) + 1 /\ Cons(a, list)[1] = a
        /\ \A i \in 2 .. Len(list) + 1 : Cons(a, list)[i] = list[i - 1]
    <3>1. InFront(Cons(a, list), a, list, Address) BY <1>2, ConsInFront
    <3> QED BY <3>1 DEF InFront
  <2> QED BY <2>1 DEF L
<1>4. n \in 1 .. L + 1
  <2>1. n = IF maxSize = 0 \/ L + 1 < maxSize + elasticity THEN L + 1 ELSE maxSize BY <1>3 DEF Kept
  <2> HIDE DEF n
  <2> QED BY <1>2, <2>1
<1>5. /\ list' = SubSeq(l, 1, n)
      /\ node' = [x \in Address |-> IF x \in Victims(l) THEN None
                                    ELSE IF x = a THEN [key |-> k, value |-> v] ELSE node[x]]
      /\ map' = [y \in Key |-> IF y = k THEN a ELSE IF map[y] \in Victims(l) THEN None ELSE map[y]]
  BY DEF Insert
<1>6. \A x : x \in Victims(l) <=> \E i \in n .. L : list[i] = x
  <2> TAKE x
  <2>1. x \in Victims(l) <=> \E i \in n + 1 .. L + 1 : l[i] = x BY <1>3 DEF Victims
  <2> HIDE DEF l, n
  <2>2. ASSUME NEW i \in n + 1 .. L + 1 PROVE i - 1 \in n .. L /\ l[i] = list[i - 1]
    BY <1>2, <1>3, <1>4
  <2>3. ASSUME NEW i \in n .. L PROVE i + 1 \in n + 1 .. L + 1 /\ l[i + 1] = list[i]
    <3>1. i + 1 \in n + 1 .. L + 1 /\ i + 1 \in 2 .. L + 1 /\ (i + 1) - 1 = i BY <1>2, <1>4
    <3> QED BY <1>3, <3>1
  <2> QED BY <2>1, <2>2, <2>3
<1> HIDE DEF l, n
<1>7. /\ list' \in Seq(Address) /\ Len(list') = n /\ \A i \in 1 .. n : list'[i] = l[i]
  BY <1>2, <1>3, <1>4, <1>5
<1>8. list'[1] = a BY <1>3, <1>4, <1>7
<1>9. ASSUME NEW i \in 2 .. n PROVE list'[i] = list[i - 1] /\ i - 1 \in 1 .. L
  <2>1. i \in 1 .. n /\ i \in 2 .. L + 1 /\ i - 1 \in 1 .. L BY <1>2, <1>4
  <2> QED BY <1>3, <1>7, <2>1
<1>10. node' = [x \in Address |-> IF \E i \in n .. L : list[i] = x THEN None
                                  ELSE IF x = a THEN [key |-> k, value |-> v] ELSE node[x]]
  BY <1>5, <1>6
<1>11. map' = [y \in Key |-> IF y = k THEN a ELSE IF \E i \in n .. L : list[i] = map[y] THEN None ELSE map[y]]
  BY <1>5, <1>6
<1>12. Inserted(k, v, n) BY <1>7, <1>8, <1>9, <1>10, <1>11 DEF Inserted
<1> QED BY <1>4, <1>12 DEF l, n

\* A new key comes first; the nodes that prune drops are free again.
LEMMA NewStep ==
    ASSUME LruInv, NEW k \in Key, NEW v \in Value \cup Buffer, map[k] = None, Insert(k, v), Used(k),
           latest' = [latest EXCEPT ![k] = v], DOMAIN pool' = Buffer, currentIndex' \in Nat, UNCHANGED fixed
    PROVE  Types' /\ Linked' /\ Ordered'
<1> DEFINE L == Len(list)
           a == FreeNode
           new == [key |-> k, value |-> v]
<1>1. Types /\ Linked /\ Ordered /\ Sized BY DEF LruInv
<1>2. PICK n \in 1 .. L + 1 : Inserted(k, v, n) BY <1>1, InsertFacts
<1>3. /\ list' \in Seq(Address) /\ Len(list') = n /\ list'[1] = a
      /\ \A i \in 2 .. n : list'[i] = list[i - 1] /\ i - 1 \in 1 .. L
      /\ node' = [x \in Address |-> IF \E i \in n .. L : list[i] = x THEN None
                                    ELSE IF x = a THEN new ELSE node[x]]
      /\ map' = [y \in Key |-> IF y = k THEN a
                               ELSE IF \E i \in n .. L : list[i] = map[y] THEN None ELSE map[y]]
  BY <1>2 DEF Inserted
<1>4. new \in Node /\ new.key = k /\ new.value = v BY DEF Node
<1> HIDE DEF L, new, a
<1>5. L \in Nat /\ a \in Address /\ node[a] = None /\ None \notin Address /\ None \notin Node
  BY <1>1, LruTypes, FreeNodeIsFree DEF L, a
<1>6. \A i \in 1 .. L : /\ list[i] \in Address /\ list[i] # a /\ node[list[i]] \in Node
                        /\ node[list[i]].key \in Key /\ map[node[list[i]].key] = list[i]
  BY <1>1, <1>5, LruTypes DEF Linked, L
<1>7. \A i, j \in 1 .. L : list[i] = list[j] => i = j BY <1>1 DEF Linked, L
<1>8. \A i \in n .. L : i \in 1 .. L BY <1>5
<1>9. node'[a] = new BY <1>3, <1>5, <1>6, <1>8
<1>10. ASSUME NEW i \in 2 .. n
      PROVE  /\ i - 1 \in 1 .. L /\ list'[i] = list[i - 1] /\ node'[list'[i]] = node[list[i - 1]]
             /\ ~ \E j \in n .. L : list[j] = list[i - 1]
  <2>1. i - 1 \in 1 .. L /\ list'[i] = list[i - 1] BY <1>3
  <2>2. i - 1 \notin n .. L BY <1>5
  <2>3. ~ \E j \in n .. L : list[j] = list[i - 1] BY <1>7, <1>8, <2>1, <2>2
  <2> QED BY <1>3, <1>6, <2>1, <2>3
<1>11. \A i \in 1 .. n : i = 1 \/ i \in 2 .. n BY <1>5
<1>12. recent' \in Seq(Key) /\ L + 1 <= Len(recent') /\ Injective(recent)' /\ Len(recent') \in Nat
       /\ recent'[1] = k /\ \A i \in 2 .. L + 1 : recent'[i] = recent[i - 1]
  BY <1>1, UsedNew DEF L
<1>13. node' \in [Address -> Node \cup {None}] /\ map' \in [Key -> Address \cup {None}]
  <2>1. \A x \in Address : node'[x] \in Node \cup {None} BY <1>1, <1>3, <1>4 DEF Types
  <2>2. \A y \in Key : map'[y] \in Address \cup {None} BY <1>1, <1>3, <1>5 DEF Types
  <2> QED BY <1>1, <1>3, <2>1, <2>2 DEF Types
<1>14. UNCHANGED <<pooled, maxSize, elasticity>> BY DEF fixed
<1>15. Types' BY <1>1, <1>3, <1>12, <1>13, <1>14 DEF Types
<1>16. Linked'
  <2>1. ASSUME NEW i \in 1 .. n PROVE node'[list'[i]] # None /\ map'[node'[list'[i]].key] = list'[i]
    <3>1. CASE i = 1
      <4>1. list'[i] = a /\ node'[list'[i]] = new BY <1>3, <1>9, <3>1
      <4>2. map'[k] = a BY <1>3
      <4> QED BY <1>4, <1>5, <4>1, <4>2
    <3>2. CASE i \in 2 .. n
      <4> DEFINE j == i - 1
      <4>1. j \in 1 .. L /\ list'[i] = list[j] /\ node'[list'[i]] = node[list[j]]
            /\ ~ \E m \in n .. L : list[m] = list[j]
        BY <1>10, <3>2
      <4> DEFINE y == node[list[j]].key
      <4>2. y \in Key /\ map[y] = list[j] /\ y # k BY <1>5, <1>6, <4>1
      <4>3. map'[y] = list[j] BY <1>3, <4>1, <4>2
      <4> QED BY <1>5, <1>6, <4>1, <4>3
    <3> QED BY <1>11, <3>1, <3>2
  <2>2. ASSUME NEW x \in Address, \E i \in 1 .. L : list[i] = x, ~ \E i \in n .. L : list[i] = x
        PROVE  \E i \in 1 .. n : list'[i] = x
    <3>1. PICK i \in 1 .. L : list[i] = x BY <2>2
    <3>2. i \notin n .. L BY <2>2, <3>1
    <3>3. i + 1 \in 2 .. n /\ i + 1 \in 1 .. n /\ (i + 1) - 1 = i BY <1>5, <3>2
    <3> QED BY <1>3, <3>1, <3>3
  <2>3. 1 \in 1 .. n OBVIOUS
  <2>4. ASSUME NEW y \in Key, map'[y] # None
        PROVE  node'[map'[y]].key = y /\ \E i \in 1 .. n : list'[i] = map'[y]
    <3>1. CASE y = k BY <1>3, <1>4, <1>9, <2>3, <3>1
    <3>2. CASE y # k
      <4>1. map'[y] = map[y] /\ ~ \E i \in n .. L : list[i] = map[y] BY <1>3, <2>4, <3>2
      <4>2. node[map[y]].key = y /\ \E i \in 1 .. L : list[i] = map[y] BY <1>1, <2>4, <4>1 DEF Linked, L
      <4>3. map[y] \in Address /\ map[y] # a BY <1>6, <4>2
      <4>4. node'[map[y]] = node[map[y]] BY <1>3, <4>1, <4>3
      <4> QED BY <2>2, <4>1, <4>2, <4>3, <4>4
    <3> QED BY <3>1, <3>2
  <2>5. ASSUME NEW x \in Address, node'[x] # None PROVE \E i \in 1 .. n : list'[i] = x
    <3>1. ~ \E i \in n .. L : list[i] = x BY <1>3, <2>5
    <3>2. CASE x = a BY <1>3, <2>3, <3>2
    <3>3. CASE x # a
      <4>1. node[x] # None BY <1>3, <2>5, <3>1, <3>3
      <4>2. \E i \in 1 .. L : list[i] = x BY <1>1, <4>1 DEF Linked, L
      <4> QED BY <2>2, <3>1, <4>2
    <3> QED BY <3>2, <3>3
  <2>6. ASSUME NEW i \in 1 .. n, NEW j \in 1 .. n, list'[i] = list'[j] PROVE i = j
    <3>1. CASE i = 1 /\ j = 1 BY <3>1
    <3>2. CASE i = 1 /\ j \in 2 .. n BY <1>3, <1>6, <2>6, <3>2
    <3>3. CASE i \in 2 .. n /\ j = 1 BY <1>3, <1>6, <2>6, <3>3
    <3>4. CASE i \in 2 .. n /\ j \in 2 .. n
      <4>1. i - 1 \in 1 .. L /\ j - 1 \in 1 .. L /\ list[i - 1] = list[j - 1] BY <1>3, <2>6, <3>4
      <4>2. i - 1 = j - 1 BY <1>7, <4>1
      <4> QED BY <4>2
    <3> QED BY <1>11, <3>1, <3>2, <3>3, <3>4
  <2> QED BY <1>3, <2>1, <2>4, <2>5, <2>6 DEF Linked
<1>17. Ordered'
  <2>1. n <= Len(recent') BY <1>5, <1>12
  <2>2. \A i, j \in 1 .. Len(recent') : recent'[i] = recent'[j] => i = j BY <1>12 DEF Injective
  <2>3. \A y \in Key : latest'[y] = IF y = k THEN v ELSE latest[y] BY <1>1 DEF Types
  <2>4. ASSUME NEW i \in 1 .. n
        PROVE  node'[list'[i]].key = recent'[i] /\ node'[list'[i]].value = latest'[recent'[i]]
    <3>1. CASE i = 1 BY <1>3, <1>4, <1>9, <1>12, <2>3, <3>1
    <3>2. CASE i \in 2 .. n
      <4> DEFINE j == i - 1
      <4>1. j \in 1 .. L /\ list'[i] = list[j] /\ node'[list'[i]] = node[list[j]] BY <1>10, <3>2
      <4>2. i \in 2 .. L + 1 BY <1>5, <3>2
      <4>3. recent'[i] = recent[j] BY <1>12, <4>2
      <4>4. node[list[j]].key = recent[j] /\ node[list[j]].value = latest[recent[j]]
        BY <1>1, <4>1 DEF Ordered, L
      <4>5. recent[j] # k /\ recent[j] \in Key BY <1>5, <1>6, <4>1, <4>4
      <4> QED BY <2>3, <4>1, <4>3, <4>4, <4>5
    <3> QED BY <1>11, <3>1, <3>2
  <2> QED BY <1>3, <2>1, <2>2, <2>4 DEF Ordered
<1> QED BY <1>15, <1>16, <1>17

\* The list has one node for each key of the map.
LEMMA SizeIs ==
    ASSUME Types, Linked
    PROVE  /\ Cardinality(Cached) = Len(list) /\ Cardinality(Range(list)) = Len(list)
           /\ Range(list) = {list[i] : i \in 1 .. Len(list)}
<1> DEFINE L == Len(list)
           f == [i \in 1 .. L |-> list[i]]
           g == [i \in 1 .. L |-> node[list[i]].key]
<1>1. L \in Nat /\ DOMAIN list = 1 .. L /\ list \in Seq(Address) BY LruTypes DEF Types
<1>2. Range(list) = {list[i] : i \in 1 .. L} BY <1>1 DEF Range
<1>3. \A i \in 1 .. L : /\ node[list[i]].key \in Key /\ map[node[list[i]].key] = list[i]
                        /\ list[i] # None
  BY LruTypes DEF Linked
<1>4. \A i, j \in 1 .. L : list[i] = list[j] => i = j BY DEF Linked
<1>5. f \in Bijection(1 .. L, Range(list))
  BY <1>2, <1>4 DEF Bijection, Injection, Surjection, IsInjective
<1>6. g \in Bijection(1 .. L, Cached)
  <2>1. \A i \in 1 .. L : node[list[i]].key \in Cached BY <1>3 DEF Cached
  <2>2. \A i, j \in 1 .. L : node[list[i]].key = node[list[j]].key => i = j BY <1>3, <1>4
  <2>3. ASSUME NEW k \in Cached PROVE \E i \in 1 .. L : node[list[i]].key = k
    <3>1. k \in Key /\ map[k] # None BY DEF Cached
    <3>2. PICK i \in 1 .. L : list[i] = map[k] BY <3>1 DEF Linked
    <3> QED BY <3>1, <3>2 DEF Linked
  <2>4. g \in [1 .. L -> Cached] BY <2>1
  <2> QED BY <2>2, <2>3, <2>4 DEF Bijection, Injection, Surjection, IsInjective
<1> HIDE DEF f, g
<1>7. Cardinality(Range(list)) = L BY <1>1, <1>5, FS_CountingElements DEF ExistsBijection
<1>8. Cardinality(Cached) = L BY <1>1, <1>6, FS_CountingElements DEF ExistsBijection
<1> QED BY <1>2, <1>7, <1>8

\* A new value for a key that is there, and no other key.
LEMMA UpdateStep ==
    ASSUME LruInv, NEW k \in Key, NEW v \in Value, map[k] # None, InsertDirect(k, v)
    PROVE  LruInv'
<1>1. Types /\ Linked /\ Ordered BY DEF LruInv
<1>2. /\ ~pooled /\ node' = [node EXCEPT ![map[k]].value = v] /\ list' = Splice(list, map[k]) /\ map' = map
      /\ Used(k) /\ latest' = [latest EXCEPT ![k] = v] /\ UNCHANGED <<fixed, buffers>>
  BY DEF InsertDirect, Insert
<1>3. map[k] \in Address /\ node[map[k]] \in Node
  <2>1. PICK p \in 1 .. Len(list) : list[p] = map[k] BY <1>1, PlaceOf
  <2> QED BY <1>1, <2>1, LruTypes
<1> DEFINE new == [node[map[k]] EXCEPT !.value = v]
<1>4. new \in Node /\ new.key = node[map[k]].key /\ new.value = v /\ new # None
  <2>1. new \in Node /\ new.key = node[map[k]].key /\ new.value = v BY <1>3 DEF Node
  <2> QED BY <2>1, FreeAssumption
<1> HIDE DEF new
<1>5. node' = [node EXCEPT ![map[k]] = new] BY <1>2 DEF new
<1>6. node' \in [Address -> Node \cup {None}] BY <1>1, <1>4, <1>5 DEF Types
<1>7. \A a \in Address : node'[a] = IF a = map[k] THEN new ELSE node[a] BY <1>1, <1>5 DEF Types
<1>8. node[map[k]] # None BY <1>3, FreeAssumption
<1>9. \A a \in Address : /\ node'[a] = None <=> node[a] = None
                         /\ node[a] # None => node'[a].key = node[a].key
  BY <1>4, <1>7, <1>8
<1>10. ASSUME NEW i \in 1 .. Len(list) PROVE node'[list[i]].value = latest'[recent[i]]
  <2>1. /\ list[i] \in Address /\ node[list[i]].key = recent[i] /\ map[recent[i]] = list[i]
        /\ node[list[i]].value = latest[recent[i]] /\ recent[i] \in Key
    BY <1>1, LruTypes DEF Linked, Ordered
  <2>2. latest'[recent[i]] = IF recent[i] = k THEN v ELSE latest[recent[i]] BY <1>1, <1>2, <2>1 DEF Types
  <2>3. CASE recent[i] = k BY <1>4, <1>7, <2>1, <2>2, <2>3
  <2>4. CASE recent[i] # k
    <3>1. list[i] # map[k] BY <1>1, <2>1, <2>4 DEF Linked
    <3> QED BY <1>7, <2>1, <2>2, <2>4, <3>1
  <2> QED BY <2>3, <2>4
<1>11. DOMAIN latest' = Key BY <1>1, <1>2 DEF Types
<1> QED BY <1>2, <1>6, <1>9, <1>10, <1>11, HitStep

\* A key that is there is used.
LEMMA GetStep ==
    ASSUME LruInv, NEW k \in Key, GetDirect(k) \/ ReadFromCache(k)
    PROVE  LruInv'
<1>1. Types /\ Linked /\ Ordered BY DEF LruInv
<1>2. /\ map[k] # None /\ list' = Splice(list, map[k]) /\ map' = map /\ node' = node /\ Used(k)
      /\ latest' = latest /\ UNCHANGED <<fixed, buffers>>
  BY DEF GetDirect, ReadFromCache, Get, contains
<1>3. node' \in [Address -> Node \cup {None}] /\ DOMAIN latest' = Key BY <1>1, <1>2 DEF Types
<1>4. \A i \in 1 .. Len(list) : node'[list[i]].value = latest'[recent[i]] BY <1>1, <1>2 DEF Ordered
<1> QED BY <1>2, <1>3, <1>4, HitStep

\* The length of the list after an insertion.
LEMMA KeptIs ==
    ASSUME Types, Linked
    PROVE  LET n == Kept(Cons(FreeNode, list)) IN
           /\ n = IF maxSize = 0 \/ Len(list) + 1 < maxSize + elasticity THEN Len(list) + 1 ELSE maxSize
           /\ maxSize > 0 => n <= maxSize \/ n < maxSize + elasticity
<1>1. maxSize \in Nat /\ elasticity \in Nat /\ Len(list) \in Nat /\ list \in Seq(Address) /\ FreeNode \in Address
  BY LruTypes, FreeNodeIsFree DEF Types
<1>2. \A x \in Address, s \in Seq(Address) : Len(Cons(x, s)) = Len(s) + 1 BY ConsFacts
<1>3. Len(Cons(FreeNode, list)) = Len(list) + 1 BY <1>1, <1>2, Zenon
<1> DEFINE n == Kept(Cons(FreeNode, list))
<1>4. n = IF maxSize = 0 \/ Len(list) + 1 < maxSize + elasticity THEN Len(list) + 1 ELSE maxSize
  BY <1>3 DEF Kept
<1> HIDE DEF n
<1>5. maxSize > 0 => n <= maxSize \/ n < maxSize + elasticity BY <1>1, <1>4
<1> QED BY <1>4, <1>5 DEF n

\* insert of a cache used directly.
LEMMA InsertDirectStep ==
    ASSUME LruInv, NEW k \in Key, NEW v \in Value, map[k] = None, InsertDirect(k, v)
    PROVE  LruInv'
<1>1. Types /\ Linked /\ Ordered /\ Sized BY DEF LruInv
<1>2. /\ ~pooled /\ Insert(k, v) /\ Used(k) /\ latest' = [latest EXCEPT ![k] = v]
      /\ UNCHANGED <<fixed, pool, currentIndex>>
  BY DEF InsertDirect, buffers
<1>3. DOMAIN pool' = Buffer /\ currentIndex' \in Nat BY <1>1, <1>2 DEF Types
<1>4. Types' /\ Linked' /\ Ordered' BY <1>2, <1>3, NewStep
<1>5. PICK n \in 1 .. Len(list) + 1 : n = Kept(Cons(FreeNode, list)) /\ Inserted(k, v, n)
  BY <1>1, <1>2, InsertFacts
<1>6. Len(list') = n BY <1>5 DEF Inserted
<1>7. Sized' BY <1>1, <1>2, <1>5, <1>6, KeptIs DEF Sized, fixed
<1> QED BY <1>4, <1>7 DEF LruInv

\* The buffer InsertToCache takes, and what it leaves of the list.
Taken == IF Len(list) < CacheSize THEN Len(list) ELSE node[list[Len(list)]].value
Left == IF Len(list) < CacheSize THEN Len(list) + 1 ELSE CacheSize

\* Which buffer InsertToCache takes, and how many entries are left with it.
LEMMA TakeBuffer ==
    ASSUME LruInv, pooled
    PROVE  /\ Taken \in Buffer /\ Len(list) \in Nat /\ Len(list) <= CacheSize
           /\ (size + 1 > CacheSize) <=> ~ (Len(list) < CacheSize)
           /\ Taken = IF size + 1 > CacheSize THEN pruneValue ELSE currentIndex
           /\ Left = Kept(Cons(FreeNode, list)) /\ Left \in Nat
           /\ Left = IF size + 1 > CacheSize THEN currentIndex ELSE currentIndex + 1
<1> DEFINE L == Len(list)
<1>1. Types /\ Linked /\ Ordered /\ Sized BY DEF LruInv
<1>2. L \in Nat /\ CacheSize \in Nat /\ CacheSize # 0 BY <1>1, LruTypes
<1>3. maxSize = CacheSize /\ elasticity = 0 /\ currentIndex = L BY <1>1 DEF Types, Sized
<1>4. L <= CacheSize BY <1>1, <1>2, <1>3 DEF Sized
<1>5. size = L BY <1>1, SizeIs DEF size
<1>6. (size + 1 > CacheSize) <=> ~ (L < CacheSize) BY <1>2, <1>5
<1>7. ASSUME ~ (L < CacheSize)
      PROVE  L = CacheSize /\ L \in 1 .. L /\ pruneValue = node[list[L]].value /\ pruneValue \in Buffer
  <2>1. L = CacheSize /\ L \in 1 .. L BY <1>2, <1>4, <1>7
  <2>2. map[node[list[L]].key] = list[L] BY <1>1, <2>1 DEF Linked
  <2>3. pruneValue = node[list[L]].value BY <2>2 DEF pruneValue, ValueOf, Last
  <2>4. node[list[L]].value \in Buffer BY <1>1, <2>1 DEF Sized
  <2> QED BY <2>1, <2>3, <2>4
<1>8. Taken \in Buffer /\ Taken = IF size + 1 > CacheSize THEN pruneValue ELSE currentIndex
  <2>1. CASE L < CacheSize
    <3>1. L \in Buffer BY <1>2, <2>1 DEF Buffer
    <3> QED BY <1>3, <1>6, <2>1, <3>1 DEF Taken
  <2>2. CASE ~ (L < CacheSize) BY <1>6, <1>7, <2>2 DEF Taken
  <2> QED BY <2>1, <2>2
<1>9. Left = Kept(Cons(FreeNode, list))
  <2> DEFINE n == Kept(Cons(FreeNode, list))
  <2>1. n = IF maxSize = 0 \/ L + 1 < maxSize + elasticity THEN L + 1 ELSE maxSize BY <1>1, KeptIs
  <2> HIDE DEF n
  <2>2. n = IF L + 1 < CacheSize + 0 THEN L + 1 ELSE CacheSize BY <1>2, <1>3, <2>1
  <2>3. n = IF L < CacheSize THEN L + 1 ELSE CacheSize BY <1>2, <1>4, <2>2
  <2> QED BY <2>3 DEF Left, n
<1>10. Left \in Nat /\ Left = IF size + 1 > CacheSize THEN currentIndex ELSE currentIndex + 1
  BY <1>2, <1>3, <1>6, <1>7 DEF Left
<1> QED BY <1>2, <1>4, <1>6, <1>8, <1>9, <1>10

\* What InsertToCache does, in terms of the list.
LEMMA PooledFacts ==
    ASSUME LruInv, NEW k \in Key, NEW length, InsertToCache(k, length)
    PROVE  /\ pooled /\ map[k] = None /\ pool' = [pool EXCEPT ![Taken] = Abstract!Copied(@, k, length)]
           /\ whole' = [whole EXCEPT ![Taken] = (length = "all")]
           /\ Insert(k, Taken) /\ currentIndex' = Left /\ Used(k) /\ latest' = [latest EXCEPT ![k] = Taken]
           /\ Inserted(k, Taken, Left) /\ UNCHANGED fixed
<1> DEFINE index == IF size + 1 > CacheSize THEN pruneValue ELSE currentIndex
<1>1. /\ pooled /\ map[k] = None /\ pool' = [pool EXCEPT ![index] = Abstract!Copied(@, k, length)]
      /\ whole' = [whole EXCEPT ![index] = (length = "all")] /\ Insert(k, index)
      /\ currentIndex' = (IF size + 1 > CacheSize THEN currentIndex ELSE currentIndex + 1)
      /\ Used(k) /\ latest' = [latest EXCEPT ![k] = index] /\ UNCHANGED fixed
  BY DEF InsertToCache, contains
<1>2. index = Taken /\ currentIndex' = Left /\ Left = Kept(Cons(FreeNode, list)) BY <1>1, TakeBuffer
<1> HIDE DEF index
<1>3. Insert(k, Taken) BY <1>1, <1>2
<1>4. Inserted(k, Taken, Left) BY <1>1, <1>2, <1>3, InsertFacts DEF LruInv
<1> QED BY <1>1, <1>2, <1>3, <1>4

\* InsertToCache.
LEMMA InsertPooledStep ==
    ASSUME LruInv, NEW k \in Key, NEW length, InsertToCache(k, length)
    PROVE  LruInv'
<1>1. Types /\ Linked /\ Ordered /\ Sized BY DEF LruInv
<1>2. /\ pooled /\ map[k] = None /\ pool' = [pool EXCEPT ![Taken] = Abstract!Copied(@, k, length)]
      /\ Insert(k, Taken) /\ currentIndex' = Left /\ Used(k) /\ latest' = [latest EXCEPT ![k] = Taken]
      /\ Inserted(k, Taken, Left) /\ UNCHANGED fixed
  BY PooledFacts
<1>3. Taken \in Buffer /\ Left \in Nat /\ Left = Kept(Cons(FreeNode, list)) BY <1>2, TakeBuffer
<1>4. DOMAIN pool' = Buffer /\ currentIndex' \in Nat BY <1>1, <1>2, <1>3 DEF Types
<1>5. Types' /\ Linked' /\ Ordered' BY <1>2, <1>3, <1>4, NewStep
<1>6. Len(list') = Left BY <1>2 DEF Inserted
<1>7. ASSUME NEW i \in 1 .. Left PROVE node'[list'[i]].value \in Buffer
  <2> DEFINE new == [key |-> k, value |-> Taken]
  <2>1. FreeNode \in Address /\ list'[i] \in Address BY <1>1, <1>2, <1>6, FreeNodeIsFree DEF Inserted
  <2>2. node'[list'[i]] # None BY <1>5, <1>6 DEF Linked
  <2>3. node'[list'[i]] = IF list'[i] = FreeNode THEN new ELSE node[list'[i]]
    BY <1>2, <2>1, <2>2 DEF Inserted
  <2>4. CASE list'[i] = FreeNode BY <1>3, <2>3, <2>4
  <2>5. CASE list'[i] # FreeNode
    <3>1. PICK j \in 1 .. Len(list) : list[j] = list'[i] BY <1>1, <2>1, <2>2, <2>3, <2>5 DEF Linked
    <3> QED BY <1>1, <1>2, <2>3, <2>5, <3>1 DEF Sized
  <2> QED BY <2>4, <2>5
<1>8. Sized'
  <2>1. maxSize > 0 => Left <= maxSize \/ Left < maxSize + elasticity BY <1>1, <1>3, KeptIs
  <2> QED BY <1>2, <1>6, <1>7, <2>1 DEF Sized, fixed
<1> QED BY <1>5, <1>8 DEF LruInv

-----------------------------------------------------------------------------
(* The theorems                                                            *)

\* The constructors leave an empty cache.
LEMMA LruInitially == Init => LruInv
<1> SUFFICES ASSUME Init PROVE LruInv OBVIOUS
<1>1. /\ pooled \in BOOLEAN
      /\ maxSize \in IF pooled THEN {CacheSize} ELSE MaxSizes
      /\ elasticity \in IF pooled THEN {0} ELSE Elasticities
      /\ map = [k \in Key |-> None] /\ node = [a \in Address |-> None] /\ list = << >>
      /\ pool = [i \in Buffer |-> None] /\ currentIndex = 0
      /\ recent = << >> /\ latest = [k \in Key |-> None]
  BY DEF Init
<1>2. maxSize \in Nat /\ elasticity \in Nat /\ (pooled => maxSize = CacheSize /\ elasticity = 0)
  BY <1>1, LruAssumption
<1>3. Len(list) = 0 /\ Len(recent) = 0 /\ << >> \in Seq(Address) /\ << >> \in Seq(Key) BY <1>1
<1>4. Types BY <1>1, <1>2, <1>3 DEF Types
<1>5. Linked /\ Ordered BY <1>1, <1>3 DEF Linked, Ordered
<1>6. Sized BY <1>1, <1>2, <1>3 DEF Sized
<1> QED BY <1>4, <1>5, <1>6 DEF LruInv

\* Every operation keeps the invariant.
LEMMA LruStep == LruInv /\ [Next]_vars => LruInv'
<1> SUFFICES ASSUME LruInv, [Next]_vars PROVE LruInv' OBVIOUS
<1>1. ASSUME NEW k \in Key, NEW v \in Value, InsertDirect(k, v) PROVE LruInv'
  BY <1>1, UpdateStep, InsertDirectStep
<1>2. ASSUME NEW k \in Key, GetDirect(k) \/ RemoveKey(k) PROVE LruInv' BY <1>2, GetStep, RemoveStep
<1>3. ASSUME Clear PROVE LruInv' BY <1>3, ClearStep
<1>4. ASSUME NEW k \in Key, NEW length \in Abstract!Length, InsertToCache(k, length) PROVE LruInv'
  BY <1>4, InsertPooledStep
<1>5. ASSUME NEW k \in Key, ReadFromCache(k) PROVE LruInv' BY <1>5, GetStep
<1>6. ASSUME UNCHANGED vars PROVE LruInv'
  BY <1>6 DEF vars, LruInv, Types, Linked, Ordered, Sized
<1> QED BY <1>1, <1>2, <1>3, <1>4, <1>5, <1>6 DEF Next

\* Map, list, nodes and buffers of lru11::Cache and ReadCache stay in step.
THEOREM LruInvariant == Spec => []LruInv
  BY LruInitially, LruStep, PTL DEF Spec

\* lru11::Cache keeps map, list and nodes in step: insert, get, remove, clear and prune
\* leave no entry of the map without its node and no node that the map does not find.
THEOREM NothingDangles == Spec => []NoDanglingNode
<1>1. LruInv => NoDanglingNode
  <2> SUFFICES ASSUME LruInv PROVE NoDanglingNode OBVIOUS
  <2>1. Types /\ Linked /\ Sized BY DEF LruInv
  <2>2. /\ Cardinality(Cached) = Len(list) /\ Cardinality(Range(list)) = Len(list)
        /\ Range(list) = {list[i] : i \in 1 .. Len(list)}
    BY <2>1, SizeIs
  <2>3. \A i \in 1 .. Len(list) : list[i] \in Address /\ node[list[i]] # None BY <2>1, LruTypes DEF Linked
  <2>4. Range(list) \subseteq Address BY <2>2, <2>3
  <2>5. {a \in Address : node[a] # None} = Range(list) BY <2>1, <2>2, <2>3 DEF Linked
  <2>6. ASSUME NEW k \in Key, map[k] # None
        PROVE  map[k] \in Range(list) /\ node[map[k]] # None /\ node[map[k]].key = k
    BY <2>1, <2>2, <2>3, <2>6 DEF Linked
  <2>7. currentIndex \in 0 .. CacheSize
    <3>1. CASE pooled
      <4>1. currentIndex = Len(list) /\ Len(list) \in Nat /\ Len(list) <= CacheSize
        BY <2>1, <3>1, TakeBuffer DEF Sized
      <4> QED BY <2>1, <4>1, LruTypes
    <3>2. CASE ~pooled BY <2>1, <3>2, LruTypes DEF Sized
    <3> QED BY <3>1, <3>2
  <2>8. TypeOK BY <2>1, <2>4, <2>7 DEF TypeOK, Types
  <2> QED BY <2>2, <2>5, <2>6, <2>8 DEF NoDanglingNode
<1> QED BY <1>1, LruInvariant, PTL

\* lru11::Cache is an LRU cache: it holds what was used last, in that order and within its
\* limits, and a hit returns what was inserted last.
THEOREM MostRecentKept == Spec => []KeepsMostRecent
<1>1. LruInv => KeepsMostRecent
  <2> SUFFICES ASSUME LruInv PROVE KeepsMostRecent OBVIOUS
  <2>1. Types /\ Linked /\ Ordered /\ Sized BY DEF LruInv
  <2>2. /\ Len(list) \in Nat /\ Len(recent) \in Nat /\ Len(list) <= Len(recent) /\ recent \in Seq(Key)
        /\ DOMAIN list = 1 .. Len(list)
    BY <2>1, LruTypes DEF Ordered, Types
  <2>3. ListedKeys = SubSeq(recent, 1, Len(list))
    <3> DEFINE u == SubSeq(recent, 1, Len(list))
    <3>1. u = [i \in 1 .. Len(list) |-> recent[i]] BY <2>2
    <3>2. ListedKeys = [i \in 1 .. Len(list) |-> node[list[i]].key] BY <2>2 DEF ListedKeys
    <3>3. \A i \in 1 .. Len(list) : node[list[i]].key = recent[i] BY <2>1 DEF Ordered
    <3> QED BY <3>1, <3>2, <3>3
  <2>4. ASSUME NEW k \in Cached PROVE ValueOf(k) = latest[k]
    <3>1. k \in Key /\ map[k] # None BY DEF Cached
    <3>2. PICK p \in 1 .. Len(list) : list[p] = map[k] /\ recent[p] = k BY <2>1, <3>1, PlaceOf
    <3> QED BY <2>1, <3>2 DEF Ordered, ValueOf
  <2> QED BY <2>1, <2>3, <2>4 DEF KeepsMostRecent, Sized
<1> QED BY <1>1, LruInvariant, PTL

-----------------------------------------------------------------------------
(* LruCache implements ReadCache                                           *)

\* keys of module ReadCache.
KeyList == IF pooled THEN [i \in DOMAIN list |-> node[list[i]]] ELSE << >>

KeyListOK ==
    /\ KeyList \in Seq(Node) /\ Len(KeyList) = Len(list) /\ DOMAIN KeyList = 1 .. Len(list)
    /\ Len(list) \in Nat /\ \A i \in 1 .. Len(list) : KeyList[i] = node[list[i]]

\* The list of nodes that ReadCache speaks of is the list of addresses, node by node.
LEMMA KeyListFacts == LruInv /\ pooled => KeyListOK
<1> SUFFICES ASSUME LruInv, pooled PROVE KeyListOK OBVIOUS
<1>1. Types /\ Linked BY DEF LruInv
<1>2. Len(list) \in Nat /\ DOMAIN list = 1 .. Len(list) BY <1>1, LruTypes DEF Types
<1>3. KeyList = [i \in 1 .. Len(list) |-> node[list[i]]] BY <1>2 DEF KeyList
<1>4. \A i \in 1 .. Len(list) : node[list[i]] \in Node BY <1>1, LruTypes
<1> QED BY <1>2, <1>3, <1>4 DEF KeyListOK

\* ... also after a step.
LEMMA KeyListNext == LruInv' /\ pooled' => KeyListOK'
  BY KeyListFacts, PTL

\* A container that is not in the cache.
LEMMA InsertImplements ==
    ASSUME LruInv, LruInv', NEW k \in Key, NEW length \in Abstract!Length, InsertToCache(k, length)
    PROVE  Abstract!CacheNext
<1> DEFINE L == Len(list)
           new == [key |-> k, value |-> Taken]
<1>1. Types /\ Linked BY DEF LruInv
<1>2. /\ pooled /\ map[k] = None /\ pool' = [pool EXCEPT ![Taken] = Abstract!Copied(@, k, length)]
      /\ whole' = [whole EXCEPT ![Taken] = (length = "all")] /\ currentIndex' = Left
      /\ Inserted(k, Taken, Left) /\ pooled' = pooled
  BY PooledFacts DEF fixed
<1>3. /\ KeyList \in Seq(Node) /\ Len(KeyList) = L /\ DOMAIN KeyList = 1 .. L /\ L \in Nat
      /\ \A i \in 1 .. L : KeyList[i] = node[list[i]]
  BY <1>2, KeyListFacts DEF KeyListOK
<1>4. /\ Taken \in Buffer /\ L <= CacheSize /\ Left = Kept(Cons(FreeNode, list)) /\ CacheSize \in Nat
      /\ CacheSize # 0 /\ currentIndex = L
  BY <1>1, <1>2, TakeBuffer, LruTypes DEF LruInv, Sized
<1>5. ~ Abstract!ExistsInCache(k)
  <2> SUFFICES ASSUME NEW i \in 1 .. L, KeyList[i].key = k PROVE FALSE
    BY <1>3 DEF Abstract!ExistsInCache, KeyList
  <2>1. map[node[list[i]].key] = list[i] /\ list[i] # None BY <1>1, LruTypes DEF Linked
  <2> QED BY <1>2, <1>3, <2>1
<1>6. Abstract!CacheFull <=> ~ (L < CacheSize)
  <2>1. Abstract!CacheFull <=> L + 1 > CacheSize BY <1>3 DEF Abstract!CacheFull, KeyList
  <2> QED BY <1>3, <1>4, <2>1
<1>7. Abstract!ReplaceIndex = Taken
  <2>1. CASE L < CacheSize BY <1>4, <1>6, <2>1 DEF Abstract!ReplaceIndex, Taken
  <2>2. CASE ~ (L < CacheSize)
    <3>1. L \in 1 .. L BY <1>3, <1>4, <2>2
    <3>2. Abstract!ReplaceIndex = KeyList[Len(KeyList)].value
      BY <1>6, <2>2 DEF Abstract!ReplaceIndex, Abstract!Last, KeyList
    <3> QED BY <1>3, <2>2, <3>1, <3>2 DEF Taken
  <2> QED BY <2>1, <2>2
<1>8. new \in Node BY <1>4 DEF Node
<1>9. Left \in 1 .. L + 1 /\ Left = IF L < CacheSize THEN L + 1 ELSE CacheSize BY <1>3, <1>4 DEF Left
<1> HIDE DEF L, new
<1> DEFINE l == Cons(new, KeyList)
<1>10. l \in Seq(Node) /\ Len(l) = L + 1 /\ l[1] = new /\ \A i \in 2 .. L + 1 : l[i] = KeyList[i - 1]
  <2>1. \A x \in Node, s \in Seq(Node) :
           /\ Cons(x, s) \in Seq(Node) /\ Len(Cons(x, s)) = Len(s) + 1 /\ Cons(x, s)[1] = x
           /\ \A i \in 2 .. Len(s) + 1 : Cons(x, s)[i] = s[i - 1]
    BY ConsFacts
  <2> QED BY <1>3, <1>8, <2>1
<1> HIDE DEF l
<1>11. Abstract!Insert(k, Taken) = SubSeq(l, 1, Left)
  BY <1>2, <1>3, <1>5, <1>9 DEF Abstract!Insert, Abstract!Cons, Cons, KeyList, l, new, L
<1>12. SubSeq(l, 1, Left) \in Seq(Node) /\ Len(SubSeq(l, 1, Left)) = Left
       /\ \A i \in 1 .. Left : SubSeq(l, 1, Left)[i] = l[i]
  BY <1>3, <1>9, <1>10
<1>13. /\ KeyList' \in Seq(Node) /\ Len(KeyList') = Left
       /\ \A i \in 1 .. Left : KeyList'[i] = node'[list'[i]]
  <2>1. Len(list') = Left /\ pooled' BY <1>2 DEF Inserted
  <2> QED BY <2>1, KeyListNext DEF KeyListOK
<1>14. ASSUME NEW i \in 1 .. Left PROVE node'[list'[i]] = l[i]
  <2>1. FreeNode \in Address /\ node[FreeNode] = None BY <1>1, FreeNodeIsFree
  <2>2. /\ list'[1] = FreeNode /\ list'[i] \in Address
        /\ \A j \in 2 .. Left : list'[j] = list[j - 1] /\ j - 1 \in 1 .. L
    BY <1>2 DEF Inserted, L
  <2>3. node'[list'[i]] # None
    <3>1. Len(list') = Left BY <1>2 DEF Inserted
    <3> QED BY <3>1 DEF LruInv, Linked
  <2>4. node'[list'[i]] = IF list'[i] = FreeNode THEN new ELSE node[list'[i]]
    BY <1>2, <2>2, <2>3 DEF Inserted, new
  <2>5. CASE i = 1 BY <1>10, <2>2, <2>4, <2>5
  <2>6. CASE i # 1
    <3>1. i \in 2 .. Left /\ i \in 2 .. L + 1 BY <1>3, <1>9, <2>6
    <3>2. list'[i] = list[i - 1] /\ i - 1 \in 1 .. L BY <2>2, <3>1
    <3>3. list[i - 1] # FreeNode BY <1>1, <2>1, <3>2 DEF Linked, L
    <3> QED BY <1>3, <1>10, <2>4, <3>1, <3>2, <3>3
  <2> QED BY <2>5, <2>6
<1>15. KeyList' = SubSeq(l, 1, Left) BY <1>12, <1>13, <1>14, SeqEqual
<1>16. Abstract!InsertToCache(k, length)
  <2>1. currentIndex' = IF Abstract!CacheFull THEN currentIndex ELSE currentIndex + 1
    BY <1>2, <1>3, <1>4, <1>6, <1>9
  <2> QED BY <1>2, <1>7, <1>11, <1>15, <2>1 DEF Abstract!InsertToCache, KeyList
<1> QED BY <1>5, <1>16 DEF Abstract!CacheNext

\* A container that is in the cache.
LEMMA ReadImplements ==
    ASSUME LruInv, LruInv', NEW k \in Key, ReadFromCache(k)
    PROVE  Abstract!CacheNext
<1> DEFINE L == Len(list)
<1>1. Types /\ Linked /\ Ordered BY DEF LruInv
<1>2. /\ pooled /\ map[k] # None /\ list' = Splice(list, map[k]) /\ node' = node
      /\ UNCHANGED <<pool, currentIndex, whole>> /\ pooled' = pooled
  BY DEF ReadFromCache, Get, contains, fixed, buffers
<1>3. PICK p \in 1 .. L : list[p] = map[k] /\ node[list[p]].key = k BY <1>1, <1>2, PlaceOf
<1>4. /\ KeyList \in Seq(Node) /\ Len(KeyList) = L /\ DOMAIN KeyList = 1 .. L /\ L \in Nat
      /\ \A i \in 1 .. L : KeyList[i] = node[list[i]]
  BY <1>2, KeyListFacts DEF KeyListOK
<1>5. ASSUME NEW i \in 1 .. L, KeyList[i].key = k PROVE i = p
  <2>1. map[node[list[i]].key] = list[i] BY <1>1 DEF Linked
  <2> QED BY <1>1, <1>3, <1>4, <1>5, <2>1 DEF Linked
<1>6. Abstract!ExistsInCache(k) BY <1>3, <1>4 DEF Abstract!ExistsInCache, KeyList
<1>7. Abstract!Position(k) = p
  <2>1. Abstract!Position(k) = CHOOSE i \in 1 .. L : KeyList[i].key = k
    BY <1>4 DEF Abstract!Position, KeyList
  <2> QED BY <1>3, <1>4, <1>5, <2>1
<1> DEFINE x == KeyList[p]
           t == RemoveAt(KeyList, p)
           l == Cons(x, t)
<1>8. /\ Injective(list) /\ list \in Seq(Address) /\ x \in Node BY <1>1, <1>4, LruTypes DEF Types
<1>9. list' \in Seq(Address) /\ Len(list') = L /\ \A i \in 1 .. L : list'[i] = list[Moved(p, i)]
  <2>1. list' = Splice(list, list[p]) BY <1>2, <1>3
  <2> QED BY <1>8, <2>1, SpliceFacts
<1>10. \A i \in 1 .. L : Moved(p, i) \in 1 .. L BY <1>4, Places
<1> HIDE DEF L
<1>11. t \in Seq(Node) /\ Len(t) = L - 1 /\ \A i \in 1 .. L - 1 : t[i] = KeyList[IF i < p THEN i ELSE i + 1]
  <2>1. \A s \in Seq(Node) : \A q \in 1 .. Len(s) :
           /\ RemoveAt(s, q) \in Seq(Node) /\ Len(RemoveAt(s, q)) = Len(s) - 1
           /\ \A i \in 1 .. Len(s) - 1 : RemoveAt(s, q)[i] = s[IF i < q THEN i ELSE i + 1]
    BY RemoveAtFacts
  <2> QED BY <1>4, <2>1
<1> HIDE DEF x, t
<1>12. l \in Seq(Node) /\ Len(l) = (L - 1) + 1 /\ l[1] = x /\ \A i \in 2 .. (L - 1) + 1 : l[i] = t[i - 1]
  <2>1. \A y \in Node, s \in Seq(Node) :
           /\ Cons(y, s) \in Seq(Node) /\ Len(Cons(y, s)) = Len(s) + 1 /\ Cons(y, s)[1] = y
           /\ \A i \in 2 .. Len(s) + 1 : Cons(y, s)[i] = s[i - 1]
    BY ConsFacts
  <2>2. /\ l \in Seq(Node) /\ Len(l) = Len(t) + 1 /\ l[1] = x
        /\ \A i \in 2 .. Len(t) + 1 : l[i] = t[i - 1]
    BY <1>8, <1>11, <2>1, Zenon
  <2> HIDE DEF l
  <2> QED BY <1>11, <2>2
<1>13. KeyList' \in Seq(Node) /\ Len(KeyList') = L /\ \A i \in 1 .. L : KeyList'[i] = node[list'[i]]
  <2>1. Len(list') = L /\ pooled' BY <1>2, <1>9
  <2> QED BY <1>2, <2>1, KeyListNext DEF KeyListOK
<1>14. ASSUME NEW i \in 1 .. L PROVE KeyList'[i] = l[i]
  <2>1. KeyList'[i] = KeyList[Moved(p, i)]
    <3>1. list'[i] = list[Moved(p, i)] /\ Moved(p, i) \in 1 .. L BY <1>9, <1>10
    <3>2. KeyList[Moved(p, i)] = node[list[Moved(p, i)]] BY <1>4, <3>1
    <3>3. KeyList'[i] = node[list'[i]] BY <1>13
    <3> QED BY <3>1, <3>2, <3>3
  <2>2. CASE i = 1 BY <1>12, <2>1, <2>2 DEF Moved, x
  <2>3. CASE i # 1
    <3>1. i \in 2 .. (L - 1) + 1 /\ i - 1 \in 1 .. L - 1 /\ (i - 1) + 1 = i BY <1>4, <2>3
    <3>2. l[i] = KeyList[IF i - 1 < p THEN i - 1 ELSE (i - 1) + 1] BY <1>11, <1>12, <3>1
    <3> QED BY <2>1, <2>3, <3>1, <3>2 DEF Moved
  <2> QED BY <2>2, <2>3
<1>15. KeyList' = l
  <2>1. (L - 1) + 1 = L BY <1>4
  <2> HIDE DEF l
  <2> QED BY <1>12, <1>13, <1>14, <2>1, SeqEqual
<1>16. Abstract!ReadFromCache(k)
  BY <1>7, <1>15 DEF Abstract!ReadFromCache, Abstract!Cons, Cons, Abstract!RemoveAt, RemoveAt, KeyList, x, t
<1> QED BY <1>2, <1>6, <1>16 DEF Abstract!CacheNext

\* ReadCache::InsertToCache and ReadFromCache over lru11::Cache do, step by step, what
\* module ReadCache says of a list of buffers; RestoreSession and its theorems are about
\* that list.
THEOREM CacheImplementsReadCache == Spec => ImplementsReadCache
<1>1. Init => Abstract!CacheInit
  <2> SUFFICES ASSUME Init PROVE Abstract!CacheInit OBVIOUS
  <2>1. /\ list = << >> /\ pool = [i \in Buffer |-> None] /\ currentIndex = 0
        /\ whole = [i \in Buffer |-> FALSE]
    BY DEF Init
  <2>2. KeyList = << >>
    <3>1. CASE pooled
      <4>1. LruInv BY LruInitially
      <4>2. KeyList \in Seq(Node) /\ Len(KeyList) = 0 BY <2>1, <3>1, <4>1, KeyListFacts DEF KeyListOK
      <4> QED BY <4>2, EmptySeq
    <3>2. CASE ~pooled BY <3>2 DEF KeyList
    <3> QED BY <3>1, <3>2
  <2> QED BY <2>1, <2>2 DEF Abstract!CacheInit, Abstract!Buffer, Buffer, KeyList
<1>2. LruInv /\ LruInv' /\ [Next]_vars => [Abstract!CacheNext]_(Abstract!cacheVars)
  <2> SUFFICES ASSUME LruInv, LruInv', [Next]_vars PROVE [Abstract!CacheNext]_(Abstract!cacheVars) OBVIOUS
  <2>1. ASSUME ~pooled, UNCHANGED <<fixed, buffers>> PROVE UNCHANGED Abstract!cacheVars
    BY <2>1 DEF fixed, buffers, Abstract!cacheVars
  <2>2. ASSUME NEW k \in Key, NEW v \in Value, InsertDirect(k, v) PROVE UNCHANGED Abstract!cacheVars
    BY <2>1, <2>2 DEF InsertDirect
  <2>3. ASSUME NEW k \in Key, GetDirect(k) \/ RemoveKey(k) PROVE UNCHANGED Abstract!cacheVars
    BY <2>1, <2>3 DEF GetDirect, RemoveKey
  <2>4. ASSUME Clear PROVE UNCHANGED Abstract!cacheVars BY <2>1, <2>4 DEF Clear
  <2>5. ASSUME NEW k \in Key, NEW length \in Abstract!Length, InsertToCache(k, length) PROVE Abstract!CacheNext
    BY <2>5, InsertImplements
  <2>6. ASSUME NEW k \in Key, ReadFromCache(k) PROVE Abstract!CacheNext BY <2>6, ReadImplements
  <2>7. ASSUME UNCHANGED vars PROVE UNCHANGED Abstract!cacheVars BY <2>7 DEF vars, Abstract!cacheVars
  <2> QED BY <2>2, <2>3, <2>4, <2>5, <2>6, <2>7 DEF Next
<1> QED BY <1>1, <1>2, LruInvariant, PTL DEF Spec, ImplementsReadCache, Abstract!CacheSpec
=============================================================================
