------------------------ MODULE RestoreSessionProofs ------------------------
(***************************************************************************)
(* The cache of a download session and the answers it sends, for any       *)
(* chunks, containers, sizes of the cache, of a group and of a message.    *)
(***************************************************************************)
EXTENDS RestoreSession, SequenceTheorems, TLAPS

-----------------------------------------------------------------------------
(* Sequences                                                               *)

\* An element in front of a sequence.
LEMMA ConsFacts ==
    ASSUME NEW S, NEW s \in Seq(S), NEW x \in S
    PROVE  /\ Cons(x, s) \in Seq(S) /\ Len(Cons(x, s)) = Len(s) + 1 /\ Cons(x, s)[1] = x
           /\ \A i \in 2 .. Len(s) + 1 : Cons(x, s)[i] = s[i - 1]
<1>1. <<x>> \in Seq(S) /\ Len(<<x>>) = 1 /\ <<x>>[1] = x OBVIOUS
<1> DEFINE f == <<x>>
<1> HIDE DEF f
<1>2. f \in Seq(S) /\ Len(f) = 1 /\ f[1] = x /\ Cons(x, s) = f \o s BY <1>1 DEF f, Cons
<1>3. Len(s) \in Nat OBVIOUS
<1>4. /\ f \o s \in Seq(S) /\ Len(f \o s) = 1 + Len(s)
      /\ \A i \in 1 .. 1 + Len(s) : (f \o s)[i] = IF i <= 1 THEN f[i] ELSE s[i - 1]
  <2>1. /\ f \o s \in Seq(S) /\ Len(f \o s) = Len(f) + Len(s)
        /\ \A i \in 1 .. Len(f) + Len(s) : (f \o s)[i] = IF i <= Len(f) THEN f[i] ELSE s[i - Len(f)]
    BY <1>2, ConcatProperties, Zenon
  <2> QED BY <1>2, <2>1, Zenon
<1>5. 1 \in 1 .. 1 + Len(s) /\ 1 + Len(s) = Len(s) + 1 BY <1>3
<1>6. \A i \in 2 .. Len(s) + 1 : i \in 1 .. 1 + Len(s) /\ ~ (i <= 1) BY <1>3
<1> QED BY <1>2, <1>4, <1>5, <1>6

\* A sequence without its element p.
LEMMA RemoveAtFacts ==
    ASSUME NEW S, NEW s \in Seq(S), NEW p \in 1 .. Len(s)
    PROVE  /\ RemoveAt(s, p) \in Seq(S) /\ Len(RemoveAt(s, p)) = Len(s) - 1
           /\ \A i \in 1 .. Len(s) - 1 : RemoveAt(s, p)[i] = s[IF i < p THEN i ELSE i + 1]
<1> DEFINE u == SubSeq(s, 1, p - 1)
           v == SubSeq(s, p + 1, Len(s))
           L == Len(s)
<1>1. L \in Nat /\ p \in Nat /\ p >= 1 /\ p <= L OBVIOUS
<1>2. u \in Seq(S) /\ Len(u) = p - 1 /\ \A i \in 1 .. p - 1 : u[i] = s[i] OBVIOUS
<1>3. v \in Seq(S) /\ Len(v) = L - p /\ \A i \in 1 .. L - p : v[i] = s[i + p] OBVIOUS
<1>4. RemoveAt(s, p) = u \o v BY DEF RemoveAt
<1> HIDE DEF u, v, L
<1>5. /\ u \o v \in Seq(S) /\ Len(u \o v) = (p - 1) + (L - p)
      /\ \A i \in 1 .. (p - 1) + (L - p) : (u \o v)[i] = IF i <= p - 1 THEN u[i] ELSE v[i - (p - 1)]
  BY <1>2, <1>3, ConcatProperties
<1>6. (p - 1) + (L - p) = L - 1 BY <1>1
<1>7. ASSUME NEW i \in 1 .. L - 1 PROVE (u \o v)[i] = s[IF i < p THEN i ELSE i + 1]
  <2>1. (u \o v)[i] = IF i <= p - 1 THEN u[i] ELSE v[i - (p - 1)] BY <1>5, <1>6
  <2>2. CASE i < p
    <3>1. i <= p - 1 /\ i \in 1 .. p - 1 BY <1>1, <2>2
    <3> QED BY <1>2, <2>1, <2>2, <3>1
  <2>3. CASE ~ i < p
    <3>1. ~ (i <= p - 1) /\ i - (p - 1) \in 1 .. L - p /\ (i - (p - 1)) + p = i + 1 BY <1>1, <2>3
    <3> QED BY <1>3, <2>1, <2>3, <3>1
  <2> QED BY <2>2, <2>3
<1> QED BY <1>4, <1>5, <1>6, <1>7 DEF L

-----------------------------------------------------------------------------
(* The cache                                                               *)

\* The buffers that are in use are the ones handed out so far.
CacheInv ==
    /\ CacheTypeOK /\ CacheCoherent
    /\ \A i \in DOMAIN keys : keys[i].value < Len(keys)

\* Every buffer holds its container.
Faithful == \A i \in DOMAIN keys : pool[keys[i].value] = keys[i].key

\* Types of the cache.
LEMMA CacheTypes ==
    ASSUME CacheInv
    PROVE  /\ keys \in Seq(Node) /\ Len(keys) \in Nat /\ DOMAIN keys = 1 .. Len(keys)
           /\ CacheSize \in Nat /\ CacheSize # 0 /\ Len(keys) <= CacheSize
           /\ \A i \in 1 .. Len(keys) : /\ keys[i].key \in ContainerID /\ keys[i].value \in Buffer
                                        /\ keys[i].value \in Nat /\ keys[i].value < Len(keys)
           /\ pool \in [Buffer -> ContainerID \union {None}] /\ currentIndex = Len(keys)
           /\ whole \in [Buffer -> BOOLEAN]
<1>1. CacheSize \in Nat /\ CacheSize # 0 BY CacheAssumption
<1>2. keys \in Seq(Node) /\ Len(keys) <= CacheSize /\ currentIndex = Len(keys)
      /\ pool \in [Buffer -> ContainerID \union {None}] /\ whole \in [Buffer -> BOOLEAN]
  BY DEF CacheInv, CacheTypeOK
<1>3. Len(keys) \in Nat /\ DOMAIN keys = 1 .. Len(keys) BY <1>2
<1>4. \A i \in 1 .. Len(keys) : keys[i] \in Node BY <1>2
<1>5. \A i \in 1 .. Len(keys) : keys[i].key \in ContainerID /\ keys[i].value \in Buffer
  BY <1>4 DEF Node
<1>6. \A b \in Buffer : b \in Nat BY <1>1 DEF Buffer
<1> QED BY <1>1, <1>2, <1>3, <1>5, <1>6 DEF CacheInv

\* What a hit finds.
LEMMA CachedFacts ==
    ASSUME CacheInv, NEW name, ExistsInCache(name)
    PROVE  /\ Position(name) \in 1 .. Len(keys) /\ keys[Position(name)].key = name
           /\ name \in ContainerID
           /\ Cached(name) \in ContainerID \union {None} /\ (Faithful => Cached(name) = name)
<1>1. Position(name) \in DOMAIN keys /\ keys[Position(name)].key = name
  BY DEF ExistsInCache, Position
<1>2. Position(name) \in 1 .. Len(keys) BY <1>1, CacheTypes
<1>3. Cached(name) \in ContainerID \union {None} BY <1>2, CacheTypes DEF Cached
<1>4. Faithful => Cached(name) = name BY <1>1 DEF Faithful, Cached
<1> QED BY <1>1, <1>2, <1>3, <1>4, CacheTypes

\* A hit only changes the order.
LEMMA CacheReadStep ==
    ASSUME CacheInv, NEW name, ExistsInCache(name), ReadFromCache(name),
           UNCHANGED <<pool, currentIndex, whole>>
    PROVE  CacheInv' /\ (Faithful => Faithful')
<1> DEFINE p == Position(name)
           L == Len(keys)
           f(i) == IF i = 1 THEN p ELSE IF i - 1 < p THEN i - 1 ELSE i
<1>1. keys \in Seq(Node) /\ L \in Nat /\ DOMAIN keys = 1 .. L /\ p \in 1 .. L /\ keys[p] \in Node
  BY CacheTypes, CachedFacts
<1>2. keys' = Cons(keys[p], RemoveAt(keys, p)) BY DEF ReadFromCache
<1> HIDE DEF p, L
<1>3. /\ RemoveAt(keys, p) \in Seq(Node) /\ Len(RemoveAt(keys, p)) = L - 1
      /\ \A i \in 1 .. L - 1 : RemoveAt(keys, p)[i] = keys[IF i < p THEN i ELSE i + 1]
  BY <1>1, RemoveAtFacts DEF L
<1>4. /\ keys' \in Seq(Node) /\ Len(keys') = (L - 1) + 1 /\ keys'[1] = keys[p]
      /\ \A i \in 2 .. (L - 1) + 1 : keys'[i] = RemoveAt(keys, p)[i - 1]
  <2> DEFINE t == RemoveAt(keys, p)
             x == keys[p]
  <2>1. t \in Seq(Node) /\ Len(t) = L - 1 /\ keys' = Cons(x, t) /\ x \in Node BY <1>1, <1>2, <1>3
  <2> HIDE DEF t, x
  <2>2. /\ Cons(x, t) \in Seq(Node) /\ Len(Cons(x, t)) = Len(t) + 1
        /\ Cons(x, t)[1] = x
        /\ \A i \in 2 .. Len(t) + 1 : Cons(x, t)[i] = t[i - 1]
    BY <2>1, ConsFacts, ZenonT(60)
  <2> QED BY <2>1, <2>2 DEF t, x
<1>5. Len(keys') = L /\ DOMAIN keys' = 1 .. L BY <1>1, <1>4
<1>6. ASSUME NEW i \in 1 .. L PROVE f(i) \in 1 .. L /\ keys'[i] = keys[f(i)]
  <2>1. CASE i = 1 BY <1>1, <1>4, <2>1
  <2>2. CASE i # 1
    <3>1. /\ i \in 2 .. (L - 1) + 1 /\ i - 1 \in 1 .. L - 1 /\ (i - 1) + 1 = i
          /\ f(i) = IF i - 1 < p THEN i - 1 ELSE (i - 1) + 1
      BY <1>1, <2>2
    <3>2. keys'[i] = keys[IF i - 1 < p THEN i - 1 ELSE (i - 1) + 1] BY <1>3, <1>4, <3>1
    <3> QED BY <1>1, <3>1, <3>2
  <2> QED BY <2>1, <2>2
<1>7. \A i, j \in 1 .. L : i # j => f(i) # f(j) BY <1>1
<1> HIDE DEF f
<1>8. CacheTypeOK' BY <1>4, <1>5 DEF CacheInv, CacheTypeOK, L
<1>9. \A i \in 1 .. L : keys[i].value < L BY CacheTypes DEF L
<1>10. \A i, j \in 1 .. L : /\ i # j => keys[i].key # keys[j].key /\ keys[i].value # keys[j].value
                            /\ whole[keys[i].value] => pool[keys[i].value] = keys[i].key
  BY <1>1 DEF CacheInv, CacheCoherent
<1>11. CacheCoherent'
  <2> SUFFICES ASSUME NEW i \in 1 .. L, NEW j \in 1 .. L
               PROVE  /\ i # j => keys'[i].key # keys'[j].key /\ keys'[i].value # keys'[j].value
                      /\ whole'[keys'[i].value] => pool'[keys'[i].value] = keys'[i].key
    BY <1>5 DEF CacheCoherent
  <2>1. /\ f(i) \in 1 .. L /\ f(j) \in 1 .. L /\ keys'[i] = keys[f(i)] /\ keys'[j] = keys[f(j)]
        /\ i # j => f(i) # f(j)
    BY <1>6, <1>7
  <2>2. pool' = pool /\ whole' = whole OBVIOUS
  <2> QED BY <1>10, <2>1, <2>2
<1>12. \A i \in DOMAIN keys' : keys'[i].value < Len(keys') BY <1>5, <1>6, <1>9
<1>13. Faithful => Faithful' BY <1>1, <1>5, <1>6 DEF Faithful
<1> QED BY <1>8, <1>11, <1>12, <1>13 DEF CacheInv

\* A container that is not there yet takes a buffer no other entry keeps.
LEMMA CacheInsertStep ==
    ASSUME CacheInv, NEW name \in ContainerID, ~ ExistsInCache(name), NEW length \in Length,
           InsertToCache(name, length)
    PROVE  CacheInv' /\ (Faithful /\ length = "all" => Faithful')
<1> DEFINE L == Len(keys)
           M == IF L < CacheSize THEN L + 1 ELSE CacheSize
           v == ReplaceIndex
           n == [key |-> name, value |-> v]
           d == Copied(pool[v], name, length)
<1>1. /\ keys \in Seq(Node) /\ L \in Nat /\ DOMAIN keys = 1 .. L
      /\ CacheSize \in Nat /\ CacheSize # 0 /\ L <= CacheSize /\ currentIndex = L
      /\ pool \in [Buffer -> ContainerID \union {None}] /\ whole \in [Buffer -> BOOLEAN]
  BY CacheTypes
<1>2. \A i \in 1 .. L : /\ keys[i].key \in ContainerID /\ keys[i].value \in Buffer
                        /\ keys[i].value \in Nat /\ keys[i].value < L
  BY CacheTypes
<1>3. CacheFull <=> ~ (L < CacheSize) BY <1>1 DEF CacheFull
<1>4. v = IF L < CacheSize THEN L ELSE keys[L].value BY <1>1, <1>3 DEF ReplaceIndex, Last
<1>5. ~ (L < CacheSize) => L \in 1 .. L /\ L = CacheSize
  <2> HIDE DEF L
  <2>1. \A a, b \in Nat : b # 0 /\ a <= b /\ ~ (a < b) => a = b /\ a \in 1 .. a OBVIOUS
  <2> QED BY <1>1, <2>1
<1>6. v \in Buffer /\ v \in Nat
  <2>1. CASE L < CacheSize BY <1>1, <1>4, <2>1 DEF Buffer
  <2>2. CASE ~ (L < CacheSize) BY <1>2, <1>4, <1>5, <2>2
  <2> QED BY <2>1, <2>2
<1>7. n \in Node BY <1>6 DEF Node
<1>8. /\ pool' = [pool EXCEPT ![v] = d] /\ whole' = [whole EXCEPT ![v] = (length = "all")]
      /\ keys' = SubSeq(Cons(n, keys), 1, M)
      /\ currentIndex' = IF CacheFull THEN currentIndex ELSE currentIndex + 1
  BY DEF InsertToCache, Insert
<1>9. M \in Nat /\ M >= 1 /\ M <= L + 1 /\ M <= CacheSize BY <1>1
<1>24. d \in ContainerID \union {None} /\ (length = "all" => d = name)
  <2>1. pool[v] \in ContainerID \union {None} BY <1>1, <1>6
  <2> QED BY <2>1 DEF Copied, Length
<1> HIDE DEF L, v, n, d
<1>10. /\ Cons(n, keys) \in Seq(Node) /\ Len(Cons(n, keys)) = L + 1 /\ Cons(n, keys)[1] = n
       /\ \A i \in 2 .. L + 1 : Cons(n, keys)[i] = keys[i - 1]
  BY <1>1, <1>7, ConsFacts DEF L
<1>11. /\ keys' \in Seq(Node) /\ Len(keys') = M
       /\ \A i \in 1 .. M : keys'[i] = Cons(n, keys)[i]
  <2> HIDE DEF M
  <2> DEFINE c == Cons(n, keys)
  <2>1. c \in Seq(Node) /\ Len(c) = L + 1 /\ keys' = SubSeq(c, 1, M) BY <1>8, <1>10
  <2> HIDE DEF c
  <2>2. 1 \in 1 .. Len(c) + 1 /\ M \in 1 .. Len(c) /\ M + 1 - 1 = M BY <1>1, <1>9, <2>1
  <2>3. \A i \in 1 .. M : i + 1 - 1 = i OBVIOUS
  <2>4. SubSeq(c, 1, M) \in Seq(Node) /\ Len(SubSeq(c, 1, M)) = M /\ \A i \in 1 .. M : SubSeq(c, 1, M)[i] = c[i]
    BY <1>9, <2>1, <2>2
  <2> QED BY <2>1, <2>4 DEF c
<1>12. keys'[1] = n /\ \A i \in 2 .. M : i - 1 \in 1 .. L /\ keys'[i] = keys[i - 1]
  <2> HIDE DEF M
  <2>1. 1 \in 1 .. M /\ \A i \in 2 .. M : i \in 1 .. M /\ i \in 2 .. L + 1 /\ i - 1 \in 1 .. L
    BY <1>1, <1>9
  <2> QED BY <1>10, <1>11, <2>1
<1>13. DOMAIN keys' = 1 .. M BY <1>11
<1>14. currentIndex' = M BY <1>1, <1>3, <1>5, <1>8
<1>15. pool' \in [Buffer -> ContainerID \union {None}] /\ pool'[v] = d
       /\ \A x \in Buffer : x # v => pool'[x] = pool[x]
  BY <1>1, <1>6, <1>8, <1>24
<1>25. /\ whole' \in [Buffer -> BOOLEAN] /\ (whole'[v] <=> length = "all")
       /\ \A x \in Buffer : x # v => whole'[x] = whole[x]
  BY <1>1, <1>6, <1>8, Zenon
<1>16. n.key = name /\ n.value = v BY DEF n
<1>17. \A i \in 2 .. M : keys[i - 1].value # v /\ keys[i - 1].key # name
  <2> SUFFICES ASSUME NEW i \in 2 .. M PROVE keys[i - 1].value # v /\ keys[i - 1].key # name OBVIOUS
  <2>1. i - 1 \in 1 .. L BY <1>12
  <2>2. keys[i - 1].key # name BY <1>1, <2>1 DEF ExistsInCache
  <2>3. CASE L < CacheSize BY <1>1, <1>2, <1>4, <2>1, <2>2, <2>3
  <2>4. CASE ~ (L < CacheSize)
    <3>1. L \in 1 .. L /\ i - 1 # L BY <1>1, <1>5, <2>4
    <3>2. keys[i - 1].value # keys[L].value BY <1>1, <2>1, <3>1 DEF CacheInv, CacheCoherent
    <3> QED BY <1>4, <2>2, <2>4, <3>2
  <2> QED BY <2>3, <2>4
<1>18. \A i \in 1 .. M : i = 1 \/ i \in 2 .. M BY <1>9
<1>19. CacheTypeOK' BY <1>9, <1>11, <1>14, <1>15, <1>25 DEF CacheTypeOK
<1>20. \A i, j \in 1 .. L : /\ i # j => keys[i].key # keys[j].key /\ keys[i].value # keys[j].value
                            /\ whole[keys[i].value] => pool[keys[i].value] = keys[i].key
  BY <1>1 DEF CacheInv, CacheCoherent
<1>21. CacheCoherent'
  <2> SUFFICES ASSUME NEW i \in 1 .. M, NEW j \in 1 .. M
               PROVE  /\ i # j => keys'[i].key # keys'[j].key /\ keys'[i].value # keys'[j].value
                      /\ whole'[keys'[i].value] => pool'[keys'[i].value] = keys'[i].key
    BY <1>13 DEF CacheCoherent
  <2>1. \A x, y \in 2 .. M : x # y => x - 1 # y - 1 OBVIOUS
  <2>2. i # j => keys'[i].key # keys'[j].key /\ keys'[i].value # keys'[j].value
    <3>1. CASE i = 1 /\ j \in 2 .. M BY <1>12, <1>16, <1>17, <3>1
    <3>2. CASE j = 1 /\ i \in 2 .. M BY <1>12, <1>16, <1>17, <3>2
    <3>3. CASE i \in 2 .. M /\ j \in 2 .. M
      <4>1. /\ keys'[i] = keys[i - 1] /\ keys'[j] = keys[j - 1] /\ i - 1 \in 1 .. L /\ j - 1 \in 1 .. L
            /\ i # j => i - 1 # j - 1
        BY <1>12, <2>1, <3>3
      <4> QED BY <1>20, <4>1
    <3> QED BY <1>18, <3>1, <3>2, <3>3
  <2>3. whole'[keys'[i].value] => pool'[keys'[i].value] = keys'[i].key
    <3>1. CASE i = 1 BY <1>12, <1>15, <1>16, <1>24, <1>25, <3>1
    <3>2. CASE i \in 2 .. M
      <4>1. keys'[i] = keys[i - 1] /\ i - 1 \in 1 .. L /\ keys[i - 1].value # v BY <1>12, <1>17, <3>2
      <4>2. /\ pool'[keys[i - 1].value] = pool[keys[i - 1].value]
            /\ whole'[keys[i - 1].value] = whole[keys[i - 1].value]
        BY <1>2, <1>15, <1>25, <4>1
      <4> QED BY <1>20, <4>1, <4>2
    <3> QED BY <1>18, <3>1, <3>2
  <2> QED BY <2>2, <2>3
<1>22. ASSUME NEW i \in DOMAIN keys' PROVE keys'[i].value < Len(keys')
  <2>1. v < M
    <3>1. CASE L < CacheSize BY <1>1, <1>4, <3>1
    <3>2. CASE ~ (L < CacheSize) BY <1>1, <1>2, <1>4, <1>5, <3>2
    <3> QED BY <3>1, <3>2
  <2>2. CASE i = 1 BY <1>11, <1>12, <1>16, <2>1, <2>2
  <2>3. CASE i \in 2 .. M
    <3>1. keys'[i] = keys[i - 1] /\ keys[i - 1].value \in Nat /\ keys[i - 1].value < L BY <1>2, <1>12, <2>3
    <3>2. L <= M BY <1>1
    <3> QED BY <1>1, <1>9, <1>11, <3>1, <3>2
  <2> QED BY <1>13, <1>18, <2>2, <2>3
<1>23. Faithful /\ length = "all" => Faithful'
  <2> SUFFICES ASSUME Faithful, length = "all", NEW i \in 1 .. M PROVE pool'[keys'[i].value] = keys'[i].key
    BY <1>13 DEF Faithful
  <2>1. CASE i = 1 BY <1>12, <1>15, <1>16, <1>24, <2>1
  <2>2. CASE i \in 2 .. M
    <3>1. keys'[i] = keys[i - 1] /\ i - 1 \in 1 .. L /\ keys[i - 1].value # v BY <1>12, <1>17, <2>2
    <3>2. pool'[keys[i - 1].value] = pool[keys[i - 1].value] BY <1>2, <1>15, <3>1
    <3> QED BY <1>1, <3>1, <3>2 DEF Faithful
  <2> QED BY <1>18, <2>1, <2>2
<1> QED BY <1>19, <1>21, <1>22, <1>23 DEF CacheInv

-----------------------------------------------------------------------------
(* The store                                                               *)

Place == ContainerID \union {None}

\* The types of the store; a file that is not complete yet is not also complete.
StoreInv ==
    /\ up \in BOOLEAN /\ known \in [Chunk -> Place] /\ saved \in [Chunk -> Place]
    /\ opened \subseteq ContainerID /\ durable \subseteq Chunk \X ContainerID
    /\ \A id \in opened : ~ Uploads!Sealed(id)

\* What the uploads do to a store that is not closed: places and complete files stay.
Grows ==
    /\ \A c \in Chunk : known[c] # None => known'[c] = known[c]
    /\ durable \subseteq durable'
    /\ Unambiguous => Unambiguous'

\* A step that leaves files and index alone keeps what is said of them.
LEMMA StoreUnchanged ==
    ASSUME StoreInv, UNCHANGED storeVars
    PROVE  StoreInv' /\ Grows
<1>1. UNCHANGED <<up, known, opened, durable, saved>> BY DEF storeVars
<1>2. StoreInv' BY <1>1 DEF StoreInv, Uploads!Sealed
<1>3. Grows BY <1>1 DEF Grows, Unambiguous
<1> QED BY <1>2, <1>3

\* A chunk gets its place in a container that is neither open nor complete.
LEMMA StorePlaces ==
    ASSUME StoreInv, NEW c \in Chunk, NEW id \in ContainerID, Uploads!Store(c, id)
    PROVE  StoreInv' /\ Grows
<1>1. /\ known[c] = None /\ known' = [known EXCEPT ![c] = id] /\ ~ Uploads!Sealed(id)
      /\ UNCHANGED <<up, opened, durable, saved>>
  BY DEF Uploads!Store
<1>2. StoreInv' BY <1>1 DEF StoreInv, Uploads!Sealed, Place
<1>3. \A x \in Chunk : known'[x] = IF x = c THEN id ELSE known[x] BY <1>1 DEF StoreInv
<1>4. ASSUME Unambiguous PROVE Unambiguous'
  <2> SUFFICES ASSUME NEW q \in durable, NEW x \in Chunk, known'[x] = q[2] PROVE known'[q[1]] = q[2]
    BY <1>1 DEF Unambiguous
  <2>1. q[1] \in Chunk /\ q[2] \in ContainerID /\ q = <<q[1], q[2]>> BY DEF StoreInv
  <2>2. q[2] # id BY <1>1, <2>1 DEF Uploads!Sealed
  <2>3. known[x] = q[2] BY <1>3, <2>2
  <2>4. known[q[1]] = q[2] BY <1>4, <2>3 DEF Unambiguous
  <2>5. q[1] # c BY <1>1, <2>1, <2>4, NoneAssumption
  <2> QED BY <1>3, <2>1, <2>4, <2>5
<1> QED BY <1>1, <1>2, <1>3, <1>4 DEF Grows

\* A file that is begun or completed takes nothing away from the others.
LEMMA StoreSeals ==
    ASSUME StoreInv, NEW id \in ContainerID, Uploads!Open(id) \/ Uploads!Seal(id)
    PROVE  StoreInv' /\ Grows
<1>1. CASE Uploads!Open(id)
  <2>1. opened' = opened \union {id} /\ ~ Uploads!Sealed(id) /\ UNCHANGED <<up, known, durable, saved>>
    BY <1>1 DEF Uploads!Open
  <2>2. StoreInv' BY <2>1 DEF StoreInv, Uploads!Sealed
  <2>3. Grows BY <2>1 DEF Grows, Unambiguous
  <2> QED BY <2>2, <2>3
<1>2. CASE Uploads!Seal(id)
  <2>1. /\ opened' = opened \ {id} /\ UNCHANGED <<up, known, saved>>
        /\ durable' = durable \union {<<c, id>> : c \in {d \in Chunk : known[d] = id}}
    BY <1>2 DEF Uploads!Seal
  <2>2. durable' \subseteq Chunk \X ContainerID BY <2>1 DEF StoreInv
  <2>3. ASSUME NEW x \in opened' PROVE ~ Uploads!Sealed(x)'
    <3>1. x \in opened /\ x # id BY <2>1
    <3>2. ~ \E c \in Chunk : <<c, x>> \in durable BY <3>1 DEF StoreInv, Uploads!Sealed
    <3>3. \A c \in Chunk : <<c, x>> \in durable' => <<c, x>> \in durable BY <2>1, <3>1
    <3> QED BY <3>2, <3>3 DEF Uploads!Sealed
  <2>4. StoreInv' BY <2>1, <2>2, <2>3 DEF StoreInv
  <2>5. ASSUME Unambiguous PROVE Unambiguous'
    <3> SUFFICES ASSUME NEW q \in durable', NEW x \in Chunk, known[x] = q[2] PROVE known[q[1]] = q[2]
      BY <2>1 DEF Unambiguous
    <3>1. CASE q \in durable BY <2>5, <3>1 DEF Unambiguous
    <3>2. CASE q \notin durable
      <4>1. PICK c \in {d \in Chunk : known[d] = id} : q = <<c, id>> BY <2>1, <3>2
      <4> QED BY <4>1
    <3> QED BY <3>1, <3>2
  <2> QED BY <2>1, <2>4, <2>5 DEF Grows
<1> QED BY <1>1, <1>2

\* Without a session the store may also be closed and opened again.
LEMMA StoreCycle ==
    ASSUME StoreInv, Uploads!Discard \/ Uploads!Save \/ Uploads!Crash \/ Uploads!Restart
    PROVE  StoreInv'
<1>1. Uploads!Nothing \in [Chunk -> Place] BY DEF Uploads!Nothing, Place
<1>2. opened' = opened /\ durable' = durable
  BY DEF Uploads!Discard, Uploads!Save, Uploads!Crash, Uploads!Restart
<1>3. up' \in BOOLEAN /\ known' \in [Chunk -> Place]
  BY <1>1 DEF StoreInv, Uploads!Discard, Uploads!Save, Uploads!Crash, Uploads!Restart
<1>4. saved' \in [Chunk -> Place]
  <2>1. CASE Uploads!Crash
    <3>1. saved' = saved \/ \E K \in SUBSET Chunk :
                saved' = [c \in Chunk |-> IF c \in K THEN known[c] ELSE None]
      BY <2>1 DEF Uploads!Crash
    <3>2. None \in Place /\ \A c \in Chunk : known[c] \in Place BY DEF StoreInv, Place
    <3> QED BY <3>1, <3>2 DEF StoreInv
  <2> QED BY <1>1, <2>1 DEF StoreInv, Uploads!Discard, Uploads!Save, Uploads!Restart
<1> QED BY <1>2, <1>3, <1>4 DEF StoreInv, Uploads!Sealed

\* The end of the server.
LEMMA StoreExit ==
    ASSUME StoreInv, NEW loc, Exit(loc)
    PROVE  StoreInv' /\ Unambiguous'
<1>1. up' = FALSE /\ known' = [c \in Chunk |-> None] /\ UNCHANGED <<opened, durable, saved>>
  BY DEF Exit, Uploads!Nothing
<1>2. StoreInv' BY <1>1 DEF StoreInv, Uploads!Sealed, Place
<1>3. Unambiguous'
  <2> SUFFICES ASSUME NEW q \in durable, NEW x \in Chunk, known'[x] = q[2] PROVE FALSE
    BY <1>1 DEF Unambiguous
  <2> QED BY <1>1, NoneAssumption DEF StoreInv
<1> QED BY <1>2, <1>3

\* What a step does to the store, wherever the session stands.
LEMMA StoreStep ==
    ASSUME StoreInv, [Next]_vars
    PROVE  /\ StoreInv'
           /\ dpc # "off" => Grows \/ (Unambiguous' /\ dpc' \in {"exit", "hungup"})
<1>1. CASE Store
  <2>1. CASE \E c \in Chunk, id \in ContainerID : Uploads!Store(c, id) BY <2>1, StorePlaces
  <2>2. CASE \E id \in ContainerID : Uploads!Open(id) \/ Uploads!Seal(id) BY <2>2, StoreSeals
  <2>3. CASE dpc = "off" /\ (Uploads!Discard \/ Uploads!Save \/ Uploads!Crash \/ Uploads!Restart)
    BY <2>3, StoreCycle
  <2> QED BY <1>1, <2>1, <2>2, <2>3 DEF Store
<1>2. CASE FetchMissing \/ SendNotFound \/ HangUp
  <2>1. \E loc \in {"exit", "hungup"} : Exit(loc) /\ dpc' = loc BY <1>2 DEF FetchMissing, SendNotFound, HangUp, Exit
  <2> QED BY <2>1, StoreExit
<1>3. CASE UNCHANGED storeVars
  BY <1>3, StoreUnchanged
<1>4. CASE Login \/ Ready \/ RecvBatch \/ Close \/ Lookup \/ LookupRacing \/ Collect
  BY <1>3, <1>4 DEF Login, Ready, RecvBatch, Close, Lookup, LookupRacing, Found, Collect
<1>5. CASE FetchCached \/ FetchFile \/ FetchPartial
  BY <1>3, <1>5 DEF FetchCached, FetchFile, FetchPartial, Fetched
<1>6. CASE Send \/ EndGroup \/ ProcessRecipeTailBatch
  BY <1>3, <1>6 DEF Send, EndGroup, ProcessRecipeTailBatch
<1> QED BY <1>1, <1>2, <1>3, <1>4, <1>5, <1>6 DEF Next, Decoder, vars

\* What a step does to the cache: only the fetching of a container that is there uses it.
LEMMA CacheStep ==
    ASSUME StoreInv, CacheInv, [Next]_vars
    PROVE  CacheInv' /\ (Faithful /\ ~ FetchPartial => Faithful')
<1>1. CASE FetchCached
  BY <1>1, CacheReadStep DEF FetchCached
<1>2. CASE FetchFile
  <2> DEFINE name == ids[fetched + 1]
  <2>1. ~ ExistsInCache(name) /\ Uploads!Sealed(name) /\ InsertToCache(name, "all") BY <1>2 DEF FetchFile
  <2> HIDE DEF name
  <2>2. name \in ContainerID BY <2>1 DEF Uploads!Sealed, StoreInv
  <2>3. "all" \in Length BY DEF Length
  <2> QED BY <2>1, <2>2, <2>3, CacheInsertStep
<1>3. CASE FetchPartial
  <2> DEFINE name == ids[fetched + 1]
  <2>1. /\ ~ ExistsInCache(name) /\ name \in opened
        /\ \E length \in Length : InsertToCache(name, length)
    BY <1>3 DEF FetchPartial
  <2> HIDE DEF name
  <2>2. name \in ContainerID BY <2>1 DEF StoreInv
  <2>3. CacheInv' BY <2>1, <2>2, CacheInsertStep
  <2> QED BY <1>3, <2>3
<1>4. CASE UNCHANGED cacheVars
  BY <1>4 DEF cacheVars, CacheInv, CacheTypeOK, CacheCoherent, Faithful
<1>5. CASE Store \/ Login \/ Ready \/ RecvBatch \/ Close \/ HangUp \/ FetchMissing \/ SendNotFound
  BY <1>4, <1>5 DEF Store, sessionVars, Login, Ready, RecvBatch, Close, HangUp, FetchMissing, SendNotFound, Exit
<1>6. CASE Lookup \/ LookupRacing \/ Collect \/ Send \/ EndGroup \/ ProcessRecipeTailBatch
  BY <1>4, <1>6 DEF Lookup, LookupRacing, Found, Collect, Send, EndGroup, ProcessRecipeTailBatch
<1> QED BY <1>1, <1>2, <1>3, <1>4, <1>5, <1>6 DEF Next, Decoder, vars, sessionVars

-----------------------------------------------------------------------------
(* The course of a request                                                 *)

\* TypeOK without the cache.
SessionTypes ==
    /\ dpc \in {"off", "ready", "recv", "lookup", "collect", "fetch", "send", "tail",
                "end", "exit", "hungup"}
    /\ entries \in Seq(Chunk) /\ names \in Seq(Place)
    /\ ids \in Seq(Place) /\ Len(ids) <= CONTAINER_CAPPING_VALUE
    /\ start \in Nat /\ end \in Nat /\ fetched \in Nat
    /\ containerArray \in [Array -> Place]
    /\ out \in Seq(Chunk \union {None}) /\ sent \in Seq(Chunk \union {None})
    /\ asked \in {"nothing", "known", "durable"}
    /\ requests \in Nat /\ races \in Nat

\* The group is start .. end - 1, its containers are ids, and what was answered is what
\* comes before it.
Grouped ==
    dpc \in {"collect", "fetch", "send"} =>
        \A e \in start .. end - 1 : \E i \in 1 .. Len(ids) : ids[i] = names[e]

Answered ==
    /\ 1 <= start /\ start <= end /\ end <= Len(entries) + 1
    /\ Len(sent) + Len(out) = start - 1

ControlInv ==
    /\ dpc \in {"off", "ready", "recv", "lookup", "tail"} => ids = << >>
    /\ dpc \in {"off", "ready"} => requests = 0
    /\ dpc = "lookup" => Len(names) < Len(entries) /\ start = 1 /\ end = 1
    /\ dpc \in {"collect", "fetch", "send"} => Len(names) = Len(entries)
    /\ dpc = "collect" => end <= Len(entries) /\ Len(ids) < CONTAINER_CAPPING_VALUE
    /\ dpc = "fetch" => fetched < Len(ids)
    /\ dpc = "send" => fetched = Len(ids)
    /\ dpc = "tail" => start = Len(entries) + 1 /\ out = << >>

RequestInv == SessionTypes /\ ControlInv /\ Answered /\ Grouped

\* Lengths and places are what the arithmetic below needs.
LEMMA RequestTypes ==
    ASSUME SessionTypes
    PROVE  /\ Len(entries) \in Nat /\ Len(names) \in Nat /\ Len(ids) \in Nat
           /\ Len(out) \in Nat /\ Len(sent) \in Nat /\ start \in Nat /\ end \in Nat /\ fetched \in Nat
           /\ CONTAINER_CAPPING_VALUE \in Nat /\ CONTAINER_CAPPING_VALUE # 0
           /\ SendChunkBatchSize \in Nat /\ SendChunkBatchSize # 0
           /\ \A i \in 1 .. Len(entries) : entries[i] \in Chunk
           /\ \A i \in 1 .. Len(names) : names[i] \in Place
           /\ \A i \in 1 .. Len(ids) : ids[i] \in Place
  BY RestoreAssumption DEF SessionTypes

\* Steps that only go on, and the uploads.
LEMMA MoveStep ==
    ASSUME RequestInv, Store \/ Login \/ Ready \/ Close \/ ProcessRecipeTailBatch \/ UNCHANGED vars
    PROVE  RequestInv'
<1>1. UNCHANGED <<entries, names, ids, start, end, containerArray, fetched, out, sent, asked, requests, races>>
  BY DEF Store, Login, Ready, Close, ProcessRecipeTailBatch, vars, sessionVars, batchVars, groupVars,
     sendVars, countVars
<1>2. \/ dpc' = dpc \/ (dpc = "off" /\ dpc' = "ready") \/ (dpc = "ready" /\ dpc' = "recv")
      \/ (dpc = "recv" /\ dpc' = "end") \/ (dpc = "tail" /\ dpc' = "recv")
  BY DEF Store, Login, Ready, Close, ProcessRecipeTailBatch, vars, sessionVars
<1>3. SessionTypes' BY <1>1, <1>2 DEF RequestInv, SessionTypes
<1>4. ControlInv' BY <1>1, <1>2 DEF RequestInv, ControlInv
<1>5. Answered' BY <1>1 DEF RequestInv, Answered
<1>6. Grouped' BY <1>1, <1>2 DEF RequestInv, Grouped
<1> QED BY <1>3, <1>4, <1>5, <1>6 DEF RequestInv

\* Steps that end the server.
LEMMA EndStep ==
    ASSUME RequestInv, HangUp \/ FetchMissing \/ SendNotFound
    PROVE  RequestInv'
<1>1. UNCHANGED <<entries, names, ids, start, end, containerArray, fetched, out, sent, asked, requests, races>>
      /\ dpc' \in {"exit", "hungup"}
  BY DEF HangUp, FetchMissing, SendNotFound, Exit, batchVars, groupVars, sendVars, countVars
<1>2. SessionTypes' BY <1>1 DEF RequestInv, SessionTypes
<1>3. ControlInv' BY <1>1 DEF RequestInv, ControlInv
<1>4. Answered' BY <1>1 DEF RequestInv, Answered
<1>5. Grouped' BY <1>1 DEF RequestInv, Grouped
<1> QED BY <1>2, <1>3, <1>4, <1>5 DEF RequestInv

\* A request arrives.
LEMMA RecvBatchStep == ASSUME RequestInv, RecvBatch PROVE RequestInv'
<1>1. PICK b \in Batch :
         /\ entries' = b /\ dpc' = (IF b = << >> THEN "tail" ELSE "lookup")
         /\ asked' = Weaker(asked, Standing(b))
  BY DEF RecvBatch
<1>2. /\ dpc = "recv" /\ names' = << >> /\ start' = 1 /\ end' = 1 /\ out' = << >> /\ sent' = << >>
      /\ requests' = requests + 1 /\ UNCHANGED <<ids, containerArray, fetched, races>>
  BY DEF RecvBatch
<1>3. b \in Seq(Chunk) /\ Len(b) \in Nat /\ (b = << >> <=> Len(b) = 0) BY RestoreAssumption
<1>4. Len(names') = 0 /\ Len(out') = 0 /\ Len(sent') = 0 BY <1>2
<1>5. SessionTypes'
  <2>1. asked' \in {"nothing", "known", "durable"} BY <1>1 DEF Weaker
  <2>2. dpc' \in {"tail", "lookup"} BY <1>1
  <2>3. << >> \in Seq(Place) /\ << >> \in Seq(Chunk \union {None}) OBVIOUS
  <2> QED BY <1>1, <1>2, <1>3, <2>1, <2>2, <2>3 DEF RequestInv, SessionTypes
<1>6. ids = << >> BY <1>2 DEF RequestInv, ControlInv
<1>7. ControlInv' BY <1>1, <1>2, <1>3, <1>4, <1>6 DEF ControlInv
<1>8. Answered' BY <1>1, <1>2, <1>3, <1>4 DEF Answered
<1>9. Grouped' BY <1>1 DEF Grouped
<1> QED BY <1>5, <1>7, <1>8, <1>9 DEF RequestInv

\* The index is asked for the next fingerprint.
LEMMA LookupStep == ASSUME RequestInv, StoreInv, Lookup \/ LookupRacing PROVE RequestInv'
<1>1. SessionTypes /\ ControlInv /\ Answered BY DEF RequestInv
<1>2. dpc = "lookup" /\ Len(names) < Len(entries) /\ start = 1 /\ end = 1 /\ ids = << >>
  BY <1>1 DEF Lookup, LookupRacing, ControlInv
<1>3. Len(entries) \in Nat /\ Len(names) \in Nat /\ names \in Seq(Place) BY <1>1, RequestTypes DEF SessionTypes
<1>4. entries[Len(names) + 1] \in Chunk
  <2>1. Len(names) + 1 \in 1 .. Len(entries) BY <1>2, <1>3
  <2> QED BY <1>1, <2>1, RequestTypes
<1>5. Missed \in Place
  <2>1. CASE names = << >> BY <2>1 DEF Missed, Place
  <2>2. CASE names # << >>
    <3>1. Len(names) \in 1 .. Len(names) BY <1>3, <2>2
    <3> QED BY <1>3, <2>2, <3>1 DEF Missed, Last
  <2> QED BY <2>1, <2>2
<1>6. PICK name \in Place : Found(name)
  <2>1. known[LookupKey] \in Place BY <1>4 DEF StoreInv, LookupKey
  <2>2. (IF known[LookupKey] = None THEN Missed ELSE known[LookupKey]) \in Place BY <1>5, <2>1
  <2>3. None \in Place BY DEF Place
  <2> QED BY <1>5, <2>2, <2>3 DEF Lookup, LookupRacing
<1>7. /\ names' = Append(names, name)
      /\ dpc' = IF Len(names) + 1 = Len(entries) THEN "collect" ELSE "lookup"
      /\ UNCHANGED <<entries, ids, start, end, containerArray, fetched, out, sent, asked, requests>>
  BY <1>6 DEF Found, groupVars, sendVars
<1>8. names' \in Seq(Place) /\ Len(names') = Len(names) + 1 BY <1>3, <1>7
<1>9. races' \in Nat BY <1>1 DEF Lookup, LookupRacing, SessionTypes
<1>10. SessionTypes' BY <1>1, <1>7, <1>8, <1>9 DEF SessionTypes
<1>11. ControlInv'
  <2>1. Len(ids) = 0 /\ CONTAINER_CAPPING_VALUE \in Nat /\ CONTAINER_CAPPING_VALUE # 0 BY <1>1, <1>2, RequestTypes
  <2>2. CASE Len(names) + 1 = Len(entries) BY <1>2, <1>3, <1>7, <1>8, <2>1, <2>2 DEF ControlInv
  <2>3. CASE Len(names) + 1 # Len(entries) BY <1>2, <1>3, <1>7, <1>8, <2>3 DEF ControlInv
  <2> QED BY <2>2, <2>3
<1>12. Answered' BY <1>1, <1>7 DEF Answered
<1>13. Grouped' BY <1>2, <1>7 DEF Grouped
<1> QED BY <1>10, <1>11, <1>12, <1>13 DEF RequestInv

\* A chunk joins the group, whose containers fit containerArray.
LEMMA CollectStep == ASSUME RequestInv, Collect PROVE RequestInv'
<1>1. SessionTypes /\ ControlInv /\ Answered /\ Grouped BY DEF RequestInv
<1>2. /\ dpc = "collect" /\ end' = end + 1 /\ fetched' = 0
      /\ ids' = (IF names[end] \in ToSet(ids) THEN ids ELSE Append(ids, names[end]))
      /\ dpc' = (IF Len(ids') = CONTAINER_CAPPING_VALUE \/ end = Len(entries) THEN "fetch" ELSE "collect")
      /\ UNCHANGED <<entries, names, start, containerArray, out, sent, asked, requests, races>>
  BY DEF Collect, batchVars, sendVars, countVars
<1>3. /\ Len(entries) \in Nat /\ Len(names) = Len(entries) /\ end <= Len(entries) /\ 1 <= start
      /\ start <= end /\ start \in Nat /\ end \in Nat /\ CONTAINER_CAPPING_VALUE \in Nat /\ Len(ids) \in Nat
      /\ Len(ids) < CONTAINER_CAPPING_VALUE /\ ids \in Seq(Place) /\ end \in 1 .. Len(names)
  BY <1>1, <1>2, RequestTypes DEF ControlInv, Answered, SessionTypes
<1>4. names[end] \in Place BY <1>1, <1>3, RequestTypes
<1>5. /\ ids' \in Seq(Place) /\ Len(ids) <= Len(ids') /\ Len(ids') <= Len(ids) + 1 /\ Len(ids') \in Nat
      /\ \A i \in 1 .. Len(ids) : ids'[i] = ids[i]
      /\ \E i \in 1 .. Len(ids') : ids'[i] = names[end]
  <2>1. CASE names[end] \in ToSet(ids)
    <3>1. ids' = ids BY <1>2, <2>1
    <3>2. \E i \in 1 .. Len(ids) : ids[i] = names[end] BY <1>3, <2>1 DEF ToSet
    <3> QED BY <1>3, <3>1, <3>2
  <2>2. CASE names[end] \notin ToSet(ids)
    <3>1. /\ ids' \in Seq(Place) /\ Len(ids') = Len(ids) + 1 /\ ids'[Len(ids) + 1] = names[end]
          /\ \A i \in 1 .. Len(ids) : ids'[i] = ids[i]
      BY <1>2, <1>3, <1>4, <2>2
    <3>2. Len(ids) + 1 \in 1 .. Len(ids') BY <1>3, <3>1
    <3> QED BY <1>3, <3>1, <3>2
  <2> QED BY <2>1, <2>2
<1>6. Len(ids') >= 1 BY <1>5
<1>7. SessionTypes' BY <1>1, <1>2, <1>3, <1>5 DEF SessionTypes
<1>8. ControlInv' BY <1>2, <1>3, <1>5, <1>6 DEF ControlInv
<1>9. Answered' BY <1>1, <1>2, <1>3 DEF Answered
<1>10. Grouped'
  <2> SUFFICES ASSUME NEW e \in start .. end PROVE \E i \in 1 .. Len(ids') : ids'[i] = names[e]
    BY <1>2, <1>3 DEF Grouped
  <2>1. CASE e = end BY <1>5, <2>1
  <2>2. CASE e # end
    <3>1. e \in start .. end - 1 BY <1>3, <2>2
    <3>2. PICK i \in 1 .. Len(ids) : ids[i] = names[e] BY <1>1, <1>2, <3>1 DEF Grouped
    <3>3. i \in 1 .. Len(ids') /\ ids'[i] = names[e] BY <1>3, <1>5, <3>2
    <3> QED BY <3>3
  <2> QED BY <2>1, <2>2
<1> QED BY <1>7, <1>8, <1>9, <1>10 DEF RequestInv

\* What a fetched container is, and where it goes.
LEMMA FetchFacts ==
    ASSUME RequestInv, StoreInv, CacheInv, FetchCached \/ FetchFile \/ FetchPartial
    PROVE  /\ dpc = "fetch" /\ fetched < Len(ids) /\ fetched + 1 \in 1 .. Len(ids) /\ fetched + 1 \in Array
           /\ \E content \in Place : Fetched(content)
<1>1. SessionTypes /\ ControlInv BY DEF RequestInv
<1>2. dpc = "fetch" /\ fetched < Len(ids) BY DEF FetchCached, FetchFile, FetchPartial, Fetching
<1>3. /\ Len(ids) \in Nat /\ fetched \in Nat /\ CONTAINER_CAPPING_VALUE \in Nat
      /\ Len(ids) <= CONTAINER_CAPPING_VALUE
  BY <1>1, RequestTypes DEF SessionTypes
<1>4. fetched + 1 \in 1 .. Len(ids) /\ fetched + 1 \in Array BY <1>2, <1>3 DEF Array
<1>5. containerArray[fetched + 1] \in Place BY <1>1, <1>4 DEF SessionTypes
<1> DEFINE name == ids[fetched + 1]
<1>6. CASE FetchCached
  <2>1. ExistsInCache(name) /\ Fetched(Cached(name)) BY <1>6 DEF FetchCached
  <2> HIDE DEF name
  <2>2. Cached(name) \in Place BY <2>1, CachedFacts DEF Place
  <2> QED BY <1>2, <1>4, <2>1, <2>2
<1>7. CASE FetchFile
  <2>1. Uploads!Sealed(name) /\ Fetched(name) BY <1>7 DEF FetchFile
  <2> HIDE DEF name
  <2>2. name \in Place BY <2>1 DEF Uploads!Sealed, StoreInv, Place
  <2> QED BY <1>2, <1>4, <2>1, <2>2
<1>8. CASE FetchPartial
  <2>1. PICK length \in Length \ {"all"} : Fetched(Copied(containerArray[fetched + 1], name, length))
    BY <1>8 DEF FetchPartial
  <2>2. Copied(containerArray[fetched + 1], name, length) \in Place BY <1>5, <2>1 DEF Place, Copied, Length
  <2> QED BY <1>2, <1>4, <2>1, <2>2
<1> QED BY <1>6, <1>7, <1>8

\* A container of the group is read, from the cache or from disk.
LEMMA FetchStep ==
    ASSUME RequestInv, StoreInv, CacheInv, FetchCached \/ FetchFile \/ FetchPartial
    PROVE  RequestInv'
<1>1. SessionTypes /\ ControlInv /\ Answered /\ Grouped BY DEF RequestInv
<1>2. dpc = "fetch" /\ fetched < Len(ids) /\ fetched + 1 \in Array BY FetchFacts
<1>3. PICK content \in Place : Fetched(content) BY FetchFacts
<1>4. /\ containerArray' = [containerArray EXCEPT ![fetched + 1] = content]
      /\ fetched' = fetched + 1 /\ dpc' = (IF fetched + 1 = Len(ids) THEN "send" ELSE "fetch")
      /\ UNCHANGED <<entries, names, ids, start, end, out, sent, asked, requests, races>>
  BY <1>3 DEF Fetched, batchVars, sendVars, countVars
<1>5. Len(ids) \in Nat /\ fetched \in Nat BY <1>1, RequestTypes
<1>6. containerArray' \in [Array -> Place] BY <1>1, <1>2, <1>4 DEF SessionTypes
<1>7. SessionTypes' BY <1>1, <1>4, <1>5, <1>6 DEF SessionTypes
<1>8. ControlInv' BY <1>1, <1>2, <1>4, <1>5 DEF ControlInv
<1>9. Answered' BY <1>1, <1>4 DEF Answered
<1>10. Grouped' BY <1>1, <1>2, <1>4 DEF Grouped
<1> QED BY <1>7, <1>8, <1>9, <1>10 DEF RequestInv

\* What Send does to the messages: one chunk more, in the buffer or on its way.
LEMMA SendFacts ==
    ASSUME SessionTypes, start \in 1 .. Len(entries), Send
    PROVE  /\ sent' \in Seq(Chunk \union {None}) /\ out' \in Seq(Chunk \union {None})
           /\ Len(sent') + Len(out') = Len(sent) + Len(out) + 1
           /\ sent' \o out' = Append(sent \o out, RecoverOneChunk(start))
<1> DEFINE x == RecoverOneChunk(start)
           T == Chunk \union {None}
           buf == Append(out, x)
<1>1. entries[start] \in Chunk BY RequestTypes
<1>2. x \in T BY <1>1 DEF RecoverOneChunk
<1>3. sent \in Seq(T) /\ out \in Seq(T) BY DEF SessionTypes
<1>4. \/ sent' = sent \o buf /\ out' = << >>
      \/ sent' = sent /\ out' = buf
  BY DEF Send
<1> HIDE DEF x, T
<1>5. buf \in Seq(T) /\ Len(buf) = Len(out) + 1 BY <1>2, <1>3
<1>6. sent \o buf = Append(sent \o out, x)
  <2>1. sent \o out \in Seq(T) /\ Len(sent \o out) = Len(sent) + Len(out) BY <1>3
  <2>2. sent \o buf \in Seq(T) /\ Len(sent \o buf) = Len(sent) + (Len(out) + 1) BY <1>3, <1>5
  <2> QED BY <1>2, <1>3, <2>1, <2>2
<1>7. CASE sent' = sent \o buf /\ out' = << >>
  <2>1. sent \o buf \in Seq(T) /\ Len(sent \o buf) = Len(sent) + Len(buf) BY <1>3, <1>5
  <2>2. << >> \in Seq(T) /\ Len(<< >>) = 0 /\ (sent \o buf) \o << >> = sent \o buf BY <2>1, ConcatEmptySeq
  <2>3. Len(sent) \in Nat /\ Len(out) \in Nat BY <1>3
  <2>4. Len(sent') + Len(out') = Len(sent) + Len(out) + 1 BY <1>5, <1>7, <2>1, <2>2, <2>3
  <2>5. sent' \o out' = Append(sent \o out, x) BY <1>6, <1>7, <2>2
  <2> QED BY <1>7, <2>1, <2>2, <2>4, <2>5 DEF x, T
<1>8. CASE sent' = sent /\ out' = buf
  <2>1. Len(sent) \in Nat /\ Len(out) \in Nat BY <1>3
  <2>2. Len(sent') + Len(out') = Len(sent) + Len(out) + 1 BY <1>5, <1>8, <2>1
  <2> QED BY <1>3, <1>5, <1>6, <1>8, <2>2 DEF x, T
<1> QED BY <1>4, <1>7, <1>8

\* A message goes out when it is full.
LEMMA SendStep == ASSUME RequestInv, Send PROVE RequestInv'
<1>1. SessionTypes /\ ControlInv /\ Answered /\ Grouped BY DEF RequestInv
<1>2. /\ dpc = "send" /\ start < end /\ start' = start + 1
      /\ UNCHANGED <<dpc, entries, names, ids, end, containerArray, fetched, asked, requests, races>>
  BY DEF Send, batchVars, countVars
<1>3. /\ start \in Nat /\ end \in Nat /\ Len(entries) \in Nat /\ Len(sent) \in Nat /\ Len(out) \in Nat
      /\ start \in 1 .. Len(entries)
  BY <1>1, <1>2, RequestTypes DEF Answered
<1>4. /\ sent' \in Seq(Chunk \union {None}) /\ out' \in Seq(Chunk \union {None})
      /\ Len(sent') + Len(out') = Len(sent) + Len(out) + 1
  BY <1>1, <1>3, SendFacts
<1>5. SessionTypes' BY <1>1, <1>2, <1>3, <1>4 DEF SessionTypes
<1>6. ControlInv' BY <1>1, <1>2 DEF ControlInv
<1>7. Answered' BY <1>1, <1>2, <1>3, <1>4 DEF Answered
<1>8. Grouped'
  <2>1. \A e \in start + 1 .. end - 1 : e \in start .. end - 1 BY <1>3
  <2> QED BY <1>1, <1>2, <2>1 DEF Grouped
<1> QED BY <1>5, <1>6, <1>7, <1>8 DEF RequestInv

\* What the end of a group does to the messages: nothing, or the last one goes out.
LEMMA EndGroupFacts ==
    ASSUME SessionTypes, EndGroup
    PROVE  /\ sent' \in Seq(Chunk \union {None}) /\ out' \in Seq(Chunk \union {None})
           /\ Len(sent') + Len(out') = Len(sent) + Len(out)
           /\ sent' \o out' = sent \o out
           /\ LastGroup => out' = << >>
<1> DEFINE T == Chunk \union {None}
<1>1. sent \in Seq(T) /\ out \in Seq(T) BY DEF SessionTypes
<1>2. IF LastGroup /\ out # << >> THEN sent' = sent \o out /\ out' = << >> ELSE sent' = sent /\ out' = out
  BY DEF EndGroup, sendVars
<1> HIDE DEF T
<1>3. CASE LastGroup /\ out # << >>
  <2>1. sent \o out \in Seq(T) /\ Len(sent \o out) = Len(sent) + Len(out) BY <1>1
  <2>2. << >> \in Seq(T) /\ Len(<< >>) = 0 /\ (sent \o out) \o << >> = sent \o out BY <2>1, ConcatEmptySeq
  <2>3. Len(sent) \in Nat /\ Len(out) \in Nat BY <1>1
  <2>4. Len(sent') + Len(out') = Len(sent) + Len(out) BY <1>2, <1>3, <2>1, <2>2, <2>3
  <2> QED BY <1>2, <1>3, <2>1, <2>2, <2>4 DEF T
<1>4. CASE ~ (LastGroup /\ out # << >>)
  BY <1>1, <1>2, <1>4 DEF T
<1> QED BY <1>3, <1>4

\* The group is empty again.
LEMMA EndGroupStep == ASSUME RequestInv, EndGroup PROVE RequestInv'
<1>1. SessionTypes /\ ControlInv /\ Answered BY DEF RequestInv
<1>2. /\ dpc = "send" /\ start = end /\ ids' = << >> /\ dpc' = (IF LastGroup THEN "tail" ELSE "collect")
      /\ UNCHANGED <<entries, names, start, end, containerArray, fetched, asked, requests, races>>
  BY DEF EndGroup, batchVars, countVars
<1>3. /\ start \in Nat /\ end \in Nat /\ Len(entries) \in Nat /\ CONTAINER_CAPPING_VALUE \in Nat
      /\ CONTAINER_CAPPING_VALUE # 0
  BY <1>1, RequestTypes
<1>4. /\ sent' \in Seq(Chunk \union {None}) /\ out' \in Seq(Chunk \union {None})
      /\ Len(sent') + Len(out') = Len(sent) + Len(out) /\ (LastGroup => out' = << >>)
  BY <1>1, EndGroupFacts
<1>5. Len(ids') = 0 /\ << >> \in Seq(Place) BY <1>2
<1>6. SessionTypes' BY <1>1, <1>2, <1>3, <1>4, <1>5 DEF SessionTypes
<1>7. ControlInv'
  <2>1. CASE LastGroup
    <3>1. start = Len(entries) + 1 BY <1>1, <1>2, <1>3, <2>1 DEF LastGroup, Answered
    <3> QED BY <1>2, <1>4, <2>1, <3>1 DEF ControlInv
  <2>2. CASE ~ LastGroup
    <3>1. end <= Len(entries) BY <1>3, <2>2 DEF LastGroup
    <3> QED BY <1>1, <1>2, <1>3, <1>5, <2>2, <3>1 DEF ControlInv
  <2> QED BY <2>1, <2>2
<1>8. Answered' BY <1>1, <1>2, <1>4 DEF Answered
<1>9. Grouped'
  <2>1. \A e \in start .. end - 1 : FALSE BY <1>2, <1>3
  <2> QED BY <1>2, <2>1 DEF Grouped
<1> QED BY <1>6, <1>7, <1>8, <1>9 DEF RequestInv

\* Every step keeps the course of a request.
LEMMA RequestStep == ASSUME RequestInv, StoreInv, CacheInv, [Next]_vars PROVE RequestInv'
  BY MoveStep, EndStep, RecvBatchStep, LookupStep, CollectStep, FetchStep, SendStep, EndGroupStep
     DEF Next, Decoder

-----------------------------------------------------------------------------
(* The answers                                                             *)

Gone == {"exit", "hungup"}

\* What the entries of a request for durable chunks become on their way: names, the
\* containers of the group, their content.
EntriesInv == \A i \in 1 .. Len(entries) : Durable(entries[i])
NamesInv ==
    dpc \in {"lookup", "collect", "fetch", "send"} =>
        \A i \in 1 .. Len(names) : names[i] = known[entries[i]]
IdsInv ==
    dpc \in {"collect", "fetch", "send"} =>
        \A i \in 1 .. Len(ids) : \E e \in 1 .. Len(entries) : ids[i] = known[entries[e]]
ArrayInv == dpc \in {"fetch", "send"} => \A i \in 1 .. fetched : containerArray[i] = ids[i]

Distinct == \A i, j \in 1 .. Len(ids) : i # j => ids[i] # ids[j]

RestoreInv ==
    /\ dpc # "exit" /\ Faithful /\ Distinct
    /\ requests = 0 => entries = << >>
    /\ requests > 0 => Unambiguous
    /\ dpc \notin Gone => EntriesInv /\ NamesInv /\ IdsInv /\ ArrayInv
    /\ sent \o out = SubSeq(entries, 1, start - 1)

\* Chunks that are durable keep their places.
LEMMA EntriesKept ==
    ASSUME SessionTypes, Grows, EntriesInv
    PROVE  \A i \in 1 .. Len(entries) : /\ known'[entries[i]] = known[entries[i]] /\ known[entries[i]] # None
                                        /\ <<entries[i], known[entries[i]]>> \in durable'
<1> SUFFICES ASSUME NEW i \in 1 .. Len(entries)
             PROVE  /\ known'[entries[i]] = known[entries[i]] /\ known[entries[i]] # None
                    /\ <<entries[i], known[entries[i]]>> \in durable'
  OBVIOUS
<1>1. entries[i] \in Chunk BY RequestTypes
<1>2. known[entries[i]] # None /\ <<entries[i], known[entries[i]]>> \in durable
  BY DEF EntriesInv, Durable
<1> QED BY <1>1, <1>2 DEF Grows

\* The containers of a group are complete.
LEMMA IdsSealed ==
    ASSUME RequestInv, StoreInv, RestoreInv, dpc \in {"collect", "fetch", "send"}, NEW i \in 1 .. Len(ids)
    PROVE  ids[i] \in ContainerID /\ ids[i] # None /\ Uploads!Sealed(ids[i]) /\ ids[i] \notin opened
<1>1. PICK e \in 1 .. Len(entries) : ids[i] = known[entries[e]] BY DEF RestoreInv, IdsInv, Gone
<1>2. entries[e] \in Chunk BY RequestTypes DEF RequestInv
<1>3. ids[i] # None /\ <<entries[e], ids[i]>> \in durable BY <1>1 DEF RestoreInv, EntriesInv, Durable, Gone
<1>4. Uploads!Sealed(ids[i]) BY <1>2, <1>3 DEF Uploads!Sealed
<1>5. ids[i] \in ContainerID BY <1>3 DEF StoreInv
<1> QED BY <1>3, <1>4, <1>5 DEF StoreInv

\* The chunk of an entry comes from the container the index names for it, and from no
\* other of the group.
LEMMA Recovers ==
    ASSUME RequestInv, StoreInv, RestoreInv, dpc = "send", start < end
    PROVE  /\ start \in 1 .. Len(entries) /\ RecoverOneChunk(start) = entries[start]
           /\ RestoreIndex(entries[start]) # None
<1> DEFINE c == entries[start]
           k == known[c]
           has == {i \in 1 .. Len(ids) : c \in Header(containerArray[i])}
<1>1. SessionTypes /\ ControlInv /\ Answered /\ Grouped BY DEF RequestInv
<1>2. EntriesInv /\ NamesInv /\ IdsInv /\ ArrayInv BY DEF RestoreInv, Gone
<1>3. /\ start \in Nat /\ end \in Nat /\ Len(entries) \in Nat /\ Len(names) = Len(entries) /\ fetched = Len(ids)
      /\ start \in 1 .. Len(entries) /\ start \in start .. end - 1
  BY <1>1, RequestTypes DEF Answered, ControlInv
<1>4. c \in Chunk BY <1>1, <1>3, RequestTypes
<1>5. k # None /\ <<c, k>> \in durable BY <1>2, <1>3 DEF EntriesInv, Durable
<1>6. names[start] = k BY <1>2, <1>3 DEF NamesInv
<1>7. PICK n \in 1 .. Len(ids) : ids[n] = k BY <1>1, <1>3, <1>6 DEF Grouped
<1>8. \A i \in 1 .. Len(ids) : containerArray[i] = ids[i] BY <1>2, <1>3 DEF ArrayInv
<1>9. Unambiguous
  <2>1. entries # << >> BY <1>3
  <2>2. requests > 0 BY <1>1, <2>1 DEF RestoreInv, SessionTypes
  <2> QED BY <2>2 DEF RestoreInv
<1> HIDE DEF c, k
<1>10. ASSUME NEW i \in 1 .. Len(ids), <<c, ids[i]>> \in durable PROVE ids[i] = k
  <2>1. PICK e \in 1 .. Len(entries) : ids[i] = known[entries[e]] BY <1>2 DEF IdsInv
  <2>2. entries[e] \in Chunk BY <1>1, RequestTypes
  <2>3. known[<<c, ids[i]>>[1]] = <<c, ids[i]>>[2]
    <3>1. known[entries[e]] = <<c, ids[i]>>[2] BY <2>1
    <3> QED BY <1>9, <1>10, <2>2, <3>1 DEF Unambiguous
  <2>4. known[c] = ids[i] BY <2>3
  <2> QED BY <2>4 DEF k
<1>11. \A i \in 1 .. Len(ids) : c \in Header(containerArray[i]) <=> <<c, ids[i]>> \in durable
  BY <1>4, <1>8 DEF Header
<1>12. n \in has /\ \A i \in has : i \in 1 .. Len(ids) /\ containerArray[i] = k
  BY <1>5, <1>7, <1>8, <1>10, <1>11
<1>13. \A i \in has : i \in Int BY <1>12
<1>14. RestoreIndex(c) = k
  <2>1. has # {} BY <1>12
  <2>2. RestoreIndex(c) = containerArray[CHOOSE i \in has : \A j \in has : i >= j]
    BY <2>1 DEF RestoreIndex
  <2>3. \E i \in has : \A j \in has : i >= j
    <3>1. \A i \in has : i = n BY <1>7, <1>10, <1>11 DEF RestoreInv, Distinct
    <3> HIDE DEF has
    <3>2. n >= n OBVIOUS
    <3> QED BY <1>12, <3>1, <3>2
  <2>4. (CHOOSE i \in has : \A j \in has : i >= j) \in has BY <2>3
  <2> QED BY <1>12, <2>2, <2>4
<1>15. containerArray[ContainerIndex(names[start])] = k
  <2>1. ContainerIndex(k) \in 1 .. Len(ids) /\ ids[ContainerIndex(k)] = k BY <1>7 DEF ContainerIndex
  <2> QED BY <1>6, <1>8, <2>1
<1>16. RecoverOneChunk(start) = c
  BY <1>5, <1>14, <1>15 DEF RecoverOneChunk, c
<1> QED BY <1>3, <1>5, <1>14, <1>16 DEF c

\* While nothing of the request changes, the store may grow.
LEMMA RestoreKept ==
    ASSUME RequestInv, RestoreInv, Grows, Faithful',
           UNCHANGED <<dpc, entries, names, ids, start, end, containerArray, fetched, out, sent, requests>>
    PROVE  RestoreInv'
<1>1. dpc \notin Gone => EntriesInv' /\ NamesInv' /\ IdsInv' /\ ArrayInv'
  <2> SUFFICES ASSUME dpc \notin Gone PROVE EntriesInv' /\ NamesInv' /\ IdsInv' /\ ArrayInv' OBVIOUS
  <2>1. EntriesInv /\ NamesInv /\ IdsInv /\ ArrayInv BY DEF RestoreInv
  <2>2. \A i \in 1 .. Len(entries) : /\ known'[entries[i]] = known[entries[i]] /\ known[entries[i]] # None
                                     /\ <<entries[i], known[entries[i]]>> \in durable'
    BY <2>1, EntriesKept DEF RequestInv
  <2>3. EntriesInv' BY <2>2 DEF EntriesInv, Durable
  <2>4. NamesInv'
    <3>1. dpc \in {"lookup", "collect", "fetch", "send"} => \A i \in 1 .. Len(names) : i \in 1 .. Len(entries)
      BY RequestTypes DEF RequestInv, ControlInv
    <3> QED BY <2>1, <2>2, <3>1 DEF NamesInv
  <2>5. IdsInv'
    <3> SUFFICES ASSUME dpc \in {"collect", "fetch", "send"}, NEW i \in 1 .. Len(ids)
                 PROVE  \E e \in 1 .. Len(entries) : ids[i] = known'[entries[e]]
      BY DEF IdsInv
    <3>1. PICK e \in 1 .. Len(entries) : ids[i] = known[entries[e]] BY <2>1 DEF IdsInv
    <3> QED BY <2>2, <3>1
  <2>6. ArrayInv' BY <2>1 DEF ArrayInv
  <2> QED BY <2>3, <2>4, <2>5, <2>6
<1>2. requests' > 0 => Unambiguous' BY DEF RestoreInv, Grows
<1>3. sent' \o out' = SubSeq(entries', 1, start' - 1) BY DEF RestoreInv
<1>4. Distinct' BY DEF RestoreInv, Distinct
<1> QED BY <1>1, <1>2, <1>3, <1>4 DEF RestoreInv

\* Steps between two requests, and the uploads.
LEMMA RestoreMoves ==
    ASSUME RequestInv, StoreInv, RestoreInv, Faithful', [Next]_vars,
           Store \/ Login \/ Ready \/ Close \/ ProcessRecipeTailBatch \/ UNCHANGED vars
    PROVE  RestoreInv'
<1>1. UNCHANGED <<entries, names, ids, start, end, containerArray, fetched, out, sent, requests>>
  BY DEF Store, Login, Ready, Close, ProcessRecipeTailBatch, vars, sessionVars, batchVars, groupVars,
     sendVars, countVars
<1>2. CASE dpc = "off"
  <2>1. requests = 0 /\ entries = << >> BY <1>2 DEF RequestInv, ControlInv, RestoreInv
  <2>2. dpc' \in {"off", "ready"}
    BY <1>2 DEF Store, Login, Ready, Close, ProcessRecipeTailBatch, vars, sessionVars
  <2>3. Len(entries') = 0 BY <1>1, <2>1
  <2>4. EntriesInv' BY <2>3 DEF EntriesInv
  <2>5. NamesInv' /\ IdsInv' /\ ArrayInv' BY <2>2 DEF NamesInv, IdsInv, ArrayInv
  <2>6. Distinct' BY <1>1 DEF RestoreInv, Distinct
  <2>7. requests' = 0 /\ entries' = << >> BY <1>1, <2>1
  <2>8. ~ (requests' > 0) BY <2>7
  <2>9. sent' \o out' = SubSeq(entries', 1, start' - 1) BY <1>1 DEF RestoreInv
  <2>10. dpc' # "exit" BY <2>2
  <2> QED BY <2>4, <2>5, <2>6, <2>7, <2>8, <2>9, <2>10 DEF RestoreInv
<1>3. CASE dpc # "off"
  <2>1. \/ dpc' = dpc
        \/ /\ dpc \in {"ready", "recv", "tail"} /\ dpc' \in {"recv", "end"} /\ UNCHANGED storeVars
    BY <1>3 DEF Store, Login, Ready, Close, ProcessRecipeTailBatch, vars, sessionVars
  <2>2. CASE dpc' = dpc
    <3>1. Grows
      <4>1. CASE Store
        BY <1>3, <4>1, StorePlaces, StoreSeals DEF Store
      <4>2. CASE UNCHANGED storeVars BY <4>2, StoreUnchanged
      <4> QED BY <4>1, <4>2 DEF Login, Ready, Close, ProcessRecipeTailBatch, vars
    <3> QED BY <1>1, <2>2, <3>1, RestoreKept
  <2>3. CASE dpc \in {"ready", "recv", "tail"} /\ dpc' \in {"recv", "end"} /\ UNCHANGED storeVars
    <3>1. UNCHANGED <<known, durable>> BY <2>3 DEF storeVars
    <3>2. EntriesInv' BY <1>1, <2>3, <3>1 DEF RestoreInv, EntriesInv, Durable, Gone
    <3>3. NamesInv' /\ IdsInv' /\ ArrayInv' BY <2>3 DEF NamesInv, IdsInv, ArrayInv
    <3>4. Distinct' BY <1>1 DEF RestoreInv, Distinct
    <3>5. requests' > 0 => Unambiguous' BY <1>1, <3>1 DEF RestoreInv, Unambiguous
    <3> QED BY <1>1, <2>3, <3>2, <3>3, <3>4, <3>5 DEF RestoreInv
  <2> QED BY <2>1, <2>2, <2>3
<1> QED BY <1>2, <1>3

\* The server does not end, unless the edge hangs up.
LEMMA RestoreEnds ==
    ASSUME RequestInv, StoreInv, RestoreInv, Faithful', HangUp \/ FetchMissing \/ SendNotFound
    PROVE  RestoreInv'
<1>1. ~ FetchMissing
  <2> SUFFICES ASSUME FetchMissing PROVE FALSE OBVIOUS
  <2>1. dpc = "fetch" /\ fetched < Len(ids) /\ ~ Uploads!Sealed(ids[fetched + 1])
    BY DEF FetchMissing, Fetching
  <2>2. fetched + 1 \in 1 .. Len(ids) BY <2>1, RequestTypes DEF RequestInv
  <2> QED BY <2>1, <2>2, IdsSealed
<1>2. ~ SendNotFound
  BY Recovers DEF SendNotFound
<1>3. Exit("hungup") BY <1>1, <1>2 DEF HangUp
<1>4. dpc' = "hungup" /\ UNCHANGED <<entries, ids, start, out, sent, requests>>
  BY <1>3 DEF Exit, batchVars, groupVars, sendVars, countVars
<1>5. Unambiguous' BY <1>3, StoreExit
<1>6. Distinct' BY <1>4 DEF RestoreInv, Distinct
<1> QED BY <1>4, <1>5, <1>6 DEF RestoreInv, Gone

\* An arriving request leaves nothing of the one before it.
LEMMA RestoreRecv ==
    ASSUME RequestInv, RestoreInv, Faithful', Undisturbed', RecvBatch
    PROVE  RestoreInv'
<1>1. PICK b \in Batch :
         /\ entries' = b /\ dpc' = (IF b = << >> THEN "tail" ELSE "lookup")
         /\ asked' = Weaker(asked, Standing(b))
  BY DEF RecvBatch
<1>2. /\ names' = << >> /\ start' = 1 /\ out' = << >> /\ sent' = << >> /\ requests' = requests + 1
      /\ UNCHANGED <<ids, known, durable>>
  BY DEF RecvBatch, storeVars
<1>3. b \in Seq(Chunk) /\ DOMAIN b = 1 .. Len(b) BY RestoreAssumption
<1>4. Standing(b) = "durable"
  <2>1. Standing(b) \in {"nothing", "known", "durable"} BY DEF Standing
  <2>2. Weaker(asked, Standing(b)) = "durable" BY <1>1 DEF Undisturbed
  <2>3. Standing(b) # "nothing" /\ Standing(b) # "known" BY <2>2 DEF Weaker
  <2> QED BY <2>1, <2>3
<1>5. Unambiguous /\ \A i \in DOMAIN b : Durable(b[i]) BY <1>4 DEF Standing
<1>6. EntriesInv' BY <1>1, <1>2, <1>3, <1>5 DEF EntriesInv, Durable
<1>7. Len(names') = 0 BY <1>2
<1>8. NamesInv' BY <1>7 DEF NamesInv
<1>9. IdsInv' /\ ArrayInv' BY <1>1 DEF IdsInv, ArrayInv
<1>10. Unambiguous' BY <1>2, <1>5 DEF Unambiguous
<1>11. requests' # 0 BY <1>2 DEF RequestInv, SessionTypes
<1>12. sent' \o out' = SubSeq(entries', 1, start' - 1)
  <2>1. SubSeq(b, 1, 0) = << >> BY <1>3
  <2>2. << >> \o << >> = << >> OBVIOUS
  <2> QED BY <1>1, <1>2, <2>1, <2>2
<1>13. Distinct' BY <1>2 DEF RestoreInv, Distinct
<1>14. dpc' # "exit" BY <1>1
<1> QED BY <1>6, <1>8, <1>9, <1>10, <1>11, <1>12, <1>13, <1>14 DEF RestoreInv

\* The entry found names a complete file that has the chunk.
LEMMA RestoreLookup ==
    ASSUME RequestInv, StoreInv, RestoreInv, Faithful', Undisturbed', Lookup \/ LookupRacing
    PROVE  RestoreInv'
<1>1. Lookup
  <2>1. races \in Nat BY DEF RequestInv, SessionTypes
  <2>2. LookupRacing => races' = races + 1 BY DEF LookupRacing
  <2> QED BY <2>1, <2>2 DEF Undisturbed
<1>2. dpc = "lookup" /\ Len(names) < Len(entries) BY <1>1 DEF Lookup, RequestInv, ControlInv
<1>3. EntriesInv /\ NamesInv BY <1>2 DEF RestoreInv, Gone
<1>4. /\ Len(entries) \in Nat /\ Len(names) \in Nat /\ names \in Seq(Place)
      /\ Len(names) + 1 \in 1 .. Len(entries)
  BY <1>2, RequestTypes DEF RequestInv, SessionTypes
<1>5. known[LookupKey] # None BY <1>3, <1>4 DEF EntriesInv, Durable, LookupKey
<1>6. /\ names' = Append(names, known[LookupKey]) /\ dpc' \in {"collect", "lookup"}
      /\ UNCHANGED <<known, durable, entries, ids, start, out, sent, requests>>
  BY <1>1, <1>5 DEF Lookup, Found, storeVars, groupVars, sendVars
<1>7. known[LookupKey] \in Place
  <2>1. LookupKey \in Chunk BY <1>4, RequestTypes DEF LookupKey, RequestInv
  <2> QED BY <2>1 DEF StoreInv
<1>8. /\ Len(names') = Len(names) + 1 /\ names'[Len(names) + 1] = known[LookupKey]
      /\ \A i \in 1 .. Len(names) : names'[i] = names[i]
  BY <1>4, <1>6, <1>7
<1>9. EntriesInv' BY <1>3, <1>6 DEF EntriesInv, Durable
<1>10. NamesInv'
  <2> SUFFICES ASSUME NEW i \in 1 .. Len(names') PROVE names'[i] = known[entries[i]]
    BY <1>6 DEF NamesInv
  <2>1. CASE i \in 1 .. Len(names) BY <1>2, <1>3, <1>8, <2>1 DEF NamesInv
  <2>2. CASE i = Len(names) + 1 BY <1>8, <2>2 DEF LookupKey
  <2> QED BY <1>4, <1>8, <2>1, <2>2
<1>11. IdsInv' /\ ArrayInv'
  <2>1. ids = << >> BY <1>2 DEF RequestInv, ControlInv
  <2>2. Len(ids') = 0 BY <1>6, <2>1
  <2> QED BY <1>6, <2>2 DEF IdsInv, ArrayInv
<1>12. requests' > 0 => Unambiguous' BY <1>6 DEF RestoreInv, Unambiguous
<1>13. Distinct' BY <1>6 DEF RestoreInv, Distinct
<1> QED BY <1>6, <1>9, <1>10, <1>11, <1>12, <1>13 DEF RestoreInv

\* The group stays in the order of the request.
LEMMA RestoreCollect ==
    ASSUME RequestInv, RestoreInv, Faithful', Collect
    PROVE  RestoreInv'
<1>1. /\ dpc = "collect" /\ fetched' = 0
      /\ ids' = (IF names[end] \in ToSet(ids) THEN ids ELSE Append(ids, names[end]))
      /\ dpc' \in {"fetch", "collect"}
      /\ UNCHANGED <<known, durable, entries, names, start, out, sent, requests>>
  BY DEF Collect, storeVars, batchVars, sendVars, countVars
<1>2. SessionTypes /\ ControlInv /\ Answered BY DEF RequestInv
<1>3. EntriesInv /\ NamesInv /\ IdsInv /\ Distinct BY <1>1 DEF RestoreInv, Gone
<1>4. /\ Len(entries) \in Nat /\ Len(names) = Len(entries) /\ end \in 1 .. Len(entries) /\ Len(ids) \in Nat
      /\ ids \in Seq(Place)
  BY <1>1, <1>2, RequestTypes DEF ControlInv, Answered, SessionTypes
<1>5. names[end] = known[entries[end]] /\ names[end] \in Place
  BY <1>1, <1>2, <1>3, <1>4, RequestTypes DEF NamesInv
<1>6. EntriesInv' BY <1>1, <1>3 DEF EntriesInv, Durable
<1>7. NamesInv' BY <1>1, <1>3 DEF NamesInv
<1>8. ArrayInv' BY <1>1 DEF ArrayInv
<1>9. IdsInv' /\ Distinct'
  <2>1. CASE names[end] \in ToSet(ids)
    <3>1. ids' = ids BY <1>1, <2>1
    <3> QED BY <1>1, <1>3, <3>1 DEF IdsInv, Distinct
  <2>2. CASE names[end] \notin ToSet(ids)
    <3>1. /\ Len(ids') = Len(ids) + 1 /\ ids'[Len(ids) + 1] = names[end]
          /\ \A i \in 1 .. Len(ids) : ids'[i] = ids[i]
      BY <1>1, <1>4, <1>5, <2>2
    <3>2. \A i \in 1 .. Len(ids) : ids[i] # names[end] BY <1>4, <2>2 DEF ToSet
    <3>3. \A i \in 1 .. Len(ids') : i \in 1 .. Len(ids) \/ i = Len(ids) + 1 BY <1>4, <3>1
    <3>4. Distinct' BY <1>3, <3>1, <3>2, <3>3 DEF Distinct
    <3>5. ASSUME NEW i \in 1 .. Len(ids') PROVE \E e \in 1 .. Len(entries) : ids'[i] = known[entries[e]]
      <4>1. CASE i \in 1 .. Len(ids) BY <1>1, <1>3, <3>1, <4>1 DEF IdsInv
      <4>2. CASE i = Len(ids) + 1 BY <1>4, <1>5, <3>1, <4>2
      <4> QED BY <3>3, <4>1, <4>2
    <3>6. IdsInv' BY <1>1, <3>5 DEF IdsInv
    <3> QED BY <3>4, <3>6
  <2> QED BY <2>1, <2>2
<1>10. requests' > 0 => Unambiguous' BY <1>1 DEF RestoreInv, Unambiguous
<1> QED BY <1>1, <1>6, <1>7, <1>8, <1>9, <1>10 DEF RestoreInv

\* A container comes from its file or, unchanged, from the cache.
LEMMA RestoreFetch ==
    ASSUME RequestInv, StoreInv, CacheInv, RestoreInv, Faithful', FetchCached \/ FetchFile
    PROVE  RestoreInv'
<1> DEFINE name == ids[fetched + 1]
<1>1. dpc = "fetch" /\ fetched < Len(ids) /\ fetched + 1 \in 1 .. Len(ids) /\ fetched + 1 \in Array
  BY FetchFacts
<1>2. Fetched(name)
  <2>1. CASE FetchCached
    <3>1. ExistsInCache(name) /\ Fetched(Cached(name)) BY <2>1 DEF FetchCached
    <3>2. Cached(name) = name BY <3>1, CachedFacts DEF RestoreInv
    <3> QED BY <3>1, <3>2
  <2>2. CASE FetchFile BY <2>2 DEF FetchFile
  <2> QED BY <2>1, <2>2
<1>3. /\ containerArray' = [containerArray EXCEPT ![fetched + 1] = name]
      /\ fetched' = fetched + 1 /\ dpc' \in {"send", "fetch"}
      /\ UNCHANGED <<known, durable, entries, names, ids, start, out, sent, requests>>
  BY <1>2 DEF Fetched, storeVars, batchVars, sendVars, countVars
<1>4. EntriesInv /\ NamesInv /\ IdsInv /\ ArrayInv /\ Distinct BY <1>1 DEF RestoreInv, Gone
<1>5. EntriesInv' BY <1>3, <1>4 DEF EntriesInv, Durable
<1>6. NamesInv' BY <1>1, <1>3, <1>4 DEF NamesInv
<1>7. IdsInv' BY <1>1, <1>3, <1>4 DEF IdsInv
<1>8. ArrayInv'
  <2> SUFFICES ASSUME NEW i \in 1 .. fetched + 1 PROVE containerArray'[i] = ids[i]
    BY <1>3 DEF ArrayInv
  <2>1. fetched \in Nat /\ Len(ids) \in Nat /\ CONTAINER_CAPPING_VALUE \in Nat
    BY RequestTypes DEF RequestInv
  <2>2. i \in Array BY <1>1, <2>1 DEF Array
  <2>3. containerArray'[i] = IF i = fetched + 1 THEN name ELSE containerArray[i]
    BY <1>1, <1>3, <2>2 DEF RequestInv, SessionTypes
  <2>4. CASE i = fetched + 1 BY <2>3, <2>4
  <2>5. CASE i # fetched + 1
    <3>1. i \in 1 .. fetched BY <2>1, <2>5
    <3> QED BY <1>1, <1>4, <2>3, <2>5, <3>1 DEF ArrayInv
  <2> QED BY <2>4, <2>5
<1>9. Distinct' BY <1>3, <1>4 DEF Distinct
<1>10. requests' > 0 => Unambiguous' BY <1>3 DEF RestoreInv, Unambiguous
<1>11. sent' \o out' = SubSeq(entries', 1, start' - 1) BY <1>3 DEF RestoreInv
<1>12. requests' = 0 => entries' = << >> BY <1>3 DEF RestoreInv
<1>13. dpc' # "exit" BY <1>3
<1> QED BY <1>5, <1>6, <1>7, <1>8, <1>9, <1>10, <1>11, <1>12, <1>13 DEF RestoreInv

\* The next chunk goes out.
LEMMA RestoreSend ==
    ASSUME RequestInv, StoreInv, RestoreInv, Faithful', Send
    PROVE  RestoreInv'
<1>1. /\ dpc = "send" /\ start < end /\ start' = start + 1
      /\ UNCHANGED <<dpc, known, durable, entries, names, ids, containerArray, fetched, requests>>
  BY DEF Send, storeVars, batchVars, countVars
<1>2. SessionTypes /\ start \in 1 .. Len(entries) /\ RecoverOneChunk(start) = entries[start]
  BY <1>1, Recovers DEF RequestInv
<1>3. sent' \o out' = Append(sent \o out, entries[start]) BY <1>2, SendFacts
<1>4. sent' \o out' = SubSeq(entries', 1, start' - 1)
  <2>1. entries \in Seq(Chunk) /\ start \in Nat /\ Len(entries) \in Nat BY <1>2, RequestTypes DEF SessionTypes
  <2>2. (start + 1) - 1 = start BY <2>1
  <2>3. Append(SubSeq(entries, 1, start - 1), entries[start]) = SubSeq(entries, 1, start)
    <3> DEFINE u == SubSeq(entries, 1, start - 1)
               w == SubSeq(entries, 1, start)
               v == Append(u, entries[start])
    <3>1. u \in Seq(Chunk) /\ Len(u) = start - 1 /\ \A i \in 1 .. start - 1 : u[i] = entries[i]
      BY <1>2, <2>1
    <3>2. w \in Seq(Chunk) /\ Len(w) = start /\ \A i \in 1 .. start : w[i] = entries[i] BY <1>2, <2>1
    <3>3. entries[start] \in Chunk BY <1>2, <2>1
    <3> HIDE DEF u, w
    <3>4. v \in Seq(Chunk) /\ Len(v) = (start - 1) + 1 /\ v[(start - 1) + 1] = entries[start]
          /\ \A i \in 1 .. start - 1 : v[i] = u[i]
      BY <3>1, <3>3
    <3>5. (start - 1) + 1 = start BY <2>1
    <3> HIDE DEF v
    <3>6. \A i \in 1 .. start : v[i] = w[i]
      <4> SUFFICES ASSUME NEW i \in 1 .. start PROVE v[i] = w[i] OBVIOUS
      <4>1. CASE i = start BY <1>2, <2>1, <3>2, <3>4, <3>5, <4>1
      <4>2. CASE i # start
        <5>1. i \in 1 .. start - 1 BY <2>1, <4>2
        <5> QED BY <3>1, <3>2, <3>4, <5>1
      <4> QED BY <4>1, <4>2
    <3>7. v = w BY <3>2, <3>4, <3>5, <3>6, SeqEqual
    <3> QED BY <3>7 DEF v, u, w
  <2>4. sent \o out = SubSeq(entries, 1, start - 1) BY DEF RestoreInv
  <2> QED BY <1>1, <1>3, <2>2, <2>3, <2>4
<1>5. EntriesInv /\ NamesInv /\ IdsInv /\ ArrayInv /\ Distinct BY <1>1 DEF RestoreInv, Gone
<1>6. EntriesInv' BY <1>1, <1>5 DEF EntriesInv, Durable
<1>7. NamesInv' /\ IdsInv' /\ ArrayInv' /\ Distinct' BY <1>1, <1>5 DEF NamesInv, IdsInv, ArrayInv, Distinct
<1>8. requests' > 0 => Unambiguous' BY <1>1 DEF RestoreInv, Unambiguous
<1>9. requests' = 0 => entries' = << >> BY <1>1 DEF RestoreInv
<1>10. dpc' # "exit" BY <1>1
<1> QED BY <1>4, <1>6, <1>7, <1>8, <1>9, <1>10 DEF RestoreInv

\* The next group starts without containers.
LEMMA RestoreEndGroup ==
    ASSUME RequestInv, RestoreInv, Faithful', EndGroup
    PROVE  RestoreInv'
<1>1. /\ dpc = "send" /\ ids' = << >> /\ dpc' \in {"tail", "collect"}
      /\ UNCHANGED <<known, durable, entries, names, start, requests>>
  BY DEF EndGroup, storeVars, batchVars, countVars
<1>2. sent' \o out' = sent \o out BY EndGroupFacts DEF RequestInv
<1>3. sent' \o out' = SubSeq(entries', 1, start' - 1) BY <1>1, <1>2 DEF RestoreInv
<1>4. EntriesInv /\ NamesInv BY <1>1 DEF RestoreInv, Gone
<1>5. EntriesInv' BY <1>1, <1>4 DEF EntriesInv, Durable
<1>6. NamesInv' BY <1>1, <1>4 DEF NamesInv
<1>7. Len(ids') = 0 BY <1>1
<1>8. IdsInv' /\ ArrayInv' /\ Distinct' BY <1>1, <1>7 DEF IdsInv, ArrayInv, Distinct
<1>9. requests' > 0 => Unambiguous' BY <1>1 DEF RestoreInv, Unambiguous
<1>10. requests' = 0 => entries' = << >> BY <1>1 DEF RestoreInv
<1>11. dpc' # "exit" BY <1>1
<1> QED BY <1>3, <1>5, <1>6, <1>8, <1>9, <1>10, <1>11 DEF RestoreInv

\* Once disturbed, a session stays disturbed.
LEMMA StaysDisturbed == ASSUME RequestInv, [Next]_vars, Undisturbed' PROVE Undisturbed
<1>1. races \in Nat /\ asked \in {"nothing", "known", "durable"} BY DEF RequestInv, SessionTypes
<1>2. CASE RecvBatch
  <2>1. PICK b \in Batch : asked' = Weaker(asked, Standing(b)) BY <1>2 DEF RecvBatch
  <2>2. Weaker(asked, Standing(b)) = "durable" /\ races' = 0 BY <2>1 DEF Undisturbed
  <2>3. asked # "nothing" /\ asked # "known" BY <2>2 DEF Weaker
  <2>4. races' = races BY <1>2 DEF RecvBatch
  <2> QED BY <1>1, <2>2, <2>3, <2>4 DEF Undisturbed
<1>3. CASE LookupRacing
  <2>1. races' = races + 1 BY <1>3 DEF LookupRacing
  <2> QED BY <1>1, <2>1 DEF Undisturbed
<1>4. CASE UNCHANGED <<asked, races>> BY <1>4 DEF Undisturbed
<1>5. CASE Store \/ Login \/ Ready \/ Close \/ HangUp \/ FetchMissing \/ SendNotFound \/ UNCHANGED vars
  BY <1>4, <1>5 DEF Store, vars, sessionVars, countVars, Login, Ready, Close, HangUp, FetchMissing,
     SendNotFound, Exit
<1>6. CASE Lookup \/ Collect \/ FetchCached \/ FetchFile \/ FetchPartial
  BY <1>4, <1>6 DEF Lookup, Found, Collect, FetchCached, FetchFile, FetchPartial, Fetched, countVars
<1>7. CASE Send \/ EndGroup \/ ProcessRecipeTailBatch
  BY <1>4, <1>7 DEF Send, EndGroup, ProcessRecipeTailBatch, countVars
<1> QED BY <1>2, <1>3, <1>5, <1>6, <1>7 DEF Next, Decoder

\* Every step keeps the answers right.
LEMMA RestoreStep ==
    ASSUME RequestInv, StoreInv, CacheInv, RestoreInv, [Next]_vars, Undisturbed'
    PROVE  RestoreInv'
<1>1. ~ FetchPartial
  <2> SUFFICES ASSUME FetchPartial PROVE FALSE OBVIOUS
  <2>1. dpc = "fetch" /\ fetched < Len(ids) /\ ids[fetched + 1] \in opened BY DEF FetchPartial, Fetching
  <2>2. fetched + 1 \in 1 .. Len(ids) BY <2>1, RequestTypes DEF RequestInv
  <2> QED BY <2>1, <2>2, IdsSealed
<1>2. Faithful' BY <1>1, CacheStep DEF RestoreInv
<1> QED BY <1>1, <1>2, RestoreMoves, RestoreEnds, RestoreRecv, RestoreLookup, RestoreCollect, RestoreFetch,
     RestoreSend, RestoreEndGroup
     DEF Next, Decoder

-----------------------------------------------------------------------------
(* The theorems                                                            *)

\* The cache of a new session is empty.
LEMMA CacheInitially == ASSUME CacheInit PROVE CacheInv /\ Faithful
<1>1. /\ keys = << >> /\ pool = [i \in Buffer |-> None] /\ currentIndex = 0
      /\ whole = [i \in Buffer |-> FALSE]
  BY DEF CacheInit
<1>2. keys \in Seq(Node) /\ Len(keys) = 0 /\ DOMAIN keys = {} BY <1>1
<1>3. CacheTypeOK BY <1>1, <1>2, CacheAssumption DEF CacheTypeOK
<1> QED BY <1>2, <1>3 DEF CacheInv, CacheCoherent, Faithful

\* The cache alone, used in any order: no two names share a buffer, and a container that
\* was complete when it was read stays whole under its name (ReadCache::InsertToCache and
\* ReadFromCache over lru11::Cache and containerPool_), whatever the size of the pool.
THEOREM CacheAloneCoherent == CacheSpec => []CacheCoherent
<1>1. CacheInit => CacheInv BY CacheInitially
<1>2. CacheInv /\ [CacheNext]_cacheVars => CacheInv'
  <2> SUFFICES ASSUME CacheInv, [CacheNext]_cacheVars PROVE CacheInv' OBVIOUS
  <2>1. CASE CacheNext BY <2>1, CacheReadStep, CacheInsertStep DEF CacheNext
  <2>2. CASE UNCHANGED cacheVars BY <2>2 DEF cacheVars, CacheInv, CacheTypeOK, CacheCoherent
  <2> QED BY <2>1, <2>2
<1>3. CacheInv => CacheCoherent BY DEF CacheInv
<1> QED BY <1>1, <1>2, <1>3, PTL DEF CacheSpec

\* The inductive invariant of the session.
DownloadInv ==
    /\ StoreInv /\ CacheInv /\ RequestInv
    /\ Undisturbed => RestoreInv

\* The first state of a download.
LEMMA DownloadInitially == Init => DownloadInv
<1> SUFFICES ASSUME Init PROVE DownloadInv OBVIOUS
<1>1. /\ up = TRUE /\ known = Uploads!Nothing /\ saved = Uploads!Nothing /\ opened = {} /\ durable = {}
      /\ CacheInit
  BY DEF Init, Uploads!Init
<1>2. /\ dpc = "off" /\ entries = << >> /\ names = << >> /\ ids = << >> /\ start = 1 /\ end = 1
      /\ containerArray = [i \in Array |-> None] /\ fetched = 0 /\ out = << >> /\ sent = << >>
      /\ asked = "durable" /\ requests = 0 /\ races = 0
  BY DEF Init
<1>3. StoreInv BY <1>1 DEF StoreInv, Uploads!Nothing, Place
<1>4. CacheInv /\ Faithful BY <1>1, CacheInitially
<1>5. \A S : << >> \in Seq(S) OBVIOUS
<1>6. Len(<< >>) = 0 OBVIOUS
<1>7. SessionTypes BY <1>2, <1>5, <1>6, RestoreAssumption DEF SessionTypes, Place
<1>8. ControlInv /\ Answered /\ Grouped BY <1>2, <1>6 DEF ControlInv, Answered, Grouped
<1>9. EntriesInv /\ NamesInv /\ IdsInv /\ ArrayInv /\ Distinct
  BY <1>2, <1>6 DEF EntriesInv, NamesInv, IdsInv, ArrayInv, Distinct
<1>10. sent \o out = SubSeq(entries, 1, start - 1)
  <2>1. << >> \o << >> = << >> OBVIOUS
  <2>2. SubSeq(<< >>, 1, 1 - 1) = << >> OBVIOUS
  <2> QED BY <1>2, <2>1, <2>2
<1>11. RestoreInv BY <1>2, <1>4, <1>9, <1>10 DEF RestoreInv
<1> QED BY <1>3, <1>4, <1>7, <1>8, <1>11 DEF DownloadInv, RequestInv

\* Every step keeps the invariant.
LEMMA DownloadStep == DownloadInv /\ [Next]_vars => DownloadInv'
<1> SUFFICES ASSUME DownloadInv, [Next]_vars PROVE DownloadInv' OBVIOUS
<1>1. StoreInv /\ CacheInv /\ RequestInv BY DEF DownloadInv
<1>2. StoreInv' /\ CacheInv' /\ RequestInv' BY <1>1, StoreStep, CacheStep, RequestStep
<1>3. ASSUME Undisturbed' PROVE RestoreInv'
  <2>1. RestoreInv BY <1>1, <1>3, StaysDisturbed DEF DownloadInv
  <2> QED BY <1>1, <1>3, <2>1, RestoreStep
<1> QED BY <1>2, <1>3 DEF DownloadInv

\* Files, cache and request stay in order beside uploads, and what is sent is what was
\* asked for as long as no lookup met a rehash.
THEOREM DownloadInvariant == Spec => []DownloadInv
  BY DownloadInitially, DownloadStep, PTL DEF Spec

\* Types of a download session; in particular a group never needs more containers
\* than containerArray has room for (RecvDecoder::Run).
THEOREM DownloadTypes == Spec => []TypeOK
<1>1. DownloadInv => TypeOK
  BY DEF DownloadInv, CacheInv, RequestInv, SessionTypes, TypeOK, Place
<1> QED BY <1>1, DownloadInvariant, PTL

\* The cache as RecvDecoder uses it: beside uploads that go on, with incomplete files and
\* with lookups that met an insertion, a container read whole is found whole.  Of one
\* read incomplete nothing is said: its buffer keeps bytes of another.
THEOREM CacheStaysCoherent == Spec => []CacheCoherent
<1>1. DownloadInv => CacheCoherent BY DEF DownloadInv, CacheInv
<1> QED BY <1>1, DownloadInvariant, PTL

\* What went out is what came first in the request.
LEMMA AnswersArePrefix ==
    ASSUME RequestInv, RestoreInv
    PROVE  IsPrefix(sent \o out, entries)
<1>1. entries \in Seq(Chunk) /\ start \in Nat /\ 1 <= start /\ start - 1 <= Len(entries) /\ Len(entries) \in Nat
  BY RequestTypes DEF RequestInv, SessionTypes, Answered
<1> DEFINE u == SubSeq(entries, 1, start - 1)
<1>2. u \in Seq(Chunk) /\ Len(u) = start - 1 BY <1>1
<1>3. SubSeq(entries, 1, Len(u)) = u BY <1>2
<1>4. IsPrefix(u, entries) BY <1>1, <1>2, <1>3 DEF IsPrefix
<1> QED BY <1>4 DEF RestoreInv

\* When CLOUD_SEND_CHUNK_END goes out, every entry was answered.
LEMMA AllAnswered ==
    ASSUME RequestInv, dpc = "tail"
    PROVE  Len(sent) = Len(entries) /\ out = << >>
<1>1. start = Len(entries) + 1 /\ out = << >> BY DEF RequestInv, ControlInv
<1>2. Len(sent) + Len(out) = start - 1 BY DEF RequestInv, Answered
<1>3. Len(out) = 0 BY <1>1
<1> QED BY <1>1, <1>2, <1>3, RequestTypes DEF RequestInv

\* Beside uploads that go on, RecvDecoder::Run sends the chunks asked for in the order asked
\* for, and the request does not end the server, if every request of the session was for
\* chunks in complete files and no lookup met an insertion into the index; and it sends an
\* answer for every entry before CLOUD_SEND_CHUNK_END, whatever was asked for and met.
THEOREM DownloadsRestored == Spec => []RestoredInOrder
<1>1. DownloadInv => RestoredInOrder
  BY AnswersArePrefix, AllAnswered DEF DownloadInv, RestoredInOrder, RestoreInv
<1> QED BY <1>1, DownloadInvariant, PTL
=============================================================================
