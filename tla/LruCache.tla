------------------------------ MODULE LruCache ------------------------------
(***************************************************************************)
(* lru11::Cache (lruCache.h): a map from keys to nodes of a list that is   *)
(* kept in order of use, and on top of it the container cache that a       *)
(* download session builds from it (readCache.cc).  Nodes have addresses:  *)
(* the map refers to a node, and erasing frees its address for reuse.      *)
(* A cache is used either as ReadCache uses it (pooled) or directly.       *)
(***************************************************************************)
EXTENDS Integers, FiniteSets, SequencesExt

CONSTANTS Key, Value,
          MaxSizes, Elasticities,  \* constructor arguments to check
          CacheSize,               \* readCacheSize_: size of the pooled cache
          None

ASSUME LruAssumption ==
    /\ IsFiniteSet(Key)
    /\ CacheSize \in Nat \ {0} /\ MaxSizes \subseteq Nat /\ Elasticities \subseteq Nat

VARIABLES pooled,              \* used through ReadCache
          maxSize, elasticity,
          map,                 \* cache_: key -> address, or None
          node,                \* address -> [key, value], or None when free
          list,                \* keys_: addresses, most recently used first
          pool, currentIndex,  \* containerPool_, currentIndex_
          whole,               \* history: the file last copied into a buffer was complete
          recent,              \* history: keys by last use, evicted ones included
          latest               \* history: the value last inserted for a key

vars == <<pooled, maxSize, elasticity, map, node, list, pool, currentIndex, whole, recent, latest>>
fixed == <<pooled, maxSize, elasticity>>
lru == <<map, node, list>>
buffers == <<pool, currentIndex, whole>>

Address == 1..(Cardinality(Key) + 1)
Buffer == 0..(CacheSize - 1)
Node == [key : Key, value : Value \cup Buffer]

ASSUME FreeAssumption == None \notin Node \cup Address

Cached == {k \in Key : map[k] # None}
ListedKeys == [i \in DOMAIN list |-> node[list[i]].key]

Init ==
    /\ pooled \in BOOLEAN
    /\ maxSize \in IF pooled THEN {CacheSize} ELSE MaxSizes
    /\ elasticity \in IF pooled THEN {0} ELSE Elasticities
    /\ map = [k \in Key |-> None] /\ node = [a \in Address |-> None] /\ list = << >>
    /\ pool = [i \in Buffer |-> None] /\ currentIndex = 0
    /\ whole = [i \in Buffer |-> FALSE]
    /\ recent = << >> /\ latest = [k \in Key |-> None]

----------------------------------------------------------------------------
\* keys_.splice: the node moves to the front.
Splice(l, a) == Cons(a, RemoveFirst(l, a))
Used(k) == recent' = Splice(recent, k)

\* prune: once maxSize + elasticity keys are there, what is over maxSize goes,
\* from the back.
Kept(l) == IF maxSize = 0 \/ Len(l) < maxSize + elasticity THEN Len(l) ELSE maxSize
Victims(l) == {l[i] : i \in (Kept(l) + 1)..Len(l)}

\* emplace_front: a node of its own for the new key.
FreeNode == CHOOSE a \in Address : node[a] = None

\* insert, with the prune it ends in.
Insert(k, v) ==
    IF map[k] # None
    THEN /\ node' = [node EXCEPT ![map[k]].value = v]
         /\ list' = Splice(list, map[k])
         /\ UNCHANGED map
    ELSE LET a == FreeNode
             l == Cons(a, list)
         IN  /\ list' = SubSeq(l, 1, Kept(l))
             /\ node' = [x \in Address |-> IF x \in Victims(l) THEN None
                                           ELSE IF x = a THEN [key |-> k, value |-> v] ELSE node[x]]
             /\ map' = [y \in Key |-> IF y = k THEN a ELSE IF map[y] \in Victims(l) THEN None ELSE map[y]]

\* Fault: a hit does not count as a use.
GetInPlace(k) == UNCHANGED lru

\* get, getCopy and tryGet of a key that is there; one that is not leaves the
\* cache as it is (KeyNotFound, false).
Get(k) == list' = Splice(list, map[k]) /\ UNCHANGED <<map, node>>
ValueOf(k) == node[map[k]].value

contains(k) == map[k] # None
size == Cardinality(Cached)

\* Fault: the front of the list instead of the back.
pruneValueFront == ValueOf(node[Head(list)].key)

\* The value of the entry that the next prune drops.
pruneValue == ValueOf(node[Last(list)].key)

----------------------------------------------------------------------------
(* The operations of a cache used directly. *)

InsertDirect(k, v) ==
    /\ ~pooled
    /\ Insert(k, v)
    /\ Used(k) /\ latest' = [latest EXCEPT ![k] = v]
    /\ UNCHANGED <<fixed, buffers>>

GetDirect(k) ==
    /\ ~pooled /\ contains(k)
    /\ Get(k)
    /\ Used(k)
    /\ UNCHANGED <<fixed, buffers, latest>>

\* Fault: the node is freed and the map still refers to it.
RemoveNode(k) ==
    /\ ~pooled /\ contains(k)
    /\ list' = RemoveFirst(list, map[k])
    /\ node' = [node EXCEPT ![map[k]] = None]
    /\ recent' = RemoveFirst(recent, k)
    /\ UNCHANGED <<fixed, map, buffers, latest>>

RemoveKey(k) ==
    /\ ~pooled /\ contains(k)
    /\ list' = RemoveFirst(list, map[k])
    /\ node' = [node EXCEPT ![map[k]] = None]
    /\ map' = [map EXCEPT ![k] = None]
    /\ recent' = RemoveFirst(recent, k)
    /\ UNCHANGED <<fixed, buffers, latest>>

Clear ==
    /\ ~pooled /\ list # << >>
    /\ map' = [k \in Key |-> None] /\ node' = [a \in Address |-> None] /\ list' = << >>
    /\ recent' = << >>
    /\ UNCHANGED <<fixed, buffers, latest>>

----------------------------------------------------------------------------
(* ReadCache: the values are indices of pool buffers. *)

\* The cache RestoreSession is built on; one used directly is no such cache and
\* is mapped to an idle one.
Abstract == INSTANCE ReadCache WITH
    ContainerID <- Key,
    keys <- IF pooled THEN [i \in DOMAIN list |-> node[list[i]]] ELSE << >>

\* InsertToCache; the decoder calls it for a container the cache does not hold.
InsertToCache(name, length) ==
    LET index == IF size + 1 > CacheSize THEN pruneValue ELSE currentIndex
    IN  /\ pooled /\ ~contains(name)
        /\ pool' = [pool EXCEPT ![index] = Abstract!Copied(@, name, length)]
        /\ whole' = [whole EXCEPT ![index] = (length = "all")]
        /\ Insert(name, index)
        /\ currentIndex' = IF size + 1 > CacheSize THEN currentIndex ELSE currentIndex + 1
        /\ Used(name) /\ latest' = [latest EXCEPT ![name] = index]
        /\ UNCHANGED fixed

ReadFromCache(name) ==
    /\ pooled /\ contains(name)
    /\ Get(name)
    /\ Used(name)
    /\ UNCHANGED <<fixed, buffers, latest>>

Next ==
    \/ \E k \in Key : \E v \in Value : InsertDirect(k, v)
    \/ \E k \in Key : GetDirect(k) \/ RemoveKey(k)
    \/ Clear
    \/ \E k \in Key : \E length \in Abstract!Length : InsertToCache(k, length)
    \/ \E k \in Key : ReadFromCache(k)

Spec == Init /\ [][Next]_vars

----------------------------------------------------------------------------
\* The type invariant: no buffer beyond the pool is handed out.
TypeOK ==
    /\ map \in [Key -> Address \cup {None}]
    /\ Range(list) \subseteq Address
    /\ currentIndex \in 0..CacheSize
    /\ DOMAIN pool = Buffer

\* NoDanglingNode: the map and the list name the same nodes, each under its own
\* key and once, and every other node is free (lruCache.h:129-142, 176-186); no
\* buffer beyond the pool is handed out.
NoDanglingNode ==
    /\ TypeOK
    /\ \A k \in Key : map[k] # None =>
          /\ map[k] \in Range(list)
          /\ node[map[k]] # None
          /\ node[map[k]].key = k
    /\ Len(list) = Cardinality(Cached) /\ Cardinality(Range(list)) = Len(list)
    /\ {a \in Address : node[a] # None} = Range(list)

\* KeepsMostRecent: what the cache holds is what was used last, in that order,
\* and a hit gives the value inserted last, after any sequence of operations.  A
\* bounded cache holds at most maxSize keys between operations, or fewer than
\* maxSize + elasticity (lruCache.h:99-102).
KeepsMostRecent ==
    /\ ListedKeys = SubSeq(recent, 1, Len(list))
    /\ maxSize > 0 => Len(list) <= maxSize \/ Len(list) < maxSize + elasticity
    /\ \A k \in Cached : ValueOf(k) = latest[k]

\* ImplementsReadCache: map, nodes, list and buffer pool together implement the
\* list of buffers that module ReadCache describes (readCache.cc:50-91): a new
\* container takes over the buffer of the one that prune drops.
ImplementsReadCache == Abstract!CacheSpec
=============================================================================
