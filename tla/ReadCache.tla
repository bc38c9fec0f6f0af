----------------------------- MODULE ReadCache ------------------------------
(***************************************************************************)
(* The container cache of a download session: an LRU list of container     *)
(* names (lru11::Cache, elasticity 0) over a pool of CacheSize buffers.    *)
(* Buffers are handed out in order until the pool is used up; from then on *)
(* a new container takes the buffer of the least recently used one.        *)
(*                                                                         *)
(* A buffer, and any other copy of a container file, is represented by the *)
(* id of the file whose bytes it holds.  Only as many bytes are copied as  *)
(* the file has: of an incomplete file the rest of the buffer stays as it  *)
(* was.                                                                    *)
(***************************************************************************)
EXTENDS Naturals, SequencesExt

CONSTANTS
    ContainerID,
    CacheSize,  \* readCacheSize_ in config.json
    None        \* bytes that are no container, or of more than one

\* pruneValue reads the back of the list: with no room at all there is none.
ASSUME CacheAssumption == CacheSize \in Nat \ {0}

VARIABLES
    keys,         \* keys_: most recently used first
    pool,         \* containerPool_
    currentIndex, \* the next buffer never used so far
    whole         \* history: the file last copied into a buffer was complete

cacheVars == <<keys, pool, currentIndex, whole>>

Buffer == 0 .. CacheSize - 1

Node == [key : ContainerID, value : Buffer]

CacheInit ==
    /\ keys = << >>
    /\ pool = [i \in Buffer |-> None]
    /\ currentIndex = 0
    /\ whole = [i \in Buffer |-> FALSE]

ExistsInCache(name) == \E i \in DOMAIN keys : keys[i].key = name

Position(name) == CHOOSE i \in DOMAIN keys : keys[i].key = name

\* Cache::get moves the entry to the front.
ReadFromCache(name) ==
    LET i == Position(name) IN keys' = Cons(keys[i], RemoveAt(keys, i))

Cached(name) == pool[keys[Position(name)].value]

\* Cache::insert: a key that is there is updated and moved to the front; a new
\* one goes to the front, and prune drops what is over the limit from the back.
Insert(name, v) ==
    LET node == [key |-> name, value |-> v] IN
    IF ExistsInCache(name)
    THEN Cons(node, RemoveAt(keys, Position(name)))
    ELSE SubSeq(Cons(node, keys), 1, IF Len(keys) < CacheSize THEN Len(keys) + 1 ELSE CacheSize)

CacheFull == Len(keys) + 1 > CacheSize

\* Fault: the newest entry gives up its buffer instead of the oldest.
ReplaceIndexFront == IF CacheFull THEN Head(keys).value ELSE currentIndex

\* pruneValue: the buffer of the entry that prune is about to drop.
ReplaceIndex == IF CacheFull THEN Last(keys).value ELSE currentIndex

\* How much of a container its file has when it is read: all of it, a part, or
\* nothing yet.
Length == {"all", "part", "none"}

\* A buffer after that much of the container was copied over what it held.
Copied(old, name, length) ==
    CASE length = "all" -> name [] length = "part" -> None [] length = "none" -> old

InsertToCache(name, length) ==
    /\ pool' = [pool EXCEPT ![ReplaceIndex] = Copied(@, name, length)]
    /\ whole' = [whole EXCEPT ![ReplaceIndex] = (length = "all")]
    /\ keys' = Insert(name, ReplaceIndex)
    /\ currentIndex' = IF CacheFull THEN currentIndex ELSE currentIndex + 1

\* The cache alone: what the decoder does with it, in any order.
CacheNext ==
    \E name \in ContainerID :
        \/ ~ ExistsInCache(name) /\ \E length \in Length : InsertToCache(name, length)
        \/ ExistsInCache(name) /\ ReadFromCache(name) /\ UNCHANGED <<pool, currentIndex, whole>>

CacheSpec == CacheInit /\ [][CacheNext]_cacheVars

-----------------------------------------------------------------------------
CacheTypeOK ==
    /\ keys \in Seq(Node) /\ Len(keys) <= CacheSize
    /\ pool \in [Buffer -> ContainerID \union {None}]
    /\ currentIndex = Len(keys)
    /\ whole \in [Buffer -> BOOLEAN]

\* CacheCoherent: no two names share a buffer, and a container that was complete
\* when it was read is still whole under its name, however insertions, hits,
\* evictions and incomplete files alternate.
CacheCoherent ==
    \A i, j \in DOMAIN keys :
        /\ i # j => keys[i].key # keys[j].key /\ keys[i].value # keys[j].value
        /\ whole[keys[i].value] => pool[keys[i].value] = keys[i].key
=============================================================================
