-------------------------- MODULE UploadInvariant ---------------------------
(***************************************************************************)
(* The inductive invariant behind the properties of UploadPipeline, part   *)
(* by part.  UploadProofs proves it.                                       *)
(***************************************************************************)
EXTENDS UploadRefinement

\* The receiver inside the critical section is the holder of the lock.
LockInv == \A s \in Session : rpc[s] \in Locked <=> idxLock = s

\* How the receiver and the writer of a session keep in step: done_ follows the
\* last push, jobDoneFlag is set only on an empty queue after that, and a
\* session that is gone leaves nothing behind.
DrainInv ==
    \A s \in Session :
        /\ rpc[s] = "idle" => ~ done[s] /\ recipe[s] = {}
        /\ rpc[s] \in Gone => wpc[s] \in {"off", "exit"} /\ mq[s] = << >>
        /\ done[s] => rpc[s] \in {"join", "ended"}
        /\ wpc[s] = "empty" => done[s]
        /\ jobDone[s] => done[s] /\ mq[s] = << >>
        /\ wpc[s] = "exit" => rpc[s] = "ended" \/ jobDone[s]

\* The index is saved, and the server down, only without sessions.
PhaseInv ==
    phase \in {"saving", "writing", "down"} => \A s \in Session : rpc[s] \in Gone

\* No container id is in two slots.
UniqueInv ==
    \A s, t \in Session : \A l, m \in Slot :
        Occupied(s, l) /\ Occupied(t, m) /\ At(s, l).id = At(t, m).id => s = t /\ l = m

\* The file of a container in a slot is absent, or truncated by the writer that
\* is about to fill it; ids in slots and on disk have been drawn.
FileInv ==
    /\ \A s \in Session, l \in Slot : Occupied(s, l) =>
          /\ At(s, l).id \in used
          /\ disk[At(s, l).id] = IF l = -1 /\ wpc[s] = "write" THEN Partial ELSE None
    /\ \A id \in ContainerID : disk[id] # None => id \in used

SlotInv == UniqueInv /\ FileInv

\* The insertion under way: the key is absent, then there without a value, and
\* the chunk is in the open container before the key is in the index.
InsertInv ==
    /\ \A s \in Session :
          /\ rpc[s] \in {"append", "insert"} => index[Head(todo[s])] = None
          /\ rpc[s] = "assign" => index[Head(todo[s])] = Empty
          /\ rpc[s] \in {"insert", "assign"} => Head(todo[s]) \in cur[s].chunks
    /\ \A c \in Chunk : index[c] = Empty =>
          \E s \in Session : rpc[s] = "assign" /\ Head(todo[s]) = c

\* Chunk c of the open container of s is the one being inserted.
BeingInserted(s, l, c) ==
    l = 0 /\ rpc[s] \in {"insert", "assign"} /\ c = Head(todo[s])

\* What is in a slot is in the index under the id of its container.
ContentInv ==
    \A s \in Session, l \in Slot : Occupied(s, l) =>
        \A c \in At(s, l).chunks : index[c] = At(s, l).id \/ BeingInserted(s, l, c)

\* An index entry leads to a slot or a file; a saved entry leads to a file and
\* is still in the index; a record is cut only in a save that was.
PlaceInv ==
    /\ \A c \in Chunk : index[c] \in ContainerID =>
          OnDisk(index[c], c) \/ InMemory(index[c], c)
    /\ \A c \in Chunk : index[c] = Garbled => torn
    /\ \A c \in Chunk : db[c] # None =>
          /\ \/ db[c] \in ContainerID /\ OnDisk(db[c], c)
             \/ db[c] = Garbled /\ torn
          /\ phase # "down" => index[c] = db[c]
    /\ phase = "down" => \A c \in Chunk : index[c] = None
    /\ phase = "writing" => \A c \in Chunk : db[c] = None

\* Sizes of the containers in memory, and of a fresh one; a container without a
\* header has no chunk.
SizeInv ==
    \A s \in Session, l \in Slot : Occupied(s, l) =>
        /\ SerialisedSize(At(s, l)) <= MAX_CONTAINER_SIZE
        /\ At(s, l).chunks # {} => At(s, l).header # 0
        /\ l = 0 /\ rpc[s] = "append" => At(s, l).header = 0 /\ At(s, l).body = 0

\* A file that a table refers to holds only chunks the table places there.
Closed(table) ==
    \A id \in ContainerID : \A c \in Chunk, d \in Chunk :
        OnDisk(id, d) /\ table[c] = id => table[d] = id

ClosedInv == ~ torn => Closed(index) /\ Closed(db)

Accounted(s, c) == index[c] # None \/ c \in owed[s] \/ Pending(s, c)

\* Every recipe entry is accounted for, by the index while the server runs and
\* by the db file for the sessions that were saved.
RecipeInv ==
    \A s \in Session :
        /\ phase = "down" => fate[s] # "open"
        /\ fate[s] = "saved" => rpc[s] \in Gone
        /\ fate[s] # "lost" /\ phase # "down" => \A c \in recipe[s] : Accounted(s, c)
        /\ fate[s] = "saved" /\ phase # "writing" => \A c \in recipe[s] :
              db[c] # None \/ c \in owed[s]

IndInv ==
    /\ TypeOK /\ LockInv /\ DrainInv /\ PhaseInv /\ SlotInv /\ InsertInv
    /\ ContentInv /\ PlaceInv /\ SizeInv /\ ClosedInv /\ RecipeInv
=============================================================================
