-------------------------- MODULE UploadRefinement --------------------------
(***************************************************************************)
(* The upload path implements ChunkStore: a chunk is known once its index  *)
(* entry has a value, durable once its container's file is complete, saved *)
(* once the db file has it.                                                *)
(***************************************************************************)
EXTENDS UploadPipeline

Places(table) == [c \in Chunk |-> IF table[c] \in ContainerID THEN table[c] ELSE None]

AbstractKnown == Places(index)

AbstractSaved == Places(db)

AbstractDurable == {p \in Chunk \X ContainerID : OnDisk(p[2], p[1])}

AbstractOpened == {id \in ContainerID : disk[id] = Partial}

Store == INSTANCE ChunkStore WITH
    up <- phase # "down", known <- AbstractKnown, opened <- AbstractOpened,
    durable <- AbstractDurable, saved <- AbstractSaved

\* ImplementsStore: every step of the threads, of ctrl + c, of a crash and of a
\* restart is a step of the abstract store, or invisible to it.
ImplementsStore == Store!Spec

\* SavedOnDisk: every place the db file names, and hence every place a restart
\* will know, is a complete container file with that chunk in it.
SavedOnDisk == Store!SavedDurable
=============================================================================
