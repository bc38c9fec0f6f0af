----------------------------- MODULE ChunkStore -----------------------------
(***************************************************************************)
(* What the upload path promises: a store that knows one place for each    *)
(* chunk, seals containers for good, is closed only when every chunk it    *)
(* knows is durable, and remembers after a restart what was saved at the   *)
(* last close.  UploadPipeline implements it (module UploadRefinement).    *)
(***************************************************************************)
CONSTANTS Chunk, ContainerID, None

VARIABLES
    up,      \* is the server running?
    known,   \* where the running server has each chunk
    opened,  \* containers whose file exists and is not complete
    durable, \* pairs <<chunk, container>> in complete files
    saved    \* the places a restart will know

vars == <<up, known, opened, durable, saved>>

Nothing == [c \in Chunk |-> None]

Sealed(id) == \E c \in Chunk : <<c, id>> \in durable

AllDurable == \A c \in Chunk : known[c] # None => <<c, known[c]>> \in durable

Init ==
    /\ up = TRUE /\ known = Nothing /\ saved = Nothing
    /\ opened = {} /\ durable = {}

\* A chunk that has no place gets one, in a container that is still open.
Store(c, id) ==
    /\ up /\ known[c] = None
    /\ known' = [known EXCEPT ![c] = id]
    /\ ~ Sealed(id) /\ id \notin opened
    /\ UNCHANGED <<up, opened, durable, saved>>

\* The file of a container appears before it has its content ...
Open(id) ==
    /\ up /\ id \notin opened
    /\ opened' = opened \union {id}
    /\ ~ Sealed(id)
    /\ UNCHANGED <<up, known, durable, saved>>

\* ... which is exactly the chunks that are placed in it.
Seal(id) ==
    /\ id \in opened /\ up
    /\ opened' = opened \ {id}
    /\ durable' = durable \union {<<c, id>> : c \in {d \in Chunk : known[d] = id}}
    /\ UNCHANGED <<up, known, saved>>

\* Closing replaces the saved places: the old copy goes first.
Discard ==
    /\ up
    /\ saved' = Nothing
    /\ UNCHANGED <<up, known, opened, durable>>
    /\ AllDurable

Save ==
    /\ up
    /\ up' = FALSE /\ known' = Nothing
    /\ saved' = known /\ AllDurable
    /\ UNCHANGED <<opened, durable>>

\* A crash keeps the saved places, or part of the new ones after a Discard.
Crash ==
    /\ up
    /\ up' = FALSE /\ known' = Nothing
    /\ \/ saved' = saved
       \/ /\ AllDurable /\ saved = Nothing
          /\ \E K \in SUBSET Chunk :
                saved' = [c \in Chunk |-> IF c \in K THEN known[c] ELSE None]
    /\ UNCHANGED <<opened, durable>>

Restart ==
    /\ ~ up
    /\ up' = TRUE /\ known' = saved
    /\ UNCHANGED <<opened, durable, saved>>

Next ==
    \/ Discard \/ Save \/ Crash \/ Restart
    \/ \E c \in Chunk, id \in ContainerID : Store(c, id)
    \/ \E id \in ContainerID : Open(id) \/ Seal(id)

Spec == Init /\ [][Next]_vars

-----------------------------------------------------------------------------
\* SavedDurable: whatever a restart will know is on disk.
SavedDurable == \A c \in Chunk : saved[c] # None => <<c, saved[c]>> \in durable
=============================================================================
