----------------------------- MODULE UploadProofs ----------------------------
(***************************************************************************)
(* The invariant of module UploadInvariant is inductive, and the safety    *)
(* properties of the upload path and the refinement of ChunkStore follow   *)
(* from it.                                                                *)
(*                                                                         *)
(* First come the types and the part that is about control only: who holds *)
(* the index lock, how the receiver and the writer of a session keep in    *)
(* step, when the index is saved.                                          *)
(*                                                                         *)
(* The argument follows containers from slot to slot.  The next group of   *)
(* lemmas says where each action moves the containers in memory; each part *)
(* of the invariant is then shown to survive every action by citing them.  *)
(***************************************************************************)
EXTENDS UploadInvariant, TLAPS

-----------------------------------------------------------------------------
(* Types and control.                                                      *)

\* Helpers keep the types of what they are given.
LEMMA ContainerTypes ==
    /\ \A id \in ContainerID, n \in Nat : NewContainer(id, n) \in Container
    /\ \A k \in Container, c \in Chunk : AddChunk(k, c) \in Container
    /\ FreshIDs \subseteq ContainerID
<1>1. \A id \in ContainerID, n \in Nat : NewContainer(id, n) \in Container
  BY DEF NewContainer, Container
<1>2. \A k \in Container, c \in Chunk : AddChunk(k, c) \in Container
  BY ChunkAssumption DEF AddChunk, Container, EntrySize, CHUNK_HASH_SIZE
<1>3. FreshIDs \subseteq ContainerID
  BY UUIDAssumption DEF FreshIDs
<1> QED BY <1>1, <1>2, <1>3

\* What a thread inside a batch, and one with an open container, has at hand.
LEMMA AtHand ==
    ASSUME TypeOK, NEW s \in Session
    PROVE  /\ rpc[s] \in Busy =>
                 /\ Head(todo[s]) \in Chunk
                 /\ Tail(todo[s]) \in Seq(Chunk)
                 /\ Len(todo[s]) # 1 => Tail(todo[s]) # << >>
           /\ rpc[s] \notin Gone =>
                 /\ cur[s] \in Container
                 /\ cur[s].id \in ContainerID
                 /\ Append(mq[s], cur[s]) \in Seq(Container)
                 /\ Len(Append(mq[s], cur[s])) = Len(mq[s]) + 1
<1>1. \A q \in Seq(Chunk) : q # << >> =>
         Head(q) \in Chunk /\ Tail(q) \in Seq(Chunk) /\ (Len(q) # 1 => Tail(q) # << >>)
  <2> TAKE q \in Seq(Chunk)
  <2> HAVE q # << >>
  <2>1. Head(q) \in Chunk /\ Tail(q) \in Seq(Chunk) OBVIOUS
  <2>2. Len(q) \in Nat /\ Len(q) # 0 /\ Len(Tail(q)) = Len(q) - 1 OBVIOUS
  <2>3. Len(q) # 1 => Len(Tail(q)) # 0 BY <2>2
  <2>4. Len(<< >>) = 0 OBVIOUS
  <2> QED BY <2>1, <2>3, <2>4, Zenon
<1>2. \A q \in Seq(Container), k \in Container :
         Append(q, k) \in Seq(Container) /\ Len(Append(q, k)) = Len(q) + 1
  OBVIOUS
<1>3. \A k \in Container : k.id \in ContainerID
  BY DEF Container
<1> QED BY <1>1, <1>2, <1>3 DEF TypeOK, TypeReceiver, TypeWriter, Shape

\* A fresh server: no session, an empty index, nothing on disk.
LEMMA TypeInit == Init => TypeOK
<1> SUFFICES ASSUME Init PROVE TypeOK
  OBVIOUS
<1>1. TypeServer BY DEF Init, TypeServer
<1>2. TypeReceiver BY DEF Init, TypeReceiver, ReceiverLoc
<1>3. TypeWriter BY DEF Init, TypeWriter, WriterLoc
<1>4. \A s \in Session : Shape(s)
  BY BoundAssumption DEF Init, Shape, Busy, Locked, Gone
<1> QED BY <1>1, <1>2, <1>3, <1>4 DEF TypeOK

\* Every step keeps the types.  Shape is what makes it go through: the head of
\* a batch and the open container are read only where they exist.
LEMMA TypeNext == TypeOK /\ [Next]_vars => TypeOK'
<1> SUFFICES ASSUME TypeOK, [Next]_vars PROVE TypeOK'
  OBVIOUS
<1> USE ContainerTypes, BoundAssumption
<1> USE DEF TypeOK, serverVars, indexVars, recvVars, queueVars, writerVars
<1>1. ASSUME NEW s \in Session, Login(s) PROVE TypeOK'
  <2>1. TypeServer' BY <1>1 DEF TypeServer, Login
  <2>2. TypeReceiver' BY <1>1 DEF TypeReceiver, ReceiverLoc, Login
  <2>3. TypeWriter' BY <1>1 DEF TypeWriter, WriterLoc, Login
  <2>4. ASSUME NEW t \in Session PROVE Shape(t)'
    BY <1>1, <2>4 DEF TypeReceiver, TypeWriter, Login, Shape, Busy, Locked, Gone
  <2> QED BY <2>1, <2>2, <2>3, <2>4
<1>2. ASSUME NEW s \in Session, RecvChunks(s) PROVE TypeOK'
  <2>1. TypeServer' BY <1>2 DEF TypeServer, RecvChunks
  <2>2. TypeReceiver' BY <1>2 DEF TypeReceiver, ReceiverLoc, RecvChunks, Receive
  <2>3. TypeWriter' BY <1>2 DEF TypeWriter, WriterLoc, RecvChunks
  <2>4. ASSUME NEW t \in Session PROVE Shape(t)'
    BY <1>2, <2>4 DEF TypeReceiver, TypeWriter, RecvChunks, Receive, Shape, Busy, Locked, Gone
  <2> QED BY <2>1, <2>2, <2>3, <2>4
<1>3. ASSUME NEW s \in Session, RecvRecipe(s) PROVE TypeOK'
  <2>1. TypeServer' BY <1>3 DEF TypeServer, RecvRecipe
  <2>2. TypeReceiver' BY <1>3 DEF TypeReceiver, ReceiverLoc, RecvRecipe, Receive
  <2>3. TypeWriter' BY <1>3 DEF TypeWriter, WriterLoc, RecvRecipe
  <2>4. ASSUME NEW t \in Session PROVE Shape(t)'
    BY <1>3, <2>4 DEF TypeReceiver, TypeWriter, RecvRecipe, Receive, Shape, Busy, Locked, Gone
  <2> QED BY <2>1, <2>2, <2>3, <2>4
<1>4. ASSUME NEW s \in Session, Close(s) PROVE TypeOK'
  <2>1. TypeServer' BY <1>4 DEF TypeServer, Close
  <2>2. TypeReceiver' BY <1>4 DEF TypeReceiver, ReceiverLoc, Close
  <2>3. TypeWriter' BY <1>4 DEF TypeWriter, WriterLoc, Close
  <2>4. ASSUME NEW t \in Session PROVE Shape(t)'
    BY <1>4, <2>4 DEF TypeReceiver, TypeWriter, Close, Shape, Busy, Locked, Gone
  <2> QED BY <2>1, <2>2, <2>3, <2>4
<1>5. ASSUME NEW s \in Session, LockIndex(s) PROVE TypeOK'
  <2>1. TypeServer' BY <1>5 DEF TypeServer, LockIndex
  <2>2. TypeReceiver' BY <1>5 DEF TypeReceiver, ReceiverLoc, LockIndex, LockFree
  <2>3. TypeWriter' BY <1>5 DEF TypeWriter, WriterLoc, LockIndex
  <2>4. ASSUME NEW t \in Session PROVE Shape(t)'
    BY <1>5, <2>4 DEF TypeReceiver, TypeWriter, LockIndex, LockFree, Shape, Busy, Locked, Gone
  <2> QED BY <2>1, <2>2, <2>3, <2>4
<1>6. ASSUME NEW s \in Session, DuplicateChunk(s) PROVE TypeOK'
  <2>1. TypeServer' BY <1>6 DEF TypeServer, DuplicateChunk
  <2>2. TypeReceiver'
    BY <1>6 DEF TypeReceiver, ReceiverLoc, DuplicateChunk, NextEntry, Shape, Busy, Locked, Gone
  <2>3. TypeWriter' BY <1>6 DEF TypeWriter, WriterLoc, DuplicateChunk
  <2>4. ASSUME NEW t \in Session PROVE Shape(t)'
    BY <1>6, <2>4, AtHand DEF TypeReceiver, TypeWriter, DuplicateChunk, NextEntry, Shape, Busy, Locked, Gone
  <2> QED BY <2>1, <2>2, <2>3, <2>4
<1>7. ASSUME NEW s \in Session, FlushFull(s) PROVE TypeOK'
  <2>1. TypeServer' BY <1>7 DEF TypeServer, FlushFull
  <2>2. TypeReceiver' BY <1>7 DEF TypeReceiver, ReceiverLoc, FlushFull, Room
  <2>3. TypeWriter' BY <1>7, AtHand DEF TypeWriter, FlushFull, Busy, Locked, Gone
  <2>4. ASSUME NEW t \in Session PROVE Shape(t)'
    BY <1>7, <2>4 DEF TypeReceiver, TypeWriter, FlushFull, Room, Shape, Busy, Locked, Gone
  <2> QED BY <2>1, <2>2, <2>3, <2>4
<1>8. ASSUME NEW s \in Session, WriteChunk(s) PROVE TypeOK'
  <2>1. TypeServer' BY <1>8 DEF TypeServer, WriteChunk
  <2>2. TypeReceiver' BY <1>8, AtHand DEF TypeReceiver, ReceiverLoc, WriteChunk, Shape, Busy, Locked, Gone
  <2>3. TypeWriter' BY <1>8 DEF TypeWriter, WriterLoc, WriteChunk
  <2>4. ASSUME NEW t \in Session PROVE Shape(t)'
    BY <1>8, <2>4 DEF TypeReceiver, TypeWriter, WriteChunk, Shape, Busy, Locked, Gone
  <2> QED BY <2>1, <2>2, <2>3, <2>4
<1>9. ASSUME NEW s \in Session, InsertKey(s) PROVE TypeOK'
  <2>1. TypeServer' BY <1>9 DEF TypeServer, InsertKey
  <2>2. TypeReceiver' BY <1>9 DEF TypeReceiver, ReceiverLoc, InsertKey
  <2>3. TypeWriter' BY <1>9 DEF TypeWriter, WriterLoc, InsertKey
  <2>4. ASSUME NEW t \in Session PROVE Shape(t)'
    BY <1>9, <2>4 DEF TypeReceiver, TypeWriter, InsertKey, Shape, Busy, Locked, Gone
  <2> QED BY <2>1, <2>2, <2>3, <2>4
<1>10. ASSUME NEW s \in Session, AssignValue(s) PROVE TypeOK'
  <2>1. TypeServer' BY <1>10, AtHand DEF TypeServer, AssignValue, Locked, Busy, Gone
  <2>2. TypeReceiver'
    BY <1>10 DEF TypeReceiver, ReceiverLoc, AssignValue, NextEntry, Shape, Busy, Locked, Gone
  <2>3. TypeWriter' BY <1>10 DEF TypeWriter, WriterLoc, AssignValue
  <2>4. ASSUME NEW t \in Session PROVE Shape(t)'
    BY <1>10, <2>4, AtHand DEF TypeReceiver, TypeWriter, AssignValue, NextEntry, Shape, Busy, Locked, Gone
  <2> QED BY <2>1, <2>2, <2>3, <2>4
<1>11. ASSUME NEW s \in Session, AnswerStored(s) PROVE TypeOK'
  <2>1. TypeServer' BY <1>11 DEF TypeServer, AnswerStored
  <2>2. TypeReceiver'
    BY <1>11 DEF TypeReceiver, ReceiverLoc, AnswerStored, NextEntry, Shape, Busy, Locked, Gone
  <2>3. TypeWriter' BY <1>11 DEF TypeWriter, WriterLoc, AnswerStored
  <2>4. ASSUME NEW t \in Session PROVE Shape(t)'
    BY <1>11, <2>4, AtHand DEF TypeReceiver, TypeWriter, AnswerStored, NextEntry, Shape, Busy, Locked, Gone
  <2> QED BY <2>1, <2>2, <2>3, <2>4
<1>12. ASSUME NEW s \in Session, AnswerMissing(s) PROVE TypeOK'
  <2>1. TypeServer' BY <1>12 DEF TypeServer, AnswerMissing
  <2>2. TypeReceiver'
    BY <1>12 DEF TypeReceiver, ReceiverLoc, AnswerMissing, NextEntry, Shape, Busy, Locked, Gone
  <2>3. TypeWriter' BY <1>12 DEF TypeWriter, WriterLoc, AnswerMissing
  <2>4. ASSUME NEW t \in Session PROVE Shape(t)'
    BY <1>12, <2>4, AtHand DEF TypeReceiver, TypeWriter, AnswerMissing, NextEntry, Shape, Busy, Locked, Gone
  <2> QED BY <2>1, <2>2, <2>3, <2>4
<1>13. ASSUME NEW s \in Session, FlushLast(s) PROVE TypeOK'
  <2>1. TypeServer' BY <1>13 DEF TypeServer, FlushLast
  <2>2. TypeReceiver' BY <1>13 DEF TypeReceiver, ReceiverLoc, FlushLast, Room
  <2>3. TypeWriter' BY <1>13, AtHand DEF TypeWriter, FlushLast, Gone
  <2>4. ASSUME NEW t \in Session PROVE Shape(t)'
    BY <1>13, <2>4 DEF TypeReceiver, TypeWriter, FlushLast, Room, Shape, Busy, Locked, Gone
  <2> QED BY <2>1, <2>2, <2>3, <2>4
<1>14. ASSUME NEW s \in Session, SetDone(s) PROVE TypeOK'
  <2>1. TypeServer' BY <1>14 DEF TypeServer, SetDone
  <2>2. TypeReceiver' BY <1>14 DEF TypeReceiver, ReceiverLoc, SetDone
  <2>3. TypeWriter' BY <1>14 DEF TypeWriter, WriterLoc, SetDone
  <2>4. ASSUME NEW t \in Session PROVE Shape(t)'
    BY <1>14, <2>4 DEF TypeReceiver, TypeWriter, SetDone, Shape, Busy, Locked, Gone
  <2> QED BY <2>1, <2>2, <2>3, <2>4
<1>15. ASSUME NEW s \in Session, Leave(s) PROVE TypeOK'
  <2>1. TypeServer' BY <1>15 DEF TypeServer, Leave
  <2>2. TypeReceiver' BY <1>15 DEF TypeReceiver, ReceiverLoc, Leave
  <2>3. TypeWriter' BY <1>15 DEF TypeWriter, WriterLoc, Leave
  <2>4. ASSUME NEW t \in Session PROVE Shape(t)'
    BY <1>15, <2>4 DEF TypeReceiver, TypeWriter, Leave, Shape, Busy, Locked, Gone
  <2> QED BY <2>1, <2>2, <2>3, <2>4
<1>16. ASSUME NEW s \in Session, CheckDone(s) PROVE TypeOK'
  <2>1. TypeServer' BY <1>16 DEF TypeServer, CheckDone
  <2>2. TypeReceiver' BY <1>16 DEF TypeReceiver, ReceiverLoc, CheckDone
  <2>3. TypeWriter' BY <1>16 DEF TypeWriter, WriterLoc, CheckDone
  <2>4. ASSUME NEW t \in Session PROVE Shape(t)'
    BY <1>16, <2>4 DEF TypeReceiver, TypeWriter, CheckDone, Shape, Busy, Locked, Gone
  <2> QED BY <2>1, <2>2, <2>3, <2>4
<1>17. ASSUME NEW s \in Session, CheckEmpty(s) PROVE TypeOK'
  <2>1. TypeServer' BY <1>17 DEF TypeServer, CheckEmpty
  <2>2. TypeReceiver' BY <1>17 DEF TypeReceiver, ReceiverLoc, CheckEmpty, IsEmpty
  <2>3. TypeWriter' BY <1>17 DEF TypeWriter, WriterLoc, CheckEmpty, IsEmpty
  <2>4. ASSUME NEW t \in Session PROVE Shape(t)'
    BY <1>17, <2>4 DEF TypeReceiver, TypeWriter, CheckEmpty, IsEmpty, Shape, Busy, Locked, Gone
  <2> QED BY <2>1, <2>2, <2>3, <2>4
<1>18. ASSUME NEW s \in Session, Pop(s) PROVE TypeOK'
  <2>1. TypeServer' BY <1>18 DEF TypeServer, Pop
  <2>2. TypeReceiver' BY <1>18 DEF TypeReceiver, ReceiverLoc, Pop, IsEmpty
  <2>3. TypeWriter' BY <1>18 DEF TypeWriter, WriterLoc, Pop, IsEmpty
  <2>4. ASSUME NEW t \in Session PROVE Shape(t)'
    BY <1>18, <2>4 DEF TypeReceiver, TypeWriter, Pop, IsEmpty, Shape, Busy, Locked, Gone
  <2> QED BY <2>1, <2>2, <2>3, <2>4
<1>19. ASSUME NEW s \in Session, PopNothing(s) PROVE TypeOK'
  <2>1. TypeServer' BY <1>19 DEF TypeServer, PopNothing
  <2>2. TypeReceiver' BY <1>19 DEF TypeReceiver, ReceiverLoc, PopNothing, NextRound
  <2>3. TypeWriter' BY <1>19 DEF TypeWriter, WriterLoc, PopNothing, NextRound
  <2>4. ASSUME NEW t \in Session PROVE Shape(t)'
    BY <1>19, <2>4 DEF TypeReceiver, TypeWriter, PopNothing, NextRound, Shape, Busy, Locked, Gone
  <2> QED BY <2>1, <2>2, <2>3, <2>4
<1>20. ASSUME NEW s \in Session, OpenFile(s) PROVE TypeOK'
  <2>1. TypeServer' BY <1>20 DEF TypeServer, OpenFile
  <2>2. TypeReceiver' BY <1>20 DEF TypeReceiver, ReceiverLoc, OpenFile
  <2>3. TypeWriter' BY <1>20 DEF TypeWriter, WriterLoc, OpenFile
  <2>4. ASSUME NEW t \in Session PROVE Shape(t)'
    BY <1>20, <2>4 DEF TypeReceiver, TypeWriter, OpenFile, Shape, Busy, Locked, Gone
  <2> QED BY <2>1, <2>2, <2>3, <2>4
<1>21. ASSUME NEW s \in Session, WriteFile(s) PROVE TypeOK'
  <2>1. TypeServer' BY <1>21 DEF TypeServer, WriteFile
  <2>2. TypeReceiver' BY <1>21 DEF TypeReceiver, ReceiverLoc, WriteFile, NextRound
  <2>3. TypeWriter' BY <1>21 DEF TypeWriter, WriterLoc, WriteFile, NextRound
  <2>4. ASSUME NEW t \in Session PROVE Shape(t)'
    BY <1>21, <2>4 DEF TypeReceiver, TypeWriter, WriteFile, NextRound, Shape, Busy, Locked, Gone
  <2> QED BY <2>1, <2>2, <2>3, <2>4
<1>22. ASSUME Interrupt PROVE TypeOK'
  <2>1. TypeServer' BY <1>22 DEF TypeServer, Interrupt
  <2>2. TypeReceiver' BY <1>22 DEF TypeReceiver, ReceiverLoc, Interrupt
  <2>3. TypeWriter' BY <1>22 DEF TypeWriter, WriterLoc, Interrupt
  <2>4. ASSUME NEW t \in Session PROVE Shape(t)'
    BY <1>22, <2>4 DEF TypeReceiver, TypeWriter, Interrupt, Shape, Busy, Locked, Gone
  <2> QED BY <2>1, <2>2, <2>3, <2>4
<1>23. ASSUME SaveStat PROVE TypeOK'
  <2>1. TypeServer' BY <1>23 DEF TypeServer, SaveStat
  <2>2. TypeReceiver' BY <1>23 DEF TypeReceiver, ReceiverLoc, SaveStat
  <2>3. TypeWriter' BY <1>23 DEF TypeWriter, WriterLoc, SaveStat
  <2>4. ASSUME NEW t \in Session PROVE Shape(t)'
    BY <1>23, <2>4 DEF TypeReceiver, TypeWriter, SaveStat, Shape, Busy, Locked, Gone
  <2> QED BY <2>1, <2>2, <2>3, <2>4
<1>24. ASSUME TruncDB PROVE TypeOK'
  <2>1. TypeServer' BY <1>24 DEF TypeServer, TruncDB
  <2>2. TypeReceiver' BY <1>24 DEF TypeReceiver, ReceiverLoc, TruncDB
  <2>3. TypeWriter' BY <1>24 DEF TypeWriter, WriterLoc, TruncDB
  <2>4. ASSUME NEW t \in Session PROVE Shape(t)'
    BY <1>24, <2>4 DEF TypeReceiver, TypeWriter, TruncDB, Shape, Busy, Locked, Gone
  <2> QED BY <2>1, <2>2, <2>3, <2>4
<1>25. ASSUME WriteDB PROVE TypeOK'
  <2>1. TypeServer' BY <1>25 DEF TypeServer, WriteDB
  <2>2. TypeReceiver' BY <1>25 DEF TypeReceiver, ReceiverLoc, WriteDB
  <2>3. TypeWriter' BY <1>25 DEF TypeWriter, WriterLoc, WriteDB
  <2>4. ASSUME NEW t \in Session PROVE Shape(t)'
    BY <1>25, <2>4 DEF TypeReceiver, TypeWriter, WriteDB, Shape, Busy, Locked, Gone
  <2> QED BY <2>1, <2>2, <2>3, <2>4
<1>26. ASSUME Crash PROVE TypeOK'
  <2>1. TypeServer' BY <1>26 DEF TypeServer, Crash
  <2>2. TypeReceiver' BY <1>26 DEF TypeReceiver, ReceiverLoc, Crash
  <2>3. TypeWriter' BY <1>26 DEF TypeWriter, WriterLoc, Crash
  <2>4. ASSUME NEW t \in Session PROVE Shape(t)'
    BY <1>26, <2>4 DEF TypeReceiver, TypeWriter, Crash, Shape, Busy, Locked, Gone
  <2> QED BY <2>1, <2>2, <2>3, <2>4
<1>27. ASSUME Restart PROVE TypeOK'
  <2>1. TypeServer' BY <1>27 DEF TypeServer, Restart
  <2>2. TypeReceiver' BY <1>27 DEF TypeReceiver, ReceiverLoc, Restart
  <2>3. TypeWriter' BY <1>27 DEF TypeWriter, WriterLoc, Restart
  <2>4. ASSUME NEW t \in Session PROVE Shape(t)'
    BY <1>27, <2>4 DEF TypeReceiver, TypeWriter, Restart, Shape, Busy, Locked, Gone
  <2> QED BY <2>1, <2>2, <2>3, <2>4
<1>28. CASE UNCHANGED vars
  BY <1>28 DEF vars, TypeServer, TypeReceiver, TypeWriter, Shape
<1> QED
  BY <1>1, <1>2, <1>3, <1>4, <1>5, <1>6, <1>7, <1>8, <1>9, <1>10, <1>11, <1>12, <1>13,
     <1>14, <1>15, <1>16, <1>17, <1>18, <1>19, <1>20, <1>21, <1>22, <1>23, <1>24, <1>25,
     <1>26, <1>27, <1>28
  DEF Next, Edge, Receiver, Writer, Handler

\* Every behaviour of the upload path is type-correct: no thread takes the head
\* of a finished batch or adds to a container that was handed over, and no queue
\* exceeds its capacity.
THEOREM TypeCorrect == Spec => []TypeOK
<1>1. Init => TypeOK BY TypeInit
<1>2. TypeOK /\ [Next]_vars => TypeOK' BY TypeNext
<1> QED BY <1>1, <1>2, PTL DEF Spec

-----------------------------------------------------------------------------
(* How the threads of a session, the lock and the handler keep in step.    *)

\* The part of the invariant that does not look at containers or the index.
ControlInv == LockInv /\ DrainInv /\ PhaseInv

\* Before the first login no thread runs and the lock is free.
LEMMA ControlInit == Init => ControlInv
  BY MarkAssumption DEF Init, ControlInv, LockInv, DrainInv, PhaseInv, Locked, Gone

\* Every step keeps the threads in step: the lock is taken and released around
\* the critical section, done_ is set after the last push, the writer returns
\* after the receiver, and CTRLC saves after the joins.
LEMMA ControlNext == TypeOK /\ ControlInv /\ [Next]_vars => ControlInv'
<1> SUFFICES ASSUME TypeOK, ControlInv, [Next]_vars PROVE ControlInv'
  OBVIOUS
<1> USE MarkAssumption
<1> USE DEF TypeOK, TypeServer, TypeReceiver, TypeWriter, ControlInv, LockInv, DrainInv, PhaseInv,
            Locked, Gone, serverVars, indexVars, recvVars, queueVars, writerVars
<1>1. ASSUME NEW s \in Session, Login(s) PROVE ControlInv'
  BY <1>1 DEF Login
<1>2. ASSUME NEW s \in Session, RecvChunks(s) PROVE ControlInv'
  BY <1>2 DEF RecvChunks, Receive
<1>3. ASSUME NEW s \in Session, RecvRecipe(s) PROVE ControlInv'
  BY <1>3 DEF RecvRecipe, Receive
<1>4. ASSUME NEW s \in Session, Close(s) PROVE ControlInv'
  BY <1>4 DEF Close
<1>5. ASSUME NEW s \in Session, LockIndex(s) PROVE ControlInv'
  BY <1>5 DEF LockIndex, LockFree
<1>6. ASSUME NEW s \in Session, DuplicateChunk(s) PROVE ControlInv'
  BY <1>6 DEF DuplicateChunk, NextEntry
<1>7. ASSUME NEW s \in Session, FlushFull(s) PROVE ControlInv'
  BY <1>7 DEF FlushFull
<1>8. ASSUME NEW s \in Session, WriteChunk(s) PROVE ControlInv'
  BY <1>8 DEF WriteChunk
<1>9. ASSUME NEW s \in Session, InsertKey(s) PROVE ControlInv'
  BY <1>9 DEF InsertKey
<1>10. ASSUME NEW s \in Session, AssignValue(s) PROVE ControlInv'
  BY <1>10 DEF AssignValue, NextEntry
<1>11. ASSUME NEW s \in Session, AnswerStored(s) PROVE ControlInv'
  BY <1>11 DEF AnswerStored, NextEntry
<1>12. ASSUME NEW s \in Session, AnswerMissing(s) PROVE ControlInv'
  BY <1>12 DEF AnswerMissing, NextEntry
<1>13. ASSUME NEW s \in Session, FlushLast(s) PROVE ControlInv'
  BY <1>13 DEF FlushLast
<1>14. ASSUME NEW s \in Session, SetDone(s) PROVE ControlInv'
  BY <1>14 DEF SetDone
<1>15. ASSUME NEW s \in Session, Leave(s) PROVE ControlInv'
  BY <1>15 DEF Leave
<1>16. ASSUME NEW s \in Session, CheckDone(s) PROVE ControlInv'
  BY <1>16 DEF CheckDone
<1>17. ASSUME NEW s \in Session, CheckEmpty(s) PROVE ControlInv'
  BY <1>17 DEF CheckEmpty, IsEmpty
<1>18. ASSUME NEW s \in Session, Pop(s) PROVE ControlInv'
  BY <1>18 DEF Pop, IsEmpty
<1>19. ASSUME NEW s \in Session, PopNothing(s) PROVE ControlInv'
  BY <1>19 DEF PopNothing, NextRound
<1>20. ASSUME NEW s \in Session, OpenFile(s) PROVE ControlInv'
  BY <1>20 DEF OpenFile
<1>21. ASSUME NEW s \in Session, WriteFile(s) PROVE ControlInv'
  BY <1>21 DEF WriteFile, NextRound
<1>22. ASSUME Interrupt PROVE ControlInv'
  BY <1>22 DEF Interrupt
<1>23. ASSUME SaveStat PROVE ControlInv'
  BY <1>23 DEF SaveStat
<1>24. ASSUME TruncDB PROVE ControlInv'
  BY <1>24 DEF TruncDB
<1>25. ASSUME WriteDB PROVE ControlInv'
  BY <1>25 DEF WriteDB
<1>26. ASSUME Crash PROVE ControlInv'
  BY <1>26 DEF Crash
<1>27. ASSUME Restart PROVE ControlInv'
  BY <1>27 DEF Restart
<1>28. CASE UNCHANGED vars
  BY <1>28 DEF vars
<1> QED
  BY <1>1, <1>2, <1>3, <1>4, <1>5, <1>6, <1>7, <1>8, <1>9, <1>10, <1>11, <1>12, <1>13,
     <1>14, <1>15, <1>16, <1>17, <1>18, <1>19, <1>20, <1>21, <1>22, <1>23, <1>24, <1>25,
     <1>26, <1>27, <1>28
  DEF Next, Edge, Receiver, Writer, Handler

-----------------------------------------------------------------------------
(* Containers.                                                             *)

\* The step leaves slot l of session t as it is.
Same(t, l) ==
    Occupied(t, l)' = Occupied(t, l) /\ (Occupied(t, l) => At(t, l)' = At(t, l))

\* The step leaves every container in memory where it is.
SlotsSame == \A t \in Session, l \in Slot : Same(t, l)

\* Steps of a session that move no container.
QuietStep(s) ==
    \/ RecvChunks(s) \/ RecvRecipe(s) \/ Close(s) \/ LockIndex(s) \/ DuplicateChunk(s)
    \/ InsertKey(s) \/ AssignValue(s) \/ AnswerStored(s) \/ AnswerMissing(s)
    \/ SetDone(s) \/ Leave(s) \/ CheckDone(s) \/ CheckEmpty(s) \/ PopNothing(s) \/ OpenFile(s)

\* The steps of QuietStep leave every slot as it is; for Leave this needs that
\* the writer has drained the queue.
LEMMA QuietSlots ==
    ASSUME TypeOK, ControlInv, NEW s \in Session, QuietStep(s)
    PROVE  SlotsSame
<1> USE DEF TypeOK, TypeReceiver, TypeWriter, SlotsSame, Same, Occupied, At,
            Locked, Gone, serverVars, indexVars, recvVars, queueVars, writerVars
<1>1. CASE RecvChunks(s)
  BY <1>1 DEF RecvChunks, Receive
<1>2. CASE RecvRecipe(s)
  BY <1>2 DEF RecvRecipe, Receive
<1>3. CASE Close(s)
  BY <1>3 DEF Close
<1>4. CASE LockIndex(s)
  BY <1>4 DEF LockIndex, LockFree
<1>5. CASE DuplicateChunk(s)
  BY <1>5 DEF DuplicateChunk, NextEntry
<1>6. CASE InsertKey(s)
  BY <1>6 DEF InsertKey
<1>7. CASE AssignValue(s)
  BY <1>7 DEF AssignValue, NextEntry
<1>8. CASE AnswerStored(s)
  BY <1>8 DEF AnswerStored, NextEntry
<1>9. CASE AnswerMissing(s)
  BY <1>9 DEF AnswerMissing, NextEntry
<1>10. CASE SetDone(s)
  BY <1>10 DEF SetDone
<1>11. CASE Leave(s)
  BY <1>11 DEF Leave, ControlInv, DrainInv
<1>12. CASE CheckDone(s)
  BY <1>12 DEF CheckDone
<1>13. CASE CheckEmpty(s)
  BY <1>13 DEF CheckEmpty, IsEmpty
<1>14. CASE PopNothing(s)
  BY <1>14 DEF PopNothing, NextRound
<1>15. CASE OpenFile(s)
  BY <1>15 DEF OpenFile
<1> QED
  BY <1>1, <1>2, <1>3, <1>4, <1>5, <1>6, <1>7, <1>8, <1>9, <1>10, <1>11, <1>12, <1>13,
     <1>14, <1>15 DEF QuietStep

\* Login opens a container with an id that was never drawn before.
LEMMA LoginSlots ==
    ASSUME TypeOK, ControlInv, NEW s \in Session, Login(s)
    PROVE  \E id \in ContainerID \ used, n \in Residue :
             /\ used' = used \union {id}
             /\ ~ Occupied(s, 0) /\ Occupied(s, 0)' /\ At(s, 0)' = NewContainer(id, n)
             /\ \A t \in Session, l \in Slot : (t # s \/ l # 0) => Same(t, l)
<1>1. PICK id \in FreshIDs, n \in Residue :
         cur' = [cur EXCEPT ![s] = NewContainer(id, n)] /\ used' = used \union {id}
  BY DEF Login
<1>2. id \in ContainerID \ used
  BY UUIDAssumption DEF FreshIDs
<1>3. ~ Occupied(s, 0) /\ Occupied(s, 0)' /\ At(s, 0)' = NewContainer(id, n)
  BY <1>1 DEF Login, Occupied, At, TypeOK, TypeReceiver, Gone
<1>4. ASSUME NEW t \in Session, NEW l \in Slot, t # s \/ l # 0 PROVE Same(t, l)
  BY <1>1, <1>4 DEF Login, Same, Occupied, At, TypeOK, TypeReceiver, TypeWriter, ControlInv, DrainInv,
                    Gone, queueVars
<1> QED BY <1>1, <1>2, <1>3, <1>4

\* Push moves the open container to the end of the queue.
LEMMA PushSlots ==
    ASSUME TypeOK, ControlInv, NEW s \in Session, Room(s),
           rpc[s] \notin Gone \union {"setdone", "join"},
           mq' = [mq EXCEPT ![s] = Append(@, cur[s])],
           UNCHANGED <<tmp, wpc>>
    PROVE  /\ Occupied(s, 0)
           /\ \E n \in Slot \ {0, -1} :
                 /\ ~ Occupied(s, n) /\ Occupied(s, n)' /\ At(s, n)' = At(s, 0)
                 /\ \A l \in Slot : l # 0 /\ l # n => Same(s, l)
<1> PICK n : n = Len(mq[s]) + 1
  OBVIOUS
<1>1. mq[s] \in Seq(Container) /\ cur[s] \in Container /\ Len(mq[s]) \in Nat
  BY DEF TypeOK, TypeWriter, Shape
<1>2. mq'[s] = Append(mq[s], cur[s])
  BY DEF TypeOK, TypeWriter
<1>3. /\ Len(mq'[s]) = n /\ mq'[s][n] = cur[s]
      /\ \A i \in 1 .. Len(mq[s]) : mq'[s][i] = mq[s][i]
  BY <1>1, <1>2
<1>4. n \in Slot \ {0, -1}
  BY <1>1, BoundAssumption DEF Room, Slot
<1>5. Occupied(s, 0)
  BY DEF Occupied
<1>6. ~ Occupied(s, n) /\ Occupied(s, n)' /\ At(s, n)' = At(s, 0)
  BY <1>1, <1>3 DEF Occupied, At
<1>7. ASSUME NEW l \in Slot, l # 0, l # n PROVE Same(s, l)
  BY <1>1, <1>3, <1>7 DEF Same, Occupied, At, Slot
<1> QED BY <1>4, <1>5, <1>6, <1>7

\* A full container moves from slot 0 to the end of the queue; a fresh one takes
\* its place.
LEMMA FlushFullSlots ==
    ASSUME TypeOK, ControlInv, NEW s \in Session, FlushFull(s)
    PROVE  \E id \in ContainerID \ used :
             /\ used' = used \union {id}
             /\ Occupied(s, 0) /\ Occupied(s, 0)' /\ At(s, 0)' = NewContainer(id, 0)
             /\ \E n \in Slot \ {0, -1} :
                   /\ ~ Occupied(s, n) /\ Occupied(s, n)' /\ At(s, n)' = At(s, 0)
                   /\ \A t \in Session, l \in Slot :
                         (t # s \/ (l # 0 /\ l # n)) => Same(t, l)
<1>1. PICK id \in FreshIDs :
         cur' = [cur EXCEPT ![s] = NewContainer(id, 0)] /\ used' = used \union {id}
  BY DEF FlushFull
<1>2. id \in ContainerID \ used
  BY UUIDAssumption DEF FreshIDs
<1>3. /\ Occupied(s, 0)
      /\ \E n \in Slot \ {0, -1} :
            /\ ~ Occupied(s, n) /\ Occupied(s, n)' /\ At(s, n)' = At(s, 0)
            /\ \A l \in Slot : l # 0 /\ l # n => Same(s, l)
  BY PushSlots DEF FlushFull, Gone, writerVars
<1>4. Occupied(s, 0)' /\ At(s, 0)' = NewContainer(id, 0)
  BY <1>1 DEF FlushFull, Occupied, At, TypeOK, TypeReceiver, Gone
<1>5. ASSUME NEW t \in Session, NEW l \in Slot, t # s PROVE Same(t, l)
  BY <1>1, <1>5 DEF FlushFull, Same, Occupied, At, TypeOK, TypeReceiver, TypeWriter, writerVars
<1> QED BY <1>1, <1>2, <1>3, <1>4, <1>5

\* The last container moves to the end of the queue, or is dropped when it has
\* no header.
LEMMA FlushLastSlots ==
    ASSUME TypeOK, ControlInv, NEW s \in Session, FlushLast(s)
    PROVE  /\ Occupied(s, 0) /\ ~ Occupied(s, 0)'
           /\ \/ /\ ~ HasChunks(At(s, 0))
                 /\ \A t \in Session, l \in Slot : (t # s \/ l # 0) => Same(t, l)
              \/ \E n \in Slot \ {0, -1} :
                    /\ ~ Occupied(s, n) /\ Occupied(s, n)' /\ At(s, n)' = At(s, 0)
                    /\ \A t \in Session, l \in Slot :
                          (t # s \/ (l # 0 /\ l # n)) => Same(t, l)
<1>1. Occupied(s, 0) /\ ~ Occupied(s, 0)'
  BY DEF FlushLast, Occupied, TypeOK, TypeReceiver, Gone
<1>2. ASSUME NEW t \in Session, NEW l \in Slot, t # s PROVE Same(t, l)
  BY <1>2 DEF FlushLast, Same, Occupied, At, TypeOK, TypeReceiver, TypeWriter, writerVars
<1>3. CASE HasChunks(cur[s])
  BY <1>1, <1>2, <1>3, PushSlots DEF FlushLast, Gone, writerVars
<1>4. CASE ~ HasChunks(cur[s])
  <2>1. ASSUME NEW l \in Slot, l # 0 PROVE Same(s, l)
    BY <1>4, <2>1 DEF FlushLast, Same, Occupied, At, TypeOK, TypeReceiver, TypeWriter, writerVars
  <2> QED BY <1>1, <1>2, <1>4, <2>1 DEF At
<1> QED BY <1>3, <1>4

\* WriteContainer adds the chunk to the open container and moves nothing.
LEMMA WriteChunkSlots ==
    ASSUME TypeOK, ControlInv, NEW s \in Session, WriteChunk(s)
    PROVE  /\ Occupied(s, 0) /\ Occupied(s, 0)'
           /\ At(s, 0)' = AddChunk(At(s, 0), Head(todo[s]))
           /\ \A t \in Session, l \in Slot : (t # s \/ l # 0) => Same(t, l)
  BY DEF WriteChunk, Same, Occupied, At, TypeOK, TypeReceiver, TypeWriter, Gone, queueVars, writerVars

\* Pop moves the head of the queue to the writer, and the rest one slot on.
LEMMA PopSlots ==
    ASSUME TypeOK, ControlInv, NEW s \in Session, Pop(s)
    PROVE  /\ ~ Occupied(s, -1) /\ Occupied(s, -1)' /\ wpc'[s] # "write"
           /\ 1 \in Slot /\ Occupied(s, 1) /\ At(s, -1)' = At(s, 1)
           /\ \A l \in Slot : l >= 1 /\ Occupied(s, l)' =>
                 l + 1 \in Slot /\ Occupied(s, l + 1) /\ At(s, l)' = At(s, l + 1)
           /\ \A l \in Slot : l >= 2 /\ Occupied(s, l) =>
                 l - 1 \in Slot /\ Occupied(s, l - 1)' /\ At(s, l - 1)' = At(s, l)
           /\ Same(s, 0)
           /\ \A t \in Session, l \in Slot : t # s => Same(t, l)
<1>1. mq[s] \in Seq(Container) /\ mq[s] # << >> /\ Len(mq[s]) \in Nat /\ Len(mq[s]) # 0
  BY DEF Pop, IsEmpty, TypeOK, TypeWriter
<1>2. mq'[s] = Tail(mq[s]) /\ tmp'[s] = Head(mq[s]) /\ wpc[s] = "pop" /\ wpc'[s] = "open"
  BY DEF Pop, TypeOK, TypeWriter
<1>3. /\ Len(mq'[s]) = Len(mq[s]) - 1 /\ tmp'[s] = mq[s][1]
      /\ \A i \in 1 .. Len(mq[s]) - 1 : mq'[s][i] = mq[s][i + 1]
  BY <1>1, <1>2
<1>4. Len(mq[s]) <= QueueCapacity /\ QueueCapacity \in Nat
  BY BoundAssumption DEF TypeOK, Shape
<1>5. ~ Occupied(s, -1) /\ Occupied(s, -1)' /\ wpc'[s] # "write"
  BY <1>1, <1>2, <1>3 DEF Occupied
<1>6. 1 \in Slot /\ Occupied(s, 1) /\ At(s, -1)' = At(s, 1)
  BY <1>1, <1>2, <1>3, <1>4 DEF Occupied, At, Slot
<1>7. ASSUME NEW l \in Slot, l >= 1, Occupied(s, l)'
      PROVE  l + 1 \in Slot /\ Occupied(s, l + 1) /\ At(s, l)' = At(s, l + 1)
  BY <1>1, <1>2, <1>3, <1>4, <1>7 DEF Occupied, At, Slot
<1>8. ASSUME NEW l \in Slot, l >= 2, Occupied(s, l)
      PROVE  l - 1 \in Slot /\ Occupied(s, l - 1)' /\ At(s, l - 1)' = At(s, l)
  BY <1>1, <1>2, <1>3, <1>4, <1>8 DEF Occupied, At, Slot
<1>9. Same(s, 0)
  BY <1>1, <1>3 DEF Pop, Same, Occupied, At, recvVars
<1>10. ASSUME NEW t \in Session, NEW l \in Slot, t # s PROVE Same(t, l)
  BY <1>10 DEF Pop, Same, Occupied, At, TypeOK, TypeWriter, recvVars
<1> QED BY <1>5, <1>6, <1>7, <1>8, <1>9, <1>10

\* SaveToFile empties the slot of the writer.
LEMMA WriteFileSlots ==
    ASSUME TypeOK, ControlInv, NEW s \in Session, WriteFile(s)
    PROVE  /\ Occupied(s, -1) /\ ~ Occupied(s, -1)' /\ At(s, -1) = tmp[s]
           /\ \A t \in Session, l \in Slot : (t # s \/ l # -1) => Same(t, l)
<1>1. Occupied(s, -1) /\ ~ Occupied(s, -1)' /\ At(s, -1) = tmp[s]
  BY DEF WriteFile, NextRound, Occupied, At, TypeOK, TypeWriter
<1>2. ASSUME NEW t \in Session, NEW l \in Slot, t # s \/ l # -1 PROVE Same(t, l)
  BY <1>2 DEF WriteFile, NextRound, Same, Occupied, At, TypeOK, TypeWriter, recvVars, queueVars
<1> QED BY <1>1, <1>2

\* A crash empties every slot.
LEMMA CrashSlots ==
    ASSUME Crash PROVE \A t \in Session, l \in Slot : ~ Occupied(t, l)'
  BY DEF Crash, Occupied, Gone, Slot

\* Steps of the main thread leave the slots alone.
LEMMA ServerSlots ==
    ASSUME Interrupt \/ SaveStat \/ TruncDB \/ WriteDB \/ Restart PROVE SlotsSame
  BY DEF Interrupt, SaveStat, TruncDB, WriteDB, Restart, SlotsSame, Same, Occupied, At,
         recvVars, queueVars, writerVars

\* What is in a slot is a container, with a container id.
LEMMA SlotType ==
    ASSUME TypeOK
    PROVE  \A s \in Session, l \in Slot : Occupied(s, l) =>
               At(s, l) \in Container /\ At(s, l).id \in ContainerID
<1> SUFFICES ASSUME NEW s \in Session, NEW l \in Slot, Occupied(s, l)
             PROVE  At(s, l) \in Container
  BY DEF Container
<1> QED BY DEF TypeOK, TypeWriter, Shape, Occupied, At, Gone

\* The fields of a fresh container (InitUploadBuffer, and WriteContainer after a
\* flush).
LEMMA NewContainerFields ==
    \A id, n : /\ NewContainer(id, n).id = id /\ NewContainer(id, n).chunks = {}
               /\ NewContainer(id, n).header = 0 /\ NewContainer(id, n).body = 0
  BY DEF NewContainer

\* The fields of a container after WriteContainer has added a chunk.
LEMMA AddChunkFields ==
    \A k, c : /\ AddChunk(k, c).id = k.id /\ AddChunk(k, c).chunks = k.chunks \union {c}
              /\ AddChunk(k, c).header = k.header + EntrySize
              /\ AddChunk(k, c).body = k.body + ChunkSize[c]
  BY DEF AddChunk

-----------------------------------------------------------------------------
(* The ids of the containers in memory.                                    *)

\* At first there is neither a container in memory nor a file.
LEMMA SlotInit == Init => SlotInv
  BY DEF Init, SlotInv, UniqueInv, FileInv, Occupied, Gone, Slot

\* Steps that leave the slots, the files and the ids alone keep SlotInv.
LEMMA SlotSame ==
    ASSUME SlotInv, SlotsSame, UNCHANGED <<disk, used>>,
           \A t \in Session : wpc'[t] = "write" <=> wpc[t] = "write"
    PROVE  SlotInv'
  BY DEF SlotInv, UniqueInv, FileInv, SlotsSame, Same

\* No step brings a container id into two slots, or a complete file under the id
\* of a container that is still in memory.
LEMMA SlotNext == TypeOK /\ ControlInv /\ SlotInv /\ [Next]_vars => SlotInv'
<1> SUFFICES ASSUME TypeOK, ControlInv, SlotInv, [Next]_vars PROVE SlotInv'
  OBVIOUS
<1>1. ASSUME NEW s \in Session, Login(s) PROVE SlotInv'
  <2>1. PICK id \in ContainerID \ used, n \in Residue :
             /\ used' = used \union {id}
             /\ ~ Occupied(s, 0) /\ Occupied(s, 0)' /\ At(s, 0)' = NewContainer(id, n)
             /\ \A t \in Session, l \in Slot : (t # s \/ l # 0) => Same(t, l)
    BY <1>1, LoginSlots
  <2>2. At(s, 0)'.id = id
    BY <2>1, NewContainerFields
  <2>3. UniqueInv'
    BY <2>1, <2>2 DEF SlotInv, UniqueInv, FileInv, Same
  <2>4. disk' = disk /\ \A t \in Session : wpc'[t] = "write" <=> wpc[t] = "write"
    BY <1>1 DEF Login, TypeOK, TypeWriter, ControlInv, DrainInv, Gone
  <2>5. FileInv'
    BY <2>1, <2>2, <2>4 DEF SlotInv, FileInv, Same
  <2> QED BY <2>3, <2>5 DEF SlotInv
<1>2. ASSUME NEW s \in Session, FlushFull(s) PROVE SlotInv'
  <2>1. PICK id \in ContainerID \ used :
             /\ used' = used \union {id}
             /\ Occupied(s, 0) /\ Occupied(s, 0)' /\ At(s, 0)' = NewContainer(id, 0)
             /\ \E n \in Slot \ {0, -1} :
                   /\ ~ Occupied(s, n) /\ Occupied(s, n)' /\ At(s, n)' = At(s, 0)
                   /\ \A t \in Session, l \in Slot :
                         (t # s \/ (l # 0 /\ l # n)) => Same(t, l)
    BY <1>2, FlushFullSlots
  <2>2. PICK n \in Slot \ {0, -1} :
                   /\ ~ Occupied(s, n) /\ Occupied(s, n)' /\ At(s, n)' = At(s, 0)
                   /\ \A t \in Session, l \in Slot :
                         (t # s \/ (l # 0 /\ l # n)) => Same(t, l)
    BY <2>1
  <2>3. At(s, 0)'.id = id /\ 0 \in Slot /\ id \notin used
    BY <2>1, NewContainerFields, BoundAssumption DEF Slot
  <2>4. UniqueInv'
    <3> SUFFICES ASSUME NEW t \in Session, NEW u \in Session, NEW l \in Slot, NEW m \in Slot,
                        Occupied(t, l)', Occupied(u, m)', At(t, l)'.id = At(u, m)'.id
                 PROVE  t = u /\ l = m
      BY DEF UniqueInv
    <3> QED BY <2>1, <2>2, <2>3 DEF SlotInv, UniqueInv, FileInv, Same
  <2>5. disk' = disk /\ wpc' = wpc
    BY <1>2 DEF FlushFull, writerVars
  <2>6. FileInv'
    BY <2>1, <2>2, <2>3, <2>5 DEF SlotInv, FileInv, Same
  <2> QED BY <2>4, <2>6 DEF SlotInv
<1>3. ASSUME NEW s \in Session, WriteChunk(s) PROVE SlotInv'
  <2>1. At(s, 0)'.id = At(s, 0).id
    BY <1>3, WriteChunkSlots, AddChunkFields
  <2>2. UNCHANGED <<disk, used, wpc>>
    BY <1>3 DEF WriteChunk, writerVars
  <2> QED BY <1>3, <2>1, <2>2, WriteChunkSlots DEF SlotInv, UniqueInv, FileInv, Same
<1>4. ASSUME NEW s \in Session, FlushLast(s) PROVE SlotInv'
  <2>1. UNCHANGED <<disk, used, wpc>>
    BY <1>4 DEF FlushLast, writerVars
  <2>2. Occupied(s, 0) /\ ~ Occupied(s, 0)' /\ 0 \in Slot
    BY <1>4, FlushLastSlots, BoundAssumption DEF Slot
  <2>3. CASE \A t \in Session, l \in Slot : (t # s \/ l # 0) => Same(t, l)
    BY <2>1, <2>2, <2>3 DEF SlotInv, UniqueInv, FileInv, Same
  <2>4. ASSUME NEW n \in Slot \ {0, -1},
               ~ Occupied(s, n) /\ Occupied(s, n)' /\ At(s, n)' = At(s, 0),
               \A t \in Session, l \in Slot : (t # s \/ (l # 0 /\ l # n)) => Same(t, l)
        PROVE  SlotInv'
    <3>1. UniqueInv'
      BY <2>2, <2>4 DEF SlotInv, UniqueInv, Same
    <3>2. FileInv'
      BY <2>1, <2>2, <2>4 DEF SlotInv, FileInv, Same
    <3> QED BY <3>1, <3>2 DEF SlotInv
  <2> QED BY <1>4, <2>3, <2>4, FlushLastSlots
<1>5. ASSUME NEW s \in Session, Pop(s) PROVE SlotInv'
  <2>1. /\ ~ Occupied(s, -1) /\ Occupied(s, -1)' /\ wpc'[s] # "write"
        /\ 1 \in Slot /\ Occupied(s, 1) /\ At(s, -1)' = At(s, 1)
        /\ \A l \in Slot : l >= 1 /\ Occupied(s, l)' =>
                 l + 1 \in Slot /\ Occupied(s, l + 1) /\ At(s, l)' = At(s, l + 1)
        /\ Same(s, 0)
        /\ \A t \in Session, l \in Slot : t # s => Same(t, l)
    BY <1>5, PopSlots
  <2>2. disk' = disk /\ used' = used /\ \A t \in Session : t # s => wpc'[t] = wpc[t]
    BY <1>5 DEF Pop, TypeOK, TypeWriter
  <2>3. /\ Slot \subseteq Int /\ 0 \in Slot /\ -1 \in Slot
        /\ \A l \in Slot : l = -1 \/ l = 0 \/ l >= 1
    BY BoundAssumption DEF Slot
  <2>4. \A l \in Slot : Occupied(s, l)' =>
           \E m \in Slot : /\ Occupied(s, m) /\ At(s, l)' = At(s, m)
                          /\ m = IF l = -1 THEN 1 ELSE IF l = 0 THEN 0 ELSE l + 1
    BY <2>1, <2>3 DEF Same
  <2>5. UniqueInv'
    BY <2>1, <2>3, <2>4 DEF SlotInv, UniqueInv, Same
  <2>6. FileInv'
    BY <2>1, <2>2, <2>3, <2>4 DEF SlotInv, FileInv, Same
  <2> QED BY <2>5, <2>6 DEF SlotInv
<1>6. ASSUME NEW s \in Session, OpenFile(s) PROVE SlotInv'
  <2>1. SlotsSame
    BY <1>6, QuietSlots DEF QuietStep
  <2>2. UniqueInv'
    BY <2>1 DEF SlotsSame, Same, SlotInv, UniqueInv
  <2>3. /\ Occupied(s, -1) /\ At(s, -1) = tmp[s] /\ -1 \in Slot
        /\ disk' = [disk EXCEPT ![tmp[s].id] = Partial]
        /\ used' = used /\ wpc'[s] = "write"
        /\ \A t \in Session : t # s => wpc'[t] = wpc[t]
    BY <1>6, BoundAssumption DEF OpenFile, Occupied, At, Slot, TypeOK, TypeWriter
  <2>4. disk \in [ContainerID -> Container \union {None, Partial}]
    BY DEF TypeOK, TypeWriter
  <2>5. FileInv'
    BY <2>1, <2>3, <2>4, SlotType DEF SlotsSame, Same, SlotInv, FileInv, UniqueInv
  <2> QED BY <2>2, <2>5 DEF SlotInv
<1>7. ASSUME NEW s \in Session, WriteFile(s) PROVE SlotInv'
  <2>1. /\ Occupied(s, -1) /\ ~ Occupied(s, -1)' /\ At(s, -1) = tmp[s]
        /\ \A t \in Session, l \in Slot : (t # s \/ l # -1) => Same(t, l)
    BY <1>7, WriteFileSlots
  <2>2. /\ disk' = [disk EXCEPT ![tmp[s].id] = tmp[s]] /\ used' = used /\ -1 \in Slot
        /\ \A t \in Session : t # s => wpc'[t] = wpc[t]
    BY <1>7, BoundAssumption DEF WriteFile, NextRound, TypeOK, TypeWriter, Slot
  <2>3. disk \in [ContainerID -> Container \union {None, Partial}]
    BY DEF TypeOK, TypeWriter
  <2>4. UniqueInv'
    BY <2>1 DEF Same, SlotInv, UniqueInv
  <2>5. FileInv'
    BY <2>1, <2>2, <2>3, SlotType DEF Same, SlotInv, FileInv, UniqueInv
  <2> QED BY <2>4, <2>5 DEF SlotInv
<1>8. ASSUME Crash PROVE SlotInv'
  <2>1. disk' = disk /\ used' = used
    BY <1>8 DEF Crash
  <2> QED BY <1>8, <2>1, CrashSlots DEF SlotInv, UniqueInv, FileInv
<1>9. ASSUME NEW s \in Session, QuietStep(s), ~ OpenFile(s) PROVE SlotInv'
  <2>1. SlotsSame
    BY <1>9, QuietSlots
  <2>2. UNCHANGED <<disk, used>> /\ \A t \in Session : wpc'[t] = "write" <=> wpc[t] = "write"
    BY <1>9 DEF QuietStep, TypeOK, TypeWriter, writerVars,
       RecvChunks, RecvRecipe, Close, LockIndex, DuplicateChunk, InsertKey, AssignValue,
       AnswerStored, AnswerMissing, SetDone, Leave, CheckDone, CheckEmpty, PopNothing, NextRound
  <2> QED BY <2>1, <2>2, SlotSame
<1>10. ASSUME Interrupt \/ SaveStat \/ TruncDB \/ WriteDB \/ Restart PROVE SlotInv'
  <2>1. UNCHANGED <<disk, used, wpc>>
    BY <1>10 DEF Interrupt, SaveStat, TruncDB, WriteDB, Restart, writerVars
  <2> QED BY <1>10, <2>1, ServerSlots, SlotSame
<1>11. CASE UNCHANGED vars
  BY <1>11 DEF vars, SlotInv, UniqueInv, FileInv, Occupied, At, recvVars, queueVars, writerVars
<1> QED
  BY <1>1, <1>2, <1>3, <1>4, <1>5, <1>6, <1>7, <1>8, <1>9, <1>10, <1>11
     DEF Next, Edge, Receiver, Writer, Handler, QuietStep

-----------------------------------------------------------------------------
(* The insertion under way.                                                *)

\* At first no insertion is under way.
LEMMA InsertInit == Init => InsertInv
  BY MarkAssumption DEF Init, InsertInv

\* The index lock makes check and insert one: between the lookup that misses and
\* the assignment no other session touches the key.
LEMMA InsertNext == TypeOK /\ ControlInv /\ InsertInv /\ PlaceInv /\ [Next]_vars => InsertInv'
<1> SUFFICES ASSUME TypeOK, ControlInv, InsertInv, PlaceInv, [Next]_vars PROVE InsertInv'
  OBVIOUS
<1> USE MarkAssumption, AtHand, AddChunkFields
<1> USE DEF TypeOK, TypeServer, TypeReceiver, ControlInv, LockInv, PhaseInv, InsertInv,
            Locked, Gone, Busy, serverVars, indexVars, recvVars, queueVars, writerVars
<1>1. ASSUME NEW s \in Session, Login(s) PROVE InsertInv'
  BY <1>1 DEF Login
<1>2. ASSUME NEW s \in Session, RecvChunks(s) PROVE InsertInv'
  BY <1>2 DEF RecvChunks, Receive
<1>3. ASSUME NEW s \in Session, RecvRecipe(s) PROVE InsertInv'
  BY <1>3 DEF RecvRecipe, Receive
<1>4. ASSUME NEW s \in Session, Close(s) PROVE InsertInv'
  BY <1>4 DEF Close
<1>5. ASSUME NEW s \in Session, LockIndex(s) PROVE InsertInv'
  BY <1>5 DEF LockIndex, LockFree
<1>6. ASSUME NEW s \in Session, DuplicateChunk(s) PROVE InsertInv'
  BY <1>6 DEF DuplicateChunk, NextEntry
<1>7. ASSUME NEW s \in Session, FlushFull(s) PROVE InsertInv'
  BY <1>7 DEF FlushFull, Room
<1>8. ASSUME NEW s \in Session, WriteChunk(s) PROVE InsertInv'
  BY <1>8 DEF WriteChunk
<1>9. ASSUME NEW s \in Session, InsertKey(s) PROVE InsertInv'
  BY <1>9 DEF InsertKey
<1>10. ASSUME NEW s \in Session, AssignValue(s) PROVE InsertInv'
  <2>1. rpc'[s] \in {"recv", "chunk"} /\ \A t \in Session : t # s => rpc'[t] = rpc[t] /\ rpc[t] \notin Locked
    BY <1>10 DEF AssignValue, NextEntry
  <2>2. index' = [index EXCEPT ![Head(todo[s])] = cur[s].id] /\ cur[s].id # Empty
    BY <1>10, SMTT(30) DEF AssignValue
  <2>3. ASSUME NEW c \in Chunk, index'[c] = Empty PROVE FALSE
    <3>1. c # Head(todo[s]) BY <1>10, <2>2, <2>3
    <3>2. index[c] = Empty BY <2>2, <2>3, <3>1
    <3>3. PICK t \in Session : rpc[t] = "assign" /\ Head(todo[t]) = c BY <3>2
    <3> QED BY <2>1, <3>1, <3>3
  <2> QED BY <2>1, <2>3
<1>11. ASSUME NEW s \in Session, AnswerStored(s) PROVE InsertInv'
  BY <1>11 DEF AnswerStored, NextEntry
<1>12. ASSUME NEW s \in Session, AnswerMissing(s) PROVE InsertInv'
  BY <1>12 DEF AnswerMissing, NextEntry
<1>13. ASSUME NEW s \in Session, FlushLast(s) PROVE InsertInv'
  BY <1>13 DEF FlushLast, Room
<1>14. ASSUME NEW s \in Session, SetDone(s) PROVE InsertInv'
  BY <1>14 DEF SetDone
<1>15. ASSUME NEW s \in Session, Leave(s) PROVE InsertInv'
  BY <1>15 DEF Leave
<1>16. ASSUME NEW s \in Session, CheckDone(s) PROVE InsertInv'
  BY <1>16 DEF CheckDone
<1>17. ASSUME NEW s \in Session, CheckEmpty(s) PROVE InsertInv'
  BY <1>17 DEF CheckEmpty, IsEmpty
<1>18. ASSUME NEW s \in Session, Pop(s) PROVE InsertInv'
  BY <1>18 DEF Pop, IsEmpty
<1>19. ASSUME NEW s \in Session, PopNothing(s) PROVE InsertInv'
  BY <1>19 DEF PopNothing, NextRound
<1>20. ASSUME NEW s \in Session, OpenFile(s) PROVE InsertInv'
  BY <1>20 DEF OpenFile
<1>21. ASSUME NEW s \in Session, WriteFile(s) PROVE InsertInv'
  BY <1>21 DEF WriteFile, NextRound
<1>22. ASSUME Interrupt PROVE InsertInv'
  BY <1>22 DEF Interrupt
<1>23. ASSUME SaveStat PROVE InsertInv'
  BY <1>23 DEF SaveStat
<1>24. ASSUME TruncDB PROVE InsertInv'
  BY <1>24 DEF TruncDB
<1>25. ASSUME WriteDB PROVE InsertInv'
  BY <1>25 DEF WriteDB
<1>26. ASSUME Crash PROVE InsertInv'
  BY <1>26 DEF Crash
<1>27. ASSUME Restart PROVE InsertInv'
  <2>1. \A c \in Chunk : db[c] # Empty
    BY DEF PlaceInv
  <2> QED BY <1>27, <2>1 DEF Restart
<1>28. CASE UNCHANGED vars
  BY <1>28 DEF vars
<1> QED
  BY <1>1, <1>2, <1>3, <1>4, <1>5, <1>6, <1>7, <1>8, <1>9, <1>10, <1>11, <1>12, <1>13,
     <1>14, <1>15, <1>16, <1>17, <1>18, <1>19, <1>20, <1>21, <1>22, <1>23, <1>24, <1>25, <1>26,
     <1>27, <1>28
  DEF Next, Edge, Receiver, Writer, Handler

\* A session that is gone has no container in memory.
LEMMA GoneSlots ==
    ASSUME ControlInv, NEW s \in Session, rpc[s] \in Gone
    PROVE  \A l \in Slot : ~ Occupied(s, l)
<1>1. wpc[s] \in {"off", "exit"} /\ mq[s] = << >>
  BY DEF ControlInv, DrainInv
<1>2. Len(mq[s]) = 0
  BY <1>1
<1> QED BY <1>1, <1>2 DEF Occupied, Slot

-----------------------------------------------------------------------------
(* Sizes.                                                                  *)

\* At first there is no container.
LEMMA SizeInit == Init => SizeInv
  BY DEF Init, SizeInv, Occupied, Gone, Slot

\* The test of WriteContainer keeps every container within the buffer.
LEMMA SizeNext == TypeOK /\ ControlInv /\ SizeInv /\ [Next]_vars => SizeInv'
<1> SUFFICES ASSUME TypeOK, ControlInv, SizeInv, [Next]_vars PROVE SizeInv'
  OBVIOUS
<1> DEFINE Fits(k) == /\ SerialisedSize(k) <= MAX_CONTAINER_SIZE
                      /\ k.chunks # {} => k.header # 0
<1>1. \A id, n : Fits(NewContainer(id, n))
  BY NewContainerFields, ChunkAssumption DEF SerialisedSize, CountSize
<1>2. \A t \in Session, l \in Slot : Occupied(t, l) => Fits(At(t, l))
  BY DEF SizeInv
<1>3. ASSUME NEW s \in Session, Login(s) PROVE SizeInv'
  <2>1. \A t \in Session, l \in Slot : Occupied(t, l)' => Fits(At(t, l)')
    BY <1>1, <1>2, <1>3, LoginSlots DEF Same
  <2>2. \A t \in Session : rpc'[t] = "append" => rpc[t] = "append" /\ t # s
    BY <1>3 DEF Login, TypeOK, TypeReceiver
  <2> QED BY <1>3, <2>1, <2>2, LoginSlots DEF SizeInv, Same
<1>4. ASSUME NEW s \in Session, FlushFull(s) PROVE SizeInv'
  <2>1. \A t \in Session, l \in Slot : Occupied(t, l)' => Fits(At(t, l)')
    BY <1>1, <1>2, <1>4, FlushFullSlots, BoundAssumption DEF Same, Slot
  <2>2. \A t \in Session : t # s => rpc'[t] = rpc[t]
    BY <1>4 DEF FlushFull, TypeOK, TypeReceiver
  <2> QED BY <1>4, <2>1, <2>2, FlushFullSlots, NewContainerFields DEF SizeInv, Same
<1>5. ASSUME NEW s \in Session, WriteChunk(s) PROVE SizeInv'
  <2> DEFINE c == Head(todo[s])
  <2> DEFINE k == At(s, 0)
  <2>1. /\ Occupied(s, 0) /\ Occupied(s, 0)' /\ k' = AddChunk(k, c)
        /\ \A t \in Session, l \in Slot : (t # s \/ l # 0) => Same(t, l)
    BY <1>5, WriteChunkSlots
  <2>2. c \in Chunk /\ k \in Container /\ k = cur[s]
    BY <1>5, AtHand DEF WriteChunk, At, Busy, Locked, Gone
  <2>3. k.body \in Nat /\ k.header \in Nat /\ ChunkSize[c] \in Nat /\ MAX_CONTAINER_SIZE \in Nat
    BY <2>2, ChunkAssumption DEF Container
  <2>4. 0 \in Slot
    BY BoundAssumption DEF Slot
  <2>5. SerialisedSize(AddChunk(k, c)) <= MAX_CONTAINER_SIZE
    <3>1. SerialisedSize(AddChunk(k, c)) = ChunkSize[c] + EntrySize + k.body + k.header + CountSize
      BY <2>3, AddChunkFields DEF SerialisedSize, EntrySize, CHUNK_HASH_SIZE, CountSize
    <3>2. CASE rpc[s] = "append"
      <4>1. k.header = 0 /\ k.body = 0
        BY <2>1, <2>4, <3>2 DEF SizeInv
      <4> QED BY <2>2, <2>3, <3>1, <4>1, ChunkAssumption DEF EntrySize, CHUNK_HASH_SIZE, CountSize
    <3>3. CASE ~ Full(cur[s], c)
      BY <2>2, <2>3, <3>1, <3>3 DEF Full, EntrySize, CHUNK_HASH_SIZE, CountSize
    <3> QED BY <1>5, <3>2, <3>3 DEF WriteChunk
  <2>6. AddChunk(k, c).header # 0
    BY <2>3, AddChunkFields DEF EntrySize, CHUNK_HASH_SIZE
  <2>7. \A t \in Session : rpc'[t] = "append" => rpc[t] = "append" /\ t # s
    BY <1>5 DEF WriteChunk, TypeOK, TypeReceiver
  <2> HIDE DEF k, c
  <2>8. Fits(k')
    BY <2>1, <2>5, <2>6
  <2> QED BY <2>1, <2>7, <2>8 DEF SizeInv, Same, k
<1>6. ASSUME NEW s \in Session, FlushLast(s) PROVE SizeInv'
  <2>1. \A t \in Session, l \in Slot : Occupied(t, l)' => Fits(At(t, l)')
    BY <1>2, <1>6, FlushLastSlots, BoundAssumption DEF Same, Slot
  <2>2. \A t \in Session : rpc'[t] = "append" => rpc[t] = "append" /\ t # s
    BY <1>6 DEF FlushLast, TypeOK, TypeReceiver
  <2> QED BY <1>6, <2>1, <2>2, FlushLastSlots DEF SizeInv, Same
<1>7. ASSUME NEW s \in Session, Pop(s) PROVE SizeInv'
  <2>1. \A l \in Slot : l = -1 \/ l = 0 \/ l >= 1
    BY BoundAssumption DEF Slot
  <2>2. \A t \in Session, l \in Slot : Occupied(t, l)' => Fits(At(t, l)')
    BY <1>2, <1>7, <2>1, PopSlots DEF Same
  <2>3. rpc' = rpc
    BY <1>7 DEF Pop, recvVars
  <2> QED BY <1>7, <2>2, <2>3, PopSlots DEF SizeInv, Same
<1>8. ASSUME NEW s \in Session, WriteFile(s) PROVE SizeInv'
  <2>1. rpc' = rpc
    BY <1>8 DEF WriteFile, recvVars
  <2> QED BY <1>8, <2>1, WriteFileSlots DEF SizeInv, Same
<1>9. ASSUME Crash PROVE SizeInv'
  BY <1>9, CrashSlots DEF SizeInv
<1>10. ASSUME NEW s \in Session, QuietStep(s) PROVE SizeInv'
  <2>1. \A t \in Session : rpc'[t] = "append" => rpc[t] = "append"
    BY <1>10 DEF QuietStep, TypeOK, TypeReceiver, recvVars, Receive, NextEntry,
       RecvChunks, RecvRecipe, Close, LockIndex, DuplicateChunk, InsertKey, AssignValue,
       AnswerStored, AnswerMissing, SetDone, Leave, CheckDone, CheckEmpty, PopNothing, OpenFile
  <2> QED BY <1>10, <2>1, QuietSlots DEF SizeInv, SlotsSame, Same
<1>11. ASSUME Interrupt \/ SaveStat \/ TruncDB \/ WriteDB \/ Restart PROVE SizeInv'
  <2>1. rpc' = rpc
    BY <1>11 DEF Interrupt, SaveStat, TruncDB, WriteDB, Restart, recvVars
  <2> QED BY <1>11, <2>1, ServerSlots DEF SizeInv, SlotsSame, Same
<1>12. CASE UNCHANGED vars
  BY <1>12 DEF vars, SizeInv, Occupied, At, recvVars, queueVars, writerVars
<1> QED
  BY <1>3, <1>4, <1>5, <1>6, <1>7, <1>8, <1>9, <1>10, <1>11, <1>12
     DEF Next, Edge, Receiver, Writer, Handler, QuietStep

-----------------------------------------------------------------------------
(* Files.                                                                  *)

\* Only the writer of a session touches a file.
LEMMA DiskSteps ==
    ASSUME [Next]_vars
    PROVE  disk' = disk \/ \E s \in Session : OpenFile(s) \/ WriteFile(s)
<1>1. \A s \in Session : Writer(s) /\ ~ OpenFile(s) /\ ~ WriteFile(s) => disk' = disk
  BY DEF Writer, CheckDone, CheckEmpty, Pop, PopNothing
<1>2. \A s \in Session : Edge(s) \/ Receiver(s) => disk' = disk
  BY DEF Edge, Receiver, Login, RecvChunks, RecvRecipe, Close, LockIndex, DuplicateChunk,
         FlushFull, WriteChunk, InsertKey, AssignValue, AnswerStored, AnswerMissing,
         FlushLast, SetDone, Leave, writerVars
<1>3. Interrupt \/ Handler \/ Crash \/ Restart \/ UNCHANGED vars => disk' = disk
  BY DEF Handler, Interrupt, SaveStat, TruncDB, WriteDB, Crash, Restart, vars, writerVars
<1> QED BY <1>1, <1>2, <1>3 DEF Next

\* A complete file stays as it is.
LEMMA FileKept ==
    ASSUME TypeOK, SlotInv, [Next]_vars
    PROVE  \A id \in ContainerID : disk[id] \in Container => disk'[id] = disk[id]
<1>1. ASSUME NEW s \in Session, OpenFile(s) \/ WriteFile(s)
      PROVE  \A id \in ContainerID : disk[id] \in Container => disk'[id] = disk[id]
  <2>1. Occupied(s, -1) /\ At(s, -1) = tmp[s] /\ -1 \in Slot
    BY <1>1, BoundAssumption DEF OpenFile, WriteFile, Occupied, At, Slot
  <2>2. disk[tmp[s].id] \in {None, Partial}
    BY <2>1 DEF SlotInv, FileInv
  <2>3. \A id \in ContainerID : id # tmp[s].id => disk'[id] = disk[id]
    BY <1>1 DEF OpenFile, WriteFile, TypeOK, TypeWriter
  <2> QED BY <2>2, <2>3, MarkAssumption
<1>2. ASSUME disk' = disk
      PROVE  \A id \in ContainerID : disk[id] \in Container => disk'[id] = disk[id]
  BY <1>2
<1> QED BY <1>1, <1>2, DiskSteps

\* A file becomes complete only when a writer fills it.
LEMMA FileStep ==
    ASSUME TypeOK, [Next]_vars, NEW id \in ContainerID, disk'[id] \in Container,
           disk'[id] # disk[id]
    PROVE  \E s \in Session : WriteFile(s) /\ disk'[id] = tmp[s]
<1>1. ASSUME NEW s \in Session, OpenFile(s) PROVE FALSE
  <2>1. disk'[id] = disk[id] \/ disk'[id] = Partial
    BY <1>1 DEF OpenFile, TypeOK, TypeWriter
  <2> QED BY <2>1, MarkAssumption
<1>2. ASSUME NEW s \in Session, WriteFile(s) PROVE disk'[id] = tmp[s]
  BY <1>2 DEF WriteFile, TypeOK, TypeWriter
<1> QED BY <1>1, <1>2, DiskSteps

-----------------------------------------------------------------------------
(* What is in a slot is in the index.                                      *)

\* At first there is no container.
LEMMA ContentInit == Init => ContentInv
  BY DEF Init, ContentInv, Occupied, Gone, Slot

\* Steps that neither move a container nor touch the index or an insertion.
LEMMA ContentSame ==
    ASSUME ContentInv, SlotsSame, index' = index,
           \A t \in Session : rpc[t] \in {"insert", "assign"} =>
               rpc'[t] = rpc[t] /\ todo'[t] = todo[t]
    PROVE  ContentInv'
  BY DEF ContentInv, SlotsSame, Same, BeingInserted

\* A chunk that was added to a container stays in the index under its id until
\* the container is written.
LEMMA ContentNext ==
    TypeOK /\ ControlInv /\ InsertInv /\ ContentInv /\ [Next]_vars => ContentInv'
<1> SUFFICES ASSUME TypeOK, ControlInv, InsertInv, ContentInv, [Next]_vars PROVE ContentInv'
  OBVIOUS
<1>0. 0 \in Slot /\ -1 \in Slot /\ \A l \in Slot : l = -1 \/ l = 0 \/ l >= 1
  BY BoundAssumption DEF Slot
<1>1. ASSUME NEW s \in Session, Login(s) PROVE ContentInv'
  <2>1. index' = index /\ todo' = todo /\ \A t \in Session : t # s => rpc'[t] = rpc[t]
    BY <1>1 DEF Login, indexVars, TypeOK, TypeReceiver
  <2>2. At(s, 0)'.chunks = {}
    BY <1>1, LoginSlots, NewContainerFields
  <2> QED BY <1>1, <2>1, <2>2, LoginSlots DEF ContentInv, Same, BeingInserted
<1>2. ASSUME NEW s \in Session, FlushFull(s) PROVE ContentInv'
  <2>1. /\ index' = index /\ todo' = todo /\ rpc[s] = "lookup"
        /\ \A t \in Session : t # s => rpc'[t] = rpc[t]
    BY <1>2 DEF FlushFull, indexVars, TypeOK, TypeReceiver
  <2>2. At(s, 0)'.chunks = {}
    BY <1>2, FlushFullSlots, NewContainerFields
  <2>3. \A c \in At(s, 0).chunks : index[c] = At(s, 0).id
    BY <1>0, <1>2, <2>1, FlushFullSlots DEF ContentInv, BeingInserted
  <2> QED BY <1>2, <2>1, <2>2, <2>3, FlushFullSlots DEF ContentInv, Same, BeingInserted
<1>3. ASSUME NEW s \in Session, WriteChunk(s) PROVE ContentInv'
  <2>1. /\ index' = index /\ todo' = todo /\ rpc[s] \notin {"insert", "assign"}
        /\ rpc'[s] = "insert" /\ \A t \in Session : t # s => rpc'[t] = rpc[t]
    BY <1>3 DEF WriteChunk, indexVars, TypeOK, TypeReceiver
  <2>2. At(s, 0)'.chunks = At(s, 0).chunks \union {Head(todo[s])} /\ At(s, 0)'.id = At(s, 0).id
    BY <1>3, WriteChunkSlots, AddChunkFields
  <2> QED BY <1>0, <1>3, <2>1, <2>2, WriteChunkSlots DEF ContentInv, Same, BeingInserted
<1>4. ASSUME NEW s \in Session, FlushLast(s) PROVE ContentInv'
  <2>1. /\ index' = index /\ todo' = todo /\ rpc[s] = "last"
        /\ \A t \in Session : t # s => rpc'[t] = rpc[t]
    BY <1>4 DEF FlushLast, indexVars, TypeOK, TypeReceiver
  <2>2. \A c \in At(s, 0).chunks : index[c] = At(s, 0).id
    BY <1>0, <1>4, <2>1, FlushLastSlots DEF ContentInv, BeingInserted
  <2> QED BY <1>4, <2>1, <2>2, FlushLastSlots DEF ContentInv, Same, BeingInserted
<1>5. ASSUME NEW s \in Session, Pop(s) PROVE ContentInv'
  <2>1. index' = index /\ todo' = todo /\ rpc' = rpc
    BY <1>5 DEF Pop, indexVars, recvVars
  <2>2. \A l \in Slot : l # 0 /\ Occupied(s, l)' =>
           \E m \in Slot : m # 0 /\ Occupied(s, m) /\ At(s, l)' = At(s, m)
    BY <1>0, <1>5, PopSlots DEF Slot
  <2>3. \A m \in Slot : m # 0 /\ Occupied(s, m) =>
           \A c \in At(s, m).chunks : index[c] = At(s, m).id
    BY DEF ContentInv, BeingInserted
  <2>4. \A t \in Session, l \in Slot : t # s \/ l = 0 => Same(t, l)
    BY <1>5, PopSlots
  <2> QED BY <2>1, <2>2, <2>3, <2>4 DEF ContentInv, Same, BeingInserted
<1>6. ASSUME NEW s \in Session, WriteFile(s) PROVE ContentInv'
  <2>1. index' = index /\ todo' = todo /\ rpc' = rpc
    BY <1>6 DEF WriteFile, indexVars, recvVars
  <2> QED BY <1>6, <2>1, WriteFileSlots DEF ContentInv, Same, BeingInserted
<1>7. ASSUME NEW s \in Session, InsertKey(s) PROVE ContentInv'
  <2>1. SlotsSame
    BY <1>7, QuietSlots DEF QuietStep
  <2>2. /\ todo' = todo /\ rpc[s] = "insert" /\ rpc'[s] = "assign"
        /\ \A t \in Session : t # s => rpc'[t] = rpc[t]
    BY <1>7 DEF InsertKey, TypeOK, TypeReceiver
  <2>3. \A c \in Chunk : index[c] # None => index'[c] = index[c]
    BY <1>7 DEF InsertKey, InsertInv, TypeOK, TypeServer
  <2> QED BY <2>1, <2>2, <2>3, SlotType, MarkAssumption
          DEF ContentInv, SlotsSame, Same, BeingInserted, Container
<1>8. ASSUME NEW s \in Session, AssignValue(s) PROVE ContentInv'
  <2> DEFINE h == Head(todo[s])
  <2>1. SlotsSame
    BY <1>8, QuietSlots DEF QuietStep
  <2>2. /\ rpc[s] = "assign" /\ Occupied(s, 0) /\ At(s, 0) = cur[s]
        /\ \A t \in Session : t # s => rpc'[t] = rpc[t] /\ todo'[t] = todo[t] /\ rpc[t] \notin Locked
    BY <1>8 DEF AssignValue, NextEntry, TypeOK, TypeReceiver, Occupied, At, Gone,
                ControlInv, LockInv, Locked
  <2>3. /\ index[h] = Empty /\ h \in Chunk
        /\ \A c \in Chunk : index'[c] = IF c = h THEN cur[s].id ELSE index[c]
    BY <1>8, AtHand DEF AssignValue, InsertInv, TypeOK, TypeServer, Busy, Locked
  <2> HIDE DEF h
  <2>4. ASSUME NEW t \in Session, NEW l \in Slot, Occupied(t, l), NEW c \in At(t, l).chunks
        PROVE  index'[c] = At(t, l).id
    <3>1. c \in Chunk /\ At(t, l).id \in ContainerID
      BY <2>4, SlotType DEF Container
    <3>2. CASE index[c] = At(t, l).id
      BY <2>3, <3>1, <3>2, MarkAssumption
    <3>3. CASE BeingInserted(t, l, c)
      <4>1. t = s /\ l = 0 /\ c = h
        BY <2>2, <3>3 DEF BeingInserted, Locked, h
      <4> QED BY <2>2, <2>3, <3>1, <4>1
    <3> QED BY <2>4, <3>2, <3>3 DEF ContentInv
  <2> QED BY <2>1, <2>4 DEF ContentInv, SlotsSame, Same
<1>9. ASSUME Crash PROVE ContentInv'
  BY <1>9, CrashSlots DEF ContentInv
<1>10. ASSUME NEW s \in Session, QuietStep(s), ~ InsertKey(s), ~ AssignValue(s) PROVE ContentInv'
  <2>1. index' = index /\ \A t \in Session : rpc[t] \in {"insert", "assign"} =>
                               rpc'[t] = rpc[t] /\ todo'[t] = todo[t]
    BY <1>10 DEF QuietStep, TypeOK, TypeReceiver, indexVars, recvVars, Receive, NextEntry,
       RecvChunks, RecvRecipe, Close, LockIndex, DuplicateChunk, AnswerStored, AnswerMissing,
       SetDone, Leave, CheckDone, CheckEmpty, PopNothing, OpenFile
  <2> QED BY <1>10, <2>1, QuietSlots, ContentSame
<1>11. ASSUME Interrupt \/ SaveStat \/ TruncDB PROVE ContentInv'
  <2>1. index' = index /\ rpc' = rpc /\ todo' = todo
    BY <1>11 DEF Interrupt, SaveStat, TruncDB, recvVars, indexVars
  <2> QED BY <1>11, <2>1, ServerSlots, ContentSame
<1>12. ASSUME WriteDB \/ Restart PROVE ContentInv'
  <2>1. \A t \in Session : rpc[t] \in Gone
    BY <1>12 DEF WriteDB, Restart, ControlInv, PhaseInv
  <2>2. \A t \in Session, l \in Slot : ~ Occupied(t, l)
    BY <2>1, GoneSlots
  <2>3. SlotsSame
    BY <1>12, ServerSlots
  <2> QED BY <2>2, <2>3 DEF ContentInv, SlotsSame, Same
<1>13. CASE UNCHANGED vars
  BY <1>13 DEF vars, ContentInv, BeingInserted, Occupied, At, indexVars, recvVars, queueVars, writerVars
<1> QED
  BY <1>1, <1>2, <1>3, <1>4, <1>5, <1>6, <1>7, <1>8, <1>9, <1>10, <1>11, <1>12, <1>13
     DEF Next, Edge, Receiver, Writer, Handler, QuietStep

-----------------------------------------------------------------------------
(* Where the index leads.                                                  *)

Found(id, c) == OnDisk(id, c) \/ InMemory(id, c)

\* Short of a crash, no step loses a chunk.
LEMMA FoundKept ==
    ASSUME TypeOK, ControlInv, SlotInv, SizeInv, [Next]_vars, ~ Crash,
           NEW id \in ContainerID, NEW c \in Chunk, Found(id, c)
    PROVE  Found(id, c)'
<1>0. 0 \in Slot /\ -1 \in Slot /\ \A l \in Slot : l = -1 \/ l = 0 \/ l = 1 \/ l >= 2
  BY BoundAssumption DEF Slot
<1>1. CASE OnDisk(id, c)
  BY <1>1, FileKept DEF Found, OnDisk
<1>2. CASE InMemory(id, c)
  <2>1. PICK t \in Session, l \in Slot :
           Occupied(t, l) /\ At(t, l).id = id /\ c \in At(t, l).chunks
    BY <1>2 DEF InMemory
  <2>2. ASSUME Same(t, l) PROVE Found(id, c)'
    BY <2>1, <2>2 DEF Same, Found, InMemory
  <2>3. ASSUME NEW m \in Slot, Occupied(t, m)', At(t, m)'.id = id, c \in At(t, m)'.chunks
        PROVE  Found(id, c)'
    BY <2>3 DEF Found, InMemory
  <2>4. ASSUME NEW s \in Session, Login(s) PROVE Found(id, c)'
    BY <2>1, <2>2, <2>4, LoginSlots
  <2>5. ASSUME NEW s \in Session, FlushFull(s) PROVE Found(id, c)'
    BY <2>1, <2>2, <2>3, <2>5, FlushFullSlots
  <2>6. ASSUME NEW s \in Session, WriteChunk(s) PROVE Found(id, c)'
    <3>1. At(s, 0)'.chunks = At(s, 0).chunks \union {Head(todo[s])} /\ At(s, 0)'.id = At(s, 0).id
      BY <2>6, WriteChunkSlots, AddChunkFields
    <3> QED BY <1>0, <2>1, <2>2, <2>3, <2>6, <3>1, WriteChunkSlots
  <2>7. ASSUME NEW s \in Session, FlushLast(s) PROVE Found(id, c)'
    <3>1. t = s /\ l = 0 => HasChunks(At(s, 0))
      BY <1>0, <2>1 DEF SizeInv, HasChunks
    <3> QED BY <2>1, <2>2, <2>3, <2>7, <3>1, FlushLastSlots
  <2>8. ASSUME NEW s \in Session, Pop(s) PROVE Found(id, c)'
    <3>1. CASE t # s \/ l = 0
      BY <2>2, <2>8, <3>1, PopSlots
    <3>2. CASE t = s /\ l = 1
      BY <1>0, <2>1, <2>3, <2>8, <3>2, PopSlots
    <3>3. CASE t = s /\ l >= 2
      <4>1. PICK m \in Slot : m = l - 1 /\ Occupied(s, m)' /\ At(s, m)' = At(s, l)
        BY <2>1, <2>8, <3>3, PopSlots
      <4> QED BY <2>1, <2>3, <3>3, <4>1
    <3>4. t = s => l # -1
      BY <2>1, <2>8, PopSlots
    <3> QED BY <1>0, <3>1, <3>2, <3>3, <3>4
  <2>9. ASSUME NEW s \in Session, WriteFile(s) PROVE Found(id, c)'
    <3>1. CASE t = s /\ l = -1
      <4>1. tmp[s].id = id /\ c \in tmp[s].chunks /\ tmp[s] \in Container
        BY <2>1, <2>9, <3>1, WriteFileSlots, SlotType
      <4>2. disk'[id] = tmp[s]
        BY <2>9, <4>1 DEF WriteFile, TypeOK, TypeWriter
      <4> QED BY <4>1, <4>2 DEF Found, OnDisk
    <3> QED BY <2>2, <2>9, <3>1, WriteFileSlots
  <2>10. ASSUME NEW s \in Session, QuietStep(s) PROVE Found(id, c)'
    BY <2>2, <2>10, QuietSlots DEF SlotsSame
  <2>11. ASSUME Interrupt \/ SaveStat \/ TruncDB \/ WriteDB \/ Restart PROVE Found(id, c)'
    BY <2>2, <2>11, ServerSlots DEF SlotsSame
  <2>12. CASE UNCHANGED vars
    BY <2>2, <2>12 DEF vars, Same, Occupied, At, recvVars, queueVars, writerVars
  <2> QED
    BY <2>4, <2>5, <2>6, <2>7, <2>8, <2>9, <2>10, <2>11, <2>12
       DEF Next, Edge, Receiver, Writer, Handler, QuietStep
<1> QED BY <1>1, <1>2 DEF Found

\* Steps that touch neither the index, the db file nor the phase.
OtherStep(s) ==
    \/ Edge(s) \/ Writer(s) \/ LockIndex(s) \/ DuplicateChunk(s) \/ FlushFull(s) \/ WriteChunk(s)
    \/ AnswerStored(s) \/ AnswerMissing(s) \/ FlushLast(s) \/ SetDone(s) \/ Leave(s)

\* The steps of OtherStep touch neither the index, the db file nor the phase.
LEMMA OtherUnchanged ==
    ASSUME NEW s \in Session, OtherStep(s) PROVE UNCHANGED <<index, db, phase, torn>>
  BY DEF OtherStep, Edge, Writer, Login, RecvChunks, RecvRecipe, Close, LockIndex, DuplicateChunk,
         FlushFull, WriteChunk, AnswerStored, AnswerMissing, FlushLast, SetDone, Leave,
         CheckDone, CheckEmpty, Pop, PopNothing, OpenFile, WriteFile, serverVars, indexVars

\* At first the index and the db file are empty.
LEMMA PlaceInit == Init => PlaceInv
  BY MarkAssumption DEF Init, PlaceInv

\* Without sessions every index entry has a value: a complete file, unless its
\* record was cut in an earlier save.
LEMMA AllOnDisk ==
    ASSUME TypeOK, ControlInv, InsertInv, PlaceInv, \A s \in Session : rpc[s] \in Gone
    PROVE  \A c \in Chunk : index[c] # None =>
              \/ index[c] \in ContainerID /\ OnDisk(index[c], c)
              \/ index[c] = Garbled /\ torn
<1>1. \A c \in Chunk : index[c] # Empty
  BY DEF InsertInv, Gone
<1>2. \A s \in Session, l \in Slot : ~ Occupied(s, l)
  BY GoneSlots
<1> QED BY <1>1, <1>2 DEF PlaceInv, InMemory, TypeOK, TypeServer

\* That a save was cut short is never forgotten.
LEMMA TornKept == ASSUME [Next]_vars PROVE torn => torn'
<1>1. ASSUME NEW s \in Session, OtherStep(s) PROVE torn' = torn
  BY <1>1, OtherUnchanged
<1>2. ASSUME NEW s \in Session, InsertKey(s) \/ AssignValue(s) PROVE torn' = torn
  BY <1>2 DEF InsertKey, AssignValue, serverVars
<1>3. ASSUME Interrupt \/ SaveStat \/ TruncDB \/ WriteDB \/ Crash \/ Restart PROVE torn => torn'
  BY <1>3 DEF Interrupt, SaveStat, TruncDB, WriteDB, Crash, Restart
<1>4. CASE UNCHANGED vars
  BY <1>4 DEF vars, serverVars
<1> QED BY <1>1, <1>2, <1>3, <1>4 DEF Next, Receiver, Handler, OtherStep

\* No step loses the container an index entry or a saved entry leads to.
LEMMA PlaceNext ==
    TypeOK /\ ControlInv /\ SlotInv /\ InsertInv /\ SizeInv /\ PlaceInv /\ [Next]_vars => PlaceInv'
<1> SUFFICES ASSUME TypeOK, ControlInv, SlotInv, InsertInv, SizeInv, PlaceInv, [Next]_vars
             PROVE  PlaceInv'
  OBVIOUS
<1> USE MarkAssumption
<1>0. torn => torn'
  BY TornKept
<1>1. \A c \in Chunk : \A id : db[c] = id /\ id # None =>
         (id \in ContainerID /\ OnDisk(id, c)') \/ (id = Garbled /\ torn')
  BY <1>0, FileKept DEF PlaceInv, OnDisk
<1>2. ~ Crash => \A id \in ContainerID, c \in Chunk : Found(id, c) => Found(id, c)'
  BY FoundKept
<1>3. ASSUME NEW s \in Session, OtherStep(s) PROVE PlaceInv'
  <2>1. UNCHANGED <<index, db, phase>>
    BY <1>3, OtherUnchanged
  <2>2. CASE Crash
    BY <2>1, <2>2 DEF Crash
  <2> QED BY <1>0, <1>1, <1>2, <2>1, <2>2 DEF PlaceInv, Found
<1>4. ASSUME NEW s \in Session, InsertKey(s) PROVE PlaceInv'
  <2>1. UNCHANGED <<db, phase>> /\ phase # "down"
    BY <1>4 DEF InsertKey, serverVars, ControlInv, PhaseInv, Gone
  <2>2. ~ Crash
    BY <2>1 DEF Crash
  <2>3. /\ \A c \in Chunk : index'[c] \in ContainerID \union {Garbled} => index'[c] = index[c]
        /\ \A c \in Chunk : index[c] # None => index'[c] = index[c]
    BY <1>4 DEF InsertKey, InsertInv, TypeOK, TypeServer
  <2> QED BY <1>0, <1>1, <1>2, <2>1, <2>2, <2>3 DEF PlaceInv, Found
<1>5. ASSUME NEW s \in Session, AssignValue(s) PROVE PlaceInv'
  <2>1. UNCHANGED <<db, phase>> /\ phase # "down"
    BY <1>5 DEF AssignValue, serverVars, ControlInv, PhaseInv, Gone
  <2>2. ~ Crash
    BY <2>1 DEF Crash
  <2>3. PICK h \in Chunk : h = Head(todo[s])
    BY <1>5, AtHand DEF AssignValue, Busy, Locked
  <2>4. /\ index[h] = Empty /\ h \in cur[s].chunks /\ cur[s].id \in ContainerID
        /\ \A c \in Chunk : index'[c] = IF c = h THEN cur[s].id ELSE index[c]
    BY <1>5, <2>3, AtHand DEF AssignValue, InsertInv, TypeOK, TypeServer, Gone
  <2>5. Found(cur[s].id, h)
    BY <1>5, <2>4, BoundAssumption DEF AssignValue, Found, InMemory, Occupied, At, Slot, Gone
  <2>6. \A c \in Chunk : index'[c] \in ContainerID => Found(index'[c], c)
    BY <2>4, <2>5 DEF PlaceInv, Found
  <2>7. \A c \in Chunk : index'[c] \in ContainerID => (OnDisk(index[c], c) \/ InMemory(index[c], c))'
    BY <1>2, <2>2, <2>6 DEF Found
  <2>8. \A c \in Chunk : db[c] # None => index'[c] = db[c]
    BY <2>1, <2>4 DEF PlaceInv
  <2>9. \A c \in Chunk : index'[c] = Garbled => torn'
    BY <1>0, <2>4 DEF PlaceInv
  <2> QED BY <1>1, <2>1, <2>7, <2>8, <2>9 DEF PlaceInv
<1>6. ASSUME Interrupt \/ SaveStat PROVE PlaceInv'
  <2>1. UNCHANGED <<index, db>> /\ phase # "down" /\ phase' \notin {"down", "writing"}
    BY <1>6 DEF Interrupt, SaveStat, indexVars
  <2>2. ~ Crash
    BY <2>1 DEF Crash
  <2> QED BY <1>0, <1>1, <1>2, <2>1, <2>2 DEF PlaceInv, Found
<1>7. ASSUME TruncDB PROVE PlaceInv'
  <2>1. index' = index /\ phase' = "writing" /\ \A c \in Chunk : db'[c] = None
    BY <1>7 DEF TruncDB, indexVars
  <2>2. ~ Crash
    BY <2>1 DEF Crash
  <2> QED BY <1>0, <1>2, <2>1, <2>2 DEF PlaceInv, Found
<1>8. ASSUME WriteDB PROVE PlaceInv'
  <2>1. \A c \in Chunk : \A id : index[c] = id /\ id # None =>
           (id \in ContainerID /\ OnDisk(id, c)') \/ (id = Garbled /\ torn')
    BY <1>0, <1>8, AllOnDisk, FileKept DEF WriteDB, ControlInv, PhaseInv, OnDisk
  <2>2. db' = index /\ phase' = "down" /\ \A c \in Chunk : index'[c] = None
    BY <1>8 DEF WriteDB
  <2> QED BY <2>1, <2>2 DEF PlaceInv
<1>9. ASSUME Crash PROVE PlaceInv'
  <2>1. phase' = "down" /\ \A c \in Chunk : index'[c] = None
    BY <1>9 DEF Crash
  <2>2. CASE phase = "writing"
    <3>1. \A c \in Chunk : \A id : index[c] = id /\ id # None =>
             (id \in ContainerID /\ OnDisk(id, c)') \/ (id = Garbled /\ torn')
      BY <1>0, <2>2, AllOnDisk, FileKept DEF ControlInv, PhaseInv, OnDisk
    <3>2. torn' /\ \A c \in Chunk : db'[c] \in {None, Garbled, index[c]}
      BY <1>9, <2>2 DEF Crash
    <3> QED BY <2>1, <3>1, <3>2 DEF PlaceInv
  <2>3. CASE db' = db
    BY <1>1, <2>1, <2>3 DEF PlaceInv
  <2> QED BY <1>9, <2>2, <2>3 DEF Crash
<1>10. ASSUME Restart PROVE PlaceInv'
  <2>1. index' = db /\ db' = db /\ phase' = "running"
    BY <1>10 DEF Restart
  <2> QED BY <1>1, <2>1 DEF PlaceInv
<1>11. CASE UNCHANGED vars
  BY <1>11 DEF vars, PlaceInv, OnDisk, InMemory, Occupied, At, serverVars, indexVars, recvVars,
               queueVars, writerVars
<1> QED
  BY <1>3, <1>4, <1>5, <1>6, <1>7, <1>8, <1>9, <1>10, <1>11
     DEF Next, Receiver, Handler, OtherStep

-----------------------------------------------------------------------------
(* Files and the tables that refer to them.                                *)

\* At first there is no file.
LEMMA ClosedInit == Init => ClosedInv
  BY MarkAssumption DEF Init, ClosedInv, Closed, OnDisk

\* Only WriteFile puts a chunk on disk.
LEMMA DiskGrows ==
    ASSUME TypeOK, SlotInv, [Next]_vars, NEW id \in ContainerID, NEW d \in Chunk, OnDisk(id, d)'
    PROVE  \/ OnDisk(id, d)
           \/ \E s \in Session : WriteFile(s) /\ id = tmp[s].id /\ d \in tmp[s].chunks
<1>1. ASSUME disk' = disk PROVE OnDisk(id, d)
  BY <1>1 DEF OnDisk
<1>2. ASSUME NEW s \in Session, OpenFile(s) PROVE OnDisk(id, d)
  BY <1>2, MarkAssumption DEF OpenFile, OnDisk, TypeOK, TypeWriter
<1>3. ASSUME NEW s \in Session, WriteFile(s)
      PROVE  OnDisk(id, d) \/ (id = tmp[s].id /\ d \in tmp[s].chunks)
  BY <1>3 DEF WriteFile, OnDisk, TypeOK, TypeWriter
<1>4. \A s \in Session : Writer(s) /\ ~ OpenFile(s) /\ ~ WriteFile(s) => disk' = disk
  BY DEF Writer, CheckDone, CheckEmpty, Pop, PopNothing
<1>5. \A s \in Session : Edge(s) \/ Receiver(s) => disk' = disk
  BY DEF Edge, Receiver, Login, RecvChunks, RecvRecipe, Close, LockIndex, DuplicateChunk,
         FlushFull, WriteChunk, InsertKey, AssignValue, AnswerStored, AnswerMissing,
         FlushLast, SetDone, Leave, writerVars
<1>6. Interrupt \/ Handler \/ Crash \/ Restart \/ UNCHANGED vars => disk' = disk
  BY DEF Handler, Interrupt, SaveStat, TruncDB, WriteDB, Crash, Restart, vars, writerVars
<1> QED BY <1>1, <1>2, <1>3, <1>4, <1>5, <1>6 DEF Next

\* What WriteFile puts there is closed under the index, and new to the db file.
LEMMA DiskClosed ==
    ASSUME TypeOK, SlotInv, ContentInv, PlaceInv, Closed(index), Closed(db), [Next]_vars
    PROVE  \A id \in ContainerID : \A c \in Chunk, d \in Chunk : OnDisk(id, d)' =>
               (index[c] = id => index[d] = id) /\ (db[c] = id => db[d] = id)
<1> SUFFICES ASSUME NEW id \in ContainerID, NEW c \in Chunk, NEW d \in Chunk, OnDisk(id, d)'
             PROVE  (index[c] = id => index[d] = id) /\ (db[c] = id => db[d] = id)
  OBVIOUS
<1>1. CASE OnDisk(id, d)
  BY <1>1 DEF Closed
<1>2. ASSUME NEW s \in Session, WriteFile(s), id = tmp[s].id, d \in tmp[s].chunks
      PROVE  (index[c] = id => index[d] = id) /\ (db[c] = id => db[d] = id)
  <2>1. Occupied(s, -1) /\ At(s, -1) = tmp[s] /\ -1 \in Slot
    BY <1>2, BoundAssumption DEF WriteFile, Occupied, At, Slot
  <2>2. index[d] = id
    BY <1>2, <2>1 DEF ContentInv, BeingInserted
  <2>3. disk[id] \in {None, Partial}
    BY <1>2, <2>1 DEF SlotInv, FileInv
  <2>4. db[c] # id
    BY <2>3, MarkAssumption DEF PlaceInv, OnDisk
  <2> QED BY <2>2, <2>4
<1> QED BY <1>1, <1>2, DiskGrows

\* Unless a save was cut short, a file a table refers to has no chunk that the
\* table places elsewhere: a chunk is never stored twice.
LEMMA ClosedNext ==
    /\ TypeOK /\ ControlInv /\ SlotInv /\ InsertInv /\ ContentInv /\ PlaceInv /\ ClosedInv
    /\ [Next]_vars
    => ClosedInv'
<1> SUFFICES ASSUME TypeOK, ControlInv, SlotInv, InsertInv, ContentInv, PlaceInv, ClosedInv,
                    [Next]_vars, ~ torn'
             PROVE  Closed(index)' /\ Closed(db)'
  BY DEF ClosedInv
<1> USE MarkAssumption
<1>1. ~ torn
  BY SMTT(30) DEF Next, Edge, Receiver, Writer, Handler, vars, serverVars, Crash, Restart, Interrupt, SaveStat,
         TruncDB, WriteDB, Login, RecvChunks, RecvRecipe, Close, LockIndex, DuplicateChunk,
         FlushFull, WriteChunk, InsertKey, AssignValue, AnswerStored, AnswerMissing,
         FlushLast, SetDone, Leave, CheckDone, CheckEmpty, Pop, PopNothing, OpenFile, WriteFile,
         TypeOK, TypeServer
<1>2. \A id \in ContainerID : \A c \in Chunk, d \in Chunk : OnDisk(id, d)' =>
         (index[c] = id => index[d] = id) /\ (db[c] = id => db[d] = id)
  BY <1>1, DiskClosed DEF ClosedInv
<1>3. ASSUME index' = index, db' = db PROVE Closed(index)' /\ Closed(db)'
  BY <1>2, <1>3 DEF Closed
<1>4. ASSUME NEW s \in Session, OtherStep(s) PROVE Closed(index)' /\ Closed(db)'
  BY <1>3, <1>4, OtherUnchanged
<1>5. ASSUME NEW s \in Session, InsertKey(s) PROVE Closed(index)' /\ Closed(db)'
  <2>1. db' = db /\ \A c \in Chunk : index'[c] \in {index[c], Empty} /\ (index[c] # None => index'[c] = index[c])
    BY <1>5 DEF InsertKey, serverVars, InsertInv, TypeOK, TypeServer
  <2> QED BY <1>2, <2>1 DEF Closed
<1>6. ASSUME NEW s \in Session, AssignValue(s) PROVE Closed(index)' /\ Closed(db)'
  <2>1. PICK h \in Chunk : h = Head(todo[s])
    BY <1>6, AtHand DEF AssignValue, Busy, Locked
  <2>2. /\ index[h] = Empty /\ cur[s].id \in ContainerID /\ db' = db
        /\ \A c \in Chunk : index'[c] = IF c = h THEN cur[s].id ELSE index[c]
    BY <1>6, <2>1, AtHand DEF AssignValue, InsertInv, TypeOK, TypeServer, Gone, serverVars
  <2>3. disk'[cur[s].id] = None
    <3>1. Occupied(s, 0) /\ At(s, 0) = cur[s] /\ 0 \in Slot /\ disk' = disk
      BY <1>6, BoundAssumption DEF AssignValue, Occupied, At, Slot, Gone, writerVars
    <3> QED BY <3>1 DEF SlotInv, FileInv
  <2>4. \A d \in Chunk, id \in ContainerID : OnDisk(id, d)' => id # cur[s].id
    BY <2>3 DEF OnDisk
  <2>5. \A c \in Chunk, d \in Chunk, id \in ContainerID :
           OnDisk(id, d)' /\ index'[c] = id => index'[d] = id
    BY <1>2, <2>2, <2>4
  <2> QED BY <1>2, <2>2, <2>5 DEF Closed
<1>7. ASSUME Interrupt \/ SaveStat PROVE Closed(index)' /\ Closed(db)'
  BY <1>3, <1>7 DEF Interrupt, SaveStat, indexVars
<1>8. ASSUME TruncDB PROVE Closed(index)' /\ Closed(db)'
  <2>1. index' = index /\ \A c \in Chunk : db'[c] = None
    BY <1>8 DEF TruncDB, indexVars
  <2> QED BY <1>2, <2>1 DEF Closed
<1>9. ASSUME WriteDB PROVE Closed(index)' /\ Closed(db)'
  <2>1. db' = index /\ \A c \in Chunk : index'[c] = None
    BY <1>9 DEF WriteDB
  <2> QED BY <1>2, <2>1 DEF Closed
<1>10. ASSUME Crash PROVE Closed(index)' /\ Closed(db)'
  <2>1. db' = db /\ \A c \in Chunk : index'[c] = None
    BY <1>10 DEF Crash
  <2> QED BY <1>2, <2>1 DEF Closed
<1>11. ASSUME Restart PROVE Closed(index)' /\ Closed(db)'
  <2>1. db' = db /\ index' = db
    BY <1>11 DEF Restart
  <2> QED BY <1>2, <2>1 DEF Closed
<1>12. CASE UNCHANGED vars
  BY <1>3, <1>12 DEF vars, serverVars, indexVars
<1> QED
  BY <1>4, <1>5, <1>6, <1>7, <1>8, <1>9, <1>10, <1>11, <1>12
     DEF Next, Receiver, Handler, OtherStep

-----------------------------------------------------------------------------
(* Recipes.                                                                *)

\* At first there is no recipe.
LEMMA RecipeInit == Init => RecipeInv
  BY DEF Init, RecipeInv

\* An entry of a batch is its head or an entry of the rest.
LEMMA TailPending ==
    ASSUME NEW q \in Seq(Chunk), q # << >>, NEW i \in DOMAIN q
    PROVE  \/ q[i] = Head(q)
           \/ Len(q) # 1 /\ \E j \in DOMAIN Tail(q) : Tail(q)[j] = q[i]
<1>1. Len(q) \in Nat /\ Len(q) # 0 /\ i \in 1 .. Len(q)
  OBVIOUS
<1>2. CASE i = 1
  BY <1>2
<1>3. CASE i # 1
  <2>1. DOMAIN Tail(q) = 1 .. Len(q) - 1 /\ \A j \in 1 .. Len(q) - 1 : Tail(q)[j] = q[j + 1]
    BY <1>1
  <2>2. i - 1 \in 1 .. Len(q) - 1 /\ Len(q) # 1
    BY <1>1, <1>3
  <2>3. Tail(q)[i - 1] = q[(i - 1) + 1] /\ (i - 1) + 1 = i
    BY <1>1, <2>1, <2>2
  <2> QED BY <2>1, <2>2, <2>3
<1> QED BY <1>2, <1>3

\* A step of session s that keeps its own entries accounted for.
LEMMA RecipeKept ==
    ASSUME TypeOK, RecipeInv, NEW s \in Session,
           UNCHANGED <<db, phase, fate, recipe>>, phase # "down", rpc[s] \notin Gone,
           \A c \in Chunk : index[c] # None => index'[c] # None,
           \A t \in Session : t # s =>
               rpc'[t] = rpc[t] /\ todo'[t] = todo[t] /\ owed'[t] = owed[t],
           \A c \in recipe[s] : Accounted(s, c) => Accounted(s, c)'
    PROVE  RecipeInv'
<1>1. \A t \in Session : recipe[t] \subseteq Chunk
  BY DEF TypeOK, TypeReceiver
<1>2. fate[s] # "saved"
  BY DEF RecipeInv
<1>3. ASSUME NEW t \in Session, NEW c \in recipe[t], Accounted(t, c) PROVE Accounted(t, c)'
  <2>1. CASE t = s
    BY <1>3, <2>1
  <2>2. CASE t # s
    BY <1>1, <1>3, <2>2 DEF Accounted, Pending
  <2> QED BY <2>1, <2>2
<1> QED BY <1>2, <1>3 DEF RecipeInv

\* Each answer of ProcessRecipeBatch accounts for its entry, and no step of any
\* session undoes that.
LEMMA RecipeNext ==
    /\ TypeOK /\ ControlInv /\ InsertInv /\ PlaceInv /\ RecipeInv /\ [Next]_vars
    => RecipeInv'
<1> SUFFICES ASSUME TypeOK, ControlInv, InsertInv, PlaceInv, RecipeInv, [Next]_vars
             PROVE  RecipeInv'
  OBVIOUS
<1>0. \A t \in Session : rpc[t] \notin Gone => phase # "down"
  BY DEF ControlInv, PhaseInv
<1>1. ASSUME NEW s \in Session, Login(s) PROVE RecipeInv'
  <2>1. rpc[s] = "idle" /\ recipe[s] = {} /\ phase # "down"
    BY <1>1 DEF Login, ControlInv, DrainInv
  <2> QED BY <1>1, <2>1 DEF Login, RecipeInv, Accounted, Pending, TypeOK, TypeReceiver,
                            serverVars, indexVars, Gone
<1>2. ASSUME NEW s \in Session, RecvRecipe(s) PROVE RecipeInv'
  <2>1. PICK b \in Batch : /\ Receive(s, b, "answer")
                            /\ recipe' = [recipe EXCEPT ![s] = @ \union {b[i] : i \in DOMAIN b}]
    BY <1>2 DEF RecvRecipe
  <2>2. rpc'[s] = "answer" /\ todo'[s] = b /\ rpc[s] = "recv" /\ fate[s] # "saved"
    BY <2>1 DEF Receive, TypeOK, TypeReceiver, RecipeInv, Gone
  <2>3. \A c \in recipe'[s] : c \in recipe[s] \/ Pending(s, c)'
    BY <2>1, <2>2 DEF Pending, TypeOK, TypeReceiver
  <2>4. /\ UNCHANGED <<index, owed, db, phase, fate>>
        /\ \A t \in Session : t # s =>
              rpc'[t] = rpc[t] /\ todo'[t] = todo[t] /\ recipe'[t] = recipe[t]
    BY <1>2, <2>1 DEF RecvRecipe, Receive, TypeOK, TypeReceiver, serverVars, indexVars
  <2>5. \A c : ~ Pending(s, c)
    BY <2>2 DEF Pending
  <2> QED BY <2>2, <2>3, <2>4, <2>5 DEF RecipeInv, Accounted, Pending, Gone
<1>3. ASSUME NEW s \in Session, DuplicateChunk(s) PROVE RecipeInv'
  <2>1. \A c : ~ Pending(s, c)
    BY <1>3 DEF DuplicateChunk, Pending
  <2>2. \A c \in recipe[s] : Accounted(s, c) => Accounted(s, c)'
    BY <1>3, <2>1 DEF DuplicateChunk, Accounted, TypeOK, TypeReceiver
  <2> QED
    BY <1>0, <1>3, <2>2, RecipeKept DEF DuplicateChunk, NextEntry, TypeOK, TypeReceiver, serverVars, Gone
<1>4. ASSUME NEW s \in Session, AssignValue(s) PROVE RecipeInv'
  <2>1. \A c : ~ Pending(s, c)
    BY <1>4 DEF AssignValue, Pending
  <2>2. /\ \A c \in Chunk : index[c] # None => index'[c] # None
        /\ Head(todo[s]) \in Chunk /\ index'[Head(todo[s])] # None
    BY <1>4, AtHand, MarkAssumption DEF AssignValue, TypeOK, TypeServer, Busy, Locked, Gone
  <2>3. \A c \in recipe[s] : Accounted(s, c) => Accounted(s, c)'
    BY <1>4, <2>1, <2>2 DEF AssignValue, Accounted, TypeOK, TypeReceiver
  <2> QED
    BY <1>0, <1>4, <2>2, <2>3, RecipeKept DEF AssignValue, NextEntry, TypeOK, TypeReceiver, serverVars, Gone
<1>5. ASSUME NEW s \in Session, AnswerStored(s) \/ AnswerMissing(s) PROVE RecipeInv'
  <2>1. /\ rpc[s] = "answer" /\ todo[s] \in Seq(Chunk) /\ todo[s] # << >>
        /\ todo'[s] = Tail(todo[s]) /\ (Len(todo[s]) # 1 => rpc'[s] = "answer")
    BY <1>5 DEF AnswerStored, AnswerMissing, NextEntry, TypeOK, TypeReceiver, Shape, Busy
  <2>2. \A c : Pending(s, c) => c = Head(todo[s]) \/ Pending(s, c)'
    BY <2>1, TailPending DEF Pending
  <2>3. index[Head(todo[s])] # None \/ Head(todo[s]) \in owed'[s]
    BY <1>5 DEF AnswerStored, AnswerMissing, TypeOK, TypeReceiver
  <2>4. index' = index /\ owed[s] \subseteq owed'[s]
    BY <1>5 DEF AnswerStored, AnswerMissing, indexVars, TypeOK, TypeReceiver
  <2>5. \A c \in recipe[s] : Accounted(s, c) => Accounted(s, c)'
    BY <2>2, <2>3, <2>4 DEF Accounted
  <2> QED BY <1>0, <1>5, <2>1, <2>4, <2>5, RecipeKept
          DEF AnswerStored, AnswerMissing, NextEntry, TypeOK, TypeReceiver, serverVars, Gone
<1>6. ASSUME NEW s \in Session, InsertKey(s) PROVE RecipeInv'
  <2>1. \A c \in Chunk : index[c] # None => index'[c] # None
    BY <1>6, MarkAssumption DEF InsertKey, TypeOK, TypeServer
  <2>2. \A c \in recipe[s] : Accounted(s, c) => Accounted(s, c)'
    BY <1>6, <2>1 DEF InsertKey, Accounted, Pending, TypeOK, TypeReceiver
  <2> QED BY <1>0, <1>6, <2>1, <2>2, RecipeKept DEF InsertKey, TypeOK, TypeReceiver, serverVars, Gone
<1>7. ASSUME NEW s \in Session,
             \/ RecvChunks(s) \/ Close(s) \/ LockIndex(s) \/ FlushFull(s) \/ WriteChunk(s)
             \/ FlushLast(s) \/ SetDone(s) \/ Leave(s)
      PROVE RecipeInv'
  <2>1. rpc[s] \notin {"answer"} \union Gone /\ UNCHANGED <<index, owed>>
    BY <1>7 DEF RecvChunks, Receive, Close, LockIndex, FlushFull, WriteChunk, FlushLast, SetDone,
                Leave, indexVars, Gone
  <2>2. \A c \in recipe[s] : Accounted(s, c) => Accounted(s, c)'
    BY <2>1 DEF Accounted, Pending
  <2>3. UNCHANGED <<db, phase, fate, recipe>> /\ \A t \in Session : t # s => rpc'[t] = rpc[t] /\ todo'[t] = todo[t]
    BY <1>7 DEF RecvChunks, Receive, Close, LockIndex, FlushFull, WriteChunk, FlushLast, SetDone,
                Leave, serverVars, TypeOK, TypeReceiver
  <2> QED BY <1>0, <2>1, <2>2, <2>3, RecipeKept
<1>8. ASSUME UNCHANGED <<index, db, phase, recvVars>> PROVE RecipeInv'
  BY <1>8 DEF RecipeInv, Accounted, Pending, recvVars
<1>9. ASSUME NEW s \in Session, Writer(s) PROVE RecipeInv'
  BY <1>8, <1>9 DEF Writer, CheckDone, CheckEmpty, Pop, PopNothing, OpenFile, WriteFile,
                    serverVars, indexVars
<1>10. ASSUME Interrupt \/ SaveStat \/ TruncDB PROVE RecipeInv'
  <2>1. UNCHANGED <<index, recvVars>> /\ phase \notin {"down", "writing"} /\ phase' # "down"
        /\ (db' = db \/ phase' = "writing")
    BY <1>10 DEF Interrupt, SaveStat, TruncDB, indexVars
  <2> QED BY <2>1 DEF RecipeInv, Accounted, Pending, recvVars
<1>11. ASSUME WriteDB PROVE RecipeInv'
  <2>1. \A t \in Session : rpc[t] \in Gone
    BY <1>11 DEF WriteDB, ControlInv, PhaseInv
  <2>2. \A t \in Session : fate[t] # "lost" => \A c \in recipe[t] : index[c] # None \/ c \in owed[t]
    BY <1>11, <2>1 DEF WriteDB, RecipeInv, Accounted, Pending, Gone
  <2> QED BY <1>11, <2>1, <2>2 DEF WriteDB, RecipeInv
<1>12. ASSUME Crash PROVE RecipeInv'
  <2>1. /\ phase' = "down" /\ recipe' = recipe /\ owed' = owed
        /\ \A t \in Session : rpc'[t] \in Gone
        /\ \A t \in Session : fate'[t] = "saved" => fate[t] = "saved" /\ phase # "writing" /\ db' = db
        /\ \A t \in Session : fate'[t] # "open"
    BY <1>12 DEF Crash, Gone
  <2> QED BY <2>1 DEF RecipeInv
<1>13. ASSUME Restart PROVE RecipeInv'
  <2>1. /\ phase = "down" /\ phase' = "running" /\ index' = db /\ db' = db
        /\ UNCHANGED recvVars
    BY <1>13 DEF Restart
  <2> QED BY <2>1 DEF RecipeInv, Accounted, recvVars, TypeOK, TypeReceiver
<1>14. CASE UNCHANGED vars
  BY <1>8, <1>14 DEF vars, serverVars, indexVars
<1> QED
  BY <1>1, <1>2, <1>3, <1>4, <1>5, <1>6, <1>7, <1>9, <1>10, <1>11, <1>12, <1>13, <1>14
     DEF Next, Edge, Receiver, Handler
-----------------------------------------------------------------------------
(* The inductive invariant, and what follows from it.                      *)

\* The first state of the server satisfies every part of the invariant.
LEMMA IndInit == Init => IndInv
  BY TypeInit, ControlInit, SlotInit, InsertInit, ContentInit, PlaceInit, SizeInit,
     ClosedInit, RecipeInit DEF IndInv, ControlInv

\* Every step of a thread, of the handler, a crash or a restart preserves it.
LEMMA IndNext == IndInv /\ [Next]_vars => IndInv'
<1> SUFFICES ASSUME IndInv, [Next]_vars PROVE IndInv'
  OBVIOUS
<1>1. /\ TypeOK /\ ControlInv /\ SlotInv /\ InsertInv /\ ContentInv
      /\ PlaceInv /\ SizeInv /\ ClosedInv /\ RecipeInv
  BY DEF IndInv, ControlInv
<1>2. TypeOK' BY <1>1, TypeNext
<1>3. ControlInv' BY <1>1, ControlNext
<1>4. SlotInv' BY <1>1, SlotNext
<1>5. InsertInv' BY <1>1, InsertNext
<1>6. ContentInv' BY <1>1, ContentNext
<1>7. PlaceInv' BY <1>1, PlaceNext
<1>8. SizeInv' BY <1>1, SizeNext
<1>9. ClosedInv' BY <1>1, ClosedNext
<1>10. RecipeInv' BY <1>1, RecipeNext
<1> QED
  BY <1>2, <1>3, <1>4, <1>5, <1>6, <1>7, <1>8, <1>9, <1>10 DEF IndInv, ControlInv

\* The invariant holds in every behaviour of the upload path, for any number of
\* sessions, chunks and containers and any capacity of the queue.
THEOREM Inductive == Spec => []IndInv
<1>1. Init => IndInv BY IndInit
<1>2. IndInv /\ [Next]_vars => IndInv' BY IndNext
<1> QED BY <1>1, <1>2, PTL DEF Spec

\* The index never names a container that does not hold the chunk: it is in the
\* file, in the queue, with the writer or in the open container of a session.
THEOREM IndexSoundness == Spec => []IndexSound
<1>1. IndInv => IndexSound
  <2> SUFFICES ASSUME IndInv, NEW c \in Chunk
               PROVE  \/ Directory[c] \in {None, Empty}
                      \/ Directory[c] = Garbled /\ torn
                      \/ Directory[c] \in ContainerID
                           /\ (OnDisk(Directory[c], c) \/ InMemory(Directory[c], c))
    BY DEF IndexSound
  <2>1. CASE phase = "down"
    BY <2>1 DEF Directory, IndInv, PlaceInv
  <2>2. CASE phase # "down"
    BY <2>2 DEF Directory, IndInv, PlaceInv, TypeOK, TypeServer
  <2> QED BY <2>1, <2>2
<1> QED BY <1>1, Inductive, PTL

\* Unless a save of the index was cut short, every chunk of a file the index
\* refers to is placed in that file, so RecvDecoder finds one offset for it.
THEOREM Unambiguous == Spec => []NoAmbiguity
<1>1. IndInv => NoAmbiguity
  <2> SUFFICES ASSUME IndInv, ~ torn, NEW id \in ContainerID, disk[id] \in Container,
                      NEW c \in Chunk, Directory[c] = id, NEW d \in disk[id].chunks
               PROVE  Directory[d] = id
    BY DEF NoAmbiguity
  <2>1. d \in Chunk BY DEF Container
  <2>2. OnDisk(id, d) BY DEF OnDisk
  <2> QED BY <2>1, <2>2 DEF IndInv, ClosedInv, Closed, Directory
<1> QED BY <1>1, Inductive, PTL

\* DataWriter returns only after DataReceiver, and leaves the queue empty.
THEOREM Drained == Spec => []WriterDrains
<1>1. IndInv => WriterDrains
  <2> SUFFICES ASSUME IndInv, NEW s \in Session, wpc[s] = "exit"
               PROVE  mq[s] = << >> /\ rpc[s] \in {"join", "ended"}
    BY DEF WriterDrains
  <2> QED BY DEF IndInv, DrainInv, Gone
<1> QED BY <1>1, Inductive, PTL

\* Ocall_WriteContainer never writes past the buffer of a serialised container.
THEOREM Fitting == Spec => []ContainerFits
<1>1. IndInv => ContainerFits BY DEF IndInv, SizeInv, ContainerFits
<1> QED BY <1>1, Inductive, PTL

\* No recipe refers to a chunk that is neither stored nor awaited.
THEOREM Covered == Spec => []RecipeCovered
<1>1. IndInv => RecipeCovered
  <2> SUFFICES ASSUME IndInv, NEW s \in Session, fate[s] # "lost", NEW c \in recipe[s]
               PROVE  Placed(c) \/ c \in owed[s] \/ Pending(s, c)
    BY DEF RecipeCovered
  <2>1. c \in Chunk /\ index[c] \in ContainerID \union {None, Empty, Garbled}
    BY DEF IndInv, TypeOK, TypeReceiver, TypeServer
  <2>2. CASE phase = "down"
    <3>1. fate[s] = "saved"
      BY <2>2 DEF IndInv, RecipeInv, TypeOK, TypeReceiver
    <3>2. db[c] # None \/ c \in owed[s]
      BY <2>2, <3>1 DEF IndInv, RecipeInv
    <3>3. db[c] # None => Placed(c)
      BY <2>1, <2>2 DEF IndInv, PlaceInv, Placed, Directory
    <3> QED BY <3>2, <3>3
  <2>3. CASE phase # "down"
    <3>1. Accounted(s, c) BY <2>3 DEF IndInv, RecipeInv
    <3>2. index[c] \in ContainerID \union {Garbled} => Placed(c)
      BY <2>1, <2>3 DEF IndInv, PlaceInv, Placed, Directory
    <3>3. index[c] = Empty => Placed(c) BY <2>1 DEF IndInv, InsertInv, Placed
    <3> QED BY <2>1, <3>1, <3>2, <3>3 DEF Accounted
  <2> QED BY <2>2, <2>3
<1> QED BY <1>1, Inductive, PTL

\* A complete container file is never opened for writing again.
THEOREM WrittenOnce == Spec => NoOverwrite
<1>1. IndInv /\ [Next]_vars =>
         [\A id \in ContainerID : disk[id] \in Container => disk'[id] = disk[id]]_vars
  BY FileKept DEF IndInv
<1> QED BY <1>1, Inductive, PTL DEF Spec, NoOverwrite

\* Every place the db file names is a complete file that holds the chunk.
THEOREM SavedChunks == Spec => []SavedOnDisk
<1>1. IndInv => SavedOnDisk
  <2> SUFFICES ASSUME IndInv, NEW c \in Chunk, AbstractSaved[c] # None
               PROVE  <<c, AbstractSaved[c]>> \in AbstractDurable
    BY DEF SavedOnDisk, Store!SavedDurable
  <2>1. AbstractSaved[c] = db[c] /\ db[c] \in ContainerID
    BY DEF AbstractSaved, Places
  <2> QED BY <2>1, MarkAssumption DEF IndInv, PlaceInv, AbstractDurable
<1> QED BY <1>1, Inductive, PTL

-----------------------------------------------------------------------------
(* Where the bodies start.                                                 *)

\* The count of a container and its header differ by what chunkNum held at first.
Displaced(k) ==
    \E n \in Residue \union {0} : k.chunkNum * EntrySize = k.header + n * EntrySize

\* A complete file says its bodies start after as many entries as it has, and those that
\* an uninitialised chunkNum added.
BodyDisplacement ==
    \A id \in ContainerID : disk[id] \in Container => Displaced(disk[id])

CountInv ==
    /\ \A s \in Session, l \in Slot : Occupied(s, l) => Displaced(At(s, l))
    /\ BodyDisplacement

\* A container starts displaced by its first chunkNum; a chunk adds one entry to both.
LEMMA DisplacedFacts ==
    /\ \A id, n : n \in Residue \union {0} => Displaced(NewContainer(id, n))
    /\ \A k \in Container, c \in Chunk : Displaced(k) => Displaced(AddChunk(k, c))
<1> USE DEF EntrySize, CHUNK_HASH_SIZE
<1>1. ASSUME NEW id, NEW n \in Residue \union {0} PROVE Displaced(NewContainer(id, n))
  <2>1. NewContainer(id, n).chunkNum = n /\ NewContainer(id, n).header = 0 BY DEF NewContainer
  <2>2. n \in Nat BY BoundAssumption
  <2>3. NewContainer(id, n).chunkNum * EntrySize = NewContainer(id, n).header + n * EntrySize
    BY <2>1, <2>2
  <2> QED BY <2>3 DEF Displaced
<1>2. ASSUME NEW k \in Container, NEW c \in Chunk, Displaced(k) PROVE Displaced(AddChunk(k, c))
  <2>1. PICK n \in Residue \union {0} : k.chunkNum * EntrySize = k.header + n * EntrySize
    BY <1>2 DEF Displaced
  <2>2. /\ AddChunk(k, c).chunkNum = k.chunkNum + 1
        /\ AddChunk(k, c).header = k.header + EntrySize
    BY DEF AddChunk
  <2>3. n \in Nat /\ k.chunkNum \in Nat /\ k.header \in Nat BY BoundAssumption DEF Container
  <2>4. AddChunk(k, c).chunkNum * EntrySize = AddChunk(k, c).header + n * EntrySize
    BY <2>1, <2>2, <2>3
  <2> QED BY <2>4 DEF Displaced
<1> QED BY <1>1, <1>2

\* No step displaces the bodies further.
LEMMA CountNext == TypeOK /\ ControlInv /\ SlotInv /\ CountInv /\ [Next]_vars => CountInv'
<1> SUFFICES ASSUME TypeOK, ControlInv, SlotInv, CountInv, [Next]_vars PROVE CountInv'
  OBVIOUS
<1>1. \A t \in Session, l \in Slot : Occupied(t, l) => Displaced(At(t, l)) BY DEF CountInv
<1> DEFINE Memory == \A t \in Session, l \in Slot : Occupied(t, l)' => Displaced(At(t, l)')
<1>2. ASSUME NEW s \in Session, Login(s) PROVE Memory
  BY <1>1, <1>2, LoginSlots, DisplacedFacts DEF Same
<1>3. ASSUME NEW s \in Session, FlushFull(s) PROVE Memory
  BY <1>1, <1>3, FlushFullSlots, DisplacedFacts, BoundAssumption DEF Same, Slot
<1>4. ASSUME NEW s \in Session, WriteChunk(s) PROVE Memory
  <2>1. Head(todo[s]) \in Chunk /\ At(s, 0) \in Container
    BY <1>4, AtHand DEF WriteChunk, At, Busy, Locked, Gone
  <2>2. 0 \in Slot BY BoundAssumption DEF Slot
  <2> QED BY <1>1, <1>4, <2>1, <2>2, WriteChunkSlots, DisplacedFacts DEF Same
<1>5. ASSUME NEW s \in Session, FlushLast(s) PROVE Memory
  BY <1>1, <1>5, FlushLastSlots, BoundAssumption DEF Same, Slot
<1>6. ASSUME NEW s \in Session, Pop(s) PROVE Memory
  <2>1. \A l \in Slot : l = -1 \/ l = 0 \/ l >= 1 BY BoundAssumption DEF Slot
  <2> QED BY <1>1, <1>6, <2>1, PopSlots DEF Same
<1>7. ASSUME NEW s \in Session, WriteFile(s) PROVE Memory
  BY <1>1, <1>7, WriteFileSlots DEF Same
<1>8. ASSUME NEW s \in Session, QuietStep(s) PROVE Memory
  BY <1>1, <1>8, QuietSlots DEF SlotsSame, Same
<1>9. ASSUME Crash PROVE Memory BY <1>9, CrashSlots
<1>10. ASSUME Interrupt \/ SaveStat \/ TruncDB \/ WriteDB \/ Restart PROVE Memory
  BY <1>1, <1>10, ServerSlots DEF SlotsSame, Same
<1>11. CASE UNCHANGED vars
  <2>1. \A t \in Session, l \in Slot : Same(t, l)
    BY <1>11 DEF vars, Same, Occupied, At, recvVars, queueVars, writerVars
  <2>2. Memory BY <1>1, <2>1 DEF Same
  <2> QED BY <1>11, <2>2 DEF CountInv, BodyDisplacement, vars, writerVars
<1>12. Memory
  BY <1>2, <1>3, <1>4, <1>5, <1>6, <1>7, <1>8, <1>9, <1>10, <1>11
     DEF Next, Edge, Receiver, Writer, Handler, QuietStep, CountInv
<1>13. BodyDisplacement'
  <2> SUFFICES ASSUME NEW id \in ContainerID, disk'[id] \in Container PROVE Displaced(disk'[id])
    BY DEF BodyDisplacement, Displaced
  <2>1. CASE disk'[id] = disk[id] BY <2>1 DEF CountInv, BodyDisplacement
  <2>2. CASE disk'[id] # disk[id]
    <3>1. PICK s \in Session : WriteFile(s) /\ disk'[id] = tmp[s] BY <2>2, FileStep
    <3>2. Occupied(s, -1) /\ At(s, -1) = tmp[s] BY <3>1, WriteFileSlots
    <3>3. -1 \in Slot BY BoundAssumption DEF Slot
    <3> QED BY <1>1, <3>1, <3>2, <3>3
  <2> QED BY <2>1, <2>2
<1> QED BY <1>12, <1>13 DEF CountInv, Displaced

\* Every complete file leads the decoder to its bodies up to what chunkNum held when
\* InitUploadBuffer left it uninitialised: nothing else, no order of the threads and no
\* crash, displaces them.
THEOREM OnlyResidueDisplaces == Spec => []BodyDisplacement
<1>1. Init => CountInv
  BY MarkAssumption DEF Init, CountInv, BodyDisplacement, Occupied, Gone, Slot
<1>2. IndInv /\ CountInv /\ [Next]_vars => CountInv' BY CountNext DEF IndInv, ControlInv
<1>3. CountInv => BodyDisplacement BY DEF CountInv
<1> QED BY <1>1, <1>2, <1>3, Inductive, PTL DEF Spec

-----------------------------------------------------------------------------
(* The refinement of ChunkStore, for every value of the constants.  A few   *)
(* steps of the code are visible to the abstract store: the assignment of  *)
(* an index entry, the two states of a container file, the two writes of   *)
(* the db file, and the end and the start of a process.                    *)

\* The empty index and the empty disk are an empty store.
LEMMA StoreInit == Init => Store!Init
<1> SUFFICES ASSUME Init PROVE Store!Init
  OBVIOUS
<1>1. AbstractKnown = [c \in Chunk |-> None] /\ AbstractSaved = [c \in Chunk |-> None]
  BY MarkAssumption DEF Init, AbstractKnown, AbstractSaved, Places
<1>2. AbstractDurable = {}
  BY MarkAssumption DEF Init, AbstractDurable, OnDisk
<1>3. AbstractOpened = {}
  BY MarkAssumption DEF Init, AbstractOpened
<1>4. phase # "down" BY DEF Init
<1> QED BY <1>1, <1>2, <1>3, <1>4 DEF Store!Init, Store!Nothing

\* A step that leaves the disk alone leaves the durable chunks and the incomplete
\* files alone.
LEMMA DiskSame ==
    disk' = disk => AbstractDurable' = AbstractDurable /\ AbstractOpened' = AbstractOpened
  BY DEF AbstractDurable, AbstractOpened, OnDisk

\* The places of the index and of the db file are the same if these are.
LEMMA TablesSame ==
    /\ index' = index => AbstractKnown' = AbstractKnown
    /\ db' = db => AbstractSaved' = AbstractSaved
  BY DEF AbstractKnown, AbstractSaved, Places

\* A session at work means a running process.
LEMMA SessionUp ==
    ASSUME IndInv, NEW s \in Session, rpc[s] \notin Gone \/ wpc[s] \notin {"off", "exit"}
    PROVE  phase # "down"
  BY DEF IndInv, DrainInv, PhaseInv

\* AssignValue gives a chunk without a place one in an open container.
LEMMA AssignStores ==
    ASSUME IndInv, NEW s \in Session, AssignValue(s)
    PROVE  Store!Store(Head(todo[s]), cur[s].id)
<1> DEFINE c == Head(todo[s])
<1> DEFINE id == cur[s].id
<1>1. TypeOK /\ rpc[s] = "assign" BY DEF IndInv, AssignValue
<1>2. c \in Chunk /\ id \in ContainerID
  BY <1>1, AtHand DEF Busy, Locked, Gone
<1>3. index[c] = Empty
  BY <1>1 DEF IndInv, InsertInv
<1>4. index' = [index EXCEPT ![c] = id] /\ UNCHANGED <<phase, db, disk>>
  BY DEF AssignValue, serverVars, writerVars
<1>5. AbstractKnown' = [AbstractKnown EXCEPT ![c] = id]
  BY <1>1, <1>2, <1>4 DEF AbstractKnown, Places, TypeOK, TypeServer
<1>6. AbstractKnown[c] = None
  BY <1>2, <1>3, MarkAssumption DEF AbstractKnown, Places
<1>7. ~ Store!Sealed(id) /\ id \notin AbstractOpened
  <2>1. Occupied(s, 0) /\ 0 \in Slot /\ At(s, 0).id = id
    BY <1>1, BoundAssumption DEF Occupied, At, Gone, Slot
  <2>2. disk[id] = None
    BY <2>1 DEF IndInv, SlotInv, FileInv
  <2>3. ~ Store!Sealed(id)
    BY <2>2, MarkAssumption DEF Store!Sealed, AbstractDurable, OnDisk
  <2> QED BY <2>2, <2>3, MarkAssumption DEF AbstractOpened
<1>8. phase # "down"
  BY <1>1, SessionUp DEF Gone
<1> QED BY <1>4, <1>5, <1>6, <1>7, <1>8, DiskSame, TablesSame DEF Store!Store

\* WriteFile seals a container with exactly the chunks the index places in it.
LEMMA WriteSeals ==
    ASSUME IndInv, NEW s \in Session, WriteFile(s)
    PROVE  tmp[s].id \in ContainerID /\ Store!Seal(tmp[s].id)
<1> DEFINE id == tmp[s].id
<1>1. TypeOK /\ wpc[s] = "write" /\ rpc[s] \notin Gone
  BY DEF IndInv, WriteFile, DrainInv
<1>2. -1 \in Slot /\ Occupied(s, -1) /\ At(s, -1) = tmp[s]
  BY <1>1, BoundAssumption DEF Occupied, At, Slot
<1>3. tmp[s] \in Container /\ id \in ContainerID
  BY <1>1, <1>2, SlotType
<1>4. disk[id] = Partial /\ disk' = [disk EXCEPT ![id] = tmp[s]]
  BY <1>1, <1>2 DEF IndInv, SlotInv, FileInv, WriteFile
<1>5. \A c \in Chunk : c \in tmp[s].chunks <=> index[c] = id
  <2>1. ASSUME NEW c \in Chunk, c \in tmp[s].chunks PROVE index[c] = id
    BY <1>2, <2>1 DEF IndInv, ContentInv, BeingInserted
  <2>2. ASSUME NEW c \in Chunk, index[c] = id PROVE c \in tmp[s].chunks
    <3>1. ~ OnDisk(id, c) BY <1>4, MarkAssumption DEF OnDisk
    <3>2. InMemory(id, c) BY <1>3, <2>2, <3>1 DEF IndInv, PlaceInv
    <3>3. PICK t \in Session, l \in Slot :
             Occupied(t, l) /\ At(t, l).id = id /\ c \in At(t, l).chunks
      BY <3>2 DEF InMemory
    <3>4. t = s /\ l = -1 BY <1>2, <3>3 DEF IndInv, SlotInv, UniqueInv
    <3> QED BY <1>2, <3>3, <3>4
  <2> QED BY <2>1, <2>2
<1>6. \A c \in Chunk : AbstractKnown[c] = id <=> index[c] = id
  BY <1>3, MarkAssumption DEF AbstractKnown, Places
<1>7. AbstractDurable' =
         AbstractDurable \union {<<c, id>> : c \in {d \in Chunk : AbstractKnown[d] = id}}
  <2>1. \A c \in Chunk, i \in ContainerID : i # id => (OnDisk(i, c)' <=> OnDisk(i, c))
    BY <1>1, <1>4 DEF OnDisk, TypeOK, TypeWriter
  <2>2. \A c \in Chunk, i \in ContainerID : i = id =>
           ~ OnDisk(i, c) /\ (OnDisk(i, c)' <=> c \in tmp[s].chunks)
    BY <1>1, <1>3, <1>4, MarkAssumption DEF OnDisk, TypeOK, TypeWriter
  <2>3. \A c \in Chunk, i \in ContainerID :
           OnDisk(i, c)' <=> OnDisk(i, c) \/ (i = id /\ AbstractKnown[c] = id)
    BY <1>5, <1>6, <2>1, <2>2
  <2> QED BY <1>3, <2>3 DEF AbstractDurable
<1>8. id \in AbstractOpened /\ AbstractOpened' = AbstractOpened \ {id}
  BY <1>1, <1>3, <1>4, MarkAssumption DEF AbstractOpened, TypeOK, TypeWriter
<1>9. phase # "down" /\ UNCHANGED <<phase, db, index>>
  BY <1>1, SessionUp DEF WriteFile, serverVars, indexVars
<1>10. AbstractKnown' = AbstractKnown /\ AbstractSaved' = AbstractSaved
  BY <1>9, TablesSame
<1> QED BY <1>3, <1>7, <1>8, <1>9, <1>10 DEF Store!Seal

\* With every session gone, all that the store knows is durable.
LEMMA ClosedStore ==
    ASSUME IndInv, \A s \in Session : rpc[s] \in Gone
    PROVE  Store!AllDurable
<1>1. \A c \in Chunk : index[c] \in ContainerID => OnDisk(index[c], c)
  BY AllOnDisk, MarkAssumption DEF IndInv, ControlInv
<1>2. \A c \in Chunk : AbstractKnown[c] # None =>
         AbstractKnown[c] = index[c] /\ index[c] \in ContainerID
  BY DEF AbstractKnown, Places
<1> QED BY <1>1, <1>2 DEF Store!AllDurable, AbstractDurable

\* Truncating the db file discards the saved places, all sessions being gone.
LEMMA TruncDiscards == ASSUME IndInv, TruncDB PROVE Store!Discard
<1>1. phase = "saving" /\ phase' = "writing" /\ db' = [c \in Chunk |-> None]
  BY DEF TruncDB
<1>2. \A s \in Session : rpc[s] \in Gone
  BY <1>1 DEF IndInv, PhaseInv
<1>3. /\ AbstractKnown' = AbstractKnown
      /\ AbstractDurable' = AbstractDurable /\ AbstractOpened' = AbstractOpened
  BY DiskSame, TablesSame DEF TruncDB, indexVars, writerVars
<1>4. AbstractSaved' = [c \in Chunk |-> None]
  BY <1>1, MarkAssumption DEF AbstractSaved, Places
<1> QED BY <1>1, <1>2, <1>3, <1>4, ClosedStore DEF Store!Discard, Store!Nothing

\* Writing it saves every place the store knows, and ends the process.
LEMMA WriteSaves == ASSUME IndInv, WriteDB PROVE Store!Save
<1>1. phase = "writing" /\ phase' = "down" /\ db' = index /\ index' = [c \in Chunk |-> None]
  BY DEF WriteDB
<1>2. \A s \in Session : rpc[s] \in Gone
  BY <1>1 DEF IndInv, PhaseInv
<1>3. AbstractKnown' = [c \in Chunk |-> None] /\ AbstractSaved' = AbstractKnown
  BY <1>1, MarkAssumption DEF AbstractKnown, AbstractSaved, Places
<1>4. AbstractDurable' = AbstractDurable /\ AbstractOpened' = AbstractOpened
  BY DiskSame DEF WriteDB, writerVars
<1> QED BY <1>1, <1>2, <1>3, <1>4, ClosedStore DEF Store!Save, Store!Nothing

\* A crash forgets what is in memory; one that cuts the writing of the db file
\* short leaves part of it.
LEMMA CrashCrashes == ASSUME IndInv, Crash PROVE Store!Crash
<1>1. phase # "down" /\ phase' = "down" /\ index' = [c \in Chunk |-> None] /\ disk' = disk
  BY DEF Crash
<1>2. AbstractKnown' = [c \in Chunk |-> None]
  BY <1>1, MarkAssumption DEF AbstractKnown, Places
<1>3. AbstractDurable' = AbstractDurable /\ AbstractOpened' = AbstractOpened
  BY <1>1, DiskSame
<1>4. \/ AbstractSaved' = AbstractSaved
      \/ /\ Store!AllDurable /\ AbstractSaved = Store!Nothing
         /\ \E K \in SUBSET Chunk :
               AbstractSaved' = [c \in Chunk |-> IF c \in K THEN AbstractKnown[c] ELSE None]
  <2>1. CASE phase = "writing"
    <3>1. \A s \in Session : rpc[s] \in Gone
      BY <2>1 DEF IndInv, PhaseInv
    <3>2. AbstractSaved = Store!Nothing
      BY <2>1, MarkAssumption DEF IndInv, PlaceInv, Store!Nothing, AbstractSaved, Places
    <3>3. PICK K \in SUBSET Chunk, cut \in Chunk \union {None} :
             db' = [c \in Chunk |-> IF c = cut /\ index[c] # None THEN Garbled
                                    ELSE IF c \in K THEN index[c] ELSE None]
      BY <2>1 DEF Crash
    <3>4. AbstractSaved' = [c \in Chunk |-> IF c \in K \ {cut} THEN AbstractKnown[c] ELSE None]
      BY <3>3, MarkAssumption DEF AbstractSaved, AbstractKnown, Places
    <3>5. K \ {cut} \in SUBSET Chunk OBVIOUS
    <3> QED BY <3>1, <3>2, <3>4, <3>5, ClosedStore
  <2>2. CASE phase # "writing"
    BY <2>2, TablesSame DEF Crash
  <2> QED BY <2>1, <2>2
<1> QED BY <1>1, <1>2, <1>3, <1>4 DEF Store!Crash, Store!Nothing

\* A restart knows what the db file has.
LEMMA RestartRestarts == ASSUME IndInv, Restart PROVE Store!Restart
<1>1. phase = "down" /\ phase' = "running" /\ index' = db /\ db' = db
  BY DEF Restart
<1>2. AbstractKnown' = AbstractSaved /\ AbstractSaved' = AbstractSaved
  BY <1>1 DEF AbstractKnown, AbstractSaved, Places
<1>3. AbstractDurable' = AbstractDurable /\ AbstractOpened' = AbstractOpened
  BY DiskSame DEF Restart, writerVars
<1> QED BY <1>1, <1>2, <1>3 DEF Store!Restart

\* InsertKey adds a key without a value: the store knows nothing new.
LEMMA InsertHidden ==
    ASSUME IndInv, NEW s \in Session, InsertKey(s) PROVE UNCHANGED Store!vars
<1>1. TypeOK /\ rpc[s] = "insert" BY DEF IndInv, InsertKey
<1>2. Head(todo[s]) \in Chunk /\ index[Head(todo[s])] = None
  BY <1>1, AtHand DEF IndInv, InsertInv, Busy, Locked
<1>3. AbstractKnown' = AbstractKnown
  BY <1>1, <1>2, MarkAssumption DEF InsertKey, AbstractKnown, Places, TypeOK, TypeServer
<1>4. /\ UNCHANGED phase /\ AbstractSaved' = AbstractSaved
      /\ AbstractDurable' = AbstractDurable /\ AbstractOpened' = AbstractOpened
  BY DiskSame, TablesSame DEF InsertKey, serverVars, writerVars
<1> QED BY <1>3, <1>4 DEF Store!vars

\* OpenFile opens the file of a container that has none.
LEMMA OpenOpens ==
    ASSUME IndInv, NEW s \in Session, OpenFile(s)
    PROVE  tmp[s].id \in ContainerID /\ Store!Open(tmp[s].id)
<1> DEFINE id == tmp[s].id
<1>1. TypeOK /\ wpc[s] = "open" /\ rpc[s] \notin Gone
  BY DEF IndInv, OpenFile, DrainInv
<1>2. -1 \in Slot /\ Occupied(s, -1) /\ At(s, -1) = tmp[s]
  BY <1>1, BoundAssumption DEF Occupied, At, Slot
<1>3. id \in ContainerID /\ disk[id] = None
  BY <1>1, <1>2, SlotType DEF IndInv, SlotInv, FileInv
<1>4. disk' = [disk EXCEPT ![id] = Partial]
  BY DEF OpenFile
<1>5. \A i \in ContainerID, c \in Chunk : OnDisk(i, c)' <=> OnDisk(i, c)
  BY <1>1, <1>3, <1>4, MarkAssumption DEF OnDisk, TypeOK, TypeWriter
<1>6. AbstractDurable' = AbstractDurable BY <1>5 DEF AbstractDurable
<1>7. id \notin AbstractOpened /\ AbstractOpened' = AbstractOpened \union {id}
  BY <1>1, <1>3, <1>4, MarkAssumption DEF AbstractOpened, TypeOK, TypeWriter
<1>8. ~ Store!Sealed(id)
  BY <1>3, MarkAssumption DEF Store!Sealed, AbstractDurable, OnDisk
<1>9. phase # "down" /\ UNCHANGED <<phase, db, index>>
  BY <1>1, SessionUp DEF OpenFile, serverVars, indexVars
<1>10. AbstractKnown' = AbstractKnown /\ AbstractSaved' = AbstractSaved
  BY <1>9, TablesSame
<1> QED BY <1>3, <1>6, <1>7, <1>8, <1>9, <1>10 DEF Store!Open

\* Every other step of a session is invisible.
LEMMA OtherHidden ==
    ASSUME NEW s \in Session, OtherStep(s), ~ OpenFile(s), ~ WriteFile(s)
    PROVE  UNCHANGED Store!vars
<1>1. UNCHANGED <<index, db, phase>> BY OtherUnchanged
<1>2. AbstractKnown' = AbstractKnown /\ AbstractSaved' = AbstractSaved
  BY <1>1, TablesSame
<1>3. disk' = disk
  BY DEF OtherStep, Edge, Writer, Login, RecvChunks, RecvRecipe, Close, LockIndex,
       DuplicateChunk, FlushFull, WriteChunk, AnswerStored, AnswerMissing, FlushLast,
       SetDone, Leave, CheckDone, CheckEmpty, Pop, PopNothing, writerVars
<1> QED BY <1>1, <1>2, <1>3, DiskSame DEF Store!vars

\* Every step of the code is a step of the store or leaves it unchanged.
LEMMA StoreNext == IndInv /\ [Next]_vars => [Store!Next]_(Store!vars)
<1> SUFFICES ASSUME IndInv, [Next]_vars PROVE Store!Next \/ UNCHANGED Store!vars
  OBVIOUS
<1>1. ASSUME NEW s \in Session, AssignValue(s) PROVE Store!Next
  <2>1. Head(todo[s]) \in Chunk /\ cur[s].id \in ContainerID
    BY <1>1, AtHand DEF IndInv, AssignValue, Busy, Locked, Gone
  <2> QED BY <1>1, <2>1, AssignStores DEF Store!Next
<1>2. ASSUME NEW s \in Session, OpenFile(s) \/ WriteFile(s) PROVE Store!Next
  BY <1>2, OpenOpens, WriteSeals DEF Store!Next
<1>3. ASSUME NEW s \in Session, InsertKey(s) PROVE UNCHANGED Store!vars
  BY <1>3, InsertHidden
<1>4. ASSUME NEW s \in Session, OtherStep(s), ~ OpenFile(s), ~ WriteFile(s) PROVE UNCHANGED Store!vars
  BY <1>4, OtherHidden
<1>5. ASSUME Interrupt \/ SaveStat PROVE UNCHANGED Store!vars
  <2>1. UNCHANGED <<index, db, disk>> /\ phase # "down" /\ phase' # "down"
    BY <1>5 DEF Interrupt, SaveStat, indexVars, writerVars
  <2>2. AbstractKnown' = AbstractKnown /\ AbstractSaved' = AbstractSaved
    BY <2>1, TablesSame
  <2> QED BY <2>1, <2>2, DiskSame DEF Store!vars
<1>6. ASSUME TruncDB \/ WriteDB \/ Crash \/ Restart PROVE Store!Next
  BY <1>6, TruncDiscards, WriteSaves, CrashCrashes, RestartRestarts DEF Store!Next
<1>7. CASE UNCHANGED vars
  <2>1. UNCHANGED <<index, db, disk, phase>>
    BY <1>7 DEF vars, serverVars, indexVars, writerVars
  <2>2. AbstractKnown' = AbstractKnown /\ AbstractSaved' = AbstractSaved
    BY <2>1, TablesSame
  <2> QED BY <2>1, <2>2, DiskSame DEF Store!vars
<1> QED
  BY <1>1, <1>2, <1>3, <1>4, <1>5, <1>6, <1>7
  DEF Next, OtherStep, Receiver, Handler

\* The upload path, crashes and restarts included, implements the abstract store.
THEOREM Refinement == Spec => ImplementsStore
<1>1. Init => Store!Init BY StoreInit
<1>2. IndInv /\ [Next]_vars => [Store!Next]_(Store!vars) BY StoreNext
<1> QED BY <1>1, <1>2, Inductive, PTL DEF Spec, ImplementsStore, Store!Spec
=============================================================================
