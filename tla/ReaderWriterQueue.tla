------------------------- MODULE ReaderWriterQueue -------------------------
(***************************************************************************)
(* moodycamel::ReaderWriterQueue (readerwriterqueue.h), the lock-free      *)
(* queue under MessageQueue: a circular list of ring-buffer blocks.  The   *)
(* producer owns tails, next pointers and tailBlock, the consumer owns     *)
(* fronts and frontBlock; each reads the other's memory one location per   *)
(* step.  Elements are numbered 1, 2, 3, ... in the order of enqueuing.    *)
(***************************************************************************)
EXTENDS StoreBuffer

CONSTANTS MAX_BLOCK_SIZE,   \* largest block the queue grows to
          Sizes,            \* constructor arguments to check
          MaxBlocks,        \* malloc fails for enqueue once there are that many
          MaxItems,         \* elements enqueued in a behaviour
          MaxPending        \* stores that may wait when a thread begins a call

ASSUME QueueAssumption ==
    /\ MAX_BLOCK_SIZE \in Nat /\ MAX_BLOCK_SIZE >= 2
    /\ \E i \in 0..MAX_BLOCK_SIZE : MAX_BLOCK_SIZE = 2 ^ i
    /\ Sizes \subseteq Nat \ {0} /\ IsFiniteSet(Sizes)
    /\ MaxBlocks \in Nat /\ MaxItems \in Nat /\ MaxPending \in Nat

\* What a power of two is, as far as sizes go; ceilToPow2 and the masks depend on it.
ASSUME PowerAssumption ==
    /\ 2 ^ 0 = 1
    /\ \A s \in Sizes \cup {MAX_BLOCK_SIZE} : \A i \in 0..s : 2 ^ (i + 1) = 2 * 2 ^ i

VARIABLES size,         \* the constructor's argument
          mem,          \* shared memory: location -> value
          stores,       \* thread -> its store buffer
          sizeMask,     \* block -> its capacity - 1, for the allocated blocks
          localFront,   \* block -> the producer's copy of its front
          p, c,         \* the call each thread is in
          sent,         \* elements whose enqueue has written them
          got,          \* elements taken, in order
          destroyed     \* what the destructor destroyed: elements and blocks

queueVars == <<size, mem, stores, sizeMask, localFront, p, c, sent, got, destroyed>>

Threads == {"producer", "consumer"}

\* ceilToPow2: the least power of two that is not less than x.
ceilToPow2(x) == CHOOSE y \in {2 ^ i : i \in 0..x} : y >= x /\ 2 * x > y

InitialBlockSize(s) ==
    IF ceilToPow2(s + 1) > MAX_BLOCK_SIZE * 2 THEN MAX_BLOCK_SIZE ELSE ceilToPow2(s + 1)
InitialBlockCount(s) ==
    IF ceilToPow2(s + 1) > MAX_BLOCK_SIZE * 2
    THEN (s + MAX_BLOCK_SIZE * 2 - 3) \div (MAX_BLOCK_SIZE - 1)
    ELSE 1
\* The size of the block enqueue adds, from the largest size so far.
NewBlockSize(largest) == IF largest >= MAX_BLOCK_SIZE THEN largest ELSE largest * 2

Blocks == 1..Max({InitialBlockCount(s) : s \in Sizes} \cup {MaxBlocks})
Slots == 0..(Max({InitialBlockSize(s) : s \in Sizes} \cup {MAX_BLOCK_SIZE}) - 1)
Locations == ({"front", "tail", "localTail", "next"} \X Blocks) \cup ({"data"} \X Blocks \X Slots)
             \cup {<<"frontBlock">>, <<"tailBlock">>}

NextIndex(b, i) == (i + 1) % (sizeMask[b] + 1)

\* What each thread reads; the loads of the other's fields are the racing ones.
ByProducer(loc) == Load(stores["producer"], mem, loc)
ByConsumer(loc) == Load(stores["consumer"], mem, loc)

\* Elements the consumer can see, and elements whose slot the producer can see
\* free again.  An enqueue is published by its last store.
Publishing == {i \in DOMAIN stores["producer"] :
                  LET s == stores["producer"] IN
                  \/ s[i].loc[1] = "tailBlock"
                  \/ s[i].loc[1] = "tail" /\ \A j \in (i + 1)..Len(s) :
                        s[j].loc[1] = "tailBlock" => s[j].val # s[i].loc[2]}
published == sent - Cardinality(Publishing)
released == Len(got) - Cardinality(Pending(stores["consumer"], "front"))

Idle == [pc |-> "idle", op |-> "none", ok |-> FALSE, start |-> 0,
         block |-> 0, index |-> 0, sum |-> 0, first |-> 0]

----------------------------------------------------------------------------
\* The constructor: one block with room for size elements and a spare slot, or
\* a circle of blocks of MAX_BLOCK_SIZE.  It ends in a full fence.
Init ==
    /\ size \in Sizes
    /\ sizeMask = [b \in 1..InitialBlockCount(size) |-> InitialBlockSize(size) - 1]
    /\ mem = [loc \in Locations |->
                 CASE loc[1] = "next" -> IF loc[2] \in DOMAIN sizeMask
                                         THEN (loc[2] % InitialBlockCount(size)) + 1 ELSE 0
                   [] loc[1] \in {"frontBlock", "tailBlock"} -> 1
                   [] OTHER -> 0]
    /\ stores = [t \in Threads |-> << >>]
    /\ localFront = [b \in Blocks |-> 0]
    /\ p = Idle /\ c = Idle
    /\ sent = 0 /\ got = << >> /\ destroyed = [elements |-> << >>, blocks |-> {}]

\* A pending store of t reaches memory.
Drain(t) ==
    /\ \E i \in Leaving(stores[t]) :
          /\ mem' = [mem EXCEPT ![stores[t][i].loc] = stores[t][i].val]
          /\ stores' = [stores EXCEPT ![t] = Left(@, i)]
    /\ UNCHANGED <<size, sizeMask, localFront, p, c, sent, got, destroyed>>

Call(op, pc, start) == [Idle EXCEPT !.op = op, !.pc = pc, !.start = start]

----------------------------------------------------------------------------
(* The producer. *)

\* try_enqueue, try_emplace (CannotAlloc); enqueue, emplace (CanAlloc).
CallEnqueue(op) ==
    /\ p.pc = "idle" /\ sent < MaxItems /\ Len(stores["producer"]) <= MaxPending
    /\ p' = Call(op, "enqueue", released)
    /\ UNCHANGED <<size, mem, stores, sizeMask, localFront, c, sent, got, destroyed>>

EnqueueDone(ok) == p' = [p EXCEPT !.pc = "done", !.ok = ok, !.block = 0, !.index = 0]

\* Fault: no release fence before the tail moves.
TailStoresNoFence(b, tail) ==
    <<Store(<<"data", b, tail>>, sent + 1), Store(<<"tail", b>>, NextIndex(b, tail))>>
\* Fault: the tail block moves before the element is in it.
AheadStoresEarly(b, tail) ==
    <<Store(<<"tailBlock">>, b), Fence, Store(<<"data", b, tail>>, sent + 1),
      Store(<<"tail", b>>, NextIndex(b, tail))>>

\* The stores of an enqueue: into the tail block; into the free block ahead;
\* into a new block, which is linked in before next.
TailStores(b, tail) ==
    <<Store(<<"data", b, tail>>, sent + 1), Fence, Store(<<"tail", b>>, NextIndex(b, tail))>>
AheadStores(b, tail) ==
    <<Store(<<"data", b, tail>>, sent + 1), Store(<<"tail", b>>, NextIndex(b, tail)),
      Fence, Store(<<"tailBlock">>, b)>>
NewBlockStores(b, new, next) ==
    <<Store(<<"data", new, 0>>, sent + 1), Store(<<"localTail", new>>, 1), Store(<<"tail", new>>, 1),
      Store(<<"next", new>>, next), Store(<<"next", b>>, new), Fence, Store(<<"tailBlock">>, new)>>

\* The enqueue succeeds with these stores.
Enqueue(issued) ==
    /\ stores' = [stores EXCEPT !["producer"] = Issue(@, issued)]
    /\ sent' = sent + 1
    /\ EnqueueDone(TRUE)

\* inner_enqueue up to the second test of the tail block: the shadow copy of
\* front is refreshed only when it leaves no room.
EnqueueTail ==
    LET b     == ByProducer(<<"tailBlock">>)
        tail  == ByProducer(<<"tail", b>>)
        next  == NextIndex(b, tail)
        front == IF next # localFront[b] THEN localFront[b] ELSE ByProducer(<<"front", b>>)
    IN  /\ p.pc = "enqueue"
        /\ localFront' = [localFront EXCEPT ![b] = front]
        /\ \/ next # front /\ Enqueue(TailStores(b, tail))
           \/ next = front /\ p' = [p EXCEPT !.pc = "full"] /\ UNCHANGED <<stores, sent>>
        /\ UNCHANGED <<size, mem, sizeMask, c, got, destroyed>>

\* The tail block is full: the next block is free unless it is the front block.
\* Otherwise enqueue links a new block behind the tail block, if malloc gives
\* one, and try_enqueue refuses.
EnqueueFull ==
    LET b     == ByProducer(<<"tailBlock">>)
        next  == ByProducer(<<"next", b>>)
        front == ByProducer(<<"frontBlock">>)
        malloc == Len(sizeMask) < MaxBlocks
    IN  /\ p.pc = "full"
        /\ \/ /\ next # front
              /\ p' = [p EXCEPT !.pc = "ahead", !.block = next]
              /\ UNCHANGED <<stores, sizeMask, sent>>
           \/ /\ next = front /\ p.op = "enqueue" /\ malloc
              /\ sizeMask' = Append(sizeMask, NewBlockSize(Max(Range(sizeMask)) + 1) - 1)
              /\ Enqueue(NewBlockStores(b, Len(sizeMask) + 1, next))
           \/ /\ next = front /\ ~(p.op = "enqueue" /\ malloc)
              /\ EnqueueDone(FALSE)
              /\ UNCHANGED <<stores, sizeMask, sent>>
        /\ UNCHANGED <<size, mem, localFront, c, got, destroyed>>

\* The element goes into the free block ahead, which becomes the tail block.
EnqueueAhead ==
    /\ p.pc = "ahead"
    /\ localFront' = [localFront EXCEPT ![p.block] = ByProducer(<<"front", p.block>>)]
    /\ Enqueue(AheadStores(p.block, ByProducer(<<"tail", p.block>>)))
    /\ UNCHANGED <<size, mem, sizeMask, c, got, destroyed>>

----------------------------------------------------------------------------
(* The consumer: try_dequeue, pop and peek walk the same path. *)

CallDequeue(op) ==
    /\ c.pc = "idle" /\ Len(stores["consumer"]) <= MaxPending
    /\ c' = Call(op, "dequeue", published)
    /\ UNCHANGED <<size, mem, stores, sizeMask, localFront, p, sent, got, destroyed>>

\* Take element c.index of c.block next.
At(b, i) == c' = [c EXCEPT !.pc = "element", !.block = b, !.index = i]

\* The tail of a front block: the shadow copy, or the tail itself when a fresh
\* value is asked for or the copy says the block is empty.
TailOf(b, fresh) ==
    IF fresh \/ ByConsumer(<<"front", b>>) = mem[<<"localTail", b>>]
    THEN ByConsumer(<<"tail", b>>) ELSE mem[<<"localTail", b>>]

\* One look at the front block.
DequeueFront(fresh, elsePc) ==
    LET b     == ByConsumer(<<"frontBlock">>)
        front == ByConsumer(<<"front", b>>)
        tail  == TailOf(b, fresh)
    IN  /\ mem' = [mem EXCEPT ![<<"localTail", b>>] = tail]
        /\ \/ front # tail /\ At(b, front)
           \/ front = tail /\ c' = [c EXCEPT !.pc = elsePc]
        /\ UNCHANGED <<size, stores, sizeMask, localFront, p, sent, got, destroyed>>

DequeueFirst == c.pc = "dequeue" /\ DequeueFront(FALSE, "tailBlock")
DequeueAgain == c.pc = "again" /\ DequeueFront(TRUE, "next")

\* Fault: the front block is not looked at again after tailBlock was read.
DequeueTailBlockOnce ==
    /\ c.pc = "tailBlock"
    /\ c' = IF ByConsumer(<<"frontBlock">>) # ByConsumer(<<"tailBlock">>)
            THEN [c EXCEPT !.pc = "next"]
            ELSE [c EXCEPT !.pc = "done", !.ok = FALSE]
    /\ UNCHANGED <<size, mem, stores, sizeMask, localFront, p, sent, got, destroyed>>

\* Nothing in the front block: empty, if that is the tail block.
DequeueTailBlock ==
    /\ c.pc = "tailBlock"
    /\ c' = IF ByConsumer(<<"frontBlock">>) # ByConsumer(<<"tailBlock">>)
            THEN [c EXCEPT !.pc = "again"]
            ELSE [c EXCEPT !.pc = "done", !.ok = FALSE]
    /\ UNCHANGED <<size, mem, stores, sizeMask, localFront, p, sent, got, destroyed>>

DequeueNext ==
    /\ c.pc = "next"
    /\ c' = [c EXCEPT !.pc = "advance", !.block = ByConsumer(<<"next", ByConsumer(<<"frontBlock">>)>>)]
    /\ UNCHANGED <<size, mem, stores, sizeMask, localFront, p, sent, got, destroyed>>

\* The block ahead holds an element: it becomes the front block, except for peek.
DequeueAdvance ==
    /\ c.pc = "advance"
    /\ IF c.op = "peek"
       THEN UNCHANGED <<mem, stores>>
       ELSE /\ mem' = [mem EXCEPT ![<<"localTail", c.block>>] = ByConsumer(<<"tail", c.block>>)]
            /\ stores' = [stores EXCEPT !["consumer"] = Issue(@,
                   <<Fence, Store(<<"frontBlock">>, c.block)>>)]
    /\ At(c.block, ByConsumer(<<"front", c.block>>))
    /\ UNCHANGED <<size, sizeMask, localFront, p, sent, got, destroyed>>

\* The element is read and its slot given back; peek only returns it.
DequeueElement ==
    LET element == ByConsumer(<<"data", c.block, c.index>>)
    IN  /\ c.pc = "element"
        /\ c' = [Call(c.op, "done", c.start) EXCEPT !.ok = TRUE, !.sum = element]
        /\ IF c.op = "peek"
           THEN UNCHANGED <<stores, got>>
           ELSE /\ got' = Append(got, element)
                /\ stores' = [stores EXCEPT !["consumer"] = Issue(@,
                       <<Fence, Store(<<"front", c.block>>, NextIndex(c.block, c.index))>>)]
        /\ UNCHANGED <<size, mem, sizeMask, localFront, p, sent, destroyed>>

----------------------------------------------------------------------------
(* size_approx, which MessageQueue::IsEmpty calls from the consumer: once  *)
(* round the circle of blocks.                                             *)

CallSize ==
    /\ c.pc = "idle"
    /\ c' = Call("size_approx", "size", published)
    /\ UNCHANGED <<size, mem, stores, sizeMask, localFront, p, sent, got, destroyed>>

AfterBlock(next) ==
    IF next = c.first
    THEN [c EXCEPT !.pc = "done", !.ok = TRUE, !.block = 0, !.first = 0]
    ELSE [c EXCEPT !.pc = "block", !.block = next]

\* Fronts are the consumer's own, so each step loads one location the producer
\* may be changing.
SizeStep ==
    LET Field(f) == ByConsumer(<<f, c.block>>)
        front == ByConsumer(<<"frontBlock">>)
    IN  /\ \/ /\ c.pc = "size"
              /\ c' = [c EXCEPT !.pc = "block", !.block = front, !.first = front]
           \/ /\ c.pc = "block"
              /\ c' = [c EXCEPT !.pc = "blockNext",
                     !.sum = @ + ((Field("tail") - Field("front")) % (sizeMask[c.block] + 1))]
           \/ /\ c.pc = "blockNext"
              /\ c' = AfterBlock(Field("next"))
        /\ UNCHANGED <<size, mem, stores, sizeMask, localFront, p, sent, got, destroyed>>

----------------------------------------------------------------------------
ReturnEnqueue ==
    /\ p.pc = "done" /\ p' = Idle
    /\ UNCHANGED <<size, mem, stores, sizeMask, localFront, c, sent, got, destroyed>>
ReturnDequeue ==
    /\ c.pc = "done" /\ c' = Idle
    /\ UNCHANGED <<size, mem, stores, sizeMask, localFront, p, sent, got, destroyed>>

ProducerStep == EnqueueTail \/ EnqueueFull \/ EnqueueAhead
ConsumerStep == \/ DequeueFirst \/ DequeueTailBlock \/ DequeueAgain \/ DequeueNext
                \/ DequeueAdvance \/ DequeueElement \/ SizeStep

----------------------------------------------------------------------------
\* Fault: only the front block is destroyed.
CircleOfOne == <<mem[<<"frontBlock">>]>>

\* The destructor's walk from the front block: the blocks of the circle, and
\* the elements left in them.
Circle ==
    LET at[i \in DOMAIN sizeMask] == IF i = 1 THEN mem[<<"frontBlock">>] ELSE mem[<<"next", at[i - 1]>>]
        n == Min({i \in DOMAIN sizeMask : mem[<<"next", at[i]>>] = at[1]} \cup {Len(sizeMask)})
    IN  SubSeq(at, 1, n)
Elements(b) ==
    LET front == mem[<<"front", b>>]
        slots == sizeMask[b] + 1
    IN  [i \in 1..((mem[<<"tail", b>>] - front) % slots) |-> mem[<<"data", b, (front + i - 1) % slots>>]]

\* The owner destroys the queue when both threads are through with it.
Destroy ==
    /\ p.pc = "idle" /\ c.pc = "idle"
    /\ \A t \in Threads : stores[t] = << >>
    /\ p' = [p EXCEPT !.pc = "gone"] /\ c' = [c EXCEPT !.pc = "gone"]
    /\ destroyed' = [elements |-> FlattenSeq([i \in DOMAIN Circle |-> Elements(Circle[i])]),
                     blocks |-> Range(Circle)]
    /\ UNCHANGED <<size, mem, stores, sizeMask, localFront, sent, got>>

----------------------------------------------------------------------------
(* Properties of the inner queue. *)

\* What the queue implements: published and got are those of a FIFO.
FIFO == INSTANCE Fifo WITH published <- published, taken <- got

\* Elements come out in the order of enqueuing, each once and intact, and none
\* before it was published (readerwriterqueue.h:76-94).
ElementsInOrder == FIFO!Spec

\* AnswersHonest: what a call answers was true at some moment during it.
\*  - try_dequeue and peek say "empty" only when every element published before the
\*    call has been taken (the double check of readerwriterqueue.h:293-301);
\*  - try_enqueue refuses, and enqueue fails, only with at least size elements in
\*    the queue that was constructed to hold size (readerwriterqueue.h:99-102);
\*  - peek returns the element the next try_dequeue takes;
\*  - size_approx counts at least the elements that were in the queue all along
\*    and at most those that were in it at some time during the call.
AnswersHonest ==
    /\ c.pc = "done" /\ ~c.ok => c.start <= Len(got)
    /\ p.pc = "done" /\ ~p.ok => sent - p.start >= size
    /\ c.pc = "done" /\ c.ok /\ c.op = "peek" => c.sum = Len(got) + 1
    /\ c.pc = "done" /\ c.op = "size_approx" => c.sum \in (c.start - Len(got))..(sent - Len(got))

\* The asserts at readerwriterqueue.h:345, 407, 457 and 577: the block the
\* consumer advances to holds an element, the block ahead of the producer none.
BlocksAhead ==
    /\ c.pc = "advance" => ByConsumer(<<"front", c.block>>) # ByConsumer(<<"tail", c.block>>)
    /\ p.pc = "ahead" => ByProducer(<<"front", p.block>>) = ByProducer(<<"tail", p.block>>)

\* The destructor destroys each element still in the queue and frees each block.
NothingLeaks ==
    c.pc = "gone" => /\ got \o destroyed.elements = [i \in 1..sent |-> i]
                     /\ destroyed.blocks = DOMAIN sizeMask
=============================================================================
