---------------------------- MODULE QueueProofs -----------------------------
(***************************************************************************)
(* The invariant of module QueueInvariant is inductive, for every size of  *)
(* the queue, block size, number of blocks and order in which the stores   *)
(* of the two threads reach memory.  From it follow what the queue is used *)
(* for: it is a FIFO, its answers are honest, its asserts hold, the        *)
(* semaphore counts elements, and the destructor leaks nothing.            *)
(*                                                                         *)
(* QueueMemoryProofs has the producer and the stores that reach memory.    *)
(* Here come the consumer and size_approx, then the actions of the model   *)
(* with their program counters, the semaphore and the destructor.          *)
(***************************************************************************)
EXTENDS QueueMemoryProofs, SequenceTheorems

-----------------------------------------------------------------------------
(* Calls, field by field.                                                  *)

\* The fields of a call, and the ways the actions update them.
CallIs(call, pc, op, ok, start, block, index, sum, first) ==
  /\ call \in CallSet
  /\ call.pc = pc /\ call.op = op /\ call.ok = ok /\ call.start = start
  /\ call.block = block /\ call.index = index /\ call.sum = sum /\ call.first = first
\* The fields of a call that the steps set.
SetPc(call, call2, pc) == call2 = [call EXCEPT !.pc = pc]
SetPcOk(call, call2, pc, ok) == call2 = [call EXCEPT !.pc = pc, !.ok = ok]
SetPcBlock(call, call2, pc, block) == call2 = [call EXCEPT !.pc = pc, !.block = block]
SetPcSum(call, call2, pc, sum) == call2 = [call EXCEPT !.pc = pc, !.sum = sum]
SetPcPlace(call, call2, pc, block, index) == call2 = [call EXCEPT !.pc = pc, !.block = block, !.index = index]
SetPcWalk(call, call2, pc, block, first) == call2 = [call EXCEPT !.pc = pc, !.block = block, !.first = first]
SetPcDone(call, call2, pc, ok, block, index) == call2 = [call EXCEPT !.pc = pc, !.ok = ok, !.block = block, !.index = index]
SetPcEnd(call, call2, pc, ok, block, first) == call2 = [call EXCEPT !.pc = pc, !.ok = ok, !.block = block, !.first = first]
SetPcCall(call, call2, op, pc, start) == call2 = [call EXCEPT !.op = op, !.pc = pc, !.start = start]
SetOkSum(call, call2, ok, sum) == call2 = [call EXCEPT !.ok = ok, !.sum = sum]

\* The fields of a call and their types.
LEMMA CallTypes ==
  ASSUME NEW call \in CallSet
  PROVE  /\ call.pc \in Pcs /\ call.op \in Ops /\ call.ok \in BOOLEAN /\ call.start \in Nat /\ call.block \in Nat
         /\ call.index \in Nat /\ call.sum \in Nat /\ call.first \in Nat
BY DEF CallSet

\* A call that goes on has only the fields changed that the step sets: its place,
LEMMA CallPc ==
  ASSUME NEW call \in CallSet, NEW pc \in Pcs, NEW call2, SetPc(call, call2, pc)
  PROVE  CallIs(call2, pc, call.op, call.ok, call.start, call.block, call.index, call.sum, call.first)
<1>1. call2 = [pc |-> pc, op |-> call.op, ok |-> call.ok, start |-> call.start, block |-> call.block, index |-> call.index, sum |-> call.sum, first |-> call.first]
  BY DEF CallSet, SetPc
<1>2. call2 \in CallSet BY <1>1, CallTypes DEF CallSet
<1> QED BY <1>1, <1>2 DEF CallIs

\* its answer,
LEMMA CallPcOk ==
  ASSUME NEW call \in CallSet, NEW pc \in Pcs, NEW ok \in BOOLEAN, NEW call2,
         SetPcOk(call, call2, pc, ok)
  PROVE  CallIs(call2, pc, call.op, ok, call.start, call.block, call.index, call.sum, call.first)
<1>1. call2 = [pc |-> pc, op |-> call.op, ok |-> ok, start |-> call.start, block |-> call.block, index |-> call.index, sum |-> call.sum, first |-> call.first]
  BY DEF CallSet, SetPcOk
<1>2. call2 \in CallSet BY <1>1, CallTypes DEF CallSet
<1> QED BY <1>1, <1>2 DEF CallIs

\* its block,
LEMMA CallPcBlock ==
  ASSUME NEW call \in CallSet, NEW pc \in Pcs, NEW block \in Nat, NEW call2,
         SetPcBlock(call, call2, pc, block)
  PROVE  CallIs(call2, pc, call.op, call.ok, call.start, block, call.index, call.sum, call.first)
<1>1. call2 = [pc |-> pc, op |-> call.op, ok |-> call.ok, start |-> call.start, block |-> block, index |-> call.index, sum |-> call.sum, first |-> call.first]
  BY DEF CallSet, SetPcBlock
<1>2. call2 \in CallSet BY <1>1, CallTypes DEF CallSet
<1> QED BY <1>1, <1>2 DEF CallIs

\* its count,
LEMMA CallPcSum ==
  ASSUME NEW call \in CallSet, NEW pc \in Pcs, NEW sum \in Nat, NEW call2,
         SetPcSum(call, call2, pc, sum)
  PROVE  CallIs(call2, pc, call.op, call.ok, call.start, call.block, call.index, sum, call.first)
<1>1. call2 = [pc |-> pc, op |-> call.op, ok |-> call.ok, start |-> call.start, block |-> call.block, index |-> call.index, sum |-> sum, first |-> call.first]
  BY DEF CallSet, SetPcSum
<1>2. call2 \in CallSet BY <1>1, CallTypes DEF CallSet
<1> QED BY <1>1, <1>2 DEF CallIs

\* block and index,
LEMMA CallPcPlace ==
  ASSUME NEW call \in CallSet, NEW pc \in Pcs, NEW block \in Nat, NEW index \in Nat, NEW call2,
         SetPcPlace(call, call2, pc, block, index)
  PROVE  CallIs(call2, pc, call.op, call.ok, call.start, block, index, call.sum, call.first)
<1>1. call2 = [pc |-> pc, op |-> call.op, ok |-> call.ok, start |-> call.start, block |-> block, index |-> index, sum |-> call.sum, first |-> call.first]
  BY DEF CallSet, SetPcPlace
<1>2. call2 \in CallSet BY <1>1, CallTypes DEF CallSet
<1> QED BY <1>1, <1>2 DEF CallIs

\* block and first block of the walk,
LEMMA CallPcWalk ==
  ASSUME NEW call \in CallSet, NEW pc \in Pcs, NEW block \in Nat, NEW first \in Nat, NEW call2,
         SetPcWalk(call, call2, pc, block, first)
  PROVE  CallIs(call2, pc, call.op, call.ok, call.start, block, call.index, call.sum, first)
<1>1. call2 = [pc |-> pc, op |-> call.op, ok |-> call.ok, start |-> call.start, block |-> block, index |-> call.index, sum |-> call.sum, first |-> first]
  BY DEF CallSet, SetPcWalk
<1>2. call2 \in CallSet BY <1>1, CallTypes DEF CallSet
<1> QED BY <1>1, <1>2 DEF CallIs

\* the answer of an enqueue,
LEMMA CallPcDone ==
  ASSUME NEW call \in CallSet, NEW pc \in Pcs, NEW ok \in BOOLEAN, NEW block \in Nat,
         NEW index \in Nat, NEW call2, SetPcDone(call, call2, pc, ok, block, index)
  PROVE  CallIs(call2, pc, call.op, ok, call.start, block, index, call.sum, call.first)
<1>1. call2 = [pc |-> pc, op |-> call.op, ok |-> ok, start |-> call.start, block |-> block, index |-> index, sum |-> call.sum, first |-> call.first]
  BY DEF CallSet, SetPcDone
<1>2. call2 \in CallSet BY <1>1, CallTypes DEF CallSet
<1> QED BY <1>1, <1>2 DEF CallIs

\* the answer of a walk,
LEMMA CallPcEnd ==
  ASSUME NEW call \in CallSet, NEW pc \in Pcs, NEW ok \in BOOLEAN, NEW block \in Nat,
         NEW first \in Nat, NEW call2, SetPcEnd(call, call2, pc, ok, block, first)
  PROVE  CallIs(call2, pc, call.op, ok, call.start, block, call.index, call.sum, first)
<1>1. call2 = [pc |-> pc, op |-> call.op, ok |-> ok, start |-> call.start, block |-> block, index |-> call.index, sum |-> call.sum, first |-> first]
  BY DEF CallSet, SetPcEnd
<1>2. call2 \in CallSet BY <1>1, CallTypes DEF CallSet
<1> QED BY <1>1, <1>2 DEF CallIs

\* its beginning,
LEMMA CallPcCall ==
  ASSUME NEW call \in CallSet, NEW op \in Ops, NEW pc \in Pcs, NEW start \in Nat, NEW call2,
         SetPcCall(call, call2, op, pc, start)
  PROVE  CallIs(call2, pc, op, call.ok, start, call.block, call.index, call.sum, call.first)
<1>1. call2 = [pc |-> pc, op |-> op, ok |-> call.ok, start |-> start, block |-> call.block, index |-> call.index, sum |-> call.sum, first |-> call.first]
  BY DEF CallSet, SetPcCall
<1>2. call2 \in CallSet BY <1>1, CallTypes DEF CallSet
<1> QED BY <1>1, <1>2 DEF CallIs

\* and what it returns.
LEMMA CallOkSum ==
  ASSUME NEW call \in CallSet, NEW ok \in BOOLEAN, NEW sum \in Nat, NEW call2,
         SetOkSum(call, call2, ok, sum)
  PROVE  CallIs(call2, call.pc, call.op, ok, call.start, call.block, call.index, sum, call.first)
<1>1. call2 = [pc |-> call.pc, op |-> call.op, ok |-> ok, start |-> call.start, block |-> call.block, index |-> call.index, sum |-> sum, first |-> call.first]
  BY DEF CallSet, SetOkSum
<1>2. call2 \in CallSet BY <1>1, CallTypes DEF CallSet
<1> QED BY <1>1, <1>2 DEF CallIs

\* The producer goes on into the free block ahead.
LEMMA AheadStep ==
  ASSUME NEW h, NEW m, NEW bp, NEW bc, NEW F, NEW s, NEW mask, Whole(h, m, bp, bc, F, s, mask),
         FullTail(h), FreeAhead(h),
         NEW b, b = h.block[h.tail + 1], NEW tl, tl = View(bp, m)[<<"tail", b>>],
         NEW F2 \in [Blocks -> Nat], CopiedAs(F, F2, b, m[<<"front", b>>]),
         NEW issued,
         issued = <<Store(<<"data", b, tl>>, h.sent + 1), Store(<<"tail", b>>, (tl + 1) % (mask[b] + 1)), Fence, Store(<<"tailBlock">>, b)>>,
         Issue(bp, issued) \in Seq(StoreSet)
  PROVE  \E h2 : Whole(h2, m, Issue(bp, issued), bc, F2, s, mask) /\ Sent(h, h2) /\ ConsumerKept(h, h2)
<1>1. World(h, m, View(bp, m), View(bc, m), F, s, mask) /\ Holds(bp, h.S) /\ bp \in Seq(StoreSet) /\ bc \in Seq(StoreSet) /\ Holds(bc, h.R)
  BY DEF Whole
<1>2. Shape(h) /\ Sizing(h, s, mask) /\ FreeViews(h, m, View(bp, m), View(bc, m), F)
  BY <1>1 DEF World, Views
<1>3. h.tail + 1 \in (h.tail + 1)..LastVisit(h) /\ h.tail + 1 \in 1..LastVisit(h)
  <2>1. h.tail \in Nat BY <1>2, ShapeFacts
  <2>2. LastVisit(h) \in Nat BY <1>2, ShapeFacts
  <2> QED BY <2>1, <2>2 DEF FreeAhead
<1>4. tl = m[<<"tail", b>>] /\ m[<<"front", b>>] = tl BY <1>2, <1>3 DEF FreeViews
<1>5. mask[b] + 1 = h.room[h.tail + 1] BY <1>2, <1>3 DEF Sizing
<1>6. AheadIssued(h, m, tl, issued) BY <1>4, <1>5 DEF AheadIssued
<1>7. CopiedAs(F, F2, h.block[h.tail + 1], tl) BY <1>4
<1>8. PICK h2 : /\ World(h2, m, View(Issue(bp, issued), m), View(bc, m), F2, s, mask) /\ Holds(Issue(bp, issued), h2.S)
                /\ EnqueueStep(h, h2, {1, 3, 6, 7}) /\ SameCircle(h, h2)
  BY <1>1, <1>6, <1>7, AheadEnqueue, ZenonT(60)
<1>9. h2.R = h.R BY <1>8 DEF EnqueueStep, Enqueued
<1>10. Whole(h2, m, Issue(bp, issued), bc, F2, s, mask) BY <1>1, <1>8, <1>9 DEF Whole
<1>11. Sent(h, h2) /\ ConsumerKept(h, h2) BY <1>8, EnqueueSent
<1> QED BY <1>10, <1>11

\* The producer adds a block.
LEMMA GrownStep ==
  ASSUME NEW h, NEW m, NEW bp, NEW bc, NEW F, NEW s, NEW mask, Whole(h, m, bp, bc, F, s, mask),
         FullTail(h), NoneAhead(h), h.n < MaxBlocks,
         NEW r, r = NewBlockSize(Max(Range(mask)) + 1), NEW issued, GrownIssued(h, issued),
         Issue(bp, issued) \in Seq(StoreSet)
  PROVE  \E h2 : Whole(h2, m, Issue(bp, issued), bc, F, s, Append(mask, r - 1)) /\ Sent(h, h2) /\ ConsumerKept(h, h2)
<1>1. World(h, m, View(bp, m), View(bc, m), F, s, mask) /\ Holds(bp, h.S) /\ bp \in Seq(StoreSet) /\ bc \in Seq(StoreSet) /\ Holds(bc, h.R)
  BY DEF Whole
<1>2. Shape(h) /\ Sizing(h, s, mask) BY <1>1 DEF World
<1>3. PICK mask2 : mask2 = Append(mask, r - 1) OBVIOUS
<1>4. Added(h, mask, r, mask2) BY <1>2, <1>3, NewRoom
<1>5. PICK h2 : /\ World(h2, m, View(Issue(bp, issued), m), View(bc, m), F, s, mask2) /\ Holds(Issue(bp, issued), h2.S)
                /\ EnqueueStep(h, h2, 1..7) /\ GrownVisit(h, h2)
  BY <1>1, <1>4, GrownEnqueue
<1>6. h2.R = h.R BY <1>5 DEF EnqueueStep, Enqueued
<1>7. Whole(h2, m, Issue(bp, issued), bc, F, s, mask2)
  <2>1. m \in [Locations -> Nat] /\ F \in [Blocks -> Nat] BY DEF Whole
  <2> QED BY <1>1, <1>5, <1>6, <2>1 DEF Whole
<1>8. Sent(h, h2) /\ ConsumerKept(h, h2) BY <1>5, EnqueueSent
<1> QED BY <1>3, <1>7, <1>8

\* The calls of the producer.
LEMMA DoneCall ==
  ASSUME NEW h, NEW call \in CallSet, NEW s, NEW h2, NEW ok \in BOOLEAN, ProducerCall(h, call, s),
         h2.rel = h.rel, ok \/ h2.sent - call.start >= s,
         NEW call2, SetPcDone(call, call2, "done", ok, 0, 0)
  PROVE  call2 \in CallSet /\ ProducerCall(h2, call2, s)
<1>0. "done" \in Pcs BY DEF Pcs
<1>1. CallIs(call2, "done", call.op, ok, call.start, 0, 0, call.sum, call.first) BY <1>0, CallPcDone
<1>2. call2.pc = "done" /\ call2.ok = ok /\ call2.start = call.start /\ call2 \in CallSet
  BY <1>1 DEF CallIs
<1>3. call.start <= h.rel BY DEF ProducerCall
<1> QED BY <1>2, <1>3 DEF ProducerCall

\* An enqueue that found no room may rely on a full tail block, and with one block on
\* the front being all that was released when it looked: a refusal is an honest one.
LEMMA FullCall ==
  ASSUME NEW h, NEW call \in CallSet, NEW s, NEW h2, ProducerCall(h, call, s), call.pc = "enqueue",
         h.rel \in Nat, Kept(h, h2), FullTail(h2), h2.n = 1 => h2.lf = h.rel + 1,
         NEW call2, SetPc(call, call2, "full")
  PROVE  call2 \in CallSet /\ ProducerCall(h2, call2, s)
<1>0. "full" \in Pcs BY DEF Pcs
<1>1. CallIs(call2, "full", call.op, call.ok, call.start, call.block, call.index, call.sum, call.first)
  BY <1>0, CallPc
<1>2. call2.pc = "full" /\ call2.start = call.start /\ call.start \in Nat /\ call2 \in CallSet
  BY <1>1, CallTypes DEF CallIs
<1>3. call.start <= h.rel /\ h.sent < MaxItems BY DEF ProducerCall
<1>4. h2.n = 1 => call2.start < h2.lf BY <1>2, <1>3
<1>5. h2.sent = h.sent /\ h2.rel = h.rel BY DEF Kept
<1>6. h2.sent + 2 - h2.lf = h2.room[h2.tail] BY DEF FullTail
<1> QED BY <1>2, <1>3, <1>4, <1>5, <1>6 DEF ProducerCall

\* An enqueue that found the block ahead free may rely on it.
LEMMA AheadCall ==
  ASSUME NEW h, NEW call \in CallSet, NEW s, ProducerCall(h, call, s), call.pc = "full",
         FreeAhead(h), NEW b \in Nat, b = h.block[h.tail + 1],
         NEW call2, SetPcBlock(call, call2, "ahead", b)
  PROVE  call2 \in CallSet /\ ProducerCall(h, call2, s)
<1>0. "ahead" \in Pcs BY DEF Pcs
<1>1. CallIs(call2, "ahead", call.op, call.ok, call.start, b, call.index, call.sum, call.first)
  BY <1>0, CallPcBlock
<1>2. call2.pc = "ahead" /\ call2.start = call.start /\ call2.block = b /\ call2 \in CallSet
  BY <1>1 DEF CallIs
<1>3. call.start <= h.rel /\ h.sent < MaxItems /\ h.sent + 2 - h.lf = h.room[h.tail] /\ (h.n = 1 => call.start < h.lf)
  BY DEF ProducerCall
<1> QED BY <1>2, <1>3 DEF ProducerCall, FreeAhead

-----------------------------------------------------------------------------
(* The consumer looks at the front block.                                  *)

\* The calls of the consumer and of the producer that a step of the consumer leaves alone.
ProducerKept(h, h2) == \A call, s : ProducerCall(h, call, s) => ProducerCall(h2, call, s)

\* What the consumer finds in its front block.
FrontFound(m, C, fresh, b, fr, tl) ==
  /\ b = C[<<"frontBlock">>] /\ fr = C[<<"front", b>>]
  /\ tl = IF fresh \/ fr = m[<<"localTail", b>>] THEN C[<<"tail", b>>] ELSE m[<<"localTail", b>>]
\* What it makes of that: lt is the tail it goes by.
FrontMeans(h, b, fr, tl, lt) ==
  /\ b = h.block[h.front] /\ fr = IndexOf(h, h.front, h.got + 1) /\ tl = IndexOf(h, h.front, lt)
  /\ lt \in Nat /\ h.got + 1 <= lt /\ lt <= MemTail(h, h.front)
  /\ fr # tl => h.got + 1 < lt
  /\ fr = tl => MemTail(h, h.front) = h.got + 1

\* The front block is one the producer has visited, and the next element to take is its
\* front.
LEMMA FrontVisit ==
  ASSUME NEW h, Shape(h)
  PROVE  /\ h.front \in h.freed..h.tail /\ h.front \in 1..h.tail /\ h.front \in 1..LastVisit(h) /\ h.front \in h.freed..LastVisit(h)
         /\ Ordered(h, h.front) /\ OwnFront(h, h.front) = h.got + 1
<1>1. /\ h.freed \in Nat /\ h.front \in Nat /\ h.shown \in Nat /\ h.tail \in Nat /\ LastVisit(h) \in Nat
      /\ 1 <= h.freed /\ h.freed <= h.front /\ h.front <= h.shown /\ h.shown <= h.tail /\ h.tail <= LastVisit(h)
        BY ShapeFacts
<1>2. h.front \in h.freed..h.tail /\ h.front \in 1..h.tail /\ h.front \in 1..LastVisit(h) /\ h.front \in h.freed..LastVisit(h)
  BY <1>1
<1>3. OwnFront(h, h.front) = h.got + 1 BY <1>1 DEF OwnFront
<1> QED BY <1>2, <1>3, OrderedVisits

\* What the consumer computes from frontBlock, its front and its copy of the tail is
\* what the history says: equal to the tail only when nothing published is left in the
\* block.
LEMMA FrontLogic ==
  ASSUME NEW h, NEW m, NEW bp, NEW bc, NEW F, NEW s, NEW mask, Whole(h, m, bp, bc, F, s, mask),
         NEW fresh, NEW b, NEW fr, NEW tl,
         FrontFound(m, View(bc, m), fresh, b, fr, tl)
  PROVE  \E lt : FrontMeans(h, b, fr, tl, lt)
<1>1. Shape(h) /\ PendingFronts(h) /\ Fits(h) /\ Holds(bc, h.R) /\ bc \in Seq(StoreSet)
  BY WholeParts
<1>2. TailViews(h, m, View(bp, m)) /\ FrontViews(h, m, View(bc, m)) /\ ShadowViews(h, m, F)
  BY DEF Whole, World, Views
<1>3. /\ h.front \in h.freed..h.tail /\ h.front \in 1..LastVisit(h) /\ Ordered(h, h.front) /\ OwnFront(h, h.front) = h.got + 1
  BY <1>1, FrontVisit
<1>4. b = h.block[h.front] BY <1>2 DEF FrontFound, FrontViews
<1>5. fr = IndexOf(h, h.front, h.got + 1) BY <1>2, <1>3, <1>4 DEF FrontFound, FrontViews
<1>6. b \in Blocks BY <1>1, <1>3, <1>4, BlockFits
<1>7. View(bc, m)[<<"tail", b>>] = m[<<"tail", b>>]
  <2>1. <<"tail", b>> \in Locations BY <1>6, PlacesOf
  <2>2. <<"tail", b>>[1] \notin {"front", "frontBlock"} OBVIOUS
  <2>3. Load(bc, m, <<"tail", b>>) = m[<<"tail", b>>] BY <1>1, <2>1, <2>2, ConsumerLoads
  <2> QED BY <2>1, <2>3 DEF View
<1>8. m[<<"tail", b>>] = IndexOf(h, h.front, MemTail(h, h.front)) BY <1>2, <1>3, <1>4 DEF TailViews
<1>9. m[<<"localTail", b>>] = IndexOf(h, h.front, h.lt) BY <1>2, <1>4 DEF ShadowViews
<1>10. h.lt \in Nat /\ h.got + 1 <= h.lt /\ h.lt <= MemTail(h, h.front) BY <1>1 DEF Shape, Positions
<1>11. MemTail(h, h.front) \in Nat /\ h.got + 1 <= MemTail(h, h.front) BY <1>3 DEF Ordered
<1>12. ASSUME NEW lt \in Nat, h.got + 1 <= lt, lt <= MemTail(h, h.front),
              IndexOf(h, h.front, h.got + 1) = IndexOf(h, h.front, lt)
       PROVE  lt = h.got + 1
  <2>1. h.got \in Nat BY <1>1, ShapeFacts
  <2>2. PICK g \in Int : g = h.got + 1 BY <2>1
  <2>3. /\ MemFront(h, h.front) \in Nat /\ h.first[h.front + 1] \in Nat /\ MemFront(h, h.front) <= h.got + 1 /\ MemTail(h, h.front) <= h.first[h.front + 1]
    BY <1>3 DEF Ordered
  <2>4. MemFront(h, h.front) <= g /\ g <= h.first[h.front + 1] /\ MemFront(h, h.front) <= lt /\ lt <= h.first[h.front + 1]
    BY <1>11, <1>12, <2>1, <2>2, <2>3
  <2>5. IndexOf(h, h.front, g) = IndexOf(h, h.front, lt) /\ lt \in Int BY <1>12, <2>2
  <2>6. g = lt BY <1>1, <1>3, <2>2, <2>4, <2>5, IndexInj
  <2> QED BY <2>2, <2>6
<1>13. h.got \in Nat BY <1>1, ShapeFacts
<1>14. CASE fresh \/ fr = m[<<"localTail", b>>]
  <2>1. PICK lt : lt = MemTail(h, h.front) OBVIOUS
  <2>2. tl = IndexOf(h, h.front, lt) BY <1>7, <1>8, <1>14, <2>1 DEF FrontFound
  <2>3. lt \in Nat /\ h.got + 1 <= lt /\ lt <= MemTail(h, h.front) BY <1>11, <2>1
  <2>4. fr # tl => h.got + 1 < lt BY <1>5, <1>13, <2>2, <2>3
  <2>5. fr = tl => lt = h.got + 1 BY <1>5, <1>12, <2>2, <2>3
  <2>6. FrontMeans(h, b, fr, tl, lt) BY <1>4, <1>5, <2>1, <2>2, <2>3, <2>4, <2>5 DEF FrontMeans
  <2> QED BY <2>6
<1>15. CASE ~ (fresh \/ fr = m[<<"localTail", b>>])
  <2>1. tl = IndexOf(h, h.front, h.lt) /\ fr # tl BY <1>9, <1>15 DEF FrontFound
  <2>2. h.got + 1 < h.lt BY <1>5, <1>10, <1>13, <2>1
  <2>3. FrontMeans(h, b, fr, tl, h.lt) BY <1>4, <1>5, <1>10, <2>1, <2>2 DEF FrontMeans
  <2> QED BY <2>3
<1> QED BY <1>14, <1>15

\* The copy of the tail is refreshed.
LEMMA FrontShadow ==
  ASSUME NEW h, NEW m, NEW bp, NEW bc, NEW F, NEW s, NEW mask, Whole(h, m, bp, bc, F, s, mask),
         NEW b, NEW fr, NEW tl, NEW lt, FrontMeans(h, b, fr, tl, lt),
         NEW m2, m2 = [m EXCEPT ![<<"localTail", b>>] = tl]
  PROVE  \E h2 : Whole(h2, m2, bp, bc, F, s, mask) /\ ShadowTo(h, h2, h.lf, lt)
<1>1. Shape(h) /\ Fits(h) /\ m \in [Locations -> Nat] /\ F \in [Blocks -> Nat] BY WholeParts
<1>2. ShadowViews(h, m, F) BY DEF Whole, World, Views
<1>3. h.front \in 1..LastVisit(h) /\ h.front \in h.freed..h.tail BY <1>1, FrontVisit
<1>4. b = h.block[h.front] /\ tl = IndexOf(h, h.front, lt) /\ lt \in Nat /\ h.got + 1 <= lt /\ lt <= MemTail(h, h.front)
  BY DEF FrontMeans
<1>5. b \in Blocks BY <1>1, <1>3, <1>4, BlockFits
<1>6. <<"localTail", b>> \in Locations BY <1>5, PlacesOf
<1>7. tl \in Nat
  <2>1. tl \in 0..(h.room[h.front] - 1)
    <3>1. lt \in Int BY <1>4
    <3> QED BY <1>1, <1>3, <1>4, <3>1, IndexNext
  <2>2. h.room[h.front] \in Nat BY <1>1, <1>3 DEF Shape, Circular
  <2> QED BY <2>1, <2>2
<1>8. m2 \in [Locations -> Nat] /\ m2[<<"localTail", b>>] = tl BY <1>1, <1>6, <1>7
<1>9. SameExceptShadow(m, m2)
  <2>1. ASSUME NEW l \in Locations, l[1] # "localTail" PROVE m2[l] = m[l]
    <3>1. l # <<"localTail", b>> BY <2>1
    <3> QED BY <1>1, <3>1
  <2> QED BY <2>1 DEF SameExceptShadow
<1>10. PICK h2 : ShadowTo(h, h2, h.lf, lt) BY ShadowExists
<1>11. ShadowFits(h, h.lf, lt)
  <2>1. h.lf \in Nat /\ h.first[h.tail] <= h.lf /\ h.lf <= MemFront(h, h.tail) /\ h.sent + 1 - h.lf < h.room[h.tail]
    BY <1>1 DEF Shape, Positions
  <2> QED BY <1>4, <2>1 DEF ShadowFits
<1>12. CopiedAs(F, F, h.block[h.tail], IndexOf(h, h.tail, h.lf)) BY <1>2 DEF CopiedAs, ShadowViews
<1>13. m2[<<"localTail", h.block[h.front]>>] = IndexOf(h, h.front, lt) BY <1>4, <1>8
<1>14. Whole(h2, m2, bp, bc, F, s, mask)
  BY <1>1, <1>8, <1>9, <1>10, <1>11, <1>12, <1>13, ShadowWhole
<1> QED BY <1>10, <1>14

\* The front block holds the next element.
LEMMA ElementFound ==
  ASSUME NEW h, Shape(h), NEW call \in CallSet, call.op \in {"try_dequeue", "peek"},
         call.start <= h.pub, h.got + 1 < h.lt,
         NEW b, b = h.block[h.front], NEW i \in Nat, i = IndexOf(h, h.front, h.got + 1), NEW call2,
         SetPcPlace(call, call2, "element", b, i)
  PROVE  call2 \in CallSet /\ ConsumerCall(h, call2)
<1>1. h.front \in h.freed..h.tail /\ h.front \in 1..h.tail /\ h.front \in 1..LastVisit(h) /\ Ordered(h, h.front) /\ OwnFront(h, h.front) = h.got + 1
  BY FrontVisit
<1>2. h.got \in Nat /\ h.pub \in Nat /\ h.sent \in Nat /\ h.pub <= h.sent /\ h.front <= h.shown /\ h.n \in Nat
  BY ShapeFacts
<1>3. h.lt \in Nat /\ h.lt <= MemTail(h, h.front) BY DEF Shape, Positions
<1>4. MemTail(h, h.front) \in Nat /\ MemTail(h, h.front) <= h.pub + 1 /\ MemTail(h, h.front) <= h.first[h.front + 1] /\ h.first[h.front + 1] \in Nat
  BY <1>1, <1>2 DEF Ordered
<1>5. h.got + 1 < h.first[h.front + 1] /\ h.got < h.pub /\ h.got + 1 \in 1..h.sent
  BY <1>2, <1>3, <1>4
<1>6. h.first[h.front] <= h.got + 1 BY DEF Shape, Positions
<1>7. h.visit[h.got + 1] = h.front
  <2>1. PICK e \in 1..h.sent : e = h.got + 1 BY <1>5
  <2>2. h.first[h.front] <= e /\ e < h.first[h.front + 1] BY <1>5, <1>6, <2>1
  <2>3. h.visit[e] = h.front BY <1>1, <2>2, VisitIs
  <2> QED BY <2>1, <2>3
<1>8. b \in Nat
  <2>1. b \in 1..h.n BY <1>1, BlockType
  <2> QED BY <1>2, <2>1
<1>9. CallIs(call2, "element", call.op, call.ok, call.start, b, i, call.sum, call.first)
  <2>1. "element" \in Pcs BY DEF Pcs
  <2> QED BY <1>8, <2>1, CallPcPlace
<1>10. call2 \in CallSet /\ call2.pc = "element" /\ call2.op = call.op /\ call2.start = call.start /\ call2.block = b /\ call2.index = i
  BY <1>9 DEF CallIs
<1>11. call2.block = h.block[h.visit[h.got + 1]] /\ call2.index = IndexOf(h, h.visit[h.got + 1], h.got + 1)
  BY <1>7, <1>10
<1>12. ConsumerCall(h, call2) BY <1>5, <1>7, <1>10, <1>11 DEF ConsumerCall
<1> QED BY <1>10, <1>12

\* The front block is empty.
LEMMA FrontEmpty ==
  ASSUME NEW h, Shape(h), MemTail(h, h.front) = h.got + 1, NEW start \in Nat, start <= h.pub
  PROVE  /\ h.front < h.shown \/ start <= h.got
         /\ h.front < h.shown => h.got + 1 = h.first[h.front + 1]
<1>1. h.got \in Nat /\ h.pub \in Nat /\ h.front <= h.shown /\ h.front \in Nat /\ h.shown \in Nat
  BY ShapeFacts
<1>2. CASE h.front < h.shown
  <2>1. MemTail(h, h.front) = h.first[h.front + 1] BY <1>2 DEF MemTail
  <2> QED BY <1>2, <2>1
<1>3. CASE h.front = h.shown
  <2>1. MemTail(h, h.front) = h.pub + 1 BY <1>3, <1>1 DEF MemTail
  <2>2. h.pub = h.got BY <1>1, <2>1
  <2> QED BY <1>1, <1>3, <2>2
<1> QED BY <1>1, <1>2, <1>3

\* After it found the front block empty the consumer knows that the producer went on to
\* another block or that all it was asked for was taken,
LEMMA TailBlockCall ==
  ASSUME NEW h, NEW call \in CallSet, call.op \in {"try_dequeue", "peek"}, call.start <= h.pub,
         h.front < h.shown \/ call.start <= h.got,
         NEW call2, SetPc(call, call2, "tailBlock")
  PROVE  call2 \in CallSet /\ ConsumerCall(h, call2)
<1>1. "tailBlock" \in Pcs BY DEF Pcs
<1>2. CallIs(call2, "tailBlock", call.op, call.ok, call.start, call.block, call.index, call.sum, call.first)
  BY <1>1, CallPc
<1>3. call2 \in CallSet /\ call2.pc = "tailBlock" /\ call2.op = call.op /\ call2.start = call.start
  BY <1>2 DEF CallIs
<1>4. ConsumerCall(h, call2) BY <1>3 DEF ConsumerCall
<1> QED BY <1>3, <1>4

\* after it read a tailBlock that is not frontBlock, that the producer went on,
LEMMA AgainCall ==
  ASSUME NEW h, NEW call \in CallSet, call.op \in {"try_dequeue", "peek"}, call.start <= h.pub,
         h.front < h.shown,
         NEW call2, SetPc(call, call2, "again")
  PROVE  call2 \in CallSet /\ ConsumerCall(h, call2)
<1>1. "again" \in Pcs BY DEF Pcs
<1>2. CallIs(call2, "again", call.op, call.ok, call.start, call.block, call.index, call.sum, call.first)
  BY <1>1, CallPc
<1>3. call2 \in CallSet /\ call2.pc = "again" /\ call2.op = call.op /\ call2.start = call.start
  BY <1>2 DEF CallIs
<1>4. ConsumerCall(h, call2) BY <1>3 DEF ConsumerCall
<1> QED BY <1>3, <1>4

\* and after a second look, that the front block holds nothing more.
LEMMA NextCall ==
  ASSUME NEW h, NEW call \in CallSet, call.op \in {"try_dequeue", "peek"}, call.start <= h.pub,
         h.front < h.shown, h.got + 1 = h.first[h.front + 1],
         NEW call2, SetPc(call, call2, "next")
  PROVE  call2 \in CallSet /\ ConsumerCall(h, call2)
<1>1. "next" \in Pcs BY DEF Pcs
<1>2. CallIs(call2, "next", call.op, call.ok, call.start, call.block, call.index, call.sum, call.first)
  BY <1>1, CallPc
<1>3. call2 \in CallSet /\ call2.pc = "next" /\ call2.op = call.op /\ call2.start = call.start
  BY <1>2 DEF CallIs
<1>4. ConsumerCall(h, call2) BY <1>3 DEF ConsumerCall
<1> QED BY <1>3, <1>4

\* One look at the front block.
Looked(call, call2, b, fr, tl, elsePc) ==
  \/ fr # tl /\ SetPcPlace(call, call2, "element", b, fr)
  \/ fr = tl /\ SetPc(call, call2, elsePc)

\* One look at the front block, which refreshes the copy of the tail.
LEMMA FrontStep ==
  ASSUME NEW h, NEW m, NEW bp, NEW bc, NEW F, NEW s, NEW mask, Whole(h, m, bp, bc, F, s, mask),
         NEW fresh, NEW b, NEW fr, NEW tl,
         FrontFound(m, View(bc, m), fresh, b, fr, tl), NEW m2,
         m2 = [m EXCEPT ![<<"localTail", b>>] = tl],
         NEW call \in CallSet, ConsumerCall(h, call), NEW call2, NEW elsePc,
         Looked(call, call2, b, fr, tl, elsePc),
         (call.pc = "dequeue" /\ elsePc = "tailBlock") \/ (call.pc = "again" /\ elsePc = "next")
  PROVE  \E h2 : Whole(h2, m2, bp, bc, F, s, mask) /\ Kept(h, h2) /\ ProducerKept(h, h2) /\ call2 \in CallSet /\ ConsumerCall(h2, call2)
<1>1. PICK lt : FrontMeans(h, b, fr, tl, lt) BY FrontLogic
<1>2. PICK h2 : Whole(h2, m2, bp, bc, F, s, mask) /\ ShadowTo(h, h2, h.lf, lt) BY <1>1, FrontShadow
<1>3. Kept(h, h2) /\ ProducerKept(h, h2) BY <1>2, ShadowKept DEF ProducerKept
<1>4. Shape(h2) /\ Shape(h) BY <1>2, WholeParts
<1>5. SameButShadow(h, h2) /\ h2.lt = lt BY <1>2 DEF ShadowTo
<1>6. call.op \in {"try_dequeue", "peek"} /\ call.start <= h.pub /\ (call.pc = "again" => h.front < h.shown)
  BY DEF ConsumerCall
<1>7. call.start <= h2.pub /\ h2.front = h.front /\ h2.shown = h.shown /\ h2.got = h.got /\ h2.block = h.block /\ h2.first = h.first
  BY <1>5, <1>6 DEF SameButShadow
<1>8. IndexOf(h2, h.front, h.got + 1) = IndexOf(h, h.front, h.got + 1) /\ MemTail(h2, h.front) = MemTail(h, h.front)
  BY <1>5, ShadowSame
<1>9. b = h.block[h.front] /\ fr = IndexOf(h, h.front, h.got + 1) /\ (fr # tl => h.got + 1 < lt) /\ (fr = tl => MemTail(h, h.front) = h.got + 1)
  BY <1>1 DEF FrontMeans
<1>10. CASE fr # tl /\ SetPcPlace(call, call2, "element", b, fr)
  <2>1. fr \in Nat
    <3>1. h.got \in Nat /\ h.front \in h.freed..h.tail BY <1>4, ShapeFacts, FrontVisit
    <3>2. PICK g \in Int : g = h.got + 1 BY <3>1
    <3>3. IndexOf(h, h.front, g) \in 0..(h.room[h.front] - 1) BY <1>4, <3>1, IndexNext
    <3>4. h.room[h.front] \in Nat
      <4>1. Ordered(h, h.front) BY <1>4, FrontVisit
      <4> QED BY <4>1 DEF Ordered
    <3> QED BY <1>9, <3>2, <3>3, <3>4
  <2>2. h2.got + 1 < h2.lt BY <1>5, <1>7, <1>9, <1>10
  <2>3. b = h2.block[h2.front] /\ fr = IndexOf(h2, h2.front, h2.got + 1) BY <1>7, <1>8, <1>9
  <2>4. call2 \in CallSet /\ ConsumerCall(h2, call2)
    BY <1>4, <1>6, <1>7, <1>10, <2>1, <2>2, <2>3, ElementFound
  <2> QED BY <1>2, <1>3, <2>4
<1>11. CASE fr = tl /\ SetPc(call, call2, elsePc)
  <2>1. MemTail(h2, h2.front) = h2.got + 1 BY <1>7, <1>8, <1>9, <1>11
  <2>2. call.start \in Nat BY CallFields
  <2>3. /\ h2.front < h2.shown \/ call.start <= h2.got
        /\ h2.front < h2.shown => h2.got + 1 = h2.first[h2.front + 1]
    BY <1>4, <1>7, <2>1, <2>2, FrontEmpty
  <2>4. CASE call.pc = "dequeue" /\ elsePc = "tailBlock"
    <3>1. call2 \in CallSet /\ ConsumerCall(h2, call2)
      BY <1>6, <1>7, <1>11, <2>3, <2>4, TailBlockCall
    <3> QED BY <1>2, <1>3, <3>1
  <2>5. CASE call.pc = "again" /\ elsePc = "next"
    <3>1. h2.front < h2.shown BY <1>6, <1>7, <2>5
    <3>2. call2 \in CallSet /\ ConsumerCall(h2, call2)
      BY <1>6, <1>7, <1>11, <2>3, <2>5, <3>1, NextCall
    <3> QED BY <1>2, <1>3, <3>2
  <2> QED BY <2>4, <2>5
<1> QED BY <1>10, <1>11 DEF Looked

-----------------------------------------------------------------------------
(* The consumer goes on to the next block.                                 *)

\* What the consumer reads of the producer's fields is what is in memory.
SeesMemory(m, C) ==
  /\ C[<<"tailBlock">>] = m[<<"tailBlock">>]
  /\ \A b \in Blocks : C[<<"tail", b>>] = m[<<"tail", b>>] /\ C[<<"next", b>>] = m[<<"next", b>>]
  /\ \A b \in Blocks, i \in Slots : C[<<"data", b, i>>] = m[<<"data", b, i>>]

\* The consumer sees the memory but for its own fronts.
LEMMA ConsumerSees ==
  ASSUME NEW h, NEW m, NEW bp, NEW bc, NEW F, NEW s, NEW mask, Whole(h, m, bp, bc, F, s, mask)
  PROVE  SeesMemory(m, View(bc, m))
<1>1. PendingFronts(h) /\ Holds(bc, h.R) /\ bc \in Seq(StoreSet) BY WholeParts
<1>2. ASSUME NEW l \in Locations, l[1] \notin {"front", "frontBlock"} PROVE View(bc, m)[l] = m[l]
  <2>1. Load(bc, m, l) = m[l] BY <1>1, <1>2, ConsumerLoads
  <2> QED BY <2>1 DEF View
<1>3. View(bc, m)[<<"tailBlock">>] = m[<<"tailBlock">>]
  <2>1. <<"tailBlock">> \in Locations /\ <<"tailBlock">>[1] \notin {"front", "frontBlock"}
    BY PlacesOf
  <2> QED BY <1>2, <2>1
<1>4. ASSUME NEW b \in Blocks PROVE View(bc, m)[<<"tail", b>>] = m[<<"tail", b>>] /\ View(bc, m)[<<"next", b>>] = m[<<"next", b>>]
  <2>1. <<"tail", b>> \in Locations /\ <<"tail", b>>[1] \notin {"front", "frontBlock"} BY PlacesOf
  <2>2. <<"next", b>> \in Locations /\ <<"next", b>>[1] \notin {"front", "frontBlock"} BY PlacesOf
  <2>3. View(bc, m)[<<"tail", b>>] = m[<<"tail", b>>] BY <1>2, <2>1
  <2>4. View(bc, m)[<<"next", b>>] = m[<<"next", b>>] BY <1>2, <2>2
  <2> QED BY <2>3, <2>4
<1>5. ASSUME NEW b \in Blocks, NEW i \in Slots PROVE View(bc, m)[<<"data", b, i>>] = m[<<"data", b, i>>]
  <2>1. <<"data", b, i>> \in Locations /\ <<"data", b, i>>[1] \notin {"front", "frontBlock"}
    BY PlacesOf
  <2> QED BY <1>2, <2>1
<1> QED BY <1>3, <1>4, <1>5 DEF SeesMemory

\* The read of tailBlock.
LEMMA TailBlockStep ==
  ASSUME NEW h, NEW m, NEW bp, NEW bc, NEW F, NEW s, NEW mask, Whole(h, m, bp, bc, F, s, mask),
         NEW call \in CallSet, ConsumerCall(h, call),
         call.pc = "tailBlock", NEW call2,
         IF View(bc, m)[<<"frontBlock">>] # View(bc, m)[<<"tailBlock">>] THEN SetPc(call, call2, "again") ELSE SetPcOk(call, call2, "done", FALSE)
  PROVE  call2 \in CallSet /\ ConsumerCall(h, call2)
<1>1. Shape(h) BY WholeParts
<1>2. View(bc, m)[<<"frontBlock">>] = h.block[h.front] BY DEF Whole, World, Views, FrontViews
<1>3. m[<<"tailBlock">>] = h.block[h.shown] BY DEF Whole, World, Views, TailViews
<1>4. View(bc, m)[<<"tailBlock">>] = h.block[h.shown] BY <1>3, ConsumerSees DEF SeesMemory
<1>5. /\ h.freed \in Nat /\ h.front \in Nat /\ h.shown \in Nat /\ h.tail \in Nat /\ LastVisit(h) \in Nat
      /\ h.freed <= h.front /\ h.front <= h.shown /\ h.shown <= h.tail /\ h.tail <= LastVisit(h)
        BY <1>1, ShapeFacts
<1>6. call.op \in {"try_dequeue", "peek"} /\ call.start <= h.pub /\ (h.front < h.shown \/ call.start <= h.got)
  BY DEF ConsumerCall
<1>7. CASE View(bc, m)[<<"frontBlock">>] # View(bc, m)[<<"tailBlock">>]
  <2>1. h.front # h.shown BY <1>2, <1>4, <1>7
  <2>2. h.front < h.shown BY <1>5, <2>1
  <2>3. SetPc(call, call2, "again") BY <1>7
  <2> QED BY <1>6, <2>2, <2>3, AgainCall
<1>8. CASE View(bc, m)[<<"frontBlock">>] = View(bc, m)[<<"tailBlock">>]
  <2>1. h.front \in h.freed..LastVisit(h) /\ h.shown \in h.freed..LastVisit(h) BY <1>5
  <2>2. h.block[h.front] = h.block[h.shown] BY <1>2, <1>4, <1>8
  <2>3. h.front = h.shown BY <1>1, <2>1, <2>2, BlockInj
  <2>4. call.start <= h.got BY <1>5, <1>6, <2>3
  <2>5. SetPcOk(call, call2, "done", FALSE) BY <1>8
  <2>6. "done" \in Pcs /\ FALSE \in BOOLEAN BY DEF Pcs
  <2>7. CallIs(call2, "done", call.op, FALSE, call.start, call.block, call.index, call.sum, call.first)
    BY <2>5, <2>6, CallPcOk
  <2>8. call2 \in CallSet /\ call2.pc = "done" /\ call2.op = call.op /\ call2.start = call.start /\ call2.ok = FALSE
    BY <2>7 DEF CallIs
  <2>9. ConsumerCall(h, call2) BY <1>6, <2>4, <2>8 DEF ConsumerCall
  <2> QED BY <2>8, <2>9
<1> QED BY <1>7, <1>8

\* The block after the front block is linked in memory before the consumer can know that
\* the producer went on.
LEMMA FrontNext ==
  ASSUME NEW h, NEW m, NEW P, Shape(h), Pend(h), NextViews(h, m, P), h.front < h.shown
  PROVE  /\ m[<<"next", h.block[h.front]>>] = h.block[h.front + 1]
         /\ h.front + 1 \in h.freed..h.tail /\ h.front + 1 \in 1..h.tail /\ h.front + 1 \in h.freed..LastVisit(h) /\ h.front + 1 \in 1..LastVisit(h)
<1>1. /\ h.freed \in Nat /\ h.front \in Nat /\ h.shown \in Nat /\ h.tail \in Nat /\ LastVisit(h) \in Nat /\ 1 <= h.freed
      /\ h.freed <= h.front /\ h.front <= h.shown /\ h.shown <= h.tail /\ h.tail <= LastVisit(h)
        BY ShapeFacts
<1>2. PICK w : w = h.front + 1 OBVIOUS
<1>3. w \in h.freed..h.tail /\ w \in 1..h.tail /\ w \in h.freed..LastVisit(h) /\ w \in 1..LastVisit(h) /\ w <= h.shown
  BY <1>1, <1>2
<1>4. h.front \in 1..h.tail /\ h.front <= h.shown /\ h.front \in h.freed..LastVisit(h) BY <1>1
<1>5. Tag(h.first[h.front], 4) \notin DOMAIN h.S BY <1>4, ShownVisit
<1>6. Tag(h.first[w], 5) \notin DOMAIN h.S BY <1>3, ShownVisit
<1>7. Link(h, h.front, m[<<"next", h.block[h.front]>>]) BY <1>4, <1>5 DEF NextViews
<1>8. m[<<"next", h.block[h.front]>>] = NextOf(h, h.front) BY <1>2, <1>6, <1>7 DEF Link
<1>9. h.front # LastVisit(h) BY <1>1
<1>10. NextOf(h, h.front) = h.block[h.front + 1] BY <1>9 DEF NextOf
<1> QED BY <1>2, <1>3, <1>8, <1>10

\* The read of next.
LEMMA NextStep ==
  ASSUME NEW h, NEW m, NEW bp, NEW bc, NEW F, NEW s, NEW mask, Whole(h, m, bp, bc, F, s, mask),
         NEW call \in CallSet, ConsumerCall(h, call),
         call.pc = "next", NEW call2, SetPcBlock(call, call2, "advance", View(bc, m)[<<"next", View(bc, m)[<<"frontBlock">>]>>])
  PROVE  call2 \in CallSet /\ ConsumerCall(h, call2)
<1>1. Shape(h) /\ Pend(h) /\ Fits(h) BY WholeParts
<1>2. View(bc, m)[<<"frontBlock">>] = h.block[h.front] BY DEF Whole, World, Views, FrontViews
<1>3. call.op \in {"try_dequeue", "peek"} /\ call.start <= h.pub /\ h.front < h.shown /\ h.got + 1 = h.first[h.front + 1]
  BY DEF ConsumerCall
<1>4. h.block[h.front] \in Blocks
  <2>1. h.front \in 1..LastVisit(h) BY <1>1, FrontVisit
  <2> QED BY <1>1, <2>1, BlockFits
<1>5. m[<<"next", h.block[h.front]>>] = h.block[h.front + 1] /\ h.front + 1 \in 1..LastVisit(h)
  <2>1. NextViews(h, m, View(bp, m)) BY DEF Whole, World, Views
  <2> QED BY <1>1, <1>3, <2>1, FrontNext
<1>6. View(bc, m)[<<"next", h.block[h.front]>>] = m[<<"next", h.block[h.front]>>]
  <2>1. SeesMemory(m, View(bc, m)) BY ConsumerSees
  <2> QED BY <1>4, <2>1 DEF SeesMemory
<1>7. PICK b : b = h.block[h.front + 1] OBVIOUS
<1>8. b \in Nat
  <2>1. b \in 1..h.n BY <1>1, <1>5, <1>7, BlockType
  <2>2. h.n \in Nat BY <1>1, ShapeFacts
  <2> QED BY <2>1, <2>2
<1>9. SetPcBlock(call, call2, "advance", b) BY <1>2, <1>5, <1>6, <1>7
<1>10. "advance" \in Pcs BY DEF Pcs
<1>11. CallIs(call2, "advance", call.op, call.ok, call.start, b, call.index, call.sum, call.first)
  BY <1>8, <1>9, <1>10, CallPcBlock
<1>12. call2 \in CallSet /\ call2.pc = "advance" /\ call2.op = call.op /\ call2.start = call.start /\ call2.block = h.block[h.front + 1]
  BY <1>7, <1>11 DEF CallIs
<1>13. ConsumerCall(h, call2) BY <1>3, <1>12 DEF ConsumerCall
<1> QED BY <1>12, <1>13

\* The block ahead of the consumer.
AheadFound(h, C, call, w) ==
  /\ w \in h.freed..h.tail /\ w \in 1..h.tail /\ w \in 1..LastVisit(h) /\ w <= h.shown /\ h.got + 1 = h.first[w] /\ h.got < h.pub /\ h.visit[h.got + 1] = w
  /\ call.block = h.block[w] /\ call.block \in Blocks /\ call.op \in {"try_dequeue", "peek"} /\ call.start <= h.pub
  /\ C[<<"front", call.block>>] = IndexOf(h, w, h.got + 1)
  /\ C[<<"tail", call.block>>] = IndexOf(h, w, MemTail(h, w))
  /\ MemTail(h, w) \in Nat /\ h.got + 1 < MemTail(h, w)

\* The block ahead of the consumer holds the next element, which is published.
LEMMA AdvanceFacts ==
  ASSUME NEW h, NEW m, NEW bp, NEW bc, NEW F, NEW s, NEW mask, Whole(h, m, bp, bc, F, s, mask),
         NEW call \in CallSet, ConsumerCall(h, call), call.pc = "advance",
         NEW w, w = h.front + 1
  PROVE  AheadFound(h, View(bc, m), call, w)
<1>1. Shape(h) /\ Pend(h) /\ Fits(h) BY WholeParts
<1>2. call.op \in {"try_dequeue", "peek"} /\ call.start <= h.pub /\ h.front < h.shown /\ h.got + 1 = h.first[h.front + 1] /\ call.block = h.block[h.front + 1]
  BY DEF ConsumerCall
<1>3. w \in h.freed..h.tail /\ w \in 1..h.tail /\ w \in 1..LastVisit(h)
  <2>1. NextViews(h, m, View(bp, m)) BY DEF Whole, World, Views
  <2> QED BY <1>1, <1>2, <2>1, FrontNext
<1>4. h.front \in Nat /\ h.shown \in Nat /\ h.tail \in Nat /\ h.freed \in Nat /\ h.freed >= 1 /\ h.shown <= h.tail /\ h.freed <= h.front
  BY <1>1, ShapeFacts
<1>5. h.got \in Nat /\ h.pub \in Nat /\ h.sent \in Nat /\ h.pub <= h.sent BY <1>1, ShapeFacts
<1>6. w <= h.shown /\ w > h.front /\ w >= 2 /\ h.shown \in 1..(h.tail + 1) /\ w \in 1..(h.tail + 1) /\ h.shown > 1
  BY <1>2, <1>3, <1>4
<1>7. h.first[w] <= h.first[h.shown] BY <1>1, <1>6, FirstMonotone
<1>8. h.first[h.shown] <= h.pub BY <1>1, <1>6 DEF Shape, Positions
<1>9. h.first[h.shown] \in Nat BY <1>1, <1>6, FirstType
<1>10. h.got + 1 = h.first[w] BY <1>2
<1>11. h.got < h.pub /\ h.got + 1 \in 1..h.sent BY <1>5, <1>7, <1>8, <1>9, <1>10
<1>12. h.first[w] < h.first[w + 1]
  <2>1. w \in 2..h.tail BY <1>3, <1>6, <1>4
  <2> QED BY <1>1, <2>1 DEF Shape, Visits
<1>13. h.visit[h.got + 1] = w
  <2>1. PICK e \in 1..h.sent : e = h.got + 1 BY <1>11
  <2>2. h.first[w] <= e /\ e < h.first[w + 1] BY <1>5, <1>10, <1>12, <2>1
  <2>3. h.visit[e] = w BY <1>1, <1>3, <2>2, VisitIs
  <2> QED BY <2>1, <2>3
<1>14. call.block \in Blocks BY <1>1, <1>2, <1>3, BlockFits
<1>15. View(bc, m)[<<"front", call.block>>] = IndexOf(h, w, h.got + 1)
  <2>1. OwnFront(h, w) = h.first[w] BY <1>4, <1>6 DEF OwnFront
  <2>2. FrontViews(h, m, View(bc, m)) BY DEF Whole, World, Views
  <2>3. View(bc, m)[<<"front", h.block[w]>>] = IndexOf(h, w, OwnFront(h, w))
    BY <1>3, <2>2 DEF FrontViews
  <2> QED BY <1>2, <1>10, <2>1, <2>3
<1>16. View(bc, m)[<<"tail", call.block>>] = IndexOf(h, w, MemTail(h, w))
  <2>1. TailViews(h, m, View(bp, m)) BY DEF Whole, World, Views
  <2>2. m[<<"tail", h.block[w]>>] = IndexOf(h, w, MemTail(h, w)) BY <1>3, <2>1 DEF TailViews
  <2>3. SeesMemory(m, View(bc, m)) BY ConsumerSees
  <2>4. View(bc, m)[<<"tail", call.block>>] = m[<<"tail", call.block>>]
    BY <1>14, <2>3 DEF SeesMemory
  <2> QED BY <1>2, <2>2, <2>4
<1>17. MemTail(h, w) \in Nat
  <2>1. Ordered(h, w) BY <1>1, <1>3, OrderedVisits
  <2> QED BY <2>1 DEF Ordered
<1>18. h.got + 1 < MemTail(h, w)
  <2>1. CASE w < h.shown
    <3>1. MemTail(h, w) = h.first[w + 1] BY <2>1 DEF MemTail
    <3> QED BY <1>10, <1>12, <3>1
  <2>2. CASE w = h.shown
    <3>1. MemTail(h, w) = h.pub + 1 BY <2>2, <1>4 DEF MemTail
    <3> QED BY <1>5, <1>11, <3>1
  <2> QED BY <1>3, <1>4, <1>6, <2>1, <2>2
<1>19. call.block = h.block[w] /\ call.op \in {"try_dequeue", "peek"} /\ call.start <= h.pub BY <1>2
<1> QED BY <1>3, <1>6, <1>10, <1>11, <1>13, <1>14, <1>15, <1>16, <1>17, <1>18, <1>19 DEF AheadFound

-----------------------------------------------------------------------------
(* What the consumer gives back.                                           *)

\* The history but for what the consumer does.
SameButTaken(h, h2) ==
  /\ h2.n = h.n /\ h2.unit = h.unit /\ h2.freed = h.freed /\ h2.shown = h.shown /\ h2.tail = h.tail
  /\ h2.rel = h.rel /\ h2.pub = h.pub /\ h2.sent = h.sent /\ h2.block = h.block /\ h2.room = h.room
  /\ h2.grown = h.grown /\ h2.first = h.first /\ h2.base = h.base /\ h2.visit = h.visit /\ h2.lf = h.lf /\ h2.S = h.S

\* Nothing of the producer depends on what was taken.
LEMMA TakenSame ==
  ASSUME NEW h, NEW h2, SameButTaken(h, h2)
  PROVE  /\ LastVisit(h2) = LastVisit(h)
         /\ \A v : MemFront(h2, v) = MemFront(h, v) /\ MemTail(h2, v) = MemTail(h, v)
         /\ \A v, x : IndexOf(h2, v, x) = IndexOf(h, v, x)
         /\ \A e : Begins(h2, e) <=> Begins(h, e)
         /\ \A e : Kinds(h2, e) = Kinds(h, e)
         /\ \A v : Linked(h2, v) <=> Linked(h, v)
         /\ \A v : NextOf(h2, v) = NextOf(h, v)
         /\ \A v, b : Link(h2, v, b) <=> Link(h, v, b)
<1>1. /\ h2.n = h.n /\ h2.unit = h.unit /\ h2.freed = h.freed /\ h2.shown = h.shown /\ h2.tail = h.tail
      /\ h2.rel = h.rel /\ h2.pub = h.pub /\ h2.sent = h.sent /\ h2.block = h.block /\ h2.room = h.room
      /\ h2.grown = h.grown /\ h2.first = h.first /\ h2.base = h.base /\ h2.visit = h.visit /\ h2.S = h.S
  BY DEF SameButTaken
<1>2. LastVisit(h2) = LastVisit(h) BY <1>1 DEF LastVisit
<1>3. \A v : MemFront(h2, v) = MemFront(h, v) BY <1>1 DEF MemFront
<1>5. \A v : MemTail(h2, v) = MemTail(h, v) BY <1>1 DEF MemTail
<1>6. \A v, x : IndexOf(h2, v, x) = IndexOf(h, v, x) BY <1>1 DEF IndexOf
<1>7. \A e : Begins(h2, e) <=> Begins(h, e) BY <1>1 DEF Begins
<1>8. \A e : Kinds(h2, e) = Kinds(h, e) BY <1>1, <1>7 DEF Kinds
<1>9. \A v : Linked(h2, v) <=> Linked(h, v) BY <1>1 DEF Linked
<1>10. \A v : NextOf(h2, v) = NextOf(h, v) BY <1>1, <1>2 DEF NextOf
<1>11. \A v, b : Stale(h2, v, b) <=> Stale(h, v, b) BY <1>1, <1>2, <1>9 DEF Stale
<1>12. \A v, b : Link(h2, v, b) <=> Link(h, v, b) BY <1>1, <1>10, <1>11 DEF Link
<1> QED BY <1>2, <1>3, <1>5, <1>6, <1>7, <1>8, <1>9, <1>10, <1>12

\* What the consumer sees of its own fronts, and the shadow copy of the tail.
FrontsMoved(h, h2, C, C2) ==
  /\ C2[<<"frontBlock">>] = h.block[h2.front]
  /\ \A b \in Blocks : C2[<<"front", b>>] = IF b = h.block[h2.front] THEN IndexOf(h, h2.front, h2.got + 1) ELSE C[<<"front", b>>]
\* The consumer's own fronts of the other blocks stay.
OthersOwn(h, h2) == \A v \in h.freed..h.tail : v # h2.front => OwnFront(h2, v) = OwnFront(h, v)

\* A step of the consumer's fronts leads from one history to the next.
LEMMA TakenWorld ==
  ASSUME NEW h, NEW h2, SameButTaken(h, h2), NEW m, NEW m2, NEW P, NEW P2, NEW C, NEW C2, NEW F,
         NEW s, NEW mask, World(h, m, P, C, F, s, mask),
         Shape(h2), PendingFronts(h2), h.got <= h2.got, OthersOwn(h, h2), FrontsMoved(h, h2, C, C2),
         SameExceptShadow(m, m2), SameExceptShadow(P, P2),
         m2[<<"localTail", h.block[h2.front]>>] = IndexOf(h, h2.front, h2.lt)
  PROVE  World(h2, m2, P2, C2, F, s, mask)
<1>1. /\ h2.n = h.n /\ h2.unit = h.unit /\ h2.freed = h.freed /\ h2.shown = h.shown /\ h2.tail = h.tail
      /\ h2.rel = h.rel /\ h2.pub = h.pub /\ h2.sent = h.sent /\ h2.block = h.block /\ h2.room = h.room
      /\ h2.grown = h.grown /\ h2.first = h.first /\ h2.base = h.base /\ h2.visit = h.visit /\ h2.S = h.S /\ h2.lf = h.lf
  BY DEF SameButTaken
<1>2. LastVisit(h2) = LastVisit(h) BY TakenSame
<1>3. \A v : MemFront(h2, v) = MemFront(h, v) /\ MemTail(h2, v) = MemTail(h, v) BY TakenSame
<1>4. \A v, x : IndexOf(h2, v, x) = IndexOf(h, v, x) BY TakenSame
<1>5. \A e : (Begins(h2, e) <=> Begins(h, e)) /\ Kinds(h2, e) = Kinds(h, e) BY TakenSame
<1>6. \A v, b : Link(h2, v, b) <=> Link(h, v, b) BY TakenSame
<1>7. \A v : NextOf(h2, v) = NextOf(h, v) BY TakenSame
<1>8. Shape(h) /\ Pend(h) /\ Sizing(h, s, mask) BY DEF World
<1>9. TailViews(h, m, P) /\ FrontViews(h, m, C) /\ FreeViews(h, m, P, C, F) /\ NextViews(h, m, P) /\ DataViews(h, m) /\ ShadowViews(h, m, F)
  BY DEF World, Views
<1>12. PendingTags(h2) BY <1>1, <1>5, <1>8 DEF Pend, PendingTags
<1>13. PendingStores(h2)
  <2>1. \A e \in (h.pub + 1)..h.sent : Tag(e, 7) \in DOMAIN h.S BY <1>8 DEF Pend, PendingTags
  <2>2. \A e, k, x : StoreIs(h, e, k, x) => StoreIs(h2, e, k, x)
    BY <1>1, <1>4, <1>5, <1>6 DEF StoreIs
  <2>3. \A e \in (h.pub + 1)..h.sent : \A k \in 1..7 : Tag(e, k) \in DOMAIN h.S => StoreIs(h, e, k, h.S[Tag(e, k)])
    BY <1>8, StoreAt DEF Pend
  <2>4. \A e \in (h2.pub + 1)..h2.sent : Tag(e, 7) \in DOMAIN h2.S BY <1>1, <2>1
  <2>5. \A e \in (h2.pub + 1)..h2.sent : \A k \in 1..7 : Tag(e, k) \in DOMAIN h2.S => StoreIs(h2, e, k, h2.S[Tag(e, k)])
    BY <1>1, <2>2, <2>3
  <2> QED BY <2>4, <2>5, StoresFromParts
<1>15. Sizing(h2, s, mask) BY <1>1, <1>2, <1>8 DEF Sizing
<1>16. Fits(h) BY <1>8, SizingFits
<1>17. \A b \in Blocks : /\ m2[<<"tail", b>>] = m[<<"tail", b>>] /\ P2[<<"tail", b>>] = P[<<"tail", b>>]
                         /\ m2[<<"front", b>>] = m[<<"front", b>>]
                         /\ m2[<<"next", b>>] = m[<<"next", b>>] /\ P2[<<"next", b>>] = P[<<"next", b>>]
  <2> TAKE b \in Blocks
  <2>1. /\ <<"tail", b>> \in Locations /\ <<"front", b>> \in Locations /\ <<"next", b>> \in Locations
    BY PlacesOf
  <2>2. <<"tail", b>>[1] # "localTail" /\ <<"front", b>>[1] # "localTail" /\ <<"next", b>>[1] # "localTail" OBVIOUS
  <2> QED BY <2>1, <2>2 DEF SameExceptShadow
<1>18. m2[<<"tailBlock">>] = m[<<"tailBlock">>] /\ P2[<<"tailBlock">>] = P[<<"tailBlock">>] /\ m2[<<"frontBlock">>] = m[<<"frontBlock">>]
  <2>1. <<"tailBlock">> \in Locations /\ <<"frontBlock">> \in Locations BY PlacesOf
  <2>2. <<"tailBlock">>[1] # "localTail" /\ <<"frontBlock">>[1] # "localTail" OBVIOUS
  <2> QED BY <2>1, <2>2 DEF SameExceptShadow
<1>19. \A v \in h.freed..LastVisit(h) : h.block[v] \in Blocks
  <2> TAKE v \in h.freed..LastVisit(h)
  <2>1. v \in 1..LastVisit(h) BY <1>8, ShapeFacts
  <2> QED BY <1>8, <1>16, <2>1, BlockFits
<1>20. h.tail <= LastVisit(h) /\ h.tail \in Nat /\ LastVisit(h) \in Nat /\ h.freed \in Nat /\ h.freed <= h.tail
  BY <1>8, ShapeFacts
<1>21. \A v \in h.freed..h.tail : h.block[v] \in Blocks BY <1>19, <1>20
<1>a. h2.front \in h.freed..h.tail /\ h2.front \in h.freed..LastVisit(h) /\ OwnFront(h2, h2.front) = h2.got + 1 /\ h2.front \in 1..LastVisit(h)
  <2>1. h2.front \in h2.freed..h2.tail /\ h2.front \in h2.freed..LastVisit(h2) /\ OwnFront(h2, h2.front) = h2.got + 1 /\ h2.front \in 1..LastVisit(h2)
    BY FrontVisit
  <2> QED BY <1>1, <1>2, <2>1
<1>22. TailViews(h2, m2, P2)
  <2>1. ASSUME NEW v \in h.freed..h.tail
        PROVE  P2[<<"tail", h.block[v]>>] = IndexOf(h, v, h.first[v + 1]) /\ m2[<<"tail", h.block[v]>>] = IndexOf(h, v, MemTail(h, v))
    <3>1. P[<<"tail", h.block[v]>>] = IndexOf(h, v, h.first[v + 1]) /\ m[<<"tail", h.block[v]>>] = IndexOf(h, v, MemTail(h, v))
      BY <1>9 DEF TailViews
    <3>2. h.block[v] \in Blocks BY <1>21
    <3> QED BY <1>17, <3>1, <3>2
  <2>2. P2[<<"tailBlock">>] = h.block[h.tail] /\ m2[<<"tailBlock">>] = h.block[h.shown]
    BY <1>9, <1>18 DEF TailViews
  <2> QED BY <1>1, <1>3, <1>4, <2>1, <2>2 DEF TailViews
<1>23. FrontViews(h2, m2, C2)
  <2>1. ASSUME NEW v \in h.freed..h.tail
        PROVE  C2[<<"front", h.block[v]>>] = IndexOf(h, v, OwnFront(h2, v)) /\ m2[<<"front", h.block[v]>>] = IndexOf(h, v, MemFront(h, v))
    <3>1. C[<<"front", h.block[v]>>] = IndexOf(h, v, OwnFront(h, v)) /\ m[<<"front", h.block[v]>>] = IndexOf(h, v, MemFront(h, v))
      BY <1>9 DEF FrontViews
    <3>2. h.block[v] \in Blocks BY <1>21
    <3>3. m2[<<"front", h.block[v]>>] = IndexOf(h, v, MemFront(h, v)) BY <1>17, <3>1, <3>2
    <3>4. CASE v = h2.front
      <4>1. C2[<<"front", h.block[v]>>] = IndexOf(h, h2.front, h2.got + 1)
        BY <3>2, <3>4 DEF FrontsMoved
      <4> QED BY <1>a, <3>3, <3>4, <4>1
    <3>5. CASE v # h2.front
      <4>1. v \in h.freed..LastVisit(h) BY <1>20
      <4>2. h.block[v] # h.block[h2.front] BY <1>8, <1>a, <3>5, <4>1, BlockInj
      <4>3. C2[<<"front", h.block[v]>>] = C[<<"front", h.block[v]>>] BY <3>2, <4>2 DEF FrontsMoved
      <4>4. OwnFront(h2, v) = OwnFront(h, v) BY <3>5 DEF OthersOwn
      <4> QED BY <3>1, <3>3, <4>3, <4>4
    <3> QED BY <3>4, <3>5
  <2>2. C2[<<"frontBlock">>] = h.block[h2.front] /\ m2[<<"frontBlock">>] = h.block[h.freed]
    BY <1>9, <1>18 DEF FrontViews, FrontsMoved
  <2> QED BY <1>1, <1>3, <1>4, <2>1, <2>2 DEF FrontViews
<1>24. FreeViews(h2, m2, P2, C2, F)
  <2>2. ASSUME NEW v \in (h.tail + 1)..LastVisit(h), NEW b, b = h.block[v]
        PROVE  /\ m2[<<"tail", b>>] \in 0..(h.room[v] - 1) /\ P2[<<"tail", b>>] = m2[<<"tail", b>>]
               /\ m2[<<"front", b>>] = m2[<<"tail", b>>] /\ C2[<<"front", b>>] = m2[<<"tail", b>>]
    <3>0. v \in h.freed..LastVisit(h) /\ v # h2.front BY <1>20, <1>a
    <3>1. b \in Blocks BY <1>19, <2>2, <3>0
    <3>2. /\ m[<<"tail", b>>] \in 0..(h.room[v] - 1) /\ P[<<"tail", b>>] = m[<<"tail", b>>]
          /\ m[<<"front", b>>] = m[<<"tail", b>>] /\ C[<<"front", b>>] = m[<<"tail", b>>]
      BY <1>9, <2>2 DEF FreeViews
    <3>3. b # h.block[h2.front] BY <1>8, <1>a, <2>2, <3>0, BlockInj
    <3>4. C2[<<"front", b>>] = C[<<"front", b>>] BY <3>1, <3>3 DEF FrontsMoved
    <3> QED BY <1>17, <3>1, <3>2, <3>4
  <2>3. ASSUME NEW b \in Blocks, b > h.n PROVE m2[<<"tail", b>>] = 0 /\ m2[<<"front", b>>] = 0 /\ C2[<<"front", b>>] = 0 /\ F[b] = 0
    <3>1. m[<<"tail", b>>] = 0 /\ m[<<"front", b>>] = 0 /\ C[<<"front", b>>] = 0 /\ F[b] = 0
      BY <1>9, <2>3 DEF FreeViews
    <3>2. h.block[h2.front] \in 1..h.n BY <1>8, <1>a, BlockType
    <3>3. h.n \in Nat BY <1>8, ShapeFacts
    <3>4. b # h.block[h2.front] BY <2>3, <3>2, <3>3
    <3>5. C2[<<"front", b>>] = C[<<"front", b>>] BY <3>4 DEF FrontsMoved
    <3> QED BY <1>17, <2>3, <3>1, <3>5
  <2> QED BY <1>1, <1>2, <2>2, <2>3 DEF FreeViews
<1>25. NextViews(h2, m2, P2)
  <2>1. ASSUME NEW v \in h.freed..LastVisit(h)
        PROVE  /\ P2[<<"next", h.block[v]>>] = NextOf(h, v)
               /\ (v <= h.tail /\ Tag(h.first[v], 4) \in DOMAIN h.S) \/ Link(h, v, m2[<<"next", h.block[v]>>])
    <3>1. P[<<"next", h.block[v]>>] = NextOf(h, v) BY <1>9 DEF NextViews
    <3>2. (v <= h.tail /\ Tag(h.first[v], 4) \in DOMAIN h.S) \/ Link(h, v, m[<<"next", h.block[v]>>])
      BY <1>9 DEF NextViews
    <3>3. h.block[v] \in Blocks BY <1>19
    <3> QED BY <1>17, <3>1, <3>2, <3>3
  <2> QED BY <1>1, <1>2, <1>6, <1>7, <2>1 DEF NextViews
<1>26. DataViews(h2, m2)
  <2>1. ASSUME NEW e \in (h.got + 1)..h.sent
        PROVE Tag(e, 1) \in DOMAIN h.S \/ m2[<<"data", h.block[h.visit[e]], IndexOf(h, h.visit[e], e)>>] = e
    <3>1. e \in 1..h.sent /\ e > h.got BY <1>8, ShapeFacts
    <3>2. PICK l \in Locations : l = <<"data", h.block[h.visit[e]], IndexOf(h, h.visit[e], e)>>
      BY <1>8, <1>16, <3>1, DataPlace
    <3>3. l[1] # "localTail" BY <3>2
    <3>4. m2[l] = m[l] BY <3>3 DEF SameExceptShadow
    <3>5. Tag(e, 1) \in DOMAIN h.S \/ m[l] = e BY <1>9, <3>2 DEF DataViews
    <3> QED BY <3>2, <3>4, <3>5
  <2>2. h.got \in Nat /\ h2.got \in Nat /\ h.sent \in Nat BY <1>8, ShapeFacts
  <2>3. (h2.got + 1)..h.sent \subseteq (h.got + 1)..h.sent BY <2>2
  <2>4. ASSUME NEW e \in (h2.got + 1)..h.sent
        PROVE Tag(e, 1) \in DOMAIN h.S \/ m2[<<"data", h.block[h.visit[e]], IndexOf(h, h.visit[e], e)>>] = e
    BY <2>1, <2>3
  <2> QED BY <1>1, <1>4, <2>4 DEF DataViews
<1>27. ShadowViews(h2, m2, F)
  <2>1. F[h.block[h.tail]] = IndexOf(h, h.tail, h.lf) BY <1>9 DEF ShadowViews
  <2> QED BY <1>1, <1>4, <2>1 DEF ShadowViews
<1>28. Views(h2, m2, P2, C2, F) BY <1>22, <1>23, <1>24, <1>25, <1>26, <1>27 DEF Views
<1>29. Pend(h2) BY <1>12, <1>13 DEF Pend
<1> QED BY <1>15, <1>28, <1>29 DEF World

\* What is issued to a buffer of stores leaves a buffer of stores.
LEMMA IssueType ==
  ASSUME NEW buf \in Seq(StoreSet), NEW issued \in Seq(StoreSet)
  PROVE  Issue(buf, issued) \in Seq(StoreSet)
<1>1. buf \o issued \in Seq(StoreSet) BY ConcatIs
<1> QED BY <1>1, TrimIs DEF Issue

\* A fence and a store join the buffer of the consumer; the fence has nothing
\* to keep back when the buffer is empty.
FrontJoined(R, R2, t1, t2, x) ==
  /\ DOMAIN R2 \subseteq DOMAIN R \cup {t1, t2}
  /\ t1 \in DOMAIN R2 => R2[t1] = Fence
  /\ t2 \in DOMAIN R2 /\ R2[t2] = x
  /\ \A u \in DOMAIN R : u \in DOMAIN R2 => R2[u] = R[u]
  /\ \A u \in DOMAIN R : R[u] # Fence => u \in DOMAIN R2
\* A release fence and a store, as the consumer issues them.
FenceThen(issued, x) == issued = <<Fence, x>>
\* Tags later than those of R.
After2(R, t1, t2) == t1 \in Nat /\ t2 \in Nat /\ t1 < t2 /\ DOMAIN R \subseteq Nat /\ \A u \in DOMAIN R : u < t1

\* A fence and a store join the history behind the others.
LEMMA FenceIssue ==
  ASSUME NEW buf \in Seq(StoreSet), NEW R, Holds(buf, R), NEW x \in StoreSet, x # Fence, NEW t1,
         NEW t2, After2(R, t1, t2), NEW issued, FenceThen(issued, x)
  PROVE  \E R2 : Holds(Issue(buf, issued), R2) /\ FrontJoined(R, R2, t1, t2, x)
<1>1. issued \in Seq(StoreSet) /\ Len(issued) = 2 /\ issued[1] = Fence /\ issued[2] = x
  <2>1. Fence \in StoreSet BY StoreSetHas
  <2> QED BY <2>1 DEF FenceThen
<1>2. PICK ts : ts = [i \in 1..2 |-> IF i = 1 THEN t1 ELSE t2] OBVIOUS
<1>3. t1 \in Nat /\ t2 \in Nat /\ t1 < t2 /\ DOMAIN R \subseteq Nat /\ \A u \in DOMAIN R : u < t1
  BY DEF After2
<1>4. ts[1] = t1 /\ ts[2] = t2 /\ ts \in [1..2 -> Nat] BY <1>2, <1>3
<1>5. Follow(R, issued, ts)
  <2>1. \A i, j \in 1..2 : i < j => ts[i] < ts[j] BY <1>3, <1>4
  <2>2. ASSUME NEW u \in DOMAIN R, NEW i \in 1..2 PROVE u < ts[i]
    <3>1. u \in Nat /\ u < t1 BY <1>3
    <3>2. u < t2 BY <1>3, <3>1
    <3>3. i = 1 \/ i = 2 OBVIOUS
    <3> QED BY <1>4, <3>1, <3>2, <3>3
  <2> QED BY <1>1, <1>4, <2>1, <2>2 DEF Follow
<1>6. PICK R2 : Holds(Issue(buf, issued), R2) /\ Joined(R, issued, ts, R2)
  BY <1>1, <1>3, <1>5, HoldsIssue
<1>7. DOMAIN R2 \subseteq DOMAIN R \cup {t1, t2}
  <2>1. DOMAIN R2 \subseteq DOMAIN R \cup {ts[i] : i \in 1..2} BY <1>1, <1>6 DEF Joined
  <2>2. \A i \in 1..2 : ts[i] \in {t1, t2} BY <1>4
  <2> QED BY <2>1, <2>2
<1>8. t1 \in DOMAIN R2 => R2[t1] = Fence BY <1>1, <1>4, <1>6 DEF Joined
<1>9. t2 \in DOMAIN R2 /\ R2[t2] = x
  <2>1. ts[2] \in DOMAIN R2 \/ (issued[2] = Fence /\ 2 = 1) BY <1>1, <1>6 DEF Joined
  <2>2. ts[2] \in DOMAIN R2 BY <1>1, <2>1
  <2>3. R2[ts[2]] = issued[2] BY <1>1, <1>6, <2>2 DEF Joined
  <2> QED BY <1>1, <1>4, <2>2, <2>3
<1>10. \A u \in DOMAIN R : u \in DOMAIN R2 => R2[u] = R[u] BY <1>6 DEF Joined
<1>11. \A u \in DOMAIN R : R[u] # Fence => u \in DOMAIN R2 BY <1>6 DEF Joined
<1>12. FrontJoined(R, R2, t1, t2, x) BY <1>7, <1>8, <1>9, <1>10, <1>11 DEF FrontJoined
<1> QED BY <1>6, <1>12

\* What the consumer sees after that.
FenceSeen(C, C2, l, x, k) == C2[k] = IF k = l THEN x ELSE C[k]

\* A thread that issued a fence and a store sees the store and nothing else anew.
LEMMA FenceView ==
  ASSUME NEW buf \in Seq(StoreSet), NEW m, NEW l \in Locations, NEW x \in Nat, NEW issued,
         FenceThen(issued, Store(l, x)), NEW k \in Locations
  PROVE  FenceSeen(View(buf, m), View(Issue(buf, issued), m), l, x, k)
<1>1. Store(l, x) \in StoreSet /\ Store(l, x).loc = l /\ Store(l, x).val = x /\ Fence \in StoreSet
  BY StoreSetHas
<1>2. issued \in Seq(StoreSet) /\ Len(issued) = 2 /\ issued[1] = Fence /\ issued[2] = Store(l, x)
  BY <1>1 DEF FenceThen
<1>3. CASE k = l
  <2>1. IsLast(issued, 2, k)
    <3>1. \A j \in 1..Len(issued) : j > 2 => issued[j].loc # k BY <1>2
    <3> QED BY <1>1, <1>2, <1>3, <3>1 DEF IsLast
  <2>2. View(Issue(buf, issued), m)[k] = issued[2].val BY <1>2, <2>1, ViewIssue
  <2> QED BY <1>1, <1>2, <1>3, <2>2 DEF FenceSeen
<1>4. CASE k # l
  <2>1. Untouched(issued, k)
    <3>1. issued[1].loc # k BY <1>2, NotFence
    <3>2. issued[2].loc # k BY <1>1, <1>2, <1>4
    <3>3. \A j \in 1..Len(issued) : j = 1 \/ j = 2 BY <1>2
    <3> QED BY <3>1, <3>2, <3>3 DEF Untouched
  <2>2. View(Issue(buf, issued), m)[k] = View(buf, m)[k] BY <1>2, <2>1, ViewIssue
  <2> QED BY <1>4, <2>2 DEF FenceSeen
<1> QED BY <1>3, <1>4

\* The consumer's stores to fronts and frontBlock are no fences.
LEMMA FrontNotFence ==
  ASSUME NEW h, PendingFronts(h)
  PROVE  /\ \A e \in (h.rel + 1)..h.got : Tag(e, 4) \in DOMAIN h.R /\ h.R[Tag(e, 4)] # Fence
         /\ \A v \in (h.freed + 1)..h.front : Tag(h.first[v], 2) \in DOMAIN h.R /\ h.R[Tag(h.first[v], 2)] # Fence
<1>1. ASSUME NEW e \in (h.rel + 1)..h.got PROVE Tag(e, 4) \in DOMAIN h.R /\ h.R[Tag(e, 4)] # Fence
  <2>1. Tag(e, 4) \in DOMAIN h.R /\ h.R[Tag(e, 4)] = Store(<<"front", h.block[h.visit[e]]>>, IndexOf(h, h.visit[e], e + 1))
    BY DEF PendingFronts
  <2>2. h.R[Tag(e, 4)].loc = <<"front", h.block[h.visit[e]]>> BY <2>1 DEF Store
  <2>3. h.R[Tag(e, 4)].loc[1] = "front" BY <2>2
  <2> QED BY <2>1, <2>3 DEF Fence
<1>2. ASSUME NEW v \in (h.freed + 1)..h.front PROVE Tag(h.first[v], 2) \in DOMAIN h.R /\ h.R[Tag(h.first[v], 2)] # Fence
  <2>1. Tag(h.first[v], 2) \in DOMAIN h.R /\ h.R[Tag(h.first[v], 2)] = Store(<<"frontBlock">>, h.block[v])
    BY DEF PendingFronts
  <2>2. h.R[Tag(h.first[v], 2)].loc = <<"frontBlock">> BY <2>1 DEF Store
  <2>3. h.R[Tag(h.first[v], 2)].loc[1] = "frontBlock" BY <2>2
  <2> QED BY <2>1, <2>3 DEF Fence
<1> QED BY <1>1, <1>2

\* The consumer moves to the next block.
AdvancedTo(h, h2, lt, R2) == SameButTaken(h, h2) /\ h2.front = h.front + 1 /\ h2.got = h.got /\ h2.lt = lt /\ h2.R = R2

\* There is a history with the front block moved on,
LEMMA AdvancedExists ==
  ASSUME NEW h, NEW lt, NEW R2
  PROVE  \E h2 : AdvancedTo(h, h2, lt, R2)
<1>1. PICK h2 : h2 = [n |-> h.n, unit |-> h.unit, freed |-> h.freed, front |-> h.front + 1, shown |-> h.shown, tail |-> h.tail,
         rel |-> h.rel, got |-> h.got, pub |-> h.pub, sent |-> h.sent, block |-> h.block, room |-> h.room, grown |-> h.grown,
         first |-> h.first, base |-> h.base, visit |-> h.visit, lf |-> h.lf, lt |-> lt, S |-> h.S, R |-> R2]
  OBVIOUS
<1>2. SameButTaken(h, h2) BY <1>1 DEF SameButTaken
<1> QED BY <1>1, <1>2 DEF AdvancedTo

\* The consumer takes the next element.
TakenTo(h, h2, R2) == SameButTaken(h, h2) /\ h2.front = h.front /\ h2.got = h.got + 1 /\ h2.lt = h.lt /\ h2.R = R2

\* and one with the next element taken.
LEMMA TakenExists ==
  ASSUME NEW h, NEW R2
  PROVE  \E h2 : TakenTo(h, h2, R2)
<1>1. PICK h2 : h2 = [n |-> h.n, unit |-> h.unit, freed |-> h.freed, front |-> h.front, shown |-> h.shown, tail |-> h.tail,
         rel |-> h.rel, got |-> h.got + 1, pub |-> h.pub, sent |-> h.sent, block |-> h.block, room |-> h.room, grown |-> h.grown,
         first |-> h.first, base |-> h.base, visit |-> h.visit, lf |-> h.lf, lt |-> h.lt, S |-> h.S, R |-> R2]
  OBVIOUS
<1>2. SameButTaken(h, h2) BY <1>1 DEF SameButTaken
<1> QED BY <1>1, <1>2 DEF TakenTo

\* The front block holds nothing more and w is the next visit.
AdvanceOk(h, w) ==
  /\ w = h.front + 1 /\ w \in h.freed..h.tail /\ w \in 1..h.tail /\ w <= h.shown /\ h.got + 1 = h.first[w]
  /\ MemTail(h, w) \in Nat /\ h.got + 1 < MemTail(h, w)

\* The front block moves on to the next visit of the producer's.
LEMMA AdvanceShape ==
  ASSUME NEW h, Shape(h), NEW w, AdvanceOk(h, w), NEW h2, NEW R2,
         AdvancedTo(h, h2, MemTail(h, w), R2)
  PROVE  Shape(h2) /\ OthersOwn(h, h2)
<1>1. /\ h2.n = h.n /\ h2.unit = h.unit /\ h2.freed = h.freed /\ h2.shown = h.shown /\ h2.tail = h.tail
      /\ h2.rel = h.rel /\ h2.pub = h.pub /\ h2.sent = h.sent /\ h2.block = h.block /\ h2.room = h.room
      /\ h2.grown = h.grown /\ h2.first = h.first /\ h2.base = h.base /\ h2.visit = h.visit /\ h2.S = h.S /\ h2.lf = h.lf
      /\ h2.got = h.got
  BY DEF AdvancedTo, SameButTaken
<1>2. LastVisit(h2) = LastVisit(h) /\ (\A v : MemFront(h2, v) = MemFront(h, v) /\ MemTail(h2, v) = MemTail(h, v))
  BY TakenSame DEF AdvancedTo
<1>3. h2.front = w /\ w = h.front + 1 /\ h2.lt = MemTail(h, w) BY DEF AdvancedTo, AdvanceOk
<1>4. w \in h.freed..h.tail /\ w \in 1..h.tail /\ w <= h.shown /\ h.got + 1 = h.first[w] /\ MemTail(h, w) \in Nat /\ h.got + 1 < MemTail(h, w)
  BY DEF AdvanceOk
<1>5. h.freed \in Nat /\ h.front \in Nat /\ h.tail \in Nat /\ h.shown \in Nat /\ h.freed <= h.front /\ h.got \in Nat
  BY ShapeFacts
<1>6. Counters(h2)
  <2>1. w \in Nat /\ h.freed <= w BY <1>4, <1>5
  <2> QED BY <1>1, <1>2, <1>3, <1>4, <2>1 DEF Shape, Counters
<1>7. Circular(h2) BY <1>1, <1>2 DEF Shape, Circular
<1>8. Visits(h2) BY <1>1 DEF Shape, Visits
<1>9. Positions(h2)
  <2>1. w \in 1..(h.tail + 1) /\ w + 1 \in 1..(h.tail + 1) /\ w <= w + 1 BY <1>4, <1>5
  <2>2. h.first[w] <= h.first[w + 1] BY <2>1, FirstMonotone
  <2>3. h2.first[h2.front] <= h2.got + 1 /\ h2.got + 1 <= h2.first[h2.front + 1]
    <3>1. h.first[w] \in Nat BY <2>1, FirstType
    <3> QED BY <1>1, <1>3, <1>4, <2>2, <3>1
  <2>4. h2.lt \in Nat /\ h2.got + 1 <= h2.lt /\ h2.lt <= MemTail(h2, h2.front)
    <3>1. MemTail(h2, w) = MemTail(h, w) BY <1>2
    <3> QED BY <1>1, <1>3, <1>4, <1>5, <3>1
  <2>5. MemFront(h2, h.tail) = MemFront(h, h.tail) BY <1>2
  <2> QED BY <1>1, <1>2, <2>3, <2>4, <2>5 DEF Shape, Positions
<1>10. OthersOwn(h, h2)
  <2>1. ASSUME NEW v \in h.freed..h.tail, v # h2.front PROVE OwnFront(h2, v) = OwnFront(h, v)
    <3>1. CASE v < h.front
      <4>1. v < w BY <1>3, <1>5, <3>1
      <4> QED BY <1>1, <1>3, <3>1, <4>1 DEF OwnFront
    <3>2. CASE v = h.front
      <4>1. v < w BY <1>3, <1>5, <3>2
      <4>2. OwnFront(h2, v) = h.first[v + 1] BY <1>1, <1>3, <4>1 DEF OwnFront
      <4>3. OwnFront(h, v) = h.got + 1 BY <1>5, <3>2 DEF OwnFront
      <4> QED BY <1>3, <1>4, <3>2, <4>2, <4>3
    <3>3. CASE v > h.front
      <4>1. v > w BY <1>3, <1>5, <2>1, <3>3
      <4>2. OwnFront(h2, v) = h.first[v] BY <1>1, <1>3, <1>5, <4>1 DEF OwnFront
      <4>3. OwnFront(h, v) = h.first[v] BY <1>5, <3>3 DEF OwnFront
      <4> QED BY <4>2, <4>3
    <3> QED BY <1>5, <3>1, <3>2, <3>3
  <2> QED BY <2>1 DEF OthersOwn
<1> QED BY <1>6, <1>7, <1>8, <1>9, <1>10 DEF Shape

\* The tags in the consumer's buffer are older.
LEMMA AdvanceAfter ==
  ASSUME NEW h, Shape(h), PendingFronts(h), NEW w, AdvanceOk(h, w)
  PROVE  After2(h.R, Tag(h.got + 1, 1), Tag(h.got + 1, 2))
<1>1. w = h.front + 1 /\ w \in 1..h.tail /\ h.got + 1 = h.first[w] BY DEF AdvanceOk
<1>2. h.got \in Nat /\ h.front \in Nat BY ShapeFacts
<1>3. h.front \in 1..h.tail BY FrontVisit
<1>4. h.first[h.front] < h.first[w]
  <2>1. h.front < w BY <1>1, <1>2
  <2> QED BY <1>1, <1>3, <2>1, FirstStrict
<1>5. h.first[h.front] # h.got + 1
  <2>1. h.front \in 1..(h.tail + 1)
    <3>1. h.tail \in Nat BY ShapeFacts
    <3> QED BY <1>3, <3>1
  <2>2. h.first[h.front] \in Nat BY <2>1, FirstType
  <2> QED BY <1>1, <1>2, <1>4, <2>2
<1>6. \A t \in DOMAIN h.R : t < Tag(h.got + 1, 1) BY <1>5 DEF PendingFronts
<1>7. DOMAIN h.R \subseteq Nat BY DEF PendingFronts
<1>8. Tag(h.got + 1, 1) \in Nat /\ Tag(h.got + 1, 2) \in Nat /\ Tag(h.got + 1, 1) < Tag(h.got + 1, 2)
  BY <1>2 DEF Tag
<1> QED BY <1>6, <1>7, <1>8 DEF After2

\* The store to frontBlock waits behind the releases of the block it leaves.
LEMMA AdvanceFronts ==
  ASSUME NEW h, Shape(h), PendingFronts(h), NEW w, AdvanceOk(h, w), NEW h2, NEW R2,
         AdvancedTo(h, h2, MemTail(h, w), R2),
         FrontJoined(h.R, R2, Tag(h.got + 1, 1), Tag(h.got + 1, 2), Store(<<"frontBlock">>, h.block[w]))
  PROVE  PendingFronts(h2)
<1>1. /\ h2.freed = h.freed /\ h2.tail = h.tail /\ h2.rel = h.rel /\ h2.block = h.block /\ h2.first = h.first /\ h2.visit = h.visit /\ h2.got = h.got
      /\ h2.R = R2
  BY DEF AdvancedTo, SameButTaken
<1>2. \A v, x : IndexOf(h2, v, x) = IndexOf(h, v, x) BY TakenSame DEF AdvancedTo
<1>3. h2.front = w /\ w = h.front + 1 /\ w \in h.freed..h.tail /\ h.got + 1 = h.first[w]
  BY DEF AdvancedTo, AdvanceOk
<1>4. h.freed \in Nat /\ h.front \in Nat /\ h.tail \in Nat /\ h.freed <= h.front /\ h.got \in Nat
  BY ShapeFacts
<1>5. PICK t1 \in Nat, t2 \in Nat : t1 = Tag(h.got + 1, 1) /\ t2 = Tag(h.got + 1, 2) /\ t1 < t2
  BY <1>4 DEF Tag
<1>6. PICK x : x = Store(<<"frontBlock">>, h.block[w]) OBVIOUS
<1>7. FrontJoined(h.R, R2, t1, t2, x) BY <1>5, <1>6
<1>8. \A u \in DOMAIN h.R : u < t1 /\ u \in Nat BY <1>5, AdvanceAfter DEF After2
<1>9. DOMAIN R2 \subseteq DOMAIN h.R \cup {t1, t2} BY <1>7 DEF FrontJoined
<1>10. DOMAIN R2 \subseteq Nat BY <1>8, <1>9
<1>11. t2 = Tag(h.first[w], 2) BY <1>3, <1>5
<1>12. ASSUME NEW t \in DOMAIN R2
       PROVE  \/ \E e \in (h.rel + 1)..h.got : t = Tag(e, 4)
              \/ \E v \in (h.freed + 1)..w : t = Tag(h.first[v], 2)
              \/ R2[t] = Fence
  <2>1. CASE t \in DOMAIN h.R
    <3>1. R2[t] = h.R[t] BY <1>7, <2>1 DEF FrontJoined
    <3>2. \/ \E e \in (h.rel + 1)..h.got : t = Tag(e, 4)
          \/ \E v \in (h.freed + 1)..h.front : t = Tag(h.first[v], 2)
          \/ h.R[t] = Fence
      BY <2>1 DEF PendingFronts
    <3>3. (h.freed + 1)..h.front \subseteq (h.freed + 1)..w BY <1>3, <1>4
    <3> QED BY <3>1, <3>2, <3>3
  <2>2. CASE t = t1 BY <1>7, <2>2 DEF FrontJoined
  <2>3. CASE t = t2
    <3>1. w \in (h.freed + 1)..w BY <1>3, <1>4
    <3> QED BY <1>11, <2>3, <3>1
  <2> QED BY <1>9, <2>1, <2>2, <2>3
<1>13. \A t \in DOMAIN R2 : h.first[w] = h.got + 1 /\ t <= t2
  <2> TAKE t \in DOMAIN R2
  <2>1. t \in DOMAIN h.R \/ t = t1 \/ t = t2 BY <1>9
  <2>2. t \in DOMAIN h.R => t < t1 /\ t \in Nat BY <1>8
  <2>3. t <= t2 BY <1>5, <2>1, <2>2
  <2> QED BY <1>3, <2>3
<1>14. ASSUME NEW e \in (h.rel + 1)..h.got
       PROVE  Tag(e, 4) \in DOMAIN R2 /\ R2[Tag(e, 4)] = Store(<<"front", h.block[h.visit[e]]>>, IndexOf(h, h.visit[e], e + 1))
  <2>1. Tag(e, 4) \in DOMAIN h.R /\ h.R[Tag(e, 4)] # Fence BY FrontNotFence
  <2>2. Tag(e, 4) \in DOMAIN R2 /\ R2[Tag(e, 4)] = h.R[Tag(e, 4)] BY <1>7, <2>1 DEF FrontJoined
  <2>3. h.R[Tag(e, 4)] = Store(<<"front", h.block[h.visit[e]]>>, IndexOf(h, h.visit[e], e + 1))
    BY DEF PendingFronts
  <2> QED BY <2>2, <2>3
<1>15. ASSUME NEW v \in (h.freed + 1)..w
       PROVE  Tag(h.first[v], 2) \in DOMAIN R2 /\ R2[Tag(h.first[v], 2)] = Store(<<"frontBlock">>, h.block[v])
  <2>1. CASE v = w BY <1>6, <1>7, <1>11, <2>1 DEF FrontJoined
  <2>2. CASE v # w
    <3>0. v \in (h.freed + 1)..h.front BY <1>3, <1>4, <2>2
    <3>1. Tag(h.first[v], 2) \in DOMAIN h.R /\ h.R[Tag(h.first[v], 2)] # Fence
      BY <3>0, FrontNotFence
    <3>2. Tag(h.first[v], 2) \in DOMAIN R2 /\ R2[Tag(h.first[v], 2)] = h.R[Tag(h.first[v], 2)]
      BY <1>7, <3>1 DEF FrontJoined
    <3>3. h.R[Tag(h.first[v], 2)] = Store(<<"frontBlock">>, h.block[v]) BY <3>0 DEF PendingFronts
    <3> QED BY <3>2, <3>3
  <2> QED BY <2>1, <2>2
<1>16. \A t \in DOMAIN h2.R : h2.first[h2.front] = h2.got + 1 /\ t <= Tag(h2.got + 1, 2)
  BY <1>1, <1>3, <1>5, <1>13
<1> QED BY <1>1, <1>2, <1>3, <1>10, <1>12, <1>14, <1>15, <1>16 DEF PendingFronts

\* No call of the producer notices.
LEMMA TakenProducer ==
  ASSUME NEW h, NEW h2, SameButTaken(h, h2)
  PROVE  ProducerKept(h, h2)
<1>1. LastVisit(h2) = LastVisit(h) BY TakenSame
<1> QED BY <1>1 DEF ProducerKept, ProducerCall, SameButTaken

\* peek reads the first element of the block ahead and stays where it is.
LEMMA AdvancePeek ==
  ASSUME NEW h, NEW m, NEW bp, NEW bc, NEW F, NEW s, NEW mask, Whole(h, m, bp, bc, F, s, mask),
         NEW call \in CallSet, ConsumerCall(h, call),
         call.pc = "advance", call.op = "peek", NEW b, b = call.block, NEW call2, SetPcPlace(call, call2, "element", b, View(bc, m)[<<"front", b>>])
  PROVE  call2 \in CallSet /\ ConsumerCall(h, call2)
<1>1. PICK w : w = h.front + 1 OBVIOUS
<1>2. /\ w \in h.freed..h.tail /\ h.got < h.pub /\ h.visit[h.got + 1] = w /\ b = h.block[w] /\ call.start <= h.pub
      /\ View(bc, m)[<<"front", b>>] = IndexOf(h, w, h.got + 1)
  <2>1. AheadFound(h, View(bc, m), call, w) BY <1>1, AdvanceFacts
  <2> QED BY <2>1 DEF AheadFound
<1>3. Shape(h) /\ Fits(h) BY WholeParts
<1>4. PICK i : i = IndexOf(h, w, h.got + 1) OBVIOUS
<1>5. i \in Nat
  <2>1. h.got \in Nat BY <1>3, ShapeFacts
  <2>2. PICK g \in Int : g = h.got + 1 BY <2>1
  <2> QED BY <1>2, <1>3, <1>4, <2>2, TailPlace
<1>6. b \in Nat BY CallFields
<1>7. "element" \in Pcs BY DEF Pcs
<1>8. CallIs(call2, "element", call.op, call.ok, call.start, b, i, call.sum, call.first)
  BY <1>2, <1>4, <1>5, <1>6, <1>7, CallPcPlace
<1>9. call2 \in CallSet /\ call2.pc = "element" /\ call2.op = "peek" /\ call2.start = call.start /\ call2.block = b /\ call2.index = i
  BY <1>8 DEF CallIs
<1>10. call2.block = h.block[h.visit[h.got + 1]] /\ call2.index = IndexOf(h, h.visit[h.got + 1], h.got + 1)
  BY <1>2, <1>4, <1>9
<1>11. ConsumerCall(h, call2) BY <1>2, <1>9, <1>10 DEF ConsumerCall
<1> QED BY <1>9, <1>11

\* DequeueAdvance: the next block becomes the front block and its first element is the
\* one to take.
LEMMA AdvanceMoves ==
  ASSUME NEW h, NEW m, NEW bp, NEW bc, NEW F, NEW s, NEW mask, Whole(h, m, bp, bc, F, s, mask),
         NEW call \in CallSet, ConsumerCall(h, call),
         call.pc = "advance", NEW b, b = call.block, NEW m2, m2 = [m EXCEPT ![<<"localTail", b>>] = View(bc, m)[<<"tail", b>>]],
         NEW issued, FenceThen(issued, Store(<<"frontBlock">>, b)), NEW call2,
         SetPcPlace(call, call2, "element", b, View(bc, m)[<<"front", b>>])
  PROVE  \E h2 : Whole(h2, m2, bp, Issue(bc, issued), F, s, mask) /\ Kept(h, h2) /\ ProducerKept(h, h2) /\ call2 \in CallSet /\ ConsumerCall(h2, call2)
<1>1. PICK w : w = h.front + 1 OBVIOUS
<1>0. AheadFound(h, View(bc, m), call, w) BY <1>1, AdvanceFacts
<1>2. AdvanceOk(h, w) /\ w \in h.freed..h.tail /\ w \in 1..LastVisit(h)
  <2>1. /\ w \in h.freed..h.tail /\ w \in 1..h.tail /\ w \in 1..LastVisit(h) /\ w <= h.shown /\ h.got + 1 = h.first[w]
        /\ MemTail(h, w) \in Nat /\ h.got + 1 < MemTail(h, w)
    BY <1>0 DEF AheadFound
  <2> QED BY <1>1, <2>1 DEF AdvanceOk
<1>3. b = h.block[w] /\ b \in Blocks /\ call.op \in {"try_dequeue", "peek"} /\ call.start <= h.pub
  BY <1>0 DEF AheadFound
<1>4. View(bc, m)[<<"front", b>>] = IndexOf(h, w, h.got + 1) /\ View(bc, m)[<<"tail", b>>] = IndexOf(h, w, MemTail(h, w))
  BY <1>0 DEF AheadFound
<1>5. Shape(h) /\ PendingFronts(h) /\ Fits(h) /\ Holds(bp, h.S) /\ Holds(bc, h.R)
      /\ m \in [Locations -> Nat] /\ bp \in Seq(StoreSet) /\ bc \in Seq(StoreSet) /\ F \in [Blocks -> Nat]
        BY WholeParts
<1>6. PICK tl : tl = IndexOf(h, w, MemTail(h, w)) OBVIOUS
<1>7. PICK i : i = IndexOf(h, w, h.got + 1) OBVIOUS
<1>8. tl \in Nat /\ i \in Nat /\ h.got \in Nat
  <2>1. h.got \in Nat BY <1>5, ShapeFacts
  <2>2. PICK g \in Int : g = h.got + 1 BY <2>1
  <2>3. MemTail(h, w) \in Int BY <1>2 DEF AdvanceOk
  <2>4. tl \in Nat BY <1>2, <1>5, <1>6, <2>3, TailPlace
  <2>5. i \in Nat BY <1>2, <1>5, <1>7, <2>2, TailPlace
  <2> QED BY <2>1, <2>4, <2>5
<1>9. b \in Nat
  <2>1. b \in 1..h.n BY <1>2, <1>3, <1>5, BlockType
  <2>2. h.n \in Nat BY <1>5, ShapeFacts
  <2> QED BY <2>1, <2>2
<1>10. <<"frontBlock">> \in Locations /\ <<"localTail", b>> \in Locations BY <1>3, PlacesOf
<1>11. m2 \in [Locations -> Nat] /\ m2[<<"localTail", b>>] = tl
  <2>1. m2 = [m EXCEPT ![<<"localTail", b>>] = tl] BY <1>4, <1>6
  <2> QED BY <1>5, <1>8, <1>10, <2>1
<1>12. SameExceptShadow(m, m2)
  <2>1. ASSUME NEW l \in Locations, l[1] # "localTail" PROVE m2[l] = m[l]
    <3>1. l # <<"localTail", b>> BY <2>1
    <3> QED BY <1>5, <3>1
  <2> QED BY <2>1 DEF SameExceptShadow
<1>13. PICK x : x = Store(<<"frontBlock">>, b) OBVIOUS
<1>14. x \in StoreSet /\ x # Fence BY <1>9, <1>10, <1>13, StoreSetHas
<1>15. FenceThen(issued, x) BY <1>13
<1>16. PICK t1, t2 : t1 = Tag(h.got + 1, 1) /\ t2 = Tag(h.got + 1, 2) OBVIOUS
<1>17. After2(h.R, t1, t2) BY <1>2, <1>5, <1>16, AdvanceAfter
<1>18. PICK R2 : Holds(Issue(bc, issued), R2) /\ FrontJoined(h.R, R2, t1, t2, x)
  BY <1>5, <1>14, <1>15, <1>17, FenceIssue
<1>19. PICK h2 : AdvancedTo(h, h2, MemTail(h, w), R2) BY AdvancedExists
<1>20. Shape(h2) /\ OthersOwn(h, h2) BY <1>2, <1>5, <1>19, AdvanceShape
<1>21. PendingFronts(h2)
  <2>1. FrontJoined(h.R, R2, Tag(h.got + 1, 1), Tag(h.got + 1, 2), Store(<<"frontBlock">>, h.block[w]))
    BY <1>3, <1>13, <1>16, <1>18
  <2> QED BY <1>2, <1>5, <1>19, <2>1, AdvanceFronts
<1>22. SameButTaken(h, h2) /\ h2.front = w /\ h2.got = h.got /\ h2.lt = MemTail(h, w) /\ h2.R = R2
  BY <1>1, <1>19 DEF AdvancedTo
<1>23. issued \in Seq(StoreSet)
  <2>1. Fence \in StoreSet BY StoreSetHas
  <2> QED BY <1>14, <1>15, <2>1 DEF FenceThen
<1>24. Issue(bc, issued) \in Seq(StoreSet) BY <1>5, <1>23, IssueType
<1>25. \A k \in Locations : View(Issue(bc, issued), m2)[k] = IF k = <<"frontBlock">> THEN b ELSE View(bc, m2)[k]
  <2>1. PICK l \in Locations : l = <<"frontBlock">> BY <1>10
  <2>2. FenceThen(issued, Store(l, b)) BY <2>1
  <2>3. ASSUME NEW k \in Locations PROVE FenceSeen(View(bc, m2), View(Issue(bc, issued), m2), l, b, k)
    BY <1>5, <1>9, <2>2, FenceView
  <2> QED BY <2>1, <2>3 DEF FenceSeen
<1>26. FrontsMoved(h, h2, View(bc, m), View(Issue(bc, issued), m2))
  <2>1. View(Issue(bc, issued), m2)[<<"frontBlock">>] = h.block[h2.front]
    BY <1>3, <1>10, <1>22, <1>25
  <2>2. ASSUME NEW a \in Blocks
        PROVE View(Issue(bc, issued), m2)[<<"front", a>>] = IF a = h.block[h2.front] THEN IndexOf(h, h2.front, h2.got + 1) ELSE View(bc, m)[<<"front", a>>]
    <3>1. <<"front", a>> \in Locations /\ <<"front", a>> # <<"frontBlock">>
      BY PlacesOf, PlacesDiffer
    <3>2. View(Issue(bc, issued), m2)[<<"front", a>>] = View(bc, m2)[<<"front", a>>] BY <1>25, <3>1
    <3>3. <<"front", a>>[1] # "localTail" OBVIOUS
    <3>4. View(bc, m2)[<<"front", a>>] = View(bc, m)[<<"front", a>>] BY <1>12, <3>1, <3>3, ViewSame
    <3>5. a = h.block[h2.front] => View(bc, m)[<<"front", a>>] = IndexOf(h, h2.front, h2.got + 1)
      BY <1>3, <1>4, <1>22
    <3> QED BY <3>2, <3>4, <3>5
  <2> QED BY <2>1, <2>2 DEF FrontsMoved
<1>27. SameExceptShadow(View(bp, m), View(bp, m2))
  <2>1. ASSUME NEW l \in Locations, l[1] # "localTail" PROVE View(bp, m2)[l] = View(bp, m)[l]
    BY <1>12, <2>1, ViewSame
  <2> QED BY <2>1 DEF SameExceptShadow
<1>28. m2[<<"localTail", h.block[h2.front]>>] = IndexOf(h, h2.front, h2.lt)
  BY <1>3, <1>6, <1>11, <1>22
<1>29. h.got <= h2.got BY <1>8, <1>22
<1>30. World(h, m, View(bp, m), View(bc, m), F, s, mask) BY DEF Whole
<1>31. World(h2, m2, View(bp, m2), View(Issue(bc, issued), m2), F, s, mask)
  BY <1>12, <1>20, <1>21, <1>22, <1>26, <1>27, <1>28, <1>29, <1>30, TakenWorld
<1>32. h2.S = h.S BY <1>22 DEF SameButTaken
<1>33. Whole(h2, m2, bp, Issue(bc, issued), F, s, mask)
  BY <1>5, <1>11, <1>18, <1>22, <1>24, <1>31, <1>32 DEF Whole
<1>34. Kept(h, h2) BY <1>22 DEF Kept, SameButTaken
<1>35. ProducerKept(h, h2) BY <1>22, TakenProducer
<1>36. call2 \in CallSet /\ ConsumerCall(h2, call2)
  <2>1. call.start <= h2.pub /\ h2.block = h.block BY <1>3, <1>22 DEF SameButTaken
  <2>2. h2.got + 1 < h2.lt BY <1>2, <1>22 DEF AdvanceOk
  <2>3. IndexOf(h2, h2.front, h2.got + 1) = i BY <1>7, <1>22, TakenSame
  <2>4. b = h2.block[h2.front] BY <1>3, <1>22, <2>1
  <2>5. SetPcPlace(call, call2, "element", b, i) BY <1>4, <1>7
  <2> QED BY <1>3, <1>8, <1>20, <2>1, <2>2, <2>3, <2>4, <2>5, ElementFound
<1> QED BY <1>33, <1>34, <1>35, <1>36

-----------------------------------------------------------------------------
(* The consumer takes an element.                                          *)

\* The element the consumer reads is the next one.
LEMMA ElementData ==
  ASSUME NEW h, NEW m, NEW bp, NEW bc, NEW F, NEW s, NEW mask, Whole(h, m, bp, bc, F, s, mask),
         NEW call \in CallSet, ConsumerCall(h, call),
         call.pc = "element", NEW x, x = View(bc, m)[<<"data", call.block, call.index>>]
  PROVE  x = h.got + 1
<1>1. Shape(h) /\ Pend(h) /\ Fits(h) BY WholeParts
<1>2. h.got < h.pub /\ call.block = h.block[h.visit[h.got + 1]] /\ call.index = IndexOf(h, h.visit[h.got + 1], h.got + 1)
  BY DEF ConsumerCall
<1>3. h.got \in Nat /\ h.pub \in Nat /\ h.sent \in Nat /\ h.pub <= h.sent BY <1>1, ShapeFacts
<1>4. PICK e : e = h.got + 1 OBVIOUS
<1>5. e \in (h.got + 1)..h.sent /\ e \in 1..h.sent /\ e \in Nat /\ e > h.got BY <1>2, <1>3, <1>4
<1>6. Tag(e, 1) \notin DOMAIN h.S
  <2>1. SUFFICES ASSUME Tag(e, 1) \in DOMAIN h.S PROVE FALSE OBVIOUS
  <2>2. e \in (h.pub + 1)..h.sent BY <1>1, <1>5, <2>1, TagOf
  <2> QED BY <1>2, <1>3, <1>4, <2>2
<1>7. PICK v, i : v = h.visit[e] /\ i = IndexOf(h, v, e) OBVIOUS
<1>8. h.block[v] \in Blocks /\ i \in Slots
  <2>1. v \in h.freed..h.tail BY <1>1, <1>5, <1>7, DataPlace
  <2>2. e \in Int BY <1>5
  <2> QED BY <1>1, <1>7, <2>1, <2>2, TailPlace
<1>9. m[<<"data", h.block[v], i>>] = e
  <2>1. DataViews(h, m) BY DEF Whole, World, Views
  <2> QED BY <1>5, <1>6, <1>7, <2>1 DEF DataViews
<1>10. SeesMemory(m, View(bc, m)) BY ConsumerSees
<1>11. View(bc, m)[<<"data", h.block[v], i>>] = m[<<"data", h.block[v], i>>]
  BY <1>8, <1>10 DEF SeesMemory
<1>12. call.block = h.block[v] /\ call.index = i BY <1>2, <1>4, <1>7
<1> QED BY <1>4, <1>9, <1>11, <1>12

\* The call that took, or looked at, element x.
TakenCall(call, call2, x) == CallIs(call2, "done", call.op, TRUE, call.start, 0, 0, x, 0)

\* DequeueElement, peek: the element read is the next one and stays.
LEMMA ElementPeek ==
  ASSUME NEW h, NEW m, NEW bp, NEW bc, NEW F, NEW s, NEW mask, Whole(h, m, bp, bc, F, s, mask),
         NEW call \in CallSet, ConsumerCall(h, call),
         call.pc = "element", call.op = "peek", NEW x, x = View(bc, m)[<<"data", call.block, call.index>>], NEW call2, TakenCall(call, call2, x)
  PROVE  call2 \in CallSet /\ ConsumerCall(h, call2)
<1>1. x = h.got + 1 BY ElementData
<1>2. call.start <= h.pub BY DEF ConsumerCall
<1>3. call2 \in CallSet /\ call2.pc = "done" /\ call2.op = call.op /\ call2.ok = TRUE /\ call2.start = call.start /\ call2.sum = x
  BY DEF TakenCall, CallIs
<1>4. ConsumerCall(h, call2) BY <1>1, <1>2, <1>3 DEF ConsumerCall
<1> QED BY <1>3, <1>4

\* The next element is published and before the copy of the tail.
TakeOk(h) == h.got < h.pub /\ h.got + 1 < h.lt

\* The next element is taken.
LEMMA TakeShape ==
  ASSUME NEW h, Shape(h), TakeOk(h), NEW h2, NEW R2, TakenTo(h, h2, R2)
  PROVE  Shape(h2) /\ OthersOwn(h, h2)
<1>1. /\ h2.n = h.n /\ h2.unit = h.unit /\ h2.freed = h.freed /\ h2.shown = h.shown /\ h2.tail = h.tail
      /\ h2.rel = h.rel /\ h2.pub = h.pub /\ h2.sent = h.sent /\ h2.block = h.block /\ h2.room = h.room
      /\ h2.grown = h.grown /\ h2.first = h.first /\ h2.base = h.base /\ h2.visit = h.visit /\ h2.S = h.S /\ h2.lf = h.lf
      /\ h2.front = h.front /\ h2.lt = h.lt
  BY DEF TakenTo, SameButTaken
<1>2. LastVisit(h2) = LastVisit(h) /\ (\A v : MemFront(h2, v) = MemFront(h, v) /\ MemTail(h2, v) = MemTail(h, v))
  BY TakenSame DEF TakenTo
<1>3. PICK g : g = h.got + 1 OBVIOUS
<1>4. h2.got = g BY <1>3 DEF TakenTo
<1>5. h.got \in Nat /\ h.rel \in Nat /\ h.pub \in Nat /\ h.rel <= h.got /\ h.front <= h.shown
  BY ShapeFacts
<1>6. g \in Nat /\ h.rel <= g /\ g <= h.pub /\ g < h.lt BY <1>3, <1>5 DEF TakeOk
<1>7. h.lt \in Nat /\ h.lt <= MemTail(h, h.front) /\ h.first[h.front] <= g
  BY <1>3 DEF Shape, Positions
<1>8. Counters(h2) BY <1>1, <1>2, <1>4, <1>6 DEF Shape, Counters
<1>9. Circular(h2) BY <1>1, <1>2 DEF Shape, Circular
<1>10. Visits(h2) BY <1>1 DEF Shape, Visits
<1>11. Ordered(h, h.front) BY FrontVisit
<1>12. MemTail(h, h.front) \in Nat /\ MemTail(h, h.front) <= h.first[h.front + 1] /\ h.first[h.front] \in Nat /\ h.first[h.front + 1] \in Nat
  BY <1>11 DEF Ordered
<1>13. h.first[h.front] <= g + 1 /\ g + 1 <= h.first[h.front + 1] /\ g + 1 <= h.lt
  BY <1>6, <1>7, <1>12
<1>14. Positions(h2) BY <1>1, <1>2, <1>4, <1>7, <1>13 DEF Shape, Positions
<1>15. OthersOwn(h, h2)
  <2>1. ASSUME NEW v \in h.freed..h.tail, v # h2.front PROVE OwnFront(h2, v) = OwnFront(h, v)
    BY <1>1, <2>1 DEF OwnFront
  <2> QED BY <2>1 DEF OthersOwn
<1> QED BY <1>8, <1>9, <1>10, <1>14, <1>15 DEF Shape

\* Its release is later than the stores that wait.
LEMMA TakeAfter ==
  ASSUME NEW h, Shape(h), PendingFronts(h)
  PROVE  After2(h.R, Tag(h.got + 1, 3), Tag(h.got + 1, 4))
<1>1. h.got \in Nat BY ShapeFacts
<1>2. DOMAIN h.R \subseteq Nat /\ \A t \in DOMAIN h.R : t < Tag(h.got + 1, 1) \/ t <= Tag(h.got + 1, 2)
  BY DEF PendingFronts
<1>3. PICK a \in Nat : a = 8 * (h.got + 1) BY <1>1
<1>4. Tag(h.got + 1, 1) = a + 1 /\ Tag(h.got + 1, 2) = a + 2 /\ Tag(h.got + 1, 3) = a + 3 /\ Tag(h.got + 1, 4) = a + 4
  BY <1>3 DEF Tag
<1>5. ASSUME NEW t \in DOMAIN h.R PROVE t < a + 3
  <2>1. t \in Nat /\ (t < a + 1 \/ t <= a + 2) BY <1>2, <1>4
  <2> QED BY <1>3, <2>1
<1>6. a + 3 \in Nat /\ a + 4 \in Nat /\ a + 3 < a + 4 BY <1>3
<1> QED BY <1>2, <1>4, <1>5, <1>6 DEF After2

\* The release of its slot waits behind those of the elements before it.
LEMMA TakeFronts ==
  ASSUME NEW h, Shape(h), PendingFronts(h), TakeOk(h), h.visit[h.got + 1] = h.front, NEW h2, NEW R2,
         TakenTo(h, h2, R2),
         FrontJoined(h.R, R2, Tag(h.got + 1, 3), Tag(h.got + 1, 4), Store(<<"front", h.block[h.front]>>, IndexOf(h, h.front, h.got + 2)))
  PROVE  PendingFronts(h2)
<1>1. /\ h2.freed = h.freed /\ h2.front = h.front /\ h2.tail = h.tail /\ h2.rel = h.rel /\ h2.block = h.block /\ h2.first = h.first /\ h2.visit = h.visit
      /\ h2.R = R2
  BY DEF TakenTo, SameButTaken
<1>2. \A v, x : IndexOf(h2, v, x) = IndexOf(h, v, x) BY TakenSame DEF TakenTo
<1>3. h.got \in Nat /\ h.rel \in Nat /\ h.rel <= h.got BY ShapeFacts
<1>4. PICK g \in Nat : g = h.got + 1 BY <1>3
<1>5. h2.got = g BY <1>4 DEF TakenTo
<1>6. PICK t1 \in Nat, t2 \in Nat : t1 = Tag(g, 3) /\ t2 = Tag(g, 4) /\ t1 < t2 BY <1>4 DEF Tag
<1>7. PICK x : x = Store(<<"front", h.block[h.front]>>, IndexOf(h, h.front, h.got + 2)) OBVIOUS
<1>8. FrontJoined(h.R, R2, t1, t2, x) BY <1>4, <1>6, <1>7
<1>9. \A u \in DOMAIN h.R : u < t1 /\ u \in Nat BY <1>4, <1>6, TakeAfter DEF After2
<1>10. DOMAIN R2 \subseteq DOMAIN h.R \cup {t1, t2} BY <1>8 DEF FrontJoined
<1>11. DOMAIN R2 \subseteq Nat BY <1>9, <1>10
<1>12. ASSUME NEW t \in DOMAIN R2
       PROVE  \/ \E e \in (h.rel + 1)..g : t = Tag(e, 4)
              \/ \E v \in (h.freed + 1)..h.front : t = Tag(h.first[v], 2)
              \/ R2[t] = Fence
  <2>1. CASE t \in DOMAIN h.R
    <3>1. R2[t] = h.R[t] BY <1>8, <2>1 DEF FrontJoined
    <3>2. \/ \E e \in (h.rel + 1)..h.got : t = Tag(e, 4)
          \/ \E v \in (h.freed + 1)..h.front : t = Tag(h.first[v], 2)
          \/ h.R[t] = Fence
      BY <2>1 DEF PendingFronts
    <3>3. (h.rel + 1)..h.got \subseteq (h.rel + 1)..g BY <1>3, <1>4
    <3> QED BY <3>1, <3>2, <3>3
  <2>2. CASE t = t1 BY <1>8, <2>2 DEF FrontJoined
  <2>3. CASE t = t2
    <3>1. g \in (h.rel + 1)..g BY <1>3, <1>4
    <3> QED BY <1>6, <2>3, <3>1
  <2> QED BY <1>10, <2>1, <2>2, <2>3
<1>13. \A t \in DOMAIN R2 : t < Tag(g + 1, 1)
  <2> TAKE t \in DOMAIN R2
  <2>1. t \in DOMAIN h.R \/ t = t1 \/ t = t2 BY <1>10
  <2>2. t \in DOMAIN h.R => t < t1 /\ t \in Nat BY <1>9
  <2>3. t <= t2 /\ t \in Nat BY <1>6, <2>1, <2>2
  <2>4. t2 < Tag(g + 1, 1) BY <1>4, <1>6 DEF Tag
  <2>5. Tag(g + 1, 1) \in Nat BY <1>4 DEF Tag
  <2> QED BY <2>3, <2>4, <2>5
<1>14. ASSUME NEW e \in (h.rel + 1)..g
       PROVE  Tag(e, 4) \in DOMAIN R2 /\ R2[Tag(e, 4)] = Store(<<"front", h.block[h.visit[e]]>>, IndexOf(h, h.visit[e], e + 1))
  <2>1. CASE e = g
    <3>1. t2 \in DOMAIN R2 /\ R2[t2] = x BY <1>8 DEF FrontJoined
    <3>2. h.visit[e] = h.front /\ e + 1 = h.got + 2 BY <1>3, <1>4, <2>1
    <3> QED BY <1>6, <1>7, <2>1, <3>1, <3>2
  <2>2. CASE e # g
    <3>0. e \in (h.rel + 1)..h.got BY <1>3, <1>4, <2>2
    <3>1. Tag(e, 4) \in DOMAIN h.R /\ h.R[Tag(e, 4)] # Fence BY <3>0, FrontNotFence
    <3>2. Tag(e, 4) \in DOMAIN R2 /\ R2[Tag(e, 4)] = h.R[Tag(e, 4)] BY <1>8, <3>1 DEF FrontJoined
    <3>3. h.R[Tag(e, 4)] = Store(<<"front", h.block[h.visit[e]]>>, IndexOf(h, h.visit[e], e + 1))
      BY <3>0 DEF PendingFronts
    <3> QED BY <3>2, <3>3
  <2> QED BY <2>1, <2>2
<1>15. ASSUME NEW v \in (h.freed + 1)..h.front
       PROVE  Tag(h.first[v], 2) \in DOMAIN R2 /\ R2[Tag(h.first[v], 2)] = Store(<<"frontBlock">>, h.block[v])
  <2>1. Tag(h.first[v], 2) \in DOMAIN h.R /\ h.R[Tag(h.first[v], 2)] # Fence BY FrontNotFence
  <2>2. Tag(h.first[v], 2) \in DOMAIN R2 /\ R2[Tag(h.first[v], 2)] = h.R[Tag(h.first[v], 2)]
    BY <1>8, <2>1 DEF FrontJoined
  <2>3. h.R[Tag(h.first[v], 2)] = Store(<<"frontBlock">>, h.block[v]) BY DEF PendingFronts
  <2> QED BY <2>2, <2>3
<1>16. \A t \in DOMAIN h2.R : t < Tag(h2.got + 1, 1) BY <1>1, <1>5, <1>13
<1> QED BY <1>1, <1>2, <1>5, <1>11, <1>12, <1>14, <1>15, <1>16 DEF PendingFronts

\* One element is taken.
Taken(h, h2) == h2.sent = h.sent /\ h2.got = h.got + 1 /\ h2.pub = h.pub /\ h2.rel = h.rel

\* DequeueElement: the element read is the next one, and its slot is given back behind a
\* fence.
LEMMA ElementTakes ==
  ASSUME NEW h, NEW m, NEW bp, NEW bc, NEW F, NEW s, NEW mask, Whole(h, m, bp, bc, F, s, mask),
         NEW call \in CallSet, ConsumerCall(h, call),
         call.pc = "element", call.op # "peek", NEW b, b = call.block, NEW i, i = call.index,
         NEW issued, FenceThen(issued, Store(<<"front", b>>, (i + 1) % (mask[b] + 1))),
         NEW x, x = View(bc, m)[<<"data", b, i>>], NEW call2, TakenCall(call, call2, x)
  PROVE  \E h2 : Whole(h2, m, bp, Issue(bc, issued), F, s, mask) /\ Taken(h, h2) /\ ProducerKept(h, h2) /\ call2 \in CallSet /\ ConsumerCall(h2, call2)
<1>1. Shape(h) /\ PendingFronts(h) /\ Fits(h) /\ Sizing(h, s, mask) /\ Holds(bp, h.S) /\ Holds(bc, h.R)
      /\ m \in [Locations -> Nat] /\ bp \in Seq(StoreSet) /\ bc \in Seq(StoreSet) /\ F \in [Blocks -> Nat]
        BY WholeParts
<1>2. /\ h.got < h.pub /\ b = h.block[h.visit[h.got + 1]] /\ i = IndexOf(h, h.visit[h.got + 1], h.got + 1)
      /\ h.visit[h.got + 1] = h.front /\ h.got + 1 < h.lt /\ call.start <= h.pub /\ call.op \in {"try_dequeue", "peek"}
  BY DEF ConsumerCall
<1>3. TakeOk(h) BY <1>2 DEF TakeOk
<1>4. b = h.block[h.front] /\ i = IndexOf(h, h.front, h.got + 1) BY <1>2
<1>5. h.front \in h.freed..h.tail /\ h.front \in 1..LastVisit(h) BY <1>1, FrontVisit
<1>6. h.got \in Nat BY <1>1, ShapeFacts
<1>7. PICK j : j = IndexOf(h, h.front, h.got + 2) OBVIOUS
<1>8. (i + 1) % (mask[b] + 1) = j
  <2>1. mask[b] + 1 = h.room[h.front] BY <1>1, <1>4, <1>5 DEF Sizing
  <2>2. PICK g \in Int : g = h.got + 1 BY <1>6
  <2>3. (IndexOf(h, h.front, g) + 1) % h.room[h.front] = IndexOf(h, h.front, g + 1)
    BY <1>1, <1>5, IndexNext
  <2>4. g + 1 = h.got + 2 BY <1>6, <2>2
  <2> QED BY <1>4, <1>7, <2>1, <2>2, <2>3, <2>4
<1>9. b \in Blocks /\ j \in Nat /\ <<"front", b>> \in Locations
  <2>1. PICK g \in Int : g = h.got + 2 BY <1>6
  <2>2. h.block[h.front] \in Blocks /\ IndexOf(h, h.front, g) \in Nat /\ <<"front", h.block[h.front]>> \in Locations
    BY <1>1, <1>5, TailPlace
  <2> QED BY <1>4, <1>7, <2>1, <2>2
<1>10. PICK l \in Locations : l = <<"front", b>> BY <1>9
<1>11. PICK y : y = Store(l, j) OBVIOUS
<1>12. y \in StoreSet /\ y # Fence BY <1>9, <1>11, StoreSetHas
<1>13. FenceThen(issued, y) BY <1>8, <1>10, <1>11
<1>14. PICK t1, t2 : t1 = Tag(h.got + 1, 3) /\ t2 = Tag(h.got + 1, 4) OBVIOUS
<1>15. After2(h.R, t1, t2) BY <1>1, <1>14, TakeAfter
<1>16. PICK R2 : Holds(Issue(bc, issued), R2) /\ FrontJoined(h.R, R2, t1, t2, y)
  BY <1>1, <1>12, <1>13, <1>15, FenceIssue
<1>17. PICK h2 : TakenTo(h, h2, R2) BY TakenExists
<1>18. Shape(h2) /\ OthersOwn(h, h2) BY <1>1, <1>3, <1>17, TakeShape
<1>19. PendingFronts(h2)
  <2>1. FrontJoined(h.R, R2, Tag(h.got + 1, 3), Tag(h.got + 1, 4), Store(<<"front", h.block[h.front]>>, IndexOf(h, h.front, h.got + 2)))
    BY <1>4, <1>7, <1>10, <1>11, <1>14, <1>16
  <2>2. h.visit[h.got + 1] = h.front BY <1>2
  <2> QED BY <1>1, <1>3, <1>17, <2>1, <2>2, TakeFronts
<1>20. SameButTaken(h, h2) /\ h2.front = h.front /\ h2.got = h.got + 1 /\ h2.lt = h.lt /\ h2.R = R2
  BY <1>17 DEF TakenTo
<1>21. issued \in Seq(StoreSet)
  <2>1. Fence \in StoreSet BY StoreSetHas
  <2> QED BY <1>12, <1>13, <2>1 DEF FenceThen
<1>22. Issue(bc, issued) \in Seq(StoreSet) BY <1>1, <1>21, IssueType
<1>23. ASSUME NEW k \in Locations PROVE FenceSeen(View(bc, m), View(Issue(bc, issued), m), l, j, k)
  <2>1. FenceThen(issued, Store(l, j)) BY <1>11, <1>13
  <2> QED BY <1>1, <1>9, <2>1, FenceView
<1>24. FrontsMoved(h, h2, View(bc, m), View(Issue(bc, issued), m))
  <2>1. View(Issue(bc, issued), m)[<<"frontBlock">>] = h.block[h2.front]
    <3>1. View(bc, m)[<<"frontBlock">>] = h.block[h.front] BY DEF Whole, World, Views, FrontViews
    <3>2. <<"frontBlock">> \in Locations /\ <<"frontBlock">> # l BY <1>10, PlacesOf, PlacesDiffer
    <3> QED BY <1>20, <1>23, <3>1, <3>2 DEF FenceSeen
  <2>2. ASSUME NEW a \in Blocks
        PROVE View(Issue(bc, issued), m)[<<"front", a>>] = IF a = h.block[h2.front] THEN IndexOf(h, h2.front, h2.got + 1) ELSE View(bc, m)[<<"front", a>>]
    <3>1. <<"front", a>> \in Locations /\ (<<"front", a>> = l <=> a = b) BY <1>10, PlacesOf, Places
    <3>2. View(Issue(bc, issued), m)[<<"front", a>>] = IF a = b THEN j ELSE View(bc, m)[<<"front", a>>]
      BY <1>23, <3>1 DEF FenceSeen
    <3>3. h2.got + 1 = h.got + 2 BY <1>6, <1>20
    <3> QED BY <1>4, <1>7, <1>20, <3>2, <3>3
  <2> QED BY <2>1, <2>2 DEF FrontsMoved
<1>25. SameExceptShadow(View(bp, m), View(bp, m)) /\ SameExceptShadow(m, m) BY DEF SameExceptShadow
<1>26. m[<<"localTail", h.block[h2.front]>>] = IndexOf(h, h2.front, h2.lt)
  <2>1. ShadowViews(h, m, F) BY DEF Whole, World, Views
  <2> QED BY <1>20, <2>1 DEF ShadowViews
<1>27. h.got <= h2.got BY <1>6, <1>20
<1>28. World(h, m, View(bp, m), View(bc, m), F, s, mask) BY DEF Whole
<1>29. World(h2, m, View(bp, m), View(Issue(bc, issued), m), F, s, mask)
  BY <1>18, <1>19, <1>20, <1>24, <1>25, <1>26, <1>27, <1>28, TakenWorld
<1>30. h2.S = h.S BY <1>20 DEF SameButTaken
<1>31. Whole(h2, m, bp, Issue(bc, issued), F, s, mask)
  BY <1>1, <1>16, <1>20, <1>22, <1>29, <1>30 DEF Whole
<1>32. Taken(h, h2) BY <1>20 DEF Taken, SameButTaken
<1>33. ProducerKept(h, h2) BY <1>20, TakenProducer
<1>34. call2 \in CallSet /\ ConsumerCall(h2, call2)
  <2>1. call2 \in CallSet /\ call2.pc = "done" /\ call2.op = call.op /\ call2.ok = TRUE /\ call2.start = call.start
    BY DEF TakenCall, CallIs
  <2>2. call2.op = "try_dequeue" /\ call2.start <= h2.pub BY <1>2, <1>20, <2>1 DEF SameButTaken
  <2>3. ConsumerCall(h2, call2) BY <2>1, <2>2 DEF ConsumerCall
  <2> QED BY <2>1, <2>3
<1> QED BY <1>31, <1>32, <1>33, <1>34

-----------------------------------------------------------------------------
(* size_approx walks round the circle.                                     *)

\* The visits at the ends of the circle are linked.
LEMMA EndsLinked ==
  ASSUME NEW h, Shape(h), Pend(h)
  PROVE  /\ Linked(h, h.front) /\ Linked(h, h.freed)
         /\ \A v \in (h.tail + 1)..LastVisit(h) : Linked(h, v)
<1>1. /\ h.freed \in Nat /\ h.front \in Nat /\ h.shown \in Nat /\ h.tail \in Nat /\ LastVisit(h) \in Nat /\ 1 <= h.freed
      /\ h.freed <= h.front /\ h.front <= h.shown /\ h.shown <= h.tail /\ h.tail <= LastVisit(h)
        BY ShapeFacts
<1>2. h.front \in 1..h.tail /\ h.freed \in 1..h.tail /\ h.freed <= h.shown BY <1>1
<1>3. Linked(h, h.front) /\ Linked(h, h.freed)
  <2>1. Linked(h, h.front) BY <1>1, <1>2, ShownVisit
  <2>2. Linked(h, h.freed) BY <1>2, ShownVisit
  <2> QED BY <2>1, <2>2
<1>4. ASSUME NEW v \in (h.tail + 1)..LastVisit(h) PROVE Linked(h, v)
  <2>1. h.grown \subseteq 2..h.tail BY DEF Shape, Circular
  <2>2. v \notin h.grown BY <1>1, <2>1
  <2> QED BY <2>2 DEF Linked
<1> QED BY <1>3, <1>4

\* size_approx begins at the front block.
LEMMA SizeFirst ==
  ASSUME NEW h, NEW m, NEW bp, NEW bc, NEW F, NEW s, NEW mask, Whole(h, m, bp, bc, F, s, mask),
         NEW call \in CallSet, ConsumerCall(h, call),
         call.pc = "size", NEW b, b = View(bc, m)[<<"frontBlock">>], NEW call2, SetPcWalk(call, call2, "block", b, b)
  PROVE  call2 \in CallSet /\ ConsumerCall(h, call2)
<1>1. Shape(h) /\ Pend(h) BY WholeParts
<1>2. b = h.block[h.front] BY DEF Whole, World, Views, FrontViews
<1>3. call.op = "size_approx" /\ call.start <= h.pub /\ call.sum = 0 BY DEF ConsumerCall
<1>4. h.front \in 1..LastVisit(h) /\ h.front \in h.freed..LastVisit(h) /\ h.front \in h.freed..h.tail
  BY <1>1, FrontVisit
<1>5. b \in Nat
  <2>1. b \in 1..h.n BY <1>1, <1>2, <1>4, BlockType
  <2>2. h.n \in Nat BY <1>1, ShapeFacts
  <2> QED BY <2>1, <2>2
<1>6. "block" \in Pcs BY DEF Pcs
<1>7. CallIs(call2, "block", call.op, call.ok, call.start, b, call.index, call.sum, b)
  BY <1>5, <1>6, CallPcWalk
<1>8. /\ call2 \in CallSet /\ call2.pc = "block" /\ call2.op = "size_approx" /\ call2.start = call.start /\ call2.block = b
      /\ call2.sum = 0 /\ call2.first = b BY <1>3, <1>7 DEF CallIs
<1>9. Walk(h, call2, h.front)
  <2>1. h.got \in Nat /\ h.pub \in Nat /\ h.sent \in Nat /\ h.got <= h.pub /\ h.pub <= h.sent /\ h.front \in Nat /\ h.tail \in Nat
    BY <1>1, ShapeFacts
  <2>2. call2.sum + h.got <= h.sent BY <1>8, <2>1
  <2>3. Linked(h, h.front) BY <1>1, EndsLinked
  <2>4. ~ (h.front < h.front \/ h.front > h.tail) BY <1>4, <2>1
  <2> QED BY <1>2, <1>4, <1>8, <2>2, <2>3, <2>4 DEF Walk
<1>10. ConsumerCall(h, call2) BY <1>2, <1>3, <1>4, <1>8, <1>9 DEF ConsumerCall
<1> QED BY <1>8, <1>10

\* What size_approx adds for a block.
Counted(h, q, d) ==
  /\ d \in Nat
  /\ q <= h.tail => d = MemTail(h, q) - OwnFront(h, q)
  /\ q > h.tail => d = 0

\* What size_approx computes for a block, from the tail in memory and the consumer's own
\* front, is how far the tail is ahead of what was taken; for a free block it is 0.
LEMMA SizeCounts ==
  ASSUME NEW h, NEW m, NEW bp, NEW bc, NEW F, NEW s, NEW mask, Whole(h, m, bp, bc, F, s, mask),
         NEW q \in h.freed..LastVisit(h), NEW b, b = h.block[q],
         NEW d, d = (View(bc, m)[<<"tail", b>>] - View(bc, m)[<<"front", b>>]) % (mask[b] + 1)
  PROVE  Counted(h, q, d)
<1>1. Shape(h) /\ Fits(h) /\ Sizing(h, s, mask) BY WholeParts
<1>2. /\ h.freed \in Nat /\ h.tail \in Nat /\ LastVisit(h) \in Nat /\ 1 <= h.freed /\ h.tail <= LastVisit(h)
  BY <1>1, ShapeFacts
<1>3. q \in 1..LastVisit(h) /\ q \in Nat BY <1>2
<1>4. b \in Blocks BY <1>1, <1>3, BlockFits
<1>5. h.room[q] = mask[b] + 1 BY <1>1, <1>3 DEF Sizing
<1>6. View(bc, m)[<<"tail", b>>] = m[<<"tail", b>>]
  <2>1. SeesMemory(m, View(bc, m)) BY ConsumerSees
  <2> QED BY <1>4, <2>1 DEF SeesMemory
<1>7. CASE q <= h.tail
  <2>1. q \in h.freed..h.tail BY <1>2, <1>3, <1>7
  <2>2. Ordered(h, q) BY <1>1, <2>1, OrderedVisits
  <2>3. PICK x : x = MemTail(h, q) OBVIOUS
  <2>4. PICK y : y = OwnFront(h, q) OBVIOUS
  <2>5. x \in Nat /\ y \in Nat /\ MemFront(h, q) <= y /\ y <= x /\ x <= h.first[q + 1]
    BY <2>2, <2>3, <2>4 DEF Ordered
  <2>6. x \in Int /\ y \in Int BY <2>5
  <2>7. (IndexOf(h, q, x) - IndexOf(h, q, y)) % h.room[q] = x - y
    BY <1>1, <2>1, <2>5, <2>6, IndexDiff
  <2>8. TailViews(h, m, View(bp, m)) /\ FrontViews(h, m, View(bc, m)) BY DEF Whole, World, Views
  <2>9. m[<<"tail", b>>] = IndexOf(h, q, x) BY <2>1, <2>3, <2>8 DEF TailViews
  <2>10. View(bc, m)[<<"front", b>>] = IndexOf(h, q, y) BY <2>1, <2>4, <2>8 DEF FrontViews
  <2>11. d = x - y BY <1>5, <1>6, <2>7, <2>9, <2>10
  <2>12. d \in Nat BY <2>5, <2>11
  <2> QED BY <1>2, <1>3, <1>7, <2>3, <2>4, <2>11, <2>12 DEF Counted
<1>8. CASE q > h.tail
  <2>1. q \in (h.tail + 1)..LastVisit(h) BY <1>2, <1>3, <1>8
  <2>2. FreeViews(h, m, View(bp, m), View(bc, m), F) BY DEF Whole, World, Views
  <2>3. PICK x : x = m[<<"tail", b>>] OBVIOUS
  <2>4. x \in 0..(h.room[q] - 1) /\ View(bc, m)[<<"front", b>>] = x
    BY <2>1, <2>2, <2>3 DEF FreeViews
  <2>5. h.room[q] \in Nat /\ h.room[q] > h.unit BY <1>1, <1>3 DEF Shape, Circular
  <2>6. h.unit \in Nat BY <1>1, ShapeFacts
  <2>7. PICK r : r = h.room[q] OBVIOUS
  <2>8. r \in Nat /\ r > 0 /\ x \in Int BY <2>4, <2>5, <2>6, <2>7
  <2>9. 0 % r = 0
    <3>1. 0 \in 0..(r - 1) /\ 0 \in Int /\ 0 = r * 0 + 0 BY <2>8
    <3> QED BY <2>8, <3>1, DivMod2
  <2>10. x - x = 0 BY <2>8
  <2>11. d = (x - x) % r BY <1>5, <1>6, <2>3, <2>4, <2>7
  <2>12. d = 0 BY <2>9, <2>10, <2>11
  <2> QED BY <1>2, <1>3, <1>8, <2>12 DEF Counted
<1> QED BY <1>2, <1>3, <1>7, <1>8

\* Where a walk has got to after the block of visit q was counted.
Passed(h, call, sum, q) ==
  /\ sum + h.got <= h.sent
  /\ q < h.front \/ q > h.tail => call.start <= sum + h.got
  /\ q \in h.front..h.tail => /\ sum + h.got < h.first[q + 1]
                              /\ call.start <= sum + h.got \/ (q < h.shown /\ sum + h.got = h.first[q + 1] - 1)

\* The count of a walk with a block's elements added lies between what has been in the
\* queue all along and what was ever in it.
LEMMA SizePasses ==
  ASSUME NEW h, Shape(h), NEW call \in CallSet, call.start <= h.pub, call.pc = "block", NEW q,
         Walk(h, call, q), NEW d, Counted(h, q, d)
  PROVE  Passed(h, call, call.sum + d, q)
<1>1. /\ h.freed \in Nat /\ h.front \in Nat /\ h.shown \in Nat /\ h.tail \in Nat /\ LastVisit(h) \in Nat /\ 1 <= h.freed
      /\ h.freed <= h.front /\ h.front <= h.shown /\ h.shown <= h.tail /\ h.tail <= LastVisit(h)
        BY ShapeFacts
<1>2. h.got \in Nat /\ h.pub \in Nat /\ h.sent \in Nat /\ h.got <= h.pub /\ h.pub <= h.sent
  BY ShapeFacts
<1>3. call.start \in Nat /\ call.sum \in Nat BY CallTypes
<1>4. q \in h.freed..LastVisit(h) /\ q \in Nat BY <1>1 DEF Walk
<1>5. d \in Nat BY DEF Counted
<1>6. call.sum + h.got <= h.sent /\ (q < h.front \/ q > h.tail => call.start <= call.sum + h.got)
  BY DEF Walk
<1>7. CASE q > h.tail
  <2>1. d = 0 BY <1>7 DEF Counted
  <2>2. call.sum + d = call.sum BY <1>3, <2>1
  <2>3. q \notin h.front..h.tail BY <1>1, <1>4, <1>7
  <2> QED BY <1>6, <1>7, <2>2, <2>3 DEF Passed
<1>8. CASE q < h.front
  <2>1. d = MemTail(h, q) - OwnFront(h, q) BY <1>1, <1>4, <1>8 DEF Counted
  <2>2. OwnFront(h, q) = h.first[q + 1] BY <1>8 DEF OwnFront
  <2>3. q < h.shown BY <1>1, <1>4, <1>8
  <2>4. MemTail(h, q) = h.first[q + 1] BY <2>3 DEF MemTail
  <2>5. q + 1 \in 1..(h.tail + 1) BY <1>1, <1>4, <1>8
  <2>6. h.first[q + 1] \in Nat BY <2>5, FirstType
  <2>7. call.sum + d = call.sum BY <1>3, <2>1, <2>2, <2>4, <2>6
  <2>8. q \notin h.front..h.tail BY <1>1, <1>4, <1>8
  <2> QED BY <1>6, <1>8, <2>7, <2>8 DEF Passed
<1>9. CASE q \in h.front..h.tail
  <2>1. q \in h.freed..h.tail /\ q \in 1..(h.tail + 1) /\ q + 1 \in 1..(h.tail + 1) /\ h.tail + 1 \in 1..(h.tail + 1) /\ q + 1 <= h.tail + 1
    BY <1>1, <1>4, <1>9
  <2>2. PICK T : T = MemTail(h, q) OBVIOUS
  <2>3. Ordered(h, q) BY <2>1, OrderedVisits
  <2>4. T \in Nat /\ T <= h.first[q + 1] /\ h.first[q] \in Nat /\ h.first[q + 1] \in Nat /\ OwnFront(h, q) <= T
    BY <2>2, <2>3 DEF Ordered
  <2>5. h.first[q + 1] <= h.sent + 1
    <3>1. h.first[q + 1] <= h.first[h.tail + 1] BY <2>1, FirstMonotone
    <3>2. h.first[h.tail + 1] = h.sent + 1 BY DEF Shape, Visits
    <3> QED BY <3>1, <3>2
  <2>6. d = T - OwnFront(h, q) BY <1>1, <1>9, <2>2 DEF Counted
  <2>7. call.start <= T - 1 \/ (q < h.shown /\ T = h.first[q + 1])
    <3>1. CASE q < h.shown BY <2>2, <3>1 DEF MemTail
    <3>2. CASE q = h.shown
      <4>1. T = h.pub + 1 BY <1>1, <2>2, <3>2 DEF MemTail
      <4> QED BY <1>2, <1>3, <4>1
    <3>3. CASE q > h.shown
      <4>1. h.shown + 1 \in 1..(h.tail + 1) /\ h.shown + 1 <= q BY <1>1, <1>4, <3>3, <2>1
      <4>2. h.first[h.shown + 1] <= h.first[q] BY <2>1, <4>1, FirstMonotone
      <4>3. h.first[h.shown + 1] \in Nat BY <4>1, FirstType
      <4>4. h.pub + 1 <= h.first[h.shown + 1] BY DEF Shape, Positions
      <4>5. OwnFront(h, q) = h.first[q] BY <1>1, <1>4, <3>3 DEF OwnFront
      <4> QED BY <1>2, <1>3, <2>4, <4>2, <4>3, <4>4, <4>5
    <3> QED BY <1>1, <1>4, <3>1, <3>2, <3>3
  <2>8. PICK z : z = call.sum + d + h.got OBVIOUS
  <2>9. CASE q = h.front
    <3>1. call.sum = 0 BY <1>1, <1>9, <2>9 DEF Walk
    <3>2. OwnFront(h, q) = h.got + 1 BY <1>1, <2>9 DEF OwnFront
    <3>3. z = T - 1 BY <1>2, <1>3, <2>4, <2>6, <2>8, <3>1, <3>2
    <3>4. z < h.first[q + 1] /\ z <= h.sent BY <1>2, <2>4, <2>5, <3>3
    <3>5. call.start <= z \/ (q < h.shown /\ z = h.first[q + 1] - 1) BY <2>7, <3>3
    <3>6. ~ (q < h.front \/ q > h.tail) BY <1>1, <1>4, <1>9
    <3> QED BY <2>8, <3>4, <3>5, <3>6 DEF Passed
  <2>10. CASE q # h.front
    <3>1. call.sum + h.got < h.first[q] /\ (call.start <= call.sum + h.got \/ call.sum + h.got = h.first[q] - 1)
      BY <1>9, <2>10 DEF Walk
    <3>2. OwnFront(h, q) = h.first[q] BY <1>1, <1>4, <1>9, <2>10 DEF OwnFront
    <3>3. z = call.sum + h.got + (T - h.first[q]) BY <1>2, <1>3, <1>5, <2>4, <2>6, <2>8, <3>2
    <3>4. z < h.first[q + 1] /\ z <= h.sent BY <1>2, <1>3, <2>4, <2>5, <3>1, <3>3
    <3>5. call.start <= z \/ (q < h.shown /\ z = h.first[q + 1] - 1)
      <4>1. CASE call.start <= call.sum + h.got BY <1>2, <1>3, <2>4, <3>2, <3>3, <4>1
      <4>2. CASE call.sum + h.got = h.first[q] - 1
        <5>1. z = T - 1 BY <1>2, <1>3, <2>4, <3>3, <4>2
        <5> QED BY <2>7, <5>1
      <4> QED BY <3>1, <4>1, <4>2
    <3>6. ~ (q < h.front \/ q > h.tail) BY <1>1, <1>4, <1>9
    <3> QED BY <2>8, <3>4, <3>5, <3>6 DEF Passed
  <2> QED BY <2>9, <2>10
<1> QED BY <1>1, <1>4, <1>7, <1>8, <1>9

\* size_approx counts a block.
LEMMA SizeBlock ==
  ASSUME NEW h, NEW m, NEW bp, NEW bc, NEW F, NEW s, NEW mask, Whole(h, m, bp, bc, F, s, mask),
         NEW call \in CallSet, ConsumerCall(h, call),
         call.pc = "block", NEW b, b = call.block, NEW d, d = (View(bc, m)[<<"tail", b>>] - View(bc, m)[<<"front", b>>]) % (mask[b] + 1),
         NEW call2, SetPcSum(call, call2, "blockNext", call.sum + d)
  PROVE  call2 \in CallSet /\ ConsumerCall(h, call2)
<1>1. Shape(h) BY WholeParts
<1>2. call.op = "size_approx" /\ call.start <= h.pub /\ call.first = h.block[h.front]
  BY DEF ConsumerCall
<1>3. PICK q \in h.freed..LastVisit(h) : Walk(h, call, q) BY DEF ConsumerCall
<1>4. b = h.block[q] /\ Linked(h, q) BY <1>3 DEF Walk
<1>5. Counted(h, q, d) BY <1>4, SizeCounts
<1>6. PICK sum : sum = call.sum + d OBVIOUS
<1>7. Passed(h, call, sum, q)
  <2>1. Passed(h, call, call.sum + d, q) BY <1>1, <1>2, <1>3, <1>5, SizePasses
  <2> QED BY <1>6, <2>1
<1>8. sum \in Nat
  <2>1. d \in Nat BY <1>5 DEF Counted
  <2>2. call.sum \in Nat BY CallTypes
  <2> QED BY <1>6, <2>1, <2>2
<1>9. "blockNext" \in Pcs BY DEF Pcs
<1>10. SetPcSum(call, call2, "blockNext", sum) BY <1>6
<1>11. CallIs(call2, "blockNext", call.op, call.ok, call.start, call.block, call.index, sum, call.first)
  BY <1>8, <1>9, <1>10, CallPcSum
<1>12. /\ call2 \in CallSet /\ call2.pc = "blockNext" /\ call2.op = call.op /\ call2.start = call.start /\ call2.block = call.block
       /\ call2.sum = sum /\ call2.first = call.first BY <1>11 DEF CallIs
<1>13. Walk(h, call2, q) BY <1>3, <1>4, <1>7, <1>12 DEF Walk, Passed
<1>14. ConsumerCall(h, call2) BY <1>2, <1>3, <1>12, <1>13 DEF ConsumerCall
<1> QED BY <1>12, <1>14

\* The next pointer size_approx reads.
LEMMA WalkLink ==
  ASSUME NEW h, Shape(h), Pend(h), NEW m, NEW P, NextViews(h, m, P),
         NEW q \in h.freed..LastVisit(h), Linked(h, q)
  PROVE  Link(h, q, m[<<"next", h.block[q]>>])
<1>1. /\ h.freed \in Nat /\ h.tail \in Nat /\ LastVisit(h) \in Nat /\ 1 <= h.freed /\ h.tail <= LastVisit(h)
  BY ShapeFacts
<1>2. ASSUME q <= h.tail, Tag(h.first[q], 4) \in DOMAIN h.S PROVE FALSE
  <2>1. q \in 1..h.tail BY <1>1, <1>2
  <2>2. PICK e : e = h.first[q] OBVIOUS
  <2>3. e \in (h.pub + 1)..h.sent /\ Begins(h, e) /\ h.visit[e] = q /\ q \in h.grown
    BY <1>2, <2>1, <2>2, OpenVisit
  <2>4. Kinds(h, e) = 1..7 BY <2>3 DEF Kinds
  <2>5. Tag(e, 5) \notin DOMAIN h.S BY <2>2, <2>3 DEF Linked
  <2>6. 4 \in Kinds(h, e) \cap {3, 4, 5, 7} /\ 5 \in Kinds(h, e) \cap {3, 4, 5, 7} BY <2>4
  <2>7. h.pub \in Nat /\ h.sent \in Nat BY ShapeFacts
  <2>8. Tag(e, 4) < Tag(e, 5) BY <2>3, <2>7 DEF Tag
  <2>9. Tag(e, 4) \in DOMAIN h.S BY <1>2, <2>2
  <2>10. PendingTags(h) BY DEF Pend
  <2>11. Tag(e, 5) \in DOMAIN h.S BY <2>3, <2>6, <2>8, <2>9, <2>10 DEF PendingTags
  <2> QED BY <2>5, <2>11
<1> QED BY <1>2 DEF NextViews

\* Where the walk may go on: at visit q2.
Onward(h, call, q2) ==
  /\ q2 \in h.freed..LastVisit(h) /\ Linked(h, q2)
  /\ q2 \in (h.front + 1)..h.tail => call.sum + h.got < h.first[q2]
  /\ call.start <= call.sum + h.got \/ (q2 \in (h.front + 1)..h.tail /\ call.sum + h.got = h.first[q2] - 1)

\* The walk goes on to the next block: along a link, or along a stale one to the front
\* block or to a free block, having missed only elements that were enqueued during the
\* call.
LEMMA WalkOn ==
  ASSUME NEW h, Shape(h), Pend(h), NEW call \in CallSet, NEW q, Passed(h, call, call.sum, q),
         q \in h.freed..LastVisit(h), NEW x, Link(h, q, x)
  PROVE  \E q2 : x = h.block[q2] /\ Onward(h, call, q2)
<1>1. /\ h.freed \in Nat /\ h.front \in Nat /\ h.shown \in Nat /\ h.tail \in Nat /\ LastVisit(h) \in Nat /\ 1 <= h.freed
      /\ h.freed <= h.front /\ h.front <= h.shown /\ h.shown <= h.tail /\ h.tail <= LastVisit(h)
        BY ShapeFacts
<1>2. h.got \in Nat BY ShapeFacts
<1>3. call.start \in Nat /\ call.sum \in Nat BY CallTypes
<1>4. q \in Nat BY <1>1
<1>5. CASE q < h.tail /\ Tag(h.first[q + 1], 5) \in DOMAIN h.S
  <2>1. q + 1 \in 1..h.tail BY <1>1, <1>4, <1>5
  <2>2. q + 1 > h.shown BY <1>5, <2>1, OpenVisit
  <2>3. q \in h.front..h.tail /\ ~ (q < h.shown) BY <1>1, <1>4, <1>5, <2>2
  <2>4. call.sum + h.got < h.first[q + 1] /\ call.start <= call.sum + h.got BY <2>3 DEF Passed
  <2>5. Stale(h, q, x) BY <1>5 DEF Link
  <2>6. PICK w \in h.freed..LastVisit(h) : x = h.block[w] /\ (w = h.freed \/ w > q + 1) /\ Linked(h, w)
    BY <2>5 DEF Stale
  <2>7. ASSUME w \in (h.front + 1)..h.tail PROVE call.sum + h.got < h.first[w]
    <3>1. w # h.freed BY <1>1, <2>7
    <3>2. w \in 1..(h.tail + 1) /\ q + 1 \in 1..(h.tail + 1) /\ q + 1 <= w
      BY <1>1, <1>4, <1>5, <2>6, <2>7, <3>1
    <3>3. h.first[q + 1] <= h.first[w] BY <3>2, FirstMonotone
    <3>4. h.first[q + 1] \in Nat /\ h.first[w] \in Nat BY <3>2, FirstType
    <3> QED BY <1>2, <1>3, <2>4, <3>3, <3>4
  <2>8. Onward(h, call, w) BY <2>4, <2>6, <2>7 DEF Onward
  <2> QED BY <2>6, <2>8
<1>6. CASE ~ (q < h.tail /\ Tag(h.first[q + 1], 5) \in DOMAIN h.S)
  <2>1. x = NextOf(h, q) BY <1>6 DEF Link
  <2>2. CASE q = LastVisit(h)
    <3>1. x = h.block[h.freed] BY <2>1, <2>2 DEF NextOf
    <3>2. Linked(h, h.freed) BY EndsLinked
    <3>3. h.freed \in h.freed..LastVisit(h) /\ h.freed \notin (h.front + 1)..h.tail BY <1>1
    <3>4. call.start <= call.sum + h.got
      <4>1. CASE q = h.tail
        <5>1. q \in h.front..h.tail /\ ~ (q < h.shown) BY <1>1, <4>1
        <5> QED BY <5>1 DEF Passed
      <4>2. CASE q # h.tail
        <5>1. q > h.tail BY <1>1, <2>2, <4>2
        <5> QED BY <5>1 DEF Passed
      <4> QED BY <4>1, <4>2
    <3>5. Onward(h, call, h.freed) BY <3>2, <3>3, <3>4 DEF Onward
    <3> QED BY <3>1, <3>5
  <2>3. CASE q # LastVisit(h)
    <3>1. PICK w : w = q + 1 OBVIOUS
    <3>2. x = h.block[w] BY <2>1, <2>3, <3>1 DEF NextOf
    <3>3. w \in h.freed..LastVisit(h) BY <1>1, <1>4, <2>3, <3>1
    <3>4. Linked(h, w)
      <4>1. CASE q < h.tail BY <1>6, <3>1, <4>1 DEF Linked
      <4>2. CASE ~ (q < h.tail)
        <5>1. w \in (h.tail + 1)..LastVisit(h) BY <1>1, <1>4, <3>1, <3>3, <4>2
        <5> QED BY <5>1, EndsLinked
      <4> QED BY <4>1, <4>2
    <3>5. CASE w \in (h.front + 1)..h.tail
      <4>1. q \in h.front..h.tail BY <1>1, <1>4, <3>1, <3>5
      <4>2. call.sum + h.got < h.first[w] /\ (call.start <= call.sum + h.got \/ call.sum + h.got = h.first[w] - 1)
        BY <3>1, <4>1 DEF Passed
      <4>3. Onward(h, call, w) BY <3>3, <3>4, <3>5, <4>2 DEF Onward
      <4> QED BY <3>2, <4>3
    <3>6. CASE w \notin (h.front + 1)..h.tail
      <4>1. q < h.front \/ q > h.tail \/ q = h.tail BY <1>1, <1>4, <3>1, <3>6
      <4>2. call.start <= call.sum + h.got
        <5>1. CASE q = h.tail
          <6>1. q \in h.front..h.tail /\ ~ (q < h.shown) BY <1>1, <5>1
          <6> QED BY <6>1 DEF Passed
        <5>2. CASE q < h.front \/ q > h.tail BY <5>2 DEF Passed
        <5> QED BY <4>1, <5>1, <5>2
      <4>3. Onward(h, call, w) BY <3>3, <3>4, <3>6, <4>2 DEF Onward
      <4> QED BY <3>2, <4>3
    <3> QED BY <3>5, <3>6
  <2> QED BY <2>2, <2>3
<1> QED BY <1>5, <1>6

\* size_approx goes on to the next block, or is through.
LEMMA SizeNext ==
  ASSUME NEW h, NEW m, NEW bp, NEW bc, NEW F, NEW s, NEW mask, Whole(h, m, bp, bc, F, s, mask),
         NEW call \in CallSet, ConsumerCall(h, call),
         call.pc = "blockNext", NEW x, x = View(bc, m)[<<"next", call.block>>], NEW call2,
         IF x = call.first THEN SetPcEnd(call, call2, "done", TRUE, 0, 0) ELSE SetPcBlock(call, call2, "block", x)
  PROVE  call2 \in CallSet /\ ConsumerCall(h, call2)
<1>1. Shape(h) /\ Pend(h) /\ Fits(h) BY WholeParts
<1>2. call.op = "size_approx" /\ call.start <= h.pub /\ call.first = h.block[h.front]
  BY DEF ConsumerCall
<1>3. PICK q \in h.freed..LastVisit(h) : Walk(h, call, q) BY DEF ConsumerCall
<1>4. call.block = h.block[q] /\ Linked(h, q) BY <1>3 DEF Walk
<1>5. /\ h.freed \in Nat /\ h.front \in Nat /\ h.tail \in Nat /\ LastVisit(h) \in Nat /\ 1 <= h.freed
      /\ h.freed <= h.front /\ h.front <= h.tail /\ h.tail <= LastVisit(h)
        BY <1>1, FrontVisit, ShapeFacts
<1>6. h.got \in Nat /\ h.sent \in Nat /\ h.n \in Nat BY <1>1, ShapeFacts
<1>7. call.start \in Nat /\ call.sum \in Nat BY CallTypes
<1>8. x = m[<<"next", h.block[q]>>]
  <2>1. q \in 1..LastVisit(h) BY <1>5
  <2>2. call.block \in Blocks BY <1>1, <1>4, <2>1, BlockFits
  <2>3. SeesMemory(m, View(bc, m)) BY ConsumerSees
  <2>4. View(bc, m)[<<"next", call.block>>] = m[<<"next", call.block>>] BY <2>2, <2>3 DEF SeesMemory
  <2> QED BY <1>4, <2>4
<1>9. Link(h, q, x)
  <2>1. NextViews(h, m, View(bp, m)) BY DEF Whole, World, Views
  <2> QED BY <1>1, <1>4, <1>8, <2>1, WalkLink
<1>10. Passed(h, call, call.sum, q) BY <1>3 DEF Walk, Passed
<1>11. PICK q2 : x = h.block[q2] /\ Onward(h, call, q2) BY <1>1, <1>9, <1>10, WalkOn
<1>12. q2 \in h.freed..LastVisit(h) /\ q2 \in Nat /\ q2 \in 1..LastVisit(h)
  BY <1>5, <1>11 DEF Onward
<1>13. call.sum + h.got <= h.sent BY <1>10 DEF Passed
<1>14. CASE x = call.first
  <2>1. h.front \in h.freed..LastVisit(h) BY <1>5
  <2>2. q2 = h.front BY <1>1, <1>2, <1>11, <1>12, <1>14, <2>1, BlockInj
  <2>3. q2 \notin (h.front + 1)..h.tail BY <1>5, <2>2
  <2>4. call.start <= call.sum + h.got BY <1>11, <2>3 DEF Onward
  <2>5. SetPcEnd(call, call2, "done", TRUE, 0, 0) BY <1>14
  <2>6. "done" \in Pcs /\ TRUE \in BOOLEAN /\ 0 \in Nat BY DEF Pcs
  <2>7. CallIs(call2, "done", call.op, TRUE, call.start, 0, call.index, call.sum, 0)
    BY <2>5, <2>6, CallPcEnd
  <2>8. call2 \in CallSet /\ call2.pc = "done" /\ call2.op = call.op /\ call2.start = call.start /\ call2.ok = TRUE /\ call2.sum = call.sum
    BY <2>7 DEF CallIs
  <2>9. ConsumerCall(h, call2) BY <1>2, <1>13, <2>4, <2>8 DEF ConsumerCall
  <2> QED BY <2>8, <2>9
<1>15. CASE x # call.first
  <2>1. q2 # h.front BY <1>2, <1>11, <1>15
  <2>2. SetPcBlock(call, call2, "block", x) BY <1>15
  <2>3. x \in Nat
    <3>1. x \in 1..h.n BY <1>1, <1>11, <1>12, BlockType
    <3> QED BY <1>6, <3>1
  <2>4. "block" \in Pcs BY DEF Pcs
  <2>5. CallIs(call2, "block", call.op, call.ok, call.start, x, call.index, call.sum, call.first)
    BY <2>2, <2>3, <2>4, CallPcBlock
  <2>6. /\ call2 \in CallSet /\ call2.pc = "block" /\ call2.op = call.op /\ call2.start = call.start /\ call2.block = x
        /\ call2.sum = call.sum /\ call2.first = call.first BY <2>5 DEF CallIs
  <2>7. q2 < h.front \/ q2 > h.tail \/ q2 \in (h.front + 1)..h.tail BY <1>5, <1>12, <2>1
  <2>8. q2 < h.front \/ q2 > h.tail => q2 \notin (h.front + 1)..h.tail BY <1>5, <1>12
  <2>9. q2 < h.front \/ q2 > h.tail => call.start <= call.sum + h.got BY <1>11, <2>8 DEF Onward
  <2>10. q2 \in h.front..h.tail => q2 \in (h.front + 1)..h.tail BY <1>5, <1>12, <2>1
  <2>11. q2 \in h.front..h.tail => call.sum + h.got < h.first[q2] /\ (call.start <= call.sum + h.got \/ call.sum + h.got = h.first[q2] - 1)
    BY <1>11, <2>10 DEF Onward
  <2>12. Linked(h, q2) BY <1>11 DEF Onward
  <2>13. Walk(h, call2, q2) BY <1>11, <1>12, <1>13, <2>1, <2>6, <2>9, <2>11, <2>12 DEF Walk
  <2>14. ConsumerCall(h, call2) BY <1>2, <1>12, <2>6, <2>13 DEF ConsumerCall
  <2> QED BY <2>6, <2>14
<1> QED BY <1>14, <1>15

\* A thread between calls.
LEMMA IdleCall ==
  /\ CallIs(Idle, "idle", "none", FALSE, 0, 0, 0, 0, 0)
  /\ \A h : Shape(h) => ConsumerCall(h, Idle) /\ \A s : ProducerCall(h, Idle, s)
<1>1. CallIs(Idle, "idle", "none", FALSE, 0, 0, 0, 0, 0)
  <2>1. "idle" \in Pcs /\ "none" \in Ops /\ FALSE \in BOOLEAN /\ 0 \in Nat BY DEF Pcs, Ops
  <2>2. Idle \in CallSet BY <2>1 DEF Idle, CallSet
  <2>3. /\ Idle.pc = "idle" /\ Idle.op = "none" /\ Idle.ok = FALSE /\ Idle.start = 0
        /\ Idle.block = 0 /\ Idle.index = 0 /\ Idle.sum = 0 /\ Idle.first = 0 BY DEF Idle
  <2> QED BY <2>2, <2>3 DEF CallIs
<1>2. ASSUME NEW h, Shape(h) PROVE ConsumerCall(h, Idle) /\ \A s : ProducerCall(h, Idle, s)
  <2>1. h.pub \in Nat /\ h.rel \in Nat BY <1>2, ShapeFacts
  <2>2. Idle.pc = "idle" /\ Idle.start = 0 BY DEF Idle
  <2>3. Idle.start <= h.pub /\ Idle.start <= h.rel BY <2>1, <2>2
  <2>4. ConsumerCall(h, Idle) BY <2>2, <2>3 DEF ConsumerCall
  <2>5. ASSUME NEW s PROVE ProducerCall(h, Idle, s) BY <2>2, <2>3 DEF ProducerCall
  <2> QED BY <2>4, <2>5
<1> QED BY <1>1, <1>2

\* A call of Call.
LEMMA CallNew ==
  ASSUME NEW op \in Ops, NEW pc \in Pcs, NEW start \in Nat
  PROVE  CallIs(Call(op, pc, start), pc, op, FALSE, start, 0, 0, 0, 0)
<1>1. CallIs(Idle, "idle", "none", FALSE, 0, 0, 0, 0, 0) BY IdleCall
<1>2. /\ Idle \in CallSet /\ Idle.ok = FALSE /\ Idle.block = 0 /\ Idle.index = 0 /\ Idle.sum = 0 /\ Idle.first = 0
  BY <1>1 DEF CallIs
<1>3. PICK call2 : call2 = Call(op, pc, start) OBVIOUS
<1>4. SetPcCall(Idle, call2, op, pc, start) BY <1>3 DEF SetPcCall, Call
<1>5. CallIs(call2, pc, op, Idle.ok, start, Idle.block, Idle.index, Idle.sum, Idle.first)
  BY <1>2, <1>4, CallPcCall
<1> QED BY <1>2, <1>3, <1>5

\* A call of enqueue or try_enqueue begins with what was released,
LEMMA BeginEnqueue ==
  ASSUME NEW h, Shape(h), h.sent < MaxItems, NEW op \in {"enqueue", "try_enqueue"}, NEW s
  PROVE  Call(op, "enqueue", h.rel) \in CallSet /\ ProducerCall(h, Call(op, "enqueue", h.rel), s)
<1>1. op \in Ops /\ "enqueue" \in Pcs BY DEF Ops, Pcs
<1>2. h.rel \in Nat BY ShapeFacts
<1>3. PICK call : call = Call(op, "enqueue", h.rel) OBVIOUS
<1>4. CallIs(call, "enqueue", op, FALSE, h.rel, 0, 0, 0, 0) BY <1>1, <1>2, <1>3, CallNew
<1>5. call \in CallSet /\ call.pc = "enqueue" /\ call.start = h.rel BY <1>4 DEF CallIs
<1>6. ProducerCall(h, call, s) BY <1>2, <1>5 DEF ProducerCall
<1> QED BY <1>3, <1>5, <1>6

\* one of try_dequeue or peek with what was published,
LEMMA BeginDequeue ==
  ASSUME NEW h, Shape(h), NEW op \in {"try_dequeue", "peek"}
  PROVE  Call(op, "dequeue", h.pub) \in CallSet /\ ConsumerCall(h, Call(op, "dequeue", h.pub))
<1>1. op \in Ops /\ "dequeue" \in Pcs BY DEF Ops, Pcs
<1>2. h.pub \in Nat BY ShapeFacts
<1>3. PICK call : call = Call(op, "dequeue", h.pub) OBVIOUS
<1>4. CallIs(call, "dequeue", op, FALSE, h.pub, 0, 0, 0, 0) BY <1>1, <1>2, <1>3, CallNew
<1>5. call \in CallSet /\ call.pc = "dequeue" /\ call.start = h.pub /\ call.op = op
  BY <1>4 DEF CallIs
<1>6. call.start <= h.pub BY <1>2, <1>5
<1>7. ConsumerCall(h, call) BY <1>5, <1>6 DEF ConsumerCall
<1> QED BY <1>3, <1>5, <1>7

\* and so does one of size_approx.
LEMMA BeginSize ==
  ASSUME NEW h, Shape(h)
  PROVE  Call("size_approx", "size", h.pub) \in CallSet /\ ConsumerCall(h, Call("size_approx", "size", h.pub))
<1>1. "size_approx" \in Ops /\ "size" \in Pcs BY DEF Ops, Pcs
<1>2. h.pub \in Nat BY ShapeFacts
<1>3. PICK call : call = Call("size_approx", "size", h.pub) OBVIOUS
<1>4. CallIs(call, "size", "size_approx", FALSE, h.pub, 0, 0, 0, 0) BY <1>1, <1>2, <1>3, CallNew
<1>5. call \in CallSet /\ call.pc = "size" /\ call.start = h.pub /\ call.op = "size_approx" /\ call.sum = 0
  BY <1>4 DEF CallIs
<1>6. call.start <= h.pub BY <1>2, <1>5
<1>7. ConsumerCall(h, call) BY <1>5, <1>6 DEF ConsumerCall
<1> QED BY <1>3, <1>5, <1>7

-----------------------------------------------------------------------------
(* The actions of ReaderWriterQueue keep Core.                             *)

\* A step of one thread leaves the other's buffer alone.
LEMMA StoresWrite ==
  ASSUME NEW st \in [Threads -> Seq(StoreSet)], NEW buf \in Seq(StoreSet), NEW t \in Threads,
         NEW st2, st2 = [st EXCEPT ![t] = buf]
  PROVE  st2 \in [Threads -> Seq(StoreSet)] /\ st2[t] = buf /\ \A u \in Threads : u # t => st2[u] = st[u]
OBVIOUS

\* What a thread reads is its view.
LEMMA ReadsView ==
  ASSUME NEW l \in Locations
  PROVE  /\ ByProducer(l) = View(stores["producer"], mem)[l]
         /\ ByConsumer(l) = View(stores["consumer"], mem)[l]
BY DEF ByProducer, ByConsumer, View

\* The tail block and its fields exist.
TailThere(b, tl, nx, fr) ==
  /\ b \in Blocks /\ tl \in Nat /\ nx \in Nat /\ fr \in Nat
  /\ <<"tail", b>> \in Locations /\ <<"front", b>> \in Locations /\ <<"data", b, tl>> \in Locations

\* The places an enqueue into the tail block writes are in memory.
LEMMA TailExists ==
  ASSUME NEW h, NEW m, NEW bp, NEW bc, NEW F, NEW s, NEW mask, Whole(h, m, bp, bc, F, s, mask),
         NEW b, NEW tl, NEW nx, NEW fr,
         TailFound(h, m, View(bp, m), F, mask, b, tl, nx, fr)
  PROVE  TailThere(b, tl, nx, fr)
<1>1. World(h, m, View(bp, m), View(bc, m), F, s, mask) BY DEF Whole
<1>2. PICK lf : TailMeans(h, b, tl, nx, fr, lf) BY <1>1, TailLogic
<1>3. Shape(h) /\ Fits(h) BY WholeParts
<1>4. h.freed \in Nat /\ h.tail \in Nat /\ h.freed <= h.shown /\ h.shown <= h.tail /\ h.shown \in Nat /\ h.sent \in Nat
  BY <1>3, ShapeFacts
<1>5. h.tail \in h.freed..h.tail /\ h.sent + 1 \in Int /\ h.sent + 2 \in Int BY <1>4
<1>6. lf \in Int /\ b = h.block[h.tail] /\ tl = IndexOf(h, h.tail, h.sent + 1) /\ nx = IndexOf(h, h.tail, h.sent + 2) /\ fr = IndexOf(h, h.tail, lf)
  BY <1>2 DEF TailMeans
<1>7. b \in Blocks /\ tl \in Nat /\ <<"data", b, tl>> \in Locations /\ <<"tail", b>> \in Locations /\ <<"front", b>> \in Locations
  BY <1>3, <1>5, <1>6, TailPlace
<1>8. nx \in Nat BY <1>3, <1>5, <1>6, TailPlace
<1>9. fr \in Nat BY <1>3, <1>5, <1>6, TailPlace
<1> QED BY <1>7, <1>8, <1>9 DEF TailThere

\* The block of the tail before what EnqueueTail reads is known.
LEMMA TailBlockThere ==
  ASSUME NEW h, NEW m, NEW bp, NEW bc, NEW F, NEW s, NEW mask, Whole(h, m, bp, bc, F, s, mask)
  PROVE  /\ View(bp, m)[<<"tailBlock">>] = h.block[h.tail] /\ h.block[h.tail] \in Blocks
         /\ View(bc, m)[<<"frontBlock">>] = h.block[h.front] /\ h.block[h.front] \in Blocks
<1>1. Shape(h) /\ Fits(h) BY WholeParts
<1>2. h.tail \in Nat /\ LastVisit(h) \in Nat /\ h.tail <= LastVisit(h) /\ h.shown <= h.tail /\ h.front <= h.shown /\ h.freed <= h.front /\ 1 <= h.freed
      /\ h.freed \in Nat /\ h.front \in Nat /\ h.shown \in Nat BY <1>1, ShapeFacts
<1>3. h.tail \in 1..LastVisit(h) /\ h.front \in 1..LastVisit(h) BY <1>2
<1>4. h.block[h.tail] \in Blocks /\ h.block[h.front] \in Blocks BY <1>1, <1>3, BlockFits
<1>5. TailViews(h, m, View(bp, m)) /\ FrontViews(h, m, View(bc, m)) BY DEF Whole, World, Views
<1> QED BY <1>4, <1>5 DEF TailViews, FrontViews

\* Setting the producer's copy of one front.
LEMMA CopyIs ==
  ASSUME NEW F \in [Blocks -> Nat], NEW b \in Blocks, NEW x \in Nat, NEW F2,
         F2 = [F EXCEPT ![b] = x]
  PROVE  F2 \in [Blocks -> Nat] /\ CopiedAs(F, F2, b, x)
BY DEF CopiedAs

\* The stores of an enqueue into the tail block are stores.
LEMMA TailStoresType ==
  ASSUME NEW b, NEW tl, NEW nx, NEW fr, TailThere(b, tl, nx, fr), NEW x \in Nat,
         NEW issued, issued = <<Store(<<"data", b, tl>>, x), Fence, Store(<<"tail", b>>, nx)>>
  PROVE  issued \in Seq(StoreSet)
<1>1. Store(<<"data", b, tl>>, x) \in StoreSet BY StoreSetHas DEF TailThere
<1>2. Store(<<"tail", b>>, nx) \in StoreSet BY StoreSetHas DEF TailThere
<1>3. Fence \in StoreSet BY StoreSetHas
<1> QED BY <1>1, <1>2, <1>3

\* inner_enqueue up to the second test of the tail block.
LEMMA EnqueueTailCore ==
  ASSUME NEW h, Core(h), EnqueueTail
  PROVE  \E h2 : Core(h2)' /\ (Sent(h, h2) \/ Kept(h, h2))
<1>1. Whole(h, mem, stores["producer"], stores["consumer"], localFront, size, sizeMask) BY DEF Core
<1>2. stores \in [Threads -> Seq(StoreSet)] /\ "producer" \in Threads /\ "consumer" \in Threads
  BY DEF Core, Threads
<1>3. localFront \in [Blocks -> Nat] /\ stores["producer"] \in Seq(StoreSet) /\ Shape(h) /\ Pend(h) /\ Holds(stores["producer"], h.S)
  BY <1>1, WholeParts
<1>4. h.sent = sent /\ h.sent <= MaxItems /\ h.got = Len(got) /\ got = [i \in 1..h.got |-> i]
  BY DEF Core
<1>5. p \in CallSet /\ c \in CallSet /\ ProducerCall(h, p, size) /\ ConsumerCall(h, c) BY DEF Core
<1>6. PICK b : b = ByProducer(<<"tailBlock">>) OBVIOUS
<1>7. PICK tl : tl = ByProducer(<<"tail", b>>) OBVIOUS
<1>8. PICK nx : nx = NextIndex(b, tl) OBVIOUS
<1>9. PICK fr : fr = IF nx # localFront[b] THEN localFront[b] ELSE ByProducer(<<"front", b>>) OBVIOUS
<1>10. /\ p.pc = "enqueue" /\ localFront' = [localFront EXCEPT ![b] = fr]
       /\ \/ nx # fr /\ Enqueue(TailStores(b, tl))
          \/ nx = fr /\ p' = [p EXCEPT !.pc = "full"] /\ UNCHANGED <<stores, sent>>
       /\ UNCHANGED <<size, mem, sizeMask, c, got, destroyed>>
  BY <1>6, <1>7, <1>8, <1>9 DEF EnqueueTail
<1>11. TailFound(h, mem, View(stores["producer"], mem), localFront, sizeMask, b, tl, nx, fr)
  <2>1. <<"tailBlock">> \in Locations BY PlacesOf
  <2>2. b = View(stores["producer"], mem)[<<"tailBlock">>] BY <1>6, <2>1, ReadsView
  <2>3. b \in Blocks BY <1>1, <2>2, TailBlockThere
  <2>4. <<"tail", b>> \in Locations /\ <<"front", b>> \in Locations BY <2>3, PlacesOf
  <2>5. tl = View(stores["producer"], mem)[<<"tail", b>>] BY <1>7, <2>4, ReadsView
  <2>6. ByProducer(<<"front", b>>) = mem[<<"front", b>>]
    <3>1. PICK l \in Locations : l = <<"front", b>> BY <2>4
    <3>2. l[1] \in {"front", "frontBlock"} BY <3>1
    <3>3. Load(stores["producer"], mem, l) = mem[l] BY <1>3, <3>2, ProducerLoads
    <3> QED BY <3>1, <3>3 DEF ByProducer
  <2>7. nx = (tl + 1) % (sizeMask[b] + 1) BY <1>8 DEF NextIndex
  <2> QED BY <1>9, <2>2, <2>5, <2>6, <2>7 DEF TailFound
<1>12. TailThere(b, tl, nx, fr) BY <1>1, <1>11, TailExists
<1>13. localFront' \in [Blocks -> Nat] /\ CopiedAs(localFront, localFront', b, fr)
  <2>1. b \in Blocks /\ fr \in Nat BY <1>12 DEF TailThere
  <2> QED BY <1>3, <1>10, <2>1, CopyIs
<1>14. CASE nx # fr /\ Enqueue(TailStores(b, tl))
  <2>1. PICK issued : issued = TailStores(b, tl) OBVIOUS
  <2>2. issued = <<Store(<<"data", b, tl>>, h.sent + 1), Fence, Store(<<"tail", b>>, nx)>>
    BY <1>4, <1>8, <2>1 DEF TailStores
  <2>3. h.sent + 1 \in Nat BY <1>3, ShapeFacts
  <2>4. issued \in Seq(StoreSet) BY <1>12, <2>2, <2>3, TailStoresType
  <2>5. Issue(stores["producer"], issued) \in Seq(StoreSet) BY <1>3, <2>4, IssueType
  <2>6. PICK h2 : Whole(h2, mem, Issue(stores["producer"], issued), stores["consumer"], localFront', size, sizeMask) /\ Sent(h, h2) /\ ConsumerKept(h, h2)
    BY <1>1, <1>11, <1>13, <1>14, <2>2, <2>5, TailStepSends
  <2>7. stores' = [stores EXCEPT !["producer"] = Issue(stores["producer"], issued)] /\ sent' = sent + 1 /\ EnqueueDone(TRUE)
    BY <1>14, <2>1 DEF Enqueue
  <2>8. stores' \in [Threads -> Seq(StoreSet)] /\ stores'["producer"] = Issue(stores["producer"], issued) /\ stores'["consumer"] = stores["consumer"]
    BY <1>2, <2>5, <2>7, StoresWrite
  <2>9. h2.sent = h.sent + 1 /\ h2.got = h.got /\ h2.pub = h.pub /\ h2.rel = h.rel BY <2>6 DEF Sent
  <2>10. h2.sent <= MaxItems
    <3>1. h.sent < MaxItems BY <1>5, <1>10 DEF ProducerCall
    <3> QED BY <2>3, <2>9, <3>1, <1>3, ShapeFacts, QueueAssumption
  <2>11. p' \in CallSet /\ ProducerCall(h2, p', size)
    <3>1. SetPcDone(p, p', "done", TRUE, 0, 0) BY <2>7 DEF EnqueueDone, SetPcDone
    <3> QED BY <1>5, <2>9, <3>1, DoneCall
  <2>12. ConsumerCall(h2, c) BY <1>5, <2>6 DEF ConsumerKept
  <2>13. Core(h2)' BY <1>4, <1>5, <1>10, <2>6, <2>7, <2>8, <2>9, <2>10, <2>11, <2>12 DEF Core
  <2> QED BY <2>6, <2>13
<1>15. CASE nx = fr /\ p' = [p EXCEPT !.pc = "full"] /\ UNCHANGED <<stores, sent>>
  <2>1. PICK h2 : /\ Whole(h2, mem, stores["producer"], stores["consumer"], localFront', size, sizeMask) /\ Kept(h, h2) /\ ConsumerKept(h, h2)
                  /\ FullTail(h2) /\ (h2.n = 1 => h2.lf = h.rel + 1)
    BY <1>1, <1>11, <1>13, <1>15, TailStepFull
  <2>2. h2.sent = h.sent /\ h2.got = h.got /\ h2.pub = h.pub /\ h2.rel = h.rel BY <2>1 DEF Kept
  <2>3. p' \in CallSet /\ ProducerCall(h2, p', size)
    <3>1. SetPc(p, p', "full") BY <1>15 DEF SetPc
    <3>2. h.rel \in Nat BY <1>3, ShapeFacts
    <3> QED BY <1>5, <1>10, <2>1, <3>1, <3>2, FullCall
  <2>4. ConsumerCall(h2, c) BY <1>5, <2>1 DEF ConsumerKept
  <2>5. Core(h2)' BY <1>2, <1>4, <1>5, <1>10, <1>15, <2>1, <2>2, <2>3, <2>4 DEF Core
  <2> QED BY <2>1, <2>5
<1> QED BY <1>10, <1>14, <1>15

\* The parts of Core that the steps need.
LEMMA CoreParts ==
  ASSUME NEW h, Core(h)
  PROVE  /\ Whole(h, mem, stores["producer"], stores["consumer"], localFront, size, sizeMask)
         /\ stores \in [Threads -> Seq(StoreSet)] /\ "producer" \in Threads /\ "consumer" \in Threads
         /\ localFront \in [Blocks -> Nat] /\ stores["producer"] \in Seq(StoreSet) /\ stores["consumer"] \in Seq(StoreSet)
         /\ Shape(h) /\ Pend(h) /\ PendingFronts(h) /\ Holds(stores["producer"], h.S) /\ Holds(stores["consumer"], h.R) /\ Sizing(h, size, sizeMask) /\ Fits(h)
         /\ h.sent = sent /\ h.sent <= MaxItems /\ h.got = Len(got) /\ got = [i \in 1..h.got |-> i]
         /\ p \in CallSet /\ c \in CallSet /\ ProducerCall(h, p, size) /\ ConsumerCall(h, c)
<1>1. Whole(h, mem, stores["producer"], stores["consumer"], localFront, size, sizeMask) BY DEF Core
<1>2. stores \in [Threads -> Seq(StoreSet)] /\ "producer" \in Threads /\ "consumer" \in Threads
  BY DEF Core, Threads
<1>3. /\ localFront \in [Blocks -> Nat] /\ stores["producer"] \in Seq(StoreSet) /\ stores["consumer"] \in Seq(StoreSet)
      /\ Shape(h) /\ Pend(h) /\ PendingFronts(h) /\ Holds(stores["producer"], h.S) /\ Holds(stores["consumer"], h.R) /\ Sizing(h, size, sizeMask) /\ Fits(h)
  BY <1>1, WholeParts
<1>4. h.sent = sent /\ h.sent <= MaxItems /\ h.got = Len(got) /\ got = [i \in 1..h.got |-> i]
  BY DEF Core
<1>5. p \in CallSet /\ c \in CallSet /\ ProducerCall(h, p, size) /\ ConsumerCall(h, c) BY DEF Core
<1> QED BY <1>1, <1>2, <1>3, <1>4, <1>5

\* The producer's read of one of the consumer's fields.
LEMMA ReadsFront ==
  ASSUME NEW h, Core(h), NEW l \in Locations, l[1] \in {"front", "frontBlock"}
  PROVE  ByProducer(l) = mem[l]
<1>1. Shape(h) /\ Pend(h) /\ Holds(stores["producer"], h.S) /\ stores["producer"] \in Seq(StoreSet)
  BY CoreParts
<1> QED BY <1>1, ProducerLoads DEF ByProducer

\* A call of the producer that only changes its own record.
LEMMA ProducerOnly ==
  ASSUME NEW h, Core(h), p' \in CallSet, ProducerCall(h, p', size),
         UNCHANGED <<size, mem, stores, sizeMask, localFront, c, sent, got>>
  PROVE  Core(h)'
BY DEF Core

\* A step that changes only the consumer's call keeps Core if the history supports the
\* new call.
LEMMA ConsumerOnly ==
  ASSUME NEW h, Core(h), c' \in CallSet, ConsumerCall(h, c'),
         UNCHANGED <<size, mem, stores, sizeMask, localFront, p, sent, got>>
  PROVE  Core(h)'
BY DEF Core

\* An enqueue that succeeds with these stores.
LEMMA EnqueueCore ==
  ASSUME NEW h, Core(h), NEW issued, Issue(stores["producer"], issued) \in Seq(StoreSet),
         Enqueue(issued), p.pc \in {"enqueue", "full", "ahead"},
         UNCHANGED <<size, mem, c, got>>,
         NEW h2,
         Whole(h2, mem, Issue(stores["producer"], issued), stores["consumer"], localFront', size, sizeMask'),
         Sent(h, h2), ConsumerKept(h, h2)
  PROVE  Core(h2)'
<1>1. stores \in [Threads -> Seq(StoreSet)] /\ "producer" \in Threads /\ "consumer" \in Threads
  BY CoreParts
<1>2. h.sent = sent /\ h.sent <= MaxItems /\ h.got = Len(got) /\ got = [i \in 1..h.got |-> i]
  BY CoreParts
<1>3. p \in CallSet /\ c \in CallSet /\ ProducerCall(h, p, size) /\ ConsumerCall(h, c) BY CoreParts
<1>4. stores' = [stores EXCEPT !["producer"] = Issue(stores["producer"], issued)] /\ sent' = sent + 1 /\ EnqueueDone(TRUE)
  BY DEF Enqueue
<1>5. stores' \in [Threads -> Seq(StoreSet)] /\ stores'["producer"] = Issue(stores["producer"], issued) /\ stores'["consumer"] = stores["consumer"]
  BY <1>1, <1>4, StoresWrite
<1>6. h2.sent = h.sent + 1 /\ h2.got = h.got /\ h2.pub = h.pub /\ h2.rel = h.rel BY DEF Sent
<1>7. h2.sent <= MaxItems
  <2>1. h.sent < MaxItems BY <1>3 DEF ProducerCall
  <2>2. h.sent \in Nat
    <3>1. Shape(h) BY CoreParts
    <3> QED BY <3>1, ShapeFacts
  <2> QED BY <1>6, <2>1, <2>2, QueueAssumption
<1>8. p' \in CallSet /\ ProducerCall(h2, p', size)
  <2>1. SetPcDone(p, p', "done", TRUE, 0, 0) BY <1>4 DEF EnqueueDone, SetPcDone
  <2> QED BY <1>3, <1>6, <2>1, DoneCall
<1>9. ConsumerCall(h2, c) BY <1>3 DEF ConsumerKept
<1> QED BY <1>2, <1>3, <1>4, <1>5, <1>6, <1>7, <1>8, <1>9 DEF Core

\* The stores of an enqueue into a new block are stores.
LEMMA GrownStoresType ==
  ASSUME NEW h, Shape(h), Fits(h), NoneAhead(h), h.n < MaxBlocks, NEW issued, GrownIssued(h, issued)
  PROVE  issued \in Seq(StoreSet)
<1>1. PICK new : new = h.n + 1 OBVIOUS
<1>2. PICK b : b = h.block[h.tail] OBVIOUS
<1>3. PICK next : next = h.block[h.freed] OBVIOUS
<1>4. PICK x : x = h.sent + 1 OBVIOUS
<1>5. new \in Blocks /\ new \in Nat /\ b \in Blocks /\ next \in Nat /\ <<"data", new, 0>> \in Locations /\ <<"localTail", new>> \in Locations
  BY <1>1, <1>2, <1>3, NewBlock
<1>6. x \in Nat
  <2>1. h.sent \in Nat BY ShapeFacts
  <2> QED BY <1>4, <2>1
<1>7. <<"tail", new>> \in Locations /\ <<"next", new>> \in Locations /\ <<"next", b>> \in Locations /\ <<"tailBlock">> \in Locations
  BY <1>5, PlacesOf
<1>8. 1 \in Nat OBVIOUS
<1>9. /\ Store(<<"data", new, 0>>, x) \in StoreSet /\ Store(<<"localTail", new>>, 1) \in StoreSet /\ Store(<<"tail", new>>, 1) \in StoreSet
      BY <1>5, <1>6, <1>7, <1>8, StoreSetHas
<1>10. Store(<<"next", new>>, next) \in StoreSet /\ Store(<<"next", b>>, new) \in StoreSet
  BY <1>5, <1>7, StoreSetHas
<1>11. Fence \in StoreSet /\ Store(<<"tailBlock">>, new) \in StoreSet BY <1>5, <1>7, StoreSetHas
<1>12. issued = <<Store(<<"data", new, 0>>, x), Store(<<"localTail", new>>, 1), Store(<<"tail", new>>, 1), Store(<<"next", new>>, next),
                  Store(<<"next", b>>, new), Fence,
                  Store(<<"tailBlock">>, new)>> BY <1>1, <1>2, <1>3, <1>4 DEF GrownIssued
<1> QED BY <1>9, <1>10, <1>11, <1>12, Sequence7

\* The tail block is full.
LEMMA EnqueueFullCore ==
  ASSUME NEW h, Core(h), EnqueueFull
  PROVE  \E h2 : Core(h2)' /\ (Sent(h, h2) \/ Kept(h, h2))
<1>1. Whole(h, mem, stores["producer"], stores["consumer"], localFront, size, sizeMask) BY CoreParts
<1>2. stores["producer"] \in Seq(StoreSet) /\ Shape(h) /\ Sizing(h, size, sizeMask) /\ Fits(h)
  BY CoreParts
<1>3. p \in CallSet /\ ProducerCall(h, p, size) /\ h.sent = sent BY CoreParts
<1>4. PICK b : b = ByProducer(<<"tailBlock">>) OBVIOUS
<1>5. PICK next : next = ByProducer(<<"next", b>>) OBVIOUS
<1>6. PICK front : front = ByProducer(<<"frontBlock">>) OBVIOUS
<1>7. /\ p.pc = "full"
      /\ \/ next # front /\ p' = [p EXCEPT !.pc = "ahead", !.block = next] /\ UNCHANGED <<stores, sizeMask, sent>>
         \/ /\ next = front /\ Len(sizeMask) < MaxBlocks
            /\ sizeMask' = Append(sizeMask, NewBlockSize(Max(Range(sizeMask)) + 1) - 1)
            /\ Enqueue(NewBlockStores(b, Len(sizeMask) + 1, next))
         \/ next = front /\ EnqueueDone(FALSE) /\ UNCHANGED <<stores, sizeMask, sent>>
      /\ UNCHANGED <<size, mem, localFront, c, got>>
  BY <1>4, <1>5, <1>6 DEF EnqueueFull
<1>8. b = View(stores["producer"], mem)[<<"tailBlock">>]
  <2>1. <<"tailBlock">> \in Locations BY PlacesOf
  <2> QED BY <1>4, <2>1, ReadsView
<1>9. next = View(stores["producer"], mem)[<<"next", b>>]
  <2>1. b \in Blocks BY <1>1, <1>8, TailBlockThere
  <2>2. <<"next", b>> \in Locations BY <2>1, PlacesOf
  <2> QED BY <1>5, <2>2, ReadsView
<1>10. front = mem[<<"frontBlock">>]
  <2>1. PICK l \in Locations : l = <<"frontBlock">> BY PlacesOf
  <2>2. l[1] \in {"front", "frontBlock"} BY <2>1
  <2> QED BY <1>6, <2>1, <2>2, ReadsFront
<1>11. /\ b = h.block[h.tail] /\ front = h.block[h.freed]
       /\ next # front => FreeAhead(h) /\ next = h.block[h.tail + 1]
       /\ next = front => NoneAhead(h)
  <2>1. TailViews(h, mem, View(stores["producer"], mem)) /\ FrontViews(h, mem, View(stores["consumer"], mem)) /\ NextViews(h, mem, View(stores["producer"], mem))
    BY <1>1 DEF Whole, World, Views
  <2> QED BY <1>2, <1>8, <1>9, <1>10, <2>1, FullLogic
<1>12. FullTail(h) /\ p.start <= h.rel /\ (h.n = 1 => p.start < h.lf)
  BY <1>3, <1>7 DEF ProducerCall, FullTail
<1>13. CASE next # front /\ p' = [p EXCEPT !.pc = "ahead", !.block = next] /\ UNCHANGED <<stores, sizeMask, sent>>
  <2>1. FreeAhead(h) /\ next = h.block[h.tail + 1] BY <1>11, <1>13
  <2>2. next \in Nat
    <3>1. h.tail \in Nat /\ LastVisit(h) \in Nat /\ h.n \in Nat BY <1>2, ShapeFacts
    <3>2. h.tail + 1 \in 1..LastVisit(h) BY <2>1, <3>1 DEF FreeAhead
    <3>3. next \in 1..h.n BY <1>2, <2>1, <3>2, BlockType
    <3> QED BY <3>1, <3>3
  <2>3. SetPcBlock(p, p', "ahead", next) BY <1>13 DEF SetPcBlock
  <2>4. p' \in CallSet /\ ProducerCall(h, p', size) BY <1>3, <1>7, <2>1, <2>2, <2>3, AheadCall
  <2>5. Core(h)' BY <1>7, <1>13, <2>4, ProducerOnly
  <2>6. Kept(h, h) BY DEF Kept
  <2> QED BY <2>5, <2>6
<1>14. CASE /\ next = front /\ Len(sizeMask) < MaxBlocks
            /\ sizeMask' = Append(sizeMask, NewBlockSize(Max(Range(sizeMask)) + 1) - 1)
            /\ Enqueue(NewBlockStores(b, Len(sizeMask) + 1, next))
  <2>1. NoneAhead(h) BY <1>11, <1>14
  <2>2. Len(sizeMask) = h.n BY <1>2 DEF Sizing
  <2>3. PICK issued : issued = NewBlockStores(b, Len(sizeMask) + 1, next) OBVIOUS
  <2>4. GrownIssued(h, issued) BY <1>3, <1>11, <1>14, <2>2, <2>3 DEF NewBlockStores, GrownIssued
  <2>5. h.n < MaxBlocks BY <1>14, <2>2
  <2>6. issued \in Seq(StoreSet) BY <1>2, <2>1, <2>4, <2>5, GrownStoresType
  <2>7. Issue(stores["producer"], issued) \in Seq(StoreSet) BY <1>2, <2>6, IssueType
  <2>8. PICK r : r = NewBlockSize(Max(Range(sizeMask)) + 1) OBVIOUS
  <2>9. PICK h2 : Whole(h2, mem, Issue(stores["producer"], issued), stores["consumer"], localFront, size, Append(sizeMask, r - 1)) /\ Sent(h, h2) /\ ConsumerKept(h, h2)
    BY <1>1, <1>12, <2>1, <2>4, <2>5, <2>7, <2>8, GrownStep
  <2>10. sizeMask' = Append(sizeMask, r - 1) BY <1>14, <2>8
  <2>11. localFront' = localFront BY <1>7
  <2>12. Whole(h2, mem, Issue(stores["producer"], issued), stores["consumer"], localFront', size, sizeMask')
    BY <2>9, <2>10, <2>11
  <2>13. Enqueue(issued) BY <1>14, <2>3
  <2>14. Core(h2)' BY <1>7, <2>7, <2>9, <2>12, <2>13, EnqueueCore
  <2> QED BY <2>9, <2>14
<1>15. CASE next = front /\ EnqueueDone(FALSE) /\ UNCHANGED <<stores, sizeMask, sent>>
  <2>1. NoneAhead(h) BY <1>11, <1>15
  <2>2. p.start \in Nat BY <1>3, CallTypes
  <2>3. h.sent - p.start >= size BY <1>2, <1>12, <2>1, <2>2, FullHolds
  <2>4. SetPcDone(p, p', "done", FALSE, 0, 0) BY <1>15 DEF EnqueueDone, SetPcDone
  <2>5. p' \in CallSet /\ ProducerCall(h, p', size) BY <1>3, <2>3, <2>4, DoneCall
  <2>6. Core(h)' BY <1>7, <1>15, <2>5, ProducerOnly
  <2>7. Kept(h, h) BY DEF Kept
  <2> QED BY <2>6, <2>7
<1> QED BY <1>7, <1>13, <1>14, <1>15

\* The element goes into the free block ahead.
LEMMA AheadThere ==
  ASSUME NEW h, NEW m, NEW bp, NEW bc, NEW F, NEW s, NEW mask, Whole(h, m, bp, bc, F, s, mask),
         FreeAhead(h), NEW b, b = h.block[h.tail + 1],
         NEW tl, tl = View(bp, m)[<<"tail", b>>]
  PROVE  /\ b \in Blocks /\ tl \in Nat /\ tl \in Slots /\ (tl + 1) % (mask[b] + 1) \in Nat /\ m[<<"front", b>>] = tl
<1>1. Shape(h) /\ Fits(h) /\ Sizing(h, s, mask) BY WholeParts
<1>2. h.tail \in Nat /\ LastVisit(h) \in Nat /\ h.unit \in Nat BY <1>1, ShapeFacts
<1>3. PICK v : v = h.tail + 1 OBVIOUS
<1>4. v \in 1..LastVisit(h) /\ v \in (h.tail + 1)..LastVisit(h) BY <1>2, <1>3 DEF FreeAhead
<1>5. b \in Blocks BY <1>1, <1>3, <1>4, BlockFits
<1>6. FreeViews(h, m, View(bp, m), View(bc, m), F) BY DEF Whole, World, Views
<1>7. tl = m[<<"tail", b>>] /\ tl \in 0..(h.room[v] - 1) /\ m[<<"front", b>>] = tl
  BY <1>3, <1>4, <1>6 DEF FreeViews
<1>8. h.room[v] = mask[b] + 1 BY <1>1, <1>3, <1>4 DEF Sizing
<1>9. h.room[v] \in Nat /\ h.room[v] > h.unit BY <1>1, <1>4 DEF Shape, Circular
<1>10. 0..(h.room[v] - 1) \subseteq Slots BY <1>1, <1>4 DEF Fits
<1>11. (tl + 1) % (mask[b] + 1) \in Nat
  <2>1. PICK r : r = h.room[v] OBVIOUS
  <2>2. r \in Nat /\ r > 0 BY <1>2, <1>9, <2>1
  <2>3. PICK y : y = tl + 1 OBVIOUS
  <2>4. y \in Int BY <1>7, <1>9, <2>3
  <2>5. y % r \in Nat BY <2>2, <2>4, DivMod
  <2> QED BY <1>8, <2>1, <2>3, <2>5
<1> QED BY <1>5, <1>7, <1>9, <1>10, <1>11

\* Those into the free block ahead are stores.
LEMMA AheadStoresType ==
  ASSUME NEW b \in Blocks, NEW tl \in Slots, NEW nx \in Nat, NEW x \in Nat, b \in Nat,
         NEW issued,
         issued = <<Store(<<"data", b, tl>>, x), Store(<<"tail", b>>, nx), Fence, Store(<<"tailBlock">>, b)>>
  PROVE  issued \in Seq(StoreSet)
<1>1. <<"data", b, tl>> \in Locations /\ <<"tail", b>> \in Locations /\ <<"tailBlock">> \in Locations
  BY PlacesOf
<1>2. Store(<<"data", b, tl>>, x) \in StoreSet BY <1>1, StoreSetHas
<1>3. Store(<<"tail", b>>, nx) \in StoreSet BY <1>1, StoreSetHas
<1>4. Store(<<"tailBlock">>, b) \in StoreSet BY <1>1, StoreSetHas
<1>5. Fence \in StoreSet BY StoreSetHas
<1> QED BY <1>2, <1>3, <1>4, <1>5

\* EnqueueAhead keeps Core and adds an element.
LEMMA EnqueueAheadCore ==
  ASSUME NEW h, Core(h), EnqueueAhead
  PROVE  \E h2 : Core(h2)' /\ Sent(h, h2)
<1>1. Whole(h, mem, stores["producer"], stores["consumer"], localFront, size, sizeMask) BY CoreParts
<1>2. stores["producer"] \in Seq(StoreSet) /\ Shape(h) /\ Sizing(h, size, sizeMask) /\ Fits(h) /\ localFront \in [Blocks -> Nat]
  BY CoreParts
<1>3. p \in CallSet /\ ProducerCall(h, p, size) /\ h.sent = sent BY CoreParts
<1>4. PICK b : b = p.block OBVIOUS
<1>5. PICK tl : tl = ByProducer(<<"tail", b>>) OBVIOUS
<1>6. PICK fr : fr = ByProducer(<<"front", b>>) OBVIOUS
<1>7. /\ p.pc = "ahead" /\ localFront' = [localFront EXCEPT ![b] = fr] /\ Enqueue(AheadStores(b, tl))
      /\ UNCHANGED <<size, mem, sizeMask, c, got>> BY <1>4, <1>5, <1>6 DEF EnqueueAhead
<1>8. FullTail(h) BY <1>3, <1>7 DEF ProducerCall, FullTail
<1>9. FreeAhead(h) /\ b = h.block[h.tail + 1] BY <1>3, <1>4, <1>7 DEF ProducerCall, FreeAhead
<1>10. b \in Blocks
  <2>1. PICK v : v = h.tail + 1 OBVIOUS
  <2>2. h.tail \in Nat /\ LastVisit(h) \in Nat BY <1>2, ShapeFacts
  <2>3. v \in 1..LastVisit(h) BY <1>9, <2>1, <2>2 DEF FreeAhead
  <2>4. h.block[v] \in Blocks BY <1>2, <2>3, BlockFits
  <2> QED BY <1>9, <2>1, <2>4
<1>11. <<"tail", b>> \in Locations /\ <<"front", b>> \in Locations BY <1>10, PlacesOf
<1>12. tl = View(stores["producer"], mem)[<<"tail", b>>] BY <1>5, <1>11, ReadsView
<1>13. fr = mem[<<"front", b>>]
  <2>1. PICK l \in Locations : l = <<"front", b>> BY <1>11
  <2>2. l[1] \in {"front", "frontBlock"} BY <2>1
  <2> QED BY <1>6, <2>1, <2>2, ReadsFront
<1>14. PICK nx : nx = (tl + 1) % (sizeMask[b] + 1) OBVIOUS
<1>15. tl \in Nat /\ tl \in Slots /\ nx \in Nat /\ fr = tl
  BY <1>1, <1>9, <1>12, <1>13, <1>14, AheadThere
<1>16. localFront' \in [Blocks -> Nat] /\ CopiedAs(localFront, localFront', b, mem[<<"front", b>>])
  <2>1. fr \in Nat BY <1>15
  <2>2. localFront' \in [Blocks -> Nat] /\ CopiedAs(localFront, localFront', b, fr)
    BY <1>2, <1>7, <1>10, <2>1, CopyIs
  <2> QED BY <1>13, <2>2
<1>17. PICK issued : issued = AheadStores(b, tl) OBVIOUS
<1>18. issued = <<Store(<<"data", b, tl>>, h.sent + 1), Store(<<"tail", b>>, nx), Fence, Store(<<"tailBlock">>, b)>>
  BY <1>3, <1>14, <1>17 DEF AheadStores, NextIndex
<1>19. h.sent + 1 \in Nat BY <1>2, ShapeFacts
<1>20. b \in Nat BY <1>3, <1>4, CallTypes
<1>21. issued \in Seq(StoreSet) BY <1>10, <1>15, <1>18, <1>19, <1>20, AheadStoresType
<1>22. Issue(stores["producer"], issued) \in Seq(StoreSet) BY <1>2, <1>21, IssueType
<1>23. PICK h2 : Whole(h2, mem, Issue(stores["producer"], issued), stores["consumer"], localFront', size, sizeMask) /\ Sent(h, h2) /\ ConsumerKept(h, h2)
  BY <1>1, <1>8, <1>9, <1>12, <1>14, <1>16, <1>18, <1>22, AheadStep, SMTT(60)
<1>24. sizeMask' = sizeMask BY <1>7
<1>25. Whole(h2, mem, Issue(stores["producer"], issued), stores["consumer"], localFront', size, sizeMask')
  BY <1>23, <1>24
<1>26. Enqueue(issued) BY <1>7, <1>17
<1>27. Core(h2)' BY <1>7, <1>22, <1>23, <1>25, <1>26, EnqueueCore
<1> QED BY <1>23, <1>27

\* A step of the consumer that takes no element, with the buffer it leaves.
LEMMA ConsumerCore ==
  ASSUME NEW h, Core(h), NEW bc \in Seq(StoreSet), stores' = [stores EXCEPT !["consumer"] = bc],
         UNCHANGED <<size, sizeMask, localFront, p, sent, got>>,
         NEW h2, Whole(h2, mem', stores["producer"], bc, localFront, size, sizeMask), Kept(h, h2),
         ProducerKept(h, h2), c' \in CallSet, ConsumerCall(h2, c')
  PROVE  Core(h2)'
<1>1. stores \in [Threads -> Seq(StoreSet)] /\ "producer" \in Threads /\ "consumer" \in Threads
  BY CoreParts
<1>2. h.sent = sent /\ h.sent <= MaxItems /\ h.got = Len(got) /\ got = [i \in 1..h.got |-> i]
  BY CoreParts
<1>3. p \in CallSet /\ ProducerCall(h, p, size) BY CoreParts
<1>4. stores' \in [Threads -> Seq(StoreSet)] /\ stores'["consumer"] = bc /\ stores'["producer"] = stores["producer"]
  BY <1>1, StoresWrite
<1>5. h2.sent = h.sent /\ h2.got = h.got BY DEF Kept
<1>6. ProducerCall(h2, p, size) BY <1>3 DEF ProducerKept
<1> QED BY <1>2, <1>3, <1>4, <1>5, <1>6 DEF Core

\* One look at the front block.
LEMMA DequeueFrontCore ==
  ASSUME NEW h, Core(h), NEW fresh, NEW elsePc,
         (c.pc = "dequeue" /\ elsePc = "tailBlock") \/ (c.pc = "again" /\ elsePc = "next"),
         DequeueFront(fresh, elsePc)
  PROVE  \E h2 : Core(h2)' /\ Kept(h, h2)
<1>1. Whole(h, mem, stores["producer"], stores["consumer"], localFront, size, sizeMask) BY CoreParts
<1>2. c \in CallSet /\ ConsumerCall(h, c) BY CoreParts
<1>3. PICK b : b = ByConsumer(<<"frontBlock">>) OBVIOUS
<1>4. PICK fr : fr = ByConsumer(<<"front", b>>) OBVIOUS
<1>5. PICK tl : tl = TailOf(b, fresh) OBVIOUS
<1>6. /\ mem' = [mem EXCEPT ![<<"localTail", b>>] = tl]
      /\ \/ fr # tl /\ At(b, fr)
         \/ fr = tl /\ c' = [c EXCEPT !.pc = elsePc]
      /\ UNCHANGED <<size, stores, sizeMask, localFront, p, sent, got>>
  BY <1>3, <1>4, <1>5 DEF DequeueFront
<1>7. FrontFound(mem, View(stores["consumer"], mem), fresh, b, fr, tl)
  <2>1. <<"frontBlock">> \in Locations BY PlacesOf
  <2>2. b = View(stores["consumer"], mem)[<<"frontBlock">>] BY <1>3, <2>1, ReadsView
  <2>3. b \in Blocks BY <1>1, <2>2, TailBlockThere
  <2>4. <<"tail", b>> \in Locations /\ <<"front", b>> \in Locations BY <2>3, PlacesOf
  <2>5. fr = View(stores["consumer"], mem)[<<"front", b>>] BY <1>4, <2>4, ReadsView
  <2>6. ByConsumer(<<"tail", b>>) = View(stores["consumer"], mem)[<<"tail", b>>] BY <2>4, ReadsView
  <2>7. tl = IF fresh \/ fr = mem[<<"localTail", b>>] THEN ByConsumer(<<"tail", b>>) ELSE mem[<<"localTail", b>>]
    BY <1>4, <1>5 DEF TailOf
  <2> QED BY <2>2, <2>5, <2>6, <2>7 DEF FrontFound
<1>8. Looked(c, c', b, fr, tl, elsePc) BY <1>6 DEF Looked, SetPcPlace, SetPc, At
<1>9. PICK h2 : /\ Whole(h2, mem', stores["producer"], stores["consumer"], localFront, size, sizeMask)
                /\ Kept(h, h2) /\ ProducerKept(h, h2) /\ c' \in CallSet /\ ConsumerCall(h2, c')
  BY <1>1, <1>2, <1>6, <1>7, <1>8, FrontStep, ZenonT(60)
<1>10. stores["consumer"] \in Seq(StoreSet) /\ stores \in [Threads -> Seq(StoreSet)] /\ "consumer" \in Threads
  BY CoreParts
<1>11. stores' = [stores EXCEPT !["consumer"] = stores["consumer"]] BY <1>6, <1>10
<1>12. Core(h2)' BY <1>6, <1>9, <1>10, <1>11, ConsumerCore
<1> QED BY <1>9, <1>12

\* DequeueFirst and DequeueAgain keep Core.
LEMMA DequeueFirstCore ==
  ASSUME NEW h, Core(h), DequeueFirst \/ DequeueAgain
  PROVE  \E h2 : Core(h2)' /\ Kept(h, h2)
<1>1. CASE DequeueFirst
  <2>1. c.pc = "dequeue" /\ DequeueFront(FALSE, "tailBlock") BY <1>1 DEF DequeueFirst
  <2> QED BY <2>1, DequeueFrontCore
<1>2. CASE DequeueAgain
  <2>1. c.pc = "again" /\ DequeueFront(TRUE, "next") BY <1>2 DEF DequeueAgain
  <2> QED BY <2>1, DequeueFrontCore
<1> QED BY <1>1, <1>2

\* A history keeps its own counts.
LEMMA KeptSelf == \A h : Kept(h, h)
BY DEF Kept

\* DequeueTailBlock keeps Core: an answer of "empty" is an honest one.
LEMMA DequeueTailBlockCore ==
  ASSUME NEW h, Core(h), DequeueTailBlock
  PROVE  \E h2 : Core(h2)' /\ Kept(h, h2)
<1>1. Whole(h, mem, stores["producer"], stores["consumer"], localFront, size, sizeMask) BY CoreParts
<1>2. c \in CallSet /\ ConsumerCall(h, c) BY CoreParts
<1>3. <<"frontBlock">> \in Locations /\ <<"tailBlock">> \in Locations BY PlacesOf
<1>4. /\ ByConsumer(<<"frontBlock">>) = View(stores["consumer"], mem)[<<"frontBlock">>]
      /\ ByConsumer(<<"tailBlock">>) = View(stores["consumer"], mem)[<<"tailBlock">>]
        BY <1>3, ReadsView
<1>5. c.pc = "tailBlock" /\ UNCHANGED <<size, mem, stores, sizeMask, localFront, p, sent, got>>
  BY DEF DequeueTailBlock
<1>6. IF View(stores["consumer"], mem)[<<"frontBlock">>] # View(stores["consumer"], mem)[<<"tailBlock">>]
      THEN SetPc(c, c', "again") ELSE SetPcOk(c, c', "done", FALSE)
  BY <1>4 DEF DequeueTailBlock, SetPc, SetPcOk
<1>7. c' \in CallSet /\ ConsumerCall(h, c') BY <1>1, <1>2, <1>5, <1>6, TailBlockStep
<1>8. Core(h)' BY <1>5, <1>7, ConsumerOnly
<1> QED BY <1>8, KeptSelf

\* DequeueNext keeps Core.
LEMMA DequeueNextCore ==
  ASSUME NEW h, Core(h), DequeueNext
  PROVE  \E h2 : Core(h2)' /\ Kept(h, h2)
<1>1. Whole(h, mem, stores["producer"], stores["consumer"], localFront, size, sizeMask) BY CoreParts
<1>2. c \in CallSet /\ ConsumerCall(h, c) BY CoreParts
<1>3. PICK b : b = ByConsumer(<<"frontBlock">>) OBVIOUS
<1>4. <<"frontBlock">> \in Locations BY PlacesOf
<1>5. b = View(stores["consumer"], mem)[<<"frontBlock">>] BY <1>3, <1>4, ReadsView
<1>6. b \in Blocks BY <1>1, <1>5, TailBlockThere
<1>7. <<"next", b>> \in Locations BY <1>6, PlacesOf
<1>8. ByConsumer(<<"next", b>>) = View(stores["consumer"], mem)[<<"next", b>>] BY <1>7, ReadsView
<1>9. c.pc = "next" /\ c' = [c EXCEPT !.pc = "advance", !.block = ByConsumer(<<"next", b>>)] /\ UNCHANGED <<size, mem, stores, sizeMask, localFront, p, sent, got>>
  BY <1>3 DEF DequeueNext
<1>10. SetPcBlock(c, c', "advance", View(stores["consumer"], mem)[<<"next", View(stores["consumer"], mem)[<<"frontBlock">>]>>])
  BY <1>5, <1>8, <1>9 DEF SetPcBlock
<1>11. c' \in CallSet /\ ConsumerCall(h, c') BY <1>1, <1>2, <1>9, <1>10, NextStep
<1>12. Core(h)' BY <1>9, <1>11, ConsumerOnly
<1> QED BY <1>12, KeptSelf

\* DequeueAdvance keeps Core.
LEMMA DequeueAdvanceCore ==
  ASSUME NEW h, Core(h), DequeueAdvance
  PROVE  \E h2 : Core(h2)' /\ Kept(h, h2)
<1>1. Whole(h, mem, stores["producer"], stores["consumer"], localFront, size, sizeMask) BY CoreParts
<1>2. c \in CallSet /\ ConsumerCall(h, c) BY CoreParts
<1>3. PICK b : b = c.block OBVIOUS
<1>4. c.pc = "advance" /\ At(b, ByConsumer(<<"front", b>>)) /\ UNCHANGED <<size, sizeMask, localFront, p, sent, got>>
  BY <1>3 DEF DequeueAdvance
<1>5. b \in Blocks
  <2>1. PICK w : w = h.front + 1 OBVIOUS
  <2>2. AheadFound(h, View(stores["consumer"], mem), c, w) BY <1>1, <1>2, <1>4, <2>1, AdvanceFacts
  <2> QED BY <1>3, <2>2 DEF AheadFound
<1>6. <<"front", b>> \in Locations /\ <<"tail", b>> \in Locations /\ <<"frontBlock">> \in Locations
  BY <1>5, PlacesOf
<1>7. ByConsumer(<<"front", b>>) = View(stores["consumer"], mem)[<<"front", b>>] /\ ByConsumer(<<"tail", b>>) = View(stores["consumer"], mem)[<<"tail", b>>]
  BY <1>6, ReadsView
<1>8. SetPcPlace(c, c', "element", b, View(stores["consumer"], mem)[<<"front", b>>])
  BY <1>4, <1>7 DEF SetPcPlace, At
<1>9. CASE c.op = "peek"
  <2>1. UNCHANGED <<mem, stores>> BY <1>9 DEF DequeueAdvance
  <2>2. c' \in CallSet /\ ConsumerCall(h, c') BY <1>1, <1>2, <1>3, <1>4, <1>8, <1>9, AdvancePeek
  <2>3. Core(h)' BY <1>4, <2>1, <2>2, ConsumerOnly
  <2> QED BY <2>3, KeptSelf
<1>10. CASE c.op # "peek"
  <2>1. PICK issued : issued = <<Fence, Store(<<"frontBlock">>, b)>> OBVIOUS
  <2>2. /\ mem' = [mem EXCEPT ![<<"localTail", b>>] = View(stores["consumer"], mem)[<<"tail", b>>]]
        /\ stores' = [stores EXCEPT !["consumer"] = Issue(stores["consumer"], issued)]
    BY <1>3, <1>7, <1>10, <2>1 DEF DequeueAdvance
  <2>3. FenceThen(issued, Store(<<"frontBlock">>, b)) BY <2>1 DEF FenceThen
  <2>4. Issue(stores["consumer"], issued) \in Seq(StoreSet)
    <3>1. b \in Nat BY <1>2, <1>3, CallTypes
    <3>2. Fence \in StoreSet /\ Store(<<"frontBlock">>, b) \in StoreSet BY <1>6, <3>1, StoreSetHas
    <3>3. issued \in Seq(StoreSet) BY <2>1, <3>2
    <3>4. stores["consumer"] \in Seq(StoreSet) BY CoreParts
    <3> QED BY <3>3, <3>4, IssueType
  <2>5. PICK h2 : /\ Whole(h2, mem', stores["producer"], Issue(stores["consumer"], issued), localFront, size, sizeMask)
                  /\ Kept(h, h2) /\ ProducerKept(h, h2) /\ c' \in CallSet /\ ConsumerCall(h2, c')
    BY <1>1, <1>2, <1>3, <1>4, <1>8, <2>2, <2>3, AdvanceMoves
  <2>6. Core(h2)' BY <1>4, <2>2, <2>4, <2>5, ConsumerCore
  <2> QED BY <2>5, <2>6
<1> QED BY <1>9, <1>10

\* The consumer is about to read a slot that exists.
ElementThere(b, i) == b \in Blocks /\ i \in Slots /\ b \in Nat /\ i \in Nat

\* The element to take is at a place in memory.
LEMMA ElementPlace ==
  ASSUME NEW h, NEW m, NEW bp, NEW bc, NEW F, NEW s, NEW mask, Whole(h, m, bp, bc, F, s, mask),
         NEW call \in CallSet, ConsumerCall(h, call),
         call.pc = "element"
  PROVE  ElementThere(call.block, call.index)
<1>1. Shape(h) /\ Pend(h) /\ Fits(h) BY WholeParts
<1>2. h.got < h.pub /\ call.block = h.block[h.visit[h.got + 1]] /\ call.index = IndexOf(h, h.visit[h.got + 1], h.got + 1)
  BY DEF ConsumerCall
<1>3. h.got \in Nat /\ h.pub \in Nat /\ h.sent \in Nat /\ h.pub <= h.sent BY <1>1, ShapeFacts
<1>4. PICK e : e = h.got + 1 OBVIOUS
<1>5. e \in (h.got + 1)..h.sent /\ e \in 1..h.sent /\ e \in Nat /\ e > h.got BY <1>2, <1>3, <1>4
<1>6. PICK v, i : v = h.visit[e] /\ i = IndexOf(h, v, e) OBVIOUS
<1>7. v \in h.freed..h.tail BY <1>1, <1>5, <1>6, DataPlace
<1>8. e \in Int BY <1>5
<1>9. h.block[v] \in Blocks /\ i \in Slots BY <1>1, <1>6, <1>7, <1>8, TailPlace
<1>10. call.block = h.block[v] /\ call.index = i BY <1>2, <1>4, <1>6
<1>11. call.block \in Nat /\ call.index \in Nat BY CallTypes
<1> QED BY <1>9, <1>10, <1>11 DEF ElementThere

\* The slot after it is a number.
LEMMA NextSlot ==
  ASSUME NEW h, NEW m, NEW bp, NEW bc, NEW F, NEW s, NEW mask, Whole(h, m, bp, bc, F, s, mask),
         NEW call \in CallSet, ConsumerCall(h, call),
         call.pc = "element", NEW x, x = (call.index + 1) % (mask[call.block] + 1)
  PROVE  x \in Nat
<1>1. Shape(h) /\ Pend(h) /\ Fits(h) /\ Sizing(h, s, mask) BY WholeParts
<1>2. h.got < h.pub /\ call.block = h.block[h.visit[h.got + 1]] BY DEF ConsumerCall
<1>3. h.got \in Nat /\ h.pub \in Nat /\ h.sent \in Nat /\ h.pub <= h.sent BY <1>1, ShapeFacts
<1>4. PICK e : e = h.got + 1 OBVIOUS
<1>5. e \in (h.got + 1)..h.sent /\ e \in 1..h.sent /\ e \in Nat /\ e > h.got BY <1>2, <1>3, <1>4
<1>6. PICK v : v = h.visit[e] OBVIOUS
<1>7. v \in h.freed..h.tail BY <1>1, <1>5, <1>6, DataPlace
<1>8. v \in 1..LastVisit(h) BY <1>1, <1>7, ShapeFacts
<1>9. h.room[v] = mask[h.block[v]] + 1 BY <1>1, <1>8 DEF Sizing
<1>10. PICK r : r = h.room[v] OBVIOUS
<1>11. r \in Nat /\ r > h.unit /\ h.unit \in Nat
  BY <1>1, <1>8, <1>10, ShapeFacts DEF Shape, Circular
<1>12. PICK y : y = call.index + 1 OBVIOUS
<1>13. call.index \in Nat BY CallTypes
<1>14. y \in Int /\ r > 0 BY <1>11, <1>12, <1>13
<1>15. y % r \in Nat BY <1>11, <1>14, DivMod
<1> QED BY <1>2, <1>4, <1>6, <1>9, <1>10, <1>12, <1>15

\* The call of DequeueElement after it.
Returned(call, call2, x) == call2 = [Call(call.op, "done", call.start) EXCEPT !.ok = TRUE, !.sum = x]

\* The call that returns an element.
LEMMA TakenIs ==
  ASSUME NEW call \in CallSet, NEW x \in Nat, NEW call2, Returned(call, call2, x)
  PROVE  TakenCall(call, call2, x)
<1>1. PICK mid : mid = Call(call.op, "done", call.start) OBVIOUS
<1>2. "done" \in Pcs BY DEF Pcs
<1>3. CallIs(mid, "done", call.op, FALSE, call.start, 0, 0, 0, 0) BY <1>1, <1>2, CallTypes, CallNew
<1>4. mid \in CallSet /\ mid.pc = "done" /\ mid.op = call.op /\ mid.start = call.start /\ mid.block = 0 /\ mid.index = 0 /\ mid.first = 0
  BY <1>3 DEF CallIs
<1>5. SetOkSum(mid, call2, TRUE, x) BY <1>1 DEF Returned, SetOkSum
<1>6. CallIs(call2, mid.pc, mid.op, TRUE, mid.start, mid.block, mid.index, x, mid.first)
  BY <1>4, <1>5, CallOkSum
<1> QED BY <1>4, <1>6 DEF TakenCall

\* The elements taken are 1, 2, 3, ... after the next one was taken too.
LEMMA OneMore ==
  ASSUME NEW n \in Nat, NEW s, s = [i \in 1..n |-> i]
  PROVE  Append(s, n + 1) = [i \in 1..(n + 1) |-> i] /\ Len(Append(s, n + 1)) = n + 1
<1>1. s \in Seq(Nat) /\ Len(s) = n OBVIOUS
<1>2. PICK t : t = Append(s, n + 1) OBVIOUS
<1>3. t \in Seq(Nat) /\ Len(t) = n + 1 BY <1>1, <1>2
<1>4. DOMAIN t = 1..(n + 1) BY <1>3
<1>5. \A i \in 1..(n + 1) : t[i] = i BY <1>1, <1>2
<1>6. t = [i \in 1..(n + 1) |-> i] BY <1>3, <1>4, <1>5
<1> QED BY <1>2, <1>3, <1>6

\* DequeueElement keeps Core and takes the next element, or none for peek.
LEMMA DequeueElementCore ==
  ASSUME NEW h, Core(h), DequeueElement
  PROVE  \E h2 : Core(h2)' /\ IF c.op = "peek" THEN Kept(h, h2) ELSE Taken(h, h2)
<1>1. Whole(h, mem, stores["producer"], stores["consumer"], localFront, size, sizeMask) BY CoreParts
<1>2. c \in CallSet /\ ConsumerCall(h, c) BY CoreParts
<1>3. PICK b, i : b = c.block /\ i = c.index OBVIOUS
<1>4. PICK x : x = ByConsumer(<<"data", b, i>>) OBVIOUS
<1>5. c.pc = "element" /\ c' = [Call(c.op, "done", c.start) EXCEPT !.ok = TRUE, !.sum = x] /\ UNCHANGED <<size, mem, sizeMask, localFront, p, sent>>
  BY <1>3, <1>4 DEF DequeueElement
<1>6. ElementThere(b, i) BY <1>1, <1>2, <1>3, <1>5, ElementPlace
<1>7. b \in Blocks /\ i \in Slots /\ b \in Nat /\ i \in Nat BY <1>6 DEF ElementThere
<1>8. <<"data", b, i>> \in Locations /\ <<"front", b>> \in Locations BY <1>7, PlacesOf
<1>9. x = View(stores["consumer"], mem)[<<"data", b, i>>] BY <1>4, <1>8, ReadsView
<1>10. x = h.got + 1 BY <1>1, <1>2, <1>3, <1>5, <1>9, ElementData
<1>11. h.got \in Nat
  <2>1. Shape(h) BY CoreParts
  <2> QED BY <2>1, ShapeFacts
<1>12. TakenCall(c, c', x)
  <2>1. x \in Nat BY <1>10, <1>11
  <2>2. Returned(c, c', x) BY <1>5 DEF Returned
  <2> QED BY <1>2, <2>1, <2>2, TakenIs
<1>13. CASE c.op = "peek"
  <2>1. UNCHANGED <<stores, got>> BY <1>13 DEF DequeueElement
  <2>2. c' \in CallSet /\ ConsumerCall(h, c')
    BY <1>1, <1>2, <1>3, <1>5, <1>9, <1>12, <1>13, ElementPeek
  <2>3. Core(h)' BY <1>5, <2>1, <2>2, ConsumerOnly
  <2> QED BY <1>13, <2>3, KeptSelf
<1>14. CASE c.op # "peek"
  <2>1. PICK y : y = (i + 1) % (sizeMask[b] + 1) OBVIOUS
  <2>2. PICK issued : issued = <<Fence, Store(<<"front", b>>, y)>> OBVIOUS
  <2>3. got' = Append(got, x) /\ stores' = [stores EXCEPT !["consumer"] = Issue(stores["consumer"], issued)]
    BY <1>3, <1>4, <1>14, <2>1, <2>2 DEF DequeueElement, NextIndex
  <2>4. y \in Nat BY <1>1, <1>2, <1>3, <1>5, <2>1, NextSlot
  <2>5. Issue(stores["consumer"], issued) \in Seq(StoreSet)
    <3>1. Fence \in StoreSet /\ Store(<<"front", b>>, y) \in StoreSet BY <1>8, <2>4, StoreSetHas
    <3>2. issued \in Seq(StoreSet) BY <2>2, <3>1
    <3>3. stores["consumer"] \in Seq(StoreSet) BY CoreParts
    <3> QED BY <3>2, <3>3, IssueType
  <2>6. FenceThen(issued, Store(<<"front", b>>, (i + 1) % (sizeMask[b] + 1)))
    BY <2>1, <2>2 DEF FenceThen
  <2>7. PICK h2 : /\ Whole(h2, mem, stores["producer"], Issue(stores["consumer"], issued), localFront, size, sizeMask)
                  /\ Taken(h, h2) /\ ProducerKept(h, h2) /\ c' \in CallSet /\ ConsumerCall(h2, c')
    BY <1>1, <1>2, <1>3, <1>5, <1>9, <1>12, <1>14, <2>6, ElementTakes, ZenonT(60)
  <2>8. h.sent = sent /\ h.sent <= MaxItems /\ h.got = Len(got) /\ got = [k \in 1..h.got |-> k]
    BY CoreParts
  <2>9. h2.sent = h.sent /\ h2.got = h.got + 1 BY <2>7 DEF Taken
  <2>10. got' = [k \in 1..h2.got |-> k] /\ Len(got') = h2.got
    BY <1>10, <1>11, <2>3, <2>8, <2>9, OneMore
  <2>11. stores \in [Threads -> Seq(StoreSet)] /\ "producer" \in Threads /\ "consumer" \in Threads /\ p \in CallSet /\ ProducerCall(h, p, size)
    BY CoreParts
  <2>12. stores' \in [Threads -> Seq(StoreSet)] /\ stores'["consumer"] = Issue(stores["consumer"], issued) /\ stores'["producer"] = stores["producer"]
    BY <2>3, <2>5, <2>11, StoresWrite
  <2>13. ProducerCall(h2, p, size) BY <2>7, <2>11 DEF ProducerKept
  <2>14. Core(h2)' BY <1>5, <2>7, <2>8, <2>9, <2>10, <2>11, <2>12, <2>13 DEF Core
  <2> QED BY <1>14, <2>7, <2>14
<1> QED BY <1>13, <1>14

\* size_approx.
LEMMA WalkThere ==
  ASSUME NEW h, NEW m, NEW bp, NEW bc, NEW F, NEW s, NEW mask, Whole(h, m, bp, bc, F, s, mask),
         NEW call \in CallSet, ConsumerCall(h, call),
         call.pc \in {"block", "blockNext"}
  PROVE  call.block \in Blocks
<1>1. Shape(h) /\ Fits(h) BY WholeParts
<1>2. PICK q \in h.freed..LastVisit(h) : Walk(h, call, q) BY DEF ConsumerCall
<1>3. call.block = h.block[q] BY <1>2 DEF Walk
<1>4. h.freed \in Nat /\ 1 <= h.freed /\ LastVisit(h) \in Nat BY <1>1, ShapeFacts
<1>5. q \in 1..LastVisit(h) BY <1>2, <1>4
<1> QED BY <1>1, <1>3, <1>5, BlockFits

\* SizeStep keeps Core.
LEMMA SizeStepCore ==
  ASSUME NEW h, Core(h), SizeStep
  PROVE  \E h2 : Core(h2)' /\ Kept(h, h2)
<1>1. Whole(h, mem, stores["producer"], stores["consumer"], localFront, size, sizeMask) BY CoreParts
<1>2. c \in CallSet /\ ConsumerCall(h, c) BY CoreParts
<1>3. UNCHANGED <<size, mem, stores, sizeMask, localFront, p, sent, got>> BY DEF SizeStep
<1>4. PICK C : C = View(stores["consumer"], mem) OBVIOUS
<1>5. PICK b : b = c.block OBVIOUS
<1>6. c' \in CallSet /\ ConsumerCall(h, c')
  <2>1. CASE c.pc = "size" /\ c' = [c EXCEPT !.pc = "block", !.block = ByConsumer(<<"frontBlock">>), !.first = ByConsumer(<<"frontBlock">>)]
    <3>1. <<"frontBlock">> \in Locations BY PlacesOf
    <3>2. PICK x : x = ByConsumer(<<"frontBlock">>) OBVIOUS
    <3>3. x = View(stores["consumer"], mem)[<<"frontBlock">>] BY <3>1, <3>2, ReadsView
    <3>4. SetPcWalk(c, c', "block", x, x) BY <2>1, <3>2 DEF SetPcWalk
    <3> QED BY <1>1, <1>2, <2>1, <3>3, <3>4, SizeFirst
  <2>2. CASE c.pc = "block" /\ c' = [c EXCEPT !.pc = "blockNext", !.sum = @ + ((ByConsumer(<<"tail", c.block>>) - ByConsumer(<<"front", c.block>>)) % (sizeMask[c.block] + 1))]
    <3>1. b \in Blocks BY <1>1, <1>2, <1>5, <2>2, WalkThere
    <3>2. <<"tail", b>> \in Locations /\ <<"front", b>> \in Locations BY <3>1, PlacesOf
    <3>3. ByConsumer(<<"tail", b>>) = View(stores["consumer"], mem)[<<"tail", b>>] /\ ByConsumer(<<"front", b>>) = View(stores["consumer"], mem)[<<"front", b>>]
      BY <3>2, ReadsView
    <3>4. PICK d : d = (ByConsumer(<<"tail", b>>) - ByConsumer(<<"front", b>>)) % (sizeMask[b] + 1) OBVIOUS
    <3>5. d = (View(stores["consumer"], mem)[<<"tail", b>>] - View(stores["consumer"], mem)[<<"front", b>>]) % (sizeMask[b] + 1)
      BY <3>3, <3>4
    <3>6. c' = [c EXCEPT !.pc = "blockNext", !.sum = @ + d] BY <1>5, <2>2, <3>4
    <3>7. SetPcSum(c, c', "blockNext", c.sum + d) BY <1>2, <3>6 DEF SetPcSum, CallSet
    <3> QED BY <1>1, <1>2, <1>5, <2>2, <3>5, <3>7, SizeBlock
  <2>3. CASE c.pc = "blockNext" /\ c' = AfterBlock(ByConsumer(<<"next", c.block>>))
    <3>1. b \in Blocks BY <1>1, <1>2, <1>5, <2>3, WalkThere
    <3>2. <<"next", b>> \in Locations BY <3>1, PlacesOf
    <3>3. PICK x : x = ByConsumer(<<"next", b>>) OBVIOUS
    <3>4. x = View(stores["consumer"], mem)[<<"next", c.block>>] BY <1>5, <3>2, <3>3, ReadsView
    <3>5. c' = AfterBlock(x) BY <1>5, <2>3, <3>3
    <3>6. IF x = c.first THEN SetPcEnd(c, c', "done", TRUE, 0, 0) ELSE SetPcBlock(c, c', "block", x)
      BY <3>5 DEF AfterBlock, SetPcEnd, SetPcBlock
    <3> QED BY <1>1, <1>2, <2>3, <3>4, <3>6, SizeNext
  <2> QED BY <2>1, <2>2, <2>3 DEF SizeStep
<1>7. Core(h)' BY <1>3, <1>6, ConsumerOnly
<1> QED BY <1>7, KeptSelf

\* Publishing is what PublishesLast counts.
LEMMA PublishingIs == Publishing = PublishingOf(stores["producer"])
BY DEF Publishing, PublishingOf

\* The model's published and released are pub and rel of the history.
LEMMA CountsAre ==
  ASSUME NEW h, Core(h)
  PROVE  published = h.pub /\ released = h.rel
<1>1. Whole(h, mem, stores["producer"], stores["consumer"], localFront, size, sizeMask) BY CoreParts
<1>2. h.sent = sent /\ h.got = Len(got) BY CoreParts
<1>3. h.sent - Cardinality(PublishingOf(stores["producer"])) = h.pub BY <1>1, PublishedIs
<1>4. h.got - Cardinality(Pending(stores["consumer"], "front")) = h.rel BY <1>1, ReleasedIs
<1>5. published = h.pub BY <1>2, <1>3, PublishingIs DEF published
<1>6. released = h.rel BY <1>2, <1>4 DEF released
<1> QED BY <1>5, <1>6

\* CallEnqueue keeps Core.
LEMMA CallEnqueueCore ==
  ASSUME NEW h, Core(h), NEW op \in {"enqueue", "try_enqueue"}, CallEnqueue(op)
  PROVE  Core(h)'
<1>1. Shape(h) /\ h.sent = sent BY CoreParts
<1>2. p' = Call(op, "enqueue", released) /\ sent < MaxItems /\ UNCHANGED <<size, mem, stores, sizeMask, localFront, c, sent, got>>
  BY DEF CallEnqueue
<1>3. p' = Call(op, "enqueue", h.rel) BY <1>2, CountsAre
<1>4. p' \in CallSet /\ ProducerCall(h, p', size) BY <1>1, <1>2, <1>3, BeginEnqueue
<1> QED BY <1>2, <1>4, ProducerOnly

\* CallDequeue keeps Core.
LEMMA CallDequeueCore ==
  ASSUME NEW h, Core(h), NEW op \in {"try_dequeue", "peek"}, CallDequeue(op)
  PROVE  Core(h)'
<1>1. Shape(h) BY CoreParts
<1>2. c' = Call(op, "dequeue", published) /\ UNCHANGED <<size, mem, stores, sizeMask, localFront, p, sent, got>>
  BY DEF CallDequeue
<1>3. c' = Call(op, "dequeue", h.pub) BY <1>2, CountsAre
<1>4. c' \in CallSet /\ ConsumerCall(h, c') BY <1>1, <1>3, BeginDequeue
<1> QED BY <1>2, <1>4, ConsumerOnly

\* CallSize keeps Core.
LEMMA CallSizeCore ==
  ASSUME NEW h, Core(h), CallSize
  PROVE  Core(h)'
<1>1. Shape(h) BY CoreParts
<1>2. c' = Call("size_approx", "size", published) /\ UNCHANGED <<size, mem, stores, sizeMask, localFront, p, sent, got>>
  BY DEF CallSize
<1>3. c' = Call("size_approx", "size", h.pub) BY <1>2, CountsAre
<1>4. c' \in CallSet /\ ConsumerCall(h, c') BY <1>1, <1>3, BeginSize
<1> QED BY <1>2, <1>4, ConsumerOnly

\* ReturnEnqueue and ReturnDequeue keep Core.
LEMMA ReturnCore ==
  ASSUME NEW h, Core(h), ReturnEnqueue \/ ReturnDequeue
  PROVE  Core(h)'
<1>1. Shape(h) BY CoreParts
<1>2. Idle \in CallSet /\ ConsumerCall(h, Idle) /\ ProducerCall(h, Idle, size)
  BY <1>1, IdleCall DEF CallIs
<1>3. CASE ReturnEnqueue
  <2>1. p' = Idle /\ UNCHANGED <<size, mem, stores, sizeMask, localFront, c, sent, got>>
    BY <1>3 DEF ReturnEnqueue
  <2> QED BY <1>2, <2>1, ProducerOnly
<1>4. CASE ReturnDequeue
  <2>1. c' = Idle /\ UNCHANGED <<size, mem, stores, sizeMask, localFront, p, sent, got>>
    BY <1>4 DEF ReturnDequeue
  <2> QED BY <1>2, <2>1, ConsumerOnly
<1> QED BY <1>3, <1>4

\* Drain keeps Core and publishes or releases at most one element.
LEMMA DrainCore ==
  ASSUME NEW h, Core(h), NEW t \in Threads, Drain(t)
  PROVE  \E h2 : Core(h2)' /\ IF t = "producer" THEN DrainedBy(h, h2) ELSE ReleasedBy(h, h2)
<1>1. Whole(h, mem, stores["producer"], stores["consumer"], localFront, size, sizeMask) BY CoreParts
<1>2. PICK i \in Leaving(stores[t]) : mem' = [mem EXCEPT ![stores[t][i].loc] = stores[t][i].val] /\ stores' = [stores EXCEPT ![t] = Left(@, i)]
  BY DEF Drain
<1>3. UNCHANGED <<size, sizeMask, localFront, p, c, sent, got>> BY DEF Drain
<1>4. stores \in [Threads -> Seq(StoreSet)] /\ "producer" \in Threads /\ "consumer" \in Threads
  BY CoreParts
<1>5. h.sent = sent /\ h.sent <= MaxItems /\ h.got = Len(got) /\ got = [k \in 1..h.got |-> k]
  BY CoreParts
<1>6. p \in CallSet /\ c \in CallSet /\ ProducerCall(h, p, size) /\ ConsumerCall(h, c) BY CoreParts
<1>7. PICK buf : buf = stores[t] OBVIOUS
<1>8. buf \in Seq(StoreSet) /\ i \in Leaving(buf) BY <1>4, <1>7
<1>9. PICK left : left = Left(buf, i) OBVIOUS
<1>10. left \in Seq(StoreSet) BY <1>8, <1>9, LeftType
<1>11. stores' = [stores EXCEPT ![t] = left] BY <1>2, <1>4, <1>7, <1>9
<1>12. stores' \in [Threads -> Seq(StoreSet)] /\ stores'[t] = left /\ \A u \in Threads : u # t => stores'[u] = stores[u]
  BY <1>4, <1>10, <1>11, StoresWrite
<1>13. CASE t = "producer"
  <2>1. PICK h2 : Whole(h2, mem', Left(stores["producer"], i), stores["consumer"], localFront, size, sizeMask) /\ DrainedBy(h, h2) /\ CallsKept(h, h2)
    BY <1>1, <1>2, <1>13, ProducerDrain
  <2>2. h2.sent = h.sent /\ h2.got = h.got BY <2>1 DEF DrainedBy
  <2>3. ProducerCall(h2, p, size) /\ ConsumerCall(h2, c) BY <1>6, <2>1 DEF CallsKept
  <2>4. stores'["producer"] = Left(stores["producer"], i) /\ stores'["consumer"] = stores["consumer"]
    BY <1>4, <1>7, <1>9, <1>12, <1>13
  <2>5. Core(h2)' BY <1>3, <1>5, <1>6, <1>12, <2>1, <2>2, <2>3, <2>4 DEF Core
  <2> QED BY <1>13, <2>1, <2>5
<1>14. CASE t = "consumer"
  <2>1. PICK h2 : Whole(h2, mem', stores["producer"], Left(stores["consumer"], i), localFront, size, sizeMask) /\ ReleasedBy(h, h2) /\ CallsKept(h, h2)
    BY <1>1, <1>2, <1>14, ConsumerDrain
  <2>2. h2.sent = h.sent /\ h2.got = h.got BY <2>1 DEF ReleasedBy
  <2>3. ProducerCall(h2, p, size) /\ ConsumerCall(h2, c) BY <1>6, <2>1 DEF CallsKept
  <2>4. stores'["consumer"] = Left(stores["consumer"], i) /\ stores'["producer"] = stores["producer"]
    BY <1>4, <1>7, <1>9, <1>12, <1>14
  <2>5. Core(h2)' BY <1>3, <1>5, <1>6, <1>12, <2>1, <2>2, <2>3, <2>4 DEF Core
  <2> QED BY <1>14, <2>1, <2>5
<1> QED BY <1>13, <1>14 DEF Threads

\* Destroy keeps Core.
LEMMA DestroyCore ==
  ASSUME NEW h, Core(h), Destroy
  PROVE  Core(h)'
<1>1. p.pc = "idle" /\ c.pc = "idle" /\ p' = [p EXCEPT !.pc = "gone"] /\ c' = [c EXCEPT !.pc = "gone"] /\ UNCHANGED <<size, mem, stores, sizeMask, localFront, sent, got>>
  BY DEF Destroy
<1>2. p \in CallSet /\ c \in CallSet /\ ProducerCall(h, p, size) /\ ConsumerCall(h, c) BY CoreParts
<1>3. SetPc(p, p', "gone") /\ SetPc(c, c', "gone") /\ "gone" \in Pcs BY <1>1 DEF SetPc, Pcs
<1>4. CallIs(p', "gone", p.op, p.ok, p.start, p.block, p.index, p.sum, p.first)
  BY <1>2, <1>3, CallPc
<1>5. CallIs(c', "gone", c.op, c.ok, c.start, c.block, c.index, c.sum, c.first)
  BY <1>2, <1>3, CallPc
<1>6. p' \in CallSet /\ p'.pc = "gone" /\ p'.start = p.start BY <1>4 DEF CallIs
<1>7. c' \in CallSet /\ c'.pc = "gone" /\ c'.start = c.start BY <1>5 DEF CallIs
<1>8. p.start <= h.rel /\ c.start <= h.pub BY <1>2 DEF ProducerCall, ConsumerCall
<1>9. ProducerCall(h, p', size) BY <1>6, <1>8 DEF ProducerCall
<1>10. ConsumerCall(h, c') BY <1>7, <1>8 DEF ConsumerCall
<1> QED BY <1>1, <1>6, <1>7, <1>9, <1>10 DEF Core

-----------------------------------------------------------------------------
(* The constructor.                                                        *)

\* The history of a queue that was just constructed.
Fresh(h, N, B) ==
  /\ h.n = N /\ h.unit = B - 1 /\ h.freed = 1 /\ h.front = 1 /\ h.shown = 1 /\ h.tail = 1
  /\ h.rel = 0 /\ h.got = 0 /\ h.pub = 0 /\ h.sent = 0
  /\ h.block = [v \in 1..N |-> v] /\ h.room = [v \in 1..N |-> B] /\ h.grown = {}
  /\ h.first = [v \in 1..2 |-> 1] /\ h.base = [v \in 1..1 |-> 1] /\ h.visit = [e \in 1..0 |-> 1]
  /\ h.lf = 1 /\ h.lt = 1 /\ h.S = [t \in {} |-> Fence] /\ h.R = [t \in {} |-> Fence]

\* The history of a queue that was just constructed.
LEMMA FreshExists ==
  ASSUME NEW N, NEW B
  PROVE  \E h : Fresh(h, N, B)
<1>1. PICK block, room, first, base, visit, S :
         /\ block = [v \in 1..N |-> v] /\ room = [v \in 1..N |-> B] /\ first = [v \in 1..2 |-> 1] /\ base = [v \in 1..1 |-> 1]
         /\ visit = [e \in 1..0 |-> 1] /\ S = [t \in {} |-> Fence] OBVIOUS
<1>2. PICK unit : unit = B - 1 OBVIOUS
<1>3. PICK h : h = [n |-> N, unit |-> unit, freed |-> 1, front |-> 1, shown |-> 1, tail |-> 1, rel |-> 0, got |-> 0, pub |-> 0, sent |-> 0,
          block |-> block, room |-> room, grown |-> {}, first |-> first, base |-> base,
          visit |-> visit, lf |-> 1, lt |-> 1, S |-> S, R |-> S] OBVIOUS
<1>4. /\ h.n = N /\ h.unit = unit /\ h.freed = 1 /\ h.front = 1 /\ h.shown = 1 /\ h.tail = 1
      /\ h.rel = 0 /\ h.got = 0 /\ h.pub = 0 /\ h.sent = 0 BY <1>3
<1>5. h.block = block /\ h.room = room /\ h.grown = {} /\ h.first = first /\ h.base = base /\ h.visit = visit /\ h.lf = 1 /\ h.lt = 1 /\ h.S = S /\ h.R = S
  BY <1>3
<1>6. Fresh(h, N, B) BY <1>1, <1>2, <1>4, <1>5 DEF Fresh
<1> QED BY <1>6

\* It has the shape of a history: every block is ahead of the first one and empty.
LEMMA FreshShape ==
  ASSUME NEW N \in Nat, N >= 1, NEW B \in Nat, B >= 2, NEW h, Fresh(h, N, B)
  PROVE  Shape(h) /\ LastVisit(h) = N
<1>1. LastVisit(h) = N BY DEF Fresh, LastVisit
<1>2. Counters(h) BY <1>1 DEF Fresh, Counters
<1>3. Circular(h)
  <2>1. h.block = [v \in 1..N |-> v] /\ h.room = [v \in 1..N |-> B] /\ h.grown = {} /\ h.n = N /\ h.unit = B - 1 /\ h.freed = 1
    BY DEF Fresh
  <2>2. h.block \in [1..N -> 1..N] /\ h.room \in [1..N -> Nat] BY <2>1
  <2>3. \A b \in 1..h.n : \E v \in h.freed..N : h.block[v] = b BY <2>1
  <2>4. \A v \in 1..N : h.room[v] > h.unit BY <2>1
  <2> QED BY <1>1, <2>1, <2>2, <2>3, <2>4 DEF Circular
<1>4. Visits(h)
  <2>1. h.first = [v \in 1..2 |-> 1] /\ h.base = [v \in 1..1 |-> 1] /\ h.visit = [e \in 1..0 |-> 1] /\ h.tail = 1 /\ h.sent = 0
    BY DEF Fresh
  <2>2. h.first \in [1..(h.tail + 1) -> Nat] /\ h.first[1] = 1 /\ h.first[2] = 1 BY <2>1
  <2>3. h.first[h.tail + 1] = h.sent + 1 BY <2>1, <2>2
  <2>4. \A v, w \in 1..(h.tail + 1) : v <= w => h.first[v] <= h.first[w] BY <2>1
  <2>5. \A v, w \in 1..h.tail : v <= w => h.first[w] - h.first[v] >= (w - v) * h.unit
    <3>1. SUFFICES ASSUME NEW v \in 1..h.tail, NEW w \in 1..h.tail PROVE h.first[w] - h.first[v] >= (w - v) * h.unit OBVIOUS
    <3>2. v = 1 /\ w = 1 BY <2>1
    <3>3. h.unit \in Nat BY DEF Fresh
    <3>4. h.first[w] - h.first[v] = 0 BY <2>2, <3>2
    <3>5. w - v = 0 BY <3>2
    <3>6. 0 * h.unit = 0 BY <3>3
    <3> QED BY <3>4, <3>5, <3>6
  <2>6. \A v \in 2..h.tail : h.first[v] < h.first[v + 1] BY <2>1
  <2>7. h.base \in [1..h.tail -> Int] BY <2>1
  <2>8. h.visit \in [1..h.sent -> 1..h.tail] BY <2>1
  <2>9. \A e \in 1..h.sent : h.first[h.visit[e]] <= e /\ e < h.first[h.visit[e] + 1] BY <2>1
  <2> QED BY <2>2, <2>3, <2>4, <2>5, <2>6, <2>7, <2>8, <2>9 DEF Visits
<1>5. Positions(h)
  <2>1. h.first[1] = 1 /\ h.first[2] = 1 /\ h.freed = 1 /\ h.front = 1 /\ h.shown = 1 /\ h.tail = 1 /\ h.rel = 0 /\ h.got = 0 /\ h.pub = 0 /\ h.sent = 0 /\ h.lf = 1 /\ h.lt = 1
    BY DEF Fresh
  <2>2. MemTail(h, 1) = 1 BY <2>1 DEF MemTail
  <2>3. MemFront(h, 1) = 1 BY <2>1 DEF MemFront
  <2>4. h.room[1] = B BY DEF Fresh
  <2>5. \A v \in h.freed..h.tail : h.first[v + 1] - MemFront(h, v) < h.room[v]
    <3>1. SUFFICES ASSUME NEW v \in h.freed..h.tail PROVE h.first[v + 1] - MemFront(h, v) < h.room[v] OBVIOUS
    <3>2. v = 1 BY <2>1
    <3>3. h.first[v + 1] = 1 BY <2>1, <3>2
    <3> QED BY <2>3, <2>4, <3>2, <3>3
  <2> QED BY <2>1, <2>2, <2>3, <2>4, <2>5 DEF Positions
<1> QED BY <1>1, <1>2, <1>3, <1>4, <1>5 DEF Shape

\* No store waits.
LEMMA FreshPend ==
  ASSUME NEW N \in Nat, NEW B \in Nat, NEW h, Fresh(h, N, B)
  PROVE  Pend(h) /\ PendingFronts(h)
<1>1. h.pub = 0 /\ h.sent = 0 /\ h.rel = 0 /\ h.got = 0 /\ h.freed = 1 /\ h.front = 1 /\ DOMAIN h.S = {} /\ DOMAIN h.R = {}
  BY DEF Fresh
<1>2. (h.pub + 1)..h.sent = {} /\ (h.rel + 1)..h.got = {} /\ (h.freed + 1)..h.front = {} BY <1>1
<1>3. PendingTags(h) BY <1>1, <1>2 DEF PendingTags
<1>4. PendingStores(h) BY <1>2 DEF PendingStores
<1>5. PendingFronts(h) BY <1>1, <1>2 DEF PendingFronts
<1> QED BY <1>3, <1>4, <1>5 DEF Pend

\* The circle is that of the constructor: one block, or as many as size takes.
LEMMA FreshSizing ==
  ASSUME NEW s \in Sizes, NEW N, N = InitialBlockCount(s), NEW B, B = InitialBlockSize(s), NEW h,
         Fresh(h, N, B), NEW mask, mask = [b \in 1..N |-> B - 1]
  PROVE  /\ Sizing(h, s, mask) /\ N \in Nat /\ N >= 1 /\ N \in Blocks /\ B \in Nat /\ B >= 2
<1>1. N \in Nat /\ N >= 1 /\ B \in Nat /\ B >= 2 BY InitialSizes
<1>2. Room(B) BY RoomInitial
<1>3. mask \in Seq(Nat) /\ Len(mask) = N BY <1>1
<1>4. N \in Blocks
  <2>1. PICK k \in Nat : Blocks = 1..k /\ MaxBlocks <= k /\ \A x \in Sizes : InitialBlockCount(x) <= k
    BY BlocksIs
  <2> QED BY <1>1, <2>1
<1>5. h.n = N /\ h.unit = B - 1 BY DEF Fresh
<1>6. ASSUME NEW b \in 1..h.n PROVE Room(mask[b] + 1) /\ mask[b] >= h.unit
  <2>1. mask[b] = B - 1 BY <1>5
  <2>2. mask[b] + 1 = B BY <1>1, <2>1
  <2> QED BY <1>1, <1>2, <1>5, <2>1, <2>2
<1>7. LastVisit(h) = N BY <1>1, FreshShape
<1>8. ASSUME NEW v \in 1..LastVisit(h) PROVE h.room[v] = mask[h.block[v]] + 1
  <2>1. h.room[v] = B /\ h.block[v] = v BY <1>7 DEF Fresh
  <2>2. mask[v] = B - 1 BY <1>7
  <2> QED BY <1>1, <2>1, <2>2
<1>9. Sizing(h, s, mask)
  <2>1. h.unit = InitialBlockSize(s) - 1 /\ h.n >= InitialBlockCount(s) BY <1>1, <1>5
  <2>2. mask \in Seq(Nat) /\ Len(mask) = h.n /\ h.n \in Blocks BY <1>3, <1>4, <1>5
  <2> QED BY <1>6, <1>8, <2>1, <2>2 DEF Sizing
<1> QED BY <1>1, <1>4, <1>9

\* The memory of a queue that was just constructed.
FreshMemory(m, N) ==
  /\ m \in [Locations -> Nat]
  /\ m[<<"frontBlock">>] = 1 /\ m[<<"tailBlock">>] = 1
  /\ \A b \in Blocks : m[<<"tail", b>>] = 0 /\ m[<<"front", b>>] = 0 /\ m[<<"localTail", b>>] = 0
  /\ \A b \in 1..N : m[<<"next", b>>] = (b % N) + 1

\* The constructor's memory is what that history says.
LEMMA FreshViews ==
  ASSUME NEW N \in Nat, N >= 1, N \in Blocks, NEW B \in Nat, B >= 2, NEW h, Fresh(h, N, B), NEW m,
         FreshMemory(m, N), NEW F, F = [b \in Blocks |-> 0]
  PROVE  Views(h, m, m, m, F)
<1>1. Shape(h) /\ LastVisit(h) = N BY FreshShape
<1>2. h.freed = 1 /\ h.front = 1 /\ h.shown = 1 /\ h.tail = 1 /\ h.rel = 0 /\ h.got = 0 /\ h.pub = 0 /\ h.sent = 0 /\ h.n = N /\ h.lf = 1 /\ h.lt = 1 /\ DOMAIN h.S = {}
  BY DEF Fresh
<1>3. \A v \in 1..N : h.block[v] = v /\ h.room[v] = B BY DEF Fresh
<1>4. h.block[1] = 1 /\ h.first[1] = 1 /\ h.first[2] = 1 /\ h.base[1] = 1 /\ h.room[1] = B
  BY <1>3 DEF Fresh
<1>5. PICK k \in Nat : Blocks = 1..k
  <2>1. PICK k \in Nat : Blocks = 1..k /\ MaxBlocks <= k /\ \A x \in Sizes : InitialBlockCount(x) <= k
    BY BlocksIs
  <2> QED BY <2>1
<1>6. 1..N \subseteq Blocks /\ 1 \in Blocks BY <1>5
<1>7. IndexOf(h, 1, 1) = 0
  <2>1. (1 - 1) % B = 0
    <3>1. 0 \in 0..(B - 1) /\ 0 = B * 0 + 0 /\ 0 \in Int OBVIOUS
    <3>2. 0 % B = 0 BY <3>1, DivMod2
    <3> QED BY <3>2
  <2> QED BY <1>4, <2>1 DEF IndexOf, Slot
<1>8. MemTail(h, 1) = 1 /\ MemFront(h, 1) = 1 /\ OwnFront(h, 1) = 1
  BY <1>2 DEF MemTail, MemFront, OwnFront
<1>9. ASSUME NEW v \in h.freed..h.tail PROVE v = 1 /\ h.first[v + 1] = 1 BY <1>2, <1>4
<1>10. m[<<"tail", 1>>] = 0 /\ m[<<"front", 1>>] = 0 /\ m[<<"localTail", 1>>] = 0 /\ m[<<"frontBlock">>] = 1 /\ m[<<"tailBlock">>] = 1
  BY <1>6 DEF FreshMemory
<1>11. TailViews(h, m, m)
  <2>1. ASSUME NEW v \in h.freed..h.tail PROVE m[<<"tail", h.block[v]>>] = IndexOf(h, v, h.first[v + 1]) /\ m[<<"tail", h.block[v]>>] = IndexOf(h, v, MemTail(h, v))
    BY <1>4, <1>7, <1>8, <1>9, <1>10
  <2> QED BY <1>2, <1>4, <1>10, <2>1 DEF TailViews
<1>12. FrontViews(h, m, m)
  <2>1. ASSUME NEW v \in h.freed..h.tail PROVE m[<<"front", h.block[v]>>] = IndexOf(h, v, OwnFront(h, v)) /\ m[<<"front", h.block[v]>>] = IndexOf(h, v, MemFront(h, v))
    BY <1>4, <1>7, <1>8, <1>9, <1>10
  <2> QED BY <1>2, <1>4, <1>10, <2>1 DEF FrontViews
<1>13. FreeViews(h, m, m, m, F)
  <2>1. ASSUME NEW v \in (h.tail + 1)..LastVisit(h)
        PROVE  LET b == h.block[v] IN m[<<"tail", b>>] \in 0..(h.room[v] - 1) /\ m[<<"front", b>>] = m[<<"tail", b>>]
    <3>1. v \in 1..N BY <1>1, <1>2
    <3>2. h.block[v] = v /\ h.room[v] = B /\ v \in Blocks BY <1>3, <1>6, <3>1
    <3>3. m[<<"tail", v>>] = 0 /\ m[<<"front", v>>] = 0 BY <3>2 DEF FreshMemory
    <3> QED BY <3>2, <3>3
  <2>2. ASSUME NEW b \in Blocks PROVE m[<<"tail", b>>] = 0 /\ m[<<"front", b>>] = 0 /\ F[b] = 0
    BY DEF FreshMemory
  <2> QED BY <2>1, <2>2 DEF FreeViews
<1>14. NextViews(h, m, m)
  <2>1. ASSUME NEW v \in h.freed..LastVisit(h) PROVE m[<<"next", h.block[v]>>] = NextOf(h, v)
    <3>1. v \in 1..N BY <1>1, <1>2
    <3>2. m[<<"next", h.block[v]>>] = (v % N) + 1 BY <1>3, <3>1 DEF FreshMemory
    <3>3. CASE v = N
      <4>1. N % N = 0
        <5>1. 0 \in 0..(N - 1) /\ N = N * 1 + 0 /\ 1 \in Int /\ N \in Int OBVIOUS
        <5> QED BY <5>1, DivMod2
      <4>2. NextOf(h, v) = 1 BY <1>1, <1>2, <1>4, <3>3 DEF NextOf
      <4> QED BY <3>2, <3>3, <4>1, <4>2
    <3>4. CASE v # N
      <4>1. v % N = v
        <5>1. v \in 0..(N - 1) /\ v = N * 0 + v /\ 0 \in Int /\ v \in Int BY <3>1, <3>4
        <5> QED BY <5>1, DivMod2
      <4>2. v + 1 \in 1..N BY <3>1, <3>4
      <4>3. NextOf(h, v) = v + 1 BY <1>1, <1>3, <3>4, <4>2 DEF NextOf
      <4> QED BY <3>2, <4>1, <4>3
    <3> QED BY <3>3, <3>4
  <2>2. ASSUME NEW v \in h.freed..LastVisit(h) PROVE Link(h, v, m[<<"next", h.block[v]>>])
    BY <1>2, <2>1 DEF Link
  <2> QED BY <2>1, <2>2 DEF NextViews
<1>15. DataViews(h, m)
  <2>1. (h.got + 1)..h.sent = {} BY <1>2
  <2> QED BY <2>1 DEF DataViews
<1>16. ShadowViews(h, m, F) BY <1>2, <1>4, <1>6, <1>7, <1>10 DEF ShadowViews
<1> QED BY <1>11, <1>12, <1>13, <1>14, <1>15, <1>16 DEF Views

\* A thread without pending stores sees memory.
LEMMA EmptyView ==
  ASSUME NEW m \in [Locations -> Nat], NEW buf, buf = << >>
  PROVE  View(buf, m) = m
<1>1. ASSUME NEW l \in Locations PROVE Load(buf, m, l) = m[l]
  <2>1. DOMAIN buf = {} OBVIOUS
  <2>2. {i \in DOMAIN buf : buf[i].loc = l} = {} BY <2>1
  <2> QED BY <2>2 DEF Load
<1> QED BY <1>1 DEF View

\* An empty buffer holds no store of the history.
LEMMA EmptyHolds ==
  ASSUME NEW buf, buf = << >>, NEW S, DOMAIN S = {}
  PROVE  Holds(buf, S)
<1>1. Len(buf) = 0 /\ 1..Len(buf) = {} OBVIOUS
<1>2. PICK tags : tags = [i \in 1..Len(buf) |-> 0] OBVIOUS
<1>3. tags \in [1..Len(buf) -> DOMAIN S] BY <1>1, <1>2
<1> QED BY <1>1, <1>3 DEF Holds

\* Init sets memory as the constructor does.
LEMMA InitMemory ==
  ASSUME Init
  PROVE  FreshMemory(mem, InitialBlockCount(size))
<1>1. size \in Sizes BY DEF Init
<1>2. PICK N : N = InitialBlockCount(size) OBVIOUS
<1>3. N \in Nat /\ N >= 1 BY <1>1, <1>2, InitialSizes
<1>4. DOMAIN sizeMask = 1..N BY <1>2 DEF Init
<1>5. PICK V : V = [loc \in Locations |-> CASE loc[1] = "next" -> IF loc[2] \in 1..N THEN (loc[2] % N) + 1 ELSE 0
                   [] loc[1] \in {"frontBlock", "tailBlock"} -> 1
                   [] OTHER -> 0] OBVIOUS
<1>6. mem = V BY <1>2, <1>4, <1>5 DEF Init
<1>7. ASSUME NEW l \in Locations PROVE /\ l[1] = "next" /\ l[2] \in 1..N => mem[l] = (l[2] % N) + 1
                                       /\ l[1] = "next" /\ l[2] \notin 1..N => mem[l] = 0
                                       /\ l[1] \in {"frontBlock", "tailBlock"} => mem[l] = 1
                                       /\ l[1] \notin {"next", "frontBlock", "tailBlock"} => mem[l] = 0
  BY <1>5, <1>6
<1>8. ASSUME NEW l \in Locations PROVE mem[l] \in Nat
  <2>1. CASE l[1] = "next" /\ l[2] \in 1..N
    <3>1. PICK b \in 1..N : b = l[2] BY <2>1
    <3>2. b \in Int /\ N > 0 BY <1>3
    <3>3. b % N \in Nat BY <1>3, <3>2, DivMod
    <3> QED BY <1>7, <2>1, <3>1, <3>3
  <2> QED BY <1>7, <2>1
<1>9. mem \in [Locations -> Nat] BY <1>5, <1>6, <1>8
<1>10. mem[<<"frontBlock">>] = 1 /\ mem[<<"tailBlock">>] = 1
  <2>1. PICK l \in Locations : l = <<"frontBlock">> BY PlacesOf
  <2>2. PICK k \in Locations : k = <<"tailBlock">> BY PlacesOf
  <2> QED BY <1>7, <2>1, <2>2
<1>11. ASSUME NEW b \in Blocks PROVE mem[<<"tail", b>>] = 0 /\ mem[<<"front", b>>] = 0 /\ mem[<<"localTail", b>>] = 0
  <2>1. PICK l \in Locations : l = <<"tail", b>> BY PlacesOf
  <2>2. PICK k \in Locations : k = <<"front", b>> BY PlacesOf
  <2>3. PICK j \in Locations : j = <<"localTail", b>> BY PlacesOf
  <2>4. l[1] = "tail" /\ k[1] = "front" /\ j[1] = "localTail" BY <2>1, <2>2, <2>3
  <2>5. mem[l] = 0 /\ mem[k] = 0 /\ mem[j] = 0 BY <1>7, <2>4
  <2> QED BY <2>1, <2>2, <2>3, <2>5
<1>12. ASSUME NEW b \in 1..N PROVE mem[<<"next", b>>] = (b % N) + 1
  <2>1. PICK k \in Nat : Blocks = 1..k /\ MaxBlocks <= k /\ \A x \in Sizes : InitialBlockCount(x) <= k
    BY BlocksIs
  <2>2. b \in Blocks BY <1>1, <1>2, <1>3, <2>1
  <2>3. PICK l \in Locations : l = <<"next", b>> BY <2>2, PlacesOf
  <2>4. l[1] = "next" /\ l[2] = b BY <2>3
  <2> QED BY <1>7, <2>3, <2>4
<1>13. FreshMemory(mem, N) BY <1>9, <1>10, <1>11, <1>12 DEF FreshMemory
<1> QED BY <1>2, <1>13

\* A queue that was just constructed.
LEMMA InitCore ==
  ASSUME Init
  PROVE  \E h : Core(h) /\ h.sent = 0 /\ h.got = 0 /\ h.pub = 0
<1>1. PICK s, N, B : s = size /\ N = InitialBlockCount(size) /\ B = InitialBlockSize(size) OBVIOUS
<1>2. PICK h : Fresh(h, N, B) BY FreshExists
<1>3. /\ s \in Sizes /\ sizeMask = [b \in 1..N |-> B - 1] /\ localFront = [b \in Blocks |-> 0]
  BY <1>1 DEF Init
<1>4. Sizing(h, s, sizeMask) /\ N \in Nat /\ N >= 1 /\ N \in Blocks /\ B \in Nat /\ B >= 2
  BY <1>1, <1>2, <1>3, FreshSizing
<1>5. FreshMemory(mem, N) BY <1>1, InitMemory
<1>6. mem \in [Locations -> Nat] BY <1>5 DEF FreshMemory
<1>7. stores = [t \in Threads |-> << >>] BY DEF Init
<1>8. stores["producer"] = << >> /\ stores["consumer"] = << >> BY <1>7 DEF Threads
<1>9. View(stores["producer"], mem) = mem /\ View(stores["consumer"], mem) = mem
  BY <1>6, <1>8, EmptyView
<1>10. Views(h, mem, mem, mem, localFront) BY <1>2, <1>3, <1>4, <1>5, FreshViews
<1>11. Shape(h) BY <1>2, <1>4, FreshShape
<1>12. Pend(h) /\ PendingFronts(h) BY <1>2, <1>4, FreshPend
<1>13. World(h, mem, View(stores["producer"], mem), View(stores["consumer"], mem), localFront, size, sizeMask)
  BY <1>1, <1>4, <1>9, <1>10, <1>11, <1>12 DEF World
<1>14. DOMAIN h.S = {} /\ DOMAIN h.R = {} BY <1>2 DEF Fresh
<1>15. Holds(stores["producer"], h.S) /\ Holds(stores["consumer"], h.R) BY <1>8, <1>14, EmptyHolds
<1>16. << >> \in Seq(StoreSet) OBVIOUS
<1>17. stores["producer"] \in Seq(StoreSet) /\ stores["consumer"] \in Seq(StoreSet) /\ stores \in [Threads -> Seq(StoreSet)]
  BY <1>7, <1>8, <1>16
<1>18. localFront \in [Blocks -> Nat] BY <1>3
<1>19. Whole(h, mem, stores["producer"], stores["consumer"], localFront, size, sizeMask)
  BY <1>6, <1>13, <1>15, <1>17, <1>18 DEF Whole
<1>20. h.sent = 0 /\ h.got = 0 /\ h.pub = 0 BY <1>2 DEF Fresh
<1>21. sent = 0 /\ got = << >> /\ p = Idle /\ c = Idle BY DEF Init
<1>22. Idle \in CallSet /\ ConsumerCall(h, Idle) /\ ProducerCall(h, Idle, size)
  BY <1>11, IdleCall DEF CallIs
<1>23. h.got = Len(got) /\ got = [i \in 1..h.got |-> i] BY <1>20, <1>21
<1>24. h.sent <= MaxItems BY <1>20, QueueAssumption
<1>25. Core(h) BY <1>17, <1>19, <1>20, <1>21, <1>22, <1>23, <1>24 DEF Core
<1> QED BY <1>20, <1>25

-----------------------------------------------------------------------------
(* What a step of the inner queue means to the semaphore.                  *)

\* A call goes on at pc.
Goes(call, call2, pc, ok) == call2.pc = pc /\ call2.ok = ok /\ call2.op = call.op /\ call2.start = call.start

\* A step inside a call keeps its operation and its beginning.
LEMMA GoesOn ==
  ASSUME NEW call \in CallSet, NEW call2, NEW pc, NEW ok, NEW x, NEW y
  PROVE  /\ SetPc(call, call2, pc) => Goes(call, call2, pc, call.ok)
         /\ SetPcOk(call, call2, pc, ok) => Goes(call, call2, pc, ok)
         /\ SetPcBlock(call, call2, pc, x) => Goes(call, call2, pc, call.ok)
         /\ SetPcSum(call, call2, pc, x) => Goes(call, call2, pc, call.ok)
         /\ SetPcPlace(call, call2, pc, x, y) => Goes(call, call2, pc, call.ok)
         /\ SetPcWalk(call, call2, pc, x, y) => Goes(call, call2, pc, call.ok)
         /\ SetPcDone(call, call2, pc, ok, x, y) => Goes(call, call2, pc, ok)
         /\ SetPcEnd(call, call2, pc, ok, x, y) => Goes(call, call2, pc, ok)
<1>1. SetPc(call, call2, pc) => Goes(call, call2, pc, call.ok) BY DEF SetPc, Goes, CallSet
<1>2. SetPcOk(call, call2, pc, ok) => Goes(call, call2, pc, ok) BY DEF SetPcOk, Goes, CallSet
<1>3. SetPcBlock(call, call2, pc, x) => Goes(call, call2, pc, call.ok)
  BY DEF SetPcBlock, Goes, CallSet
<1>4. SetPcSum(call, call2, pc, x) => Goes(call, call2, pc, call.ok) BY DEF SetPcSum, Goes, CallSet
<1>5. SetPcPlace(call, call2, pc, x, y) => Goes(call, call2, pc, call.ok)
  BY DEF SetPcPlace, Goes, CallSet
<1>6. SetPcWalk(call, call2, pc, x, y) => Goes(call, call2, pc, call.ok)
  BY DEF SetPcWalk, Goes, CallSet
<1>7. SetPcDone(call, call2, pc, ok, x, y) => Goes(call, call2, pc, ok)
  BY DEF SetPcDone, Goes, CallSet
<1>8. SetPcEnd(call, call2, pc, ok, x, y) => Goes(call, call2, pc, ok)
  BY DEF SetPcEnd, Goes, CallSet
<1> QED BY <1>1, <1>2, <1>3, <1>4, <1>5, <1>6, <1>7, <1>8

\* What a step of the producer does to its call and to what is counted.
ProducerMoves ==
  /\ p.pc \in {"enqueue", "full", "ahead"} /\ p'.pc \in {"full", "ahead", "done"}
  /\ IF p'.pc = "done" /\ p'.ok THEN sent' = sent + 1 ELSE sent' = sent
  /\ UNCHANGED <<c, got, destroyed>>

\* An enqueue that issued its stores is done and has sent an element.
LEMMA EnqueueMoves ==
  ASSUME p \in CallSet, NEW issued, Enqueue(issued)
  PROVE  p'.pc = "done" /\ p'.ok /\ sent' = sent + 1
<1>1. EnqueueDone(TRUE) /\ sent' = sent + 1 BY DEF Enqueue
<1>2. SetPcDone(p, p', "done", TRUE, 0, 0) BY <1>1 DEF EnqueueDone, SetPcDone
<1>3. Goes(p, p', "done", TRUE) BY <1>2, GoesOn
<1> QED BY <1>1, <1>3 DEF Goes

\* What a step of the producer means to the semaphore: an element is sent exactly when
\* its call ends well.
LEMMA ProducerMovesOn ==
  ASSUME NEW h, Core(h), ProducerStep
  PROVE  ProducerMoves
<1>1. p \in CallSet BY CoreParts
<1>2. CASE EnqueueTail
  <2>1. PICK issued : \/ Enqueue(issued)
                      \/ p' = [p EXCEPT !.pc = "full"] /\ UNCHANGED <<stores, sent>>
                        BY <1>2 DEF EnqueueTail
  <2>2. p.pc = "enqueue" /\ UNCHANGED <<c, got, destroyed>> BY <1>2 DEF EnqueueTail
  <2>3. CASE Enqueue(issued) BY <1>1, <2>2, <2>3, EnqueueMoves DEF ProducerMoves
  <2>4. CASE p' = [p EXCEPT !.pc = "full"] /\ UNCHANGED <<stores, sent>>
    <3>1. SetPc(p, p', "full") BY <2>4 DEF SetPc
    <3>2. p'.pc = "full" BY <1>1, <3>1, GoesOn DEF Goes
    <3> QED BY <2>2, <2>4, <3>2 DEF ProducerMoves
  <2> QED BY <2>1, <2>3, <2>4
<1>3. CASE EnqueueFull
  <2>1. p.pc = "full" /\ UNCHANGED <<c, got, destroyed>> BY <1>3 DEF EnqueueFull
  <2>2. PICK issued, next : \/ Enqueue(issued)
                            \/ p' = [p EXCEPT !.pc = "ahead", !.block = next] /\ UNCHANGED sent
                            \/ EnqueueDone(FALSE) /\ UNCHANGED sent BY <1>3 DEF EnqueueFull
  <2>3. CASE Enqueue(issued) BY <1>1, <2>1, <2>3, EnqueueMoves DEF ProducerMoves
  <2>4. CASE p' = [p EXCEPT !.pc = "ahead", !.block = next] /\ UNCHANGED sent
    <3>1. SetPcBlock(p, p', "ahead", next) BY <2>4 DEF SetPcBlock
    <3>2. p'.pc = "ahead" BY <1>1, <3>1, GoesOn DEF Goes
    <3> QED BY <2>1, <2>4, <3>2 DEF ProducerMoves
  <2>5. CASE EnqueueDone(FALSE) /\ UNCHANGED sent
    <3>1. SetPcDone(p, p', "done", FALSE, 0, 0) BY <2>5 DEF SetPcDone, EnqueueDone
    <3>2. Goes(p, p', "done", FALSE) BY <1>1, <3>1, GoesOn
    <3>3. p'.pc = "done" /\ ~ p'.ok BY <3>2 DEF Goes
    <3> QED BY <2>1, <2>5, <3>3 DEF ProducerMoves
  <2> QED BY <2>2, <2>3, <2>4, <2>5
<1>4. CASE EnqueueAhead
  <2>1. p.pc = "ahead" /\ UNCHANGED <<c, got, destroyed>> BY <1>4 DEF EnqueueAhead
  <2>2. PICK issued : Enqueue(issued) BY <1>4 DEF EnqueueAhead
  <2> QED BY <1>1, <2>1, <2>2, EnqueueMoves DEF ProducerMoves
<1> QED BY <1>2, <1>3, <1>4 DEF ProducerStep

\* The same for the consumer: it takes an element, or goes on, or is done.
ConsumerMoves ==
  /\ c.pc \notin {"idle", "done", "gone"} /\ c'.pc \notin {"idle", "gone"} /\ c'.op = c.op /\ c'.start = c.start
  /\ \/ c'.pc = "done" /\ c'.ok /\ c.op # "peek" /\ got' = Append(got, Len(got) + 1)
     \/ UNCHANGED got /\ (c'.pc = "done" /\ c.op = "try_dequeue" => ~ c'.ok)
  /\ UNCHANGED <<p, sent, destroyed>>

\* A step of the consumer inside a call.
LEMMA ConsumerGoes ==
  ASSUME NEW pc, NEW ok, c.pc \notin {"idle", "done", "gone"}, Goes(c, c', pc, ok),
         pc \notin {"idle", "gone"}, pc = "done" => c.op # "try_dequeue" \/ ~ ok,
         UNCHANGED <<p, sent, got, destroyed>>
  PROVE  ConsumerMoves
<1>1. c'.pc = pc /\ c'.ok = ok /\ c'.op = c.op /\ c'.start = c.start BY DEF Goes
<1>2. c'.pc = "done" /\ c.op = "try_dequeue" => ~ c'.ok BY <1>1
<1> QED BY <1>1, <1>2 DEF ConsumerMoves

\* What a step of the consumer means to the semaphore: an element is taken exactly when
\* try_dequeue ends well.
LEMMA ConsumerMovesOn ==
  ASSUME NEW h, Core(h), ConsumerStep
  PROVE  ConsumerMoves
<1>1. c \in CallSet BY CoreParts
<1>2. ASSUME NEW fresh, NEW elsePc \in {"tailBlock", "next"}, c.pc \in {"dequeue", "again"}, DequeueFront(fresh, elsePc) PROVE ConsumerMoves
  <2>1. PICK b, fr : \/ At(b, fr)
                     \/ c' = [c EXCEPT !.pc = elsePc] BY <1>2 DEF DequeueFront
  <2>2. UNCHANGED <<p, sent, got, destroyed>> BY <1>2 DEF DequeueFront
  <2>3. CASE At(b, fr)
    <3>1. SetPcPlace(c, c', "element", b, fr) BY <2>3 DEF At, SetPcPlace
    <3>2. Goes(c, c', "element", c.ok) BY <1>1, <3>1, GoesOn
    <3> QED BY <1>2, <2>2, <3>2, ConsumerGoes
  <2>4. CASE c' = [c EXCEPT !.pc = elsePc]
    <3>1. SetPc(c, c', elsePc) BY <2>4 DEF SetPc
    <3>2. Goes(c, c', elsePc, c.ok) BY <1>1, <3>1, GoesOn
    <3> QED BY <1>2, <2>2, <3>2, ConsumerGoes
  <2> QED BY <2>1, <2>3, <2>4
<1>3. CASE DequeueFirst BY <1>2, <1>3 DEF DequeueFirst
<1>4. CASE DequeueAgain BY <1>2, <1>4 DEF DequeueAgain
<1>5. CASE DequeueTailBlock
  <2>1. c.pc = "tailBlock" /\ UNCHANGED <<p, sent, got, destroyed>> /\ (c' = [c EXCEPT !.pc = "again"] \/ c' = [c EXCEPT !.pc = "done", !.ok = FALSE])
    BY <1>5 DEF DequeueTailBlock
  <2>2. CASE c' = [c EXCEPT !.pc = "again"]
    <3>1. SetPc(c, c', "again") BY <2>2 DEF SetPc
    <3>2. Goes(c, c', "again", c.ok) BY <1>1, <3>1, GoesOn
    <3> QED BY <2>1, <3>2, ConsumerGoes
  <2>3. CASE c' = [c EXCEPT !.pc = "done", !.ok = FALSE]
    <3>1. SetPcOk(c, c', "done", FALSE) BY <2>3 DEF SetPcOk
    <3>2. Goes(c, c', "done", FALSE) BY <1>1, <3>1, GoesOn
    <3> QED BY <2>1, <3>2, ConsumerGoes
  <2> QED BY <2>1, <2>2, <2>3
<1>6. CASE DequeueNext
  <2>1. PICK b : c' = [c EXCEPT !.pc = "advance", !.block = b] BY <1>6 DEF DequeueNext
  <2>2. c.pc = "next" /\ UNCHANGED <<p, sent, got, destroyed>> BY <1>6 DEF DequeueNext
  <2>3. SetPcBlock(c, c', "advance", b) BY <2>1 DEF SetPcBlock
  <2>4. Goes(c, c', "advance", c.ok) BY <1>1, <2>3, GoesOn
  <2> QED BY <2>2, <2>4, ConsumerGoes
<1>7. CASE DequeueAdvance
  <2>1. PICK b, fr : At(b, fr) BY <1>7 DEF DequeueAdvance
  <2>2. c.pc = "advance" /\ UNCHANGED <<p, sent, got, destroyed>> BY <1>7 DEF DequeueAdvance
  <2>3. SetPcPlace(c, c', "element", b, fr) BY <2>1 DEF At, SetPcPlace
  <2>4. Goes(c, c', "element", c.ok) BY <1>1, <2>3, GoesOn
  <2> QED BY <2>2, <2>4, ConsumerGoes
<1>8. CASE DequeueElement
  <2>1. PICK x : x = ByConsumer(<<"data", c.block, c.index>>) OBVIOUS
  <2>2. /\ c.pc = "element" /\ c' = [Call(c.op, "done", c.start) EXCEPT !.ok = TRUE, !.sum = x] /\ UNCHANGED <<p, sent, destroyed>>
        /\ IF c.op = "peek" THEN UNCHANGED got ELSE got' = Append(got, x)
          BY <1>8, <2>1 DEF DequeueElement
  <2>3. x = h.got + 1 /\ h.got = Len(got) /\ h.got \in Nat /\ ConsumerCall(h, c)
    <3>1. Whole(h, mem, stores["producer"], stores["consumer"], localFront, size, sizeMask) /\ ConsumerCall(h, c) /\ Shape(h) /\ h.got = Len(got)
      BY CoreParts
    <3>2. ElementThere(c.block, c.index) BY <1>1, <2>2, <3>1, ElementPlace
    <3>3. <<"data", c.block, c.index>> \in Locations BY <3>2, PlacesOf DEF ElementThere
    <3>4. x = View(stores["consumer"], mem)[<<"data", c.block, c.index>>] BY <2>1, <3>3, ReadsView
    <3>5. x = h.got + 1 BY <1>1, <2>2, <3>1, <3>4, ElementData
    <3>6. h.got \in Nat BY <3>1, ShapeFacts
    <3> QED BY <3>1, <3>5, <3>6
  <2>4. Returned(c, c', x) BY <2>2 DEF Returned
  <2>5. x \in Nat BY <2>3
  <2>6. TakenCall(c, c', x) BY <1>1, <2>4, <2>5, TakenIs
  <2>7. c'.pc = "done" /\ c'.ok = TRUE /\ c'.op = c.op /\ c'.start = c.start
    BY <2>6 DEF TakenCall, CallIs
  <2>8. CASE c.op = "peek"
    <3>1. UNCHANGED got BY <2>2, <2>8
    <3> QED BY <2>2, <2>7, <2>8, <3>1 DEF ConsumerMoves
  <2>9. CASE c.op # "peek"
    <3>1. got' = Append(got, Len(got) + 1) BY <2>2, <2>3, <2>9
    <3> QED BY <2>2, <2>7, <2>9, <3>1 DEF ConsumerMoves
  <2> QED BY <2>8, <2>9
<1>9. CASE SizeStep
  <2>1. UNCHANGED <<p, sent, got, destroyed>> BY <1>9 DEF SizeStep
  <2>2. c.op = "size_approx" /\ c.pc \in {"size", "block", "blockNext"}
    <3>1. ConsumerCall(h, c) BY CoreParts
    <3>2. c.pc \in {"size", "block", "blockNext"} BY <1>9 DEF SizeStep
    <3> QED BY <3>1, <3>2 DEF ConsumerCall
  <2>3. PICK x, d : \/ c' = [c EXCEPT !.pc = "block", !.block = x, !.first = x]
                    \/ c' = [c EXCEPT !.pc = "blockNext", !.sum = @ + d]
                    \/ c' = AfterBlock(x) BY <1>9 DEF SizeStep
  <2>4. CASE c' = [c EXCEPT !.pc = "block", !.block = x, !.first = x]
    <3>1. SetPcWalk(c, c', "block", x, x) BY <2>4 DEF SetPcWalk
    <3>2. Goes(c, c', "block", c.ok) BY <1>1, <3>1, GoesOn
    <3> QED BY <2>1, <2>2, <3>2, ConsumerGoes
  <2>5. CASE c' = [c EXCEPT !.pc = "blockNext", !.sum = @ + d]
    <3>1. SetPcSum(c, c', "blockNext", c.sum + d) BY <1>1, <2>5 DEF SetPcSum, CallSet
    <3>2. Goes(c, c', "blockNext", c.ok) BY <1>1, <3>1, GoesOn
    <3> QED BY <2>1, <2>2, <3>2, ConsumerGoes
  <2>6. CASE c' = AfterBlock(x)
    <3>1. SetPcEnd(c, c', "done", TRUE, 0, 0) \/ SetPcBlock(c, c', "block", x)
      BY <2>6 DEF AfterBlock, SetPcEnd, SetPcBlock
    <3>2. CASE SetPcEnd(c, c', "done", TRUE, 0, 0)
      <4>1. Goes(c, c', "done", TRUE) BY <1>1, <3>2, GoesOn
      <4> QED BY <2>1, <2>2, <4>1, ConsumerGoes
    <3>3. CASE SetPcBlock(c, c', "block", x)
      <4>1. Goes(c, c', "block", c.ok) BY <1>1, <3>3, GoesOn
      <4> QED BY <2>1, <2>2, <4>1, ConsumerGoes
    <3> QED BY <3>1, <3>2, <3>3
  <2> QED BY <2>3, <2>4, <2>5, <2>6
<1> QED BY <1>3, <1>4, <1>5, <1>6, <1>7, <1>8, <1>9 DEF ConsumerStep

\* The numbers of a history, as the state shows them.
Numbers(h) ==
  /\ published = h.pub /\ h.sent = sent /\ h.got = Len(got) /\ h.pub \in Nat /\ h.sent \in Nat /\ h.got \in Nat
  /\ h.got <= h.pub /\ h.pub <= h.sent /\ h.sent <= MaxItems

\* The counts that Core relates to the state are numbers,
LEMMA CoreNumbers == \A h : Core(h) => Numbers(h)
<1>1. SUFFICES ASSUME NEW h, Core(h) PROVE Numbers(h) OBVIOUS
<1>2. Shape(h) /\ h.sent = sent /\ h.got = Len(got) /\ h.sent <= MaxItems BY <1>1, CoreParts
<1>3. published = h.pub BY <1>1, CountsAre
<1>4. h.pub \in Nat /\ h.sent \in Nat /\ h.got \in Nat BY <1>2, ShapeFacts
<1>5. h.got <= h.pub /\ h.pub <= h.sent BY <1>2, ShapeFacts
<1> QED BY <1>2, <1>3, <1>4, <1>5 DEF Numbers

\* before a step and after it.
LEMMA CoreNumbersNext == \A h : Core(h)' => Numbers(h)'
<1>1. (\A h : Core(h) => Numbers(h))' BY CoreNumbers, PTL
<1> QED BY <1>1

\* The steps, with what becomes of the published elements.
LEMMA ProducerStepCore ==
  ASSUME NEW h, Core(h), ProducerStep
  PROVE  \E h2 : Core(h2)' /\ h2.pub = h.pub
<1>1. CASE EnqueueTail
  <2>1. PICK h2 : Core(h2)' /\ (Sent(h, h2) \/ Kept(h, h2)) BY <1>1, EnqueueTailCore
  <2> QED BY <2>1 DEF Sent, Kept
<1>2. CASE EnqueueFull
  <2>1. PICK h2 : Core(h2)' /\ (Sent(h, h2) \/ Kept(h, h2)) BY <1>2, EnqueueFullCore
  <2> QED BY <2>1 DEF Sent, Kept
<1>3. CASE EnqueueAhead
  <2>1. PICK h2 : Core(h2)' /\ Sent(h, h2) BY <1>3, EnqueueAheadCore
  <2> QED BY <2>1 DEF Sent
<1> QED BY <1>1, <1>2, <1>3 DEF ProducerStep

\* A step of the consumer keeps Core and publishes nothing.
LEMMA ConsumerStepCore ==
  ASSUME NEW h, Core(h), ConsumerStep
  PROVE  \E h2 : Core(h2)' /\ h2.pub = h.pub
<1>1. CASE DequeueElement
  <2>1. PICK h2 : Core(h2)' /\ (Kept(h, h2) \/ Taken(h, h2)) BY <1>1, DequeueElementCore
  <2> QED BY <2>1 DEF Taken, Kept
<1>2. CASE ~ DequeueElement
  <2>1. \E h2 : Core(h2)' /\ Kept(h, h2)
    BY <1>2, DequeueFirstCore, DequeueTailBlockCore, DequeueNextCore, DequeueAdvanceCore,
       SizeStepCore DEF ConsumerStep
  <2> QED BY <2>1 DEF Kept
<1> QED BY <1>1, <1>2

\* A store that reaches memory keeps Core and publishes at most one element.
LEMMA DrainStepCore ==
  ASSUME NEW h, Core(h), NEW t \in Threads, Drain(t)
  PROVE  \E h2 : Core(h2)' /\ (h2.pub = h.pub \/ h2.pub = h.pub + 1)
<1>1. PICK h2 : Core(h2)' /\ (DrainedBy(h, h2) \/ ReleasedBy(h, h2)) BY DrainCore
<1> QED BY <1>1 DEF DrainedBy, ReleasedBy

\* The actions that begin or end a call, and the destructor.
QueueCalls == \/ \E op \in {"enqueue", "try_enqueue"} : CallEnqueue(op)
              \/ \E op \in {"try_dequeue", "peek"} : CallDequeue(op)
              \/ CallSize \/ ReturnEnqueue \/ ReturnDequeue \/ Destroy

\* A call that begins or returns, or the destructor, keeps Core.
LEMMA CallsCore ==
  ASSUME NEW h, Core(h), QueueCalls
  PROVE  Core(h)'
<1>1. CASE \E op \in {"enqueue", "try_enqueue"} : CallEnqueue(op) BY <1>1, CallEnqueueCore
<1>2. CASE \E op \in {"try_dequeue", "peek"} : CallDequeue(op) BY <1>2, CallDequeueCore
<1>3. CASE CallSize BY <1>3, CallSizeCore
<1>4. CASE ReturnEnqueue \/ ReturnDequeue BY <1>4, ReturnCore
<1>5. CASE Destroy BY <1>5, DestroyCore
<1> QED BY <1>1, <1>2, <1>3, <1>4, <1>5 DEF QueueCalls

\* A step of the semaphore alone keeps Core.
LEMMA StillCore ==
  ASSUME NEW h, Core(h), UNCHANGED queueVars
  PROVE  Core(h)'
BY DEF Core, queueVars

\* Every step is one of these for the inner queue.
LEMMA StepKinds ==
  ASSUME [BlockingNext]_vars
  PROVE  ProducerStep \/ ConsumerStep \/ (\E t \in Threads : Drain(t)) \/ QueueCalls \/ UNCHANGED queueVars
<1>1. CASE PlainCall BY <1>1 DEF PlainCall, QueueCalls
<1>2. CASE EnqueueCall BY <1>2 DEF EnqueueCall, QueueCalls
<1>3. CASE SignalElement BY <1>3 DEF SignalElement, QueueCalls
<1>4. CASE PostElement BY <1>4 DEF PostElement
<1>5. CASE WaitCall BY <1>5 DEF WaitCall
<1>6. CASE WaitElement BY <1>6 DEF WaitElement
<1>7. CASE WaitFailed
  <2>1. UNCHANGED queueVars BY <1>7 DEF WaitFailed
  <2> QED BY <2>1
<1>8. CASE DequeueCall BY <1>8 DEF DequeueCall, QueueCalls
<1>9. CASE BlockingPeek BY <1>9 DEF BlockingPeek, QueueCalls
<1>10. CASE InnerStep BY <1>10 DEF InnerStep
<1>11. CASE DrainStep BY <1>11 DEF DrainStep
<1>12. CASE DestroyStep BY <1>12 DEF DestroyStep, QueueCalls
<1>13. CASE UNCHANGED vars BY <1>13 DEF vars
<1> QED
  BY <1>1, <1>2, <1>3, <1>4, <1>5, <1>6, <1>7, <1>8, <1>9, <1>10, <1>11, <1>12, <1>13
  DEF BlockingNext

\* Every step keeps Core, and only a store that reaches memory publishes an element, one
\* at a time.
LEMMA StepCore ==
  ASSUME NEW h, Core(h), [BlockingNext]_vars
  PROVE  \E h2 : /\ Core(h2)' /\ (h2.pub = h.pub \/ h2.pub = h.pub + 1)
                 /\ h2.pub # h.pub => \E t \in Threads : Drain(t)
<1>1. CASE ProducerStep BY <1>1, ProducerStepCore
<1>2. CASE ConsumerStep BY <1>2, ConsumerStepCore
<1>3. CASE \E t \in Threads : Drain(t) BY <1>3, DrainStepCore
<1>4. CASE QueueCalls BY <1>4, CallsCore
<1>5. CASE UNCHANGED queueVars BY <1>5, StillCore
<1> QED BY <1>1, <1>2, <1>3, <1>4, <1>5, StepKinds

-----------------------------------------------------------------------------
(* The semaphore.                                                          *)

\* What the semaphore counts, in terms of the numbers sg (signalled), g (taken) and pub
\* (published) and the call of the consumer.
Counts(sg, g, pub, n, up, w, call) ==
  /\ sg <= pub
  /\ w \in Running => n = sg - g /\ n >= 0 /\ up = 0
  /\ w = "take" => n > 0
  /\ w \in Asleep => n = sg - g - 1 /\ n >= -1 /\ up = One(n >= 0)
  /\ w = "tryPost" => n >= 0
  /\ w = "retake" => n = sg - g /\ n > 0 /\ up = 1
  /\ w = "acquired" =>
        /\ n = sg - g - One(call.pc # "done") /\ n >= 0 /\ up = 0
        /\ call.pc # "idle" => call.op = "try_dequeue"
        /\ call.pc \notin {"idle", "done"} => call.start > g
        /\ call.pc = "done" => call.ok
  /\ w # "acquired" /\ call.pc \notin {"idle", "gone"} => call.op = "peek"
  /\ w \notin {"idle", "acquired"} => call.pc = "idle"
  /\ call.pc = "gone" => w = "idle"

\* Counting speaks of the numbers that Counts names,
LEMMA CountingIs == Counting <=> Counts(signalled, Len(got), published, count, wakeups, waiter.pc, c)
BY DEF Counting, Counts

\* before a step and after it.
LEMMA CountingNext == Counting' <=> Counts(signalled', Len(got'), published', count', wakeups', waiter'.pc, c')
BY DEF Counting, Counts

\* Counting stays true when an element is published.
LEMMA CountsKept ==
  ASSUME NEW sg \in Int, NEW g \in Int, NEW pub \in Int, NEW pub2 \in Int, pub <= pub2, NEW n,
         NEW up, NEW w, NEW call, Counts(sg, g, pub, n, up, w, call)
  PROVE  Counts(sg, g, pub2, n, up, w, call)
BY DEF Counts

\* The numbers that Counts names are integers.
LEMMA CountsAreIntegers ==
  ASSUME NEW h, Core(h)
  PROVE  signalled \in Int /\ Len(got) \in Nat /\ published \in Nat /\ sent \in Nat /\ published <= sent
<1>1. Numbers(h) BY CoreNumbers
<1>2. Len(got) \in Nat /\ published \in Nat /\ sent \in Nat /\ published <= sent BY <1>1 DEF Numbers
<1>3. signalled \in Int BY <1>2 DEF signalled, One
<1> QED BY <1>2, <1>3

\* The consumer's call and the semaphore stay; elements may become visible.
LEMMA SemaphoreKept ==
  ASSUME NEW h, Core(h), Semaphore, NEW h2, Core(h2)', h.pub <= h2.pub, signalled' = signalled,
         UNCHANGED <<blocking, semaVars, c, got>>
  PROVE  Semaphore'
<1>1. UNCHANGED <<blocking, count, posts, waiter, signaller, c, got>> BY DEF semaVars
<1>2. Numbers(h) /\ Numbers(h2)' BY CoreNumbers, CoreNumbersNext
<1>3. published <= published' /\ published \in Int /\ published' \in Int BY <1>2 DEF Numbers
<1>4. wakeups' = wakeups BY <1>1 DEF wakeups
<1>5. signalled \in Int /\ Len(got) \in Int BY CountsAreIntegers
<1>6. Counting => Counting'
  <2>1. SUFFICES ASSUME Counting PROVE Counting' OBVIOUS
  <2>2. Counts(signalled, Len(got), published, count, wakeups, waiter.pc, c) BY <2>1, CountingIs
  <2>3. Counts(signalled, Len(got), published', count, wakeups, waiter.pc, c)
    BY <1>3, <1>5, <2>2, CountsKept
  <2>4. Counts(signalled', Len(got'), published', count', wakeups', waiter'.pc, c')
    BY <1>1, <1>4, <2>3
  <2> QED BY <2>4, CountingNext
<1> QED BY <1>1, <1>6 DEF Semaphore, SemaTypes, SemaInit

\* A step of the producer's inner enqueue keeps the semaphore's invariant: the element
\* it sent is signalled later.
LEMMA SemaphoreProducer ==
  ASSUME NEW h, Core(h), Semaphore, ProducerStep, UNCHANGED <<blocking, semaVars>>
  PROVE  Semaphore'
<1>1. PICK h2 : Core(h2)' /\ h2.pub = h.pub BY ProducerStepCore
<1>2. ProducerMoves BY ProducerMovesOn
<1>3. sent \in Nat BY CountsAreIntegers
<1>4. signalled' = signalled
  <2>1. signalled = sent BY <1>2, <1>3 DEF ProducerMoves, signalled, One
  <2>2. signalled' = sent BY <1>2, <1>3 DEF ProducerMoves, signalled, One
  <2> QED BY <2>1, <2>2
<1>5. h.pub <= h2.pub
  <2>1. Numbers(h) BY CoreNumbers
  <2> QED BY <1>1, <2>1 DEF Numbers
<1>6. UNCHANGED <<c, got>> BY <1>2 DEF ProducerMoves
<1> QED BY <1>1, <1>4, <1>5, <1>6, SemaphoreKept

\* A store that reaches memory keeps it.
LEMMA SemaphoreDrain ==
  ASSUME NEW h, Core(h), Semaphore, NEW t \in Threads, Drain(t), UNCHANGED <<blocking, semaVars>>
  PROVE  Semaphore'
<1>1. PICK h2 : Core(h2)' /\ (h2.pub = h.pub \/ h2.pub = h.pub + 1) BY DrainStepCore
<1>2. UNCHANGED <<p, c, sent, got>> BY DEF Drain
<1>3. signalled' = signalled BY <1>2 DEF signalled
<1>4. h.pub <= h2.pub
  <2>1. Numbers(h) BY CoreNumbers
  <2> QED BY <1>1, <2>1 DEF Numbers
<1> QED BY <1>1, <1>2, <1>3, <1>4, SemaphoreKept

\* A call of the consumer that ends without an element found none.
LEMMA EmptyAnswer == \A h : Core(h) => (c.pc = "done" /\ ~ c.ok => c.start <= Len(got))
<1>1. SUFFICES ASSUME NEW h, Core(h), c.pc = "done", ~ c.ok PROVE c.start <= Len(got) OBVIOUS
<1>2. ConsumerCall(h, c) /\ h.got = Len(got) BY <1>1, CoreParts
<1> QED BY <1>1, <1>2 DEF ConsumerCall

\* An answer of "empty" means that what was published before the call was taken.
LEMMA EmptyAnswerNext == \A h : Core(h)' => (c'.pc = "done" /\ ~ c'.ok => c'.start <= Len(got'))
<1>1. (\A h : Core(h) => (c.pc = "done" /\ ~ c.ok => c.start <= Len(got)))' BY EmptyAnswer, PTL
<1> QED BY <1>1

\* A step inside the consumer's call keeps the count of the semaphore: a thread that
\* acquired it finds its element.
LEMMA CountsConsumer ==
  ASSUME NEW sg \in Int, NEW g \in Nat, NEW pub \in Int, NEW n, NEW up, NEW w, NEW call,
         Counts(sg, g, pub, n, up, w, call), NEW call2, NEW g2,
         call.pc \notin {"idle", "done", "gone"}, call2.pc \notin {"idle", "gone"}, call2.op = call.op, call2.start = call.start, call.start \in Nat,
         \/ call2.pc = "done" /\ call2.ok /\ call.op # "peek" /\ g2 = g + 1
         \/ g2 = g /\ (call2.pc = "done" /\ call.op = "try_dequeue" => call2.start <= g)
  PROVE  Counts(sg, g2, pub, n, up, w, call2)
<1>1. w \in {"idle", "acquired"} BY DEF Counts
<1>2. CASE w = "idle"
  <2>1. call.op = "peek" /\ g2 = g BY <1>2 DEF Counts
  <2> QED BY <1>2, <2>1 DEF Counts, Running, Asleep
<1>3. CASE w = "acquired"
  <2>1. n = sg - g - 1 /\ n >= 0 /\ up = 0 /\ sg <= pub /\ call.op = "try_dequeue" /\ call.start > g
    BY <1>3 DEF Counts, One
  <2>2. CASE call2.pc = "done" /\ call2.ok /\ g2 = g + 1
    <3>1. n = sg - g2 BY <2>1, <2>2
    <3> QED BY <1>3, <2>1, <2>2, <3>1 DEF Counts, Running, Asleep, One
  <2>3. CASE g2 = g /\ (call2.pc = "done" => call2.start <= g)
    <3>1. call2.pc # "done" BY <2>1, <2>3
    <3> QED BY <1>3, <2>1, <2>3, <3>1 DEF Counts, Running, Asleep, One
  <2> QED BY <2>1, <2>2, <2>3
<1> QED BY <1>1, <1>2, <1>3

\* So does every step of the consumer's inner calls.
LEMMA SemaphoreConsumer ==
  ASSUME NEW h, Core(h), Semaphore, ConsumerStep, UNCHANGED <<blocking, semaVars>>
  PROVE  Semaphore'
<1>1. PICK h2 : Core(h2)' /\ h2.pub = h.pub BY ConsumerStepCore
<1>2. ConsumerMoves BY ConsumerMovesOn
<1>3. UNCHANGED <<blocking, count, posts, waiter, signaller, p, sent>>
  BY <1>2 DEF semaVars, ConsumerMoves
<1>4. signalled' = signalled /\ wakeups' = wakeups BY <1>3 DEF signalled, wakeups
<1>5. published' = published
  <2>1. Numbers(h) /\ Numbers(h2)' BY <1>1, CoreNumbers, CoreNumbersNext
  <2> QED BY <1>1, <2>1 DEF Numbers
<1>6. signalled \in Int /\ Len(got) \in Nat /\ published \in Int BY CountsAreIntegers
<1>7. Counting => Counting'
  <2>1. SUFFICES ASSUME Counting PROVE Counting' OBVIOUS
  <2>2. Counts(signalled, Len(got), published, count, wakeups, waiter.pc, c) BY <2>1, CountingIs
  <2>3. c.start \in Nat
    <3>1. c \in CallSet BY CoreParts
    <3> QED BY <3>1, CallTypes
  <2>4. c.pc \notin {"idle", "done", "gone"} /\ c'.pc \notin {"idle", "gone"} /\ c'.op = c.op /\ c'.start = c.start
    BY <1>2 DEF ConsumerMoves
  <2>5. \/ c'.pc = "done" /\ c'.ok /\ c.op # "peek" /\ Len(got') = Len(got) + 1
        \/ Len(got') = Len(got) /\ (c'.pc = "done" /\ c.op = "try_dequeue" => c'.start <= Len(got))
    <3>1. CASE c'.pc = "done" /\ c'.ok /\ c.op # "peek" /\ got' = Append(got, Len(got) + 1)
      <4>1. got = [i \in 1..h.got |-> i] /\ h.got = Len(got) /\ h.got \in Nat BY <1>6, CoreParts
      <4>2. Len(got') = Len(got) + 1 BY <3>1, <4>1, OneMore
      <4> QED BY <3>1, <4>2
    <3>2. CASE UNCHANGED got /\ (c'.pc = "done" /\ c.op = "try_dequeue" => ~ c'.ok)
      <4>1. c'.pc = "done" /\ ~ c'.ok => c'.start <= Len(got') BY <1>1, EmptyAnswerNext
      <4> QED BY <3>2, <4>1
    <3> QED BY <1>2, <3>1, <3>2 DEF ConsumerMoves
  <2>6. Counts(signalled, Len(got'), published, count, wakeups, waiter.pc, c')
    BY <1>6, <2>2, <2>3, <2>4, <2>5, CountsConsumer
  <2> QED BY <1>3, <1>4, <1>5, <2>6, CountingNext
<1> QED BY <1>3, <1>7 DEF Semaphore, SemaTypes, SemaInit

\* Steps of the semaphore alone.
SemaphoreOnly == UNCHANGED <<blocking, queueVars>>

\* A step of the semaphore alone keeps Counting if the counts after it do.
LEMMA CountingMoves ==
  ASSUME NEW h, Core(h), SemaphoreOnly, Counting,
         Counts(signalled, Len(got), published, count', wakeups', waiter'.pc, c)
  PROVE  Counting'
<1>1. UNCHANGED <<sent, got, p, c, stores>> BY DEF SemaphoreOnly, queueVars
<1>2. signalled' = signalled BY <1>1 DEF signalled
<1>3. published' = published BY <1>1 DEF published, Publishing
<1> QED BY <1>1, <1>2, <1>3, CountingNext

\* A step of the waiter to another place keeps its timeout.
LEMMA GotoIs ==
  ASSUME SemaTypes, NEW pc, Goto(pc)
  PROVE  waiter'.pc = pc /\ waiter'.timeout = waiter.timeout /\ waiter' = [pc |-> pc, timeout |-> waiter.timeout]
BY DEF SemaTypes, Goto

\* It keeps the types.
LEMMA GotoType ==
  ASSUME SemaTypes, NEW pc \in Running \cup Asleep \cup {"retake", "acquired"}, Goto(pc),
         count' \in Int, posts' \in Nat, signaller' \in {"idle", "post"}
  PROVE  SemaTypes' /\ waiter'.pc = pc
<1>1. waiter'.pc = pc /\ waiter' = [pc |-> pc, timeout |-> waiter.timeout] BY GotoIs
<1>2. waiter.timeout \in Timeouts \cup {"none"} BY DEF SemaTypes
<1> QED BY <1>1, <1>2 DEF SemaTypes

\* Every step of LightweightSemaphore's wait keeps Counting: an element that is counted
\* again after a timeout was not lost, and a wake-up that came too late is taken back
\* (atomicops.h:657-670).
LEMMA WaitStepCounts ==
  ASSUME NEW h, Core(h), SemaTypes, Counting, WaitStep, SemaphoreOnly
  PROVE  SemaTypes' /\ Counting'
<1>1. Counts(signalled, Len(got), published, count, wakeups, waiter.pc, c) BY CountingIs
<1>2. PICK sg, g, pub : sg = signalled /\ g = Len(got) /\ pub = published OBVIOUS
<1>3. sg \in Int /\ g \in Nat /\ pub \in Int BY <1>2, CountsAreIntegers
<1>4. Counts(sg, g, pub, count, wakeups, waiter.pc, c) BY <1>1, <1>2
<1>5. count \in Int /\ posts \in Nat /\ signaller \in {"idle", "post"} BY DEF SemaTypes
<1>6. wakeups = posts + One(signaller = "post") /\ wakeups' = posts' + One(signaller' = "post")
  BY DEF wakeups
<1>7. SUFFICES SemaTypes' /\ Counts(sg, g, pub, count', wakeups', waiter'.pc, c)
  BY <1>2, CountingMoves
<1>8. CASE TryWait
  <2>1. waiter.pc = "tryWait" /\ UNCHANGED <<count, posts, signaller>> BY <1>8 DEF TryWait
  <2>2. count = sg - g /\ count >= 0 /\ wakeups = 0 /\ c.pc = "idle" /\ sg <= pub
    BY <1>4, <2>1 DEF Counts, Running
  <2>3. wakeups' = 0 BY <2>1, <2>2 DEF wakeups
  <2>4. PICK pc : pc = IF count > 0 THEN "take" ELSE IF waiter.timeout = "try" THEN "failed" ELSE "spin" OBVIOUS
  <2>5. Goto(pc) BY <1>8, <2>4 DEF TryWait
  <2>6. pc \in {"take", "failed", "spin"} /\ (pc = "take" => count > 0) BY <2>4
  <2>7. SemaTypes' /\ waiter'.pc = pc BY <1>5, <2>1, <2>5, <2>6, GotoType DEF Running
  <2>8. Counts(sg, g, pub, count, 0, pc, c) BY <1>3, <1>5, <2>2, <2>6 DEF Counts, Running, Asleep
  <2> QED BY <2>1, <2>3, <2>7, <2>8
<1>9. CASE Spin
  <2>1. waiter.pc = "spin" /\ UNCHANGED <<count, posts, signaller>> BY <1>9 DEF Spin
  <2>2. count = sg - g /\ count >= 0 /\ wakeups = 0 /\ c.pc = "idle" /\ sg <= pub
    BY <1>4, <2>1 DEF Counts, Running
  <2>3. wakeups' = 0 BY <2>1, <2>2 DEF wakeups
  <2>4. PICK pc : pc = IF count > 0 THEN "take" ELSE "lower" OBVIOUS
  <2>5. Goto(pc) BY <1>9, <2>4 DEF Spin
  <2>6. pc \in {"take", "lower"} /\ (pc = "take" => count > 0) BY <2>4
  <2>7. SemaTypes' /\ waiter'.pc = pc BY <1>5, <2>1, <2>5, <2>6, GotoType DEF Running
  <2>8. Counts(sg, g, pub, count, 0, pc, c) BY <1>3, <1>5, <2>2, <2>6 DEF Counts, Running, Asleep
  <2> QED BY <2>1, <2>3, <2>7, <2>8
<1>10. CASE TakeCount
  <2>1. waiter.pc = "take" /\ count' = count - 1 /\ Goto("acquired") /\ UNCHANGED <<posts, signaller>>
    BY <1>10 DEF TakeCount
  <2>2. count = sg - g /\ count > 0 /\ wakeups = 0 /\ c.pc = "idle" /\ sg <= pub
    BY <1>4, <2>1 DEF Counts, Running
  <2>3. wakeups' = 0 BY <2>1, <2>2 DEF wakeups
  <2>4. count' \in Int /\ count' = sg - g - 1 /\ count' >= 0 BY <1>3, <1>5, <2>1, <2>2
  <2>5. SemaTypes' /\ waiter'.pc = "acquired" BY <1>5, <2>1, <2>4, GotoType
  <2>6. Counts(sg, g, pub, count', 0, "acquired", c)
    BY <1>3, <2>2, <2>4 DEF Counts, Running, Asleep, One
  <2> QED BY <2>3, <2>5, <2>6
<1>11. CASE LowerCount
  <2>1. waiter.pc = "lower" /\ count' = count - 1 /\ UNCHANGED <<posts, signaller>>
    BY <1>11 DEF LowerCount
  <2>2. count = sg - g /\ count >= 0 /\ wakeups = 0 /\ c.pc = "idle" /\ sg <= pub
    BY <1>4, <2>1 DEF Counts, Running
  <2>3. wakeups' = 0 BY <2>1, <2>2 DEF wakeups
  <2>4. PICK pc : pc = IF count > 0 THEN "acquired" ELSE IF waiter.timeout = "zero" THEN "restore" ELSE "sleep" OBVIOUS
  <2>5. Goto(pc) BY <1>11, <2>4 DEF LowerCount
  <2>6. pc \in {"acquired", "restore", "sleep"} /\ (pc = "acquired" <=> count > 0) BY <2>4
  <2>7. count' \in Int /\ count' = sg - g - 1 /\ count' >= -1 /\ (count' >= 0 <=> count > 0)
    BY <1>3, <1>5, <2>1, <2>2
  <2>8. SemaTypes' /\ waiter'.pc = pc BY <1>5, <2>1, <2>5, <2>6, <2>7, GotoType DEF Asleep
  <2>9. CASE pc = "acquired"
    <3>1. Counts(sg, g, pub, count', 0, "acquired", c)
      BY <1>3, <2>2, <2>6, <2>7, <2>9 DEF Counts, Running, Asleep, One
    <3> QED BY <2>3, <2>8, <2>9, <3>1
  <2>10. CASE pc \in {"restore", "sleep"}
    <3>1. count' = -1 BY <1>5, <2>1, <2>2, <2>6, <2>10
    <3>2. Counts(sg, g, pub, count', 0, pc, c)
      BY <1>3, <2>2, <2>7, <2>10, <3>1 DEF Counts, Running, Asleep, One
    <3> QED BY <2>3, <2>8, <3>2
  <2> QED BY <2>6, <2>9, <2>10
<1>12. CASE Wake
  <2>1. waiter.pc = "sleep" /\ posts > 0 /\ posts' = posts - 1 /\ Goto("acquired") /\ UNCHANGED <<count, signaller>>
    BY <1>12 DEF Wake
  <2>2. count = sg - g - 1 /\ wakeups = One(count >= 0) /\ c.pc = "idle" /\ sg <= pub
    BY <1>4, <2>1 DEF Counts, Asleep
  <2>3. wakeups >= 1 BY <1>5, <1>6, <2>1 DEF One
  <2>4. count >= 0 /\ wakeups = 1 BY <2>2, <2>3 DEF One
  <2>5. wakeups' = 0 /\ posts' \in Nat BY <1>5, <1>6, <2>1, <2>4 DEF One
  <2>6. SemaTypes' /\ waiter'.pc = "acquired" BY <1>5, <2>1, <2>5, GotoType
  <2>7. Counts(sg, g, pub, count, 0, "acquired", c)
    BY <1>3, <2>2, <2>4 DEF Counts, Running, Asleep, One
  <2> QED BY <2>1, <2>5, <2>6, <2>7
<1>13. CASE TimeOut
  <2>1. waiter.pc = "sleep" /\ Goto("restore") /\ UNCHANGED <<count, posts, signaller>>
    BY <1>13 DEF TimeOut
  <2>2. wakeups' = wakeups BY <2>1 DEF wakeups
  <2>3. SemaTypes' /\ waiter'.pc = "restore" BY <1>5, <2>1, GotoType DEF Asleep
  <2>4. Counts(sg, g, pub, count, wakeups, "restore", c) BY <1>4, <2>1 DEF Counts, Running, Asleep
  <2> QED BY <2>1, <2>2, <2>3, <2>4
<1>14. CASE Restore
  <2>1. waiter.pc = "restore" /\ count' = count + 1 /\ UNCHANGED <<posts, signaller>>
    BY <1>14 DEF Restore
  <2>2. count = sg - g - 1 /\ count >= -1 /\ wakeups = One(count >= 0) /\ c.pc = "idle" /\ sg <= pub
    BY <1>4, <2>1 DEF Counts, Asleep
  <2>3. wakeups' = wakeups BY <2>1 DEF wakeups
  <2>4. PICK pc : pc = IF count < 0 THEN "failed" ELSE "retake" OBVIOUS
  <2>5. Goto(pc) BY <1>14, <2>4 DEF Restore
  <2>6. pc \in {"failed", "retake"} /\ (pc = "failed" <=> count < 0) BY <2>4
  <2>7. count' \in Int /\ count' = sg - g /\ count' >= 0 BY <1>3, <1>5, <2>1, <2>2
  <2>8. SemaTypes' /\ waiter'.pc = pc BY <1>5, <2>1, <2>5, <2>6, <2>7, GotoType DEF Running
  <2>9. CASE pc = "failed"
    <3>1. wakeups = 0 BY <1>5, <2>2, <2>6, <2>9 DEF One
    <3>2. Counts(sg, g, pub, count', 0, "failed", c) BY <1>3, <2>2, <2>7 DEF Counts, Running, Asleep
    <3> QED BY <2>3, <2>8, <2>9, <3>1, <3>2
  <2>10. CASE pc = "retake"
    <3>1. wakeups = 1 /\ count' > 0 BY <1>5, <2>1, <2>2, <2>6, <2>10 DEF One
    <3>2. Counts(sg, g, pub, count', 1, "retake", c)
      BY <1>3, <2>2, <2>7, <3>1 DEF Counts, Running, Asleep
    <3> QED BY <2>3, <2>8, <2>10, <3>1, <3>2
  <2> QED BY <2>6, <2>9, <2>10
<1>15. CASE Retake
  <2>1. waiter.pc = "retake" /\ count' = count - 1 /\ UNCHANGED <<posts, signaller>>
    BY <1>15 DEF Retake
  <2>2. count = sg - g /\ count > 0 /\ wakeups = 1 /\ c.pc = "idle" /\ sg <= pub
    BY <1>4, <2>1 DEF Counts
  <2>3. wakeups' = 1 BY <2>1, <2>2 DEF wakeups
  <2>4. Goto("tryPost") BY <1>15, <2>2 DEF Retake
  <2>5. count' \in Int /\ count' = sg - g - 1 /\ count' >= 0 BY <1>3, <1>5, <2>1, <2>2
  <2>6. SemaTypes' /\ waiter'.pc = "tryPost" BY <1>5, <2>1, <2>4, <2>5, GotoType DEF Asleep
  <2>7. Counts(sg, g, pub, count', 1, "tryPost", c)
    BY <1>3, <2>2, <2>5 DEF Counts, Running, Asleep, One
  <2> QED BY <2>3, <2>6, <2>7
<1>16. CASE TryPost
  <2>1. waiter.pc = "tryPost" /\ UNCHANGED <<count, signaller>> BY <1>16 DEF TryPost
  <2>2. count = sg - g - 1 /\ count >= 0 /\ wakeups = 1 /\ c.pc = "idle" /\ sg <= pub
    BY <1>4, <2>1 DEF Counts, Asleep, One
  <2>3. CASE posts > 0
    <3>1. posts' = posts - 1 /\ Goto("acquired") BY <1>16, <2>3 DEF TryPost
    <3>2. wakeups' = 0 /\ posts' \in Nat BY <1>5, <1>6, <2>1, <2>2, <2>3, <3>1 DEF One
    <3>3. SemaTypes' /\ waiter'.pc = "acquired" BY <1>5, <2>1, <3>1, <3>2, GotoType
    <3>4. Counts(sg, g, pub, count, 0, "acquired", c) BY <1>3, <2>2 DEF Counts, Running, Asleep, One
    <3> QED BY <2>1, <3>2, <3>3, <3>4
  <2>4. CASE ~ (posts > 0)
    <3>1. posts' = posts /\ Goto("restore") BY <1>16, <2>4 DEF TryPost
    <3>2. wakeups' = wakeups BY <2>1, <3>1 DEF wakeups
    <3>3. SemaTypes' /\ waiter'.pc = "restore" BY <1>5, <2>1, <3>1, GotoType DEF Asleep
    <3>4. Counts(sg, g, pub, count, 1, "restore", c) BY <1>3, <2>2 DEF Counts, Running, Asleep, One
    <3> QED BY <2>1, <2>2, <3>2, <3>3, <3>4
  <2> QED BY <2>3, <2>4
<1> QED BY <1>8, <1>9, <1>10, <1>11, <1>12, <1>13, <1>14, <1>15, <1>16 DEF WaitStep

\* Without blocking the semaphore is not used.
LEMMA SemaphorePlain ==
  ASSUME Semaphore, ~ blocking, UNCHANGED <<blocking, semaVars>>
  PROVE  Semaphore'
BY DEF Semaphore, SemaTypes, SemaInit, semaVars

\* The parts of the invariant when it is.
LEMMA SemaphoreParts ==
  ASSUME Semaphore, blocking
  PROVE  SemaTypes /\ Counting /\ Counts(signalled, Len(got), published, count, wakeups, waiter.pc, c) /\ blocking = TRUE
<1>1. blocking \in BOOLEAN /\ SemaTypes /\ Counting BY DEF Semaphore
<1> QED BY <1>1, CountingIs

\* They make up the invariant after the step.
LEMMA SemaphoreFrom ==
  ASSUME blocking = TRUE, UNCHANGED blocking, SemaTypes',
         Counts(signalled', Len(got'), published', count', wakeups', waiter'.pc, c')
  PROVE  Semaphore'
<1>1. Counting' BY CountingNext
<1>2. blocking' = TRUE OBVIOUS
<1> QED BY <1>1, <1>2 DEF Semaphore

\* The call of the consumer changes and nothing that is counted.
LEMMA SemaphoreCall ==
  ASSUME NEW h, Core(h), Core(h)', Semaphore, blocking,
         UNCHANGED <<blocking, count, posts, signaller, got, p, sent>>, SemaTypes',
         Counts(signalled, Len(got), published, count, wakeups, waiter'.pc, c')
  PROVE  Semaphore'
<1>1. signalled' = signalled /\ wakeups' = wakeups BY DEF signalled, wakeups
<1>2. published' = published
  <2>1. Numbers(h) /\ Numbers(h)' BY CoreNumbers, CoreNumbersNext
  <2> QED BY <2>1 DEF Numbers
<1>3. blocking = TRUE BY SemaphoreParts
<1>4. Counts(signalled', Len(got'), published', count', wakeups', waiter'.pc, c') BY <1>1, <1>2
<1> QED BY <1>3, <1>4, SemaphoreFrom

\* EnqueueCall keeps the semaphore's invariant.
LEMMA SemaphoreEnqueueCall ==
  ASSUME NEW h, Core(h), Semaphore, EnqueueCall, UNCHANGED blocking
  PROVE  Semaphore'
<1>1. UNCHANGED semaVars BY DEF EnqueueCall
<1>2. sent \in Nat BY CountsAreIntegers
<1>3. Core(h)'
  <2>1. QueueCalls BY DEF EnqueueCall, QueueCalls
  <2> QED BY <2>1, CallsCore
<1>4. h.pub <= h.pub
  <2>1. Numbers(h) BY CoreNumbers
  <2> QED BY <2>1 DEF Numbers
<1>5. CASE \E op \in {"enqueue", "try_enqueue"} : CallEnqueue(op)
  <2>1. PICK op \in {"enqueue", "try_enqueue"} : CallEnqueue(op) BY <1>5
  <2>2. p.pc = "idle" /\ UNCHANGED <<c, sent, got>> /\ p' = Call(op, "enqueue", released)
    BY <2>1 DEF CallEnqueue
  <2>3. p'.pc = "enqueue"
    <3>1. released = h.rel BY CountsAre
    <3>2. h.rel \in Nat
      <4>1. Shape(h) BY CoreParts
      <4> QED BY <4>1, ShapeFacts
    <3>3. "enqueue" \in Pcs /\ op \in Ops BY DEF Pcs, Ops
    <3>4. CallIs(Call(op, "enqueue", h.rel), "enqueue", op, FALSE, h.rel, 0, 0, 0, 0)
      BY <3>2, <3>3, CallNew
    <3> QED BY <2>2, <3>1, <3>4 DEF CallIs
  <2>4. signalled' = signalled BY <1>2, <2>2, <2>3 DEF signalled, One
  <2> QED BY <1>1, <1>3, <1>4, <2>2, <2>4, SemaphoreKept
<1>6. CASE p.pc = "done" /\ ~ p.ok /\ ReturnEnqueue
  <2>1. p' = Idle /\ UNCHANGED <<c, sent, got>> BY <1>6 DEF ReturnEnqueue
  <2>2. p'.pc = "idle" BY <2>1, IdleCall DEF CallIs
  <2>3. signalled' = signalled BY <1>2, <1>6, <2>1, <2>2 DEF signalled, One
  <2> QED BY <1>1, <1>3, <1>4, <2>1, <2>3, SemaphoreKept
<1> QED BY <1>5, <1>6 DEF EnqueueCall

\* SignalElement keeps it: an element is signalled after it was published, because
\* fetch_add drains the stores.
LEMMA SemaphoreSignal ==
  ASSUME NEW h, Core(h), Semaphore, SignalElement, UNCHANGED blocking
  PROVE  Semaphore'
<1>1. /\ blocking /\ p.pc = "done" /\ p.ok /\ stores["producer"] = << >> /\ p' = Idle /\ UNCHANGED <<c, sent, got, stores>>
      /\ signaller = "idle" /\ count' = count + 1 /\ signaller' = (IF count < 0 THEN "post" ELSE "idle") /\ UNCHANGED <<posts, waiter>>
  BY DEF SignalElement, Drained, ReturnEnqueue, Signal
<1>2. SemaTypes /\ Counts(signalled, Len(got), published, count, wakeups, waiter.pc, c) /\ blocking = TRUE
  BY <1>1, SemaphoreParts
<1>3. p'.pc = "idle" BY <1>1, IdleCall DEF CallIs
<1>4. PICK sg, g, w : sg = signalled /\ g = Len(got) /\ w = waiter.pc OBVIOUS
<1>5. sg \in Int /\ g \in Nat /\ sent \in Nat BY <1>4, CountsAreIntegers
<1>6. sg = sent - 1 /\ signalled' = sent BY <1>1, <1>3, <1>4, <1>5 DEF signalled, One
<1>7. published' = sent
  <2>1. Publishing' = {}
    <3>1. stores'["producer"] = << >> BY <1>1
    <3>2. DOMAIN stores'["producer"] = {} BY <3>1
    <3> QED BY <3>2 DEF Publishing
  <2>2. Cardinality({}) = 0 BY FS_EmptySet
  <2> QED BY <1>1, <1>5, <2>1, <2>2 DEF published
<1>8. count \in Int /\ posts \in Nat /\ waiter \in [pc : Running \cup Asleep \cup {"retake", "acquired"}, timeout : Timeouts \cup {"none"}]
  BY <1>2 DEF SemaTypes
<1>9. signaller' \in {"idle", "post"} /\ (signaller' = "post" <=> count < 0) BY <1>1
<1>10. SemaTypes' BY <1>1, <1>8, <1>9 DEF SemaTypes
<1>11. wakeups = posts /\ wakeups' = posts + One(count < 0) BY <1>1, <1>8, <1>9 DEF wakeups, One
<1>12. Counts(sg, g, published, count, posts, w, c) BY <1>2, <1>4, <1>11
<1>13. PICK n : n = count OBVIOUS
<1>14. Counts(sg + 1, g, sg + 1, n + 1, posts + One(n < 0), w, c)
  <2>1. w \in Running \cup Asleep \cup {"retake", "acquired"} BY <1>4, <1>8
  <2>2. CASE w \in Running
    <3>1. n = sg - g /\ n >= 0 /\ posts = 0 BY <1>12, <1>13, <2>2 DEF Counts
    <3>2. posts + One(n < 0) = 0 BY <3>1, <1>5 DEF One
    <3>3. n + 1 = sg + 1 - g /\ n + 1 >= 0 /\ n + 1 > 0 BY <1>5, <3>1
    <3> QED BY <1>5, <1>12, <2>2, <3>2, <3>3 DEF Counts, Running, Asleep
  <2>3. CASE w \in Asleep
    <3>1. n = sg - g - 1 /\ n >= -1 /\ posts = One(n >= 0) /\ n \in Int
      BY <1>8, <1>12, <1>13, <2>3 DEF Counts
    <3>2. posts + One(n < 0) = 1 /\ n + 1 >= 0 /\ n + 1 = sg + 1 - g - 1 BY <1>5, <3>1 DEF One
    <3>3. One(n + 1 >= 0) = 1 BY <3>2 DEF One
    <3> QED BY <1>5, <1>12, <2>3, <3>1, <3>2, <3>3 DEF Counts, Running, Asleep
  <2>4. CASE w = "retake"
    <3>1. n = sg - g /\ n > 0 /\ posts = 1 BY <1>12, <1>13, <2>4 DEF Counts
    <3>2. posts + One(n < 0) = 1 /\ n + 1 > 0 /\ n + 1 = sg + 1 - g BY <1>5, <3>1 DEF One
    <3> QED BY <1>5, <1>12, <2>4, <3>2 DEF Counts, Running, Asleep
  <2>5. CASE w = "acquired"
    <3>1. n = sg - g - One(c.pc # "done") /\ n >= 0 /\ posts = 0 BY <1>12, <1>13, <2>5 DEF Counts
    <3>2. n \in Int /\ One(c.pc # "done") \in Int BY <1>8, <1>13 DEF One
    <3>3. posts + One(n < 0) = 0 /\ n + 1 >= 0 /\ n + 1 = sg + 1 - g - One(c.pc # "done")
      BY <1>5, <3>1, <3>2 DEF One
    <3> QED BY <1>5, <1>12, <2>5, <3>3 DEF Counts, Running, Asleep, One
  <2> QED BY <2>1, <2>2, <2>3, <2>4, <2>5
<1>15. signalled' = sg + 1 /\ published' = sg + 1 /\ count' = n + 1 /\ wakeups' = posts + One(n < 0) /\ Len(got') = g /\ waiter'.pc = w /\ c' = c
  BY <1>1, <1>4, <1>5, <1>6, <1>7, <1>11, <1>13
<1>16. Counts(signalled', Len(got'), published', count', wakeups', waiter'.pc, c') BY <1>14, <1>15
<1> QED BY <1>2, <1>10, <1>16, SemaphoreFrom

\* PostElement keeps it.
LEMMA SemaphorePost ==
  ASSUME NEW h, Core(h), Semaphore, PostElement, UNCHANGED blocking
  PROVE  Semaphore'
<1>1. blocking /\ signaller = "post" /\ posts' = posts + 1 /\ signaller' = "idle" /\ UNCHANGED <<count, waiter, queueVars>>
  BY DEF PostElement, Post
<1>2. SemaTypes /\ Counting /\ Counts(signalled, Len(got), published, count, wakeups, waiter.pc, c) /\ blocking = TRUE
  BY <1>1, SemaphoreParts
<1>3. posts \in Nat BY <1>2 DEF SemaTypes
<1>4. SemaTypes' BY <1>1, <1>2, <1>3 DEF SemaTypes
<1>5. wakeups' = wakeups BY <1>1, <1>3 DEF wakeups, One
<1>6. Counts(signalled, Len(got), published, count', wakeups', waiter'.pc, c) BY <1>1, <1>2, <1>5
<1>7. SemaphoreOnly BY <1>1 DEF SemaphoreOnly
<1>8. Counting' BY <1>2, <1>6, <1>7, CountingMoves
<1> QED BY <1>2, <1>4, <1>8 DEF Semaphore

\* WaitCall, WaitElement and WaitFailed keep it.
LEMMA SemaphoreWait ==
  ASSUME NEW h, Core(h), Semaphore, WaitCall \/ WaitElement \/ WaitFailed, UNCHANGED blocking
  PROVE  Semaphore'
<1>1. blocking /\ UNCHANGED queueVars BY DEF WaitCall, WaitElement, WaitFailed
<1>2. SemaTypes /\ Counting /\ Counts(signalled, Len(got), published, count, wakeups, waiter.pc, c) /\ blocking = TRUE
  BY <1>1, SemaphoreParts
<1>3. SemaphoreOnly BY <1>1 DEF SemaphoreOnly
<1>4. SUFFICES SemaTypes' /\ Counting' BY <1>2 DEF Semaphore
<1>5. CASE WaitCall
  <2>1. PICK timeout \in Timeouts : waiter.pc = "idle" /\ waiter' = [pc |-> "tryWait", timeout |-> timeout] /\ UNCHANGED <<count, posts, signaller>> /\ c.pc = "idle"
    BY <1>5 DEF WaitCall, BeginWait
  <2>2. SemaTypes' /\ waiter'.pc = "tryWait" BY <1>2, <2>1 DEF SemaTypes, Running
  <2>3. wakeups' = wakeups BY <2>1 DEF wakeups
  <2>4. Counts(signalled, Len(got), published, count, wakeups, "tryWait", c)
    BY <1>2, <2>1 DEF Counts, Running, Asleep
  <2>5. Counts(signalled, Len(got), published, count', wakeups', waiter'.pc, c)
    BY <2>1, <2>2, <2>3, <2>4
  <2> QED BY <1>2, <1>3, <2>2, <2>5, CountingMoves
<1>6. CASE WaitElement
  <2>1. WaitStep BY <1>6 DEF WaitElement
  <2> QED BY <1>2, <1>3, <2>1, WaitStepCounts
<1>7. CASE WaitFailed
  <2>1. waiter.pc = "failed" /\ waiter' = Awake /\ UNCHANGED <<count, posts, signaller>>
    BY <1>7 DEF WaitFailed
  <2>2. SemaTypes' /\ waiter'.pc = "idle" BY <1>2, <2>1 DEF SemaTypes, Running, Awake
  <2>3. wakeups' = wakeups BY <2>1 DEF wakeups
  <2>4. Counts(signalled, Len(got), published, count, wakeups, "idle", c)
    BY <1>2, <2>1 DEF Counts, Running, Asleep
  <2>5. Counts(signalled, Len(got), published, count', wakeups', waiter'.pc, c)
    BY <2>1, <2>2, <2>3, <2>4
  <2> QED BY <1>2, <1>3, <2>2, <2>5, CountingMoves
<1> QED BY <1>5, <1>6, <1>7

\* How a call of the inner try_dequeue or peek begins.
LEMMA DequeueCalled ==
  ASSUME NEW h, Core(h), NEW op \in {"try_dequeue", "peek"}, CallDequeue(op)
  PROVE  c.pc = "idle" /\ c'.pc = "dequeue" /\ c'.op = op /\ c'.start = published /\ UNCHANGED <<p, sent, got, destroyed>>
<1>1. c.pc = "idle" /\ c' = Call(op, "dequeue", published) /\ UNCHANGED <<p, sent, got, destroyed>>
  BY DEF CallDequeue
<1>2. published \in Nat BY CountsAreIntegers
<1>3. "dequeue" \in Pcs /\ op \in Ops BY DEF Pcs, Ops
<1>4. CallIs(Call(op, "dequeue", published), "dequeue", op, FALSE, published, 0, 0, 0, 0)
  BY <1>2, <1>3, CallNew
<1> QED BY <1>1, <1>4 DEF CallIs

\* DequeueCall and BlockingPeek keep the semaphore's invariant.
LEMMA SemaphoreDequeue ==
  ASSUME NEW h, Core(h), Semaphore, DequeueCall \/ BlockingPeek, UNCHANGED blocking
  PROVE  Semaphore'
<1>1. blocking BY DEF DequeueCall, BlockingPeek
<1>2. SemaTypes /\ Counts(signalled, Len(got), published, count, wakeups, waiter.pc, c) /\ blocking = TRUE
  BY <1>1, SemaphoreParts
<1>3. Core(h)'
  <2>1. QueueCalls BY DEF DequeueCall, BlockingPeek, QueueCalls
  <2> QED BY <2>1, CallsCore
<1>4. PICK sg, g, pub, n, up : sg = signalled /\ g = Len(got) /\ pub = published /\ n = count /\ up = wakeups OBVIOUS
<1>5. sg \in Int /\ g \in Nat /\ pub \in Nat BY <1>4, CountsAreIntegers
<1>6. Counts(sg, g, pub, n, up, waiter.pc, c) BY <1>2, <1>4
<1>7. CASE waiter.pc = "acquired" /\ CallDequeue("try_dequeue") /\ UNCHANGED semaVars
  <2>1. c.pc = "idle" /\ c'.pc = "dequeue" /\ c'.op = "try_dequeue" /\ c'.start = pub /\ UNCHANGED <<p, sent, got>>
    BY <1>4, <1>7, DequeueCalled
  <2>2. UNCHANGED <<count, posts, waiter, signaller>> BY <1>7 DEF semaVars
  <2>3. n = sg - g - 1 /\ n >= 0 /\ sg <= pub /\ up = 0 BY <1>6, <1>7, <2>1 DEF Counts, One
  <2>4. pub > g BY <1>5, <2>3
  <2>5. Counts(sg, g, pub, n, up, "acquired", c')
    BY <1>5, <2>1, <2>3, <2>4 DEF Counts, Running, Asleep, One
  <2>6. SemaTypes' BY <1>2, <2>2 DEF SemaTypes
  <2>7. Counts(signalled, Len(got), published, count, wakeups, waiter'.pc, c')
    BY <1>4, <1>7, <2>2, <2>5
  <2> QED BY <1>1, <1>3, <2>1, <2>2, <2>6, <2>7, SemaphoreCall
<1>8. CASE waiter.pc = "acquired" /\ c.pc = "done" /\ ReturnDequeue /\ waiter' = Awake /\ UNCHANGED <<count, posts, signaller>>
  <2>1. c' = Idle /\ UNCHANGED <<p, sent, got>> BY <1>8 DEF ReturnDequeue
  <2>2. c'.pc = "idle" BY <2>1, IdleCall DEF CallIs
  <2>3. waiter'.pc = "idle" /\ SemaTypes' BY <1>2, <1>8 DEF SemaTypes, Running, Awake
  <2>4. n = sg - g /\ n >= 0 /\ sg <= pub /\ up = 0 BY <1>5, <1>6, <1>8 DEF Counts, One
  <2>5. Counts(sg, g, pub, n, up, "idle", c') BY <1>5, <2>2, <2>4 DEF Counts, Running, Asleep, One
  <2>6. Counts(signalled, Len(got), published, count, wakeups, waiter'.pc, c') BY <1>4, <2>3, <2>5
  <2> QED BY <1>1, <1>3, <1>8, <2>1, <2>3, <2>6, SemaphoreCall
<1>9. CASE waiter.pc = "idle" /\ (CallDequeue("peek") \/ ReturnDequeue) /\ UNCHANGED semaVars
  <2>1. UNCHANGED <<count, posts, waiter, signaller>> BY <1>9 DEF semaVars
  <2>2. UNCHANGED <<p, sent, got>> /\ (c'.pc = "idle" \/ (c'.pc = "dequeue" /\ c'.op = "peek"))
    <3>1. ASSUME CallDequeue("peek") PROVE UNCHANGED <<p, sent, got>> /\ c'.pc = "dequeue" /\ c'.op = "peek"
      BY <3>1, DequeueCalled
    <3>2. ASSUME ReturnDequeue PROVE UNCHANGED <<p, sent, got>> /\ c'.pc = "idle"
      <4>1. c' = Idle /\ UNCHANGED <<p, sent, got>> BY <3>2 DEF ReturnDequeue
      <4>2. c'.pc = "idle" BY <4>1, IdleCall DEF CallIs
      <4> QED BY <4>1, <4>2
    <3>3. CASE CallDequeue("peek")
      <4>1. UNCHANGED <<p, sent, got>> /\ c'.pc = "dequeue" /\ c'.op = "peek" BY <3>1, <3>3
      <4> QED BY <4>1
    <3>4. CASE ReturnDequeue
      <4>1. UNCHANGED <<p, sent, got>> /\ c'.pc = "idle" BY <3>2, <3>4
      <4> QED BY <4>1
    <3>5. CallDequeue("peek") \/ ReturnDequeue BY <1>9
    <3> QED BY <3>3, <3>4, <3>5
  <2>3. n = sg - g /\ n >= 0 /\ sg <= pub /\ up = 0 BY <1>6, <1>9 DEF Counts, Running
  <2>4. Counts(sg, g, pub, n, up, "idle", c') BY <1>5, <2>2, <2>3 DEF Counts, Running, Asleep, One
  <2>5. SemaTypes' BY <1>2, <2>1 DEF SemaTypes
  <2>6. Counts(signalled, Len(got), published, count, wakeups, waiter'.pc, c')
    BY <1>4, <1>9, <2>1, <2>4
  <2> QED BY <1>1, <1>3, <2>1, <2>2, <2>5, <2>6, SemaphoreCall
<1> QED BY <1>7, <1>8, <1>9 DEF DequeueCall, BlockingPeek

\* What the destructor leaves alone.
LEMMA DestroyedCalls ==
  ASSUME NEW h, Core(h), Destroy
  PROVE  p.pc = "idle" /\ c.pc = "idle" /\ p'.pc = "gone" /\ c'.pc = "gone" /\ UNCHANGED <<sent, got, sizeMask>>
<1>1. p.pc = "idle" /\ c.pc = "idle" /\ p' = [p EXCEPT !.pc = "gone"] /\ c' = [c EXCEPT !.pc = "gone"] /\ UNCHANGED <<sent, got, sizeMask>>
  BY DEF Destroy
<1>2. p \in CallSet /\ c \in CallSet BY CoreParts
<1>3. SetPc(p, p', "gone") /\ SetPc(c, c', "gone") BY <1>1 DEF SetPc
<1> QED BY <1>1, <1>2, <1>3, GoesOn DEF Goes

\* DestroyStep keeps the semaphore's invariant.
LEMMA SemaphoreDestroy ==
  ASSUME NEW h, Core(h), Semaphore, DestroyStep, UNCHANGED blocking
  PROVE  Semaphore'
<1>1. waiter.pc = "idle" /\ UNCHANGED semaVars /\ Destroy BY DEF DestroyStep
<1>2. CASE ~ blocking BY <1>1, <1>2, SemaphorePlain
<1>3. CASE blocking
  <2>1. SemaTypes /\ Counts(signalled, Len(got), published, count, wakeups, waiter.pc, c) /\ blocking = TRUE
    BY <1>3, SemaphoreParts
  <2>2. UNCHANGED <<count, posts, waiter, signaller>> BY <1>1 DEF semaVars
  <2>3. p.pc = "idle" /\ p'.pc = "gone" /\ c'.pc = "gone" /\ UNCHANGED <<sent, got>>
    BY <1>1, DestroyedCalls
  <2>4. sent \in Nat BY CountsAreIntegers
  <2>5. signalled' = signalled /\ wakeups' = wakeups BY <2>2, <2>3, <2>4 DEF signalled, wakeups, One
  <2>6. published' = published
    <3>1. Core(h)' BY <1>1, DestroyCore
    <3>2. Numbers(h) /\ Numbers(h)' BY <3>1, CoreNumbers, CoreNumbersNext
    <3> QED BY <3>2 DEF Numbers
  <2>7. SemaTypes' BY <2>1, <2>2 DEF SemaTypes
  <2>8. Counts(signalled, Len(got), published, count, wakeups, "idle", c')
    BY <1>1, <2>1, <2>3 DEF Counts, Running, Asleep
  <2>9. Counts(signalled', Len(got'), published', count', wakeups', waiter'.pc, c')
    BY <1>1, <2>2, <2>3, <2>5, <2>6, <2>8
  <2> QED BY <2>1, <2>7, <2>9, SemaphoreFrom
<1> QED BY <1>2, <1>3

\* Every step keeps it.
LEMMA SemaphoreStep ==
  ASSUME NEW h, Core(h), Semaphore, [BlockingNext]_vars
  PROVE  Semaphore'
<1>1. UNCHANGED blocking BY DEF BlockingNext, vars
<1>2. CASE PlainCall
  <2>1. ~ blocking /\ UNCHANGED semaVars BY <1>2 DEF PlainCall
  <2> QED BY <1>1, <2>1, SemaphorePlain
<1>3. CASE EnqueueCall BY <1>1, <1>3, SemaphoreEnqueueCall
<1>4. CASE SignalElement BY <1>1, <1>4, SemaphoreSignal
<1>5. CASE PostElement BY <1>1, <1>5, SemaphorePost
<1>6. CASE WaitCall \/ WaitElement \/ WaitFailed BY <1>1, <1>6, SemaphoreWait
<1>7. CASE DequeueCall \/ BlockingPeek BY <1>1, <1>7, SemaphoreDequeue
<1>8. CASE InnerStep
  <2>1. UNCHANGED semaVars /\ (ProducerStep \/ ConsumerStep) BY <1>8 DEF InnerStep
  <2>2. CASE ProducerStep BY <1>1, <2>1, <2>2, SemaphoreProducer
  <2>3. CASE ConsumerStep BY <1>1, <2>1, <2>3, SemaphoreConsumer
  <2> QED BY <2>1, <2>2, <2>3
<1>9. CASE DrainStep
  <2>1. UNCHANGED semaVars BY <1>9 DEF DrainStep
  <2>2. PICK t \in Threads : Drain(t) BY <1>9 DEF DrainStep
  <2> QED BY <1>1, <2>1, <2>2, SemaphoreDrain
<1>10. CASE DestroyStep BY <1>1, <1>10, SemaphoreDestroy
<1>11. CASE UNCHANGED vars
  <2>1. UNCHANGED <<blocking, count, posts, waiter, signaller, size, mem, stores, sizeMask, localFront, p, c, sent, got, destroyed>>
    BY <1>11 DEF vars, queueVars, semaVars
  <2>2. signalled' = signalled /\ wakeups' = wakeups /\ published' = published
    BY <2>1 DEF signalled, wakeups, published, Publishing
  <2>3. Counting => Counting'
    <3>1. SUFFICES ASSUME Counting PROVE Counting' OBVIOUS
    <3>2. Counts(signalled, Len(got), published, count, wakeups, waiter.pc, c) BY <3>1, CountingIs
    <3> QED BY <2>1, <2>2, <3>2, CountingNext
  <2> QED BY <2>1, <2>3 DEF Semaphore, SemaTypes, SemaInit
<1> QED BY <1>2, <1>3, <1>4, <1>5, <1>6, <1>7, <1>8, <1>9, <1>10, <1>11 DEF BlockingNext

-----------------------------------------------------------------------------
(* The destructor: every element and every block.                          *)

\* No store waits and everything taken is released.
Quiet(h) ==
  /\ DOMAIN h.S = {} /\ DOMAIN h.R = {}
  /\ h.rel = h.got /\ h.freed = h.front /\ h.shown = h.tail /\ h.pub = h.sent

\* The owner destroys the queue when no store is pending.
LEMMA QuietIs ==
  ASSUME NEW h, Core(h), Destroy
  PROVE  Quiet(h)
<1>1. Holds(stores["producer"], h.S) /\ Holds(stores["consumer"], h.R) /\ "producer" \in Threads /\ "consumer" \in Threads
  BY CoreParts
<1>2. stores["producer"] = << >> /\ stores["consumer"] = << >> BY <1>1 DEF Destroy
<1>3. ASSUME NEW S, Holds(<< >>, S) PROVE DOMAIN S = {}
  <2>1. ASSUME NEW t \in DOMAIN S PROVE FALSE
    <3>1. \E i \in 1..Len(<< >>) : TRUE BY <1>3 DEF Holds
    <3>2. Len(<< >>) = 0 OBVIOUS
    <3> QED BY <3>1, <3>2
  <2> QED BY <2>1
<1>4. DOMAIN h.S = {} /\ DOMAIN h.R = {} BY <1>1, <1>2, <1>3
<1>5. Shape(h) /\ Pend(h) /\ PendingFronts(h) BY CoreParts
<1>6. /\ h.freed \in Nat /\ h.front \in Nat /\ h.shown \in Nat /\ h.tail \in Nat /\ h.rel \in Nat /\ h.got \in Nat /\ h.pub \in Nat /\ h.sent \in Nat
      /\ h.freed <= h.front /\ h.front <= h.shown /\ h.shown <= h.tail /\ 1 <= h.freed /\ h.rel <= h.got /\ h.got <= h.pub /\ h.pub <= h.sent
  BY <1>5, ShapeFacts
<1>7. h.pub = h.sent
  <2>1. ~ (h.pub < h.sent)
    <3>1. SUFFICES ASSUME h.pub < h.sent PROVE FALSE OBVIOUS
    <3>2. h.sent \in (h.pub + 1)..h.sent BY <1>6, <3>1
    <3>3. Tag(h.sent, 7) \in DOMAIN h.S BY <1>5, <3>2 DEF Pend, PendingTags
    <3> QED BY <1>4, <3>3
  <2> QED BY <1>6, <2>1
<1>8. h.rel = h.got
  <2>1. ~ (h.rel < h.got)
    <3>1. SUFFICES ASSUME h.rel < h.got PROVE FALSE OBVIOUS
    <3>2. h.got \in (h.rel + 1)..h.got BY <1>6, <3>1
    <3>3. Tag(h.got, 4) \in DOMAIN h.R BY <1>5, <3>2 DEF PendingFronts
    <3> QED BY <1>4, <3>3
  <2> QED BY <1>6, <2>1
<1>9. h.freed = h.front
  <2>1. ~ (h.freed < h.front)
    <3>1. SUFFICES ASSUME h.freed < h.front PROVE FALSE OBVIOUS
    <3>2. h.front \in (h.freed + 1)..h.front BY <1>6, <3>1
    <3>3. Tag(h.first[h.front], 2) \in DOMAIN h.R BY <1>5, <3>2 DEF PendingFronts
    <3> QED BY <1>4, <3>3
  <2> QED BY <1>6, <2>1
<1>10. h.shown = h.tail
  <2>1. ~ (h.shown < h.tail)
    <3>1. SUFFICES ASSUME h.shown < h.tail PROVE FALSE OBVIOUS
    <3>2. h.tail \in 2..h.tail /\ h.tail \in 1..(h.tail + 1) /\ h.shown + 1 \in 1..(h.tail + 1) /\ h.shown + 1 <= h.tail /\ h.tail + 1 \in 1..(h.tail + 1)
      BY <1>6, <3>1
    <3>3. h.first[h.tail] < h.first[h.tail + 1] /\ h.first[h.tail + 1] = h.sent + 1
      BY <1>5, <3>2 DEF Shape, Visits
    <3>4. h.first[h.shown + 1] <= h.first[h.tail] BY <1>5, <3>2, FirstMonotone
    <3>5. h.pub + 1 <= h.first[h.shown + 1] BY <1>5 DEF Shape, Positions
    <3>6. h.first[h.tail] \in Nat /\ h.first[h.shown + 1] \in Nat BY <1>5, <3>2, FirstType
    <3> QED BY <1>6, <1>7, <3>3, <3>4, <3>5, <3>6
  <2> QED BY <1>6, <2>1
<1> QED BY <1>4, <1>7, <1>8, <1>9, <1>10 DEF Quiet

\* The elements that the block of visit v holds.
From(h, v) == IF v <= h.tail THEN MemFront(h, v) ELSE h.sent + 1
\* and before Until(h, v).
Until(h, v) == IF v <= h.tail THEN h.first[v + 1] ELSE h.sent + 1

\* Then both threads see memory.
LEMMA QuietViews ==
  ASSUME NEW h, Core(h), Destroy
  PROVE  World(h, mem, mem, mem, localFront, size, sizeMask) /\ mem \in [Locations -> Nat]
<1>1. Whole(h, mem, stores["producer"], stores["consumer"], localFront, size, sizeMask) /\ "producer" \in Threads /\ "consumer" \in Threads
  BY CoreParts
<1>2. stores["producer"] = << >> /\ stores["consumer"] = << >> BY <1>1 DEF Destroy
<1>3. mem \in [Locations -> Nat] /\ World(h, mem, View(stores["producer"], mem), View(stores["consumer"], mem), localFront, size, sizeMask)
  BY <1>1 DEF Whole
<1>4. View(stores["producer"], mem) = mem /\ View(stores["consumer"], mem) = mem
  BY <1>2, <1>3, EmptyView
<1> QED BY <1>3, <1>4

\* What is left of the visits' elements, from the front block on, are intervals one
\* after the other, from the first element not taken to the last one sent.
LEMMA Borders ==
  ASSUME NEW h, Shape(h), Quiet(h)
  PROVE  /\ From(h, h.freed) = h.got + 1 /\ Until(h, LastVisit(h)) = h.sent + 1
         /\ \A v \in h.freed..LastVisit(h) : /\ From(h, v) \in Nat /\ Until(h, v) \in Nat /\ From(h, v) <= Until(h, v)
                                             /\ v < LastVisit(h) => From(h, v + 1) = Until(h, v)
<1>1. /\ h.freed \in Nat /\ h.tail \in Nat /\ h.freed <= h.tail /\ h.tail <= LastVisit(h) /\ LastVisit(h) \in Nat /\ 1 <= h.freed
      /\ h.sent \in Nat /\ h.rel \in Nat /\ h.got \in Nat BY ShapeFacts
<1>2. h.first[h.tail + 1] = h.sent + 1 BY DEF Shape, Visits
<1>3. From(h, h.freed) = h.got + 1 BY <1>1 DEF From, MemFront, Quiet
<1>4. Until(h, LastVisit(h)) = h.sent + 1
  <2>1. CASE h.tail = LastVisit(h) BY <1>1, <1>2, <2>1 DEF Until
  <2>2. CASE h.tail # LastVisit(h) BY <1>1, <2>2 DEF Until
  <2> QED BY <2>1, <2>2
<1>5. ASSUME NEW v \in h.freed..LastVisit(h)
      PROVE  From(h, v) \in Nat /\ Until(h, v) \in Nat /\ From(h, v) <= Until(h, v) /\ (v < LastVisit(h) => From(h, v + 1) = Until(h, v))
  <2>1. CASE v <= h.tail
    <3>1. v \in h.freed..h.tail BY <1>1, <2>1
    <3>2. Ordered(h, v) BY <3>1, OrderedVisits
    <3>3. MemFront(h, v) \in Nat /\ h.first[v + 1] \in Nat /\ MemFront(h, v) <= h.first[v + 1]
      BY <3>2 DEF Ordered
    <3>4. From(h, v) = MemFront(h, v) /\ Until(h, v) = h.first[v + 1] BY <2>1 DEF From, Until
    <3>5. ASSUME v < LastVisit(h) PROVE From(h, v + 1) = Until(h, v)
      <4>1. CASE v < h.tail
        <5>1. v + 1 <= h.tail /\ v + 1 # h.freed BY <1>1, <3>1, <4>1
        <5> QED BY <3>4, <5>1 DEF From, MemFront
      <4>2. CASE v = h.tail
        <5>1. ~ (v + 1 <= h.tail) BY <1>1, <4>2
        <5> QED BY <1>2, <3>4, <4>2, <5>1 DEF From
      <4> QED BY <1>1, <3>1, <4>1, <4>2
    <3> QED BY <3>3, <3>4, <3>5
  <2>2. CASE ~ (v <= h.tail)
    <3>1. ~ (v + 1 <= h.tail) BY <1>1, <2>2
    <3> QED BY <1>1, <2>2, <3>1 DEF From, Until
  <2> QED BY <2>1, <2>2
<1> QED BY <1>3, <1>4, <1>5

\* Slots are counted on round the block,
LEMMA ModPlus == ASSUME NEW x \in Int, NEW k \in Int, NEW m \in Nat, m > 0
  PROVE ((x % m) + k) % m = (x + k) % m
<1>1. PICK q \in Int, r \in 0..(m-1) : x = m * q + r /\ x % m = r BY DivMod
<1>2. PICK y \in Int : y = r + k OBVIOUS
<1>3. PICK q2 \in Int, r2 \in 0..(m-1) : y = m * q2 + r2 /\ y % m = r2 BY DivMod
<1>4. PICK z \in Int : z = x + k OBVIOUS
<1>5. PICK q3 \in Int : q3 = q + q2 OBVIOUS
<1>6. z = m * q3 + r2
  <2>1. z = m * q + m * q2 + r2 BY <1>1, <1>2, <1>3, <1>4
  <2>2. m * q3 = m * q + m * q2 BY <1>5
  <2> QED BY <2>1, <2>2
<1>7. z % m = r2 BY <1>6, DivMod2
<1> QED BY <1>1, <1>2, <1>3, <1>4, <1>7

\* so the k-th slot after that of element x is that of element x + k.
LEMMA SlotPlus == ASSUME NEW x \in Int, NEW base \in Int, NEW k \in Int, NEW m \in Nat, m > 0
  PROVE (Slot(x, base, m) + k) % m = Slot(x + k, base, m)
<1>1. PICK y \in Int : y = x - base OBVIOUS
<1>2. ((y % m) + k) % m = (y + k) % m BY ModPlus
<1>3. y + k = (x + k) - base BY <1>1
<1> QED BY <1>1, <1>2, <1>3 DEF Slot

\* The elements from a to b - 1.
Segment(a, b) == [i \in 1..(b - a) |-> a + i - 1]

\* The elements the destructor finds in a block are those of its visit that were not
\* taken.
LEMMA ElementsAre ==
  ASSUME NEW h, Core(h), Destroy, NEW v \in h.freed..LastVisit(h)
  PROVE  Elements(h.block[v]) = Segment(From(h, v), Until(h, v))
<1>1. Shape(h) /\ Sizing(h, size, sizeMask) /\ Fits(h) /\ Quiet(h) BY CoreParts, QuietIs
<1>2. /\ h.freed \in Nat /\ h.tail \in Nat /\ h.freed <= h.tail /\ h.tail <= LastVisit(h) /\ LastVisit(h) \in Nat /\ 1 <= h.freed
      /\ h.sent \in Nat /\ h.rel \in Nat /\ h.got \in Nat BY <1>1, ShapeFacts
<1>3. Views(h, mem, mem, mem, localFront) /\ mem \in [Locations -> Nat] BY QuietViews DEF World
<1>4. v \in 1..LastVisit(h) BY <1>2
<1>5. sizeMask[h.block[v]] + 1 = h.room[v] BY <1>1, <1>4 DEF Sizing
<1>6. h.room[v] \in Nat /\ h.room[v] > h.unit /\ h.unit \in Nat /\ h.unit >= 1
  BY <1>1, <1>4, ShapeFacts DEF Shape, Circular
<1>7. h.block[v] \in Blocks BY <1>1, <1>4, BlockFits
<1> DEFINE b == h.block[v]
           m == h.room[v]
           fr == mem[<<"front", b>>]
           tl == mem[<<"tail", b>>]
<1>8. fr \in Nat /\ tl \in Nat BY <1>3, <1>7, PlacesOf
<1>9. Elements(b) = [i \in 1..((tl - fr) % m) |-> mem[<<"data", b, (fr + i - 1) % m>>]]
  BY <1>5 DEF Elements
<1>10. CASE v > h.tail
  <2>1. v \in (h.tail + 1)..LastVisit(h) BY <1>2, <1>10
  <2>2. fr = tl BY <1>3, <2>1 DEF Views, FreeViews
  <2>3. (tl - fr) % m = 0
    <3> HIDE DEF fr, tl, m
    <3>1. tl - fr = 0 BY <1>8, <2>2
    <3>2. PICK z \in Int : z = tl - fr BY <1>8
    <3>3. m \in Nat /\ m > 0 BY <1>6 DEF m
    <3>4. z = m * 0 + 0 BY <3>1, <3>2, <3>3
    <3>5. z % m = 0 BY <3>3, <3>4, DivMod2
    <3> QED BY <3>2, <3>5
  <2>4. ~ (v <= h.tail) BY <1>2, <1>10
  <2>5. Until(h, v) - From(h, v) = 0 BY <1>2, <2>4 DEF From, Until
  <2>6. 1..((tl - fr) % m) = {} /\ 1..(Until(h, v) - From(h, v)) = {} BY <2>3, <2>5
  <2>7. Elements(b) = [i \in {} |-> mem[<<"data", b, (fr + i - 1) % m>>]] BY <1>9, <2>6
  <2>8. Segment(From(h, v), Until(h, v)) = [i \in {} |-> From(h, v) + i - 1] BY <2>6 DEF Segment
  <2>9. [i \in {} |-> mem[<<"data", b, (fr + i - 1) % m>>]] = [i \in {} |-> From(h, v) + i - 1] OBVIOUS
  <2> QED BY <2>7, <2>8, <2>9
<1>11. CASE v <= h.tail
  <2>1. v \in h.freed..h.tail /\ v \in 1..h.tail /\ v \in 1..(h.tail + 1) /\ v + 1 \in 1..(h.tail + 1)
    BY <1>2, <1>11
  <2>2. Ordered(h, v) BY <1>1, <2>1, OrderedVisits
  <2>3. PICK a \in Nat : a = MemFront(h, v) BY <2>2 DEF Ordered
  <2>4. PICK z \in Nat : z = h.first[v + 1] BY <2>2 DEF Ordered
  <2>5. a <= z /\ h.base[v] \in Int BY <2>2, <2>3, <2>4 DEF Ordered
  <2>6. From(h, v) = a /\ Until(h, v) = z BY <1>11, <2>3, <2>4 DEF From, Until
  <2>7. fr = IndexOf(h, v, a) /\ tl = IndexOf(h, v, z)
    BY <1>3, <2>1, <2>3, <2>4 DEF Views, FrontViews, TailViews
  <2>8. (IndexOf(h, v, z) - IndexOf(h, v, a)) % h.room[v] = z - a
    BY <1>1, <2>1, <2>3, <2>4, <2>5, IndexDiff
  <2>9. (tl - fr) % m = z - a BY <2>7, <2>8
  <2>10. ASSUME NEW i \in 1..(z - a) PROVE mem[<<"data", b, (fr + i - 1) % m>>] = a + i - 1
    <3>1. PICK k \in Nat : k = i - 1 /\ k <= z - a - 1 BY <2>5
    <3>2. PICK e \in Nat : e = a + k OBVIOUS
    <3>3. (fr + k) % m = IndexOf(h, v, e)
      <4>1. (Slot(a, h.base[v], m) + k) % m = Slot(a + k, h.base[v], m)
        <5>1. a \in Int /\ k \in Int /\ h.room[v] > 0 BY <1>6
        <5> QED BY <1>6, <2>5, <5>1, SlotPlus
      <4> QED BY <2>7, <3>2, <4>1 DEF IndexOf
    <3>4. fr + i - 1 = fr + k BY <1>8, <3>1
    <3>5. h.first[v] <= a /\ h.first[v] \in Nat BY <2>2, <2>3 DEF Ordered
    <3>6. a >= h.got + 1
      <4>1. CASE v = h.freed BY <1>1, <1>2, <2>3, <4>1 DEF MemFront, Quiet
      <4>2. CASE v # h.freed
        <5>1. h.freed + 1 \in 1..(h.tail + 1) /\ h.freed + 1 <= v BY <1>2, <2>1, <4>2
        <5>2. h.first[h.freed + 1] <= h.first[v] BY <1>1, <2>1, <5>1, FirstMonotone
        <5>3. h.rel + 1 <= h.first[h.freed + 1] BY <1>1 DEF Shape, Positions
        <5>4. h.rel = h.got BY <1>1 DEF Quiet
        <5>5. h.first[h.freed + 1] \in Nat BY <1>1, <5>1, FirstType
        <5> QED BY <1>2, <3>5, <5>2, <5>3, <5>4, <5>5
      <4> QED BY <4>1, <4>2
    <3>7. z <= h.sent + 1
      <4>1. h.tail + 1 \in 1..(h.tail + 1) /\ v + 1 <= h.tail + 1 BY <1>2, <2>1
      <4>2. h.first[v + 1] <= h.first[h.tail + 1] BY <1>1, <2>1, <4>1, FirstMonotone
      <4>3. h.first[h.tail + 1] = h.sent + 1 BY <1>1 DEF Shape, Visits
      <4> QED BY <2>4, <4>2, <4>3
    <3>8. e \in (h.got + 1)..h.sent /\ e \in 1..h.sent /\ h.first[v] <= e /\ e < h.first[v + 1]
      BY <1>2, <2>4, <2>5, <3>1, <3>2, <3>5, <3>6, <3>7
    <3>9. h.visit[e] = v BY <1>1, <2>1, <3>8, VisitIs
    <3>10. Tag(e, 1) \notin DOMAIN h.S BY <1>1 DEF Quiet
    <3>11. mem[<<"data", h.block[h.visit[e]], IndexOf(h, h.visit[e], e)>>] = e
      BY <1>3, <3>8, <3>10 DEF Views, DataViews
    <3>12. mem[<<"data", b, (fr + k) % m>>] = e BY <3>3, <3>9, <3>11
    <3>13. a + i - 1 = e BY <3>1, <3>2
    <3> QED BY <3>4, <3>12, <3>13
  <2>11. Elements(b) = [i \in 1..(z - a) |-> mem[<<"data", b, (fr + i - 1) % m>>]] BY <1>9, <2>9
  <2>12. [i \in 1..(z - a) |-> mem[<<"data", b, (fr + i - 1) % m>>]] = [i \in 1..(z - a) |-> a + i - 1]
    BY <2>10
  <2> QED BY <2>6, <2>11, <2>12 DEF Segment
<1> QED BY <1>2, <1>10, <1>11

\* The blocks from the front block on, as the destructor finds them.
Walked(at, m, n) == at = [i \in 1..n |-> IF i = 1 THEN m[<<"frontBlock">>] ELSE m[<<"next", at[i - 1]>>]]
\* The blocks of the circle from the front block on.
Ring(h) == [i \in 1..h.n |-> h.block[h.freed + i - 1]]

\* Following the next pointers from frontBlock leads along the visits that are not
\* freed.
LEMMA WalkedRing ==
  ASSUME NEW h, NEW m, Shape(h), m[<<"frontBlock">>] = h.block[h.freed],
         \A v \in h.freed..LastVisit(h) : m[<<"next", h.block[v]>>] = NextOf(h, v)
  PROVE  Walked(Ring(h), m, h.n)
<1>1. h.freed \in Nat /\ h.n \in Nat /\ h.n >= 1 /\ LastVisit(h) = h.freed + h.n - 1 BY ShapeFacts
<1>2. ASSUME NEW i \in 1..h.n PROVE Ring(h)[i] = IF i = 1 THEN m[<<"frontBlock">>] ELSE m[<<"next", Ring(h)[i - 1]>>]
  <2>1. CASE i = 1
    <3>1. Ring(h)[i] = h.block[h.freed + i - 1] /\ h.freed + i - 1 = h.freed BY <1>1, <2>1 DEF Ring
    <3> QED BY <2>1, <3>1
  <2>2. CASE i # 1
    <3>1. PICK v \in h.freed..LastVisit(h) : v = h.freed + i - 2 /\ v < LastVisit(h) /\ v + 1 = h.freed + i - 1
      BY <1>1, <2>2
    <3>2. i - 1 \in 1..h.n /\ h.freed + (i - 1) - 1 = v BY <1>1, <2>2, <3>1
    <3>3. Ring(h)[i - 1] = h.block[v] /\ Ring(h)[i] = h.block[v + 1] BY <3>1, <3>2 DEF Ring
    <3>4. NextOf(h, v) = h.block[v + 1] BY <1>1, <3>1 DEF NextOf
    <3> QED BY <2>2, <3>1, <3>3, <3>4
  <2> QED BY <2>1, <2>2
<1>3. Ring(h) = [i \in 1..h.n |-> Ring(h)[i]] BY DEF Ring
<1> QED BY <1>2, <1>3 DEF Walked

\* There is one such walk.
LEMMA WalkedOnce ==
  ASSUME NEW n \in Nat, NEW m, NEW at, NEW w, Walked(at, m, n), Walked(w, m, n)
  PROVE  at = w
<1> DEFINE T == {i \in 1..n : at[i] # w[i]}
<1>1. /\ at = [i \in 1..n |-> IF i = 1 THEN m[<<"frontBlock">>] ELSE m[<<"next", at[i - 1]>>]]
      /\ w = [i \in 1..n |-> IF i = 1 THEN m[<<"frontBlock">>] ELSE m[<<"next", w[i - 1]>>]]
        BY DEF Walked
<1>2. T = {}
  <2>1. SUFFICES ASSUME T # {} PROVE FALSE OBVIOUS
  <2>2. T \in SUBSET Nat OBVIOUS
  <2>3. PICK i \in T : \A j \in T : i <= j BY <2>1, <2>2, LeastNat
  <2>4. i \in 1..n /\ at[i] # w[i] OBVIOUS
  <2>5. i # 1 BY <1>1, <2>4
  <2>6. i - 1 \in 1..n /\ ~ (i <= i - 1) BY <2>4, <2>5
  <2>7. at[i - 1] = w[i - 1] BY <2>3, <2>6
  <2>8. at[i] = m[<<"next", at[i - 1]>>] BY <1>1, <2>4, <2>5
  <2>9. w[i] = m[<<"next", w[i - 1]>>] BY <1>1, <2>4, <2>5
  <2> QED BY <2>4, <2>7, <2>8, <2>9
<1>3. DOMAIN at = 1..n /\ DOMAIN w = 1..n BY <1>1
<1>4. \A i \in 1..n : at[i] = w[i] BY <1>2
<1>5. at = [i \in 1..n |-> at[i]] /\ w = [i \in 1..n |-> w[i]] BY <1>1
<1> QED BY <1>4, <1>5

\* The walk as the definition of Circle writes it.
TheWalk(m, D) == CHOOSE at : at = [i \in D |-> IF i = 1 THEN m[<<"frontBlock">>] ELSE m[<<"next", at[i - 1]>>]]

\* It is the one the recursive function of Circle chooses.
LEMMA TheWalkIs ==
  ASSUME NEW n \in Nat, NEW m, NEW w, Walked(w, m, n)
  PROVE  TheWalk(m, 1..n) = w
<1>1. \E at : at = [i \in 1..n |-> IF i = 1 THEN m[<<"frontBlock">>] ELSE m[<<"next", at[i - 1]>>]]
  BY DEF Walked
<1>2. Walked(TheWalk(m, 1..n), m, n) BY <1>1 DEF TheWalk, Walked
<1> QED BY <1>2, WalkedOnce

\* Circle is that walk up to its return to the front block.
LEMMA CircleWalk ==
  Circle = SubSeq(TheWalk(mem, DOMAIN sizeMask), 1,
                  Min({i \in DOMAIN sizeMask : mem[<<"next", TheWalk(mem, DOMAIN sizeMask)[i]>>] = TheWalk(mem, DOMAIN sizeMask)[1]} \cup {Len(sizeMask)}))
BY DEF Circle, TheWalk

\* The destructor's walk visits every block of the circle once.
LEMMA CircleIs ==
  ASSUME NEW h, Core(h), Destroy
  PROVE  Circle = Ring(h) /\ DOMAIN sizeMask = 1..h.n
<1>1. Shape(h) /\ Sizing(h, size, sizeMask) BY CoreParts
<1>2. /\ h.freed \in Nat /\ h.n \in Nat /\ h.n >= 1 /\ LastVisit(h) = h.freed + h.n - 1 /\ LastVisit(h) \in Nat /\ 1 <= h.freed
  BY <1>1, ShapeFacts
<1>3. Views(h, mem, mem, mem, localFront) /\ mem \in [Locations -> Nat] BY QuietViews DEF World
<1>4. mem[<<"frontBlock">>] = h.block[h.freed] BY <1>3 DEF Views, FrontViews
<1>5. \A v \in h.freed..LastVisit(h) : mem[<<"next", h.block[v]>>] = NextOf(h, v)
  BY <1>3 DEF Views, NextViews
<1>6. DOMAIN sizeMask = 1..h.n /\ Len(sizeMask) = h.n BY <1>1, <1>2 DEF Sizing
<1>7. TheWalk(mem, 1..h.n) = Ring(h) BY <1>1, <1>2, <1>4, <1>5, WalkedRing, TheWalkIs
<1> DEFINE T == {i \in 1..h.n : mem[<<"next", Ring(h)[i]>>] = Ring(h)[1]} \cup {h.n}
<1>8. Circle = SubSeq(Ring(h), 1, Min(T)) BY <1>6, <1>7, CircleWalk
<1>9. Min(T) = h.n
  <2>1. T \in SUBSET Int /\ h.n \in T BY <1>2
  <2>2. ASSUME NEW i \in T PROVE h.n <= i
    <3>1. CASE i = h.n BY <1>2, <3>1
    <3>2. CASE i # h.n
      <4>1. i \in 1..h.n /\ mem[<<"next", Ring(h)[i]>>] = Ring(h)[1] BY <3>2
      <4>2. PICK v \in h.freed..LastVisit(h) : v = h.freed + i - 1 /\ v < LastVisit(h)
        BY <1>2, <3>2, <4>1
      <4>3. 1 \in 1..h.n /\ h.freed + 1 - 1 = h.freed /\ v + 1 \in h.freed..LastVisit(h) /\ h.freed \in h.freed..LastVisit(h) /\ v # LastVisit(h) /\ v + 1 # h.freed
        BY <1>2, <4>2
      <4>4. Ring(h)[i] = h.block[v] /\ Ring(h)[1] = h.block[h.freed] BY <4>1, <4>2, <4>3 DEF Ring
      <4>5. NextOf(h, v) = h.block[v + 1] BY <4>3 DEF NextOf
      <4>6. h.block[v + 1] = h.block[h.freed] BY <1>5, <4>1, <4>4, <4>5
      <4>7. v + 1 = h.freed BY <1>1, <4>3, <4>6, BlockInj
      <4> QED BY <4>3, <4>7
    <3> QED BY <3>1, <3>2
  <2> HIDE DEF T
  <2> QED BY <2>1, <2>2, MinIs
<1>10. SubSeq(Ring(h), 1, h.n) = Ring(h)
  <2>1. \A i \in 1..h.n : h.freed + i - 1 \in 1..LastVisit(h) BY <1>2
  <2>2. \A i \in 1..h.n : h.block[h.freed + i - 1] \in Nat BY <1>1, <1>2, <2>1, BlockType
  <2>3. Ring(h) \in Seq(Nat) /\ Len(Ring(h)) = h.n BY <1>2, <2>2 DEF Ring
  <2> QED BY <2>3, SubSeqFull
<1> QED BY <1>6, <1>8, <1>9, <1>10

\* Two intervals of elements put together are one.
LEMMA SegmentJoin ==
  ASSUME NEW a \in Nat, NEW b \in Nat, NEW d \in Nat, a <= b, b <= d
  PROVE  Segment(a, b) \o Segment(b, d) = Segment(a, d)
<1>1. Segment(a, b) \in Seq(Nat) /\ Len(Segment(a, b)) = b - a
  <2>1. \A i \in 1..(b - a) : a + i - 1 \in Nat OBVIOUS
  <2> QED BY <2>1 DEF Segment
<1>2. Segment(b, d) \in Seq(Nat) /\ Len(Segment(b, d)) = d - b
  <2>1. \A i \in 1..(d - b) : b + i - 1 \in Nat OBVIOUS
  <2> QED BY <2>1 DEF Segment
<1>3. Segment(a, d) \in Seq(Nat) /\ Len(Segment(a, d)) = d - a
  <2>1. \A i \in 1..(d - a) : a + i - 1 \in Nat OBVIOUS
  <2> QED BY <2>1 DEF Segment
<1>4. PICK s \in Seq(Nat) : s = Segment(a, b) BY <1>1
<1>5. PICK t \in Seq(Nat) : t = Segment(b, d) BY <1>2
<1>a. PICK k \in Nat : k = b - a OBVIOUS
<1>b. PICK l \in Nat : l = d - b OBVIOUS
<1>c. Len(s) = k /\ Len(t) = l /\ d - a = k + l BY <1>1, <1>2, <1>4, <1>5, <1>a, <1>b
<1>6. PICK u \in Seq(Nat) : u = s \o t
  <2>1. s \o t \in Seq(Nat) BY ConcatProperties
  <2> QED BY <2>1
<1>7. Len(u) = d - a
  <2>1. Len(u) = Len(s) + Len(t) BY <1>6, ConcatProperties
  <2> QED BY <1>c, <2>1
<1>8. ASSUME NEW i \in 1..(d - a) PROVE u[i] = a + i - 1
  <2>1. CASE i <= b - a
    <3>1. i \in 1..Len(s) /\ i \in 1..(b - a) BY <1>1, <1>4, <2>1
    <3>2. u[i] = s[i] BY <1>6, <3>1
    <3> QED BY <1>4, <3>1, <3>2 DEF Segment
  <2>2. CASE ~ (i <= b - a)
    <3>1. PICK j \in Nat : j = i - (b - a) /\ j >= 1 /\ j <= d - b BY <2>2
    <3>2. j \in 1..Len(t) /\ j \in 1..(d - b) /\ i = Len(s) + j BY <1>a, <1>b, <1>c, <3>1
    <3>3. u[i] = t[j] BY <1>6, <3>2
    <3>4. t[j] = b + j - 1 BY <1>5, <3>2 DEF Segment
    <3> QED BY <3>1, <3>3, <3>4
  <2> QED BY <2>1, <2>2
<1>9. u = [i \in 1..(d - a) |-> u[i]] BY <1>7
<1>10. u = [i \in 1..(d - a) |-> a + i - 1] BY <1>8, <1>9
<1> QED BY <1>4, <1>5, <1>6, <1>10 DEF Segment

\* The sequences put together from the first on.
PutTogether(fl, seqs, n) == fl = [i \in 1..n |-> IF i = 1 THEN seqs[i] ELSE fl[i - 1] \o seqs[i]]

\* There is one way of putting sequences together from the left.
LEMMA JoinedOnce ==
  ASSUME NEW n \in Nat, NEW seqs, NEW fl, NEW w, PutTogether(fl, seqs, n), PutTogether(w, seqs, n)
  PROVE  fl = w
<1> DEFINE T == {i \in 1..n : fl[i] # w[i]}
<1>1. /\ fl = [i \in 1..n |-> IF i = 1 THEN seqs[i] ELSE fl[i - 1] \o seqs[i]]
      /\ w = [i \in 1..n |-> IF i = 1 THEN seqs[i] ELSE w[i - 1] \o seqs[i]] BY DEF PutTogether
<1>2. T = {}
  <2>1. SUFFICES ASSUME T # {} PROVE FALSE OBVIOUS
  <2>2. T \in SUBSET Nat OBVIOUS
  <2>3. PICK i \in T : \A j \in T : i <= j BY <2>1, <2>2, LeastNat
  <2>4. i \in 1..n /\ fl[i] # w[i] OBVIOUS
  <2>5. i # 1 BY <1>1, <2>4
  <2>6. i - 1 \in 1..n /\ ~ (i <= i - 1) BY <2>4, <2>5
  <2>7. fl[i - 1] = w[i - 1] BY <2>3, <2>6
  <2>8. fl[i] = fl[i - 1] \o seqs[i] BY <1>1, <2>4, <2>5
  <2>9. w[i] = w[i - 1] \o seqs[i] BY <1>1, <2>4, <2>5
  <2> QED BY <2>4, <2>7, <2>8, <2>9
<1>3. DOMAIN fl = 1..n /\ DOMAIN w = 1..n BY <1>1
<1>4. \A i \in 1..n : fl[i] = w[i] BY <1>2
<1>5. fl = [i \in 1..n |-> fl[i]] /\ w = [i \in 1..n |-> w[i]] BY <1>1
<1> QED BY <1>4, <1>5

\* The recursive function in the definition of FlattenSeq.
TheJoin(seqs, n) == CHOOSE fl : fl = [i \in 1..n |-> IF i = 1 THEN seqs[i] ELSE fl[i - 1] \o seqs[i]]

\* It is the one that the definition of FlattenSeq chooses.
LEMMA TheJoinIs ==
  ASSUME NEW n \in Nat, NEW seqs, NEW w, PutTogether(w, seqs, n)
  PROVE  TheJoin(seqs, n) = w
<1>1. \E fl : fl = [i \in 1..n |-> IF i = 1 THEN seqs[i] ELSE fl[i - 1] \o seqs[i]]
  BY DEF PutTogether
<1>2. PutTogether(TheJoin(seqs, n), seqs, n) BY <1>1 DEF TheJoin, PutTogether
<1> QED BY <1>2, JoinedOnce

\* FlattenSeq puts sequences together from the left.
LEMMA FlattenIs ==
  ASSUME NEW seqs, Len(seqs) # 0
  PROVE  FlattenSeq(seqs) = TheJoin(seqs, Len(seqs))[Len(seqs)]
BY DEF FlattenSeq, TheJoin

\* The destructor destroys the elements that were sent and not taken, in order.
LEMMA LeftOver ==
  ASSUME NEW h, Core(h), Destroy
  PROVE  FlattenSeq([i \in DOMAIN Circle |-> Elements(Circle[i])]) = Segment(h.got + 1, h.sent + 1)
<1>1. Shape(h) /\ Quiet(h) BY CoreParts, QuietIs
<1>2. /\ h.freed \in Nat /\ h.n \in Nat /\ h.n >= 1 /\ LastVisit(h) = h.freed + h.n - 1 /\ LastVisit(h) \in Nat /\ 1 <= h.freed
      /\ h.got \in Nat /\ h.sent \in Nat BY <1>1, ShapeFacts
<1>3. Circle = Ring(h) BY CircleIs
<1> DEFINE a == h.got + 1
           till(i) == Until(h, h.freed + i - 1)
           seqs == [i \in 1..h.n |-> Segment(From(h, h.freed + i - 1), till(i))]
           w == [i \in 1..h.n |-> Segment(a, till(i))]
<1>4. ASSUME NEW i \in 1..h.n PROVE h.freed + i - 1 \in h.freed..LastVisit(h) BY <1>2
<1>5. [i \in DOMAIN Circle |-> Elements(Circle[i])] = seqs
  <2>1. ASSUME NEW i \in 1..h.n PROVE Elements(Ring(h)[i]) = seqs[i]
    <3>1. Ring(h)[i] = h.block[h.freed + i - 1] BY DEF Ring
    <3> QED BY <1>4, <3>1, ElementsAre
  <2>2. DOMAIN Ring(h) = 1..h.n BY DEF Ring
  <2> QED BY <1>3, <2>1, <2>2
<1>6. Len(seqs) = h.n BY <1>2
<1>7. \A i \in 1..h.n : From(h, h.freed + i - 1) \in Nat /\ till(i) \in Nat /\ From(h, h.freed + i - 1) <= till(i)
  BY <1>1, <1>4, Borders
<1>8. ASSUME NEW i \in 1..h.n, i # 1
      PROVE  From(h, h.freed + i - 1) = till(i - 1) /\ i - 1 \in 1..h.n
  <2>1. PICK v \in h.freed..LastVisit(h) : v = h.freed + (i - 1) - 1 /\ v < LastVisit(h) /\ v + 1 = h.freed + i - 1
    BY <1>2, <1>8
  <2>2. From(h, v + 1) = Until(h, v) BY <1>1, <2>1, Borders
  <2>3. i - 1 \in 1..h.n BY <1>2, <1>8
  <2> QED BY <2>1, <2>2, <2>3
<1>9. From(h, h.freed + 1 - 1) = a
  <2>1. h.freed + 1 - 1 = h.freed BY <1>2
  <2> QED BY <1>1, <2>1, Borders
<1>10. \A i \in 1..h.n : a <= till(i)
  <2> DEFINE T == {i \in 1..h.n : ~ (a <= till(i))}
  <2>1. T = {}
    <3>1. SUFFICES ASSUME T # {} PROVE FALSE OBVIOUS
    <3>2. T \in SUBSET Nat BY <1>2
    <3>3. PICK i \in T : \A j \in T : i <= j BY <3>1, <3>2, LeastNat
    <3>4. i \in 1..h.n /\ ~ (a <= till(i)) OBVIOUS
    <3>5. i # 1 BY <1>7, <1>9, <3>4
    <3>6. From(h, h.freed + i - 1) = till(i - 1) /\ i - 1 \in 1..h.n BY <1>8, <3>4, <3>5
    <3>7. ~ (i <= i - 1) BY <1>2, <3>4
    <3>8. a <= till(i - 1) BY <3>3, <3>6, <3>7
    <3>9. till(i - 1) <= till(i) /\ till(i - 1) \in Nat /\ till(i) \in Nat /\ a \in Nat
      BY <1>2, <1>7, <3>4, <3>6
    <3> HIDE DEF till, a
    <3> QED BY <3>4, <3>8, <3>9
  <2> QED BY <2>1
<1>11. ASSUME NEW i \in 1..h.n PROVE w[i] = IF i = 1 THEN seqs[i] ELSE w[i - 1] \o seqs[i]
  <2>1. CASE i = 1 BY <1>9, <2>1
  <2>2. CASE i # 1
    <3>1. From(h, h.freed + i - 1) = till(i - 1) /\ i - 1 \in 1..h.n BY <1>8, <2>2
    <3>2. w[i - 1] = Segment(a, till(i - 1)) /\ w[i] = Segment(a, till(i)) /\ seqs[i] = Segment(till(i - 1), till(i))
      BY <3>1
    <3>3. a \in Nat /\ till(i - 1) \in Nat /\ till(i) \in Nat /\ a <= till(i - 1) /\ till(i - 1) <= till(i)
      BY <1>2, <1>7, <1>10, <3>1
    <3>4. Segment(a, till(i - 1)) \o Segment(till(i - 1), till(i)) = Segment(a, till(i))
      <4> HIDE DEF a, till
      <4> QED BY <3>3, SegmentJoin
    <3> HIDE DEF w, seqs, a, till
    <3> QED BY <2>2, <3>2, <3>4
  <2> QED BY <2>1, <2>2
<1>12. PutTogether(w, seqs, h.n)
  <2>1. w = [i \in 1..h.n |-> w[i]] OBVIOUS
  <2> HIDE DEF w, seqs
  <2> QED BY <1>11, <2>1 DEF PutTogether
<1>13. TheJoin(seqs, h.n) = w
  <2> HIDE DEF w, seqs
  <2> QED BY <1>2, <1>12, TheJoinIs
<1>14. w[h.n] = Segment(a, h.sent + 1)
  <2>1. h.n \in 1..h.n /\ h.freed + h.n - 1 = LastVisit(h) BY <1>2
  <2>2. till(h.n) = h.sent + 1 BY <1>1, <2>1, Borders
  <2> QED BY <2>1, <2>2
<1>15. FlattenSeq(seqs) = w[h.n]
  <2> HIDE DEF w, seqs
  <2> QED BY <1>2, <1>6, <1>13, FlattenIs
<1> QED BY <1>5, <1>14, <1>15

\* Destroy establishes NothingLeaks.
LEMMA DestroyLeaksNothing ==
  ASSUME NEW h, Core(h), Destroy
  PROVE  NothingLeaks'
<1>1. /\ UNCHANGED <<sent, got, sizeMask>>
      /\ destroyed' = [elements |-> FlattenSeq([i \in DOMAIN Circle |-> Elements(Circle[i])]), blocks |-> Range(Circle)]
  BY DEF Destroy
<1>2. h.sent = sent /\ got = [i \in 1..h.got |-> i] /\ Shape(h) BY CoreParts
<1>3. h.got \in Nat /\ h.sent \in Nat /\ h.got <= h.sent BY <1>2, ShapeFacts
<1>4. destroyed'.elements = Segment(h.got + 1, h.sent + 1) /\ destroyed'.blocks = Range(Circle)
  BY <1>1, LeftOver
<1>5. got = Segment(1, h.got + 1)
  <2>1. 1..h.got = 1..((h.got + 1) - 1) /\ \A i \in 1..h.got : 1 + i - 1 = i BY <1>3
  <2> QED BY <1>2, <2>1 DEF Segment
<1>6. Segment(1, h.got + 1) \o Segment(h.got + 1, h.sent + 1) = Segment(1, h.sent + 1)
  <2>1. 1 \in Nat /\ h.got + 1 \in Nat /\ h.sent + 1 \in Nat /\ 1 <= h.got + 1 /\ h.got + 1 <= h.sent + 1
    BY <1>3
  <2> QED BY <2>1, SegmentJoin
<1>7. Segment(1, h.sent + 1) = [i \in 1..h.sent |-> i]
  <2>1. 1..h.sent = 1..((h.sent + 1) - 1) /\ \A i \in 1..h.sent : 1 + i - 1 = i BY <1>3
  <2> QED BY <2>1 DEF Segment
<1>8. Range(Circle) = DOMAIN sizeMask
  <2>1. Circle = Ring(h) /\ DOMAIN sizeMask = 1..h.n BY CircleIs
  <2>2. /\ h.freed \in Nat /\ h.n \in Nat /\ h.n >= 1 /\ LastVisit(h) = h.freed + h.n - 1 /\ LastVisit(h) \in Nat /\ 1 <= h.freed
    BY <1>2, ShapeFacts
  <2>3. DOMAIN Ring(h) = 1..h.n /\ \A i \in 1..h.n : Ring(h)[i] = h.block[h.freed + i - 1]
    BY DEF Ring
  <2>4. ASSUME NEW b \in 1..h.n PROVE \E i \in 1..h.n : Ring(h)[i] = b
    <3>1. PICK v \in h.freed..LastVisit(h) : h.block[v] = b BY <1>2 DEF Shape, Circular
    <3>2. PICK i \in 1..h.n : i = v - h.freed + 1 /\ h.freed + i - 1 = v BY <2>2
    <3> QED BY <2>3, <3>1, <3>2
  <2>5. ASSUME NEW i \in 1..h.n PROVE Ring(h)[i] \in 1..h.n
    <3>1. h.freed + i - 1 \in 1..LastVisit(h) BY <2>2
    <3> QED BY <1>2, <2>3, <3>1, BlockType
  <2> QED BY <2>1, <2>3, <2>4, <2>5 DEF Range
<1> QED BY <1>1, <1>2, <1>4, <1>5, <1>6, <1>7, <1>8 DEF NothingLeaks

-----------------------------------------------------------------------------
(* The invariant and what follows from it.                                 *)

\* A call begins where it says.
LEMMA CallBegins ==
  ASSUME NEW op, NEW pc, NEW start
  PROVE  Call(op, pc, start).pc = pc
<1>1. Idle \in CallSet BY IdleCall DEF CallIs
<1>2. PICK call \in CallSet : call = Idle BY <1>1
<1>3. PICK call2 : call2 = Call(op, pc, start) OBVIOUS
<1>4. call2 = [call EXCEPT !.op = op, !.pc = pc, !.start = start] BY <1>2, <1>3 DEF Call
<1>5. call2.pc = pc BY <1>4 DEF CallSet
<1> QED BY <1>3, <1>5

\* A step after which the queue is not gone, or that changes nothing of what was
\* destroyed, keeps Gone.
LEMMA GoneKept ==
  ASSUME Gone, (c'.pc = "gone" <=> p'.pc = "gone"),
         c'.pc = "gone" => c.pc = "gone" /\ UNCHANGED <<sent, got, sizeMask, destroyed>>
  PROVE  Gone'
<1>1. CASE c'.pc = "gone" BY <1>1 DEF Gone, NothingLeaks
<1>2. CASE c'.pc # "gone" BY <1>2 DEF Gone, NothingLeaks
<1> QED BY <1>1, <1>2

\* Every step keeps Gone: the queue is used by no thread after the destructor.
LEMMA GoneStep ==
  ASSUME NEW h, Core(h), Gone, [BlockingNext]_vars
  PROVE  Gone'
<1>1. c.pc = "gone" <=> p.pc = "gone" BY DEF Gone
<1>2. CASE ProducerStep
  <2>1. p.pc # "gone" /\ p'.pc # "gone" /\ c' = c BY <1>2, ProducerMovesOn DEF ProducerMoves
  <2> QED BY <1>1, <2>1, GoneKept
<1>3. CASE ConsumerStep
  <2>1. c.pc # "gone" /\ c'.pc # "gone" /\ p' = p BY <1>3, ConsumerMovesOn DEF ConsumerMoves
  <2> QED BY <1>1, <2>1, GoneKept
<1>4. CASE \E t \in Threads : Drain(t)
  <2>1. UNCHANGED <<sizeMask, p, c, sent, got, destroyed>> BY <1>4 DEF Drain
  <2> QED BY <1>1, <2>1, GoneKept
<1>5. CASE UNCHANGED queueVars
  <2>1. UNCHANGED <<sizeMask, p, c, sent, got, destroyed>> BY <1>5 DEF queueVars
  <2> QED BY <1>1, <2>1, GoneKept
<1>6. CASE QueueCalls
  <2>1. ASSUME NEW op, CallEnqueue(op) PROVE Gone'
    <3>1. p.pc = "idle" /\ p' = Call(op, "enqueue", released) /\ c' = c BY <2>1 DEF CallEnqueue
    <3>2. PICK r : r = released OBVIOUS
    <3>3. Call(op, "enqueue", r).pc = "enqueue" BY CallBegins
    <3>4. p'.pc = "enqueue" BY <3>1, <3>2, <3>3
    <3> QED BY <1>1, <3>1, <3>4, GoneKept
  <2>2. ASSUME NEW op, CallDequeue(op) PROVE Gone'
    <3>1. c.pc = "idle" /\ c' = Call(op, "dequeue", published) /\ p' = p BY <2>2 DEF CallDequeue
    <3>2. c'.pc = "dequeue" BY <3>1, CallBegins
    <3> QED BY <1>1, <3>1, <3>2, GoneKept
  <2>3. ASSUME CallSize PROVE Gone'
    <3>1. c.pc = "idle" /\ c' = Call("size_approx", "size", published) /\ p' = p
      BY <2>3 DEF CallSize
    <3>2. c'.pc = "size" BY <3>1, CallBegins
    <3> QED BY <1>1, <3>1, <3>2, GoneKept
  <2>4. ASSUME ReturnEnqueue PROVE Gone'
    <3>1. p.pc = "done" /\ p' = Idle /\ c' = c BY <2>4 DEF ReturnEnqueue
    <3>2. p'.pc = "idle" BY <3>1 DEF Idle
    <3> QED BY <1>1, <3>1, <3>2, GoneKept
  <2>5. ASSUME ReturnDequeue PROVE Gone'
    <3>1. c.pc = "done" /\ c' = Idle /\ p' = p BY <2>5 DEF ReturnDequeue
    <3>2. c'.pc = "idle" BY <3>1 DEF Idle
    <3> QED BY <1>1, <3>1, <3>2, GoneKept
  <2>6. ASSUME Destroy PROVE Gone'
    <3>1. p'.pc = "gone" /\ c'.pc = "gone" BY <2>6, DestroyedCalls
    <3>2. NothingLeaks' BY <2>6, DestroyLeaksNothing
    <3> QED BY <3>1, <3>2 DEF Gone
  <2> QED BY <1>6, <2>1, <2>2, <2>3, <2>4, <2>5, <2>6 DEF QueueCalls
<1> QED BY <1>2, <1>3, <1>4, <1>5, <1>6, StepKinds

\* The constructed queue has a history.
LEMMA QueueInvInit == BlockingInit => QueueInv
<1> SUFFICES ASSUME BlockingInit PROVE QueueInv OBVIOUS
<1>1. blocking \in BOOLEAN /\ Init /\ SemaInit BY DEF BlockingInit
<1>2. PICK h : Core(h) /\ h.sent = 0 /\ h.got = 0 /\ h.pub = 0 BY <1>1, InitCore
<1>3. p.pc = "idle" /\ c.pc = "idle" BY <1>1 DEF Init, Idle
<1>4. Gone BY <1>3 DEF Gone, NothingLeaks
<1>5. count = 0 /\ posts = 0 /\ waiter = Awake /\ signaller = "idle" BY <1>1 DEF SemaInit
<1>6. waiter.pc = "idle" /\ waiter \in [pc : Running \cup Asleep \cup {"retake", "acquired"}, timeout : Timeouts \cup {"none"}]
  BY <1>5 DEF Awake, Running
<1>7. SemaTypes BY <1>5, <1>6 DEF SemaTypes
<1>8. published = 0 /\ sent = 0 /\ Len(got) = 0 BY <1>2, CoreNumbers DEF Numbers
<1>9. signalled = 0 /\ wakeups = 0 BY <1>3, <1>5, <1>8 DEF signalled, wakeups, One
<1>10. Counts(0, 0, 0, 0, 0, "idle", c) BY <1>3 DEF Counts, Running, Asleep
<1>11. Counting BY <1>5, <1>6, <1>8, <1>9, <1>10, CountingIs
<1> QED BY <1>1, <1>2, <1>4, <1>7, <1>11 DEF QueueInv, Semaphore

\* Every step of the queue, the semaphore and the store buffers keeps the invariant.
LEMMA QueueInvStep == QueueInv /\ [BlockingNext]_vars => QueueInv'
<1> SUFFICES ASSUME QueueInv, [BlockingNext]_vars PROVE QueueInv' OBVIOUS
<1>1. PICK h : Core(h) BY DEF QueueInv
<1>2. Gone /\ Semaphore BY DEF QueueInv
<1>3. \E h2 : Core(h2)' BY <1>1, StepCore
<1>4. Gone' BY <1>1, <1>2, GoneStep
<1>5. Semaphore' BY <1>1, <1>2, SemaphoreStep
<1> QED BY <1>3, <1>4, <1>5 DEF QueueInv

\* THE INDUCTIVE INVARIANT of the queue: in every reachable state there is a history
\* that the memory, what each thread sees of it, its pending stores and the calls in
\* progress agree with (readerwriterqueue.h:150-760, atomicops.h:560-690).
THEOREM QueueInvariance == BlockingSpec => []QueueInv
<1> QED BY QueueInvInit, QueueInvStep, PTL DEF BlockingSpec

\* The destructor (readerwriterqueue.h:201-227) destroys every element that is still in
\* the queue and frees every block, those enqueue added included (NothingLeaks).
THEOREM NothingLeaksHolds == BlockingSpec => []NothingLeaks
<1>1. QueueInv => NothingLeaks BY DEF QueueInv, Gone
<1> QED BY <1>1, QueueInvariance, PTL

\* What try_dequeue, peek, try_enqueue, enqueue and size_approx answer was true at some
\* moment during the call (AnswersHonest), for every queue size, number of blocks and
\* order in which stores reach memory.
THEOREM AnswersAreHonest == BlockingSpec => []AnswersHonest
<1>1. QueueInv => AnswersHonest
  <2> SUFFICES ASSUME QueueInv PROVE AnswersHonest OBVIOUS
  <2>1. PICK h : Core(h) BY DEF QueueInv
  <2>2. /\ h.sent = sent /\ h.got = Len(got) /\ c \in CallSet /\ ProducerCall(h, p, size) /\ ConsumerCall(h, c) /\ Shape(h)
    BY <2>1, CoreParts
  <2>3. h.got \in Nat /\ h.sent \in Nat BY <2>2, ShapeFacts
  <2>4. c.pc = "done" /\ ~ c.ok => c.start <= Len(got) BY <2>2 DEF ConsumerCall
  <2>5. p.pc = "done" /\ ~ p.ok => sent - p.start >= size BY <2>2 DEF ProducerCall
  <2>6. c.pc = "done" /\ c.ok /\ c.op = "peek" => c.sum = Len(got) + 1 BY <2>2 DEF ConsumerCall
  <2>7. ASSUME c.pc = "done", c.op = "size_approx" PROVE c.sum \in (c.start - Len(got))..(sent - Len(got))
    <3>1. c.start <= c.sum + h.got /\ c.sum + h.got <= h.sent BY <2>2, <2>7 DEF ConsumerCall
    <3>2. c.start \in Nat /\ c.sum \in Nat BY <2>2 DEF CallSet
    <3> QED BY <2>2, <2>3, <3>1, <3>2
  <2> QED BY <2>4, <2>5, <2>6, <2>7 DEF AnswersHonest
<1> QED BY <1>1, QueueInvariance, PTL

\* The semaphore's count is the number of elements between calls, whatever waits timed
\* out (CountExact).
THEOREM CountIsExact == BlockingSpec => []CountExact
<1>1. QueueInv => CountExact
  <2> SUFFICES ASSUME QueueInv, blocking, waiter.pc = "idle", signaller = "idle", p.pc # "done"
               PROVE  posts = 0 /\ availableApprox = sent - Len(got)
    BY DEF CountExact
  <2>1. PICK h : Core(h) BY DEF QueueInv
  <2>2. SemaTypes /\ Counts(signalled, Len(got), published, count, wakeups, waiter.pc, c)
    BY SemaphoreParts DEF QueueInv
  <2>3. count = signalled - Len(got) /\ count >= 0 /\ wakeups = 0 BY <2>2 DEF Counts, Running
  <2>4. sent \in Nat /\ Len(got) \in Nat BY <2>1, CountsAreIntegers
  <2>5. signalled = sent BY <2>4 DEF signalled, One
  <2>6. posts = 0 BY <2>2, <2>3 DEF wakeups, One, SemaTypes
  <2>7. count = sent - Len(got) /\ count \in Int BY <2>2, <2>3, <2>5 DEF SemaTypes
  <2> QED BY <2>3, <2>4, <2>6, <2>7 DEF availableApprox
<1> QED BY <1>1, QueueInvariance, PTL

\* A step takes the next element or none, and none when it publishes one.
LEMMA GotStep ==
  ASSUME NEW h, Core(h), [BlockingNext]_vars
  PROVE  /\ got' = got \/ got' = Append(got, Len(got) + 1)
         /\ (\E t \in Threads : Drain(t)) => got' = got
<1>1. (\E t \in Threads : Drain(t)) => got' = got BY DEF Drain
<1>2. ProducerStep => got' = got BY ProducerMovesOn DEF ProducerMoves
<1>3. ConsumerStep => got' = got \/ got' = Append(got, Len(got) + 1)
  BY ConsumerMovesOn DEF ConsumerMoves
<1>4. QueueCalls => got' = got
  BY DEF QueueCalls, CallEnqueue, CallDequeue, CallSize, ReturnEnqueue, ReturnDequeue, Destroy
<1>5. UNCHANGED queueVars => got' = got BY DEF queueVars
<1> QED BY <1>1, <1>2, <1>3, <1>4, <1>5, StepKinds

\* A step publishes an element, takes the oldest one, or neither.
LEMMA FifoStep == QueueInv /\ [BlockingNext]_vars => [FIFO!Publish \/ FIFO!Take]_<<published, got>>
<1> SUFFICES ASSUME QueueInv, [BlockingNext]_vars PROVE [FIFO!Publish \/ FIFO!Take]_<<published, got>> OBVIOUS
<1>1. PICK h : Core(h) BY DEF QueueInv
<1>2. PICK h2 : /\ Core(h2)' /\ (h2.pub = h.pub \/ h2.pub = h.pub + 1)
                /\ h2.pub # h.pub => \E t \in Threads : Drain(t)
  BY <1>1, StepCore
<1>3. Numbers(h) /\ Numbers(h2)' BY <1>1, <1>2, CoreNumbers, CoreNumbersNext
<1>4. published = h.pub /\ published' = h2.pub /\ h.pub \in Nat /\ h2.pub \in Nat /\ h2.got = Len(got') /\ h2.got <= h2.pub
  BY <1>3 DEF Numbers
<1>5. /\ got' = got \/ got' = Append(got, Len(got) + 1)
      /\ (\E t \in Threads : Drain(t)) => got' = got BY <1>1, GotStep
<1>6. CASE h2.pub # h.pub
  <2>1. got' = got /\ published' = published + 1 BY <1>2, <1>4, <1>5, <1>6
  <2> QED BY <2>1 DEF FIFO!Publish
<1>7. CASE h2.pub = h.pub /\ got' = got
  <2>1. UNCHANGED <<published, got>> BY <1>4, <1>7
  <2> QED BY <2>1
<1>8. CASE h2.pub = h.pub /\ got' = Append(got, Len(got) + 1)
  <2>1. h.got = Len(got) /\ got = [i \in 1..h.got |-> i] /\ h.got \in Nat
    <3>1. h.got = Len(got) /\ got = [i \in 1..h.got |-> i] /\ Shape(h) BY <1>1, CoreParts
    <3> QED BY <3>1, ShapeFacts
  <2>2. Len(Append(got, h.got + 1)) = h.got + 1 BY <2>1, OneMore
  <2>3. Len(got) < published BY <1>4, <1>8, <2>1, <2>2
  <2>4. published' = published BY <1>4, <1>8
  <2> QED BY <1>8, <2>3, <2>4 DEF FIFO!Take
<1> QED BY <1>2, <1>5, <1>6, <1>7, <1>8

\* The queue is empty when it was constructed.
LEMMA FifoInit == BlockingInit => FIFO!Init
<1> SUFFICES ASSUME BlockingInit PROVE FIFO!Init OBVIOUS
<1>1. Init BY DEF BlockingInit
<1>2. PICK h : Core(h) /\ h.pub = 0 BY <1>1, InitCore
<1>3. published = 0 BY <1>2, CoreNumbers DEF Numbers
<1>4. got = << >> BY <1>1 DEF Init
<1> QED BY <1>3, <1>4 DEF FIFO!Init

\* REFINEMENT: the queue implements the FIFO of Fifo.tla: elements come out in the order
\* of enqueuing, each once and intact, and none before it was published
\* (ElementsInOrder).
THEOREM QueueIsFifo == BlockingSpec => ElementsInOrder
<1> QED BY FifoInit, FifoStep, QueueInvariance, PTL DEF BlockingSpec, ElementsInOrder, FIFO!Spec

\* A pending store is to a place of the queue.
LEMMA StoredWell ==
  ASSUME NEW h, Core(h), NEW t \in Threads, NEW i \in DOMAIN stores[t]
  PROVE  stores[t][i] = Fence \/ stores[t][i].loc \in Locations
<1>1. /\ stores["producer"] \in Seq(StoreSet) /\ stores["consumer"] \in Seq(StoreSet) /\ Shape(h) /\ Pend(h) /\ PendingFronts(h)
      /\ Holds(stores["producer"], h.S) /\ Holds(stores["consumer"], h.R) BY CoreParts
<1>2. t \in {"producer", "consumer"} BY DEF Threads
<1>3. stores[t] \in Seq(StoreSet) BY <1>1, <1>2
<1>4. stores[t][i] \in StoreSet /\ i \in 1..Len(stores[t]) BY <1>3
<1>5. PICK x : x = stores[t][i] OBVIOUS
<1>6. x.loc \in Locations \/ x.loc = <<"fence">> BY <1>4, <1>5 DEF StoreSet
<1>7. x = Fence \/ x.loc[1] # "fence"
  <2>1. CASE t = "producer"
    <3>1. PICK tag \in DOMAIN h.S : x = h.S[tag] BY <1>1, <1>4, <1>5, <2>1 DEF Holds
    <3>2. PICK e \in (h.pub + 1)..h.sent, k \in 1..7 : StoreIs(h, e, k, h.S[tag])
      BY <1>1, PendingIs DEF Pend
    <3>3. k # 6 => x.loc[1] # "fence" BY <3>1, <3>2, StoreFields
    <3>4. k = 6 => x = Fence BY <3>1, <3>2 DEF StoreIs
    <3> QED BY <3>3, <3>4
  <2>2. CASE t = "consumer"
    <3>1. PICK tag \in DOMAIN h.R : x = h.R[tag] BY <1>1, <1>4, <1>5, <2>2 DEF Holds
    <3>a. PendingFronts(h) BY <1>1
    <3>b. \/ h.R[tag] = Fence
          \/ \E b, j : h.R[tag] = Store(<<"front", b>>, j)
          \/ \E b : h.R[tag] = Store(<<"frontBlock">>, b) BY <3>a, FrontStores
    <3>2. x = Fence \/ (\E b, j : x = Store(<<"front", b>>, j)) \/ (\E b : x = Store(<<"frontBlock">>, b))
      BY <3>1, <3>b
    <3>3. ASSUME NEW b, NEW j, x = Store(<<"front", b>>, j) PROVE x.loc[1] # "fence"
      BY <3>3 DEF Store
    <3>4. ASSUME NEW b, x = Store(<<"frontBlock">>, b) PROVE x.loc[1] # "fence" BY <3>4 DEF Store
    <3> QED BY <3>2, <3>3, <3>4
  <2> QED BY <1>2, <2>1, <2>2
<1>8. <<"fence">>[1] = "fence" OBVIOUS
<1>9. x = Fence \/ x.loc \in Locations BY <1>6, <1>7, <1>8
<1> QED BY <1>5, <1>9

\* The count is never below -1 and at most one wake-up is left over.
LEMMA CountBounds ==
  ASSUME NEW h, Core(h), Semaphore
  PROVE  count \in -1..(MaxItems + 1) /\ posts \in 0..1 /\ waiter.timeout \in Timeouts \cup {"none"}
<1>1. Numbers(h) BY CoreNumbers
<1>2. sent \in Nat /\ Len(got) \in Nat /\ sent <= MaxItems /\ MaxItems \in Nat /\ signalled \in Int
  BY <1>1, CountsAreIntegers, QueueAssumption DEF Numbers
<1>3. CASE ~ blocking
  <2>1. count = 0 /\ posts = 0 /\ waiter = Awake BY <1>3 DEF Semaphore, SemaInit
  <2>2. waiter.timeout = "none" BY <2>1 DEF Awake
  <2> QED BY <1>2, <2>1, <2>2
<1>4. CASE blocking
  <2>1. SemaTypes /\ Counts(signalled, Len(got), published, count, wakeups, waiter.pc, c)
    BY <1>4, SemaphoreParts
  <2>2. waiter.pc \in Running \cup Asleep \cup {"retake", "acquired"} /\ waiter.timeout \in Timeouts \cup {"none"}
    BY <2>1 DEF SemaTypes
  <2>3. count \in Int /\ posts \in Nat BY <2>1 DEF SemaTypes
  <2>4. signalled <= sent BY <1>2 DEF signalled, One
  <2>5. PICK u : u = wakeups OBVIOUS
  <2>6. PICK g \in Nat : g = Len(got) BY <1>2
  <2>7. PICK sg \in Int : sg = signalled BY <1>2
  <2>8. \A b \in BOOLEAN : One(b) \in 0..1 BY DEF One
  <2>9. u \in 0..1 /\ count >= -1 /\ count <= sg
    <3>1. Counts(sg, g, published, count, u, waiter.pc, c) BY <2>1, <2>5, <2>6, <2>7
    <3>2. CASE waiter.pc \in Running
      <4>1. count = sg - g /\ count >= 0 /\ u = 0 BY <3>1, <3>2 DEF Counts
      <4> QED BY <2>3, <4>1
    <3>3. CASE waiter.pc \in Asleep
      <4>1. count = sg - g - 1 /\ count >= -1 /\ u = One(count >= 0) BY <3>1, <3>3 DEF Counts
      <4>2. u \in 0..1 BY <4>1 DEF One
      <4> QED BY <2>3, <4>1, <4>2
    <3>4. CASE waiter.pc = "retake"
      <4>1. count = sg - g /\ count > 0 /\ u = 1 BY <3>1, <3>4 DEF Counts
      <4> QED BY <2>3, <4>1
    <3>5. CASE waiter.pc = "acquired"
      <4>1. count = sg - g - One(c.pc # "done") /\ count >= 0 /\ u = 0 BY <3>1, <3>5 DEF Counts
      <4>2. PICK o \in 0..1 : o = One(c.pc # "done") BY DEF One
      <4> QED BY <2>3, <4>1, <4>2
    <3> QED BY <2>2, <3>2, <3>3, <3>4, <3>5
  <2>10. posts <= u
    <3>1. u = posts + One(signaller = "post") BY <2>5 DEF wakeups
    <3>2. PICK o \in 0..1 : o = One(signaller = "post") BY DEF One
    <3> QED BY <2>3, <3>1, <3>2
  <2> QED BY <1>2, <2>2, <2>3, <2>4, <2>7, <2>9, <2>10
<1> QED BY <1>3, <1>4

\* The state is well typed.
LEMMA QueueTypes == QueueInv => TypeOK
<1> SUFFICES ASSUME QueueInv PROVE TypeOK OBVIOUS
<1>1. PICK h : Core(h) BY DEF QueueInv
<1>2. Semaphore /\ blocking \in BOOLEAN BY DEF QueueInv, Semaphore
<1>3. Sizing(h, size, sizeMask) /\ mem \in [Locations -> Nat] BY <1>1, CoreParts DEF Whole
<1>4. size \in Sizes /\ Len(sizeMask) \in Blocks BY <1>3 DEF Sizing
<1>5. Numbers(h) BY <1>1, CoreNumbers
<1>6. sent \in 0..MaxItems /\ Len(got) <= sent BY <1>5, QueueAssumption DEF Numbers
<1>7. count \in -1..(MaxItems + 1) /\ posts \in 0..1 /\ waiter.timeout \in Timeouts \cup {"none"}
  BY <1>1, <1>2, CountBounds
<1>8. \A t \in Threads : \A i \in DOMAIN stores[t] : stores[t][i] = Fence \/ stores[t][i].loc \in Locations
  BY <1>1, StoredWell
<1> QED BY <1>2, <1>3, <1>4, <1>6, <1>7, <1>8 DEF TypeOK

\* The assert of readerwriterqueue.h:407 and 457: the block the consumer advances to is
\* not empty.
LEMMA AheadIsFull ==
  ASSUME NEW h, Core(h), c.pc = "advance"
  PROVE  ByConsumer(<<"front", c.block>>) # ByConsumer(<<"tail", c.block>>)
<1>1. Whole(h, mem, stores["producer"], stores["consumer"], localFront, size, sizeMask) /\ c \in CallSet /\ ConsumerCall(h, c) /\ Shape(h)
  BY CoreParts
<1>2. PICK w : w = h.front + 1 OBVIOUS
<1>3. PICK C : C = View(stores["consumer"], mem) OBVIOUS
<1>4. AheadFound(h, C, c, w) BY <1>1, <1>2, <1>3, AdvanceFacts
<1>5. PICK x \in Nat : x = h.got + 1 BY <1>1, ShapeFacts
<1>6. PICK y \in Nat : y = MemTail(h, w) BY <1>4 DEF AheadFound
<1>7. /\ w \in h.freed..h.tail /\ x = h.first[w] /\ c.block \in Blocks /\ x < y
      /\ C[<<"front", c.block>>] = IndexOf(h, w, x) /\ C[<<"tail", c.block>>] = IndexOf(h, w, y)
  BY <1>4, <1>5, <1>6 DEF AheadFound
<1>8. Ordered(h, w) BY <1>1, <1>7, OrderedVisits
<1>9. MemFront(h, w) = x
  <2>1. h.freed \in Nat /\ h.front \in Nat /\ h.freed <= h.front BY <1>1, ShapeFacts
  <2>2. w # h.freed BY <1>2, <2>1
  <2> QED BY <1>7, <2>2 DEF MemFront
<1>10. y <= h.first[w + 1] /\ h.first[w + 1] \in Nat BY <1>6, <1>8 DEF Ordered
<1>11. IndexOf(h, w, x) # IndexOf(h, w, y)
  <2>1. SUFFICES ASSUME IndexOf(h, w, x) = IndexOf(h, w, y) PROVE FALSE OBVIOUS
  <2>2. x \in Int /\ y \in Int /\ MemFront(h, w) <= x /\ x <= h.first[w + 1] /\ MemFront(h, w) <= y
    BY <1>7, <1>9, <1>10
  <2>3. x = y BY <1>1, <1>7, <1>10, <2>1, <2>2, IndexInj
  <2> QED BY <1>7, <2>3
<1>12. <<"front", c.block>> \in Locations /\ <<"tail", c.block>> \in Locations BY <1>7, PlacesOf
<1>13. ByConsumer(<<"front", c.block>>) = C[<<"front", c.block>>] /\ ByConsumer(<<"tail", c.block>>) = C[<<"tail", c.block>>]
  BY <1>3, <1>12, ReadsView
<1> QED BY <1>7, <1>11, <1>13

\* The assert of readerwriterqueue.h:577: the block ahead of the producer is empty.
LEMMA AheadIsEmpty ==
  ASSUME NEW h, Core(h), p.pc = "ahead"
  PROVE  ByProducer(<<"front", p.block>>) = ByProducer(<<"tail", p.block>>)
<1>1. Whole(h, mem, stores["producer"], stores["consumer"], localFront, size, sizeMask) /\ p \in CallSet /\ ProducerCall(h, p, size)
  BY CoreParts
<1>2. PICK b : b = p.block OBVIOUS
<1>3. PICK tl : tl = View(stores["producer"], mem)[<<"tail", b>>] OBVIOUS
<1>4. FreeAhead(h) /\ b = h.block[h.tail + 1] BY <1>1, <1>2 DEF ProducerCall, FreeAhead
<1>5. b \in Blocks /\ mem[<<"front", b>>] = tl BY <1>1, <1>3, <1>4, AheadThere
<1>6. <<"tail", b>> \in Locations /\ <<"front", b>> \in Locations BY <1>5, PlacesOf
<1>7. ByProducer(<<"tail", b>>) = tl BY <1>3, <1>6, ReadsView
<1>8. ByProducer(<<"front", b>>) = mem[<<"front", b>>]
  <2>1. PICK l \in Locations : l = <<"front", b>> BY <1>6
  <2>2. l[1] \in {"front", "frontBlock"} BY <2>1
  <2> QED BY <2>1, <2>2, ReadsFront
<1> QED BY <1>2, <1>5, <1>7, <1>8

\* The asserts of the two classes hold (AssertsHold): the blocks ahead are as the code
\* expects, and a thread that acquired the semaphore finds an element in the inner
\* queue.
THEOREM AssertsAlwaysHold == BlockingSpec => []AssertsHold
<1>1. QueueInv => AssertsHold
  <2> SUFFICES ASSUME QueueInv PROVE AssertsHold OBVIOUS
  <2>1. PICK h : Core(h) BY DEF QueueInv
  <2>2. TypeOK BY QueueTypes
  <2>3. BlocksAhead BY <2>1, AheadIsFull, AheadIsEmpty DEF BlocksAhead
  <2>4. ASSUME blocking, c.pc = "done", c.op = "try_dequeue" PROVE c.ok
    <3>1. Counts(signalled, Len(got), published, count, wakeups, waiter.pc, c)
      BY <2>4, SemaphoreParts DEF QueueInv
    <3>2. CASE waiter.pc = "acquired" BY <2>4, <3>1, <3>2 DEF Counts
    <3>3. CASE waiter.pc # "acquired"
      <4>1. c.op = "peek" BY <2>4, <3>1, <3>3 DEF Counts
      <4> QED BY <2>4, <4>1
    <3> QED BY <3>2, <3>3
  <2> QED BY <2>2, <2>3, <2>4 DEF AssertsHold
<1> QED BY <1>1, QueueInvariance, PTL

=============================================================================
