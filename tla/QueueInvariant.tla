--------------------------- MODULE QueueInvariant ---------------------------
(***************************************************************************)
(* The inductive invariant behind the properties of BlockingQueue.  It     *)
(* speaks of a history h that the code does not keep: the visits of the    *)
(* producer to the blocks of the circle, numbered 1, 2, 3, ..., and the    *)
(* elements of each.  The numbers never wrap round and never change, so    *)
(* every index in memory is one element number, every block pointer one    *)
(* visit.  QueueProofs proves it.                                          *)
(*   block[v], room[v]   the block of visit v and its slots; the visits    *)
(*                       after tail are the free blocks ahead              *)
(*   first[v], base[v]   the first element of visit v, and what its slot   *)
(*                       numbers are counted from; first[tail + 1] is the  *)
(*                       next element                                      *)
(*   visit[e]            the visit of element e                            *)
(*   grown               visits that began with a new block                *)
(*   freed, front        frontBlock in memory and as the consumer sees it  *)
(*   shown, tail         tailBlock in memory and as the producer sees it   *)
(*   rel, got, pub, sent elements whose slot is free again in memory, that *)
(*                       were taken, that are visible, that were written   *)
(*   lf, lt              the shadow copies of front and tail in use        *)
(*   S, R                the stores of the producer and of the consumer    *)
(*                       that wait, by their tags                          *)
(*   n                   blocks                                            *)
(*   unit                elements the smallest block holds                 *)
(***************************************************************************)
EXTENDS BlockingQueue

\* What may wait in a buffer.
StoreSet == [loc : Locations \cup {<<"fence">>}, val : Nat]

\* The slots of a block: a power of two until MAX_BLOCK_SIZE is reached.
Room(r) ==
    /\ r \in Nat /\ r >= 2 /\ r - 1 \in Slots
    /\ r >= MAX_BLOCK_SIZE \/ \E i \in 0..MAX_BLOCK_SIZE : r = 2 ^ i

\* The k-th store of element e.
Tag(e, k) == 8 * e + k

\* The slot of x in a block of m slots whose slot 0 is for element base.
Slot(x, base, m) == (x - base) % m
IndexOf(h, v, x) == Slot(x, h.base[v], h.room[v])

LastVisit(h) == h.freed + h.n - 1

\* Front and tail of the block of visit v, as element numbers: in memory, and
\* the consumer's own front.
MemFront(h, v) == IF v = h.freed THEN h.rel + 1 ELSE h.first[v]
OwnFront(h, v) == IF v < h.front THEN h.first[v + 1]
                  ELSE IF v = h.front THEN h.got + 1 ELSE h.first[v]
MemTail(h, v) == IF v < h.shown THEN h.first[v + 1]
                 ELSE IF v = h.shown THEN h.pub + 1
                 ELSE IF Tag(h.first[v], 3) \in DOMAIN h.S THEN h.first[v] ELSE h.first[v] + 1

----------------------------------------------------------------------------
Counters(h) ==
    /\ h.n \in Nat /\ h.unit \in Nat /\ h.unit >= 1
    /\ h.freed \in Nat /\ h.front \in Nat /\ h.shown \in Nat /\ h.tail \in Nat
    /\ 1 <= h.freed /\ h.freed <= h.front /\ h.front <= h.shown /\ h.shown <= h.tail
    /\ h.tail <= LastVisit(h)
    /\ h.rel \in Nat /\ h.got \in Nat /\ h.pub \in Nat /\ h.sent \in Nat
    /\ h.rel <= h.got /\ h.got <= h.pub /\ h.pub <= h.sent

Circular(h) ==
    /\ h.block \in [1..LastVisit(h) -> 1..h.n]
    /\ \A v, w \in h.freed..LastVisit(h) : h.block[v] = h.block[w] => v = w
    /\ \A b \in 1..h.n : \E v \in h.freed..LastVisit(h) : h.block[v] = b
    /\ h.room \in [1..LastVisit(h) -> Nat]
    /\ \A v \in 1..LastVisit(h) : h.room[v] > h.unit
    /\ h.grown \subseteq 2..h.tail

Visits(h) ==
    /\ h.first \in [1..(h.tail + 1) -> Nat]
    /\ h.first[1] = 1 /\ h.first[h.tail + 1] = h.sent + 1
    /\ \A v, w \in 1..(h.tail + 1) : v <= w => h.first[v] <= h.first[w]
    /\ \A v \in 2..h.tail : h.first[v] < h.first[v + 1]
    /\ \A v, w \in 1..h.tail : v <= w => h.first[w] - h.first[v] >= (w - v) * h.unit
    /\ h.base \in [1..h.tail -> Int]
    /\ h.visit \in [1..h.sent -> 1..h.tail]
    /\ \A e \in 1..h.sent : h.first[h.visit[e]] <= e /\ e < h.first[h.visit[e] + 1]

Positions(h) ==
    /\ h.first[h.freed] <= h.rel + 1 /\ h.rel + 1 <= h.first[h.freed + 1]
    /\ h.first[h.front] <= h.got + 1 /\ h.got + 1 <= h.first[h.front + 1]
    /\ h.first[h.shown] <= h.pub + 1 /\ h.pub + 1 <= h.first[h.shown + 1]
    /\ h.shown > 1 => h.first[h.shown] <= h.pub
    /\ h.lt \in Nat /\ h.got + 1 <= h.lt /\ h.lt <= MemTail(h, h.front)
    /\ h.lf \in Nat /\ h.first[h.tail] <= h.lf /\ h.lf <= MemFront(h, h.tail)
    /\ h.sent + 1 - h.lf < h.room[h.tail]
    /\ \A v \in h.freed..h.tail : h.first[v + 1] - MemFront(h, v) < h.room[v]

Begins(h, e) == h.visit[e] > 1 /\ e = h.first[h.visit[e]]
Kinds(h, e) == IF ~ Begins(h, e) THEN {1, 6, 7}
               ELSE IF h.visit[e] \in h.grown THEN 1..7 ELSE {1, 3, 6, 7}

Linked(h, v) == v \in h.grown => Tag(h.first[v], 5) \notin DOMAIN h.S
NextOf(h, v) == IF v = LastVisit(h) THEN h.block[h.freed] ELSE h.block[v + 1]
Stale(h, v, b) == \E w \in h.freed..LastVisit(h) :
                     b = h.block[w] /\ (w = h.freed \/ w > v + 1) /\ Linked(h, w)
Link(h, v, b) == IF v < h.tail /\ Tag(h.first[v + 1], 5) \in DOMAIN h.S
                 THEN Stale(h, v, b) ELSE b = NextOf(h, v)

PendingTags(h) ==
    /\ \A t \in DOMAIN h.S : \E e \in (h.pub + 1)..h.sent : \E k \in Kinds(h, e) : t = Tag(e, k)
    /\ \A e \in (h.pub + 1)..h.sent : Tag(e, 7) \in DOMAIN h.S
    /\ \A e \in (h.pub + 1)..h.sent : \A t \in DOMAIN h.S : t < Tag(e, 6) => Tag(e, 6) \in DOMAIN h.S
    /\ \A d, e \in (h.pub + 1)..h.sent : \A j \in Kinds(h, d) \cap {3, 4, 5, 7} :
          \A k \in Kinds(h, e) \cap {3, 4, 5, 7} :
             Tag(d, j) < Tag(e, k) /\ Tag(d, j) \in DOMAIN h.S => Tag(e, k) \in DOMAIN h.S

PendingStores(h) ==
    \A e \in (h.pub + 1)..h.sent :
        LET v == h.visit[e] IN
        /\ Tag(e, 1) \in DOMAIN h.S => h.S[Tag(e, 1)] = Store(<<"data", h.block[v], IndexOf(h, v, e)>>, e)
        /\ Tag(e, 2) \in DOMAIN h.S => h.S[Tag(e, 2)] = Store(<<"localTail", h.block[v]>>, 1)
        /\ Tag(e, 3) \in DOMAIN h.S => h.S[Tag(e, 3)] = Store(<<"tail", h.block[v]>>, IndexOf(h, v, e + 1))
        /\ Tag(e, 4) \in DOMAIN h.S => /\ h.S[Tag(e, 4)].loc = <<"next", h.block[v]>>
                                       /\ Link(h, v, h.S[Tag(e, 4)].val)
        /\ Tag(e, 5) \in DOMAIN h.S => h.S[Tag(e, 5)] = Store(<<"next", h.block[v - 1]>>, h.block[v])
        /\ Tag(e, 6) \in DOMAIN h.S => h.S[Tag(e, 6)] = Fence
        /\ h.S[Tag(e, 7)] = IF Begins(h, e) THEN Store(<<"tailBlock">>, h.block[v])
                            ELSE Store(<<"tail", h.block[v]>>, IndexOf(h, v, e + 1))

PendingFronts(h) ==
    /\ DOMAIN h.R \subseteq Nat
    /\ \A t \in DOMAIN h.R :
          \/ \E e \in (h.rel + 1)..h.got : t = Tag(e, 4)
          \/ \E v \in (h.freed + 1)..h.front : t = Tag(h.first[v], 2)
          \/ h.R[t] = Fence
    /\ \A t \in DOMAIN h.R : \/ t < Tag(h.got + 1, 1)
                             \/ h.first[h.front] = h.got + 1 /\ t <= Tag(h.got + 1, 2)
    /\ \A e \in (h.rel + 1)..h.got : 
          /\ Tag(e, 4) \in DOMAIN h.R
          /\ h.R[Tag(e, 4)] = Store(<<"front", h.block[h.visit[e]]>>, IndexOf(h, h.visit[e], e + 1))
    /\ \A v \in (h.freed + 1)..h.front :
          /\ Tag(h.first[v], 2) \in DOMAIN h.R
          /\ h.R[Tag(h.first[v], 2)] = Store(<<"frontBlock">>, h.block[v])

\* The buffer holds the stores of S in the order of their tags.
Holds(buffer, S) ==
    \E tags \in [1..Len(buffer) -> DOMAIN S] :
        /\ \A i, j \in 1..Len(buffer) : i < j => tags[i] < tags[j]
        /\ \A t \in DOMAIN S : \E i \in 1..Len(buffer) : tags[i] = t
        /\ \A i \in 1..Len(buffer) : buffer[i] = S[tags[i]]

----------------------------------------------------------------------------
Pcs == {"idle", "enqueue", "full", "ahead", "done", "gone", "dequeue", "tailBlock", "again", "next",
        "advance", "element", "size", "block", "blockNext"}
Ops == {"none", "enqueue", "try_enqueue", "try_dequeue", "peek", "size_approx"}
CallSet == [pc : Pcs, op : Ops, ok : BOOLEAN, start : Nat,
            block : Nat, index : Nat, sum : Nat, first : Nat]
Sizing(h, s, mask) ==
    /\ s \in Sizes /\ h.unit = InitialBlockSize(s) - 1
    /\ mask \in Seq(Nat) /\ Len(mask) = h.n /\ h.n \in Blocks /\ h.n >= InitialBlockCount(s)
    /\ \A b \in 1..h.n : Room(mask[b] + 1) /\ mask[b] >= h.unit
    /\ \A v \in 1..LastVisit(h) : h.room[v] = mask[h.block[v]] + 1

\* What m (memory), P (the producer's view of it), C (the consumer's) and F
\* (the producer's copies of the fronts) say.
TailViews(h, m, P) ==
    /\ P[<<"tailBlock">>] = h.block[h.tail]
    /\ m[<<"tailBlock">>] = h.block[h.shown]
    /\ \A v \in h.freed..h.tail : P[<<"tail", h.block[v]>>] = IndexOf(h, v, h.first[v + 1])
    /\ \A v \in h.freed..h.tail : m[<<"tail", h.block[v]>>] = IndexOf(h, v, MemTail(h, v))
FrontViews(h, m, C) ==
    /\ C[<<"frontBlock">>] = h.block[h.front]
    /\ m[<<"frontBlock">>] = h.block[h.freed]
    /\ \A v \in h.freed..h.tail : C[<<"front", h.block[v]>>] = IndexOf(h, v, OwnFront(h, v))
    /\ \A v \in h.freed..h.tail : m[<<"front", h.block[v]>>] = IndexOf(h, v, MemFront(h, v))
FreeViews(h, m, P, C, F) ==
    /\ \A v \in (h.tail + 1)..LastVisit(h) :
          LET b == h.block[v] IN
          /\ m[<<"tail", b>>] \in 0..(h.room[v] - 1)
          /\ P[<<"tail", b>>] = m[<<"tail", b>>]
          /\ m[<<"front", b>>] = m[<<"tail", b>>]
          /\ C[<<"front", b>>] = m[<<"tail", b>>]
    /\ \A b \in Blocks : b > h.n =>
          /\ m[<<"tail", b>>] = 0 /\ m[<<"front", b>>] = 0
          /\ C[<<"front", b>>] = 0 /\ F[b] = 0
NextViews(h, m, P) ==
    /\ \A v \in h.freed..LastVisit(h) : P[<<"next", h.block[v]>>] = NextOf(h, v)
    /\ \A v \in h.freed..LastVisit(h) :
          \/ v <= h.tail /\ Tag(h.first[v], 4) \in DOMAIN h.S
          \/ Link(h, v, m[<<"next", h.block[v]>>])
DataViews(h, m) ==
    \A e \in (h.got + 1)..h.sent :
        \/ Tag(e, 1) \in DOMAIN h.S
        \/ m[<<"data", h.block[h.visit[e]], IndexOf(h, h.visit[e], e)>>] = e
ShadowViews(h, m, F) ==
    /\ m[<<"localTail", h.block[h.front]>>] = IndexOf(h, h.front, h.lt)
    /\ F[h.block[h.tail]] = IndexOf(h, h.tail, h.lf)
Views(h, m, P, C, F) ==
    /\ TailViews(h, m, P) /\ FrontViews(h, m, C) /\ FreeViews(h, m, P, C, F)
    /\ NextViews(h, m, P) /\ DataViews(h, m) /\ ShadowViews(h, m, F)
\* The call of a thread.
ProducerCall(h, call, s) ==
    /\ call.pc \in {"idle", "enqueue", "full", "ahead", "done", "gone"}
    /\ call.pc \in {"enqueue", "full", "ahead"} => h.sent < MaxItems
    /\ call.start <= h.rel
    /\ call.pc \in {"full", "ahead"} =>
          /\ h.sent + 2 - h.lf = h.room[h.tail]
          /\ h.n = 1 => call.start < h.lf
    /\ call.pc = "ahead" => h.tail < LastVisit(h) /\ call.block = h.block[h.tail + 1]
    /\ call.pc = "done" /\ ~ call.ok => h.sent - call.start >= s

Walk(h, call, q) ==
    /\ q \in h.freed..LastVisit(h) /\ call.block = h.block[q] /\ Linked(h, q)
    /\ call.sum + h.got <= h.sent
    /\ q < h.front \/ q > h.tail => call.start <= call.sum + h.got
    /\ q \in h.front..h.tail /\ call.pc = "block" =>
          /\ q = h.front => call.sum = 0
          /\ q # h.front => /\ call.sum + h.got < h.first[q]
                            /\ \/ call.start <= call.sum + h.got
                               \/ call.sum + h.got = h.first[q] - 1
    /\ q \in h.front..h.tail /\ call.pc = "blockNext" =>
          /\ call.sum + h.got < h.first[q + 1]
          /\ \/ call.start <= call.sum + h.got
             \/ q < h.shown /\ call.sum + h.got = h.first[q + 1] - 1

ConsumerCall(h, call) ==
    /\ call.pc \in {"idle", "dequeue", "tailBlock", "again", "next", "advance", "element", "size",
                    "block", "blockNext", "done", "gone"}
    /\ call.start <= h.pub
    /\ call.pc \in {"dequeue", "tailBlock", "again", "next", "advance", "element"} =>
          call.op \in {"try_dequeue", "peek"}
    /\ call.pc = "tailBlock" => h.front < h.shown \/ call.start <= h.got
    /\ call.pc \in {"again", "next", "advance"} => h.front < h.shown
    /\ call.pc \in {"next", "advance"} => h.got + 1 = h.first[h.front + 1]
    /\ call.pc = "advance" => call.block = h.block[h.front + 1]
    /\ call.pc = "element" =>
          /\ h.got < h.pub
          /\ call.block = h.block[h.visit[h.got + 1]]
          /\ call.index = IndexOf(h, h.visit[h.got + 1], h.got + 1)
          /\ call.op # "peek" => h.visit[h.got + 1] = h.front /\ h.got + 1 < h.lt
    /\ call.pc \in {"size", "block", "blockNext"} => call.op = "size_approx"
    /\ call.pc = "size" => call.sum = 0
    /\ call.pc \in {"block", "blockNext"} =>
          /\ call.first = h.block[h.front]
          /\ \E q \in h.freed..LastVisit(h) : Walk(h, call, q)
    /\ call.pc = "done" /\ ~ call.ok => call.start <= h.got
    /\ call.pc = "done" /\ call.ok /\ call.op = "peek" => call.sum = h.got + 1
    /\ call.pc = "done" /\ call.op = "size_approx" =>
          call.start <= call.sum + h.got /\ call.sum + h.got <= h.sent

\* The history, the memory with what each thread sees of it, and the buffers.
Shape(h) == Counters(h) /\ Circular(h) /\ Visits(h) /\ Positions(h)
Pend(h) == PendingTags(h) /\ PendingStores(h)
World(h, m, P, C, F, s, mask) ==
    Shape(h) /\ Pend(h) /\ PendingFronts(h) /\ Sizing(h, s, mask) /\ Views(h, m, P, C, F)
View(buf, m) == [l \in Locations |-> Load(buf, m, l)]
Whole(h, m, bp, bc, F, s, mask) ==
    /\ World(h, m, View(bp, m), View(bc, m), F, s, mask) /\ Holds(bp, h.S) /\ Holds(bc, h.R)
    /\ m \in [Locations -> Nat] /\ bp \in Seq(StoreSet) /\ bc \in Seq(StoreSet) /\ F \in [Blocks -> Nat]

\* The state of the inner queue has the history h.
Core(h) ==
    /\ Whole(h, mem, stores["producer"], stores["consumer"], localFront, size, sizeMask)
    /\ stores \in [Threads -> Seq(StoreSet)]
    /\ h.sent = sent /\ h.sent <= MaxItems /\ h.got = Len(got) /\ got = [i \in 1..h.got |-> i]
    /\ p \in CallSet /\ c \in CallSet /\ ProducerCall(h, p, size) /\ ConsumerCall(h, c)

----------------------------------------------------------------------------
\* The owner of both threads destroys the queue.
Gone == (c.pc = "gone" <=> p.pc = "gone") /\ NothingLeaks

\* The semaphore: elements counted, and wake-ups on their way to the waiter.
One(b) == IF b THEN 1 ELSE 0
signalled == sent - One(p.pc = "done" /\ p.ok)
wakeups == posts + One(signaller = "post")
Running == {"idle", "tryWait", "spin", "take", "lower", "failed"}
Asleep == {"sleep", "restore", "tryPost"}
SemaTypes ==
    /\ count \in Int /\ posts \in Nat /\ signaller \in {"idle", "post"}
    /\ waiter \in [pc : Running \cup Asleep \cup {"retake", "acquired"}, timeout : Timeouts \cup {"none"}]
Counting ==
    /\ signalled <= published
    /\ waiter.pc \in Running => count = signalled - Len(got) /\ count >= 0 /\ wakeups = 0
    /\ waiter.pc = "take" => count > 0
    /\ waiter.pc \in Asleep => count = signalled - Len(got) - 1 /\ count >= -1 /\ wakeups = One(count >= 0)
    /\ waiter.pc = "tryPost" => count >= 0
    /\ waiter.pc = "retake" => count = signalled - Len(got) /\ count > 0 /\ wakeups = 1
    /\ waiter.pc = "acquired" =>
          /\ count = signalled - Len(got) - One(c.pc # "done") /\ count >= 0 /\ wakeups = 0
          /\ c.pc # "idle" => c.op = "try_dequeue"
          /\ c.pc \notin {"idle", "done"} => c.start > Len(got)
          /\ c.pc = "done" => c.ok
    /\ waiter.pc # "acquired" /\ c.pc \notin {"idle", "gone"} => c.op = "peek"
    /\ waiter.pc \notin {"idle", "acquired"} => c.pc = "idle"
    /\ c.pc = "gone" => waiter.pc = "idle"
Semaphore ==
    /\ blocking \in BOOLEAN /\ SemaTypes
    /\ IF blocking THEN Counting ELSE SemaInit

QueueInv == (\E h : Core(h)) /\ Gone /\ Semaphore
=============================================================================
