---------------------------- MODULE StoreBuffer ----------------------------
(***************************************************************************)
(* The memory two threads share, as atomicops.h lets the lock-free queue   *)
(* use it: relaxed loads and stores (weak_atomic), release fences, and     *)
(* read-modify-write operations.  A store waits in its thread's buffer     *)
(* before the other thread can see it; the thread itself sees it at once.  *)
(* On the x86 build atomic stores leave a buffer in program order, but the *)
(* compiler may move a plain store (an element, a shadow index) across     *)
(* them; only fence(memory_order_release) keeps it behind the fence.       *)
(* Loads are taken in program order: the acquire fences of the queue stand *)
(* after every load whose result decides what is read next.                *)
(***************************************************************************)
EXTENDS Integers, Sequences, SequencesExt, FiniteSetsExt

\* A location is a tuple that begins with the name of the field.
Plain(loc) == loc[1] \in {"data", "localTail"}
Fence == [loc |-> <<"fence">>, val |-> 0]
\* weak_atomic::operator=, a relaxed store.
Store(loc, val) == [loc |-> loc, val |-> val]

\* weak_atomic::load by the thread whose stores wait in buffer.
Load(buffer, mem, loc) ==
    LET mine == {i \in DOMAIN buffer : buffer[i].loc = loc}
    IN  IF mine = {} THEN mem[loc] ELSE buffer[Max(mine)].val

\* The stores that may reach memory next: before the first fence, the oldest
\* atomic one and the oldest plain one.
Leaving(buffer) ==
    {i \in DOMAIN buffer :
        /\ \A j \in 1..i : buffer[j] # Fence
        /\ \A j \in 1..(i - 1) : Plain(buffer[j].loc) # Plain(buffer[i].loc)}

\* A fence with no store before it has nothing to keep back.
Trim(buffer) == IF buffer # << >> /\ Head(buffer) = Fence THEN Tail(buffer) ELSE buffer
\* buffer after its thread issued these stores; buffer without its i-th store.
Issue(buffer, issued) == Trim(buffer \o issued)
Left(buffer, i) == Trim(RemoveAt(buffer, i))

\* The stores of buffer to locations of one field.
Pending(buffer, field) == {i \in DOMAIN buffer : buffer[i].loc[1] = field}
=============================================================================
