--------------------------- MODULE BlockingQueue ---------------------------
(***************************************************************************)
(* moodycamel::BlockingReaderWriterQueue: a ReaderWriterQueue whose        *)
(* elements are counted by a LightweightSemaphore.  With blocking = FALSE  *)
(* the inner queue is used directly, as MessageQueue does.                 *)
(***************************************************************************)
EXTENDS ReaderWriterQueue, LightweightSemaphore

VARIABLE blocking   \* which of the two classes the threads use; never changes

vars == <<blocking, queueVars, semaVars>>

\* Types.  One thread waits, so the count is never below -1 and at most one wake-up is
\* left over; no more elements come out than went in.
TypeOK ==
    /\ blocking \in BOOLEAN /\ size \in Sizes
    /\ mem \in [Locations -> Nat]
    /\ \A t \in Threads : \A i \in DOMAIN stores[t] :
          stores[t][i] = Fence \/ stores[t][i].loc \in Locations
    /\ Len(sizeMask) \in Blocks
    /\ sent \in 0..MaxItems
    /\ Len(got) <= sent
    /\ count \in -1..(MaxItems + 1) /\ posts \in 0..1
    /\ waiter.timeout \in Timeouts \cup {"none"}

BlockingInit == blocking \in BOOLEAN /\ Init /\ SemaInit

\* fetch_add is a locked instruction: the thread's stores are in memory before it.
Drained(t) == stores[t] = << >>

PlainCall ==
    /\ ~blocking
    /\ \/ \E op \in {"enqueue", "try_enqueue"} : CallEnqueue(op)
       \/ \E op \in {"try_dequeue", "peek"} : CallDequeue(op)
       \/ CallSize \/ ReturnEnqueue \/ ReturnDequeue
    /\ UNCHANGED semaVars

\* enqueue, try_enqueue: signal when the inner queue took the element.
EnqueueCall ==
    /\ blocking /\ signaller = "idle"
    /\ \/ \E op \in {"enqueue", "try_enqueue"} : CallEnqueue(op)
       \/ p.pc = "done" /\ ~p.ok /\ ReturnEnqueue
    /\ UNCHANGED semaVars

SignalElement ==
    /\ blocking /\ p.pc = "done" /\ p.ok /\ Drained("producer")
    /\ Signal
    /\ ReturnEnqueue

PostElement == blocking /\ Post /\ UNCHANGED queueVars

\* try_dequeue and pop ("try"), wait_dequeue ("forever"), wait_dequeue_timed.
WaitCall ==
    /\ blocking /\ c.pc = "idle"
    /\ \E timeout \in Timeouts : BeginWait(timeout)
    /\ UNCHANGED queueVars

WaitElement ==
    /\ blocking
    /\ waiter.pc \in {"take", "lower", "restore", "retake", "tryPost"} => Drained("consumer")
    /\ WaitStep
    /\ UNCHANGED queueVars

\* wait_dequeue_timed and try_dequeue return false; wait_dequeue tries again.
WaitFailed == blocking /\ waiter.pc = "failed" /\ waiter' = Awake
              /\ UNCHANGED <<count, posts, signaller, queueVars>>

\* The semaphore counted an element for this thread: the inner queue holds it.
DequeueCall ==
    /\ blocking /\ waiter.pc = "acquired"
    /\ \/ CallDequeue("try_dequeue") /\ UNCHANGED semaVars
       \/ c.pc = "done" /\ ReturnDequeue /\ waiter' = Awake
          /\ UNCHANGED <<count, posts, signaller>>

BlockingPeek ==
    /\ blocking /\ waiter.pc = "idle"
    /\ CallDequeue("peek") \/ ReturnDequeue
    /\ UNCHANGED semaVars

DestroyStep == waiter.pc = "idle" /\ signaller = "idle" /\ Destroy /\ UNCHANGED semaVars

InnerStep == (ProducerStep \/ ConsumerStep) /\ UNCHANGED semaVars
DrainStep == (\E t \in Threads : Drain(t)) /\ UNCHANGED semaVars

BlockingNext ==
    /\ \/ PlainCall \/ EnqueueCall \/ SignalElement \/ PostElement \/ WaitCall \/ WaitElement
       \/ WaitFailed \/ DequeueCall \/ BlockingPeek \/ InnerStep \/ DrainStep \/ DestroyStep
    /\ UNCHANGED blocking

ProducerProgress == SignalElement \/ PostElement \/ (ProducerStep /\ UNCHANGED <<blocking, semaVars>>)
ConsumerProgress == WaitElement \/ WaitFailed \/ DequeueCall \/ (ConsumerStep /\ UNCHANGED <<blocking, semaVars>>)
\* A thread inside a call goes on with it and stores reach memory; nobody has
\* to begin a call.
BlockingSpec ==
    /\ BlockingInit /\ [][BlockingNext]_vars
    /\ WF_vars(ProducerProgress /\ UNCHANGED blocking) /\ WF_vars(ConsumerProgress /\ UNCHANGED blocking)
    /\ \A t \in Threads : WF_vars(Drain(t) /\ UNCHANGED <<blocking, semaVars>>)

----------------------------------------------------------------------------

\* AssertsHold: the asserts of the two classes.  The blocks ahead are as the code
\* expects (BlocksAhead), and the semaphore counts elements: a thread that acquired
\* it finds one in the inner queue (readerwriterqueue.h:853, 869, 887, 923).  The
\* state is well typed.
AssertsHold ==
    /\ TypeOK /\ BlocksAhead
    /\ blocking /\ c.pc = "done" /\ c.op = "try_dequeue" => c.ok

\* Between calls the count is the number of elements and no wake-up is left
\* over, whatever waits timed out while they were being signalled
\* (atomicops.h:657-670; size_approx is availableApprox).
CountExact ==
    blocking /\ waiter.pc = "idle" /\ signaller = "idle" /\ p.pc # "done"
        => posts = 0 /\ availableApprox = sent - Len(got)

\* A waiting thread is not left behind: wait_dequeue returns once there is an
\* element, and a wait with a timeout returns in any case.
WaitReturns ==
    /\ waiter.timeout = "forever" /\ sent > Len(got) ~> waiter.pc = "idle"
    /\ waiter.timeout \in {"zero", "timed"} ~> waiter.pc = "idle"
=============================================================================
