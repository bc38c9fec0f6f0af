------------------------ MODULE LightweightSemaphore ------------------------
(***************************************************************************)
(* spsc_sema::LightweightSemaphore (atomicops.h): a count that one thread  *)
(* lowers and one raises, and a kernel semaphore for the waiter that finds *)
(* the count at zero.  Every step is one atomic access; the actions say    *)
(* what a thread does, the module that uses them says when it may.         *)
(***************************************************************************)
EXTENDS Integers

VARIABLES count,    \* m_count; -1 while the waiter sleeps or gives up
          posts,    \* the value of m_sema
          waiter,   \* where the waiting thread is: [pc, timeout]
          signaller \* "idle" or "post"

semaVars == <<count, posts, waiter, signaller>>

Awake == [pc |-> "idle", timeout |-> "none"]
Timeouts == {"try", "forever", "zero", "timed"}

SemaInit == count = 0 /\ posts = 0 /\ waiter = Awake /\ signaller = "idle"

\* wait(), wait(timeout_usecs) and tryWait() begin.
BeginWait(timeout) ==
    /\ waiter.pc = "idle"
    /\ waiter' = [pc |-> "tryWait", timeout |-> timeout]
    /\ UNCHANGED <<count, posts, signaller>>

Goto(pc) == waiter' = [waiter EXCEPT !.pc = pc]

\* tryWait's load; tryWait gives up where wait goes on spinning.
TryWait ==
    /\ waiter.pc = "tryWait"
    /\ Goto(IF count > 0 THEN "take" ELSE IF waiter.timeout = "try" THEN "failed" ELSE "spin")
    /\ UNCHANGED <<count, posts, signaller>>

\* A load of the spinning loop that finds a count, or the last one, which does not.
Spin ==
    /\ waiter.pc = "spin"
    /\ Goto(IF count > 0 THEN "take" ELSE "lower")
    /\ UNCHANGED <<count, posts, signaller>>

\* fetch_add_acquire(-1) after a load that saw a positive count.
TakeCount ==
    /\ waiter.pc = "take"
    /\ count' = count - 1
    /\ Goto("acquired")
    /\ UNCHANGED <<posts, signaller>>

\* fetch_add_acquire(-1) after the loop.
LowerCount ==
    /\ waiter.pc = "lower"
    /\ count' = count - 1
    /\ Goto(IF count > 0 THEN "acquired"
            ELSE IF waiter.timeout = "zero" THEN "restore" ELSE "sleep")
    /\ UNCHANGED <<posts, signaller>>

\* sem_wait and sem_timedwait succeed.
Wake ==
    /\ waiter.pc = "sleep" /\ posts > 0
    /\ posts' = posts - 1
    /\ Goto("acquired")
    /\ UNCHANGED <<count, signaller>>

\* sem_timedwait fails with ETIMEDOUT.
TimeOut ==
    /\ waiter.pc = "sleep" /\ waiter.timeout = "timed" /\ posts = 0
    /\ Goto("restore")
    /\ UNCHANGED <<count, posts, signaller>>

\* Fault: a signal that came with the time-out is not looked for.
RestoreAlways ==
    /\ waiter.pc = "restore"
    /\ count' = count + 1
    /\ Goto("failed")
    /\ UNCHANGED <<posts, signaller>>

\* fetch_add_release(1) gives the count back, unless it was signalled meanwhile.
Restore ==
    /\ waiter.pc = "restore"
    /\ count' = count + 1
    /\ Goto(IF count < 0 THEN "failed" ELSE "retake")
    /\ UNCHANGED <<posts, signaller>>

Retake ==
    /\ waiter.pc = "retake"
    /\ count' = count - 1
    /\ Goto(IF count > 0 THEN "tryPost" ELSE "restore")
    /\ UNCHANGED <<posts, signaller>>

\* m_sema.try_wait: the signaller may have raised the count and not posted yet.
TryPost ==
    /\ waiter.pc = "tryPost"
    /\ IF posts > 0 THEN posts' = posts - 1 /\ Goto("acquired")
                    ELSE posts' = posts /\ Goto("restore")
    /\ UNCHANGED <<count, signaller>>

WaitStep == \/ TryWait \/ Spin \/ TakeCount \/ LowerCount \/ Wake \/ TimeOut
            \/ Restore \/ Retake \/ TryPost

\* Fault: off by one, a sleeping waiter is taken for a running one.
SignalBelow ==
    /\ signaller = "idle"
    /\ count' = count + 1
    /\ signaller' = IF count < -1 THEN "post" ELSE "idle"
    /\ UNCHANGED <<posts, waiter>>

\* signal(): raise the count, and post when the waiter had lowered it below zero.
Signal ==
    /\ signaller = "idle"
    /\ count' = count + 1
    /\ signaller' = IF count < 0 THEN "post" ELSE "idle"
    /\ UNCHANGED <<posts, waiter>>

Post ==
    /\ signaller = "post"
    /\ posts' = posts + 1
    /\ signaller' = "idle"
    /\ UNCHANGED <<count, waiter>>

availableApprox == IF count > 0 THEN count ELSE 0
=============================================================================
