---------------------------- MODULE InferenceGate ----------------------------
(***************************************************************************)
(* The admission gate of src/inference.py in front of the embedding model  *)
(* and the reranker, with the coroutines of src/nodes.py that pass it      *)
(* (async with gate.slot(): await asyncio.to_thread(...)).                 *)
(*                                                                         *)
(* A coroutine runs alone until it suspends.  The gate's own lock is never *)
(* held across a suspension, so it never blocks and slot() suspends only   *)
(* inside semaphore.acquire(): entering is one step, resuming another.  In *)
(* between the waiter's future may be resolved, the task cancelled, or     *)
(* both, in either order.  asyncio.Semaphore is modelled from its use.     *)
(***************************************************************************)
EXTENDS Naturals, FiniteSets, SequencesExt

CONSTANTS
  Callers,         \* coroutines that pass the gate
  MaxConcurrency,  \* inference_max_concurrency
  MaxQueueDepth,   \* inference_max_queue_depth
  MaxDetached      \* bound: worker threads that outlive their coroutine

ASSUME GateAssumption ==
  /\ IsFiniteSet(Callers)
  /\ {MaxConcurrency, MaxQueueDepth} \subseteq Nat \ {0}
  /\ MaxDetached \in Nat

VARIABLES
  pc,        \* where each coroutine is
  queue,     \* the semaphore's _waiters: callers in order of arrival
  value,     \* the semaphore's _value
  waiters,   \* the gate's counter of waiting callers
  detached   \* worker threads whose coroutine was cancelled

vars == <<pc, queue, value, waiters, detached>>

\* "waiting": its future is pending; "granted": the future has a result;
\* "cancelled": the future was cancelled; "revoked": the task was cancelled
\* after its future got a result; "running": in the worker thread;
\* "returned": the worker thread is done, the coroutine not yet resumed.
PC == {"idle", "waiting", "granted", "cancelled", "revoked", "running", "returned"}

TypeOK ==
  /\ pc \in [Callers -> PC]
  /\ queue \in Seq(Callers)
  /\ value \in Nat /\ waiters \in Nat
  /\ detached \in 0 .. MaxDetached

Init ==
  /\ pc = [c \in Callers |-> "idle"]
  /\ queue = <<>>
  /\ value = MaxConcurrency
  /\ waiters = 0
  /\ detached = 0
-----------------------------------------------------------------------------
(* asyncio.Semaphore *)

Queued == ToSet(queue)
Pending == {c \in Queued : pc[c] = "waiting"}

\* The waiter with the oldest pending future.
Oldest(c) ==
  \E i \in DOMAIN queue : /\ queue[i] = c /\ c \in Pending
                         /\ \A j \in 1 .. i - 1 : queue[j] \notin Pending

\* locked(): no permit, or somebody has a better claim to the next one.
Locked == value = 0 \/ \E c \in Queued : pc[c] # "cancelled"

\* Mutant of PassOn: the permit goes back, nobody is told.
PassOnSilently(c, label) ==
  /\ value' = value + 1
  /\ pc' = [pc EXCEPT ![c] = label]

\* Mutant of PassOn: any waiter is woken.
PassOnAny(c, label) ==
  \/ /\ Pending = {}
     /\ value' = value + 1 /\ pc' = [pc EXCEPT ![c] = label]
  \/ \E d \in Pending :
       value' = value /\ pc' = [pc EXCEPT ![c] = label, ![d] = "granted"]

\* release(): the permit goes to the first waiter whose future is pending, or
\* back to the counter.  Caller c, which is not pending, goes on to label.
PassOn(c, label) ==
  \/ /\ Pending = {}
     /\ value' = value + 1 /\ pc' = [pc EXCEPT ![c] = label]
  \/ \E d \in Pending :
       Oldest(d) /\ value' = value /\ pc' = [pc EXCEPT ![c] = label, ![d] = "granted"]

\* acquire() leaves the queue, whatever comes of it; so does the gate's counter.
LeaveQueue(c) ==
  /\ \E i \in DOMAIN queue : queue[i] = c /\ queue' = RemoveAt(queue, i)
  /\ waiters' = waiters - 1
-----------------------------------------------------------------------------
(* InferenceGate.slot *)

\* A permit is free: the caller goes straight to its worker thread.
EnterFree(c) ==
  /\ pc[c] = "idle" /\ ~Locked
  /\ value' = value - 1
  /\ pc' = [pc EXCEPT ![c] = "running"]
  /\ UNCHANGED <<queue, waiters, detached>>

HasQueueRoom == waiters < MaxQueueDepth

EnterQueue(c) ==
  /\ pc[c] = "idle" /\ Locked /\ HasQueueRoom
  /\ waiters' = waiters + 1
  /\ queue' = Append(queue, c)
  /\ pc' = [pc EXCEPT ![c] = "waiting"]
  /\ UNCHANGED <<value, detached>>

\* InferenceBusyError: nothing changes, the request is rejected.
EnterBusy(c) ==
  /\ pc[c] = "idle" /\ Locked /\ ~HasQueueRoom
  /\ UNCHANGED vars

\* Mutant of Resume: acquire() returns without looking for further permits.
ResumeAlone(c) ==
  /\ pc[c] = "granted" /\ LeaveQueue(c)
  /\ pc' = [pc EXCEPT ![c] = "running"]
  /\ UNCHANGED <<value, detached>>

\* acquire() returns: a permit still left is passed on to the next waiter.
Resume(c) ==
  /\ pc[c] = "granted" /\ LeaveQueue(c)
  /\ \/ /\ value = 0 \/ Pending = {}
        /\ value' = value /\ pc' = [pc EXCEPT ![c] = "running"]
     \/ /\ value > 0 /\ value' = value - 1
        /\ \E d \in Pending :
             Oldest(d) /\ pc' = [pc EXCEPT ![c] = "running", ![d] = "granted"]
  /\ UNCHANGED detached

\* CancelledError in acquire(), before a permit was assigned.
ResumeCancelled(c) ==
  /\ pc[c] = "cancelled" /\ LeaveQueue(c)
  /\ pc' = [pc EXCEPT ![c] = "idle"]
  /\ UNCHANGED <<value, detached>>

\* Mutant of ResumeRevoked: the permit it was assigned is not given back.
ResumeRevokedKept(c) ==
  /\ pc[c] = "revoked" /\ LeaveQueue(c)
  /\ pc' = [pc EXCEPT ![c] = "idle"]
  /\ UNCHANGED <<value, detached>>

\* CancelledError in acquire(), after a permit was assigned: it is given back.
ResumeRevoked(c) ==
  /\ pc[c] = "revoked" /\ LeaveQueue(c)
  /\ PassOn(c, "idle")
  /\ UNCHANGED detached

\* The worker thread returns or raises.
ThreadEnds(c) ==
  /\ pc[c] = "running"
  /\ pc' = [pc EXCEPT ![c] = "returned"]
  /\ UNCHANGED <<queue, value, waiters, detached>>

\* The body of slot() ends: semaphore.release().
Leave(c) ==
  /\ pc[c] = "returned"
  /\ PassOn(c, "idle")
  /\ UNCHANGED <<queue, waiters, detached>>
-----------------------------------------------------------------------------
(* Cancellation: the client disconnected, the replica shuts down *)

CancelWaiting(c) ==
  /\ pc[c] \in {"waiting", "granted"}
  /\ pc' = [pc EXCEPT ![c] = IF pc[c] = "waiting" THEN "cancelled" ELSE "revoked"]
  /\ UNCHANGED <<queue, value, waiters, detached>>

\* to_thread is cancelled: the slot is released, a thread that has started
\* goes on without its coroutine.
CancelRunning(c) ==
  /\ pc[c] \in {"running", "returned"}
  /\ PassOn(c, "idle")
  /\ \/ UNCHANGED detached
     \/ pc[c] = "running" /\ detached < MaxDetached /\ detached' = detached + 1
  /\ UNCHANGED <<queue, waiters>>

DetachedEnds ==
  /\ detached > 0
  /\ detached' = detached - 1
  /\ UNCHANGED <<pc, queue, value, waiters>>
-----------------------------------------------------------------------------
Progress(c) ==
  Resume(c) \/ ResumeCancelled(c) \/ ResumeRevoked(c) \/ ThreadEnds(c) \/ Leave(c)

Step(c) ==
  \/ EnterFree(c) \/ EnterQueue(c) \/ EnterBusy(c) \/ Progress(c)
  \/ CancelWaiting(c) \/ CancelRunning(c)

Next == (\E c \in Callers : Step(c)) \/ DetachedEnds

Spec == Init /\ [][Next]_vars

\* The event loop runs every ready coroutine and inference returns.
FairSpec == Spec /\ \A c \in Callers : WF_vars(Progress(c))
-----------------------------------------------------------------------------
(* Properties *)

Holders == {c \in Callers : pc[c] \in {"granted", "revoked", "running", "returned"}}

\* No lost wake-up: while a permit is free, nobody sleeps in the queue unless
\* a caller before it is about to resume and will pass the permit on.
NoLostWakeup ==
  value > 0 /\ Pending # {} =>
    \E c \in Queued : pc[c] \in {"granted", "revoked"}

\* Permits are neither lost nor duplicated, however cancellation and wake-up of
\* a waiter are ordered: each is free or in exactly one caller's hands.  The
\* gate's own counter agrees with the semaphore's queue, so the queue is bounded,
\* those included that are cancelled and not yet resumed.
CountersExact ==
  /\ value + Cardinality(Holders) = MaxConcurrency
  /\ waiters = Len(queue) /\ waiters <= MaxQueueDepth

\* First come, first served: a permit assigned in a step goes to the caller
\* that has waited longest, and nobody enters past a waiting caller.
Fifo ==
  [][\A c, d \in Callers :
       pc[c] = "waiting" /\ pc'[c] = "waiting" =>
         /\ pc[d] = "idle" => pc'[d] # "running"
         /\ pc[d] = "waiting" /\ pc'[d] = "granted" =>
              \E i, j \in 1 .. Len(queue) : i < j /\ queue[i] = d /\ queue[j] = c]_vars

\* Every waiting caller gets its slot or is cancelled.
WaitEnds == \A c \in Callers : pc[c] = "waiting" ~> pc[c] # "waiting"
=============================================================================
