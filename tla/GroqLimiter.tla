----------------------------- MODULE GroqLimiter -----------------------------
(***************************************************************************)
(* The Redis-backed admission control of src/groq_limits.py, for one model *)
(* and any number of callers (coroutines of any number of replicas).       *)
(*                                                                         *)
(* Every Redis command is one step; between two commands of a caller the   *)
(* others run, time passes, the caller may be cancelled or its process may *)
(* die, and a command may fail before or after Redis executed it.  Time is *)
(* discrete.  Timers count down, so no variable grows without bound.       *)
(*                                                                         *)
(* Window of SlidingWindow is the 60 in EXPIRE request_key 60.             *)
(*                                                                         *)
(* Redis data of the model:                                                *)
(*   queueCount, queueTtl          opcenter:groq:queue:<model>             *)
(*   requests, tokens, windowTtl   opcenter:groq:requests|tokens:<model>   *)
(*   lease                         opcenter:groq:active:<model>, the zset: *)
(*                                 time left until a slot's score          *)
(* The zset's own EXPIRE lies 5 seconds after its newest score: it removes *)
(* nothing a purge would not, and is left out.                             *)
(***************************************************************************)
EXTENDS Integers, FiniteSets, SlidingWindow

CONSTANTS
  Callers,        \* coroutines that call run() for this model
  Slots,          \* slot identifiers (request id and a fresh uuid)
  NoSlot,         \* not a slot: the caller has not been admitted
  Costs,          \* token costs, max(1, token_cost)
  Skew,           \* how far the wall clock of a caller's replica is ahead
  Concurrency,    \* ModelLimits.concurrency
  RequestLimit,   \* ModelLimits.requests_per_minute
  TokenLimit,     \* ModelLimits.tokens_per_minute
  MaxQueueDepth,  \* groq_max_queue_depth
  MaxQueueWait,   \* groq_max_queue_wait_seconds
  QueueGrace,     \* the 5 in EXPIRE queue_key wait + 5
  LeaseMargin,    \* the 120_000 in lease_ms = wait * 1000 + 120_000
  OpTimeout,      \* longest provider call, status update included
  PromptRedis,    \* TRUE: no time passes between a caller's Redis commands
  MaxFaults       \* bound: how many crashes and Redis errors may happen

VARIABLES
  pc,          \* where each caller is in run()
  timer,       \* queued: until its deadline; running: until OpTimeout
  slot,        \* the slot a caller was admitted with, or NoSlot
  queueCount,  \* value of the queue key, 0 when the key does not exist
  queueTtl,    \* its time to live, NoExpiry, or 0 when it does not exist
  requests, tokens, windowTtl,  \* the rate window, windowTtl = 0: no keys
  lease,       \* per slot: time left until its score, 0 when not in the zset
  recent,      \* history: calls started within the window (SlidingWindow)
  faults       \* crashes and Redis errors so far

callerVars == <<pc, timer, slot>>
queueVars  == <<queueCount, queueTtl>>
windowVars == <<requests, tokens, windowTtl>>
vars == <<callerVars, queueVars, windowVars, lease, recent, faults>>

NoExpiry == -1

QueueTtl == MaxQueueWait + QueueGrace
Lease == MaxQueueWait + LeaseMargin

ASSUME LimitsAssumption ==
  /\ IsFiniteSet(Callers) /\ IsFiniteSet(Slots)
  /\ NoSlot \notin Slots
  /\ Costs \subseteq Nat \ {0}
  /\ {Concurrency, RequestLimit, TokenLimit, MaxQueueDepth} \subseteq Nat
  /\ {MaxQueueWait, QueueGrace, LeaseMargin, OpTimeout, MaxFaults} \subseteq Nat
  /\ PromptRedis \in BOOLEAN

\* A call ends before any replica, by its own clock, sees its lease expire.
ASSUME LeaseAssumption ==
  /\ Skew \in [Callers -> Nat]
  /\ \A c, d \in Callers : OpTimeout + Skew[d] < Lease + Skew[c]

\* "joined", "overflow": INCR done, EXPIRE next; "rejecting": DECR next;
\* "leaving": the finally block, DECR next; "releasing": ZREM next.
PC == {"idle", "joined", "overflow", "rejecting", "queued", "running",
       "leaving", "releasing"}

TypeOK ==
  /\ pc \in [Callers -> PC]
  /\ timer \in [Callers -> Nat]
  /\ slot \in [Callers -> Slots \cup {NoSlot}]
  /\ queueCount \in Int
  /\ queueTtl \in Nat \cup {NoExpiry}
  /\ requests \in Nat /\ tokens \in Nat /\ windowTtl \in 0 .. Window
  /\ lease \in [Slots -> Nat]
  /\ recent \subseteq LogEntry
  /\ faults \in 0 .. MaxFaults

Init ==
  /\ pc = [c \in Callers |-> "idle"]
  /\ timer = [c \in Callers |-> 0]
  /\ slot = [c \in Callers |-> NoSlot]
  /\ queueCount = 0 /\ queueTtl = 0
  /\ requests = 0 /\ tokens = 0 /\ windowTtl = 0
  /\ lease = [s \in Slots |-> 0]
  /\ recent = {}
  /\ faults = 0
-----------------------------------------------------------------------------
(* Redis *)

\* A fault is counted; every action without Fault leaves the count alone.
Fault == faults < MaxFaults /\ faults' = faults + 1
NoFault == UNCHANGED faults

\* INCR or DECR: creates a missing key without expiry, keeps a present TTL.
Count(n) ==
  /\ queueCount' = queueCount + n
  /\ queueTtl' = IF queueTtl = 0 THEN NoExpiry ELSE queueTtl

Held(leases) == {s \in Slots : leases[s] > 0}

\* ZREMRANGEBYSCORE -inf now, with now read from the caller's own clock.
Purged(c) == [s \in Slots |-> IF lease[s] <= Skew[c] THEN 0 ELSE lease[s]]

HasRoom(c) == Cardinality(Held(Purged(c))) < Concurrency

\* Mutant of FitsWindow: the limit is compared before the cost is added.
FitsWindowBeforeCost(cost) ==
  requests + 1 <= RequestLimit /\ tokens <= TokenLimit

FitsWindow(cost) ==
  requests + 1 <= RequestLimit /\ tokens + cost <= TokenLimit

\* EXPIRE 60 after every INCR: the window lasts until no call started for 60 s.
RefreshWindow == windowTtl' = Window

\* The admitting branch of the script: count the call, set both TTLs and add
\* the slot.  A new uuid is in nobody's hands.
AdmitScript(c, cost, s) ==
  /\ HasRoom(c) /\ FitsWindow(cost)
  /\ lease[s] = 0 /\ \A d \in Callers : slot[d] # s
  /\ requests' = requests + 1
  /\ tokens' = tokens + cost
  /\ RefreshWindow
  /\ lease' = [Purged(c) EXCEPT ![s] = Lease + Skew[c]]
-----------------------------------------------------------------------------
(* run() *)

Goto(c, label) == pc' = [pc EXCEPT ![c] = label]

\* The finally block is reached; neither deadline nor call timeout matters now.
Finally(c) == Goto(c, "leaving") /\ timer' = [timer EXCEPT ![c] = 0]

\* INCR queue_key.
Join(c) ==
  /\ pc[c] = "idle"
  /\ Count(1)
  /\ Goto(c, IF queueCount + 1 > MaxQueueDepth THEN "overflow" ELSE "joined")
  /\ NoFault
  /\ UNCHANGED <<timer, slot, windowVars, lease, recent>>

\* INCR executed, its reply lost: GroqLimitError, and nothing undoes the count.
JoinLost(c) ==
  /\ pc[c] = "idle"
  /\ Count(1)
  /\ Fault
  /\ UNCHANGED <<callerVars, windowVars, lease, recent>>

\* EXPIRE queue_key; no effect when the key expired meanwhile.
ExpireQueueKey(c) ==
  /\ pc[c] \in {"joined", "overflow"}
  /\ queueTtl' = IF queueTtl = 0 THEN 0 ELSE QueueTtl
  /\ Goto(c, IF pc[c] = "joined" THEN "queued" ELSE "rejecting")
  /\ timer' = [timer EXCEPT ![c] = IF pc[c] = "joined" THEN MaxQueueWait ELSE 0]
  /\ NoFault
  /\ UNCHANGED <<slot, queueCount, windowVars, lease, recent>>

\* EXPIRE fails, executed or not: redis_unavailable, without DECR.
ExpireLost(c) ==
  /\ pc[c] \in {"joined", "overflow"}
  /\ queueTtl' \in {queueTtl, IF queueTtl = 0 THEN 0 ELSE QueueTtl}
  /\ Goto(c, "idle")
  /\ Fault
  /\ UNCHANGED <<timer, slot, queueCount, windowVars, lease, recent>>

\* queue_full.  A failing DECR is swallowed.
RejectFull(c) ==
  /\ pc[c] = "rejecting"
  /\ \/ Count(-1) /\ NoFault
     \/ UNCHANGED queueVars /\ Fault
  /\ Goto(c, "idle")
  /\ UNCHANGED <<timer, slot, windowVars, lease, recent>>

\* The loop's eval admits the caller and the provider call starts.
Admit(c, cost, s) ==
  /\ pc[c] = "queued" /\ timer[c] > 0
  /\ AdmitScript(c, cost, s)
  /\ slot' = [slot EXCEPT ![c] = s]
  /\ timer' = [timer EXCEPT ![c] = OpTimeout]
  /\ recent' = Record(recent, cost)
  /\ Goto(c, "running")
  /\ NoFault
  /\ UNCHANGED queueVars

\* Mutant of PollRejected: the deadline is computed in the loop.
PollRejectedAnew(c) ==
  /\ pc[c] = "queued"
  /\ ~HasRoom(c) \/ \E cost \in Costs : ~FitsWindow(cost)
  /\ lease' = Purged(c)
  /\ timer' = [timer EXCEPT ![c] = MaxQueueWait]
  /\ NoFault
  /\ UNCHANGED <<pc, slot, queueVars, windowVars, recent>>

\* The loop's eval rejects the caller, which sleeps and polls again.
PollRejected(c) ==
  /\ pc[c] = "queued" /\ timer[c] > 0
  /\ ~HasRoom(c) \/ \E cost \in Costs : ~FitsWindow(cost)
  /\ lease' = Purged(c)
  /\ NoFault
  /\ UNCHANGED <<callerVars, queueVars, windowVars, recent>>

\* The eval admits the caller but its reply is lost (an error, or the caller
\* is cancelled while it waits): the finally block runs with admitted = False.
AdmitLost(c, cost, s) ==
  /\ pc[c] = "queued" /\ timer[c] > 0
  /\ AdmitScript(c, cost, s)
  /\ Finally(c)
  /\ Fault
  /\ UNCHANGED <<slot, queueVars, recent>>

\* queue_timeout: the deadline passed.
QueueTimeout(c) ==
  /\ pc[c] = "queued" /\ timer[c] = 0
  /\ Finally(c)
  /\ NoFault
  /\ UNCHANGED <<slot, queueVars, windowVars, lease, recent>>

\* Cancelled while queued, or the eval failed before Redis executed it.
Abandon(c) ==
  /\ pc[c] = "queued" /\ timer[c] > 0
  /\ Finally(c)
  /\ NoFault
  /\ UNCHANGED <<slot, queueVars, windowVars, lease, recent>>

\* The provider call returns, fails, times out or is cancelled.
OperationEnds(c) ==
  /\ pc[c] = "running"
  /\ Finally(c)
  /\ NoFault
  /\ UNCHANGED <<slot, queueVars, windowVars, lease, recent>>

\* finally: DECR queue_key, an error is swallowed.
Leave(c) ==
  /\ pc[c] = "leaving"
  /\ \/ Count(-1) /\ NoFault
     \/ UNCHANGED queueVars /\ Fault
  /\ Goto(c, IF slot[c] = NoSlot THEN "idle" ELSE "releasing")
  /\ UNCHANGED <<timer, slot, windowVars, lease, recent>>

\* Mutant of Release: DEL of the active key instead of ZREM of the slot.
ReleaseAll(c) ==
  /\ pc[c] = "releasing"
  /\ lease' = [s \in Slots |-> 0] /\ NoFault
  /\ slot' = [slot EXCEPT ![c] = NoSlot]
  /\ Goto(c, "idle")
  /\ UNCHANGED <<timer, queueVars, windowVars, recent>>

\* finally, if admitted: ZREM, an error is swallowed and leaves the lease.
Release(c) ==
  /\ pc[c] = "releasing"
  /\ \/ lease' = [lease EXCEPT ![slot[c]] = 0] /\ NoFault
     \/ UNCHANGED lease /\ Fault
  /\ slot' = [slot EXCEPT ![c] = NoSlot]
  /\ Goto(c, "idle")
  /\ UNCHANGED <<timer, queueVars, windowVars, recent>>

\* The process dies, or a second cancellation cuts the finally block short.
Crash(c) ==
  /\ pc[c] # "idle"
  /\ Goto(c, "idle")
  /\ slot' = [slot EXCEPT ![c] = NoSlot]
  /\ timer' = [timer EXCEPT ![c] = 0]
  /\ Fault
  /\ UNCHANGED <<queueVars, windowVars, lease, recent>>
-----------------------------------------------------------------------------
(* Time *)

Down(n) == IF n > 0 THEN n - 1 ELSE n

\* Mutant of AgeLeases: slots are kept in a plain set.
LeasesNeverExpire == UNCHANGED lease

AgeLeases == lease' = [s \in Slots |-> Down(lease[s])]

\* The caller waits for the world and not for Redis.
AtRest(c) ==
  \/ pc[c] \in {"idle", "running"}
  \/ pc[c] = "queued" /\ timer[c] > 0

\* One time unit passes.  A provider call cannot outlast OpTimeout.
Tick ==
  /\ \A c \in Callers : pc[c] = "running" => timer[c] > 0
  /\ PromptRedis => \A c \in Callers : AtRest(c)
  /\ timer' = [c \in Callers |-> Down(timer[c])]
  /\ AgeLeases
  /\ queueTtl' = Down(queueTtl)
  /\ queueCount' = IF queueTtl = 1 THEN 0 ELSE queueCount
  /\ windowTtl' = Down(windowTtl)
  /\ requests' = IF windowTtl > 1 THEN requests ELSE 0
  /\ tokens' = IF windowTtl > 1 THEN tokens ELSE 0
  /\ recent' = Elapse(recent)
  /\ NoFault
  /\ UNCHANGED <<pc, slot>>

Step(c) ==
  \/ Join(c) \/ JoinLost(c) \/ ExpireQueueKey(c) \/ ExpireLost(c)
  \/ RejectFull(c) \/ PollRejected(c) \/ QueueTimeout(c) \/ Abandon(c)
  \/ OperationEnds(c) \/ Leave(c) \/ Release(c) \/ Crash(c)
  \/ \E cost \in Costs, s \in Slots : Admit(c, cost, s) \/ AdmitLost(c, cost, s)

Next == (\E c \in Callers : Step(c)) \/ Tick

Spec == Init /\ [][Next]_vars

\* The event loop runs every ready coroutine, every Redis command returns or
\* times out (socket_timeout=2), and time passes.
Progress(c) ==
  ExpireQueueKey(c) \/ RejectFull(c) \/ QueueTimeout(c) \/ OperationEnds(c)
    \/ Leave(c) \/ Release(c)

FairSpec == Spec /\ WF_vars(Tick) /\ \A c \in Callers : WF_vars(Progress(c))
-----------------------------------------------------------------------------
(* Properties *)

Running == {c \in Callers : pc[c] = "running"}
Waiting == {c \in Callers : pc[c] = "queued"}

\* A running call owns a slot nobody else owns, and the slot's lease outlasts
\* the call by a margin that no clock difference between replicas uses up.
SlotsBackCalls ==
  /\ \A c \in Running :
       /\ slot[c] \in Slots
       /\ lease[slot[c]] >= timer[c] + (Lease + Skew[c] - OpTimeout)
  /\ \A c, d \in Callers : c # d /\ slot[c] = slot[d] => slot[c] = NoSlot

\* The zset never holds more than Concurrency live slots.
LeasesBounded == Cardinality(Held(lease)) <= Concurrency

\* The window's keys count every call the sliding window still contains, and
\* live until the youngest of those calls leaves it.
WindowCovered ==
  /\ requests <= RequestLimit /\ tokens <= TokenLimit
  /\ \A a \in recent : /\ a.requests <= requests /\ a.tokens <= tokens
                       /\ a.age + windowTtl >= Window

\* The inductive invariant behind the two limits: what Redis stores always
\* covers what callers have in flight, whatever failed on the way.
RedisCoversCalls == SlotsBackCalls /\ LeasesBounded /\ WindowCovered

\* Never more than Concurrency provider calls are in flight, across replicas
\* with different clocks, crashes and lost replies (the lease outlives a call).
ConcurrencyBounded == Cardinality(Running) <= Concurrency

\* No window of the last Window time units, wherever it starts, saw more calls
\* or tokens started than the limits: the TTL refresh of the script makes the
\* Redis counters cover at least the sliding window.
RateBounded == WithinLimits(recent, RequestLimit, TokenLimit)

\* Every caller that enters run() returns from it: with its result, an error,
\* queue_full or queue_timeout.
CallEnds == \A c \in Callers : pc[c] # "idle" ~> pc[c] = "idle"

\* A slot whose holder crashed or lost its reply is free again eventually.
SlotsRecover == \A s \in Slots : lease[s] > 0 ~> lease[s] = 0

\* The bounded Groq queue: no more callers wait than MaxQueueDepth.
QueueBounded == Cardinality(Waiting) <= MaxQueueDepth

\* run() implements the admission control a caller relies on.
Admission == INSTANCE AdmissionControl WITH inFlight <- Running
AdmissionSpec == Admission!AbsSpec
=============================================================================
