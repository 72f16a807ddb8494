------------------------------- MODULE LlmCalls -------------------------------
(***************************************************************************)
(* Provider calls with retry and fallback (src/llm.py), on top of the      *)
(* admission control of src/groq_limits.py.                                *)
(*                                                                         *)
(* A caller is a coroutine in call_llm or call_structured.  It tries its   *)
(* first model, retries it once after some errors, and then tries its      *)
(* second model the same way.  Every try goes through the limiter's run(): *)
(* it waits for a slot of the model, makes the provider call and gives the *)
(* slot back, before it sleeps, retries or falls back.  Of the limiter     *)
(* only the slots and the deadline of the wait are kept: why a wait ends   *)
(* in GroqLimitError is the subject of GroqLimiter.  Time is discrete.     *)
(***************************************************************************)
EXTENDS Naturals, Sequences, FiniteSets

CONSTANTS
  Callers,
  Structured,    \* the callers in call_structured, the others are in call_llm
  Models,
  ModelsOf,      \* _distinct_models: the primary and perhaps a fallback
  Concurrency,   \* slots per model
  MaxQueueWait,  \* groq_max_queue_wait_seconds
  CallTimeout,   \* RoleConfig.timeout
  MaxDelay,      \* the 30 in min(30.0, retry_after)
  Backoff,       \* the 0.25 without Retry-After, jitter included
  RetryAfters    \* what a 429 response may ask for, above MaxDelay as well

ASSUME CallsAssumption ==
  /\ Structured \subseteq Callers
  /\ ModelsOf \in [Callers -> Seq(Models)]
  /\ \A c \in Callers : Len(ModelsOf[c]) \in {1, 2}
  /\ {Concurrency, MaxQueueWait, CallTimeout, MaxDelay, Backoff} \subseteq Nat
  /\ Backoff <= MaxDelay
  /\ RetryAfters \subseteq Nat

VARIABLES
  pc,       \* where each caller is
  attempt,  \* index of the model it tries
  retry,    \* the loop variable of _invoke_model
  timer,    \* time left to wait, to call or to sleep
  holders,  \* per model: the callers that hold a slot
  \* history of the caller's present invocation
  calls,    \* provider calls made to each model of the caller
  refused,  \* the provider answered 400, 401 or 403
  asked,    \* time left of the last Retry-After of the present model, up to the cap
  elapsed   \* time since it started

callerVars == <<pc, attempt, retry, timer>>
history == <<calls, refused, asked, elapsed>>
vars == <<callerVars, holders, history>>

\* How a provider call fails: 429, timeout, 5xx, 400/401/403, anything else of
\* the provider.
Errors == {"rate_limit", "timeout", "server", "refused", "other"}

\* An invocation cannot take longer: two models, each waited for, called,
\* slept for, waited for and called again.
Longest == 4 * (MaxQueueWait + CallTimeout) + 2 * MaxDelay

TypeOK ==
  /\ pc \in [Callers -> {"idle", "waiting", "calling", "sleeping"}]
  /\ attempt \in [Callers -> {1, 2}]
  /\ retry \in [Callers -> {0, 1}]
  /\ timer \in [Callers -> Nat]
  /\ holders \in [Models -> SUBSET Callers]
  /\ calls \in [Callers -> [{1, 2} -> Nat]]
  /\ refused \in [Callers -> BOOLEAN]
  /\ asked \in [Callers -> Nat]
  /\ elapsed \in [Callers -> Nat]

Init ==
  /\ pc = [c \in Callers |-> "idle"]
  /\ attempt = [c \in Callers |-> 1]
  /\ retry = [c \in Callers |-> 0]
  /\ timer = [c \in Callers |-> 0]
  /\ holders = [m \in Models |-> {}]
  /\ calls = [c \in Callers |-> [a \in {1, 2} |-> 0]]
  /\ refused = [c \in Callers |-> FALSE]
  /\ asked = [c \in Callers |-> 0]
  /\ elapsed = [c \in Callers |-> 0]

Model(c) == ModelsOf[c][attempt[c]]
Least(m, n) == IF m < n THEN m ELSE n

\* A counter of the history stops one above the bound a property puts on it.
Counted(n, bound) == IF n <= bound THEN n + 1 ELSE n
-----------------------------------------------------------------------------
(* call_llm, call_structured *)

Move(c, label, time) ==
  /\ pc' = [pc EXCEPT ![c] = label]
  /\ timer' = [timer EXCEPT ![c] = time]

\* limiter.run() of the n-th model, retry r.
TryModel(c, n, r) ==
  /\ Move(c, "waiting", MaxQueueWait)
  /\ attempt' = [attempt EXCEPT ![c] = n]
  /\ retry' = [retry EXCEPT ![c] = r]

Invoke(c) ==
  /\ pc[c] = "idle"
  /\ TryModel(c, 1, 0)
  /\ calls' = [calls EXCEPT ![c] = [a \in {1, 2} |-> 0]]
  /\ refused' = [refused EXCEPT ![c] = FALSE]
  /\ asked' = [asked EXCEPT ![c] = 0]
  /\ elapsed' = [elapsed EXCEPT ![c] = 0]
  /\ UNCHANGED holders

\* The invocation is over, with a result or an exception.
Return(c) == Move(c, "idle", 0) /\ UNCHANGED <<attempt, retry>>

\* Mutant of CanFallback: a refused prompt is sent to the other model.
CanFallbackAlways(error) == TRUE

CanFallback(error) == error # "refused"

\* Falls back once, or raises.
GiveUp(c, error) ==
  IF attempt[c] = 1 /\ CanFallback(error) /\ Len(ModelsOf[c]) = 2
    THEN TryModel(c, 2, 0) /\ asked' = [asked EXCEPT ![c] = 0]
    ELSE Return(c) /\ UNCHANGED asked

\* The finally block of run().
GiveBack(c) == holders' = [holders EXCEPT ![Model(c)] = @ \ {c}]
-----------------------------------------------------------------------------
(* _invoke_model *)

HasSlot(m) == Cardinality(holders[m]) < Concurrency

\* A slot is free: the provider call starts.
Admit(c) ==
  /\ pc[c] = "waiting" /\ timer[c] > 0
  /\ HasSlot(Model(c))
  /\ holders' = [holders EXCEPT ![Model(c)] = @ \cup {c}]
  /\ Move(c, "calling", CallTimeout)
  /\ calls' = [calls EXCEPT ![c][attempt[c]] = Counted(@, 2)]
  /\ UNCHANGED <<attempt, retry, refused, asked, elapsed>>

\* Mutant of LimitError: the deadline of the wait raises nothing.
LimitErrorWithoutDeadline(c) ==
  /\ pc[c] = "waiting" /\ timer[c] > 0
  /\ GiveUp(c, "rate_limit")
  /\ UNCHANGED <<holders, calls, refused, elapsed>>

\* GroqLimitError, raised as a 429 that is not retried: the queue is full, the
\* deadline passed or Redis is unavailable.
LimitError(c) ==
  /\ pc[c] = "waiting"
  /\ GiveUp(c, "rate_limit")
  /\ UNCHANGED <<holders, calls, refused, elapsed>>

Succeed(c) ==
  /\ pc[c] = "calling"
  /\ Return(c)
  /\ GiveBack(c)
  /\ UNCHANGED history

\* Mutant of ShouldRetry: the loop variable does not end the loop.
ShouldRetryEndless(c, error) == error \in {"rate_limit", "timeout", "server"}

ShouldRetry(c, error) ==
  retry[c] = 0 /\ error \in {"rate_limit", "timeout", "server"}

\* Mutant of Delay: Retry-After is not looked at.
DelayOfBackoff(error, after) == Backoff

\* Mutant of Delay: Retry-After is not capped.
DelayUncapped(error, after) ==
  IF error = "rate_limit" /\ after > 0 THEN after ELSE Backoff

\* Time to sleep; after = 0 stands for a response without Retry-After.
Delay(error, after) == Least(MaxDelay, DelayUncapped(error, after))

\* Mutant of SleepBeforeRetry: the slot is kept for the retry.
SleepWithSlot(c, error, after) ==
  /\ Move(c, "sleeping", Delay(error, after))
  /\ asked' = [asked EXCEPT ![c] = Least(MaxDelay, after)]
  /\ UNCHANGED <<attempt, retry, holders>>

\* The status "retrying" is set, then asyncio.sleep.
SleepBeforeRetry(c, error, after) ==
  /\ Move(c, "sleeping", Delay(error, after))
  /\ asked' = [asked EXCEPT ![c] = Least(MaxDelay, after)]
  /\ GiveBack(c)
  /\ UNCHANGED <<attempt, retry>>

\* The provider call fails with an error of the provider.
Fail(c, error, after) ==
  /\ pc[c] = "calling"
  /\ after > 0 => error = "rate_limit"
  /\ refused' = IF error = "refused" THEN [refused EXCEPT ![c] = TRUE] ELSE refused
  /\ IF ShouldRetry(c, error)
       THEN SleepBeforeRetry(c, error, after)
       ELSE GiveUp(c, error) /\ GiveBack(c)
  /\ UNCHANGED <<calls, elapsed>>

\* Any other exception: call_structured falls back, call_llm lets it through.
Raise(c) ==
  /\ pc[c] = "calling"
  /\ IF c \in Structured THEN GiveUp(c, "other") ELSE Return(c) /\ UNCHANGED asked
  /\ GiveBack(c)
  /\ UNCHANGED <<calls, refused, elapsed>>

Retry(c) ==
  /\ pc[c] = "sleeping" /\ timer[c] = 0
  /\ TryModel(c, attempt[c], 1)
  /\ UNCHANGED <<holders, history>>

\* The stream the caller works for is closed.
Cancel(c) ==
  /\ pc[c] # "idle"
  /\ Return(c)
  /\ GiveBack(c)
  /\ UNCHANGED history
-----------------------------------------------------------------------------
Down(n) == IF n > 0 THEN n - 1 ELSE 0

\* Time passes.  A wait, a call and a sleep last no longer than their timer.
Tick ==
  /\ \A c \in Callers : pc[c] # "idle" => timer[c] > 0
  /\ timer' = [c \in Callers |-> Down(timer[c])]
  /\ asked' = [c \in Callers |-> Down(asked[c])]
  /\ elapsed' = [c \in Callers |-> IF pc[c] = "idle" THEN 0
                                            ELSE Counted(elapsed[c], Longest)]
  /\ UNCHANGED <<pc, attempt, retry, holders, calls, refused>>

Step(c) ==
  \/ Admit(c) \/ LimitError(c) \/ Succeed(c) \/ Raise(c) \/ Retry(c)
  \/ \E error \in Errors, after \in RetryAfters \cup {0} : Fail(c, error, after)

Next == Tick \/ \E c \in Callers : Invoke(c) \/ Step(c) \/ Cancel(c)

Spec == Init /\ [][Next]_vars

\* Every wait, call and sleep ends by its timer, and time passes.
FairSpec == Spec /\ WF_vars(Tick) /\ \A c \in Callers : WF_vars(Step(c))
-----------------------------------------------------------------------------
(* Properties *)

\* Slots back provider calls, nothing else: a caller that sleeps, retries or
\* falls back holds no slot of any model, so callers whose models form a cycle
\* cannot starve one another.
SlotsBackCalls ==
  \A m \in Models : holders[m] = {c \in Callers : pc[c] = "calling" /\ Model(c) = m}

\* Every model is called twice at most.
CallsBounded == \A c \in Callers, a \in {1, 2} : calls[c][a] <= 2

\* A prompt the provider refused (400, 401, 403) is not sent again, to no model.
RefusedIsFinal == \A c \in Callers : refused[c] => pc[c] = "idle"

\* A retry does not start before the Retry-After of the model has passed, or
\* the MaxDelay a longer one is cut to.  README.md:1270 names no such cap.
RespectsRetryAfter ==
  [][\A c \in Callers : pc[c] = "waiting" /\ pc'[c] = "calling" => asked[c] = 0]_vars

\* An invocation takes no longer than all its waits, calls and sleeps.
InTime == \A c \in Callers : elapsed[c] <= Longest

\* Every invocation returns.
CallReturns == \A c \in Callers : pc[c] # "idle" ~> pc[c] = "idle"
=============================================================================
