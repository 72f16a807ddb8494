---------------------------- MODULE LlmCallsProofs ----------------------------
(***************************************************************************)
(* Proofs about LlmCalls, for every number of callers and models and every *)
(* timeout.                                                                *)
(*                                                                         *)
(* CallsBounded, InTime and RefusedIsFinal are not inductive: CallerInv    *)
(* ties the calls made and the time spent by a caller to the place it has  *)
(* reached in the two nested loops.                                        *)
(***************************************************************************)
EXTENDS LlmCalls, TLAPS

\* The time a caller may have spent before it starts try r of model a.
Spent(a, r) ==
  (IF a = 2 THEN 2 * (MaxQueueWait + CallTimeout) + MaxDelay ELSE 0)
    + (IF r = 1 THEN MaxQueueWait + CallTimeout + MaxDelay ELSE 0)

\* What a caller may have used up when it is at label.
Allowance(label, a, r) ==
  CASE label = "waiting" -> Spent(a, r) + MaxQueueWait
    [] label = "calling" -> Spent(a, r) + MaxQueueWait + CallTimeout
    [] label = "sleeping" -> Spent(a, r) + MaxQueueWait + CallTimeout + MaxDelay
    [] OTHER -> Longest

CallsMade(c) ==
  /\ calls[c][1] <= 2 /\ calls[c][2] <= 2
  /\ attempt[c] = 1 => calls[c][2] = 0
  /\ pc[c] = "waiting" => calls[c][attempt[c]] <= retry[c]
  /\ pc[c] = "calling" => calls[c][attempt[c]] <= retry[c] + 1
  /\ pc[c] = "sleeping" => retry[c] = 0 /\ calls[c][attempt[c]] <= 1

TimeSpent(c) == elapsed[c] + timer[c] <= Allowance(pc[c], attempt[c], retry[c])

Answers(c) ==
  /\ attempt[c] = 2 => Len(ModelsOf[c]) = 2
  /\ refused[c] => pc[c] = "idle"

IInv ==
  /\ TypeOK /\ SlotsBackCalls
  /\ \A c \in Callers : CallsMade(c) /\ TimeSpent(c) /\ Answers(c)

-----------------------------------------------------------------------------
\* _distinct_models: the model a caller tries is one of the models.
LEMMA ModelType ==
  ASSUME CallsAssumption, TypeOK, NEW c \in Callers, Answers(c)
  PROVE  Model(c) \in Models
BY DEF CallsAssumption, TypeOK, Answers, Model

\* The numeric assumptions, in a form the provers use directly.
LEMMA Numbers ==
  /\ Concurrency \in Nat /\ MaxQueueWait \in Nat /\ CallTimeout \in Nat
  /\ MaxDelay \in Nat /\ Backoff \in Nat /\ Backoff <= MaxDelay
  /\ Longest \in Nat
  /\ \A after \in RetryAfters \cup {0} : after \in Nat
  /\ \A c \in Callers : Len(ModelsOf[c]) \in {1, 2}
BY CallsAssumption DEF CallsAssumption, Longest

\* The sleep before a retry is a number and capped.
LEMMA DelayType ==
  ASSUME NEW error, NEW after \in RetryAfters \cup {0}
  PROVE  Delay(error, after) \in Nat /\ Delay(error, after) <= MaxDelay
BY Numbers DEF Delay, DelayUncapped, Least

\* A slot given back leaves every model without the caller.
LEMMA SlotGivenBack ==
  ASSUME IInv, NEW c \in Callers, pc[c] = "calling", GiveBack(c)
  PROVE  holders' = [m \in Models |-> holders[m] \ {c}]
BY CallsAssumption, ModelType DEF IInv, TypeOK, SlotsBackCalls, GiveBack

\* Leaving a model for the next one, or for good, keeps the invariant.
LEMMA GiveUpStep ==
  ASSUME IInv, NEW c \in Callers, pc[c] \in {"waiting", "calling"},
         NEW error, GiveUp(c, error),
         UNCHANGED <<calls, elapsed>>,
         refused' = IF error = "refused" THEN [refused EXCEPT ![c] = TRUE] ELSE refused,
         holders' = [m \in Models |-> holders[m] \ {c}]
  PROVE  IInv'
<1> USE Numbers DEF IInv
<1>1. CASE error # "refused" /\ attempt[c] = 1 /\ Len(ModelsOf[c]) = 2
  <2> /\ TryModel(c, 2, 0) /\ asked' = [asked EXCEPT ![c] = 0]
      /\ UNCHANGED refused
    BY <1>1 DEF GiveUp, CanFallback
  <2>1. TypeOK'
    BY <1>1 DEF TypeOK, TryModel, Move
  <2>2. SlotsBackCalls'
    BY <1>1 DEF TypeOK, SlotsBackCalls, Model, TryModel, Move
  <2>3. \A d \in Callers : CallsMade(d)'
    BY <1>1 DEF TypeOK, CallsMade, TryModel, Move
  <2>4. \A d \in Callers : TimeSpent(d)'
    BY <1>1 DEF TypeOK, TimeSpent, CallsMade, Allowance, Spent, Longest, TryModel, Move
  <2>5. \A d \in Callers : Answers(d)'
    <3>1. ~refused[c]
      BY DEF Answers
    <3>2. ASSUME NEW d \in Callers, d # c PROVE Answers(d)'
      BY <3>2 DEF TypeOK, Answers, TryModel, Move
    <3>3. attempt'[c] = 2 /\ refused' = refused
      BY DEF TypeOK, TryModel
    <3>4. Answers(c)'
      BY <1>1, <3>1, <3>3 DEF Answers
    <3> QED
      BY <3>2, <3>4
  <2> QED
    BY <2>1, <2>2, <2>3, <2>4, <2>5
<1>2. CASE ~(error # "refused" /\ attempt[c] = 1 /\ Len(ModelsOf[c]) = 2)
  <2> Return(c) /\ UNCHANGED asked
    BY <1>2 DEF GiveUp, CanFallback
  <2>1. TypeOK'
    BY <1>2 DEF TypeOK, Return, Move
  <2>2. SlotsBackCalls'
    BY <1>2 DEF TypeOK, SlotsBackCalls, Model, Return, Move
  <2>3. \A d \in Callers : CallsMade(d)'
    BY <1>2 DEF TypeOK, CallsMade, Return, Move
  <2>4. \A d \in Callers : TimeSpent(d)'
    BY <1>2 DEF TypeOK, TimeSpent, CallsMade, Allowance, Spent, Longest, Return, Move
  <2>5. \A d \in Callers : Answers(d)'
    BY <1>2 DEF TypeOK, Answers, Return, Move
  <2> QED
    BY <2>1, <2>2, <2>3, <2>4, <2>5
<1> QED
  BY <1>1, <1>2

\* The step theorem, action by action.
LEMMA InvariantStep ==
  ASSUME IInv, [Next]_vars
  PROVE  IInv'
<1> USE Numbers DEF IInv
<1>1. \A c \in Callers : Model(c) \in Models
  BY CallsAssumption, ModelType
<1>2. ASSUME NEW c \in Callers, Invoke(c) PROVE IInv'
  <2>1. TypeOK'
    BY <1>2, <1>1 DEF TypeOK, Invoke, TryModel, Move, Counted
  <2>2. SlotsBackCalls'
    BY <1>2, <1>1 DEF TypeOK, SlotsBackCalls, Model, Invoke, TryModel, Move
  <2>3. \A d \in Callers : CallsMade(d)'
    BY <1>2, <1>1 DEF TypeOK, CallsMade, Invoke, TryModel, Move, Counted
  <2>4. \A d \in Callers : TimeSpent(d)'
    BY <1>2, <1>1 DEF TypeOK, TimeSpent, CallsMade, Allowance, Spent, Longest, Invoke, TryModel, Move, Counted
  <2>5. \A d \in Callers : Answers(d)'
    BY <1>2, <1>1 DEF TypeOK, Answers, Invoke, TryModel, Move
  <2> QED
    BY <2>1, <2>2, <2>3, <2>4, <2>5
<1>3. ASSUME NEW c \in Callers, Admit(c) PROVE IInv'
  <2>1. TypeOK'
    BY <1>3, <1>1 DEF TypeOK, Admit, Move, Counted
  <2>2. SlotsBackCalls'
    BY <1>3, <1>1 DEF TypeOK, SlotsBackCalls, Model, Admit, Move
  <2>3. \A d \in Callers : CallsMade(d)'
    BY <1>3, <1>1 DEF TypeOK, CallsMade, Admit, Move, Counted
  <2>4. \A d \in Callers : TimeSpent(d)'
    BY <1>3, <1>1 DEF TypeOK, TimeSpent, CallsMade, Allowance, Spent, Longest, Admit, Move, Counted
  <2>5. \A d \in Callers : Answers(d)'
    BY <1>3, <1>1 DEF TypeOK, Answers, Admit, Move
  <2> QED
    BY <2>1, <2>2, <2>3, <2>4, <2>5
<1>4. ASSUME NEW c \in Callers, LimitError(c) PROVE IInv'
  <2>1. holders' = [m \in Models |-> holders[m] \ {c}]
    BY <1>4 DEF LimitError, TypeOK, SlotsBackCalls
  <2> QED
    BY <1>4, <2>1, GiveUpStep DEF LimitError
<1>5. ASSUME NEW c \in Callers, Succeed(c) PROVE IInv'
  <2>1. TypeOK'
    BY <1>5, <1>1 DEF TypeOK, Succeed, Return, Move, GiveBack, history, Counted
  <2>2. SlotsBackCalls'
    BY <1>5, <1>1 DEF TypeOK, SlotsBackCalls, Model, Succeed, Return, Move, GiveBack, history
  <2>3. \A d \in Callers : CallsMade(d)'
    BY <1>5, <1>1 DEF TypeOK, CallsMade, Succeed, Return, Move, GiveBack, history, Counted
  <2>4. \A d \in Callers : TimeSpent(d)'
    BY <1>5, <1>1 DEF TypeOK, TimeSpent, CallsMade, Allowance, Spent, Longest, Succeed, Return, Move, GiveBack, history, Counted
  <2>5. \A d \in Callers : Answers(d)'
    BY <1>5, <1>1 DEF TypeOK, Answers, Succeed, Return, Move, GiveBack, history
  <2> QED
    BY <2>1, <2>2, <2>3, <2>4, <2>5
<1>6. ASSUME NEW c \in Callers, Raise(c) PROVE IInv'
  <2>1. CASE c \notin Structured
    <3>1. TypeOK'
      BY <1>6, <2>1, <1>1 DEF TypeOK, Raise, Return, Move, GiveBack, Counted
    <3>2. SlotsBackCalls'
      BY <1>6, <2>1, <1>1 DEF TypeOK, SlotsBackCalls, Model, Raise, Return, Move, GiveBack
    <3>3. \A d \in Callers : CallsMade(d)'
      BY <1>6, <2>1, <1>1 DEF TypeOK, CallsMade, Raise, Return, Move, GiveBack, Counted
    <3>4. \A d \in Callers : TimeSpent(d)'
      BY <1>6, <2>1, <1>1 DEF TypeOK, TimeSpent, CallsMade, Allowance, Spent, Longest, Raise, Return, Move, GiveBack, Counted
    <3>5. \A d \in Callers : Answers(d)'
      BY <1>6, <2>1, <1>1 DEF TypeOK, Answers, Raise, Return, Move, GiveBack
    <3> QED
      BY <3>1, <3>2, <3>3, <3>4, <3>5
  <2>2. CASE c \in Structured
    BY <1>6, <2>2, SlotGivenBack, GiveUpStep DEF Raise
  <2> QED
    BY <2>1, <2>2
<1>7. ASSUME NEW c \in Callers, Retry(c) PROVE IInv'
  <2>1. TypeOK'
    BY <1>7, <1>1 DEF TypeOK, Retry, TryModel, Move, history, Counted
  <2>2. SlotsBackCalls'
    BY <1>7, <1>1 DEF TypeOK, SlotsBackCalls, Model, Retry, TryModel, Move, history
  <2>3. \A d \in Callers : CallsMade(d)'
    BY <1>7, <1>1 DEF TypeOK, CallsMade, Retry, TryModel, Move, history, Counted
  <2>4. \A d \in Callers : TimeSpent(d)'
    BY <1>7, <1>1 DEF TypeOK, TimeSpent, CallsMade, Allowance, Spent, Longest, Retry, TryModel, Move, history, Counted
  <2>5. \A d \in Callers : Answers(d)'
    BY <1>7, <1>1 DEF TypeOK, Answers, Retry, TryModel, Move, history
  <2> QED
    BY <2>1, <2>2, <2>3, <2>4, <2>5
<1>8. ASSUME NEW c \in Callers, Cancel(c) PROVE IInv'
  <2>1. TypeOK'
    BY <1>8, <1>1 DEF TypeOK, Cancel, Return, Move, GiveBack, history, Counted
  <2>2. SlotsBackCalls'
    BY <1>8, <1>1 DEF TypeOK, SlotsBackCalls, Model, Cancel, Return, Move, GiveBack, history
  <2>3. \A d \in Callers : CallsMade(d)'
    BY <1>8, <1>1 DEF TypeOK, CallsMade, Cancel, Return, Move, GiveBack, history, Counted
  <2>4. \A d \in Callers : TimeSpent(d)'
    BY <1>8, <1>1 DEF TypeOK, TimeSpent, CallsMade, Allowance, Spent, Longest, Cancel, Return, Move, GiveBack, history, Counted
  <2>5. \A d \in Callers : Answers(d)'
    BY <1>8, <1>1 DEF TypeOK, Answers, Cancel, Return, Move, GiveBack, history
  <2> QED
    BY <2>1, <2>2, <2>3, <2>4, <2>5
<1>9. ASSUME NEW c \in Callers, NEW error \in Errors, NEW after \in RetryAfters \cup {0},
              Fail(c, error, after), ShouldRetry(c, error)
      PROVE  IInv'
  <2>1. TypeOK'
    <3>1. /\ SleepBeforeRetry(c, error, after)
          /\ UNCHANGED <<refused, calls, elapsed>>
      BY <1>9 DEF Fail, ShouldRetry
    <3>2. Delay(error, after) \in Nat /\ Least(MaxDelay, after) \in Nat
      BY DelayType, Numbers DEF Least
    <3> QED
      BY <3>1, <3>2, <1>1 DEF TypeOK, SleepBeforeRetry, Move, GiveBack
  <2>2. SlotsBackCalls'
    BY <1>9, <1>1, DelayType DEF TypeOK, SlotsBackCalls, Model, Fail, ShouldRetry, SleepBeforeRetry, Move, GiveBack, Errors
  <2>3. \A d \in Callers : CallsMade(d)'
    BY <1>9, <1>1, DelayType DEF TypeOK, CallsMade, Fail, ShouldRetry, SleepBeforeRetry, Move, GiveBack, Errors, Counted
  <2>4. \A d \in Callers : TimeSpent(d)'
    BY <1>9, <1>1, DelayType DEF TypeOK, TimeSpent, CallsMade, Allowance, Spent, Longest, Fail, ShouldRetry, SleepBeforeRetry, Move, GiveBack, Errors, Counted
  <2>5. \A d \in Callers : Answers(d)'
    BY <1>9, <1>1, DelayType DEF TypeOK, Answers, Fail, ShouldRetry, SleepBeforeRetry, Move, GiveBack, Errors
  <2> QED
    BY <2>1, <2>2, <2>3, <2>4, <2>5
<1>10. ASSUME NEW c \in Callers, NEW error \in Errors, NEW after \in RetryAfters \cup {0},
              Fail(c, error, after), ~ShouldRetry(c, error)
      PROVE  IInv'
  BY <1>10, SlotGivenBack, GiveUpStep DEF Fail
<1>11. CASE Tick
  <2>1. TypeOK'
    BY <1>11, <1>1 DEF TypeOK, Tick, Down, Counted
  <2>2. SlotsBackCalls'
    BY <1>11, <1>1 DEF TypeOK, SlotsBackCalls, Model, Tick, Down
  <2>3. \A d \in Callers : CallsMade(d)'
    BY <1>11, <1>1 DEF TypeOK, CallsMade, Tick, Down, Counted
  <2>4. \A d \in Callers : TimeSpent(d)'
    BY <1>11, <1>1 DEF TypeOK, TimeSpent, CallsMade, Allowance, Spent, Longest, Tick, Down, Counted
  <2>5. \A d \in Callers : Answers(d)'
    BY <1>11, <1>1 DEF TypeOK, Answers, Tick, Down
  <2> QED
    BY <2>1, <2>2, <2>3, <2>4, <2>5
<1>12. CASE UNCHANGED vars
  <2>1. TypeOK'
    BY <1>12, <1>1 DEF TypeOK, vars, callerVars, history, Counted
  <2>2. SlotsBackCalls'
    BY <1>12, <1>1 DEF TypeOK, SlotsBackCalls, Model, vars, callerVars, history
  <2>3. \A d \in Callers : CallsMade(d)'
    BY <1>12, <1>1 DEF TypeOK, CallsMade, vars, callerVars, history, Counted
  <2>4. \A d \in Callers : TimeSpent(d)'
    BY <1>12, <1>1 DEF TypeOK, TimeSpent, CallsMade, Allowance, Spent, Longest, vars, callerVars, history, Counted
  <2>5. \A d \in Callers : Answers(d)'
    BY <1>12, <1>1 DEF TypeOK, Answers, vars, callerVars, history
  <2> QED
    BY <2>1, <2>2, <2>3, <2>4, <2>5
<1> QED
  BY <1>2, <1>3, <1>4, <1>5, <1>6, <1>7, <1>8, <1>9, <1>10, <1>11, <1>12 DEF Next, Step

LEMMA InvariantInit == Init => IInv
<1> SUFFICES ASSUME Init PROVE IInv
  OBVIOUS
<1> USE Numbers DEF Init
<1>1. TypeOK /\ SlotsBackCalls
  BY DEF TypeOK, SlotsBackCalls
<1>2. ASSUME NEW c \in Callers PROVE CallsMade(c) /\ Answers(c)
  <2>1. CallsMade(c)
    BY DEF CallsMade
  <2>2. attempt[c] = 1
    OBVIOUS
  <2>3. pc[c] = "idle"
    OBVIOUS
  <2> QED
    BY <2>1, <2>2, <2>3 DEF Answers
<1>3. ASSUME NEW c \in Callers PROVE TimeSpent(c)
  BY DEF TimeSpent, Allowance
<1> QED
  BY <1>1, <1>2, <1>3 DEF IInv

THEOREM Invariant == Spec => []IInv
  BY InvariantInit, InvariantStep, PTL DEF Spec

\* The variables of the retry loops keep their types.
THEOREM TypeCorrect == Spec => []TypeOK
  BY Invariant, PTL DEF IInv

\* Slots are held by provider calls only: no caller sleeps, retries or falls
\* back with a slot in its hands.
THEOREM SlotsOnlyForCalls == Spec => []SlotsBackCalls
  BY Invariant, PTL DEF IInv

\* At most two provider calls per model and invocation.
THEOREM CallsBound == Spec => []CallsBounded
<1>1. IInv => CallsBounded
  BY DEF IInv, CallsMade, CallsBounded
<1> QED
  BY <1>1, Invariant, PTL

\* A refused prompt ends the invocation.
THEOREM RefusalFinal == Spec => []RefusedIsFinal
<1>1. IInv => RefusedIsFinal
  BY DEF IInv, Answers, RefusedIsFinal
<1> QED
  BY <1>1, Invariant, PTL

\* An invocation is over after Longest time units.
THEOREM TimeBound == Spec => []InTime
<1>1. ASSUME IInv, NEW c \in Callers PROVE elapsed[c] <= Longest
  <2>1. /\ elapsed[c] \in Nat /\ timer[c] \in Nat
        /\ attempt[c] \in {1, 2} /\ retry[c] \in {0, 1}
        /\ pc[c] \in {"idle", "waiting", "calling", "sleeping"}
        /\ pc[c] = "sleeping" => retry[c] = 0
    BY <1>1 DEF IInv, TypeOK, CallsMade
  <2>2. Allowance(pc[c], attempt[c], retry[c]) <= Longest
    BY <2>1, Numbers DEF Allowance, Spent, Longest
  <2>3. Allowance(pc[c], attempt[c], retry[c]) \in Nat
    BY <2>1, Numbers DEF Allowance, Spent
  <2>4. elapsed[c] + timer[c] <= Allowance(pc[c], attempt[c], retry[c])
    BY <1>1 DEF IInv, TimeSpent
  <2> QED
    BY <2>1, <2>2, <2>3, <2>4, Numbers
<1>2. IInv => InTime
  BY <1>1 DEF InTime
<1> QED
  BY <1>2, Invariant, PTL
-----------------------------------------------------------------------------
\* A caller at a model has waited for the last Retry-After of that model, up to the cap, and a
\* sleeping caller sleeps for as long.
Waited ==
  \A c \in Callers :
    /\ pc[c] \in {"waiting", "calling"} => asked[c] = 0
    /\ pc[c] = "sleeping" => asked[c] <= timer[c]

LEMMA WaitedStep ==
  ASSUME IInv, Waited, [Next]_vars
  PROVE  Waited'
<1> USE Numbers DEF IInv, TypeOK, Waited
<1>1. ASSUME NEW c \in Callers, Invoke(c) PROVE Waited'
  BY <1>1 DEF Invoke, TryModel, Move
<1>2. ASSUME NEW c \in Callers, Admit(c) PROVE Waited'
  BY <1>2 DEF Admit, Move
<1>3. ASSUME NEW c \in Callers, LimitError(c) PROVE Waited'
  BY <1>3 DEF LimitError, GiveUp, TryModel, Return, Move
<1>4. ASSUME NEW c \in Callers, Succeed(c) PROVE Waited'
  BY <1>4 DEF Succeed, Return, Move, history
<1>5. ASSUME NEW c \in Callers, Raise(c) PROVE Waited'
  BY <1>5 DEF Raise, GiveUp, TryModel, Return, Move
<1>6. ASSUME NEW c \in Callers, Retry(c) PROVE Waited'
  BY <1>6 DEF Retry, TryModel, Move, history
<1>7. ASSUME NEW c \in Callers, Cancel(c) PROVE Waited'
  BY <1>7 DEF Cancel, Return, Move, history
<1>8. ASSUME NEW c \in Callers, NEW error \in Errors, NEW after \in RetryAfters \cup {0},
             Fail(c, error, after)
      PROVE  Waited'
  <2>1. CASE ShouldRetry(c, error)
    <3>1. after \in Nat /\ (after > 0 => error = "rate_limit")
      BY <1>8 DEF Fail
    <3>2. /\ Least(MaxDelay, after) <= Delay(error, after) /\ Delay(error, after) \in Nat
          /\ Least(MaxDelay, after) \in Nat
      <4>1. CASE after > 0
        BY <3>1, <4>1 DEF Delay, DelayUncapped, Least
      <4>2. CASE after = 0
        BY <3>1, <4>2 DEF Delay, DelayUncapped, Least
      <4>. QED
        BY <3>1, <4>1, <4>2
    <3> QED
      BY <1>8, <2>1, <3>2 DEF Fail, SleepBeforeRetry, Move
  <2>2. CASE ~ShouldRetry(c, error)
    BY <1>8, <2>2 DEF Fail, GiveUp, TryModel, Return, Move
  <2> QED
    BY <2>1, <2>2
<1>9. CASE Tick
  BY <1>9 DEF Tick, Down
<1>10. CASE UNCHANGED vars
  BY <1>10 DEF vars, callerVars, history
<1> QED
  BY <1>1, <1>2, <1>3, <1>4, <1>5, <1>6, <1>7, <1>8, <1>9, <1>10 DEF Next, Step

\* Whatever a provider asks for, no retry starts before the Retry-After or, when that is
\* longer, the cap of the delay has passed.
THEOREM RetryAfterRespected == Spec => RespectsRetryAfter
<1>1. Init => Waited
  BY DEF Init, Waited
<1>2. Waited => \A c \in Callers : pc[c] = "waiting" => asked[c] = 0
  BY DEF Waited
<1>3. Waited /\ [Next]_vars
        => [\A c \in Callers : pc[c] = "waiting" /\ pc'[c] = "calling" => asked[c] = 0]_vars
  BY <1>2
<1>4. IInv /\ Waited /\ [Next]_vars => Waited'
  BY WaitedStep
<1> QED
  BY <1>1, <1>3, <1>4, Invariant, PTL DEF Spec, RespectsRetryAfter
=============================================================================
