-------------------------- MODULE GroqLimiterProofs --------------------------
(***************************************************************************)
(* The two limits of GroqLimiter hold for any number of callers, replicas, *)
(* clock differences, faults and limit values, a lost slot runs out, and   *)
(* run() implements the abstract AdmissionControl.  Assumed:               *)
(* LeaseAssumption, that a provider call ends before another replica's     *)
(* clock sees its lease expire.                                            *)
(***************************************************************************)
EXTENDS GroqLimiter, FiniteSetTheorems, TLAPS

\* The numeric assumptions one by one, in a form the provers use directly.
LEMMA Limits ==
  /\ IsFiniteSet(Callers) /\ IsFiniteSet(Slots) /\ NoSlot \notin Slots
  /\ \A cost \in Costs : cost \in Nat /\ cost > 0
  /\ Concurrency \in Nat /\ RequestLimit \in Nat /\ TokenLimit \in Nat
  /\ MaxQueueDepth \in Nat /\ MaxQueueWait \in Nat /\ QueueGrace \in Nat
  /\ LeaseMargin \in Nat /\ OpTimeout \in Nat /\ MaxFaults \in Nat
  /\ Window \in Nat /\ Window > 0
  /\ Lease \in Nat /\ QueueTtl \in Nat
  /\ Skew \in [Callers -> Nat]
  BY LimitsAssumption, LeaseAssumption, WindowAssumption DEF Lease, QueueTtl

\* A log entry stays a log entry when a call is recorded or time passes.
LEMMA LogType ==
  ASSUME NEW log \in SUBSET LogEntry
  PROVE  /\ \A cost \in Costs : Record(log, cost) \subseteq LogEntry
         /\ Elapse(log) \subseteq LogEntry
<1>1. ASSUME NEW cost \in Costs
      PROVE  Record(log, cost) \subseteq LogEntry
  <2>1. [age |-> 0, requests |-> 1, tokens |-> cost] \in LogEntry
    BY Limits DEF LogEntry
  <2>2. ASSUME NEW a \in log
        PROVE  [a EXCEPT !.requests = @ + 1, !.tokens = @ + cost] \in LogEntry
    <3>1. /\ a \in [age : 0 .. (Window - 1), requests : Nat \ {0}, tokens : Nat]
          /\ a.requests + 1 \in Nat \ {0} /\ a.tokens + cost \in Nat
      BY Limits DEF LogEntry
    <3> QED
      BY <3>1, Zenon DEF LogEntry
  <2> QED
    BY <2>1, <2>2 DEF Record
<1>2. Elapse(log) \subseteq LogEntry
  <2>1. ASSUME NEW a \in log, a.age + 1 < Window
        PROVE  [a EXCEPT !.age = @ + 1] \in LogEntry
    BY <2>1, Limits DEF LogEntry
  <2> QED
    BY <2>1 DEF Elapse
<1> QED
  BY <1>1, <1>2

\* Purging keeps the shape of the zset and only removes slots.
LEMMA PurgedType ==
  ASSUME TypeOK, NEW c \in Callers
  PROVE  /\ Purged(c) \in [Slots -> Nat]
         /\ Held(Purged(c)) \subseteq Held(lease)
  BY Limits DEF TypeOK, Purged, Held

\* Leases of fewer slots, or fewer leases left, never exceed the old bound.
LEMMA FewerLeases ==
  ASSUME NEW old, NEW new, Held(new) \subseteq Held(old)
  PROVE  Cardinality(Held(new)) <= Cardinality(Held(old))
<1>1. IsFiniteSet(Held(old))
  BY Limits, FS_Subset DEF Held
<1> QED
  BY <1>1, FS_Subset

\* The admitting script leaves a well-typed zset within the limit, whose slots
\* are the purged ones and the new one.
LEMMA AdmitType ==
  ASSUME TypeOK, NEW c \in Callers, NEW cost \in Costs, NEW s \in Slots,
         AdmitScript(c, cost, s)
  PROVE  /\ requests' \in Nat /\ tokens' \in Nat /\ windowTtl' \in 0 .. Window
         /\ lease' \in [Slots -> Nat]
         /\ Cardinality(Held(lease')) <= Concurrency
<1>1. requests' \in Nat /\ tokens' \in Nat /\ windowTtl' \in 0 .. Window
  BY Limits DEF TypeOK, AdmitScript, RefreshWindow
<1>2. lease' \in [Slots -> Nat]
  BY Limits, PurgedType DEF AdmitScript
<1>3. Cardinality(Held(lease')) <= Concurrency
  <2> DEFINE P == Held(Purged(c))
  <2>1. IsFiniteSet(P) /\ Cardinality(P) \in Nat
    BY Limits, FS_Subset, FS_CardinalityType DEF Held
  <2>2. IsFiniteSet(P \cup {s}) /\ Cardinality(P \cup {s}) <= Cardinality(P) + 1
    <3> HIDE DEF P
    <3>1. /\ IsFiniteSet(P \cup {s})
          /\ Cardinality(P \cup {s}) =
               IF s \in P THEN Cardinality(P) ELSE Cardinality(P) + 1
      BY <2>1, FS_AddElement
    <3> QED
      BY <2>1, <3>1
  <2>3. Held(lease') \subseteq P \cup {s}
    <3>1. \A t \in Slots : t # s => lease'[t] = Purged(c)[t]
      BY PurgedType DEF AdmitScript
    <3> QED
      BY <3>1 DEF Held
  <2>4. Cardinality(Held(lease')) <= Cardinality(P \cup {s})
    BY <2>2, <2>3, FS_Subset
  <2>5. Cardinality(P) < Concurrency
    BY DEF AdmitScript, HasRoom
  <2>6. Cardinality(P \cup {s}) \in Nat /\ Cardinality(Held(lease')) \in Nat
    BY <2>2, <2>3, FS_Subset, FS_CardinalityType
  <2> QED
    BY <2>1, <2>2, <2>4, <2>5, <2>6, Limits
<1> QED
  BY <1>1, <1>2, <1>3
-----------------------------------------------------------------------------
\* Every variable keeps its type in every step.
LEMMA TypeInit == Init => TypeOK
  BY Limits DEF Init, TypeOK, PC, LogEntry

LEMMA TypeNext == TypeOK /\ [Next]_vars => TypeOK'
<1> SUFFICES ASSUME TypeOK, [Next]_vars PROVE TypeOK'
  OBVIOUS
<1> USE DEF TypeOK, Goto, NoFault, Fault, callerVars, queueVars, windowVars
<1>0. faults' \in 0 .. MaxFaults
  <2>1. faults \in 0 .. MaxFaults /\ MaxFaults \in Nat
    BY Limits
  <2>2. UNCHANGED faults \/ Fault
    BY DEF Next, vars, Step, Join, JoinLost, ExpireQueueKey, ExpireLost,
      RejectFull, Admit, AdmitLost, PollRejected, QueueTimeout, Abandon,
      OperationEnds, Leave, Release, Crash, Tick
  <2> QED
    BY <2>1, <2>2
<1>1. ASSUME NEW c \in Callers, Join(c) PROVE TypeOK'
  BY <1>0, <1>1, Limits DEF Join, Count, PC, NoExpiry
<1>2. ASSUME NEW c \in Callers, JoinLost(c) PROVE TypeOK'
  BY <1>0, <1>2, Limits DEF JoinLost, Count, PC, NoExpiry
<1>3. ASSUME NEW c \in Callers, ExpireQueueKey(c) PROVE TypeOK'
  BY <1>0, <1>3, Limits DEF ExpireQueueKey, PC, NoExpiry
<1>4. ASSUME NEW c \in Callers, ExpireLost(c) PROVE TypeOK'
  BY <1>0, <1>4, Limits DEF ExpireLost, PC, NoExpiry
<1>5. ASSUME NEW c \in Callers, RejectFull(c) PROVE TypeOK'
  BY <1>0, <1>5, Limits DEF RejectFull, Count, PC, NoExpiry
<1>6. ASSUME NEW c \in Callers, NEW cost \in Costs, NEW s \in Slots,
             Admit(c, cost, s)
      PROVE  TypeOK'
  <2>1. recent' \subseteq LogEntry
    BY <1>6, LogType DEF Admit
  <2> QED
    BY <1>0, <1>6, <2>1, Limits, AdmitType DEF Admit, PC
<1>7. ASSUME NEW c \in Callers, NEW cost \in Costs, NEW s \in Slots,
             AdmitLost(c, cost, s)
      PROVE  TypeOK'
  BY <1>0, <1>7, Limits, AdmitType DEF AdmitLost, Finally, PC
<1>8. ASSUME NEW c \in Callers, PollRejected(c) PROVE TypeOK'
  BY <1>0, <1>8, Limits, PurgedType DEF PollRejected
<1>9. ASSUME NEW c \in Callers, QueueTimeout(c) \/ Abandon(c) \/ OperationEnds(c)
      PROVE  TypeOK'
  BY <1>0, <1>9, Limits DEF QueueTimeout, Abandon, OperationEnds, Finally, PC
<1>10. ASSUME NEW c \in Callers, Leave(c) PROVE TypeOK'
  BY <1>0, <1>10, Limits DEF Leave, Count, PC, NoExpiry
<1>11. ASSUME NEW c \in Callers, Release(c) PROVE TypeOK'
  BY <1>0, <1>11, Limits DEF Release, PC
<1>12. ASSUME NEW c \in Callers, Crash(c) PROVE TypeOK'
  BY <1>0, <1>12, Limits DEF Crash, PC
<1>13. CASE Tick
  <2>1. recent' \subseteq LogEntry
    BY <1>13, LogType DEF Tick
  <2>2. timer' \in [Callers -> Nat] /\ lease' \in [Slots -> Nat]
    BY <1>13 DEF Tick, AgeLeases, Down
  <2>3. queueTtl' \in Nat \cup {NoExpiry} /\ queueCount' \in Int
    BY <1>13 DEF Tick, Down, NoExpiry
  <2>4. requests' \in Nat /\ tokens' \in Nat /\ windowTtl' \in 0 .. Window
    BY <1>13, Limits DEF Tick, Down
  <2> QED
    BY <1>0, <1>13, <2>1, <2>2, <2>3, <2>4 DEF Tick
<1>14. CASE UNCHANGED vars
  BY <1>14 DEF vars
<1> QED
  BY <1>1, <1>2, <1>3, <1>4, <1>5, <1>6, <1>7, <1>8, <1>9, <1>10, <1>11, <1>12,
     <1>13, <1>14 DEF Next, Step

\* Every value the limiter keeps in Redis and in its callers has its type.
THEOREM TypeCorrect == Spec => []TypeOK
  BY TypeInit, TypeNext, PTL DEF Spec
-----------------------------------------------------------------------------
\* The steps that touch neither slots, leases, calls nor the window.
LEMMA QuietSteps ==
  ASSUME TypeOK, NEW c \in Callers,
         \/ Join(c) \/ JoinLost(c) \/ ExpireQueueKey(c) \/ ExpireLost(c)
         \/ RejectFull(c) \/ QueueTimeout(c) \/ Abandon(c)
  PROVE  /\ UNCHANGED <<slot, lease, requests, tokens, windowTtl, recent>>
         /\ \A d \in Callers : pc'[d] = "running" =>
              pc[d] = "running" /\ timer'[d] = timer[d]
  BY DEF TypeOK, Join, JoinLost, ExpireQueueKey, ExpireLost, RejectFull,
    QueueTimeout, Abandon, Finally, Goto, callerVars, windowVars

\* A purge by any caller spares the slot of a running call.
LEMMA PurgeSparesCalls ==
  ASSUME TypeOK, SlotsBackCalls, NEW c \in Callers, NEW d \in Running
  PROVE  Purged(c)[slot[d]] = lease[slot[d]] /\ lease[slot[d]] > 0
<1>1. d \in Callers /\ slot[d] \in Slots
      /\ lease[slot[d]] >= timer[d] + (Lease + Skew[d] - OpTimeout)
  BY DEF SlotsBackCalls, Running
<1>2. OpTimeout + Skew[c] < Lease + Skew[d]
  BY <1>1, LeaseAssumption
<1>3. /\ lease[slot[d]] \in Nat /\ timer[d] \in Nat
      /\ Skew[c] \in Nat /\ Skew[d] \in Nat
  BY <1>1, Limits DEF TypeOK
<1>4. lease[slot[d]] > Skew[c]
  BY <1>1, <1>2, <1>3, Limits
<1> QED
  BY <1>1, <1>3, <1>4 DEF Purged

LEMMA CoverInit == Init => RedisCoversCalls
<1> SUFFICES ASSUME Init PROVE RedisCoversCalls
  OBVIOUS
<1>1. SlotsBackCalls
  BY DEF Init, SlotsBackCalls, Running
<1>2. LeasesBounded
  <2>1. Held(lease) = {}
    BY DEF Init, Held
  <2> QED
    BY <2>1, FS_EmptySet, Limits DEF LeasesBounded
<1>3. WindowCovered
  BY Limits DEF Init, WindowCovered
<1> QED
  BY <1>1, <1>2, <1>3 DEF RedisCoversCalls

\* The script admits a caller: what AdmitScript does to the other calls' slots.
LEMMA ScriptSparesCalls ==
  ASSUME TypeOK, SlotsBackCalls, NEW c \in Callers, NEW cost \in Costs,
         NEW s \in Slots, AdmitScript(c, cost, s), NEW d \in Running
  PROVE  lease'[slot[d]] = lease[slot[d]]
<1>1. slot[d] # s /\ slot[d] \in Slots
  BY DEF AdmitScript, SlotsBackCalls, Running
<1> QED
  BY <1>1, PurgeSparesCalls, PurgedType DEF AdmitScript

\* Counting one more call keeps the window's keys ahead of the log.
LEMMA WindowAdmit ==
  ASSUME TypeOK, WindowCovered, NEW c \in Callers, NEW cost \in Costs,
         NEW s \in Slots, AdmitScript(c, cost, s),
         recent' = recent \/ recent' = Record(recent, cost)
  PROVE  WindowCovered'
<1>1. /\ requests' = requests + 1 /\ tokens' = tokens + cost
      /\ windowTtl' = Window
      /\ requests' <= RequestLimit /\ tokens' <= TokenLimit
  BY Limits DEF AdmitScript, FitsWindow, RefreshWindow
<1>2. cost \in Nat /\ requests \in Nat /\ tokens \in Nat
  BY Limits DEF TypeOK
<1>3. ASSUME NEW a \in recent
      PROVE  /\ a.age \in Nat /\ a.requests \in Nat /\ a.tokens \in Nat
             /\ a.requests <= requests /\ a.tokens <= tokens
  BY Limits DEF TypeOK, LogEntry, WindowCovered
<1>4. CASE recent' = recent
  BY <1>1, <1>2, <1>3, <1>4, Limits DEF WindowCovered
<1>5. CASE recent' = Record(recent, cost)
  <2> SUFFICES ASSUME NEW a \in recent'
               PROVE  /\ a.requests <= requests' /\ a.tokens <= tokens'
                      /\ a.age + windowTtl' >= Window
    BY <1>1 DEF WindowCovered
  <2>1. CASE a = [age |-> 0, requests |-> 1, tokens |-> cost]
    BY <1>1, <1>2, <2>1, Limits
  <2>2. ASSUME NEW b \in recent,
               a = [b EXCEPT !.requests = @ + 1, !.tokens = @ + cost]
        PROVE  /\ a.requests <= requests' /\ a.tokens <= tokens'
               /\ a.age + windowTtl' >= Window
    <3>1. b \in [age : 0 .. (Window - 1), requests : Nat \ {0}, tokens : Nat]
      BY DEF TypeOK, LogEntry
    <3>2. a.age = b.age /\ a.requests = b.requests + 1
          /\ a.tokens = b.tokens + cost
      BY <2>2, <3>1
    <3> QED
      BY <1>1, <1>2, <1>3, <3>2, Limits
  <2> QED
    BY <1>5, <2>1, <2>2 DEF Record
<1> QED
  BY <1>4, <1>5

\* Time takes an entry out of the log no later than its keys expire.
LEMMA WindowTick ==
  ASSUME TypeOK, WindowCovered, Tick
  PROVE  WindowCovered'
<1>1. /\ windowTtl' = (IF windowTtl > 0 THEN windowTtl - 1 ELSE windowTtl)
      /\ requests' = (IF windowTtl > 1 THEN requests ELSE 0)
      /\ tokens' = (IF windowTtl > 1 THEN tokens ELSE 0)
      /\ recent' = Elapse(recent)
  BY DEF Tick, Down
<1>2. requests \in Nat /\ tokens \in Nat /\ windowTtl \in 0 .. Window
  BY DEF TypeOK
<1>3. requests' <= RequestLimit /\ tokens' <= TokenLimit
  BY <1>1, <1>2, Limits DEF WindowCovered
<1>4. ASSUME NEW a \in recent'
      PROVE  /\ a.requests <= requests' /\ a.tokens <= tokens'
             /\ a.age + windowTtl' >= Window
  <2>1. PICK b \in recent : b.age + 1 < Window /\ a = [b EXCEPT !.age = @ + 1]
    BY <1>1 DEF Elapse
  <2>2. b \in [age : 0 .. (Window - 1), requests : Nat \ {0}, tokens : Nat]
    BY DEF TypeOK, LogEntry
  <2>3. a.age = b.age + 1 /\ a.requests = b.requests /\ a.tokens = b.tokens
    BY <2>1, <2>2
  <2>4. /\ b.requests <= requests /\ b.tokens <= tokens
        /\ b.age + windowTtl >= Window
    BY DEF WindowCovered
  <2>5. windowTtl > 1 /\ windowTtl \in Nat /\ b.age \in Nat
    BY <1>2, <2>1, <2>2, <2>4, Limits
  <2> QED
    BY <1>1, <2>3, <2>4, <2>5, Limits
<1> QED
  BY <1>3, <1>4 DEF WindowCovered

\* Every step keeps what Redis stores ahead of what callers have in flight.
LEMMA CoverNext == TypeOK /\ RedisCoversCalls /\ [Next]_vars => RedisCoversCalls'
<1> SUFFICES ASSUME TypeOK, SlotsBackCalls, LeasesBounded, WindowCovered,
                    [Next]_vars
             PROVE  SlotsBackCalls' /\ LeasesBounded' /\ WindowCovered'
  BY DEF RedisCoversCalls
<1>q. ASSUME UNCHANGED <<slot, lease>>,
             \A d \in Callers : pc'[d] = "running" =>
               pc[d] = "running" /\ timer'[d] = timer[d]
      PROVE  SlotsBackCalls' /\ LeasesBounded'
  BY <1>q DEF SlotsBackCalls, LeasesBounded, Running
<1>w. ASSUME UNCHANGED <<requests, tokens, windowTtl, recent>>
      PROVE  WindowCovered'
  BY <1>w DEF WindowCovered
<1>1. ASSUME NEW c \in Callers,
             \/ Join(c) \/ JoinLost(c) \/ ExpireQueueKey(c) \/ ExpireLost(c)
             \/ RejectFull(c) \/ QueueTimeout(c) \/ Abandon(c)
      PROVE  SlotsBackCalls' /\ LeasesBounded' /\ WindowCovered'
  BY <1>1, <1>q, <1>w, QuietSteps
<1>2. ASSUME NEW c \in Callers, OperationEnds(c) \/ Leave(c)
      PROVE  SlotsBackCalls' /\ LeasesBounded' /\ WindowCovered'
  <2>1. \A d \in Callers : pc'[d] = "running" =>
          pc[d] = "running" /\ timer'[d] = timer[d]
    BY <1>2 DEF OperationEnds, Leave, Finally, Goto, TypeOK
  <2> QED
    BY <1>2, <2>1, <1>q, <1>w DEF OperationEnds, Leave, windowVars
<1>3. ASSUME NEW c \in Callers, Crash(c)
      PROVE  SlotsBackCalls' /\ LeasesBounded' /\ WindowCovered'
  <2>1. \A d \in Callers : /\ pc'[d] = "running" => d # c /\ pc[d] = "running"
                           /\ d # c => timer'[d] = timer[d] /\ slot'[d] = slot[d]
                           /\ slot'[c] = NoSlot
    BY <1>3 DEF Crash, Goto, TypeOK
  <2>2. UNCHANGED <<lease, requests, tokens, windowTtl, recent>>
    BY <1>3 DEF Crash, windowVars
  <2>3. SlotsBackCalls'
    <3>1. \A d \in Running' :
            /\ slot'[d] \in Slots
            /\ lease'[slot'[d]] >= timer'[d] + (Lease + Skew[d] - OpTimeout)
      BY <2>1, <2>2 DEF SlotsBackCalls, Running
    <3>2. \A d, e \in Callers : d # e /\ slot'[d] = slot'[e] => slot'[d] = NoSlot
      BY <2>1 DEF SlotsBackCalls
    <3> QED
      BY <3>1, <3>2 DEF SlotsBackCalls
  <2> QED
    BY <2>2, <2>3, <1>w DEF LeasesBounded
<1>4. ASSUME NEW c \in Callers, Release(c)
      PROVE  SlotsBackCalls' /\ LeasesBounded' /\ WindowCovered'
  <2>1. UNCHANGED <<timer, requests, tokens, windowTtl, recent>>
    BY <1>4 DEF Release, windowVars
  <2>2. \A d \in Callers : /\ pc'[d] = "running" => d # c /\ pc[d] = "running"
                           /\ d # c => slot'[d] = slot[d]
                           /\ slot'[c] = NoSlot
    BY <1>4 DEF Release, Goto, TypeOK
  <2>3. \A s \in Slots : s # slot[c] => lease'[s] = lease[s]
    BY <1>4 DEF Release, TypeOK
  <2>4. \A s \in Slots : lease'[s] > 0 => lease[s] > 0
    BY <1>4 DEF Release, TypeOK
  <2>5. SlotsBackCalls'
    <3>1. \A d \in Running' :
            /\ slot'[d] \in Slots
            /\ lease'[slot'[d]] >= timer'[d] + (Lease + Skew[d] - OpTimeout)
      <4> SUFFICES ASSUME NEW d \in Running'
                   PROVE  /\ slot'[d] \in Slots
                          /\ lease'[slot'[d]] >=
                               timer'[d] + (Lease + Skew[d] - OpTimeout)
        OBVIOUS
      <4>1. d \in Callers /\ d # c /\ d \in Running /\ slot'[d] = slot[d]
        BY <2>2 DEF Running
      <4>2. slot[d] \in Slots /\ slot[d] # slot[c]
        BY <4>1, Limits DEF SlotsBackCalls
      <4> QED
        BY <2>1, <2>3, <4>1, <4>2 DEF SlotsBackCalls
    <3>2. \A d, e \in Callers : d # e /\ slot'[d] = slot'[e] => slot'[d] = NoSlot
      BY <2>2 DEF SlotsBackCalls
    <3> QED
      BY <3>1, <3>2 DEF SlotsBackCalls
  <2>6. Held(lease') \subseteq Held(lease)
    BY <2>4 DEF Held
  <2>7. Cardinality(Held(lease')) \in Nat /\ Cardinality(Held(lease)) \in Nat
    BY Limits, FS_Subset, FS_CardinalityType DEF Held
  <2>8. LeasesBounded'
    BY <2>6, <2>7, FewerLeases, Limits DEF LeasesBounded
  <2> QED
    BY <2>1, <2>5, <2>8, <1>w
<1>5. ASSUME NEW c \in Callers, PollRejected(c)
      PROVE  SlotsBackCalls' /\ LeasesBounded' /\ WindowCovered'
  <2>1. lease' = Purged(c)
        /\ UNCHANGED <<pc, timer, slot, requests, tokens, windowTtl, recent>>
    BY <1>5 DEF PollRejected, callerVars, windowVars
  <2>2. SlotsBackCalls'
    <3>1. \A d \in Running : lease'[slot[d]] = lease[slot[d]]
      BY <2>1, PurgeSparesCalls
    <3> QED
      BY <2>1, <3>1 DEF SlotsBackCalls, Running
  <2>3. Cardinality(Held(lease')) \in Nat /\ Cardinality(Held(lease)) \in Nat
    BY Limits, FS_Subset, FS_CardinalityType DEF Held
  <2>4. LeasesBounded'
    BY <2>1, <2>3, PurgedType, FewerLeases, Limits DEF LeasesBounded
  <2> QED
    BY <2>1, <2>2, <2>4, <1>w
<1>6. ASSUME NEW c \in Callers, NEW cost \in Costs, NEW s \in Slots,
             Admit(c, cost, s)
      PROVE  SlotsBackCalls' /\ LeasesBounded' /\ WindowCovered'
  <2>1. AdmitScript(c, cost, s) /\ recent' = Record(recent, cost)
    BY <1>6 DEF Admit
  <2>2. \A d \in Callers : d # c =>
          pc'[d] = pc[d] /\ timer'[d] = timer[d] /\ slot'[d] = slot[d]
    BY <1>6 DEF Admit, Goto, TypeOK
  <2>3. slot'[c] = s /\ timer'[c] = OpTimeout
        /\ lease'[s] = Lease + Skew[c]
    BY <1>6, PurgedType DEF Admit, AdmitScript, TypeOK
  <2>4. \A d \in Callers : slot[d] # s
    BY <2>1 DEF AdmitScript
  <2>5. \A d \in Running : lease'[slot[d]] = lease[slot[d]]
    BY <2>1, ScriptSparesCalls
  <2>6. ASSUME NEW d \in Callers, pc'[d] = "running"
        PROVE  /\ slot'[d] \in Slots
               /\ lease'[slot'[d]] >= timer'[d] + (Lease + Skew[d] - OpTimeout)
    <3>1. CASE d = c
      <4>1. Skew[c] \in Nat
        BY Limits
      <4> QED
        BY <3>1, <2>3, <4>1, Limits
    <3>2. CASE d # c
      BY <3>2, <2>2, <2>5, <2>6 DEF SlotsBackCalls, Running
    <3> QED
      BY <3>1, <3>2
  <2>7. SlotsBackCalls'
    BY <2>2, <2>3, <2>4, <2>6 DEF SlotsBackCalls, Running
  <2> QED
    BY <2>1, <2>7, AdmitType, WindowAdmit DEF LeasesBounded
<1>7. ASSUME NEW c \in Callers, NEW cost \in Costs, NEW s \in Slots,
             AdmitLost(c, cost, s)
      PROVE  SlotsBackCalls' /\ LeasesBounded' /\ WindowCovered'
  <2>1. AdmitScript(c, cost, s) /\ recent' = recent /\ slot' = slot
    BY <1>7 DEF AdmitLost
  <2>2. \A d \in Callers : pc'[d] = "running" =>
          d \in Running /\ timer'[d] = timer[d]
    BY <1>7 DEF AdmitLost, Finally, Goto, TypeOK, Running
  <2>3. \A d \in Running : lease'[slot[d]] = lease[slot[d]]
    BY <2>1, ScriptSparesCalls
  <2>4. SlotsBackCalls'
    BY <2>1, <2>2, <2>3 DEF SlotsBackCalls, Running
  <2> QED
    BY <2>1, <2>4, AdmitType, WindowAdmit DEF LeasesBounded
<1>8. CASE Tick
  <2>1. UNCHANGED <<pc, slot>>
        /\ timer' = [d \in Callers |-> Down(timer[d])]
        /\ lease' = [s \in Slots |-> Down(lease[s])]
    BY <1>8 DEF Tick, AgeLeases
  <2>2. \A d \in Running : timer[d] > 0 /\ timer[d] \in Nat
    BY <1>8 DEF Tick, Running, TypeOK
  <2>3. ASSUME NEW d \in Running
        PROVE  lease'[slot[d]] >= timer'[d] + (Lease + Skew[d] - OpTimeout)
    <3>1. d \in Callers /\ slot[d] \in Slots
          /\ lease[slot[d]] >= timer[d] + (Lease + Skew[d] - OpTimeout)
      BY DEF SlotsBackCalls, Running
    <3>2. lease[slot[d]] > 0 /\ lease[slot[d]] \in Nat
      BY <3>1, PurgeSparesCalls DEF TypeOK
    <3>3. lease'[slot[d]] = lease[slot[d]] - 1 /\ timer'[d] = timer[d] - 1
      BY <2>1, <2>2, <3>1, <3>2 DEF Down
    <3>4. Skew[d] \in Nat
      BY <3>1, Limits
    <3> QED
      BY <2>2, <3>1, <3>2, <3>3, <3>4, Limits
  <2>4. SlotsBackCalls'
    BY <2>1, <2>3 DEF SlotsBackCalls, Running
  <2>5. Held(lease') \subseteq Held(lease)
    BY <2>1 DEF Held, Down, TypeOK
  <2>6. Cardinality(Held(lease')) \in Nat /\ Cardinality(Held(lease)) \in Nat
    BY Limits, FS_Subset, FS_CardinalityType DEF Held
  <2>7. LeasesBounded'
    BY <2>5, <2>6, FewerLeases, Limits DEF LeasesBounded
  <2> QED
    BY <1>8, <2>4, <2>7, WindowTick
<1>9. CASE UNCHANGED vars
  BY <1>9, <1>q, <1>w DEF vars, callerVars, windowVars
<1> QED
  BY <1>1, <1>2, <1>3, <1>4, <1>5, <1>6, <1>7, <1>8, <1>9 DEF Next, Step

LEMMA CoverInvariant == Spec => [](TypeOK /\ RedisCoversCalls)
<1>1. Init => TypeOK /\ RedisCoversCalls
  BY TypeInit, CoverInit
<1>2. TypeOK /\ RedisCoversCalls /\ [Next]_vars => TypeOK' /\ RedisCoversCalls'
  BY TypeNext, CoverNext
<1> QED
  BY <1>1, <1>2, PTL DEF Spec

\* Running calls own distinct live slots, so there are at most as many of them.
LEMMA CallsFitSlots ==
  ASSUME SlotsBackCalls, NEW leases, \A c \in Running : leases[slot[c]] > 0
  PROVE  Cardinality(Running) <= Cardinality(Held(leases))
<1> DEFINE H == Held(leases)
<1>1. IsFiniteSet(Running) /\ IsFiniteSet(H)
      /\ Cardinality(Running) \in Nat /\ Cardinality(H) \in Nat
  BY Limits, FS_Subset, FS_CardinalityType DEF Running, Held
<1> SUFFICES ASSUME Cardinality(H) < Cardinality(Running) PROVE FALSE
  BY <1>1
<1> DEFINE f == [c \in Running |-> slot[c]]
<1>2. f \in [Running -> H]
  BY DEF SlotsBackCalls, Held, Running
<1>3. PICK c \in Running, d \in Running : c # d /\ f[c] = f[d]
  <2> HIDE DEF f, H
  <2> QED
    BY <1>1, <1>2, FS_PigeonHole
<1>4. slot[c] = slot[d] /\ c \in Callers /\ d \in Callers
  BY <1>3 DEF Running
<1> QED
  BY <1>3, <1>4, Limits DEF SlotsBackCalls

\* The limits hold in every state that satisfies the inductive invariant.
LEMMA CoverImpliesLimits ==
  TypeOK /\ RedisCoversCalls => ConcurrencyBounded /\ RateBounded
<1> SUFFICES ASSUME TypeOK, RedisCoversCalls
             PROVE  ConcurrencyBounded /\ RateBounded
  OBVIOUS
<1>1. ConcurrencyBounded
  <2>1. Cardinality(Running) \in Nat /\ Cardinality(Held(lease)) \in Nat
    BY Limits, FS_Subset, FS_CardinalityType DEF Running, Held
  <2>2. Cardinality(Running) <= Cardinality(Held(lease))
    BY CallsFitSlots, PurgeSparesCalls DEF RedisCoversCalls, Running
  <2> QED
    BY <2>1, <2>2, Limits DEF ConcurrencyBounded, RedisCoversCalls, LeasesBounded
<1>2. RateBounded
  <2>1. ASSUME NEW a \in recent
        PROVE  a.requests <= RequestLimit /\ a.tokens <= TokenLimit
    <3>1. a.requests \in Nat /\ a.tokens \in Nat
          /\ requests \in Nat /\ tokens \in Nat
      BY DEF TypeOK, LogEntry
    <3> QED
      BY <3>1, Limits DEF RedisCoversCalls, WindowCovered
  <2> QED
    BY <2>1 DEF RateBounded, WithinLimits
<1> QED
  BY <1>1, <1>2

\* No more than Concurrency calls are in flight, for every number of callers,
\* clock difference and sequence of crashes and lost replies.
THEOREM ConcurrencyLimit == Spec => []ConcurrencyBounded
  BY CoverInvariant, CoverImpliesLimits, PTL

\* No sliding window sees more calls or tokens started than the limits.
THEOREM RateLimit == Spec => []RateBounded
  BY CoverInvariant, CoverImpliesLimits, PTL

\* Redis covers what is in flight: the inductive invariant itself.
THEOREM Covered == Spec => []RedisCoversCalls
  BY CoverInvariant, PTL
-----------------------------------------------------------------------------
\* A step that starts or ends no call and lets no time pass is a stutter of the
\* admission control.
LEMMA Unobserved ==
  ASSUME \A d \in Callers : pc'[d] = "running" <=> pc[d] = "running",
         UNCHANGED recent
  PROVE  UNCHANGED Admission!absVars
  BY DEF Admission!absVars, Running

\* Admitting a caller starts a call within both limits.
LEMMA AdmitStarts ==
  ASSUME TypeOK, RedisCoversCalls, TypeOK', RedisCoversCalls',
         NEW c \in Callers, NEW cost \in Costs, NEW s \in Slots,
         Admit(c, cost, s)
  PROVE  Admission!Start(c, cost)
<1>1. c \notin Running /\ Running' = Running \cup {c}
  BY DEF Admit, Goto, Running, TypeOK
<1>2. Cardinality(Running) < Concurrency
  <2>1. Cardinality(Running) <= Cardinality(Held(Purged(c)))
    <3>1. \A d \in Running : Purged(c)[slot[d]] > 0
      BY PurgeSparesCalls DEF RedisCoversCalls
    <3> QED
      BY <3>1, CallsFitSlots DEF RedisCoversCalls
  <2>2. Cardinality(Held(Purged(c))) < Concurrency
    BY DEF Admit, AdmitScript, HasRoom
  <2>3. Cardinality(Running) \in Nat /\ Cardinality(Held(Purged(c))) \in Nat
    BY Limits, FS_Subset, FS_CardinalityType DEF Running, Held
  <2> QED
    BY <2>1, <2>2, <2>3, Limits
<1>3. recent' = Record(recent, cost)
  BY DEF Admit
<1>4. \A a \in recent' : a.requests <= RequestLimit /\ a.tokens <= TokenLimit
  <2>1. ASSUME NEW a \in recent'
        PROVE  /\ a.requests \in Nat /\ a.tokens \in Nat
               /\ requests' \in Nat /\ tokens' \in Nat
               /\ a.requests <= requests' /\ a.tokens <= tokens'
               /\ requests' <= RequestLimit /\ tokens' <= TokenLimit
    BY DEF TypeOK, LogEntry, RedisCoversCalls, WindowCovered
  <2> QED
    BY <2>1, Limits
<1>5. Admission!Cardinality(Running) = Cardinality(Running)
  BY DEF Cardinality, Admission!Cardinality
<1> QED
  BY <1>1, <1>2, <1>3, <1>4, <1>5 DEF Admission!Start, Admission!Record,
    Admission!WithinLimits, Record

\* Every step of run() is a step of the admission control or invisible to it.
LEMMA StepRefines ==
  ASSUME TypeOK, RedisCoversCalls, TypeOK', RedisCoversCalls', [Next]_vars
  PROVE  [Admission!AbsNext]_(Admission!absVars)
<1> USE DEF TypeOK, Goto
<1>1. ASSUME NEW c \in Callers,
             \/ Join(c) \/ JoinLost(c) \/ ExpireQueueKey(c) \/ ExpireLost(c)
             \/ RejectFull(c) \/ QueueTimeout(c) \/ Abandon(c)
             \/ PollRejected(c) \/ Leave(c) \/ Release(c)
      PROVE  UNCHANGED Admission!absVars
  <2>1. UNCHANGED recent
    BY <1>1, Zenon DEF Join, JoinLost, ExpireQueueKey, ExpireLost, RejectFull,
      QueueTimeout, Abandon, PollRejected, Leave, Release
  <2>2. \A d \in Callers : pc'[d] = "running" <=> pc[d] = "running"
    BY <1>1 DEF Join, JoinLost, ExpireQueueKey, ExpireLost, RejectFull,
      QueueTimeout, Abandon, PollRejected, Leave, Release, Finally, callerVars
  <2> QED
    BY <2>1, <2>2, Unobserved
<1>2. ASSUME NEW c \in Callers, NEW cost \in Costs, NEW s \in Slots,
             AdmitLost(c, cost, s)
      PROVE  UNCHANGED Admission!absVars
  <2>1. UNCHANGED recent
    BY <1>2 DEF AdmitLost
  <2>2. \A d \in Callers : pc'[d] = "running" <=> pc[d] = "running"
    BY <1>2 DEF AdmitLost, Finally
  <2> QED
    BY <2>1, <2>2, Unobserved
<1>3. ASSUME NEW c \in Callers, OperationEnds(c)
      PROVE  Admission!Stop(c)
  <2>1. pc[c] = "running" /\ pc' = [pc EXCEPT ![c] = "leaving"]
        /\ UNCHANGED recent
    BY <1>3 DEF OperationEnds, Finally
  <2>2. c \in Running /\ Running' = Running \ {c}
    BY <2>1 DEF Running
  <2> QED
    BY <2>1, <2>2 DEF Admission!Stop
<1>4. ASSUME NEW c \in Callers, Crash(c)
      PROVE  Admission!Stop(c) \/ UNCHANGED Admission!absVars
  <2>1. CASE pc[c] = "running"
    BY <1>4, <2>1 DEF Crash, Admission!Stop, Running
  <2>2. CASE pc[c] # "running"
    BY <1>4, <2>2, Unobserved DEF Crash
  <2> QED
    BY <2>1, <2>2
<1>5. CASE Tick
  <2>1. recent' = Elapse(recent) /\ UNCHANGED pc
    BY <1>5 DEF Tick
  <2> QED
    BY <2>1 DEF Admission!AbsNext, Admission!TimePasses, Admission!Elapse,
      Elapse, Running
<1>6. CASE UNCHANGED vars
  BY <1>6 DEF vars, callerVars, Admission!absVars, Running
<1> QED
  BY <1>1, <1>2, <1>3, <1>4, <1>5, <1>6, AdmitStarts
    DEF Next, Step, Admission!AbsNext

\* run() implements the admission control: nothing a caller of the provider can
\* observe distinguishes it from an atomic limiter that never fails.
THEOREM Implements == Spec => AdmissionSpec
<1>1. Init => Admission!AbsInit
  BY DEF Init, Admission!AbsInit, Running
<1>2. TypeOK /\ RedisCoversCalls /\ TypeOK' /\ RedisCoversCalls' /\ [Next]_vars
        => [Admission!AbsNext]_(Admission!absVars)
  BY StepRefines
<1> QED
  BY <1>1, <1>2, CoverInvariant, PTL DEF Spec, AdmissionSpec, Admission!AbsSpec
-----------------------------------------------------------------------------
(***************************************************************************)
(* The lease of a slot.  Only the script that adds a slot gives it one,    *)
(* and a uuid is new: nothing prolongs the lease of a slot in the zset.    *)
(***************************************************************************)
LeaseGiven ==
  \A s \in Slots : lease[s] > 0 => \E c \in Callers : lease[s] <= Lease + Skew[c]

\* A slot in the zset has no more time left than before, and less when time passes.
LeaseRunsDown ==
  \A s \in Slots : lease[s] > 0 =>
    lease'[s] <= lease[s] /\ (Tick => lease'[s] < lease[s])

LEMMA LeaseStep ==
  TypeOK /\ LeaseGiven /\ [Next]_vars => LeaseGiven' /\ [LeaseRunsDown]_vars
<1>. SUFFICES ASSUME TypeOK, LeaseGiven, [Next]_vars
              PROVE  LeaseGiven' /\ [LeaseRunsDown]_vars
  OBVIOUS
<1>1. lease \in [Slots -> Nat] /\ Lease \in Nat /\ Skew \in [Callers -> Nat]
  BY Limits DEF TypeOK
<1>2. ASSUME ~Tick, NEW s \in Slots, lease'[s] = lease[s] \/ lease'[s] = 0
      PROVE  /\ lease'[s] > 0 => \E c \in Callers : lease'[s] <= Lease + Skew[c]
             /\ lease[s] > 0 => lease'[s] <= lease[s] /\ (Tick => lease'[s] < lease[s])
  BY <1>1, <1>2 DEF LeaseGiven
<1>3. ASSUME ~Tick, \A s \in Slots : lease'[s] = lease[s] \/ lease'[s] = 0
      PROVE  LeaseGiven' /\ [LeaseRunsDown]_vars
  BY <1>2, <1>3 DEF LeaseGiven, LeaseRunsDown
<1>4. ASSUME NEW c \in Callers, ~Tick, NEW cost \in Costs, NEW s \in Slots, AdmitScript(c, cost, s)
      PROVE  LeaseGiven' /\ [LeaseRunsDown]_vars
  <2>1. lease[s] = 0 /\ lease'[s] = Lease + Skew[c]
    BY <1>4, PurgedType DEF AdmitScript
  <2>2. \A t \in Slots : t # s => lease'[t] = lease[t] \/ lease'[t] = 0
    BY <1>1, <1>4, PurgedType DEF AdmitScript, Purged
  <2>3. LeaseGiven'
    BY <1>1, <1>2, <1>4, <2>1, <2>2 DEF LeaseGiven
  <2>4. LeaseRunsDown
    BY <1>2, <1>4, <2>1, <2>2 DEF LeaseRunsDown
  <2>. QED
    BY <2>3, <2>4
<1>5. CASE Tick
  <2>1. \A s \in Slots : lease'[s] = Down(lease[s])
    BY <1>5 DEF Tick, AgeLeases
  <2>2. \A s \in Slots : lease[s] > 0 => lease'[s] < lease[s] /\ lease'[s] <= lease[s]
    BY <1>1, <2>1 DEF Down
  <2>3. \A s \in Slots : lease'[s] > 0 => lease[s] > 0
    BY <1>1, <2>1 DEF Down
  <2>4. LeaseGiven'
    <3>1. ASSUME NEW s \in Slots, lease'[s] > 0
          PROVE  \E c \in Callers : lease'[s] <= Lease + Skew[c]
      <4>1. PICK c \in Callers : lease[s] <= Lease + Skew[c]
        BY <3>1, <2>3 DEF LeaseGiven
      <4>2. lease'[s] <= lease[s] /\ lease'[s] \in Nat
        BY <3>1, <2>1, <2>2, <2>3, <1>1 DEF Down
      <4>3. lease[s] \in Nat /\ Skew[c] \in Nat
        BY <1>1
      <4>4. lease'[s] <= Lease + Skew[c]
        BY <4>1, <4>2, <4>3, <1>1
      <4>. QED
        BY <4>4
    <3>. QED
      BY <3>1 DEF LeaseGiven
  <2>. QED
    BY <2>2, <2>4 DEF LeaseRunsDown
<1>6. ASSUME NEW c \in Callers, Step(c), ~Tick PROVE LeaseGiven' /\ [LeaseRunsDown]_vars
  <2>1. CASE \/ Join(c) \/ JoinLost(c) \/ ExpireQueueKey(c) \/ ExpireLost(c) \/ RejectFull(c)
             \/ QueueTimeout(c) \/ Abandon(c) \/ OperationEnds(c) \/ Leave(c) \/ Crash(c)
    <3>1. lease' = lease
      BY <2>1 DEF Join, JoinLost, ExpireQueueKey, ExpireLost, RejectFull, QueueTimeout,
         Abandon, OperationEnds, Leave, Crash
    <3>. QED
      BY <3>1, <1>3, <1>6
  <2>2. CASE PollRejected(c)
    <3>1. lease' = Purged(c)
      BY <2>2 DEF PollRejected
    <3>2. \A s \in Slots : lease'[s] = lease[s] \/ lease'[s] = 0
      BY <3>1, <1>1 DEF Purged
    <3>. QED
      BY <3>2, <1>3, <1>6
  <2>3. CASE Release(c)
    <3>1. \A s \in Slots : lease'[s] = lease[s] \/ lease'[s] = 0
      BY <2>3, <1>1 DEF Release
    <3>. QED
      BY <3>1, <1>3, <1>6
  <2>4. CASE \E cost \in Costs, s \in Slots : Admit(c, cost, s) \/ AdmitLost(c, cost, s)
    BY <2>4, <1>4, <1>6 DEF Admit, AdmitLost
  <2>. QED
    BY <1>6, <2>1, <2>2, <2>3, <2>4 DEF Step
<1>7. CASE UNCHANGED vars
  BY <1>7 DEF vars, LeaseGiven
<1>. QED
  BY <1>5, <1>6, <1>7 DEF Next

\* Whoever holds a slot and whatever becomes of it, the slot leaves the zset
\* within one lease: it is given no more than a lease, by the clock of the replica
\* that admits, and from then on only loses time.
THEOREM LeasesRunOut == Spec => []LeaseGiven /\ [][LeaseRunsDown]_vars
<1>1. Init => LeaseGiven
  BY DEF Init, LeaseGiven
<1>. QED
  BY <1>1, TypeInit, TypeNext, LeaseStep, PTL DEF Spec
=============================================================================
