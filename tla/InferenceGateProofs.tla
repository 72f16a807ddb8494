------------------------- MODULE InferenceGateProofs -------------------------
(***************************************************************************)
(* Proofs about InferenceGate, for every number of callers, slots and      *)
(* places in the queue: permits are conserved, the gate's counter is that  *)
(* of the semaphore, no wake-up is lost, and the queue is first come,      *)
(* first served.                                                           *)
(***************************************************************************)
EXTENDS InferenceGate, SequenceTheorems, FiniteSetTheorems, TLAPS

(***************************************************************************)
(* The inductive invariant.  A caller is in the semaphore's queue exactly  *)
(* from entering it to resuming from acquire(), and once only.             *)
(***************************************************************************)
Suspended == {"waiting", "granted", "cancelled", "revoked"}

Distinct(s) == \A i, j \in 1 .. Len(s) : s[i] = s[j] => i = j
Elements(s) == {s[i] : i \in 1 .. Len(s)}

GateInv ==
  /\ TypeOK /\ Distinct(queue)
  /\ Queued = {c \in Callers : pc[c] \in Suspended}
  /\ CountersExact
  /\ NoLostWakeup

\* A sequence without its k-th element.
LEMMA Cut ==
  ASSUME NEW S, NEW s \in Seq(S), NEW k \in 1 .. Len(s), NEW t,
         t = RemoveAt(s, k)
  PROVE  /\ t \in Seq(S) /\ Len(t) = Len(s) - 1
         /\ \A i \in 1 .. Len(s) - 1 : t[i] = IF i < k THEN s[i] ELSE s[i + 1]
<1>1. Len(s) \in Nat /\ \A i \in 1 .. Len(s) : s[i] \in S
  BY LenProperties, ElementOfSeq
<1>2. PICK a : a = SubSeq(s, 1, k - 1)
  OBVIOUS
<1>3. PICK b : b = SubSeq(s, k + 1, Len(s))
  OBVIOUS
<1>4. /\ a \in Seq(S) /\ Len(a) = IF 1 <= k - 1 THEN k - 1 - 1 + 1 ELSE 0
      /\ \A i \in 1 .. k - 1 - 1 + 1 : a[i] = s[1 + i - 1]
  <2>1. \A i \in 1 .. k - 1 : s[i] \in S
    BY <1>1
  <2>. QED
    BY <1>1, <1>2, <2>1, SubSeqProperties
<1>5. /\ b \in Seq(S) /\ Len(b) = IF k + 1 <= Len(s) THEN Len(s) - (k + 1) + 1 ELSE 0
      /\ \A i \in 1 .. Len(s) - (k + 1) + 1 : b[i] = s[k + 1 + i - 1]
  <2>1. \A i \in k + 1 .. Len(s) : s[i] \in S
    BY <1>1
  <2>. QED
    BY <1>1, <1>3, <2>1, SubSeqProperties
<1>6. a \in Seq(S) /\ Len(a) = k - 1 /\ \A i \in 1 .. k - 1 : a[i] = s[i]
  BY <1>1, <1>4
<1>7. b \in Seq(S) /\ Len(b) = Len(s) - k /\ \A i \in 1 .. Len(s) - k : b[i] = s[k + i]
  BY <1>1, <1>5
<1>8. PICK u : u = a \o b
  OBVIOUS
<1>9. /\ u \in Seq(S) /\ Len(u) = Len(a) + Len(b)
      /\ \A i \in 1 .. Len(a) + Len(b) : u[i] = IF i <= Len(a) THEN a[i] ELSE b[i - Len(a)]
  BY <1>6, <1>7, <1>8, ConcatProperties
<1>10. t = u
  BY <1>2, <1>3, <1>8, Zenon DEF RemoveAt
<1>. SUFFICES /\ u \in Seq(S) /\ Len(u) = Len(s) - 1
              /\ \A i \in 1 .. Len(s) - 1 : u[i] = IF i < k THEN s[i] ELSE s[i + 1]
  BY <1>10, Zenon
<1>11. ASSUME NEW i \in 1 .. Len(s) - 1, i < k PROVE u[i] = s[i]
  BY <1>1, <1>6, <1>7, <1>9, <1>11
<1>12. ASSUME NEW i \in 1 .. Len(s) - 1, ~(i < k) PROVE u[i] = s[i + 1]
  <2>1. PICK j \in 1 .. Len(s) - k : j = i - (k - 1) /\ k + j = i + 1
    BY <1>1, <1>12
  <2>2. u[i] = b[j]
    BY <1>1, <1>6, <1>7, <1>9, <1>12, <2>1
  <2>. QED
    BY <1>7, <2>1, <2>2
<1>. QED
  BY <1>1, <1>6, <1>7, <1>9, <1>11, <1>12

\* Without one of its elements, a sequence without repetition has all others, and
\* each still once.
LEMMA Removed ==
  ASSUME NEW S, NEW s \in Seq(S), NEW k \in 1 .. Len(s), NEW t,
         t = RemoveAt(s, k), Distinct(s)
  PROVE  Distinct(t) /\ Elements(t) = Elements(s) \ {s[k]}
<1>1. PICK n \in Nat : n = Len(s)
  BY LenProperties
<1>2. /\ Len(t) = n - 1 /\ k \in 1 .. n
      /\ \A i \in 1 .. n - 1 : t[i] = IF i < k THEN s[i] ELSE s[i + 1]
      /\ \A i, j \in 1 .. n : s[i] = s[j] => i = j
  BY <1>1, Cut DEF Distinct
<1>3. ASSUME NEW i \in 1 .. n - 1, NEW j \in 1 .. n - 1, t[i] = t[j] PROVE i = j
  <2>1. PICK x \in 1 .. n : (x = IF i < k THEN i ELSE i + 1) /\ t[i] = s[x]
    BY <1>2
  <2>2. PICK y \in 1 .. n : (y = IF j < k THEN j ELSE j + 1) /\ t[j] = s[y]
    BY <1>2
  <2>3. x = y
    BY <1>2, <1>3, <2>1, <2>2
  <2>. QED
    BY <1>2, <2>1, <2>2, <2>3
<1>4. ASSUME NEW i \in 1 .. n - 1 PROVE \E j \in 1 .. n : t[i] = s[j] /\ s[j] # s[k]
  <2>1. PICK x \in 1 .. n : (x = IF i < k THEN i ELSE i + 1) /\ t[i] = s[x]
    BY <1>2
  <2>2. x # k
    BY <1>2, <2>1
  <2>. QED
    BY <1>2, <2>1, <2>2
<1>5. ASSUME NEW j \in 1 .. n, s[j] # s[k] PROVE \E i \in 1 .. n - 1 : t[i] = s[j]
  <2>1. j # k
    BY <1>5
  <2>2. CASE j < k
    BY <1>2, <2>2
  <2>3. CASE j > k
    <3>1. j - 1 \in 1 .. n - 1 /\ ~(j - 1 < k) /\ j - 1 + 1 = j
      BY <1>2, <2>3
    <3>. QED
      BY <1>2, <3>1
  <2>. QED
    BY <1>2, <2>1, <2>2, <2>3
<1>6. Distinct(t)
  BY <1>2, <1>3 DEF Distinct
<1>7. Elements(t) = Elements(s) \ {s[k]}
  BY <1>1, <1>2, <1>4, <1>5 DEF Elements
<1>. QED
  BY <1>6, <1>7
-----------------------------------------------------------------------------
LEMMA FiniteCallers ==
  ASSUME NEW S \in SUBSET Callers
  PROVE  IsFiniteSet(S) /\ Cardinality(S) \in Nat
BY GateAssumption, FS_Subset, FS_CardinalityType

\* What leaving the queue does to it.
LEMMA LeaveQueueEffect ==
  ASSUME GateInv, NEW c \in Callers, LeaveQueue(c)
  PROVE  /\ queue' \in Seq(Callers) /\ Distinct(queue') /\ Queued' = Queued \ {c}
         /\ waiters' \in Nat /\ waiters' = Len(queue') /\ waiters' <= MaxQueueDepth
<1>1. /\ queue \in Seq(Callers) /\ Len(queue) \in Nat /\ DOMAIN queue = 1 .. Len(queue)
      /\ Distinct(queue)
      /\ waiters = Len(queue) /\ waiters <= MaxQueueDepth /\ MaxQueueDepth \in Nat
  BY LenProperties, GateAssumption DEF GateInv, TypeOK, CountersExact
<1>2. PICK k \in 1 .. Len(queue) :
        queue[k] = c /\ queue' = RemoveAt(queue, k)
  BY <1>1 DEF LeaveQueue
<1>3. queue' \in Seq(Callers) /\ Len(queue') = Len(queue) - 1
  BY <1>1, <1>2, Cut
<1>4. Distinct(queue') /\ Elements(queue') = Elements(queue) \ {queue[k]}
  BY <1>1, <1>2, Removed
<1>5. Queued = Elements(queue) /\ Queued' = Elements(queue')
  BY <1>1, <1>3, LenProperties DEF Queued, ToSet, Elements
<1>6. waiters' = waiters - 1
  BY DEF LeaveQueue
<1>. QED
  BY <1>1, <1>2, <1>3, <1>4, <1>5, <1>6

\* A permit given back is in one more hand or in the counter.
LEMMA PassOnEffect ==
  ASSUME GateInv, NEW c \in Callers, c \in Holders, NEW label \in {"idle"}, PassOn(c, label)
  PROVE  /\ pc' \in [Callers -> PC] /\ value' \in Nat
         /\ value' + Cardinality(Holders') = MaxConcurrency
         /\ pc'[c] = label
         /\ \/ Pending = {} /\ \A e \in Callers \ {c} : pc'[e] = pc[e]
            \/ \E d \in Pending : /\ Oldest(d) /\ d # c /\ pc'[d] = "granted"
                                  /\ \A e \in Callers \ {c, d} : pc'[e] = pc[e]
<1>1. /\ pc \in [Callers -> PC] /\ value \in Nat
      /\ value + Cardinality(Holders) = MaxConcurrency
      /\ Queued \subseteq Callers
      /\ label \in PC /\ "granted" \in PC /\ pc[c] # "waiting" /\ MaxConcurrency \in Nat
  BY GateAssumption DEF GateInv, TypeOK, CountersExact, PC, Holders
<1>2. /\ IsFiniteSet(Holders) /\ Cardinality(Holders) \in Nat
      /\ IsFiniteSet(Holders \ {c}) /\ Cardinality(Holders \ {c}) = Cardinality(Holders) - 1
  <2>1. Holders \subseteq Callers
    BY DEF Holders
  <2>. QED
    BY <2>1, FiniteCallers, FS_RemoveElement
<1>3. CASE Pending = {} /\ value' = value + 1 /\ pc' = [pc EXCEPT ![c] = label]
  <2>1. Holders' = Holders \ {c}
    BY <1>1, <1>3 DEF Holders
  <2>. QED
    BY <1>1, <1>2, <1>3, <2>1
<1>4. CASE \E d \in Pending : /\ Oldest(d) /\ value' = value
                              /\ pc' = [pc EXCEPT ![c] = label, ![d] = "granted"]
  <2>1. PICK d \in Pending : /\ Oldest(d) /\ value' = value
                             /\ pc' = [pc EXCEPT ![c] = label, ![d] = "granted"]
    BY <1>4
  <2>2. d \in Callers /\ pc[d] = "waiting" /\ d # c
    BY <1>1 DEF Pending
  <2>3. pc'[c] = label /\ pc'[d] = "granted" /\ \A e \in Callers \ {c, d} : pc'[e] = pc[e]
    BY <1>1, <2>1, <2>2
  <2>4. Holders' = (Holders \ {c}) \cup {d}
    BY <1>1, <2>2, <2>3 DEF Holders
  <2>5. d \notin Holders \ {c}
    BY <2>2 DEF Holders
  <2>6. PICK H : H = Holders \ {c}
    OBVIOUS
  <2>7. Cardinality(H \cup {d}) = Cardinality(H) + 1
    BY <1>2, <2>5, <2>6, FS_AddElement
  <2>8. Cardinality(Holders') = Cardinality(Holders)
    BY <1>2, <2>4, <2>6, <2>7
  <2>. QED
    BY <1>1, <1>2, <2>1, <2>2, <2>3, <2>8
<1>. QED
  BY <1>3, <1>4 DEF PassOn

\* What the invariant says of one caller.
LEMMA GateFacts ==
  ASSUME GateInv
  PROVE  /\ pc \in [Callers -> PC] /\ queue \in Seq(Callers) /\ Len(queue) \in Nat
         /\ value \in Nat /\ waiters \in Nat /\ detached \in 0 .. MaxDetached
         /\ Distinct(queue) /\ Queued = {c \in Callers : pc[c] \in Suspended}
         /\ Pending = {c \in Callers : pc[c] = "waiting"}
         /\ value + Cardinality(Holders) = MaxConcurrency
         /\ waiters = Len(queue) /\ waiters <= MaxQueueDepth
         /\ IsFiniteSet(Holders) /\ Cardinality(Holders) \in Nat
         /\ MaxConcurrency \in Nat \ {0} /\ MaxQueueDepth \in Nat \ {0} /\ MaxDetached \in Nat
<1>1. Pending = {c \in Callers : pc[c] = "waiting"}
  BY DEF GateInv, Pending, Suspended
<1>2. IsFiniteSet(Holders) /\ Cardinality(Holders) \in Nat
  BY FiniteCallers DEF Holders
<1>. QED
  BY <1>1, <1>2, LenProperties, GateAssumption DEF GateInv, TypeOK, CountersExact

LEMMA EnterKeeps ==
  ASSUME GateInv, NEW c \in Callers, EnterFree(c) \/ EnterQueue(c) \/ EnterBusy(c)
  PROVE  GateInv'
<1>1. CASE EnterFree(c)
  <2>1. /\ pc[c] = "idle" /\ value # 0 /\ \A d \in Queued : pc[d] = "cancelled"
        /\ value' = value - 1 /\ pc' = [pc EXCEPT ![c] = "running"]
        /\ UNCHANGED <<queue, waiters, detached>>
    BY <1>1 DEF EnterFree, Locked
  <2>2. pc' \in [Callers -> PC] /\ value' \in Nat
    BY <2>1, GateFacts DEF PC
  <2>3. Queued' = Queued /\ Queued' = {d \in Callers : pc'[d] \in Suspended}
    BY <2>1, GateFacts DEF Queued, Suspended
  <2>4. Holders' = Holders \cup {c} /\ c \notin Holders
    BY <2>1, GateFacts DEF Holders
  <2>5. Cardinality(Holders') = Cardinality(Holders) + 1
    BY <2>4, GateFacts, FS_AddElement
  <2>6. value' + Cardinality(Holders') = MaxConcurrency
    BY <2>1, <2>2, <2>5, GateFacts
  <2>7. Pending' = {}
    <3>1. \A d \in Queued : pc'[d] # "waiting"
      BY <2>1, GateFacts
    <3>. QED
      BY <3>1, <2>3 DEF Pending
  <2>8. NoLostWakeup'
    BY <2>7 DEF NoLostWakeup
  <2>9. UNCHANGED queue
    BY <2>1
  <2>. QED
    BY <2>1, <2>2, <2>3, <2>6, <2>8, <2>9, GateFacts DEF GateInv, TypeOK, CountersExact, Distinct
<1>2. CASE EnterQueue(c)
  <2>1. /\ pc[c] = "idle" /\ waiters < MaxQueueDepth
        /\ value = 0 \/ \E d \in Queued : pc[d] # "cancelled"
        /\ waiters' = waiters + 1 /\ queue' = Append(queue, c)
        /\ pc' = [pc EXCEPT ![c] = "waiting"]
        /\ UNCHANGED <<value, detached>>
    BY <1>2 DEF EnterQueue, Locked, HasQueueRoom
  <2>2. pc' \in [Callers -> PC]
    BY <2>1, GateFacts DEF PC
  <2>3. /\ queue' \in Seq(Callers) /\ Len(queue') = Len(queue) + 1
        /\ \A i \in 1 .. Len(queue) : queue'[i] = queue[i]
        /\ queue'[Len(queue) + 1] = c
    BY <2>1, GateFacts, AppendProperties
  <2>4. c \notin Queued /\ Queued = Elements(queue) /\ Queued' = Elements(queue')
    BY <2>1, <2>3, GateFacts, LenProperties DEF Queued, ToSet, Elements, Suspended
  <2>5. Queued' = Queued \cup {c}
    <3>1. 1 .. Len(queue') = (1 .. Len(queue)) \cup {Len(queue) + 1}
      BY <2>3, GateFacts
    <3>2. Elements(queue') = {queue'[i] : i \in (1 .. Len(queue)) \cup {Len(queue) + 1}}
      BY <3>1, Zenon DEF Elements
    <3>. QED
      BY <2>3, <2>4, <3>2 DEF Elements
  <2>6. Distinct(queue')
    <3>1. \A i \in 1 .. Len(queue) : queue[i] # c
      BY <2>4 DEF Elements
    <3>2. ASSUME NEW i \in 1 .. Len(queue'), NEW j \in 1 .. Len(queue'), queue'[i] = queue'[j]
          PROVE  i = j
      <4>1. CASE i \in 1 .. Len(queue) /\ j \in 1 .. Len(queue)
        BY <2>3, <3>2, <4>1, GateFacts DEF Distinct
      <4>2. CASE i = Len(queue) + 1 \/ j = Len(queue) + 1
        BY <2>3, <3>1, <3>2, <4>2, GateFacts
      <4>. QED
        BY <2>3, <4>1, <4>2, GateFacts
    <3>. QED
      BY <3>2 DEF Distinct
  <2>7. Queued' = {d \in Callers : pc'[d] \in Suspended}
    BY <2>1, <2>4, <2>5, GateFacts DEF Suspended
  <2>8. Holders' = Holders
    BY <2>1, GateFacts DEF Holders
  <2>9. CountersExact'
    BY <2>1, <2>3, <2>8, GateFacts DEF CountersExact
  <2>10. NoLostWakeup'
    <3>1. CASE value = 0
      BY <2>1, <3>1 DEF NoLostWakeup
    <3>2. CASE value # 0 /\ \E d \in Queued : pc[d] \in {"granted", "revoked"}
      BY <2>1, <2>4, <2>5, <3>2, GateFacts DEF NoLostWakeup
    <3>3. CASE value # 0 /\ \A d \in Queued : pc[d] \notin {"granted", "revoked"}
      <4>1. Pending = {}
        BY <3>3, GateFacts DEF GateInv, NoLostWakeup
      <4>. QED
        BY <2>1, <3>3, <4>1, GateFacts DEF Suspended
    <3>. QED
      BY <3>1, <3>2, <3>3
  <2>. QED
    BY <2>1, <2>2, <2>3, <2>6, <2>7, <2>9, <2>10, GateFacts DEF GateInv, TypeOK
<1>3. CASE EnterBusy(c)
  BY <1>3 DEF EnterBusy, vars, GateInv, TypeOK, Distinct, Queued, CountersExact, Holders,
     NoLostWakeup, Pending
<1>. QED
  BY <1>1, <1>2, <1>3

\* A granted caller resumes from acquire().
LEMMA ResumeKeeps ==
  ASSUME GateInv, NEW c \in Callers, Resume(c)
  PROVE  GateInv'
<1>1. /\ queue' \in Seq(Callers) /\ Distinct(queue') /\ Queued' = Queued \ {c}
      /\ waiters' \in Nat /\ waiters' = Len(queue') /\ waiters' <= MaxQueueDepth
  BY LeaveQueueEffect DEF Resume
<1>2. Distinct(queue)' /\ pc[c] = "granted" /\ detached' = detached
  BY <1>1 DEF Resume, Distinct
<1>3. CASE /\ value = 0 \/ Pending = {}
           /\ value' = value /\ pc' = [pc EXCEPT ![c] = "running"]
  <2>1. pc' \in [Callers -> PC] /\ value' \in Nat
    BY <1>3, GateFacts DEF PC
  <2>2. Queued' = {d \in Callers : pc'[d] \in Suspended}
    BY <1>1, <1>2, <1>3, GateFacts DEF Suspended
  <2>3. Holders' = Holders
    BY <1>2, <1>3, GateFacts DEF Holders
  <2>4. CountersExact'
    BY <1>1, <1>3, <2>3, GateFacts DEF CountersExact
  <2>5. Pending' = Pending
    BY <1>1, <1>2, <1>3, GateFacts DEF Pending
  <2>6. NoLostWakeup'
    BY <1>3, <2>5 DEF NoLostWakeup
  <2>. QED
    BY <1>1, <1>2, <2>1, <2>2, <2>4, <2>6, GateFacts DEF GateInv, TypeOK
<1>4. CASE /\ value > 0 /\ value' = value - 1
           /\ \E d \in Pending :
                Oldest(d) /\ pc' = [pc EXCEPT ![c] = "running", ![d] = "granted"]
  <2>1. PICK d \in Pending : pc' = [pc EXCEPT ![c] = "running", ![d] = "granted"]
    BY <1>4
  <2>2. d \in Callers /\ d # c /\ pc[d] = "waiting"
    BY <1>2, GateFacts
  <2>3. pc'[c] = "running" /\ pc'[d] = "granted" /\ \A e \in Callers \ {c, d} : pc'[e] = pc[e]
    BY <2>1, <2>2, GateFacts
  <2>4. pc' \in [Callers -> PC] /\ value' \in Nat
    BY <1>4, <2>1, GateFacts DEF PC
  <2>5. Queued' = {e \in Callers : pc'[e] \in Suspended}
    BY <1>1, <2>2, <2>3, GateFacts DEF Suspended
  <2>6. Holders' = Holders \cup {d} /\ d \notin Holders
    BY <1>2, <2>2, <2>3 DEF Holders
  <2>7. Cardinality(Holders') = Cardinality(Holders) + 1
    BY <2>6, GateFacts, FS_AddElement
  <2>8. CountersExact'
    BY <1>1, <1>4, <2>7, GateFacts DEF CountersExact
  <2>9. NoLostWakeup'
    BY <2>2, <2>3, <2>5 DEF NoLostWakeup, Suspended
  <2>. QED
    BY <1>1, <1>2, <2>4, <2>5, <2>8, <2>9, GateFacts DEF GateInv, TypeOK
<1>. QED
  BY <1>3, <1>4 DEF Resume

\* A caller whose future was cancelled resumes.
LEMMA ResumeCancelledKeeps ==
  ASSUME GateInv, NEW c \in Callers, ResumeCancelled(c)
  PROVE  GateInv'
<1>1. /\ queue' \in Seq(Callers) /\ Distinct(queue') /\ Queued' = Queued \ {c}
      /\ waiters' \in Nat /\ waiters' = Len(queue') /\ waiters' <= MaxQueueDepth
  BY LeaveQueueEffect DEF ResumeCancelled
<1>2. /\ Distinct(queue)' /\ pc[c] = "cancelled" /\ pc' = [pc EXCEPT ![c] = "idle"]
      /\ value' = value /\ detached' = detached
  BY <1>1 DEF ResumeCancelled, Distinct
<1>3. pc' \in [Callers -> PC]
  BY <1>2, GateFacts DEF PC
<1>4. Queued' = {d \in Callers : pc'[d] \in Suspended}
  BY <1>1, <1>2, GateFacts DEF Suspended
<1>5. Holders' = Holders
  BY <1>2, GateFacts DEF Holders
<1>6. CountersExact'
  BY <1>1, <1>2, <1>5, GateFacts DEF CountersExact
<1>7. Pending' = Pending
  BY <1>1, <1>2, GateFacts DEF Pending
<1>8. \A d \in Queued : pc[d] \in {"granted", "revoked"} => d \in Queued' /\ pc'[d] = pc[d]
  BY <1>1, <1>2, GateFacts
<1>9. NoLostWakeup'
  BY <1>2, <1>7, <1>8 DEF NoLostWakeup, GateInv
<1>. QED
  BY <1>1, <1>2, <1>3, <1>4, <1>6, <1>9, GateFacts DEF GateInv, TypeOK

\* A caller gives its permit back; it leaves the queue if it is still there.
LEMMA PassOnKeeps ==
  ASSUME GateInv, NEW c \in Callers, c \in Holders, PassOn(c, "idle"),
         \/ pc[c] = "revoked" /\ LeaveQueue(c)
         \/ pc[c] \in {"running", "returned"} /\ UNCHANGED <<queue, waiters>>,
         detached' \in 0 .. MaxDetached
  PROVE  GateInv'
<1>1. /\ pc' \in [Callers -> PC] /\ value' \in Nat
      /\ value' + Cardinality(Holders') = MaxConcurrency
      /\ pc'[c] = "idle"
      /\ \/ Pending = {} /\ \A e \in Callers \ {c} : pc'[e] = pc[e]
         \/ \E d \in Pending : /\ d # c /\ pc'[d] = "granted"
                               /\ \A e \in Callers \ {c, d} : pc'[e] = pc[e]
  BY PassOnEffect
<1>2. /\ queue' \in Seq(Callers) /\ Distinct(queue)' /\ Queued' = Queued \ {c}
      /\ waiters' \in Nat /\ waiters' = Len(queue') /\ waiters' <= MaxQueueDepth
  <2>1. CASE pc[c] = "revoked" /\ LeaveQueue(c)
    BY <2>1, LeaveQueueEffect DEF Distinct
  <2>2. CASE pc[c] \in {"running", "returned"} /\ UNCHANGED <<queue, waiters>>
    <3>1. c \notin Queued /\ Queued' = Queued
      BY <2>2, GateFacts DEF Suspended, Queued
    <3>. QED
      BY <2>2, <3>1, GateFacts DEF Distinct
  <2>. QED
    BY <2>1, <2>2
<1>3. CountersExact'
  BY <1>1, <1>2 DEF CountersExact
<1>4. Queued' = {d \in Callers : pc'[d] \in Suspended} /\ NoLostWakeup'
  <2>1. CASE Pending = {} /\ \A e \in Callers \ {c} : pc'[e] = pc[e]
    <3>1. Queued' = {d \in Callers : pc'[d] \in Suspended}
      BY <1>1, <1>2, <2>1, GateFacts DEF Suspended
    <3>2. Pending' = {}
      BY <1>1, <1>2, <2>1, GateFacts DEF Pending
    <3>. QED
      BY <3>1, <3>2 DEF NoLostWakeup
  <2>2. CASE \E d \in Pending : /\ d # c /\ pc'[d] = "granted"
                               /\ \A e \in Callers \ {c, d} : pc'[e] = pc[e]
    <3>1. PICK d \in Pending : /\ d # c /\ pc'[d] = "granted"
                               /\ \A e \in Callers \ {c, d} : pc'[e] = pc[e]
      BY <2>2
    <3>2. d \in Callers /\ d \in Queued'
      BY <1>2, <3>1, GateFacts DEF Pending
    <3>3. Queued' = {e \in Callers : pc'[e] \in Suspended}
      BY <1>1, <1>2, <3>1, <3>2, GateFacts DEF Suspended
    <3>. QED
      BY <3>1, <3>2, <3>3 DEF NoLostWakeup
  <2>. QED
    BY <1>1, <2>1, <2>2
<1>. QED
  BY <1>1, <1>2, <1>3, <1>4 DEF GateInv, TypeOK

\* A caller is cancelled in the queue: it stays there until it resumes.
LEMMA CancelWaitingKeeps ==
  ASSUME GateInv, NEW c \in Callers, CancelWaiting(c)
  PROVE  GateInv'
<1>1. /\ pc[c] \in {"waiting", "granted"}
      /\ pc' = [pc EXCEPT ![c] = IF pc[c] = "waiting" THEN "cancelled" ELSE "revoked"]
      /\ UNCHANGED <<queue, value, waiters, detached>>
  BY DEF CancelWaiting
<1>2. pc' \in [Callers -> PC]
  BY <1>1, GateFacts DEF PC
<1>3. Queued' = Queued /\ Queued' = {d \in Callers : pc'[d] \in Suspended}
  BY <1>1, GateFacts DEF Suspended, Queued
<1>4. Holders' = Holders
  BY <1>1, GateFacts DEF Holders
<1>5. CountersExact'
  BY <1>1, <1>4, GateFacts DEF CountersExact
<1>6. Pending' \subseteq Pending
  BY <1>1, <1>3, GateFacts DEF Pending
<1>7. \A d \in Queued : pc[d] \in {"granted", "revoked"} => pc'[d] \in {"granted", "revoked"}
  BY <1>1, GateFacts
<1>8. NoLostWakeup'
  <2>1. SUFFICES ASSUME value' > 0, Pending' # {}
                 PROVE  \E d \in Queued' : pc'[d] \in {"granted", "revoked"}
    BY DEF NoLostWakeup
  <2>2. PICK d \in Queued : pc[d] \in {"granted", "revoked"}
    BY <1>1, <1>6, <2>1 DEF NoLostWakeup, GateInv
  <2>. QED
    BY <1>3, <1>7, <2>2
<1>. QED
  BY <1>1, <1>2, <1>3, <1>5, <1>8, GateFacts DEF GateInv, TypeOK, Distinct

\* The worker thread of a caller, or one without a caller, ends.
LEMMA ThreadKeeps ==
  ASSUME GateInv, (\E c \in Callers : ThreadEnds(c)) \/ DetachedEnds
  PROVE  GateInv'
<1>1. CASE DetachedEnds
  <2>1. detached' \in 0 .. MaxDetached
    BY <1>1, GateFacts DEF DetachedEnds
  <2>. QED
    BY <1>1, <2>1 DEF DetachedEnds, GateInv, TypeOK, Distinct, Queued, CountersExact, Holders,
       NoLostWakeup, Pending
<1>2. CASE \E c \in Callers : ThreadEnds(c)
  <2>1. PICK c \in Callers : ThreadEnds(c)
    BY <1>2
  <2>2. /\ pc[c] = "running" /\ pc' = [pc EXCEPT ![c] = "returned"]
        /\ UNCHANGED <<queue, value, waiters, detached>>
    BY <2>1 DEF ThreadEnds
  <2>3. pc' \in [Callers -> PC]
    BY <2>2, GateFacts DEF PC
  <2>4. Queued' = Queued /\ Queued' = {d \in Callers : pc'[d] \in Suspended}
    BY <2>2, GateFacts DEF Suspended, Queued
  <2>5. Holders' = Holders
    BY <2>2, GateFacts DEF Holders
  <2>6. CountersExact'
    BY <2>2, <2>5, GateFacts DEF CountersExact
  <2>7. Pending' = Pending
    BY <2>2, <2>4, GateFacts DEF Pending
  <2>8. \A d \in Queued : pc[d] \in {"granted", "revoked"} => pc'[d] = pc[d]
    BY <2>2, GateFacts
  <2>9. NoLostWakeup'
    BY <2>2, <2>4, <2>7, <2>8 DEF NoLostWakeup, GateInv
  <2>. QED
    BY <2>2, <2>3, <2>4, <2>6, <2>9, GateFacts DEF GateInv, TypeOK, Distinct
<1>. QED
  BY <1>1, <1>2

LEMMA GateInvInit ==
  ASSUME Init
  PROVE  GateInv
<1>1. /\ Queued = {} /\ Pending = {} /\ Holders = {} /\ Len(queue) = 0
      /\ queue \in Seq(Callers) /\ Distinct(queue)
  BY DEF Init, Queued, ToSet, Pending, Holders, Distinct
<1>2. Cardinality(Holders) = 0
  BY <1>1, FS_EmptySet
<1>3. Queued = {c \in Callers : pc[c] \in Suspended}
  BY <1>1 DEF Init, Suspended
<1>. QED
  BY <1>1, <1>2, <1>3, GateAssumption
     DEF Init, GateInv, TypeOK, PC, CountersExact, NoLostWakeup

LEMMA GateInvStep ==
  ASSUME GateInv, [Next]_vars
  PROVE  GateInv'
<1>1. CASE UNCHANGED vars
  BY <1>1 DEF vars, GateInv, TypeOK, Distinct, Queued, CountersExact, Holders, NoLostWakeup, Pending
<1>2. ASSUME NEW c \in Callers, Step(c) PROVE GateInv'
  <2>1. CASE EnterFree(c) \/ EnterQueue(c) \/ EnterBusy(c)
    BY <2>1, EnterKeeps
  <2>2. CASE Resume(c)
    BY <2>2, ResumeKeeps
  <2>3. CASE ResumeCancelled(c)
    BY <2>3, ResumeCancelledKeeps
  <2>4. CASE ResumeRevoked(c) \/ Leave(c) \/ CancelRunning(c)
    <3>1. c \in Holders /\ PassOn(c, "idle")
      BY <2>4 DEF ResumeRevoked, Leave, CancelRunning, Holders
    <3>2. \/ pc[c] = "revoked" /\ LeaveQueue(c)
          \/ pc[c] \in {"running", "returned"} /\ UNCHANGED <<queue, waiters>>
      BY <2>4 DEF ResumeRevoked, Leave, CancelRunning
    <3>3. detached' \in 0 .. MaxDetached
      BY <2>4, GateFacts DEF ResumeRevoked, Leave, CancelRunning
    <3>. QED
      BY <3>1, <3>2, <3>3, PassOnKeeps
  <2>5. CASE ThreadEnds(c)
    BY <2>5, ThreadKeeps
  <2>6. CASE CancelWaiting(c)
    BY <2>6, CancelWaitingKeeps
  <2>. QED
    BY <1>2, <2>1, <2>2, <2>3, <2>4, <2>5, <2>6 DEF Step, Progress
<1>. QED
  BY <1>1, <1>2, ThreadKeeps DEF Next
-----------------------------------------------------------------------------
(* First come, first served *)

Before(d, c) == \E i, j \in 1 .. Len(queue) : i < j /\ queue[i] = d /\ queue[j] = c

\* The oldest pending waiter came before every other.
LEMMA OldestFirst ==
  ASSUME GateInv, NEW c \in Callers, NEW d \in Callers, c # d, pc[c] = "waiting", Oldest(d)
  PROVE  Before(d, c)
<1>1. DOMAIN queue = 1 .. Len(queue) /\ Len(queue) \in Nat
  BY GateFacts, LenProperties
<1>2. c \in Pending
  BY GateFacts
<1>3. PICK i \in 1 .. Len(queue) : queue[i] = d /\ \A j \in 1 .. i - 1 : queue[j] \notin Pending
  BY <1>1 DEF Oldest
<1>4. PICK j \in 1 .. Len(queue) : queue[j] = c
  BY <1>1, <1>2 DEF Pending, Queued, ToSet
<1>5. i < j
  BY <1>1, <1>2, <1>3, <1>4
<1>. QED
  BY <1>3, <1>4, <1>5 DEF Before

\* Whoever is woken in a step is the oldest, and nobody runs without having waited
\* while somebody is waiting.
LEMMA StepInTurn ==
  ASSUME GateInv, [Next]_vars, NEW c \in Callers, NEW d \in Callers, pc[c] = "waiting"
  PROVE  /\ pc[d] = "idle" => pc'[d] # "running"
         /\ pc[d] = "waiting" /\ pc'[d] = "granted" => Oldest(d)
<1>1. CASE UNCHANGED vars \/ DetachedEnds
  BY <1>1 DEF vars, DetachedEnds
<1>2. ASSUME NEW e \in Callers, Step(e)
      PROVE  /\ pc[d] = "idle" => pc'[d] # "running"
             /\ pc[d] = "waiting" /\ pc'[d] = "granted" => Oldest(d)
  <2>1. CASE EnterFree(e)
    <3>1. c \in Queued
      BY GateFacts DEF Suspended
    <3>. QED
      BY <2>1, <3>1 DEF EnterFree, Locked
  <2>2. CASE Resume(e)
    <3>1. \/ pc' = [pc EXCEPT ![e] = "running"]
          \/ \E f \in Pending :
               Oldest(f) /\ pc' = [pc EXCEPT ![e] = "running", ![f] = "granted"]
      BY <2>2 DEF Resume
    <3>2. pc[e] = "granted"
      BY <2>2 DEF Resume
    <3>3. CASE pc' = [pc EXCEPT ![e] = "running"]
      BY <3>2, <3>3, GateFacts
    <3>4. ASSUME NEW f \in Pending, Oldest(f), pc' = [pc EXCEPT ![e] = "running", ![f] = "granted"]
          PROVE  /\ pc[d] = "idle" => pc'[d] # "running"
                 /\ pc[d] = "waiting" /\ pc'[d] = "granted" => Oldest(d)
      BY <3>2, <3>4, GateFacts
    <3>. QED
      BY <3>1, <3>3, <3>4
  <2>3. CASE ResumeRevoked(e) \/ Leave(e) \/ CancelRunning(e)
    <3>1. e \in Holders /\ PassOn(e, "idle")
      BY <2>3 DEF ResumeRevoked, Leave, CancelRunning, Holders
    <3>2. /\ pc'[e] = "idle"
          /\ \/ \A f \in Callers \ {e} : pc'[f] = pc[f]
             \/ \E f \in Pending : /\ Oldest(f) /\ pc'[f] = "granted"
                                   /\ \A g \in Callers \ {e, f} : pc'[g] = pc[g]
      BY <3>1, PassOnEffect
    <3>3. CASE \A f \in Callers \ {e} : pc'[f] = pc[f]
      BY <3>2, <3>3
    <3>4. ASSUME NEW f \in Pending, Oldest(f), pc'[f] = "granted",
                 \A g \in Callers \ {e, f} : pc'[g] = pc[g]
          PROVE  /\ pc[d] = "idle" => pc'[d] # "running"
                 /\ pc[d] = "waiting" /\ pc'[d] = "granted" => Oldest(d)
      BY <3>2, <3>4, GateFacts
    <3>. QED
      BY <3>2, <3>3, <3>4
  <2>4. CASE EnterQueue(e) \/ EnterBusy(e) \/ ResumeCancelled(e) \/ ThreadEnds(e) \/ CancelWaiting(e)
    <3>1. \/ pc' = pc
          \/ \E l \in {"waiting", "idle", "cancelled", "revoked"} : pc' = [pc EXCEPT ![e] = l]
          \/ pc[e] = "running" /\ pc' = [pc EXCEPT ![e] = "returned"]
      BY <2>4 DEF EnterQueue, EnterBusy, vars, ResumeCancelled, ThreadEnds, CancelWaiting
    <3>. QED
      BY <3>1, GateFacts
  <2>. QED
    BY <1>2, <2>1, <2>2, <2>3, <2>4 DEF Step, Progress
<1>. QED
  BY <1>1, <1>2 DEF Next
-----------------------------------------------------------------------------
(* The theorems *)

\* Every variable of the gate keeps its type: in particular the semaphore's value and
\* the gate's counter never fall below zero.
THEOREM TypeCorrect == Spec => []TypeOK
<1>1. GateInv => TypeOK
  BY DEF GateInv
<1>. QED
  BY <1>1, GateInvInit, GateInvStep, PTL DEF Spec

\* Whatever the order in which waiting callers are woken, cancelled and resumed, permits
\* are neither lost nor duplicated, and the gate's counter is the length of the
\* semaphore's queue and within its limit.
THEOREM PermitsConserved == Spec => []CountersExact
<1>1. GateInv => CountersExact
  BY DEF GateInv
<1>. QED
  BY <1>1, GateInvInit, GateInvStep, PTL DEF Spec

\* While a permit is free, nobody sleeps in the queue without a resuming caller that
\* will pass it on: a cancelled caller never swallows a wake-up.
THEOREM WakeupsKept == Spec => []NoLostWakeup
<1>1. GateInv => NoLostWakeup
  BY DEF GateInv
<1>. QED
  BY <1>1, GateInvInit, GateInvStep, PTL DEF Spec

\* First come, first served: a permit assigned in a step goes to the caller that has
\* waited longest, and nobody enters past a waiting caller.
THEOREM FirstComeFirstServed == Spec => Fifo
<1>. DEFINE InTurn ==
       \A c, d \in Callers :
         pc[c] = "waiting" /\ pc'[c] = "waiting" =>
           /\ pc[d] = "idle" => pc'[d] # "running"
           /\ pc[d] = "waiting" /\ pc'[d] = "granted" =>
                \E i, j \in 1 .. Len(queue) : i < j /\ queue[i] = d /\ queue[j] = c
<1>1. GateInv /\ [Next]_vars => InTurn
  <2>. SUFFICES ASSUME GateInv, [Next]_vars, NEW c \in Callers, NEW d \in Callers,
                       pc[c] = "waiting", pc'[c] = "waiting"
                PROVE  /\ pc[d] = "idle" => pc'[d] # "running"
                       /\ pc[d] = "waiting" /\ pc'[d] = "granted" => Before(d, c)
    BY Zenon DEF Before
  <2>. QED
    BY StepInTurn, OldestFirst
<1>2. GateInv /\ [Next]_vars => [InTurn]_vars
  BY <1>1
<1>. QED
  BY <1>2, GateInvInit, GateInvStep, PTL DEF Spec, Fifo
=============================================================================
