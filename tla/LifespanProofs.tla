--------------------------- MODULE LifespanProofs ---------------------------
(***************************************************************************)
(* Proofs about Lifespan, for every number of processes and every time-out: *)
(* types, the setup lock, and what the exit stack holds.                   *)
(***************************************************************************)
EXTENDS Lifespan, SequenceTheorems, TLAPS

(***************************************************************************)
(* Types.                                                                  *)
(***************************************************************************)
Pcs == Starting \cup Settled \cup {"closing"}

\* A step of one process, which goes on at one of its places.
LEMMA ProcessTyped ==
  ASSUME TypeOK, NEW p \in Processes,
         \/ Begin(p) \/ Proceed(p) \/ GroqFails(p) \/ AcquireLost(p) \/ Raise(p) \/ Cancel(p)
         \/ Shutdown(p) \/ Crash(p)
  PROVE  TypeOK'
<1>1. /\ pc \in [Processes -> Pcs] /\ stack \in [Processes -> Seq(Resources)]
      /\ open \in [Processes -> SUBSET Resources] /\ store \in [Processes -> BOOLEAN]
      /\ ending \in [Processes -> {"down", "failed"}] /\ waited \in [Processes -> Nat]
      /\ lock \in Processes \cup {Nobody} /\ lockTtl \in 0 .. LockTtl
      /\ LockTtl \in Nat \ {0} /\ Patience \in Nat \ {0}
  BY LifespanAssumption DEF TypeOK, Pcs
<1>2. UNCHANGED settings
  BY DEF Begin, Proceed, GroqFails, AcquireLost, Raise, Cancel, Shutdown, Crash,
     PoolOpens, ModelLoads, IndexesValid, Pass, ConfigureClient, ConnectRedis,
     ConfigureRedis, OpenCheckpointer, AcquireLock, GiveUp, SetUp, Release, Abort,
     ReleaseFails, Close, Closed
<1>3. pc' \in [Processes -> Pcs]
  <2>1. ASSUME NEW at \in Pcs, pc' = [pc EXCEPT ![p] = at]
        PROVE  pc' \in [Processes -> Pcs]
    BY <1>1, <2>1
  <2>2. {"down", "ready", "failed", "closing", "setup", "release", "abort"} \cup Plain
          \subseteq Pcs /\ ending[p] \in Pcs
    BY <1>1 DEF Pcs, Starting, Settled
  <2>3. CASE UNCHANGED pc
    BY <1>1, <2>3
  <2>4. CASE \/ Begin(p) \/ GroqFails(p) \/ AcquireLost(p) \/ Raise(p) \/ Cancel(p)
             \/ Shutdown(p) \/ Crash(p)
    BY <2>1, <2>2, <2>4 DEF Begin, GroqFails, AcquireLost, Raise, Cancel, Shutdown, Crash,
       Goto, Leave, Plain
  <2>5. CASE \/ PoolOpens(p) \/ ModelLoads(p) \/ IndexesValid(p) \/ ConfigureClient(p)
             \/ ConnectRedis(p) \/ ConfigureRedis(p) \/ OpenCheckpointer(p)
    BY <2>1, <2>2, <2>5 DEF PoolOpens, ModelLoads, IndexesValid, Pass, ConfigureClient,
       ConnectRedis, ConfigureRedis, OpenCheckpointer, Goto, Plain
  <2>6. CASE \/ AcquireLock(p) \/ GiveUp(p) \/ SetUp(p) \/ Release(p) \/ Abort(p)
             \/ ReleaseFails(p) \/ Close(p) \/ Closed(p)
    BY <2>1, <2>2, <2>3, <2>6 DEF AcquireLock, GiveUp, SetUp, Release, Abort, ReleaseFails,
       Close, Closed, Goto, Leave
  <2>. QED
    BY <2>4, <2>5, <2>6 DEF Proceed
<1>4. stack' \in [Processes -> Seq(Resources)] /\ open' \in [Processes -> SUBSET Resources]
  <2>1. stack[p] \in Seq(Resources) /\ open[p] \subseteq Resources
    BY <1>1
  <2>2. /\ <<"pool">> \in Seq(Resources) /\ <<>> \in Seq(Resources)
        /\ <<"cache", "limiter", "groq">> \in Seq(Resources)
        /\ <<"cache", "limiter">> \in Seq(Resources)
    BY DEF Resources
  <2>3. ASSUME NEW s \in Seq(Resources), NEW o \in SUBSET Resources,
               stack' = [stack EXCEPT ![p] = s], open' = [open EXCEPT ![p] = o]
        PROVE  stack' \in [Processes -> Seq(Resources)] /\ open' \in [Processes -> SUBSET Resources]
    BY <1>1, <2>3
  <2>4. CASE UNCHANGED <<stack, open>>
    BY <1>1, <2>4
  <2>5. CASE Begin(p)
    BY <2>2, <2>3, <2>5 DEF Begin, Resources
  <2>6. CASE ConfigureClient(p)
    <3>1. Append(stack[p], "client") \in Seq(Resources)
      BY <2>1, AppendProperties DEF Resources
    <3>2. open[p] \cup {"client"} \in SUBSET Resources
      BY <2>1 DEF Resources
    <3>. QED
      BY <3>1, <3>2, <2>3, <2>6 DEF ConfigureClient
  <2>7. CASE ConnectRedis(p)
    <3>1. open[p] \cup {"limiter"} \in SUBSET Resources
      BY <2>1 DEF Resources
    <3>. QED
      BY <1>1, <3>1, <2>7 DEF ConnectRedis
  <2>8. CASE ConfigureRedis(p)
    <3>1. stack[p] \o <<"cache", "limiter", "groq">> \in Seq(Resources)
      BY <2>1, <2>2, ConcatProperties
    <3>2. open[p] \cup {"cache", "groq"} \in SUBSET Resources
      BY <2>1 DEF Resources
    <3>. QED
      BY <3>1, <3>2, <2>3, <2>8 DEF ConfigureRedis
  <2>9. CASE GroqFails(p)
    <3>1. stack[p] \o <<"cache", "limiter">> \in Seq(Resources)
      BY <2>1, <2>2, ConcatProperties
    <3>2. open[p] \cup {"cache"} \in SUBSET Resources
      BY <2>1 DEF Resources
    <3>. QED
      BY <3>1, <3>2, <2>3, <2>9 DEF GroqFails
  <2>10. CASE OpenCheckpointer(p)
    <3>1. Append(stack[p], "sqlite") \in Seq(Resources)
      BY <2>1, AppendProperties DEF Resources
    <3>2. open[p] \cup {"sqlite"} \in SUBSET Resources
      BY <2>1 DEF Resources
    <3>. QED
      BY <3>1, <3>2, <2>3, <2>4, <2>10 DEF OpenCheckpointer
  <2>11. CASE Close(p)
    <3>. DEFINE n == Len(stack[p])
    <3>1. SubSeq(stack[p], 1, n - 1) \in Seq(Resources)
      <4>1. n \in Nat /\ n > 0 /\ \A i \in 1 .. n : stack[p][i] \in Resources
        BY <2>1, <2>11, LenProperties, ElementOfSeq DEF Close
      <4>. QED
        BY <2>1, <4>1, SubSeqProperties
    <3>2. open[p] \ {stack[p][n]} \in SUBSET Resources
      BY <2>1
    <3>. QED
      BY <3>1, <3>2, <2>3, <2>11 DEF Close
  <2>12. CASE Crash(p)
    <3>1. {} \in SUBSET Resources
      OBVIOUS
    <3>. QED
      BY <3>1, <2>2, <2>3, <2>12 DEF Crash
  <2>. QED
    BY <2>4, <2>5, <2>6, <2>7, <2>8, <2>9, <2>10, <2>11, <2>12
       DEF Proceed, AcquireLost, Raise, Cancel, Shutdown, PoolOpens, ModelLoads,
           IndexesValid, Pass, AcquireLock, GiveUp, SetUp, Release, Abort, ReleaseFails, Closed
<1>5. store' \in [Processes -> BOOLEAN] /\ ending' \in [Processes -> {"down", "failed"}]
  <2>1. ASSUME NEW b \in BOOLEAN, store' = [store EXCEPT ![p] = b]
        PROVE  store' \in [Processes -> BOOLEAN]
    BY <1>1, <2>1
  <2>2. ASSUME NEW e \in {"down", "failed"}, ending' = [ending EXCEPT ![p] = e]
        PROVE  ending' \in [Processes -> {"down", "failed"}]
    BY <1>1, <2>2
  <2>3. store[p] \in BOOLEAN
    BY <1>1
  <2>4. \/ UNCHANGED ending
        \/ ending' = [ending EXCEPT ![p] = "down"] \/ ending' = [ending EXCEPT ![p] = "failed"]
    BY DEF Begin, Proceed, GroqFails, AcquireLost, Raise, Cancel, Shutdown, Crash,
       PoolOpens, ModelLoads, IndexesValid, Pass, ConfigureClient, ConnectRedis,
       ConfigureRedis, OpenCheckpointer, AcquireLock, GiveUp, SetUp, Release, Abort,
       ReleaseFails, Close, Closed
  <2>5. CASE Closed(p)
    <3>1. store' = [store EXCEPT ![p] = store[p]] \/ store' = [store EXCEPT ![p] = FALSE]
      BY <2>5 DEF Closed
    <3>. QED
      BY <1>1, <2>1, <2>2, <2>3, <2>4, <3>1
  <2>6. CASE ~Closed(p)
    <3>1. \/ UNCHANGED store
          \/ store' = [store EXCEPT ![p] = TRUE] \/ store' = [store EXCEPT ![p] = FALSE]
      BY <2>6 DEF Begin, Proceed, GroqFails, AcquireLost, Raise, Cancel, Shutdown, Crash,
         PoolOpens, ModelLoads, IndexesValid, Pass, ConfigureClient, ConnectRedis,
         ConfigureRedis, OpenCheckpointer, AcquireLock, GiveUp, SetUp, Release, Abort,
         ReleaseFails, Close
    <3>. QED
      BY <1>1, <2>1, <2>2, <2>4, <3>1
  <2>. QED
    BY <2>5, <2>6
<1>6. /\ waited' \in [Processes -> Nat]
      /\ lock' \in Processes \cup {Nobody} /\ lockTtl' \in 0 .. LockTtl
  <2>1. UNCHANGED waited \/ waited' = [waited EXCEPT ![p] = 0]
    BY DEF Begin, Proceed, GroqFails, AcquireLost, Raise, Cancel, Shutdown, Crash, Leave,
       PoolOpens, ModelLoads, IndexesValid, Pass, ConfigureClient, ConnectRedis,
       ConfigureRedis, OpenCheckpointer, AcquireLock, GiveUp, SetUp, Release, Abort,
       ReleaseFails, Close, Closed
  <2>2. UNCHANGED lockVars \/ Take(p) \/ Free(p)
    BY DEF Begin, Proceed, GroqFails, AcquireLost, Raise, Cancel, Shutdown, Crash,
       PoolOpens, ModelLoads, IndexesValid, Pass, ConfigureClient, ConnectRedis,
       ConfigureRedis, OpenCheckpointer, AcquireLock, GiveUp, SetUp, Release, Abort,
       ReleaseFails, Close, Closed
  <2>3. waited' \in [Processes -> Nat]
    <3>1. waited \in [Processes -> Nat]
      BY <1>1
    <3>. QED
      BY <3>1, <2>1
  <2>4. lock' \in Processes \cup {Nobody} /\ lockTtl' \in 0 .. LockTtl
    BY <1>1, <2>2 DEF lockVars, Take, Free
  <2>. QED
    BY <2>3, <2>4
<1>. QED
  BY <1>2, <1>3, <1>4, <1>5, <1>6 DEF TypeOK, Pcs

LEMMA StepTyped == TypeOK /\ [Next]_vars => TypeOK'
<1>. SUFFICES ASSUME TypeOK, [Next]_vars PROVE TypeOK'
  OBVIOUS
<1>1. CASE \E p \in Processes :
       \/ Begin(p) \/ Proceed(p) \/ GroqFails(p) \/ AcquireLost(p) \/ Raise(p) \/ Cancel(p)
       \/ Shutdown(p) \/ Crash(p)
  BY <1>1, ProcessTyped
<1>2. CASE Tick
  <2>1. /\ waited \in [Processes -> Nat] /\ lockTtl \in 0 .. LockTtl /\ LockTtl \in Nat
        /\ lock \in Processes \cup {Nobody}
    BY LifespanAssumption DEF TypeOK
  <2>2. waited' \in [Processes -> Nat]
    BY <1>2, <2>1 DEF Tick
  <2>3. lockTtl' \in 0 .. LockTtl /\ lock' \in Processes \cup {Nobody}
    BY <1>2, <2>1 DEF Tick
  <2>. QED
    BY <2>2, <2>3, <1>2 DEF Tick, TypeOK
<1>3. CASE UNCHANGED vars
  BY <1>3 DEF vars, processVars, lockVars, TypeOK
<1>. QED
  BY <1>1, <1>2, <1>3 DEF Next

LEMMA InitTyped == Init => TypeOK
<1>. SUFFICES ASSUME Init PROVE TypeOK
  OBVIOUS
<1>1. stack \in [Processes -> Seq(Resources)] /\ open \in [Processes -> SUBSET Resources]
  BY DEF Init
<1>2. lockTtl \in 0 .. LockTtl
  BY LifespanAssumption DEF Init
<1>. QED
  BY <1>1, <1>2 DEF Init, TypeOK, Settled

\* Processes, their exit stacks and the setup lock keep their types, for every
\* number of processes and every time-out.
THEOREM TypeCorrect == Spec => []TypeOK
BY InitTyped, StepTyped, PTL DEF Spec
-----------------------------------------------------------------------------
(***************************************************************************)
(* The setup lock.  A process that has set up for less than the lease      *)
(* holds the lock, and its time to live is what is left of the lease.      *)
(***************************************************************************)
Leased ==
  \A p \in Processes :
    /\ pc[p] = "setup" => waited[p] <= LockTtl
    /\ pc[p] = "setup" /\ waited[p] < LockTtl =>
         lock = p /\ lockTtl = LockTtl - waited[p]

LEMMA ProcessLeased ==
  ASSUME TypeOK, Leased, NEW p \in Processes,
         \/ Begin(p) \/ Proceed(p) \/ GroqFails(p) \/ AcquireLost(p) \/ Raise(p) \/ Cancel(p)
         \/ Shutdown(p) \/ Crash(p)
  PROVE  Leased'
<1>1. /\ pc \in [Processes -> Pcs] /\ waited \in [Processes -> Nat]
      /\ LockTtl \in Nat \ {0} /\ Nobody \notin Processes
  BY LifespanAssumption DEF TypeOK, Pcs
<1>2. \A q \in Processes :
        /\ pc[q] = "setup" => waited[q] <= LockTtl
        /\ pc[q] = "setup" /\ waited[q] < LockTtl =>
             lock = q /\ lockTtl = LockTtl - waited[q]
  BY DEF Leased
<1>3. CASE AcquireLock(p)
  <2>1. /\ pc' = [pc EXCEPT ![p] = "setup"] /\ waited' = [waited EXCEPT ![p] = 0]
        /\ lock = Nobody /\ lock' = p /\ lockTtl' = LockTtl
    BY <1>3 DEF AcquireLock, Leave, Goto, Take
  <2>2. ASSUME NEW q \in Processes, q # p
        PROVE  pc'[q] = pc[q] /\ waited'[q] = waited[q]
    BY <1>1, <2>1, <2>2
  <2>3. waited'[p] = 0
    BY <1>1, <2>1
  <2>. QED
    BY <1>1, <1>2, <2>1, <2>2, <2>3 DEF Leased
<1>4. CASE ~AcquireLock(p)
  <2>1. /\ pc'[p] # "setup" \/ (UNCHANGED pc /\ pc[p] # "setup")
        /\ \A q \in Processes : q # p => pc'[q] = pc[q] /\ waited'[q] = waited[q]
    <3>1. CASE \/ Begin(p) \/ GroqFails(p) \/ AcquireLost(p) \/ Raise(p) \/ Cancel(p)
               \/ Shutdown(p) \/ Crash(p)
      BY <1>1, <3>1 DEF Begin, GroqFails, AcquireLost, Raise, Cancel, Shutdown, Crash,
         Goto, Leave
    <3>2. CASE \/ PoolOpens(p) \/ ModelLoads(p) \/ IndexesValid(p) \/ ConfigureClient(p)
               \/ ConnectRedis(p) \/ ConfigureRedis(p) \/ OpenCheckpointer(p)
      BY <1>1, <3>2 DEF PoolOpens, ModelLoads, IndexesValid, Pass, ConfigureClient,
         ConnectRedis, ConfigureRedis, OpenCheckpointer, Goto
    <3>3. ending[p] \in {"down", "failed"}
      BY DEF TypeOK
    <3>4. CASE \/ GiveUp(p) \/ SetUp(p) \/ Release(p) \/ Abort(p)
               \/ ReleaseFails(p) \/ Close(p) \/ Closed(p)
      BY <1>1, <3>3, <3>4 DEF GiveUp, SetUp, Release, Abort, ReleaseFails,
         Close, Closed, Goto, Leave
    <3>. QED
      BY <1>4, <3>1, <3>2, <3>4 DEF Proceed
  <2>2. \/ UNCHANGED lockVars
        \/ lock = Nobody
        \/ lock = p /\ pc[p] # "setup"
    BY <1>4 DEF Begin, Proceed, GroqFails, AcquireLost, Raise, Cancel, Shutdown, Crash,
       PoolOpens, ModelLoads, IndexesValid, Pass, ConfigureClient, ConnectRedis,
       ConfigureRedis, OpenCheckpointer, GiveUp, SetUp, Release, Abort, Goto,
       ReleaseFails, Close, Closed, Take, Free
  <2>. QED
    BY <1>1, <1>2, <2>1, <2>2 DEF Leased, lockVars
<1>. QED
  BY <1>3, <1>4

LEMMA StepLeased == TypeOK /\ Leased /\ [Next]_vars => Leased'
<1>. SUFFICES ASSUME TypeOK, Leased, [Next]_vars PROVE Leased'
  OBVIOUS
<1>1. CASE \E p \in Processes :
       \/ Begin(p) \/ Proceed(p) \/ GroqFails(p) \/ AcquireLost(p) \/ Raise(p) \/ Cancel(p)
       \/ Shutdown(p) \/ Crash(p)
  BY <1>1, ProcessLeased
<1>2. CASE Tick
  <2>1. /\ waited \in [Processes -> Nat] /\ lockTtl \in 0 .. LockTtl /\ LockTtl \in Nat
        /\ pc' = pc
    BY <1>2, LifespanAssumption DEF TypeOK, Tick
  <2>2. ASSUME NEW p \in Processes, pc[p] = "setup"
        PROVE  /\ waited'[p] <= LockTtl
               /\ waited'[p] < LockTtl => lock' = p /\ lockTtl' = LockTtl - waited'[p]
    <3>1. /\ waited[p] \in Nat /\ waited[p] <= LockTtl
          /\ waited[p] < LockTtl => lock = p /\ lockTtl = LockTtl - waited[p]
      BY <2>1, <2>2 DEF Leased
    <3>2. waited'[p] = IF waited[p] < LockTtl THEN waited[p] + 1 ELSE waited[p]
      BY <1>2, <2>2 DEF Tick
    <3>3. /\ lockTtl' = IF lockTtl > 0 THEN lockTtl - 1 ELSE 0
          /\ lock' = IF lockTtl > 1 THEN lock ELSE Nobody
      BY <1>2 DEF Tick
    <3>. QED
      BY <2>1, <3>1, <3>2, <3>3
  <2>. QED
    BY <2>1, <2>2 DEF Leased
<1>3. CASE UNCHANGED vars
  BY <1>3 DEF vars, processVars, lockVars, Leased
<1>. QED
  BY <1>1, <1>2, <1>3 DEF Next

\* Two processes are in the setup of the checkpoint tables at once only when the
\* lease of one of them has run out, for every number of processes.
THEOREM SetupOnlyUnderLease == Spec => []SetupsApart
<1>1. Init => Leased
  BY DEF Init, Leased
<1>2. TypeOK /\ Leased => SetupsApart
  <2>1. ASSUME TypeOK, Leased, NEW p \in Processes, NEW q \in Processes, p # q,
               pc[p] = "setup", pc[q] = "setup"
        PROVE  LockTtl \in {waited[p], waited[q]}
    <3>1. waited[p] \in Nat /\ waited[q] \in Nat /\ LockTtl \in Nat
      BY <2>1, LifespanAssumption DEF TypeOK
    <3>2. waited[p] >= LockTtl \/ waited[q] >= LockTtl
      BY <2>1, <3>1 DEF Leased
    <3>. QED
      BY <2>1, <3>1, <3>2 DEF Leased
  <2>. QED
    BY <2>1 DEF SetupsApart
<1>. QED
  BY InitTyped, StepTyped, StepLeased, <1>1, <1>2, PTL DEF Spec
-----------------------------------------------------------------------------
(***************************************************************************)
(* The exit stack.  It holds all that is open but a Redis client that is   *)
(* being connected, the pool below whatever uses it; and each await of the *)
(* start has behind it what was opened before.                             *)
(***************************************************************************)
On(r, s) == \E i \in 1 .. Len(s) : s[i] = r

Early == {"down", "pool", "models", "client", "indexes", "reranker", "redis"}
WithLimiter == {"redis", "checkpoints", "lock", "setup", "release", "ready"}
WithClient == {"indexes", "reranker"} \cup WithLimiter
WithPool == {"pool", "models", "client"} \cup WithClient

\* A process at an await, with its stack, what it has open and its store.
Held(at, s, o, b) ==
  /\ \A r \in o : r = "limiter" \/ On(r, s)
  /\ b = TRUE /\ "limiter" \in o => On("limiter", s)
  /\ \A i \in 1 .. Len(s) : s[i] = "pool" => i = 1
  /\ settings.vectorStore = "pgvector" /\ "client" \in o => "pool" \in o
  /\ at \in Early => b = FALSE
  /\ at \in {"down", "failed"} => s = <<>>
  /\ NeedsPool /\ at \in WithPool => "pool" \in o
  /\ at \in WithClient => "client" \in o
  /\ at \in WithLimiter => "limiter" \in o
  /\ at \in WithLimiter \ {"redis"} => {"cache", "groq"} \subseteq o
  /\ settings.checkpoints = "sqlite" /\ at \in WithLimiter \ {"redis", "checkpoints"} =>
       "sqlite" \in o

Holding == \A p \in Processes : Held(pc[p], stack[p], open[p], store[p])

\* What is pushed is on the stack, what was there stays there, and the pool is
\* not moved.
LEMMA Pushed ==
  ASSUME NEW s \in Seq(Resources), NEW t \in Seq(Resources \ {"pool"}),
         \A i \in 1 .. Len(s) : s[i] = "pool" => i = 1
  PROVE  /\ \A r : On(r, s) \/ On(r, t) => On(r, s \o t)
         /\ \A i \in 1 .. Len(s \o t) : (s \o t)[i] = "pool" => i = 1
<1>1. /\ Len(s) \in Nat /\ Len(t) \in Nat /\ Len(s \o t) = Len(s) + Len(t)
      /\ \A i \in 1 .. Len(s) + Len(t) :
           (s \o t)[i] = IF i <= Len(s) THEN s[i] ELSE t[i - Len(s)]
  BY ConcatProperties, LenProperties
<1>2. \A i \in 1 .. Len(t) : t[i] # "pool"
  BY ElementOfSeq
<1>3. ASSUME NEW r, On(r, s) PROVE On(r, s \o t)
  <2>1. PICK i \in 1 .. Len(s) : s[i] = r
    BY <1>3 DEF On
  <2>2. i \in 1 .. Len(s \o t) /\ (s \o t)[i] = r
    BY <1>1, <2>1
  <2>. QED
    BY <2>2 DEF On
<1>4. ASSUME NEW r, On(r, t) PROVE On(r, s \o t)
  <2>1. PICK i \in 1 .. Len(t) : t[i] = r
    BY <1>4 DEF On
  <2>2. Len(s) + i \in 1 .. Len(s \o t) /\ (s \o t)[Len(s) + i] = r
    BY <1>1, <2>1
  <2>. QED
    BY <2>2 DEF On
<1>5. ASSUME NEW i \in 1 .. Len(s \o t), (s \o t)[i] = "pool" PROVE i = 1
  <2>1. CASE i <= Len(s)
    BY <1>1, <1>5, <2>1
  <2>2. CASE i > Len(s)
    <3>1. i - Len(s) \in 1 .. Len(t) /\ t[i - Len(s)] = "pool"
      BY <1>1, <1>5, <2>2
    <3>. QED
      BY <1>2, <3>1
  <2>. QED
    BY <1>1, <2>1, <2>2
<1>. QED
  BY <1>3, <1>4, <1>5

\* Only one process changes, and what it changes to holds what it must.
LEMMA HeldUpdate ==
  ASSUME TypeOK, Holding, NEW p \in Processes, UNCHANGED settings,
         NEW at, NEW s, NEW o, NEW b, Held(at, s, o, b),
         pc' = [pc EXCEPT ![p] = at] \/ (pc' = pc /\ at = pc[p]),
         stack' = [stack EXCEPT ![p] = s] \/ (stack' = stack /\ s = stack[p]),
         open' = [open EXCEPT ![p] = o] \/ (open' = open /\ o = open[p]),
         store' = [store EXCEPT ![p] = b] \/ (store' = store /\ b = store[p])
  PROVE  Holding'
<1>1. /\ pc'[p] = at /\ \A q \in Processes : q # p => pc'[q] = pc[q]
      /\ stack'[p] = s /\ \A q \in Processes : q # p => stack'[q] = stack[q]
      /\ open'[p] = o /\ \A q \in Processes : q # p => open'[q] = open[q]
  BY DEF TypeOK
<1>2. store'[p] = b /\ \A q \in Processes : q # p => store'[q] = store[q]
  BY DEF TypeOK
<1>3. ASSUME NEW q \in Processes
      PROVE  Held(pc[q], stack[q], open[q], store[q])'
  <2>1. PICK at1, s1, o1, b1 : /\ Held(at1, s1, o1, b1)
                               /\ at1 = pc'[q] /\ s1 = stack'[q]
                               /\ o1 = open'[q] /\ b1 = store'[q]
    BY <1>1, <1>2 DEF Holding
  <2>. QED
    BY <2>1 DEF Held, On, NeedsPool
<1>. QED
  BY <1>3 DEF Holding

\* Each step of a process keeps it holding what it must.
LEMMA ProcessHolding ==
  ASSUME TypeOK, Holding, NEW p \in Processes,
         \/ Begin(p) \/ Proceed(p) \/ GroqFails(p) \/ AcquireLost(p) \/ Raise(p) \/ Cancel(p)
         \/ Shutdown(p) \/ Crash(p)
  PROVE  Holding'
<1>1. PICK at, s, o, b : at = pc[p] /\ s = stack[p] /\ o = open[p] /\ b = store[p]
  OBVIOUS
<1>2. /\ Held(at, s, o, b)
      /\ s \in Seq(Resources) /\ Len(s) \in Nat /\ o \subseteq Resources
      /\ ending[p] \in {"down", "failed"}
  BY <1>1, LenProperties DEF Holding, TypeOK
<1>3. /\ settings.vectorStore = "pgvector" => NeedsPool
      /\ "pool" \notin {"client", "cache", "limiter", "groq", "sqlite"}
  BY DEF NeedsPool
<1>4. ASSUME NEW to \in {"closing", "failed", "ready", "down", "abort"} \cup Plain \cup {"setup", "release"},
             Held(to, s, o, b),
             pc' = [pc EXCEPT ![p] = to], UNCHANGED <<settings, stack, open, store>>
      PROVE  Holding'
  BY <1>1, <1>4, HeldUpdate
<1>5. Held("closing", s, o, b) /\ Held("abort", s, o, b)
  BY <1>2 DEF Held, Early, WithPool, WithClient, WithLimiter
<1>6. Held("closing", s, o, FALSE)
  BY <1>2 DEF Held, Early, WithPool, WithClient, WithLimiter
<1>7. CASE Begin(p)
  <2>1. CASE NeedsPool
    <3>1. Held("pool", <<"pool">>, {"pool"}, b)
      BY <2>1, <1>1, <1>2, <1>7 DEF Begin, Goto, Held, On, Early, WithPool, WithClient, WithLimiter
    <3>. QED
      BY <3>1, <2>1, <1>1, <1>7, HeldUpdate DEF Begin, Goto
  <2>2. CASE ~NeedsPool
    <3>1. Held("models", <<>>, {}, b)
      BY <2>2, <1>1, <1>2, <1>7 DEF Begin, Goto, Held, On, Early, WithPool, WithClient, WithLimiter
    <3>. QED
      BY <3>1, <2>2, <1>1, <1>7, HeldUpdate DEF Begin, Goto
  <2>. QED
    BY <2>1, <2>2
<1>8. CASE PoolOpens(p) \/ ModelLoads(p) \/ IndexesValid(p)
  <2>1. PICK to \in {"models", "client", "reranker"} :
          /\ pc' = [pc EXCEPT ![p] = to] /\ UNCHANGED <<settings, stack, open, store>>
          /\ \/ at = "pool" /\ to = "models"
             \/ at = "models" /\ to = "client"
             \/ at = "indexes" /\ to = "reranker"
    BY <1>1, <1>8 DEF PoolOpens, ModelLoads, IndexesValid, Pass, Goto
  <2>2. Held(to, s, o, b)
    BY <2>1, <1>2 DEF Held, Early, WithPool, WithClient, WithLimiter
  <2>. QED
    BY <2>1, <2>2, <1>4 DEF Plain
<1>9. CASE ConfigureClient(p)
  <2>1. <<"client">> \in Seq(Resources \ {"pool"}) /\ Append(s, "client") = s \o <<"client">>
    BY <1>2, AppendIsConcat DEF Resources
  <2>2. /\ \A r : On(r, s) \/ On(r, <<"client">>) => On(r, Append(s, "client"))
        /\ \A i \in 1 .. Len(Append(s, "client")) : Append(s, "client")[i] = "pool" => i = 1
    BY <2>1, <1>2, Pushed DEF Held
  <2>3. On("client", <<"client">>)
    BY DEF On
  <2>4. at = "client"
    BY <1>1, <1>9 DEF ConfigureClient, Goto
  <2>5. Held("indexes", Append(s, "client"), o \cup {"client"}, b)
    BY <2>2, <2>3, <2>4, <1>2, <1>3 DEF Held, Early, WithPool, WithClient, WithLimiter
  <2>. QED
    BY <2>5, <1>1, <1>9, HeldUpdate DEF ConfigureClient, Goto
<1>10. CASE ConnectRedis(p)
  <2>1. at = "reranker"
    BY <1>1, <1>10 DEF ConnectRedis, Goto
  <2>2. Held("redis", s, o \cup {"limiter"}, b)
    BY <2>1, <1>2 DEF Held, Early, WithPool, WithClient, WithLimiter
  <2>. QED
    BY <2>2, <1>1, <1>10, HeldUpdate DEF ConnectRedis, Goto
<1>11. CASE ConfigureRedis(p)
  <2>. DEFINE t == <<"cache", "limiter", "groq">>
  <2>1. t \in Seq(Resources \ {"pool"})
    BY DEF Resources
  <2>2. On("cache", t) /\ On("limiter", t) /\ On("groq", t)
    BY DEF On
  <2>. HIDE DEF t
  <2>3. /\ \A r : On(r, s) \/ On(r, t) => On(r, s \o t)
        /\ \A i \in 1 .. Len(s \o t) : (s \o t)[i] = "pool" => i = 1
    BY <2>1, <1>2, Pushed DEF Held
  <2>4. at = "redis"
    BY <1>1, <1>11 DEF ConfigureRedis, Goto
  <2>5. Held("checkpoints", s \o t, o \cup {"cache", "groq"}, TRUE)
    BY <2>2, <2>3, <2>4, <1>2 DEF Held, Early, WithPool, WithClient, WithLimiter
  <2>. QED
    BY <2>5, <1>1, <1>11, HeldUpdate DEF ConfigureRedis, Goto, t
<1>12. CASE GroqFails(p)
  <2>. DEFINE t == <<"cache", "limiter">>
  <2>1. t \in Seq(Resources \ {"pool"})
    BY DEF Resources
  <2>2. On("cache", t) /\ On("limiter", t)
    BY DEF On
  <2>. HIDE DEF t
  <2>3. /\ \A r : On(r, s) \/ On(r, t) => On(r, s \o t)
        /\ \A i \in 1 .. Len(s \o t) : (s \o t)[i] = "pool" => i = 1
    BY <2>1, <1>2, Pushed DEF Held
  <2>4. Held("closing", s \o t, o \cup {"cache"}, TRUE)
    BY <2>2, <2>3, <1>2 DEF Held, Early, WithPool, WithClient, WithLimiter
  <2>. QED
    BY <2>4, <1>1, <1>12, HeldUpdate DEF GroqFails, Goto, t
<1>13. CASE OpenCheckpointer(p)
  <2>1. at = "checkpoints"
    BY <1>1, <1>13 DEF OpenCheckpointer, Goto
  <2>2. CASE settings.checkpoints = "sqlite" /\ stack' = [stack EXCEPT ![p] = Append(s, "sqlite")]
             /\ open' = [open EXCEPT ![p] = o \cup {"sqlite"}]
    <3>1. <<"sqlite">> \in Seq(Resources \ {"pool"}) /\ Append(s, "sqlite") = s \o <<"sqlite">>
      BY <1>2, AppendIsConcat DEF Resources
    <3>2. /\ \A r : On(r, s) \/ On(r, <<"sqlite">>) => On(r, Append(s, "sqlite"))
          /\ \A i \in 1 .. Len(Append(s, "sqlite")) : Append(s, "sqlite")[i] = "pool" => i = 1
      BY <3>1, <1>2, Pushed DEF Held
    <3>3. On("sqlite", <<"sqlite">>)
      BY DEF On
    <3>4. Held("lock", Append(s, "sqlite"), o \cup {"sqlite"}, b)
      BY <2>1, <3>2, <3>3, <1>2 DEF Held, Early, WithPool, WithClient, WithLimiter
    <3>. QED
      BY <2>2, <3>4, <1>1, <1>13, HeldUpdate DEF OpenCheckpointer, Goto
  <2>3. CASE settings.checkpoints # "sqlite" /\ UNCHANGED <<stack, open>>
    <3>1. Held("lock", s, o, b)
      BY <2>1, <2>3, <1>2 DEF Held, Early, WithPool, WithClient, WithLimiter
    <3>. QED
      BY <2>3, <3>1, <1>4, <1>13 DEF OpenCheckpointer, Goto, Plain
  <2>. QED
    BY <2>2, <2>3, <1>1, <1>13 DEF OpenCheckpointer
<1>14. CASE AcquireLock(p) \/ SetUp(p) \/ Release(p)
  <2>1. PICK to \in {"setup", "release", "ready"} :
          /\ pc' = [pc EXCEPT ![p] = to] /\ UNCHANGED <<settings, stack, open, store>>
          /\ at \in {"lock", "setup", "release"}
    BY <1>1, <1>14 DEF AcquireLock, SetUp, Release, Leave, Goto
  <2>2. Held(to, s, o, b)
    BY <2>1, <1>2 DEF Held, Early, WithPool, WithClient, WithLimiter
  <2>. QED
    BY <2>1, <2>2, <1>4
<1>15. CASE AcquireLost(p) \/ GiveUp(p) \/ Abort(p) \/ ReleaseFails(p) \/ Raise(p) \/ Cancel(p)
  <2>1. /\ \/ pc' = [pc EXCEPT ![p] = "closing"] \/ pc' = [pc EXCEPT ![p] = "abort"]
        /\ UNCHANGED <<settings, stack, open, store>>
    BY <1>15 DEF AcquireLost, GiveUp, Abort, ReleaseFails, Raise, Cancel, Leave, Goto
  <2>. QED
    BY <2>1, <1>4, <1>5
<1>16. CASE Close(p)
  <2>. DEFINE n == Len(s)
              t == SubSeq(s, 1, n - 1)
              x == s[n]
  <2>1. n \in Nat /\ n > 0 /\ at = "closing"
    BY <1>1, <1>2, <1>16 DEF Close
  <2>2. Len(t) = n - 1 /\ \A i \in 1 .. n - 1 : t[i] = s[i]
    <3>1. \A i \in 1 .. n : s[i] \in Resources
      BY <1>2, ElementOfSeq
    <3>2. \A i \in 1 .. n - 1 : i \in 1 .. Len(s)
      BY <2>1
    <3>3. Len(t) = IF 1 <= n - 1 THEN n - 1 - 1 + 1 ELSE 0
      BY <1>2, <2>1, <3>1, SubSeqProperties
    <3>4. \A i \in 1 .. n - 1 - 1 + 1 : t[i] = s[1 + i - 1]
      BY <1>2, <2>1, <3>1, SubSeqProperties
    <3>. HIDE DEF t, n
    <3>. QED
      BY <2>1, <3>3, <3>4
  <2>3. /\ stack' = [stack EXCEPT ![p] = t] /\ open' = [open EXCEPT ![p] = o \ {x}]
        /\ UNCHANGED <<settings, pc, store>>
    BY <1>1, <1>16 DEF Close
  <2>. HIDE DEF t
  <2>4. ASSUME NEW r, On(r, s), r # x PROVE On(r, t)
    <3>1. PICK i \in 1 .. n : s[i] = r
      BY <2>4 DEF On
    <3>2. i # n
      BY <2>4, <3>1
    <3>. QED
      BY <2>1, <2>2, <3>1, <3>2 DEF On
  <2>5. \A i \in 1 .. Len(t) : t[i] = "pool" => i = 1
    BY <1>2, <2>1, <2>2 DEF Held
  <2>6. x = "pool" => "client" \notin o
    <3>1. SUFFICES ASSUME x = "pool", "client" \in o PROVE FALSE
      OBVIOUS
    <3>2. n = 1
      <4>1. \A i \in 1 .. n : s[i] = "pool" => i = 1
        BY <1>2 DEF Held
      <4>2. n \in 1 .. n
        BY <2>1
      <4>. QED
        BY <4>1, <4>2, <3>1
    <3>3. On("client", s)
      BY <1>2, <3>1 DEF Held
    <3>. QED
      BY <3>1, <3>2, <3>3 DEF On
  <2>. HIDE DEF n, x
  <2>7. /\ \A r \in o \ {x} : r = "limiter" \/ On(r, t)
        /\ b = TRUE /\ "limiter" \in o \ {x} => On("limiter", t)
    BY <1>2, <2>4 DEF Held
  <2>8. Held("closing", t, o \ {x}, b)
    <3>1. settings.vectorStore = "pgvector" /\ "client" \in o \ {x} => "pool" \in o \ {x}
      BY <1>2, <2>6 DEF Held
    <3>. QED
      BY <2>5, <2>7, <3>1 DEF Held, Early, WithPool, WithClient, WithLimiter
  <2>. QED
    BY <2>1, <2>3, <2>8, <1>1, HeldUpdate
<1>17. CASE Closed(p)
  <2>1. s = <<>>
    BY <1>1, <1>17 DEF Closed
  <2>2. CASE ending[p] = "failed"
    <3>1. Held("failed", s, o, b)
      BY <1>2, <2>1 DEF Held, Early, WithPool, WithClient, WithLimiter
    <3>2. store' = [store EXCEPT ![p] = b]
      BY <1>1, <1>17, <2>2 DEF Closed
    <3>. QED
      BY <3>1, <3>2, <2>2, <1>1, <1>17, HeldUpdate DEF Closed, Goto
  <2>3. CASE ending[p] = "down"
    <3>1. Held("down", s, o, FALSE)
      BY <1>2, <2>1 DEF Held, Early, WithPool, WithClient, WithLimiter
    <3>. QED
      BY <3>1, <2>3, <1>1, <1>17, HeldUpdate DEF Closed, Goto
  <2>. QED
    BY <2>2, <2>3, <1>2
<1>18. CASE Shutdown(p)
  <2>1. CASE Goto(p, "ready", "closing")
    BY <2>1, <1>1, <1>6, <1>18, HeldUpdate DEF Shutdown, Goto
  <2>2. CASE Goto(p, "failed", "down")
    <3>1. Held("down", s, o, FALSE)
      BY <1>1, <1>2, <2>2 DEF Goto, Held, Early, WithPool, WithClient, WithLimiter
    <3>. QED
      BY <3>1, <2>2, <1>1, <1>18, HeldUpdate DEF Shutdown, Goto
  <2>. QED
    BY <2>1, <2>2, <1>18 DEF Shutdown
<1>19. CASE Crash(p)
  <2>1. Held("down", <<>>, {}, FALSE)
    BY DEF Held, Early, WithPool, WithClient, WithLimiter
  <2>. QED
    BY <2>1, <1>19, HeldUpdate DEF Crash
<1>. QED
  BY <1>7, <1>8, <1>9, <1>10, <1>11, <1>12, <1>13, <1>14, <1>15, <1>16, <1>17, <1>18, <1>19
     DEF Proceed

LEMMA StepHolding == TypeOK /\ Holding /\ [Next]_vars => Holding'
<1>. SUFFICES ASSUME TypeOK, Holding, [Next]_vars PROVE Holding'
  OBVIOUS
<1>1. CASE \E p \in Processes :
       \/ Begin(p) \/ Proceed(p) \/ GroqFails(p) \/ AcquireLost(p) \/ Raise(p) \/ Cancel(p)
       \/ Shutdown(p) \/ Crash(p)
  BY <1>1, ProcessHolding
<1>2. ASSUME UNCHANGED <<settings, pc, stack, open, store>> PROVE Holding'
  BY <1>2 DEF Holding, Held, NeedsPool
<1>. QED
  BY <1>1, <1>2 DEF Next, Tick, vars, processVars

\* However a start or the service ends, the exit stack has closed what it opened;
\* nothing loses what it uses before it is closed, and a process serves only with
\* all it needs: for every number of processes and both kinds of stores.
THEOREM NothingLeftOpen == Spec => []ResourcesHeld
<1>1. Init => Holding
  <2>1. Held("down", <<>>, {}, FALSE)
    BY DEF Held, Early, WithPool, WithClient, WithLimiter
  <2>. QED
    BY <2>1 DEF Init, Holding
<1>2. TypeOK /\ Holding => ResourcesHeld
  <2>1. ASSUME TypeOK, Holding, NEW p \in Processes
        PROVE  /\ pc[p] \in {"down", "failed"} => open[p] \subseteq {"limiter"}
               /\ pc[p] = "failed" /\ store[p] => open[p] = {}
               /\ \A r \in open[p] : Uses(r) \subseteq open[p]
               /\ pc[p] = "ready" => Needed \subseteq open[p]
    <3>1. Held(pc[p], stack[p], open[p], store[p])
      BY <2>1 DEF Holding
    <3>2. pc[p] \in {"down", "failed"} => open[p] \subseteq {"limiter"}
      BY <3>1 DEF Held, On
    <3>3. pc[p] = "failed" /\ store[p] => open[p] = {}
      <4>. SUFFICES ASSUME pc[p] = "failed", store[p] PROVE open[p] = {}
        OBVIOUS
      <4>1. store[p] = TRUE
        BY <2>1 DEF TypeOK
      <4>2. stack[p] = <<>>
        BY <3>1 DEF Held
      <4>. QED
        BY <3>1, <4>1, <4>2 DEF Held, On
    <3>4. \A r \in open[p] : Uses(r) \subseteq open[p]
      BY <3>1 DEF Held, Uses
    <3>5. pc[p] = "ready" => Needed \subseteq open[p]
      BY <3>1 DEF Held, Needed, WithPool, WithClient, WithLimiter
    <3>. QED
      BY <3>2, <3>3, <3>4, <3>5
  <2>. QED
    BY <2>1 DEF ResourcesHeld
<1>. QED
  BY InitTyped, StepTyped, StepHolding, <1>1, <1>2, PTL DEF Spec
-----------------------------------------------------------------------------
(***************************************************************************)
(* The length of a start.  The exit stack is as deep as the await it is    *)
(* in allows, hence unwinding it is shorter than any start from which it   *)
(* begins, and every step of a start or an end brings it nearer to its end.*)
(***************************************************************************)
Capacity(at) ==
  CASE at \in {"down", "failed"} -> 0
    [] at \in {"pool", "models", "client"} -> 1
    [] at \in {"indexes", "reranker", "redis"} -> 2
    [] at = "checkpoints" -> 5
    [] OTHER -> 6

Shallow == \A p \in Processes : Len(stack[p]) <= Capacity(pc[p])

\* The most steps a process takes from here until it serves, has failed or is
\* gone: the awaits that are left, then its stack.
StepsLeft(at, depth) ==
  CASE at = "pool" -> 18
    [] at = "models" -> 17
    [] at = "client" -> 16
    [] at = "indexes" -> 15
    [] at = "reranker" -> 14
    [] at = "redis" -> 13
    [] at = "checkpoints" -> 12
    [] at = "lock" -> 11
    [] at = "setup" -> 10
    [] at = "release" -> 9
    [] at = "abort" -> 8
    [] at = "closing" -> depth + 1
    [] OTHER -> 0

\* Where a process goes from an await: on, to a settled state, or into an
\* unwinding that is shorter than what was left.
Nearer(p) ==
  \/ pc[p] \in Settled
  \/ StepsLeft(pc'[p], Len(stack'[p])) < StepsLeft(pc[p], Len(stack[p]))

Moves(p) ==
  /\ \A q \in Processes : q # p => pc'[q] = pc[q] /\ stack'[q] = stack[q]
  /\ Len(stack'[p]) <= Capacity(pc'[p])
  /\ Nearer(p)

\* A move is known from the place and the stack it leads to.
LEMMA MoveUpdate ==
  ASSUME TypeOK, NEW p \in Processes, NEW at, NEW s, NEW to, NEW t, NEW n, NEW m,
         at = pc[p], s = stack[p], n = Len(s), m = Len(t), m <= Capacity(to),
         at \in Settled \/ StepsLeft(to, m) < StepsLeft(at, n),
         pc' = [pc EXCEPT ![p] = to] \/ (pc' = pc /\ to = pc[p]),
         stack' = [stack EXCEPT ![p] = t] \/ (stack' = stack /\ t = stack[p])
  PROVE  Moves(p)
<1>1. /\ pc'[p] = to /\ stack'[p] = t
      /\ \A q \in Processes : q # p => pc'[q] = pc[q] /\ stack'[q] = stack[q]
  BY DEF TypeOK
<1>2. Len(stack'[p]) = m /\ Len(stack[p]) = n
  BY <1>1
<1>. QED
  BY <1>1, <1>2 DEF Moves, Nearer

LEMMA ProcessMoves ==
  ASSUME TypeOK, Shallow, NEW p \in Processes,
         \/ Begin(p) \/ Proceed(p) \/ GroqFails(p) \/ AcquireLost(p) \/ Raise(p) \/ Cancel(p)
         \/ Shutdown(p) \/ Crash(p)
  PROVE  Moves(p)
<1>1. PICK at, s, n : at = pc[p] /\ s = stack[p] /\ n = Len(s)
  OBVIOUS
<1>2. s \in Seq(Resources) /\ n \in Nat /\ n <= Capacity(at) /\ ending[p] \in {"down", "failed"}
  BY <1>1, LenProperties DEF TypeOK, Shallow
<1>3. ASSUME NEW to, n <= Capacity(to), at \in Settled \/ StepsLeft(to, n) < StepsLeft(at, n),
             pc' = [pc EXCEPT ![p] = to], UNCHANGED stack
      PROVE  Moves(p)
  BY <1>1, <1>3, MoveUpdate
<1>4. CASE Begin(p)
  <2>1. at = "down"
    BY <1>1, <1>4 DEF Begin, Goto
  <2>2. CASE NeedsPool
    <3>1. Len(<<"pool">>) = 1 /\ 1 <= Capacity("pool") /\ at \in Settled
      BY <2>1 DEF Capacity, Settled
    <3>. QED
      BY <3>1, <1>1, <1>4, <2>2, MoveUpdate DEF Begin, Goto
  <2>3. CASE ~NeedsPool
    <3>1. Len(<<>>) = 0 /\ 0 <= Capacity("models") /\ at \in Settled
      BY <2>1 DEF Capacity, Settled
    <3>. QED
      BY <3>1, <1>1, <1>4, <2>3, MoveUpdate DEF Begin, Goto
  <2>. QED
    BY <2>2, <2>3
<1>5. CASE PoolOpens(p) \/ ModelLoads(p) \/ IndexesValid(p) \/ ConnectRedis(p)
  <2>1. PICK to :
          /\ pc' = [pc EXCEPT ![p] = to] /\ UNCHANGED stack
          /\ \/ at = "pool" /\ to = "models"
             \/ at = "models" /\ to = "client"
             \/ at = "indexes" /\ to = "reranker"
             \/ at = "reranker" /\ to = "redis"
    BY <1>1, <1>5 DEF PoolOpens, ModelLoads, IndexesValid, ConnectRedis, Pass, Goto
  <2>2. n <= Capacity(to) /\ StepsLeft(to, n) < StepsLeft(at, n)
    BY <2>1, <1>2 DEF Capacity, StepsLeft
  <2>. QED
    BY <2>1, <2>2, <1>3
<1>6. CASE ConfigureClient(p)
  <2>1. at = "client" /\ pc' = [pc EXCEPT ![p] = "indexes"]
        /\ stack' = [stack EXCEPT ![p] = Append(s, "client")]
    BY <1>1, <1>6 DEF ConfigureClient, Goto
  <2>2. Len(Append(s, "client")) = n + 1
    BY <1>1, <1>2, AppendProperties DEF Resources
  <2>3. n + 1 <= Capacity("indexes") /\ StepsLeft("indexes", n + 1) < StepsLeft(at, n)
    BY <2>1, <1>2 DEF Capacity, StepsLeft
  <2>. QED
    BY <2>1, <2>2, <2>3, <1>1, MoveUpdate
<1>7. CASE ConfigureRedis(p)
  <2>. DEFINE t == s \o <<"cache", "limiter", "groq">>
  <2>1. at = "redis" /\ pc' = [pc EXCEPT ![p] = "checkpoints"]
        /\ stack' = [stack EXCEPT ![p] = t]
    BY <1>1, <1>7 DEF ConfigureRedis, Goto
  <2>2. Len(t) = n + 3
    <3>1. <<"cache", "limiter", "groq">> \in Seq(Resources) /\ Len(<<"cache", "limiter", "groq">>) = 3
      BY DEF Resources
    <3>. QED
      BY <3>1, <1>1, <1>2, ConcatProperties
  <2>. HIDE DEF t
  <2>3. n + 3 <= Capacity("checkpoints") /\ StepsLeft("checkpoints", n + 3) < StepsLeft(at, n)
    BY <2>1, <1>2 DEF Capacity, StepsLeft
  <2>. QED
    BY <2>1, <2>2, <2>3, <1>1, MoveUpdate
<1>8. CASE GroqFails(p)
  <2>. DEFINE t == s \o <<"cache", "limiter">>
  <2>1. at = "redis" /\ pc' = [pc EXCEPT ![p] = "closing"]
        /\ stack' = [stack EXCEPT ![p] = t]
    BY <1>1, <1>8 DEF GroqFails, Goto
  <2>2. Len(t) = n + 2
    <3>1. <<"cache", "limiter">> \in Seq(Resources) /\ Len(<<"cache", "limiter">>) = 2
      BY DEF Resources
    <3>. QED
      BY <3>1, <1>1, <1>2, ConcatProperties
  <2>. HIDE DEF t
  <2>3. n + 2 <= Capacity("closing") /\ StepsLeft("closing", n + 2) < StepsLeft(at, n)
    BY <2>1, <1>2 DEF Capacity, StepsLeft
  <2>. QED
    BY <2>1, <2>2, <2>3, <1>1, MoveUpdate
<1>9. CASE OpenCheckpointer(p)
  <2>1. /\ at = "checkpoints" /\ pc' = [pc EXCEPT ![p] = "lock"]
        /\ stack' = [stack EXCEPT ![p] = Append(s, "sqlite")] \/ UNCHANGED stack
    BY <1>1, <1>9 DEF OpenCheckpointer, Goto
  <2>2. Len(Append(s, "sqlite")) = n + 1
    BY <1>1, <1>2, AppendProperties DEF Resources
  <2>3. /\ n + 1 <= Capacity("lock") /\ StepsLeft("lock", n + 1) < StepsLeft(at, n)
        /\ n <= Capacity("lock") /\ StepsLeft("lock", n) < StepsLeft(at, n)
    BY <2>1, <1>2 DEF Capacity, StepsLeft
  <2>4. CASE stack' = [stack EXCEPT ![p] = Append(s, "sqlite")]
    BY <2>1, <2>2, <2>3, <2>4, <1>1, MoveUpdate
  <2>5. CASE UNCHANGED stack
    BY <2>1, <2>3, <2>5, <1>3
  <2>. QED
    BY <2>1, <2>4, <2>5
<1>10. CASE \/ AcquireLock(p) \/ SetUp(p) \/ Release(p) \/ AcquireLost(p) \/ GiveUp(p)
            \/ Abort(p) \/ ReleaseFails(p) \/ Raise(p) \/ Cancel(p)
  <2>1. PICK to :
          /\ pc' = [pc EXCEPT ![p] = to] /\ UNCHANGED stack
          /\ \/ at = "lock" /\ to = "setup"
             \/ at = "setup" /\ to \in {"release", "abort"}
             \/ at = "release" /\ to = "ready"
             \/ at \in Plain \cup {"release", "abort"} /\ to = "closing"
    BY <1>1, <1>10 DEF AcquireLock, SetUp, Release, AcquireLost, GiveUp, Abort, ReleaseFails,
       Raise, Cancel, Leave, Goto, Plain
  <2>2. n <= Capacity(to) /\ StepsLeft(to, n) < StepsLeft(at, n)
    BY <2>1, <1>2 DEF Capacity, StepsLeft, Plain
  <2>. QED
    BY <2>1, <2>2, <1>3
<1>11. CASE Close(p)
  <2>. DEFINE t == SubSeq(s, 1, n - 1)
  <2>1. /\ n > 0 /\ at = "closing" /\ pc' = pc
        /\ stack' = [stack EXCEPT ![p] = t]
    BY <1>1, <1>11 DEF Close
  <2>2. Len(t) = n - 1
    <3>1. \A i \in 1 .. n : s[i] \in Resources
      BY <1>1, <1>2, ElementOfSeq
    <3>2. \A i \in 1 .. n - 1 : i \in 1 .. n
      BY <1>2, <2>1
    <3>3. Len(t) = IF 1 <= n - 1 THEN n - 1 - 1 + 1 ELSE 0
      BY <1>2, <2>1, <3>1, <3>2, SubSeqProperties
    <3>. HIDE DEF t
    <3>. QED
      BY <1>2, <2>1, <3>3
  <2>. HIDE DEF t
  <2>3. n - 1 <= Capacity(at) /\ StepsLeft(at, n - 1) < StepsLeft(at, n)
    BY <2>1, <1>2 DEF Capacity, StepsLeft
  <2>. QED
    BY <2>1, <2>2, <2>3, <1>1, MoveUpdate
<1>12. CASE Closed(p)
  <2>1. /\ s = <<>> /\ n = 0 /\ at = "closing"
        /\ pc' = [pc EXCEPT ![p] = ending[p]] /\ UNCHANGED stack
    BY <1>1, <1>12 DEF Closed, Goto
  <2>2. n <= Capacity(ending[p]) /\ StepsLeft(ending[p], n) < StepsLeft(at, n)
    BY <2>1, <1>2 DEF Capacity, StepsLeft
  <2>. QED
    BY <2>1, <2>2, <1>3
<1>13. CASE Shutdown(p)
  <2>1. CASE Goto(p, "ready", "closing")
    <3>1. at = "ready" /\ n <= Capacity("closing") /\ at \in Settled
      BY <2>1, <1>1, <1>2 DEF Goto, Capacity, Settled
    <3>. QED
      BY <3>1, <2>1, <1>3, <1>13 DEF Shutdown, Goto
  <2>2. CASE Goto(p, "failed", "down")
    <3>1. at = "failed" /\ n <= Capacity("down") /\ at \in Settled
      BY <2>2, <1>1, <1>2 DEF Goto, Capacity, Settled
    <3>. QED
      BY <3>1, <2>2, <1>3, <1>13 DEF Shutdown, Goto
  <2>. QED
    BY <2>1, <2>2, <1>13 DEF Shutdown
<1>14. CASE Crash(p)
  <2>1. /\ pc' = [pc EXCEPT ![p] = "down"] /\ stack' = [stack EXCEPT ![p] = <<>>]
        /\ at \in Pcs
    BY <1>1, <1>14 DEF Crash, TypeOK, Pcs
  <2>2. /\ Len(<<>>) = 0 /\ 0 <= Capacity("down")
        /\ at \in Settled \/ StepsLeft("down", 0) < StepsLeft(at, n)
    BY <2>1, <1>2 DEF Capacity, StepsLeft, Settled, Pcs, Starting, Plain
  <2>. QED
    BY <2>1, <2>2, <1>1, MoveUpdate
<1>. QED
  BY <1>4, <1>5, <1>6, <1>7, <1>8, <1>9, <1>10, <1>11, <1>12, <1>13, <1>14 DEF Proceed

\* Each step of a process that starts or ends brings it nearer to the end.
StartAdvances ==
  \A p \in Processes :
    UNCHANGED <<pc[p], stack[p]>> \/ Nearer(p)

LEMMA StepMoves ==
  TypeOK /\ Shallow /\ [Next]_vars => Shallow' /\ StartAdvances
<1>. SUFFICES ASSUME TypeOK, Shallow, [Next]_vars PROVE Shallow' /\ StartAdvances
  OBVIOUS
<1>1. ASSUME NEW p \in Processes, Moves(p) PROVE Shallow' /\ StartAdvances
  <2>1. ASSUME NEW q \in Processes
        PROVE  /\ Len(stack'[q]) <= Capacity(pc'[q])
               /\ UNCHANGED <<pc[q], stack[q]>> \/ Nearer(q)
    <3>1. CASE q = p
      BY <3>1, <1>1 DEF Moves
    <3>2. CASE q # p
      <4>1. pc'[q] = pc[q] /\ stack'[q] = stack[q] /\ Len(stack[q]) <= Capacity(pc[q])
        BY <3>2, <1>1 DEF Moves, Shallow
      <4>. QED
        BY <4>1
    <3>. QED
      BY <3>1, <3>2
  <2>2. Shallow'
    BY <2>1 DEF Shallow, Capacity
  <2>. QED
    BY <2>1, <2>2 DEF StartAdvances
<1>2. CASE \E p \in Processes :
       \/ Begin(p) \/ Proceed(p) \/ GroqFails(p) \/ AcquireLost(p) \/ Raise(p) \/ Cancel(p)
       \/ Shutdown(p) \/ Crash(p)
  BY <1>1, <1>2, ProcessMoves
<1>3. ASSUME UNCHANGED <<pc, stack>> PROVE Shallow' /\ StartAdvances
  BY <1>3 DEF Shallow, Capacity, StartAdvances
<1>. QED
  BY <1>2, <1>3 DEF Next, Tick, vars, processVars

\* However often it is cancelled or fails on its way, and whatever the others do,
\* a process that starts or ends takes at most 18 steps until it serves, has
\* failed or is gone: only an await that never ends can hold it.
THEOREM StartBounded ==
  Spec => /\ [](\A p \in Processes : StepsLeft(pc[p], Len(stack[p])) \in 0 .. 18)
          /\ [][StartAdvances]_vars
<1>1. Init => Shallow
  <2>1. Len(<<>>) = 0 /\ 0 <= Capacity("down")
    BY DEF Capacity
  <2>. QED
    BY <2>1 DEF Init, Shallow
<1>2. TypeOK /\ Shallow => \A p \in Processes : StepsLeft(pc[p], Len(stack[p])) \in 0 .. 18
  <2>1. ASSUME TypeOK, Shallow, NEW p \in Processes
        PROVE  StepsLeft(pc[p], Len(stack[p])) \in 0 .. 18
    <3>1. PICK at, n : at = pc[p] /\ n = Len(stack[p]) /\ n \in Nat /\ n <= Capacity(at)
      BY <2>1, LenProperties DEF TypeOK, Shallow
    <3>2. n <= 6
      BY <3>1 DEF Capacity
    <3>3. StepsLeft(at, n) \in 0 .. 18
      BY <3>1, <3>2 DEF StepsLeft
    <3>. QED
      BY <3>1, <3>3
  <2>. QED
    BY <2>1
<1>. QED
  BY InitTyped, StepTyped, StepMoves, <1>1, <1>2, PTL DEF Spec
=============================================================================
