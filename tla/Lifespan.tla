------------------------------ MODULE Lifespan ------------------------------
(***************************************************************************)
(* Start and end of the API processes: lifespan() of                       *)
(* backend/dependencies.py acquires the resources of a process one after   *)
(* the other and registers each on an exit stack; whatever ends the start  *)
(* (an exception, a cancellation) or the service unwinds that stack.       *)
(*                                                                         *)
(* Every await of the start is a state of its own, at which it may raise,  *)
(* be cancelled, or the process die.  What runs between two awaits is one  *)
(* step.  The checkpoint tables are set up under a Redis lock whose lease  *)
(* runs out while its holder goes on.                                      *)
(***************************************************************************)
EXTENDS Naturals, Sequences

CONSTANTS
  Processes,  \* API processes, of any replica
  Nobody,     \* the lock is free
  LockTtl,    \* timeout of the setup lock, 120 s
  Patience    \* blocking_timeout of the setup lock, 120 s

ASSUME LifespanAssumption ==
  /\ Nobody \notin Processes
  /\ LockTtl \in Nat \ {0} /\ Patience \in Nat \ {0}

VARIABLES
  settings,  \* vector_store and checkpoint_backend, the same for all
  pc,        \* the await each process is in
  stack,     \* its AsyncExitStack: what it will close
  open,      \* what it has open
  store,     \* app.state.request_store is set
  ending,    \* where unwinding the stack leads to
  waited,    \* time in the await for the lock or for checkpointer.setup()
  lock,      \* opcenter:startup:checkpoint-setup: its holder
  lockTtl    \* and its time to live

processVars == <<pc, stack, open, store, ending, waited>>
lockVars == <<lock, lockTtl>>
vars == <<settings, processVars, lockVars>>

Resources == {"pool", "client", "cache", "limiter", "groq", "sqlite"}

\* Awaits at which an exception or a cancellation goes straight to the stack.
Plain == {"pool", "models", "client", "indexes", "reranker", "redis",
          "checkpoints", "lock"}
Starting == Plain \cup {"setup", "release", "abort"}
Settled == {"down", "ready", "failed"}

TypeOK ==
  /\ settings \in [vectorStore : {"chroma", "pgvector"},
                   checkpoints : {"postgres", "sqlite"}]
  /\ pc \in [Processes -> Starting \cup Settled \cup {"closing"}]
  /\ stack \in [Processes -> Seq(Resources)]
  /\ open \in [Processes -> SUBSET Resources]
  /\ store \in [Processes -> BOOLEAN]
  /\ ending \in [Processes -> {"down", "failed"}]
  /\ waited \in [Processes -> Nat]
  /\ lock \in Processes \cup {Nobody}
  /\ lockTtl \in 0 .. LockTtl

Init ==
  /\ settings \in [vectorStore : {"chroma", "pgvector"},
                   checkpoints : {"postgres", "sqlite"}]
  /\ pc = [p \in Processes |-> "down"]
  /\ stack = [p \in Processes |-> <<>>]
  /\ open = [p \in Processes |-> {}]
  /\ store = [p \in Processes |-> FALSE]
  /\ ending = [p \in Processes |-> "down"]
  /\ waited = [p \in Processes |-> 0]
  /\ lock = Nobody /\ lockTtl = 0

NeedsPool == settings.checkpoints = "postgres" \/ settings.vectorStore = "pgvector"

Goto(p, from, to) == pc[p] = from /\ pc' = [pc EXCEPT ![p] = to]
-----------------------------------------------------------------------------
(* The start, up to the checkpointer *)

\* Mutant of Begin: the pool is registered once it is open.
BeginUnregistered(p) ==
  /\ Goto(p, "down", IF NeedsPool THEN "pool" ELSE "models")
  /\ open' = [open EXCEPT ![p] = IF NeedsPool THEN {"pool"} ELSE {}]
  /\ UNCHANGED <<settings, stack, store, ending, waited, lockVars>>

\* A new process.  The pool is registered before it opens: its connections are
\* made while pool.open() waits for them.
Begin(p) ==
  /\ Goto(p, "down", IF NeedsPool THEN "pool" ELSE "models")
  /\ stack' = [stack EXCEPT ![p] = IF NeedsPool THEN <<"pool">> ELSE <<>>]
  /\ open' = [open EXCEPT ![p] = IF NeedsPool THEN {"pool"} ELSE {}]
  /\ UNCHANGED <<settings, store, ending, waited, lockVars>>

\* An await that acquires nothing the stack would have to close.
Pass(p, from, to) ==
  /\ Goto(p, from, to)
  /\ UNCHANGED <<settings, stack, open, store, ending, waited, lockVars>>

\* The pool has its connections, the embedding model is loaded (and pgvector is
\* healthy), records and index agree.
PoolOpens(p) == Pass(p, "pool", "models")
ModelLoads(p) == Pass(p, "models", "client")
IndexesValid(p) == Pass(p, "indexes", "reranker")

\* PgVectorClient or Chroma client, made the client of this process.
ConfigureClient(p) ==
  /\ Goto(p, "client", "indexes")
  /\ stack' = [stack EXCEPT ![p] = Append(@, "client")]
  /\ open' = [open EXCEPT ![p] = @ \cup {"client"}]
  /\ UNCHANGED <<settings, store, ending, waited, lockVars>>

\* RedisGroqLimiter.connect(): the client exists, and is not registered yet,
\* while its ping waits for an answer.
ConnectRedis(p) ==
  /\ Goto(p, "reranker", "redis")
  /\ open' = [open EXCEPT ![p] = @ \cup {"limiter"}]
  /\ UNCHANGED <<settings, stack, store, ending, waited, lockVars>>

\* Redis answered the ping: request store, result cache, limiter and provider
\* client in one step without an await.
ConfigureRedis(p) ==
  /\ Goto(p, "redis", "checkpoints")
  /\ stack' = [stack EXCEPT ![p] = @ \o <<"cache", "limiter", "groq">>]
  /\ open' = [open EXCEPT ![p] = @ \cup {"cache", "groq"}]
  /\ store' = [store EXCEPT ![p] = TRUE]
  /\ UNCHANGED <<settings, ending, waited, lockVars>>

\* The same step when the provider client cannot be made.
GroqFails(p) ==
  /\ Goto(p, "redis", "closing")
  /\ stack' = [stack EXCEPT ![p] = @ \o <<"cache", "limiter">>]
  /\ open' = [open EXCEPT ![p] = @ \cup {"cache"}]
  /\ store' = [store EXCEPT ![p] = TRUE]
  /\ ending' = [ending EXCEPT ![p] = "failed"]
  /\ UNCHANGED <<settings, waited, lockVars>>

\* The SQLite connection, or the pool that is open already.
OpenCheckpointer(p) ==
  /\ Goto(p, "checkpoints", "lock")
  /\ \/ /\ settings.checkpoints = "sqlite"
        /\ stack' = [stack EXCEPT ![p] = Append(@, "sqlite")]
        /\ open' = [open EXCEPT ![p] = @ \cup {"sqlite"}]
     \/ /\ settings.checkpoints = "postgres"
        /\ UNCHANGED <<stack, open>>
  /\ UNCHANGED <<settings, store, ending, waited, lockVars>>
-----------------------------------------------------------------------------
(* Setting up the checkpoint tables, one process at a time *)

\* The holder of the lock is known by its token.
Take(p) == lock = Nobody /\ lock' = p /\ lockTtl' = LockTtl
Free(p) == lock = p /\ lock' = Nobody /\ lockTtl' = 0

\* Out of an await whose time is counted.
Leave(p, from, to) == Goto(p, from, to) /\ waited' = [waited EXCEPT ![p] = 0]

\* SET NX with the lease.
AcquireLock(p) ==
  /\ Leave(p, "lock", "setup")
  /\ Take(p)
  /\ UNCHANGED <<settings, stack, open, store, ending>>

\* The lock was taken, but the answer does not arrive: redis-py raises.
AcquireLost(p) ==
  /\ Leave(p, "lock", "closing")
  /\ Take(p)
  /\ ending' = [ending EXCEPT ![p] = "failed"]
  /\ UNCHANGED <<settings, stack, open, store>>

\* Mutant of GiveUp: the process keeps asking.
AskAgain(p) ==
  /\ pc[p] = "lock" /\ waited[p] = Patience
  /\ waited' = [waited EXCEPT ![p] = 0]
  /\ UNCHANGED <<settings, pc, stack, open, store, ending, lockVars>>

\* blocking_timeout: "Checkpoint setup lock timed out".
GiveUp(p) ==
  /\ waited[p] = Patience
  /\ Leave(p, "lock", "closing")
  /\ ending' = [ending EXCEPT ![p] = "failed"]
  /\ UNCHANGED <<settings, stack, open, store, lockVars>>

SetUp(p) ==
  /\ Leave(p, "setup", "release")
  /\ UNCHANGED <<settings, stack, open, store, ending, lockVars>>

\* Mutant of Release: DEL without comparing the token.
ReleaseAny(p) ==
  /\ Goto(p, "release", "ready")
  /\ lock' = Nobody /\ lockTtl' = 0
  /\ UNCHANGED <<settings, stack, open, store, ending, waited>>

\* The graph is built and the process serves.
Release(p) ==
  /\ Goto(p, "release", "ready")
  /\ Free(p)
  /\ UNCHANGED <<settings, stack, open, store, ending, waited>>

\* finally: the lock is released, then the exception goes on.
Abort(p) ==
  /\ Goto(p, "abort", "closing")
  /\ Free(p)
  /\ UNCHANGED <<settings, stack, open, store, ending, waited>>

\* LockNotOwnedError, or a Redis error before or after the lock is freed: an
\* exception of its own, which takes the place of a cancellation on its way.
ReleaseFails(p) ==
  /\ Goto(p, "release", "closing") \/ Goto(p, "abort", "closing")
  /\ Free(p) \/ UNCHANGED lockVars
  /\ ending' = [ending EXCEPT ![p] = "failed"]
  /\ UNCHANGED <<settings, stack, open, store, waited>>
-----------------------------------------------------------------------------
(* The end of a start or of the service *)

\* An exception in any await: the process goes on without the graph.
Raise(p) ==
  /\ \/ pc[p] \in Plain /\ pc' = [pc EXCEPT ![p] = "closing"]
     \/ Goto(p, "setup", "abort")
  /\ waited' = [waited EXCEPT ![p] = 0]
  /\ ending' = [ending EXCEPT ![p] = "failed"]
  /\ UNCHANGED <<settings, stack, open, store, lockVars>>

\* Cancelled in any await: the exception leaves lifespan().
Cancel(p) ==
  /\ \/ /\ pc[p] \in Plain \cup {"release", "abort"}
        /\ pc' = [pc EXCEPT ![p] = "closing"]
     \/ Goto(p, "setup", "abort")
  /\ waited' = [waited EXCEPT ![p] = 0]
  /\ ending' = [ending EXCEPT ![p] = "down"]
  /\ UNCHANGED <<settings, stack, open, store, lockVars>>

\* Mutant of Close: first opened, first closed.
CloseOldest(p) ==
  /\ pc[p] = "closing" /\ stack[p] # <<>>
  /\ stack' = [stack EXCEPT ![p] = Tail(@)]
  /\ open' = [open EXCEPT ![p] = @ \ {Head(stack[p])}]
  /\ UNCHANGED <<settings, pc, store, ending, waited, lockVars>>

\* stack.aclose(): the callback registered last, whether or not it raises.
Close(p) ==
  LET n == Len(stack[p]) IN
  /\ pc[p] = "closing" /\ n > 0
  /\ stack' = [stack EXCEPT ![p] = SubSeq(@, 1, n - 1)]
  /\ open' = [open EXCEPT ![p] = @ \ {stack[p][n]}]
  /\ UNCHANGED <<settings, pc, store, ending, waited, lockVars>>

Closed(p) ==
  /\ stack[p] = <<>>
  /\ Goto(p, "closing", ending[p])
  /\ ending' = [ending EXCEPT ![p] = "down"]
  /\ store' = [store EXCEPT ![p] = IF ending[p] = "failed" THEN @ ELSE FALSE]
  /\ UNCHANGED <<settings, stack, open, waited, lockVars>>

\* The server stops: graph and request store are taken back first.
Shutdown(p) ==
  /\ Goto(p, "ready", "closing") \/ Goto(p, "failed", "down")
  /\ ending' = [ending EXCEPT ![p] = "down"]
  /\ store' = [store EXCEPT ![p] = FALSE]
  /\ UNCHANGED <<settings, stack, open, waited, lockVars>>

\* The process dies; its lock lives on until its lease ends.
Crash(p) ==
  /\ pc[p] # "down"
  /\ pc' = [pc EXCEPT ![p] = "down"]
  /\ stack' = [stack EXCEPT ![p] = <<>>]
  /\ open' = [open EXCEPT ![p] = {}]
  /\ store' = [store EXCEPT ![p] = FALSE]
  /\ ending' = [ending EXCEPT ![p] = "down"]
  /\ waited' = [waited EXCEPT ![p] = 0]
  /\ UNCHANGED <<settings, lockVars>>

\* One unit of time; blocking_timeout is checked in time.
Tick ==
  /\ \A p \in Processes : pc[p] = "lock" => waited[p] < Patience
  /\ lockTtl' = IF lockTtl > 0 THEN lockTtl - 1 ELSE 0
  /\ lock' = IF lockTtl > 1 THEN lock ELSE Nobody
  /\ waited' = [p \in Processes |->
       IF \/ pc[p] = "lock"
          \/ pc[p] = "setup" /\ waited[p] < LockTtl
         THEN waited[p] + 1 ELSE waited[p]]
  /\ UNCHANGED <<settings, pc, stack, open, store, ending>>

\* What a process does by itself, each await ending well.
Proceed(p) ==
  \/ PoolOpens(p) \/ ModelLoads(p) \/ IndexesValid(p)
  \/ ConfigureClient(p) \/ ConnectRedis(p) \/ ConfigureRedis(p)
  \/ OpenCheckpointer(p)
  \/ AcquireLock(p) \/ GiveUp(p) \/ SetUp(p) \/ Release(p) \/ Abort(p)
  \/ ReleaseFails(p) \/ Close(p) \/ Closed(p)

Next ==
  \/ \E p \in Processes :
       \/ Begin(p) \/ Proceed(p) \/ GroqFails(p) \/ AcquireLost(p) \/ Raise(p) \/ Cancel(p)
       \/ Shutdown(p) \/ Crash(p)
  \/ Tick

Spec == Init /\ [][Next]_vars

\* Models load, Redis, the database and time answer or run out.
FairSpec ==
  Spec /\ WF_vars(Tick) /\ \A p \in Processes : WF_vars(Proceed(p))
-----------------------------------------------------------------------------
(* Properties *)

\* What an open resource uses.
Uses(r) == IF r = "client" /\ settings.vectorStore = "pgvector" THEN {"pool"} ELSE {}

\* What a serving process needs.
Needed ==
  {"client", "cache", "limiter", "groq"}
    \cup (IF NeedsPool THEN {"pool"} ELSE {})
    \cup (IF settings.checkpoints = "sqlite" THEN {"sqlite"} ELSE {})

\* However a start or the service ends, nothing stays open behind it but a Redis
\* client whose ping was not answered; what is open rests on what it uses until
\* it is closed, and a process that serves has everything.
ResourcesHeld ==
  \A p \in Processes :
    /\ pc[p] \in {"down", "failed"} => open[p] \subseteq {"limiter"}
    /\ pc[p] = "failed" /\ store[p] => open[p] = {}
    /\ \A r \in open[p] : Uses(r) \subseteq open[p]
    /\ pc[p] = "ready" => Needed \subseteq open[p]

\* Two processes set the tables up at once only when the lease of one of them
\* has run out: nobody takes or gives back a lock that is another's.
SetupsApart ==
  \A p, q \in Processes :
    p # q /\ pc[p] = "setup" /\ pc[q] = "setup" => LockTtl \in {waited[p], waited[q]}

\* Every start and every end comes to an end, although processes that crash
\* and start again compete for the lock without end.
StartEnds == \A p \in Processes : pc[p] \notin Settled ~> pc[p] \in Settled
=============================================================================
