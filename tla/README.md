# Opcenter bot: specifications and proofs

TLA+ modules that model the control of the Opcenter manual assistant (a FastAPI
and LangGraph service over Redis, SQLite/PostgreSQL, Chroma/pgvector and Groq),
the TLC configurations that check them on small instances, and proofs that TLAPS
checks for every value of the constants. Paths are relative to the repository;
`PROJECT.json` maps every definition to the lines it stands for, with the
repository itself under `src/`.

```
tlc -config MCGroqLimiterFaults.cfg MCGroqLimiter.tla     # one run, see the table
tlapm GroqLimiterProofs.tla                               # one module of proofs
```

## 1. The system

| Component | State | Operations | Interacts with |
|---|---|---|---|
| Groq admission control, `src/groq_limits.py` | per model in Redis: queue counter (with TTL), window counters of requests and tokens (60 s), zset of slots with their expiry | `RedisGroqLimiter.run`, `_ADMIT`, `_RELEASE`, `set_status` | called by the LLM calls; shared by all replicas |
| Chat requests and streaming, `backend/routes/chat.py`, `src/request_store.py` | in Redis: thread owner, pending request, status; the thread's checkpoint | `POST /v1/chat`, `GET /v1/chat/{id}/stream`, `get_request`, `pop_request` | runs the workflow; reads its checkpoint back |
| Local inference gate, `src/inference.py` | an asyncio semaphore and a counter of waiters, per process | `slot()` | in front of embedding and reranking in `nodes.py` |
| LLM calls, `src/llm.py` | locals of one invocation | `call_llm`, `call_structured`, `_invoke_model` | admission control below, nodes above |
| RAG workflow, `src/graph.py`, `src/nodes.py`, `src/schemas.py` | `RAGState`, checkpointed per conversation and thread | the ten nodes, two routers | LLM calls, retrieval, gate |
| Hybrid retrieval, `src/retrieval.py`, `src/hybrid.py`, `src/cache.py` | loaded records (cached for the process), Redis result cache, threads of the executor, disabled rerankers | `retrieve_multiple_queries`, `hybrid_search`, `rerank_documents`, `load_resources` | vector stores, ingestion's files, gate |
| Manual ingestion, `src/ingest.py` | six JSON record files, manifest, figure catalog | `ingest_manuals`, `build_indexes`, `validate_indexes` | vector stores; its files are read by the API |
| Vector stores, `src/vector_store.py`, `src/pgvector_migrate.py`, `src/embeddings.py` | two collections per store | `replace_collections`, backfill, search | ingestion writes, retrieval reads |
| Backend lifespan, `backend/dependencies.py`, `backend/main.py` | the process's resources | `lifespan`, `validate_search_indexes` | all of the above |
| Prompt context, `src/compression.py`, `src/prompts.py` | none | text selection, wording | nodes |
| Configuration, observability, `src/config.py`, ... | settings, metrics | | all |
| Streamlit frontend, `app.py` | a session's conversation and stream | post, stream, reconnect | chat requests |
| Evaluation, benchmarks, scripts | none of the system's | | call the system |

What is hard, and the property each component owes:

* **Admission control.** Several replicas with clocks of their own run
  non-transactional sequences of Redis commands; replies get lost, processes die,
  keys expire under their users. *No more calls in flight and no more calls or
  tokens per minute than configured; every wait ends; lost slots come back.*
* **Chat requests.** Streams are opened twice, clients leave, keys expire, two
  sessions know one thread id. *A request runs once, its thread is its session's
  while it is in use, its answer is its own, an answered turn is remembered.*
* **Inference gate.** A wake-up and a cancellation meet in one iteration of the
  event loop. *No permit is lost or duplicated, no wake-up is lost, first come
  first served.*
* **LLM calls.** Two nested loops over a limiter, roles whose fallbacks form a
  cycle. *Bounded calls and time, no slot kept while falling back, a refused
  prompt is not repeated.*
* **Workflow.** A node may raise anywhere and the next turn starts on the state it
  left. *Nothing of an earlier turn is in an answer; the status, the evidence and
  the answer agree; at most one broadening.*
* **Ingestion and stores.** Eight artefacts are replaced one by one by a job that
  may be interrupted, while manuals change. *A completed job is consistent, a
  broken one is never served as a mixture, running it again repairs everything.*
* **Retrieval.** Two branches with deadlines run in threads that cannot be stopped,
  on an executor they share with their callers; results outlive the process in Redis.
  *Answers come from the corpus that is served, one branch is enough, calls that the
  gates admitted do not take each other's threads.*
* **Ranking.** Lists that repeat ids are fused, extended, cut and merged at five
  limits. *What every search prefers is not outranked; no evidence unit and no aspect
  takes more than its share of what a limit leaves.*
* **Lifespan.** Every await of a start may fail, be cancelled or outlive a lease.
  *Nothing stays open, a serving process has all it needs, two setups overlap only
  past a lease, every start ends.*

The hazards behind these, each at its line, are listed in `PROJECT.json`.

## 2. Modules

```
SlidingWindow <- AdmissionControl   (abstract)
      ^                ^ implements
      +---------- GroqLimiter  <- MCGroqLimiter,  GroqLimiterProofs
Conversation   <- ChatRequests  (implements)  <- MCChatRequests, ChatRequestsProofs
LlmCalls       <- MCLlmCalls,     LlmCallsProofs
Ranking        <- MCRanking,      RetrievalProofs
InferenceGate  <- InferenceGateProofs     RagWorkflow <- RagWorkflowProofs
Retrieval      <- RetrievalProofs         Lifespan    <- LifespanProofs
Ingestion      <- IngestionProofs
```

**`GroqLimiter`** — one model, any callers of any replicas. Each Redis command is an
action: `Join` (INCR), `ExpireQueueKey`, `RejectFull`, `Admit` (the Lua script:
purge, count, window, `zadd`), `PollRejected`, `QueueTimeout`, `Leave` (DECR),
`Release` (the release script). `JoinLost`, `ExpireLost`, `AdmitLost` and the second disjuncts
of the others are commands that fail before or after Redis executed them;
`Abandon` is cancellation, `Crash` the death of a process. Timers count down with
`Tick`. Costs above the token limit are never admitted, as in the code. The zset's
own EXPIRE is left out: it lies 5 s after the newest score. `AdmissionControl` is
what a caller relies on; `SlidingWindow` is the observer's log of recent calls.

**`ChatRequests`** — `Claim`, `Save`, `Accept`, `PostFails` are the POST;
`Open`, `Take`, `Start`, `Report`, `Finish`, `Deliver`, `Fail`, `Disconnect` the
stream (ownership check, GETDEL, load the checkpoint, status, write it back, read
the answer, errors, lost clients and replicas). A run is seen through its checkpoint
only. Status keys do not expire in the model. On the conversations in
`SequentialKeys` a client takes turns, as `app.py` does; on the others it need not.
`Conversation` is what a user who takes turns relies on: a question is taken up,
remembered, and then replied to or broken off. The refinement mapping of
`ConversationSpec` takes the runs from start to last event, the checkpoint's turns and
the answers delivered.

**`InferenceGate`** — a coroutine runs alone until it suspends, which in `slot()`
is only in `semaphore.acquire()`: entering is one action, resuming another, with
cancellation and the worker thread in between. `asyncio.Semaphore` is modelled
from its use, as it is in Python 3.11 (the Dockerfiles' `python:3.11-slim`), where a
caller that returns from `acquire()` wakes one more waiter if a permit is left.

**`RagWorkflow`** — one action per node and outcome, `Ask` for the next question
on the checkpoint, `Raise` for an exception in any node. Documents are the turn
that retrieved them and their manual. What models, indexes, prompts and text
validators answer is nondeterministic.

**`LlmCalls`** — `Invoke`, `Admit`, `LimitError`, `Succeed`, `Fail`, `Raise`,
`Retry`, `Cancel` for `call_llm` and `call_structured`. Of the limiter only the
slots and the deadline of the wait remain: while a caller waits it may be admitted
if a slot is free, or get `GroqLimitError` at any time.

**`Retrieval`** — one API process with pgvector and `PARALLEL_HYBRID`. A coroutine
passes the gate (reduced to its slots) and waits for a thread; the thread looks the
call up in the result cache under the manifest it reads, or under `Unknown` when it
cannot read it, or loads the records and has the event loop run a dense and a lexical
branch per query, each with its deadline, the lexical one in a second thread. The
auxiliary searches follow, each that uses the database with a deadline of the adapter's
(`SearchEnds`, `AdapterTimesOut`); any of them may raise (`PathsFail`). Reranking takes a
slot and a thread as well, `expand_context` and `generate_fallback` a thread without a
slot (`AskNode`, `BeginNode`, which may load the records, `NodeEnds`). A call is one
`retrieve_multiple_queries`, of which `retrieve_documents` makes one per aspect. Threads
go on when their coroutine is cancelled or their branch is given up (`strays`). An ingestion replaces records, index and manifest in three steps. What
is retrieved is the ingestion it comes from.

**`Ranking`** — pure operators between seven stages: `RankFuse` per query and over
the queries with bonuses and deduplication by text (`Fused`), `Expand` by
neighbours, `LimitPerEvidence`, the cross-encoder or its fallback (`Rerank`,
`Fallback`), the cuts of the compression (`Compress`) and the merge of the aspects
(`Merge`). Searches, scores and a failing cross-encoder are open. Scores are integers
in a unit that 60 + rank divides for the ranks in use; in general the unit need only
tell two ranks apart (`UnitAssumption`), as the floats of the code do. Whatever the code
sorts is given by its positions and an order of them (`Arranged`).

**`Lifespan`** — the processes' `lifespan()`: every await of the start is a state in
which it may go on, raise, be cancelled or the process die; `stack` is the
`AsyncExitStack`, `open` what is open in fact. The setup lock is a Redis lock with a
lease, a blocking timeout and a release that fails when the lock is another's.

**`Ingestion`** — `Start`, `ExtractFigures`, `Check`, `Hash`, `Parse`,
`CheckEvidence`, `WriteRecords` (once per file), `Decide`, the Chroma rebuild
`Wipe`, `Open`, `AddBody`, `AddReps`, `Validate`, or pgvector's `Publish`, then
`WriteManifest` and `Summary`; `Crash` between any two, `PublishFails` with the
transaction committed or not; the operator's `Edit`, `Switch`, `StartBackfill`;
`StartApi`. Record ids hash the manual's sha256 and the text, so a manual's records
are the pair of the hashed and the parsed version. One schema version; every
manual has text; `rmtree` is one step; a batch is one manual's records.

## 3. Runs

| Run | Instance | Shows |
|---|---|---|
| `limiter_faults` | 2 callers, 3 slots, concurrency 1, clocks one unit apart, slow Redis, 1 fault | limits hold and the abstract specification is implemented under faults; calls end, slots recover |
| `limiter_long_calls` | 4 callers, no faults, the code's 90 s calls | **violation** of the bounded queue |
| `chat` | 2 sessions on one thread in 2 conversations, one of them taking turns, 2 requests, 2 handlers | ownership, single run, final status, streams end; where clients take turns, one's own answer, and the abstract conversation is implemented |
| `gate` | 5 coroutines, 2 slots, 2 queue places | permits, wake-ups, counter, order, progress |
| `workflow` | 2 turns, 2 aspects, relationship evidence, 1 required manual | seven properties of the graph |
| `workflow_broadening` | 1 aspect, 1 required manual | **violation**: a broadened pass that retrieves nothing |
| `llm_calls` | 2 callers with crossed models, 1 slot each | slots, refusals, time, Retry-After, progress |
| `retrieval` | 2 calls, 1 slot, 3 threads, 2 queries, 2 auxiliary searches, 2 ingestions, 1 call that may not read the manifest | served corpus, independent branches, no self-made starvation, calls end |
| `ranking` | 2 searches of up to 3 and 2 chunks, 2 queries, 4 chunks, 3 evidence units, 3 aspects for 2 sources | unanimous rankings kept, no unit and no aspect takes more than its share |
| `lifespan` | 2 processes, lease 3, patience 2 | resources, exclusive setup, starts end |
| `ingestion` | 2 manuals, 2 edits, 1 fault, the three stores | reuse, completeness, one ingestion served, catching up |
| `ingestion_rollback` | no fault, switching back from pgvector | **violation**: the job never rebuilds Chroma |

**Bounds.** A unit of `MCGroqLimiter` is 30 s (wait 1, key 2, window 2, call 3,
lease 5); one fault is enough for each lost reply, failed release and crash to happen
at every point, and the proofs hold for any number. Three slots for two callers keep a
leaked one beside two in use. In `MCChatRequests` one unit is the request's time to live, and
ownership outlasts it and a run by nothing. Five coroutines against two slots and two
places give a full queue and a rejected caller. Two turns suffice for state that leaks into the
next one, since a turn reads only the checkpoint; two passes are all a turn has. In
`Retrieval` the branches' deadlines are the shortest and the adapter's the next longer
one, of two auxiliary searches the second starts with a whole deadline again, one slot
with three threads is the executor at its limit, the second call meets the threads the
first one left, and the second ingestion the results of the first. Two lists with repeated
ids, three chunks of one unit and one of another, and two
queries reach every tie and every cut of `Ranking`; three aspects for two sources are
the case in which the code's limits are too small for all. `llm_calls` has a Retry-After
below and one above the cap. In `Lifespan` the second process
waits, outwaits or outlives the first one's lease. Two
manuals have an unchanged one beside a changed, removed or new one; two edits
let a manual change before and during a job or disappear and return.
`ServesOneIngestion` is proved for any number of edits; with a second fault and four
edits it is violated (section 6). `RagWorkflow`
may stop after `MaxTurns`, so its runs do not check deadlock.

**Fairness.** Weak fairness of `Tick` everywhere: time passes. Weak fairness of a
caller's or handler's own steps: the event loop runs ready coroutines, Redis
commands time out (`socket_timeout=2`), provider calls have a timeout. Joining, posting,
crashing, cancelling and editing are never fair. `InferenceGate` assumes that
inference returns. In `Retrieval` the database need not answer: deadlines
fire, searches in memory and nodes end, abandoned threads are let go by the adapter's
timeout at the latest, and getting a thread is strongly fair, as the executor's queue
is first come first served. In `Lifespan` models load, and Redis and the database answer or
time out; getting the lock is not fair, but its wait is bounded. In `Ingestion` a job that
is not interrupted goes on (weak), and the operator keeps running it (strong, since
backfills may come in between); without it nothing catches up.

## 4. Assumptions

* `LeaseAssumption`: a provider call, status update included, plus the spread of
  the replicas' clocks is shorter than the lease (30 s + 120 s; calls take up to
  90 s). A clock further ahead purges slots still in use.
* `OwnershipAssumption`: request TTL plus the longest run is at most the ownership
  TTL; the defaults are far
  apart (300 s and 30 days); nothing enforces it for other settings.
* `PromptRedis`: in `limiter_long_calls` no time passes between two Redis commands
  of one caller. In `limiter_faults` it may. With faults the queue counter is not exact: a
  lost INCR reply or DECR leaves it one off until the key expires.
* `SequentialKeys`: a client has one stream at a time on a conversation and notices its
  end before it asks again (`app.py`). A POST takes less than a unit of time.
* `DeadlineAssumption`: both branch timeouts lie below the adapter's
  (`Settings.validate()`, src/config.py:236).
* `ThreadAssumption`: three executor threads per inference slot. Python's executor has
  min(32, CPUs + 4), so the default of four slots needs eight CPUs. Nothing enforces it;
  with fewer threads, calls that wait for lexical searches fill the executor, the
  searches time out in its queue and retrieval goes on without its lexical half.
  `Threads` are those left by readiness probes and name lookups; the threads of nodes
  that pass no gate are in the model, and `StarvedByUngated` names them.
* `Offline`, `Completed`: ingestions run while the API is down and it is started after
  completed ones (README.md:155, docs/PGVECTOR_MIGRATION_PLAN.md:790). Otherwise
  `AnswersFromServedCorpus` is violated: a result of the old corpus is stored, or found,
  under the new manifest for up to 900 s.
* A lookup whose reading of the manifest failed is outside `AnswersFromServedCorpus`
  (section 6). What the cache holds under its key is not followed: it may be of any
  ingestion so far.
* `StatusTrue` needs `MaxRetries <= 1`; see section 6.
* Ingestion follows README.md:155-157: no jobs side by side, the API down meanwhile.
  `PutBack = FALSE`: a replaced manual is newer than what it replaces. With `TRUE`,
  a job that crashed after writing new records and a manual put back to the
  manifest's version make the next job reuse the newer records for the old hash
  (`RecordsAsPromised` is violated). `BackfillAfter = {"done"}`: a backfill follows a
  completed job; after a crash it publishes half-written files and reports success
  (`CompletedWhole` is violated).

## 5. Proofs

| Module | Theorems | Argument |
|---|---|---|
| `GroqLimiterProofs` | `TypeCorrect`, `Covered`, `ConcurrencyLimit`, `RateLimit`, `LeasesRunOut`, `Implements` | `RedisCoversCalls` is inductive with `TypeOK`: a running call owns a slot whose lease exceeds its remaining time by a margin no clock difference uses up; the zset holds at most `Concurrency` slots; the window's keys count every call of the sliding window and outlive the youngest. Only the script that adds a slot sets its lease, and a uuid is new, so a lease only runs down (`LeasesRunOut`). The limits follow by counting slots, the refinement by mapping `Admit` to `Start`, leaving to `Stop`, `Tick` to `TimePasses`. |
| `ChatRequestsProofs` | `TypeCorrect`, `Owned`, `RunsOnce`, `FinalStatus`, `OwnAnswer`, `DurableTurns`, `Converses` | GETDEL has one winner (`Exclusive`). A stored request has not run and nobody streams it; its owner key covers what is left of the pending key and a whole run (`Waiting`), and then the rest of the run (`Served`). `FinalStatus` is an action property from the same invariant. For the last three, `TurnInv` adds that a sequential conversation has one stream at a time, which has loaded all its turns and later finds its own answer there; `Converses` maps `Start` to `TakeUp` (what a conversation remembers has run before, and a taken request has not: `Ran`), `Deliver` to `Reply`, and what breaks a run off to `BreakOff`. |
| `LlmCallsProofs` | `TypeCorrect`, `SlotsOnlyForCalls`, `CallsBound`, `RefusalFinal`, `TimeBound`, `RetryAfterRespected` | calls and elapsed time are bounded by the position in the two loops (`CallsMade`, `TimeSpent`), from which the bounds follow by arithmetic. |
| `InferenceGateProofs` | `TypeCorrect`, `PermitsConserved`, `WakeupsKept`, `FirstComeFirstServed` | `GateInv`: the queue holds each suspended caller once, the semaphore's value and the callers that hold a permit add up to `MaxConcurrency`, and a free permit beside a sleeper has a woken caller (even a cancelled one) that will pass it on. Removing a caller from the queue keeps the order of the others. |
| `RagWorkflowProofs` | `TypeCorrect`, `OwnTurn`, `AnswersFit`, `GroundedAnswers`, `StatusTrue`, `SecondPassKeeps`, `TurnBounded` | `WorkflowInv` says, stage by stage, which fields the nodes of this turn have set; a field that may still be an earlier turn's is read by no later stage. A broadened pass has something to look for and no supported aspect among it (`Targeted`), so retrieval and ranking keep those. The passes are counted by the retries, which bounds them by two; hence each node shortens the longest path that is left of the graph, of at most thirteen nodes (`NodesLeft`). |
| `RetrievalProofs` | `TypeCorrect`, `ServedCorpus`, `NoBranchLost`, `CallBounded`, `ThreadsSuffice` | while the API is up index and manifest are those of the records it loads, a call that read the manifest has its name, and the cache holds under each manifest only that ingestion's results (`Served`); while branches run, a pending one is within its deadline, so the adapter's is not reached (`Sounds`), and of the steps that fail a call only `Gather` applies; each step of a call, and each unit of time in which it waits for the database, lowers the pair of the queries left and `StageLeft`, which has one deadline of the adapter for the branches and one for each auxiliary search left; slots bound the threads of what the gates admitted, so an executor without a thread for it has a stray or a node (`Slotted`, by counting). |
| `RetrievalProofs`, about `Ranking` | `RespectsRankings`, `CrowdsOutNothing` | `FusionInv` says what the stages hand on: lists no longer than their limit, one ranking for each query so far, nothing repeated in it. A chunk above another in every list gets more from each of them, so its `Total` is higher, by recursion over the lists; sorting puts it first, and neither a removal of repetitions nor a cut changes the order of what is left. `LimitPerEvidence` leaves at most two chunks of a unit, so the first `RerankLimit` candidates, in any order, have half as many units, or all, and `EvidenceLimit` cuts only what is beyond it. The first round of the merge has the best of every aspect, and the shared choice adds one unit for each aspect not covered yet: if the sources cut it short, they are full of as many aspects. |
| `LifespanProofs` | `TypeCorrect`, `SetupOnlyUnderLease`, `NothingLeftOpen`, `StartBounded` | at every await the stack is what was registered and `open` what it will close (`Holding`); a process in setup holds the lock, or has outwaited the lease (`Leased`). The stack is never deeper than the await allows (`Shallow`), so every step of a start or an end, a failure or a cancellation included, lowers `StepsLeft`, from at most 18. |
| `IngestionProofs` | `TypeCorrect`, `PromisesKept`, `CompletedJobs`, `OneInterruption` | a record was hashed no earlier than the manifest's version, parsed no earlier than hashed, and neither after the newest (`Promised`); the job's own records and the files it has replaced so far agree (`TakenInv`, `FilesInv`); it writes the manifest only over a validated index (`StoreInv`). `OneInterruption` is `ServesOneIngestion` with at most one interruption, or under pgvector: segments and representations differ only between the writes of their two files, a store's two collections only while they are filled, so one interruption leaves one of the pairs at one (`OnceInv`), and the start compares each collection with its file. `PromisesKept` and `CompletedJobs` assume `PutBack = FALSE`, `CompletedJobs` and `OneInterruption` `BackfillAfter \subseteq {"done"}`. |

None of these invariants is inductive alone: that `ConcurrencyBounded` holds says nothing
about a slot whose holder is gone, that a request ran once nothing about the
handler that has taken it. `RateLimit` rests on the TTL refresh in the script; the
price, stated as a hazard, is that under steady traffic a full window never restarts.

Only model-checked: liveness (`CallEnds`, `SlotsRecover`, `StreamsEnd`, `WaitEnds`,
`TurnEnds`, `CallReturns`, `RetrievalEnds`, `StartEnds`, `CatchesUp`), which needs
fairness and ENABLED and so is out of the prover's reach. What is safety in it, a bound
on what is left that every step or unit of time lowers, is proved by `TurnBounded` for
`TurnEnds`, `StartBounded` for `StartEnds`, `CallBounded` for `RetrievalEnds`, `TimeBound` for
`CallReturns` and `LeasesRunOut` for `SlotsRecover`; that the step or the unit of time comes
is the fairness TLC assumes. Every invariant and action property of the runs is proved.

The library's induction theorems cannot be instantiated here; where a proof about `Ranking`
needs induction over a list, it is the well-ordering of a set of numbers that the lemma
`Induction` uses, and the sums and choices of `Ranking` are recursive functions, whose
equations the lemma `Recursion` gives.

## 6. Where code and documentation differ

* **Bounded Groq queue** (README.md:299). The counter's key expires 35 s after the last
  join, callers are counted for up to 120 s; then it is too low and more than
  `groq_max_queue_depth` wait (`limiter_long_calls`).
* **One broadened retrieval** (README.md:845). With only a manual's evidence missing, the
  broadened pass asks for no aspect and retrieves nothing (`workflow_broadening`).
* **Rollback by rebuilding Chroma** (README.md:189-191). No command rebuilds it once
  the corpus was ingested under pgvector (`ingestion_rollback`).

Seen, and not given a run:

* Two concurrent streams of one conversation overwrite each other's turn, although
  README.md:896 calls the memory durable: hence `SequentialKeys`.
* README.md:1268 has one retry and one fallback; an invocation makes up to four calls
  (`CallsBound`).
* With `MAX_RETRIES` of two or more (any int in src/config.py:143) `grade_evidence` asks
  for a second retry (src/nodes.py:554), which `route_after_grade` (src/graph.py:52) no
  longer takes, and partial evidence ends in the fallback answer.
* A job interrupted after dropping the records of a removed manual, the manual put back
  unchanged, and a second job interrupted while it fills the index leave a Chroma
  directory that no later job rebuilds: the old manifest's hash matches, nothing is
  processed, and validation fails each time. So `CatchesUp` holds for one interruption only.
* Segments and representations are each compared with the index, never with one another.
  Two interruptions of Chroma jobs are enough (`OneInterruption` proves that one is not): a
  job for a new manual is interrupted while representations are added, so the index has its
  segments only; the manual is removed, and the next job refused by that index; the manual
  is put back, and a third job interrupted between the two record files, which then have
  its segments only, too. Each collection matches its file, and the API starts with
  representations lacking a manual.
* A Redis client whose ping fails or is cancelled in `connect` (src/groq_limits.py:73)
  is never closed; `ResourcesHeld` states the exception to README.md:42.
* A start that fails after backend/dependencies.py:116 leaves `app.state.request_store`
  set: a POST is accepted although a stream would answer 503.
* A setup slower than the lock's 120 s fails its own start at `release()`, whose error
  also replaces a cancellation (backend/dependencies.py:130).
* An auxiliary search that raises fails the whole retrieval, with what both branches and
  all earlier queries found: one in the database, and the embedding of a heading search
  (src/retrieval.py:745-750) also when the dense branch had failed and the lexical one
  answered. `LosesNoBranch` is about the branches only.
* A manifest that cannot be read gives the cache key the version "unknown", whatever the
  ingestion (src/retrieval.py:953-954): a result cached under it is answered after an
  ingestion and a restart for up to 900 s.
* `expand_context` and `generate_fallback` have no asynchronous form (src/graph.py:118,
  125): they run in the executor of the gated calls without a slot, and the first may
  load the corpus there (src/retrieval.py:1246).
* README.md:1270 has Retry-After respected; src/llm.py:260 cuts it to 30 s, so the retry
  after a longer one comes early. `RetryAfterRespected` states the cap.
* No topic "can crowd out the others" (src/nodes.py:1663), but eight aspects and
  relationship evidence are nine for `MAX_EVIDENCE_SOURCES` of eight, one of which may be
  left out; and relationship evidence, cut at 8 candidates and 5 units
  (src/nodes.py:432-434), may keep four units of five. `NothingCrowdedOut` states what the
  limits leave.
* A draft whose verification failed for an error of the provider, or came back without any
  citation, is returned as it is (src/nodes.py:751-756): `AnswerFitsFailures` says that
  these are the only cases.
* What one branch alone found is cached for 900 s like a complete result (src/cache.py).
* One exception of the cross-encoder, an empty candidate list among them, disables
  reranking for the rest of the process (src/retrieval.py:1297).

## 7. Not modelled

Text processing (PDF parsing, layout, segmentation, sentence selection, prompts, DOT
and guardrail validation) and what a search matches are data to the models: their
outcomes are nondeterministic. Of the vector stores the SQL of a search, the connection
pool and the schema setup change no state the models tell apart. Settings are
CONSTANTS. Metrics, logging, figures, SSE framing and rendering change nothing that is
read again. Evaluation, benchmarks, load tests and scripts call the system from outside
and keep no state of it.

## 8. What could follow

1. `LlmCalls` on `AdmissionControl` in place of its reduced limiter, `Retrieval` on
   `InferenceGate`.
2. An `Ingestion` of two jobs side by side, which README.md:155 forbids and nothing prevents.
