------------------------------ MODULE Retrieval ------------------------------
(***************************************************************************)
(* Hybrid retrieval in one API process (src/retrieval.py, src/hybrid.py,   *)
(* src/cache.py, the database adapter of src/vector_store.py), with        *)
(* pgvector and PARALLEL_HYBRID, and the files an ingestion leaves for it. *)
(*                                                                         *)
(* A coroutine of the workflow passes the embedding gate and waits for a   *)
(* worker thread; the thread looks a call up in the result cache, or loads *)
(* the corpus and has the event loop run, query after query, a dense and a *)
(* lexical branch with deadlines of their own, the lexical one in a second *)
(* thread of the same executor.  The executor also runs the reranker, and  *)
(* the nodes without an asynchronous form, which pass no gate.  A thread   *)
(* cannot be stopped: one whose coroutine was cancelled, or whose branch   *)
(* ran out of time, goes on.                                               *)
(*                                                                         *)
(* A call is one retrieve_multiple_queries; a node makes one per aspect,   *)
(* one after the other.                                                    *)
(*                                                                         *)
(* What is retrieved is represented by the ingestion it comes from, every  *)
(* question has the same key, and the gate is reduced to its slots (see    *)
(* InferenceGate).  What an abandoned thread does once the process shuts   *)
(* down reaches nobody: the cache is closed and its answer is not read.    *)
(***************************************************************************)
EXTENDS Naturals, FiniteSets

CONSTANTS
  Calls,           \* coroutines of the workflow that retrieve, expand and rerank
  Slots,           \* inference_max_concurrency
  Threads,         \* worker threads of the event loop's executor, less those
                   \* of readiness probes and name lookups
  Queries,         \* queries of a call, up to max_search_queries
  Searches,        \* auxiliary searches of a query in the database: the
                   \* representations, and the preferred manuals one by one
  DenseTimeout,    \* dense_timeout
  LexicalTimeout,  \* bm25_timeout
  PoolTimeout,     \* db_pool_timeout, the adapter's deadline
  MaxGeneration,   \* bound: ingestions
  Misreading,      \* bound: the calls whose reading of the manifest may fail
  Offline,         \* ingestions run while the API is down
  Completed        \* and the API is started after completed ones only

ASSUME RetrievalAssumption ==
  /\ IsFiniteSet(Calls)
  /\ {Slots, Threads, Queries, Searches, MaxGeneration} \subseteq Nat \ {0}
  /\ {DenseTimeout, LexicalTimeout, PoolTimeout} \subseteq Nat \ {0}
  /\ Misreading \subseteq Calls /\ {Offline, Completed} \subseteq BOOLEAN

\* Settings.validate() of src/config.py: "must be below DB_POOL_TIMEOUT".
ASSUME DeadlineAssumption ==
  DenseTimeout < PoolTimeout /\ LexicalTimeout < PoolTimeout

\* The calls and rerankings the gates admit together need no more threads: one
\* for each, and one for the lexical branch of a call.
ASSUME ThreadAssumption == 3 * Slots <= Threads

VARIABLES
  up,       \* the API process is up
  disk,     \* the ingestion that wrote the records, the index, the manifest
  loaded,   \* load_resources: the ingestion in memory, 0 before the first use
  cache,    \* Redis: the result stored under each manifest, 0 for none
  call,     \* each call and its local variables
  job,      \* its lexical search in the executor
  strays    \* threads of lexical searches nobody waits for

files == <<up, disk>>
vars == <<files, loaded, cache, call, job, strays>>

Generations == 1 .. MaxGeneration

\* _index_version of a manifest that cannot be read, whatever the ingestion.
Unknown == 0
Versions == Generations \cup {Unknown}
Branch == {"none", "pending", "ok", "failed"}

\* "queued", "toRerank", "toNode": waits for a thread; "lookup", "embed",
\* "branches", "paths": its thread looks into the cache, embeds a query, waits
\* for the branches, runs the auxiliary searches.
Retrieving == {"queued", "lookup", "embed", "branches", "paths"}
Reranking == {"toRerank", "rerank"}
Ungated == {"toNode", "node"}
Waiting == {"queued", "toRerank", "toNode"}
Threaded == (Retrieving \cup Reranking \cup Ungated) \ Waiting
Resting == {"idle", "error"}

Idle == [at |-> "idle", attached |-> FALSE, key |-> Unknown, left |-> 0, age |-> 0,
         dense |-> "none", lexical |-> "none", searches |-> 0, answer |-> 0]

Call == [at : Resting \cup Retrieving \cup Reranking \cup Ungated, attached : BOOLEAN,
         key : Versions, left : 0 .. Queries, age : 0 .. PoolTimeout,
         dense : Branch, lexical : Branch, searches : 0 .. Searches,
         answer : {0} \cup Generations]

TypeOK ==
  /\ up \in BOOLEAN
  /\ disk \in [records : Generations, index : Generations, manifest : Generations]
  /\ loaded \in {0} \cup Generations
  /\ cache \in [Generations -> {0} \cup Generations]
  /\ call \in [Calls -> Call]
  /\ job \in [Calls -> {"none", "queued", "running"}]
  /\ strays \in Nat

Init ==
  /\ up = FALSE
  /\ disk = [records |-> 1, index |-> 1, manifest |-> 1]
  /\ loaded = 0
  /\ cache = [g \in Generations |-> 0]
  /\ call = [c \in Calls |-> Idle]
  /\ job = [c \in Calls |-> "none"]
  /\ strays = 0

Attached == {c \in Calls : call[c].attached}
Admitted(gate) == {c \in Attached : call[c].at \in gate}
InThread == {c \in Calls : call[c].at \in Threaded}
Running  == {c \in Calls : job[c] = "running"}
FreeThread == Cardinality(InThread) + Cardinality(Running) + strays < Threads
-----------------------------------------------------------------------------
(* The worker thread of a call *)

Becomes(c, record) == call' = [call EXCEPT ![c] = record]

Enter(c, at) ==
  /\ up /\ call[c].at \in Resting
  /\ Becomes(c, [Idle EXCEPT !.at = at, !.attached = TRUE])
  /\ UNCHANGED <<files, loaded, cache, job, strays>>

\* Mutant of Ask: the gate is not passed.
AskUngated(c) == Enter(c, "queued")

\* aretrieve_documents: a slot of the gate, then asyncio.to_thread.
Ask(c) == Cardinality(Admitted(Retrieving)) < Slots /\ Enter(c, "queued")

\* Mutant of Begin: the key does not tell one ingestion from another.
BeginUnversioned(c) ==
  /\ call[c].at = "queued" /\ FreeThread
  /\ Becomes(c, [call[c] EXCEPT !.at = "lookup", !.key = 1])
  /\ UNCHANGED <<files, loaded, cache, job, strays>>

\* A free thread; the key of the cache holds the manifest's generated_at, or
\* "unknown" when reading it raises.
Begin(c) ==
  /\ call[c].at = "queued" /\ FreeThread
  /\ \E version \in {disk.manifest, Unknown} :
       /\ version = Unknown => c \in Misreading
       /\ Becomes(c, [call[c] EXCEPT !.at = "lookup", !.key = version])
  /\ UNCHANGED <<files, loaded, cache, job, strays>>

Answered(c, g) == [Idle EXCEPT !.answer = g, !.key = call[c].key]
Failed == [Idle EXCEPT !.at = "error"]

\* What the cache may hold under a version.  Under Unknown that is whatever any
\* ingestion so far left there, which is not followed further.
Stored(version) ==
  IF version = Unknown THEN 1 .. disk.manifest ELSE {cache[version]} \ {0}

Hit(c) ==
  /\ call[c].at = "lookup"
  /\ \E g \in Stored(call[c].key) : Becomes(c, Answered(c, g))
  /\ UNCHANGED <<files, loaded, cache, job, strays>>

\* Nothing is cached, or the cache does not answer.
Miss(c) ==
  /\ call[c].at = "lookup"
  /\ \E n \in 1 .. Queries : Becomes(c, [call[c] EXCEPT !.at = "embed", !.left = n])
  /\ UNCHANGED <<files, loaded, cache, job, strays>>

\* hybrid_search: the corpus is loaded once, the query embedded, then the event
\* loop starts both branches and their deadlines.
Launch(c) ==
  /\ call[c].at = "embed"
  /\ loaded' = IF loaded = 0 THEN disk.records ELSE loaded
  /\ Becomes(c, [call[c] EXCEPT !.at = "branches", !.age = 0,
                                !.dense = "pending", !.lexical = "pending"])
  /\ job' = [job EXCEPT ![c] = "queued"]
  /\ UNCHANGED <<files, cache, strays>>

\* Either raises; a failed load is not remembered.
LaunchFails(c) ==
  /\ call[c].at = "embed"
  /\ Becomes(c, Failed)
  /\ UNCHANGED <<files, loaded, cache, job, strays>>

\* The coroutine is cancelled and gives its slot back.  A thread that has begun
\* goes on; a job that has not is taken from the queue.
Cancel(c) ==
  /\ call[c].attached
  /\ Becomes(c, IF call[c].at \in Waiting THEN Idle
                ELSE [call[c] EXCEPT !.attached = FALSE])
  /\ UNCHANGED <<files, loaded, cache, job, strays>>

\* arerank_documents; the reranker itself is the subject of Ranking.
AskRerank(c) == Cardinality(Admitted(Reranking)) < Slots /\ Enter(c, "toRerank")

BeginRerank(c) ==
  /\ call[c].at = "toRerank" /\ FreeThread
  /\ Becomes(c, [call[c] EXCEPT !.at = "rerank"])
  /\ UNCHANGED <<files, loaded, cache, job, strays>>

Reranked(c) ==
  /\ call[c].at = "rerank"
  /\ Becomes(c, Idle)
  /\ UNCHANGED <<files, loaded, cache, job, strays>>

\* expand_context, generate_fallback: the workflow has the executor run a node
\* without an asynchronous form.
AskNode(c) == Enter(c, "toNode")

\* The first needs the corpus, and after a hit in the cache may be the one to
\* load it.
BeginNode(c) ==
  /\ call[c].at = "toNode" /\ FreeThread
  /\ Becomes(c, [call[c] EXCEPT !.at = "node"])
  /\ loaded' \in {loaded, IF loaded = 0 THEN disk.records ELSE loaded}
  /\ UNCHANGED <<files, cache, job, strays>>

NodeEnds(c) ==
  /\ call[c].at = "node"
  /\ Becomes(c, Idle)
  /\ UNCHANGED <<files, loaded, cache, job, strays>>
-----------------------------------------------------------------------------
(* run_branches, in the event loop *)

Set(c, dense, lexical) ==
  Becomes(c, [call[c] EXCEPT !.dense = dense, !.lexical = lexical])

\* Nobody waits for the lexical search any longer: a queued one is removed, a
\* running one keeps its thread.
Abandon(c) ==
  /\ job' = [job EXCEPT ![c] = "none"]
  /\ strays' = IF job[c] = "running" THEN strays + 1 ELSE strays

DenseEnds(c) ==
  /\ call[c].dense = "pending"
  /\ \E r \in {"ok", "failed"} : Set(c, r, call[c].lexical)
  /\ UNCHANGED <<files, loaded, cache, job, strays>>

DenseDue(c) == call[c].dense = "pending" /\ call[c].age >= DenseTimeout

DenseTimesOut(c) ==
  /\ DenseDue(c)
  /\ Set(c, "failed", call[c].lexical)
  /\ UNCHANGED <<files, loaded, cache, job, strays>>

LexicalStarts(c) ==
  /\ job[c] = "queued" /\ FreeThread
  /\ job' = [job EXCEPT ![c] = "running"]
  /\ UNCHANGED <<files, loaded, cache, call, strays>>

LexicalEnds(c) ==
  /\ job[c] = "running"
  /\ job' = [job EXCEPT ![c] = "none"]
  /\ \E r \in {"ok", "failed"} : Set(c, call[c].dense, r)
  /\ UNCHANGED <<files, loaded, cache, strays>>

\* Mutant of LexicalDue: time counts from the start of the search.
LexicalDueLate(c) ==
  /\ call[c].lexical = "pending" /\ call[c].age >= LexicalTimeout
  /\ job[c] = "running"

\* The deadline counts from the submission, waiting for a thread included.
LexicalDue(c) == call[c].lexical = "pending" /\ call[c].age >= LexicalTimeout

LexicalTimesOut(c) ==
  /\ LexicalDue(c)
  /\ Set(c, call[c].dense, "failed")
  /\ Abandon(c)
  /\ UNCHANGED <<files, loaded, cache>>

Gathered(c) == call[c].at = "branches" /\ "pending" \notin {call[c].dense, call[c].lexical}

\* The representations and preferred manuals are searched in the database too,
\* unless the dense branch failed.
Auxiliary(c) == IF call[c].dense = "ok" THEN 1 .. Searches ELSE {0}

\* One branch is enough; RetrievalUnavailable when both failed.
Gather(c) ==
  /\ Gathered(c)
  /\ IF call[c].dense = "failed" /\ call[c].lexical = "failed"
       THEN Becomes(c, Failed)
       ELSE \E n \in Auxiliary(c) :
              Becomes(c, [call[c] EXCEPT !.at = "paths", !.age = 0, !.searches = n,
                                         !.dense = "none", !.lexical = "none"])
  /\ UNCHANGED <<files, loaded, cache, job, strays>>
-----------------------------------------------------------------------------
(* The auxiliary searches, fusion and the cache *)

UsesDatabase(c) == call[c].at = "paths" /\ call[c].searches > 0

\* Mutant of AdapterDue: auxiliary searches wait without a deadline.
AdapterDueBranches(c) == call[c].at = "branches" /\ call[c].age >= PoolTimeout

AdapterDue(c) ==
  /\ call[c].at = "branches" \/ UsesDatabase(c)
  /\ call[c].age >= PoolTimeout

\* PgVectorClient.call, once for the branches and once for each auxiliary search:
\* future.result(timeout) cancels what it waited for.
AdapterTimesOut(c) ==
  /\ AdapterDue(c)
  /\ Becomes(c, Failed)
  /\ Abandon(c)
  /\ UNCHANGED <<files, loaded, cache>>

\* The next auxiliary search has the whole timeout again.
SearchEnds(c) ==
  /\ UsesDatabase(c)
  /\ Becomes(c, [call[c] EXCEPT !.searches = @ - 1, !.age = 0])
  /\ UNCHANGED <<files, loaded, cache, job, strays>>

\* After the last query the fused result is stored, whether or not a branch was
\* missing, and whether or not Redis accepts it.
Fuse(c) ==
  /\ call[c].at = "paths" /\ ~UsesDatabase(c)
  /\ \/ /\ call[c].left > 1
        /\ Becomes(c, [call[c] EXCEPT !.at = "embed", !.left = @ - 1, !.age = 0])
        /\ UNCHANGED cache
     \/ /\ call[c].left = 1
        /\ Becomes(c, Answered(c, loaded))
        /\ \/ cache' = [g \in Generations |-> IF g = call[c].key THEN loaded ELSE cache[g]]
           \/ UNCHANGED cache
  /\ UNCHANGED <<files, loaded, job, strays>>

\* A search that raises takes the call with it, one for headings in memory, whose
\* embedding may fail, like one in the database.
PathsFail(c) ==
  /\ call[c].at = "paths"
  /\ Becomes(c, Failed)
  /\ UNCHANGED <<files, loaded, cache, job, strays>>
-----------------------------------------------------------------------------
(* Process, time, ingestions *)

\* _require_index_schema, validate_search_indexes: records and index agree.
Start ==
  /\ ~up /\ disk.records = disk.index
  /\ Completed => disk.manifest = disk.records
  /\ up' = TRUE
  /\ UNCHANGED <<disk, loaded, cache, call, job, strays>>

\* Shutdown or crash; Redis keeps what was cached.
Stop ==
  /\ up /\ up' = FALSE
  /\ loaded' = 0
  /\ call' = [c \in Calls |-> Idle]
  /\ job' = [c \in Calls |-> "none"]
  /\ strays' = 0
  /\ UNCHANGED <<disk, cache>>

\* cache_set: setex with ttl=900.
Expire(g) ==
  /\ cache[g] # 0
  /\ cache' = [cache EXCEPT ![g] = 0]
  /\ UNCHANGED <<files, loaded, call, job, strays>>

StrayEnds ==
  /\ strays > 0 /\ strays' = strays - 1
  /\ UNCHANGED <<files, loaded, cache, call, job>>

\* ingest_manuals replaces the records, then the index, and writes the manifest
\* last; it may be interrupted in between.
Ingest ==
  /\ Offline => ~up
  /\ disk' = IF disk.index # disk.records THEN [disk EXCEPT !.index = @ + 1]
             ELSE IF disk.manifest # disk.records THEN [disk EXCEPT !.manifest = @ + 1]
             ELSE [disk EXCEPT !.records = @ + 1]
  /\ disk'.records <= MaxGeneration
  /\ UNCHANGED <<up, loaded, cache, call, job, strays>>

\* The event loop, and a thread that waits for nobody, take less than a unit.
Prompt(c) ==
  \/ Gathered(c) \/ (call[c].at = "paths" /\ ~UsesDatabase(c))
  \/ DenseDue(c) \/ LexicalDue(c) \/ AdapterDue(c)

\* One unit of time; what is due comes first.
Tick ==
  /\ ~\E c \in Calls : Prompt(c)
  /\ call' = [c \in Calls |->
       IF call[c].at \in {"branches", "paths"} /\ call[c].age < PoolTimeout
         THEN [call[c] EXCEPT !.age = @ + 1] ELSE call[c]]
  /\ UNCHANGED <<files, loaded, cache, job, strays>>

\* What needs no answer of the database.
Proceed(c) ==
  \/ Hit(c) \/ Miss(c) \/ Launch(c) \/ LaunchFails(c) \/ Gather(c)
  \/ Fuse(c) \/ Reranked(c) \/ NodeEnds(c)
  \/ DenseTimesOut(c) \/ LexicalTimesOut(c) \/ AdapterTimesOut(c)

Next ==
  \/ \E c \in Calls :
       \/ Ask(c) \/ AskRerank(c) \/ AskNode(c)
       \/ Begin(c) \/ BeginRerank(c) \/ BeginNode(c) \/ Proceed(c)
       \/ Cancel(c) \/ DenseEnds(c)
       \/ LexicalStarts(c) \/ LexicalEnds(c) \/ SearchEnds(c) \/ PathsFail(c)
  \/ Start \/ Stop \/ StrayEnds \/ Ingest \/ Tick
  \/ \E g \in Generations : Expire(g)

Spec == Init /\ [][Next]_vars

\* Deadlines fire, searches in memory end, and the executor's queue is first
\* come first served.  The database need not answer.
FairSpec ==
  /\ Spec /\ WF_vars(Tick) /\ WF_vars(StrayEnds)
  /\ \A c \in Calls : /\ WF_vars(Proceed(c)) /\ WF_vars(LexicalEnds(c))
                        /\ SF_vars(Begin(c) \/ BeginRerank(c) \/ BeginNode(c))
-----------------------------------------------------------------------------
(* Properties *)

\* Whatever the caches kept, an answer looked up under a manifest is of the
\* ingestion whose records this process searches, also the first one after an
\* ingestion and a restart.  Of one looked up while the manifest could not be read
\* nothing is said: its key is the same for every ingestion.
AnswersFromServedCorpus ==
  \A c \in Calls : call[c].key # Unknown => call[c].answer \in {0, disk.records}

\* While its branches run a call fails only when both have failed: neither the
\* failure or the deadline of one, nor the deadline of the adapter around them,
\* takes what the other found or may still find.  What raises later takes the
\* call and all it has found, for earlier queries as well.
LosesNoBranch ==
  [][\A c \in Calls : call[c].at = "branches" /\ call'[c].at = "error" =>
       call[c].dense = "failed" /\ call[c].lexical = "failed"]_vars

\* The calls and rerankings that the gates admitted do not take each other's
\* threads: one of them waits for a thread only because of threads the gates do
\* not count, those of a cancelled call, of a branch that was given up, or of a
\* node without a gate.
StarvedByUngated ==
  \A c \in Attached :
    (call[c].at \in Waiting \ Ungated \/ job[c] = "queued") /\ ~FreeThread =>
      strays > 0 \/ \E d \in InThread : d \notin Attached \/ call[d].at = "node"

\* Every call that is admitted ends, even if the database never answers and
\* abandoned threads hold the whole executor for a while.
RetrievalEnds == \A c \in Calls : c \in Attached ~> c \notin Attached
=============================================================================
