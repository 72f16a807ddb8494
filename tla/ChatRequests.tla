---------------------------- MODULE ChatRequests ----------------------------
(***************************************************************************)
(* The two-step chat protocol of backend/routes/chat.py over the Redis     *)
(* request store: POST /v1/chat claims the thread and stores a pending     *)
(* request, GET /v1/chat/{id}/stream takes it and runs the graph on the    *)
(* checkpoint of its conversation and thread.                              *)
(*                                                                         *)
(* Any session posts on any thread it knows, streams may be opened twice,  *)
(* clients disconnect, Redis calls fail, replicas crash, keys expire.  A   *)
(* graph run is seen through its checkpoint only: it loads the thread's    *)
(* turns when it starts, writes its own copy back and sets the answer when *)
(* it ends.  On SequentialKeys the clients do what app.py does: one stream  *)
(* at a time on a conversation.  Nothing in the API makes them.            *)
(***************************************************************************)
EXTENDS Integers

CONSTANTS
  Sessions, Threads, Requests,
  Keys,          \* checkpoint keys, conversation_id:thread_id
  ThreadOf,      \* the thread of a key
  Handlers,      \* GET handlers, of any replica
  NoOne,         \* no session, no request
  RequestTtl,    \* chat_request_ttl_seconds
  OwnershipTtl,  \* thread_ownership_ttl_seconds
  RunTime,       \* longest time from taking a request to its last event
  SequentialKeys \* keys whose clients wait for a stream before the next one

ASSUME ChatAssumption ==
  /\ NoOne \notin Sessions \cup Requests
  /\ ThreadOf \in [Keys -> Threads]
  /\ {RequestTtl, OwnershipTtl, RunTime} \subseteq Nat \ {0}
  /\ SequentialKeys \subseteq Keys

\* A thread stays owned longer than a request can wait and run: in config.py
\* 30 days against 300 seconds.
ASSUME OwnershipAssumption == RequestTtl + RunTime <= OwnershipTtl

VARIABLES
  owner, ownerTtl,  \* opcenter:chat:thread-owner:<thread>
  post,             \* where POST of each request is
  session, key,     \* the accepted payload of each request
  pending,          \* opcenter:chat:request:<id>, its time to live or 0
  handler,          \* GET handlers
  memory,           \* checkpoint: the turns a key's messages contain
  answer,           \* checkpoint: the request whose answer it holds
  runs,             \* history: graph runs started for a request
  delivered,        \* history: whose answer the complete event carried
  status            \* opcenter:groq:request:<id>, best effort

storeVars == <<owner, ownerTtl, pending>>
postVars == <<post, session, key>>
graphVars == <<memory, answer, runs, delivered>>
vars == <<storeVars, postVars, handler, graphVars, status>>

Phases == {"idle", "opening", "taken", "running", "reading"}
Idle == [phase |-> "idle", request |-> NoOne, loaded |-> {}, timer |-> 0]

TypeOK ==
  /\ owner \in [Threads -> Sessions \cup {NoOne}]
  /\ ownerTtl \in [Threads -> 0 .. OwnershipTtl]
  /\ post \in [Requests -> {"unused", "claimed", "saved", "accepted", "failed"}]
  /\ session \in [Requests -> Sessions \cup {NoOne}]
  /\ key \in [Requests -> Keys \cup {NoOne}]
  /\ pending \in [Requests -> 0 .. RequestTtl]
  /\ handler \in [Handlers -> [phase : Phases, request : Requests \cup {NoOne},
                               loaded : SUBSET Requests, timer : 0 .. RunTime]]
  /\ memory \in [Keys -> SUBSET Requests]
  /\ answer \in [Keys -> Requests \cup {NoOne}]
  /\ runs \in [Requests -> Nat]
  /\ delivered \in [Requests -> SUBSET (Requests \cup {NoOne})]
  /\ status \in [Requests -> {"none", "accepted", "busy", "complete", "failed"}]

Init ==
  /\ owner = [t \in Threads |-> NoOne] /\ ownerTtl = [t \in Threads |-> 0]
  /\ post = [r \in Requests |-> "unused"]
  /\ session = [r \in Requests |-> NoOne] /\ key = [r \in Requests |-> NoOne]
  /\ pending = [r \in Requests |-> 0]
  /\ handler = [h \in Handlers |-> Idle]
  /\ memory = [k \in Keys |-> {}] /\ answer = [k \in Keys |-> NoOne]
  /\ runs = [r \in Requests |-> 0] /\ delivered = [r \in Requests |-> {}]
  /\ status = [r \in Requests |-> "none"]

\* set_status: written, or dropped when the lock is taken or Redis fails.
SetStatus(r, value) == status' \in {status, [status EXCEPT ![r] = value]}
-----------------------------------------------------------------------------
(* POST /v1/chat *)

\* Mutant of Claim: the owner's next request does not refresh the key.
ClaimUnrefreshed(r, s, k) ==
  LET t == ThreadOf[k] IN
  /\ post[r] = "unused"
  /\ owner[t] \in {NoOne, s}
  /\ owner' = [owner EXCEPT ![t] = s]
  /\ ownerTtl' = [ownerTtl EXCEPT ![t] = IF owner[t] = s THEN @ ELSE OwnershipTtl]
  /\ session' = [session EXCEPT ![r] = s]
  /\ key' = [key EXCEPT ![r] = k]
  /\ post' = [post EXCEPT ![r] = "claimed"]
  /\ UNCHANGED <<pending, handler, graphVars, status>>

\* The claim script: a thread without owner is bound, its owner refreshes it.
Claim(r, s, k) ==
  LET t == ThreadOf[k] IN
  /\ post[r] = "unused"
  /\ owner[t] \in {NoOne, s}
  /\ owner' = [owner EXCEPT ![t] = s]
  /\ ownerTtl' = [ownerTtl EXCEPT ![t] = OwnershipTtl]
  /\ session' = [session EXCEPT ![r] = s]
  /\ key' = [key EXCEPT ![r] = k]
  /\ post' = [post EXCEPT ![r] = "claimed"]
  /\ UNCHANGED <<pending, handler, graphVars, status>>

\* SET request EX ttl.
Save(r) ==
  /\ post[r] = "claimed"
  /\ pending' = [pending EXCEPT ![r] = RequestTtl]
  /\ post' = [post EXCEPT ![r] = "saved"]
  /\ UNCHANGED <<owner, ownerTtl, session, key, handler, graphVars, status>>

\* 202: the client learns the request id.
Accept(r) ==
  /\ post[r] = "saved"
  /\ SetStatus(r, "accepted")
  /\ post' = [post EXCEPT ![r] = "accepted"]
  /\ UNCHANGED <<storeVars, session, key, handler, graphVars>>

\* A Redis error, a crash or a lost response: the client never learns the id.
PostFails(r) ==
  /\ post[r] \in {"claimed", "saved"}
  /\ post' = [post EXCEPT ![r] = "failed"]
  /\ UNCHANGED <<storeVars, session, key, handler, graphVars, status>>
-----------------------------------------------------------------------------
(* GET /v1/chat/{request_id}/stream *)

Live(h) == handler[h].phase \in {"taken", "running", "reading"}
KeyOf(h) == key[handler[h].request]

\* Mutant of Busy: the client asks on when the last node has reported.
BusyUntilLastNode(k) ==
  \E h \in Handlers : handler[h].phase \notin {"idle", "reading"} /\ KeyOf(h) = k

\* Some other handler runs, or may soon run, the graph on the key.
Busy(k) == \E h \in Handlers : handler[h].phase # "idle" /\ KeyOf(h) = k

\* get_request and the session comparison.
Open(h, r) ==
  /\ handler[h] = Idle
  /\ post[r] = "accepted" /\ pending[r] > 0
  /\ key[r] \in SequentialKeys => ~Busy(key[r])
  /\ handler' = [handler EXCEPT ![h] = [Idle EXCEPT !.phase = "opening",
                                                    !.request = r]]
  /\ UNCHANGED <<storeVars, postVars, graphVars, status>>

\* Mutant of Take: GET instead of GETDEL.
TakeKept(h) ==
  LET r == handler[h].request IN
  /\ handler[h].phase = "opening"
  /\ handler' = IF pending[r] > 0
                   THEN [handler EXCEPT ![h].phase = "taken", ![h].timer = RunTime]
                   ELSE [handler EXCEPT ![h] = Idle]
  /\ UNCHANGED <<storeVars, postVars, graphVars, status>>

\* Mutant of Take: the loser of the race waits for the request to come back.
TakeOrWait(h) ==
  LET r == handler[h].request IN
  /\ handler[h].phase = "opening" /\ pending[r] > 0
  /\ handler' = [handler EXCEPT ![h].phase = "taken", ![h].timer = RunTime]
  /\ pending' = [pending EXCEPT ![r] = 0]
  /\ UNCHANGED <<owner, ownerTtl, postVars, graphVars, status>>

\* GETDEL: whoever finds the request runs it, the others answer 404.
Take(h) ==
  LET r == handler[h].request IN
  /\ handler[h].phase = "opening"
  /\ \/ /\ pending[r] > 0
        /\ handler' = [handler EXCEPT ![h].phase = "taken", ![h].timer = RunTime]
     \/ /\ pending[r] = 0
        /\ handler' = [handler EXCEPT ![h] = Idle]
  /\ pending' = [pending EXCEPT ![r] = 0]
  /\ UNCHANGED <<owner, ownerTtl, postVars, graphVars, status>>

\* astream starts: the checkpoint is loaded, the question appended.  The first
\* node clears the previous turn's answer.
Start(h) ==
  LET r == handler[h].request
      turns == memory[KeyOf(h)] \cup {r} IN
  /\ handler[h].phase = "taken"
  /\ handler' = [handler EXCEPT ![h].phase = "running", ![h].loaded = turns]
  /\ memory' = [memory EXCEPT ![KeyOf(h)] = turns]
  /\ answer' = [answer EXCEPT ![KeyOf(h)] = NoOne]
  /\ runs' = [runs EXCEPT ![r] = @ + 1]
  /\ SetStatus(r, "busy")
  /\ UNCHANGED <<storeVars, postVars, delivered>>

\* The limiter reports queued, running, retrying or rejected meanwhile.
Report(h) ==
  /\ handler[h].phase = "running"
  /\ SetStatus(handler[h].request, "busy")
  /\ UNCHANGED <<storeVars, postVars, handler, graphVars>>

\* Mutant of Finish: the run's messages replace the thread's.
FinishForgetful(h) ==
  /\ handler[h].phase = "running"
  /\ handler' = [handler EXCEPT ![h].phase = "reading"]
  /\ memory' = [memory EXCEPT ![KeyOf(h)] = {handler[h].request}]
  /\ answer' = [answer EXCEPT ![KeyOf(h)] = handler[h].request]
  /\ UNCHANGED <<storeVars, postVars, runs, delivered, status>>

\* The last node's checkpoint: the run's own copy of the turns, its answer.
Finish(h) ==
  /\ handler[h].phase = "running"
  /\ handler' = [handler EXCEPT ![h].phase = "reading"]
  /\ memory' = [memory EXCEPT ![KeyOf(h)] = handler[h].loaded]
  /\ answer' = [answer EXCEPT ![KeyOf(h)] = handler[h].request]
  /\ UNCHANGED <<storeVars, postVars, runs, delivered, status>>

\* aget_state reads the latest checkpoint of the key; its answer is streamed.
Deliver(h) ==
  LET r == handler[h].request IN
  /\ handler[h].phase = "reading"
  /\ delivered' = [delivered EXCEPT ![r] = @ \cup {answer[KeyOf(h)]}]
  /\ SetStatus(r, "complete")
  /\ handler' = [handler EXCEPT ![h] = Idle]
  /\ UNCHANGED <<storeVars, postVars, memory, answer, runs>>

\* An exception in the run: an error event, status failed or rejected.
Fail(h) ==
  /\ Live(h)
  /\ SetStatus(handler[h].request, "failed")
  /\ handler' = [handler EXCEPT ![h] = Idle]
  /\ UNCHANGED <<storeVars, postVars, graphVars>>

\* The client disconnects or the replica dies: nothing is undone.
Disconnect(h) ==
  /\ handler[h].phase # "idle"
  /\ handler' = [handler EXCEPT ![h] = Idle]
  /\ UNCHANGED <<storeVars, postVars, graphVars, status>>
-----------------------------------------------------------------------------
Down(n) == IF n > 0 THEN n - 1 ELSE 0

\* Keys expire.  A POST takes less than a time unit, a run at most RunTime.
Tick ==
  /\ \A r \in Requests : post[r] # "claimed"
  /\ \A h \in Handlers : Live(h) => handler[h].timer > 0
  /\ pending' = [r \in Requests |-> Down(pending[r])]
  /\ ownerTtl' = [t \in Threads |-> Down(ownerTtl[t])]
  /\ owner' = [t \in Threads |-> IF ownerTtl[t] > 1 THEN owner[t] ELSE NoOne]
  /\ handler' = [h \in Handlers |-> [handler[h] EXCEPT !.timer = Down(@)]]
  /\ UNCHANGED <<postVars, graphVars, status>>

Posting ==
  \E r \in Requests :
    Save(r) \/ Accept(r) \/ PostFails(r)
      \/ \E s \in Sessions, k \in Keys : Claim(r, s, k)

Streaming(h) ==
  \/ Take(h) \/ Start(h) \/ Report(h) \/ Finish(h) \/ Deliver(h) \/ Fail(h)
  \/ Disconnect(h) \/ \E r \in Requests : Open(h, r)

Next == Posting \/ (\E h \in Handlers : Streaming(h)) \/ Tick

Spec == Init /\ [][Next]_vars

\* Redis and the graph answer or fail, and time passes.
FairSpec ==
  /\ Spec /\ WF_vars(Tick)
  /\ \A r \in Requests : WF_vars(Save(r))
  /\ \A h \in Handlers : WF_vars(Take(h) \/ Start(h) \/ Finish(h) \/ Deliver(h))
-----------------------------------------------------------------------------
(* Properties *)

\* A request is in use: being posted, waiting, or in a stream.
InUse(r) ==
  \/ post[r] = "claimed" \/ pending[r] > 0
  \/ \E h \in Handlers : Live(h) /\ handler[h].request = r

\* While a request is in use its thread belongs to the session that posted it,
\* so two sessions never have work on one thread at a time.
OwnedWhileInUse ==
  \A r \in Requests : InUse(r) => owner[ThreadOf[key[r]]] = session[r]

\* A stored request runs at most once, however many streams are opened for it
\* and wherever the stream that took it ends.
SingleRun == \A r \in Requests : runs[r] <= 1

\* Where clients take turns, a complete event carries the answer to the request
\* it belongs to, although the state is read back from the conversation's
\* checkpoint after the run and a stream may have died before its end.
AnswersOwnQuestion ==
  \A r \in Requests : key[r] \in SequentialKeys => delivered[r] \subseteq {r}

\* Where clients take turns, a turn whose answer the user received stays in the
\* conversation's memory.
TurnsDurable ==
  \A r \in Requests :
    key[r] \in SequentialKeys /\ delivered[r] # {} => r \in memory[key[r]]

\* A finished request's status is final: no late report reopens it.
FinalStatusSticks ==
  [][\A r \in Requests :
       status[r] \in {"complete", "failed"} => status'[r] = status[r]]_vars

\* Every opened stream ends.
StreamsEnd ==
  \A h \in Handlers : handler[h].phase # "idle" ~> handler[h].phase = "idle"

\* The request a conversation's run is at, from its start to its last event.
Working(k) ==
  {handler[h].request : h \in {g \in Handlers :
     handler[g].phase \in {"running", "reading"} /\ KeyOf(g) = k}}

\* The replies a conversation's streams delivered.
Replies(k) == UNION {{r} \X delivered[r] : r \in {q \in Requests : key[q] = k}}

\* Where clients take turns, POST and stream over any number of replicas are a
\* conversation: no stream that was opened twice, came late, broke off or wrote its
\* own copy of the turns back can be told from a question that broke off.
Talk == INSTANCE Conversation WITH
  Conversations <- SequentialKeys, Questions <- Requests,
  open <- [k \in SequentialKeys |-> Working(k)],
  turns <- [k \in SequentialKeys |-> memory[k]],
  replies <- [k \in SequentialKeys |-> Replies(k)]
ConversationSpec == Talk!ConvSpec
=============================================================================
