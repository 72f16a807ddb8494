------------------------- MODULE ChatRequestsProofs -------------------------
(***************************************************************************)
(* Proofs about ChatRequests, for every number of sessions, threads,       *)
(* requests and handlers and every time to live OwnershipAssumption allows.*)
(*                                                                         *)
(* OwnedWhileInUse is not inductive: that the owner is right now does not  *)
(* keep the key from expiring at the next tick.  Waiting and Streaming     *)
(* add what is left of its time to live: it covers the rest of the wait    *)
(* and a whole run, and then the rest of the run.  SingleRun and           *)
(* FinalStatusSticks need that a stored request has no stream running it   *)
(* and that a taken one has exactly one.                                   *)
(*                                                                         *)
(* What a sequential conversation's user sees rests on TurnInv: one stream *)
(* at a time touches its key, so a run writes back every turn it found,    *)
(* and reads back its own answer.  What it wrote has run, so no question   *)
(* is taken up twice (Ran): with these, a conversation implements the      *)
(* abstract Conversation.                                                  *)
(***************************************************************************)
EXTENDS ChatRequests, TLAPS

Thread(r) == ThreadOf[key[r]]
Final(r) == status[r] \in {"complete", "failed"}

\* A request the store knows has a session and a conversation.
Known(r) == post[r] # "unused" => session[r] \in Sessions /\ key[r] \in Keys

Claimed(r) ==
  post[r] = "claimed" =>
    /\ owner[Thread(r)] = session[r]
    /\ ownerTtl[Thread(r)] = OwnershipTtl

\* Before SET there is nothing to stream and nothing has run.
Fresh(r) == post[r] \in {"unused", "claimed"} => pending[r] = 0 /\ runs[r] = 0

Waiting(r) ==
  pending[r] > 0 =>
    /\ owner[Thread(r)] = session[r]
    /\ ownerTtl[Thread(r)] >= pending[r] + RunTime
    /\ runs[r] = 0 /\ ~Final(r)
    /\ \A h \in Handlers : Live(h) => handler[h].request # r

Opened(h) ==
  handler[h].phase # "idle" =>
    /\ handler[h].request \in Requests
    /\ post[handler[h].request] = "accepted"

Served(h) ==
  Live(h) =>
    LET r == handler[h].request IN
    /\ owner[Thread(r)] = session[r]
    /\ ownerTtl[Thread(r)] >= handler[h].timer + 1
    /\ handler[h].phase = "taken" => runs[r] = 0
    /\ ~Final(r)

\* GETDEL has one winner.
Exclusive ==
  \A g, h \in Handlers :
    Live(g) /\ Live(h) /\ handler[g].request = handler[h].request => g = h

RequestInv(r) ==
  /\ Known(r) /\ Claimed(r) /\ Fresh(r) /\ Waiting(r)
  /\ Final(r) => post[r] = "accepted"

IInv ==
  /\ TypeOK /\ SingleRun /\ Exclusive
  /\ \A r \in Requests : RequestInv(r)
  /\ \A h \in Handlers : Opened(h) /\ Served(h)
-----------------------------------------------------------------------------
\* The constants, in a form the provers use directly.
LEMMA Constants ==
  /\ RequestTtl \in Nat \ {0} /\ OwnershipTtl \in Nat \ {0}
  /\ RunTime \in Nat \ {0} /\ RequestTtl + RunTime <= OwnershipTtl
  /\ \A k \in Keys : ThreadOf[k] \in Threads
  /\ NoOne \notin Sessions /\ NoOne \notin Requests
BY ChatAssumption, OwnershipAssumption DEF ChatAssumption, OwnershipAssumption

\* At the start nothing is stored, owned or streamed.
LEMMA InitInv == Init => IInv
<1> SUFFICES ASSUME Init PROVE IInv
  OBVIOUS
<1> USE Constants DEF Init
<1>1. TypeOK
  BY DEF TypeOK, Idle, Phases
<1>2. \A h \in Handlers : handler[h].phase = "idle"
  BY DEF Idle
<1>3. SingleRun /\ Exclusive
  BY <1>2 DEF SingleRun, Exclusive, Live
<1>4. \A r \in Requests : RequestInv(r)
  BY DEF RequestInv, Known, Claimed, Fresh, Waiting, Final
<1>5. \A h \in Handlers : Opened(h) /\ Served(h)
  BY <1>2 DEF Opened, Served, Live
<1> QED
  BY <1>1, <1>3, <1>4, <1>5 DEF IInv

\* A stream that goes on with its request or ends, reports a status and starts
\* a run only as the one that took it, keeps the invariant.
LEMMA StreamStep ==
  ASSUME IInv, TypeOK', NEW h \in Handlers, handler[h].phase # "idle",
         UNCHANGED <<storeVars, postVars>>,
         \A g \in Handlers \ {h} : handler'[g] = handler[g],
         \/ handler'[h].phase = "idle"
         \/ /\ Live(h) /\ handler'[h].phase \in {"running", "reading"}
            /\ handler'[h].request = handler[h].request
            /\ handler'[h].timer = handler[h].timer,
         \A q \in Requests :
           \/ status'[q] = status[q]
           \/ /\ Live(h) /\ q = handler[h].request
              /\ \/ handler'[h].phase = "idle"
                 \/ status'[q] \notin {"complete", "failed"},
         \A q \in Requests :
           \/ runs'[q] = runs[q]
           \/ /\ handler[h].phase = "taken" /\ handler'[h].phase = "running"
              /\ q = handler[h].request /\ runs'[q] = runs[q] + 1
  PROVE  IInv'
<1> USE DEF IInv, storeVars, postVars
<1>1. /\ \A g \in Handlers : Live(g)' => Live(g) /\ handler'[g].request = handler[g].request
                                              /\ handler'[g].timer = handler[g].timer
      /\ \A g \in Handlers : handler'[g].phase # "idle" =>
           handler[g].phase # "idle" /\ handler'[g].request = handler[g].request
      /\ \A g \in Handlers : handler'[g].phase = "taken" => g # h /\ handler[g].phase = "taken"
  BY DEF Live
<1>2. Exclusive'
  BY <1>1 DEF Exclusive
<1>3. \A g \in Handlers : Live(g) /\ g # h /\ Live(h) => handler[g].request # handler[h].request
  BY DEF Exclusive
<1>4. Live(h) => pending[handler[h].request] = 0 /\ handler[h].request \in Requests
  BY DEF RequestInv, Waiting, Opened, Live, TypeOK
<1>5. SingleRun'
  BY <1>4 DEF SingleRun, Served, Live, TypeOK
<1>6. ASSUME NEW q \in Requests PROVE RequestInv(q)'
  <2>1. RequestInv(q) /\ pending'[q] = pending[q] /\ pending[q] \in Nat
    BY DEF TypeOK
  <2>2. Known(q)' /\ Claimed(q)'
    BY <2>1 DEF RequestInv, Known, Claimed, Thread
  <2>3. Fresh(q)' /\ (Final(q)' => post'[q] = "accepted")
    BY <2>1, <1>4 DEF RequestInv, Fresh, Final, Opened, Live
  <2>4. Waiting(q)'
    BY <2>1, <1>1, <1>4 DEF RequestInv, Waiting, Final, Thread, Live
  <2> QED
    BY <2>2, <2>3, <2>4 DEF RequestInv
<1>7. ASSUME NEW g \in Handlers PROVE Opened(g)'
  BY <1>1 DEF Opened
<1>8. ASSUME NEW g \in Handlers PROVE Served(g)'
  <2>1. Served(g)
    OBVIOUS
  <2> QED
    BY <2>1, <1>1, <1>3, <1>4 DEF Served, Thread, Final, Opened, Live
<1> QED
  BY <1>2, <1>5, <1>6, <1>7, <1>8

\* A status is written or dropped, for one request.
LEMMA SetStatusEffect ==
  ASSUME TypeOK, NEW r \in Requests, NEW value \in {"accepted", "busy", "complete", "failed"},
         SetStatus(r, value)
  PROVE  /\ status' \in [Requests -> {"none", "accepted", "busy", "complete", "failed"}]
         /\ \A q \in Requests : status'[q] = status[q] \/ (q = r /\ status'[q] = value)
<1>1. CASE status' = status
  BY <1>1 DEF TypeOK
<1>2. CASE status' = [status EXCEPT ![r] = value]
  BY <1>2 DEF TypeOK
<1> QED
  BY <1>1, <1>2 DEF SetStatus

\* The handlers' records.
LEMMA HandlerType ==
  ASSUME TypeOK, NEW h \in Handlers
  PROVE  /\ handler[h].phase \in Phases /\ handler[h].request \in Requests \cup {NoOne}
         /\ handler[h].loaded \in SUBSET Requests /\ handler[h].timer \in 0 .. RunTime
         /\ handler[h] = [phase |-> handler[h].phase, request |-> handler[h].request,
                          loaded |-> handler[h].loaded, timer |-> handler[h].timer]
BY DEF TypeOK

LEMMA TimerType ==
  ASSUME TypeOK, NEW h \in Handlers
  PROVE  handler[h].timer \in Nat
<1>1. handler[h].timer \in 0 .. RunTime
  BY HandlerType
<1> QED
  BY <1>1, Constants

\* A stream that enters a phase with the turns it loaded.
LEMMA PhaseType ==
  ASSUME TypeOK, NEW h \in Handlers, NEW p \in Phases, NEW turns \in SUBSET Requests,
         handler' = [handler EXCEPT ![h].phase = p, ![h].loaded = turns]
  PROVE  /\ handler' \in [Handlers -> [phase : Phases, request : Requests \cup {NoOne},
                                      loaded : SUBSET Requests, timer : 0 .. RunTime]]
         /\ handler'[h].phase = p /\ handler'[h].request = handler[h].request
         /\ handler'[h].timer = handler[h].timer
         /\ \A g \in Handlers \ {h} : handler'[g] = handler[g]
<1>1. /\ handler'[h].phase = p /\ handler'[h].request = handler[h].request
      /\ handler'[h].timer = handler[h].timer
      /\ \A g \in Handlers \ {h} : handler'[g] = handler[g]
  BY DEF TypeOK
<1>2. handler'[h] = [handler[h] EXCEPT !.phase = p, !.loaded = turns]
  BY DEF TypeOK
<1>3. handler[h] \in [phase : Phases, request : Requests \cup {NoOne},
                    loaded : SUBSET Requests, timer : 0 .. RunTime]
  BY DEF TypeOK
<1>4. handler'[h] \in [phase : Phases, request : Requests \cup {NoOne},
                     loaded : SUBSET Requests, timer : 0 .. RunTime]
  BY <1>2, <1>3
<1> QED
  BY <1>1, <1>4 DEF TypeOK

LEMMA IdleType ==
  Idle \in [phase : Phases, request : Requests \cup {NoOne},
            loaded : SUBSET Requests, timer : 0 .. RunTime]
BY Constants DEF Idle, Phases

\* A stream works on a known request and conversation.
LEMMA StreamType ==
  ASSUME IInv, NEW h \in Handlers, handler[h].phase # "idle"
  PROVE  /\ handler[h].request \in Requests /\ KeyOf(h) \in Keys
         /\ post[handler[h].request] = "accepted"
BY DEF IInv, Opened, RequestInv, Known, KeyOf

\* The one stream that took the request starts its only run.
LEMMA StartStep ==
  ASSUME IInv, NEW h \in Handlers, Start(h)
  PROVE  IInv'
<1> DEFINE r == handler[h].request
           turns == memory[KeyOf(h)] \cup {r}
<1>1. TypeOK /\ handler[h].phase = "taken"
  BY DEF IInv, Start
<1>2. r \in Requests /\ KeyOf(h) \in Keys /\ turns \in SUBSET Requests
  BY <1>1, StreamType DEF TypeOK
<1>3. /\ handler' = [handler EXCEPT ![h].phase = "running", ![h].loaded = turns]
      /\ memory' = [memory EXCEPT ![KeyOf(h)] = turns]
      /\ answer' = [answer EXCEPT ![KeyOf(h)] = NoOne]
      /\ runs' = [runs EXCEPT ![r] = runs[r] + 1]
      /\ SetStatus(r, "busy") /\ UNCHANGED <<storeVars, postVars, delivered>>
  BY DEF Start
<1> HIDE DEF r, turns
<1>5. /\ handler' \in [Handlers -> [phase : Phases, request : Requests \cup {NoOne},
                                   loaded : SUBSET Requests, timer : 0 .. RunTime]]
      /\ handler'[h].phase = "running" /\ handler'[h].request = handler[h].request
      /\ handler'[h].timer = handler[h].timer
      /\ \A g \in Handlers \ {h} : handler'[g] = handler[g]
  BY <1>1, <1>2, <1>3, PhaseType DEF Phases
<1>6. memory' \in [Keys -> SUBSET Requests] /\ answer' \in [Keys -> Requests \cup {NoOne}]
  BY <1>1, <1>2, <1>3 DEF TypeOK
<1>7. /\ runs' \in [Requests -> Nat]
      /\ \A q \in Requests : runs'[q] = runs[q] \/ (q = r /\ runs'[q] = runs[q] + 1)
  BY <1>1, <1>2, <1>3 DEF TypeOK
<1>8. /\ status' \in [Requests -> {"none", "accepted", "busy", "complete", "failed"}]
      /\ \A q \in Requests : status'[q] = status[q] \/ (q = r /\ status'[q] = "busy")
  BY <1>1, <1>2, <1>3, SetStatusEffect
<1>9. TypeOK'
  BY <1>1, <1>3, <1>5, <1>6, <1>7, <1>8 DEF TypeOK, storeVars, postVars
<1> QED
  BY <1>1, <1>3, <1>5, <1>7, <1>8, <1>9, StreamStep DEF Live, r

\* A report of the limiter belongs to a run that has not ended.
LEMMA ReportStep ==
  ASSUME IInv, NEW h \in Handlers, Report(h)
  PROVE  IInv'
<1> USE DEF Report
<1>1. TypeOK /\ handler[h].phase # "idle"
  BY DEF IInv, Live
<1>2. TypeOK'
  BY <1>1, StreamType, SetStatusEffect DEF TypeOK, storeVars, postVars, graphVars
<1> QED
  BY <1>1, <1>2, StreamStep, StreamType, SetStatusEffect DEF Live, graphVars

\* The run writes its checkpoint.
LEMMA FinishStep ==
  ASSUME IInv, NEW h \in Handlers, Finish(h)
  PROVE  IInv'
<1> USE DEF Finish
<1>1. TypeOK /\ handler[h].phase # "idle"
  BY DEF IInv
<1>2. TypeOK'
  BY <1>1, HandlerType, StreamType DEF TypeOK, storeVars, postVars, Phases
<1>3. /\ handler'[h].phase = "reading" /\ handler'[h].request = handler[h].request
      /\ handler'[h].timer = handler[h].timer
      /\ \A g \in Handlers \ {h} : handler'[g] = handler[g]
  BY <1>1 DEF TypeOK
<1>4. UNCHANGED <<storeVars, postVars, runs, status>> /\ handler[h].phase = "running"
  OBVIOUS
<1> HIDE DEF Finish
<1> QED
  BY <1>1, <1>2, <1>3, <1>4, StreamStep DEF Live

\* The answer is streamed and the request is final.
LEMMA DeliverStep ==
  ASSUME IInv, NEW h \in Handlers, Deliver(h)
  PROVE  IInv'
<1> USE HandlerType DEF Deliver
<1>1. TypeOK /\ handler[h].phase # "idle"
  BY DEF IInv, Live
<1>2. TypeOK'
  BY <1>1, StreamType, IdleType DEF TypeOK, storeVars, postVars, graphVars, Deliver, SetStatus
<1> QED
  BY <1>1, <1>2, StreamStep, StreamType, IdleType DEF Live, Idle, TypeOK, graphVars, Deliver, SetStatus

\* A failed run is final as well.
LEMMA FailStep ==
  ASSUME IInv, NEW h \in Handlers, Fail(h)
  PROVE  IInv'
<1> USE HandlerType DEF Fail
<1>1. TypeOK /\ handler[h].phase # "idle"
  BY DEF IInv, Live
<1>2. TypeOK'
  BY <1>1, StreamType, IdleType DEF TypeOK, storeVars, postVars, graphVars, Fail, SetStatus
<1> QED
  BY <1>1, <1>2, StreamStep, StreamType, IdleType DEF Live, Idle, TypeOK, graphVars, Fail, SetStatus

\* A stream that is gone leaves its request taken.
LEMMA DisconnectStep ==
  ASSUME IInv, NEW h \in Handlers, Disconnect(h)
  PROVE  IInv'
<1> USE HandlerType DEF Disconnect
<1>1. TypeOK /\ handler[h].phase # "idle"
  BY DEF IInv, Live
<1>2. TypeOK'
  BY <1>1, StreamType, IdleType DEF TypeOK, storeVars, postVars, graphVars, Disconnect
<1> QED
  BY <1>1, <1>2, StreamStep, StreamType, IdleType DEF Live, Idle, TypeOK, graphVars, Disconnect

-----------------------------------------------------------------------------
\* A status is reported for a request that has been accepted and not finished,
\* so only an unfinished one changes.
LEMMA AcceptStep ==
  ASSUME IInv, NEW r \in Requests, Accept(r)
  PROVE  IInv'
<1> USE DEF IInv, Accept
<1>1. TypeOK'
  BY SetStatusEffect DEF TypeOK, storeVars, graphVars
<1>2. /\ UNCHANGED <<owner, ownerTtl, pending, session, key, handler, runs>>
      /\ post[r] = "saved" /\ post'[r] = "accepted"
      /\ \A q \in Requests \ {r} : post'[q] = post[q]
      /\ \A q \in Requests : Final(q)' => Final(q)
  BY SetStatusEffect DEF TypeOK, storeVars, graphVars, Final
<1>3. SingleRun' /\ Exclusive'
  BY <1>2 DEF SingleRun, Exclusive, Live
<1>4. ASSUME NEW q \in Requests PROVE RequestInv(q)'
  BY <1>2 DEF RequestInv, Known, Claimed, Fresh, Waiting, Thread, Live
<1>5. ASSUME NEW h \in Handlers PROVE Opened(h)' /\ Served(h)'
  BY <1>2 DEF Opened, Served, Thread, Live
<1> QED
  BY <1>1, <1>3, <1>4, <1>5

\* A POST that fails leaves the store as it is.
LEMMA PostFailsStep ==
  ASSUME IInv, NEW r \in Requests, PostFails(r)
  PROVE  IInv'
<1> USE DEF IInv, PostFails
<1>1. TypeOK'
  BY DEF TypeOK, storeVars, graphVars
<1>2. /\ UNCHANGED <<owner, ownerTtl, pending, session, key, handler, runs, status>>
      /\ post[r] \in {"claimed", "saved"} /\ post'[r] = "failed"
      /\ \A q \in Requests \ {r} : post'[q] = post[q]
  BY DEF TypeOK, storeVars, graphVars
<1>3. SingleRun' /\ Exclusive'
  BY <1>2 DEF SingleRun, Exclusive, Live
<1>4. ASSUME NEW q \in Requests PROVE RequestInv(q)'
  BY <1>2 DEF RequestInv, Known, Claimed, Fresh, Waiting, Thread, Live, Final
<1>5. ASSUME NEW h \in Handlers PROVE Opened(h)' /\ Served(h)'
  BY <1>2 DEF Opened, Served, Thread, Live, Final
<1> QED
  BY <1>1, <1>3, <1>4, <1>5

\* The claim still has its whole time to live when the request is stored.
LEMMA SaveStep ==
  ASSUME IInv, NEW r \in Requests, Save(r)
  PROVE  IInv'
<1> USE Constants DEF IInv, Save
<1>1. TypeOK'
  BY DEF TypeOK, graphVars
<1>2. /\ UNCHANGED <<owner, ownerTtl, session, key, handler, runs, status>>
      /\ post[r] = "claimed" /\ post'[r] = "saved" /\ pending'[r] = RequestTtl
      /\ \A q \in Requests \ {r} : post'[q] = post[q] /\ pending'[q] = pending[q]
  BY DEF TypeOK, graphVars
<1>3. SingleRun' /\ Exclusive'
  BY <1>2 DEF SingleRun, Exclusive, Live
<1>4. \A h \in Handlers : handler[h].phase # "idle" => handler[h].request # r
  BY <1>2 DEF Opened
<1>5. ASSUME NEW q \in Requests PROVE RequestInv(q)'
  BY <1>2, <1>4 DEF RequestInv, Known, Claimed, Fresh, Waiting, Thread, Live, Final
<1>6. ASSUME NEW h \in Handlers PROVE Opened(h)' /\ Served(h)'
  BY <1>2 DEF Opened, Served, Thread, Live, Final
<1> QED
  BY <1>1, <1>3, <1>5, <1>6

\* A thread is claimed only for its owner, so no other request loses it.
LEMMA ClaimStep ==
  ASSUME IInv, NEW r \in Requests, NEW s \in Sessions, NEW k \in Keys, Claim(r, s, k)
  PROVE  IInv'
<1> USE Constants DEF IInv, Claim
<1>1. TypeOK'
  BY DEF TypeOK, graphVars
<1>2. /\ UNCHANGED <<pending, handler, runs, status>>
      /\ post[r] = "unused" /\ post'[r] = "claimed"
      /\ session'[r] = s /\ key'[r] = k
      /\ \A q \in Requests \ {r} :
           post'[q] = post[q] /\ session'[q] = session[q] /\ key'[q] = key[q]
  BY DEF TypeOK, graphVars
<1>3. /\ owner'[ThreadOf[k]] = s /\ ownerTtl'[ThreadOf[k]] = OwnershipTtl
      /\ \A t \in Threads : /\ owner[t] \in Sessions => owner'[t] = owner[t]
                            /\ ownerTtl'[t] >= ownerTtl[t]
                            /\ ownerTtl[t] \in Nat /\ ownerTtl'[t] \in Nat
                            /\ ownerTtl[t] = OwnershipTtl => ownerTtl'[t] = OwnershipTtl
  BY DEF TypeOK
<1>4. SingleRun' /\ Exclusive'
  BY <1>2 DEF SingleRun, Exclusive, Live
<1>5. \A h \in Handlers : handler[h].phase # "idle" => handler[h].request # r
  BY <1>2 DEF Opened
<1>6. ASSUME NEW q \in Requests PROVE RequestInv(q)'
  <2>1. CASE q = r
    BY <2>1, <1>2, <1>3 DEF RequestInv, Known, Claimed, Fresh, Waiting, Thread, Live, Final, TypeOK
  <2>2. CASE q # r
    <3>1. /\ RequestInv(q) /\ pending[q] \in Nat
          /\ post[q] # "unused" => Thread(q) \in Threads /\ Thread(q)' = Thread(q)
      BY <2>2, <1>2 DEF RequestInv, Known, Thread, TypeOK
    <3>2. pending[q] > 0 => post[q] # "unused"
      BY <3>1 DEF RequestInv, Fresh
    <3>3. Known(q)' /\ Fresh(q)' /\ (Final(q)' => post'[q] = "accepted")
      BY <2>2, <1>2, <3>1 DEF RequestInv, Known, Fresh, Final
    <3>4. Claimed(q)'
      BY <2>2, <1>2, <1>3, <3>1 DEF RequestInv, Claimed, Known
    <3>5. Waiting(q)'
      BY <2>2, <1>2, <1>3, <3>1, <3>2 DEF RequestInv, Waiting, Known, Live, Final
    <3> QED
      BY <3>3, <3>4, <3>5 DEF RequestInv
  <2> QED
    BY <2>1, <2>2
<1>7. ASSUME NEW h \in Handlers PROVE Opened(h)' /\ Served(h)'
  <2>1. Opened(h)'
    BY <1>2, <1>5 DEF Opened
  <2>2. Live(h)' <=> Live(h)
    BY <1>2 DEF Live
  <2>3. CASE ~Live(h)
    BY <2>1, <2>2, <2>3 DEF Served
  <2>4. CASE Live(h)
    <3> DEFINE q == handler[h].request
    <3>1. q \in Requests \ {r} /\ post[q] = "accepted"
      BY <2>4, <1>5 DEF Live, Opened
    <3>2. Known(q) /\ Served(h) /\ handler[h].timer \in Nat
      <4>1. Known(q) /\ Served(h)
        BY <3>1 DEF RequestInv
      <4>2. handler[h].timer \in Nat
        BY TimerType
      <4> QED
        BY <4>1, <4>2
    <3>3. Thread(q) \in Threads /\ Thread(q)' = Thread(q) /\ session'[q] = session[q]
      BY <3>1, <3>2, <1>2 DEF Known, Thread
    <3> QED
      BY <2>1, <2>4, <3>1, <3>2, <3>3, <1>2, <1>3 DEF Served, Known, Final
  <2> QED
    BY <2>3, <2>4
<1> QED
  BY <1>1, <1>4, <1>6, <1>7

\* An opened stream has not taken its request.
LEMMA OpenStep ==
  ASSUME IInv, NEW h \in Handlers, NEW r \in Requests, Open(h, r)
  PROVE  IInv'
<1> USE DEF IInv, Open
<1>1. handler'[h].phase = "opening" /\ handler'[h].request = r /\ post[r] = "accepted"
      /\ \A g \in Handlers \ {h} : handler'[g] = handler[g]
  BY DEF TypeOK, Idle
<1>2. UNCHANGED <<owner, ownerTtl, pending, post, session, key, runs, status>>
  BY DEF storeVars, postVars, graphVars
<1>3. TypeOK'
  BY Constants DEF TypeOK, storeVars, postVars, graphVars, Idle, Phases
<1>4. \A g \in Handlers : Live(g)' => Live(g) /\ handler'[g] = handler[g]
  BY <1>1 DEF Live
<1>5. SingleRun' /\ Exclusive'
  BY <1>2, <1>4 DEF SingleRun, Exclusive
<1>6. ASSUME NEW q \in Requests PROVE RequestInv(q)'
  BY <1>2, <1>4 DEF RequestInv, Known, Claimed, Fresh, Waiting, Thread, Final
<1>7. ASSUME NEW g \in Handlers PROVE Opened(g)'
  BY <1>1, <1>2 DEF Opened
<1>8. ASSUME NEW g \in Handlers PROVE Served(g)'
  <2>1. Served(g)
    OBVIOUS
  <2> QED
    BY <2>1, <1>2, <1>4 DEF Served, Thread, Final
<1> QED
  BY <1>3, <1>5, <1>6, <1>7, <1>8

\* GETDEL hands the request, and what its thread has left, to one stream.
LEMMA TakeStep ==
  ASSUME IInv, NEW h \in Handlers, Take(h)
  PROVE  IInv'
<1> DEFINE r == handler[h].request
<1> USE Constants DEF IInv, Take
<1>1. r \in Requests /\ post[r] = "accepted" /\ ~Live(h) /\ pending[r] \in Nat
  BY DEF Opened, Live, TypeOK
<1>2. /\ pending'[r] = 0
      /\ \A q \in Requests \ {r} : pending'[q] = pending[q]
      /\ \A g \in Handlers \ {h} : handler'[g] = handler[g]
      /\ UNCHANGED <<owner, ownerTtl, post, session, key, runs, status>>
  BY <1>1 DEF TypeOK, postVars, graphVars
<1>3. \/ /\ pending[r] > 0 /\ handler'[h].phase = "taken"
         /\ handler'[h].request = r /\ handler'[h].timer = RunTime
      \/ /\ pending[r] = 0 /\ handler'[h].phase = "idle"
  BY DEF TypeOK, Idle
<1>4. TypeOK'
  BY HandlerType, IdleType, <1>1 DEF TypeOK, postVars, graphVars, Phases
<1>5. \A g \in Handlers \ {h} : Live(g)' = Live(g)
  BY <1>2 DEF Live
<1>6. Live(h)' => pending[r] > 0 /\ handler'[h].request = r
  BY <1>3 DEF Live
<1>7. Live(h)' => \A g \in Handlers : Live(g) => handler[g].request # r
  BY <1>1, <1>6 DEF RequestInv, Waiting
<1>8. SingleRun' /\ Exclusive'
  BY <1>1, <1>2, <1>5, <1>6, <1>7 DEF SingleRun, Exclusive
<1>9. ASSUME NEW q \in Requests PROVE RequestInv(q)'
  <2>1. Waiting(q)'
    BY <1>1, <1>2, <1>5, <1>6 DEF RequestInv, Waiting, Thread, Final
  <2> QED
    BY <2>1, <1>1, <1>2 DEF RequestInv, Known, Claimed, Fresh, Thread, Final
<1>10. ASSUME NEW g \in Handlers PROVE Opened(g)' /\ Served(g)'
  <2>1. CASE g # h
    BY <2>1, <1>2, <1>5 DEF Opened, Served, Thread, Final
  <2>2. CASE g = h /\ Live(h)'
    <3>1. Waiting(r) /\ pending[r] >= 1 /\ ownerTtl[Thread(r)] >= RunTime + 1
      <4>1. Waiting(r) /\ Known(r) /\ pending[r] > 0
        BY <1>1, <1>6, <2>2 DEF RequestInv
      <4>2. ownerTtl[Thread(r)] \in Nat
        BY <4>1, <1>1 DEF Known, Thread, TypeOK
      <4> QED
        BY <4>1, <4>2, <1>1 DEF Waiting
    <3> QED
      BY <3>1, <2>2, <1>1, <1>2, <1>3 DEF Opened, Served, Waiting, Thread, Final, Live
  <2>3. CASE g = h /\ ~Live(h)'
    BY <2>3, <1>3 DEF Opened, Served, Live
  <2> QED
    BY <2>1, <2>2, <2>3
<1> QED
  BY <1>4, <1>8, <1>9, <1>10

\* A key that expires covered nothing any more.
LEMMA TickStep ==
  ASSUME IInv, Tick
  PROVE  IInv'
<1> USE Constants DEF IInv, Tick
<1>1. \A n \in Nat : /\ Down(n) \in Nat /\ Down(n) <= n
                     /\ n > 0 => Down(n) = n - 1
                     /\ n = 0 => Down(n) = 0
  BY DEF Down
<1>2. UNCHANGED <<post, session, key, memory, answer, runs, delivered, status>>
  BY DEF postVars, graphVars
<1>3. \A q \in Requests : pending[q] \in Nat /\ pending'[q] = Down(pending[q])
  BY DEF TypeOK
<1>4. \A t \in Threads :
        /\ ownerTtl[t] \in Nat /\ ownerTtl'[t] = Down(ownerTtl[t])
        /\ ownerTtl[t] > 1 => owner'[t] = owner[t]
  BY DEF TypeOK
<1>5. \A g \in Handlers :
        /\ handler'[g].phase = handler[g].phase /\ handler'[g].request = handler[g].request
        /\ handler[g].timer \in Nat /\ handler'[g].timer = Down(handler[g].timer)
        /\ Live(g)' = Live(g)
        /\ Live(g) => handler[g].timer > 0
  BY HandlerType DEF TypeOK, Live
<1>6. TypeOK'
  <2>1. handler' \in [Handlers -> [phase : Phases, request : Requests \cup {NoOne},
                                  loaded : SUBSET Requests, timer : 0 .. RunTime]]
    <3>1. ASSUME NEW g \in Handlers
          PROVE  [handler[g] EXCEPT !.timer = Down(@)]
                   \in [phase : Phases, request : Requests \cup {NoOne},
                       loaded : SUBSET Requests, timer : 0 .. RunTime]
      <4>1. Down(handler[g].timer) \in 0 .. RunTime
        <5>1. handler[g].timer \in 0 .. RunTime /\ handler[g].timer \in Nat
          BY HandlerType, TimerType
        <5> HIDE DEF IInv, Tick
        <5> QED
          BY <5>1, <1>1
      <4>2. handler[g] \in [phase : Phases, request : Requests \cup {NoOne},
                           loaded : SUBSET Requests, timer : 0 .. RunTime]
        BY DEF TypeOK
      <4> HIDE DEF IInv, Tick
      <4> QED
        BY <4>1, <4>2
    <3> QED
      BY <3>1
  <2>2. /\ pending' \in [Requests -> 0 .. RequestTtl]
        /\ ownerTtl' \in [Threads -> 0 .. OwnershipTtl]
        /\ owner' \in [Threads -> Sessions \cup {NoOne}]
    BY <1>1 DEF TypeOK
  <2> QED
    BY <2>1, <2>2, <1>2 DEF TypeOK
<1>7. SingleRun' /\ Exclusive'
  BY <1>2, <1>5 DEF SingleRun, Exclusive
<1> HIDE DEF IInv, Tick
<1>8. ASSUME NEW q \in Requests PROVE RequestInv(q)'
  <2>1. RequestInv(q) /\ post[q] # "claimed"
    BY DEF IInv, Tick
  <2>2. Known(q)' /\ Claimed(q)' /\ (Final(q)' => post'[q] = "accepted")
    BY <2>1, <1>2 DEF RequestInv, Known, Claimed, Final
  <2>3. Fresh(q)'
    BY <2>1, <1>1, <1>2, <1>3 DEF RequestInv, Fresh
  <2>4. Waiting(q)'
    <3>1. SUFFICES ASSUME pending'[q] > 0 PROVE Waiting(q)'
      BY DEF Waiting
    <3>2. pending[q] > 0 /\ pending'[q] = pending[q] - 1
      BY <3>1, <1>1, <1>3
    <3>3. Waiting(q) /\ Thread(q) \in Threads /\ Thread(q)' = Thread(q)
      BY <2>1, <3>2, <1>2, <1>3 DEF RequestInv, Fresh, Known, Thread
    <3>4. ownerTtl[Thread(q)] > 1
      BY <3>2, <3>3, <1>3, <1>4 DEF Waiting
    <3>5. ownerTtl'[Thread(q)] = ownerTtl[Thread(q)] - 1
      BY <3>3, <3>4, <1>1, <1>4
    <3> QED
      BY <3>2, <3>3, <3>4, <3>5, <1>2, <1>3, <1>4, <1>5 DEF Waiting, Final
  <2> QED
    BY <2>2, <2>3, <2>4 DEF RequestInv
<1>9. ASSUME NEW g \in Handlers PROVE Opened(g)' /\ Served(g)'
  <2>1. Opened(g)'
    BY <1>2, <1>5 DEF Opened, IInv
  <2>2. Served(g)'
    <3>1. SUFFICES ASSUME Live(g) PROVE Served(g)'
      BY <1>5 DEF Served
    <3> DEFINE r == handler[g].request
    <3>2. Served(g) /\ r \in Requests /\ Thread(r) \in Threads /\ Thread(r)' = Thread(r)
      <4>1. r \in Requests /\ post[r] = "accepted"
        BY <3>1 DEF Live, Opened, IInv
      <4>2. Known(r) /\ Served(g)
        BY <4>1 DEF RequestInv, IInv
      <4> QED
        BY <4>1, <4>2, <1>2, <1>5 DEF Known, Thread
    <3>3. handler'[g].timer = handler[g].timer - 1 /\ handler[g].timer > 0
      BY <3>1, <1>1, <1>5
    <3>4. ownerTtl[Thread(r)] > 1
      BY <3>1, <3>2, <3>3, <1>4, <1>5 DEF Served
    <3>5. ownerTtl'[Thread(r)] = ownerTtl[Thread(r)] - 1
      BY <3>2, <3>4, <1>1, <1>4
    <3> QED
      BY <3>1, <3>2, <3>3, <3>4, <3>5, <1>2, <1>4, <1>5 DEF Served, Final
  <2> QED
    BY <2>1, <2>2
<1> QED
  BY <1>6, <1>7, <1>8, <1>9 DEF IInv

\* Every step of the system keeps the invariant.
LEMMA NextStep ==
  ASSUME IInv, [Next]_vars
  PROVE  IInv'
<1>1. CASE UNCHANGED vars
  BY <1>1 DEF IInv, TypeOK, SingleRun, Exclusive, RequestInv, Known, Claimed, Fresh, Waiting,
              Opened, Served, Thread, Final, Live, vars, storeVars, postVars, graphVars
<1>2. CASE Tick
  BY <1>2, TickStep
<1>3. CASE Posting
  BY <1>3, ClaimStep, SaveStep, AcceptStep, PostFailsStep DEF Posting
<1>4. ASSUME NEW h \in Handlers, Streaming(h) PROVE IInv'
  BY <1>4, OpenStep, TakeStep, StartStep, ReportStep, FinishStep, DeliverStep, FailStep,
     DisconnectStep DEF Streaming
<1> QED
  BY <1>1, <1>2, <1>3, <1>4 DEF Next

LEMMA Inductive == Spec => []IInv
<1>1. Init => IInv
  BY InitInv
<1>2. IInv /\ [Next]_vars => IInv'
  BY NextStep
<1> QED
  BY <1>1, <1>2, PTL DEF Spec
-----------------------------------------------------------------------------
\* The state of the store, the handlers and the checkpoints is well formed.
THEOREM TypeCorrect == Spec => []TypeOK
<1>1. IInv => TypeOK
  BY DEF IInv
<1> QED
  BY <1>1, Inductive, PTL

\* request_store.py: as long as a request is being posted, waits or runs, its
\* thread belongs to the session that posted it.
THEOREM Owned == Spec => []OwnedWhileInUse
<1>1. IInv => OwnedWhileInUse
  BY DEF IInv, OwnedWhileInUse, InUse, RequestInv, Claimed, Waiting, Served, Thread
<1> QED
  BY <1>1, Inductive, PTL

\* GETDEL: a stored request is run at most once.
THEOREM RunsOnce == Spec => []SingleRun
<1>1. IInv => SingleRun
  BY DEF IInv
<1> QED
  BY <1>1, Inductive, PTL

\* A report of the limiter or of a stream never reopens a finished request.
THEOREM FinalStatus == Spec => FinalStatusSticks
<1>1. IInv /\ [Next]_vars =>
        [\A r \in Requests :
           status[r] \in {"complete", "failed"} => status'[r] = status[r]]_vars
  <2> SUFFICES ASSUME IInv, Next, NEW r \in Requests, Final(r)
               PROVE  status'[r] = status[r]
    BY DEF Final
  <2> USE DEF IInv
  <2>1. CASE Posting
    <3>1. post[r] = "accepted"
      BY DEF RequestInv
    <3> QED
      BY <2>1, <3>1 DEF Posting, Claim, Save, Accept, PostFails, SetStatus, TypeOK
  <2>2. ASSUME NEW h \in Handlers, Streaming(h) PROVE status'[r] = status[r]
    <3>1. Live(h) => handler[h].request # r
      BY DEF Served
    <3> QED
      BY <2>2, <3>1 DEF Streaming, Take, Start, Report, Finish, Deliver, Fail, Disconnect, Open,
                        SetStatus, TypeOK, Live
  <2>3. CASE Tick
    BY <2>3 DEF Tick
  <2> QED
    BY <2>1, <2>2, <2>3 DEF Next
<1> QED
  BY <1>1, Inductive, PTL DEF Spec, FinalStatusSticks
-----------------------------------------------------------------------------
(* Conversations whose clients take turns *)

\* One stream at a time is open on a sequential key.
OneStream ==
  \A g, h \in Handlers :
    /\ handler[g].phase # "idle" /\ handler[h].phase # "idle"
    /\ KeyOf(g) = KeyOf(h) /\ KeyOf(g) \in SequentialKeys
    => g = h

\* A run has all the turns of its key, and then its answer is the one there.
Turns(h) ==
  KeyOf(h) \in SequentialKeys =>
    /\ handler[h].phase = "running" =>
         memory[KeyOf(h)] = handler[h].loaded /\ handler[h].request \in handler[h].loaded
    /\ handler[h].phase = "reading" =>
         answer[KeyOf(h)] = handler[h].request /\ handler[h].request \in memory[KeyOf(h)]

Delivered(r) == delivered[r] # {} => post[r] = "accepted"

TurnInv ==
  /\ OneStream /\ AnswersOwnQuestion /\ TurnsDurable
  /\ \A h \in Handlers : Turns(h)
  /\ \A r \in Requests : Delivered(r)

\* A stream that loses no turn of its own key and delivers at most its own
\* answer keeps every other stream's turns as they are.
LEMMA TurnStream ==
  ASSUME IInv, TurnInv, NEW h \in Handlers, handler[h].phase # "idle",
         UNCHANGED postVars,
         \A g \in Handlers \ {h} : handler'[g] = handler[g],
         handler'[h].phase # "idle" => handler'[h].request = handler[h].request,
         \A k \in Keys \ {KeyOf(h)} : memory'[k] = memory[k] /\ answer'[k] = answer[k],
         \A q \in Requests \ {handler[h].request} : delivered'[q] = delivered[q],
         KeyOf(h) \in SequentialKeys =>
           /\ Turns(h)' /\ memory[KeyOf(h)] \subseteq memory'[KeyOf(h)]
           /\ delivered'[handler[h].request] \subseteq {handler[h].request}
           /\ delivered'[handler[h].request] # {} =>
                handler[h].request \in memory'[KeyOf(h)]
  PROVE  TurnInv'
<1> DEFINE r == handler[h].request
<1>1. r \in Requests /\ KeyOf(h) \in Keys /\ KeyOf(h) = key[r] /\ post[r] = "accepted"
  BY StreamType DEF KeyOf
<1>2. UNCHANGED <<post, session, key>>
  BY DEF postVars
<1>3. \A g \in Handlers : handler'[g].phase # "idle" =>
        handler[g].phase # "idle" /\ KeyOf(g)' = KeyOf(g)
  BY <1>2 DEF KeyOf
<1>4. OneStream'
  BY <1>3 DEF OneStream, TurnInv
<1>5. ASSUME NEW q \in Requests PROVE Delivered(q)'
  BY <1>1, <1>2 DEF Delivered, TurnInv
<1>6. \A q \in Requests : Delivered(q) /\ Known(q)
  BY DEF TurnInv, IInv, RequestInv
<1>7. AnswersOwnQuestion'
  BY <1>1, <1>2 DEF AnswersOwnQuestion, TurnInv
<1>8. TurnsDurable'
  <2> SUFFICES ASSUME NEW q \in Requests, key[q] \in SequentialKeys, delivered'[q] # {}
               PROVE  q \in memory'[key[q]]
    BY <1>2 DEF TurnsDurable
  <2>1. CASE q = r
    BY <2>1, <1>1
  <2>2. CASE q # r
    <3>1. q \in memory[key[q]] /\ key[q] \in Keys
      BY <2>2, <1>6 DEF TurnInv, TurnsDurable, Delivered, Known
    <3> QED
      BY <3>1, <1>1
  <2> QED
    BY <2>1, <2>2
<1>9. ASSUME NEW g \in Handlers PROVE Turns(g)'
  <2>1. CASE g = h
    <3>1. KeyOf(h)' = KeyOf(h) \/ handler'[h].phase = "idle"
      BY <1>2 DEF KeyOf
    <3> QED
      BY <2>1, <3>1 DEF Turns
  <2>2. CASE g # h /\ handler[g].phase # "idle"
    <3>1. KeyOf(g)' = KeyOf(g) /\ KeyOf(g) \in Keys /\ Turns(g) /\ handler'[g] = handler[g]
      BY <2>2, <1>2, StreamType DEF KeyOf, TurnInv
    <3>2. KeyOf(g) \in SequentialKeys => KeyOf(g) # KeyOf(h)
      BY <2>2 DEF OneStream, TurnInv
    <3> QED
      BY <3>1, <3>2 DEF Turns
  <2>3. CASE g # h /\ handler[g].phase = "idle"
    BY <2>3 DEF Turns
  <2> QED
    BY <2>1, <2>2, <2>3
<1> QED
  BY <1>4, <1>5, <1>7, <1>8, <1>9 DEF TurnInv

\* A step that changes no stream and no checkpoint, and no request that has one.
LEMMA TurnIdle ==
  ASSUME IInv, TurnInv, UNCHANGED graphVars,
         \A g \in Handlers :
           /\ handler'[g].phase = handler[g].phase /\ handler'[g].request = handler[g].request
           /\ handler'[g].loaded = handler[g].loaded,
         \A q \in Requests : post[q] = "accepted" => post'[q] = post[q] /\ key'[q] = key[q]
  PROVE  TurnInv'
<1>1. \A g \in Handlers : handler[g].phase # "idle" => KeyOf(g)' = KeyOf(g)
  BY StreamType DEF KeyOf
<1>2. OneStream' /\ \A g \in Handlers : Turns(g)'
  BY <1>1 DEF OneStream, Turns, TurnInv, graphVars
<1>3. \A q \in Requests : Delivered(q)'
  BY DEF Delivered, TurnInv, graphVars
<1>4. AnswersOwnQuestion' /\ TurnsDurable'
  BY DEF AnswersOwnQuestion, TurnsDurable, Delivered, TurnInv, graphVars
<1> QED
  BY <1>2, <1>3, <1>4 DEF TurnInv

\* Whatever happens to a stream, a sequential conversation keeps its turns.
LEMMA TurnStreaming ==
  ASSUME IInv, TurnInv, NEW h \in Handlers, Streaming(h)
  PROVE  TurnInv'
<1> DEFINE r == handler[h].request
           k == KeyOf(h)
<1>1. TypeOK /\ Turns(h) /\ AnswersOwnQuestion /\ TurnsDurable
  BY DEF IInv, TurnInv
<1>2. ASSUME handler[h].phase # "idle"
      PROVE  /\ r \in Requests /\ k \in Keys /\ k = key[r]
             /\ k \in SequentialKeys =>
                  delivered[r] \subseteq {r} /\ (delivered[r] # {} => r \in memory[k])
  BY <1>1, <1>2, StreamType DEF KeyOf, AnswersOwnQuestion, TurnsDurable
<1>3. CASE \E q \in Requests : Open(h, q)
  <2> PICK q \in Requests : Open(h, q)
    BY <1>3
  <2>1. /\ handler'[h].phase = "opening" /\ handler'[h].request = q
        /\ handler[h].phase = "idle"
        /\ \A g \in Handlers \ {h} : handler'[g] = handler[g]
        /\ UNCHANGED <<post, key, memory, answer, delivered>>
        /\ key[q] \in SequentialKeys => ~Busy(key[q])
    BY <1>1 DEF Open, TypeOK, Idle, postVars, graphVars
  <2>2. KeyOf(h)' = key[q] /\ \A g \in Handlers \ {h} : KeyOf(g)' = KeyOf(g)
    BY <2>1 DEF KeyOf
  <2>3. OneStream'
    BY <2>1, <2>2 DEF OneStream, Busy, TurnInv
  <2>4. \A g \in Handlers : Turns(g)'
    BY <2>1, <2>2 DEF Turns, TurnInv
  <2> QED
    BY <2>1, <2>3, <2>4 DEF TurnInv, AnswersOwnQuestion, TurnsDurable, Delivered
<1>4. CASE Take(h)
  <2>1. /\ handler[h].phase # "idle" /\ UNCHANGED <<postVars, graphVars>>
        /\ \A g \in Handlers \ {h} : handler'[g] = handler[g]
        /\ handler'[h].phase \in {"idle", "taken"}
        /\ handler'[h].phase # "idle" => handler'[h].request = r
    BY <1>1, <1>4 DEF Take, TypeOK, Idle
  <2>2. Turns(h)'
    BY <2>1 DEF Turns
  <2> QED
    BY <2>1, <2>2, <1>2, TurnStream DEF graphVars
<1>5. CASE Start(h)
  <2>1. handler[h].phase # "idle" /\ UNCHANGED <<postVars, delivered>>
    BY <1>5 DEF Start
  <2>2. /\ \A g \in Handlers \ {h} : handler'[g] = handler[g]
        /\ handler'[h].phase = "running" /\ handler'[h].request = r
        /\ handler'[h].loaded = memory[k] \cup {r}
    BY <1>1, <1>5 DEF Start, TypeOK
  <2>3. /\ memory'[k] = memory[k] \cup {r}
        /\ \A l \in Keys \ {k} : memory'[l] = memory[l] /\ answer'[l] = answer[l]
    BY <1>1, <1>2, <1>5, <2>1 DEF Start, TypeOK
  <2>4. KeyOf(h)' = k
    BY <2>1, <2>2 DEF KeyOf, postVars
  <2>5. Turns(h)'
    BY <2>2, <2>3, <2>4 DEF Turns
  <2> QED
    BY <2>1, <2>2, <2>3, <2>5, <1>2, TurnStream
<1>6. CASE Report(h)
  BY <1>6, TurnIdle DEF Report, postVars
<1>7. CASE Finish(h)
  <2>1. handler[h].phase = "running" /\ UNCHANGED <<postVars, delivered>>
    BY <1>7 DEF Finish
  <2>2. /\ \A g \in Handlers \ {h} : handler'[g] = handler[g]
        /\ handler'[h].phase = "reading" /\ handler'[h].request = r
    BY <1>1, <1>7 DEF Finish, TypeOK
  <2>3. /\ memory'[k] = handler[h].loaded /\ answer'[k] = r
        /\ \A l \in Keys \ {k} : memory'[l] = memory[l] /\ answer'[l] = answer[l]
    BY <1>1, <1>2, <1>7, <2>1 DEF Finish, TypeOK
  <2>4. KeyOf(h)' = k
    BY <2>1, <2>2 DEF KeyOf, postVars
  <2>5. k \in SequentialKeys => memory[k] = handler[h].loaded /\ r \in handler[h].loaded
    BY <1>1, <2>1 DEF Turns
  <2>6. Turns(h)'
    BY <2>2, <2>3, <2>4, <2>5 DEF Turns
  <2> QED
    BY <2>1, <2>2, <2>3, <2>5, <2>6, <1>2, TurnStream
<1>8. CASE Deliver(h)
  <2>1. /\ handler[h].phase = "reading" /\ UNCHANGED <<postVars, memory, answer>>
        /\ \A g \in Handlers \ {h} : handler'[g] = handler[g]
        /\ handler'[h].phase = "idle"
    BY <1>1, <1>8 DEF Deliver, TypeOK, Idle
  <2>2. /\ delivered'[r] = delivered[r] \cup {answer[k]}
        /\ \A q \in Requests \ {r} : delivered'[q] = delivered[q]
    BY <1>1, <1>2, <1>8, <2>1 DEF Deliver, TypeOK
  <2>3. k \in SequentialKeys => answer[k] = r /\ r \in memory[k]
    BY <1>1, <2>1 DEF Turns
  <2>4. Turns(h)'
    BY <2>1 DEF Turns
  <2> QED
    BY <2>1, <2>2, <2>3, <2>4, <1>2, TurnStream
<1>9. CASE Fail(h) \/ Disconnect(h)
  <2>1. /\ handler[h].phase # "idle" /\ UNCHANGED <<postVars, graphVars>>
        /\ \A g \in Handlers \ {h} : handler'[g] = handler[g]
        /\ handler'[h].phase = "idle"
    BY <1>1, <1>9 DEF Fail, Disconnect, Live, TypeOK, Idle
  <2>2. Turns(h)'
    BY <2>1 DEF Turns
  <2> QED
    BY <2>1, <2>2, <1>2, TurnStream DEF graphVars
<1> QED
  BY <1>3, <1>4, <1>5, <1>6, <1>7, <1>8, <1>9 DEF Streaming

LEMMA TurnNext ==
  ASSUME IInv, TurnInv, [Next]_vars
  PROVE  TurnInv'
<1>1. CASE UNCHANGED vars
  BY <1>1, TurnIdle DEF vars, postVars
<1>2. CASE Tick
  <2>1. \A g \in Handlers :
          /\ handler'[g].phase = handler[g].phase /\ handler'[g].request = handler[g].request
          /\ handler'[g].loaded = handler[g].loaded
    <3>1. TypeOK /\ handler' = [h \in Handlers |-> [handler[h] EXCEPT !.timer = Down(@)]]
      BY <1>2 DEF Tick, IInv
    <3>2. ASSUME NEW g \in Handlers
          PROVE  /\ [handler[g] EXCEPT !.timer = Down(@)].phase = handler[g].phase
                 /\ [handler[g] EXCEPT !.timer = Down(@)].request = handler[g].request
                 /\ [handler[g] EXCEPT !.timer = Down(@)].loaded = handler[g].loaded
      <4>1. handler[g] \in [phase : Phases, request : Requests \cup {NoOne},
                            loaded : SUBSET Requests, timer : 0 .. RunTime]
        BY <3>1 DEF TypeOK
      <4> QED
        BY <4>1
    <3> QED
      BY <3>1, <3>2
  <2> QED
    BY <1>2, <2>1, TurnIdle DEF Tick, postVars
<1>3. CASE Posting
  <2>1. UNCHANGED <<handler, graphVars>>
    BY <1>3 DEF Posting, Claim, Save, Accept, PostFails
  <2>2. \A q \in Requests : post[q] = "accepted" => post'[q] = post[q] /\ key'[q] = key[q]
    BY <1>3 DEF Posting, Claim, Save, Accept, PostFails, IInv, TypeOK
  <2> QED
    BY <2>1, <2>2, TurnIdle
<1>4. ASSUME NEW h \in Handlers, Streaming(h) PROVE TurnInv'
  BY <1>4, TurnStreaming
<1> QED
  BY <1>1, <1>2, <1>3, <1>4 DEF Next

LEMMA TurnsInductive == Spec => []TurnInv
<1>1. Init => TurnInv
  BY DEF Init, Idle, TurnInv, OneStream, Turns, Delivered, AnswersOwnQuestion, TurnsDurable
<1>2. IInv /\ TurnInv /\ [Next]_vars => TurnInv'
  BY TurnNext
<1> QED
  BY <1>1, <1>2, Inductive, PTL DEF Spec

\* chat.py reads the answer back from the conversation's checkpoint: where
\* clients take turns it is the answer to the stream's own question.
THEOREM OwnAnswer == Spec => []AnswersOwnQuestion
<1>1. TurnInv => AnswersOwnQuestion
  BY DEF TurnInv
<1> QED
  BY <1>1, TurnsInductive, PTL

\* The checkpoint of a conversation whose clients take turns keeps every turn
\* whose answer was delivered.
THEOREM DurableTurns == Spec => []TurnsDurable
<1>1. TurnInv => TurnsDurable
  BY DEF TurnInv
<1> QED
  BY <1>1, TurnsInductive, PTL
-----------------------------------------------------------------------------
(* A conversation whose clients take turns is a Conversation.              *)

Busily == {"running", "reading"}

\* What a conversation remembers, and what a run may write back, has run.
Ran ==
  /\ \A k \in Keys : \A r \in memory[k] : runs[r] > 0
  /\ \A h \in Handlers :
       handler[h].phase = "running" => \A r \in handler[h].loaded : runs[r] > 0

LEMMA RanStep ==
  ASSUME IInv, Ran, [Next]_vars
  PROVE  Ran'
<1>1. TypeOK
  BY DEF IInv
<1>2. CASE UNCHANGED <<memory, runs, handler>>
  BY <1>2 DEF Ran
<1>3. CASE UNCHANGED vars
  BY <1>2, <1>3 DEF vars, graphVars
<1>4. CASE Posting
  BY <1>2, <1>4 DEF Posting, Claim, Save, Accept, PostFails, graphVars
<1>5. CASE Tick
  <2>1. UNCHANGED <<memory, runs>>
    BY <1>5 DEF Tick, graphVars
  <2>2. ASSUME NEW h \in Handlers
        PROVE  handler'[h].phase = handler[h].phase /\ handler'[h].loaded = handler[h].loaded
    <3>1. handler[h] \in [phase : Phases, request : Requests \cup {NoOne},
                          loaded : SUBSET Requests, timer : 0 .. RunTime]
      BY <1>1 DEF TypeOK
    <3>2. handler'[h] = [handler[h] EXCEPT !.timer = Down(@)]
      BY <1>5 DEF Tick
    <3> QED
      BY <3>1, <3>2
  <2> QED
    BY <2>1, <2>2 DEF Ran
<1>6. ASSUME NEW h \in Handlers, Streaming(h) PROVE Ran'
  <2> DEFINE r == handler[h].request
             k == KeyOf(h)
  <2>1. ASSUME UNCHANGED <<memory, runs>>, \A g \in Handlers \ {h} : handler'[g] = handler[g],
               handler'[h].phase # "running"
        PROVE  Ran'
    BY <2>1 DEF Ran
  <2>2. CASE Start(h)
    <3>1. handler[h].phase = "taken" /\ r \in Requests /\ k \in Keys
      BY <2>2, StreamType DEF Start, KeyOf
    <3>2. /\ \A g \in Handlers \ {h} : handler'[g] = handler[g]
          /\ handler'[h].loaded = memory[k] \cup {r}
      BY <1>1, <2>2 DEF Start, TypeOK
    <3>3. /\ memory'[k] = memory[k] \cup {r}
          /\ \A l \in Keys \ {k} : memory'[l] = memory[l]
      BY <1>1, <2>2, <3>1 DEF Start, TypeOK
    <3>4. /\ runs'[r] = runs[r] + 1 /\ runs[r] \in Nat
          /\ \A q \in Requests \ {r} : runs'[q] = runs[q]
      BY <1>1, <2>2, <3>1 DEF Start, TypeOK
    <3>5. \A q \in Requests : runs[q] > 0 \/ q = r => runs'[q] > 0
      BY <3>4
    <3>6. /\ \A l \in Keys : memory[l] \subseteq Requests
          /\ \A g \in Handlers : handler[g].loaded \subseteq Requests
      BY <1>1 DEF TypeOK
    <3>7. ASSUME NEW l \in Keys, NEW q \in memory'[l] PROVE runs'[q] > 0
      BY <3>1, <3>3, <3>5, <3>6, <3>7 DEF Ran
    <3>8. ASSUME NEW g \in Handlers, handler'[g].phase = "running", NEW q \in handler'[g].loaded
          PROVE  runs'[q] > 0
      BY <3>1, <3>2, <3>5, <3>6, <3>8 DEF Ran
    <3> QED
      BY <3>7, <3>8 DEF Ran
  <2>3. CASE Finish(h)
    <3>1. handler[h].phase = "running" /\ k \in Keys
      BY <2>3, StreamType DEF Finish, KeyOf
    <3>2. /\ \A g \in Handlers \ {h} : handler'[g] = handler[g]
          /\ handler'[h].phase = "reading" /\ runs' = runs
      BY <1>1, <2>3 DEF Finish, TypeOK
    <3>3. /\ memory'[k] = handler[h].loaded
          /\ \A l \in Keys \ {k} : memory'[l] = memory[l]
      BY <1>1, <2>3, <3>1 DEF Finish, TypeOK
    <3> QED
      BY <3>1, <3>2, <3>3 DEF Ran
  <2>4. CASE Report(h)
    BY <1>2, <2>4 DEF Report, graphVars
  <2>5. CASE Take(h) \/ Deliver(h) \/ Fail(h) \/ Disconnect(h)
    BY <1>1, <2>1, <2>5 DEF Take, Deliver, Fail, Disconnect, TypeOK, Idle, graphVars
  <2>6. CASE \E q \in Requests : Open(h, q)
    BY <1>1, <2>1, <2>6 DEF Open, TypeOK, Idle, graphVars
  <2> QED
    BY <1>6, <2>2, <2>3, <2>4, <2>5, <2>6 DEF Streaming
<1> QED
  BY <1>3, <1>4, <1>5, <1>6 DEF Next

\* A conversation is at the question of its one stream, once that runs.
LEMMA AtWork ==
  ASSUME IInv, TurnInv, NEW h \in Handlers, handler[h].phase # "idle", KeyOf(h) \in SequentialKeys
  PROVE  Working(KeyOf(h)) = IF handler[h].phase \in Busily THEN {handler[h].request} ELSE {}
<1>1. \A g \in Handlers : handler[g].phase \in Busily /\ KeyOf(g) = KeyOf(h) => g = h
  BY DEF TurnInv, OneStream, Busily
<1> QED
  BY <1>1 DEF Working, Busily

\* What every conversation is at and has replied, when no run starts, ends or replies.
LEMMA WorkingKept ==
  ASSUME NEW k, NEW h \in Handlers, \A g \in Handlers \ {h} : handler'[g] = handler[g],
         UNCHANGED key,
         handler[h].phase \in Busily <=> handler'[h].phase \in Busily,
         handler[h].phase \in Busily => handler'[h].request = handler[h].request
  PROVE  Working(k)' = Working(k)
<1>1. \A g \in Handlers : handler'[g].phase \in Busily <=> handler[g].phase \in Busily
  OBVIOUS
<1>2. \A g \in Handlers : handler[g].phase \in Busily =>
        handler'[g].request = handler[g].request /\ KeyOf(g)' = KeyOf(g)
  BY DEF KeyOf
<1> QED
  BY <1>1, <1>2 DEF Working, Busily

\* What the other conversations are at and have replied does not change.
LEMMA Elsewhere ==
  ASSUME IInv, NEW h \in Handlers, handler[h].phase # "idle", UNCHANGED postVars,
         \A g \in Handlers \ {h} : handler'[g] = handler[g],
         handler'[h].phase # "idle" => handler'[h].request = handler[h].request,
         \A q \in Requests \ {handler[h].request} : delivered'[q] = delivered[q],
         NEW k, k # KeyOf(h)
  PROVE  Working(k)' = Working(k) /\ Replies(k)' = Replies(k)
<1>1. key' = key
  BY DEF postVars
<1>2. \A g \in Handlers : handler'[g].phase \in Busily =>
        KeyOf(g)' = KeyOf(g) /\ handler'[g].request = handler[g].request
  BY <1>1 DEF KeyOf, Busily
<1>3. \A g \in Handlers : KeyOf(g) = k => handler'[g] = handler[g]
  OBVIOUS
<1>4. Working(k)' = Working(k)
  BY <1>2, <1>3 DEF Working, Busily
<1>5. key[handler[h].request] = KeyOf(h)
  BY DEF KeyOf
<1>6. Replies(k)' = Replies(k)
  BY <1>1, <1>5 DEF Replies
<1> QED
  BY <1>4, <1>6

\* The steps of a conversation.
LEMMA Stutters ==
  ASSUME \A l \in SequentialKeys :
           Working(l)' = Working(l) /\ memory'[l] = memory[l] /\ Replies(l)' = Replies(l)
  PROVE  UNCHANGED Talk!convVars
BY DEF Talk!convVars

LEMMA TakesUp ==
  ASSUME NEW k \in SequentialKeys, NEW q \in Requests,
         Working(k) = {}, Working(k)' = {q},
         \A l \in SequentialKeys : q \notin memory[l],
         memory'[k] = memory[k] \cup {q}, Replies(k)' = Replies(k),
         \A l \in SequentialKeys \ {k} :
           Working(l)' = Working(l) /\ memory'[l] = memory[l] /\ Replies(l)' = Replies(l)
  PROVE  Talk!ConvNext
<1>1. Talk!TakeUp(k, q)
  BY DEF Talk!TakeUp
<1> QED
  BY <1>1 DEF Talk!ConvNext

LEMMA RepliesTo ==
  ASSUME NEW k \in SequentialKeys, NEW q,
         Working(k) = {q}, Working(k)' = {},
         memory'[k] = memory[k], Replies(k)' = Replies(k) \cup {<<q, q>>},
         \A l \in SequentialKeys \ {k} :
           Working(l)' = Working(l) /\ memory'[l] = memory[l] /\ Replies(l)' = Replies(l)
  PROVE  Talk!ConvNext
<1>1. Talk!Reply(k)
  BY DEF Talk!Reply
<1> QED
  BY <1>1 DEF Talk!ConvNext

LEMMA BreaksOff ==
  ASSUME NEW k \in SequentialKeys,
         Working(k) # {}, Working(k)' = {},
         memory'[k] = memory[k], Replies(k)' = Replies(k),
         \A l \in SequentialKeys \ {k} :
           Working(l)' = Working(l) /\ memory'[l] = memory[l] /\ Replies(l)' = Replies(l)
  PROVE  Talk!ConvNext
<1>1. Talk!BreakOff(k)
  BY DEF Talk!BreakOff
<1> QED
  BY <1>1 DEF Talk!ConvNext

\* Each step of a stream.
LEMMA StreamConverses ==
  ASSUME IInv, TurnInv, Ran, NEW h \in Handlers, Streaming(h)
  PROVE  Talk!ConvNext \/ UNCHANGED Talk!convVars
<1>0. PICK r, k : r = handler[h].request /\ k = KeyOf(h)
  OBVIOUS
<1>1. TypeOK /\ Turns(h) /\ SequentialKeys \subseteq Keys
  BY ChatAssumption DEF IInv, TurnInv
<1>2. ASSUME handler[h].phase # "idle"
      PROVE  r \in Requests /\ k \in Keys /\ k = key[r]
  BY <1>0, <1>2, StreamType DEF KeyOf
<1>3. ASSUME UNCHANGED <<postVars, memory, delivered>>,
             \A g \in Handlers \ {h} : handler'[g] = handler[g],
             handler[h].phase \in Busily <=> handler'[h].phase \in Busily,
             handler[h].phase \in Busily => handler'[h].request = handler[h].request
      PROVE  UNCHANGED Talk!convVars
  <2>1. UNCHANGED key
    BY <1>3 DEF postVars
  <2>2. \A l \in SequentialKeys : Working(l)' = Working(l)
    BY <1>3, <2>1, WorkingKept
  <2>3. \A l \in SequentialKeys : Replies(l)' = Replies(l)
    BY <1>3, <2>1 DEF Replies
  <2> QED
    BY <1>3, <2>2, <2>3, Stutters
<1>4. CASE \E q \in Requests : Open(h, q)
  BY <1>1, <1>3, <1>4 DEF Open, TypeOK, Idle, graphVars, Busily
<1>5. CASE Take(h)
  BY <1>1, <1>3, <1>5 DEF Take, TypeOK, Idle, graphVars, Busily
<1>6. CASE Report(h)
  BY <1>3, <1>6 DEF Report, graphVars
<1>7. CASE Start(h)
  <2>1. handler[h].phase = "taken" /\ UNCHANGED <<postVars, delivered>> /\ key' = key
    BY <1>7 DEF Start, postVars
  <2>2. /\ \A g \in Handlers \ {h} : handler'[g] = handler[g]
        /\ handler'[h].phase = "running" /\ handler'[h].request = r
    BY <1>0, <1>1, <1>7 DEF Start, TypeOK
  <2>3. /\ memory'[k] = memory[k] \cup {r}
        /\ \A l \in Keys \ {k} : memory'[l] = memory[l]
    BY <1>0, <1>1, <1>2, <1>7, <2>1 DEF Start, TypeOK
  <2>4. \A l \in SequentialKeys \ {k} :
          Working(l)' = Working(l) /\ memory'[l] = memory[l] /\ Replies(l)' = Replies(l)
    BY <1>0, <1>1, <2>1, <2>2, <2>3, Elsewhere
  <2>5. CASE k \in SequentialKeys
    <3>1. Working(k) = {}
      BY <1>0, <2>1, <2>5, AtWork DEF Busily
    <3>2. Working(k)' = {r}
      <4>1. \A g \in Handlers \ {h} : ~(handler[g].phase \in Busily /\ KeyOf(g) = k)
        BY <3>1 DEF Working, Busily
      <4>2. \A g \in Handlers \ {h} : ~(handler'[g].phase \in Busily /\ KeyOf(g)' = k)
        BY <2>1, <2>2, <4>1 DEF KeyOf
      <4>3. KeyOf(h)' = k
        BY <1>0, <2>1, <2>2 DEF KeyOf
      <4> QED
        BY <2>2, <4>2, <4>3 DEF Working, Busily
    <3>3. \A l \in SequentialKeys : r \notin memory[l]
      <4>1. runs[r] = 0
        BY <1>0, <2>1 DEF IInv, Served, Live
      <4> QED
        BY <1>1, <4>1 DEF Ran
    <3>4. Replies(k)' = Replies(k)
      BY <2>1 DEF Replies
    <3> QED
      BY <1>2, <2>1, <2>3, <2>4, <2>5, <3>1, <3>2, <3>3, <3>4, TakesUp
  <2> QED
    BY <1>1, <2>4, <2>5, Stutters
<1>8. CASE Finish(h)
  <2>1. handler[h].phase = "running" /\ UNCHANGED <<postVars, delivered>> /\ key' = key
    BY <1>8 DEF Finish, postVars
  <2>2. /\ \A g \in Handlers \ {h} : handler'[g] = handler[g]
        /\ handler'[h].phase = "reading" /\ handler'[h].request = handler[h].request
    BY <1>1, <1>8 DEF Finish, TypeOK
  <2>3. /\ memory'[k] = handler[h].loaded
        /\ \A l \in Keys \ {k} : memory'[l] = memory[l]
    BY <1>0, <1>1, <1>2, <1>8, <2>1 DEF Finish, TypeOK
  <2>4. k \in SequentialKeys => memory[k] = handler[h].loaded
    BY <1>0, <1>1, <2>1 DEF Turns
  <2>5. \A l \in SequentialKeys : memory'[l] = memory[l]
    BY <1>1, <2>3, <2>4
  <2>6. \A l \in SequentialKeys : Working(l)' = Working(l)
    BY <2>1, <2>2, WorkingKept DEF Busily
  <2>7. \A l \in SequentialKeys : Replies(l)' = Replies(l)
    BY <2>1 DEF Replies
  <2> QED
    BY <2>5, <2>6, <2>7, Stutters
<1>9. CASE Deliver(h)
  <2>1. handler[h].phase = "reading" /\ UNCHANGED <<postVars, memory, answer>> /\ key' = key
    BY <1>9 DEF Deliver, postVars
  <2>2. /\ \A g \in Handlers \ {h} : handler'[g] = handler[g]
        /\ handler'[h].phase = "idle"
    BY <1>1, <1>9 DEF Deliver, TypeOK, Idle
  <2>3. /\ delivered'[r] = delivered[r] \cup {answer[k]}
        /\ \A q \in Requests \ {r} : delivered'[q] = delivered[q]
    BY <1>0, <1>1, <1>2, <1>9, <2>1 DEF Deliver, TypeOK
  <2>4. \A l \in SequentialKeys \ {k} :
          Working(l)' = Working(l) /\ memory'[l] = memory[l] /\ Replies(l)' = Replies(l)
    BY <1>0, <2>1, <2>2, <2>3, Elsewhere
  <2>5. CASE k \in SequentialKeys
    <3>1. Working(k) = {r}
      BY <1>0, <2>1, <2>5, AtWork DEF Busily
    <3>2. Working(k)' = {}
      <4>1. \A g \in Handlers \ {h} : ~(handler[g].phase \in Busily /\ KeyOf(g) = k)
        BY <1>0, <2>1, <2>5 DEF TurnInv, OneStream, Busily
      <4>2. \A g \in Handlers : ~(handler'[g].phase \in Busily /\ KeyOf(g)' = k)
        BY <2>1, <2>2, <4>1 DEF KeyOf, Busily
      <4> QED
        BY <4>2 DEF Working, Busily
    <3>3. answer[k] = r
      BY <1>0, <1>1, <2>1, <2>5 DEF Turns
    <3>4. Replies(k)' = Replies(k) \cup {<<r, r>>}
      <4>1. {r} \X delivered'[r] = ({r} \X delivered[r]) \cup {<<r, r>>}
        BY <2>3, <3>3
      <4>2. r \in {q \in Requests : key[q] = k}
        BY <1>2, <2>1
      <4> QED
        BY <2>1, <2>3, <4>1, <4>2 DEF Replies
    <3> QED
      BY <2>1, <2>4, <2>5, <3>1, <3>2, <3>4, RepliesTo
  <2> QED
    BY <1>1, <2>4, <2>5, <2>1, Stutters
<1>10. CASE Fail(h) \/ Disconnect(h)
  <2>1. handler[h].phase # "idle" /\ UNCHANGED <<postVars, memory, delivered>> /\ key' = key
    BY <1>10 DEF Fail, Disconnect, Live, postVars, graphVars
  <2>2. /\ \A g \in Handlers \ {h} : handler'[g] = handler[g]
        /\ handler'[h].phase = "idle"
    BY <1>1, <1>10 DEF Fail, Disconnect, TypeOK, Idle
  <2>3. CASE handler[h].phase \notin Busily
    BY <1>3, <2>1, <2>2, <2>3 DEF Busily
  <2>4. \A l \in SequentialKeys \ {k} :
          Working(l)' = Working(l) /\ memory'[l] = memory[l] /\ Replies(l)' = Replies(l)
    BY <1>0, <2>1, <2>2, Elsewhere
  <2>5. CASE handler[h].phase \in Busily /\ k \in SequentialKeys
    <3>1. Working(k) # {}
      BY <1>0, <2>1, <2>5, AtWork
    <3>2. Working(k)' = {}
      <4>1. \A g \in Handlers \ {h} : ~(handler[g].phase \in Busily /\ KeyOf(g) = k)
        BY <1>0, <2>1, <2>5 DEF TurnInv, OneStream, Busily
      <4>2. \A g \in Handlers : ~(handler'[g].phase \in Busily /\ KeyOf(g)' = k)
        BY <2>1, <2>2, <4>1 DEF KeyOf, Busily
      <4> QED
        BY <4>2 DEF Working, Busily
    <3>3. Replies(k)' = Replies(k)
      BY <2>1 DEF Replies
    <3> QED
      BY <2>1, <2>4, <2>5, <3>1, <3>2, <3>3, BreaksOff
  <2>6. CASE k \notin SequentialKeys
    BY <2>1, <2>4, <2>6, Stutters
  <2> QED
    BY <2>3, <2>5, <2>6
<1> QED
  BY <1>4, <1>5, <1>6, <1>7, <1>8, <1>9, <1>10 DEF Streaming

\* The others change neither a run nor a checkpoint.
LEMMA OthersConverse ==
  ASSUME IInv, TurnInv, Posting \/ Tick \/ UNCHANGED vars
  PROVE  UNCHANGED Talk!convVars
<1>1. TypeOK
  BY DEF IInv
<1>2. UNCHANGED <<memory, delivered>>
  BY DEF Posting, Claim, Save, Accept, PostFails, Tick, vars, graphVars
<1>3. \A g \in Handlers :
        handler'[g].phase = handler[g].phase /\ handler'[g].request = handler[g].request
  <2>1. CASE Posting \/ UNCHANGED vars
    BY <2>1 DEF Posting, Claim, Save, Accept, PostFails, vars
  <2>2. CASE Tick
    <3> SUFFICES ASSUME NEW g \in Handlers
                 PROVE  handler'[g].phase = handler[g].phase /\ handler'[g].request = handler[g].request
      OBVIOUS
    <3>1. handler[g] \in [phase : Phases, request : Requests \cup {NoOne},
                          loaded : SUBSET Requests, timer : 0 .. RunTime]
      BY <1>1 DEF TypeOK
    <3>2. handler'[g] = [handler[g] EXCEPT !.timer = Down(@)]
      BY <2>2 DEF Tick
    <3> QED
      BY <3>1, <3>2
  <2> QED
    BY <2>1, <2>2
<1>4. \A q \in Requests : post[q] = "accepted" => key'[q] = key[q]
  BY <1>1 DEF Posting, Claim, Save, Accept, PostFails, Tick, vars, postVars, TypeOK
<1>5. \A q \in Requests : key'[q] = key[q] \/ delivered[q] = {}
  BY <1>4 DEF TurnInv, Delivered
<1>6. \A g \in Handlers : handler[g].phase # "idle" => KeyOf(g)' = KeyOf(g)
  BY <1>3, <1>4, StreamType DEF KeyOf
<1>7. \A l \in SequentialKeys : Working(l)' = Working(l)
  BY <1>3, <1>6 DEF Working
<1>8. ASSUME NEW l \in SequentialKeys PROVE Replies(l)' = Replies(l)
  <2>1. \A q \in Requests : (key'[q] = l <=> key[q] = l) \/ {q} \X delivered[q] = {}
    BY <1>5
  <2> QED
    BY <1>2, <2>1 DEF Replies
<1> QED
  BY <1>2, <1>7, <1>8, Stutters

\* chat.py and request_store.py, over any number of replicas and with any streams that
\* break off, implement a conversation where clients take turns.
THEOREM Converses == Spec => ConversationSpec
<1>1. Init => Talk!ConvInit
  <2> SUFFICES ASSUME Init PROVE Talk!ConvInit
    OBVIOUS
  <2>1. \A l \in SequentialKeys : Working(l) = {}
    BY DEF Init, Idle, Working
  <2>2. \A l \in SequentialKeys : Replies(l) = {}
    BY DEF Init, Replies
  <2>3. \A l \in SequentialKeys : memory[l] = {}
    BY ChatAssumption DEF Init
  <2> QED
    BY <2>1, <2>2, <2>3 DEF Talk!ConvInit
<1>2. Init => Ran
  BY DEF Init, Idle, Ran
<1>3. IInv /\ Ran /\ [Next]_vars => Ran'
  BY RanStep
<1>4. IInv /\ TurnInv /\ Ran /\ [Next]_vars => [Talk!ConvNext]_(Talk!convVars)
  <2> SUFFICES ASSUME IInv, TurnInv, Ran, [Next]_vars
               PROVE  Talk!ConvNext \/ UNCHANGED Talk!convVars
    OBVIOUS
  <2>1. CASE \E h \in Handlers : Streaming(h)
    BY <2>1, StreamConverses
  <2>2. CASE Posting \/ Tick \/ UNCHANGED vars
    BY <2>2, OthersConverse
  <2> QED
    BY <2>1, <2>2 DEF Next
<1> QED
  BY <1>1, <1>2, <1>3, <1>4, Inductive, TurnsInductive, PTL
     DEF Spec, ConversationSpec, Talk!ConvSpec
=============================================================================
