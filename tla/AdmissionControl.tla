--------------------------- MODULE AdmissionControl ---------------------------
(***************************************************************************)
(* What the Groq admission control promises about one model, whatever      *)
(* replica a caller runs in: at most Concurrency provider calls are in     *)
(* flight, and the calls started within any Window stay within the request *)
(* and the token limit.  How a caller queues, polls, times out, loses a    *)
(* Redis reply or crashes is no part of the promise.                       *)
(***************************************************************************)
EXTENDS Naturals, FiniteSets, SlidingWindow

CONSTANTS Callers,       \* coroutines that may call the model
          Costs,         \* token costs a call may have
          Concurrency,   \* limit on calls in flight
          RequestLimit,  \* limit on calls started per window
          TokenLimit     \* limit on tokens of the calls started per window

VARIABLES inFlight,  \* callers whose provider call is in flight
          recent     \* log of the calls started within the window

absVars == <<inFlight, recent>>

AbsTypeOK == inFlight \subseteq Callers /\ recent \subseteq LogEntry

AbsInit == inFlight = {} /\ recent = {}

Start(c, cost) ==
  /\ c \notin inFlight
  /\ Cardinality(inFlight) < Concurrency
  /\ inFlight' = inFlight \cup {c}
  /\ recent' = Record(recent, cost)
  /\ WithinLimits(recent', RequestLimit, TokenLimit)

Stop(c) ==
  /\ c \in inFlight
  /\ inFlight' = inFlight \ {c}
  /\ UNCHANGED recent

TimePasses == recent' = Elapse(recent) /\ UNCHANGED inFlight

AbsNext ==
  \/ \E c \in Callers : Stop(c) \/ \E cost \in Costs : Start(c, cost)
  \/ TimePasses

AbsSpec == AbsInit /\ [][AbsNext]_absVars
=============================================================================
