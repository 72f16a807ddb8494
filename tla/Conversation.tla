---------------------------- MODULE Conversation ----------------------------
(***************************************************************************)
(* What the chat API promises a user who waits for an answer before asking *)
(* on: a conversation is a sequence of turns.  It takes up one question at *)
(* a time and no question twice, remembers each that it took up, and       *)
(* replies, if at all, to the question it is at.  How a request waits in   *)
(* Redis, who takes it, what is checkpointed when, and which stream or     *)
(* replica breaks off is no part of the promise.                           *)
(***************************************************************************)
EXTENDS Naturals

CONSTANTS Conversations, Questions

VARIABLES
  open,    \* the question each conversation is at: one or none
  turns,   \* the questions it remembers
  replies  \* the replies its user received: pairs of questions, the one asked
           \* and the one answered

convVars == <<open, turns, replies>>

ConvInit ==
  /\ open = [k \in Conversations |-> {}]
  /\ turns = [k \in Conversations |-> {}]
  /\ replies = [k \in Conversations |-> {}]

TakeUp(k, q) ==
  /\ open[k] = {} /\ \A l \in Conversations : q \notin turns[l]
  /\ open' = [open EXCEPT ![k] = {q}]
  /\ turns' = [turns EXCEPT ![k] = @ \cup {q}]
  /\ UNCHANGED replies

Reply(k) ==
  /\ open[k] # {}
  /\ replies' = [replies EXCEPT ![k] = @ \cup {<<q, q>> : q \in open[k]}]
  /\ open' = [open EXCEPT ![k] = {}]
  /\ UNCHANGED turns

\* The user sees an error or nothing; the question stays in the memory.
BreakOff(k) ==
  /\ open[k] # {}
  /\ open' = [open EXCEPT ![k] = {}]
  /\ UNCHANGED <<turns, replies>>

ConvNext ==
  \E k \in Conversations : Reply(k) \/ BreakOff(k) \/ \E q \in Questions : TakeUp(k, q)

ConvSpec == ConvInit /\ [][ConvNext]_convVars
=============================================================================
