------------------------------ MODULE MCLlmCalls ------------------------------
(***************************************************************************)
(* Instances of LlmCalls for TLC.  As with the planner, answer and         *)
(* verifier roles, one caller's fallback is another caller's primary.      *)
(***************************************************************************)
EXTENDS LlmCalls

CONSTANTS c1, c2, m1, m2

Crossed == [c \in Callers |-> IF c = c1 THEN <<m1, m2>> ELSE <<m2, m1>>]
=============================================================================
