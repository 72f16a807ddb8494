---------------------------- MODULE MCGroqLimiter ----------------------------
(***************************************************************************)
(* Instances of GroqLimiter for TLC.  One time unit stands for 30 seconds: *)
(* wait 30 s, queue key 35 s (rounded up), window 60 s, call 90 s, lease   *)
(* 150 s are 1, 2, 2, 3 and 5.                                             *)
(***************************************************************************)
EXTENDS GroqLimiter, TLC

CONSTANT c1

\* The replica of c1 is one time unit ahead of the others.
OneAhead == [c \in Callers |-> IF c = c1 THEN 1 ELSE 0]
NoSkew == [c \in Callers |-> 0]

CallerSlotSymmetry == Permutations(Slots) \cup Permutations(Callers)
=============================================================================
