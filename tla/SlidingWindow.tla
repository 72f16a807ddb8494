---------------------------- MODULE SlidingWindow ----------------------------
(***************************************************************************)
(* The observer's view of a rate limit: a log of the calls started less    *)
(* than Window time units ago.  Each entry counts the calls and the tokens *)
(* started from that call on, itself included, so a limit "at most R calls *)
(* in any Window" is a bound on every entry, without a sum over the log.   *)
(* A specification keeps such a log as a history variable; no code reads   *)
(* it.                                                                     *)
(***************************************************************************)
EXTENDS Naturals

CONSTANT Window  \* length of the rate window, in time units

ASSUME WindowAssumption == Window \in Nat \ {0}

LogEntry == [age : 0 .. (Window - 1), requests : Nat \ {0}, tokens : Nat]

\* A call of the given cost starts now.
Record(log, cost) ==
  {[a EXCEPT !.requests = @ + 1, !.tokens = @ + cost] : a \in log}
    \cup {[age |-> 0, requests |-> 1, tokens |-> cost]}

\* One time unit passes; entries as old as the window are forgotten.
Elapse(log) ==
  {[a EXCEPT !.age = @ + 1] : a \in {b \in log : b.age + 1 < Window}}

WithinLimits(log, requestLimit, tokenLimit) ==
  \A a \in log : a.requests <= requestLimit /\ a.tokens <= tokenLimit
=============================================================================
