----------------------------- MODULE MCRanking -----------------------------
(***************************************************************************)
(* Four chunks of two evidence units: two segments and a heading of A with *)
(* the text of one of them, one segment of B.  Two sources for three       *)
(* aspects.  61, 62 and 63 divide the unit of the scores.                  *)
(***************************************************************************)
EXTENDS Ranking

MCChunks == {"a1", "a2", "ah", "b1"}
MCEvidenceOf == [c \in MCChunks |-> IF c = "b1" THEN "B" ELSE "A"]
MCKindOf == [c \in MCChunks |-> IF c = "ah" THEN "heading" ELSE "body"]
MCTextOf == [c \in MCChunks |-> IF c = "ah" THEN "a2" ELSE c]
MCNeighbours == [a1 |-> <<"a2">>, a2 |-> <<"a1">>, ah |-> <<>>, b1 |-> <<>>]
MCMatches == [a1 |-> 0, a2 |-> 4, ah |-> 1, b1 |-> 0]
MCTopK == [bm25 |-> 3, vector |-> 2]
=============================================================================
