--------------------------- MODULE RetrievalProofs ---------------------------
(***************************************************************************)
(* Proofs about Retrieval, for every number of calls, threads, queries,    *)
(* searches and ingestions and every deadline: the types of its state,     *)
(* that what is looked up under a manifest is never of another corpus than *)
(* the one this process serves, that no branch is lost to a deadline while *)
(* the other may answer, that a call is short, and that slots bound the    *)
(* threads in use.                                                         *)
(*                                                                         *)
(* Proofs about Ranking, for any chunks, searches, queries, aspects and    *)
(* limits: fusion keeps the rankings that all searches share, and how much *)
(* room an evidence unit and an aspect keep.                               *)
(***************************************************************************)
EXTENDS Retrieval, Ranking, FiniteSetTheorems, WellFoundedInduction, TLAPS

\* The steps that concern one call: that it is admitted, and all others.
Enters(c) == Ask(c) \/ AskRerank(c) \/ AskNode(c)
Continues(c) ==
  \/ Begin(c) \/ BeginRerank(c) \/ BeginNode(c) \/ Proceed(c)
  \/ Cancel(c) \/ DenseEnds(c)
  \/ LexicalStarts(c) \/ LexicalEnds(c) \/ SearchEnds(c) \/ PathsFail(c)

\* What Launch, Gather, SearchEnds and Fuse make of a call.
Launched(r) == [r EXCEPT !.at = "branches", !.age = 0,
                         !.dense = "pending", !.lexical = "pending"]
Collected(r, n) == [r EXCEPT !.at = "paths", !.age = 0, !.searches = n,
                             !.dense = "none", !.lexical = "none"]
NextSearch(r) == [r EXCEPT !.searches = @ - 1, !.age = 0]
Requeried(r) == [r EXCEPT !.at = "embed", !.left = @ - 1, !.age = 0]

(***************************************************************************)
(* Types.  An ingestion writes records, index and manifest in this order,  *)
(* so that none of the latter is ahead of the records.                     *)
(***************************************************************************)
WriteOrder == disk.index <= disk.records /\ disk.manifest <= disk.records
Typed == TypeOK /\ WriteOrder

\* The call of a lookup, a search or a failure is a call again.
LEMMA CallUpdates ==
  ASSUME NEW r \in Call
  PROVE  /\ Idle \in Call /\ Failed \in Call
         /\ \A stage \in {"queued", "toRerank", "toNode"} :
              [Idle EXCEPT !.at = stage, !.attached = TRUE] \in Call
         /\ \A g \in {0} \cup Generations : [Idle EXCEPT !.answer = g, !.key = r.key] \in Call
         /\ \A stage \in {"rerank", "node"} : [r EXCEPT !.at = stage] \in Call
         /\ [r EXCEPT !.attached = FALSE] \in Call
         /\ \A v \in Versions : [r EXCEPT !.at = "lookup", !.key = v] \in Call
         /\ \A n \in 1 .. Queries : [r EXCEPT !.at = "embed", !.left = n] \in Call
         /\ Launched(r) \in Call
         /\ \A n \in 0 .. Searches : Collected(r, n) \in Call
         /\ r.searches > 0 => NextSearch(r) \in Call
         /\ \A d, x \in Branch : [r EXCEPT !.dense = d, !.lexical = x] \in Call
         /\ r.left > 1 => Requeried(r) \in Call
         /\ r.age < PoolTimeout => [r EXCEPT !.age = @ + 1] \in Call
<1>1. /\ Queries \in Nat \ {0} /\ PoolTimeout \in Nat \ {0} /\ Searches \in Nat \ {0}
      /\ 0 \in Versions /\ 0 \in 0 .. PoolTimeout /\ 0 \in 0 .. Searches
      /\ {"none", "pending"} \subseteq Branch
      /\ {"queued", "lookup", "embed", "branches", "paths"} = Retrieving
      /\ {"toRerank", "rerank"} = Reranking /\ {"toNode", "node"} = Ungated
      /\ {"idle", "error"} = Resting
  BY RetrievalAssumption DEF Versions, Unknown, Branch, Retrieving, Reranking, Ungated, Resting
<1>2. Idle \in Call /\ Failed \in Call
  <2>1. Idle \in Call
    BY <1>1 DEF Idle, Call, Unknown
  <2>2. \A q \in Call : [q EXCEPT !.at = "error"] \in Call
    BY <1>1 DEF Call
  <2>3. Failed \in Call
    BY <2>1, <2>2 DEF Failed
  <2>. QED
    BY <2>1, <2>3
<1>3. \A stage \in {"queued", "toRerank", "toNode"} :
         [Idle EXCEPT !.at = stage, !.attached = TRUE] \in Call
  BY <1>2, <1>1 DEF Call
<1>4. \A g \in {0} \cup Generations : [Idle EXCEPT !.answer = g, !.key = r.key] \in Call
  BY <1>2, <1>1 DEF Call
<1>5. /\ \A stage \in {"rerank", "node"} : [r EXCEPT !.at = stage] \in Call
      /\ [r EXCEPT !.attached = FALSE] \in Call
  BY <1>1 DEF Call
<1>51. \A v \in Versions : [r EXCEPT !.at = "lookup", !.key = v] \in Call
  BY <1>1 DEF Call
<1>52. \A n \in 1 .. Queries : [r EXCEPT !.at = "embed", !.left = n] \in Call
  <2>1. 1 .. Queries \subseteq 0 .. Queries
    BY <1>1
  <2>. QED
    BY <1>1, <2>1 DEF Call
<1>6. Launched(r) \in Call
  BY <1>1 DEF Call, Launched
<1>61. \A n \in 0 .. Searches : Collected(r, n) \in Call
  BY <1>1 DEF Call, Collected
<1>62. r.searches > 0 => NextSearch(r) \in Call
  <2>1. r.searches \in 0 .. Searches
    BY DEF Call
  <2>2. r.searches > 0 => r.searches - 1 \in 0 .. Searches
    BY <1>1, <2>1
  <2>. QED
    BY <1>1, <2>2 DEF Call, NextSearch
<1>63. \A d, x \in Branch : [r EXCEPT !.dense = d, !.lexical = x] \in Call
  BY DEF Call
<1>7. r.left > 1 => Requeried(r) \in Call
  <2>1. r.left \in 0 .. Queries
    BY DEF Call
  <2>2. r.left > 1 => r.left - 1 \in 0 .. Queries
    BY <1>1, <2>1
  <2>. QED
    BY <1>1, <2>2 DEF Call, Requeried
<1>8. r.age < PoolTimeout => [r EXCEPT !.age = @ + 1] \in Call
  BY <1>1 DEF Call
<1>. QED
  BY <1>2, <1>3, <1>4, <1>5, <1>51, <1>52, <1>6, <1>61, <1>62, <1>63, <1>7, <1>8

LEMMA BecomesTyped ==
  ASSUME call \in [Calls -> Call], NEW c \in Calls, NEW r \in Call, Becomes(c, r)
  PROVE  call' \in [Calls -> Call]
BY DEF Becomes

\* The initial state has its type.
LEMMA InitTyped == Init => Typed
<1>. SUFFICES ASSUME Init PROVE Typed
  OBVIOUS
<1>1. Queries \in Nat \ {0} /\ PoolTimeout \in Nat \ {0} /\ MaxGeneration \in Nat \ {0}
      /\ Searches \in Nat \ {0}
  BY RetrievalAssumption
<1>2. Idle \in Call
  BY <1>1 DEF Idle, Call, Resting, Branch, Versions, Unknown
<1>3. 1 \in Generations
  BY <1>1 DEF Generations
<1>. QED
  <2>1. TypeOK
    <3>. HIDE DEF Call
    <3>. QED
      BY <1>2, <1>3 DEF Init, TypeOK
  <2>2. WriteOrder
    BY DEF Init, WriteOrder
  <2>. QED
    BY <2>1, <2>2 DEF Typed

\* A step of the thread of a call, of its branches or of its coroutine keeps the
\* types.
LEMMA CallTyped ==
  ASSUME Typed, NEW c \in Calls, Enters(c) \/ Continues(c)
  PROVE  Typed'
<1>1. /\ up \in BOOLEAN
      /\ disk \in [records : Generations, index : Generations, manifest : Generations]
      /\ loaded \in {0} \cup Generations
      /\ cache \in [Generations -> {0} \cup Generations]
      /\ call \in [Calls -> Call]
      /\ job \in [Calls -> {"none", "queued", "running"}]
      /\ strays \in Nat
      /\ WriteOrder
  BY DEF Typed, TypeOK
<1>2. call[c] \in Call
  BY <1>1
<1>3. /\ call[c].key \in Versions
      /\ call[c].dense \in Branch /\ call[c].lexical \in Branch
      /\ {"ok", "failed"} \subseteq Branch
  BY <1>2 DEF Call, Branch
<1>4. Failed \in Call
  BY <1>2, CallUpdates
<1>5. ASSUME UNCHANGED files, loaded' \in {0} \cup Generations,
             cache' \in [Generations -> {0} \cup Generations],
             call' \in [Calls -> Call],
             job' \in [Calls -> {"none", "queued", "running"}], strays' \in Nat
      PROVE  Typed'
  BY <1>1, <1>5 DEF Typed, TypeOK, WriteOrder, files
<1>6. ASSUME NEW r \in Call, Becomes(c, r) PROVE call' \in [Calls -> Call]
  BY <1>1, <1>6, BecomesTyped
<1>7. ASSUME Abandon(c)
      PROVE  job' \in [Calls -> {"none", "queued", "running"}] /\ strays' \in Nat
  BY <1>1, <1>7 DEF Abandon
<1>8. ASSUME NEW d \in Branch, NEW x \in Branch, Set(c, d, x)
      PROVE  call' \in [Calls -> Call]
  <2>1. [call[c] EXCEPT !.dense = d, !.lexical = x] \in Call
    BY <1>2, CallUpdates
  <2>. QED
    BY <2>1, <1>6, <1>8 DEF Set
<1>. HIDE DEF Call
<1>9. CASE Enters(c)
  <2>1. PICK stage \in {"queued", "toRerank", "toNode"} : Enter(c, stage)
    BY <1>9 DEF Enters, Ask, AskRerank, AskNode
  <2>2. [Idle EXCEPT !.at = stage, !.attached = TRUE] \in Call
    BY <1>2, CallUpdates
  <2>3. call' \in [Calls -> Call]
    BY <2>1, <2>2, <1>6 DEF Enter
  <2>. QED
    BY <2>1, <2>3, <1>1, <1>5 DEF Enter
<1>10. CASE Begin(c)
  <2>1. PICK v \in {disk.manifest, Unknown} :
          Becomes(c, [call[c] EXCEPT !.at = "lookup", !.key = v])
    BY <1>10 DEF Begin
  <2>2. v \in Versions
    BY <1>1 DEF Versions
  <2>3. [call[c] EXCEPT !.at = "lookup", !.key = v] \in Call
    BY <2>2, <1>2, CallUpdates
  <2>. QED
    BY <2>1, <2>3, <1>1, <1>5, <1>6, <1>10 DEF Begin
<1>11. CASE BeginRerank(c) \/ Reranked(c) \/ NodeEnds(c)
  <2>1. [call[c] EXCEPT !.at = "rerank"] \in Call /\ Idle \in Call
    BY <1>2, CallUpdates
  <2>. QED
    BY <2>1, <1>1, <1>5, <1>6, <1>11 DEF BeginRerank, Reranked, NodeEnds
<1>111. CASE BeginNode(c)
  <2>1. [call[c] EXCEPT !.at = "node"] \in Call
    BY <1>2, CallUpdates
  <2>2. loaded' \in {0} \cup Generations
    BY <1>1, <1>111 DEF BeginNode
  <2>. QED
    BY <2>1, <2>2, <1>1, <1>5, <1>6, <1>111 DEF BeginNode
<1>12. CASE Hit(c)
  <2>1. PICK g \in Stored(call[c].key) : Becomes(c, Answered(c, g))
    BY <1>12 DEF Hit
  <2>2. g \in {0} \cup Generations
    <3>1. disk.manifest \in 1 .. MaxGeneration /\ MaxGeneration \in Nat
      BY <1>1, RetrievalAssumption DEF Generations
    <3>2. 1 .. disk.manifest \subseteq Generations
      BY <3>1 DEF Generations
    <3>3. call[c].key # Unknown => cache[call[c].key] \in {0} \cup Generations
      BY <1>1, <1>3 DEF Versions
    <3>. QED
      BY <2>1, <3>2, <3>3 DEF Stored
  <2>3. Answered(c, g) \in Call
    BY <2>2, <1>2, CallUpdates DEF Answered
  <2>. QED
    BY <2>1, <2>3, <1>1, <1>5, <1>6, <1>12 DEF Hit
<1>13. CASE Miss(c)
  <2>1. PICK n \in 1 .. Queries : Becomes(c, [call[c] EXCEPT !.at = "embed", !.left = n])
    BY <1>13 DEF Miss
  <2>2. [call[c] EXCEPT !.at = "embed", !.left = n] \in Call
    BY <1>2, CallUpdates
  <2>. QED
    BY <2>1, <2>2, <1>1, <1>5, <1>6, <1>13 DEF Miss
<1>14. CASE Launch(c)
  <2>1. Launched(call[c]) \in Call
    BY <1>2, CallUpdates
  <2>2. /\ loaded' \in {0} \cup Generations
        /\ job' \in [Calls -> {"none", "queued", "running"}]
    BY <1>1, <1>14 DEF Launch
  <2>. QED
    BY <2>1, <2>2, <1>1, <1>5, <1>6, <1>14 DEF Launch, Launched
<1>15. CASE LaunchFails(c) \/ PathsFail(c)
  BY <1>1, <1>4, <1>5, <1>6, <1>15 DEF LaunchFails, PathsFail
<1>16. CASE Gather(c)
  <2>1. Auxiliary(c) \subseteq 0 .. Searches
    BY RetrievalAssumption DEF Auxiliary
  <2>2. \A n \in Auxiliary(c) : Collected(call[c], n) \in Call
    BY <2>1, <1>2, CallUpdates
  <2>3. \/ Becomes(c, Failed)
        \/ \E n \in Auxiliary(c) : Becomes(c, Collected(call[c], n))
    BY <1>16 DEF Gather, Collected
  <2>4. call' \in [Calls -> Call]
    BY <2>2, <2>3, <1>4, <1>6
  <2>. QED
    BY <2>4, <1>1, <1>5, <1>16 DEF Gather
<1>161. CASE SearchEnds(c)
  <2>1. NextSearch(call[c]) \in Call
    BY <1>2, <1>161, CallUpdates DEF SearchEnds, UsesDatabase
  <2>. QED
    BY <2>1, <1>1, <1>5, <1>6, <1>161 DEF SearchEnds, NextSearch
<1>17. CASE Fuse(c)
  <2>. HIDE DEF Becomes
  <2>1. /\ call[c].left > 1 => Requeried(call[c]) \in Call
        /\ Answered(c, loaded) \in Call
    BY <1>1, <1>2, CallUpdates DEF Answered
  <2>2. call' \in [Calls -> Call]
    BY <2>1, <1>6, <1>17 DEF Fuse, Requeried
  <2>3. cache' \in [Generations -> {0} \cup Generations]
    <3>1. [g \in Generations |-> IF g = call[c].key THEN loaded ELSE cache[g]]
            \in [Generations -> {0} \cup Generations]
      BY <1>1
    <3>2. \/ cache' = [g \in Generations |-> IF g = call[c].key THEN loaded ELSE cache[g]]
          \/ cache' = cache
      BY <1>17 DEF Fuse
    <3>. QED
      BY <3>1, <3>2, <1>1
  <2>. QED
    BY <2>2, <2>3, <1>1, <1>5, <1>17 DEF Fuse
<1>18. CASE DenseTimesOut(c)
  BY <1>1, <1>3, <1>5, <1>8, <1>18 DEF DenseTimesOut
<1>19. CASE LexicalTimesOut(c)
  BY <1>1, <1>3, <1>5, <1>7, <1>8, <1>19 DEF LexicalTimesOut
<1>20. CASE AdapterTimesOut(c)
  BY <1>1, <1>4, <1>5, <1>6, <1>7, <1>20 DEF AdapterTimesOut
<1>21. CASE Cancel(c)
  <2>1. Idle \in Call /\ [call[c] EXCEPT !.attached = FALSE] \in Call
    BY <1>2, CallUpdates
  <2>2. call' \in [Calls -> Call]
    BY <2>1, <1>6, <1>21 DEF Cancel
  <2>. QED
    BY <2>2, <1>1, <1>5, <1>21 DEF Cancel
<1>22. CASE DenseEnds(c)
  BY <1>1, <1>3, <1>5, <1>8, <1>22 DEF DenseEnds
<1>23. CASE LexicalStarts(c)
  <2>1. job' \in [Calls -> {"none", "queued", "running"}]
    BY <1>1, <1>23 DEF LexicalStarts
  <2>. QED
    BY <2>1, <1>1, <1>5, <1>23 DEF LexicalStarts
<1>24. CASE LexicalEnds(c)
  <2>1. job' \in [Calls -> {"none", "queued", "running"}]
    BY <1>1, <1>24 DEF LexicalEnds
  <2>. QED
    BY <2>1, <1>1, <1>3, <1>5, <1>8, <1>24 DEF LexicalEnds
<1>. QED
  BY <1>9, <1>10, <1>11, <1>111, <1>12, <1>13, <1>14, <1>15, <1>16, <1>161, <1>17, <1>18,
     <1>19, <1>20, <1>21, <1>22, <1>23, <1>24 DEF Continues, Proceed

\* Every step keeps the types.
LEMMA StepTyped == Typed /\ [Next]_vars => Typed'
<1>. SUFFICES ASSUME Typed, [Next]_vars PROVE Typed'
  OBVIOUS
<1>1. /\ up \in BOOLEAN
      /\ disk \in [records : Generations, index : Generations, manifest : Generations]
      /\ loaded \in {0} \cup Generations
      /\ cache \in [Generations -> {0} \cup Generations]
      /\ call \in [Calls -> Call]
      /\ job \in [Calls -> {"none", "queued", "running"}]
      /\ strays \in Nat
      /\ WriteOrder
  BY DEF Typed, TypeOK
<1>. HIDE DEF Call
<1>2. CASE \E c \in Calls : Enters(c) \/ Continues(c)
  BY <1>2, CallTyped
<1>3. CASE Start
  BY <1>1, <1>3 DEF Start, Typed, TypeOK, WriteOrder
<1>31. CASE StrayEnds
  <2>1. strays' \in Nat
    BY <1>1, <1>31 DEF StrayEnds
  <2>. QED
    BY <2>1, <1>1, <1>31 DEF StrayEnds, files, Typed, TypeOK, WriteOrder
<1>4. CASE Stop
  <2>1. ASSUME NEW c \in Calls PROVE Idle \in Call
    BY <1>1, CallUpdates
  <2>2. call' \in [Calls -> Call]
    BY <2>1, <1>4 DEF Stop
  <2>. QED
    BY <2>2, <1>1, <1>4 DEF Stop, Typed, TypeOK, WriteOrder
<1>5. CASE Ingest
  <2>1. /\ disk' \in [records : Generations, index : Generations, manifest : Generations]
        /\ WriteOrder'
    <3>1. /\ disk.records \in 1 .. MaxGeneration /\ disk.index \in 1 .. MaxGeneration
          /\ disk.manifest \in 1 .. MaxGeneration /\ MaxGeneration \in Nat
      BY <1>1, RetrievalAssumption DEF Generations
    <3>2. CASE disk.index # disk.records
      BY <1>1, <3>1, <3>2, <1>5 DEF Ingest, WriteOrder, Generations
    <3>3. CASE disk.index = disk.records /\ disk.manifest # disk.records
      BY <1>1, <3>1, <3>3, <1>5 DEF Ingest, WriteOrder, Generations
    <3>4. CASE disk.index = disk.records /\ disk.manifest = disk.records
      BY <1>1, <3>1, <3>4, <1>5 DEF Ingest, WriteOrder, Generations
    <3>. QED
      BY <3>2, <3>3, <3>4
  <2>. QED
    BY <2>1, <1>1, <1>5 DEF Ingest, Typed, TypeOK
<1>6. CASE Tick
  <2>1. ASSUME NEW c \in Calls PROVE call'[c] \in Call
    <3>1. call[c] \in Call
      BY <1>1
    <3>2. CASE call[c].at \in {"branches", "paths"} /\ call[c].age < PoolTimeout
      <4>1. call'[c] = [call[c] EXCEPT !.age = @ + 1]
        BY <1>6, <3>2 DEF Tick
      <4>. QED
        BY <3>1, <3>2, <4>1, CallUpdates
    <3>3. CASE ~(call[c].at \in {"branches", "paths"} /\ call[c].age < PoolTimeout)
      BY <1>6, <3>1, <3>3 DEF Tick
    <3>. QED
      BY <3>2, <3>3
  <2>2. call' \in [Calls -> Call]
    BY <2>1, <1>6 DEF Tick
  <2>. QED
    BY <2>2, <1>1, <1>6 DEF Tick, files, Typed, TypeOK, WriteOrder
<1>7. CASE \E g \in Generations : Expire(g)
  BY <1>1, <1>7 DEF Expire, files, Typed, TypeOK, WriteOrder
<1>8. CASE UNCHANGED vars
  BY <1>1, <1>8 DEF vars, files, Typed, TypeOK, WriteOrder
<1>. QED
  BY <1>2, <1>3, <1>31, <1>4, <1>5, <1>6, <1>7, <1>8 DEF Next, Enters, Continues

\* A call, its lexical search, the files and the cache keep their types, for
\* every number of calls and ingestions and every deadline.
THEOREM TypeCorrect == Spec => []TypeOK
<1>1. Typed => TypeOK
  BY DEF Typed
<1>. QED
  BY InitTyped, StepTyped, <1>1, PTL DEF Spec
-----------------------------------------------------------------------------
(***************************************************************************)
(* The corpus an answer is from.  While the process serves, records, index *)
(* and manifest are of one ingestion, so that a call whose reading of the  *)
(* manifest succeeded has the name of the corpus in memory; whatever was   *)
(* cached under a name is of the ingestion of that name.                   *)
(***************************************************************************)
Fits(r) ==
  /\ r.key # Unknown => r.answer \in {0, disk.records}
  /\ r.at # "idle" => r.answer = 0
  /\ r.at \in {"lookup", "embed", "branches", "paths"} => r.key \in {Unknown, disk.manifest}
  /\ r.at \in {"branches", "paths"} => loaded # 0

Served ==
  /\ loaded \in {0, disk.records}
  /\ up => disk.index = disk.records /\ disk.manifest = disk.records
  /\ ~up => loaded = 0 /\ \A c \in Calls : call[c] = Idle /\ job[c] = "none"
  /\ \A g \in Generations : cache[g] \in {0, g}
  /\ \A c \in Calls : Fits(call[c])

\* A step of a call leaves everything served as it is, if the call it makes and
\* what it caches fit.
LEMMA ServedUpdate ==
  ASSUME Typed, Served, up, NEW c \in Calls, NEW r, Becomes(c, r), UNCHANGED files,
         loaded' = loaded \/ loaded' = disk.records,
         \A g \in Generations : cache'[g] \in {0, g},
         Fits(r)'
  PROVE  Served'
<1>1. /\ call \in [Calls -> Call] /\ disk.records \in Generations
      /\ up' = up /\ disk' = disk
  BY DEF Typed, TypeOK, files
<1>2. disk.records # 0
  BY <1>1, RetrievalAssumption DEF Generations
<1>3. ASSUME NEW d \in Calls PROVE Fits(call[d])'
  <2>1. CASE d = c
    <3>1. call'[d] = r
      BY <1>1, <2>1 DEF Becomes
    <3>. QED
      BY <3>1 DEF Fits
  <2>2. CASE d # c
    <3>1. call'[d] = call[d] /\ Fits(call[d])
      BY <1>1, <2>2 DEF Becomes, Served
    <3>. QED
      BY <3>1, <1>1, <1>2 DEF Fits
  <2>. QED
    BY <2>1, <2>2
<1>. QED
  BY <1>1, <1>3 DEF Served

\* Nothing of a process that is down makes a step.
LEMMA OnlyWhileUp ==
  ASSUME Served, NEW c \in Calls, Enters(c) \/ Continues(c)
  PROVE  up
<1>. SUFFICES ASSUME ~up PROVE FALSE
  OBVIOUS
<1>1. /\ call[c].at = "idle" /\ call[c].dense = "none" /\ call[c].lexical = "none"
      /\ call[c].attached = FALSE /\ job[c] = "none"
  BY DEF Served, Idle
<1>2. ~Enters(c)
  BY DEF Enters, Ask, AskRerank, AskNode, Enter
<1>3. ~Proceed(c)
  BY <1>1 DEF Proceed, Hit, Miss, Launch, LaunchFails, Gather, Gathered, Fuse, Reranked,
     NodeEnds, DenseTimesOut, DenseDue, LexicalTimesOut, LexicalDue, AdapterTimesOut,
     AdapterDue, UsesDatabase
<1>. QED
  BY <1>1, <1>2, <1>3 DEF Continues, Begin, BeginRerank, BeginNode, Cancel, DenseEnds,
     LexicalStarts, LexicalEnds, SearchEnds, UsesDatabase, PathsFail

\* A step of a call answers it from the corpus that is served.
LEMMA CallServed ==
  ASSUME Typed, Served, NEW c \in Calls, Enters(c) \/ Continues(c)
  PROVE  Served'
<1>1. /\ up /\ call[c] \in Call /\ Fits(call[c])
      /\ disk.manifest = disk.records /\ disk.records \in Generations
      /\ loaded \in {0, disk.records}
      /\ cache \in [Generations -> {0} \cup Generations]
      /\ \A g \in Generations : cache[g] \in {0, g}
  BY OnlyWhileUp DEF Typed, TypeOK, Served
<1>0. disk.records # 0 /\ Unknown \notin Generations
  BY <1>1, RetrievalAssumption DEF Generations, Unknown
<1>2. ASSUME NEW r, Becomes(c, r), UNCHANGED <<files, loaded>>,
             \A g \in Generations : cache'[g] \in {0, g}, Fits(r)
      PROVE  Served'
  <2>1. Fits(r)'
    BY <1>2 DEF Fits, files
  <2>. QED
    BY <2>1, <1>1, <1>2, ServedUpdate
<1>3. Fits(Idle) /\ Fits(Failed)
  BY DEF Fits, Idle, Failed
<1>4. CASE Enters(c)
  <2>1. PICK stage \in {"queued", "toRerank", "toNode"} : Enter(c, stage)
    BY <1>4 DEF Enters, Ask, AskRerank, AskNode
  <2>2. Fits([Idle EXCEPT !.at = stage, !.attached = TRUE])
    BY DEF Fits, Idle
  <2>. QED
    BY <2>1, <2>2, <1>1, <1>2 DEF Enter
<1>5. CASE Begin(c)
  <2>1. PICK v \in {disk.manifest, Unknown} :
          Becomes(c, [call[c] EXCEPT !.at = "lookup", !.key = v])
    BY <1>5 DEF Begin
  <2>2. Fits([call[c] EXCEPT !.at = "lookup", !.key = v])
    BY <1>1, <1>5 DEF Begin, Fits, Call
  <2>. QED
    BY <2>1, <2>2, <1>1, <1>2, <1>5 DEF Begin
<1>6. CASE BeginRerank(c) \/ Reranked(c) \/ NodeEnds(c)
  <2>1. call[c].at = "toRerank" => Fits([call[c] EXCEPT !.at = "rerank"])
    BY <1>1 DEF Fits, Call
  <2>. QED
    BY <2>1, <1>1, <1>2, <1>3, <1>6 DEF BeginRerank, Reranked, NodeEnds
<1>61. CASE BeginNode(c)
  <2>. PICK r : r = [call[c] EXCEPT !.at = "node"]
    OBVIOUS
  <2>1. /\ r.at = "node" /\ r.key = call[c].key /\ r.answer = call[c].answer
        /\ call[c].at = "toNode" /\ UNCHANGED files /\ Becomes(c, r) /\ cache' = cache
        /\ loaded' = loaded \/ loaded' = disk.records
    BY <1>1, <1>61 DEF BeginNode, Call
  <2>2. Fits(r)'
    BY <1>1, <2>1 DEF Fits, files
  <2>. QED
    BY <2>1, <2>2, <1>1, ServedUpdate
<1>7. CASE Hit(c)
  <2>1. PICK g \in Stored(call[c].key) : Becomes(c, Answered(c, g))
    BY <1>7 DEF Hit
  <2>2. call[c].key # Unknown => g = disk.records
    BY <2>1, <1>1, <1>7 DEF Hit, Fits, Stored
  <2>3. Fits(Answered(c, g))
    BY <2>2 DEF Fits, Answered, Idle
  <2>. QED
    BY <2>1, <2>3, <1>1, <1>2, <1>7 DEF Hit
<1>8. CASE Miss(c)
  <2>1. PICK n \in 1 .. Queries : Becomes(c, [call[c] EXCEPT !.at = "embed", !.left = n])
    BY <1>8 DEF Miss
  <2>2. Fits([call[c] EXCEPT !.at = "embed", !.left = n])
    BY <1>1, <1>8 DEF Miss, Fits, Call
  <2>. QED
    BY <2>1, <2>2, <1>1, <1>2, <1>8 DEF Miss
<1>9. CASE Launch(c)
  <2>. PICK r : r = Launched(call[c])
    OBVIOUS
  <2>1. /\ r.answer = call[c].answer /\ r.key = call[c].key
        /\ call[c].at = "embed" /\ UNCHANGED files /\ Becomes(c, r) /\ cache' = cache
        /\ loaded' = IF loaded = 0 THEN disk.records ELSE loaded
    BY <1>1, <1>9 DEF Launch, Launched, Call
  <2>2. loaded' = disk.records
    BY <1>1, <2>1
  <2>3. Fits(r)'
    BY <1>0, <1>1, <2>1, <2>2 DEF Fits, files
  <2>. QED
    BY <2>1, <2>2, <2>3, <1>1, ServedUpdate
<1>10. CASE LaunchFails(c) \/ PathsFail(c)
  BY <1>1, <1>2, <1>3, <1>10 DEF LaunchFails, PathsFail
<1>11. CASE Gather(c)
  <2>1. \A n : Fits(Collected(call[c], n))
    BY <1>1, <1>11 DEF Gather, Gathered, Fits, Collected, Call
  <2>2. PICK r : Becomes(c, r) /\ Fits(r)
    BY <2>1, <1>3, <1>11 DEF Gather, Collected
  <2>. QED
    BY <2>2, <1>1, <1>2, <1>11 DEF Gather
<1>111. CASE SearchEnds(c)
  <2>1. Fits(NextSearch(call[c]))
    BY <1>1, <1>111 DEF SearchEnds, Fits, NextSearch, Call
  <2>. QED
    BY <2>1, <1>1, <1>2, <1>111 DEF SearchEnds, NextSearch
<1>12. CASE Fuse(c)
  <2>1. Fits(Requeried(call[c]))
    BY <1>1, <1>12 DEF Fuse, Fits, Requeried, Call
  <2>2. Fits(Answered(c, loaded))
    BY <1>1 DEF Fits, Answered, Idle
  <2>3. loaded = disk.records /\ call[c].key \in {Unknown, disk.records}
    BY <1>1, <1>12 DEF Fuse, Fits
  <2>4. \A g \in Generations : cache'[g] \in {0, g}
    <3>1. \/ cache' = [g \in Generations |-> IF g = call[c].key THEN loaded ELSE cache[g]]
          \/ cache' = cache
      BY <1>12 DEF Fuse
    <3>. QED
      BY <1>0, <1>1, <2>3, <3>1
  <2>. QED
    BY <2>1, <2>2, <2>4, <1>2, <1>12 DEF Fuse, Requeried
<1>13. CASE AdapterTimesOut(c)
  BY <1>1, <1>2, <1>3, <1>13 DEF AdapterTimesOut
<1>14. CASE Cancel(c)
  <2>1. Fits([call[c] EXCEPT !.attached = FALSE])
    BY <1>1 DEF Fits, Call
  <2>. QED
    BY <2>1, <1>1, <1>2, <1>3, <1>14 DEF Cancel
<1>15. ASSUME NEW d, NEW x, Set(c, d, x), UNCHANGED <<files, loaded, cache>> PROVE Served'
  <2>1. Fits([call[c] EXCEPT !.dense = d, !.lexical = x])
    BY <1>1 DEF Fits, Call
  <2>. QED
    BY <2>1, <1>1, <1>2, <1>15 DEF Set
<1>16. CASE DenseTimesOut(c) \/ LexicalTimesOut(c) \/ DenseEnds(c) \/ LexicalEnds(c)
  BY <1>15, <1>16 DEF DenseTimesOut, LexicalTimesOut, DenseEnds, LexicalEnds
<1>17. CASE LexicalStarts(c)
  BY <1>1, <1>17 DEF LexicalStarts, Served, Fits, files
<1>. QED
  BY <1>4, <1>5, <1>6, <1>61, <1>7, <1>8, <1>9, <1>10, <1>11, <1>111, <1>12, <1>13, <1>14,
     <1>16, <1>17 DEF Continues, Proceed

LEMMA StepServed ==
  ASSUME Offline, Completed
  PROVE  Typed /\ Served /\ [Next]_vars => Served'
<1>. SUFFICES ASSUME Typed, Served, [Next]_vars PROVE Served'
  OBVIOUS
<1>1. CASE \E c \in Calls : Enters(c) \/ Continues(c)
  BY <1>1, CallServed
<1>2. CASE Start
  BY <1>2 DEF Start, Served, Fits
<1>3. CASE Stop
  BY <1>3 DEF Stop, Served, Fits, Idle
<1>4. CASE Ingest
  <2>1. ~up /\ ~up' /\ loaded' = 0
    BY <1>4 DEF Ingest, Served
  <2>2. ASSUME NEW c \in Calls PROVE call'[c] = Idle /\ job'[c] = "none" /\ Fits(call[c])'
    <3>1. call'[c] = Idle /\ job'[c] = "none"
      BY <1>4, <2>1 DEF Ingest, Served
    <3>2. Idle.key = Unknown /\ Idle.at = "idle"
      BY DEF Idle
    <3>. QED
      BY <3>1, <3>2 DEF Fits
  <2>. QED
    BY <2>1, <2>2, <1>4 DEF Ingest, Served
<1>5. CASE StrayEnds
  BY <1>5 DEF StrayEnds, Served, Fits, files
<1>6. CASE Tick
  <2>1. ASSUME NEW c \in Calls PROVE Fits(call[c])' /\ (~up => call'[c] = Idle)
    <3>1. call[c] \in Call /\ Fits(call[c]) /\ (~up => call[c] = Idle)
      BY DEF Typed, TypeOK, Served
    <3>2. CASE call[c].at \in {"branches", "paths"} /\ call[c].age < PoolTimeout
      <4>1. call'[c] = [call[c] EXCEPT !.age = @ + 1]
        BY <1>6, <3>2 DEF Tick
      <4>. QED
        BY <1>6, <3>1, <3>2, <4>1 DEF Tick, Fits, Call, files, Idle
    <3>3. CASE ~(call[c].at \in {"branches", "paths"} /\ call[c].age < PoolTimeout)
      <4>1. call'[c] = call[c]
        BY <1>6, <3>3 DEF Tick
      <4>. QED
        BY <1>6, <3>1, <4>1 DEF Tick, Fits, files
    <3>. QED
      BY <3>2, <3>3
  <2>. QED
    BY <2>1, <1>6 DEF Tick, Served, files
<1>7. CASE \E g \in Generations : Expire(g)
  <2>1. \A g \in Generations : cache'[g] \in {0, g}
    BY <1>7 DEF Expire, Served, Typed, TypeOK
  <2>. QED
    BY <2>1, <1>7 DEF Expire, Served, Fits, files
<1>8. CASE UNCHANGED vars
  BY <1>8 DEF vars, files, Served, Fits
<1>. QED
  BY <1>1, <1>2, <1>3, <1>4, <1>5, <1>6, <1>7, <1>8 DEF Next, Enters, Continues

\* When ingestions run while the API is down and it is started after completed
\* ones only, no answer that was looked up under a manifest is of another ingestion
\* than the one this process searches, whatever Redis kept over the restart.  A
\* lookup that could not read the manifest is left out: it shares its key with
\* every other ingestion.
THEOREM ServedCorpus ==
  ASSUME Offline, Completed
  PROVE  Spec => []AnswersFromServedCorpus
<1>1. Init => Served
  BY RetrievalAssumption DEF Init, Served, Fits, Idle, Generations
<1>2. Typed /\ Served /\ [Next]_vars => Served'
  BY StepServed
<1>3. Served => AnswersFromServedCorpus
  BY DEF Served, Fits, AnswersFromServedCorpus
<1>. QED
  BY InitTyped, StepTyped, <1>1, <1>2, <1>3, PTL DEF Spec
-----------------------------------------------------------------------------
(***************************************************************************)
(* Two branches.  While they run, each pending one is within its deadline, *)
(* and so is the one or the other: the deadlines are shorter than the      *)
(* adapter's, which therefore never ends a call that waits for branches.   *)
(***************************************************************************)
Ended == {"ok", "failed"}

Sound(r, j) ==
  /\ r.at # "branches" => r.dense = "none" /\ r.lexical = "none"
  /\ r.at = "branches" =>
       /\ r.dense \in {"pending"} \cup Ended /\ r.lexical \in {"pending"} \cup Ended
       /\ r.dense = "pending" => r.age <= DenseTimeout
       /\ r.lexical = "pending" => r.age <= LexicalTimeout
       /\ r.age <= DenseTimeout \/ r.age <= LexicalTimeout
  /\ j # "none" => r.at = "branches" /\ r.lexical = "pending"

Sounds == \A c \in Calls : Sound(call[c], job[c])

\* A step of a call leaves all calls sound, if the call it makes is.
LEMMA SoundUpdate ==
  ASSUME Typed, Sounds, NEW c \in Calls, NEW r, NEW j,
         Becomes(c, r), job' = [job EXCEPT ![c] = j], Sound(r, j)
  PROVE  Sounds'
<1>1. /\ call \in [Calls -> Call] /\ job \in [Calls -> {"none", "queued", "running"}]
      /\ \A d \in Calls : Sound(call[d], job[d])
  BY DEF Typed, TypeOK, Sounds
<1>2. ASSUME NEW d \in Calls PROVE Sound(call'[d], job'[d])
  <2>1. CASE d = c
    <3>1. call'[d] = r /\ job'[d] = j
      BY <1>1, <2>1 DEF Becomes
    <3>. QED
      BY <3>1
  <2>2. CASE d # c
    <3>1. call'[d] = call[d] /\ job'[d] = job[d]
      BY <1>1, <2>2 DEF Becomes
    <3>. QED
      BY <3>1, <1>1
  <2>. QED
    BY <2>1, <2>2
<1>. QED
  BY <1>2 DEF Sounds

\* The adapter's deadline is not reached while branches run.
LEMMA WithinAdapter ==
  ASSUME Typed, Sounds, NEW c \in Calls, call[c].at = "branches"
  PROVE  ~AdapterDue(c)
<1>1. call[c] \in Call /\ Sound(call[c], job[c])
  BY DEF Typed, TypeOK, Sounds
<1>2. /\ call[c].age \in Nat
      /\ {DenseTimeout, LexicalTimeout, PoolTimeout} \subseteq Nat
      /\ DenseTimeout < PoolTimeout /\ LexicalTimeout < PoolTimeout
  BY <1>1, RetrievalAssumption, DeadlineAssumption DEF Call
<1>. QED
  BY <1>1, <1>2 DEF Sound, AdapterDue

\* A step of a call keeps it sound.
LEMMA CallSound ==
  ASSUME Typed, Sounds, NEW c \in Calls, Enters(c) \/ Continues(c)
  PROVE  Sounds'
<1>1. /\ call[c] \in Call /\ Sound(call[c], job[c])
      /\ job \in [Calls -> {"none", "queued", "running"}]
  BY DEF Typed, TypeOK, Sounds
<1>2. {DenseTimeout, LexicalTimeout} \subseteq Nat
  BY RetrievalAssumption
<1>3. ASSUME NEW r, Becomes(c, r), UNCHANGED job, Sound(r, job[c]) PROVE Sounds'
  <2>1. job' = [job EXCEPT ![c] = job[c]]
    BY <1>1, <1>3
  <2>. QED
    BY <2>1, <1>3, SoundUpdate
<1>4. ASSUME NEW r, Becomes(c, r), UNCHANGED job, call[c].at # "branches",
             r.at # "branches", r.dense = "none", r.lexical = "none"
      PROVE  Sounds'
  <2>1. Sound(r, job[c])
    BY <1>1, <1>4 DEF Sound
  <2>. QED
    BY <2>1, <1>3, <1>4
<1>5. /\ Idle.at = "idle" /\ Idle.dense = "none" /\ Idle.lexical = "none"
      /\ Failed.at = "error" /\ Failed.dense = "none" /\ Failed.lexical = "none"
      /\ \A g : /\ Answered(c, g).at = "idle"
                /\ Answered(c, g).dense = "none" /\ Answered(c, g).lexical = "none"
  BY DEF Idle, Failed, Answered
<1>6. CASE Enters(c)
  <2>1. PICK stage \in {"queued", "toRerank", "toNode"} : Enter(c, stage)
    BY <1>6 DEF Enters, Ask, AskRerank, AskNode
  <2>2. PICK r : r = [Idle EXCEPT !.at = stage, !.attached = TRUE]
    OBVIOUS
  <2>3. r.at = stage /\ r.dense = "none" /\ r.lexical = "none"
    BY <2>2 DEF Idle
  <2>4. Becomes(c, r) /\ UNCHANGED job /\ call[c].at # "branches"
    BY <2>1, <2>2 DEF Enter, Resting
  <2>. QED
    BY <2>3, <2>4, <1>4
<1>7. ASSUME NEW r, Becomes(c, r), UNCHANGED job, call[c].at # "branches",
             r.at # "branches", r.dense = call[c].dense, r.lexical = call[c].lexical
      PROVE  Sounds'
  BY <1>1, <1>4, <1>7 DEF Sound
<1>8. CASE Begin(c)
  <2>1. PICK v \in {disk.manifest, Unknown} :
          Becomes(c, [call[c] EXCEPT !.at = "lookup", !.key = v])
    BY <1>8 DEF Begin
  <2>2. PICK r : r = [call[c] EXCEPT !.at = "lookup", !.key = v]
    OBVIOUS
  <2>3. r.at = "lookup" /\ r.dense = call[c].dense /\ r.lexical = call[c].lexical
    BY <2>2, <1>1 DEF Call
  <2>. QED
    BY <2>1, <2>2, <2>3, <1>7, <1>8 DEF Begin
<1>9. CASE BeginRerank(c) \/ BeginNode(c)
  <2>1. PICK stage \in {"rerank", "node"} : Becomes(c, [call[c] EXCEPT !.at = stage])
    BY <1>9 DEF BeginRerank, BeginNode
  <2>2. PICK r : r = [call[c] EXCEPT !.at = stage]
    OBVIOUS
  <2>3. r.at = stage /\ r.dense = call[c].dense /\ r.lexical = call[c].lexical
    BY <2>2, <1>1 DEF Call
  <2>. QED
    BY <2>1, <2>2, <2>3, <1>7, <1>9 DEF BeginRerank, BeginNode
<1>10. CASE Hit(c) \/ LaunchFails(c) \/ PathsFail(c) \/ Reranked(c) \/ NodeEnds(c)
  <2>1. PICK r : /\ Becomes(c, r) /\ r.at # "branches"
                 /\ r.dense = "none" /\ r.lexical = "none"
    BY <1>5, <1>10 DEF Hit, LaunchFails, PathsFail, Reranked, NodeEnds
  <2>2. call[c].at # "branches" /\ UNCHANGED job
    BY <1>10 DEF Hit, LaunchFails, PathsFail, Reranked, NodeEnds
  <2>. QED
    BY <2>1, <2>2, <1>4
<1>11. CASE Miss(c)
  <2>1. PICK n \in 1 .. Queries : Becomes(c, [call[c] EXCEPT !.at = "embed", !.left = n])
    BY <1>11 DEF Miss
  <2>2. PICK r : r = [call[c] EXCEPT !.at = "embed", !.left = n]
    OBVIOUS
  <2>3. r.at = "embed" /\ r.dense = call[c].dense /\ r.lexical = call[c].lexical
    BY <2>2, <1>1 DEF Call
  <2>. QED
    BY <2>1, <2>2, <2>3, <1>7, <1>11 DEF Miss
<1>12. CASE Launch(c)
  <2>1. Sound(Launched(call[c]), "queued")
    BY <1>1, <1>2 DEF Sound, Call, Launched
  <2>. QED
    BY <2>1, <1>12, SoundUpdate DEF Launch, Launched
<1>13. CASE Gather(c)
  <2>1. job[c] = "none"
    BY <1>1, <1>13 DEF Gather, Gathered, Sound
  <2>2. \A n : Sound(Collected(call[c], n), "none")
    BY <1>1 DEF Sound, Collected, Call
  <2>3. Sound(Failed, "none")
    BY <1>5 DEF Sound
  <2>4. \/ Becomes(c, Failed)
        \/ \E n \in Auxiliary(c) : Becomes(c, Collected(call[c], n))
    BY <1>13 DEF Gather, Collected
  <2>. QED
    BY <2>1, <2>2, <2>3, <2>4, <1>3, <1>13 DEF Gather
<1>14. CASE SearchEnds(c)
  <2>1. PICK r : r = NextSearch(call[c])
    OBVIOUS
  <2>2. r.at = call[c].at /\ r.dense = call[c].dense /\ r.lexical = call[c].lexical
    BY <2>1, <1>1 DEF NextSearch, Call
  <2>. QED
    BY <2>1, <2>2, <1>7, <1>14 DEF SearchEnds, UsesDatabase, NextSearch
<1>15. CASE Fuse(c)
  <2>1. PICK r : r = Requeried(call[c])
    OBVIOUS
  <2>2. r.at = "embed" /\ r.dense = call[c].dense /\ r.lexical = call[c].lexical
    BY <2>1, <1>1 DEF Requeried, Call
  <2>3. /\ Becomes(c, r) \/ Becomes(c, Answered(c, loaded))
        /\ call[c].at # "branches" /\ UNCHANGED job
    BY <2>1, <1>15 DEF Fuse, Requeried
  <2>. QED
    BY <2>2, <2>3, <1>4, <1>5, <1>7
<1>16. CASE AdapterTimesOut(c)
  <2>1. Sound(Failed, "none")
    BY <1>5 DEF Sound
  <2>. QED
    BY <2>1, <1>16, SoundUpdate DEF AdapterTimesOut, Abandon
<1>17. CASE Cancel(c)
  <2>1. CASE call[c].at \in Waiting
    BY <2>1, <1>4, <1>5, <1>17 DEF Cancel, Waiting
  <2>2. CASE call[c].at \notin Waiting
    <3>1. Sound([call[c] EXCEPT !.attached = FALSE], job[c])
      BY <1>1 DEF Sound, Call
    <3>. QED
      BY <3>1, <2>2, <1>3, <1>17 DEF Cancel
  <2>. QED
    BY <2>1, <2>2
<1>18. CASE DenseEnds(c) \/ DenseTimesOut(c)
  <2>1. PICK d \in Ended : Set(c, d, call[c].lexical)
    BY <1>18 DEF DenseEnds, DenseTimesOut, Ended
  <2>2. call[c].at = "branches" /\ call[c].dense = "pending" /\ UNCHANGED job
    BY <1>1, <1>18 DEF Sound, DenseEnds, DenseTimesOut, DenseDue
  <2>3. Sound([call[c] EXCEPT !.dense = d, !.lexical = call[c].lexical], job[c])
    BY <1>1, <2>2 DEF Sound, Call, Ended
  <2>. QED
    BY <2>1, <2>2, <2>3, <1>3 DEF Set
<1>19. CASE LexicalEnds(c) \/ LexicalTimesOut(c)
  <2>1. PICK x \in Ended : Set(c, call[c].dense, x)
    BY <1>19 DEF LexicalEnds, LexicalTimesOut, Ended
  <2>2. job' = [job EXCEPT ![c] = "none"]
    BY <1>19 DEF LexicalEnds, LexicalTimesOut, Abandon
  <2>3. call[c].at = "branches" /\ call[c].lexical = "pending"
    BY <1>1, <1>19 DEF Sound, LexicalEnds, LexicalTimesOut, LexicalDue
  <2>4. Sound([call[c] EXCEPT !.dense = call[c].dense, !.lexical = x], "none")
    BY <1>1, <2>3 DEF Sound, Call, Ended
  <2>. QED
    BY <2>1, <2>2, <2>4, SoundUpdate DEF Set
<1>20. CASE LexicalStarts(c)
  <2>1. Sound(call[c], "running")
    BY <1>1, <1>20 DEF LexicalStarts, Sound
  <2>2. Becomes(c, call[c])
    BY <1>20 DEF LexicalStarts, Becomes, Typed, TypeOK
  <2>. QED
    BY <2>1, <2>2, <1>20, SoundUpdate DEF LexicalStarts
<1>. QED
  BY <1>6, <1>8, <1>9, <1>10, <1>11, <1>12, <1>13, <1>14, <1>15, <1>16,
     <1>17, <1>18, <1>19, <1>20 DEF Continues, Proceed

LEMMA StepSound == Typed /\ Sounds /\ [Next]_vars => Sounds'
<1>. SUFFICES ASSUME Typed, Sounds, [Next]_vars PROVE Sounds'
  OBVIOUS
<1>1. CASE \E c \in Calls : Enters(c) \/ Continues(c)
  BY <1>1, CallSound
<1>2. ASSUME UNCHANGED <<call, job>> PROVE Sounds'
  BY <1>2 DEF Sounds
<1>3. CASE Start \/ StrayEnds \/ Ingest \/ (\E g \in Generations : Expire(g)) \/ UNCHANGED vars
  BY <1>2, <1>3 DEF Start, StrayEnds, Ingest, Expire, vars
<1>4. CASE Stop
  <2>1. Sound(Idle, "none")
    BY DEF Sound, Idle
  <2>. QED
    BY <2>1, <1>4 DEF Stop, Sounds
<1>5. CASE Tick
  <2>1. ASSUME NEW c \in Calls PROVE Sound(call'[c], job'[c])
    <3>1. call[c] \in Call /\ Sound(call[c], job[c]) /\ job' = job
      BY <1>5 DEF Typed, TypeOK, Sounds, Tick
    <3>2. CASE call[c].at \in {"branches", "paths"} /\ call[c].age < PoolTimeout
      <4>1. call'[c] = [call[c] EXCEPT !.age = @ + 1]
        BY <1>5, <3>2 DEF Tick
      <4>2. /\ call'[c].age = call[c].age + 1 /\ call'[c].at = call[c].at
            /\ call'[c].dense = call[c].dense /\ call'[c].lexical = call[c].lexical
            /\ call[c].age \in Nat
        BY <3>1, <4>1 DEF Call
      <4>3. /\ ~Gathered(c) /\ ~DenseDue(c) /\ ~LexicalDue(c)
            /\ {DenseTimeout, LexicalTimeout} \subseteq Nat
        BY <1>5, RetrievalAssumption DEF Tick, Prompt
      <4>4. CASE call[c].at = "branches"
        <5>1. /\ call[c].dense = "pending" => call[c].age + 1 <= DenseTimeout
              /\ call[c].lexical = "pending" => call[c].age + 1 <= LexicalTimeout
              /\ call[c].dense = "pending" \/ call[c].lexical = "pending"
          BY <4>2, <4>3, <4>4 DEF Gathered, DenseDue, LexicalDue
        <5>. QED
          BY <3>1, <4>2, <4>4, <5>1 DEF Sound
      <4>5. CASE call[c].at = "paths"
        BY <3>1, <4>2, <4>5 DEF Sound
      <4>. QED
        BY <3>2, <4>4, <4>5
    <3>3. CASE ~(call[c].at \in {"branches", "paths"} /\ call[c].age < PoolTimeout)
      <4>1. call'[c] = call[c]
        BY <1>5, <3>3 DEF Tick
      <4>. QED
        BY <3>1, <4>1
    <3>. QED
      BY <3>2, <3>3
  <2>. QED
    BY <2>1 DEF Sounds
<1>. QED
  BY <1>1, <1>3, <1>4, <1>5 DEF Next, Enters, Continues

\* A call whose branches run fails only when both have: of the steps that fail a
\* call, Gather looks at both, and no other applies while they run.
LEMMA StepLosesNothing ==
  ASSUME Typed, Sounds, [Next]_vars, NEW c \in Calls,
         call[c].at = "branches", call'[c].at = "error"
  PROVE  call[c].dense = "failed" /\ call[c].lexical = "failed"
<1>1. call \in [Calls -> Call] /\ call[c] \in Call
  BY DEF Typed, TypeOK
<1>2. call'[c].at # call[c].at
  OBVIOUS
<1>3. ~UNCHANGED call
  BY <1>2
<1>4. ~Stop /\ ~Tick
  <2>1. ~Stop
    BY DEF Stop, Idle
  <2>2. ASSUME Tick PROVE FALSE
    <3>1. call'[c] = call[c] \/ call'[c] = [call[c] EXCEPT !.age = @ + 1]
      BY <2>2 DEF Tick
    <3>. QED
      BY <1>1, <1>2, <3>1 DEF Call
  <2>. QED
    BY <2>1, <2>2
<1>5. PICK d \in Calls : Enters(d) \/ Continues(d)
  BY <1>3, <1>4 DEF Next, vars, Start, StrayEnds, Ingest, Expire, Enters, Continues
<1>6. ASSUME NEW r, Becomes(d, r) PROVE d = c /\ call'[c] = r
  BY <1>1, <1>2, <1>6 DEF Becomes
<1>7. ~Enters(d)
  BY <1>6 DEF Enters, Ask, AskRerank, AskNode, Enter, Resting
<1>8. ASSUME NEW x, NEW y PROVE ~Set(d, x, y)
  <2>1. [call[c] EXCEPT !.dense = x, !.lexical = y].at = call[c].at
    BY <1>1 DEF Call
  <2>. QED
    BY <2>1, <1>2, <1>6 DEF Set
<1>9. ~Cancel(d)
  <2>1. [call[c] EXCEPT !.attached = FALSE].at = call[c].at
    BY <1>1 DEF Call
  <2>. QED
    BY <2>1, <1>2, <1>6 DEF Cancel, Waiting
<1>10. ~AdapterTimesOut(d)
  BY <1>6, WithinAdapter DEF AdapterTimesOut
<1>11. /\ ~Begin(d) /\ ~BeginRerank(d) /\ ~BeginNode(d) /\ ~Hit(d) /\ ~Miss(d) /\ ~Launch(d)
       /\ ~LaunchFails(d) /\ ~Fuse(d) /\ ~Reranked(d) /\ ~NodeEnds(d)
       /\ ~SearchEnds(d) /\ ~PathsFail(d)
  BY <1>6 DEF Begin, BeginRerank, BeginNode, Hit, Miss, Launch, LaunchFails, Fuse,
     Reranked, NodeEnds, SearchEnds, UsesDatabase, PathsFail
<1>12. ~DenseEnds(d) /\ ~DenseTimesOut(d) /\ ~LexicalEnds(d) /\ ~LexicalTimesOut(d)
       /\ ~LexicalStarts(d)
  BY <1>3, <1>8 DEF DenseEnds, DenseTimesOut, LexicalEnds, LexicalTimesOut, LexicalStarts
<1>13. Gather(d)
  BY <1>5, <1>7, <1>9, <1>10, <1>11, <1>12 DEF Continues, Proceed
<1>14. ASSUME NEW n, Becomes(d, Collected(call[d], n)) PROVE FALSE
  <2>1. Collected(call[c], n).at = "paths"
    BY <1>1 DEF Collected, Call
  <2>. QED
    BY <2>1, <1>6, <1>14
<1>. QED
  BY <1>6, <1>13, <1>14 DEF Gather, Collected

\* A call whose branches run fails only when both have failed: no failure and no
\* deadline of one of them, and not the adapter's, which is the longest, takes what
\* the other one found.
THEOREM NoBranchLost == Spec => LosesNoBranch
<1>1. Init => Sounds
  BY DEF Init, Sounds, Sound, Idle
<1>2. Typed /\ Sounds /\ [Next]_vars =>
        [\A c \in Calls : call[c].at = "branches" /\ call'[c].at = "error" =>
           call[c].dense = "failed" /\ call[c].lexical = "failed"]_vars
  BY StepLosesNothing
<1>. QED
  BY InitTyped, StepTyped, StepSound, <1>1, <1>2, PTL DEF Spec, LosesNoBranch
-----------------------------------------------------------------------------
(***************************************************************************)
(* The length of a call.  Each step of its coroutine, of its thread and of *)
(* its branches, and each unit of time in which it waits for the database, *)
(* uses up some of the query it is at, or ends the query.                  *)
(***************************************************************************)
QueriesLeft(r) == IF r.at \in {"queued", "lookup"} THEN Queries + 1 ELSE r.left

Pending(b) == IF b = "pending" THEN 1 ELSE 0

\* Auxiliary searches each have the adapter's whole deadline, and then end.
SearchTime(n) == n * (PoolTimeout + 1)

\* Steps and units of time until the query is over.
StageLeft(r) ==
  CASE r.at \in {"queued", "toRerank", "toNode"} -> 2
    [] r.at \in {"lookup", "rerank", "node"} -> 1
    [] r.at = "embed" -> PoolTimeout + SearchTime(Searches) + 5
    [] r.at = "branches" -> (PoolTimeout - r.age) + Pending(r.dense) + Pending(r.lexical)
                              + SearchTime(Searches) + 2
    [] r.at = "paths" -> IF r.searches > 0 THEN SearchTime(r.searches) - r.age + 1 ELSE 1
    [] OTHER -> 0

Nearer(new, old) ==
  \/ QueriesLeft(new) < QueriesLeft(old)
  \/ QueriesLeft(new) = QueriesLeft(old) /\ StageLeft(new) < StageLeft(old)

\* A call that goes on comes nearer to its end; only that its coroutine is
\* cancelled, and time while it waits for a thread or its thread computes, leave
\* it where it is.
CallAdvances ==
  \A c \in Calls :
    \/ call[c].at \in Resting
    \/ call'[c] = call[c] /\ (Tick => call[c].at \notin {"branches", "paths"})
    \/ call'[c] = [call[c] EXCEPT !.attached = FALSE] /\ Cancel(c)
    \/ Nearer(call'[c], call[c])

LEMMA SearchTimes ==
  ASSUME NEW n \in 0 .. Searches
  PROVE  /\ SearchTime(n) \in Nat
         /\ SearchTime(n) <= SearchTime(Searches)
         /\ n > 0 => SearchTime(n) = SearchTime(n - 1) + PoolTimeout + 1
         /\ n > 0 => SearchTime(n) >= PoolTimeout + 1
<1>1. n \in Nat /\ Searches \in Nat /\ PoolTimeout \in Nat /\ n <= Searches
  BY RetrievalAssumption
<1>2. ASSUME NEW a \in Nat, NEW b \in Nat, NEW p \in Nat
      PROVE  /\ a * (p + 1) \in Nat
             /\ a <= b => a * (p + 1) <= b * (p + 1)
             /\ a > 0 => a * (p + 1) = (a - 1) * (p + 1) + p + 1
             /\ a > 0 => a * (p + 1) >= p + 1
  OBVIOUS
<1>. QED
  BY <1>1, <1>2 DEF SearchTime

\* How far a call is from its end is a number, and only one at rest is there.
LEMMA StageBounds ==
  ASSUME NEW r \in Call
  PROVE  /\ QueriesLeft(r) \in 0 .. Queries + 1
         /\ StageLeft(r) \in 0 .. PoolTimeout + SearchTime(Searches) + 5
         /\ r.at \notin Resting => StageLeft(r) > 0
<1>1. /\ r.at \in Resting \cup Retrieving \cup Reranking \cup Ungated
      /\ r.left \in 0 .. Queries /\ r.age \in 0 .. PoolTimeout
      /\ r.searches \in 0 .. Searches
      /\ Queries \in Nat \ {0} /\ PoolTimeout \in Nat \ {0} /\ Searches \in Nat \ {0}
  BY RetrievalAssumption DEF Call
<1>2. QueriesLeft(r) \in 0 .. Queries + 1
  BY <1>1 DEF QueriesLeft
<1>3. Pending(r.dense) \in 0 .. 1 /\ Pending(r.lexical) \in 0 .. 1
  BY DEF Pending
<1>4. SearchTime(Searches) \in Nat /\ SearchTime(r.searches) \in Nat
  BY <1>1, SearchTimes
<1>5. /\ SearchTime(r.searches) <= SearchTime(Searches)
      /\ r.searches > 0 => SearchTime(r.searches) >= PoolTimeout + 1
  BY <1>1, SearchTimes
<1>6. StageLeft(r) \in 0 .. PoolTimeout + SearchTime(Searches) + 5
  BY <1>1, <1>3, <1>4, <1>5 DEF StageLeft
<1>7. r.at \notin Resting => StageLeft(r) > 0
  BY <1>1, <1>3, <1>4, <1>5 DEF StageLeft, Retrieving, Reranking, Ungated
<1>. QED
  BY <1>2, <1>6, <1>7

LEMMA CallNearer ==
  ASSUME Typed, Sounds, NEW c \in Calls, Enters(c) \/ Continues(c)
  PROVE  /\ \A d \in Calls : d # c => call'[d] = call[d]
         /\ \/ call[c].at \in Resting
            \/ call'[c] = call[c]
            \/ call'[c] = [call[c] EXCEPT !.attached = FALSE] /\ Cancel(c)
            \/ Nearer(call'[c], call[c])
<1>1. PICK r, j : r = call[c] /\ j = job[c] /\ r \in Call /\ Sound(r, j)
  BY DEF Typed, TypeOK, Sounds
<1>2. /\ r.left \in 0 .. Queries /\ r.age \in 0 .. PoolTimeout
      /\ r.searches \in 0 .. Searches
      /\ Queries \in Nat \ {0} /\ PoolTimeout \in Nat \ {0} /\ Searches \in Nat \ {0}
      /\ SearchTime(Searches) \in Nat
  <2>1. SearchTime(Searches) \in Nat
    BY RetrievalAssumption, SearchTimes
  <2>. QED
    BY <2>1, <1>1, RetrievalAssumption DEF Call
<1>3. \A s : Becomes(c, s) =>
        call'[c] = s /\ \A d \in Calls : d # c => call'[d] = call[d]
  BY DEF Becomes, Typed, TypeOK
<1>4. ASSUME NEW s, Becomes(c, s), Nearer(s, r) PROVE Nearer(call'[c], call[c])
  BY <1>1, <1>3, <1>4
<1>5. ASSUME NEW s, s.at \in Resting, s.left = 0, r.at \notin Resting PROVE Nearer(s, r)
  <2>1. QueriesLeft(s) = 0 /\ StageLeft(s) = 0
    BY <1>5 DEF QueriesLeft, StageLeft, Resting
  <2>2. QueriesLeft(r) \in Nat /\ StageLeft(r) \in Nat /\ StageLeft(r) > 0
    BY <1>1, <1>2, <1>5, StageBounds
  <2>. QED
    BY <2>1, <2>2 DEF Nearer
<1>6. /\ Idle.at \in Resting /\ Idle.left = 0
      /\ \A g : Answered(c, g).at \in Resting /\ Answered(c, g).left = 0
      /\ Failed.at \in Resting /\ Failed.left = 0
  BY DEF Idle, Answered, Failed, Resting
<1>7. CASE Enters(c)
  BY <1>3, <1>7 DEF Enters, Ask, AskRerank, AskNode, Enter
<1>8. CASE Begin(c)
  <2>1. PICK v \in {disk.manifest, Unknown} :
          r.at = "queued" /\ Becomes(c, [r EXCEPT !.at = "lookup", !.key = v])
    BY <1>1, <1>8 DEF Begin
  <2>2. Nearer([r EXCEPT !.at = "lookup", !.key = v], r)
    BY <1>1, <1>2, <2>1 DEF Call, Nearer, QueriesLeft, StageLeft
  <2>. QED
    BY <1>3, <1>4, <2>1, <2>2
<1>9. CASE BeginRerank(c) \/ BeginNode(c)
  <2>1. PICK stage \in {"rerank", "node"} :
          r.at \in {"toRerank", "toNode"} /\ Becomes(c, [r EXCEPT !.at = stage])
    BY <1>1, <1>9 DEF BeginRerank, BeginNode
  <2>2. Nearer([r EXCEPT !.at = stage], r)
    BY <1>1, <1>2, <2>1 DEF Call, Nearer, QueriesLeft, StageLeft
  <2>. QED
    BY <1>3, <1>4, <2>1, <2>2
<1>10. CASE Hit(c) \/ LaunchFails(c) \/ Reranked(c) \/ NodeEnds(c)
              \/ AdapterTimesOut(c) \/ PathsFail(c)
  <2>1. r.at \notin Resting
    BY <1>1, <1>10 DEF Hit, LaunchFails, Reranked, NodeEnds, AdapterTimesOut, AdapterDue,
       PathsFail, UsesDatabase, Resting
  <2>2. PICK s : Becomes(c, s) /\ s.at \in Resting /\ s.left = 0
    BY <1>6, <1>10 DEF Hit, LaunchFails, Reranked, NodeEnds, AdapterTimesOut, PathsFail
  <2>. QED
    BY <1>3, <1>4, <1>5, <2>1, <2>2
<1>11. CASE Miss(c)
  <2>1. PICK n \in 1 .. Queries : Becomes(c, [r EXCEPT !.at = "embed", !.left = n])
    BY <1>1, <1>11 DEF Miss
  <2>2. r.at = "lookup"
    BY <1>1, <1>11 DEF Miss
  <2>3. Nearer([r EXCEPT !.at = "embed", !.left = n], r)
    BY <1>1, <1>2, <2>2 DEF Call, Nearer, QueriesLeft
  <2>. QED
    BY <1>3, <1>4, <2>1, <2>3
<1>12. CASE Launch(c)
  <2>1. PICK s : s = Launched(r)
    OBVIOUS
  <2>2. r.at = "embed" /\ Becomes(c, s)
    BY <1>1, <1>12, <2>1 DEF Launch, Launched
  <2>3. /\ s.at = "branches" /\ s.left = r.left /\ s.age = 0
        /\ s.dense = "pending" /\ s.lexical = "pending"
    BY <1>1, <2>1 DEF Call, Launched
  <2>4. Nearer(s, r)
    BY <1>2, <2>2, <2>3 DEF Nearer, QueriesLeft, StageLeft, Pending
  <2>. QED
    BY <1>3, <1>4, <2>2, <2>4
<1>13. ASSUME NEW x, NEW y, Becomes(c, [r EXCEPT !.dense = x, !.lexical = y]),
              r.at = "branches", Pending(x) + Pending(y) < Pending(r.dense) + Pending(r.lexical)
       PROVE  Nearer(call'[c], call[c])
  <2>. DEFINE s == [r EXCEPT !.dense = x, !.lexical = y]
  <2>1. /\ s.at = r.at /\ s.left = r.left /\ s.age = r.age
        /\ s.dense = x /\ s.lexical = y
    BY <1>1 DEF Call
  <2>. HIDE DEF s
  <2>2. Pending(x) \in Nat /\ Pending(y) \in Nat
        /\ Pending(r.dense) \in Nat /\ Pending(r.lexical) \in Nat
    BY DEF Pending
  <2>3. Nearer(s, r)
    BY <1>2, <1>13, <2>1, <2>2 DEF Nearer, QueriesLeft, StageLeft
  <2>. QED
    BY <1>4, <1>13, <2>3 DEF s
<1>14. CASE DenseEnds(c) \/ DenseTimesOut(c)
  <2>1. r.dense = "pending"
    BY <1>1, <1>14 DEF DenseEnds, DenseTimesOut, DenseDue
  <2>2. PICK x \in {"ok", "failed"} : Becomes(c, [r EXCEPT !.dense = x, !.lexical = r.lexical])
    BY <1>1, <1>14 DEF DenseEnds, DenseTimesOut, Set
  <2>3. r.at = "branches"
    BY <1>1, <2>1 DEF Sound
  <2>4. Pending(x) + Pending(r.lexical) < Pending(r.dense) + Pending(r.lexical)
    BY <2>1 DEF Pending
  <2>. QED
    BY <1>3, <1>13, <2>2, <2>3, <2>4
<1>15. CASE LexicalEnds(c) \/ LexicalTimesOut(c)
  <2>1. r.lexical = "pending"
    BY <1>1, <1>15 DEF LexicalEnds, LexicalTimesOut, LexicalDue, Sound
  <2>2. PICK y \in {"ok", "failed"} : Becomes(c, [r EXCEPT !.dense = r.dense, !.lexical = y])
    BY <1>1, <1>15 DEF LexicalEnds, LexicalTimesOut, Set
  <2>3. r.at = "branches"
    BY <1>1, <2>1 DEF Sound
  <2>4. Pending(r.dense) + Pending(y) < Pending(r.dense) + Pending(r.lexical)
    BY <2>1 DEF Pending
  <2>. QED
    BY <1>3, <1>13, <2>2, <2>3, <2>4
<1>16. CASE Gather(c)
  <2>1. r.at = "branches"
    BY <1>1, <1>16 DEF Gather, Gathered
  <2>2. CASE Becomes(c, Failed)
    BY <1>3, <1>4, <1>5, <1>6, <2>1, <2>2 DEF Resting
  <2>3. ASSUME NEW n \in 0 .. Searches, Becomes(c, Collected(r, n))
        PROVE  Nearer(call'[c], call[c])
    <3>1. PICK s : s = Collected(r, n)
      OBVIOUS
    <3>2. s.at = "paths" /\ s.left = r.left /\ s.age = 0 /\ s.searches = n
      BY <1>1, <3>1 DEF Call, Collected
    <3>3. /\ SearchTime(n) \in Nat /\ SearchTime(n) <= SearchTime(Searches)
          /\ Pending(r.dense) \in Nat /\ Pending(r.lexical) \in Nat
      BY SearchTimes DEF Pending
    <3>4. Nearer(s, r)
      BY <1>2, <2>1, <3>2, <3>3 DEF Nearer, QueriesLeft, StageLeft
    <3>. QED
      BY <1>3, <1>4, <2>3, <3>1, <3>4
  <2>4. Auxiliary(c) \subseteq 0 .. Searches
    BY <1>2 DEF Auxiliary
  <2>5. Becomes(c, Failed) \/ \E n \in Auxiliary(c) : Becomes(c, Collected(r, n))
    BY <1>1, <1>16 DEF Gather, Collected
  <2>. QED
    BY <1>3, <2>2, <2>3, <2>4, <2>5
<1>161. CASE SearchEnds(c)
  <2>1. PICK s : s = NextSearch(r)
    OBVIOUS
  <2>2. r.at = "paths" /\ r.searches > 0 /\ Becomes(c, s)
    BY <1>1, <1>161, <2>1 DEF SearchEnds, UsesDatabase, NextSearch
  <2>3. s.at = "paths" /\ s.left = r.left /\ s.age = 0 /\ s.searches = r.searches - 1
    BY <1>1, <2>1, <2>2 DEF Call, NextSearch
  <2>4. /\ SearchTime(r.searches) = SearchTime(r.searches - 1) + PoolTimeout + 1
        /\ SearchTime(r.searches - 1) \in Nat
    <3>1. r.searches - 1 \in 0 .. Searches
      BY <1>2, <2>2
    <3>. QED
      BY <1>2, <2>2, <3>1, SearchTimes
  <2>5. Nearer(s, r)
    BY <1>2, <2>2, <2>3, <2>4 DEF Nearer, QueriesLeft, StageLeft
  <2>. QED
    BY <1>3, <1>4, <2>2, <2>5
<1>17. CASE Fuse(c)
  <2>1. r.at = "paths"
    BY <1>1, <1>17 DEF Fuse
  <2>2. CASE Becomes(c, Answered(c, loaded))
    BY <1>3, <1>4, <1>5, <1>6, <2>1, <2>2 DEF Resting
  <2>3. CASE r.left > 1 /\ Becomes(c, Requeried(r))
    <3>1. PICK s : s = Requeried(r)
      OBVIOUS
    <3>2. s.at = "embed" /\ s.left = r.left - 1
      BY <1>1, <3>1 DEF Call, Requeried
    <3>3. Nearer(s, r)
      BY <1>2, <2>1, <2>3, <3>2 DEF Nearer, QueriesLeft
    <3>. QED
      BY <1>3, <1>4, <2>3, <3>1, <3>3
  <2>. QED
    BY <1>1, <1>17, <2>2, <2>3 DEF Fuse, Requeried
<1>18. CASE Cancel(c)
  <2>1. CASE r.at \in Waiting /\ Becomes(c, Idle)
    BY <1>3, <1>4, <1>5, <1>6, <2>1 DEF Waiting, Resting
  <2>2. CASE Becomes(c, [r EXCEPT !.attached = FALSE])
    BY <1>1, <1>3, <1>18, <2>2
  <2>. QED
    BY <1>1, <1>18, <2>1, <2>2 DEF Cancel
<1>19. CASE LexicalStarts(c)
  BY <1>19 DEF LexicalStarts
<1>. QED
  BY <1>7, <1>8, <1>9, <1>10, <1>11, <1>12, <1>14, <1>15, <1>16, <1>161, <1>17, <1>18,
     <1>19 DEF Continues, Proceed

LEMMA StepNearer == Typed /\ Sounds /\ [Next]_vars => [CallAdvances]_vars
<1>. SUFFICES ASSUME Typed, Sounds, Next PROVE CallAdvances
  OBVIOUS
<1>1. ASSUME NEW c \in Calls, UNCHANGED call, ~Tick
      PROVE  call'[c] = call[c] /\ (Tick => call[c].at \notin {"branches", "paths"})
  BY <1>1
<1>2. CASE Tick
  <2>1. ASSUME NEW c \in Calls, call[c].at \in {"branches", "paths"}
        PROVE  Nearer(call'[c], call[c])
    <3>1. PICK r : r = call[c] /\ r \in Call
      BY DEF Typed, TypeOK
    <3>2. /\ r.age \in 0 .. PoolTimeout /\ r.left \in 0 .. Queries
          /\ r.searches \in 0 .. Searches
          /\ PoolTimeout \in Nat \ {0}
      BY <3>1, RetrievalAssumption DEF Call
    <3>3. r.age < PoolTimeout /\ (r.at = "paths" => r.searches > 0)
      <4>1. ~AdapterDue(c) /\ (r.at = "paths" => UsesDatabase(c))
        BY <1>2, <3>1 DEF Tick, Prompt
      <4>. QED
        BY <2>1, <3>1, <3>2, <4>1 DEF AdapterDue, UsesDatabase
    <3>4. call'[c] = [r EXCEPT !.age = @ + 1]
      BY <1>2, <2>1, <3>1, <3>3 DEF Tick
    <3>5. PICK s : /\ s = call'[c] /\ s.at = r.at /\ s.left = r.left /\ s.age = r.age + 1
                   /\ s.dense = r.dense /\ s.lexical = r.lexical /\ s.searches = r.searches
      BY <3>1, <3>4 DEF Call
    <3>6. Nearer(s, r)
      <4>1. Pending(r.dense) \in Nat /\ Pending(r.lexical) \in Nat
        BY DEF Pending
      <4>2. SearchTime(Searches) \in Nat /\ SearchTime(r.searches) \in Nat
        BY <3>2, RetrievalAssumption, SearchTimes
      <4>. QED
        BY <2>1, <3>1, <3>2, <3>3, <3>5, <4>1, <4>2 DEF Nearer, QueriesLeft, StageLeft
    <3>. QED
      BY <3>1, <3>5, <3>6
  <2>2. ASSUME NEW c \in Calls, call[c].at \notin {"branches", "paths"}
        PROVE  call'[c] = call[c]
    BY <1>2, <2>2 DEF Tick
  <2>. QED
    BY <2>1, <2>2 DEF CallAdvances
<1>3. CASE ~Tick /\ \E c \in Calls : Enters(c) \/ Continues(c)
  BY <1>3, CallNearer DEF CallAdvances
<1>4. CASE Start \/ StrayEnds \/ Ingest \/ (\E g \in Generations : Expire(g))
  <2>1. UNCHANGED call
    BY <1>4 DEF Start, StrayEnds, Ingest, Expire
  <2>. QED
    BY <1>1, <1>2, <2>1 DEF CallAdvances
<1>5. CASE Stop
  <2>1. ASSUME NEW c \in Calls, call[c].at \notin Resting PROVE Nearer(call'[c], call[c])
    <3>1. PICK r : r = call[c] /\ r \in Call
      BY DEF Typed, TypeOK
    <3>2. PICK s : s = call'[c] /\ s.at = "idle" /\ s.left = 0
      BY <1>5 DEF Stop, Idle
    <3>3. QueriesLeft(s) = 0 /\ StageLeft(s) = 0
      BY <3>2 DEF QueriesLeft, StageLeft
    <3>4. /\ QueriesLeft(r) \in 0 .. Queries + 1
          /\ StageLeft(r) \in 0 .. PoolTimeout + SearchTime(Searches) + 5
          /\ StageLeft(r) > 0
      BY <2>1, <3>1, StageBounds
    <3>. QED
      BY <3>1, <3>2, <3>3, <3>4 DEF Nearer
  <2>. QED
    BY <2>1 DEF CallAdvances
<1>. QED
  BY <1>2, <1>3, <1>4, <1>5 DEF Next, Enters, Continues

\* A call of retrieve_multiple_queries is over after a bounded number of steps and
\* of units of time in which it waits for the database, though the database may
\* never answer: no query has more than StageLeft of them, one deadline of the
\* adapter for its branches and one for each of its auxiliary searches, and no call
\* more queries than it was given.
THEOREM CallBounded ==
  Spec => /\ [](\A c \in Calls :
                  /\ QueriesLeft(call[c]) \in 0 .. Queries + 1
                  /\ StageLeft(call[c]) \in 0 .. PoolTimeout + SearchTime(Searches) + 5)
          /\ [][CallAdvances]_vars
<1>1. Init => Sounds
  BY DEF Init, Sounds, Sound, Idle
<1>2. Typed => \A c \in Calls :
                 /\ QueriesLeft(call[c]) \in 0 .. Queries + 1
                 /\ StageLeft(call[c]) \in 0 .. PoolTimeout + SearchTime(Searches) + 5
  BY StageBounds DEF Typed, TypeOK
<1>. QED
  BY InitTyped, StepTyped, StepSound, StepNearer, <1>1, <1>2, PTL DEF Spec
-----------------------------------------------------------------------------
(***************************************************************************)
(* Threads.  Each gate admits Slots calls, a call has one thread and one   *)
(* lexical search at most: what the gates admit never needs more than      *)
(* three threads per slot.                                                 *)
(***************************************************************************)
Slotted ==
  /\ Cardinality(Admitted(Retrieving)) <= Slots
  /\ Cardinality(Admitted(Reranking)) <= Slots

\* A call takes no slot that it did not have.
Within(r, q) ==
  r.attached => /\ q.attached
                /\ r.at \in Retrieving => q.at \in Retrieving
                /\ r.at \in Reranking => q.at \in Reranking

LEMMA FiniteCalls ==
  ASSUME NEW S \in SUBSET Calls
  PROVE  IsFiniteSet(S) /\ Cardinality(S) \in Nat
BY RetrievalAssumption, FS_Subset, FS_CardinalityType

LEMMA WithinSlots ==
  ASSUME Slotted, \A c \in Calls : Within(call'[c], call[c])
  PROVE  Slotted'
<1>1. ASSUME NEW S \in {Retrieving, Reranking}
      PROVE  Cardinality(Admitted(S)') <= Cardinality(Admitted(S))
  <2>1. Admitted(S)' \subseteq Admitted(S) /\ Admitted(S) \subseteq Calls
    BY DEF Admitted, Attached, Within
  <2>. QED
    BY <2>1, FiniteCalls, FS_Subset
<1>2. /\ Admitted(Retrieving) \subseteq Calls /\ Admitted(Retrieving)' \subseteq Calls
      /\ Admitted(Reranking) \subseteq Calls /\ Admitted(Reranking)' \subseteq Calls
  BY DEF Admitted, Attached
<1>3. /\ Cardinality(Admitted(Retrieving)) \in Nat /\ Cardinality(Admitted(Retrieving)') \in Nat
      /\ Cardinality(Admitted(Reranking)) \in Nat /\ Cardinality(Admitted(Reranking)') \in Nat
  BY <1>2, FiniteCalls
<1>4. Cardinality(Admitted(Retrieving))' = Cardinality(Admitted(Retrieving)')
  OBVIOUS
<1>5. Cardinality(Admitted(Reranking))' = Cardinality(Admitted(Reranking)')
  OBVIOUS
<1>. QED
  BY <1>1, <1>3, <1>4, <1>5, RetrievalAssumption DEF Slotted

\* A call that passes its gate takes a slot of this gate and of no other; a node
\* without a gate takes none.
LEMMA EnterSlotted ==
  ASSUME Typed, Slotted, NEW c \in Calls, Enters(c)
  PROVE  Slotted'
<1>1. PICK stage \in {"queued", "toRerank", "toNode"} :
        /\ Enter(c, stage)
        /\ stage = "queued" => Cardinality(Admitted(Retrieving)) < Slots
        /\ stage = "toRerank" => Cardinality(Admitted(Reranking)) < Slots
  BY DEF Enters, Ask, AskRerank, AskNode
<1>2. call'[c].at = stage
  BY <1>1 DEF Enter, Becomes, Idle, Typed, TypeOK
<1>3. \A d \in Calls : d # c => call'[d] = call[d]
  BY <1>1 DEF Enter, Becomes, Typed, TypeOK
<1>4. call[c].at \notin Retrieving /\ call[c].at \notin Reranking
  BY <1>1 DEF Enter, Resting, Retrieving, Reranking
<1>5. ASSUME NEW S \in {Retrieving, Reranking}, stage \in S, Cardinality(Admitted(S)) < Slots
      PROVE  Cardinality(Admitted(S)') <= Slots
  <2>1. Admitted(S)' \subseteq Admitted(S) \cup {c} /\ Admitted(S) \subseteq Calls
    BY <1>3 DEF Admitted, Attached
  <2>2. /\ Cardinality(Admitted(S) \cup {c}) <= Cardinality(Admitted(S)) + 1
        /\ IsFiniteSet(Admitted(S) \cup {c}) /\ Cardinality(Admitted(S)) \in Nat
        /\ Cardinality(Admitted(S) \cup {c}) \in Nat
    BY <2>1, FiniteCalls, FS_AddElement, FS_CardinalityType
  <2>3. /\ Cardinality(Admitted(S)') <= Cardinality(Admitted(S) \cup {c})
        /\ Cardinality(Admitted(S)') \in Nat
    BY <2>1, <2>2, FS_Subset, FS_CardinalityType
  <2>. QED
    BY <1>5, <2>2, <2>3, RetrievalAssumption
<1>6. ASSUME NEW S \in {Retrieving, Reranking}, stage \notin S, Cardinality(Admitted(S)) <= Slots
      PROVE  Cardinality(Admitted(S)') <= Slots
  <2>1. Admitted(S)' = Admitted(S)
    BY <1>2, <1>3, <1>4, <1>6 DEF Admitted, Attached
  <2>. QED
    BY <1>6, <2>1
<1>7. CASE stage = "queued"
  BY <1>1, <1>5, <1>6, <1>7 DEF Slotted, Retrieving, Reranking
<1>8. CASE stage = "toRerank"
  BY <1>1, <1>5, <1>6, <1>8 DEF Slotted, Retrieving, Reranking
<1>9. CASE stage = "toNode"
  BY <1>6, <1>9 DEF Slotted, Retrieving, Reranking
<1>. QED
  BY <1>7, <1>8, <1>9

\* No other step takes a slot.
LEMMA CallSlotted ==
  ASSUME Typed, Slotted, NEW c \in Calls, Continues(c)
  PROVE  Slotted'
<1>1. call[c] \in Call /\ call \in [Calls -> Call]
  BY DEF Typed, TypeOK
<1>2. ASSUME NEW r, Becomes(c, r), Within(r, call[c]) PROVE Slotted'
  <2>1. \A d \in Calls : Within(call'[d], call[d])
    BY <1>1, <1>2 DEF Becomes, Within
  <2>. QED
    BY <2>1, WithinSlots
<1>3. /\ Within(Idle, call[c]) /\ Within(Failed, call[c])
      /\ \A g : Within(Answered(c, g), call[c])
  BY DEF Within, Idle, Failed, Answered
<1>4. CASE Begin(c)
  <2>1. PICK v \in {disk.manifest, Unknown} :
          Becomes(c, [call[c] EXCEPT !.at = "lookup", !.key = v])
    BY <1>4 DEF Begin
  <2>2. Within([call[c] EXCEPT !.at = "lookup", !.key = v], call[c])
    BY <1>1, <1>4 DEF Begin, Within, Call, Retrieving, Reranking
  <2>. QED
    BY <2>1, <2>2, <1>2
<1>41. CASE BeginNode(c) \/ NodeEnds(c)
  <2>1. Within([call[c] EXCEPT !.at = "node"], call[c])
    BY <1>1 DEF Within, Call, Retrieving, Reranking
  <2>. QED
    BY <2>1, <1>2, <1>3, <1>41 DEF BeginNode, NodeEnds
<1>5. CASE BeginRerank(c) \/ Reranked(c)
  <2>1. call[c].at = "toRerank" => Within([call[c] EXCEPT !.at = "rerank"], call[c])
    BY <1>1 DEF Within, Call, Retrieving, Reranking
  <2>. QED
    BY <2>1, <1>2, <1>3, <1>5 DEF BeginRerank, Reranked
<1>6. CASE Hit(c) \/ LaunchFails(c) \/ PathsFail(c) \/ AdapterTimesOut(c)
  BY <1>2, <1>3, <1>6 DEF Hit, LaunchFails, PathsFail, AdapterTimesOut
<1>7. CASE Miss(c)
  <2>1. PICK n \in 1 .. Queries : Becomes(c, [call[c] EXCEPT !.at = "embed", !.left = n])
    BY <1>7 DEF Miss
  <2>2. Within([call[c] EXCEPT !.at = "embed", !.left = n], call[c])
    BY <1>1, <1>7 DEF Miss, Within, Call, Retrieving, Reranking
  <2>. QED
    BY <2>1, <2>2, <1>2
<1>8. CASE Launch(c)
  <2>1. Within(Launched(call[c]), call[c])
    BY <1>1, <1>8 DEF Launch, Launched, Within, Call, Retrieving, Reranking
  <2>. QED
    BY <2>1, <1>2, <1>8 DEF Launch, Launched
<1>9. CASE Gather(c)
  <2>1. \A n : Within(Collected(call[c], n), call[c])
    BY <1>1, <1>9 DEF Gather, Gathered, Collected, Within, Call, Retrieving, Reranking
  <2>2. PICK r : Becomes(c, r) /\ Within(r, call[c])
    BY <2>1, <1>3, <1>9 DEF Gather, Collected
  <2>. QED
    BY <2>2, <1>2
<1>91. CASE SearchEnds(c)
  <2>1. Within(NextSearch(call[c]), call[c])
    BY <1>1 DEF NextSearch, Within, Call
  <2>. QED
    BY <2>1, <1>2, <1>91 DEF SearchEnds, NextSearch
<1>10. CASE Fuse(c)
  <2>1. Within(Requeried(call[c]), call[c])
    BY <1>1, <1>10 DEF Fuse, Requeried, Within, Call, Retrieving, Reranking
  <2>. QED
    BY <2>1, <1>2, <1>3, <1>10 DEF Fuse, Requeried
<1>11. CASE Cancel(c)
  <2>1. Within([call[c] EXCEPT !.attached = FALSE], call[c])
    BY <1>1 DEF Within, Call
  <2>. QED
    BY <2>1, <1>2, <1>3, <1>11 DEF Cancel
<1>12. ASSUME NEW d, NEW x, Set(c, d, x) PROVE Slotted'
  <2>1. Within([call[c] EXCEPT !.dense = d, !.lexical = x], call[c])
    BY <1>1 DEF Within, Call
  <2>. QED
    BY <2>1, <1>2, <1>12 DEF Set
<1>13. CASE DenseTimesOut(c) \/ LexicalTimesOut(c) \/ DenseEnds(c) \/ LexicalEnds(c)
  BY <1>12, <1>13 DEF DenseTimesOut, LexicalTimesOut, DenseEnds, LexicalEnds
<1>14. CASE LexicalStarts(c)
  BY <1>14 DEF LexicalStarts, Slotted, Admitted, Attached
<1>. QED
  BY <1>4, <1>41, <1>5, <1>6, <1>7, <1>8, <1>9, <1>91, <1>10, <1>11, <1>13, <1>14
     DEF Continues, Proceed

LEMMA StepSlotted == Typed /\ Slotted /\ [Next]_vars => Slotted'
<1>. SUFFICES ASSUME Typed, Slotted, [Next]_vars PROVE Slotted'
  OBVIOUS
<1>1. CASE \E c \in Calls : Enters(c)
  BY <1>1, EnterSlotted
<1>2. CASE \E c \in Calls : Continues(c)
  BY <1>2, CallSlotted
<1>3. CASE Start \/ StrayEnds \/ Ingest \/ (\E g \in Generations : Expire(g)) \/ UNCHANGED vars
  BY <1>3 DEF Start, StrayEnds, Ingest, Expire, vars, Slotted, Admitted, Attached
<1>4. CASE Stop
  <2>1. \A c \in Calls : Within(call'[c], call[c])
    BY <1>4 DEF Stop, Within, Idle
  <2>. QED
    BY <2>1, WithinSlots
<1>5. CASE Tick
  <2>1. ASSUME NEW c \in Calls PROVE Within(call'[c], call[c])
    <3>1. call[c] \in Call
      BY DEF Typed, TypeOK
    <3>2. call'[c] = call[c] \/ call'[c] = [call[c] EXCEPT !.age = @ + 1]
      BY <1>5 DEF Tick
    <3>. QED
      BY <3>1, <3>2 DEF Within, Call
  <2>. QED
    BY <2>1, WithinSlots
<1>. QED
  BY <1>1, <1>2, <1>3, <1>4, <1>5 DEF Next, Enters, Continues

\* Three disjoint claims on the executor: threads of calls that retrieve, threads
\* of calls that rerank, and lexical searches.
LEMMA ThreadsClaimed ==
  ASSUME Typed, Sounds, Slotted, strays = 0,
         \A d \in InThread : d \in Attached /\ call[d].at # "node",
         NEW c \in Attached, call[c].at \in Waiting \ Ungated \/ job[c] = "queued"
  PROVE  FreeThread
<1>. DEFINE R == {d \in InThread : call[d].at \in Retrieving}
            K == {d \in InThread : call[d].at \in Reranking}
            AR == Admitted(Retrieving)
            AK == Admitted(Reranking)
<1>1. /\ R \subseteq AR /\ K \subseteq AK /\ Running \subseteq R
      /\ InThread = R \cup K /\ R \cap K = {} /\ c \in Calls
      /\ AR \subseteq Calls /\ AK \subseteq Calls /\ InThread \subseteq Calls
  <2>1. Running \subseteq R
    BY DEF Running, InThread, Sounds, Sound, Threaded, Retrieving, Waiting
  <2>2. R \subseteq AR /\ K \subseteq AK
    BY DEF Admitted
  <2>. QED
    BY <2>1, <2>2 DEF InThread, Threaded, Admitted, Attached, Waiting,
       Retrieving, Reranking, Ungated
<1>2. /\ IsFiniteSet(R) /\ IsFiniteSet(K) /\ IsFiniteSet(Running)
      /\ IsFiniteSet(AR) /\ IsFiniteSet(AK)
      /\ Cardinality(R) \in Nat /\ Cardinality(K) \in Nat /\ Cardinality(Running) \in Nat
      /\ Cardinality(AR) \in Nat /\ Cardinality(AK) \in Nat
  <2>1. R \subseteq Calls /\ K \subseteq Calls /\ Running \subseteq Calls
    BY <1>1
  <2>. QED
    BY <2>1, <1>1, FiniteCalls
<1>3. Cardinality(InThread) = Cardinality(R) + Cardinality(K)
  <2>1. Cardinality(R \cup K) = Cardinality(R) + Cardinality(K) - Cardinality(R \cap K)
    BY <1>2, FS_Union
  <2>2. R \cap K = {} /\ Cardinality({}) = 0 /\ InThread = R \cup K
    BY <1>1, FS_EmptySet
  <2>. HIDE DEF R, K
  <2>3. Cardinality(R \cap K) = 0
    BY <2>2
  <2>4. Cardinality(InThread) = Cardinality(R \cup K)
    BY <2>2
  <2>5. Cardinality(R) \in Nat /\ Cardinality(K) \in Nat
    BY <1>2
  <2>. QED
    BY <2>1, <2>3, <2>4, <2>5
<1>4. ASSUME NEW S, NEW T \in SUBSET S, IsFiniteSet(S)
      PROVE  /\ Cardinality(T) \in Nat /\ Cardinality(S) \in Nat
             /\ Cardinality(T) <= Cardinality(S)
             /\ Cardinality(T) = Cardinality(S) => T = S
  BY <1>4, FS_Subset, FS_CardinalityType
<1>5. /\ Cardinality(R) <= Cardinality(AR) /\ Cardinality(K) <= Cardinality(AK)
      /\ Cardinality(Running) <= Cardinality(R)
      /\ Cardinality(R) = Cardinality(AR) => R = AR
      /\ Cardinality(K) = Cardinality(AK) => K = AK
      /\ Cardinality(Running) = Cardinality(R) => Running = R
  BY <1>1, <1>2, <1>4
<1>6. R # AR \/ K # AK \/ Running # R
  <2>1. CASE call[c].at \in Waiting \ Ungated
    <3>1. c \notin InThread /\ (c \in AR \/ c \in AK)
      BY <2>1, <1>1 DEF Waiting, InThread, Threaded, Admitted, Retrieving, Reranking, Ungated
    <3>. QED
      BY <3>1
  <2>2. CASE job[c] = "queued"
    <3>1. call[c].at = "branches" /\ c \notin Running
      BY <2>2, <1>1 DEF Sounds, Sound, Running
    <3>2. c \in R
      BY <3>1, <1>1 DEF InThread, Threaded, Retrieving, Waiting
    <3>. QED
      BY <3>1, <3>2
  <2>. QED
    BY <2>1, <2>2
<1>7. /\ Cardinality(AR) <= Slots /\ Cardinality(AK) <= Slots
      /\ Slots \in Nat /\ Threads \in Nat /\ 3 * Slots <= Threads
  BY RetrievalAssumption, ThreadAssumption DEF Slotted
<1>. HIDE DEF R, K, AR, AK
<1>8. Cardinality(R) + Cardinality(K) + Cardinality(Running) < 3 * Slots
  BY <1>2, <1>5, <1>6, <1>7
<1>. QED
  BY <1>2, <1>3, <1>7, <1>8 DEF FreeThread

\* With three threads for each slot, calls and their lexical searches wait for a
\* thread only while threads work for nobody or for a node that passed no gate: an
\* executor that is full of calls waiting for each other's searches cannot come
\* about.
THEOREM ThreadsSuffice == Spec => []StarvedByUngated
<1>1. Init => Sounds
  BY DEF Init, Sounds, Sound, Idle
<1>2. Init => Slotted
  <2>. SUFFICES ASSUME Init PROVE Slotted
    OBVIOUS
  <2>1. Admitted(Retrieving) = {} /\ Admitted(Reranking) = {}
    BY DEF Init, Admitted, Attached, Idle
  <2>. QED
    BY <2>1, FS_EmptySet, RetrievalAssumption DEF Slotted
<1>3. Typed /\ Sounds /\ Slotted => StarvedByUngated
  <2>1. ASSUME Typed, Sounds, Slotted, NEW c \in Attached,
               call[c].at \in Waiting \ Ungated \/ job[c] = "queued", ~FreeThread
        PROVE  strays > 0 \/ \E d \in InThread : d \notin Attached \/ call[d].at = "node"
    <3>1. strays \in Nat
      BY <2>1 DEF Typed, TypeOK
    <3>2. strays # 0 \/ ~(\A d \in InThread : d \in Attached /\ call[d].at # "node")
      BY <2>1, ThreadsClaimed
    <3>. QED
      BY <3>1, <3>2
  <2>. QED
    BY <2>1 DEF StarvedByUngated
<1>. QED
  BY InitTyped, StepTyped, StepSound, StepSlotted, <1>1, <1>2, <1>3, PTL DEF Spec
-----------------------------------------------------------------------------
(***************************************************************************)
(* Sequences in order.                                                     *)
(***************************************************************************)
StrictOrder(before, I) ==
  /\ \A i \in I : <<i, i>> \notin before
  /\ \A i, j \in I : i # j => <<i, j>> \in before \/ <<j, i>> \in before
  /\ \A i, j, k \in I : <<i, j>> \in before /\ <<j, k>> \in before => <<i, k>> \in before

Predecessors(i, I, before) == {j \in I : <<j, i>> \in before}

\* The place of each element, its number of predecessors, is its own.
LEMMA Predecession ==
  ASSUME NEW I, IsFiniteSet(I), NEW before, StrictOrder(before, I)
  PROVE  /\ \A i \in I : Cardinality(Predecessors(i, I, before)) \in 0 .. Cardinality(I) - 1
         /\ \A i, j \in I : <<i, j>> \in before =>
              Cardinality(Predecessors(i, I, before)) < Cardinality(Predecessors(j, I, before))
<1>. DEFINE P(i) == Predecessors(i, I, before)
<1>1. ASSUME NEW i \in I
      PROVE  /\ IsFiniteSet(P(i)) /\ IsFiniteSet(P(i) \cup {i})
             /\ Cardinality(P(i)) \in Nat
             /\ Cardinality(P(i) \cup {i}) = Cardinality(P(i)) + 1
  <2>1. P(i) \in SUBSET I /\ i \notin P(i)
    BY <1>1 DEF Predecessors, StrictOrder
  <2>2. IsFiniteSet(P(i))
    BY <2>1, FS_Subset
  <2>. QED
    BY <2>1, <2>2, FS_AddElement, FS_CardinalityType
<1>2. ASSUME NEW i \in I PROVE Cardinality(P(i)) \in 0 .. Cardinality(I) - 1
  <2>1. P(i) \cup {i} \in SUBSET I
    BY <1>2 DEF Predecessors
  <2>2. Cardinality(P(i) \cup {i}) <= Cardinality(I)
    BY <2>1, FS_Subset
  <2>3. Cardinality(I) \in Nat
    BY FS_CardinalityType
  <2>. QED
    BY <1>1, <2>2, <2>3
<1>3. ASSUME NEW i \in I, NEW j \in I, <<i, j>> \in before
      PROVE  Cardinality(P(i)) < Cardinality(P(j))
  <2>1. P(i) \cup {i} \in SUBSET P(j)
    BY <1>3 DEF Predecessors, StrictOrder
  <2>2. Cardinality(P(i) \cup {i}) <= Cardinality(P(j))
    BY <1>1, <2>1, FS_Subset
  <2>3. Cardinality(P(j)) \in Nat
    BY <1>1
  <2>. QED
    BY <1>1, <2>2, <2>3
<1>. QED
  BY <1>2, <1>3

\* Arranged puts every element of a finite set at a place, in the given order.
LEMMA ArrangedInOrder ==
  ASSUME NEW I, IsFiniteSet(I), NEW before, StrictOrder(before, I)
  PROVE  /\ Cardinality(I) \in Nat
         /\ Arranged(I, before) \in [1 .. Cardinality(I) -> I]
         /\ \A i \in I : \E k \in 1 .. Cardinality(I) : Arranged(I, before)[k] = i
         /\ \A k, l \in 1 .. Cardinality(I) :
              k < l => <<Arranged(I, before)[k], Arranged(I, before)[l]>> \in before
<1>. DEFINE P(i) == Cardinality(Predecessors(i, I, before))
            place == [i \in I |-> P(i) + 1]
            order == Arranged(I, before)
<1>1. Cardinality(I) \in Nat
  BY FS_CardinalityType
<1>2. \A i \in I : P(i) \in 0 .. Cardinality(I) - 1
  BY Predecession
<1>3. \A i, j \in I : <<i, j>> \in before => P(i) < P(j)
  BY Predecession
<1>4. \A i, j \in I : P(i) = P(j) => i = j
  <2>. HIDE DEF P
  <2>. SUFFICES ASSUME NEW i \in I, NEW j \in I, P(i) = P(j), i # j PROVE FALSE
    OBVIOUS
  <2>1. P(i) \in 0 .. Cardinality(I) - 1
    BY <1>2
  <2>2. ~ (P(i) < P(j)) /\ ~ (P(j) < P(i))
    BY <1>1, <2>1
  <2>. QED
    BY <1>3, <2>2 DEF StrictOrder
<1>5. place \in Injection(I, 1 .. Cardinality(I))
  <2>1. place \in [I -> 1 .. Cardinality(I)]
    BY <1>1, <1>2
  <2>2. \A i, j \in I : place[i] = place[j] => i = j
    BY <1>2, <1>4
  <2>. QED
    BY <2>1, <2>2 DEF Injection, IsInjective
<1>6. place \in Surjection(I, 1 .. Cardinality(I))
  <2>1. IsFiniteSet(1 .. Cardinality(I)) /\ Cardinality(1 .. Cardinality(I)) = Cardinality(I)
    BY <1>1, FS_Interval
  <2>. QED
    BY <1>5, <2>1, FS_Injection
<1>7. \A k \in 1 .. Cardinality(I) : order[k] \in I /\ P(order[k]) = k - 1
  <2>. SUFFICES ASSUME NEW k \in 1 .. Cardinality(I)
                PROVE  order[k] \in I /\ P(order[k]) = k - 1
    OBVIOUS
  <2>1. \E i \in I : P(i) = k - 1
    <3>1. PICK i \in I : place[i] = k
      BY <1>6 DEF Surjection
    <3>. QED
      BY <1>2, <3>1
  <2>2. order[k] = CHOOSE i \in I : P(i) = k - 1
    BY DEF Arranged, Predecessors
  <2>. HIDE DEF P
  <2>. QED
    BY <2>1, <2>2
<1>8. order \in [1 .. Cardinality(I) -> I]
  BY <1>7 DEF Arranged
<1>9. ASSUME NEW i \in I PROVE \E k \in 1 .. Cardinality(I) : order[k] = i
  <2>1. P(i) + 1 \in 1 .. Cardinality(I)
    BY <1>1, <1>2
  <2>2. order[P(i) + 1] \in I /\ P(order[P(i) + 1]) = P(i)
    BY <1>2, <1>7, <2>1
  <2>. QED
    BY <1>4, <2>1, <2>2
<1>10. ASSUME NEW k \in 1 .. Cardinality(I), NEW l \in 1 .. Cardinality(I), k < l
       PROVE  <<order[k], order[l]>> \in before
  <2>1. order[k] \in I /\ order[l] \in I /\ P(order[k]) = k - 1 /\ P(order[l]) = l - 1
    BY <1>7
  <2>2. order[k] # order[l] /\ ~ (P(order[l]) < P(order[k]))
    BY <1>10, <2>1
  <2>. QED
    BY <1>3, <2>1, <2>2 DEF StrictOrder
<1>. QED
  BY <1>1, <1>8, <1>9, <1>10

\* What Rearranged leaves of a sequence.
Order(r, s, I, before, order) ==
  /\ order \in [1 .. Len(r) -> I]
  /\ \A i \in I : \E k \in 1 .. Len(r) : order[k] = i
  /\ \A k, l \in 1 .. Len(r) : k < l => <<order[k], order[l]>> \in before
  /\ \A k \in 1 .. Len(r) : r[k] = s[order[k]]

LEMMA RearrangedInOrder ==
  ASSUME NEW S, NEW s \in Seq(S), NEW I \in SUBSET (1 .. Len(s)),
         NEW before, StrictOrder(before, I)
  PROVE  /\ Rearranged(s, I, before) \in Seq(S)
         /\ Len(Rearranged(s, I, before)) = Cardinality(I)
         /\ \E order : Order(Rearranged(s, I, before), s, I, before, order)
<1>. DEFINE order == Arranged(I, before)
            r == Rearranged(s, I, before)
<1>1. IsFiniteSet(I)
  <2>1. IsFiniteSet(1 .. Len(s))
    BY FS_Interval
  <2>. QED
    BY <2>1, FS_Subset
<1>2. /\ Cardinality(I) \in Nat
      /\ order \in [1 .. Cardinality(I) -> I]
      /\ \A i \in I : \E k \in 1 .. Cardinality(I) : order[k] = i
      /\ \A k, l \in 1 .. Cardinality(I) : k < l => <<order[k], order[l]>> \in before
  BY <1>1, ArrangedInOrder
<1>. HIDE DEF order
<1>3. r = [k \in 1 .. Cardinality(I) |-> s[order[k]]]
  BY <1>2 DEF Rearranged, order
<1>4. \A k \in 1 .. Cardinality(I) : s[order[k]] \in S
  <2>. SUFFICES ASSUME NEW k \in 1 .. Cardinality(I) PROVE s[order[k]] \in S
    OBVIOUS
  <2>1. order[k] \in I
    BY <1>2
  <2>2. order[k] \in 1 .. Len(s)
    BY <2>1
  <2>. QED
    BY <2>2
<1>. HIDE DEF r
<1>5. r \in Seq(S) /\ Len(r) = Cardinality(I)
  BY <1>2, <1>3, <1>4
<1>6. Order(r, s, I, before, order)
  BY <1>2, <1>3, <1>5 DEF Order
<1>. QED
  BY <1>5, <1>6 DEF r

\* Every set of numbers that is not empty has a smallest member.
LEMMA SmallestMember ==
  ASSUME NEW S \in SUBSET Nat, S # {}
  PROVE  Min(S) \in S /\ \A y \in S : Min(S) <= y
<1>1. PICK x \in S : \A y \in S : ~ (<<y, x>> \in OpToRel(<, Nat))
  BY WFMin, NatLessThanWellFounded, Zenon
<1>2. ASSUME NEW y \in S, y < x PROVE FALSE
  <2>1. <<y, x>> \in Nat \X Nat
    OBVIOUS
  <2>2. <<y, x>> \in OpToRel(<, Nat)
    BY <1>2, <2>1 DEF OpToRel
  <2>. QED
    BY <1>1, <2>2
<1>3. \A y \in S : x <= y
  BY <1>2
<1>. QED
  BY <1>3 DEF Min

LEMMA CutLength ==
  ASSUME NEW S, NEW s \in Seq(S), NEW n \in Nat
  PROVE  /\ Cut(s, n) \in Seq(S)
         /\ Len(Cut(s, n)) = IF n <= Len(s) THEN n ELSE Len(s)
         /\ \A k \in 1 .. Len(Cut(s, n)) : Cut(s, n)[k] = s[k]
<1>1. Min({n, Len(s)}) \in {n, Len(s)} /\ \A y \in {n, Len(s)} : Min({n, Len(s)}) <= y
  BY SmallestMember
<1>2. PICK m \in Nat : m = Min({n, Len(s)})
  BY <1>1
<1>3. m = IF n <= Len(s) THEN n ELSE Len(s)
  BY <1>1, <1>2
<1>4. Cut(s, n) = SubSeq(s, 1, m)
  BY <1>2 DEF Cut
<1>5. /\ SubSeq(s, 1, m) \in Seq(S) /\ Len(SubSeq(s, 1, m)) = m
      /\ \A k \in 1 .. m : SubSeq(s, 1, m)[k] = s[k]
  BY <1>3
<1>. QED
  BY <1>3, <1>4, <1>5

\* An increasing sequence of positions is never ahead of its own.
LEMMA Increase ==
  ASSUME NEW n \in Nat, NEW m \in Nat, NEW order \in [1 .. n -> 1 .. m],
         \A k, l \in 1 .. n : k < l => order[k] < order[l],
         NEW k \in 1 .. n
  PROVE  k <= order[k]
<1>1. order[k] \in 1 .. m
  OBVIOUS
<1>2. [l \in 1 .. k |-> order[l]] \in Injection(1 .. k, 1 .. order[k])
  <2>. DEFINE f == [l \in 1 .. k |-> order[l]]
  <2>1. ASSUME NEW l \in 1 .. k PROVE order[l] \in 1 .. order[k]
    <3>1. order[l] \in 1 .. m /\ order[k] \in 1 .. m
      OBVIOUS
    <3>2. l < k => order[l] < order[k]
      OBVIOUS
    <3>3. l = k \/ l < k
      OBVIOUS
    <3>. QED
      BY <3>1, <3>2, <3>3
  <2>2. ASSUME NEW i \in 1 .. k, NEW j \in 1 .. k, f[i] = f[j] PROVE i = j
    <3>1. order[i] = order[j] /\ order[i] \in 1 .. m /\ order[j] \in 1 .. m
      BY <2>2
    <3>2. ~ (i < j) /\ ~ (j < i)
      BY <3>1
    <3>. QED
      BY <3>2
  <2>. QED
    BY <2>1, <2>2 DEF Injection, IsInjective
<1>3. IsFiniteSet(1 .. order[k]) /\ Cardinality(1 .. order[k]) = order[k]
      /\ Cardinality(1 .. k) = k
  BY <1>1, FS_Interval
<1>. QED
  BY <1>1, <1>2, <1>3, FS_Injection

LEMMA PairsOf == \A I, i, j : <<i, j>> \in Pairs(I) <=> i \in I /\ j \in I
<1>. SUFFICES ASSUME NEW I, NEW i, NEW j
              PROVE  <<i, j>> \in Pairs(I) <=> i \in I /\ j \in I
  OBVIOUS
<1>1. ASSUME i \in I, j \in I PROVE <<i, j>> \in Pairs(I)
  BY <1>1 DEF Pairs
<1>2. ASSUME <<i, j>> \in Pairs(I) PROVE i \in I /\ j \in I
  <2>1. PICK a \in I, b \in I : <<i, j>> = <<a, b>>
    BY <1>2 DEF Pairs
  <2>2. i = a /\ j = b
    BY <2>1
  <2>. QED
    BY <2>2
<1>. QED
  BY <1>1, <1>2

\* Pick keeps the order.
Kept(r, s, I, order) ==
  /\ order \in [1 .. Len(r) -> I]
  /\ \A i \in I : \E k \in 1 .. Len(r) : order[k] = i
  /\ \A k, l \in 1 .. Len(r) : k < l => order[k] < order[l]
  /\ \A k \in 1 .. Len(r) : r[k] = s[order[k]]

LEMMA PickKeeps ==
  ASSUME NEW S, NEW s \in Seq(S), NEW I \in SUBSET (1 .. Len(s))
  PROVE  /\ Pick(s, I) \in Seq(S)
         /\ Len(Pick(s, I)) = Cardinality(I)
         /\ \E order : Kept(Pick(s, I), s, I, order)
<1>. DEFINE before == {p \in Pairs(I) : p[1] < p[2]}
<1>1. \A i, j : <<i, j>> \in before <=> i \in I /\ j \in I /\ i < j
  BY PairsOf
<1>2. StrictOrder(before, I)
  <2>. HIDE DEF before
  <2>1. I \subseteq Int
    OBVIOUS
  <2>. QED
    BY <1>1, <2>1 DEF StrictOrder
<1>3. Pick(s, I) = Rearranged(s, I, before)
  BY DEF Pick
<1>. HIDE DEF before
<1>4. /\ Rearranged(s, I, before) \in Seq(S)
      /\ Len(Rearranged(s, I, before)) = Cardinality(I)
      /\ \E order : Order(Rearranged(s, I, before), s, I, before, order)
  BY <1>2, RearrangedInOrder
<1>5. PICK order : Order(Rearranged(s, I, before), s, I, before, order)
  BY <1>4
<1>6. Kept(Rearranged(s, I, before), s, I, order)
  BY <1>1, <1>5 DEF Kept, Order
<1>. QED
  BY <1>3, <1>4, <1>6

\* FirstOf has the first of all elements with the same key, in order.
Foremost(r, s, key, order) ==
  /\ order \in [1 .. Len(r) -> 1 .. Len(s)]
  /\ \A k, l \in 1 .. Len(r) : k < l => order[k] < order[l]
  /\ \A k \in 1 .. Len(r) : /\ r[k] = s[order[k]]
                            /\ \A j \in 1 .. order[k] - 1 : key[s[j]] # key[r[k]]
  /\ \A i \in 1 .. Len(s) : \E k \in 1 .. Len(r) : order[k] <= i /\ key[r[k]] = key[s[i]]

LEMMA FirstOfKeeps ==
  ASSUME NEW S, NEW s \in Seq(S), NEW key
  PROVE  /\ FirstOf(s, key) \in Seq(S)
         /\ \E order : Foremost(FirstOf(s, key), s, key, order)
<1>. DEFINE I == {i \in DOMAIN s : \A j \in 1 .. i - 1 : key[s[j]] # key[s[i]]}
            r == FirstOf(s, key)
<1>1. I \in SUBSET (1 .. Len(s))
  OBVIOUS
<1>2. r = Pick(s, I)
  BY DEF FirstOf
<1>3. \A i \in I : i \in 1 .. Len(s) /\ \A j \in 1 .. i - 1 : key[s[j]] # key[s[i]]
  OBVIOUS
<1>4. ASSUME NEW i \in 1 .. Len(s) PROVE \E j \in I : j <= i /\ key[s[j]] = key[s[i]]
  <2>. DEFINE J == {j \in 1 .. Len(s) : key[s[j]] = key[s[i]]}
  <2>1. J \in SUBSET Nat /\ J # {}
    OBVIOUS
  <2>2. Min(J) \in J /\ \A y \in J : Min(J) <= y
    BY <2>1, SmallestMember
  <2>3. Min(J) \in 1 .. Len(s) /\ key[s[Min(J)]] = key[s[i]] /\ Min(J) <= i
    BY <2>2
  <2>4. \A y \in 1 .. Min(J) - 1 : key[s[y]] # key[s[Min(J)]]
    <3>. SUFFICES ASSUME NEW y \in 1 .. Min(J) - 1, key[s[y]] = key[s[Min(J)]] PROVE FALSE
      OBVIOUS
    <3>1. y \in J
      BY <2>3
    <3>. QED
      BY <2>2, <2>3, <3>1
  <2>. QED
    BY <2>3, <2>4
<1>. HIDE DEF I
<1>5. r \in Seq(S) /\ \E order : Kept(r, s, I, order)
  BY <1>1, <1>2, PickKeeps
<1>. HIDE DEF r
<1>6. PICK order : Kept(r, s, I, order)
  BY <1>5
<1>7. order \in [1 .. Len(r) -> 1 .. Len(s)]
  BY <1>1, <1>6 DEF Kept
<1>8. ASSUME NEW k \in 1 .. Len(r)
      PROVE  r[k] = s[order[k]] /\ \A j \in 1 .. order[k] - 1 : key[s[j]] # key[r[k]]
  BY <1>3, <1>6 DEF Kept
<1>9. ASSUME NEW i \in 1 .. Len(s)
      PROVE  \E k \in 1 .. Len(r) : order[k] <= i /\ key[r[k]] = key[s[i]]
  <2>1. PICK j \in I : j <= i /\ key[s[j]] = key[s[i]]
    BY <1>4
  <2>2. PICK k \in 1 .. Len(r) : order[k] = j
    BY <1>6 DEF Kept
  <2>. QED
    BY <1>8, <2>1, <2>2
<1>10. \A k, l \in 1 .. Len(r) : k < l => order[k] < order[l]
  BY <1>6 DEF Kept
<1>. QED
  BY <1>5, <1>7, <1>8, <1>9, <1>10 DEF Foremost, r

LEMMA Elements ==
  ASSUME NEW S, NEW s \in Seq(S)
  PROVE  /\ ToSet(s) \subseteq S /\ DOMAIN s = 1 .. Len(s)
         /\ \A c : c \in ToSet(s) <=> \E i \in 1 .. Len(s) : s[i] = c
<1>1. DOMAIN s = 1 .. Len(s)
  OBVIOUS
<1>2. \A c : c \in ToSet(s) <=> \E i \in 1 .. Len(s) : s[i] = c
  BY <1>1, Zenon DEF ToSet
<1>3. \A i \in 1 .. Len(s) : s[i] \in S
  OBVIOUS
<1>. QED
  BY <1>1, <1>2, <1>3

\* Distinct has the first of each element, in order.
Unrepeated(r, s, order) ==
  /\ order \in [1 .. Len(r) -> 1 .. Len(s)]
  /\ \A k, l \in 1 .. Len(r) : k < l => order[k] < order[l]
  /\ \A k \in 1 .. Len(r) : r[k] = s[order[k]] /\ \A j \in 1 .. order[k] - 1 : s[j] # r[k]
  /\ \A i \in 1 .. Len(s) : \E k \in 1 .. Len(r) : order[k] <= i /\ r[k] = s[i]

LEMMA DistinctKeeps ==
  ASSUME NEW S, NEW s \in Seq(S)
  PROVE  /\ Distinct(s) \in Seq(S)
         /\ \E order : Unrepeated(Distinct(s), s, order)
<1>. DEFINE key == [c \in ToSet(s) |-> c]
            r == FirstOf(s, key)
<1>1. r \in Seq(S) /\ \E order : Foremost(r, s, key, order)
  BY FirstOfKeeps
<1>2. Distinct(s) = r
  BY DEF Distinct
<1>3. \A i \in 1 .. Len(s) : key[s[i]] = s[i]
  BY Elements
<1>. HIDE DEF r, key
<1>4. PICK order : Foremost(r, s, key, order)
  BY <1>1
<1>5. order \in [1 .. Len(r) -> 1 .. Len(s)]
  BY <1>4 DEF Foremost
<1>6. ASSUME NEW k \in 1 .. Len(r)
      PROVE  /\ order[k] \in 1 .. Len(s) /\ r[k] = s[order[k]] /\ key[r[k]] = r[k]
             /\ \A j \in 1 .. order[k] - 1 : s[j] # r[k]
  <2>1. order[k] \in 1 .. Len(s) /\ r[k] = s[order[k]]
    BY <1>4, <1>5 DEF Foremost
  <2>2. key[r[k]] = r[k]
    BY <1>3, <2>1
  <2>3. \A j \in 1 .. order[k] - 1 : key[s[j]] # key[r[k]] /\ j \in 1 .. Len(s)
    BY <1>4, <2>1 DEF Foremost
  <2>. QED
    BY <1>3, <2>1, <2>2, <2>3
<1>7. ASSUME NEW i \in 1 .. Len(s) PROVE \E k \in 1 .. Len(r) : order[k] <= i /\ r[k] = s[i]
  <2>1. PICK k \in 1 .. Len(r) : order[k] <= i /\ key[r[k]] = key[s[i]]
    BY <1>4 DEF Foremost
  <2>. QED
    BY <1>3, <1>6, <2>1
<1>8. \A k, l \in 1 .. Len(r) : k < l => order[k] < order[l]
  BY <1>4 DEF Foremost
<1>. QED
  BY <1>1, <1>2, <1>5, <1>6, <1>7, <1>8 DEF Unrepeated

\* Distinct forgets nothing and repeats nothing; what is among the first n of s
\* is among the first n.
LEMMA DistinctElements ==
  ASSUME NEW S, NEW s \in Seq(S)
  PROVE  /\ Distinct(s) \in Seq(S)
         /\ Len(Distinct(s)) <= Len(s)
         /\ ToSet(Distinct(s)) = ToSet(s)
         /\ \A k, l \in 1 .. Len(Distinct(s)) : Distinct(s)[k] = Distinct(s)[l] => k = l
         /\ \A i \in 1 .. Len(s) : \E k \in 1 .. Len(Distinct(s)) : k <= i /\ Distinct(s)[k] = s[i]
<1>. DEFINE r == Distinct(s)
<1>1. r \in Seq(S) /\ \E order : Unrepeated(r, s, order)
  BY DistinctKeeps
<1>. HIDE DEF r
<1>2. PICK order : Unrepeated(r, s, order)
  BY <1>1
<1>3. /\ Len(r) \in Nat /\ Len(s) \in Nat /\ order \in [1 .. Len(r) -> 1 .. Len(s)]
      /\ \A k, l \in 1 .. Len(r) : k < l => order[k] < order[l]
  BY <1>1, <1>2 DEF Unrepeated
<1>4. \A k \in 1 .. Len(r) : k <= order[k] /\ order[k] \in 1 .. Len(s)
  BY <1>3, Increase
<1>5. ASSUME NEW i \in 1 .. Len(s) PROVE \E k \in 1 .. Len(r) : k <= i /\ r[k] = s[i]
  <2>1. PICK k \in 1 .. Len(r) : order[k] <= i /\ r[k] = s[i]
    BY <1>2 DEF Unrepeated
  <2>. QED
    BY <1>4, <2>1
<1>6. ASSUME NEW k \in 1 .. Len(r), NEW l \in 1 .. Len(r), r[k] = r[l], k < l PROVE FALSE
  <2>1. order[k] \in 1 .. order[l] - 1 /\ r[k] = s[order[k]]
    BY <1>2, <1>3, <1>4, <1>6 DEF Unrepeated
  <2>2. s[order[k]] # r[l]
    BY <1>2, <2>1 DEF Unrepeated
  <2>. QED
    BY <1>6, <2>1, <2>2
<1>7. \A k, l \in 1 .. Len(r) : r[k] = r[l] => k = l
  BY <1>6
<1>8. ToSet(r) = ToSet(s)
  <2>1. \A c : c \in ToSet(r) <=> \E k \in 1 .. Len(r) : r[k] = c
    BY <1>1, Elements
  <2>2. \A c : c \in ToSet(s) <=> \E i \in 1 .. Len(s) : s[i] = c
    BY Elements
  <2>3. \A k \in 1 .. Len(r) : r[k] = s[order[k]]
    BY <1>2 DEF Unrepeated
  <2>. QED
    BY <1>4, <1>5, <2>1, <2>2, <2>3
<1>9. Len(r) <= Len(s)
  <2>1. CASE Len(r) = 0
    BY <1>3, <2>1
  <2>2. CASE Len(r) # 0
    <3>1. Len(r) \in 1 .. Len(r)
      BY <1>3, <2>2
    <3>. QED
      BY <1>3, <1>4, <3>1
  <2>. QED
    BY <2>1, <2>2
<1>. QED
  BY <1>1, <1>5, <1>7, <1>8, <1>9 DEF r

\* SortedBy has the same elements, none after one with a lower score.
LEMMA SortedByOrders ==
  ASSUME NEW S, NEW s \in Seq(S), NEW score \in [S -> Int]
  PROVE  /\ SortedBy(s, score) \in Seq(S)
         /\ ToSet(SortedBy(s, score)) = ToSet(s)
         /\ \A k, l \in 1 .. Len(SortedBy(s, score)) :
              k < l => score[SortedBy(s, score)[k]] >= score[SortedBy(s, score)[l]]
<1>. DEFINE before == {p \in Pairs(DOMAIN s) :
                 \/ score[s[p[1]]] > score[s[p[2]]]
                 \/ score[s[p[1]]] = score[s[p[2]]] /\ p[1] < p[2]}
            r == SortedBy(s, score)
            v(i) == score[s[i]]
<1>1. \A i, j : <<i, j>> \in before <=>
        i \in 1 .. Len(s) /\ j \in 1 .. Len(s) /\ (v(i) > v(j) \/ (v(i) = v(j) /\ i < j))
  <2>1. DOMAIN s = 1 .. Len(s)
    OBVIOUS
  <2>. SUFFICES ASSUME NEW i, NEW j
                PROVE  <<i, j>> \in before <=>
                         i \in 1 .. Len(s) /\ j \in 1 .. Len(s) /\ (v(i) > v(j) \/ (v(i) = v(j) /\ i < j))
    OBVIOUS
  <2>2. <<i, j>> \in Pairs(DOMAIN s) <=> i \in 1 .. Len(s) /\ j \in 1 .. Len(s)
    BY <2>1, PairsOf
  <2>3. <<i, j>> \in before <=>
          <<i, j>> \in Pairs(DOMAIN s) /\ (v(i) > v(j) \/ (v(i) = v(j) /\ i < j))
    <3>1. PICK p : p = <<i, j>>
      OBVIOUS
    <3>2. p[1] = i /\ p[2] = j
      BY <3>1
    <3>3. p \in before <=>
            /\ p \in Pairs(DOMAIN s)
            /\ score[s[p[1]]] > score[s[p[2]]] \/ (score[s[p[1]]] = score[s[p[2]]] /\ p[1] < p[2])
      BY Zenon
    <3>4. p \in before <=>
            p \in Pairs(DOMAIN s) /\ (v(i) > v(j) \/ (v(i) = v(j) /\ i < j))
      BY <3>2, <3>3, Zenon
    <3>. QED
      BY <3>1, <3>4, Zenon
  <2>. QED
    BY <2>2, <2>3
<1>2. \A i \in 1 .. Len(s) : v(i) \in Int
  OBVIOUS
<1>. HIDE DEF before, v
<1>3. StrictOrder(before, 1 .. Len(s))
  <2>1. \A i, j \in 1 .. Len(s) : <<i, j>> \in before <=> v(i) > v(j) \/ (v(i) = v(j) /\ i < j)
    BY <1>1
  <2>2. \A i \in 1 .. Len(s) : <<i, i>> \notin before
    BY <1>2, <2>1
  <2>3. ASSUME NEW i \in 1 .. Len(s), NEW j \in 1 .. Len(s), i # j
        PROVE  <<i, j>> \in before \/ <<j, i>> \in before
    <3>1. v(i) \in Int /\ v(j) \in Int
      BY <1>2
    <3>2. v(i) > v(j) \/ (v(i) = v(j) /\ i < j) \/ v(j) > v(i) \/ (v(j) = v(i) /\ j < i)
      BY <2>3, <3>1
    <3>. QED
      BY <2>1, <3>2
  <2>4. ASSUME NEW i \in 1 .. Len(s), NEW j \in 1 .. Len(s), NEW k \in 1 .. Len(s),
               <<i, j>> \in before, <<j, k>> \in before
        PROVE  <<i, k>> \in before
    <3>1. v(i) \in Int /\ v(j) \in Int /\ v(k) \in Int
      BY <1>2
    <3>2. (v(i) > v(j) \/ (v(i) = v(j) /\ i < j)) /\ (v(j) > v(k) \/ (v(j) = v(k) /\ j < k))
      BY <2>1, <2>4
    <3>3. v(i) > v(k) \/ (v(i) = v(k) /\ i < k)
      BY <3>1, <3>2
    <3>. QED
      BY <2>1, <3>3
  <2>. QED
    BY <2>2, <2>3, <2>4 DEF StrictOrder
<1>4. r = Rearranged(s, 1 .. Len(s), before)
  <2>1. DOMAIN s = 1 .. Len(s)
    OBVIOUS
  <2>. QED
    BY <2>1 DEF SortedBy, before
<1>5. r \in Seq(S) /\ \E order : Order(r, s, 1 .. Len(s), before, order)
  <2>. DEFINE a == Rearranged(s, 1 .. Len(s), before)
  <2>1. 1 .. Len(s) \in SUBSET (1 .. Len(s))
    OBVIOUS
  <2>2. a \in Seq(S) /\ \E order : Order(a, s, 1 .. Len(s), before, order)
    BY <1>3, <2>1, RearrangedInOrder
  <2>. HIDE DEF a
  <2>. QED
    BY <1>4, <2>2, Zenon DEF a
<1>. HIDE DEF r
<1>6. PICK order : Order(r, s, 1 .. Len(s), before, order)
  BY <1>5
<1>7. \A k \in 1 .. Len(r) : order[k] \in 1 .. Len(s) /\ r[k] = s[order[k]]
  BY <1>6 DEF Order
<1>8. ToSet(r) = ToSet(s)
  <2>1. \A c : c \in ToSet(r) <=> \E k \in 1 .. Len(r) : r[k] = c
    BY <1>5, Elements
  <2>2. \A c : c \in ToSet(s) <=> \E i \in 1 .. Len(s) : s[i] = c
    BY Elements
  <2>3. \A i \in 1 .. Len(s) : \E k \in 1 .. Len(r) : order[k] = i
    BY <1>6 DEF Order
  <2>4. \A i \in 1 .. Len(s) : \E k \in 1 .. Len(r) : r[k] = s[i]
    BY <1>7, <2>3
  <2>5. \A k \in 1 .. Len(r) : \E i \in 1 .. Len(s) : s[i] = r[k]
    BY <1>7
  <2>6. \A c : c \in ToSet(r) <=> c \in ToSet(s)
    BY <2>1, <2>2, <2>4, <2>5
  <2>. QED
    BY <2>6
<1>9. ASSUME NEW k \in 1 .. Len(r), NEW l \in 1 .. Len(r), k < l
      PROVE  score[r[k]] >= score[r[l]]
  <2>1. <<order[k], order[l]>> \in before
    BY <1>6, <1>9 DEF Order
  <2>2. v(order[k]) >= v(order[l])
    BY <1>1, <1>2, <2>1
  <2>. QED
    BY <1>7, <2>2 DEF v
<1>. QED
  BY <1>5, <1>8, <1>9 DEF r

LEMMA PlaceOf ==
  ASSUME NEW S, NEW s \in Seq(S), NEW c
  PROVE  IF c \in ToSet(s)
         THEN /\ Place(s, c) \in 1 .. Len(s) /\ s[Place(s, c)] = c
              /\ \A j \in 1 .. Place(s, c) - 1 : s[j] # c
         ELSE Place(s, c) = 0
<1>. DEFINE I == {i \in 1 .. Len(s) : s[i] = c}
<1>1. Place(s, c) = IF I # {} THEN Min(I) ELSE 0
  BY DEF Place, SelectInSeq
<1>2. c \in ToSet(s) <=> I # {}
  BY Elements
<1>3. ASSUME I # {}
      PROVE  /\ Min(I) \in 1 .. Len(s) /\ s[Min(I)] = c
             /\ \A j \in 1 .. Min(I) - 1 : s[j] # c
  <2>. I \in SUBSET Nat
    OBVIOUS
  <2>1. Min(I) \in I /\ \A y \in I : Min(I) <= y
    BY <1>3, SmallestMember
  <2>2. Min(I) \in 1 .. Len(s) /\ s[Min(I)] = c
    BY <2>1
  <2>3. ASSUME NEW j \in 1 .. Min(I) - 1, s[j] = c PROVE FALSE
    <3>1. j \in I
      BY <2>2, <2>3
    <3>. QED
      BY <2>1, <2>2, <3>1
  <2>. QED
    BY <2>2, <2>3
<1>. HIDE DEF I
<1>. QED
  BY <1>1, <1>2, <1>3

(***************************************************************************)
(* Recursion over the numbers from m to n.                                 *)
(***************************************************************************)
Recursive(g, m, n, X, base, step) ==
  /\ g \in [m .. n -> X]
  /\ g[m] = base
  /\ \A k \in m + 1 .. n : g[k] = step[k][g[k - 1]]

\* Each recursion that stays within a set has a function that satisfies it.
LEMMA Recursion ==
  ASSUME NEW m \in Nat, NEW n \in Nat, m <= n, NEW X, NEW base \in X,
         NEW step \in [m + 1 .. n -> [X -> X]]
  PROVE  \E g : Recursive(g, m, n, X, base, step)
<1>. DEFINE Bad == {i \in m .. n : \A g : ~ Recursive(g, m, i, X, base, step)}
<1>1. SUFFICES ASSUME n \in Bad PROVE FALSE
  OBVIOUS
<1>2. Bad \in SUBSET Nat /\ Bad # {}
  <2>1. m .. n \subseteq Nat
    OBVIOUS
  <2>2. Bad \subseteq m .. n
    OBVIOUS
  <2>. HIDE DEF Bad
  <2>. QED
    BY <1>1, <2>1, <2>2
<1>3. PICK i \in Bad : \A y \in Bad : i <= y
  BY <1>2, SmallestMember
<1>4. i \in m .. n /\ \A g : ~ Recursive(g, m, i, X, base, step)
  BY <1>3
<1>5. CASE i = m
  <2>1. Recursive([k \in m .. i |-> base], m, i, X, base, step)
    BY <1>5 DEF Recursive
  <2>. QED
    BY <1>4, <2>1
<1>6. CASE i # m
  <2>1. i - 1 \in m .. n /\ i \in m + 1 .. n
    BY <1>4, <1>6
  <2>2. i - 1 \notin Bad
    BY <1>3, <2>1
  <2>3. PICK h : Recursive(h, m, i - 1, X, base, step)
    BY <2>1, <2>2
  <2>. DEFINE g == [k \in m .. i |-> IF k = i THEN step[i][h[i - 1]] ELSE h[k]]
  <2>4. h \in [m .. i - 1 -> X] /\ h[m] = base
        /\ \A k \in m + 1 .. i - 1 : h[k] = step[k][h[k - 1]]
    BY <2>3 DEF Recursive
  <2>5. step[i][h[i - 1]] \in X
    <3>1. h[i - 1] \in X
      BY <2>1, <2>4
    <3>2. step[i] \in [X -> X]
      BY <2>1
    <3>. QED
      BY <3>1, <3>2
  <2>6. \A k \in m .. i : k # i => k \in m .. i - 1
    BY <1>4
  <2>7. g \in [m .. i -> X]
    BY <2>4, <2>5, <2>6
  <2>8. g[m] = base
    BY <1>4, <1>6, <2>4
  <2>9. ASSUME NEW k \in m + 1 .. i PROVE g[k] = step[k][g[k - 1]]
    <3>1. k - 1 \in m .. i /\ k - 1 # i /\ k \in m .. i
      BY <1>4, <2>9
    <3>2. g[k - 1] = h[k - 1]
      BY <3>1
    <3>3. CASE k = i
      BY <3>1, <3>2, <3>3
    <3>4. CASE k # i
      <4>1. k \in m + 1 .. i - 1
        BY <1>4, <2>9, <3>4
      <4>2. g[k] = h[k]
        BY <3>1, <3>4
      <4>. QED
        BY <2>4, <3>2, <4>1, <4>2
    <3>. QED
      BY <3>3, <3>4
  <2>. HIDE DEF g
  <2>10. Recursive(g, m, i, X, base, step)
    BY <2>7, <2>8, <2>9 DEF Recursive
  <2>. QED
    BY <1>4, <2>10
<1>. QED
  BY <1>5, <1>6

\* Induction over the numbers from m to n, on the set of those with a property.
Inductive(P, m, n) == m \in P /\ \A k \in m + 1 .. n : k - 1 \in P => k \in P

LEMMA Induction ==
  ASSUME NEW m \in Nat, NEW n \in Nat, NEW P, Inductive(P, m, n)
  PROVE  m .. n \subseteq P
<1>. SUFFICES ASSUME NEW x \in m .. n, x \notin P PROVE FALSE
  OBVIOUS
<1>. DEFINE Bad == (m .. n) \ P
<1>1. Bad \in SUBSET Nat /\ Bad # {}
  OBVIOUS
<1>2. PICK i \in Bad : \A y \in Bad : i <= y
  BY <1>1, SmallestMember
<1>3. i \in m .. n /\ i \notin P
  BY <1>2
<1>4. i # m
  BY <1>3 DEF Inductive
<1>5. i - 1 \in m .. n /\ i \in m + 1 .. n
  BY <1>3, <1>4
<1>6. i - 1 \in P
  BY <1>2, <1>5
<1>. QED
  BY <1>3, <1>5, <1>6 DEF Inductive

LEMMA Concatenation ==
  ASSUME NEW S, NEW s \in Seq(S), NEW t \in Seq(S)
  PROVE  /\ s \o t \in Seq(S)
         /\ Len(s \o t) = Len(s) + Len(t)
         /\ \A i \in 1 .. Len(s) : (s \o t)[i] = s[i]
         /\ ToSet(s \o t) = ToSet(s) \cup ToSet(t)
<1>1. s \o t \in Seq(S) /\ Len(s \o t) = Len(s) + Len(t)
  OBVIOUS
<1>2. \A i \in 1 .. Len(s) : (s \o t)[i] = s[i]
  OBVIOUS
<1>3. \A i \in 1 .. Len(t) : (s \o t)[Len(s) + i] = t[i]
  OBVIOUS
<1>4. ASSUME NEW c
      PROVE  c \in ToSet(s \o t) <=> c \in ToSet(s) \/ c \in ToSet(t)
  <2>1. /\ c \in ToSet(s \o t) <=> \E i \in 1 .. Len(s \o t) : (s \o t)[i] = c
        /\ c \in ToSet(s) <=> \E i \in 1 .. Len(s) : s[i] = c
        /\ c \in ToSet(t) <=> \E i \in 1 .. Len(t) : t[i] = c
    BY <1>1, Elements
  <2>. DEFINE u == s \o t
  <2>2. /\ Len(u) = Len(s) + Len(t) /\ Len(s) \in Nat /\ Len(t) \in Nat
        /\ \A i \in 1 .. Len(s) : u[i] = s[i]
        /\ \A i \in 1 .. Len(t) : u[Len(s) + i] = t[i]
    BY <1>1, <1>2, <1>3
  <2>. HIDE DEF u
  <2>3. \A i \in 1 .. Len(u) : i \in 1 .. Len(s) \/ i - Len(s) \in 1 .. Len(t)
    BY <2>2
  <2>4. ASSUME NEW i \in 1 .. Len(u), u[i] = c
        PROVE  (\E j \in 1 .. Len(s) : s[j] = c) \/ (\E j \in 1 .. Len(t) : t[j] = c)
    <3>1. CASE i \in 1 .. Len(s)
      BY <2>2, <2>4, <3>1
    <3>2. CASE i - Len(s) \in 1 .. Len(t)
      <4>1. i = Len(s) + (i - Len(s))
        BY <2>2
      <4>2. u[i] = t[i - Len(s)]
        BY <2>2, <3>2, <4>1
      <4>. QED
        BY <2>4, <3>2, <4>2
    <3>. QED
      BY <2>3, <3>1, <3>2
  <2>5. ASSUME NEW j \in 1 .. Len(s), s[j] = c PROVE \E i \in 1 .. Len(u) : u[i] = c
    <3>1. j \in 1 .. Len(u)
      BY <2>2
    <3>. QED
      BY <2>2, <2>5, <3>1
  <2>6. ASSUME NEW j \in 1 .. Len(t), t[j] = c PROVE \E i \in 1 .. Len(u) : u[i] = c
    <3>1. Len(s) + j \in 1 .. Len(u)
      BY <2>2
    <3>. QED
      BY <2>2, <2>6, <3>1
  <2>7. c \in ToSet(u) <=> \E i \in 1 .. Len(u) : u[i] = c
    BY <2>1 DEF u
  <2>8. c \in ToSet(u) <=> c \in ToSet(s) \/ c \in ToSet(t)
    BY <2>1, <2>4, <2>5, <2>6, <2>7
  <2>. QED
    BY <2>8 DEF u
<1>5. ToSet(s \o t) = ToSet(s) \cup ToSet(t)
  BY <1>4
<1>. QED
  BY <1>1, <1>2, <1>5

\* FlattenSeq appends one sequence after the other.
Appended(g, seqs, S) ==
  /\ g \in [1 .. Len(seqs) -> Seq(S)]
  /\ g[1] = seqs[1]
  /\ \A k \in 2 .. Len(seqs) : g[k] = g[k - 1] \o seqs[k]

LEMMA FlattenSteps ==
  ASSUME NEW S, NEW seqs \in Seq(Seq(S)), Len(seqs) # 0
  PROVE  \E g : Appended(g, seqs, S) /\ FlattenSeq(seqs) = g[Len(seqs)]
<1>. DEFINE L == Len(seqs)
            step == [k \in 1 + 1 .. L |-> [s \in Seq(S) |-> s \o seqs[k]]]
            Full(f) == f = [i \in 1 .. L |-> IF i = 1 THEN seqs[i] ELSE f[i - 1] \o seqs[i]]
<1>1. L \in Nat /\ 1 <= L /\ \A k \in 1 .. L : seqs[k] \in Seq(S)
  OBVIOUS
<1>2. \A k \in 1 + 1 .. L : [s \in Seq(S) |-> s \o seqs[k]] \in [Seq(S) -> Seq(S)]
  <2>1. ASSUME NEW k \in 1 + 1 .. L, NEW s \in Seq(S) PROVE s \o seqs[k] \in Seq(S)
    <3>1. seqs[k] \in Seq(S)
      BY <1>1
    <3>. QED
      BY <3>1, Concatenation
  <2>. QED
    BY <2>1
<1>3. step \in [1 + 1 .. L -> [Seq(S) -> Seq(S)]]
  BY <1>2
<1>. HIDE DEF L
<1>4. PICK g : Recursive(g, 1, L, Seq(S), seqs[1], step)
  <2>1. seqs[1] \in Seq(S)
    BY <1>1
  <2>. HIDE DEF step
  <2>. QED
    BY <1>1, <1>3, <2>1, Recursion
<1>5. /\ g \in [1 .. L -> Seq(S)] /\ g[1] = seqs[1]
      /\ \A k \in 2 .. L : g[k] = step[k][g[k - 1]]
  <2>1. /\ g \in [1 .. L -> Seq(S)] /\ g[1] = seqs[1]
        /\ \A k \in 1 + 1 .. L : g[k] = step[k][g[k - 1]]
    BY <1>4 DEF Recursive
  <2>2. \A k \in 2 .. L : k \in 1 + 1 .. L
    BY <1>1
  <2>. QED
    BY <2>1, <2>2
<1>6. ASSUME NEW k \in 2 .. L PROVE g[k] = g[k - 1] \o seqs[k]
  <2>1. g[k - 1] \in Seq(S)
    BY <1>1, <1>5
  <2>2. step[k] = [s \in Seq(S) |-> s \o seqs[k]]
    BY <1>1
  <2>. QED
    BY <1>5, <2>1, <2>2
<1>. HIDE DEF step
<1>7. Full(g)
  <2>1. ASSUME NEW i \in 1 .. L PROVE g[i] = IF i = 1 THEN seqs[i] ELSE g[i - 1] \o seqs[i]
    <3>1. i # 1 => i \in 2 .. L
      BY <1>1
    <3>. QED
      BY <1>5, <1>6, <3>1
  <2>. QED
    BY <1>5, <2>1
<1>8. ASSUME NEW f, Full(f) PROVE f[L] = g[L] /\ Appended(f, seqs, S)
  <2>. DEFINE P == {i \in 1 .. L : f[i] = g[i]}
  <2>1. \A i \in 1 .. L : f[i] = IF i = 1 THEN seqs[i] ELSE f[i - 1] \o seqs[i]
    BY <1>8
  <2>2. 1 \in P
    BY <1>1, <1>5, <2>1
  <2>3. ASSUME NEW k \in 1 + 1 .. L, k - 1 \in P PROVE k \in P
    <3>1. k \in 1 .. L /\ k \in 2 .. L /\ k # 1
      BY <1>1
    <3>2. f[k - 1] = g[k - 1]
      BY <2>3
    <3>3. f[k] = f[k - 1] \o seqs[k]
      BY <2>1, <3>1
    <3>. QED
      BY <1>6, <3>1, <3>2, <3>3
  <2>4. Inductive(P, 1, L)
    BY <2>2, <2>3 DEF Inductive
  <2>. HIDE DEF P
  <2>5. 1 .. L \subseteq P
    BY <1>1, <2>4, Induction
  <2>6. \A i \in 1 .. L : f[i] = g[i]
    BY <2>5 DEF P
  <2>7. DOMAIN f = 1 .. L
    BY <1>8
  <2>8. f = g
    BY <1>5, <2>6, <2>7, <1>7, <1>8
  <2>. QED
    BY <1>5, <1>6, <2>8 DEF Appended, L
<1>9. FlattenSeq(seqs) = (CHOOSE f : Full(f))[L]
  BY <1>1 DEF FlattenSeq, L
<1>. DEFINE h == CHOOSE f : Full(f)
<1>10. Full(h)
  <2>. HIDE DEF Full
  <2>. QED
    BY <1>7
<1>. HIDE DEF h, Full
<1>11. Appended(h, seqs, S)
  BY <1>8, <1>10
<1>. QED
  BY <1>9, <1>11 DEF h, L

\* FlattenSeq has the elements of all sequences.
LEMMA FlattenElements ==
  ASSUME NEW S, NEW seqs \in Seq(Seq(S))
  PROVE  /\ FlattenSeq(seqs) \in Seq(S)
         /\ \A c : c \in ToSet(FlattenSeq(seqs)) <=>
              \E n \in 1 .. Len(seqs) : c \in ToSet(seqs[n])
<1>1. CASE Len(seqs) = 0
  <2>1. seqs = << >> /\ FlattenSeq(seqs) = << >>
    BY <1>1 DEF FlattenSeq
  <2>2. ToSet(<< >>) = {}
    BY DEF ToSet
  <2>3. \A n : n \notin 1 .. Len(seqs)
    BY <1>1
  <2>4. FlattenSeq(seqs) \in Seq(S)
    <3>1. << >> \in Seq(S)
      OBVIOUS
    <3>. QED
      BY <2>1, <3>1, Zenon
  <2>5. \A c : c \notin ToSet(FlattenSeq(seqs))
    BY <2>1, <2>2, Zenon
  <2>. QED
    BY <2>3, <2>4, <2>5, Zenon
<1>2. CASE Len(seqs) # 0
  <2>. DEFINE L == Len(seqs)
  <2>1. PICK g : Appended(g, seqs, S) /\ FlattenSeq(seqs) = g[L]
    BY <1>2, FlattenSteps
  <2>2. L \in Nat /\ 1 <= L /\ \A k \in 1 .. L : seqs[k] \in Seq(S)
    BY <1>2
  <2>. HIDE DEF L
  <2>3. /\ g \in [1 .. L -> Seq(S)] /\ g[1] = seqs[1]
        /\ \A k \in 2 .. L : g[k] = g[k - 1] \o seqs[k]
    BY <2>1 DEF Appended, L
  <2>. SUFFICES ASSUME NEW c
                PROVE  c \in ToSet(g[L]) <=> \E n \in 1 .. L : c \in ToSet(seqs[n])
    <3>1. g[L] \in Seq(S)
      BY <2>2, <2>3
    <3>. QED
      BY <2>1, <3>1 DEF L
  <2>. DEFINE P == {k \in 1 .. L : c \in ToSet(g[k]) <=> \E n \in 1 .. k : c \in ToSet(seqs[n])}
  <2>4. 1 \in P
    <3>1. 1 \in 1 .. L /\ \A n \in 1 .. 1 : n = 1
      BY <2>2
    <3>. QED
      BY <2>3, <3>1
  <2>5. ASSUME NEW k \in 1 + 1 .. L, k - 1 \in P PROVE k \in P
    <3>1. k \in 2 .. L /\ k \in 1 .. L /\ k - 1 \in 1 .. L
      BY <2>2
    <3>2. g[k - 1] \in Seq(S) /\ seqs[k] \in Seq(S) /\ g[k] = g[k - 1] \o seqs[k]
      BY <2>2, <2>3, <3>1
    <3>3. ToSet(g[k]) = ToSet(g[k - 1]) \cup ToSet(seqs[k])
      BY <3>2, Concatenation
    <3>4. c \in ToSet(g[k - 1]) <=> \E n \in 1 .. k - 1 : c \in ToSet(seqs[n])
      BY <2>5
    <3>5. \A n \in 1 .. k : n \in 1 .. k - 1 \/ n = k
      BY <3>1
    <3>6. k \in 1 .. k /\ \A n \in 1 .. k - 1 : n \in 1 .. k
      BY <3>1
    <3>7. c \in ToSet(g[k]) <=> \E n \in 1 .. k : c \in ToSet(seqs[n])
      BY <3>3, <3>4, <3>5, <3>6
    <3>. QED
      BY <3>1, <3>7
  <2>6. Inductive(P, 1, L)
    BY <2>4, <2>5 DEF Inductive
  <2>7. L \in P
    <3>. HIDE DEF P
    <3>1. 1 .. L \subseteq P
      BY <2>2, <2>6, Induction
    <3>. QED
      BY <2>2, <3>1
  <2>. QED
    BY <2>7
<1>. QED
  BY <1>1, <1>2

\* FlattenSeq starts with the first of the sequences.
LEMMA FlattenStart ==
  ASSUME NEW S, NEW seqs \in Seq(Seq(S)), Len(seqs) # 0
  PROVE  /\ Len(seqs[1]) <= Len(FlattenSeq(seqs))
         /\ \A i \in 1 .. Len(seqs[1]) : FlattenSeq(seqs)[i] = seqs[1][i]
<1>. DEFINE L == Len(seqs)
            t == seqs[1]
<1>1. PICK g : Appended(g, seqs, S) /\ FlattenSeq(seqs) = g[L]
  BY FlattenSteps
<1>2. L \in Nat /\ 1 <= L /\ \A k \in 1 .. L : seqs[k] \in Seq(S)
  OBVIOUS
<1>3. t \in Seq(S) /\ Len(t) \in Nat
  BY <1>2
<1>. HIDE DEF L, t
<1>4. /\ g \in [1 .. L -> Seq(S)] /\ g[1] = t
      /\ \A k \in 2 .. L : g[k] = g[k - 1] \o seqs[k]
  BY <1>1 DEF Appended, L, t
<1>. DEFINE Starts(u) == Len(t) <= Len(u) /\ \A i \in 1 .. Len(t) : u[i] = t[i]
            P == {k \in 1 .. L : Starts(g[k])}
<1>5. Starts(t)
  BY <1>3
<1>. HIDE DEF Starts
<1>6. 1 \in P
  BY <1>2, <1>4, <1>5
<1>7. ASSUME NEW k \in 1 + 1 .. L, k - 1 \in P PROVE k \in P
  <2>1. k \in 2 .. L /\ k \in 1 .. L /\ k - 1 \in 1 .. L
    BY <1>2
  <2>2. g[k - 1] \in Seq(S) /\ seqs[k] \in Seq(S) /\ g[k] = g[k - 1] \o seqs[k]
    BY <1>2, <1>4, <2>1
  <2>3. Starts(g[k - 1])
    BY <1>7
  <2>4. /\ Len(g[k]) = Len(g[k - 1]) + Len(seqs[k])
        /\ \A i \in 1 .. Len(g[k - 1]) : g[k][i] = g[k - 1][i]
    <3>. DEFINE u == g[k - 1] \o seqs[k]
    <3>1. Len(u) = Len(g[k - 1]) + Len(seqs[k]) /\ \A i \in 1 .. Len(g[k - 1]) : u[i] = g[k - 1][i]
      BY <2>2, Concatenation
    <3>2. g[k] = u
      BY <2>2
    <3>. HIDE DEF u
    <3>. QED
      BY <3>1, <3>2
  <2>5. Len(g[k - 1]) \in Nat /\ Len(seqs[k]) \in Nat
    BY <2>2
  <2>6. Starts(g[k])
    <3>1. Len(t) <= Len(g[k - 1]) /\ \A i \in 1 .. Len(t) : g[k - 1][i] = t[i]
      BY <2>3 DEF Starts
    <3>2. Len(t) <= Len(g[k])
      <4>1. PICK a \in Nat, b \in Nat : a = Len(g[k - 1]) /\ b = Len(seqs[k])
        BY <2>5
      <4>2. Len(t) <= a /\ Len(g[k]) = a + b
        BY <2>4, <3>1, <4>1, Zenon
      <4>. QED
        BY <1>3, <4>2
    <3>3. \A i \in 1 .. Len(t) : i \in 1 .. Len(g[k - 1])
      BY <1>3, <2>5, <3>1
    <3>4. \A i \in 1 .. Len(t) : g[k][i] = t[i]
      BY <2>4, <3>1, <3>3
    <3>. QED
      BY <3>2, <3>4 DEF Starts
  <2>. QED
    BY <2>1, <2>6
<1>8. Inductive(P, 1, L)
  BY <1>6, <1>7 DEF Inductive
<1>9. L \in P
  <2>. HIDE DEF P
  <2>1. 1 .. L \subseteq P
    BY <1>2, <1>8, Induction
  <2>. QED
    BY <1>2, <2>1
<1>. QED
  BY <1>1, <1>9 DEF Starts, t

(***************************************************************************)
(* Fusion.                                                                 *)
(***************************************************************************)
LEMMA Division == \A u, d \in Nat : d > 0 => u \div d \in Nat
<1>. SUFFICES ASSUME NEW u \in Nat, NEW d \in Nat, d > 0 PROVE u \div d \in Nat
  OBVIOUS
<1>1. u \div d \in Int
  OBVIOUS
<1>2. u = d * (u \div d) + (u % d) /\ u % d \in 0 .. d - 1
  OBVIOUS
<1>3. ASSUME u \div d < 0 PROVE FALSE
  BY <1>1, <1>2, <1>3
<1>. QED
  BY <1>1, <1>3

LEMMA Quotient == \A r \in Nat : Unit \div (60 + r) \in Nat
<1>1. Unit \in Nat
  BY RankingAssumption
<1>. QED
  BY <1>1, Division

\* What is further up in a list is further up without the repetitions.
LEMMA DistinctPlaces ==
  ASSUME NEW S, NEW s \in Seq(S), NEW a, NEW b,
         b \in ToSet(s), Place(s, a) \in 1 .. Place(s, b) - 1
  PROVE  /\ Place(Distinct(s), a) \in 1 .. Place(Distinct(s), b) - 1
         /\ Place(Distinct(s), b) \in 1 .. Len(s)
<1>. DEFINE r == Distinct(s)
            p == Place(s, a)
            q == Place(s, b)
            i == Place(r, a)
            j == Place(r, b)
<1>1. a \in ToSet(s)
  <2>1. p # 0
    OBVIOUS
  <2>. QED
    BY <2>1, PlaceOf
<1>2. /\ r \in Seq(S) /\ ToSet(r) = ToSet(s) /\ Len(r) <= Len(s)
      /\ \A k, l \in 1 .. Len(r) : r[k] = r[l] => k = l
  BY DistinctElements
<1>3. /\ p \in 1 .. Len(s) /\ s[p] = a
      /\ q \in 1 .. Len(s) /\ s[q] = b
  BY <1>1, PlaceOf
<1>4. /\ i \in 1 .. Len(r) /\ r[i] = a
      /\ j \in 1 .. Len(r) /\ r[j] = b
  <2>1. r \in Seq(S) /\ a \in ToSet(r) /\ b \in ToSet(r)
    BY <1>1, <1>2
  <2>. HIDE DEF r
  <2>. QED
    BY <2>1, PlaceOf
<1>5. PICK order : Unrepeated(r, s, order)
  BY DistinctKeeps
<1>6. p \in 1 .. q - 1
  OBVIOUS
<1>. HIDE DEF r, p, q, i, j
<1>7. /\ order \in [1 .. Len(r) -> 1 .. Len(s)]
      /\ \A k, l \in 1 .. Len(r) : k < l => order[k] < order[l]
      /\ \A k \in 1 .. Len(r) : r[k] = s[order[k]] /\ \A m \in 1 .. order[k] - 1 : s[m] # r[k]
  BY <1>5 DEF Unrepeated
<1>8. PICK k \in 1 .. Len(r) : order[k] <= p /\ r[k] = s[p]
  BY <1>3, <1>5 DEF Unrepeated
<1>9. k = i /\ order[i] <= p
  BY <1>2, <1>3, <1>4, <1>8
<1>10. order[i] \in 1 .. Len(s) /\ order[j] \in 1 .. Len(s) /\ s[order[j]] = b
  BY <1>4, <1>7
<1>11. \A m \in 1 .. q - 1 : s[m] # b
  <2>1. b \in ToSet(s)
    OBVIOUS
  <2>. QED
    BY <2>1, PlaceOf DEF q
<1>12. q <= order[j]
  <2>1. order[j] \notin 1 .. q - 1
    BY <1>10, <1>11
  <2>. QED
    BY <1>3, <1>10, <2>1
<1>13. order[i] < order[j]
  BY <1>3, <1>6, <1>9, <1>10, <1>12
<1>14. ~ (j < i) /\ i # j
  <2>1. j < i => order[j] < order[i]
    BY <1>4, <1>7
  <2>. QED
    BY <1>10, <1>13, <2>1
<1>15. Len(r) \in Nat /\ Len(s) \in Nat
  BY <1>2
<1>. QED
  BY <1>2, <1>4, <1>14, <1>15 DEF r, i, j

\* Each list contributes more to what it has further up, and nothing to what it
\* has not.
LEMMA Contributions ==
  ASSUME NEW s \in Seq(Chunks), NEW w \in Nat \ {0}, NEW a, NEW b,
         NEW n \in Nat, Len(s) <= n, Finer(n)
  PROVE  /\ Contribution(s, w, a) \in Nat
         /\ b \notin ToSet(s) => Contribution(s, w, b) = 0
         /\ (b \in ToSet(s) /\ Place(s, a) \in 1 .. Place(s, b) - 1) =>
              Contribution(s, w, a) > Contribution(s, w, b)
<1>. DEFINE r == Distinct(s)
            part(k) == IF k = 0 THEN 0 ELSE w * (Unit \div (60 + k))
<1>1. r \in Seq(Chunks) /\ ToSet(r) = ToSet(s)
  BY DistinctElements
<1>2. /\ Contribution(s, w, a) = part(Place(r, a))
      /\ Contribution(s, w, b) = part(Place(r, b))
  BY Zenon DEF Contribution
<1>3. Place(r, a) \in Nat
  <2>. HIDE DEF r
  <2>1. CASE a \in ToSet(r)
    BY <1>1, <2>1, PlaceOf
  <2>2. CASE a \notin ToSet(r)
    BY <1>1, <2>2, PlaceOf
  <2>. QED
    BY <2>1, <2>2
<1>4. ASSUME NEW k \in Nat, NEW l \in Nat PROVE k * l \in Nat
  OBVIOUS
<1>5. \A k \in Nat : part(k) \in Nat
  <2>1. ASSUME NEW k \in Nat PROVE part(k) \in Nat
    <3>1. Unit \div (60 + k) \in Nat
      BY Quotient
    <3>2. w * (Unit \div (60 + k)) \in Nat
      BY <1>4, <3>1
    <3>. QED
      BY <3>2
  <2>. QED
    BY <2>1
<1>6. ASSUME b \notin ToSet(s) PROVE part(Place(r, b)) = 0
  <2>1. Place(r, b) = 0
    <3>1. b \notin ToSet(r)
      BY <1>1, <1>6
    <3>. HIDE DEF r
    <3>. QED
      BY <1>1, <3>1, PlaceOf
  <2>. QED
    BY <2>1
<1>7. ASSUME b \in ToSet(s), Place(s, a) \in 1 .. Place(s, b) - 1
      PROVE  part(Place(r, a)) > part(Place(r, b))
  <2>. DEFINE i == Place(r, a)
              j == Place(r, b)
  <2>1. i \in 1 .. j - 1 /\ j \in 1 .. Len(s)
    BY <1>7, DistinctPlaces
  <2>. HIDE DEF i, j
  <2>2. i \in 1 .. n /\ j \in 1 .. n /\ i < j
    BY <2>1
  <2>3. Unit \div (60 + j) < Unit \div (60 + i)
    BY <2>2 DEF Finer
  <2>4. PICK x \in Nat, y \in Nat : x = Unit \div (60 + i) /\ y = Unit \div (60 + j)
    BY <2>2, Quotient
  <2>5. y < x
    BY <2>3, <2>4
  <2>6. w * y < w * x
    BY <2>5
  <2>7. part(i) = w * x /\ part(j) = w * y
    BY <2>2, <2>4
  <2>. QED
    BY <2>6, <2>7 DEF i, j
<1>. HIDE DEF part, r
<1>. QED
  BY <1>2, <1>3, <1>5, <1>6, <1>7

\* Lists no longer than what the scale tells apart, each with a weight.
Scored(ranked, weights) ==
  /\ ranked \in Seq(Seq(Chunks))
  /\ weights \in [1 .. Len(ranked) -> Nat \ {0}]
  /\ \A n \in 1 .. Len(ranked) : \E m \in Nat : Len(ranked[n]) <= m /\ Finer(m)

Accumulated(g, ranked, weights, c) ==
  /\ g \in [0 .. Len(ranked) -> Nat]
  /\ g[0] = 0
  /\ \A k \in 1 .. Len(ranked) : g[k] = g[k - 1] + Contribution(ranked[k], weights[k], c)

LEMMA ScoredContributions ==
  ASSUME NEW ranked, NEW weights, Scored(ranked, weights), NEW k \in 1 .. Len(ranked),
         NEW a, NEW b
  PROVE  /\ Contribution(ranked[k], weights[k], a) \in Nat
         /\ b \notin ToSet(ranked[k]) => Contribution(ranked[k], weights[k], b) = 0
         /\ (b \in ToSet(ranked[k]) /\ Place(ranked[k], a) \in 1 .. Place(ranked[k], b) - 1) =>
              Contribution(ranked[k], weights[k], a) > Contribution(ranked[k], weights[k], b)
<1>1. /\ ranked \in Seq(Seq(Chunks))
      /\ weights \in [1 .. Len(ranked) -> Nat \ {0}]
      /\ \A n \in 1 .. Len(ranked) : \E m \in Nat : Len(ranked[n]) <= m /\ Finer(m)
  BY DEF Scored
<1>2. PICK m \in Nat : Len(ranked[k]) <= m /\ Finer(m)
  BY <1>1
<1>3. ranked[k] \in Seq(Chunks)
  BY <1>1
<1>4. weights[k] \in Nat \ {0}
  BY <1>1
<1>. QED
  BY <1>2, <1>3, <1>4, Contributions

LEMMA TotalSteps ==
  ASSUME NEW ranked, NEW weights, Scored(ranked, weights), NEW c
  PROVE  \E g : Accumulated(g, ranked, weights, c) /\ Total(ranked, weights, c) = g[Len(ranked)]
<1>. DEFINE L == Len(ranked)
            part(k) == Contribution(ranked[k], weights[k], c)
            step == [k \in 0 + 1 .. L |-> [x \in Nat |-> x + part(k)]]
            Full(f) == f = [n \in 0 .. L |-> IF n = 0 THEN 0 ELSE f[n - 1] + part(n)]
<1>1. L \in Nat
  BY DEF Scored
<1>2. \A k \in 1 .. L : part(k) \in Nat
  BY ScoredContributions
<1>3. Total(ranked, weights, c) = (CHOOSE f : Full(f))[L]
  BY DEF Total
<1>. HIDE DEF L, part
<1>4. step \in [0 + 1 .. L -> [Nat -> Nat]]
  <2>1. \A k \in 0 + 1 .. L : [x \in Nat |-> x + part(k)] \in [Nat -> Nat]
    <3>1. ASSUME NEW k \in 0 + 1 .. L, NEW x \in Nat PROVE x + part(k) \in Nat
      <4>1. part(k) \in Nat
        BY <1>1, <1>2
      <4>. QED
        BY <4>1
    <3>. QED
      BY <3>1
  <2>. QED
    BY <2>1
<1>5. PICK g : Recursive(g, 0, L, Nat, 0, step)
  <2>. HIDE DEF step
  <2>1. 0 \in Nat /\ 0 <= L
    BY <1>1
  <2>. QED
    BY <1>1, <1>4, <2>1, Recursion, Zenon
<1>6. /\ g \in [0 .. L -> Nat] /\ g[0] = 0
      /\ \A k \in 0 + 1 .. L : g[k] = step[k][g[k - 1]]
  BY <1>5 DEF Recursive
<1>7. ASSUME NEW k \in 1 .. L PROVE g[k] = g[k - 1] + part(k)
  <2>1. k - 1 \in 0 .. L /\ k \in 0 + 1 .. L
    BY <1>1
  <2>2. g[k - 1] \in Nat
    BY <1>6, <2>1
  <2>3. step[k] = [x \in Nat |-> x + part(k)]
    BY <2>1
  <2>4. g[k] = step[k][g[k - 1]]
    BY <1>6, <2>1
  <2>. HIDE DEF step
  <2>. QED
    BY <2>2, <2>3, <2>4
<1>. HIDE DEF step
<1>8. Full(g)
  <2>1. ASSUME NEW i \in 0 .. L PROVE g[i] = IF i = 0 THEN 0 ELSE g[i - 1] + part(i)
    <3>1. i # 0 => i \in 1 .. L
      BY <1>1
    <3>. QED
      BY <1>6, <1>7, <3>1
  <2>. QED
    BY <1>6, <2>1
<1>9. ASSUME NEW f, Full(f) PROVE f = g
  <2>. DEFINE P == {i \in 0 .. L : f[i] = g[i]}
  <2>1. \A i \in 0 .. L : f[i] = IF i = 0 THEN 0 ELSE f[i - 1] + part(i)
    BY <1>9
  <2>2. 0 \in P
    BY <1>1, <1>6, <2>1
  <2>3. ASSUME NEW k \in 0 + 1 .. L, k - 1 \in P PROVE k \in P
    <3>1. k \in 0 .. L /\ k \in 1 .. L /\ k # 0
      BY <1>1
    <3>2. f[k - 1] = g[k - 1]
      BY <2>3
    <3>3. f[k] = f[k - 1] + part(k)
      BY <2>1, <3>1
    <3>. QED
      BY <1>7, <3>1, <3>2, <3>3
  <2>4. Inductive(P, 0, L)
    BY <2>2, <2>3 DEF Inductive
  <2>. HIDE DEF P
  <2>5. 0 .. L \subseteq P
    BY <1>1, <2>4, Induction
  <2>6. \A i \in 0 .. L : f[i] = g[i]
    BY <2>5 DEF P
  <2>7. DOMAIN f = 0 .. L
    BY <1>9
  <2>. QED
    BY <1>6, <1>8, <1>9, <2>6, <2>7
<1>. DEFINE h == CHOOSE f : Full(f)
<1>10. Full(h)
  <2>. HIDE DEF Full
  <2>. QED
    BY <1>8
<1>. HIDE DEF h, Full
<1>11. h = g
  BY <1>9, <1>10
<1>12. Accumulated(g, ranked, weights, c)
  BY <1>6, <1>7 DEF Accumulated, L, part
<1>. QED
  BY <1>3, <1>11, <1>12 DEF h, L

\* What every list has further up has the higher total.
LEMMA Dominance ==
  ASSUME NEW ranked, NEW weights, Scored(ranked, weights), NEW a, NEW b
  PROVE  /\ Total(ranked, weights, a) \in Nat
         /\ Above(a, b, ranked) => Total(ranked, weights, a) > Total(ranked, weights, b)
<1>. DEFINE L == Len(ranked)
            of(c, k) == Contribution(ranked[k], weights[k], c)
<1>1. L \in Nat /\ DOMAIN ranked = 1 .. L
  BY DEF Scored
<1>2. PICK g : Accumulated(g, ranked, weights, a) /\ Total(ranked, weights, a) = g[L]
  BY TotalSteps
<1>3. PICK h : Accumulated(h, ranked, weights, b) /\ Total(ranked, weights, b) = h[L]
  BY TotalSteps
<1>4. /\ g \in [0 .. L -> Nat] /\ h \in [0 .. L -> Nat] /\ g[0] = 0 /\ h[0] = 0
      /\ \A k \in 1 .. L : g[k] = g[k - 1] + of(a, k) /\ h[k] = h[k - 1] + of(b, k)
  BY <1>2, <1>3 DEF Accumulated
<1>5. g[L] \in Nat
  BY <1>1, <1>4
<1>6. ASSUME Above(a, b, ranked) PROVE g[L] > h[L]
  <2>1. PICK m \in 1 .. L : b \in ToSet(ranked[m])
    BY <1>1, <1>6 DEF Above
  <2>2. \A k \in 1 .. L : b \in ToSet(ranked[k]) =>
          Place(ranked[k], a) \in 1 .. Place(ranked[k], b) - 1
    BY <1>1, <1>6 DEF Above
  <2>3. \A k \in 1 .. L : of(a, k) \in Nat /\ of(b, k) \in Nat
    BY ScoredContributions
  <2>4. \A k \in 1 .. L : of(a, k) >= of(b, k) /\ (b \in ToSet(ranked[k]) => of(a, k) > of(b, k))
    <3>. SUFFICES ASSUME NEW k \in 1 .. L
                  PROVE  of(a, k) >= of(b, k) /\ (b \in ToSet(ranked[k]) => of(a, k) > of(b, k))
      OBVIOUS
    <3>1. /\ b \notin ToSet(ranked[k]) => of(b, k) = 0
          /\ b \in ToSet(ranked[k]) => of(a, k) > of(b, k)
      BY <2>2, ScoredContributions
    <3>. HIDE DEF of
    <3>. QED
      BY <2>3, <3>1
  <2>. HIDE DEF L, of
  <2>. DEFINE P == {k \in 0 .. L : g[k] >= h[k] /\ (m <= k => g[k] > h[k])}
  <2>5. 0 \in P
    BY <1>1, <1>4
  <2>6. ASSUME NEW k \in 0 + 1 .. L, k - 1 \in P PROVE k \in P
    <3>1. k \in 1 .. L /\ k \in 0 .. L /\ k - 1 \in 0 .. L
      BY <1>1
    <3>2. g[k - 1] \in Nat /\ h[k - 1] \in Nat
      BY <1>4, <3>1
    <3>3. g[k - 1] >= h[k - 1] /\ (m <= k - 1 => g[k - 1] > h[k - 1])
      BY <2>6
    <3>4. PICK x \in Nat, y \in Nat : x = of(a, k) /\ y = of(b, k)
      BY <2>3, <3>1
    <3>5. g[k] = g[k - 1] + x /\ h[k] = h[k - 1] + y
      BY <1>4, <3>1, <3>4
    <3>6. x >= y /\ (k = m => x > y)
      BY <2>1, <2>4, <3>1, <3>4
    <3>7. m <= k => k = m \/ m <= k - 1
      BY <3>1
    <3>8. g[k] >= h[k] /\ (m <= k => g[k] > h[k])
      BY <3>2, <3>3, <3>5, <3>6, <3>7
    <3>. QED
      BY <3>1, <3>8
  <2>7. Inductive(P, 0, L)
    BY <2>5, <2>6 DEF Inductive
  <2>8. L \in P
    <3>. HIDE DEF P
    <3>1. 0 .. L \subseteq P
      BY <1>1, <2>7, Induction
    <3>. QED
      BY <1>1, <3>1
  <2>. QED
    BY <2>8
<1>. QED
  BY <1>2, <1>3, <1>5, <1>6

LEMMA HigherFirst ==
  ASSUME NEW s \in Seq(Chunks), NEW score \in [Chunks -> Int], NEW a \in ToSet(s), NEW b \in Chunks,
         score[a] > score[b], NEW j \in 1 .. Len(SortedBy(s, score)), SortedBy(s, score)[j] = b
  PROVE  \E i \in 1 .. j - 1 : SortedBy(s, score)[i] = a
<1>. DEFINE r == SortedBy(s, score)
<1>1. r \in Seq(Chunks) /\ ToSet(r) = ToSet(s)
  BY SortedByOrders
<1>2. \A k, l \in 1 .. Len(r) : k < l => score[r[k]] >= score[r[l]]
  BY SortedByOrders
<1>3. j \in 1 .. Len(r) /\ r[j] = b
  OBVIOUS
<1>. HIDE DEF r
<1>4. PICK i \in 1 .. Len(r) : r[i] = a
  BY <1>1, Elements
<1>5. a \in Chunks
  BY <1>1, <1>4
<1>6. score[a] \in Int /\ score[b] \in Int
  BY <1>5
<1>7. i # j /\ ~ (j < i)
  BY <1>2, <1>3, <1>4, <1>6
<1>8. i \in 1 .. j - 1
  BY <1>3, <1>7
<1>. QED
  BY <1>4, <1>8 DEF r

\* RankFuse has what the lists have, the higher total first.
LEMMA RankFuseOrders ==
  ASSUME NEW ranked, NEW weights, Scored(ranked, weights)
  PROVE  /\ RankFuse(ranked, weights) \in Seq(Chunks)
         /\ \A a, b \in Chunks : Above(a, b, ranked) =>
              /\ a \in ToSet(RankFuse(ranked, weights))
              /\ \A j \in 1 .. Len(RankFuse(ranked, weights)) : RankFuse(ranked, weights)[j] = b =>
                   \E i \in 1 .. j - 1 : RankFuse(ranked, weights)[i] = a
<1>. DEFINE s == Distinct(FlattenSeq(ranked))
            score == [c \in Chunks |-> Total(ranked, weights, c)]
            r == SortedBy(s, score)
<1>1. RankFuse(ranked, weights) = r
  BY DEF RankFuse
<1>2. ranked \in Seq(Seq(Chunks)) /\ DOMAIN ranked = 1 .. Len(ranked)
  BY DEF Scored
<1>3. /\ FlattenSeq(ranked) \in Seq(Chunks)
      /\ \A c : c \in ToSet(FlattenSeq(ranked)) <=>
              \E n \in 1 .. Len(ranked) : c \in ToSet(ranked[n])
  BY <1>2, FlattenElements
<1>4. s \in Seq(Chunks) /\ ToSet(s) = ToSet(FlattenSeq(ranked))
  BY <1>3, DistinctElements
<1>5. score \in [Chunks -> Int]
  <2>1. \A c \in Chunks : Total(ranked, weights, c) \in Nat
    BY Dominance
  <2>. QED
    BY <2>1
<1>. HIDE DEF s
<1>6. r \in Seq(Chunks) /\ ToSet(r) = ToSet(s)
  <2>. HIDE DEF score
  <2>. QED
    BY <1>4, <1>5, SortedByOrders
<1>7. ASSUME NEW a \in Chunks, NEW b \in Chunks, Above(a, b, ranked)
      PROVE  a \in ToSet(s) /\ score[a] > score[b]
  <2>1. PICK n \in 1 .. Len(ranked) : b \in ToSet(ranked[n])
    BY <1>2, <1>7 DEF Above
  <2>2. Place(ranked[n], a) # 0
    BY <1>2, <1>7, <2>1 DEF Above
  <2>3. a \in ToSet(ranked[n])
    <3>1. ranked[n] \in Seq(Chunks)
      BY <1>2
    <3>. QED
      BY <2>2, <3>1, PlaceOf
  <2>4. a \in ToSet(s)
    BY <1>3, <1>4, <2>3
  <2>5. Total(ranked, weights, a) > Total(ranked, weights, b)
    BY <1>7, Dominance
  <2>. QED
    BY <2>4, <2>5
<1>8. ASSUME NEW a \in Chunks, NEW b \in Chunks, Above(a, b, ranked)
      PROVE  a \in ToSet(r) /\ \A j \in 1 .. Len(r) : r[j] = b => \E i \in 1 .. j - 1 : r[i] = a
  <2>1. a \in ToSet(s) /\ score[a] > score[b]
    BY <1>7, <1>8
  <2>. HIDE DEF score
  <2>2. ASSUME NEW j \in 1 .. Len(r), r[j] = b PROVE \E i \in 1 .. j - 1 : r[i] = a
    BY <1>4, <1>5, <2>1, <2>2, HigherFirst
  <2>3. a \in ToSet(r)
    BY <1>6, <2>1
  <2>. HIDE DEF r
  <2>. QED
    BY <2>2, <2>3
<1>. HIDE DEF r
<1>. QED
  BY <1>1, <1>6, <1>8

\* A ranking is respected by what is cut from it.
LEMMA CutRespects ==
  ASSUME NEW r \in Seq(Chunks), NEW n \in Nat, NEW a, NEW b, Respects(r, a, b)
  PROVE  Respects(Cut(r, n), a, b)
<1>. DEFINE s == Cut(r, n)
<1>1. /\ s \in Seq(Chunks) /\ Len(s) <= Len(r)
      /\ \A k \in 1 .. Len(s) : s[k] = r[k]
  BY CutLength
<1>. HIDE DEF s
<1>2. DOMAIN r = 1 .. Len(r) /\ DOMAIN s = 1 .. Len(s) /\ Len(r) \in Nat /\ Len(s) \in Nat
  BY <1>1
<1>3. \A k \in 1 .. Len(r) : r[k] = b => \E i \in 1 .. k - 1 : TextOf[r[i]] = TextOf[a]
  BY <1>2 DEF Respects
<1>4. ASSUME NEW j \in 1 .. Len(s), s[j] = b
      PROVE  \E i \in 1 .. j - 1 : TextOf[s[i]] = TextOf[a]
  <2>1. j \in 1 .. Len(r) /\ r[j] = b
    BY <1>1, <1>2, <1>4
  <2>2. PICK i \in 1 .. j - 1 : TextOf[r[i]] = TextOf[a]
    BY <1>3, <2>1
  <2>3. i \in 1 .. Len(s)
    BY <1>2
  <2>. QED
    BY <1>1, <2>2, <2>3
<1>. QED
  BY <1>2, <1>4 DEF Respects, s

LEMMA FirstOfRespects ==
  ASSUME NEW s \in Seq(Chunks), NEW a, NEW b,
         \A j \in 1 .. Len(s) : s[j] = b => \E i \in 1 .. j - 1 : s[i] = a
  PROVE  Respects(FirstOf(s, TextOf), a, b)
<1>. DEFINE r == FirstOf(s, TextOf)
<1>1. r \in Seq(Chunks) /\ \E order : Foremost(r, s, TextOf, order)
  BY FirstOfKeeps
<1>. HIDE DEF r
<1>2. PICK order : Foremost(r, s, TextOf, order)
  BY <1>1
<1>3. ASSUME NEW j \in 1 .. Len(r), r[j] = b
      PROVE  \E i \in 1 .. j - 1 : TextOf[r[i]] = TextOf[a]
  <2>1. order[j] \in 1 .. Len(s) /\ s[order[j]] = b
    BY <1>2, <1>3 DEF Foremost
  <2>2. PICK q \in 1 .. order[j] - 1 : s[q] = a
    BY <2>1
  <2>3. q \in 1 .. Len(s)
    BY <2>1
  <2>4. PICK i \in 1 .. Len(r) : order[i] <= q /\ TextOf[r[i]] = TextOf[s[q]]
    BY <1>2, <2>3 DEF Foremost
  <2>5. order[i] \in 1 .. Len(s) /\ (j < i => order[j] < order[i])
    BY <1>2, <2>4 DEF Foremost
  <2>6. i # j /\ ~ (j < i)
    BY <2>1, <2>2, <2>4, <2>5
  <2>7. i \in 1 .. j - 1
    BY <2>6
  <2>. QED
    BY <2>2, <2>4, <2>7
<1>4. DOMAIN r = 1 .. Len(r)
  BY <1>1
<1>. QED
  BY <1>3, <1>4 DEF Respects, r

(***************************************************************************)
(* The types of the state, and where the rankings of the queries are.      *)
(***************************************************************************)
ListsTyped ==
  /\ lists \in [Paths -> Seq(Chunks)]
  /\ \A p \in Paths : Len(lists[p]) <= TopK[p]

RankingsTyped ==
  /\ perQuery \in Seq(Seq(Chunks)) /\ Len(perQuery) <= QueryCount
  /\ \A n \in 1 .. Len(perQuery) : Len(perQuery[n]) <= FusedTopK

Staged ==
  /\ at \in {"search", "rank", "fuse", "rerank", "compress", "merge", "done"}
  /\ at \in {"search", "rank"} => Len(perQuery) < QueryCount
  /\ at \in {"fuse", "rerank"} => Len(perQuery) = QueryCount
  /\ at \in {"merge", "done"} => perQuery = <<>>
  /\ at = "rerank" => fused = Fused

FusionInv == ListsTyped /\ RankingsTyped /\ Staged /\ fused \in Seq(Chunks)

LEMMA Numbers ==
  /\ QueryCount \in Nat \ {0} /\ FusedTopK \in Nat \ {0} /\ ExpandLimit \in Nat \ {0}
  /\ RerankLimit \in Nat \ {0} /\ EvidenceLimit \in Nat \ {0} /\ Topics \in Nat \ {0}
  /\ MaxSources \in Nat /\ Unit \in Nat /\ TopK \in [Paths -> Nat]
  /\ Paths \subseteq DOMAIN Weight
BY RankingAssumption

LEMMA Weights == \A p \in Paths : Weight[p] \in Nat \ {0}
<1>1. \A p \in DOMAIN Weight : Weight[p] \in Nat \ {0}
  BY DEF Weight
<1>. QED
  BY <1>1, Numbers

LEMMA SearchedPaths == Searched \in Seq(Paths)
<1>. DEFINE I == {n \in DOMAIN InOrder : InOrder[n] \in Paths}
<1>1. InOrder \in Seq(ToSet(InOrder))
  <2>. DEFINE t == InOrder
  <2>1. Len(t) = 12
    BY DEF InOrder
  <2>2. DOMAIN t = 1 .. 12
    BY DEF InOrder
  <2>3. t = [n \in 1 .. 12 |-> t[n]]
    BY DEF InOrder
  <2>4. \A n \in 1 .. 12 : t[n] \in ToSet(InOrder)
    BY <2>2 DEF ToSet
  <2>. HIDE DEF t
  <2>5. [n \in 1 .. 12 |-> t[n]] \in Seq(ToSet(InOrder))
    BY <2>4
  <2>. QED
    BY <2>3, <2>5 DEF t
<1>2. DOMAIN InOrder = 1 .. Len(InOrder)
  BY <1>1
<1>3. I \in SUBSET (1 .. Len(InOrder)) /\ \A i \in I : InOrder[i] \in Paths
  BY <1>2
<1>4. Searched = Pick(InOrder, I)
  BY DEF Searched
<1>. HIDE DEF I
<1>. DEFINE s == Pick(InOrder, I)
<1>5. s \in Seq(ToSet(InOrder)) /\ \E order : Kept(s, InOrder, I, order)
  BY <1>1, <1>3, PickKeeps
<1>. HIDE DEF s
<1>6. PICK order : Kept(s, InOrder, I, order)
  BY <1>5
<1>7. \A k \in 1 .. Len(s) : s[k] \in Paths
  BY <1>3, <1>6 DEF Kept
<1>8. s \in Seq(Paths)
  BY <1>5, <1>7
<1>. QED
  BY <1>4, <1>8 DEF s

SearchWeights == [n \in DOMAIN Searched |-> Weight[Searched[n]]]

LEMMA RankedScored == ListsTyped => Scored(Ranked, SearchWeights)
<1>. SUFFICES ASSUME ListsTyped PROVE Scored(Ranked, SearchWeights)
  OBVIOUS
<1>. DEFINE L == Len(Searched)
<1>1. DOMAIN Searched = 1 .. L /\ L \in Nat /\ \A n \in 1 .. L : Searched[n] \in Paths
  BY SearchedPaths
<1>. HIDE DEF L
<1>2. \A n \in 1 .. L : lists[Searched[n]] \in Seq(Chunks)
  BY <1>1 DEF ListsTyped
<1>3. Ranked = [n \in 1 .. L |-> lists[Searched[n]]]
  BY <1>1 DEF Ranked
<1>4. Ranked \in Seq(Seq(Chunks)) /\ Len(Ranked) = L
  BY <1>1, <1>2, <1>3
<1>5. SearchWeights \in [1 .. L -> Nat \ {0}]
  BY <1>1, Weights DEF SearchWeights
<1>6. ASSUME NEW n \in 1 .. L PROVE \E m \in Nat : Len(Ranked[n]) <= m /\ Finer(m)
  <2>. DEFINE p == Searched[n]
  <2>1. p \in Paths
    BY <1>1
  <2>2. Len(lists[p]) <= TopK[p] /\ TopK[p] \in Nat
    BY <2>1, Numbers DEF ListsTyped
  <2>3. Finer(TopK[p])
    BY <2>1, UnitAssumption
  <2>4. Ranked[n] = lists[p]
    BY <1>3
  <2>. QED
    BY <2>2, <2>3, <2>4
<1>. QED
  BY <1>4, <1>5, <1>6 DEF Scored

LEMMA QueriesScored == RankingsTyped /\ Len(perQuery) = QueryCount => Scored(perQuery, QueryWeights)
<1>. SUFFICES ASSUME RankingsTyped, Len(perQuery) = QueryCount PROVE Scored(perQuery, QueryWeights)
  OBVIOUS
<1>1. QueryWeights \in [1 .. Len(perQuery) -> Nat \ {0}]
  BY DEF QueryWeights
<1>2. FusedTopK \in Nat /\ Finer(FusedTopK)
  BY Numbers, UnitAssumption
<1>. QED
  BY <1>1, <1>2 DEF Scored, RankingsTyped

LEMMA QueryRankingTyped ==
  ListsTyped => QueryRanking \in Seq(Chunks) /\ Len(QueryRanking) <= FusedTopK
<1>. SUFFICES ASSUME ListsTyped PROVE QueryRanking \in Seq(Chunks) /\ Len(QueryRanking) <= FusedTopK
  OBVIOUS
<1>. DEFINE r == RankFuse(Ranked, SearchWeights)
<1>1. r \in Seq(Chunks)
  BY RankedScored, RankFuseOrders
<1>2. QueryRanking = Cut(r, FusedTopK)
  BY DEF QueryRanking, SearchWeights
<1>. HIDE DEF r
<1>3. FusedTopK \in Nat /\ Len(r) \in Nat
  BY <1>1, Numbers
<1>4. /\ Cut(r, FusedTopK) \in Seq(Chunks)
      /\ Len(Cut(r, FusedTopK)) = IF FusedTopK <= Len(r) THEN FusedTopK ELSE Len(r)
  BY <1>1, <1>3, CutLength
<1>. QED
  BY <1>2, <1>3, <1>4

BestScore == [c \in Chunks |-> Total(perQuery, QueryWeights, c) + Bonus(c)]
Best == SortedBy(RankFuse(perQuery, QueryWeights), BestScore)

LEMMA BonusTyped == \A c \in Chunks : Bonus(c) \in Nat
<1>. SUFFICES ASSUME NEW c \in Chunks PROVE Bonus(c) \in Nat
  OBVIOUS
<1>. DEFINE m == Min({3, Matches[c]})
            u == (3 * m + (IF c \in Preferred THEN 4 ELSE 0)) * Unit
<1>1. m \in Nat
  <2>1. Matches[c] \in Nat
    BY RankingAssumption
  <2>2. {3, Matches[c]} \in SUBSET Nat /\ {3, Matches[c]} # {}
    BY <2>1
  <2>. QED
    BY <2>2, SmallestMember
<1>2. Bonus(c) = u \div 100
  BY DEF Bonus
<1>3. u \in Nat
  <2>1. ASSUME NEW x \in Nat, NEW y \in Nat PROVE x * y \in Nat
    OBVIOUS
  <2>. HIDE DEF m
  <2>2. 3 * m + (IF c \in Preferred THEN 4 ELSE 0) \in Nat
    BY <1>1
  <2>. QED
    BY <2>1, <2>2, Numbers
<1>. HIDE DEF u
<1>. QED
  BY <1>2, <1>3, Division

LEMMA BestOrders ==
  RankingsTyped /\ Len(perQuery) = QueryCount =>
    /\ Best \in Seq(Chunks)
    /\ \A a, b \in Chunks : Above(a, b, perQuery) /\ Bonus(a) >= Bonus(b) =>
         \A j \in 1 .. Len(Best) : Best[j] = b => \E i \in 1 .. j - 1 : Best[i] = a
<1>. SUFFICES ASSUME RankingsTyped, Len(perQuery) = QueryCount
              PROVE  /\ Best \in Seq(Chunks)
                     /\ \A a, b \in Chunks : Above(a, b, perQuery) /\ Bonus(a) >= Bonus(b) =>
                          \A j \in 1 .. Len(Best) : Best[j] = b => \E i \in 1 .. j - 1 : Best[i] = a
  OBVIOUS
<1>. DEFINE s == RankFuse(perQuery, QueryWeights)
            total(c) == Total(perQuery, QueryWeights, c)
<1>1. Scored(perQuery, QueryWeights)
  BY QueriesScored
<1>2. s \in Seq(Chunks) /\ \A a, b \in Chunks : Above(a, b, perQuery) => a \in ToSet(s)
  BY <1>1, RankFuseOrders
<1>3. /\ \A c \in Chunks : total(c) \in Nat
      /\ \A a, b \in Chunks : Above(a, b, perQuery) => total(a) > total(b)
  BY <1>1, Dominance
<1>4. BestScore = [c \in Chunks |-> total(c) + Bonus(c)]
  BY DEF BestScore
<1>5. Best = SortedBy(s, BestScore)
  BY DEF Best
<1>. HIDE DEF s, total
<1>6. BestScore \in [Chunks -> Int]
  BY <1>3, <1>4, BonusTyped
<1>7. Best \in Seq(Chunks)
  BY <1>2, <1>5, <1>6, SortedByOrders
<1>8. ASSUME NEW a \in Chunks, NEW b \in Chunks, Above(a, b, perQuery), Bonus(a) >= Bonus(b),
             NEW j \in 1 .. Len(Best), Best[j] = b
      PROVE  \E i \in 1 .. j - 1 : Best[i] = a
  <2>1. BestScore[a] > BestScore[b]
    BY <1>3, <1>4, <1>8, BonusTyped
  <2>. QED
    BY <1>2, <1>5, <1>6, <1>8, <2>1, HigherFirst
<1>. QED
  BY <1>7, <1>8

LEMMA FusedTyped ==
  RankingsTyped /\ Len(perQuery) = QueryCount => Fused \in Seq(Chunks)
<1>. SUFFICES ASSUME RankingsTyped, Len(perQuery) = QueryCount PROVE Fused \in Seq(Chunks)
  OBVIOUS
<1>1. Best \in Seq(Chunks)
  BY BestOrders
<1>2. FirstOf(Best, TextOf) \in Seq(Chunks)
  BY <1>1, FirstOfKeeps
<1>3. Fused = Cut(FirstOf(Best, TextOf), FusedTopK)
  BY DEF Fused, Best, BestScore
<1>. QED
  BY <1>2, <1>3, Numbers, CutLength

LEMMA RankedUndominated == FusionInv => Undominated
<1>. SUFFICES ASSUME FusionInv PROVE Undominated
  OBVIOUS
<1>1. ASSUME NEW a \in Chunks, NEW b \in Chunks, Above(a, b, Ranked)
      PROVE  Respects(QueryRanking, a, b)
  <2>. DEFINE r == RankFuse(Ranked, SearchWeights)
  <2>1. /\ r \in Seq(Chunks)
        /\ \A j \in 1 .. Len(r) : r[j] = b => \E i \in 1 .. j - 1 : r[i] = a
    BY <1>1, RankedScored, RankFuseOrders DEF FusionInv
  <2>2. QueryRanking = Cut(r, FusedTopK)
    BY DEF QueryRanking, SearchWeights
  <2>. HIDE DEF r
  <2>3. Respects(r, a, b)
    <3>1. DOMAIN r = 1 .. Len(r)
      BY <2>1
    <3>2. ASSUME NEW j \in 1 .. Len(r), r[j] = b
          PROVE  \E i \in 1 .. j - 1 : TextOf[r[i]] = TextOf[a]
      BY <2>1, <3>2
    <3>. QED
      BY <3>1, <3>2 DEF Respects
  <2>. QED
    BY <2>1, <2>2, <2>3, Numbers, CutRespects
<1>2. ASSUME at = "rerank", NEW a \in Chunks, NEW b \in Chunks,
             Above(a, b, perQuery), Bonus(a) >= Bonus(b)
      PROVE  Respects(fused, a, b)
  <2>1. fused = Fused /\ RankingsTyped /\ Len(perQuery) = QueryCount
    BY <1>2 DEF FusionInv, Staged
  <2>2. /\ Best \in Seq(Chunks)
        /\ \A j \in 1 .. Len(Best) : Best[j] = b => \E i \in 1 .. j - 1 : Best[i] = a
    BY <1>2, <2>1, BestOrders
  <2>3. Respects(FirstOf(Best, TextOf), a, b)
    BY <2>2, FirstOfRespects
  <2>4. FirstOf(Best, TextOf) \in Seq(Chunks)
    BY <2>2, FirstOfKeeps
  <2>5. Fused = Cut(FirstOf(Best, TextOf), FusedTopK)
    BY DEF Fused, Best, BestScore
  <2>. QED
    BY <2>1, <2>3, <2>4, <2>5, Numbers, CutRespects
<1>. QED
  BY <1>1, <1>2, Zenon DEF Undominated

LEMMA BoundedSequences ==
  ASSUME NEW S, NEW n \in Nat, NEW s \in BoundedSeq(S, n)
  PROVE  s \in Seq(S) /\ Len(s) <= n
<1>1. PICK m \in 0 .. n : s \in [1 .. m -> S]
  BY DEF BoundedSeq, SeqOf
<1>2. m \in Nat /\ s \in Seq(S) /\ Len(s) = m
  BY <1>1
<1>. QED
  BY <1>1, <1>2

LEMMA FusedKept == perQuery' = perQuery => Fused' = Fused
BY DEF Fused, QueryWeights, Bonus

LEMMA FusionInit == RankingInit => FusionInv
<1>. SUFFICES ASSUME RankingInit PROVE FusionInv
  OBVIOUS
<1>1. ListsTyped
  <2>1. \A p \in Paths : Len(<< >>) <= TopK[p]
    BY Numbers
  <2>2. lists = [p \in Paths |-> << >>]
    BY DEF RankingInit, None
  <2>. QED
    BY <2>1, <2>2 DEF ListsTyped
<1>2. perQuery = << >> /\ fused = << >> /\ at = "search"
  BY DEF RankingInit
<1>3. RankingsTyped
  BY <1>2, Numbers DEF RankingsTyped
<1>4. Staged
  BY <1>2, Numbers DEF Staged
<1>5. fused \in Seq(Chunks)
  BY <1>2
<1>. QED
  BY <1>1, <1>3, <1>4, <1>5 DEF FusionInv

LEMMA FusionNext == FusionInv /\ [RankingNext]_rankingVars => FusionInv'
<1>. SUFFICES ASSUME FusionInv, [RankingNext]_rankingVars PROVE FusionInv'
  OBVIOUS
<1>1. ListsTyped /\ RankingsTyped /\ Staged /\ fused \in Seq(Chunks)
  BY DEF FusionInv
<1>2. CASE Search
  <2>1. /\ at = "search" /\ at' = "rank" /\ lists' \in Found
        /\ perQuery' = perQuery /\ fused' = fused
    BY <1>2 DEF Search, question
  <2>2. ListsTyped'
    <3>1. /\ lists' \in [Paths -> UNION {Results(p) : p \in Paths}]
          /\ \A p \in Paths : lists'[p] \in BoundedSeq(Chunks, TopK[p])
      BY <2>1 DEF Found, Results
    <3>2. \A p \in Paths : TopK[p] \in Nat
      BY Numbers
    <3>3. \A p \in Paths : lists'[p] \in Seq(Chunks) /\ Len(lists'[p]) <= TopK[p]
      BY <3>1, <3>2, BoundedSequences
    <3>4. lists' \in [Paths -> Seq(Chunks)]
      BY <3>1, <3>3
    <3>. QED
      BY <3>3, <3>4 DEF ListsTyped
  <2>. QED
    BY <1>1, <2>1, <2>2 DEF FusionInv, RankingsTyped, Staged
<1>3. CASE Rank
  <2>1. /\ at = "rank" /\ perQuery' = Append(perQuery, QueryRanking)
        /\ lists' = [p \in Paths |-> << >>] /\ fused' = fused
        /\ at' = IF Len(perQuery') < QueryCount THEN "search" ELSE "fuse"
    BY <1>3 DEF Rank, None
  <2>2. ListsTyped'
    <3>1. \A p \in Paths : Len(<< >>) <= TopK[p]
      BY Numbers
    <3>. QED
      BY <2>1, <3>1 DEF ListsTyped
  <2>3. QueryRanking \in Seq(Chunks) /\ Len(QueryRanking) <= FusedTopK
    BY <1>1, QueryRankingTyped
  <2>4. Len(perQuery) < QueryCount /\ Len(perQuery) \in Nat
    BY <1>1, <2>1 DEF Staged, RankingsTyped
  <2>5. perQuery \in Seq(Seq(Chunks)) /\ \A n \in 1 .. Len(perQuery) : Len(perQuery[n]) <= FusedTopK
    BY <1>1 DEF RankingsTyped
  <2>. DEFINE s == Append(perQuery, QueryRanking)
  <2>6. /\ s \in Seq(Seq(Chunks)) /\ Len(s) = Len(perQuery) + 1
        /\ \A n \in 1 .. Len(perQuery) : s[n] = perQuery[n]
        /\ s[Len(perQuery) + 1] = QueryRanking
    BY <2>3, <2>5
  <2>. HIDE DEF s
  <2>7. \A n \in 1 .. Len(s) : Len(s[n]) <= FusedTopK
    <3>. SUFFICES ASSUME NEW n \in 1 .. Len(s) PROVE Len(s[n]) <= FusedTopK
      OBVIOUS
    <3>1. n \in 1 .. Len(perQuery) \/ n = Len(perQuery) + 1
      BY <2>4, <2>6
    <3>. QED
      BY <2>3, <2>5, <2>6, <3>1
  <2>8. Len(s) \in Nat /\ Len(s) <= QueryCount
    BY <2>4, <2>6, Numbers
  <2>9. perQuery' = s
    BY <2>1 DEF s
  <2>10. RankingsTyped'
    BY <2>6, <2>7, <2>8, <2>9 DEF RankingsTyped
  <2>11. Staged'
    BY <2>1, <2>8, <2>9, Numbers DEF Staged
  <2>. QED
    BY <1>1, <2>1, <2>2, <2>10, <2>11 DEF FusionInv
<1>4. CASE FuseQueries
  <2>1. /\ at = "fuse" /\ at' = "rerank" /\ fused' = Fused
        /\ lists' = lists /\ perQuery' = perQuery
    BY <1>4 DEF FuseQueries
  <2>2. Fused' = Fused
    BY <2>1, FusedKept
  <2>3. Len(perQuery) = QueryCount
    BY <1>1, <2>1 DEF Staged
  <2>4. fused' \in Seq(Chunks)
    BY <1>1, <2>1, <2>3, FusedTyped
  <2>. QED
    BY <1>1, <2>1, <2>2, <2>3, <2>4 DEF FusionInv, ListsTyped, RankingsTyped, Staged
<1>5. CASE Rerank \/ Fallback
  <2>1. /\ at = "rerank" /\ at' = "compress" /\ fused' = fused
        /\ lists' = lists /\ perQuery' = perQuery
    BY <1>5 DEF Rerank, Fallback
  <2>. QED
    BY <1>1, <2>1 DEF FusionInv, ListsTyped, RankingsTyped, Staged
<1>6. CASE Compress
  <2>1. /\ at = "compress" /\ at' = "merge" /\ fused' = << >>
        /\ lists' = lists /\ perQuery' = << >>
    BY <1>6 DEF Compress
  <2>2. RankingsTyped'
    BY <2>1, Numbers DEF RankingsTyped
  <2>3. fused' \in Seq(Chunks)
    BY <2>1
  <2>. QED
    BY <1>1, <2>1, <2>2, <2>3 DEF FusionInv, ListsTyped, Staged
<1>7. CASE Merge \/ NextQuestion
  <2>1. /\ at \in {"merge", "done"} /\ at' \in {"done", "search"} /\ fused' = fused
        /\ lists' = lists /\ perQuery' = perQuery
    BY <1>7 DEF Merge, NextQuestion
  <2>2. perQuery = << >>
    BY <1>1, <2>1 DEF Staged
  <2>3. Staged'
    BY <2>1, <2>2, Numbers DEF Staged
  <2>. QED
    BY <1>1, <2>1, <2>3 DEF FusionInv, ListsTyped, RankingsTyped
<1>8. CASE UNCHANGED rankingVars
  <2>1. /\ at' = at /\ fused' = fused /\ lists' = lists /\ perQuery' = perQuery
    BY <1>8 DEF rankingVars, question
  <2>2. Fused' = Fused
    BY <2>1, FusedKept
  <2>. QED
    BY <1>1, <2>1, <2>2 DEF FusionInv, ListsTyped, RankingsTyped, Staged
<1>. QED
  BY <1>2, <1>3, <1>4, <1>5, <1>6, <1>7, <1>8 DEF RankingNext

(***************************************************************************)
(* A chunk that every search ranks above another, and that has as much of  *)
(* a bonus, is not outranked by it: RankFuse puts the higher total first,  *)
(* and neither the removal of equal texts nor a cut changes the order.     *)
(***************************************************************************)
THEOREM RespectsRankings == RankingSpec => []Undominated
<1>1. RankingInit => FusionInv
  BY FusionInit
<1>2. FusionInv /\ [RankingNext]_rankingVars => FusionInv'
  BY FusionNext
<1>3. FusionInv => Undominated
  BY RankedUndominated
<1>. QED
  BY <1>1, <1>2, <1>3, PTL DEF RankingSpec

(***************************************************************************)
(* Expansion and reranking.                                                *)
(***************************************************************************)
Injective(s) == \A k, l \in 1 .. Len(s) : s[k] = s[l] => k = l

\* A sequence that repeats nothing has as many places as elements.
LEMMA InjectiveLength ==
  ASSUME NEW S, NEW s \in Seq(S), Injective(s)
  PROVE  IsFiniteSet(ToSet(s)) /\ Cardinality(ToSet(s)) = Len(s)
<1>1. Len(s) \in Nat /\ s \in [1 .. Len(s) -> ToSet(s)]
  <2>1. \A i \in 1 .. Len(s) : s[i] \in ToSet(s)
    BY Elements
  <2>2. Len(s) \in Nat /\ DOMAIN s = 1 .. Len(s) /\ s = [i \in 1 .. Len(s) |-> s[i]]
    OBVIOUS
  <2>. QED
    BY <2>1, <2>2
<1>2. s \in Surjection(1 .. Len(s), ToSet(s))
  BY <1>1, Elements DEF Surjection
<1>3. s \in Injection(1 .. Len(s), ToSet(s))
  BY <1>1 DEF Injection, IsInjective, Injective
<1>4. IsFiniteSet(1 .. Len(s)) /\ Cardinality(1 .. Len(s)) = Len(s)
  BY <1>1, FS_Interval
<1>. QED
  BY <1>2, <1>3, <1>4, FS_Surjection

LEMMA DistinctLength ==
  ASSUME NEW S, NEW s \in Seq(S)
  PROVE  /\ Injective(Distinct(s)) /\ Distinct(s) \in Seq(S)
         /\ IsFiniteSet(ToSet(s)) /\ Len(Distinct(s)) = Cardinality(ToSet(s))
<1>1. Distinct(s) \in Seq(S) /\ Injective(Distinct(s)) /\ ToSet(Distinct(s)) = ToSet(s)
  BY DistinctElements DEF Injective
<1>. QED
  BY <1>1, InjectiveLength

LEMMA CutInjective ==
  ASSUME NEW S, NEW s \in Seq(S), Injective(s), NEW n \in Nat
  PROVE  Injective(Cut(s, n)) /\ ToSet(Cut(s, n)) \subseteq ToSet(s)
<1>1. /\ Cut(s, n) \in Seq(S) /\ Len(s) \in Nat /\ Len(Cut(s, n)) <= Len(s)
      /\ \A k \in 1 .. Len(Cut(s, n)) : Cut(s, n)[k] = s[k]
  BY CutLength
<1>. DEFINE t == Cut(s, n)
<1>. HIDE DEF t
<1>2. /\ t \in Seq(S) /\ Len(t) \in Nat /\ Len(t) <= Len(s)
      /\ \A k \in 1 .. Len(t) : k \in 1 .. Len(s) /\ t[k] = s[k]
  BY <1>1 DEF t
<1>3. Injective(t)
  BY <1>2 DEF Injective
<1>4. ToSet(t) \subseteq ToSet(s)
  <2>1. \A c : c \in ToSet(t) <=> \E k \in 1 .. Len(t) : t[k] = c
    BY <1>2, Elements
  <2>2. \A c : c \in ToSet(s) <=> \E k \in 1 .. Len(s) : s[k] = c
    BY Elements
  <2>. QED
    BY <1>2, <2>1, <2>2
<1>. QED
  BY <1>3, <1>4 DEF t

EvidencesOf(C) == {EvidenceOf[c] : c \in C}

\* No more than two chunks of an evidence unit.
AtMostTwo(C) ==
  \E f, g : \A c \in C : c = f[EvidenceOf[c]] \/ c = g[EvidenceOf[c]]

LEMMA EvidenceCount ==
  ASSUME NEW C, IsFiniteSet(C)
  PROVE  /\ IsFiniteSet(EvidencesOf(C))
         /\ AtMostTwo(C) => Cardinality(C) <= 2 * Cardinality(EvidencesOf(C))
<1>. DEFINE E == EvidencesOf(C)
<1>1. [c \in C |-> EvidenceOf[c]] \in Surjection(C, E)
  BY DEF Surjection, EvidencesOf
<1>2. IsFiniteSet(E)
  BY <1>1, FS_Surjection
<1>3. ASSUME AtMostTwo(C) PROVE Cardinality(C) <= 2 * Cardinality(E)
  <2>1. PICK f, g : \A c \in C : c = f[EvidenceOf[c]] \/ c = g[EvidenceOf[c]]
    BY <1>3 DEF AtMostTwo
  <2>. DEFINE side(c) == IF c = f[EvidenceOf[c]] THEN 1 ELSE 2
              h == [c \in C |-> <<EvidenceOf[c], side(c)>>]
  <2>2. \A c \in C : EvidenceOf[c] \in E /\ side(c) \in 1 .. 2
    BY DEF EvidencesOf
  <2>3. ASSUME NEW c \in C, NEW d \in C, EvidenceOf[c] = EvidenceOf[d], side(c) = side(d)
        PROVE  c = d
    BY <2>1, <2>3
  <2>. HIDE DEF side, E
  <2>4. h \in [C -> E \X (1 .. 2)]
    BY <2>2
  <2>5. ASSUME NEW c \in C, NEW d \in C, h[c] = h[d] PROVE c = d
    <3>1. EvidenceOf[c] = EvidenceOf[d] /\ side(c) = side(d)
      BY <2>5
    <3>. QED
      BY <2>3, <3>1
  <2>6. h \in Injection(C, E \X (1 .. 2))
    BY <2>4, <2>5 DEF Injection, IsInjective
  <2>7. IsFiniteSet(1 .. 2) /\ Cardinality(1 .. 2) = 2
    <3>1. PICK m \in Int, n \in Int : m = 1 /\ n = 2
      OBVIOUS
    <3>2. IsFiniteSet(m .. n) /\ Cardinality(m .. n) = IF m > n THEN 0 ELSE n - m + 1
      BY FS_Interval
    <3>3. ~ (m > n) /\ n - m + 1 = 2
      BY <3>1
    <3>4. Cardinality(m .. n) = n - m + 1
      BY <3>2, <3>3
    <3>. QED
      BY <3>1, <3>2, <3>3, <3>4, Zenon
  <2>8. IsFiniteSet(E \X (1 .. 2)) /\ Cardinality(E \X (1 .. 2)) = Cardinality(E) * 2
    BY <1>2, <2>7, FS_Product
  <2>9. Cardinality(C) <= Cardinality(E \X (1 .. 2))
    BY <2>6, <2>8, FS_Injection
  <2>10. Cardinality(E) \in Nat
    BY <1>2, FS_CardinalityType
  <2>. QED
    BY <2>8, <2>9, <2>10
<1>. QED
  BY <1>2, <1>3

\* limit_candidates_per_evidence keeps every evidence unit, with two chunks.
LEMMA LimitKeeps ==
  ASSUME NEW s \in Seq(Chunks)
  PROVE  /\ LimitPerEvidence(s) \in Seq(Chunks)
         /\ Injective(s) => Injective(LimitPerEvidence(s))
         /\ EvidencesOf(ToSet(LimitPerEvidence(s))) = EvidencesOf(ToSet(s))
         /\ AtMostTwo(ToSet(LimitPerEvidence(s)))
<1>. DEFINE Same(i) == {j \in DOMAIN s : EvidenceOf[s[j]] = EvidenceOf[s[i]]}
            First(i) == Min(Same(i))
            Others(i) == {j \in Same(i) : KindOf[s[j]] # KindOf[s[First(i)]]}
            Second(i) == IF Others(i) # {} THEN Min(Others(i)) ELSE Min(Same(i) \ {First(i)})
            I == {i \in DOMAIN s : i = First(i) \/ i = Second(i)}
            t == LimitPerEvidence(s)
<1>1. t = Pick(s, I)
  BY Zenon DEF LimitPerEvidence
<1>2. DOMAIN s = 1 .. Len(s) /\ I \in SUBSET (1 .. Len(s))
  OBVIOUS
<1>3. ASSUME NEW i \in 1 .. Len(s)
      PROVE  First(i) \in I /\ EvidenceOf[s[First(i)]] = EvidenceOf[s[i]]
  <2>1. Same(i) \in SUBSET Nat /\ Same(i) # {}
    BY <1>2
  <2>2. First(i) \in Same(i)
    BY <2>1, SmallestMember
  <2>3. First(i) \in DOMAIN s /\ EvidenceOf[s[First(i)]] = EvidenceOf[s[i]]
    BY <2>2
  <2>4. Same(First(i)) = Same(i)
    BY <2>3
  <2>5. First(First(i)) = First(i)
    BY <2>4
  <2>. QED
    BY <2>3, <2>5
<1>4. ASSUME NEW i \in 1 .. Len(s), NEW j \in 1 .. Len(s), EvidenceOf[s[i]] = EvidenceOf[s[j]]
      PROVE  First(i) = First(j) /\ Second(i) = Second(j)
  <2>1. Same(i) = Same(j)
    BY <1>4
  <2>2. First(i) = First(j)
    BY <2>1
  <2>3. Others(i) = Others(j)
    BY <2>1, <2>2
  <2>. HIDE DEF Same, First, Others
  <2>. QED
    BY <2>1, <2>2, <2>3
<1>5. \A i \in I : i = First(i) \/ i = Second(i)
  OBVIOUS
<1>. HIDE DEF I, First, Second, Same, Others
<1>6. t \in Seq(Chunks) /\ \E order : Kept(t, s, I, order)
  BY <1>1, <1>2, PickKeeps
<1>. HIDE DEF t
<1>7. PICK order : Kept(t, s, I, order)
  BY <1>6
<1>8. /\ \A k \in 1 .. Len(t) : order[k] \in I /\ order[k] \in 1 .. Len(s) /\ t[k] = s[order[k]]
      /\ \A k, l \in 1 .. Len(t) : k < l => order[k] < order[l]
      /\ \A i \in I : \E k \in 1 .. Len(t) : order[k] = i
  BY <1>2, <1>7 DEF Kept
<1>9. /\ \A c : c \in ToSet(t) <=> \E k \in 1 .. Len(t) : t[k] = c
      /\ \A c : c \in ToSet(s) <=> \E k \in 1 .. Len(s) : s[k] = c
  BY <1>6, Elements
<1>10. ASSUME Injective(s) PROVE Injective(t)
  <2>. SUFFICES ASSUME NEW k \in 1 .. Len(t), NEW l \in 1 .. Len(t), t[k] = t[l], k < l PROVE FALSE
    BY DEF Injective
  <2>1. s[order[k]] = s[order[l]] /\ order[k] \in 1 .. Len(s) /\ order[l] \in 1 .. Len(s)
    BY <1>8
  <2>2. order[k] = order[l]
    BY <1>10, <2>1 DEF Injective
  <2>. QED
    BY <1>8, <2>1, <2>2
<1>11. EvidencesOf(ToSet(t)) = EvidencesOf(ToSet(s))
  <2>1. ToSet(t) \subseteq ToSet(s)
    BY <1>8, <1>9
  <2>2. ASSUME NEW i \in 1 .. Len(s)
        PROVE  \E k \in 1 .. Len(t) : EvidenceOf[t[k]] = EvidenceOf[s[i]]
    <3>1. First(i) \in I /\ EvidenceOf[s[First(i)]] = EvidenceOf[s[i]]
      BY <1>3
    <3>2. PICK k \in 1 .. Len(t) : order[k] = First(i)
      BY <1>8, <3>1
    <3>. QED
      BY <1>8, <3>1, <3>2
  <2>3. \A c \in ToSet(s) : \E d \in ToSet(t) : EvidenceOf[d] = EvidenceOf[c]
    BY <1>9, <2>2
  <2>. QED
    BY <2>1, <2>3 DEF EvidencesOf
<1>12. AtMostTwo(ToSet(t))
  <2>. DEFINE at1(e) == CHOOSE i \in 1 .. Len(s) : EvidenceOf[s[i]] = e
              f == [e \in EvidencesOf(ToSet(t)) |-> s[First(at1(e))]]
              g == [e \in EvidencesOf(ToSet(t)) |-> s[Second(at1(e))]]
  <2>1. ASSUME NEW c \in ToSet(t) PROVE c = f[EvidenceOf[c]] \/ c = g[EvidenceOf[c]]
    <3>1. PICK k \in 1 .. Len(t) : t[k] = c
      BY <1>9
    <3>. DEFINE i == order[k]
                e == EvidenceOf[c]
    <3>2. i \in I /\ i \in 1 .. Len(s) /\ s[i] = c
      BY <1>8, <3>1
    <3>3. at1(e) \in 1 .. Len(s) /\ EvidenceOf[s[at1(e)]] = EvidenceOf[s[i]]
      BY <3>2
    <3>. HIDE DEF i, at1
    <3>4. First(at1(e)) = First(i) /\ Second(at1(e)) = Second(i)
      BY <1>4, <3>2, <3>3
    <3>5. e \in EvidencesOf(ToSet(t))
      BY DEF EvidencesOf
    <3>6. f[e] = s[First(i)] /\ g[e] = s[Second(i)]
      BY <3>4, <3>5
    <3>. QED
      BY <1>5, <3>2, <3>6
  <2>. HIDE DEF f, g
  <2>. QED
    BY <2>1 DEF AtMostTwo
<1>. QED
  BY <1>6, <1>10, <1>11, <1>12 DEF t

\* The smaller and the greater of two numbers.
LEMMA Extremes ==
  ASSUME NEW a \in Nat, NEW b \in Nat
  PROVE  /\ Min({a, b}) = IF a <= b THEN a ELSE b
         /\ Max({a, b}) \in {a, b}
<1>1. Min({a, b}) \in {a, b} /\ \A y \in {a, b} : Min({a, b}) <= y
  BY SmallestMember
<1>2. Min({a, b}) = IF a <= b THEN a ELSE b
  <2>1. PICK m \in {a, b} : m = Min({a, b}) /\ \A y \in {a, b} : m <= y
    BY <1>1
  <2>2. m = IF a <= b THEN a ELSE b
    BY <2>1
  <2>. QED
    BY <2>1, <2>2
<1>3. Max({a, b}) \in {a, b}
  <2>1. \E x \in {a, b} : \A y \in {a, b} : x >= y
    <3>1. CASE a >= b
      BY <3>1
    <3>2. CASE b >= a
      BY <3>2
    <3>. QED
      BY <3>1, <3>2
  <2>. QED
    BY <2>1 DEF Max
<1>. QED
  BY <1>2, <1>3

LEMMA ExpandKeeps ==
  ASSUME NEW s \in Seq(Chunks)
  PROVE  Expand(s) \in Seq(Chunks) /\ Injective(Expand(s))
<1>. DEFINE seeds == Seeds(s)
            near == [n \in DOMAIN seeds |-> Neighbours[seeds[n]]]
            both == seeds \o FlattenSeq(near)
            d == Distinct(both)
<1>1. Max({1, ExpandLimit \div 2}) \in Nat
  <2>1. ExpandLimit \div 2 \in Nat
    BY Numbers, Division
  <2>2. Max({1, ExpandLimit \div 2}) \in {1, ExpandLimit \div 2}
    BY <2>1, Extremes
  <2>. QED
    BY <2>1, <2>2
<1>2. seeds \in Seq(Chunks)
  BY <1>1, CutLength DEF Seeds
<1>. HIDE DEF seeds
<1>3. near \in Seq(Seq(Chunks))
  <2>1. DOMAIN seeds = 1 .. Len(seeds) /\ Len(seeds) \in Nat
        /\ \A n \in 1 .. Len(seeds) : seeds[n] \in Chunks
    BY <1>2
  <2>2. \A n \in 1 .. Len(seeds) : Neighbours[seeds[n]] \in Seq(Chunks)
    BY <2>1, RankingAssumption
  <2>3. near = [n \in 1 .. Len(seeds) |-> Neighbours[seeds[n]]]
    BY <2>1
  <2>. QED
    BY <2>1, <2>2, <2>3
<1>. HIDE DEF near
<1>4. FlattenSeq(near) \in Seq(Chunks)
  BY <1>3, FlattenElements
<1>5. both \in Seq(Chunks)
  BY <1>2, <1>4, Concatenation
<1>. HIDE DEF both
<1>6. d \in Seq(Chunks) /\ Injective(d)
  BY <1>5, DistinctLength
<1>. HIDE DEF d
<1>7. LimitPerEvidence(d) \in Seq(Chunks) /\ Injective(LimitPerEvidence(d))
  BY <1>6, LimitKeeps
<1>8. Expand(s) = Cut(LimitPerEvidence(d), ExpandLimit)
  BY Zenon DEF Expand, d, both, near, seeds
<1>9. ExpandLimit \in Nat
  BY Numbers
<1>10. Cut(LimitPerEvidence(d), ExpandLimit) \in Seq(Chunks)
  BY <1>7, <1>9, CutLength
<1>. QED
  BY <1>7, <1>8, <1>9, <1>10, CutInjective

\* Whatever the order of the candidates: as many evidence units as there are, up
\* to the limit, or one for every two places.
LEMMA ResolveKeeps ==
  ASSUME NEW t \in Seq(Chunks), Injective(t), AtMostTwo(ToSet(t))
  PROVE  Len(Resolve(Cut(t, RerankLimit))) >=
           Min({EvidenceLimit, (RerankLimit + 1) \div 2, Cardinality(EvidencesOf(ToSet(t)))})
<1>. DEFINE u == Cut(t, RerankLimit)
            v == [n \in DOMAIN u |-> EvidenceOf[u[n]]]
            d == Distinct(v)
            n == Cardinality(EvidencesOf(ToSet(t)))
            half == (RerankLimit + 1) \div 2
<1>1. RerankLimit \in Nat /\ EvidenceLimit \in Nat
  BY Numbers
<1>2. /\ u \in Seq(Chunks)
      /\ Len(u) = IF RerankLimit <= Len(t) THEN RerankLimit ELSE Len(t)
      /\ \A k \in 1 .. Len(u) : u[k] = t[k]
  BY <1>1, CutLength
<1>3. Injective(u) /\ ToSet(u) \subseteq ToSet(t)
  BY <1>1, CutInjective
<1>4. Resolve(u) = Cut(d, EvidenceLimit)
  BY DEF Resolve
<1>. HIDE DEF u
<1>5. v \in Seq(Evidences) /\ ToSet(v) = EvidencesOf(ToSet(u))
  <2>1. DOMAIN u = 1 .. Len(u) /\ Len(u) \in Nat /\ \A k \in 1 .. Len(u) : u[k] \in Chunks
    BY <1>2
  <2>2. \A k \in 1 .. Len(u) : EvidenceOf[u[k]] \in Evidences
    BY <2>1, RankingAssumption
  <2>3. v = [k \in 1 .. Len(u) |-> EvidenceOf[u[k]]]
    BY <2>1
  <2>4. v \in Seq(Evidences) /\ Len(v) = Len(u) /\ \A k \in 1 .. Len(u) : v[k] = EvidenceOf[u[k]]
    BY <2>1, <2>2, <2>3
  <2>. HIDE DEF v
  <2>5. /\ \A c : c \in ToSet(v) <=> \E k \in 1 .. Len(v) : v[k] = c
        /\ \A c : c \in ToSet(u) <=> \E k \in 1 .. Len(u) : u[k] = c
    BY <1>2, <2>4, Elements
  <2>6. \A c : c \in ToSet(v) <=> \E x \in ToSet(u) : EvidenceOf[x] = c
    BY <2>4, <2>5
  <2>. QED
    BY <2>4, <2>6 DEF EvidencesOf
<1>. HIDE DEF v
<1>6. d \in Seq(Evidences) /\ Len(d) = Cardinality(EvidencesOf(ToSet(u)))
  BY <1>5, DistinctLength
<1>. HIDE DEF d
<1>7. /\ IsFiniteSet(ToSet(t)) /\ Cardinality(ToSet(t)) = Len(t)
      /\ IsFiniteSet(ToSet(u)) /\ Cardinality(ToSet(u)) = Len(u)
  BY <1>2, <1>3, InjectiveLength
<1>8. IsFiniteSet(EvidencesOf(ToSet(t))) /\ IsFiniteSet(EvidencesOf(ToSet(u)))
  BY <1>7, EvidenceCount
<1>9. n \in Nat /\ Len(d) <= n
  <2>1. EvidencesOf(ToSet(u)) \in SUBSET EvidencesOf(ToSet(t))
    BY <1>3 DEF EvidencesOf
  <2>. QED
    BY <1>6, <1>8, <2>1, FS_Subset, FS_CardinalityType
<1>10. Len(Cut(d, EvidenceLimit)) = IF EvidenceLimit <= Len(d) THEN EvidenceLimit ELSE Len(d)
  BY <1>1, <1>6, CutLength
<1>11. half \in Nat /\ \A l \in Nat : RerankLimit <= 2 * l => half <= l
  BY <1>1
<1>. HIDE DEF half
<1>15. PICK least \in Nat : /\ least = Min({EvidenceLimit, half, n})
                           /\ least <= EvidenceLimit /\ least <= half /\ least <= n
  <2>. HIDE DEF n
  <2>1. {EvidenceLimit, half, n} \in SUBSET Nat /\ {EvidenceLimit, half, n} # {}
    BY <1>1, <1>9, <1>11
  <2>. QED
    BY <2>1, SmallestMember
<1>12. Len(d) \in Nat /\ Len(t) \in Nat /\ Len(u) \in Nat
  BY <1>2, <1>6
<1>13. CASE Len(t) <= RerankLimit
  <2>1. Len(u) = Len(t)
    BY <1>1, <1>2, <1>12, <1>13
  <2>2. ToSet(u) = ToSet(t)
    <3>1. /\ \A c : c \in ToSet(t) <=> \E k \in 1 .. Len(t) : t[k] = c
          /\ \A c : c \in ToSet(u) <=> \E k \in 1 .. Len(u) : u[k] = c
      BY <1>2, Elements
    <3>2. \A c : c \in ToSet(u) <=> c \in ToSet(t)
      BY <1>2, <2>1, <3>1
    <3>. QED
      BY <3>2
  <2>3. Len(d) = n
    BY <1>6, <2>2
  <2>. HIDE DEF n
  <2>4. Len(Cut(d, EvidenceLimit)) >= least
    BY <1>1, <1>10, <1>12, <1>15, <2>3
  <2>. QED
    BY <1>4, <1>15, <2>4 DEF u, n, half
<1>14. CASE ~ (Len(t) <= RerankLimit)
  <2>1. Len(u) = RerankLimit
    BY <1>1, <1>2, <1>12, <1>14
  <2>2. AtMostTwo(ToSet(u))
    BY <1>3, Zenon DEF AtMostTwo
  <2>3. Cardinality(ToSet(u)) <= 2 * Cardinality(EvidencesOf(ToSet(u)))
    BY <1>7, <2>2, EvidenceCount
  <2>4. RerankLimit <= 2 * Len(d)
    BY <1>6, <1>7, <2>1, <2>3
  <2>5. half <= Len(d)
    BY <1>11, <1>12, <2>4
  <2>6. Len(Cut(d, EvidenceLimit)) >= least
    BY <1>1, <1>10, <1>11, <1>12, <1>15, <2>5
  <2>. HIDE DEF n
  <2>. QED
    BY <1>4, <1>15, <2>6 DEF u, n, half
<1>. QED
  BY <1>13, <1>14

LEMMA CandidatesKeep ==
  ASSUME NEW s \in Seq(Chunks)
  PROVE  /\ Candidates(s) \in Seq(Chunks) /\ Injective(Candidates(s))
         /\ AtMostTwo(ToSet(Candidates(s)))
         /\ EvidencesOf(ToSet(Candidates(s))) = EvidencesOf(ToSet(Expand(s)))
BY ExpandKeeps, LimitKeeps DEF Candidates

EvidenceKept(e, s) ==
  Len(e) >= Min({EvidenceLimit, (RerankLimit + 1) \div 2,
                 Cardinality(EvidencesOf(ToSet(Expand(s))))})

LEMMA RerankKeeps ==
  ASSUME fused \in Seq(Chunks), Rerank \/ Fallback
  PROVE  EvidenceKept(evidence', fused)
<1>. DEFINE s == Candidates(fused)
            C == ToSet(s)
<1>1. /\ s \in Seq(Chunks) /\ Injective(s) /\ AtMostTwo(C)
      /\ EvidencesOf(C) = EvidencesOf(ToSet(Expand(fused)))
  BY CandidatesKeep
<1>2. CASE Rerank
  <2>1. PICK order \in SetToSeqs(C) : evidence' = Resolve(Cut(order, RerankLimit))
    BY <1>2 DEF Rerank
  <2>2. IsFiniteSet(C) /\ Cardinality(C) \in Nat /\ C \subseteq Chunks
    BY <1>1, InjectiveLength, Elements, FS_CardinalityType
  <2>. HIDE DEF s, C
  <2>3. /\ order \in [1 .. Cardinality(C) -> C]
        /\ \A i, j \in 1 .. Cardinality(C) : i # j => order[i] # order[j]
    BY <2>1 DEF SetToSeqs
  <2>4. order \in Seq(C) /\ order \in Seq(Chunks) /\ Len(order) = Cardinality(C)
    BY <2>2, <2>3
  <2>5. Injective(order)
    BY <2>3, <2>4 DEF Injective
  <2>6. ToSet(order) = C
    <3>1. ToSet(order) \in SUBSET C
      BY <2>4, Elements
    <3>2. Cardinality(ToSet(order)) = Cardinality(C)
      BY <2>4, <2>5, InjectiveLength
    <3>. QED
      BY <2>2, <3>1, <3>2, FS_Subset
  <2>. QED
    BY <1>1, <2>1, <2>4, <2>5, <2>6, ResolveKeeps DEF EvidenceKept
<1>3. CASE Fallback
  <2>1. evidence' = Resolve(Cut(s, RerankLimit))
    BY <1>3 DEF Fallback
  <2>. HIDE DEF s
  <2>. QED
    BY <1>1, <2>1, ResolveKeeps DEF EvidenceKept
<1>. QED
  BY <1>2, <1>3

(***************************************************************************)
(* The merge of the aspects.                                               *)
(***************************************************************************)
Aspects(ranked) == ranked \in Seq(Seq(Evidences)) /\ Len(ranked) = Topics

\* It starts with a round of the best of each aspect that found anything.
Opening(ranked, all, m) ==
  /\ all \in Seq(Evidences) /\ m \in 0 .. Len(all)
  /\ \A k \in 1 .. Topics : Len(ranked[k]) # 0 =>
       \E i \in 1 .. m : all[i] = ranked[k][1]
  /\ \A i \in 1 .. m : \E k \in 1 .. Topics : Len(ranked[k]) # 0 /\ all[i] = ranked[k][1]

LEMMA RoundRobinStarts ==
  ASSUME NEW ranked, Aspects(ranked)
  PROVE  /\ RoundRobin(ranked) \in Seq(Evidences)
         /\ \E all, m : Opening(ranked, all, m) /\ RoundRobin(ranked) = Distinct(all)
<1>. DEFINE at2(d, k) == IF d <= Len(ranked[k]) THEN <<ranked[k][d]>> ELSE <<>>
            Round(d) == [k \in DOMAIN ranked |-> at2(d, k)]
            rounds == [d \in 1 .. EvidenceLimit |-> FlattenSeq(Round(d))]
            all == FlattenSeq(rounds)
<1>1. RoundRobin(ranked) = Distinct(all)
  BY Zenon DEF RoundRobin
<1>2. /\ DOMAIN ranked = 1 .. Topics /\ Topics \in Nat \ {0} /\ EvidenceLimit \in Nat \ {0}
      /\ \A k \in 1 .. Topics : ranked[k] \in Seq(Evidences) /\ Len(ranked[k]) \in Nat
  BY Numbers DEF Aspects
<1>3. \A d \in 1 .. EvidenceLimit, k \in 1 .. Topics :
        at2(d, k) \in Seq(Evidences) /\ Len(at2(d, k)) <= 1
  <2>. SUFFICES ASSUME NEW d \in 1 .. EvidenceLimit, NEW k \in 1 .. Topics
                PROVE  at2(d, k) \in Seq(Evidences) /\ Len(at2(d, k)) <= 1
    OBVIOUS
  <2>1. CASE d <= Len(ranked[k])
    <3>1. ranked[k][d] \in Evidences
      BY <1>2, <2>1
    <3>2. <<ranked[k][d]>> \in Seq(Evidences) /\ Len(<<ranked[k][d]>>) <= 1
      BY <3>1
    <3>. QED
      BY <2>1, <3>2
  <2>2. CASE ~ (d <= Len(ranked[k]))
    BY <2>2
  <2>. QED
    BY <2>1, <2>2
<1>4. \A k \in 1 .. Topics :
        at2(1, k) = IF Len(ranked[k]) # 0 THEN <<ranked[k][1]>> ELSE <<>>
  BY <1>2
<1>. HIDE DEF at2
<1>5. ASSUME NEW d \in 1 .. EvidenceLimit
      PROVE  /\ Round(d) \in Seq(Seq(Evidences)) /\ Len(Round(d)) = Topics
             /\ \A k \in 1 .. Topics : Round(d)[k] = at2(d, k)
  <2>1. Round(d) = [k \in 1 .. Topics |-> at2(d, k)]
    BY <1>2
  <2>2. \A k \in 1 .. Topics : at2(d, k) \in Seq(Evidences)
    BY <1>3
  <2>. HIDE DEF Round
  <2>3. Round(d) \in Seq(Seq(Evidences)) /\ Len(Round(d)) = Topics
    BY <1>2, <2>1, <2>2
  <2>4. \A k \in 1 .. Topics : Round(d)[k] = at2(d, k)
    BY <2>1
  <2>. QED
    BY <2>3, <2>4
<1>. HIDE DEF Round
<1>6. \A d \in 1 .. EvidenceLimit : FlattenSeq(Round(d)) \in Seq(Evidences)
  BY <1>5, FlattenElements
<1>7. rounds \in Seq(Seq(Evidences)) /\ Len(rounds) = EvidenceLimit
      /\ \A d \in 1 .. EvidenceLimit : rounds[d] = FlattenSeq(Round(d))
  BY <1>2, <1>6
<1>. HIDE DEF rounds
<1>8. all \in Seq(Evidences)
  BY <1>7, FlattenElements
<1>9. 1 \in 1 .. EvidenceLimit /\ Len(rounds) # 0
  BY <1>2, <1>7
<1>11. /\ Len(rounds[1]) <= Len(all)
       /\ \A i \in 1 .. Len(rounds[1]) : all[i] = rounds[1][i]
  BY <1>7, <1>9, FlattenStart
<1>. HIDE DEF all
<1>10. rounds[1] \in Seq(Evidences) /\ Len(rounds[1]) \in 0 .. Len(all)
  <2>1. rounds[1] \in Seq(Evidences)
    BY <1>7, <1>9
  <2>2. Len(rounds[1]) \in Nat /\ Len(all) \in Nat
    BY <1>8, <2>1
  <2>. QED
    BY <1>11, <2>1, <2>2
<1>12. ASSUME NEW e
       PROVE  e \in ToSet(rounds[1]) <=>
                \E k \in 1 .. Topics : Len(ranked[k]) # 0 /\ e = ranked[k][1]
  <2>1. e \in ToSet(rounds[1]) <=> \E k \in 1 .. Topics : e \in ToSet(at2(1, k))
    <3>1. /\ Round(1) \in Seq(Seq(Evidences)) /\ Len(Round(1)) = Topics
          /\ \A k \in 1 .. Topics : Round(1)[k] = at2(1, k)
      BY <1>5, <1>9
    <3>2. \A c : c \in ToSet(FlattenSeq(Round(1))) <=>
                   \E n \in 1 .. Len(Round(1)) : c \in ToSet(Round(1)[n])
      BY <3>1, FlattenElements
    <3>3. rounds[1] = FlattenSeq(Round(1))
      BY <1>7, <1>9
    <3>. QED
      BY <3>1, <3>2, <3>3
  <2>2. ASSUME NEW k \in 1 .. Topics
        PROVE  e \in ToSet(at2(1, k)) <=> Len(ranked[k]) # 0 /\ e = ranked[k][1]
    <3>1. ToSet(<<ranked[k][1]>>) = {ranked[k][1]} /\ ToSet(<<>>) = {}
      BY DEF ToSet
    <3>2. CASE Len(ranked[k]) # 0
      <4>1. ToSet(at2(1, k)) = {ranked[k][1]}
        BY <1>4, <3>1, <3>2, Zenon
      <4>. QED
        BY <3>2, <4>1
    <3>3. CASE Len(ranked[k]) = 0
      <4>1. ToSet(at2(1, k)) = {}
        BY <1>4, <3>1, <3>3, Zenon
      <4>. QED
        BY <3>3, <4>1
    <3>. QED
      BY <3>2, <3>3
  <2>. QED
    BY <2>1, <2>2, Zenon
<1>13. \A e : e \in ToSet(rounds[1]) <=> \E i \in 1 .. Len(rounds[1]) : rounds[1][i] = e
  BY <1>10, Elements
<1>14. Opening(ranked, all, Len(rounds[1]))
  <2>1. ASSUME NEW k \in 1 .. Topics, Len(ranked[k]) # 0
        PROVE  \E i \in 1 .. Len(rounds[1]) : all[i] = ranked[k][1]
    <3>1. PICK i \in 1 .. Len(rounds[1]) : rounds[1][i] = ranked[k][1]
      BY <1>12, <1>13, <2>1
    <3>. QED
      BY <1>11, <3>1
  <2>2. ASSUME NEW i \in 1 .. Len(rounds[1])
        PROVE  \E k \in 1 .. Topics : Len(ranked[k]) # 0 /\ all[i] = ranked[k][1]
    <3>1. all[i] \in ToSet(rounds[1])
      BY <1>11, <1>13
    <3>. QED
      BY <1>12, <3>1
  <2>. QED
    BY <1>8, <1>10, <2>1, <2>2 DEF Opening
<1>15. Distinct(all) \in Seq(Evidences)
  BY <1>8, DistinctElements
<1>. QED
  BY <1>1, <1>14, <1>15

\* Tags of the aspects that found an evidence unit, at least.
Tagged(tags, ranked) ==
  /\ DOMAIN tags \subseteq Evidences /\ IsFiniteSet(DOMAIN tags)
  /\ \A e \in DOMAIN tags : tags[e] \subseteq 1 .. Topics
  /\ \A k \in 1 .. Topics : \A i \in 1 .. Len(ranked[k]) :
       ranked[k][i] \in DOMAIN tags /\ k \in tags[ranked[k][i]]

LEMMA TagsTagged ==
  ASSUME NEW ranked, Aspects(ranked), NEW mentions,
         \A e \in DOMAIN mentions : mentions[e] \subseteq 1 .. Topics
  PROVE  Tagged(Tags(ranked, mentions), ranked)
<1>. DEFINE D == UNION {ToSet(ranked[k]) : k \in DOMAIN ranked}
            of(e) == {k \in DOMAIN ranked : e \in ToSet(ranked[k])} \cup
                       (IF e \in DOMAIN mentions THEN mentions[e] ELSE {})
            tags == Tags(ranked, mentions)
<1>1. tags = [e \in D |-> of(e)]
  BY DEF Tags
<1>2. DOMAIN ranked = 1 .. Topics /\ Len(ranked) = Topics /\ ranked \in Seq(Seq(Evidences))
      /\ \A k \in 1 .. Topics : ranked[k] \in Seq(Evidences)
  BY Numbers DEF Aspects
<1>3. ASSUME NEW k \in 1 .. Topics, NEW i \in 1 .. Len(ranked[k])
      PROVE  ranked[k][i] \in D /\ k \in of(ranked[k][i])
  <2>1. ranked[k][i] \in ToSet(ranked[k])
    BY <1>2, Elements
  <2>. QED
    BY <1>2, <2>1
<1>4. \A e \in D : of(e) \subseteq 1 .. Topics
  BY <1>2
<1>5. D \subseteq Evidences
  <2>1. \A k \in 1 .. Topics : ToSet(ranked[k]) \subseteq Evidences
    BY <1>2, Elements
  <2>. QED
    BY <1>2, <2>1
<1>6. IsFiniteSet(D)
  <2>1. FlattenSeq(ranked) \in Seq(Evidences)
        /\ \A e : e \in ToSet(FlattenSeq(ranked)) <=> \E k \in 1 .. Topics : e \in ToSet(ranked[k])
    BY <1>2, FlattenElements
  <2>2. \A e : e \in D <=> \E k \in 1 .. Topics : e \in ToSet(ranked[k])
    BY <1>2
  <2>3. D = ToSet(FlattenSeq(ranked))
    BY <2>1, <2>2
  <2>4. IsFiniteSet(ToSet(FlattenSeq(ranked)))
    BY <2>1, DistinctLength
  <2>. HIDE DEF D
  <2>. QED
    BY <2>3, <2>4
<1>. HIDE DEF D, of
<1>7. DOMAIN tags = D /\ \A e \in D : tags[e] = of(e)
  BY <1>1
<1>. HIDE DEF tags
<1>8. Tagged(tags, ranked)
  BY <1>3, <1>4, <1>5, <1>6, <1>7 DEF Tagged
<1>. QED
  BY <1>8 DEF tags

\* Each of them brings an aspect that none before it is tagged with.
Lean(tags) ==
  {s \in Seq(DOMAIN tags) : \A n \in 1 .. Len(s) :
     \E k \in tags[s[n]] : \A i \in 1 .. n - 1 : k \notin tags[s[i]]}

LEMMA CoveredMore ==
  ASSUME NEW tags, \A x \in DOMAIN tags : tags[x] \subseteq 1 .. Topics,
         NEW s \in Lean(tags), NEW e \in DOMAIN tags
  PROVE  /\ Covered(s, tags) \subseteq 1 .. Topics
         /\ Covered(Append(s, e), tags) = Covered(s, tags) \cup tags[e]
         /\ ~ (tags[e] \subseteq Covered(s, tags)) => Append(s, e) \in Lean(tags)
<1>. DEFINE D == DOMAIN tags
            t == Append(s, e)
            A == Covered(s, tags)
            B == Covered(t, tags)
<1>1. /\ s \in Seq(D) /\ Len(s) \in Nat
      /\ \A n \in 1 .. Len(s) : \E k \in tags[s[n]] : \A i \in 1 .. n - 1 : k \notin tags[s[i]]
  BY DEF Lean
<1>2. /\ t \in Seq(D) /\ Len(t) = Len(s) + 1 /\ t[Len(s) + 1] = e
      /\ \A i \in 1 .. Len(s) : t[i] = s[i]
  <2>1. PICK u \in Seq(D) : u = s
    BY <1>1
  <2>2. Append(u, e) \in Seq(D) /\ Len(Append(u, e)) = Len(u) + 1
    BY <2>1
  <2>3. Append(u, e)[Len(u) + 1] = e
    BY <2>1
  <2>4. \A i \in 1 .. Len(u) : Append(u, e)[i] = u[i]
    BY <2>1
  <2>. QED
    BY <2>1, <2>2, <2>3, <2>4
<1>3. ToSet(t) = ToSet(s) \cup {e}
  <2>0. s \in Seq(D)
    BY <1>1
  <2>1. t = s \o <<e>> /\ <<e>> \in Seq(D)
    BY <2>0
  <2>2. ToSet(<<e>>) = {e}
    BY DEF ToSet
  <2>3. ToSet(s \o <<e>>) = ToSet(s) \cup ToSet(<<e>>)
    <3>1. <<e>> \in Seq(D)
      BY <2>1
    <3>. HIDE DEF D, t
    <3>. QED
      BY <2>0, <3>1, Concatenation, Zenon
  <2>. QED
    BY <2>1, <2>2, <2>3, Zenon
<1>4. ToSet(s) \subseteq D
  BY <1>1, Elements
<1>. HIDE DEF t
<1>5. B = A \cup tags[e]
  BY <1>3 DEF Covered
<1>6. A \subseteq 1 .. Topics /\ B \subseteq 1 .. Topics
  <2>1. A \subseteq 1 .. Topics
    BY <1>4 DEF Covered
  <2>. HIDE DEF A, B
  <2>. QED
    BY <1>5, <2>1
<1>7. ASSUME ~ (tags[e] \subseteq A) PROVE t \in Lean(tags)
  <2>1. PICK k \in tags[e] : k \notin A
    BY <1>7
  <2>2. \A i \in 1 .. Len(s) : k \notin tags[s[i]]
    <3>1. \A i \in 1 .. Len(s) : s[i] \in ToSet(s)
      BY <1>1, Elements
    <3>. QED
      BY <2>1, <3>1 DEF Covered
  <2>3. ASSUME NEW n \in 1 .. Len(t)
        PROVE  \E l \in tags[t[n]] : \A i \in 1 .. n - 1 : l \notin tags[t[i]]
    <3>1. CASE n = Len(s) + 1
      <4>1. k \in tags[t[n]] /\ \A i \in 1 .. n - 1 : k \notin tags[t[i]]
        BY <1>1, <1>2, <2>1, <2>2, <3>1
      <4>. QED
        BY <4>1
    <3>2. CASE n # Len(s) + 1
      <4>1. n \in 1 .. Len(s) /\ t[n] = s[n] /\ \A i \in 1 .. n - 1 : t[i] = s[i]
        BY <1>1, <1>2, <3>2
      <4>. QED
        BY <1>1, <4>1
    <3>. QED
      BY <3>1, <3>2
  <2>. QED
    BY <1>2, <2>3 DEF Lean
<1>. QED
  BY <1>5, <1>6, <1>7 DEF t

\* The two recursions of Shared.
UsefulStep(tags, chosen, e) ==
  IF tags[e] \subseteq Covered(chosen, tags) THEN chosen ELSE Append(chosen, e)
UsefulSteps(f, tags, first) ==
  f = [n \in 0 .. Len(first) |->
         IF n = 0 THEN <<>>
         ELSE IF tags[first[n]] \subseteq Covered(f[n - 1], tags) THEN f[n - 1]
         ELSE Append(f[n - 1], first[n])]

OwnStep(ranked, tags, chosen, k) ==
  LET left == {d \in DOMAIN ranked[k] : ranked[k][d] \notin ToSet(chosen)}
  IN  IF k \in Covered(chosen, tags) \/ left = {} THEN chosen
      ELSE Append(chosen, ranked[k][Min(left)])
OwnSteps(f, ranked, tags, shared) ==
  f = [k \in 0 .. Len(ranked) |-> IF k = 0 THEN shared ELSE OwnStep(ranked, tags, f[k - 1], k)]

LEMMA SharedSteps ==
  ASSUME NEW ranked, NEW tags, NEW first
  PROVE  \E f : /\ f = CHOOSE g : UsefulSteps(g, tags, first)
                /\ Shared(ranked, tags, first) =
                     Distinct((CHOOSE g : OwnSteps(g, ranked, tags, f[Len(first)]))[Len(ranked)]
                                \o RoundRobin(ranked))
BY Zenon DEF Shared, UsefulSteps, OwnSteps, OwnStep

\* What Shared chooses first stays within the number of aspects.
LEMMA UsefulLean ==
  ASSUME NEW ranked, NEW tags, Tagged(tags, ranked), NEW first \in Seq(DOMAIN tags)
  PROVE  (CHOOSE g : UsefulSteps(g, tags, first))[Len(first)] \in Lean(tags)
<1>. DEFINE L == Len(first)
            X == Lean(tags)
            step == [n \in 0 + 1 .. L |-> [s \in X |-> UsefulStep(tags, s, first[n])]]
            h == CHOOSE g : UsefulSteps(g, tags, first)
<1>1. L \in Nat /\ 0 <= L /\ \A n \in 1 .. L : first[n] \in DOMAIN tags
  OBVIOUS
<1>2. \A x \in DOMAIN tags : tags[x] \subseteq 1 .. Topics
  BY DEF Tagged
<1>3. << >> \in X
  <2>1. << >> \in Seq(DOMAIN tags) /\ Len(<< >>) = 0
    OBVIOUS
  <2>2. \A n : n \notin 1 .. 0
    OBVIOUS
  <2>. QED
    BY <2>1, <2>2, Zenon DEF Lean
<1>4. ASSUME NEW s \in X, NEW n \in 1 .. L PROVE UsefulStep(tags, s, first[n]) \in X
  <2>1. first[n] \in DOMAIN tags
    BY <1>1
  <2>2. ~ (tags[first[n]] \subseteq Covered(s, tags)) => Append(s, first[n]) \in X
    BY <1>2, <2>1, CoveredMore
  <2>. QED
    BY <2>2 DEF UsefulStep
<1>. HIDE DEF X
<1>5. step \in [0 + 1 .. L -> [X -> X]]
  <2>1. \A n \in 0 + 1 .. L : n \in 1 .. L
    BY <1>1
  <2>2. \A n \in 0 + 1 .. L : [s \in X |-> UsefulStep(tags, s, first[n])] \in [X -> X]
    BY <1>4, <2>1
  <2>. QED
    BY <2>2
<1>6. PICK g : Recursive(g, 0, L, X, << >>, step)
  <2>. HIDE DEF step, L
  <2>1. 0 \in Nat
    OBVIOUS
  <2>. QED
    BY <1>1, <1>3, <1>5, <2>1, Recursion, Zenon
<1>7. /\ g \in [0 .. L -> X] /\ g[0] = << >>
      /\ \A k \in 0 + 1 .. L : g[k] = step[k][g[k - 1]]
  BY <1>6 DEF Recursive
<1>8. ASSUME NEW k \in 1 .. L PROVE g[k] = UsefulStep(tags, g[k - 1], first[k])
  <2>1. k - 1 \in 0 .. L /\ k \in 0 + 1 .. L
    BY <1>1
  <2>2. g[k - 1] \in X
    BY <1>7, <2>1
  <2>3. step[k] = [s \in X |-> UsefulStep(tags, s, first[k])]
    BY <2>1
  <2>4. g[k] = step[k][g[k - 1]]
    BY <1>7, <2>1
  <2>. HIDE DEF step
  <2>. QED
    BY <2>2, <2>3, <2>4
<1>. HIDE DEF step
<1>9. UsefulSteps(g, tags, first)
  <2>1. ASSUME NEW n \in 0 .. L
        PROVE  g[n] = IF n = 0 THEN << >> ELSE UsefulStep(tags, g[n - 1], first[n])
    <3>1. n # 0 => n \in 1 .. L
      BY <1>1
    <3>. QED
      BY <1>7, <1>8, <3>1
  <2>2. g = [n \in 0 .. L |-> IF n = 0 THEN << >> ELSE UsefulStep(tags, g[n - 1], first[n])]
    BY <1>7, <2>1
  <2>. QED
    BY <2>2, Zenon DEF UsefulSteps, UsefulStep, L
<1>10. UsefulSteps(h, tags, first)
  BY <1>9
<1>. HIDE DEF h
<1>11. \A n \in 0 .. L : h[n] = IF n = 0 THEN << >> ELSE UsefulStep(tags, h[n - 1], first[n])
  BY <1>10 DEF UsefulSteps, UsefulStep
<1>. DEFINE P == {n \in 0 .. L : h[n] \in X}
<1>12. Inductive(P, 0, L)
  <2>1. 0 \in P
    BY <1>1, <1>3, <1>11
  <2>2. ASSUME NEW k \in 0 + 1 .. L, k - 1 \in P PROVE k \in P
    <3>1. k \in 1 .. L /\ k \in 0 .. L /\ k # 0
      BY <1>1
    <3>2. h[k] = UsefulStep(tags, h[k - 1], first[k])
      BY <1>11, <3>1
    <3>. QED
      BY <1>4, <2>2, <3>1, <3>2
  <2>. QED
    BY <2>1, <2>2 DEF Inductive
<1>13. L \in P
  <2>. HIDE DEF P, L
  <2>1. 0 .. L \subseteq P
    BY <1>1, <1>12, Induction
  <2>. QED
    BY <1>1, <2>1
<1>. QED
  BY <1>13 DEF h, X

\* What is chosen of an aspect's own evidence covers it.
LEMMA OwnCovers ==
  ASSUME NEW ranked, Aspects(ranked), NEW tags, Tagged(tags, ranked),
         NEW s \in Lean(tags), NEW k \in 1 .. Topics
  PROVE  /\ OwnStep(ranked, tags, s, k) \in Lean(tags)
         /\ Covered(s, tags) \subseteq Covered(OwnStep(ranked, tags, s, k), tags)
         /\ Len(ranked[k]) # 0 => k \in Covered(OwnStep(ranked, tags, s, k), tags)
<1>. DEFINE left == {d \in DOMAIN ranked[k] : ranked[k][d] \notin ToSet(s)}
            e == ranked[k][Min(left)]
            A == Covered(s, tags)
<1>1. OwnStep(ranked, tags, s, k) = IF k \in A \/ left = {} THEN s ELSE Append(s, e)
  BY DEF OwnStep
<1>2. ranked[k] \in Seq(Evidences) /\ DOMAIN ranked[k] = 1 .. Len(ranked[k]) /\ Len(ranked[k]) \in Nat
  BY DEF Aspects
<1>3. \A i \in 1 .. Len(ranked[k]) : ranked[k][i] \in DOMAIN tags /\ k \in tags[ranked[k][i]]
  BY DEF Tagged
<1>4. \A x \in DOMAIN tags : tags[x] \subseteq 1 .. Topics
  BY DEF Tagged
<1>5. ASSUME Len(ranked[k]) # 0, left = {} PROVE k \in A
  <2>1. 1 \in 1 .. Len(ranked[k])
    BY <1>2, <1>5
  <2>2. ranked[k][1] \in ToSet(s)
    BY <1>2, <1>5, <2>1
  <2>. QED
    BY <1>3, <2>1, <2>2 DEF Covered
<1>6. ASSUME left # {} PROVE e \in DOMAIN tags /\ k \in tags[e]
  <2>1. left \in SUBSET Nat
    BY <1>2
  <2>2. Min(left) \in left
    BY <1>6, <2>1, SmallestMember
  <2>3. Min(left) \in 1 .. Len(ranked[k])
    BY <1>2, <2>2
  <2>. HIDE DEF left
  <2>. QED
    BY <1>3, <2>3
<1>. HIDE DEF left, e
<1>7. CASE k \in A \/ left = {}
  BY <1>1, <1>5, <1>7
<1>8. CASE ~ (k \in A \/ left = {})
  <2>1. e \in DOMAIN tags /\ k \in tags[e]
    BY <1>6, <1>8
  <2>2. ~ (tags[e] \subseteq A)
    BY <1>8, <2>1
  <2>3. Covered(Append(s, e), tags) = A \cup tags[e] /\ Append(s, e) \in Lean(tags)
    BY <1>4, <2>1, <2>2, CoveredMore
  <2>4. OwnStep(ranked, tags, s, k) = Append(s, e)
    BY <1>1, <1>8
  <2>. QED
    BY <2>1, <2>3, <2>4
<1>. QED
  BY <1>7, <1>8

LEMMA OwnLean ==
  ASSUME NEW ranked, Aspects(ranked), NEW tags, Tagged(tags, ranked), NEW base \in Lean(tags)
  PROVE  /\ (CHOOSE g : OwnSteps(g, ranked, tags, base))[Len(ranked)] \in Lean(tags)
         /\ \A k \in 1 .. Topics : Len(ranked[k]) # 0 =>
              k \in Covered((CHOOSE g : OwnSteps(g, ranked, tags, base))[Len(ranked)], tags)
<1>. DEFINE L == Len(ranked)
            X == Lean(tags)
            step == [n \in 0 + 1 .. L |-> [s \in X |-> OwnStep(ranked, tags, s, n)]]
            h == CHOOSE g : OwnSteps(g, ranked, tags, base)
<1>1. L \in Nat /\ 0 <= L /\ L = Topics
  BY Numbers DEF Aspects
<1>2. \A s \in X, n \in 1 .. L : OwnStep(ranked, tags, s, n) \in X
  BY <1>1, OwnCovers
<1>. HIDE DEF L, X
<1>3. step \in [0 + 1 .. L -> [X -> X]]
  <2>1. \A n \in 0 + 1 .. L : n \in 1 .. L
    BY <1>1
  <2>2. \A n \in 0 + 1 .. L : [s \in X |-> OwnStep(ranked, tags, s, n)] \in [X -> X]
    BY <1>2, <2>1
  <2>. QED
    BY <2>2
<1>4. PICK g : Recursive(g, 0, L, X, base, step)
  <2>. HIDE DEF step
  <2>1. 0 \in Nat /\ base \in X
    BY DEF X
  <2>. QED
    BY <1>1, <1>3, <2>1, Recursion, Zenon
<1>5. /\ g \in [0 .. L -> X] /\ g[0] = base
      /\ \A k \in 0 + 1 .. L : g[k] = step[k][g[k - 1]]
  BY <1>4 DEF Recursive
<1>6. ASSUME NEW k \in 1 .. L PROVE g[k] = OwnStep(ranked, tags, g[k - 1], k)
  <2>1. k - 1 \in 0 .. L /\ k \in 0 + 1 .. L
    BY <1>1
  <2>2. g[k - 1] \in X
    BY <1>5, <2>1
  <2>3. step[k] = [s \in X |-> OwnStep(ranked, tags, s, k)]
    BY <2>1
  <2>4. g[k] = step[k][g[k - 1]]
    BY <1>5, <2>1
  <2>. HIDE DEF step
  <2>. QED
    BY <2>2, <2>3, <2>4
<1>. HIDE DEF step
<1>7. OwnSteps(g, ranked, tags, base)
  <2>1. ASSUME NEW n \in 0 .. L
        PROVE  g[n] = IF n = 0 THEN base ELSE OwnStep(ranked, tags, g[n - 1], n)
    <3>1. n # 0 => n \in 1 .. L
      BY <1>1
    <3>. QED
      BY <1>5, <1>6, <3>1
  <2>2. g = [n \in 0 .. L |-> IF n = 0 THEN base ELSE OwnStep(ranked, tags, g[n - 1], n)]
    BY <1>5, <2>1
  <2>. QED
    BY <2>2, Zenon DEF OwnSteps, L
<1>8. OwnSteps(h, ranked, tags, base)
  BY <1>7
<1>. HIDE DEF h
<1>9. \A n \in 0 .. L : h[n] = IF n = 0 THEN base ELSE OwnStep(ranked, tags, h[n - 1], n)
  BY <1>8 DEF OwnSteps, L
<1>. DEFINE Has(n) == \A k \in 1 .. n : Len(ranked[k]) # 0 => k \in Covered(h[n], tags)
            P == {n \in 0 .. L : h[n] \in X /\ Has(n)}
<1>10. Inductive(P, 0, L)
  <2>1. 0 \in P
    <3>1. 0 \in 0 .. L /\ h[0] \in X
      BY <1>1, <1>9 DEF X
    <3>2. Has(0)
      OBVIOUS
    <3>. HIDE DEF Has
    <3>. QED
      BY <3>1, <3>2
  <2>2. ASSUME NEW k \in 0 + 1 .. L, k - 1 \in P PROVE k \in P
    <3>1. k \in 1 .. L /\ k \in 0 .. L /\ k # 0 /\ k \in 1 .. Topics
      BY <1>1
    <3>2. h[k] = OwnStep(ranked, tags, h[k - 1], k)
      BY <1>9, <3>1
    <3>3. h[k - 1] \in X /\ Has(k - 1)
      BY <2>2
    <3>4. /\ h[k] \in X /\ Covered(h[k - 1], tags) \subseteq Covered(h[k], tags)
          /\ Len(ranked[k]) # 0 => k \in Covered(h[k], tags)
      BY <3>1, <3>2, <3>3, OwnCovers DEF X
    <3>5. \A i \in 1 .. k : i = k \/ i \in 1 .. k - 1
      BY <3>1
    <3>6. Has(k)
      BY <3>3, <3>4, <3>5
    <3>. HIDE DEF Has
    <3>. QED
      BY <3>1, <3>4, <3>6
  <2>. QED
    BY <2>1, <2>2 DEF Inductive
<1>11. L \in P
  <2>. HIDE DEF P
  <2>1. 0 .. L \subseteq P
    BY <1>1, <1>10, Induction
  <2>. QED
    BY <1>1, <2>1
<1>12. h[L] \in X /\ Has(L)
  BY <1>11
<1>. QED
  BY <1>1, <1>12 DEF h, X, L

\* Each aspect that found anything is among the tags of an answer's sources, or
\* the tags are as many as there may be sources.
TopicsServed(ranked, tags, answer) ==
  \/ \A k \in DOMAIN ranked : ranked[k] # <<>> => k \in Covered(answer, tags)
  \/ Cardinality(Covered(answer, tags)) >= MaxSources

\* It is enough that the evidence starts with units of which each stands for an
\* aspect of its own, and that these speak of every aspect.
LEMMA CutServes ==
  ASSUME NEW ranked, Aspects(ranked), NEW tags, Tagged(tags, ranked),
         NEW all \in Seq(Evidences), NEW m \in 0 .. Len(all),
         \A k \in 1 .. Topics : Len(ranked[k]) # 0 => \E i \in 1 .. m : k \in tags[all[i]],
         NEW own, \A i \in 1 .. m : all[i] \in DOMAIN tags /\ own[i] \in tags[all[i]],
         \A i, j \in 1 .. m : own[i] = own[j] => all[i] = all[j]
  PROVE  TopicsServed(ranked, tags, Cut(Distinct(all), MaxSources))
<1>. DEFINE r == Distinct(all)
            t == Cut(r, MaxSources)
<1>1. /\ DOMAIN ranked = 1 .. Topics /\ MaxSources \in Nat
      /\ \A k \in 1 .. Topics : ranked[k] \in Seq(Evidences)
  BY Numbers DEF Aspects
<1>2. r \in Seq(Evidences) /\ \E order : Unrepeated(r, all, order)
  BY DistinctKeeps
<1>3. PICK order : Unrepeated(r, all, order)
  BY <1>2
<1>. HIDE DEF r
<1>4. /\ t \in Seq(Evidences)
      /\ Len(t) = IF MaxSources <= Len(r) THEN MaxSources ELSE Len(r)
      /\ \A n \in 1 .. Len(t) : t[n] = r[n]
  BY <1>1, <1>2, CutLength
<1>. HIDE DEF t
<1>5. /\ Len(r) \in Nat /\ Len(t) \in Nat /\ Len(all) \in Nat /\ m \in Nat
      /\ order \in [1 .. Len(r) -> 1 .. Len(all)]
      /\ \A k, l \in 1 .. Len(r) : k < l => order[k] < order[l]
      /\ \A k \in 1 .. Len(r) : r[k] = all[order[k]]
      /\ \A k, l \in 1 .. Len(r) : r[k] = r[l] => k = l
  <2>1. \A k, l \in 1 .. Len(r) : r[k] = r[l] => k = l
    BY DistinctElements DEF r
  <2>2. Len(r) \in Nat /\ Len(t) \in Nat /\ Len(all) \in Nat
    BY <1>2, <1>4
  <2>. QED
    BY <1>3, <2>1, <2>2 DEF Unrepeated
<1>6. ASSUME NEW k \in 1 .. Topics, ranked[k] # <<>>, k \notin Covered(t, tags)
      PROVE  Cardinality(Covered(t, tags)) >= MaxSources
  <2>1. Len(ranked[k]) # 0
    BY <1>1, <1>6
  <2>2. PICK i \in 1 .. m : k \in tags[all[i]]
    BY <2>1
  <2>3. PICK j \in 1 .. Len(r) : order[j] <= i /\ r[j] = all[i]
    <3>1. i \in 1 .. Len(all)
      BY <1>5
    <3>. QED
      BY <1>3, <3>1 DEF Unrepeated
  <2>4. j \notin 1 .. Len(t)
    <3>1. ASSUME j \in 1 .. Len(t) PROVE FALSE
      <4>1. t[j] \in ToSet(t) /\ t[j] = all[i]
        BY <1>4, <2>3, <3>1, Elements
      <4>. QED
        BY <1>6, <2>2, <4>1 DEF Covered
    <3>. QED
      BY <3>1
  <2>5. MaxSources < j /\ Len(t) = MaxSources
    BY <1>1, <1>4, <1>5, <2>3, <2>4
  <2>6. \A n \in 1 .. MaxSources : n \in 1 .. Len(r) /\ order[n] \in 1 .. m
    <3>1. ASSUME NEW n \in 1 .. MaxSources PROVE n \in 1 .. Len(r) /\ order[n] \in 1 .. m
      <4>1. n \in 1 .. Len(r) /\ n < j
        BY <1>1, <1>5, <2>3, <2>5
      <4>2. order[n] < order[j] /\ order[n] \in 1 .. Len(all) /\ order[j] \in 1 .. Len(all)
        BY <1>5, <2>3, <4>1
      <4>. QED
        BY <1>5, <2>2, <2>3, <4>1, <4>2
    <3>. QED
      BY <3>1
  <2>. DEFINE h == [n \in 1 .. MaxSources |-> own[order[n]]]
  <2>7. ASSUME NEW n \in 1 .. MaxSources PROVE h[n] \in Covered(t, tags)
    <3>1. t[n] = all[order[n]] /\ t[n] \in ToSet(t)
      BY <1>4, <1>5, <2>5, <2>6, Elements
    <3>2. own[order[n]] \in tags[t[n]]
      BY <2>6, <3>1
    <3>. QED
      BY <3>1, <3>2 DEF Covered
  <2>8. ASSUME NEW n \in 1 .. MaxSources, NEW l \in 1 .. MaxSources, h[n] = h[l] PROVE n = l
    <3>1. own[order[n]] = own[order[l]]
      BY <2>8
    <3>2. all[order[n]] = all[order[l]]
      BY <2>6, <3>1
    <3>. QED
      BY <1>5, <2>6, <3>2
  <2>9. h \in Injection(1 .. MaxSources, Covered(t, tags))
    BY <2>7, <2>8 DEF Injection, IsInjective
  <2>10. IsFiniteSet(Covered(t, tags))
    <3>1. ASSUME NEW e \in ToSet(t) PROVE e \in DOMAIN tags
      <4>1. PICK n \in 1 .. Len(t) : t[n] = e
        BY <1>4, Elements
      <4>2. e = all[order[n]] /\ order[n] \in 1 .. m
        BY <1>4, <1>5, <2>5, <2>6, <4>1
      <4>. QED
        BY <4>2
    <3>2. \A e \in DOMAIN tags : tags[e] \subseteq 1 .. Topics
      BY DEF Tagged
    <3>3. Covered(t, tags) \in SUBSET (1 .. Topics)
      BY <3>1, <3>2 DEF Covered
    <3>4. IsFiniteSet(1 .. Topics)
      BY Numbers, FS_Interval
    <3>. QED
      BY <3>3, <3>4, FS_Subset
  <2>11. IsFiniteSet(1 .. MaxSources) /\ Cardinality(1 .. MaxSources) = MaxSources
    BY <1>1, FS_Interval
  <2>12. Cardinality(Covered(t, tags)) \in Nat
    BY <2>10, FS_CardinalityType
  <2>13. Cardinality(1 .. MaxSources) <= Cardinality(Covered(t, tags))
    <3>. HIDE DEF h
    <3>. QED
      BY <2>9, <2>10, FS_Injection
  <2>. QED
    BY <1>1, <2>11, <2>12, <2>13
<1>. QED
  BY <1>1, <1>6 DEF TopicsServed, t, r

LEMMA RoundRobinServes ==
  ASSUME NEW ranked, Aspects(ranked), NEW tags, Tagged(tags, ranked)
  PROVE  TopicsServed(ranked, tags, Cut(RoundRobin(ranked), MaxSources))
<1>1. PICK all, m : Opening(ranked, all, m) /\ RoundRobin(ranked) = Distinct(all)
  BY RoundRobinStarts
<1>2. /\ all \in Seq(Evidences) /\ m \in 0 .. Len(all)
      /\ \A k \in 1 .. Topics : Len(ranked[k]) # 0 => \E i \in 1 .. m : all[i] = ranked[k][1]
      /\ \A i \in 1 .. m : \E k \in 1 .. Topics : Len(ranked[k]) # 0 /\ all[i] = ranked[k][1]
  BY <1>1 DEF Opening
<1>3. ASSUME NEW k \in 1 .. Topics, Len(ranked[k]) # 0
      PROVE  ranked[k][1] \in DOMAIN tags /\ k \in tags[ranked[k][1]]
  <2>1. 1 \in 1 .. Len(ranked[k])
    BY <1>3 DEF Aspects
  <2>. QED
    BY <2>1 DEF Tagged
<1>4. PICK own : own = [i \in 1 .. m |-> CHOOSE k \in 1 .. Topics :
                                           Len(ranked[k]) # 0 /\ all[i] = ranked[k][1]]
  OBVIOUS
<1>5. ASSUME NEW i \in 1 .. m
      PROVE  own[i] \in 1 .. Topics /\ Len(ranked[own[i]]) # 0 /\ all[i] = ranked[own[i]][1]
  <2>1. \E k \in 1 .. Topics : Len(ranked[k]) # 0 /\ all[i] = ranked[k][1]
    BY <1>2
  <2>2. own[i] = CHOOSE k \in 1 .. Topics : Len(ranked[k]) # 0 /\ all[i] = ranked[k][1]
    BY <1>4
  <2>. QED
    BY <2>1, <2>2
<1>6. \A i \in 1 .. m : all[i] \in DOMAIN tags /\ own[i] \in tags[all[i]]
  BY <1>3, <1>5
<1>7. \A i, j \in 1 .. m : own[i] = own[j] => all[i] = all[j]
  BY <1>5
<1>8. \A k \in 1 .. Topics : Len(ranked[k]) # 0 => \E i \in 1 .. m : k \in tags[all[i]]
  BY <1>2, <1>3
<1>9. all \in Seq(Evidences) /\ m \in 0 .. Len(all) /\ RoundRobin(ranked) = Distinct(all)
  BY <1>1, <1>2
<1>10. TopicsServed(ranked, tags, Cut(Distinct(all), MaxSources))
  BY <1>6, <1>7, <1>8, <1>9, CutServes
<1>. QED
  BY <1>9, <1>10, Zenon

LEMMA SharedServes ==
  ASSUME NEW ranked, Aspects(ranked), NEW tags, Tagged(tags, ranked), NEW first \in Seq(DOMAIN tags)
  PROVE  TopicsServed(ranked, tags, Cut(Shared(ranked, tags, first), MaxSources))
<1>1. PICK useful : /\ useful = CHOOSE g : UsefulSteps(g, tags, first)
                    /\ Shared(ranked, tags, first) =
                         Distinct((CHOOSE g : OwnSteps(g, ranked, tags, useful[Len(first)]))[Len(ranked)]
                                    \o RoundRobin(ranked))
  BY SharedSteps
<1>2. useful[Len(first)] \in Lean(tags)
  BY <1>1, UsefulLean
<1>. DEFINE chosen == (CHOOSE g : OwnSteps(g, ranked, tags, useful[Len(first)]))[Len(ranked)]
            all == chosen \o RoundRobin(ranked)
<1>3. /\ chosen \in Lean(tags)
      /\ \A k \in 1 .. Topics : Len(ranked[k]) # 0 => k \in Covered(chosen, tags)
  BY <1>2, OwnLean
<1>4. Shared(ranked, tags, first) = Distinct(all)
  BY <1>1
<1>. HIDE DEF chosen
<1>5. /\ chosen \in Seq(DOMAIN tags) /\ chosen \in Seq(Evidences)
      /\ \A n \in 1 .. Len(chosen) :
           \E k \in tags[chosen[n]] : \A i \in 1 .. n - 1 : k \notin tags[chosen[i]]
  <2>1. chosen \in Seq(DOMAIN tags)
    BY <1>3 DEF Lean
  <2>2. DOMAIN tags \subseteq Evidences
    BY DEF Tagged
  <2>3. chosen \in Seq(Evidences)
    BY <2>1, <2>2
  <2>. QED
    BY <1>3, <2>1, <2>3 DEF Lean
<1>6. PICK m \in Nat : m = Len(chosen)
  BY <1>5
<1>7. /\ all \in Seq(Evidences) /\ m \in 0 .. Len(all)
      /\ \A i \in 1 .. m : all[i] = chosen[i]
  <2>1. RoundRobin(ranked) \in Seq(Evidences)
    BY RoundRobinStarts
  <2>2. /\ all \in Seq(Evidences) /\ Len(all) = Len(chosen) + Len(RoundRobin(ranked))
        /\ \A i \in 1 .. Len(chosen) : all[i] = chosen[i]
    BY <1>5, <2>1, Concatenation
  <2>3. Len(RoundRobin(ranked)) \in Nat
    BY <2>1
  <2>. HIDE DEF all
  <2>. QED
    BY <1>6, <2>2, <2>3
<1>. HIDE DEF all
<1>8. PICK own : own = [n \in 1 .. m |-> CHOOSE k \in tags[chosen[n]] :
                                           \A i \in 1 .. n - 1 : k \notin tags[chosen[i]]]
  OBVIOUS
<1>9. \A n \in 1 .. m : /\ own[n] \in tags[chosen[n]] /\ chosen[n] \in DOMAIN tags
                        /\ \A i \in 1 .. n - 1 : own[n] \notin tags[chosen[i]]
  BY <1>5, <1>6, <1>8
<1>10. \A i \in 1 .. m : all[i] \in DOMAIN tags /\ own[i] \in tags[all[i]]
  BY <1>7, <1>9
<1>11. ASSUME NEW i \in 1 .. m, NEW j \in 1 .. m, own[i] = own[j] PROVE all[i] = all[j]
  <2>1. ~ (i < j) /\ ~ (j < i)
    BY <1>9, <1>11
  <2>2. i = j
    BY <2>1
  <2>. QED
    BY <2>2
<1>12. ASSUME NEW k \in 1 .. Topics, Len(ranked[k]) # 0
       PROVE  \E i \in 1 .. m : k \in tags[all[i]]
  <2>1. PICK e \in ToSet(chosen) : k \in tags[e]
    BY <1>3, <1>12 DEF Covered
  <2>2. PICK i \in 1 .. m : chosen[i] = e
    BY <1>5, <1>6, <2>1, Elements
  <2>. QED
    BY <1>7, <2>1, <2>2
<1>. QED
  BY <1>4, <1>7, <1>10, <1>11, <1>12, CutServes

\* What Shared may be given is a sequence of evidence units.
LEMMA FirstsTyped ==
  ASSUME NEW ranked, NEW tags, IsFiniteSet(DOMAIN tags), NEW first \in Firsts(ranked, tags)
  PROVE  first \in Seq(DOMAIN tags)
<1>. DEFINE relation == {e \in DOMAIN tags : Topics \in tags[e]}
            direct == {e \in DOMAIN tags : Cardinality(tags[e]) > 1
                         /\ \E k \in DOMAIN ranked : k # Topics /\ e \in ToSet(ranked[k])}
<1>1. first \in IF relation = {} THEN SetToSeqs(direct)
                ELSE UNION {{<<e>> \o s : s \in SetToSeqs(direct \ {e})} : e \in relation}
  BY Zenon DEF Firsts
<1>2. direct \in SUBSET DOMAIN tags /\ relation \in SUBSET DOMAIN tags
  OBVIOUS
<1>. HIDE DEF relation, direct
<1>3. ASSUME NEW S \in SUBSET DOMAIN tags, NEW s \in SetToSeqs(S) PROVE s \in Seq(DOMAIN tags)
  <2>1. IsFiniteSet(S)
    BY FS_Subset
  <2>2. Cardinality(S) \in Nat
    BY <2>1, FS_CardinalityType
  <2>3. s \in [1 .. Cardinality(S) -> S]
    BY DEF SetToSeqs
  <2>4. s \in [1 .. Cardinality(S) -> DOMAIN tags]
    BY <2>3
  <2>. QED
    BY <2>2, <2>4
<1>4. CASE relation = {}
  BY <1>1, <1>2, <1>3, <1>4
<1>5. CASE relation # {}
  <2>1. PICK e \in relation : first \in {<<e>> \o s : s \in SetToSeqs(direct \ {e})}
    BY <1>1, <1>5
  <2>2. PICK s \in SetToSeqs(direct \ {e}) : first = <<e>> \o s
    BY <2>1
  <2>3. direct \ {e} \in SUBSET DOMAIN tags
    BY <1>2
  <2>4. s \in Seq(DOMAIN tags)
    BY <1>3, <2>3
  <2>5. <<e>> \in Seq(DOMAIN tags)
    BY <1>2
  <2>6. <<e>> \o s \in Seq(DOMAIN tags)
    BY <2>4, <2>5, Concatenation
  <2>. QED
    BY <2>2, <2>6
<1>. QED
  BY <1>4, <1>5

LEMMA MergeServes ==
  ASSUME Merge
  PROVE  TopicsServed(found', about', sources')
<1>1. Aspects(found')
  <2>1. found' \in [1 .. Topics -> EvidenceLists]
    BY DEF Merge
  <2>2. EvidenceLists \subseteq Seq(Evidences)
    <3>1. EvidenceLimit \in Nat
      BY Numbers
    <3>2. \A s \in BoundedSeq(Evidences, EvidenceLimit) : s \in Seq(Evidences)
      BY <3>1, BoundedSequences
    <3>. QED
      BY <3>2 DEF EvidenceLists
  <2>3. found' \in [1 .. Topics -> Seq(Evidences)]
    BY <2>1, <2>2
  <2>. QED
    BY <2>3, Numbers DEF Aspects
<1>2. PICK ranked : ranked = found'
  OBVIOUS
<1>3. PICK tags : tags = about'
  OBVIOUS
<1>4. CASE about' = Tags(found', <<>>) /\ sources' = Cut(RoundRobin(found'), MaxSources)
  <2>1. Tagged(Tags(ranked, <<>>), ranked)
    <3>1. \A e \in DOMAIN <<>> : <<>>[e] \subseteq 1 .. Topics
      OBVIOUS
    <3>. QED
      BY <1>1, <1>2, <3>1, TagsTagged
  <2>2. TopicsServed(ranked, tags, Cut(RoundRobin(ranked), MaxSources))
    BY <1>1, <1>2, <1>3, <1>4, <2>1, RoundRobinServes
  <2>. QED
    BY <1>2, <1>3, <1>4, <2>2
<1>5. CASE \E mentions \in [ToSet(found'[Topics]) -> SUBSET (1 .. Topics - 1)] :
             /\ about' = Tags(found', mentions)
             /\ \E first \in Firsts(found', about') :
                  sources' = Cut(Shared(found', about', first), MaxSources)
  <2>1. PICK mentions \in [ToSet(ranked[Topics]) -> SUBSET (1 .. Topics - 1)] :
             /\ tags = Tags(ranked, mentions)
             /\ \E first \in Firsts(ranked, tags) :
                  sources' = Cut(Shared(ranked, tags, first), MaxSources)
    BY <1>2, <1>3, <1>5
  <2>2. PICK first \in Firsts(ranked, tags) : sources' = Cut(Shared(ranked, tags, first), MaxSources)
    BY <2>1
  <2>3. \A e \in DOMAIN mentions : mentions[e] \subseteq 1 .. Topics
    BY <2>1, Numbers
  <2>4. Tagged(tags, ranked)
    BY <1>1, <1>2, <2>1, <2>3, TagsTagged
  <2>5. first \in Seq(DOMAIN tags)
    BY <2>2, <2>4, FirstsTyped DEF Tagged
  <2>6. TopicsServed(ranked, tags, Cut(Shared(ranked, tags, first), MaxSources))
    BY <1>1, <1>2, <2>4, <2>5, SharedServes
  <2>. QED
    BY <1>2, <1>3, <2>2, <2>6
<1>. QED
  BY <1>4, <1>5 DEF Merge

(***************************************************************************)
(* Whatever order the cross-encoder puts the candidates in, no evidence    *)
(* unit takes more than two of the places; and an aspect that found        *)
(* evidence is without a source only if the sources speak of as many       *)
(* aspects as there are sources.                                           *)
(***************************************************************************)
TopicsInv == FusionInv /\ NothingCrowdedOut

LEMMA TopicsNext == TopicsInv /\ [RankingNext]_rankingVars => TopicsInv'
<1>. SUFFICES ASSUME TopicsInv, [RankingNext]_rankingVars PROVE TopicsInv'
  OBVIOUS
<1>1. FusionInv /\ FusionInv'
  BY FusionNext DEF TopicsInv
<1>2. EveryEvidence <=> (at = "compress" => EvidenceKept(evidence, fused))
  BY DEF EveryEvidence, EvidenceKept, EvidencesOf
<1>3. EveryTopic <=> (at = "done" => TopicsServed(found, about, sources))
  BY DEF EveryTopic, TopicsServed
<1>4. EveryEvidence' <=> (at' = "compress" => EvidenceKept(evidence', fused'))
  BY DEF EveryEvidence, EvidenceKept, EvidencesOf
<1>5. EveryTopic' <=> (at' = "done" => TopicsServed(found', about', sources'))
  BY DEF EveryTopic, TopicsServed
<1>6. EveryEvidence /\ EveryTopic
  BY DEF TopicsInv, NothingCrowdedOut
<1>7. CASE Search \/ Rank \/ FuseQueries \/ Compress \/ NextQuestion
  <2>1. at' # "compress" /\ at' # "done"
    BY <1>7 DEF Search, Rank, FuseQueries, Compress, NextQuestion
  <2>. QED
    BY <1>1, <1>4, <1>5, <2>1 DEF TopicsInv, NothingCrowdedOut
<1>8. CASE Rerank \/ Fallback
  <2>1. at' = "compress" /\ fused' = fused
    BY <1>8 DEF Rerank, Fallback
  <2>2. EvidenceKept(evidence', fused)
    BY <1>1, <1>8, RerankKeeps DEF FusionInv
  <2>. QED
    BY <1>1, <1>4, <1>5, <2>1, <2>2 DEF TopicsInv, NothingCrowdedOut
<1>9. CASE Merge
  <2>1. at' = "done"
    BY <1>9 DEF Merge
  <2>2. TopicsServed(found', about', sources')
    BY <1>9, MergeServes
  <2>. QED
    BY <1>1, <1>4, <1>5, <2>1, <2>2 DEF TopicsInv, NothingCrowdedOut
<1>10. CASE UNCHANGED rankingVars
  <2>1. /\ at' = at /\ fused' = fused /\ evidence' = evidence
        /\ found' = found /\ about' = about /\ sources' = sources
    BY <1>10 DEF rankingVars, question
  <2>. QED
    BY <1>1, <1>2, <1>3, <1>4, <1>5, <1>6, <2>1 DEF TopicsInv, NothingCrowdedOut
<1>. QED
  BY <1>7, <1>8, <1>9, <1>10 DEF RankingNext

THEOREM CrowdsOutNothing == RankingSpec => []NothingCrowdedOut
<1>1. RankingInit => TopicsInv
  <2>1. RankingInit => at = "search"
    BY DEF RankingInit
  <2>. QED
    BY <2>1, FusionInit DEF TopicsInv, NothingCrowdedOut, EveryEvidence, EveryTopic
<1>2. TopicsInv /\ [RankingNext]_rankingVars => TopicsInv'
  BY TopicsNext
<1>3. TopicsInv => NothingCrowdedOut
  BY DEF TopicsInv
<1>. QED
  BY <1>1, <1>2, <1>3, PTL DEF RankingSpec
==============================================================================
