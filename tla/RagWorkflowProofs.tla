-------------------------- MODULE RagWorkflowProofs --------------------------
(***************************************************************************)
(* Proofs about RagWorkflow, for every set of aspects and manuals, every   *)
(* retry limit and every number of turns.  What a turn ends with follows   *)
(* from what each node may rely on: an invariant of the edges of the graph.*)
(***************************************************************************)
EXTENDS RagWorkflow, TLAPS

(***************************************************************************)
(* What holds before each node                                             *)
(***************************************************************************)
Planned == Nodes \ {"understand"}
Answering == {"verify", "diagram"}

\* Everything the turn has gathered is its own.
OwnEvidence ==
  /\ \A a \in DOMAIN docs : \A d \in docs[a] : d.turn = turn
  /\ \A d \in sources \cup reranked : d.turn = turn

\* Passes and broadenings follow the checkpointed retry count.
Counting ==
  /\ retryCount \in {0, 1} /\ broadened = retryCount
  /\ pc = "retrieve" => passes = retryCount
  /\ pc \in {"expand", "rerank", "grade"} => passes = retryCount + 1
  /\ pc = "broaden" => passes = 1 /\ retryCount = 0 /\ 0 < MaxRetries

\* A broadened pass has something to look for, and no supported aspect.
Targeted ==
  missing # {} /\ \A a \in required : coverage[a] \in Supported => a \notin missing

\* The grade of a turn that is answered.
Supports ==
  /\ status \in Supported /\ reranked # {}
  /\ \E a \in required : coverage[a] \in Supported
  /\ status = "sufficient" =>
       /\ \A a \in required : coverage[a] = "sufficient"
       /\ requiredManuals \subseteq {d.manual : d \in UNION {docs[a] : a \in required}}

\* The grade of a turn that is refused.  A higher limit of retries than one is
\* graded as one more retry and routed to the refusal, whatever is supported.
Refuses ==
  /\ status \notin Supported
  /\ MaxRetries <= 1 => \A a \in required : coverage[a] \notin Supported

\* What the user is told fits what failed.
Fits ==
  /\ answer.kind = "draft" => failed \cap Unverified # {}
  /\ answer.kind = "unavailable" <=> "answer" \in failed

\* The nodes of the second pass that keep what the first one found.
Keeping == {"retrieve", "expand", "rerank"}

BeforeNode ==
  /\ pc \in Nodes => turn # 0
  /\ pc = "understand" => passes = 0 /\ broadened = 0 /\ failed = {}
  /\ pc \in Planned =>
       basicChat = FALSE /\ required # {} /\ diagram = 0 /\ OwnEvidence /\ Counting
  /\ pc \in Planned \ Answering =>
       sources = {} /\ grounded = FALSE /\ llmErrorRole = "" /\ failed = {}
  /\ pc \in Keeping /\ retryCount = 1 => Targeted
  /\ pc = "grade" => reranked # {} \/ \A a \in DOMAIN docs : docs[a] = {}
  /\ pc = "broaden" => Targeted
  /\ pc \in {"generate"} \cup Answering => Supports
  /\ pc = "fallback" => Refuses
  /\ pc \in Answering => answer.turn = turn
  /\ pc = "verify" => /\ answer.kind \in {"draft", "unavailable"}
                      /\ answer.kind = "unavailable" => llmErrorRole = "answer" /\ failed = {"answer"}
                      /\ answer.kind = "draft" => llmErrorRole = "" /\ failed = {}
  /\ pc = "diagram" => /\ answer.kind \in {"draft", "verified"} /\ Fits
                       /\ sources # {} /\ sources \subseteq reranked /\ sources = answer.cites

\* What a completed turn has.
AfterTurn ==
  outcome = "complete" =>
    /\ pc = "idle" /\ answer.turn = turn
    /\ basicChat = FALSE =>
         /\ diagram \in {0, turn} /\ OwnEvidence
         /\ answer.kind \in {"draft", "verified", "unavailable", "fallback"} /\ Fits
         /\ answer.kind # "fallback" => Supports
         /\ answer.kind = "fallback" => Refuses
         /\ grounded => /\ sources # {} /\ sources \subseteq reranked /\ sources = answer.cites
                        /\ answer.kind \in {"draft", "verified"}

WorkflowInv == TypeOK /\ BeforeNode /\ AfterTurn
-----------------------------------------------------------------------------
(* The types, by who writes what *)

TurnTypes ==
  /\ pc \in Nodes \cup {"idle"} /\ turn \in 0 .. MaxTurns
  /\ outcome \in {"none", "complete", "error"} /\ enabled \in BOOLEAN
PlanTypes ==
  /\ basicChat \in BOOLEAN /\ outOfScope \in BOOLEAN /\ relationshipMode \in BOOLEAN
  /\ wanted \in BOOLEAN /\ required \subseteq Aspects /\ requiredManuals \subseteq Manuals
GradeTypes ==
  /\ retryCount \in Nat /\ missing \subseteq Aspects \cup Manuals
  /\ DOMAIN coverage \subseteq Aspects
  /\ status \in Statuses /\ \A a \in DOMAIN coverage : coverage[a] \in Statuses
DocTypes ==
  /\ DOMAIN docs \subseteq Aspects \cup {Relationship}
  /\ \A a \in DOMAIN docs : docs[a] \subseteq Document
  /\ reranked \subseteq Document
AnswerTypes ==
  /\ answer \in Answer /\ sources \subseteq Document /\ grounded \in BOOLEAN
  /\ llmErrorRole \in {"", "answer"} /\ diagram \in 0 .. MaxTurns
HistoryTypes ==
  /\ passes \in 0 .. 2 /\ broadened \in 0 .. 1 /\ failed \subseteq {"answer"} \cup Unverified
  /\ queried \subseteq Aspects \cup {Relationship}
Types ==
  TurnTypes /\ PlanTypes /\ GradeTypes /\ DocTypes /\ AnswerTypes /\ HistoryTypes

LEMMA TypesNow == TypeOK <=> Types
BY DEF TypeOK, Types, TurnTypes, PlanTypes, GradeTypes, DocTypes, AnswerTypes, HistoryTypes

LEMMA TypesNext == TypeOK' <=> Types'
BY DEF TypeOK, Types, TurnTypes, PlanTypes, GradeTypes, DocTypes, AnswerTypes, HistoryTypes

LEMMA InvNow ==
  ASSUME WorkflowInv
  PROVE  /\ TurnTypes /\ PlanTypes /\ GradeTypes /\ DocTypes /\ AnswerTypes /\ HistoryTypes
         /\ BeforeNode /\ AfterTurn
BY TypesNow DEF WorkflowInv, Types

LEMMA InvNext ==
  ASSUME TurnTypes', PlanTypes', GradeTypes', DocTypes', AnswerTypes', HistoryTypes',
         BeforeNode', AfterTurn'
  PROVE  WorkflowInv'
BY TypesNext DEF WorkflowInv, Types

\* What a step leaves alone keeps its type.
LEMMA Untouched ==
  ASSUME WorkflowInv
  PROVE  /\ UNCHANGED planVars => PlanTypes'
         /\ UNCHANGED <<gradeVars, retryCount, missing>> => GradeTypes'
         /\ UNCHANGED docVars => DocTypes'
         /\ UNCHANGED <<answerVars, diagram>> => AnswerTypes'
         /\ UNCHANGED history => HistoryTypes'
<1>1. UNCHANGED planVars => PlanTypes'
  BY InvNow DEF planVars, PlanTypes
<1>2. UNCHANGED <<gradeVars, retryCount, missing>> => GradeTypes'
  BY InvNow DEF gradeVars, GradeTypes, Statuses
<1>3. UNCHANGED docVars => DocTypes'
  BY InvNow DEF docVars, DocTypes, Document
<1>4. UNCHANGED <<answerVars, diagram>> => AnswerTypes'
  BY InvNow DEF answerVars, AnswerTypes, Answer, Document
<1>5. UNCHANGED history => HistoryTypes'
  BY InvNow DEF history, HistoryTypes
<1>. QED
  BY <1>1, <1>2, <1>3, <1>4, <1>5

\* A step to a node does not end the turn; the turn and the switches stay.
LEMMA Going ==
  ASSUME WorkflowInv, pc # "idle", NEW node \in Nodes, Goto(node)
  PROVE  /\ pc' = node /\ turn' = turn /\ turn' # 0 /\ outcome' = outcome /\ outcome # "complete"
         /\ TurnTypes' /\ AfterTurn'
<1>1. pc' = node /\ turn' = turn /\ outcome' = outcome /\ enabled' = enabled
  BY DEF Goto, turnVars
<1>2. outcome # "complete"
  BY InvNow DEF AfterTurn
<1>3. TurnTypes'
  BY <1>1, InvNow DEF TurnTypes
<1>4. AfterTurn'
  BY <1>1, <1>2 DEF AfterTurn
<1>5. turn # 0
  BY InvNow DEF BeforeNode, TurnTypes
<1>. QED
  BY <1>1, <1>2, <1>3, <1>4, <1>5

\* The end of a turn.
LEMMA Completing ==
  ASSUME WorkflowInv, Complete
  PROVE  pc' = "idle" /\ turn' = turn /\ outcome' = "complete" /\ TurnTypes' /\ BeforeNode'
<1>1. pc' = "idle" /\ turn' = turn /\ outcome' = "complete" /\ enabled' = enabled
  BY DEF Complete
<1>2. TurnTypes'
  BY <1>1, InvNow DEF TurnTypes
<1>3. BeforeNode'
  BY <1>1 DEF BeforeNode, Planned, Answering, Nodes, Keeping
<1>. QED
  BY <1>1, <1>2, <1>3
-----------------------------------------------------------------------------
(* The turn's start and end *)

LEMMA WorkflowInit ==
  ASSUME Init
  PROVE  WorkflowInv
<1>1. TurnTypes /\ PlanTypes /\ HistoryTypes
  <2>1. 0 \in 0 .. MaxTurns
    BY WorkflowAssumption
  <2>2. TurnTypes
    BY <2>1 DEF Init, TurnTypes
  <2>3. PlanTypes
    BY DEF Init, PlanTypes
  <2>4. passes \in 0 .. 2 /\ broadened \in 0 .. 1
    <3>1. passes = 0 /\ broadened = 0
      BY DEF Init
    <3>. QED
      BY <3>1
  <2>5. queried \subseteq Aspects \cup {Relationship}
    BY DEF Init
  <2>6. HistoryTypes
    BY <2>4, <2>5 DEF Init, HistoryTypes
  <2>. QED
    BY <2>2, <2>3, <2>6
<1>2. GradeTypes
  BY DEF Init, GradeTypes, NoFunction, Statuses
<1>3. DocTypes
  BY DEF Init, DocTypes, NoFunction
<1>4. AnswerTypes
  <2>1. 0 \in 0 .. MaxTurns
    BY WorkflowAssumption
  <2>2. NoAnswer \in Answer
    BY <2>1 DEF NoAnswer, Answer
  <2>. QED
    BY <2>1, <2>2 DEF Init, AnswerTypes
<1>5. BeforeNode
  BY DEF Init, BeforeNode, Planned, Answering, Nodes, Keeping
<1>6. AfterTurn
  BY DEF Init, AfterTurn
<1>. QED
  BY <1>1, <1>2, <1>3, <1>4, <1>5, <1>6, TypesNow DEF WorkflowInv, Types

\* A new turn leaves what the checkpoint holds.
LEMMA AskKeeps ==
  ASSUME WorkflowInv, Ask
  PROVE  WorkflowInv'
<1>1. /\ turn < MaxTurns /\ turn' = turn + 1 /\ enabled' \in BOOLEAN /\ retryCount' = 0
      /\ pc' = "understand" /\ outcome' = "none"
      /\ passes' = 0 /\ broadened' = 0 /\ queried' = {} /\ failed' = {}
      /\ UNCHANGED <<planVars, gradeVars, missing, docVars, answerVars, diagram>>
  BY DEF Ask
<1>2. TurnTypes'
  <2>1. turn \in 0 .. MaxTurns /\ MaxTurns \in Nat
    BY InvNow, WorkflowAssumption DEF TurnTypes
  <2>2. turn' \in 0 .. MaxTurns
    BY <1>1, <2>1
  <2>. QED
    BY <1>1, <2>2 DEF TurnTypes, Nodes
<1>0. turn' # 0
  <2>1. turn \in Nat
    BY InvNow DEF TurnTypes
  <2>. QED
    BY <1>1, <2>1
<1>3. GradeTypes'
  BY <1>1, InvNow DEF GradeTypes, gradeVars, Statuses
<1>4. HistoryTypes'
  <2>1. passes' \in 0 .. 2 /\ broadened' \in 0 .. 1
    BY <1>1
  <2>2. queried' \subseteq Aspects \cup {Relationship}
    BY <1>1
  <2>. QED
    BY <1>1, <2>1, <2>2 DEF HistoryTypes
<1>5. BeforeNode'
  BY <1>0, <1>1 DEF BeforeNode, Planned, Answering, Nodes
<1>6. AfterTurn'
  BY <1>1 DEF AfterTurn
<1>. QED
  BY <1>1, <1>2, <1>3, <1>4, <1>5, <1>6, Untouched, InvNext

\* A turn that a node breaks off leaves what the checkpoint holds.
LEMMA RaiseKeeps ==
  ASSUME WorkflowInv, Raise
  PROVE  WorkflowInv'
<1>1. /\ pc' = "idle" /\ outcome' = "error" /\ turn' = turn /\ enabled' = enabled
      /\ UNCHANGED <<planVars, gradeVars, retryCount, missing, docVars, answerVars, diagram, history>>
  BY DEF Raise
<1>2. TurnTypes'
  BY <1>1, InvNow DEF TurnTypes
<1>3. BeforeNode'
  BY <1>1 DEF BeforeNode, Planned, Answering, Nodes, Keeping
<1>4. AfterTurn'
  BY <1>1 DEF AfterTurn
<1>. QED
  BY <1>1, <1>2, <1>3, <1>4, Untouched, InvNext

LEMMA UnderstandBasicKeeps ==
  ASSUME WorkflowInv, UnderstandBasic
  PROVE  WorkflowInv'
<1>1. /\ basicChat' = TRUE /\ Complete
      /\ answer' = Reply("basic", {}) /\ sources' = {} /\ grounded' = FALSE
      /\ docs' = NoFunction /\ reranked' = {} /\ wanted' = FALSE /\ diagram' = 0
      /\ relationshipMode' = FALSE /\ retryCount' = 0
      /\ UNCHANGED <<outOfScope, required, requiredManuals, gradeVars, missing, llmErrorRole, history>>
  BY DEF UnderstandBasic
<1>2. PlanTypes'
  BY <1>1, InvNow DEF PlanTypes
<1>3. GradeTypes'
  BY <1>1, InvNow DEF GradeTypes, gradeVars, Statuses
<1>4. DocTypes'
  BY <1>1 DEF DocTypes, NoFunction
<1>5. AnswerTypes'
  <2>1. turn \in 0 .. MaxTurns /\ 0 \in 0 .. MaxTurns
    BY InvNow, WorkflowAssumption DEF TurnTypes
  <2>2. (answer \in Answer)'
    BY <1>1, <2>1 DEF Reply, Answer
  <2>. QED
    BY <1>1, <2>1, <2>2, InvNow DEF AnswerTypes
<1>6. AfterTurn'
  BY <1>1, Completing DEF AfterTurn, Reply
<1>. QED
  BY <1>1, <1>2, <1>3, <1>4, <1>5, <1>6, Completing, Untouched, InvNext

LEMMA UnderstandPlanKeeps ==
  ASSUME WorkflowInv, UnderstandPlan
  PROVE  WorkflowInv'
<1>1. /\ pc = "understand" /\ Goto("retrieve")
      /\ basicChat' = FALSE /\ outOfScope' \in BOOLEAN /\ required' \in (SUBSET Aspects) \ {{}}
      /\ requiredManuals' \in SUBSET Manuals
      /\ relationshipMode' \in BOOLEAN /\ wanted' \in BOOLEAN
      /\ retryCount' = 0 /\ missing' = {} /\ coverage' = NoFunction
      /\ docs' = NoFunction /\ reranked' = {} /\ answer' = NoAnswer /\ sources' = {}
      /\ grounded' = FALSE /\ llmErrorRole' = "" /\ diagram' = 0
      /\ UNCHANGED <<status, history>>
  BY DEF UnderstandPlan, Plan, RequiredAspects, RequiredManuals, DomainContext
<1>2. PlanTypes'
  BY <1>1 DEF PlanTypes
<1>3. GradeTypes'
  BY <1>1, InvNow DEF GradeTypes, NoFunction, Statuses
<1>4. DocTypes'
  BY <1>1 DEF DocTypes, NoFunction
<1>5. AnswerTypes'
  <2>1. 0 \in 0 .. MaxTurns
    BY WorkflowAssumption
  <2>2. (answer \in Answer)'
    BY <1>1, <2>1 DEF NoAnswer, Answer
  <2>. QED
    BY <1>1, <2>1, <2>2 DEF AnswerTypes
<1>6. pc' = "retrieve" /\ turn' # 0 /\ TurnTypes' /\ AfterTurn'
  BY <1>1, Going DEF Nodes
<1>7. passes' = 0 /\ broadened' = 0 /\ failed' = {}
  BY <1>1, InvNow DEF BeforeNode, history
<1>8. OwnEvidence'
  BY <1>1 DEF OwnEvidence, NoFunction
<1>9. Counting'
  BY <1>1, <1>6, <1>7 DEF Counting
<1>10. BeforeNode'
  <2>1. required' # {}
    BY <1>1
  <2>2. basicChat' = FALSE /\ diagram' = 0
    BY <1>1
  <2>3. sources' = {} /\ grounded' = FALSE /\ llmErrorRole' = ""
    BY <1>1
  <2>4. pc' = "retrieve" /\ retryCount' # 1
    <3>1. retryCount' = 0
      BY <1>1
    <3>. QED
      BY <1>6, <3>1
  <2>. QED
    BY <2>1, <2>2, <2>3, <2>4, <1>6, <1>7, <1>8, <1>9 DEF BeforeNode, Planned, Answering, Nodes
<1>. QED
  BY <1>1, <1>2, <1>3, <1>4, <1>5, <1>6, <1>10, Untouched, InvNext
-----------------------------------------------------------------------------
(* The nodes that gather and grade evidence *)

Gathering == {"retrieve", "expand", "rerank", "grade", "broaden"}

\* They leave the plan and the answer alone.
LEMMA Onward ==
  ASSUME WorkflowInv, pc \in Gathering, pc' \in Planned \ Answering, turn' # 0,
         UNCHANGED <<planVars, answerVars, diagram, failed>>,
         OwnEvidence', Counting',
         pc' \in Keeping /\ retryCount' = 1 => Targeted',
         pc' = "grade" => reranked' # {} \/ \A a \in DOMAIN docs' : docs'[a] = {},
         pc' = "broaden" => Targeted',
         pc' = "generate" => Supports',
         pc' = "fallback" => Refuses'
  PROVE  BeforeNode'
<1>1. pc \in Planned /\ pc \notin Answering
  BY DEF Gathering, Planned, Answering, Nodes
<1>2. pc' # "understand" /\ pc' # "verify" /\ pc' # "diagram" /\ pc' \notin Answering
  BY DEF Planned, Answering
<1>3. basicChat = FALSE /\ required # {} /\ diagram = 0
  BY <1>1, InvNow DEF BeforeNode
<1>4. sources = {} /\ grounded = FALSE /\ llmErrorRole = "" /\ failed = {}
  BY <1>1, InvNow DEF BeforeNode
<1>5. basicChat' = FALSE /\ required' # {} /\ diagram' = 0
  BY <1>3 DEF planVars
<1>6. sources' = {} /\ grounded' = FALSE /\ llmErrorRole' = "" /\ failed' = {}
  BY <1>4 DEF answerVars
<1>. QED
  BY <1>2, <1>5, <1>6 DEF BeforeNode

\* What the documents of an earlier turn cannot be among.
LEMMA Gathered ==
  ASSUME WorkflowInv, pc \in Gathering
  PROVE  /\ OwnEvidence /\ Counting /\ sources = {} /\ pc # "idle" /\ required # {}
         /\ retryCount \in {0, 1} /\ broadened = retryCount
BY InvNow DEF BeforeNode, Planned, Answering, Gathering, Nodes, Counting

\* What a second pass looks for stays while it gathers.
LEMMA AimStays ==
  ASSUME WorkflowInv, pc \in Keeping, UNCHANGED <<planVars, gradeVars, retryCount, missing>>
  PROVE  retryCount' = 1 => Targeted'
BY InvNow DEF BeforeNode, Targeted, planVars, gradeVars

LEMMA RetrieveKeeps ==
  ASSUME WorkflowInv, Retrieve
  PROVE  WorkflowInv'
<1>1. pc = "retrieve" /\ Goto("expand") /\ passes' = Counted(passes) /\ queried' = ToQuery
      /\ UNCHANGED <<planVars, gradeVars, retryCount, missing, reranked, answerVars,
                     diagram, broadened, failed>>
  BY DEF Retrieve
<1>2. PICK found \in [ToQuery -> SUBSET Manuals] :
        docs' = [a \in Kept \cup ToQuery |->
                   IF a \in ToQuery THEN {[turn |-> turn, manual |-> m] : m \in found[a]} ELSE docs[a]]
  BY DEF Retrieve
<1>3. OwnEvidence /\ Counting /\ retryCount \in {0, 1} /\ broadened = retryCount /\ sources = {}
  BY <1>1, Gathered DEF Gathering
<1>4. pc' = "expand" /\ turn' = turn /\ TurnTypes' /\ AfterTurn'
  BY <1>1, Going DEF Nodes
<1>5. passes = retryCount /\ passes' = retryCount + 1
  BY <1>1, <1>3 DEF Counting, Counted
<1>6. Kept \subseteq DOMAIN docs /\ ToQuery \subseteq Aspects \cup {Relationship}
  BY InvNow DEF Kept, ToQuery, PlanTypes
<1>7. turn \in 1 .. MaxTurns
  <2>1. turn # 0
    BY <1>1, <1>4, Going DEF Nodes
  <2>. QED
    BY <2>1, InvNow, WorkflowAssumption DEF TurnTypes
<1>8. DOMAIN docs' = Kept \cup ToQuery
  BY <1>2
<1>9. \A a \in ToQuery : docs'[a] = {[turn |-> turn, manual |-> m] : m \in found[a]}
  BY <1>2
<1>10. \A a \in Kept \ ToQuery : docs'[a] = docs[a]
  BY <1>2
<1>11. DocTypes'
  <2>1. \A a \in ToQuery : docs'[a] \subseteq Document
    BY <1>2, <1>7, <1>9 DEF Document
  <2>2. \A a \in Kept \ ToQuery : docs'[a] \subseteq Document
    BY <1>6, <1>10, InvNow DEF DocTypes
  <2>3. reranked' \subseteq Document
    BY <1>1, InvNow DEF DocTypes
  <2>4. DOMAIN docs' \subseteq Aspects \cup {Relationship}
    BY <1>6, <1>8, InvNow DEF DocTypes
  <2>5. Document' = Document
    BY DEF Document
  <2>. QED
    BY <1>8, <2>1, <2>2, <2>3, <2>4, <2>5 DEF DocTypes
<1>12. OwnEvidence'
  <2>1. \A a \in ToQuery : \A d \in docs'[a] : d.turn = turn
    BY <1>9
  <2>2. \A a \in Kept \ ToQuery : \A d \in docs'[a] : d.turn = turn
    BY <1>3, <1>6, <1>10 DEF OwnEvidence
  <2>3. UNCHANGED <<sources, reranked>>
    BY <1>1 DEF answerVars
  <2>. QED
    BY <1>3, <1>4, <1>8, <2>1, <2>2, <2>3 DEF OwnEvidence
<1>13. Counting'
  BY <1>1, <1>3, <1>4, <1>5 DEF Counting
<1>14. HistoryTypes'
  <2>1. passes' \in 0 .. 2
    BY <1>3, <1>5
  <2>2. broadened' \in 0 .. 1 /\ failed' \subseteq {"answer"} \cup Unverified
    BY <1>1, InvNow DEF HistoryTypes
  <2>3. queried' \subseteq Aspects \cup {Relationship}
    BY <1>1, <1>6
  <2>. QED
    BY <2>1, <2>2, <2>3 DEF HistoryTypes
<1>15. BeforeNode'
  <2>1. UNCHANGED <<planVars, answerVars, diagram, failed>>
    BY <1>1
  <2>2. pc \in Gathering /\ pc' \in Planned \ Answering
    BY <1>1, <1>4 DEF Gathering, Planned, Answering, Nodes
  <2>3. turn' # 0
    BY <1>4, <1>7
  <2>4. retryCount' = 1 => Targeted'
    BY <1>1, AimStays DEF Keeping
  <2>. QED
    BY <1>4, <1>12, <1>13, <2>1, <2>2, <2>3, <2>4, Onward
<1>16. PlanTypes' /\ GradeTypes' /\ AnswerTypes'
  BY <1>1, Untouched
<1>. QED
  BY <1>4, <1>11, <1>14, <1>15, <1>16, InvNext

LEMMA ExpandKeeps ==
  ASSUME WorkflowInv, Expand
  PROVE  WorkflowInv'
<1>1. /\ pc = "expand" /\ Goto("rerank")
      /\ UNCHANGED <<planVars, gradeVars, retryCount, missing, docVars, answerVars, diagram, history>>
  BY DEF Expand
<1>2. OwnEvidence /\ Counting
  BY <1>1, Gathered DEF Gathering
<1>3. pc' = "rerank" /\ turn' = turn /\ turn' # 0 /\ TurnTypes' /\ AfterTurn'
  BY <1>1, Going DEF Nodes
<1>4. OwnEvidence'
  <2>1. UNCHANGED <<docs, reranked, sources, turn>>
    BY <1>1, <1>3 DEF docVars, answerVars
  <2>. QED
    BY <1>2, <2>1 DEF OwnEvidence
<1>5. Counting'
  BY <1>1, <1>2, <1>3 DEF Counting, history
<1>6. BeforeNode'
  <2>1. UNCHANGED <<planVars, answerVars, diagram, failed>>
    BY <1>1 DEF history
  <2>2. pc \in Gathering /\ pc' \in Planned \ Answering
    BY <1>1, <1>3 DEF Gathering, Planned, Answering, Nodes
  <2>3. retryCount' = 1 => Targeted'
    BY <1>1, AimStays DEF Keeping
  <2>. QED
    BY <1>3, <1>4, <1>5, <2>1, <2>2, <2>3, Onward
<1>. QED
  BY <1>1, <1>3, <1>6, Untouched, InvNext

LEMMA RerankKeeps ==
  ASSUME WorkflowInv, Rerank
  PROVE  WorkflowInv'
<1>1. /\ pc = "rerank" /\ Goto("grade")
      /\ UNCHANGED <<planVars, gradeVars, retryCount, missing, answerVars, diagram, history>>
  BY DEF Rerank
<1>2. PICK top \in [DOMAIN docs -> SUBSET UNION {docs[a] : a \in DOMAIN docs}] :
        /\ \A a \in DOMAIN docs : top[a] \subseteq docs[a]
        /\ docs' = top
        /\ reranked' \in Merges(top)
  BY DEF Rerank
<1>3. OwnEvidence /\ Counting /\ sources = {}
  BY <1>1, Gathered DEF Gathering
<1>4. pc' = "grade" /\ turn' = turn /\ turn' # 0 /\ TurnTypes' /\ AfterTurn'
  BY <1>1, Going DEF Nodes
<1>5. DOMAIN docs' = DOMAIN docs /\ \A a \in DOMAIN docs : docs'[a] \subseteq docs[a]
  BY <1>2
<1>6. PICK all : all = UNION {docs'[a] : a \in DOMAIN docs'}
  OBVIOUS
<1>7. reranked' \subseteq all /\ (reranked' = {} => all = {})
  BY <1>2, <1>6 DEF Merges
<1>8. \A d \in reranked' : \E a \in DOMAIN docs : d \in docs[a]
  BY <1>5, <1>6, <1>7
<1>9. DocTypes'
  <2>1. reranked' \subseteq Document
    BY <1>8, InvNow DEF DocTypes
  <2>2. DOMAIN docs' \subseteq Aspects \cup {Relationship}
    BY <1>5, InvNow DEF DocTypes
  <2>3. \A a \in DOMAIN docs' : docs'[a] \subseteq Document
    BY <1>5, InvNow DEF DocTypes
  <2>4. Document' = Document
    BY DEF Document
  <2>. QED
    BY <2>1, <2>2, <2>3, <2>4 DEF DocTypes
<1>10. OwnEvidence'
  <2>1. \A a \in DOMAIN docs' : \A d \in docs'[a] : d.turn = turn
    BY <1>3, <1>5 DEF OwnEvidence
  <2>2. \A d \in reranked' : d.turn = turn
    BY <1>3, <1>8 DEF OwnEvidence
  <2>3. sources' = {}
    BY <1>1, <1>3 DEF answerVars
  <2>. QED
    BY <1>4, <2>1, <2>2, <2>3 DEF OwnEvidence
<1>11. Counting'
  BY <1>1, <1>3, <1>4 DEF Counting, history
<1>12. reranked' # {} \/ \A a \in DOMAIN docs' : docs'[a] = {}
  BY <1>6, <1>7
<1>13. BeforeNode'
  <2>1. UNCHANGED <<planVars, answerVars, diagram, failed>>
    BY <1>1 DEF history
  <2>2. pc \in Gathering /\ pc' \in Planned \ Answering
    BY <1>1, <1>4 DEF Gathering, Planned, Answering, Nodes
  <2>. QED
    BY <1>4, <1>10, <1>11, <1>12, <2>1, <2>2, Onward DEF Keeping
<1>. QED
  BY <1>1, <1>4, <1>9, <1>13, Untouched, InvNext

\* What grading rests on.
LEMMA Graded ==
  ASSUME WorkflowInv, pc = "grade"
  PROVE  \A a \in required : DocsOf(a) # {} \/ DocsOf(Relationship) # {} => reranked # {}
BY InvNow DEF BeforeNode, DocsOf

LEMMA GradeOutOfScopeKeeps ==
  ASSUME WorkflowInv, GradeOutOfScope
  PROVE  WorkflowInv'
<1>1. /\ pc = "grade" /\ status' = "out_of_scope"
      /\ coverage' = [a \in required |-> "out_of_scope"] /\ missing' = required
      /\ Goto("fallback")
      /\ UNCHANGED <<planVars, retryCount, docVars, answerVars, diagram, history>>
  BY DEF GradeOutOfScope, RouteAfterGrade, Supported
<1>2. OwnEvidence /\ Counting
  BY <1>1, Gathered DEF Gathering
<1>3. pc' = "fallback" /\ turn' = turn /\ turn' # 0 /\ TurnTypes' /\ AfterTurn'
  BY <1>1, Going DEF Nodes
<1>4. OwnEvidence'
  <2>1. UNCHANGED <<docs, reranked, sources, turn>>
    BY <1>1, <1>3 DEF docVars, answerVars
  <2>. QED
    BY <1>2, <2>1 DEF OwnEvidence
<1>5. Counting'
  BY <1>1, <1>2, <1>3 DEF Counting, history
<1>6. Refuses'
  BY <1>1 DEF Refuses, Supported, planVars
<1>7. GradeTypes'
  BY <1>1, InvNow DEF GradeTypes, PlanTypes, Statuses
<1>8. BeforeNode'
  <2>1. UNCHANGED <<planVars, answerVars, diagram, failed>>
    BY <1>1 DEF history
  <2>2. pc \in Gathering /\ pc' \in Planned \ Answering
    BY <1>1, <1>3 DEF Gathering, Planned, Answering, Nodes
  <2>. QED
    BY <1>3, <1>4, <1>5, <1>6, <2>1, <2>2, Onward DEF Keeping
<1>. QED
  BY <1>1, <1>3, <1>7, <1>8, Untouched, InvNext

\* How the aspects' grades add up.
LEMMA OverallGrade ==
  ASSUME WorkflowInv, required # {}, NEW graded \in [required -> Statuses], NEW s, s = Overall(graded),
         NEW lacking, lacking = MissingManuals(graded)
  PROVE  /\ s \in {"retry", "sufficient", "partial", "in_scope_insufficient"}
         /\ s = "retry" => /\ retryCount < MaxRetries
                           /\ lacking # {} \/ \E a \in required : graded[a] = "retry"
         /\ s = "sufficient" => lacking = {} /\ \A a \in required : graded[a] = "sufficient"
         /\ s = "partial" => \E a \in required : graded[a] \in Supported
         /\ s = "in_scope_insufficient" => \A a \in required : graded[a] \notin Supported
<1>1. PICK st : st = {graded[a] : a \in DOMAIN graded}
  OBVIOUS
<1>3. DOMAIN graded = required
  OBVIOUS
<1>4. s = CASE retryCount < MaxRetries /\ (lacking # {} \/ (st # {"sufficient"} /\ "retry" \in st)) -> "retry"
            [] st = {"sufficient"} /\ ~(lacking # {}) -> "sufficient"
            [] OTHER -> IF st \cap Supported # {} THEN "partial" ELSE "in_scope_insufficient"
  BY <1>1, Zenon DEF Overall
<1>5. "retry" \in st => \E a \in required : graded[a] = "retry"
  BY <1>1, <1>3
<1>6. st = {"sufficient"} => \A a \in required : graded[a] = "sufficient"
  BY <1>1, <1>3
<1>7. st \cap Supported # {} => \E a \in required : graded[a] \in Supported
  BY <1>1, <1>3
<1>8. st \cap Supported = {} => \A a \in required : graded[a] \notin Supported
  BY <1>1, <1>3
<1>. QED
  BY <1>4, <1>5, <1>6, <1>7, <1>8

\* An aspect is supported by evidence only.
LEMMA SupportNeedsEvidence ==
  ASSUME WorkflowInv, pc = "grade", NEW a \in required, NEW g \in Grades(a), g \in Supported
  PROVE  reranked # {}
<1>1. Weak \notin Supported
  BY DEF Weak, Supported
<1>2. Evidence(a) # {}
  BY <1>1 DEF Grades
<1>3. PICK own : own = DocsOf(a) \cup DocsOf(Relationship)
  OBVIOUS
<1>4. Evidence(a) = IF own = {} /\ required = {a} THEN reranked ELSE own
  BY <1>3, Zenon DEF Evidence
<1>5. CASE own = {}
  BY <1>2, <1>4, <1>5
<1>6. CASE own # {}
  BY <1>3, <1>6, Graded
<1>. QED
  BY <1>5, <1>6

LEMMA GradeKeeps ==
  ASSUME WorkflowInv, Grade
  PROVE  WorkflowInv'
<1>1. /\ pc = "grade"
      /\ UNCHANGED <<planVars, retryCount, docVars, answerVars, diagram, history>>
  BY DEF Grade
<1>2. PICK graded \in [required -> Statuses] :
        /\ \A a \in required : graded[a] \in Grades(a)
        /\ coverage' = graded
        /\ status' = Overall(graded)
        /\ missing' = {a \in required : graded[a] \notin Supported} \cup MissingManuals(graded)
        /\ Goto(RouteAfterGrade(Overall(graded)))
  BY DEF Grade
<1>3. PICK s : s = Overall(graded)
  OBVIOUS
<1>4. PICK lacking : lacking = MissingManuals(graded)
  OBVIOUS
<1>5. OwnEvidence /\ Counting /\ required # {} /\ pc # "idle" /\ retryCount \in {0, 1}
  BY <1>1, Gathered DEF Gathering
<1>6. /\ s \in {"retry", "sufficient", "partial", "in_scope_insufficient"}
      /\ s = "retry" => /\ retryCount < MaxRetries
                        /\ lacking # {} \/ \E a \in required : graded[a] = "retry"
      /\ s = "sufficient" => lacking = {} /\ \A a \in required : graded[a] = "sufficient"
      /\ s = "partial" => \E a \in required : graded[a] \in Supported
      /\ s = "in_scope_insufficient" => \A a \in required : graded[a] \notin Supported
  BY <1>3, <1>4, <1>5, OverallGrade
<1>7. /\ RouteAfterGrade(s) \in {"generate", "broaden", "fallback"}
      /\ RouteAfterGrade(s) = "generate" => s \in Supported
      /\ RouteAfterGrade(s) = "broaden" => s = "retry" /\ retryCount = 0
      /\ RouteAfterGrade(s) = "fallback" => s \notin Supported /\ ~(s = "retry" /\ retryCount = 0)
  BY DEF RouteAfterGrade, Supported
<1>8. /\ pc' = RouteAfterGrade(s) /\ turn' = turn /\ turn' # 0 /\ TurnTypes' /\ AfterTurn'
  <2>1. Goto(RouteAfterGrade(s)) /\ RouteAfterGrade(s) \in Nodes
    BY <1>2, <1>3, <1>7 DEF Nodes
  <2>. QED
    BY <1>5, <2>1, Going
<1>9. UNCHANGED <<required, requiredManuals, docs, reranked, sources>>
  BY <1>1 DEF planVars, docVars, answerVars
<1>10. lacking \subseteq requiredManuals
  BY <1>4 DEF MissingManuals
<1>11. GradeTypes'
  <2>1. s \in Statuses
    BY <1>6 DEF Statuses
  <2>2. missing' \subseteq Aspects \cup Manuals
    BY <1>2, <1>4, <1>10, InvNow DEF PlanTypes
  <2>3. DOMAIN coverage' \subseteq Aspects /\ \A a \in DOMAIN coverage' : coverage'[a] \in Statuses
    BY <1>2, InvNow DEF PlanTypes
  <2>. QED
    BY <1>1, <1>2, <1>3, <2>1, <2>2, <2>3, InvNow DEF GradeTypes, Statuses
<1>12. OwnEvidence'
  BY <1>5, <1>8, <1>9 DEF OwnEvidence
<1>13. Counting'
  BY <1>1, <1>5, <1>6, <1>7, <1>8, WorkflowAssumption DEF Counting, history
<1>14. ASSUME pc' = "broaden" PROVE Targeted'
  <2>1. s = "retry"
    BY <1>7, <1>8, <1>14
  <2>2. missing' # {}
    <3>1. \A a \in required : graded[a] = "retry" => a \in missing'
      BY <1>2 DEF Supported
    <3>2. lacking \subseteq missing'
      BY <1>2, <1>4
    <3>. QED
      BY <1>6, <2>1, <3>1, <3>2
  <2>3. ASSUME NEW a \in required, graded[a] \in Supported PROVE a \notin missing'
    <3>1. a \notin lacking
      BY <1>10, InvNow, WorkflowAssumption DEF PlanTypes
    <3>. QED
      BY <1>2, <1>4, <2>3, <3>1
  <2>. QED
    BY <1>2, <1>9, <2>2, <2>3 DEF Targeted
<1>15. ASSUME pc' = "generate" PROVE Supports'
  <2>1. s \in {"sufficient", "partial"}
    BY <1>7, <1>8, <1>15 DEF Supported
  <2>2. PICK a \in required : graded[a] \in Supported
    BY <1>5, <1>6, <2>1 DEF Supported
  <2>3. reranked # {}
    BY <1>1, <1>2, <2>2, SupportNeedsEvidence
  <2>4. s = "sufficient" => requiredManuals \subseteq {d.manual : d \in UNION {docs[b] : b \in required}}
    <3>1. SUFFICES ASSUME s = "sufficient", NEW m \in requiredManuals
                   PROVE  m \in {d.manual : d \in UNION {docs[b] : b \in required}}
      OBVIOUS
    <3>2. m \in {d.manual : d \in UNION {DocsOf(b) : b \in {c \in DOMAIN graded : graded[c] \in Supported}}}
      BY <1>4, <1>6, <3>1 DEF MissingManuals
    <3>3. PICK b \in required : \E d \in DocsOf(b) : m = d.manual
      BY <3>2
    <3>4. DocsOf(b) = docs[b]
      BY <3>3 DEF DocsOf
    <3>. QED
      BY <3>3, <3>4
  <2>5. status' = s /\ s \in Supported
    BY <1>2, <1>3, <2>1 DEF Supported
  <2>6. coverage' = graded
    BY <1>2
  <2>. QED
    BY <1>6, <1>9, <2>2, <2>3, <2>4, <2>5, <2>6 DEF Supports
<1>16. ASSUME pc' = "fallback" PROVE Refuses'
  <2>1. s \notin Supported /\ ~(s = "retry" /\ retryCount = 0)
    BY <1>7, <1>8, <1>16
  <2>2. ASSUME MaxRetries <= 1 PROVE \A a \in required : graded[a] \notin Supported
    <3>1. s # "retry"
      BY <1>5, <1>6, <2>1, <2>2, WorkflowAssumption
    <3>. QED
      BY <1>6, <2>1, <3>1 DEF Supported
  <2>. QED
    BY <1>2, <1>3, <1>9, <2>1, <2>2 DEF Refuses
<1>17. BeforeNode'
  <2>1. UNCHANGED <<planVars, answerVars, diagram, failed>>
    BY <1>1 DEF history
  <2>2. /\ pc \in Gathering /\ pc' \in Planned \ Answering
        /\ pc' \notin Keeping /\ pc' # "grade"
    BY <1>1, <1>7, <1>8 DEF Gathering, Planned, Answering, Nodes, Keeping
  <2>. QED
    BY <1>8, <1>12, <1>13, <1>14, <1>15, <1>16, <2>1, <2>2, Onward
<1>. QED
  BY <1>1, <1>8, <1>11, <1>17, Untouched, InvNext

LEMMA BroadenKeeps ==
  ASSUME WorkflowInv, Broaden
  PROVE  WorkflowInv'
<1>1. PICK weak : weak = {a \in DOMAIN coverage : coverage[a] = "retry"}
  OBVIOUS
<1>2. /\ pc = "broaden" /\ Goto("retrieve")
      /\ UNCHANGED <<planVars, coverage, docVars, answerVars, diagram, passes, queried, failed>>
  BY DEF Broaden
<1>3. OwnEvidence /\ Counting
  BY <1>2, Gathered DEF Gathering
<1>4. passes = 1 /\ retryCount = 0 /\ broadened = 0 /\ 0 < MaxRetries
  BY <1>2, <1>3 DEF Counting
<1>5. /\ missing' = (IF weak # {} THEN weak ELSE missing)
      /\ retryCount' = 1 /\ broadened' = 1 /\ status' = status
  <2>1. IF retryCount < MaxRetries
          THEN /\ missing' = IF weak # {} THEN weak ELSE missing
               /\ retryCount' = retryCount + 1
               /\ broadened' = Counted(broadened)
               /\ UNCHANGED status
          ELSE /\ status' = "in_scope_insufficient"
               /\ UNCHANGED <<missing, retryCount, broadened>>
    BY <1>1, Zenon DEF Broaden
  <2>2. retryCount < MaxRetries /\ retryCount + 1 = 1 /\ Counted(broadened) = 1
    BY <1>4 DEF Counted
  <2>. QED
    BY <2>1, <2>2
<1>6. pc' = "retrieve" /\ turn' = turn /\ turn' # 0 /\ TurnTypes' /\ AfterTurn'
  BY <1>2, Going DEF Nodes
<1>7. UNCHANGED <<required, docs, reranked, sources>>
  BY <1>2 DEF planVars, docVars, answerVars
<1>8. GradeTypes'
  <2>1. missing' \subseteq Aspects \cup Manuals
    BY <1>1, <1>5, InvNow DEF GradeTypes
  <2>. QED
    BY <1>2, <1>5, <2>1, InvNow DEF GradeTypes, Statuses
<1>9. HistoryTypes'
  BY <1>2, <1>5, InvNow DEF HistoryTypes
<1>10. OwnEvidence'
  BY <1>3, <1>6, <1>7 DEF OwnEvidence
<1>11. Counting'
  BY <1>2, <1>4, <1>5, <1>6 DEF Counting
<1>12. Targeted'
  <2>1. Targeted
    BY <1>2, InvNow DEF BeforeNode
  <2>2. \A a \in weak : coverage[a] \notin Supported
    BY <1>1 DEF Supported
  <2>. QED
    BY <1>2, <1>5, <1>7, <2>1, <2>2 DEF Targeted
<1>13. BeforeNode'
  <2>1. UNCHANGED <<planVars, answerVars, diagram, failed>>
    BY <1>2
  <2>2. pc \in Gathering /\ pc' \in Planned \ Answering
    BY <1>2, <1>6 DEF Gathering, Planned, Answering, Nodes
  <2>. QED
    BY <1>6, <1>10, <1>11, <1>12, <2>1, <2>2, Onward
<1>. QED
  BY <1>2, <1>6, <1>8, <1>9, <1>13, Untouched, InvNext
-----------------------------------------------------------------------------
(* The nodes that answer *)

\* What they find.
LEMMA AtAnswer ==
  ASSUME WorkflowInv, pc \in {"generate", "verify", "diagram", "fallback"}
  PROVE  /\ pc # "idle" /\ turn # 0 /\ turn \in 0 .. MaxTurns
         /\ basicChat = FALSE /\ required # {} /\ diagram = 0 /\ OwnEvidence
         /\ retryCount \in {0, 1} /\ broadened = retryCount
         /\ pc # "fallback" => Supports
         /\ reranked \subseteq Document
BY InvNow DEF BeforeNode, Planned, Answering, Nodes, Counting, TurnTypes, DocTypes

LEMMA Replies ==
  ASSUME WorkflowInv, NEW cites \in SUBSET Document,
         NEW kind \in {"draft", "verified", "unavailable", "fallback"}
  PROVE  /\ Reply(kind, cites) \in Answer
         /\ Reply(kind, cites).turn = turn /\ Reply(kind, cites).kind = kind
<1>1. turn \in 0 .. MaxTurns
  BY InvNow DEF TurnTypes
<1>. QED
  BY <1>1 DEF Reply, Answer

\* What the grade was based on does not change any more.
LEMMA Settling ==
  ASSUME UNCHANGED <<planVars, gradeVars, docVars>>
  PROVE  (Supports => Supports') /\ (Refuses => Refuses')
BY DEF planVars, gradeVars, docVars, Supports, Refuses

LEMMA OnwardAnswering ==
  ASSUME WorkflowInv, pc \in {"generate", "verify"}, pc' \in Answering, turn' = turn,
         UNCHANGED <<planVars, gradeVars, retryCount, docVars, broadened, diagram>>,
         sources' \subseteq reranked, answer'.turn = turn,
         pc' = "verify" => /\ answer'.kind \in {"draft", "unavailable"}
                           /\ answer'.kind = "unavailable" => llmErrorRole' = "answer" /\ failed' = {"answer"}
                           /\ answer'.kind = "draft" => llmErrorRole' = "" /\ failed' = {},
         pc' = "diagram" => /\ answer'.kind \in {"draft", "verified"} /\ Fits'
                            /\ sources' # {} /\ sources' \subseteq reranked /\ sources' = answer'.cites
  PROVE  BeforeNode'
<1>1. basicChat' = FALSE /\ required' # {}
  BY AtAnswer DEF planVars
<1>2. diagram' = 0 /\ turn' # 0
  BY AtAnswer
<1>3. UNCHANGED <<docs, reranked>>
  BY DEF docVars
<1>4. OwnEvidence'
  BY AtAnswer, <1>3 DEF OwnEvidence
<1>5. Counting'
  BY AtAnswer DEF Counting, Answering
<1>6. Supports'
  BY AtAnswer, Settling
<1>. QED
  BY <1>1, <1>2, <1>3, <1>4, <1>5, <1>6 DEF BeforeNode, Planned, Answering, Nodes, Keeping

LEMMA GenerateKeeps ==
  ASSUME WorkflowInv, Generate
  PROVE  WorkflowInv'
<1>1. /\ pc = "generate" /\ Goto("verify")
      /\ UNCHANGED <<planVars, gradeVars, retryCount, missing, docVars, passes, broadened, queried>>
  BY DEF Generate
<1>2. sources = {} /\ grounded = FALSE /\ llmErrorRole = "" /\ failed = {}
  BY <1>1, InvNow DEF BeforeNode, Planned, Answering, Nodes
<1>3. Supports /\ diagram = 0 /\ reranked \subseteq Document
  BY <1>1, AtAnswer
<1>4. \/ \E cites \in SUBSET reranked :
           /\ answer' = Reply("draft", cites) /\ sources' \subseteq cites
           /\ UNCHANGED <<grounded, llmErrorRole, diagram, failed>>
      \/ /\ answer' = Reply("unavailable", {}) /\ sources' = {} /\ grounded' = FALSE
         /\ llmErrorRole' = "answer" /\ failed' = {"answer"} /\ UNCHANGED diagram
  BY <1>2, <1>3 DEF Generate, Supports, CitedSources
<1>5. pc' = "verify" /\ turn' = turn /\ TurnTypes' /\ AfterTurn'
  BY <1>1, Going DEF Nodes
<1>6. ASSUME NEW cites \in SUBSET reranked,
             answer' = Reply("draft", cites), sources' \subseteq cites,
             UNCHANGED <<grounded, llmErrorRole, diagram, failed>>
      PROVE  /\ (answer \in Answer)' /\ answer'.turn = turn /\ answer'.kind = "draft"
             /\ sources' \subseteq reranked /\ grounded' = FALSE /\ llmErrorRole' = "" /\ diagram' = 0
             /\ failed' = {}
  <2>1. cites \in SUBSET Document
    BY <1>3
  <2>2. /\ Reply("draft", cites) \in Answer
        /\ Reply("draft", cites).turn = turn /\ Reply("draft", cites).kind = "draft"
    BY <2>1, Replies
  <2>. QED
    BY <1>2, <1>3, <1>6, <2>2 DEF Answer, Document
<1>7. ASSUME answer' = Reply("unavailable", {}), sources' = {}, grounded' = FALSE,
             llmErrorRole' = "answer", failed' = {"answer"}, UNCHANGED diagram
      PROVE  /\ (answer \in Answer)' /\ answer'.turn = turn /\ answer'.kind = "unavailable"
             /\ sources' \subseteq reranked /\ diagram' = 0
  <2>1. /\ Reply("unavailable", {}) \in Answer
        /\ Reply("unavailable", {}).turn = turn /\ Reply("unavailable", {}).kind = "unavailable"
    BY Replies
  <2>. QED
    BY <1>3, <1>7, <2>1 DEF Answer, Document
<1>8. AnswerTypes' /\ HistoryTypes'
  <2>1. (answer \in Answer)' /\ sources' \subseteq Document /\ diagram' = diagram
    BY <1>3, <1>4, <1>6, <1>7
  <2>2. grounded' \in BOOLEAN /\ llmErrorRole' \in {"", "answer"} /\ failed' \subseteq {"answer"} \cup Unverified
    BY <1>2, <1>4
  <2>3. Document' = Document
    BY DEF Document
  <2>4. AnswerTypes'
    BY <2>1, <2>2, <2>3, InvNow DEF AnswerTypes
  <2>. QED
    BY <1>1, <2>2, <2>4, InvNow DEF HistoryTypes
<1>9. BeforeNode'
  <2>1. UNCHANGED <<planVars, gradeVars, retryCount, docVars, broadened, diagram>>
    BY <1>1, <1>4
  <2>2. answer'.turn = turn /\ sources' \subseteq reranked
    BY <1>4, <1>6, <1>7
  <2>3. /\ answer'.kind \in {"draft", "unavailable"}
        /\ answer'.kind = "unavailable" => llmErrorRole' = "answer" /\ failed' = {"answer"}
        /\ answer'.kind = "draft" => llmErrorRole' = "" /\ failed' = {}
    BY <1>4, <1>6, <1>7
  <2>. QED
    BY <1>1, <1>5, <2>1, <2>2, <2>3, OnwardAnswering DEF Answering
<1>. QED
  BY <1>1, <1>5, <1>8, <1>9, Untouched, InvNext

LEMMA FallbackKeeps ==
  ASSUME WorkflowInv, Fallback
  PROVE  WorkflowInv'
<1>1. /\ pc = "fallback" /\ Complete
      /\ answer' = Reply("fallback", {}) /\ sources' = {} /\ grounded' = FALSE /\ diagram' = 0
      /\ UNCHANGED <<planVars, gradeVars, retryCount, missing, docVars, llmErrorRole,
                     passes, broadened, queried, failed>>
  BY DEF Fallback, FallBack
<1>2. /\ Reply("fallback", {}) \in Answer
      /\ Reply("fallback", {}).turn = turn /\ Reply("fallback", {}).kind = "fallback"
  BY Replies
<1>3. Refuses /\ failed = {}
  BY <1>1, InvNow DEF BeforeNode, Planned, Answering, Nodes
<1>4. OwnEvidence'
  <2>1. UNCHANGED <<docs, reranked, turn>>
    BY <1>1, Completing DEF docVars
  <2>. QED
    BY <1>1, <2>1, AtAnswer DEF OwnEvidence
<1>5. AnswerTypes'
  <2>1. (answer \in Answer)'
    BY <1>1, <1>2 DEF Answer, Document
  <2>2. 0 \in 0 .. MaxTurns
    BY WorkflowAssumption
  <2>. QED
    BY <1>1, <2>1, <2>2, InvNow DEF AnswerTypes
<1>6. HistoryTypes'
  BY <1>1, InvNow DEF HistoryTypes
<1>7. AfterTurn'
  <2>1. Refuses'
    BY <1>1, <1>3, Settling
  <2>2. pc' = "idle" /\ turn' = turn /\ answer'.turn = turn /\ answer'.kind = "fallback"
    BY <1>1, <1>2, Completing
  <2>3. failed' = {} /\ grounded' = FALSE /\ diagram' = 0
    BY <1>1, <1>3
  <2>4. Fits'
    BY <2>2, <2>3 DEF Fits
  <2>. QED
    BY <1>4, <2>1, <2>2, <2>3, <2>4 DEF AfterTurn
<1>. QED
  BY <1>1, <1>5, <1>6, <1>7, Completing, Untouched, InvNext

LEMMA VerifyUnavailableKeeps ==
  ASSUME WorkflowInv, VerifyUnavailable
  PROVE  WorkflowInv'
<1>1. /\ pc = "verify" /\ llmErrorRole = "answer" /\ Complete
      /\ sources' = {} /\ grounded' = FALSE
      /\ UNCHANGED <<planVars, gradeVars, retryCount, missing, docVars, answer,
                     llmErrorRole, diagram, passes, broadened, queried, failed>>
  BY DEF VerifyUnavailable, RouteAfterVerify
<1>2. answer.turn = turn /\ answer.kind = "unavailable" /\ failed = {"answer"}
  BY <1>1, InvNow DEF BeforeNode, Answering
<1>3. Supports /\ diagram = 0 /\ OwnEvidence
  BY <1>1, AtAnswer
<1>4. pc' = "idle" /\ turn' = turn
  BY <1>1, Completing
<1>5. OwnEvidence'
  BY <1>1, <1>3, <1>4 DEF OwnEvidence, docVars
<1>6. AnswerTypes'
  BY <1>1, InvNow DEF AnswerTypes, Answer, Document
<1>7. HistoryTypes'
  BY <1>1, InvNow DEF HistoryTypes
<1>8. AfterTurn'
  <2>1. Supports'
    BY <1>1, <1>3, Settling
  <2>2. answer' = answer /\ failed' = {"answer"} /\ grounded' = FALSE /\ diagram' = 0
    BY <1>1, <1>2, <1>3
  <2>3. Fits'
    BY <1>2, <2>2 DEF Fits
  <2>. QED
    BY <1>2, <1>4, <1>5, <2>1, <2>2, <2>3 DEF AfterTurn
<1>. QED
  BY <1>1, <1>6, <1>7, <1>8, Completing, Untouched, InvNext

LEMMA VerifyKeeps ==
  ASSUME WorkflowInv, Verify
  PROVE  WorkflowInv'
<1>1. /\ pc = "verify" /\ llmErrorRole = "" /\ RouteAfterVerify(grounded')
      /\ UNCHANGED <<planVars, gradeVars, retryCount, missing, docVars, llmErrorRole,
                     diagram, passes, broadened, queried>>
  BY DEF Verify
<1>2. PICK cites \in SUBSET reranked :
        /\ \/ answer' = [answer EXCEPT !.kind = "verified", !.cites = cites] /\ failed' = failed
           \/ \E cause \in Unverified :
                answer' = [answer EXCEPT !.cites = cites] /\ failed' = failed \cup {cause}
        /\ sources' \subseteq cites
        /\ grounded' \in {FALSE, cites # {} /\ sources' = cites}
  BY DEF Verify, CitedSources
<1>3. /\ answer.turn = turn /\ answer.kind = "draft" /\ failed = {} /\ answer \in Answer
      /\ Supports /\ diagram = 0 /\ OwnEvidence /\ reranked \subseteq Document
  <2>1. answer.turn = turn /\ answer.kind = "draft" /\ failed = {}
    BY <1>1, InvNow DEF BeforeNode, Answering
  <2>. QED
    BY <1>1, <2>1, AtAnswer, InvNow DEF AnswerTypes
<1>4. cites \subseteq Document
  BY <1>3
<1>5. /\ answer' \in Answer /\ answer'.turn = turn /\ answer'.cites = cites
      /\ answer'.kind \in {"draft", "verified"}
      /\ answer'.kind = "draft" => failed' \cap Unverified # {}
      /\ failed' \subseteq Unverified
  <2>1. CASE answer' = [answer EXCEPT !.kind = "verified", !.cites = cites] /\ failed' = failed
    BY <1>3, <1>4, <2>1 DEF Answer
  <2>2. CASE \E cause \in Unverified :
               answer' = [answer EXCEPT !.cites = cites] /\ failed' = failed \cup {cause}
    <3>1. PICK cause \in Unverified :
            answer' = [answer EXCEPT !.cites = cites] /\ failed' = failed \cup {cause}
      BY <2>2
    <3>. QED
      BY <1>3, <1>4, <3>1 DEF Answer
  <2>. QED
    BY <1>2, <2>1, <2>2
<1>6. Fits'
  <2>1. "answer" \notin failed' /\ answer'.kind # "unavailable"
    BY <1>5 DEF Unverified
  <2>. QED
    BY <1>5, <2>1 DEF Fits, Unverified
<1>7. /\ grounded' \in BOOLEAN /\ sources' \subseteq reranked
      /\ grounded' = TRUE => sources' # {} /\ sources' = cites
  BY <1>2
<1>8. UNCHANGED <<docs, reranked>>
  BY <1>1 DEF docVars
<1>9. AnswerTypes'
  <2>1. sources' \subseteq Document
    BY <1>3, <1>7
  <2>2. Document' = Document /\ Answer' = Answer
    BY DEF Document, Answer
  <2>. QED
    BY <1>1, <1>5, <1>7, <2>1, <2>2, InvNow DEF AnswerTypes
<1>10. HistoryTypes'
  BY <1>1, <1>5, InvNow DEF HistoryTypes, Unverified
<1>11. CASE grounded' = TRUE /\ Goto("diagram")
  <2>1. pc' = "diagram" /\ turn' = turn /\ TurnTypes' /\ AfterTurn'
    BY <1>1, <1>11, Going DEF Nodes
  <2>2. BeforeNode'
    <3>1. UNCHANGED <<planVars, gradeVars, retryCount, docVars, broadened, diagram>>
      BY <1>1
    <3>2. sources' # {} /\ sources' = answer'.cites
      BY <1>5, <1>7, <1>11
    <3>. QED
      BY <1>1, <1>5, <1>6, <1>7, <2>1, <3>1, <3>2, OnwardAnswering DEF Answering
  <2>. QED
    BY <1>1, <1>9, <1>10, <2>1, <2>2, Untouched, InvNext
<1>12. CASE Complete
  <2>1. pc' = "idle" /\ turn' = turn
    BY <1>12, Completing
  <2>2. OwnEvidence'
    BY <1>3, <1>7, <1>8, <2>1 DEF OwnEvidence
  <2>3. AfterTurn'
    <3>1. Supports' /\ diagram' = 0
      BY <1>1, <1>3, Settling
    <3>. QED
      BY <1>5, <1>6, <1>7, <1>8, <2>1, <2>2, <3>1 DEF AfterTurn
  <2>. QED
    BY <1>1, <1>9, <1>10, <1>12, <2>3, Completing, Untouched, InvNext
<1>. QED
  BY <1>1, <1>7, <1>11, <1>12 DEF RouteAfterVerify

LEMMA DiagramKeeps ==
  ASSUME WorkflowInv, Diagram
  PROVE  WorkflowInv'
<1>1. /\ pc = "diagram" /\ Complete /\ diagram' \in {0, turn}
      /\ UNCHANGED <<planVars, gradeVars, retryCount, missing, docVars, answerVars, history>>
  BY DEF Diagram, ValidatedDots
<1>2. /\ answer.turn = turn /\ answer.kind \in {"draft", "verified"} /\ Fits
      /\ sources # {} /\ sources \subseteq reranked /\ sources = answer.cites
  BY <1>1, InvNow DEF BeforeNode, Answering
<1>3. Supports /\ OwnEvidence /\ turn \in 0 .. MaxTurns
  BY <1>1, AtAnswer
<1>4. pc' = "idle" /\ turn' = turn
  BY <1>1, Completing
<1>5. UNCHANGED <<answer, sources, grounded, llmErrorRole, docs, reranked, failed>>
  BY <1>1 DEF answerVars, docVars, history
<1>6. OwnEvidence'
  BY <1>3, <1>4, <1>5 DEF OwnEvidence
<1>7. AnswerTypes'
  <2>1. diagram' \in 0 .. MaxTurns
    BY <1>1, <1>3, WorkflowAssumption
  <2>. QED
    BY <1>5, <2>1, InvNow DEF AnswerTypes, Answer, Document
<1>8. AfterTurn'
  <2>1. Supports'
    BY <1>1, <1>3, Settling
  <2>2. Fits'
    BY <1>2, <1>5 DEF Fits
  <2>. QED
    BY <1>1, <1>2, <1>4, <1>5, <1>6, <2>1, <2>2 DEF AfterTurn
<1>. QED
  BY <1>1, <1>7, <1>8, Completing, Untouched, InvNext
-----------------------------------------------------------------------------
LEMMA WorkflowStep ==
  ASSUME WorkflowInv, [Next]_vars
  PROVE  WorkflowInv'
<1>1. CASE UNCHANGED vars
  <2>1. /\ UNCHANGED <<pc, turn, outcome, enabled, planVars, gradeVars, retryCount, missing, docVars>>
        /\ UNCHANGED <<answerVars, diagram, history>>
    BY <1>1 DEF vars, turnVars
  <2>2. TurnTypes'
    BY <2>1, InvNow DEF TurnTypes
  <2>0. /\ UNCHANGED <<pc, turn, outcome, basicChat, required, requiredManuals>>
        /\ UNCHANGED <<retryCount, missing, coverage, status, docs, reranked>>
        /\ UNCHANGED <<answer, sources, grounded, llmErrorRole, diagram>>
        /\ UNCHANGED <<passes, broadened, failed>>
    BY <2>1 DEF planVars, gradeVars, docVars, answerVars, history
  <2>5. /\ OwnEvidence => OwnEvidence'
        /\ Counting => Counting'
        /\ Targeted => Targeted'
        /\ Supports => Supports'
        /\ Refuses => Refuses'
        /\ Fits => Fits'
    BY <2>0 DEF OwnEvidence, Counting, Targeted, Supports, Refuses, Fits
  <2>3. BeforeNode'
    BY <2>0, <2>5, InvNow DEF BeforeNode
  <2>4. AfterTurn'
    BY <2>0, <2>5, InvNow DEF AfterTurn
  <2>. QED
    BY <2>1, <2>2, <2>3, <2>4, Untouched, InvNext
<1>2. CASE Node
  BY <1>2, UnderstandBasicKeeps, UnderstandPlanKeeps, RetrieveKeeps, ExpandKeeps, RerankKeeps,
     GradeOutOfScopeKeeps, GradeKeeps, BroadenKeeps, GenerateKeeps, FallbackKeeps,
     VerifyUnavailableKeeps, VerifyKeeps, DiagramKeeps
     DEF Node
<1>. QED
  BY <1>1, <1>2, AskKeeps, RaiseKeeps DEF Next
-----------------------------------------------------------------------------
(* The theorems *)

LEMMA WorkflowInvHolds == Spec => []WorkflowInv
BY WorkflowInit, WorkflowStep, PTL DEF Spec

\* Every field of the checkpointed state keeps its type, and no turn broadens its query
\* more than once or retrieves more than twice, whatever the limit of retries.
THEOREM TypeCorrect == Spec => []TypeOK
<1>1. WorkflowInv => TypeOK
  BY DEF WorkflowInv
<1>. QED
  BY <1>1, WorkflowInvHolds, PTL

\* Nothing in the complete event stems from an earlier turn on the same checkpoint,
\* wherever that turn broke off.
THEOREM OwnTurn == Spec => []OfThisTurn
<1>1. WorkflowInv => OfThisTurn
  <2>. SUFFICES ASSUME WorkflowInv PROVE OfThisTurn
    OBVIOUS
  <2>1. outcome = "complete" => answer.turn = turn
    BY InvNow DEF AfterTurn
  <2>2. ASSUME Answered
        PROVE  diagram \in {0, turn} /\ \A d \in sources \cup reranked : d.turn = turn
    <3>1. outcome = "complete" /\ basicChat = FALSE
      BY <2>2, InvNow DEF Answered, PlanTypes
    <3>. QED
      BY <3>1, InvNow DEF AfterTurn, OwnEvidence
  <2>. QED
    BY <2>1, <2>2 DEF OfThisTurn
<1>. QED
  BY <1>1, WorkflowInvHolds, PTL

\* The user reads a draft as it was written only if the verifier role failed on it in
\* this turn or returned a text that cites nothing, and is told that the model is
\* unavailable exactly when the answer role failed, whatever an earlier turn on the checkpoint failed of.
THEOREM AnswersFit == Spec => []AnswerFitsFailures
<1>1. WorkflowInv => AnswerFitsFailures
  <2>. SUFFICES ASSUME WorkflowInv, Answered PROVE Fits
    BY DEF AnswerFitsFailures, Fits
  <2>1. outcome = "complete" /\ basicChat = FALSE
    BY InvNow DEF Answered, PlanTypes
  <2>. QED
    BY <2>1, InvNow DEF AfterTurn
<1>. QED
  BY <1>1, WorkflowInvHolds, PTL

\* A grounded answer cites reranked evidence, and every document it cites is among the
\* sources it is shown with; some required aspect was graded supported.
THEOREM GroundedAnswers == Spec => []GroundedOnGradedEvidence
<1>1. WorkflowInv => GroundedOnGradedEvidence
  <2>. SUFFICES ASSUME WorkflowInv, Answered, grounded
                PROVE  /\ sources # {} /\ sources \subseteq reranked /\ sources = answer.cites
                       /\ \E a \in required : coverage[a] \in Supported
    BY DEF GroundedOnGradedEvidence
  <2>1. outcome = "complete" /\ basicChat = FALSE
    BY InvNow DEF Answered, PlanTypes
  <2>2. sources # {} /\ sources \subseteq reranked /\ sources = answer.cites /\ Supports
    BY <2>1, InvNow DEF AfterTurn
  <2>. QED
    BY <2>2 DEF Supports
<1>. QED
  BY <1>1, WorkflowInvHolds, PTL

\* The status reported with an answer is what its evidence was graded, and the user is
\* sent away only when no aspect has supporting evidence: provided that, as configured,
\* there is at most one retry.  With more, grade_evidence keeps asking for a retry that
\* route_after_grade no longer takes, and partial evidence is thrown away.
THEOREM StatusTrue ==
  ASSUME MaxRetries <= 1
  PROVE  Spec => []StatusFitsEvidence
<1>1. WorkflowInv => StatusFitsEvidence
  <2>. SUFFICES ASSUME WorkflowInv, Answered
                PROVE  /\ status = "sufficient" =>
                            /\ \A a \in required : coverage[a] = "sufficient"
                            /\ requiredManuals \subseteq {d.manual : d \in UNION {docs[a] : a \in required}}
                       /\ answer.kind = "fallback" => \A a \in required : coverage[a] \notin Supported
    BY DEF StatusFitsEvidence
  <2>1. outcome = "complete" /\ basicChat = FALSE
    BY InvNow DEF Answered, PlanTypes
  <2>2. CASE answer.kind # "fallback"
    BY <2>1, <2>2, InvNow DEF AfterTurn, Supports
  <2>3. CASE answer.kind = "fallback"
    BY <2>1, <2>3, InvNow DEF AfterTurn, Refuses, Supported
  <2>. QED
    BY <2>1, <2>2, <2>3, InvNow DEF AfterTurn
<1>. QED
  BY <1>1, WorkflowInvHolds, PTL

\* From the broadening to the second grade, no node loses evidence of an aspect the first
\* grade supported, its own or that of the relationship: neither the retrieval that merges
\* what it keeps with what it finds, nor the ranking that cuts both again.
THEOREM SecondPassKeeps == Spec => SupportedEvidenceKept
<1>. DEFINE Survives ==
       \A a \in required :
         pc \in {"retrieve", "expand", "rerank"} /\ retryCount > 0 /\ coverage[a] \in Supported
         => DocsOf(a) \cup DocsOf(Relationship) \subseteq DocsOf(a)' \cup DocsOf(Relationship)'
<1>1. ASSUME WorkflowInv, [Next]_vars, NEW a \in required,
             pc \in {"retrieve", "expand", "rerank"}, retryCount > 0, coverage[a] \in Supported
      PROVE  DocsOf(a) \cup DocsOf(Relationship) \subseteq DocsOf(a)' \cup DocsOf(Relationship)'
  <2>1. Targeted /\ retryCount = 1
    <3>1. retryCount \in {0, 1} /\ pc \in Keeping
      BY <1>1, InvNow DEF BeforeNode, Planned, Answering, Nodes, Counting, Keeping
    <3>2. retryCount = 1
      BY <1>1, <3>1
    <3>. QED
      BY <1>1, <3>1, <3>2, InvNow DEF BeforeNode
  <2>2. Retrying /\ a \notin missing /\ Relationship \notin missing
    BY <1>1, <2>1, InvNow, WorkflowAssumption DEF Targeted, Retrying, GradeTypes
  <2>3. a \in Aspects /\ a # Relationship
    BY <1>1, InvNow, WorkflowAssumption DEF PlanTypes
  <2>4. \A b \in {a, Relationship} : b \in DOMAIN docs => b \in Kept
    BY <2>2 DEF Kept
  <2>5. ASSUME \A b \in {a, Relationship} :
                 b \in DOMAIN docs => b \in DOMAIN docs' /\ docs'[b] = docs[b]
        PROVE  DocsOf(a) \cup DocsOf(Relationship) \subseteq DocsOf(a)' \cup DocsOf(Relationship)'
    BY <2>5 DEF DocsOf
  <2>6. CASE UNCHANGED docs
    BY <2>5, <2>6
  <2>7. CASE Retrieve
    <3>1. \A b \in {a, Relationship} : b \in DOMAIN docs => b \notin ToQuery
      BY <2>2, <2>3, <2>4, InvNow, WorkflowAssumption DEF ToQuery, PlanTypes
    <3>2. \E found \in [ToQuery -> SUBSET Manuals] :
            docs' = [b \in Kept \cup ToQuery |->
                       IF b \in ToQuery THEN {[turn |-> turn, manual |-> m] : m \in found[b]} ELSE docs[b]]
      BY <2>7 DEF Retrieve
    <3>. QED
      BY <2>4, <2>5, <3>1, <3>2
  <2>8. CASE Rerank
    <3>1. \A b \in DOMAIN docs : b \in Kept => b \in DOMAIN docs' /\ docs'[b] = docs[b]
      BY <2>8 DEF Rerank
    <3>. QED
      BY <2>4, <2>5, <3>1
  <2>. QED
    BY <1>1, <2>6, <2>7, <2>8
       DEF Next, Node, vars, docVars, Ask, Raise, UnderstandBasic, UnderstandPlan, Plan, Expand,
           GradeOutOfScope, Grade, Broaden, Generate, Fallback, VerifyUnavailable, Verify, Diagram
<1>2. WorkflowInv /\ [Next]_vars => [Survives]_vars
  BY <1>1
<1>. QED
  BY <1>2, WorkflowInvHolds, PTL DEF Spec, SupportedEvidenceKept
-----------------------------------------------------------------------------
(* The end of a turn *)

\* How many nodes the turn may still run: those of the longest path through the
\* graph, with a second pass while the first one goes on.
FirstPass == pc \in {"retrieve", "expand", "rerank", "grade"} /\ retryCount = 0
Ahead == [idle |-> 0, fallback |-> 1, diagram |-> 1, verify |-> 2, generate |-> 3,
          grade |-> 4, rerank |-> 5, expand |-> 6, retrieve |-> 7, broaden |-> 8,
          understand |-> 13]
NodesLeft == Ahead[pc] + (IF FirstPass THEN 5 ELSE 0)

LEMMA NodesCounted ==
  ASSUME WorkflowInv
  PROVE  NodesLeft \in 0 .. 13
<1>1. pc \in Nodes \cup {"idle"}
  BY InvNow DEF TurnTypes
<1>2. CASE FirstPass
  BY <1>2 DEF NodesLeft, FirstPass, Ahead
<1>3. CASE ~FirstPass
  BY <1>1, <1>3 DEF NodesLeft, Nodes, Ahead
<1>. QED
  BY <1>2, <1>3

\* Where the edges of the graph lead.
LEMMA Edges ==
  ASSUME WorkflowInv, Node
  PROVE  \/ pc = "understand" /\ pc' \in {"idle", "retrieve"}
         \/ pc = "retrieve" /\ pc' = "expand" /\ retryCount' = retryCount
         \/ pc = "expand" /\ pc' = "rerank" /\ retryCount' = retryCount
         \/ pc = "rerank" /\ pc' = "grade" /\ retryCount' = retryCount
         \/ /\ pc = "grade" /\ pc' \in {"generate", "fallback", "broaden"}
            /\ pc' = "broaden" => retryCount = 0
         \/ pc = "broaden" /\ pc' = "retrieve" /\ retryCount' = 1
         \/ pc = "generate" /\ pc' = "verify"
         \/ pc = "verify" /\ pc' \in {"diagram", "idle"}
         \/ pc \in {"diagram", "fallback"} /\ pc' = "idle"
<1>1. CASE UnderstandBasic \/ UnderstandPlan
  BY <1>1 DEF UnderstandBasic, UnderstandPlan, Plan, Complete, Goto
<1>2. CASE Retrieve \/ Expand \/ Rerank
  BY <1>2 DEF Retrieve, Expand, Rerank, Goto
<1>3. CASE GradeOutOfScope
  BY <1>3 DEF GradeOutOfScope, Goto, RouteAfterGrade, Supported
<1>4. CASE Grade
  <2>1. PICK s : pc = "grade" /\ Goto(RouteAfterGrade(s))
    BY <1>4 DEF Grade
  <2>. QED
    BY <2>1 DEF Goto, RouteAfterGrade
<1>5. CASE Broaden
  <2>1. pc = "broaden" /\ pc' = "retrieve"
    BY <1>5 DEF Broaden, Goto
  <2>2. retryCount = 0 /\ retryCount < MaxRetries
    BY <2>1, InvNow DEF BeforeNode, Planned, Nodes, Counting
  <2>3. retryCount' = retryCount + 1
    BY <1>5, <2>2 DEF Broaden
  <2>. QED
    BY <2>1, <2>2, <2>3
<1>6. CASE Generate \/ Fallback \/ Diagram
  BY <1>6 DEF Generate, Fallback, Diagram, Goto, Complete
<1>7. CASE VerifyUnavailable \/ Verify
  BY <1>7 DEF VerifyUnavailable, Verify, RouteAfterVerify, Goto, Complete
<1>. QED
  BY <1>1, <1>2, <1>3, <1>4, <1>5, <1>6, <1>7 DEF Node

\* A turn runs at most thirteen nodes, whatever the models answer and the limit of
\* retries is: with each one there is less left of it.
THEOREM TurnBounded ==
  Spec => [](NodesLeft \in 0 .. 13) /\ [][Node => NodesLeft' < NodesLeft]_vars
<1>1. ASSUME WorkflowInv, Node PROVE NodesLeft' < NodesLeft
  <2>1. CASE pc \in {"diagram", "fallback", "verify", "generate", "understand"}
    BY <1>1, <2>1, Edges DEF NodesLeft, FirstPass, Ahead
  <2>2. CASE pc \in {"retrieve", "expand", "rerank"}
    BY <1>1, <2>2, Edges DEF NodesLeft, FirstPass, Ahead
  <2>3. CASE pc \in {"grade", "broaden"}
    BY <1>1, <2>3, Edges DEF NodesLeft, FirstPass, Ahead
  <2>. QED
    BY <1>1, <2>1, <2>2, <2>3, Edges
<1>2. WorkflowInv => NodesLeft \in 0 .. 13
  BY NodesCounted
<1>3. WorkflowInv /\ [Next]_vars => [Node => NodesLeft' < NodesLeft]_vars
  BY <1>1
<1>. QED
  BY <1>2, <1>3, WorkflowInvHolds, PTL DEF Spec
=============================================================================
