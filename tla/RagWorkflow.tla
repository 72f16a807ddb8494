----------------------------- MODULE RagWorkflow -----------------------------
(***************************************************************************)
(* The LangGraph workflow of src/graph.py and src/nodes.py on the          *)
(* checkpoint of one conversation, turn after turn.                        *)
(*                                                                         *)
(* A turn runs the nodes one after the other; each reads the checkpointed  *)
(* state and writes part of it.  Any node may raise, which ends the turn   *)
(* and leaves the state as the last node wrote it: the next turn starts on *)
(* it.  What the models and the indexes answer is nondeterministic.  A     *)
(* document is the turn that retrieved it and the manual it comes from.    *)
(***************************************************************************)
EXTENDS Naturals, FiniteSets

CONSTANTS
  Aspects,       \* aspects a question may require
  Relationship,  \* RELATIONSHIP_EVIDENCE_ASPECT
  Manuals,       \* manuals, and the "<manual> manual evidence" aspects
  MaxRetries,    \* settings.max_retries
  MaxTurns       \* bound: turns of the conversation

ASSUME WorkflowAssumption ==
  /\ Aspects # {} /\ Relationship \notin Aspects
  /\ Manuals \cap (Aspects \cup {Relationship}) = {}
  /\ {MaxRetries, MaxTurns} \subseteq Nat

VARIABLES
  pc, turn,                 \* the next node; the turn the client asked last
  outcome,                  \* how the last turn ended
  \* RAGState, as far as a later node or the complete event reads it
  basicChat, outOfScope, required, requiredManuals, relationshipMode,
  retryCount, missing, coverage, status,
  docs,                     \* aspect_documents: a function on aspects
  reranked,                 \* reranked_docs
  answer, sources, grounded, llmErrorRole,
  wanted, enabled,          \* diagram_requested or useful; diagram_enabled
  diagram,                  \* the turn diagram_dot was made in, or 0
  \* history of the turn
  passes, broadened, queried, failed

turnVars == <<turn, outcome, enabled>>
planVars == <<basicChat, outOfScope, required, requiredManuals, relationshipMode, wanted>>
gradeVars == <<coverage, status>>
docVars == <<docs, reranked>>
answerVars == <<answer, sources, grounded, llmErrorRole>>
history == <<passes, broadened, queried, failed>>
vars == <<pc, turnVars, planVars, gradeVars, retryCount, missing, docVars,
          answerVars, diagram, history>>

Nodes == {"understand", "retrieve", "expand", "rerank", "grade", "broaden",
          "generate", "verify", "diagram", "fallback"}
Statuses == {"none", "sufficient", "partial", "retry", "in_scope_insufficient",
             "out_of_scope"}
Supported == {"sufficient", "partial"}
\* Why a draft stays as it is: no answer of the verifier, or one without citations.
Unverified == {"verifier", "correction"}
Document == [turn : 1 .. MaxTurns, manual : Manuals]
Answer == [kind : {"none", "basic", "draft", "verified", "unavailable", "fallback"},
           turn : 0 .. MaxTurns, cites : SUBSET Document]

\* With the types, the workflow's bound: one broadening, two retrieval passes.
TypeOK ==
  /\ pc \in Nodes \cup {"idle"}
  /\ turn \in 0 .. MaxTurns
  /\ outcome \in {"none", "complete", "error"}
  /\ {basicChat, outOfScope, relationshipMode, wanted, enabled, grounded} \subseteq BOOLEAN
  /\ required \subseteq Aspects /\ requiredManuals \subseteq Manuals
  /\ retryCount \in Nat /\ missing \subseteq Aspects \cup Manuals
  /\ DOMAIN coverage \subseteq Aspects
  /\ status \in Statuses /\ \A a \in DOMAIN coverage : coverage[a] \in Statuses
  /\ DOMAIN docs \subseteq Aspects \cup {Relationship}
  /\ \A a \in DOMAIN docs : docs[a] \subseteq Document
  /\ reranked \subseteq Document /\ sources \subseteq Document
  /\ answer \in Answer
  /\ llmErrorRole \in {"", "answer"}
  /\ diagram \in 0 .. MaxTurns
  /\ passes \in 0 .. 2 /\ broadened \in 0 .. 1
  /\ queried \subseteq Aspects \cup {Relationship}
  /\ failed \subseteq {"answer"} \cup Unverified

\* The counters of the history stop one above what any property tells apart.
Counted(n) == IF n < 3 THEN n + 1 ELSE n

NoFunction == [a \in {} |-> {}]
NoAnswer == [kind |-> "none", turn |-> 0, cites |-> {}]
Reply(kind, cites) == [kind |-> kind, turn |-> turn, cites |-> cites]

Init ==
  /\ pc = "idle" /\ turn = 0 /\ outcome = "none" /\ enabled = TRUE
  /\ basicChat = FALSE /\ outOfScope = FALSE /\ required = {}
  /\ requiredManuals = {} /\ relationshipMode = FALSE /\ wanted = FALSE
  /\ retryCount = 0 /\ missing = {} /\ coverage = NoFunction /\ status = "none"
  /\ docs = NoFunction /\ reranked = {}
  /\ answer = NoAnswer /\ sources = {} /\ grounded = FALSE /\ llmErrorRole = ""
  /\ diagram = 0
  /\ passes = 0 /\ broadened = 0 /\ queried = {} /\ failed = {}
-----------------------------------------------------------------------------
(* The turn's start and end *)

\* stream_chat: the next question, retry_count = 0 and the client's switches.
Ask ==
  /\ pc = "idle" /\ turn < MaxTurns
  /\ turn' = turn + 1
  /\ enabled' \in BOOLEAN
  /\ retryCount' = 0
  /\ pc' = "understand" /\ outcome' = "none"
  /\ passes' = 0 /\ broadened' = 0 /\ queried' = {} /\ failed' = {}
  /\ UNCHANGED <<planVars, gradeVars, missing, docVars, answerVars, diagram>>

Goto(node) == pc' = node /\ UNCHANGED turnVars

\* END: the complete event is made from the state.
Complete == pc' = "idle" /\ outcome' = "complete" /\ UNCHANGED <<turn, enabled>>

\* A node raises (a full inference gate, an unavailable index, ...).
Raise ==
  /\ pc # "idle"
  /\ pc' = "idle" /\ outcome' = "error"
  /\ UNCHANGED <<turn, enabled, planVars, gradeVars, retryCount, missing, docVars,
                 answerVars, diagram, history>>
-----------------------------------------------------------------------------
(* understand_question *)

\* A greeting is answered without retrieval and without a model.
UnderstandBasic ==
  /\ pc = "understand"
  /\ basicChat' = TRUE
  /\ answer' = Reply("basic", {}) /\ sources' = {} /\ grounded' = FALSE
  /\ docs' = NoFunction /\ reranked' = {}
  /\ wanted' = FALSE /\ diagram' = 0
  /\ relationshipMode' = FALSE /\ retryCount' = 0
  /\ Complete
  /\ UNCHANGED <<outOfScope, required, requiredManuals, gradeVars, missing,
                 llmErrorRole, history>>

\* Whatever the plan says, a question has an aspect: itself, if no other.
RequiredAspects == (SUBSET Aspects) \ {{}}

\* The manuals a question names.
RequiredManuals == SUBSET Manuals

\* Out of scope only if the question is clearly unrelated and names no concept.
DomainContext == BOOLEAN

\* The plan, of the model or deterministic.
Plan ==
  /\ pc = "understand"
  /\ basicChat' = FALSE
  /\ outOfScope' \in DomainContext
  /\ required' \in RequiredAspects
  /\ requiredManuals' \in RequiredManuals
  /\ relationshipMode' \in BOOLEAN
  /\ wanted' \in BOOLEAN
  /\ retryCount' = 0 /\ missing' = {} /\ coverage' = NoFunction
  /\ docs' = NoFunction /\ reranked' = {}
  /\ answer' = NoAnswer /\ sources' = {} /\ grounded' = FALSE

\* Mutant of UnderstandPlan: the previous turn's diagram is not cleared.
UnderstandKeepsDiagram ==
  /\ Plan /\ llmErrorRole' = ""
  /\ Goto("retrieve")
  /\ UNCHANGED <<status, diagram, history>>

\* Mutant of UnderstandPlan: the previous turn's error is not cleared.
UnderstandKeepsError ==
  /\ Plan /\ diagram' = 0
  /\ Goto("retrieve")
  /\ UNCHANGED <<status, llmErrorRole, history>>

UnderstandPlan ==
  /\ Plan /\ llmErrorRole' = "" /\ diagram' = 0
  /\ Goto("retrieve")
  /\ UNCHANGED <<status, history>>
-----------------------------------------------------------------------------
(* retrieve_documents, expand_context, rerank_documents *)

Retrying == retryCount > 0 /\ missing # {}

\* Mutant of Kept: every aspect is retrieved again.
KeptNone == {}

\* Aspects whose documents a broadened pass keeps.
Kept == IF Retrying THEN DOMAIN docs \ missing ELSE {}

\* Aspects this pass retrieves.
ToQuery ==
  (IF Retrying THEN required \cap missing ELSE required)
    \cup (IF relationshipMode /\ ~(Retrying /\ Relationship \in Kept)
            THEN {Relationship} ELSE {})

Retrieve ==
  /\ pc = "retrieve"
  /\ \E found \in [ToQuery -> SUBSET Manuals] :
       docs' = [a \in Kept \cup ToQuery |->
                  IF a \in ToQuery
                    THEN {[turn |-> turn, manual |-> m] : m \in found[a]}
                    ELSE docs[a]]
  /\ queried' = ToQuery
  /\ passes' = Counted(passes)
  /\ Goto("expand")
  /\ UNCHANGED <<planVars, gradeVars, retryCount, missing, reranked, answerVars,
                 diagram, broadened, failed>>

\* Neighbouring segments come from the same manual.
Expand ==
  /\ pc = "expand"
  /\ Goto("rerank")
  /\ UNCHANGED <<planVars, gradeVars, retryCount, missing, docVars, answerVars,
                 diagram, history>>

\* What is left of the aspects' documents when they are merged, shared ones
\* first, and cut to a limit: some, as long as an aspect has some.
Merges(documents) ==
  LET all == UNION {documents[a] : a \in DOMAIN documents} IN
  {kept \in SUBSET all : kept = {} => all = {}}

\* The top documents of each aspect, then of all aspects together.  What the
\* first pass left of an aspect, 3 evidence units of 6 reranked or 5 of 8, is
\* within the same limits and stays.
Rerank ==
  /\ pc = "rerank"
  /\ \E top \in [DOMAIN docs -> SUBSET UNION {docs[a] : a \in DOMAIN docs}] :
       /\ \A a \in DOMAIN docs : top[a] \subseteq docs[a] /\ (a \in Kept => top[a] = docs[a])
       /\ docs' = top
       /\ reranked' \in Merges(top)
  /\ Goto("grade")
  /\ UNCHANGED <<planVars, gradeVars, retryCount, missing, answerVars, diagram,
                 history>>
-----------------------------------------------------------------------------
(* grade_evidence and its routing *)

Weak == IF retryCount < MaxRetries THEN "retry" ELSE "in_scope_insufficient"

DocsOf(a) == IF a \in DOMAIN docs THEN docs[a] ELSE {}

\* The documents an aspect is graded by.
Evidence(a) ==
  LET own == DocsOf(a) \cup DocsOf(Relationship) IN
  IF own = {} /\ required = {a} THEN reranked ELSE own

\* The grader's answer, any EvidenceStatus.
ModelGrades == Statuses \ {"none"}

\* The grade by words, sections and content types, when the model is out of reach.
HeuristicGrades == Supported \cup {"out_of_scope", Weak}

\* A retry beyond the limit, or a doubt about the scope the planner settled.
Settled(grade) == IF grade \in {"retry", "out_of_scope"} THEN Weak ELSE grade

Grades(a) ==
  IF Evidence(a) = {} THEN {Weak}
  ELSE {Settled(grade) : grade \in ModelGrades \cup HeuristicGrades}

MissingManuals(graded) ==
  requiredManuals \ {d.manual : d \in UNION {DocsOf(a) :
    a \in {b \in DOMAIN graded : graded[b] \in Supported}}}

\* Mutant of Overall: required manuals are not looked at.
OverallWithoutManuals(graded) ==
  LET statuses == {graded[a] : a \in DOMAIN graded} IN
  IF statuses = {"sufficient"} THEN "sufficient"
  ELSE IF "retry" \in statuses /\ retryCount < MaxRetries THEN "retry"
  ELSE IF statuses \cap Supported # {} THEN "partial"
  ELSE "in_scope_insufficient"

\* Mutant of Overall: weak evidence is called partial.
OverallOptimistic(graded) ==
  LET o == OverallWithoutManuals(graded) IN
  IF o = "in_scope_insufficient" THEN "partial" ELSE o

Overall(graded) ==
  LET statuses == {graded[a] : a \in DOMAIN graded}
      lacking == MissingManuals(graded) # {}
      canRetry == retryCount < MaxRetries IN
  CASE canRetry /\ (lacking \/ (statuses # {"sufficient"} /\ "retry" \in statuses)) -> "retry"
    [] statuses = {"sufficient"} /\ ~lacking -> "sufficient"
    [] OTHER -> IF statuses \cap Supported # {} THEN "partial" ELSE "in_scope_insufficient"

\* route_after_grade.
RouteAfterGrade(s) ==
  CASE s \in Supported -> "generate"
    [] s = "retry" /\ retryCount = 0 -> "broaden"
    [] OTHER -> "fallback"

GradeOutOfScope ==
  /\ pc = "grade" /\ outOfScope
  /\ status' = "out_of_scope"
  /\ coverage' = [a \in required |-> "out_of_scope"]
  /\ missing' = required
  /\ Goto(RouteAfterGrade("out_of_scope"))
  /\ UNCHANGED <<planVars, retryCount, docVars, answerVars, diagram, history>>

Grade ==
  /\ pc = "grade" /\ ~outOfScope
  /\ \E graded \in [required -> Statuses] :
       /\ \A a \in required : graded[a] \in Grades(a)
       /\ coverage' = graded
       /\ status' = Overall(graded)
       /\ missing' = {a \in required : graded[a] \notin Supported} \cup MissingManuals(graded)
       /\ Goto(RouteAfterGrade(Overall(graded)))
  /\ UNCHANGED <<planVars, retryCount, docVars, answerVars, diagram, history>>
-----------------------------------------------------------------------------
(* broaden_query *)

\* Mutant of Broaden: the retry is not counted.
BroadenUncounted ==
  LET weak == {a \in DOMAIN coverage : coverage[a] = "retry"} IN
  /\ pc = "broaden"
  /\ missing' = IF weak # {} THEN weak ELSE missing
  /\ broadened' = Counted(broadened)
  /\ Goto("retrieve")
  /\ UNCHANGED <<planVars, gradeVars, retryCount, docVars, answerVars, diagram, passes,
                 queried, failed>>

\* New queries for the aspects that are to be retried, or, when there is none,
\* for whatever is missing.
Broaden ==
  LET weak == {a \in DOMAIN coverage : coverage[a] = "retry"} IN
  /\ pc = "broaden"
  /\ IF retryCount < MaxRetries
       THEN /\ missing' = IF weak # {} THEN weak ELSE missing
            /\ retryCount' = retryCount + 1
            /\ broadened' = Counted(broadened)
            /\ UNCHANGED status
       ELSE /\ status' = "in_scope_insufficient"
            /\ UNCHANGED <<missing, retryCount, broadened>>
  /\ Goto("retrieve")
  /\ UNCHANGED <<planVars, coverage, docVars, answerVars, diagram, passes, queried,
                 failed>>
-----------------------------------------------------------------------------
(* generate_answer, verify_answer, generate_fallback, generate_diagram *)

\* The effect of generate_fallback, also called by generate_answer.
FallBack ==
  /\ answer' = Reply("fallback", {}) /\ sources' = {} /\ grounded' = FALSE
  /\ diagram' = 0

Fallback ==
  /\ pc = "fallback"
  /\ FallBack
  /\ Complete
  /\ UNCHANGED <<planVars, gradeVars, retryCount, missing, docVars, llmErrorRole,
                 passes, broadened, queried, failed>>

\* The sources of an answer: what it cites, without documents that have no page.
CitedSources(cites) == SUBSET cites

\* The evidence is put in the order the answer cites it by; none is dropped.
Generate ==
  /\ pc = "generate"
  /\ \/ /\ status \notin Supported \/ reranked = {}
        /\ FallBack
        /\ UNCHANGED <<llmErrorRole, failed>>
     \/ /\ status \in Supported /\ reranked # {}
        /\ \E cites \in SUBSET reranked :
             answer' = Reply("draft", cites) /\ sources' \in CitedSources(cites)
        /\ UNCHANGED <<grounded, llmErrorRole, diagram, failed>>
     \/ /\ status \in Supported /\ reranked # {}
        /\ answer' = Reply("unavailable", {}) /\ sources' = {} /\ grounded' = FALSE
        /\ llmErrorRole' = "answer" /\ failed' = failed \cup {"answer"}
        /\ UNCHANGED diagram
  /\ Goto("verify")
  /\ UNCHANGED <<planVars, gradeVars, retryCount, missing, docVars, passes,
                 broadened, queried>>

\* route_after_verify.
RouteAfterVerify(isGrounded) ==
  IF enabled /\ isGrounded /\ wanted THEN Goto("diagram") ELSE Complete

\* The answer role failed: its message is final.
VerifyUnavailable ==
  /\ pc = "verify" /\ llmErrorRole = "answer"
  /\ sources' = {} /\ grounded' = FALSE
  /\ RouteAfterVerify(FALSE)
  /\ UNCHANGED <<planVars, gradeVars, retryCount, missing, docVars, answer,
                 llmErrorRole, diagram, passes, broadened, queried, failed>>

\* The verifier's text; the draft as it is when the call fails or its text takes
\* away all citations.  Guardrails may then drop a sentence with its citation or add one.
\* A cited document without a source, or a citation outside the evidence, forbids
\* grounding.
Verify ==
  /\ pc = "verify" /\ llmErrorRole = ""
  /\ \E cites \in SUBSET reranked :
       /\ \/ /\ answer' = [answer EXCEPT !.kind = "verified", !.cites = cites]
             /\ UNCHANGED failed
          \/ \E cause \in Unverified :
               /\ cause = "correction" => answer.cites # {}
               /\ answer' = [answer EXCEPT !.cites = cites]
               /\ failed' = failed \cup {cause}
       /\ sources' \in CitedSources(cites)
       /\ grounded' \in {FALSE, cites # {} /\ sources' = cites}
  /\ RouteAfterVerify(grounded')
  /\ UNCHANGED <<planVars, gradeVars, retryCount, missing, docVars, llmErrorRole,
                 diagram, passes, broadened, queried>>

\* The validator lets a DOT of this turn's answer through, or nothing.
ValidatedDots == {0, turn}

\* No diagram either when the model fails or the answer cites nothing.
Diagram ==
  /\ pc = "diagram"
  /\ diagram' \in IF enabled /\ wanted /\ grounded /\ answer.cites # {}
                   THEN ValidatedDots ELSE {0}
  /\ Complete
  /\ UNCHANGED <<planVars, gradeVars, retryCount, missing, docVars, answerVars, history>>
-----------------------------------------------------------------------------
Node ==
  \/ UnderstandBasic \/ UnderstandPlan \/ Retrieve \/ Expand \/ Rerank
  \/ GradeOutOfScope \/ Grade \/ Broaden \/ Generate \/ Fallback
  \/ VerifyUnavailable \/ Verify \/ Diagram

Next == Ask \/ Node \/ Raise

Spec == Init /\ [][Next]_vars

\* A started graph runs on.
FairSpec == Spec /\ WF_vars(Node)
-----------------------------------------------------------------------------
(* Properties *)

Answered == outcome = "complete" /\ ~basicChat

\* Nothing in the complete event stems from an earlier turn of the same
\* checkpoint, whether that turn succeeded or broke off at any node.
OfThisTurn ==
  /\ outcome = "complete" => answer.turn = turn
  /\ Answered => /\ diagram \in {0, turn}
                 /\ \A d \in sources \cup reranked : d.turn = turn

\* The user reads a draft as it was written only if the verifier role failed on
\* it or returned a text that cites nothing, and is told that the model is
\* unavailable exactly when the answer role failed: in this turn, whatever error an
\* earlier one left in the checkpoint.
AnswerFitsFailures ==
  Answered => /\ answer.kind = "draft" => failed \cap Unverified # {}
              /\ answer.kind = "unavailable" <=> "answer" \in failed

\* A grounded answer cites reranked evidence, all of it with a source, in a turn
\* whose evidence supported some required aspect; which of the aspects its
\* citations are about is not recorded.
GroundedOnGradedEvidence ==
  Answered /\ grounded =>
    /\ sources # {} /\ sources \subseteq reranked /\ sources = answer.cites
    /\ \E a \in required : coverage[a] \in Supported

\* "sufficient" means every aspect is supported and every required manual is
\* among the evidence.  The user is sent away only when no aspect has supporting
\* evidence: partial evidence is answered, whatever was missing beside it.
StatusFitsEvidence ==
  Answered =>
    /\ status = "sufficient" =>
         /\ \A a \in required : coverage[a] = "sufficient"
         /\ requiredManuals \subseteq {d.manual : d \in UNION {docs[a] : a \in required}}
    /\ answer.kind = "fallback" => \A a \in required : coverage[a] \notin Supported

\* From the broadening to the second grade, no node loses evidence of an aspect
\* the first grade supported, its own or that of the relationship.
SupportedEvidenceKept ==
  [][\A a \in required :
       pc \in {"retrieve", "expand", "rerank"} /\ retryCount > 0 /\ coverage[a] \in Supported
       => DocsOf(a) \cup DocsOf(Relationship) \subseteq DocsOf(a)' \cup DocsOf(Relationship)']_vars

\* A broadened pass retrieves something: the missing evidence is targeted.
BroadeningRetrieves == passes = 2 => queried # {}

\* Every turn ends.
TurnEnds == pc # "idle" ~> pc = "idle"
=============================================================================
