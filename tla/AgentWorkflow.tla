----------------------------- MODULE AgentWorkflow -----------------------------
(***************************************************************************)
(* The question-answering graph: analyse the query, retrieve and grade     *)
(* documents, rewrite the query, generate an answer and have it checked.   *)
(* st is the state LangGraph passes between the nodes; the model calls and *)
(* the retrievers are injected, so their answers are free choices and any  *)
(* of them may fail after its retries.                                     *)
(***************************************************************************)
EXTENDS Integers

VARIABLES st, limits

Intents == {"knowledge", "topology", "monitoring", "hybrid", "general"}

NeedsDocuments(intent) == intent \in {"knowledge", "hybrid"}

\* The nodes that have a retry policy and an error handler; Router has none.
RetryNodes == {"QueryAnalyzer", "Retrieval", "DocumentGrader", "QueryRewrite",
               "Generator", "HallucinationChecker"}

States ==
    [node : RetryNodes \cup {"Router", "END"}, intent : Intents,
     query : Nat, documents : Nat, relevance : {"none", "low", "high"},
     answer : {"empty", "draft", "fallback", "noEvidence"},
     verdict : {"none", "approved", "rejected"},
     feedback : {"none", "rejected"}, iteration : Nat,
     error : {"none", "node", "budget"}]

\* query counts the versions of the query, documents is the version they were
\* retrieved for (0: none), verdict is what the checker said of this answer.
Asked ==
    [node |-> "QueryAnalyzer", intent |-> "general", query |-> 1, documents |-> 0,
     relevance |-> "none", answer |-> "empty", verdict |-> "none",
     feedback |-> "none", iteration |-> 0, error |-> "none"]

QueryAnalyzer ==
    /\ st.node = "QueryAnalyzer"
    /\ \E intent \in Intents :
          st' = [Asked EXCEPT !.node = "Router", !.intent = intent]

Router ==
    /\ st.node = "Router"
    /\ st' = [st EXCEPT !.node = IF st.intent = "general" THEN "Generator"
                                 ELSE "Retrieval"]
\* Defect: the documents of the first query are kept after a rewrite.
Retrieval_StaleDocuments ==
    /\ st.node = "Retrieval"
    /\ st' = [st EXCEPT !.iteration = @ + 1, !.relevance = "none",
                 !.documents = IF @ = 0 /\ NeedsDocuments(st.intent) THEN st.query ELSE @,
                 !.node = IF NeedsDocuments(st.intent) THEN "DocumentGrader"
                          ELSE "Generator"]

Retrieval ==
    /\ st.node = "Retrieval"
    /\ st' = [st EXCEPT !.iteration = @ + 1, !.relevance = "none",
                 !.documents = IF NeedsDocuments(st.intent) THEN st.query ELSE @,
                 !.node = IF NeedsDocuments(st.intent) THEN "DocumentGrader"
                          ELSE "Generator"]

\* A low grade ends the run at the last iteration and rewrites the query before.
DocumentGrader ==
    /\ st.node = "DocumentGrader"
    /\ \/ st' = [st EXCEPT !.relevance = "high", !.error = "none",
                    !.node = "Generator"]
       \/ /\ st.iteration >= limits.iterations
          /\ st' = [st EXCEPT !.relevance = "low", !.answer = "noEvidence",
                       !.verdict = "none", !.error = "budget", !.node = "END"]
       \/ /\ st.iteration < limits.iterations
          /\ st' = [st EXCEPT !.relevance = "low", !.error = "none",
                       !.node = "QueryRewrite"]

QueryRewrite ==
    /\ st.node = "QueryRewrite"
    /\ st' = [st EXCEPT !.query = @ + 1, !.node = "Router"]

\* Defect: only the first answer of a run counts.
ConsumesIteration_First == st.iteration = 0

\* The first answer after a retrieval shares its iteration, a retry has its own.
ConsumesIteration == st.iteration = 0 \/ st.feedback # "none"

Generator ==
    /\ st.node = "Generator"
    /\ st' = [st EXCEPT !.answer = "draft", !.verdict = "none",
                 !.iteration = IF ConsumesIteration THEN @ + 1 ELSE @,
                 !.node = "HallucinationChecker"]

HallucinationChecker ==
    /\ st.node = "HallucinationChecker"
    /\ \/ st' = [st EXCEPT !.verdict = "approved", !.feedback = "none",
                    !.error = "none", !.node = "END"]
       \/ /\ st.iteration >= limits.iterations
          /\ st' = [st EXCEPT !.verdict = "rejected", !.feedback = "rejected",
                       !.error = "budget", !.node = "END"]
       \/ /\ st.iteration < limits.iterations
          /\ st' = [st EXCEPT !.verdict = "rejected", !.feedback = "rejected",
                       !.error = "none", !.node = "Generator"]

\* handle_error: an answer that is there stays, whatever the checker said of it.
HandleError ==
    /\ st.node \in RetryNodes
    /\ st' = [st EXCEPT !.answer = IF @ = "empty" THEN "fallback" ELSE @,
                 !.error = "node", !.node = "END"]

Next ==
    \/ QueryAnalyzer
    \/ Router
    \/ Retrieval
    \/ DocumentGrader
    \/ QueryRewrite
    \/ Generator
    \/ HallucinationChecker
    \/ HandleError

================================================================================
