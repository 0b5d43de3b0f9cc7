--------------------------- MODULE DiagnosisWorkflow ---------------------------
(***************************************************************************)
(* The read-only diagnosis graph: a plan names the sources, each required  *)
(* source is asked once in a fixed order, the evidence is correlated, an   *)
(* answer is generated and checked until it is approved or the iterations  *)
(* are spent.                                                              *)
(***************************************************************************)
EXTENDS DiagnosisEvidence

CONSTANT DiagnosisPlans      \* what analyze_query may return, sound or not

VARIABLES st, limits

SourceNode ==
    [topology |-> "TopologyTool", monitoring |-> "MonitorTool",
     logs |-> "LogTool", knowledge |-> "RAG"]

RetryNodes == {"QueryAnalyzer", "EvidenceCorrelator", "Generator",
               "HallucinationChecker"} \cup {SourceNode[s] : s \in SourceNames}

States ==
    [node : RetryNodes \cup {"END"}, required : SUBSET SourceNames,
     evidence : SUBSET Signals, cause : {"none", "hypothesis", "confirmed"},
     answer : {"empty", "draft", "fallback"},
     verdict : {"none", "approved", "rejected"}, iteration : Nat,
     error : {"none", "node", "budget"}]

Asked ==
    [node |-> "QueryAnalyzer", required |-> {}, evidence |-> {}, cause |-> "none",
     answer |-> "empty", verdict |-> "none", iteration |-> 0, error |-> "none"]

\* The first required source after the first i of them, or the correlator.
NextAfter(i, required) ==
    LET later == {j \in (i + 1)..Len(Sources) : Sources[j] \in required}
    IN  IF later = {} THEN "EvidenceCorrelator"
        ELSE SourceNode[Sources[CHOOSE j \in later : \A k \in later : j <= k]]

QueryAnalyzer ==
    /\ st.node = "QueryAnalyzer"
    /\ \E plan \in DiagnosisPlans :
          /\ ValidDiagnosisPlan(plan)
          /\ st' = [Asked EXCEPT !.required = Required(plan),
                       !.node = NextAfter(0, Required(plan))]

\* TopologyTool, MonitorTool, LogTool and RAG: what is found is a free choice.
SourceTool ==
    \E i \in DOMAIN Sources :
       /\ st.node = SourceNode[Sources[i]]
       /\ \E found \in SUBSET SignalsOf[Sources[i]] :
             st' = [st EXCEPT !.evidence = @ \cup found,
                       !.node = NextAfter(i, st.required)]

EvidenceCorrelator ==
    /\ st.node = "EvidenceCorrelator"
    /\ st' = [st EXCEPT !.cause = Cause(st.evidence), !.node = "Generator"]

Generator ==
    /\ st.node = "Generator"
    /\ st' = [st EXCEPT !.answer = "draft", !.verdict = "none",
                 !.iteration = @ + 1, !.node = "HallucinationChecker"]

HallucinationChecker ==
    /\ st.node = "HallucinationChecker"
    /\ \/ st' = [st EXCEPT !.verdict = "approved", !.error = "none", !.node = "END"]
       \/ /\ st.iteration >= limits.iterations
          /\ st' = [st EXCEPT !.verdict = "rejected", !.error = "budget",
                       !.node = "END"]
       \/ /\ st.iteration < limits.iterations
          /\ st' = [st EXCEPT !.verdict = "rejected", !.error = "none",
                       !.node = "Generator"]

\* handle_error with terminal_state; an invalid plan ends here too.
HandleError ==
    /\ st.node \in RetryNodes
    /\ st' = [st EXCEPT !.answer = IF @ = "empty" THEN "fallback" ELSE @,
                 !.error = "node", !.node = "END"]

Next ==
    \/ QueryAnalyzer
    \/ SourceTool
    \/ EvidenceCorrelator
    \/ Generator
    \/ HallucinationChecker
    \/ HandleError

================================================================================
