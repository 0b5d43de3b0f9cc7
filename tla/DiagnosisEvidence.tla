--------------------------- MODULE DiagnosisEvidence ---------------------------
(***************************************************************************)
(* What the diagnosis graph and the diagnosis agent share: the plan of a   *)
(* diagnosis, the evidence each source can give and the fixed scores by    *)
(* which evidence_correlator names a cause.  A signal stands for at least  *)
(* one item of evidence that matches the interfaces and the time window of *)
(* the plan; which items match is data and left out.                       *)
(***************************************************************************)
EXTENDS Integers, Sequences, FiniteSets

Sources == <<"topology", "monitoring", "logs", "knowledge">>

SourceNames == {Sources[i] : i \in DOMAIN Sources}

SignalsOf ==
    [topology   |-> {"link"},
     monitoring |-> {"counters", "optics"},
     logs       |-> {"log"},
     knowledge  |-> {"case"}]

Signals == UNION {SignalsOf[source] : source \in SourceNames}

\* A plan of a diagnosis: whether its fields are complete and well formed,
\* and the sources it asks for, in the order the analyst wrote them.
ValidDiagnosisPlan(plan) ==
    /\ plan.complete
    /\ \A i \in DOMAIN plan.sources : plan.sources[i] \in SourceNames
    /\ \A i, j \in DOMAIN plan.sources :
          plan.sources[i] = plan.sources[j] => i = j

Required(plan) == {plan.sources[i] : i \in DOMAIN plan.sources}

Weight(signals, signal, points) == IF signal \in signals THEN points ELSE 0

Score(signals) ==
    Weight(signals, "link", 10) + Weight(signals, "counters", 25)
        + Weight(signals, "optics", 25) + Weight(signals, "log", 10)
        + Weight(signals, "case", 10)

Cause(signals) == IF Score(signals) >= 50 THEN "confirmed" ELSE "hypothesis"

================================================================================
