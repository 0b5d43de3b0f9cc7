-------------------------- MODULE IncidentLifecycle --------------------------
(***************************************************************************)
(* What the incident service promises of one incident to clients that take *)
(* turns, whatever fails or restarts between two checkpoints: it is opened *)
(* once, gets at most one repair plan, one verdict on a plan that needs a  *)
(* person and one result, and is reported when nothing is left to do.      *)
(* Nothing in it is ever replaced.                                         *)
(***************************************************************************)

CONSTANTS
  Plans,     \* the repair plans that may be proposed
  Guarded,   \* the plans that need a person's approval
  None

VARIABLES
  phase,     \* absent, open or reported
  plan,      \* the proposed plan, if any
  verdict,   \* the decision on it, with its author and time
  outcome    \* what its execution came to

vars == <<phase, plan, verdict, outcome>>

Unchanged == UNCHANGED <<plan, verdict, outcome>>

Gave(decision) == verdict # None /\ verdict.decision = decision

Init == phase = "absent" /\ plan = None /\ verdict = None /\ outcome = "none"

Open == phase = "absent" /\ phase' = "open" /\ Unchanged

Propose == /\ phase = "open" /\ plan = None
           /\ plan' \in Plans
           /\ UNCHANGED <<phase, verdict, outcome>>

Decide == /\ phase = "open" /\ plan \in Guarded
          /\ verdict = None /\ outcome = "none"
          /\ verdict' # None
          /\ UNCHANGED <<phase, plan, outcome>>

\* A plan that needs a person acts only with an approval.
Act == /\ phase = "open" /\ plan \in Plans /\ outcome = "none"
       /\ plan \in Guarded => Gave("approve")
       /\ outcome' \in {"succeeded", "failed"}
       /\ UNCHANGED <<phase, plan, verdict>>

Refuse == /\ phase = "open" /\ plan \in Plans /\ outcome = "none"
          /\ ~Gave("reject")
          /\ outcome' \in {"blocked", "not_executed"}
          /\ UNCHANGED <<phase, plan, verdict>>

Report == /\ phase = "open"
          /\ plan = None \/ Gave("reject") \/ outcome # "none"
          /\ phase' = "reported" /\ Unchanged

Next == Open \/ Propose \/ Decide \/ Act \/ Refuse \/ Report

Spec == Init /\ [][Next]_vars
=============================================================================
