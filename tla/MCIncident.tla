----------------------------- MODULE MCIncident -----------------------------
(* Small instances of IncidentService.  "lead" has both roles, so that an     *)
(* approval can run its execution in one request; "eng" and "adm" need two.   *)
EXTENDS IncidentSafety, TLC

CONSTANTS eng, adm, lead, restart, view, a1

MCUsers == {eng, adm, lead}
MCRoles == eng :> {"engineer"} @@ adm :> {"admin"} @@ lead :> {"engineer", "admin"}

\* Two users suffice for races: one who plans, one who may do everything.
MCRaceUsers == {eng, lead}
MCRaceRoles == [u \in MCRaceUsers |-> MCRoles[u]]
RequestSymmetry == Permutations(Requests)

High   == [risk |-> "high", forced |-> FALSE, actions |-> <<restart, view>>]
Forced == [risk |-> "medium", forced |-> TRUE, actions |-> <<view>>]
Low    == [risk |-> "low", forced |-> FALSE, actions |-> <<view>>]
MCPlans == {High, Forced, Low}
MCEffect == High :> "require_approval" @@ Forced :> "deny" @@ Low :> "allow"
=============================================================================
