----------------------------- MODULE PackRegistry -----------------------------
(***************************************************************************)
(* The registration pipeline of domain packs.  A pack that fails one of    *)
(* the gates leaves nothing behind; a capability that cannot be registered *)
(* ends the registration with the earlier ones in place.                   *)
(***************************************************************************)
EXTENDS PolicyEngine, CapabilityRegistry

CONSTANTS
    PlatformPermissions,  \* the platform's catalog
    Gated,                \* the registry was given the policy engine
    Rules,                \* the rules of the policy engine
    Tools                 \* the tools it classifies, and their operations

ASSUME CatalogAssumption == PlatformPermissions \subseteq Permissions /\ Gated \in BOOLEAN
ASSUME RulesAssumption == \A rule \in Rules : ValidCondition(rule.condition) /\ rule.effect \in Effects
ASSUME ToolsAssumption == \A t \in DOMAIN Tools : Tools[t] \in Operations \ {"unknown"}

VARIABLES
    packs,  \* the specs registered so far
    caps    \* the capabilities of the capability registry

Named(name) == \E p \in packs : p.name = name
Conflicts(spec) == Named(spec.name)
MissesDependency(spec) == \E d \in spec.dependsOn : ~Named(d)

\* Permissions a pack declares must be in the catalog, and its roles and capabilities
\* may use those of either.
Ungoverned(spec) ==
    \/ ~(spec.permissions \subseteq PlatformPermissions)
    \/ \E role \in spec.roles : ~(role \subseteq spec.permissions \cup PlatformPermissions)
    \/ \E i \in DOMAIN spec.caps :
         spec.caps[i].permission \notin spec.permissions \cup PlatformPermissions

Covers(rule, capability) ==
    /\ Allowed(rule.condition.operation, Tools[capability.name])
    /\ Allowed(rule.condition.permission, capability.permission)

\* _validate_policy_consistency: a classified tool needs a rule that covers it.
Uncovered(spec) ==
    \E i \in DOMAIN spec.caps :
        /\ Gated /\ spec.caps[i].name \in DOMAIN Tools
        /\ ~\E rule \in Rules : Covers(rule, spec.caps[i])

Refused(spec) ==
    \/ Conflicts(spec)
    \/ MissesDependency(spec)
    \/ Ungoverned(spec)
    \/ Uncovered(spec)
    \/ ~spec.importable

\* The capabilities of spec that are registered before one of them clashes.
Fits(spec) ==
    {i \in DOMAIN spec.caps :
        \A j \in 1..i : /\ \A c \in caps : Key(c) # Key(spec.caps[j])
                        /\ \A k \in 1..(j - 1) : Key(spec.caps[k]) # Key(spec.caps[j])}

\* Defect: the pack is on record before its capabilities are.
Register_PackFirst(spec) ==
    /\ ~Refused(spec)
    /\ caps' = caps \cup {spec.caps[i] : i \in Fits(spec)}
    /\ packs' = packs \cup {spec}

\* register, past the gates.
Register(spec) ==
    /\ ~Refused(spec)
    /\ caps' = caps \cup {spec.caps[i] : i \in Fits(spec)}
    /\ packs' = IF Fits(spec) = DOMAIN spec.caps THEN packs \cup {spec} ELSE packs

================================================================================
