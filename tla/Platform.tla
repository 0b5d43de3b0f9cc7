------------------------------- MODULE Platform -------------------------------
(***************************************************************************)
(* One process of the platform after another: it registers its packs,      *)
(* fills their knowledge collection, binds the handlers, mounts the        *)
(* routers and then serves policy decisions and verification loops.        *)
(* Registries live as long as the process; the collection and the          *)
(* artifacts outlive it.                                                   *)
(***************************************************************************)
EXTENDS PackRegistry, ValidationLoop

CONSTANTS
    Specs,      \* the packs somebody may register
    Preloads,   \* the capabilities, with handlers, of a registry handed in
    Bindings,   \* name and version of each handler of the embedded pack, in order
    Users,      \* the roles of those who ask for a decision
    Plans,      \* the repair plans they ask about
    Queries,    \* the goals that are resolved
    MaxStarts   \* bound on the processes

ASSUME StartsAssumption == MaxStarts \in Nat

VARIABLES
    phase,       \* where the process is
    starts,
    handlers,    \* the keys that have a handler
    bound,       \* bind_embeddedops_handlers came to its end
    mounted,     \* the packs whose routers are mounted
    collection,  \* the persisted knowledge collection
    indexed,     \* initialize_collection returned in this process
    decided      \* the decision given last

assembly == <<packs, caps, handlers, bound, mounted>>
lab == <<loop, files, reports>>
vars == <<phase, starts, assembly, collection, indexed, decided, lab>>

Undecided == [effect |-> "none"]

Init ==
    /\ phase = "down" /\ starts = 0
    /\ packs = {} /\ caps = {} /\ handlers = {} /\ bound = FALSE /\ mounted = {}
    /\ collection = "absent" /\ indexed = FALSE
    /\ decided = Undecided
    /\ LoopInit

StartProcess ==
    /\ phase = "down" /\ starts < MaxStarts
    /\ phase' = "assembling" /\ starts' = starts + 1
    /\ caps' \in Preloads
    /\ handlers' = {Key(c) : c \in caps'}
    /\ UNCHANGED <<packs, bound, mounted, collection, indexed, decided, lab>>

\* register_*_pack: the pipeline, and the collection of a pack that has one.
RegisterPack(spec) ==
    /\ phase = "assembling"
    /\ Register(spec)
    /\ phase' = IF spec \in packs' /\ spec.collection THEN "probing" ELSE phase
    /\ UNCHANGED <<starts, handlers, bound, mounted, collection, indexed, decided, lab>>

\* initialize_collection: what is there is left alone, anything else is rebuilt.
ProbeCollection ==
    /\ phase = "probing"
    /\ IF collection = "full"
       THEN phase' = "assembling" /\ indexed' = TRUE
       ELSE phase' = "indexing" /\ UNCHANGED indexed
    /\ UNCHANGED <<starts, assembly, collection, decided, lab>>

\* create_vector_store: reset_collection and then add_documents.
ResetCollection ==
    /\ phase = "indexing" /\ collection # "empty"
    /\ collection' = "empty"
    /\ UNCHANGED <<phase, starts, assembly, indexed, decided, lab>>

AddDocuments ==
    /\ phase = "indexing" /\ collection = "empty"
    /\ collection' = "full" /\ indexed' = TRUE
    /\ phase' = "assembling"
    /\ UNCHANGED <<starts, assembly, decided, lab>>

\* The bindings that succeed before one of them raises.
Bindable ==
    {i \in DOMAIN Bindings :
        \A j \in 1..i : MayBind(caps, handlers, Bindings[j][1], Bindings[j][2])}

BindHandlers ==
    /\ phase = "assembling"
    /\ handlers' = handlers \cup {Bindings[i] : i \in Bindable}
    /\ bound' = (Bindable = DOMAIN Bindings)
    /\ UNCHANGED <<phase, starts, packs, caps, mounted, collection, indexed, decided, lab>>

\* create_app mounts the routers of the packs whose lifecycle is enabled.
Serve ==
    /\ phase = "assembling" /\ bound /\ Named("networkops")
    /\ phase' = "up"
    /\ mounted' = {p \in packs : p.enabled}
    /\ UNCHANGED <<starts, packs, caps, handlers, bound, collection, indexed, decided, lab>>

\* Decisions share nothing with the loops: one is asked for before any run begins.
Resting == \A c \in Callers : loop[c].pc = "idle"

Decide ==
    /\ phase = "up" /\ Resting /\ decided = Undecided
    /\ \E user \in Users, plan \in Plans, risk \in RiskLevels :
         decided' = [user |-> user, plan |-> plan, risk |-> risk,
                     effect |-> PlanEffect(Rules, Tools, user, plan, risk)]
    /\ UNCHANGED <<phase, starts, assembly, collection, indexed, lab>>

Verify(c) ==
    /\ phase = "up" /\ LoopStep(c)
    /\ decided' = Undecided
    /\ UNCHANGED <<phase, starts, assembly, collection, indexed>>

\* An exception nobody catches while the application is assembled, or a stop at any time.
Stop ==
    /\ phase # "down"
    /\ phase' = "down"
    /\ packs' = {} /\ caps' = {} /\ handlers' = {} /\ bound' = FALSE /\ mounted' = {}
    /\ indexed' = FALSE /\ decided' = Undecided
    /\ loop' = [c \in Callers |-> IF loop[c].pc \in {"idle", "done"} THEN loop[c] ELSE Raised(loop[c])]
    /\ UNCHANGED <<starts, collection, files, reports>>

Next ==
    \/ StartProcess
    \/ \E spec \in Specs : RegisterPack(spec)
    \/ ProbeCollection \/ ResetCollection \/ AddDocuments
    \/ BindHandlers \/ Serve \/ Decide
    \/ \E c \in Callers : Verify(c)
    \/ Stop

Spec == Init /\ [][Next]_vars

--------------------------------------------------------------------------------
(***************************************************************************)
(* Properties                                                              *)
(***************************************************************************)

\* Some context a user can be in for which a rule, not the default, decides the tool.
Decidable(capability) ==
    \E role \in Roles, risk \in RiskLevels, rule \in Rules : \E n \in 1..(rule.condition.min + 1) :
        Matches(rule.condition, [roles |-> {role}, permission |-> capability.permission, risk |-> risk,
                                 operation |-> Tools[capability.name], devices |-> 1..n])

\* What a configuration owes: a decision is about one device at least, so a rule for none
\* never matches, and what goals resolve to is what handlers are bound for.
RulesCanMatch == \A rule \in Rules : rule.condition.max # 0

Offered == UNION {{spec.caps[i] : i \in DOMAIN spec.caps} : spec \in Specs}
GoalsAreBound ==
    \A query \in Queries, c \in Offered, d \in Offered \cup UNION Preloads :
        /\ Answers(d, query) /\ c.name = d.name
        /\ c.enabled /\ query.version \in {0, c.version}
        => \E i \in DOMAIN Bindings : Bindings[i] = Key(c)

\* A registered pack is whole: its capabilities and those it depends on are there, none of
\* its classified tools is left to the default denial, and once the process serves, what a
\* goal resolves to can be called (PackRegistry.register, bind_embeddedops_handlers).
PacksAreUsable ==
    /\ \A p \in packs :
         /\ \A i \in DOMAIN p.caps : p.caps[i] \in caps
         /\ \A d \in p.dependsOn : Named(d)
         /\ Gated => \A i \in DOMAIN p.caps :
              p.caps[i].name \in DOMAIN Tools => Decidable(p.caps[i])
    /\ \A p, q \in packs : p.name = q.name => p = q
    /\ indexed => collection = "full"
    /\ phase = "up" =>
         /\ mounted \subseteq packs
         /\ \A query \in Queries : \A c \in Resolve(caps, query) : Key(c) \in handlers

Reshuffled(plan, other) ==
    /\ Targets(plan) = Targets(other)
    /\ {plan[i].tool : i \in DOMAIN plan} = {other[i].tool : i \in DOMAIN other}

\* A plan is allowed only if every rule that speaks of one of its tools and of all of its
\* devices allows it, and spreading the same devices over its actions in another way
\* changes nothing (evaluate_actions, aggregate_effect).
StrictestWins ==
    decided # Undecided =>
        /\ decided.effect # "DENY" =>
             \A i \in DOMAIN decided.plan :
                 LET context == [ActionContext(Tools, decided.user, decided.plan, decided.risk, i)
                                   EXCEPT !.devices = Targets(decided.plan)]
                     speaking == {rule \in Rules : Matches(rule.condition, context)}
                 IN  decided.effect # "refused" =>
                       /\ speaking # {}
                       /\ \A rule \in speaking : Precedence[rule.effect] <= Precedence[decided.effect]
        /\ \A other \in Plans :
             Reshuffled(decided.plan, other) =>
                 decided.effect = PlanEffect(Rules, Tools, decided.user, other, decided.risk)

\* A report.json tells what its run did: one compile log for the first attempt and each
\* iteration, a simulation of the last attempt unless that did not compile, a verdict that
\* agrees with its error category, and no second report of the task (ValidationLoop._report).
ReportIsBacked ==
    /\ \A r \in reports :
         LET last == r.iterations + 1
             attempts(kind) == {f.attempt : f \in {g \in r.logs : g.kind = kind}}
         IN  /\ r.iterations <= MaxFix
             /\ attempts("compile") = 1..last
             /\ last \in attempts("simulation") <=> r.category # "COMPILE_ERROR"
             /\ r.state = (IF r.category = "none" THEN "PASSED" ELSE "FAILED")
             /\ \A f \in r.logs : f \in files /\ f.task = r.task
    /\ \A r, s \in reports : r.task = s.task => r = s

================================================================================
