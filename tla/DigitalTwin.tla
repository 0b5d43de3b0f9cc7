------------------------------ MODULE DigitalTwin ------------------------------
(***************************************************************************)
(* The network digital twin: a network that can be changed, an engine that *)
(* finds what a fault cuts off from the network's entries, and an analyzer *)
(* that scores it.  Engine and analyzer each keep the copy of the network  *)
(* they were made with, so each of them may be older than the other.       *)
(***************************************************************************)
EXTENDS Integers, FiniteSets, Sequences

CONSTANTS
    Devices,    \* device ids
    Profiles,   \* what a device may be set to
    Networks,   \* the networks somebody built, with time 0
    Entries,    \* the entry devices an engine may be given
    Default,    \* none given: the devices of layer edge
    None,       \* nothing there yet
    Refused,    \* the call raised ValueError or KeyError
    MaxTime     \* bound on the clock and on the changes

\* A profile: the services a device lists, one of them maybe twice, whether its layer
\* is edge, and its status.
ASSUME ProfilesAssumption ==
    \A p \in Profiles : p.services \in Seq(STRING) /\ p.edge \in BOOLEAN
                        /\ p.status \in {"online", "offline"}

Pairs == {{d, e} : d, e \in Devices} \ {{d} : d \in Devices}

\* What a network holds of its devices and links: a dict of each, and when it last changed.
Dicts(keys, values) == UNION {[known -> values] : known \in SUBSET keys}
NetworkStates ==
    {n \in [device : Dicts(Devices, Profiles), link : Dicts(Pairs, {"up", "down"}), time : Nat] :
        \A l \in DOMAIN n.link : l \subseteq DOMAIN n.device}

ASSUME DevicesAssumption == IsFiniteSet(Devices)
ASSUME NetworksAssumption == \A n \in Networks : n \in NetworkStates /\ n.time = 0
ASSUME TimeAssumption == MaxTime \in Nat

VARIABLES
    twin,      \* NetworkDigitalTwin
    engine,    \* FaultPropagationEngine: its copy of the network and its entries
    analyzer,  \* ImpactAnalyzer: its copy of the network
    study,     \* the fault analysed last and what it affects
    impact     \* the assessment of that study

vars == <<twin, engine, analyzer, study, impact>>

Init ==
    /\ twin \in Networks
    /\ engine = None /\ analyzer = None /\ study = None /\ impact = None

(***************************************************************************)
(* The network                                                             *)
(***************************************************************************)

Larger(m, n) == IF m > n THEN m ELSE n

\* Defect: the time of a change is that of the clock, or else the one before.
Touch_ClockOnly(network) ==
    /\ twin.time < MaxTime
    /\ \E observed \in 0..MaxTime : twin' = [network EXCEPT !.time = Larger(observed, twin.time)]

\* _touch: the clock, which may have been set back, or else just after the last change.
Touch(network) ==
    /\ twin.time < MaxTime
    /\ \E observed \in 0..MaxTime :
          twin' = [network EXCEPT !.time = Larger(observed, twin.time + 1)]

Known == DOMAIN twin.device

AddDevice ==
    /\ \E d \in Devices \ Known, p \in Profiles :
          Touch([twin EXCEPT !.device = [e \in Known \cup {d} |-> IF e = d THEN p ELSE @[e]]])
    /\ UNCHANGED <<engine, analyzer, study, impact>>

AddLink ==
    /\ \E l \in {pair \in Pairs : pair \subseteq Known} \ DOMAIN twin.link :
          Touch([twin EXCEPT !.link = [k \in DOMAIN twin.link \cup {l} |->
                                          IF k = l THEN "up" ELSE @[k]]])
    /\ UNCHANGED <<engine, analyzer, study, impact>>

\* _replace_device, _replace_link: what changes nothing leaves the time alone.
ReplaceDevice(d, profile) ==
    profile # twin.device[d] /\ Touch([twin EXCEPT !.device[d] = profile])

ReplaceLink(l, status) ==
    status # twin.link[l] /\ Touch([twin EXCEPT !.link[l] = status])

UpdateDevice ==
    /\ \E d \in Known, p \in Profiles : ReplaceDevice(d, p)
    /\ UNCHANGED <<engine, analyzer, study, impact>>

UpdateLink ==
    /\ \E l \in DOMAIN twin.link, status \in {"up", "down"} : ReplaceLink(l, status)
    /\ UNCHANGED <<engine, analyzer, study, impact>>

\* export_state: devices and links as they are now, with the time of the last change.
Exported == twin

(***************************************************************************)
(* Propagation                                                             *)
(***************************************************************************)

\* _resolve_entries: nothing stands for a ValueError or a KeyError.
ResolvedEntries(network, given) ==
    LET found == IF given = Default
                 THEN {d \in DOMAIN network.device : network.device[d].edge}
                 ELSE given
    IN  IF found \subseteq DOMAIN network.device THEN found ELSE {}

\* A new engine on an exported state.
NewEngine ==
    /\ \E given \in Entries :
          LET entries == ResolvedEntries(Exported, given)
          IN  engine' = IF entries = {} THEN None ELSE [network |-> Exported, entries |-> entries]
    /\ study' = None /\ impact' = None
    /\ UNCHANGED <<twin, analyzer>>

\* _reachable, the components of the entries: the least set closed under the links.
Reachable(devices, links, entries) ==
    {d \in devices :
        \A closed \in SUBSET devices :
            /\ entries \cap devices \subseteq closed
            /\ \A l \in links : l \cap closed # {} => l \subseteq closed
            => d \in closed}

LinksOf(links, devices) == {l \in links : l \cap devices # {}}

\* The target of a fault: a device, the two ends of a link, or a device's service.
Services == UNION {{p.services[i] : i \in DOMAIN p.services} : p \in Profiles}

Faults ==
    [kind : {"device_down"}, target : {{d} : d \in Devices}]
        \cup [kind : {"service_down"}, target : {{d} : d \in Devices}, service : Services]
        \cup [kind : {"link"}, target : Pairs]

\* _require_device, _require_link and the services of the device.
Exists(network, fault) ==
    CASE fault.kind = "device_down"  -> fault.target \subseteq DOMAIN network.device
      [] fault.kind = "service_down" ->
            \E d \in fault.target \cap DOMAIN network.device :
                \E i \in DOMAIN network.device[d].services :
                    network.device[d].services[i] = fault.service
      [] fault.kind = "link"         -> fault.target \in DOMAIN network.link

\* Defect: a device that no entry reached is not affected by its own failure.
CutOff_OnlyReachable(base, fault) ==
    LET devices == DOMAIN base.network.device
        links == DOMAIN base.network.link
    IN  Reachable(devices, links, base.entries) \
           (IF fault.kind = "link" THEN Reachable(devices, links \ {fault.target}, base.entries)
            ELSE Reachable(devices \ fault.target, links \ LinksOf(links, fault.target), base.entries))

\* What loses its last way to an entry, and the device that fails.
CutOff(base, fault) ==
    LET devices == DOMAIN base.network.device
        links == DOMAIN base.network.link
        before == Reachable(devices, links, base.entries)
    IN  IF fault.kind = "link"
        THEN before \ Reachable(devices, links \ {fault.target}, base.entries)
        ELSE fault.target \cup
             (before \ Reachable(devices \ fault.target, links \ LinksOf(links, fault.target),
                                 base.entries))

\* analyze: a slow or lossy link counts as a failed one, and states are not looked at.
Propagation(base, fault) ==
    IF ~Exists(base.network, fault) THEN Refused
    ELSE IF fault.kind = "service_down"
    THEN [fault |-> fault, devices |-> fault.target, links |-> {}]
    ELSE LET cut == CutOff(base, fault)
         IN  [fault |-> fault, devices |-> cut,
              links |-> LinksOf(DOMAIN base.network.link, cut)
                           \cup (IF fault.kind = "link" THEN {fault.target} ELSE {})]

Analyze ==
    /\ engine # None
    /\ \E fault \in Faults : study' = Propagation(engine, fault)
    /\ impact' = None
    /\ UNCHANGED <<twin, engine, analyzer>>

(***************************************************************************)
(* Impact                                                                  *)
(***************************************************************************)

\* Tenths.
Weight == [warning |-> 4, minor |-> 6, major |-> 8, critical |-> 10]

NewAnalyzer ==
    /\ analyzer' = Exported /\ impact' = None
    /\ UNCHANGED <<twin, engine, study>>

Offered(network, d) == {<<d, network.device[d].services[i]>> : i \in DOMAIN network.device[d].services}

Offers(network, devices) == UNION {Offered(network, d) : d \in devices}

\* The services of the affected devices as analyze lists them: one that a device names
\* twice is there twice, though the total counts it once.
Listed(network, d) == {<<d, i>> : i \in DOMAIN network.device[d].services}

Listings(network, devices) == Cardinality(UNION {Listed(network, d) : d \in devices})

\* 50 points for devices, 30 for services, 20 for links, weighted by the severity and
\* rounded to hundredths; a total of zero gives no points.
Score(network, result, severity) ==
    LET whole(n) == Larger(n, 1)
        d == whole(Cardinality(DOMAIN network.device))
        s == whole(Cardinality(Offers(network, DOMAIN network.device)))
        l == whole(Cardinality(DOMAIN network.link))
        listed == IF result.fault.kind = "service_down" THEN 1
                  ELSE Listings(network, result.devices)
        points == 50 * Cardinality(result.devices) * s * l + 30 * listed * d * l
                     + 20 * Cardinality(result.links) * d * s
        exact == 100 * Weight[severity] * points
    IN  LET scaled == (2 * exact + 10 * d * s * l) \div (20 * d * s * l)
        IN  IF scaled > 10000 THEN 10000 ELSE scaled

Level(score) ==
    IF score < 2500 THEN "low" ELSE IF score < 5000 THEN "medium"
    ELSE IF score < 7500 THEN "high" ELSE "critical"

\* A result with a device, a link or a service that the analyzer's copy lacks is refused.
Unknown(network, result) ==
    \/ ~(result.devices \subseteq DOMAIN network.device)
    \/ ~(result.links \subseteq DOMAIN network.link)
    \/ result.fault.kind = "service_down" /\ ~Exists(network, result.fault)

Assessments == [severity : DOMAIN Weight, score : Int, level : {"low", "medium", "high", "critical"}]
ASSUME RefusedAssumption == Refused \notin Assessments

Impact(network, result, severity) ==
    IF Unknown(network, result) THEN Refused
    ELSE LET score == Score(network, result, severity)
         IN  [severity |-> severity, score |-> score, level |-> Level(score)]

Assess ==
    /\ analyzer # None /\ study \notin {None, Refused}
    /\ \E severity \in DOMAIN Weight : impact' = Impact(analyzer, study, severity)
    /\ UNCHANGED <<twin, engine, analyzer, study>>

Next ==
    \/ AddDevice \/ AddLink \/ UpdateDevice \/ UpdateLink
    \/ NewEngine \/ Analyze \/ NewAnalyzer \/ Assess

Spec == Init /\ [][Next]_vars

--------------------------------------------------------------------------------
(***************************************************************************)
(* Properties                                                              *)
(***************************************************************************)

\* A way through the network: devices, none twice, each linked to the next.
Ways(devices, links) ==
    {way \in UNION {[1..n -> devices] : n \in 1..Cardinality(devices)} :
        /\ \A i, j \in DOMAIN way : way[i] = way[j] => i = j
        /\ \A i \in 1..(Len(way) - 1) : {way[i], way[i + 1]} \in links}

Passes(way, fault) ==
    IF fault.kind = "link" THEN \E i \in 1..(Len(way) - 1) : {way[i], way[i + 1]} = fault.target
    ELSE \E i \in DOMAIN way : way[i] \in fault.target

\* A device is affected when it has failed, or there are ways to it from the entries and
\* all of them pass through the fault; a link when one of its ends is or it has failed.
\* The failure of a link affects nothing that the failure of the end it cuts off leaves
\* alone (FaultPropagationEngine.analyze, against the ways one by one).
PropagationIsExact ==
    study \notin {None, Refused} /\ study.fault.kind # "service_down" =>
        LET fault == study.fault
            links == DOMAIN engine.network.link
            entering == {way \in Ways(DOMAIN engine.network.device, links) : way[1] \in engine.entries}
            to(d) == {way \in entering : way[Len(way)] = d}
            lost == {d \in DOMAIN engine.network.device :
                        to(d) # {} /\ \A way \in to(d) : Passes(way, fault)}
        IN  /\ study.devices = lost \cup (IF fault.kind = "link" THEN {} ELSE fault.target)
            /\ study.links = {l \in links : l = fault.target \/ \E d \in study.devices : d \in l}
            /\ \A d \in fault.target \cap study.devices :
                  LET failed == Propagation(engine, [kind |-> "device_down", target |-> {d}])
                  IN  study.devices \subseteq failed.devices /\ study.links \subseteq failed.links

\* Copies that bear the same time are of the same network, so an assessment of the
\* engine's result by an analyzer of the same time is never refused, and stays within the
\* share its severity grants unless a device names a service twice; a result that is at
\* least as large weighs at least as much (NetworkDigitalTwin._touch, ImpactAnalyzer.analyze).
ImpactIsConsistent ==
    /\ \A a, b \in {twin} \cup (IF engine = None THEN {} ELSE {engine.network})
                          \cup (IF analyzer = None THEN {} ELSE {analyzer}) :
          a.time = b.time => a = b
    /\ impact # None /\ engine.network.time = analyzer.time => impact # Refused
    /\ impact \notin {None, Refused} =>
          LET repeats == \E d \in DOMAIN analyzer.device :
                            Len(analyzer.device[d].services) > Cardinality(Offered(analyzer, d))
          IN  /\ impact.score <= IF repeats THEN 10000 ELSE 1000 * Weight[impact.severity]
              /\ \A d \in study.devices \cap DOMAIN engine.network.device :
                    LET failed == Propagation(engine, [kind |-> "device_down", target |-> {d}])
                    IN  study.devices \subseteq failed.devices /\ ~Unknown(analyzer, failed)
                        => impact.score <= Score(analyzer, failed, impact.severity)

================================================================================
