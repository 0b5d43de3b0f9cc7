---------------------------- MODULE GovernanceProofs ----------------------------
(***************************************************************************)
(* What the governance service promises, for any number of callers,        *)
(* incidents, facts and requests.  The stores only grow, so what a query   *)
(* saw is a prefix of what a later one sees; everything else follows from  *)
(* where each caller is and how far it had read.                           *)
(***************************************************************************)
EXTENDS Governance, FiniteSetTheorems, TLAPS

\* What the stores hold, entry by entry and among each other.
HistoryOK ==
    /\ \E entries : history \in Seq(entries)
    /\ \A n \in 1..Len(history) :
         history[n].key # <<>> <=> history[n].action = "security_event_created"
    /\ \A n \in 1..Len(history) :
         /\ history[n].store \in {"audit", "trace"}
         /\ history[n].store = "trace" <=> history[n].action = "Execute"
    /\ \A m, n \in 1..Len(history) :
         /\ history[m].action = "security_event_created"
         /\ history[m].incident = history[n].incident /\ history[m].key = history[n].key
         => m = n

\* The stores as a caller saw them, query after query.
SeenOK(seen, from) ==
    /\ seen \in Seq(Nat)
    /\ \A i \in DOMAIN seen : from <= seen[i] /\ seen[i] <= Len(history)
    /\ \A i, j \in DOMAIN seen : i <= j => seen[i] <= seen[j]

\* Nothing of the scope is lost between the pending events and those on record.
AuditCovered(scope, begun, pending) ==
    \A x \in FromAudit(scope, begun) :
        x \in pending \/ Records(history[x[1]].incident, x) # {}

FailuresCovered(scope, begun, pending) ==
    \A n \in Listed("trace", scope, begun) :
        history[n].action = "Execute" /\ history[n].outcome = "failed" =>
            \E k \in 1..Len(history) :
                /\ history[k].incident = history[n].incident
                /\ k = n \/ MapsTo(history[k], "repair_failed")
                /\ \/ <<k, "repair_failed">> \in pending
                   \/ Records(history[k].incident, <<k, "repair_failed">>) # {}

SyncOK(it, pending) ==
    /\ it.begun \in 0..Len(history)
    /\ AuditCovered(it.request.incident, it.begun, pending)
    /\ FailuresCovered(it.request.incident, it.begun, pending)

OpOK(it, asked) ==
    /\ it.pc \in {"idle", "reading", "recording", "done"}
    /\ it.pc # "idle" => it.request \in asked
    /\ it.pc = "reading" =>
         /\ it = [pc |-> "reading", request |-> it.request, begun |-> it.begun, seen |-> it.seen]
         /\ it.begun \in 0..Len(history) /\ SeenOK(it.seen, it.begun)
         /\ Len(it.seen) < Len(Steps(it.request.kind))
    /\ it.pc = "recording" /\ it.request.kind # "sync" =>
         /\ it.begun \in 0..Len(history) /\ SeenOK(it.seen, it.begun)
         /\ Len(it.seen) = Len(Steps(it.request.kind))
    /\ it.pc = "recording" /\ it.request.kind = "sync" =>
         /\ it = [pc |-> "recording", request |-> it.request, begun |-> it.begun,
                  pending |-> it.pending]
         /\ it.pending \subseteq (1..Len(history)) \X EventTypes
         /\ SyncOK(it, it.pending)
    /\ it.pc = "done" /\ it.request.kind = "sync" => SyncOK(it, {})
    /\ it.pc = "done" /\ it.request.kind = "report" =>
         SeenOK(it.seen, 0) /\ Len(it.seen) = Len(Steps(it.request.kind))

GovernanceInv ==
    /\ HistoryOK
    /\ DOMAIN op = Callers
    /\ \A c \in Callers : OpOK(op[c], Requests[c])

(***************************************************************************)
(* The stores grow                                                         *)
(***************************************************************************)

Grown ==
    /\ Len(history)' \in Nat /\ Len(history) \in Nat /\ Len(history) <= Len(history)'
    /\ \A n \in 1..Len(history) : history'[n] = history[n]

LEMMA Appended ==
    ASSUME HistoryOK, NEW e, history' = Append(history, e)
    PROVE  /\ \E entries : history' \in Seq(entries)
           /\ Len(history') = Len(history) + 1
           /\ history'[Len(history) + 1] = e /\ Grown
<1>1. PICK entries : history \in Seq(entries)
  BY DEF HistoryOK
<1>2. history \in Seq(entries \cup {e}) /\ e \in entries \cup {e}
  BY <1>1
<1>3. /\ history' \in Seq(entries \cup {e}) /\ Len(history') = Len(history) + 1
      /\ history'[Len(history) + 1] = e /\ Grown
  BY <1>2 DEF Grown
<1> QED
  BY <1>3

\* A fact without a key of its own, and an event that is not on record yet, may be added.
LEMMA HistoryAppended ==
    ASSUME HistoryOK, NEW e, history' = Append(history, e),
           e.store \in {"audit", "trace"}, e.store = "trace" <=> e.action = "Execute",
           e.key # <<>> <=> e.action = "security_event_created",
           e.action = "security_event_created" => ~Recorded(e.incident, e.key)
    PROVE  HistoryOK' /\ Grown
<1>1. /\ \E entries : history' \in Seq(entries)
      /\ Len(history') = Len(history) + 1
      /\ history'[Len(history) + 1] = e /\ Grown
  BY Appended
<1>2. Len(history) \in Nat /\ \A n \in 1..Len(history) : history'[n] = history[n]
  BY <1>1 DEF Grown
<1>3. \A n \in 1..Len(history') : n \in 1..Len(history) \/ n = Len(history) + 1
  BY <1>1, <1>2
<1>5. \A n \in 1..Len(history') :
        history'[n].key # <<>> <=> history'[n].action = "security_event_created"
  BY <1>1, <1>2, <1>3 DEF HistoryOK
<1>6. \A n \in 1..Len(history') :
        /\ history'[n].store \in {"audit", "trace"}
        /\ history'[n].store = "trace" <=> history'[n].action = "Execute"
  BY <1>1, <1>2, <1>3 DEF HistoryOK
<1>7. ASSUME NEW m \in 1..Len(history'), NEW n \in 1..Len(history'),
             history'[m].action = "security_event_created",
             history'[m].incident = history'[n].incident, history'[m].key = history'[n].key
      PROVE  m = n
  <2>0. history'[n].key # <<>> /\ history'[n].action = "security_event_created"
    BY <1>5, <1>7
  <2>1. CASE m \in 1..Len(history) /\ n \in 1..Len(history)
    BY <1>2, <1>7, <2>1 DEF HistoryOK
  <2>2. CASE m = Len(history) + 1 /\ n \in 1..Len(history)
    BY <1>1, <1>2, <1>7, <2>2 DEF Recorded
  <2>3. CASE m \in 1..Len(history) /\ n = Len(history) + 1
    BY <1>1, <1>2, <1>7, <2>0, <2>3 DEF Recorded
  <2> QED
    BY <1>3, <2>1, <2>2, <2>3
<1> QED
  BY <1>1, <1>5, <1>6, <1>7 DEF HistoryOK

\* What is listed, projected or on record in a prefix stays what it was.
LEMMA PrefixesStay ==
    ASSUME Grown, NEW scope, NEW length \in 0..Len(history)
    PROVE  /\ \A store : Listed(store, scope, length)' = Listed(store, scope, length)
           /\ FromAudit(scope, length)' = FromAudit(scope, length)
<1>1. \A n \in 1..length : history'[n] = history[n]
  BY DEF Grown
<1>2. \A store : Listed(store, scope, length)' = Listed(store, scope, length)
  BY <1>1 DEF Listed
<1>3. FromAudit(scope, length)' = FromAudit(scope, length)
  BY <1>1, <1>2 DEF FromAudit, Listed
<1> QED
  BY <1>2, <1>3

LEMMA RecordsStay ==
    ASSUME Grown, NEW incident, NEW k \in 1..Len(history), NEW type,
           Records(incident, <<k, type>>) # {}
    PROVE  Records(incident, <<k, type>>)' # {}
<1>1. PICK n \in 1..Len(history) :
        /\ history[n].incident = incident /\ history[n].action = "security_event_created"
        /\ history[n].key = <<history[k].store, k, type>>
  BY DEF Records
<1>2. history'[n] = history[n] /\ history'[k] = history[k] /\ n \in 1..Len(history')
  BY DEF Grown
<1> QED
  BY <1>1, <1>2 DEF Records

LEMMA ListedPairs ==
    ASSUME NEW scope, NEW length \in 0..Len(history), Len(history) \in Nat
    PROVE  /\ FromAudit(scope, length) \subseteq (1..Len(history)) \X EventTypes
           /\ \A store : Listed(store, scope, length) \subseteq 1..Len(history)
<1>1. \A store : Listed(store, scope, length) \subseteq 1..Len(history)
  BY DEF Listed
<1> QED
  BY <1>1 DEF FromAudit

\* A sync loses nothing while others write, nor while it puts on record what is pending.
LEMMA SyncStays ==
    ASSUME Grown, NEW it, NEW pending, NEW rest, SyncOK(it, pending),
           \A x \in pending : x \in rest \/ Records(history[x[1]].incident, x)' # {}
    PROVE  SyncOK(it, rest)'
<1>1. PICK scope, begun : scope = it.request.incident /\ begun = it.begun
  OBVIOUS
<1>2. begun \in 0..Len(history) /\ Len(history) \in Nat /\ begun \in 0..Len(history')
  BY <1>1 DEF SyncOK, Grown
<1>3. /\ FromAudit(scope, begun)' = FromAudit(scope, begun)
      /\ Listed("trace", scope, begun)' = Listed("trace", scope, begun)
  BY <1>2, PrefixesStay
<1>4. /\ FromAudit(scope, begun) \subseteq (1..Len(history)) \X EventTypes
      /\ Listed("trace", scope, begun) \subseteq 1..Len(history)
  BY <1>2, ListedPairs, Zenon
<1>5. \A n \in 1..Len(history) : history'[n] = history[n] /\ n \in 1..Len(history')
  BY DEF Grown
<1>6. AuditCovered(scope, begun, rest)'
  <2> SUFFICES ASSUME NEW x \in FromAudit(scope, begun)
               PROVE  x \in rest \/ Records(history[x[1]].incident, x)' # {}
    BY <1>3 DEF AuditCovered
  <2>1. PICK k \in 1..Len(history), type \in EventTypes : x = <<k, type>>
    BY <1>4
  <2>2. x \in pending \/ Records(history[k].incident, x) # {}
    BY <1>1, <2>1 DEF SyncOK, AuditCovered
  <2>3. CASE Records(history[k].incident, x) # {}
    BY <1>5, <2>1, <2>3, RecordsStay
  <2> QED
    BY <2>2, <2>3
<1>7. FailuresCovered(scope, begun, rest)'
  <2> SUFFICES ASSUME NEW n \in Listed("trace", scope, begun),
                      history[n].action = "Execute", history[n].outcome = "failed"
               PROVE  \E k \in 1..Len(history') :
                         /\ history'[k].incident = history[n].incident
                         /\ k = n \/ MapsTo(history'[k], "repair_failed")
                         /\ \/ <<k, "repair_failed">> \in rest
                            \/ Records(history[k].incident, <<k, "repair_failed">>)' # {}
    BY <1>3, <1>4, <1>5 DEF FailuresCovered
  <2>1. PICK k \in 1..Len(history) :
           /\ history[k].incident = history[n].incident
           /\ k = n \/ MapsTo(history[k], "repair_failed")
           /\ \/ <<k, "repair_failed">> \in pending
              \/ Records(history[k].incident, <<k, "repair_failed">>) # {}
    BY <1>1 DEF SyncOK, FailuresCovered
  <2>2. history'[k] = history[k] /\ k \in 1..Len(history')
    BY <1>5
  <2>3. \/ <<k, "repair_failed">> \in rest
        \/ Records(history[k].incident, <<k, "repair_failed">>)' # {}
    <3>1. CASE <<k, "repair_failed">> \in pending
      BY <3>1
    <3>2. CASE Records(history[k].incident, <<k, "repair_failed">>) # {}
      BY <2>2, <3>2, RecordsStay
    <3> QED
      BY <2>1, <3>1, <3>2
  <2> QED
    BY <2>1, <2>2, <2>3
<1> QED
  BY <1>1, <1>2, <1>6, <1>7 DEF SyncOK

LEMMA SeenStays ==
    ASSUME Grown, NEW seen, NEW from, SeenOK(seen, from)
    PROVE  SeenOK(seen, from)'
BY DEF SeenOK, Grown

(***************************************************************************)
(* Steps that do not write                                                 *)
(***************************************************************************)

\* An extension of the stores leaves every caller that does not move as it was.
LEMMA OthersStay ==
    ASSUME Grown, NEW it, NEW asked, OpOK(it, asked)
    PROVE  OpOK(it, asked)'
<1>1. Len(history) \in Nat /\ Len(history') \in Nat /\ Len(history) <= Len(history')
  BY DEF Grown
<1>2. CASE \/ it.pc \in {"idle", "reading"}
           \/ it.pc \in {"recording", "done"} /\ it.request.kind # "sync"
  BY <1>1, <1>2, SeenStays DEF OpOK
<1>3. CASE it.pc = "recording" /\ it.request.kind = "sync"
  <2>1. SyncOK(it, it.pending) /\ it.pending \subseteq (1..Len(history)) \X EventTypes
    BY <1>3 DEF OpOK
  <2>2. SyncOK(it, it.pending)'
    BY <2>1, SyncStays
  <2>3. it.pending \subseteq (1..Len(history')) \X EventTypes
    BY <1>1, <2>1
  <2> QED
    BY <1>3, <2>2, <2>3 DEF OpOK
<1>4. CASE it.pc = "done" /\ it.request.kind = "sync"
  <2>1. SyncOK(it, {})'
    BY <1>4, SyncStays DEF OpOK
  <2> QED
    BY <1>4, <2>1 DEF OpOK
<1>5. it.pc \in {"idle", "reading", "recording", "done"}
  BY DEF OpOK
<1> QED
  BY <1>2, <1>3, <1>4, <1>5

LEMMA Ungrown ==
    ASSUME HistoryOK, UNCHANGED history PROVE Grown /\ HistoryOK'
<1>1. Len(history) \in Nat
  BY DEF HistoryOK
<1> QED
  BY <1>1 DEF Grown, HistoryOK

LEMMA WriteOK == GovernanceInv /\ Write => GovernanceInv'
<1> SUFFICES ASSUME GovernanceInv, Write PROVE GovernanceInv'
  OBVIOUS
<1>1. PICK f \in Facts : history' = Append(history, f)
  BY DEF Write
<1>2. /\ f.key = <<>> /\ f.action # "security_event_created"
      /\ f.store \in {"audit", "trace"} /\ (f.store = "trace" <=> f.action = "Execute")
  BY FactsAssumption DEF Actions, FailedAuthentication
<1>3. HistoryOK' /\ Grown
  BY <1>1, <1>2, HistoryAppended DEF GovernanceInv
<1>4. op' = op
  BY DEF Write
<1> QED
  BY <1>3, <1>4, OthersStay DEF GovernanceInv

\* A step of one caller, with or without something written.
LEMMA CallerOK ==
    ASSUME GovernanceInv, HistoryOK', Grown, NEW c \in Callers, NEW it,
           op' = [op EXCEPT ![c] = it], OpOK(it, Requests[c])'
    PROVE  GovernanceInv'
<1>1. DOMAIN op' = Callers /\ op'[c] = it /\ \A d \in Callers \ {c} : op'[d] = op[d]
  BY DEF GovernanceInv
<1>2. \A d \in Callers \ {c} : OpOK(op[d], Requests[d])'
  BY <1>1, OthersStay DEF GovernanceInv
<1> QED
  BY <1>1, <1>2 DEF GovernanceInv

LEMMA Kinds ==
    \A c \in Callers : \A r \in Requests[c] : r.kind \in {"sync", "risk", "report"}
BY RequestsAssumption

LEMMA StepsOf ==
    /\ Steps("sync") = <<"events_audit", "events_spans">>
    /\ Steps("risk") = <<"denials", "events_audit", "events_spans">>
    /\ Steps("report") = <<"evidence", "timeline_spans", "timeline_audit", "events_audit",
                           "events_spans">>
BY DEF Steps

LEMMA BeginOK == \A c \in Callers : GovernanceInv /\ Begin(c) => GovernanceInv'
<1> SUFFICES ASSUME NEW c \in Callers, GovernanceInv, Begin(c) PROVE GovernanceInv'
  OBVIOUS
<1>0. PICK r \in Requests[c] :
        op' = [op EXCEPT ![c] = [pc |-> "reading", request |-> r, begun |-> Len(history),
                                 seen |-> <<>>]]
  BY DEF Begin
<1>1. PICK it : /\ it = [pc |-> "reading", request |-> r, begun |-> Len(history), seen |-> <<>>]
                /\ op' = [op EXCEPT ![c] = it]
  BY <1>0
<1>2. history' = history
  BY DEF Begin
<1>3. Grown /\ HistoryOK'
  BY <1>2, Ungrown DEF GovernanceInv
<1>4. Len(<<>>) < Len(Steps(r.kind))
  BY Kinds, StepsOf
<1>5. SeenOK(<<>>, Len(history))'
  BY DEF SeenOK
<1>6. Len(history) \in 0..Len(history)
  BY <1>3 DEF Grown
<1>7. OpOK(it, Requests[c])'
  BY <1>1, <1>2, <1>4, <1>5, <1>6 DEF OpOK
<1> QED
  BY <1>1, <1>3, <1>7, CallerOK

LEMMA RaiseOK == \A c \in Callers : GovernanceInv /\ Raise(c) => GovernanceInv'
<1> SUFFICES ASSUME NEW c \in Callers, GovernanceInv, Raise(c) PROVE GovernanceInv'
  OBVIOUS
<1>1. op' = [op EXCEPT ![c] = Resting] /\ history' = history
  BY DEF Raise
<1>2. OpOK(Resting, Requests[c])'
  BY DEF OpOK, Resting
<1> QED
  BY <1>1, <1>2, Ungrown, CallerOK DEF GovernanceInv

(***************************************************************************)
(* Steps that write                                                        *)
(***************************************************************************)

LEMMA RecordResultOK == \A c \in Callers : GovernanceInv /\ RecordResult(c) => GovernanceInv'
<1> SUFFICES ASSUME NEW c \in Callers, GovernanceInv, RecordResult(c) PROVE GovernanceInv'
  OBVIOUS
<1>0. PICK action \in {"risk_assessment_created", "compliance_report_generated"} :
        \E level, seen :
          /\ history' = Append(history, Entry(action, level, <<>>, op[c].request.incident))
          /\ seen = (IF op[c].request.kind = "risk" THEN <<>> ELSE op[c].seen)
          /\ op' = [op EXCEPT ![c] = [pc |-> "done", request |-> op[c].request, seen |-> seen]]
  BY DEF RecordResult
<1>1. PICK level, seen :
        /\ history' = Append(history, Entry(action, level, <<>>, op[c].request.incident))
        /\ seen = (IF op[c].request.kind = "risk" THEN <<>> ELSE op[c].seen)
        /\ op' = [op EXCEPT ![c] = [pc |-> "done", request |-> op[c].request, seen |-> seen]]
  BY <1>0
<1>2. PICK e : e = Entry(action, level, <<>>, op[c].request.incident)
  OBVIOUS
<1>3. /\ e.key = <<>> /\ e.action # "security_event_created"
      /\ e.store = "audit" /\ e.action # "Execute"
  BY <1>2 DEF Entry
<1>4. HistoryOK' /\ Grown
  BY <1>1, <1>2, <1>3, HistoryAppended DEF GovernanceInv
<1>5. PICK it : it = [pc |-> "done", request |-> op[c].request, seen |-> seen]
  OBVIOUS
<1>6. OpOK(op[c], Requests[c]) /\ op[c].pc = "recording" /\ op[c].request.kind # "sync"
  BY DEF GovernanceInv, RecordResult
<1>7. it.request.kind = "report" =>
        SeenOK(it.seen, 0)' /\ Len(it.seen) = Len(Steps(it.request.kind))
  <2> SUFFICES ASSUME op[c].request.kind = "report"
               PROVE  SeenOK(seen, 0)' /\ Len(seen) = Len(Steps(op[c].request.kind))
    BY <1>5
  <2>1. /\ SeenOK(seen, op[c].begun) /\ op[c].begun \in Nat
        /\ Len(seen) = Len(Steps(op[c].request.kind))
    BY <1>1, <1>6 DEF OpOK
  <2>2. SeenOK(seen, 0)
    BY <2>1 DEF SeenOK
  <2> QED
    BY <1>4, <2>1, <2>2, SeenStays
<1>8. OpOK(it, Requests[c])'
  BY <1>5, <1>6, <1>7 DEF OpOK
<1> QED
  BY <1>1, <1>4, <1>5, <1>8, CallerOK

LEMMA StillPending ==
    ASSUME NEW it, NEW asked, NEW from, NEW pending, NEW rest,
           it = [pc |-> "recording", request |-> asked, begun |-> from, pending |-> pending]
    PROVE  [it EXCEPT !.pending = rest]
              = [pc |-> "recording", request |-> asked, begun |-> from, pending |-> rest]
OBVIOUS

LEMMA KeyIsNotEmpty == \A a, b, c : <<a, b, c>> # <<>>
<1> SUFFICES ASSUME NEW a, NEW b, NEW c PROVE <<a, b, c>> # <<>>
  OBVIOUS
<1>1. Len(<<a, b, c>>) = 3 /\ Len(<<>>) = 0
  OBVIOUS
<1> QED
  BY <1>1

\* The order in which sync goes through its events does not matter here.
LEMMA RecordEventOK == \A c \in Callers : GovernanceInv /\ RecordEvent(c) => GovernanceInv'
<1> SUFFICES ASSUME NEW c \in Callers, GovernanceInv, RecordEvent(c) PROVE GovernanceInv'
  OBVIOUS
<1>1. /\ op[c].pc = "recording" /\ op[c].request.kind = "sync" /\ op[c].request \in Requests[c]
      /\ op[c] = [pc |-> "recording", request |-> op[c].request, begun |-> op[c].begun,
                  pending |-> op[c].pending]
      /\ op[c].pending \subseteq (1..Len(history)) \X EventTypes
      /\ SyncOK(op[c], op[c].pending)
  BY DEF GovernanceInv, RecordEvent, OpOK
<1>2. CASE op[c].pending = {}
  <2>1. PICK it : it = [pc |-> "done", request |-> op[c].request, begun |-> op[c].begun]
    OBVIOUS
  <2>2. op' = [op EXCEPT ![c] = it] /\ history' = history
    BY <1>2, <2>1 DEF RecordEvent
  <2>3. Grown /\ HistoryOK'
    BY <2>2, Ungrown DEF GovernanceInv
  <2>4. SyncOK(it, {})
    BY <1>1, <1>2, <2>1 DEF SyncOK
  <2>5. SyncOK(it, {})'
    BY <2>3, <2>4, SyncStays
  <2>6. OpOK(it, Requests[c])'
    BY <1>1, <2>1, <2>5 DEF OpOK
  <2> QED
    BY <2>2, <2>3, <2>6, CallerOK
<1>3. CASE op[c].pending # {}
  <2>1. PICK x \in op[c].pending :
          /\ op' = [op EXCEPT ![c].pending = @ \ {x}]
          /\ history' = IF Recorded(history[x[1]].incident, IdempotencyKey(x)) THEN history
                        ELSE Append(history, Entry("security_event_created", "none",
                                                   IdempotencyKey(x), history[x[1]].incident))
    BY <1>3 DEF RecordEvent
  <2>2. PICK k \in 1..Len(history), type \in EventTypes : x = <<k, type>>
    BY <1>1
  <2>3. PICK rest, it : /\ rest = op[c].pending \ {x}
                        /\ it = [pc |-> "recording", request |-> op[c].request,
                                 begun |-> op[c].begun, pending |-> rest]
    OBVIOUS
  <2>4. op' = [op EXCEPT ![c] = it]
    <3>1. [op[c] EXCEPT !.pending = rest] = it
      BY <1>1, <2>3, StillPending
    <3> QED
      BY <2>1, <2>3, <3>1
  <2>5. PICK e : e = Entry("security_event_created", "none", IdempotencyKey(x),
                           history[x[1]].incident)
    OBVIOUS
  <2>6. /\ e.key = <<history[k].store, k, type>> /\ e.key # <<>> /\ e.action = "security_event_created"
        /\ e.store = "audit" /\ e.incident = history[k].incident
        /\ IdempotencyKey(x) = <<history[k].store, k, type>>
    BY <2>2, <2>5, KeyIsNotEmpty DEF Entry, IdempotencyKey
  <2>7. HistoryOK' /\ Grown /\ Records(history[k].incident, x)' # {}
    <3>1. CASE Recorded(history[k].incident, IdempotencyKey(x))
      <4>1. history' = history
        BY <2>1, <2>2, <3>1
      <4>2. HistoryOK' /\ Grown
        BY <4>1, Ungrown DEF GovernanceInv
      <4>3. PICK n \in 1..Len(history) : /\ history[n].incident = history[k].incident
                                         /\ history[n].key = IdempotencyKey(x)
        BY <3>1 DEF Recorded
      <4>4. history[n].action = "security_event_created"
        BY <2>6, <4>3 DEF GovernanceInv, HistoryOK
      <4> QED
        BY <2>2, <2>6, <4>1, <4>2, <4>3, <4>4 DEF Records
    <3>2. CASE ~Recorded(history[k].incident, IdempotencyKey(x))
      <4>1. history' = Append(history, e)
        BY <2>1, <2>2, <2>5, <3>2
      <4>2. HistoryOK' /\ Grown
        BY <2>6, <3>2, <4>1, HistoryAppended DEF GovernanceInv
      <4>3. /\ Len(history') = Len(history) + 1 /\ history'[Len(history) + 1] = e
            /\ Len(history) + 1 \in 1..Len(history')
        BY <4>1, Appended DEF GovernanceInv, Grown
      <4>4. history'[k] = history[k]
        BY <4>2 DEF Grown
      <4> QED
        BY <2>2, <2>6, <4>2, <4>3, <4>4 DEF Records
    <3> QED
      BY <3>1, <3>2
  <2>8. SyncOK(it, rest)'
    <3>1. SyncOK(it, op[c].pending)
      BY <1>1, <2>3 DEF SyncOK
    <3>2. \A y \in op[c].pending : y \in rest \/ Records(history[y[1]].incident, y)' # {}
      <4> SUFFICES ASSUME NEW y \in op[c].pending, y \notin rest
                   PROVE  Records(history[y[1]].incident, y)' # {}
        OBVIOUS
      <4>1. y = x /\ x[1] = k
        BY <2>2, <2>3
      <4>2. history'[k] = history[k]
        BY <2>7 DEF Grown
      <4> QED
        BY <2>7, <4>1, <4>2
    <3> QED
      BY <2>7, <3>1, <3>2, SyncStays
  <2>9. it.pending \subseteq (1..Len(history')) \X EventTypes
    BY <1>1, <2>3, <2>7 DEF Grown
  <2>10. OpOK(it, Requests[c])'
    BY <1>1, <2>3, <2>8, <2>9 DEF OpOK
  <2> QED
    BY <2>4, <2>7, <2>10, CallerOK
<1> QED
  BY <1>2, <1>3

(***************************************************************************)
(* Steps that read                                                         *)
(***************************************************************************)

LEMMA SeenAtIs ==
    ASSUME NEW it
    PROVE  /\ it.request.kind = "sync" => /\ SeenAt(it, "events_audit") = it.seen[1]
                                         /\ SeenAt(it, "events_spans") = it.seen[2]
           /\ it.request.kind = "risk" => /\ SeenAt(it, "denials") = it.seen[1]
                                         /\ SeenAt(it, "events_audit") = it.seen[2]
                                         /\ SeenAt(it, "events_spans") = it.seen[3]
           /\ it.request.kind = "report" => /\ SeenAt(it, "evidence") = it.seen[1]
                                           /\ SeenAt(it, "timeline_spans") = it.seen[2]
                                           /\ SeenAt(it, "timeline_audit") = it.seen[3]
                                           /\ SeenAt(it, "events_audit") = it.seen[4]
                                           /\ SeenAt(it, "events_spans") = it.seen[5]
<1> DEFINE At(kind, name) ==
             CHOOSE i \in DOMAIN Steps(kind) : Steps(kind)[i] = name
<1>1. /\ DOMAIN Steps("sync") = 1..2 /\ DOMAIN Steps("risk") = 1..3
      /\ DOMAIN Steps("report") = 1..5
  BY StepsOf
<1>2. At("sync", "events_audit") = 1 /\ At("sync", "events_spans") = 2
  BY <1>1, StepsOf
<1>3. At("risk", "denials") = 1 /\ At("risk", "events_audit") = 2 /\ At("risk", "events_spans") = 3
  BY <1>1, StepsOf
<1>4. /\ At("report", "evidence") = 1 /\ At("report", "timeline_spans") = 2
      /\ At("report", "timeline_audit") = 3
  BY <1>1, StepsOf
<1>5. At("report", "events_audit") = 4 /\ At("report", "events_spans") = 5
  BY <1>1, StepsOf
<1>6. \A name : SeenAt(it, name) = it.seen[At(it.request.kind, name)]
  BY DEF SeenAt
<1> HIDE DEF At
<1> QED
  BY <1>2, <1>3, <1>4, <1>5, <1>6

\* What a projection holds: no fact of a shorter prefix is missing, and a failed execution
\* is there or stands behind an audited failure of its incident.
LEMMA ProjectedCovers ==
    ASSUME Len(history) \in Nat, NEW scope, NEW a \in 0..Len(history), NEW b \in 0..Len(history)
    PROVE  /\ Projected(scope, a, b) \subseteq (1..Len(history)) \X EventTypes
           /\ \A m \in 0..a : FromAudit(scope, m) \subseteq Projected(scope, a, b)
           /\ \A n \in Listed("trace", scope, b) :
                history[n].action = "Execute" /\ history[n].outcome = "failed" =>
                    \E k \in 1..Len(history) :
                        /\ history[k].incident = history[n].incident
                        /\ k = n \/ MapsTo(history[k], "repair_failed")
                        /\ <<k, "repair_failed">> \in Projected(scope, a, b)
<1>1. FromAudit(scope, a) \subseteq (1..Len(history)) \X EventTypes
  BY ListedPairs
<1>2. Listed("trace", scope, b) \subseteq 1..Len(history) /\ "repair_failed" \in EventTypes
  BY ListedPairs DEF EventTypes
<1>3. PICK repairs : repairs = {history[x[1]].incident :
                                 x \in {y \in FromAudit(scope, a) : y[2] = "repair_failed"}}
  OBVIOUS
<1>4. Projected(scope, a, b) = FromAudit(scope, a) \cup
        {<<n, "repair_failed">> :
            n \in {m \in Listed("trace", scope, b) :
                      /\ history[m].incident \notin repairs
                      /\ history[m].action = "Execute" /\ history[m].outcome = "failed"}}
  BY <1>3 DEF Projected
<1>5. Projected(scope, a, b) \subseteq (1..Len(history)) \X EventTypes
  BY <1>1, <1>2, <1>4
<1>6. ASSUME NEW m \in 0..a PROVE FromAudit(scope, m) \subseteq Projected(scope, a, b)
  <2>1. Listed("audit", scope, m) \subseteq Listed("audit", scope, a)
    BY DEF Listed
  <2>2. FromAudit(scope, m) \subseteq FromAudit(scope, a)
    BY <2>1 DEF FromAudit
  <2> QED
    BY <1>4, <2>2
<1>7. ASSUME NEW n \in Listed("trace", scope, b),
             history[n].action = "Execute", history[n].outcome = "failed"
      PROVE  \E k \in 1..Len(history) :
                /\ history[k].incident = history[n].incident
                /\ k = n \/ MapsTo(history[k], "repair_failed")
                /\ <<k, "repair_failed">> \in Projected(scope, a, b)
  <2>1. CASE history[n].incident \in repairs
    <3>1. PICK x \in FromAudit(scope, a) :
            x[2] = "repair_failed" /\ history[x[1]].incident = history[n].incident
      BY <1>3, <2>1
    <3>2. PICK k \in 1..Len(history), type \in EventTypes : x = <<k, type>>
      BY <1>1
    <3>3. MapsTo(history[k], "repair_failed")
      BY <3>1, <3>2 DEF FromAudit
    <3> QED
      BY <1>4, <3>1, <3>2, <3>3
  <2>2. CASE history[n].incident \notin repairs
    BY <1>2, <1>4, <1>7, <2>2
  <2> QED
    BY <2>1, <2>2
<1> QED
  BY <1>5, <1>6, <1>7

LEMMA SeenAppended ==
    ASSUME Len(history) \in Nat, NEW from \in 0..Len(history), NEW seen, SeenOK(seen, from),
           NEW more, more = Append(seen, Len(history))
    PROVE  SeenOK(more, from) /\ Len(more) = Len(seen) + 1
<1>1. more \in Seq(Nat) /\ Len(more) = Len(seen) + 1 /\ Len(seen) \in Nat
      /\ more[Len(seen) + 1] = Len(history)
      /\ \A i \in 1..Len(seen) : more[i] = seen[i]
  BY DEF SeenOK
<1>2. \A i \in DOMAIN more : i \in 1..Len(seen) \/ i = Len(seen) + 1
  BY <1>1
<1>3. DOMAIN seen = 1..Len(seen)
  BY DEF SeenOK
<1>4. \A i \in DOMAIN more : from <= more[i] /\ more[i] <= Len(history)
  BY <1>1, <1>2, <1>3 DEF SeenOK
<1>5. ASSUME NEW i \in DOMAIN more, NEW j \in DOMAIN more, i <= j PROVE more[i] <= more[j]
  <2>1. CASE j \in 1..Len(seen)
    BY <1>1, <1>2, <1>3, <1>5, <2>1 DEF SeenOK
  <2>2. CASE j = Len(seen) + 1
    BY <1>1, <1>4, <2>2
  <2> QED
    BY <1>2, <2>1, <2>2
<1> QED
  BY <1>1, <1>4, <1>5 DEF SeenOK

LEMMA AfterRead ==
    ASSUME NEW it, NEW asked, NEW from, NEW seen, NEW more, NEW read,
           it = [pc |-> "reading", request |-> asked, begun |-> from, seen |-> seen],
           read = [it EXCEPT !.seen = more]
    PROVE  read = [pc |-> "reading", request |-> asked, begun |-> from, seen |-> more]
OBVIOUS

LEMMA StepCounts ==
    Len(Steps("sync")) = 2 /\ Len(Steps("risk")) = 3 /\ Len(Steps("report")) = 5
BY StepsOf

LEMMA StepCount ==
    ASSUME NEW kind \in {"sync", "risk", "report"}
    PROVE  Len(Steps(kind)) \in Nat /\ (kind = "sync" => Len(Steps(kind)) = 2)
<1>1. CASE kind = "sync"
  BY <1>1, StepCounts
<1>2. CASE kind = "risk"
  BY <1>2, StepCounts
<1>3. CASE kind = "report"
  BY <1>3, StepCounts
<1> QED
  BY <1>1, <1>2, <1>3

LEMMA ReadOK == \A c \in Callers : GovernanceInv /\ Read(c) => GovernanceInv'
<1> SUFFICES ASSUME NEW c \in Callers, GovernanceInv, Read(c) PROVE GovernanceInv'
  OBVIOUS
<1>1. history' = history /\ Grown /\ HistoryOK' /\ Len(history) \in Nat
  BY Ungrown DEF GovernanceInv, Read, Grown
<1>2. PICK asked, from, seen, more :
        asked = op[c].request /\ from = op[c].begun /\ seen = op[c].seen
        /\ more = Append(seen, Len(history))
  OBVIOUS
<1>3. /\ op[c] = [pc |-> "reading", request |-> asked, begun |-> from, seen |-> seen]
      /\ asked \in Requests[c] /\ from \in 0..Len(history) /\ SeenOK(seen, from)
      /\ Len(seen) < Len(Steps(asked.kind))
  BY <1>2 DEF GovernanceInv, Read, OpOK
<1>4. asked.kind \in {"sync", "risk", "report"}
  BY <1>3, Kinds
<1>5. SeenOK(more, from) /\ Len(more) = Len(seen) + 1 /\ Len(seen) \in Nat
  <2>1. SeenOK(more, from) /\ Len(more) = Len(seen) + 1
    BY <1>1, <1>2, <1>3, SeenAppended
  <2> QED
    BY <1>3, <2>1 DEF SeenOK
<1>6. PICK count : /\ count = Len(Steps(asked.kind)) /\ count \in Nat
                   /\ asked.kind = "sync" => count = 2
  BY <1>4, StepCount
<1>6a. Len(seen) < count
  BY <1>3, <1>6, Zenon
<1>7. PICK read : read = [op[c] EXCEPT !.seen = Append(@, Len(history))]
  OBVIOUS
<1>8. read = [pc |-> "reading", request |-> asked, begun |-> from, seen |-> more]
  <2>1. read = [op[c] EXCEPT !.seen = more]
    BY <1>2, <1>7
  <2> QED
    BY <1>3, <2>1, AfterRead
<1>9. op' = [op EXCEPT ![c] =
               IF Len(more) < count THEN read
               ELSE IF asked.kind = "sync"
               THEN [pc |-> "recording", request |-> asked, begun |-> from,
                     pending |-> EventsSeen(read)]
               ELSE [read EXCEPT !.pc = "recording"]]
  <2>1. op' = [op EXCEPT ![c] =
                 IF Len(read.seen) < Len(Steps(read.request.kind)) THEN read
                 ELSE IF read.request.kind = "sync"
                 THEN [pc |-> "recording", request |-> read.request, begun |-> read.begun,
                       pending |-> EventsSeen(read)]
                 ELSE [read EXCEPT !.pc = "recording"]]
    BY <1>7, Zenon DEF Read
  <2>2. read.seen = more /\ read.request = asked /\ read.begun = from
    BY <1>8
  <2> QED
    BY <1>6, <2>1, <2>2, Zenon
<1>10. SeenOK(more, from)'
  BY <1>1, <1>5, SeenStays
<1>11. CASE Len(more) < count
  <2>1. OpOK(read, Requests[c])'
    <3>1. Len(more) < Len(Steps(asked.kind))
      BY <1>6, <1>11
    <3> QED
      BY <1>1, <1>3, <1>8, <1>10, <3>1 DEF OpOK
  <2> QED
    BY <1>1, <1>9, <1>11, <2>1, CallerOK
<1>12. CASE ~(Len(more) < count) /\ asked.kind # "sync"
  <2>1. PICK it : it = [pc |-> "recording", request |-> asked, begun |-> from, seen |-> more]
    OBVIOUS
  <2>2. op' = [op EXCEPT ![c] = it]
    <3>1. [read EXCEPT !.pc = "recording"] = it
      BY <1>8, <2>1
    <3> QED
      BY <1>9, <1>12, <3>1
  <2>3. Len(more) = Len(Steps(asked.kind))
    BY <1>5, <1>6, <1>12, <1>6a
  <2>4. OpOK(it, Requests[c])'
    BY <1>1, <1>3, <1>10, <1>12, <2>1, <2>3 DEF OpOK
  <2> QED
    BY <1>1, <2>2, <2>4, CallerOK
<1>13. CASE ~(Len(more) < count) /\ asked.kind = "sync"
  <2>1. PICK pending, it :
          /\ pending = EventsSeen(read)
          /\ it = [pc |-> "recording", request |-> asked, begun |-> from, pending |-> pending]
    OBVIOUS
  <2>2. op' = [op EXCEPT ![c] = it]
    BY <1>9, <1>13, <2>1
  <2>3. Len(more) = 2
    <3>1. PICK n : n = Len(seen)
      OBVIOUS
    <3>2. n \in Nat /\ n < 2 /\ ~(n + 1 < 2)
      BY <1>5, <1>6, <1>13, <1>6a, <3>1
    <3> QED
      BY <1>5, <3>1, <3>2
  <2>4. PICK a, b : a = more[1] /\ b = more[2]
    OBVIOUS
  <2>5. a \in from..Len(history) /\ b \in from..Len(history)
    <3>1. DOMAIN more = 1..2 /\ more[1] \in Nat /\ more[2] \in Nat
      <4>1. more \in Seq(Nat)
        BY <1>5 DEF SeenOK
      <4> QED
        BY <2>3, <4>1
    <3> QED
      BY <1>1, <1>3, <1>5, <2>4, <3>1 DEF SeenOK
  <2>6. pending = Projected(asked.incident, a, b)
    BY <1>8, <1>13, <2>1, <2>4, SeenAtIs DEF EventsSeen
  <2>7. a \in 0..Len(history) /\ b \in 0..Len(history) /\ from \in 0..a /\ from <= b
    BY <1>3, <2>5
  <2>8. /\ pending \subseteq (1..Len(history)) \X EventTypes
        /\ FromAudit(asked.incident, from) \subseteq pending
        /\ \A n \in Listed("trace", asked.incident, b) :
             history[n].action = "Execute" /\ history[n].outcome = "failed" =>
                 \E k \in 1..Len(history) :
                     /\ history[k].incident = history[n].incident
                     /\ k = n \/ MapsTo(history[k], "repair_failed")
                     /\ <<k, "repair_failed">> \in pending
    BY <1>1, <2>6, <2>7, ProjectedCovers
  <2>9. AuditCovered(asked.incident, from, pending)
    BY <2>8 DEF AuditCovered
  <2>10. Listed("trace", asked.incident, from) \subseteq Listed("trace", asked.incident, b)
    BY <1>3, <2>7 DEF Listed
  <2>11. FailuresCovered(asked.incident, from, pending)
    BY <2>8, <2>10 DEF FailuresCovered
  <2>12. SyncOK(it, pending)
    BY <1>3, <2>1, <2>9, <2>11 DEF SyncOK
  <2>13. SyncOK(it, pending)'
    BY <1>1, <2>12, SyncStays
  <2>14. OpOK(it, Requests[c])'
    BY <1>1, <1>3, <1>13, <2>1, <2>8, <2>13 DEF OpOK
  <2> QED
    BY <1>1, <2>2, <2>14, CallerOK
<1> QED
  BY <1>4, <1>11, <1>12, <1>13

(***************************************************************************)
(* The results                                                             *)
(***************************************************************************)

LEMMA InitOK == Init => GovernanceInv
<1> SUFFICES ASSUME Init PROVE GovernanceInv
  OBVIOUS
<1>1. history = <<>> /\ op = [c \in Callers |-> Resting]
  BY DEF Init
<1>2. HistoryOK
  BY <1>1 DEF HistoryOK
<1>3. \A asked : OpOK(Resting, asked)
  BY DEF OpOK, Resting
<1> QED
  BY <1>1, <1>2, <1>3 DEF GovernanceInv

LEMMA NextOK == GovernanceInv /\ [Next]_vars => GovernanceInv'
<1> SUFFICES ASSUME GovernanceInv, [Next]_vars PROVE GovernanceInv'
  OBVIOUS
<1>1. CASE Next
  BY <1>1, WriteOK, BeginOK, ReadOK, RecordEventOK, RecordResultOK, RaiseOK DEF Next
<1>2. CASE UNCHANGED vars
  <2>1. history' = history /\ op' = op
    BY <1>2 DEF vars
  <2>2. Grown /\ HistoryOK'
    BY <2>1, Ungrown DEF GovernanceInv
  <2> QED
    BY <2>1, <2>2, OthersStay DEF GovernanceInv
<1> QED
  BY <1>1, <1>2

LEMMA InvSync == GovernanceInv => SyncIsComplete
<1> SUFFICES ASSUME GovernanceInv PROVE SyncIsComplete
  OBVIOUS
<1>1. \A m, n \in 1..Len(history) :
        /\ history[m].action = "security_event_created"
        /\ history[m].incident = history[n].incident /\ history[m].key = history[n].key
        => m = n
  BY DEF GovernanceInv, HistoryOK
<1>2. ASSUME NEW c \in Done("sync")
      PROVE  /\ AuditCovered(op[c].request.incident, op[c].begun, {})
             /\ FailuresCovered(op[c].request.incident, op[c].begun, {})
  BY <1>2 DEF Done, GovernanceInv, OpOK, SyncOK
<1> QED
  BY <1>1, <1>2 DEF SyncIsComplete, AuditCovered, FailuresCovered

\* A longer prefix holds what a shorter one does.
LEMMA LongerHoldsMore ==
    ASSUME NEW m \in Nat, NEW n \in Nat, m <= n, NEW store, NEW scope
    PROVE  Listed(store, scope, m) \subseteq Listed(store, scope, n)
BY DEF Listed

LEMMA InvReport == GovernanceInv => ReportCoversItsEvidence
<1> SUFFICES ASSUME GovernanceInv, NEW c \in Done("report")
             PROVE  LET it == op[c]
                        incident == it.request.incident
                    IN  /\ EvidenceSeen(it) \subseteq Listed("audit", incident, SeenAt(it, "timeline_audit"))
                        /\ \A n \in EvidenceSeen(it), type \in EventTypes :
                             MapsTo(history[n], type) => <<n, type>> \in EventsSeen(it)
                        /\ (\E n \in Listed("trace", incident, SeenAt(it, "timeline_spans")) :
                               history[n].action = "Execute" /\ history[n].outcome = "failed")
                           => FailuresSeen(it) # {}
  BY DEF ReportCoversItsEvidence
<1>1. PICK it, incident : it = op[c] /\ incident = it.request.incident
  OBVIOUS
<1>2. SeenOK(it.seen, 0) /\ Len(it.seen) = 5 /\ it.request.kind = "report" /\ Len(history) \in Nat
  BY <1>1, StepCounts DEF Done, GovernanceInv, OpOK, HistoryOK
<1>3. PICK a, b, t, d, e : /\ a = it.seen[1] /\ b = it.seen[2] /\ t = it.seen[3]
                           /\ d = it.seen[4] /\ e = it.seen[5]
  OBVIOUS
<1>4. /\ a \in 0..Len(history) /\ b \in 0..Len(history) /\ t \in 0..Len(history)
      /\ d \in 0..Len(history) /\ e \in 0..Len(history)
      /\ a <= t /\ a <= d /\ b <= e
  <2>1. it.seen \in Seq(Nat) /\ DOMAIN it.seen = 1..5
    BY <1>2 DEF SeenOK
  <2> QED
    BY <1>2, <1>3, <2>1 DEF SeenOK
<1>5. /\ EvidenceSeen(it) = Listed("audit", incident, a)
      /\ SeenAt(it, "timeline_audit") = t /\ SeenAt(it, "timeline_spans") = b
      /\ EventsSeen(it) = Projected(incident, d, e)
  BY <1>1, <1>2, <1>3, SeenAtIs DEF EvidenceSeen, EventsSeen
<1>6. Listed("audit", incident, a) \subseteq Listed("audit", incident, t)
  BY <1>4, LongerHoldsMore
<1>7. a \in 0..d
  BY <1>4
<1>8. ASSUME NEW n \in Listed("audit", incident, a), NEW type \in EventTypes,
             MapsTo(history[n], type)
      PROVE  <<n, type>> \in Projected(incident, d, e)
  <2>1. <<n, type>> \in FromAudit(incident, a)
    BY <1>8 DEF FromAudit
  <2>2. FromAudit(incident, a) \subseteq Projected(incident, d, e)
    BY <1>2, <1>4, <1>7, ProjectedCovers
  <2> QED
    BY <2>1, <2>2
<1>9. ASSUME NEW n \in Listed("trace", incident, b),
             history[n].action = "Execute", history[n].outcome = "failed"
      PROVE  FailuresSeen(it) # {}
  <2>1. n \in Listed("trace", incident, e)
    BY <1>4, LongerHoldsMore
  <2>2. \E k \in 1..Len(history) : <<k, "repair_failed">> \in Projected(incident, d, e)
    BY <1>2, <1>4, <1>9, <2>1, ProjectedCovers
  <2> QED
    BY <1>5, <2>2 DEF FailuresSeen
<1> QED
  BY <1>1, <1>5, <1>6, <1>8, <1>9

LEMMA ScoreGrows ==
    ASSUME NEW operation \in Operations, NEW devices \in Nat,
           NEW denied \in Nat, NEW more \in Nat, denied <= more,
           NEW failures \in Nat, NEW others \in Nat, failures <= others
    PROVE  /\ Score(operation, devices, denied, failures) \in Nat
           /\ Score(operation, devices, more, others) \in Nat
           /\ Score(operation, devices, denied, failures)
                <= Score(operation, devices, more, others)
<1>1. PICK base : /\ base \in Nat
                  /\ base = CASE operation = "view_device_status" -> 10
                              [] operation = "create_repair_plan" -> 35
                              [] operation = "restart_device" -> 60
                              [] OTHER -> 80
  OBVIOUS
<1>2. PICK scope \in Nat : scope = IF devices >= 6 THEN 20 ELSE IF devices >= 2 THEN 10 ELSE 0
  OBVIOUS
<1>3. \A x, y \in Nat :
        Score(operation, devices, x, y)
          = Smaller(100, base + scope + Smaller(15, 5 * x) + Smaller(15, 5 * y))
  BY <1>1, <1>2 DEF Score
<1>4. \A x, y \in Nat : x <= y =>
        /\ Smaller(15, 5 * x) \in Nat /\ Smaller(15, 5 * y) \in Nat
        /\ Smaller(15, 5 * x) <= Smaller(15, 5 * y)
  BY DEF Smaller
<1>5. \A x, y \in Nat : x <= y =>
        /\ Smaller(100, x) \in Nat /\ Smaller(100, y) \in Nat /\ Smaller(100, x) <= Smaller(100, y)
  BY DEF Smaller
<1>6. PICK p, q, r, s :
        /\ p = Smaller(15, 5 * denied) /\ q = Smaller(15, 5 * more)
        /\ r = Smaller(15, 5 * failures) /\ s = Smaller(15, 5 * others)
  OBVIOUS
<1>7. p \in Nat /\ q \in Nat /\ r \in Nat /\ s \in Nat /\ p <= q /\ r <= s
  BY <1>4, <1>6
<1>8. /\ base + scope + p + r \in Nat /\ base + scope + q + s \in Nat
      /\ base + scope + p + r <= base + scope + q + s
  BY <1>1, <1>2, <1>7
<1>9. /\ Score(operation, devices, denied, failures) = Smaller(100, base + scope + p + r)
      /\ Score(operation, devices, more, others) = Smaller(100, base + scope + q + s)
  BY <1>3, <1>6
<1> QED
  BY <1>5, <1>8, <1>9

LEMMA LevelGrows ==
    ASSUME NEW m \in Nat, NEW n \in Nat, m <= n,
           NEW order, order = [low |-> 1, medium |-> 2, high |-> 3, critical |-> 4]
    PROVE  order[Level(n)] >= order[Level(m)]
<1>1. order["low"] = 1 /\ order["medium"] = 2 /\ order["high"] = 3 /\ order["critical"] = 4
  OBVIOUS
<1> QED
  BY <1>1 DEF Level

LEMMA FiniteCounts ==
    ASSUME NEW n \in Nat
    PROVE  /\ \A S \in SUBSET (1..n) : IsFiniteSet(S) /\ Cardinality(S) \in Nat
           /\ \A S \in SUBSET ((1..n) \X {"repair_failed"}) :
                IsFiniteSet(S) /\ Cardinality(S) \in Nat
<1>1. IsFiniteSet(1..n)
  BY FS_Interval
<1>2. IsFiniteSet({"repair_failed"})
  BY FS_Singleton
<1>3. IsFiniteSet((1..n) \X {"repair_failed"})
  BY <1>1, <1>2, FS_Product
<1> QED
  BY <1>1, <1>3, FS_Subset, FS_CardinalityType

LEMMA InvRisk == GovernanceInv => RiskSeesHistory
<1> SUFFICES ASSUME GovernanceInv, NEW c \in Callers,
                    op[c].pc = "recording", op[c].request.kind = "risk",
                    NEW denied, NEW least, NEW order,
                    denied = {n \in 1..op[c].begun :
                                Denial(history[n]) /\ history[n].actor = op[c].request.actor},
                    least = Level(Score(op[c].request.operation, op[c].request.devices,
                                        Cardinality(denied),
                                        IF \E n \in 1..op[c].begun :
                                             /\ history[n].incident = op[c].request.incident
                                             /\ history[n].action \in {"repair", "Execute"}
                                             /\ history[n].outcome = "failed"
                                        THEN 1 ELSE 0)),
                    order = [low |-> 1, medium |-> 2, high |-> 3, critical |-> 4]
             PROVE  order[RiskLevel(op[c])] >= order[least]
  BY DEF RiskSeesHistory
<1>1. PICK it, request, begun : it = op[c] /\ request = it.request /\ begun = it.begun
  OBVIOUS
<1>2. /\ begun \in 0..Len(history) /\ SeenOK(it.seen, begun) /\ Len(it.seen) = 3
      /\ request \in Requests[c] /\ request.kind = "risk" /\ Len(history) \in Nat
  BY <1>1, StepCounts DEF GovernanceInv, OpOK, HistoryOK
<1>3. PICK a, b, d : a = it.seen[1] /\ b = it.seen[2] /\ d = it.seen[3]
  OBVIOUS
<1>4. a \in begun..Len(history) /\ b \in begun..Len(history) /\ d \in begun..Len(history)
  <2>1. it.seen \in Seq(Nat) /\ DOMAIN it.seen = 1..3
    BY <1>2 DEF SeenOK
  <2> QED
    BY <1>2, <1>3, <2>1 DEF SeenOK
<1>5. /\ a \in 0..Len(history) /\ b \in 0..Len(history) /\ d \in 0..Len(history)
      /\ begun \in 0..b /\ begun <= a /\ begun <= d
  BY <1>2, <1>4
<1>6. PICK seen, failures : seen = Denials(request, a) /\ failures = FailuresSeen(it)
  OBVIOUS
<1>7. EventsSeen(it) = Projected(request.incident, b, d)
  BY <1>1, <1>2, <1>3, SeenAtIs DEF EventsSeen
<1>8. RiskLevel(it) = Level(Score(request.operation, request.devices,
                                  Cardinality(seen), Cardinality(failures)))
  BY <1>1, <1>2, <1>3, <1>6, SeenAtIs DEF RiskLevel
<1>9. denied \subseteq seen /\ seen \in SUBSET (1..Len(history))
  BY <1>1, <1>5, <1>6 DEF Denials, Listed, Denial
<1>10. Cardinality(denied) \in Nat /\ Cardinality(seen) \in Nat /\ Cardinality(denied) <= Cardinality(seen)
  <2>1. IsFiniteSet(seen) /\ Cardinality(seen) \in Nat /\ denied \in SUBSET (1..Len(history))
    BY <1>2, <1>9, FiniteCounts
  <2> QED
    BY <1>2, <1>9, <2>1, FiniteCounts, FS_Subset
<1>11. failures \in SUBSET ((1..Len(history)) \X {"repair_failed"})
  <2>1. Projected(request.incident, b, d) \subseteq (1..Len(history)) \X EventTypes
    BY <1>2, <1>5, ProjectedCovers
  <2> QED
    BY <1>6, <1>7, <2>1 DEF FailuresSeen
<1>12. IsFiniteSet(failures) /\ Cardinality(failures) \in Nat
  BY <1>2, <1>11, FiniteCounts
<1>13. PICK failed \in {0, 1} :
         failed = IF \E n \in 1..begun : /\ history[n].incident = request.incident
                                         /\ history[n].action \in {"repair", "Execute"}
                                         /\ history[n].outcome = "failed"
                  THEN 1 ELSE 0
  OBVIOUS
<1>14. failed <= Cardinality(failures)
  <2> SUFFICES ASSUME NEW n \in 1..begun, history[n].incident = request.incident,
                      history[n].action \in {"repair", "Execute"}, history[n].outcome = "failed"
               PROVE  1 <= Cardinality(failures)
    BY <1>12, <1>13
  <2>1. /\ history[n].store \in {"audit", "trace"} /\ n \in 1..Len(history)
        /\ history[n].store = "trace" <=> history[n].action = "Execute"
    BY <1>2 DEF GovernanceInv, HistoryOK
  <2>2. failures # {}
    <3>1. CASE history[n].action = "Execute"
      <4>1. n \in Listed("trace", request.incident, d)
        BY <1>5, <2>1, <3>1 DEF Listed
      <4>2. \E k \in 1..Len(history) : <<k, "repair_failed">> \in Projected(request.incident, b, d)
        BY <1>2, <1>5, <3>1, <4>1, ProjectedCovers
      <4> QED
        BY <1>6, <1>7, <4>2 DEF FailuresSeen
    <3>2. CASE history[n].action = "repair"
      <4>1. n \in Listed("audit", request.incident, begun)
        BY <2>1, <3>2 DEF Listed
      <4>2. MapsTo(history[n], "repair_failed") /\ "repair_failed" \in EventTypes
        BY <3>2 DEF MapsTo, EventTypes
      <4>3. <<n, "repair_failed">> \in FromAudit(request.incident, begun)
        BY <4>1, <4>2 DEF FromAudit
      <4>4. <<n, "repair_failed">> \in Projected(request.incident, b, d)
        BY <1>2, <1>5, <4>3, ProjectedCovers
      <4> QED
        BY <1>6, <1>7, <4>4 DEF FailuresSeen
    <3> QED
      BY <3>1, <3>2
  <2>3. Cardinality(failures) # 0
    BY <1>12, <2>2, FS_EmptySet
  <2> QED
    BY <1>12, <2>3
<1>15. request.operation \in Operations /\ request.devices \in Nat
  BY <1>2, RequestsAssumption
<1>16. PICK low, high : /\ low = Score(request.operation, request.devices, Cardinality(denied), failed)
                        /\ high = Score(request.operation, request.devices, Cardinality(seen),
                                        Cardinality(failures))
  OBVIOUS
<1>17. low \in Nat /\ high \in Nat /\ low <= high
  BY <1>10, <1>12, <1>13, <1>14, <1>15, <1>16, ScoreGrows
<1>18. order[Level(high)] >= order[Level(low)]
  BY <1>17, LevelGrows
<1>19. least = Level(low)
  BY <1>1, <1>13, <1>16
<1> QED
  BY <1>1, <1>8, <1>16, <1>18, <1>19

\* No event is recorded twice and none is lost, however many synchronise and whatever is
\* written or raises meanwhile (SecurityEventCenter.sync).
THEOREM SyncCompletes == Spec => []SyncIsComplete
BY InitOK, NextOK, InvSync, PTL DEF Spec

\* A report's timeline and events cover its evidence, though it reads the stores five times
\* while others write (ComplianceReportService.build).
THEOREM ReportCovers == Spec => []ReportCoversItsEvidence
BY InitOK, NextOK, InvReport, PTL DEF Spec

\* An assessment is at least what the history at its beginning warrants
\* (GovernanceService.calculate_risk, RiskScorer.assess).
THEOREM RiskIsWarranted == Spec => []RiskSeesHistory
BY InitOK, NextOK, InvRisk, PTL DEF Spec

================================================================================
