------------------------------- MODULE ApiKeys -------------------------------
(***************************************************************************)
(* The identity service with its API keys beside its sessions: one key is  *)
(* made, presented and revoked by the same calls, over the same store and  *)
(* against the same clock as the session of IdentitySessions.              *)
(*                                                                         *)
(* In Redis a key is a hash whose time to live is set by a second command, *)
(* and a revocation is three commands.  Unlike a session, a key is not     *)
(* written when it is found at its end: it is only refused.                *)
(***************************************************************************)
EXTENDS IdentitySessions

CONSTANT KeyLife  \* the lifetime of a key that has one

\* A credential that does not outlive its creation is refused.
ASSUME KeyLifeAssumption == KeyLife \in Nat \ {0}

VARIABLES
  key,     \* the key as the store has it
  keyCall  \* what each call does with the key and how it ended

serviceVars == <<vars, key, keyCall>>

\* A key is whole when its hash has all the fields of a credential; exp is 0 for a key
\* without an end; ttl says that Redis drops the key at its end.
KeyType == [status : {"none", "active", "revoked", "gone"}, exp : Nat,
            whole : BOOLEAN, ttl : BOOLEAN]
Key(status, exp, whole) == [status |-> status, exp |-> exp, whole |-> whole, ttl |-> FALSE]
NoKey   == Key("none", 0, FALSE)
GoneKey == Key("gone", 0, FALSE)

KeyPhases   == {"idle", "make", "expire", "answer", "fetch", "judge", "audit",
                "set", "exists", "hset", "reread", "closed"}
KeyCallType == [pc      : KeyPhases,
                op      : {"none", "create", "authenticate", "revoke"},
                exp     : Nat,       \* the end of the key a creation makes
                genuine : BOOLEAN,   \* the secret presented is the one that was handed out
                late    : BOOLEAN,   \* it began at the end of the key, or after a revocation
                                     \* was answered (history)
                seen    : KeyType,   \* the key an authentication read
                out     : Outcomes]
NoKeyCall == [pc |-> "idle", op |-> "none", exp |-> 0, genuine |-> FALSE, late |-> FALSE,
              seen |-> NoKey, out |-> "none"]

ServiceInit == Init /\ key = NoKey /\ keyCall = [c \in Calls |-> NoKeyCall]

Free(c)    == call[c].pc = "idle" /\ keyCall[c].pc = "idle"
KeyLive(c) == keyCall[c].pc \notin {"idle", "closed"}
Done(op)   == \E c \in Calls : keyCall[c].op = op /\ keyCall[c].pc = "closed"
                               /\ keyCall[c].out = "ok"

KeyUpdate(c, x)  == keyCall' = [keyCall EXCEPT ![c] = x]
KeyGo(c, pc)     == KeyUpdate(c, [keyCall[c] EXCEPT !.pc = pc])
KeyClose(c, out) == KeyUpdate(c, [keyCall[c] EXCEPT !.pc = "closed", !.out = out])

Over(exp) == exp # 0 /\ exp <= now
Late == Done("revoke") \/ \E c \in Calls : keyCall[c].op = "create" /\ Over(keyCall[c].exp)

Begin(c, x) == /\ Free(c)
               /\ KeyUpdate(c, [x EXCEPT !.late = Late])
               /\ UNCHANGED <<vars, key>>

(***************************************************************************)
(* Calls.  A key is presented and revoked once it was handed out.          *)
(***************************************************************************)
CreateKey(c) ==
  /\ \A d \in Calls : keyCall[d].op # "create"
  /\ \E exp \in {0, now + KeyLife} :
       Begin(c, [NoKeyCall EXCEPT !.pc = "make", !.op = "create", !.exp = exp])

AuthenticateKey(c) ==
  /\ Done("create")
  /\ \E genuine \in BOOLEAN :
       Begin(c, [NoKeyCall EXCEPT !.pc = "fetch", !.op = "authenticate", !.genuine = genuine])

RevokeKey(c) ==
  /\ Done("create")
  /\ Begin(c, [NoKeyCall EXCEPT !.pc = SetPhase, !.op = "revoke"])

(***************************************************************************)
(* create_api_key.  The identifier is fresh: no key is in its way.         *)
(***************************************************************************)
MakeKey(c) ==
  /\ keyCall[c].pc = "make"
  /\ key' = Key("active", keyCall[c].exp, TRUE)
  /\ KeyGo(c, IF store = "redis" /\ keyCall[c].exp # 0 THEN "expire" ELSE "answer")
  /\ UNCHANGED vars

\* EXPIREAT drops a key whose end is over at once.
ExpireKey(c) ==
  /\ keyCall[c].pc = "expire"
  /\ key' = IF key.exp <= now THEN GoneKey ELSE [key EXCEPT !.ttl = TRUE]
  /\ KeyGo(c, "answer")
  /\ UNCHANGED vars

AnswerKey(c) ==
  /\ keyCall[c].pc = "answer"
  /\ KeyClose(c, "ok")
  /\ UNCHANGED <<vars, key>>

(***************************************************************************)
(* authenticate_api_key: the key is read, judged, and the event recorded.  *)
(***************************************************************************)
\* The KeyError of an unknown key, or of a hash that is not whole, is a refusal.
FetchKey(c) ==
  /\ keyCall[c].pc = "fetch"
  /\ \/ ~key.whole /\ KeyUpdate(c, [keyCall[c] EXCEPT !.pc = "audit", !.out = "denied"])
     \/ key.whole /\ KeyUpdate(c, [keyCall[c] EXCEPT !.pc = "judge", !.seen = key])
  /\ UNCHANGED <<vars, key>>

\* Defect: the status of the credential is not looked at.
JudgeKey_NoStatus(c) ==
  /\ keyCall[c].pc = "judge"
  /\ KeyUpdate(c, [keyCall[c] EXCEPT !.pc = "audit",
                     !.out = IF keyCall[c].genuine /\ ~Over(keyCall[c].seen.exp)
                             THEN "ok" ELSE "denied"])
  /\ UNCHANGED <<vars, key>>

JudgeKey(c) ==
  /\ keyCall[c].pc = "judge"
  /\ KeyUpdate(c, [keyCall[c] EXCEPT !.pc = "audit",
                     !.out = IF /\ keyCall[c].seen.status = "active"
                                /\ ~Over(keyCall[c].seen.exp)
                                /\ keyCall[c].genuine
                             THEN "ok" ELSE "denied"])
  /\ UNCHANGED <<vars, key>>

AuditKey(c) ==
  /\ keyCall[c].pc = "audit"
  /\ KeyGo(c, "closed")
  /\ UNCHANGED <<vars, key>>

(***************************************************************************)
(* set_api_key_status, of a revocation.                                    *)
(***************************************************************************)
SetKeyStatus(c) ==
  /\ keyCall[c].pc = "set"
  /\ \/ ~key.whole /\ KeyClose(c, "denied") /\ UNCHANGED key
     \/ key.whole /\ KeyClose(c, "ok") /\ key' = [key EXCEPT !.status = "revoked"]
  /\ UNCHANGED vars

KeyExists(c) ==
  /\ keyCall[c].pc = "exists"
  /\ \/ key.status = "gone" /\ KeyClose(c, "denied")
     \/ key.status # "gone" /\ KeyGo(c, "hset")
  /\ UNCHANGED <<vars, key>>

\* HSET makes the key when it has vanished, with this field and no time to live.
KeyHSet(c) ==
  /\ keyCall[c].pc = "hset"
  /\ key' = [key EXCEPT !.status = "revoked"]
  /\ KeyGo(c, "reread")
  /\ UNCHANGED vars

KeyReread(c) ==
  /\ keyCall[c].pc = "reread"
  /\ KeyClose(c, IF key.whole THEN "ok" ELSE "denied")
  /\ UNCHANGED <<vars, key>>

(***************************************************************************)
(* The clock and the faults.                                               *)
(***************************************************************************)
KeyTick ==
  /\ Tick
  /\ key' = IF key.ttl /\ key.exp <= now' THEN GoneKey ELSE key
  /\ UNCHANGED keyCall

KeyFail(c) ==
  /\ "raise" \in Faults
  /\ \/ keyCall[c].pc = "audit"
     \/ store = "redis" /\ keyCall[c].pc \in {"make", "expire", "fetch", "exists", "hset", "reread"}
  /\ KeyClose(c, "error")
  /\ UNCHANGED <<vars, key>>

KeyRestart ==
  /\ "restart" \in Faults
  /\ Restart \/ (session.status = "none" /\ UNCHANGED vars)
  /\ keyCall' = [c \in Calls |->
                   IF KeyLive(c) THEN [keyCall[c] EXCEPT !.pc = "closed", !.out = "error"]
                                 ELSE keyCall[c]]
  /\ key' = IF store = "memory" /\ key # NoKey THEN GoneKey ELSE key

KeyStep(c) ==
  \/ MakeKey(c) \/ ExpireKey(c) \/ AnswerKey(c)
  \/ FetchKey(c) \/ JudgeKey(c) \/ AuditKey(c)
  \/ SetKeyStatus(c) \/ KeyExists(c) \/ KeyHSet(c) \/ KeyReread(c)
  \/ KeyFail(c)

SessionStep ==
  \/ IssueSession
  \/ \E c \in Calls : (Free(c) /\ Ask(c)) \/ Step(c) \/ Fail(c)

ServiceNext ==
  \/ SessionStep /\ UNCHANGED <<key, keyCall>>
  \/ \E c \in Calls : CreateKey(c) \/ AuthenticateKey(c) \/ RevokeKey(c) \/ KeyStep(c)
  \/ KeyTick
  \/ KeyRestart

ServiceSpec == ServiceInit /\ [][ServiceNext]_serviceVars

-----------------------------------------------------------------------------
\* A call got through with an API key only if it presented the secret that was handed out and
\* began before any revocation was answered and before the end of the key, over either store
\* and whatever commands failed, keys vanished and restarts came in between (identity.py:448-487).
KeyIsGood ==
  \A c \in Calls :
    keyCall[c].op = "authenticate" /\ keyCall[c].pc = "closed" /\ keyCall[c].out = "ok"
      => keyCall[c].genuine /\ ~keyCall[c].late

=============================================================================
