-------------------------- MODULE IdentitySessions --------------------------
(***************************************************************************)
(* The identity service over one session: refresh tokens that rotate,      *)
(* logouts, lookups and authentications that race in several threads or    *)
(* processes, over the in-memory store or over Redis.                      *)
(*                                                                         *)
(* The in-memory store does each operation under its lock.  Redis runs the *)
(* rotation as one script, but a change of status is four commands, and    *)
(* the keys of a session vanish when their time to live is over.           *)
(***************************************************************************)
EXTENDS Integers, Sequences, FiniteSets

CONSTANTS
  Calls,        \* slots for calls of the service: each is used once
  Stores,       \* the kinds of store a deployment may have
  MaxTime,      \* bound on the clock
  AccessLife,   \* the lifetime of an access token
  RefreshLife,  \* the lifetime of a refresh token
  Faults        \* the kinds of fault that may happen

ASSUME StoreAssumption == Stores \subseteq {"memory", "redis"}
ASSUME TimeAssumption == MaxTime \in Nat
\* A pair whose access token outlives its refresh token is refused.
ASSUME LifeAssumption == /\ AccessLife \in Nat \ {0} /\ RefreshLife \in Nat
                         /\ AccessLife < RefreshLife
ASSUME IdentityFaultAssumption == Faults \subseteq {"raise", "restart"}

VARIABLES
  store,    \* the kind of store
  now,      \* the clock
  session,  \* the session as the store has it
  current,  \* the refresh token whose hash the store has, 0 if none
  minted,   \* when each token pair was made
  call      \* what each call does and how it ended

vars == <<store, now, session, current, minted, call>>

\* A record without a lifetime is a Redis hash that only has a status.
Statuses == {"none", "active", "revoked", "expired", "gone"}
Sessions == [status : Statuses, exp : Nat]
NoSession == [status |-> "none", exp |-> 0]
Gone      == [status |-> "gone", exp |-> 0]

Ops      == {"none", "refresh", "authenticate", "lookup", "logout"}
Phases   == {"idle", "rotate", "read", "judge", "set", "exists", "hset", "del",
             "reread", "audit", "closed"}
Outcomes == {"none", "ok", "denied", "error"}
CallType == [pc      : Phases,
             op      : Ops,
             token   : Nat,       \* the pair whose refresh token is presented
             pair    : Nat,       \* the pair a refresh makes
             seen    : Sessions,  \* the session a lookup read
             rotated : BOOLEAN,   \* what rotate_refresh returned
             out     : Outcomes]
NoCall == [pc |-> "idle", op |-> "none", token |-> 0, pair |-> 0, seen |-> NoSession,
           rotated |-> FALSE, out |-> "none"]

TypeOK ==
  /\ store \in Stores
  /\ now \in 0 .. MaxTime
  /\ session \in Sessions
  /\ current \in Nat
  /\ minted \in Seq(Nat)
  /\ call \in [Calls -> CallType]

Init ==
  /\ store \in Stores
  /\ now = 0
  /\ session = NoSession
  /\ current = 0
  /\ minted = <<>>
  /\ call = [c \in Calls |-> NoCall]

Update(c, x)  == call' = [call EXCEPT ![c] = x]
Close(c, out) == Update(c, [call[c] EXCEPT !.pc = "closed", !.out = out])
Go(c, pc)     == Update(c, [call[c] EXCEPT !.pc = pc])
Live(c)       == call[c].pc \notin {"idle", "closed"}

AccessUntil(pair)  == minted[pair] + AccessLife
RefreshUntil(pair) == minted[pair] + RefreshLife

\* The pairs that were answered to a client.
Given == {pair \in 1 .. Len(minted) :
            \/ pair = 1
            \/ \E c \in Calls : call[c].pair = pair /\ call[c].out = "ok"}

\* How a change of status begins.
SetPhase == IF store = "memory" THEN "set" ELSE "exists"

(***************************************************************************)
(* Calls.  A token that does not verify is refused and changes nothing.    *)
(***************************************************************************)
IssueSession ==
  /\ session.status = "none"
  /\ minted' = <<now>>
  /\ session' = [status |-> "active", exp |-> now + RefreshLife]
  /\ current' = 1
  /\ UNCHANGED <<store, now, call>>

Refresh(c, token) ==
  /\ call[c].pc = "idle"
  /\ now < RefreshUntil(token)
  /\ minted' = Append(minted, now)
  /\ Update(c, [NoCall EXCEPT !.pc = "rotate", !.op = "refresh", !.token = token,
                              !.pair = Len(minted) + 1])
  /\ UNCHANGED <<store, now, session, current>>

AuthenticateAccessToken(c, token) ==
  /\ call[c].pc = "idle"
  /\ now < AccessUntil(token)
  /\ Update(c, [NoCall EXCEPT !.pc = "read", !.op = "authenticate"])
  /\ UNCHANGED <<store, now, session, current, minted>>

GetSession(c) ==
  /\ call[c].pc = "idle" /\ session.status # "none"
  /\ Update(c, [NoCall EXCEPT !.pc = "read", !.op = "lookup"])
  /\ UNCHANGED <<store, now, session, current, minted>>

Logout(c) ==
  /\ call[c].pc = "idle" /\ session.status # "none"
  /\ Update(c, [NoCall EXCEPT !.pc = SetPhase, !.op = "logout"])
  /\ UNCHANGED <<store, now, session, current, minted>>

(***************************************************************************)
(* rotate_refresh: one step in both stores.  A token that is not the       *)
(* current one has been used before and ends the session.                  *)
(***************************************************************************)
Rotated(c) == Update(c, [call[c] EXCEPT !.pc = "audit", !.rotated = TRUE])

\* Defect: the hash of the spent token stays.
Rotate_KeepHash(c) ==
  /\ call[c].pc = "rotate"
  /\ \/ /\ session.status = "active" /\ current = call[c].token
        /\ session' = [session EXCEPT !.exp = RefreshUntil(call[c].pair)]
        /\ Rotated(c)
        /\ UNCHANGED current
     \/ /\ session.status # "active" \/ current # call[c].token
        /\ Close(c, "denied")
        /\ UNCHANGED <<session, current>>
  /\ UNCHANGED <<store, now, minted>>

\* Defect: the session is written back as it was made, without a look at its status.
Rotate_Revive(c) ==
  /\ call[c].pc = "rotate"
  /\ \/ /\ current = call[c].token
        /\ session' = [status |-> "active", exp |-> RefreshUntil(call[c].pair)]
        /\ current' = call[c].pair
        /\ Rotated(c)
     \/ /\ current # call[c].token
        /\ session' = [session EXCEPT !.status = "revoked"]
        /\ current' = 0
        /\ Close(c, "denied")
  /\ UNCHANGED <<store, now, minted>>

\* Defect: a used token is refused and nothing more.
Rotate_NoRevoke(c) ==
  /\ call[c].pc = "rotate"
  /\ \/ /\ session.status = "active" /\ current = call[c].token
        /\ session' = [session EXCEPT !.exp = RefreshUntil(call[c].pair)]
        /\ current' = call[c].pair
        /\ Rotated(c)
     \/ /\ session.status # "active" \/ current # call[c].token
        /\ Close(c, "denied")
        /\ UNCHANGED <<session, current>>
  /\ UNCHANGED <<store, now, minted>>

\* Defect: the session keeps its first lifetime.
Rotate_NoExtend(c) ==
  /\ call[c].pc = "rotate" /\ session.status = "active" /\ current = call[c].token
  /\ current' = call[c].pair
  /\ Rotated(c)
  /\ UNCHANGED <<store, now, session, minted>>

Rotate(c) ==
  /\ call[c].pc = "rotate"
  /\ \/ /\ session.status # "active"
        /\ Close(c, "denied")
        /\ UNCHANGED <<session, current>>
     \/ /\ session.status = "active" /\ current # call[c].token
        /\ session' = [session EXCEPT !.status = "revoked"]
        /\ current' = 0
        /\ Close(c, "denied")
     \/ /\ session.status = "active" /\ current = call[c].token
        /\ session' = [session EXCEPT !.exp = RefreshUntil(call[c].pair)]
        /\ current' = call[c].pair
        /\ Rotated(c)
  /\ UNCHANGED <<store, now, minted>>

(***************************************************************************)
(* get_session: the store is read, then the clock; a session found at the  *)
(* end of its lifetime is set to expired.                                  *)
(***************************************************************************)
\* The key is there, with the fields a session is made of.
Known == session.exp # 0

ReadSession(c) ==
  /\ call[c].pc = "read"
  /\ \/ ~Known /\ Close(c, "denied")
     \/ Known /\ Update(c, [call[c] EXCEPT !.pc = "judge", !.seen = session])
  /\ UNCHANGED <<store, now, session, current, minted>>

\* A lookup answers the session whatever its status.
Verdict(op, status) == IF op = "lookup" \/ status = "active" THEN "ok" ELSE "denied"

JudgeSession(c) ==
  LET seen == call[c].seen
      over == seen.status = "active" /\ seen.exp <= now
  IN /\ call[c].pc = "judge"
     /\ \/ over /\ Go(c, SetPhase)
        \/ ~over /\ Close(c, Verdict(call[c].op, seen.status))
     /\ UNCHANGED <<store, now, session, current, minted>>

(***************************************************************************)
(* set_session_status, of a logout or of a lookup that found the end.      *)
(***************************************************************************)
Target(c) == IF call[c].op = "logout" THEN "revoked" ELSE "expired"

\* The KeyError of an unknown session: a logout answers it as a failed authentication,
\* a lookup does not catch it.
Unknown(c) == Close(c, IF call[c].op = "logout" THEN "denied" ELSE "error")

Changed(c) == IF call[c].op = "logout" THEN Go(c, "audit")
              ELSE Close(c, Verdict(call[c].op, "expired"))

\* The in-memory store keeps the hash.
SetStatus(c) ==
  /\ call[c].pc = "set"
  /\ \/ /\ session.status = "gone"
        /\ Unknown(c)
        /\ UNCHANGED session
     \/ /\ session.status # "gone"
        /\ session' = [session EXCEPT !.status = Target(c)]
        /\ Changed(c)
  /\ UNCHANGED <<store, now, current, minted>>

Exists(c) ==
  /\ call[c].pc = "exists"
  /\ \/ session.status = "gone" /\ Unknown(c)
     \/ session.status # "gone" /\ Go(c, "hset")
  /\ UNCHANGED <<store, now, session, current, minted>>

\* HSET makes the key when it has vanished, with this field and no time to live.
HSet(c) ==
  /\ call[c].pc = "hset"
  /\ session' = [session EXCEPT !.status = Target(c)]
  /\ Go(c, "del")
  /\ UNCHANGED <<store, now, current, minted>>

DeleteRefresh(c) ==
  /\ call[c].pc = "del"
  /\ current' = 0
  /\ Go(c, "reread")
  /\ UNCHANGED <<store, now, session, minted>>

Reread(c) ==
  /\ call[c].pc = "reread"
  /\ \/ ~Known /\ Unknown(c)
     \/ Known /\ Changed(c)
  /\ UNCHANGED <<store, now, session, current, minted>>

\* The event of a success is recorded, then the call answers.
Audit(c) ==
  /\ call[c].pc = "audit"
  /\ Close(c, "ok")
  /\ UNCHANGED <<store, now, session, current, minted>>

(***************************************************************************)
(* The clock and the faults.                                               *)
(***************************************************************************)

\* Redis drops both keys of a session at the end of its lifetime.
Tick ==
  /\ now < MaxTime
  /\ now' = now + 1
  /\ IF store = "redis" /\ session.exp # 0 /\ session.exp <= now'
     THEN session' = Gone /\ current' = 0
     ELSE UNCHANGED <<session, current>>
  /\ UNCHANGED <<store, minted, call>>

\* The audit log or a command to Redis fails.
Fail(c) ==
  /\ "raise" \in Faults
  /\ \/ call[c].pc = "audit"
     \/ store = "redis" /\ call[c].pc \in {"rotate", "read", "exists", "hset", "del", "reread"}
  /\ Close(c, "error")
  /\ UNCHANGED <<store, now, session, current, minted>>

\* The process starts again: its calls are lost, and so is what it kept in memory.
Restart ==
  /\ "restart" \in Faults
  /\ session.status # "none"
  /\ call' = [c \in Calls |-> IF Live(c) THEN [call[c] EXCEPT !.pc = "closed", !.out = "error"]
                                         ELSE call[c]]
  /\ IF store = "memory" THEN session' = Gone /\ current' = 0
                         ELSE UNCHANGED <<session, current>>
  /\ UNCHANGED <<store, now, minted>>

Ask(c) ==
  \/ \E token \in Given : Refresh(c, token) \/ AuthenticateAccessToken(c, token)
  \/ GetSession(c)
  \/ Logout(c)

Step(c) ==
  \/ Rotate(c) \/ ReadSession(c) \/ JudgeSession(c) \/ SetStatus(c) \/ Exists(c)
  \/ HSet(c) \/ DeleteRefresh(c) \/ Reread(c) \/ Audit(c)

Next ==
  \/ IssueSession
  \/ \E c \in Calls : Ask(c) \/ Step(c) \/ Fail(c)
  \/ Tick
  \/ Restart

Spec == Init /\ [][Next]_vars

-----------------------------------------------------------------------------
(***************************************************************************)
(* What the service must do.                                               *)
(***************************************************************************)
Phase == IF session.status = "none" THEN "absent"
         ELSE IF session.status = "active" THEN "live" ELSE "over"
Usable == IF session.status = "active" THEN current ELSE 0
Spent  == {call[c].token : c \in {d \in Calls : call[d].rotated}}

Lifecycle == INSTANCE SessionLifecycle WITH
               phase <- Phase, current <- Usable, spent <- Spent

\* Every store keeps the promised lifecycle: a token is exchanged at most once, and a
\* session that was revoked, expired or dropped is never active again.
KeepsLifecycle == Lifecycle!Spec

\* A refresh token that two calls brought to the store, in whatever order and however
\* they were answered, has ended its session (docs/architecture.md:211-213).
Presented(c) == call[c].op = "refresh" /\ (call[c].rotated \/ call[c].out = "denied")
ReuseRevokes ==
  \A c, d \in Calls :
    c # d /\ Presented(c) /\ Presented(d) /\ call[c].token = call[d].token
      => session.status # "active"

\* After a logout was answered the session is never active again, whatever refresh
\* was under way (identity.py:411-418).
LogoutIsFinal ==
  (\E c \in Calls : call[c].op = "logout" /\ call[c].out = "ok") => session.status # "active"

\* An active session has one refresh token and lives exactly as long as that token
\* (identity.py:143-145, 224-227).
LifetimesAgree ==
  session.status = "active" =>
    current \in 1 .. Len(minted) /\ session.exp = RefreshUntil(current)

=============================================================================
