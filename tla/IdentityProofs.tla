--------------------------- MODULE IdentityProofs ---------------------------
(***************************************************************************)
(* Over either store, with any number of concurrent calls, failing         *)
(* commands, vanishing keys and restarts, the identity service keeps the   *)
(* promised lifecycle, and a reuse or a logout ends the session for good.  *)
(*                                                                         *)
(* The argument: a pair that is made differs from every pair before it, so *)
(* the token that a rotation installs was never current nor spent; and     *)
(* only the issue makes a session active.                                  *)
(*                                                                         *)
(* An API key that was revoked or is over is never accepted again: one     *)
(* call makes it and the others come when it was handed out, so nothing    *)
(* is left that could make it active.                                      *)
(***************************************************************************)
EXTENDS ApiKeys, SequenceTheorems, TLAPS

\* What a call has done that is possible only when the session is over.
Ended(x) == \/ x.pc \in {"del", "reread"}
            \/ x.op = "logout" /\ (x.pc = "audit" \/ x.out = "ok")
            \/ x.op = "refresh" /\ x.out = "denied"

SessionOK ==
  /\ current \in 0 .. Len(minted)
  /\ session.status = "none" => /\ session.exp = 0 /\ minted = <<>>
                               /\ \A c \in Calls : call[c].pc = "idle"
  /\ LifetimesAgree

\* The steps of each operation.
OnTrack(x) == /\ x.op = "refresh" => x.pc \in {"rotate", "audit", "closed"}
              /\ x.op = "logout" => x.pc \notin {"read", "judge"}

CallOK(x) ==
  /\ x.pc = "idle" => x = NoCall
  /\ x.token \in 0 .. Len(minted) /\ x.pair \in 0 .. Len(minted)
  /\ x.pc = "rotate" => x.op = "refresh" /\ ~x.rotated /\ x.pair # 0
  /\ x.rotated => x.op = "refresh"
  /\ OnTrack(x)
  /\ Ended(x) => session.status # "active"

\* A pair that waits for its rotation is new to the store.
FreshPair(c) ==
  call[c].pc = "rotate" =>
    /\ call[c].pair # current
    /\ \A d \in Calls \ {c} : call[d].pair # call[c].pair
    /\ \A d \in Calls : call[d].rotated => call[d].token # call[c].pair

SpentOnce ==
  /\ current # 0 => \A c \in Calls : call[c].rotated => call[c].token # current
  /\ \A c, d \in Calls : c # d /\ call[c].rotated /\ call[d].rotated
                           => call[c].token # call[d].token

IInv == /\ TypeOK /\ SessionOK /\ SpentOnce
        /\ \A c \in Calls : CallOK(call[c]) /\ FreshPair(c)

-----------------------------------------------------------------------------
LEMMA NoCallOK == /\ NoCall \in CallType /\ NoSession \in Sessions /\ Gone \in Sessions
                  /\ NoCall.pc = "idle" /\ NoCall.op = "none" /\ NoCall.out = "none"
                  /\ NoCall.token = 0 /\ NoCall.pair = 0 /\ NoCall.rotated = FALSE
                  /\ NoSession.status = "none" /\ Gone.status = "gone"
BY DEF NoCall, CallType, NoSession, Gone, Sessions, Statuses, Ops, Phases, Outcomes

\* A step of one call that makes no pair and rotates nothing: the session stays as it
\* is or ends, and the abstract lifecycle ends or stutters with it.
LEMMA CallStep ==
  ASSUME IInv, NEW c \in Calls, NEW x \in CallType, Update(c, x),
         UNCHANGED <<store, now, minted>>,
         session' \in Sessions, session.status # "none", session'.status # "none",
         session'.status = "active" => session' = session /\ current' = current,
         current' \in {current, 0},
         x.pc \notin {"idle", "rotate"}, x.token = call[c].token, x.pair = call[c].pair,
         x.rotated = call[c].rotated, x.rotated => x.op = "refresh",
         OnTrack(x), Ended(x) => session'.status # "active"
  PROVE  IInv' /\ [Lifecycle!Next]_Lifecycle!vars
<1>1. /\ call' = [call EXCEPT ![c] = x] /\ call'[c] = x
      /\ \A d \in Calls \ {c} : call'[d] = call[d]
      /\ \A d \in Calls : /\ call'[d].token = call[d].token /\ call'[d].pair = call[d].pair
                          /\ call'[d].rotated = call[d].rotated
                          /\ call'[d].pc = "rotate" => call[d].pc = "rotate"
  BY DEF IInv, TypeOK, Update
<1>2. TypeOK'
  BY <1>1 DEF IInv, TypeOK
<1>3. SessionOK'
  BY DEF IInv, TypeOK, SessionOK, LifetimesAgree, RefreshUntil
<1>4. SpentOnce'
  BY <1>1 DEF IInv, SpentOnce
<1>5. ASSUME NEW d \in Calls PROVE CallOK(call[d])'
  <2>1. CASE d = c
    BY <1>1, <2>1 DEF IInv, CallOK, OnTrack, Ended
  <2>2. CASE d # c
    BY <1>1, <2>2 DEF IInv, CallOK, OnTrack, Ended
  <2> QED BY <2>1, <2>2
<1>6. ASSUME NEW d \in Calls PROVE FreshPair(d)'
  <2>1. FreshPair(d) /\ CallOK(call[d])
    BY DEF IInv
  <2> QED BY <1>1, <2>1 DEF FreshPair, CallOK
<1>7. Spent' = Spent
  BY <1>1 DEF Spent
<1>8. [Lifecycle!Next]_Lifecycle!vars
  <2>1. CASE session'.status = "active"
    BY <1>7, <2>1 DEF Phase, Usable, Lifecycle!vars
  <2>2. CASE session'.status # "active" /\ session.status = "active"
    BY <1>7, <2>2 DEF Phase, Usable, Lifecycle!Next, Lifecycle!End
  <2>3. CASE session'.status # "active" /\ session.status # "active"
    BY <1>7, <2>3 DEF Phase, Usable, Lifecycle!vars
  <2> QED BY <2>1, <2>2, <2>3
<1> QED BY <1>2, <1>3, <1>4, <1>5, <1>6, <1>8 DEF IInv

LEMMA IssueStep ==
  ASSUME IInv, IssueSession PROVE IInv' /\ [Lifecycle!Next]_Lifecycle!vars
<1> USE DEF IssueSession
<1>1. /\ \A c \in Calls : call[c] = NoCall
      /\ current = 0 /\ now \in Nat
  BY TimeAssumption DEF IInv, TypeOK, SessionOK, CallOK
<1>2. session' \in Sessions /\ session'.status = "active" /\ session'.exp = now + RefreshLife
  BY <1>1, LifeAssumption DEF Sessions, Statuses
<1>3. minted' \in Seq(Nat) /\ Len(minted') = 1 /\ minted'[1] = now
  BY <1>1
<1>4. TypeOK'
  BY <1>2, <1>3 DEF IInv, TypeOK
<1>5. SessionOK'
  BY <1>2, <1>3 DEF SessionOK, LifetimesAgree, RefreshUntil
<1>6. SpentOnce'
  BY <1>1, NoCallOK DEF SpentOnce
<1>7. ASSUME NEW c \in Calls PROVE (CallOK(call[c]) /\ FreshPair(c))'
  BY <1>1, <1>3, NoCallOK DEF CallOK, OnTrack, FreshPair, Ended
<1>8. Spent' = Spent
  BY DEF Spent
<1>9. Lifecycle!Issue
  BY <1>2, <1>8 DEF Phase, Usable, Lifecycle!Issue
<1> QED BY <1>4, <1>5, <1>6, <1>7, <1>9 DEF IInv, Lifecycle!Next

\* A refresh makes a pair that nobody has.
LEMMA RefreshStep ==
  ASSUME IInv, NEW c \in Calls, NEW token \in Given, Refresh(c, token)
  PROVE  IInv' /\ [Lifecycle!Next]_Lifecycle!vars
<1> DEFINE x == [NoCall EXCEPT !.pc = "rotate", !.op = "refresh", !.token = token,
                               !.pair = Len(minted) + 1]
<1>1. minted \in Seq(Nat) /\ Len(minted) \in Nat /\ now \in Nat /\ token \in 1 .. Len(minted)
  BY TimeAssumption DEF IInv, TypeOK, Given
<1>2. /\ x \in CallType /\ x.pc = "rotate" /\ x.op = "refresh" /\ x.token = token
      /\ x.pair = Len(minted) + 1 /\ x.rotated = FALSE /\ x.out = "none"
  <2>1. token \in Nat /\ Len(minted) + 1 \in Nat
    BY <1>1
  <2> QED BY <2>1, NoCallOK DEF CallType, Phases, Ops
<1>3. /\ call[c] = NoCall /\ call' = [call EXCEPT ![c] = x]
      /\ minted' = Append(minted, now)
      /\ UNCHANGED <<store, now, session, current>>
  BY DEF IInv, CallOK, Refresh, Update
<1> HIDE DEF x
<1>4. /\ minted' \in Seq(Nat) /\ Len(minted') = Len(minted) + 1
      /\ \A i \in 1 .. Len(minted) : minted'[i] = minted[i]
  BY <1>1, <1>3
<1>5. /\ call'[c] = x /\ \A d \in Calls \ {c} : call'[d] = call[d]
      /\ \A d \in Calls : call'[d].rotated = call[d].rotated
      /\ \A d \in Calls : call[d].rotated => call'[d] = call[d]
  BY <1>2, <1>3, NoCallOK DEF IInv, TypeOK
<1>6. session.status # "none"
  BY <1>1 DEF IInv, SessionOK
<1>7. TypeOK'
  BY <1>2, <1>3, <1>4 DEF IInv, TypeOK
<1>8. SessionOK'
  BY <1>1, <1>3, <1>4, <1>6 DEF IInv, TypeOK, SessionOK, LifetimesAgree, RefreshUntil
<1>9. SpentOnce'
  BY <1>3, <1>5 DEF IInv, SpentOnce
<1>10. ASSUME NEW d \in Calls PROVE CallOK(call[d])'
  <2>1. CASE d = c
    BY <1>1, <1>2, <1>4, <1>5, <2>1 DEF CallOK, OnTrack, Ended
  <2>2. CASE d # c
    BY <1>1, <1>3, <1>4, <1>5, <2>2 DEF IInv, CallOK, OnTrack, Ended
  <2> QED BY <2>1, <2>2
<1>11. \A d \in Calls : call[d].pair \in 0 .. Len(minted) /\ call[d].token \in 0 .. Len(minted)
  BY DEF IInv, CallOK
<1>12. ASSUME NEW d \in Calls PROVE FreshPair(d)'
  <2>1. CASE d = c
    BY <1>1, <1>2, <1>3, <1>5, <1>11, <2>1 DEF IInv, SessionOK, FreshPair
  <2>2. CASE d # c
    BY <1>1, <1>2, <1>3, <1>5, <1>11, <2>2 DEF IInv, FreshPair
  <2> QED BY <2>1, <2>2
<1>13. Spent' = Spent
  BY <1>5 DEF Spent
<1>14. UNCHANGED Lifecycle!vars
  BY <1>3, <1>13 DEF Phase, Usable, Lifecycle!vars
<1> QED BY <1>7, <1>8, <1>9, <1>10, <1>12, <1>14 DEF IInv

\* A rotation that succeeds spends the current token and installs a new one.
LEMMA RotatedStep ==
  ASSUME IInv, NEW c \in Calls, call[c].pc = "rotate",
         session.status = "active", current = call[c].token,
         session' = [session EXCEPT !.exp = RefreshUntil(call[c].pair)],
         current' = call[c].pair, Rotated(c), UNCHANGED <<store, now, minted>>
  PROVE  IInv' /\ [Lifecycle!Next]_Lifecycle!vars
<1> DEFINE x == [call[c] EXCEPT !.pc = "audit", !.rotated = TRUE]
<1>1. /\ call[c] \in CallType /\ CallOK(call[c]) /\ FreshPair(c)
      /\ minted \in Seq(Nat) /\ session \in Sessions
      /\ current \in 1 .. Len(minted)
  BY DEF IInv, TypeOK, SessionOK, LifetimesAgree
<1>2. /\ x \in CallType /\ x.pc = "audit" /\ x.rotated /\ x.op = "refresh"
      /\ x.token = call[c].token /\ x.pair = call[c].pair /\ x.out = call[c].out
  BY <1>1 DEF CallType, Phases, CallOK
<1>3. call' = [call EXCEPT ![c] = x]
  BY DEF Rotated, Update
<1> HIDE DEF x
<1>4. call'[c] = x /\ \A d \in Calls \ {c} : call'[d] = call[d]
  BY <1>3 DEF IInv, TypeOK
<1>5. call[c].pair \in 1 .. Len(minted) /\ minted[call[c].pair] \in Nat
  BY <1>1 DEF CallOK
<1>6. RefreshUntil(call[c].pair) \in Nat
  BY <1>5, LifeAssumption DEF RefreshUntil
<1>7. session' \in Sessions /\ session'.status = "active"
      /\ session'.exp = RefreshUntil(call[c].pair)
  BY <1>1, <1>6 DEF Sessions
<1>8. TypeOK'
  BY <1>2, <1>3, <1>5, <1>7 DEF IInv, TypeOK
<1>9. SessionOK'
  BY <1>5, <1>7 DEF SessionOK, LifetimesAgree, RefreshUntil
<1>10. \A d \in Calls : call[d].rotated => call[d].token # current /\ call[d].token # call[c].pair
  BY <1>1 DEF IInv, SpentOnce, FreshPair
<1>11. call[c].token # call[c].pair
  BY <1>1 DEF FreshPair
<1>12. ~call[c].rotated
  BY <1>1 DEF CallOK
<1>13. SpentOnce'
  BY <1>2, <1>4, <1>10, <1>11, <1>12 DEF IInv, SpentOnce
<1>14. ASSUME NEW d \in Calls PROVE CallOK(call[d])'
  <2>1. CASE d = c
    BY <1>1, <1>2, <1>4, <1>7, <2>1 DEF CallOK, OnTrack, Ended
  <2>2. CASE d # c
    BY <1>1, <1>4, <1>7, <2>2 DEF IInv, CallOK, OnTrack, Ended
  <2> QED BY <2>1, <2>2
<1>15. ASSUME NEW d \in Calls PROVE FreshPair(d)'
  <2>1. CASE d = c
    BY <1>2, <1>4, <2>1 DEF FreshPair
  <2>2. CASE d # c
    <3>1. FreshPair(d) /\ call'[d] = call[d]
      BY <1>4, <2>2 DEF IInv
    <3>2. \A e \in Calls : call'[e].pair = call[e].pair /\ call'[e].token = call[e].token
      BY <1>2, <1>4
    <3>3. \A e \in Calls \ {c} : call'[e].rotated = call[e].rotated
      BY <1>4
    <3>4. call[d].pc = "rotate" => call[d].pair # current /\ call[d].pair # call[c].pair
      BY <2>2, <3>1 DEF FreshPair
    <3>5. ASSUME NEW e \in Calls, call[d].pc = "rotate", call'[e].rotated
          PROVE  call[e].token # call[d].pair
      <4>1. CASE e = c
        BY <3>4, <3>5, <4>1
      <4>2. CASE e # c
        BY <3>1, <3>3, <3>5, <4>2 DEF FreshPair
      <4> QED BY <4>1, <4>2
    <3> QED BY <3>1, <3>2, <3>4, <3>5 DEF FreshPair
  <2> QED BY <2>1, <2>2
<1>16. Spent' = Spent \union {current}
  BY <1>2, <1>4, <1>12 DEF Spent
<1>17. current \notin Spent /\ call[c].pair \notin Spent
  BY <1>10 DEF Spent
<1>18. Lifecycle!Rotate
  BY <1>1, <1>5, <1>7, <1>11, <1>16, <1>17 DEF Phase, Usable, Lifecycle!Rotate
<1> QED BY <1>8, <1>9, <1>13, <1>14, <1>15, <1>18 DEF IInv, Lifecycle!Next

-----------------------------------------------------------------------------
\* The calls that make no pair and rotate nothing.
LEMMA StartStep ==
  ASSUME IInv, NEW c \in Calls, session.status # "none",
         NEW pc \in {"read", "set", "exists"}, NEW op \in {"authenticate", "lookup", "logout"},
         op = "logout" => pc # "read",
         call[c].pc = "idle", Update(c, [NoCall EXCEPT !.pc = pc, !.op = op]),
         UNCHANGED <<store, now, session, current, minted>>
  PROVE  IInv' /\ [Lifecycle!Next]_Lifecycle!vars
<1> DEFINE x == [NoCall EXCEPT !.pc = pc, !.op = op]
<1>1. call[c] = NoCall /\ session \in Sessions
  BY DEF IInv, TypeOK, CallOK
<1>2. /\ x \in CallType /\ x.pc = pc /\ x.op = op /\ x.out = "none"
      /\ x.token = NoCall.token /\ x.pair = NoCall.pair /\ x.rotated = NoCall.rotated
  BY NoCallOK DEF CallType, Phases, Ops
<1>3. ~Ended(x) /\ ~x.rotated /\ OnTrack(x)
  BY <1>2, NoCallOK DEF Ended, OnTrack
<1>4. Update(c, x)
  OBVIOUS
<1> HIDE DEF x
<1> QED BY <1>1, <1>2, <1>3, <1>4, CallStep

LEMMA AskStep ==
  ASSUME IInv, NEW c \in Calls, Ask(c) PROVE IInv' /\ [Lifecycle!Next]_Lifecycle!vars
<1>1. ASSUME NEW token \in Given, AuthenticateAccessToken(c, token)
      PROVE  IInv' /\ [Lifecycle!Next]_Lifecycle!vars
  <2>1. session.status # "none"
    BY DEF IInv, SessionOK, Given
  <2> QED BY <1>1, <2>1, StartStep DEF AuthenticateAccessToken
<1>2. CASE GetSession(c)
  BY <1>2, StartStep DEF GetSession
<1>3. CASE Logout(c)
  <2>1. SetPhase \in {"set", "exists"}
    BY DEF SetPhase
  <2> QED BY <1>3, <2>1, StartStep DEF Logout
<1> QED BY <1>1, <1>2, <1>3, RefreshStep DEF Ask

\* A call that moves on or is answered keeps what it carries.
LEMMA MoveOK ==
  ASSUME IInv, NEW c \in Calls, NEW pc \in Phases
  PROVE  LET x == [call[c] EXCEPT !.pc = pc]
         IN  /\ x \in CallType /\ x.pc = pc /\ x.op = call[c].op /\ x.out = call[c].out
             /\ x.token = call[c].token /\ x.pair = call[c].pair
             /\ x.rotated = call[c].rotated /\ (x.rotated => x.op = "refresh")
<1>1. call[c] \in CallType /\ CallOK(call[c])
  BY DEF IInv, TypeOK
<1> QED BY <1>1 DEF CallType, CallOK

LEMMA AnswerOK ==
  ASSUME IInv, NEW c \in Calls, NEW out \in Outcomes
  PROVE  LET x == [call[c] EXCEPT !.pc = "closed", !.out = out]
         IN  /\ x \in CallType /\ x.pc = "closed" /\ x.op = call[c].op /\ x.out = out
             /\ x.token = call[c].token /\ x.pair = call[c].pair
             /\ x.rotated = call[c].rotated /\ (x.rotated => x.op = "refresh")
<1>1. call[c] \in CallType /\ CallOK(call[c])
  BY DEF IInv, TypeOK
<1> QED BY <1>1 DEF CallType, CallOK, Phases

\* What a live call may do to the session: leave it, end it, or touch what has ended.
Calm == /\ UNCHANGED <<store, now, minted>>
        /\ session' \in Sessions /\ session'.status # "none"
        /\ session'.status = "active" => session' = session /\ current' = current
        /\ current' \in {current, 0}

LEMMA GoStep ==
  ASSUME IInv, NEW c \in Calls, Live(c), NEW pc \in Phases \ {"idle", "rotate"},
         Go(c, pc), Calm,
         pc \in {"del", "reread"} \/ (pc = "audit" /\ call[c].op = "logout")
           => session'.status # "active",
         Ended(call[c]) => session'.status # "active",
         OnTrack([call[c] EXCEPT !.pc = pc])
  PROVE  IInv' /\ [Lifecycle!Next]_Lifecycle!vars
<1> DEFINE x == [call[c] EXCEPT !.pc = pc]
<1>1. /\ x \in CallType /\ x.pc = pc /\ x.op = call[c].op /\ x.out = call[c].out
      /\ x.token = call[c].token /\ x.pair = call[c].pair
      /\ x.rotated = call[c].rotated /\ (x.rotated => x.op = "refresh")
  BY MoveOK
<1>2. session.status # "none"
  BY DEF IInv, SessionOK, Live
<1>3. Ended(x) => session'.status # "active"
  BY <1>1 DEF Ended
<1>4. Update(c, x) /\ OnTrack(x)
  BY DEF Go
<1> HIDE DEF x
<1> QED BY <1>1, <1>2, <1>3, <1>4, CallStep DEF Calm

LEMMA CloseStep ==
  ASSUME IInv, NEW c \in Calls, Live(c), NEW out \in Outcomes, Close(c, out), Calm,
         (call[c].op = "logout" /\ out = "ok") \/ (call[c].op = "refresh" /\ out = "denied")
           => session'.status # "active"
  PROVE  IInv' /\ [Lifecycle!Next]_Lifecycle!vars
<1> DEFINE x == [call[c] EXCEPT !.pc = "closed", !.out = out]
<1>1. /\ x \in CallType /\ x.pc = "closed" /\ x.op = call[c].op /\ x.out = out
      /\ x.token = call[c].token /\ x.pair = call[c].pair
      /\ x.rotated = call[c].rotated /\ (x.rotated => x.op = "refresh")
  BY AnswerOK
<1>2. session.status # "none"
  BY DEF IInv, SessionOK, Live
<1>3. OnTrack(x) /\ (Ended(x) => session'.status # "active")
  BY <1>1 DEF Ended, OnTrack
<1>4. Update(c, x)
  BY DEF Close
<1> HIDE DEF x
<1> QED BY <1>1, <1>2, <1>3, <1>4, CallStep DEF Calm

-----------------------------------------------------------------------------
\* What a live call carries.
LEMMA LiveOK ==
  ASSUME IInv, NEW c \in Calls, Live(c)
  PROVE  /\ session \in Sessions /\ session.status # "none" /\ call[c] \in CallType
         /\ OnTrack(call[c]) /\ (Ended(call[c]) => session.status # "active")
         /\ \A pc \in Phases : LET x == [call[c] EXCEPT !.pc = pc]
                               IN  x.pc = pc /\ x.op = call[c].op
<1>1. call[c] \in CallType /\ CallOK(call[c]) /\ session \in Sessions
  BY DEF IInv, TypeOK
<1> QED BY <1>1 DEF IInv, SessionOK, Live, CallOK, CallType

LEMMA RotateStep ==
  ASSUME IInv, NEW c \in Calls, Rotate(c) PROVE IInv' /\ [Lifecycle!Next]_Lifecycle!vars
<1> USE DEF Rotate
<1>1. Live(c) /\ "denied" \in Outcomes
  BY DEF Live, Outcomes
<1>2. session \in Sessions /\ session.status # "none"
  BY <1>1, LiveOK
<1>3. CASE session.status # "active" /\ Close(c, "denied") /\ UNCHANGED <<session, current>>
  <2>1. Calm /\ session'.status # "active"
    BY <1>2, <1>3 DEF Calm
  <2> QED BY <1>1, <1>3, <2>1, CloseStep
<1>4. CASE /\ session' = [session EXCEPT !.status = "revoked"]
           /\ current' = 0 /\ Close(c, "denied")
  <2>1. session' \in Sessions /\ session'.status = "revoked"
    BY <1>2, <1>4 DEF Sessions, Statuses
  <2>2. Calm
    BY <1>4, <2>1 DEF Calm
  <2> QED BY <1>1, <1>4, <2>1, <2>2, CloseStep
<1>5. CASE /\ session.status = "active" /\ current = call[c].token
           /\ session' = [session EXCEPT !.exp = RefreshUntil(call[c].pair)]
           /\ current' = call[c].pair /\ Rotated(c)
  BY <1>5, RotatedStep
<1> QED BY <1>3, <1>4, <1>5

\* The steps that leave the session as it is.
LEMMA ReadStep ==
  ASSUME IInv, NEW c \in Calls, ReadSession(c)
  PROVE  IInv' /\ [Lifecycle!Next]_Lifecycle!vars
<1> USE DEF ReadSession
<1>1. Live(c) /\ "denied" \in Outcomes
  BY DEF Live, Outcomes
<1>2. /\ session \in Sessions /\ session.status # "none" /\ call[c] \in CallType
      /\ CallOK(call[c]) /\ call[c].op \notin {"refresh", "logout"}
  BY <1>1, LiveOK DEF IInv, OnTrack
<1>3. Calm
  BY <1>2 DEF Calm
<1>4. CASE Close(c, "denied")
  BY <1>1, <1>2, <1>3, <1>4, CloseStep
<1>5. CASE Update(c, [call[c] EXCEPT !.pc = "judge", !.seen = session])
  <2> DEFINE x == [call[c] EXCEPT !.pc = "judge", !.seen = session]
  <2>1. /\ x \in CallType /\ x.pc = "judge" /\ x.op = call[c].op
        /\ x.token = call[c].token /\ x.pair = call[c].pair /\ x.rotated = call[c].rotated
    BY <1>2 DEF CallType, Phases
  <2>2. OnTrack(x) /\ ~Ended(x) /\ ~x.rotated
    BY <1>2, <2>1 DEF OnTrack, Ended, CallOK
  <2>3. Update(c, x)
    BY <1>5
  <2> HIDE DEF x
  <2> QED BY <1>2, <1>3, <2>1, <2>2, <2>3, CallStep DEF Calm
<1> QED BY <1>4, <1>5

LEMMA JudgeStep ==
  ASSUME IInv, NEW c \in Calls, JudgeSession(c)
  PROVE  IInv' /\ [Lifecycle!Next]_Lifecycle!vars
<1> USE DEF JudgeSession
<1>1. Live(c)
  BY DEF Live
<1>2. /\ session \in Sessions /\ session.status # "none"
      /\ call[c].op \notin {"refresh", "logout"} /\ ~Ended(call[c])
  BY <1>1, LiveOK DEF OnTrack, Ended
<1>3. Calm
  BY <1>2 DEF Calm
<1>4. CASE Go(c, SetPhase)
  <2>1. SetPhase \in {"set", "exists"} /\ SetPhase \in Phases \ {"idle", "rotate"}
    BY DEF SetPhase, Phases
  <2>2. OnTrack([call[c] EXCEPT !.pc = SetPhase])
    BY <1>1, <1>2, <2>1, LiveOK DEF OnTrack
  <2> QED BY <1>1, <1>2, <1>3, <1>4, <2>1, <2>2, GoStep
<1>5. CASE Close(c, Verdict(call[c].op, call[c].seen.status))
  <2>1. Verdict(call[c].op, call[c].seen.status) \in Outcomes
    BY DEF Verdict, Outcomes
  <2> QED BY <1>1, <1>2, <1>3, <1>5, <2>1, CloseStep
<1> QED BY <1>4, <1>5

\* A change of status that cannot be done, and one that is done.
LEMMA UnknownStep ==
  ASSUME IInv, NEW c \in Calls, Live(c), call[c].op # "refresh", Unknown(c), Calm
  PROVE  IInv' /\ [Lifecycle!Next]_Lifecycle!vars
<1> DEFINE out == IF call[c].op = "logout" THEN "denied" ELSE "error"
<1>1. out \in {"denied", "error"} /\ out \in Outcomes
  BY DEF Outcomes
<1>2. Close(c, out)
  BY DEF Unknown
<1> HIDE DEF out
<1> QED BY <1>1, <1>2, CloseStep

LEMMA ChangedStep ==
  ASSUME IInv, NEW c \in Calls, Live(c), call[c].op # "refresh", Changed(c), Calm,
         session'.status # "active"
  PROVE  IInv' /\ [Lifecycle!Next]_Lifecycle!vars
<1>1. CASE Go(c, "audit")
  <2>1. "audit" \in Phases \ {"idle", "rotate"}
    BY DEF Phases
  <2>2. OnTrack([call[c] EXCEPT !.pc = "audit"])
    BY <2>1, LiveOK DEF OnTrack
  <2> QED BY <1>1, <2>1, <2>2, GoStep
<1>2. CASE Close(c, Verdict(call[c].op, "expired"))
  <2>1. Verdict(call[c].op, "expired") \in Outcomes
    BY DEF Verdict, Outcomes
  <2> QED BY <1>2, <2>1, CloseStep
<1> QED BY <1>1, <1>2 DEF Changed

LEMMA SetStep ==
  ASSUME IInv, NEW c \in Calls, SetStatus(c)
  PROVE  IInv' /\ [Lifecycle!Next]_Lifecycle!vars
<1> USE DEF SetStatus
<1>1. Live(c)
  BY DEF Live
<1>2. session \in Sessions /\ session.status # "none" /\ call[c].op # "refresh"
  BY <1>1, LiveOK DEF OnTrack
<1>3. CASE Unknown(c) /\ UNCHANGED session
  <2>1. Calm
    BY <1>2, <1>3 DEF Calm
  <2> QED BY <1>1, <1>2, <1>3, <2>1, UnknownStep
<1>4. CASE session' = [session EXCEPT !.status = Target(c)] /\ Changed(c)
  <2>1. session' \in Sessions /\ session'.status \in {"revoked", "expired"}
    BY <1>2, <1>4 DEF Sessions, Statuses, Target
  <2>2. Calm
    BY <2>1 DEF Calm
  <2> QED BY <1>1, <1>2, <1>4, <2>1, <2>2, ChangedStep
<1> QED BY <1>3, <1>4

LEMMA ExistsStep ==
  ASSUME IInv, NEW c \in Calls, Exists(c) PROVE IInv' /\ [Lifecycle!Next]_Lifecycle!vars
<1> USE DEF Exists
<1>1. Live(c)
  BY DEF Live
<1>2. /\ session \in Sessions /\ session.status # "none" /\ call[c].op # "refresh"
      /\ (Ended(call[c]) => session.status # "active")
  BY <1>1, LiveOK DEF OnTrack
<1>3. Calm
  BY <1>2 DEF Calm
<1>4. CASE Go(c, "hset")
  <2>1. "hset" \in Phases \ {"idle", "rotate"}
    BY DEF Phases
  <2>2. OnTrack([call[c] EXCEPT !.pc = "hset"])
    BY <1>1, <1>2, <2>1, LiveOK DEF OnTrack
  <2> QED BY <1>1, <1>2, <1>3, <1>4, <2>1, <2>2, GoStep
<1> QED BY <1>1, <1>2, <1>3, <1>4, UnknownStep

LEMMA HSetStep ==
  ASSUME IInv, NEW c \in Calls, HSet(c) PROVE IInv' /\ [Lifecycle!Next]_Lifecycle!vars
<1> USE DEF HSet
<1>1. Live(c)
  BY DEF Live
<1>2. session \in Sessions /\ call[c].op # "refresh"
  BY <1>1, LiveOK DEF OnTrack
<1>3. session' \in Sessions /\ session'.status \in {"revoked", "expired"}
  BY <1>2 DEF Sessions, Statuses, Target
<1>4. Calm
  BY <1>3 DEF Calm
<1>5. "del" \in Phases \ {"idle", "rotate"}
  BY DEF Phases
<1>6. OnTrack([call[c] EXCEPT !.pc = "del"])
  BY <1>1, <1>2, <1>5, LiveOK DEF OnTrack
<1> QED BY <1>1, <1>3, <1>4, <1>5, <1>6, GoStep

LEMMA DeleteStep ==
  ASSUME IInv, NEW c \in Calls, DeleteRefresh(c)
  PROVE  IInv' /\ [Lifecycle!Next]_Lifecycle!vars
<1> USE DEF DeleteRefresh
<1>1. Live(c)
  BY DEF Live
<1>2. /\ session \in Sessions /\ session.status \notin {"none", "active"}
      /\ call[c].op # "refresh"
  BY <1>1, LiveOK DEF OnTrack, Ended
<1>3. Calm
  BY <1>2 DEF Calm
<1>4. "reread" \in Phases \ {"idle", "rotate"}
  BY DEF Phases
<1>5. OnTrack([call[c] EXCEPT !.pc = "reread"])
  BY <1>1, <1>2, <1>4, LiveOK DEF OnTrack
<1> QED BY <1>1, <1>2, <1>3, <1>4, <1>5, GoStep

LEMMA RereadStep ==
  ASSUME IInv, NEW c \in Calls, Reread(c) PROVE IInv' /\ [Lifecycle!Next]_Lifecycle!vars
<1> USE DEF Reread
<1>1. Live(c)
  BY DEF Live
<1>2. /\ session \in Sessions /\ session.status \notin {"none", "active"}
      /\ call[c].op # "refresh"
  BY <1>1, LiveOK DEF OnTrack, Ended
<1>3. Calm
  BY <1>2 DEF Calm
<1> QED BY <1>1, <1>2, <1>3, UnknownStep, ChangedStep

LEMMA AuditStep ==
  ASSUME IInv, NEW c \in Calls, Audit(c) PROVE IInv' /\ [Lifecycle!Next]_Lifecycle!vars
<1> USE DEF Audit
<1>1. Live(c) /\ "ok" \in Outcomes
  BY DEF Live, Outcomes
<1>2. /\ session \in Sessions /\ session.status # "none"
      /\ (call[c].op = "logout" => session.status # "active")
  BY <1>1, LiveOK DEF Ended
<1>3. Calm
  BY <1>2 DEF Calm
<1> QED BY <1>1, <1>2, <1>3, CloseStep

LEMMA FailStep ==
  ASSUME IInv, NEW c \in Calls, Fail(c) PROVE IInv' /\ [Lifecycle!Next]_Lifecycle!vars
<1>1. Live(c) /\ "error" \in Outcomes /\ Close(c, "error")
  BY DEF Fail, Live, Outcomes
<1>2. session \in Sessions /\ session.status # "none"
  BY <1>1, LiveOK
<1>3. Calm
  BY <1>2 DEF Fail, Calm
<1> QED BY <1>1, <1>3, CloseStep

-----------------------------------------------------------------------------
\* A call that is left or lost; a session that is left or dropped.
LeftOrLost(c) == \/ call'[c] = call[c]
                 \/ Live(c) /\ call'[c] = [call[c] EXCEPT !.pc = "closed", !.out = "error"]

LEMMA DropStep ==
  ASSUME IInv, session.status # "none",
         \/ UNCHANGED <<session, current>>
         \/ session' = Gone /\ current' = 0,
         UNCHANGED minted, TypeOK',
         \A c \in Calls : LeftOrLost(c)
  PROVE  IInv' /\ [Lifecycle!Next]_Lifecycle!vars
<1>1. ASSUME NEW c \in Calls
      PROVE  /\ call'[c].token = call[c].token /\ call'[c].pair = call[c].pair
             /\ call'[c].rotated = call[c].rotated /\ call'[c].op = call[c].op
             /\ \/ call'[c] = call[c]
                \/ call'[c].pc = "closed" /\ call'[c].out = "error"
  <2>1. call[c] \in CallType
    BY DEF IInv, TypeOK
  <2>2. CASE call'[c] = [call[c] EXCEPT !.pc = "closed", !.out = "error"]
    BY <2>1, <2>2 DEF CallType
  <2> QED BY <2>2 DEF LeftOrLost
<1>2. /\ session'.status # "none" /\ current' \in {current, 0}
      /\ session'.status = "active" => session' = session /\ current' = current
  BY NoCallOK
<1>3. SessionOK'
  <2>1. Len(minted) \in Nat /\ minted' = minted
    BY DEF IInv, TypeOK
  <2>2. current' \in 0 .. Len(minted')
    BY <1>2, <2>1 DEF IInv, SessionOK
  <2>3. LifetimesAgree'
    BY <1>2, <2>1 DEF IInv, SessionOK, LifetimesAgree, RefreshUntil
  <2> QED BY <1>2, <2>2, <2>3 DEF SessionOK
<1>4. SpentOnce'
  BY <1>1, <1>2 DEF IInv, SpentOnce
<1>5. ASSUME NEW c \in Calls PROVE CallOK(call[c])'
  <2>1. CallOK(call[c])
    BY DEF IInv
  <2>2. Ended(call'[c]) => Ended(call[c])
    BY <1>1 DEF Ended
  <2>3. CASE call'[c] = call[c]
    BY <1>2, <2>1, <2>2, <2>3 DEF CallOK, OnTrack, Ended
  <2>4. CASE call'[c].pc = "closed" /\ call'[c].out = "error"
    BY <1>1, <1>2, <2>1, <2>2, <2>4 DEF CallOK, OnTrack, Ended
  <2> QED BY <1>1, <2>3, <2>4
<1>6. ASSUME NEW c \in Calls PROVE FreshPair(c)'
  <2>1. FreshPair(c) /\ CallOK(call[c])
    BY DEF IInv
  <2> QED BY <1>1, <1>2, <2>1 DEF FreshPair, CallOK
<1>7. Spent' = Spent
  BY <1>1 DEF Spent
<1>8. [Lifecycle!Next]_Lifecycle!vars
  <2>1. CASE session'.status = "active" \/ session.status # "active"
    BY <1>2, <1>7, <2>1 DEF Phase, Usable, Lifecycle!vars
  <2>2. CASE session'.status # "active" /\ session.status = "active"
    BY <1>2, <1>7, <2>2 DEF Phase, Usable, Lifecycle!Next, Lifecycle!End
  <2> QED BY <2>1, <2>2
<1> QED BY <1>3, <1>4, <1>5, <1>6, <1>8 DEF IInv

\* A clock that moves before the session is issued moves nothing else.
LEMMA SameStep ==
  ASSUME IInv, TypeOK', UNCHANGED <<session, current, minted, call>>
  PROVE  IInv' /\ [Lifecycle!Next]_Lifecycle!vars
<1>1. SessionOK' /\ SpentOnce'
  BY DEF IInv, SessionOK, SpentOnce, LifetimesAgree, RefreshUntil
<1>2. ASSUME NEW c \in Calls PROVE (CallOK(call[c]) /\ FreshPair(c))'
  BY DEF IInv, CallOK, OnTrack, Ended, FreshPair
<1>3. UNCHANGED Lifecycle!vars
  BY DEF Phase, Usable, Spent, Lifecycle!vars
<1> QED BY <1>1, <1>2, <1>3 DEF IInv

LEMMA TickStep == ASSUME IInv, Tick PROVE IInv' /\ [Lifecycle!Next]_Lifecycle!vars
<1> USE DEF Tick
<1>1. now' \in 0 .. MaxTime
  BY TimeAssumption DEF IInv, TypeOK
<1>2. UNCHANGED <<session, current>> \/ (session' = Gone /\ current' = 0)
  OBVIOUS
<1>3. session' \in Sessions /\ current' \in Nat
  BY <1>2, NoCallOK DEF IInv, TypeOK
<1>4. TypeOK'
  BY <1>1, <1>3 DEF IInv, TypeOK
<1>5. CASE session.status = "none"
  <2>1. UNCHANGED <<session, current>>
    BY <1>5 DEF IInv, SessionOK
  <2> QED BY <1>4, <2>1, SameStep
<1>6. CASE session.status # "none"
  BY <1>2, <1>4, <1>6, DropStep DEF LeftOrLost
<1> QED BY <1>5, <1>6

LEMMA RestartStep == ASSUME IInv, Restart PROVE IInv' /\ [Lifecycle!Next]_Lifecycle!vars
<1> USE DEF Restart
<1>1. ASSUME NEW c \in Calls
      PROVE  call'[c] \in CallType /\ LeftOrLost(c)
  <2>1. "error" \in Outcomes
    BY DEF Outcomes
  <2>2. call[c] \in CallType
    BY DEF IInv, TypeOK
  <2>3. [call[c] EXCEPT !.pc = "closed", !.out = "error"] \in CallType
    BY <2>1, <2>2 DEF CallType, Phases
  <2> QED BY <2>2, <2>3 DEF LeftOrLost
<1>2. call' \in [Calls -> CallType]
  BY <1>1
<1>3. UNCHANGED <<session, current>> \/ (session' = Gone /\ current' = 0)
  OBVIOUS
<1>4. /\ session.status # "none" /\ UNCHANGED <<store, now, minted>>
      /\ \A c \in Calls : LeftOrLost(c)
  BY <1>1
<1> HIDE DEF Restart
<1>5. TypeOK'
  BY <1>2, <1>3, <1>4, NoCallOK DEF IInv, TypeOK
<1> QED BY <1>3, <1>4, <1>5, DropStep

LEMMA InitOK == Init => IInv /\ Lifecycle!Init
<1> SUFFICES ASSUME Init PROVE IInv /\ Lifecycle!Init
  OBVIOUS
<1> USE DEF Init
<1>1. TypeOK
  <2>1. now \in 0 .. MaxTime /\ minted \in Seq(Nat)
    BY TimeAssumption
  <2> QED BY <2>1, NoCallOK DEF TypeOK
<1>2. SessionOK /\ SpentOnce
  <2>1. Len(minted) = 0 /\ session.exp = 0 /\ session.status = "none"
    BY DEF NoSession
  <2> QED BY <2>1, NoCallOK DEF SessionOK, SpentOnce, LifetimesAgree
<1>3. ASSUME NEW c \in Calls PROVE CallOK(call[c]) /\ FreshPair(c)
  <2>1. call[c] = NoCall /\ Len(minted) = 0
    OBVIOUS
  <2> QED BY <2>1, NoCallOK DEF CallOK, OnTrack, Ended, FreshPair
<1>4. Lifecycle!Init
  BY NoCallOK DEF Phase, Usable, Spent, Lifecycle!Init
<1> QED BY <1>1, <1>2, <1>3, <1>4 DEF IInv

LEMMA NextOK == IInv /\ [Next]_vars => IInv' /\ [Lifecycle!Next]_Lifecycle!vars
<1> SUFFICES ASSUME IInv, [Next]_vars PROVE IInv' /\ [Lifecycle!Next]_Lifecycle!vars
  OBVIOUS
<1>1. CASE IssueSession
  BY <1>1, IssueStep
<1>2. ASSUME NEW c \in Calls, Step(c) PROVE IInv' /\ [Lifecycle!Next]_Lifecycle!vars
  BY <1>2, RotateStep, ReadStep, JudgeStep, SetStep, ExistsStep, HSetStep, DeleteStep,
     RereadStep, AuditStep DEF Step
<1>3. ASSUME NEW c \in Calls, Ask(c) \/ Fail(c)
      PROVE  IInv' /\ [Lifecycle!Next]_Lifecycle!vars
  BY <1>3, AskStep, FailStep
<1>4. CASE Tick \/ Restart
  BY <1>4, TickStep, RestartStep
<1>5. CASE UNCHANGED vars
  <2>1. TypeOK'
    BY <1>5 DEF vars, IInv, TypeOK
  <2> QED BY <1>5, <2>1, SameStep DEF vars
<1> QED BY <1>1, <1>2, <1>3, <1>4, <1>5 DEF Next

\* The inductive invariant of the identity service.
THEOREM IdentityInductive == Spec => []IInv
<1>1. Init => IInv
  BY InitOK
<1>2. IInv /\ [Next]_vars => IInv'
  BY NextOK
<1> QED BY <1>1, <1>2, PTL DEF Spec

\* The session, its tokens and the calls keep their types.
THEOREM IdentityTypeCorrect == Spec => []TypeOK
<1>1. IInv => TypeOK
  BY DEF IInv
<1> QED BY <1>1, IdentityInductive, PTL

\* The service implements the promised lifecycle over either store: a token is spent at
\* most once, and a session that is over stays over.
THEOREM KeptLifecycle == Spec => KeepsLifecycle
<1>1. Init => Lifecycle!Init
  BY InitOK
<1>2. IInv /\ [Next]_vars => [Lifecycle!Next]_Lifecycle!vars
  BY NextOK
<1>3. Spec => Lifecycle!Spec
  BY <1>1, <1>2, IdentityInductive, PTL DEF Spec, Lifecycle!Spec
<1> QED BY <1>3 DEF KeepsLifecycle

\* A token that two calls brought to the store has ended its session.
THEOREM ReuseEnds == Spec => []ReuseRevokes
<1>1. IInv => ReuseRevokes
  <2> SUFFICES ASSUME IInv, NEW c \in Calls, NEW d \in Calls, c # d,
                      Presented(c), Presented(d), call[c].token = call[d].token
               PROVE  session.status # "active"
    BY DEF ReuseRevokes
  <2>1. CASE call[c].out = "denied" \/ call[d].out = "denied"
    BY <2>1 DEF IInv, CallOK, Ended, Presented
  <2>2. CASE call[c].rotated /\ call[d].rotated
    BY <2>2 DEF IInv, SpentOnce
  <2> QED BY <2>1, <2>2 DEF Presented
<1> QED BY <1>1, IdentityInductive, PTL

\* After an answered logout the session is never active again.
THEOREM LogoutEnds == Spec => []LogoutIsFinal
<1>1. IInv => LogoutIsFinal
  BY DEF IInv, SessionOK, CallOK, Ended, LogoutIsFinal
<1> QED BY <1>1, IdentityInductive, PTL

\* An active session has a refresh token and lives as long as it.
THEOREM LifetimesKept == Spec => []LifetimesAgree
<1>1. IInv => LifetimesAgree
  BY DEF IInv, SessionOK
<1> QED BY <1>1, IdentityInductive, PTL

-----------------------------------------------------------------------------
(***************************************************************************)
(* The service with its API keys.                                          *)
(***************************************************************************)
PhaseOK(x) ==
  /\ x.pc = "idle" => x.op = "none" /\ ~x.late
  /\ x.pc \in {"make", "expire", "answer"} => x.op = "create"
  /\ x.pc \in {"fetch", "judge", "audit"} => x.op = "authenticate"
  /\ x.pc \in {"set", "exists", "hset", "reread"} => x.op = "revoke"

\* What an authentication that began too late can still become.
Judged(x) ==
  x.op = "authenticate" =>
    /\ x.pc = "judge" /\ x.late => x.seen.status # "active" \/ Over(x.seen.exp)
    /\ x.pc \in {"audit", "closed"} /\ x.out = "ok" => x.genuine /\ ~x.late

\* A revocation has been written.
Written(x) == x.op = "revoke" /\ (x.pc = "reread" \/ (x.pc = "closed" /\ x.out = "ok"))

KeyTypes == now \in Nat /\ key \in KeyType /\ keyCall \in [Calls -> KeyCallType]

\* One call made the key, and the others came when it was handed out.
OneMaker == /\ \A c, d \in Calls : keyCall[c].op = "create" /\ keyCall[d].op = "create" => c = d
            /\ \A c \in Calls : keyCall[c].op \in {"authenticate", "revoke"} => Done("create")
            /\ key.whole => \E c \in Calls : keyCall[c].op = "create"

KeyInv ==
  /\ KeyTypes /\ OneMaker
  /\ \A c \in Calls : PhaseOK(keyCall[c]) /\ Judged(keyCall[c])
  /\ \A c \in Calls : Written(keyCall[c]) => key.status # "active"
  /\ \A c \in Calls : keyCall[c].op = "create" /\ key.whole => key.exp = keyCall[c].exp
  /\ \A c \in Calls : keyCall[c].late => Late

LEMMA KeyConstants == /\ NoKey \in KeyType /\ GoneKey \in KeyType /\ NoKeyCall \in KeyCallType
                      /\ NoKeyCall.pc = "idle" /\ NoKeyCall.op = "none" /\ ~NoKeyCall.late
                      /\ ~NoKey.whole /\ ~GoneKey.whole /\ GoneKey.status = "gone"
BY DEF NoKey, GoneKey, NoKeyCall, Key, KeyType, KeyCallType, KeyPhases, Outcomes

LEMMA KeyInitOK == ServiceInit => KeyInv
BY KeyConstants DEF ServiceInit, Init, KeyInv, KeyTypes, OneMaker, PhaseOK, Judged, Written

\* A step of a call that is under way keeps what the call is about, and its key is no more
\* acceptable than before.
LEMMA KeyCallStep ==
  ASSUME KeyInv, NEW c \in Calls, KeyLive(c), NEW x \in KeyCallType,
         keyCall' = [keyCall EXCEPT ![c] = x],
         x.op = keyCall[c].op, x.exp = keyCall[c].exp, x.late = keyCall[c].late,
         PhaseOK(x), Judged(x), now' = now, key' \in KeyType,
         key'.status = "active" => key.status = "active",
         key'.whole => key.whole /\ key'.exp = key.exp,
         Written(x) => key'.status # "active"
  PROVE  KeyInv'
<1>1. keyCall' \in [Calls -> KeyCallType] /\ keyCall'[c] = x
      /\ \A d \in Calls \ {c} : keyCall'[d] = keyCall[d]
  BY DEF KeyInv, KeyTypes
<1>2. \A d \in Calls : /\ keyCall'[d].op = keyCall[d].op /\ keyCall'[d].exp = keyCall[d].exp
                       /\ keyCall'[d].late = keyCall[d].late
  BY <1>1
<1>3. \A op : Done(op) => Done(op)'
  BY <1>1 DEF Done, KeyLive
<1>4. Late => Late'
  BY <1>2, <1>3 DEF Late, Over
<1>5. KeyTypes'
  BY <1>1 DEF KeyInv, KeyTypes
<1>6. OneMaker'
  BY <1>2, <1>3 DEF KeyInv, OneMaker
<1>7. \A d \in Calls : PhaseOK(keyCall'[d]) /\ Judged(keyCall[d])'
  BY <1>1 DEF KeyInv, Judged, PhaseOK, Over
<1>8. \A d \in Calls : Written(keyCall'[d]) => key'.status # "active"
  BY <1>1 DEF KeyInv, KeyTypes, KeyType
<1>9. \A d \in Calls : keyCall'[d].op = "create" /\ key'.whole => key'.exp = keyCall'[d].exp
  BY <1>2 DEF KeyInv
<1>10. \A d \in Calls : keyCall'[d].late => Late'
  BY <1>2, <1>4 DEF KeyInv
<1> QED BY <1>5, <1>6, <1>7, <1>8, <1>9, <1>10 DEF KeyInv, PhaseOK, Written

\* A call that begins is told whether it is late.
LEMMA BeginOK ==
  ASSUME KeyInv, NEW c \in Calls, NEW x \in KeyCallType, Begin(c, x),
         PhaseOK(x), x.pc \notin {"idle", "judge", "audit", "closed", "reread"},
         x.op = "create" => \A d \in Calls : keyCall[d].op # "create",
         x.op \in {"authenticate", "revoke"} => Done("create")
  PROVE  KeyInv'
<1> DEFINE y == [x EXCEPT !.late = Late]
<1>1. /\ keyCall' = [keyCall EXCEPT ![c] = y] /\ UNCHANGED <<now, key>>
      /\ keyCall[c].pc = "idle"
  BY DEF Begin, KeyUpdate, vars, Free
<1>2. /\ y \in KeyCallType /\ y.pc = x.pc /\ y.op = x.op /\ y.exp = x.exp /\ y.late = Late
  BY DEF KeyCallType, Late
<1>3. keyCall' \in [Calls -> KeyCallType] /\ keyCall'[c] = y
      /\ \A d \in Calls \ {c} : keyCall'[d] = keyCall[d]
  BY <1>1, <1>2 DEF KeyInv, KeyTypes
<1>4. keyCall[c].op = "none" /\ ~keyCall[c].late
  BY <1>1 DEF KeyInv, PhaseOK
<1> HIDE DEF y
<1>5. \A op : Done(op) => Done(op)'
  BY <1>1, <1>3 DEF Done
<1>6. Late => Late'
  BY <1>1, <1>3, <1>4, <1>5 DEF Late, Over
<1>7. KeyTypes'
  BY <1>1, <1>3 DEF KeyInv, KeyTypes
<1>8. OneMaker'
  BY <1>1, <1>2, <1>3, <1>4, <1>5 DEF KeyInv, OneMaker
<1>9. \A d \in Calls : PhaseOK(keyCall'[d]) /\ Judged(keyCall[d])'
  BY <1>1, <1>2, <1>3 DEF KeyInv, Judged, PhaseOK, Over
<1>10. \A d \in Calls : Written(keyCall'[d]) => key'.status # "active"
  BY <1>1, <1>2, <1>3 DEF KeyInv, Written
<1>11. \A d \in Calls : keyCall'[d].op = "create" /\ key'.whole => key'.exp = keyCall'[d].exp
  BY <1>1, <1>2, <1>3 DEF KeyInv, OneMaker
<1>12. \A d \in Calls : keyCall'[d].late => Late'
  BY <1>2, <1>3, <1>6 DEF KeyInv
<1> QED BY <1>7, <1>8, <1>9, <1>10, <1>11, <1>12 DEF KeyInv, PhaseOK, Written

LEMMA KeyReadOK ==
  ASSUME KeyInv, NEW c \in Calls, FetchKey(c) \/ JudgeKey(c) \/ AuditKey(c)
  PROVE  KeyInv'
<1> USE DEF KeyInv, KeyTypes
<1>1. CASE FetchKey(c)
  <2>1. CASE key.whole
    <3> DEFINE x == [keyCall[c] EXCEPT !.pc = "judge", !.seen = key]
    <3>1. /\ keyCall' = [keyCall EXCEPT ![c] = x] /\ UNCHANGED <<now, key>> /\ KeyLive(c)
          /\ keyCall[c].op = "authenticate"
      BY <1>1, <2>1 DEF FetchKey, KeyUpdate, vars, KeyLive, PhaseOK
    <3>2. /\ x \in KeyCallType /\ x.op = "authenticate" /\ x.exp = keyCall[c].exp
          /\ x.late = keyCall[c].late /\ x.pc = "judge" /\ x.seen = key
      BY <3>1 DEF KeyCallType, KeyPhases
    <3>3. x.late => key.status # "active" \/ Over(key.exp)
      BY <2>1, <3>2 DEF Late, Done, Written
    <3> HIDE DEF x
    <3> QED BY <3>1, <3>2, <3>3, KeyCallStep DEF PhaseOK, Judged, Written
  <2>2. CASE ~key.whole
    <3> DEFINE x == [keyCall[c] EXCEPT !.pc = "audit", !.out = "denied"]
    <3>1. /\ keyCall' = [keyCall EXCEPT ![c] = x] /\ UNCHANGED <<now, key>> /\ KeyLive(c)
          /\ keyCall[c].op = "authenticate"
      BY <1>1, <2>2 DEF FetchKey, KeyUpdate, vars, KeyLive, PhaseOK
    <3>2. /\ x \in KeyCallType /\ x.op = "authenticate" /\ x.exp = keyCall[c].exp
          /\ x.late = keyCall[c].late /\ x.pc = "audit" /\ x.out = "denied"
      BY <3>1 DEF KeyCallType, KeyPhases, Outcomes
    <3> HIDE DEF x
    <3> QED BY <3>1, <3>2, KeyCallStep DEF PhaseOK, Judged, Written
  <2> QED BY <2>1, <2>2
<1>2. CASE JudgeKey(c)
  <2> DEFINE good == /\ keyCall[c].seen.status = "active" /\ ~Over(keyCall[c].seen.exp)
                     /\ keyCall[c].genuine
             x == [keyCall[c] EXCEPT !.pc = "audit", !.out = IF good THEN "ok" ELSE "denied"]
  <2>1. /\ keyCall' = [keyCall EXCEPT ![c] = x] /\ UNCHANGED <<now, key>> /\ KeyLive(c)
        /\ keyCall[c].op = "authenticate" /\ keyCall[c].pc = "judge"
    BY <1>2 DEF JudgeKey, KeyUpdate, vars, KeyLive, PhaseOK
  <2>2. /\ x \in KeyCallType /\ x.op = "authenticate" /\ x.exp = keyCall[c].exp
        /\ x.late = keyCall[c].late /\ x.pc = "audit" /\ x.genuine = keyCall[c].genuine
        /\ x.out = "ok" => good
    BY <2>1 DEF KeyCallType, KeyPhases, Outcomes
  <2>3. x.out = "ok" => x.genuine /\ ~x.late
    BY <2>1, <2>2 DEF Judged
  <2> HIDE DEF x
  <2> QED BY <2>1, <2>2, <2>3, KeyCallStep DEF PhaseOK, Judged, Written
<1>3. CASE AuditKey(c)
  <2> DEFINE x == [keyCall[c] EXCEPT !.pc = "closed"]
  <2>1. /\ keyCall' = [keyCall EXCEPT ![c] = x] /\ UNCHANGED <<now, key>> /\ KeyLive(c)
        /\ keyCall[c].op = "authenticate" /\ keyCall[c].pc = "audit"
    BY <1>3 DEF AuditKey, KeyGo, KeyUpdate, vars, KeyLive, PhaseOK
  <2>2. /\ x \in KeyCallType /\ x.op = "authenticate" /\ x.exp = keyCall[c].exp
        /\ x.late = keyCall[c].late /\ x.pc = "closed" /\ x.genuine = keyCall[c].genuine
        /\ x.out = keyCall[c].out
    BY <2>1 DEF KeyCallType, KeyPhases
  <2>3. x.out = "ok" => x.genuine /\ ~x.late
    BY <2>1, <2>2 DEF Judged
  <2> HIDE DEF x
  <2> QED BY <2>1, <2>2, <2>3, KeyCallStep DEF PhaseOK, Judged, Written
<1> QED BY <1>1, <1>2, <1>3

\* A call that changes only how far it is, when that is no answer of an authentication.
LEMMA KeyMoveOK ==
  ASSUME KeyInv, NEW c \in Calls, KeyLive(c), NEW pc \in KeyPhases, NEW out \in Outcomes,
         KeyUpdate(c, [keyCall[c] EXCEPT !.pc = pc, !.out = out]),
         PhaseOK([keyCall[c] EXCEPT !.pc = pc]), pc # "judge",
         out = "ok" => keyCall[c].op # "authenticate",
         now' = now, key' \in KeyType, key'.status = "active" => key.status = "active",
         key'.whole => key.whole /\ key'.exp = key.exp,
         keyCall[c].op = "revoke" /\ (pc = "reread" \/ out = "ok") => key'.status # "active"
  PROVE  KeyInv'
<1> DEFINE x == [keyCall[c] EXCEPT !.pc = pc, !.out = out]
<1>1. /\ x \in KeyCallType /\ x.op = keyCall[c].op /\ x.exp = keyCall[c].exp
      /\ x.late = keyCall[c].late /\ x.pc = pc /\ x.out = out
  BY DEF KeyInv, KeyTypes, KeyCallType
<1>2. PhaseOK(x)
  BY <1>1 DEF PhaseOK, KeyInv, KeyTypes, KeyCallType
<1>3. Judged(x) /\ (Written(x) => key'.status # "active")
  BY <1>1 DEF Judged, Written
<1> HIDE DEF x
<1> QED BY <1>1, <1>2, <1>3, KeyCallStep DEF KeyUpdate, x

LEMMA KeyStatusOK ==
  ASSUME KeyInv, NEW c \in Calls,
         SetKeyStatus(c) \/ KeyExists(c) \/ KeyHSet(c) \/ KeyReread(c)
  PROVE  KeyInv'
<1> USE KeyInv DEF vars, KeyClose, KeyGo
<1>0. /\ keyCall[c].pc \in {"set", "exists", "hset", "reread"} /\ keyCall[c].op = "revoke"
      /\ KeyLive(c) /\ keyCall[c] \in KeyCallType /\ key \in KeyType /\ now' = now
  BY DEF SetKeyStatus, KeyExists, KeyHSet, KeyReread, KeyInv, KeyTypes, PhaseOK, KeyLive
<1>1. PICK pc \in {"closed", "hset", "reread"}, out \in Outcomes :
        /\ keyCall' = [keyCall EXCEPT ![c] = [keyCall[c] EXCEPT !.pc = pc, !.out = out]]
        /\ pc # "closed" => out = keyCall[c].out
        /\ pc = "closed" => out \in {"ok", "denied"}
        /\ pc = "reread" \/ (pc = "closed" /\ out = "ok") => key'.status # "active"
        /\ key' = key \/ key' = [key EXCEPT !.status = "revoked"]
  <2>1. CASE SetKeyStatus(c)
    BY <1>0, <2>1 DEF SetKeyStatus, KeyUpdate, Outcomes, KeyType, KeyCallType
  <2>2. CASE KeyExists(c)
    <3>1. CASE key.status = "gone"
      BY <1>0, <2>2, <3>1 DEF KeyExists, KeyUpdate, Outcomes, KeyCallType
    <3>2. CASE key.status # "gone"
      <4>1. /\ keyCall' = [keyCall EXCEPT ![c] = [keyCall[c] EXCEPT !.pc = "hset"]]
            /\ key' = key /\ keyCall[c].out \in Outcomes
        BY <1>0, <2>2, <3>2 DEF KeyExists, KeyUpdate, KeyCallType
      <4>2. [keyCall[c] EXCEPT !.pc = "hset"]
              = [keyCall[c] EXCEPT !.pc = "hset", !.out = keyCall[c].out]
        BY <1>0 DEF KeyCallType
      <4> QED BY <4>1, <4>2
    <3> QED BY <3>1, <3>2
  <2>3. CASE KeyHSet(c)
    BY <1>0, <2>3 DEF KeyHSet, KeyUpdate, Outcomes, KeyType, KeyCallType
  <2>4. CASE KeyReread(c)
    <3>1. keyCall[c].pc = "reread" /\ key' = key
      BY <2>4 DEF KeyReread
    <3>2. key.status # "active"
      <4>1. Written(keyCall[c])
        BY <1>0, <3>1 DEF Written
      <4> QED BY <4>1, Zenon DEF KeyInv
    <3> QED BY <1>0, <2>4, <3>1, <3>2 DEF KeyReread, KeyUpdate, Outcomes, KeyType, KeyCallType
  <2> QED BY <2>1, <2>2, <2>3, <2>4
<1> DEFINE x == [keyCall[c] EXCEPT !.pc = pc, !.out = out]
<1>2. /\ x \in KeyCallType /\ x.op = "revoke" /\ x.exp = keyCall[c].exp
      /\ x.late = keyCall[c].late /\ x.pc = pc /\ x.out = out
  BY <1>0, <1>1 DEF KeyCallType, KeyPhases
<1>3. /\ key' \in KeyType
      /\ key'.status = "active" => key.status = "active"
      /\ key'.whole = key.whole /\ key'.exp = key.exp
  BY <1>0, <1>1 DEF KeyType
<1>4. keyCall' = [keyCall EXCEPT ![c] = x]
  BY <1>1
<1>5. PhaseOK(x) /\ Judged(x) /\ (Written(x) => key'.status # "active")
  BY <1>1, <1>2 DEF PhaseOK, Judged, Written
<1> HIDE DEF x
<1> QED BY <1>0, <1>2, <1>3, <1>4, <1>5, KeyCallStep

\* A key that is made or given its time to live was not handed out: nobody has revoked it.
LEMMA KeyMakeOK ==
  ASSUME KeyInv, NEW c \in Calls, MakeKey(c) \/ ExpireKey(c) \/ AnswerKey(c)
  PROVE  KeyInv'
<1>0. /\ keyCall[c].pc \in {"make", "expire", "answer"} /\ keyCall[c].op = "create"
      /\ KeyLive(c) /\ keyCall[c] \in KeyCallType /\ key \in KeyType /\ now' = now
  BY DEF MakeKey, ExpireKey, AnswerKey, KeyInv, KeyTypes, PhaseOK, KeyLive, vars
<1>1. PICK pc \in {"expire", "answer", "closed"}, out \in Outcomes :
        keyCall' = [keyCall EXCEPT ![c] = [keyCall[c] EXCEPT !.pc = pc, !.out = out]]
  <2>1. CASE MakeKey(c)
    BY <1>0, <2>1 DEF MakeKey, KeyGo, KeyUpdate, KeyCallType
  <2>2. CASE ExpireKey(c)
    BY <1>0, <2>2 DEF ExpireKey, KeyGo, KeyUpdate, KeyCallType
  <2>3. CASE AnswerKey(c)
    BY <1>0, <2>3 DEF AnswerKey, KeyClose, KeyUpdate, Outcomes, KeyCallType
  <2> QED BY <2>1, <2>2, <2>3
<1> DEFINE x == [keyCall[c] EXCEPT !.pc = pc, !.out = out]
<1>2. /\ x \in KeyCallType /\ x.op = "create" /\ x.exp = keyCall[c].exp
      /\ x.late = keyCall[c].late /\ x.pc = pc /\ keyCall' = [keyCall EXCEPT ![c] = x]
  BY <1>0, <1>1 DEF KeyCallType, KeyPhases
<1>3. PhaseOK(x) /\ Judged(x) /\ ~Written(x)
  BY <1>1, <1>2 DEF PhaseOK, Judged, Written
<1> HIDE DEF x
<1>4. CASE ~MakeKey(c)
  <2>1. /\ key' \in KeyType
        /\ key'.status = "active" => key.status = "active"
        /\ key'.whole => key.whole /\ key'.exp = key.exp
    <3>1. key' = key \/ key' = GoneKey \/ key' = [key EXCEPT !.ttl = TRUE]
      BY <1>4 DEF ExpireKey, AnswerKey
    <3> QED BY <1>0, <3>1, KeyConstants DEF KeyType
  <2> QED BY <1>0, <1>2, <1>3, <2>1, KeyCallStep
<1>5. CASE MakeKey(c)
  <2>1. key' = Key("active", keyCall[c].exp, TRUE) /\ key' \in KeyType
        /\ key'.exp = keyCall[c].exp
    BY <1>0, <1>5 DEF MakeKey, Key, KeyType, KeyCallType
  <2>2. ~Done("create")
    BY <1>0 DEF Done, KeyInv, OneMaker, KeyLive
  <2>3. \A d \in Calls : keyCall[d].op \notin {"authenticate", "revoke"}
    BY <2>2 DEF KeyInv, OneMaker
  <2>4. keyCall' \in [Calls -> KeyCallType] /\ keyCall'[c] = x
        /\ \A d \in Calls \ {c} : keyCall'[d] = keyCall[d]
    BY <1>2 DEF KeyInv, KeyTypes
  <2>5. \A d \in Calls : /\ keyCall'[d].op = keyCall[d].op /\ keyCall'[d].exp = keyCall[d].exp
                         /\ keyCall'[d].late = keyCall[d].late
    BY <1>0, <1>2, <2>4
  <2>6. KeyTypes' /\ OneMaker'
    <3>1. KeyTypes'
      BY <1>0, <2>1, <2>4 DEF KeyInv, KeyTypes
    <3>2. \A d, e \in Calls : keyCall'[d].op = "create" /\ keyCall'[e].op = "create" => d = e
      BY <2>5 DEF KeyInv, OneMaker
    <3>3. \A d \in Calls : keyCall'[d].op \notin {"authenticate", "revoke"}
      BY <2>3, <2>5
    <3>4. keyCall'[c].op = "create"
      BY <1>0, <2>5
    <3> QED BY <3>1, <3>2, <3>3, <3>4 DEF OneMaker
  <2>7. \A d \in Calls : PhaseOK(keyCall'[d]) /\ Judged(keyCall[d])' /\ ~Written(keyCall'[d])
    BY <1>3, <2>3, <2>4, <2>5 DEF KeyInv, Judged, PhaseOK, Written
  <2>8. \A d \in Calls : keyCall'[d].op = "create" => key'.exp = keyCall'[d].exp
    BY <1>0, <2>1, <2>5 DEF KeyInv, OneMaker
  <2>9. \A d \in Calls : keyCall'[d].late => Late'
    <3>1. Late => Late'
      BY <1>0, <2>3, <2>5 DEF Late, Done, Over
    <3> QED BY <2>5, <3>1 DEF KeyInv
  <2> QED BY <2>6, <2>7, <2>8, <2>9 DEF KeyInv, PhaseOK, Written
<1> QED BY <1>4, <1>5

LEMMA KeyFailOK ==
  ASSUME KeyInv, NEW c \in Calls, KeyFail(c)
  PROVE  KeyInv'
<1> DEFINE x == [keyCall[c] EXCEPT !.pc = "closed", !.out = "error"]
<1>1. /\ keyCall' = [keyCall EXCEPT ![c] = x] /\ UNCHANGED <<now, key>> /\ KeyLive(c)
      /\ keyCall[c] \in KeyCallType /\ key \in KeyType
  BY DEF KeyFail, KeyClose, KeyUpdate, vars, KeyLive, KeyInv, KeyTypes
<1>2. /\ x \in KeyCallType /\ x.op = keyCall[c].op /\ x.exp = keyCall[c].exp
      /\ x.late = keyCall[c].late /\ x.pc = "closed" /\ x.out = "error"
  BY <1>1 DEF KeyCallType, KeyPhases, Outcomes
<1>3. PhaseOK(x) /\ Judged(x) /\ ~Written(x)
  BY <1>2 DEF PhaseOK, Judged, Written
<1> HIDE DEF x
<1> QED BY <1>1, <1>2, <1>3, KeyCallStep

LEMMA KeyBeginOK ==
  ASSUME KeyInv, NEW c \in Calls, CreateKey(c) \/ AuthenticateKey(c) \/ RevokeKey(c)
  PROVE  KeyInv'
<1>1. CASE CreateKey(c)
  <2>1. PICK exp \in {0, now + KeyLife} :
          Begin(c, [NoKeyCall EXCEPT !.pc = "make", !.op = "create", !.exp = exp])
    BY <1>1 DEF CreateKey
  <2> DEFINE x == [NoKeyCall EXCEPT !.pc = "make", !.op = "create", !.exp = exp]
  <2>2. exp \in Nat
    BY KeyLifeAssumption DEF KeyInv, KeyTypes
  <2>3. x \in KeyCallType /\ x.pc = "make" /\ x.op = "create"
    BY <2>2, KeyConstants DEF KeyCallType, KeyPhases
  <2>4. \A d \in Calls : keyCall[d].op # "create"
    BY <1>1 DEF CreateKey
  <2>5. Begin(c, x)
    BY <2>1
  <2> HIDE DEF x
  <2> QED BY <2>3, <2>4, <2>5, BeginOK DEF PhaseOK
<1>2. CASE AuthenticateKey(c)
  <2>1. PICK genuine \in BOOLEAN :
          Begin(c, [NoKeyCall EXCEPT !.pc = "fetch", !.op = "authenticate", !.genuine = genuine])
    BY <1>2 DEF AuthenticateKey
  <2> DEFINE x == [NoKeyCall EXCEPT !.pc = "fetch", !.op = "authenticate", !.genuine = genuine]
  <2>2. x \in KeyCallType /\ x.pc = "fetch" /\ x.op = "authenticate"
    BY KeyConstants DEF KeyCallType, KeyPhases
  <2>3. Begin(c, x) /\ Done("create")
    BY <1>2, <2>1 DEF AuthenticateKey
  <2> HIDE DEF x
  <2> QED BY <2>2, <2>3, BeginOK DEF PhaseOK
<1>3. CASE RevokeKey(c)
  <2> DEFINE x == [NoKeyCall EXCEPT !.pc = SetPhase, !.op = "revoke"]
  <2>1. x \in KeyCallType /\ x.pc \in {"set", "exists"} /\ x.op = "revoke"
    BY KeyConstants DEF KeyCallType, KeyPhases, SetPhase
  <2>2. Begin(c, x) /\ Done("create")
    BY <1>3 DEF RevokeKey
  <2> HIDE DEF x
  <2> QED BY <2>1, <2>2, BeginOK DEF PhaseOK
<1> QED BY <1>1, <1>2, <1>3

\* Time makes a key that is over no better, and a restart ends the calls and may lose the key.
LEMMA KeyTickOK ==
  ASSUME KeyInv, KeyTick
  PROVE  KeyInv'
<1>1. now \in Nat /\ now' = now + 1 /\ keyCall' = keyCall
  BY DEF KeyTick, Tick, KeyInv, KeyTypes
<1>2. key' = key \/ key' = GoneKey
  BY DEF KeyTick
<1>3. /\ key' \in KeyType
      /\ key'.whole => key.whole /\ key'.exp = key.exp
      /\ key'.status = "active" => key.status = "active"
  BY <1>2, KeyConstants DEF KeyInv, KeyTypes
<1>4. \A d \in Calls : keyCall[d] \in KeyCallType
  BY DEF KeyInv, KeyTypes
<1>5. \A n \in Nat : Over(n) => Over(n)'
  BY <1>1 DEF Over
<1>6. Late => Late'
  BY <1>1, <1>4, <1>5 DEF Late, Done, KeyCallType
<1>7. KeyTypes' /\ OneMaker'
  BY <1>1, <1>2, <1>3, KeyConstants DEF KeyInv, KeyTypes, OneMaker, Done
<1>8. \A d \in Calls : Judged(keyCall[d])'
  <2> SUFFICES ASSUME NEW d \in Calls PROVE Judged(keyCall[d])'
    OBVIOUS
  <2>1. Judged(keyCall[d]) /\ keyCall[d].seen.exp \in Nat
    BY <1>4 DEF KeyInv, KeyCallType, KeyType
  <2> QED BY <1>1, <1>5, <2>1 DEF Judged
<1> QED BY <1>1, <1>2, <1>3, <1>6, <1>7, <1>8, KeyConstants DEF KeyInv, PhaseOK, Written

LEMMA KeyRestartOK ==
  ASSUME KeyInv, KeyRestart
  PROVE  KeyInv'
<1> DEFINE Stopped(x) == [x EXCEPT !.pc = "closed", !.out = "error"]
<1>1. now' = now /\ now \in Nat
  BY DEF KeyRestart, Restart, vars, KeyInv, KeyTypes
<1>2. key' = key \/ key' = GoneKey
  BY DEF KeyRestart
<1>3. /\ key' \in KeyType
      /\ key'.status = "active" => key.status = "active"
      /\ key'.whole => key.whole /\ key'.exp = key.exp
  BY <1>2, KeyConstants DEF KeyInv, KeyTypes
<1>4. \A d \in Calls : keyCall[d] \in KeyCallType
  BY DEF KeyInv, KeyTypes
<1>5. keyCall' = [d \in Calls |-> IF KeyLive(d) THEN Stopped(keyCall[d]) ELSE keyCall[d]]
  BY DEF KeyRestart
<1>6. \A d \in Calls :
        /\ keyCall'[d] \in KeyCallType /\ keyCall'[d].op = keyCall[d].op
        /\ keyCall'[d].exp = keyCall[d].exp /\ keyCall'[d].late = keyCall[d].late
        /\ KeyLive(d) => keyCall'[d].pc = "closed" /\ keyCall'[d].out = "error"
        /\ ~KeyLive(d) => keyCall'[d] = keyCall[d]
  BY <1>4, <1>5 DEF KeyCallType, KeyPhases, Outcomes
<1> HIDE DEF Stopped
<1>7. \A op : Done(op) => Done(op)'
  BY <1>6 DEF Done, KeyLive
<1>8. Late => Late'
  BY <1>1, <1>6, <1>7 DEF Late, Over
<1>9. KeyTypes'
  BY <1>1, <1>3, <1>5, <1>6 DEF KeyTypes
<1>10. OneMaker'
  BY <1>2, <1>3, <1>6, <1>7 DEF KeyInv, OneMaker
<1>11. \A d \in Calls : PhaseOK(keyCall'[d]) /\ Judged(keyCall[d])'
  <2> SUFFICES ASSUME NEW d \in Calls PROVE PhaseOK(keyCall'[d]) /\ Judged(keyCall[d])'
    OBVIOUS
  <2>1. PhaseOK(keyCall[d]) /\ Judged(keyCall[d])
    BY DEF KeyInv
  <2> QED BY <1>1, <1>6, <2>1 DEF PhaseOK, Judged, KeyLive, Over
<1>12. \A d \in Calls : Written(keyCall'[d]) => key'.status # "active"
  BY <1>2, <1>6, KeyConstants DEF KeyInv, Written
<1>13. \A d \in Calls : keyCall'[d].op = "create" /\ key'.whole => key'.exp = keyCall'[d].exp
  BY <1>2, <1>6, KeyConstants DEF KeyInv
<1>14. \A d \in Calls : keyCall'[d].late => Late'
  BY <1>6, <1>8 DEF KeyInv
<1> QED BY <1>9, <1>10, <1>11, <1>12, <1>13, <1>14 DEF KeyInv, PhaseOK, Written

LEMMA SessionStepOK ==
  ASSUME KeyInv, SessionStep, UNCHANGED <<key, keyCall>>
  PROVE  KeyInv'
<1>1. now' = now
  BY DEF SessionStep, IssueSession, Ask, Refresh, AuthenticateAccessToken, GetSession, Logout,
         Step, Rotate, ReadSession, JudgeSession, SetStatus, Exists, HSet, DeleteRefresh,
         Reread, Audit, Fail
<1> QED BY <1>1 DEF KeyInv, KeyTypes, OneMaker, PhaseOK, Judged, Written, Late, Done, Over

LEMMA KeyNextOK == KeyInv /\ [ServiceNext]_serviceVars => KeyInv'
<1> SUFFICES ASSUME KeyInv, [ServiceNext]_serviceVars PROVE KeyInv'
  OBVIOUS
<1>1. CASE SessionStep /\ UNCHANGED <<key, keyCall>>
  BY <1>1, SessionStepOK
<1>2. ASSUME NEW c \in Calls, CreateKey(c) \/ AuthenticateKey(c) \/ RevokeKey(c) \/ KeyStep(c)
      PROVE  KeyInv'
  BY <1>2, KeyBeginOK, KeyMakeOK, KeyReadOK, KeyStatusOK, KeyFailOK DEF KeyStep
<1>3. CASE KeyTick \/ KeyRestart
  BY <1>3, KeyTickOK, KeyRestartOK
<1>4. CASE UNCHANGED serviceVars
  BY <1>4 DEF serviceVars, vars, KeyInv, KeyTypes, OneMaker, PhaseOK, Judged, Written, Late,
              Done, Over
<1> QED BY <1>1, <1>2, <1>3, <1>4 DEF ServiceNext

\* An API key lets a call through only with its own secret, before its end and before any
\* answered revocation, over either store, whatever fails, vanishes or restarts in between.
THEOREM ApiKeysAreGood == ServiceSpec => []KeyIsGood
<1>1. ServiceInit => KeyInv
  BY KeyInitOK
<1>2. KeyInv /\ [ServiceNext]_serviceVars => KeyInv'
  BY KeyNextOK
<1>3. KeyInv => KeyIsGood
  BY DEF KeyInv, Judged, KeyIsGood
<1> QED BY <1>1, <1>2, <1>3, PTL DEF ServiceSpec

\* With API keys beside them the sessions behave as they do alone.
THEOREM ServiceIsSessions == ServiceSpec => Spec
<1>1. ServiceInit => Init
  BY DEF ServiceInit
<1>2. [ServiceNext]_serviceVars => [Next]_vars
  <2> SUFFICES ASSUME [ServiceNext]_serviceVars PROVE [Next]_vars
    OBVIOUS
  <2>1. CASE SessionStep \/ KeyTick \/ KeyRestart
    BY <2>1 DEF SessionStep, KeyTick, KeyRestart, Next
  <2>2. ASSUME NEW c \in Calls, CreateKey(c) \/ AuthenticateKey(c) \/ RevokeKey(c) \/ KeyStep(c)
        PROVE  UNCHANGED vars
    BY <2>2 DEF CreateKey, AuthenticateKey, RevokeKey, Begin, KeyStep, MakeKey, ExpireKey,
                AnswerKey, FetchKey, JudgeKey, AuditKey, SetKeyStatus, KeyExists, KeyHSet,
                KeyReread, KeyFail, vars
  <2>3. CASE UNCHANGED serviceVars
    BY <2>3 DEF serviceVars
  <2> QED BY <2>1, <2>2, <2>3 DEF ServiceNext
<1> QED BY <1>1, <1>2, PTL DEF ServiceSpec, Spec

\* So whatever holds of the sessions alone holds of the whole service: the promised lifecycle,
\* the end of a session by reuse or logout, and lifetimes that agree.
THEOREM ServiceKeepsSessions ==
  ServiceSpec => KeepsLifecycle /\ [](ReuseRevokes /\ LogoutIsFinal /\ LifetimesAgree)
BY ServiceIsSessions, KeptLifecycle, ReuseEnds, LogoutEnds, LifetimesKept, PTL
=============================================================================
