-------------------------- MODULE SessionLifecycle --------------------------
(***************************************************************************)
(* What the identity service promises of one session, whatever store keeps *)
(* it: a session is issued once, lives while its refresh token is rotated, *)
(* and once it is over it stays over.  A token is spent at most once.      *)
(***************************************************************************)
EXTENDS Naturals

VARIABLES
  phase,    \* absent, live or over
  current,  \* the refresh token that may be used, 0 if none
  spent     \* the refresh tokens that were exchanged for a new pair

vars == <<phase, current, spent>>

Init == phase = "absent" /\ current = 0 /\ spent = {}

Issue == /\ phase = "absent" /\ phase' = "live"
         /\ current' = 1
         /\ UNCHANGED spent

Rotate == /\ phase = "live"
          /\ current' \in Nat /\ current' \notin spent \union {0, current}
          /\ spent' = spent \union {current}
          /\ UNCHANGED phase

End == /\ phase = "live" /\ phase' = "over"
       /\ current' = 0
       /\ UNCHANGED spent

Next == Issue \/ Rotate \/ End

Spec == Init /\ [][Next]_vars
=============================================================================
