------------------------------- MODULE SingleUse -------------------------------
(***************************************************************************)
(* What the nonce of an encrypted body is for (encrypted-body.service.ts,  *)
(* claimNonce), with no request, clock or key in sight: a token that is    *)
(* used or wasted is remembered, and no good while it is.  What is         *)
(* remembered of a token may expire, which gives it another life, but it   *)
(* has no more than MaxLives of them until everything is forgotten.        *)
(* Module EncryptedBody implements it.                                     *)
(***************************************************************************)
EXTENDS Naturals

CONSTANTS Tokens, MaxLives

VARIABLES
  spent,    \* the tokens remembered as used or wasted
  lives,    \* lives[t]: how often t was used or wasted since all was forgotten
  uses      \* uses[t]: how often token t has been used

Init ==
  /\ spent = {}
  /\ lives = [t \in Tokens |-> 0]
  /\ uses = [t \in Tokens |-> 0]

Spend(t) ==
  /\ t \notin spent /\ lives[t] < MaxLives
  /\ spent' = spent \cup {t}
  /\ lives' = [lives EXCEPT ![t] = @ + 1]

Use(t) == Spend(t) /\ uses' = [uses EXCEPT ![t] = @ + 1]

Waste(t) == Spend(t) /\ UNCHANGED uses

Expire == spent' \subseteq spent /\ UNCHANGED <<lives, uses>>

Forget == spent' = {} /\ lives' = [t \in Tokens |-> 0] /\ UNCHANGED uses

Next == (\E t \in Tokens : Use(t) \/ Waste(t)) \/ Expire \/ Forget

Spec == Init /\ [][Next]_<<spent, lives, uses>>
===============================================================================
