--------------------------- MODULE OneTimeSecrets ---------------------------
(***************************************************************************)
(* What the token endpoint promises, without rows, locks or transactions:  *)
(* a secret (an authorization code or a refresh token) is worth exactly    *)
(* one successor, one that is spent is never worth anything again, and     *)
(* only codes come from nothing.                                           *)
(***************************************************************************)
CONSTANTS Secret,
          Root       \* secrets that are not obtained with another one

VARIABLES live,     \* secrets that can be redeemed
          spent     \* secrets that were redeemed or revoked

vars == <<live, spent>>

Unseen == Secret \ (live \cup spent)

Init == live = {} /\ spent = {}

Issue(s) == /\ s \in Unseen \cap Root
            /\ live' = live \cup {s}
            /\ UNCHANGED spent

Redeem(s, t) == /\ s \in live
                /\ t \in Unseen \ Root
                /\ live' = (live \ {s}) \cup {t}
                /\ spent' = spent \cup {s}

Revoke(S) == /\ S \subseteq live
             /\ live' = live \ S
             /\ spent' = spent \cup S

Next == \/ \E s \in Secret : Issue(s)
        \/ \E s, t \in Secret : Redeem(s, t)
        \/ \E S \in SUBSET Secret : Revoke(S)

Spec == Init /\ [][Next]_vars
=============================================================================
