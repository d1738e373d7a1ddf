----------------------------- MODULE MCAccounts -----------------------------
(***************************************************************************)
(* Small instances of Accounts for TLC.                                    *)
(***************************************************************************)
EXTENDS Accounts, TLC

\* Demoted and disabled, or promoted and enabled.
Changes == {[role |-> "admin", status |-> "disabled"], [role |-> "owner", status |-> "active"]}

Symmetry == Permutations(Replica) \cup Permutations(Request)
              \cup Permutations(Password) \cup Permutations(Session)
=============================================================================
