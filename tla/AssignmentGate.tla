--------------------------- MODULE AssignmentGate ---------------------------
(***************************************************************************)
(* What the policy store promises to the role assignments of one           *)
(* application, without releases, transactions or locks: a relation that   *)
(* may be non-empty only while the schema in force satisfies the           *)
(* User/Group/Role contract.  PolicyLifecycle implements it.               *)
(***************************************************************************)

CONSTANT Pair            \* every <<role, subject>> that may be assigned

VARIABLES gateOpen,      \* the schema in force satisfies the contract
          granted        \* the assignments

vars == <<gateOpen, granted>>

Init == /\ gateOpen = FALSE
        /\ granted = {}

\* Another release comes into force; one that does not satisfy the contract
\* only while nothing is assigned.
Switch == /\ gateOpen' \in BOOLEAN
          /\ granted = {} \/ gateOpen'
          /\ UNCHANGED granted

Grant(p) == /\ gateOpen
            /\ granted' = granted \cup {p}
            /\ UNCHANGED gateOpen

Withdraw(p) == /\ granted' = granted \ {p}
               /\ UNCHANGED gateOpen

Next == Switch \/ \E p \in Pair : Grant(p) \/ Withdraw(p)

Spec == Init /\ [][Next]_vars
=============================================================================
