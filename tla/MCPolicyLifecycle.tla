------------------------- MODULE MCPolicyLifecycle -------------------------
(***************************************************************************)
(* Small instances of PolicyLifecycle for TLC.                             *)
(***************************************************************************)
EXTENDS PolicyLifecycle, TLC

CONSTANTS k1, u1, g1, title, owner

Make(isReady, declared, named) ==
    [valid |-> TRUE, ready |-> isReady, declares |-> declared, refs |-> named]

\* A schema without the contract, one with it, a policy that names a group and
\* a role, and one that names a group while its schema lacks the contract.
RoleDrafts == {Make(FALSE, {}, {}), Make(TRUE, {}, {}),
               Make(TRUE, {}, {g1, k1}), Make(FALSE, {}, {g1})}

\* Two schemas, neither of which declares all the other does, what they have
\* in common, and their union.
ResourceDrafts == {Make(FALSE, declared, {}) : declared \in SUBSET {title, owner}}

\* A schema for resources and one for roles.
MixedDrafts == {Make(FALSE, {title}, {}), Make(TRUE, {}, {})}

Symmetry == Permutations(Request) \cup Permutations(Release)
=============================================================================
