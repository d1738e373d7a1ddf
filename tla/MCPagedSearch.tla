--------------------------- MODULE MCPagedSearch ---------------------------
(***************************************************************************)
(* Small instances of PagedSearch for TLC: two releases that disagree, one *)
(* of which rejects some data.                                             *)
(***************************************************************************)
EXTENDS PagedSearch

CONSTANTS old, new, plain, secret

MCRelease == {old, new}
MCData == {plain, secret}

\* Both releases permit plain to act on plain; the old one does not know how to
\* read a secret object, the new one permits it too.
MCVerdict == [q \in MCRelease \X MCData \X MCData |->
    CASE q[2] = plain /\ q[3] = plain -> "permit"
      [] q[2] = plain /\ q[3] = secret -> IF q[1] = new THEN "permit" ELSE "error"
      [] OTHER -> "deny"]

MCApplicable == [r \in MCRelease |->
    [k \in Key |-> IF r = new \/ k % 2 = 1 THEN plain ELSE Gone]]

MCQuery == plain
=============================================================================
