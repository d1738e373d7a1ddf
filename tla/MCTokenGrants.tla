--------------------------- MODULE MCTokenGrants ---------------------------
(***************************************************************************)
(* A small instance of TokenGrants for TLC, all of whose constants are     *)
(* model values; no symmetry, for one of its properties is liveness.       *)
(***************************************************************************)
EXTENDS TokenGrants
=============================================================================
