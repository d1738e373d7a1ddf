----------------------------- MODULE MCDecisions -----------------------------
(***************************************************************************)
(* Small instances of Decisions for TLC.                                   *)
(***************************************************************************)
EXTENDS Decisions, TLC

CONSTANTS ann, team, crew, guild, reader, v1, v2, v3

\* v1 lets readers in, v2 the team but for its readers, v3 names users only.
PermitsOf == [rel \in Release |-> CASE rel = v1 -> {reader} [] rel = v2 -> {team} [] rel = v3 -> {ann}]
ForbidsOf == [rel \in Release |-> IF rel = v2 THEN {reader} ELSE {}]

Symmetry == Permutations(Adder)
=============================================================================
