---------------------------- MODULE MCSyncOrder -----------------------------
(***************************************************************************)
(* A small instance of SyncOrder for TLC.                                  *)
(***************************************************************************)
EXTENDS SyncOrder, TLC

CONSTANTS c1, c2, doc, note

\* A batch of two operations and one of one that have a resource in common.
Batches == [c \in Call |-> IF c = c1 THEN <<note, doc>> ELSE <<doc>>]
=============================================================================
