---------------------------- MODULE MCSyncClient ----------------------------
(***************************************************************************)
(* A small instance of SyncClient for TLC.                                 *)
(***************************************************************************)
EXTENDS SyncClient, TLC

CONSTANTS c1, c2, doc

\* One batch has two operations on the resource of the other's one.
Batches == [c \in Call |-> IF c = c1 THEN <<doc, doc>> ELSE <<doc>>]
=============================================================================
