----------------------------- MODULE SyncOrder ------------------------------
(***************************************************************************)
(* SyncClient, with the order in which the server admits the batches and   *)
(* the order of their writes remembered beside it.                         *)
(***************************************************************************)
EXTENDS SyncClient

VARIABLES rank,    \* the place of a batch in the order of admission, 0 before it
          writer   \* the batch that wrote a resource last

Admitted == {q \in Attempt : stage[q] = "travelling" /\ stage'[q] = "applying"}
Applied == {q \in Attempt : next[q] # 0 /\ next'[q] = next[q] + 1}

OrderInit ==
    /\ Init
    /\ rank = [q \in Attempt |-> 0]
    /\ writer = [r \in Resource |-> {}]

OrderNext ==
    /\ Next
    /\ rank' = [q \in Attempt |-> IF q \in Admitted THEN 1 + Cardinality({p \in Attempt : rank[p] # 0})
                                                    ELSE rank[q]]
    /\ writer' = [r \in Resource |-> IF store'[r] = store[r] THEN writer[r] ELSE Applied]

orderVars == <<vars, rank, writer>>

OrderSpec == OrderInit /\ [][OrderNext]_orderVars

\* "The last request received wins when multiple processes update the same
\* resource": a batch never overwrites what one that was received after it wrote.
OverwritesEarlier ==
    \A r \in Resource : \A p \in writer[r], q \in writer'[r] : p # q => rank[p] < rank[q]

LastReceivedWins == [][OverwritesEarlier]_orderVars

-----------------------------------------------------------------------------
(* Where it does hold: as long as no two requests that have a resource in  *)
(* common, repetitions of one call among them, are applied at a time.      *)

Touches(q) == {Batch[q[1]][i] : i \in DOMAIN Batch[q[1]]}

Collide(p, q) == Touches(p) \cap Touches(q) # {}

\* Nothing in the server sees to it; callers that serialize their calls, and do
\* not give up on one while it runs, do.
Separate == \A p, q \in Attempt :
    stage[p] = "applying" /\ stage[q] = "applying" /\ Collide(p, q) => p = q

Ranked == {q \in Attempt : rank[q] # 0}

\* Every attempt is admitted once, and later than those it may overwrite.
OrderInv ==
    /\ IInv
    /\ rank \in [Attempt -> Nat]
    /\ IsFiniteSet(Ranked)
    /\ \A q \in Attempt : /\ rank[q] <= Cardinality(Ranked)
                          /\ Ahead(q) => stage[q] = "none" /\ rank[q] = 0
                          /\ stage[q] = "travelling" => rank[q] = 0
                          /\ stage[q] = "applying" =>
                                \A p \in Attempt \ {q} : Collide(p, q) => rank[p] < rank[q]
    /\ \A r \in Resource : /\ \A p \in writer[r] : p \in Attempt /\ r \in Touches(p)
                           /\ \A p, q \in writer[r] : p = q
=============================================================================
