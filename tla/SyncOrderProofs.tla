-------------------------- MODULE SyncOrderProofs --------------------------
(***************************************************************************)
(* Proofs about SyncOrder: the last request received wins where requests   *)
(* that have a resource in common are applied one at a time.               *)
(***************************************************************************)
EXTENDS SyncOrder, SyncClientProofs, FiniteSetTheorems

-----------------------------------------------------------------------------
(* Ranks and writers.                                                      *)

\* What the ranks and the writers are known to be.
RanksSound ==
    /\ rank \in [Attempt -> Nat]
    /\ IsFiniteSet(Ranked)
    /\ \A q \in Attempt : rank[q] <= Cardinality(Ranked)

WritersSound ==
    \A r \in Resource : /\ \A p \in writer[r] : p \in Attempt /\ r \in Touches(p)
                        /\ \A p, q \in writer[r] : p = q

AttemptSound(q) ==
    /\ Ahead(q) => stage[q] = "none" /\ rank[q] = 0
    /\ stage[q] = "travelling" => rank[q] = 0
    /\ stage[q] = "applying" => \A p \in Attempt \ {q} : Collide(p, q) => rank[p] < rank[q]

LEMMA OrderParts ==
  OrderInv <=> IInv /\ RanksSound /\ WritersSound /\ \A q \in Attempt : AttemptSound(q)
  BY DEF OrderInv, RanksSound, WritersSound, AttemptSound

\* Resources change under an operation of a batch, and under nothing else.
LEMMA StoreKept ==
  ASSUME IInv, [Next]_vars, \A q \in Attempt : ~Apply(q)
  PROVE  UNCHANGED store
<1>1. ASSUME NEW c \in Call, Begin(c) \/ ClientStep(c) \/ FetchTrouble(c) \/ Break(c) \/ Drop(c)
      PROVE  UNCHANGED store
  BY <1>1 DEF Begin, ClientStep, UseCached, StartFetch, ReadCredentials, RefuseToken,
     IssueToken, CacheToken, DropToken, FetchTrouble, Break, Drop
<1>2. ASSUME NEW q \in Attempt, ServerStep(q) \/ Decline(q) \/ Vanish(q), ~Apply(q)
      PROVE  UNCHANGED store
  BY <1>2 DEF ServerStep, Admit, Unauthorized, Finish, Decline, Vanish, Reply
<1>3. ASSUME (\E k \in Secret : CreateSecret(k) \/ RevokeSecret(k))
               \/ (\E what \in Closable : Switch(what)) \/ UNCHANGED vars
      PROVE  UNCHANGED store
  BY <1>3 DEF CreateSecret, RevokeSecret, Switch, vars
<1>4. QED BY <1>1, <1>2, <1>3 DEF Next

\* The batch that writes a resource is the one whose operation it is.
LEMMA ApplyWrites ==
  ASSUME IInv, NEW q \in Attempt, Apply(q)
  PROVE  /\ stage[q] = "applying" /\ Applied = {q} /\ Admitted = {}
         /\ \A r \in Resource : store'[r] # store[r] => r \in Touches(q)
<1> DEFINE s == Batch[q[1]][next[q]]
           op == <<q[1], next[q]>>
<1>1. /\ stage[q] = "applying" /\ next[q] \in DOMAIN Batch[q[1]]
      /\ next' = [next EXCEPT ![q] = @ + 1]
      /\ Write(s, op) \/ UNCHANGED store
      /\ UNCHANGED stage
  BY DEF Apply
<1>2. q[1] \in Call /\ next \in [Attempt -> Nat] /\ store \in [Resource -> Operation \cup {NoWrite}]
  BY DEF Attempt, IInv, TypeOK
<1>3. next[q] # 0
  BY <1>1, <1>2, BatchAssumption
<1>4. s \in Touches(q)
  BY <1>1 DEF Touches
<1> HIDE DEF s, op
<1>5. Applied = {q}
  <2>1. \A p \in Attempt : next'[p] = IF p = q THEN next[p] + 1 ELSE next[p]
    BY <1>1, <1>2
  <2>2. \A p \in Attempt : next[p] # next[p] + 1
    BY <1>2
  <2>3. QED BY <1>3, <2>1, <2>2 DEF Applied
<1>6. Admitted = {}
  BY <1>1 DEF Admitted
<1>7. \A r \in Resource : store'[r] # store[r] => r = s
  BY <1>1, <1>2 DEF Write
<1>8. QED BY <1>1, <1>4, <1>5, <1>6, <1>7

\* The next rank is above all there are.
LEMMA NextRank ==
  ASSUME RanksSound, TypeOK, NEW q \in Attempt, rank[q] = 0,
         rank' = [rank EXCEPT ![q] = 1 + Cardinality(Ranked)]
  PROVE  RanksSound' /\ \A p \in Attempt \ {q} : rank'[p] < rank'[q]
<1>1. Cardinality(Ranked) \in Nat
  BY FS_CardinalityType DEF RanksSound
<1>2. q \notin Ranked
  BY DEF Ranked
<1>3. Ranked' = Ranked \cup {q}
  BY <1>1 DEF Ranked, RanksSound
<1>4. IsFiniteSet(Ranked \cup {q}) /\ Cardinality(Ranked \cup {q}) = Cardinality(Ranked) + 1
  BY <1>2, FS_AddElement DEF RanksSound
<1>5. IsFiniteSet(Ranked') /\ Cardinality(Ranked') = Cardinality(Ranked) + 1
  BY <1>3, <1>4
<1>6. rank' \in [Attempt -> Nat]
  BY <1>1 DEF RanksSound
<1>7. \A p \in Attempt : rank'[p] <= Cardinality(Ranked) + 1
  BY <1>1 DEF RanksSound
<1>8. \A p \in Attempt \ {q} : rank'[p] < rank'[q]
  BY <1>1 DEF RanksSound
<1>9. QED BY <1>5, <1>6, <1>7, <1>8 DEF RanksSound

\* A batch is admitted.
LEMMA AdmitOrder ==
  ASSUME OrderInv, Separate', NEW q \in Attempt, Admit(q), OrderNext
  PROVE  RanksSound' /\ WritersSound' /\ \A p \in Attempt : AttemptSound(p)'
<1>1. IInv /\ TypeOK /\ RanksSound /\ WritersSound /\ \A p \in Attempt : AttemptSound(p)
  BY OrderParts DEF IInv
<1>2. /\ stage[q] = "travelling" /\ stage' = [stage EXCEPT ![q] = "applying"]
      /\ UNCHANGED <<pc, round, attempt, store>>
  BY DEF Admit, calls
<1>3. Admitted = {q}
  BY <1>1, <1>2 DEF Admitted, TypeOK
<1>4. rank' = [rank EXCEPT ![q] = 1 + Cardinality(Ranked)]
  BY <1>1, <1>3 DEF OrderNext, Ranked, RanksSound
<1>5. rank[q] = 0 /\ ~Ahead(q)
  BY <1>1, <1>2 DEF AttemptSound
<1>6. RanksSound' /\ \A p \in Attempt \ {q} : rank'[p] < rank'[q]
  BY <1>1, <1>4, <1>5, NextRank
<1>7. writer' = [r \in Resource |-> writer[r]]
  BY <1>2 DEF OrderNext
<1>8. WritersSound'
  BY <1>1, <1>7 DEF WritersSound, Touches
<1>9. ASSUME NEW p \in Attempt
      PROVE  AttemptSound(p)'
  <2>1. CASE p = q
    <3>1. stage'[q] = "applying" /\ ~Ahead(q)'
      BY <1>1, <1>2, <1>5 DEF Ahead, TypeOK
    <3>2. QED BY <1>6, <2>1, <3>1 DEF AttemptSound
  <2>2. CASE p # q
    <3>1. stage'[p] = stage[p] /\ rank'[p] = rank[p] /\ (Ahead(p)' <=> Ahead(p))
      BY <1>1, <1>2, <1>4, <2>2 DEF TypeOK, RanksSound, Ahead
    <3>2. stage'[p] = "applying" => ~Collide(q, p)
      BY <1>1, <1>2, <2>2 DEF Separate, Collide, Touches, TypeOK
    <3>3. \A o \in Attempt \ {q} : rank'[o] = rank[o]
      BY <1>1, <1>4 DEF RanksSound
    <3>4. QED BY <1>1, <3>1, <3>2, <3>3 DEF AttemptSound, Collide, Touches
  <2>3. QED BY <2>1, <2>2
<1>10. QED BY <1>6, <1>8, <1>9

\* Any other step leaves the ranks, and writes only under the batch in its turn.
LEMMA OtherOrder ==
  ASSUME OrderInv, \A q \in Attempt : ~Admit(q), OrderNext
  PROVE  RanksSound' /\ WritersSound' /\ \A p \in Attempt : AttemptSound(p)'
<1>1. IInv /\ TypeOK /\ RanksSound /\ WritersSound /\ \A p \in Attempt : AttemptSound(p)
  BY OrderParts DEF IInv
<1>2. Next
  BY DEF OrderNext
<1>3. Kept
  BY <1>1, <1>2, NextKept DEF Fresh, AttemptSound
<1>4. Admitted = {}
  BY <1>3 DEF Kept, Admitted
<1>5. rank' = rank
  BY <1>1, <1>4 DEF OrderNext, RanksSound
<1>6. RanksSound'
  BY <1>1, <1>5 DEF RanksSound, Ranked
<1>7. WritersSound'
  <2>1. ASSUME NEW q \in Attempt, Apply(q)
        PROVE  WritersSound'
    <3>1. Applied = {q} /\ \A r \in Resource : store'[r] # store[r] => r \in Touches(q)
      BY <1>1, <2>1, ApplyWrites
    <3>2. \A r \in Resource : writer'[r] = IF store'[r] = store[r] THEN writer[r] ELSE {q}
      BY <3>1 DEF OrderNext
    <3>3. QED BY <1>1, <3>1, <3>2 DEF WritersSound, Touches
  <2>2. CASE UNCHANGED store
    BY <1>1, <2>2 DEF OrderNext, WritersSound, Touches
  <2>3. QED BY <1>1, <1>2, <2>1, <2>2, StoreKept
<1>8. ASSUME NEW p \in Attempt
      PROVE  AttemptSound(p)'
  BY <1>1, <1>3, <1>5 DEF AttemptSound, Kept, Collide, Touches
<1>9. QED BY <1>6, <1>7, <1>8

\* One step of requests that keep apart.
LEMMA OrderStep ==
  ASSUME OrderInv, Separate', [OrderNext]_orderVars
  PROVE  OrderInv'
<1>1. CASE OrderNext
  <2>1. IInv'
    BY <1>1, NextKeeps DEF OrderNext, OrderInv
  <2>2. QED BY <1>1, <2>1, AdmitOrder, OtherOrder, OrderParts DEF OrderInv, RanksSound,
          WritersSound, AttemptSound
<1>2. CASE UNCHANGED orderVars
  <2>1. IInv'
    BY <1>2, StutterKeeps DEF OrderInv, orderVars
  <2>2. UNCHANGED <<rank, writer, pc, round, attempt, stage>>
    BY <1>2 DEF orderVars, vars, calls, requests
  <2>3. QED BY <2>1, <2>2 DEF OrderInv, Ranked, Ahead, Collide, Touches
<1>3. QED BY <1>1, <1>2

\* What is overwritten was written by a batch received earlier.
LEMMA OverwritesStep ==
  ASSUME OrderInv, [OrderNext]_orderVars
  PROVE  OverwritesEarlier
<1>1. IInv /\ WritersSound /\ \A p \in Attempt : AttemptSound(p)
  BY OrderParts
<1>2. ASSUME NEW q \in Attempt, Apply(q), OrderNext
      PROVE  OverwritesEarlier
  <2>1. /\ Applied = {q} /\ stage[q] = "applying"
        /\ \A r \in Resource : store'[r] # store[r] => r \in Touches(q)
    BY <1>1, <1>2, ApplyWrites
  <2>2. \A r \in Resource : writer'[r] = IF store'[r] = store[r] THEN writer[r] ELSE {q}
    BY <1>2, <2>1 DEF OrderNext
  <2>3. \A p \in Attempt \ {q} : Collide(p, q) => rank[p] < rank[q]
    BY <1>1, <2>1 DEF AttemptSound
  <2>4. QED BY <1>1, <2>1, <2>2, <2>3 DEF WritersSound, OverwritesEarlier, Collide
<1>3. CASE OrderNext /\ UNCHANGED store
  BY <1>1, <1>3 DEF OrderNext, WritersSound, OverwritesEarlier
<1>4. CASE UNCHANGED orderVars
  BY <1>1, <1>4 DEF orderVars, WritersSound, OverwritesEarlier
<1>5. QED BY <1>1, <1>2, <1>3, <1>4, StoreKept DEF OrderNext

\* "The last request received wins" (README.md:242) is true of callers that
\* see to it that no two requests about the same resource are applied at a time,
\* a request they gave up on and its repetition included.
THEOREM SeparateLastWins == OrderSpec /\ []Separate => LastReceivedWins
<1>1. OrderInit => OrderInv
  <2>1. ASSUME OrderInit
        PROVE  Ranked = {}
    BY <2>1 DEF OrderInit, Ranked
  <2>2. ASSUME OrderInit
        PROVE  RanksSound
    BY <2>1, <2>2, FS_EmptySet DEF OrderInit, RanksSound
  <2>3. ASSUME OrderInit
        PROVE  WritersSound /\ \A q \in Attempt : AttemptSound(q)
    BY <2>3 DEF OrderInit, Init, WritersSound, AttemptSound
  <2>4. QED BY <2>2, <2>3, InitIInv, OrderParts DEF OrderInit
<1>2. OrderInv /\ Separate' /\ [OrderNext]_orderVars => OrderInv'
  BY OrderStep
<1>3. OrderInv /\ [OrderNext]_orderVars => [OverwritesEarlier]_orderVars
  BY OverwritesStep
<1>4. QED BY <1>1, <1>2, <1>3, PTL DEF OrderSpec, LastReceivedWins
=============================================================================
