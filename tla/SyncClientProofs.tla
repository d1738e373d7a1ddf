-------------------------- MODULE SyncClientProofs --------------------------
(***************************************************************************)
(* Proofs about SyncClient, for any number of calls, batches, secrets and  *)
(* strays.                                                                 *)
(***************************************************************************)
EXTENDS SyncClient, TLAPS

USE BatchAssumption, MineAssumption, BoundAssumption, NobodyAssumption

\* What is known of the call that is alone.
LoneSound == AloneSound /\ WritesShow /\ ReportsBehind /\ OneAtATime

\* Nothing has begun.
LEMMA InitIInv == Init => IInv
<1> USE DEF Init
<1>1. Init => TypeOK
  BY DEF TypeOK, Fetching, Ended, Running
<1>2. Init => MutexHeld /\ OldTokensGone /\ RevocationSound /\ ClosedToNewBatches
  BY DEF MutexHeld, OldTokensGone, RevocationSound, OneTokenAfterRevocation,
         ClosedToNewBatches, Open, Fetching
<1>3. Init => LoneSound
  BY DEF LoneSound, AloneSound, AtRest, WritesShow, ReportsBehind, OneAtATime
<1>4. QED BY <1>1, <1>2, <1>3 DEF IInv, LoneSound

-----------------------------------------------------------------------------
(* What the parts of the actions do.                                       *)

\* A call returns, sends its batch again or is refused: nobody else changes,
\* and it neither begins nor takes the mutex.
Ends(c) ==
    /\ \A d \in Call \ {c} : /\ pc'[d] = pc[d] /\ round'[d] = round[d]
                             /\ token'[d] = token[d]
    /\ \/ pc'[c] \in Ended /\ round'[c] = 1
       \/ pc'[c] = "wait" /\ round'[c] = round[c] /\ token'[c] = token[c]
       \/ pc'[c] = "drop" /\ round'[c] = 1

Typed(c) ==
    /\ pc' \in [Call -> {"idle", "lock", "wait", "drop"} \cup Fetching \cup Ended]
    /\ round' \in [Call -> {1, 2}]
    /\ attempt' \in [Call -> {0, 1}]
    /\ token' \in [Call -> SUBSET Call]
    /\ report' \in SUBSET Nat

LEMMA ReturnEnds ==
  ASSUME TypeOK, NEW c \in Call, NEW outcome \in Ended, NEW told \in SUBSET Nat,
         Return(c, outcome, told)
  PROVE  /\ Ends(c) /\ Typed(c)
         /\ pc'[c] = outcome /\ (c \in alone => report' = told)
  BY DEF Return, Ends, Typed, TypeOK, Ended

LEMMA PostWaits ==
  ASSUME TypeOK, NEW c \in Call, NEW t \in SUBSET Call, NEW a \in {0, 1}, Post(c, t, a)
  PROVE  /\ Typed(c)
         /\ \A d \in Call \ {c} : pc'[d] = pc[d] /\ token'[d] = token[d]
         /\ pc'[c] = "wait" /\ token'[c] = t
         /\ UNCHANGED <<round, report>>
  BY DEF Post, Typed, TypeOK

LEMMA CurrentAttempt ==
  ASSUME TypeOK, NEW c \in Call
  PROVE  /\ Current(c) \in Attempt /\ <<c, round[c], 1>> \in Attempt
         /\ <<c, round[c], 0>> \in Attempt /\ Current(c)[1] = c
  BY DEF TypeOK, Current, Attempt

\* Requests of c only move, and none of them into the handler.
Moves(c) ==
    /\ stage' \in [Attempt -> {"none"} \cup Running]
    /\ \A q \in Attempt : stage'[q] # stage[q] => q[1] = c
    /\ \A q \in Attempt : stage'[q] = "applying" => stage[q] = "applying"

LEMMA ClearMoves ==
  ASSUME TypeOK, NEW c \in Call, NEW rest, rest \in {"none", stage[Current(c)]},
         \/ stage' = [stage EXCEPT ![Current(c)] = rest]
         \/ stage' = [stage EXCEPT ![Current(c)] = rest, ![<<c, round[c], 1>>] = "travelling"]
  PROVE  Moves(c)
<1> DEFINE p == Current(c)
           r == <<c, round[c], 1>>
<1>1. p \in Attempt /\ r \in Attempt /\ p[1] = c /\ r[1] = c
  BY CurrentAttempt
<1>2. stage \in [Attempt -> {"none"} \cup Running]
  BY DEF TypeOK
<1>3. stage' = [stage EXCEPT ![p] = rest] \/ stage' = [stage EXCEPT ![p] = rest, ![r] = "travelling"]
  OBVIOUS
<1>4. rest \in {"none", stage[p]}
  OBVIOUS
<1> HIDE DEF p, r
<1>5. QED BY <1>1, <1>2, <1>3, <1>4 DEF Moves, Running

LEMMA ResendEnds ==
  ASSUME TypeOK, NEW c \in Call, pc[c] = "wait",
         NEW rest, rest \in {"none", stage[Current(c)]}, Resend(c, rest)
  PROVE  /\ Ends(c) /\ Typed(c) /\ pc'[c] = "wait" /\ report' = report
         /\ Moves(c)
<1>1. Post(c, token[c], 1) /\ token[c] \in SUBSET Call
  BY DEF Resend, TypeOK
<1>2. Ends(c) /\ Typed(c) /\ pc'[c] = "wait" /\ report' = report
  BY <1>1, PostWaits DEF Ends
<1>3. QED BY <1>2, ClearMoves DEF Resend

LEMMA RespondEnds ==
  ASSUME TypeOK, NEW c \in Call, pc[c] = "wait", NEW answer, NEW told \in SUBSET Nat,
         Respond(c, answer, told)
  PROVE  /\ Ends(c) /\ Typed(c) /\ Moves(c)
         /\ pc'[c] = "ok" => answer = "success" /\ (c \in alone => report' = told)
<1>1. CASE answer = "unavailable" /\ attempt[c] = 0
  BY <1>1, ResendEnds DEF Respond
<1>2. CASE ~(answer = "unavailable" /\ attempt[c] = 0) /\ answer = "unauthorized" /\ round[c] = 1
  <2>1. /\ pc' = [pc EXCEPT ![c] = "drop"]
        /\ stage' = [stage EXCEPT ![Current(c)] = "none"]
        /\ UNCHANGED <<round, attempt, token, report>>
    BY <1>2 DEF Respond
  <2>2. Ends(c) /\ Typed(c) /\ pc'[c] = "drop"
    BY <1>2, <2>1 DEF Ends, Typed, TypeOK
  <2>3. QED BY <2>1, <2>2, ClearMoves
<1>3. CASE ~(answer = "unavailable" /\ attempt[c] = 0) /\ ~(answer = "unauthorized" /\ round[c] = 1)
  <2>1. /\ (answer = "success" /\ Return(c, "ok", told)) \/ Return(c, "failed", {})
        /\ stage' = [stage EXCEPT ![Current(c)] = "none"]
    BY <1>3 DEF Respond
  <2>2. Ends(c) /\ Typed(c) /\ (pc'[c] = "ok" => answer = "success" /\ (c \in alone => report' = told))
    BY <2>1, ReturnEnds DEF Ended
  <2>3. QED BY <2>1, <2>2, ClearMoves
<1>4. QED BY <1>1, <1>2, <1>3

\* A handler ends.
LEMMA ReplyEnds ==
  ASSUME IInv, NEW q \in Attempt, stage[q] \in Running, NEW answer, Reply(q, answer)
  PROVE  /\ q[1] \in Call /\ Typed(q[1]) /\ Moves(q[1]) /\ stage'[q] = "none"
         /\ \/ /\ Ends(q[1]) /\ pc[q[1]] = "wait"
               /\ pc'[q[1]] = "ok" => /\ answer = "success"
                                      /\ q[1] \in alone => report' = applied[q]
            \/ UNCHANGED calls
<1>1. q[1] \in Call
  BY DEF Attempt
<1>2. CASE Awaited(q)
  <2>1. Respond(q[1], answer, applied[q]) /\ pc[q[1]] = "wait" /\ Current(q[1]) = q
    BY <1>2 DEF Awaited, Reply
  <2>2. applied[q] \in SUBSET Nat
    BY DEF IInv, TypeOK
  <2>3. stage'[q] = "none"
    <3>1. <<q[1], round[q[1]], 1>> # q \/ attempt[q[1]] # 0
      BY <2>1 DEF Current
    <3>2. \/ stage' = [stage EXCEPT ![q] = "none"]
          \/ attempt[q[1]] = 0 /\ stage' = [stage EXCEPT ![q] = "none",
                                                         ![<<q[1], round[q[1]], 1>>] = "travelling"]
      BY <2>1 DEF Respond, Resend
    <3>3. QED BY <3>1, <3>2 DEF IInv, TypeOK
  <2>4. QED BY <1>1, <2>1, <2>2, <2>3, RespondEnds DEF IInv
<1>3. CASE ~Awaited(q)
  <2>1. stage' = [stage EXCEPT ![q] = "none"] /\ UNCHANGED calls
    BY <1>3 DEF Reply
  <2>2. Typed(q[1])
    BY <2>1 DEF calls, Typed, IInv, TypeOK
  <2>3. Moves(q[1]) /\ stage'[q] = "none"
    BY <2>1 DEF Moves, IInv, TypeOK, Running
  <2>4. QED BY <1>1, <2>1, <2>2, <2>3
<1>4. QED BY <1>2, <1>3

-----------------------------------------------------------------------------
(* Calls that end, and handlers.                                           *)

\* The requests in Q are over.
Over(Q) ==
    /\ next' \in [Attempt -> Nat]
    /\ applied' \in [Attempt -> SUBSET Nat]
    /\ carried' \in SUBSET Attempt
    /\ \A p \in Attempt : applied'[p] = {} \/ (applied'[p] = applied[p] /\ next'[p] = next[p])
    /\ \A p \in Attempt : p \in carried /\ stage'[p] = "applying" => p \in carried'

LEMMA DismissOver ==
  ASSUME IInv, NEW Q, \A p \in Q : stage'[p] = "none", Dismiss(Q)
  PROVE  Over(Q)
<1>1. next' \in [Attempt -> Nat] /\ applied' \in [Attempt -> SUBSET Nat]
  BY DEF Dismiss, IInv, TypeOK
<1>2. \A p \in Attempt : applied'[p] = {} \/ (applied'[p] = applied[p] /\ next'[p] = next[p])
  BY DEF Dismiss, IInv, TypeOK
<1>3. carried' \in SUBSET Attempt
  BY DEF Dismiss, IInv, TypeOK
<1>4. QED BY <1>1, <1>2, <1>3 DEF Over, Dismiss

\* A resource shows the same as long as it is not written.
LEMMA ShowsSame ==
  ASSUME UNCHANGED <<store, mixed>>
  PROVE  \A c \in Call : \A i : Shows(c, i)' <=> Shows(c, i)
  BY DEF Shows

\* Who is not at rest is the only one that can be alone.
LEMMA OnlyOne ==
  ASSUME IInv, NEW c \in Call, ~AtRest(c), NEW d \in alone
  PROVE  d = c
  BY DEF IInv, AloneSound

\* A request of c ends, and nothing else becomes of its call.
LEMMA LeavesKeeps ==
  ASSUME IInv, NEW q \in Attempt, stage[q] \in Running, Moves(q[1]), NEW Q, Over(Q),
         UNCHANGED <<calls, lone, store>>
  PROVE  LoneSound'
<1> USE DEF IInv, calls, lone
<1>1. q[1] \in Call /\ ~AtRest(q[1])
  BY DEF Attempt, AtRest, Running
<1>2. \A p \in Attempt : stage'[p] = "applying" => stage[p] = "applying"
  BY DEF Moves
<1>3. \A d \in Call : AtRest(d) => AtRest(d)'
  BY <1>1 DEF AtRest, Moves
<1>4. AloneSound'
  BY <1>3 DEF AloneSound
<1>5. WritesShow' /\ ReportsBehind'
  <2>1. WritesShow'
    BY <1>2, ShowsSame DEF WritesShow, Over, TypeOK
  <2>2. ReportsBehind'
    BY DEF ReportsBehind, Over
  <2>3. QED BY <2>1, <2>2
<1>6. OneAtATime'
  BY <1>2 DEF OneAtATime
<1>7. QED BY <1>4, <1>5, <1>6 DEF LoneSound

LEMMA EndKeeps ==
  ASSUME IInv, NEW c \in Call, pc[c] \notin Ended \cup {"idle"},
         Ends(c), Typed(c), Moves(c), NEW Q, Over(Q),
         pc'[c] \in {"wait", "drop"} => pc[c] = "wait",
         pc'[c] = "ok" => \E q \in Attempt : /\ q[1] = c
                                             /\ stage[q] = "applying" /\ stage'[q] = "none"
                                             /\ c \in alone => report' = applied[q],
         holder' = IF holder = c THEN Nobody ELSE holder,
         UNCHANGED <<cached, access, late, lone, store>>
  PROVE  IInv'
<1> USE DEF IInv
<1>1. TypeOK'
  BY DEF TypeOK, Typed, Moves, Over, access, lone
<1>2. MutexHeld'
  BY DEF MutexHeld, Ends, Fetching, Ended, TypeOK
<1>3. OldTokensGone'
  <2>1. ASSUME NEW d \in Call, pc'[d] = "offered" PROVE pc[d] = "offered" /\ token'[d] = token[d]
    BY <2>1 DEF Ends, Ended
  <2>2. ASSUME NEW d \in Call, round'[d] = 2
        PROVE  /\ round[d] = 2 /\ pc'[d] = pc[d] /\ token'[d] = token[d]
    BY <2>2 DEF Ends, Ended
  <2>3. QED BY <2>1, <2>2 DEF OldTokensGone
<1>4. RevocationSound' /\ ClosedToNewBatches'
  <2>1. RevocationSound'
    BY DEF RevocationSound, OneTokenAfterRevocation, Ends, Ended, access
  <2>2. ClosedToNewBatches'
    BY DEF ClosedToNewBatches, access, Moves, Over, Open
  <2>3. QED BY <2>1, <2>2
<1>5. UNCHANGED <<alone, mixed, store>> /\ \A d \in alone : d = c
  BY OnlyOne DEF AtRest, lone
<1>6. AloneSound'
  <2>1. ASSUME NEW d \in Call, d # c PROVE pc'[d] = pc[d] /\ (AtRest(d) => AtRest(d)')
    BY <2>1 DEF Ends, AtRest, Moves
  <2>2. pc'[c] # "idle"
    BY DEF Ends, Ended
  <2>3. QED BY <1>5, <2>1, <2>2 DEF AloneSound
<1>7. \A q \in Attempt : stage'[q] = "applying" => stage[q] = "applying"
  BY DEF Moves
<1>8. WritesShow'
  <2>1. \A q \in Attempt : applied'[q] = {} \/ applied'[q] = applied[q]
    BY DEF Over
  <2>2. \A d \in alone : \A i : Shows(d, i)' <=> Shows(d, i)
    BY <1>5, ShowsSame DEF TypeOK
  <2>3. c \in alone /\ pc'[c] = "ok" => \A i \in report' : Shows(c, i)
    BY DEF WritesShow
  <2>4. QED BY <1>5, <1>7, <2>1, <2>2, <2>3 DEF WritesShow
<1>9. ReportsBehind'
  BY DEF ReportsBehind, Over
<1>10. OneAtATime'
  <2>1. ASSUME NEW q \in Attempt, stage'[q] = "applying", q[1] \in alone \ mixed
        PROVE  pc'[q[1]] # "ok" /\ \A p \in Attempt : p[1] = q[1] /\ stage[p] = "applying" => p = q
    <3>1. q[1] = c /\ stage[q] = "applying"
      BY <1>5, <1>7, <2>1
    <3>2. \A p \in Attempt : p[1] = q[1] /\ stage[p] = "applying" => p = q
      BY <2>1, <3>1 DEF OneAtATime
    <3>3. QED BY <2>1, <3>1, <3>2
  <2>2. QED BY <1>5, <1>7, <2>1 DEF OneAtATime
<1>11. QED BY <1>1, <1>2, <1>3, <1>4, <1>6, <1>8, <1>9, <1>10

\* A handler ends, whether its call waits for the answer or not.
LEMMA ReplyStep ==
  ASSUME IInv, NEW q \in Attempt, stage[q] \in Running, NEW answer, Reply(q, answer),
         answer = "success" => stage[q] = "applying"
  PROVE  IInv'
<1>1. Over({q})
  BY ReplyEnds, DismissOver DEF Reply
<1>2. UNCHANGED <<cache, access, late, lone, store>>
  BY DEF Reply
<1>3. CASE UNCHANGED calls
  <2> USE <1>1, <1>2, <1>3 DEF IInv, calls, cache
  <2>1. TypeOK'
    BY ReplyEnds DEF TypeOK, Typed, Moves, Over, access, lone
  <2>2. MutexHeld' /\ OldTokensGone' /\ RevocationSound'
    BY DEF MutexHeld, OldTokensGone, RevocationSound, OneTokenAfterRevocation, access
  <2>3. ClosedToNewBatches'
    BY ReplyEnds DEF ClosedToNewBatches, access, Moves, Over, Open
  <2>4. LoneSound'
    BY ReplyEnds, LeavesKeeps
  <2>5. QED BY <2>1, <2>2, <2>3, <2>4 DEF LoneSound
<1>4. CASE /\ Ends(q[1]) /\ pc[q[1]] = "wait"
           /\ pc'[q[1]] = "ok" => /\ answer = "success"
                                  /\ q[1] \in alone => report' = applied[q]
  <2>1. holder # q[1]
    BY <1>4, ReplyEnds DEF IInv, MutexHeld, Fetching
  <2>2. pc[q[1]] \notin Ended \cup {"idle"}
    BY <1>4 DEF Ended
  <2>3. QED BY <1>1, <1>2, <1>4, <2>1, <2>2, ReplyEnds, EndKeeps DEF cache
<1>5. QED BY <1>3, <1>4, ReplyEnds

LEMMA RefuseStep ==
  ASSUME IInv, NEW c \in Call, RefuseToken(c)
  PROVE  IInv'
<1>1. Ends(c) /\ Typed(c) /\ pc'[c] = "failed"
  BY ReturnEnds DEF RefuseToken, IInv, Ended
<1>2. Moves(c) /\ Over({})
  BY DEF RefuseToken, requests, Moves, Over, IInv, TypeOK
<1>3. holder = c
  BY DEF RefuseToken, IInv, MutexHeld, Fetching
<1>4. QED BY <1>1, <1>2, <1>3, EndKeeps DEF RefuseToken, Ended

LEMMA FetchTroubleStep ==
  ASSUME IInv, NEW c \in Call, FetchTrouble(c)
  PROVE  IInv'
<1>1. holder = c
  BY DEF FetchTrouble, IInv, MutexHeld, Fetching
<1>2. CASE Return(c, "failed", {}) /\ holder' = Nobody
  <2>1. Ends(c) /\ Typed(c) /\ pc'[c] = "failed"
    BY <1>2, ReturnEnds DEF IInv, Ended
  <2>2. Moves(c) /\ Over({})
    BY DEF FetchTrouble, requests, Moves, Over, IInv, TypeOK
  <2>3. QED BY <1>1, <1>2, <2>1, <2>2, EndKeeps DEF FetchTrouble, Ended
<1>3. CASE /\ attempt' = [attempt EXCEPT ![c] = 1]
           /\ pc' = [pc EXCEPT ![c] = "fetch"]
           /\ UNCHANGED <<round, token, report, holder>>
  <2> USE <1>3 DEF IInv, FetchTrouble, requests
  <2>1. TypeOK'
    BY DEF TypeOK, Fetching, access, lone
  <2>2. MutexHeld' /\ OldTokensGone' /\ RevocationSound'
    BY DEF MutexHeld, OldTokensGone, RevocationSound, OneTokenAfterRevocation, access, Fetching,
           TypeOK
  <2>3. ClosedToNewBatches'
    BY DEF ClosedToNewBatches, Open, access
  <2>4. LoneSound'
    <3>1. \A d \in Call : pc'[d] = IF d = c THEN "fetch" ELSE pc[d]
      BY DEF TypeOK
    <3>2. \A d \in Call : AtRest(d)' <=> AtRest(d)
      BY <3>1 DEF AtRest, Ended
    <3>3. AloneSound' /\ ReportsBehind'
      BY <3>1, <3>2 DEF AloneSound, ReportsBehind, lone
    <3>4. WritesShow' /\ OneAtATime'
      BY <3>1, ShowsSame DEF WritesShow, OneAtATime, lone, Attempt, TypeOK
    <3>5. QED BY <3>3, <3>4 DEF LoneSound
  <2>5. QED BY <2>1, <2>2, <2>3, <2>4 DEF LoneSound
<1>4. QED BY <1>2, <1>3 DEF FetchTrouble

LEMMA AbandonedRest ==
  ASSUME NEW c \in Call
  PROVE  Abandoned(Current(c)) \in {"none", stage[Current(c)]}
  BY DEF Abandoned

\* The request that was awaited is what became of it.
LEMMA ClearedGone ==
  ASSUME TypeOK, NEW c \in Call, NEW rest,
         \/ /\ attempt[c] = 0
            /\ stage' = [stage EXCEPT ![Current(c)] = rest, ![<<c, round[c], 1>>] = "travelling"]
         \/ stage' = [stage EXCEPT ![Current(c)] = rest]
  PROVE  stage'[Current(c)] = rest
<1> DEFINE p == Current(c)
           r == <<c, round[c], 1>>
<1>1. p \in Attempt /\ r \in Attempt
  BY CurrentAttempt
<1>2. attempt[c] = 0 => p # r
  BY DEF Current
<1>3. stage \in [Attempt -> {"none"} \cup Running]
  BY DEF TypeOK
<1>4. \/ attempt[c] = 0 /\ stage' = [stage EXCEPT ![p] = rest, ![r] = "travelling"]
      \/ stage' = [stage EXCEPT ![p] = rest]
  OBVIOUS
<1> HIDE DEF p, r
<1>5. stage'[p] = rest
  BY <1>1, <1>2, <1>3, <1>4
<1>6. QED BY <1>5 DEF p

LEMMA BreakStep ==
  ASSUME IInv, NEW c \in Call, Break(c)
  PROVE  IInv'
<1>1. pc[c] = "wait" /\ holder # c
  BY DEF Break, IInv, MutexHeld, Fetching
<1>2. \/ Resend(c, Abandoned(Current(c)))
      \/ Return(c, "failed", {}) /\ stage' = [stage EXCEPT ![Current(c)] = Abandoned(Current(c))]
  BY DEF Break
<1>3. /\ Ends(c) /\ Typed(c) /\ Moves(c)
      /\ pc'[c] \in {"wait", "failed"}
  <2> DEFINE rest == Abandoned(Current(c))
  <2>1. rest \in {"none", stage[Current(c)]} /\ TypeOK
    BY AbandonedRest DEF IInv
  <2>2. Resend(c, rest) \/ (Return(c, "failed", {}) /\ stage' = [stage EXCEPT ![Current(c)] = rest])
    BY <1>2
  <2> HIDE DEF rest
  <2>3. CASE Resend(c, rest)
    BY <1>1, <2>1, <2>3, ResendEnds
  <2>4. CASE Return(c, "failed", {}) /\ stage' = [stage EXCEPT ![Current(c)] = rest]
    <3>1. Ends(c) /\ Typed(c) /\ pc'[c] = "failed"
      BY <2>1, <2>4, ReturnEnds DEF Ended
    <3>2. QED BY <2>1, <2>4, <3>1, ClearMoves
  <2>5. QED BY <2>2, <2>3, <2>4
<1>4. \E Q : Over(Q)
  <2> DEFINE Q == IF Abandoned(Current(c)) = "none" THEN {Current(c)} ELSE {}
  <2>1. Abandoned(Current(c)) = "none" => stage'[Current(c)] = "none"
    <3>1. stage'[Current(c)] = Abandoned(Current(c))
      BY <1>2, ClearedGone DEF Resend, IInv
    <3>2. QED BY <3>1
  <2>2. Dismiss(Q) /\ \A p \in Q : stage'[p] = "none"
    BY <2>1 DEF Break
  <2> HIDE DEF Q
  <2>3. QED BY <2>2, DismissOver
<1>5. QED BY <1>1, <1>3, <1>4, EndKeeps DEF Break, Ended, cache

LEMMA DropStep ==
  ASSUME IInv, NEW c \in Call, Drop(c)
  PROVE  IInv'
<1> DEFINE left == IF pc[c] = "wait" THEN Abandoned(Current(c)) ELSE stage[Current(c)]
           Q == IF left = "none" THEN {Current(c)} ELSE {}
<1>1. left \in {"none", stage[Current(c)]}
  BY AbandonedRest
<1>2. /\ stage' = [stage EXCEPT ![Current(c)] = left] /\ Dismiss(Q)
      /\ Return(c, "failed", {})
      /\ pc[c] \notin Ended \cup {"idle"}
      /\ holder' = IF holder = c THEN Nobody ELSE holder
      /\ UNCHANGED <<cached, access, late, lone, store>>
  BY DEF Drop
<1>3. \A p \in Q : stage'[p] = "none"
  <2>1. Current(c) \in Attempt /\ stage \in [Attempt -> {"none"} \cup Running]
    BY CurrentAttempt DEF IInv, TypeOK
  <2> HIDE DEF left
  <2>2. QED BY <1>2, <2>1
<1> HIDE DEF left, Q
<1>4. Ends(c) /\ Typed(c) /\ pc'[c] = "failed"
  BY <1>2, ReturnEnds DEF IInv, Ended
<1>5. Moves(c) /\ Over(Q)
  BY <1>1, <1>2, <1>3, ClearMoves, DismissOver DEF IInv
<1>6. QED BY <1>2, <1>4, <1>5, EndKeeps
-----------------------------------------------------------------------------
(* Calls that go on.                                                       *)

\* Only c goes on, with its token and its request; nobody else changes.
Goes(c) ==
    /\ \A d \in Call \ {c} : pc'[d] = pc[d] /\ round'[d] = round[d] /\ token'[d] = token[d]
    /\ \A d \in Call : pc'[d] = "idle" => pc[d] = "idle" /\ d # c
    /\ pc'[c] # "ok"
    /\ \A q \in Attempt : stage'[q] # stage[q] => q[1] = c
    /\ \A q \in Attempt : stage'[q] = "applying" => stage[q] = "applying"
    /\ UNCHANGED <<report, access, lone, next, applied, store, carried>>

LEMMA GoesKeeps ==
  ASSUME IInv, NEW c \in Call, pc[c] \notin Ended \cup {"idle"}, Goes(c)
  PROVE  ClosedToNewBatches' /\ LoneSound'
<1> USE DEF IInv, Goes, lone
<1>1. ClosedToNewBatches'
  BY DEF ClosedToNewBatches, Open, access
<1>2. \A d \in alone : d = c
  BY OnlyOne DEF AtRest
<1>3. \A d \in Call \ {c} : pc'[d] = pc[d] /\ (AtRest(d) => AtRest(d)')
  BY DEF AtRest
<1>4. AloneSound'
  BY <1>2, <1>3 DEF AloneSound
<1>5. WritesShow' /\ ReportsBehind'
  BY <1>2, ShowsSame DEF WritesShow, ReportsBehind
<1>6. OneAtATime'
  BY <1>2 DEF OneAtATime
<1>7. QED BY <1>1, <1>4, <1>5, <1>6 DEF LoneSound

LEMMA BeginStep ==
  ASSUME IInv, NEW c \in Call, Begin(c)
  PROVE  IInv'
<1> USE DEF IInv, Begin, cache, requests
<1>1. TypeOK'
  BY DEF TypeOK, access, lone
<1>2. MutexHeld' /\ OldTokensGone' /\ RevocationSound' /\ ClosedToNewBatches'
  BY DEF MutexHeld, OldTokensGone, RevocationSound, OneTokenAfterRevocation, access, Fetching,
         ClosedToNewBatches, Open, TypeOK
<1>3. LoneSound'
  <2>1. \A d \in Call : pc'[d] = IF d = c THEN "lock" ELSE pc[d]
    BY DEF TypeOK
  <2>2. \A d \in Call \ {c} : AtRest(d)' <=> AtRest(d)
    BY <2>1 DEF AtRest
  <2>3. alone' \subseteq {c} /\ (c \in alone' => \A d \in Call \ {c} : AtRest(d))
    OBVIOUS
  <2>4. AloneSound'
    BY <2>1, <2>2, <2>3 DEF AloneSound
  <2>5. WritesShow' /\ ReportsBehind'
    BY <2>1, <2>3 DEF WritesShow, ReportsBehind
  <2>6. OneAtATime'
    BY <2>3 DEF OneAtATime, AloneSound, AtRest
  <2>7. QED BY <2>4, <2>5, <2>6 DEF LoneSound
<1>4. QED BY <1>1, <1>2, <1>3 DEF LoneSound

\* A call sends its batch with a token from the cache.
LEMMA SendKeeps ==
  ASSUME IInv, NEW c \in Call, NEW t \in SUBSET Call, pc[c] \in {"lock", "offered"},
         round[c] = 2 => c \in t,
         cached' \subseteq cached \cup {t}, pc[c] = "lock" => t \in cached,
         pc[c] = "offered" => t = token[c] /\ holder' = Nobody,
         pc[c] = "lock" => holder' = holder,
         Post(c, t, 0), stage' = [stage EXCEPT ![<<c, round[c], 0>>] = "travelling"],
         UNCHANGED <<access, late, lone, next, applied, store, carried>>
  PROVE  IInv'
<1> USE DEF IInv
<1>1. Goes(c) /\ Typed(c) /\ Moves(c)
  <2> DEFINE p == <<c, round[c], 0>>
  <2>1. p \in Attempt /\ p[1] = c /\ stage \in [Attempt -> {"none"} \cup Running]
    BY CurrentAttempt DEF TypeOK
  <2>2. stage' = [stage EXCEPT ![p] = "travelling"]
    OBVIOUS
  <2> HIDE DEF p
  <2>3. Moves(c)
    BY <2>1, <2>2 DEF Moves, Running
  <2>4. Typed(c) /\ UNCHANGED <<report>>
    BY PostWaits
  <2>5. /\ \A d \in Call \ {c} : pc'[d] = pc[d] /\ round'[d] = round[d] /\ token'[d] = token[d]
        /\ pc'[c] = "wait"
    BY PostWaits
  <2>6. QED BY <2>3, <2>4, <2>5 DEF Goes, Moves
<1>2. TypeOK'
  <2>1. holder' \in Call \cup {Nobody} /\ cached' \in SUBSET SUBSET Call
    BY DEF TypeOK
  <2>2. UNCHANGED <<access, late, lone, next, applied, store, carried>>
    OBVIOUS
  <2>3. QED BY <1>1, <2>1, <2>2 DEF TypeOK, Typed, Moves, access, lone
<1>3. MutexHeld'
  <2>1. /\ \A d \in Call \ {c} : pc'[d] = pc[d]
        /\ pc'[c] = "wait"
    BY PostWaits
  <2>2. QED BY <2>1 DEF MutexHeld, Fetching
<1>4. OldTokensGone'
  <2>1. /\ \A d \in Call \ {c} : pc'[d] = pc[d] /\ token'[d] = token[d]
        /\ pc'[c] = "wait" /\ token'[c] = t /\ round' = round
    BY PostWaits
  <2>2. ASSUME NEW d \in Call, round[d] = 2 PROVE \A s \in cached' : d \in s
    BY <2>2 DEF OldTokensGone
  <2>3. ASSUME NEW d \in Call, pc'[d] = "offered", NEW e \in Call, round[e] = 2
        PROVE  e \in token'[d]
    BY <2>1, <2>3 DEF OldTokensGone
  <2>4. ASSUME NEW d \in Call, round[d] = 2
        PROVE  /\ pc'[d] \in {"lock", "wait"} \cup Fetching
               /\ pc'[d] = "wait" => d \in token'[d]
    BY <2>1, <2>4 DEF OldTokensGone
  <2>5. QED BY <2>1, <2>2, <2>3, <2>4 DEF OldTokensGone
<1>5. RevocationSound'
  <2>1. \A d \in Call : pc'[d] = "granted" => pc[d] = "granted"
    BY PostWaits
  <2>2. QED BY <2>1 DEF RevocationSound, OneTokenAfterRevocation, access
<1>6. QED BY <1>1, <1>2, <1>3, <1>4, <1>5, GoesKeeps DEF Ended, LoneSound

LEMMA UseCachedStep ==
  ASSUME IInv, NEW c \in Call, UseCached(c)
  PROVE  IInv'
<1>1. PICK t \in cached : Post(c, t, 0)
  BY DEF UseCached
<1>2. t \in SUBSET Call /\ (round[c] = 2 => c \in t)
  BY DEF IInv, TypeOK, OldTokensGone
<1>3. QED BY <1>1, <1>2, SendKeeps DEF UseCached, cache

LEMMA CacheTokenStep ==
  ASSUME IInv, NEW c \in Call, CacheToken(c)
  PROVE  IInv'
<1>1. token[c] \in SUBSET Call /\ (round[c] = 2 => c \in token[c])
  BY DEF CacheToken, IInv, TypeOK, OldTokensGone
<1>2. QED BY <1>1, SendKeeps DEF CacheToken

\* The token request, step by step.
LEMMA StartFetchStep ==
  ASSUME IInv, NEW c \in Call, StartFetch(c)
  PROVE  IInv'
<1> USE DEF IInv, StartFetch, requests
<1>1. TypeOK'
  BY DEF TypeOK, Fetching, access, lone
<1>2. MutexHeld' /\ OldTokensGone' /\ RevocationSound'
  BY DEF MutexHeld, OldTokensGone, RevocationSound, OneTokenAfterRevocation, access, Fetching,
         TypeOK
<1>3. Goes(c) /\ pc[c] \notin Ended \cup {"idle"}
  BY DEF Goes, Ended, TypeOK
<1>4. QED BY <1>1, <1>2, <1>3, GoesKeeps DEF LoneSound

LEMMA ReadCredentialsStep ==
  ASSUME IInv, NEW c \in Call, ReadCredentials(c)
  PROVE  IInv'
<1> USE DEF IInv, ReadCredentials, requests, cache
<1>1. TypeOK'
  BY DEF TypeOK, Fetching, access, lone
<1>2. MutexHeld' /\ OldTokensGone'
  BY DEF MutexHeld, OldTokensGone, Fetching, TypeOK
<1>3. RevocationSound'
  <2>1. secrets[Mine] # "revoked"
    BY DEF Credentials, Open, TypeOK
  <2>2. QED BY <2>1 DEF RevocationSound, OneTokenAfterRevocation, access
<1>4. Goes(c) /\ pc[c] \notin Ended \cup {"idle"}
  BY DEF Goes, Ended, TypeOK
<1>5. QED BY <1>1, <1>2, <1>3, <1>4, GoesKeeps DEF LoneSound

LEMMA IssueTokenStep ==
  ASSUME IInv, NEW c \in Call, IssueToken(c)
  PROVE  IInv'
<1> USE DEF IInv, IssueToken, requests, cache
<1>1. \A d \in Call \ {c} : pc[d] \notin Fetching
  BY DEF MutexHeld, Fetching
<1>2. TypeOK'
  BY DEF TypeOK, Fetching, access, lone, Refused
<1>3. MutexHeld'
  BY DEF MutexHeld, Fetching, TypeOK
<1>4. OldTokensGone'
  <2>1. \A d \in Call : round[d] = 2 => d \in Refused
    BY DEF Refused
  <2>2. \A d \in Call : pc'[d] = IF d = c THEN "offered" ELSE pc[d]
    BY DEF TypeOK
  <2>3. \A d \in Call : token'[d] = IF d = c THEN Refused ELSE token[d]
    BY DEF TypeOK
  <2>4. QED BY <2>1, <2>2, <2>3 DEF OldTokensGone, Fetching
<1>5. RevocationSound'
  BY <1>1 DEF RevocationSound, OneTokenAfterRevocation, access, Fetching, TypeOK
<1>6. Goes(c) /\ pc[c] \notin Ended \cup {"idle"}
  BY DEF Goes, Ended, TypeOK
<1>7. QED BY <1>2, <1>3, <1>4, <1>5, <1>6, GoesKeeps DEF LoneSound

\* The cache is emptied and nobody is in a token request.
LEMMA DropTokenStep ==
  ASSUME IInv, NEW c \in Call, DropToken(c)
  PROVE  IInv'
<1> USE DEF IInv, DropToken, requests
<1>1. \A d \in Call : pc[d] \notin Fetching
  BY DEF MutexHeld
<1>2. TypeOK'
  BY DEF TypeOK, access, lone
<1>3. MutexHeld' /\ RevocationSound'
  BY DEF MutexHeld, RevocationSound, OneTokenAfterRevocation, access, Fetching, TypeOK
<1>4. OldTokensGone'
  BY <1>1 DEF OldTokensGone, Fetching, TypeOK
<1>5. Goes(c) /\ pc[c] \notin Ended \cup {"idle"}
  BY DEF Goes, Ended, TypeOK
<1>6. QED BY <1>2, <1>3, <1>4, <1>5, GoesKeeps DEF LoneSound

-----------------------------------------------------------------------------
(* The server and the management API.                                      *)

LEMMA AdmitStep ==
  ASSUME IInv, NEW q \in Attempt, Admit(q)
  PROVE  IInv'
<1> USE DEF IInv, Admit, cache, calls
<1>1. TypeOK'
  BY DEF TypeOK, access, lone, Running, Mix
<1>2. MutexHeld' /\ OldTokensGone' /\ RevocationSound'
  BY DEF MutexHeld, OldTokensGone, RevocationSound, OneTokenAfterRevocation, access
<1>3. ClosedToNewBatches'
  BY DEF ClosedToNewBatches, Open, access
<1>4. q[1] \in Call /\ ~AtRest(q[1])
  BY DEF Attempt, AtRest
<1>5. \A p \in Attempt : /\ p # q => stage'[p] = stage[p] /\ next'[p] = next[p]
                                      /\ applied'[p] = applied[p]
                         /\ p = q => applied'[p] = {}
  BY DEF TypeOK
<1>6. \A d \in alone : d = q[1]
  BY <1>4, OnlyOne
<1>7. AloneSound'
  <2>1. \A d \in Call : AtRest(d) => AtRest(d)'
    BY <1>4, <1>5 DEF AtRest
  <2>2. QED BY <2>1 DEF AloneSound
<1>8. WritesShow' /\ ReportsBehind'
  <2>1. mixed \subseteq mixed'
    BY DEF Mix
  <2>2. \A d \in Call : \A i : Shows(d, i) => Shows(d, i)'
    BY <2>1 DEF Shows
  <2>3. WritesShow'
    BY <1>5, <2>2 DEF WritesShow, TypeOK
  <2>4. QED BY <1>5, <2>3 DEF ReportsBehind
<1>9. OneAtATime'
  <2>1. ASSUME NEW p \in Attempt, stage'[p] = "applying", p[1] \in alone \ mixed'
        PROVE  /\ pc[p[1]] # "ok"
               /\ \A o \in Attempt : o[1] = p[1] /\ stage'[o] = "applying" => o = p
    <3>1. p[1] = q[1]
      BY <1>6, <2>1
    <3>2. /\ {o \in Attempt \ {q} : o[1] = q[1] /\ stage[o] = "applying"} = {}
          /\ Awaited(q)
      BY <2>1, <3>1 DEF Mix
    <3>3. \A o \in Attempt : o[1] = q[1] /\ stage'[o] = "applying" => o = q
      BY <1>5, <3>2
    <3>4. QED BY <2>1, <3>1, <3>2, <3>3 DEF Awaited
  <2>2. QED BY <2>1 DEF OneAtATime
<1>10. QED BY <1>1, <1>2, <1>3, <1>7, <1>8, <1>9

\* Nobody else has a request, so what is written is the call's own, and it is a
\* later operation unless another request of the call is at work.
LEMMA ApplyStep ==
  ASSUME IInv, NEW q \in Attempt, Apply(q)
  PROVE  IInv'
<1> DEFINE c == q[1]
           i == next[q]
           r == Batch[c][i]
           op == <<c, i>>
<1> USE DEF IInv, cache, calls, lone
<1>1. /\ stage[q] = "applying" /\ i \in DOMAIN Batch[c]
      /\ next' = [next EXCEPT ![q] = @ + 1]
      /\ Write(r, op) \/ UNCHANGED store
      /\ \/ Write(r, op) /\ applied' = [applied EXCEPT ![q] = @ \cup {i}]
         \/ UNCHANGED applied
      /\ UNCHANGED <<calls, cache, access, late, lone, stage, carried>>
  BY DEF Apply
<1>2. c \in Call /\ i \in Nat /\ Batch[c] \in Seq(Resource) /\ ~AtRest(c)
  BY <1>1 DEF Attempt, TypeOK, AtRest
<1>3. r \in Resource /\ op \in Operation
  BY <1>1, <1>2 DEF Operation
<1>4. /\ \A p \in Attempt : p # q => next'[p] = next[p] /\ applied'[p] = applied[p]
      /\ next'[q] = i + 1 /\ applied'[q] \subseteq applied[q] \cup {i}
      /\ next' \in [Attempt -> Nat] /\ applied' \in [Attempt -> SUBSET Nat]
  <2>1. next \in [Attempt -> Nat] /\ applied \in [Attempt -> SUBSET Nat]
    BY DEF TypeOK
  <2>2. next' = [next EXCEPT ![q] = @ + 1]
    BY <1>1
  <2>3. applied' = [applied EXCEPT ![q] = @ \cup {i}] \/ applied' = applied
    BY <1>1
  <2>4. i \in Nat /\ i = next[q]
    BY <1>2
  <2> HIDE DEF IInv, c, r, op, i
  <2>5. QED BY <2>1, <2>2, <2>3, <2>4
<1> DEFINE Writes == Write(r, op)
<1>5. Writes => \A s \in Resource : store'[s] = IF s = r THEN op ELSE store[s]
  BY DEF Write, TypeOK
<1>6. i \in applied'[q] => i \in applied[q] \/ Writes
  <2>1. applied \in [Attempt -> SUBSET Nat]
    BY DEF TypeOK
  <2> HIDE DEF IInv, Writes
  <2>2. QED BY <1>1, <2>1 DEF Writes
<1>7. TypeOK'
  <2>1. store' \in [Resource -> Operation \cup {NoWrite}]
    <3>1. store \in [Resource -> Operation \cup {NoWrite}]
      BY DEF TypeOK
    <3>2. store' = [store EXCEPT ![r] = op] \/ store' = store
      BY <1>1 DEF Write
    <3> HIDE DEF IInv, r, op
    <3>3. QED BY <1>3, <3>1, <3>2
  <2>2. UNCHANGED <<calls, cache, access, late, lone, stage, carried>>
    BY <1>1
  <2>3. QED BY <1>4, <2>1, <2>2 DEF TypeOK, access, lone
<1>8. MutexHeld' /\ OldTokensGone' /\ RevocationSound' /\ ClosedToNewBatches' /\ AloneSound' /\ OneAtATime'
  BY <1>1 DEF MutexHeld, OldTokensGone, RevocationSound, OneTokenAfterRevocation, access,
              ClosedToNewBatches, Open, AloneSound, AtRest, OneAtATime
<1>9. ReportsBehind'
  BY <1>1, <1>2, <1>4 DEF ReportsBehind
<1>10. \A d \in alone : d = c
  BY <1>2, OnlyOne
<1>11. UNCHANGED <<pc, report, alone, mixed, stage>> /\ (Writes \/ UNCHANGED store)
  BY <1>1
<1>12. ASSUME NEW k, Shows(c, k), k <= i \/ c \in mixed
       PROVE  Shows(c, k)'
  <2>0. k \in DOMAIN Batch[c]
    BY <1>12 DEF Shows
  <2>1. PICK j \in DOMAIN Batch[c] : /\ Batch[c][j] = Batch[c][k] /\ store[Batch[c][k]] = <<c, j>>
                                     /\ j >= k \/ c \in mixed
    BY <1>12 DEF Shows
  <2>2. Batch[c][k] \in Resource
    BY <1>2, <2>1
  <2>3. CASE Writes /\ Batch[c][k] = r
    <3>1. store'[Batch[c][k]] = <<c, i>>
      BY <1>5, <2>2, <2>3
    <3>2. i >= k \/ c \in mixed
      BY <1>12
    <3>3. QED BY <1>1, <1>11, <2>0, <2>3, <3>1, <3>2 DEF Shows
  <2>4. CASE ~(Writes /\ Batch[c][k] = r)
    <3>1. store'[Batch[c][k]] = store[Batch[c][k]]
      BY <1>5, <1>11, <2>2, <2>4
    <3>2. QED BY <1>11, <2>0, <2>1, <3>1 DEF Shows
  <2>5. QED BY <2>3, <2>4
<1>13. ASSUME c \in alone, NEW p \in Attempt, p[1] = c, stage[p] = "applying", NEW k \in applied'[p]
       PROVE  Shows(c, k)'
  <2>1. CASE k \in applied[p]
    <3>1. Shows(c, k)
      BY <1>13, <2>1 DEF WritesShow
    <3>2. k <= i \/ c \in mixed
      <4>1. c \notin mixed => p = q
        BY <1>1, <1>2, <1>13 DEF OneAtATime
      <4>2. k \in Nat /\ k < next[p]
        BY <2>1 DEF ReportsBehind, TypeOK
      <4>3. QED BY <1>2, <4>1, <4>2
    <3>3. QED BY <1>12, <3>1, <3>2
  <2>2. CASE k \notin applied[p]
    <3>1. k = i /\ Writes
      BY <1>4, <1>6, <1>13, <2>2
    <3>2. store'[Batch[c][k]] = <<c, k>>
      BY <1>3, <1>5, <3>1
    <3>3. QED BY <1>1, <1>2, <3>1, <3>2 DEF Shows
  <2>3. QED BY <2>1, <2>2
<1>14. ASSUME c \in alone, pc[c] = "ok", NEW k \in report
       PROVE  Shows(c, k)'
  <2>1. c \in mixed
    BY <1>1, <1>14 DEF OneAtATime
  <2>2. Shows(c, k)
    BY <1>14 DEF WritesShow
  <2>3. QED BY <1>12, <2>1, <2>2
<1>15. WritesShow'
  BY <1>10, <1>11, <1>13, <1>14 DEF WritesShow
<1>16. QED BY <1>7, <1>8, <1>9, <1>15

LEMMA VanishStep ==
  ASSUME IInv, NEW q \in Attempt, Vanish(q)
  PROVE  IInv'
<1> USE DEF IInv, Vanish, calls, cache
<1>1. Over({q}) /\ stage[q] \in Running
  BY DismissOver DEF TypeOK, Strays
<1>2. TypeOK'
  BY <1>1 DEF TypeOK, Over, access, lone
<1>3. \A p \in Attempt : stage'[p] # "none" => stage'[p] = stage[p]
  BY DEF TypeOK
<1>4. MutexHeld' /\ OldTokensGone' /\ RevocationSound'
  BY DEF MutexHeld, OldTokensGone, RevocationSound, OneTokenAfterRevocation, access
<1>5. ClosedToNewBatches'
  BY <1>1, <1>3 DEF ClosedToNewBatches, Open, access, Over
<1>6. Moves(q[1]) /\ LoneSound'
  <2>1. Moves(q[1])
    BY <1>1 DEF Moves, TypeOK, Running
  <2>2. QED BY <1>1, <2>1, LeavesKeeps
<1>7. QED BY <1>2, <1>4, <1>5, <1>6 DEF LoneSound

\* Management calls: nothing of the client or of a batch changes.
LEMMA OtherSame ==
  ASSUME IInv, UNCHANGED <<calls, cache, lone, requests, store>>
  PROVE  MutexHeld' /\ OldTokensGone' /\ LoneSound'
<1> USE DEF IInv, calls, cache, lone, requests
<1>1. MutexHeld' /\ OldTokensGone'
  BY DEF MutexHeld, OldTokensGone
<1>2. AloneSound' /\ ReportsBehind' /\ OneAtATime'
  BY DEF AloneSound, AtRest, ReportsBehind, OneAtATime
<1>3. WritesShow'
  BY ShowsSame DEF WritesShow, TypeOK
<1>4. QED BY <1>1, <1>2, <1>3 DEF LoneSound

LEMMA SecretStep ==
  ASSUME IInv, NEW k \in Secret, CreateSecret(k) \/ RevokeSecret(k)
  PROVE  IInv'
<1> USE DEF IInv
<1>1. /\ UNCHANGED <<calls, cache, off, late, lone, requests, store, carried>>
      /\ \E to \in {"live", "revoked"} : secrets' = [secrets EXCEPT ![k] = to]
      /\ secrets[k] = "absent" \/ secrets'[k] = "revoked"
      /\ changes' \in 0..MaxChanges
  BY DEF CreateSecret, RevokeSecret, TypeOK
<1>2. MutexHeld' /\ OldTokensGone' /\ LoneSound'
  BY <1>1, OtherSame
<1>3. TypeOK'
  <2>1. secrets' \in [Secret -> {"absent", "live", "revoked"}]
    BY <1>1 DEF TypeOK
  <2>2. QED BY <1>1, <2>1 DEF TypeOK, calls, cache, lone, requests
<1>4. RevocationSound'
  <2>1. secrets'[Mine] # "revoked" => secrets[Mine] # "revoked"
    BY <1>1 DEF TypeOK
  <2>2. UNCHANGED <<late, pc>>
    BY <1>1 DEF calls
  <2>3. QED BY <2>1, <2>2 DEF RevocationSound, OneTokenAfterRevocation
<1>5. ClosedToNewBatches'
  BY <1>1 DEF ClosedToNewBatches, Open, requests
<1>6. QED BY <1>2, <1>3, <1>4, <1>5 DEF LoneSound

LEMMA SwitchStep ==
  ASSUME IInv, NEW what \in Closable, Switch(what)
  PROVE  IInv'
<1> USE DEF IInv, Switch
<1>1. MutexHeld' /\ OldTokensGone' /\ LoneSound'
  BY OtherSame
<1>2. TypeOK'
  BY DEF TypeOK, calls, cache, lone, requests
<1>3. RevocationSound' /\ ClosedToNewBatches'
  BY DEF RevocationSound, OneTokenAfterRevocation, ClosedToNewBatches, Open, calls, requests
<1>4. QED BY <1>1, <1>2, <1>3 DEF LoneSound

-----------------------------------------------------------------------------
(* The theorems.                                                           *)

LEMMA StutterKeeps == ASSUME IInv, UNCHANGED vars PROVE IInv'
<1> USE DEF IInv, vars
<1>1. MutexHeld' /\ OldTokensGone' /\ LoneSound'
  BY OtherSame
<1>2. TypeOK'
  BY DEF TypeOK, calls, cache, access, lone, requests
<1>3. RevocationSound' /\ ClosedToNewBatches'
  BY DEF RevocationSound, OneTokenAfterRevocation, ClosedToNewBatches, Open, calls, access,
         requests
<1>4. QED BY <1>1, <1>2, <1>3 DEF LoneSound

LEMMA NextKeeps == ASSUME IInv, [Next]_vars PROVE IInv'
<1>1. ASSUME NEW c \in Call, Begin(c) PROVE IInv'
  BY <1>1, BeginStep
<1>2. ASSUME NEW c \in Call, ClientStep(c) PROVE IInv'
  BY <1>2, UseCachedStep, StartFetchStep, ReadCredentialsStep, RefuseStep, IssueTokenStep,
     CacheTokenStep, DropTokenStep DEF ClientStep
<1>3. ASSUME NEW c \in Call, FetchTrouble(c) \/ Break(c) \/ Drop(c) PROVE IInv'
  BY <1>3, FetchTroubleStep, BreakStep, DropStep
<1>4. ASSUME NEW q \in Attempt, Unauthorized(q) PROVE IInv'
  BY <1>4, ReplyStep DEF Unauthorized, Running
<1>5. ASSUME NEW q \in Attempt, Finish(q) PROVE IInv'
  BY <1>5, ReplyStep DEF Finish, Running
<1>6. ASSUME NEW q \in Attempt, Decline(q) PROVE IInv'
  <2>1. PICK answer \in {"rejected", "unavailable"} : Reply(q, answer)
    BY <1>6 DEF Decline
  <2>2. answer # "success" /\ stage[q] \in Running
    BY <1>6 DEF Decline
  <2>3. QED BY <2>1, <2>2, ReplyStep
<1>7. ASSUME NEW q \in Attempt, Admit(q) \/ Apply(q) \/ Vanish(q) PROVE IInv'
  BY <1>7, AdmitStep, ApplyStep, VanishStep
<1>8. ASSUME NEW k \in Secret, CreateSecret(k) \/ RevokeSecret(k) PROVE IInv'
  BY <1>8, SecretStep
<1>9. ASSUME NEW what \in Closable, Switch(what) PROVE IInv'
  BY <1>9, SwitchStep
<1>10. QED
  BY <1>1, <1>2, <1>3, <1>4, <1>5, <1>6, <1>7, <1>8, <1>9, StutterKeeps DEF Next, ServerStep

\* The inductive invariant holds in every behaviour of clients, server and
\* management API.
THEOREM Invariance == Spec => []IInv
<1>1. QED BY InitIInv, NextKeeps, PTL DEF Spec

\* access_token and sync_resources: whatever the calls that share the client do
\* between a 401 and the retry, the retry carries a token issued after it.
THEOREM RetriesCarryLaterTokens == Spec => []RetriedWithLaterToken
<1>1. IInv => RetriedWithLaterToken
  BY DEF IInv, OldTokensGone, RetriedWithLaterToken
<1>2. QED BY <1>1, Invariance, PTL

\* client_credentials: revocation lets at most one more token go to a client.
THEOREM RevocationStopsTokens == Spec => []OneTokenAfterRevocation
<1>1. IInv => OneTokenAfterRevocation
  BY DEF IInv, RevocationSound
<1>2. QED BY <1>1, Invariance, PTL

\* service_caller: no token opens a disabled application to a new batch.
THEOREM DisabledIsClosed == Spec => []ClosedToNewBatches
<1>1. IInv => ClosedToNewBatches
  BY DEF IInv
<1>2. QED BY <1>1, Invariance, PTL

\* What a call was told succeeded is what the operations of its batch made of the
\* resources, in their order, although the batch may have been sent and applied up
\* to four times; not in their order only if two of its requests met at the server.
THEOREM ResultsShow == Spec => []LastCallShows
<1>1. IInv => LastCallShows
  BY DEF IInv, WritesShow, LastCallShows
<1>2. QED BY <1>1, Invariance, PTL

\* Every resource is what the one operation on it, reported as successful, made it.
ExactlyReported ==
    \A c \in alone : pc[c] = "ok" => \A i \in report : store[Batch[c][i]] = <<c, i>>

\* With batches that name a resource once, the repetitions of a batch (send_sync)
\* are harmless even where they meet its first request at the server.
THEOREM DistinctBatchesExact ==
  ASSUME \A c \in Call : \A i, j \in DOMAIN Batch[c] : Batch[c][i] = Batch[c][j] => i = j
  PROVE  Spec => []ExactlyReported
<1>1. IInv => ExactlyReported
  <2>1. ASSUME IInv, NEW c \in alone, pc[c] = "ok", NEW i \in report
        PROVE  store[Batch[c][i]] = <<c, i>>
    <3>1. c \in Call /\ Shows(c, i)
      BY <2>1 DEF IInv, TypeOK, WritesShow
    <3>2. QED BY <3>1 DEF Shows
  <2>2. QED BY <2>1 DEF ExactlyReported
<1>2. QED BY <1>1, Invariance, PTL

-----------------------------------------------------------------------------
(* Every attempt is made once.                                             *)

\* The attempts before a call have no request yet.
Fresh == \A q \in Attempt : Ahead(q) => stage[q] = "none"

\* A step makes an attempt at most that was ahead, and none twice; it admits none.
Kept ==
    \A q \in Attempt : /\ Ahead(q)' => Ahead(q) /\ stage'[q] = stage[q]
                       /\ stage'[q] = "travelling" => stage[q] = "travelling" \/ Ahead(q)
                       /\ stage'[q] = "applying" => stage[q] = "applying"

LEMMA ReturnKept ==
  ASSUME TypeOK, NEW c \in Call, NEW outcome \in Ended, NEW told, Return(c, outcome, told),
         NEW q \in Attempt, q[1] = c, NEW left, left \in {"none", stage[q]},
         stage' = [stage EXCEPT ![q] = left]
  PROVE  Kept
<1>1. pc'[c] \in Ended /\ \A d \in Call \ {c} : /\ pc'[d] = pc[d] /\ round'[d] = round[d]
                                                /\ attempt'[d] = attempt[d]
  BY DEF Return, TypeOK
<1>2. \A p \in Attempt : p[1] \in Call
  BY DEF Attempt
<1>3. ASSUME NEW p \in Attempt, Ahead(p)'
      PROVE  Ahead(p) /\ stage'[p] = stage[p]
  <2>1. p[1] # c
    BY <1>1, <1>3 DEF Ahead
  <2>2. QED BY <1>1, <1>2, <1>3, <2>1 DEF Ahead, TypeOK
<1>4. QED BY <1>3 DEF Kept, TypeOK

LEMMA SameKept ==
  ASSUME TypeOK, UNCHANGED <<pc, round, attempt>>,
         \/ UNCHANGED stage
         \/ \E q \in Attempt : stage' = [stage EXCEPT ![q] = "none"] /\ ~Ahead(q)
  PROVE  Kept
  BY DEF Kept, Ahead, TypeOK

\* The batch leaves for the first time in its round.
LEMMA SendKept ==
  ASSUME TypeOK, Fresh, NEW c \in Call, pc[c] \in {"lock", "offered"}, NEW t, Post(c, t, 0),
         stage' = [stage EXCEPT ![<<c, round[c], 0>>] = "travelling"]
  PROVE  Kept
<1> DEFINE m == <<c, round[c], 0>>
<1>1. m \in Attempt /\ m[1] = c /\ m[2] = round[c] /\ m[3] = 0
  BY CurrentAttempt
<1>2. /\ pc' = [pc EXCEPT ![c] = "wait"] /\ attempt' = [attempt EXCEPT ![c] = 0]
      /\ round' = round
  BY DEF Post
<1>3. stage' = [stage EXCEPT ![m] = "travelling"]
  OBVIOUS
<1>4. Ahead(m)
  BY <1>1 DEF Ahead, Fetching, Ended
<1> HIDE DEF m
<1>5. ASSUME NEW q \in Attempt, Ahead(q)'
      PROVE  Ahead(q) /\ q # m
  <2>1. q[1] \in Call /\ \A d \in Call \ {c} : /\ pc'[d] = pc[d] /\ round'[d] = round[d]
                                              /\ attempt'[d] = attempt[d]
    BY <1>2 DEF Attempt, TypeOK
  <2>2. CASE q[1] # c
    BY <1>1, <1>5, <2>1, <2>2 DEF Ahead
  <2>3. CASE q[1] = c
    <3>1. pc'[c] = "wait" /\ round'[c] = round[c] /\ attempt'[c] = 0
      BY <1>2 DEF TypeOK
    <3>2. q[2] > round[c] \/ (q[2] = round[c] /\ q[3] > 0)
      BY <1>5, <2>3, <3>1 DEF Ahead, Fetching
    <3>3. QED BY <1>1, <2>3, <3>2 DEF Ahead, Fetching, Ended, Attempt, TypeOK
  <2>4. QED BY <2>2, <2>3
<1>6. stage \in [Attempt -> {"none"} \cup Running]
  BY DEF TypeOK
<1>7. /\ \A q \in Attempt \ {m} : stage'[q] = stage[q]
      /\ stage'[m] = "travelling"
  BY <1>1, <1>3, <1>6
<1>8. QED BY <1>4, <1>5, <1>7 DEF Kept

\* The batch leaves again in its round.
LEMMA ResendKept ==
  ASSUME TypeOK, Fresh, NEW c \in Call, pc[c] = "wait",
         NEW rest, rest \in {"none", stage[Current(c)]}, Resend(c, rest)
  PROVE  Kept
<1> DEFINE p == Current(c)
           m == <<c, round[c], 1>>
<1>1. /\ m \in Attempt /\ m[1] = c /\ m[2] = round[c] /\ m[3] = 1
      /\ p \in Attempt /\ p[1] = c /\ p[2] = round[c] /\ p[3] = attempt[c] /\ attempt[c] = 0
  BY CurrentAttempt DEF Current, Resend
<1>2. /\ pc' = [pc EXCEPT ![c] = "wait"] /\ attempt' = [attempt EXCEPT ![c] = 1]
      /\ round' = round
  BY DEF Post, Resend
<1>3. stage' = [stage EXCEPT ![p] = rest, ![m] = "travelling"] /\ rest \in {"none", stage[p]}
  BY DEF Resend
<1>4. Ahead(m)
  BY <1>1 DEF Ahead, Ended
<1> HIDE DEF m, p
<1>5. ASSUME NEW q \in Attempt, Ahead(q)'
      PROVE  Ahead(q) /\ q # m /\ q # p
  BY <1>1, <1>2, <1>5 DEF Ahead, Fetching, Ended, Attempt, TypeOK
<1>6. QED BY <1>1, <1>3, <1>4, <1>5 DEF Kept, TypeOK

\* A handler ends.
LEMMA ReplyKept ==
  ASSUME TypeOK, Fresh, NEW q \in Attempt, stage[q] \in Running, NEW answer, Reply(q, answer)
  PROVE  Kept
<1> DEFINE c == q[1]
<1>1. c \in Call /\ ~Ahead(q)
  BY DEF Attempt, Fresh, Running
<1>2. CASE ~Awaited(q)
  BY <1>1, <1>2, SameKept DEF Reply, calls
<1>3. CASE Awaited(q)
  <2>1. Respond(c, answer, applied[q]) /\ pc[c] = "wait" /\ Current(c) = q
    BY <1>3 DEF Awaited, Reply
  <2>2. CASE answer = "unavailable" /\ attempt[c] = 0
    BY <1>1, <2>1, <2>2, ResendKept DEF Respond
  <2>3. CASE ~(answer = "unavailable" /\ attempt[c] = 0) /\ answer = "unauthorized" /\ round[c] = 1
    <3>1. /\ pc' = [pc EXCEPT ![c] = "drop"]
          /\ stage' = [stage EXCEPT ![q] = "none"]
          /\ UNCHANGED <<round, attempt>>
      BY <2>1, <2>3 DEF Respond
    <3>2. ASSUME NEW p \in Attempt, Ahead(p)'
          PROVE  Ahead(p) /\ p # q
      <4>1. Ahead(p)
        BY <1>1, <2>1, <3>1, <3>2 DEF Ahead, Ended, Fetching, TypeOK
      <4>2. QED BY <1>1, <4>1
    <3>3. QED BY <3>1, <3>2 DEF Kept, TypeOK
  <2>4. CASE ~(answer = "unavailable" /\ attempt[c] = 0) /\ ~(answer = "unauthorized" /\ round[c] = 1)
    <3>1. /\ \E outcome \in Ended, told \in {{}, applied[q]} : Return(c, outcome, told)
          /\ stage' = [stage EXCEPT ![q] = "none"]
      BY <2>1, <2>4 DEF Respond, Ended
    <3>2. QED BY <1>1, <3>1, ReturnKept
  <2>5. QED BY <2>2, <2>3, <2>4
<1>4. QED BY <1>2, <1>3

\* A step of a call.
LEMMA CallKept ==
  ASSUME IInv, Fresh, NEW c \in Call,
         Begin(c) \/ ClientStep(c) \/ FetchTrouble(c) \/ Break(c) \/ Drop(c)
  PROVE  Kept
<1> USE DEF IInv
<1>0. Current(c) \in Attempt /\ Current(c)[1] = c
  BY CurrentAttempt
<1>1. CASE Begin(c) \/ StartFetch(c) \/ ReadCredentials(c) \/ IssueToken(c)
  <2>1. /\ pc[c] \in {"idle", "lock", "fetch", "granted"}
        /\ \E to \in {"lock"} \cup Fetching : pc' = [pc EXCEPT ![c] = to]
        /\ UNCHANGED <<round, stage>>
        /\ \A d \in Call \ {c} : attempt'[d] = attempt[d]
    BY <1>1 DEF Begin, StartFetch, ReadCredentials, IssueToken, requests, Fetching, TypeOK
  <2>2. ASSUME NEW q \in Attempt, Ahead(q)'
        PROVE  Ahead(q)
    <3>1. CASE q[1] = c
      BY <2>1, <2>2, <3>1 DEF Ahead, Fetching, Ended, TypeOK
    <3>2. CASE q[1] # c
      BY <2>1, <2>2, <3>2 DEF Ahead, TypeOK, Attempt
    <3>3. QED BY <3>1, <3>2
  <2>3. QED BY <2>1, <2>2 DEF Kept
<1>2. CASE UseCached(c) \/ CacheToken(c)
  <2>1. PICK t : Post(c, t, 0)
    BY <1>2 DEF UseCached, CacheToken
  <2>2. QED BY <1>2, <2>1, SendKept DEF UseCached, CacheToken
<1>3. CASE DropToken(c)
  <2>1. /\ pc[c] = "drop" /\ round[c] = 1
        /\ pc' = [pc EXCEPT ![c] = "lock"] /\ round' = [round EXCEPT ![c] = 2]
        /\ UNCHANGED <<attempt, stage>>
    BY <1>3 DEF DropToken, OldTokensGone, Fetching, requests, TypeOK
  <2>2. ASSUME NEW q \in Attempt, Ahead(q)'
        PROVE  Ahead(q)
    BY <2>1, <2>2 DEF Ahead, Fetching, Ended, TypeOK, Attempt
  <2>3. QED BY <2>1, <2>2 DEF Kept
<1>4. ASSUME Return(c, "failed", {}), UNCHANGED stage
      PROVE  Kept
  <2>1. stage' = [stage EXCEPT ![Current(c)] = stage[Current(c)]]
    BY <1>4 DEF TypeOK
  <2>2. QED BY <1>0, <1>4, <2>1, ReturnKept DEF Ended
<1>5. CASE RefuseToken(c)
  BY <1>4, <1>5 DEF RefuseToken, requests
<1>6. CASE FetchTrouble(c)
  <2>1. CASE Return(c, "failed", {})
    BY <1>4, <1>6, <2>1 DEF FetchTrouble, requests
  <2>2. CASE ~Return(c, "failed", {})
    <3>1. /\ pc[c] \in Fetching /\ pc' = [pc EXCEPT ![c] = "fetch"]
          /\ attempt' = [attempt EXCEPT ![c] = 1] /\ UNCHANGED <<round, stage>>
      BY <1>6, <2>2 DEF FetchTrouble, requests, Fetching
    <3>2. ASSUME NEW q \in Attempt, Ahead(q)'
          PROVE  Ahead(q)
      BY <3>1, <3>2 DEF Ahead, Fetching, Ended, TypeOK, Attempt
    <3>3. QED BY <3>1, <3>2 DEF Kept
  <2>3. QED BY <2>1, <2>2
<1>7. CASE Break(c)
  <2> DEFINE rest == Abandoned(Current(c))
  <2>1. rest \in {"none", stage[Current(c)]} /\ pc[c] = "wait"
    BY <1>7, AbandonedRest DEF Break
  <2>2. \/ Resend(c, rest)
        \/ Return(c, "failed", {}) /\ stage' = [stage EXCEPT ![Current(c)] = rest]
    BY <1>7 DEF Break
  <2> HIDE DEF rest
  <2>3. QED BY <1>0, <2>1, <2>2, ResendKept, ReturnKept DEF Ended
<1>8. CASE Drop(c)
  <2>1. PICK left : /\ left \in {"none", stage[Current(c)]}
                    /\ Return(c, "failed", {}) /\ stage' = [stage EXCEPT ![Current(c)] = left]
    BY <1>8, AbandonedRest DEF Drop
  <2>2. QED BY <1>0, <2>1, ReturnKept DEF Ended
<1>9. QED BY <1>1, <1>2, <1>3, <1>5, <1>6, <1>7, <1>8 DEF ClientStep

\* Whatever is not an admission makes attempts in their order.
LEMMA NextKept ==
  ASSUME IInv, Fresh, [Next]_vars, \A q \in Attempt : ~Admit(q)
  PROVE  Kept
<1> USE DEF IInv
<1>1. ASSUME NEW c \in Call, Begin(c) \/ ClientStep(c) \/ FetchTrouble(c) \/ Break(c) \/ Drop(c)
      PROVE  Kept
  BY <1>1, CallKept
<1>2. ASSUME NEW q \in Attempt, Unauthorized(q) \/ Finish(q) \/ Decline(q)
      PROVE  Kept
  <2>1. stage[q] \in Running /\ \E answer : Reply(q, answer)
    BY <1>2 DEF Unauthorized, Finish, Decline, Running
  <2>2. QED BY <2>1, ReplyKept
<1>3. ASSUME NEW q \in Attempt, Apply(q)
      PROVE  Kept
  BY <1>3, SameKept DEF Apply, calls
<1>4. ASSUME NEW q \in Attempt, Vanish(q)
      PROVE  Kept
  <2>1. ~Ahead(q) /\ UNCHANGED <<pc, round, attempt>> /\ stage' = [stage EXCEPT ![q] = "none"]
    BY <1>4 DEF Vanish, Strays, Running, Fresh, calls
  <2>2. QED BY <2>1, SameKept
<1>5. ASSUME (\E k \in Secret : CreateSecret(k) \/ RevokeSecret(k))
               \/ (\E what \in Closable : Switch(what)) \/ UNCHANGED vars
      PROVE  Kept
  BY <1>5, SameKept DEF CreateSecret, RevokeSecret, Switch, calls, requests, vars
<1>6. QED BY <1>1, <1>2, <1>3, <1>4, <1>5 DEF Next, ServerStep

-----------------------------------------------------------------------------
(* What a call has before it.                                              *)

\* The ways in which a call gets on.
Progress(c) ==
    /\ pc[c] \notin Ended
    /\ \/ pc'[c] \in Ended
       \/ /\ round'[c] = round[c]
          /\ \/ pc[c] = "idle" /\ pc'[c] = "lock"
             \/ pc[c] = "lock" /\ pc'[c] = "fetch" /\ attempt'[c] = 0
             \/ pc[c] = "fetch" /\ pc'[c] = "granted" /\ attempt'[c] = attempt[c]
             \/ pc[c] = "granted" /\ pc'[c] = "offered"
             \/ pc[c] \in {"lock", "offered"} /\ pc'[c] = "wait" /\ attempt'[c] = 0
             \/ /\ pc[c] \in {"fetch", "granted"} /\ pc'[c] = "fetch"
                /\ attempt[c] = 0 /\ attempt'[c] = 1
             \/ /\ pc[c] = "wait" /\ pc'[c] = "wait"
                /\ attempt[c] = 0 /\ attempt'[c] = 1
             \/ pc[c] = "wait" /\ pc'[c] = "drop"
       \/ /\ pc[c] = "drop" /\ pc'[c] = "lock"
          /\ round[c] = 1 /\ round'[c] = 2

Rests(c) == pc'[c] = pc[c] /\ round'[c] = round[c] /\ attempt'[c] = attempt[c]

LEMMA ProgressNearer ==
  ASSUME TypeOK, TypeOK', NEW c \in Call, Progress(c)
  PROVE  CallLeft(c)' < CallLeft(c)
<1>1. /\ pc[c] \in {"idle", "lock", "wait", "drop"} \cup Fetching /\ attempt[c] \in {0, 1}
      /\ pc'[c] \in {"idle", "lock", "wait", "drop"} \cup Fetching \cup Ended
      /\ attempt'[c] \in {0, 1} /\ round[c] \in {1, 2}
  BY DEF TypeOK, Progress
<1>2. InRound(c) \in 1..10
  BY <1>1 DEF InRound, Fetching
<1>3. CASE pc'[c] \in Ended
  BY <1>2, <1>3 DEF CallLeft, Progress
<1>4. CASE pc'[c] \notin Ended /\ round'[c] = round[c]
  <2>1. InRound(c)' \in 1..10
    BY <1>1, <1>4 DEF InRound, Fetching
  <2>2. InRound(c)' < InRound(c)
    BY <1>1, <1>4 DEF InRound, Fetching, Progress, Ended
  <2>3. QED BY <1>1, <1>2, <1>4, <2>1, <2>2 DEF CallLeft, Progress
<1>5. CASE pc[c] = "drop" /\ pc'[c] = "lock" /\ round[c] = 1 /\ round'[c] = 2
  BY <1>5 DEF CallLeft, InRound, Ended
<1>6. QED BY <1>3, <1>4, <1>5 DEF Progress

LEMMA ReturnProgress ==
  ASSUME TypeOK, NEW c \in Call, pc[c] \notin Ended,
         NEW outcome \in Ended, NEW told, Return(c, outcome, told)
  PROVE  Progress(c) /\ \A d \in Call \ {c} : Rests(d)
  BY DEF Return, Progress, Rests, TypeOK

LEMMA ResendProgress ==
  ASSUME TypeOK, NEW c \in Call, pc[c] = "wait", NEW rest, Resend(c, rest)
  PROVE  Progress(c) /\ \A d \in Call \ {c} : Rests(d)
  BY DEF Resend, Post, Progress, Rests, TypeOK, Ended

\* An answer that reaches its call.
LEMMA ReplyProgress ==
  ASSUME IInv, NEW q \in Attempt, NEW answer, Reply(q, answer)
  PROVE  /\ Progress(q[1]) \/ Rests(q[1])
         /\ \A d \in Call \ {q[1]} : Rests(d)
<1> DEFINE c == q[1]
<1>1. c \in Call /\ TypeOK
  BY DEF Attempt, IInv
<1>2. CASE ~Awaited(q)
  BY <1>1, <1>2 DEF Reply, calls, Rests
<1>3. CASE Awaited(q)
  <2>1. Respond(c, answer, applied[q]) /\ pc[c] = "wait"
    BY <1>3 DEF Awaited, Reply
  <2>2. \/ \E rest : Resend(c, rest)
        \/ /\ pc' = [pc EXCEPT ![c] = "drop"] /\ UNCHANGED <<round, attempt>>
        \/ \E outcome \in Ended, told \in SUBSET Nat : Return(c, outcome, told)
    BY <1>1, <2>1 DEF Respond, Ended, TypeOK
  <2>3. CASE \E rest : Resend(c, rest)
    BY <1>1, <2>1, <2>3, ResendProgress
  <2>4. CASE pc' = [pc EXCEPT ![c] = "drop"] /\ UNCHANGED <<round, attempt>>
    BY <1>1, <2>1, <2>4 DEF Progress, Rests, TypeOK, Ended
  <2>5. CASE \E outcome \in Ended, told \in SUBSET Nat : Return(c, outcome, told)
    BY <1>1, <2>1, <2>5, ReturnProgress DEF Ended
  <2>6. QED BY <2>2, <2>3, <2>4, <2>5
<1>4. QED BY <1>2, <1>3

\* A step of the call itself.
LEMMA CallProgress ==
  ASSUME IInv, NEW c \in Call,
         Begin(c) \/ ClientStep(c) \/ FetchTrouble(c) \/ Break(c) \/ Drop(c)
  PROVE  Progress(c) /\ \A d \in Call \ {c} : Rests(d)
<1> USE DEF IInv
<1>1. CASE Begin(c) \/ StartFetch(c) \/ ReadCredentials(c) \/ IssueToken(c)
  BY <1>1 DEF Begin, StartFetch, ReadCredentials, IssueToken, Progress, Rests, TypeOK, Ended
<1>2. CASE UseCached(c) \/ CacheToken(c)
  <2>1. pc[c] \in {"lock", "offered"} /\ \E t : Post(c, t, 0)
    BY <1>2 DEF UseCached, CacheToken
  <2>2. /\ pc' = [pc EXCEPT ![c] = "wait"] /\ attempt' = [attempt EXCEPT ![c] = 0]
        /\ round' = round
    BY <2>1 DEF Post
  <2>3. pc'[c] = "wait" /\ attempt'[c] = 0
    BY <2>2 DEF TypeOK
  <2>4. \A d \in Call \ {c} : Rests(d)
    BY <2>2 DEF Rests, TypeOK
  <2>5. QED BY <2>1, <2>2, <2>3, <2>4 DEF Progress, Ended
<1>3. CASE DropToken(c)
  <2>1. /\ pc[c] = "drop" /\ pc' = [pc EXCEPT ![c] = "lock"]
        /\ round' = [round EXCEPT ![c] = 2] /\ attempt' = attempt
    BY <1>3 DEF DropToken
  <2>2. round[c] = 1
    <3>1. pc[c] \notin {"lock", "wait"} \cup Fetching
      BY <2>1 DEF Fetching
    <3>2. round[c] # 2
      BY <3>1 DEF OldTokensGone
    <3>3. QED BY <3>2 DEF TypeOK
  <2>3. QED BY <2>1, <2>2 DEF Progress, Rests, TypeOK, Ended
<1>4. CASE RefuseToken(c)
  BY <1>4, ReturnProgress DEF RefuseToken, Ended
<1>5. CASE FetchTrouble(c)
  <2>1. CASE Return(c, "failed", {})
    BY <1>5, <2>1, ReturnProgress DEF FetchTrouble, Ended
  <2>2. CASE ~Return(c, "failed", {})
    BY <1>5, <2>2 DEF FetchTrouble, Progress, Rests, TypeOK, Ended
  <2>3. QED BY <2>1, <2>2
<1>6. CASE Break(c)
  <2>1. pc[c] = "wait" /\ ((\E rest : Resend(c, rest)) \/ Return(c, "failed", {}))
    BY <1>6 DEF Break
  <2>2. QED BY <2>1, ResendProgress, ReturnProgress DEF Ended
<1>7. CASE Drop(c)
  BY <1>7, ReturnProgress DEF Drop, Ended
<1>8. QED BY <1>1, <1>2, <1>3, <1>4, <1>5, <1>6, <1>7 DEF ClientStep

\* Whoever the step is of, a call gets on or is left alone.
LEMMA NextProgress ==
  ASSUME IInv, [Next]_vars, NEW c \in Call
  PROVE  Progress(c) \/ Rests(c)
<1>1. ASSUME NEW d \in Call, Begin(d) \/ ClientStep(d) \/ FetchTrouble(d) \/ Break(d) \/ Drop(d)
      PROVE  Progress(c) \/ Rests(c)
  BY <1>1, CallProgress
<1>2. ASSUME NEW q \in Attempt, Unauthorized(q) \/ Finish(q) \/ Decline(q)
      PROVE  Progress(c) \/ Rests(c)
  BY <1>2, ReplyProgress DEF Unauthorized, Finish, Decline
<1>3. ASSUME \/ \E q \in Attempt : Admit(q) \/ Apply(q) \/ Vanish(q)
             \/ \E k \in Secret : CreateSecret(k) \/ RevokeSecret(k)
             \/ \E what \in Closable : Switch(what)
             \/ UNCHANGED vars
      PROVE  Rests(c)
  <2>1. UNCHANGED calls
    BY <1>3 DEF Admit, Apply, Vanish, CreateSecret, RevokeSecret, Switch, vars
  <2>2. QED BY <2>1 DEF calls, Rests
<1>4. QED BY <1>1, <1>2, <1>3 DEF Next, ServerStep

\* sync_resources asks for the mutex three times at most and sends its batch four
\* times at most, whatever the server answers and whatever other calls do.
THEOREM CallsBounded == Spec => CallsRunOut
<1>1. ASSUME IInv, IInv', [Next]_vars
      PROVE  CallNearer
  <2> SUFFICES ASSUME NEW c \in Call
               PROVE  /\ ~Rests(c) => CallLeft(c)' < CallLeft(c)
                      /\ Begin(c) \/ ClientStep(c) \/ FetchTrouble(c) \/ Break(c) \/ Drop(c)
                             => CallLeft(c)' < CallLeft(c)
    BY DEF CallNearer, Rests
  <2>1. Progress(c) => CallLeft(c)' < CallLeft(c)
    BY <1>1, ProgressNearer DEF IInv
  <2>2. QED BY <1>1, <2>1, NextProgress, CallProgress
<1>2. IInv /\ IInv' /\ [Next]_vars => [CallNearer]_vars
  BY <1>1
<1>3. QED BY <1>2, Invariance, PTL DEF Spec, CallsRunOut

-----------------------------------------------------------------------------
(* What the server has before it.                                          *)

\* Requests whose handlers go on are where they were.
LEMMA DismissRests ==
  ASSUME TypeOK, NEW Q, Dismiss(Q), \A p \in Q : stage'[p] = "none"
  PROVE  \A p \in Attempt : stage'[p] = "applying" => next'[p] = next[p]
  BY DEF Dismiss

LEMMA NextRests ==
  ASSUME IInv, [Next]_vars, \A q \in Attempt : ~Admit(q) /\ ~Apply(q)
  PROVE  \A p \in Attempt : stage'[p] = "applying" => next'[p] = next[p]
<1> USE DEF IInv
<1>1. ASSUME NEW c \in Call, Begin(c) \/ ClientStep(c) \/ FetchTrouble(c)
      PROVE  next' = next
  BY <1>1 DEF Begin, ClientStep, UseCached, StartFetch, ReadCredentials, RefuseToken,
              IssueToken, CacheToken, DropToken, FetchTrouble, requests
<1>2. ASSUME NEW c \in Call, Break(c) \/ Drop(c)
      PROVE  \A p \in Attempt : stage'[p] = "applying" => next'[p] = next[p]
  <2>1. \E rest : /\ Dismiss(IF rest = "none" THEN {Current(c)} ELSE {})
                  /\ \/ Resend(c, rest)
                     \/ stage' = [stage EXCEPT ![Current(c)] = rest]
    BY <1>2 DEF Break, Drop
  <2>2. PICK rest : /\ Dismiss(IF rest = "none" THEN {Current(c)} ELSE {})
                    /\ \/ Resend(c, rest)
                       \/ stage' = [stage EXCEPT ![Current(c)] = rest]
    BY <2>1
  <2>3. stage'[Current(c)] = rest
    BY <2>2, ClearedGone DEF Resend
  <2>4. QED BY <2>2, <2>3, DismissRests
<1>3. ASSUME NEW q \in Attempt, Unauthorized(q) \/ Finish(q) \/ Decline(q)
      PROVE  \A p \in Attempt : stage'[p] = "applying" => next'[p] = next[p]
  <2>1. PICK answer : Reply(q, answer)
    BY <1>3 DEF Unauthorized, Finish, Decline
  <2>2. stage[q] \in Running
    BY <1>3 DEF Unauthorized, Finish, Decline, Running
  <2>3. stage'[q] = "none" /\ Dismiss({q})
    BY <2>1, <2>2, ReplyEnds DEF Reply
  <2>4. QED BY <2>3, DismissRests
<1>4. ASSUME NEW q \in Attempt, Vanish(q)
      PROVE  \A p \in Attempt : stage'[p] = "applying" => next'[p] = next[p]
  <2>1. stage'[q] = "none" /\ Dismiss({q})
    BY <1>4 DEF Vanish, TypeOK
  <2>2. QED BY <2>1, DismissRests
<1>5. ASSUME \/ \E k \in Secret : CreateSecret(k) \/ RevokeSecret(k)
             \/ \E what \in Closable : Switch(what)
             \/ UNCHANGED vars
      PROVE  next' = next
  BY <1>5 DEF CreateSecret, RevokeSecret, Switch, requests, vars
<1>6. QED BY <1>1, <1>2, <1>3, <1>4, <1>5 DEF Next, ServerStep

\* What is before the server, once more by cases.
LEMMA HandlerValue ==
  ASSUME SentInv, NEW q \in Attempt
  PROVE  /\ Len(Batch[q[1]]) \in Nat /\ HandlerLeft(q) \in Nat
         /\ Ahead(q) => HandlerLeft(q) = Len(Batch[q[1]]) + 3
         /\ ~Ahead(q) /\ stage[q] = "none" => HandlerLeft(q) = 0
         /\ stage[q] = "travelling" => HandlerLeft(q) = Len(Batch[q[1]]) + 2
         /\ stage[q] = "applying" => /\ HandlerLeft(q) = Len(Batch[q[1]]) + 2 - next[q]
                                     /\ HandlerLeft(q) > 0
<1>1. Len(Batch[q[1]]) \in Nat
  BY DEF Attempt
<1>2. /\ Ahead(q) => stage[q] = "none"
      /\ stage[q] = "applying" => next[q] \in 1..(Len(Batch[q[1]]) + 1)
      /\ stage[q] \in {"none", "travelling", "applying"}
  BY DEF SentInv, IInv, TypeOK, Running
<1>3. CASE Ahead(q)
  BY <1>1, <1>2, <1>3 DEF HandlerLeft
<1>4. CASE ~Ahead(q) /\ stage[q] = "none"
  BY <1>1, <1>4 DEF HandlerLeft
<1>5. CASE ~Ahead(q) /\ stage[q] = "travelling"
  BY <1>1, <1>5 DEF HandlerLeft
<1>6. CASE ~Ahead(q) /\ stage[q] = "applying"
  <2>1. HandlerLeft(q) = Len(Batch[q[1]]) + 2 - next[q]
    BY <1>6 DEF HandlerLeft
  <2>2. HandlerLeft(q) \in 1..(Len(Batch[q[1]]) + 1)
    BY <1>1, <1>2, <1>6, <2>1
  <2>3. QED BY <1>1, <1>6, <2>1, <2>2
<1>7. QED BY <1>2, <1>3, <1>4, <1>5, <1>6

\* An operation, or the check of the caller.
LEMMA HandlerGoes ==
  ASSUME SentInv, NEW q \in Attempt, Admit(q) \/ Apply(q)
  PROVE  /\ stage'[q] = "applying" /\ stage[q] # "none"
         /\ next'[q] \in 1..(Len(Batch[q[1]]) + 1)
         /\ Admit(q) => stage[q] = "travelling" /\ next'[q] = 1
         /\ Apply(q) => stage[q] = "applying" /\ next'[q] = next[q] + 1
         /\ \A p \in Attempt : /\ Ahead(p)' <=> Ahead(p)
                               /\ p # q => stage'[p] = stage[p] /\ next'[p] = next[p]
<1> USE DEF SentInv, IInv, TypeOK
<1>1. \A p \in Attempt : Ahead(p)' <=> Ahead(p)
  BY DEF Admit, Apply, calls, Ahead
<1>2. Len(Batch[q[1]]) \in Nat /\ DOMAIN Batch[q[1]] = 1..Len(Batch[q[1]])
  BY DEF Attempt
<1>3. CASE Admit(q)
  BY <1>1, <1>2, <1>3 DEF Admit, Apply
<1>4. CASE Apply(q)
  BY <1>1, <1>2, <1>4 DEF Admit, Apply
<1>5. QED BY <1>3, <1>4

LEMMA HandlerNat ==
  ASSUME SentInv', NEW q \in Attempt
  PROVE  HandlerLeft(q)' \in Nat
<1>1. Len(Batch[q[1]]) \in Nat
  BY DEF Attempt
<1>2. /\ stage'[q] = "applying" => next'[q] \in 1..(Len(Batch[q[1]]) + 1)
      /\ stage'[q] \in {"none", "travelling", "applying"}
  BY DEF SentInv, IInv, TypeOK, Running
<1>3. QED BY <1>1, <1>2 DEF HandlerLeft

\* A step of the server shows on the request it is about, and ends it unless it
\* is the check of the caller or an operation.
LEMMA ServerMoves ==
  ASSUME IInv, NEW q \in Attempt, ServerStep(q)
  PROVE  /\ stage'[q] # stage[q] \/ next'[q] # next[q]
         /\ ~Admit(q) /\ ~Apply(q) => stage[q] \in Running /\ stage'[q] = "none"
<1> USE DEF IInv, TypeOK
<1>1. CASE Admit(q)
  BY <1>1 DEF Admit
<1>2. CASE Apply(q)
  BY <1>2 DEF Apply
<1>3. CASE Unauthorized(q) \/ Finish(q)
  <2>1. PICK answer : Reply(q, answer)
    BY <1>3 DEF Unauthorized, Finish
  <2>2. stage[q] \in Running
    BY <1>3 DEF Unauthorized, Finish, Running
  <2>3. stage'[q] = "none"
    BY <2>1, <2>2, ReplyEnds
  <2>4. QED BY <2>2, <2>3 DEF Running
<1>4. QED BY <1>1, <1>2, <1>3 DEF ServerStep

\* No step of anybody gives the server more to do.
LEMMA StepSent ==
  ASSUME SentInv, [Next]_vars
  PROVE  SentInv' /\ HandlerNearer
<1>1. IInv /\ IInv' /\ Fresh
  BY NextKeeps DEF SentInv, Fresh
<1>2. CASE \E q \in Attempt : Admit(q) \/ Apply(q)
  <2>1. PICK q \in Attempt : Admit(q) \/ Apply(q)
    BY <1>2
  <2>2. SentInv'
    BY <1>1, <2>1, HandlerGoes DEF SentInv
  <2>3. HandlerLeft(q)' < HandlerLeft(q)
    <3>1. Len(Batch[q[1]]) \in Nat /\ ~Ahead(q)
      BY <1>1, <2>1, HandlerGoes DEF Attempt, Fresh
    <3>2. HandlerLeft(q)' = Len(Batch[q[1]]) + 2 - next'[q]
      BY <2>1, <3>1, HandlerGoes DEF HandlerLeft
    <3>3. CASE Admit(q)
      <4>1. HandlerLeft(q) = Len(Batch[q[1]]) + 2 /\ next'[q] = 1
        BY <3>3, HandlerGoes, HandlerValue
      <4>2. QED BY <3>1, <3>2, <4>1
    <3>4. CASE Apply(q)
      <4>1. /\ HandlerLeft(q) = Len(Batch[q[1]]) + 2 - next[q]
            /\ next'[q] = next[q] + 1
        BY <3>4, HandlerGoes, HandlerValue
      <4>2. next[q] \in Nat
        BY <1>1 DEF IInv, TypeOK
      <4> DEFINE operations == Len(Batch[q[1]])
      <4> HIDE DEF operations
      <4>3. operations + 2 - (next[q] + 1) < operations + 2 - next[q]
        BY <3>1, <4>2 DEF operations
      <4>4. QED BY <3>2, <4>1, <4>3 DEF operations
    <3>5. QED BY <2>1, <3>3, <3>4
  <2>4. ASSUME NEW p \in Attempt, p # q
        PROVE  HandlerLeft(p)' = HandlerLeft(p)
    <3>1. (Ahead(p)' <=> Ahead(p)) /\ stage'[p] = stage[p] /\ next'[p] = next[p]
      BY <2>1, <2>4, HandlerGoes
    <3>2. /\ Len(Batch[p[1]]) \in Nat /\ next[p] \in Nat
          /\ stage[p] \in {"none", "travelling", "applying"}
      BY <1>1 DEF Attempt, IInv, TypeOK, Running
    <3>3. CASE Ahead(p)
      BY <3>1, <3>3 DEF HandlerLeft
    <3>4. CASE ~Ahead(p)
      BY <3>1, <3>2, <3>4 DEF HandlerLeft
    <3>5. QED BY <3>3, <3>4
  <2>5. \A p \in Attempt : HandlerLeft(p)' <= HandlerLeft(p)
    <3>1. \A p \in Attempt : HandlerLeft(p) \in Nat /\ HandlerLeft(p)' \in Nat
      BY <2>2, HandlerValue, HandlerNat
    <3>2. QED BY <2>3, <2>4, <3>1
  <2>6. ASSUME NEW p \in Attempt, ServerStep(p)
        PROVE  p = q
    <3>1. stage'[p] # stage[p] \/ next'[p] # next[p]
      BY <1>1, <2>6, ServerMoves
    <3>2. QED BY <2>1, <3>1, HandlerGoes
  <2>7. QED BY <2>2, <2>3, <2>5, <2>6 DEF HandlerNearer
<1>3. CASE \A q \in Attempt : ~Admit(q) /\ ~Apply(q)
  <2>1. Kept /\ \A q \in Attempt : stage'[q] = "applying" => next'[q] = next[q]
    BY <1>1, <1>3, NextKept, NextRests
  <2>2. SentInv'
    BY <1>1, <2>1 DEF SentInv, Kept
  <2>3. ASSUME NEW q \in Attempt
        PROVE  HandlerLeft(q)' <= HandlerLeft(q)
    <3>1. stage'[q] \in {"none", "travelling", "applying"}
      BY <1>1 DEF IInv, TypeOK, Running
    <3>2. Len(Batch[q[1]]) \in Nat /\ HandlerLeft(q) \in Nat
      BY HandlerValue
    <3>3. CASE Ahead(q)'
      <4>1. HandlerLeft(q)' = Len(Batch[q[1]]) + 3 /\ Ahead(q)
        BY <2>1, <3>3 DEF HandlerLeft, Kept
      <4>2. QED BY <3>2, <4>1, HandlerValue
    <3>4. CASE ~Ahead(q)' /\ stage'[q] = "none"
      <4>1. HandlerLeft(q)' = 0
        BY <3>4 DEF HandlerLeft
      <4>2. QED BY <3>2, <4>1
    <3>5. CASE ~Ahead(q)' /\ stage'[q] = "travelling"
      <4>1. HandlerLeft(q)' = Len(Batch[q[1]]) + 2 /\ (stage[q] = "travelling" \/ Ahead(q))
        BY <2>1, <3>5 DEF HandlerLeft, Kept
      <4>2. QED BY <3>2, <4>1, HandlerValue
    <3>6. CASE ~Ahead(q)' /\ stage'[q] = "applying"
      <4>1. /\ HandlerLeft(q)' = Len(Batch[q[1]]) + 2 - next'[q]
            /\ stage[q] = "applying" /\ next'[q] = next[q]
        BY <2>1, <3>6 DEF HandlerLeft, Kept
      <4>2. QED BY <3>2, <4>1, HandlerValue
    <3>7. QED BY <3>1, <3>3, <3>4, <3>5, <3>6
  <2>4. ASSUME NEW q \in Attempt, ServerStep(q)
        PROVE  HandlerLeft(q)' < HandlerLeft(q)
    <3>1. stage[q] \in Running /\ stage'[q] = "none"
      BY <1>1, <1>3, <2>4, ServerMoves
    <3>2. ~Ahead(q)'
      BY <1>1, <2>1, <3>1 DEF Kept, Fresh, Running
    <3>3. HandlerLeft(q)' = 0
      BY <3>1, <3>2 DEF HandlerLeft
    <3>4. HandlerLeft(q) > 0
      BY <3>1, HandlerValue DEF Running
    <3>5. QED BY <3>3, <3>4
  <2>5. QED BY <2>2, <2>3, <2>4 DEF HandlerNearer
<1>4. QED BY <1>2, <1>3

\* A batch that a client repeats, drops or forgets is received and applied a
\* bounded number of times, four at most (send_sync, sync_resources): with
\* CallsBounded, this is why the mutex comes round and every call returns.
THEOREM HandlersBounded == Spec => HandlersRunOut
<1>1. Init => SentInv
  BY InitIInv DEF Init, SentInv
<1>2. SentInv /\ [Next]_vars => SentInv' /\ HandlerNearer
  BY StepSent
<1>3. SentInv /\ [Next]_vars => [HandlerNearer]_vars
  BY <1>2
<1>4. QED BY <1>1, <1>2, <1>3, PTL DEF Spec, HandlersRunOut
=============================================================================
