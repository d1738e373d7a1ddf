------------------------- MODULE TokenGrantsProofs -------------------------
(***************************************************************************)
(* Proofs about TokenGrants, for any number of requests, codes and tokens. *)
(***************************************************************************)
EXTENDS TokenGrants, FiniteSetTheorems, TLAPS

USE SecretAssumption, RequestAssumption

\* The tables start empty.
LEMMA InitIInv == Init => IInv
  BY DEF Init, IInv, TypeOK, Stages, RowsSound, HeldSound, Held, RedeemedOnce, AtMostOneLive,
         SpentForToken, RevokedFromTheRoot, FamilyRevoked, Row

\* What the tables satisfy, they satisfy as long as they do not change.
LEMMA TablesKeep ==
  ASSUME IInv, UNCHANGED tables
  PROVE  /\ (RowsSound /\ RedeemedOnce /\ SpentForToken)'
         /\ (AtMostOneLive /\ RevokedFromTheRoot /\ FamilyRevoked)'
  BY DEF IInv, tables, RowsSound, RedeemedOnce, SpentForToken, AtMostOneLive,
         RevokedFromTheRoot, FamilyRevoked, Row

\* A transaction that ends frees its own rows only: the others keep theirs, and
\* what they rely on, unless the commit touches it.
LEMMA EndKeeps ==
  ASSUME TypeOK, HeldSound, NEW r \in Request, End(r),
         Row \subseteq Row', issued \subseteq issued',
         \A t \in Row : source'[t] = source[t] /\ family'[t] = family[t],
         \A q \in Request \ {r} :
            /\ pc[q] # "idle" => fresh[q] \notin Row'
            /\ pc[q] = "insert" => secret[q] \notin consumed'
            /\ pc[q] = "rotate" => secret[q] \notin consumed' \cup revoked'
  PROVE  HeldSound'
<1> SUFFICES ASSUME NEW q \in Request
             PROVE  Held(q)'
  BY DEF HeldSound
<1>1. CASE q = r
  BY <1>1 DEF End, TypeOK, Held
<1>2. CASE q # r
  <2>1. /\ pc'[q] = pc[q] /\ secret'[q] = secret[q] /\ want'[q] = want[q]
        /\ fresh'[q] = fresh[q] /\ sweep'[q] = sweep[q] /\ found'[q] = found[q]
        /\ \A s \in Secret : rowLock[s] = q => rowLock'[s] = q
    BY <1>2 DEF End, TypeOK
  <2>2. \A p \in Request : fresh'[p] \in {fresh[p], NoSecret}
    BY DEF End, TypeOK
  <2>3. Held(q)
    BY DEF HeldSound
  <2>4. pc[q] = "snapshot" => FamilyOf(secret[q]) \subseteq FamilyOf(secret[q])'
    BY <2>1, <2>3 DEF Held, FamilyOf
  <2>5. QED BY <1>2, <2>1, <2>2, <2>3, <2>4 DEF Held, TypeOK, Row, Secret
<1>3. QED BY <1>1, <1>2

\* A transaction that ends leaves the rows and the requests of the others alone.
LEMMA RollbackStep ==
  ASSUME IInv, NEW r \in Request, Rollback(r)
  PROVE  IInv'
<1> USE DEF IInv, Rollback
<1>1. TypeOK'
  BY DEF TypeOK, End, Stages, tables
<1>2. HeldSound'
  BY EndKeeps DEF HeldSound, Held, Row, tables
<1>3. QED BY <1>1, <1>2, TablesKeep

\* A code is issued.
LEMMA IssueStep ==
  ASSUME IInv, IssueCode
  PROVE  IInv'
  BY DEF IInv, IssueCode, TypeOK, RowsSound, HeldSound, Held, RedeemedOnce, SpentForToken,
         AtMostOneLive, RevokedFromTheRoot, FamilyRevoked, FamilyOf, Row, locals

\* A request arrives with a secret that was handed out.
LEMMA StartStep ==
  ASSUME IInv, NEW r \in Request, Start(r)
  PROVE  IInv'
<1> USE DEF IInv, Begin
<1>1. PICK stage \in {"claim", "select"}, s \in Secret :
        /\ Begin(r, stage, s)
        /\ stage = "claim" => s \in issued
        /\ stage = "select" => s \in Row
  BY DEF Start, StartExchange, StartRefresh, TypeOK, Secret, Row
<1>2. TypeOK'
  BY <1>1 DEF TypeOK, Stages, tables, Fresh
<1>3. HeldSound'
  BY <1>1 DEF HeldSound, Held, TypeOK, FamilyOf, Row, tables, Fresh
<1>4. QED BY <1>1, <1>2, <1>3, TablesKeep

\* A row is locked: nobody else relied on it.
LEMMA AcquireStep ==
  ASSUME IInv, NEW r \in Request, Acquire(r)
  PROVE  IInv'
<1> USE DEF IInv
<1>1. CASE Rollback(r)
  BY <1>1, RollbackStep
<1>2. CASE ~Rollback(r)
  <2>1. PICK stage \in {"insert", "snapshot", "rotate", "sweep"} :
          /\ Lock(r) /\ Goto(r, stage) /\ UNCHANGED <<tables, secret, fresh, want, sweep>>
          /\ stage = "insert" => pc[r] = "claim" /\ secret[r] \notin consumed
          /\ stage = "snapshot" => /\ pc[r] = "select"
                                  /\ found' = [found EXCEPT ![r] = FamilyOf(secret[r])]
          /\ stage # "snapshot" => found' = found
          /\ stage = "rotate" => pc[r] = "select" /\ secret[r] \notin consumed \cup revoked
          /\ stage = "sweep" => pc[r] = "wait"
    BY <1>2 DEF Acquire, ClaimCode, SelectToken, SweepTake, Tell, locals
  <2>2. TypeOK'
    <3>1. found' \in [Request -> SUBSET Token]
      BY <2>1 DEF TypeOK, FamilyOf, Row
    <3>2. QED BY <2>1, <3>1 DEF TypeOK, Stages, tables, Lock, Goto
  <2>3. ASSUME NEW q \in Request
        PROVE  Held(q)'
    <3>1. Held(q) /\ Held(r)
      BY DEF HeldSound
    <3>2. FamilyOf(secret[q])' = FamilyOf(secret[q])
      BY <2>1 DEF FamilyOf, Row, tables
    <3>3. CASE q = r
      BY <2>1, <3>1, <3>2, <3>3 DEF Held, TypeOK, Row, tables, Lock, Goto, Secret
    <3>4. CASE q # r
      BY <2>1, <3>1, <3>2, <3>4 DEF Held, TypeOK, Row, tables, Lock, Goto, Secret
    <3>5. QED BY <3>3, <3>4
  <2>4. QED BY <2>1, <2>2, <2>3, TablesKeep DEF HeldSound
<1>3. QED BY <1>1, <1>2

\* The UPDATE of the family takes its snapshot, and picks the next row.
LEMMA SweepStep ==
  ASSUME IInv, NEW r \in Request, FamilySnapshot(r) \/ SweepNext(r)
  PROVE  IInv'
<1> USE DEF IInv, Goto
<1>1. CASE FamilySnapshot(r)
  <2>1. TypeOK'
    BY <1>1 DEF FamilySnapshot, TypeOK, Stages, tables, FamilyOf, Row
  <2>2. \A t \in FamilyOf(secret[r]) : source[t] \in Token => source[t] \in FamilyOf(secret[r])
    BY DEF FamilyOf, RowsSound, TypeOK, Row, Secret
  <2>3. HeldSound'
    BY <1>1, <2>2 DEF FamilySnapshot, HeldSound, Held, TypeOK, Row, tables, FamilyOf
  <2>4. QED BY <1>1, <2>1, <2>3, TablesKeep DEF FamilySnapshot
<1>2. CASE SweepNext(r)
  <2>1. TypeOK'
    BY <1>2 DEF SweepNext, TypeOK, Stages, tables, Secret
  <2>2. HeldSound'
    BY <1>2 DEF SweepNext, HeldSound, Held, TypeOK, FamilyOf, Row, tables
  <2>3. QED BY <1>2, <2>1, <2>2, TablesKeep DEF SweepNext
<1>3. QED BY <1>1, <1>2

\* A refresh token is stored: its hash is new, and the secret it was obtained
\* with, which only this request may spend, was not spent.
LEMMA InsertStep ==
  ASSUME IInv, NEW r \in Request, ExchangeCommit(r) \/ RotateCommit(r)
  PROVE  IInv'
<1> USE DEF IInv
<1>1. PICK fam \in Token : Insert(r, fam) /\ End(r)
  BY DEF ExchangeCommit, RotateCommit, HeldSound, Held, TypeOK, Row
<1>2. /\ fresh[r] \in Token \ Row
      /\ secret[r] \in (issued \cup Row) \ (consumed \cup revoked)
      /\ secret[r] \in Row => fam = family[secret[r]]
      /\ secret[r] \in issued => fam = fresh[r]
      /\ \A q \in Request \ {r} : /\ fresh[q] # fresh[r]
                                 /\ rowLock[secret[r]] # q
  BY <1>1 DEF ExchangeCommit, RotateCommit, HeldSound, Held, TypeOK, RowsSound, Insert, Row, Secret
<1>3. Row' = Row \cup {fresh[r]}
  BY <1>1, <1>2 DEF Row, Insert, TypeOK, Secret
<1>4. TypeOK'
  <2>1. /\ family' \in [Token -> Token \cup {NoSecret}]
        /\ source' \in [Token -> Secret \cup {NoSecret}]
        /\ consumed' \subseteq Secret /\ issued' \subseteq Code
        /\ revoked' \subseteq Token /\ reported' \subseteq Token
    BY <1>1, <1>2 DEF TypeOK, Insert, Secret, Row
  <2>2. QED BY <1>1, <2>1 DEF TypeOK, End, Stages
<1>5. RowsSound'
  BY <1>1, <1>2, <1>3 DEF RowsSound, Insert, TypeOK, Secret, Row
<1>6. HeldSound'
  <2>1. /\ Row \subseteq Row' /\ issued' = issued
        /\ \A t \in Row : source'[t] = source[t] /\ family'[t] = family[t]
        /\ consumed' = consumed \cup {secret[r]} /\ revoked' = revoked
    BY <1>1, <1>2, <1>3 DEF Insert, TypeOK
  <2>2. ASSUME NEW q \in Request \ {r}
        PROVE  /\ pc[q] # "idle" => fresh[q] \notin Row'
               /\ pc[q] = "insert" => secret[q] \notin consumed'
               /\ pc[q] = "rotate" => secret[q] \notin consumed' \cup revoked'
    BY <1>2, <1>3, <2>1 DEF HeldSound, Held
  <2>3. QED BY <1>1, <2>1, <2>2, EndKeeps
<1>7. RedeemedOnce'
  BY <1>1, <1>2, <1>3 DEF RedeemedOnce, RowsSound, Insert, TypeOK
<1>8. AtMostOneLive'
  BY <1>1, <1>2, <1>3 DEF AtMostOneLive, RowsSound, Insert, TypeOK, Secret, Row
<1>9. RevokedFromTheRoot' /\ FamilyRevoked'
  BY <1>1, <1>2 DEF RevokedFromTheRoot, FamilyRevoked, RowsSound, Insert, TypeOK
<1>10. SpentForToken'
  BY <1>1, <1>2, <1>3 DEF SpentForToken, Insert, TypeOK
<1>11. QED BY <1>4, <1>5, <1>6, <1>7, <1>8, <1>9, <1>10

\* The family is revoked: the request holds every row it revokes, so no
\* rotation of one of them is under way.
LEMMA RevokeStep ==
  ASSUME IInv, NEW r \in Request, RevokeCommit(r)
  PROVE  IInv'
<1> USE DEF IInv, RevokeCommit
<1>1. sweep[r] \subseteq Row
  BY DEF HeldSound, Held
<1>2. TypeOK'
  BY DEF TypeOK, End, Stages
<1>3. (RowsSound /\ RedeemedOnce /\ SpentForToken /\ AtMostOneLive /\ RevokedFromTheRoot)'
  BY <1>1 DEF RowsSound, RedeemedOnce, SpentForToken, AtMostOneLive, RevokedFromTheRoot,
              HeldSound, Held, Row
<1>4. ASSUME NEW q \in Request \ {r}
      PROVE  pc[q] = "rotate" => secret[q] \notin revoked'
  BY DEF HeldSound, Held, Row, RevokedFromTheRoot
<1>5. HeldSound'
  BY <1>4, EndKeeps DEF HeldSound, Held, Row
<1>6. FamilyRevoked'
  BY DEF FamilyRevoked, HeldSound, Held
<1>7. QED BY <1>2, <1>3, <1>5, <1>6

\* Every step preserves the invariant.
LEMMA StepIInv == IInv /\ [Next]_vars => IInv'
<1>1. ASSUME IInv, UNCHANGED vars
      PROVE  IInv'
  BY <1>1 DEF vars, tables, locals, IInv, TypeOK, RowsSound, HeldSound, Held, RedeemedOnce,
       SpentForToken, AtMostOneLive, RevokedFromTheRoot, FamilyRevoked, FamilyOf, Row
<1>2. ASSUME IInv, NEW r \in Request, Advance(r)
      PROVE  IInv'
  BY <1>2, SweepStep, InsertStep, RevokeStep DEF Advance
<1>3. ASSUME IInv, NEW r \in Request, BreakDeadlock(r) \/ Abort(r)
      PROVE  IInv'
  BY <1>3, RollbackStep DEF BreakDeadlock, Abort
<1>4. QED
  BY <1>1, <1>2, <1>3, IssueStep, StartStep, AcquireStep DEF Next

-----------------------------------------------------------------------------
\* The invariant holds in every state of every behaviour.
THEOREM Invariance == Spec => []IInv
  BY InitIInv, StepIInv, PTL DEF Spec

\* Every variable has its type.
THEOREM TypeCorrect == Spec => []TypeOK
<1>1. IInv => TypeOK
  BY DEF IInv
<1>2. QED BY <1>1, Invariance, PTL

\* A code or a refresh token is redeemed at most once, however many requests
\* present it at the same time (exchange_authorization_code, rotate_refresh_token).
THEOREM SecretsRedeemedOnce == Spec => []RedeemedOnce
<1>1. IInv => RedeemedOnce
  BY DEF IInv
<1>2. QED BY <1>1, Invariance, PTL

\* A family never has two tokens that work.
THEOREM OneLiveToken == Spec => []AtMostOneLive
<1>1. IInv => AtMostOneLive
  BY DEF IInv
<1>2. QED BY <1>1, Invariance, PTL

\* Whatever is spent has bought a token: a code is not used up by an exchange
\* that does not match (exchange_authorization_code).
THEOREM NothingSpentInVain == Spec => []SpentForToken
<1>1. IInv => SpentForToken
  BY DEF IInv
<1>2. QED BY <1>1, Invariance, PTL

\* A replay that was answered has revoked every token its family had when the
\* replay was found (rotate_refresh_token).
THEOREM ReplayRevokesFamily == Spec => []FamilyRevoked
<1>1. IInv => FamilyRevoked
  BY DEF IInv
<1>2. QED BY <1>1, Invariance, PTL

\* Only a commit adds a token, and it adds one.
LEMMA RowsKept ==
  ASSUME [Next]_vars, \A r \in Request : ~ExchangeCommit(r) /\ ~RotateCommit(r)
  PROVE  UNCHANGED <<family, source>>
<1>1. ASSUME NEW r \in Request, Start(r) \/ Acquire(r) \/ Advance(r) \/ BreakDeadlock(r) \/ Abort(r)
      PROVE  UNCHANGED <<family, source>>
  BY <1>1 DEF Start, StartExchange, StartRefresh, Begin, Acquire, ClaimCode, SelectToken, Tell,
       SweepTake, Advance, FamilySnapshot, SweepNext, RevokeCommit, BreakDeadlock, Abort,
       Rollback, tables
<1>2. CASE IssueCode \/ UNCHANGED vars
  BY <1>2 DEF IssueCode, vars, tables
<1>3. QED BY <1>1, <1>2 DEF Next

\* A new token never stems from a revoked one.
THEOREM RevokedNeverRotated == Spec => RevokedStayDead
<1>1. ASSUME IInv, [Next]_vars
      PROVE  NoChildOfRevoked
  <2>1. CASE \A r \in Request : ~ExchangeCommit(r) /\ ~RotateCommit(r)
    BY <1>1, <2>1, RowsKept DEF NoChildOfRevoked, Row
  <2>2. ASSUME NEW r \in Request, ExchangeCommit(r) \/ RotateCommit(r)
        PROVE  NoChildOfRevoked
    <3>1. secret[r] \notin revoked /\ fresh[r] \in Token
      BY <1>1, <2>2 DEF ExchangeCommit, RotateCommit, IInv, HeldSound, Held, TypeOK, RowsSound,
                        Row, Secret
    <3>2. /\ \A t \in Token \ {fresh[r]} : family'[t] = family[t]
          /\ source'[fresh[r]] = secret[r]
      BY <1>1, <2>2, <3>1 DEF ExchangeCommit, RotateCommit, Insert, IInv, TypeOK
    <3>3. QED BY <3>1, <3>2 DEF NoChildOfRevoked, Row
  <2>3. QED BY <2>1, <2>2
<1>2. IInv /\ [Next]_vars => [NoChildOfRevoked]_vars
  BY <1>1
<1>3. QED BY <1>2, Invariance, PTL DEF Spec, RevokedStayDead

-----------------------------------------------------------------------------
\* A step that issues, redeems or revokes is the step of OneTimeSecrets.
LEMMA StepBox ==
  ASSUME IInv, [Next]_vars
  PROVE  [Box!Next]_(Box!vars)
<1> USE DEF Live
<1>1. CASE UNCHANGED tables
  BY <1>1 DEF Box!vars, tables, Row
<1>2. CASE IssueCode
  <2>1. PICK c \in Code \ issued : /\ issued' = issued \cup {c}
                                  /\ UNCHANGED <<family, consumed, revoked>>
    BY <1>2 DEF IssueCode
  <2>2. c \in Box!Unseen /\ Row' = Row
    BY <2>1 DEF Box!Unseen, IInv, RowsSound, TypeOK, Row, Secret
  <2>3. Box!Issue(c)
    BY <2>1, <2>2 DEF Box!Issue, Box!Unseen
  <2>4. QED BY <2>1, <2>3 DEF Box!Next, Secret
<1>3. ASSUME NEW r \in Request, ExchangeCommit(r) \/ RotateCommit(r)
      PROVE  Box!Next
  <2>1. /\ fresh[r] \in Token \ Row
        /\ secret[r] \in (issued \cup Row) \ (consumed \cup revoked)
        /\ \E fam \in Token : Insert(r, fam)
    BY <1>3 DEF ExchangeCommit, RotateCommit, IInv, HeldSound, Held, TypeOK, RowsSound, Row,
                Secret
  <2>2. /\ Row' = Row \cup {fresh[r]}
        /\ consumed' = consumed \cup {secret[r]} /\ UNCHANGED <<issued, revoked>>
    BY <2>1 DEF Row, Insert, IInv, TypeOK, Secret
  <2>3. fresh[r] \in Box!Unseen \ Code /\ secret[r] \in Secret
    BY <2>1, SecretAssumption DEF Box!Unseen, IInv, RowsSound, TypeOK, Row, Secret
  <2>4. Box!Redeem(secret[r], fresh[r])
    BY <2>1, <2>2, <2>3 DEF Box!Redeem, Box!Unseen, IInv, RowsSound, TypeOK, Secret
  <2>5. QED BY <2>3, <2>4 DEF Box!Next, Box!Unseen
<1>4. ASSUME NEW r \in Request, RevokeCommit(r)
      PROVE  Box!Next \/ UNCHANGED Box!vars
  <2>1. /\ sweep[r] \subseteq Row /\ revoked' = revoked \cup sweep[r]
        /\ UNCHANGED <<issued, consumed, family>> /\ Row' = Row
    BY <1>4 DEF RevokeCommit, IInv, HeldSound, Held, Row
  <2> DEFINE S == sweep[r] \ (consumed \cup revoked)
  <2>2. Box!Revoke(S)
    BY <2>1 DEF Box!Revoke, IInv, TypeOK, Row
  <2>3. S \in SUBSET Secret
    BY <2>1 DEF Row, Secret
  <2>4. QED BY <2>2, <2>3 DEF Box!Next
<1>5. ASSUME NEW r \in Request, Start(r) \/ Acquire(r) \/ BreakDeadlock(r) \/ Abort(r)
                                \/ FamilySnapshot(r) \/ SweepNext(r)
      PROVE  UNCHANGED tables
  BY <1>5 DEF Start, StartExchange, StartRefresh, Begin, Acquire, ClaimCode, SelectToken, Tell,
       SweepTake, FamilySnapshot, SweepNext, BreakDeadlock, Abort, Rollback
<1>6. QED BY <1>1, <1>2, <1>3, <1>4, <1>5 DEF Next, Advance, vars

\* The token endpoint, with its transactions, row locks, snapshots and
\* deadlocks, implements the box of one-time secrets.
THEOREM ImplementsBox == Spec => BoxSpec
<1>1. Init => Box!Init
  BY DEF Init, Box!Init, Live, Row
<1>2. IInv /\ [Next]_vars => [Box!Next]_(Box!vars)
  BY StepBox
<1>3. QED BY <1>1, <1>2, Invariance, PTL DEF Spec, BoxSpec, Box!Spec

-----------------------------------------------------------------------------
(* Deadlocks.                                                              *)

\* A transaction that ends lets go of every row it held.
LEMMA EndKeepsLocks ==
  ASSUME TypeOK, NEW r \in Request, End(r), consumed \subseteq consumed',
         \A q \in Request : RowsHeld(q) /\ Held(q),
         \A t \in Row : family'[t] = family[t]
  PROVE  \A q \in Request : RowsHeld(q)'
<1> SUFFICES ASSUME NEW q \in Request
             PROVE  RowsHeld(q)'
  OBVIOUS
<1>1. \A s \in Secret : rowLock'[s] \in {rowLock[s], Nobody} /\ rowLock'[s] # r
  BY DEF End, TypeOK
<1>2. CASE q = r
  BY <1>1, <1>2 DEF End, TypeOK, RowsHeld
<1>3. CASE q # r
  <2>1. /\ pc'[q] = pc[q] /\ secret'[q] = secret[q] /\ want'[q] = want[q] /\ sweep'[q] = sweep[q]
    BY <1>3 DEF End, TypeOK
  <2>2. pc[q] \in {"sweep", "wait"} => secret[q] \in Row /\ sweep[q] \subseteq Row
    BY DEF Held
  <2>3. pc[q] = "wait" => want[q] \in Secret
    BY <2>2 DEF RowsHeld, Row, Secret
  <2>4. QED BY <1>1, <2>1, <2>2, <2>3 DEF RowsHeld
<1>4. QED BY <1>2, <1>3

\* Every step keeps track of who holds what.
LEMMA StepLocks ==
  ASSUME LocksInv, [Next]_vars
  PROVE  LocksInv'
<1> USE DEF LocksInv, IInv, HeldSound
<1>1. IInv'
  BY StepIInv
<1>2. CASE IssueCode \/ UNCHANGED vars
  BY <1>1, <1>2 DEF IssueCode, vars, tables, locals, RowsHeld
<1>3. ASSUME NEW r \in Request, Rollback(r)
      PROVE  \A q \in Request : RowsHeld(q)'
  BY <1>3, EndKeepsLocks DEF Rollback, tables
<1>4. ASSUME NEW r \in Request, Start(r)
      PROVE  \A q \in Request : RowsHeld(q)'
  BY <1>4 DEF Start, StartExchange, StartRefresh, Begin, tables, RowsHeld, TypeOK
<1>5. ASSUME NEW r \in Request, Acquire(r), ~Rollback(r)
      PROVE  \A q \in Request : RowsHeld(q)'
  <2>1. PICK stage \in {"insert", "snapshot", "rotate", "sweep"} :
          /\ Lock(r) /\ Goto(r, stage) /\ UNCHANGED <<tables, secret, fresh, want, sweep>>
          /\ stage = "insert" => pc[r] = "claim"
          /\ stage = "snapshot" => pc[r] = "select" /\ secret[r] \in consumed
          /\ stage = "rotate" => pc[r] = "select"
          /\ stage = "sweep" => pc[r] = "wait"
    BY <1>5 DEF Acquire, ClaimCode, SelectToken, Tell, SweepTake, locals
  <2>2. ASSUME NEW q \in Request
        PROVE  RowsHeld(q)'
    <3>1. Held(r) /\ RowsHeld(r) /\ RowsHeld(q)
      OBVIOUS
    <3>2. \A s \in Secret : rowLock'[s] = IF s = want[r] THEN r ELSE rowLock[s]
      BY <2>1 DEF Lock, TypeOK
    <3>3. /\ pc' = [pc EXCEPT ![r] = stage]
          /\ UNCHANGED <<tables, secret, fresh, want, sweep>>
      BY <2>1 DEF Goto
    <3>4. CASE q = r
      BY <2>1, <3>1, <3>2, <3>3, <3>4 DEF RowsHeld, Held, TypeOK, tables
    <3>5. CASE q # r
      <4>1. pc[q] = "wait" => want[q] \in Secret
        BY DEF Held, RowsHeld, Row, Secret
      <4>2. QED BY <3>1, <3>2, <3>3, <3>5, <4>1 DEF RowsHeld, TypeOK, tables
    <3>6. QED BY <3>4, <3>5
  <2>3. QED BY <2>2
<1>6. ASSUME NEW r \in Request, ExchangeCommit(r) \/ RotateCommit(r)
      PROVE  \A q \in Request : RowsHeld(q)'
  <2>1. /\ End(r) /\ fresh[r] \notin Row /\ consumed \subseteq consumed'
        /\ \E fam : family' = [family EXCEPT ![fresh[r]] = fam]
    BY <1>6 DEF ExchangeCommit, RotateCommit, Insert, Held
  <2>2. \A t \in Row : family'[t] = family[t]
    BY <2>1 DEF TypeOK, Row
  <2>3. QED BY <2>1, <2>2, EndKeepsLocks
<1>7. ASSUME NEW r \in Request, FamilySnapshot(r)
      PROVE  \A q \in Request : RowsHeld(q)'
  BY <1>7 DEF FamilySnapshot, FamilyOf, Goto, RowsHeld, Held, TypeOK, tables
<1>8. ASSUME NEW r \in Request, SweepNext(r)
      PROVE  \A q \in Request : RowsHeld(q)'
  BY <1>8 DEF SweepNext, Goto, RowsHeld, Held, TypeOK, tables
<1>9. ASSUME NEW r \in Request, RevokeCommit(r)
      PROVE  \A q \in Request : RowsHeld(q)'
  BY <1>9, EndKeepsLocks DEF RevokeCommit
<1>10. QED
  BY <1>1, <1>2, <1>3, <1>4, <1>5, <1>6, <1>7, <1>8, <1>9 DEF Next, Advance, BreakDeadlock, Abort

\* Deadlocks are between replays of one family.
LEMMA DeadlockedReplays ==
  ASSUME LocksInv
  PROVE  OnlyReplaysDeadlock
<1> USE DEF LocksInv, IInv, HeldSound
<1> SUFFICES ASSUME NEW S \in SUBSET Request, Deadlocked(S), NEW r \in S
             PROVE  /\ pc[r] = "wait" /\ secret[r] \in consumed
                    /\ \A q \in S : Waits(r, q) => /\ secret[q] # secret[r]
                                                   /\ family[secret[q]] = family[secret[r]]
  BY DEF OnlyReplaysDeadlock
<1>1. \A p \in Request : Held(p) /\ RowsHeld(p)
  OBVIOUS
<1>2. \A p \in S : pc[p] \in {"claim", "select", "wait"} => want[p] \in Secret
  BY <1>1 DEF Held, RowsHeld, RowsSound, TypeOK, Row, Secret
<1>3. PICK p \in S : Waits(p, r)
  BY DEF Deadlocked
<1>4. PICK n \in S : Waits(r, n)
  BY DEF Deadlocked
<1>5. pc[r] = "wait"
  BY <1>1, <1>2, <1>3, <1>4 DEF Waits, RowsHeld
<1>6. ASSUME NEW q \in S, Waits(r, q)
      PROVE  secret[q] # secret[r] /\ family[secret[q]] = family[secret[r]]
  <2>1. PICK m \in S : Waits(q, m)
    BY DEF Deadlocked
  <2>2. pc[q] = "wait"
    BY <1>1, <1>2, <1>6, <2>1 DEF Waits, RowsHeld
  <2>3. /\ want[r] \in sweep[r] /\ family[want[r]] = family[secret[r]]
        /\ rowLock[want[r]] = q /\ q # r
    BY <1>1, <1>5, <1>6 DEF Waits, RowsHeld
  <2>4. family[want[r]] = family[secret[q]]
    BY <1>1, <1>2, <1>5, <2>2, <2>3 DEF RowsHeld
  <2>5. rowLock[secret[q]] = q /\ rowLock[secret[r]] = r
    BY <1>1, <1>5, <2>2 DEF Held
  <2>6. QED BY <2>3, <2>4, <2>5
<1>7. QED BY <1>1, <1>5, <1>6 DEF RowsHeld

\* PostgreSQL never picks a client that rotates its current token, or redeems a
\* code, to break a deadlock: those that wait for each other are replays of
\* different tokens of one family.
THEOREM DeadlocksAreReplays == Spec => []OnlyReplaysDeadlock
<1>1. Init => LocksInv
  BY InitIInv DEF Init, LocksInv, RowsHeld
<1>2. LocksInv /\ [Next]_vars => LocksInv'
  BY StepLocks
<1>3. LocksInv => OnlyReplaysDeadlock
  BY DeadlockedReplays
<1>4. QED BY <1>1, <1>2, <1>3, PTL DEF Spec
-----------------------------------------------------------------------------
(* Progress.                                                               *)

\* One row is inserted at a time.
LEMMA StepFinite ==
  ASSUME FiniteInv, [Next]_vars
  PROVE  FiniteInv'
<1> USE DEF FiniteInv
<1>1. TypeOK /\ LocksInv'
  BY StepLocks DEF LocksInv, IInv
<1>2. IsFiniteSet(Row')
  <2>1. ASSUME NEW r \in Request, NEW fam, Insert(r, fam)
        PROVE  IsFiniteSet(Row')
    <3>1. Row' \in SUBSET (Row \cup {fresh[r]})
      BY <1>1, <2>1 DEF Insert, Row, TypeOK
    <3>2. QED BY <3>1, FS_AddElement, FS_Subset
  <2>2. ASSUME UNCHANGED family
        PROVE  IsFiniteSet(Row')
    BY <2>2 DEF Row
  <2>3. QED BY <2>1, <2>2 DEF Next, Start, StartExchange, StartRefresh, Begin, IssueCode, Acquire,
           ClaimCode, SelectToken, Tell, SweepTake, Advance, ExchangeCommit, RotateCommit,
           FamilySnapshot, SweepNext, RevokeCommit, BreakDeadlock, Abort, Rollback, vars, tables
<1>3. \A r \in Request : sweep'[r] \in {sweep[r], {}, FamilyOf(secret[r])}
  <2>1. ASSUME NEW r \in Request, End(r)
        PROVE  \A q \in Request : sweep'[q] \in {sweep[q], {}}
    BY <1>1, <2>1 DEF End, TypeOK
  <2>2. ASSUME NEW r \in Request, FamilySnapshot(r)
        PROVE  \A q \in Request : sweep'[q] \in {sweep[q], FamilyOf(secret[q])}
    BY <1>1, <2>2 DEF FamilySnapshot, TypeOK
  <2>3. QED BY <2>1, <2>2 DEF Next, Start, StartExchange, StartRefresh, Begin, IssueCode, Acquire,
           ClaimCode, SelectToken, Tell, SweepTake, Advance, ExchangeCommit, RotateCommit,
           SweepNext, RevokeCommit, BreakDeadlock, Abort, Rollback, vars, locals
<1>4. \A r \in Request : IsFiniteSet(sweep'[r])
  <2>1. \A r \in Request : IsFiniteSet(FamilyOf(secret[r]))
    BY FS_Subset DEF FamilyOf
  <2>2. QED BY <1>3, <2>1, FS_EmptySet
<1>5. QED BY <1>1, <1>2, <1>4

\* The rows left are finitely many, and locking one leaves fewer.
LEMMA RowsLeftCount ==
  ASSUME FiniteInv, NEW r \in Request
  PROVE  /\ SweepLeft(r) \in Nat /\ Cardinality(RowsLeft(r)) \in Nat
         /\ \A t \in RowsLeft(r) :
               Cardinality(RowsLeft(r) \ {t}) = Cardinality(RowsLeft(r)) - 1
<1>1. IsFiniteSet(RowsLeft(r))
  BY FS_Subset DEF FiniteInv, RowsLeft
<1>2. Cardinality(RowsLeft(r)) \in Nat
  BY <1>1, FS_CardinalityType
<1>3. SweepLeft(r) \in Nat
  BY <1>2 DEF SweepLeft
<1>4. QED BY <1>1, <1>2, <1>3, FS_RemoveElement

\* Nobody else touches what a request has before it.
LEMMA OthersRest ==
  ASSUME TypeOK, NEW r \in Request, NEW q \in Request \ {r},
         Start(q) \/ Acquire(q) \/ Advance(q) \/ BreakDeadlock(q) \/ Abort(q)
  PROVE  PartsLeft(r)' = PartsLeft(r) /\ SweepLeft(r)' = SweepLeft(r)
<1>1. ASSUME End(q)
      PROVE  /\ pc'[r] = pc[r] /\ sweep'[r] = sweep[r]
             /\ \A t \in Token : rowLock'[t] = r <=> rowLock[t] = r
  BY <1>1 DEF End, TypeOK, Secret
<1>2. ASSUME UNCHANGED sweep, NEW stage, Goto(q, stage), Lock(q) \/ UNCHANGED rowLock
      PROVE  /\ pc'[r] = pc[r] /\ sweep'[r] = sweep[r]
             /\ \A t \in Token : rowLock'[t] = r <=> rowLock[t] = r
  BY <1>2 DEF Goto, Lock, TypeOK, Secret
<1>3. ASSUME NEW stage, NEW s, Begin(q, stage, s) \/ FamilySnapshot(q)
      PROVE  /\ pc'[r] = pc[r] /\ sweep'[r] = sweep[r] /\ rowLock' = rowLock
  BY <1>3 DEF Begin, FamilySnapshot, Goto, TypeOK
<1>4. /\ pc'[r] = pc[r] /\ sweep'[r] = sweep[r]
      /\ \A t \in Token : rowLock'[t] = r <=> rowLock[t] = r
  <2>1. CASE Start(q) \/ FamilySnapshot(q)
    BY <2>1, <1>3 DEF Start, StartExchange, StartRefresh
  <2>2. CASE Acquire(q) \/ SweepNext(q)
    BY <2>2, <1>1, <1>2 DEF Acquire, ClaimCode, SelectToken, Tell, SweepTake, SweepNext, Rollback, locals
  <2>3. CASE ExchangeCommit(q) \/ RotateCommit(q) \/ RevokeCommit(q) \/ BreakDeadlock(q) \/ Abort(q)
    BY <2>3, <1>1 DEF ExchangeCommit, RotateCommit, RevokeCommit, BreakDeadlock, Abort, Rollback
  <2>4. QED BY <2>1, <2>2, <2>3 DEF Advance
<1>5. RowsLeft(r)' = RowsLeft(r)
  BY <1>4 DEF RowsLeft, TypeOK
<1>6. QED BY <1>4, <1>5 DEF PartsLeft, SweepLeft

\* A statement of the request itself: the next part of its handler, or the next
\* row of the family.
LEMMA OwnNearer ==
  ASSUME FiniteInv, FiniteInv', NEW r \in Request, pc[r] # "idle",
         Acquire(r) \/ Advance(r) \/ BreakDeadlock(r) \/ Abort(r)
  PROVE  \/ PartsLeft(r)' < PartsLeft(r)
         \/ PartsLeft(r)' = PartsLeft(r) /\ SweepLeft(r)' < SweepLeft(r)
<1> USE DEF FiniteInv, LocksInv, IInv
<1>1. CASE pc'[r] = "idle"
  BY <1>1 DEF PartsLeft, TypeOK, Stages
<1>2. CASE \/ pc[r] = "claim" /\ pc'[r] = "insert"
           \/ pc[r] = "select" /\ pc'[r] \in {"rotate", "snapshot"}
           \/ pc[r] = "snapshot" /\ pc'[r] = "sweep"
  BY <1>2 DEF PartsLeft
<1>3. CASE SweepNext(r)
  <2>1. /\ pc[r] = "sweep" /\ pc'[r] = "wait" /\ RowsLeft(r)' = RowsLeft(r)
    BY <1>3 DEF SweepNext, Goto, RowsLeft, TypeOK
  <2>2. QED BY <2>1, RowsLeftCount DEF SweepLeft, PartsLeft
<1>4. CASE SweepTake(r)
  <2>1. /\ pc[r] = "wait" /\ pc'[r] = "sweep" /\ want[r] \in RowsLeft(r)
        /\ sweep' = sweep /\ rowLock' = [rowLock EXCEPT ![want[r]] = r]
    BY <1>4 DEF SweepTake, Lock, Goto, locals, RowsLeft, RowsHeld, TypeOK
  <2>2. RowsLeft(r)' = RowsLeft(r) \ {want[r]}
    BY <2>1 DEF RowsLeft, TypeOK, Secret
  <2>3. Cardinality(RowsLeft(r))' = Cardinality(RowsLeft(r)) - 1
    BY <2>1, <2>2, RowsLeftCount
  <2>4. QED BY <2>1, <2>3, RowsLeftCount DEF SweepLeft, PartsLeft
<1>5. QED
  <2>1. End(r) => pc'[r] = "idle"
    BY DEF End, TypeOK
  <2>2. ClaimCode(r) => \/ pc'[r] = "idle"
                        \/ pc[r] = "claim" /\ pc'[r] = "insert"
    BY <2>1 DEF ClaimCode, Goto, Rollback, TypeOK
  <2>3. SelectToken(r) => \/ pc'[r] = "idle"
                          \/ pc[r] = "select" /\ pc'[r] \in {"rotate", "snapshot"}
    BY <2>1 DEF SelectToken, Tell, Goto, Rollback, TypeOK
  <2>4. FamilySnapshot(r) => pc[r] = "snapshot" /\ pc'[r] = "sweep"
    BY DEF FamilySnapshot, Goto, TypeOK
  <2>5. ExchangeCommit(r) \/ RotateCommit(r) \/ RevokeCommit(r) \/ BreakDeadlock(r) \/ Abort(r)
            => pc'[r] = "idle"
    BY <2>1 DEF ExchangeCommit, RotateCommit, RevokeCommit, BreakDeadlock, Abort, Rollback
  <2>6. QED BY <1>1, <1>2, <1>3, <1>4, <2>2, <2>3, <2>4, <2>5 DEF Acquire, Advance

\* However many tokens the family has and other requests add to it, a request
\* has a bounded number of statements before it (revoke_refresh_token_family
\* included, whose rows are those of its snapshot).
THEOREM StatementsBounded == Spec => StatementsRunOut
<1>1. ASSUME FiniteInv, FiniteInv', [Next]_vars
      PROVE  Nearer
  <2> SUFFICES ASSUME NEW r \in Request, pc[r] # "idle"
               PROVE  /\ PartsLeft(r)' <= PartsLeft(r)
                      /\ PartsLeft(r)' = PartsLeft(r) => SweepLeft(r)' <= SweepLeft(r)
                      /\ Acquire(r) \/ Advance(r) => \/ PartsLeft(r)' < PartsLeft(r)
                                                     \/ SweepLeft(r)' < SweepLeft(r)
    BY DEF Nearer
  <2>1. PartsLeft(r) \in Nat /\ PartsLeft(r)' \in Nat
    BY <1>1 DEF PartsLeft, FiniteInv, LocksInv, IInv, TypeOK, Stages
  <2>2. SweepLeft(r) \in Nat
    BY <1>1, RowsLeftCount
  <2>3. SweepLeft(r)' \in Nat
    <3>1. IsFiniteSet(RowsLeft(r)')
      BY <1>1, FS_Subset DEF FiniteInv, RowsLeft
    <3>2. QED BY <3>1, FS_CardinalityType DEF SweepLeft
  <2>4. CASE Acquire(r) \/ Advance(r) \/ BreakDeadlock(r) \/ Abort(r)
    BY <1>1, <2>1, <2>2, <2>3, <2>4, OwnNearer
  <2>5. CASE ~(Acquire(r) \/ Advance(r) \/ BreakDeadlock(r) \/ Abort(r))
    <3>1. ~Start(r)
      BY DEF Start, StartExchange, StartRefresh, Begin
    <3>2. CASE IssueCode \/ UNCHANGED vars
      <4>1. UNCHANGED <<pc, sweep, rowLock>>
        BY <3>2 DEF IssueCode, vars, locals
      <4>2. PartsLeft(r)' = PartsLeft(r) /\ SweepLeft(r)' = SweepLeft(r)
        BY <4>1 DEF PartsLeft, SweepLeft, RowsLeft
      <4>3. QED BY <2>1, <2>2, <2>5, <4>2
    <3>3. ASSUME NEW q \in Request \ {r},
                 Start(q) \/ Acquire(q) \/ Advance(q) \/ BreakDeadlock(q) \/ Abort(q)
          PROVE  PartsLeft(r)' = PartsLeft(r) /\ SweepLeft(r)' = SweepLeft(r)
      BY <1>1, <3>3, OthersRest DEF FiniteInv, LocksInv, IInv
    <3>4. QED BY <1>1, <2>1, <2>2, <2>5, <3>1, <3>2, <3>3 DEF Next
  <2>6. QED BY <2>4, <2>5
<1>2. Init => FiniteInv
  <2>1. Init => Row = {}
    BY DEF Init, Row
  <2>2. QED BY <2>1, InitIInv, FS_EmptySet DEF Init, FiniteInv, LocksInv, RowsHeld
<1>3. FiniteInv /\ [Next]_vars => FiniteInv'
  BY StepFinite
<1>4. FiniteInv /\ FiniteInv' /\ [Next]_vars => [Nearer]_vars
  BY <1>1
<1>5. QED BY <1>2, <1>3, <1>4, PTL DEF Spec, StatementsRunOut
=============================================================================
