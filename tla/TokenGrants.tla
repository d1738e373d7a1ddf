---------------------------- MODULE TokenGrants ----------------------------
(***************************************************************************)
(* The authorization_code and refresh_token grants of the token endpoint,  *)
(* down to the row locks and statement snapshots of PostgreSQL (READ       *)
(* COMMITTED).                                                             *)
(*                                                                         *)
(* A code or a refresh token that has expired, or whose user, organization *)
(* or application is disabled, is refused before anything changes: such a  *)
(* request does not start here.  Nor does the module say who sends a       *)
(* request: any secret that was ever handed out may come back at any time, *)
(* twice, and after it was spent.                                          *)
(***************************************************************************)
EXTENDS Naturals, FiniteSets

CONSTANTS
    Request,            \* requests in flight
    Code, Token,        \* authorization codes and refresh tokens, by hash
    Nobody, NoSecret

VARIABLES
    issued,             \* rows of oauth_authorization_codes
    family,             \* oauth_refresh_tokens.family_id, NoSecret where no row
    source,             \* the secret a refresh token was obtained with (history)
    consumed,           \* secrets whose consumed_at is set
    revoked,            \* refresh tokens whose revoked_at is set
    rowLock,            \* the transaction that holds each row
    pc,                 \* the statement a request runs next
    secret,             \* the code or refresh token presented
    fresh,              \* the refresh token generated for the answer
    want,               \* the row the next statement locks
    sweep,              \* the rows its UPDATE of the family has found
    found,              \* the family when its token was found used (history)
    reported            \* what was found by the replays answered (history)

tables == <<issued, family, source, consumed, revoked, reported>>
locals == <<secret, fresh, want, sweep, found>>
vars   == <<tables, rowLock, pc, locals>>

-----------------------------------------------------------------------------
Secret == Code \cup Token

ASSUME SecretAssumption == Code \cap Token = {} /\ NoSecret \notin Secret
ASSUME RequestAssumption == Nobody \notin Request

Row == {t \in Token : family[t] # NoSecret}

\* A refresh token is 32 random bytes: nobody has it yet.
Fresh == {t \in Token \ Row : \A r \in Request : fresh[r] # t}

FamilyOf(t) == {u \in Row : family[u] = family[t]}

\* What can still be redeemed.
Live == (issued \ consumed) \cup (Row \ (consumed \cup revoked))

Stages == {"idle", "claim", "insert", "select", "rotate", "snapshot", "sweep", "wait"}

Init == /\ issued = {}
        /\ family = [t \in Token |-> NoSecret]
        /\ source = [t \in Token |-> NoSecret]
        /\ consumed = {}
        /\ revoked = {}
        /\ rowLock = [s \in Secret |-> Nobody]
        /\ pc = [r \in Request |-> "idle"]
        /\ secret = [r \in Request |-> NoSecret]
        /\ fresh = [r \in Request |-> NoSecret]
        /\ want = [r \in Request |-> NoSecret]
        /\ sweep = [r \in Request |-> {}]
        /\ found = [r \in Request |-> {}]
        /\ reported = {}

-----------------------------------------------------------------------------
Begin(r, stage, s) == /\ pc[r] = "idle"
                      /\ pc' = [pc EXCEPT ![r] = stage]
                      /\ secret' = [secret EXCEPT ![r] = s]
                      /\ want' = [want EXCEPT ![r] = s]
                      /\ \E t \in Fresh : fresh' = [fresh EXCEPT ![r] = t]
                      /\ UNCHANGED <<tables, rowLock, sweep, found>>

Goto(r, stage) == pc' = [pc EXCEPT ![r] = stage]

\* Mutant of End: a path that returns with the transaction open.
EndHoldingRows(r) == /\ pc' = [pc EXCEPT ![r] = "idle"]
                     /\ secret' = [secret EXCEPT ![r] = NoSecret]
                     /\ fresh' = [fresh EXCEPT ![r] = NoSecret]
                     /\ want' = [want EXCEPT ![r] = NoSecret]
                     /\ sweep' = [sweep EXCEPT ![r] = {}]
                     /\ found' = [found EXCEPT ![r] = {}]
                     /\ UNCHANGED rowLock

\* The transaction ends and its row locks go with it.
End(r) == /\ pc' = [pc EXCEPT ![r] = "idle"]
          /\ secret' = [secret EXCEPT ![r] = NoSecret]
          /\ fresh' = [fresh EXCEPT ![r] = NoSecret]
          /\ want' = [want EXCEPT ![r] = NoSecret]
          /\ sweep' = [sweep EXCEPT ![r] = {}]
          /\ found' = [found EXCEPT ![r] = {}]
          /\ rowLock' = [s \in Secret |-> IF rowLock[s] = r THEN Nobody ELSE rowLock[s]]

Rollback(r) == End(r) /\ UNCHANGED tables

\* The client goes away, a statement fails or the server dies.
Abort(r) == pc[r] # "idle" /\ Rollback(r)

\* The row the statement has found is free; the lock makes it look again.
Lock(r) == /\ rowLock[want[r]] = Nobody
           /\ rowLock' = [rowLock EXCEPT ![want[r]] = r]

\* Mutant of Insert: the secret presented is not marked.
InsertOnly(r, fam) == /\ family' = [family EXCEPT ![fresh[r]] = fam]
                      /\ source' = [source EXCEPT ![fresh[r]] = secret[r]]
                      /\ UNCHANGED <<issued, consumed, revoked, reported>>

\* The new refresh token is stored and the secret it was obtained with spent.
Insert(r, fam) == /\ family' = [family EXCEPT ![fresh[r]] = fam]
                  /\ source' = [source EXCEPT ![fresh[r]] = secret[r]]
                  /\ consumed' = consumed \cup {secret[r]}
                  /\ UNCHANGED <<issued, revoked, reported>>

-----------------------------------------------------------------------------
(* Authorization codes.                                                    *)

IssueCode == \E c \in Code \ issued :
    /\ issued' = issued \cup {c}
    /\ UNCHANGED <<family, source, consumed, revoked, reported, rowLock, pc, locals>>

StartExchange(r) == \E c \in issued : Begin(r, "claim", c)

\* Mutant of ClaimCode: consumed_at IS NULL is missing.
ClaimAgain(r) ==
    /\ pc[r] = "claim"
    /\ \/ Lock(r) /\ Goto(r, "insert") /\ UNCHANGED <<tables, locals>>
       \/ rowLock[want[r]] = Nobody /\ Rollback(r)

\* Mutant of ClaimCode: on a mismatch the UPDATE is committed all the same.
ClaimOrBurn(r) ==
    /\ pc[r] = "claim"
    /\ rowLock[want[r]] = Nobody
    /\ \/ /\ secret[r] \notin consumed
          /\ Lock(r)
          /\ Goto(r, "insert")
          /\ UNCHANGED <<tables, locals>>
       \/ /\ consumed' = consumed \cup {secret[r]}
          /\ End(r)
          /\ UNCHANGED <<issued, family, source, revoked, reported>>

\* UPDATE ... SET consumed_at ... WHERE consumed_at IS NULL, then the redirect
\* URI and the PKCE challenge: on a mismatch the transaction is dropped, and the
\* code stays unused.
ClaimCode(r) ==
    /\ pc[r] = "claim"
    /\ rowLock[want[r]] = Nobody
    /\ \E matches \in BOOLEAN :
        \/ /\ secret[r] \notin consumed /\ matches
           /\ Lock(r)
           /\ Goto(r, "insert")
           /\ UNCHANGED <<tables, locals>>
        \/ /\ secret[r] \in consumed \/ ~matches
           /\ Rollback(r)

ExchangeCommit(r) ==
    /\ pc[r] = "insert"
    /\ Insert(r, fresh[r])
    /\ End(r)

-----------------------------------------------------------------------------
(* Refresh tokens.                                                         *)

StartRefresh(r) == \E t \in Row : Begin(r, "select", t)

\* A token that was used before is a replay, a current one is rotated.
Tell(r) == /\ \/ /\ secret[r] \in consumed
                 /\ Goto(r, "snapshot")
                 /\ found' = [found EXCEPT ![r] = FamilyOf(secret[r])]
              \/ /\ secret[r] \notin consumed
                 /\ Goto(r, "rotate")
                 /\ UNCHANGED found
           /\ UNCHANGED <<tables, secret, fresh, want, sweep>>

\* Mutant of SelectToken: FOR UPDATE is missing.
SelectUnlocked(r) ==
    /\ pc[r] = "select"
    /\ secret[r] \notin revoked
    /\ Tell(r)
    /\ UNCHANGED rowLock

\* Mutant of SelectToken: revoked_at IS NULL is missing.
SelectRevoked(r) ==
    /\ pc[r] = "select"
    /\ Lock(r)
    /\ Tell(r)

\* SELECT ... WHERE revoked_at IS NULL ... FOR UPDATE
SelectToken(r) ==
    /\ pc[r] = "select"
    /\ \/ /\ secret[r] \notin revoked
          /\ Lock(r)
          /\ Tell(r)
       \/ /\ secret[r] \in revoked
          /\ rowLock[want[r]] = Nobody
          /\ Rollback(r)

RotateCommit(r) ==
    /\ pc[r] = "rotate"
    /\ Insert(r, family[secret[r]])
    /\ End(r)

\* Mutant of FamilySnapshot: rows another request has locked are skipped.
SnapshotUnlocked(r) ==
    /\ pc[r] = "snapshot"
    /\ sweep' = [sweep EXCEPT ![r] =
                   {t \in FamilyOf(secret[r]) : rowLock[t] \in {r, Nobody}}]
    /\ Goto(r, "sweep")
    /\ UNCHANGED <<tables, rowLock, secret, fresh, want, found>>

\* The token was used before: UPDATE ... SET revoked_at WHERE family_id.  The
\* statement finds the rows that are committed when it begins.
FamilySnapshot(r) ==
    /\ pc[r] = "snapshot"
    /\ sweep' = [sweep EXCEPT ![r] = FamilyOf(secret[r])]
    /\ Goto(r, "sweep")
    /\ UNCHANGED <<tables, rowLock, secret, fresh, want, found>>

SweepNext(r) ==
    /\ pc[r] = "sweep"
    /\ \E t \in sweep[r] : /\ rowLock[t] # r
                           /\ want' = [want EXCEPT ![r] = t]
    /\ Goto(r, "wait")
    /\ UNCHANGED <<tables, rowLock, secret, fresh, sweep, found>>

SweepTake(r) ==
    /\ pc[r] = "wait"
    /\ Lock(r)
    /\ Goto(r, "sweep")
    /\ UNCHANGED <<tables, locals>>

RevokeCommit(r) ==
    /\ pc[r] = "sweep"
    /\ \A t \in sweep[r] : rowLock[t] = r
    /\ revoked' = revoked \cup sweep[r]
    /\ reported' = reported \cup found[r]
    /\ End(r)
    /\ UNCHANGED <<issued, family, source, consumed>>

-----------------------------------------------------------------------------
(* PostgreSQL finds requests that wait for each other in a circle, and     *)
(* aborts one of them.                                                     *)

Waits(r, q) == /\ pc[r] \in {"claim", "select", "wait"}
               /\ rowLock[want[r]] = q

Deadlocked(S) == \A r \in S : (\E q \in S : Waits(r, q)) /\ (\E q \in S : Waits(q, r))

BreakDeadlock(r) == /\ \E S \in SUBSET Request : r \in S /\ Deadlocked(S)
                    /\ Rollback(r)

-----------------------------------------------------------------------------
Start(r)   == StartExchange(r) \/ StartRefresh(r)

\* Statements that may have to wait for a row.
Acquire(r) == ClaimCode(r) \/ SelectToken(r) \/ SweepTake(r)

Advance(r) == \/ ExchangeCommit(r) \/ RotateCommit(r)
              \/ FamilySnapshot(r) \/ SweepNext(r) \/ RevokeCommit(r)

Next == \/ IssueCode
        \/ \E r \in Request : \/ Start(r) \/ Acquire(r) \/ Advance(r)
                              \/ BreakDeadlock(r) \/ Abort(r)

Spec == Init /\ [][Next]_vars

\* The server runs what it has accepted; PostgreSQL grants a row to those who
\* wait for it in turn and breaks deadlocks (deadlock_timeout).
Fairness == \A r \in Request : /\ WF_vars(Advance(r))
                               /\ SF_vars(Acquire(r))
                               /\ WF_vars(BreakDeadlock(r))

FairSpec == Spec /\ Fairness

-----------------------------------------------------------------------------
(* Properties.                                                             *)

TypeOK ==
    /\ issued \subseteq Code
    /\ family \in [Token -> Token \cup {NoSecret}]
    /\ source \in [Token -> Secret \cup {NoSecret}]
    /\ consumed \subseteq Secret
    /\ revoked \subseteq Token
    /\ rowLock \in [Secret -> Request \cup {Nobody}]
    /\ pc \in [Request -> Stages]
    /\ secret \in [Request -> Secret \cup {NoSecret}]
    /\ fresh \in [Request -> Token \cup {NoSecret}]
    /\ want \in [Request -> Secret \cup {NoSecret}]
    /\ sweep \in [Request -> SUBSET Token]
    /\ found \in [Request -> SUBSET Token]
    /\ reported \subseteq Token

\* However often a code or a refresh token is presented, and whoever races,
\* at most one refresh token was ever obtained with it.
RedeemedOnce == \A t, u \in Row : source[t] = source[u] => t = u

\* A family has at most one token that still works.
AtMostOneLive == \A t, u \in Row \ (consumed \cup revoked) :
    family[t] = family[u] => t = u

\* A code or a token is not spent for nothing: whatever was refused on the way, an
\* exchange that does not match among it, what is spent has bought a token.
SpentForToken == \A s \in consumed : \E t \in Row : source[t] = s

\* Once a replay is answered, every token its family had when the replay was
\* found, whoever was at work on one of them, is revoked for good: a survivor was
\* stored while the replay was being dealt with, never before.
FamilyRevoked == reported \subseteq revoked

\* What is revoked is a prefix of a chain of rotations.
RevokedFromTheRoot == \A t \in revoked : source[t] \in Token => source[t] \in revoked

\* The rows of the two tables fit together.
RowsSound ==
    /\ consumed \subseteq issued \cup Row
    /\ revoked \subseteq Row
    /\ \A t \in Row : /\ family[t] \in Row
                      /\ source[t] \in consumed
                      /\ source[t] \in Token => family[source[t]] = family[t]

\* What a request relies on between two statements: past its first statement
\* it holds the row of the secret presented, so that what it read there stays.
Held(r) ==
    /\ pc[r] # "idle" => /\ fresh[r] \in Token \ Row
                         /\ \A q \in Request \ {r} : fresh[q] # fresh[r]
    /\ pc[r] \in {"claim", "select"} => want[r] = secret[r]
    /\ pc[r] \in {"claim", "insert"} => secret[r] \in issued
    /\ pc[r] \in {"select", "rotate", "snapshot", "sweep", "wait"} => secret[r] \in Row
    /\ pc[r] \in {"insert", "rotate", "snapshot", "sweep", "wait"} => rowLock[secret[r]] = r
    /\ pc[r] = "insert" => secret[r] \notin consumed
    /\ pc[r] = "rotate" => secret[r] \notin consumed \cup revoked
    /\ pc[r] = "snapshot" => found[r] \subseteq FamilyOf(secret[r])
    /\ pc[r] \in {"sweep", "wait"} =>
        /\ found[r] \subseteq sweep[r] /\ sweep[r] \subseteq Row
        /\ \A t \in sweep[r] : source[t] \in Token => source[t] \in sweep[r]

HeldSound == \A r \in Request : Held(r)

\* The inductive invariant.
IInv == /\ TypeOK
        /\ RowsSound /\ HeldSound
        /\ RedeemedOnce
        /\ SpentForToken
        /\ AtMostOneLive
        /\ RevokedFromTheRoot /\ FamilyRevoked

\* A rotation that wins its row against a replay is not undone, and one that
\* loses does not happen: a new token never stems from a revoked one.
NoChildOfRevoked == \A t \in Token :
    t \notin Row /\ t \in Row' => source'[t] \notin revoked

RevokedStayDead == [][NoChildOfRevoked]_vars

\* Every request is answered, although replays of two tokens of a family may
\* wait for each other.
RequestsFinish == \A r \in Request : pc[r] # "idle" ~> pc[r] = "idle"

\* The two tables are a box of one-time secrets.
Box == INSTANCE OneTimeSecrets WITH Root <- Code, live <- Live, spent <- consumed \cup revoked

BoxSpec == Box!Spec

-----------------------------------------------------------------------------
(* Who waits for whom.                                                     *)

\* The rows a request holds are the row of the secret presented and, while it
\* revokes a family, rows of that family; a request that waits for its first
\* row holds none.
RowsHeld(r) ==
    /\ \A s \in Secret : rowLock[s] = r =>
          \/ s = secret[r] /\ pc[r] \in {"insert", "rotate", "snapshot", "sweep", "wait"}
          \/ s \in sweep[r] /\ pc[r] \in {"sweep", "wait"}
    /\ pc[r] \in {"snapshot", "sweep", "wait"} => secret[r] \in consumed
    /\ pc[r] \in {"sweep", "wait"} => \A t \in sweep[r] : family[t] = family[secret[r]]
    /\ pc[r] = "wait" => want[r] \in sweep[r] /\ rowLock[want[r]] # r

LocksInv == IInv /\ \A r \in Request : RowsHeld(r)

\* In a deadlock every request answers the replay of a used refresh token, and
\* those that wait for each other were sent different tokens of one family: a
\* client that presents its current token, or a code, is never the victim
\* (rotate_refresh_token locks the token before its family; nothing locks twice
\* elsewhere).
OnlyReplaysDeadlock == \A S \in SUBSET Request : Deadlocked(S) =>
    \A r \in S :
        /\ pc[r] = "wait" /\ secret[r] \in consumed
        /\ \A q \in S : Waits(r, q) => /\ secret[q] # secret[r]
                                       /\ family[secret[q]] = family[secret[r]]
-----------------------------------------------------------------------------
(* What RequestsFinish rests on, fairness aside.                           *)

\* The part of its handler a request has before it, and the rows of the family
\* it has not locked yet.
PartsLeft(r) == CASE pc[r] = "idle" -> 0
                  [] pc[r] \in {"insert", "rotate"} -> 1
                  [] pc[r] \in {"claim", "sweep", "wait"} -> 2
                  [] pc[r] = "snapshot" -> 3
                  [] pc[r] = "select" -> 4

RowsLeft(r) == {t \in sweep[r] : rowLock[t] # r}

\* Finding a row and locking it are two steps.
SweepLeft(r) == 2 * Cardinality(RowsLeft(r)) + (IF pc[r] = "sweep" THEN 1 ELSE 0)

\* Rows are inserted one at a time, and a sweep knows those of its snapshot.
FiniteInv == /\ LocksInv
             /\ IsFiniteSet(Row)
             /\ \A r \in Request : IsFiniteSet(sweep[r])

\* A statement brings its request nearer to the answer, were it by one row of
\* the family; no other request, and no token inserted meanwhile, sets it back.
Nearer == \A r \in Request :
    pc[r] # "idle" =>
        /\ PartsLeft(r)' <= PartsLeft(r)
        /\ PartsLeft(r)' = PartsLeft(r) => SweepLeft(r)' <= SweepLeft(r)
        /\ Acquire(r) \/ Advance(r) => \/ PartsLeft(r)' < PartsLeft(r)
                                       \/ SweepLeft(r)' < SweepLeft(r)

StatementsRunOut == [][Nearer]_vars
=============================================================================
