----------------------------- MODULE SyncClient -----------------------------
(***************************************************************************)
(* Resource synchronization from end to end: calls of sync_resources on    *)
(* the clones of one SDK client (src/sdk/src/lib.rs), which share a cached *)
(* service token under a mutex, send their batch up to four times, and may *)
(* be dropped at any await; the server's client-credentials grant, the     *)
(* check of the caller and the application of a batch, operation by        *)
(* operation; and the management calls that close the access.  A request   *)
(* whose client has given up goes on running at the server.                *)
(***************************************************************************)
EXTENDS Integers, Sequences, FiniteSets

CONSTANTS Call,        \* calls of sync_resources
          Resource,    \* resources of the application
          Batch,       \* the operations of a call: the resources, in order
          Secret,      \* secrets of the service account
          Mine,        \* the one that the client was built with
          Closable,    \* what can be disabled: the application, its organization
          MaxChanges,  \* bound on revocations, and changes of what is disabled
          MaxStray,    \* bound on the requests that run although nobody awaits them
          Nobody,
          NoWrite      \* a resource that no request has written

ASSUME BatchAssumption == Batch \in [Call -> Seq(Resource)]
ASSUME MineAssumption == Mine \in Secret
ASSUME BoundAssumption == MaxChanges \in Nat /\ MaxStray \in Nat
ASSUME NobodyAssumption == Nobody \notin Call

\* Each of the two rounds of a call sends its batch at most twice.
Attempt == Call \X {1, 2} \X {0, 1}

\* An operation is known by its call and its index, as results are.
Operation == Call \X Nat

ASSUME NoWriteAssumption == NoWrite \notin Operation

VARIABLES
    \* The client.  A token is known by the calls that had got their 401 when it
    \* was issued.
    pc,        \* where the call is
    round,     \* 2 after the first 401
    attempt,   \* attempt of the loop in send_sync, or in request_token
    token,     \* the call's token
    holder,    \* who holds the mutex of the token
    cached,    \* the token under it, if any
    \* The server.
    secrets,   \* the table service_account_secrets
    off,       \* which of them are disabled
    stage,     \* where the request of an attempt is
    next,      \* the operation it is at
    applied,   \* the operations it reports as successful, if its call is alone
    store,     \* the operation that made a resource what it is
    \* Bound and history.
    changes,
    late,      \* tokens issued to the client after its secret was revoked
    alone,     \* the call, if there is one, since whose beginning no other has begun,
               \* and all of them were over then
    mixed,     \* it, if a request of its was admitted beside another or given up before
    report,    \* the operations that it was told succeeded; what other calls are told
               \* is not kept, as nothing depends on it
    carried    \* requests past their check when the access was closed

calls == <<pc, round, attempt, token, report>>
cache == <<holder, cached>>
lone == <<alone, mixed>>
access == <<secrets, off, changes>>
requests == <<stage, next, applied>>
vars == <<calls, cache, access, late, lone, requests, store, carried>>

-----------------------------------------------------------------------------
Fetching == {"fetch", "granted", "offered"}  \* in request_token, holding the mutex
Ended == {"ok", "failed"}
Running == {"travelling", "applying"}

Current(c) == <<c, round[c], attempt[c]>>
Awaited(q) == pc[q[1]] = "wait" /\ Current(q[1]) = q
Strays == {q \in Attempt : stage[q] \in Running /\ ~Awaited(q)}

\* A call that has not begun, or is over with all its requests.
AtRest(c) ==
    /\ pc[c] \in Ended \cup {"idle"}
    /\ \A q \in Attempt : q[1] = c => stage[q] = "none"

\* The calls past their first 401.
Refused == {c \in Call : pc[c] = "drop" \/ round[c] = 2}

\* service_credentials and authzen_caller look at the same rows.
Open == off = {}

Init ==
    /\ pc = [c \in Call |-> "idle"]
    /\ round = [c \in Call |-> 1]
    /\ attempt = [c \in Call |-> 0]
    /\ token = [c \in Call |-> {}]
    /\ report = {}
    /\ holder = Nobody
    /\ cached = {}
    /\ secrets = [k \in Secret |-> "absent"]
    /\ off = {}
    /\ late = 0
    /\ alone = {}
    /\ mixed = {}
    /\ stage = [q \in Attempt |-> "none"]
    /\ next = [q \in Attempt |-> 0]
    /\ applied = [q \in Attempt |-> {}]
    /\ store = [r \in Resource |-> NoWrite]
    /\ changes = 0
    /\ carried = {}

-----------------------------------------------------------------------------
(* The client.                                                             *)

\* The local variables of a call that is over go away.
Return(c, outcome, told) ==
    /\ pc' = [pc EXCEPT ![c] = outcome]
    /\ round' = [round EXCEPT ![c] = 1]
    /\ attempt' = [attempt EXCEPT ![c] = 0]
    /\ token' = [token EXCEPT ![c] = {}]
    /\ report' = IF c \in alone THEN told ELSE report

\* The histories of the last call that was alone end.
Begin(c) ==
    /\ pc[c] = "idle"
    /\ secrets[Mine] # "absent"
    /\ pc' = [pc EXCEPT ![c] = "lock"]
    /\ alone' = IF \A d \in Call \ {c} : AtRest(d) THEN {c} ELSE {}
    /\ mixed' = {}
    /\ report' = {} /\ applied' = [q \in Attempt |-> {}]
    /\ UNCHANGED <<round, attempt, token, cache, access, late,
                   stage, next, store, carried>>

\* send_sync: the batch leaves with token t.
Post(c, t, a) ==
    /\ pc' = [pc EXCEPT ![c] = "wait"]
    /\ attempt' = [attempt EXCEPT ![c] = a]
    /\ token' = [token EXCEPT ![c] = t]
    /\ UNCHANGED <<round, report>>

\* access_token: the cached token is not due for renewal by the client's clock.
UseCached(c) ==
    /\ pc[c] = "lock" /\ holder = Nobody
    /\ \E t \in cached : Post(c, t, 0)
    /\ stage' = [stage EXCEPT ![<<c, round[c], 0>>] = "travelling"]
    /\ UNCHANGED <<cache, access, late, lone, next, applied, store, carried>>

\* Mutant of StartFetch: the lock is released before the token is requested.
FetchUnlocked(c) ==
    /\ pc[c] = "lock" /\ holder = Nobody
    /\ pc' = [pc EXCEPT ![c] = "fetch"]
    /\ attempt' = [attempt EXCEPT ![c] = 0]
    /\ UNCHANGED <<round, token, report, cache, access, late, lone,
                   requests, store, carried>>

\* No token is cached, or it is due: the mutex is held across the request.
StartFetch(c) ==
    /\ pc[c] = "lock" /\ holder = Nobody
    /\ holder' = c
    /\ pc' = [pc EXCEPT ![c] = "fetch"]
    /\ attempt' = [attempt EXCEPT ![c] = 0]
    /\ UNCHANGED <<round, token, report, cached, access, late, lone,
                   requests, store, carried>>

\* Mutant of Credentials: the rows of revoked secrets are returned too.
AllCredentials == IF Open THEN {k \in Secret : secrets[k] # "absent"} ELSE {}

\* The server: the secret presented is one of those that service_credentials
\* returns.
Credentials == IF Open THEN {k \in Secret : secrets[k] = "live"} ELSE {}

ReadCredentials(c) ==
    /\ pc[c] = "fetch"
    /\ Mine \in Credentials
    /\ pc' = [pc EXCEPT ![c] = "granted"]
    /\ UNCHANGED <<round, attempt, token, report, cache, access,
                   late, lone, requests, store, carried>>

RefuseToken(c) ==
    /\ pc[c] = "fetch"
    /\ Mine \notin Credentials
    /\ Return(c, "failed", {})
    /\ holder' = Nobody
    /\ UNCHANGED <<cached, access, late, lone, requests, store, carried>>

IssueToken(c) ==
    /\ pc[c] = "granted"
    /\ late' = IF secrets[Mine] = "revoked" THEN late + 1 ELSE late
    /\ token' = [token EXCEPT ![c] = Refused]
    /\ pc' = [pc EXCEPT ![c] = "offered"]
    /\ UNCHANGED <<round, attempt, report, cache, access, lone,
                   requests, store, carried>>

CacheToken(c) ==
    /\ pc[c] = "offered"
    /\ cached' = {token[c]}
    /\ holder' = Nobody
    /\ Post(c, token[c], 0)
    /\ stage' = [stage EXCEPT ![<<c, round[c], 0>>] = "travelling"]
    /\ UNCHANGED <<access, late, lone, next, applied, store, carried>>

\* The token request fails on its way there or back: one more attempt, unless
\* it was the second or failed otherwise than by a timeout or a 5xx.  A token
\* that does not get here is as if it had not been issued.
FetchTrouble(c) ==
    /\ pc[c] \in {"fetch", "granted"}
    /\ \/ /\ attempt[c] = 0
          /\ attempt' = [attempt EXCEPT ![c] = 1]
          /\ pc' = [pc EXCEPT ![c] = "fetch"]
          /\ UNCHANGED <<round, token, report, holder>>
       \/ Return(c, "failed", {}) /\ holder' = Nobody
    /\ UNCHANGED <<cached, access, late, lone, requests, store, carried>>

\* These requests are over.
Dismiss(Q) ==
    /\ next' = [p \in Attempt |-> IF p \in Q THEN 0 ELSE next[p]]
    /\ applied' = [p \in Attempt |-> IF p \in Q THEN {} ELSE applied[p]]
    /\ carried' = carried \ Q

\* What becomes of a request that its client stops waiting for.
Abandoned(q) ==
    IF stage[q] \in Running /\ Cardinality(Strays) < MaxStray THEN stage[q] ELSE "none"

\* The batch is sent again with the same token, and its first request, if it is
\* still under way, goes on.
Resend(c, rest) ==
    LET q == Current(c)
    IN  /\ attempt[c] = 0
        /\ Post(c, token[c], 1)
        /\ stage' = [stage EXCEPT ![q] = rest, ![<<c, round[c], 1>>] = "travelling"]

\* The answer to the batch reaches the call; that a timeout comes first is that
\* nobody awaits it.
Respond(c, answer, told) ==
    LET q == Current(c)
    IN  CASE answer = "unavailable" /\ attempt[c] = 0 -> Resend(c, "none")
          [] answer = "unauthorized" /\ round[c] = 1 ->
               /\ pc' = [pc EXCEPT ![c] = "drop"]
               /\ stage' = [stage EXCEPT ![q] = "none"]
               /\ UNCHANGED <<round, attempt, token, report>>
          [] OTHER ->
               /\ IF answer = "success" THEN Return(c, "ok", told) ELSE Return(c, "failed", {})
               /\ stage' = [stage EXCEPT ![q] = "none"]

\* No answer comes: a timeout or a failed connection on the first attempt is
\* tried again, anything else ends the call.
Break(c) ==
    LET q == Current(c)
    IN  /\ pc[c] = "wait"
        /\ \/ Resend(c, Abandoned(q))
           \/ /\ Return(c, "failed", {})
              /\ stage' = [stage EXCEPT ![q] = Abandoned(q)]
        /\ Dismiss(IF Abandoned(q) = "none" THEN {q} ELSE {})
        /\ UNCHANGED <<cache, access, late, lone, store>>

\* Mutant of DropToken: the guard lives until access_token returns.
DropHoldingLock(c) ==
    /\ pc[c] = "drop" /\ holder = Nobody
    /\ cached' = {}
    /\ holder' = c
    /\ pc' = [pc EXCEPT ![c] = "lock"]
    /\ round' = [round EXCEPT ![c] = 2]
    /\ UNCHANGED <<attempt, token, report, access, late, lone,
                   requests, store, carried>>

\* After the first 401 the cached token goes, whichever it is by now; the lock
\* is released before access_token takes it again.
DropToken(c) ==
    /\ pc[c] = "drop" /\ holder = Nobody
    /\ cached' = {}
    /\ pc' = [pc EXCEPT ![c] = "lock"]
    /\ round' = [round EXCEPT ![c] = 2]
    /\ UNCHANGED <<attempt, token, report, holder, access, late, lone,
                   requests, store, carried>>

\* Mutant of Drop: a lock that is not released when the future goes.
DropKeepingLock(c) ==
    LET q == Current(c)
        left == IF pc[c] = "wait" THEN Abandoned(q) ELSE stage[q]
    IN  /\ pc[c] \notin Ended \cup {"idle", "offered"}
        /\ Return(c, "failed", {})
        /\ stage' = [stage EXCEPT ![q] = left]
        /\ Dismiss(IF left = "none" THEN {q} ELSE {})
        /\ UNCHANGED <<cache, access, late, lone, store>>

\* The caller drops the future of the call at one of its awaits.
Drop(c) ==
    LET q == Current(c)
        left == IF pc[c] = "wait" THEN Abandoned(q) ELSE stage[q]
    IN  /\ pc[c] \notin Ended \cup {"idle", "offered"}
        /\ Return(c, "failed", {})
        /\ stage' = [stage EXCEPT ![q] = left]
        /\ holder' = IF holder = c THEN Nobody ELSE holder
        /\ Dismiss(IF left = "none" THEN {q} ELSE {})
        /\ UNCHANGED <<cached, access, late, lone, store>>

-----------------------------------------------------------------------------
(* The server.                                                             *)

\* The handler ends; its answer goes nowhere if nobody awaits it.
Reply(q, answer) ==
    /\ IF Awaited(q) THEN Respond(q[1], answer, applied[q])
       ELSE stage' = [stage EXCEPT ![q] = "none"] /\ UNCHANGED calls
    /\ Dismiss({q})
    /\ UNCHANGED <<cache, access, late, lone, store>>

\* The request is not the only one of its call at work, or the call does not
\* wait for it any more.
Mix(q) ==
    LET others == {p \in Attempt \ {q} : p[1] = q[1] /\ stage[p] = "applying"}
    IN  mixed' = IF others # {} \/ ~Awaited(q) THEN mixed \cup (alone \cap {q[1]}) ELSE mixed

\* Mutant of Admit: the claims of the token are taken at their word.
AdmitByClaims(q) ==
    /\ stage[q] = "travelling"
    /\ stage' = [stage EXCEPT ![q] = "applying"]
    /\ next' = [next EXCEPT ![q] = 1]
    /\ applied' = [applied EXCEPT ![q] = {}]
    /\ Mix(q)
    /\ UNCHANGED <<calls, cache, access, late, alone, store, carried>>

\* service_caller: the token is good and the application and its organization
\* are in use.
Admit(q) ==
    /\ stage[q] = "travelling"
    /\ Open
    /\ stage' = [stage EXCEPT ![q] = "applying"]
    /\ next' = [next EXCEPT ![q] = 1]
    /\ applied' = [applied EXCEPT ![q] = {}]
    /\ Mix(q)
    /\ UNCHANGED <<calls, cache, access, late, alone, store, carried>>

\* They are not, or the token has expired, which it may have at any time.
Unauthorized(q) ==
    /\ stage[q] = "travelling"
    /\ Reply(q, "unauthorized")

\* No release is active, or the database does not answer, before the first
\* operation.
Decline(q) ==
    /\ stage[q] \in Running /\ next[q] \in {0, 1}
    /\ \E answer \in {"rejected", "unavailable"} : Reply(q, answer)

\* Mutant of Write: ON CONFLICT DO NOTHING.
WriteOnce(r, op) ==
    store' = IF store[r] = NoWrite THEN [store EXCEPT ![r] = op] ELSE store

\* upsert_resource and delete_resource: nothing is written when the resource
\* is what the operation makes it.
Write(r, op) == store' = [store EXCEPT ![r] = op]

\* apply_operation: an operation that is invalid, or that the database does not
\* confirm, is reported as failed, whether it was done or not, and the others
\* go on.
Apply(q) ==
    LET c == q[1]
        i == next[q]
    IN  /\ stage[q] = "applying" /\ i \in DOMAIN Batch[c]
        /\ next' = [next EXCEPT ![q] = @ + 1]
        /\ \/ /\ Write(Batch[c][i], <<c, i>>)
              /\ applied' = IF c \in alone THEN [applied EXCEPT ![q] = @ \cup {i}] ELSE applied
           \/ /\ Write(Batch[c][i], <<c, i>>) \/ UNCHANGED store
              /\ UNCHANGED applied
        /\ UNCHANGED <<calls, cache, access, late, lone, stage, carried>>

\* The audit entry, and the answer: a failure to store the entry is a 500
\* although the operations are done.
Finish(q) ==
    /\ stage[q] = "applying" /\ next[q] > Len(Batch[q[1]])
    /\ \E answer \in {"success", "unavailable"} : Reply(q, answer)

\* A request that nobody awaits gets lost, or its handler is dropped with the
\* connection, at any of its awaits.
Vanish(q) ==
    /\ q \in Strays
    /\ stage' = [stage EXCEPT ![q] = "none"]
    /\ Dismiss({q})
    /\ UNCHANGED <<calls, cache, access, late, lone, store>>

-----------------------------------------------------------------------------
(* The management API.                                                     *)

\* create_service_account makes the first secret, create_service_secret more.
CreateSecret(k) ==
    /\ secrets[k] = "absent"
    /\ secrets' = [secrets EXCEPT ![k] = "live"]
    /\ UNCHANGED <<calls, cache, off, changes, late, lone, requests, store, carried>>

RevokeSecret(k) ==
    /\ secrets[k] # "absent" /\ changes < MaxChanges
    /\ secrets' = [secrets EXCEPT ![k] = "revoked"]
    /\ changes' = changes + 1
    /\ UNCHANGED <<calls, cache, off, late, lone, requests, store, carried>>

\* update_application and update_organization.
Switch(what) ==
    /\ changes < MaxChanges
    /\ changes' = changes + 1
    /\ off' = IF what \in off THEN off \ {what} ELSE off \cup {what}
    /\ carried' = IF off' = {} THEN {}
                  ELSE IF Open THEN {q \in Attempt : stage[q] = "applying"} ELSE carried
    /\ UNCHANGED <<calls, cache, secrets, late, lone, requests, store>>

ClientStep(c) ==
    UseCached(c) \/ StartFetch(c) \/ ReadCredentials(c) \/ RefuseToken(c)
      \/ IssueToken(c) \/ CacheToken(c) \/ DropToken(c)

ServerStep(q) == Admit(q) \/ Unauthorized(q) \/ Apply(q) \/ Finish(q)

Next ==
    \/ \E c \in Call : Begin(c) \/ ClientStep(c) \/ FetchTrouble(c) \/ Break(c) \/ Drop(c)
    \/ \E q \in Attempt : ServerStep(q) \/ Decline(q) \/ Vanish(q)
    \/ \E k \in Secret : CreateSecret(k) \/ RevokeSecret(k)
    \/ \E what \in Closable : Switch(what)

Spec == Init /\ [][Next]_vars

\* Tokio polls the calls and the handlers and its mutex is fair; a request that
\* has reached the server is answered.  A call may be dropped or lose its
\* connection, but nothing makes it.
FairSpec == /\ Spec
            /\ \A c \in Call : WF_vars(ClientStep(c))
            /\ WF_vars(\E q \in Attempt : ServerStep(q))

-----------------------------------------------------------------------------
(* Properties.                                                             *)

TypeOK ==
    /\ pc \in [Call -> {"idle", "lock", "wait", "drop"} \cup Fetching \cup Ended]
    /\ round \in [Call -> {1, 2}]
    /\ attempt \in [Call -> {0, 1}]
    /\ token \in [Call -> SUBSET Call]
    /\ report \in SUBSET Nat
    /\ holder \in Call \cup {Nobody} /\ cached \in SUBSET SUBSET Call
    /\ secrets \in [Secret -> {"absent", "live", "revoked"}]
    /\ off \in SUBSET Closable
    /\ changes \in 0..MaxChanges
    /\ late \in Nat
    /\ alone \in SUBSET Call /\ mixed \in SUBSET Call
    /\ stage \in [Attempt -> {"none"} \cup Running]
    /\ next \in [Attempt -> Nat]
    /\ applied \in [Attempt -> SUBSET Nat]
    /\ store \in [Resource -> Operation \cup {NoWrite}]
    /\ carried \in SUBSET Attempt

\* A batch that was refused with a 401 goes out again with a token that was
\* issued after the refusal, whoever of the calls fetched it and however many
\* dropped it: no token from before the refusal can come back into the cache.
RetriedWithLaterToken ==
    \A c \in Call : pc[c] = "wait" /\ round[c] = 2 => c \in token[c]

\* Once the secret of the client is revoked, it gets one more token at most: that
\* of the one request which may be between reading the credentials and its answer.
OneTokenAfterRevocation == late <= 1

\* While the application or its organization is disabled, the only batches that
\* write are those that were past their check when it was, whatever tokens there
\* are.
ClosedToNewBatches ==
    ~Open => \A q \in Attempt : stage[q] = "applying" => q \in carried

\* The resource of an operation of a call is what that operation, or a later one
\* of the batch on it, has made it; or an earlier one of the batch, if the call
\* is among the mixed.
Shows(c, i) ==
    /\ i \in DOMAIN Batch[c]
    /\ \E j \in DOMAIN Batch[c] :
           /\ Batch[c][j] = Batch[c][i] /\ store[Batch[c][i]] = <<c, j>>
           /\ j >= i \/ c \in mixed

\* A resource for which a call was told of a success is what the operations of
\* the batch make it, in their order, until another call begins.  None of the
\* requests that came before, and none of the repetitions of its own, undoes it,
\* unless the batch has several operations on the resource and one of its
\* requests was received beside its repetition, or after it was given up: then an
\* earlier operation may come out on top.  A batch that names the resource once
\* has no such operation.
LastCallShows ==
    \A c \in alone : pc[c] = "ok" => \A i \in report : Shows(c, i)

-----------------------------------------------------------------------------
(* The inductive invariant.                                                *)

\* The mutex is held by the call that is in request_token, across its awaits.
MutexHeld == \A c \in Call : pc[c] \in Fetching <=> holder = c

\* No token from before the 401 of a call in its second round is left: in the
\* cache, on its way there, or with the call.
OldTokensGone ==
    \A c \in Call : round[c] = 2 =>
        /\ pc[c] \in {"lock", "wait"} \cup Fetching
        /\ \A t \in cached : c \in t
        /\ \A d \in Call : pc[d] = "offered" => c \in token[d]
        /\ pc[c] = "wait" => c \in token[c]

\* The one token after the revocation was that of the request then granted.
RevocationSound ==
    /\ OneTokenAfterRevocation
    /\ secrets[Mine] # "revoked" => late = 0
    /\ late = 1 => \A c \in Call : pc[c] # "granted"

\* A call that is alone has nobody beside it, and one that has not begun has no
\* request.
AloneSound ==
    /\ \A c \in alone : \A d \in Call \ {c} : AtRest(d)
    /\ \A c \in Call : pc[c] = "idle" => AtRest(c) /\ c \notin alone

\* What the requests of a call that is alone have reported is there.
WritesShow ==
    \A c \in alone :
        /\ \A q \in Attempt : q[1] = c /\ stage[q] = "applying" =>
               \A i \in applied[q] : Shows(c, i)
        /\ pc[c] = "ok" => \A i \in report : Shows(c, i)

\* The operations reported are of the batch, and the next one is after them.
ReportsBehind ==
    \A q \in Attempt : \A i \in applied[q] : i \in DOMAIN Batch[q[1]] /\ i < next[q]

\* The requests of a call that is alone and not mixed work one after the other,
\* and are done when the call is told so.
OneAtATime ==
    \A q \in Attempt : stage[q] = "applying" /\ q[1] \in alone \ mixed =>
        /\ pc[q[1]] # "ok"
        /\ \A p \in Attempt : p[1] = q[1] /\ stage[p] = "applying" => p = q

IInv == /\ TypeOK
        /\ MutexHeld
        /\ OldTokensGone
        /\ RevocationSound
        /\ ClosedToNewBatches
        /\ AloneSound
        /\ WritesShow
        /\ ReportsBehind
        /\ OneAtATime

\* Every call returns: a call that waits for the mutex, or for another's token
\* request, gets its turn, and none waits for itself.
CallsReturn == \A c \in Call : pc[c] = "lock" ~> pc[c] \in Ended

-----------------------------------------------------------------------------
(* What CallsReturn rests on, fairness aside.                              *)

\* What a call has before it in its round, at most: the mutex, two attempts at a
\* token, two at the batch, and the mutex again to drop the token.
InRound(c) == CASE pc[c] = "idle" -> 10
                [] pc[c] = "lock" -> 9
                [] pc[c] = "fetch" -> 8 - 2 * attempt[c]
                [] pc[c] = "granted" -> 7 - 2 * attempt[c]
                [] pc[c] = "offered" -> 4
                [] pc[c] = "wait" -> 3 - attempt[c]
                [] pc[c] = "drop" -> 1

CallLeft(c) == IF pc[c] \in Ended THEN 0
               ELSE IF round[c] = 1 THEN 9 + InRound(c) ELSE InRound(c)

\* Whatever a call does, or happens to it, brings it nearer to its return.
CallNearer == \A c \in Call :
    /\ <<pc[c], round[c], attempt[c]>>' # <<pc[c], round[c], attempt[c]>>
           => CallLeft(c)' < CallLeft(c)
    /\ Begin(c) \/ ClientStep(c) \/ FetchTrouble(c) \/ Break(c) \/ Drop(c)
           => CallLeft(c)' < CallLeft(c)

CallsRunOut == [][CallNearer]_vars

\* An attempt that has not been made yet.
Ahead(q) ==
    LET c == q[1]
    IN  /\ pc[c] \notin Ended
        /\ \/ q[2] > round[c]
           \/ q[2] = round[c] /\ pc[c] \in {"idle", "lock"} \cup Fetching
           \/ q[2] = round[c] /\ pc[c] = "wait" /\ q[3] > attempt[c]

\* What the server has before it on a request, those to come included.
HandlerLeft(q) ==
    LET operations == Len(Batch[q[1]])
    IN  IF Ahead(q) THEN operations + 3
        ELSE CASE stage[q] = "none" -> 0
               [] stage[q] = "travelling" -> operations + 2
               [] stage[q] = "applying" -> operations + 2 - next[q]

\* No request is made twice, and the server gets on with every one it has: the
\* mutex of the clients is asked for, and the server kept busy, a bounded number
\* of times by a call.
HandlerNearer == \A q \in Attempt :
    /\ HandlerLeft(q)' <= HandlerLeft(q)
    /\ ServerStep(q) => HandlerLeft(q)' < HandlerLeft(q)

HandlersRunOut == [][HandlerNearer]_vars

\* A request that is to come is not under way, and none is past its end.
SentInv ==
    /\ IInv
    /\ \A q \in Attempt : /\ Ahead(q) => stage[q] = "none"
                          /\ stage[q] = "applying" => next[q] \in 1..(Len(Batch[q[1]]) + 1)
=============================================================================
