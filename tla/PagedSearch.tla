---------------------------- MODULE PagedSearch ----------------------------
(***************************************************************************)
(* One caller going through all the pages of an AuthZEN search, while the  *)
(* data searched and the active release change under it.                   *)
(*                                                                         *)
(* The server keeps nothing between two pages: the page token, which it    *)
(* signs, carries the release and the last candidate looked at.  The three *)
(* kinds of search differ in where the candidates come from and in what is *)
(* read when; the page is computed in the same way.                        *)
(***************************************************************************)
EXTENDS Integers, FiniteSetsExt

CONSTANTS
    Key,                \* what candidates are ordered by, above 0
    Limit,              \* page.limit
    ScanLimit,          \* SCAN_LIMIT
    Release, NoRelease,
    Data, Gone,         \* what the database says of a user or a resource
    Query,              \* the resource a subject search asks about
    Applicable,         \* the actions each release's schema declares
    Verdict,            \* what a release answers about a subject and an object
    MaxChanges          \* bound: writes and rollbacks during the scan

VARIABLES
    kind,               \* subject, resource or action
    row,                \* the users, or the resources of the type asked for
    self,               \* the user a resource or action search asks about
    active,             \* active_policy_releases
    stage,              \* what the request in flight does next
    pinned,             \* release_id of the page token, or just read
    cursor,             \* last_key of the page token; 0 before the first page
    identity,           \* the authorization identity just read
    found,              \* candidates read, one more than are looked at
    seen,               \* the data read of them
    times,              \* how often the caller was given each key (history)
    touched,            \* keys whose data changed since the scan began (history)
    moved,              \* whether the searched user's data did (history)
    changes

tables  == <<row, self, active>>
token   == <<pinned, cursor>>
request == <<identity, found, seen>>
history == <<touched, moved, changes>>
vars == <<kind, tables, stage, token, request, times, history>>

-----------------------------------------------------------------------------
Kinds  == {"subject", "resource", "action"}
Stages == {"resolve", "identify", "list", "look", "answer", "finished", "failed", "expired"}
Over   == stage \in {"finished", "failed", "expired"}
MaybeData == Data \cup {Gone}

ASSUME KeyAssumption == Key \in SUBSET (Nat \ {0}) /\ IsFiniteSet(Key)
ASSUME LimitAssumption == Limit \in Nat \ {0} /\ ScanLimit \in Nat \ {0}
ASSUME ReleaseAssumption == NoRelease \notin Release
ASSUME DataAssumption == Gone \notin Data /\ Query \in Data
ASSUME ApplicableAssumption == Applicable \in [Release -> [Key -> MaybeData]]
ASSUME VerdictAssumption ==
    Verdict \in [Release \X Data \X Data -> {"permit", "deny", "error"}]
ASSUME BoundAssumption == MaxChanges \in Nat

Below(S, k) == {j \in S : j < k}

\* ORDER BY key LIMIT n
First(S, n) == {k \in S : Cardinality(Below(S, k)) < n}

\* The candidates there are now.
Table == IF kind = "action" THEN Applicable[pinned] ELSE row

\* The other party of the question asked about every candidate.
Other == IF kind = "subject" THEN Query ELSE self

Answers(other, data) == IF other = Gone \/ data = Gone THEN "deny"
                        ELSE Verdict[<<pinned, other, data>>]

Init == /\ kind \in Kinds
        /\ row \in [Key -> MaybeData]
        /\ self \in MaybeData
        /\ active \in Release \cup {NoRelease}
        /\ stage = "resolve"
        /\ pinned = NoRelease
        /\ cursor = 0
        /\ identity = Gone
        /\ found = {}
        /\ seen = [k \in Key |-> Gone]
        /\ times = [k \in Key |-> 0]
        /\ touched = {} /\ moved = FALSE /\ changes = 0

-----------------------------------------------------------------------------
Finish(s) == /\ stage' = s
             /\ UNCHANGED <<kind, tables, token, request, times, history>>

\* Mutant of ResolvePage: every page reads the active release.
ResolveActive ==
    /\ stage = "resolve"
    /\ active # NoRelease
    /\ pinned' = active
    /\ stage' = IF kind = "subject" THEN "list" ELSE "identify"
    /\ UNCHANGED <<kind, tables, cursor, request, times, history>>

\* The first page reads the active release, a later one that of its token.
ResolvePage ==
    /\ stage = "resolve"
    /\ \/ cursor = 0 /\ active = NoRelease /\ Finish("finished")
       \/ /\ pinned' = IF cursor = 0 THEN active ELSE pinned
          /\ cursor = 0 => active # NoRelease
          /\ stage' = IF kind = "subject" THEN "list" ELSE "identify"
          /\ UNCHANGED <<kind, tables, cursor, request, times, history>>

\* A token is good for PAGE_TTL_SECONDS.
Expire == stage = "resolve" /\ cursor # 0 /\ Finish("expired")

\* authoritative_identity: a user who is not there gets an empty last page.
ReadIdentity ==
    /\ stage = "identify"
    /\ \/ self = Gone /\ Finish("finished")
       \/ /\ self # Gone
          /\ identity' = self
          /\ stage' = "list"
          /\ UNCHANGED <<kind, tables, token, found, seen, times, history>>

\* Mutant of Beyond: the candidate the cursor stands on comes again.
BeyondOrAt(n) == First({k \in Key : Table[k] # Gone /\ k >= cursor}, n)

Beyond(n) == First({k \in Key : Table[k] # Gone /\ k > cursor}, n)

\* Mutant of ListCandidates: the candidate that tells a full scan from the end
\* is not asked for.
ListToLimit ==
    /\ stage = "list"
    /\ found' = Beyond(ScanLimit)
    /\ seen' = [k \in Key |-> IF k \in found' THEN Table[k] ELSE Gone]
    /\ stage' = IF kind = "subject" THEN "look" ELSE "answer"
    /\ UNCHANGED <<kind, tables, token, identity, times, history>>

\* active_subjects_after, resources_after, applicable_actions.  Of users, only
\* the ids are read here.
ListCandidates ==
    /\ stage = "list"
    /\ found' = Beyond(ScanLimit + 1)
    /\ seen' = [k \in Key |-> IF k \in found' /\ kind # "subject" THEN Table[k] ELSE Gone]
    /\ stage' = IF kind = "subject" THEN "look" ELSE "answer"
    /\ UNCHANGED <<kind, tables, token, identity, times, history>>

\* authorization_identities, of the users that will be looked at.
ReadIdentities ==
    /\ stage = "look"
    /\ seen' = [k \in Key |-> IF k \in First(found, ScanLimit) THEN row[k] ELSE Gone]
    /\ stage' = "answer"
    /\ UNCHANGED <<kind, tables, token, identity, found, times, history>>

-----------------------------------------------------------------------------
(* The page: candidates are looked at in order, up to ScanLimit of them or *)
(* until Limit of them are permitted.                                      *)

Judge(k) == Answers(IF kind = "subject" THEN Query ELSE identity, seen[k])

Permitted == {k \in First(found, ScanLimit) : Judge(k) = "permit"}

Evaluated == {k \in First(found, ScanLimit) : Cardinality(Below(Permitted, k)) < Limit}

Results == Permitted \cap Evaluated

Errs == \E k \in Evaluated : Judge(k) = "error"

\* Mutant of LastKey: the cursor of an empty page stays where it was.
LastResult == IF Results = {} THEN cursor ELSE Max(Results)

LastKey == Max(Evaluated)

AnswerPage ==
    /\ stage = "answer" /\ ~Errs
    /\ times' = [k \in Key |-> IF k \in Results THEN times[k] + 1 ELSE times[k]]
    /\ IF Evaluated # found
       THEN stage' = "resolve" /\ cursor' = LastKey
       ELSE stage' = "finished" /\ UNCHANGED cursor
    /\ identity' = Gone /\ found' = {} /\ seen' = [k \in Key |-> Gone]
    /\ UNCHANGED <<kind, tables, pinned, history>>

\* The answer does not reach the caller, or the search log cannot be written:
\* the caller asks for the page again with the token it has.
LoseAnswer ==
    /\ stage = "answer" /\ ~Errs
    /\ changes < MaxChanges
    /\ stage' = "resolve"
    /\ changes' = changes + 1
    /\ identity' = Gone /\ found' = {} /\ seen' = [k \in Key |-> Gone]
    /\ UNCHANGED <<kind, tables, token, times, touched, moved>>

\* A candidate the pinned schema rejects fails the page.
FailPage == stage = "answer" /\ Errs /\ Finish("failed")

-----------------------------------------------------------------------------
(* What happens meanwhile.                                                 *)

Meanwhile == /\ ~Over
             /\ changes < MaxChanges
             /\ changes' = changes + 1
             /\ UNCHANGED <<kind, stage, token, request, times>>

\* A resource is synchronized or deleted; a user is enabled, disabled or gets
\* other groups or roles.
ChangeRow == /\ Meanwhile
             /\ kind # "action"
             /\ \E k \in Key, d \in MaybeData :
                   /\ row[k] # d
                   /\ row' = [row EXCEPT ![k] = d]
                   /\ touched' = touched \cup {k}
             /\ UNCHANGED <<self, active, moved>>

ChangeSelf == /\ Meanwhile
              /\ kind # "subject"
              /\ \E d \in MaybeData : self # d /\ self' = d
              /\ moved' = TRUE
              /\ UNCHANGED <<row, active, touched>>

Activate == /\ Meanwhile
            /\ \E r \in Release : active # r /\ active' = r
            /\ UNCHANGED <<row, self, touched, moved>>

-----------------------------------------------------------------------------
Serve == ResolvePage \/ ReadIdentity \/ ListCandidates \/ ReadIdentities \/ FailPage

Next == \/ Serve \/ AnswerPage \/ LoseAnswer \/ Expire
        \/ ChangeRow \/ ChangeSelf \/ Activate

Spec == Init /\ [][Next]_vars

\* The caller keeps asking, the server serves what it is asked, and an answer
\* reaches the caller in the end.
FairSpec == Spec /\ WF_vars(Serve) /\ SF_vars(AnswerPage)

-----------------------------------------------------------------------------
(* Properties.                                                             *)

TypeOK == /\ kind \in Kinds
          /\ row \in [Key -> MaybeData]
          /\ self \in MaybeData
          /\ active \in Release \cup {NoRelease}
          /\ stage \in Stages
          /\ pinned \in Release \cup {NoRelease}
          /\ cursor \in Key \cup {0}
          /\ identity \in MaybeData
          /\ found \in SUBSET Key
          /\ seen \in [Key -> MaybeData]
          /\ times \in [Key -> Nat]
          /\ touched \in SUBSET Key
          /\ moved \in BOOLEAN
          /\ changes \in 0..MaxChanges

\* No result is on two pages, nor twice on one.
OnceEach == \A k \in Key : times[k] <= 1

Quiet(k) == k \notin touched /\ ~moved

\* The pages that bring the caller past a key.
Passed(k) == k <= cursor \/ stage = "finished"

\* A key whose data, and that of the user asked about, stay as they were when
\* the scan began is among the results exactly if the release active then
\* permits it, whatever else is written and whichever release is activated.
ExactOnQuietData == \A k \in Key :
    Passed(k) /\ Quiet(k) =>
        (times[k] = 1 <=> pinned # NoRelease /\ Answers(Other, Table[k]) = "permit")

\* What the request in flight relies on: the candidates it read are the next ones
\* after the cursor, up to one more than it looks at, and what it read of them and
\* of the user asked about still stands where nothing was written since.
Ahead(k) == k > cursor /\ k \notin touched /\ Table[k] # Gone

ReadSound ==
    /\ pinned \in Release => active \in Release
    /\ cursor # 0 \/ stage \in {"identify", "list", "look", "answer"} => pinned \in Release
    /\ stage # "finished" => \A k \in Key : times[k] > 0 => k <= cursor
    /\ kind # "subject" /\ stage \in {"list", "answer"} =>
        identity # Gone /\ (~moved => identity = self)
    /\ stage = "identify" => kind # "subject"
    /\ stage = "look" => kind = "subject"
    /\ stage \in {"look", "answer"} =>
        /\ \A k \in found : k > cursor /\ (k \in touched \/ Table[k] # Gone)
        /\ \A k \in Key \ found : Ahead(k) =>
              Cardinality(found) > ScanLimit /\ \A j \in found : j < k
    /\ stage = "answer" => \A k \in First(found, ScanLimit) \ touched : seen[k] = Table[k]

\* The inductive invariant.
IInv == TypeOK /\ OnceEach /\ ExactOnQuietData /\ ReadSound

\* The scan comes to an end.
ScanFinishes == <>Over

-----------------------------------------------------------------------------
(* What the pages themselves look like.                                    *)

\* A page has at most page.limit results, and is cut short of it only by the end
\* of the candidates or after SCAN_LIMIT of them were looked at (execute_subject_search,
\* execute_resource_search, execute_action_search).
PageFits == stage = "answer" =>
    /\ Cardinality(Results) <= Limit
    /\ Cardinality(Evaluated) <= ScanLimit
    /\ Evaluated # found => \/ Cardinality(Results) = Limit
                            \/ Cardinality(Evaluated) = ScanLimit

\* Every page is the last or takes the caller further, be it empty: the reason,
\* fairness apart, why a scan comes to an end.  Nothing takes the caller back.
Advances == /\ cursor' >= cursor
            /\ AnswerPage => stage' = "finished" \/ cursor' > cursor

PagesAdvance == [][Advances]_vars
=============================================================================
