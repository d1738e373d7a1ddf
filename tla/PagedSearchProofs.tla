------------------------- MODULE PagedSearchProofs -------------------------
(***************************************************************************)
(* Proofs about PagedSearch, for any number of candidates, any page and    *)
(* scan limits, any releases and any number of writes during the scan.     *)
(***************************************************************************)
EXTENDS PagedSearch, FiniteSetTheorems, TLAPS

-----------------------------------------------------------------------------
(* The first elements of an ordered finite set.                            *)

\* The order is transitive.
LEMMA BelowGrows ==
  ASSUME NEW S \in SUBSET Nat, NEW j \in Nat, NEW k \in Nat, j <= k
  PROVE  Below(S, j) \subseteq Below(S, k)
<1>1. ASSUME NEW i \in S, i < j PROVE i < k
  <2>1. i \in Nat
    OBVIOUS
  <2>2. QED BY <1>1, <2>1
<1>2. QED BY <1>1 DEF Below

\* Fewer elements lie below an element than the set has, and more lie below a
\* greater one.
LEMMA BelowCount ==
  ASSUME NEW S \in SUBSET Nat, IsFiniteSet(S), NEW k \in S
  PROVE  /\ IsFiniteSet(Below(S, k))
         /\ Cardinality(Below(S, k)) \in 0..(Cardinality(S) - 1)
         /\ \A j \in S : j < k => Cardinality(Below(S, j)) < Cardinality(Below(S, k))
<1>1. /\ IsFiniteSet(Below(S, k)) /\ Cardinality(Below(S, k)) \in Nat
      /\ IsFiniteSet(S \ {k}) /\ Cardinality(S \ {k}) = Cardinality(S) - 1
      /\ Cardinality(S) \in Nat
  BY FS_Subset, FS_RemoveElement, FS_CardinalityType DEF Below
<1>2. Cardinality(Below(S, k)) <= Cardinality(S \ {k})
  <2>1. Below(S, k) \in SUBSET (S \ {k})
    BY DEF Below
  <2>2. QED BY <1>1, <2>1, FS_Subset
<1>3. ASSUME NEW j \in S, j < k
      PROVE  Cardinality(Below(S, j)) < Cardinality(Below(S, k))
  <2>1. /\ j \in Below(S, k)
        /\ Below(S, j) \in SUBSET (Below(S, k) \ {j})
    <3>1. j \in Below(S, k) /\ j \notin Below(S, j)
      BY <1>3 DEF Below
    <3>2. Below(S, j) \subseteq Below(S, k)
      BY <1>3, BelowGrows
    <3>3. QED BY <3>1, <3>2
  <2>2. /\ IsFiniteSet(Below(S, k) \ {j})
        /\ Cardinality(Below(S, k) \ {j}) = Cardinality(Below(S, k)) - 1
    BY <1>1, <2>1, FS_RemoveElement
  <2>3. Cardinality(Below(S, j)) <= Cardinality(Below(S, k) \ {j})
    BY <2>1, <2>2, FS_Subset
  <2>4. Cardinality(Below(S, j)) \in Nat
    BY <2>1, <2>2, FS_Subset, FS_CardinalityType
  <2>5. QED BY <1>1, <2>2, <2>3, <2>4
<1>4. QED BY <1>1, <1>2, <1>3

\* Every position is taken.
LEMMA Ranks ==
  ASSUME NEW S \in SUBSET Nat, IsFiniteSet(S), NEW n \in 0..(Cardinality(S) - 1)
  PROVE  \E k \in S : Cardinality(Below(S, k)) = n
<1> DEFINE T == 0..(Cardinality(S) - 1)
           f == [k \in S |-> Cardinality(Below(S, k))]
<1>1. Cardinality(S) \in Nat
  BY FS_CardinalityType
<1>2. f \in [S -> T]
  BY BelowCount
<1>3. \A j, k \in S : f[j] = f[k] => j = k
  <2>1. ASSUME NEW j \in S, NEW k \in S, f[j] = f[k] PROVE j = k
    <3>1. /\ j < k => f[j] < f[k]
          /\ k < j => f[k] < f[j]
          /\ f[j] \in Int
      BY <1>1, <1>2, BelowCount
    <3>2. QED BY <2>1, <3>1
  <2>2. QED BY <2>1
<1>4. f \in Injection(S, T)
  BY <1>2, <1>3 DEF Injection, IsInjective
<1>5. IsFiniteSet(T) /\ Cardinality(T) = Cardinality(S)
  BY <1>1, FS_Interval
<1>6. f \in Surjection(S, T)
  BY <1>4, <1>5, FS_Injection
<1>7. QED BY <1>6 DEF Surjection

\* A finite set that is not empty has a least and a greatest element.
LEMMA Extremes ==
  ASSUME NEW S \in SUBSET Nat, IsFiniteSet(S), S # {}
  PROVE  /\ \E k \in S : Below(S, k) = {}
         /\ \E k \in S : /\ \A j \in S : j <= k
                         /\ Cardinality(Below(S, k)) = Cardinality(S) - 1
<1>1. Cardinality(S) \in Nat /\ Cardinality(S) # 0
  BY FS_CardinalityType, FS_EmptySet
<1>2. PICK low \in S : Cardinality(Below(S, low)) = 0
  BY <1>1, Ranks
<1>3. PICK top \in S : Cardinality(Below(S, top)) = Cardinality(S) - 1
  BY <1>1, Ranks
<1>4. Below(S, low) = {}
  BY <1>2, BelowCount, FS_EmptySet
<1>5. ASSUME NEW j \in S, ~(j <= top) PROVE FALSE
  <2>1. Cardinality(Below(S, top)) < Cardinality(Below(S, j))
    BY <1>5, BelowCount
  <2>2. QED BY <1>1, <1>3, <2>1, BelowCount
<1>6. QED BY <1>3, <1>4, <1>5

\* Max is the greatest element.
LEMMA MaxIs ==
  ASSUME NEW S \in SUBSET Nat, IsFiniteSet(S), S # {}
  PROVE  Max(S) \in S /\ \A j \in S : j <= Max(S)
BY Extremes DEF Max

\* The first elements are the least, and they are few.
LEMMA FirstClosed ==
  ASSUME NEW S \in SUBSET Nat, IsFiniteSet(S), NEW n \in Nat
  PROVE  /\ First(S, n) \subseteq S
         /\ \A k \in First(S, n), j \in S : j <= k => j \in First(S, n)
         /\ First(S, n) = S => Cardinality(S) <= n
<1>1. ASSUME NEW k \in First(S, n), NEW j \in S, j <= k PROVE j \in First(S, n)
  <2>1. CASE j = k
    BY <1>1, <2>1
  <2>2. CASE j < k
    <3>1. Cardinality(Below(S, j)) < Cardinality(Below(S, k))
      BY <2>2, BelowCount DEF First
    <3>2. Cardinality(Below(S, k)) < n
      BY DEF First
    <3>3. Cardinality(Below(S, j)) \in Int /\ Cardinality(Below(S, k)) \in Int
      BY BelowCount, FS_CardinalityType DEF First
    <3>4. QED BY <3>1, <3>2, <3>3 DEF First
  <2>3. QED BY <1>1, <2>1, <2>2 DEF First
<1>2. ASSUME First(S, n) = S, S # {} PROVE Cardinality(S) <= n
  <2>1. PICK k \in S : Cardinality(Below(S, k)) = Cardinality(S) - 1
    BY <1>2, Extremes
  <2>2. Cardinality(Below(S, k)) < n
    BY <1>2 DEF First
  <2>3. QED BY <2>1, <2>2, FS_CardinalityType
<1>3. S = {} => Cardinality(S) <= n
  BY FS_EmptySet
<1>4. QED BY <1>1, <1>2, <1>3 DEF First

\* Whoever is not among the first comes after a full page of them.
LEMMA FirstFull ==
  ASSUME NEW S \in SUBSET Nat, IsFiniteSet(S), NEW n \in Nat, NEW k \in S \ First(S, n)
  PROVE  /\ \A j \in First(S, n) : j < k
         /\ Cardinality(First(S, n)) >= n
<1> DEFINE F == First(S, n)
<1>1. \A j \in F : j < k
  BY FirstClosed DEF First
<1>2. IsFiniteSet(F) /\ F \in SUBSET Nat
  BY FS_Subset DEF First
<1>3. Cardinality(S) > n /\ Cardinality(S) \in Nat
  <2>1. ~(Cardinality(Below(S, k)) < n)
    BY DEF First
  <2>2. QED BY <2>1, BelowCount, FS_CardinalityType
<1> DEFINE f == [j \in F |-> Cardinality(Below(S, j))]
<1>4. f \in [F -> 0..(n-1)]
  <2>1. \A j \in F : Cardinality(Below(S, j)) \in 0..(n-1)
    BY <1>3, BelowCount DEF First
  <2>2. QED BY <2>1
<1>5. \A i \in 0..(n-1) : \E j \in F : f[j] = i
  <2>1. ASSUME NEW i \in 0..(n-1) PROVE \E j \in F : f[j] = i
    <3>1. PICK j \in S : Cardinality(Below(S, j)) = i
      BY <1>3, Ranks
    <3>2. j \in F
      BY <3>1 DEF First
    <3>3. QED BY <3>1, <3>2
  <2>2. QED BY <2>1
<1>6. f \in Surjection(F, 0..(n-1))
  BY <1>4, <1>5 DEF Surjection
<1>7. Cardinality(0..(n-1)) <= Cardinality(F)
  BY <1>2, <1>6, FS_Surjection
<1>8. Cardinality(0..(n-1)) = n
  BY FS_Interval
<1>9. QED BY <1>1, <1>7, <1>8, <1>2, FS_CardinalityType

-----------------------------------------------------------------------------
(* The page computed from what was read.                                   *)

\* The candidates looked at are an initial segment of those read; if they are
\* all of them, no candidate was left out of the list.
LEMMA PageLooksAhead ==
  ASSUME found \in SUBSET Key
  PROVE  /\ IsFiniteSet(found) /\ found \in SUBSET Nat
         /\ Evaluated \subseteq First(found, ScanLimit)
         /\ First(found, ScanLimit) \subseteq found
         /\ \A k \in Evaluated, j \in found : j <= k => j \in Evaluated
         /\ Evaluated = found => Cardinality(found) <= ScanLimit
         /\ Evaluated # found =>
              /\ LastKey \in Evaluated
              /\ \A j \in found : j <= LastKey <=> j \in Evaluated
<1> USE KeyAssumption, LimitAssumption
<1> DEFINE F == First(found, ScanLimit)
<1>1. IsFiniteSet(found) /\ found \in SUBSET Nat
  BY FS_Subset
<1>2. F \subseteq found /\ IsFiniteSet(F) /\ \A k \in F, j \in found : j <= k => j \in F
  BY <1>1, FirstClosed, FS_Subset
<1>3. Permitted \subseteq F /\ IsFiniteSet(Permitted) /\ Permitted \in SUBSET Nat
  BY <1>1, <1>2, FS_Subset DEF Permitted
<1>4. Evaluated \subseteq F
  BY DEF Evaluated
<1>5. ASSUME NEW k \in Evaluated, NEW j \in found, j <= k PROVE j \in Evaluated
  <2>1. j \in F
    BY <1>2, <1>4, <1>5
  <2>2. Below(Permitted, j) \in SUBSET Below(Permitted, k)
    BY <1>1, <1>2, <1>3, <1>4, <1>5, BelowGrows
  <2>3. IsFiniteSet(Below(Permitted, k))
    BY <1>3, FS_Subset DEF Below
  <2>4. /\ Cardinality(Below(Permitted, j)) <= Cardinality(Below(Permitted, k))
        /\ Cardinality(Below(Permitted, j)) \in Nat
        /\ Cardinality(Below(Permitted, k)) \in Nat
    BY <2>2, <2>3, FS_Subset, FS_CardinalityType
  <2>5. Cardinality(Below(Permitted, k)) < Limit
    BY DEF Evaluated
  <2>6. QED BY <2>1, <2>4, <2>5 DEF Evaluated
<1>6. Evaluated = found => Cardinality(found) <= ScanLimit
  <2>1. Evaluated = found => First(found, ScanLimit) = found
    BY <1>2, <1>4
  <2>2. First(found, ScanLimit) = found => Cardinality(found) <= ScanLimit
    BY <1>1, FirstClosed
  <2>3. QED BY <2>1, <2>2
<1>7. ASSUME Evaluated # found
      PROVE  LastKey \in Evaluated /\ \A j \in found : j <= LastKey <=> j \in Evaluated
  <2>1. found # {}
    BY <1>2, <1>4, <1>7
  <2>2. PICK low \in found : Below(found, low) = {}
    BY <1>1, <2>1, Extremes
  <2>3. Below(Permitted, low) = {}
    BY <1>2, <1>3, <2>2 DEF Below
  <2>4. low \in Evaluated
    BY <2>2, <2>3, FS_EmptySet DEF Evaluated, First
  <2>5. IsFiniteSet(Evaluated) /\ Evaluated \in SUBSET Nat
    BY <1>1, <1>2, <1>4, FS_Subset
  <2>6. LastKey \in Evaluated /\ \A j \in Evaluated : j <= LastKey
    BY <2>4, <2>5, MaxIs DEF LastKey
  <2>7. QED BY <1>5, <2>6
<1>8. QED BY <1>1, <1>2, <1>4, <1>5, <1>6, <1>7

-----------------------------------------------------------------------------
(* The invariant.                                                          *)

\* Nothing was given to the caller yet.
LEMMA InitIInv == Init => IInv
<1> USE KeyAssumption
<1>1. Init => TypeOK
  <2>1. Init => moved \in BOOLEAN
    BY Zenon DEF Init
  <2>2. Init => changes \in 0..MaxChanges
    BY BoundAssumption DEF Init
  <2>3. QED BY <2>1, <2>2 DEF Init, TypeOK, Stages, MaybeData
<1>2. Init => OnceEach /\ ExactOnQuietData
  BY DEF Init, OnceEach, ExactOnQuietData, Passed
<1>3. Init => ReadSound
  BY ReleaseAssumption DEF Init, ReadSound
<1>4. QED BY <1>1, <1>2, <1>3 DEF IInv

\* The release of the page is read, or taken from its token.
LEMMA ResolveStep == IInv /\ ResolvePage => IInv'
<1> USE KeyAssumption, ReleaseAssumption
<1> SUFFICES ASSUME IInv, ResolvePage PROVE IInv'
  OBVIOUS
<1> USE DEF ResolvePage, Finish, tables, token, request, history
<1>1. TypeOK' /\ OnceEach' /\ ReadSound'
  BY DEF IInv, TypeOK, OnceEach, ReadSound, Ahead, Stages, Kinds
<1>2. ExactOnQuietData'
  <2>1. CASE cursor = 0 /\ active = NoRelease /\ Finish("finished")
    BY <2>1 DEF IInv, ExactOnQuietData, ReadSound, TypeOK, Passed, Quiet
  <2>2. CASE pinned' = IF cursor = 0 THEN active ELSE pinned
    BY <2>2 DEF IInv, ExactOnQuietData, ReadSound, TypeOK, Passed, Quiet, Answers, Other, Table
  <2>3. QED BY <2>1, <2>2
<1>3. QED BY <1>1, <1>2 DEF IInv

\* The user asked about is read.
LEMMA IdentifyStep == IInv /\ ReadIdentity => IInv'
<1> USE KeyAssumption, ReleaseAssumption
<1> SUFFICES ASSUME IInv, ReadIdentity PROVE IInv'
  OBVIOUS
<1> USE DEF ReadIdentity, Finish, tables, token, request, history
<1>1. TypeOK' /\ OnceEach'
  BY DEF IInv, TypeOK, OnceEach, Stages
<1>2. ReadSound'
  BY DEF IInv, TypeOK, ReadSound, Ahead
<1>3. ExactOnQuietData'
  <2>1. CASE self = Gone /\ Finish("finished")
    <3>1. \A k \in Key : ~(k <= cursor) => times[k] = 0
      BY <2>1 DEF IInv, TypeOK, ReadSound
    <3>2. kind # "subject"
      BY DEF IInv, ReadSound
    <3>3. /\ stage' = "finished"
          /\ UNCHANGED <<kind, row, self, active, pinned, cursor, times, touched, moved>>
      BY <2>1
    <3>4. SUFFICES ASSUME NEW k \in Key, Passed(k)', Quiet(k)'
                   PROVE  (times[k] = 1 <=> pinned # NoRelease /\ Answers(Other, Table[k]) = "permit")'
      BY DEF ExactOnQuietData
    <3>5. Other = Gone /\ Answers(Other, Table[k])' = "deny"
      BY <2>1, <3>2, <3>3 DEF Other, Answers
    <3>6. CASE k <= cursor
      BY <3>3, <3>4, <3>5, <3>6
         DEF IInv, ExactOnQuietData, Passed, Quiet, Other, Answers
    <3>7. CASE ~(k <= cursor)
      BY <3>1, <3>3, <3>5, <3>7
    <3>8. QED BY <3>6, <3>7
  <2>2. CASE self # Gone
    BY <2>2 DEF IInv, ExactOnQuietData, Passed, Quiet, Answers, Other, Table
  <2>3. QED BY <2>1, <2>2
<1>4. QED BY <1>1, <1>2, <1>3 DEF IInv

\* The candidates beyond the cursor are listed: all of them, or one more than are
\* looked at.
LEMMA ListStep == IInv /\ ListCandidates => IInv'
<1> USE KeyAssumption, LimitAssumption
<1> SUFFICES ASSUME IInv, ListCandidates PROVE IInv'
  OBVIOUS
<1> DEFINE S == {k \in Key : Table[k] # Gone /\ k > cursor}
<1>1. S \in SUBSET Nat /\ IsFiniteSet(S)
  BY FS_Subset
<1>2. found' = First(S, ScanLimit + 1) /\ found' \in SUBSET S
  BY DEF ListCandidates, Beyond, First
<1>3. /\ UNCHANGED <<kind, row, self, active, pinned, cursor, identity, times, touched, moved, changes>>
      /\ stage = "list" /\ stage' = IF kind = "subject" THEN "look" ELSE "answer"
      /\ Table' = Table
  BY DEF ListCandidates, tables, token, history, Table
<1>4. Table \in [Key -> MaybeData]
  BY <1>3, ApplicableAssumption DEF IInv, TypeOK, ReadSound, Table
<1>5. seen' \in [Key -> MaybeData]
  BY <1>4 DEF ListCandidates, MaybeData
<1>6. TypeOK'
  BY <1>2, <1>3, <1>5 DEF IInv, TypeOK, Stages
<1>7. OnceEach' /\ ExactOnQuietData'
  BY <1>3 DEF IInv, TypeOK, OnceEach, ExactOnQuietData, Passed, Quiet, Answers, Other
<1>8. ASSUME NEW k \in Key \ found', Ahead(k)
      PROVE  Cardinality(found') > ScanLimit /\ \A j \in found' : j < k
  <2>1. k \in S \ First(S, ScanLimit + 1)
    BY <1>2, <1>8 DEF Ahead
  <2>2. /\ \A j \in First(S, ScanLimit + 1) : j < k
        /\ Cardinality(First(S, ScanLimit + 1)) >= ScanLimit + 1
    <3>1. ScanLimit + 1 \in Nat
      OBVIOUS
    <3>2. QED BY <1>1, <2>1, <3>1, FirstFull
  <2>3. IsFiniteSet(found')
    BY <1>1, <1>2, FS_Subset
  <2>4. QED BY <1>2, <2>2, <2>3, FS_CardinalityType
<1>9. stage' = "answer" => \A k \in First(found', ScanLimit) : seen'[k] = Table[k]
  BY <1>2, <1>3 DEF ListCandidates, First
<1>10. ReadSound'
  BY <1>2, <1>3, <1>8, <1>9 DEF IInv, ReadSound, Ahead
<1>11. QED BY <1>6, <1>7, <1>10 DEF IInv

\* The users listed are read.
LEMMA LookStep == IInv /\ ReadIdentities => IInv'
<1> USE KeyAssumption, LimitAssumption
<1> SUFFICES ASSUME IInv, ReadIdentities PROVE IInv'
  OBVIOUS
<1>1. /\ UNCHANGED <<kind, row, self, active, pinned, cursor, identity, found, times, touched, moved, changes>>
      /\ stage = "look" /\ stage' = "answer" /\ kind = "subject"
      /\ Table = row /\ Table' = Table
  BY DEF IInv, ReadSound, ReadIdentities, tables, token, history, Table
<1>2. \A k \in First(found, ScanLimit) : seen'[k] = Table[k]
  BY <1>1 DEF ReadIdentities, IInv, TypeOK, First
<1>3. seen' \in [Key -> MaybeData]
  BY <1>1 DEF IInv, TypeOK, ReadIdentities, MaybeData
<1>4. TypeOK' /\ OnceEach' /\ ExactOnQuietData'
  BY <1>1, <1>3 DEF IInv, TypeOK, Stages, OnceEach, ExactOnQuietData, Passed, Quiet, Answers, Other
<1>5. ReadSound'
  BY <1>1, <1>2 DEF IInv, ReadSound, Ahead, First, Below
<1>6. QED BY <1>4, <1>5 DEF IInv

\* The page is answered: the candidates up to the new cursor were all looked at,
\* and after the last page there are no others.
LEMMA AnswerStep == IInv /\ AnswerPage => IInv'
<1> USE KeyAssumption, LimitAssumption
<1> SUFFICES ASSUME IInv, AnswerPage PROVE IInv'
  OBVIOUS
<1>1. /\ UNCHANGED <<kind, row, self, active, pinned, touched, moved, changes>>
      /\ stage = "answer" /\ Table' = Table /\ pinned \in Release
      /\ found \in SUBSET Key /\ found' = {} /\ identity' = Gone
      /\ seen' = [k \in Key |-> Gone]
  BY DEF IInv, TypeOK, ReadSound, AnswerPage, tables, history, Table
<1>2. /\ \A k \in Results : k \in Evaluated /\ k \in First(found, ScanLimit)
      /\ \A k \in Key : times'[k] = IF k \in Results THEN times[k] + 1 ELSE times[k]
      /\ times' \in [Key -> Nat]
  BY DEF AnswerPage, Results, Permitted, IInv, TypeOK
<1>3. \/ /\ Evaluated # found
         /\ stage' = "resolve" /\ cursor' = LastKey /\ LastKey \in found
         /\ \A j \in found : j <= LastKey <=> j \in Evaluated
      \/ /\ Evaluated = found
         /\ stage' = "finished" /\ cursor' = cursor
         /\ Cardinality(found) <= ScanLimit
  BY <1>1, PageLooksAhead DEF AnswerPage
<1>4. \A k \in found : k > cursor /\ times[k] = 0
  BY <1>1 DEF IInv, TypeOK, ReadSound
<1>5. TypeOK'
  BY <1>1, <1>2, <1>3 DEF IInv, TypeOK, Stages, MaybeData
<1>6. \A k \in Key : times'[k] = IF k \in Results THEN 1 ELSE times[k]
  BY <1>1, <1>2, <1>4, PageLooksAhead
<1>7. OnceEach'
  BY <1>6 DEF IInv, OnceEach
<1>8. ReadSound'
  <2>1. ASSUME stage' # "finished", NEW k \in Key, times'[k] > 0 PROVE k <= cursor'
    <3>0. LastKey \in found /\ cursor \in Nat /\ found \in SUBSET Nat
      BY <1>1, <1>3, <2>1 DEF IInv, TypeOK
    <3>1. LastKey \in found /\ LastKey \in Nat /\ cursor \in Nat /\ LastKey > cursor
      BY <1>4, <3>0
    <3>2. CASE k \in Results
      <4>1. k \in Evaluated
        BY <1>2, <3>2
      <4>2. First(found, ScanLimit) \subseteq found
        BY <1>1, PageLooksAhead
      <4>3. k \in found
        BY <1>2, <3>2, <4>2
      <4>4. QED BY <1>3, <2>1, <4>1, <4>3
    <3>3. CASE k \notin Results
      <4>1. k <= cursor
        BY <1>1, <1>6, <2>1, <3>3 DEF IInv, ReadSound
      <4>2. QED BY <1>3, <2>1, <3>1, <4>1
    <3>4. QED BY <3>2, <3>3
  <2>2. QED BY <1>1, <1>3, <2>1 DEF IInv, ReadSound
<1>9. ASSUME NEW k \in Key, Passed(k)', Quiet(k)'
      PROVE  times'[k] = 1 <=> Answers(Other, Table[k]) = "permit"
  <2>1. Quiet(k) /\ k \in Nat /\ cursor \in Nat
    BY <1>1, <1>9 DEF Quiet, IInv, TypeOK
  <2>2. CASE k <= cursor
    <3>1. k \notin Results
      BY <1>1, <1>2, <1>4, <2>1, <2>2, PageLooksAhead
    <3>2. QED BY <1>1, <1>6, <2>1, <2>2, <3>1, ReleaseAssumption
            DEF IInv, ExactOnQuietData, Passed
  <2>3. CASE k > cursor /\ k \notin found
    <3>1. Table[k] = Gone
      <4>1. Ahead(k) => Cardinality(found) > ScanLimit /\ \A j \in found : j < k
        BY <1>1, <2>3 DEF IInv, ReadSound
      <4>2. ~ Ahead(k)
        <5>1. CASE stage' = "finished"
          <6>1. Cardinality(found) \in Nat
            BY <1>1, PageLooksAhead, FS_CardinalityType
          <6>2. QED BY <1>3, <4>1, <5>1, <6>1
        <5>2. CASE stage' # "finished"
          <6>1. k <= LastKey /\ LastKey \in found /\ LastKey \in Nat
            BY <1>1, <1>3, <1>9, <5>2 DEF Passed
          <6>2. QED BY <2>1, <4>1, <6>1
        <5>3. QED BY <5>1, <5>2
      <4>3. QED BY <2>1, <2>3, <4>2 DEF Ahead, Quiet
    <3>2. k \notin Results /\ times[k] = 0
      <4>1. ~(k <= cursor)
        BY <2>1, <2>3
      <4>2. QED BY <1>1, <1>2, <2>3, <4>1, PageLooksAhead DEF IInv, TypeOK, ReadSound
    <3>3. QED BY <1>6, <3>1, <3>2 DEF Answers
  <2>4. CASE k \in found
    <3>1. k \in Evaluated
      BY <1>3, <1>9, <2>4 DEF Passed
    <3>2. seen[k] = Table[k] /\ k \in First(found, ScanLimit)
      BY <1>1, <2>1, <3>1, PageLooksAhead DEF IInv, ReadSound, Quiet
    <3>3. Judge(k) = Answers(Other, Table[k])
      BY <1>1, <2>1, <3>2 DEF Judge, Other, IInv, ReadSound, Quiet
    <3>4. k \in Results <=> Answers(Other, Table[k]) = "permit"
      BY <3>1, <3>2, <3>3 DEF Results, Permitted
    <3>5. QED BY <1>4, <1>6, <2>4, <3>4
  <2>5. k <= cursor \/ k > cursor
    BY <2>1
  <2>6. QED BY <2>2, <2>3, <2>4, <2>5
<1>10. ExactOnQuietData'
  <2>1. UNCHANGED Other /\ \A d : Answers(Other, d)' = Answers(Other, d')
    BY <1>1 DEF Other, Answers
  <2>2. ASSUME NEW k \in Key PROVE Answers(Other, Table[k])' = Answers(Other, Table[k])
    BY <1>1, <2>1 DEF Answers, Other
  <2>3. QED BY <1>1, <1>9, <2>2, ReleaseAssumption DEF ExactOnQuietData
<1>11. QED BY <1>5, <1>7, <1>8, <1>10 DEF IInv

\* A page that fails, or that the caller never sees, adds nothing.
LEMMA OtherSteps ==
  IInv /\ (FailPage \/ Expire \/ LoseAnswer) => IInv'
<1> USE KeyAssumption
<1> SUFFICES ASSUME IInv, FailPage \/ Expire \/ LoseAnswer PROVE IInv'
  OBVIOUS
<1>1. /\ UNCHANGED <<kind, row, self, active, pinned, cursor, times, touched, moved>>
      /\ stage' \in {"failed", "expired", "resolve"} /\ stage # "finished"
      /\ found' \in SUBSET Key /\ identity' \in MaybeData /\ seen' \in [Key -> MaybeData]
      /\ changes' \in 0..MaxChanges
  <2>1. CASE FailPage \/ Expire
    BY <2>1 DEF FailPage, Expire, Finish, tables, token, request, history, IInv, TypeOK
  <2>2. CASE LoseAnswer
    BY <2>2, BoundAssumption DEF LoseAnswer, tables, token, IInv, TypeOK, MaybeData
  <2>3. QED BY <2>1, <2>2
<1>2. TypeOK' /\ OnceEach'
  BY <1>1 DEF IInv, TypeOK, OnceEach, Stages
<1>3. ReadSound'
  BY <1>1 DEF IInv, ReadSound
<1>4. ExactOnQuietData'
  BY <1>1 DEF IInv, ExactOnQuietData, Passed, Quiet, Answers, Other, Table
<1>5. QED BY <1>2, <1>3, <1>4 DEF IInv

\* What is written during the scan touches what it is about, and nothing else.
LEMMA MeanwhileStep ==
  IInv /\ (ChangeRow \/ ChangeSelf \/ Activate) => IInv'
<1> USE KeyAssumption
<1> SUFFICES ASSUME IInv, ChangeRow \/ ChangeSelf \/ Activate PROVE IInv'
  OBVIOUS
<1>1. /\ UNCHANGED <<kind, stage, pinned, cursor, identity, found, seen, times>>
      /\ changes' \in 0..MaxChanges
      /\ stage # "finished"
  BY BoundAssumption
     DEF ChangeRow, ChangeSelf, Activate, Meanwhile, Over, token, request, IInv, TypeOK
<1>2. /\ touched \subseteq touched' /\ touched' \in SUBSET Key /\ (moved => moved')
      /\ \A k \in Key \ touched' : Table'[k] = Table[k]
      /\ kind # "subject" /\ ~moved' => self' = self
      /\ row' \in [Key -> MaybeData] /\ self' \in MaybeData
      /\ active' \in Release \cup {NoRelease} /\ (active \in Release => active' \in Release)
  BY <1>1 DEF ChangeRow, ChangeSelf, Activate, IInv, TypeOK, Table
<1>3. moved' \in BOOLEAN
  BY DEF ChangeRow, ChangeSelf, Activate, IInv, TypeOK
<1>4. TypeOK' /\ OnceEach'
  BY <1>1, <1>2, <1>3 DEF IInv, TypeOK, OnceEach
<1>5. ReadSound'
  BY <1>1, <1>2 DEF IInv, TypeOK, ReadSound, Ahead, First, Below
<1>6. ExactOnQuietData'
  <2>1. ASSUME NEW k \in Key, Passed(k)', Quiet(k)'
        PROVE  (times[k] = 1 <=> pinned # NoRelease /\ Answers(Other, Table[k]) = "permit")'
    <3>1. Passed(k) /\ Quiet(k) /\ Table'[k] = Table[k] /\ Other' = Other
      BY <1>1, <1>2, <2>1 DEF Passed, Quiet, Other
    <3>2. Answers(Other, Table[k])' = Answers(Other, Table[k])
      BY <1>1, <3>1 DEF Answers
    <3>3. QED BY <1>1, <3>1, <3>2 DEF IInv, ExactOnQuietData
  <2>2. QED BY <2>1 DEF ExactOnQuietData
<1>7. QED BY <1>4, <1>5, <1>6 DEF IInv

\* Every step preserves the invariant.
LEMMA StepIInv == IInv /\ [Next]_vars => IInv'
<1>1. IInv /\ UNCHANGED vars => IInv'
  BY DEF vars, tables, token, request, history, IInv, TypeOK, OnceEach, ExactOnQuietData,
         ReadSound, Passed, Quiet, Ahead, Answers, Other, Table
<1>2. QED BY <1>1, ResolveStep, IdentifyStep, ListStep, LookStep, AnswerStep, OtherSteps,
             MeanwhileStep DEF Next, Serve

-----------------------------------------------------------------------------
\* The invariant holds in every state of every behaviour.
THEOREM Invariance == Spec => []IInv
  BY InitIInv, StepIInv, PTL DEF Spec

\* Every variable has its type.
THEOREM TypeCorrect == Spec => []TypeOK
<1>1. IInv => TypeOK
  BY DEF IInv
<1>2. QED BY <1>1, Invariance, PTL

\* No candidate is given to the caller twice (execute_subject_search,
\* execute_resource_search, execute_action_search).
THEOREM ResultsOnce == Spec => []OnceEach
<1>1. IInv => OnceEach
  BY DEF IInv
<1>2. QED BY <1>1, Invariance, PTL

\* A scan misses nothing and adds nothing among the data that stay as they are,
\* and answers by one release, whatever is activated meanwhile.
THEOREM ScanExact == Spec => []ExactOnQuietData
<1>1. IInv => ExactOnQuietData
  BY DEF IInv
<1>2. QED BY <1>1, Invariance, PTL

-----------------------------------------------------------------------------
(* The pages.                                                              *)

\* There are as many first elements as asked for, or all there are.
LEMMA FirstCount ==
  ASSUME NEW S \in SUBSET Nat, IsFiniteSet(S), NEW n \in Nat
  PROVE  /\ Cardinality(First(S, n)) <= n
         /\ First(S, n) # S => Cardinality(First(S, n)) = n
         /\ Cardinality(S) >= n => Cardinality(First(S, n)) = n
<1> DEFINE F == First(S, n)
<1>1. F \in SUBSET S /\ IsFiniteSet(F) /\ Cardinality(F) \in Nat /\ Cardinality(S) \in Nat
  BY FS_Subset, FS_CardinalityType DEF First
<1>2. Cardinality(F) <= n
  <2>1. ASSUME NEW k \in F
        PROVE  Below(F, k) = Below(S, k)
    <3>1. \A j \in S : j <= k => j \in F
      BY FirstClosed
    <3>2. F \subseteq S /\ k \in Nat
      BY <1>1
    <3>3. \A j \in S : j < k => j \in F
      BY <3>1, <3>2
    <3>4. QED BY <3>2, <3>3 DEF Below
  <2>2. First(F, n) = F
    <3>1. \A k \in F : Cardinality(Below(F, k)) < n
      BY <2>1 DEF First
    <3>2. QED BY <3>1 DEF First
  <2>3. QED BY <1>1, <2>2, FirstClosed
<1>3. F # S => Cardinality(F) >= n
  BY <1>1, FirstFull
<1>4. QED BY <1>1, <1>2, <1>3

\* What is on the page, and what is looked at for it.
LEMMA PageCounts ==
  ASSUME found \in SUBSET Key
  PROVE  /\ Cardinality(Results) <= Limit
         /\ Cardinality(Evaluated) <= ScanLimit
         /\ Evaluated # found => \/ Cardinality(Results) = Limit
                                 \/ Cardinality(Evaluated) = ScanLimit
<1> USE KeyAssumption, LimitAssumption
<1> DEFINE F == First(found, ScanLimit)
<1>1. /\ IsFiniteSet(found) /\ found \in SUBSET Nat
      /\ F \in SUBSET found /\ IsFiniteSet(F) /\ F \in SUBSET Nat
      /\ Evaluated \in SUBSET F
      /\ Permitted \in SUBSET Nat /\ IsFiniteSet(Permitted) /\ Permitted \subseteq F
  BY FS_Subset DEF First, Evaluated, Permitted
<1>2. Results = First(Permitted, Limit)
  <2>1. Permitted \subseteq F
    BY <1>1
  <2>2. QED BY <2>1 DEF Results, Evaluated, First
<1>3. Cardinality(Results) <= Limit
  BY <1>1, <1>2, FirstCount
<1>4. Cardinality(F) <= ScanLimit /\ (F # found => Cardinality(F) = ScanLimit)
  BY <1>1, FirstCount
<1>5. Cardinality(Evaluated) <= ScanLimit
  <2>1. /\ Cardinality(Evaluated) <= Cardinality(F)
        /\ Cardinality(Evaluated) \in Nat /\ Cardinality(F) \in Nat
    BY <1>1, FS_Subset, FS_CardinalityType
  <2>2. QED BY <1>4, <2>1
<1>6. ASSUME Evaluated # F
      PROVE  Cardinality(Results) = Limit
  <2>1. PICK k \in F : ~(Cardinality(Below(Permitted, k)) < Limit)
    BY <1>1, <1>6 DEF Evaluated
  <2>2. /\ Below(Permitted, k) \in SUBSET Permitted
        /\ Cardinality(Below(Permitted, k)) <= Cardinality(Permitted)
        /\ Cardinality(Below(Permitted, k)) \in Nat /\ Cardinality(Permitted) \in Nat
    BY <1>1, FS_Subset, FS_CardinalityType DEF Below
  <2>3. Cardinality(Permitted) >= Limit
    BY <2>1, <2>2
  <2>4. QED BY <1>1, <1>2, <2>3, FirstCount
<1>7. QED BY <1>3, <1>4, <1>5, <1>6

\* A page is as long as the caller asked, unless the candidates end or the scan
\* limit is reached.
THEOREM PagesFit == Spec => []PageFits
<1>1. IInv => PageFits
  BY PageCounts DEF IInv, TypeOK, PageFits
<1>2. QED BY <1>1, Invariance, PTL

\* A page takes the caller further or is the last, whatever is written while it
\* is computed and however often an answer is lost.
THEOREM PagesLeadOn == Spec => PagesAdvance
<1> USE KeyAssumption, LimitAssumption
<1>1. ASSUME IInv, [Next]_vars
      PROVE  Advances
  <2>1. CASE AnswerPage
    <3>1. Evaluated # found => LastKey \in found
      BY <1>1, PageLooksAhead DEF IInv, TypeOK
    <3>2. \A k \in found : k > cursor /\ k \in Nat /\ cursor \in Nat
      BY <1>1, <2>1 DEF IInv, TypeOK, ReadSound, AnswerPage
    <3>3. cursor \in Nat
      BY <1>1 DEF IInv, TypeOK
    <3>4. QED BY <2>1, <3>1, <3>2, <3>3 DEF Advances, AnswerPage
  <2>2. CASE ~AnswerPage
    <3>1. UNCHANGED cursor
      BY <1>1, <2>2 DEF Next, Serve, ResolvePage, ReadIdentity, ListCandidates, ReadIdentities,
         FailPage, LoseAnswer, Expire, Finish, ChangeRow, ChangeSelf, Activate, Meanwhile,
         vars, token
    <3>2. cursor \in Nat
      BY <1>1 DEF IInv, TypeOK
    <3>3. QED BY <2>2, <3>1, <3>2 DEF Advances
  <2>3. QED BY <2>1, <2>2
<1>2. IInv /\ [Next]_vars => [Advances]_vars
  BY <1>1
<1>3. QED BY <1>2, Invariance, PTL DEF Spec, PagesAdvance
=============================================================================
