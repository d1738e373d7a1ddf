------------------------ MODULE SchemaEvolutionProofs ------------------------
(***************************************************************************)
(* Proofs about SchemaEvolution, for schemas and entities of any size.     *)
(***************************************************************************)
EXTENDS SchemaEvolution, TLAPS

-----------------------------------------------------------------------------
(* The comparison as a relation.                                           *)

LEMMA EntityEvolvesOn ==
  ASSUME NEW a, NEW b, NEW c, EvolvesEntity(a, b), EvolvesEntity(b, c)
  PROVE  EvolvesEntity(a, c)
<1>1. KeepsAll(a.attributes, c.attributes)
  BY DEF EvolvesEntity, EvolvesShape, KeepsAll
<1>2. ASSUME NEW x \in DOMAIN c.attributes \ DOMAIN a.attributes
      PROVE  ~c.attributes[x].required
  <2>1. CASE x \in DOMAIN b.attributes
    BY <2>1 DEF EvolvesEntity, EvolvesShape, KeepsAll
  <2>2. CASE x \notin DOMAIN b.attributes
    BY <2>2 DEF EvolvesEntity, EvolvesShape
  <2>3. QED BY <2>1, <2>2
<1>3. QED BY <1>1, <1>2 DEF EvolvesEntity, EvolvesShape

\* validate_schema_evolution compares neighbours: a schema that evolves one that
\* evolves a third evolves the third.
THEOREM EvolutionTransitive ==
  ASSUME NEW a, NEW b, NEW c, Evolves(a, b), Evolves(b, c)
  PROVE  Evolves(a, c)
<1> SUFFICES ASSUME NEW n \in DOMAIN a
             PROVE  /\ n \in DOMAIN c
                    /\ KeepsAll(a[n].commonTypes, c[n].commonTypes)
                    /\ KeepsAll(a[n].actions, c[n].actions)
                    /\ \A t \in DOMAIN a[n].entityTypes :
                           /\ t \in DOMAIN c[n].entityTypes
                           /\ EvolvesEntity(a[n].entityTypes[t], c[n].entityTypes[t])
  BY DEF Evolves
<1>1. n \in DOMAIN b /\ n \in DOMAIN c
  BY DEF Evolves
<1>2. /\ KeepsAll(a[n].commonTypes, c[n].commonTypes)
      /\ KeepsAll(a[n].actions, c[n].actions)
  BY <1>1 DEF Evolves, KeepsAll
<1>3. ASSUME NEW t \in DOMAIN a[n].entityTypes
      PROVE  /\ t \in DOMAIN c[n].entityTypes
             /\ EvolvesEntity(a[n].entityTypes[t], c[n].entityTypes[t])
  <2>1. /\ t \in DOMAIN b[n].entityTypes
        /\ EvolvesEntity(a[n].entityTypes[t], b[n].entityTypes[t])
    BY DEF Evolves
  <2>2. /\ t \in DOMAIN c[n].entityTypes
        /\ EvolvesEntity(b[n].entityTypes[t], c[n].entityTypes[t])
    BY <1>1, <2>1 DEF Evolves
  <2>3. QED BY <2>1, <2>2, EntityEvolvesOn
<1>4. QED BY <1>1, <1>2, <1>3

LEMMA EvolutionReflexive ==
  ASSUME NEW a
  PROVE  Evolves(a, a)
  BY DEF Evolves, EvolvesEntity, EvolvesShape, KeepsAll

-----------------------------------------------------------------------------
(* What it keeps.                                                          *)

LEMMA KindsGrow ==
  ASSUME NEW current, NEW next, Evolves(current, next)
  PROVE  /\ Kinds(current) \subseteq Kinds(next)
         /\ \A k \in Kinds(current) : EvolvesEntity(Def(current, k), Def(next, k))
  BY DEF Kinds, Def, Evolves

\* The hierarchy only grows.
LEMMA AncestorsGrow ==
  ASSUME NEW current, NEW next, Evolves(current, next), NEW k \in Kinds(current)
  PROVE  Ancestors(current, k) \subseteq Ancestors(next, k)
<1> SUFFICES ASSUME NEW t \in Ancestors(current, k), NEW S \in SUBSET Kinds(next),
                    \A u \in S \cup {k} : Def(next, u).memberOfTypes \cap Kinds(next) \subseteq S
             PROVE  t \in S
  BY KindsGrow DEF Ancestors
<1> DEFINE C == S \cap Kinds(current)
<1>1. ASSUME NEW u \in C \cup {k}
      PROVE  Def(current, u).memberOfTypes \cap Kinds(current) \subseteq C
  <2>1. u \in Kinds(current) /\ u \in S \cup {k}
    OBVIOUS
  <2>2. Def(current, u).memberOfTypes \subseteq Def(next, u).memberOfTypes
    BY <2>1, KindsGrow DEF EvolvesEntity
  <2>3. QED BY <2>1, <2>2, KindsGrow
<1>2. C \in SUBSET Kinds(current)
  OBVIOUS
<1>3. t \in C
  BY <1>1, <1>2 DEF Ancestors
<1>4. QED BY <1>3

\* A type that is defined means the same afterwards.
LEMMA DenotesSame ==
  ASSUME NEW current, NEW next, IsSchema(next), Evolves(current, next),
         NEW k \in Kinds(current),
         NEW type \in Primitive \cup DOMAIN current[k[1]].commonTypes
  PROVE  Denotes(next, k, type) = Denotes(current, k, type)
<1>1. k[1] \in DOMAIN current /\ k[1] \in DOMAIN next
  BY DEF Kinds, Evolves
<1>2. KeepsAll(current[k[1]].commonTypes, next[k[1]].commonTypes)
  BY <1>1 DEF Evolves
<1>3. DOMAIN next[k[1]].commonTypes \subseteq CommonType
  BY <1>1 DEF IsSchema, IsNamespaceDef
<1>4. CASE type \in DOMAIN current[k[1]].commonTypes
  BY <1>2, <1>4 DEF Denotes, KeepsAll
<1>5. CASE type \notin DOMAIN current[k[1]].commonTypes
  BY <1>3, <1>5, NameAssumption DEF Denotes
<1>6. QED BY <1>4, <1>5

\* A stored or projected entity that conforms to the active schema conforms to
\* every schema that the comparison lets through.
THEOREM EntitiesKept ==
  ASSUME NEW current, NEW next, IsSchema(next), Parses(current), Evolves(current, next),
         NEW e, Conforms(current, e)
  PROVE  Conforms(next, e)
<1> DEFINE k == e.kind
           old == Def(current, k).attributes
           new == Def(next, k).attributes
<1>1. k \in Kinds(current) /\ k \in Kinds(next)
  BY KindsGrow DEF Conforms
<1>2. EvolvesShape(Def(current, k), Def(next, k))
  BY <1>1, KindsGrow DEF EvolvesEntity
<1>3. /\ \A a \in DOMAIN old : a \in DOMAIN new /\ new[a] = old[a]
      /\ \A a \in DOMAIN new \ DOMAIN old : ~new[a].required
  BY <1>2 DEF EvolvesShape, KeepsAll
<1>4. ASSUME NEW a \in DOMAIN e.attrs
      PROVE  a \in DOMAIN new /\ e.attrs[a] = Denotes(next, k, new[a].type)
  <2>1. a \in DOMAIN old /\ e.attrs[a] = Denotes(current, k, old[a].type)
    BY DEF Conforms
  <2>2. old[a].type \in Primitive \cup DOMAIN current[k[1]].commonTypes
    BY <1>1, <2>1 DEF Parses
  <2>3. QED BY <1>1, <1>3, <2>1, <2>2, DenotesSame
<1>5. ASSUME NEW a \in DOMAIN new, new[a].required
      PROVE  a \in DOMAIN e.attrs
  BY <1>3, <1>5 DEF Conforms
<1>6. e.parents \subseteq Ancestors(next, k)
  BY <1>1, AncestorsGrow DEF Conforms
<1>7. QED BY <1>1, <1>4, <1>5, <1>6 DEF Conforms

\* A field without which the probe is refused is a required attribute.
LEMMA MissingRequired ==
  ASSUME NEW s, NEW t, NEW fields, NEW a \in fields,
         Conforms(s, Probe(t, fields)), ~Conforms(s, Probe(t, fields \ {a}))
  PROVE  LET d == Def(s, <<Root, t>>)
         IN  a \in DOMAIN d.attributes /\ d.attributes[a].required
<1> DEFINE p == Probe(t, fields)
           q == Probe(t, fields \ {a})
           k == <<Root, t>>
           d == Def(s, k)
<1>1. /\ p.kind = k /\ q.kind = k /\ q.parents = p.parents
      /\ DOMAIN p.attrs = fields /\ DOMAIN q.attrs = fields \ {a}
      /\ \A x \in fields \ {a} : q.attrs[x] = p.attrs[x]
  BY DEF Probe
<1>2. /\ k \in Kinds(s)
      /\ \A x \in fields : /\ x \in DOMAIN d.attributes
                           /\ p.attrs[x] = Denotes(s, k, d.attributes[x].type)
      /\ \A x \in DOMAIN d.attributes : d.attributes[x].required => x \in fields
      /\ p.parents \subseteq Ancestors(s, k)
  BY <1>1 DEF Conforms
<1>3. SUFFICES ASSUME ~d.attributes[a].required PROVE Conforms(s, q)
  BY <1>2
<1> HIDE DEF p, q, d, k
<1>4. q.kind = k /\ k \in Kinds(s) /\ d = Def(s, q.kind)
  BY <1>1, <1>2 DEF d
<1>5. \A x \in DOMAIN q.attrs : /\ x \in DOMAIN d.attributes
                                /\ q.attrs[x] = Denotes(s, q.kind, d.attributes[x].type)
  BY <1>1, <1>2
<1>6. \A x \in DOMAIN d.attributes : d.attributes[x].required => x \in DOMAIN q.attrs
  BY <1>1, <1>2, <1>3
<1>7. QED BY <1>1, <1>2, <1>4, <1>5, <1>6 DEF Conforms

\* An application whose schema satisfies the identity contract keeps it through
\* publications, though validate_schema_evolution does not know of it.
THEOREM ContractKept ==
  ASSUME NEW current, NEW next, IsSchema(next), Parses(current), Evolves(current, next),
         Ready(current)
  PROVE  Ready(next)
<1> SUFFICES ASSUME NEW t \in {"User", "Group", "Role"}
             PROVE  /\ <<Root, t>> \in Kinds(next)
                    /\ Memberships[t] \subseteq Def(next, <<Root, t>>).memberOfTypes
                    /\ Conforms(next, Probe(t, Fields[t]))
                    /\ \A a \in Fields[t] : ~Conforms(next, Probe(t, Fields[t] \ {a}))
  BY DEF Ready
<1> DEFINE k == <<Root, t>>
<1>1. /\ k \in Kinds(current)
      /\ Memberships[t] \subseteq Def(current, k).memberOfTypes
      /\ Conforms(current, Probe(t, Fields[t]))
      /\ \A a \in Fields[t] : ~Conforms(current, Probe(t, Fields[t] \ {a}))
  BY DEF Ready
<1>2. k \in Kinds(next) /\ EvolvesEntity(Def(current, k), Def(next, k))
  BY <1>1, KindsGrow
<1>3. Conforms(next, Probe(t, Fields[t]))
  BY <1>1, EntitiesKept
<1>4. ASSUME NEW a \in Fields[t], Conforms(next, Probe(t, Fields[t] \ {a})) PROVE FALSE
  <2>1. /\ a \in DOMAIN Def(current, k).attributes
        /\ Def(current, k).attributes[a].required
    BY <1>1, MissingRequired
  <2>2. /\ a \in DOMAIN Def(next, k).attributes
        /\ Def(next, k).attributes[a].required
    BY <1>2, <2>1 DEF EvolvesEntity, EvolvesShape, KeepsAll
  <2>3. DOMAIN Probe(t, Fields[t] \ {a}).attrs = Fields[t] \ {a} /\ Probe(t, Fields[t] \ {a}).kind = k
    BY DEF Probe
  <2>4. QED BY <1>4, <2>2, <2>3 DEF Conforms
<1>5. QED BY <1>1, <1>2, <1>3, <1>4 DEF EvolvesEntity

-----------------------------------------------------------------------------
(* The application.                                                        *)

\* The two theorems as the one relation that PolicyLifecycle assumes.
LEMMA Compatible ==
  ASSUME NEW current, NEW next \in Draft, Parses(current), Evolves(current, next)
  PROVE  BackwardCompatible(current, next)
  BY DraftAssumption, EntitiesKept, ContractKept DEF BackwardCompatible

LEMMA PublishStep ==
  ASSUME IInv, NEW s \in Draft, Publish(s)
  PROVE  IInv'
<1> USE DEF IInv, Publish
<1>1. TypeOK'
  BY DEF TypeOK
<1>2. (\A p \in published' : Parses(p)) /\ active' \in published' /\ active' # NoSchema
  BY DraftAssumption
<1>3. StoreReadable'
  <2>1. CASE active = NoSchema
    BY <2>1 DEF StoreReadable
  <2>2. CASE active # NoSchema
    <3>1. Parses(active) /\ Evolves(active, s) /\ IsSchema(s)
      BY <2>2, DraftAssumption
    <3>2. QED BY <2>2, <3>1, <1>2, EntitiesKept DEF StoreReadable
  <2>3. QED BY <2>1, <2>2
<1>4. EvolvesFromBase'
  BY EvolutionReflexive, EvolutionTransitive DEF EvolvesFromBase
<1>5. QED BY <1>1, <1>2, <1>3, <1>4

LEMMA ActivateStep ==
  ASSUME IInv, NEW s \in published, Activate(s)
  PROVE  IInv'
<1> USE DEF IInv, Activate
<1>1. s \in Draft /\ s # NoSchema
  BY DraftAssumption DEF TypeOK
<1>2. TypeOK'
  BY <1>1 DEF TypeOK
<1>3. StoreReadable' /\ EvolvesFromBase'
  BY <1>1, EvolutionReflexive DEF StoreReadable, EvolvesFromBase
<1>4. QED BY <1>1, <1>2, <1>3

LEMMA UpsertStep ==
  ASSUME IInv, NEW r \in Resource, NEW properties \in Property, Upsert(r, properties)
  PROVE  IInv'
<1> DEFINE attrs == [a \in DOMAIN properties \cup {"organization_id"} |->
                        IF a = "organization_id" THEN "String" ELSE properties[a]]
<1>1. /\ active # NoSchema
      /\ Conforms(active, AsEntity(r, attrs))
      /\ stored' = [k \in DOMAIN stored \cup {r} |-> IF k = r THEN attrs ELSE stored[k]]
      /\ UNCHANGED <<published, active, assigned, base>>
  BY DEF Upsert
<1>2. IsAttrs(attrs)
  BY EntityAssumption, NameAssumption DEF IsAttrs
<1> HIDE DEF attrs
<1>3. TypeOK'
  BY <1>1, <1>2 DEF IInv, TypeOK
<1>4. StoreReadable'
  BY <1>1 DEF IInv, StoreReadable
<1>5. QED BY <1>1, <1>3, <1>4 DEF IInv, EvolvesFromBase

LEMMA OtherSteps ==
  ASSUME IInv, (\E r \in Resource : Delete(r)) \/ Assign \/ Unassign \/ UNCHANGED vars
  PROVE  IInv'
<1>1. CASE \E r \in Resource : Delete(r)
  <2>1. PICK r \in Resource : Delete(r)
    BY <1>1
  <2>2. /\ active # NoSchema
        /\ stored' = [k \in DOMAIN stored \ {r} |-> stored[k]]
        /\ UNCHANGED <<published, active, assigned, base>>
    BY <2>1 DEF Delete
  <2>3. TypeOK'
    BY <2>2 DEF IInv, TypeOK
  <2>4. StoreReadable'
    BY <2>2 DEF IInv, StoreReadable
  <2>5. QED BY <2>2, <2>3, <2>4 DEF IInv, EvolvesFromBase
<1>2. CASE Assign \/ Unassign \/ UNCHANGED vars
  <2>1. UNCHANGED <<published, active, stored, base>>
    BY <1>2 DEF Assign, Unassign, vars
  <2>2. assigned' \in BOOLEAN
    BY <1>2, Zenon DEF Assign, Unassign, vars, IInv, TypeOK
  <2>3. TypeOK'
    BY <2>1, <2>2 DEF IInv, TypeOK
  <2>4. QED BY <2>1, <2>3 DEF IInv, StoreReadable, EvolvesFromBase
<1>3. QED BY <1>1, <1>2

LEMMA InitIInv == Init => IInv
  BY DEF Init, IInv, TypeOK, StoreReadable, EvolvesFromBase

LEMMA NextKeeps == ASSUME IInv, [Next]_vars PROVE IInv'
  BY PublishStep, ActivateStep, UpsertStep, OtherSteps DEF Next

\* The inductive invariant, for any schemas and any sequence of publications,
\* rollbacks and synchronized resources.
THEOREM Invariance == Spec => []IInv
<1>1. QED BY InitIInv, NextKeeps, PTL DEF Spec

\* No publication or rollback leaves a stored resource behind that the active
\* schema refuses.
THEOREM StoreStaysReadable == Spec => []StoreReadable
<1>1. IInv => StoreReadable
  BY DEF IInv
<1>2. QED BY <1>1, Invariance, PTL

\* The active schema evolves the one the publications since a rollback began from.
THEOREM EvolvesThroughout == Spec => []EvolvesFromBase
<1>1. IInv => EvolvesFromBase
  BY DEF IInv
<1>2. QED BY <1>1, Invariance, PTL

\* A publication refuses no entity that the schema before it accepted and keeps
\* the identity contract.
THEOREM PublicationsTakeNothing == Spec => PublicationsKeep
<1>1. ASSUME IInv, NEW s \in Draft, Publish(s), active # NoSchema
      PROVE  BackwardCompatible(active, active')
  <2>1. Parses(active) /\ Evolves(active, s) /\ active' = s
    BY <1>1 DEF IInv, Publish
  <2>2. QED BY <2>1, Compatible
<1>2. ASSUME IInv
      PROVE  (\E s \in Draft : Publish(s)) /\ active # NoSchema
                 => BackwardCompatible(active, active')
  BY <1>1, <1>2
<1>3. QED BY <1>2, Invariance, PTL DEF PublicationsKeep
=============================================================================
