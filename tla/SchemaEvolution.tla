--------------------------- MODULE SchemaEvolution ---------------------------
(***************************************************************************)
(* What a Cedar schema says, as far as the service compares it: the check  *)
(* of a publication against the active schema (validate_schema_evolution), *)
(* the User/Group/Role contract (validate_schema_contract), the check of a *)
(* resource (validate_stored_resource), and one application whose releases *)
(* and resources they guard.  PolicyLifecycle treats the schemas as opaque *)
(* and has the races; here one call follows the other.                     *)
(***************************************************************************)
EXTENDS Naturals, FiniteSets

CONSTANTS
    Namespace, Root,     \* namespaces; Root is the empty name
    EntityType,          \* unqualified names of entity types
    Attribute,
    Primitive,           \* types that need no definition, and entity references
    CommonType,          \* names of common types
    Definition,          \* whatever is only compared for equality
    Action,
    Draft,               \* the schemas that administrators save
    Entity,              \* the entities there may be
    Property,            \* what a resource may be synchronized with
    Resource,            \* keys of business resources
    KindOf,              \* their entity type
    MaxReleases,         \* bound on the different schemas published
    NoSchema

Kind == Namespace \X EntityType
Reserved == {Root} \X {"User", "Group", "Role"}

\* An entity type has, or not, a shape with attributes, the types its entities
\* may have for parents, and other keys.  A namespace defines some names.
AttributeDef == [required : BOOLEAN, type : Primitive \cup CommonType]

IsEntityDef(d) ==
    /\ d \in [shaped : BOOLEAN, attributes : {d.attributes}, memberOfTypes : SUBSET Kind,
              other : Definition]
    /\ DOMAIN d.attributes \subseteq Attribute
    /\ d.attributes \in [DOMAIN d.attributes -> AttributeDef]

IsNamespaceDef(n) ==
    /\ DOMAIN n.commonTypes \subseteq CommonType
    /\ n.commonTypes \in [DOMAIN n.commonTypes -> Primitive]
    /\ DOMAIN n.actions \subseteq Action
    /\ n.actions \in [DOMAIN n.actions -> Definition]
    /\ DOMAIN n.entityTypes \subseteq EntityType
    /\ \A t \in DOMAIN n.entityTypes : IsEntityDef(n.entityTypes[t])

IsSchema(s) == DOMAIN s \subseteq Namespace /\ \A n \in DOMAIN s : IsNamespaceDef(s[n])

\* An entity: the types of its attributes' values and those of its parents.
IsAttrs(f) == DOMAIN f \subseteq Attribute /\ f \in [DOMAIN f -> Primitive]
IsEntity(e) == /\ e \in [kind : Kind, attrs : {e.attrs}, parents : SUBSET Kind]
               /\ IsAttrs(e.attrs)

ASSUME NameAssumption ==
    /\ Root \in Namespace
    /\ {"User", "Group", "Role"} \subseteq EntityType
    /\ {"organization_id", "email", "role", "kind", "application_id"} \subseteq Attribute
    /\ "String" \in Primitive
    /\ Primitive \cap CommonType = {}
ASSUME DraftAssumption == NoSchema \notin Draft /\ \A s \in Draft : IsSchema(s)
ASSUME EntityAssumption ==
    (\A e \in Entity : IsEntity(e)) /\ (\A f \in Property : IsAttrs(f))
ASSUME ResourceAssumption == KindOf \in [Resource -> Kind \ Reserved]
ASSUME ReleasesAssumption == MaxReleases \in Nat

VARIABLES
    published,  \* the schemas of the releases
    active,     \* that of the active release
    stored,     \* application_resources: the attributes of a key
    assigned,   \* whether the application has role assignments
    base        \* history: the schema the publications since go back to

vars == <<published, active, stored, assigned, base>>

-----------------------------------------------------------------------------
(* Entities under a schema, as the Cedar library sees them.                *)

Kinds(s) == {k \in Kind : k[1] \in DOMAIN s /\ k[2] \in DOMAIN s[k[1]].entityTypes}

Def(s, k) == s[k[1]].entityTypes[k[2]]

Denotes(s, k, type) ==
    IF type \in DOMAIN s[k[1]].commonTypes THEN s[k[1]].commonTypes[type] ELSE type

\* Every name is defined.
Parses(s) ==
    \A k \in Kinds(s) :
        LET d == Def(s, k)
        IN  /\ d.memberOfTypes \subseteq Kinds(s)
            /\ \A a \in DOMAIN d.attributes :
                   d.attributes[a].type \in Primitive \cup DOMAIN s[k[1]].commonTypes

\* The types above k in the hierarchy: what every set that holds the parents of
\* k, and with a type its parents, has in it.
Ancestors(s, k) ==
    {t \in Kinds(s) : \A S \in SUBSET Kinds(s) :
        (\A u \in S \cup {k} : Def(s, u).memberOfTypes \cap Kinds(s) \subseteq S) => t \in S}

\* Entities::from_json_value with the schema.
Conforms(s, e) ==
    /\ e.kind \in Kinds(s)
    /\ \A a \in DOMAIN e.attrs :
           /\ a \in DOMAIN Def(s, e.kind).attributes
           /\ e.attrs[a] = Denotes(s, e.kind, Def(s, e.kind).attributes[a].type)
    /\ \A a \in DOMAIN Def(s, e.kind).attributes :
           Def(s, e.kind).attributes[a].required => a \in DOMAIN e.attrs
    /\ e.parents \subseteq Ancestors(s, e.kind)

-----------------------------------------------------------------------------
(* The comparison of a publication's schema with the active one.           *)

\* Mutant of KeepsAll: what the next schema no longer has is not looked at.
KeepsCommon(current, next) ==
    \A x \in DOMAIN current : x \in DOMAIN next => next[x] = current[x]

\* Definitions that can be added and neither removed nor changed.
KeepsAll(current, next) ==
    \A x \in DOMAIN current : x \in DOMAIN next /\ next[x] = current[x]

\* Mutant of EvolvesShape: any attribute may be added.
EvolvesShapeAnyhow(current, next) == KeepsAll(current.attributes, next.attributes)

EvolvesShape(current, next) ==
    /\ KeepsAll(current.attributes, next.attributes)
    /\ \A a \in DOMAIN next.attributes \ DOMAIN current.attributes :
           ~next.attributes[a].required

\* Mutant of EvolvesEntity: parent types may be removed.
EvolvesOrphaned(current, next) ==
    /\ next.shaped = current.shaped
    /\ EvolvesShape(current, next)
    /\ next.other = current.other

EvolvesEntity(current, next) ==
    /\ next.shaped = current.shaped
    /\ EvolvesShape(current, next)
    /\ current.memberOfTypes \subseteq next.memberOfTypes
    /\ next.other = current.other

Evolves(current, next) ==
    \A n \in DOMAIN current :
        /\ n \in DOMAIN next
        /\ KeepsAll(current[n].commonTypes, next[n].commonTypes)
        /\ KeepsAll(current[n].actions, next[n].actions)
        /\ \A t \in DOMAIN current[n].entityTypes :
               /\ t \in DOMAIN next[n].entityTypes
               /\ EvolvesEntity(current[n].entityTypes[t], next[n].entityTypes[t])

-----------------------------------------------------------------------------
(* The contract of the managed identity types.                             *)

\* require_membership
Memberships == [User |-> {<<Root, "Group">>, <<Root, "Role">>},
                Group |-> {<<Root, "Role">>},
                Role |-> {}]

Fields == [User |-> {"organization_id", "email", "role"},
           Group |-> {"organization_id", "kind"},
           Role |-> {"organization_id", "application_id"}]

\* iam_probe_entities, some of their fields only.
Probe(t, fields) == [kind |-> <<Root, t>>,
                     attrs |-> [a \in fields |-> "String"],
                     parents |-> Memberships[t]]

Ready(s) ==
    \A t \in {"User", "Group", "Role"} :
        /\ <<Root, t>> \in Kinds(s)
        /\ Memberships[t] \subseteq Def(s, <<Root, t>>).memberOfTypes
        /\ Conforms(s, Probe(t, Fields[t]))
        /\ \A a \in Fields[t] : ~Conforms(s, Probe(t, Fields[t] \ {a}))

-----------------------------------------------------------------------------
(* The application.                                                        *)

\* A resource as an entity.
AsEntity(r, attrs) == [kind |-> KindOf[r], attrs |-> attrs, parents |-> {}]

Init ==
    /\ published = {}
    /\ active = NoSchema
    /\ stored = [r \in {} |-> {}]
    /\ assigned = FALSE
    /\ base = NoSchema

\* validate_policy_candidate, and the comparison.
Publish(s) ==
    /\ Cardinality(published \cup {s}) <= MaxReleases
    /\ Parses(s)
    /\ assigned => Ready(s)
    /\ active # NoSchema => Evolves(active, s)
    /\ published' = published \cup {s}
    /\ active' = s
    /\ base' = IF active = NoSchema THEN s ELSE base
    /\ UNCHANGED <<stored, assigned>>

\* A rollback need not evolve the active schema: the stored resources are
\* checked one by one.
Activate(s) ==
    /\ assigned => Ready(s)
    /\ \A r \in DOMAIN stored : Conforms(s, AsEntity(r, stored[r]))
    /\ active' = s
    /\ base' = s
    /\ UNCHANGED <<published, stored, assigned>>

\* The tenant is added to the properties, which must not have it.
Upsert(r, properties) ==
    LET attrs == [a \in DOMAIN properties \cup {"organization_id"} |->
                     IF a = "organization_id" THEN "String" ELSE properties[a]]
    IN  /\ active # NoSchema
        /\ "organization_id" \notin DOMAIN properties
        /\ Conforms(active, AsEntity(r, attrs))
        /\ stored' = [k \in DOMAIN stored \cup {r} |-> IF k = r THEN attrs ELSE stored[k]]
        /\ UNCHANGED <<published, active, assigned, base>>

Delete(r) ==
    /\ active # NoSchema
    /\ r \in DOMAIN stored
    /\ stored' = [k \in DOMAIN stored \ {r} |-> stored[k]]
    /\ UNCHANGED <<published, active, assigned, base>>

\* The first assignment, and the removal of the last.
Assign ==
    /\ active # NoSchema /\ Ready(active)
    /\ assigned' = TRUE
    /\ UNCHANGED <<published, active, stored, base>>

Unassign ==
    /\ assigned' = FALSE
    /\ UNCHANGED <<published, active, stored, base>>

Next ==
    \/ \E s \in Draft : Publish(s)
    \/ \E s \in published : Activate(s)
    \/ \E r \in Resource : Delete(r) \/ \E properties \in Property : Upsert(r, properties)
    \/ Assign
    \/ Unassign

Spec == Init /\ [][Next]_vars

-----------------------------------------------------------------------------
(* Properties.                                                             *)

TypeOK ==
    /\ published \subseteq Draft
    /\ active \in Draft \cup {NoSchema}
    /\ DOMAIN stored \subseteq Resource
    /\ \A r \in DOMAIN stored : IsAttrs(stored[r])
    /\ assigned \in BOOLEAN
    /\ base \in Draft \cup {NoSchema}

\* Every stored resource is an entity of the active schema, whatever was
\* published and rolled back since it was stored: an evaluation that loads it
\* does not fail on it.
StoreReadable ==
    \A r \in DOMAIN stored : active # NoSchema /\ Conforms(active, AsEntity(r, stored[r]))

\* However many publications lie between, the active schema evolves the first of
\* them: the comparison of neighbours is enough.
EvolvesFromBase ==
    active # NoSchema => Evolves(base, active)

\* The inductive invariant: the releases are schemas that Cedar parses.
IInv ==
    /\ TypeOK
    /\ \A s \in published : Parses(s)
    /\ active \in published \cup {NoSchema}
    /\ active = NoSchema => stored = [r \in {} |-> {}]
    /\ StoreReadable
    /\ EvolvesFromBase

\* What PolicyLifecycle takes a schema comparison to mean.
BackwardCompatible(current, next) ==
    /\ \A e \in Entity : Conforms(current, e) => Conforms(next, e)
    /\ Ready(current) => Ready(next)

\* A publication takes nothing away: entities that conformed conform, and an
\* application that could have role assignments still can.
PublicationsKeep == [][(\E s \in Draft : Publish(s)) /\ active # NoSchema
                           => BackwardCompatible(active, active')]_vars
=============================================================================
