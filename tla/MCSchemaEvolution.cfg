\* Publications and rollbacks of up to three schemas around one stored document.
SPECIFICATION Spec
CONSTANTS
    Namespace = {"root", "shop"}
    Root = "root"
    EntityType = {"User", "Group", "Role", "Doc"}
    Attribute <- MCAttribute
    Primitive = {"String", "Long"}
    CommonType = {"Name"}
    Definition = {"none"}
    Action = {"read"}
    Draft <- MCDraft
    Entity <- MCEntity
    Property <- MCProperty
    Resource = {doc}
    KindOf <- MCKindOf
    MaxReleases = 3
    NoSchema = NoSchema
INVARIANTS
    StoreReadable
    EvolvesFromBase
PROPERTIES
    PublicationsKeep
