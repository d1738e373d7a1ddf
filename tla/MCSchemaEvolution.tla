-------------------------- MODULE MCSchemaEvolution --------------------------
EXTENDS SchemaEvolution, TLC

\* A namespace of the application beside the root, one business type, one
\* attribute of its own beside the tenant.
MCAttribute == {"organization_id", "email", "role", "kind", "application_id", "title"}

Text(required) == [required |-> required, type |-> "String"]
Strings(fields) == [a \in fields |-> Text(TRUE)]
Type(attributes, parents) ==
    [shaped |-> TRUE, attributes |-> attributes, memberOfTypes |-> parents, other |-> "none"]

\* The root namespace: the contract, the contract with an optional attribute,
\* and one without the Roles of a user.
Managed(user, parents) ==
    [commonTypes |-> <<>>, actions |-> <<>>,
     entityTypes |-> [User |-> Type(user, parents),
                      Group |-> Type(Strings(Fields["Group"]), Memberships["Group"]),
                      Role |-> Type(Strings(Fields["Role"]), {})]]
Roots ==
    {Managed(Strings(Fields["User"]), Memberships["User"]),
     Managed(Strings(Fields["User"]) @@ ("title" :> Text(FALSE)), Memberships["User"]),
     Managed(Strings(Fields["User"]), {<<Root, "Group">>})}

\* The application's namespace, with a document that has a title of some type.
Titles == {<<>>, "title" :> Text(FALSE), "title" :> Text(TRUE),
           "title" :> [required |-> FALSE, type |-> "Long"],
           "title" :> [required |-> FALSE, type |-> "Name"]}
Shop(common, title) ==
    [commonTypes |-> common, actions |-> "read" :> "none",
     entityTypes |-> "Doc" :> Type(Strings({"organization_id"}) @@ title, {})]
Shops == {Shop(<<>>, title) : title \in Titles}
           \cup {Shop("Name" :> type, title) : type \in {"String", "Long"}, title \in Titles}

\* The namespaces are compared one by one: only one of them varies at a time.
Contract == Managed(Strings(Fields["User"]), Memberships["User"])
MCDraft == {s \in {"root" :> root @@ "shop" :> Shop(<<>>, <<>>) : root \in Roots}
                    \cup {"root" :> Contract @@ "shop" :> shop : shop \in Shops} : Parses(s)}

\* The managed entities, complete, with a title, and each field of one missing;
\* documents; some of them with a parent.
Attrs ==
    LET whole == UNION {{Fields[t]} \cup {Fields[t] \ {a} : a \in Fields[t]} : t \in DOMAIN Fields}
                   \cup {{"organization_id"}}
    IN  {[a \in fields |-> "String"] : fields \in whole}
          \cup {[a \in fields |-> "String"] @@ ("title" :> type) :
                    fields \in whole, type \in Primitive}
MCEntity ==
    [kind : Reserved \cup {<<"shop", "Doc">>}, attrs : Attrs,
     parents : {{}} \cup {Memberships[t] : t \in DOMAIN Memberships}]

MCProperty == {<<>>} \cup {"title" :> type : type \in Primitive}

MCKindOf == [r \in Resource |-> <<"shop", "Doc">>]
=============================================================================
