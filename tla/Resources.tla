----------------------------- MODULE Resources -----------------------------
(***************************************************************************)
(* What a resource class becomes (flama.resources.resource, rest, crud and *)
(* routing): the model, the schemas and the filters it declares or takes   *)
(* from its bases, the methods it gets, and the routes that serve them.    *)
(*                                                                         *)
(* A hierarchy is a function from class names to what is written in them:  *)
(* bases, the order Python looks attributes up in (external), the          *)
(* attributes in the body, and the methods in it: a route with its         *)
(* pagination, or a plain function.                                        *)
(***************************************************************************)
EXTENDS Filtering

\* ResourceType._get_mro: every class, then its own ancestors, first seen first.
AttributeOrder(h, classes) ==
    LET FirstSeen(order) ==
            FoldLeft(LAMBDA seen, c : IF c \in Range(seen) THEN seen ELSE Append(seen, c), <<>>, order)
        ancestors[c \in DOMAIN h] ==
            LET mro == Tail(h[c].mro)
            IN  FirstSeen(FlattenSeq([i \in DOMAIN mro |-> <<mro[i]>> \o ancestors[mro[i]]]))
    IN  FirstSeen(FlattenSeq([i \in DOMAIN classes |-> <<classes[i]>> \o ancestors[classes[i]]]))

Writes(h, c, attribute) == attribute \in DOMAIN h[c].body

\* The first of a sequence, if it has one.
First(s) == SubSeq(s, 1, Cardinality({1} \cap DOMAIN s))

\* A base has what its own class was made with, or what is left in a body.
\* made gives what the bases were made into.
Offers(h, made, b, attribute) ==
    IF h[b].abstract THEN <<>>
    ELSE IF attribute \in {"model", "schemas", "filters"} THEN made[b][attribute]
    ELSE LET left == First(SelectSeq(h[b].mro, LAMBDA a : ~h[a].abstract /\ attribute \in made[a].left))
         IN  [i \in DOMAIN left |-> h[left[i]].body[attribute]]

AllOffers(h, made, c, attribute) ==
    FoldLeft(LAMBDA offered, b : offered \o Offers(h, made, b, attribute), <<>>, AttributeOrder(h, h[c].bases))

\* Mutant of Inherited: the bases are asked farthest first.
InheritedFarthest(h, made, c, attribute) == First(Reverse(AllOffers(h, made, c, attribute)))

Inherited(h, made, c, attribute) == First(AllOffers(h, made, c, attribute))

\* ResourceType._get_attribute.
Found(h, made, c, attribute) ==
    IF Writes(h, c, attribute) THEN <<h[c].body[attribute]>> ELSE Inherited(h, made, c, attribute)

\* Attributes of a body that are not popped when its class is made: of a pair
\* that is not whole only the input is taken.
Pairs == {"input_schema", "output_schema"}
Left(h, c, input, output) ==
    DOMAIN h[c].body \
        ({"model", "filters", "input_schema"}
         \cup IF input # <<>> /\ output # <<>> THEN {"output_schema"}
              ELSE IF input = <<>> THEN {"schema"} ELSE {"schema", "output_schema"})

\* RESTResourceType._get_model: a table needs one key of a type it can carry.
KeyTypes == {"int", "str", "date", "uuid"}
ModelOf(found) ==
    IF found = <<>> \/ "key" \in DOMAIN Head(found) THEN found
    ELSE LET written == Head(found) IN
         IF Cardinality(written.keys) # 1 THEN Refused
         ELSE LET key == CHOOSE k \in written.keys : TRUE
              IN  IF written.columns[key].type \notin KeyTypes THEN Refused
                  ELSE <<[name |-> written.name, columns |-> written.columns, key |-> key]>>

Both(schema) == [i \in DOMAIN schema |-> [input |-> schema[i], output |-> schema[i]]]

\* RESTResourceType._get_schemas: the pair, the one for both, or a base's.
SchemasOf(h, made, c, input, output) ==
    IF input # <<>> /\ output # <<>> THEN <<[input |-> Head(input), output |-> Head(output)]>>
    ELSE First(Both(Found(h, made, c, "schema")) \o Found(h, made, c, "schemas"))

\* RESTResourceType._get_filters: a base's are taken as they were built.
FiltersOf(h, made, c, model) ==
    IF model = Refused THEN Refused
    ELSE IF Writes(h, c, "filters") THEN Build(Head(model), <<h[c].body.filters>>)
    ELSE First(Inherited(h, made, c, "filters") \o Build(Head(model), <<>>))

\* CRUDResourceType.METHODS and their routes.
METHODS == {"create", "retrieve", "update", "partial_update", "delete",
            "list", "replace", "partial_replace", "drop"}

\* _build_methods and _build_routes: what is not written gets the method of the
\* metaclass, and only what was made a route is one. Bases are not asked.
MethodsOf(h, c) ==
    LET written == h[c].methods
        routed == {m \in DOMAIN written : written[m] # "plain"}
    IN  [m \in routed \cup (METHODS \ DOMAIN written) |->
            IF m \in routed THEN written[m] ELSE IF m = "list" THEN "page_number" ELSE None]

\* RESTResourceType.__new__; the class is refused with its first error.
NewClass(h, made, c, model, input, output) ==
    [model |-> model, schemas |-> SchemasOf(h, made, c, input, output),
     filters |-> FiltersOf(h, made, c, model),
     methods |-> MethodsOf(h, c), left |-> Left(h, c, input, output)]

\* What each class of the hierarchy is made into, its bases before it.
Classes(h) ==
    LET made[c \in DOMAIN h] ==
            NewClass(h, made, c, ModelOf(Found(h, made, c, "model")),
                  Found(h, made, c, "input_schema"), Found(h, made, c, "output_schema"))
    IN  made
Made(h, c) == Classes(h)[c]

Creates(h, c) ==
    \A b \in Range(h[c].mro) : h[b].abstract \/
        \A part \in {"model", "schemas", "filters"} : Made(h, b)[part] # Refused

\* ResourcesModule.add_resource and ResourceRoute: tags name methods it has.
Serves(h, c, tags) == ~h[c].abstract /\ Creates(h, c) /\ tags \subseteq DOMAIN Made(h, c).methods

-----------------------------------------------------------------------------
(* What a reader of the class expects *)

\* The nearest class, in Python's order, that says something of the kind.
Nearest(h, c, says(_)) == SelectSeq(h[c].mro, LAMBDA b : ~h[b].abstract /\ says(b))[1]

\* A class has the model, the schemas and the filters declared nearest to it,
\* as if they were plain attributes, and its filters are on its own table.
InheritsNearest(h, c) ==
    LET made == Made(h, c)
        modelled == Nearest(h, c, LAMBDA b : Writes(h, b, "model"))
        schemed == Nearest(h, c, LAMBDA b : DOMAIN h[b].body \cap ({"schema"} \cup Pairs) # {})
        declared == SelectSeq(h[c].mro, LAMBDA b : ~h[b].abstract /\ Writes(h, b, "filters"))
        body == h[schemed].body
    IN  /\ made.model = ModelOf(<<h[modelled].body.model>>)
        /\ made.schemas = IF Pairs \subseteq DOMAIN body
                          THEN <<[input |-> body.input_schema, output |-> body.output_schema]>>
                          ELSE <<[input |-> body.schema, output |-> body.schema]>>
        /\ made.filters = Build(Head(made.model), IF declared = <<>> THEN <<>>
                                                  ELSE <<h[Head(declared)].body.filters>>)
=============================================================================
