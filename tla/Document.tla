------------------------------ MODULE Document ------------------------------
(* The OpenAPI document of an application (flama/schemas/openapi.py, registry.py, modules.py): a function of  *)
(* its route tables, made again each time it is asked for. Schemas are values, a reference is the name it     *)
(* ends with, and of an operation the parameters, the body and the references are kept.                       *)
EXTENDS Handlers

CONSTANTS
    SchemaFields,    \* schema |-> its fields that hold schemas: [shape, of]
    ComponentName,   \* schema |-> the name it is registered with
    ShortName,       \* schema |-> the last part of its own name
    Library,         \* the schemas of the library and of the modules, all registered
    ErrorSchema,     \* the schema of every operation's "default" response
    Queries,         \* the queries a request may come with
    Bodies           \* and the bodies

ASSUME DocumentAssumption ==
    /\ ErrorSchema \in ToSet(Library)
    /\ ToSet(Library) \subseteq DOMAIN SchemaFields
    /\ \A s, r \in DOMAIN SchemaFields : ComponentName[s] = ComponentName[r] => s = r
----------------------------------------------------------------------------
(* The registry: the schemas in the order they were registered. *)

(* Schema.nested_schemas: it goes through lists, mappings and unions, but not into a list inside a union. *)
Nested(s) ==
    LET seen == SelectSeq(SchemaFields[s], LAMBDA f : f.shape # "optional list") IN [i \in DOMAIN seen |-> seen[i].of]

RECURSIVE Register(_, _)
Register(registry, s) ==
    FoldLeft(LAMBDA r, x : IF x \in ToSet(r) THEN r ELSE Register(r, x), Append(registry, s), Nested(s))

RegisterOnce(registry, schemas) ==
    FoldLeft(LAMBDA r, s : IF s \in ToSet(r) THEN r ELSE Register(r, s), registry, schemas)

(* Schema.json_schema: the adapter writes a reference with the short name of a schema, and with a name of its *)
(* own when two nested ones share it; _fix_ref replaces the short names of the nested ones.                   *)
ReferenceTo(s, x) ==
    LET known == {y \in ToSet(Nested(s)) : ShortName[y] = ShortName[x]}
    IN  CASE known = {} -> ShortName[x]
          [] Cardinality(known) = 1 -> ComponentName[CHOOSE y \in known : TRUE]
          [] OTHER -> "another " \o ShortName[x]

References(s) == {ReferenceTo(s, f.of) : f \in ToSet(SchemaFields[s])}

(* _get_schema_references_from_schema: properties, items and unions, not the values of a mapping. *)
FoundReferences(s) == {ReferenceTo(s, f.of) : f \in {f \in ToSet(SchemaFields[s]) : f.shape # "mapping"}}
----------------------------------------------------------------------------
(* SchemaGenerator.get_endpoints *)
DocumentedMethods(route) ==
    IF route.class THEN WithHead(route.methods) \cap DOMAIN route.endpoint ELSE WithHead(route.methods) \ {"HEAD"}

HandlerOf(route, method) == route.endpoint[method]

NoEndpoints == [p \in {} |-> <<>>]

EndpointsOfRoute(route, chain) ==
    LET methods == SetToSeq(DocumentedMethods(route))
    IN  [i \in DOMAIN methods |-> [method |-> methods[i], route |-> route, chain |-> chain]]

(* A path of a mount replaces what the routes before it had gathered under the same path. *)
RECURSIVE Endpoints(_, _, _)
Gathered(info, route, path, chain) ==
    CASE route.kind = "http" /\ route.included ->
            (path :> ((IF path \in DOMAIN info THEN info[path] ELSE <<>>) \o EndpointsOfRoute(route, chain))) @@ info
      [] route.kind = "mount" /\ AppKind[route.app] # "asgi" -> Endpoints(route.app, path, chain) @@ info
      [] OTHER -> info
Endpoints(router, base, above) ==
    FoldLeft(LAMBDA info, i : Gathered(info, tables[router][i], Template(Concat(base, tables[router][i].path)),
                                       Append(above, [router |-> router, index |-> i])),
             NoEndpoints, [i \in DOMAIN tables[router] |-> i])
----------------------------------------------------------------------------
(* SchemaGenerator.get_operation_schema, and what it adds to the registry. *)
DocumentedParameters(route, handler) ==
    SelectSeq(QueryOf(route, handler) \o PathOf(route, handler), LAMBDA p : p.schema = {})

SchemasOf(route, handler) ==
    LET body == BodyOf(route, handler)
        given == Signature[handler].returns
    IN  (IF body = <<>> THEN <<>> ELSE SetToSeq(Head(body).schema)) \o SetToSeq(given.schema)

Operation(endpoint, route, handler) ==
    [endpoint |-> endpoint, handler |-> handler,
     parameters |-> DocumentedParameters(route, handler), body |-> BodyOf(route, handler),
     references |-> {ComponentName[s] : s \in ToSet(SchemasOf(route, handler)) \cup {ErrorSchema}}
                    \cup Signature[handler].doc.references]
OperationOf(endpoint) == Operation(endpoint, endpoint.route, HandlerOf(endpoint.route, endpoint.method))

(* A docstring that is no YAML at all raises past get_operation_schema: the operation is left out. *)
Describable(endpoint) == Signature[HandlerOf(endpoint.route, endpoint.method)].doc.parses

EndpointsByPath == Endpoints(Top, <<>>, <<>>)

AllEndpoints == FlattenSeq(LET info == EndpointsByPath
                               paths == SetToSeq(DOMAIN info)
                           IN  [i \in DOMAIN paths |-> info[paths[i]]])

Registry ==
    FoldLeft(LAMBDA r, e : RegisterOnce(r, IF Describable(e) THEN SchemasOf(e.route, HandlerOf(e.route, e.method))
                                  ELSE <<>>),
             RegisterOnce(<<>>, Library), AllEndpoints)

(* The paths of the document: of two endpoints with one method the later one is described. *)
OperationsOf(described) ==
    [m \in {described[i].method : i \in DOMAIN described} |->
        OperationOf(described[SelectLastInSeq(described, LAMBDA e : e.method = m)])]
Operations(path) == OperationsOf(SelectSeq(EndpointsByPath[path], Describable))

DocumentPaths == {p \in DOMAIN EndpointsByPath : DOMAIN Operations(p) # {}}
----------------------------------------------------------------------------
(* OpenAPISchemaRegistry.used: by name from the operations, then from schema to schema, then the nested ones. *)
Closure(start, Step(_), registry) ==
    FoldLeft(LAMBDA reached, s : reached \cup UNION {Step(r) : r \in reached}, start, registry)

(* Mutant of Used: what is used is only what is referred to by a name found in the schema. *)
UsedByReference(registry, references) ==
    LET Named(names) == {s \in ToSet(registry) : ComponentName[s] \in names}
    IN  Closure(Named(references), LAMBDA s : Named(FoundReferences(s)), registry)

Used(registry, references) ==
    LET Named(names) == {s \in ToSet(registry) : ComponentName[s] \in names}
        referenced == Closure(Named(references), LAMBDA s : Named(FoundReferences(s)), registry)
    IN  Closure(referenced, LAMBDA s : ToSet(Nested(s)), registry)

PathReferences == UNION {UNION {o.references : o \in Range(Operations(p))} : p \in DocumentPaths}
DocumentSchemas == Used(Registry, PathReferences)
----------------------------------------------------------------------------
(* No reference leads nowhere: what an operation or a component of the document refers to is a component. *)
ReferencesResolve ==
    stage = "building" =>
        PathReferences \cup UNION {References(s) : s \in DocumentSchemas}
            \subseteq {ComponentName[s] : s \in DocumentSchemas}

(* Where a path leads when each router of ts has the routes it lists, from router with rest still to match. *)
RECURSIVE Lead(_, _, _, _, _)
Lead(ts, router, s, method, depth) ==
    LET found == Resolution(ts[router], s.path, "http", method)
        child == ts[router][found.index].app
    IN  CASE found.type = "full" -> [type |-> "full", route |-> ts[router][found.index], values |-> found.match.values]
          [] found.type = "mount" /\ depth > 0 /\ AppKind[child] # "asgi" ->
                Lead(ts, child, MountScope(s, child, found.match), method, depth - 1)
          [] OTHER -> [type |-> "none"]

OnlyRoutesOf(chain) ==
    [r \in Routers |-> LET at == SelectSeq(chain, LAMBDA step : step.router = r)
                       IN  [i \in DOMAIN at |-> tables[r][at[i].index]]]

(* A documented path and method is served: whatever its placeholders stand for, the application with only   *)
(* that route and the mounts above it hands the request to the handler the document describes.              *)
DocumentedIsServed ==
    stage = "building" =>
        \A p \in DocumentPaths : \A m \in DOMAIN Operations(p) :
            LET endpoint == Operations(p)[m].endpoint
            IN  \A params \in Parameters(Placeholders(p)) :
                    LET led == Lead(OnlyRoutesOf(endpoint.chain), Top,
                                    [NoScope EXCEPT !.path = Build(p, params).path], m, Len(endpoint.chain))
                    IN  led.type = "full" /\ led.route = endpoint.route

GivenTo(d, values, query) ==
    IF d.in = "path" THEN (IF d.name \in DOMAIN values THEN <<values[d.name]>> ELSE <<>>)
    ELSE IF TextsOf(query, d.name) = <<>> THEN <<>> ELSE QueryText(d, query)

(* What an operation of the document asks of a request. *)
Meets(operation, values, query, body) ==
    /\ \A d \in ToSet(operation.parameters) :
          LET given == GivenTo(d, values, query)
          IN  IF given = <<>> THEN ~d.required ELSE Accepts(d.type, given)
    /\ \A b \in ToSet(operation.body) : IF b.type.base = "file" THEN body = "file" ELSE SchemaAccepts(body)

(* The document and the validation agree: a handler runs on the requests that give what its operation asks  *)
(* for and on no others, and it gets each documented value from where the document says it is.              *)
DocumentedIsAsked ==
    stage = "handled" /\ request.type = "http" =>
        LET route == tables[second.router][second.index]
            handler == HandlerOf(route, request.method)
            values == PathParams(route, second.values)
            operation == OperationOf([method |-> request.method, route |-> route, chain |-> <<>>])
        IN  \A query \in Queries, body \in Bodies :
                /\ Failures(route, handler, values, query, body) = {} <=> Meets(operation, values, query, body)
                /\ Meets(operation, values, query, body) =>
                       \A p \in ToSet(Takes(handler)), d \in ToSet(operation.parameters) :
                           p.name = d.name /\ GivenTo(d, values, query) # <<>> =>
                               Argument(route, handler, p, values, query) = GivenTo(d, values, query)

(* The OpenAPI document is true of the application: its references, its paths and its parameters. *)
DocumentIsTrue == ReferencesResolve /\ DocumentedIsServed /\ DocumentedIsAsked
=============================================================================
