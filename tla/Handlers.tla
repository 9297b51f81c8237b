------------------------------ MODULE Handlers ------------------------------
(* What a handler takes (flama/schemas/routing.py, schemas/data_structures.py, types/annotations.py) and how  *)
(* the components that validate a request answer it (flama/schemas/components.py). The parameters are those  *)
(* of the handler and of the components it asks for, in the order of their names. A type is                   *)
(* [base, many, optional, schema]: base "number", "text", "object" (an annotated schema) or "file".          *)
EXTENDS Routing

CONSTANT Signature   \* handler |-> [takes: its parameters, returns: what it gives back, doc: its docstring]

Takes(handler) == Signature[handler].takes
----------------------------------------------------------------------------
(* Annotation.element(list) leaves a scalar a URL can carry. *)
IsHttpValid(type) == type.base \in {"number", "text"}

(* An optional schema is not one of the types of a body: only the union's members are. *)
IsBodyType(type) == ~type.optional /\ (type.many \/ type.base \in {"object", "file"})

OfPath(route, p) == p.name \in Placeholders(route.path)

Built(location, p) ==
    [name |-> p.name, in |-> location, type |-> p.type,
     required |-> location = "query" => p.default = "none",
     schema |-> IF p.type.base = "object" THEN {p.type.schema} ELSE {}]

BuiltAll(location, ps) == [i \in DOMAIN ps |-> Built(location, ps[i])]

(* ParametersDescriptor: what the URL's placeholders name is a path parameter, other scalars are query     *)
(* parameters, and the first schema, list or file by name is the body.                                      *)
QueryOf(route, handler) ==
    BuiltAll("query", SelectSeq(Takes(handler), LAMBDA p : IsHttpValid(p.type) /\ ~OfPath(route, p)))
PathOf(route, handler) == BuiltAll("path", SelectSeq(Takes(handler), LAMBDA p : OfPath(route, p)))
BodyOf(route, handler) ==
    LET candidates == SelectSeq(Takes(handler), LAMBDA p : IsBodyType(p.type) /\ ~OfPath(route, p))
    IN  BuiltAll("body", SubSeq(candidates, 1, IF candidates = <<>> THEN 0 ELSE 1))
----------------------------------------------------------------------------
(* A request's query is a sequence of [name, text], its body one of "none", "garbled" and "unknown" (its     *)
(* content type), "record", "records", "wrong" (a record the schema refuses) and "file".                     *)
TextsOf(query, name) == LET given == SelectSeq(query, LAMBDA q : q.name = name) IN [i \in DOMAIN given |-> given[i].text]

(* What the mapping of the query gives for a name: the last value, or all of them for a list. *)
QueryText(p, query) == IF p.type.many THEN TextsOf(query, p.name) ELSE <<Last(TextsOf(query, p.name))>>

Accepts(type, texts) == \A i \in DOMAIN texts : type.base = "number" => Validate(texts[i], "int")

(* ValidateQueryParamsComponent and ValidatePathParamsComponent. *)
QueryValid(route, handler, query) ==
    \A p \in ToSet(QueryOf(route, handler)) :
        IF TextsOf(query, p.name) = <<>> THEN ~p.required ELSE Accepts(p.type, QueryText(p, query))
PathValid(route, handler, values) ==
    \A p \in ToSet(PathOf(route, handler)) : p.name \in DOMAIN values /\ Accepts(p.type, <<values[p.name]>>)

(* The values of the placeholders by their names. *)
PathParams(route, values) ==
    LET named == SelectSeq(route.template, IsPlaceholder)
    IN  [name \in ToSet(named) |-> values[SelectLastInSeq(named, LAMBDA c : c = name)]]

(* RequestDataComponent, then the schema of the body, record by record when the data is a list. *)
DataOf(body) == CASE body = "unknown" -> "unsupported" [] body = "garbled" -> "invalid" [] OTHER -> "read"
SchemaAccepts(body) == body \in {"record", "records"}

(* PrimitiveParamComponent, CompositeParamComponent and FileParamComponent: what keeps p from its value. *)
Failure(route, handler, p, values, query, body) ==
    CASE IsHttpValid(p.type) ->
            IF PathValid(route, handler, values) /\ QueryValid(route, handler, query) THEN "none" ELSE "invalid"
      [] DataOf(body) # "read" -> DataOf(body)
      [] p.type.base = "object" ->
            LET described == BodyOf(route, handler)
            IN  IF described = <<>> \/ Head(described).schema = {} THEN "internal"
                ELSE IF SchemaAccepts(body) THEN "none" ELSE "invalid"
      [] OTHER -> CASE body = "file" -> "none" [] body = "records" -> "internal" [] OTHER -> "invalid"

Failures(route, handler, values, query, body) ==
    {Failure(route, handler, p, values, query, body) : p \in ToSet(Takes(handler))} \ {"none"}

(* The value a scalar parameter gets: PrimitiveParamComponent looks at the validated path first. *)
Argument(route, handler, p, values, query) ==
    IF \E q \in ToSet(PathOf(route, handler)) : q.name = p.name THEN <<values[p.name]>>
    ELSE IF TextsOf(query, p.name) # <<>> THEN QueryText(p, query)
    ELSE <<p.default>>
=============================================================================
