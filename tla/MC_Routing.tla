---------------------------- MODULE MC_Routing ----------------------------
(* An application, a router, a second application and a plain ASGI callable that can be mounted in it. *)
EXTENDS Document

Placeholder == "n" :> "int" @@ "s" :> "str"
Digit == {"1"}

(* Who serves a route: functions, but for the class on "/". *)
Serving(path, methods) ==
    CASE path = <<"/">> -> "index"
      [] path = <<"/", "x">> -> IF methods = {"GET"} THEN "list" ELSE "create"
      [] path = <<"/", "n">> -> "read"
      [] path = <<"/", "s", "/", "x">> -> "search"
      [] path = <<"/", "a">> -> IF methods = {"GET"} THEN "page" ELSE "upload"
      [] OTHER -> "plain"

Http(path, methods) ==
    [kind |-> "http", path |-> path, methods |-> methods, app |-> "none", name |-> path,
     class |-> path = <<"/">>, included |-> path # <<"/", "a", "x">>,
     endpoint |-> [m \in IF path = <<"/">> THEN methods ELSE WithHead(methods) |-> Serving(path, methods)]]
WebSocket(path) == [kind |-> "websocket", path |-> path, methods |-> {}, app |-> "none", name |-> path]
Under(path, app) == [kind |-> "mount", path |-> path, methods |-> {}, app |-> app, name |-> path]

Kinds == "app" :> "flama" @@ "child" :> "flama" @@ "sub" :> "router" @@ "static" :> "asgi"

Inner == {Http(<<"/">>, {"GET"}), Http(<<"/", "x">>, {"GET"}), Http(<<"/", "x", "/">>, {"GET"}), Http(<<"/", "n">>, {"GET"}), Http(<<"/", "x">>, {"POST"}),
          WebSocket(<<"/", "x">>), Http(<<"/", "a">>, {"GET"})}
Outer == {Http(<<"/", "a">>, {"GET"}), Http(<<"/", "a">>, {"POST"}), Http(<<"/", "a", "/">>, {"GET"}),
          Http(<<"/", "s", "/", "x">>, {"GET"}), Http(<<"/", "s", "/", "x", "/">>, {"GET"}), Http(<<"/", "a", "x">>, {"GET"}), WebSocket(<<"/", "a">>),
          Under(<<"/", "a">>, "sub"), Under(<<"/", "a">>, "child"), Under(<<"/", "s">>, "sub"), Under(<<"/">>, "sub"),
          Under(<<"/", "a">>, "static"), Under(<<"/", "a", "/">>, "child")}
CandidatesOf == "app" :> Outer @@ "child" :> Inner @@ "sub" :> (Inner \cup {Under(<<"/", "x">>, "child")}) @@ "static" :> {}
Sizes == "app" :> 2 @@ "child" :> 1 @@ "sub" :> 1 @@ "static" :> 0

ValuesOf == "n" :> {<<"1">>, <<"1", "1">>} @@ "s" :> {<<"a">>, <<"x", "1">>}

Scalar(base) == [base |-> base, many |-> FALSE, optional |-> FALSE, schema |-> "none"]
Object(schema) == [base |-> "object", many |-> FALSE, optional |-> FALSE, schema |-> schema]
Takes1(name, type, default) == [name |-> name, type |-> type, default |-> default]
NoDoc == [parses |-> TRUE, references |-> {}]
Returns(schemas) == [schema |-> schemas]

SignatureOf ==
    "index" :> [takes |-> <<>>, returns |-> Returns({}), doc |-> NoDoc]
    @@ "list" :> [takes |-> <<Takes1("q", Scalar("number"), "none")>>, returns |-> Returns({"Order"}), doc |-> NoDoc]
    @@ "create" :> [takes |-> <<Takes1("body", Object("Order"), "none"), Takes1("q", Scalar("number"), "dflt")>>,
                    returns |-> Returns({"Item"}), doc |-> NoDoc]
    @@ "read" :> [takes |-> <<Takes1("n", Scalar("number"), "none"), Takes1("q", Scalar("text"), "dflt")>>,
                  returns |-> Returns({"Item"}), doc |-> NoDoc]
    @@ "search" :> [takes |-> <<Takes1("q", Scalar("number"), "dflt"), Takes1("s", Scalar("text"), "none")>>,
                    returns |-> Returns({}), doc |-> NoDoc]
    @@ "page" :> [takes |-> <<>>, returns |-> Returns({}), doc |-> [parses |-> TRUE, references |-> {"Page"}]]
    @@ "upload" :> [takes |-> <<Takes1("f", Scalar("file"), "none")>>, returns |-> Returns({}), doc |-> NoDoc]
    @@ "plain" :> [takes |-> <<>>, returns |-> Returns({"Order"}), doc |-> [parses |-> FALSE, references |-> {}]]

Field(shape, of) == [shape |-> shape, of |-> of]
FieldsOf ==
    "Order" :> <<Field("list", "Item"), Field("mapping", "Price"), Field("optional", "Owner")>>
    @@ "Item" :> <<Field("list", "Item")>> @@ "Price" :> <<Field("one", "Owner"), Field("mapping", "Currency")>>
    @@ "Owner" :> <<>> @@ "Currency" :> <<>> @@ "Page" :> <<Field("one", "Meta")>>
    @@ "Meta" :> <<>> @@ "Error" :> <<>>
Registered == [s \in DOMAIN FieldsOf |-> IF s \in {"Page", "Meta", "Error"} THEN s ELSE "module." \o s]
LibraryOf == <<"Error", "Page">>
Short == [s \in DOMAIN FieldsOf |-> s]

QueriesOf == {<<>>, <<[name |-> "q", text |-> <<"1">>]>>, <<[name |-> "q", text |-> <<"a">>]>>,
              <<[name |-> "q", text |-> <<"a">>], [name |-> "q", text |-> <<"1">>]>>,
              <<[name |-> "s", text |-> <<"1">>]>>}

Paths == {<<"/">>, <<"/", "a">>, <<"/", "a", "/">>, <<"/", "a", "x">>, <<"/", "x">>,
          <<"/", "a", "/", "x">>, <<"/", "x", "/", "x">>,
          <<"/", "a", "/", "1">>, <<"/", "a", "/", "a">>, <<"/", "1", "/", "1">>, <<"/", "a", "/", "x", "/">>,
          <<"/", "/", "a">>, <<"/", "a", "/", "/", "x">>, <<"/", "a", "/", "x", "/", "/">>}
RequestsOf == {[type |-> "http", path |-> p, method |-> m] : p \in Paths, m \in {"GET", "POST"}}
              \cup {[type |-> "websocket", path |-> p, method |-> "none"] : p \in Paths}
=============================================================================
