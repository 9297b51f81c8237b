---------------------------- MODULE MC_Requests ----------------------------
(***************************************************************************)
(* Both halves of a request: the stack its answer goes through, and the    *)
(* injector that gives its handler the parameters. A behaviour is of one   *)
(* half; the other stands still.                                           *)
(***************************************************************************)
EXTENDS Requests, TLC

CONSTANTS Connections, Messages, MaxReceived, MaxEntries

VARIABLES side, own, components, trees, functions, cache, current, opened, count, injection, loop,
          settled, spoiled, resolved, again

\* The stack without middleware, and the orders of the middlewares that change,
\* hold or answer a message.
Orders == {<<"server", "exception">>,
           <<"server", "hook", "compression", "exception">>,
           <<"server", "compression", "hook", "exception">>,
           <<"server", "telemetry", "hook", "exception">>,
           <<"server", "hook", "cors", "hook", "exception">>}

-----------------------------------------------------------------------------
(* An application: its context, its components and its handlers *)

Field(name, type, hashable) == [name |-> name, type |-> type, hashable |-> hashable]
Fields == <<Field("scope", "Scope", TRUE), Field("request", "Request", FALSE), Field("message", "Message", TRUE)>>
Subtypes == {<<"AppRequest", "Request">>}
BuiltinTypes == {"list", "dict"}

Parameter(name, type) == [name |-> name, type |-> type]
Component(name, returns, takes, cacheable, awaits) ==
    [name |-> name, returns |-> returns, handles |-> {}, takes |-> takes, cacheable |-> cacheable, awaits |-> awaits]

\* The body awaits the connection and is decoded again by two others; a
\* primitive parameter needs to know which parameter it is for.
Library == <<
    Component("headers", "Headers", <<Parameter("request", "Request")>>, TRUE, FALSE),
    Component("data", "Data", <<Parameter("message", "Message")>>, TRUE, TRUE),
    [Component("param", "custom", <<Parameter("parameter", "Parameter"), Parameter("data", "Data")>>, TRUE, FALSE)
        EXCEPT !.handles = {"int", "Headers"}],
    Component("clock", "Clock", <<Parameter("headers", "Headers")>>, FALSE, FALSE) >>
Late == Component("own", "Data", <<Parameter("request", "AppRequest"), Parameter("headers", "Headers")>>, TRUE, TRUE)

Signature ==
    [show |-> <<Parameter("size", "int"), Parameter("page", "int"), Parameter("data", "Data")>>,
     edit |-> <<Parameter("body", "Data"), Parameter("at", "Clock")>>,
     guess |-> <<Parameter("scope", "dict"), Parameter("items", "list")>>,
     lost |-> <<Parameter("headers", "Headers"), Parameter("other", "Other")>>]

Injector == INSTANCE Injection WITH Mutating <- {"edit"}

injecting == <<own, components, trees, functions, cache, current, opened, count, injection, loop,
               settled, spoiled, resolved, again>>

-----------------------------------------------------------------------------
(* The two halves *)

MCInit ==
    \/ side = "stack" /\ Injector!Init /\ Init
    \/ /\ side = "injector" /\ Injector!Init
       /\ config = [type |-> "http", accepts |-> FALSE, stack |-> <<"server", "exception">>] /\ Init

MCNext ==
    \/ side = "stack" /\ Next /\ UNCHANGED <<side, injecting>>
    \/ side = "injector" /\ Injector!Next /\ UNCHANGED <<side, vars>>

\* Connections are alike, and so are messages.
Alike == Permutations(Connections) \cup Permutations(Messages)

MCSpec == MCInit /\ [][MCNext]_<<side, vars, injecting>>

\* The property of the injector, of Injection.
InjectionTransparent == side = "injector" => Injector!InjectionTransparent
=============================================================================
