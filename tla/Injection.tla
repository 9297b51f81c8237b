----------------------------- MODULE Injection ------------------------------
(***************************************************************************)
(* flama.injection: an application's one injector gives the parameters of  *)
(* every handler on every connection their values, from components that    *)
(* may await. It keeps three caches: a tree per type, the trees of each    *)
(* handler, and the values of components per parameter and context.        *)
(*                                                                         *)
(* A context is an object the connection changes from message to message   *)
(* while it is a key of the cache. A value is a tuple that says what it    *)
(* was made of; components are functions of what they take. Coroutines     *)
(* change places only where a component awaits: loop is who runs.          *)
(***************************************************************************)
EXTENDS Integers, Sequences, FiniteSets, SequencesExt

CONSTANTS
    Connections, Messages,
    Fields,       \* the fields of a context, in order: [name, type, hashable]
    Subtypes,     \* the pairs <<type, supertype>> that are not equal
    BuiltinTypes,
    Library,      \* the components of the framework, in order
    Late,         \* what the application registers while it serves
    Signature,    \* handler |-> its parameters, [name, type]
    Mutating,     \* the handlers that change the values they are given
    MaxReceived, MaxEntries

VARIABLES
    own,          \* the components the application has registered
    components, trees, functions, cache,                     \* the injector
    current, injection,           \* of each connection
    opened, count,                \* the connections, and the messages received on all of them
    loop,
    settled, spoiled, resolved, again                        \* histories

vars == <<own, components, trees, functions, cache, current, opened, count, injection, loop,
          settled, spoiled, resolved, again>>

Nobody == "nobody"
Missing == <<>>
Handlers == DOMAIN Signature
First(s) == SubSeq(s, 1, Cardinality({1} \cap DOMAIN s))
-----------------------------------------------------------------------------
(* A component is [name, returns, handles, takes, cacheable, awaits]; it is *)
(* asked by the type it returns, or decides itself ("custom") by the type.  *)

UsesParameter(component) == \E p \in ToSet(component.takes) : p.type = "Parameter"

\* Context.lookup: the field of that very type, else the first above it.
Lookup(type) ==
    First(SelectSeq(Fields, LAMBDA f : f.type = type)
          \o SelectSeq(Fields, LAMBDA f : <<type, f.type>> \in Subtypes))

\* Components.find_handler: by the type first, then who says it handles it.
FindHandler(installed, type) ==
    First(SelectSeq(installed, LAMBDA c : c.returns = type)
          \o SelectSeq(installed, LAMBDA c : c.returns = "custom" /\ type \in c.handles))

\* A step of a tree. deps are the steps a component takes its values from.
ContextStep(name) == [kind |-> "context", name |-> name]
ParameterStep(p) == [kind |-> "parameter", parameter |-> p]
ComponentStep(component, p, deps) ==
    [kind |-> "component", component |-> component, parameter |-> p, deps |-> deps]

\* ResolutionTree._build_node and Step.build: the steps of a tree, what a
\* component takes before it. Missing if something in it has no handler.
RECURSIVE Build(_, _, _)
Shifted(steps, n) ==
    [i \in DOMAIN steps |-> IF steps[i].kind # "component" THEN steps[i]
                            ELSE [steps[i] EXCEPT !.deps = [j \in DOMAIN @ |-> @[j] + n]]]
With(built, steps) ==
    IF built = Missing \/ steps = Missing THEN Missing
    ELSE <<[steps |-> built[1].steps \o Shifted(steps, Len(built[1].steps)),
            deps |-> Append(built[1].deps, Len(built[1].steps) + Len(steps))]>>
Root(component, p, taken) ==
    IF taken = Missing THEN Missing ELSE Append(taken[1].steps, ComponentStep(component, p, taken[1].deps))
OfComponent(installed, component, p) ==
    Root(component, p, FoldLeft(LAMBDA built, q : With(built, Build(installed, q, <<p>>)),
                                <<[steps |-> <<>>, deps |-> <<>>]>>, component.takes))
Handled(installed, p, found) ==
    CASE found # <<>> -> OfComponent(installed, found[1], p)
      [] found = <<>> /\ p.type \in BuiltinTypes -> <<ContextStep(p.name)>>
      [] OTHER -> Missing
Build(installed, p, parent) ==
    CASE Lookup(p.type) # <<>> -> <<ContextStep(Lookup(p.type)[1].name)>>
      [] Lookup(p.type) = <<>> /\ p.type = "Parameter" ->
            IF parent = <<>> THEN Missing ELSE <<ParameterStep(parent[1])>>
      [] OTHER -> Handled(installed, p, FindHandler(installed, p.type))

-----------------------------------------------------------------------------
(* Injector.resolve_function *)

\* Mutant of KeepsTree: any tree of a component is kept.
KeepsAnyTree(steps) == Last(steps).kind = "component"

\* ResolutionCache._is_cacheable: whose value does not depend on the parameter.
KeepsTree(steps) == Last(steps).kind = "component" /\ ~UsesParameter(Last(steps).component)

\* Resolver.resolve: a tree is found by its type alone.
Resolved(acc, p, steps) ==
    IF steps = Missing THEN [acc EXCEPT !.complete = FALSE]
    ELSE [acc EXCEPT !.plans = Append(@, steps),
                     !.trees = IF p.type \in DOMAIN @ \/ ~KeepsTree(steps) THEN @
                               ELSE [t \in DOMAIN @ \cup {p.type} |-> IF t = p.type THEN steps ELSE @[t]]]
Resolve(installed, acc, p) ==
    IF ~acc.complete THEN acc
    ELSE Resolved(acc, p, IF p.type \in DOMAIN acc.trees THEN acc.trees[p.type] ELSE Build(installed, p, <<>>))
ResolveFunction(installed, known, handler) ==
    FoldLeft(LAMBDA acc, p : Resolve(installed, acc, p),
             [trees |-> known, plans |-> <<>>, complete |-> TRUE], Signature[handler])

-----------------------------------------------------------------------------
(* Contexts, as keys of the cache of values *)

\* What a field of a connection holds now. Connections may be alike in what
\* can be hashed, as two requests of one client are.
FieldNames == {Fields[i].name : i \in DOMAIN Fields}
Hashable == {Fields[i].name : i \in {i \in DOMAIN Fields : Fields[i].hashable}}
FieldValue(c, name) ==
    CASE name = "message" -> <<"message", current[c]>>
      [] name = "request" -> <<"request", c>>
      [] OTHER -> <<name, "alike">>

\* Mutant of Hash: the message is not part of it.
HashWithoutMessage(c) == [f \in Hashable \ {"message"} |-> FieldValue(c, f)]

Hash(c) == [f \in Hashable |-> FieldValue(c, f)]
Equal(c, d) == \A f \in FieldNames : FieldValue(c, f) = FieldValue(d, f)

\* An entry remembers the hash its context had when it was stored.
Entry(c, p, value) == [context |-> c, parameter |-> p, hash |-> Hash(c), value |-> value]
Cached(c, p) ==
    SelectSeq(cache, LAMBDA e : e.parameter = p /\ e.hash = Hash(c) /\ Equal(e.context, c))

\* LRUCache.__setitem__: a full cache loses its newest entry.
Stored(entry) == Append(IF Len(cache) = MaxEntries THEN Front(cache) ELSE cache, entry)

-----------------------------------------------------------------------------
(* Injections *)

Idle == [stage |-> "idle", handler |-> "none", plans |-> <<>>, results |-> <<>>, given |-> <<>>]

Plan(c) == injection[c].plans[Len(injection[c].given) + 1]
NextStep(c) == Plan(c)[Len(injection[c].results) + 1]
Arguments(c) == [i \in DOMAIN NextStep(c).deps |-> injection[c].results[NextStep(c).deps[i]]]
Product(c) == <<NextStep(c).component.name>> \o Arguments(c)

\* The value of the step is the value of its tree when it is the last one.
Advanced(c, value) ==
    IF Len(injection[c].results) + 1 < Len(Plan(c))
    THEN [injection[c] EXCEPT !.stage = "executing", !.results = Append(@, value)]
    ELSE [injection[c] EXCEPT !.stage = "executing", !.results = <<>>, !.given = Append(@, value)]

Init ==
    /\ own = <<>> /\ components = Library
    /\ trees = [t \in {} |-> <<>>] /\ functions = [h \in {} |-> <<>>] /\ cache = <<>>
    /\ current = [c \in Connections |-> "none"] /\ opened = {} /\ count = 0
    /\ injection = [c \in Connections |-> Idle] /\ loop = Nobody
    /\ settled = {} /\ spoiled = {} /\ resolved = {} /\ again = FALSE

\* Application.add_component. The injector learns of it when it is used next.
AddComponent ==
    /\ loop = Nobody /\ own = <<>>
    /\ own' = <<Late>> /\ settled' = {}
    /\ UNCHANGED <<components, trees, functions, cache, current, opened, count, injection, loop,
                   spoiled, resolved, again>>

\* A request, or a message on a WebSocket: the context is changed in place.
Receive(c) ==
    /\ loop = Nobody /\ injection[c].stage \in {"idle", "done", "raised"} /\ count < MaxReceived
    /\ \E m \in Messages, h \in Handlers :
          /\ current' = [current EXCEPT ![c] = m]
          /\ injection' = [injection EXCEPT ![c] = [Idle EXCEPT !.stage = "asked", !.handler = h]]
    /\ opened' = opened \cup {c} /\ count' = count + 1 /\ loop' = c
    /\ settled' = settled \cup ({c} \ opened)
    /\ UNCHANGED <<own, components, trees, functions, cache, spoiled, resolved, again>>

\* Flama.injector: new components take the trees and the functions with them.
Refresh ==
    /\ \E c \in Connections : loop = c /\ injection[c].stage = "asked"
    /\ components # own \o Library
    /\ components' = own \o Library
    /\ trees' = [t \in {} |-> <<>>] /\ functions' = [h \in {} |-> <<>>]
    /\ UNCHANGED <<own, cache, current, opened, count, injection, loop, settled, spoiled, resolved, again>>

\* Injector.inject up to the first value, all of it before any await.
Inject(c) ==
    /\ loop = c /\ injection[c].stage = "asked" /\ components = own \o Library
    /\ \E found \in {ResolveFunction(components, trees, injection[c].handler)} :
          IF injection[c].handler \in DOMAIN functions
          THEN /\ injection' = [injection EXCEPT ![c].stage = "executing", ![c].plans = functions[injection[c].handler]]
               /\ UNCHANGED <<trees, functions, loop>>
          ELSE /\ trees' = found.trees
               /\ IF found.complete
                  THEN /\ injection' = [injection EXCEPT ![c].stage = "executing", ![c].plans = found.plans]
                       /\ functions' = [h \in DOMAIN functions \cup {injection[c].handler} |->
                                           IF h = injection[c].handler THEN found.plans ELSE functions[h]]
                       /\ UNCHANGED loop
                  ELSE /\ injection' = [injection EXCEPT ![c].stage = "raised"] /\ loop' = Nobody
                       /\ UNCHANGED functions
    /\ UNCHANGED <<own, components, cache, current, opened, count, settled, spoiled, resolved, again>>

Executing(c) ==
    /\ loop = c /\ injection[c].stage = "executing" /\ Len(injection[c].given) < Len(injection[c].plans)

\* ContextStep and ParameterStep. A name no field has raises AttributeError.
ReadContext(c) ==
    /\ Executing(c) /\ NextStep(c).kind = "context"
    /\ IF NextStep(c).name \in FieldNames
       THEN /\ injection' = [injection EXCEPT ![c] = Advanced(c, FieldValue(c, NextStep(c).name))]
            /\ UNCHANGED loop
       ELSE injection' = [injection EXCEPT ![c].stage = "raised"] /\ loop' = Nobody
    /\ UNCHANGED <<own, components, trees, functions, cache, current, opened, count, settled, spoiled, resolved, again>>
ReadParameter(c) ==
    /\ Executing(c) /\ NextStep(c).kind = "parameter"
    /\ injection' = [injection EXCEPT ![c] =
          Advanced(c, <<"parameter", NextStep(c).parameter.name, NextStep(c).parameter.type>>)]
    /\ UNCHANGED <<own, components, trees, functions, cache, current, opened, count, loop,
                   settled, spoiled, resolved, again>>

\* ComponentStep: the value of the cache, or what the component resolves.
Hit(c) == NextStep(c).component.cacheable /\ Cached(c, NextStep(c).parameter) # <<>>
TakeCached(c) ==
    /\ Executing(c) /\ NextStep(c).kind = "component" /\ Hit(c)
    /\ injection' = [injection EXCEPT ![c] = Advanced(c, Cached(c, NextStep(c).parameter)[1].value)]
    /\ UNCHANGED <<own, components, trees, functions, cache, current, opened, count, loop,
                   settled, spoiled, resolved, again>>
Await(c) ==
    /\ Executing(c) /\ NextStep(c).kind = "component" /\ ~Hit(c) /\ NextStep(c).component.awaits
    /\ injection' = [injection EXCEPT ![c].stage = "awaiting"] /\ loop' = Nobody
    /\ UNCHANGED <<own, components, trees, functions, cache, current, opened, count,
                   settled, spoiled, resolved, again>>

Returned(c) ==
    LET key == <<c, NextStep(c).parameter, current[c]>>
    IN  /\ injection' = [injection EXCEPT ![c] = Advanced(c, Product(c))] /\ loop' = c
        /\ IF NextStep(c).component.cacheable
           THEN /\ cache' = Stored(Entry(c, NextStep(c).parameter, Product(c)))
                /\ resolved' = resolved \cup {key} /\ again' = (again \/ key \in resolved)
           ELSE UNCHANGED <<cache, resolved, again>>
        /\ UNCHANGED <<own, components, trees, functions, current, opened, count, settled, spoiled>>
Call(c) ==
    /\ Executing(c) /\ NextStep(c).kind = "component" /\ ~Hit(c) /\ ~NextStep(c).component.awaits
    /\ Returned(c)
Resume(c) == loop = Nobody /\ injection[c].stage = "awaiting" /\ Returned(c)

\* A component raises: what was stored before stays.
Fail(c) ==
    /\ loop = Nobody /\ injection[c].stage = "awaiting"
    /\ injection' = [injection EXCEPT ![c].stage = "raised"]
    /\ UNCHANGED <<own, components, trees, functions, cache, current, opened, count, loop,
                   settled, spoiled, resolved, again>>

\* The handler is called. What it does to a value it does to the cached one.
Handle(c) ==
    /\ loop = c /\ injection[c].stage = "executing" /\ Len(injection[c].given) = Len(injection[c].plans)
    /\ injection' = [injection EXCEPT ![c].stage = "done"] /\ loop' = Nobody
    /\ IF injection[c].handler \in Mutating
       THEN /\ cache' = [i \in DOMAIN cache |->
                           IF cache[i].context = c /\ cache[i].value \in ToSet(injection[c].given)
                           THEN [cache[i] EXCEPT !.value = <<"changed">>] ELSE cache[i]]
            /\ spoiled' = spoiled \cup {c}
       ELSE UNCHANGED <<cache, spoiled>>
    /\ UNCHANGED <<own, components, trees, functions, current, opened, count, settled, resolved, again>>

Next ==
    \/ AddComponent
    \/ Refresh
    \/ \E c \in Connections :
          \/ Receive(c)
          \/ Inject(c)
          \/ ReadContext(c)
          \/ ReadParameter(c)
          \/ TakeCached(c)
          \/ Await(c)
          \/ Call(c)
          \/ Resume(c)
          \/ Fail(c)
          \/ Handle(c)

Spec == Init /\ [][Next]_vars
-----------------------------------------------------------------------------
(* What a parameter is worth: no cache, no tree, no other connection. *)
RECURSIVE Worth(_, _, _)
Worth(c, p, parent) ==
    CASE Lookup(p.type) # <<>> -> FieldValue(c, Lookup(p.type)[1].name)
      [] Lookup(p.type) = <<>> /\ p.type = "Parameter" -> <<"parameter", parent.name, parent.type>>
      [] OTHER ->
            LET found == FindHandler(components, p.type)
            IN  IF found = <<>> THEN FieldValue(c, p.name)
                ELSE <<found[1].name>>
                     \o [i \in DOMAIN found[1].takes |-> Worth(c, found[1].takes[i], p)]

\* A handler is given what its parameters are worth for the message it is
\* called with, whatever was injected before, elsewhere or meanwhile: on a
\* connection opened since the components last changed, none of whose handlers
\* changed a value it had been given.
ValuesCurrent ==
    \A c \in settled \ spoiled : injection[c].stage = "done" =>
        injection[c].given = [i \in DOMAIN Signature[injection[c].handler] |->
                                 Worth(c, Signature[injection[c].handler][i], Signature[injection[c].handler][i])]

\* A value that may be cached is resolved once for a parameter and a message,
\* as long as the cache has not been full.
ResolvedOnce == again => Len(cache) = MaxEntries

\* The caches of the injector cannot be told from injecting without them, but
\* by the work they save.
InjectionTransparent == ValuesCurrent /\ ResolvedOnce
=============================================================================
