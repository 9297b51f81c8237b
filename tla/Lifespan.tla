------------------------------ MODULE Lifespan ------------------------------
(***************************************************************************)
(* The life of a tree of applications: flama.lifespan.Lifespan of a root   *)
(* application and of the applications mounted on it, the hooks it runs in *)
(* order, its propagation to the mounts and the status that Flama.__call__ *)
(* looks at when a request comes.                                          *)
(*                                                                         *)
(* A call is one run of Lifespan.__call__: the root's, for a message of    *)
(* the server, and one per mount, for the message its parent passes on.    *)
(* Calls of different mounts run concurrently in run_task_group, which is  *)
(* asyncio.TaskGroup since Python 3.11 and asyncio.wait on 3.10; a hook is *)
(* a step, and requests come between any two steps.                        *)
(***************************************************************************)
EXTENDS Naturals, FiniteSets

CONSTANTS
    Root,         \* the root application, and its call
    Mounts,       \* mounts on other applications, and their calls
    Trees,        \* the sets of mounts the root may have
    AppOf(_),     \* the application a call is about
    Modules,      \* number of modules of each application
    HooksFail,    \* TRUE: any hook may raise
    OneCall,      \* TRUE: the server calls the application once for its life
    MaxMessages   \* bound on the messages of the server

ASSUME RootAssumption == Root \notin Mounts
ASSUME AppOfAssumption == AppOf(Root) = Root /\ \A m \in Mounts : AppOf(m) # Root
ASSUME TreesAssumption == Trees \subseteq SUBSET Mounts
ASSUME ModulesAssumption == Modules \in Nat
ASSUME FlagsAssumption == HooksFail \in BOOLEAN /\ OneCall \in BOOLEAN
ASSUME MaxMessagesAssumption == MaxMessages \in Nat

VARIABLES
    status,    \* app.status
    modules,   \* modules that are up
    middleware,\* the middleware hooks have run
    context,   \* number of user contexts entered and not exited
    lock,      \* call holding Lifespan.lock
    pc,        \* phase of each call
    outcome,   \* how each call returned
    message,   \* the message being handled
    messages,  \* messages sent so far
    grouped,   \* run_task_group is a TaskGroup: the version of Python, fixed
    mounted    \* the mounts of the root, fixed

world == <<modules, middleware, context>>
site == <<grouped, mounted>>
server == <<message, messages, site>>
vars == <<status, world, lock, pc, outcome, server>>

Calls == {Root} \cup Mounts
ASSUME FreeAssumption == "free" \notin Calls
Apps == {AppOf(c) : c \in Calls}
Free == "free"
Hooks == {"modules", "middleware", "handlers", "context"}
Phases == Hooks \cup {"children"}
Status == {"NOT_STARTED", "STARTING", "READY", "SHUTTING_DOWN", "SHUT_DOWN", "FAILED"}

\* The calls a propagation makes: routes of a mounted application have none.
Spawned(c) == IF c = Root THEN mounted ELSE {}

-----------------------------------------------------------------------------
(* The order of the phases *)

AfterStartup ==
    [begin |-> "modules", modules |-> "middleware", middleware |-> "handlers",
     handlers |-> "context", context |-> "children", children |-> "complete"]

\* Mutant of AfterShutdown: the children last.
ShutdownChildrenLast ==
    [begin |-> "context", context |-> "handlers", handlers |-> "middleware",
     middleware |-> "modules", modules |-> "children", children |-> "complete"]
AfterShutdown ==
    [begin |-> "children", children |-> "context", context |-> "handlers",
     handlers |-> "middleware", middleware |-> "modules", modules |-> "complete"]

After(phase) == IF message = "startup" THEN AfterStartup[phase] ELSE AfterShutdown[phase]

\* A call goes on to the next phase, and completes after the last one.
Advance(c, phase) ==
    LET a == AppOf(c) IN
    IF After(phase) # "complete"
    THEN /\ pc' = [pc EXCEPT ![c] = After(phase)]
         /\ UNCHANGED <<status, lock, outcome>>
    ELSE /\ pc' = [pc EXCEPT ![c] = "returned"]
         /\ outcome' = [outcome EXCEPT ![c] = "complete"]
         /\ status' = [status EXCEPT ![a] = IF message = "startup" THEN "READY" ELSE "SHUT_DOWN"]
         /\ lock' = [lock EXCEPT ![a] = Free]

\* Mutant of Return: the lock is kept.
ReturnHolding(c) ==
    /\ pc' = [pc EXCEPT ![c] = "returned"]
    /\ outcome' = [outcome EXCEPT ![c] = "failed"]
    /\ UNCHANGED lock

\* The call returns by an exception, releasing the lock if it holds it.
Return(c) ==
    /\ pc' = [pc EXCEPT ![c] = "returned"]
    /\ outcome' = [outcome EXCEPT ![c] = "failed"]
    /\ lock' = [lock EXCEPT ![AppOf(c)] = IF @ = c THEN Free ELSE @]

\* `except BaseException`.
Fail(c) ==
    /\ Return(c)
    /\ status' = [status EXCEPT ![AppOf(c)] = "FAILED"]
    /\ UNCHANGED <<world, server>>

-----------------------------------------------------------------------------

Accepts(s) ==
    IF message = "startup" THEN s \in {"NOT_STARTED", "SHUT_DOWN"} ELSE s = "READY"

\* The lock is taken and the status looked at.
Begin(c) ==
    LET a == AppOf(c) IN
    /\ pc[c] = "locking"
    /\ lock[a] = Free
    /\ IF Accepts(status[a])
       THEN /\ pc' = [pc EXCEPT ![c] = After("begin")]
            /\ lock' = [lock EXCEPT ![a] = c]
            /\ status' = [status EXCEPT ![a] =
                            IF message = "startup" THEN "STARTING" ELSE "SHUTTING_DOWN"]
            /\ UNCHANGED outcome
       ELSE Return(c) /\ UNCHANGED status
    /\ UNCHANGED <<world, server>>

Waiting(a) == IF message = "startup" THEN (1..Modules) \ modules[a] ELSE modules[a]

\* The next module's on_startup or on_shutdown, in the order of registration.
ModuleHook(c) ==
    LET a == AppOf(c) IN
    /\ pc[c] = "modules"
    /\ \/ /\ \E i \in Waiting(a) :
               /\ \A j \in Waiting(a) : i <= j
               /\ modules' = [modules EXCEPT ![a] =
                                IF message = "startup" THEN @ \cup {i} ELSE @ \ {i}]
          /\ UNCHANGED <<status, lock, pc, outcome>>
       \/ /\ Waiting(a) = {}
          /\ Advance(c, "modules")
          /\ UNCHANGED modules
    /\ UNCHANGED <<middleware, context, server>>

MiddlewareHook(c) ==
    /\ pc[c] = "middleware"
    /\ middleware' = [middleware EXCEPT ![AppOf(c)] = (message = "startup")]
    /\ Advance(c, "middleware")
    /\ UNCHANGED <<modules, context, server>>

\* The user's event handlers, in run_task_group. On 3.10 a handler that raises is
\* lost in its task, and the phase is over like after one that did not.
Handlers(c) ==
    /\ pc[c] = "handlers"
    /\ Advance(c, "handlers")
    /\ UNCHANGED <<world, server>>

\* The user's lifespan is entered, or the instance entered is exited.
Context(c) ==
    /\ pc[c] = "context"
    /\ context' = [context EXCEPT ![AppOf(c)] = IF message = "startup" THEN @ + 1 ELSE 0]
    /\ Advance(c, "context")
    /\ UNCHANGED <<modules, middleware, server>>

\* A hook of the phase raises; on 3.10 a handler does only where the call that
\* makes its task raises.
HookFails(c) ==
    /\ HooksFail
    /\ pc[c] \in Hooks
    /\ Fail(c)

\* _child_propagation starts the calls of the mounts.
Propagate(c) ==
    /\ pc[c] = "children"
    /\ \A m \in Spawned(c) : pc[m] = "idle"
    /\ Spawned(c) # {}
    /\ pc' = [x \in Calls |-> IF x \in Spawned(c) THEN "locking" ELSE pc[x]]
    /\ UNCHANGED <<status, world, lock, outcome, server>>

\* Mutant of Join: a TaskGroup that does not look at the outcome of the children.
JoinBlindly(c) ==
    /\ pc[c] = "children"
    /\ \A m \in Spawned(c) : pc[m] = "returned"
    /\ Advance(c, "children")
    /\ UNCHANGED <<world, server>>

\* All children have returned. A TaskGroup raises if one of them did; asyncio.wait
\* does not, and the outcomes stay in the tasks, which nobody looks at.
Join(c) ==
    /\ pc[c] = "children"
    /\ \A m \in Spawned(c) : pc[m] = "returned"
    /\ IF grouped /\ \E m \in Spawned(c) : outcome[m] = "failed"
       THEN Fail(c)
       ELSE Advance(c, "children") /\ UNCHANGED <<world, server>>

\* A TaskGroup cancels a child's call because another one raised: at the lock it
\* just leaves, later the CancelledError is a failure like another.
Cancel(m) ==
    /\ grouped
    /\ \E other \in mounted \ {m} : pc[other] = "returned" /\ outcome[other] = "failed"
    /\ \/ pc[m] = "locking" /\ Return(m) /\ UNCHANGED <<status, world, server>>
       \/ pc[m] \in Phases /\ Fail(m)

-----------------------------------------------------------------------------

\* The server sends a message once the last one is answered.
Send(kind) ==
    /\ messages < MaxMessages
    /\ OneCall => messages = 0
    /\ pc[Root] \in {"idle", "returned"}
    /\ message' = kind
    /\ messages' = messages + 1
    /\ pc' = [c \in Calls |-> IF c = Root THEN "locking" ELSE "idle"]
    /\ outcome' = [c \in Calls |-> "none"]
    /\ UNCHANGED <<status, world, lock, site>>

Init ==
    /\ status = [a \in Apps |-> "NOT_STARTED"]
    /\ modules = [a \in Apps |-> {}]
    /\ middleware = [a \in Apps |-> FALSE]
    /\ context = [a \in Apps |-> 0]
    /\ lock = [a \in Apps |-> Free]
    /\ pc = [c \in Calls |-> "idle"]
    /\ outcome = [c \in Calls |-> "none"]
    /\ message = "startup" /\ messages = 0
    /\ grouped \in BOOLEAN /\ mounted \in Trees

Step(c) ==
    \/ Begin(c) \/ ModuleHook(c) \/ MiddlewareHook(c) \/ Handlers(c) \/ Context(c)
    \/ HookFails(c) \/ Propagate(c) \/ Join(c)

Next ==
    \/ \E c \in Calls : Step(c)
    \/ \E m \in mounted : Cancel(m)
    \/ \E kind \in {"startup", "shutdown"} : Send(kind)

\* The loop runs every call, hooks return or raise, and a server that calls the
\* application once does stop it.
Spec ==
    /\ Init /\ [][Next]_vars
    /\ \A c \in Calls : WF_vars(Step(c))
    /\ WF_vars(OneCall /\ Send("shutdown"))

-----------------------------------------------------------------------------
(* Properties *)

TypeOK ==
    /\ status \in [Apps -> Status]
    /\ modules \in [Apps -> SUBSET (1..Modules)]
    /\ middleware \in [Apps -> BOOLEAN]
    /\ context \in [Apps -> {0, 1}]
    /\ lock \in [Apps -> Calls \cup {Free}]
    /\ pc \in [Calls -> Phases \cup {"idle", "locking", "returned"}]
    /\ outcome \in [Calls -> {"none", "complete", "failed"}]
    /\ message \in {"startup", "shutdown"}
    /\ messages \in 0..MaxMessages
    /\ grouped \in BOOLEAN /\ mounted \in Trees

Up(a) == modules[a] = 1..Modules /\ middleware[a] /\ context[a] = 1
Down(a) == modules[a] = {} /\ ~middleware[a] /\ context[a] = 0

\* What a mount may be under a root that got to a status: as far, or, where nobody
\* looks at the outcome of the mounts, failed.
Follows(m, reached) ==
    status[AppOf(m)] = reached \/ (~grouped /\ status[AppOf(m)] = "FAILED")

\* A ready application has every hook of its own run, and a ready root has
\* every mounted application ready: children are propagated to before READY. On
\* Python 3.10 a mount of a ready root may have failed instead.
ReadyMeansUp ==
    \A a \in Apps : status[a] = "READY" =>
        Up(a) /\ (a = Root => \A m \in mounted : Follows(m, "READY"))

\* An application that was shut down left nothing up, nor did its mounts, but for
\* the mounts that failed on Python 3.10.
ShutDownMeansDown ==
    \A a \in Apps : status[a] = "SHUT_DOWN" =>
        Down(a) /\ (a = Root => \A m \in mounted : Follows(m, "SHUT_DOWN"))

\* The status tells the truth about the application and, as far as the version of
\* Python lets it, about its mounts.
StatusTells == ReadyMeansUp /\ ShutDownMeansDown

\* What READY says of the mounts where a TaskGroup joins them, whatever the version:
\* asyncio.wait leaves a failed mount under a ready root.
ReadyMeansAllReady ==
    status[Root] = "READY" => \A m \in mounted : status[AppOf(m)] = "READY"

\* "Initialise the framework lifecycle first, as a barrier", and "tear down the
\* framework lifecycle last": the user's context lives on top of modules and
\* middleware that are all up.
ContextOnTop ==
    \A a \in Apps : context[a] > 0 => modules[a] = 1..Modules /\ middleware[a]

\* A mounted application is only ever up inside its parent's life: it is not
\* starting, ready or shutting down unless the root's framework is up.
ChildInsideParent ==
    \A a \in Apps \ {Root} : status[a] \in {"STARTING", "SHUTTING_DOWN"} => Up(Root)

\* The lifetimes are nested: the user's context in the framework's, and every
\* mounted application in its parent.
LifetimesNest == ContextOnTop /\ ChildInsideParent

\* One call at a time changes an application (the lock), seen from the status.
OneAtATime ==
    \A c, d \in Calls :
        c # d /\ AppOf(c) = AppOf(d) => ~(pc[c] \in Phases /\ pc[d] \in Phases)

\* Failure is final: no message brings a failed application back.
FailedIsFinal == [][\A a \in Apps : status[a] = "FAILED" => status'[a] = "FAILED"]_vars

\* Every message is answered: no lock, group or cancellation holds it up.
EveryMessageAnswered == (pc[Root] = "locking") ~> (pc[Root] = "returned")

\* A server that speaks the ASGI lifespan protocol (one call for the life of
\* the application) can bring the application down again.
ServerCanStop == (status[Root] = "READY" /\ OneCall) ~> (status[Root] # "READY")
=============================================================================
