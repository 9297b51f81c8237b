-------------------------------- MODULE Mcp ---------------------------------
(***************************************************************************)
(* flama.mcp: servers of the Model Context Protocol, what is registered on *)
(* them, the checks of a JSON-RPC request, and the tool calls that outlive *)
(* their request as tasks.                                                 *)
(*                                                                         *)
(* A handle is a tool call: the id of its task, or what a client keeps of  *)
(* a call that is answered with a question. The in-memory store never      *)
(* suspends, so a handler of the endpoint is one step; the handler of a    *)
(* tool is not: it is started, runs, and returns, asks, raises or is       *)
(* cancelled. Tools, resources and prompts are user code: their outcome is *)
(* any, and a stubborn tool survives its cancellation.                     *)
(***************************************************************************)
EXTENDS FiniteSets, Integers

CONSTANTS
    Servers,    \* names of the servers of the module
    Entries,    \* what may be registered: records of kind, key, task and stubborn
    Requests,   \* what clients send: see Refusal
    Handles,    \* bound on the tool calls
    Questions,  \* what a tool may ask
    Values,     \* what a client may answer to a question
    Replies     \* the answers one request may carry

Answers == UNION {[asked -> Values] : asked \in SUBSET Questions}
Stateless == [q \in {} |-> q]
ASSUME EntriesAssumption == \A e \in Entries : e.task \in BOOLEAN /\ e.stubborn \in BOOLEAN
ASSUME RequestsAssumption == \A r \in Requests : r.server \in Servers
ASSUME RepliesAssumption == Replies \subseteq Answers

VARIABLES
    entries,   \* per server: _tools, _resources, _prompts and _app_templates
    calls,     \* per handle: the call or task
    answer     \* the last answer of an endpoint: its request and its code

vars == <<entries, calls, answer>>

Merge(prior, new) == [q \in DOMAIN prior \cup DOMAIN new |-> IF q \in DOMAIN new THEN new[q] ELSE prior[q]]

NoRequest == [id |-> FALSE]
NoTool == [key |-> "", stubborn |-> FALSE]
Unused == [kind |-> "unused", server |-> "", tool |-> NoTool, request |-> NoRequest, status |-> "none",
           runner |-> "none", input |-> Stateless, state |-> Stateless, given |-> Stateless]
Init ==
    /\ entries = [s \in Servers |-> {}]
    /\ calls = [h \in Handles |-> Unused]
    /\ answer = [code |-> "none"]

-----------------------------------------------------------------------------
(* Registration: MCPModule and MCPServer *)

\* The server an entry goes to: the named one, or the only one.
Resolve(mcp) == IF mcp # "" THEN {mcp} \cap Servers ELSE IF Cardinality(Servers) = 1 THEN Servers ELSE {}

Lookup(s, kind, key) == {e \in entries[s] : e.kind = kind /\ e.key = key}
Add(e, mcp) ==
    /\ \E s \in Resolve(mcp) :
          entries' = [entries EXCEPT ![s] = (@ \ Lookup(s, e.kind, e.key)) \cup {e}]
    /\ UNCHANGED <<calls, answer>>

-----------------------------------------------------------------------------
(* The checks of a request, in their order: JSONRPCEndpoint.dispatch, the  *)
(* components it injects and MCPEndpoint.resolve_handler                   *)

Supported == {"2026-07-28"}
NameSources == {"tools/call", "prompts/get", "resources/read"}
Lists == {"ping", "tools/list", "resources/list", "resources/templates/list", "prompts/list", "server/discover"}
Methods == NameSources \cup Lists \cup {"tasks/get", "tasks/update", "tasks/cancel"}

Parses(r) == r.envelope \notin {"no json", "no object"}
\* Mutant of HeadersAgree: the name a gateway routed by is not compared.
HeadersAgreeOnMethod(r) ==
    r.headers.method = r.method /\ (r.headers.version = "" \/ r.version = "" \/ r.headers.version = r.version)

HeadersAgree(r) ==
    /\ r.headers.method = r.method
    /\ r.method \in NameSources => r.headers.name # "" /\ r.headers.name = r.target
    /\ r.headers.version = "" \/ r.version = "" \/ r.headers.version = r.version
Version(r) == IF r.headers.version # "" THEN r.headers.version ELSE r.version

Refusal(r) ==
    IF ~Parses(r) THEN (IF r.envelope = "no json" THEN "parse error" ELSE "server error")
    ELSE IF r.envelope = "incomplete" THEN "invalid request"
    ELSE IF ~HeadersAgree(r) THEN "invalid params"
    ELSE IF r.method # "server/discover" /\ Version(r) \notin Supported \cup {""} THEN "unsupported version"
    ELSE IF r.method \notin Methods THEN "method not found"
    ELSE "none"

\* The status of an answer and whether it names the id of the request: a
\* notification that succeeds is only accepted, one that fails is answered.
Reply(r, code) ==
    answer' = [request |-> r, code |-> IF code = "result" /\ ~r.id THEN "accepted" ELSE code,
               named |-> r.id /\ code \notin {"parse error", "server error"}]

Refuse(r) == Refusal(r) # "none" /\ Reply(r, Refusal(r)) /\ UNCHANGED <<entries, calls>>

Accepted(r, method) == r.method = method /\ Refusal(r) = "none"

\* Handlers that only read; a user handler may raise.
Read(r) ==
    /\ UNCHANGED <<entries, calls>>
    /\ \/ \E m \in Lists : Accepted(r, m) /\ Reply(r, "result")
       \/ /\ Accepted(r, "resources/read")
          /\ \E code \in IF Lookup(r.server, "resource", r.target) \cup Lookup(r.server, "template", r.target) = {}
                          THEN {"invalid params"} ELSE {"result", "internal error"} : Reply(r, code)
       \/ /\ Accepted(r, "prompts/get")
          /\ \E code \in IF Lookup(r.server, "prompt", r.target) = {}
                          THEN {"invalid params"} ELSE {"result", "internal error"} : Reply(r, code)

-----------------------------------------------------------------------------
(* Tool calls and tasks *)

\* RequestState.decode of the token a client echoes: the answers the server
\* put in it, or nothing when it is absent or no token of the server's.
Decoded(h, token) == IF token = "held" THEN calls[h].state ELSE Stateless

\* A call that starts: prior is what the server still knows of the client's
\* answers, told what the client has told it.
Started(kind, server, tool, request, new, prior, told) ==
    [kind |-> kind, server |-> server, tool |-> tool, request |-> request,
     status |-> IF kind = "task" THEN "working" ELSE "none",
     runner |-> IF kind = "task" THEN "new" ELSE "run",
     input |-> Merge(prior, new), state |-> Stateless, given |-> Merge(told, new)]

\* What becomes of a call: its answers stay what they are.
Moved(c, kind, status, runner, state) ==
    [kind |-> kind, server |-> c.server, tool |-> c.tool, request |-> NoRequest, status |-> status,
     runner |-> runner, input |-> c.input, state |-> state, given |-> c.given]

\* tools/call: a new call, or one that was answered with a question and comes
\* again with the token and the client's answers. A client that does not echo
\* its token starts over.
ToolsCall(r, h, new) ==
    /\ Accepted(r, "tools/call")
    /\ calls[h].kind \in {"unused", "asked"}
    /\ r.token = "held" => calls[h].kind = "asked" /\ calls[h].server = r.server
    /\ UNCHANGED entries
    /\ LET found == Lookup(r.server, "tool", r.target)
           prior == Decoded(h, r.token)
           told == IF r.token = "held" THEN calls[h].given ELSE Stateless
       IN  \/ found = {} /\ Reply(r, "invalid params") /\ UNCHANGED calls
           \/ \E e \in found :
                 IF e.task /\ r.tasks
                 THEN /\ calls' = [calls EXCEPT ![h] = Started("task", r.server, e, NoRequest, new, prior, told)]
                      /\ Reply(r, "result")
                 ELSE /\ calls' = [calls EXCEPT ![h] = Started("call", r.server, e, r, new, prior, told)]
                      /\ UNCHANGED answer

TasksGet(r, h) ==
    /\ Accepted(r, "tasks/get")
    /\ Reply(r, IF calls[h].kind = "task" /\ calls[h].server = r.server THEN "result" ELSE "invalid params")
    /\ UNCHANGED <<entries, calls>>

\* Mutants of Resumed: only the new answers reach the tool; nobody drives the
\* task on.
ResumedFresh(c, e, new) == Started("task", c.server, e, NoRequest, new, Stateless, c.given)
ResumedAlone(c, e, new) ==
    [Started("task", c.server, e, NoRequest, new, c.state, c.given) EXCEPT !.runner = c.runner]

Resumed(c, e, new) == Started("task", c.server, e, NoRequest, new, c.state, c.given)

TasksUpdate(r, h, new) ==
    /\ Accepted(r, "tasks/update")
    /\ UNCHANGED entries
    /\ IF calls[h].kind = "task" /\ calls[h].server = r.server /\ calls[h].status = "input_required"
           /\ Lookup(r.server, "tool", calls[h].tool.key) # {}
       THEN \E e \in Lookup(r.server, "tool", calls[h].tool.key) :
               calls' = [calls EXCEPT ![h] = Resumed(@, e, new)] /\ Reply(r, "result")
       ELSE Reply(r, "invalid params") /\ UNCHANGED calls

\* The runner is cancelled where it is suspended; one that has not started
\* never will. The status of a finished task is overwritten all the same.
\* Mutant of Cancelled: the runner goes on.
CancelledOnPaper(c) == [c EXCEPT !.status = "cancelled"]

Cancelled(c) ==
    Moved(c, "task", "cancelled",
          CASE c.runner = "new" -> "done" [] c.runner = "run" -> "cancelling" [] OTHER -> c.runner, c.state)

TasksCancel(r, h) ==
    /\ Accepted(r, "tasks/cancel")
    /\ UNCHANGED entries
    /\ IF calls[h].kind = "task" /\ calls[h].server = r.server
       THEN calls' = [calls EXCEPT ![h] = Cancelled(@)] /\ Reply(r, "result")
       ELSE Reply(r, "invalid params") /\ UNCHANGED calls

\* _run_tool_task: a task takes its first step after the request that
\* created it was answered.
RunnerStarts(h) ==
    /\ calls[h].runner = "new"
    /\ calls' = [calls EXCEPT ![h].runner = "run"]
    /\ UNCHANGED <<entries, answer>>

Ends(h, kind, status, state) == calls' = [calls EXCEPT ![h] = Moved(@, kind, status, "done", state)]

\* The tool of a task returns, asks or raises. When it is being cancelled,
\* only a stubborn one does.
TaskToolEnds(h) ==
    LET c == calls[h]
    IN  /\ c.kind = "task"
        /\ c.runner = "run" \/ (c.runner = "cancelling" /\ c.tool.stubborn)
        /\ \/ Ends(h, "task", "completed", c.state)
           \/ Ends(h, "task", "failed", c.state)
           \/ Ends(h, "task", "input_required", c.input)
        /\ UNCHANGED <<entries, answer>>

TaskCancelled(h) ==
    /\ calls[h].runner = "cancelling"
    /\ Ends(h, "task", "cancelled", calls[h].state)
    /\ UNCHANGED <<entries, answer>>

\* The tool of a plain call ends inside its request.
CallToolEnds(h) ==
    LET c == calls[h]
    IN  /\ c.kind = "call"
        /\ \/ Ends(h, "asked", "none", c.input) /\ Reply(c.request, "result")
           \/ Ends(h, "answered", "none", c.state) /\ Reply(c.request, "result")
           \/ Ends(h, "answered", "none", c.state) /\ Reply(c.request, "internal error")
        /\ UNCHANGED entries

Serve(r) ==
    \/ Refuse(r) \/ Read(r)
    \/ \E h \in Handles :
          \/ TasksGet(r, h) \/ TasksCancel(r, h)
          \/ \E new \in Replies : ToolsCall(r, h, new) \/ TasksUpdate(r, h, new)
Drive(h) == CallToolEnds(h) \/ RunnerStarts(h) \/ TaskToolEnds(h) \/ TaskCancelled(h)
Register == \E e \in Entries, mcp \in Servers \cup {""} : Add(e, mcp)

Next == Register \/ (\E r \in Requests : Serve(r)) \/ (\E h \in Handles : Drive(h))
Spec == Init /\ [][Next]_vars

-----------------------------------------------------------------------------
(* Properties *)

\* Nobody else takes a task on: one that says it is working has a runner that
\* lives, and is not about to be cancelled; one that asks has none
\* (_run_tool_task, tasks_update).
WorkingIsDriven ==
    \A h \in Handles : calls[h].kind = "task" =>
       /\ calls[h].status = "working" => calls[h].runner \in {"new", "run"}
       /\ calls[h].status = "input_required" => calls[h].runner = "done"

\* A tool sees every answer the client gave it in this exchange, the latest to
\* each question, over any number of rounds and whether they are kept in the
\* task or in the token the client echoes (_combined_responses, tasks_update).
AnswersKept ==
    \A h \in Handles :
       /\ calls[h].runner \in {"new", "run", "cancelling"} => calls[h].input = calls[h].given
       /\ calls[h].kind = "asked" \/ calls[h].status = "input_required" => calls[h].state = calls[h].given

\* A task whose cancellation was acknowledged stays cancelled, at whatever
\* point its runner was, unless its tool swallows the cancellation
\* (tasks_cancel, _run_tool_task).
CancelledStays ==
    [][\A h \in Handles :
          calls[h].status = "cancelled" /\ ~calls[h].tool.stubborn => calls'[h].status = "cancelled"]_vars

\* What a gateway that routes by the headers saw is what ran: nothing was
\* answered, and no tool was started, on a request whose headers name another
\* method, entry or version, or a version the server does not speak.
Vouched ==
    answer.code \in {"result", "accepted"} =>
       LET r == answer.request
       IN  /\ r.headers.method = r.method
           /\ r.method \in NameSources => r.headers.name = r.target
           /\ r.method # "server/discover" => {r.headers.version, r.version} \subseteq Supported \cup {""}
           /\ r.id <=> (answer.code = "result")
=============================================================================
