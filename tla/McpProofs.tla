----------------------------- MODULE McpProofs ------------------------------
(***************************************************************************)
(* Theorems about the tool calls of an MCP server, for any servers,        *)
(* entries, requests, questions and answers, and any number of calls.      *)
(*                                                                         *)
(* The invariant speaks of one call at a time (Sound). A step replaces one *)
(* call: it is proved of the call it makes from the one it found, and      *)
(* CallStep lifts that to all of them. Trusted adds the request that each  *)
(* call and each answer was accepted for.                                  *)
(***************************************************************************)
EXTENDS Mcp, TLAPS

Call ==
    [kind : {"unused", "call", "asked", "answered", "task"}, server : Servers \cup {""},
     tool : Entries \cup {NoTool}, request : Requests \cup {NoRequest},
     status : {"none", "working", "input_required", "completed", "failed", "cancelled"},
     runner : {"none", "new", "run", "cancelling", "done"}, input : Answers, state : Answers, given : Answers]

Live(c) == c.runner \in {"new", "run", "cancelling"}
Sound(c) ==
    /\ c \in Call
    /\ c.kind # "task" => c.status = "none" /\ c.runner \notin {"new", "cancelling"}
    /\ c.kind = "task" => c.runner # "none" /\ c.status # "none"
    /\ c.kind = "asked" => c.runner = "done"
    /\ c.kind = "call" => c.runner = "run"
    /\ c.status = "working" => c.runner \in {"new", "run"}
    /\ c.status = "input_required" => c.runner = "done"
    /\ c.status = "cancelled" => c.runner \in {"cancelling", "done"}
    /\ c.runner = "cancelling" => c.status = "cancelled"
    /\ Live(c) => c.input = c.given
    /\ c.kind = "asked" \/ c.status = "input_required" => c.state = c.given

\* What a step may do to one call besides keeping it sound.
Kept(c, d) == c.status = "cancelled" /\ ~c.tool.stubborn => d.status = "cancelled"

Inv ==
    /\ entries \in [Servers -> SUBSET Entries]
    /\ calls \in [Handles -> Call]
    /\ \A h \in Handles : Sound(calls[h])
AllKept == \A h \in Handles : Kept(calls[h], calls'[h])

-----------------------------------------------------------------------------
(* Answers *)

\* A client that carries no state has answered nothing.
LEMMA StatelessAnswers == Stateless \in Answers
<1>1. Stateless \in [{} -> Values]
  BY DEF Stateless
<1>. QED
  BY <1>1 DEF Answers

\* Two sets of answers merge into one.
LEMMA MergeAnswers == \A f, g \in Answers : Merge(f, g) \in Answers
<1> SUFFICES ASSUME NEW f \in Answers, NEW g \in Answers PROVE Merge(f, g) \in Answers
  OBVIOUS
<1>1. PICK A \in SUBSET Questions : f \in [A -> Values]
  BY DEF Answers
<1>2. PICK B \in SUBSET Questions : g \in [B -> Values]
  BY DEF Answers
<1>3. Merge(f, g) \in [A \cup B -> Values]
  BY <1>1, <1>2 DEF Merge
<1>. QED
  BY <1>3, A \cup B \in SUBSET Questions DEF Answers

-----------------------------------------------------------------------------
(* One call *)

\* A handle nobody used is sound.
LEMMA UnusedSound == Sound(Unused)
BY StatelessAnswers DEF Sound, Call, Live, Unused

\* A call that starts knows what its client told, when the server's part of it
\* is what the client had told.
LEMMA StartedSound ==
    ASSUME NEW kind \in {"task", "call"}, NEW s \in Servers \cup {""}, NEW e \in Entries \cup {NoTool},
           NEW r \in Requests \cup {NoRequest}, NEW new \in Answers, NEW told \in Answers
    PROVE  Sound(Started(kind, s, e, r, new, told, told))
<1>1. Merge(told, new) \in Answers
  BY MergeAnswers
<1>. QED
  BY <1>1, StatelessAnswers DEF Sound, Call, Live, Started

\* A task that takes up its input again starts with all its client answered.
LEMMA ResumedSound ==
    ASSUME NEW c, Sound(c), c.status = "input_required", NEW e \in Entries, NEW new \in Answers
    PROVE  Sound(Resumed(c, e, new))
<1>1. c.state = c.given /\ c.given \in Answers /\ c.server \in Servers \cup {""}
  BY DEF Sound, Call
<1>. QED
  BY <1>1, StartedSound DEF Resumed

\* tasks_cancel leaves a sound call, and it is cancelled.
LEMMA CancelledSound ==
    ASSUME NEW c, Sound(c), c.kind = "task"
    PROVE  Sound(Cancelled(c)) /\ Kept(c, Cancelled(c))
<1> DEFINE runner == CASE c.runner = "new" -> "done" [] c.runner = "run" -> "cancelling" [] OTHER -> c.runner
<1>1. Cancelled(c) = Moved(c, "task", "cancelled", runner, c.state)
  BY DEF Cancelled
<1>2. runner \in {"cancelling", "done"} /\ (runner = "cancelling" => Live(c))
  BY DEF Sound, Call, Live
<1> HIDE DEF runner
<1>3. Sound(Moved(c, "task", "cancelled", runner, c.state))
  BY <1>2 DEF Sound, Call, Live, Moved
<1>4. Moved(c, "task", "cancelled", runner, c.state).status = "cancelled"
  BY DEF Moved
<1>. QED
  BY <1>1, <1>3, <1>4 DEF Kept

\* A runner that ends leaves a sound call, and undoes no cancellation its tool honours.
LEMMA EndedSound ==
    ASSUME NEW c, Sound(c), c.runner # "cancelling" \/ c.tool.stubborn, c.status # "cancelled" \/ c.tool.stubborn,
           NEW kind \in {"task", "asked", "answered"},
           NEW status \in {"none", "completed", "failed", "input_required"}, kind = "task" <=> status # "none",
           NEW state \in {c.input, c.state}, Live(c),
           kind = "asked" \/ status = "input_required" => state = c.input
    PROVE  Sound(Moved(c, kind, status, "done", state)) /\ Kept(c, Moved(c, kind, status, "done", state))
BY DEF Sound, Call, Live, Moved, Kept

-----------------------------------------------------------------------------
(* One step *)

\* A step that replaces one call by a sound one keeps the invariant.
LEMMA CallStep ==
    ASSUME Inv, NEW h \in Handles, NEW d, Sound(d), Kept(calls[h], d),
           calls' = [calls EXCEPT ![h] = d], UNCHANGED entries
    PROVE  Inv' /\ AllKept
<1>1. d \in Call
  BY DEF Sound
<1>2. calls' \in [Handles -> Call]
  BY <1>1 DEF Inv
<1>3. \A g \in Handles : calls'[g] = IF g = h THEN d ELSE calls[g]
  BY DEF Inv
<1>4. \A g \in Handles : Sound(calls'[g])
  BY <1>3 DEF Inv
<1>5. \A g \in Handles : Kept(calls[g], calls'[g])
  BY <1>3 DEF Kept
<1>. QED
  BY <1>2, <1>4, <1>5 DEF Inv, AllKept

\* So does one that changes no call.
LEMMA NoCallStep ==
    ASSUME Inv, UNCHANGED calls, entries' \in [Servers -> SUBSET Entries]
    PROVE  Inv' /\ AllKept
BY DEF Inv, AllKept, Kept

\* What a lookup finds was registered.
LEMMA LookupEntries ==
    ASSUME Inv, NEW s \in Servers, NEW kind, NEW key PROVE Lookup(s, kind, key) \subseteq Entries
BY DEF Inv, Lookup

\* tools_call: a new call, or one that was asked and takes up its answers.
LEMMA ToolsCallStep ==
    ASSUME Inv, NEW r \in Requests, NEW h \in Handles, NEW new \in Replies, ToolsCall(r, h, new)
    PROVE  Inv' /\ AllKept
<1> DEFINE told == IF r.token = "held" THEN calls[h].given ELSE Stateless
<1>1. Sound(calls[h]) /\ calls[h].kind \in {"unused", "asked"} /\ UNCHANGED entries /\ r.server \in Servers
  BY RequestsAssumption DEF Inv, ToolsCall
<1>2. Decoded(h, r.token) = told
  BY <1>1 DEF Decoded, Sound, ToolsCall
<1>3. told \in Answers /\ new \in Answers
  BY <1>1, StatelessAnswers, RepliesAssumption DEF Sound, Call
<1>4. \A d : Kept(calls[h], d)
  BY <1>1 DEF Sound, Kept
<1>5. CASE UNCHANGED calls
  BY <1>1, <1>5, NoCallStep DEF Inv
<1>6. ASSUME NEW e \in Lookup(r.server, "tool", r.target), NEW kind \in {"task", "call"},
             NEW q \in Requests \cup {NoRequest},
             calls' = [calls EXCEPT ![h] = Started(kind, r.server, e, q, new, told, told)]
      PROVE  Inv' /\ AllKept
  <2>1. e \in Entries
    BY <1>1, LookupEntries
  <2>2. Sound(Started(kind, r.server, e, q, new, told, told))
    BY <1>1, <1>3, <2>1, StartedSound
  <2>. QED
    BY <1>1, <1>4, <1>6, <2>2, CallStep
<1> HIDE DEF told
<1>7. \/ UNCHANGED calls
      \/ \E e \in Lookup(r.server, "tool", r.target) :
            \/ calls' = [calls EXCEPT ![h] = Started("task", r.server, e, NoRequest, new, told, told)]
            \/ calls' = [calls EXCEPT ![h] = Started("call", r.server, e, r, new, told, told)]
  BY <1>2 DEF ToolsCall, told
<1>. QED
  BY <1>5, <1>6, <1>7

\* tasks_update: the task runs again with the new answers, or nothing changes.
LEMMA TasksUpdateStep ==
    ASSUME Inv, NEW r \in Requests, NEW h \in Handles, NEW new \in Replies, TasksUpdate(r, h, new)
    PROVE  Inv' /\ AllKept
<1>1. Sound(calls[h]) /\ UNCHANGED entries /\ r.server \in Servers /\ new \in Answers
  BY RequestsAssumption, RepliesAssumption DEF Inv, TasksUpdate
<1>2. CASE UNCHANGED calls
  BY <1>1, <1>2, NoCallStep DEF Inv
<1>3. ASSUME calls[h].status = "input_required", NEW e \in Lookup(r.server, "tool", calls[h].tool.key),
             calls' = [calls EXCEPT ![h] = Resumed(calls[h], e, new)]
      PROVE  Inv' /\ AllKept
  <2>1. e \in Entries
    BY <1>1, LookupEntries
  <2>2. Sound(Resumed(calls[h], e, new))
    BY <1>1, <1>3, <2>1, ResumedSound
  <2>3. Kept(calls[h], Resumed(calls[h], e, new))
    BY <1>3 DEF Kept
  <2>. QED
    BY <1>1, <1>3, <2>2, <2>3, CallStep
<1>4. \/ UNCHANGED calls
      \/ /\ calls[h].status = "input_required"
         /\ \E e \in Lookup(r.server, "tool", calls[h].tool.key) :
               calls' = [calls EXCEPT ![h] = Resumed(calls[h], e, new)]
  BY DEF TasksUpdate, Inv
<1>. QED
  BY <1>2, <1>3, <1>4

\* tasks_cancel: the task is cancelled, or nothing changes.
LEMMA TasksCancelStep ==
    ASSUME Inv, NEW r \in Requests, NEW h \in Handles, TasksCancel(r, h)
    PROVE  Inv' /\ AllKept
<1>1. Sound(calls[h]) /\ UNCHANGED entries
  BY DEF Inv, TasksCancel
<1>2. CASE UNCHANGED calls
  BY <1>1, <1>2, NoCallStep DEF Inv
<1>3. CASE calls[h].kind = "task" /\ calls' = [calls EXCEPT ![h] = Cancelled(calls[h])]
  BY <1>1, <1>3, CancelledSound, CallStep
<1>. QED
  BY <1>2, <1>3 DEF TasksCancel, Inv

\* The steps of a runner: its start, the end of its tool and its cancellation.
LEMMA DriveStep ==
    ASSUME Inv, NEW h \in Handles, Drive(h)
    PROVE  Inv' /\ AllKept
<1>1. Sound(calls[h]) /\ calls[h] \in Call /\ UNCHANGED entries
  BY DEF Inv, Sound, Drive, RunnerStarts, TaskToolEnds, TaskCancelled, CallToolEnds
<1>2. CASE RunnerStarts(h)
  <2> DEFINE d == [calls[h] EXCEPT !.runner = "run"]
  <2>1. calls' = [calls EXCEPT ![h] = d]
    BY <1>2 DEF RunnerStarts
  <2>2. Sound(d) /\ Kept(calls[h], d)
    BY <1>1, <1>2 DEF RunnerStarts, Sound, Call, Live, Kept
  <2>. QED
    BY <1>1, <2>1, <2>2, CallStep
<1>3. ASSUME NEW kind, NEW status, NEW state, Ends(h, kind, status, state),
             Sound(Moved(calls[h], kind, status, "done", state)),
             Kept(calls[h], Moved(calls[h], kind, status, "done", state))
      PROVE  Inv' /\ AllKept
  <2>1. calls' = [calls EXCEPT ![h] = Moved(calls[h], kind, status, "done", state)]
    BY <1>3 DEF Ends, Inv
  <2>. QED
    BY <1>1, <1>3, <2>1, CallStep
<1>4. CASE TaskToolEnds(h)
  <2>1. /\ Live(calls[h])
        /\ calls[h].runner # "cancelling" \/ calls[h].tool.stubborn
        /\ calls[h].status # "cancelled" \/ calls[h].tool.stubborn
    BY <1>1, <1>4 DEF TaskToolEnds, Live, Sound
  <2>2. CASE Ends(h, "task", "completed", calls[h].state)
    BY <1>1, <1>3, <2>1, <2>2, EndedSound
  <2>3. CASE Ends(h, "task", "failed", calls[h].state)
    BY <1>1, <1>3, <2>1, <2>3, EndedSound
  <2>4. CASE Ends(h, "task", "input_required", calls[h].input)
    BY <1>1, <1>3, <2>1, <2>4, EndedSound
  <2>. QED
    BY <1>4, <2>2, <2>3, <2>4 DEF TaskToolEnds
<1>5. CASE TaskCancelled(h)
  <2> DEFINE d == Moved(calls[h], "task", "cancelled", "done", calls[h].state)
  <2>1. Sound(d) /\ Kept(calls[h], d)
    BY <1>1, <1>5 DEF TaskCancelled, Sound, Call, Live, Moved, Kept
  <2>. QED
    BY <1>3, <1>5, <2>1 DEF TaskCancelled
<1>6. CASE CallToolEnds(h)
  <2>1. Live(calls[h]) /\ calls[h].runner = "run" /\ calls[h].status = "none"
    BY <1>1, <1>6 DEF CallToolEnds, Live, Sound
  <2>2. CASE Ends(h, "asked", "none", calls[h].input)
    BY <1>1, <1>3, <2>1, <2>2, EndedSound
  <2>3. CASE Ends(h, "answered", "none", calls[h].state)
    BY <1>1, <1>3, <2>1, <2>3, EndedSound
  <2>. QED
    BY <1>6, <2>2, <2>3 DEF CallToolEnds
<1>. QED
  BY <1>2, <1>4, <1>5, <1>6 DEF Drive

\* Every step keeps the invariant, and a cancelled task cancelled.
LEMMA NextStep == Inv /\ [Next]_vars => Inv' /\ AllKept
<1> SUFFICES ASSUME Inv, [Next]_vars PROVE Inv' /\ AllKept
  OBVIOUS
<1>1. CASE UNCHANGED vars
  BY <1>1, NoCallStep DEF Inv, vars
<1>2. ASSUME NEW e \in Entries, NEW mcp \in Servers \cup {""}, Add(e, mcp) PROVE Inv' /\ AllKept
  <2>1. PICK s \in Servers : entries' = [entries EXCEPT ![s] = (@ \ Lookup(s, e.kind, e.key)) \cup {e}]
    BY <1>2 DEF Add, Resolve
  <2>. QED
    BY <1>2, <2>1, NoCallStep DEF Add, Inv
<1>3. ASSUME NEW r \in Requests, Serve(r) PROVE Inv' /\ AllKept
  <2>1. CASE Refuse(r) \/ Read(r) \/ \E h \in Handles : TasksGet(r, h)
    BY <2>1, NoCallStep DEF Refuse, Read, TasksGet, Inv
  <2>. QED
    BY <1>3, <2>1, ToolsCallStep, TasksUpdateStep, TasksCancelStep DEF Serve
<1>4. ASSUME NEW h \in Handles, Drive(h) PROVE Inv' /\ AllKept
  BY <1>4, DriveStep
<1>. QED
  BY <1>1, <1>2, <1>3, <1>4 DEF Next, Register

-----------------------------------------------------------------------------
(* Theorems *)

\* Every call is sound in every reachable state: the invariant the others
\* follow from.
THEOREM Inductive == Spec => []Inv
<1>1. Init => Inv
  <2> SUFFICES ASSUME Init PROVE Inv
    OBVIOUS
  <2>1. \A h \in Handles : calls[h] = Unused
    BY DEF Init
  <2>2. Unused \in Call
    BY UnusedSound DEF Sound
  <2>. QED
    BY <2>1, <2>2, UnusedSound DEF Init, Inv
<1>2. Inv /\ [Next]_vars => Inv'
  BY NextStep
<1>. QED
  BY <1>1, <1>2, PTL DEF Spec

\* A task that works has a runner, one that asks has none, for any number of
\* calls and of rounds (_run_tool_task, tasks_update).
THEOREM Driven == Spec => []WorkingIsDriven
<1>1. Inv => WorkingIsDriven
  BY DEF Inv, Sound, WorkingIsDriven
<1>. QED
  BY <1>1, Inductive, PTL

\* Whatever may be asked and answered, a tool sees all its client has told it
\* (_combined_responses, tasks_update).
THEOREM Answered == Spec => []AnswersKept
<1>1. Inv => AnswersKept
  BY DEF Inv, Sound, Live, AnswersKept
<1>. QED
  BY <1>1, Inductive, PTL

\* A cancelled task stays cancelled, wherever its runner was
\* (tasks_cancel, _run_tool_task).
THEOREM Cancellation == Spec => CancelledStays
<1>1. Inv /\ [Next]_vars =>
        [\A h \in Handles :
            calls[h].status = "cancelled" /\ ~calls[h].tool.stubborn => calls'[h].status = "cancelled"]_vars
  BY NextStep DEF AllKept, Kept
<1>. QED
  BY <1>1, Inductive, PTL DEF Spec, CancelledStays

-----------------------------------------------------------------------------
(* Vouched: what is answered with a result had passed every check, and a   *)
(* plain call keeps the request that passed them until its tool ends.      *)

Passed(r) == Refusal(r) = "none"
Sanctioned == \A h \in Handles : calls[h].kind = "call" => Passed(calls[h].request)
Approved ==
    answer.code \in {"result", "accepted"} =>
        Passed(answer.request) /\ (answer.request.id <=> answer.code = "result")
Trusted == Sanctioned /\ Approved

\* What the checks establish.
LEMMA PassedMeans ==
    ASSUME NEW r, Passed(r)
    PROVE  /\ r.headers.method = r.method
           /\ r.method \in NameSources => r.headers.name = r.target
           /\ r.method # "server/discover" => {r.headers.version, r.version} \subseteq Supported \cup {""}
<1>1. HeadersAgree(r) /\ (r.method # "server/discover" => Version(r) \in Supported \cup {""})
  BY DEF Passed, Refusal
<1>. QED
  BY <1>1 DEF HeadersAgree, Version

\* No refusal has the code of a result.
LEMMA RefusalIsNoResult == ASSUME NEW r PROVE Refusal(r) \notin {"result", "accepted"}
BY DEF Refusal

\* An answer is approved when a result is given only to a request that passed.
LEMMA ReplyApproved ==
    ASSUME NEW r, NEW code, Reply(r, code), code # "accepted", code = "result" => Passed(r)
    PROVE  Approved'
<1>1. answer'.request = r /\ answer'.code = IF code = "result" /\ ~r.id THEN "accepted" ELSE code
  BY DEF Reply
<1>2. CASE code = "result"
  <2>1. Passed(r)
    BY <1>2
  <2>2. CASE r.id
    BY <1>1, <1>2, <2>1, <2>2 DEF Approved
  <2>3. CASE ~r.id
    BY <1>1, <1>2, <2>1, <2>3 DEF Approved
  <2>. QED
    BY <2>2, <2>3
<1>3. CASE code # "result"
  BY <1>1, <1>3 DEF Approved
<1>. QED
  BY <1>2, <1>3

\* The lists and the reads change no call.
LEMMA ReadTrusted == ASSUME Trusted, NEW r, Read(r) PROVE Trusted'
<1>1. UNCHANGED calls /\ \E code \in {"result", "invalid params", "internal error"} : Passed(r) /\ Reply(r, code)
  BY DEF Read, Accepted, Passed
<1>2. Approved'
  BY <1>1, ReplyApproved
<1>. QED
  BY <1>1, <1>2 DEF Trusted, Sanctioned

\* A refusal is no result.
LEMMA RefuseTrusted == ASSUME Trusted, NEW r, Refuse(r) PROVE Trusted'
<1>1. Approved' /\ UNCHANGED calls
  BY RefusalIsNoResult, ReplyApproved DEF Refuse
<1>. QED
  BY <1>1 DEF Trusted, Sanctioned

\* A tool is only called for a request that passed the checks of its method.
LEMMA ToolsCallTrusted ==
    ASSUME Inv, Trusted, NEW r, NEW h \in Handles, NEW new, ToolsCall(r, h, new)
    PROVE  Trusted'
<1> DEFINE prior == Decoded(h, r.token)
           told == IF r.token = "held" THEN calls[h].given ELSE Stateless
<1>1. Passed(r)
  BY DEF ToolsCall, Accepted, Passed
<1>2. CASE Reply(r, "invalid params") /\ UNCHANGED calls
  BY <1>2, ReplyApproved DEF Trusted, Sanctioned
<1>3. ASSUME NEW e,
             \/ Reply(r, "result") /\ calls' = [calls EXCEPT ![h] = Started("task", r.server, e, NoRequest, new, prior, told)]
             \/ UNCHANGED answer /\ calls' = [calls EXCEPT ![h] = Started("call", r.server, e, r, new, prior, told)]
      PROVE  Trusted'
  <2> HIDE DEF prior, told
  <2>1. Approved'
    BY <1>1, <1>3, ReplyApproved DEF Trusted, Approved
  <2>2. Sanctioned'
    BY <1>1, <1>3 DEF Trusted, Sanctioned, Started, Inv
  <2>. QED
    BY <2>1, <2>2 DEF Trusted
<1>. QED
  BY <1>2, <1>3 DEF ToolsCall

\* The methods of a task start no call outside it.
LEMMA TasksTrusted ==
    ASSUME Inv, Trusted, NEW r, NEW h \in Handles, NEW new,
           TasksGet(r, h) \/ TasksUpdate(r, h, new) \/ TasksCancel(r, h)
    PROVE  Trusted'
<1>1. Passed(r) /\ (Reply(r, "result") \/ Reply(r, "invalid params"))
  BY DEF TasksGet, TasksUpdate, TasksCancel, Accepted, Passed
<1>2. \A g \in Handles : calls'[g] = calls[g] \/ calls'[g].kind = "task"
  <2>1. CASE UNCHANGED calls
    BY <2>1
  <2>2. ASSUME NEW d, d.kind = "task", calls' = [calls EXCEPT ![h] = d]
        PROVE  \A g \in Handles : calls'[g] = calls[g] \/ calls'[g].kind = "task"
    BY <2>2 DEF Inv
  <2>3. /\ \A e : Resumed(calls[h], e, new).kind = "task"
        /\ Cancelled(calls[h]).kind = "task"
    BY DEF Resumed, Started, Cancelled, Moved
  <2>4. \/ UNCHANGED calls
        \/ \E e : calls' = [calls EXCEPT ![h] = Resumed(calls[h], e, new)]
        \/ calls' = [calls EXCEPT ![h] = Cancelled(calls[h])]
    BY DEF TasksGet, TasksUpdate, TasksCancel, Inv
  <2>. QED
    BY <2>1, <2>2, <2>3, <2>4
<1>3. Approved'
  BY <1>1, ReplyApproved
<1>. QED
  BY <1>2, <1>3 DEF Trusted, Sanctioned

\* A runner ends the call it was started for.
LEMMA DriveTrusted == ASSUME Inv, Trusted, NEW h \in Handles, Drive(h) PROVE Trusted'
<1>1. ASSUME NEW kind \in {"task", "asked", "answered"}, NEW status, NEW state, Ends(h, kind, status, state)
      PROVE  Sanctioned'
  BY <1>1 DEF Ends, Moved, Inv, Trusted, Sanctioned
<1>2. CASE RunnerStarts(h)
  <2>1. calls' = [calls EXCEPT ![h] = [calls[h] EXCEPT !.runner = "run"]] /\ calls[h] \in Call /\ UNCHANGED answer
    BY <1>2 DEF RunnerStarts, Inv
  <2>. QED
    BY <2>1 DEF Inv, Trusted, Sanctioned, Approved, Call
<1>3. CASE TaskToolEnds(h) \/ TaskCancelled(h)
  <2>1. Sanctioned' /\ UNCHANGED answer
    BY <1>1, <1>3 DEF TaskToolEnds, TaskCancelled
  <2>. QED
    BY <2>1 DEF Trusted, Approved
<1>4. CASE CallToolEnds(h)
  <2>1. Passed(calls[h].request) /\ \E code \in {"result", "internal error"} : Reply(calls[h].request, code)
    BY <1>4 DEF CallToolEnds, Trusted, Sanctioned
  <2>2. Sanctioned'
    BY <1>1, <1>4 DEF CallToolEnds
  <2>. QED
    BY <2>1, <2>2, ReplyApproved DEF Trusted
<1>. QED
  BY <1>2, <1>3, <1>4 DEF Drive

\* Every step keeps what the answers vouch for.
LEMMA TrustedStep == Inv /\ Trusted /\ [Next]_vars => Trusted'
<1> SUFFICES ASSUME Inv, Trusted, [Next]_vars PROVE Trusted'
  OBVIOUS
<1>1. CASE UNCHANGED <<calls, answer>>
  BY <1>1 DEF Trusted, Sanctioned, Approved
<1>2. ASSUME NEW r \in Requests, Serve(r) PROVE Trusted'
  BY <1>2, ReadTrusted, RefuseTrusted, ToolsCallTrusted, TasksTrusted DEF Serve
<1>. QED
  BY <1>1, <1>2, DriveTrusted DEF Next, Register, Add, vars

\* Nothing is answered with a result, whatever its tool did in the meantime, that
\* does not carry the headers a gateway routes by and a version the server speaks
\* (JSONRPCEndpoint.dispatch, MCPEndpoint.resolve_handler).
THEOREM Checked == Spec => []Vouched
<1>1. Init => Trusted
  <2> SUFFICES ASSUME Init PROVE Sanctioned /\ Approved
    BY DEF Trusted
  <2>1. \A h \in Handles : calls[h].kind = "unused"
    BY DEF Init, Unused
  <2>2. answer.code = "none"
    BY DEF Init
  <2>. QED
    BY <2>1, <2>2 DEF Sanctioned, Approved
<1>2. Inv /\ Trusted /\ [Next]_vars => Trusted'
  BY TrustedStep
<1>3. Trusted => Vouched
  BY PassedMeans DEF Trusted, Approved, Vouched
<1>. QED
  BY <1>1, <1>2, <1>3, Inductive, PTL DEF Spec

=============================================================================
