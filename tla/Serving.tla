------------------------------ MODULE Serving -------------------------------
(***************************************************************************)
(* flama.models.resources.serving.llm: a request to one of the generating  *)
(* endpoints of an LLM resource, from its body to its answer. The handler  *)
(* parses the body into messages, asks the model to shape and render them, *)
(* and then either runs the generation to its end and assembles the answer *)
(* (LLMModel.query) or registers a buffer in ModelStreams and answers with *)
(* the stream that fills it (LLMModel.stream). The generation itself is    *)
(* that of Generation; what becomes of a buffer being filled is            *)
(* StreamBuffer.                                                           *)
(*                                                                         *)
(* An endpoint awaits between its steps; todo are the steps it has left.   *)
(* The engine's own work starts with the first step of Generation.         *)
(***************************************************************************)
EXTENDS Generation, Dialogue

\* A run of Runs has asks, the requests it may be the generation of. A request
\* has an endpoint, streams, a backend and the fields of its body: values (the
\* raw messages), system (Anthropic's blocks, or an optional text), tools,
\* prompt and transport (options).

VARIABLES
    request,  \* the request
    todo,     \* the steps its handler has not taken yet
    fields,   \* what the handler has parsed: the arguments of query or stream
    buffer,   \* the buffer of a stream in ModelStreams: "none", "registered", "removed" or "filling"
    status,   \* status of the answer, 0 before there is one
    shown     \* what the engine is shown, None before

servingVars == <<request, todo, fields, buffer, status, shown>>

\* create_stream of the native layer allocates the buffer before it parses.
Program(r) ==
    CASE ~r.streams -> <<"parse", "ask">>
      [] r.endpoint = "native" -> <<"create", "parse", "ask">>
      [] OTHER -> <<"parse", "create", "ask">>

ServingInit ==
    /\ Init
    /\ request \in run.asks
    /\ todo = Program(request)
    /\ fields = None /\ shown = None
    /\ buffer = "none" /\ status = 0

Api == [native |-> "native", chat |-> "chat", responses |-> "chat", anthropic |-> "anthropic", ollama_chat |-> "ollama"]

\* None instead of an empty list, as the handlers and LLMModel pass them on.
Given(seq) == IF seq = <<>> THEN None ELSE <<seq>>
Arguments(transport, prompt, system, messages, tools) ==
    [transport |-> transport,
     fields |-> [prompt |-> prompt, system |-> system, messages |-> messages, tools |-> tools]]

\* The handlers up to query or stream: their arguments, or a refusal.
Conversation(r, messages, tools, transport) ==
    IF messages = Refused \/ tools = Refused THEN Refused
    ELSE <<Arguments(transport, IF r.endpoint = "native" THEN r.prompt ELSE None,
                     IF r.endpoint = "native" THEN r.system ELSE None, Given(messages[1]), Given(tools[1]))>>
ParseConversation(r, values, system, transport) ==
    Conversation(r, ParseMessages(Api[r.endpoint], values, system), ParseTools(r.tools), transport)
NativeArguments(r) ==
    ParseConversation(r, r.values, <<>>,
        CASE r.transport # None -> r.transport[1] [] r.backend.template -> "chat" [] OTHER -> "raw")
ChatArguments(r) == ParseConversation(r, r.values, <<>>, "conversation")
OllamaArguments(r) == ParseConversation(r, r.values, <<>>, "conversation")
\* The instructions of the Responses API come first, as a system message.
ResponsesArguments(r) ==
    ParseConversation(r, (IF r.system = None THEN <<>>
                          ELSE <<Raw("system", <<<<TextPart(r.system[1])>>>>, None, None, None)>>)
                         \o r.values, <<>>, "conversation")
AnthropicArguments(r) == ParseConversation(r, r.values, r.system, "conversation")
CompletionsArguments(r) == IF r.prompt = None THEN Refused ELSE <<Arguments("raw", r.prompt, None, None, None)>>
\* The system of an Ollama generate request stays among the parameters and
\* reaches query as its system.
GenerateArguments(r) ==
    IF r.prompt \in {None, <<<<>>>>} THEN Refused ELSE <<Arguments("raw", r.prompt, r.system, None, None)>>

HandlerArguments(r) ==
    CASE r.endpoint = "native" -> NativeArguments(r)
      [] r.endpoint = "responses" -> ResponsesArguments(r)
      [] r.endpoint = "anthropic" -> AnthropicArguments(r)
      [] r.endpoint = "completions" -> CompletionsArguments(r)
      [] r.endpoint = "ollama_generate" -> GenerateArguments(r)
      [] r.endpoint = "ollama_chat" -> OllamaArguments(r)
      [] OTHER -> ChatArguments(r)

-----------------------------------------------------------------------------
Doing(step) == todo # <<>> /\ Head(todo) = step
Done == todo' = Tail(todo)

\* Mutant of Refuse: the buffer stays registered.
RefuseForgetting ==
    /\ status' = 400 /\ todo' = <<>>
    /\ UNCHANGED <<fields, shown, buffer>>
\* The except clause of every handler: 400, and the buffer it made is removed.
Refuse ==
    /\ status' = 400 /\ todo' = <<>>
    /\ buffer' = IF buffer = "registered" THEN "removed" ELSE buffer
    /\ UNCHANGED <<fields, shown>>

Create ==
    /\ Doing("create") /\ Done
    /\ buffer' = "registered"
    /\ UNCHANGED <<vars, request, fields, status, shown>>

ParseBody ==
    /\ Doing("parse")
    /\ \E arguments \in {HandlerArguments(request)} :
          IF arguments = Refused THEN Refuse
          ELSE /\ fields' = arguments /\ Done
               /\ UNCHANGED <<buffer, status, shown>>
    /\ UNCHANGED <<vars, request>>

\* LLMModel.query and LLMModel.stream up to the first delta. A stream is
\* answered at once, with the buffer that its body or its background fills.
Rendered ==
    LET shape == BuildShape(fields[1].transport, fields[1].fields)
    IN  IF shape = Refused THEN Refused ELSE RenderShape(request.backend, shape[1])
Ask ==
    /\ Doing("ask")
    /\ IF Rendered = Refused THEN Refuse
       ELSE /\ shown' = Rendered /\ Done
            /\ status' = IF request.streams THEN 200 ELSE status
            /\ UNCHANGED <<fields, buffer>>
    /\ UNCHANGED <<vars, request>>

\* The chat template raises what is no ValueError: no handler of a stream
\* catches it, and the buffer stays.
TemplateRaises ==
    /\ Doing("ask") /\ Rendered # Refused /\ fields[1].transport # "raw"
    /\ status' = 500 /\ todo' = <<>>
    /\ UNCHANGED <<vars, request, fields, buffer, shown>>

\* StreamBuffer.load starts, next to the rendering of the response or after it.
Load ==
    /\ status = 200 /\ buffer = "registered"
    /\ buffer' = "filling"
    /\ UNCHANGED <<vars, request, todo, fields, status, shown>>

\* query ends with the generation: an exception, or no text and no tool, is an
\* answer of 500.
Answered ==
    CASE request.streams \/ phase' \notin {"done", "failed"} -> status
      [] phase' = "done" /\ Coalesce(events') # <<>> -> 200
      [] OTHER -> 500
Generate ==
    /\ shown # None /\ status # 500
    /\ request.streams => buffer = "filling"
    /\ Next
    /\ status' = Answered
    /\ UNCHANGED <<request, todo, fields, buffer, shown>>

ServingNext == Create \/ ParseBody \/ Ask \/ TemplateRaises \/ Load \/ Generate
ServingSpec == ServingInit /\ [][ServingNext]_<<vars, servingVars>>

-----------------------------------------------------------------------------
(* Properties *)

\* A request is refused before the engine has done anything for it, whatever
\* step found the fault, and leaves no buffer in ModelStreams for the sweep of
\* a durable stream or, ephemeral, for ever (the except clauses after create).
RefusedLeavesNothing ==
    status = 400 => buffer # "registered" /\ phase = "start" /\ shown = None

\* The same for a request that fails. It does not hold: see TemplateRaises.
FailedLeavesNothing ==
    status \in {400, 500} => buffer # "registered"

\* The system instruction an Ollama generate request may carry ("an optional
\* system instruction") does not make it refused. It does not hold.
SystemAccepted ==
    request.endpoint = "ollama_generate" /\ request.prompt # None => status # 400

\* A client that keeps the turn it was answered with in the history of its
\* next request has it shown to the model as the model made it: the text, the
\* calls in their order and, where the dialect has a field for it that its
\* parser reads, the reasoning (Assembler.envelope, Parser, prepare_input).
\* OpenAI's parser refuses a turn of nothing but reasoning, so it is left out;
\* the text of a turn with calls is dropped for a template that misplaces it.
Optional(seq) == IF seq = <<>> THEN None ELSE <<seq>>
EchoBlocks(answer) ==
    (IF answer.thinking = <<>> THEN <<>> ELSE <<Block("thinking", TRUE, answer.thinking, None)>>)
    \o (IF answer.text = <<>> THEN <<>> ELSE <<Block("text", TRUE, answer.text, None)>>)
    \o [i \in DOMAIN answer.tools |-> Block("tool_use", TRUE, <<answer.tools[i]>>, None)]
Echo(api, answer) ==
    CASE api = "anthropic" -> [role |-> "assistant", blocks |-> EchoBlocks(answer)]
      [] api = "chat" -> Raw("assistant", IF answer.text = <<>> THEN None ELSE <<<<TextPart(answer.text)>>>>,
                             Optional(answer.tools), Optional(answer.thinking), None)
      [] api = "ollama" -> Raw("assistant", <<<<TextPart(answer.text)>>>>, Optional(answer.tools), None, None)
AnswerOf(api) == Envelope(IF api = "ollama" THEN "ollama_chat" ELSE api, events, Last(events))
TurnText(turn) ==
    IF turn.content = None THEN <<>>
    ELSE FlattenSeq([i \in DOMAIN turn.content[1] |-> turn.content[1][i].text])
HistoryKept ==
    phase = "done" =>
       \A api \in {"chat", "anthropic", "ollama"} :
          LET answer == AnswerOf(api)
              parsed == ParseMessages(api, <<Echo(api, answer)>>, <<>>)
              turn == PrepareInput(request.backend, parsed[1])[1][1]
          IN  ~(api = "chat" /\ answer.text = <<>> /\ answer.tools = <<>>) =>
                 /\ parsed # Refused
                 /\ turn.calls = Optional(answer.tools)
                 /\ turn.reasoning = IF api = "ollama" THEN None ELSE Optional(answer.thinking)
                 /\ TurnText(turn) = IF request.backend.misplaces /\ answer.tools # <<>> THEN <<>> ELSE answer.text

=============================================================================
