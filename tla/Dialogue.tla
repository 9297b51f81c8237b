------------------------------ MODULE Dialogue ------------------------------
(***************************************************************************)
(* flama.models.wire (the parsers), flama.models.transport.input and what  *)
(* the transformer backends show their chat template: how the messages of  *)
(* a request become the input of the engine.                               *)
(*                                                                         *)
(* Optional values are sequences of at most one element: <<>> is None. An  *)
(* operator that may raise ValueError or LLMUnsupportedContentPart, which  *)
(* every handler answers with 400, returns <<>> for it. A text is a        *)
(* sequence of symbols, a tool call the name of its function; a string as  *)
(* content is a list of one text part, as the parser makes it.             *)
(***************************************************************************)
EXTENDS Wire

Refused == <<>>

\* A part of a raw content: sound tells that the fields its type asks for are
\* there and well formed. kind is what it is parsed to.
Part(type, sound, text) == [type |-> type, sound |-> sound, text |-> text]
TextPart(text) == Part("text", TRUE, text)

ChatKinds == [text |-> "text", image_url |-> "image", input_audio |-> "audio"]
NativeKinds == "text" :> "text" @@ "image:url" :> "image" @@ "image:uri" :> "image"
               @@ "audio:url" :> "audio" @@ "audio:uri" :> "audio"
OllamaKinds == "text" :> "text" @@ "image:url" :> "image" @@ "image:uri" :> "image"
AnthropicKinds == [text |-> "text", image |-> "image"]
PartKind == [chat |-> ChatKinds, native |-> NativeKinds, ollama |-> OllamaKinds, anthropic |-> AnthropicKinds]

ParsePart(api, part) ==
    IF part.type \in DOMAIN PartKind[api] /\ part.sound
    THEN <<[kind |-> PartKind[api][part.type], text |-> part.text]>> ELSE Refused
ParseContent(api, parts) ==
    LET parsed == [i \in DOMAIN parts |-> ParsePart(api, parts[i])]
    IN  IF \E i \in DOMAIN parts : parsed[i] = Refused THEN Refused ELSE <<FlattenSeq(parsed)>>

-----------------------------------------------------------------------------
(* Parser._parse_message, and the Message it builds *)

Raw(role, content, calls, reasoning, id) ==
    [role |-> role, content |-> content, calls |-> calls, reasoning |-> reasoning, id |-> id, images |-> <<>>]

\* OllamaParser: the flat list of images becomes parts after the text.
Canonical(api, raw) ==
    IF api # "ollama" \/ raw.images = <<>> THEN raw
    ELSE LET text == IF raw.content = None THEN <<>> ELSE SelectSeq(raw.content[1], LAMBDA p : p.text # <<>>)
         IN  [raw EXCEPT !.content = <<text \o raw.images>>, !.images = <<>>]

\* What the parser and the __post_init__ of the message refuse.
Misplaced(raw) ==
    \/ raw.role # "tool" /\ raw.id # None
    \/ raw.role # "assistant" /\ (raw.calls # None \/ raw.reasoning # None)
Incomplete(raw) ==
    CASE raw.role \in {"system", "user"} -> raw.content = None
      [] raw.role = "tool" -> raw.content = None \/ raw.id = None
      [] raw.role = "assistant" -> raw.content = None /\ raw.calls \in {None, <<<<>>>>}
      [] OTHER -> TRUE
Misfit(raw, content) ==
    \/ raw.content # None /\ content = Refused
    \/ raw.role # "user" /\ content # None /\ \E i \in DOMAIN content[1] : content[1][i].kind # "text"
MessageOf(raw, content) ==
    IF Misplaced(raw) \/ Incomplete(raw) \/ Misfit(raw, content) THEN Refused
    ELSE <<[role |-> raw.role, content |-> content, calls |-> raw.calls, reasoning |-> raw.reasoning, id |-> raw.id]>>
ParseRaw(api, raw) ==
    MessageOf(raw, IF raw.content = None THEN None ELSE ParseContent(api, raw.content[1]))
ParseMessage(api, given) == ParseRaw(api, Canonical(api, given))

\* A sequence of options, refused as soon as one of them is.
AllOf(options) ==
    IF \E i \in DOMAIN options : options[i] = Refused THEN Refused ELSE <<FlattenSeq(options)>>

-----------------------------------------------------------------------------
(* AnthropicParser: one message of blocks is several messages of the model *)

Block(type, sound, text, id) == [type |-> type, sound |-> sound, text |-> text, id |-> id]
BlockTexts(blocks, type) == SelectSeq(blocks, LAMBDA b : b.type = type)
AsParts(blocks) == [i \in DOMAIN blocks |-> Part(blocks[i].type, blocks[i].sound, blocks[i].text)]

\* The results of tools first, then what is left as one message of the user.
ExpandUser(blocks) ==
    LET results == BlockTexts(blocks, "tool_result")
        rest == SelectSeq(blocks, LAMBDA b : b.type # "tool_result")
    IN  IF \E i \in DOMAIN results : results[i].id = None THEN Refused
        ELSE <<[i \in DOMAIN results |-> Raw("tool", <<<<TextPart(results[i].text)>>>>, None, None, results[i].id)]
               \o (IF rest = <<>> THEN <<>> ELSE <<Raw("user", <<AsParts(rest)>>, None, None, None)>>)>>

\* Mutant of ExpandAssistant: a turn of nothing but thinking gets no content.
ExpandAssistantBare(blocks) ==
    LET texts == BlockTexts(blocks, "text")
        calls == FlattenSeq([i \in DOMAIN blocks |-> IF blocks[i].type = "tool_use" THEN blocks[i].text ELSE <<>>])
        thoughts == FlattenSeq([i \in DOMAIN blocks |-> IF blocks[i].type = "thinking" THEN <<blocks[i].text>> ELSE <<>>])
    IN  <<<<Raw("assistant", IF texts = <<>> THEN None ELSE <<AsParts(texts)>>, IF calls = <<>> THEN None ELSE <<calls>>,
                IF thoughts = <<>> THEN None ELSE <<FlattenSeq(thoughts)>>, None)>>>>
\* Texts, calls and thoughts apart; a turn without text or call has an empty text.
ExpandAssistant(blocks) ==
    LET texts == BlockTexts(blocks, "text")
        calls == FlattenSeq([i \in DOMAIN blocks |-> IF blocks[i].type = "tool_use" THEN blocks[i].text ELSE <<>>])
        thoughts == FlattenSeq([i \in DOMAIN blocks |-> IF blocks[i].type = "thinking" THEN <<blocks[i].text>> ELSE <<>>])
        content == CASE texts # <<>> -> <<AsParts(texts)>>
                     [] calls = <<>> -> <<<<TextPart(<<>>)>>>>
                     [] OTHER -> None
    IN  IF \E i \in DOMAIN blocks :
               blocks[i].type \notin {"text", "tool_use", "thinking", "redacted_thinking"} THEN Refused
        ELSE <<<<Raw("assistant", content, IF calls = <<>> THEN None ELSE <<calls>>,
                     IF thoughts = <<>> THEN None ELSE <<FlattenSeq(thoughts)>>, None)>>>>

ExpandSystem(blocks) == <<<<Raw("system", <<AsParts(blocks)>>, None, None, None)>>>>
Expand(message) ==
    CASE message.role = "user" -> ExpandUser(message.blocks)
      [] message.role = "assistant" -> ExpandAssistant(message.blocks)
      [] message.role = "system" -> ExpandSystem(message.blocks)
      [] OTHER -> Refused

\* Only the texts of a top-level system count, and only if one is not empty.
FlattenSystem(system) ==
    LET text == FlattenSeq([i \in DOMAIN system |-> IF system[i].type = "text" THEN system[i].text ELSE <<>>])
    IN  IF text = <<>> THEN <<>> ELSE <<Raw("system", <<<<TextPart(text)>>>>, None, None, None)>>

ParseAll(api, raws) == AllOf([i \in DOMAIN raws |-> ParseMessage(api, raws[i])])
ParseExpanded(system, expanded) ==
    IF expanded = Refused THEN Refused ELSE ParseAll("anthropic", FlattenSystem(system) \o FlattenSeq(expanded[1]))
ParseAnthropic(values, system) == ParseExpanded(system, AllOf([i \in DOMAIN values |-> Expand(values[i])]))

\* Parser.parse(kind="messages"): a system apart from the messages is
\* Anthropic's alone; no handler of another dialect passes one.
ParseMessages(api, values, system) ==
    IF api = "anthropic" THEN ParseAnthropic(values, system) ELSE ParseAll(api, values)

\* Parser._parse_tool and Tool: a function with a name.
ParseTools(names) == IF \E i \in DOMAIN names : names[i] = "" THEN Refused ELSE <<names>>

-----------------------------------------------------------------------------
(* Shape.build and the three shapes *)

Allowed == [raw |-> {"prompt"}, chat |-> {"prompt", "system", "tools"}, conversation |-> {"messages", "tools"}]
Required == [raw |-> "prompt", chat |-> "prompt", conversation |-> "messages"]

\* fields are the options that are given, each of them None or present.
BuildShape(transport, fields) ==
    LET given == {f \in DOMAIN fields : fields[f] # None}
    IN  IF transport \in DOMAIN Allowed /\ given \subseteq Allowed[transport] /\ Required[transport] \in given
        THEN <<[transport |-> transport, fields |-> fields]>> ELSE Refused

Plain(role, text) ==
    [role |-> role, content |-> <<<<[kind |-> "text", text |-> text]>>>>, calls |-> None, reasoning |-> None, id |-> None]
ChatMessages(fields) ==
    (IF fields.system = None THEN <<>> ELSE <<Plain("system", fields.system[1])>>) \o <<Plain("user", fields.prompt[1])>>

-----------------------------------------------------------------------------
(* TransformerLLMBackend.prepare_input. A backend has a chat template or   *)
(* not, the media it takes, and a template that misplaces the narration of *)
(* a turn with calls, or not.                                              *)

Narrates(message) == message.role = "assistant" /\ message.content # None /\ message.calls \notin {None, <<<<>>>>}

DumpMessage(message, drop) ==
    [message EXCEPT !.content = IF message.role = "assistant" /\ message.calls # None /\ drop THEN None ELSE @]
Media(messages) ==
    UNION {{messages[i].content[1][j].kind : j \in DOMAIN messages[i].content[1]} :
              i \in {i \in DOMAIN messages : messages[i].content # None}} \ {"text"}
PrepareInput(backend, messages) ==
    LET drop == backend.misplaces /\ \E i \in DOMAIN messages : Narrates(messages[i])
    IN  IF ~(Media(messages) \subseteq backend.media) THEN Refused
        ELSE <<[i \in DOMAIN messages |-> DumpMessage(messages[i], drop)]>>

\* Shape.render: what the engine is shown, or a refusal.
RenderShape(backend, shape) ==
    CASE shape.transport = "raw" -> <<<<Plain("raw", shape.fields.prompt[1])>>>>
      [] ~backend.template -> Refused
      [] shape.transport = "chat" -> PrepareInput(backend, ChatMessages(shape.fields))
      [] OTHER -> PrepareInput(backend, shape.fields.messages[1])

=============================================================================
