-------------------------------- MODULE Wire --------------------------------
(***************************************************************************)
(* flama.models.wire and flama.models.transport.output: what a client is   *)
(* sent of a sequence of events. A renderer is a state machine of one      *)
(* operator per kind of event; EventBuffer drives it. An assembler builds  *)
(* the answer of a request that does not stream.                           *)
(*                                                                         *)
(* A frame is [frame, index, text]: its kind, the index it carries (-1 for *)
(* none) and its payload as a sequence: the text, the name of a tool, or   *)
(* the stop reason. Ids, model names and time stamps are left out.         *)
(***************************************************************************)
EXTENDS Events, SequencesExt

CONSTANT FlushTokens   \* EventsRenderer.USAGE_FLUSH_TOKENS
ASSUME FlushTokensAssumption == FlushTokens \in Nat \ {0}

Dialects == {"native", "anthropic", "chat", "completion", "response", "ollama_chat", "ollama_generate"}

Frame(kind, index, text) == [frame |-> kind, index |-> index, text |-> text]
Result(st, out) == [st |-> st, out |-> out]
Silent(st) == Result(st, <<>>)
Then(r, Op(_)) == LET next == Op(r.st) IN Result(next.st, r.out \o next.out)

\* What the renderers keep, each the fields it uses.
Renderer == [index |-> -1, open |-> "idle", channel |-> <<>>, started |-> FALSE, textOpen |-> FALSE,
             thinkingOpen |-> FALSE, text |-> <<>>, thinking |-> <<>>, tokens |-> 0, unflushed |-> 0]

Or0(n) == IF n < 0 THEN 0 ELSE n

-----------------------------------------------------------------------------
(* EventsRenderer, the native dialect *)

NativeFlush(st) ==
    Result([st EXCEPT !.open = "idle", !.channel = <<>>],
           IF st.open = "idle" THEN <<>> ELSE <<Frame("block.stop", st.index, <<>>)>>)
NativeOpen(st, kind, channel, name) ==
    Result([st EXCEPT !.index = @ + 1, !.open = kind, !.channel = channel],
           <<Frame("block.start", st.index + 1, name)>>)
NativeText(st, e) ==
    LET opened == IF st.open # "text" \/ st.channel # e.channel
                  THEN Then(NativeFlush(st), LAMBDA s : NativeOpen(s, "text", e.channel, e.channel))
                  ELSE Silent(st)
    IN  Then(opened, LAMBDA s : Result(s, IF e.text = <<>> THEN <<>>
                                       ELSE <<Frame("block.delta", s.index, e.text)>>))
NativeTool(st, e) ==
    Then(Then(NativeFlush(st), LAMBDA s : NativeOpen(s, "tool", s.channel, <<e.name>>)),
         LAMBDA s : Result(s, <<Frame("block.delta", s.index, <<e.name>>)>>))
NativeTrace(st, e) ==
    LET counted == [st EXCEPT !.tokens = @ + Or0(e.tokens), !.unflushed = @ + Or0(e.tokens)]
    IN  IF counted.unflushed < FlushTokens THEN Silent(counted)
        ELSE Result([counted EXCEPT !.unflushed = 0], <<Frame("message.delta", counted.tokens, <<>>)>>)
NativeStop(st, e) ==
    Result(st, (IF e.reason = "error" THEN <<Frame("error", -1, <<>>)>> ELSE <<>>)
               \o <<Frame("message.stop", e.tokens, <<e.reason>>)>>)

-----------------------------------------------------------------------------
(* AnthropicRenderer *)

AnthropicReason == [stop |-> "end_turn", max_tokens |-> "max_tokens", tool_use |-> "tool_use",
                    error |-> "end_turn", unknown |-> "end_turn"]

EnsureStart(st) ==
    Result([st EXCEPT !.started = TRUE], IF st.started THEN <<>> ELSE <<Frame("message_start", -1, <<>>)>>)
CloseText(st) ==
    Result([st EXCEPT !.textOpen = FALSE],
           IF st.textOpen THEN <<Frame("content_block_stop", st.index, <<>>)>> ELSE <<>>)
\* Mutant of CloseThinking: an open thinking block is forgotten, not closed.
ForgetThinking(st) == Silent([st EXCEPT !.thinkingOpen = FALSE])
CloseThinking(st) ==
    Result([st EXCEPT !.thinkingOpen = FALSE],
           IF st.thinkingOpen THEN <<Frame("content_block_stop", st.index, <<>>)>> ELSE <<>>)
OpenText(st) ==
    IF st.textOpen THEN Silent(st)
    ELSE Result([st EXCEPT !.textOpen = TRUE, !.index = @ + 1],
                <<Frame("content_block_start", st.index + 1, <<"text">>)>>)
OpenThinking(st) ==
    IF st.thinkingOpen THEN Silent(st)
    ELSE Result([st EXCEPT !.thinkingOpen = TRUE, !.index = @ + 1],
                <<Frame("content_block_start", st.index + 1, <<"thinking">>)>>)

AnthropicText(st, e) ==
    IF e.text = <<>> THEN Silent(st)
    ELSE IF e.channel = Output
         THEN Then(Then(Then(EnsureStart(st), CloseThinking), OpenText),
                   LAMBDA s : Result(s, <<Frame("text_delta", s.index, e.text)>>))
         ELSE Then(Then(Then(EnsureStart(st), CloseText), OpenThinking),
                   LAMBDA s : Result(s, <<Frame("thinking_delta", s.index, e.text)>>))
AnthropicTool(st, e) ==
    IF e.name = "" THEN Silent(st)
    ELSE Then(Then(Then(EnsureStart(st), CloseText), CloseThinking),
              LAMBDA s : Result([s EXCEPT !.index = @ + 1],
                                <<Frame("content_block_start", s.index + 1, <<e.name>>),
                                  Frame("input_json_delta", s.index + 1, <<e.name>>),
                                  Frame("content_block_stop", s.index + 1, <<>>)>>))
AnthropicStop(st, e) ==
    Then(Then(Then(EnsureStart(st), CloseText), CloseThinking),
         LAMBDA s : Result(s, (IF e.reason = "error" THEN <<Frame("error", -1, <<>>)>> ELSE <<>>)
                              \o <<Frame("message_delta", Or0(e.tokens), <<AnthropicReason[e.reason]>>),
                                   Frame("message_stop", -1, <<>>)>>))

-----------------------------------------------------------------------------
(* _ChatCompletionRenderer, OpenAI chat and completion *)

OpenAIReason == [stop |-> "stop", max_tokens |-> "length", tool_use |-> "tool_calls",
                 error |-> "stop", unknown |-> "stop"]

ChatStart(api, st) ==
    IF api = "chat" /\ ~st.started THEN Result([st EXCEPT !.started = TRUE], <<Frame("role", -1, <<>>)>>)
    ELSE Silent(st)
ChatText(api, st, e) ==
    IF e.text = <<>> \/ (e.channel # Output /\ api = "completion") THEN Silent(st)
    ELSE Result(st, <<Frame(IF e.channel = Output THEN "content" ELSE "reasoning_content", -1, e.text)>>)
ChatTool(api, st, e) ==
    IF api = "completion" \/ e.name = "" THEN Silent(st)
    ELSE Result([st EXCEPT !.index = @ + 1], <<Frame("tool_calls", st.index + 1, <<e.name>>)>>)
ChatStop(st, e) ==
    Result(st, (IF e.reason = "error" THEN <<Frame("error", -1, <<>>)>> ELSE <<>>)
               \o <<Frame("finish", -1, <<OpenAIReason[e.reason]>>), Frame("[DONE]", -1, <<>>)>>)

-----------------------------------------------------------------------------
(* _MessagesRenderer, the Responses API: the message is output item 0, the *)
(* reasoning is item 1, the n-th tool call, counted from 0, is item n + 1. *)

OpenMessage(st) ==
    IF st.textOpen THEN Silent(st)
    ELSE Result([st EXCEPT !.textOpen = TRUE],
                <<Frame("output_item.added", 0, <<"message">>), Frame("content_part.added", 0, <<>>)>>)
CloseMessage(st) ==
    IF ~st.textOpen THEN Silent(st)
    ELSE Result([st EXCEPT !.textOpen = FALSE],
                <<Frame("output_text.done", 0, st.text), Frame("content_part.done", 0, st.text),
                  Frame("output_item.done", 0, <<"message">>)>>)
OpenReasoning(st) ==
    IF st.thinkingOpen THEN Silent(st)
    ELSE Result([st EXCEPT !.thinkingOpen = TRUE], <<Frame("output_item.added", 1, <<"reasoning">>)>>)
CloseReasoning(st) ==
    IF ~st.thinkingOpen THEN Silent(st)
    ELSE Result([st EXCEPT !.thinkingOpen = FALSE],
                <<Frame("reasoning_summary_text.done", 1, st.thinking), Frame("output_item.done", 1, <<"reasoning">>)>>)

ResponseStart(st) == Then(Result(st, <<Frame("response.created", -1, <<>>)>>), OpenMessage)
ResponseText(st, e) ==
    IF e.text = <<>> THEN Silent(st)
    ELSE IF e.channel = Output
         THEN Then(Then(CloseReasoning(st), OpenMessage),
                   LAMBDA s : Result([s EXCEPT !.text = @ \o e.text], <<Frame("output_text.delta", 0, e.text)>>))
         ELSE Then(OpenReasoning(st),
                   LAMBDA s : Result([s EXCEPT !.thinking = @ \o e.text],
                                     <<Frame("reasoning_summary_text.delta", 1, e.text)>>))
ResponseTool(st, e) ==
    IF e.name = "" THEN Silent(st)
    ELSE Then(CloseReasoning(st),
              LAMBDA s : Result([s EXCEPT !.index = @ + 1],
                                <<Frame("output_item.added", s.index + 2, <<e.name>>),
                                  Frame("function_call_arguments.delta", s.index + 2, <<e.name>>),
                                  Frame("function_call_arguments.done", s.index + 2, <<e.name>>),
                                  Frame("output_item.done", s.index + 2, <<e.name>>)>>))
ResponseStop(st, e) ==
    Result(st, IF e.reason = "error" THEN <<Frame("response.failed", -1, <<>>)>>
               ELSE <<Frame("response.completed", Or0(e.tokens), <<>>)>>)
ResponseFlush(st) == Then(CloseReasoning(st), CloseMessage)

-----------------------------------------------------------------------------
(* OllamaRenderer *)

OllamaReason == [stop |-> "stop", max_tokens |-> "length", tool_use |-> "stop",
                 error |-> "stop", unknown |-> "stop"]

OllamaText(api, st, e) ==
    IF e.text = <<>> \/ (e.channel # Output /\ api # "ollama_chat") THEN Silent(st)
    ELSE Result(st, <<Frame(IF e.channel = Output THEN "content" ELSE "thinking", -1, e.text)>>)
OllamaTool(api, st, e) ==
    Result(st, IF api # "ollama_chat" \/ e.name = "" THEN <<>> ELSE <<Frame("tool_calls", -1, <<e.name>>)>>)
OllamaTrace(st, e) == Silent([st EXCEPT !.tokens = @ + Or0(e.tokens)])
OllamaStop(st, e) ==
    Result(st, (IF e.reason = "error" THEN <<Frame("error", -1, <<>>)>> ELSE <<>>)
               \o <<Frame("done", IF e.tokens < 0 THEN st.tokens ELSE e.tokens, <<OllamaReason[e.reason]>>)>>)

-----------------------------------------------------------------------------
(* EventBuffer: one event through the renderer of a dialect *)

Flushed(dialect, st) ==
    CASE dialect = "native" -> NativeFlush(st) [] dialect = "response" -> ResponseFlush(st) [] OTHER -> Silent(st)

OnStart(dialect, st) ==
    CASE dialect = "native" -> Result(st, <<Frame("message.start", -1, <<>>)>>)
      [] dialect = "anthropic" -> EnsureStart(st)
      [] dialect = "response" -> ResponseStart(st)
      [] dialect \in {"chat", "completion"} -> ChatStart(dialect, st)
      [] OTHER -> Silent(st)
OnText(dialect, st, e) ==
    CASE dialect = "native" -> NativeText(st, e)
      [] dialect = "anthropic" -> AnthropicText(st, e)
      [] dialect = "response" -> ResponseText(st, e)
      [] dialect \in {"chat", "completion"} -> ChatText(dialect, st, e)
      [] OTHER -> OllamaText(dialect, st, e)
OnTool(dialect, st, e) ==
    CASE dialect = "native" -> NativeTool(st, e)
      [] dialect = "anthropic" -> AnthropicTool(st, e)
      [] dialect = "response" -> ResponseTool(st, e)
      [] dialect \in {"chat", "completion"} -> ChatTool(dialect, st, e)
      [] OTHER -> OllamaTool(dialect, st, e)
OnTrace(dialect, st, e) ==
    CASE dialect = "native" -> NativeTrace(st, e)
      [] dialect \in {"ollama_chat", "ollama_generate"} -> OllamaTrace(st, e)
      [] OTHER -> Silent(st)
OnStop(dialect, st, e) ==
    CASE dialect = "native" -> NativeStop(st, e)
      [] dialect = "anthropic" -> AnthropicStop(st, e)
      [] dialect = "response" -> ResponseStop(st, e)
      [] dialect \in {"chat", "completion"} -> ChatStop(st, e)
      [] OTHER -> OllamaStop(st, e)

Dispatch(dialect, st, e) ==
    CASE e.kind = "start" -> OnStart(dialect, st)
      [] e.kind = "text" -> OnText(dialect, st, e)
      [] e.kind = "tool" -> OnTool(dialect, st, e)
      [] e.kind = "trace" -> OnTrace(dialect, st, e)
      [] e.kind = "stop" -> Then(Flushed(dialect, st), LAMBDA s : OnStop(dialect, s, e))

\* __anext__ until it stops. An exception of the source becomes the event of a
\* failed generation. Skip applies to the frames of the events; a source that
\* ends is flushed once more.
Failure == Stop("error", -1)
Drained(dialect, events, raises) ==
    FoldLeft(LAMBDA acc, e : Then(acc, LAMBDA s : Dispatch(dialect, s, e)), Silent(Renderer),
             IF raises THEN events \o <<Failure>> ELSE events)
Skipped(dialect, r, raises, skip) ==
    SubSeq(r.out, skip + 1, Len(r.out)) \o (IF raises THEN <<>> ELSE Flushed(dialect, r.st).out)
Delivered(dialect, events, raises, skip) == Skipped(dialect, Drained(dialect, events, raises), raises, skip)
Frames(dialect, events, raises) == Delivered(dialect, events, raises, 0)

-----------------------------------------------------------------------------
(* CoalescingRenderer and the assemblers of the answers that do not stream *)

\* Mutant of Joined: the channel is not compared.
JoinedAcross(out, e) ==
    IF e.kind = "text" /\ out # <<>> /\ Last(out).kind = "text"
    THEN [out EXCEPT ![Len(out)].text = @ \o e.text] ELSE Append(out, e)
\* Adjacent texts of one channel are one text, tools stay, the rest is dropped.
Joined(out, e) ==
    IF e.kind = "text" /\ out # <<>> /\ Last(out).kind = "text" /\ Last(out).channel = e.channel
    THEN [out EXCEPT ![Len(out)].text = @ \o e.text] ELSE Append(out, e)
Coalesce(events) == FoldLeft(Joined, <<>>, SelectSeq(events, LAMBDA e : e.kind \in {"text", "tool"}))

Texts(events, output) ==
    FoldLeft(LAMBDA acc, e : IF e.kind = "text" /\ (e.channel = Output) = output THEN acc \o e.text ELSE acc,
             <<>>, events)
Tools(events) ==
    FoldLeft(LAMBDA acc, e : IF e.kind = "tool" THEN Append(acc, e.name) ELSE acc, <<>>, events)
Named(names) == SelectSeq(names, LAMBDA n : n # "")

Answer(text, thinking, tools, reason, tokens) ==
    [text |-> text, thinking |-> thinking, tools |-> tools, reason |-> reason, tokens |-> tokens]

\* Assembler.envelope of each dialect: what an answer holds, not where in it.
\* The native dialect has none; ollama keeps the calls without a name.
AnthropicEnvelope(events, stop) ==
    Answer(Texts(events, TRUE), Texts(events, FALSE), Named(Tools(events)),
           <<AnthropicReason[stop.reason]>>, Or0(stop.tokens))
ChatEnvelope(events, stop) ==
    Answer(Texts(events, TRUE), Texts(events, FALSE), Named(Tools(events)),
           <<OpenAIReason[stop.reason]>>, Or0(stop.tokens))
CompletionEnvelope(events, stop) ==
    Answer(Texts(events, TRUE), <<>>, <<>>, <<OpenAIReason[stop.reason]>>, Or0(stop.tokens))
ResponseEnvelope(events, stop) ==
    Answer(Texts(events, TRUE), Texts(events, FALSE), Named(Tools(events)), <<>>, Or0(stop.tokens))
OllamaChatEnvelope(events, stop) ==
    Answer(Texts(events, TRUE), Texts(events, FALSE), Tools(events), <<OllamaReason[stop.reason]>>, Or0(stop.tokens))
OllamaGenerateEnvelope(events, stop) ==
    Answer(Texts(events, TRUE), <<>>, <<>>, <<OllamaReason[stop.reason]>>, Or0(stop.tokens))

\* Dialect.assemble of a generation that ended.
Envelope(dialect, events, stop) ==
    LET parts == Coalesce(events)
    IN  CASE dialect = "anthropic" -> AnthropicEnvelope(parts, stop)
          [] dialect = "chat" -> ChatEnvelope(parts, stop)
          [] dialect = "completion" -> CompletionEnvelope(parts, stop)
          [] dialect = "response" -> ResponseEnvelope(parts, stop)
          [] dialect = "ollama_chat" -> OllamaChatEnvelope(parts, stop)
          [] dialect = "ollama_generate" -> OllamaGenerateEnvelope(parts, stop)

=============================================================================
