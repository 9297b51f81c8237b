----------------------------- MODULE Generation -----------------------------
(***************************************************************************)
(* LLMCodec.decode of one generation: an engine yields deltas, cut anywhere *)
(* in its text, with or without token counts and a finish reason; the FSM  *)
(* turns them into events; a renderer of a dialect turns events into the   *)
(* frames of the client.                                                   *)
(*                                                                         *)
(* The whole text of the engine is chosen at the start, how it is cut into *)
(* deltas while it is fed. tokens are counted by the engine or, when it    *)
(* does not, by the codec's fallback, which may raise.                     *)
(***************************************************************************)
EXTENDS Decoder, Wire

CONSTANTS
    Runs,         \* records of slots, template, preflight, prompt, text, counting and
                  \* cuts, the bound on the deltas its text comes in
    Channels,     \* the known channel scanners in their order
    ToolMarkers,  \* the known tool scanners in their order
    EngineReasons \* finish reasons an engine may report; "none" is no reason

VARIABLES
    run,       \* the slots, template, prompt and text of the generation
    decoder,   \* _resolved_decoder
    fed,       \* how many symbols the engine has yielded
    deltas,    \* in how many deltas of text
    counting,  \* who counts the tokens: "engine", "fallback" or "nobody"
    fsm,       \* _FSM
    output,    \* output_tokens of decode
    events,    \* what decode has yielded
    phase      \* "start", "run", "finished" (a finish reason was seen), "done" or "failed"

vars == <<run, decoder, fed, deltas, counting, fsm, output, events, phase>>

Init ==
    /\ run \in Runs
    /\ decoder = Detected(run.slots, Channels, ToolMarkers, run.template, run.preflight)
    /\ counting = run.counting
    /\ fed = 0 /\ deltas = 0 /\ output = 0 /\ events = <<>>
    /\ fsm = Fresh(decoder, run.prompt)
    /\ phase = "start"

\* The StartEvent, before the first delta is asked for.
Begin ==
    /\ phase = "start"
    /\ phase' = "run" /\ events' = <<Start>>
    /\ UNCHANGED <<run, decoder, fed, deltas, counting, fsm, output>>

\* One delta through the FSM: its count is inferred from its text when the
\* engine gives none.
Inferred(text, tokens) == IF tokens < 0 /\ text # <<>> /\ counting = "fallback" THEN Len(text) ELSE tokens

Decode(text, tokens, reason) ==
    /\ \E step \in {Feed(decoder, fsm, text, Inferred(text, tokens), reason)} :
          fsm' = step.m /\ events' = events \o step.out
    /\ output' = output + Or0(Inferred(text, tokens))
    /\ UNCHANGED <<run, decoder, counting>>

Rest == Len(run.text) - fed
Tokens == IF counting = "engine" THEN 1 ELSE -1

\* A delta of text; the last one may carry the finish reason.
Delta ==
    /\ phase = "run"
    /\ deltas < run.cuts
    /\ \E n \in IF deltas = run.cuts - 1 THEN {Rest} \ {0} ELSE 1..Rest :
          /\ fed' = fed + n /\ deltas' = deltas + 1
          /\ \E reason \in IF n = Rest THEN EngineReasons ELSE {"none"} :
                /\ Decode(SubSeq(run.text, fed + 1, fed + n), Tokens, reason)
                /\ phase' = IF reason = "none" THEN phase ELSE "finished"

\* A delta without text that only reports the finish reason, or the usage of
\* a finished generation.
Report ==
    /\ Rest = 0 /\ phase \in {"run", "finished"}
    /\ \E reason \in IF phase = "run" THEN EngineReasons \ {"none"} ELSE {"none"} :
          Decode(<<>>, IF phase = "run" THEN -1 ELSE 1, reason)
    /\ phase' = IF phase = "run" THEN "finished" ELSE "reported"
    /\ UNCHANGED <<fed, deltas>>

\* The engine's stream ends: flush, then the StopEvent.
Stream == {"run", "finished", "reported"}
End ==
    /\ phase \in Stream /\ Rest = 0
    /\ LET rest == Flush(decoder, fsm)
       IN  /\ fsm' = rest.m
           /\ events' = events \o rest.out \o <<Stop(StopReason(rest.m), output)>>
    /\ phase' = "done"
    /\ UNCHANGED <<run, decoder, fed, deltas, counting, output>>

\* The fallback counter raises: the delta keeps no count, and no later one does.
StopCounting ==
    /\ counting = "fallback" /\ phase = "run" /\ fed > 0
    /\ counting' = "nobody"
    /\ UNCHANGED <<run, decoder, fed, deltas, fsm, output, events, phase>>

\* The engine raises: decode raises, the buffer of the client sees it.
Raise ==
    /\ phase \in Stream
    /\ phase' = "failed"
    /\ UNCHANGED <<run, decoder, fed, deltas, counting, fsm, output, events>>

Next == Begin \/ Delta \/ Report \/ End \/ StopCounting \/ Raise
Spec == Init /\ [][Next]_vars

-----------------------------------------------------------------------------
(* Properties *)

Whole == Feed(decoder, Fresh(decoder, run.prompt), run.text, -1, "stop")

\* However the engine cuts its text into deltas, the events are those of the
\* text fed at once: adjacent texts of a channel joined, the same calls in the
\* same order. A marker cut by a delta boundary is never missed and never
\* shown (MarkerScanner.scan and its holdback).
ChunkingIrrelevant ==
    phase = "done" => Coalesce(events) = Coalesce(Whole.out)

\* What a client that follows the protocol relies on, also of a stream the
\* engine breaks off: the blocks of the native and the Anthropic dialect open
\* and close one after the other under the next index, a delta names the open
\* block, and a stream ends with its terminal frame.
StartFrames == {"block.start", "content_block_start"}
StopFrames == {"block.stop", "content_block_stop"}
DeltaFrames == {"block.delta", "text_delta", "thinking_delta", "input_json_delta"}
Bracketing(frames) ==
    FoldLeft(LAMBDA b, f :
                CASE f.frame \in StartFrames ->
                       [ok |-> b.ok /\ ~b.open /\ f.index = b.last + 1, open |-> TRUE, last |-> f.index]
                  [] f.frame \in StopFrames -> [b EXCEPT !.ok = @ /\ b.open /\ f.index = b.last, !.open = FALSE]
                  [] f.frame \in DeltaFrames -> [b EXCEPT !.ok = @ /\ b.open /\ f.index = b.last]
                  [] OTHER -> b,
             [ok |-> TRUE, open |-> FALSE, last |-> -1], frames)
Terminal == [native |-> "message.stop", anthropic |-> "message_stop", chat |-> "[DONE]", completion |-> "[DONE]",
             ollama_chat |-> "done", ollama_generate |-> "done"]
Ended == phase \in {"done", "failed"}
BlocksBracket ==
    Ended => \A dialect \in {"native", "anthropic"} :
       LET frames == Frames(dialect, events, phase = "failed")
           b == Bracketing(frames)
       IN  b.ok /\ ~b.open /\ {i \in DOMAIN frames : frames[i].frame = Terminal[dialect]} = {Len(frames)}

\* A native client that reconnects with the id of its last frame is sent the
\* frames after it: none twice, none left out (EventsRenderer.skip, EventBuffer).
ResumeExact ==
    Ended => LET all == Frames("native", events, phase = "failed")
             IN  \A n \in 0..Len(all) :
                    Delivered("native", events, phase = "failed", n) = SubSeq(all, n + 1, Len(all))

\* A client that follows the protocol is served, in one connection or several,
\* also by a stream the engine breaks off.
ProtocolKept == BlocksBracket /\ ResumeExact

\* The tokens of the StopEvent are those the traces of the stream report,
\* which the renderers sum on their own (decode, on_trace).
TokensAgree ==
    phase = "done" =>
       Last(events).tokens = FoldLeft(LAMBDA n, e : IF e.kind = "trace" THEN n + Or0(e.tokens) ELSE n, 0, events)

\* What a streaming client reads is what the answer of a request that does
\* not stream holds: output, reasoning, named calls, stop reason and usage
\* (every Renderer against its Assembler), and the usage is what was traced.
Shown(frames, kinds) == FoldLeft(LAMBDA acc, f : IF f.frame \in kinds THEN acc \o f.text ELSE acc, <<>>, frames)
ToolsShown(dialect, frames) ==
    IF dialect = "anthropic" THEN Shown(frames, {"input_json_delta"})
    ELSE Shown(frames, {"tool_calls", "function_call_arguments.done"})
LastOf(frames, kind) == SelectLastInSeq(frames, LAMBDA f : f.frame = kind)
StreamAnswer(dialect, frames) ==
    LET terminal == CASE dialect = "anthropic" -> "message_delta" [] dialect = "response" -> "response.completed"
                      [] dialect \in {"chat", "completion"} -> "finish" [] OTHER -> "done"
        last == frames[LastOf(frames, terminal)]
    IN  Answer(Shown(frames, {"content", "text_delta", "output_text.delta"}),
               Shown(frames, {"thinking", "reasoning_content", "thinking_delta", "reasoning_summary_text.delta"}),
               ToolsShown(dialect, frames), last.text, last.index)
StreamMatchesAnswer ==
    /\ TokensAgree
    /\ phase = "done" =>
         \A dialect \in Dialects \ {"native"} :
            LET shown == StreamAnswer(dialect, Frames(dialect, events, FALSE))
                answer == [Envelope(dialect, events, Last(events)) EXCEPT !.tools = Named(@)]
            IN  shown = IF dialect \in {"chat", "completion"} THEN [answer EXCEPT !.tokens = -1] ELSE answer

=============================================================================
