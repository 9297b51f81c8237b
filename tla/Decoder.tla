------------------------------ MODULE Decoder -------------------------------
(***************************************************************************)
(* flama.models.engine.llm: the marker scanners, the state machine that    *)
(* turns the text deltas of an engine into events (codec._FSM), and        *)
(* LLMCodec.decode around it.                                              *)
(*                                                                         *)
(* Text is a sequence of symbols; a marker is a short sequence of them, so *)
(* that a delta may end inside one. A resolved decoder d is a record of    *)
(* the channel scanner, the tool scanner, the tool parser and the channel  *)
(* policy's overrides.                                                     *)
(***************************************************************************)
EXTENDS ToolParsers, Events, FiniteSetsExt

CONSTANT Word    \* the symbols \w matches
ASSUME WordAssumption == Word \subseteq STRING

-----------------------------------------------------------------------------
(* MarkerScanner: start, optional end, optional captured word and separator *)

Positions(s, p) == {i \in 0..(Len(s) - Len(p)) : SubSeq(s, i + 1, i + Len(p)) = p}
From(s, n) == SubSeq(s, n + 1, Len(s))
WordEnd(s, n) == Min({i \in n..Len(s) : i = Len(s) \/ s[i + 1] \notin Word})

\* The open marker at i, its length and what it captures; No when it is not
\* complete there.
No == [at |-> -1, length |-> 0, channel |-> None]
NameEnd(sc, s, w) == IF sc.inner THEN WordEnd(s, w) ELSE w
OpenNamed(sc, s, i, w, e) ==
    IF /\ sc.inner => e > w
       /\ e + Len(sc.separator) <= Len(s) /\ SubSeq(s, e + 1, e + Len(sc.separator)) = sc.separator
    THEN [at |-> i, length |-> e + Len(sc.separator) - i, channel |-> SubSeq(s, w + 1, e)]
    ELSE No
OpenAt(sc, s, i) == OpenNamed(sc, s, i, i + Len(sc.start), NameEnd(sc, s, i + Len(sc.start)))

Earliest(markers) == IF markers = {} THEN No ELSE CHOOSE m \in markers : \A o \in markers : m.at <= o.at
FindOpen(sc, s) == Earliest({OpenAt(sc, s, i) : i \in Positions(s, sc.start)} \ {No})
FindClose(sc, s) ==
    IF sc.end = None THEN No
    ELSE Earliest({[at |-> i, length |-> Len(sc.end), channel |-> None] : i \in Positions(s, sc.end)})

\* How much of s cannot be the beginning of the literal: all of it when no
\* suffix of s is a prefix of the literal.
PartialPrefixIndex(s, literal) ==
    LET held == {k \in 1..Len(literal) - 1 : k <= Len(s) /\ From(s, Len(s) - k) = SubSeq(literal, 1, k)}
    IN  IF literal = None THEN Len(s)
        ELSE IF Positions(s, literal) # {} THEN Min(Positions(s, literal))
        ELSE IF held # {} THEN Len(s) - Max(held) ELSE Len(s)

Hold == [kind |-> "hold", length |-> 0, channel |-> None]
Content(n) == IF n > 0 THEN [kind |-> "content", length |-> n, channel |-> None] ELSE Hold

\* Up to the marker m, then the marker itself; without one, n symbols.
UpTo(kind, m, n) ==
    IF m = No THEN Content(n)
    ELSE IF m.at > 0 THEN Content(m.at) ELSE [kind |-> kind, length |-> m.length, channel |-> m.channel]

\* A scanner without end is left, nothing taken, where it opens again.
ScanInside(sc, s) ==
    IF sc.end # None THEN UpTo("close", FindClose(sc, s), PartialPrefixIndex(s, sc.end))
    ELSE UpTo("close", [FindOpen(sc, s) EXCEPT !.length = 0, !.channel = None], PartialPrefixIndex(s, sc.start))

UpToEither(open, close, n) ==
    IF open # No /\ (close = No \/ open.at <= close.at) THEN UpTo("open", open, n) ELSE UpTo("close", close, n)
CloseOutside(sc, s) == IF sc.bufferOnly THEN No ELSE FindClose(sc, s)

\* Mutant of ScanOutside: the beginning of a marker is not held back.
ScanOutsideEagerly(sc, s) == UpToEither(FindOpen(sc, s), CloseOutside(sc, s), Len(s))

\* A word at the end of the text may go on in the next delta.
Complete(sc, s, open) ==
    IF ~sc.inner \/ open.at + open.length < Len(s) \/ sc.separator # None THEN open ELSE No
ScanOutside(sc, s) ==
    UpToEither(Complete(sc, s, FindOpen(sc, s)), CloseOutside(sc, s),
               Min({PartialPrefixIndex(s, sc.start),
                    IF sc.bufferOnly THEN Len(s) ELSE PartialPrefixIndex(s, sc.end)}))

\* PassthroughScanner takes everything for content.
Scan(sc, s, inside) ==
    IF sc.passthrough THEN Content(Len(s))
    ELSE IF inside THEN ScanInside(sc, s) ELSE ScanOutside(sc, s)

\* MarkerScanner.trailing_open: the text ends with an open marker nothing closes.
LastOpen(sc, s) ==
    LET at == Max(Positions(s, sc.start))
    IN  IF Positions(From(s, at + Len(sc.start)), sc.end) = {} THEN OpenAt(sc, s, at) ELSE No
AtEnd(s, m) == IF m # No /\ From(s, m.at + m.length) = None THEN m ELSE No
TrailingOpen(sc, s) ==
    IF sc.passthrough \/ sc.end = None \/ Positions(s, sc.start) = {} THEN No ELSE AtEnd(s, LastOpen(sc, s))

-----------------------------------------------------------------------------
(* codec._FSM. A state m is [buffer, tool, state, previous, channel, tools, reason] *)

Outside == [state |-> "outside", channel |-> Output]

\* ChannelPolicy.resolve of what the marker captures: nothing is no channel.
Resolve(d, captured) == IF captured \in DOMAIN d.overrides THEN d.overrides[captured] ELSE captured

EnterChannel(d, m, captured) ==
    [m EXCEPT !.previous = [state |-> m.state, channel |-> m.channel],
              !.channel = Resolve(d, captured), !.state = "channel"]
EnterTool(m) == [m EXCEPT !.previous = [state |-> m.state, channel |-> m.channel], !.state = "tool"]

Leave(m) == [m EXCEPT !.state = m.previous.state, !.channel = m.previous.channel, !.previous = Outside]

\* What a step leaves: the machine and the events so far.
Step(m, out) == [m |-> m, out |-> out]
After(s, step) == Step(step.m, s.out \o step.out)

\* _action_exit_tool: the buffered body is parsed, its calls counted.
Exited(m, calls) ==
    Step(Leave([m EXCEPT !.tool = <<>>, !.tools = @ + Len(calls)]), [i \in 1..Len(calls) |-> ToolCall(calls[i])])
ExitTool(d, m) == Exited(m, Parse(d.parser, m.tool))

\* _scan: the first thing either scanner finds, the tool scanner on a tie;
\* nothing while one of them waits for more text.
Ahead(e) == IF e.kind = "content" THEN e.length ELSE 0
Sooner(state, ch, tl) ==
    CASE state = "tool" -> <<tl, "tool">>
      [] state = "channel" -> <<ch, "channel">>
      [] OTHER -> IF ch.kind = "hold" \/ tl.kind = "hold" THEN <<Hold, "channel">>
                  ELSE IF Ahead(tl) <= Ahead(ch) THEN <<tl, "tool">> ELSE <<ch, "channel">>
Scanned(d, m) ==
    Sooner(m.state, Scan(d.channel, m.buffer, m.state = "channel"), Scan(d.tool, m.buffer, m.state = "tool"))

\* _transition: the table _TRANSITIONS and its actions.
Transition(d, m, event, source, slice) ==
    CASE m.state = "tool" /\ event.kind = "content" -> Step([m EXCEPT !.tool = @ \o slice], <<>>)
      [] m.state = "tool" /\ event.kind = "close" -> ExitTool(d, m)
      [] m.state = "channel" /\ event.kind = "close" -> Step(Leave(m), <<>>)
      [] m.state # "tool" /\ event.kind = "content" -> Step(m, <<Text(m.channel, slice)>>)
      [] m.state = "outside" /\ event.kind = "open" ->
           Step(IF source = "tool" THEN EnterTool(m) ELSE EnterChannel(d, m, event.channel), <<>>)
      [] OTHER -> Step(m, <<>>)

Consumed(d, m, found, n) ==
    Transition(d, [m EXCEPT !.buffer = From(@, n)], found[1], found[2], SubSeq(m.buffer, 1, n))

\* The loop of feed: until the buffer is empty or a scanner waits.
RECURSIVE Drain(_, _)
DrainFrom(d, s, found) ==
    IF found[1].kind = "hold" THEN s ELSE Drain(d, After(s, Consumed(d, s.m, found, found[1].length)))
Drain(d, s) == IF s.m.buffer = <<>> THEN s ELSE DrainFrom(d, s, Scanned(d, s.m))

Flush(d, m) ==
    LET text == m.buffer
        rest == [m EXCEPT !.buffer = <<>>]
    IN  IF m.state = "tool" THEN ExitTool(d, [rest EXCEPT !.tool = @ \o text])
        ELSE Step(rest, IF text = <<>> THEN <<>> ELSE <<Text(m.channel, text)>>)

\* _FSM.feed of a delta: its text, a flush when the engine has finished, and a
\* trace when it counts tokens or finishes. tokens is -1 for None.
Fed(d, m, text) == IF text = <<>> THEN Step(m, <<>>) ELSE Drain(d, Step([m EXCEPT !.buffer = @ \o text], <<>>))
Finished(d, s, reason) == IF reason = "none" THEN s ELSE After(s, Flush(d, [s.m EXCEPT !.reason = reason]))
Traces(tokens, reason) == IF tokens >= 0 \/ reason # "none" THEN <<Trace(tokens, reason)>> ELSE <<>>
Feed(d, m, text, tokens, reason) == [Finished(d, Fed(d, m, text), reason) EXCEPT !.out = @ \o Traces(tokens, reason)]

\* _FSM.terminate.
FinishReasons == [stop |-> "stop", length |-> "max_tokens", tool_calls |-> "tool_use"]
StopReason(m) ==
    IF m.reason = "none" THEN IF m.tools > 0 THEN "tool_use" ELSE "stop"
    ELSE IF m.reason \notin DOMAIN FinishReasons THEN "unknown"
    ELSE IF FinishReasons[m.reason] = "stop" /\ m.tools > 0 THEN "tool_use" ELSE FinishReasons[m.reason]

\* _FSM.__init__: a prompt that ends inside a channel opens it.
Fresh(d, prompt) ==
    LET m == [buffer |-> <<>>, tool |-> <<>>, state |-> "outside", previous |-> Outside,
              channel |-> Output, tools |-> 0, reason |-> "none"]
        opened == TrailingOpen(d.channel, prompt)
    IN  IF prompt # <<>> /\ opened # No THEN EnterChannel(d, m, opened.channel) ELSE m

-----------------------------------------------------------------------------
(* Decoder.resolve: slots that are not configured are detected in samples,  *)
(* the first sample first, in it the known scanners in their order.         *)

Nowhere == [passthrough |-> TRUE]

Occurs(s, p) == Positions(s, p) # {}
Detects(sc, s) ==
    /\ ~sc.passthrough
    /\ IF sc.bufferOnly THEN Len(s) >= Len(sc.start) /\ SubSeq(s, 1, Len(sc.start)) = sc.start
       ELSE Occurs(s, sc.start)
    /\ sc.end = None \/ Occurs(s, sc.end)

\* The first of known that some sample shows, samples first; unset if none does.
FirstHit(hits, known) ==
    IF hits = {} THEN <<>>
    ELSE <<known[(CHOOSE h \in hits : \A o \in hits : h[1] < o[1] \/ (h[1] = o[1] /\ h[2] <= o[2]))[2]]>>
DetectScanner(slot, known, samples) ==
    IF slot # <<>> THEN slot
    ELSE FirstHit({<<i, j>> \in (DOMAIN samples) \X (DOMAIN known) : Detects(known[j], samples[i])}, known)

\* _iter_marker_bodies: what stands between the literals of a scanner.
RECURSIVE MarkerBodies(_, _)
MarkerBodies(sc, s) ==
    LET start == Min(Positions(s, sc.start))
        rest == From(s, start + Len(sc.start))
        end == Min(Positions(rest, sc.end))
        body == Strip(IF sc.end = None THEN rest ELSE SubSeq(rest, 1, end))
    IN  IF ~Occurs(s, sc.start) \/ (sc.end # None /\ ~Occurs(rest, sc.end)) THEN <<>>
        ELSE (IF body = <<>> THEN <<>> ELSE <<body>>)
             \o (IF sc.end = None THEN <<>> ELSE MarkerBodies(sc, From(rest, end + Len(sc.end))))

ParserOf(bodies) ==
    FirstHit({<<i, j>> \in (DOMAIN bodies) \X (DOMAIN KnownParsers) : Recognises(KnownParsers[j], bodies[i])},
             KnownParsers)
DetectParser(slot, sc, samples) ==
    IF slot # <<>> THEN slot
    ELSE IF sc.passthrough THEN <<>>
    ELSE ParserOf(FlattenSeq([i \in DOMAIN samples |-> MarkerBodies(sc, samples[i])]))

\* resolve(*samples, default): <<>> when a slot stays unset and there is no
\* default; the defaults are the passthrough scanner and parser.
Or(slot, default, otherwise) == IF slot # <<>> \/ ~default THEN slot ELSE <<otherwise>>
Resolved(channel, tool, parser, overrides) ==
    IF channel = <<>> \/ parser = <<>> THEN <<>>
    ELSE <<[channel |-> channel[1], tool |-> tool[1], parser |-> parser[1], overrides |-> overrides]>>
ResolveParser(slots, channel, tool, samples, default) ==
    IF tool = <<>> THEN <<>>
    ELSE Resolved(channel, tool, Or(DetectParser(slots.parser, tool[1], samples), default, "passthrough"),
                  slots.overrides)
ResolveSlots(slots, channels, tools, samples, default) ==
    ResolveParser(slots, Or(DetectScanner(slots.channel, channels, samples), default, Nowhere),
                  Or(DetectScanner(slots.tool, tools, samples), default, Nowhere), samples, default)

\* LLMCodec.detect: the slots alone, then the chat template, then what the
\* engine answers to a preflight prompt, with the defaults at the end.
Detected(slots, channels, tools, template, preflight) ==
    (ResolveSlots(slots, channels, tools, <<>>, FALSE)
     \o ResolveSlots(slots, channels, tools, <<template>>, FALSE)
     \o ResolveSlots(slots, channels, tools, <<template, preflight>>, TRUE))[1]

=============================================================================
