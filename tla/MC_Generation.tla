---------------------------- MODULE MC_Generation ---------------------------
EXTENDS Serving

\* Known scanners, their markers letter by letter where prefixes matter: a
\* name inside a marker is one symbol.
Scanner(start, end, inner, separator, bufferOnly) ==
    [start |-> start, end |-> end, inner |-> inner, separator |-> separator,
     bufferOnly |-> bufferOnly, passthrough |-> FALSE]

Harmony == Scanner(<<"<", "|", "ch", "|", ">">>, <<"<", "|", "end", "|", ">">>, TRUE, <<"<", "|", "msg", "|", ">">>, FALSE)
Channel == Scanner(<<"<", "|", "ch", ">">>, <<"<", "ch", "|", ">">>, TRUE, <<"nl">>, FALSE)
Think == Scanner(<<"<", "think", ">">>, <<"<", "/", "think", ">">>, FALSE, <<>>, FALSE)
Bare == Scanner(<<"<", "ch", ">">>, <<"<", "/", "ch", ">">>, TRUE, <<>>, FALSE)

ToolTag == Scanner(<<"<", "tool", ">">>, <<"<", "/", "tool", ">">>, FALSE, <<>>, FALSE)
ToolCalls == Scanner(<<"[", "TC", "]">>, <<>>, FALSE, <<>>, FALSE)
Brackets == Scanner(<<"[">>, <<"]">>, FALSE, <<>>, TRUE)
ToolPipe == Scanner(<<"<", "|", "tool", ">">>, <<"<", "tool", "|", ">">>, FALSE, <<>>, FALSE)

MCChannels == <<Nowhere, Harmony, Channel, Think>>
MCTools == <<Nowhere, ToolTag, ToolCalls, Brackets, ToolPipe>>
MCWord == {"a", "f", "u", "x", "k", "p", "think", "tool"}

Auto == [channel |-> <<>>, tool |-> <<>>, parser |-> <<>>, overrides |-> [s \in {} |-> s]]
Slots(c, t, p) == [Auto EXCEPT !.channel = <<c>>, !.tool = <<t>>, !.parser = <<p>>]

Open(sc) == sc.start \o (IF sc.inner THEN <<"a">> ELSE <<>>) \o sc.separator
Piece(c, t) ==
    {<<"x">>, <<"<">>, Open(c), c.start, Open(t), c.end, t.end} \ {<<>>}
Marked(c, t) == {Open(c) \o <<"x">> \o c.end, Open(t) \o <<"f">> \o t.end, Open(t) \o <<"u">> \o t.end}
Texts2(c, t) == {a \o b : a \in Piece(c, t), b \in Piece(c, t) \cup Marked(c, t)}
Texts3(c, t) == {a \o b \o <<"x">> : a \in Marked(c, t), b \in Marked(c, t)}

\* Requests: every endpoint with bodies it takes and bodies it refuses, on
\* backends with and without a template, media and a template that misplaces.
Backend(template, media, misplaces) == [template |-> template, media |-> media, misplaces |-> misplaces]
Backends == {Backend(TRUE, {}, TRUE), Backend(TRUE, {"image"}, FALSE), Backend(FALSE, {}, FALSE)}
Request(endpoint, streams, backend, values, system, tools, prompt, transport) ==
    [endpoint |-> endpoint, streams |-> streams, backend |-> backend, values |-> values, system |-> system,
     tools |-> tools, prompt |-> prompt, transport |-> transport]

Hello == <<<<TextPart(<<"x">>)>>>>
User(content) == Raw("user", content, None, None, None)
Turns(image) ==
    {<<>>, <<User(Hello)>>, <<User(None)>>, <<User(<<<<Part(image, TRUE, <<>>), TextPart(<<"x">>)>>>>)>>,
     <<User(<<<<Part(image, FALSE, <<>>)>>>>)>>, <<Raw("user", Hello, <<<<"f">>>>, None, None)>>,
     <<Raw("assistant", Hello, <<<<"f">>>>, <<<<"x">>>>, None), Raw("tool", Hello, None, None, <<"call">>)>>,
     <<Raw("assistant", None, <<<<>>>>, <<<<"x">>>>, None)>>, <<Raw("tool", Hello, None, None, None)>>,
     <<Raw("system", <<<<Part(image, TRUE, <<>>)>>>>, None, None, None)>>, <<Raw("other", Hello, None, None, None)>>}
Blocks ==
    {<<>>, <<[role |-> "user", blocks |-> <<Block("text", TRUE, <<"x">>, None),
                                           Block("tool_result", TRUE, <<"x">>, <<"call">>)>>]>>,
     <<[role |-> "user", blocks |-> <<Block("tool_result", TRUE, <<>>, None)>>]>>,
     <<[role |-> "user", blocks |-> <<Block("image", TRUE, <<>>, None)>>]>>,
     <<[role |-> "assistant", blocks |-> <<Block("tool_use", TRUE, <<"f">>, None),
                                                Block("redacted_thinking", TRUE, <<>>, None)>>]>>,
     <<[role |-> "assistant", blocks |-> <<Block("image", TRUE, <<>>, None)>>]>>,
     <<[role |-> "other", blocks |-> <<>>]>>}

Conversing(endpoint, values, system) ==
    {Request(endpoint, streams, backend, v, s, tools, None, None) :
       streams \in BOOLEAN, backend \in Backends, v \in values, s \in system, tools \in {<<>>, <<"">>}}
Prompting(endpoint) ==
    {Request(endpoint, streams, Backend(FALSE, {}, FALSE), <<>>, system, <<>>, prompt, None) :
       streams \in BOOLEAN, system \in {None, <<<<"x">>>>}, prompt \in {None, <<<<>>>>, <<<<"x">>>>}}
Images == [Raw("user", Hello, None, None, None) EXCEPT !.images = <<Part("image:uri", TRUE, <<>>)>>]
Requests ==
    UNION {Conversing("chat", Turns("image_url"), {None}),
           Conversing("responses", {<<User(Hello)>>, <<>>}, {None, <<<<"x">>>>}),
           Conversing("ollama_chat", Turns("image:url") \cup {<<Images>>}, {None}),
           Conversing("anthropic", Blocks, {<<>>, <<TextPart(<<"x">>)>>}),
           Prompting("completions"), Prompting("ollama_generate"),
           {Request("native", streams, backend, values, system, tools, prompt, transport) :
              streams \in BOOLEAN, backend \in Backends, values \in {<<>>, <<User(Hello)>>},
              system \in {None, <<<<"x">>>>},
              tools \in {<<>>, <<"f">>}, prompt \in {None, <<<<"x">>>>},
              transport \in {None, <<"chat">>, <<"conversation">>, <<"raw">>, <<"weird">>}}}
Simple == Request("chat", FALSE, Backend(TRUE, {}, TRUE), <<User(Hello)>>, None, <<>>, None, None)

Run(slots, template, preflight, prompt, text, counter) ==
    [slots |-> slots, template |-> template, preflight |-> preflight, prompt |-> prompt, text |-> text,
     counting |-> counter, cuts |-> IF Len(text) > 4 THEN 2 ELSE 3, asks |-> {Simple}]
RunsOf(slots, template, preflight, c, t, prompts, counter) ==
    {Run(slots, template, preflight, prompt, text, counter) : prompt \in prompts, text \in Texts2(c, t) \cup Texts3(c, t)}

MCRuns ==
    RunsOf(Slots(Channel, ToolPipe, "json_object"), <<>>, <<>>, Channel, ToolPipe, {<<>>}, "engine")
    \cup RunsOf(Auto, Think.start \o Think.end \o ToolTag.start \o <<"f">> \o ToolTag.end, <<>>,
                Think, ToolTag, {<<>>, Think.start}, "fallback")
    \cup RunsOf([Auto EXCEPT !.overrides = [s \in {<<"a">>} |-> Output]], <<>>,
                Harmony.start \o Harmony.end \o ToolCalls.start \o <<"f", ";", "u">>,
                Harmony, ToolCalls, {<<>>}, "engine")
    \cup RunsOf(Slots(Bare, Brackets, "passthrough"), <<>>, <<>>, Bare, Brackets, {<<>>}, "fallback")
    \cup {[Run(Auto, <<"x">>, <<"<">>, <<>>, text, "engine") EXCEPT !.asks = Requests, !.cuts = 1] :
            text \in {<<>>, <<"x">>}}
=============================================================================
