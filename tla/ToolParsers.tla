---------------------------- MODULE ToolParsers -----------------------------
(***************************************************************************)
(* flama.models.engine.llm.decoder.parsers: what the calls of a tool body  *)
(* are, per notation. A body is a sequence of symbols, each a complete     *)
(* piece of the notation:                                                  *)
(*   "f", "u"  a JSON object with and without a "name" field               *)
(*   "j"       another JSON value (or Python expression)                   *)
(*   "b"       an object the JSON decoder rejects                          *)
(*   "w"       an identifier                                               *)
(*   "p"       a Python call, "k" a `call:k{..}`, "t" a <function=t> tag    *)
(*   "[" "]" ";"  brackets and the separator of sequences, "_" whitespace   *)
(* The commas of lists are left out, and so are lists inside lists.        *)
(* A call is its name; "" is a call without one.                           *)
(***************************************************************************)
EXTENDS Integers, Sequences, SequencesExt

Objects == {"f", "u"}
Values == Objects \cup {"j"}
Name(s) == IF s = "u" THEN "" ELSE s
Strip(s) == SelectSeq(s, LAMBDA x : x # "_")
Inner(s) == SubSeq(s, 2, Len(s) - 1)
Bracketed(s) == Len(s) >= 2 /\ Head(s) = "[" /\ Last(s) = "]"

\* The names of the symbols of s that are in which.
Names(s, which) ==
    [i \in DOMAIN SelectSeq(s, LAMBDA x : x \in which) |-> Name(SelectSeq(s, LAMBDA x : x \in which)[i])]

JSONObject(s) == IF Len(s) = 1 THEN Names(s, Objects) ELSE <<>>
JSONArray(s) == IF Bracketed(s) /\ ToSet(Inner(s)) \subseteq Values THEN Names(Inner(s), Objects) ELSE <<>>

RECURSIVE JSONSequence(_)
JSONSequence(s) ==
    IF s = <<>> \/ Head(s) \notin Objects THEN <<>>
    ELSE <<Name(Head(s))>> \o JSONSequence(IF Len(s) > 1 /\ s[2] = ";" THEN Tail(Tail(s)) ELSE Tail(s))

RECURSIVE JSONNamedSequence(_)
JSONNamedSequence(s) ==
    IF Len(s) < 2 \/ s[1] # "w" \/ s[2] \notin Objects THEN <<>>
    ELSE <<"w">> \o JSONNamedSequence(SubSeq(s, 3, Len(s)))

\* One expression, or a list of them: anything else is a syntax error.
Pythonic(s) ==
    LET elements == IF Bracketed(s) THEN Inner(s) ELSE s
    IN  IF ToSet(elements) \subseteq Values \cup {"p", "w"} THEN Names(elements, {"p"}) ELSE <<>>

RECURSIVE CallNotation(_)
CallNotation(s) == IF s = <<>> \/ Head(s) # "k" THEN <<>> ELSE <<"k">> \o CallNotation(Tail(s))

TagNotation(s) == Names(s, {"t"})
Passthrough(body) == IF body = <<>> THEN <<>> ELSE <<"">>

Parse(parser, body) ==
    LET s == Strip(body)
    IN  CASE parser = "json_object" -> JSONObject(s)
          [] parser = "json_array" -> JSONArray(s)
          [] parser = "json_sequence" -> JSONSequence(s)
          [] parser = "named_json_sequence" -> JSONNamedSequence(s)
          [] parser = "pythonic" -> Pythonic(s)
          [] parser = "call_notation" -> CallNotation(s)
          [] parser = "tag_notation" -> TagNotation(s)
          [] parser = "passthrough" -> Passthrough(body)

\* _KNOWN_TOOL_PARSERS, in the order in which they are tried.
KnownParsers == <<"passthrough", "json_object", "json_array", "json_sequence", "named_json_sequence",
                  "pythonic", "call_notation", "tag_notation">>

\* A parser recognises a body when it finds a call with a name; the
\* passthrough parser never does.
Recognises(parser, body) ==
    parser # "passthrough" /\ ToSet(Parse(parser, body)) \ {""} # {}

=============================================================================
