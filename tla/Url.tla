-------------------------------- MODULE Url --------------------------------
(* URL paths (flama/url.py, lib/core/src/url.rs). A path is a sequence of symbols: "/", the letters and      *)
(* digits of constant fragments and parameter values, and in the path of a route one symbol per placeholder  *)
(* ("n" stands for "{n:int}"). The serializers are reduced to the raw values their placeholder accepts.      *)
EXTENDS Integers, Sequences, FiniteSets, SequencesExt

CONSTANTS
    PlaceholderType,   \* placeholder symbol |-> its type
    Digits             \* the symbols an "int" value is made of

ASSUME PlaceholderAssumption ==
    /\ \A p \in DOMAIN PlaceholderType : PlaceholderType[p] \in {"str", "int"}
    /\ "/" \notin (DOMAIN PlaceholderType) \cup Digits

IsPlaceholder(c) == c \in DOMAIN PlaceholderType
IsSlash(c) == c = "/"
----------------------------------------------------------------------------
(* str.lstrip("/"), str.rstrip("/") and str.strip("/") *)
LStrip(t) == SubSeq(t, SelectInSeq(Append(t, "end"), LAMBDA c : ~IsSlash(c)), Len(t))
RStrip(t) == SubSeq(t, 1, SelectLastInSeq(t, LAMBDA c : ~IsSlash(c)))
Strip(t) == RStrip(LStrip(t))

(* A fragment that begins with a placeholder is that placeholder: the rest of the fragment is dropped. *)
Split(fs, c) ==
    CASE IsSlash(c) -> Append(fs, <<>>)
      [] ~IsSlash(c) /\ Last(fs) # <<>> /\ IsPlaceholder(Head(Last(fs))) -> fs
      [] OTHER -> [fs EXCEPT ![Len(fs)] = Append(@, c)]
Fragments(t) == FoldLeft(Split, <<<<>>>>, Strip(t))
Joined(fs) == FlattenSeq([i \in DOMAIN fs |-> IF i = 1 THEN fs[i] ELSE <<"/">> \o fs[i]])

(* What Path(t) matches with and what str(Path(t)) writes: one slash before the fragments, one after them  *)
(* when the text ends with one, and one between two of them.                                               *)
Template(t) ==
    (IF t = <<>> THEN <<>> ELSE <<"/">>) \o Joined(Fragments(t))
    \o (IF t \in {<<>>, <<"/">>} \/ ~IsSlash(Last(t)) THEN <<>> ELSE <<"/">>)

(* Mutant of Concat: the slashes at the joint are kept. *)
ConcatAsWritten(a, b) == a \o <<"/">> \o b

(* The / operator of Path. *)
Concat(a, b) == RStrip(a) \o <<"/">> \o LStrip(b)

(* The text of the segment of input that begins after its first n symbols. *)
SegmentFrom(input, n) ==
    LET slash == SelectInSubSeq(input, n + 1, Len(input), IsSlash)
    IN  SubSeq(input, n + 1, IF slash = 0 THEN Len(input) ELSE slash - 1)

Validate(segment, type) ==
    /\ segment # <<>>
    /\ type = "int" => \A i \in DOMAIN segment : segment[i] \in Digits

NoMatch == [kind |-> "none", values |-> <<>>, matched |-> <<>>, unmatched |-> <<>>]

(* PathMatcher.match_path_raw: constants are compared symbol by symbol, a placeholder takes the text up to  *)
(* the next slash. Nothing asks that a partial match ends where a segment ends. A match that failed is no   *)
(* longer within the input: it is at -1.                                                                    *)
TakeSegment(s, segment, type) ==
    IF Validate(segment, type) THEN [at |-> s.at + Len(segment), values |-> Append(s.values, segment)]
    ELSE [s EXCEPT !.at = -1]
Take(input, s, c) ==
    CASE s.at < 0 -> s
      [] s.at >= 0 /\ IsPlaceholder(c) -> TakeSegment(s, SegmentFrom(input, s.at), PlaceholderType[c])
      [] OTHER -> IF s.at < Len(input) /\ input[s.at + 1] = c THEN [s EXCEPT !.at = @ + 1]
                   ELSE [s EXCEPT !.at = -1]
Taken(input, s) ==
    IF s.at < 0 THEN NoMatch
    ELSE [kind |-> IF s.at = Len(input) THEN "exact" ELSE "partial", values |-> s.values,
          matched |-> SubSeq(input, 1, s.at), unmatched |-> SubSeq(input, s.at + 1, Len(input))]
MatchTemplate(template, input) ==
    Taken(input, FoldLeft(LAMBDA s, c : Take(input, s, c), [at |-> 0, values |-> <<>>], template))

Placeholders(t) == {c \in ToSet(Template(t)) : IsPlaceholder(c)}

(* Path.build: every placeholder needs a value, what no placeholder takes is returned as unused. *)
Buildable(t, params) == Placeholders(t) \subseteq DOMAIN params
Filled(template, params) ==
    FlattenSeq([i \in DOMAIN template |-> IF IsPlaceholder(template[i]) THEN params[template[i]] ELSE <<template[i]>>])
Build(t, params) ==
    [path |-> Filled(Template(t), params), unused |-> [p \in (DOMAIN params) \ Placeholders(t) |-> params[p]]]
=============================================================================
