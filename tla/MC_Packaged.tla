----------------------------- MODULE MC_Packaged -----------------------------
(* Two dumps at one path, of the requests below, and one registered model. *)
EXTENDS Packaged

MCWide == {"e'"}
MCLenient == {"zlib"}

\* A chat template that renders nothing and mentions nothing.
Mute == [loads |-> FALSE, shown |-> FALSE, toggles |-> FALSE, references |-> {}]
NoBundle == [config |-> {}, preprocessor |-> {}, tensors |-> Nothing, template |-> Mute]
Plain(id) == [id |-> id, shape |-> "live", files |-> <<>>, bundle |-> NoBundle]
Files(id) == FlattenSeq([i \in 1..2 |-> <<<<"entry", <<id, i>>>>, <<"data", <<id, i>>>>>>])
Checkpoint(id, shape, bundle) == [id |-> id, shape |-> shape, files |-> Files(id), bundle |-> bundle]

\* A declared image tower that is shipped, one that is not, one nobody can list.
Vision   == [config |-> {"file", "image"}, preprocessor |-> {"file"},
             tensors |-> <<{"image"}>>, template |-> [Mute EXCEPT !.loads = TRUE, !.shown = TRUE]]
TextOnly == [config |-> {"file", "image"}, preprocessor |-> {}, tensors |-> <<{}>>, template |-> Mute]
Unlisted == [config |-> {"file"}, preprocessor |-> {"file", "audio"}, tensors |-> Nothing,
             template |-> [Mute EXCEPT !.references = {"reasoning"}]]

A == <<<<"a">>, <<<<"raw", "A">>>>>>
B == <<<<"b", "b">>, <<<<"raw", "B1">>, <<"raw", "B2">>>>>>
Lost == <<<<"l">>, Nothing>>
Up == <<<<".", ".">>, <<<<"raw", "U">>>>>>
Nested == <<<<"d", "/", "f">>, <<<<"raw", "N">>>>>>
Accent == <<<<"e'">>, <<<<"raw", "E">>>>>>

Request(source, lib, family, protocol, compression, artifacts) ==
  [model |-> source, lib |-> lib, family |-> family, config |-> Nothing, capabilities |-> Nothing,
   artifacts |-> artifacts, protocol |-> protocol, compression |-> compression,
   meta |-> "inherit", artifact |-> "inherit", modelKnob |-> "inherit"]

\* The dumps that can be finished, and those that raise half way.
Sound == {
  Request(Plain("m1"), "sklearn", "ml", 1, "zstd", <<A, B>>),
  Request(Plain("m2"), "keras", "ml", 2, "bz2", <<B, A>>),
  [Request(Plain("m3"), "torch", "ml", 2, "zstd", <<A>>)
    EXCEPT !.meta = "none", !.artifact = "lzma", !.capabilities = MLCapabilities],
  [Request(Checkpoint("m4", "live", NoBundle), "transformers", "ml", 2, "zlib", <<A, B>>)
    EXCEPT !.artifact = "none"],
  Request(Checkpoint("m5", "directory", Vision), "transformers", "llm", 2, "zstd", <<>>),
  [Request(Checkpoint("m6", "directory", TextOnly), "transformers", "llm", 2, "lzma", <<B>>)
    EXCEPT !.modelKnob = "zstd"],
  Request(Checkpoint("m7", "directory", Unlisted), "transformers", "ml", 2, "zstd", <<>>),
  \* Three whose end is not sealed: a tar stream and an object as they are, a lenient codec.
  [Request(Checkpoint("m8", "directory", Vision), "transformers", "llm", 2, "zstd", <<A>>)
    EXCEPT !.modelKnob = "none"],
  [Request(Plain("m9"), "sklearn", "ml", 2, "bz2", <<>>) EXCEPT !.modelKnob = "none"],
  Request(Plain("m0"), "sklearn", "ml", 1, "zlib", <<A, B>>)}
Failing == {
  Request(Plain("f1"), "sklearn", "ml", 1, "gzip", <<>>),
  Request(Plain("f2"), "sklearn", "ml", 1, "zstd", <<A, Lost>>),
  Request(Plain("f3"), "sklearn", "ml", 2, "zstd", <<Up>>),
  Request(Checkpoint("f4", "directory", Vision), "transformers", "ml", 1, "zstd", <<>>),
  Request(Checkpoint("f5", "directory", NoBundle), "sklearn", "ml", 2, "zstd", <<Nested>>),
  Request(Checkpoint("f6", "directory", NoBundle), "sklearn", "ml", 2, "zstd", <<A>>),
  [Request(Plain("f7"), "sklearn", "ml", 2, "zstd", <<>>) EXCEPT !.meta = "gzip"]}
MCRequests == Sound \cup Failing

\* A live torch module nobody can export: the same request, half way through v1.
Opaque == Request([Plain("f8") EXCEPT !.shape = "opaque"], "torch", "ml", 1, "zstd", <<>>)
AllRequests == MCRequests \cup {Opaque}

\* Requests a dump accepts and a load does not give back: a name with an accent, a
\* transformers model under version 1.
Unreadable == {
  Request(Plain("u1"), "sklearn", "ml", 2, "zstd", <<Accent>>),
  Request(Checkpoint("u2", "live", NoBundle), "transformers", "ml", 1, "zstd", <<>>)}
=============================================================================
