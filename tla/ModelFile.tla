------------------------------ MODULE ModelFile ------------------------------
(***************************************************************************)
(* The .flm file a model travels in: what Serializer.dump writes, part by  *)
(* part, for both protocol versions, and what load, meta and manifest read *)
(* back from any content, complete or not.                                 *)
(*                                                                         *)
(* A file is a sequence of cells.  A cell is a pair <<tag, value>>: a      *)
(* field of a struct header ("int"), a byte of an encoded name ("chr"), a  *)
(* byte of somebody's content ("raw"), the head and the tail of a          *)
(* compressed frame, the JSON of the metadata, half a member of a tar      *)
(* stream ("entry", "data") or what ends one ("end").                      *)
(* Every size the code computes is a number of cells.                      *)
(***************************************************************************)
EXTENDS Naturals, FiniteSets, Sequences, SequencesExt

CONSTANTS
  Wide,      \* the characters whose UTF-8 encoding takes two bytes
  Lenient    \* the codecs whose decoder takes the end of its input for the end of a frame

\* The value of an optional that is not there, comparable with sequences.
Nothing == <<>>
\* An attempt: what it produced, or that it raised.
Done(value) == [ok |-> TRUE, value |-> value]
Raised == [ok |-> FALSE, value |-> Nothing]
Then(attempt, F(_)) == IF attempt.ok THEN F(attempt.value) ELSE Raised

Num(n) == <<"int", n>>
\* f.read(size) at an offset: fewer cells when the file ends before.
Slice(cells, offset, size) ==
  SubSeq(cells, offset + 1, IF offset + size > Len(cells) THEN Len(cells) ELSE offset + size)
From(cells, offset) == SubSeq(cells, offset + 1, Len(cells))
\* struct.unpack of n fields refuses any other length, and here whatever is not a header.
Unpack(cells, n) ==
  IF Len(cells) = n /\ \A i \in 1..n : cells[i][1] = "int"
  THEN Done([i \in 1..n |-> cells[i][2]])
  ELSE Raised
---------------------------------------------------------------------------
(* Compression: the file-level codec and the byte of every v2 section.     *)

Formats == [bz2 |-> 1, lzma |-> 2, zlib |-> 3, zstd |-> 4]
SectionBytes == [inherit |-> 0, bz2 |-> 1, lzma |-> 2, zlib |-> 3, zstd |-> 4, none |-> 255]
Named(table, n) == IF \E k \in DOMAIN table : table[k] = n
                   THEN Done(CHOOSE k \in DOMAIN table : table[k] = n) ELSE Raised

\* derive: "inherit" is the algorithm of the file, every other knob is itself.
Derive(algo, knob) == IF knob = "inherit" THEN algo ELSE knob

Compress(data, algo) ==
  IF algo = "none" THEN data ELSE <<<<"head", algo>>>> \o data \o <<<<"tail", algo>>>>
\* What follows the head of a frame up to its tail, or to where the frame was cut.
Decoded(data, algo) ==
  IF algo = "none" THEN data ELSE SelectSeq(From(data, 1), LAMBDA x : x # <<"tail", algo>>)
\* decompress_into reads to the end: a frame without its tail raises, except under a
\* lenient codec, which gives what there is.
Decompress(data, algo) ==
  IF \/ algo \in {"none"} \cup Lenient
     \/ Len(data) > 1 /\ Head(data) = <<"head", algo>> /\ Last(data) = <<"tail", algo>>
  THEN Done(Decoded(data, algo)) ELSE Raised

\* A tar stream: two cells a member, its header and its data, and the zero blocks.
EndOfTar == <<"end", 0>>
Tar(files) == Append(files, EndOfTar)
\* untar_from decodes as it unpacks and reads no further than the zero blocks, so the tail of
\* the frame is not missed, except under lzma, which is decoded before anything is unpacked.
\* An input that ends between two members ends the archive, inside of one it raises.
Untar(data, algo) ==
  LET cells == Decoded(data, algo)
      files == SelectSeq(cells, LAMBDA x : x # EndOfTar)
  IN  IF /\ Decompress(data, algo).ok \/ (algo # "lzma" /\ Contains(cells, EndOfTar))
         /\ Len(files) % 2 = 0
      THEN Done(files) ELSE Raised
---------------------------------------------------------------------------
(* Bundled artifacts: pairs of a name, a sequence of characters, and the   *)
(* content of the file, or Nothing when that file does not exist.          *)

Utf8(c) == IF c \in Wide THEN <<<<"chr", <<c, 1>>>>, <<"chr", <<c, 2>>>>>> ELSE <<<<"chr", <<c, 0>>>>>>
Encode(name) == FlattenSeq([i \in DOMAIN name |-> Utf8(name[i])])
\* bytes.decode: a name whose last character was cut is not UTF-8.
Decode(cells) ==
  LET chars == SelectSeq(cells, LAMBDA x : x[1] = "chr" /\ x[2][2] < 2)
      name == [i \in DOMAIN chars |-> chars[i][2][1]]
  IN  IF Encode(name) = cells THEN Done(name) ELSE Raised

\* BaseProtocol.artifact_name: one plain file name, on POSIX and on Windows.
ArtifactName(name) ==
  IF \/ name \in {<<>>, <<".">>, <<".", ".">>}
     \/ \E i \in DOMAIN name : name[i] \in {"NUL", "/", "\\"}
     \/ Len(name) > 1 /\ name[2] = ":"
  THEN Raised ELSE Done(name)

\* _Artifact.pack: the size it records for the name counts its characters.
PackArtifact(artifact, algo) ==
  Then(ArtifactName(artifact[1]), LAMBDA name :
    IF artifact[2] = Nothing THEN Raised
    ELSE LET body == Compress(artifact[2], algo)
         IN  Done(<<Num(Len(name)), Num(Len(body))>> \o Encode(name) \o body))

PackAll(artifacts, algo) ==
  LET packed == [i \in DOMAIN artifacts |-> PackArtifact(artifacts[i], algo)]
  IN  IF \E i \in DOMAIN packed : ~packed[i].ok THEN Raised
      ELSE Done(FlattenSeq([i \in DOMAIN packed |-> packed[i].value]))

\* _Artifact.unpack: the entry at an offset and the offset of the next one.
UnpackArtifact(cells, offset, algo) ==
  Then(Unpack(Slice(cells, offset, 2), 2), LAMBDA sizes :
  Then(Decode(Slice(cells, offset + 2, sizes[1])), LAMBDA decoded :
  Then(ArtifactName(decoded), LAMBDA name :
  Then(Decompress(Slice(cells, offset + 2 + sizes[1], sizes[2]), algo), LAMBDA content :
    Done([artifact |-> <<name, content>>, next |-> offset + 2 + sizes[1] + sizes[2]])))))

UnpackAll(cells, start, count, algo) ==
  Then(FoldLeft(LAMBDA sofar, i :
         Then(sofar, LAMBDA s :
         Then(UnpackArtifact(cells, s.next, algo), LAMBDA read :
           Done([found |-> Append(s.found, read.artifact), next |-> read.next]))),
       Done([found |-> <<>>, next |-> start]), [i \in 1..count |-> i]),
  LAMBDA all : Done(all.found))

\* The names alone: each content is passed over by a seek, which may pass the end.
ReadNames(cells, start, count) ==
  Then(FoldLeft(LAMBDA sofar, i :
         Then(sofar, LAMBDA s :
         Then(Unpack(Slice(cells, s.next, 2), 2), LAMBDA sizes :
         Then(Decode(Slice(cells, s.next + 2, sizes[1])), LAMBDA decoded :
         Then(ArtifactName(decoded), LAMBDA name :
           Done([found |-> Append(s.found, name), next |-> s.next + 2 + sizes[1] + sizes[2]]))))),
       Done([found |-> <<>>, next |-> start]), [i \in 1..count |-> i]),
  LAMBDA all : Done(all.found))
---------------------------------------------------------------------------
(* Metadata and its dictionary.  Capabilities are Nothing or a record.     *)

Modalities == {"text", "image", "audio", "video", "tools", "reasoning"}
MLCapabilities == [kind |-> "ml", flags |-> {}]
LLMCapabilities(flags) == [kind |-> "llm", flags |-> flags]

\* ModelCapabilities.from_dict: the kind picks the class, unknown flags are dropped.
CapabilitiesFromDict(dict) ==
  CASE dict.kind = "ml"  -> Done(MLCapabilities)
    [] dict.kind = "llm" -> Done(LLMCapabilities(dict.flags \cap Modalities))
    [] OTHER             -> Raised

\* A dictionary is a set of keys with their values: what is None may be left out.
ToDict(meta) ==
  {<<"id", meta.id>>, <<"lib", meta.lib>>, <<"family", meta.family>>, <<"config", meta.config>>}
  \cup (IF meta.capabilities = Nothing THEN {} ELSE {<<"capabilities", meta.capabilities>>})
Has(dict, key) == \E pair \in dict : pair[1] = key
At(dict, key) == (CHOOSE pair \in dict : pair[1] = key)[2]

\* FrameworkInfo.from_dict: a manifest older than the families is one of a traditional model.
Family(dict) == IF Has(dict, "family") THEN At(dict, "family") ELSE "ml"
FromDict(dict) ==
  LET meta(caps) == [id |-> At(dict, "id"), lib |-> At(dict, "lib"), config |-> At(dict, "config"),
                     family |-> Family(dict), capabilities |-> caps]
  IN  IF Has(dict, "capabilities")
      THEN Then(CapabilitiesFromDict(At(dict, "capabilities")), LAMBDA caps : Done(meta(caps)))
      ELSE Done(meta(Nothing))

PackMeta(meta, algo) == Compress(<<<<"json", ToDict(meta)>>>>, algo)
UnpackMeta(cells, algo) ==
  Then(Decompress(cells, algo), LAMBDA json :
    IF Len(json) = 1 /\ json[1][1] = "json" THEN FromDict(json[1][2]) ELSE Raised)
---------------------------------------------------------------------------
(* Model serializers: one per framework, bytes for most of them and a      *)
(* directory for transformers.                                             *)

SerializerLib(lib) == IF lib = "keras" THEN "tensorflow" ELSE lib
DumpObject(model) == Done(<<<<"raw", model.id>>>>)
\* A torch module without a Linear layer has no example inputs to be exported with.
DumpModule(model) == IF model.shape = "opaque" THEN Raised ELSE DumpObject(model)
DumpPipeline(model) == Done(Tar(model.files))
SerializerDump(lib, model) ==
  CASE lib = "transformers" -> DumpPipeline(model)
    [] lib = "torch"        -> DumpModule(model)
    [] OTHER                -> DumpObject(model)

\* The object is one cell, and nothing can be made of less.
LoadObject(source) ==
  IF source.kind = "directory" \/ source.cells = <<>> THEN Raised ELSE Done(source)
LoadPipeline(source) == IF source.kind = "directory" THEN Done(source) ELSE Raised
SerializerLoad(lib, source) ==
  IF lib = "transformers" THEN LoadPipeline(source) ELSE LoadObject(source)

\* _probe_preprocessor, when the config has no block of any modality.
ProbePreprocessor(bundle) == bundle.preprocessor \cap {"image", "audio"}
Declared(bundle) ==
  IF bundle.config \cap {"image", "audio"} # {} THEN bundle.config \cap {"image", "audio"}
  ELSE ProbePreprocessor(bundle)
\* _probe_weights: a declared modality whose tensors are not there is withdrawn, unless
\* the tensors cannot be listed.
Carried(bundle) ==
  IF bundle.tensors = Nothing THEN Declared(bundle) ELSE Declared(bundle) \cap bundle.tensors[1]
\* _probe_with_tokenizer: a template that never shows the tool ignores tools, one that
\* renders the same with and without thinking has no toggle; Nothing without a template.
ProbeTokenizer(template) ==
  IF ~template.loads THEN Nothing
  ELSE <<(IF template.shown THEN {"tools"} ELSE {})
         \cup (IF template.toggles THEN {"reasoning"} ELSE {})>>
ProbeHeuristic(template) == template.references
ProbeTemplate(template) ==
  IF ProbeTokenizer(template) # Nothing THEN ProbeTokenizer(template)[1] ELSE ProbeHeuristic(template)

\* detect_capabilities: a bundle that declares nothing at all has none.
DetectCapabilities(lib, bundle) ==
  IF lib # "transformers" THEN MLCapabilities
  ELSE IF "file" \notin bundle.config /\ "file" \notin bundle.preprocessor THEN Nothing
  ELSE LLMCapabilities({"text"} \cup Carried(bundle) \cup ProbeTemplate(bundle.template))

\* ModelArtifact.from_model: the metadata of what is about to be dumped.
MetaOf(d) ==
  [id |-> d.model.id, lib |-> SerializerLib(d.lib), family |-> d.family, config |-> d.config,
   capabilities |-> IF d.capabilities # Nothing THEN d.capabilities
                    ELSE DetectCapabilities(SerializerLib(d.lib), d.model.bundle)]

\* _Kind.from_meta: what the model section holds.
Kind(meta) == IF meta.family = "llm" \/ meta.lib = "transformers" THEN "bundle" ELSE "binary"
KindBytes == [binary |-> 0, bundle |-> 1]
=============================================================================
