------------------------------ MODULE Serializer ------------------------------
(***************************************************************************)
(* Serializer and its two protocols.  A dump is a list of writes, each a   *)
(* Done(cells) appended to the file or Raised, followed by the patches of  *)
(* the headers that were written as zeros; the readers take any content.   *)
(*                                                                         *)
(* A dump request d is a record: model (its id, shape, files and bundle),  *)
(* lib, family, config, capabilities, artifacts, protocol, compression and *)
(* the v2 knobs meta, artifact and model.                                  *)
(***************************************************************************)
EXTENDS ModelFile

Zeros(n) == [i \in 1..n |-> Num(0)]
FileHeader == 3                      \* protocol, compression, body size
BodyHeader(protocol) == IF protocol = 1 THEN 4 ELSE 3

\* m.source: a directory is kept as it is, a live model has none until it is dumped.
IsDirectory(d) == d.model.shape = "directory"

\* v1: a directory has no representation; the model comes before the artifacts.
PartsV1(d) ==
  <<IF IsDirectory(d) THEN Raised ELSE Done(Zeros(BodyHeader(1))),
    Done(PackMeta(MetaOf(d), d.compression)),
    Then(SerializerDump(SerializerLib(d.lib), d.model),
         LAMBDA payload : Done(Compress(payload, d.compression))),
    PackAll(d.artifacts, d.compression)>>

\* v2: every section opens with the byte of its own compression.
Section(knob, payload) ==
  IF knob \in DOMAIN SectionBytes
  THEN Then(payload, LAMBDA cells : Done(<<Num(SectionBytes[knob])>> \o cells)) ELSE Raised
\* _pack_model: its header is written before the payload is looked at.
ModelParts(d) ==
  LET kind == Kind(MetaOf(d))
      payload == IF kind = "bundle" /\ IsDirectory(d) THEN Done(Tar(d.model.files))
                 ELSE IF IsDirectory(d) THEN Raised
                 ELSE SerializerDump(SerializerLib(d.lib), d.model)
  IN  <<Section(d.modelKnob, Done(<<Num(KindBytes[kind])>>)),
        Then(payload, LAMBDA cells : Done(Compress(cells, Derive(d.compression, d.modelKnob))))>>
PartsV2(d) ==
  <<Done(Zeros(BodyHeader(2))),
    Section(d.meta, Done(PackMeta(MetaOf(d), Derive(d.compression, d.meta)))),
    Section(d.artifact, Then(PackAll(d.artifacts, Derive(d.compression, d.artifact)),
                             LAMBDA cells : Done(<<Num(Len(d.artifacts))>> \o cells)))>>
  \o ModelParts(d)

Parts(d) == IF d.protocol = 1 THEN PartsV1(d) ELSE PartsV2(d)
Size(d, i) == Len(Parts(d)[i].value)

\* The header of the body, known once every section is written.
BodySizes(d) ==
  IF d.protocol = 1
  THEN <<Num(Size(d, 2)), Num(Size(d, 3)), Num(Len(d.artifacts)), Num(Size(d, 4))>>
  ELSE <<Num(Size(d, 2)), Num(Size(d, 3)), Num(Size(d, 4) + Size(d, 5))>>
Patch(file, offset, cells) ==
  [i \in DOMAIN file |-> IF i > offset /\ i <= offset + Len(cells) THEN cells[i - offset] ELSE file[i]]
---------------------------------------------------------------------------
(* Readers.                                                                *)

\* The outer header: an unknown version or codec raises, the size is not checked.
Open(file) ==
  Then(Unpack(Slice(file, 0, FileHeader), FileHeader), LAMBDA header :
  IF header[1] \notin {1, 2} THEN Raised
  ELSE Then(Named(Formats, header[2]), LAMBDA algo :
         Done([protocol |-> header[1], algo |-> algo])))
Sizes(file, protocol) ==
  Unpack(Slice(file, FileHeader, BodyHeader(protocol)), BodyHeader(protocol))
BodyStart(protocol) == FileHeader + BodyHeader(protocol)

SectionAlgo(cells, algo) ==
  Then(Unpack(Slice(cells, 0, 1), 1), LAMBDA byte :
  Then(Named(SectionBytes, byte[1]), LAMBDA knob : Done(Derive(algo, knob))))

Bytes(cells) == [kind |-> "bytes", cells |-> cells]
Directory(cells) == [kind |-> "directory", cells |-> cells]

UnpackV1(file, algo, sizes) ==
  LET start == BodyStart(1)
  IN  Then(UnpackMeta(Slice(file, start, sizes[1]), algo), LAMBDA meta :
      Then(Decompress(Slice(file, start + sizes[1], sizes[2]), algo), LAMBDA model :
      Then(UnpackAll(Slice(file, start + sizes[1] + sizes[2], sizes[4]), 0, sizes[3], algo),
           LAMBDA artifacts :
             Done([meta |-> meta, artifacts |-> artifacts, source |-> Bytes(model)]))))

UnpackMetaV2(cells, algo) ==
  Then(SectionAlgo(cells, algo), LAMBDA own : UnpackMeta(From(cells, 1), own))
UnpackArtifactsV2(cells, algo) ==
  Then(SectionAlgo(cells, algo), LAMBDA own :
  Then(Unpack(Slice(cells, 1, 1), 1), LAMBDA count : UnpackAll(cells, 2, count[1], own)))
\* _unpack_model: a bundle is untarred as it is read, anything else is read first.
UnpackModelV2(cells, algo) ==
  Then(Unpack(Slice(cells, 0, 2), 2), LAMBDA bytes :
  Then(Named(KindBytes, bytes[2]), LAMBDA kind :
  Then(SectionAlgo(cells, algo), LAMBDA own :
    IF kind = "bundle"
    THEN Then(Untar(From(cells, 2), own), LAMBDA files : Done(Directory(files)))
    ELSE Then(Decompress(From(cells, 2), own), LAMBDA payload : Done(Bytes(payload))))))
UnpackV2(file, algo, sizes) ==
  LET start == BodyStart(2)
  IN  Then(UnpackMetaV2(Slice(file, start, sizes[1]), algo), LAMBDA meta :
      Then(UnpackArtifactsV2(Slice(file, start + sizes[1], sizes[2]), algo), LAMBDA artifacts :
      Then(UnpackModelV2(Slice(file, start + sizes[1] + sizes[2], sizes[3]), algo), LAMBDA source :
        Done([meta |-> meta, artifacts |-> artifacts, source |-> source]))))

Load(file) ==
  Then(Open(file), LAMBDA outer :
  Then(Sizes(file, outer.protocol), LAMBDA sizes :
    IF outer.protocol = 1 THEN UnpackV1(file, outer.algo, sizes)
    ELSE UnpackV2(file, outer.algo, sizes)))

\* Serializer.meta stops behind the metadata.
MetaV1(file, algo, sizes) == UnpackMeta(Slice(file, BodyStart(1), sizes[1]), algo)
MetaV2(file, algo, sizes) == UnpackMetaV2(Slice(file, BodyStart(2), sizes[1]), algo)
Meta(file) ==
  Then(Open(file), LAMBDA outer :
  Then(Sizes(file, outer.protocol), LAMBDA sizes :
    IF outer.protocol = 1 THEN MetaV1(file, outer.algo, sizes) ELSE MetaV2(file, outer.algo, sizes)))

\* Mutant: the model of version 1, which comes before the artifacts, is not passed over.
ManifestV1Unskipped(file, sizes) == ReadNames(file, BodyStart(1) + sizes[1], sizes[3])

\* Serializer.manifest seeks past what v1 keeps before the artifacts, the model, and
\* past the metadata alone in v2, whose section byte it does not look at.
ManifestV1(file, sizes) == ReadNames(file, BodyStart(1) + sizes[1] + sizes[2], sizes[3])
ManifestV2(file, sizes) ==
  LET start == BodyStart(2) + sizes[1]
  IN  Then(Unpack(Slice(file, start, 2), 2), LAMBDA section : ReadNames(file, start + 2, section[2]))
Manifest(file) ==
  Then(Open(file), LAMBDA outer :
  Then(Sizes(file, outer.protocol), LAMBDA sizes :
    IF outer.protocol = 1 THEN ManifestV1(file, sizes) ELSE ManifestV2(file, sizes)))

\* ModelArtifact.model: an LLM is its directory, anything else goes through its framework.
Materialise(artifact) ==
  IF artifact.meta.family = "llm" THEN Done(artifact.source)
  ELSE SerializerLoad(artifact.meta.lib, artifact.source)
=============================================================================
