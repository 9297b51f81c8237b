------------------------------ MODULE Packaged ------------------------------
(***************************************************************************)
(* A model file at a path, the processes that dump models to it one after  *)
(* the other, and the model of an application registered with that path:   *)
(* its header is read when it is registered, its names when it is          *)
(* inspected, and the whole file when the application starts.  Each tier   *)
(* is cached, and the file may have been replaced, half written or cut     *)
(* short between any two of the reads.                                     *)
(***************************************************************************)
EXTENDS Serializer

CONSTANTS
  Requests,      \* the dumps that may happen: records d of Serializer
  Runtime,       \* whether an LLM runtime is importable
  MaxDumps       \* bound on the number of dumps

VARIABLES
  file,          \* the content at the path
  dump,          \* Idle, or the dump that has the file open
  dumps,         \* number of dumps started
  written,       \* the last dump, when it closed the file after its last write, or Nothing
  whole,         \* the file is as that dump left it: nothing cut it since
  model          \* the BaseModel of the application

vars == <<file, dump, dumps, written, whole, model>>

Idle == [of |-> Nothing, part |-> 0]
Unbuilt == [class |-> "none", meta |-> Nothing, manifest |-> Nothing, artifacts |-> Nothing,
            backend |-> Nothing, options |-> {}]

Init ==
  /\ file = <<>> /\ dump = Idle /\ dumps = 0 /\ written = Nothing /\ whole = FALSE
  /\ model = Unbuilt

\* Serializer.dump: open("wb") empties the file before the codec is looked up.
StartDump(d) ==
  /\ dump = Idle /\ dumps < MaxDumps
  /\ dumps' = dumps + 1
  /\ written' = Nothing /\ whole' = FALSE
  /\ IF d.compression \in DOMAIN Formats
     THEN file' = Zeros(FileHeader) /\ dump' = [of |-> d, part |-> 1]
     ELSE file' = <<>> /\ dump' = Idle
  /\ UNCHANGED model

\* One f.write of the protocol; an exception closes the file as it is.
WritePart ==
  /\ dump # Idle /\ dump.part <= Len(Parts(dump.of))
  /\ LET part == Parts(dump.of)[dump.part]
     IN  IF part.ok THEN file' = file \o part.value /\ dump' = [dump EXCEPT !.part = @ + 1]
         ELSE dump' = Idle /\ UNCHANGED file
  /\ UNCHANGED <<dumps, written, whole, model>>

\* seek(body_start): the sizes of the sections.
PatchBody ==
  /\ dump # Idle /\ dump.part = Len(Parts(dump.of)) + 1
  /\ file' = Patch(file, FileHeader, BodySizes(dump.of))
  /\ dump' = [dump EXCEPT !.part = @ + 1]
  /\ UNCHANGED <<dumps, written, whole, model>>

\* seek(header_pos): what makes the file one, and close.
PatchFile ==
  /\ dump # Idle /\ dump.part = Len(Parts(dump.of)) + 2
  /\ file' = Patch(file, 0, <<Num(dump.of.protocol), Num(Formats[dump.of.compression]),
                              Num(Len(file) - FileHeader)>>)
  /\ dump' = Idle /\ written' = dump.of /\ whole' = TRUE
  /\ UNCHANGED <<dumps, model>>

\* The process that dumps dies between two writes.
CrashDump ==
  /\ dump # Idle
  /\ dump' = Idle
  /\ UNCHANGED <<file, dumps, written, whole, model>>

\* A copy of the file ended early.
CutShort(n) ==
  /\ dump = Idle /\ n < Len(file)
  /\ file' = Slice(file, 0, n)
  /\ whole' = FALSE
  /\ UNCHANGED <<dump, dumps, written, model>>

\* ModelsModule.add_model: the family in the header picks the class, and an ML model
\* takes neither a decoder nor a default for reasoning.
Build(options) ==
  /\ model.class = "none"
  /\ LET meta == Meta(file)
     IN  /\ meta.ok
         /\ options # {} => meta.value.family = "llm"
         /\ model' = [model EXCEPT !.class = meta.value.family, !.meta = meta.value,
                                   !.options = options]
  /\ UNCHANGED <<file, dump, dumps, written, whole>>

\* BaseModel.inspect: the cached header, and the names, read once.
Inspect ==
  /\ model.class # "none"
  /\ model.manifest = Nothing
  /\ IF model.artifacts # Nothing
     THEN model' = [model EXCEPT !.manifest =
                      <<[i \in DOMAIN model.artifacts[1] |-> model.artifacts[1][i][1]]>>]
     ELSE /\ Manifest(file).ok
          /\ model' = [model EXCEPT !.manifest = <<Manifest(file).value>>]
  /\ UNCHANGED <<file, dump, dumps, written, whole>>

\* MLBackend.from_model_artifact materialises through the framework of the file.
MLBackend(artifact) == Materialise(artifact)
\* LLMBackend.from_model_artifact hands the source to a runtime, which wants a directory
\* and refuses a model without capabilities.
LLMBackend(artifact) ==
  Then(Materialise(artifact), LAMBDA source :
    IF Runtime /\ source.kind = "directory" /\ artifact.meta.capabilities # Nothing
    THEN Done(source) ELSE Raised)
Backend(class, artifact) == IF class = "ml" THEN MLBackend(artifact) ELSE LLMBackend(artifact)

\* Mutant: the metadata read at registration is kept.
LoadModelOldMeta ==
  /\ model.class # "none" /\ model.backend = Nothing
  /\ Load(file).ok
  /\ LET artifact == Load(file).value
         backend == Backend(model.class, artifact)
     IN  /\ backend.ok
         /\ model' = [model EXCEPT !.backend = backend.value,
                                   !.artifacts = <<artifact.artifacts>>]
  /\ UNCHANGED <<file, dump, dumps, written, whole>>

\* BaseModel.load: does nothing when there is a backend, and sets nothing when it raises.
LoadModel ==
  /\ model.class # "none" /\ model.backend = Nothing
  /\ Load(file).ok
  /\ LET artifact == Load(file).value
         backend == Backend(model.class, artifact)
     IN  /\ backend.ok
         /\ model' = [model EXCEPT !.backend = backend.value, !.meta = artifact.meta,
                                   !.artifacts = <<artifact.artifacts>>]
  /\ UNCHANGED <<file, dump, dumps, written, whole>>

Rest == dumps = MaxDumps /\ dump = Idle /\ UNCHANGED vars

Next ==
  \/ \E d \in Requests : StartDump(d)
  \/ WritePart \/ PatchBody \/ PatchFile \/ CrashDump
  \/ \E n \in 0..Len(file) : CutShort(n)
  \/ \E options \in SUBSET {"decoder", "reasoning"} : Build(options)
  \/ Inspect \/ LoadModel \/ Rest

Spec == Init /\ [][Next]_vars
---------------------------------------------------------------------------
(* Properties.                                                             *)

\* What a dump is meant to keep: the framework gets back what it gave.
Kept(d) ==
  [meta |-> MetaOf(d), artifacts |-> d.artifacts,
   source |-> IF Kind(MetaOf(d)) = "bundle" THEN Directory(d.model.files)
              ELSE Bytes(<<<<"raw", d.model.id>>>>)]
NamesOf(artifacts) == [i \in DOMAIN artifacts |-> artifacts[i][1]]

\* What is left of a dump whose file was cut: the metadata, and everything before the part
\* written last, a model or an artifact, of which there is a beginning.
PartOf(artifact, kept) ==
  /\ artifact.meta = kept.meta
  /\ artifact.source.kind = kept.source.kind /\ IsPrefix(artifact.source.cells, kept.source.cells)
  /\ artifact.source = kept.source \/ artifact.artifacts = kept.artifacts
  /\ Len(artifact.artifacts) = Len(kept.artifacts)
  /\ \A i \in DOMAIN kept.artifacts :
       /\ i < Len(kept.artifacts) => artifact.artifacts[i] = kept.artifacts[i]
       /\ \A field \in {1, 2} : IsPrefix(artifact.artifacts[i][field], kept.artifacts[i][field])

\* The codec of what the file ends with tells its end: neither none at all nor a lenient one.
Sealed(d) ==
  (IF d.protocol = 1 THEN d.compression ELSE Derive(d.compression, d.modelKnob))
    \notin {"none"} \cup Lenient

\* What Serializer.load returns comes from a finished dump: a file being written, and one whose
\* dump failed or died, are never taken for a model, over whatever they were written.  A finished
\* one, wherever it was cut, is the model that was dumped or is refused when its end is sealed;
\* when it is not, a beginning of that model.  Left as it was written it is never refused.
ReadsBack ==
  /\ Load(file).ok => /\ written # Nothing
                      /\ PartOf(Load(file).value, Kept(written))
                      /\ Sealed(written) => Load(file).value = Kept(written)
  /\ whole => Load(file) = Done(Kept(written))

\* The cheap readings agree with the whole one: meta and manifest, which skip most of the
\* file, tell the metadata and the names of the artifacts that load would return.
InspectionAgrees ==
  Load(file).ok => /\ Meta(file) = Done(Load(file).value.meta)
                   /\ Manifest(file) = Done(NamesOf(Load(file).value.artifacts))

\* Every reading of a model file, of the whole or of its start, tells the same model.
ReadingsAgree == ReadsBack /\ InspectionAgrees

\* A loaded model is one model: its metadata, artifacts and engine come from the same dump,
\* whatever happened to the file between registration, inspection and startup, and it
\* advertises no image or audio support its listed tensors do not carry.
TiersTogether ==
  model.backend # Nothing =>
    \E d \in Requests :
      /\ PartOf([meta |-> model.meta, artifacts |-> model.artifacts[1], source |-> model.backend],
                Kept(d))
      /\ (d.capabilities = Nothing /\ d.model.bundle.tensors # Nothing) =>
           \A flag \in {"image", "audio"} :
             model.meta.capabilities.kind = "llm" /\ flag \in model.meta.capabilities.flags
               => flag \in d.model.bundle.tensors[1]

\* A file that was cut is not taken for a model: fails without a codec that tells the end.
CutsRefused == Load(file).ok => whole

\* BaseModel.manifest says "After load runs the names are taken from the materialised
\* artifacts mapping" (models/_base.py:103): names that were read before stay.
ManifestDescribes ==
  model.backend # Nothing /\ model.manifest # Nothing
    => model.manifest[1] = NamesOf(model.artifacts[1])

\* The class, chosen when the model was registered, is the one of what was loaded.
FamilyStays == model.backend # Nothing => model.meta.family = model.class
=============================================================================
