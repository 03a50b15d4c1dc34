--------------------------- MODULE ArtifactLineage ---------------------------
(***************************************************************************)
(* A model artifact goes through the exporter, the ONNX converters and the *)
(* engine builder, each of which hands the sidecar on; coco_eval.py turns  *)
(* the sidecar into the model contract and the lineage of a report, and    *)
(* accuracy_chain.py decides from two such records which single thing two  *)
(* artifacts differ in.  The properties compare that verdict with how the  *)
(* artifacts were really made.                                             *)
(*                                                                         *)
(* The bytes of an artifact are the steps that made it, <<checkpoint,      *)
(* graph, conversions ..., typing, flag>>: two files have one SHA-256 when *)
(* they were made the same way.  <<>> is a hash nobody recorded.  A        *)
(* precision mode is its family and what it was made with.                 *)
(***************************************************************************)
EXTENDS Naturals, Sequences, FiniteSets, Functions

CONSTANTS
    Checkpoints,
    Graphs,          \* [initial, cascade, eval_idx, size]; cascade is <<>> or <<layer, keep>>
    Converters,      \* of "decoder", "slim", "fp16", "int8"
    Flags,           \* precision flags of the builder, "none" among them
    MaxConversions,  \* bound on the conversions of one graph
    Protocols,       \* evaluation contracts with their ground truth
    Manifests,       \* protocol manifests, "none" among them
    Stages,          \* how many reports are compared
    Kinds            \* what --transition-kind may be

TransitionKinds == {"export", "runtime", "precision", "preset", "comparison"}

LineageAssumption ==
    /\ Graphs \subseteq [initial : Nat \ {0}, cascade : {<<>>} \cup (Nat \X Nat),
                         eval_idx : Nat, size : Nat \ {0}]
    /\ Converters \subseteq {"decoder", "slim", "fp16", "int8"}
    /\ Flags \subseteq {"none", "fp16", "fp16_decoder_fp32", "bf16_decoder_fp32", "int8"}
    /\ MaxConversions \in Nat
    /\ Stages \in Nat \ {0, 1}
    /\ Kinds \subseteq TransitionKinds

VARIABLES
    file,      \* the artifact that is being made
    reports,   \* the stages that were evaluated, in order
    verdict    \* what the accuracy chain made of them

vars == <<file, reports, verdict>>

NoGraph == [initial |-> 1, cascade |-> <<>>, eval_idx |-> 0, size |-> 1]
Mode(family, with) == [family |-> family, with |-> with]
Fp32Mode == Mode("fp32", "none")
NoMeta == [kind |-> "none", precision_mode |-> Mode("none", "none"), load |-> "none", checkpoint |-> <<>>,
           graph |-> NoGraph, onnx |-> <<>>, source |-> <<>>]
NoFile == [kind |-> "none", bytes |-> <<>>, meta |-> NoMeta]
Unjudged == [judged |-> FALSE, accepted |-> FALSE, kinds |-> <<>>, verified |-> <<>>]

Init == file = NoFile /\ reports = <<>> /\ verdict = Unjudged

-----------------------------------------------------------------------------
(* The tools: each makes new bytes and hands the sidecar on.               *)

Take(c) ==
    /\ file.kind = "none" /\ Len(reports) < Stages
    /\ file' = [kind |-> "checkpoint", bytes |-> <<c>>, meta |-> NoMeta]
    /\ UNCHANGED <<reports, verdict>>

\* A cascade keeps fewer queries than it starts from.
ValidCascade(g) == g.cascade # <<>> => g.cascade[2] < g.initial

\* A load that was not strict leaves weights at random: the graph is another one.
Export(g, load) ==
    /\ file.kind = "checkpoint" /\ ValidCascade(g)
    /\ LET bytes == file.bytes \o <<g>> \o (IF load = "strict" THEN <<>> ELSE <<load>>)
       IN  file' = [kind |-> "onnx", bytes |-> bytes,
                    meta |-> [kind |-> "onnx", precision_mode |-> Fp32Mode, load |-> load,
                              checkpoint |-> file.bytes, graph |-> g, onnx |-> <<>>,
                              source |-> <<>>]]
    /\ UNCHANGED <<reports, verdict>>

\* The surgical converter names its recipe and the graph it read.
ConvertedSidecar(meta, bytes, slim) ==
    [meta EXCEPT !.precision_mode = Mode("surgical", slim), !.source = bytes]

\* convert_fp16.py names its mode and no source; convert_int8.py names neither.
ConverterMeta(t, meta, bytes) ==
    CASE t \in {"decoder", "slim"} -> ConvertedSidecar(meta, bytes, t)
      [] t = "fp16" -> [meta EXCEPT !.precision_mode = Mode("strongly_typed_onnx", t)]
      [] t = "int8" -> meta

Conversions(bytes) == IF Len(bytes) < 2 THEN 0 ELSE Len(bytes) - 2

Convert(t) ==
    /\ file.kind = "onnx" /\ Conversions(file.bytes) < MaxConversions
    /\ file' = [file EXCEPT !.bytes = Append(@, t),
                            !.meta = IF @.kind = "none" THEN @
                                     ELSE ConverterMeta(t, @, file.bytes)]
    /\ UNCHANGED <<reports, verdict>>

\* A precision flag replaces the mode of the graph; without one the graph decides.
BuiltMode(meta, flag, typed) ==
    CASE flag # "none" -> Mode("weakly_typed", flag)
      [] flag = "none" /\ meta.kind # "none" -> meta.precision_mode
      [] OTHER -> IF typed = "strong" THEN Mode("strongly_typed", "unknown") ELSE Fp32Mode

BuiltFrom(meta, bytes) == bytes

EngineMeta(meta, bytes, flag, typed) ==
    [meta EXCEPT !.kind = "engine", !.precision_mode = BuiltMode(meta, flag, typed),
                 !.onnx = BuiltFrom(meta, bytes)]

Build(flag, typed) ==
    /\ file.kind = "onnx"
    /\ typed = "strong" => flag \in {"none", "fp16", "int8"}
    /\ file' = [kind |-> "engine",
                bytes |-> file.bytes \o <<typed, flag>>,
                meta |-> EngineMeta(file.meta, file.bytes, flag, typed)]
    /\ UNCHANGED <<reports, verdict>>

\* An artifact that is copied without its sidecar.
LoseSidecar ==
    /\ file.meta.kind # "none"
    /\ file' = [file EXCEPT !.meta = NoMeta]
    /\ UNCHANGED <<reports, verdict>>

-----------------------------------------------------------------------------
(* coco_eval.py: one artifact to one report.                               *)

\* normalized_model_contract: only a strict export has one.
HasContract(meta) == meta.load = "strict" /\ ValidCascade(meta.graph)
ModelContract(meta) == [checkpoint |-> meta.checkpoint, graph |-> meta.graph]

\* artifact_lineage_from_meta and _artifact_lineage.
Lineage(a) ==
    [kind |-> a.kind, precision_mode |-> a.meta.precision_mode, checkpoint |-> a.meta.checkpoint,
     artifact |-> a.bytes, onnx |-> a.meta.onnx, source |-> a.meta.source]

\* The torch backend has no sidecar: the strict load says which checkpoint it is.
TorchMeta(g) ==
    [NoMeta EXCEPT !.kind = "checkpoint", !.precision_mode = Fp32Mode, !.load = "strict",
                   !.checkpoint = file.bytes, !.graph = g]

Subject(g) == IF file.kind = "checkpoint" THEN [file EXCEPT !.meta = TorchMeta(g)] ELSE file

\* A sidecar beside an artifact has to describe an artifact of its kind; a report of the
\* tools before lineage recording says nothing about the model.
Evaluate(g, protocol, manifest, legacy) ==
    LET a == Subject(g) IN
    /\ file.kind # "none"
    /\ file.kind # "checkpoint" => g = file.meta.graph
    /\ file.kind = "checkpoint" => ValidCascade(g)
    /\ legacy \/ (a.meta.kind = a.kind /\ HasContract(a.meta))
    /\ reports' = Append(reports, [legacy |-> legacy, artifact |-> a.bytes,
                                   model |-> ModelContract(a.meta), lineage |-> Lineage(a),
                                   protocol |-> protocol, manifest |-> manifest])
    /\ file' = NoFile
    /\ UNCHANGED verdict

-----------------------------------------------------------------------------
(* accuracy_chain.py: the verdict on a pair of stages, then on the chain.  *)

\* A bug that takes the input size for a graph slider.
WeightsOnly(m) == <<m.checkpoint>>
IdentityFields(m) == <<m.checkpoint, m.graph.size>>
GraphFields(m) == <<m.graph.initial, m.graph.cascade, m.graph.eval_idx>>
GraphDiffers(l, r) == GraphFields(l.model) # GraphFields(r.model)

LineageValid(s) ==
    /\ s.lineage.checkpoint = s.model.checkpoint
    /\ s.lineage.artifact = s.artifact
    /\ s.lineage.kind = "checkpoint" =>
        s.lineage.precision_mode = Fp32Mode /\ s.lineage.artifact = s.lineage.checkpoint

\* The chain checks the contract of a stage by its own rules, not by the evaluator's.
ModelContractValid(m) ==
    /\ m.graph.initial > 0 /\ m.checkpoint # <<>>
    /\ IF m.graph.cascade = <<>> THEN TRUE
       ELSE m.graph.cascade[1] >= 0 /\ m.graph.cascade[2] < m.graph.initial

StageValid(s) == s.legacy \/ (ModelContractValid(s.model) /\ LineageValid(s))

InferredKind(l, r) ==
    LET a == l.lineage
        b == r.lineage
        same == a.kind = b.kind /\ a.kind \in {"onnx", "engine"}
    IN  CASE l.legacy \/ r.legacy -> "comparison"
          [] a.kind = "checkpoint" /\ b.kind = "onnx" -> "export"
          [] a.kind = "onnx" /\ b.kind = "engine" -> "runtime"
          [] same /\ a.precision_mode # b.precision_mode -> "precision"
          [] same /\ a.precision_mode = b.precision_mode /\ GraphDiffers(l, r) -> "preset"
          [] OTHER -> "comparison"

SameModel(l, r) == IdentityFields(l.model) = IdentityFields(r.model)

ExportFits(l, r) ==
    /\ ~GraphDiffers(l, r)
    /\ l.lineage.precision_mode = Fp32Mode /\ r.lineage.precision_mode = Fp32Mode
    /\ r.lineage.source = <<>>

SameGraph(l, r) == ~GraphDiffers(l, r) /\ l.lineage.precision_mode = r.lineage.precision_mode
RuntimeFits(l, r) == SameGraph(l, r) /\ r.lineage.onnx = l.lineage.artifact

PrecisionFits(l, r) ==
    /\ ~GraphDiffers(l, r)
    /\ r.lineage.source = IF l.lineage.kind = "onnx" THEN l.lineage.artifact ELSE l.lineage.onnx

PresetFits(l, r) == GraphDiffers(l, r) /\ l.lineage.precision_mode = r.lineage.precision_mode

AxisFits(kind, l, r) ==
    CASE kind = "export" -> ExportFits(l, r)
      [] kind = "runtime" -> RuntimeFits(l, r)
      [] kind = "precision" -> PrecisionFits(l, r)
      [] kind = "preset" -> PresetFits(l, r)

Requested(ask, l, r) == IF ask = "inferred" THEN InferredKind(l, r) ELSE ask

AskedIsInferred(ask, l, r) == Requested(ask, l, r) = InferredKind(l, r)

\* Two stages with their lineage: the model is the same and one axis differs.
Verified(ask, l, r) ==
    LET kind == Requested(ask, l, r) IN
    /\ ~l.legacy /\ ~r.legacy
    /\ SameModel(l, r)
    /\ l.lineage.checkpoint = r.lineage.checkpoint
    /\ kind # "comparison" => AskedIsInferred(ask, l, r) /\ AxisFits(kind, l, r)

\* Without it, only an explicit permission allows a bare comparison.
Unverified(ask, l, r, allow) ==
    (l.legacy \/ r.legacy) /\ allow /\ Requested(ask, l, r) = "comparison"

ManifestsAgree ==
    LET all == {reports[i].manifest : i \in DOMAIN reports} IN Cardinality(all) = 1

Comparable ==
    /\ \A i \in DOMAIN reports : reports[i].protocol = reports[1].protocol
    /\ ManifestsAgree

\* build_report with one requested kind for each pair of neighbours, "inferred" for none.
BuildReport(ask, allow) ==
    LET Pairs == 1 .. Stages - 1
        verified == [i \in Pairs |-> Verified(ask[i], reports[i], reports[i + 1])]
    IN  /\ Len(reports) = Stages /\ ~verdict.judged
        /\ verdict' =
             [judged |-> TRUE,
              accepted |-> /\ Comparable
                           /\ \A i \in DOMAIN reports : StageValid(reports[i])
                           /\ \A i \in Pairs : \/ verified[i]
                                               \/ Unverified(ask[i], reports[i], reports[i + 1], allow),
              kinds |-> [i \in Pairs |-> Requested(ask[i], reports[i], reports[i + 1])],
              verified |-> verified]
        /\ UNCHANGED <<file, reports>>

\* --transition-kind is given for every pair or for none.
Asked == [1 .. Stages - 1 -> Kinds] \cup {[i \in 1 .. Stages - 1 |-> "inferred"]}

Next ==
    \/ \E c \in Checkpoints : Take(c)
    \/ \E g \in Graphs, load \in {"strict", "partial"} : Export(g, load)
    \/ \E t \in Converters : Convert(t)
    \/ \E flag \in Flags, typed \in {"strong", "weak"} : Build(flag, typed)
    \/ LoseSidecar
    \/ \E g \in Graphs, p \in Protocols, m \in Manifests, legacy \in BOOLEAN :
           Evaluate(g, p, m, legacy)
    \/ \E ask \in Asked, allow \in BOOLEAN : BuildReport(ask, allow)

Spec == Init /\ [][Next]_vars

-----------------------------------------------------------------------------
TypeOK ==
    /\ file.kind \in {"none", "checkpoint", "onnx", "engine"}
    /\ Len(file.bytes) <= MaxConversions + 4
    /\ file.meta.kind \in {"none", "onnx", "engine"}
    /\ file.kind = "onnx" => file.meta.onnx = <<>>
    /\ Len(reports) <= Stages
    /\ verdict.judged => Len(verdict.kinds) = Stages - 1 /\ Range(verdict.kinds) \subseteq TransitionKinds

\* What an engine was built from, and whether one artifact is another one converted.
SourceOf(bytes) == SubSeq(bytes, 1, Len(bytes) - 2)
OnnxOf(s) == IF s.lineage.kind = "engine" THEN SourceOf(s.artifact) ELSE s.artifact
IsConverted(a, b) == Len(a) < Len(b) /\ SubSeq(b, 1, Len(a)) = a

\* Every pair the chain verified as a transition of this kind.
IsVerified(i, kind) == verdict.accepted /\ verdict.verified[i] /\ verdict.kinds[i] = kind
Pair(kind, P(_, _)) == \A i \in DOMAIN verdict.kinds :
    IsVerified(i, kind) => P(reports[i], reports[i + 1])

\* A verified export compares a checkpoint with the graph that was exported from it, with
\* the same sliders and before any conversion (_validate_transition, "export").
ExportIsRaw ==
    LET Raw(l, r) == r.artifact = Append(l.artifact, l.model.graph) IN Pair("export", Raw)

\* A verified runtime transition compares a graph with an engine of that very graph, built
\* without a precision flag (_validate_transition, "runtime").
RuntimeIsTheBackend ==
    LET Built(l, r) == \E typed \in {"strong", "weak"} : r.artifact = l.artifact \o <<typed, "none">>
    IN  Pair("runtime", Built)

\* A verified precision transition compares two forms of one exported graph, the right one
\* converted from what the left one is or was built from (_validate_transition, "precision").
PrecisionOfOneGraph ==
    LET Converted(l, r) == IsConverted(OnnxOf(l), OnnxOf(r)) IN Pair("precision", Converted)

\* A verified preset transition compares two graphs of one checkpoint that went through the
\* same conversions (_validate_transition, "preset").
PresetChangesGraphOnly ==
    LET Same(l, r) == /\ l.artifact[2] # r.artifact[2]
                      /\ SubSeq(OnnxOf(l), 3, Len(OnnxOf(l))) = SubSeq(OnnxOf(r), 3, Len(OnnxOf(r)))
    IN  Pair("preset", Same)

\* Whatever the tools carried through the sidecars, stages that are verified against each
\* other come from one checkpoint at one input size (MODEL_IDENTITY_FIELDS).
OneModel ==
    verdict.accepted => \A i \in DOMAIN verdict.kinds : verdict.verified[i] =>
        /\ reports[i].artifact[1] = reports[i + 1].artifact[1]
        /\ reports[i].model.graph.size = reports[i + 1].model.graph.size

\* An accepted chain was evaluated under one contract and one manifest throughout, or under
\* no manifest (_assert_comparable against the first stage, build_report).
OneProtocol ==
    verdict.accepted => \A i, j \in DOMAIN reports :
        reports[i].protocol = reports[j].protocol /\ reports[i].manifest = reports[j].manifest

\* How two artifacts of the maintained recipes really differ.
TrueKind(l, r) ==
    LET a == l.artifact
        b == r.artifact
        tail(s) == SubSeq(OnnxOf(s), 3, Len(OnnxOf(s)))
        typing(s) == IF s.lineage.kind = "engine"
                     THEN SubSeq(s.artifact, Len(s.artifact) - 1, Len(s.artifact)) ELSE <<>>
    IN  CASE l.lineage.kind = "checkpoint" /\ b = Append(a, l.model.graph) -> "export"
          [] r.lineage.kind = "engine" /\ SourceOf(b) = a -> "runtime"
          [] l.lineage.kind = r.lineage.kind /\ Len(a) > 1 /\ Len(b) = Len(a) + 1
                /\ IsConverted(OnnxOf(l), OnnxOf(r)) -> "precision"
          [] l.lineage.kind = r.lineage.kind /\ Len(a) > 1 /\ a[1] = b[1] /\ a[2] # b[2]
                /\ a[2].size = b[2].size /\ tail(l) = tail(r) /\ typing(l) = typing(r) -> "preset"
          [] OTHER -> "none"

\* The documented chains are not refused: stages of the maintained recipes whose neighbours
\* differ in one axis are accepted with that axis, asked for or inferred
\* (docs/VALIDATION.md "Assemble the adjacent deltas").
TrueTransitionsAccepted ==
    verdict.judged /\ ~verdict.accepted =>
        ~ /\ \A i \in DOMAIN reports : ~reports[i].legacy
          /\ \A i, j \in DOMAIN reports : reports[i].protocol = reports[j].protocol
                                          /\ reports[i].manifest = reports[j].manifest
          /\ \A i \in DOMAIN verdict.kinds : verdict.kinds[i] = TrueKind(reports[i], reports[i + 1])
=============================================================================
