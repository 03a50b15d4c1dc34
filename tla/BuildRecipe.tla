----------------------------- MODULE BuildRecipe -----------------------------
(***************************************************************************)
(* One run of build_engine.py, from the arguments to the sidecar, and what *)
(* the C++ runtime makes of the result (DFineDetector::Impl).  The builder *)
(* decides in Python which outputs, profile and precision an engine has,   *)
(* the runtime decides again in C++ from the engine and the sidecar: the   *)
(* properties say where the two have to agree.                             *)
(*                                                                         *)
(* A tensor is its name, its last dimension and whether it is FP32; of a   *)
(* network the batch dimension, the types it was written with and whether  *)
(* the decoder's layers can be found by their prefix matter too.           *)
(***************************************************************************)
EXTENDS Naturals, Integers, Sequences, FiniteSets, Functions

CONSTANTS
    Networks,    \* what the ONNX parser may produce
    Sidecars,    \* what the JSON file of the graph may hold
    Profiles,    \* <<min, opt, max>>
    AuxLimits,   \* values of --max-aux-streams, Absent among them
    Absent       \* a field, an option or a file that is not there

Dynamic == -1

Tensor == [name : STRING, last : Int, fp32 : BOOLEAN]

Modes == {"fp16", "fp16_decoder_fp32", "bf16_decoder_fp32", "int8"}

Optional(values) == values \cup {Absent}

\* The outputs of a network have names of their own.
RecipeAssumption ==
    /\ Networks \subseteq [batch : {Dynamic} \cup (Nat \ {0}), typed : STRING,
                           decoder_named : BOOLEAN, outputs : Seq(Tensor)]
    /\ \A n \in Networks : \A i, j \in DOMAIN n.outputs :
           n.outputs[i].name = n.outputs[j].name => i = j
    /\ Sidecars \subseteq Optional(
          [kind : Optional(STRING), color : Optional(STRING), names : Optional(Seq(STRING)),
           classes : Optional(Int), precision : Optional(STRING), mode : Optional(STRING),
           decoder_fp32 : BOOLEAN])
    /\ Profiles \subseteq Int \X Int \X Int
    /\ AuxLimits \subseteq Optional(Int)
    /\ Absent \notin Modes \cup {"fp32", "strongly_typed_unknown"}
    /\ Absent \notin [logits : Tensor, boxes : Tensor]

VARIABLES at, args, meta, net, engine, sidecar

vars == <<at, args, meta, net, engine, sidecar>>

Arguments ==
    [modes : {m \in SUBSET Modes : Cardinality(m) <= 2}, strongly_typed : BOOLEAN,
     aux : AuxLimits, cuda_graph : BOOLEAN, profile : Profiles]

Init ==
    /\ args \in Arguments
    /\ at = "start"
    /\ meta = Absent /\ net = Absent /\ engine = Absent /\ sidecar = Absent

-----------------------------------------------------------------------------
(* Before TensorRT: the source sidecar and the arguments.                  *)

\* The native runtime has no static batches above 1.
ValidProfile(p) ==
    /\ 1 <= p[1] /\ p[1] <= p[2] /\ p[2] <= p[3]
    /\ p[1] = p[3] => p[1] = 1

ValidModes ==
    /\ Cardinality(args.modes) <= 1
    /\ args.strongly_typed => {"fp16_decoder_fp32", "bf16_decoder_fp32"} \cap args.modes = {}

ValidPolicy ==
    /\ args.aux # Absent => args.aux >= 0
    /\ args.cuda_graph => args.aux \in {Absent, 0}

\* _graph_policy: --cuda-graph is another way to ask for no auxiliary stream.
AuxStreams == IF args.cuda_graph THEN 0 ELSE args.aux

\* _load_onnx_metadata refuses an engine's sidecar and graphs that want BGR.
Readable(m) == m # Absent => m.kind \in {Absent, "onnx"} /\ m.color \in {Absent, "RGB"}

Validate ==
    /\ at = "start"
    /\ \E m \in Sidecars :
         /\ meta' = m
         /\ at' = IF Readable(m) /\ ValidProfile(args.profile) /\ ValidModes /\ ValidPolicy
                  THEN "parse" ELSE "refused"
    /\ UNCHANGED <<args, net, engine, sidecar>>

-----------------------------------------------------------------------------
(* TensorRT.                                                               *)

Pins == {"fp16_decoder_fp32", "bf16_decoder_fp32"} \cap args.modes # {}

\* pin_decoder_fp32 has to find a layer.
Parse ==
    /\ at = "parse"
    /\ \E n \in Networks :
         /\ net' = n
         /\ at' = IF Pins /\ ~ n.decoder_named THEN "refused" ELSE "build"
    /\ UNCHANGED <<args, meta, engine, sidecar>>

ParseFails == at = "parse" /\ at' = "refused" /\ UNCHANGED <<args, meta, net, engine, sidecar>>

\* What the kernels of an engine compute in.
Computed ==
    IF args.strongly_typed THEN net.typed
    ELSE IF args.modes = {} THEN "fp32"
    ELSE CHOOSE t \in {"fp16", "bf16", "int8"} :
             \E m \in args.modes :
                \/ t = "fp16" /\ m \in {"fp16", "fp16_decoder_fp32"}
                \/ t = "bf16" /\ m = "bf16_decoder_fp32"
                \/ t = "int8" /\ m = "int8"

\* A precision flag on a strongly typed network is an error; a static network has
\* the profile of its own batch, whatever was asked for.
Serialize ==
    /\ at = "build"
    /\ args.strongly_typed => args.modes = {}
    /\ engine' = [batch |-> net.batch, outputs |-> net.outputs,
                  profile |-> IF net.batch = Dynamic THEN args.profile
                              ELSE <<net.batch, net.batch, net.batch>>,
                  computed |-> Computed, aux |-> AuxStreams]
    /\ at' = "inspect"
    /\ UNCHANGED <<args, meta, net, sidecar>>

SerializeFails == at = "build" /\ at' = "refused" /\ UNCHANGED <<args, meta, net, engine, sidecar>>

\* A bug that trusts the profile TensorRT was given.
TrustsProfile(e) == TRUE

\* _engine_batch_facts: the plan is deserialized and its profile compared with the request.
EffectiveProfile(e) == e.batch \in {Dynamic, 1} /\ e.profile = args.profile

Inspect ==
    /\ at = "inspect"
    /\ at' = IF EffectiveProfile(engine) THEN "stamp" ELSE "refused"
    /\ UNCHANGED <<args, meta, net, engine, sidecar>>

-----------------------------------------------------------------------------
(* The sidecar of the engine.                                              *)

Tensors(outs) == {outs[i] : i \in DOMAIN outs}
NamesOf(outs) == {t.name : t \in Tensors(outs)}
Named(outs, names) == {t \in Tensors(outs) : t.name \in names}

PairOfNames(names) == names # Absent /\ Len(names) = 2 /\ names[1] # names[2]

\* The outputs the runtime will consume, as the builder sees them; {} when it cannot tell.
Consumed(outs, names) ==
    IF PairOfNames(names)
    THEN IF Range(names) \subseteq NamesOf(outs) THEN Named(outs, Range(names)) ELSE {}
    ELSE IF {"logits", "boxes"} \subseteq NamesOf(outs) THEN Named(outs, {"logits", "boxes"})
    ELSE IF Len(outs) = 2 /\ Cardinality({i \in DOMAIN outs : outs[i].last = 4}) = 1
         THEN Tensors(outs) ELSE {}

OutputsFp32(outs, names) ==
    Consumed(outs, names) # {} /\ \A t \in Consumed(outs, names) : t.fp32

Names == IF meta = Absent THEN Absent ELSE meta.names

\* Without a source sidecar: the first output that does not look like boxes has the classes.
LogitsWidth(outs) ==
    LET wide == {i \in DOMAIN outs : outs[i].last # 4}
    IN IF wide = {} THEN Absent ELSE outs[CHOOSE i \in wide : \A j \in wide : i <= j].last

Classes == IF meta = Absent THEN LogitsWidth(net.outputs) ELSE meta.classes

Default(x, otherwise) == IF x = Absent THEN otherwise ELSE x

\* A flag of a weak build decides; otherwise the source's recipe passes through.
Precision(m) ==
    IF m = "int8" THEN "int8" ELSE IF m = "bf16_decoder_fp32" THEN "bf16"
    ELSE IF m \in {"fp16", "fp16_decoder_fp32"} THEN "fp16"
    ELSE IF meta # Absent THEN Default(meta.precision, "fp32")
    ELSE IF args.strongly_typed THEN "unknown" ELSE "fp32"

Mode(m) ==
    IF m # Absent THEN m
    ELSE Default(IF meta = Absent THEN Absent ELSE meta.mode,
                 IF Precision(m) = "fp32" THEN "fp32" ELSE "strongly_typed_unknown")

DecoderFp32(m) ==
    IF m # Absent THEN m \in {"fp16_decoder_fp32", "bf16_decoder_fp32"}
    ELSE IF meta = Absent THEN FALSE ELSE meta.decoder_fp32

Flag == IF args.modes = {} THEN Absent ELSE CHOOSE m \in args.modes : TRUE

Stamp ==
    /\ at = "stamp" /\ at' = "published"
    /\ sidecar' = [names |-> Names, classes |-> Classes,
                   precision |-> Precision(Flag), mode |-> Mode(Flag),
                   decoder_fp32 |-> DecoderFp32(Flag),
                   dynamic |-> engine.batch = Dynamic, profile |-> engine.profile,
                   compat |-> AuxStreams = 0 /\ OutputsFp32(engine.outputs, Names)]
    /\ UNCHANGED <<args, meta, net, engine>>

Next == Validate \/ Parse \/ ParseFails \/ Serialize \/ SerializeFails \/ Inspect \/ Stamp

Spec == Init /\ [][Next]_vars

-----------------------------------------------------------------------------
(* The runtime (src/tasks/detector.cpp).                                   *)

\* resolve_outputs_: [logits, boxes], or Absent when it refuses to guess.
Resolved(e, s) ==
    LET outs == Tensors(e.outputs)
        tensor(n) == CHOOSE t \in outs : t.name = n
        boxes == {i \in DOMAIN e.outputs : e.outputs[i].last = 4}
    IN IF s.names # Absent
       THEN IF PairOfNames(s.names) /\ Range(s.names) \subseteq NamesOf(e.outputs)
            THEN [logits |-> tensor(s.names[1]), boxes |-> tensor(s.names[2])] ELSE Absent
       ELSE IF {"logits", "boxes"} \subseteq NamesOf(e.outputs)
            THEN [logits |-> tensor("logits"), boxes |-> tensor("boxes")]
       ELSE IF Len(e.outputs) = 2 /\ Cardinality(boxes) = 1
            THEN LET b == CHOOSE i \in boxes : TRUE
                 IN [logits |-> e.outputs[3 - b], boxes |-> e.outputs[b]]
       ELSE Absent

\* validate_engine_contract_, and the facts in the sidecar against the engine.
Accepted(e, s) ==
    /\ Resolved(e, s) # Absent
    /\ Resolved(e, s).boxes.last = 4
    /\ e.batch \in {Dynamic, 1}
    /\ e.batch = Dynamic => /\ e.profile[1] > 0 /\ e.profile[1] <= e.profile[2]
                            /\ e.profile[2] <= e.profile[3]
    /\ s.dynamic = (e.batch = Dynamic)
    /\ s.profile = (IF e.batch = Dynamic THEN e.profile ELSE <<1, 1, 1>>)
    /\ s.classes # Absent => s.classes = Resolved(e, s).logits.last

\* graph_supported_
GraphSupported(e, s) ==
    Resolved(e, s).logits.fp32 /\ Resolved(e, s).boxes.fp32 /\ e.aux = 0

-----------------------------------------------------------------------------
(* Properties.                                                             *)

TypeOK ==
    /\ at \in {"start", "parse", "build", "inspect", "stamp", "refused", "published"}
    /\ args \in Arguments /\ meta \in Sidecars \cup {Absent} /\ net \in Networks \cup {Absent}
    /\ engine # Absent => engine.profile \in (Nat \ {0}) \X (Nat \ {0}) \X (Nat \ {0})
    /\ at = "published" => sidecar.mode # Absent

Published == at = "published"

\* Names the sidecar gives are those of the graph, logits first; without them the outputs
\* are what they are called, or what they look like.
Describes(m, n) ==
    LET outs == Tensors(n.outputs)
        called == {"logits", "boxes"} \subseteq NamesOf(n.outputs)
        logits(t) == IF m.names # Absent THEN t.name = m.names[1]
                     ELSE IF called THEN t.name = "logits" ELSE t.last # 4
    IN /\ m.names # Absent => PairOfNames(m.names) /\ Range(m.names) \subseteq NamesOf(n.outputs)
       /\ \A t \in outs :
            /\ t.name = (IF m.names # Absent THEN m.names[2] ELSE "boxes") => t.last = 4
            /\ m.classes # Absent /\ logits(t) => t.last = m.classes

\* An engine built from a graph with a sidecar that describes it is one the runtime
\* accepts, unless neither side can tell which output is which.
BuiltIsLoadable ==
    Published /\ meta # Absent /\ Describes(meta, net) =>
        (Consumed(engine.outputs, sidecar.names) # {} <=> Accepted(engine, sidecar))

\* An engine that says it may be captured in a CUDA graph is one for which the runtime
\* enables capture, whatever other outputs the engine has.
GraphClaimHolds ==
    Published /\ sidecar.compat /\ Accepted(engine, sidecar) => GraphSupported(engine, sidecar)

\* The precision in the sidecar is the one the engine computes in, or "unknown"; a weak
\* build of a typed graph is left out, and so is a sidecar that is wrong about its graph.
PrecisionHonest ==
    Published /\ (meta # Absent => Default(meta.precision, "fp32") = net.typed)
              /\ (args.strongly_typed \/ net.typed = "fp32") =>
        sidecar.precision \in {engine.computed, "unknown"}

\* The recipe beside the precision is never one of another build: a weak flag replaces
\* what the converter wrote of its decoder.
RecipeOfThisBuild ==
    Published =>
        /\ sidecar.decoder_fp32 => Pins \/ (args.modes = {} /\ meta # Absent /\ meta.decoder_fp32)
        /\ args.modes # {} => sidecar.mode \in args.modes
=============================================================================
