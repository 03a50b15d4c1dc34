--------------------------- MODULE EngineContract ---------------------------
(* What a detector believes about its engine: load_engine_meta reads the
   sidecar, fills absent fields with defaults and validates the values; the
   constructor resolves the two outputs by name or by shape, validates the
   bindings, and compares what the sidecar declares with what the engine has;
   EngineMeta::to_json_file writes the metadata of an accepted sidecar back.

   The input size stands for the number of queries too, which is treated the
   same way.  The names of tensors are what they are in the engine: "own" ones,
   or "missing" ones, which are not two distinct outputs, or not the input, of
   the engine.  A tensor of the name the runtime looks for has the role the
   name says.  Of the values a sidecar may hold, only those are here that are
   well-formed one by one: what the fields say together is the question.     *)
EXTENDS Integers

CONSTANTS
    Sizes, Classes, Batches,    \* values of the facts
    DefaultSize, DefaultClasses,
    Renamed,                    \* of the input and the outputs, those that may have other names
                                \* than the runtime looks for, or than the document says
    Absent                      \* a field the document does not have

ContractAssumption ==
    /\ Batches \subseteq Nat \ {0} /\ 1 \in Batches /\ 4 \in Classes
    /\ DefaultSize \in Sizes /\ DefaultClasses \in Classes
    /\ Absent \notin Sizes \cup Classes \cup Batches
    /\ Absent \notin BOOLEAN
    /\ Absent \notin {"own", "logits, boxes", "boxes, logits", "missing"}
    /\ Renamed \subseteq {"input", "outputs"}

Optional(S) == S \cup {Absent}

Missing(t) == IF t \in Renamed THEN {"missing"} ELSE {}

\* "legacy": no artifact_kind, but a TensorRT version.
Kinds == {"unknown", "legacy", "onnx", "engine"}

Document ==
    [kind : Kinds, size : Optional(Sizes), classes : Optional(Classes),
     labels : Optional(Classes),        \* how many class_names
     dynamic : Optional(BOOLEAN),
     min : Optional(Batches), opt : Optional(Batches), max : Optional(Batches),
     input : Optional({"own"} \cup Missing("input")),
     outputs : Optional({"logits, boxes", "boxes, logits"} \cup Missing("outputs"))]

\* A static engine has the batch range 1, 1, 1; `named`: what has the
\* names the runtime looks for.
Engine ==
    {e \in [size : Sizes, classes : Classes, named : SUBSET {"input", "outputs"},
            dynamic : BOOLEAN, min : Batches, opt : Batches, max : Batches] :
        /\ {"input", "outputs"} \ Renamed \subseteq e.named
        /\ e.min <= e.opt /\ e.opt <= e.max
        /\ e.dynamic \/ e.max = 1}

VARIABLES
    engine,     \* the engine file
    doc,        \* the sidecar beside it
    rewritten,  \* whether to_json_file has replaced it
    phase,      \* "file" | "loaded" | "accepted" | "rejected"
    meta,       \* EngineMeta, with the declared flags
    logits      \* the output taken for the logits

vars == <<engine, doc, rewritten, phase, meta, logits>>

---------------------------------------------------------------------------
(* load_engine_meta *)

Or(field, default) == IF field = Absent THEN default ELSE field

\* Absent batch fields follow the one before them.
BatchFields(d) ==
    LET min == Or(d.min, 1)
        opt == Or(d.opt, min)
    IN  [min |-> min, opt |-> opt, max |-> Or(d.max, opt)]

\* Labels give the number of classes when the document does not.
ClassesOf(d) ==
    IF d.classes = Absent /\ d.labels # Absent THEN d.labels
    ELSE Or(d.classes, DefaultClasses)

Parsed(d) ==
    [declared |-> d,
     size |-> Or(d.size, DefaultSize), classes |-> ClassesOf(d),
     dynamic |-> Or(d.dynamic, FALSE), batch |-> BatchFields(d)]

\* validate_meta: what the fields say together.
Valid(d) ==
    LET b == BatchFields(d)
    IN  /\ b.min <= b.opt /\ b.opt <= b.max
        /\ d.classes # Absent /\ d.labels # Absent => d.labels = d.classes

Load ==
    /\ phase = "file"
    /\ phase' = IF Valid(doc) THEN "loaded" ELSE "rejected"
    /\ meta' = Parsed(doc)
    /\ UNCHANGED <<engine, doc, rewritten, logits>>

---------------------------------------------------------------------------
(* The constructor *)

\* Among two outputs the boxes are the one whose last dimension is four, when
\* that is the only one.
TellableByShape == engine.classes # 4

\* A name that is declared must be that of the only input, which is taken without one.
InputFound == meta.declared.input # "missing"

\* Names that are declared must exist; without them the outputs have the names the
\* runtime looks for, or are told by shape.
Resolvable ==
    IF meta.declared.outputs # Absent THEN meta.declared.outputs # "missing"
    ELSE "outputs" \in engine.named \/ TellableByShape

\* resolve_outputs_.  "logits, boxes": the document names the outputs of the
\* engine, the logits first.
TakenForLogits ==
    IF meta.declared.outputs = "boxes, logits" THEN "boxes" ELSE "logits"

\* validate_engine_contract_: the boxes are [B, Q, 4].
BoxesHaveFour == TakenForLogits = "boxes" => engine.classes = 4

Agrees(declared, fact) == declared = Absent \/ declared = fact

\* batch_facts_describe_engine
BatchFactsDescribeEngine(d) ==
    \/ d.kind = "engine"
    \/ d.kind = "legacy" /\ (d.min # Absent \/ d.opt # Absent)

\* A bug that does not look at the labels.
DeclaredShapes(d) ==
    /\ Agrees(d.size, engine.size)
    /\ Agrees(d.classes, engine.classes)

ShapesAgree(d) ==
    /\ Agrees(d.size, engine.size)
    /\ Agrees(d.classes, engine.classes)
    /\ Agrees(d.labels, engine.classes)

BatchAgrees(d) ==
    BatchFactsDescribeEngine(d) =>
        /\ Agrees(d.dynamic, engine.dynamic)
        /\ Agrees(d.min, engine.min)
        /\ Agrees(d.opt, engine.opt)
        /\ Agrees(d.max, engine.max)

Accepts ==
    /\ InputFound
    /\ Resolvable
    /\ BoxesHaveFour
    /\ ShapesAgree(meta.declared)
    /\ BatchAgrees(meta.declared)

Construct ==
    /\ phase = "loaded"
    /\ phase' = IF Accepts THEN "accepted" ELSE "rejected"
    /\ logits' = IF Accepts THEN TakenForLogits ELSE logits
    /\ UNCHANGED <<engine, doc, rewritten, meta>>

\* What "images", and "logits" and "boxes", are in the engine.
DefaultInput == IF "input" \in engine.named THEN "own" ELSE "missing"
DefaultOutputs == IF "outputs" \in engine.named THEN "logits, boxes" ELSE "missing"

\* to_json_file: every field it knows, as an engine sidecar.  Names that were not
\* declared are written as the default ones, whatever the engine calls its tensors.
Rewrite ==
    /\ phase = "accepted"
    /\ ~rewritten
    /\ doc' = [kind |-> "engine", size |-> meta.size, classes |-> meta.classes,
               labels |-> meta.declared.labels, dynamic |-> meta.dynamic,
               min |-> meta.batch.min, opt |-> meta.batch.opt, max |-> meta.batch.max,
               input |-> Or(meta.declared.input, DefaultInput),
               outputs |-> Or(meta.declared.outputs, DefaultOutputs)]
    /\ rewritten' = TRUE
    /\ phase' = "file"
    /\ UNCHANGED <<engine, meta, logits>>

Init ==
    /\ engine \in Engine
    /\ doc \in Document
    /\ rewritten = FALSE
    /\ phase = "file"
    /\ meta = Parsed(doc)
    /\ logits = Absent

Next == Load \/ Construct \/ Rewrite

Spec == Init /\ [][Next]_vars

---------------------------------------------------------------------------
(* Properties *)

\* Loaded metadata has a value for every field.
TypeOK ==
    /\ engine \in Engine /\ doc \in Document /\ rewritten \in BOOLEAN
    /\ phase \in {"file", "loaded", "accepted", "rejected"}
    /\ meta.size \in Sizes /\ meta.classes \in Classes /\ meta.dynamic \in BOOLEAN
    /\ {meta.batch.min, meta.batch.opt, meta.batch.max} \subseteq Batches
    /\ phase \in {"loaded", "accepted"} =>
          meta.batch.min <= meta.batch.opt /\ meta.batch.opt <= meta.batch.max

\* A detector is never built on a sidecar that describes another engine:
\* labels and sizes that would mislabel or misplace every detection, or, in a
\* sidecar that is about an engine, another batch range.
Describes(d) ==
    /\ d.size \in {Absent, engine.size}
    /\ {d.classes, d.labels} \subseteq {Absent, engine.classes}
    /\ d.kind = "engine" =>
          /\ d.dynamic \in {Absent, engine.dynamic}
          /\ d.min \in {Absent, engine.min} /\ d.opt \in {Absent, engine.opt}
          /\ d.max \in {Absent, engine.max}

AcceptedDescribesEngine == phase = "accepted" => Describes(doc)

\* What the sidecar leaves out is not held against it: a document whose fields
\* all fit the engine, names its tensors in order or lets the runtime find them, and
\* has an ordered batch range is accepted, however few fields it has.  One that
\* was written back names the tensors, and fits only if they have these names.
\* An ONNX sidecar may declare other batch bounds than the engine was built for.
Fits(d) ==
    /\ Describes(d)
    /\ d.kind = "onnx" \/ (/\ d.dynamic \in {Absent, engine.dynamic}
                           /\ d.min \in {Absent, engine.min}
                           /\ d.opt \in {Absent, engine.opt}
                           /\ d.max \in {Absent, engine.max})
    /\ d.kind = "onnx" => \E lo, mid, hi \in Batches :
          /\ lo <= mid /\ mid <= hi
          /\ d.min = lo /\ d.opt \in {mid, Absent} /\ d.max = hi
    /\ d.input \in {"own", Absent}
    /\ \/ d.outputs = "logits, boxes"
       \/ d.outputs = Absent /\ ("outputs" \in engine.named \/ engine.classes # 4)

FittingSidecarLoads == phase = "rejected" => ~Fits(doc)

\* The logits are never taken for the boxes or the other way round, except
\* when the sidecar itself names them in the wrong order and the model has
\* four classes, so that no shape can tell.
OutputsToldApart ==
    phase = "accepted" =>
        \/ logits = "logits"
        \/ doc.outputs = "boxes, logits" /\ engine.classes = 4

=============================================================================
