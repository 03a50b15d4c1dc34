------------------------------ MODULE ExportRun ------------------------------
(***************************************************************************)
(* One run of export_dfine_onnx.py: the checkpoint is read once and loaded *)
(* into the model, the sidecar's facts are collected, the graph is traced  *)
(* into a staging file, simplified if that works, verified, and published. *)
(* Meanwhile a training run may replace the checkpoint, and somebody may   *)
(* update the sources; any step may fail, be interrupted, or be killed.    *)
(*                                                                         *)
(* A graph is named by the checkpoint and the sources it was made from,    *)
(* with the postconditions it fails, which the tracer and the simplifier   *)
(* may cause in any way.  A checkpoint or a source file is the number of   *)
(* its version.  The publication of the pair is AtomicPublication's.       *)
(***************************************************************************)
EXTENDS Naturals, FiniteSets

CONSTANTS
    MaxVersion,    \* bound on the versions of the checkpoint and of the sources
    MaxFaults,     \* bound on the postconditions a tool breaks at once
    Nothing

Version == 0 .. MaxVersion
\* What _verify_graph and _verify_io see in a graph, and what shows only when it runs.
StaticFaults == {"checker", "gridsample", "io_names", "static_batch", "custom_ops"}
RunFaults == {"baked", "shapes", "nonfinite"}
Faults == StaticFaults \cup RunFaults
FaultSets == {f \in SUBSET Faults : Cardinality(f) <= MaxFaults}

StateName == {"ema.module", "model", "checkpoint root"}
\* Whether every tensor of the model is there with its shape, in each state a checkpoint has.
Checkpoint ==
    {c \in [safe : BOOLEAN, mapping : BOOLEAN, fits : [StateName -> {"whole", "gaps", "absent"}]] :
        c.fits["checkpoint root"] # "absent"}

Args == [trace_batch : {1, 2}, paths_clash : BOOLEAN, allow_partial : BOOLEAN, allow_unsafe : BOOLEAN,
         no_simplify : BOOLEAN]

ExportAssumption ==
    /\ MaxVersion \in Nat /\ MaxFaults \in Nat
    /\ Nothing \notin [version : Version, holds : Checkpoint]

VARIABLES
    pc,
    args,
    checkpoint,   \* the file: its version and what it holds
    sources,      \* the versions of the exporter and of dfine_model on disk
    running,      \* the versions this process imported
    bytes,        \* the checkpoint as it was read
    model,        \* the state that was loaded, and whether it filled the model
    meta,         \* the sidecar in the making
    staged,       \* the staging file, or Nothing
    published     \* the pair at the output path

vars == <<pc, args, checkpoint, sources, running, bytes, model, meta, staged, published>>

OldPair == [graph |-> "old", side |-> "old"]

Init ==
    /\ pc = "begin" /\ args \in Args
    /\ \E c \in Checkpoint : checkpoint = [version |-> 0, holds |-> c]
    /\ sources = [exporter |-> 0, dfine_model |-> 0]
    /\ running = [exporter |-> 0, dfine_model |-> Nothing]
    /\ bytes = Nothing /\ model = Nothing /\ meta = Nothing /\ staged = Nothing
    /\ published \in {Nothing, OldPair}

-----------------------------------------------------------------------------
(* The world around the run *)

Running == pc \notin {"done", "refused", "failed", "killed"}

ReplaceCheckpoint ==
    /\ Running /\ checkpoint.version < MaxVersion
    /\ checkpoint' = [checkpoint EXCEPT !.version = @ + 1]
    /\ UNCHANGED <<pc, args, sources, running, bytes, model, meta, staged, published>>

UpdateSources ==
    /\ Running
    /\ \E f \in DOMAIN sources :
         sources[f] < MaxVersion /\ sources' = [sources EXCEPT ![f] = @ + 1]
    /\ UNCHANGED <<pc, args, checkpoint, running, bytes, model, meta, staged, published>>

-----------------------------------------------------------------------------
(* export *)

\* export's own checks, and _validated_artifact_plan
ArgsFit == args.trace_batch >= 2 /\ ~args.paths_clash

\* _require_dynamic_batch_runtime may refuse as well.
Begin ==
    /\ pc = "begin"
    /\ \/ ArgsFit /\ pc' = "build"
       \/ pc' = "refused"
    /\ UNCHANGED <<args, checkpoint, sources, running, bytes, model, meta, staged, published>>

ReadCheckpoint ==
    /\ pc = "build"
    /\ running' = [running EXCEPT !.dfine_model = sources.dfine_model]
    /\ \/ bytes' = checkpoint /\ pc' = "load"
       \/ bytes' = bytes /\ pc' = "refused"
    /\ UNCHANGED <<args, checkpoint, sources, model, meta, staged, published>>

SelectState(c) ==
    IF c.fits["ema.module"] # "absent" THEN "ema.module"
    ELSE IF c.fits["model"] # "absent" THEN "model" ELSE "checkpoint root"

Mode(whole) == IF whole THEN "strict" ELSE "partial"

LoadState ==
    /\ pc = "load"
    /\ LET c == bytes.holds
           whole == c.fits[SelectState(c)] = "whole"
       IN IF (c.safe \/ args.allow_unsafe) /\ c.mapping /\ (whole \/ args.allow_partial)
          THEN /\ model' = [from |-> SelectState(c), whole |-> whole, version |-> bytes.version,
                            mode |-> Mode(whole), pickle |-> ~c.safe]
               /\ pc' = "forward"
          ELSE pc' = "refused" /\ model' = model
    /\ UNCHANGED <<args, checkpoint, sources, running, bytes, meta, staged, published>>

CheckpointVersion == bytes.version

\* The sliders, deploy, the dummy forward and _collect_meta
CollectMeta ==
    /\ pc = "forward"
    /\ \/ /\ meta' = [checkpoint |-> CheckpointVersion, load |-> model.mode, selected |-> model.from,
                      deserialization |-> IF model.pickle THEN "unsafe_pickle" ELSE "weights_only",
                      exporter |-> sources.exporter, implementation |-> sources.dfine_model,
                      simplification |-> Nothing]
          /\ pc' = "trace"
       \/ meta' = meta /\ pc' = "failed"
    /\ UNCHANGED <<args, checkpoint, sources, running, bytes, model, staged, published>>

Clears(cause) == Nothing

\* torch.onnx.export and everything after it runs inside the try.
Raise ==
    /\ pc \in {"trace", "simplify", "verify", "publish"}
    /\ \E cause \in {"error", "interrupt"} : staged' = Clears(cause)
    /\ pc' = "failed"
    /\ UNCHANGED <<args, checkpoint, sources, running, bytes, model, meta, published>>

Trace ==
    /\ pc = "trace"
    /\ \E f \in FaultSets :
         staged' = [faults |-> f, simplified |-> FALSE, weights |-> model.version, by |-> running]
    /\ pc' = "simplify"
    /\ UNCHANGED <<args, checkpoint, sources, running, bytes, model, meta, published>>

Statuses == IF args.no_simplify THEN {"disabled"} ELSE {"unavailable", "failed", "rejected", "applied"}
Saves == {"applied"}
\* A bug that trusts the simplifier's own validation.
AfterSimplify(status) == IF status = "applied" THEN "publish" ELSE "verify"
AfterSimplification(status) == "verify"

Simplify ==
    /\ pc = "simplify"
    /\ \E status \in Statuses :
         /\ IF status \in Saves
            THEN \E f \in FaultSets : staged' = [staged EXCEPT !.faults = f, !.simplified = TRUE]
            ELSE staged' = staged
         /\ meta' = [meta EXCEPT !.simplification = status]
         /\ pc' = AfterSimplification(status)
    /\ UNCHANGED <<args, checkpoint, sources, running, bytes, model, published>>

Verify ==
    /\ pc = "verify"
    /\ IF staged.faults = {} THEN pc' = "publish" /\ staged' = staged
                             ELSE pc' = "failed" /\ staged' = Clears("error")
    /\ UNCHANGED <<args, checkpoint, sources, running, bytes, model, meta, published>>

Publish ==
    /\ pc = "publish"
    /\ published' = [graph |-> staged, side |-> meta] /\ staged' = Nothing /\ pc' = "done"
    /\ UNCHANGED <<args, checkpoint, sources, running, bytes, model, meta>>

Kill ==
    /\ Running /\ pc' = "killed"
    /\ UNCHANGED <<args, checkpoint, sources, running, bytes, model, meta, staged, published>>

Next ==
    \/ ReplaceCheckpoint \/ UpdateSources
    \/ Begin \/ ReadCheckpoint \/ LoadState \/ CollectMeta \/ Trace \/ Simplify \/ Verify \/ Publish
    \/ Raise \/ Kill
Spec == Init /\ [][Next]_vars

-----------------------------------------------------------------------------
(* Properties *)

Exported == pc = "done"

\* Every value stays in its type.
TypeOK ==
    /\ pc \in {"begin", "build", "load", "forward", "trace", "simplify", "verify", "publish",
               "done", "refused", "failed", "killed"}
    /\ args \in Args /\ checkpoint.version \in Version /\ sources.exporter \in Version
    /\ model # Nothing => (bytes # Nothing /\ bytes.holds.fits[model.from] # "absent")

\* Whatever the tracer emits and the simplifier makes of it, a pair that is published has passed
\* every postcondition, in the form in which it is published.
PublishedIsVerified == Exported => published.graph.faults = {}

\* A run that does not end well leaves the pair at the output as it was and, unless it is killed,
\* no staging file next to it, interrupts included.
FailureLeavesNothing ==
    pc \in {"refused", "failed", "killed"} => (/\ published \in {Nothing, OldPair}
                                               /\ pc # "killed" => staged = Nothing)

\* The sidecar tells which weights the graph has: the digest is that of the bytes that were loaded,
\* though the file may have been replaced since; averaged weights were taken if there are any; a
\* load is called strict only if it filled the whole model; and pickle ran only if it was allowed.
WeightsAreTold ==
    Exported =>
        LET side == published.side IN
        /\ side.checkpoint = published.graph.weights
        /\ side.load = "strict" <=> bytes.holds.fits[side.selected] = "whole"
        /\ side.load = "partial" => args.allow_partial
        /\ side.selected # "ema.module" => bytes.holds.fits["ema.module"] = "absent"
        /\ side.deserialization = "unsafe_pickle" => args.allow_unsafe

\* The simplification status is that of the graph beside it.
SimplificationIsTold ==
    Exported => (published.side.simplification = "applied" <=> published.graph.simplified)
=============================================================================
