--------------------------- MODULE MakersProofs ----------------------------
(***************************************************************************)
(* Proofs about the tools that make a graph: the export of a checkpoint    *)
(* (ExportRun), the conversions, which replace a file another process may  *)
(* be reading (Conversion), the nodes they keep in FP32 (Blocklist), the   *)
(* decoder on its way into the graph (DecoderDeploy) and the geometry of   *)
(* its queries (QueryGeometry). Each is an instance of the suite; no       *)
(* theorem is about two of them.                                           *)
(***************************************************************************)
EXTENDS MCMakers, FiniteSetTheorems, SequenceTheorems, TLAPS

CONSTANT variant    \* the program a theorem is about

------------------------------
(* The suite: a behaviour that begins as a program stays one, and is a
   behaviour of that program's own specification. *)

LEMMA ProgramStays == MakersSpec /\ program = variant => [](program = variant)
<1>1. program = variant /\ [MakersNext]_MakersVars => (program = variant)'
  <2> SUFFICES ASSUME program = variant, [MakersNext]_MakersVars
               PROVE  program' = program
    OBVIOUS
  <2>1. CASE MakersNext
    BY <2>1 DEF MakersNext, ExportSteps, DecoderSteps, GeometrySteps,
                ConvertingSteps, ListSteps
  <2>2. CASE UNCHANGED MakersVars BY <2>2 DEF MakersVars
  <2> QED BY <2>1, <2>2
<1> QED BY <1>1, PTL DEF MakersSpec

LEMMA ExportRuns ==
    variant = "export" => (MakersSpec /\ program = variant => Export!Spec)
<1> SUFFICES ASSUME variant = "export"
             PROVE  MakersSpec /\ program = variant => Export!Spec
  OBVIOUS
<1>1. MakersInit /\ program = variant => Export!Init
  <2> SUFFICES ASSUME MakersInit, program = variant
               PROVE  Export!Init
    OBVIOUS
  <2>1. ExportBegins
    BY NamesAssumption
       DEF MakersInit, Singles, DecoderBegins, GeometryBegins,
           ConvertingBegins, ListBegins
  <2> QED BY <2>1 DEF ExportBegins
<1>2. program = variant /\ [MakersNext]_MakersVars => [Export!Next]_(Export!vars)
  <2> SUFFICES ASSUME program = variant, [MakersNext]_MakersVars
               PROVE  [Export!Next]_(Export!vars)
    OBVIOUS
  <2>1. CASE MakersNext
    <3>1. ExportSteps
      BY <2>1, NamesAssumption
         DEF MakersNext, Singles, DecoderSteps, GeometrySteps,
             ConvertingSteps, ListSteps
    <3> QED BY <3>1 DEF ExportSteps
  <2>2. CASE UNCHANGED MakersVars BY <2>2 DEF MakersVars, Export!vars
  <2> QED BY <2>1, <2>2
<1> QED BY <1>1, <1>2, ProgramStays, PTL DEF MakersSpec, Export!Spec

LEMMA DecoderRuns ==
    variant = "decoder" => (MakersSpec /\ program = variant => Decoder!Spec)
<1> SUFFICES ASSUME variant = "decoder"
             PROVE  MakersSpec /\ program = variant => Decoder!Spec
  OBVIOUS
<1>1. MakersInit /\ program = variant => Decoder!Init
  <2> SUFFICES ASSUME MakersInit, program = variant
               PROVE  Decoder!Init
    OBVIOUS
  <2>1. DecoderBegins
    BY NamesAssumption
       DEF MakersInit, Singles, ExportBegins, GeometryBegins,
           ConvertingBegins, ListBegins
  <2> QED BY <2>1 DEF DecoderBegins
<1>2. program = variant /\ [MakersNext]_MakersVars => [Decoder!Next]_(Decoder!vars)
  <2> SUFFICES ASSUME program = variant, [MakersNext]_MakersVars
               PROVE  [Decoder!Next]_(Decoder!vars)
    OBVIOUS
  <2>1. CASE MakersNext
    <3>1. DecoderSteps
      BY <2>1, NamesAssumption
         DEF MakersNext, Singles, ExportSteps, GeometrySteps,
             ConvertingSteps, ListSteps
    <3> QED BY <3>1 DEF DecoderSteps
  <2>2. CASE UNCHANGED MakersVars BY <2>2 DEF MakersVars, Decoder!vars
  <2> QED BY <2>1, <2>2
<1> QED BY <1>1, <1>2, ProgramStays, PTL DEF MakersSpec, Decoder!Spec

LEMMA ConvertingRuns ==
    variant \in DOMAIN Conversions => (MakersSpec /\ program = variant => Converting(variant)!Spec)
<1> SUFFICES ASSUME variant \in DOMAIN Conversions
             PROVE  MakersSpec /\ program = variant => Converting(variant)!Spec
  OBVIOUS
<1>1. MakersInit /\ program = variant => Converting(variant)!Init
  <2> SUFFICES ASSUME MakersInit, program = variant
               PROVE  Converting(variant)!Init
    OBVIOUS
  <2>1. ConvertingBegins
    BY NamesAssumption
       DEF MakersInit, Singles, ExportBegins, DecoderBegins, GeometryBegins,
           ListBegins
  <2> QED BY <2>1 DEF ConvertingBegins
<1>2. program = variant /\ [MakersNext]_MakersVars
    => [Converting(variant)!Next]_(Converting(variant)!vars)
  <2> SUFFICES ASSUME program = variant, [MakersNext]_MakersVars
               PROVE  [Converting(variant)!Next]_(Converting(variant)!vars)
    OBVIOUS
  <2>1. CASE MakersNext
    <3>1. ConvertingSteps
      BY <2>1, NamesAssumption
         DEF MakersNext, Singles, ExportSteps, DecoderSteps, GeometrySteps,
             ListSteps
    <3> QED BY <3>1 DEF ConvertingSteps
  <2>2. CASE UNCHANGED MakersVars
    BY <2>2 DEF MakersVars, Converting!vars
  <2> QED BY <2>1, <2>2
<1> QED BY <1>1, <1>2, ProgramStays, PTL DEF MakersSpec, Converting!Spec

LEMMA ListRuns ==
    variant \in DOMAIN Lists => (MakersSpec /\ program = variant => List(variant)!Spec)
<1> SUFFICES ASSUME variant \in DOMAIN Lists
             PROVE  MakersSpec /\ program = variant => List(variant)!Spec
  OBVIOUS
<1>1. MakersInit /\ program = variant => List(variant)!Init
  <2> SUFFICES ASSUME MakersInit, program = variant
               PROVE  List(variant)!Init
    OBVIOUS
  <2>1. ListBegins
    BY NamesAssumption
       DEF MakersInit, Singles, ExportBegins, DecoderBegins, GeometryBegins,
           ConvertingBegins
  <2> QED BY <2>1 DEF ListBegins
<1>2. program = variant /\ [MakersNext]_MakersVars => [List(variant)!Next]_(List(variant)!vars)
  <2> SUFFICES ASSUME program = variant, [MakersNext]_MakersVars
               PROVE  [List(variant)!Next]_(List(variant)!vars)
    OBVIOUS
  <2>1. CASE MakersNext
    <3>1. ListSteps
      BY <2>1, NamesAssumption
         DEF MakersNext, Singles, ExportSteps, DecoderSteps, GeometrySteps,
             ConvertingSteps
    <3> QED BY <3>1 DEF ListSteps
  <2>2. CASE UNCHANGED MakersVars BY <2>2 DEF MakersVars, List!vars
  <2> QED BY <2>1, <2>2
<1> QED BY <1>1, <1>2, ProgramStays, PTL DEF MakersSpec, List!Spec

------------------------------
(* ExportRun *)

\* The steps after which the checkpoint is read, loaded, described, and traced.
ReadSteps == {"load", "forward", "trace", "simplify", "verify", "publish", "done"}
LoadedSteps == ReadSteps \ {"load"}
ToldSteps == LoadedSteps \ {"forward"}
TracedSteps == {"simplify", "verify", "publish"}

\* What was loaded is what the bytes say, with the permissions it took.
LoadInv ==
    /\ model.version = bytes.version
    /\ bytes # Nothing /\ bytes.holds.fits[model.from] # "absent"
    /\ model.mode \in {"strict", "partial"}
    /\ model.mode = "strict" <=> bytes.holds.fits[model.from] = "whole"
    /\ model.mode = "partial" => args.allow_partial
    /\ model.from # "ema.module" => bytes.holds.fits["ema.module"] = "absent"
    /\ model.pickle => args.allow_unsafe

Checkpoints == [version : Export!Version, holds : Export!Checkpoint]
Sidecars ==
    [checkpoint : {bytes.version}, load : {model.mode}, selected : {model.from},
     deserialization : {IF model.pickle THEN "unsafe_pickle" ELSE "weights_only"},
     exporter : Export!Version, implementation : Export!Version,
     simplification : {Nothing, "disabled", "unavailable", "failed", "rejected", "applied"}]
Graphs == [faults : Export!FaultSets, simplified : BOOLEAN, weights : {bytes.version},
           by : {running}]

ExportInv ==
    /\ pc \in ReadSteps \cup {"begin", "build", "refused", "failed", "killed"}
    /\ args \in Export!Args
    /\ checkpoint \in Checkpoints
    /\ sources \in [{"exporter", "dfine_model"} -> Export!Version]
    /\ pc # "done" => published \in {Nothing, Export!OldPair}
    /\ pc \notin TracedSteps \cup {"killed"} => staged = Nothing
    /\ pc \in ReadSteps => bytes \in Checkpoints
    /\ model # Nothing => LoadInv
    /\ pc \in {"begin", "build", "load"} => model = Nothing
    /\ pc \in LoadedSteps => LoadInv
    /\ pc \in ToldSteps => meta \in Sidecars
    /\ pc \in {"trace", "simplify"} => meta.simplification = Nothing
    /\ pc \in TracedSteps => staged \in Graphs
    /\ pc = "simplify" => ~staged.simplified
    /\ pc \in {"verify", "publish"} => (meta.simplification = "applied" <=> staged.simplified)
    /\ pc = "publish" => staged.faults = {}
    /\ pc = "done" => /\ published.graph \in Graphs /\ published.side = meta
                      /\ published.graph.faults = {}
                      /\ meta.simplification = "applied" <=> published.graph.simplified

\* Where a run ends without a pair.
LEMMA RunEnds ==
    ASSUME ExportInv, published' = published, pc # "done",
           \/ pc' = "killed"
           \/ pc' \in {"refused", "failed"} /\ staged' = Nothing,
           UNCHANGED <<args, checkpoint, sources, model>>,
           model = Nothing \/ bytes' = bytes
    PROVE  ExportInv'
BY DEF ExportInv, LoadInv, ReadSteps, LoadedSteps, ToldSteps, TracedSteps

LEMMA ExportStep ==
    ASSUME Export!ExportAssumption, ExportInv, [Export!Next]_(Export!vars)
    PROVE  ExportInv'
<1> USE DEF ReadSteps, LoadedSteps, ToldSteps, TracedSteps
<1>1. CASE Export!ReplaceCheckpoint
  <2>1. checkpoint' \in Checkpoints
    <3>1. checkpoint \in Checkpoints BY DEF ExportInv
    <3>2. checkpoint.version < MaxVersion /\ checkpoint' = [checkpoint EXCEPT !.version = @ + 1]
      BY <1>1 DEF Export!ReplaceCheckpoint
    <3> QED BY <3>1, <3>2 DEF Checkpoints, Export!Version, Export!ExportAssumption
  <2>2. UNCHANGED <<pc, args, sources, running, bytes, model, meta, staged, published>>
    BY <1>1 DEF Export!ReplaceCheckpoint
  <2> QED BY <2>1, <2>2 DEF ExportInv, LoadInv, Sidecars, Graphs
<1>2. CASE Export!UpdateSources
  <2>1. UNCHANGED <<pc, args, checkpoint, running, bytes, model, meta, staged, published>>
    BY <1>2 DEF Export!UpdateSources
  <2>2. sources' \in [{"exporter", "dfine_model"} -> Export!Version]
    <3>1. sources \in [{"exporter", "dfine_model"} -> Export!Version]
      BY DEF ExportInv
    <3>2. PICK f \in DOMAIN sources : sources[f] < MaxVersion
        /\ sources' = [sources EXCEPT ![f] = @ + 1]
      BY <1>2 DEF Export!UpdateSources
    <3> QED BY <3>1, <3>2 DEF Export!Version, Export!ExportAssumption
  <2> QED BY <2>1, <2>2 DEF ExportInv, LoadInv, Sidecars, Graphs
<1>3. CASE Export!Begin \/ Export!ReadCheckpoint
  <2>1. /\ UNCHANGED <<args, checkpoint, sources, model, meta, staged, published>>
        /\ pc \in {"begin", "build"} /\ pc' \in {"build", "load", "refused"}
        /\ pc' = "load" => bytes' = checkpoint
    BY <1>3 DEF Export!Begin, Export!ReadCheckpoint
  <2> QED BY <2>1 DEF ExportInv
<1>4. CASE Export!LoadState
  <2> DEFINE c == bytes.holds
             from == Export!SelectState(c)
             whole == c.fits[from] = "whole"
  <2>1. UNCHANGED <<args, checkpoint, sources, running, bytes, meta, staged, published>>
      /\ pc = "load"
    BY <1>4 DEF Export!LoadState
  <2>2. CASE (c.safe \/ args.allow_unsafe) /\ c.mapping /\ (whole \/ args.allow_partial)
    <3>1. /\ model' = [from |-> from, whole |-> whole, version |-> bytes.version,
                       mode |-> Export!Mode(whole), pickle |-> ~c.safe]
          /\ pc' = "forward"
      BY <1>4, <2>2 DEF Export!LoadState
    <3>2. from # "ema.module" => c.fits["ema.module"] = "absent"
      BY DEF Export!SelectState
    <3>3. bytes \in Checkpoints /\ bytes # Nothing
      BY <2>1 DEF ExportInv, Checkpoints, Export!ExportAssumption
    <3>4. c.fits[from] # "absent"
      BY <3>3 DEF Checkpoints, Export!Checkpoint, Export!SelectState
    <3>5. LoadInv'
      BY <2>1, <2>2, <3>1, <3>2, <3>3, <3>4 DEF LoadInv, Export!Mode
    <3> HIDE DEF c, from, whole
    <3> QED BY <2>1, <3>1, <3>5 DEF ExportInv
  <2>3. CASE ~((c.safe \/ args.allow_unsafe) /\ c.mapping /\ (whole \/ args.allow_partial))
    <3>1. pc' = "refused" /\ model' = model
      BY <1>4, <2>3 DEF Export!LoadState
    <3> QED BY <2>1, <3>1, RunEnds DEF ExportInv
  <2> QED BY <2>2, <2>3
<1>5. CASE Export!CollectMeta
  <2>1. UNCHANGED <<args, checkpoint, sources, running, bytes, model, staged, published>>
      /\ pc = "forward"
    BY <1>5 DEF Export!CollectMeta
  <2>2. CASE pc' = "trace"
    <3>1. meta' = [checkpoint |-> bytes.version, load |-> model.mode, selected |-> model.from,
                   deserialization |-> IF model.pickle THEN "unsafe_pickle" ELSE "weights_only",
                   exporter |-> sources.exporter, implementation |-> sources.dfine_model,
                   simplification |-> Nothing]
      BY <1>5, <2>2 DEF Export!CollectMeta, Export!CheckpointVersion
    <3>2. sources.exporter \in Export!Version /\ sources.dfine_model \in Export!Version
      BY DEF ExportInv
    <3>3. meta' \in Sidecars' /\ meta'.simplification = Nothing
      BY <2>1, <3>1, <3>2 DEF Sidecars, Export!Version
    <3> QED BY <2>1, <2>2, <3>3 DEF ExportInv, LoadInv
  <2>3. CASE pc' = "failed" BY <2>1, <2>3, RunEnds DEF ExportInv
  <2> QED BY <1>5, <2>2, <2>3 DEF Export!CollectMeta
<1>6. CASE Export!Trace
  <2>1. UNCHANGED <<args, checkpoint, sources, running, bytes, model, meta, published>>
        /\ pc = "trace" /\ pc' = "simplify"
    BY <1>6 DEF Export!Trace
  <2>2. PICK f \in Export!FaultSets :
          staged' = [faults |-> f, simplified |-> FALSE, weights |-> model.version, by |-> running]
    BY <1>6 DEF Export!Trace
  <2>3. model.version = bytes.version BY <2>1 DEF ExportInv, LoadInv
  <2>4. staged' \in Graphs' /\ ~staged'.simplified
    BY <2>1, <2>2, <2>3 DEF Graphs, Export!FaultSets, Export!Faults
  <2> QED BY <2>1, <2>4 DEF ExportInv, LoadInv, Sidecars
<1>7. CASE Export!Simplify
  <2>1. UNCHANGED <<args, checkpoint, sources, running, bytes, model, published>>
        /\ pc = "simplify" /\ pc' = "verify"
    BY <1>7 DEF Export!Simplify, Export!AfterSimplification
  <2>2. PICK status \in Export!Statuses :
          /\ IF status \in Export!Saves
             THEN \E f \in Export!FaultSets :
                    staged' = [staged EXCEPT !.faults = f, !.simplified = TRUE]
             ELSE staged' = staged
          /\ meta' = [meta EXCEPT !.simplification = status]
    BY <1>7 DEF Export!Simplify
  <2>3. status \in {"disabled", "unavailable", "failed", "rejected", "applied"}
    BY DEF Export!Statuses
  <2>4. meta \in Sidecars /\ staged \in Graphs /\ ~staged.simplified
    BY <2>1 DEF ExportInv
  <2>5. meta' \in Sidecars /\ meta'.simplification = status
    BY <2>2, <2>3, <2>4 DEF Sidecars
  <2>6. staged' \in Graphs /\ (status = "applied" <=> staged'.simplified)
    <3>1. CASE status = "applied"
      <4>1. PICK f \in Export!FaultSets :
          staged' = [staged EXCEPT !.faults = f, !.simplified = TRUE]
        BY <2>2, <3>1 DEF Export!Saves
      <4> QED BY <2>4, <3>1, <4>1 DEF Graphs
    <3>2. CASE status # "applied" BY <2>2, <2>4, <3>2 DEF Export!Saves
    <3> QED BY <3>1, <3>2
  <2>7. meta' \in Sidecars' /\ staged' \in Graphs'
    BY <2>1, <2>5, <2>6 DEF Sidecars, Graphs, Export!FaultSets, Export!Faults, Export!Version
  <2> QED BY <2>1, <2>5, <2>6, <2>7 DEF ExportInv, LoadInv
<1>8. CASE Export!Verify
  <2>1. UNCHANGED <<args, checkpoint, sources, running, bytes, model, meta, published>>
      /\ pc = "verify"
    BY <1>8 DEF Export!Verify
  <2>2. CASE staged.faults = {}
    <3>1. pc' = "publish" /\ staged' = staged
      BY <1>8, <2>2 DEF Export!Verify
    <3> QED BY <2>1, <2>2, <3>1 DEF ExportInv, LoadInv, Sidecars, Graphs
  <2>3. CASE staged.faults # {}
    <3>1. pc' = "failed" /\ staged' = Nothing
      BY <1>8, <2>3 DEF Export!Verify, Export!Clears
    <3> QED BY <2>1, <3>1, RunEnds
  <2> QED BY <2>2, <2>3
<1>9. CASE Export!Publish
  <2>1. UNCHANGED <<args, checkpoint, sources, running, bytes, model, meta>>
        /\ pc = "publish" /\ pc' = "done" /\ staged' = Nothing
        /\ published' = [graph |-> staged, side |-> meta]
    BY <1>9 DEF Export!Publish
  <2> QED BY <2>1 DEF ExportInv, LoadInv, Sidecars, Graphs
<1>10. CASE Export!Raise
  BY <1>10, RunEnds DEF Export!Raise, Export!Clears
<1>11. CASE Export!Kill
  BY <1>11, RunEnds DEF Export!Kill, Export!Running
<1>12. CASE UNCHANGED Export!vars
  BY <1>12 DEF Export!vars, ExportInv, LoadInv, Sidecars, Graphs
<1> QED BY <1>1, <1>2, <1>3, <1>4, <1>5, <1>6, <1>7, <1>8, <1>9, <1>10, <1>11, <1>12 DEF Export!Next

LEMMA ExportInitInv ==
    ASSUME Export!ExportAssumption, Export!Init
    PROVE  ExportInv
<1>1. PICK c \in Export!Checkpoint : checkpoint = [version |-> 0, holds |-> c]
  BY DEF Export!Init
<1>2. sources \in [{"exporter", "dfine_model"} -> Export!Version]
  BY DEF Export!Init, Export!Version, Export!ExportAssumption
<1>3. checkpoint \in Checkpoints
  BY <1>1 DEF Checkpoints, Export!Version, Export!ExportAssumption
<1> QED
  BY <1>2, <1>3
     DEF Export!Init, ExportInv, ReadSteps, LoadedSteps, ToldSteps, TracedSteps

LEMMA ExportKept == Export!ExportAssumption => (Export!Spec => []ExportInv)
<1> SUFFICES ASSUME Export!ExportAssumption PROVE Export!Spec => []ExportInv
  OBVIOUS
<1>1. Export!Init => ExportInv BY ExportInitInv
<1>2. ExportInv /\ [Export!Next]_(Export!vars) => ExportInv'
  BY ExportStep
<1> QED BY <1>1, <1>2, PTL DEF Export!Spec

LEMMA ExportPromises == ASSUME ExportInv PROVE ExportIsTrue
<1> USE DEF ReadSteps, LoadedSteps, ToldSteps, TracedSteps
<1>1. Export!PublishedIsVerified /\ Export!SimplificationIsTold
  BY DEF ExportInv, Export!PublishedIsVerified, Export!SimplificationIsTold, Export!Exported
<1>2. Export!FailureLeavesNothing
  BY DEF ExportInv, Export!FailureLeavesNothing
<1>3. Export!WeightsAreTold
  <2> SUFFICES ASSUME pc = "done" PROVE Export!WeightsAreTold
    BY DEF Export!WeightsAreTold, Export!Exported
  <2>1. /\ published.side \in Sidecars /\ published.graph.weights = bytes.version /\ LoadInv
    BY DEF ExportInv, Graphs
  <2>2. /\ published.side.checkpoint = bytes.version /\ published.side.load = model.mode
        /\ published.side.selected = model.from
        /\ published.side.deserialization
             = IF model.pickle THEN "unsafe_pickle" ELSE "weights_only"
    BY <2>1 DEF Sidecars
  <2> QED BY <2>1, <2>2 DEF LoadInv, Export!WeightsAreTold
<1>4. Export!TypeOK
  BY DEF ExportInv, LoadInv, Checkpoints, Export!TypeOK
<1> QED BY <1>1, <1>2, <1>3, <1>4 DEF ExportIsTrue

\* Whatever the tracer and the simplifier make of the graph, and whenever the
\* checkpoint or the sources are replaced: an export that ends publishes a graph that
\* passed every postcondition beside a sidecar that tells the weights, the load mode
\* and the simplification of that graph, and one that fails leaves the output alone.
THEOREM ExportTellsTheTruth == MakersSpec /\ program = variant => []ExportIsTrue
<1>1. CASE variant = "export"
  <2>1. Export!ExportAssumption BY PartsAssumption
  <2>2. ExportInv => ExportIsTrue BY ExportPromises
  <2> QED BY <1>1, <2>1, <2>2, ExportRuns, ExportKept, PTL
<1>2. CASE variant # "export"
  <2>1. program = variant => ExportIsTrue BY <1>2 DEF ExportIsTrue
  <2> QED BY <2>1, ProgramStays, PTL
<1> QED BY <1>1, <1>2

------------------------------
(* Conversion: the types, and what the names of paths are apart *)

Readings == {"sidecar_id", "read_graph", "read_sidecar", "graph_again", "sidecar_again"}
Placing == {"swap_graph", "swap_sidecar"}
Steps == {"graph_id", "make", "convert", "stage", "lock", "backup", "finish"} \cup Readings
  \cup Placing
Files == [run : 0 .. runs, of : Seq(1 .. runs)] \cup {Nothing}
Pairs == [graph : Files, sidecar : Files]
Jobs == [at : Steps, tool : Converting(variant)!Tools, src : Converting(variant)!Path,
         out : Converting(variant)!Path,
         run : 1 .. runs, seen : Pairs, input : Pairs, old : Pairs, found : Pairs,
         calm : BOOLEAN]

Busy(q) == job[q].at # "idle"

ConversionTypes ==
    /\ runs \in Nat
    /\ dir \in [Converting(variant)!Names -> Files]
    /\ temps \subseteq (1 .. runs) \X Converting(variant)!Removed
    /\ lock \in Proc \cup {Nothing}
    /\ killed \subseteq 1 .. runs
    /\ job \in [Proc -> Jobs \cup {Converting(variant)!Idle}]
    /\ \A q, r \in Proc : Busy(q) /\ Busy(r) /\ job[q].run = job[r].run => q = r

\* The work files a run has made when it makes the next one.
WorkFilesMade(q) ==
    LET own == Converting(variant)!Owned(q) IN
    /\ job[q].at \in {"graph_id"} \cup Readings => own = {}
    /\ job[q].at \in {"convert", "make"} /\ job[q].tool # "int8" => own = {}
    /\ job[q].at = "make" /\ job[q].tool = "int8" => own \in {{}, {"source"}, {"source", "preproc"}}

LEMMA PathFacts ==
    ASSUME Converting(variant)!ConversionAssumption
    PROVE  /\ \A t \in Converting(variant)!Path :
                 /\ t \in Converting(variant)!Names
                 /\ Converting(variant)!SidecarOf(t) \in Converting(variant)!Names
                 /\ Converting(variant)!SidecarOf(t) \notin Converting(variant)!Path
           /\ \A c \in Conversions[variant].commands : /\ Conversions[variant].real[c.src]
                                                          \in Converting(variant)!Path
                                                            /\ Conversions[variant].real[c.out]
                                                               \in Converting(variant)!Path
                                  /\ c.tool \in Converting(variant)!Tools
           /\ \A f \in Files : f # Nothing => f \in [run : 0 .. runs, of : Seq(1 .. runs)]
BY DEF Converting!ConversionAssumption, Converting!Names, Converting!Path, Converting!SidecarOf,
       Files

\* More runs admit more files.
LEMMA FilesGrow ==
    ASSUME runs \in Nat, runs' = runs \/ runs' = runs + 1
    PROVE  Files \subseteq Files' /\ Pairs \subseteq Pairs' /\ Jobs \subseteq Jobs'
<1>1. 1 .. runs \subseteq 1 .. runs' /\ 0 .. runs \subseteq 0 .. runs'
  OBVIOUS
<1>2. Seq(1 .. runs) \subseteq Seq(1 .. runs') BY <1>1
<1>3. Files \subseteq Files' BY <1>1, <1>2 DEF Files
<1>4. Pairs \subseteq Pairs' BY <1>3 DEF Pairs
<1> QED BY <1>1, <1>3, <1>4 DEF Jobs

LEMMA NewFile ==
    ASSUME Converting(variant)!ConversionAssumption, runs \in Nat, NEW r \in 1 .. runs,
           NEW chain \in Seq(1 .. runs)
    PROVE  /\ [run |-> r, of |-> Append(chain, r)] \in Files
           /\ [run |-> r, of |-> <<r>>] \in Files
           /\ [run |-> r, of |-> Append(chain, r)] # Nothing
           /\ [run |-> r, of |-> <<r>>] # Nothing
<1>1. Append(chain, r) \in Seq(1 .. runs) /\ <<r>> \in Seq(1 .. runs)
  OBVIOUS
<1>2. Append(chain, r) \in Seq(Nat) /\ <<r>> \in Seq(Nat)
  <2>1. chain \in Seq(Nat) /\ r \in Nat
    <3>1. 1 .. runs \subseteq Nat OBVIOUS
    <3> QED BY <3>1
  <2> QED BY <2>1
<1>3. /\ [run |-> r, of |-> Append(chain, r)] \in [run : Nat, of : Seq(Nat)]
      /\ [run |-> r, of |-> <<r>>] \in [run : Nat, of : Seq(Nat)]
  BY <1>2
<1>4. /\ [run |-> r, of |-> Append(chain, r)] \in [run : 0 .. runs, of : Seq(1 .. runs)]
      /\ [run |-> r, of |-> <<r>>] \in [run : 0 .. runs, of : Seq(1 .. runs)]
  BY <1>1
<1> QED BY <1>3, <1>4 DEF Files, Converting!ConversionAssumption
LEMMA JobFacts ==
    ASSUME Converting(variant)!ConversionAssumption, ConversionTypes, NEW q \in Proc
    PROVE  /\ job[q] \in Jobs \cup {Converting(variant)!Idle}
           /\ Busy(q) => job[q] \in Jobs
           /\ job[q].at \in Steps <=> Busy(q)
           /\ job[q].at \in Steps \cup {"idle"}
BY DEF ConversionTypes, Busy, Jobs, Converting!Idle, Steps, Readings, Placing

\* The job of one process is replaced by one of the same run, or it ends.
LEMMA JobStep ==
    ASSUME Converting(variant)!ConversionAssumption, ConversionTypes, NEW q \in Proc, Busy(q),
           NEW new,
           new = Converting(variant)!Idle \/ (new \in Jobs /\ new.run = job[q].run),
           job' = [job EXCEPT ![q] = new], runs' = runs
    PROVE  /\ job' \in [Proc -> Jobs' \cup {Converting(variant)!Idle}]
           /\ \A s, r \in Proc : Busy(s)' /\ Busy(r)' /\ job'[s].run = job'[r].run => s = r
           /\ job'[q] = new
           /\ \A r \in Proc \ {q} : job'[r] = job[r]
<1>1. job \in [Proc -> Jobs \cup {Converting(variant)!Idle}] /\ Jobs' = Jobs
  BY DEF ConversionTypes, Jobs, Pairs, Files
<1>2. /\ job'[q] = new
      /\ \A r \in Proc \ {q} : job'[r] = job[r]
      /\ job' \in [Proc -> Jobs' \cup {Converting(variant)!Idle}]
  BY <1>1
<1>3. ASSUME NEW s \in Proc, NEW r \in Proc, Busy(s)', Busy(r)', job'[s].run = job'[r].run
      PROVE  s = r
  <2>1. \A t \in Proc : Busy(t)' => Busy(t) /\ job'[t].run = job[t].run
    <3> SUFFICES ASSUME NEW t \in Proc, Busy(t)' PROVE Busy(t) /\ job'[t].run = job[t].run
      OBVIOUS
    <3>1. CASE t = q
      <4>1. new # Converting(variant)!Idle
        BY <1>2, <3>1 DEF Busy, Converting!Idle
      <4> QED BY <1>2, <3>1, <4>1
    <3>2. CASE t # q BY <1>2, <3>2 DEF Busy
    <3> QED BY <3>1, <3>2
  <2> QED BY <1>3, <2>1 DEF ConversionTypes
<1> QED BY <1>2, <1>3

LEMMA ReadFiles ==
    ASSUME Converting(variant)!ConversionAssumption, ConversionTypes, NEW q \in Proc, Busy(q)
    PROVE  /\ job[q].src \in Converting(variant)!Path /\ job[q].out \in Converting(variant)!Path
           /\ dir[job[q].src] \in Files /\ dir[Converting(variant)!SidecarOf(job[q].src)] \in Files
           /\ dir[job[q].out] \in Files /\ dir[Converting(variant)!SidecarOf(job[q].out)] \in Files
           /\ job[q].out \in Converting(variant)!Names
           /\ Converting(variant)!SidecarOf(job[q].out) \in Converting(variant)!Names
           /\ job[q].run \in 1 .. runs /\ job[q].tool \in Converting(variant)!Tools
           /\ job[q].input \in Pairs /\ job[q].seen \in Pairs
           /\ job[q].old \in Pairs /\ job[q].found \in Pairs /\ job[q].calm \in BOOLEAN
<1>1. job[q] \in Jobs BY JobFacts
<1>2. job[q].src \in Converting(variant)!Path /\ job[q].out \in Converting(variant)!Path
  BY <1>1 DEF Jobs
<1>3. /\ job[q].src \in Converting(variant)!Names
         /\ Converting(variant)!SidecarOf(job[q].src) \in Converting(variant)!Names
      /\ job[q].out \in Converting(variant)!Names
         /\ Converting(variant)!SidecarOf(job[q].out) \in Converting(variant)!Names
  BY <1>2, PathFacts
<1>4. dir \in [Converting(variant)!Names -> Files]
  BY DEF ConversionTypes
<1> QED BY <1>1, <1>2, <1>3, <1>4 DEF Jobs

ReadStep(q) ==
    \/ Converting(variant)!IdentifyGraph(q) \/ Converting(variant)!IdentifySidecar(q)
       \/ Converting(variant)!ReadGraph(q)
    \/ Converting(variant)!ReadSidecar(q) \/ Converting(variant)!RecheckGraph(q)
       \/ Converting(variant)!RecheckSidecar(q)

\* What a reading step does to the job, and that it does nothing else.
LEMMA ReadingJob ==
    ASSUME Converting(variant)!ConversionAssumption, ConversionTypes, NEW q \in Proc, ReadStep(q)
    PROVE  /\ UNCHANGED <<dir, temps, lock, killed, runs, failures>>
           /\ Busy(q) /\ job[q].at \in {"graph_id"} \cup Readings
           /\ \E new \in Jobs :
                 /\ job' = [job EXCEPT ![q] = new]
                 /\ new.run = job[q].run /\ new.tool = job[q].tool
                 /\ new.src = job[q].src /\ new.out = job[q].out
                 /\ new.at \in Readings \cup {"finish"}
                       \/ (new.at = (IF job[q].tool = "int8" THEN "make" ELSE "convert")
                           /\ job[q].at = "sidecar_again")
<1>1. /\ UNCHANGED <<dir, temps, lock, killed, runs, failures>>
      /\ Busy(q) /\ job[q].at \in {"graph_id"} \cup Readings
  BY DEF ReadStep, Converting!IdentifyGraph, Converting!IdentifySidecar, Converting!ReadGraph,
         Converting!ReadSidecar, Converting!RecheckGraph, Converting!RecheckSidecar,
         Converting!At, Busy, Readings
<1> DEFINE j == job[q]
           graph == dir[job[q].src]
           text == dir[Converting(variant)!SidecarOf(job[q].src)]
<1>2. j \in Jobs /\ graph \in Files /\ text \in Files
    /\ [graph |-> graph, sidecar |-> text] \in Pairs
  BY <1>1, JobFacts, ReadFiles DEF Pairs
<1>3. Nothing \in Files BY DEF Files
<1> DEFINE Fits(new) == /\ new \in Jobs
                        /\ job' = [job EXCEPT ![q] = new]
                        /\ new.run = j.run /\ new.tool = j.tool
                        /\ new.src = j.src /\ new.out = j.out
                        /\ new.at \in Readings \cup {"finish"}
                             \/ (new.at = (IF j.tool = "int8" THEN "make" ELSE "convert")
                                 /\ j.at = "sidecar_again")
<1>4. \E new : Fits(new)
  <2>1. CASE Converting(variant)!IdentifyGraph(q)
    <3> DEFINE seen == [j.seen EXCEPT !.graph = graph]
               calm == ~Converting(variant)!Publishing(job[q].src)
               found == [graph |-> graph, sidecar |-> text]
               new == [j EXCEPT !.at = "sidecar_id", !.seen = seen, !.found = found, !.calm = calm]
    <3>1. job' = [job EXCEPT ![q] = new]
      BY <2>1, ZenonT(60) DEF Converting!IdentifyGraph, Converting!Pair
    <3>2. j.seen \in Pairs BY <1>2 DEF Jobs
    <3>3. seen \in Pairs /\ calm \in BOOLEAN /\ found \in Pairs
      BY <1>2, <3>2 DEF Pairs, Converting!Publishing
    <3> HIDE DEF j, seen, calm, found
    <3>4. /\ new \in Jobs /\ new.run = j.run /\ new.tool = j.tool /\ new.src = j.src
          /\ new.out = j.out /\ new.at = "sidecar_id"
      BY <1>2, <3>3 DEF Jobs, Steps, Readings
    <3> HIDE DEF new
    <3> QED BY <3>1, <3>4 DEF Readings
  <2>2. CASE Converting(variant)!IdentifySidecar(q)
    <3> DEFINE seen == [j.seen EXCEPT !.sidecar = text]
               new == [j EXCEPT !.at = "read_graph", !.seen = seen]
    <3>1. job' = [job EXCEPT ![q] = new]
      BY <2>2 DEF Converting!IdentifySidecar
    <3>2. j.seen \in Pairs BY <1>2 DEF Jobs
    <3>3. seen \in Pairs BY <1>2, <3>2 DEF Pairs
    <3> HIDE DEF j, seen
    <3>4. /\ new \in Jobs /\ new.run = j.run /\ new.tool = j.tool /\ new.src = j.src
          /\ new.out = j.out /\ new.at = "read_graph"
      BY <1>2, <3>3 DEF Jobs, Steps, Readings
    <3> HIDE DEF new
    <3> QED BY <3>1, <3>4 DEF Readings
  <2>3. CASE Converting(variant)!ReadGraph(q)
    <3> DEFINE input == [j.input EXCEPT !.graph = graph]
               at == IF graph = Nothing THEN "finish"
                     ELSE IF j.seen.sidecar = Nothing THEN "graph_again" ELSE "read_sidecar"
               new == [j EXCEPT !.at = at, !.input = input]
    <3>1. job' = [job EXCEPT ![q] = new]
      BY <2>3, ZenonT(60) DEF Converting!ReadGraph
    <3>2. j.input \in Pairs BY <1>2 DEF Jobs
    <3>3. input \in Pairs /\ at \in {"finish", "graph_again", "read_sidecar"}
      BY <1>2, <3>2 DEF Pairs
    <3> HIDE DEF j, input, at
    <3>4. /\ new \in Jobs /\ new.run = j.run /\ new.tool = j.tool /\ new.src = j.src
          /\ new.out = j.out /\ new.at = at
      BY <1>2, <3>3 DEF Jobs, Steps, Readings
    <3> HIDE DEF new
    <3> QED BY <3>1, <3>3, <3>4 DEF Readings
  <2>4. CASE Converting(variant)!ReadSidecar(q)
    <3> DEFINE input == [j.input EXCEPT !.sidecar = text]
               at == IF text = Nothing THEN "finish" ELSE "graph_again"
               new == [j EXCEPT !.at = at, !.input = input]
    <3>1. job' = [job EXCEPT ![q] = new]
      BY <2>4 DEF Converting!ReadSidecar
    <3>2. j.input \in Pairs BY <1>2 DEF Jobs
    <3>3. input \in Pairs /\ at \in {"finish", "graph_again"}
      BY <1>2, <3>2 DEF Pairs
    <3> HIDE DEF j, input, at
    <3>4. /\ new \in Jobs /\ new.run = j.run /\ new.tool = j.tool /\ new.src = j.src
          /\ new.out = j.out /\ new.at = at
      BY <1>2, <3>3 DEF Jobs, Steps, Readings
    <3> HIDE DEF new
    <3> QED BY <3>1, <3>3, <3>4 DEF Readings
  <2>5. CASE Converting(variant)!RecheckGraph(q) \/ Converting(variant)!RecheckSidecar(q)
    <3>1. PICK at \in {"finish", "sidecar_again", "make", "convert"} :
             /\ job' = [job EXCEPT ![q].at = at]
             /\ at \in {"finish", "sidecar_again"}
                  \/ (j.at = "sidecar_again" /\ at = IF j.tool = "int8" THEN "make" ELSE "convert")
      BY <2>5 DEF Converting!RecheckGraph, Converting!RecheckSidecar, Converting!Goes, Converting!At
    <3> DEFINE new == [j EXCEPT !.at = at]
    <3>2. job' = [job EXCEPT ![q] = new] BY <3>1
    <3> HIDE DEF j
    <3>3. /\ new \in Jobs /\ new.run = j.run /\ new.tool = j.tool /\ new.src = j.src
          /\ new.out = j.out /\ new.at = at
      BY <1>2 DEF Jobs, Steps, Readings
    <3> HIDE DEF new
    <3> QED BY <3>1, <3>2, <3>3 DEF Readings
  <2> QED BY <2>1, <2>2, <2>3, <2>4, <2>5 DEF ReadStep
<1> QED BY <1>1, <1>4

\* A step that only takes the job elsewhere.
LEMMA GoingJob ==
    ASSUME Converting(variant)!ConversionAssumption, ConversionTypes, NEW q \in Proc, Busy(q),
           NEW to \in Steps,
           Converting(variant)!Goes(q, to)
    PROVE  \E new \in Jobs :
              /\ job' = [job EXCEPT ![q] = new]
              /\ new.at = to /\ new.run = job[q].run /\ new.tool = job[q].tool
              /\ new.src = job[q].src /\ new.out = job[q].out /\ new.seen = job[q].seen
              /\ new.input = job[q].input /\ new.old = job[q].old /\ new.found = job[q].found
              /\ new.calm = job[q].calm
<1> DEFINE j == job[q]
           new == [j EXCEPT !.at = to]
<1>1. job' = [job EXCEPT ![q] = new] BY DEF Converting!Goes
<1>2. j \in Jobs BY JobFacts
<1> HIDE DEF j
<1>3. /\ new \in Jobs /\ new.at = to /\ new.run = j.run /\ new.tool = j.tool
      /\ new.src = j.src /\ new.out = j.out /\ new.seen = j.seen /\ new.input = j.input
      /\ new.old = j.old /\ new.found = j.found /\ new.calm = j.calm
  BY <1>2 DEF Jobs
<1> HIDE DEF new
<1> QED BY <1>1, <1>3 DEF j

\* What an undone publication does to the jobs: it ends, and its readers are told.
LEMMA RollbackJobs ==
    ASSUME Converting(variant)!ConversionAssumption, ConversionTypes, NEW q \in Proc,
           Converting(variant)!Rollback(q),
           NEW r \in Proc
    PROVE  /\ Busy(r)' <=> Busy(r)
           /\ job'[r] \in Jobs \cup {Converting(variant)!Idle}
           /\ Busy(r) => /\ job'[r] \in Jobs /\ job'[r].run = job[r].run
                         /\ job'[r].tool = job[r].tool
                         /\ job'[r].src = job[r].src /\ job'[r].out = job[r].out
                         /\ job'[r].seen = job[r].seen /\ job'[r].input = job[r].input
                         /\ job'[r].old = job[r].old /\ job'[r].found = job[r].found
                         /\ job'[r].calm = (job[r].calm /\ job[r].src # job[q].out)
           /\ job'[r].at = IF r = q THEN "finish" ELSE job[r].at
<1>1. job \in [Proc -> Jobs \cup {Converting(variant)!Idle}]
    /\ job[r] \in Jobs \cup {Converting(variant)!Idle}
  BY DEF ConversionTypes
<1>2. job[q].at = "swap_sidecar"
  BY DEF Converting!Rollback, Converting!At
<1> DEFINE told == Converting(variant)!Unsettled(job[q].out)
           one == IF Busy(r) /\ job[r].src = job[q].out THEN [job[r] EXCEPT !.calm = FALSE]
             ELSE job[r]
           at == IF r = q THEN "finish" ELSE job[r].at
<1>3. told[r] = one /\ told = [s \in Proc |-> told[s]]
  BY DEF Converting!Unsettled, Busy
<1>4. job' = [told EXCEPT ![q].at = "finish"] BY DEF Converting!Rollback
<1> HIDE DEF told
<1>5. job'[r] = IF r = q THEN [one EXCEPT !.at = "finish"] ELSE one
  BY <1>3, <1>4
<1>6. ASSUME Busy(r)
      PROVE  /\ job'[r] \in Jobs /\ job'[r].run = job[r].run
             /\ job'[r].tool = job[r].tool
             /\ job'[r].src = job[r].src /\ job'[r].out = job[r].out
             /\ job'[r].seen = job[r].seen /\ job'[r].input = job[r].input
             /\ job'[r].old = job[r].old /\ job'[r].found = job[r].found
             /\ job'[r].calm = (job[r].calm /\ job[r].src # job[q].out)
             /\ job'[r].at = at
  <2> DEFINE j == job[r]
  <2>1. j \in Jobs BY <1>6, JobFacts
  <2>2. "finish" \in Steps BY DEF Steps
  <2>3. one = IF j.src = job[q].out THEN [j EXCEPT !.calm = FALSE] ELSE j
    BY <1>6
  <2> HIDE DEF j, one
  <2>4. /\ one \in Jobs /\ one.run = j.run /\ one.tool = j.tool /\ one.src = j.src
        /\ one.out = j.out /\ one.seen = j.seen /\ one.input = j.input /\ one.old = j.old
        /\ one.found = j.found /\ one.at = j.at
        /\ one.calm = (j.calm /\ j.src # job[q].out)
    <3>1. CASE j.src = job[q].out BY <2>1, <2>3, <3>1 DEF Jobs
    <3>2. CASE j.src # job[q].out
      <4>1. j.calm \in BOOLEAN /\ one = j BY <2>1, <2>3, <3>2 DEF Jobs
      <4> QED BY <2>1, <3>2, <4>1
    <3> QED BY <3>1, <3>2
  <2>5. CASE r = q
    <3>1. job'[r] = [one EXCEPT !.at = "finish"] BY <1>5, <2>5
    <3>2. /\ job'[r] \in Jobs /\ job'[r].run = one.run /\ job'[r].tool = one.tool
          /\ job'[r].src = one.src /\ job'[r].out = one.out /\ job'[r].seen = one.seen
          /\ job'[r].input = one.input /\ job'[r].old = one.old /\ job'[r].found = one.found
          /\ job'[r].calm = one.calm /\ job'[r].at = "finish"
      BY <2>2, <2>4, <3>1 DEF Jobs
    <3> QED BY <2>4, <2>5, <3>2 DEF j
  <2>6. CASE r # q
    <3>1. job'[r] = one BY <1>5, <2>6
    <3> QED BY <2>4, <2>6, <3>1 DEF j
  <2> QED BY <2>5, <2>6
<1>7. ASSUME ~Busy(r) PROVE job'[r] = job[r] /\ r # q
  BY <1>2, <1>5, <1>7 DEF Busy
<1>8. Busy(r)' <=> Busy(r)
  <2>1. Busy(r) => job'[r].at # "idle"
    <3>1. Busy(r) => job'[r].at = at BY <1>6
    <3> QED BY <3>1 DEF Busy
  <2>2. ~Busy(r) => job'[r].at = "idle" BY <1>7 DEF Busy
  <2> QED BY <2>1, <2>2 DEF Busy
<1> QED BY <1>1, <1>6, <1>7, <1>8

LEMMA NewPair ==
    ASSUME Converting(variant)!ConversionAssumption, ConversionTypes, NEW q \in Proc,
           job[q].at \in Placing,
           job[q].tool # "export" => job[q].input.graph # Nothing
    PROVE  /\ Converting(variant)!New(q, job[q].input.graph) \in Files
           /\ Converting(variant)!New(q, job[q].input.graph) # Nothing
           /\ Converting(variant)!New(q, job[q].input.graph).run = job[q].run
           /\ Converting(variant)!NewSidecar(q) \in Files
           /\ Converting(variant)!NewSidecar(q) # Nothing
              => Converting(variant)!NewSidecar(q).run = job[q].run
<1> DEFINE r == job[q].run
<1>1. Busy(q) BY DEF Busy, Placing
<1>2. r \in 1 .. runs /\ runs \in Nat /\ job[q].input \in Pairs
  BY <1>1, ReadFiles DEF ConversionTypes
<1>3. ASSUME NEW f \in Files, job[q].tool = "export" \/ f # Nothing
      PROVE  /\ Converting(variant)!New(q, f) \in Files /\ Converting(variant)!New(q, f) # Nothing
             /\ Converting(variant)!New(q, f).run = r
  <2>1. CASE job[q].tool = "export"
    <3>1. Converting(variant)!New(q, f) = [run |-> r, of |-> <<r>>]
      BY <2>1 DEF Converting!New, Converting!File
    <3>2. [run |-> r, of |-> <<r>>] \in Files /\ [run |-> r, of |-> <<r>>] # Nothing
      <4>1. <<>> \in Seq(1 .. runs) OBVIOUS
      <4> HIDE DEF r
      <4> QED BY <1>2, <4>1, NewFile
    <3> QED BY <3>1, <3>2
  <2>2. CASE job[q].tool # "export"
    <3>1. Converting(variant)!New(q, f) = [run |-> r, of |-> Append(f.of, r)]
      BY <2>2 DEF Converting!New, Converting!File
    <3>2. f.of \in Seq(1 .. runs) BY <1>3, <2>2 DEF Files
    <3>3. [run |-> r, of |-> Append(f.of, r)] \in Files
        /\ [run |-> r, of |-> Append(f.of, r)] # Nothing
      <4> HIDE DEF r
      <4> QED BY <1>2, <3>2, NewFile
    <3> QED BY <3>1, <3>3
  <2> QED BY <2>1, <2>2
<1>4. job[q].input.graph \in Files /\ job[q].input.sidecar \in Files /\ Nothing \in Files
  BY <1>2 DEF Pairs, Files
<1>5. /\ Converting(variant)!New(q, job[q].input.graph) \in Files
      /\ Converting(variant)!New(q, job[q].input.graph) # Nothing
      /\ Converting(variant)!New(q, job[q].input.graph).run = r
  BY <1>3, <1>4
<1>6. /\ Converting(variant)!NewSidecar(q) \in Files
      /\ Converting(variant)!NewSidecar(q) # Nothing => Converting(variant)!NewSidecar(q).run = r
  <2>1. CASE Converting(variant)!HasText(q)
    <3>1. job[q].tool = "export" \/ job[q].input.sidecar # Nothing
      BY <2>1 DEF Converting!HasText
    <3> QED BY <1>3, <1>4, <2>1, <3>1 DEF Converting!NewSidecar
  <2>2. CASE ~Converting(variant)!HasText(q)
    BY <1>4, <2>2 DEF Converting!NewSidecar
  <2> QED BY <2>1, <2>2
<1> QED BY <1>5, <1>6

------------------------------
(* Conversion: types, locks and what is left behind *)

\* Who is between the backups and the second file has the lock, and who has it is at work.
Locked ==
    /\ \A q \in Proc : job[q].at \in {"backup"} \cup Placing => lock = q
    /\ lock # Nothing => Busy(lock)

Litter == \A t \in temps : t[1] \in Converting(variant)!Running \cup killed

\* A conversion past its first reads has a graph.
HasGraph(q) ==
    Busy(q) /\ job[q].tool # "export"
        /\ job[q].at \notin {"graph_id", "sidecar_id", "read_graph", "finish"}
            => job[q].input.graph # Nothing

CleanInv ==
    /\ ConversionTypes /\ Locked /\ Litter
    /\ \A q \in Proc : HasGraph(q) /\ WorkFilesMade(q)

\* A process takes a step of its own, which touches no temporary file of another run, and
\* the lock only where nobody else has it.
LEMMA CleanFrame ==
    ASSUME Converting(variant)!ConversionAssumption, CleanInv, NEW q \in Proc, Busy(q), NEW new,
           new = Converting(variant)!Idle \/ (new \in Jobs /\ new.run = job[q].run),
           job' = [job EXCEPT ![q] = new], runs' = runs,
           dir' \in [Converting(variant)!Names -> Files],
           temps' \subseteq (1 .. runs) \X Converting(variant)!Removed,
           \A t : t[1] # job[q].run => (t \in temps' <=> t \in temps),
           killed \subseteq killed', killed' \subseteq 1 .. runs,
           new = Converting(variant)!Idle =>
               (job[q].run \in killed' \/ \A t \in temps' : t[1] # job[q].run),
           lock' \in {lock, q, Nothing}, lock' = q => new # Converting(variant)!Idle,
           lock' # lock => lock \in {q, Nothing},
           new.at \in {"backup"} \cup Placing => lock' = q,
           HasGraph(q)', WorkFilesMade(q)'
    PROVE  CleanInv'
<1>1. /\ job' \in [Proc -> Jobs' \cup {Converting(variant)!Idle}]
      /\ \A s, r \in Proc : Busy(s)' /\ Busy(r)' /\ job'[s].run = job'[r].run => s = r
      /\ job'[q] = new
      /\ \A r \in Proc \ {q} : job'[r] = job[r]
  BY JobStep DEF CleanInv
<1>2. ConversionTypes BY DEF CleanInv
<1>3. Busy(q)' <=> new # Converting(variant)!Idle
  BY <1>1, JobFacts DEF Busy, Converting!Idle, Jobs, Steps, Readings, Placing
<1>4. ConversionTypes'
  <2>1. Files' = Files BY DEF Files
  <2>2. lock' \in Proc \cup {Nothing} BY <1>2 DEF ConversionTypes
  <2>3. runs' \in Nat /\ Converting(variant)!Removed' = Converting(variant)!Removed
    BY <1>2 DEF ConversionTypes, Converting!Removed
  <2> QED BY <1>1, <2>1, <2>2, <2>3 DEF ConversionTypes
<1>5. Locked'
  <2>1. ASSUME NEW r \in Proc, job'[r].at \in {"backup"} \cup Placing PROVE lock' = r
    <3>1. CASE r = q BY <1>1, <2>1, <3>1
    <3>2. CASE r # q
      <4>1. lock = r BY <1>1, <2>1, <3>2 DEF CleanInv, Locked
      <4>2. r # Nothing BY DEF Converting!ConversionAssumption
      <4> QED BY <3>2, <4>1, <4>2
    <3> QED BY <3>1, <3>2
  <2>2. ASSUME lock' # Nothing PROVE Busy(lock)'
    <3>1. lock' \in Proc BY <1>4, <2>2 DEF ConversionTypes
    <3>2. CASE lock' = q BY <1>3, <3>2 DEF Busy
    <3>3. CASE lock' # q
      <4>1. lock' = lock /\ Busy(lock) /\ lock \in Proc \ {q}
        BY <2>2, <3>1, <3>3 DEF CleanInv, Locked
      <4> QED BY <1>1, <4>1 DEF Busy
    <3> QED BY <3>2, <3>3
  <2>3. \A r \in Proc : job'[r].at \in {"backup"} \cup Placing' => lock' = r
    BY <2>1 DEF Placing
  <2> QED BY <2>2, <2>3 DEF Locked
<1>6. Litter'
  <2> SUFFICES ASSUME NEW t \in temps' PROVE t[1] \in Converting(variant)!Running' \cup killed'
    BY DEF Litter
  <2>1. CASE t[1] = job[q].run
    <3>1. CASE new = Converting(variant)!Idle BY <2>1, <3>1
    <3>2. CASE new # Converting(variant)!Idle
      <4>1. job'[q].at # "idle" /\ job'[q].run = t[1]
        BY <1>1, <1>3, <2>1, <3>2 DEF Busy
      <4> QED BY <4>1 DEF Converting!Running
    <3> QED BY <3>1, <3>2
  <2>2. CASE t[1] # job[q].run
    <3>1. t[1] \in Converting(variant)!Running \cup killed
      BY <2>2 DEF CleanInv, Litter
    <3>2. ASSUME t[1] \in Converting(variant)!Running PROVE t[1] \in Converting(variant)!Running'
      <4>1. PICK r \in Proc : job[r].at # "idle" /\ job[r].run = t[1]
        BY <3>2 DEF Converting!Running
      <4>2. r # q BY <2>2, <4>1
      <4>3. job'[r].at # "idle" /\ job'[r].run = t[1]
        BY <1>1, <4>1, <4>2
      <4> QED BY <4>3 DEF Converting!Running
    <3> QED BY <3>1, <3>2
  <2> QED BY <2>1, <2>2
<1>7. ASSUME NEW r \in Proc PROVE HasGraph(r)' /\ WorkFilesMade(r)'
  <2>1. CASE r = q BY <2>1
  <2>2. CASE r # q
    <3>1. job'[r] = job[r] BY <1>1, <2>2
    <3>2. HasGraph(r)' BY <3>1 DEF CleanInv, HasGraph, Busy
    <3>3. WorkFilesMade(r)'
      <4>1. CASE Busy(r)
        <5>1. job[r].run # job[q].run
          BY <1>2, <2>2, <4>1 DEF ConversionTypes
        <5>2. Converting(variant)!Owned(r)' = Converting(variant)!Owned(r)
          BY <3>1, <5>1 DEF Converting!Owned
        <5> QED BY <3>1, <5>2 DEF CleanInv, WorkFilesMade, Readings
      <4>2. CASE ~Busy(r)
        BY <3>1, <4>2 DEF WorkFilesMade, Busy, Readings
      <4> QED BY <4>1, <4>2
    <3> QED BY <3>2, <3>3
  <2> QED BY <2>1, <2>2
<1> QED BY <1>4, <1>5, <1>6, <1>7 DEF CleanInv

\* What a reading step leaves of the graph that is read.
LEMMA ReadingGraph ==
    ASSUME Converting(variant)!ConversionAssumption, CleanInv, NEW q \in Proc, ReadStep(q)
    PROVE  HasGraph(q)'
<1>1. job \in [Proc -> Jobs \cup {Converting(variant)!Idle}] /\ Busy(q) /\ job[q] \in Jobs
  BY ReadingJob, JobFacts DEF CleanInv, ConversionTypes
<1>2. job[q].input \in Pairs /\ job[q].seen \in Pairs BY <1>1 DEF Jobs
<1>3. HasGraph(q) BY DEF CleanInv
<1>4. CASE Converting(variant)!IdentifyGraph(q)
  <2>1. job'[q].at = "sidecar_id"
    BY <1>1, <1>4 DEF Converting!IdentifyGraph, Jobs
  <2> QED BY <2>1 DEF HasGraph
<1>5. CASE Converting(variant)!IdentifySidecar(q)
  <2>1. job'[q].at = "read_graph"
    BY <1>1, <1>5 DEF Converting!IdentifySidecar, Jobs
  <2> QED BY <2>1 DEF HasGraph
<1>6. CASE Converting(variant)!ReadGraph(q)
  <2> DEFINE graph == dir[job[q].src]
             input == [job[q].input EXCEPT !.graph = graph]
             at == IF graph = Nothing THEN "finish"
                   ELSE IF job[q].seen.sidecar = Nothing THEN "graph_again" ELSE "read_sidecar"
  <2>1. job' = [job EXCEPT ![q] = [job[q] EXCEPT !.at = at, !.input = input]]
    BY <1>6, ZenonT(60) DEF Converting!ReadGraph
  <2>2. input.graph = graph BY <1>2 DEF Pairs
  <2>3. graph = Nothing => at = "finish" OBVIOUS
  <2> HIDE DEF input, at, graph
  <2>4. job'[q].at = at /\ job'[q].input = input BY <1>1, <2>1 DEF Jobs
  <2> QED BY <2>2, <2>3, <2>4 DEF HasGraph
<1>7. CASE Converting(variant)!ReadSidecar(q)
  <2> DEFINE text == dir[Converting(variant)!SidecarOf(job[q].src)]
             input == [job[q].input EXCEPT !.sidecar = text]
             at == IF text = Nothing THEN "finish" ELSE "graph_again"
  <2>1. job' = [job EXCEPT ![q] = [job[q] EXCEPT !.at = at, !.input = input]]
        /\ job[q].at = "read_sidecar"
    BY <1>7, ZenonT(60) DEF Converting!ReadSidecar, Converting!At
  <2>2. input.graph = job[q].input.graph BY <1>2 DEF Pairs
  <2> HIDE DEF input, at, text
  <2>3. job'[q].at = at /\ job'[q].input = input /\ job'[q].tool = job[q].tool
    BY <1>1, <2>1 DEF Jobs
  <2> QED BY <1>1, <1>3, <2>1, <2>2, <2>3 DEF HasGraph
<1>8. CASE Converting(variant)!RecheckGraph(q) \/ Converting(variant)!RecheckSidecar(q)
  <2>1. PICK to : job' = [job EXCEPT ![q].at = to] /\ job[q].at \in {"graph_again", "sidecar_again"}
    BY <1>8 DEF Converting!RecheckGraph, Converting!RecheckSidecar, Converting!Goes, Converting!At
  <2>2. job'[q].input = job[q].input /\ job'[q].tool = job[q].tool
    BY <1>1, <2>1 DEF Jobs
  <2> QED BY <1>1, <1>3, <2>1, <2>2 DEF HasGraph
<1> QED BY <1>4, <1>5, <1>6, <1>7, <1>8 DEF ReadStep

LEMMA CleanReads ==
    ASSUME Converting(variant)!ConversionAssumption, CleanInv, NEW q \in Proc, ReadStep(q)
    PROVE  CleanInv'
<1>1. ConversionTypes BY DEF CleanInv
<1>2. /\ UNCHANGED <<dir, temps, lock, killed, runs, failures>>
      /\ Busy(q) /\ job[q].at \in {"graph_id"} \cup Readings
  BY <1>1, ReadingJob
<1>3. PICK new \in Jobs :
         /\ job' = [job EXCEPT ![q] = new]
         /\ new.run = job[q].run /\ new.tool = job[q].tool
         /\ new.src = job[q].src /\ new.out = job[q].out
         /\ new.at \in Readings \cup {"finish"}
               \/ (new.at = (IF job[q].tool = "int8" THEN "make" ELSE "convert")
                   /\ job[q].at = "sidecar_again")
  BY <1>1, ReadingJob
<1>4. job'[q] = new /\ new # Converting(variant)!Idle
  <2>1. new.at \in Steps BY DEF Jobs
  <2>2. new # Converting(variant)!Idle
    BY <2>1 DEF Converting!Idle, Steps, Readings, Placing
  <2> QED BY <1>1, <1>3, <2>2 DEF ConversionTypes
<1>5. Converting(variant)!Owned(q) = {}
  BY <1>2 DEF CleanInv, WorkFilesMade
<1>6. Converting(variant)!Owned(q)' = {}
  BY <1>2, <1>3, <1>4, <1>5 DEF Converting!Owned
<1>7. WorkFilesMade(q)' BY <1>6 DEF WorkFilesMade
<1>8. HasGraph(q)' BY ReadingGraph
<1>9. new.at \notin {"backup"} \cup Placing
  BY <1>3 DEF Readings, Placing
<1>10. /\ dir' \in [Converting(variant)!Names -> Files]
       /\ temps' \subseteq (1 .. runs) \X Converting(variant)!Removed
       /\ \A t : t[1] # job[q].run => (t \in temps' <=> t \in temps)
       /\ killed \subseteq killed' /\ killed' \subseteq 1 .. runs /\ runs' = runs /\ lock' = lock
  BY <1>1, <1>2 DEF ConversionTypes
<1> QED BY <1>2, <1>3, <1>4, <1>7, <1>8, <1>9, <1>10, CleanFrame

\* The steps that go from one of the later states to the next, with no other change to the job.
LEMMA CleanGoes ==
    ASSUME Converting(variant)!ConversionAssumption, CleanInv, NEW q \in Proc, Busy(q),
           NEW to \in Steps,
           Converting(variant)!Goes(q, to),
           job[q].at \notin {"graph_id", "sidecar_id", "read_graph"} \/ to = "finish",
           UNCHANGED <<killed, runs>>, dir' \in [Converting(variant)!Names -> Files],
           temps' \subseteq (1 .. runs) \X Converting(variant)!Removed,
           \A t : t[1] # job[q].run => (t \in temps' <=> t \in temps),
           lock' \in {lock, q}, lock' # lock => lock = Nothing,
           to \in {"backup"} \cup Placing => lock' = q,
           job[q].at = "finish" => to = "finish",
           to \in {"graph_id", "make", "convert"} \cup Readings => WorkFilesMade(q)'
    PROVE  CleanInv'
<1>1. ConversionTypes BY DEF CleanInv
<1>2. PICK new \in Jobs :
         /\ job' = [job EXCEPT ![q] = new]
         /\ new.at = to /\ new.run = job[q].run /\ new.tool = job[q].tool
         /\ new.src = job[q].src /\ new.out = job[q].out /\ new.seen = job[q].seen
         /\ new.input = job[q].input /\ new.old = job[q].old /\ new.found = job[q].found
         /\ new.calm = job[q].calm
  BY <1>1, GoingJob
<1>3. job'[q] = new /\ new # Converting(variant)!Idle
  <2>1. new # Converting(variant)!Idle
    BY <1>2 DEF Converting!Idle, Steps, Readings, Placing
  <2> QED BY <1>1, <1>2, <2>1 DEF ConversionTypes
<1>4. HasGraph(q)'
  <2>1. HasGraph(q) BY DEF CleanInv
  <2>2. to # "finish" => Busy(q)
      /\ job[q].at \notin {"graph_id", "sidecar_id", "read_graph", "finish"}
    OBVIOUS
  <2> QED BY <1>2, <1>3, <2>1, <2>2 DEF HasGraph
<1>5. WorkFilesMade(q)'
  <2>1. CASE to \in {"graph_id", "make", "convert"} \cup Readings
    BY <2>1
  <2>2. CASE to \notin {"graph_id", "make", "convert"} \cup Readings
    BY <1>2, <1>3, <2>2 DEF WorkFilesMade, Readings
  <2> QED BY <2>1, <2>2
<1>6. /\ killed \subseteq killed' /\ killed' \subseteq 1 .. runs /\ runs' = runs
      /\ lock' \in {lock, q, Nothing} /\ (lock' # lock => lock \in {q, Nothing})
  BY <1>1 DEF ConversionTypes
<1> QED BY <1>2, <1>3, <1>4, <1>5, <1>6, CleanFrame

LEMMA AddedFiles ==
    ASSUME ConversionTypes, NEW q \in Proc, Busy(q), Converting(variant)!ConversionAssumption,
           NEW added \in SUBSET Converting(variant)!Removed, Converting(variant)!Adds(q, added)
    PROVE  /\ temps' \subseteq (1 .. runs) \X Converting(variant)!Removed
           /\ \A t : t[1] # job[q].run => (t \in temps' <=> t \in temps)
           /\ job'[q].run = job[q].run
              => Converting(variant)!Owned(q)' = Converting(variant)!Owned(q) \cup added
<1>1. job[q].run \in 1 .. runs BY ReadFiles
<1>2. temps' = temps \cup {<<job[q].run, n>> : n \in added}
  BY DEF Converting!Adds
<1>3. temps \subseteq (1 .. runs) \X Converting(variant)!Removed
  BY DEF ConversionTypes
<1>4. \A u \in {<<job[q].run, n>> : n \in added} :
         /\ u[1] = job[q].run
         /\ u \in (1 .. runs) \X Converting(variant)!Removed
  BY <1>1
<1>5. temps' \subseteq (1 .. runs) \X Converting(variant)!Removed
  BY <1>2, <1>3, <1>4
<1>6. \A t : t[1] # job[q].run => (t \in temps' <=> t \in temps)
  BY <1>2, <1>4
<1>7. ASSUME job'[q].run = job[q].run
    PROVE Converting(variant)!Owned(q)' = Converting(variant)!Owned(q) \cup added
  <2> DEFINE r == job[q].run
  <2>1. Converting(variant)!Owned(q) = {t[2] : t \in {u \in temps : u[1] = r}}
    BY DEF Converting!Owned
  <2>2. Converting(variant)!Owned(q)' = {t[2] : t \in {u \in temps' : u[1] = r}}
    BY <1>7 DEF Converting!Owned
  <2> HIDE DEF r
  <2>3. temps' = temps \cup {<<r, n>> : n \in added} BY <1>2 DEF r
  <2>4. ASSUME NEW n \in Converting(variant)!Owned(q)'
      PROVE n \in Converting(variant)!Owned(q) \cup added
    <3>1. PICK u \in temps' : u[1] = r /\ n = u[2] BY <2>2
    <3>2. CASE u \in temps BY <2>1, <3>1, <3>2
    <3>3. CASE u \notin temps
      <4>1. PICK m \in added : u = <<r, m>> BY <2>3, <3>1, <3>3
      <4> QED BY <3>1, <4>1
    <3> QED BY <3>2, <3>3
  <2>5. ASSUME NEW n \in Converting(variant)!Owned(q) PROVE n \in Converting(variant)!Owned(q)'
    <3>1. PICK u \in temps : u[1] = r /\ n = u[2] BY <2>1
    <3> QED BY <2>2, <2>3, <3>1
  <2>6. ASSUME NEW n \in added PROVE n \in Converting(variant)!Owned(q)'
    <3>1. <<r, n>> \in temps' /\ <<r, n>>[1] = r /\ <<r, n>>[2] = n
      BY <2>3
    <3> QED BY <2>2, <3>1
  <2> QED BY <2>4, <2>5, <2>6
<1> QED BY <1>5, <1>6, <1>7

LEMMA WorkFileCounts ==
    /\ Converting(variant)!Cardinality({}) = 0
    /\ Converting(variant)!Cardinality({"source"}) = 1
    /\ Converting(variant)!Cardinality({"source", "preproc"}) = 2
<1>1. Cardinality({}) = 0 /\ IsFiniteSet({}) BY FS_EmptySet
<1>2. Cardinality({"source"}) = 1 /\ IsFiniteSet({"source"})
  BY FS_Singleton
<1>3. Cardinality({"source"} \cup {"preproc"}) = 2
  <2>1. "preproc" \notin {"source"} OBVIOUS
  <2>2. Cardinality({"source"} \cup {"preproc"}) = Cardinality({"source"}) + 1
    BY <1>2, <2>1, FS_AddElement
  <2> QED BY <1>2, <2>2
<1>4. {"source"} \cup {"preproc"} = {"source", "preproc"} OBVIOUS
<1>5. /\ Converting(variant)!Cardinality({}) = Cardinality({})
      /\ Converting(variant)!Cardinality({"source"}) = Cardinality({"source"})
      /\ Converting(variant)!Cardinality({"source", "preproc"}) = Cardinality({"source", "preproc"})
  BY DEF Converting!Cardinality, Cardinality
<1> QED BY <1>1, <1>2, <1>3, <1>4, <1>5

LEMMA CleanMakes ==
    ASSUME Converting(variant)!ConversionAssumption, CleanInv, NEW q \in Proc,
           Converting(variant)!MakeWorkFile(q)
    PROVE  CleanInv'
<1>1. /\ ConversionTypes /\ WorkFilesMade(q) /\ job[q].at = "make" /\ Busy(q)
      /\ UNCHANGED <<dir, lock, killed, runs>>
  BY DEF CleanInv, Converting!MakeWorkFile, Converting!At, Busy
<1>2. dir' \in [Converting(variant)!Names -> Files]
  BY <1>1 DEF ConversionTypes
<1> DEFINE own == Converting(variant)!Owned(q)
           made == Converting(variant)!Cardinality(own) + 1
<1>3. CASE job[q].tool # "int8"
  <2>1. own = {} /\ made = 1
    BY <1>1, <1>3, WorkFileCounts DEF WorkFilesMade
  <2>2. Converting(variant)!WorkFiles(job[q].tool) = <<"graph">>
    BY <1>3 DEF Converting!WorkFiles
  <2>3. Converting(variant)!Adds(q, {"graph"}) /\ Converting(variant)!Goes(q, "stage")
    <3> DEFINE files == Converting(variant)!WorkFiles(job[q].tool)
    <3>1. /\ Converting(variant)!Adds(q, {files[made]})
          /\ IF made < Len(files) THEN UNCHANGED job
             ELSE Converting(variant)!Goes(q, IF job[q].tool = "int8" THEN "convert" ELSE "stage")
      BY DEF Converting!MakeWorkFile
    <3> HIDE DEF files, made
    <3>2. files = <<"graph">> BY <2>2 DEF files
    <3>3. <<"graph">>[1] = "graph" /\ Len(<<"graph">>) = 1 OBVIOUS
    <3>4. Len(files) = 1 /\ files[made] = "graph" /\ ~(made < Len(files))
      BY <2>1, <3>2, <3>3
    <3> QED BY <1>3, <3>1, <3>4
  <2>4. {"graph"} \in SUBSET Converting(variant)!Removed
    BY DEF Converting!Removed
  <2>5. /\ temps' \subseteq (1 .. runs) \X Converting(variant)!Removed
        /\ \A t : t[1] # job[q].run => (t \in temps' <=> t \in temps)
    BY <1>1, <2>3, <2>4, AddedFiles
  <2> QED BY <1>1, <1>2, <2>3, <2>5, CleanGoes DEF Steps, Placing, Readings
<1>4. CASE job[q].tool = "int8"
  <2>1. Converting(variant)!WorkFiles(job[q].tool) = <<"source", "preproc", "graph">>
    BY <1>4 DEF Converting!WorkFiles
  <2> DEFINE added == <<"source", "preproc", "graph">>[made]
  <2>2. /\ Converting(variant)!Adds(q, {added})
        /\ IF made < 3 THEN UNCHANGED job ELSE Converting(variant)!Goes(q, "convert")
    <3> DEFINE files == Converting(variant)!WorkFiles(job[q].tool)
    <3>1. /\ Converting(variant)!Adds(q, {files[made]})
          /\ IF made < Len(files) THEN UNCHANGED job
             ELSE Converting(variant)!Goes(q, IF job[q].tool = "int8" THEN "convert" ELSE "stage")
      BY DEF Converting!MakeWorkFile
    <3> HIDE DEF files, made
    <3>2. files = <<"source", "preproc", "graph">> BY <2>1 DEF files
    <3>3. Len(<<"source", "preproc", "graph">>) = 3 OBVIOUS
    <3>4. Len(files) = 3 /\ files[made] = added BY <3>2, <3>3
    <3> QED BY <1>4, <3>1, <3>4
  <2>3. \/ own = {} /\ made = 1 /\ added = "source"
        \/ own = {"source"} /\ made = 2 /\ added = "preproc"
        \/ own = {"source", "preproc"} /\ made = 3 /\ added = "graph"
    <3>1. own \in {{}, {"source"}, {"source", "preproc"}}
      BY <1>1, <1>4 DEF WorkFilesMade
    <3>2. /\ <<"source", "preproc", "graph">>[1] = "source"
          /\ <<"source", "preproc", "graph">>[2] = "preproc"
          /\ <<"source", "preproc", "graph">>[3] = "graph"
      OBVIOUS
    <3> QED BY <3>1, <3>2, WorkFileCounts
  <2>4. {added} \in SUBSET Converting(variant)!Removed
    <3>1. added \in {"source", "preproc", "graph"} BY <2>3
    <3> HIDE DEF added
    <3> QED BY <3>1 DEF Converting!Removed
  <2> HIDE DEF added
  <2>5. /\ temps' \subseteq (1 .. runs) \X Converting(variant)!Removed
        /\ \A t : t[1] # job[q].run => (t \in temps' <=> t \in temps)
        /\ job'[q].run = job[q].run => Converting(variant)!Owned(q)' = own \cup {added}
    BY <1>1, <2>2, <2>4, AddedFiles
  <2>6. CASE made < 3
    <3>1. UNCHANGED job BY <2>2, <2>6
    <3>2. Converting(variant)!Goes(q, "make")
      <4>1. job \in [Proc -> Jobs \cup {Converting(variant)!Idle}] /\ job[q] \in Jobs
        BY <1>1, JobFacts DEF ConversionTypes
      <4>2. [job[q] EXCEPT !.at = "make"] = job[q]
        BY <1>1, <4>1 DEF Jobs
      <4>3. [job EXCEPT ![q] = job[q]] = job BY <4>1
      <4> QED BY <3>1, <4>2, <4>3 DEF Converting!Goes
    <3>3. Converting(variant)!Owned(q)' \in {{"source"}, {"source", "preproc"}}
      <4> HIDE DEF own, made
      <4>1. Converting(variant)!Owned(q)' = own \cup {added}
        BY <2>5, <3>1
      <4> QED BY <2>3, <2>6, <4>1
    <3>4. WorkFilesMade(q)'
      BY <1>1, <1>4, <3>1, <3>3 DEF WorkFilesMade, Readings
    <3> QED BY <1>1, <1>2, <2>5, <3>2, <3>4, CleanGoes DEF Steps, Placing, Readings
  <2>7. CASE ~(made < 3)
    <3>1. Converting(variant)!Goes(q, "convert") BY <2>2, <2>7
    <3>2. WorkFilesMade(q)'
      <4>1. PICK new \in Jobs : job' = [job EXCEPT ![q] = new] /\ new.at = "convert"
          /\ new.tool = "int8"
        BY <1>1, <1>4, <3>1, GoingJob DEF Steps
      <4>2. job'[q] = new BY <1>1, <4>1 DEF ConversionTypes
      <4> QED BY <4>1, <4>2 DEF WorkFilesMade, Readings
    <3> QED BY <1>1, <1>2, <2>5, <3>1, <3>2, CleanGoes DEF Steps, Placing, Readings
  <2> QED BY <2>6, <2>7
<1> QED BY <1>3, <1>4

LEMMA CleanConverts ==
    ASSUME Converting(variant)!ConversionAssumption, CleanInv, NEW q \in Proc,
           Converting(variant)!Convert(q)
    PROVE  CleanInv'
<1>1. /\ ConversionTypes /\ job[q].at = "convert" /\ Busy(q) /\ WorkFilesMade(q)
      /\ UNCHANGED <<dir, temps, lock, killed, runs>>
      /\ Converting(variant)!Goes(q, IF job[q].tool = "int8" THEN "stage" ELSE "make")
  BY DEF CleanInv, Converting!Convert, Converting!At, Busy
<1>2. /\ dir' \in [Converting(variant)!Names -> Files]
      /\ temps' \subseteq (1 .. runs) \X Converting(variant)!Removed
      /\ \A t : t[1] # job[q].run => (t \in temps' <=> t \in temps)
  BY <1>1 DEF ConversionTypes
<1>3. CASE job[q].tool = "int8"
  BY <1>1, <1>2, <1>3, CleanGoes DEF Steps, Placing, Readings
<1>4. CASE job[q].tool # "int8"
  <2>1. Converting(variant)!Goes(q, "make") BY <1>1, <1>4
  <2>2. PICK new \in Jobs : /\ job' = [job EXCEPT ![q] = new] /\ new.at = "make"
                            /\ new.tool = job[q].tool /\ new.run = job[q].run
    BY <1>1, <2>1, GoingJob DEF Steps
  <2>3. job'[q] = new BY <1>1, <2>2 DEF ConversionTypes
  <2>4. Converting(variant)!Owned(q)' = {}
    <3>1. Converting(variant)!Owned(q) = {}
      BY <1>1, <1>4 DEF WorkFilesMade
    <3> QED BY <1>1, <2>2, <2>3, <3>1 DEF Converting!Owned
  <2>5. WorkFilesMade(q)' BY <2>4 DEF WorkFilesMade
  <2> QED BY <1>1, <1>2, <2>1, <2>5, CleanGoes DEF Steps, Placing, Readings
<1> QED BY <1>3, <1>4

LEMMA CleanStages ==
    ASSUME Converting(variant)!ConversionAssumption, CleanInv, NEW q \in Proc,
           Converting(variant)!StageSidecar(q) \/ Converting(variant)!Lock(q)
             \/ Converting(variant)!Fails(q)
    PROVE  CleanInv'
<1>1. /\ ConversionTypes /\ Locked
      /\ UNCHANGED <<dir, killed, runs>> /\ dir' \in [Converting(variant)!Names -> Files]
  BY DEF CleanInv, Converting!StageSidecar, Converting!Lock, Converting!Fails, ConversionTypes
<1>2. CASE Converting(variant)!StageSidecar(q)
  <2> DEFINE added == IF Converting(variant)!HasText(q) THEN {"sidecar"} ELSE {}
  <2>1. /\ job[q].at = "stage" /\ Busy(q) /\ lock' = lock
        /\ Converting(variant)!Adds(q, added) /\ Converting(variant)!Goes(q, "lock")
    BY <1>2 DEF Converting!StageSidecar, Converting!At, Busy
  <2>2. added \in SUBSET Converting(variant)!Removed
    BY DEF Converting!Removed
  <2> HIDE DEF added
  <2>3. /\ temps' \subseteq (1 .. runs) \X Converting(variant)!Removed
        /\ \A t : t[1] # job[q].run => (t \in temps' <=> t \in temps)
    BY <1>1, <2>1, <2>2, AddedFiles
  <2> QED BY <1>1, <2>1, <2>3, CleanGoes DEF Steps, Placing, Readings
<1>3. CASE Converting(variant)!Lock(q)
  <2>1. /\ job[q].at = "lock" /\ Busy(q) /\ lock = Nothing /\ lock' = q /\ temps' = temps
        /\ Converting(variant)!Goes(q, "backup")
    BY <1>3 DEF Converting!Lock, Converting!At, Busy
  <2>2. /\ temps' \subseteq (1 .. runs) \X Converting(variant)!Removed
        /\ \A t : t[1] # job[q].run => (t \in temps' <=> t \in temps)
    BY <1>1, <2>1 DEF ConversionTypes
  <2> QED BY <1>1, <2>1, <2>2, CleanGoes DEF Steps, Placing, Readings
<1>4. CASE Converting(variant)!Fails(q)
  <2>1. /\ job[q].at # "finish" /\ Busy(q) /\ lock' = lock /\ temps' = temps
        /\ Converting(variant)!Goes(q, "finish")
    BY <1>4 DEF Converting!Fails, Busy
  <2>2. /\ temps' \subseteq (1 .. runs) \X Converting(variant)!Removed
        /\ \A t : t[1] # job[q].run => (t \in temps' <=> t \in temps)
    BY <1>1, <2>1 DEF ConversionTypes
  <2> QED BY <1>1, <2>1, <2>2, CleanGoes DEF Steps, Placing, Readings
<1> QED BY <1>2, <1>3, <1>4

LEMMA CleanLinks ==
    ASSUME Converting(variant)!ConversionAssumption, CleanInv, NEW q \in Proc,
           Converting(variant)!LinkBackups(q)
    PROVE  CleanInv'
<1> DEFINE old == Converting(variant)!Pair(job[q].out)
           added == {n \in {"old_graph", "old_sidecar"} :
                       (IF n = "old_graph" THEN old.graph ELSE old.sidecar) # Nothing}
           j == job[q]
           new == [j EXCEPT !.at = "swap_graph", !.old = old]
<1>1. /\ ConversionTypes /\ Locked /\ HasGraph(q) /\ job[q].at = "backup" /\ Busy(q)
      /\ UNCHANGED <<dir, lock, killed, runs>> /\ dir' \in [Converting(variant)!Names -> Files]
      /\ Converting(variant)!Adds(q, added)
      /\ job' = [job EXCEPT ![q] = new]
      /\ lock = q
  BY DEF CleanInv, Converting!LinkBackups, Converting!At, ConversionTypes, Busy, Locked
<1>2. added \in SUBSET Converting(variant)!Removed
  BY DEF Converting!Removed
<1>3. old \in Pairs BY <1>1, ReadFiles DEF Converting!Pair, Pairs
<1>4. j \in Jobs BY <1>1, JobFacts
<1> HIDE DEF old, added, j
<1>5. /\ new \in Jobs /\ new.run = j.run /\ new.tool = j.tool /\ new.at = "swap_graph"
      /\ new.input = j.input /\ new # Converting(variant)!Idle
  <2>1. "swap_graph" \in Steps BY DEF Steps, Placing
  <2>2. new.at = "swap_graph" /\ new \in Jobs /\ new.run = j.run /\ new.tool = j.tool
        /\ new.input = j.input
    BY <1>3, <1>4, <2>1 DEF Jobs
  <2> QED BY <2>2 DEF Converting!Idle
<1> HIDE DEF new
<1>6. job'[q] = new BY <1>1 DEF ConversionTypes
<1>7. HasGraph(q)' /\ WorkFilesMade(q)'
  BY <1>1, <1>5, <1>6 DEF HasGraph, WorkFilesMade, Readings, j
<1>8. /\ temps' \subseteq (1 .. runs) \X Converting(variant)!Removed
      /\ \A t : t[1] # job[q].run => (t \in temps' <=> t \in temps)
  BY <1>1, <1>2, AddedFiles
<1>9. killed \subseteq killed' /\ killed' \subseteq 1 .. runs
  BY <1>1 DEF ConversionTypes
<1> QED BY <1>1, <1>5, <1>7, <1>8, <1>9, CleanFrame DEF j

LEMMA CleanSwaps ==
    ASSUME Converting(variant)!ConversionAssumption, CleanInv, NEW q \in Proc,
           Converting(variant)!SwapGraph(q) \/ Converting(variant)!SwapSidecar(q)
    PROVE  CleanInv'
<1>1. /\ ConversionTypes /\ Locked /\ HasGraph(q) /\ Busy(q) /\ job[q].at \in Placing
      /\ UNCHANGED <<lock, killed, runs>> /\ lock = q
  BY DEF CleanInv, Converting!SwapGraph, Converting!SwapSidecar, Converting!At, Busy, Locked,
         Placing
<1>2. job[q].tool # "export" => job[q].input.graph # Nothing
  BY <1>1 DEF HasGraph, Placing
<1>3. /\ Converting(variant)!New(q, job[q].input.graph) \in Files
      /\ Converting(variant)!NewSidecar(q) \in Files
  BY <1>1, <1>2, NewPair
<1>4. dir' \in [Converting(variant)!Names -> Files]
  <2>1. dir \in [Converting(variant)!Names -> Files]
    BY <1>1 DEF ConversionTypes
  <2>2. CASE Converting(variant)!SwapGraph(q)
    BY <1>3, <2>1, <2>2 DEF Converting!SwapGraph
  <2>3. CASE Converting(variant)!SwapSidecar(q)
    BY <1>3, <2>1, <2>3 DEF Converting!SwapSidecar
  <2> QED BY <2>2, <2>3
<1>5. PICK n \in {"graph", "sidecar"}, to \in {"swap_sidecar", "finish"} :
         temps' = temps \ {<<job[q].run, n>>} /\ Converting(variant)!Goes(q, to)
  BY DEF Converting!SwapGraph, Converting!SwapSidecar
<1>6. /\ temps' \subseteq (1 .. runs) \X Converting(variant)!Removed
      /\ \A t : t[1] # job[q].run => (t \in temps' <=> t \in temps)
  <2>1. <<job[q].run, n>>[1] = job[q].run OBVIOUS
  <2> QED BY <1>1, <1>5, <2>1 DEF ConversionTypes
<1> QED BY <1>1, <1>4, <1>5, <1>6, CleanGoes DEF Steps, Placing, Readings

LEMMA CleanEnds ==
    ASSUME Converting(variant)!ConversionAssumption, CleanInv, NEW q \in Proc,
           Converting(variant)!Finish(q) \/ Converting(variant)!Kill(q)
    PROVE  CleanInv'
<1> DEFINE new == Converting(variant)!Idle
<1>1. /\ ConversionTypes /\ Locked /\ Busy(q) /\ UNCHANGED <<dir, runs>>
      /\ job' = [job EXCEPT ![q] = new]
      /\ lock' = IF lock = q THEN Nothing ELSE lock
  BY DEF CleanInv, Converting!Finish, Converting!Kill, Converting!At, Busy, Converting!Released
<1>2. dir' \in [Converting(variant)!Names -> Files]
  BY <1>1 DEF ConversionTypes
<1>3. new.at = "idle" BY DEF Converting!Idle
<1>4. job'[q] = new BY <1>1 DEF ConversionTypes
<1>5. HasGraph(q)' /\ WorkFilesMade(q)'
  BY <1>3, <1>4 DEF HasGraph, WorkFilesMade, Busy, Readings
<1>6. lock' \in {lock, q, Nothing} /\ lock' # q /\ (lock' # lock => lock \in {q, Nothing})
  <2>1. q # Nothing BY DEF Converting!ConversionAssumption
  <2> QED BY <1>1, <2>1
<1>7. temps \subseteq (1 .. runs) \X Converting(variant)!Removed /\ job[q].run \in 1 .. runs
  BY <1>1, ReadFiles DEF ConversionTypes
<1>8. /\ temps' \subseteq (1 .. runs) \X Converting(variant)!Removed
      /\ \A t : t[1] # job[q].run => (t \in temps' <=> t \in temps)
      /\ killed \subseteq killed' /\ killed' \subseteq 1 .. runs
      /\ job[q].run \in killed' \/ \A t \in temps' : t[1] # job[q].run
  <2>1. CASE Converting(variant)!Finish(q)
    <3>1. /\ temps' = temps \ {<<job[q].run, n>> : n \in Converting(variant)!Removed}
             /\ killed' = killed
      BY <2>1 DEF Converting!Finish
    <3>2. ASSUME NEW t \in temps, t[1] = job[q].run
          PROVE  t \in {<<job[q].run, n>> : n \in Converting(variant)!Removed}
      <4>1. t = <<job[q].run, t[2]>> /\ t[2] \in Converting(variant)!Removed
        BY <1>7, <3>2
      <4> QED BY <4>1
    <3>3. \A n \in Converting(variant)!Removed : <<job[q].run, n>>[1] = job[q].run
      OBVIOUS
    <3> QED BY <1>1, <1>7, <3>1, <3>2, <3>3 DEF ConversionTypes
  <2>2. CASE Converting(variant)!Kill(q)
    <3>1. temps' = temps /\ killed' = killed \cup {job[q].run}
      BY <2>2 DEF Converting!Kill
    <3> QED BY <1>1, <1>7, <3>1 DEF ConversionTypes
  <2> QED BY <2>1, <2>2
<1>9. new.at \notin {"backup"} \cup Placing BY <1>3 DEF Placing
<1> HIDE DEF new
<1>10. new = Converting(variant)!Idle BY DEF new
<1> QED BY <1>1, <1>2, <1>5, <1>6, <1>8, <1>9, <1>10, CleanFrame

LEMMA CleanUndoes ==
    ASSUME Converting(variant)!ConversionAssumption, CleanInv, NEW q \in Proc,
           Converting(variant)!Rollback(q)
    PROVE  CleanInv'
<1>1. /\ ConversionTypes /\ Locked /\ Busy(q) /\ job[q].at = "swap_sidecar"
      /\ UNCHANGED <<lock, killed, runs>>
      /\ dir' = [dir EXCEPT ![job[q].out] = job[q].old.graph]
      /\ temps' = temps \ {<<job[q].run, "old_graph">>, <<job[q].run, "old_sidecar">>}
  BY DEF CleanInv, Converting!Rollback, Converting!At, Busy
<1>2. \A r \in Proc :
         /\ Busy(r)' <=> Busy(r)
         /\ job'[r] \in Jobs \cup {Converting(variant)!Idle}
         /\ Busy(r) => /\ job'[r] \in Jobs /\ job'[r].run = job[r].run
                       /\ job'[r].tool = job[r].tool /\ job'[r].input = job[r].input
         /\ job'[r].at = IF r = q THEN "finish" ELSE job[r].at
  BY <1>1, RollbackJobs
<1>3. Jobs' = Jobs /\ Files' = Files BY <1>1 DEF Jobs, Pairs, Files
<1>4. job' = [r \in Proc |-> job'[r]]
  BY DEF Converting!Rollback, Converting!Unsettled
<1>5. dir' \in [Converting(variant)!Names -> Files]
  <2>1. job[q].old.graph \in Files BY <1>1, ReadFiles DEF Pairs
  <2> QED BY <1>1, <2>1 DEF ConversionTypes
<1>6. ConversionTypes'
  <2>1. job' \in [Proc -> Jobs' \cup {Converting(variant)!Idle}]
    BY <1>2, <1>3, <1>4
  <2>2. \A s, r \in Proc : Busy(s)' /\ Busy(r)' /\ job'[s].run = job'[r].run => s = r
    BY <1>1, <1>2 DEF ConversionTypes
  <2> QED BY <1>1, <1>3, <1>5, <2>1, <2>2 DEF ConversionTypes
<1>7. Locked'
  <2>1. \A r \in Proc : job'[r].at \in {"backup"} \cup Placing => lock' = r
    BY <1>1, <1>2 DEF Locked, Placing
  <2>2. lock' # Nothing => Busy(lock)'
    BY <1>1, <1>2 DEF Locked, ConversionTypes
  <2> QED BY <2>1, <2>2 DEF Locked
<1>8. Litter'
  <2>1. Converting(variant)!Running' = Converting(variant)!Running
    <3>1. Converting(variant)!Running = {job[r].run : r \in {t \in Proc : Busy(t)}}
      BY DEF Converting!Running, Busy
    <3>2. Converting(variant)!Running' = {job'[r].run : r \in {t \in Proc : Busy(t)'}}
      BY DEF Converting!Running, Busy
    <3> HIDE DEF Busy
    <3>3. {t \in Proc : Busy(t)'} = {t \in Proc : Busy(t)} BY <1>2
    <3>4. \A r \in {t \in Proc : Busy(t)} : job'[r].run = job[r].run
      BY <1>2
    <3> QED BY <3>1, <3>2, <3>3, <3>4
  <2> QED BY <1>1, <2>1 DEF CleanInv, Litter
<1>9. ASSUME NEW r \in Proc PROVE HasGraph(r)' /\ WorkFilesMade(r)'
  <2>1. CASE r = q
    <3>1. job'[r].at = "finish" BY <1>2, <2>1
    <3> QED BY <3>1 DEF HasGraph, WorkFilesMade, Readings
  <2>2. CASE r # q /\ Busy(r)
    <3>1. /\ job'[r].run = job[r].run /\ job'[r].tool = job[r].tool /\ job'[r].input = job[r].input
          /\ job'[r].at = job[r].at
      BY <1>2, <2>2
    <3>2. Converting(variant)!Owned(r)' = Converting(variant)!Owned(r)
      <4>1. job[r].run # job[q].run BY <1>1, <2>2 DEF ConversionTypes
      <4>2. \A t : t[1] = job[r].run => (t \in temps' <=> t \in temps)
        <5>1. /\ <<job[q].run, "old_graph">>[1] = job[q].run
              /\ <<job[q].run, "old_sidecar">>[1] = job[q].run
          OBVIOUS
        <5> QED BY <1>1, <4>1, <5>1
      <4> QED BY <3>1, <4>2 DEF Converting!Owned
    <3> QED BY <1>2, <3>1, <3>2 DEF CleanInv, HasGraph, WorkFilesMade, Readings
  <2>3. CASE r # q /\ ~Busy(r)
    <3>1. ~Busy(r)' /\ job'[r].at = "idle" BY <1>2, <2>3 DEF Busy
    <3> QED BY <3>1 DEF HasGraph, WorkFilesMade, Readings
  <2> QED BY <2>1, <2>2, <2>3
<1> QED BY <1>6, <1>7, <1>8, <1>9 DEF CleanInv

\* A command begins with a run of its own.
LEMMA StartedJob ==
    ASSUME Converting(variant)!ConversionAssumption, ConversionTypes, NEW q \in Proc,
           Converting(variant)!Start(q)
    PROVE  /\ UNCHANGED <<dir, temps, lock, killed>> /\ runs' = runs + 1 /\ ~Busy(q)
           /\ \E new \in Jobs' :
                 /\ job' = [job EXCEPT ![q] = new]
                 /\ new.run = runs + 1 /\ new.calm = FALSE
                 /\ new.at = IF new.tool = "export" THEN "make" ELSE "graph_id"
                 /\ new.found = Converting(variant)!NoPair /\ new.input = Converting(variant)!NoPair
                 /\ \E c \in Conversions[variant].commands :
                       /\ new.src = Conversions[variant].real[c.src]
                          /\ new.out = Conversions[variant].real[c.out] /\ new.tool = c.tool
                       /\ c.tool # "export" => Converting(variant)!Distinct(c.tool, c.src, c.out)
<1>1. /\ UNCHANGED <<dir, temps, lock, killed>> /\ runs' = runs + 1 /\ ~Busy(q) /\ runs \in Nat
  BY DEF Converting!Start, Busy, ConversionTypes
<1>2. PICK c \in Conversions[variant].commands :
         /\ c.tool # "export" => Converting(variant)!Distinct(c.tool, c.src, c.out)
         /\ job' = [job EXCEPT ![q] =
                     [at |-> IF c.tool = "export" THEN "make" ELSE "graph_id", tool |-> c.tool,
                      src |-> Conversions[variant].real[c.src],
                        out |-> Conversions[variant].real[c.out], run |-> runs + 1,
                      seen |-> Converting(variant)!NoPair, input |-> Converting(variant)!NoPair,
                      old |-> Converting(variant)!NoPair, found |-> Converting(variant)!NoPair,
                        calm |-> FALSE]]
  BY DEF Converting!Start
<1> DEFINE at == IF c.tool = "export" THEN "make" ELSE "graph_id"
           new == [at |-> at, tool |-> c.tool,
                   src |-> Conversions[variant].real[c.src],
                     out |-> Conversions[variant].real[c.out], run |-> runs + 1,
                   seen |-> Converting(variant)!NoPair, input |-> Converting(variant)!NoPair,
                   old |-> Converting(variant)!NoPair, found |-> Converting(variant)!NoPair,
                     calm |-> FALSE]
<1>3. Converting(variant)!NoPair \in Pairs'
  BY DEF Converting!NoPair, Pairs, Files
<1>4. runs + 1 \in 1 .. runs' BY <1>1
<1>5. /\ Conversions[variant].real[c.src] \in Converting(variant)!Path
         /\ Conversions[variant].real[c.out] \in Converting(variant)!Path
      /\ c.tool \in Converting(variant)!Tools /\ at \in Steps
  BY PathFacts DEF Steps
<1>6. /\ new \in Jobs' /\ new.run = runs + 1 /\ new.calm = FALSE /\ new.tool = c.tool
      /\ new.at = at /\ new.found = Converting(variant)!NoPair
         /\ new.input = Converting(variant)!NoPair
      /\ new.src = Conversions[variant].real[c.src] /\ new.out = Conversions[variant].real[c.out]
  <2> HIDE DEF at
  <2> QED BY <1>3, <1>4, <1>5 DEF Jobs, Steps, Readings, Placing, Converting!Tools, Converting!Path
<1>7. job' = [job EXCEPT ![q] = new] /\ at = IF new.tool = "export" THEN "make" ELSE "graph_id"
  <2> HIDE DEF at
  <2>1. job' = [job EXCEPT ![q] = new] BY <1>2 DEF at
  <2> QED BY <1>6, <2>1 DEF at
<1> HIDE DEF new
<1> QED BY <1>1, <1>2, <1>6, <1>7

LEMMA CleanStarts ==
    ASSUME Converting(variant)!ConversionAssumption, CleanInv, NEW q \in Proc,
           Converting(variant)!Start(q)
    PROVE  CleanInv'
<1>1. ConversionTypes BY DEF CleanInv
<1>2. UNCHANGED <<dir, temps, lock, killed>> /\ runs' = runs + 1 /\ ~Busy(q) /\ runs \in Nat
  BY <1>1, StartedJob DEF ConversionTypes
<1>3. PICK new \in Jobs' :
         /\ job' = [job EXCEPT ![q] = new] /\ new.run = runs + 1
         /\ new.at = IF new.tool = "export" THEN "make" ELSE "graph_id"
  BY <1>1, StartedJob
<1>4. Files \subseteq Files' /\ Jobs \subseteq Jobs' BY <1>2, FilesGrow
<1>5. /\ job'[q] = new /\ \A r \in Proc \ {q} : job'[r] = job[r]
      /\ job' \in [Proc -> Jobs' \cup {Converting(variant)!Idle}]
  BY <1>1, <1>3, <1>4 DEF ConversionTypes
<1>6. \A r \in Proc : Busy(r) => job[r].run \in 1 .. runs
  BY <1>1, ReadFiles
<1>7. temps \subseteq (1 .. runs) \X Converting(variant)!Removed
  BY <1>1 DEF ConversionTypes
<1>8. 1 .. runs \subseteq 1 .. runs' /\ runs + 1 \notin 1 .. runs
  BY <1>2
<1>9. ConversionTypes'
  <2>1. \A s, r \in Proc : Busy(s)' /\ Busy(r)' /\ job'[s].run = job'[r].run => s = r
    <3> SUFFICES ASSUME NEW s \in Proc, NEW r \in Proc, Busy(s)', Busy(r)',
                        job'[s].run = job'[r].run
                 PROVE  s = r
      OBVIOUS
    <3>1. CASE s # q /\ r # q
      BY <1>1, <1>5, <3>1 DEF ConversionTypes, Busy
    <3>2. CASE (s = q /\ r # q) \/ (s # q /\ r = q)
      <4>1. \A t \in Proc \ {q} : Busy(t)' => job'[t].run \in 1 .. runs
        BY <1>5, <1>6 DEF Busy
      <4> QED BY <1>3, <1>5, <1>8, <3>2, <4>1
    <3> QED BY <3>1, <3>2
  <2>2. dir' \in [Converting(variant)!Names -> Files']
    BY <1>1, <1>2, <1>4 DEF ConversionTypes
  <2>3. temps' \subseteq (1 .. runs') \X Converting(variant)!Removed
    BY <1>2, <1>7, <1>8
  <2>4. killed' \subseteq 1 .. runs' /\ runs' \in Nat /\ lock' \in Proc \cup {Nothing}
    BY <1>1, <1>2, <1>8 DEF ConversionTypes
  <2>5. Converting(variant)!Removed' = Converting(variant)!Removed
    BY DEF Converting!Removed
  <2> QED BY <1>5, <2>1, <2>2, <2>3, <2>4, <2>5 DEF ConversionTypes
<1>10. job'[q].at \in {"make", "graph_id"} /\ Busy(q)'
  BY <1>3, <1>5 DEF Busy
<1>11. Locked'
  <2>1. \A r \in Proc : job'[r].at \in {"backup"} \cup Placing => lock' = r
    BY <1>2, <1>5, <1>10 DEF CleanInv, Locked, Placing
  <2>2. lock' # Nothing => Busy(lock)'
    <3>1. lock' # Nothing => lock \in Proc /\ Busy(lock)
      BY <1>1, <1>2 DEF CleanInv, Locked, ConversionTypes
    <3> QED BY <1>2, <1>5, <1>10, <3>1 DEF Busy
  <2> QED BY <2>1, <2>2 DEF Locked
<1>12. Litter'
  <2> SUFFICES ASSUME NEW t \in temps PROVE t[1] \in Converting(variant)!Running' \cup killed
    BY <1>2 DEF Litter
  <2>1. CASE t[1] \in Converting(variant)!Running
    <3>1. PICK r \in Proc : job[r].at # "idle" /\ job[r].run = t[1]
      BY <2>1 DEF Converting!Running
    <3>2. job'[r].at # "idle" /\ job'[r].run = t[1]
      BY <1>2, <1>5, <3>1 DEF Busy
    <3> QED BY <3>2 DEF Converting!Running
  <2> QED BY <2>1 DEF CleanInv, Litter
<1>13. ASSUME NEW r \in Proc PROVE HasGraph(r)' /\ WorkFilesMade(r)'
  <2>1. CASE r = q
    <3>1. Converting(variant)!Owned(r)' = {}
      <4>1. \A t \in temps : t[1] # runs + 1 BY <1>7, <1>8
      <4> QED BY <1>2, <1>3, <1>5, <2>1, <4>1 DEF Converting!Owned
    <3>2. HasGraph(r)' BY <1>3, <1>5, <2>1 DEF HasGraph
    <3> QED BY <3>1, <3>2 DEF WorkFilesMade
  <2>2. CASE r # q
    <3>1. job'[r] = job[r] BY <1>5, <2>2
    <3>2. Converting(variant)!Owned(r)' = Converting(variant)!Owned(r)
      BY <1>2, <3>1 DEF Converting!Owned
    <3> QED BY <3>1, <3>2 DEF CleanInv, HasGraph, WorkFilesMade, Busy, Readings
  <2> QED BY <2>1, <2>2
<1> QED BY <1>9, <1>11, <1>12, <1>13 DEF CleanInv

LEMMA CleanStep ==
    ASSUME Converting(variant)!ConversionAssumption, CleanInv,
           [Converting(variant)!Next]_(Converting(variant)!vars)
    PROVE  CleanInv'
<1>1. CASE UNCHANGED Converting(variant)!vars
  <2>1. UNCHANGED <<dir, temps, lock, job, killed, runs>>
    BY <1>1 DEF Converting!vars
  <2>2. ConversionTypes'
    BY <2>1 DEF CleanInv, ConversionTypes, Files, Pairs, Jobs, Busy, Converting!Removed
  <2>3. Locked' /\ Litter'
    BY <2>1 DEF CleanInv, Locked, Litter, Busy, Converting!Running, Placing
  <2>4. \A q \in Proc : HasGraph(q)' /\ WorkFilesMade(q)'
    BY <2>1 DEF CleanInv, HasGraph, WorkFilesMade, Busy, Converting!Owned, Readings
  <2> QED BY <2>2, <2>3, <2>4 DEF CleanInv
<1>2. CASE Converting(variant)!Next
  <2>1. PICK q \in Proc : \/ Converting(variant)!Start(q) \/ Converting(variant)!Step(q)
                             \/ Converting(variant)!Rollback(q)
                          \/ Converting(variant)!Fails(q) \/ Converting(variant)!Kill(q)
    BY <1>2 DEF Converting!Next
  <2> QED
    BY <2>1, CleanReads, CleanMakes, CleanConverts, CleanStages, CleanLinks, CleanSwaps, CleanEnds,
       CleanUndoes, CleanStarts
       DEF Converting!Step, ReadStep
<1> QED BY <1>1, <1>2

LEMMA CleanInit ==
    ASSUME Converting(variant)!ConversionAssumption, Converting(variant)!Init
    PROVE  CleanInv
<1>1. /\ temps = {} /\ lock = Nothing /\ killed = {} /\ runs = 0
      /\ job = [q \in Proc |-> Converting(variant)!Idle]
      /\ dir \in [Converting(variant)!Names -> {Converting(variant)!File(0, <<>>), Nothing}]
  BY DEF Converting!Init
<1>2. \A q \in Proc : job[q] = Converting(variant)!Idle /\ ~Busy(q) /\ job[q].at = "idle"
  BY <1>1 DEF Busy, Converting!Idle
<1>3. {Converting(variant)!File(0, <<>>), Nothing} \subseteq Files
  <2>1. Converting(variant)!File(0, <<>>) = [run |-> 0, of |-> <<>>]
    BY DEF Converting!File
  <2>2. <<>> \in Seq(1 .. runs) /\ 0 \in 0 .. runs BY <1>1
  <2>3. [run |-> 0, of |-> <<>>] \in [run : 0 .. runs, of : Seq(1 .. runs)]
    BY <2>2
  <2> QED BY <2>1, <2>3 DEF Files
<1>4. ConversionTypes BY <1>1, <1>2, <1>3 DEF ConversionTypes
<1> QED BY <1>1, <1>2, <1>4 DEF CleanInv, Locked, Litter, HasGraph, WorkFilesMade, Placing, Readings

------------------------------
(* Conversion: the files of a run, and its source *)

FileOf(f, r) == f # Nothing /\ f.run = r
Swapped(q) == job[q].at \in {"swap_sidecar", "finish"}
Outputs(q) == {job[q].out, Converting(variant)!SidecarOf(job[q].out)}

\* The files of a run at work are its outputs, are there only after its first replacement, and
\* are in nobody's hands before it.
OwnFiles(q) ==
    /\ \A n \in Converting(variant)!Names : FileOf(dir[n], job[q].run)
       => n \in Outputs(q) /\ Swapped(q)
    /\ \A r \in Proc : job[r].at \in Placing /\ FileOf(job[r].old.graph, job[q].run) =>
                          job[r].out \in Outputs(q) /\ Swapped(q)
    /\ \A r \in Proc : Busy(r) /\ FileOf(job[r].found.graph, job[q].run) => Swapped(q)

\* The paths of a conversion were found distinct.
Apart(q) ==
    Busy(q) /\ job[q].tool # "export" =>
        /\ job[q].src \notin Outputs(q)
        /\ Converting(variant)!SidecarOf(job[q].src) \notin Outputs(q)

OwnInv == \A q \in Proc : (Busy(q) => OwnFiles(q)) /\ Apart(q)

LEMMA SixFirst ==
    ASSUME NEW U, NEW t1 \in U, NEW t2 \in U, NEW t3 \in U, NEW t4 \in U, NEW t5 \in U,
           NEW t6 \in U,
           NEW more \in Seq(U)
    PROVE  LET all == <<t1, t2, t3, t4, t5, t6>> \o more IN
           /\ {1, 2, 3, 5} \subseteq DOMAIN all
           /\ all[1] = t1 /\ all[2] = t2 /\ all[3] = t3 /\ all[5] = t5
<1> DEFINE six == <<t1, t2, t3, t4, t5, t6>>
           all == six \o more
<1>1. six \in Seq(U) /\ Len(six) = 6 /\ six[1] = t1 /\ six[2] = t2 /\ six[3] = t3 /\ six[5] = t5
  OBVIOUS
<1>2. Len(more) \in Nat OBVIOUS
<1> HIDE DEF six
<1>3. /\ all \in Seq(U) /\ Len(all) = 6 + Len(more)
      /\ \A j \in 1 .. 6 : all[j] = six[j]
  <2>1. all \in Seq(U) /\ Len(all) = Len(six) + Len(more)
    BY <1>1, ConcatProperties
  <2>2. \A j \in 1 .. Len(six) : all[j] = six[j]
    BY <1>1, <1>2, <2>1, ConcatProperties
  <2> QED BY <1>1, <2>1, <2>2
<1>4. {1, 2, 3, 5} \subseteq DOMAIN all BY <1>2, <1>3
<1>5. all[1] = t1 /\ all[2] = t2 /\ all[3] = t3 /\ all[5] = t5
  BY <1>1, <1>3
<1> QED BY <1>4, <1>5 DEF six

LEMMA DistinctPaths ==
    ASSUME NEW tool, NEW from, NEW to, Converting(variant)!Distinct(tool, from, to)
    PROVE  /\ Conversions[variant].real[from] \notin
                 {Conversions[variant].real[to],
                  Converting(variant)!SidecarOf(Conversions[variant].real[to])}
           /\ Converting(variant)!SidecarOf(Conversions[variant].real[from]) \notin
                 {Conversions[variant].real[to],
                  Converting(variant)!SidecarOf(Conversions[variant].real[to])}
<1> DEFINE t1 == Conversions[variant].real[from]
           t2 == Converting(variant)!SidecarOf(Conversions[variant].real[from])
           t3 == Conversions[variant].real[to]
           t4 == [Conversions[variant].real[to] EXCEPT !.ext = "onnx.tmp"]
           t5 == Converting(variant)!SidecarOf(Conversions[variant].real[to])
           t6 == [Conversions[variant].real[to] EXCEPT !.ext = "json.tmp"]
           g == [Conversions[variant].real[to] EXCEPT !.stem
                 = Append(Conversions[variant].real[to].stem, "preproc")]
           h == [Conversions[variant].real[to] EXCEPT !.stem
                 = Conversions[variant].real[to].stem \o <<"onnx", "source", "tmp">>]
           more == IF tool = "int8" THEN <<g, h>> ELSE <<>>
           all == <<t1, t2, t3, t4, t5, t6>> \o more
<1>1. \A j, k \in DOMAIN all : all[j] = all[k] => j = k
  BY DEF Converting!Distinct, Converting!Reserved
<1> DEFINE U == {t1, t2, t3, t4, t5, t6, g, h}
<1>2. t1 \in U /\ t2 \in U /\ t3 \in U /\ t4 \in U /\ t5 \in U /\ t6 \in U /\ g \in U /\ h \in U
  OBVIOUS
<1> HIDE DEF t1, t2, t3, t4, t5, t6, g, h, U
<1>3. more \in Seq(U) BY <1>2
<1> HIDE DEF more
<1>4. /\ {1, 2, 3, 5} \subseteq DOMAIN all
      /\ all[1] = t1 /\ all[2] = t2 /\ all[3] = t3 /\ all[5] = t5
  BY <1>2, <1>3, SixFirst
<1> HIDE DEF all
<1>5. t1 # t3 /\ t1 # t5 /\ t2 # t3 /\ t2 # t5
  <2>1. all[1] # all[3] /\ all[1] # all[5] /\ all[2] # all[3] /\ all[2] # all[5]
    BY <1>1, <1>4
  <2> QED BY <1>4, <2>1
<1> QED BY <1>5 DEF t1, t2, t3, t5

\* The steps of one process other than its first, and than undoing a publication.
LEMMA OwnFrame ==
    ASSUME Converting(variant)!ConversionAssumption, CleanInv, OwnInv, NEW q \in Proc, Busy(q),
           NEW new,
           new = Converting(variant)!Idle
               \/ (/\ new \in Jobs /\ new.run = job[q].run /\ new.tool = job[q].tool
                   /\ new.src = job[q].src /\ new.out = job[q].out
                   /\ Swapped(q) => new.at \in {"swap_sidecar", "finish"}
                   /\ new.at \in Placing => \/ job[q].at \in Placing /\ new.old = job[q].old
                                            \/ new.old.graph = dir[job[q].out]
                   /\ new.found = job[q].found \/ new.found.graph = dir[job[q].src]),
           job' = [job EXCEPT ![q] = new], runs' = runs,
           \A n \in Converting(variant)!Names :
               \/ dir'[n] = dir[n]
               \/ /\ dir'[n] # Nothing => dir'[n].run = job[q].run
                  /\ n \in Outputs(q) /\ new.at \in {"swap_sidecar", "finish"}
    PROVE  OwnInv'
<1>1. /\ ConversionTypes /\ job'[q] = new
      /\ \A r \in Proc \ {q} : job'[r] = job[r]
      /\ \A s, r \in Proc : Busy(s) /\ Busy(r) /\ job[s].run = job[r].run => s = r
  BY DEF CleanInv, ConversionTypes
<1>2. Converting(variant)!Idle.at = "idle" BY DEF Converting!Idle
<1>3. Busy(q)' <=> new # Converting(variant)!Idle
  BY <1>1, <1>2, JobFacts DEF Busy, Jobs, Steps, Readings, Placing
<1>4. ASSUME NEW s \in Proc, Busy(s)'
      PROVE  /\ Busy(s) /\ OwnFiles(s) /\ job'[s].run = job[s].run /\ job'[s].tool = job[s].tool
             /\ job'[s].src = job[s].src /\ job'[s].out = job[s].out
             /\ Outputs(s)' = Outputs(s)
             /\ Swapped(s) => Swapped(s)'
  <2>1. CASE s = q
    <3>1. /\ job'[s].run = job[s].run /\ job'[s].tool = job[s].tool
          /\ job'[s].src = job[s].src /\ job'[s].out = job[s].out
          /\ Swapped(s) => Swapped(s)'
      BY <1>1, <1>3, <1>4, <2>1 DEF Swapped
    <3> QED BY <2>1, <3>1 DEF OwnInv, Outputs
  <2>2. CASE s # q
    <3>1. job'[s] = job[s] BY <1>1, <2>2
    <3>2. Busy(s) BY <1>4, <3>1 DEF Busy
    <3> QED BY <3>1, <3>2 DEF OwnInv, Outputs, Swapped
  <2> QED BY <2>1, <2>2
<1>5. ASSUME NEW s \in Proc, Busy(s)'
      PROVE  OwnFiles(s)'
  <2> DEFINE r == job[s].run
  <2>1. job'[s].run = r BY <1>4, <1>5
  <2>2. ASSUME NEW n \in Converting(variant)!Names, FileOf(dir'[n], r)
        PROVE  n \in Outputs(s)' /\ Swapped(s)'
    <3>1. CASE dir'[n] = dir[n]
      BY <1>4, <1>5, <2>2, <3>1 DEF OwnFiles, FileOf
    <3>2. CASE dir'[n] # dir[n]
      <4>1. /\ dir'[n].run = job[q].run /\ n \in Outputs(q) /\ new.at \in {"swap_sidecar", "finish"}
        BY <2>2, <3>2 DEF FileOf
      <4>2. s = q BY <1>1, <1>4, <1>5, <2>2, <4>1 DEF FileOf
      <4> QED BY <1>1, <1>4, <1>5, <4>1, <4>2 DEF Swapped
    <3> QED BY <3>1, <3>2
  <2>3. ASSUME NEW t \in Proc, job'[t].at \in Placing, FileOf(job'[t].old.graph, r)
        PROVE  job'[t].out \in Outputs(s)' /\ Swapped(s)'
    <3>1. CASE job[t].at \in Placing /\ job'[t].old = job[t].old /\ job'[t].out = job[t].out
      BY <1>4, <1>5, <2>3, <3>1 DEF OwnFiles
    <3>2. CASE ~(job[t].at \in Placing /\ job'[t].old = job[t].old /\ job'[t].out = job[t].out)
      <4>1. t = q /\ new # Converting(variant)!Idle
        BY <1>1, <1>2, <2>3, <3>2 DEF Placing
      <4>2. job'[t].out = job[q].out /\ job'[t].old.graph = dir[job[q].out]
        BY <1>1, <2>3, <3>2, <4>1
      <4>3. job[q].out \in Converting(variant)!Names BY <1>1, ReadFiles
      <4> QED BY <1>4, <1>5, <2>3, <4>2, <4>3 DEF OwnFiles
    <3> QED BY <3>1, <3>2
  <2>4. ASSUME NEW t \in Proc, Busy(t)', FileOf(job'[t].found.graph, r)
        PROVE  Swapped(s)'
    <3>1. Busy(t) BY <1>4, <2>4
    <3>2. CASE job'[t].found = job[t].found
      BY <1>4, <1>5, <2>4, <3>1, <3>2 DEF OwnFiles
    <3>3. CASE job'[t].found # job[t].found
      <4>1. t = q /\ new # Converting(variant)!Idle
        BY <1>1, <1>3, <2>4, <3>3
      <4>2. job'[t].found.graph = dir[job[q].src] BY <1>1, <3>3, <4>1
      <4>3. job[q].src \in Converting(variant)!Names
        BY <1>1, ReadFiles, PathFacts
      <4> QED BY <1>4, <1>5, <2>4, <4>2, <4>3 DEF OwnFiles
    <3> QED BY <3>2, <3>3
  <2> QED BY <2>1, <2>2, <2>3, <2>4 DEF OwnFiles, FileOf, Placing
<1>6. ASSUME NEW s \in Proc PROVE Apart(s)' BY <1>4 DEF OwnInv, Apart
<1> QED BY <1>5, <1>6 DEF OwnInv

LEMMA OwnUndoes ==
    ASSUME Converting(variant)!ConversionAssumption, CleanInv, OwnInv, NEW q \in Proc,
           Converting(variant)!Rollback(q)
    PROVE  OwnInv'
<1>1. /\ ConversionTypes /\ Busy(q) /\ job[q].at = "swap_sidecar"
      /\ dir' = [dir EXCEPT ![job[q].out] = job[q].old.graph]
  BY DEF CleanInv, Converting!Rollback, Converting!At, Busy
<1>2. \A s \in Proc :
         /\ Busy(s)' <=> Busy(s)
         /\ Busy(s) => /\ job'[s].run = job[s].run /\ job'[s].tool = job[s].tool
                       /\ job'[s].src = job[s].src /\ job'[s].out = job[s].out
                       /\ job'[s].old = job[s].old /\ job'[s].found = job[s].found
         /\ job'[s].at = IF s = q THEN "finish" ELSE job[s].at
  BY <1>1, RollbackJobs
<1>3. ASSUME NEW s \in Proc, Busy(s)' PROVE OwnFiles(s)'
  <2> DEFINE r == job[s].run
  <2>1. /\ Busy(s) /\ OwnFiles(s) /\ job'[s].run = r /\ Outputs(s)' = Outputs(s)
        /\ Swapped(s) => Swapped(s)'
    BY <1>2, <1>3 DEF OwnInv, Outputs, Swapped
  <2>2. ASSUME NEW n \in Converting(variant)!Names, FileOf(dir'[n], r)
        PROVE  n \in Outputs(s)' /\ Swapped(s)'
    <3>1. CASE n # job[q].out
      <4>1. dir'[n] = dir[n] BY <1>1, <3>1 DEF ConversionTypes
      <4> QED BY <2>1, <2>2, <4>1 DEF OwnFiles
    <3>2. CASE n = job[q].out
      <4>1. dir'[n] = job[q].old.graph BY <1>1, <3>2 DEF ConversionTypes
      <4> QED BY <1>1, <2>1, <2>2, <3>2, <4>1 DEF OwnFiles, Placing
    <3> QED BY <3>1, <3>2
  <2>3. ASSUME NEW t \in Proc, job'[t].at \in Placing, FileOf(job'[t].old.graph, r)
        PROVE  job'[t].out \in Outputs(s)' /\ Swapped(s)'
    <3>1. t # q /\ job[t].at \in Placing /\ Busy(t)
      BY <1>2, <2>3 DEF Placing, Busy
    <3> QED BY <1>2, <2>1, <2>3, <3>1 DEF OwnFiles
  <2>4. ASSUME NEW t \in Proc, Busy(t)', FileOf(job'[t].found.graph, r)
        PROVE  Swapped(s)'
    BY <1>2, <2>1, <2>4 DEF OwnFiles
  <2> QED BY <2>1, <2>2, <2>3, <2>4 DEF OwnFiles, FileOf, Placing
<1>4. ASSUME NEW s \in Proc PROVE Apart(s)'
  BY <1>2 DEF OwnInv, Apart, Outputs
<1> QED BY <1>3, <1>4 DEF OwnInv

LEMMA OwnStarts ==
    ASSUME Converting(variant)!ConversionAssumption, CleanInv, OwnInv, NEW q \in Proc,
           Converting(variant)!Start(q)
    PROVE  OwnInv'
<1>1. ConversionTypes BY DEF CleanInv
<1>2. UNCHANGED <<dir, temps, lock, killed>> /\ runs' = runs + 1 /\ ~Busy(q) /\ runs \in Nat
  BY <1>1, StartedJob DEF ConversionTypes
<1>3. PICK new \in Jobs' :
         /\ job' = [job EXCEPT ![q] = new]
         /\ new.run = runs + 1
         /\ new.at = IF new.tool = "export" THEN "make" ELSE "graph_id"
         /\ new.found = Converting(variant)!NoPair
         /\ \E c \in Conversions[variant].commands :
               /\ new.src = Conversions[variant].real[c.src]
                  /\ new.out = Conversions[variant].real[c.out] /\ new.tool = c.tool
               /\ c.tool # "export" => Converting(variant)!Distinct(c.tool, c.src, c.out)
  BY <1>1, StartedJob
<1>4. /\ job'[q] = new /\ \A r \in Proc \ {q} : job'[r] = job[r]
  BY <1>1, <1>3 DEF ConversionTypes
<1>5. new.found.graph = Nothing /\ new.at \notin Placing
  BY <1>3 DEF Converting!NoPair, Placing
<1>6. \A f \in Files : ~FileOf(f, runs + 1) BY <1>2 DEF Files, FileOf
<1>7. OwnFiles(q)'
  <2>1. \A n \in Converting(variant)!Names : ~FileOf(dir[n], runs + 1)
    BY <1>1, <1>6 DEF ConversionTypes
  <2>2. ASSUME NEW r \in Proc, job'[r].at \in Placing PROVE ~FileOf(job'[r].old.graph, runs + 1)
    <3>1. r # q /\ job'[r] = job[r] BY <1>4, <1>5, <2>2
    <3>2. job[r].old.graph \in Files
      BY <1>1, <2>2, <3>1, ReadFiles DEF Busy, Placing, Pairs
    <3> QED BY <1>6, <3>1, <3>2
  <2>3. ASSUME NEW r \in Proc, Busy(r)' PROVE ~FileOf(job'[r].found.graph, runs + 1)
    <3>1. CASE r = q BY <1>4, <1>5, <3>1 DEF FileOf
    <3>2. CASE r # q
      <4>1. job'[r] = job[r] /\ Busy(r) BY <1>4, <2>3, <3>2 DEF Busy
      <4>2. job[r].found.graph \in Files
        BY <1>1, <4>1, ReadFiles DEF Pairs
      <4> QED BY <1>6, <4>1, <4>2
    <3> QED BY <3>1, <3>2
  <2> QED BY <1>2, <1>3, <1>4, <2>1, <2>2, <2>3 DEF OwnFiles, FileOf, Placing
<1>8. ASSUME NEW s \in Proc, s # q, Busy(s)' PROVE OwnFiles(s)'
  <2>1. /\ job'[s] = job[s] /\ Busy(s) /\ OwnFiles(s) /\ Outputs(s)' = Outputs(s)
        /\ Swapped(s)' = Swapped(s)
    BY <1>4, <1>8 DEF OwnInv, Busy, Outputs, Swapped
  <2>2. ASSUME NEW r \in Proc, job'[r].at \in Placing PROVE r # q /\ job'[r] = job[r]
    BY <1>4, <1>5, <2>2
  <2>3. ASSUME NEW r \in Proc, Busy(r)', FileOf(job'[r].found.graph, job[s].run)
        PROVE  job'[r] = job[r] /\ Busy(r)
    BY <1>4, <1>5, <2>3 DEF FileOf, Busy
  <2> QED BY <1>2, <2>1, <2>2, <2>3 DEF OwnFiles, FileOf, Placing
<1>9. ASSUME NEW s \in Proc PROVE Apart(s)'
  <2>1. CASE s # q
    <3>1. job'[s] = job[s] BY <1>4, <2>1
    <3> QED BY <3>1 DEF OwnInv, Apart, Outputs, Busy
  <2>2. CASE s = q BY <1>3, <1>4, <2>2, DistinctPaths DEF Apart, Outputs
  <2> QED BY <2>1, <2>2
<1> QED BY <1>7, <1>8, <1>9 DEF OwnInv

\* What each of the reading steps leaves in the job.
LEMMA ReadingDetail ==
    ASSUME Converting(variant)!ConversionAssumption, ConversionTypes, NEW q \in Proc, ReadStep(q)
    PROVE  /\ job'[q].tool = job[q].tool /\ job'[q].run = job[q].run
           /\ job'[q].src = job[q].src /\ job'[q].out = job[q].out /\ job'[q].old = job[q].old
           /\ Converting(variant)!IdentifyGraph(q) =>
                 /\ job[q].at = "graph_id" /\ job'[q].at = "sidecar_id"
                 /\ job'[q].seen.graph = dir[job[q].src] /\ job'[q].input = job[q].input
                 /\ job'[q].found = Converting(variant)!Pair(job[q].src)
                 /\ job'[q].calm = ~Converting(variant)!Publishing(job[q].src)
           /\ ~Converting(variant)!IdentifyGraph(q) => /\ job'[q].found = job[q].found
                                              /\ job'[q].calm = job[q].calm
                                              /\ job'[q].seen.graph = job[q].seen.graph
           /\ Converting(variant)!IdentifySidecar(q) =>
                 /\ job[q].at = "sidecar_id" /\ job'[q].at = "read_graph"
                 /\ job'[q].seen.sidecar = dir[Converting(variant)!SidecarOf(job[q].src)]
                 /\ job'[q].input = job[q].input
           /\ Converting(variant)!ReadGraph(q) =>
                 /\ job[q].at = "read_graph" /\ job'[q].seen = job[q].seen
                 /\ job'[q].input.graph = dir[job[q].src]
                 /\ job'[q].input.sidecar = job[q].input.sidecar
                 /\ job'[q].at = IF dir[job[q].src] = Nothing THEN "finish"
                                 ELSE IF job[q].seen.sidecar = Nothing THEN "graph_again"
                                 ELSE "read_sidecar"
           /\ Converting(variant)!ReadSidecar(q) =>
                 /\ job[q].at = "read_sidecar" /\ job'[q].seen = job[q].seen
                 /\ job'[q].input.graph = job[q].input.graph
                 /\ job'[q].input.sidecar = dir[Converting(variant)!SidecarOf(job[q].src)]
                 /\ job'[q].at \in {"finish", "graph_again"}
           /\ Converting(variant)!RecheckGraph(q) =>
                 /\ job[q].at = "graph_again" /\ job'[q].seen = job[q].seen
                 /\ job'[q].input = job[q].input
                 /\ job'[q].at \in {"finish", "sidecar_again"}
                 /\ job'[q].at = "sidecar_again" => job[q].seen.graph = dir[job[q].src]
           /\ Converting(variant)!RecheckSidecar(q) =>
                 /\ job[q].at = "sidecar_again" /\ job'[q].seen = job[q].seen
                 /\ job'[q].input = job[q].input
                 /\ job'[q].at \in {"finish", "make", "convert"}
<1>1. job \in [Proc -> Jobs \cup {Converting(variant)!Idle}] /\ Busy(q) /\ job[q] \in Jobs
  BY ReadingJob, JobFacts DEF ConversionTypes
<1> DEFINE j == job[q]
           graph == dir[j.src]
           text == dir[Converting(variant)!SidecarOf(j.src)]
<1>2. j \in Jobs /\ j.input \in Pairs /\ j.seen \in Pairs
  BY <1>1 DEF Jobs
<1>3. CASE Converting(variant)!IdentifyGraph(q)
  <2> DEFINE seen == [j.seen EXCEPT !.graph = graph]
             calm == ~Converting(variant)!Publishing(j.src)
             found == Converting(variant)!Pair(j.src)
             new == [j EXCEPT !.at = "sidecar_id", !.seen = seen, !.found = found, !.calm = calm]
  <2>1. job' = [job EXCEPT ![q] = new] /\ j.at = "graph_id"
    BY <1>3, ZenonT(60) DEF Converting!IdentifyGraph, Converting!At
  <2>2. seen.graph = graph BY <1>2 DEF Pairs
  <2> HIDE DEF seen, calm, found, j, graph
  <2>3. /\ new.tool = j.tool /\ new.run = j.run /\ new.src = j.src /\ new.out = j.out
        /\ new.old = j.old /\ new.at = "sidecar_id" /\ new.seen = seen /\ new.input = j.input
        /\ new.found = found /\ new.calm = calm
    BY <1>2 DEF Jobs
  <2> HIDE DEF new
  <2>4. job'[q] = new BY <1>1, <2>1
  <2> QED
    BY <1>3, <2>1, <2>2, <2>3, <2>4
       DEF j, graph, calm, found, Converting!IdentifySidecar, Converting!ReadGraph,
           Converting!ReadSidecar, Converting!RecheckGraph, Converting!RecheckSidecar, Converting!At
<1>4. CASE Converting(variant)!IdentifySidecar(q)
  <2> DEFINE seen == [j.seen EXCEPT !.sidecar = text]
             new == [j EXCEPT !.at = "read_graph", !.seen = seen]
  <2>1. job' = [job EXCEPT ![q] = new] /\ j.at = "sidecar_id"
    BY <1>4 DEF Converting!IdentifySidecar, Converting!At
  <2>2. seen.sidecar = text /\ seen.graph = j.seen.graph
    BY <1>2 DEF Pairs
  <2> HIDE DEF seen, j, text
  <2>3. /\ new.tool = j.tool /\ new.run = j.run /\ new.src = j.src /\ new.out = j.out
        /\ new.old = j.old /\ new.at = "read_graph" /\ new.seen = seen /\ new.input = j.input
        /\ new.found = j.found /\ new.calm = j.calm
    BY <1>2 DEF Jobs
  <2> HIDE DEF new
  <2>4. job'[q] = new BY <1>1, <2>1
  <2> QED
    BY <1>4, <2>1, <2>2, <2>3, <2>4
       DEF j, text, Converting!IdentifyGraph, Converting!ReadGraph,
           Converting!ReadSidecar, Converting!RecheckGraph, Converting!RecheckSidecar, Converting!At
<1>5. CASE Converting(variant)!ReadGraph(q)
  <2> DEFINE input == [j.input EXCEPT !.graph = graph]
             at == IF graph = Nothing THEN "finish"
                   ELSE IF j.seen.sidecar = Nothing THEN "graph_again" ELSE "read_sidecar"
             new == [j EXCEPT !.at = at, !.input = input]
  <2>1. job' = [job EXCEPT ![q] = new] /\ j.at = "read_graph"
    BY <1>5, ZenonT(60) DEF Converting!ReadGraph, Converting!At
  <2>2. input.graph = graph /\ input.sidecar = j.input.sidecar
    BY <1>2 DEF Pairs
  <2> HIDE DEF input, at, j, graph
  <2>3. /\ new.tool = j.tool /\ new.run = j.run /\ new.src = j.src /\ new.out = j.out
        /\ new.old = j.old /\ new.at = at /\ new.seen = j.seen /\ new.input = input
        /\ new.found = j.found /\ new.calm = j.calm
    BY <1>2 DEF Jobs
  <2> HIDE DEF new
  <2>4. job'[q] = new BY <1>1, <2>1
  <2> QED
    BY <1>5, <2>1, <2>2, <2>3, <2>4
       DEF j, graph, at, Converting!IdentifyGraph, Converting!IdentifySidecar,
           Converting!ReadSidecar, Converting!RecheckGraph, Converting!RecheckSidecar, Converting!At
<1>6. CASE Converting(variant)!ReadSidecar(q)
  <2> DEFINE input == [j.input EXCEPT !.sidecar = text]
             at == IF text = Nothing THEN "finish" ELSE "graph_again"
             new == [j EXCEPT !.at = at, !.input = input]
  <2>1. job' = [job EXCEPT ![q] = new] /\ j.at = "read_sidecar" /\ at \in {"finish", "graph_again"}
    BY <1>6, ZenonT(60) DEF Converting!ReadSidecar, Converting!At
  <2>2. input.graph = j.input.graph /\ input.sidecar = text
    BY <1>2 DEF Pairs
  <2> HIDE DEF input, at, j, text
  <2>3. /\ new.tool = j.tool /\ new.run = j.run /\ new.src = j.src /\ new.out = j.out
        /\ new.old = j.old /\ new.at = at /\ new.seen = j.seen /\ new.input = input
        /\ new.found = j.found /\ new.calm = j.calm
    BY <1>2 DEF Jobs
  <2> HIDE DEF new
  <2>4. job'[q] = new BY <1>1, <2>1
  <2> QED
    BY <1>6, <2>1, <2>2, <2>3, <2>4
       DEF j, text, Converting!IdentifyGraph, Converting!IdentifySidecar,
           Converting!ReadGraph, Converting!RecheckGraph, Converting!RecheckSidecar, Converting!At
<1>7. CASE Converting(variant)!RecheckGraph(q) \/ Converting(variant)!RecheckSidecar(q)
  <2>1. PICK to : /\ Converting(variant)!Goes(q, to)
                  /\ Converting(variant)!RecheckGraph(q) =>
                        /\ j.at = "graph_again" /\ to \in {"finish", "sidecar_again"}
                        /\ to = "sidecar_again" => j.seen.graph = graph
                  /\ Converting(variant)!RecheckSidecar(q) =>
                        j.at = "sidecar_again" /\ to \in {"finish", "make", "convert"}
    <3>1. CASE Converting(variant)!RecheckGraph(q)
      <4>1. j.at = "graph_again" /\ ~Converting(variant)!RecheckSidecar(q)
        BY <3>1 DEF Converting!RecheckGraph, Converting!RecheckSidecar, Converting!At
      <4> QED BY <3>1, <4>1 DEF Converting!RecheckGraph, Converting!SameIdentity
    <3>2. CASE Converting(variant)!RecheckSidecar(q)
      <4>1. j.at = "sidecar_again" /\ ~Converting(variant)!RecheckGraph(q)
        BY <3>2 DEF Converting!RecheckGraph, Converting!RecheckSidecar, Converting!At
      <4> QED BY <3>2, <4>1 DEF Converting!RecheckSidecar
    <3> QED BY <1>7, <3>1, <3>2
  <2> DEFINE new == [j EXCEPT !.at = to]
  <2>2. job' = [job EXCEPT ![q] = new] BY <2>1 DEF Converting!Goes
  <2> HIDE DEF j
  <2>3. /\ new.tool = j.tool /\ new.run = j.run /\ new.src = j.src /\ new.out = j.out
        /\ new.old = j.old /\ new.at = to /\ new.seen = j.seen /\ new.input = j.input
        /\ new.found = j.found /\ new.calm = j.calm
    BY <1>2 DEF Jobs
  <2> HIDE DEF new
  <2>4. job'[q] = new BY <1>1, <2>2
  <2>5. /\ ~Converting(variant)!IdentifyGraph(q) /\ ~Converting(variant)!IdentifySidecar(q)
           /\ ~Converting(variant)!ReadGraph(q)
        /\ ~Converting(variant)!ReadSidecar(q)
    BY <1>7, <2>1 DEF j, Converting!IdentifyGraph, Converting!IdentifySidecar, Converting!ReadGraph,
                      Converting!ReadSidecar, Converting!At
  <2> QED BY <2>1, <2>3, <2>4, <2>5 DEF j
<1> QED BY <1>3, <1>4, <1>5, <1>6, <1>7 DEF ReadStep

LEMMA OwnReads ==
    ASSUME Converting(variant)!ConversionAssumption, CleanInv, OwnInv, NEW q \in Proc, ReadStep(q)
    PROVE  OwnInv'
<1>1. /\ ConversionTypes /\ Busy(q) /\ UNCHANGED <<dir, runs>>
      /\ job[q].at \in {"graph_id"} \cup Readings
  BY ReadingJob DEF CleanInv
<1>2. PICK new \in Jobs :
         /\ job' = [job EXCEPT ![q] = new]
         /\ new.run = job[q].run /\ new.tool = job[q].tool
         /\ new.src = job[q].src /\ new.out = job[q].out
         /\ new.at \in Readings \cup {"finish"}
               \/ (new.at = (IF job[q].tool = "int8" THEN "make" ELSE "convert")
                   /\ job[q].at = "sidecar_again")
  BY <1>1, ReadingJob
<1>3. job'[q] = new BY <1>1, <1>2 DEF ConversionTypes
<1>4. new.found = job[q].found \/ new.found.graph = dir[job[q].src]
  <2>1. CASE Converting(variant)!IdentifyGraph(q)
    <3>1. job'[q].found = Converting(variant)!Pair(job[q].src)
      BY <1>1, <2>1, ReadingDetail
    <3>2. Converting(variant)!Pair(job[q].src).graph = dir[job[q].src]
      BY DEF Converting!Pair
    <3> QED BY <1>3, <3>1, <3>2
  <2>2. CASE ~Converting(variant)!IdentifyGraph(q)
    <3>1. job'[q].found = job[q].found BY <1>1, <2>2, ReadingDetail
    <3> QED BY <1>3, <3>1
  <2> QED BY <2>1, <2>2
<1>5. ~Swapped(q) /\ new.at \notin Placing
  BY <1>1, <1>2 DEF Swapped, Readings, Placing
<1> QED BY <1>1, <1>2, <1>4, <1>5, OwnFrame

LEMMA OwnGoes ==
    ASSUME Converting(variant)!ConversionAssumption, CleanInv, OwnInv, NEW q \in Proc, Busy(q),
           NEW to \in Steps,
           Converting(variant)!Goes(q, to), runs' = runs,
           Swapped(q) => to \in {"swap_sidecar", "finish"},
           to \in Placing => job[q].at \in Placing,
           \A n \in Converting(variant)!Names :
               \/ dir'[n] = dir[n]
               \/ /\ dir'[n] # Nothing => dir'[n].run = job[q].run
                  /\ n \in Outputs(q) /\ to \in {"swap_sidecar", "finish"}
    PROVE  OwnInv'
<1>1. PICK new \in Jobs :
         /\ job' = [job EXCEPT ![q] = new]
         /\ new.at = to /\ new.run = job[q].run /\ new.tool = job[q].tool
         /\ new.src = job[q].src /\ new.out = job[q].out
         /\ new.old = job[q].old /\ new.found = job[q].found
  BY GoingJob DEF CleanInv
<1> QED BY <1>1, OwnFrame

LEMMA OwnStep ==
    ASSUME Converting(variant)!ConversionAssumption, CleanInv, OwnInv,
           [Converting(variant)!Next]_(Converting(variant)!vars)
    PROVE  OwnInv'
<1>1. CASE UNCHANGED Converting(variant)!vars
  <2>1. UNCHANGED <<dir, job>> BY <1>1 DEF Converting!vars
  <2> QED BY <2>1 DEF OwnInv, OwnFiles, Apart, Outputs, Swapped, Busy, FileOf, Placing
<1>2. ASSUME NEW q \in Proc, Converting(variant)!MakeWorkFile(q) PROVE OwnInv'
  <2>1. /\ Busy(q) /\ job[q].at = "make" /\ UNCHANGED <<dir, runs>> /\ ~Swapped(q)
    BY <1>2 DEF Converting!MakeWorkFile, Converting!At, Busy, Swapped
  <2>2. CASE UNCHANGED job
    BY <2>1, <2>2 DEF OwnInv, OwnFiles, Apart, Outputs, Swapped, Busy, FileOf, Placing
  <2>3. CASE ~UNCHANGED job
    <3>1. PICK to \in {"convert", "stage"} : Converting(variant)!Goes(q, to)
      BY <1>2, <2>3 DEF Converting!MakeWorkFile
    <3> QED BY <2>1, <3>1, OwnGoes DEF Steps, Placing
  <2> QED BY <2>2, <2>3
<1>3. ASSUME NEW q \in Proc,
             \/ Converting(variant)!Convert(q) \/ Converting(variant)!StageSidecar(q)
                \/ Converting(variant)!Lock(q)
             \/ Converting(variant)!Fails(q)
      PROVE  OwnInv'
  <2>1. /\ Busy(q) /\ UNCHANGED <<dir, runs>>
        /\ \E to \in {"make", "stage", "lock", "backup", "finish"} :
              /\ Converting(variant)!Goes(q, to)
              /\ Swapped(q) => to \in {"swap_sidecar", "finish"}
    BY <1>3 DEF Converting!Convert, Converting!StageSidecar, Converting!Lock, Converting!Fails,
                Converting!At, Busy, Swapped
  <2> QED BY <2>1, OwnGoes DEF Steps, Placing
<1>4. ASSUME NEW q \in Proc, Converting(variant)!LinkBackups(q) PROVE OwnInv'
  <2> DEFINE old == Converting(variant)!Pair(job[q].out)
             j == job[q]
             new == [j EXCEPT !.at = "swap_graph", !.old = old]
  <2>1. /\ ConversionTypes /\ Busy(q) /\ j.at = "backup" /\ UNCHANGED <<dir, runs>>
        /\ job' = [job EXCEPT ![q] = new]
    BY <1>4 DEF CleanInv, Converting!LinkBackups, Converting!At, Busy
  <2>2. old \in Pairs /\ old.graph = dir[job[q].out]
    BY <2>1, ReadFiles DEF Converting!Pair, Pairs
  <2>3. j \in Jobs BY <2>1, JobFacts
  <2>4. ~Swapped(q) BY <2>1 DEF Swapped
  <2> HIDE DEF old, j
  <2>5. /\ new \in Jobs /\ new.run = j.run /\ new.tool = j.tool /\ new.at = "swap_graph"
        /\ new.src = j.src /\ new.out = j.out /\ new.found = j.found /\ new.old = old
    <3>1. "swap_graph" \in Steps BY DEF Steps, Placing
    <3> QED BY <2>2, <2>3, <3>1 DEF Jobs
  <2> HIDE DEF new
  <2> QED BY <2>1, <2>2, <2>4, <2>5, OwnFrame DEF j
<1>5. ASSUME NEW q \in Proc, Converting(variant)!SwapGraph(q) \/ Converting(variant)!SwapSidecar(q)
    PROVE OwnInv'
  <2>1. /\ ConversionTypes /\ HasGraph(q) /\ Busy(q) /\ job[q].at \in Placing /\ runs' = runs
        /\ dir \in [Converting(variant)!Names -> Files]
    BY <1>5 DEF CleanInv, ConversionTypes, Converting!SwapGraph, Converting!SwapSidecar,
                Converting!At,
                Busy, Placing
  <2>2. job[q].tool # "export" => job[q].input.graph # Nothing
    BY <2>1 DEF HasGraph, Placing
  <2>3. /\ Converting(variant)!New(q, job[q].input.graph).run = job[q].run
        /\ Converting(variant)!NewSidecar(q) # Nothing
           => Converting(variant)!NewSidecar(q).run = job[q].run
    BY <2>1, <2>2, NewPair
  <2>4. CASE Converting(variant)!SwapGraph(q)
    <3>1. /\ dir' = [dir EXCEPT ![job[q].out] = Converting(variant)!New(q, job[q].input.graph)]
          /\ Converting(variant)!Goes(q, "swap_sidecar")
      BY <2>4 DEF Converting!SwapGraph
    <3>2. \A n \in Converting(variant)!Names :
             \/ dir'[n] = dir[n]
             \/ dir'[n].run = job[q].run /\ n \in Outputs(q)
      BY <2>1, <2>3, <3>1 DEF Outputs
    <3> QED BY <2>1, <3>1, <3>2, OwnGoes DEF Steps, Placing
  <2>5. CASE Converting(variant)!SwapSidecar(q)
    <3>1. /\ dir' = [dir EXCEPT ![Converting(variant)!SidecarOf(job[q].out)]
                     = Converting(variant)!NewSidecar(q)]
          /\ Converting(variant)!Goes(q, "finish")
      BY <2>5 DEF Converting!SwapSidecar
    <3>2. \A n \in Converting(variant)!Names :
             \/ dir'[n] = dir[n]
             \/ (dir'[n] # Nothing => dir'[n].run = job[q].run) /\ n \in Outputs(q)
      BY <2>1, <2>3, <3>1 DEF Outputs
    <3> QED BY <2>1, <3>1, <3>2, OwnGoes DEF Steps, Placing
  <2> QED BY <1>5, <2>4, <2>5
<1>6. ASSUME NEW q \in Proc, Converting(variant)!Finish(q) \/ Converting(variant)!Kill(q)
    PROVE OwnInv'
  <2>1. /\ Busy(q) /\ UNCHANGED <<dir, runs>> /\ job' = [job EXCEPT ![q] = Converting(variant)!Idle]
    BY <1>6 DEF Converting!Finish, Converting!Kill, Converting!At, Busy
  <2> QED BY <2>1, OwnFrame
<1>7. CASE Converting(variant)!Next
  <2>1. PICK q \in Proc : \/ Converting(variant)!Start(q) \/ Converting(variant)!Step(q)
                             \/ Converting(variant)!Rollback(q)
                          \/ Converting(variant)!Fails(q) \/ Converting(variant)!Kill(q)
    BY <1>7 DEF Converting!Next
  <2> QED
    BY <1>2, <1>3, <1>4, <1>5, <1>6, <2>1, OwnReads, OwnUndoes, OwnStarts
       DEF Converting!Step, ReadStep
<1> QED BY <1>1, <1>7

------------------------------
(* Conversion: the two files of a pair *)

OfOneRun(graph, text) == text = Nothing \/ (graph # Nothing /\ graph.run = text.run)

Sidecar(t) == dir[Converting(variant)!SidecarOf(t)]

\* What is being replaced was a pair, and what has been replaced is of the run that does it.
PairInv ==
    /\ \A q \in Proc : job[q].at = "swap_sidecar" => FileOf(dir[job[q].out], job[q].run)
    /\ killed = {} =>
          /\ \A t \in Converting(variant)!Path : Converting(variant)!Publishing(t)
             \/ OfOneRun(dir[t], Sidecar(t))
          /\ \A q \in Proc : job[q].at \in Placing =>
                                OfOneRun(job[q].old.graph, Sidecar(job[q].out))

LEMMA OnePlaces ==
    ASSUME CleanInv, NEW q \in Proc, NEW r \in Proc, job[q].at \in {"backup"} \cup Placing,
           job[r].at \in {"backup"} \cup Placing
    PROVE  q = r
BY DEF CleanInv, Locked

\* The steps that replace no file.
LEMMA PairFrame ==
    ASSUME PairInv, NEW q \in Proc, dir' = dir, killed \subseteq killed',
           \A r \in Proc \ {q} : job'[r] = job[r],
           job'[q].at # "swap_sidecar",
           job[q].at = "swap_sidecar" => killed' # {},
           job'[q].at = "swap_graph" =>
               (killed = {} => OfOneRun(job'[q].old.graph, Sidecar(job'[q].out)))
    PROVE  PairInv'
<1>1. \A r \in Proc : job'[r].at = "swap_sidecar" => r # q /\ job'[r] = job[r]
  OBVIOUS
<1>2. \A r \in Proc : job'[r].at = "swap_sidecar" => FileOf(dir[job[r].out], job[r].run)'
  BY <1>1 DEF PairInv, FileOf
<1>3. ASSUME killed' = {}
      PROVE  /\ \A t \in Converting(variant)!Path :
                (Converting(variant)!Publishing(t) \/ OfOneRun(dir[t], Sidecar(t)))'
             /\ \A r \in Proc : job'[r].at \in Placing =>
                                   OfOneRun(job[r].old.graph, Sidecar(job[r].out))'
  <2>1. killed = {} /\ job[q].at # "swap_sidecar" BY <1>3
  <2>2. ASSUME NEW t \in Converting(variant)!Path
        PROVE  (Converting(variant)!Publishing(t) \/ OfOneRun(dir[t], Sidecar(t)))'
    <3>1. Converting(variant)!Publishing(t) => Converting(variant)!Publishing(t)'
      <4> SUFFICES ASSUME Converting(variant)!Publishing(t) PROVE Converting(variant)!Publishing(t)'
        OBVIOUS
      <4>1. PICK r \in Proc : job[r].at = "swap_sidecar" /\ job[r].out = t
        BY DEF Converting!Publishing
      <4>2. r # q BY <2>1, <4>1
      <4>3. job'[r].at = "swap_sidecar" /\ job'[r].out = t BY <4>1, <4>2
      <4> QED BY <4>3 DEF Converting!Publishing
    <3> QED BY <2>1, <3>1 DEF PairInv, OfOneRun, Sidecar
  <2>3. ASSUME NEW r \in Proc, job'[r].at \in Placing
        PROVE  OfOneRun(job[r].old.graph, Sidecar(job[r].out))'
    <3>1. CASE r = q BY <2>1, <2>3, <3>1 DEF OfOneRun, Sidecar, Placing
    <3>2. CASE r # q BY <2>1, <2>3, <3>2 DEF PairInv, OfOneRun, Sidecar
    <3> QED BY <3>1, <3>2
  <2> QED BY <2>2, <2>3
<1> QED BY <1>2, <1>3 DEF PairInv, Placing

LEMMA PairSwaps ==
    ASSUME Converting(variant)!ConversionAssumption, Converting(variant)!OneGraphOfAStem, CleanInv,
           PairInv, NEW q \in Proc,
           Converting(variant)!SwapGraph(q) \/ Converting(variant)!SwapSidecar(q)
    PROVE  PairInv'
<1>1. /\ ConversionTypes /\ HasGraph(q) /\ Busy(q) /\ job[q].at \in Placing /\ killed' = killed
      /\ dir \in [Converting(variant)!Names -> Files]
  BY DEF CleanInv, ConversionTypes, Converting!SwapGraph, Converting!SwapSidecar, Converting!At,
         Busy, Placing
<1>2. job[q].tool # "export" => job[q].input.graph # Nothing
  BY <1>1 DEF HasGraph, Placing
<1>3. /\ Converting(variant)!New(q, job[q].input.graph).run = job[q].run
      /\ Converting(variant)!New(q, job[q].input.graph) # Nothing
      /\ Converting(variant)!NewSidecar(q) # Nothing
         => Converting(variant)!NewSidecar(q).run = job[q].run
  BY <1>1, <1>2, NewPair
<1> DEFINE graph == job[q].out
           text == Converting(variant)!SidecarOf(graph)
<1>4. /\ graph \in Converting(variant)!Path /\ graph \in Converting(variant)!Names
         /\ text \in Converting(variant)!Names
      /\ text # graph
      /\ \A t \in Converting(variant)!Path : Converting(variant)!SidecarOf(t) # graph /\ t # text
  BY <1>1, ReadFiles, PathFacts
<1>5. \A r \in Proc : job[r].at \in Placing => r = q BY <1>1, OnePlaces
<1>6. CASE Converting(variant)!SwapGraph(q)
  <2>1. /\ dir' = [dir EXCEPT ![graph] = Converting(variant)!New(q, job[q].input.graph)]
        /\ Converting(variant)!Goes(q, "swap_sidecar")
    BY <1>6 DEF Converting!SwapGraph
  <2>2. PICK new \in Jobs :
           /\ job' = [job EXCEPT ![q] = new]
           /\ new.at = "swap_sidecar" /\ new.run = job[q].run /\ new.out = graph
           /\ new.old = job[q].old
    BY <1>1, <2>1, GoingJob DEF Steps, Placing
  <2>3. /\ job'[q] = new /\ \A r \in Proc \ {q} : job'[r] = job[r]
    BY <1>1, <2>2 DEF ConversionTypes
  <2>4. \A r \in Proc : job'[r].at \in Placing => r = q BY <1>5, <2>3
  <2>5. FileOf(dir'[graph], new.run)
    BY <1>1, <1>3, <1>4, <2>1, <2>2 DEF FileOf
  <2>6. \A n \in Converting(variant)!Names : n # graph => dir'[n] = dir[n]
    BY <1>1, <2>1
  <2>7. \A r \in Proc : job'[r].at = "swap_sidecar" => FileOf(dir[job[r].out], job[r].run)'
    BY <2>2, <2>3, <2>4, <2>5 DEF FileOf, Placing
  <2>8. ASSUME killed = {}, NEW t \in Converting(variant)!Path
        PROVE  (Converting(variant)!Publishing(t) \/ OfOneRun(dir[t], Sidecar(t)))'
    <3>1. CASE t = graph BY <2>2, <2>3, <3>1 DEF Converting!Publishing
    <3>2. CASE t # graph
      <4>1. ~Converting(variant)!Publishing(t)
        BY <1>5, <3>2 DEF Converting!Publishing, Placing
      <4>2. OfOneRun(dir[t], Sidecar(t)) BY <2>8, <4>1 DEF PairInv
      <4>3. dir'[t] = dir[t]
          /\ dir'[Converting(variant)!SidecarOf(t)] = dir[Converting(variant)!SidecarOf(t)]
        BY <1>4, <2>6, <3>2, PathFacts
      <4> QED BY <4>2, <4>3 DEF OfOneRun, Sidecar
    <3> QED BY <3>1, <3>2
  <2>9. ASSUME killed = {}, NEW r \in Proc, job'[r].at \in Placing
        PROVE  OfOneRun(job[r].old.graph, Sidecar(job[r].out))'
    <3>1. r = q BY <2>4, <2>9
    <3>2. OfOneRun(job[q].old.graph, Sidecar(graph))
      BY <1>1, <2>9 DEF PairInv
    <3>3. dir'[text] = dir[text] BY <1>4, <2>6
    <3> QED BY <2>2, <2>3, <3>1, <3>2, <3>3 DEF OfOneRun, Sidecar
  <2> QED BY <1>1, <2>7, <2>8, <2>9 DEF PairInv, Placing
<1>7. CASE Converting(variant)!SwapSidecar(q)
  <2>1. /\ dir' = [dir EXCEPT ![text] = Converting(variant)!NewSidecar(q)]
        /\ Converting(variant)!Goes(q, "finish") /\ job[q].at = "swap_sidecar"
    BY <1>7 DEF Converting!SwapSidecar, Converting!At
  <2>2. PICK new \in Jobs : job' = [job EXCEPT ![q] = new] /\ new.at = "finish"
    BY <1>1, <2>1, GoingJob DEF Steps
  <2>3. /\ job'[q] = new /\ \A r \in Proc \ {q} : job'[r] = job[r]
    BY <1>1, <2>2 DEF ConversionTypes
  <2>4. \A r \in Proc : job'[r].at \notin Placing
    BY <1>5, <2>2, <2>3 DEF Placing
  <2>5. \A n \in Converting(variant)!Names : n # text => dir'[n] = dir[n]
    BY <1>1, <2>1
  <2>6. ASSUME killed = {}, NEW t \in Converting(variant)!Path
        PROVE  OfOneRun(dir[t], Sidecar(t))'
    <3>1. CASE t = graph
      <4>1. FileOf(dir[graph], job[q].run) BY <2>1 DEF PairInv
      <4>2. dir'[graph] = dir[graph] /\ dir'[text] = Converting(variant)!NewSidecar(q)
        BY <1>1, <1>4, <2>1, <2>5
      <4> QED BY <1>3, <3>1, <4>1, <4>2 DEF OfOneRun, Sidecar, FileOf
    <3>2. CASE t # graph
      <4>1. ~Converting(variant)!Publishing(t)
        BY <1>5, <3>2 DEF Converting!Publishing, Placing
      <4>2. OfOneRun(dir[t], Sidecar(t)) BY <2>6, <4>1 DEF PairInv
      <4>3. Converting(variant)!SidecarOf(t) # text
        BY <1>4, <3>2 DEF Converting!OneGraphOfAStem
      <4>4. dir'[t] = dir[t]
          /\ dir'[Converting(variant)!SidecarOf(t)] = dir[Converting(variant)!SidecarOf(t)]
        BY <1>4, <2>5, <4>3, PathFacts
      <4> QED BY <4>2, <4>4 DEF OfOneRun, Sidecar
    <3> QED BY <3>1, <3>2
  <2> QED BY <1>1, <2>4, <2>6 DEF PairInv, Placing
<1> QED BY <1>6, <1>7

LEMMA PairUndoes ==
    ASSUME Converting(variant)!ConversionAssumption, CleanInv, PairInv, NEW q \in Proc,
           Converting(variant)!Rollback(q)
    PROVE  PairInv'
<1> DEFINE graph == job[q].out
<1>1. /\ ConversionTypes /\ Busy(q) /\ job[q].at = "swap_sidecar" /\ killed' = killed
      /\ dir' = [dir EXCEPT ![graph] = job[q].old.graph]
      /\ dir \in [Converting(variant)!Names -> Files]
  BY DEF CleanInv, ConversionTypes, Converting!Rollback, Converting!At, Busy
<1>2. \A r \in Proc : job'[r].at = IF r = q THEN "finish" ELSE job[r].at
  BY <1>1, RollbackJobs
<1>3. \A r \in Proc : job'[r].at \notin Placing
  <2>1. \A r \in Proc : job[r].at \in Placing => r = q
    BY <1>1, OnePlaces DEF Placing
  <2> QED BY <1>2, <2>1 DEF Placing
<1>4. /\ graph \in Converting(variant)!Names
      /\ \A t \in Converting(variant)!Path : Converting(variant)!SidecarOf(t) # graph
  BY <1>1, ReadFiles, PathFacts
<1>5. ASSUME killed = {}, NEW t \in Converting(variant)!Path
      PROVE  OfOneRun(dir[t], Sidecar(t))'
  <2>1. dir'[Converting(variant)!SidecarOf(t)] = dir[Converting(variant)!SidecarOf(t)]
    BY <1>1, <1>4, PathFacts
  <2>2. CASE t = graph
    <3>1. OfOneRun(job[q].old.graph, Sidecar(graph))
      BY <1>1, <1>5 DEF PairInv, Placing
    <3>2. dir'[graph] = job[q].old.graph BY <1>1, <1>4
    <3> QED BY <2>1, <2>2, <3>1, <3>2 DEF OfOneRun, Sidecar
  <2>3. CASE t # graph
    <3>1. ~Converting(variant)!Publishing(t)
      <4>1. \A r \in Proc : job[r].at = "swap_sidecar" => r = q
        BY <1>1, OnePlaces DEF Placing
      <4> QED BY <2>3, <4>1 DEF Converting!Publishing
    <3>2. OfOneRun(dir[t], Sidecar(t)) BY <1>5, <3>1 DEF PairInv
    <3>3. dir'[t] = dir[t] BY <1>1, <2>3, PathFacts
    <3> QED BY <2>1, <3>2, <3>3 DEF OfOneRun, Sidecar
  <2> QED BY <2>2, <2>3
<1> QED BY <1>1, <1>3, <1>5 DEF PairInv, Placing

LEMMA PairMoves ==
    ASSUME ConversionTypes, PairInv, NEW q \in Proc, NEW new, dir' = dir, killed \subseteq killed',
           job' = [job EXCEPT ![q] = new], new.at \notin Placing,
           job[q].at = "swap_sidecar" => killed' # {}
    PROVE  PairInv'
<1>1. job'[q] = new /\ \A r \in Proc \ {q} : job'[r] = job[r]
  BY DEF ConversionTypes
<1> QED BY <1>1, PairFrame DEF Placing

LEMMA PairLinks ==
    ASSUME Converting(variant)!ConversionAssumption, CleanInv, PairInv, NEW q \in Proc,
           Converting(variant)!LinkBackups(q)
    PROVE  PairInv'
<1> DEFINE old == Converting(variant)!Pair(job[q].out)
           j == job[q]
           new == [j EXCEPT !.at = "swap_graph", !.old = old]
<1>1. /\ ConversionTypes /\ Busy(q) /\ j.at = "backup" /\ UNCHANGED <<dir, killed>>
      /\ job' = [job EXCEPT ![q] = new]
  BY DEF CleanInv, Converting!LinkBackups, Converting!At, Busy
<1>2. old.graph = dir[job[q].out] /\ job[q].out \in Converting(variant)!Path
  BY <1>1, ReadFiles DEF Converting!Pair
<1>3. j \in Jobs BY <1>1, JobFacts
<1>4. killed = {} => OfOneRun(old.graph, Sidecar(job[q].out))
  <2>1. ~Converting(variant)!Publishing(job[q].out)
    <3>1. \A r \in Proc : job[r].at = "swap_sidecar" => r = q
      BY <1>1, OnePlaces DEF Placing
    <3> QED BY <1>1, <3>1 DEF Converting!Publishing
  <2> QED BY <1>2, <2>1 DEF PairInv
<1>5. job[q].at # "swap_sidecar" BY <1>1
<1> HIDE DEF old, j
<1>6. new.at = "swap_graph" /\ new.out = j.out /\ new.old = old
  BY <1>3 DEF Jobs
<1> HIDE DEF new
<1>7. job'[q] = new /\ \A r \in Proc \ {q} : job'[r] = job[r]
  BY <1>1 DEF ConversionTypes
<1>8. killed = {} => OfOneRun(job'[q].old.graph, Sidecar(job'[q].out))
  BY <1>4, <1>6, <1>7 DEF j
<1> QED BY <1>1, <1>5, <1>6, <1>7, <1>8, PairFrame

LEMMA PairStep ==
    ASSUME Converting(variant)!ConversionAssumption, Converting(variant)!OneGraphOfAStem, CleanInv,
           PairInv,
           [Converting(variant)!Next]_(Converting(variant)!vars)
    PROVE  PairInv'
<1>1. ConversionTypes /\ Converting(variant)!Idle.at \notin Placing
  BY DEF CleanInv, Converting!Idle, Placing
<1>2. CASE UNCHANGED Converting(variant)!vars
  <2>1. UNCHANGED <<dir, job, killed>> BY <1>2 DEF Converting!vars
  <2> QED BY <2>1 DEF PairInv, FileOf, OfOneRun, Sidecar, Placing, Converting!Publishing
<1>3. ASSUME NEW q \in Proc, Converting(variant)!Start(q) PROVE PairInv'
  <2>1. UNCHANGED <<dir, killed>> /\ ~Busy(q) BY <1>1, <1>3, StartedJob
  <2>2. PICK new \in Jobs' :
           /\ job' = [job EXCEPT ![q] = new]
           /\ new.at = IF new.tool = "export" THEN "make" ELSE "graph_id"
    BY <1>1, <1>3, StartedJob
  <2>3. new.at \notin Placing /\ job[q].at # "swap_sidecar"
    BY <2>1, <2>2 DEF Placing, Busy
  <2> QED BY <1>1, <2>1, <2>2, <2>3, PairMoves
<1>4. ASSUME NEW q \in Proc, ReadStep(q) PROVE PairInv'
  <2>1. /\ UNCHANGED <<dir, killed>> /\ job[q].at # "swap_sidecar"
        /\ \E new \in Jobs : job' = [job EXCEPT ![q] = new] /\ new.at \notin Placing
    BY <1>1, <1>4, ReadingJob DEF Readings, Placing
  <2> QED BY <1>1, <2>1, PairMoves
<1>5. ASSUME NEW q \in Proc, NEW to \in Steps \ Placing, Busy(q), Converting(variant)!Goes(q, to),
             UNCHANGED <<dir, killed>>, job[q].at # "swap_sidecar"
      PROVE  PairInv'
  <2>1. \E new \in Jobs : job' = [job EXCEPT ![q] = new] /\ new.at = to
    BY <1>1, <1>5, GoingJob
  <2> QED BY <1>1, <1>5, <2>1, PairMoves
<1>6. ASSUME NEW q \in Proc,
             \/ Converting(variant)!MakeWorkFile(q) \/ Converting(variant)!Convert(q)
                \/ Converting(variant)!StageSidecar(q)
             \/ Converting(variant)!Lock(q) \/ Converting(variant)!Fails(q)
      PROVE  PairInv'
  <2>1. /\ Busy(q) /\ UNCHANGED <<dir, killed>> /\ job[q].at # "swap_sidecar"
        /\ \/ UNCHANGED job
           \/ \E to \in {"make", "convert", "stage", "lock", "backup", "finish"} :
              Converting(variant)!Goes(q, to)
    BY <1>6 DEF Converting!MakeWorkFile, Converting!Convert, Converting!StageSidecar,
                Converting!Lock,
                Converting!Fails, Converting!At, Busy
  <2>2. {"make", "convert", "stage", "lock", "backup", "finish"} \subseteq Steps \ Placing
    BY DEF Steps, Placing
  <2>3. CASE UNCHANGED job
    BY <2>1, <2>3 DEF PairInv, FileOf, OfOneRun, Sidecar, Placing, Converting!Publishing
  <2> QED BY <1>5, <2>1, <2>2, <2>3
<1>7. ASSUME NEW q \in Proc, Converting(variant)!Finish(q) PROVE PairInv'
  <2>1. /\ UNCHANGED <<dir, killed>> /\ job[q].at # "swap_sidecar"
        /\ job' = [job EXCEPT ![q] = Converting(variant)!Idle]
    BY <1>7 DEF Converting!Finish, Converting!At
  <2> QED BY <1>1, <2>1, PairMoves
<1>8. ASSUME NEW q \in Proc, Converting(variant)!Kill(q) PROVE PairInv'
  <2>1. /\ dir' = dir /\ killed \subseteq killed' /\ killed' # {}
        /\ job' = [job EXCEPT ![q] = Converting(variant)!Idle]
    BY <1>8 DEF Converting!Kill
  <2> QED BY <1>1, <2>1, PairMoves
<1>9. CASE Converting(variant)!Next
  <2>1. PICK q \in Proc : \/ Converting(variant)!Start(q) \/ Converting(variant)!Step(q)
                             \/ Converting(variant)!Rollback(q)
                          \/ Converting(variant)!Fails(q) \/ Converting(variant)!Kill(q)
    BY <1>9 DEF Converting!Next
  <2> QED
    BY <1>3, <1>4, <1>6, <1>7, <1>8, <2>1, PairLinks, PairSwaps, PairUndoes
       DEF Converting!Step, ReadStep
<1> QED BY <1>2, <1>9

LEMMA PairInit ==
    ASSUME Converting(variant)!ConversionAssumption, Converting(variant)!Init
    PROVE  PairInv
<1>1. /\ \A q \in Proc : job[q].at = "idle"
      /\ \A t \in Converting(variant)!Path : dir[t] = Nothing => Sidecar(t) = Nothing
      /\ \A n \in Converting(variant)!Names : dir[n] = Nothing
         \/ dir[n] = Converting(variant)!File(0, <<>>)
  BY DEF Converting!Init, Converting!Idle, Sidecar
<1>2. ASSUME NEW t \in Converting(variant)!Path PROVE OfOneRun(dir[t], Sidecar(t))
  BY <1>1, PathFacts DEF OfOneRun, Sidecar
<1> QED BY <1>1, <1>2 DEF PairInv, Placing

LEMMA OwnInit ==
    ASSUME Converting(variant)!ConversionAssumption, Converting(variant)!Init
    PROVE  OwnInv
BY DEF Converting!Init, Converting!Idle, OwnInv, Apart, Busy

------------------------------
(* Conversion: what a conversion accepts *)

Unreplaced(q) == dir[job[q].src] = job[q].found.graph

\* What a conversion has read while the graph is the one it found first.
ReadSoFar(q) ==
    /\ ~Converting(variant)!Publishing(job[q].src) /\ Sidecar(job[q].src) = job[q].found.sidecar
    /\ job[q].at # "sidecar_id" => job[q].seen.sidecar = job[q].found.sidecar
    /\ job[q].at \in {"read_sidecar", "graph_again", "sidecar_again"} =>
           job[q].input.graph = job[q].found.graph
    /\ job[q].at \in {"graph_again", "sidecar_again"} => job[q].input.sidecar = job[q].found.sidecar

ReadAsFound(q) ==
    /\ job[q].at \in Readings =>
           job[q].seen.graph = job[q].found.graph /\ (Unreplaced(q) => ReadSoFar(q))
    /\ job[q].at = "sidecar_again" \/ Converting(variant)!Accepted(q) => job[q].input = job[q].found

Accepts(q) ==
    Busy(q) =>
        /\ job[q].at \in {"graph_id", "sidecar_id", "read_graph"} => job[q].input.sidecar = Nothing
        /\ job[q].calm => ReadAsFound(q)

AcceptInv == \A q \in Proc : Accepts(q)

\* A source that is still the graph that was found has not been touched, nor its sidecar.
LEMMA SourceUntouched ==
    ASSUME Converting(variant)!ConversionAssumption, Converting(variant)!OneGraphOfAStem, CleanInv,
           OwnInv, NEW q \in Proc,
           Accepts(q), job[q].at \in Readings, job[q].calm, NEW s \in Proc,
           \/ Converting(variant)!SwapGraph(s) \/ Converting(variant)!SwapSidecar(s)
           \/ Converting(variant)!Rollback(s) /\ job[s].out # job[q].src,
           dir'[job[q].src] = job[q].found.graph
    PROVE  /\ dir[job[q].src] = job[q].found.graph
           /\ ~\E r \in Proc : job'[r].at = "swap_sidecar" /\ job'[r].out = job[q].src
           /\ dir'[Converting(variant)!SidecarOf(job[q].src)]
              = dir[Converting(variant)!SidecarOf(job[q].src)]
<1> DEFINE graph == job[q].src
           text == Converting(variant)!SidecarOf(graph)
           dest == job[s].out
<1>1. /\ ConversionTypes /\ HasGraph(s) /\ Busy(s) /\ Busy(q) /\ job[s].at \in Placing /\ s # q
      /\ dir \in [Converting(variant)!Names -> Files]
  BY DEF CleanInv, ConversionTypes, Converting!SwapGraph, Converting!SwapSidecar,
         Converting!Rollback,
         Converting!At, Busy, Placing, Readings
<1>2. /\ graph \in Converting(variant)!Path /\ dest \in Converting(variant)!Path
      /\ graph \in Converting(variant)!Names /\ text \in Converting(variant)!Names
      /\ dest \in Converting(variant)!Names
         /\ Converting(variant)!SidecarOf(dest) \in Converting(variant)!Names
      /\ text # dest /\ Converting(variant)!SidecarOf(dest) # graph
      /\ Converting(variant)!SidecarOf(dest) = text => dest = graph
  <2>1. graph \in Converting(variant)!Path /\ dest \in Converting(variant)!Path
    BY <1>1, ReadFiles
  <2> QED BY <2>1, PathFacts DEF Converting!OneGraphOfAStem
<1>3. \A r \in Proc : job[r].at \in Placing => r = s BY <1>1, OnePlaces
<1>4. dir[graph] = job[q].found.graph => ~Converting(variant)!Publishing(graph)
  BY <1>1 DEF Accepts, ReadAsFound, Unreplaced, ReadSoFar
<1>5. CASE Converting(variant)!SwapGraph(s)
  <2>1. /\ dir' = [dir EXCEPT ![dest] = Converting(variant)!New(s, job[s].input.graph)]
        /\ Converting(variant)!Goes(s, "swap_sidecar") /\ job[s].at = "swap_graph"
    BY <1>5 DEF Converting!SwapGraph, Converting!At
  <2>2. dest # graph
    <3>1. FileOf(Converting(variant)!New(s, job[s].input.graph), job[s].run)
      BY <1>1, NewPair DEF HasGraph, Placing, FileOf
    <3>2. ~FileOf(job[q].found.graph, job[s].run)
      BY <1>1, <2>1 DEF OwnInv, OwnFiles, Swapped
    <3>3. dest = graph => dir'[graph] = Converting(variant)!New(s, job[s].input.graph)
      BY <1>1, <1>2, <2>1
    <3> QED BY <3>1, <3>2, <3>3
  <2>3. dir'[graph] = dir[graph] /\ dir'[text] = dir[text]
    BY <1>1, <1>2, <2>1, <2>2
  <2>4. PICK new \in Jobs : job' = [job EXCEPT ![s] = new] /\ new.out = dest
    BY <1>1, <2>1, GoingJob DEF Steps, Placing
  <2>5. job'[s].out = dest /\ \A r \in Proc \ {s} : job'[r] = job[r]
    BY <1>1, <2>4 DEF ConversionTypes
  <2> QED BY <1>3, <2>2, <2>3, <2>5 DEF Placing
<1>6. CASE Converting(variant)!SwapSidecar(s)
  <2>1. /\ dir' = [dir EXCEPT ![Converting(variant)!SidecarOf(dest)]
                   = Converting(variant)!NewSidecar(s)]
        /\ Converting(variant)!Goes(s, "finish") /\ job[s].at = "swap_sidecar"
    BY <1>6 DEF Converting!SwapSidecar, Converting!At
  <2>2. dir'[graph] = dir[graph] BY <1>1, <1>2, <2>1
  <2>3. dest # graph BY <1>4, <2>1, <2>2 DEF Converting!Publishing
  <2>4. dir'[text] = dir[text] BY <1>1, <1>2, <2>1, <2>3
  <2>5. PICK new \in Jobs : job' = [job EXCEPT ![s] = new] /\ new.at = "finish"
    BY <1>1, <2>1, GoingJob DEF Steps
  <2>6. job'[s].at = "finish" /\ \A r \in Proc \ {s} : job'[r] = job[r]
    BY <1>1, <2>5 DEF ConversionTypes
  <2> QED BY <1>3, <2>2, <2>4, <2>6 DEF Placing
<1>7. CASE Converting(variant)!Rollback(s) /\ dest # graph
  <2>1. dir' = [dir EXCEPT ![dest] = job[s].old.graph] /\ job[s].at = "swap_sidecar"
    BY <1>7 DEF Converting!Rollback, Converting!At
  <2>2. dir'[graph] = dir[graph] /\ dir'[text] = dir[text]
    BY <1>1, <1>2, <1>7, <2>1
  <2>3. \A r \in Proc : job'[r].at = IF r = s THEN "finish" ELSE job[r].at
    BY <1>1, <1>7, RollbackJobs
  <2> QED BY <1>3, <2>2, <2>3 DEF Placing
<1> QED BY <1>5, <1>6, <1>7

\* A process that somebody else's step leaves where it was, or tells at most that a publication
\* was undone.
LEMMA AcceptKept ==
    ASSUME Converting(variant)!ConversionAssumption, NEW q \in Proc, Accepts(q), Busy(q)'
      => Busy(q),
           Busy(q) =>
              /\ job'[q].at = job[q].at /\ job'[q].tool = job[q].tool /\ job'[q].src = job[q].src
              /\ job'[q].seen = job[q].seen
              /\ job'[q].input = job[q].input /\ job'[q].found = job[q].found
              /\ job'[q].calm => job[q].calm,
           /\ job'[q].calm /\ job[q].at \in Readings /\ dir'[job[q].src] = job[q].found.graph
           => /\ dir[job[q].src] = job[q].found.graph
              /\ ~\E r \in Proc : job'[r].at = "swap_sidecar" /\ job'[r].out = job[q].src
              /\ dir'[Converting(variant)!SidecarOf(job[q].src)]
                 = dir[Converting(variant)!SidecarOf(job[q].src)]
    PROVE  Accepts(q)'
<1> SUFFICES ASSUME Busy(q)' PROVE Accepts(q)'
  BY DEF Accepts
<1>1. /\ Busy(q) /\ job'[q].at = job[q].at /\ job'[q].tool = job[q].tool /\ job'[q].src = job[q].src
      /\ job'[q].seen = job[q].seen /\ job'[q].input = job[q].input /\ job'[q].found = job[q].found
      /\ job'[q].calm => job[q].calm
  OBVIOUS
<1>2. job[q].at \in {"graph_id", "sidecar_id", "read_graph"} => job[q].input.sidecar = Nothing
  BY <1>1 DEF Accepts
<1>3. ASSUME job'[q].calm, job[q].at \in Readings
      PROVE  job[q].seen.graph = job[q].found.graph /\ (Unreplaced(q)' => ReadSoFar(q)')
  <2>1. job[q].seen.graph = job[q].found.graph /\ (Unreplaced(q) => ReadSoFar(q))
    BY <1>1, <1>3 DEF Accepts, ReadAsFound
  <2>2. ASSUME Unreplaced(q)' PROVE ReadSoFar(q)'
    <3>1. dir'[job[q].src] = job[q].found.graph
      BY <1>1, <2>2 DEF Unreplaced
    <3>2. /\ dir[job[q].src] = job[q].found.graph
          /\ ~\E r \in Proc : job'[r].at = "swap_sidecar" /\ job'[r].out = job[q].src
          /\ dir'[Converting(variant)!SidecarOf(job[q].src)]
             = dir[Converting(variant)!SidecarOf(job[q].src)]
      BY <1>3, <3>1
    <3>3. ReadSoFar(q) BY <2>1, <3>2 DEF Unreplaced
    <3>4. ~Converting(variant)!Publishing(job[q].src)'
      BY <1>1, <3>2 DEF Converting!Publishing
    <3> QED BY <1>1, <3>2, <3>3, <3>4 DEF ReadSoFar, Sidecar
  <2> QED BY <2>1, <2>2
<1>4. ASSUME job'[q].calm, job[q].at = "sidecar_again" \/ Converting(variant)!Accepted(q)
      PROVE  job[q].input = job[q].found
  BY <1>1, <1>4 DEF Accepts, ReadAsFound
<1>5. Converting(variant)!Accepted(q)' => Converting(variant)!Accepted(q)
  BY <1>1 DEF Converting!Accepted
<1>6. job'[q].calm => ReadAsFound(q)'
  BY <1>1, <1>3, <1>4, <1>5 DEF ReadAsFound
<1> QED BY <1>1, <1>2, <1>6 DEF Accepts

LEMMA AcceptReads ==
    ASSUME Converting(variant)!ConversionAssumption, ConversionTypes, NEW q \in Proc, Accepts(q),
           ReadStep(q)
    PROVE  Accepts(q)'
<1> DEFINE src == job[q].src
           text == Converting(variant)!SidecarOf(src)
<1>1. /\ UNCHANGED dir /\ Busy(q) /\ job[q].at \in {"graph_id"} \cup Readings
      /\ \A r \in Proc : r # q => job'[r] = job[r]
      /\ job'[q] \in Jobs /\ job'[q].src = src
  <2>1. PICK new \in Jobs : job' = [job EXCEPT ![q] = new] /\ new.src = src
    BY ReadingJob
  <2> QED BY <2>1, ReadingJob DEF ConversionTypes
<1>2. job'[q].at # "swap_sidecar" /\ job[q].at # "swap_sidecar"
  BY <1>1, ReadingDetail DEF ReadStep, Readings
<1>3. Converting(variant)!Publishing(src)' <=> Converting(variant)!Publishing(src)
  <2>1. Converting(variant)!Publishing(src)' <=> \E r \in Proc : job'[r].at = "swap_sidecar"
      /\ job'[r].out = src
    BY <1>1 DEF Converting!Publishing
  <2> QED BY <1>1, <1>2, <2>1 DEF Converting!Publishing
<1>4. Unreplaced(q)' <=> dir[src] = job'[q].found.graph
  BY <1>1 DEF Unreplaced
<1>5. ReadSoFar(q)' <=>
         /\ ~Converting(variant)!Publishing(src) /\ dir[text] = job'[q].found.sidecar
         /\ job'[q].at # "sidecar_id" => job'[q].seen.sidecar = job'[q].found.sidecar
         /\ job'[q].at \in {"read_sidecar", "graph_again", "sidecar_again"} =>
                job'[q].input.graph = job'[q].found.graph
         /\ job'[q].at \in {"graph_again", "sidecar_again"} =>
                job'[q].input.sidecar = job'[q].found.sidecar
  <2>1. (~Converting(variant)!Publishing(job[q].src))' <=> ~Converting(variant)!Publishing(src)
    BY <1>1, <1>3 DEF Converting!Publishing
  <2>2. Sidecar(job[q].src)' = dir[text] BY <1>1 DEF Sidecar
  <2> QED BY <2>1, <2>2 DEF ReadSoFar
<1>6. /\ job[q].at \in {"graph_id", "sidecar_id", "read_graph"} => job[q].input.sidecar = Nothing
      /\ job[q].calm => ReadAsFound(q)
  BY <1>1 DEF Accepts
<1>7. /\ Converting(variant)!Accepted(q)' => job'[q].at \in {"convert", "make", "stage"}
      /\ Unreplaced(q) <=> dir[src] = job[q].found.graph
      /\ Sidecar(src) = dir[text]
  BY DEF Converting!Accepted, Unreplaced, Sidecar
<1>8. CASE Converting(variant)!IdentifyGraph(q)
  <2>1. /\ job[q].at = "graph_id" /\ job'[q].at = "sidecar_id"
        /\ job'[q].seen.graph = dir[src] /\ job'[q].input = job[q].input
        /\ job'[q].found = Converting(variant)!Pair(src)
        /\ job'[q].calm = ~Converting(variant)!Publishing(src)
    BY <1>8, ReadingDetail
  <2>2. job'[q].found.graph = dir[src] /\ job'[q].found.sidecar = dir[text]
    BY <2>1 DEF Converting!Pair
  <2> QED BY <1>5, <1>6, <1>7, <2>1, <2>2 DEF Accepts, ReadAsFound, Readings
<1>9. CASE Converting(variant)!IdentifySidecar(q)
  <2>1. /\ job[q].at = "sidecar_id" /\ job'[q].at = "read_graph"
        /\ job'[q].seen.sidecar = dir[text] /\ job'[q].seen.graph = job[q].seen.graph
        /\ job'[q].input = job[q].input /\ job'[q].found = job[q].found
           /\ job'[q].calm = job[q].calm
    BY <1>9, ReadingDetail DEF Converting!IdentifyGraph, Converting!IdentifySidecar, Converting!At
  <2> QED BY <1>4, <1>5, <1>6, <1>7, <2>1 DEF Accepts, ReadAsFound, ReadSoFar, Readings
<1>10. CASE Converting(variant)!ReadGraph(q)
  <2>1. /\ job[q].at = "read_graph" /\ job'[q].seen = job[q].seen
        /\ job'[q].input.graph = dir[src] /\ job'[q].input.sidecar = job[q].input.sidecar
        /\ job'[q].at = IF dir[src] = Nothing THEN "finish"
                        ELSE IF job[q].seen.sidecar = Nothing THEN "graph_again" ELSE "read_sidecar"
        /\ job'[q].found = job[q].found /\ job'[q].calm = job[q].calm
    BY <1>10, ReadingDetail DEF Converting!IdentifyGraph, Converting!ReadGraph, Converting!At
  <2>2. job[q].input.sidecar = Nothing BY <1>6, <2>1
  <2>3. job'[q].at \in {"finish", "graph_again", "read_sidecar"} BY <2>1
  <2>4. job'[q].at = "graph_again" => job[q].seen.sidecar = Nothing
    BY <2>1
  <2> QED
    BY <1>4, <1>5, <1>6, <1>7, <2>1, <2>2, <2>3, <2>4 DEF Accepts, ReadAsFound, ReadSoFar, Readings
<1>11. CASE Converting(variant)!ReadSidecar(q)
  <2>1. /\ job[q].at = "read_sidecar" /\ job'[q].seen = job[q].seen
        /\ job'[q].input.graph = job[q].input.graph /\ job'[q].input.sidecar = dir[text]
        /\ job'[q].at \in {"finish", "graph_again"}
        /\ job'[q].found = job[q].found /\ job'[q].calm = job[q].calm
    BY <1>11, ReadingDetail DEF Converting!IdentifyGraph, Converting!ReadSidecar, Converting!At
  <2> QED BY <1>4, <1>5, <1>6, <1>7, <2>1 DEF Accepts, ReadAsFound, ReadSoFar, Readings
<1>12. CASE Converting(variant)!RecheckGraph(q)
  <2>1. /\ job[q].at = "graph_again" /\ job'[q].seen = job[q].seen /\ job'[q].input = job[q].input
        /\ job'[q].at \in {"finish", "sidecar_again"}
        /\ job'[q].at = "sidecar_again" => job[q].seen.graph = dir[src]
        /\ job'[q].found = job[q].found /\ job'[q].calm = job[q].calm
    BY <1>12, ReadingDetail DEF Converting!IdentifyGraph, Converting!RecheckGraph, Converting!At
  <2>2. ASSUME job'[q].calm, job'[q].at = "sidecar_again" PROVE job[q].input = job[q].found
    <3>1. /\ job[q].input.graph = job[q].found.graph
          /\ job[q].input.sidecar = job[q].found.sidecar
      BY <1>6, <1>7, <2>1, <2>2 DEF ReadAsFound, ReadSoFar, Readings
    <3>2. job[q].input \in Pairs /\ job[q].found \in Pairs
      BY <1>1, ReadFiles
    <3> QED BY <3>1, <3>2 DEF Pairs
  <2> QED BY <1>4, <1>5, <1>6, <1>7, <2>1, <2>2 DEF Accepts, ReadAsFound, ReadSoFar, Readings
<1>13. CASE Converting(variant)!RecheckSidecar(q)
  <2>1. /\ job[q].at = "sidecar_again" /\ job'[q].seen = job[q].seen /\ job'[q].input = job[q].input
        /\ job'[q].at \in {"finish", "make", "convert"}
        /\ job'[q].found = job[q].found /\ job'[q].calm = job[q].calm
    BY <1>13, ReadingDetail DEF Converting!IdentifyGraph, Converting!RecheckSidecar, Converting!At
  <2> QED BY <1>6, <1>7, <2>1 DEF Accepts, ReadAsFound, Readings
<1> QED BY <1>8, <1>9, <1>10, <1>11, <1>12, <1>13 DEF ReadStep

\* A step of the process itself that replaces and reads nothing.
LEMMA AcceptGoes ==
    ASSUME Converting(variant)!ConversionAssumption, ConversionTypes, NEW q \in Proc, Accepts(q),
           Busy(q),
           NEW new,
           job' = [job EXCEPT ![q] = new],
           new = Converting(variant)!Idle
               \/ (/\ new \in Jobs /\ new.tool = job[q].tool /\ new.input = job[q].input
                   /\ new.found = job[q].found /\ new.calm = job[q].calm
                   /\ new.at \in Steps \ ({"graph_id"} \cup Readings)
                   /\ new.at \in {"convert", "make", "stage"}
                      => job[q].at \in {"convert", "make", "stage"})
    PROVE  Accepts(q)'
<1>1. job'[q] = new BY DEF ConversionTypes
<1>2. CASE new = Converting(variant)!Idle
  BY <1>1, <1>2 DEF Accepts, Busy, Converting!Idle
<1>3. CASE new # Converting(variant)!Idle
  <2>1. /\ job'[q].tool = job[q].tool /\ job'[q].input = job[q].input
        /\ job'[q].found = job[q].found /\ job'[q].calm = job[q].calm
        /\ job'[q].at \notin {"graph_id"} \cup Readings
        /\ job'[q].at \in {"convert", "make", "stage"} => job[q].at \in {"convert", "make", "stage"}
    BY <1>1, <1>3
  <2>2. Converting(variant)!Accepted(q)' => Converting(variant)!Accepted(q)
    BY <2>1 DEF Converting!Accepted
  <2>3. job'[q].calm => ReadAsFound(q)'
    BY <2>1, <2>2 DEF Accepts, ReadAsFound, Readings
  <2> QED BY <2>1, <2>3 DEF Accepts, Readings
<1> QED BY <1>2, <1>3

\* The others see of a step that neither swaps nor undoes a file nothing at all.
LEMMA AcceptOthers ==
    ASSUME Converting(variant)!ConversionAssumption, ConversionTypes, AcceptInv, NEW q \in Proc,
           NEW new,
           job' = [job EXCEPT ![q] = new], dir' = dir, new.at # "swap_sidecar"
    PROVE  \A r \in Proc \ {q} : Accepts(r)'
<1>1. job'[q] = new /\ \A r \in Proc \ {q} : job'[r] = job[r]
  BY DEF ConversionTypes
<1> SUFFICES ASSUME NEW r \in Proc \ {q} PROVE Accepts(r)'
  OBVIOUS
<1>2. Accepts(r) /\ job'[r] = job[r] /\ (Busy(r)' => Busy(r))
  BY <1>1 DEF AcceptInv, Busy
<1>3. ASSUME job[r].calm, job[r].at \in Readings, dir'[job[r].src] = job[r].found.graph
      PROVE  /\ dir[job[r].src] = job[r].found.graph
             /\ ~\E s \in Proc : job'[s].at = "swap_sidecar" /\ job'[s].out = job[r].src
             /\ dir'[Converting(variant)!SidecarOf(job[r].src)]
                = dir[Converting(variant)!SidecarOf(job[r].src)]
  <2>1. dir[job[r].src] = job[r].found.graph /\ Busy(r)
    BY <1>3 DEF Busy, Readings
  <2>2. ~Converting(variant)!Publishing(job[r].src)
    BY <1>2, <1>3, <2>1 DEF Accepts, ReadAsFound, Unreplaced, ReadSoFar
  <2> QED BY <1>1, <2>1, <2>2 DEF Converting!Publishing
<1> QED BY <1>2, <1>3, AcceptKept

LEMMA AcceptSwaps ==
    ASSUME Converting(variant)!ConversionAssumption, Converting(variant)!OneGraphOfAStem, CleanInv,
           OwnInv, AcceptInv, NEW q \in Proc,
           Converting(variant)!SwapGraph(q) \/ Converting(variant)!SwapSidecar(q)
    PROVE  AcceptInv'
<1>1. ConversionTypes /\ Busy(q)
  BY DEF CleanInv, Busy, Converting!SwapGraph, Converting!SwapSidecar, Converting!At
<1>2. PICK to \in {"swap_sidecar", "finish"} : Converting(variant)!Goes(q, to)
  BY DEF Converting!SwapGraph, Converting!SwapSidecar
<1>3. PICK new \in Jobs :
         /\ job' = [job EXCEPT ![q] = new]
         /\ new.at = to /\ new.tool = job[q].tool /\ new.input = job[q].input
         /\ new.found = job[q].found /\ new.calm = job[q].calm
  BY <1>1, <1>2, GoingJob DEF Steps, Placing
<1>4. new.at \in Steps \ ({"graph_id"} \cup Readings) /\ new.at \notin {"convert", "make", "stage"}
  BY <1>3 DEF Steps, Readings, Placing
<1>5. Accepts(q)' BY <1>1, <1>3, <1>4, AcceptGoes DEF AcceptInv
<1>6. \A r \in Proc \ {q} : job'[r] = job[r]
  BY <1>1, <1>3 DEF ConversionTypes
<1>7. ASSUME NEW r \in Proc \ {q} PROVE Accepts(r)'
  <2>1. Accepts(r) /\ job'[r] = job[r] /\ (Busy(r)' => Busy(r))
    BY <1>6 DEF AcceptInv, Busy
  <2>2. ASSUME job[r].calm, job[r].at \in Readings, dir'[job[r].src] = job[r].found.graph
        PROVE  /\ dir[job[r].src] = job[r].found.graph
               /\ ~\E s \in Proc : job'[s].at = "swap_sidecar" /\ job'[s].out = job[r].src
               /\ dir'[Converting(variant)!SidecarOf(job[r].src)]
                  = dir[Converting(variant)!SidecarOf(job[r].src)]
    BY <2>1, <2>2, SourceUntouched
  <2> QED BY <2>1, <2>2, AcceptKept
<1> QED BY <1>5, <1>7 DEF AcceptInv

LEMMA AcceptUndoes ==
    ASSUME Converting(variant)!ConversionAssumption, Converting(variant)!OneGraphOfAStem, CleanInv,
           OwnInv, AcceptInv, NEW q \in Proc,
           Converting(variant)!Rollback(q)
    PROVE  AcceptInv'
<1>1. ConversionTypes /\ Busy(q)
  BY DEF CleanInv, Busy, Converting!Rollback, Converting!At
<1>2. \A r \in Proc :
         /\ Busy(r)' <=> Busy(r)
         /\ Busy(r) => /\ job'[r].tool = job[r].tool /\ job'[r].src = job[r].src
                       /\ job'[r].seen = job[r].seen /\ job'[r].input = job[r].input
                       /\ job'[r].found = job[r].found
                       /\ job'[r].calm = (job[r].calm /\ job[r].src # job[q].out)
         /\ job'[r].at = IF r = q THEN "finish" ELSE job[r].at
  BY <1>1, RollbackJobs
<1>3. Accepts(q)'
  BY <1>2 DEF Accepts, ReadAsFound, Readings, Converting!Accepted
<1>4. ASSUME NEW r \in Proc \ {q} PROVE Accepts(r)'
  <2>1. /\ Accepts(r) /\ (Busy(r)' => Busy(r)) /\ job'[r].at = job[r].at
        /\ Busy(r) => /\ job'[r].tool = job[r].tool /\ job'[r].src = job[r].src
                      /\ job'[r].seen = job[r].seen /\ job'[r].input = job[r].input
                      /\ job'[r].found = job[r].found
                      /\ job'[r].calm = (job[r].calm /\ job[r].src # job[q].out)
    BY <1>2 DEF AcceptInv
  <2>2. ASSUME job'[r].calm, job[r].at \in Readings, dir'[job[r].src] = job[r].found.graph
        PROVE  /\ dir[job[r].src] = job[r].found.graph
               /\ ~\E s \in Proc : job'[s].at = "swap_sidecar" /\ job'[s].out = job[r].src
               /\ dir'[Converting(variant)!SidecarOf(job[r].src)]
                  = dir[Converting(variant)!SidecarOf(job[r].src)]
    <3>1. Busy(r) BY <2>2 DEF Busy, Readings
    <3>2. job[r].calm /\ job[q].out # job[r].src BY <2>1, <2>2, <3>1
    <3> QED BY <2>1, <2>2, <3>2, SourceUntouched
  <2> QED BY <2>1, <2>2, AcceptKept
<1> QED BY <1>3, <1>4 DEF AcceptInv

LEMMA AcceptStep ==
    ASSUME Converting(variant)!ConversionAssumption, Converting(variant)!OneGraphOfAStem, CleanInv,
           OwnInv, AcceptInv,
           [Converting(variant)!Next]_(Converting(variant)!vars)
    PROVE  AcceptInv'
<1>1. ConversionTypes /\ Converting(variant)!Idle.at # "swap_sidecar"
  BY DEF CleanInv, Converting!Idle
<1>2. CASE UNCHANGED <<dir, job>>
  BY <1>2 DEF AcceptInv, Accepts, ReadAsFound, ReadSoFar, Unreplaced, Busy, Sidecar,
              Converting!Publishing, Converting!Accepted
<1>3. ASSUME NEW q \in Proc, Converting(variant)!Start(q) PROVE AcceptInv'
  <2>1. UNCHANGED dir BY <1>1, <1>3, StartedJob
  <2>2. PICK new \in Jobs' :
           /\ job' = [job EXCEPT ![q] = new] /\ new.calm = FALSE
              /\ new.input = Converting(variant)!NoPair
           /\ new.at = IF new.tool = "export" THEN "make" ELSE "graph_id"
    BY <1>1, <1>3, StartedJob
  <2>3. job'[q] = new /\ new.input.sidecar = Nothing /\ new.at # "swap_sidecar"
    BY <1>1, <2>2 DEF ConversionTypes, Converting!NoPair
  <2>4. Accepts(q)' BY <2>2, <2>3 DEF Accepts
  <2> QED BY <1>1, <2>1, <2>2, <2>3, <2>4, AcceptOthers DEF AcceptInv
<1>4. ASSUME NEW q \in Proc, ReadStep(q) PROVE AcceptInv'
  <2>1. /\ UNCHANGED dir
        /\ \E new \in Jobs : job' = [job EXCEPT ![q] = new] /\ new.at # "swap_sidecar"
    BY <1>1, <1>4, ReadingJob DEF Readings
  <2>2. Accepts(q)' BY <1>1, <1>4, AcceptReads DEF AcceptInv
  <2> QED BY <1>1, <2>1, <2>2, AcceptOthers DEF AcceptInv
<1>5. ASSUME NEW q \in Proc, NEW new,
             job' = [job EXCEPT ![q] = new], dir' = dir, Busy(q),
             new = Converting(variant)!Idle
               \/ (/\ new \in Jobs /\ new.tool = job[q].tool /\ new.input = job[q].input
                   /\ new.found = job[q].found /\ new.calm = job[q].calm
                   /\ new.at \in {"convert", "make", "stage", "lock", "backup", "swap_graph",
                                  "finish"}
                   /\ new.at \in {"convert", "make", "stage"}
                      => job[q].at \in {"convert", "make", "stage"})
      PROVE  AcceptInv'
  <2>1. {"convert", "make", "stage", "lock", "backup", "swap_graph", "finish"}
            \subseteq Steps \ ({"graph_id"} \cup Readings)
    BY DEF Steps, Readings, Placing
  <2>2. Accepts(q)' BY <1>1, <1>5, <2>1, AcceptGoes DEF AcceptInv
  <2>3. new.at # "swap_sidecar" BY <1>1, <1>5
  <2> QED BY <1>1, <1>5, <2>2, <2>3, AcceptOthers DEF AcceptInv
<1>6. ASSUME NEW q \in Proc,
             NEW to \in {"convert", "make", "stage", "lock", "backup", "finish"},
             Converting(variant)!Goes(q, to), dir' = dir, Busy(q),
             to \in {"convert", "make", "stage"} => job[q].at \in {"convert", "make", "stage"}
      PROVE  AcceptInv'
  <2>1. to \in Steps BY DEF Steps
  <2>2. PICK new \in Jobs :
           /\ job' = [job EXCEPT ![q] = new]
           /\ new.at = to /\ new.tool = job[q].tool /\ new.input = job[q].input
           /\ new.found = job[q].found /\ new.calm = job[q].calm
    BY <1>1, <1>6, <2>1, GoingJob
  <2> QED BY <1>5, <1>6, <2>2
<1>7. ASSUME NEW q \in Proc,
             \/ Converting(variant)!MakeWorkFile(q) \/ Converting(variant)!Convert(q)
                \/ Converting(variant)!StageSidecar(q)
             \/ Converting(variant)!Lock(q) \/ Converting(variant)!Fails(q)
      PROVE  AcceptInv'
  <2>1. /\ Busy(q) /\ UNCHANGED dir
        /\ \/ UNCHANGED job
           \/ \E to \in {"make", "convert", "stage", "lock", "backup", "finish"} :
                 /\ Converting(variant)!Goes(q, to)
                 /\ to \in {"convert", "make", "stage"}
                    => job[q].at \in {"convert", "make", "stage"}
    BY <1>7 DEF Converting!MakeWorkFile, Converting!Convert, Converting!StageSidecar,
                Converting!Lock,
                Converting!Fails, Converting!At, Busy
  <2> QED BY <1>2, <1>6, <2>1
<1>8. ASSUME NEW q \in Proc, Converting(variant)!LinkBackups(q) PROVE AcceptInv'
  <2> DEFINE old == Converting(variant)!Pair(job[q].out)
             j == job[q]
             new == [j EXCEPT !.at = "swap_graph", !.old = old]
  <2>1. /\ Busy(q) /\ UNCHANGED dir /\ job' = [job EXCEPT ![q] = new]
    BY <1>8 DEF Converting!LinkBackups, Converting!At, Busy
  <2>2. old \in Pairs
    BY <1>1, <2>1, ReadFiles DEF Converting!Pair, Pairs
  <2>3. j \in Jobs BY <1>1, <2>1, JobFacts
  <2> HIDE DEF old, j
  <2>4. /\ new \in Jobs /\ new.tool = j.tool /\ new.at = "swap_graph"
        /\ new.input = j.input /\ new.found = j.found /\ new.calm = j.calm
    <3>1. "swap_graph" \in Steps BY DEF Steps, Placing
    <3> QED BY <2>2, <2>3, <3>1 DEF Jobs
  <2> HIDE DEF new
  <2>5. /\ new \in Jobs /\ new.tool = job[q].tool /\ new.input = job[q].input
        /\ new.found = job[q].found /\ new.calm = job[q].calm /\ new.at = "swap_graph"
    BY <2>4 DEF j
  <2> QED BY <1>5, <2>1, <2>5
<1>9. ASSUME NEW q \in Proc, Converting(variant)!Finish(q) \/ Converting(variant)!Kill(q)
    PROVE AcceptInv'
  <2>1. Busy(q) /\ UNCHANGED dir /\ job' = [job EXCEPT ![q] = Converting(variant)!Idle]
    BY <1>9 DEF Converting!Finish, Converting!Kill, Converting!At, Busy
  <2> QED BY <1>5, <2>1
<1>10. CASE Converting(variant)!Next
  <2>1. PICK q \in Proc : \/ Converting(variant)!Start(q) \/ Converting(variant)!Step(q)
                             \/ Converting(variant)!Rollback(q)
                          \/ Converting(variant)!Fails(q) \/ Converting(variant)!Kill(q)
    BY <1>10 DEF Converting!Next
  <2> QED
    BY <1>3, <1>4, <1>7, <1>8, <1>9, <2>1, AcceptSwaps, AcceptUndoes
       DEF Converting!Step, ReadStep
<1> QED BY <1>2, <1>10 DEF Converting!vars

LEMMA AcceptInit ==
    ASSUME Converting(variant)!ConversionAssumption, Converting(variant)!Init
    PROVE  AcceptInv
BY DEF Converting!Init, Converting!Idle, AcceptInv, Accepts, Busy

------------------------------

\* A run that has ended, in whatever way but by being killed, leaves nothing of its own behind
\* but its pair and never the lock, and no conversion writes over its source, however many
\* exports and conversions share a directory.
LEMMA ConversionsCleanUp ==
    ASSUME Converting(variant)!ConversionAssumption, CleanInv, OwnInv
    PROVE  /\ Converting(variant)!TypeOK /\ Converting(variant)!NoLitter
           /\ Converting(variant)!SourceKept
<1>1. ConversionTypes BY DEF CleanInv
<1>2. Converting(variant)!TypeOK
  <2>1. \A n \in Converting(variant)!Names :
           dir[n] # Nothing => dir[n] \in [run : 0 .. runs, of : Seq(1 .. runs)]
    BY <1>1, PathFacts DEF ConversionTypes
  <2>2. ASSUME NEW q \in Proc, job[q] # Converting(variant)!Idle
        PROVE  job[q].run \in 1 .. runs
          /\ {job[q].src, job[q].out} \subseteq Converting(variant)!Path
    BY <1>1, <2>2 DEF ConversionTypes, Jobs
  <2> QED BY <1>1, <2>1, <2>2 DEF Converting!TypeOK, ConversionTypes
<1>3. Converting(variant)!NoLitter
  BY DEF CleanInv, Locked, Litter, Converting!NoLitter, Busy
<1>4. Converting(variant)!SourceKept
  <2> SUFFICES ASSUME NEW q \in Proc, Busy(q), job[q].tool # "export",
                      NEW n \in {job[q].src, Converting(variant)!SidecarOf(job[q].src)},
                        dir[n] # Nothing
               PROVE  dir[n].run # job[q].run
    BY DEF Converting!SourceKept, Busy
  <2>1. n \in Converting(variant)!Names BY <1>1, ReadFiles, PathFacts
  <2>2. n \notin Outputs(q) BY DEF OwnInv, Apart
  <2> QED BY <2>1, <2>2 DEF OwnInv, OwnFiles, FileOf
<1> QED BY <1>2, <1>3, <1>4

LEMMA CleanKept ==
    Converting(variant)!ConversionAssumption => (Converting(variant)!Spec => [](CleanInv /\ OwnInv))
<1> SUFFICES ASSUME Converting(variant)!ConversionAssumption
             PROVE  Converting(variant)!Spec => [](CleanInv /\ OwnInv)
  OBVIOUS
<1>1. Converting(variant)!Init => CleanInv /\ OwnInv
  BY CleanInit, OwnInit
<1>2. CleanInv /\ OwnInv /\ [Converting(variant)!Next]_(Converting(variant)!vars)
        => (CleanInv /\ OwnInv)'
  BY CleanStep, OwnStep
<1> QED BY <1>1, <1>2, PTL DEF Converting!Spec

LEMMA PairsKept ==
    Converting(variant)!ConversionAssumption /\ Converting(variant)!OneGraphOfAStem =>
        (Converting(variant)!Spec => [](PairInv /\ AcceptInv))
<1> SUFFICES ASSUME Converting(variant)!ConversionAssumption, Converting(variant)!OneGraphOfAStem
             PROVE  Converting(variant)!Spec => [](PairInv /\ AcceptInv)
  OBVIOUS
<1> DEFINE Inv == CleanInv /\ OwnInv /\ PairInv /\ AcceptInv
<1>1. Converting(variant)!Init => Inv
  BY CleanInit, OwnInit, PairInit, AcceptInit
<1>2. Inv /\ [Converting(variant)!Next]_(Converting(variant)!vars) => Inv'
  BY CleanStep, OwnStep, PairStep, AcceptStep
<1>3. Inv => PairInv /\ AcceptInv OBVIOUS
<1> HIDE DEF Inv
<1> QED BY <1>1, <1>2, <1>3, PTL DEF Converting!Spec

\* However many exports and conversions share a directory, whatever fails and whoever is killed:
\* a conversion cleans up and leaves its source alone; where no two graphs share a sidecar it
\* also accepts a graph and a sidecar that were there together, and leaves a pair of one run
\* behind, whoever else publishes meanwhile.
THEOREM ConversionsAreClean == MakersSpec /\ program = variant => []ConversionIsClean
<1>1. CASE variant \in DOMAIN Conversions
  <2>1. Converting(variant)!ConversionAssumption
    BY <1>1, PartsAssumption
  <2> DEFINE SeenTogether == Converting(variant)!OneGraphOfAStem => PairInv /\ AcceptInv
  <2>2. Converting(variant)!Spec => []SeenTogether
    <3>1. CASE Converting(variant)!OneGraphOfAStem
      <4>1. PairInv /\ AcceptInv => SeenTogether OBVIOUS
      <4> HIDE DEF SeenTogether
      <4> QED BY <2>1, <3>1, <4>1, PairsKept, PTL
    <3>2. CASE ~Converting(variant)!OneGraphOfAStem
      <4>1. SeenTogether BY <3>2
      <4> HIDE DEF SeenTogether
      <4> QED BY <4>1, PTL
    <3> QED BY <3>1, <3>2
  <2>3. CleanInv /\ OwnInv /\ SeenTogether /\ program = variant => ConversionIsClean
    <3> SUFFICES ASSUME CleanInv, OwnInv, SeenTogether, program = variant
                 PROVE  ConversionIsClean
      OBVIOUS
    <3>1. /\ Converting(variant)!TypeOK /\ Converting(variant)!NoLitter
          /\ Converting(variant)!SourceKept
      BY <2>1, ConversionsCleanUp
    <3>2. PairInv => Converting(variant)!PairsOfOneRun
      BY DEF PairInv, Converting!PairsOfOneRun, OfOneRun, Sidecar
    <3>3. AcceptInv => Converting(variant)!AcceptedAsFound
      BY DEF AcceptInv, Accepts, ReadAsFound, Converting!AcceptedAsFound, Converting!Accepted, Busy
    <3>4. Converting(variant)!OneGraphOfAStem =>
             Converting(variant)!AcceptedAsFound /\ Converting(variant)!PairsOfOneRun
      BY <3>2, <3>3
    <3> HIDE DEF SeenTogether
    <3> QED BY <3>1, <3>4 DEF ConversionIsClean
  <2> HIDE DEF SeenTogether
  <2> QED BY <1>1, <2>1, <2>2, <2>3, ConvertingRuns, CleanKept, ProgramStays, PTL
<1>2. CASE variant \notin DOMAIN Conversions
  <2>1. program = variant => ConversionIsClean
    BY <1>2 DEF ConversionIsClean
  <2> QED BY <2>1, ProgramStays, PTL
<1> QED BY <1>1, <1>2

------------------------------
(* The block list (Blocklist): the work list finds a least closed set, so  *)
(* the argument needs no order of the nodes.  What is queued is in every   *)
(* closed set; what feeds the result is queued or done with.               *)

Tensors == 0 .. Lists[variant].size

\* A tensor that is done with or queued.
Known(t) == t \in visited \/ \E k \in 1 .. Len(frontier) : frontier[k] = t

\* In every closed set, if it is made in the decoder.
Needed(t) ==
    t \in List(variant)!Nodes /\ List(variant)!InDecoder(onnx[t].name) =>
        \A s \in SUBSET List(variant)!Nodes : List(variant)!Closed(s) => t \in s

ListTypes ==
    /\ onnx \in List(variant)!Graphs /\ idx \in 1 .. Lists[variant].size + 1
    /\ frontier \in Seq(Tensors) /\ visited \in SUBSET Tensors
    /\ out \in SUBSET List(variant)!Nodes /\ block \in SUBSET List(variant)!Nodes
    /\ pc \in {"gathers", "slice", "done"}
    /\ pc = "gathers" => out = {}
    /\ pc # "gathers" => idx = Lists[variant].size + 1

OnlyNeeded ==
    /\ \A k \in 1 .. Len(frontier) : Needed(frontier[k])
    /\ \A s \in SUBSET List(variant)!Nodes : List(variant)!Closed(s) => out \subseteq s

NothingMissed ==
    /\ \A n \in List(variant)!Nodes : n < idx /\ List(variant)!IndexedGather(onnx[n])
       => Known(onnx[n].ins[2])
    /\ \A n \in out : onnx[n].op \notin List(variant)!StopOps
       => Known(onnx[n].ins[1]) /\ Known(onnx[n].ins[2])
    /\ \A t \in visited : t \in List(variant)!Nodes /\ List(variant)!InDecoder(onnx[t].name)
       => t \in out

ListInv ==
    /\ ListTypes /\ OnlyNeeded /\ NothingMissed
    /\ pc = "done" => frontier = <<>> /\ block = List(variant)!BlockFor(out)

LEMMA NodeFacts ==
    ASSUME List(variant)!BlocklistAssumption, onnx \in List(variant)!Graphs,
           NEW n \in List(variant)!Nodes
    PROVE  /\ Lists[variant].size \in Nat /\ n \in Nat /\ n \in Tensors
           /\ onnx[n].ins[1] \in Tensors /\ onnx[n].ins[2] \in Tensors
           /\ onnx[n].ins \in Seq(Tensors) /\ Len(onnx[n].ins) = 2
           /\ List(variant)!Range(onnx[n].ins) = {onnx[n].ins[1], onnx[n].ins[2]}
<1>1. Lists[variant].size \in Nat /\ n \in Nat /\ n \in Tensors
  BY DEF List!BlocklistAssumption, List!Nodes, Tensors
<1>2. onnx[n].ins \in (0 .. Lists[variant].size - 1) \X (0 .. Lists[variant].size - 1)
  BY DEF List!Graphs
<1>3. PICK a \in 0 .. Lists[variant].size - 1, b \in 0 .. Lists[variant].size - 1 :
    onnx[n].ins = <<a, b>>
  BY <1>2
<1>4. a \in Tensors /\ b \in Tensors BY <1>1 DEF Tensors
<1>5. <<a, b>> \in Seq(Tensors) /\ Len(<<a, b>>) = 2 BY <1>4
<1>6. List(variant)!Range(<<a, b>>) = {a, b}
  <2>1. DOMAIN <<a, b>> = {1, 2} OBVIOUS
  <2> QED BY <2>1 DEF List!Range
<1> QED BY <1>1, <1>3, <1>4, <1>5, <1>6

\* A node the slice needs asks for what it reads, unless it is a module.
LEMMA NeededInputs ==
    ASSUME List(variant)!BlocklistAssumption, onnx \in List(variant)!Graphs,
           NEW n \in List(variant)!Nodes,
           Needed(n), List(variant)!InDecoder(onnx[n].name),
             onnx[n].op \notin List(variant)!StopOps,
           NEW k \in {1, 2}
    PROVE  Needed(onnx[n].ins[k])
<1>1. onnx[n].ins[k] \in List(variant)!Range(onnx[n].ins) BY NodeFacts
<1>2. ASSUME NEW s \in SUBSET List(variant)!Nodes, List(variant)!Closed(s),
             onnx[n].ins[k] \in List(variant)!Nodes,
             List(variant)!InDecoder(onnx[onnx[n].ins[k]].name)
      PROVE  onnx[n].ins[k] \in s
  <2>1. n \in s BY <1>2 DEF Needed
  <2>2. List(variant)!Feeds(onnx[n].ins[k], s)
    BY <1>1, <2>1 DEF List!Feeds
  <2> QED BY <1>2, <2>2 DEF List!Closed
<1> QED BY <1>2 DEF Needed

LEMMA NeededGathered ==
    ASSUME List(variant)!BlocklistAssumption, onnx \in List(variant)!Graphs,
           NEW n \in List(variant)!Nodes,
           List(variant)!IndexedGather(onnx[n])
    PROVE  Needed(onnx[n].ins[2])
  BY DEF Needed, List!Closed, List!Feeds

LEMMA ListInit == List(variant)!BlocklistAssumption /\ List(variant)!Init => ListInv
<1> SUFFICES ASSUME List(variant)!BlocklistAssumption, List(variant)!Init PROVE ListInv
  OBVIOUS
<1>1. frontier \in Seq(Tensors) /\ Len(frontier) = 0 BY DEF List!Init
<1>2. ListTypes
  BY <1>1 DEF List!Init, List!BlocklistAssumption, ListTypes
<1>3. OnlyNeeded BY <1>1 DEF List!Init, OnlyNeeded
<1>4. NothingMissed
  <2>1. \A n \in List(variant)!Nodes : ~(n < 1)
    BY DEF List!Nodes, List!BlocklistAssumption
  <2> QED BY <2>1 DEF List!Init, NothingMissed
<1> QED BY <1>2, <1>3, <1>4 DEF List!Init, ListInv

LEMMA FindGatherInv ==
    ASSUME List(variant)!BlocklistAssumption, ListInv, List(variant)!FindGather
    PROVE  ListInv'
<1>1. /\ pc = "gathers" /\ idx \in List(variant)!Nodes /\ idx' = idx + 1 /\ onnx' = onnx
         /\ visited' = visited
      /\ out' = out /\ block' = block /\ pc' = pc
  BY DEF List!FindGather
<1>2. /\ onnx \in List(variant)!Graphs /\ idx \in 1 .. Lists[variant].size
         /\ Lists[variant].size \in Nat
      /\ frontier \in Seq(Tensors) /\ Len(frontier) \in Nat /\ out = {}
  BY <1>1 DEF ListInv, ListTypes, List!Nodes, List!BlocklistAssumption
<1>3. /\ frontier' \in Seq(Tensors)
      /\ \A k \in 1 .. Len(frontier') :
            \/ k \in 1 .. Len(frontier) /\ frontier'[k] = frontier[k]
            \/ List(variant)!IndexedGather(onnx[idx]) /\ frontier'[k] = onnx[idx].ins[2]
      /\ \A k \in 1 .. Len(frontier) : k \in 1 .. Len(frontier') /\ frontier'[k] = frontier[k]
      /\ List(variant)!IndexedGather(onnx[idx]) =>
            \E k \in 1 .. Len(frontier') : frontier'[k] = onnx[idx].ins[2]
  <2>1. CASE List(variant)!IndexedGather(onnx[idx])
    <3>1. PICK t \in Tensors : t = onnx[idx].ins[2]
      BY <1>1, <1>2, NodeFacts
    <3>2. frontier' = Append(frontier, t)
      BY <2>1, <3>1 DEF List!FindGather
    <3>3. /\ Append(frontier, t) \in Seq(Tensors) /\ Len(Append(frontier, t)) = Len(frontier) + 1
          /\ \A k \in 1 .. Len(frontier) : Append(frontier, t)[k] = frontier[k]
          /\ Append(frontier, t)[Len(frontier) + 1] = t
      BY <1>2, AppendProperties
    <3>4. Len(frontier) + 1 \in 1 .. Len(frontier') BY <1>2, <3>2, <3>3
    <3> QED BY <1>2, <2>1, <3>1, <3>2, <3>3, <3>4, SMTT(60)
  <2>2. CASE ~List(variant)!IndexedGather(onnx[idx])
    <3>1. frontier' = frontier BY <2>2 DEF List!FindGather
    <3> QED BY <1>2, <2>2, <3>1
  <2> QED BY <2>1, <2>2
<1>4. ListTypes'
  BY <1>1, <1>2, <1>3 DEF ListInv, ListTypes, List!Nodes, List!Graphs
<1>5. OnlyNeeded'
  <2>1. \A t : Needed(t) => Needed(t)'
    BY <1>1 DEF Needed, List!Nodes, List!Closed, List!Feeds, List!IndexedGather, List!Within,
                List!InDecoder
  <2>2. \A k \in 1 .. Len(frontier') : Needed(frontier'[k])
    BY <1>1, <1>2, <1>3, NeededGathered DEF ListInv, OnlyNeeded
  <2>3. \A s \in SUBSET List(variant)!Nodes : out' \subseteq s
    BY <1>1, <1>2
  <2> QED BY <2>1, <2>2, <2>3 DEF OnlyNeeded
<1>6. NothingMissed'
  <2>1. \A t : Known(t) => Known(t)' BY <1>1, <1>3 DEF Known
  <2>2. ASSUME NEW n \in List(variant)!Nodes, n < idx + 1, List(variant)!IndexedGather(onnx[n])
        PROVE  Known(onnx[n].ins[2])'
    <3>1. CASE n = idx BY <1>1, <1>3, <2>2, <3>1 DEF Known
    <3>2. CASE n < idx
      BY <1>1, <2>1, <2>2, <3>2 DEF ListInv, NothingMissed
    <3> QED BY <1>2, <2>2, <3>1, <3>2 DEF List!Nodes
  <2> QED BY <1>1, <1>2, <2>2 DEF ListInv, NothingMissed
<1> QED BY <1>1, <1>4, <1>5, <1>6 DEF ListInv

LEMMA AllFoundInv ==
    ASSUME List(variant)!BlocklistAssumption, ListInv, List(variant)!AllFound
    PROVE  ListInv'
<1>1. /\ pc = "gathers" /\ pc' = "slice" /\ idx \notin List(variant)!Nodes
      /\ UNCHANGED <<onnx, idx, frontier, visited, out, block>>
  BY DEF List!AllFound
<1>2. idx = Lists[variant].size + 1
  BY <1>1 DEF ListInv, ListTypes, List!Nodes, List!BlocklistAssumption
<1>3. ListTypes'
  BY <1>1, <1>2 DEF ListInv, ListTypes, List!Graphs, List!Nodes
<1>4. OnlyNeeded'
  BY <1>1 DEF ListInv, OnlyNeeded, Needed, List!Closed, List!Feeds, List!IndexedGather
<1>5. NothingMissed' BY <1>1 DEF ListInv, NothingMissed, Known
<1> QED BY <1>1, <1>3, <1>4, <1>5 DEF ListInv

LEMMA PopInv ==
    ASSUME List(variant)!BlocklistAssumption, ListInv, List(variant)!Pop
    PROVE  ListInv'
<1> DEFINE p == frontier[Len(frontier)]
           rest == List(variant)!Rest
<1>1. /\ pc = "slice" /\ frontier # <<>> /\ visited' = visited \cup {p}
      /\ UNCHANGED <<onnx, idx, block, pc>>
      /\ IF p \in visited \/ List(variant)!Passed(p)
         THEN frontier' = rest /\ UNCHANGED out
         ELSE frontier' = rest \o List(variant)!Inputs(p) /\ out' = out \cup {p}
  BY DEF List!Pop
<1>2. /\ onnx \in List(variant)!Graphs /\ idx = Lists[variant].size + 1
         /\ Lists[variant].size \in Nat
      /\ frontier \in Seq(Tensors) /\ Len(frontier) \in Nat \ {0}
  BY <1>1, EmptySeq DEF ListInv, ListTypes, List!BlocklistAssumption
<1>3. p = frontier[Len(frontier)] /\ p \in Tensors /\ Needed(p)
  BY <1>2 DEF ListInv, OnlyNeeded
<1>4. /\ rest \in Seq(Tensors) /\ Len(rest) = Len(frontier) - 1
      /\ \A k \in 1 .. Len(rest) : k \in 1 .. Len(frontier) /\ rest[k] = frontier[k]
      /\ \A k \in 1 .. Len(frontier) : k \in 1 .. Len(rest) \/ frontier[k] = p
  <2>1. PICK m \in Int : m = Len(frontier) - 1 /\ m >= 0 BY <1>2
  <2>2. rest = SubSeq(frontier, 1, m) BY <2>1 DEF List!Rest
  <2>3. \A i \in 1 .. m : frontier[i] \in Tensors BY <1>2, <2>1
  <2>4. /\ SubSeq(frontier, 1, m) \in Seq(Tensors)
        /\ Len(SubSeq(frontier, 1, m)) = IF 1 <= m THEN m - 1 + 1 ELSE 0
        /\ \A i \in 1 .. m - 1 + 1 : SubSeq(frontier, 1, m)[i] = frontier[1 + i - 1]
    BY <2>1, <2>3, SubSeqProperties
  <2> HIDE DEF rest, p
  <2>5. m - 1 + 1 = m /\ (1 <= m \/ m = 0) /\ \A i \in 1 .. m : 1 + i - 1 = i
    BY <2>1
  <2>6. rest \in Seq(Tensors) /\ Len(rest) = m BY <2>1, <2>2, <2>4, <2>5
  <2>7. \A i \in 1 .. m : rest[i] = frontier[i] BY <2>2, <2>4, <2>5
  <2> QED BY <1>2, <1>3, <2>1, <2>6, <2>7
<1> HIDE DEF p, rest
<1>5. \A t : Needed(t) => Needed(t)'
  BY <1>1 DEF Needed, List!Nodes, List!Closed, List!Feeds, List!IndexedGather, List!Within,
              List!InDecoder
<1>6. \A s \in SUBSET List(variant)!Nodes : List(variant)!Closed(s)' => List(variant)!Closed(s)
  BY <1>1 DEF List!Closed, List!Feeds, List!IndexedGather
<1>7. CASE p \in visited \/ List(variant)!Passed(p)
  <2>1. frontier' = rest /\ out' = out BY <1>1, <1>7
  <2>2. ListTypes'
    BY <1>1, <1>2, <1>3, <1>4, <2>1 DEF ListInv, ListTypes, List!Graphs, List!Nodes
  <2>3. OnlyNeeded'
    <3>1. \A k \in 1 .. Len(rest) : Needed(rest[k])
      BY <1>4 DEF ListInv, OnlyNeeded
    <3> QED BY <1>5, <1>6, <2>1, <3>1 DEF ListInv, OnlyNeeded
  <2>4. \A t : Known(t) => Known(t)' BY <1>1, <1>4, <2>1 DEF Known
  <2>5. p \in List(variant)!Nodes /\ List(variant)!InDecoder(onnx[p].name) => p \in out
    <3>1. CASE p \in visited BY <3>1 DEF ListInv, NothingMissed
    <3>2. CASE List(variant)!Passed(p)
      BY <3>2 DEF List!Passed, List!Nodes
    <3> QED BY <1>7, <3>1, <3>2
  <2>6. NothingMissed'
    BY <1>1, <2>1, <2>4, <2>5 DEF ListInv, NothingMissed
  <2> QED BY <1>1, <2>2, <2>3, <2>6 DEF ListInv
<1>8. CASE ~(p \in visited \/ List(variant)!Passed(p))
  <2>1. frontier' = rest \o List(variant)!Inputs(p) /\ out' = out \cup {p}
    BY <1>1, <1>8
  <2>2. p \in List(variant)!Nodes /\ List(variant)!InDecoder(onnx[p].name) /\ p \notin out
    BY <1>2, <1>3, <1>8 DEF List!Passed, List!Nodes, Tensors
  <2>3. /\ onnx[p].ins \in Seq(Tensors) /\ Len(onnx[p].ins) = 2
        /\ onnx[p].ins[1] \in Tensors /\ onnx[p].ins[2] \in Tensors
    BY <1>2, <2>2, NodeFacts
  <2>4. /\ List(variant)!Inputs(p) \in Seq(Tensors) /\ Len(List(variant)!Inputs(p)) \in Nat
        /\ \A k \in 1 .. Len(List(variant)!Inputs(p)) : Needed(List(variant)!Inputs(p)[k])
        /\ onnx[p].op \notin List(variant)!StopOps =>
              /\ 1 \in 1 .. Len(List(variant)!Inputs(p))
                 /\ List(variant)!Inputs(p)[1] = onnx[p].ins[1]
              /\ 2 \in 1 .. Len(List(variant)!Inputs(p))
                 /\ List(variant)!Inputs(p)[2] = onnx[p].ins[2]
    <3>1. CASE onnx[p].op \in List(variant)!StopOps
      <4>1. List(variant)!Inputs(p) = <<>> BY <3>1 DEF List!Inputs
      <4> QED BY <3>1, <4>1
    <3>2. CASE onnx[p].op \notin List(variant)!StopOps
      <4>1. List(variant)!Inputs(p) = onnx[p].ins
        BY <3>2 DEF List!Inputs
      <4>2. Needed(onnx[p].ins[1]) /\ Needed(onnx[p].ins[2])
        BY <1>2, <1>3, <2>2, <3>2, NeededInputs
      <4> QED BY <2>3, <3>2, <4>1, <4>2
    <3> QED BY <3>1, <3>2
  <2>5. PICK more \in Seq(Tensors) : more = List(variant)!Inputs(p)
    BY <2>4
  <2>6. /\ rest \o more \in Seq(Tensors) /\ Len(rest \o more) = Len(rest) + Len(more)
        /\ \A i \in 1 .. Len(rest) + Len(more) :
              (rest \o more)[i] = IF i <= Len(rest) THEN rest[i] ELSE more[i - Len(rest)]
    BY <1>4, ConcatProperties
  <2>7. frontier' = rest \o more BY <2>1, <2>5
  <2>8. PICK a \in Nat, b \in Nat : a = Len(rest) /\ b = Len(more)
    BY <1>4
  <2>14. Len(frontier') = a + b BY <2>6, <2>7, <2>8
  <2>15. \A k \in 1 .. a : k \in 1 .. a + b /\ k <= a BY <2>8
  <2>16. \A k \in 1 .. b : k + a \in 1 .. a + b /\ ~(k + a <= a) /\ k + a - a = k
    BY <2>8
  <2>17. ASSUME NEW k \in 1 .. a + b
         PROVE  IF k <= a THEN k \in 1 .. a ELSE (k - a) \in 1 .. b
    <3>1. CASE k <= a BY <2>8, <3>1
    <3>2. CASE ~(k <= a) BY <2>8, <3>2
    <3> QED BY <3>1, <3>2
  <2>18. \A k \in 1 .. a + b : frontier'[k] = IF k <= a THEN rest[k] ELSE more[k - a]
    BY <2>6, <2>7, <2>8
  <2>19. \A k \in 1 .. a : frontier'[k] = rest[k] BY <2>15, <2>18
  <2>20. \A k \in 1 .. b : frontier'[k + a] = more[k] BY <2>16, <2>18
  <2>21. \A k \in 1 .. a + b :
            \/ k \in 1 .. a /\ frontier'[k] = rest[k]
            \/ (k - a) \in 1 .. b /\ frontier'[k] = more[k - a]
    BY <2>17, <2>18
  <2>9. ListTypes'
    BY <1>1, <1>2, <1>3, <2>1, <2>2, <2>6, <2>7 DEF ListInv, ListTypes, List!Graphs, List!Nodes
  <2>10. OnlyNeeded'
    <3>1. \A k \in 1 .. Len(rest) : Needed(rest[k])
      BY <1>4 DEF ListInv, OnlyNeeded
    <3>2. \A k \in 1 .. Len(frontier') : Needed(frontier'[k])
      BY <2>4, <2>5, <2>8, <2>14, <2>21, <3>1
    <3>3. \A s \in SUBSET List(variant)!Nodes : List(variant)!Closed(s) => out' \subseteq s
      BY <1>3, <2>1, <2>2 DEF ListInv, OnlyNeeded, Needed
    <3> QED BY <1>5, <1>6, <3>2, <3>3 DEF OnlyNeeded
  <2> DEFINE NowKnown(t) == t \in visited' \/ \E k \in 1 .. Len(frontier') : frontier'[k] = t
  <2>11. \A t : Known(t) => NowKnown(t)
    <3>1. \A k \in 1 .. Len(frontier) :
             frontier[k] = p \/ \E l \in 1 .. Len(frontier') : frontier'[l] = frontier[k]
      BY <1>4, <2>8, <2>14, <2>15, <2>19
    <3> QED BY <1>1, <3>1 DEF Known
  <2>12. ASSUME onnx[p].op \notin List(variant)!StopOps, NEW k \in {1, 2}
      PROVE NowKnown(onnx[p].ins[k])
    <3>1. \A j \in 1 .. Len(more) : \E l \in 1 .. Len(frontier') : frontier'[l] = more[j]
      BY <2>8, <2>14, <2>16, <2>20
    <3> QED BY <2>4, <2>5, <2>12, <3>1
  <2>13. NothingMissed'
    <3> HIDE DEF NowKnown
    <3>1. \A n \in List(variant)!Nodes : n < idx' /\ List(variant)!IndexedGather(onnx'[n])
        => NowKnown(onnx'[n].ins[2])
      BY <1>1, <2>11 DEF ListInv, NothingMissed
    <3>2. \A n \in out' : onnx'[n].op \notin List(variant)!StopOps =>
                              NowKnown(onnx'[n].ins[1]) /\ NowKnown(onnx'[n].ins[2])
      BY <1>1, <2>1, <2>11, <2>12 DEF ListInv, NothingMissed
    <3>3. \A t \in visited' : t \in List(variant)!Nodes /\ List(variant)!InDecoder(onnx'[t].name)
        => t \in out'
      BY <1>1, <2>1 DEF ListInv, NothingMissed
    <3> QED BY <3>1, <3>2, <3>3 DEF NothingMissed, NowKnown, Known
  <2> QED BY <1>1, <2>9, <2>10, <2>13 DEF ListInv
<1> QED BY <1>7, <1>8

LEMMA BlockInv ==
    ASSUME List(variant)!BlocklistAssumption, ListInv, List(variant)!Block
    PROVE  ListInv'
<1>1. /\ pc = "slice" /\ pc' = "done" /\ frontier = <<>> /\ block' = List(variant)!BlockFor(out)
      /\ UNCHANGED <<onnx, idx, frontier, visited, out>>
  BY DEF List!Block
<1>2. List(variant)!BlockFor(out) \subseteq List(variant)!Nodes
  BY DEF List!BlockFor, List!ByScope, List!Coarse, ListInv, ListTypes
<1>3. ListTypes'
  BY <1>1, <1>2 DEF ListInv, ListTypes, List!Graphs, List!Nodes
<1>4. OnlyNeeded'
  BY <1>1 DEF ListInv, OnlyNeeded, Needed, List!Closed, List!Feeds, List!IndexedGather
<1>5. NothingMissed' BY <1>1 DEF ListInv, NothingMissed, Known
<1>6. List(variant)!BlockFor(out)' = List(variant)!BlockFor(out)
  BY <1>1 DEF List!BlockFor, List!ByScope, List!Coarse
<1> QED BY <1>1, <1>3, <1>4, <1>5, <1>6 DEF ListInv

LEMMA ListIdle ==
    ASSUME ListInv, UNCHANGED List(variant)!vars
    PROVE  ListInv'
<1>1. UNCHANGED <<onnx, idx, frontier, visited, out, block, pc>>
  BY DEF List!vars
<1>2. ListTypes' BY <1>1 DEF ListInv, ListTypes, List!Graphs, List!Nodes
<1>3. OnlyNeeded'
  BY <1>1 DEF ListInv, OnlyNeeded, Needed, List!Closed, List!Feeds, List!IndexedGather
<1>4. NothingMissed' BY <1>1 DEF ListInv, NothingMissed, Known
<1>5. List(variant)!BlockFor(out)' = List(variant)!BlockFor(out)
  BY <1>1 DEF List!BlockFor, List!ByScope, List!Coarse
<1> QED BY <1>1, <1>2, <1>3, <1>4, <1>5 DEF ListInv

\* Once nothing is queued, the result is closed and holds nothing else.
LEMMA SliceFound ==
    ASSUME List(variant)!BlocklistAssumption, ListInv, pc = "done"
    PROVE  out = List(variant)!Slice
<1>1. onnx \in List(variant)!Graphs /\ idx = Lists[variant].size + 1 /\ Len(frontier) = 0
    /\ out \in SUBSET List(variant)!Nodes
  BY DEF ListInv, ListTypes
<1>2. \A t : Known(t) => t \in visited BY <1>1 DEF Known
<1>3. List(variant)!Closed(out)
  <2>1. SUFFICES ASSUME NEW n \in List(variant)!Nodes, List(variant)!InDecoder(onnx[n].name),
                        List(variant)!Feeds(n, out)
                 PROVE  n \in out
    BY DEF List!Closed
  <2>2. PICK k \in List(variant)!Nodes :
          \/ List(variant)!IndexedGather(onnx[k]) /\ onnx[k].ins[2] = n
          \/ k \in out /\ onnx[k].op \notin List(variant)!StopOps
             /\ n \in List(variant)!Range(onnx[k].ins)
    BY <2>1 DEF List!Feeds
  <2>3. k < idx BY <1>1 DEF List!Nodes, List!BlocklistAssumption
  <2>4. List(variant)!Range(onnx[k].ins) = {onnx[k].ins[1], onnx[k].ins[2]}
    BY <1>1, NodeFacts
  <2>5. n \in visited
    BY <1>2, <2>2, <2>3, <2>4 DEF ListInv, NothingMissed
  <2> QED BY <2>1, <2>5 DEF ListInv, NothingMissed
<1>4. \A s \in SUBSET List(variant)!Nodes : List(variant)!Closed(s) => out \subseteq s
  BY DEF ListInv, OnlyNeeded
<1> QED BY <1>1, <1>3, <1>4 DEF List!Slice

LEMMA ListKept == List(variant)!BlocklistAssumption => (List(variant)!Spec => []ListInv)
<1> SUFFICES ASSUME List(variant)!BlocklistAssumption
             PROVE  List(variant)!Spec => []ListInv
  OBVIOUS
<1>1. List(variant)!Init => ListInv BY ListInit
<1>2. ListInv /\ [List(variant)!Next]_(List(variant)!vars) => ListInv'
  BY FindGatherInv, AllFoundInv, PopInv, BlockInv, ListIdle DEF List!Next
<1> QED BY <1>1, <1>2, PTL DEF List!Spec

\* For every graph, with nodes of any names in any order: the work list of coord_slice finds
\* exactly the nodes that compute an index of a gather, back to the modules, and they are on
\* the block list, for every list of scopes that says what becomes of cross attention.
THEOREM IndicesAreFp32 == MakersSpec /\ program = variant => []IndicesStayFp32
<1>1. CASE variant \in DOMAIN Lists
  <2>1. List(variant)!BlocklistAssumption BY <1>1, PartsAssumption
  <2>2. ListInv /\ program = variant => IndicesStayFp32
    <3> SUFFICES ASSUME ListInv, program = variant PROVE IndicesStayFp32
      OBVIOUS
    <3>1. List(variant)!TypeOK
      <4>1. \A t \in List(variant)!Range(frontier) : t \in 0 .. Lists[variant].size
        <5>1. frontier \in [1 .. Len(frontier) -> Tensors]
          BY DEF ListInv, ListTypes
        <5> QED BY <5>1 DEF List!Range, Tensors
      <4> QED BY <4>1 DEF ListInv, ListTypes, List!TypeOK, Tensors
    <3>2. List(variant)!SliceIsExact
      BY <2>1, SliceFound DEF List!SliceIsExact
    <3>3. List(variant)!IndicesStayFp32
      BY <2>1, SliceFound DEF List!IndicesStayFp32, ListInv, List!BlockFor
    <3> QED BY <3>1, <3>2, <3>3 DEF IndicesStayFp32
  <2> QED BY <1>1, <2>1, <2>2, ListRuns, ListKept, ProgramStays, PTL
<1>2. CASE variant \notin DOMAIN Lists
  <2>1. program = variant => IndicesStayFp32 BY <1>2 DEF IndicesStayFp32
  <2> QED BY <2>1, ProgramStays, PTL
<1> QED BY <1>1, <1>2

------------------------------
(* The deployed decoder (DecoderDeploy).  deploy() keeps the trained heads *)
(* where forward uses them; a slot of every tensor that lives from one     *)
(* layer to the next is a row of one and the same query.                   *)

LEMMA DecoderCardinality == ASSUME NEW S PROVE Decoder!Cardinality(S) = Cardinality(S)
  BY DEF Decoder!Cardinality, Cardinality

\* What the sliders ask for.
LastLayer == IF args.eval_idx = Nothing THEN NumLayers - 1 ELSE args.eval_idx
Queries == IF args.num_queries = Nothing THEN NumQueries ELSE args.num_queries
Prunes == args.cascade # Nothing

\* Of the sliders that were accepted.
Accepted ==
    /\ LastLayer \in 0 .. NumLayers - 1 /\ Queries \in Nat \ {0}
    /\ Prunes => /\ args.cascade.k \in 0 .. NumLayers - 1 /\ args.cascade.k < LastLayer
                 /\ args.cascade.keep \in Nat \ {0} /\ args.cascade.keep < Queries

Maps == [0 .. NumLayers - 1 -> Int] \cup [0 .. LastLayer -> Int]
DecoderSet ==
    [layers : Maps, lqe : Maps, score_head : Maps, bbox_head : Maps, exit : Int, heads_exit : Int,
     num_queries : Int, reg_scale : {1, -1}, project : BOOLEAN,
     cascade : {Nothing} \cup [k : Int, keep : Int, head : Int]]

Trained(heads) == heads = [n \in 0 .. NumLayers - 1 |-> n]
AllTrained ==
    /\ Trained(decoder.layers) /\ Trained(decoder.lqe)
    /\ Trained(decoder.score_head) /\ Trained(decoder.bbox_head)

\* Layer k ranks by its own head.
CascadeSet ==
    decoder.cascade =
        IF Prunes THEN [k |-> args.cascade.k, keep |-> args.cascade.keep, head |-> args.cascade.k]
        ELSE Nothing

Sliders ==
    /\ decoder.exit = LastLayer /\ decoder.heads_exit = LastLayer /\ decoder.num_queries = Queries
    /\ CascadeSet

\* What forward meets.
Deployed ==
    /\ DOMAIN decoder.layers = 0 .. LastLayer
    /\ \A l \in 0 .. LastLayer : decoder.layers[l] = l /\ decoder.bbox_head[l] = l
    /\ decoder.lqe[LastLayer] = LastLayer /\ decoder.score_head[LastLayer] = LastLayer
    /\ decoder.project /\ decoder.reg_scale > 0

Ready == {"meta", "image", "layer", "done", "crashed"}

ModelInv ==
    /\ args \in [eval_idx : EvalIdxs, num_queries : QueryCounts, cascade : Cascades]
    /\ pc \in {"load", "deploy", "refused"} \cup Ready
    /\ pc = "refused" \/ decoder \in DecoderSet
    /\ pc = "load" => /\ AllTrained /\ decoder.exit = NumLayers - 1
                         /\ decoder.heads_exit = NumLayers - 1
                      /\ decoder.num_queries = NumQueries /\ decoder.cascade = Nothing
    /\ pc = "deploy" => Accepted /\ AllTrained /\ Sliders
    /\ pc \in Ready => Accepted /\ Deployed /\ Sliders

LEMMA DecoderFacts ==
    ASSUME Decoder!DecoderAssumption
    PROVE  /\ NumLayers \in Nat \ {0} /\ NumQueries \in Nat \ {0}
           /\ IsFiniteSet(Position) /\ Cardinality(Position) \in Nat
              /\ NumQueries <= Cardinality(Position)
           /\ Scores \subseteq Int /\ Nothing \notin Position
           /\ Nothing \notin [k : Int, keep : Int, head : Int]
<1>1. Cardinality(Position) \in Nat /\ IsFiniteSet(Position)
  <2>1. IsFiniteSet(Position)
    BY DEF Decoder!DecoderAssumption, Decoder!IsFiniteSet, IsFiniteSet
  <2> QED BY <2>1, FS_CardinalityType
<1> QED BY <1>1, DecoderCardinality DEF Decoder!DecoderAssumption

LEMMA DecoderInit ==
    ASSUME Decoder!DecoderAssumption, Decoder!Init
    PROVE  ModelInv
<1>1. PICK sign \in {1, -1} :
        decoder = [layers |-> Decoder!Trained, lqe |-> Decoder!Trained,
                   score_head |-> Decoder!Trained,
                   bbox_head |-> Decoder!Trained, exit |-> NumLayers - 1,
                     heads_exit |-> NumLayers - 1,
                   num_queries |-> NumQueries, reg_scale |-> sign, project |-> FALSE,
                     cascade |-> Nothing]
  BY DEF Decoder!Init
<1>2. Decoder!Trained = [n \in 0 .. NumLayers - 1 |-> n]
    /\ Decoder!Trained \in [0 .. NumLayers - 1 -> Int]
  BY DecoderFacts DEF Decoder!Trained, Decoder!Layer
<1>3. decoder \in DecoderSet
  BY <1>1, <1>2, DecoderFacts DEF DecoderSet, Maps
<1> QED BY <1>1, <1>2, <1>3 DEF Decoder!Init, ModelInv, AllTrained, Trained, Ready

LEMMA SlidersInv ==
    ASSUME Decoder!DecoderAssumption, ModelInv, Decoder!ApplySliders
    PROVE  ModelInv'
<1>1. /\ pc = "load" /\ args' = args /\ decoder \in DecoderSet /\ AllTrained
      /\ decoder.exit = NumLayers - 1 /\ decoder.heads_exit = NumLayers - 1
      /\ decoder.num_queries = NumQueries /\ decoder.cascade = Nothing
      /\ args \in [eval_idx : EvalIdxs, num_queries : QueryCounts, cascade : Cascades]
  BY DEF Decoder!ApplySliders, ModelInv
<1>2. CASE pc' = "refused" BY <1>1, <1>2 DEF ModelInv, Ready
<1>3. CASE ~(pc' = "refused")
  <2>1. /\ Decoder!EvalIdxFits /\ Decoder!QueriesFit /\ Decoder!CascadeFits
        /\ pc' = "deploy" /\ decoder' = Decoder!WithCascade(Decoder!Reshaped)
    BY <1>3 DEF Decoder!ApplySliders
  <2>2. Decoder!Exit = LastLayer /\ Decoder!QueriesAsked = Queries
    BY <1>1 DEF Decoder!Exit, Decoder!QueriesAsked, LastLayer, Queries
  <2>3. Decoder!LayerCount = NumLayers
    <3>1. DOMAIN decoder.layers = 0 .. NumLayers - 1
      BY <1>1 DEF AllTrained, Trained
    <3>2. PICK b \in Int : b = NumLayers - 1 /\ ~(0 > b) /\ b - 0 + 1 = NumLayers
      BY DecoderFacts
    <3>3. Cardinality(0 .. b) = b - 0 + 1 BY <3>2, FS_Interval
    <3> QED BY <3>1, <3>2, <3>3, DecoderCardinality DEF Decoder!LayerCount
  <2>4. LastLayer \in 0 .. NumLayers - 1
    <3>1. CASE args.eval_idx = Nothing
      BY <3>1, DecoderFacts DEF LastLayer
    <3>2. CASE args.eval_idx # Nothing
      <4>1. args.eval_idx \in Int
        BY <1>1, <3>2 DEF Decoder!DecoderAssumption
      <4> QED BY <2>1, <2>3, <3>2, <4>1, DecoderFacts DEF LastLayer, Decoder!EvalIdxFits
    <3> QED BY <3>1, <3>2
  <2>5. Queries \in Nat \ {0}
    <3>1. CASE args.num_queries = Nothing
      BY <3>1, DecoderFacts DEF Queries
    <3>2. CASE args.num_queries # Nothing
      <4>1. args.num_queries \in Int
        BY <1>1, <3>2 DEF Decoder!DecoderAssumption
      <4> QED BY <2>1, <3>2, <4>1 DEF Queries, Decoder!QueriesFit
    <3> QED BY <3>1, <3>2
  <2>6. Prunes => /\ args.cascade.k \in 0 .. NumLayers - 1 /\ args.cascade.k < LastLayer
                  /\ args.cascade.keep \in Nat \ {0} /\ args.cascade.keep < Queries
    <3>1. SUFFICES ASSUME Prunes
                   PROVE  /\ args.cascade.k \in 0 .. NumLayers - 1 /\ args.cascade.k < LastLayer
                          /\ args.cascade.keep \in Nat \ {0} /\ args.cascade.keep < Queries
      OBVIOUS
    <3>2. args.cascade \in Cascades \ {Nothing} BY <1>1, <3>1 DEF Prunes
    <3>3. args.cascade.k \in Int /\ args.cascade.keep \in Int
      BY <3>2 DEF Decoder!DecoderAssumption
    <3>4. /\ 0 <= args.cascade.k /\ args.cascade.k < LastLayer
          /\ 0 < args.cascade.keep /\ args.cascade.keep < Queries
      BY <2>1, <2>2, <3>1 DEF Decoder!CascadeFits, Prunes
    <3> QED BY <2>4, <2>5, <3>3, <3>4, DecoderFacts
  <2>7. Accepted BY <2>4, <2>5, <2>6 DEF Accepted
  <2>8. PICK d \in DecoderSet : d = decoder BY <1>1
  <2> DEFINE r == [d EXCEPT !.exit = LastLayer, !.heads_exit = LastLayer, !.num_queries = Queries]
  <2>9. /\ r \in DecoderSet /\ r.exit = LastLayer /\ r.heads_exit = LastLayer
           /\ r.num_queries = Queries
        /\ r.layers = d.layers /\ r.lqe = d.lqe /\ r.score_head = d.score_head
           /\ r.bbox_head = d.bbox_head
        /\ r.cascade = d.cascade
    <3>1. LastLayer \in Int /\ Queries \in Int BY <2>4, <2>5
    <3>2. PICK e \in Int, q \in Int : e = LastLayer /\ q = Queries
      BY <3>1
    <3>3. r = [d EXCEPT !.exit = e, !.heads_exit = e, !.num_queries = q]
      BY <3>2
    <3> HIDE DEF r
    <3> QED BY <3>2, <3>3 DEF DecoderSet
  <2>10. Decoder!Reshaped = r BY <2>2, <2>8 DEF Decoder!Reshaped
  <2> HIDE DEF r
  <2>11. decoder' \in DecoderSet /\ Sliders' /\ AllTrained'
    <3>1. CASE ~Prunes
      <4>1. decoder' = r
        BY <2>1, <2>10, <3>1 DEF Decoder!WithCascade, Prunes
      <4> QED
        BY <1>1, <2>8, <2>9, <3>1, <4>1
           DEF Sliders, CascadeSet, Prunes, LastLayer, Queries, AllTrained, Trained
    <3>2. CASE Prunes
      <4> DEFINE c == [k |-> args.cascade.k, keep |-> args.cascade.keep,
                       head |-> Decoder!CascadeHead(r)]
      <4>1. Decoder!CascadeHead(r) = args.cascade.k
        BY <1>1, <2>6, <2>8, <2>9, <3>2 DEF Decoder!CascadeHead, AllTrained, Trained
      <4>2. decoder' = [r EXCEPT !.cascade = c]
        BY <2>1, <2>10, <3>2 DEF Decoder!WithCascade, Prunes
      <4>3. c \in [k : Int, keep : Int, head : Int]
        BY <2>6, <3>2, <4>1, DecoderFacts
      <4>4. c = [k |-> args.cascade.k, keep |-> args.cascade.keep, head |-> args.cascade.k]
        BY <4>1
      <4> HIDE DEF c
      <4>5. /\ decoder' \in DecoderSet /\ decoder'.cascade = c
            /\ decoder'.exit = r.exit /\ decoder'.heads_exit = r.heads_exit
            /\ decoder'.num_queries = r.num_queries /\ decoder'.layers = r.layers
            /\ decoder'.lqe = r.lqe /\ decoder'.score_head = r.score_head
            /\ decoder'.bbox_head = r.bbox_head
        BY <2>9, <4>2, <4>3 DEF DecoderSet
      <4> QED
        BY <1>1, <2>8, <2>9, <3>2, <4>4, <4>5
           DEF Sliders, CascadeSet, Prunes, LastLayer, Queries, AllTrained, Trained
    <3> QED BY <3>1, <3>2
  <2>12. LastLayer' = LastLayer /\ Queries' = Queries /\ (Prunes' <=> Prunes)
    BY <1>1 DEF LastLayer, Queries, Prunes
  <2>13. Accepted' BY <1>1, <2>7, <2>12 DEF Accepted
  <2>14. DecoderSet' = DecoderSet BY <2>12 DEF DecoderSet, Maps
  <2> QED BY <1>1, <2>1, <2>11, <2>13, <2>14 DEF ModelInv, Ready
<1> QED BY <1>2, <1>3

LEMMA DeployInv ==
    ASSUME Decoder!DecoderAssumption, ModelInv, Decoder!Deploy
    PROVE  ModelInv'
<1>1. /\ pc = "deploy" /\ pc' = "meta" /\ args' = args /\ decoder \in DecoderSet
      /\ decoder' = Decoder!ConvertDecoder(Decoder!ConvertHeads(decoder))
      /\ Accepted /\ AllTrained /\ Sliders
      /\ args \in [eval_idx : EvalIdxs, num_queries : QueryCounts, cascade : Cascades]
  BY DEF Decoder!Deploy, ModelInv
<1>2. LastLayer' = LastLayer /\ Queries' = Queries /\ (Prunes' <=> Prunes)
  BY <1>1 DEF LastLayer, Queries, Prunes
<1>3. /\ decoder'.layers = Decoder!Truncated(decoder.layers, LastLayer)
      /\ decoder'.lqe = Decoder!OnlyExit(decoder.lqe, LastLayer)
      /\ decoder'.score_head = Decoder!OnlyExit(decoder.score_head, LastLayer)
      /\ decoder'.bbox_head = Decoder!UpToExit(decoder.bbox_head, LastLayer)
      /\ decoder'.reg_scale = 1 /\ decoder'.project = TRUE
      /\ decoder'.exit = LastLayer /\ decoder'.heads_exit = LastLayer
         /\ decoder'.num_queries = Queries
      /\ decoder'.cascade = decoder.cascade
      /\ decoder' = [layers |-> decoder'.layers, lqe |-> decoder'.lqe,
                     score_head |-> decoder'.score_head,
                     bbox_head |-> decoder'.bbox_head, exit |-> decoder'.exit,
                     heads_exit |-> decoder'.heads_exit, num_queries |-> decoder'.num_queries,
                     reg_scale |-> decoder'.reg_scale, project |-> decoder'.project,
                     cascade |-> decoder'.cascade]
  <2>1. PICK d \in DecoderSet : d = decoder BY <1>1
  <2>2. PICK h, g : h = Decoder!ConvertHeads(d) /\ g = Decoder!ConvertDecoder(h)
    OBVIOUS
  <2>3. h = Decoder!ConvertHeads(d) BY <2>2
  <2>4. g = Decoder!ConvertDecoder(h) BY <2>2
  <2>5. d.exit = LastLayer /\ d.heads_exit = LastLayer /\ d.num_queries = Queries
    BY <1>1, <2>1 DEF Sliders
  <2>6. decoder' = g BY <1>1, <2>1, <2>3, <2>4
  <2>7. /\ g.layers = Decoder!Truncated(d.layers, d.exit)
        /\ g.lqe = Decoder!OnlyExit(d.lqe, d.exit)
        /\ g.score_head = Decoder!OnlyExit(d.score_head, d.heads_exit)
        /\ g.bbox_head = Decoder!UpToExit(d.bbox_head, d.heads_exit)
        /\ g.reg_scale = 1 /\ g.project = TRUE
        /\ g.exit = d.exit /\ g.heads_exit = d.heads_exit /\ g.num_queries = d.num_queries
        /\ g.cascade = d.cascade
        /\ g = [layers |-> g.layers, lqe |-> g.lqe, score_head |-> g.score_head,
                bbox_head |-> g.bbox_head, exit |-> g.exit, heads_exit |-> g.heads_exit,
                num_queries |-> g.num_queries, reg_scale |-> g.reg_scale, project |-> g.project,
                cascade |-> g.cascade]
    <3>1. PICK sh, bh, rs : /\ sh = Decoder!OnlyExit(d.score_head, d.heads_exit)
                            /\ bh = Decoder!UpToExit(d.bbox_head, d.heads_exit)
                            /\ rs = IF d.reg_scale < 0 THEN -d.reg_scale ELSE d.reg_scale
      OBVIOUS
    <3>2. rs = 1 BY <3>1 DEF DecoderSet
    <3>3. h = [d EXCEPT !.score_head = sh, !.bbox_head = bh, !.reg_scale = rs]
      BY <2>3, <3>1 DEF Decoder!ConvertHeads
    <3>4. /\ h.score_head = sh /\ h.bbox_head = bh /\ h.reg_scale = rs
          /\ h.layers = d.layers /\ h.lqe = d.lqe /\ h.exit = d.exit /\ h.heads_exit = d.heads_exit
          /\ h.num_queries = d.num_queries /\ h.cascade = d.cascade
          /\ h = [layers |-> d.layers, lqe |-> d.lqe, score_head |-> sh, bbox_head |-> bh,
                  exit |-> d.exit, heads_exit |-> d.heads_exit, num_queries |-> d.num_queries,
                  reg_scale |-> rs, project |-> d.project, cascade |-> d.cascade]
      BY <3>3 DEF DecoderSet
    <3>5. PICK ls, lq : ls = Decoder!Truncated(d.layers, d.exit)
        /\ lq = Decoder!OnlyExit(d.lqe, d.exit)
      OBVIOUS
    <3>6. g = [h EXCEPT !.project = TRUE, !.layers = ls, !.lqe = lq]
      BY <2>4, <3>4, <3>5 DEF Decoder!ConvertDecoder
    <3>7. g = [layers |-> ls, lqe |-> lq, score_head |-> sh, bbox_head |-> bh,
               exit |-> d.exit, heads_exit |-> d.heads_exit, num_queries |-> d.num_queries,
               reg_scale |-> rs, project |-> TRUE, cascade |-> d.cascade]
      BY <3>4, <3>6
    <3> QED BY <3>1, <3>2, <3>5, <3>7
  <2> QED BY <2>1, <2>5, <2>6, <2>7
<1>4. LastLayer \in 0 .. NumLayers - 1 /\ NumLayers \in Nat \ {0} /\ Queries \in Nat \ {0}
  BY <1>1, DecoderFacts DEF Accepted
<1>5. \A l \in 0 .. LastLayer : l \in 0 .. NumLayers - 1 /\ l \in Int
  BY <1>4
<1>6. /\ decoder'.layers = [l \in 0 .. LastLayer |-> l]
      /\ decoder'.lqe = [l \in 0 .. LastLayer |-> IF l = LastLayer THEN l ELSE -1]
      /\ decoder'.score_head = [l \in 0 .. LastLayer |-> IF l = LastLayer THEN l ELSE -1]
      /\ decoder'.bbox_head = [l \in 0 .. NumLayers - 1 |-> IF l <= LastLayer THEN l ELSE -1]
  BY <1>1, <1>3, <1>4, <1>5
     DEF AllTrained, Trained, Decoder!Truncated, Decoder!OnlyExit, Decoder!UpToExit,
         Decoder!Identity
<1>7. decoder'.layers \in Maps /\ decoder'.lqe \in Maps /\ decoder'.score_head \in Maps
      /\ decoder'.bbox_head \in Maps
  BY <1>4, <1>5, <1>6 DEF Maps
<1>8. decoder.cascade \in {Nothing} \cup [k : Int, keep : Int, head : Int]
  BY <1>1 DEF DecoderSet
<1>9. decoder' \in DecoderSet
  <2>1. PICK ls \in Maps, lq \in Maps, sh \in Maps, bh \in Maps :
          /\ ls = decoder'.layers /\ lq = decoder'.lqe
          /\ sh = decoder'.score_head /\ bh = decoder'.bbox_head
    BY <1>7
  <2>2. PICK e \in Int, q \in Int : e = LastLayer /\ q = Queries BY <1>4
  <2>3. PICK c \in {Nothing} \cup [k : Int, keep : Int, head : Int] : c = decoder.cascade
    BY <1>8
  <2>4. decoder' = [layers |-> ls, lqe |-> lq, score_head |-> sh, bbox_head |-> bh, exit |-> e,
                    heads_exit |-> e, num_queries |-> q, reg_scale |-> 1, project |-> TRUE,
                    cascade |-> c]
    BY <1>3, <2>1, <2>2, <2>3
  <2> QED BY <2>4 DEF DecoderSet
<1>10. DecoderSet' = DecoderSet BY <1>2 DEF DecoderSet, Maps
<1>11. Deployed' BY <1>2, <1>3, <1>4, <1>5, <1>6 DEF Deployed
<1>12. Sliders' BY <1>1, <1>2, <1>3 DEF Sliders, CascadeSet
<1>13. Accepted' BY <1>1, <1>2 DEF Accepted
<1> QED BY <1>1, <1>9, <1>10, <1>11, <1>12, <1>13 DEF ModelInv, Ready

\* The model is not touched again.
LEMMA ModelKept ==
    ASSUME ModelInv, args' = args, decoder' = decoder, pc \in Ready, pc' \in Ready
    PROVE  ModelInv'
<1>1. LastLayer' = LastLayer /\ Queries' = Queries /\ (Prunes' <=> Prunes)
  BY DEF LastLayer, Queries, Prunes
<1>2. DecoderSet' = DecoderSet /\ pc \in Ready /\ pc # "refused" /\ pc # "load" /\ pc # "deploy"
      /\ pc' # "load" /\ pc' # "deploy"
  BY <1>1 DEF DecoderSet, Maps, Ready
<1>3. Accepted' /\ Deployed' /\ Sliders'
  BY <1>1, <1>2 DEF ModelInv, Accepted, Deployed, Sliders, CascadeSet
<1> QED BY <1>2, <1>3 DEF ModelInv

LEMMA ModelStep ==
    ASSUME Decoder!DecoderAssumption, ModelInv, [Decoder!Next]_(Decoder!vars)
    PROVE  ModelInv'
<1>1. CASE Decoder!ApplySliders BY <1>1, SlidersInv
<1>2. CASE Decoder!Deploy BY <1>2, DeployInv
<1>3. CASE Decoder!CollectMeta \/ Decoder!SelectQueries \/ Decoder!NextLayer \/ Decoder!Return
  <2>1. args' = args /\ decoder' = decoder /\ pc \in Ready /\ pc' \in Ready
    BY <1>3 DEF Decoder!CollectMeta, Decoder!SelectQueries, Decoder!NextLayer, Decoder!Return, Ready
  <2> QED BY <2>1, ModelKept
<1>4. CASE UNCHANGED Decoder!vars
  <2>1. args' = args /\ decoder' = decoder /\ pc' = pc
    BY <1>4 DEF Decoder!vars
  <2>2. LastLayer' = LastLayer /\ Queries' = Queries /\ (Prunes' <=> Prunes)
      /\ DecoderSet' = DecoderSet
    BY <2>1 DEF LastLayer, Queries, Prunes, DecoderSet, Maps
  <2>3. /\ Accepted' <=> Accepted
        /\ Deployed' <=> Deployed
        /\ Sliders' <=> Sliders
        /\ AllTrained' <=> AllTrained
    BY <2>1, <2>2 DEF Accepted, Deployed, Sliders, CascadeSet, AllTrained, Trained
  <2> QED BY <2>1, <2>2, <2>3 DEF ModelInv
<1> QED BY <1>1, <1>2, <1>3, <1>4 DEF Decoder!Next

\* What the export says of the model, and when nothing runs yet.
Told ==
    [num_queries |-> (IF Prunes THEN args.cascade.keep ELSE Queries), initial |-> Queries,
     layers |-> LastLayer + 1, eval_idx |-> LastLayer]
Running == {"layer", "done"}

MetaInv ==
    /\ pc \notin {"image", "layer", "done", "crashed"} => meta = Nothing
    /\ pc \in {"image", "layer", "done", "crashed"} => meta = Told
    /\ content \in [Position -> Int] /\ rank \in [Position -> Int]
    /\ pc \notin Running => layer = 0 /\ rows = Decoder!NoRows
    /\ pc = "crashed" => args.num_queries # Nothing /\ args.num_queries > Cardinality(Position)

\* A row of query c that layer n made.
Of(c, n) == [of |-> c, at |-> n]
Pruned == Prunes /\ layer > args.cascade.k
RowCount == IF Pruned THEN args.cascade.keep ELSE Queries
Query(s) == rows.output[s].of
Tensor == [1 .. RowCount -> [of : Position, at : -1 .. NumLayers - 1]]

\* A slot is one query's in every tensor, and the tensors are as old as the layer wants them.
RowsInv ==
    /\ layer \in 0 .. LastLayer
    /\ rows \in [output : Tensor, output_detach : Tensor, corners : Tensor, refs : Tensor,
                 initial : Tensor]
    /\ \A s \in 1 .. RowCount :
         /\ rows.output[s] = Of(Query(s), layer - 1)
         /\ rows.output_detach[s] = Of(Query(s), layer - 1)
         /\ rows.corners[s] = Of(Query(s), layer - 1)
         /\ rows.refs[s] = Of(Query(s), layer - 1)
         /\ rows.initial[s] = Of(Query(s), IF layer = 0 THEN -1 ELSE 0)

\* The queries forward started with are the encoder's best, those it goes on with layer k's best.
BestInv ==
    /\ selected \in [1 .. Queries -> Position]
    /\ \A a, b \in 1 .. Queries : selected[a] = selected[b] => a = b
    /\ \A c \in Position : \/ \E a \in 1 .. Queries : selected[a] = c
                           \/ \A a \in 1 .. Queries : content[selected[a]] >= content[c]
    /\ \A s \in 1 .. RowCount : \E a \in 1 .. Queries : Query(s) = selected[a]
    /\ \A a, b \in 1 .. RowCount : Query(a) = Query(b) => a = b
    /\ ~Pruned => \A s \in 1 .. RowCount : Query(s) = selected[s]
    /\ Pruned => \A a \in 1 .. Queries :
                   \/ \E s \in 1 .. RowCount : Query(s) = selected[a]
                   \/ \A s \in 1 .. RowCount : rank[Query(s)] >= rank[selected[a]]

OutInv ==
    /\ layer = LastLayer
    /\ out = [boxes |-> [s \in 1 .. RowCount |-> Of(Query(s), LastLayer)],
              logits |-> [s \in 1 .. RowCount |-> Of(Query(s), LastLayer)]]

FlowInv ==
    /\ MetaInv
    /\ pc \in Running => RowsInv /\ BestInv
    /\ pc = "done" => OutInv

LEMMA MadeRow ==
    ASSUME NEW n, NEW now, NEW before, NEW c \in Position, n = layer,
           \A r \in now : r = Of(c, layer), \A r \in before : r = Of(c, layer - 1),
           now \cup before # {}
    PROVE  Decoder!Made(n, now, before) = Of(c, layer)
<1>1. PICK r : r = CHOOSE x \in now \cup before : TRUE OBVIOUS
<1>2. r \in now \cup before BY <1>1
<1>3. r.of = c BY <1>2 DEF Of
<1>4. /\ \A x \in now : x.at = layer
      /\ \A x \in before : x.at = layer - 1
      /\ \A x \in now \cup before : x.of = c
  BY DEF Of
<1> QED BY <1>1, <1>3, <1>4 DEF Decoder!Made, Of

\* What layer i makes of a slot's rows.
LEMMA SlotMade ==
    ASSUME Decoder!DecoderAssumption, ModelInv, RowsInv, pc = "layer", NEW s \in 1 .. RowCount
    PROVE  /\ Query(s) \in Position
           /\ Decoder!Made(decoder.layers[layer], {}, {rows.output[s], rows.refs[s]})
              = Of(Query(s), layer)
           /\ layer = 0 => Decoder!Made(0, {Of(Query(s), layer)}, {rows.refs[s]})
              = Of(Query(s), layer)
           /\ Decoder!Made(decoder.bbox_head[layer], {Of(Query(s), layer)},
                           {rows.output_detach[s], rows.corners[s]}) = Of(Query(s), layer)
           /\ layer = LastLayer =>
                Decoder!Made(decoder.score_head[layer], {Of(Query(s), layer)}, {})
                  = Of(Query(s), layer)
           /\ layer = LastLayer =>
                Decoder!Made(decoder.lqe[layer], {Of(Query(s), layer), Of(Query(s), layer)}, {})
                  = Of(Query(s), layer)
<1>1. PICK c \in Position : c = Query(s) BY DEF RowsInv, Tensor, Query
<1>2. /\ decoder.layers[layer] = layer /\ decoder.bbox_head[layer] = layer
      /\ layer = LastLayer => decoder.lqe[layer] = layer /\ decoder.score_head[layer] = layer
  BY DEF ModelInv, Ready, Deployed, RowsInv
<1>3. PICK a, b, d, e : a = rows.output[s] /\ b = rows.refs[s] /\ d = rows.output_detach[s]
                        /\ e = rows.corners[s]
  OBVIOUS
<1>4. a = Of(c, layer - 1) /\ b = Of(c, layer - 1) /\ d = Of(c, layer - 1) /\ e = Of(c, layer - 1)
  BY <1>1, <1>3 DEF RowsInv
<1>5. Decoder!Made(layer, {}, {a, b}) = Of(c, layer) BY <1>4, MadeRow
<1>6. Decoder!Made(layer, {Of(c, layer)}, {b}) = Of(c, layer)
  BY <1>4, MadeRow
<1>7. Decoder!Made(layer, {Of(c, layer)}, {d, e}) = Of(c, layer)
  BY <1>4, MadeRow
<1>8. Decoder!Made(layer, {Of(c, layer)}, {}) = Of(c, layer) BY MadeRow
<1>9. Decoder!Made(layer, {Of(c, layer), Of(c, layer)}, {}) = Of(c, layer)
  BY MadeRow
<1> QED BY <1>1, <1>2, <1>3, <1>5, <1>6, <1>7, <1>8, <1>9

\* The tensors a layer leaves.
LEMMA LayerMade ==
    ASSUME Decoder!DecoderAssumption, ModelInv, RowsInv, pc = "layer"
    PROVE  /\ Decoder!Slots = 1 .. RowCount
           /\ Decoder!Output = [s \in 1 .. RowCount |-> Of(Query(s), layer)]
           /\ Decoder!Initial = [s \in 1 .. RowCount |-> Of(Query(s), 0)]
           /\ Decoder!Corners = [s \in 1 .. RowCount |-> Of(Query(s), layer)]
           /\ Decoder!Boxes = [s \in 1 .. RowCount |-> Of(Query(s), layer)]
           /\ layer = LastLayer => Decoder!Logits = [s \in 1 .. RowCount |-> Of(Query(s), layer)]
<1>1. Decoder!Slots = 1 .. RowCount
  BY DEF RowsInv, Tensor, Decoder!Slots
<1>2. Decoder!Output = [s \in 1 .. RowCount |-> Of(Query(s), layer)]
  BY <1>1, SlotMade DEF Decoder!Output
<1>3. \A s \in 1 .. RowCount : Decoder!Output[s] = Of(Query(s), layer)
  BY <1>2
<1>4. Decoder!Initial = [s \in 1 .. RowCount |-> Of(Query(s), 0)]
  <2>1. CASE layer = 0 BY <1>1, <1>3, <2>1, SlotMade DEF Decoder!Initial
  <2>2. CASE layer # 0
    <3>1. rows.initial \in Tensor /\ \A s \in 1 .. RowCount : rows.initial[s] = Of(Query(s), 0)
      BY <2>2 DEF RowsInv
    <3> QED BY <2>2, <3>1 DEF Decoder!Initial, Tensor
  <2> QED BY <2>1, <2>2
<1>5. Decoder!Corners = [s \in 1 .. RowCount |-> Of(Query(s), layer)]
  BY <1>1, <1>3, SlotMade DEF Decoder!Corners
<1>6. Decoder!Boxes = [s \in 1 .. RowCount |-> Of(Query(s), layer)]
  <2>1. decoder.project /\ decoder.reg_scale > 0
    BY DEF ModelInv, Ready, Deployed
  <2>2. Decoder!ScaleUsed > 0 BY <2>1 DEF Decoder!ScaleUsed
  <2>3. \A s \in 1 .. RowCount : Decoder!Initial[s].of = Decoder!Corners[s].of
    BY <1>4, <1>5 DEF Of
  <2> QED BY <1>1, <1>5, <2>2, <2>3 DEF Decoder!Boxes
<1>7. layer = LastLayer => Decoder!Logits = [s \in 1 .. RowCount |-> Of(Query(s), layer)]
  <2>1. SUFFICES ASSUME layer = LastLayer
                 PROVE  Decoder!Logits = [s \in 1 .. RowCount |-> Of(Query(s), layer)]
    OBVIOUS
  <2>2. \A s \in 1 .. RowCount :
          Decoder!Made(decoder.lqe[layer],
                       {Decoder!Made(decoder.score_head[layer], {Decoder!Output[s]}, {}),
                        Decoder!Corners[s]}, {}) = Of(Query(s), layer)
    <3>1. TAKE s \in 1 .. RowCount
    <3>2. Decoder!Output[s] = Of(Query(s), layer) /\ Decoder!Corners[s] = Of(Query(s), layer)
      BY <1>3, <1>5
    <3>3. Decoder!Made(decoder.score_head[layer], {Of(Query(s), layer)}, {}) = Of(Query(s), layer)
      BY <2>1, SlotMade
    <3>4. Decoder!Made(decoder.lqe[layer], {Of(Query(s), layer), Of(Query(s), layer)}, {})
            = Of(Query(s), layer)
      BY <2>1, SlotMade
    <3> QED BY <3>2, <3>3, <3>4
  <2> QED BY <1>1, <2>2 DEF Decoder!Logits
<1> QED BY <1>1, <1>2, <1>4, <1>5, <1>6, <1>7

LEMMA DecoderFlowInit ==
    ASSUME Decoder!DecoderAssumption, Decoder!Init
    PROVE  FlowInv
<1>1. pc = "load" /\ meta = Nothing /\ layer = 0 /\ rows = Decoder!NoRows
  BY DEF Decoder!Init
<1>2. content \in [Position -> Int] /\ rank \in [Position -> Int]
  BY DEF Decoder!Init
<1> QED BY <1>1, <1>2 DEF FlowInv, MetaInv, Running

\* Before forward runs.
LEMMA EarlyInv ==
    ASSUME Decoder!DecoderAssumption, ModelInv, FlowInv,
           Decoder!ApplySliders \/ Decoder!Deploy \/ Decoder!CollectMeta
    PROVE  FlowInv'
<1>1. /\ pc \in {"load", "deploy", "meta"} /\ pc' \in {"deploy", "refused", "meta", "image"}
      /\ args' = args /\ content' = content /\ rank' = rank /\ layer' = layer /\ rows' = rows
      /\ meta = Nothing /\ layer = 0 /\ rows = Decoder!NoRows
      /\ content \in [Position -> Int] /\ rank \in [Position -> Int]
  BY DEF Decoder!ApplySliders, Decoder!Deploy, Decoder!CollectMeta, FlowInv, MetaInv, Running
<1>2. pc' \notin Running /\ pc' # "crashed" /\ pc' # "done" /\ Decoder!NoRows' = Decoder!NoRows
  BY <1>1 DEF Running, Decoder!NoRows
<1>3. CASE pc' # "image"
  <2>1. meta' = Nothing
    BY <1>1, <1>3 DEF Decoder!ApplySliders, Decoder!Deploy, Decoder!CollectMeta
  <2> QED BY <1>1, <1>2, <1>3, <2>1 DEF FlowInv, MetaInv, Running
<1>4. CASE pc' = "image"
  <2>1. Decoder!CollectMeta
    BY <1>4 DEF Decoder!ApplySliders, Decoder!Deploy
  <2>2. pc = "meta" /\ Accepted /\ Deployed /\ Sliders
    BY <2>1 DEF Decoder!CollectMeta, ModelInv, Ready
  <2>3. Decoder!LayerCount = LastLayer + 1
    <3>1. PICK b \in Int : b = LastLayer /\ ~(0 > b) /\ b - 0 + 1 = LastLayer + 1
      BY <2>2, DecoderFacts DEF Accepted
    <3>2. Cardinality(0 .. b) = b - 0 + 1 BY <3>1, FS_Interval
    <3> QED BY <2>2, <3>1, <3>2, DecoderCardinality DEF Decoder!LayerCount, Deployed
  <2>4. meta' = Told
    <3>1. Decoder!QueriesOut = IF Prunes THEN args.cascade.keep ELSE Queries
      BY <2>2 DEF Decoder!QueriesOut, Prunes, Sliders
    <3>2. decoder.num_queries = Queries /\ decoder.heads_exit = LastLayer
      BY <2>2 DEF Sliders
    <3> QED BY <2>1, <2>3, <3>1, <3>2 DEF Decoder!CollectMeta, Told
  <2>5. Told' = Told BY <1>1 DEF Told, Prunes, Queries, LastLayer
  <2> QED BY <1>1, <1>2, <1>4, <2>4, <2>5 DEF FlowInv, MetaInv, Running
<1> QED BY <1>3, <1>4

LEMMA SelectInv ==
    ASSUME Decoder!DecoderAssumption, ModelInv, FlowInv, Decoder!SelectQueries
    PROVE  FlowInv'
<1>1. /\ pc = "image" /\ args' = args /\ decoder' = decoder /\ meta' = meta /\ layer' = 0
      /\ meta = Told /\ rows = Decoder!NoRows /\ Accepted /\ Sliders
  BY DEF Decoder!SelectQueries, FlowInv, MetaInv, Running, ModelInv, Ready
<1>2. content' \in [Position -> Int] /\ rank' \in [Position -> Int]
  BY DecoderFacts DEF Decoder!SelectQueries
<1>3. /\ LastLayer' = LastLayer /\ Queries' = Queries /\ (Prunes' <=> Prunes) /\ Told' = Told
      /\ Decoder!NoRows' = Decoder!NoRows
  BY <1>1 DEF Told, Prunes, Queries, LastLayer, Decoder!NoRows
<1>4. CASE decoder.num_queries > Cardinality(Position)
  <2>1. pc' = "crashed" /\ rows' = rows
    BY <1>4, DecoderCardinality DEF Decoder!SelectQueries
  <2>2. args.num_queries # Nothing /\ args.num_queries > Cardinality(Position)
    <3>1. Queries > Cardinality(Position) BY <1>1, <1>4 DEF Sliders
    <3> QED BY <3>1, DecoderFacts DEF Queries
  <2> QED BY <1>1, <1>2, <1>3, <2>1, <2>2 DEF FlowInv, MetaInv, Running
<1>5. CASE ~(decoder.num_queries > Cardinality(Position))
  <2>1. PICK queries \in Decoder!TopK(Position, content', Queries) :
          /\ selected' = queries /\ pc' = "layer"
          /\ rows' = [output |-> Decoder!Start(queries), output_detach |-> Decoder!Start(queries),
                      corners |-> Decoder!Start(queries), refs |-> Decoder!Start(queries),
                      initial |-> Decoder!Start(queries)]
    BY <1>1, <1>5, DecoderCardinality DEF Decoder!SelectQueries, Sliders
  <2>2. Queries \in Nat \ {0} /\ LastLayer \in 0 .. NumLayers - 1 /\ NumLayers \in Nat \ {0}
    BY <1>1, DecoderFacts DEF Accepted
  <2>3. /\ queries \in [1 .. Queries -> Position]
        /\ \A a, b \in 1 .. Queries : a < b => queries[a] # queries[b]
        /\ \A e \in Position \ Decoder!Range(queries) :
             \A a \in 1 .. Queries : content'[queries[a]] >= content'[e]
    BY DEF Decoder!TopK
  <2>4. ~Pruned' /\ RowCount' = Queries
    <3>1. Prunes => args.cascade.k \in Int /\ ~(0 > args.cascade.k)
      BY <1>1, <2>2 DEF Accepted
    <3>2. ~Pruned' BY <1>1, <1>3, <3>1 DEF Pruned
    <3> QED BY <1>3, <3>2 DEF RowCount
  <2>5. Decoder!Start(queries) = [s \in 1 .. Queries |-> Of(queries[s], -1)]
    BY <2>3 DEF Decoder!Start, Of
  <2>6. /\ rows'.output = [s \in 1 .. Queries |-> Of(queries[s], -1)]
        /\ rows'.output_detach = [s \in 1 .. Queries |-> Of(queries[s], -1)]
        /\ rows'.corners = [s \in 1 .. Queries |-> Of(queries[s], -1)]
        /\ rows'.refs = [s \in 1 .. Queries |-> Of(queries[s], -1)]
        /\ rows'.initial = [s \in 1 .. Queries |-> Of(queries[s], -1)]
    BY <2>1, <2>5
  <2>7. \A s \in 1 .. Queries : Query(s)' = queries[s]
    BY <2>6 DEF Query, Of
  <2>8. [s \in 1 .. Queries |-> Of(queries[s], -1)] \in Tensor'
    <3>1. \A s \in 1 .. Queries : Of(queries[s], -1) \in [of : Position, at : -1 .. NumLayers - 1]
      BY <2>2, <2>3 DEF Of
    <3> QED BY <2>4, <3>1 DEF Tensor
  <2>9. RowsInv'
    <3>1. layer' \in 0 .. LastLayer' BY <1>1, <1>3, <2>2
    <3>2. rows' \in [output : Tensor', output_detach : Tensor', corners : Tensor', refs : Tensor',
                     initial : Tensor']
      BY <2>1, <2>5, <2>8
    <3>3. layer' - 1 = -1 /\ layer' = 0 BY <1>1
    <3>4. /\ \A s \in 1 .. Queries : rows'.output[s] = Of(queries[s], -1)
          /\ \A s \in 1 .. Queries : rows'.output_detach[s] = Of(queries[s], -1)
          /\ \A s \in 1 .. Queries : rows'.corners[s] = Of(queries[s], -1)
          /\ \A s \in 1 .. Queries : rows'.refs[s] = Of(queries[s], -1)
          /\ \A s \in 1 .. Queries : rows'.initial[s] = Of(queries[s], -1)
      BY <2>6
    <3> QED BY <2>4, <2>7, <3>1, <3>2, <3>3, <3>4 DEF RowsInv
  <2>10. BestInv'
    <3>1. \A a, b \in 1 .. Queries : queries[a] = queries[b] => a = b
      <4>1. SUFFICES ASSUME NEW a \in 1 .. Queries, NEW b \in 1 .. Queries, queries[a] = queries[b],
                            a # b
                     PROVE  FALSE
        OBVIOUS
      <4>2. a < b \/ b < a BY <2>2, <4>1
      <4> QED BY <2>3, <4>1, <4>2
    <3>2. \A c \in Position : \/ \E a \in 1 .. Queries : queries[a] = c
                              \/ \A a \in 1 .. Queries : content'[queries[a]] >= content'[c]
      <4>1. TAKE c \in Position
      <4>2. CASE c \in Decoder!Range(queries)
        BY <2>3, <4>2 DEF Decoder!Range
      <4>3. CASE c \notin Decoder!Range(queries) BY <2>3, <4>3
      <4> QED BY <4>2, <4>3
    <3> QED BY <1>3, <2>1, <2>3, <2>4, <2>7, <3>1, <3>2 DEF BestInv
  <2> QED BY <1>1, <1>2, <1>3, <2>1, <2>9, <2>10 DEF FlowInv, MetaInv, Running
<1> QED BY <1>4, <1>5

LEMMA ReturnInv ==
    ASSUME Decoder!DecoderAssumption, ModelInv, FlowInv, Decoder!Return
    PROVE  FlowInv'
<1>1. /\ pc = "layer" /\ pc' = "done" /\ args' = args /\ decoder' = decoder /\ meta' = meta
      /\ content' = content /\ rank' = rank /\ layer' = layer /\ rows' = rows
         /\ selected' = selected
      /\ layer = decoder.exit /\ out' = [boxes |-> Decoder!Boxes, logits |-> Decoder!Logits]
      /\ RowsInv /\ BestInv /\ MetaInv /\ Accepted /\ Sliders
  BY DEF Decoder!Return, FlowInv, Running, ModelInv, Ready
<1>2. layer = LastLayer BY <1>1 DEF Sliders
<1>3. /\ LastLayer' = LastLayer /\ Queries' = Queries /\ (Prunes' <=> Prunes) /\ Told' = Told
      /\ (Pruned' <=> Pruned) /\ RowCount' = RowCount /\ Tensor' = Tensor
  BY <1>1 DEF Told, Prunes, Queries, LastLayer, Pruned, RowCount, Tensor
<1>4. \A s : Query(s)' = Query(s) BY <1>1 DEF Query
<1>5. RowsInv' BY <1>1, <1>3, <1>4 DEF RowsInv
<1>6. BestInv' BY <1>1, <1>3, <1>4 DEF BestInv
<1>7. OutInv'
  <2>1. out' = [boxes |-> [s \in 1 .. RowCount |-> Of(Query(s), LastLayer)],
                logits |-> [s \in 1 .. RowCount |-> Of(Query(s), LastLayer)]]
    BY <1>1, <1>2, LayerMade
  <2> QED BY <1>1, <1>2, <1>3, <1>4, <2>1 DEF OutInv
<1>8. MetaInv' BY <1>1, <1>3 DEF MetaInv, Running
<1> QED BY <1>1, <1>5, <1>6, <1>7, <1>8 DEF FlowInv, Running

\* A layer leaves each slot the next row of one query, its own or, of a pruned slot, a kept one's.
LEMMA SlotsKept ==
    ASSUME Decoder!DecoderAssumption, ModelInv, FlowInv, Decoder!NextLayer
    PROVE  \E slots \in [1 .. RowCount' -> 1 .. RowCount] :
             /\ rows' = [output |-> [s \in 1 .. RowCount' |-> Of(Query(slots[s]), layer)],
                         output_detach |-> [s \in 1 .. RowCount' |-> Of(Query(slots[s]), layer)],
                         corners |-> [s \in 1 .. RowCount' |-> Of(Query(slots[s]), layer)],
                         refs |-> [s \in 1 .. RowCount' |-> Of(Query(slots[s]), layer)],
                         initial |-> [s \in 1 .. RowCount' |-> Of(Query(slots[s]), 0)]]
             /\ \A a, b \in 1 .. RowCount' : slots[a] = slots[b] => a = b
             /\ \/ /\ RowCount' = RowCount /\ (Pruned' <=> Pruned)
                   /\ \A s \in 1 .. RowCount : slots[s] = s
                \/ /\ ~Pruned /\ Pruned'
                   /\ \A d \in 1 .. RowCount :
                        \/ \E s \in 1 .. RowCount' : slots[s] = d
                        \/ \A s \in 1 .. RowCount' : rank[Query(slots[s])] >= rank[Query(d)]
<1>1. /\ pc = "layer" /\ args' = args /\ layer' = layer + 1 /\ RowsInv /\ Accepted /\ Sliders
      /\ layer # decoder.exit
  BY DEF Decoder!NextLayer, FlowInv, Running, ModelInv, Ready
<1>2. /\ layer \in Int /\ LastLayer \in Int /\ Queries \in Nat \ {0} /\ NumLayers \in Nat \ {0}
      /\ 0 <= layer
      /\ Prunes => args.cascade.k \in Int /\ args.cascade.keep \in Nat \ {0}
  BY <1>1, DecoderFacts DEF RowsInv, Accepted
<1>3. Queries' = Queries /\ (Prunes' <=> Prunes)
  BY <1>1 DEF Prunes, Queries
<1>4. Decoder!Prunes <=> (Prunes /\ layer = args.cascade.k)
  <2>1. CASE ~Prunes
    BY <1>1, <2>1 DEF Sliders, CascadeSet, Decoder!Prunes
  <2>2. CASE Prunes
    <3>1. PICK k \in Int, n \in Int : k = args.cascade.k /\ n = args.cascade.keep
      BY <1>2, <2>2
    <3>2. decoder.cascade = [k |-> k, keep |-> n, head |-> k]
      BY <1>1, <2>2, <3>1 DEF Sliders, CascadeSet
    <3>3. decoder.cascade \in [k : Int, keep : Int, head : Int] /\ decoder.cascade.k = k
      BY <3>2
    <3>4. decoder.cascade # Nothing BY <3>3, DecoderFacts
    <3> QED BY <2>2, <3>1, <3>3, <3>4 DEF Decoder!Prunes
  <2> QED BY <2>1, <2>2
<1>5. RowCount \in Nat BY <1>2 DEF RowCount, Pruned
<1> DEFINE Now == [s \in 1 .. RowCount |-> Of(Query(s), layer)]
           First == [s \in 1 .. RowCount |-> Of(Query(s), 0)]
<1>6. Decoder!Refined = [output |-> Now, output_detach |-> Now, corners |-> Now, refs |-> Now,
                         initial |-> First]
  BY <1>1, LayerMade DEF Decoder!Refined
<1>7. CASE ~Decoder!Prunes
  <2>1. (Pruned' <=> Pruned) /\ RowCount' = RowCount
    BY <1>1, <1>2, <1>3, <1>4, <1>7 DEF Pruned, RowCount
  <2>2. PICK slots : slots = [s \in 1 .. RowCount |-> s] OBVIOUS
  <2>3. slots \in [1 .. RowCount' -> 1 .. RowCount] /\ \A s \in 1 .. RowCount : slots[s] = s
    BY <2>1, <2>2
  <2>4. /\ [s \in 1 .. RowCount' |-> Of(Query(slots[s]), layer)] = Now
        /\ [s \in 1 .. RowCount' |-> Of(Query(slots[s]), 0)] = First
    BY <2>1, <2>3
  <2>5. rows' = [output |-> Now, output_detach |-> Now, corners |-> Now, refs |-> Now,
                 initial |-> First]
    BY <1>6, <1>7 DEF Decoder!NextLayer
  <2> HIDE DEF Now, First
  <2>6. rows' = [output |-> [s \in 1 .. RowCount' |-> Of(Query(slots[s]), layer)],
                 output_detach |-> [s \in 1 .. RowCount' |-> Of(Query(slots[s]), layer)],
                 corners |-> [s \in 1 .. RowCount' |-> Of(Query(slots[s]), layer)],
                 refs |-> [s \in 1 .. RowCount' |-> Of(Query(slots[s]), layer)],
                 initial |-> [s \in 1 .. RowCount' |-> Of(Query(slots[s]), 0)]]
    BY <2>4, <2>5
  <2>7. \A a, b \in 1 .. RowCount' : slots[a] = slots[b] => a = b
    BY <2>1, <2>3
  <2> QED BY <2>1, <2>3, <2>6, <2>7
<1>8. CASE Decoder!Prunes
  <2>1. /\ Prunes /\ layer = args.cascade.k /\ ~Pruned /\ Pruned'
        /\ RowCount = Queries /\ RowCount' = args.cascade.keep
    <3>1. Prunes /\ layer = args.cascade.k BY <1>4, <1>8
    <3>2. ~Pruned BY <1>2, <3>1 DEF Pruned
    <3>3. Pruned' BY <1>1, <1>2, <1>3, <3>1 DEF Pruned
    <3> QED BY <1>1, <3>1, <3>2, <3>3 DEF RowCount
  <2>2. decoder.cascade.keep = args.cascade.keep /\ decoder.cascade.head = layer
    BY <1>1, <2>1 DEF Sliders, CascadeSet
  <2>3. PICK slots \in Decoder!Kept : rows' = Decoder!Gather(slots)
    BY <1>8 DEF Decoder!NextLayer
  <2>4. PICK score : score = [s \in Decoder!Slots |->
                                IF decoder.cascade.head = layer THEN rank[Decoder!Output[s].of]
                                  ELSE 0]
    OBVIOUS
  <2>5. score = [s \in 1 .. RowCount |-> rank[Query(s)]]
    <3>1. Decoder!Slots = 1 .. RowCount /\ Decoder!Output = Now
      BY <1>1, LayerMade
    <3>2. \A s \in 1 .. RowCount : Decoder!Output[s].of = Query(s)
      BY <3>1 DEF Of
    <3> QED BY <2>2, <2>4, <3>1, <3>2
  <2>6. slots \in Decoder!TopK(1 .. RowCount, score, RowCount')
    BY <1>1, <2>1, <2>2, <2>3, <2>4, LayerMade DEF Decoder!Kept
  <2>7. /\ slots \in [1 .. RowCount' -> 1 .. RowCount]
        /\ \A a, b \in 1 .. RowCount' : a < b => slots[a] # slots[b]
        /\ \A e \in (1 .. RowCount) \ Decoder!Range(slots) :
             \A a \in 1 .. RowCount' : score[slots[a]] >= score[e]
    BY <2>6 DEF Decoder!TopK
  <2>8. \A a, b \in 1 .. RowCount' : slots[a] = slots[b] => a = b
    <3>1. SUFFICES ASSUME NEW a \in 1 .. RowCount', NEW b \in 1 .. RowCount', slots[a] = slots[b],
                          a # b
                   PROVE  FALSE
      OBVIOUS
    <3>2. a < b \/ b < a BY <1>2, <2>1, <3>1
    <3> QED BY <2>7, <3>1, <3>2
  <2>9. \A d \in 1 .. RowCount : \/ \E s \in 1 .. RowCount' : slots[s] = d
                                 \/ \A s \in 1 .. RowCount' :
                                    rank[Query(slots[s])] >= rank[Query(d)]
    <3>1. TAKE d \in 1 .. RowCount
    <3>2. CASE d \in Decoder!Range(slots)
      BY <2>7, <3>2 DEF Decoder!Range
    <3>3. CASE d \notin Decoder!Range(slots) BY <2>5, <2>7, <3>3
    <3> QED BY <3>2, <3>3
  <2>10. /\ \A s \in 1 .. RowCount' : Now[slots[s]] = Of(Query(slots[s]), layer)
         /\ \A s \in 1 .. RowCount' : First[slots[s]] = Of(Query(slots[s]), 0)
    BY <2>7
  <2>11. DOMAIN slots = 1 .. RowCount' BY <2>7
  <2>12. rows' = [output |-> [s \in 1 .. RowCount' |-> Now[slots[s]]],
                  output_detach |-> [s \in 1 .. RowCount' |-> Now[slots[s]]],
                  corners |-> [s \in 1 .. RowCount' |-> Now[slots[s]]],
                  refs |-> [s \in 1 .. RowCount' |-> Now[slots[s]]],
                  initial |-> [s \in 1 .. RowCount' |-> First[slots[s]]]]
    <3> HIDE DEF Now, First
    <3>1. PICK r : r = Decoder!Refined OBVIOUS
    <3>2. /\ DOMAIN r = {"output", "output_detach", "corners", "refs", "initial"}
          /\ r.output = Now /\ r.output_detach = Now /\ r.corners = Now /\ r.refs = Now
          /\ r.initial = First
      BY <1>6, <3>1
    <3>3. rows' = [t \in DOMAIN r |-> [s \in 1 .. RowCount' |-> r[t][slots[s]]]]
      BY <2>3, <2>11, <3>1 DEF Decoder!Gather
    <3> QED BY <3>2, <3>3
  <2>13. /\ [s \in 1 .. RowCount' |-> Now[slots[s]]]
              = [s \in 1 .. RowCount' |-> Of(Query(slots[s]), layer)]
         /\ [s \in 1 .. RowCount' |-> First[slots[s]]]
              = [s \in 1 .. RowCount' |-> Of(Query(slots[s]), 0)]
    BY <2>10
  <2> HIDE DEF Now, First
  <2> QED BY <2>1, <2>7, <2>8, <2>9, <2>12, <2>13
<1> QED BY <1>7, <1>8

LEMMA LayerInv ==
    ASSUME Decoder!DecoderAssumption, ModelInv, FlowInv, Decoder!NextLayer
    PROVE  FlowInv'
<1>1. /\ pc = "layer" /\ pc' = "layer" /\ args' = args /\ decoder' = decoder /\ meta' = meta
      /\ content' = content /\ rank' = rank /\ layer' = layer + 1 /\ selected' = selected
      /\ layer # decoder.exit /\ RowsInv /\ BestInv /\ MetaInv /\ Accepted /\ Sliders
  BY DEF Decoder!NextLayer, FlowInv, Running, ModelInv, Ready
<1>2. /\ layer \in Int /\ 0 <= layer /\ layer < LastLayer /\ LastLayer \in 0 .. NumLayers - 1
      /\ NumLayers \in Nat \ {0}
  BY <1>1, DecoderFacts DEF RowsInv, Accepted, Sliders
<1>3. LastLayer' = LastLayer /\ Queries' = Queries /\ (Prunes' <=> Prunes) /\ Told' = Told
  BY <1>1 DEF Told, Prunes, Queries, LastLayer
<1>4. PICK slots \in [1 .. RowCount' -> 1 .. RowCount] :
        /\ rows' = [output |-> [s \in 1 .. RowCount' |-> Of(Query(slots[s]), layer)],
                    output_detach |-> [s \in 1 .. RowCount' |-> Of(Query(slots[s]), layer)],
                    corners |-> [s \in 1 .. RowCount' |-> Of(Query(slots[s]), layer)],
                    refs |-> [s \in 1 .. RowCount' |-> Of(Query(slots[s]), layer)],
                    initial |-> [s \in 1 .. RowCount' |-> Of(Query(slots[s]), 0)]]
        /\ \A a, b \in 1 .. RowCount' : slots[a] = slots[b] => a = b
        /\ \/ /\ RowCount' = RowCount /\ (Pruned' <=> Pruned)
              /\ \A s \in 1 .. RowCount : slots[s] = s
           \/ /\ ~Pruned /\ Pruned'
              /\ \A d \in 1 .. RowCount :
                   \/ \E s \in 1 .. RowCount' : slots[s] = d
                   \/ \A s \in 1 .. RowCount' : rank[Query(slots[s])] >= rank[Query(d)]
  BY SlotsKept
<1>5. \A s \in 1 .. RowCount' : slots[s] \in 1 .. RowCount /\ Query(slots[s]) \in Position
  BY <1>1 DEF RowsInv, Tensor, Query
<1>6. \A s \in 1 .. RowCount' : /\ rows'.output[s] = Of(Query(slots[s]), layer)
                                /\ rows'.output_detach[s] = Of(Query(slots[s]), layer)
                                /\ rows'.corners[s] = Of(Query(slots[s]), layer)
                                /\ rows'.refs[s] = Of(Query(slots[s]), layer)
                                /\ rows'.initial[s] = Of(Query(slots[s]), 0)
  BY <1>4
<1>7. \A s \in 1 .. RowCount' : Query(s)' = Query(slots[s])
  <2>1. \A c, n : Of(c, n).of = c BY DEF Of
  <2>2. \A s \in 1 .. RowCount' : rows'.output[s].of = Query(slots[s])
    BY <1>6, <2>1
  <2> QED BY <2>2 DEF Query
<1>8. RowsInv'
  <2>1. layer' \in 0 .. LastLayer' /\ layer' - 1 = layer /\ layer' # 0
    BY <1>1, <1>2, <1>3
  <2>2. \A s \in 1 .. RowCount' :
          /\ Of(Query(slots[s]), layer) \in [of : Position, at : -1 .. NumLayers - 1]
          /\ Of(Query(slots[s]), 0) \in [of : Position, at : -1 .. NumLayers - 1]
    BY <1>2, <1>5 DEF Of
  <2>3. /\ [s \in 1 .. RowCount' |-> Of(Query(slots[s]), layer)] \in Tensor'
        /\ [s \in 1 .. RowCount' |-> Of(Query(slots[s]), 0)] \in Tensor'
    BY <2>2 DEF Tensor
  <2>4. rows' \in [output : Tensor', output_detach : Tensor', corners : Tensor', refs : Tensor',
                   initial : Tensor']
    BY <1>4, <2>3
  <2> QED BY <1>6, <1>7, <2>1, <2>4 DEF RowsInv
<1>9. BestInv'
  <2>1. \A a, b \in 1 .. RowCount' : Query(a)' = Query(b)' => a = b
    <3>1. SUFFICES ASSUME NEW a \in 1 .. RowCount', NEW b \in 1 .. RowCount', Query(a)' = Query(b)'
                   PROVE  a = b
      OBVIOUS
    <3>2. Query(slots[a]) = Query(slots[b]) BY <1>7, <3>1
    <3>3. slots[a] = slots[b] BY <1>1, <1>5, <3>2 DEF BestInv
    <3> QED BY <1>4, <3>3
  <2>2. \A s \in 1 .. RowCount' : \E a \in 1 .. Queries : Query(s)' = selected[a]
    BY <1>1, <1>5, <1>7 DEF BestInv
  <2>3. CASE /\ RowCount' = RowCount /\ (Pruned' <=> Pruned)
             /\ \A s \in 1 .. RowCount : slots[s] = s
    <3>1. \A s \in 1 .. RowCount : Query(s)' = Query(s) BY <1>7, <2>3
    <3>2. ~Pruned' => \A s \in 1 .. RowCount' : Query(s)' = selected[s]
      BY <1>1, <2>3, <3>1 DEF BestInv
    <3>3. Pruned' => \A a \in 1 .. Queries :
                       \/ \E s \in 1 .. RowCount' : Query(s)' = selected[a]
                       \/ \A s \in 1 .. RowCount' : rank[Query(s)'] >= rank[selected[a]]
      BY <1>1, <2>3, <3>1 DEF BestInv
    <3> QED BY <1>1, <1>3, <2>1, <2>2, <3>2, <3>3 DEF BestInv
  <2>4. CASE /\ ~Pruned /\ Pruned'
             /\ \A d \in 1 .. RowCount :
                  \/ \E s \in 1 .. RowCount' : slots[s] = d
                  \/ \A s \in 1 .. RowCount' : rank[Query(slots[s])] >= rank[Query(d)]
    <3>1. RowCount = Queries /\ \A a \in 1 .. Queries : Query(a) = selected[a]
      BY <1>1, <2>4 DEF BestInv, RowCount
    <3>2. \A a \in 1 .. Queries : \/ \E s \in 1 .. RowCount' : Query(s)' = selected[a]
                                  \/ \A s \in 1 .. RowCount' : rank[Query(s)'] >= rank[selected[a]]
      <4>1. TAKE a \in 1 .. Queries
      <4>2. CASE \E s \in 1 .. RowCount' : slots[s] = a
        BY <1>7, <3>1, <4>2
      <4>3. CASE \A s \in 1 .. RowCount' : rank[Query(slots[s])] >= rank[Query(a)]
        BY <1>7, <3>1, <4>3
      <4> QED BY <2>4, <3>1, <4>2, <4>3
    <3> QED BY <1>1, <1>3, <2>1, <2>2, <2>4, <3>2 DEF BestInv
  <2> QED BY <1>4, <2>3, <2>4
<1>10. MetaInv' BY <1>1, <1>3 DEF MetaInv, Running
<1> QED BY <1>1, <1>8, <1>9, <1>10 DEF FlowInv, Running

LEMMA FlowStep ==
    ASSUME Decoder!DecoderAssumption, ModelInv, FlowInv, [Decoder!Next]_(Decoder!vars)
    PROVE  FlowInv'
<1>1. CASE Decoder!ApplySliders \/ Decoder!Deploy \/ Decoder!CollectMeta
  BY <1>1, EarlyInv
<1>2. CASE Decoder!SelectQueries BY <1>2, SelectInv
<1>3. CASE Decoder!NextLayer BY <1>3, LayerInv
<1>4. CASE Decoder!Return BY <1>4, ReturnInv
<1>5. CASE UNCHANGED Decoder!vars
  <2>1. /\ args' = args /\ decoder' = decoder /\ pc' = pc /\ meta' = meta /\ content' = content
        /\ rank' = rank /\ layer' = layer /\ rows' = rows /\ selected' = selected /\ out' = out
    BY <1>5 DEF Decoder!vars
  <2>2. /\ LastLayer' = LastLayer /\ Queries' = Queries /\ (Prunes' <=> Prunes) /\ Told' = Told
        /\ (Pruned' <=> Pruned) /\ RowCount' = RowCount /\ Tensor' = Tensor
        /\ Decoder!NoRows' = Decoder!NoRows
    BY <2>1 DEF Told, Prunes, Queries, LastLayer, Pruned, RowCount, Tensor, Decoder!NoRows
  <2>3. \A s : Query(s)' = Query(s) BY <2>1 DEF Query
  <2>4. MetaInv' <=> MetaInv BY <2>1, <2>2 DEF MetaInv
  <2>5. RowsInv' <=> RowsInv BY <2>1, <2>2, <2>3 DEF RowsInv
  <2>6. BestInv => BestInv' BY <2>1, <2>2, <2>3 DEF BestInv
  <2>7. OutInv' <=> OutInv BY <2>1, <2>2, <2>3 DEF OutInv
  <2> QED BY <2>1, <2>4, <2>5, <2>6, <2>7 DEF FlowInv
<1> QED BY <1>1, <1>2, <1>3, <1>4, <1>5 DEF Decoder!Next

LEMMA DecoderTyped ==
    ASSUME Decoder!DecoderAssumption, ModelInv, FlowInv
    PROVE  Decoder!TypeOK
<1>1. pc \in {"load", "deploy", "meta", "image", "layer", "done", "refused", "crashed"}
  BY DEF ModelInv, Ready
<1>2. {args.eval_idx, args.num_queries} \ {Nothing} \subseteq Int
  BY DEF ModelInv, Decoder!DecoderAssumption
<1>3. content \in [Position -> Int] /\ rank \in [Position -> Int]
  BY DEF FlowInv, MetaInv
<1>4. layer \in 0 .. NumLayers
  <2>1. CASE pc \in Running
    BY <2>1, DecoderFacts DEF FlowInv, RowsInv, Accepted, ModelInv, Ready, Running
  <2>2. CASE pc \notin Running
    BY <2>2, DecoderFacts DEF FlowInv, MetaInv
  <2> QED BY <2>1, <2>2
<1>5. \A t \in DOMAIN rows : \A s \in DOMAIN rows[t] : rows[t][s] \in Decoder!Row
  <2>1. CASE pc \in Running
    <3>1. DOMAIN rows = {"output", "output_detach", "corners", "refs", "initial"}
      BY <2>1 DEF FlowInv, RowsInv
    <3>2. /\ rows["output"] \in Tensor /\ rows["output_detach"] \in Tensor
             /\ rows["corners"] \in Tensor
          /\ rows["refs"] \in Tensor /\ rows["initial"] \in Tensor
      BY <2>1 DEF FlowInv, RowsInv
    <3>3. [of : Position, at : -1 .. NumLayers - 1] \subseteq Decoder!Row
      BY DEF Decoder!Row
    <3> QED BY <3>1, <3>2, <3>3 DEF Tensor
  <2>2. CASE pc \notin Running
    <3>1. rows = Decoder!NoRows BY <2>2 DEF FlowInv, MetaInv
    <3> QED BY <3>1 DEF Decoder!NoRows
  <2> QED BY <2>1, <2>2
<1>6. meta # Nothing => meta.num_queries \in 1 .. decoder.num_queries
  <2>1. SUFFICES ASSUME meta # Nothing
                 PROVE  meta.num_queries \in 1 .. decoder.num_queries
    OBVIOUS
  <2>2. meta = Told /\ Accepted /\ Sliders
    BY <2>1 DEF FlowInv, MetaInv, ModelInv, Ready
  <2> QED BY <2>2 DEF Told, Accepted, Sliders
<1> QED BY <1>1, <1>2, <1>3, <1>4, <1>5, <1>6 DEF Decoder!TypeOK

LEMMA DecoderPromises ==
    ASSUME Decoder!DecoderAssumption, ModelInv, FlowInv
    PROVE  /\ Decoder!TypeOK /\ Decoder!RowsAreTrained /\ Decoder!SidecarDescribesGraph
           /\ Decoder!BestQueriesKept /\ Decoder!AcceptedSlidersRun
<1>1. Decoder!TypeOK BY DecoderTyped
<1>2. Decoder!AcceptedSlidersRun
  <2>1. ASSUME pc = "layer" PROVE layer \in DOMAIN decoder.layers /\ layer <= decoder.exit
    <3>1. RowsInv /\ Deployed /\ Sliders /\ Accepted
      BY <2>1 DEF FlowInv, Running, ModelInv, Ready
    <3> QED BY <3>1 DEF RowsInv, Deployed, Sliders, Accepted
  <2>2. ASSUME pc = "crashed" PROVE Decoder!TooManyQueries
    BY <2>2, DecoderCardinality DEF FlowInv, MetaInv, Decoder!TooManyQueries
  <2> QED BY <2>1, <2>2 DEF Decoder!AcceptedSlidersRun
<1>3. SUFFICES ASSUME pc = "done"
               PROVE  /\ Decoder!RowsAreTrained /\ Decoder!SidecarDescribesGraph
                      /\ Decoder!BestQueriesKept
  BY <1>1, <1>2
     DEF Decoder!RowsAreTrained, Decoder!SidecarDescribesGraph, Decoder!BestQueriesKept
<1>4. RowsInv /\ BestInv /\ OutInv /\ Deployed /\ Sliders /\ Accepted /\ meta = Told
  BY <1>3 DEF FlowInv, Running, MetaInv, ModelInv, Ready
<1>5. /\ layer = LastLayer /\ LastLayer \in Int /\ RowCount \in Nat /\ Queries \in Nat \ {0}
      /\ Prunes => args.cascade.k < LastLayer
      /\ RowCount = IF Prunes THEN args.cascade.keep ELSE Queries
      /\ Pruned <=> Prunes
  <2>1. layer = LastLayer /\ LastLayer \in Int /\ Queries \in Nat \ {0}
    BY <1>4, DecoderFacts DEF OutInv, Accepted
  <2>2. Prunes => args.cascade.k < LastLayer /\ args.cascade.k \in Int /\ args.cascade.keep \in Nat
    BY <1>4, DecoderFacts DEF Accepted
  <2>3. Pruned <=> Prunes BY <2>1, <2>2 DEF Pruned
  <2> QED BY <2>1, <2>2, <2>3 DEF RowCount
<1>6. /\ out.boxes = [s \in 1 .. RowCount |-> Of(Query(s), LastLayer)]
      /\ out.logits = [s \in 1 .. RowCount |-> Of(Query(s), LastLayer)]
  BY <1>4 DEF OutInv
<1>7. \A s \in 1 .. RowCount : Query(s) \in Position
  BY <1>4 DEF RowsInv, Tensor, Query
<1>8. \A c, n : Of(c, n).of = c /\ Of(c, n).at = n BY DEF Of
<1>9. \A s \in 1 .. RowCount : out.logits[s].of = Query(s) /\ out.logits[s].at = LastLayer
  BY <1>6, <1>8
<1>10. Decoder!RowsAreTrained
  BY <1>6, <1>7, <1>9 DEF Decoder!RowsAreTrained, LastLayer
<1>11. Len(out.logits) = RowCount
  <2>1. \A s \in 1 .. RowCount : out.logits[s] \in [of : Position, at : Int]
    BY <1>5, <1>6, <1>7 DEF Of
  <2>2. out.logits \in [1 .. RowCount -> [of : Position, at : Int]]
    BY <1>6, <2>1
  <2> QED BY <1>5, <2>2
<1>12. Len(selected) = Queries
  <2>1. selected \in [1 .. Queries -> Position] BY <1>4 DEF BestInv
  <2> QED BY <1>5, <2>1
<1>13. Decoder!SidecarDescribesGraph
  BY <1>4, <1>5, <1>11, <1>12 DEF Decoder!SidecarDescribesGraph, Told
<1>14. DOMAIN out.logits = 1 .. RowCount BY <1>6
<1> DEFINE returned == {out.logits[s].of : s \in DOMAIN out.logits}
<1>15. returned = {Query(s) : s \in 1 .. RowCount} BY <1>9, <1>14
<1> HIDE DEF returned
<1>16. Cardinality(returned) = RowCount
  <2>1. PICK q : q = [s \in 1 .. RowCount |-> Query(s)] OBVIOUS
  <2>2. q \in Bijection(1 .. RowCount, returned)
    <3>1. \A a, b \in 1 .. RowCount : q[a] = q[b] => a = b
      BY <1>4, <2>1 DEF BestInv
    <3>2. q \in [1 .. RowCount -> returned] /\ \A t \in returned : \E s \in 1 .. RowCount : q[s] = t
      BY <1>15, <2>1
    <3> QED BY <3>1, <3>2 DEF Bijection, Injection, Surjection, IsInjective
  <2>3. ExistsBijection(1 .. RowCount, returned)
    BY <2>2 DEF ExistsBijection
  <2> QED BY <1>5, <2>3, FS_CountingElements
<1>17. \A c : c \in Decoder!Range(selected) <=> \E a \in 1 .. Queries : selected[a] = c
  BY <1>4 DEF BestInv, Decoder!Range
<1>18. returned \subseteq Decoder!Range(selected)
  BY <1>4, <1>15, <1>17 DEF BestInv
<1>19. \A q \in Decoder!Range(selected), c \in Position \ Decoder!Range(selected) :
    content[q] >= content[c]
  BY <1>4, <1>17 DEF BestInv
<1>20. \A q \in returned, d \in Decoder!Range(selected) \ returned : rank[q] >= rank[d]
  <2>1. SUFFICES ASSUME NEW q \in returned, NEW d \in Decoder!Range(selected), d \notin returned
                 PROVE  rank[q] >= rank[d]
    OBVIOUS
  <2>2. PICK a \in 1 .. Queries : selected[a] = d BY <1>17
  <2>3. PICK s \in 1 .. RowCount : Query(s) = q BY <1>15
  <2>4. \A t \in 1 .. RowCount : Query(t) # d BY <1>15, <2>1
  <2>5. CASE Pruned BY <1>4, <2>2, <2>3, <2>4, <2>5 DEF BestInv
  <2>6. CASE ~Pruned
    <3>1. RowCount = Queries BY <2>6 DEF RowCount
    <3>2. Query(a) = d BY <1>4, <2>2, <2>6, <3>1 DEF BestInv
    <3> QED BY <2>4, <3>1, <3>2
  <2> QED BY <2>5, <2>6
<1>21. Decoder!BestQueriesKept
  <2>1. Decoder!Cardinality(returned) = Len(out.logits)
    BY <1>11, <1>16, DecoderCardinality
  <2> QED BY <1>18, <1>19, <1>20, <2>1 DEF Decoder!BestQueriesKept, returned
<1> QED BY <1>10, <1>13, <1>21

LEMMA DecoderKept == Decoder!DecoderAssumption => (Decoder!Spec => [](ModelInv /\ FlowInv))
<1> SUFFICES ASSUME Decoder!DecoderAssumption PROVE Decoder!Spec => [](ModelInv /\ FlowInv)
  OBVIOUS
<1>1. Decoder!Init => ModelInv /\ FlowInv
  BY DecoderInit, DecoderFlowInit
<1>2. (ModelInv /\ FlowInv) /\ [Decoder!Next]_(Decoder!vars) => (ModelInv /\ FlowInv)'
  BY ModelStep, FlowStep
<1> QED BY <1>1, <1>2, PTL DEF Decoder!Spec

\* Whatever the sliders, the sizes of the model and the scores of an image, a row the graph
\* returns is what the trained layers and heads make of one query's own rows, no row is returned
\* twice or instead of a better one, and the sidecar counts the rows.
THEOREM RowsComeFromTrainedHeads == MakersSpec /\ program = variant => []RowsAreTrained
<1>1. CASE variant = "decoder"
  <2>1. Decoder!DecoderAssumption BY PartsAssumption
  <2>2. ModelInv /\ FlowInv => RowsAreTrained
    BY <2>1, DecoderPromises DEF RowsAreTrained
  <2> QED BY <1>1, <2>1, <2>2, DecoderRuns, DecoderKept, PTL
<1>2. CASE variant # "decoder"
  <2>1. program = variant => RowsAreTrained BY <1>2 DEF RowsAreTrained
  <2> QED BY <2>1, ProgramStays, PTL
<1> QED BY <1>1, <1>2

------------------------------
(* QueryGeometry *)

LEMMA GeometryRuns ==
    variant \in DOMAIN Geometries => (MakersSpec /\ program = variant => Geometry(variant)!Spec)
<1> SUFFICES ASSUME variant \in DOMAIN Geometries
             PROVE  MakersSpec /\ program = variant => Geometry(variant)!Spec
  OBVIOUS
<1>1. MakersInit /\ program = variant => Geometry(variant)!Init
  <2> SUFFICES ASSUME MakersInit, program = variant
               PROVE  Geometry(variant)!Init
    OBVIOUS
  <2>1. GeometryBegins
    BY NamesAssumption
       DEF MakersInit, Singles, ExportBegins, DecoderBegins, ConvertingBegins,
           ListBegins
  <2> QED BY <2>1 DEF GeometryBegins
<1>2. program = variant /\ [MakersNext]_MakersVars
    => [Geometry(variant)!Next]_(Geometry(variant)!vars)
  <2> SUFFICES ASSUME program = variant, [MakersNext]_MakersVars
               PROVE  [Geometry(variant)!Next]_(Geometry(variant)!vars)
    OBVIOUS
  <2>1. CASE MakersNext
    <3>1. GeometrySteps
      BY <2>1, NamesAssumption
         DEF MakersNext, Singles, ExportSteps, DecoderSteps, ConvertingSteps,
             ListSteps
    <3> QED BY <3>1 DEF GeometrySteps
  <2>2. CASE UNCHANGED MakersVars BY <2>2 DEF MakersVars, Geometry!vars
  <2> QED BY <2>1, <2>2
<1> QED BY <1>1, <1>2, ProgramStays, PTL DEF MakersSpec, Geometry!Spec

\* Induction over a set: no operator has to be instantiated.
LEMMA NatInductive ==
    ASSUME NEW S, 0 \in S, \A n \in Nat : n \in S => n + 1 \in S
    PROVE  Nat \subseteq S
<1> DEFINE R == OpToRel(<, Nat)
<1>1. IsWellFoundedOn(R, Nat) BY NatLessThanWellFounded
<1>2. \A a, b \in Nat : a < b => <<a, b>> \in R BY DEF OpToRel
<1> HIDE DEF R
<1> SUFFICES ASSUME Nat \ S # {}
             PROVE  FALSE
  OBVIOUS
<1>3. \E m \in Nat \ S : \A k \in Nat \ S : ~ (<<k, m>> \in R)
  BY <1>1, WFMin
<1>4. PICK m \in Nat \ S : \A k \in Nat \ S : ~ (<<k, m>> \in R) BY <1>3
<1>5. m # 0 /\ m - 1 \in Nat /\ m - 1 + 1 = m /\ m - 1 < m BY <1>4
<1>6. m - 1 \in S BY <1>2, <1>4, <1>5
<1> QED BY <1>4, <1>5, <1>6

\* g is the sequence of the partial sums of t.
Sums(N, t, g) ==
    g \in [0 .. N -> Nat] /\ g[0] = 0 /\ \A l \in 1 .. N : g[l] = g[l - 1] + t[l]

LEMMA SumsExist ==
    ASSUME NEW N \in Nat, NEW t \in [1 .. N -> Nat]
    PROVE  \E g : Sums(N, t, g)
<1> DEFINE S == {n \in Nat : n <= N => \E g : Sums(n, t, g)}
<1>1. 0 \in S
  <2>1. Sums(0, t, [l \in 0 .. 0 |-> 0]) BY DEF Sums
  <2> QED BY <2>1
<1>2. ASSUME NEW n \in Nat, n \in S
      PROVE  n + 1 \in S
  <2> SUFFICES ASSUME n + 1 <= N
               PROVE  \E g : Sums(n + 1, t, g)
    OBVIOUS
  <2>1. PICK g : Sums(n, t, g) BY <1>2
  <2> DEFINE h == [l \in 0 .. n + 1 |-> IF l = n + 1 THEN g[n] + t[n + 1] ELSE g[l]]
  <2>2. h \in [0 .. n + 1 -> Nat] BY <2>1, SMTT(60) DEF Sums
  <2>3. h[0] = 0 /\ \A l \in 1 .. n + 1 : h[l] = h[l - 1] + t[l]
    BY <2>1, SMTT(60) DEF Sums
  <2> HIDE DEF h
  <2>4. Sums(n + 1, t, h) BY <2>2, <2>3 DEF Sums
  <2> QED BY <2>4
<1> HIDE DEF S
<1>3. Nat \subseteq S BY <1>1, <1>2, NatInductive
<1> QED BY <1>3 DEF S

\* Sums of smaller parts are smaller, and are the same only if all parts are.
LEMMA SumsCompare ==
    ASSUME NEW N \in Nat, NEW t \in [1 .. N -> Nat], NEW u \in [1 .. N -> Nat],
           \A l \in 1 .. N : t[l] <= u[l],
           NEW g, NEW h, Sums(N, t, g), Sums(N, u, h), g[N] = h[N]
    PROVE  \A l \in 1 .. N : t[l] = u[l]
<1> DEFINE S == {n \in Nat : n <= N => g[n] <= h[n]}
           T == {k \in Nat : k <= N => g[N - k] = h[N - k]}
<1>1. 0 \in S BY DEF Sums
<1>2. ASSUME NEW n \in Nat, n \in S
      PROVE  n + 1 \in S
  <2> SUFFICES ASSUME n + 1 <= N
               PROVE  g[n + 1] <= h[n + 1]
    OBVIOUS
  <2>1. g[n] <= h[n] /\ n + 1 \in 1 .. N /\ n + 1 - 1 = n /\ n \in 0 .. N
    BY <1>2
  <2>2. g[n + 1] = g[n] + t[n + 1] /\ h[n + 1] = h[n] + u[n + 1]
    BY <2>1, SMTT(60) DEF Sums
  <2>3. g[n] \in Nat /\ h[n] \in Nat /\ t[n + 1] \in Nat /\ u[n + 1] \in Nat
    BY <2>1 DEF Sums
  <2> QED BY <2>1, <2>2, <2>3, SMTT(60)
<1>3. Nat \subseteq S
  <2> HIDE DEF S
  <2> QED BY <1>1, <1>2, NatInductive
<1>4. 0 \in T OBVIOUS
<1>5. \A l \in 1 .. N : g[l] = h[l] => g[l - 1] = h[l - 1] /\ t[l] = u[l]
  <2> TAKE l \in 1 .. N
  <2>1. g[l] = g[l - 1] + t[l] /\ h[l] = h[l - 1] + u[l] BY DEF Sums
  <2>2. l - 1 \in 0 .. N /\ l - 1 \in S BY <1>3
  <2>3. g[l - 1] <= h[l - 1] BY <2>2
  <2>4. g[l - 1] \in Nat /\ h[l - 1] \in Nat /\ t[l] \in Nat /\ u[l] \in Nat
    BY <2>2 DEF Sums
  <2>5. t[l] <= u[l] OBVIOUS
  <2> HIDE DEF S, T
  <2> DEFINE a == g[l - 1]
             b == h[l - 1]
             c == t[l]
             d == u[l]
  <2>6. a \in Nat /\ b \in Nat /\ c \in Nat /\ d \in Nat /\ a <= b /\ c <= d
    BY <2>3, <2>4, <2>5
  <2>7. g[l] = a + c /\ h[l] = b + d BY <2>1
  <2> HIDE DEF a, b, c, d
  <2>8. g[l] = h[l] => a = b /\ c = d BY <2>6, <2>7
  <2> QED BY <2>8 DEF a, b, c, d
<1>6. ASSUME NEW k \in Nat, k \in T
      PROVE  k + 1 \in T
  <2> SUFFICES ASSUME k + 1 <= N
               PROVE  g[N - (k + 1)] = h[N - (k + 1)]
    OBVIOUS
  <2>1. g[N - k] = h[N - k] /\ N - k \in 1 .. N /\ N - k - 1 = N - (k + 1)
    BY <1>6
  <2> QED BY <2>1, <1>5
<1>7. Nat \subseteq T
  <2> HIDE DEF T
  <2> QED BY <1>4, <1>6, NatInductive
<1> SUFFICES ASSUME NEW l \in 1 .. N
             PROVE  t[l] = u[l]
  OBVIOUS
<1>8. N - l \in Nat /\ N - l <= N /\ N - (N - l) = l OBVIOUS
<1>9. g[l] = h[l]
  <2>1. N - l \in T
    <3> HIDE DEF T
    <3> QED BY <1>7, <1>8
  <2>2. g[N - (N - l)] = h[N - (N - l)] BY <2>1, <1>8
  <2> QED BY <2>2, <1>8
<1> QED BY <1>5, <1>9

LEMMA Division ==
    ASSUME NEW n \in Nat, NEW s \in Nat \ {0}
    PROVE  n \div s \in Nat /\ n % s \in 0 .. s - 1 /\ n = s * (n \div s) + (n % s)
BY SMT

LEMMA Multiples ==
    ASSUME NEW q \in Nat, NEW p \in Nat, NEW s \in Nat \ {0},
           NEW r \in 0 .. s - 1, NEW t \in 0 .. s - 1
    PROVE  /\ s * q + r = s * p + t => q = p
           /\ s * q + r <= s * p + t => q <= p
<1>1. q < p => s * q + s <= s * p
  <2> SUFFICES ASSUME q < p
               PROVE  s * q + s <= s * p
    OBVIOUS
  <2>1. p - q \in Nat /\ p - q >= 1 /\ p = q + (p - q) OBVIOUS
  <2>2. s * p = s * q + s * (p - q) BY <2>1, SMT
  <2>3. s * (p - q) >= s BY <2>1, SMT
  <2> QED BY <2>2, <2>3, SMT
<1>2. p < q => s * p + s <= s * q
  <2> SUFFICES ASSUME p < q
               PROVE  s * p + s <= s * q
    OBVIOUS
  <2>1. q - p \in Nat /\ q - p >= 1 /\ q = p + (q - p) OBVIOUS
  <2>2. s * q = s * p + s * (q - p) BY <2>1, SMT
  <2>3. s * (q - p) >= s BY <2>1, SMT
  <2> QED BY <2>2, <2>3, SMT
<1> QED BY <1>1, <1>2, SMT

\* Rounding up and rounding down agree on the multiples, and only there.
LEMMA Rounding ==
    ASSUME NEW n \in Nat, NEW s \in Nat \ {0}
    PROVE  /\ n \div s \in Nat /\ (n + s - 1) \div s \in Nat
           /\ n \div s <= (n + s - 1) \div s
           /\ n \div s = (n + s - 1) \div s <=> n % s = 0
<1> DEFINE q == n \div s
           r == n % s
           p == (n + s - 1) \div s
           t == (n + s - 1) % s
<1>1. q \in Nat /\ r \in 0 .. s - 1 /\ n = s * q + r BY Division
<1>2. p \in Nat /\ t \in 0 .. s - 1 /\ n + s - 1 = s * p + t
  <2>1. n + s - 1 \in Nat OBVIOUS
  <2> QED BY <2>1, Division
<1> HIDE DEF q, r, p, t
<1>3. r = 0 => p = q
  <2> SUFFICES ASSUME r = 0
               PROVE  p = q
    OBVIOUS
  <2>1. s - 1 \in 0 .. s - 1 /\ s * p + t = s * q + (s - 1)
    BY <1>1, <1>2, SMT
  <2> QED BY <2>1, <1>1, <1>2, Multiples
<1>4. r # 0 => p = q + 1
  <2> SUFFICES ASSUME r # 0
               PROVE  p = q + 1
    OBVIOUS
  <2>1. s * (q + 1) = s * q + s BY <1>1, SMT
  <2>2. r - 1 \in 0 .. s - 1 /\ q + 1 \in Nat BY <1>1
  <2>3. s * p + t = s * (q + 1) + (r - 1) BY <2>1, <1>1, <1>2, SMT
  <2> QED BY <2>2, <2>3, <1>1, <1>2, Multiples
<1>5. q <= p /\ (q = p <=> r = 0) BY <1>1, <1>2, <1>3, <1>4
<1> QED BY <1>1, <1>2, <1>5 DEF q, r, p

LEMMA RoundingDown ==
    ASSUME NEW a \in Nat, NEW b \in Nat, NEW s \in Nat \ {0}, a <= b
    PROVE  a \div s <= b \div s
<1>1. a \div s \in Nat /\ a % s \in 0 .. s - 1 /\ a = s * (a \div s) + (a % s)
  BY Division
<1>2. b \div s \in Nat /\ b % s \in 0 .. s - 1 /\ b = s * (b \div s) + (b % s)
  BY Division
<1> DEFINE q == a \div s
           r == a % s
           p == b \div s
           t == b % s
<1> HIDE DEF q, r, p, t
<1>3. s * q + r <= s * p + t BY <1>1, <1>2 DEF q, r, p, t
<1> QED BY <1>1, <1>2, <1>3, Multiples DEF q, r, p, t

LEMMA Squares ==
    ASSUME NEW n \in Nat, NEW m \in Nat
    PROVE  n * n \in Nat /\ (n <= m => n * n <= m * m) /\ (n * n = m * m => n = m)
<1>1. n * n \in Nat BY SMT
<1>2. n <= m => n * n <= m * m BY SMT
<1>3. n * n = m * m => n = m BY SMT
<1> QED BY <1>1, <1>2, <1>3

LEMMA ShapesAreSequence ==
    ASSUME NEW N \in Nat, NEW shapes \in [1 .. N -> Nat \X Nat]
    PROVE  shapes \in Seq(Nat \X Nat) /\ Len(shapes) = N
<1>1. shapes \in Seq(Nat \X Nat) BY SeqDef
<1>2. DOMAIN shapes = 1 .. Len(shapes) /\ DOMAIN shapes = 1 .. N /\ Len(shapes) \in Nat
  BY <1>1
<1> QED BY <1>1, <1>2

\* Count adds the positions of the levels up.
Positions(N, shapes) == [l \in 1 .. N |-> shapes[l][1] * shapes[l][2]]

LEMMA CountIsSum ==
    ASSUME NEW N \in Nat, NEW shapes \in [1 .. N -> Nat \X Nat]
    PROVE  \E g : /\ Sums(N, Positions(N, shapes), g)
                  /\ Geometry(variant)!Count(shapes) = g[N]
<1> DEFINE t == Positions(N, shapes)
           Total(g) == g = [l \in 0 .. N |-> IF l = 0 THEN 0
                                             ELSE g[l - 1] + shapes[l][1] * shapes[l][2]]
           C == CHOOSE g : Total(g)
<1>1. t \in [1 .. N -> Nat]
  <2>1. \A l \in 1 .. N : shapes[l][1] \in Nat /\ shapes[l][2] \in Nat
    OBVIOUS
  <2>2. \A a, b \in Nat : a * b \in Nat BY SMT
  <2>3. \A l \in 1 .. N : shapes[l][1] * shapes[l][2] \in Nat
    BY <2>1, <2>2, Zenon
  <2> QED BY <2>3, Zenon DEF Positions
<1>2. PICK g : Sums(N, t, g)
  <2> HIDE DEF t
  <2> QED BY <1>1, SumsExist
<1>3. Total(g)
  <2> DEFINE G == [l \in 0 .. N |-> IF l = 0 THEN 0
                                   ELSE g[l - 1] + shapes[l][1] * shapes[l][2]]
  <2>1. \A l \in 0 .. N : g[l] = G[l] BY <1>2 DEF Sums, Positions
  <2>2. DOMAIN g = 0 .. N /\ DOMAIN G = 0 .. N /\ g = [l \in DOMAIN g |-> g[l]]
    BY <1>2 DEF Sums
  <2>3. G = [l \in DOMAIN G |-> G[l]] BY Zenon
  <2> HIDE DEF G
  <2>4. g = G BY <2>1, <2>2, <2>3, Zenon
  <2> QED BY <2>4, Zenon DEF G
<1>4. Total(C)
  <2> HIDE DEF Total
  <2> QED BY <1>3, Zenon
<1>5. Len(shapes) = N BY ShapesAreSequence
<1>6. Geometry(variant)!Count(shapes) = C[N] BY <1>5 DEF Geometry!Count
<1>7. Sums(N, t, C)
  <2> HIDE DEF C, t
  <2>1. DOMAIN C = 0 .. N /\ C = [l \in DOMAIN C |-> C[l]] BY <1>4
  <2>2. DOMAIN g = 0 .. N /\ g = [l \in DOMAIN g |-> g[l]] BY <1>3
  <2>3. C[0] = 0 /\ g[0] = 0 BY <1>3, <1>4
  <2>4. \A l \in 1 .. N : C[l] = C[l - 1] + shapes[l][1] * shapes[l][2]
    BY <1>4, SMTT(60)
  <2>5. \A l \in 1 .. N : g[l] = g[l - 1] + shapes[l][1] * shapes[l][2]
    BY <1>3, SMTT(60)
  <2> HIDE DEF Total
  <2> DEFINE S == {n \in Nat : n <= N => C[n] = g[n]}
  <2>6. 0 \in S BY <2>3
  <2>7. ASSUME NEW n \in Nat, n \in S
        PROVE  n + 1 \in S
    <3> SUFFICES ASSUME n + 1 <= N
                 PROVE  C[n + 1] = g[n + 1]
      OBVIOUS
    <3>1. n + 1 \in 1 .. N /\ n + 1 - 1 = n /\ C[n] = g[n] BY <2>7
    <3> DEFINE m == n + 1
    <3> HIDE DEF m, S
    <3>2. m \in 1 .. N /\ m - 1 = n BY <3>1 DEF m
    <3>3. C[m] = C[m - 1] + shapes[m][1] * shapes[m][2] BY <3>2, <2>4
    <3>4. g[m] = g[m - 1] + shapes[m][1] * shapes[m][2] BY <3>2, <2>5
    <3>5. C[m - 1] = g[m - 1] BY <3>1, <3>2
    <3>6. C[m] = g[m] BY <3>3, <3>4, <3>5, Zenon
    <3> QED BY <3>6 DEF m
  <2>8. \A l \in 0 .. N : C[l] = g[l]
    <3>1. Nat \subseteq S
      <4> HIDE DEF S
      <4> QED BY <2>6, <2>7, NatInductive
    <3> QED BY <3>1
  <2>9. C = g BY <2>1, <2>2, <2>8, Zenon
  <2> QED BY <2>9, <1>2
<1> QED BY <1>6, <1>7

\* The strides of the variant.
Stride(l) == Geometries[variant].strides[l]
Coarsest == Len(Geometries[variant].strides)

LEMMA Strides ==
    ASSUME variant \in DOMAIN Geometries
    PROVE  /\ Coarsest \in Nat \ {0} /\ Geometry(variant)!Levels = 1 .. Coarsest
           /\ \A l \in 1 .. Coarsest : Stride(l) \in Nat \ {0}
           /\ \A l \in 1 .. Coarsest - 1 : Stride(l + 1) = 2 * Stride(l)
           /\ Geometries[variant].sizes \subseteq Nat \ {0}
           /\ \A c \in Geometries[variant].trained :
                  c[1] \in Nat \ {0} /\ c[2] \in Nat \ {0} /\ c[1] = c[2]
<1>1. Geometry(variant)!GeometryAssumption BY PartsAssumption
<1> DEFINE s == Geometries[variant].strides
<1>2. s \in Seq(Nat \ {0}) /\ s # <<>> /\ \A l \in 1 .. Len(s) - 1 : s[l + 1] = 2 * s[l]
  BY <1>1 DEF Geometry!GeometryAssumption
<1>3. Geometry(variant)!Levels = DOMAIN s BY DEF Geometry!Levels
<1>4. /\ Geometries[variant].sizes \subseteq Nat \ {0}
      /\ Geometries[variant].trained \subseteq (Nat \ {0}) \X (Nat \ {0})
      /\ \A c \in Geometries[variant].trained : c[1] = c[2]
  BY <1>1 DEF Geometry!GeometryAssumption
<1>5. \A c \in Geometries[variant].trained :
          c[1] \in Nat \ {0} /\ c[2] \in Nat \ {0} /\ c[1] = c[2]
  BY <1>4
<1> HIDE DEF s
<1>6. /\ Len(s) \in Nat \ {0} /\ DOMAIN s = 1 .. Len(s)
      /\ \A l \in 1 .. Len(s) : s[l] \in Nat \ {0}
  BY <1>2
<1> QED BY <1>2, <1>3, <1>4, <1>5, <1>6 DEF s, Stride, Coarsest

LEMMA SquareShapesCompare ==
    ASSUME NEW N \in Nat, NEW e \in [1 .. N -> Nat], NEW f \in [1 .. N -> Nat],
           \A l \in 1 .. N : e[l] <= f[l],
           Geometry(variant)!Count([l \in 1 .. N |-> <<e[l], e[l]>>])
             = Geometry(variant)!Count([l \in 1 .. N |-> <<f[l], f[l]>>])
    PROVE  e = f
<1> DEFINE E == [l \in 1 .. N |-> <<e[l], e[l]>>]
           F == [l \in 1 .. N |-> <<f[l], f[l]>>]
           t == Positions(N, E)
           u == Positions(N, F)
<1>1. E \in [1 .. N -> Nat \X Nat] /\ F \in [1 .. N -> Nat \X Nat]
  OBVIOUS
<1>2. \A l \in 1 .. N : t[l] = e[l] * e[l] /\ u[l] = f[l] * f[l]
  BY DEF Positions
<1>3. \A l \in 1 .. N : e[l] \in Nat /\ f[l] \in Nat OBVIOUS
<1>4. \A l \in 1 .. N : /\ e[l] * e[l] \in Nat /\ f[l] * f[l] \in Nat
                       /\ e[l] * e[l] <= f[l] * f[l]
                       /\ (e[l] * e[l] = f[l] * f[l] => e[l] = f[l])
  BY <1>3, Squares
<1>5. t \in [1 .. N -> Nat] /\ u \in [1 .. N -> Nat]
  <2>1. \A l \in 1 .. N : t[l] \in Nat /\ u[l] \in Nat BY <1>2, <1>4
  <2>2. t = [l \in 1 .. N |-> t[l]] /\ u = [l \in 1 .. N |-> u[l]]
    BY DEF Positions
  <2> HIDE DEF t, u
  <2> QED BY <2>1, <2>2
<1>6. PICK g : Sums(N, t, g) /\ Geometry(variant)!Count(E) = g[N]
  <2> HIDE DEF E
  <2> QED BY <1>1, CountIsSum
<1>7. PICK h : Sums(N, u, h) /\ Geometry(variant)!Count(F) = h[N]
  <2> HIDE DEF F
  <2> QED BY <1>1, CountIsSum
<1>8. g[N] = h[N] BY <1>6, <1>7
<1>9. \A l \in 1 .. N : t[l] <= u[l] BY <1>2, <1>4
<1> HIDE DEF t, u, E, F
<1>10. \A l \in 1 .. N : t[l] = u[l]
  BY <1>5, <1>6, <1>7, <1>8, <1>9, SumsCompare
<1>11. \A l \in 1 .. N : e[l] = f[l] BY <1>2, <1>4, <1>10
<1> QED BY <1>11

\* Whatever square a checkpoint was trained at, where its buffer fits it is the model's own.
LEMMA SquareAnchors ==
    ASSUME variant \in DOMAIN Geometries, NEW a \in Nat, NEW b \in Nat,
           Geometry(variant)!Count(Geometry(variant)!AnchorShapes(a, a))
             = Geometry(variant)!Count(Geometry(variant)!AnchorShapes(b, b))
    PROVE  Geometry(variant)!AnchorShapes(a, a) = Geometry(variant)!AnchorShapes(b, b)
<1> DEFINE N == Coarsest
           e(n) == [l \in 1 .. N |-> n \div Stride(l)]
<1>1. N \in Nat /\ Geometry(variant)!Levels = 1 .. N
      /\ \A l \in 1 .. N : Stride(l) \in Nat \ {0}
  BY Strides
<1>2. ASSUME NEW n \in Nat
      PROVE  /\ e(n) \in [1 .. N -> Nat]
             /\ Geometry(variant)!AnchorShapes(n, n) = [l \in 1 .. N |-> <<e(n)[l], e(n)[l]>>]
  <2>1. \A l \in 1 .. N : n \div Stride(l) \in Nat BY <1>1, Division
  <2>2. Geometry(variant)!AnchorShapes(n, n)
          = [l \in 1 .. N |-> <<n \div Stride(l), n \div Stride(l)>>]
    BY <1>1 DEF Geometry!AnchorShapes, Stride
  <2> QED BY <2>1, <2>2
<1>3. ASSUME NEW m \in Nat, NEW n \in Nat, m <= n
      PROVE  \A l \in 1 .. N : e(m)[l] <= e(n)[l]
  <2>1. \A l \in 1 .. N : m \div Stride(l) <= n \div Stride(l)
    BY <1>1, <1>3, RoundingDown
  <2> QED BY <2>1
<1> HIDE DEF e, N
<1>4. CASE a <= b
  <2>1. e(a) = e(b) BY <1>1, <1>2, <1>3, <1>4, SquareShapesCompare
  <2> QED BY <2>1, <1>2
<1>5. CASE b <= a
  <2>1. e(b) = e(a) BY <1>1, <1>2, <1>3, <1>5, SquareShapesCompare
  <2> QED BY <2>1, <1>2
<1> QED BY <1>4, <1>5

LEMMA LoadedIsOwn ==
    ASSUME variant \in DOMAIN Geometries, size \in Nat,
           NEW of \in Geometries[variant].trained \cup {Nothing}
    PROVE  Geometry(variant)!Loaded(Geometry(variant)!AnchorShapes(size, size), of)
             = Geometry(variant)!AnchorShapes(size, size)
<1>1. CASE of = Nothing BY <1>1 DEF Geometry!Loaded
<1>2. CASE of # Nothing
  <2>1. of[1] \in Nat /\ of[2] = of[1] BY <1>2, Strides
  <2> QED BY <2>1, SquareAnchors DEF Geometry!Loaded
<1> QED BY <1>1, <1>2

\* The feature maps are of the size of the anchors exactly where all strides divide the size.
LEMMA FeaturesFit ==
    ASSUME variant \in DOMAIN Geometries, size \in Nat
    PROVE  LET own == Geometry(variant)!AnchorShapes(size, size)
               Whole == \A l \in 1 .. Coarsest : size % Stride(l) = 0
           IN  /\ Whole => own = Geometry(variant)!FeatureShapes
               /\ Geometry(variant)!Count(own)
                     = Geometry(variant)!Count(Geometry(variant)!FeatureShapes) => Whole
<1> DEFINE N == Coarsest
           e == [l \in 1 .. N |-> size \div Stride(l)]
           f == [l \in 1 .. N |-> (size + Stride(l) - 1) \div Stride(l)]
           own == Geometry(variant)!AnchorShapes(size, size)
           features == Geometry(variant)!FeatureShapes
<1>1. N \in Nat /\ Geometry(variant)!Levels = 1 .. N
      /\ \A l \in 1 .. N : Stride(l) \in Nat \ {0}
  BY Strides
<1>2. \A l \in 1 .. N :
          /\ size \div Stride(l) \in Nat /\ (size + Stride(l) - 1) \div Stride(l) \in Nat
          /\ size \div Stride(l) <= (size + Stride(l) - 1) \div Stride(l)
          /\ (size \div Stride(l) = (size + Stride(l) - 1) \div Stride(l)
                <=> size % Stride(l) = 0)
  BY <1>1, Rounding
<1>3. own = [l \in 1 .. N |-> <<size \div Stride(l), size \div Stride(l)>>]
  BY <1>1 DEF Geometry!AnchorShapes, Stride
<1>4. features = [l \in 1 .. N |-> <<(size + Stride(l) - 1) \div Stride(l),
                                     (size + Stride(l) - 1) \div Stride(l)>>]
  BY <1>1 DEF Geometry!FeatureShapes, Geometry!FeatureSize, Stride
<1> HIDE DEF own, features
<1>5. ASSUME \A l \in 1 .. N : size % Stride(l) = 0
      PROVE  own = features
  <2>1. \A l \in 1 .. N : size \div Stride(l) = (size + Stride(l) - 1) \div Stride(l)
    BY <1>2, <1>5
  <2> QED BY <2>1, <1>3, <1>4
<1>6. e \in [1 .. N -> Nat] /\ f \in [1 .. N -> Nat] /\ \A l \in 1 .. N : e[l] <= f[l]
  BY <1>2
<1>7. own = [l \in 1 .. N |-> <<e[l], e[l]>>] /\ features = [l \in 1 .. N |-> <<f[l], f[l]>>]
  BY <1>3, <1>4
<1>8. \A l \in 1 .. N : e[l] = f[l] => size % Stride(l) = 0 BY <1>2
<1> HIDE DEF e, f, N
<1>9. ASSUME Geometry(variant)!Count(own) = Geometry(variant)!Count(features)
      PROVE  \A l \in 1 .. N : size % Stride(l) = 0
  <2>1. e = f BY <1>1, <1>6, <1>7, <1>9, SquareShapesCompare
  <2> QED BY <2>1, <1>8
<1> QED BY <1>5, <1>9 DEF N, own, features

\* A size all strides divide passes the embedding and the fusion.
LEMMA WholeSizesPass ==
    ASSUME variant \in DOMAIN Geometries, size \in Nat,
           \A l \in 1 .. Coarsest : size % Stride(l) = 0
    PROVE  Geometry(variant)!Embeds /\ Geometry(variant)!Fuses
<1>1. /\ Coarsest \in Nat \ {0} /\ Geometry(variant)!Levels = 1 .. Coarsest
      /\ \A l \in 1 .. Coarsest : Stride(l) \in Nat \ {0}
      /\ \A l \in 1 .. Coarsest - 1 : Stride(l + 1) = 2 * Stride(l)
  BY Strides
<1>2. Geometry(variant)!Top = Coarsest BY DEF Geometry!Top, Coarsest
<1>3. \A l \in 1 .. Coarsest :
          /\ Geometry(variant)!FeatureSize(l) = size \div Stride(l)
          /\ size \div Stride(l) \in Nat /\ size = Stride(l) * (size \div Stride(l))
  <2> TAKE l \in 1 .. Coarsest
  <2>1. Stride(l) \in Nat \ {0} /\ size % Stride(l) = 0 BY <1>1
  <2>2. Geometry(variant)!FeatureSize(l) = (size + Stride(l) - 1) \div Stride(l)
    BY DEF Geometry!FeatureSize, Stride
  <2>3. size \div Stride(l) = (size + Stride(l) - 1) \div Stride(l)
    BY <2>1, Rounding
  <2>4. size \div Stride(l) \in Nat /\ size = Stride(l) * (size \div Stride(l)) + (size % Stride(l))
    BY <2>1, Division
  <2>5. \A a, b \in Nat : a * b + 0 = a * b BY SMT
  <2>6. size = Stride(l) * (size \div Stride(l)) BY <2>1, <2>4, <2>5
  <2> QED BY <2>2, <2>3, <2>4, <2>6
<1>4. Geometry(variant)!Embeds
  <2>1. Geometry(variant)!FeatureSize(Coarsest) = size \div Stride(Coarsest)
    BY <1>1, <1>3
  <2>2. size \div Geometries[variant].strides[Geometry(variant)!Top] = size \div Stride(Coarsest)
    BY <1>2 DEF Stride
  <2> QED BY <1>2, <2>1, <2>2, Zenon DEF Geometry!Embeds, Geometry!Broadcasts
<1>5. ASSUME NEW l \in 1 .. Coarsest, l # Coarsest
      PROVE  Geometry(variant)!FeatureSize(l) = 2 * Geometry(variant)!FeatureSize(l + 1)
  <2>1. l \in 1 .. Coarsest - 1 /\ l + 1 \in 1 .. Coarsest BY <1>1, <1>5
  <2> DEFINE s == Stride(l)
             q == size \div Stride(l)
             p == size \div Stride(l + 1)
  <2>2. s \in Nat \ {0} /\ q \in Nat /\ p \in Nat /\ size = s * q /\ size = (2 * s) * p
    BY <1>1, <1>3, <2>1
  <2>3. /\ Geometry(variant)!FeatureSize(l) = q /\ Geometry(variant)!FeatureSize(l + 1) = p
    BY <1>3, <2>1
  <2> HIDE DEF s, q, p
  <2>4. (2 * s) * p = s * (2 * p) /\ 2 * p \in Nat BY <2>2, SMT
  <2>5. s * q + 0 = s * (2 * p) + 0 /\ 0 \in 0 .. s - 1 BY <2>2, <2>4
  <2>6. q = 2 * p BY <2>2, <2>4, <2>5, Multiples
  <2> QED BY <2>3, <2>6
<1>6. Geometry(variant)!Fuses BY <1>1, <1>2, <1>5 DEF Geometry!Fuses
<1> QED BY <1>4, <1>6

\* The decoder's buffers are laid out for --img-size whatever the checkpoint brings, and what
\* the encoder hands on has passed the embedding and the fusion.
GeometryInv ==
    /\ Geometry(variant)!TypeOK /\ Geometry(variant)!QueriesAreAnchored
    /\ Geometry(variant)!OnlyWholeSizesRun
    /\ checkpoint.anchors \in Geometries[variant].trained \cup {Nothing}
    /\ checkpoint.mask \in Geometries[variant].trained \cup {Nothing}
    /\ pc # "build" => /\ anchors = Geometry(variant)!AnchorShapes(size, size)
                       /\ mask = Geometry(variant)!AnchorShapes(size, size)
    /\ pc = "select" => /\ memory = Geometry(variant)!FeatureShapes
                        /\ Geometry(variant)!Embeds /\ Geometry(variant)!Fuses

LEMMA ShapesTyped ==
    ASSUME variant \in DOMAIN Geometries, size \in Nat
    PROVE  /\ \A l \in DOMAIN Geometry(variant)!AnchorShapes(size, size) :
                  Geometry(variant)!AnchorShapes(size, size)[l] \in Nat \X Nat
           /\ \A l \in DOMAIN Geometry(variant)!FeatureShapes :
                  Geometry(variant)!FeatureShapes[l] \in Nat \X Nat
<1>1. /\ Geometry(variant)!Levels = 1 .. Coarsest
      /\ \A l \in 1 .. Coarsest : Stride(l) \in Nat \ {0}
  BY Strides
<1>2. \A l \in 1 .. Coarsest :
          size \div Stride(l) \in Nat /\ (size + Stride(l) - 1) \div Stride(l) \in Nat
  BY <1>1, Rounding
<1>3. Geometry(variant)!AnchorShapes(size, size)
        = [l \in 1 .. Coarsest |-> <<size \div Stride(l), size \div Stride(l)>>]
  BY <1>1 DEF Geometry!AnchorShapes, Stride
<1>4. Geometry(variant)!FeatureShapes
        = [l \in 1 .. Coarsest |-> <<(size + Stride(l) - 1) \div Stride(l),
                                     (size + Stride(l) - 1) \div Stride(l)>>]
  BY <1>1 DEF Geometry!FeatureShapes, Geometry!FeatureSize, Stride
<1> QED BY <1>2, <1>3, <1>4

LEMMA GeometryStepInv ==
    ASSUME variant \in DOMAIN Geometries, GeometryInv, Geometry(variant)!Next
    PROVE  GeometryInv'
<1>1. /\ size \in Geometries[variant].sizes /\ size \in Nat \ {0}
      /\ Geometry(variant)!Levels = 1 .. Coarsest
      /\ \A l \in DOMAIN anchors : anchors[l] \in Nat \X Nat
      /\ \A l \in DOMAIN mask : mask[l] \in Nat \X Nat
      /\ \A l \in DOMAIN memory : memory[l] \in Nat \X Nat
      /\ pc # "done" => query = Nothing
  BY Strides DEF GeometryInv, Geometry!TypeOK
<1> DEFINE own == Geometry(variant)!AnchorShapes(size, size)
           features == Geometry(variant)!FeatureShapes
           Whole == \A l \in 1 .. Coarsest : size % Stride(l) = 0
<1>2. /\ \A l \in DOMAIN own : own[l] \in Nat \X Nat
      /\ \A l \in DOMAIN features : features[l] \in Nat \X Nat
  BY <1>1, ShapesTyped
<1>3. /\ Whole => own = features
      /\ Geometry(variant)!Count(own) = Geometry(variant)!Count(features) => Whole
  BY <1>1, FeaturesFit
<1>4. /\ checkpoint.anchors \in Geometries[variant].trained \cup {Nothing}
      /\ checkpoint.mask \in Geometries[variant].trained \cup {Nothing}
  BY DEF GeometryInv
<1>5. Whole <=> \A l \in Geometry(variant)!Levels : size % Geometries[variant].strides[l] = 0
  BY <1>1 DEF Stride
<1>6. Whole => Geometry(variant)!Embeds /\ Geometry(variant)!Fuses
  BY <1>1, WholeSizesPass
<1>7. CASE Geometry(variant)!Build
  <2>1. /\ pc = "build" /\ pc' = "encode" /\ UNCHANGED <<size, checkpoint, memory, query>>
        /\ anchors' = Geometry(variant)!Loaded(own, checkpoint.anchors)
        /\ mask' = Geometry(variant)!Loaded(own, checkpoint.mask)
    BY <1>7 DEF Geometry!Build
  <2>2. anchors' = own /\ mask' = own BY <1>1, <1>4, <2>1, LoadedIsOwn
  <2>3. Geometry(variant)!AnchorShapes(size, size)' = own
    BY <2>1 DEF Geometry!AnchorShapes, Geometry!Levels
  <2>4. Geometry(variant)!TypeOK'
    <3> HIDE DEF own
    <3> QED BY <1>1, <1>2, <2>1, <2>2 DEF Geometry!TypeOK
  <2> HIDE DEF own
  <2> QED
    BY <1>4, <2>1, <2>2, <2>3, <2>4
       DEF GeometryInv, Geometry!QueriesAreAnchored, Geometry!OnlyWholeSizesRun
<1>8. CASE Geometry(variant)!Encode
  <2>1. /\ pc = "encode" /\ UNCHANGED <<size, checkpoint, anchors, mask, query>>
        /\ \/ /\ Geometry(variant)!Embeds /\ Geometry(variant)!Fuses
              /\ pc' = "select" /\ memory' = features
           \/ /\ ~ (Geometry(variant)!Embeds /\ Geometry(variant)!Fuses)
              /\ pc' = "failed" /\ memory' = memory
    BY <1>8 DEF Geometry!Encode
  <2>2. /\ anchors = own /\ mask = own BY <2>1 DEF GeometryInv
  <2>3. /\ Geometry(variant)!AnchorShapes(size, size)' = own
        /\ Geometry(variant)!FeatureShapes' = features
        /\ Geometry(variant)!Embeds' <=> Geometry(variant)!Embeds
        /\ Geometry(variant)!Fuses' <=> Geometry(variant)!Fuses
    BY <2>1 DEF Geometry!AnchorShapes, Geometry!Levels, Geometry!FeatureShapes,
                Geometry!FeatureSize, Geometry!Embeds, Geometry!Fuses, Geometry!Top
  <2>4. Geometry(variant)!TypeOK'
    <3> HIDE DEF own, features
    <3> QED BY <1>1, <1>2, <2>1 DEF Geometry!TypeOK
  <2>5. pc' = "failed" => ~ Whole BY <2>1, <1>6
  <2>6. Geometry(variant)!OnlyWholeSizesRun'
    <3>1. Geometry(variant)!Levels' = Geometry(variant)!Levels
      BY DEF Geometry!Levels
    <3> QED BY <2>1, <2>5, <1>5, <3>1 DEF Geometry!OnlyWholeSizesRun
  <2>7. Geometry(variant)!QueriesAreAnchored'
    BY <2>1 DEF Geometry!QueriesAreAnchored
  <2> HIDE DEF own, features
  <2> QED BY <1>4, <2>1, <2>2, <2>3, <2>4, <2>6, <2>7 DEF GeometryInv
<1>9. CASE Geometry(variant)!Select
  <2>1. /\ pc = "select" /\ UNCHANGED <<size, checkpoint, anchors, mask, memory>>
    BY <1>9 DEF Geometry!Select
  <2>2. anchors = own /\ mask = own /\ memory = features
        /\ Geometry(variant)!Embeds /\ Geometry(variant)!Fuses
    BY <2>1 DEF GeometryInv
  <2>3. /\ Geometry(variant)!AnchorShapes(size, size)' = own
    BY <2>1 DEF Geometry!AnchorShapes, Geometry!Levels
  <2>4. Geometry(variant)!Levels' = Geometry(variant)!Levels
    BY DEF Geometry!Levels
  <2>5. CASE /\ Geometry(variant)!Count(anchors) = Geometry(variant)!Count(memory)
             /\ Geometry(variant)!Count(mask) = Geometry(variant)!Count(memory)
    <3>1. PICK p \in 1 .. Geometry(variant)!Count(memory) :
              query' = [anchor |-> Geometry(variant)!FlatAnchors(anchors)[p],
                        features |-> Geometry(variant)!FlatMemory[p],
                        masked |-> Geometry(variant)!Masked(p)]
      BY <1>9, <2>5 DEF Geometry!Select
    <3>2. pc' = "done" BY <1>9, <2>5 DEF Geometry!Select
    <3>3. Whole /\ anchors = memory /\ mask = memory BY <1>3, <2>2, <2>5
    <3>4. Geometry(variant)!FlatAnchors(memory) = Geometry(variant)!FlatMemory
      BY DEF Geometry!FlatAnchors, Geometry!FlatMemory, Geometry!AnchorCells
    <3> DEFINE cell == Geometry(variant)!FlatMemory[p]
    <3>5. /\ query'.anchor = cell /\ query'.features = cell
          /\ query'.masked = ~ Geometry(variant)!Valid(cell)
      BY <3>1, <3>3, <3>4 DEF Geometry!Masked
    <3> HIDE DEF cell
    <3>6. Geometry(variant)!QueriesAreAnchored'
      BY <3>5, Zenon DEF Geometry!QueriesAreAnchored, Geometry!SamePlace, Geometry!Valid,
                         Geometry!Inside
    <3>7. Geometry(variant)!OnlyWholeSizesRun'
      BY <3>2, <3>3, <1>5, <2>1, <2>4 DEF Geometry!OnlyWholeSizesRun
    <3>8. Geometry(variant)!TypeOK'
      BY <1>1, <2>1, <3>2 DEF Geometry!TypeOK
    <3> HIDE DEF own, features
    <3> QED BY <1>4, <2>1, <2>2, <2>3, <3>2, <3>6, <3>7, <3>8 DEF GeometryInv
  <2>6. CASE ~ (/\ Geometry(variant)!Count(anchors) = Geometry(variant)!Count(memory)
                /\ Geometry(variant)!Count(mask) = Geometry(variant)!Count(memory))
    <3>1. pc' = "failed" /\ query' = query
      BY <1>9, <2>6 DEF Geometry!Select
    <3>2. ~ Whole
      <4> HIDE DEF own, features, Whole
      <4> QED BY <1>3, <2>2, <2>6
    <3>3. Geometry(variant)!OnlyWholeSizesRun'
      BY <3>1, <3>2, <1>5, <2>1, <2>4 DEF Geometry!OnlyWholeSizesRun
    <3>4. Geometry(variant)!TypeOK'
      BY <1>1, <2>1, <3>1 DEF Geometry!TypeOK
    <3>5. Geometry(variant)!QueriesAreAnchored'
      BY <3>1 DEF Geometry!QueriesAreAnchored
    <3> HIDE DEF own, features
    <3> QED BY <1>4, <2>1, <2>2, <2>3, <3>1, <3>3, <3>4, <3>5 DEF GeometryInv
  <2> QED BY <2>5, <2>6
<1> QED BY <1>7, <1>8, <1>9 DEF Geometry!Next

LEMMA GeometryKept ==
    variant \in DOMAIN Geometries => (Geometry(variant)!Spec => []GeometryInv)
<1> SUFFICES ASSUME variant \in DOMAIN Geometries
             PROVE  Geometry(variant)!Spec => []GeometryInv
  OBVIOUS
<1>1. Geometry(variant)!Init => GeometryInv
  BY DEF Geometry!Init, GeometryInv, Geometry!TypeOK, Geometry!QueriesAreAnchored,
         Geometry!OnlyWholeSizesRun
<1>2. GeometryInv /\ [Geometry(variant)!Next]_(Geometry(variant)!vars) => GeometryInv'
  <2> SUFFICES ASSUME GeometryInv, [Geometry(variant)!Next]_(Geometry(variant)!vars)
               PROVE  GeometryInv'
    OBVIOUS
  <2>1. CASE Geometry(variant)!Next BY <2>1, GeometryStepInv
  <2>2. CASE UNCHANGED Geometry(variant)!vars
    <3>1. UNCHANGED <<pc, size, checkpoint, anchors, mask, memory, query>>
      BY <2>2 DEF Geometry!vars
    <3>2. /\ Geometry(variant)!AnchorShapes(size, size)'
               = Geometry(variant)!AnchorShapes(size, size)
          /\ Geometry(variant)!FeatureShapes' = Geometry(variant)!FeatureShapes
          /\ Geometry(variant)!Embeds' <=> Geometry(variant)!Embeds
          /\ Geometry(variant)!Fuses' <=> Geometry(variant)!Fuses
      BY <3>1 DEF Geometry!AnchorShapes, Geometry!Levels, Geometry!FeatureShapes,
                  Geometry!FeatureSize, Geometry!Embeds, Geometry!Fuses, Geometry!Top
    <3>3. Geometry(variant)!TypeOK'
      BY <3>1 DEF GeometryInv, Geometry!TypeOK
    <3>4. Geometry(variant)!QueriesAreAnchored'
      BY <3>1, Zenon DEF GeometryInv, Geometry!QueriesAreAnchored, Geometry!SamePlace,
                         Geometry!Valid, Geometry!Inside
    <3>5. Geometry(variant)!OnlyWholeSizesRun'
      BY <3>1 DEF GeometryInv, Geometry!OnlyWholeSizesRun, Geometry!Levels
    <3> QED BY <3>1, <3>2, <3>3, <3>4, <3>5 DEF GeometryInv
  <2> QED BY <2>1, <2>2
<1> QED BY <1>1, <1>2, PTL DEF Geometry!Spec

\* Every query's anchor is the one of the cell its features come from, at every size and with
\* every checkpoint of whatever square; a size runs exactly if all strides divide it
\* (_generate_anchors, _get_encoder_input, _get_decoder_input).
THEOREM AnchorsAreInPlace == MakersSpec /\ program = variant => []QueriesAreAnchored
<1>1. CASE variant \in DOMAIN Geometries
  <2>1. GeometryInv /\ program = variant => QueriesAreAnchored
    BY DEF GeometryInv, QueriesAreAnchored
  <2> QED BY <1>1, <2>1, GeometryRuns, GeometryKept, ProgramStays, PTL
<1>2. CASE variant \notin DOMAIN Geometries
  <2>1. program = variant => QueriesAreAnchored
    BY <1>2 DEF QueriesAreAnchored
  <2> QED BY <2>1, ProgramStays, PTL
<1> QED BY <1>1, <1>2

============================================================================
