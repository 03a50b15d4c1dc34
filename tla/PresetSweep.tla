----------------------------- MODULE PresetSweep -----------------------------
(***************************************************************************)
(* preset_sweep.py: one checkpoint taken through export, conversion, build, *)
(* evaluation, comparison with the baseline and benchmark at every point,   *)
(* each step a subprocess, each skipped when what is on disk proves its     *)
(* lineage.  Sweeps are repeated over one output directory while the user   *)
(* changes the checkpoint, the annotations, the images or the settings,     *)
(* steps fail, and the machine stops between the two files of a pair.       *)
(*                                                                          *)
(* A content stands for its digest, so a sidecar that records a digest      *)
(* holds the content it was taken from.                                     *)
(***************************************************************************)
EXTENDS Naturals, Sequences

CONSTANTS
    Points,      \* the operating points in order; the first is the baseline
    Changes,     \* what the user may change: fields of the world
    ChangeAt,    \* the phases in which the user may do so
    KeepGoing,   \* values of --keep-going
    MaxSweeps, MaxChanges, MaxFaults, MaxCrashes,
    Nothing

Field == {"checkpoint", "ann", "images", "iters"}
Phases == <<"export", "convert", "build", "eval", "chain", "bench">>

Index == DOMAIN Points

\* What is on disk: graphs, their sidecars, engines, theirs, and the three kinds of report.
Content == [checkpoint : {0, 1}, graph : {Points[n].graph : n \in Index}, precision : {"fp32", "slim"}]
Sidecar == [checkpoint : {0, 1}, source : Content \cup {Nothing}]
Engine == [onnx : Content, profile : STRING, mode : {"enqueue", "graph"}]
EngineSidecar == [checkpoint : {0, 1}, onnx : Content]
Accuracy == [engine : Engine, checkpoint : {0, 1}, ann : {0, 1}, images : {0, 1}]
Latency == [engine : Engine, iters : {0, 1}]

SweepAssumption ==
    /\ Points \in Seq([graph : {Points[n].graph : n \in Index}, precision : {"slim", "fp32"},
                       mode : {"enqueue", "graph"}, profile : STRING])
    /\ Points # <<>> /\ Changes \subseteq Field /\ KeepGoing \subseteq BOOLEAN
    /\ {MaxSweeps, MaxChanges, MaxFaults, MaxCrashes} \subseteq Nat
    /\ Nothing \notin Content /\ Nothing \notin Sidecar
    /\ Nothing \notin Engine /\ Nothing \notin EngineSidecar
    /\ Nothing \notin Accuracy /\ Nothing \notin Latency

Baseline == Points[1]
GraphKey(p) == p.graph
EvalKey(p) == <<p.graph, p.precision>>
BuildKey(p) == <<p.graph, p.precision, p.profile, p.mode>>
Fp32(p) == <<p.graph, "fp32">>
GraphFiles == {EvalKey(Points[n]) : n \in Index} \cup {Fp32(Points[n]) : n \in Index}
Builds == {BuildKey(Points[n]) : n \in Index}

VARIABLES
    world,                 \* what the arguments of the sweep name
    art, side,             \* graphs and their sidecars by evaluation key
    engine, engineSide,    \* engines and their sidecars by build key
    accuracy, chain,       \* reports by evaluation key
    latency,               \* reports by build key
    phase, i,              \* the step the sweep is at, or 0
    keepGoing, start,      \* of this sweep; start is what it hashed when it began
    failures,              \* unit keys marked as failed
    broke, ran, chained,   \* units whose own tool failed, ran, or was compared
    table,                 \* the rows of the last finished sweep
    sweeps, changes, faults, crashes,
    settled                \* the world of the last sweep, if it ended without a failure

disk == <<art, side, engine, engineSide, accuracy, chain, latency>>
bounds == <<sweeps, changes, faults, crashes>>
vars == <<world, art, side, engine, engineSide, accuracy, chain, latency, phase, i, keepGoing, start,
          failures, broke, ran, chained, table, sweeps, changes, faults, crashes, settled>>

Init ==
    /\ world = [f \in Field |-> 0]
    /\ art = [e \in GraphFiles |-> Nothing] /\ side = art /\ accuracy = art /\ chain = art
    /\ engine = [k \in Builds |-> Nothing] /\ engineSide = engine /\ latency = engine
    /\ phase = 0 /\ i = 1 /\ keepGoing = FALSE /\ start = world
    /\ failures = {} /\ broke = {} /\ ran = {} /\ chained = {}
    /\ table = Nothing /\ settled = Nothing
    /\ sweeps = 0 /\ changes = 0 /\ faults = 0 /\ crashes = 0

-----------------------------------------------------------------------------
Change(f) ==
    /\ phase \in ChangeAt /\ f \in Changes /\ changes < MaxChanges
    /\ \E v \in {0, 1} \ {world[f]} : world' = [world EXCEPT ![f] = v]
    /\ changes' = changes + 1
    /\ UNCHANGED <<disk, phase, i, keepGoing, start, failures, broke, ran, chained, table, sweeps,
                   faults, crashes, settled>>

Begin ==
    /\ phase = 0 /\ sweeps < MaxSweeps
    /\ sweeps' = sweeps + 1
    /\ keepGoing' \in KeepGoing
    /\ start' = world
    /\ phase' = 1 /\ i' = 1
    /\ failures' = {} /\ broke' = {} /\ ran' = {} /\ chained' = {} /\ table' = Nothing
    /\ UNCHANGED <<world, disk, changes, faults, crashes, settled>>

-----------------------------------------------------------------------------
(* The plan: what a step is called, what it waits for, when it is skipped. *)

Point_i == Points[i]
Step == Phases[phase]

IsDefault(p) == p.profile = "1/1/8" /\ p.mode = "enqueue"

EngineRank(p) ==
    (IF <<"build", BuildKey(p)>> \in failures THEN 2 ELSE 0) + (IF IsDefault(p) THEN 0 ELSE 1)

\* Accuracy does not depend on profile and mode: one engine of the evaluation key serves.
eval_engine_for(p) ==
    LET candidates == {n \in Index : EvalKey(Points[n]) = EvalKey(p)}
        Before(n, k) == \/ EngineRank(Points[n]) < EngineRank(Points[k])
                        \/ EngineRank(Points[n]) = EngineRank(Points[k]) /\ n <= k
    IN  BuildKey(Points[CHOOSE n \in candidates : \A k \in candidates : Before(n, k)])

Key(p) ==
    CASE Step = "export" -> <<"graph", GraphKey(p)>>
      [] Step \in {"convert", "eval"} -> <<"eval", EvalKey(p)>>
      [] Step = "build" -> <<"build", BuildKey(p)>>
      [] Step = "chain" -> <<"chain", EvalKey(p)>>
      [] Step = "bench" -> <<"bench", BuildKey(p)>>

Upstream(p) ==
    CASE Step = "convert" -> {<<"graph", GraphKey(p)>>}
      [] Step = "build" -> {<<"eval", EvalKey(p)>>}
      [] Step = "eval" -> {<<"build", eval_engine_for(p)>>}
      [] OTHER -> {}

\* Shared work is planned once; these units of a point are passed over without a word.
Passed(p) ==
    \/ \E n \in 1 .. i - 1 : Key(Points[n]) = Key(p)
    \/ Step = "chain" /\ (\/ EvalKey(p) = EvalKey(Baseline)
                          \/ {<<"eval", EvalKey(Baseline)>>, <<"eval", EvalKey(p)>>} \cap failures # {})
    \/ Step = "bench" /\ <<"build", BuildKey(p)>> \in failures

NothingToConvert(p) == Step = "convert" /\ p.precision = "fp32"

-----------------------------------------------------------------------------
(* What proves that an output on disk is the one the step would make.      *)

ExportCached(p) ==
    /\ {art[Fp32(p)], side[Fp32(p)]} \cap {Nothing} = {}
    /\ side[Fp32(p)].checkpoint = start.checkpoint

ConvertCached(p) ==
    /\ {art[EvalKey(p)], side[EvalKey(p)]} \cap {Nothing} = {}
    /\ side[EvalKey(p)].source = art[Fp32(p)]

BuiltOnnx(p) == art[EvalKey(p)]

BuildCached(p) ==
    /\ {engine[BuildKey(p)], engineSide[BuildKey(p)]} \cap {Nothing} = {}
    /\ engineSide[BuildKey(p)].onnx = BuiltOnnx(p)

\* A bug that only asks for an evaluation of this engine.
SameEngine(p) == accuracy[EvalKey(p)].engine = engine[eval_engine_for(p)]
EvalProved(p) == SameEngine(p) /\ accuracy[EvalKey(p)].ann = start.ann

EvalCached(p) == accuracy[EvalKey(p)] # Nothing /\ EvalProved(p)

BenchCached(p) ==
    /\ latency[BuildKey(p)] # Nothing
    /\ latency[BuildKey(p)].engine = engine[BuildKey(p)]

Cached(p) ==
    CASE Step = "export" -> ExportCached(p)
      [] Step = "convert" -> ConvertCached(p)
      [] Step = "build" -> BuildCached(p)
      [] Step = "eval" -> EvalCached(p)
      [] Step = "chain" -> FALSE
      [] Step = "bench" -> BenchCached(p)

-----------------------------------------------------------------------------
(* The tools: what they refuse and what they write.                        *)

\* coco_eval.py wants the engine of this graph, and one model.
EvalRefuses(p) ==
    \/ engineSide[eval_engine_for(p)].onnx # art[EvalKey(p)]
    \/ engineSide[eval_engine_for(p)].checkpoint # side[EvalKey(p)].checkpoint

SameDataset(l, r) == l.ann = r.ann /\ l.images = r.images
Comparable(l, r) == SameDataset(l, r) /\ l.checkpoint = r.checkpoint

\* accuracy_chain.py is asked for a preset transition.
ChainRefuses(p) ==
    LET l == accuracy[EvalKey(Baseline)]
        r == accuracy[EvalKey(p)]
    IN  ~Comparable(l, r) \/ Baseline.precision # p.precision \/ Baseline.graph = p.graph

Refuses(p) ==
    CASE Step = "eval" -> EvalRefuses(p)
      [] Step = "chain" -> ChainRefuses(p)
      [] OTHER -> FALSE

Exported(p) == [checkpoint |-> world.checkpoint, graph |-> p.graph, precision |-> "fp32"]

Converted(p) == [art[Fp32(p)] EXCEPT !.precision = "slim"]
Built(p) == [onnx |-> art[EvalKey(p)], profile |-> p.profile, mode |-> p.mode]

ExportedSide == [checkpoint |-> world.checkpoint, source |-> Nothing]
ConvertedSide(p) == [checkpoint |-> side[Fp32(p)].checkpoint, source |-> art[Fp32(p)]]
BuiltSide(p) == [checkpoint |-> side[EvalKey(p)].checkpoint, onnx |-> art[EvalKey(p)]]

Evaluated(p) ==
    [engine |-> engine[eval_engine_for(p)], checkpoint |-> side[EvalKey(p)].checkpoint,
     ann |-> world.ann, images |-> world.images]
Compared(p) == [base |-> accuracy[EvalKey(Baseline)], of |-> accuracy[EvalKey(p)]]
Measured(p) == [engine |-> engine[BuildKey(p)], iters |-> world.iters]

\* The first file of a pair, and the second.
WriteArtifact(p) ==
    /\ art' = CASE Step = "export" -> [art EXCEPT ![Fp32(p)] = Exported(p)]
                [] Step = "convert" -> [art EXCEPT ![EvalKey(p)] = Converted(p)]
                [] OTHER -> art
    /\ engine' = IF Step = "build" THEN [engine EXCEPT ![BuildKey(p)] = Built(p)] ELSE engine

WriteSidecar(p) ==
    /\ side' = CASE Step = "export" -> [side EXCEPT ![Fp32(p)] = ExportedSide]
                 [] Step = "convert" -> [side EXCEPT ![EvalKey(p)] = ConvertedSide(p)]
                 [] OTHER -> side
    /\ engineSide' = IF Step = "build" THEN [engineSide EXCEPT ![BuildKey(p)] = BuiltSide(p)]
                     ELSE engineSide

WriteReport(p) ==
    /\ accuracy' = IF Step = "eval" THEN [accuracy EXCEPT ![EvalKey(p)] = Evaluated(p)] ELSE accuracy
    /\ chain' = IF Step = "chain" THEN [chain EXCEPT ![EvalKey(p)] = Compared(p)] ELSE chain
    /\ latency' = IF Step = "bench" THEN [latency EXCEPT ![BuildKey(p)] = Measured(p)] ELSE latency

-----------------------------------------------------------------------------
(* Running the plan.                                                       *)

AtStep == phase \in DOMAIN Phases /\ i \in Index
Next_i == IF i < Len(Points) THEN i' = i + 1 /\ phase' = phase ELSE i' = 1 /\ phase' = phase + 1

\* --keep-going marks the unit; without it the sweep ends here and writes no table.
Marked(key) ==
    IF keepGoing THEN failures' = failures \cup {key} /\ Next_i
    ELSE failures' = failures \cup {key} /\ phase' = 0 /\ i' = 1

Due(p) == ~Passed(p) /\ Upstream(p) \cap failures = {} /\ ~NothingToConvert(p) /\ Key(p) \notin failures

\* chains[...] is assigned before the step runs.
Noted(p) == chained' = IF Step = "chain" THEN chained \cup {EvalKey(p)} ELSE chained

Pass ==
    /\ AtStep
    /\ \/ Passed(Point_i)
       \/ /\ Upstream(Point_i) \cap failures = {}
          /\ NothingToConvert(Point_i) \/ Key(Point_i) \in failures
    /\ Next_i
    /\ UNCHANGED <<world, disk, keepGoing, start, failures, broke, ran, chained, table, bounds, settled>>

Inherit ==
    /\ AtStep /\ ~Passed(Point_i) /\ Upstream(Point_i) \cap failures # {}
    /\ failures' = failures \cup {Key(Point_i)}
    /\ Next_i
    /\ UNCHANGED <<world, disk, keepGoing, start, broke, ran, chained, table, bounds, settled>>

Reuse ==
    /\ AtStep /\ Due(Point_i) /\ Cached(Point_i)
    /\ Next_i
    /\ UNCHANGED <<world, disk, keepGoing, start, failures, broke, ran, chained, table, bounds, settled>>

Run ==
    /\ AtStep /\ Due(Point_i) /\ ~Cached(Point_i) /\ ~Refuses(Point_i)
    /\ ran' = ran \cup {<<Step, Key(Point_i)>>}
    /\ WriteArtifact(Point_i) /\ WriteSidecar(Point_i) /\ WriteReport(Point_i)
    /\ Noted(Point_i) /\ Next_i
    /\ UNCHANGED <<world, keepGoing, start, failures, broke, table, bounds, settled>>

\* A tool that fails publishes nothing.
ToolFails ==
    /\ AtStep /\ Due(Point_i) /\ ~Cached(Point_i)
    /\ \/ Refuses(Point_i) /\ faults' = faults /\ broke' = broke
       \/ faults < MaxFaults /\ faults' = faults + 1 /\ broke' = broke \cup {<<Step, Key(Point_i)>>}
    /\ ran' = ran \cup {<<Step, Key(Point_i)>>}
    /\ Noted(Point_i) /\ Marked(Key(Point_i))
    /\ settled' = Nothing
    /\ UNCHANGED <<world, disk, keepGoing, start, table, sweeps, changes, crashes>>

\* The machine stops between the two renames of a tool that publishes a pair.
Crash ==
    /\ AtStep /\ Due(Point_i) /\ ~Cached(Point_i) /\ crashes < MaxCrashes
    /\ Step \in {"export", "convert", "build"}
    /\ crashes' = crashes + 1
    /\ WriteArtifact(Point_i)
    /\ phase' = 0 /\ i' = 1 /\ settled' = Nothing
    /\ UNCHANGED <<world, side, engineSide, accuracy, chain, latency, keepGoing, start, failures, broke,
                   ran, chained, table, sweeps, changes, faults>>

-----------------------------------------------------------------------------
(* The table.                                                              *)

RowKeys(p) ==
    {<<"graph", GraphKey(p)>>, <<"eval", EvalKey(p)>>, <<"chain", EvalKey(p)>>,
     <<"build", BuildKey(p)>>, <<"bench", BuildKey(p)>>}

point_row(p) ==
    [failed |-> RowKeys(p) \cap failures # {},
     ap |-> accuracy[EvalKey(p)],
     delta |-> IF EvalKey(p) \in chained THEN chain[EvalKey(p)] ELSE Nothing,
     latency |-> latency[BuildKey(p)]]

WriteTable ==
    /\ phase = Len(Phases) + 1
    /\ table' = [n \in Index |-> point_row(Points[n])]
    /\ settled' = IF failures = {} THEN start ELSE Nothing
    /\ phase' = 0
    /\ UNCHANGED <<world, disk, i, keepGoing, start, failures, broke, ran, chained, bounds>>

Next ==
    \/ \E f \in Field : Change(f)
    \/ Begin \/ Pass \/ Inherit \/ Reuse \/ Run \/ ToolFails \/ Crash \/ WriteTable

Spec == Init /\ [][Next]_vars

-----------------------------------------------------------------------------
TypeOK ==
    /\ world \in [Field -> {0, 1}] /\ start \in [Field -> {0, 1}]
    /\ \A e \in GraphFiles : art[e] # Nothing => art[e] \in Content /\ art[e].precision = e[2]
    /\ \A k \in Builds : engine[k] # Nothing => engine[k].onnx \in Content
    /\ phase \in 0 .. Len(Phases) + 1 /\ i \in Index
    /\ table # Nothing => \A n \in Index : table[n].failed \in BOOLEAN

Rows == IF table = Nothing THEN {} ELSE {n \in Index : ~table[n].failed}
OnnxOf(n) == [checkpoint |-> start.checkpoint, graph |-> Points[n].graph, precision |-> Points[n].precision]

\* A row that is not marked is about its own point: the AP is that of an engine of this
\* graph, precision and checkpoint on these annotations, the throughput that of the engine
\* of this profile and mode, whatever an earlier sweep left (the "cached" conditions of
\* run_exports to run_benches).
RowsAreCurrent ==
    \A n \in Rows :
        /\ table[n].ap # Nothing /\ table[n].latency # Nothing
        /\ table[n].ap.engine.onnx = OnnxOf(n) /\ table[n].ap.ann = start.ann
        /\ table[n].latency.engine = [onnx |-> OnnxOf(n), profile |-> Points[n].profile,
                                      mode |-> Points[n].mode]

\* A row that is not marked has its delta when the baseline has its AP, and it is the delta
\* of the two APs the table shows (run_chains, point_row).
RowsAreComplete ==
    \A n \in Rows :
        EvalKey(Points[n]) # EvalKey(Baseline) /\ 1 \in Rows =>
            table[n].delta = [base |-> table[1].ap, of |-> table[n].ap]

\* A delta compares two engines of one checkpoint on one dataset, also when the checkpoint
\* is replaced while the sweep runs (accuracy_chain.py as the sweep calls it).
DeltaOfOneModel ==
    \A n \in Rows : table[n].delta # Nothing =>
        LET l == table[n].delta.base
            r == table[n].delta.of
        IN  l.engine.onnx.checkpoint = r.engine.onnx.checkpoint /\ l.ann = r.ann /\ l.images = r.images

\* Under --keep-going a point loses its accuracy only by a failure of its own graph,
\* conversion or evaluation, or when no engine of its key was built (eval_engine_for).
FailureHasCause ==
    table # Nothing => \A n \in Index :
        LET p == Points[n] IN
        <<"eval", EvalKey(p)>> \in failures =>
            \/ <<"graph", GraphKey(p)>> \in failures
            \/ \E s \in {"convert", "eval"} : <<s, <<"eval", EvalKey(p)>>>> \in broke
            \/ \A k \in Index : EvalKey(Points[k]) = EvalKey(p) =>
                   <<"build", BuildKey(Points[k])>> \in failures

\* A sweep that is repeated over its own results runs nothing but the comparisons
\* (the "cached" conditions again).
Resumes == (settled # Nothing /\ settled = start) => \A r \in ran : r[1] = "chain" \/ phase = 0

=============================================================================
