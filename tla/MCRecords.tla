------------------------------ MODULE MCRecords ------------------------------
(*****************************************************************************)
(* What is written down about artifacts: reports, the evaluations and the    *)
(* benchmarks they come from, the chain that compares them, the sweep over   *)
(* operating points, and the release.  Each reads and writes files that other *)
(* tools replace meanwhile; a behaviour is of one of them.                   *)
(*****************************************************************************)
EXTENDS ReportFile, Sequences, TLC

CONSTANTS
    Assemblers,
    \* By the name of an instance, its constants:
    Evaluations, Benchmarks, Lineages, Sweeps, Releases

VARIABLE program     \* which program this behaviour is of
VARIABLES artifact, sidecar, publishing, published, input, rewrites, resized, pc, b, k,
          imported, contract, loaded, lineage, x, host, out, stream, chunk, dets, report,
          rebuilds, version, linked, p, hashed, entry, process, file, reports, verdict, world,
          art, side, engine, engineSide, accuracy, chain, latency, phase, at, keepGoing, start,
          failures, broke, ran, chained, table, sweeps, changes, faults, crashes, settled,
          pending, conversion, publications, staging, copied, frozen, sums, shipped, release, download,
          verified, runs

Evaluated == <<"onnx", "engine">>
\* The phases of an evaluation from the comparison of the contracts to the report.
FromMatch == {"match", "image", "infer", "transfer", "sync", "decode", "inputs", "entry"}
SetUp == {"start", "contract", "load", "lineage"}
Anytime == FromMatch \cup SetUp \cup {"flush", "last"}

Graph(initial, cascade, size) ==
    [initial |-> initial, cascade |-> cascade, eval_idx |-> 2, size |-> size]
BaseGraph == Graph(3, <<>>, 1)
ThreeGraphs == {BaseGraph, Graph(3, <<1, 2>>, 1), Graph(3, <<>>, 2)}
WithBadCascade == {BaseGraph, Graph(3, <<1, 2>>, 1), Graph(2, <<1, 2>>, 1)}
AllKinds == {"export", "runtime", "precision", "preset", "comparison"}

\* A baseline, and a second graph that is also built for CUDA Graph replay.
Point(graph, mode) == [graph |-> graph, precision |-> "slim", profile |-> "1/1/8", mode |-> mode]
TwoPoints == <<Point("base", "enqueue"), Point("fast", "enqueue")>>
ThreePoints == TwoPoints \o <<Point("fast", "graph")>>

PackOrder == <<"op19.json", "op19.onnx", "slim.json", "slim.onnx">>

Evaluation(v) == INSTANCE EvaluationRun WITH
    Backends <- Evaluations[v].backends,
    Tool <- Evaluations[v].tool, Images <- Evaluations[v].images,
    FilterRes <- Evaluations[v].filter_res, Batch <- Evaluations[v].batch,
    Models <- Evaluations[v].models, WriteDuring <- Evaluations[v].write_during,
    MaxPublications <- Evaluations[v].max_publications, MaxRewrites <- Evaluations[v].max_rewrites
Benchmark(v) == INSTANCE BenchmarkRun WITH
    Backends <- Benchmarks[v].backends,
    Latency <- Benchmarks[v].latency, Accuracy <- Benchmarks[v].accuracy,
    Batches <- Benchmarks[v].batches, Rounds <- Benchmarks[v].rounds,
    MaxBatches <- Benchmarks[v].max_batches, MaxPublications <- Benchmarks[v].max_publications,
    MaxRebuilds <- Benchmarks[v].max_rebuilds
Lineage(v) == INSTANCE ArtifactLineage WITH
    Checkpoints <- Lineages[v].checkpoints,
    Graphs <- Lineages[v].graphs, Converters <- Lineages[v].converters, Flags <- Lineages[v].flags,
    MaxConversions <- Lineages[v].max_conversions, Protocols <- Lineages[v].protocols,
    Manifests <- Lineages[v].manifests, Stages <- Lineages[v].stages, Kinds <- Lineages[v].kinds
Sweep(v) == INSTANCE PresetSweep WITH
    Points <- Sweeps[v].points, Changes <- Sweeps[v].changes,
    ChangeAt <- Sweeps[v].change_at, KeepGoing <- Sweeps[v].keep_going,
    MaxSweeps <- Sweeps[v].max_sweeps, MaxChanges <- Sweeps[v].max_changes,
    MaxFaults <- Sweeps[v].max_faults, MaxCrashes <- Sweeps[v].max_crashes, i <- at
Release(v) == INSTANCE ReleaseAssembly WITH
    Assembler <- Releases[v].assemblers,
    Tools <- Releases[v].tools, Order <- Releases[v].order,
    Converting <- Releases[v].converting, Uploading <- Releases[v].uploading,
    MaxPublications <- Releases[v].max_publications, MaxRuns <- Releases[v].max_runs

TheEvaluations ==
    "evaluation" :>
       [backends |-> Evaluated, tool |-> "python", images |-> <<"i1">>,
        filter_res |-> FALSE, batch |-> 1, models |-> {"m1"}, write_during |-> Anytime,
        max_publications |-> 3, max_rewrites |-> 0] @@
    "evaluation_models" :>
       [backends |-> Evaluated, tool |-> "python", images |-> <<"i1">>,
        filter_res |-> FALSE, batch |-> 1, models |-> {"m1", "m2"}, write_during |-> FromMatch,
        max_publications |-> 2, max_rewrites |-> 0] @@
    "evaluation_images" :>
       [backends |-> Evaluated, tool |-> "python",
        images |-> <<"i1", "i2">>, filter_res |-> FALSE, batch |-> 1, models |-> {"m1"},
        write_during |-> Anytime, max_publications |-> 0, max_rewrites |-> 2] @@
    "evaluation_chunks" :>
       [backends |-> <<"engine">>, tool |-> "native",
        images |-> <<"i1", "i2", "i3">>, filter_res |-> TRUE, batch |-> 2, models |-> {"m1"},
        write_during |-> Anytime, max_publications |-> 0, max_rewrites |-> 1]

TheBenchmarks ==
    "benchmark" :>
       [backends |-> <<"cpp">>, latency |-> TRUE, accuracy |-> TRUE,
        batches |-> {1, 8}, rounds |-> 2, max_batches |-> {8}, max_publications |-> 0,
        max_rebuilds |-> 2] @@
    "benchmark_modes" :>
       [backends |-> <<"cpp", "cpp-graph">>, latency |-> TRUE,
        accuracy |-> FALSE, batches |-> {1, 8}, rounds |-> 2, max_batches |-> {1, 8},
        max_publications |-> 1, max_rebuilds |-> 0] @@
    "benchmark_reference" :>
       [backends |-> <<"onnx", "trt", "torch">>, latency |-> FALSE,
        accuracy |-> TRUE, batches |-> {1}, rounds |-> 1, max_batches |-> {8},
        max_publications |-> 2, max_rebuilds |-> 0] @@
    "benchmark_sources" :>
       [backends |-> <<"trt", "onnx">>, latency |-> TRUE,
        accuracy |-> TRUE, batches |-> {1}, rounds |-> 1, max_batches |-> {8},
        max_publications |-> 3, max_rebuilds |-> 0]

TheLineages ==
    "lineage" :>
       [checkpoints |-> {"a", "b"}, graphs |-> ThreeGraphs,
        converters |-> {"decoder", "slim"}, flags |-> {"none"}, max_conversions |-> 1,
        protocols |-> {"coco"}, manifests |-> {"none"}, stages |-> 2, kinds |-> AllKinds] @@
    "lineage_chain" :>
       [checkpoints |-> {"a"}, graphs |-> {BaseGraph},
        converters |-> {"slim"}, flags |-> {"none"}, max_conversions |-> 1,
        protocols |-> {"coco", "other"}, manifests |-> {"none"}, stages |-> 3,
        kinds |-> {"runtime"}] @@
    "lineage_manifests" :>
       [checkpoints |-> {"a"}, graphs |-> {BaseGraph},
        converters |-> {"slim"}, flags |-> {"none"}, max_conversions |-> 1,
        protocols |-> {"coco"}, manifests |-> {"none", "m1"}, stages |-> 3,
        kinds |-> {"runtime"}] @@
    "lineage_flags" :>
       [checkpoints |-> {"a"}, graphs |-> WithBadCascade,
        converters |-> {"slim", "fp16", "int8"}, flags |-> {"none", "bf16_decoder_fp32"},
        max_conversions |-> 2, protocols |-> {"coco"}, manifests |-> {"none"}, stages |-> 2,
        kinds |-> {"runtime", "precision"}]

TheSweeps ==
    "sweep" :>
       [points |-> ThreePoints, changes |-> {"checkpoint", "ann"},
        change_at |-> {0}, keep_going |-> BOOLEAN, max_sweeps |-> 3, max_changes |-> 2,
        max_faults |-> 1, max_crashes |-> 0] @@
    "sweep_changing" :>
       [points |-> TwoPoints, changes |-> {"checkpoint", "ann"},
        change_at |-> 0 .. 7, keep_going |-> {TRUE}, max_sweeps |-> 2, max_changes |-> 2,
        max_faults |-> 0, max_crashes |-> 0] @@
    "sweep_failures" :>
       [points |-> ThreePoints, changes |-> {}, change_at |-> {0},
        keep_going |-> {TRUE}, max_sweeps |-> 2, max_changes |-> 0, max_faults |-> 3,
        max_crashes |-> 0] @@
    "sweep_resumed" :>
       [points |-> ThreePoints, changes |-> {"checkpoint", "ann", "images"},
        change_at |-> {0}, keep_going |-> {FALSE}, max_sweeps |-> 3, max_changes |-> 2,
        max_faults |-> 1, max_crashes |-> 1]

\* wheels are those that the input directory may hold at first.
TheReleases ==
    "release" :>
       [assemblers |-> Assemblers, tools |-> {"t1", "t2"}, order |-> PackOrder,
        converting |-> FALSE, uploading |-> TRUE, max_publications |-> 1, max_runs |-> 2,
        wheels |-> {"good", "other"}] @@
    "release_mixed" :>
       [assemblers |-> {"a1"}, tools |-> {"t1"}, order |-> PackOrder,
        converting |-> TRUE, uploading |-> FALSE, max_publications |-> 3, max_runs |-> 1,
        wheels |-> {"good"}]

ASSUME PartsAssumption ==
    /\ \A v \in DOMAIN Evaluations : Evaluation(v)!EvaluationAssumption
    /\ \A v \in DOMAIN Benchmarks : Benchmark(v)!BenchmarkAssumption
    /\ \A v \in DOMAIN Lineages : Lineage(v)!LineageAssumption
    /\ \A v \in DOMAIN Sweeps : Sweep(v)!SweepAssumption
    /\ \A v \in DOMAIN Releases : Release(v)!AssemblyAssumption

\* No name is that of two programs.
ASSUME NamesAssumption ==
    /\ "report" \notin DOMAIN Evaluations \cup DOMAIN Benchmarks \cup DOMAIN Lineages
                          \cup DOMAIN Sweeps \cup DOMAIN Releases
    /\ DOMAIN Evaluations \cap (DOMAIN Benchmarks \cup DOMAIN Lineages \cup DOMAIN Sweeps
                                \cup DOMAIN Releases) = {}
    /\ DOMAIN Benchmarks \cap (DOMAIN Lineages \cup DOMAIN Sweeps \cup DOMAIN Releases) = {}
    /\ DOMAIN Lineages \cap (DOMAIN Sweeps \cup DOMAIN Releases) = {}
    /\ DOMAIN Sweeps \cap DOMAIN Releases = {}

-----------------------------------------------------------------------------
(* The variables of a program the behaviour is not of stay unused.         *)

Unused == "unused"
ReportOnly == <<content, link, asked, overwrite, target, temp, wpc>>
EvaluationOnly == <<rewrites, resized, k, imported, loaded, x, host, stream, chunk, dets>>
BenchmarkOnly == <<rebuilds, version, linked, p, hashed, entry, process>>
LineageOnly == <<file, reports, verdict>>
SweepOnly == <<world, art, side, engine, engineSide, accuracy, chain, latency, phase, at,
               keepGoing, start, failures, broke, ran, chained, table, sweeps, changes, faults,
               crashes, settled>>
ReleaseOnly == <<pending, conversion, publications, staging, copied, frozen, sums, shipped, release,
                 download, verified, runs>>
NoReport ==
    /\ content = [n \in Name |-> IF n \in Input THEN n ELSE Nothing] /\ temp = {}
    /\ link = [n \in Name |-> Nothing] /\ asked = [w \in Writer |-> Nothing] /\ target = asked
    /\ overwrite = [w \in Writer |-> FALSE] /\ wpc = [w \in Writer |-> "check"]
NoEvaluation ==
    /\ rewrites = Unused /\ resized = Unused /\ k = Unused /\ imported = Unused
    /\ loaded = Unused /\ x = Unused /\ host = Unused /\ stream = Unused
    /\ chunk = Unused /\ dets = Unused
NoBenchmark ==
    /\ rebuilds = Unused /\ version = Unused /\ linked = Unused /\ p = Unused
    /\ hashed = Unused /\ entry = Unused /\ process = Unused
NoLineage ==
    /\ file = Unused /\ reports = Unused /\ verdict = Unused
NoSweep ==
    /\ world = Unused /\ art = Unused /\ side = Unused /\ engine = Unused
    /\ engineSide = Unused /\ accuracy = Unused /\ chain = Unused /\ latency = Unused
    /\ phase = Unused /\ at = Unused /\ keepGoing = Unused /\ start = Unused
    /\ failures = Unused /\ broke = Unused /\ ran = Unused /\ chained = Unused
    /\ table = Unused /\ sweeps = Unused /\ changes = Unused /\ faults = Unused
    /\ crashes = Unused /\ settled = Unused
NoRelease ==
    /\ pending = Unused /\ conversion = Unused /\ publications = Unused
    /\ staging = Unused /\ copied = Unused
    /\ frozen = Unused /\ sums = Unused /\ shipped = Unused /\ release = Unused
    /\ download = Unused /\ verified = Unused /\ runs = Unused

\* Two writers, one artifact, a report and another name for links.
ReportBegins ==
    /\ program = "report" /\ Init
    /\ NoEvaluation /\ NoBenchmark /\ NoLineage /\ NoSweep /\ NoRelease
    /\ artifact = Unused /\ sidecar = Unused /\ publishing = Unused /\ published = Unused
    /\ input = Unused /\ pc = Unused /\ b = Unused /\ contract = Unused
    /\ lineage = Unused /\ out = Unused /\ report = Unused
ReportSteps ==
    /\ program = "report" /\ Next
    /\ UNCHANGED <<program, EvaluationOnly, BenchmarkOnly, LineageOnly, SweepOnly,
                   ReleaseOnly, artifact, sidecar, publishing, published, input, pc, b,
                   contract, lineage, out, report>>

\* A graph and an engine, both replaced at any time; artifacts of two models, replaced during
\* the evaluation; two images that are rewritten; the native tool on three images in calls of two.
EvaluationBegins ==
    /\ \E v \in DOMAIN Evaluations : program = v /\ Evaluation(v)!Init
    /\ NoReport /\ NoBenchmark /\ NoLineage /\ NoSweep /\ NoRelease
EvaluationSteps ==
    /\ \E v \in DOMAIN Evaluations : program = v /\ Evaluation(v)!Next
    /\ UNCHANGED <<program, ReportOnly, BenchmarkOnly, LineageOnly, SweepOnly,
                   ReleaseOnly>>

\* The native backend, whose programs are rebuilt; both native modes, with engines of batch one
\* or eight; a graph, an engine and the torch reference; an engine and its graph, both replaced.
BenchmarkBegins ==
    /\ \E v \in DOMAIN Benchmarks : program = v /\ Benchmark(v)!Init
    /\ NoReport /\ NoEvaluation /\ NoLineage /\ NoSweep /\ NoRelease /\ input = Unused
    /\ out = Unused
BenchmarkSteps ==
    /\ \E v \in DOMAIN Benchmarks : program = v /\ Benchmark(v)!Next
    /\ UNCHANGED <<program, ReportOnly, EvaluationOnly, LineageOnly, SweepOnly,
                   ReleaseOnly, input, out>>

\* Two checkpoints, three graphs and one conversion; three stages under two protocols and two
\* manifests; two conversions and every precision flag.
LineageBegins ==
    /\ \E v \in DOMAIN Lineages : program = v /\ Lineage(v)!Init
    /\ NoReport /\ NoEvaluation /\ NoBenchmark /\ NoSweep /\ NoRelease
    /\ artifact = Unused /\ sidecar = Unused /\ publishing = Unused /\ published = Unused
    /\ input = Unused /\ pc = Unused /\ b = Unused /\ contract = Unused
    /\ lineage = Unused /\ out = Unused /\ report = Unused
LineageSteps ==
    /\ \E v \in DOMAIN Lineages : program = v /\ Lineage(v)!Next
    /\ UNCHANGED <<program, ReportOnly, EvaluationOnly, BenchmarkOnly, SweepOnly,
                   ReleaseOnly, artifact, sidecar, publishing, published, input, pc, b,
                   contract, lineage, out, report>>

\* Three sweeps, the checkpoint and the annotations change between them; they change during two
\* sweeps; three tools fail under --keep-going; a failure and a stop of the machine in three sweeps.
SweepBegins ==
    /\ \E v \in DOMAIN Sweeps : program = v /\ Sweep(v)!Init
    /\ NoReport /\ NoEvaluation /\ NoBenchmark /\ NoLineage /\ NoRelease
    /\ artifact = Unused /\ sidecar = Unused /\ publishing = Unused /\ published = Unused
    /\ input = Unused /\ pc = Unused /\ b = Unused /\ contract = Unused
    /\ lineage = Unused /\ out = Unused /\ report = Unused
SweepSteps ==
    /\ \E v \in DOMAIN Sweeps : program = v /\ Sweep(v)!Next
    /\ UNCHANGED <<program, ReportOnly, EvaluationOnly, BenchmarkOnly, LineageOnly,
                   ReleaseOnly, artifact, sidecar, publishing, published, input, pc, b,
                   contract, lineage, out, report>>

\* Two assemblies into one directory, an export with one of two sets of tools, uploads and
\* downloads; one assembly among three exports and conversions, which may fail or overlap.
ReleaseBegins ==
    /\ \E v \in DOMAIN Releases :
           program = v /\ Release(v)!Init /\ input["wheel"] \in Releases[v].wheels
    /\ NoReport /\ NoEvaluation /\ NoBenchmark /\ NoLineage /\ NoSweep
    /\ artifact = Unused /\ sidecar = Unused /\ publishing = Unused /\ published = Unused
    /\ b = Unused /\ contract = Unused /\ lineage = Unused /\ report = Unused
ReleaseSteps ==
    /\ \E v \in DOMAIN Releases : program = v /\ Release(v)!Next
    /\ UNCHANGED <<program, ReportOnly, EvaluationOnly, BenchmarkOnly, LineageOnly,
                   SweepOnly, artifact, sidecar, publishing, published, b, contract,
                   lineage, report>>

RecordsInit ==
    \/ ReportBegins \/ EvaluationBegins \/ BenchmarkBegins \/ LineageBegins
    \/ SweepBegins \/ ReleaseBegins
RecordsNext ==
    \/ ReportSteps \/ EvaluationSteps \/ BenchmarkSteps \/ LineageSteps
    \/ SweepSteps \/ ReleaseSteps
RecordsVars == <<program, content, link, asked, overwrite, target, temp, wpc, artifact,
                 sidecar, publishing, published, input, rewrites, resized, pc, b, k, imported,
                 contract, loaded, lineage, x, host, out, stream, chunk, dets, report,
                 rebuilds, version, linked, p, hashed, entry, process, file, reports, verdict,
                 world, art, side, engine, engineSide, accuracy, chain, latency, phase, at,
                 keepGoing, start, failures, broke, ran, chained, table, sweeps, changes,
                 faults, crashes, settled, pending, conversion, publications, staging, copied, frozen,
                 sums, shipped, release, download, verified, runs>>

RecordsSpec == RecordsInit /\ [][RecordsNext]_RecordsVars

-----------------------------------------------------------------------------
(* ArtifactsKept and NothingReplaced (ReportFile) are checked as they are. *)

\* An accepted report is on an engine of the graph it names, and what it names is what was
\* measured: every image's own pixels, one version for all backends, the library and
\* program of every round (coco_eval.py, cpp_coco_eval.py, profile.py).
EngineOfNamedOnnx ==
    /\ \A v \in DOMAIN Evaluations : program = v =>
           /\ Evaluation(v)!EngineOfNamedOnnx
           /\ Evaluation(v)!OwnPixels /\ Evaluation(v)!SamePixels /\ Evaluation(v)!UnseenIsResized
           /\ Evaluations[v].tool = "python" /\ Evaluations[v].write_during \cap SetUp = {} =>
                  Evaluation(v)!MeasuredIsNamed
    /\ \A v \in DOMAIN Benchmarks : program = v =>
           /\ Benchmark(v)!RuntimeIsNamed /\ Benchmark(v)!EveryBatchEveryRound
           /\ Benchmark(v)!OneCheckpoint /\ Benchmark(v)!EngineOfNamedOnnx

\* Stages the chain verifies are of one checkpoint and one protocol and differ in what the
\* transition says, and only in that; the documented chains are accepted (accuracy_chain.py).
\* What says that a graph is raw is its sidecar, in which convert_int8.py changes nothing; of two
\* conversions it names the last.
Marks(v) ==
    /\ Lineages[v].converters \subseteq {"decoder", "slim"} /\ Lineages[v].flags = {"none"}
    /\ Lineages[v].max_conversions <= 1
OneModel ==
    \A v \in DOMAIN Lineages : program = v =>
        /\ Lineage(v)!OneModel /\ Lineage(v)!OneProtocol
        /\ Lineage(v)!RuntimeIsTheBackend /\ Lineage(v)!PrecisionOfOneGraph
        /\ Marks(v) => /\ Lineage(v)!ExportIsRaw /\ Lineage(v)!PresetChangesGraphOnly
                       /\ Lineage(v)!TrueTransitionsAccepted

\* A row of the sweep's table that is not marked is complete.  Until the machine stops between
\* two renames, a mark has a cause and a delta is of one checkpoint.  Unless the user changes
\* its inputs under a running sweep, a sweep that is repeated over its own results runs the
\* comparisons only and, again without such a stop, a row is about its own point, whatever
\* earlier sweeps left (preset_sweep.py).
RowsAreCurrent ==
    \A v \in DOMAIN Sweeps : program = v =>
        /\ Sweep(v)!RowsAreComplete
        /\ crashes = 0 => Sweep(v)!FailureHasCause /\ Sweep(v)!DeltaOfOneModel
        /\ Sweeps[v].change_at = {0} =>
               /\ Sweep(v)!Resumes
               /\ crashes = 0 => Sweep(v)!RowsAreCurrent

\* What is renamed to --out is whole, is what was validated, and is never replaced by a
\* second assembly; verify passes only a set that one assembly shipped; the FP32 graph is
\* official, if its converter read the two files of one publication (release_assets.py).
Outcome == <<out, shipped, download, verified>>
ShippedIsAdmitted ==
    [][\A v \in DOMAIN Releases : program = v =>
         /\ Release(v)!OutNotReplaced
         /\ Release(v)!OutWhole' /\ Release(v)!ShippedIsAdmitted' /\ Release(v)!Fp32GraphOfficial'
         /\ Release(v)!VerifiedIsOneAssembly']_Outcome

Symmetry == Permutations(Assemblers)
=============================================================================
