# A TLA+ model of dfine-cpp

dfine-cpp runs the D-FINE object detector on TensorRT. What is hard in it is not
the arithmetic but the state that has to stay consistent while things fail: an
execution context and its cached shapes, buffers that are replaced while the GPU
may still use them, CUDA graphs that bake addresses in, and a `freeze()` after
which nothing may be allocated. Around it stand Python and C++ programs that hand
model artifacts (a graph or an engine with a JSON sidecar, in two files) to each other
through directories which others write at the same time, and reports that must say
what was measured. This directory models all of that in TLA+, checks it with TLC, and
proves most of it with TLAPS: of the 40 properties the passing runs check, 38 are theorems.

Paths below are those of the repository, under `src/` here.

## Inventory

| component | state | operations | hard behaviour | what makes it correct | modules |
|---|---|---|---|---|---|
| TensorRT session (`src/core/trt_session.cpp`) | context shape and addresses, `bindings_` cache, device and pinned buffers, capacity, generation, `ShapeState`, frozen | `set_input_shape`, `set_input`, `enqueue`, `get_output*`, `synchronize`, `drain_noexcept`, `freeze`, destructor | a multi-step transition that can fail at every step; queued work on buffers being replaced | a transition commits or unwinds; a clean session mirrors its context; nothing in use is freed; an output belongs to its inputs | `SessionContract`, `TrtSession`, `SessionIo`, `HalfUnpack` |
| image preprocessor (`src/core/cuda_preprocess.cu`) | one pinned and one device staging buffer, capacity, upload event, frozen | `process`, `freeze` | the host overwrites the buffers the GPU reads; growth fails half way | every batch slot gets its own image; capacity is never overstated | `ImagePreprocessor` |
| detector (`src/tasks/detector.cpp`) | flushed-batch marker, engine graphs per batch, pinned results, decode scratch, full-pipeline graph, frozen configuration | `detect`, `detect_batch`, `freeze` | four execution paths share one context and stream; replays bypass the session; every call may fail between queueing and waiting | a replay equals an inference; graphs never outlive what they baked in; after freeze nothing is allocated; gates heal | `Detector` |
| device arena (`src/internal/device_arena.hpp`) | reserved bytes, block, lock | `sub`, `commit`, `lock` | reserve/commit/lock protocol, failing allocation | slabs are disjoint, backed, and stay where they are | `DeviceArena` |
| box decoding (`postprocess.cpp`, `decode_gpu.cu`) | candidate scratch, threshold cell | top-k, threshold, compaction, on host and GPU | ties, NaN and saturated scores; threads in any order | all paths select the same boxes | `BoxDecoding` |
| engine metadata (`engine_meta.cpp`) | the facts an engine and a sidecar declare | find, read, compare, write back | partial sidecars, defaults, two names | a sidecar that is accepted describes the engine; one that fits is accepted | `EngineContract`, `SidecarNames` |
| logging (`log.cpp`), fault injection (`failpoint.cpp`) | global atomics | set callback, log; arm, fire | two atomics read and written one at a time | a freed callback is never called; a failpoint fires once, at its hit | `LogBridge`, `FaultInjection` |
| C API, Python binding (`c_api.cpp`, `python/dfine/detector.py`, `_ffi.py`) | handles, result sets, thread-local error, library cache | create, detect, close; find the library | interrupts between a native call and the store of its result; the collector; a rebuild during the search | one owner each; an error is reported on its thread; a requested library is not substituted | `PythonBinding`, `LibraryLoader` |
| command line, engine cache (`python/dfine/cli.py`) | cache directory | resolve, build, export, inspect | artifacts change between being read and being used | an engine is used only with the ONNX it was built from | `EngineCache` |
| publication (`_publish_pair`, five copies; `publish_engine_pair` in `apps/dfine_build.cpp`) | a graph or engine and its sidecar | stage, back up, replace, roll back | concurrent producers, failures and crashes between two renames | a reader finds a matching pair | `AtomicPublication`, `PublishPair`, `ArtifactReader`, `SidecarNames` |
| engine builders, converters (`trt-files/scripts/build_engine.py`, `convert_*.py`) | arguments, source snapshot, work files, graph types | check, read, convert, build, publish | two programs must agree on what an engine is; graph passes that must converge; failures that leave files | what is built loads; no node mixes types; nothing is littered or lost | `BuildRecipe`, `Conversion`, `TypeHarmonizer`, `Blocklist` |
| ONNX export (`export_dfine_onnx.py`) | checkpoint, staged graph, facts | load, trace, simplify, verify, publish | sources and checkpoint change; tools break what they rewrite | what is published was verified and says what it is | `ExportRun` |
| model definition (`trt-files/dfine_model`) | heads, layers, anchors, grids | deploy, forward; build, load, flatten | options cut a trained model; a checkpoint of another size | rows are trained ones; queries sit on their anchors | `DecoderDeploy`, `QueryGeometry` |
| evaluation and reports (`coco_eval.py`, `cpp_coco_eval.py`, `profile.py`, `accuracy_chain.py`, `preset_sweep.py`, `evaluation_report.py`) | reports, digests, stages | measure, hash, compare, resume, write | what is measured changes between reading and hashing; steps are skipped on repeat | a report names what it measured; a row of the sweep is current | `EvaluationRun`, `BenchmarkRun`, `ArtifactLineage`, `PresetSweep`, `ReportFile` |
| release assembly (`release_assets.py`) | staging directory, manifest, release | assemble, verify | inputs published and assets uploaded meanwhile | a release is one assembly of admitted artifacts | `ReleaseAssembly` |
| applications (`apps/`) | none | drivers and console output | little | | parts in `EvaluationRun`, `BenchmarkRun`, `SidecarNames` |

Calls go down: Python and C API call the detector; the detector drives the
session, the preprocessor and the decode kernels on one CUDA stream. The stream
is the only concurrency inside a detector: the host queues work and goes on, and
every hazard of the core is a host step taken while that work is pending, or a
failure after it was queued. Outside, processes share files. A directory is protected
by one flock, which publishers take and readers do not: every hazard there is a read
between two steps of somebody else, or two reads of what was thought to be one thing.

The composition follows the code. `Detector` runs on an instance of `SessionContract`,
which `TrtSession` implements; `PublishPair` implements `AtomicPublication`, which
`ExportRun` uses for its last step; `ArtifactReader` extends `PublishPair` by a reader.
The modules about files that only need to know that a publication writes its graph
first (`EngineCache`, `ReleaseAssembly`, `EvaluationRun`, ...) have it as one or two
steps of their own.

## Modules: the runtime

**TrtSession.** `shape_state`, `frozen`, `capacity`, `device`, `generation` are the
members of the class; `shape` stands for the shapes cached in `bindings_`;
`ctx_shape` and `ctx_addr` are what the TensorRT execution context itself holds,
which the code cannot read back. `live` is the allocated device memory and
`inflight` the part of it that queued work can touch. `phase`, `target`, `staged`
and `rebound` are the locals of a `set_input_shape` under way: the local vector
`Staged` owns the replacement buffers, so leaving by exception frees them
(`Abandon`). A device buffer and its pinned twin are one address, because the
code allocates, swaps and frees them together; failing to allocate the twin is
`AllocateFails`. A call that is refused before it changes anything is a
stuttering step.

**ImagePreprocessor.** The GPU has a queue of uploads and kernels and executes one
at a time, at any moment (`GpuStep`). `h_pinned`, `d_src` and `d_dst` hold the
identity of the image whose pixels they contain, so an overwrite that comes too
early shows in `d_dst`. `size` is what is really allocated, `capacity` what the
class believes. A call blocked on the last upload is at `wait`; `ensure_capacity_` is split where it
can fail.

**Detector.** `graph_ctx_batch`, `graphs`, `pinned`, `graph_disabled`, `gdec`, `frozen` and
`full` are members of `Impl`; `staging` and `staging_frozen` belong to the preprocessor.
`pc` is where `run_batch` or `freeze_` is. A call is the sequence of its frame sizes;
sizes are totally ordered, which merges width and height into one bound. The
deferred shape setup of TensorRT is `flushed`: the batch the last `enqueueV3`
executed. Host accesses to pinned memory that queued work uses set `torn`. What the
GPU computes is not modelled: `ran`, of the session, records on which shape and
buffers an inference ran, and a graph replay writes the batch and the addresses it
baked in there. That is how a stale replay becomes visible as a step that
`SessionContract` does not allow.

**SessionIo.** What `TrtSession` leaves out, the contents. A binding has a host twin, a device
buffer and a place in the stream; queued copies and engine runs are executed in order but
as late as the stream allows. `set_input` overwrites the pinned twin without waiting for
an earlier upload of the same binding (`trt_session.cpp:459`); why that is harmless is
`NothingOvertaken`. Callers use `infer`, which waits, after `set_input`, as the code's
callers do; a bare `enqueue` is the detector's and is in `TrtSession`.

**HalfUnpack, DeviceArena, FaultInjection.** `half_to_float` word by word, with the loop that
renormalizes subnormals; the arena with a failing allocation and both lock policies, at one
alignment; the failpoint slots access by access, armed only while no check runs, as the
header demands.

**BoxDecoding.** `decode_detections` and the kernels (threshold filter, sort, compaction, with
the threads of a block in any order), and the call around them on the host, split and full
paths. A logit is a position in an order, its score another: distinct logits may saturate to
one score. The `cxcywh` and letterbox arithmetic is data, the same expressions everywhere.
`AgreesWithReference` speaks of images without NaN.

**EngineContract.** Every engine against every sidecar, with fields that are absent, defaulted
or declared. The size stands for the queries too; values that are malformed one by one are
left out. A document names tensors the engine has or others. `to_json_file` writes the default
names where none were declared: the document of an engine with other names, accepted before, is
then refused, and `Fits` says so.

**LogBridge, PythonBinding, LibraryLoader.** One action per access to shared state: the two
atomics of the log route, the store of a native result into its Python name (an interrupt
may arrive before it), each existence check of the search. Threads have a detector each, as
the class asks; the collector finishes one in any thread; the allocator reuses addresses.

## Modules: artifacts and programs

**PublishPair.** Five scripts (`build_engine.py`, `export_dfine_onnx.py`, `convert_fp16.py`,
`convert_fp16_surgical.py`, `convert_int8.py`) carry the same `_publish_pair`; the map of
`PublishPair` names the copy in `build_engine.py`, that of `AtomicPublication` the exporter's.
`dir` is the directory: to which file each output name refers. `tmp` and `bak` are the
staging files and backup links on disk, `changed`, `unrestored` (`rollback_errors`) and
`preserve` the locals, `lock` the flock, `result` the exception in flight or none. A
file is its identity: a publisher stages a fresh file, and a rollback renames a hard
link, so the same inode comes back. What a publisher does between taking the lock and
its first swap touches only names of its own, so one action stands for it; a crash there
leaves at most those links. Unlinking one's own staging files does not fail in the model
(the code only prints a warning). `whole` is a history variable: the artifact as last
completely published.

**ArtifactReader.** `seen` holds the identities taken first, `input` what was read.
Each stat and each read is one action, because a publisher may act between any two.

**SidecarNames.** Sidecar planning by both builders against the order in which the runtime
looks sidecars up. A publication under the lock is one step here; `dfine_build`, which takes
no lock, has a step for the hard link that backs the engine up and one per rename, and may fail at each.
Without the lock the other builder may publish after the backup was made: when a rename then fails, the
rollback (`dfine_build.cpp:303`) puts the older engine back, beside the newer sidecar. The model does that, and the
history variables record it: `intruded` are the builders somebody got in the way of, `disturbed` the engines whose
publication somebody was in the way of. The labels are promised for the engines that are not `disturbed`.

**EngineCache.** `predict`, `info`, `bench`, `build` and `export` one file access at a time, with a
user who renames and removes engines. The engine name is derived from the fingerprint of
what was read. `Reverified` and `ServesIfAny` speak of commands that ran undisturbed.

**BuildRecipe.** The decisions of `build()` from arguments to sidecar, then those of
`DFineDetector::Impl` on the result. It is a two-sided contract: Python decides what an
engine has, C++ decides it again.

**Conversion, TypeHarmonizer, Blocklist.** The converters as processes; the pass that repairs
mixed float types, on all small graphs; the work list that finds the nodes to keep FP32.

**ExportRun, DecoderDeploy, QueryGeometry.** The steps of the export; what the slider options do
to the decoder; which anchors the queries get. The tracer and the simplifier may break one postcondition in any way. What a
layer computes is uninterpreted, apart from the rows it was trained on.

**ArtifactLineage.** Sidecars handed from tool to tool, and the verdict of `accuracy_chain.py` on
two of them, against how the artifacts were made.

**EvaluationRun, BenchmarkRun.** Both read, measure and hash step by step while other tools
publish and edit. A content stands for its digest, and nothing brings older bytes back.

**PresetSweep.** Sweeps repeated over one output directory. Exports, conversions and builds are
deterministic, so that content is what it was made from.

**ReleaseAssembly.** `assemble` with its validators file by file, uploads, `verify`. Exporters and converters
share the input directory and the lock on it: a publication renames the graph, then the sidecar, and may fail or die
in between. One converter at a time reads identities, graph and sidecar without the lock, in a step each, and publishes
at some later time what it read. `from` is the graph of a slim artifact, `facts` the sidecar it inherits.

**ReportFile.** `atomic_json` by several writers, with a user who makes and removes links.
There are no chains of links.

| proofs | about |
|---|---|
| `TrtSessionProofs`, `ImagePreprocessorProofs`, `DetectorProofs` | the core of the runtime |
| `RuntimeProofs` | the rest of it: `SessionIo`, `DeviceArena`, `LogBridge`, `PythonBinding`, `LibraryLoader`, `FaultInjection`, `EngineContract`, `HalfUnpack`, `BoxDecoding` |
| `PublishPairProofs` | `PublishPair`, `ArtifactReader` |
| `MakersProofs` | `ExportRun`, `Conversion`, `Blocklist`, `DecoderDeploy`, `QueryGeometry` |
| `BuildersProofs` | `EngineCache`, `SidecarNames`, `BuildRecipe`, `TypeHarmonizer` |
| `RecordsProofs` | `ReportFile`, `ReleaseAssembly`, `EvaluationRun`, `BenchmarkRun`, `ArtifactLineage`, `PresetSweep` |

`MC*` modules hold the constants and symmetries for TLC. Four of them are suites, see below.


## Runs

Twelve runs, each of one question or of one family of questions:

| run | question | instance | states |
|---|---|---|---|
| `session` | is `set_input_shape` transactional under every failure? | 3 bindings (one dynamic input, an output that outgrows its buffer when the input does not, one of fixed size), 4 shapes, one of them unresolvable, 5 addresses: enough for all bindings plus two staged replacements, so that addresses are reused | 4 277 |
| `preprocessor` | do images keep apart, and does every call return? | 3 images of different size, 2 slots, at most 4 queued operations (two images ahead of the GPU) | 50 604 |
| `full_graph` | may the full-pipeline graph ever run when it should not? | batches 1 and 2, calls of up to 3 frames (one beyond the profile), 2 frame sizes, 2 bindings of which the detector compares one, 3 addresses, at most 2 buffer replacements | 194 811 |
| `engine_graph` | do engine graphs notice what moved? | batches 1 to 3, one frame size, else as above; 2 pinned addresses, so that the allocator hands an old one out again | 1 954 784 |
| `refreeze` | does a second `freeze()` with source bounds find its staging warm? | one batch, 2 frame sizes; violated | |
| `publication` | is a publication atomic, is nothing lost, and does the lock come back? | 2 publishers of one artifact, one with a sidecar and a twin to remove, one with neither; every initial set of files; every failure, interrupt and crash | 171 921 |
| `reader_mixed`, `reader_rollback` | is what a builder accepts one stable pair, and unchanged? | two publishers without a twin, one reader; violated | |
| `runtime` | the rest of libdfine and its Python binding | a suite of 15 programs | 2 810 186 |
| `makers` | the tools that make a graph | a suite of 10 programs | 2 205 986 |
| `builders` | from a graph on disk to a loaded engine | a suite of 9 programs | 4 841 000 |
| `records` | what is written down about artifacts | a suite of 19 programs | 2 004 902 |

A **suite** (`MCRuntime`, `MCMakers`, `MCBuilders`, `MCRecords`) is the disjoint union of programs that share no
state in the code: the failpoint slots know nothing of the log route, an evaluation nothing of
a release. A behaviour begins as one program (`program`), takes only steps of that program's
`Next`, and the variables that program does not have stay `Unused`. So the reachable states of
a suite are those of its programs side by side, and a property of a suite says of
each program what it says of that program alone; nothing is lost, and no product is built.
Where one question needs a wider instance in one direction, a program comes in several variants:
`lineage_chain` has three stages, two protocols and one model, `lineage` two stages and two models. Such a program
is an instance with a parameter, `Lineage(v)`, whose constants are the record `Lineages[v]`; the table
`Lineages` is a constant of the suite, and `TheLineages` is the value TLC gets, with a comment on
what each variant is for. `PartsAssumption` says that every variant satisfies the assumption of its module,
`NamesAssumption` that no two programs have one name. A property of a suite is the conjunction of the properties of one
subject, by name: for example `OneOwner` is `Detectors(v)!OneOwner` and `Detectors(v)!ResultsFreed` of every variant `v`. Each
conjunct is documented where it is defined, and every module's `TypeOK` is in one of them.

A conjunct has a guard where the code promises it in some variants only, and the guard names the reason:

| guarded by | what | why |
|---|---|---|
| no `interrupts` | `OneOwner`, `ResultsFreed` | a Ctrl-C between a native call and the store of its result leaks (see the divergences) |
| no `rebuilds` | `NeverSubstituted` | a relink between the two existence checks falls through |
| `one_setter` | `LostOnlyOnRestore`, `SettledRoute` | overlapping calls leave the route to the later store |
| `OneGraphOfAStem` | `AcceptedAsFound`, `PairsOfOneRun` | `m.onnx` and `m.ONNX` have one sidecar, `m.json` |
| `tool` is `"surgical"` | `NoMixedNode`, `IslandIsExact`, `Converges` | `convert_fp16.py` makes a single pass |
| no scopes, or `cross_attn` among them | `IndicesStayFp32` | whoever names other scopes answers for what feeds an index from there |
| not `RenamesProfile` | `ServesIfAny` | a user who renames an engine to another profile |
| `tool` is `"python"`, nothing published in `SetUp` | `MeasuredIsNamed` | `cpp_coco_eval.py` hashes on one side of the measurement only |
| `Marks(v)` | `ExportIsRaw`, `PresetChangesGraphOnly`, `TrueTransitionsAccepted` | INT8 graphs and some flags are not marked in the sidecar, and of two conversions it names the last |
| `change_at` is `{0}` | `Resumes`, `RowsAreCurrent` | the user edits inputs under a running sweep |
| engine not `disturbed` | `EngineKeepsItsSidecar` | `dfine_build` takes no lock: a rollback may undo the other builder's engine, but not its sidecar |
| `from` is `facts` | `Fp32GraphOfficial` | a converter reads without the lock: a graph of another checkpoint can be bound to the official sidecar it replaces, and `release_assets.py:630-645` admits the pack |
| no crash so far | `RowsAreCurrent`, `FailureHasCause`, `DeltaOfOneModel` | a machine that stops between two renames leaves a sidecar that names another graph |

What they show, beyond types:

* `session`: `Mirrors`, `NoUseAfterFree`, and the refinement of `SessionContract`
  (`ImplementsContract`).
* `preprocessor`: `RightPixels`, and the liveness property `CallReturns`.
* `full_graph`: `ReplaysAreInferences` (every step of the detector, replays included, is one the
  session contract allows), `NeverTorn`, and `GatesHeal` (one successful call at the frozen batch
  opens the gates of the graph again).
* `engine_graph`: `ResultsLand`, `FreezeSettles`, and `ReplaysAreInferences` for `graph_stale_` and capture.
* `publication`: `NothingLost` (after a crash or a failed rollback every file of the last complete
  artifact still has a name), `EveryPublisherEnds`, and the refinement of `AtomicPublication`.
* `runtime`: an output belongs to the inputs of the last `infer`; slabs share no byte; host, split and
  full decoding return what the Python reference may return; a sidecar is accepted only if
  it describes the engine; a failpoint fires on its n-th hit and once; every FP16 word has its value; native handles
  and results have one owner; an error is that of the failed call; the library search
  passes nothing over; native code calls only trampolines that are alive.
* `makers`: what an export publishes is verified and says what it is; rows of a pruned decoder are
  trained ones; anchors sit on their cells; conversions keep their source, are of one run and leave nothing; index
  arithmetic stays FP32.
* `builders`: an accepted pair is the identified one; undisturbed commands use an engine of the
  ONNX they resolved; a build never changes its source's sidecar and its engine is found with its own
  labels; what `build_engine.py` publishes is what the runtime loads; the float repair converges on an exact island.
* `records`: reports overwrite no artifact and nothing they were not asked to; a report names what was measured;
  stages of a verified chain are of one model and differ in the named thing only; an unmarked row of a sweep is
  current and complete; a release is one assembly of admitted artifacts.

The bounds are small, but every mechanism needs few participants: a stale graph
needs one binding the detector does not compare, an address reused once and a
second batch; a lost marker needs two batches and one failure; a torn buffer needs
two images; a lost file needs a publisher that dies and another that publishes after
it; a mixed report needs one publication between two reads. A publisher publishes once: a
producer is a process that ends. Calls of the core repeat without bound; buffer replacements (`MaxGeneration`), queue lengths (`MaxQueue`) and
the counters of the programs (`MaxCalls`, `MaxCommands`, `MaxPublications`, `MaxRuns`, ...) are capped where they are
declared. Symmetric sets are declared as such only where nothing distinguishes their members, and never in a run with a liveness property.
`HalfUnpack` runs over all 65536 words.

Every property of a passing run has a mutant in `PROJECT.json`: a plausible bug, an operator
beside the mapped definition it replaces, that makes TLC report the property violated.

### Fairness

`ImagePreprocessor` and `PublishPair` state fairness. In the first, the GPU executes what is queued, and a
call that was begun goes on. Both are what a running process gives: `process()` has
no wait other than on the GPU, and its steps are straight-line code. Nothing
obliges a caller to call or an allocation to succeed. Weak fairness is enough,
because a step of `process()` that is enabled stays so until it is taken. In
`PublishPair` a process that is not killed takes its next regular step (`Proceeds`);
failures, interrupts and crashes are never obliged to happen. Weak fairness suffices for
the lock too: every publisher takes it once, so it ends up free for whoever waits.

The other programs are sequences of steps without waiting, apart from locks. For them termination
would say no more than that the steps are finite; what could go wrong is a lock or a file that
stays, which `NoLitter` and `LockIsPassing` state as safety. `CHECK_DEADLOCK FALSE` is
said where programs end.

### Findings

`refreeze`: after `freeze(batch)`, which leaves source sizes unbounded, a frame larger
than the staging buffers makes `ensure_capacity_` release both buffers before it
allocates larger ones. If that allocation fails, capacity is 0. A second `freeze()`
with explicit bounds then freezes the preprocessor in that state, because
`detector.cpp:1085` assumes that "staging was already warmed at exactly this size".
From then on every frame within the bound that takes the split path is refused as
"ImagePreprocessor is frozen". Until that second call the state heals by itself: the
next frame grows staging again.

`reader_mixed`: `_load_onnx_artifact` promises to "Snapshot the graph and optional sidecar
as one stable build input" (`build_engine.py:310`). It takes no lock. When all its steps
fall between the two renames of an exporter, or come after an exporter that died there,
both identities agree before and after, and a new graph is built with the previous
sidecar. Taking the lock of `_publish_pair` (shared) would close the first case. The converters read their source
the same way.

`reader_rollback`: the same function reports that the artifact "changed while it was being
read" (`build_engine.py:317`) when device, inode, size or mtime differ. A publication
that fails after its first rename puts the old inode back, with its old mtime, so a
graph read in between, which was never published, is accepted.

### Divergences met on the way

The models also show, by a state that is reachable in them, where a doc or a comment says more than
the code does. They have no run of their own; the properties above are stated for what does hold.

| what is said | where | what the code does |
|---|---|---|
| "only an engine built from exactly that ONNX is used" | `cli.py:229` | on a miss the builder is started on the path (line 297) and reads it again: an ONNX replaced after the digest was taken gives an engine under the old name. Its sidecar tells, so later commands ignore it |
| after an export "every later `dfine predict --model X` resolves the new artifact" | `cli.py:636` | an FP32 or legacy FP16 export replaces its own file only, predict prefers `_slim` (line 36) |
| the engine name is "not the source of truth" | `cli.py:150` | the exact-name match (lines 259-261) returns before the sidecar is consulted |
| `model.json` "belongs to the ONNX artifact" | `docs/NAMING.md:124` | `_engine_sidecar_plan` protects the sidecar of its own source only: built from `b.onnx`, `a.engine` takes `a.json` from `a.onnx` |
| the sidecar records "the engine's real dims/classes/queries" | `build_engine.py:683` | without a source sidecar the first output of rank 3 that is not 4 wide counts as the logits (line 688), the runtime goes by the names |
| "the swap is atomic" | `c_api.h:224` | two stores (`c_api.cpp:137`): a message between them, or of a logger that loaded the adapter before, reaches neither callback nor stderr |
| `close()` is idempotent | `detector.py:381` | the handle is cleared after the native destroy returns: a Ctrl-C during it leaves a dead handle behind |
| "the C-side result set is freed after every call" | `detector.py:12` | the `try` begins two statements after the native call (line 323); a Ctrl-C in between leaks the set |
| a requested library "must never be silently substituted" | `_ffi.py:155` | it is checked twice (lines 154, 165); a relink between the checks falls through to the next candidate |
| assemble validates "each slim graph's FP32 source hash" | `docs/RELEASE_CHECKLIST.md:338` | the hash is that of the slim sidecar; a publication between the copies ships a slim graph its sidecar does not describe; and the hash may be that of a graph of another checkpoint, if its conversion read across an export |
| converters "overwrite both fields with their recipe" | `export_dfine_onnx.py:745` | `convert_int8.py:348` leaves `precision_mode`, so an INT8 graph passes as a raw export |
| "every report records the annotation hash, selected image-content hash, evaluator hash, artifact ..." | `docs/VALIDATION.md:186` | `coco_eval.py:585` hashes inputs after the images were read; `cpp_coco_eval.py:187` and `profile.py:937` hash the engine once, on one side of the measurement |
| skipped images are left out of the scored ids | `cpp_coco_eval.py:293` | script and binary filter by different sizes, the annotated and the decoded one |
| a step is reused "when its sidecar or report proves the expected lineage" | `docs/VALIDATION.md:82` | images (`preset_sweep.py:382`) and measurement settings (453) are not compared; a sidecar is compared without its file (280), which a crash between two renames defeats |
| deltas "are anchored to the `base` point" | `docs/VALIDATION.md:70` | with a failed baseline a missing delta counts as none lost (`preset_sweep.py:565`) |
| an fp32 point may be swept | `docs/VALIDATION.md:67` | next to a slim baseline its comparison is always refused (`preset_sweep.py:411`) |
| "make every multi-input float node type-consistent" | `convert_fp16.py:247` | one pass over types that are not updated; a node it turns to FP32 may make its consumer mixed |
| a conversion snapshots its source pair | `convert_fp16_surgical.py:300` | as `reader_mixed` |
| the coordinate slice "must stay FP32" | `convert_fp16_surgical.py:330` | an FP16 scope that contains the cross attention of a layer takes its index arithmetic along (line 374) |
| "at any other --img-size the shapes cannot match" | `export_dfine_onnx.py:778` | buffers have one row per cell: another shape of the same area matches |
| `exporter_sha256` is of the source "that defines the emitted graph" | `export_dfine_onnx.py:589` | it is read again after the import |
| the ranking "is bit-identical to the CPU path" | `decode_gpu.cuh:10` | among equal logits it is not: the host sort is not stable |
| NaN "is cleanly dropped" | `decode_gpu.cu:34` | at threshold 0 with no more than top-k candidates it is returned with score 0 |
| "a facts-only sidecar ... must load" | `detector.cpp:319` | `to_json_file` writes defaults as declarations, and the rewritten sidecar is rejected |
| `at()` is "valid after commit" | `device_arena.hpp:17` | after a failed `commit` a second one returns at once, without a block; the one caller drops the arena |
| an oversized batch leaves the detector "untouched" | `detector.cpp:522` | line 1274 has dropped the flushed-batch marker by then; `GatesHeal` shows that one call brings it back |

`publication` also contains an interrupt inside the rollback loop (`RollbackInterrupted`).
The loop catches `OSError` only, so the `finally` clause then removes the backups of what
was not restored. `NothingLost` excludes that case; the docstring promises recovery for
ordinary failures only.

## Proofs

Eight modules of proofs, from the named assumptions and nothing else, for every value of the constants.
A property in bold is checked by a run as well; the others were found to hold by TLC before they were proved, and
have no run of their own any more because the proof covers every instance.

| module | assumption | proved |
|---|---|---|
| `TrtSessionProofs` | `SessionAssumption`: bindings are numbered, the input is one, every binding needs bytes at every shape, one sized at construction has one size | `TypeOK`, **`Mirrors`**, **`NoUseAfterFree`**, `NothingLeaks`, `Recoverable`, `FrozenPins`, `FitsForever`, **`ImplementsContract`** |
| `ImagePreprocessorProofs` | `PreprocessorAssumption`: garbage is no image, images have bytes | `TypeOK`, **`RightPixels`**, `CapacityHonest`, `FrozenStays` |
| `DetectorProofs` | `DetectorAssumption`: batches and sizes are positive, there is a largest batch | `TypeOK`, `MarkerTrusted`, `FullGraphPinned`, `DrainedBetweenCalls`, **`NeverTorn`**, **`ResultsLand`**, **`FreezeSettles`**, **`GatesHeal`**, `FrozenAllocatesNothing`, **`ReplaysAreInferences`** |
| `RuntimeProofs` | `IoAssumption`, `ArenaAssumption`, and those of the instances in `PartsAssumption` | `SessionIo`: `TypeOK`, `NothingOvertaken`, **`OutputOfItsInputs`**; `DeviceArena`: `ArenaTypeOK`, **`SlabsDisjoint`**, `SlabsBacked`, `StableAddresses`; **`CalledIsAlive`**, **`ErrorIsOwn`**, **`OneOwner`**, **`NotPassedOver`**, **`FiresOnNthHit`**, **`ContractIsExact`**, **`ExactValue`**, **`AgreesWithReference`** |
| `PublishPairProofs` | `PublishersAssumption`: publishers, old files, absent files and the free lock differ | `TypeOK`, `WholeWhenUnlocked`, **`NothingLost`**, `NoDebris`, **`AtomicSpec`**; with a reader, **`AcceptedIsIdentified`** |
| `MakersProofs` | `PartsAssumption`, `NamesAssumption` | **`ExportIsTrue`**, **`ConversionIsClean`**, **`IndicesStayFp32`**, **`RowsAreTrained`**, **`QueriesAreAnchored`** |
| `BuildersProofs` | `PartsAssumption`, `NamesAssumption` | **`EngineOfItsOnnx`**, **`EngineKeepsItsSidecar`**, **`BuiltIsLoadable`**, **`IslandIsExact`** |
| `RecordsProofs` | `ReportAssumption`: artifacts are names; `PartsAssumption`, `NamesAssumption` | `TypeOK` of `ReportFile`, **`ArtifactsKept`**, **`NothingReplaced`**, **`ShippedIsAdmitted`**, **`EngineOfNamedOnnx`**, **`OneModel`**, **`RowsAreCurrent`** |

A theorem about a suite speaks of an arbitrary behaviour of it: `variant` is a constant of which nothing is
assumed, the theorem says `MakersSpec /\ program = variant => []ConversionIsClean`, and its proof tells apart
whether `variant` names a variant of the component or something else, for which there is nothing to show. For a
variant, `PartsAssumption` gives the assumption of the component, `ProgramStays` and a lemma `...Runs` show
that the behaviour is one of the component's own specification, and the rest of the proof is about
that specification, `Converting(variant)!Spec`, whatever its constants. So the tables of variants of the suites matter
to TLC only.

None of the invariants is inductive alone. Each component has a strengthening (`IInv`, `...Inv`), a lemma that `Init`
implies it, one lemma or step per action, and the theorem from both.

* **Session.** That a commit frees only buffers out of use needs to know that a transition drained
  the stream and that nothing was queued since; that a clean session mirrors its context needs
  to know, in the middle of a transition, which addresses are already the staged ones.
  `Plan` says what is staged and rebound belongs to bindings that grow and that the stream is drained, `Memory`
  that `live` is exactly the session's buffers plus the staged ones, all distinct, `Addresses` and
  `CommittedFits` tie addresses and capacities to the committed shape. `ContractStep` maps
  every step to one of the contract or a stutter.
* **Session contents.** The stream is uploads followed by at most the work of the call that
  waits (`Order`): `set_input` can overtake an upload but never an engine run. `Pending` and `Results` say what each buffer will
  hold once the stream is empty.
* **Preprocessor.** The host waits for the last upload only, so the queue is at most the kernel of one image, then
  upload and kernel of the next (`Order`); the buffers the host packs into are therefore free.
* **Detector.** The invariant ties the marker, the captured graphs, the queued work (`Flight`), the call under way (`InCall`)
  and the locks to `pc`; `FullCurrent` keeps the full graph equal to what it baked in,
  `GraphsDated` dates engine graphs by the session's generation, `Warming` and `Settling` follow `freeze()`
  from run to run.
* **Arena.** Slabs lie one behind another and all before `high_water` (`Below`).
* **Logging.** Whatever a thread is about to install or to call is held, and nothing that is held is freed (`BridgeInv`). While
  setters do not overlap, the two atomics are what the last call left, but for the store that is missing, and a
  logger that finds no target has overlapped a return to the default (`OneSetterInv`).
* **Python binding.** `OwnerInv` counts the owners: open objects, dropped ones, and a call that has created a detector and not
  stored it; `CallInv` ties the thread-local error and the threshold to the call; `ResultInv` keeps results inside their calls.
* **Library search.** A candidate that was passed and stayed is not there (`SearchInv`); without rebuilds the
  one that was asked for is the first (`RequestedInv`).
* **Failpoints.** For a point that is live (`Unspent`), the hits are what was asked for, less the countdown, plus the checks that have not
  counted yet, which all stand before the slot; for one that is not (`Spent`), exactly one check has fired or is about to. `BoundInv` bounds
  how far the countdown can go below zero by the checks under way.
* **Engine contract.** A sidecar that was parsed and written back describes what the first did, declared or by default (`ContractInv`).
* **FP16.** In the loop that renormalizes, the mantissa is that of the word, doubled as often as the exponent counts (`Doubled`, in
  `HalfInv`); the rest is arithmetic on ranges, no word is evaluated.
* **Decoding.** `DecodeInv` follows the logits through the scratch: `Packed` (each candidate's key in its place, whatever an earlier and
  larger batch left behind it), `SegmentsSorted` (a segment holds a ranking of its own image), `BlocksCount` (a block has read the threshold
  of this call and has counted exactly the survivors among the slots its threads have written, in any order), `SlotsFilled`, `SurvivorsCounted`.
  Host and device both end in `IsResult`: the first `m` rows of a ranking by logits, which are those that reach the threshold, as scores
  descend where logits do. That the places of a stable sort are all taken (`SortedPlaces`) is a count of what goes before; that the loop over ranked rows
  keeps a prefix (`KeptPrefix`) is induction.
* **Publication.** What the lock holder knows: `Own` (who is inside holds the lock, and has
  backups only from then on), `Swaps` (outputs already swapped are new, the others
  still equal their backup), `Restores` (what is not restored is the backup or the new
  file), `Cleans` (backups about to be removed duplicate what the names hold), and
  `WholeIsPair`: the directory with the holder's swaps undone is the last complete
  artifact. That expression, `Pair`, is the refinement mapping; the lemmas
  `...KeepsPair` say which steps leave it alone, and `AtomicStep` maps the rest.
* **Export.** What each step has established (`LoadInv`, `Sidecars`, `Graphs`), until the rename; what is staged is of this run.
* **Conversion.** `CleanInv`: work files belong to runs under way or killed, and the lock to whoever is between its backups and its second rename. `PairInv`: what
  is being replaced was a pair of one run. `AcceptInv`: as long as the graph is the one that was found, so is everything read.
  Identities are of runs that are never repeated, so a graph that came back would be the same run's.
* **Block list.** The work list is sound, as what it holds lies in every closed set (`OnlyNeeded`), and misses nothing, as the producers of every
  node it took are known (`NothingMissed`); when it is empty the two meet in the least closed set.
* **Decoder.** A slot is one query's in all five tensors of a layer (`RowsInv`), before and after the cut; the queries that are left are
  the encoder's best, and of those the best of layer `k` (`BestInv`).
* **Query geometry.** The start of a level is the sum of the cells of those before it. Built and checked shapes of a model trained at squares, with strides
  that double, have equal sums only if they are equal, so a query has the anchor of its own cell.
* **Engine cache.** `Known` says what a command that nobody wrote under knows at each of its steps, `EntriesFit` that the recorded facts of an
  engine are its own unless it is being replaced at this moment, `LockHeld` where the lock is.
* **Sidecar names.** An engine nobody disturbed has a sidecar that fits it (`Fits`), also half way through a build: what a builder is about to
  place fits the one that is found now (`Matches`).
* **Build recipe.** What is made is determined by arguments, graph and sidecar (`EngineMade`, `SidecarMade`), so that the published pair can be compared
  with what the runtime derives from it.
* **Type repair.** A pass renames inputs and collects casts, and its end puts them in, so what has to be kept is about a graph that is not there yet:
  graph and pending casts fit together (`Fitting`: with the casts in, each tensor has one maker and each node follows those that feed it), at
  every step and for either tool. The surgical pass knows the type of all there is, and what it has visited is exact in those types, whose
  integers are those of the raw graph (`FirstTypes`). A solution of the typing equations of an ordered graph is the only one
  (`TypedIsTheOne`), so at the end of the first pass the types it noted are those of the run time (`Repaired`), and the second pass, which starts again
  from the inputs, notes the same ones and changes nothing (`SecondPass`).
* **Report.** The target a writer resolved once is never an artifact (`Apart`), whatever links are made later,
  because the rename replaces a name and follows no link.
* **Release.** Of one FP32 publication there is one checkpoint, and a conversion has that of the graph it was made from (`ContentInv`, `Coherent`), so a slim
  graph is as official as the source it names. What was validated stays as it is until the rename (`AssemblyInv`), and every manifest
  anywhere is one that was shipped (`ShippedInv`).
* **Evaluation.** `CallInv` follows the pixels of one image through host, stream and output, `ChunkInv` those of the native tool's chunk: each image is
  passed over, held, or detected. `SourceInv` and `NamedInv` follow sidecar, bytes and hash of each backend.
* **Benchmark.** Versions only grow, so what ran between two equal readings of a version is of that version (`MeasuredSo`, `Since`); a graph only gets
  newer, so two equal hashes frame the engine's source (`SourceOf`).

* **Lineage.** The bytes of a file say how it was made, and its sidecar is what that way of making it leaves (`FileInv`); every report is the
  record of one such file (`GoodReport`), so what two of them agree on is true of both files (`LineageInv`).
* **Sweep.** `SweepInv` says which steps a point has behind it (`Positions`, `Reached`), that files, sidecars and reports are of one run unless the machine
  stopped (`Consistent`: `PairsMatch`, `Caused`, `DeltasAgree`), and that a sweep repeated over unchanged inputs finds all it needs (`Settled`).

What the proofs asked of the models. Each of these was a step that would not go through, and on a small instance TLC showed why:

* `Reverified` was false where a user copies an engine between the two renames that replace it. A copy of a torn pair is no
  command's doing, so `CopyEngine` leaves out the sidecar of such an engine (`Replaced`).
* `BuiltIsLoadable` needed the sidecar of a graph to describe the outputs that have no declared names, too (`Describes`).
* The slice of the block list had been defined by following node numbers; it is the least closed set now, which needs no order.
  With it, `IndicesStayFp32` turned out to be owed only where the scopes made FP16 contain the cross attention or are none, and
  a claim that nothing outside the layers is FP16 to be false of scopes real graphs have; it is gone.
* `FailureHasCause` and `DeltaOfOneModel` are owed only until the machine stops between two renames: the sidecar that is left behind describes
  another graph, a later sweep reuses both, and refuses a good comparison, or compares two checkpoints, without any failure of its own. It takes
  three or four sweeps, so smaller instances had not shown it. In return, `DeltaOfOneModel` holds where images change, too.
* `PresetChangesGraphOnly` and `ExportIsRaw` go by what the sidecar says of the last conversion, so they are owed after at most one (`Marks`).
* The names `TypeHarmonizer` gave to casts ended in a digit, which no theorem about all graphs could use, and counted from
  one where the code counts from zero. A name is the tuple of what it is made of now, with the code's own counter.
* A level of an image smaller than its stride is empty; the types of `QueryGeometry` had excluded it.
* Distinctness of what a module uses as "nothing" from what it holds, and finiteness of a set that is counted, are named in the assumptions.

The theorems of the library about induction take an operator, which the provers cannot instantiate. Where a recursive function
has to be followed, the proofs use that `<` is well founded on the naturals and take the least element of a *set* of
counterexamples (`NatInductive`): positions summed over levels, the loop over ranked rows, the prefix of a descending sequence.

Only model-checked:

* liveness, `CallReturns` and `EveryPublisherEnds`, which rest on fairness and ENABLED.

## Abstractions that matter

* A content stands for its digest, a file for its identity, and nothing brings older bytes back
  (`EvaluationRun`, `BenchmarkRun`); only `ArtifactReader` and `PublishPair` have the rollback that does.
* Exports, conversions and builds are deterministic in `PresetSweep`.
* `ReportFile` has links, and no chains of links. `QueryGeometry` trains at square sizes.
* In `ExportRun` the tracer or the simplifier breaks at most one postcondition.
* `FaultInjection` arms while no check runs, `SessionIo` sets inputs and infers, as their callers do.
* In `TypeHarmonizer` a node has two inputs and one output, and a name made by a pass is none the graph began with.
* `DeviceArena` has one alignment, `BoxDecoding` no box arithmetic, `EngineContract` no malformed values.

## Not modelled

Per component in `PROJECT.json`. Engine deserialization, profile queries and user-managed activation memory;
pixel arithmetic; static-batch engines (a session whose shape never changes); timings;
destruction and move of the detector; what TensorRT, ONNX Runtime, the tracer, the
simplifier and the calibrators compute; the layers of the model, sampling and quality heads; metrics,
percentiles and tables; `doctor`, drawing and argument parsing; the wheel builder; applications that only
drive the library and print. They are tensor arithmetic or sequential input and output without shared state.
One thing is left out on purpose: when
the first rebind of a binding without an older buffer is followed by a failure, the
dirty context keeps the address of a buffer that is freed; nothing can run on it until
a transition has replaced it.

## Running

    for m in TrtSession ImagePreprocessor Runtime Makers Builders Records; do
        tlc -workers 2 -config MC$m.cfg MC$m
    done
    for c in Full Graph Refreeze; do tlc -workers 2 -config MCDetector$c.cfg MCDetector; done
    for c in Mixed Rollback; do tlc -workers 2 -config ArtifactReader$c.cfg ArtifactReader; done
    tlc -workers 2 -config PublishPair.cfg PublishPair
    for p in *Proofs.tla; do tlapm $p; done
