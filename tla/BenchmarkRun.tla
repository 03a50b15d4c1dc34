----------------------------- MODULE BenchmarkRun -----------------------------
(***************************************************************************)
(* profile.py: the contracts of all artifacts are read and compared first, *)
(* then each backend is measured and entered into the report.  The native  *)
(* backends run dfine_bench once per round and dfine_coco_eval once; every *)
(* such process loads its executable, libdfine and the engine anew.  Other *)
(* tools publish artifacts and rebuild the native programs meanwhile.      *)
(*                                                                         *)
(* A content stands for its digest: made numbers the publication, from the *)
(* graph an engine was built from and checkpoint the weights of all.  A    *)
(* program or a library is the number of times it was rebuilt, and no      *)
(* rebuild brings an older one back.                                       *)
(***************************************************************************)
EXTENDS Naturals, Sequences, FiniteSets, Functions

CONSTANTS
    Backends,         \* --backends
    Latency, Accuracy,
    Batches,          \* --batches
    Rounds,           \* --rounds
    MaxBatches,       \* the batch profiles engines are built with
    MaxPublications,  \* bound on the artifacts that are published
    MaxRebuilds,      \* bound on the rebuilds of the native programs
    Nothing

Backend == Range(Backends)
Native == {"cpp", "cpp-graph"}

Content == [made : 0 .. MaxPublications, from : 0 .. MaxPublications,
            checkpoint : 0 .. MaxPublications, max_batch : MaxBatches]

BenchmarkAssumption ==
    /\ Backends \in Seq({"trt", "onnx", "torch"} \cup Native)
    /\ IsInjective(Backends) /\ Backends # <<>>
    /\ Latency \in BOOLEAN /\ Accuracy \in BOOLEAN /\ (Latency \/ Accuracy)
    /\ Accuracy => "cpp-graph" \notin Backend
    /\ Batches \subseteq Nat \ {0} /\ Batches # {} /\ Rounds \in Nat \ {0}
    /\ MaxBatches \subseteq Nat \ {0}
    /\ {MaxPublications, MaxRebuilds} \subseteq Nat
    /\ Nothing \notin Content

Source(name) ==
    CASE name \in {"trt"} \cup Native -> "engine"
      [] name = "onnx" -> "onnx"
      [] name = "torch" -> "checkpoint"

File == {"engine", "onnx", "checkpoint"}
IfUsed(f) == IF \E name \in Backend : Source(name) = f THEN <<f>> ELSE <<>>
\* The artifacts with a sidecar, in the order their contracts are read.
Paths == IfUsed("engine") \o IfUsed("onnx")
Path == Range(Paths)

Program == {"dfine_bench", "dfine_coco_eval"}
Library == {"libdfine", "other libdfine"}

VARIABLES
    artifact, sidecar,   \* the files, and what their sidecars describe
    publishing,          \* the sidecar a publication still has to write
    published, rebuilds,
    version, linked,     \* of each program and library; the library a program resolves to
    pc, p, b,            \* the profiler, the path or backend it is at
    contract, hashed,    \* the sidecar as it was parsed, and as it was hashed
    lineage,             \* the artifact as it was hashed with the contract
    entry,               \* the entry in the making
    process,             \* the native process that runs, or Nothing
    report

files == <<artifact, sidecar, publishing, published, rebuilds, version, linked>>
names == <<contract, hashed, lineage>>
vars == <<artifact, sidecar, publishing, published, rebuilds, version, linked, pc, p, b, contract,
          hashed, lineage, entry, process, report>>

NoEntry == [artifact |-> Nothing, runtime |-> Nothing, loaded |-> Nothing, rounds |-> <<>>,
            scored |-> Nothing]

Init ==
    /\ artifact \in [File -> {[made |-> 0, from |-> 0, checkpoint |-> 0, max_batch |-> m] :
                                m \in MaxBatches}]
    /\ sidecar = artifact
    /\ publishing = Nothing /\ published = 0 /\ rebuilds = 0
    /\ version = [f \in Program \cup Library |-> 0]
    /\ linked \in [Program -> Library]
    /\ pc = (IF Paths = <<>> THEN "entry" ELSE "contract") /\ p = 1 /\ b = 1
    /\ contract = [f \in Path |-> Nothing] /\ hashed = contract /\ lineage = contract
    /\ entry = NoEntry /\ process = Nothing
    /\ report = [name \in {} |-> NoEntry]

Running == pc \notin {"written", "failed"}

-----------------------------------------------------------------------------
(* The other tools.                                                        *)

Published(f, n) ==
    CASE f = "checkpoint" -> [artifact[f] EXCEPT !.made = n, !.checkpoint = n]
      [] f = "onnx" -> [artifact[f] EXCEPT !.made = n, !.from = n,
                                           !.checkpoint = artifact["checkpoint"].checkpoint]
      [] f = "engine" -> [artifact[f] EXCEPT !.made = n, !.from = artifact["onnx"].made,
                                             !.checkpoint = artifact["onnx"].checkpoint]

Publish(f) ==
    LET n == published + 1 IN
    /\ Running /\ publishing = Nothing /\ published < MaxPublications
    /\ published' = n
    /\ \E m \in MaxBatches :
           LET c == [Published(f, n) EXCEPT !.max_batch = m] IN
           /\ artifact' = [artifact EXCEPT ![f] = c]
           /\ publishing' = [file |-> f, content |-> c]
    /\ UNCHANGED <<sidecar, rebuilds, version, linked, pc, p, b, names, entry, process, report>>

PublishSidecar ==
    /\ publishing # Nothing
    /\ sidecar' = [sidecar EXCEPT ![publishing.file] = publishing.content]
    /\ publishing' = Nothing
    /\ UNCHANGED <<artifact, published, rebuilds, version, linked, pc, p, b, names, entry, process,
                   report>>

Rebuild(f) ==
    /\ Running /\ rebuilds < MaxRebuilds
    /\ rebuilds' = rebuilds + 1
    /\ version' = [version EXCEPT ![f] = @ + 1]
    /\ UNCHANGED <<artifact, sidecar, publishing, published, linked, pc, p, b, names, entry,
                   process, report>>

-----------------------------------------------------------------------------
(* validate_backend_contracts                                              *)

Path_p == Paths[p]

ReadContract ==
    /\ pc = "contract"
    /\ contract' = [contract EXCEPT ![Path_p] = sidecar[Path_p]]
    /\ pc' = "lineage"
    /\ UNCHANGED <<files, p, b, hashed, lineage, entry, process, report>>

HashLineage ==
    /\ pc = "lineage"
    /\ lineage' = [lineage EXCEPT ![Path_p] = artifact[Path_p]]
    /\ pc' = "facts"
    /\ UNCHANGED <<files, p, b, contract, hashed, entry, process, report>>

BatchesFit(c) == \A n \in Batches : n <= c.max_batch

NextPath == IF p < Len(Paths) THEN pc' = "contract" /\ p' = p + 1 ELSE pc' = "match" /\ p' = p

\* An engine's contract also has to admit the batches; its sidecar is read again to hash it.
EngineContract ==
    /\ pc = "facts"
    /\ IF Path_p = "engine"
       THEN /\ hashed' = [hashed EXCEPT ![Path_p] = sidecar[Path_p]]
            /\ IF BatchesFit(contract[Path_p]) THEN NextPath ELSE pc' = "failed" /\ p' = p
       ELSE NextPath /\ UNCHANGED hashed
    /\ UNCHANGED <<files, b, contract, lineage, entry, process, report>>

ContractsMatch == \A f \in Path : contract[f].checkpoint = contract[Paths[1]].checkpoint

EngineSourceMatches == Path = {"engine", "onnx"} => contract["engine"].from = artifact["onnx"].made

Match ==
    /\ pc = "match"
    /\ pc' = IF ContractsMatch /\ EngineSourceMatches THEN "entry" ELSE "failed"
    /\ UNCHANGED <<files, p, b, names, entry, process, report>>

-----------------------------------------------------------------------------
(* The entries.                                                            *)

Current == Backends[b]

\* backend_artifact
BeginEntry ==
    /\ pc = "entry"
    /\ entry' = [NoEntry EXCEPT !.artifact = artifact[Source(Current)]]
    /\ pc' = IF Current \in Native THEN "runtime" ELSE "backend"
    /\ UNCHANGED <<files, p, b, names, process, report>>

Executables ==
    (IF Latency THEN {"dfine_bench"} ELSE {}) \cup (IF Accuracy THEN {"dfine_coco_eval"} ELSE {})

Libraries == {linked[e] : e \in Executables}

NativeRuntimeArtifacts ==
    [programs |-> [e \in Executables |-> version[e]],
     library |-> version[CHOOSE l \in Libraries : TRUE]]

\* Programs that load different libraries are not benchmarked.
NameRuntime ==
    /\ pc = "runtime"
    /\ IF Cardinality(Libraries) # 1
       THEN pc' = "failed" /\ UNCHANGED entry
       ELSE /\ entry' = [entry EXCEPT !.runtime = NativeRuntimeArtifacts]
            /\ pc' = IF Latency THEN "round" ELSE "score"
    /\ UNCHANGED <<files, p, b, names, process, report>>

\* A process maps its program and library when it starts and reads the engine then.
Start(e) ==
    /\ process = Nothing
    /\ process' = [program |-> e, version |-> version[e], library |-> version[linked[e]],
                   engine |-> Nothing]
    /\ UNCHANGED <<files, pc, p, b, names, entry, report>>

StartRound == pc = "round" /\ Start("dfine_bench")
StartScore == pc = "score" /\ Start("dfine_coco_eval")

LoadEngine ==
    /\ process # Nothing
    /\ process.engine = Nothing
    /\ process' = [process EXCEPT !.engine = artifact["engine"]]
    /\ UNCHANGED <<files, pc, p, b, names, entry, report>>

Loaded == process # Nothing => process.engine # Nothing

\* An engine with a static batch is measured at batch 1 only, unless replay is required.
Measured == IF process.engine.max_batch = 1 THEN Batches \cap {1} ELSE Batches

\* A batch over the profile, or a graph that does not hold every batch, ends the program.
BenchRuns ==
    LET m == process.engine.max_batch IN
    /\ m = 1 => (Current = "cpp-graph" => Batches = {1})
    /\ m > 1 => BatchesFit(process.engine)

AllRows == Measured = Batches

Ran == [program |-> process.version, library |-> process.library, engine |-> process.engine,
        batches |-> Measured]

MoreRounds(done) == done < Rounds

\* _latency_cpp_round
EndRound ==
    /\ pc = "round" /\ process # Nothing /\ Loaded
    /\ process' = Nothing
    /\ IF BenchRuns /\ AllRows
       THEN /\ entry' = [entry EXCEPT !.rounds = Append(@, Ran)]
            /\ pc' = IF MoreRounds(Len(entry.rounds) + 1) THEN "round"
                     ELSE IF Accuracy THEN "score" ELSE "check"
       ELSE pc' = "failed" /\ UNCHANGED entry
    /\ UNCHANGED <<files, p, b, names, report>>

\* accuracy_cpp and score_map
EndScore ==
    /\ pc = "score" /\ process # Nothing /\ Loaded
    /\ process' = Nothing
    /\ entry' = [entry EXCEPT !.scored = Ran]
    /\ pc' = "check"
    /\ UNCHANGED <<files, p, b, names, report>>

\* A crash of the driver, an output that is not finite, an image that cannot be read.
MeasureFails ==
    /\ pc \in {"round", "score", "measure"}
    /\ pc' = "failed" /\ process' = Nothing
    /\ UNCHANGED <<files, p, b, names, entry, report>>

EndEntry ==
    /\ report' = [name \in DOMAIN report \cup {Current} |-> IF name = Current THEN entry ELSE report[name]]
    /\ IF b < Len(Backends) THEN pc' = "entry" /\ b' = b + 1 ELSE pc' = "written" /\ b' = b

CheckRuntime ==
    /\ pc = "check"
    /\ IF Cardinality(Libraries) = 1 /\ entry.runtime = NativeRuntimeArtifacts
       THEN EndEntry
       ELSE pc' = "failed" /\ UNCHANGED <<b, report>>
    /\ UNCHANGED <<files, p, names, entry, process>>

WithTheOthers(c) == \A f \in Path : contract[f].checkpoint = c.checkpoint

\* The in-process backends load their artifact; torch brings its contract only now.
MakeBackend ==
    LET c == artifact[Source(Current)] IN
    /\ pc = "backend"
    /\ entry' = [entry EXCEPT !.loaded = c]
    /\ pc' = IF Current = "torch" => WithTheOthers(c) THEN "measure" ELSE "failed"
    /\ UNCHANGED <<files, p, b, names, process, report>>

\* Every batch for every round, then the images, with what was loaded.
Measure ==
    /\ pc = "measure"
    /\ EndEntry
    /\ UNCHANGED <<files, p, names, entry, process>>

Next ==
    \/ \E f \in {Source(name) : name \in Backend} \cup {"checkpoint"} : Publish(f)
    \/ PublishSidecar
    \/ \E f \in Program \cup Library : Rebuild(f)
    \/ ReadContract \/ HashLineage \/ EngineContract \/ Match
    \/ BeginEntry \/ NameRuntime \/ StartRound \/ StartScore \/ LoadEngine \/ EndRound \/ EndScore
    \/ MeasureFails \/ CheckRuntime \/ MakeBackend \/ Measure

Spec == Init /\ [][Next]_vars

-----------------------------------------------------------------------------
Phases == {"contract", "lineage", "facts", "match", "entry", "runtime", "round", "score", "check",
           "backend", "measure", "written", "failed"}

TypeOK ==
    /\ artifact \in [File -> Content] /\ sidecar \in [File -> Content]
    /\ pc \in Phases /\ b \in DOMAIN Backends
    /\ \A f \in Path : {contract[f], hashed[f], lineage[f]} \subseteq Content \cup {Nothing}
    /\ process # Nothing => pc \in {"round", "score"}
    /\ Len(entry.rounds) <= Rounds
    /\ DOMAIN report \subseteq Backend

NativeRuns(name) ==
    Range(report[name].rounds) \cup ({report[name].scored} \ {Nothing})

Entered(name) == name \in DOMAIN report

\* Every round of a native entry and its evaluation ran the program and the library the entry
\* names, whatever was rebuilt between two of its processes (_native_runtime_artifacts).
RuntimeIsNamed ==
    \A name \in Native : Entered(name) =>
        LET r == report[name].runtime IN
        /\ \A x \in NativeRuns(name) : x.library = r.library
        /\ \A x \in Range(report[name].rounds) : x.program = r.programs["dfine_bench"]

\* The medians of a native entry are over all rounds of every requested batch, also when the
\* engine is replaced by a static one after its contract was read (_latency_cpp_round).
EveryBatchEveryRound ==
    \A name \in Native : Entered(name) /\ Latency =>
        /\ Len(report[name].rounds) = Rounds
        /\ \A x \in Range(report[name].rounds) : x.batches = Batches

\* A report with a torch reference compares it with artifacts of the very weights it loaded
\* (the late comparison of contracts in main).
OneCheckpoint ==
    Entered("torch") => \A f \in Path : contract[f].checkpoint = report["torch"].loaded.checkpoint

\* What the chain accepts: the hash of the contract is the hash of the entry.
Accepted ==
    pc = "written" /\ \A name \in Backend :
        Source(name) # "checkpoint" => lineage[Source(name)] = report[name].artifact

\* An accepted report on a graph and an engine names a graph the engine's sidecar was
\* recorded for (_require_engine_source between the two hashes of the graph).
EngineOfNamedOnnx ==
    Accepted /\ Path = {"engine", "onnx"} /\ "onnx" \in Backend =>
        contract["engine"].from = report["onnx"].artifact.made

=============================================================================
