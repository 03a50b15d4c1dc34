------------------------------ MODULE Conversion ------------------------------
(***************************************************************************)
(* A run of convert_fp16.py, convert_fp16_surgical.py or convert_int8.py,  *)
(* next to exports and other conversions in one directory: it checks its   *)
(* paths, reads the source pair without a lock, makes its work files,      *)
(* converts, and publishes its pair under the lock (PublishPair has the    *)
(* publication in full; a rollback succeeds here).                         *)
(*                                                                         *)
(* A path is a stem and an extension; a file is known by the run that      *)
(* wrote it, and holds the runs its content has gone through.              *)
(***************************************************************************)
EXTENDS Naturals, Sequences, FiniteSets

CONSTANTS
    Proc,
    Commands,      \* what may be run: tool, src and out, the paths as the user names them
    Real,          \* the path behind a name: resolve()
    MaxCommands, MaxFailures, MaxKills,
    NoFile, Nobody

Path == {Real[a] : a \in DOMAIN Real}
SidecarOf(path) == [stem |-> path.stem, ext |-> "json"]
Names == Path \cup {SidecarOf(t) : t \in Path}
Tools == {"export", "fp16", "surgical", "int8"}

ConversionAssumption ==
    /\ \A c \in Commands : c.tool \in Tools /\ {c.src, c.out} \subseteq DOMAIN Real
    /\ {MaxCommands, MaxFailures, MaxKills} \subseteq Nat
    /\ Nobody \notin Proc
    /\ \A t \in Path : t.ext # "json"
    /\ NoFile \notin [run : Nat, of : Seq(Nat)]

VARIABLES
    dir,                \* the files
    temps,              \* the work and staging files and backups, by run
    lock,               \* the flock of the directory
    job,                \* what each process is at
    killed,             \* the runs that were killed
    runs, failures      \* how many there were

vars == <<dir, temps, lock, job, killed, runs, failures>>

Idle == [at |-> "idle"]
File(run, of) == [run |-> run, of |-> of]
Pair(path) == [graph |-> dir[path], sidecar |-> dir[SidecarOf(path)]]
NoPair == [graph |-> NoFile, sidecar |-> NoFile]

\* Before the first run a graph may be there, with or without its sidecar.
Init ==
    /\ dir \in {d \in [Names -> {File(0, <<>>), NoFile}] :
                   \A t \in Path : d[t] = NoFile => d[SidecarOf(t)] = NoFile}
    /\ temps = {} /\ lock = Nobody
    /\ job = [p \in Proc |-> Idle]
    /\ killed = {} /\ runs = 0 /\ failures = 0

-----------------------------------------------------------------------------
(* _validated_conversion_paths                                             *)

Reserved(tool, src, out) ==
    <<src, SidecarOf(src), out, [out EXCEPT !.ext = "onnx.tmp"],
      SidecarOf(out), [out EXCEPT !.ext = "json.tmp"]>>
    \o IF tool = "int8"
       THEN <<[out EXCEPT !.stem = Append(out.stem, "preproc")],
              [out EXCEPT !.stem = out.stem \o <<"onnx", "source", "tmp">>]>>
       ELSE <<>>

Distinct(tool, src, out) ==
    LET reserved == Reserved(tool, Real[src], Real[out])
    IN  \A j, k \in DOMAIN reserved : reserved[j] = reserved[k] => j = k

Start(p) ==
    /\ job[p].at = "idle" /\ runs < MaxCommands
    /\ \E c \in Commands :
        /\ c.tool # "export" => Distinct(c.tool, c.src, c.out)
        /\ job' = [job EXCEPT ![p] =
                     [at |-> IF c.tool = "export" THEN "make" ELSE "graph_id", tool |-> c.tool,
                      src |-> Real[c.src], out |-> Real[c.out], run |-> runs + 1,
                      seen |-> NoPair, input |-> NoPair, old |-> NoPair,
                      found |-> NoPair, calm |-> FALSE]]
    /\ runs' = runs + 1
    /\ UNCHANGED <<dir, temps, lock, killed, failures>>

At(p, from) == job[p].at = from
Goes(p, to) == job' = [job EXCEPT ![p].at = to]

-----------------------------------------------------------------------------
(* _load_source_artifact                                                   *)

\* Somebody is between the two files of this pair, or about to undo the first one.
Publishing(path) == \E q \in Proc : job[q].at = "swap_sidecar" /\ job[q].out = path

IdentifyGraph(p) ==
    /\ At(p, "graph_id")
    /\ job' = [job EXCEPT ![p].at = "sidecar_id", ![p].seen.graph = dir[job[p].src],
                          ![p].found = Pair(job[p].src), ![p].calm = ~Publishing(job[p].src)]
    /\ UNCHANGED <<dir, temps, lock, killed, runs, failures>>

IdentifySidecar(p) ==
    /\ At(p, "sidecar_id")
    /\ job' = [job EXCEPT ![p].at = "read_graph", ![p].seen.sidecar = dir[SidecarOf(job[p].src)]]
    /\ UNCHANGED <<dir, temps, lock, killed, runs, failures>>

ReadGraph(p) ==
    /\ At(p, "read_graph")
    /\ job' = [job EXCEPT ![p].at = IF dir[job[p].src] = NoFile THEN "finish"
                                    ELSE IF job[p].seen.sidecar = NoFile THEN "graph_again"
                                    ELSE "read_sidecar",
                          ![p].input.graph = dir[job[p].src]]
    /\ UNCHANGED <<dir, temps, lock, killed, runs, failures>>

\* A sidecar that has vanished since ends the run.
ReadSidecar(p) ==
    /\ At(p, "read_sidecar")
    /\ LET sidecar == dir[SidecarOf(job[p].src)]
       IN  job' = [job EXCEPT ![p].at = IF sidecar = NoFile THEN "finish" ELSE "graph_again",
                              ![p].input.sidecar = sidecar]
    /\ UNCHANGED <<dir, temps, lock, killed, runs, failures>>

\* A bug that looks only whether the sidecar is still there or still missing.
SamePresence(before, after) == (before = NoFile) = (after = NoFile)
SameIdentity(before, after) == before = after

RecheckGraph(p) ==
    /\ At(p, "graph_again")
    /\ Goes(p, IF SameIdentity(job[p].seen.graph, dir[job[p].src]) THEN "sidecar_again" ELSE "finish")
    /\ UNCHANGED <<dir, temps, lock, killed, runs, failures>>

RecheckSidecar(p) ==
    /\ At(p, "sidecar_again")
    /\ Goes(p, IF ~SameIdentity(job[p].seen.sidecar, dir[SidecarOf(job[p].src)]) THEN "finish"
               ELSE IF job[p].tool = "int8" THEN "make" ELSE "convert")
    /\ UNCHANGED <<dir, temps, lock, killed, runs, failures>>

-----------------------------------------------------------------------------
(* main: the work files, and the conversion                                *)

WorkFiles(tool) == IF tool = "int8" THEN <<"source", "preproc", "graph">> ELSE <<"graph">>
Owned(p) == {t[2] : t \in {u \in temps : u[1] = job[p].run}}
Adds(p, names) == temps' = temps \cup {<<job[p].run, n>> : n \in names}

\* _adjacent_temp: one file after the other.
MakeWorkFile(p) ==
    /\ At(p, "make")
    /\ LET made == Cardinality(Owned(p)) + 1
           files == WorkFiles(job[p].tool)
       IN  /\ Adds(p, {files[made]})
           /\ IF made < Len(files) THEN UNCHANGED job
              ELSE Goes(p, IF job[p].tool = "int8" THEN "convert" ELSE "stage")
    /\ UNCHANGED <<dir, lock, killed, runs, failures>>

Convert(p) ==
    /\ At(p, "convert")
    /\ Goes(p, IF job[p].tool = "int8" THEN "stage" ELSE "make")
    /\ UNCHANGED <<dir, temps, lock, killed, runs, failures>>

-----------------------------------------------------------------------------
(* _publish_pair                                                           *)

HasText(p) == job[p].tool = "export" \/ job[p].input.sidecar # NoFile
New(p, file) == File(job[p].run, IF job[p].tool = "export" THEN <<job[p].run>>
                                 ELSE Append(file.of, job[p].run))

StageSidecar(p) ==
    /\ At(p, "stage")
    /\ Adds(p, IF HasText(p) THEN {"sidecar"} ELSE {})
    /\ Goes(p, "lock")
    /\ UNCHANGED <<dir, lock, killed, runs, failures>>

Lock(p) ==
    /\ At(p, "lock")
    /\ lock = Nobody
    /\ lock' = p
    /\ Goes(p, "backup")
    /\ UNCHANGED <<dir, temps, killed, runs, failures>>

LinkBackups(p) ==
    /\ At(p, "backup")
    /\ LET old == Pair(job[p].out)
       IN  /\ Adds(p, {b \in {"old_graph", "old_sidecar"} :
                          (IF b = "old_graph" THEN old.graph ELSE old.sidecar) # NoFile})
           /\ job' = [job EXCEPT ![p].at = "swap_graph", ![p].old = old]
    /\ UNCHANGED <<dir, lock, killed, runs, failures>>

SwapGraph(p) ==
    /\ At(p, "swap_graph")
    /\ dir' = [dir EXCEPT ![job[p].out] = New(p, job[p].input.graph)]
    /\ temps' = temps \ {<<job[p].run, "graph">>}
    /\ Goes(p, "swap_sidecar")
    /\ UNCHANGED <<lock, killed, runs, failures>>

NewSidecar(p) == IF HasText(p) THEN New(p, job[p].input.sidecar) ELSE NoFile

SwapSidecar(p) ==
    /\ At(p, "swap_sidecar")
    /\ dir' = [dir EXCEPT ![SidecarOf(job[p].out)] = NewSidecar(p)]
    /\ temps' = temps \ {<<job[p].run, "sidecar">>}
    /\ Goes(p, "finish")
    /\ UNCHANGED <<lock, killed, runs, failures>>

\* The readers of a pair that is being put back are not warned by its identity.
Unsettled(path) ==
    [q \in Proc |-> IF job[q].at # "idle" /\ job[q].src = path THEN [job[q] EXCEPT !.calm = FALSE]
                    ELSE job[q]]

\* The sidecar could not be replaced: _restore_output for the sidecar and for the graph.
Rollback(p) ==
    /\ At(p, "swap_sidecar") /\ failures < MaxFailures
    /\ dir' = [dir EXCEPT ![job[p].out] = job[p].old.graph]
    /\ temps' = temps \ {<<job[p].run, "old_graph">>, <<job[p].run, "old_sidecar">>}
    /\ job' = [Unsettled(job[p].out) EXCEPT ![p].at = "finish"]
    /\ failures' = failures + 1
    /\ UNCHANGED <<lock, killed, runs>>

\* Any other step may fail with nothing replaced.
Fails(p) ==
    /\ job[p].at \in {"read_graph", "read_sidecar", "make", "convert", "stage", "lock",
                      "backup", "swap_graph"}
    /\ failures < MaxFailures
    /\ failures' = failures + 1
    /\ Goes(p, "finish")
    /\ UNCHANGED <<dir, temps, lock, killed, runs>>

\* The staged pair, its backups and the work files of a quantization.
Removed == {"graph", "sidecar", "old_graph", "old_sidecar", "source", "preproc"}

Released(p) == IF lock = p THEN Nobody ELSE lock

\* _cleanup_publish_files, the unlock, and the finally of main.
Finish(p) ==
    /\ At(p, "finish")
    /\ temps' = temps \ {<<job[p].run, n>> : n \in Removed}
    /\ lock' = Released(p)
    /\ job' = [job EXCEPT ![p] = Idle]
    /\ UNCHANGED <<dir, killed, runs, failures>>

\* The process is killed: the system gives back its lock and nothing else.
Kill(p) ==
    /\ job[p].at # "idle" /\ Cardinality(killed) < MaxKills
    /\ killed' = killed \cup {job[p].run}
    /\ lock' = IF lock = p THEN Nobody ELSE lock
    /\ job' = [job EXCEPT ![p] = Idle]
    /\ UNCHANGED <<dir, temps, runs, failures>>

Step(p) ==
    \/ IdentifyGraph(p) \/ IdentifySidecar(p) \/ ReadGraph(p) \/ ReadSidecar(p)
    \/ RecheckGraph(p) \/ RecheckSidecar(p) \/ MakeWorkFile(p) \/ Convert(p)
    \/ StageSidecar(p) \/ Lock(p) \/ LinkBackups(p) \/ SwapGraph(p) \/ SwapSidecar(p) \/ Finish(p)

Next == \E p \in Proc : Start(p) \/ Step(p) \/ Rollback(p) \/ Fails(p) \/ Kill(p)

Spec == Init /\ [][Next]_vars

-----------------------------------------------------------------------------
TypeOK ==
    /\ \A n \in Names : dir[n] # NoFile => dir[n] \in [run : 0 .. runs, of : Seq(1 .. runs)]
    /\ temps \subseteq (1 .. runs) \X Removed
    /\ lock \in Proc \cup {Nobody} /\ killed \subseteq 1 .. runs
    /\ \A p \in Proc : job[p] # Idle =>
           job[p].run \in 1 .. runs /\ {job[p].src, job[p].out} \subseteq Path

Running == {job[p].run : p \in {q \in Proc : job[q].at # "idle"}}

\* A run that has ended in whatever way leaves no work file, staging file or backup
\* behind, unless it was killed, and never the lock (_cleanup_publish_files and the finally
\* of main).
NoLitter ==
    /\ \A t \in temps : t[1] \in Running \cup killed
    /\ lock # Nobody => job[lock].at # "idle"

\* No conversion writes a file of its own source, under whatever names the user gave the two
\* (_validated_conversion_paths).
SourceKept ==
    \A p \in Proc : job[p].at # "idle" /\ job[p].tool # "export" =>
        \A n \in {job[p].src, SidecarOf(job[p].src)} : dir[n] # NoFile => dir[n].run # job[p].run

\* No two graphs differ in their extension only, which would give them one sidecar.
OneGraphOfAStem == \A t, u \in Path : SidecarOf(t) = SidecarOf(u) => t = u

\* Unless somebody is replacing them or was killed while doing so, the two files of a pair
\* come from one run, however conversions and exports to one output meet (_publish_pair).
PairsOfOneRun ==
    killed = {} => \A t \in Path :
        \/ Publishing(t) \/ dir[SidecarOf(t)] = NoFile
        \/ dir[t] # NoFile /\ dir[t].run = dir[SidecarOf(t)].run

Accepted(p) == job[p].at \in {"convert", "make", "stage"} /\ job[p].tool # "export"

\* What a conversion accepts is the pair as it was when it first looked, unless it looked in the
\* middle of a publication or a publication was undone since (_load_source_artifact).
AcceptedAsFound ==
    \A p \in Proc : Accepted(p) /\ job[p].calm => job[p].input = job[p].found
=============================================================================
