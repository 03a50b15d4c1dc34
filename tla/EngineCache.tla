----------------------------- MODULE EngineCache -----------------------------
(***************************************************************************)
(* The dfine command line (python/dfine/cli.py) on the artifact cache that *)
(* its processes share: predict, info, bench, build and export of one      *)
(* model.  A resolver reads the ONNX pair, derives an engine name from it, *)
(* looks the name up and builds on a miss, one file access at a time.      *)
(* Writers publish their pairs graph first under the directory's lock      *)
(* (PublishPair has the steps of one publication).                         *)
(*                                                                         *)
(* A digest stands for the bytes it is taken of, so a fingerprint is the   *)
(* pair of what was read from the ONNX and from its sidecar.               *)
(***************************************************************************)
EXTENDS Naturals, Sequences, FiniteSets

CONSTANTS
    Proc,          \* the processes
    Checkpoint,    \* what an export may start from
    Profiles,      \* the [opt, max, g0] a build may be asked for
    DefaultProfile,\* what predict, info and bench ask for
    PlacedSlots,   \* the slots the user may place an ONNX in
    Unbound,       \* the <<precision, name>> of engines that are bound to no ONNX
    MaxCommands,   \* bound on the commands started
    MaxEdits,      \* bound on what the user does to the files by hand
    RenamesProfile,\* whether the user also renames an engine to another profile
    Nothing

Kind == {"fp32", "slim", "fp16_st"}
Precision == {"fp32", "fp16"}
PrecisionOf(kind) == IF kind = "fp32" THEN "fp32" ELSE "fp16"
Artifact == [ckpt : Checkpoint, kind : Kind]
File == Artifact \cup {Nothing}

\* Where discovery looks, in the order of preference.
Candidates(precision) ==
    IF precision = "fp32" THEN <<"", "_op19", "dev", "dev_op19">>
                          ELSE <<"_slim", "_fp16_st", "dev_slim", "dev_fp16_st">>
Slot == {"", "_op19", "dev", "dev_op19", "_slim", "_fp16_st", "dev_slim", "dev_fp16_st"}

CacheAssumption ==
    /\ DefaultProfile \in Profiles
    /\ Profiles \subseteq [opt : Nat \ {0}, max : Nat \ {0}, g0 : BOOLEAN]
    /\ Unbound \subseteq Precision \X {"legacy", "dev"}
    /\ PlacedSlots \subseteq Slot
    /\ MaxCommands \in Nat /\ MaxEdits \in Nat /\ RenamesProfile \in BOOLEAN
    /\ Nothing \notin Artifact /\ Nothing \notin Slot /\ Nothing \notin Proc

VARIABLES
    onnx,        \* the graph and the sidecar in each slot
    engines,     \* the cached engines: name, source, and the facts of the sidecar
    publisher,   \* who holds the directory lock
    pc, job,     \* the processes
    calm,        \* the resolvers nobody wrote under (history)
    commands, edits

files == <<onnx, engines>>
bounds == <<commands, edits>>
vars == <<onnx, engines, publisher, pc, job, calm, commands, edits>>

Name == [precision : Precision, fp : File \X File, profile : Profiles]
NoJob == [cmd |-> "none"]

Init ==
    /\ onnx = [s \in Slot |-> [graph |-> Nothing, side |-> Nothing]]
    /\ engines = {}
    /\ publisher = Nothing
    /\ pc = [p \in Proc |-> "idle"]
    /\ job = [p \in Proc |-> NoJob]
    /\ calm = {}
    /\ commands = 0 /\ edits = 0

\* A write by p, or by the user when p is Nothing.
Writes(p) == calm' = calm \cap {p}

Goto(p, label) == pc' = [pc EXCEPT ![p] = label]

\* The command of p goes on: it remembers what it read and changes no file.
Proceed(p, from, to, notes) ==
    /\ pc[p] = from
    /\ Goto(p, to)
    /\ job' = [job EXCEPT ![p] = notes]
    /\ UNCHANGED <<files, publisher, calm, bounds>>

Begin(p, new, label) ==
    /\ pc[p] \in {"idle", "done", "failed"}
    /\ commands < MaxCommands
    /\ commands' = commands + 1
    /\ job' = [job EXCEPT ![p] = new]
    /\ Goto(p, label)
    /\ calm' = IF publisher = Nothing THEN calm \cup {p} ELSE calm \ {p}
    /\ UNCHANGED <<files, publisher, edits>>

\* bench resolves as info does: neither builds.
Resolvers == {"predict", "info"}

NewJob(cmd, precision, profile) ==
    [cmd |-> cmd, precision |-> precision, profile |-> profile, slot |-> Nothing,
     fp |-> <<Nothing, Nothing>>, sha |-> Nothing, taken |-> Nothing, result |-> Nothing,
     built |-> FALSE]

\* cmd_predict, cmd_info, cmd_bench: an engine for a model and a precision.
Resolve(p) ==
    \E cmd \in Resolvers, precision \in Precision :
        Begin(p, NewJob(cmd, precision, DefaultProfile), "find")

\* cmd_build with --model and no --output: the same name, without looking it up.
Build(p) ==
    \E precision \in Precision, profile \in Profiles :
        Begin(p, NewJob("build", precision, profile), "find")

-----------------------------------------------------------------------------
(* _find_onnx and the identity of what it found.                           *)

Present(s) == onnx[s].graph # Nothing

FirstPresent(precision) ==
    LET c == Candidates(precision)
        found == {i \in DOMAIN c : Present(c[i])}
    IN IF found = {} THEN Nothing ELSE c[CHOOSE i \in found : \A k \in found : i <= k]

FindOnnx(p) ==
    LET s == FirstPresent(job[p].precision) IN
    Proceed(p, "find",
            IF s # Nothing THEN "fp_graph" ELSE IF job[p].cmd = "build" THEN "failed" ELSE "no_onnx",
            [job[p] EXCEPT !.slot = s])

\* read_bytes of a file that has just vanished ends the command.
ReadsGraph(p, from, to, notes) ==
    Proceed(p, from, IF Present(job[p].slot) THEN to ELSE "failed", notes)

FingerprintGraph(p) ==
    ReadsGraph(p, "fp_graph", "fp_side", [job[p] EXCEPT !.fp[1] = onnx[job[p].slot].graph])

\* A bug that leaves the sidecar out of the identity.
FingerprintOfGraph(s) == Nothing

FingerprintOfSide(s) == onnx[s].side

FingerprintSide(p) ==
    Proceed(p, "fp_side", IF job[p].cmd = "build" THEN "check" ELSE "sha",
            [job[p] EXCEPT !.fp[2] = FingerprintOfSide(job[p].slot)])

\* The ONNX is read a second time for the digest that sidecars record.
HashOnnx(p) == ReadsGraph(p, "sha", "scan", [job[p] EXCEPT !.sha = onnx[job[p].slot].graph])

-----------------------------------------------------------------------------
(* Choosing among the cached engines.                                      *)

NameOf(p) == [precision |-> job[p].precision, fp |-> job[p].fp, profile |-> job[p].profile]

\* The recorded source contradicts the resolved ONNX.
Foreign(e, sha) == e.facts # Nothing /\ e.facts.sha # sha

Others(p) ==
    {e \in engines : /\ e.name.precision = job[p].precision /\ e.name.fp = job[p].fp
                     /\ ~ Foreign(e, job[p].sha)}

\* The sidecar records the profile; the name is what is left without one.
ProfileMax(e) == IF e.facts # Nothing THEN e.facts.max ELSE e.name.profile.max

\* Names of one maximum are sorted as text, which may be any order here.
Largest(S) == {e \in S : \A f \in S : ProfileMax(f) <= ProfileMax(e)}

Named(n) == {e \in engines : e.name = n}

\* The engine of the requested name is taken before any other is looked at.
Choice(p) ==
    LET exact == Others(p) \cap Named(NameOf(p)) IN
    IF exact # {} THEN exact ELSE Largest(Others(p))

Pick(p) ==
    /\ pc[p] = "scan"
    /\ \E e \in Choice(p) : Proceed(p, "scan", "done", [job[p] EXCEPT !.result = e])

Miss(p) ==
    /\ pc[p] = "scan" /\ Others(p) = {}
    /\ Proceed(p, "scan", IF job[p].cmd = "predict" THEN "check" ELSE "failed", job[p])

\* With no ONNX: the only bound engine, else an unbound one, never one among several.
PickUnverified(p) ==
    LET hashed == {e \in engines : e.name.precision = job[p].precision}
        unbound == \E u \in Unbound : u[1] = job[p].precision
    IN
    /\ pc[p] = "no_onnx"
    /\ \/ \E e \in hashed :
            hashed = {e} /\ Proceed(p, "no_onnx", "done", [job[p] EXCEPT !.result = e])
       \/ hashed = {} /\ Proceed(p, "no_onnx", IF unbound THEN "done" ELSE "failed", job[p])
       \/ Cardinality(hashed) > 1 /\ Proceed(p, "no_onnx", "failed", job[p])

-----------------------------------------------------------------------------
(* _build_engine: the precision check, then build_engine.py as a child.    *)

\* A strongly typed build follows the ONNX, so the sidecar has to agree with the label.
PrecisionAgrees(s, precision) ==
    onnx[s].side = Nothing \/ PrecisionOf(onnx[s].side.kind) = precision

CheckPrecision(p) ==
    Proceed(p, "check",
            IF PrecisionAgrees(job[p].slot, job[p].precision) THEN "snapshot" ELSE "failed", job[p])

\* The child reads the ONNX pair, refusing one that changes under it (ArtifactReader).
Snapshot(p) ==
    ReadsGraph(p, "snapshot", "engine_file", [job[p] EXCEPT !.taken = onnx[job[p].slot].graph])

Locks(p) == publisher = Nothing /\ publisher' = p

Unlocks(p) == publisher = p /\ publisher' = Nothing

Entry(p, facts) ==
    [name |-> NameOf(p), source |-> job[p].taken, max |-> job[p].profile.max, facts |-> facts]

Files(e) == engines' = (engines \ Named(e.name)) \cup {e}

\* The engine lands under its name; an older sidecar is still beside it.
PublishEngine(p) ==
    /\ pc[p] = "engine_file" /\ Goto(p, "engine_side")
    /\ Locks(p) /\ Writes(p)
    /\ \/ Named(NameOf(p)) = {} /\ Files(Entry(p, Nothing))
       \/ \E e \in Named(NameOf(p)) : Files(Entry(p, e.facts))
    /\ UNCHANGED <<onnx, job, bounds>>

\* build_engine.py hashes the bytes that it parsed.
RecordedSource(p) == job[p].taken

PublishFacts(p) ==
    /\ pc[p] = "engine_side" /\ Goto(p, "done")
    /\ Unlocks(p) /\ Writes(p)
    /\ LET e == Entry(p, [sha |-> RecordedSource(p), max |-> job[p].profile.max]) IN
       /\ Files(e)
       /\ job' = [job EXCEPT ![p].result = e, ![p].built = TRUE]
    /\ UNCHANGED <<onnx, bounds>>

-----------------------------------------------------------------------------
(* cmd_export into the cache: the FP32 pair first, then the recipe's.      *)

Recipes == Kind

ExportSlot(kind) == IF kind = "fp32" THEN "" ELSE IF kind = "slim" THEN "_slim" ELSE "_fp16_st"

Export(p) ==
    \E kind \in Recipes, c \in Checkpoint :
        Begin(p, [cmd |-> "export", kind |-> kind, ckpt |-> c,
                  art |-> [ckpt |-> c, kind |-> "fp32"]], "graph_file")

\* The exporter and the converters publish alike, the graph first.
PublishGraph(p) ==
    /\ pc[p] = "graph_file" /\ Goto(p, "graph_side")
    /\ Locks(p) /\ Writes(p)
    /\ onnx' = [onnx EXCEPT ![ExportSlot(job[p].art.kind)].graph = job[p].art]
    /\ UNCHANGED <<engines, job, bounds>>

PublishSide(p) ==
    /\ pc[p] = "graph_side"
    /\ Goto(p, IF job[p].art.kind = job[p].kind THEN "done" ELSE "convert")
    /\ Unlocks(p) /\ Writes(p)
    /\ onnx' = [onnx EXCEPT ![ExportSlot(job[p].art.kind)].side = job[p].art]
    /\ UNCHANGED <<engines, job, bounds>>

\* The converter opens the FP32 file by its name, whoever wrote it last.
Convert(p) ==
    /\ pc[p] = "convert"
    /\ Goto(p, IF Present("") THEN "graph_file" ELSE "failed")
    /\ job' = IF ~ Present("") THEN job
              ELSE [job EXCEPT ![p].art = [ckpt |-> onnx[""].graph.ckpt, kind |-> job[p].kind]]
    /\ UNCHANGED <<files, publisher, calm, bounds>>

-----------------------------------------------------------------------------
(* The user, with a file manager.                                          *)

Edits ==
    /\ edits < MaxEdits
    /\ edits' = edits + 1
    /\ Writes(Nothing)
    /\ UNCHANGED <<publisher, pc, job, commands>>

\* A release asset is put in a slot, with or without its sidecar, or taken away.
PlaceOnnx ==
    /\ Edits
    /\ \E s \in PlacedSlots, a \in File, side \in BOOLEAN :
         onnx' = [onnx EXCEPT ![s] = [graph |-> a, side |-> IF side THEN a ELSE Nothing]]
    /\ UNCHANGED engines

\* Its engine file is new, and its sidecar still the older one.
Replaced(e) == \E p \in Proc : pc[p] = "engine_side" /\ e.name = NameOf(p)

\* An engine is copied under another name, with or without its sidecar; the pair of one that
\* is being replaced is not, or its two files would not belong together.
CopyEngine ==
    /\ Edits
    /\ \E e, f \in engines, profile \in Profiles, sidecar \in BOOLEAN :
         /\ RenamesProfile \/ profile = e.name.profile
         /\ sidecar => ~ Replaced(e)
         /\ Files([e EXCEPT !.name = [f.name EXCEPT !.profile = profile],
                            !.facts = IF sidecar THEN @ ELSE Nothing])
    /\ UNCHANGED onnx

Step(p) ==
    \/ FindOnnx(p) \/ FingerprintGraph(p) \/ FingerprintSide(p) \/ HashOnnx(p)
    \/ Pick(p) \/ Miss(p) \/ PickUnverified(p)
    \/ CheckPrecision(p) \/ Snapshot(p) \/ PublishEngine(p) \/ PublishFacts(p)
    \/ PublishGraph(p) \/ PublishSide(p) \/ Convert(p)

Next ==
    \/ \E p \in Proc : Resolve(p) \/ Build(p) \/ Export(p) \/ Step(p)
    \/ PlaceOnnx \/ CopyEngine

Spec == Init /\ [][Next]_vars

-----------------------------------------------------------------------------
(* Properties.                                                             *)

TypeOK ==
    /\ onnx \in [Slot -> [graph : File, side : File]]
    /\ \A e \in engines :
         /\ e.name \in Name /\ e.source \in Artifact /\ e.max \in Nat
         /\ e.facts = Nothing \/ e.facts \in [sha : Artifact, max : Nat]
         /\ \A f \in Named(e.name) : e = f
    /\ publisher \in Proc \cup {Nothing}
    /\ calm \subseteq Proc

\* p has an engine that it found or built for an ONNX.
Resolved(p) ==
    /\ pc[p] = "done" /\ job[p].cmd \in Resolvers \cup {"build"}
    /\ job[p].slot # Nothing

\* Undisturbed, a command ends with an engine of exactly the ONNX that discovery found,
\* whatever earlier commands raced with and whatever was renamed by hand, unless the
\* engine has no sidecar that could tell (_resolve_engine, foreign).
Reverified ==
    \A p \in calm : Resolved(p) =>
        job[p].result.facts = Nothing \/ job[p].result.source = onnx[job[p].slot].graph

\* Undisturbed, what a command builds is what the next one will look up: its name is the
\* fingerprint of the pair on disk and its sidecar does not contradict it, so that the
\* next command need not build again.
BuiltIsFound ==
    \A p \in calm : Resolved(p) /\ job[p].built =>
        LET s == job[p].slot IN
        /\ job[p].result \in engines
        /\ job[p].result.name.fp = <<onnx[s].graph, onnx[s].side>>
        /\ ~ Foreign(job[p].result, onnx[s].graph)

\* Undisturbed, a build of an ONNX that has a matching sidecar gives an engine of the
\* precision its name says (_check_onnx_precision).
PrecisionHonest ==
    \A p \in calm : Resolved(p) /\ job[p].built =>
        LET s == job[p].slot IN
        onnx[s].side = onnx[s].graph => PrecisionOf(job[p].result.source.kind) = job[p].precision

\* Undisturbed, an engine large enough for the request is chosen whenever a cached engine
\* of the same ONNX, with a sidecar, is large enough.
ServesIfAny ==
    \A p \in calm : Resolved(p) /\ ~ job[p].built =>
        \A e \in Others(p) :
            /\ e.facts # Nothing /\ job[p].result.facts # Nothing
            /\ job[p].profile.max <= e.facts.max
            => job[p].profile.max <= job[p].result.max

\* The directory lock is held by a command that is about to give it back, so that a
\* command waits for a publication and never for a reader.
LockIsPassing ==
    publisher # Nothing => pc[publisher] \in {"engine_side", "graph_side"}
=============================================================================
