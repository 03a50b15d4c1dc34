-------------------------- MODULE BuildersProofs ---------------------------
(***************************************************************************)
(* Proofs about what stands between a graph on disk and an engine that is  *)
(* loaded: the cache of engines that the processes of dfine share          *)
(* (EngineCache), the names of the sidecars of its pairs (SidecarNames),   *)
(* the recipe of one build (BuildRecipe) and the casts behind a conversion *)
(* (TypeHarmonizer).  Each is an instance of the suite; no theorem is      *)
(* about two of them.                                                      *)
(***************************************************************************)
EXTENDS MCBuilders, FiniteSetTheorems, SequenceTheorems, TLAPS

CONSTANT variant    \* the program a theorem is about

------------------------------
(* The suite: a behaviour that begins as a program stays one, and is a
   behaviour of that program's own specification. *)

LEMMA ProgramStays == BuildersSpec /\ program = variant => [](program = variant)
<1>1. program = variant /\ [BuildersNext]_BuildersVars => (program = variant)'
  <2> SUFFICES ASSUME program = variant, [BuildersNext]_BuildersVars
               PROVE  program' = program
    OBVIOUS
  <2>1. CASE BuildersNext
    BY <2>1 DEF BuildersNext, ReaderSteps, CacheSteps, BesideSteps, RecipeSteps,
                HarmonizerSteps
  <2>2. CASE UNCHANGED BuildersVars BY <2>2 DEF BuildersVars
  <2> QED BY <2>1, <2>2
<1> QED BY <1>1, PTL DEF BuildersSpec

LEMMA CacheRuns ==
    variant \in DOMAIN Caches => (BuildersSpec /\ program = variant => Cache(variant)!Spec)
<1> SUFFICES ASSUME variant \in DOMAIN Caches
             PROVE  BuildersSpec /\ program = variant => Cache(variant)!Spec
  OBVIOUS
<1>1. BuildersInit /\ program = variant => Cache(variant)!Init
  <2> SUFFICES ASSUME BuildersInit, program = variant
               PROVE  Cache(variant)!Init
    OBVIOUS
  <2>1. CacheBegins
    BY NamesAssumption
       DEF BuildersInit, ReaderBegins, BesideBegins, RecipeBegins, HarmonizerBegins
  <2> QED BY <2>1 DEF CacheBegins
<1>2. program = variant /\ [BuildersNext]_BuildersVars
    => [Cache(variant)!Next]_(Cache(variant)!vars)
  <2> SUFFICES ASSUME program = variant, [BuildersNext]_BuildersVars
               PROVE  [Cache(variant)!Next]_(Cache(variant)!vars)
    OBVIOUS
  <2>1. CASE BuildersNext
    <3>1. CacheSteps
      BY <2>1, NamesAssumption
         DEF BuildersNext, ReaderSteps, BesideSteps, RecipeSteps, HarmonizerSteps
    <3> QED BY <3>1 DEF CacheSteps
  <2>2. CASE UNCHANGED BuildersVars BY <2>2 DEF BuildersVars, Cache!vars
  <2> QED BY <2>1, <2>2
<1> QED BY <1>1, <1>2, ProgramStays, PTL DEF BuildersSpec, Cache!Spec

LEMMA BesideRuns ==
    variant = "sidecars" => (BuildersSpec /\ program = variant => Beside!Spec)
<1> SUFFICES ASSUME variant = "sidecars"
             PROVE  BuildersSpec /\ program = variant => Beside!Spec
  OBVIOUS
<1>1. BuildersInit /\ program = variant => Beside!Init
  <2> SUFFICES ASSUME BuildersInit, program = variant
               PROVE  Beside!Init
    OBVIOUS
  <2>1. BesideBegins
    BY NamesAssumption
       DEF BuildersInit, ReaderBegins, CacheBegins, RecipeBegins, HarmonizerBegins
  <2> QED BY <2>1 DEF BesideBegins
<1>2. program = variant /\ [BuildersNext]_BuildersVars => [Beside!Next]_(Beside!vars)
  <2> SUFFICES ASSUME program = variant, [BuildersNext]_BuildersVars
               PROVE  [Beside!Next]_(Beside!vars)
    OBVIOUS
  <2>1. CASE BuildersNext
    <3>1. BesideSteps
      BY <2>1, NamesAssumption
         DEF BuildersNext, ReaderSteps, CacheSteps, RecipeSteps, HarmonizerSteps
    <3> QED BY <3>1 DEF BesideSteps
  <2>2. CASE UNCHANGED BuildersVars
    BY <2>2 DEF BuildersVars, Beside!vars
  <2> QED BY <2>1, <2>2
<1> QED BY <1>1, <1>2, ProgramStays, PTL DEF BuildersSpec, Beside!Spec

LEMMA RecipeRuns ==
    variant = "recipe" => (BuildersSpec /\ program = variant => Recipe!Spec)
<1> SUFFICES ASSUME variant = "recipe"
             PROVE  BuildersSpec /\ program = variant => Recipe!Spec
  OBVIOUS
<1>1. BuildersInit /\ program = variant => Recipe!Init
  <2> SUFFICES ASSUME BuildersInit, program = variant
               PROVE  Recipe!Init
    OBVIOUS
  <2>1. RecipeBegins
    BY NamesAssumption
       DEF BuildersInit, ReaderBegins, CacheBegins, BesideBegins, HarmonizerBegins
  <2> QED BY <2>1 DEF RecipeBegins
<1>2. program = variant /\ [BuildersNext]_BuildersVars => [Recipe!Next]_(Recipe!vars)
  <2> SUFFICES ASSUME program = variant, [BuildersNext]_BuildersVars
               PROVE  [Recipe!Next]_(Recipe!vars)
    OBVIOUS
  <2>1. CASE BuildersNext
    <3>1. RecipeSteps
      BY <2>1, NamesAssumption
         DEF BuildersNext, ReaderSteps, CacheSteps, BesideSteps, HarmonizerSteps
    <3> QED BY <3>1 DEF RecipeSteps
  <2>2. CASE UNCHANGED BuildersVars
    BY <2>2 DEF BuildersVars, Recipe!vars
  <2> QED BY <2>1, <2>2
<1> QED BY <1>1, <1>2, ProgramStays, PTL DEF BuildersSpec, Recipe!Spec

------------------------------
(* The engine cache: types *)

Entries == [name : Cache(variant)!Name, source : Cache(variant)!Artifact, max : Nat,
            facts : [sha : Cache(variant)!Artifact, max : Nat] \cup {Nothing}]
Queries == [cmd : {"predict", "info", "build"}, precision : Cache(variant)!Precision,
            profile : Caches[variant].profiles,
            slot : Cache(variant)!Slot \cup {Nothing},
              fp : Cache(variant)!File \X Cache(variant)!File, sha : Cache(variant)!File,
            taken : Cache(variant)!File, result : Entries \cup {Nothing}, built : BOOLEAN]
Exports == [cmd : {"export"}, kind : Cache(variant)!Kind, ckpt : Caches[variant].checkpoints,
            art : Cache(variant)!Artifact]

Taking == {"engine_file", "engine_side"}
Looking == {"fp_graph", "fp_side", "sha", "scan", "check", "snapshot"} \cup Taking
Resolving == {"find", "no_onnx"} \cup Looking
Exporting == {"graph_file", "graph_side", "convert"}
Stages == Resolving \cup Exporting \cup {"idle", "done", "failed"}

JobStaged(p) ==
    /\ pc[p] \in Resolving => job[p] \in Queries /\ ~job[p].built
    /\ pc[p] \in Exporting => job[p] \in Exports
    /\ pc[p] \in Looking => job[p].slot \in Cache(variant)!Slot
    /\ pc[p] = "no_onnx" => job[p].slot = Nothing
    /\ pc[p] \in Taking => job[p].taken \in Cache(variant)!Artifact

CacheTypes ==
    /\ onnx \in [Cache(variant)!Slot -> [graph : Cache(variant)!File, side : Cache(variant)!File]]
    /\ engines \subseteq Entries
    /\ publisher \in Caches[variant].procs \cup {Nothing}
    /\ pc \in [Caches[variant].procs -> Stages]
    /\ job \in [Caches[variant].procs -> Queries \cup Exports \cup {Cache(variant)!NoJob}]
    /\ calm \subseteq Caches[variant].procs
    /\ \A p \in Caches[variant].procs : JobStaged(p)

\* The recorded facts of an engine are its own.
Whole(e) == e.facts # Nothing => e.facts.sha = e.source /\ e.facts.max = e.max

EntriesFit ==
    /\ \A e, f \in engines : e.name = f.name => e = f
    /\ \A e \in engines : Whole(e) \/ Cache(variant)!Replaced(e)
    /\ ~RenamesProfile => \A e \in engines : e.max = e.name.profile.max

\* The lock is held between the two files of a pair, and nowhere else.
LockHeld == \A p \in Caches[variant].procs :
  pc[p] \in {"engine_side", "graph_side"} <=> publisher = p

Identified(p) == job[p].fp = <<onnx[job[p].slot].graph, onnx[job[p].slot].side>>

\* What a command that nobody wrote under knows of the files.
Known(p) ==
    /\ publisher \in {Nothing, p}
    /\ pc[p] = "fp_side" => job[p].fp[1] = onnx[job[p].slot].graph
    /\ pc[p] \in {"sha", "scan", "check", "snapshot"} \cup Taking => Identified(p)
    /\ pc[p] = "scan" => job[p].sha = onnx[job[p].slot].graph
    /\ pc[p] \in {"snapshot"} \cup Taking
       => Cache(variant)!PrecisionAgrees(job[p].slot, job[p].precision)
    /\ pc[p] \in Taking => job[p].taken = onnx[job[p].slot].graph
    /\ pc[p] = "done" /\ job[p] \in Queries /\ job[p].slot # Nothing =>
          IF job[p].built
          THEN /\ job[p].result \in engines
               /\ job[p].result.name.fp = <<onnx[job[p].slot].graph, onnx[job[p].slot].side>>
               /\ job[p].result.source = onnx[job[p].slot].graph
               /\ Whole(job[p].result)
               /\ Cache(variant)!PrecisionAgrees(job[p].slot, job[p].precision)
          ELSE job[p].sha = onnx[job[p].slot].graph /\ job[p].result \in Cache(variant)!Choice(p)

CacheInv ==
    /\ CacheTypes /\ EntriesFit /\ LockHeld
    /\ \A p \in calm : Known(p)

LEMMA StageFacts ==
    /\ Taking \subseteq Looking /\ Looking \subseteq Resolving /\ Resolving \subseteq Stages
    /\ Exporting \subseteq Stages /\ Resolving \cap Exporting = {}
    /\ {"idle", "done", "failed"} \cap (Resolving \cup Exporting) = {}
    /\ {"idle", "done", "failed"} \subseteq Stages
BY DEF Taking, Looking, Resolving, Exporting, Stages

LEMMA JobKinds ==
    /\ \A j \in Queries : j.cmd # "export" /\ j.cmd # "none"
       /\ j.cmd \in {"predict", "info", "build"}
    /\ \A j \in Exports : j.cmd = "export"
    /\ Cache(variant)!NoJob.cmd = "none"
    /\ Queries \cap Exports = {} /\ Cache(variant)!NoJob \notin Queries
BY DEF Queries, Exports, Cache!NoJob

\* The candidates are tried in order, and one that is there is a slot.
LEMMA FoundSlot ==
    ASSUME Cache(variant)!CacheAssumption, NEW precision \in Cache(variant)!Precision
    PROVE  /\ Cache(variant)!FirstPresent(precision) \in Cache(variant)!Slot \cup {Nothing}
           /\ Cache(variant)!FirstPresent(precision) # Nothing
              => Cache(variant)!FirstPresent(precision) \in Cache(variant)!Slot
<1> DEFINE c == Cache(variant)!Candidates(precision)
           found == {i \in DOMAIN c : Cache(variant)!Present(c[i])}
<1>1. DOMAIN c = {1, 2, 3, 4} /\ \A i \in {1, 2, 3, 4} : c[i] \in Cache(variant)!Slot
  BY DEF Cache!Candidates, Cache!Slot
<1>2. Cache(variant)!FirstPresent(precision) =
        IF found = {} THEN Nothing ELSE c[CHOOSE i \in found : \A k \in found : i <= k]
  BY DEF Cache!FirstPresent
<1> HIDE DEF c
<1>3. ASSUME found # {} PROVE \E i \in found : \A k \in found : i <= k
  <2>1. found \subseteq {1, 2, 3, 4} BY <1>1
  <2> HIDE DEF found
  <2>2. CASE 1 \in found BY <2>1, <2>2
  <2>3. CASE 1 \notin found /\ 2 \in found BY <2>1, <2>3
  <2>4. CASE 1 \notin found /\ 2 \notin found /\ 3 \in found
    BY <2>1, <2>4
  <2>5. CASE 1 \notin found /\ 2 \notin found /\ 3 \notin found
    <3>1. \A k \in found : k = 4 BY <2>1, <2>5
    <3>2. 4 \in found BY <1>3, <3>1
    <3>3. \A k \in found : 4 <= k BY <3>1
    <3> QED BY <3>2, <3>3
  <2> QED BY <2>2, <2>3, <2>4, <2>5
<1>4. ASSUME found # {} PROVE (CHOOSE i \in found : \A k \in found : i <= k) \in found
  BY <1>3, <1>4
<1>5. found # {} => c[CHOOSE i \in found : \A k \in found : i <= k] \in Cache(variant)!Slot
  BY <1>1, <1>4
<1> QED BY <1>2, <1>5

\* A command that somebody else's step leaves as it was, with the files.
LEMMA KnownKept ==
    ASSUME NEW p \in Caches[variant].procs, Known(p), job'[p] = job[p], pc'[p] = pc[p],
           UNCHANGED <<onnx, engines>>,
           publisher' \in {Nothing, p}
    PROVE  Known(p)'
<1>1. /\ Identified(p)' <=> Identified(p)
      /\ \A s, precision :
         Cache(variant)!PrecisionAgrees(s,
                                        precision)' <=> Cache(variant)!PrecisionAgrees(s, precision)
  BY DEF Identified, Cache!PrecisionAgrees
<1>2. Cache(variant)!Choice(p)' = Cache(variant)!Choice(p)
  BY DEF Cache!Choice, Cache!Others, Cache!Named, Cache!NameOf, Cache!Largest, Cache!ProfileMax,
         Cache!Foreign
<1>3. Cache(variant)!PrecisionAgrees(job[p].slot, job[p].precision)'
        <=> Cache(variant)!PrecisionAgrees(job[p].slot, job[p].precision)
  BY DEF Cache!PrecisionAgrees
<1> QED BY <1>1, <1>2, <1>3 DEF Known, Whole, Queries, Entries, Cache!Name, Cache!File

------------------------------
(* The engine cache: the steps that change no file *)

LEMMA ProceedKeeps ==
    ASSUME Cache(variant)!CacheAssumption, CacheInv, NEW p \in Caches[variant].procs,
           NEW from \in Resolving \ {"engine_side"},
           NEW to \in Stages \ {"engine_side", "graph_side"}, NEW new \in Queries,
           Cache(variant)!Proceed(p, from, to, new),
           to \in Resolving => ~new.built,
           to \in Looking => new.slot \in Cache(variant)!Slot,
           to = "no_onnx" => new.slot = Nothing,
           to \in Taking => new.taken \in Cache(variant)!Artifact,
           to \notin Exporting,
           p \in calm => Known(p)'
    PROVE  CacheInv'
<1>1. /\ CacheTypes /\ EntriesFit /\ LockHeld /\ pc[p] = from
      /\ pc' = [pc EXCEPT ![p] = to] /\ job' = [job EXCEPT ![p] = new]
      /\ UNCHANGED <<onnx, engines, publisher, calm>>
  BY DEF CacheInv, Cache!Proceed, Cache!Goto, Cache!files
<1>2. /\ pc'[p] = to /\ job'[p] = new
      /\ \A q \in Caches[variant].procs \ {p} : pc'[q] = pc[q] /\ job'[q] = job[q]
      /\ pc' \in [Caches[variant].procs -> Stages]
      /\ job' \in [Caches[variant].procs -> Queries \cup Exports \cup {Cache(variant)!NoJob}]
  BY <1>1 DEF CacheTypes
<1>3. from \notin {"engine_side", "graph_side"} /\ to \notin {"engine_side", "graph_side"}
  BY DEF Resolving, Looking, Taking
<1>4. CacheTypes'
  <2>1. JobStaged(p)' BY <1>2 DEF JobStaged
  <2>2. \A q \in Caches[variant].procs \ {p} : JobStaged(q)'
    BY <1>1, <1>2 DEF CacheTypes, JobStaged
  <2>3. \A q \in Caches[variant].procs : JobStaged(q)' BY <2>1, <2>2
  <2> QED BY <1>1, <1>2, <2>3 DEF CacheTypes
<1>5. \A e : Cache(variant)!Replaced(e) => Cache(variant)!Replaced(e)'
  BY <1>1, <1>2, <1>3 DEF Cache!Replaced, Cache!NameOf
<1>6. EntriesFit' BY <1>1, <1>5 DEF EntriesFit, Whole
<1>7. LockHeld' BY <1>1, <1>2, <1>3 DEF LockHeld
<1>8. ASSUME NEW q \in calm PROVE Known(q)'
  <2>1. CASE q = p BY <1>8, <2>1
  <2>2. CASE q # p
    <3>1. q \in Caches[variant].procs /\ Known(q) /\ publisher \in {Nothing, q}
      BY <1>1, <1>8 DEF CacheInv, CacheTypes, Known
    <3> QED BY <1>1, <1>2, <2>2, <3>1, KnownKept
  <2> QED BY <2>1, <2>2
<1> QED BY <1>1, <1>4, <1>6, <1>7, <1>8 DEF CacheInv

\* What a command has noted, one field at a time.
LEMMA Notes ==
    ASSUME NEW j \in Queries
    PROVE  /\ j.fp \in Cache(variant)!File \X Cache(variant)!File
           /\ \A s \in Cache(variant)!Slot \cup {Nothing} :
                 /\ [j EXCEPT !.slot = s] \in Queries /\ [j EXCEPT !.slot = s].slot = s
                 /\ [j EXCEPT !.slot = s].built = j.built
           /\ \A f \in Cache(variant)!File :
                 /\ [j EXCEPT !.sha = f] \in Queries /\ [j EXCEPT !.sha = f].sha = f
                 /\ [j EXCEPT !.sha = f].built = j.built /\ [j EXCEPT !.sha = f].slot = j.slot
                 /\ [j EXCEPT !.sha = f].fp = j.fp
           /\ \A f \in Cache(variant)!File :
                 /\ [j EXCEPT !.taken = f] \in Queries /\ [j EXCEPT !.taken = f].taken = f
                 /\ [j EXCEPT !.taken = f].built = j.built /\ [j EXCEPT !.taken = f].slot = j.slot
                 /\ [j EXCEPT !.taken = f].fp = j.fp
                 /\ [j EXCEPT !.taken = f].precision = j.precision
           /\ \A e \in Entries :
                 /\ [j EXCEPT !.result = e] \in Queries /\ [j EXCEPT !.result = e].result = e
                 /\ [j EXCEPT !.result = e].built = j.built /\ [j EXCEPT !.result = e].slot = j.slot
                 /\ [j EXCEPT !.result = e].fp = j.fp /\ [j EXCEPT !.result = e].sha = j.sha
                 /\ [j EXCEPT !.result = e].precision = j.precision
                 /\ [j EXCEPT !.result = e].profile = j.profile
<1>1. j.fp \in Cache(variant)!File \X Cache(variant)!File BY DEF Queries
<1>2. \A s \in Cache(variant)!Slot \cup {Nothing} :
         /\ [j EXCEPT !.slot = s] \in Queries /\ [j EXCEPT !.slot = s].slot = s
         /\ [j EXCEPT !.slot = s].built = j.built
  BY DEF Queries
<1>3. \A f \in Cache(variant)!File :
         /\ [j EXCEPT !.sha = f] \in Queries /\ [j EXCEPT !.sha = f].sha = f
         /\ [j EXCEPT !.sha = f].built = j.built /\ [j EXCEPT !.sha = f].slot = j.slot
         /\ [j EXCEPT !.sha = f].fp = j.fp
  BY DEF Queries
<1>4. \A f \in Cache(variant)!File :
         /\ [j EXCEPT !.taken = f] \in Queries /\ [j EXCEPT !.taken = f].taken = f
         /\ [j EXCEPT !.taken = f].built = j.built /\ [j EXCEPT !.taken = f].slot = j.slot
         /\ [j EXCEPT !.taken = f].fp = j.fp
         /\ [j EXCEPT !.taken = f].precision = j.precision
  BY DEF Queries
<1>5. \A e \in Entries :
         /\ [j EXCEPT !.result = e] \in Queries /\ [j EXCEPT !.result = e].result = e
         /\ [j EXCEPT !.result = e].built = j.built /\ [j EXCEPT !.result = e].slot = j.slot
         /\ [j EXCEPT !.result = e].fp = j.fp /\ [j EXCEPT !.result = e].sha = j.sha
         /\ [j EXCEPT !.result = e].precision = j.precision
         /\ [j EXCEPT !.result = e].profile = j.profile
  BY DEF Queries
<1> QED BY <1>1, <1>2, <1>3, <1>4, <1>5

\* A job after it has noted the fingerprint f of the graph (k = 1) or of the sidecar (k = 2).
Printed(new, j, k, f) ==
    /\ new \in Queries /\ new.fp[k] = f /\ \A m \in {1, 2} \ {k} : new.fp[m] = j.fp[m]
    /\ new.slot = j.slot /\ new.built = j.built /\ new.fp = <<new.fp[1], new.fp[2]>>

LEMMA PrintNotes ==
    ASSUME NEW j \in Queries, NEW k \in {1, 2}, NEW f \in Cache(variant)!File,
           NEW new, new = [j EXCEPT !.fp[k] = f]
    PROVE  Printed(new, j, k, f)
<1> DEFINE fp == [j.fp EXCEPT ![k] = f]
<1>1. j.fp \in Cache(variant)!File \X Cache(variant)!File BY DEF Queries
<1>2. /\ fp \in Cache(variant)!File \X Cache(variant)!File /\ fp[k] = f /\ \A m \in {1, 2} \ {k} :
         fp[m] = j.fp[m]
      /\ fp = <<fp[1], fp[2]>>
  <2>1. CASE k = 1 BY <1>1, <2>1
  <2>2. CASE k = 2 BY <1>1, <2>2
  <2> QED BY <2>1, <2>2
<1> HIDE DEF fp
<1>3. new = [j EXCEPT !.fp = fp] BY DEF fp
<1>4. new \in Queries /\ new.fp = fp /\ new.slot = j.slot /\ new.built = j.built
  BY <1>2, <1>3 DEF Queries
<1> QED BY <1>2, <1>4 DEF Printed

\* What the stage of a command says of its job.
LEMMA AtStage ==
    ASSUME CacheInv, NEW p \in Caches[variant].procs, pc[p] \in Resolving
    PROVE  /\ job[p] \in Queries /\ ~job[p].built
           /\ pc[p] \in Looking => job[p].slot \in Cache(variant)!Slot
           /\ pc[p] = "no_onnx" => job[p].slot = Nothing
           /\ pc[p] \in Taking => job[p].taken \in Cache(variant)!Artifact
           /\ \A s \in Cache(variant)!Slot : onnx[s].graph \in Cache(variant)!File
              /\ onnx[s].side \in Cache(variant)!File
BY DEF CacheInv, CacheTypes, JobStaged

LEMMA FindOnnxKeeps ==
    ASSUME Cache(variant)!CacheAssumption, CacheInv, NEW p \in Caches[variant].procs,
           Cache(variant)!FindOnnx(p)
    PROVE  CacheInv'
<1> DEFINE s == Cache(variant)!FirstPresent(job[p].precision)
           to == IF s # Nothing THEN "fp_graph" ELSE IF job[p].cmd = "build" THEN "failed"
             ELSE "no_onnx"
           new == [job[p] EXCEPT !.slot = s]
<1>1. Cache(variant)!Proceed(p, "find", to, new) /\ pc[p] = "find"
  BY DEF Cache!FindOnnx, Cache!Proceed
<1>2. "find" \in Resolving /\ "find" \in Resolving \ {"engine_side"}
  BY DEF Resolving
<1>3. job[p] \in Queries /\ ~job[p].built BY <1>1, <1>2, AtStage
<1>4. job[p].precision \in Cache(variant)!Precision BY <1>3 DEF Queries
<1>5. s \in Cache(variant)!Slot \cup {Nothing} /\ (s # Nothing => s \in Cache(variant)!Slot)
  BY <1>4, FoundSlot
<1> HIDE DEF s
<1>6. new \in Queries /\ new.slot = s /\ new.built = job[p].built
  BY <1>3, <1>5, Notes
<1>7. to \in Stages \ {"engine_side", "graph_side"} /\ to \notin Exporting
  BY DEF Stages, Resolving, Looking, Taking, Exporting
<1>8. (to \in Looking => new.slot \in Cache(variant)!Slot) /\ (to = "no_onnx" => new.slot = Nothing)
      /\ to \notin Taking
  BY <1>5, <1>6 DEF Looking, Taking
<1>9. p \in calm => Known(p)'
  <2>1. pc'[p] = to
    BY <1>1 DEF Cache!Proceed, Cache!Goto, CacheInv, CacheTypes
  <2>2. UNCHANGED publisher BY <1>1 DEF Cache!Proceed
  <2> QED BY <2>1, <2>2 DEF CacheInv, Known, Taking
<1> HIDE DEF new, to
<1> QED BY <1>1, <1>2, <1>3, <1>6, <1>7, <1>8, <1>9, ProceedKeeps

LEMMA FingerprintGraphKeeps ==
    ASSUME Cache(variant)!CacheAssumption, CacheInv, NEW p \in Caches[variant].procs,
           Cache(variant)!FingerprintGraph(p)
    PROVE  CacheInv'
<1> DEFINE f == onnx[job[p].slot].graph
           to == IF Cache(variant)!Present(job[p].slot) THEN "fp_side" ELSE "failed"
           new == [job[p] EXCEPT !.fp[1] = f]
<1>1. Cache(variant)!Proceed(p, "fp_graph", to, new) /\ pc[p] = "fp_graph"
  BY DEF Cache!FingerprintGraph, Cache!ReadsGraph, Cache!Proceed
<1>2. "fp_graph" \in Resolving /\ "fp_graph" \in Looking
    /\ "fp_graph" \in Resolving \ {"engine_side"}
  BY DEF Resolving, Looking
<1>3. job[p] \in Queries /\ ~job[p].built /\ job[p].slot \in Cache(variant)!Slot
    /\ f \in Cache(variant)!File
  BY <1>1, <1>2, AtStage
<1>6. new \in Queries /\ new.fp[1] = f /\ new.slot = job[p].slot /\ new.built = job[p].built
  BY <1>3, PrintNotes DEF Printed
<1>7. to \in Stages \ {"engine_side", "graph_side"} /\ to \notin Exporting
  BY DEF Stages, Resolving, Looking, Taking, Exporting
<1>8. to \notin Taking /\ to # "no_onnx" BY DEF Taking
<1>9. p \in calm => Known(p)'
  <2>1. pc'[p] = to /\ job'[p] = new
    BY <1>1 DEF Cache!Proceed, Cache!Goto, CacheInv, CacheTypes
  <2>2. UNCHANGED <<publisher, onnx>>
    BY <1>1 DEF Cache!Proceed, Cache!files
  <2>3. new.fp[1] = onnx[new.slot].graph BY <1>6
  <2> HIDE DEF new
  <2>4. p \in calm => publisher \in {Nothing, p} BY DEF CacheInv, Known
  <2> QED BY <2>1, <2>2, <2>3, <2>4 DEF Known, Taking
<1> HIDE DEF new, to
<1> QED BY <1>1, <1>2, <1>3, <1>6, <1>7, <1>8, <1>9, ProceedKeeps

LEMMA FingerprintSideKeeps ==
    ASSUME Cache(variant)!CacheAssumption, CacheInv, NEW p \in Caches[variant].procs,
           Cache(variant)!FingerprintSide(p)
    PROVE  CacheInv'
<1> DEFINE f == onnx[job[p].slot].side
           to == IF job[p].cmd = "build" THEN "check" ELSE "sha"
           new == [job[p] EXCEPT !.fp[2] = f]
<1>1. Cache(variant)!Proceed(p, "fp_side", to, new) /\ pc[p] = "fp_side"
  BY DEF Cache!FingerprintSide, Cache!FingerprintOfSide, Cache!Proceed
<1>2. "fp_side" \in Resolving /\ "fp_side" \in Looking /\ "fp_side" \in Resolving \ {"engine_side"}
  BY DEF Resolving, Looking
<1>3. job[p] \in Queries /\ ~job[p].built /\ job[p].slot \in Cache(variant)!Slot
    /\ f \in Cache(variant)!File
  BY <1>1, <1>2, AtStage
<1>5. 2 \in {1, 2} /\ 1 \in {1, 2} \ {2} OBVIOUS
<1>6. /\ new \in Queries /\ new.fp[2] = f /\ new.slot = job[p].slot /\ new.built = job[p].built
      /\ new.fp[1] = job[p].fp[1] /\ new.fp = <<new.fp[1], new.fp[2]>>
  <2>1. Printed(new, job[p], 2, f) BY <1>3, <1>5, PrintNotes
  <2> HIDE DEF new
  <2> QED BY <1>5, <2>1 DEF Printed
<1>7. to \in Stages \ {"engine_side", "graph_side"} /\ to \notin Exporting
  BY DEF Stages, Resolving, Looking, Taking, Exporting
<1>8. to \notin Taking /\ to # "no_onnx" BY DEF Taking
<1>9. p \in calm => Known(p)'
  <2>1. pc'[p] = to /\ job'[p] = new
    BY <1>1 DEF Cache!Proceed, Cache!Goto, CacheInv, CacheTypes
  <2>2. UNCHANGED <<publisher, onnx>>
    BY <1>1 DEF Cache!Proceed, Cache!files
  <2>4. p \in calm => publisher \in {Nothing, p} /\ job[p].fp[1] = onnx[job[p].slot].graph
    BY <1>1 DEF CacheInv, Known
  <2>3. p \in calm => new.fp = <<onnx[new.slot].graph, onnx[new.slot].side>>
    BY <1>6, <2>4
  <2> HIDE DEF new
  <2> QED BY <2>1, <2>2, <2>3, <2>4 DEF Known, Identified, Taking
<1> HIDE DEF new, to
<1> QED BY <1>1, <1>2, <1>3, <1>6, <1>7, <1>8, <1>9, ProceedKeeps

LEMMA HashOnnxKeeps ==
    ASSUME Cache(variant)!CacheAssumption, CacheInv, NEW p \in Caches[variant].procs,
           Cache(variant)!HashOnnx(p)
    PROVE  CacheInv'
<1> DEFINE f == onnx[job[p].slot].graph
           to == IF Cache(variant)!Present(job[p].slot) THEN "scan" ELSE "failed"
           new == [job[p] EXCEPT !.sha = f]
<1>1. Cache(variant)!Proceed(p, "sha", to, new) /\ pc[p] = "sha"
  BY DEF Cache!HashOnnx, Cache!ReadsGraph, Cache!Proceed
<1>2. "sha" \in Resolving /\ "sha" \in Looking /\ "sha" \in Resolving \ {"engine_side"}
  BY DEF Resolving, Looking
<1>3. job[p] \in Queries /\ ~job[p].built /\ job[p].slot \in Cache(variant)!Slot
    /\ f \in Cache(variant)!File
  BY <1>1, <1>2, AtStage
<1>6. /\ new \in Queries /\ new.sha = f /\ new.slot = job[p].slot /\ new.built = job[p].built
      /\ new.fp = job[p].fp
  BY <1>3, Notes
<1>7. to \in Stages \ {"engine_side", "graph_side"} /\ to \notin Exporting
  BY DEF Stages, Resolving, Looking, Taking, Exporting
<1>8. to \notin Taking /\ to # "no_onnx" BY DEF Taking
<1>9. p \in calm => Known(p)'
  <2>1. pc'[p] = to /\ job'[p] = new
    BY <1>1 DEF Cache!Proceed, Cache!Goto, CacheInv, CacheTypes
  <2>2. UNCHANGED <<publisher, onnx>>
    BY <1>1 DEF Cache!Proceed, Cache!files
  <2>4. p \in calm => publisher \in {Nothing, p} /\ Identified(p)
    BY <1>1 DEF CacheInv, Known
  <2>3. p \in calm => /\ new.fp = <<onnx[new.slot].graph, onnx[new.slot].side>>
                      /\ new.sha = onnx[new.slot].graph
    BY <1>6, <2>4 DEF Identified
  <2> HIDE DEF new
  <2> QED BY <2>1, <2>2, <2>3, <2>4 DEF Known, Identified, Taking
<1> HIDE DEF new, to
<1> QED BY <1>1, <1>2, <1>3, <1>6, <1>7, <1>8, <1>9, ProceedKeeps

LEMMA PickKeeps ==
    ASSUME Cache(variant)!CacheAssumption, CacheInv, NEW p \in Caches[variant].procs,
           Cache(variant)!Pick(p)
    PROVE  CacheInv'
<1>1. PICK e \in Cache(variant)!Choice(p) :
    Cache(variant)!Proceed(p, "scan", "done", [job[p] EXCEPT !.result = e])
  BY DEF Cache!Pick
<1> DEFINE new == [job[p] EXCEPT !.result = e]
<1>2. /\ "scan" \in Resolving /\ "scan" \in Looking /\ "scan" \in Resolving \ {"engine_side"}
      /\ pc[p] = "scan"
  BY <1>1 DEF Resolving, Looking, Cache!Proceed
<1>3. job[p] \in Queries /\ ~job[p].built /\ job[p].slot \in Cache(variant)!Slot
  BY <1>2, AtStage
<1>4. e \in Entries
  BY <1>1 DEF Cache!Choice, Cache!Others, Cache!Largest, CacheInv, CacheTypes
<1>6. /\ new \in Queries /\ new.slot = job[p].slot /\ new.built = job[p].built /\ new.result = e
      /\ new.fp = job[p].fp /\ new.sha = job[p].sha /\ new.precision = job[p].precision
      /\ new.profile = job[p].profile
  BY <1>3, <1>4, Notes
<1>7. "done" \in Stages \ {"engine_side", "graph_side"} /\ "done" \notin Exporting
    /\ "done" \notin Resolving
  BY DEF Stages, Resolving, Looking, Taking, Exporting
<1>8. "done" \notin Taking /\ "done" # "no_onnx" /\ "done" \notin Looking
  BY DEF Taking, Looking
<1>9. p \in calm => Known(p)'
  <2>1. pc'[p] = "done" /\ job'[p] = new
    BY <1>1 DEF Cache!Proceed, Cache!Goto, CacheInv, CacheTypes
  <2>2. UNCHANGED <<publisher, onnx, engines>>
    BY <1>1 DEF Cache!Proceed, Cache!files
  <2>4. p \in calm => publisher \in {Nothing, p} /\ job[p].sha = onnx[job[p].slot].graph
    BY <1>2 DEF CacheInv, Known
  <2>5. p \in calm => new.sha = onnx[new.slot].graph BY <1>6, <2>4
  <2> HIDE DEF new
  <2>6. Cache(variant)!Choice(p)' = Cache(variant)!Choice(p)
    <3>1. Cache(variant)!NameOf(p)' = Cache(variant)!NameOf(p)
      BY <1>6, <2>1 DEF Cache!NameOf
    <3>2. Cache(variant)!Named(Cache(variant)!NameOf(p))'
        = Cache(variant)!Named(Cache(variant)!NameOf(p))
      BY <2>2, <3>1 DEF Cache!Named
    <3>3. Cache(variant)!Others(p)' = Cache(variant)!Others(p)
      BY <1>6, <2>1, <2>2 DEF Cache!Others, Cache!Foreign
    <3>4. Cache(variant)!Largest(Cache(variant)!Others(p))'
        = Cache(variant)!Largest(Cache(variant)!Others(p))
      BY <3>3 DEF Cache!Largest, Cache!ProfileMax
    <3> QED BY <3>2, <3>3, <3>4 DEF Cache!Choice
  <2>7. ~new.built /\ new.result \in Cache(variant)!Choice(p)'
    BY <1>1, <1>3, <1>6, <2>6
  <2> QED BY <2>1, <2>2, <2>4, <2>5, <2>7 DEF Known, Taking
<1> HIDE DEF new
<1>10. Cache(variant)!Proceed(p, "scan", "done", new) BY <1>1 DEF new
<1> QED BY <1>2, <1>3, <1>6, <1>7, <1>8, <1>9, <1>10, ProceedKeeps

LEMMA MissKeeps ==
    ASSUME Cache(variant)!CacheAssumption, CacheInv, NEW p \in Caches[variant].procs,
           Cache(variant)!Miss(p)
    PROVE  CacheInv'
<1> DEFINE to == IF job[p].cmd = "predict" THEN "check" ELSE "failed"
<1>1. Cache(variant)!Proceed(p, "scan", to, job[p]) /\ pc[p] = "scan"
  BY DEF Cache!Miss, Cache!Proceed
<1>2. "scan" \in Resolving /\ "scan" \in Looking /\ "scan" \in Resolving \ {"engine_side"}
  BY DEF Resolving, Looking
<1>3. job[p] \in Queries /\ ~job[p].built /\ job[p].slot \in Cache(variant)!Slot
  BY <1>1, <1>2, AtStage
<1>7. to \in Stages \ {"engine_side", "graph_side"} /\ to \notin Exporting
  BY DEF Stages, Resolving, Looking, Taking, Exporting
<1>8. to \notin Taking /\ to # "no_onnx" BY DEF Taking
<1>9. p \in calm => Known(p)'
  <2>1. pc'[p] = to /\ job'[p] = job[p]
    BY <1>1 DEF Cache!Proceed, Cache!Goto, CacheInv, CacheTypes
  <2>2. UNCHANGED <<publisher, onnx>>
    BY <1>1 DEF Cache!Proceed, Cache!files
  <2>4. p \in calm => publisher \in {Nothing, p} /\ Identified(p)
    BY <1>1 DEF CacheInv, Known
  <2> QED BY <2>1, <2>2, <2>4 DEF Known, Identified, Taking
<1> HIDE DEF to
<1> QED BY <1>1, <1>2, <1>3, <1>7, <1>8, <1>9, ProceedKeeps

LEMMA PickUnverifiedKeeps ==
    ASSUME Cache(variant)!CacheAssumption, CacheInv, NEW p \in Caches[variant].procs,
           Cache(variant)!PickUnverified(p)
    PROVE  CacheInv'
<1>1. /\ pc[p] = "no_onnx"
      /\ \/ \E e \in engines :
            Cache(variant)!Proceed(p, "no_onnx", "done", [job[p] EXCEPT !.result = e])
         \/ \E to \in {"done", "failed"} : Cache(variant)!Proceed(p, "no_onnx", to, job[p])
  BY DEF Cache!PickUnverified
<1>2. "no_onnx" \in Resolving /\ "no_onnx" \in Resolving \ {"engine_side"}
  BY DEF Resolving
<1>3. job[p] \in Queries /\ ~job[p].built /\ job[p].slot = Nothing
  BY <1>1, <1>2, AtStage
<1>4. PICK to \in {"done", "failed"}, new \in Queries :
        Cache(variant)!Proceed(p, "no_onnx", to, new) /\ new.slot = Nothing /\ ~new.built
  <2>1. CASE \E e \in engines :
      Cache(variant)!Proceed(p, "no_onnx", "done", [job[p] EXCEPT !.result = e])
    <3>1. PICK e \in engines :
        Cache(variant)!Proceed(p, "no_onnx", "done", [job[p] EXCEPT !.result = e])
      BY <2>1
    <3>2. e \in Entries BY DEF CacheInv, CacheTypes
    <3>3. /\ [job[p] EXCEPT !.result = e] \in Queries
          /\ [job[p] EXCEPT !.result = e].slot = Nothing /\ ~[job[p] EXCEPT !.result = e].built
      BY <1>3, <3>2, Notes
    <3> QED BY <3>1, <3>3
  <2>2. CASE \E to \in {"done", "failed"} : Cache(variant)!Proceed(p, "no_onnx", to, job[p])
    BY <1>3, <2>2
  <2> QED BY <1>1, <2>1, <2>2
<1>7. /\ to \in Stages \ {"engine_side", "graph_side"} /\ to \notin Exporting /\ to \notin Resolving
      /\ to \notin Looking /\ to \notin Taking /\ to # "no_onnx"
  BY DEF Stages, Resolving, Looking, Taking, Exporting
<1>9. p \in calm => Known(p)'
  <2>1. pc'[p] = to /\ job'[p] = new
    BY <1>4 DEF Cache!Proceed, Cache!Goto, CacheInv, CacheTypes
  <2>2. UNCHANGED publisher BY <1>4 DEF Cache!Proceed
  <2> QED BY <1>4, <2>1, <2>2 DEF Known, CacheInv, Taking
<1> QED BY <1>2, <1>4, <1>7, <1>9, ProceedKeeps

LEMMA CheckPrecisionKeeps ==
    ASSUME Cache(variant)!CacheAssumption, CacheInv, NEW p \in Caches[variant].procs,
           Cache(variant)!CheckPrecision(p)
    PROVE  CacheInv'
<1> DEFINE to == IF Cache(variant)!PrecisionAgrees(job[p].slot, job[p].precision) THEN "snapshot"
    ELSE "failed"
<1>1. Cache(variant)!Proceed(p, "check", to, job[p]) /\ pc[p] = "check"
  BY DEF Cache!CheckPrecision, Cache!Proceed
<1>2. "check" \in Resolving /\ "check" \in Looking /\ "check" \in Resolving \ {"engine_side"}
  BY DEF Resolving, Looking
<1>3. job[p] \in Queries /\ ~job[p].built /\ job[p].slot \in Cache(variant)!Slot
  BY <1>1, <1>2, AtStage
<1>7. to \in Stages \ {"engine_side", "graph_side"} /\ to \notin Exporting
  BY DEF Stages, Resolving, Looking, Taking, Exporting
<1>8. to \notin Taking /\ to # "no_onnx" BY DEF Taking
<1>9. p \in calm => Known(p)'
  <2>1. pc'[p] = to /\ job'[p] = job[p]
    BY <1>1 DEF Cache!Proceed, Cache!Goto, CacheInv, CacheTypes
  <2>2. UNCHANGED <<publisher, onnx>>
    BY <1>1 DEF Cache!Proceed, Cache!files
  <2>4. p \in calm => publisher \in {Nothing, p} /\ Identified(p)
    BY <1>1 DEF CacheInv, Known
  <2>5. to = "snapshot" => Cache(variant)!PrecisionAgrees(job[p].slot, job[p].precision)
    OBVIOUS
  <2>6. Cache(variant)!PrecisionAgrees(job[p].slot, job[p].precision)'
          <=> Cache(variant)!PrecisionAgrees(job[p].slot, job[p].precision)
    BY <2>1, <2>2 DEF Cache!PrecisionAgrees
  <2>7. to \in {"snapshot", "failed"} OBVIOUS
  <2> HIDE DEF to
  <2> QED BY <2>1, <2>2, <2>4, <2>5, <2>6, <2>7 DEF Known, Identified, Taking
<1> HIDE DEF to
<1> QED BY <1>1, <1>2, <1>3, <1>7, <1>8, <1>9, ProceedKeeps

LEMMA SnapshotKeeps ==
    ASSUME Cache(variant)!CacheAssumption, CacheInv, NEW p \in Caches[variant].procs,
           Cache(variant)!Snapshot(p)
    PROVE  CacheInv'
<1> DEFINE f == onnx[job[p].slot].graph
           to == IF Cache(variant)!Present(job[p].slot) THEN "engine_file" ELSE "failed"
           new == [job[p] EXCEPT !.taken = f]
<1>1. Cache(variant)!Proceed(p, "snapshot", to, new) /\ pc[p] = "snapshot"
  BY DEF Cache!Snapshot, Cache!ReadsGraph, Cache!Proceed
<1>2. /\ "snapshot" \in Resolving /\ "snapshot" \in Looking
      /\ "snapshot" \in Resolving \ {"engine_side"}
  BY DEF Resolving, Looking
<1>3. job[p] \in Queries /\ ~job[p].built /\ job[p].slot \in Cache(variant)!Slot
    /\ f \in Cache(variant)!File
  BY <1>1, <1>2, AtStage
<1>6. /\ new \in Queries /\ new.taken = f /\ new.slot = job[p].slot /\ new.built = job[p].built
      /\ new.fp = job[p].fp /\ new.precision = job[p].precision
  BY <1>3, Notes
<1>7. to \in Stages \ {"engine_side", "graph_side"} /\ to \notin Exporting
  BY DEF Stages, Resolving, Looking, Taking, Exporting
<1>8. to # "no_onnx" OBVIOUS
<1>10. to \in Taking => new.taken \in Cache(variant)!Artifact
  BY <1>3, <1>6 DEF Taking, Cache!Present, Cache!File
<1>9. p \in calm => Known(p)'
  <2>1. pc'[p] = to /\ job'[p] = new
    BY <1>1 DEF Cache!Proceed, Cache!Goto, CacheInv, CacheTypes
  <2>2. UNCHANGED <<publisher, onnx>>
    BY <1>1 DEF Cache!Proceed, Cache!files
  <2>4. p \in calm => /\ publisher \in {Nothing, p} /\ Identified(p)
                      /\ Cache(variant)!PrecisionAgrees(job[p].slot, job[p].precision)
    BY <1>1 DEF CacheInv, Known
  <2>3. /\ p \in calm => new.fp = <<onnx[new.slot].graph, onnx[new.slot].side>>
        /\ new.taken = onnx[new.slot].graph
    BY <1>6, <2>4 DEF Identified
  <2>5. p \in calm => Cache(variant)!PrecisionAgrees(new.slot, new.precision)
    BY <1>6, <2>4
  <2>6. to \in {"engine_file", "failed"} OBVIOUS
  <2> HIDE DEF new, to
  <2>7. Cache(variant)!PrecisionAgrees(job[p].slot, job[p].precision)'
          <=> Cache(variant)!PrecisionAgrees(new.slot, new.precision)
    BY <2>1, <2>2 DEF Cache!PrecisionAgrees
  <2> QED BY <2>1, <2>2, <2>3, <2>4, <2>5, <2>6, <2>7 DEF Known, Identified, Taking
<1> HIDE DEF new, to
<1> QED BY <1>1, <1>2, <1>3, <1>6, <1>7, <1>8, <1>9, <1>10, ProceedKeeps

------------------------------
(* The engine cache: commands that start *)

\* The stages and the jobs stay well matched when those of one command change.
LEMMA TypesKept ==
    ASSUME CacheTypes, NEW p \in Caches[variant].procs, NEW to \in Stages,
           NEW new \in Queries \cup Exports \cup {Cache(variant)!NoJob},
           pc' = [pc EXCEPT ![p] = to], job' = [job EXCEPT ![p] = new],
           to \in Resolving => new \in Queries /\ ~new.built,
           to \in Exporting => new \in Exports,
           to \in Looking => new.slot \in Cache(variant)!Slot,
           to = "no_onnx" => new.slot = Nothing,
           to \in Taking => new.taken \in Cache(variant)!Artifact,
           onnx' \in [Cache(variant)!Slot -> [graph : Cache(variant)!File,
                                              side : Cache(variant)!File]],
           engines' \subseteq Entries, publisher' \in Caches[variant].procs \cup {Nothing},
             calm' \subseteq Caches[variant].procs
    PROVE  /\ CacheTypes' /\ pc'[p] = to /\ job'[p] = new
           /\ \A q \in Caches[variant].procs \ {p} : pc'[q] = pc[q] /\ job'[q] = job[q]
<1>1. /\ pc'[p] = to /\ job'[p] = new
      /\ \A q \in Caches[variant].procs \ {p} : pc'[q] = pc[q] /\ job'[q] = job[q]
      /\ pc' \in [Caches[variant].procs -> Stages]
      /\ job' \in [Caches[variant].procs -> Queries \cup Exports \cup {Cache(variant)!NoJob}]
  BY DEF CacheTypes
<1>2. JobStaged(p)' BY <1>1 DEF JobStaged
<1>3. \A q \in Caches[variant].procs \ {p} : JobStaged(q)'
  BY <1>1 DEF CacheTypes, JobStaged
<1>4. \A q \in Caches[variant].procs : JobStaged(q)' BY <1>2, <1>3
<1> QED BY <1>1, <1>4 DEF CacheTypes

LEMMA BeginKeeps ==
    ASSUME Cache(variant)!CacheAssumption, CacheInv, NEW p \in Caches[variant].procs,
           NEW new \in Queries \cup Exports,
           NEW label \in {"find", "graph_file"}, Cache(variant)!Begin(p, new, label),
           label = "find" => new \in Queries /\ ~new.built,
           label = "graph_file" => new \in Exports
    PROVE  CacheInv'
<1>1. /\ CacheTypes /\ EntriesFit /\ LockHeld /\ pc[p] \in {"idle", "done", "failed"}
      /\ pc' = [pc EXCEPT ![p] = label] /\ job' = [job EXCEPT ![p] = new]
      /\ UNCHANGED <<onnx, engines, publisher>>
      /\ calm' = IF publisher = Nothing THEN calm \cup {p} ELSE calm \ {p}
  BY DEF CacheInv, Cache!Begin, Cache!Goto, Cache!files
<1>2. /\ label \in Stages /\ label \notin Looking /\ label \notin Taking /\ label # "no_onnx"
      /\ label \in Resolving => label = "find"
      /\ label \in Exporting => label = "graph_file"
      /\ label \notin {"engine_side", "graph_side"}
  BY DEF Stages, Resolving, Exporting, Looking, Taking
<1>3. /\ calm' \subseteq Caches[variant].procs /\ engines' \subseteq Entries
         /\ publisher' \in Caches[variant].procs \cup {Nothing}
      /\ onnx' \in [Cache(variant)!Slot -> [graph : Cache(variant)!File,
                                            side : Cache(variant)!File]]
  BY <1>1 DEF CacheTypes
<1>4. /\ CacheTypes' /\ pc'[p] = label /\ job'[p] = new
      /\ \A q \in Caches[variant].procs \ {p} : pc'[q] = pc[q] /\ job'[q] = job[q]
  BY <1>1, <1>2, <1>3, TypesKept
<1>5. \A e : Cache(variant)!Replaced(e) => Cache(variant)!Replaced(e)'
  BY <1>1, <1>4, ZenonT(60) DEF Cache!Replaced, Cache!NameOf
<1>6. EntriesFit' BY <1>1, <1>5 DEF EntriesFit, Whole
<1>7. LockHeld' BY <1>1, <1>2, <1>4 DEF LockHeld
<1>8. ASSUME NEW q \in calm' PROVE Known(q)'
  <2>1. CASE q = p
    <3>1. publisher' = Nothing BY <1>1, <1>8, <2>1
    <3> QED BY <1>4, <2>1, <3>1 DEF Known, Taking
  <2>2. CASE q # p
    <3>1. q \in Caches[variant].procs /\ Known(q) /\ publisher \in {Nothing, q}
      BY <1>1, <1>8, <2>2 DEF CacheInv, CacheTypes, Known
    <3> QED BY <1>1, <1>4, <2>2, <3>1, KnownKept
  <2> QED BY <2>1, <2>2
<1> QED BY <1>4, <1>6, <1>7, <1>8 DEF CacheInv

LEMMA StartKeeps ==
    ASSUME Cache(variant)!CacheAssumption, CacheInv, NEW p \in Caches[variant].procs,
           Cache(variant)!Resolve(p) \/ Cache(variant)!Build(p) \/ Cache(variant)!Export(p)
    PROVE  CacheInv'
<1>1. \A cmd \in {"predict", "info", "build"}, precision \in Cache(variant)!Precision,
    profile \in Caches[variant].profiles :
        LET new == Cache(variant)!NewJob(cmd, precision, profile) IN new \in Queries /\ ~new.built
  BY DEF Cache!NewJob, Queries, Cache!File
<1>2. CASE Cache(variant)!Resolve(p)
  <2>1. PICK cmd \in Cache(variant)!Resolvers, precision \in Cache(variant)!Precision :
          Cache(variant)!Begin(p, Cache(variant)!NewJob(cmd, precision, DefaultProfile), "find")
    BY <1>2 DEF Cache!Resolve
  <2>2. PICK new \in Queries : ~new.built /\ Cache(variant)!Begin(p, new, "find")
    BY <1>1, <2>1 DEF Cache!Resolvers, Cache!CacheAssumption
  <2> QED BY <2>2, BeginKeeps
<1>3. CASE Cache(variant)!Build(p)
  <2>1. PICK precision \in Cache(variant)!Precision, profile \in Caches[variant].profiles :
          Cache(variant)!Begin(p, Cache(variant)!NewJob("build", precision, profile), "find")
    BY <1>3 DEF Cache!Build
  <2>2. PICK new \in Queries : ~new.built /\ Cache(variant)!Begin(p, new, "find")
    BY <1>1, <2>1
  <2> QED BY <2>2, BeginKeeps
<1>4. CASE Cache(variant)!Export(p)
  <2>1. PICK kind \in Cache(variant)!Kind, c \in Caches[variant].checkpoints :
          Cache(variant)!Begin(p, [cmd |-> "export", kind |-> kind, ckpt |-> c,
                          art |-> [ckpt |-> c, kind |-> "fp32"]], "graph_file")
    BY <1>4 DEF Cache!Export, Cache!Recipes
  <2>2. [cmd |-> "export", kind |-> kind, ckpt |-> c, art |-> [ckpt |-> c, kind |-> "fp32"]]
      \in Exports
    BY DEF Exports, Cache!Artifact, Cache!Kind
  <2>3. PICK new \in Exports : Cache(variant)!Begin(p, new, "graph_file")
    BY <2>1, <2>2
  <2> QED BY <2>3, BeginKeeps
<1> QED BY <1>2, <1>3, <1>4

------------------------------
(* The engine cache: the two files of an engine *)

\* A file lands under its name, in place of the one that was there.
LEMMA FilesOne ==
    ASSUME engines \subseteq Entries, \A e, f \in engines : e.name = f.name => e = f,
           NEW c \in Entries, Cache(variant)!Files(c)
    PROVE  /\ engines' \subseteq Entries /\ c \in engines'
           /\ \A e, f \in engines' : e.name = f.name => e = f
           /\ \A e \in engines' : e = c \/ (e \in engines /\ e.name # c.name)
<1>1. engines' = (engines \ Cache(variant)!Named(c.name)) \cup {c}
  BY DEF Cache!Files
<1>2. \A e \in engines' : e = c \/ (e \in engines /\ e.name # c.name)
  BY <1>1 DEF Cache!Named
<1>3. \A e, f \in engines' : e.name = f.name => e = f BY <1>2
<1> QED BY <1>1, <1>2, <1>3

\* While nobody publishes, every engine has its own facts.
LEMMA AllWhole ==
    ASSUME CacheInv
    PROVE  /\ \A e \in engines : Whole(e) \/ publisher \in Caches[variant].procs
           /\ \A e \in engines, p \in Caches[variant].procs :
                 publisher = p => Whole(e)
                   \/ (pc[p] = "engine_side" /\ e.name = Cache(variant)!NameOf(p))
<1>1. \A e \in engines : Whole(e) \/ Cache(variant)!Replaced(e)
  BY DEF CacheInv, EntriesFit
<1>2. \A p \in Caches[variant].procs : pc[p] = "engine_side" => publisher = p
  BY DEF CacheInv, LockHeld
<1> QED BY <1>1, <1>2 DEF Cache!Replaced

LEMMA EntryFits ==
    ASSUME CacheTypes, NEW p \in Caches[variant].procs, job[p] \in Queries,
           job[p].taken \in Cache(variant)!Artifact,
           Cache(variant)!CacheAssumption,
           NEW facts \in [sha : Cache(variant)!Artifact, max : Nat] \cup {Nothing}
    PROVE  LET e == Cache(variant)!Entry(p, facts) IN
           /\ e \in Entries /\ e.name = Cache(variant)!NameOf(p) /\ e.facts = facts
           /\ e.source = job[p].taken /\ e.max = job[p].profile.max
           /\ e.name.fp = job[p].fp /\ e.name.profile = job[p].profile
<1>1. /\ job[p].precision \in Cache(variant)!Precision
         /\ job[p].fp \in Cache(variant)!File \X Cache(variant)!File
      /\ job[p].profile \in Caches[variant].profiles
  BY DEF Queries
<1>2. job[p].profile.max \in Nat BY <1>1 DEF Cache!CacheAssumption
<1>3. Cache(variant)!NameOf(p) \in Cache(variant)!Name
  BY <1>1 DEF Cache!NameOf, Cache!Name
<1>4. Cache(variant)!NameOf(p).fp = job[p].fp /\ Cache(variant)!NameOf(p).profile = job[p].profile
  BY DEF Cache!NameOf
<1> QED BY <1>2, <1>3, <1>4 DEF Cache!Entry, Entries

LEMMA PublishEngineKeeps ==
    ASSUME Cache(variant)!CacheAssumption, CacheInv, NEW p \in Caches[variant].procs,
           Cache(variant)!PublishEngine(p)
    PROVE  CacheInv'
<1>1. /\ CacheTypes /\ EntriesFit /\ LockHeld /\ pc[p] = "engine_file"
      /\ pc' = [pc EXCEPT ![p] = "engine_side"] /\ UNCHANGED <<onnx, job>>
      /\ publisher = Nothing /\ publisher' = p /\ calm' = calm \cap {p}
  BY DEF CacheInv, Cache!PublishEngine, Cache!Goto, Cache!Locks, Cache!Writes
<1>2. pc[p] \in Resolving /\ pc[p] \in Looking /\ pc[p] \in Taking
  BY <1>1 DEF Resolving, Looking, Taking
<1>3. /\ job[p] \in Queries /\ ~job[p].built /\ job[p].slot \in Cache(variant)!Slot
      /\ job[p].taken \in Cache(variant)!Artifact
  BY <1>2, AtStage
<1>4. PICK facts \in [sha : Cache(variant)!Artifact, max : Nat] \cup {Nothing} :
        Cache(variant)!Files(Cache(variant)!Entry(p, facts))
  <2>1. \A e \in engines : e.facts \in [sha : Cache(variant)!Artifact, max : Nat] \cup {Nothing}
    BY <1>1 DEF CacheTypes, Entries
  <2> QED BY <2>1 DEF Cache!PublishEngine, Cache!Named
<1>5. PICK c \in Entries :
        /\ Cache(variant)!Files(c) /\ c.name = Cache(variant)!NameOf(p)
           /\ c.max = job[p].profile.max
        /\ c.name.profile = job[p].profile
  BY <1>1, <1>3, <1>4, EntryFits
<1>6. /\ engines' \subseteq Entries /\ c \in engines'
      /\ \A e, f \in engines' : e.name = f.name => e = f
      /\ \A e \in engines' : e = c \/ (e \in engines /\ e.name # c.name)
  BY <1>1, <1>5, FilesOne DEF CacheTypes, EntriesFit
<1>7. "engine_side" \in Stages /\ "engine_side" \notin Exporting /\ "engine_side" # "no_onnx"
  BY DEF Stages, Resolving, Looking, Taking, Exporting
<1>8. job' = [job EXCEPT ![p] = job[p]] BY <1>1 DEF CacheTypes
<1>9. /\ calm' \subseteq Caches[variant].procs
         /\ publisher' \in Caches[variant].procs \cup {Nothing}
      /\ onnx' \in [Cache(variant)!Slot -> [graph : Cache(variant)!File,
                                            side : Cache(variant)!File]]
      /\ job[p] \in Queries \cup Exports \cup {Cache(variant)!NoJob}
  BY <1>1, <1>3 DEF CacheTypes
<1>10. /\ CacheTypes' /\ pc'[p] = "engine_side"
       /\ \A q \in Caches[variant].procs \ {p} : pc'[q] = pc[q]
  <2>1. CacheTypes /\ pc' = [pc EXCEPT ![p] = "engine_side"] /\ engines' \subseteq Entries
    BY <1>1, <1>6
  <2>2. /\ "engine_side" \in Resolving => job[p] \in Queries /\ ~job[p].built
        /\ "engine_side" \in Exporting => job[p] \in Exports
        /\ "engine_side" \in Looking => job[p].slot \in Cache(variant)!Slot
        /\ "engine_side" = "no_onnx" => job[p].slot = Nothing
        /\ "engine_side" \in Taking => job[p].taken \in Cache(variant)!Artifact
    BY <1>3, <1>7
  <2> QED BY <1>7, <1>8, <1>9, <2>1, <2>2, TypesKept
<1>11. EntriesFit'
  <2>1. \A e \in engines : Whole(e)
    BY <1>1, AllWhole DEF Cache!CacheAssumption
  <2>2. Cache(variant)!NameOf(p)' = Cache(variant)!NameOf(p)
    BY <1>1 DEF Cache!NameOf
  <2>3. Cache(variant)!Replaced(c)'
    BY <1>5, <1>10, <2>2 DEF Cache!Replaced
  <2>4. \A e \in engines' : Whole(e) \/ Cache(variant)!Replaced(e)'
    BY <1>6, <2>1, <2>3
  <2>5. ~RenamesProfile => \A e \in engines' : e.max = e.name.profile.max
    BY <1>1, <1>5, <1>6 DEF EntriesFit
  <2> QED BY <1>6, <2>4, <2>5 DEF EntriesFit, Whole
<1>12. LockHeld' BY <1>1, <1>10 DEF LockHeld, Cache!CacheAssumption
<1>13. ASSUME NEW q \in calm' PROVE Known(q)'
  <2>1. q = p /\ p \in calm BY <1>1, <1>13
  <2>2. /\ Identified(p) /\ Cache(variant)!PrecisionAgrees(job[p].slot, job[p].precision)
        /\ job[p].taken = onnx[job[p].slot].graph
    BY <1>1, <1>2, <2>1 DEF CacheInv, Known
  <2>3. /\ Identified(p)' /\ Cache(variant)!PrecisionAgrees(job[p].slot, job[p].precision)'
        /\ job'[p].taken = onnx'[job'[p].slot].graph
    BY <1>1, <2>2 DEF Identified, Cache!PrecisionAgrees
  <2> QED BY <1>1, <1>10, <2>1, <2>3 DEF Known
<1> QED BY <1>10, <1>11, <1>12, <1>13 DEF CacheInv

LEMMA PublishFactsKeeps ==
    ASSUME Cache(variant)!CacheAssumption, CacheInv, NEW p \in Caches[variant].procs,
           Cache(variant)!PublishFacts(p)
    PROVE  CacheInv'
<1>1. /\ CacheTypes /\ EntriesFit /\ LockHeld /\ pc[p] = "engine_side"
      /\ pc' = [pc EXCEPT ![p] = "done"] /\ UNCHANGED onnx
      /\ publisher = p /\ publisher' = Nothing /\ calm' = calm \cap {p}
  BY DEF CacheInv, Cache!PublishFacts, Cache!Goto, Cache!Unlocks, Cache!Writes
<1>2. pc[p] \in Resolving /\ pc[p] \in Looking /\ pc[p] \in Taking
  BY <1>1 DEF Resolving, Looking, Taking
<1>3. /\ job[p] \in Queries /\ ~job[p].built /\ job[p].slot \in Cache(variant)!Slot
      /\ job[p].taken \in Cache(variant)!Artifact /\ job[p].profile.max \in Nat
  BY <1>2, AtStage DEF Queries, Cache!CacheAssumption
<1> DEFINE facts == [sha |-> job[p].taken, max |-> job[p].profile.max]
<1>4. /\ facts \in [sha : Cache(variant)!Artifact, max : Nat] \cup {Nothing}
      /\ facts.sha = job[p].taken /\ facts.max = job[p].profile.max
  BY <1>3
<1>5. /\ Cache(variant)!Files(Cache(variant)!Entry(p, facts))
      /\ job' = [job EXCEPT ![p].result = Cache(variant)!Entry(p, facts), ![p].built = TRUE]
  BY DEF Cache!PublishFacts, Cache!RecordedSource
<1> HIDE DEF facts
<1>6. PICK c \in Entries :
        /\ c = Cache(variant)!Entry(p, facts)
        /\ c.name = Cache(variant)!NameOf(p) /\ c.max = job[p].profile.max /\ c.facts = facts
        /\ c.name.profile = job[p].profile /\ c.name.fp = job[p].fp /\ c.source = job[p].taken
  BY <1>1, <1>3, <1>4, EntryFits
<1>7. Cache(variant)!Files(c) /\ job' = [job EXCEPT ![p].result = c, ![p].built = TRUE]
  BY <1>5, <1>6
<1>8. Whole(c) BY <1>4, <1>6 DEF Whole
<1>9. /\ engines' \subseteq Entries /\ c \in engines'
      /\ \A e, f \in engines' : e.name = f.name => e = f
      /\ \A e \in engines' : e = c \/ (e \in engines /\ e.name # c.name)
  BY <1>1, <1>7, FilesOne DEF CacheTypes, EntriesFit
<1>10. PICK new \in Queries :
         /\ new = [job[p] EXCEPT !.result = c, !.built = TRUE]
         /\ new.result = c /\ new.built /\ new.fp = job[p].fp /\ new.slot = job[p].slot
         /\ new.precision = job[p].precision
  <2>1. PICK j \in Queries : j = job[p] BY <1>3
  <2>2. /\ [j EXCEPT !.result = c, !.built = TRUE] \in Queries
        /\ [j EXCEPT !.result = c, !.built = TRUE].result = c
        /\ [j EXCEPT !.result = c, !.built = TRUE].built
        /\ [j EXCEPT !.result = c, !.built = TRUE].fp = j.fp
        /\ [j EXCEPT !.result = c, !.built = TRUE].slot = j.slot
        /\ [j EXCEPT !.result = c, !.built = TRUE].precision = j.precision
    BY DEF Queries
  <2> QED BY <2>1, <2>2
<1>11. job' = [job EXCEPT ![p] = new]
  BY <1>1, <1>7, <1>10 DEF CacheTypes
<1>12. "done" \in Stages /\ "done" \notin Exporting /\ "done" \notin Resolving
    /\ "done" \notin Looking
       /\ "done" \notin Taking /\ "done" # "no_onnx"
  BY DEF Stages, Resolving, Looking, Taking, Exporting
<1>13. /\ calm' \subseteq Caches[variant].procs
          /\ publisher' \in Caches[variant].procs \cup {Nothing}
       /\ onnx' \in [Cache(variant)!Slot -> [graph : Cache(variant)!File,
                                             side : Cache(variant)!File]]
       /\ new \in Queries \cup Exports \cup {Cache(variant)!NoJob}
  BY <1>1 DEF CacheTypes
<1>14. /\ CacheTypes' /\ pc'[p] = "done" /\ job'[p] = new
       /\ \A q \in Caches[variant].procs \ {p} : pc'[q] = pc[q]
  BY <1>1, <1>9, <1>11, <1>12, <1>13, TypesKept, ZenonT(60)
<1>15. EntriesFit'
  <2>1. \A e \in engines : e.name # c.name => Whole(e)
    BY <1>1, <1>6, AllWhole
  <2>2. \A e \in engines' : Whole(e) BY <1>8, <1>9, <2>1
  <2>3. ~RenamesProfile => \A e \in engines' : e.max = e.name.profile.max
    BY <1>1, <1>6, <1>9 DEF EntriesFit
  <2> QED BY <1>9, <2>2, <2>3 DEF EntriesFit, Whole
<1>16. LockHeld' BY <1>1, <1>14 DEF LockHeld, Cache!CacheAssumption
<1>17. ASSUME NEW q \in calm' PROVE Known(q)'
  <2>1. q = p /\ p \in calm BY <1>1, <1>17
  <2>2. /\ Identified(p) /\ Cache(variant)!PrecisionAgrees(job[p].slot, job[p].precision)
        /\ job[p].taken = onnx[job[p].slot].graph
    BY <1>1, <1>2, <2>1 DEF CacheInv, Known
  <2>3. /\ new.result \in engines'
        /\ new.result.name.fp = <<onnx[new.slot].graph, onnx[new.slot].side>>
        /\ new.result.source = onnx[new.slot].graph
        /\ Whole(new.result)
        /\ Cache(variant)!PrecisionAgrees(new.slot, new.precision)
    BY <1>6, <1>8, <1>9, <1>10, <2>2 DEF Identified
  <2>4. Whole(job[p].result)' /\ Cache(variant)!PrecisionAgrees(job[p].slot, job[p].precision)'
    BY <1>1, <1>14, <2>3 DEF Whole, Cache!PrecisionAgrees
  <2> QED BY <1>1, <1>10, <1>12, <1>14, <2>1, <2>3, <2>4, ZenonT(60) DEF Known
<1> QED BY <1>14, <1>15, <1>16, <1>17 DEF CacheInv

------------------------------
(* The engine cache: exports *)

LEMMA ExportStage ==
    ASSUME CacheInv, NEW p \in Caches[variant].procs, pc[p] \in Exporting
    PROVE  /\ job[p] \in Exports /\ job[p].art \in Cache(variant)!Artifact
              /\ job[p].kind \in Cache(variant)!Kind
           /\ Cache(variant)!ExportSlot(job[p].art.kind) \in Cache(variant)!Slot
<1>1. job[p] \in Exports BY DEF CacheInv, CacheTypes, JobStaged
<1>2. job[p].art \in Cache(variant)!Artifact /\ job[p].kind \in Cache(variant)!Kind
  BY <1>1 DEF Exports
<1>3. Cache(variant)!ExportSlot(job[p].art.kind) \in Cache(variant)!Slot
  BY DEF Cache!ExportSlot, Cache!Slot
<1> QED BY <1>1, <1>2, <1>3

\* Whatever an exporter writes, the engines are the same.
LEMMA ExporterKeeps ==
    ASSUME Cache(variant)!CacheAssumption, CacheInv, NEW p \in Caches[variant].procs,
           pc[p] \in Exporting,
           NEW to \in Exporting \cup {"done", "failed"}, NEW new \in Exports,
           pc' = [pc EXCEPT ![p] = to], job' = [job EXCEPT ![p] = new],
           onnx' \in [Cache(variant)!Slot -> [graph : Cache(variant)!File,
                                              side : Cache(variant)!File]],
           UNCHANGED engines, publisher' \in {p, Nothing, publisher},
           publisher' = publisher => to # "graph_side" /\ pc[p] # "graph_side",
           publisher' # publisher
             => (IF to = "graph_side" THEN publisher = Nothing /\ publisher' = p
                                     ELSE publisher = p /\ publisher' = Nothing),
           calm' = calm \cap {p} \/ UNCHANGED <<calm, onnx, publisher>>
    PROVE  CacheInv'
<1>1. CacheTypes /\ EntriesFit /\ LockHeld BY DEF CacheInv
<1>2. /\ to \in Stages /\ to \notin Resolving /\ to \notin Looking /\ to \notin Taking
      /\ to # "no_onnx" /\ to # "engine_side" /\ pc[p] # "engine_side"
  BY DEF Stages, Resolving, Looking, Taking, Exporting
<1>3. /\ calm' \subseteq Caches[variant].procs /\ engines' \subseteq Entries
         /\ publisher' \in Caches[variant].procs \cup {Nothing}
      /\ new \in Queries \cup Exports \cup {Cache(variant)!NoJob}
  BY <1>1 DEF CacheTypes
<1>4. /\ CacheTypes' /\ pc'[p] = to /\ job'[p] = new
      /\ \A q \in Caches[variant].procs \ {p} : pc'[q] = pc[q] /\ job'[q] = job[q]
  BY <1>1, <1>2, <1>3, TypesKept
<1>5. \A e : Cache(variant)!Replaced(e) => Cache(variant)!Replaced(e)'
  BY <1>2, <1>4 DEF Cache!Replaced, Cache!NameOf
<1>6. EntriesFit' BY <1>1, <1>5 DEF EntriesFit, Whole
<1>7. LockHeld'
  <2>1. CASE publisher' = publisher
    BY <1>1, <1>2, <1>4, <2>1 DEF LockHeld
  <2>2. CASE publisher' # publisher /\ to = "graph_side"
    BY <1>1, <1>2, <1>4, <2>2 DEF LockHeld, Cache!CacheAssumption
  <2>3. CASE publisher' # publisher /\ to # "graph_side"
    BY <1>1, <1>2, <1>4, <2>3 DEF LockHeld, Cache!CacheAssumption
  <2> QED BY <2>1, <2>2, <2>3
<1>8. \A j \in Exports : j \notin Queries BY JobKinds
<1>9. ASSUME NEW q \in calm' PROVE Known(q)'
  <2>1. q \in Caches[variant].procs /\ q \in calm BY <1>3, <1>9
  <2>2. Known(q) /\ publisher \in {Nothing, q}
    BY <2>1 DEF CacheInv, Known
  <2>3. CASE q = p
    <3>1. publisher' \in {Nothing, p} BY <2>2, <2>3
    <3>2. job'[p] \notin Queries BY <1>4, <1>8
    <3>3. /\ pc'[p] \notin {"fp_side", "sha", "scan", "check", "snapshot"} /\ pc'[p] \notin Taking
      BY <1>2, <1>4 DEF Looking
    <3> QED BY <2>3, <3>1, <3>2, <3>3 DEF Known
  <2>4. CASE q # p
    <3>1. UNCHANGED <<onnx, engines, publisher>> BY <1>9, <2>4
    <3> QED BY <1>4, <2>1, <2>2, <2>4, <3>1, KnownKept
  <2> QED BY <2>3, <2>4
<1> QED BY <1>4, <1>6, <1>7, <1>9 DEF CacheInv

LEMMA ExportsKeep ==
    ASSUME Cache(variant)!CacheAssumption, CacheInv, NEW p \in Caches[variant].procs,
           Cache(variant)!PublishGraph(p) \/ Cache(variant)!PublishSide(p)
             \/ Cache(variant)!Convert(p)
    PROVE  CacheInv'
<1>1. /\ "graph_file" \in Exporting /\ "graph_side" \in Exporting /\ "convert" \in Exporting
      /\ CacheTypes /\ LockHeld
  BY DEF Exporting, CacheInv
<1>2. \A s \in Cache(variant)!Slot, f \in Cache(variant)!File :
        /\ [onnx EXCEPT ![s].graph = f]
           \in [Cache(variant)!Slot -> [graph : Cache(variant)!File, side : Cache(variant)!File]]
        /\ [onnx EXCEPT ![s].side = f]
           \in [Cache(variant)!Slot -> [graph : Cache(variant)!File, side : Cache(variant)!File]]
  <2>1. \A r \in [graph : Cache(variant)!File, side : Cache(variant)!File],
      f \in Cache(variant)!File :
          /\ [r EXCEPT !.graph = f] \in [graph : Cache(variant)!File, side : Cache(variant)!File]
          /\ [r EXCEPT !.side = f] \in [graph : Cache(variant)!File, side : Cache(variant)!File]
    OBVIOUS
  <2> QED BY <1>1, <2>1 DEF CacheTypes
<1>3. Cache(variant)!Artifact \subseteq Cache(variant)!File
  BY DEF Cache!File
<1>4. CASE Cache(variant)!PublishGraph(p)
  <2>1. /\ pc[p] = "graph_file" /\ pc' = [pc EXCEPT ![p] = "graph_side"]
        /\ publisher = Nothing /\ publisher' = p /\ calm' = calm \cap {p}
        /\ onnx' = [onnx EXCEPT ![Cache(variant)!ExportSlot(job[p].art.kind)].graph = job[p].art]
        /\ UNCHANGED <<engines, job>>
    BY <1>4 DEF Cache!PublishGraph, Cache!Goto, Cache!Locks, Cache!Writes
  <2>2. /\ job[p] \in Exports /\ job[p].art \in Cache(variant)!Artifact
        /\ Cache(variant)!ExportSlot(job[p].art.kind) \in Cache(variant)!Slot
    BY <1>1, <2>1, ExportStage
  <2>3. onnx' \in [Cache(variant)!Slot -> [graph : Cache(variant)!File, side : Cache(variant)!File]]
    BY <1>2, <1>3, <2>1, <2>2
  <2>4. job' = [job EXCEPT ![p] = job[p]] BY <1>1, <2>1 DEF CacheTypes
  <2>5. publisher' # publisher BY <2>1 DEF Cache!CacheAssumption
  <2> QED BY <1>1, <2>1, <2>2, <2>3, <2>4, <2>5, ExporterKeeps
<1>5. CASE Cache(variant)!PublishSide(p)
  <2> DEFINE to == IF job[p].art.kind = job[p].kind THEN "done" ELSE "convert"
  <2>1. /\ pc[p] = "graph_side" /\ pc' = [pc EXCEPT ![p] = to]
        /\ publisher = p /\ publisher' = Nothing /\ calm' = calm \cap {p}
        /\ onnx' = [onnx EXCEPT ![Cache(variant)!ExportSlot(job[p].art.kind)].side = job[p].art]
        /\ UNCHANGED <<engines, job>>
    BY <1>5 DEF Cache!PublishSide, Cache!Goto, Cache!Unlocks, Cache!Writes
  <2>2. /\ job[p] \in Exports /\ job[p].art \in Cache(variant)!Artifact
        /\ Cache(variant)!ExportSlot(job[p].art.kind) \in Cache(variant)!Slot
    BY <1>1, <2>1, ExportStage
  <2>3. onnx' \in [Cache(variant)!Slot -> [graph : Cache(variant)!File, side : Cache(variant)!File]]
    BY <1>2, <1>3, <2>1, <2>2
  <2>4. job' = [job EXCEPT ![p] = job[p]] BY <1>1, <2>1 DEF CacheTypes
  <2>5. publisher' # publisher BY <2>1 DEF Cache!CacheAssumption
  <2>6. to \in Exporting \cup {"done", "failed"} /\ to # "graph_side"
    BY <1>1
  <2> HIDE DEF to
  <2> QED BY <1>1, <2>1, <2>2, <2>3, <2>4, <2>5, <2>6, ExporterKeeps
<1>6. CASE Cache(variant)!Convert(p)
  <2> DEFINE to == IF Cache(variant)!Present("") THEN "graph_file" ELSE "failed"
  <2>1. /\ pc[p] = "convert" /\ pc' = [pc EXCEPT ![p] = to]
        /\ job' = IF ~Cache(variant)!Present("") THEN job
                  ELSE [job EXCEPT ![p].art = [ckpt |-> onnx[""].graph.ckpt, kind |-> job[p].kind]]
        /\ UNCHANGED <<onnx, engines, publisher, calm>>
    BY <1>6 DEF Cache!Convert, Cache!Goto, Cache!files
  <2>2. job[p] \in Exports /\ job[p].kind \in Cache(variant)!Kind
    BY <1>1, <2>1, ExportStage
  <2>3. PICK new \in Exports : job' = [job EXCEPT ![p] = new]
    <3>1. CASE ~Cache(variant)!Present("")
      <4>1. job' = [job EXCEPT ![p] = job[p]]
        BY <1>1, <2>1, <3>1 DEF CacheTypes
      <4> QED BY <2>2, <4>1
    <3>2. CASE Cache(variant)!Present("")
      <4>1. onnx[""].graph \in Cache(variant)!Artifact
        BY <1>1, <3>2 DEF CacheTypes, Cache!Slot, Cache!File, Cache!Present
      <4>2. [ckpt |-> onnx[""].graph.ckpt, kind |-> job[p].kind] \in Cache(variant)!Artifact
        BY <2>2, <4>1 DEF Cache!Artifact
      <4>3. PICK a \in Cache(variant)!Artifact :
          a = [ckpt |-> onnx[""].graph.ckpt, kind |-> job[p].kind]
        BY <4>2
      <4>4. [job[p] EXCEPT !.art = a] \in Exports BY <2>2 DEF Exports
      <4>5. job' = [job EXCEPT ![p].art = a] BY <2>1, <3>2, <4>3
      <4>6. job' = [job EXCEPT ![p] = [job[p] EXCEPT !.art = a]] BY <4>5
      <4> QED BY <4>4, <4>6
    <3> QED BY <3>1, <3>2
  <2>4. to \in Exporting \cup {"done", "failed"} /\ to # "graph_side"
    BY <1>1
  <2>5. onnx' \in [Cache(variant)!Slot -> [graph : Cache(variant)!File, side : Cache(variant)!File]]
    BY <1>1, <2>1 DEF CacheTypes
  <2> HIDE DEF to
  <2> QED BY <1>1, <2>1, <2>3, <2>4, <2>5, ExporterKeeps
<1> QED BY <1>4, <1>5, <1>6

------------------------------
(* The engine cache: the user *)

LEMMA EditsKeep ==
    ASSUME Cache(variant)!CacheAssumption, CacheInv, Cache(variant)!PlaceOnnx
      \/ Cache(variant)!CopyEngine
    PROVE  CacheInv'
<1>1. /\ CacheTypes /\ EntriesFit /\ LockHeld
      /\ UNCHANGED <<publisher, pc, job>> /\ calm' = calm \cap {Nothing}
  BY DEF CacheInv, Cache!PlaceOnnx, Cache!CopyEngine, Cache!Edits, Cache!Writes
<1>2. calm' = {} BY <1>1 DEF CacheTypes, Cache!CacheAssumption
<1>3. \A p \in Caches[variant].procs : JobStaged(p)'
  BY <1>1 DEF CacheTypes, JobStaged
<1>4. \A e : Cache(variant)!Replaced(e)' <=> Cache(variant)!Replaced(e)
  BY <1>1 DEF Cache!Replaced, Cache!NameOf
<1>5. LockHeld' BY <1>1 DEF LockHeld
<1>6. CASE Cache(variant)!PlaceOnnx
  <2>1. UNCHANGED engines BY <1>6 DEF Cache!PlaceOnnx
  <2>2. PICK s \in Cache(variant)!Slot,
      r \in [graph : Cache(variant)!File, side : Cache(variant)!File] :
        onnx' = [onnx EXCEPT ![s] = r]
    BY <1>6 DEF Cache!PlaceOnnx, Cache!CacheAssumption, Cache!File
  <2>3. CacheTypes' BY <1>1, <1>2, <1>3, <2>1, <2>2 DEF CacheTypes
  <2>4. EntriesFit' BY <1>1, <1>4, <2>1 DEF EntriesFit, Whole
  <2> QED BY <1>2, <1>5, <2>3, <2>4 DEF CacheInv
<1>7. CASE Cache(variant)!CopyEngine
  <2>1. PICK e \in engines, f \in engines, profile \in Caches[variant].profiles,
      beside \in BOOLEAN :
          /\ RenamesProfile \/ profile = e.name.profile
          /\ beside => ~ Cache(variant)!Replaced(e)
          /\ Cache(variant)!Files([e EXCEPT !.name = [f.name EXCEPT !.profile = profile],
                                   !.facts = IF beside THEN @ ELSE Nothing])
          /\ UNCHANGED onnx
    BY <1>7 DEF Cache!CopyEngine
  <2>2. /\ engines \subseteq Entries /\ \A a, b \in engines : a.name = b.name => a = b
        /\ \A a \in engines : Whole(a) \/ Cache(variant)!Replaced(a)
        /\ ~RenamesProfile => \A a \in engines : a.max = a.name.profile.max
    BY <1>1 DEF CacheTypes, EntriesFit
  <2>3. e \in Entries /\ f \in Entries /\ f.name \in Cache(variant)!Name
    BY <2>2 DEF Entries
  <2> DEFINE named == [f.name EXCEPT !.profile = profile]
  <2>4. named \in Cache(variant)!Name /\ named.profile = profile
    BY <2>3 DEF Cache!Name
  <2>5. PICK facts \in [sha : Cache(variant)!Artifact, max : Nat] \cup {Nothing} :
          facts = IF beside THEN e.facts ELSE Nothing
    BY <2>3 DEF Entries
  <2> DEFINE c == [e EXCEPT !.name = named, !.facts = facts]
  <2>7. Cache(variant)!Files(c) BY <2>1, <2>3, <2>5 DEF Entries
  <2> HIDE DEF named
  <2>6. c \in Entries /\ c.name = named /\ c.facts = facts /\ c.source = e.source /\ c.max = e.max
    BY <2>3, <2>4 DEF Entries
  <2> HIDE DEF c
  <2>8. /\ engines' \subseteq Entries
        /\ \A a, b \in engines' : a.name = b.name => a = b
        /\ \A a \in engines' : a = c \/ (a \in engines /\ a.name # c.name)
    BY <2>2, <2>6, <2>7, FilesOne
  <2>9. CacheTypes' BY <1>1, <1>2, <1>3, <2>1, <2>8 DEF CacheTypes
  <2>10. Whole(c)
    <3>1. CASE beside BY <2>1, <2>2, <2>5, <2>6, <3>1 DEF Whole
    <3>2. CASE ~beside BY <2>5, <2>6, <3>2 DEF Whole
    <3> QED BY <3>1, <3>2
  <2>11. ~RenamesProfile => c.max = c.name.profile.max
    <3>1. ~RenamesProfile => profile = e.name.profile /\ e.max = e.name.profile.max
      BY <2>1, <2>2
    <3> QED BY <2>4, <2>6, <3>1
  <2>12. EntriesFit'
    <3>1. \A a \in engines' : Whole(a) \/ Cache(variant)!Replaced(a)'
      BY <1>4, <2>2, <2>8, <2>10
    <3>2. ~RenamesProfile => \A a \in engines' : a.max = a.name.profile.max
      BY <2>2, <2>8, <2>11
    <3> QED BY <2>8, <3>1, <3>2 DEF EntriesFit, Whole
  <2> QED BY <1>2, <1>5, <2>9, <2>12 DEF CacheInv
<1> QED BY <1>6, <1>7

------------------------------
(* The engine cache: what the invariant shows *)

LEMMA CacheInitially ==
    ASSUME Cache(variant)!CacheAssumption, Cache(variant)!Init
    PROVE  CacheInv
<1> USE DEF Cache!Init
<1>1. CacheTypes
  BY DEF CacheTypes, JobStaged, Stages, Cache!File, Resolving, Looking, Taking, Exporting
<1>2. EntriesFit BY DEF EntriesFit
<1>3. LockHeld BY DEF LockHeld, Cache!CacheAssumption
<1>4. calm = {} OBVIOUS
<1> QED BY <1>1, <1>2, <1>3, <1>4 DEF CacheInv

LEMMA CacheStep ==
    ASSUME Cache(variant)!CacheAssumption, CacheInv, Cache(variant)!Next
    PROVE  CacheInv'
<1>1. \/ \E p \in Caches[variant].procs : Cache(variant)!Resolve(p) \/ Cache(variant)!Build(p)
         \/ Cache(variant)!Export(p) \/ Cache(variant)!Step(p)
      \/ Cache(variant)!PlaceOnnx \/ Cache(variant)!CopyEngine
  BY DEF Cache!Next
<1>2. ASSUME NEW p \in Caches[variant].procs, Cache(variant)!Step(p) PROVE CacheInv'
  <2>1. CASE Cache(variant)!FindOnnx(p) BY <2>1, FindOnnxKeeps
  <2>2. CASE Cache(variant)!FingerprintGraph(p)
    BY <2>2, FingerprintGraphKeeps
  <2>3. CASE Cache(variant)!FingerprintSide(p)
    BY <2>3, FingerprintSideKeeps
  <2>4. CASE Cache(variant)!HashOnnx(p) BY <2>4, HashOnnxKeeps
  <2>5. CASE Cache(variant)!Pick(p) BY <2>5, PickKeeps
  <2>6. CASE Cache(variant)!Miss(p) BY <2>6, MissKeeps
  <2>7. CASE Cache(variant)!PickUnverified(p)
    BY <2>7, PickUnverifiedKeeps
  <2>8. CASE Cache(variant)!CheckPrecision(p)
    BY <2>8, CheckPrecisionKeeps
  <2>9. CASE Cache(variant)!Snapshot(p) BY <2>9, SnapshotKeeps
  <2>10. CASE Cache(variant)!PublishEngine(p)
    BY <2>10, PublishEngineKeeps
  <2>11. CASE Cache(variant)!PublishFacts(p) BY <2>11, PublishFactsKeeps
  <2>12. CASE Cache(variant)!PublishGraph(p) \/ Cache(variant)!PublishSide(p)
      \/ Cache(variant)!Convert(p)
    BY <2>12, ExportsKeep
  <2> QED
    BY <1>2, <2>1, <2>2, <2>3, <2>4, <2>5, <2>6, <2>7, <2>8, <2>9, <2>10, <2>11, <2>12
      DEF Cache!Step
<1> QED BY <1>1, <1>2, StartKeeps, EditsKeep

LEMMA CacheIdle ==
    ASSUME CacheInv, UNCHANGED Cache(variant)!vars
    PROVE  CacheInv'
<1>1. UNCHANGED <<onnx, engines, publisher, pc, job, calm>>
  BY DEF Cache!vars
<1>2. \A p \in Caches[variant].procs : JobStaged(p)'
  BY <1>1 DEF CacheInv, CacheTypes, JobStaged
<1>3. CacheTypes' BY <1>1, <1>2 DEF CacheInv, CacheTypes
<1>4. \A e : Cache(variant)!Replaced(e)' <=> Cache(variant)!Replaced(e)
  BY <1>1 DEF Cache!Replaced, Cache!NameOf
<1>5. EntriesFit' BY <1>1, <1>4 DEF CacheInv, EntriesFit, Whole
<1>6. LockHeld' BY <1>1 DEF CacheInv, LockHeld
<1>7. ASSUME NEW p \in calm' PROVE Known(p)'
  <2>1. p \in Caches[variant].procs /\ Known(p) /\ publisher \in {Nothing, p}
    BY <1>1, <1>7 DEF CacheInv, CacheTypes, Known
  <2> QED BY <1>1, <2>1, KnownKept
<1> QED BY <1>3, <1>5, <1>6, <1>7 DEF CacheInv

LEMMA CacheTyped ==
    ASSUME CacheInv
    PROVE  Cache(variant)!TypeOK /\ Cache(variant)!LockIsPassing
<1>1. CacheTypes /\ EntriesFit /\ LockHeld BY DEF CacheInv
<1>2. ASSUME NEW e \in engines
      PROVE  /\ e.name \in Cache(variant)!Name /\ e.source \in Cache(variant)!Artifact
                /\ e.max \in Nat
             /\ e.facts = Nothing \/ e.facts \in [sha : Cache(variant)!Artifact, max : Nat]
             /\ \A f \in Cache(variant)!Named(e.name) : e = f
  <2>1. e \in Entries /\ \A f \in engines : e.name = f.name => e = f
    BY <1>1 DEF CacheTypes, EntriesFit
  <2> QED BY <2>1 DEF Entries, Cache!Named
<1>3. Cache(variant)!TypeOK BY <1>1, <1>2 DEF Cache!TypeOK, CacheTypes
<1>4. Cache(variant)!LockIsPassing
  BY <1>1 DEF Cache!LockIsPassing, LockHeld, CacheTypes
<1> QED BY <1>3, <1>4

\* The job of a command that ended with an engine for an ONNX.
LEMMA ResolvedJob ==
    ASSUME CacheInv, NEW p \in calm, Cache(variant)!Resolved(p)
    PROVE  /\ job[p] \in Queries /\ p \in Caches[variant].procs /\ publisher = Nothing
           /\ IF job[p].built
              THEN /\ job[p].result \in engines
                   /\ job[p].result.name.fp = <<onnx[job[p].slot].graph, onnx[job[p].slot].side>>
                   /\ job[p].result.source = onnx[job[p].slot].graph
                   /\ Whole(job[p].result)
                   /\ Cache(variant)!PrecisionAgrees(job[p].slot, job[p].precision)
              ELSE job[p].sha = onnx[job[p].slot].graph
                /\ job[p].result \in Cache(variant)!Choice(p)
<1>1. /\ p \in Caches[variant].procs /\ pc[p] = "done" /\ job[p].slot # Nothing
      /\ job[p].cmd \in {"predict", "info", "build"}
  BY DEF Cache!Resolved, Cache!Resolvers, CacheInv, CacheTypes
<1>2. job[p] \in Queries \cup Exports \cup {Cache(variant)!NoJob}
  BY <1>1 DEF CacheInv, CacheTypes
<1>3. job[p] \in Queries
  <2>1. job[p] \notin Exports BY <1>1 DEF Exports
  <2>2. job[p] # Cache(variant)!NoJob BY <1>1 DEF Cache!NoJob
  <2> QED BY <1>2, <2>1, <2>2
<1>4. Known(p) /\ LockHeld /\ publisher \in {Nothing, p}
  BY DEF CacheInv, Known
<1>5. publisher # p BY <1>1, <1>4 DEF LockHeld
<1> QED BY <1>1, <1>3, <1>4, <1>5 DEF Known

LEMMA CacheShows ==
    ASSUME Cache(variant)!CacheAssumption, CacheInv
    PROVE  Cache(variant)!Reverified /\ Cache(variant)!BuiltIsFound
      /\ Cache(variant)!PrecisionHonest
<1>1. ASSUME NEW p \in calm, Cache(variant)!Resolved(p)
      PROVE  job[p].result.facts = Nothing \/ job[p].result.source = onnx[job[p].slot].graph
  <2>1. CASE job[p].built BY <1>1, <2>1, ResolvedJob
  <2>2. CASE ~job[p].built
    <3>1. /\ publisher = Nothing /\ job[p].sha = onnx[job[p].slot].graph
          /\ job[p].result \in Cache(variant)!Choice(p)
      BY <1>1, <2>2, ResolvedJob
    <3>2. job[p].result \in engines /\ ~Cache(variant)!Foreign(job[p].result, job[p].sha)
      BY <3>1 DEF Cache!Choice, Cache!Others, Cache!Largest
    <3>3. Whole(job[p].result)
      BY <3>1, <3>2, AllWhole DEF Cache!CacheAssumption
    <3> QED BY <3>1, <3>2, <3>3 DEF Cache!Foreign, Whole
  <2> QED BY <2>1, <2>2
<1>2. ASSUME NEW p \in calm, Cache(variant)!Resolved(p), job[p].built
      PROVE  /\ job[p].result \in engines
             /\ job[p].result.name.fp = <<onnx[job[p].slot].graph, onnx[job[p].slot].side>>
             /\ ~Cache(variant)!Foreign(job[p].result, onnx[job[p].slot].graph)
  BY <1>2, ResolvedJob DEF Cache!Foreign, Whole
<1>3. ASSUME NEW p \in calm, Cache(variant)!Resolved(p), job[p].built,
             onnx[job[p].slot].side = onnx[job[p].slot].graph
      PROVE  Cache(variant)!PrecisionOf(job[p].result.source.kind) = job[p].precision
  <2>1. /\ job[p].result.source = onnx[job[p].slot].graph /\ job[p].result \in engines
        /\ Cache(variant)!PrecisionAgrees(job[p].slot, job[p].precision)
    BY <1>3, ResolvedJob
  <2>2. onnx[job[p].slot].side # Nothing
    BY <1>3, <2>1 DEF CacheInv, CacheTypes, Entries, Cache!CacheAssumption
  <2> QED BY <1>3, <2>1, <2>2 DEF Cache!PrecisionAgrees
<1> QED BY <1>1, <1>2, <1>3 DEF Cache!Reverified, Cache!BuiltIsFound, Cache!PrecisionHonest

LEMMA CacheServes ==
    ASSUME Cache(variant)!CacheAssumption, CacheInv, ~RenamesProfile
    PROVE  Cache(variant)!ServesIfAny
<1>1. SUFFICES ASSUME NEW p \in calm, Cache(variant)!Resolved(p), ~job[p].built,
                      NEW e \in Cache(variant)!Others(p), e.facts # Nothing,
                        job[p].result.facts # Nothing,
                      job[p].profile.max <= e.facts.max
               PROVE  job[p].profile.max <= job[p].result.max
  BY DEF Cache!ServesIfAny
<1>2. job[p] \in Queries /\ publisher = Nothing /\ job[p].result \in Cache(variant)!Choice(p)
  BY <1>1, ResolvedJob
<1>3. PICK r \in engines : r = job[p].result /\ r \in Cache(variant)!Others(p)
  BY <1>2 DEF Cache!Choice, Cache!Others, Cache!Largest
<1>4. r \in Entries /\ e \in Entries /\ Whole(r)
  BY <1>2, AllWhole DEF Cache!CacheAssumption, CacheInv, CacheTypes, Cache!Others
<1>5. r.max = r.name.profile.max BY <1>3 DEF CacheInv, EntriesFit
<1>6. /\ job[p].profile.max \in Nat /\ r.max \in Nat /\ e.facts.max \in Nat /\ r.facts.max = r.max
      /\ job[p].profile \in Caches[variant].profiles
  <2>1. job[p].profile \in Caches[variant].profiles BY <1>2 DEF Queries
  <2>2. r.max \in Nat /\ e.facts.max \in Nat BY <1>1, <1>4 DEF Entries
  <2>3. r.facts.max = r.max BY <1>1, <1>3, <1>4 DEF Whole
  <2> QED BY <2>1, <2>2, <2>3 DEF Cache!CacheAssumption
<1>7. CASE r \in Cache(variant)!Named(Cache(variant)!NameOf(p))
  <2>1. r.name.profile = job[p].profile
    BY <1>7 DEF Cache!Named, Cache!NameOf
  <2> QED BY <1>3, <1>5, <1>6, <2>1
<1>8. CASE r \notin Cache(variant)!Named(Cache(variant)!NameOf(p))
  <2>1. r \in Cache(variant)!Largest(Cache(variant)!Others(p))
    BY <1>2, <1>3, <1>8 DEF Cache!Choice
  <2>2. Cache(variant)!ProfileMax(e) <= Cache(variant)!ProfileMax(r)
    BY <1>1, <2>1 DEF Cache!Largest
  <2>3. Cache(variant)!ProfileMax(e) = e.facts.max /\ Cache(variant)!ProfileMax(r) = r.max
    BY <1>1, <1>3, <1>6 DEF Cache!ProfileMax
  <2> QED BY <1>1, <1>3, <1>6, <2>2, <2>3
<1> QED BY <1>7, <1>8

LEMMA CacheKept == Cache(variant)!CacheAssumption => (Cache(variant)!Spec => []CacheInv)
<1> SUFFICES ASSUME Cache(variant)!CacheAssumption
             PROVE  Cache(variant)!Spec => []CacheInv
  OBVIOUS
<1>1. Cache(variant)!Init => CacheInv BY CacheInitially
<1>2. CacheInv /\ [Cache(variant)!Next]_(Cache(variant)!vars) => CacheInv'
  BY CacheStep, CacheIdle
<1> QED BY <1>1, <1>2, PTL DEF Cache!Spec

\* Any number of commands that race in one cache, and a user who places ONNX files and copies
\* engines: a command nobody wrote under ends with an engine of the ONNX that it found, what it
\* built is what the next one looks up and has the precision of its name, the lock is held only
\* between the two files of a pair and, while nobody renames an engine to another profile, an
\* engine large enough is chosen when there is one (_resolve_engine, _build_engine).
THEOREM EnginesAreOfTheirOnnx == BuildersSpec /\ program = variant => []EngineOfItsOnnx
<1>1. CASE variant \in DOMAIN Caches
  <2>1. Cache(variant)!CacheAssumption BY <1>1, PartsAssumption
  <2>2. CacheInv /\ program = variant => EngineOfItsOnnx
    BY <2>1, CacheTyped, CacheShows, CacheServes DEF EngineOfItsOnnx
  <2> QED BY <1>1, <2>1, <2>2, CacheRuns, CacheKept, ProgramStays, PTL
<1>2. CASE variant \notin DOMAIN Caches
  <2>1. program = variant => EngineOfItsOnnx BY <1>2 DEF EngineOfItsOnnx
  <2> QED BY <2>1, ProgramStays, PTL
<1> QED BY <1>1, <1>2

------------------------------
(* Sidecar names: types, and the names of two engines *)

Phases == {"publish", "parse", "engine", "place", "meta", "twin"}
Plans == [model : Checkpoint, max : Batches]
BesideJobs ==
    [at : Phases, src : Onnx, out : Engine, max : Batches, meta_out : Beside!Stem,
     meta : Beside!Contents \cup {Nothing}, model : Checkpoint, backup : Plans \cup {Nothing},
     was : BOOLEAN]

OfGraph(m) == Beside!Sidecar("onnx", m, Shape[m], 32)

Building(p) == job[p].at # "idle"
Placing(p) == job[p].at \in {"meta", "twin"}
Holding(p) == job[p].at \in {"place", "meta", "twin"}

JobTyped(p) ==
    /\ job[p] \in BesideJobs
    /\ job[p].meta_out \in Beside!Names(job[p].out) \ {job[p].src}
    /\ job[p].meta # Nothing => job[p].meta.kind = "onnx"
    /\ job[p].at = "publish" => job[p].meta_out = Beside!Chosen(job[p].src, job[p].out)
    /\ onnx[job[p].src] \in Checkpoint

BesideTypes ==
    /\ onnx \in [Onnx -> Checkpoint \cup {Nothing}]
    /\ json \in [Beside!Stem -> Beside!Contents \cup {Nothing}]
    /\ engine \in [Engine -> Plans \cup {Nothing}]
    /\ job \in [Proc -> BesideJobs \cup {Beside!Idle}]
    /\ \A p \in Proc : job[p] = Beside!Idle \/ JobTyped(p)
    /\ intruded \subseteq Proc /\ disturbed \subseteq Engine
    /\ commands \in 0 .. MaxBuilds
    /\ \A s \in Beside!Stem : json[s] # Nothing /\ json[s].kind = "onnx" =>
           s \in Onnx /\ onnx[s] \in Checkpoint /\ json[s] = OfGraph(onnx[s])

LEMMA NameFacts ==
    /\ \A e \in Engine :
          /\ Beside!SameStem(e) # Beside!Appended(e)
          /\ Beside!Names(e) = {Beside!SameStem(e), Beside!Appended(e)}
          /\ Beside!Names(e) \subseteq Beside!Stem
    /\ \A e, f \in Engine : e # f => Beside!Names(e) \cap Beside!Names(f) = {}
    /\ Onnx \subseteq Beside!Stem
<1>1. ASSUME NEW e \in Engine
      PROVE  /\ Beside!SameStem(e) # Beside!Appended(e)
             /\ Beside!Names(e) = {Beside!SameStem(e), Beside!Appended(e)}
             /\ Beside!Names(e) \subseteq Beside!Stem
  BY <1>1 DEF Beside!SameStem, Beside!Appended, Beside!Names, Beside!Stem
<1>2. ASSUME NEW e \in Engine, NEW f \in Engine, e # f
      PROVE  Beside!Names(e) \cap Beside!Names(f) = {}
  <2>1. <<e>> # <<f>> /\ <<e>> # <<f, "engine">> /\ <<e, "engine">> # <<f>>
        /\ <<e, "engine">> # <<f, "engine">>
    BY <1>2
  <2> QED BY <2>1 DEF Beside!SameStem, Beside!Appended, Beside!Names
<1>3. Onnx \subseteq Beside!Stem BY DEF Beside!Stem
<1> QED BY <1>1, <1>2, <1>3

\* The name that is chosen, and the one that would shadow or be shadowed by it.
LEMMA ChosenFacts ==
    ASSUME NEW s, NEW e \in Engine
    PROVE  /\ Beside!Chosen(s, e) \in Beside!Names(e) \ {s}
           /\ s \notin Beside!StaleTwin(s, e)
           /\ Beside!StaleTwin(s, e) = Beside!Names(e) \ {s, Beside!Chosen(s, e)}
BY NameFacts DEF Beside!Chosen, Beside!StaleTwin, Beside!Usable

LEMMA JobTypes ==
    ASSUME BesideTypes, NEW p \in Proc, Building(p)
    PROVE  /\ JobTyped(p) /\ job[p] \in BesideJobs
           /\ job[p].src \in Onnx /\ job[p].out \in Engine /\ job[p].max \in Batches
           /\ job[p].model \in Checkpoint /\ job[p].src \in Beside!Stem
           /\ job[p].meta \in Beside!Contents \cup {Nothing}
           /\ job[p].meta_out \in Beside!Stem
           /\ job[p].backup \in Plans \cup {Nothing}
<1>1. JobTyped(p) BY DEF BesideTypes, Building, Beside!Idle
<1>2. job[p] \in BesideJobs BY <1>1 DEF JobTyped
<1> QED BY <1>1, <1>2, NameFacts DEF BesideJobs

LEMMA WrittenTypes ==
    ASSUME Beside!SidecarAssumption, BesideTypes, NEW p \in Proc, Building(p)
    PROVE  /\ Beside!Written(p) \in Beside!Contents /\ Beside!Written(p) # Nothing
           /\ Beside!Written(p).kind = "engine"
           /\ Beside!Plan(p) \in Plans
<1> DEFINE m == job[p].meta
<1>1. m \in Beside!Contents \cup {Nothing} /\ job[p].model \in Checkpoint /\ job[p].max \in Batches
  BY JobTypes
<1>2. Shape \in [Checkpoint -> Nat] /\ Batches \subseteq Nat \ {0} /\ Nothing \notin Beside!Contents
  BY DEF Beside!SidecarAssumption
<1> DEFINE label == IF m = Nothing THEN Nothing ELSE m.labels
           dims == IF m = Nothing THEN Shape[job[p].model] ELSE m.shape
<1>3. label \in Checkpoint \cup {Nothing} /\ dims \in Nat
  BY <1>1, <1>2 DEF Beside!Contents
<1>4. Beside!Written(p) = [kind |-> "engine", labels |-> label, shape |-> dims, max |-> job[p].max]
  BY DEF Beside!Written, Beside!Sidecar
<1> HIDE DEF label, dims
<1>5. Beside!Written(p) \in Beside!Contents /\ Beside!Written(p).kind = "engine"
  <2>1. job[p].max \in Nat \ {0} BY <1>1, <1>2
  <2>2. Beside!Written(p).kind = "engine" BY <1>4
  <2> QED BY <1>3, <1>4, <2>1, <2>2 DEF Beside!Contents
<1>6. Beside!Plan(p) \in Plans BY <1>1 DEF Beside!Plan, Plans
<1> QED BY <1>2, <1>5, <1>6

------------------------------
(* Sidecar names: what the runtime makes of an engine and the sidecar it finds *)

\* A plan and a sidecar that go together: the runtime takes them, with the right labels.
Fits(plan, text) ==
    plan # Nothing /\ text # Nothing =>
        /\ text.shape = Shape[plan.model]
        /\ text.kind = "engine" => text.max = plan.max
        /\ text.labels \in {plan.model, Nothing}

LEMMA FitsIsLoaded ==
    ASSUME NEW e \in Engine, Fits(engine[e], Beside!Discovered(e)), engine[e] # Nothing
    PROVE  ~Beside!Refused(e) /\ Beside!LoadedLabels(e) \in {engine[e].model, Nothing}
BY DEF Fits, Beside!Refused, Beside!LoadedLabels

\* What a builder nobody was in the way of knows, and has written.
Matches(p) ==
    /\ job[p].meta = Nothing \/ job[p].meta = OfGraph(job[p].model)
    /\ job[p].at = "parse" => job[p].model = onnx[job[p].src]
    /\ job[p].src \in Beside!Names(job[p].out) => json[job[p].src] = job[p].meta
    /\ Placing(p) => engine[job[p].out] = Beside!Plan(p)
    /\ job[p].at = "twin" => json[job[p].meta_out] = Beside!Written(p)
    /\ job[p].at = "place" => engine[job[p].out] = job[p].backup
    /\ job[p].at \in {"place", "meta"} /\ ~job[p].was =>
           Fits(job[p].backup, Beside!Discovered(job[p].out))

BesideInv ==
    /\ BesideTypes
    /\ \A p \in Proc : Placing(p) => job[p].out \in disturbed
    /\ \A p \in Proc \ intruded : Building(p) => Matches(p)
    /\ \A e \in Engine \ disturbed : Fits(engine[e], Beside!Discovered(e))

\* What an undisturbed builder writes goes with its plan, and so does the sidecar of its source.
LEMMA WrittenFits ==
    ASSUME Beside!SidecarAssumption, BesideTypes, NEW p \in Proc, Building(p), Matches(p)
    PROVE  Fits(Beside!Plan(p), Beside!Written(p)) /\ Fits(Beside!Plan(p), job[p].meta)
<1>1. job[p].meta = Nothing \/ job[p].meta = OfGraph(job[p].model)
  BY DEF Matches
<1> DEFINE m == job[p].model
           text == [kind |-> "onnx", labels |-> m, shape |-> Shape[m], max |-> 32]
           w1 == [kind |-> "engine", labels |-> Nothing, shape |-> Shape[m], max |-> job[p].max]
           w2 == [kind |-> "engine", labels |-> m, shape |-> Shape[m], max |-> job[p].max]
<1>2. Beside!Plan(p) = [model |-> m, max |-> job[p].max] /\ OfGraph(m) = text
  BY DEF Beside!Plan, OfGraph, Beside!Sidecar
<1>3. CASE job[p].meta = Nothing
  <2>1. Beside!Written(p) = w1
    BY <1>3 DEF Beside!Written, Beside!Sidecar
  <2> QED BY <1>2, <1>3, <2>1 DEF Fits
<1>4. CASE job[p].meta # Nothing
  <2>1. job[p].meta = text BY <1>1, <1>2, <1>4
  <2>2. Beside!Written(p) = w2
    BY <1>4, <2>1 DEF Beside!Written, Beside!Sidecar
  <2> QED BY <1>2, <2>1, <2>2 DEF Fits
<1> QED BY <1>3, <1>4

\* A builder whose step it is not, where nobody is in its way.
LEMMA MatchesKept ==
    ASSUME BesideInv, NEW p \in Proc, Building(p), p \notin intruded, job'[p] = job[p],
           job[p].at = "parse" => onnx'[job[p].src] = onnx[job[p].src],
           Holding(p) => engine'[job[p].out] = engine[job[p].out],
           \A s \in Beside!Names(job[p].out) :
               Holding(p) \/ s = job[p].src => json'[s] = json[s]
    PROVE  Matches(p)'
<1>1. Matches(p) BY DEF BesideInv
<1>2. BesideTypes /\ JobTyped(p) /\ job[p].out \in Engine
  BY JobTypes DEF BesideInv
<1>3. job[p].meta_out \in Beside!Names(job[p].out) BY <1>2 DEF JobTyped
<1>4. Placing(p)' = Placing(p) /\ (Placing(p) => Holding(p))
  BY DEF Placing, Holding
<1>5. Holding(p) => Beside!Discovered(job[p].out)' = Beside!Discovered(job[p].out)
  BY <1>2, NameFacts DEF Beside!Discovered
<1>6. Beside!Plan(p)' = Beside!Plan(p) /\ Beside!Written(p)' = Beside!Written(p)
  BY DEF Beside!Plan, Beside!Written, Beside!Sidecar
<1> QED BY <1>1, <1>3, <1>4, <1>5, <1>6 DEF Matches, Placing, Holding, OfGraph, Fits, Beside!Sidecar

\* p goes on to new past its start, and writes under the names S of its engine e only.
Framed(p, e, new, S) ==
    /\ Building(p) /\ job' = [job EXCEPT ![p] = new] /\ UNCHANGED <<onnx, commands>>
    /\ \/ new = Beside!Idle
       \/ /\ new \in BesideJobs /\ new.at # "publish" /\ new.src = job[p].src
          /\ new.out = job[p].out /\ new.meta_out = job[p].meta_out
          /\ new.meta = job[p].meta
    /\ e \in Engine /\ e = job[p].out /\ S \in SUBSET Beside!Names(e)
    /\ json' \in [Beside!Stem -> Beside!Contents \cup {Nothing}]
    /\ \A s \in Beside!Stem \ S : json'[s] = json[s]
    /\ \A s \in S : json'[s] \in {Beside!Written(p), Nothing}
    /\ Beside!Overtaken(S) \ {p} \subseteq intruded'
    /\ engine' \in [Engine -> Plans \cup {Nothing}]
    /\ \A f \in Engine \ {e} : engine'[f] = engine[f]
    /\ (UNCHANGED engine) \/ Beside!Others(p) \cup Beside!Holders(p) \subseteq intruded'
    /\ intruded \subseteq intruded' /\ intruded' \subseteq Proc
    /\ disturbed' \subseteq Engine /\ disturbed \ {e} \subseteq disturbed'
    /\ e \in disturbed' \/ e \notin disturbed \/ Beside!Others(p) = {}
    /\ Building(p)' /\ p \notin intruded' => Matches(p)'
    /\ Placing(p)' => e \in disturbed'
    /\ e \notin disturbed' => Fits(engine'[e], Beside!Discovered(e)')

LEMMA BuilderFrame ==
    ASSUME Beside!SidecarAssumption, BesideInv, NEW p \in Proc, NEW e, NEW new, NEW S,
           Framed(p, e, new, S)
    PROVE  BesideInv'
<1> USE DEF Framed
<1>1. BesideTypes /\ JobTyped(p) /\ job[p].src \in Onnx
  BY JobTypes DEF BesideInv
<1>2. job'[p] = new /\ \A q \in Proc \ {p} : job'[q] = job[q]
  BY <1>1 DEF BesideTypes
<1>3. BesideTypes'
  <2>1. job' \in [Proc -> BesideJobs \cup {Beside!Idle}]
    BY <1>1 DEF BesideTypes
  <2>2. ASSUME NEW q \in Proc PROVE job'[q] = Beside!Idle \/ JobTyped(q)'
    <3>1. CASE q = p BY <1>1, <1>2, <3>1 DEF JobTyped
    <3>2. CASE q # p BY <1>1, <1>2, <3>2 DEF BesideTypes, JobTyped
    <3> QED BY <3>1, <3>2
  <2>3. ASSUME NEW s \in Beside!Stem, json'[s] # Nothing, json'[s].kind = "onnx"
        PROVE  s \in Onnx /\ onnx'[s] \in Checkpoint /\ json'[s] = OfGraph(onnx'[s])
    <3>1. json'[s] = json[s]
      <4>1. Beside!Written(p).kind = "engine" BY <1>1, WrittenTypes
      <4> QED BY <2>3, <4>1
    <3> QED BY <1>1, <2>3, <3>1 DEF BesideTypes
  <2> QED BY <1>1, <2>1, <2>2, <2>3 DEF BesideTypes, OfGraph
<1>4. ASSUME NEW q \in Proc, Placing(q)' PROVE job'[q].out \in disturbed'
  <2>1. CASE q = p
    <3>1. new.out = e BY <1>2, <1>4, <2>1 DEF Placing, Beside!Idle
    <3> QED BY <1>2, <1>4, <2>1, <3>1
  <2>2. CASE q # p
    <3>1. job'[q] = job[q] /\ Placing(q) /\ job[q].out \in disturbed
      BY <1>2, <1>4, <2>2 DEF BesideInv, Placing
    <3>2. job[q].out = e => q \in Beside!Others(p)
      BY <2>2, <3>1 DEF Placing, Beside!Others
    <3> QED BY <3>1, <3>2
  <2> QED BY <2>1, <2>2
<1>5. ASSUME NEW q \in Proc, q \notin intruded', Building(q)' PROVE Matches(q)'
  <2>1. CASE q = p BY <1>5, <2>1
  <2>2. CASE q # p
    <3>1. job'[q] = job[q] /\ Building(q) /\ q \notin intruded
      BY <1>2, <1>5, <2>2 DEF Building
    <3>2. JobTyped(q) /\ job[q].out \in Engine BY <1>1, <3>1, JobTypes
    <3>3. Holding(q) => engine'[job[q].out] = engine[job[q].out]
      <4>1. Holding(q) /\ job[q].out = e => q \in Beside!Others(p) \cup Beside!Holders(p)
        BY <2>2 DEF Holding, Beside!Others, Beside!Holders
      <4> QED BY <1>5, <3>2, <4>1
    <3>4. ASSUME NEW s \in Beside!Names(job[q].out), Holding(q) \/ s = job[q].src
          PROVE  json'[s] = json[s]
      <4>1. s \in S => q \in Beside!Overtaken(S)
        BY <3>1, <3>4 DEF Holding, Building, Beside!Overtaken
      <4>2. s \in Beside!Stem BY <3>2, NameFacts
      <4> QED BY <1>5, <2>2, <4>1, <4>2
    <3> QED BY <3>1, <3>3, <3>4, MatchesKept
  <2> QED BY <2>1, <2>2
<1>6. ASSUME NEW f \in Engine \ disturbed' PROVE Fits(engine'[f], Beside!Discovered(f)')
  <2>1. CASE f = e BY <1>6, <2>1
  <2>2. CASE f # e
    <3>1. f \notin disturbed /\ engine'[f] = engine[f] BY <1>6, <2>2
    <3>2. Beside!Names(f) \cap S = {} /\ Beside!Names(f) \subseteq Beside!Stem
      BY <2>2, NameFacts
    <3>3. Beside!Discovered(f)' = Beside!Discovered(f)
      BY <3>2, NameFacts DEF Beside!Discovered
    <3> QED BY <3>1, <3>3 DEF BesideInv
  <2> QED BY <2>1, <2>2
<1> QED BY <1>3, <1>4, <1>5, <1>6 DEF BesideInv, Fits

LEMMA NobodyOvertaken == Beside!Overtaken({}) = {}
BY DEF Beside!Overtaken

LEMMA PublishesPython ==
    ASSUME Beside!SidecarAssumption, BesideInv, NEW p \in Proc, Beside!PublishPython(p)
    PROVE  BesideInv' /\ json'[job[p].src] = json[job[p].src]
<1>0. Building(p) /\ BesideTypes
  BY DEF BesideInv, Beside!PublishPython, Building
<1>16. PICK e \in Engine : e = job[p].out BY <1>0, JobTypes
<1> DEFINE s == job[p].src
           w == Beside!Written(p)
           S == Beside!StaleTwin(s, e) \cup {job[p].meta_out}
<1>1. /\ BesideTypes /\ Building(p) /\ job[p].at = "publish"
      /\ engine' = [engine EXCEPT ![e] = Beside!Plan(p)]
      /\ json' = [n \in Beside!Stem |-> IF n = job[p].meta_out THEN w
                                        ELSE IF n \in Beside!StaleTwin(s, e) THEN Nothing
                                          ELSE json[n]]
      /\ job' = [job EXCEPT ![p] = Beside!Idle] /\ UNCHANGED <<onnx, commands>>
  BY <1>16 DEF BesideInv, Beside!PublishPython, Building
<1>2. intruded' = intruded \cup Beside!Others(p) \cup Beside!Holders(p)
                          \cup (Beside!Overtaken(S) \ {p})
  BY <1>16 DEF Beside!PublishPython, Beside!Intrudes
<1>3. \/ Beside!Undisturbed(p) /\ disturbed' = disturbed \ {e}
      \/ disturbed' = disturbed \cup {e}
  BY <1>16 DEF Beside!PublishPython, Beside!Settles
<1>4. /\ JobTyped(p) /\ s \in Onnx /\ e \in Engine /\ s \in Beside!Stem
      /\ job[p].meta_out = Beside!Chosen(s, e) /\ job[p].meta_out \in Beside!Stem
  BY <1>1, <1>16, JobTypes DEF JobTyped
<1>5. w \in Beside!Contents /\ w # Nothing /\ Beside!Plan(p) \in Plans
  BY <1>1, WrittenTypes
<1>6. /\ S \subseteq Beside!Names(e) /\ s \notin S
      /\ Beside!StaleTwin(s, e) = Beside!Names(e) \ {s, Beside!Chosen(s, e)}
  BY <1>4, ChosenFacts
<1>7. /\ json' \in [Beside!Stem -> Beside!Contents \cup {Nothing}]
      /\ \A n \in Beside!Stem \ S : json'[n] = json[n]
      /\ \A n \in S : json'[n] \in {w, Nothing}
  BY <1>1, <1>4, <1>5, <1>6, NameFacts DEF BesideTypes
<1>8. /\ engine' \in [Engine -> Plans \cup {Nothing}] /\ engine'[e] = Beside!Plan(p)
      /\ \A f \in Engine \ {e} : engine'[f] = engine[f]
  BY <1>1, <1>4, <1>5 DEF BesideTypes
<1>9. intruded' \subseteq Proc /\ disturbed' \subseteq Engine
  BY <1>1, <1>2, <1>3, <1>4 DEF BesideTypes, Beside!Others, Beside!Holders, Beside!Overtaken
<1>10. ~Building(p)' /\ ~Placing(p)'
  BY <1>1 DEF BesideTypes, Building, Placing, Beside!Idle
<1>11. ASSUME e \notin disturbed' PROVE Fits(engine'[e], Beside!Discovered(e)')
  <2>1. Beside!Undisturbed(p) BY <1>3, <1>11
  <2>2. Matches(p) BY <1>1, <2>1 DEF BesideInv, Beside!Undisturbed
  <2>3. Fits(Beside!Plan(p), w) /\ Fits(Beside!Plan(p), job[p].meta)
    BY <1>1, <2>2, WrittenFits
  <2>4. json'[Beside!Chosen(s, e)] = w BY <1>1, <1>4
  <2>5. s \in Beside!Names(e) => json'[s] = job[p].meta
    BY <1>4, <1>6, <1>7, <2>2, <1>16 DEF Matches
  <2>6. Beside!Discovered(e)' \in {w, job[p].meta}
    <3> DEFINE same == Beside!SameStem(e)
               app == Beside!Appended(e)
    <3>1. /\ same # app /\ Beside!Names(e) = {same, app}
          /\ same \in Beside!Stem /\ app \in Beside!Stem
      BY <1>4, NameFacts
    <3>2. Beside!Discovered(e)' = IF json'[app] # Nothing THEN json'[app] ELSE json'[same]
      BY DEF Beside!Discovered
    <3>3. CASE s = app
      <4>1. Beside!Chosen(s, e) = same
        BY <3>1, <3>3 DEF Beside!Chosen, Beside!Usable
      <4> QED BY <2>4, <2>5, <3>1, <3>2, <3>3, <4>1
    <3>4. CASE s = same
      <4>1. Beside!Chosen(s, e) = app
        BY <3>1, <3>4 DEF Beside!Chosen, Beside!Usable
      <4> QED BY <1>5, <2>4, <3>2, <4>1
    <3>5. CASE s # same /\ s # app
      <4>1. Beside!Chosen(s, e) = same
        BY <3>1, <3>5 DEF Beside!Chosen, Beside!Usable
      <4>2. json'[app] = Nothing BY <1>1, <1>4, <1>6, <3>1, <3>5, <4>1
      <4> QED BY <2>4, <3>2, <4>1, <4>2
    <3> QED BY <3>3, <3>4, <3>5
  <2> QED BY <1>8, <2>3, <2>6
<1>12. /\ Beside!Overtaken(S) \ {p} \subseteq intruded'
       /\ Beside!Others(p) \cup Beside!Holders(p) \subseteq intruded'
       /\ intruded \subseteq intruded' /\ disturbed \ {e} \subseteq disturbed'
       /\ e \in disturbed' \/ Beside!Others(p) = {}
  BY <1>2, <1>3 DEF Beside!Undisturbed
<1>13. json'[s] = json[s] BY <1>4, <1>6, <1>7
<1>14. BesideInv'
  <2> HIDE DEF S
  <2> QED
    <3>1. job' = [job EXCEPT ![p] = Beside!Idle] /\ UNCHANGED <<onnx, commands>> /\ Building(p)
      BY <1>1
    <3>2. S \in SUBSET Beside!Names(e) BY <1>6
    <3>3. Placing(p)' => e \in disturbed' BY <1>10
    <3>4. Building(p)' /\ p \notin intruded' => Matches(p)' BY <1>10
    <3>f. Framed(p, e, Beside!Idle, S)
      BY <1>16, <1>7, <1>8, <1>9, <1>11, <1>12, <3>1, <3>2, <3>3, <3>4 DEF Framed
    <3> QED BY <3>f, BuilderFrame, Zenon
<1> QED BY <1>13, <1>14

\* A builder that ends with nothing further written.
LEMMA BuilderGivesUp ==
    ASSUME Beside!SidecarAssumption, BesideInv, NEW p \in Proc,
           Beside!PublishPythonFails(p) \/ Beside!NativeFails(p)
    PROVE  BesideInv' /\ json' = json
<1>1. /\ BesideTypes /\ Building(p) /\ job' = [job EXCEPT ![p] = Beside!Idle]
      /\ UNCHANGED <<onnx, json, engine, intruded, disturbed, commands>>
  BY DEF BesideInv, Beside!PublishPythonFails, Beside!NativeFails, Beside!files, Building
<1>2. PICK e \in Engine : e = job[p].out BY <1>1, JobTypes
<1>3. ~Building(p)' /\ ~Placing(p)'
  BY <1>1 DEF BesideTypes, Building, Placing, Beside!Idle
<1>4. e \notin disturbed => Fits(engine[e], Beside!Discovered(e))
  BY DEF BesideInv
<1>5. e \notin disturbed' => Fits(engine'[e], Beside!Discovered(e)')
  BY <1>1, <1>4 DEF Beside!Discovered
<1>6. /\ {} \in SUBSET Beside!Names(e) /\ Beside!Overtaken({}) \ {p} \subseteq intruded'
      /\ \A s \in {} : json'[s] \in {Beside!Written(p), Nothing}
      /\ \A s \in Beside!Stem \ {} : json'[s] = json[s]
  BY <1>1, NobodyOvertaken
<1>7. /\ json' \in [Beside!Stem -> Beside!Contents \cup {Nothing}]
      /\ engine' \in [Engine -> Plans \cup {Nothing}] /\ intruded' \subseteq Proc
      /\ disturbed' \subseteq Engine /\ intruded \subseteq intruded'
      /\ disturbed \ {e} \subseteq disturbed' /\ (e \in disturbed' \/ e \notin disturbed)
      /\ \A f \in Engine \ {e} : engine'[f] = engine[f]
  BY <1>1 DEF BesideTypes
<1>f. Framed(p, e, Beside!Idle, {})
  BY <1>1, <1>2, <1>3, <1>5, <1>6, <1>7 DEF Framed
<1>8. BesideInv' BY <1>f, BuilderFrame, Zenon
<1> QED BY <1>1, <1>8

LEMMA ParsesGraph ==
    ASSUME Beside!SidecarAssumption, BesideInv, NEW p \in Proc, Beside!Parse(p)
    PROVE  BesideInv' /\ json' = json
<1> DEFINE j == job[p]
           graph == onnx[job[p].src]
           new == [j EXCEPT !.at = "engine", !.model = graph]
<1>1. /\ BesideTypes /\ Building(p) /\ j.at = "parse" /\ job' = [job EXCEPT ![p] = new]
      /\ UNCHANGED <<onnx, json, engine, intruded, disturbed, commands>>
  BY DEF BesideInv, Beside!Parse, Beside!files, Building
<1>2. PICK e \in Engine : e = job[p].out BY <1>1, JobTypes
<1>3. j \in BesideJobs /\ graph \in Checkpoint
  BY <1>1, JobTypes DEF JobTyped
<1>4. Placing(p) <=> FALSE BY <1>1 DEF Placing
<1>5. p \notin intruded => Matches(p) BY <1>1 DEF BesideInv
<1>6. p \notin intruded => graph = j.model BY <1>1, <1>5 DEF Matches
<1> HIDE DEF j, graph
<1>7. /\ new \in BesideJobs /\ new.at = "engine" /\ new.model = graph /\ new.src = j.src
      /\ new.out = j.out /\ new.meta = j.meta /\ new.meta_out = j.meta_out
  BY <1>3 DEF BesideJobs, Phases
<1> HIDE DEF new
<1>8. job'[p] = new BY <1>1 DEF BesideTypes
<1>9. ~Placing(p)' BY <1>7, <1>8 DEF Placing
<1>10. p \notin intruded => Matches(p)'
  BY <1>1, <1>5, <1>6, <1>7, <1>8, <1>9 DEF Matches, OfGraph, Beside!Sidecar, j
<1>11. e \notin disturbed' => Fits(engine'[e], Beside!Discovered(e)')
  BY <1>1 DEF BesideInv, Beside!Discovered, Fits
<1>12. /\ {} \in SUBSET Beside!Names(e) /\ Beside!Overtaken({}) \ {p} \subseteq intruded'
       /\ \A s \in {} : json'[s] \in {Beside!Written(p), Nothing}
       /\ \A s \in Beside!Stem \ {} : json'[s] = json[s]
  BY <1>1, NobodyOvertaken
<1>13. /\ json' \in [Beside!Stem -> Beside!Contents \cup {Nothing}]
       /\ engine' \in [Engine -> Plans \cup {Nothing}] /\ intruded' \subseteq Proc
       /\ disturbed' \subseteq Engine /\ intruded \subseteq intruded'
       /\ disturbed \ {e} \subseteq disturbed' /\ (e \in disturbed' \/ e \notin disturbed)
       /\ \A f \in Engine \ {e} : engine'[f] = engine[f]
  BY <1>1 DEF BesideTypes
<1>14. BesideInv'
  <2>1. /\ new \in BesideJobs /\ new.at # "publish" /\ new.src = job[p].src
        /\ new.out = job[p].out /\ new.meta_out = job[p].meta_out /\ new.meta = job[p].meta
    BY <1>7 DEF j
  <2>f. Framed(p, e, new, {})
    BY <1>1, <1>2, <1>9, <1>10, <1>11, <1>12, <1>13, <2>1 DEF Framed
  <2> QED BY <2>f, BuilderFrame, Zenon
<1> QED BY <1>1, <1>14

LEMMA BacksUpEngine ==
    ASSUME Beside!SidecarAssumption, BesideInv, NEW p \in Proc, Beside!BackUpEngine(p)
    PROVE  BesideInv' /\ json' = json
<1>0. Building(p) /\ BesideTypes
  BY DEF BesideInv, Beside!BackUpEngine, Building
<1>2. PICK e \in Engine : e = job[p].out BY <1>0, JobTypes
<1> DEFINE j == job[p]
           old == engine[e]
           was == e \in disturbed
           new == [j EXCEPT !.at = "place", !.backup = old, !.was = was]
<1>1. /\ BesideTypes /\ Building(p) /\ j.at = "engine" /\ job' = [job EXCEPT ![p] = new]
      /\ UNCHANGED <<onnx, json, engine, intruded, disturbed, commands>>
  BY <1>0, <1>2 DEF Beside!BackUpEngine, Beside!files
<1>3. j \in BesideJobs /\ old \in Plans \cup {Nothing} /\ was \in BOOLEAN
  BY <1>1, JobTypes DEF BesideTypes
<1>5. p \notin intruded => Matches(p) BY <1>1 DEF BesideInv
<1>6. ~was => Fits(old, Beside!Discovered(e)) BY DEF BesideInv
<1>d. Beside!Discovered(e)' = Beside!Discovered(e)
  BY <1>1 DEF Beside!Discovered
<1> HIDE DEF j, old, was
<1>7. /\ new \in BesideJobs /\ new.at = "place" /\ new.model = j.model /\ new.src = j.src
      /\ new.out = j.out /\ new.meta = j.meta /\ new.meta_out = j.meta_out
      /\ new.backup = old /\ new.was = was
  BY <1>3 DEF BesideJobs, Phases
<1> HIDE DEF new
<1>8. job'[p] = new BY <1>1 DEF BesideTypes
<1>9. ~Placing(p)' BY <1>7, <1>8 DEF Placing
<1>10. p \notin intruded => Matches(p)'
  <2>1. job'[p].out = e /\ job'[p].backup = old /\ job'[p].was = was /\ job'[p].at = "place"
    BY <1>2, <1>7, <1>8 DEF j
  <2>2. engine'[job'[p].out] = job'[p].backup BY <1>1, <2>1 DEF old
  <2>3. ~job'[p].was => Fits(job'[p].backup, Beside!Discovered(job[p].out)')
    BY <1>2, <1>6, <1>d, <2>1
  <2>5. ASSUME p \notin intruded
        PROVE  /\ job'[p].meta = Nothing \/ job'[p].meta = OfGraph(job'[p].model)
               /\ job'[p].src \in Beside!Names(job'[p].out) => json'[job'[p].src] = job'[p].meta
    BY <1>1, <1>5, <1>7, <1>8, <2>5 DEF Matches, j
  <2> QED BY <1>9, <2>1, <2>2, <2>3, <2>5 DEF Matches, OfGraph, Beside!Sidecar, Fits
<1>11. e \notin disturbed' => Fits(engine'[e], Beside!Discovered(e)')
  BY <1>1 DEF BesideInv, Beside!Discovered, Fits
<1>12. /\ {} \in SUBSET Beside!Names(e) /\ Beside!Overtaken({}) \ {p} \subseteq intruded'
       /\ \A s \in {} : json'[s] \in {Beside!Written(p), Nothing}
       /\ \A s \in Beside!Stem \ {} : json'[s] = json[s]
  BY <1>1, NobodyOvertaken
<1>13. /\ json' \in [Beside!Stem -> Beside!Contents \cup {Nothing}]
       /\ engine' \in [Engine -> Plans \cup {Nothing}] /\ intruded' \subseteq Proc
       /\ disturbed' \subseteq Engine /\ intruded \subseteq intruded'
       /\ disturbed \ {e} \subseteq disturbed' /\ (e \in disturbed' \/ e \notin disturbed)
       /\ \A f \in Engine \ {e} : engine'[f] = engine[f]
  BY <1>1 DEF BesideTypes
<1>14. BesideInv'
  <2>1. /\ new \in BesideJobs /\ new.at # "publish" /\ new.src = job[p].src
        /\ new.out = job[p].out /\ new.meta_out = job[p].meta_out /\ new.meta = job[p].meta
    BY <1>7 DEF j
  <2>f. Framed(p, e, new, {})
    BY <1>1, <1>2, <1>9, <1>10, <1>11, <1>12, <1>13, <2>1 DEF Framed
  <2> QED BY <2>f, BuilderFrame, Zenon
<1> QED BY <1>1, <1>14

LEMMA PlacesEngine ==
    ASSUME Beside!SidecarAssumption, BesideInv, NEW p \in Proc, Beside!PlaceEngine(p)
    PROVE  BesideInv' /\ json' = json
<1>0. Building(p) /\ BesideTypes
  BY DEF BesideInv, Beside!PlaceEngine, Building
<1>12. PICK e \in Engine : e = job[p].out BY <1>0, JobTypes
<1> DEFINE j == job[p]
           new == [j EXCEPT !.at = "meta"]
<1>1. /\ BesideTypes /\ Building(p) /\ j.at = "place" /\ job' = [job EXCEPT ![p] = new]
      /\ engine' = [engine EXCEPT ![e] = Beside!Plan(p)]
      /\ intruded' = intruded \cup Beside!Others(p) \cup Beside!Holders(p)
                              \cup (IF Beside!Others(p) = {} THEN {} ELSE {p})
      /\ disturbed' = disturbed \cup {e}
      /\ UNCHANGED <<onnx, json, commands>>
  BY <1>12 DEF BesideInv, Beside!PlaceEngine, Building
<1>2. e \in Engine /\ j \in BesideJobs /\ Beside!Plan(p) \in Plans
  BY <1>1, JobTypes, WrittenTypes DEF BesideTypes
<1>3. p \notin intruded => Matches(p) BY <1>1 DEF BesideInv
<1>4. p \notin intruded => (~j.was => Fits(j.backup, Beside!Discovered(e)))
  BY <1>1, <1>3, <1>12 DEF Matches
<1>5. /\ engine' \in [Engine -> Plans \cup {Nothing}] /\ engine'[e] = Beside!Plan(p)
      /\ \A f \in Engine \ {e} : engine'[f] = engine[f]
      /\ disturbed' \subseteq Engine /\ intruded' \subseteq Proc /\ e \in disturbed'
      /\ disturbed \ {e} \subseteq disturbed' /\ intruded \subseteq intruded'
      /\ Beside!Others(p) \cup Beside!Holders(p) \subseteq intruded'
  BY <1>1, <1>2 DEF BesideTypes, Beside!Others, Beside!Holders
<1> HIDE DEF j
<1>7. /\ new \in BesideJobs /\ new.at = "meta" /\ new.model = j.model /\ new.src = j.src
      /\ new.out = j.out /\ new.meta = j.meta /\ new.meta_out = j.meta_out /\ new.max = j.max
      /\ new.backup = j.backup /\ new.was = j.was
  BY <1>2 DEF BesideJobs, Phases
<1> HIDE DEF new
<1>8. job'[p] = new BY <1>1 DEF BesideTypes
<1>9. p \notin intruded' => Matches(p)'
  <2> SUFFICES ASSUME p \notin intruded' PROVE Matches(p)'
    OBVIOUS
  <2>1. Matches(p) BY <1>3, <1>5
  <2>2. Beside!Plan(p)' = Beside!Plan(p)
    BY <1>7, <1>8 DEF Beside!Plan, j
  <2>3. job'[p].out = e /\ job'[p].at = "meta" /\ job'[p].backup = j.backup /\ job'[p].was = j.was
    BY <1>7, <1>8, <1>12 DEF j
  <2>4. engine'[job'[p].out] = Beside!Plan(p)' BY <1>5, <2>2, <2>3
  <2>5. ~job'[p].was => Fits(job'[p].backup, Beside!Discovered(job[p].out)')
    <3>1. Beside!Discovered(job[p].out)' = Beside!Discovered(e)
      BY <1>1, <2>3 DEF Beside!Discovered
    <3> QED BY <1>4, <1>5, <2>3, <3>1
  <2>6. /\ job'[p].meta = Nothing \/ job'[p].meta = OfGraph(job'[p].model)
        /\ job'[p].src \in Beside!Names(job'[p].out) => json'[job'[p].src] = job'[p].meta
    BY <1>1, <1>7, <1>8, <2>1 DEF Matches, j
  <2> QED BY <2>3, <2>4, <2>5, <2>6 DEF Matches, OfGraph, Fits, Beside!Sidecar
<1>10. /\ {} \in SUBSET Beside!Names(e) /\ Beside!Overtaken({}) \ {p} \subseteq intruded'
       /\ \A s \in {} : json'[s] \in {Beside!Written(p), Nothing}
       /\ \A s \in Beside!Stem \ {} : json'[s] = json[s]
       /\ json' \in [Beside!Stem -> Beside!Contents \cup {Nothing}]
  BY <1>1, NobodyOvertaken DEF BesideTypes
<1>11. BesideInv'
  <2>1. /\ new \in BesideJobs /\ new.at # "publish" /\ new.src = job[p].src
        /\ new.out = job[p].out /\ new.meta_out = job[p].meta_out /\ new.meta = job[p].meta
    BY <1>7 DEF j
  <2>2. e \notin disturbed' => Fits(engine'[e], Beside!Discovered(e)')
    BY <1>5
  <2> QED
    <3>1. job' = [job EXCEPT ![p] = new] /\ UNCHANGED <<onnx, commands>> /\ Building(p)
      BY <1>1
    <3>2. Placing(p)' => e \in disturbed' BY <1>5
    <3>3. Building(p)' /\ p \notin intruded' => Matches(p)' BY <1>9
    <3>f. Framed(p, e, new, {})
      BY <1>12, <1>5, <1>10, <2>1, <2>2, <3>1, <3>2, <3>3 DEF Framed
    <3> QED BY <3>f, BuilderFrame, Zenon
<1> QED BY <1>1, <1>11

\* A builder nobody was in the way of puts the engine back that is there anyway.
LEMMA PlaceFailing ==
    ASSUME Beside!SidecarAssumption, BesideInv, NEW p \in Proc, Beside!PlaceFails(p)
    PROVE  BesideInv' /\ json' = json
<1>1. Building(p) /\ BesideTypes
  BY DEF BesideInv, Beside!PlaceFails, Building
<1>2. PICK e \in Engine : e = job[p].out BY <1>1, JobTypes
<1>3. /\ job[p].at = "place" /\ job' = [job EXCEPT ![p] = Beside!Idle]
      /\ engine' = engine \/ engine' = [engine EXCEPT ![e] = job[p].backup]
      /\ UNCHANGED <<onnx, json, commands>>
  BY <1>2 DEF Beside!PlaceFails, Beside!Backup
<1>4. intruded' = intruded \cup Beside!Others(p) \cup Beside!Holders(p)
                          \cup (Beside!Overtaken({}) \ {p})
  BY DEF Beside!PlaceFails, Beside!Intrudes
<1>5. \/ p \in intruded /\ disturbed' = disturbed \cup {e}
      \/ p \notin intruded /\ disturbed' = disturbed
  BY <1>2 DEF Beside!PlaceFails
<1>7. /\ engine' \in [Engine -> Plans \cup {Nothing}]
      /\ \A f \in Engine \ {e} : engine'[f] = engine[f]
  BY <1>1, <1>3, JobTypes DEF BesideTypes
<1>8. /\ disturbed' \subseteq Engine /\ intruded' \subseteq Proc
      /\ disturbed \ {e} \subseteq disturbed' /\ intruded \subseteq intruded'
      /\ Beside!Others(p) \cup Beside!Holders(p) \subseteq intruded'
      /\ e \in disturbed' \/ e \notin disturbed
  BY <1>1, <1>4, <1>5 DEF BesideTypes, Beside!Others, Beside!Holders, Beside!Overtaken
<1>9. ~Building(p)' /\ ~Placing(p)'
  BY <1>1, <1>3 DEF BesideTypes, Building, Placing, Beside!Idle
<1>10. ASSUME e \notin disturbed' PROVE Fits(engine'[e], Beside!Discovered(e)')
  <2>1. p \notin intruded /\ e \notin disturbed BY <1>5, <1>10
  <2>2. engine[e] = job[p].backup
    BY <1>1, <1>2, <1>3, <2>1 DEF BesideInv, Matches
  <2>3. engine'[e] = engine[e] BY <1>1, <1>3, <2>2 DEF BesideTypes
  <2>4. Beside!Discovered(e)' = Beside!Discovered(e)
    BY <1>3 DEF Beside!Discovered
  <2> QED BY <2>1, <2>3, <2>4 DEF BesideInv
<1>11. /\ {} \in SUBSET Beside!Names(e) /\ Beside!Overtaken({}) \ {p} \subseteq intruded'
       /\ \A s \in {} : json'[s] \in {Beside!Written(p), Nothing}
       /\ \A s \in Beside!Stem \ {} : json'[s] = json[s]
       /\ json' \in [Beside!Stem -> Beside!Contents \cup {Nothing}]
  BY <1>1, <1>3, NobodyOvertaken DEF BesideTypes
<1>12. BesideInv'
  <2>1. job' = [job EXCEPT ![p] = Beside!Idle] /\ UNCHANGED <<onnx, commands>>
    BY <1>3
  <2>f. Framed(p, e, Beside!Idle, {})
    BY <1>1, <1>2, <1>7, <1>8, <1>9, <1>10, <1>11, <2>1 DEF Framed
  <2> QED BY <2>f, BuilderFrame, Zenon
<1> QED BY <1>3, <1>12

LEMMA PlacesMeta ==
    ASSUME Beside!SidecarAssumption, BesideInv, NEW p \in Proc, Beside!PlaceMeta(p)
    PROVE  BesideInv' /\ json'[job[p].src] = json[job[p].src]
<1>1. Building(p) /\ BesideTypes
  BY DEF BesideInv, Beside!PlaceMeta, Building
<1>2. PICK e \in Engine : e = job[p].out BY <1>1, JobTypes
<1> DEFINE j == job[p]
           new == [j EXCEPT !.at = "twin"]
           w == Beside!Written(p)
           n == job[p].meta_out
<1>3. /\ j.at = "meta" /\ job' = [job EXCEPT ![p] = new]
      /\ json' = [json EXCEPT ![n] = w]
      /\ intruded' = intruded \cup Beside!Others(p) \cup Beside!Holders(p)
                              \cup (Beside!Overtaken({n}) \ {p})
      /\ UNCHANGED <<onnx, engine, disturbed, commands>>
  BY DEF Beside!PlaceMeta, Beside!Intrudes
<1>4. /\ j \in BesideJobs /\ w \in Beside!Contents /\ n \in Beside!Stem /\ j.src \in Beside!Stem
      /\ n \in Beside!Names(e) /\ n # j.src
  BY <1>1, <1>2, JobTypes, WrittenTypes DEF JobTyped
<1>5. e \in disturbed BY <1>2, <1>3 DEF BesideInv, Placing
<1>6. p \notin intruded => Matches(p) BY <1>1 DEF BesideInv
<1>7. /\ json' \in [Beside!Stem -> Beside!Contents \cup {Nothing}] /\ json'[n] = w
      /\ \A s \in Beside!Stem \ {n} : json'[s] = json[s]
      /\ \A s \in {n} : json'[s] \in {w, Nothing}
  BY <1>1, <1>3, <1>4 DEF BesideTypes
<1>8. json'[j.src] = json[j.src] BY <1>4, <1>7
<1>9. /\ engine' \in [Engine -> Plans \cup {Nothing}]
      /\ \A f \in Engine \ {e} : engine'[f] = engine[f]
      /\ disturbed' \subseteq Engine /\ intruded' \subseteq Proc /\ e \in disturbed'
      /\ disturbed \ {e} \subseteq disturbed' /\ intruded \subseteq intruded'
      /\ UNCHANGED engine /\ Beside!Overtaken({n}) \ {p} \subseteq intruded'
  BY <1>1, <1>3, <1>5 DEF BesideTypes, Beside!Others, Beside!Holders, Beside!Overtaken
<1> HIDE DEF j
<1>10. /\ new \in BesideJobs /\ new.at = "twin" /\ new.model = j.model /\ new.src = j.src
       /\ new.out = j.out /\ new.meta = j.meta /\ new.meta_out = j.meta_out /\ new.max = j.max
  BY <1>4 DEF BesideJobs, Phases
<1> HIDE DEF new
<1>11. job'[p] = new BY <1>1, <1>3 DEF BesideTypes
<1>12. p \notin intruded' => Matches(p)'
  <2> SUFFICES ASSUME p \notin intruded' PROVE Matches(p)'
    OBVIOUS
  <2>1. Matches(p) /\ Placing(p) BY <1>3, <1>6, <1>9 DEF Placing, j
  <2>2. Beside!Plan(p)' = Beside!Plan(p) /\ Beside!Written(p)' = w
    BY <1>10, <1>11 DEF Beside!Plan, Beside!Written, Beside!Sidecar, j
  <2>3. job'[p].out = e /\ job'[p].at = "twin" /\ job'[p].meta_out = n
    BY <1>2, <1>10, <1>11 DEF j
  <2>4. engine'[job'[p].out] = Beside!Plan(p)'
    BY <1>2, <1>9, <2>1, <2>2, <2>3 DEF Matches
  <2>5. json'[job'[p].meta_out] = Beside!Written(p)' BY <1>7, <2>2, <2>3
  <2>6. /\ job'[p].meta = Nothing \/ job'[p].meta = OfGraph(job'[p].model)
        /\ job'[p].src \in Beside!Names(job'[p].out) => json'[job'[p].src] = job'[p].meta
    BY <1>8, <1>10, <1>11, <2>1 DEF Matches, j
  <2> QED BY <2>3, <2>4, <2>5, <2>6 DEF Matches, OfGraph, Fits, Beside!Sidecar
<1>13. BesideInv'
  <2>1. /\ new \in BesideJobs /\ new.at # "publish" /\ new.src = job[p].src
        /\ new.out = job[p].out /\ new.meta_out = job[p].meta_out /\ new.meta = job[p].meta
    BY <1>10 DEF j
  <2>2. job' = [job EXCEPT ![p] = new] /\ UNCHANGED <<onnx, commands>>
    BY <1>3
  <2>3. {n} \in SUBSET Beside!Names(e) BY <1>4
  <2>4. e \notin disturbed' => Fits(engine'[e], Beside!Discovered(e)')
    BY <1>9
  <2>5. Placing(p)' => e \in disturbed' BY <1>9
  <2>6. Building(p)' /\ p \notin intruded' => Matches(p)' BY <1>12
  <2> HIDE DEF n
  <2>f. Framed(p, e, new, {n})
    BY <1>1, <1>2, <1>7, <1>9, <2>1, <2>2, <2>3, <2>4, <2>5, <2>6 DEF Framed
  <2> QED BY <2>f, BuilderFrame, Zenon
<1> QED BY <1>8, <1>13 DEF j

LEMMA RollsBackNative ==
    ASSUME Beside!SidecarAssumption, BesideInv, NEW p \in Proc, Beside!Rollback(p)
    PROVE  BesideInv' /\ json' = json
<1>1. Building(p) /\ BesideTypes
  BY DEF BesideInv, Beside!Rollback, Building
<1>2. PICK e \in Engine : e = job[p].out BY <1>1, JobTypes
<1>3. /\ job[p].at = "meta" /\ job' = [job EXCEPT ![p] = Beside!Idle]
      /\ engine' = [engine EXCEPT ![e] = job[p].backup]
      /\ UNCHANGED <<onnx, json, commands>>
  BY <1>2 DEF Beside!Rollback, Beside!Backup
<1>4. intruded' = intruded \cup Beside!Others(p) \cup Beside!Holders(p)
                          \cup (Beside!Overtaken({}) \ {p})
  BY DEF Beside!Rollback, Beside!Intrudes
<1>5. \/ disturbed' = disturbed
      \/ Beside!Undisturbed(p) /\ ~job[p].was /\ disturbed' = disturbed \ {e}
  BY <1>2 DEF Beside!Rollback, Beside!Settles
<1>6. e \in disturbed BY <1>2, <1>3 DEF BesideInv, Placing
<1>7. /\ engine' \in [Engine -> Plans \cup {Nothing}] /\ engine'[e] = job[p].backup
      /\ \A f \in Engine \ {e} : engine'[f] = engine[f]
  BY <1>1, <1>3, JobTypes DEF BesideTypes
<1>8. /\ disturbed' \subseteq Engine /\ intruded' \subseteq Proc
      /\ disturbed \ {e} \subseteq disturbed' /\ intruded \subseteq intruded'
      /\ Beside!Others(p) \cup Beside!Holders(p) \subseteq intruded'
      /\ e \in disturbed' \/ Beside!Others(p) = {}
  BY <1>1, <1>4, <1>5, <1>6
    DEF BesideTypes, Beside!Others, Beside!Holders, Beside!Overtaken, Beside!Undisturbed
<1>9. ~Building(p)' /\ ~Placing(p)'
  BY <1>1, <1>3 DEF BesideTypes, Building, Placing, Beside!Idle
<1>10. ASSUME e \notin disturbed' PROVE Fits(engine'[e], Beside!Discovered(e)')
  <2>1. Beside!Undisturbed(p) /\ ~job[p].was BY <1>5, <1>6, <1>10
  <2>2. Matches(p) BY <1>1, <2>1 DEF BesideInv, Beside!Undisturbed
  <2>3. Fits(job[p].backup, Beside!Discovered(job[p].out))
    BY <1>3, <2>1, <2>2 DEF Matches
  <2>4. Beside!Discovered(e)' = Beside!Discovered(e)
    BY <1>3 DEF Beside!Discovered
  <2> QED BY <1>2, <1>7, <2>3, <2>4
<1>11. /\ {} \in SUBSET Beside!Names(e) /\ Beside!Overtaken({}) \ {p} \subseteq intruded'
       /\ \A s \in {} : json'[s] \in {Beside!Written(p), Nothing}
       /\ \A s \in Beside!Stem \ {} : json'[s] = json[s]
       /\ json' \in [Beside!Stem -> Beside!Contents \cup {Nothing}]
  BY <1>1, <1>3, NobodyOvertaken DEF BesideTypes
<1>12. BesideInv'
  <2>1. job' = [job EXCEPT ![p] = Beside!Idle] /\ UNCHANGED <<onnx, commands>>
    BY <1>3
  <2>2. Placing(p)' => e \in disturbed' BY <1>9
  <2>3. Building(p)' /\ p \notin intruded' => Matches(p)' BY <1>9
  <2>f. Framed(p, e, Beside!Idle, {})
    BY <1>1, <1>2, <1>7, <1>8, <1>10, <1>11, <2>1, <2>2, <2>3 DEF Framed
  <2> QED BY <2>f, BuilderFrame, Zenon
<1> QED BY <1>3, <1>12

LEMMA EndsNative ==
    ASSUME Beside!SidecarAssumption, BesideInv, NEW p \in Proc, Beside!EndNative(p)
    PROVE  BesideInv' /\ json'[job[p].src] = json[job[p].src]
<1>1. Building(p) /\ BesideTypes
  BY DEF BesideInv, Beside!EndNative, Building
<1>2. PICK e \in Engine : e = job[p].out BY <1>1, JobTypes
<1> DEFINE app == Beside!Appended(e)
           same == Beside!SameStem(e)
           shadowed == job[p].meta_out = same /\ app # job[p].src /\ json[app] # Nothing
           S == IF shadowed THEN {app} ELSE {}
           w == Beside!Written(p)
<1>3. /\ job[p].at = "twin" /\ job' = [job EXCEPT ![p] = Beside!Idle]
      /\ json' = IF shadowed THEN [json EXCEPT ![app] = Nothing] ELSE json
      /\ UNCHANGED <<onnx, engine, commands>>
  BY <1>2 DEF Beside!EndNative, Beside!Shadowed
<1>4. intruded' = intruded \cup Beside!Others(p) \cup Beside!Holders(p)
                          \cup (Beside!Overtaken(S) \ {p})
  BY <1>2 DEF Beside!EndNative, Beside!Intrudes, Beside!Shadowed
<1>5. \/ disturbed' = disturbed
      \/ Beside!Undisturbed(p) /\ disturbed' = disturbed \ {e}
  BY <1>2 DEF Beside!EndNative, Beside!Settles
<1>6. e \in disturbed BY <1>2, <1>3 DEF BesideInv, Placing
<1>7. /\ same # app /\ Beside!Names(e) = {same, app} /\ same \in Beside!Stem /\ app \in Beside!Stem
      /\ job[p].meta_out \in {same, app} /\ job[p].meta_out # job[p].src
      /\ job[p].src \in Beside!Stem /\ w \in Beside!Contents /\ w # Nothing
  BY <1>1, <1>2, NameFacts, JobTypes, WrittenTypes DEF JobTyped
<1>8. /\ json' \in [Beside!Stem -> Beside!Contents \cup {Nothing}]
      /\ \A s \in Beside!Stem \ S : json'[s] = json[s]
      /\ \A s \in S : json'[s] \in {w, Nothing}
      /\ json'[job[p].src] = json[job[p].src]
      /\ shadowed => json'[app] = Nothing
      /\ S \in SUBSET Beside!Names(e)
  BY <1>1, <1>3, <1>7 DEF BesideTypes
<1>9. /\ engine' \in [Engine -> Plans \cup {Nothing}] /\ UNCHANGED engine
      /\ \A f \in Engine \ {e} : engine'[f] = engine[f]
      /\ disturbed' \subseteq Engine /\ intruded' \subseteq Proc
      /\ disturbed \ {e} \subseteq disturbed' /\ intruded \subseteq intruded'
      /\ Beside!Overtaken(S) \ {p} \subseteq intruded'
      /\ e \in disturbed' \/ Beside!Others(p) = {}
  <2> HIDE DEF S
  <2> QED
    BY <1>1, <1>3, <1>4, <1>5, <1>6
      DEF BesideTypes, Beside!Others, Beside!Holders, Beside!Overtaken, Beside!Undisturbed
<1>10. ~Building(p)' /\ ~Placing(p)'
  BY <1>1, <1>3 DEF BesideTypes, Building, Placing, Beside!Idle
<1>11. ASSUME e \notin disturbed' PROVE Fits(engine'[e], Beside!Discovered(e)')
  <2>1. Matches(p)
    BY <1>1, <1>5, <1>6, <1>11 DEF BesideInv, Beside!Undisturbed
  <2>2. engine'[e] = Beside!Plan(p) /\ json[job[p].meta_out] = w
    BY <1>2, <1>3, <2>1 DEF Matches, Placing
  <2>3. job[p].src \in Beside!Names(e) => json'[job[p].src] = job[p].meta
    BY <1>2, <1>8, <2>1 DEF Matches
  <2>4. Fits(Beside!Plan(p), w) /\ Fits(Beside!Plan(p), job[p].meta)
    BY <1>1, <2>1, WrittenFits
  <2>5. json'[job[p].meta_out] = w
    <3>1. job[p].meta_out \notin S BY <1>7
    <3> QED BY <1>7, <1>8, <2>2, <3>1
  <2>6. Beside!Discovered(e)' = IF json'[app] # Nothing THEN json'[app] ELSE json'[same]
    BY DEF Beside!Discovered
  <2>7. Beside!Discovered(e)' \in {w, job[p].meta}
    <3>1. CASE job[p].meta_out = app BY <1>7, <2>5, <2>6, <3>1
    <3>2. CASE job[p].meta_out = same /\ app = job[p].src
      BY <1>7, <2>3, <2>5, <2>6, <3>2
    <3>3. CASE job[p].meta_out = same /\ app # job[p].src
      <4>1. json'[app] = Nothing
        <5>1. CASE shadowed BY <1>8, <5>1
        <5>2. CASE ~shadowed
          <6>1. json' = json /\ json[app] = Nothing BY <1>3, <3>3, <5>2
          <6> QED BY <6>1
        <5> QED BY <5>1, <5>2
      <4> QED BY <2>5, <2>6, <3>3, <4>1
    <3> QED BY <1>7, <3>1, <3>2, <3>3
  <2> QED BY <2>2, <2>4, <2>7
<1>12. BesideInv'
  <2>1. job' = [job EXCEPT ![p] = Beside!Idle] /\ UNCHANGED <<onnx, commands>>
    BY <1>3
  <2>2. Placing(p)' => e \in disturbed' BY <1>10
  <2>3. Building(p)' /\ p \notin intruded' => Matches(p)' BY <1>10
  <2> HIDE DEF S
  <2>f. Framed(p, e, Beside!Idle, S)
    BY <1>1, <1>2, <1>8, <1>9, <1>11, <2>1, <2>2, <2>3 DEF Framed
  <2> QED BY <2>f, BuilderFrame, Zenon
<1> QED BY <1>8, <1>12

LEMMA StartsBuild ==
    ASSUME Beside!SidecarAssumption, BesideInv, NEW p \in Proc,
           Beside!StartPython(p) \/ Beside!StartNative(p)
    PROVE  BesideInv' /\ job[p] = Beside!Idle
<1>1. PICK s \in Onnx, e \in Engine, max \in Batches, phase \in {"publish", "parse"},
           n \in Beside!Stem :
         /\ n \in Beside!Names(e) \ {s}
         /\ Beside!Starts(p, phase, s, e, max, n)
         /\ phase = "publish" => n = Beside!Chosen(s, e)
  <2>1. ASSUME NEW s \in Onnx, NEW e \in Engine
        PROVE  /\ Beside!Chosen(s, e) \in Beside!Names(e) \ {s}
               /\ Beside!Names(e) \subseteq Beside!Stem
    BY ChosenFacts, NameFacts
  <2> QED BY <2>1 DEF Beside!StartPython, Beside!StartNative
<1> DEFINE new == [at |-> phase, src |-> s, out |-> e, max |-> max, meta_out |-> n,
                   meta |-> json[s], model |-> onnx[s], backup |-> Nothing, was |-> FALSE]
<1>2. /\ BesideTypes /\ commands < MaxBuilds /\ commands' = commands + 1 /\ job[p] = Beside!Idle
      /\ onnx[s] # Nothing /\ (json[s] # Nothing => json[s].kind = "onnx")
      /\ job' = [job EXCEPT ![p] = new] /\ intruded' = intruded \ {p}
      /\ UNCHANGED <<onnx, json, engine, disturbed>>
  BY <1>1 DEF BesideInv, Beside!Starts, Beside!Command, Beside!Readable, Beside!files
<1>3. /\ s \in Beside!Stem /\ n \in Beside!Stem /\ onnx[s] \in Checkpoint
      /\ json[s] \in Beside!Contents \cup {Nothing}
  BY <1>1, <1>2, NameFacts DEF BesideTypes
<1>4. json[s] = Nothing \/ json[s] = OfGraph(onnx[s])
  BY <1>2, <1>3 DEF BesideTypes
<1>5. /\ new.at = phase /\ new.src = s /\ new.out = e /\ new.meta_out = n
      /\ new.meta = json[s] /\ new.model = onnx[s]
  OBVIOUS
<1>6. new \in BesideJobs BY <1>3 DEF BesideJobs, Phases
<1> HIDE DEF new
<1>7. job'[p] = new /\ \A q \in Proc \ {p} : job'[q] = job[q]
  BY <1>2 DEF BesideTypes
<1>8. BesideTypes'
  <2>1. job' \in [Proc -> BesideJobs \cup {Beside!Idle}]
    BY <1>2, <1>6 DEF BesideTypes
  <2>2. JobTyped(p)' BY <1>1, <1>2, <1>3, <1>5, <1>6, <1>7 DEF JobTyped
  <2>3. ASSUME NEW q \in Proc \ {p} PROVE job'[q] = Beside!Idle \/ JobTyped(q)'
    BY <1>2, <1>7 DEF BesideTypes, JobTyped
  <2>4. commands' \in 0 .. MaxBuilds
    <3>1. commands \in 0 .. MaxBuilds /\ MaxBuilds \in Nat
      BY <1>2 DEF BesideTypes, Beside!SidecarAssumption
    <3> QED BY <1>2, <3>1
  <2>5. intruded' \subseteq Proc /\ disturbed' \subseteq Engine
    BY <1>2 DEF BesideTypes
  <2>6. \A r \in Beside!Stem : json'[r] # Nothing /\ json'[r].kind = "onnx" =>
           r \in Onnx /\ onnx'[r] \in Checkpoint /\ json'[r] = OfGraph(onnx'[r])
    BY <1>2 DEF BesideTypes
  <2>7. \A q \in Proc : job'[q] = Beside!Idle \/ JobTyped(q)'
    BY <2>2, <2>3
  <2> QED BY <1>2, <2>1, <2>4, <2>5, <2>6, <2>7 DEF BesideTypes, OfGraph, Beside!Sidecar
<1>9. ASSUME NEW q \in Proc, Placing(q)' PROVE job'[q].out \in disturbed'
  <2>1. q # p BY <1>1, <1>5, <1>7, <1>9 DEF Placing
  <2> QED BY <1>2, <1>7, <1>9, <2>1 DEF BesideInv, Placing
<1>10. ASSUME NEW q \in Proc, q \notin intruded', Building(q)' PROVE Matches(q)'
  <2>1. CASE q = p
    <3>1. ~Placing(p)' /\ job'[p].at \notin {"place", "meta", "twin"}
      BY <1>1, <1>5, <1>7 DEF Placing
    <3>2. /\ job'[p].meta = Nothing \/ job'[p].meta = OfGraph(job'[p].model)
          /\ job'[p].model = onnx'[job'[p].src] /\ json'[job'[p].src] = job'[p].meta
      BY <1>2, <1>4, <1>5, <1>7
    <3> QED BY <2>1, <3>1, <3>2 DEF Matches, OfGraph, Beside!Sidecar
  <2>2. CASE q # p
    <3>1. job'[q] = job[q] /\ Building(q) /\ q \notin intruded
      BY <1>2, <1>7, <1>10, <2>2 DEF Building
    <3> QED BY <1>2, <3>1, MatchesKept
  <2> QED BY <2>1, <2>2
<1>11. \A f \in Engine \ disturbed' : Fits(engine'[f], Beside!Discovered(f)')
  BY <1>2 DEF BesideInv, Beside!Discovered
<1> QED BY <1>2, <1>8, <1>9, <1>10, <1>11 DEF BesideInv, Fits

\* A sidecar changes under builders that are told of it when it matters to them.
LEMMA EditKeeps ==
    ASSUME Beside!SidecarAssumption, BesideInv, NEW s \in Beside!Stem,
           NEW text \in Beside!Contents \cup {Nothing}, NEW torn \in SUBSET Proc,
           Beside!Changes(s, text, torn), commands < MaxBuilds, commands' = commands + 1,
           onnx' \in [Onnx -> Checkpoint \cup {Nothing}],
           \A g \in Onnx : onnx'[g] = onnx[g]
             \/ (g = s /\ onnx'[g] \in Checkpoint /\ Beside!HalfRead(s) \subseteq torn),
           text # Nothing => s \in Onnx /\ onnx'[s] \in Checkpoint /\ text = OfGraph(onnx'[s]),
           (UNCHANGED onnx) \/ text # Nothing
    PROVE  BesideInv'
<1>1. /\ BesideTypes /\ json' = [json EXCEPT ![s] = text]
      /\ intruded' = intruded \cup Beside!Overtaken({s}) \cup torn
      /\ disturbed' = disturbed \cup {e \in Engine : Beside!Discovered(e)' # Beside!Discovered(e)}
      /\ UNCHANGED <<engine, job>>
  BY DEF BesideInv, Beside!Changes
<1>2. /\ json' \in [Beside!Stem -> Beside!Contents \cup {Nothing}] /\ json'[s] = text
      /\ \A n \in Beside!Stem \ {s} : json'[n] = json[n]
  BY <1>1 DEF BesideTypes
<1>3. BesideTypes'
  <2>1. commands' \in 0 .. MaxBuilds
    <3>1. commands \in 0 .. MaxBuilds /\ MaxBuilds \in Nat
      BY <1>1 DEF BesideTypes, Beside!SidecarAssumption
    <3> QED BY <3>1
  <2>2. intruded' \subseteq Proc /\ disturbed' \subseteq Engine
    BY <1>1 DEF BesideTypes, Beside!Overtaken
  <2>3. ASSUME NEW q \in Proc PROVE job'[q] = Beside!Idle \/ JobTyped(q)'
    <3>1. CASE job[q] = Beside!Idle BY <1>1, <3>1
    <3>2. CASE JobTyped(q)
      <4>1. job[q].src \in Onnx /\ onnx[job[q].src] \in Checkpoint
        BY <3>2 DEF JobTyped, BesideJobs
      <4>2. onnx'[job[q].src] \in Checkpoint BY <4>1
      <4> QED BY <1>1, <3>2, <4>2 DEF JobTyped
    <3> QED BY <1>1, <3>1, <3>2 DEF BesideTypes
  <2>4. ASSUME NEW n \in Beside!Stem, json'[n] # Nothing, json'[n].kind = "onnx"
        PROVE  n \in Onnx /\ onnx'[n] \in Checkpoint /\ json'[n] = OfGraph(onnx'[n])
    <3>1. CASE n = s BY <1>2, <2>4, <3>1
    <3>2. CASE n # s
      <4>1. n \in Onnx /\ onnx[n] \in Checkpoint /\ json[n] = OfGraph(onnx[n])
        BY <1>1, <1>2, <2>4, <3>2 DEF BesideTypes
      <4> QED BY <1>2, <3>2, <4>1
    <3> QED BY <3>1, <3>2
  <2>5. /\ job' \in [Proc -> BesideJobs \cup {Beside!Idle}]
        /\ engine' \in [Engine -> Plans \cup {Nothing}]
    BY <1>1 DEF BesideTypes
  <2> QED BY <1>2, <2>1, <2>2, <2>3, <2>4, <2>5 DEF BesideTypes, OfGraph, Beside!Sidecar
<1>4. ASSUME NEW q \in Proc, Placing(q)' PROVE job'[q].out \in disturbed'
  BY <1>1, <1>4 DEF BesideInv, Placing
<1>5. ASSUME NEW q \in Proc, q \notin intruded', Building(q)' PROVE Matches(q)'
  <2>1. job'[q] = job[q] /\ Building(q) /\ q \notin intruded
    BY <1>1, <1>5 DEF Building
  <2>2. job[q].src \in Onnx /\ job[q].out \in Engine
    BY <1>1, <2>1, JobTypes
  <2>3. job[q].at = "parse" => onnx'[job[q].src] = onnx[job[q].src]
    <3>1. job[q].at = "parse" /\ job[q].src = s => q \in Beside!HalfRead(s)
      BY DEF Beside!HalfRead
    <3> QED BY <1>1, <1>5, <2>2, <3>1
  <2>4. ASSUME NEW n \in Beside!Names(job[q].out), Holding(q) \/ n = job[q].src
        PROVE  json'[n] = json[n]
    <3>1. n = s => q \in Beside!Overtaken({s})
      BY <2>1, <2>4 DEF Holding, Building, Beside!Overtaken
    <3>2. n \in Beside!Stem BY <2>2, NameFacts
    <3> QED BY <1>1, <1>2, <1>5, <3>1, <3>2
  <2> QED BY <1>1, <2>1, <2>3, <2>4, MatchesKept
<1>6. ASSUME NEW f \in Engine \ disturbed' PROVE Fits(engine'[f], Beside!Discovered(f)')
  BY <1>1, <1>6 DEF BesideInv
<1> QED BY <1>3, <1>4, <1>5, <1>6 DEF BesideInv, Fits

LEMMA BesideStep ==
    ASSUME Beside!SidecarAssumption, BesideInv, [Beside!Next]_(Beside!vars)
    PROVE  BesideInv'
<1>1. CASE UNCHANGED Beside!vars
  <2>1. UNCHANGED <<onnx, json, engine, job, intruded, disturbed, commands>>
    BY <1>1 DEF Beside!vars, Beside!files
  <2>2. BesideTypes'
    BY <2>1 DEF BesideInv, BesideTypes, JobTyped, OfGraph, Beside!Sidecar
  <2>3. \A p \in Proc : Matches(p) => Matches(p)'
    BY <2>1 DEF Matches, Placing, Fits, OfGraph, Beside!Sidecar, Beside!Plan, Beside!Written,
                Beside!Discovered
  <2>4. \A e \in Engine \ disturbed' : Fits(engine'[e], Beside!Discovered(e)')
    BY <2>1 DEF BesideInv, Beside!Discovered
  <2>5. /\ \A p \in Proc \ intruded' : Building(p)' => Matches(p)'
        /\ \A p \in Proc : Placing(p)' => job'[p].out \in disturbed'
    BY <2>1, <2>3 DEF BesideInv, Building, Placing
  <2> QED BY <2>2, <2>4, <2>5 DEF BesideInv, Fits
<1>2. ASSUME NEW s \in Onnx, NEW m \in Checkpoint, Beside!Export(s, m) PROVE BesideInv'
  <2>1. BesideTypes /\ s \in Beside!Stem BY NameFacts DEF BesideInv
  <2>2. /\ commands < MaxBuilds /\ commands' = commands + 1
        /\ onnx' = [onnx EXCEPT ![s] = m]
        /\ Beside!Changes(s, OfGraph(m), Beside!HalfRead(s))
    BY <1>2 DEF Beside!Export, Beside!Command, OfGraph
  <2>3. OfGraph(m) \in Beside!Contents
    <3>1. Shape[m] \in Nat /\ 32 \in Nat \ {0}
      BY DEF Beside!SidecarAssumption
    <3> QED BY <3>1 DEF OfGraph, Beside!Sidecar, Beside!Contents
  <2>4. /\ onnx' \in [Onnx -> Checkpoint \cup {Nothing}] /\ onnx'[s] = m
        /\ \A g \in Onnx : onnx'[g] = onnx[g] \/ (g = s /\ onnx'[g] \in Checkpoint)
    BY <2>1, <2>2 DEF BesideTypes
  <2>5. OfGraph(m) # Nothing /\ Beside!HalfRead(s) \in SUBSET Proc
    BY <2>3 DEF Beside!SidecarAssumption, Beside!HalfRead
  <2>6. OfGraph(m) = OfGraph(onnx'[s]) BY <2>4
  <2> QED BY <2>1, <2>2, <2>3, <2>4, <2>5, <2>6, EditKeeps
<1>3. ASSUME NEW s \in Beside!Stem, Beside!RemoveSidecar(s) PROVE BesideInv'
  <2>1. /\ commands < MaxBuilds /\ commands' = commands + 1 /\ UNCHANGED onnx
        /\ Beside!Changes(s, Nothing, {})
    BY <1>3 DEF Beside!RemoveSidecar, Beside!Command
  <2>2. onnx' \in [Onnx -> Checkpoint \cup {Nothing}] /\ {} \in SUBSET Proc
    BY <2>1 DEF BesideInv, BesideTypes
  <2> QED BY <2>1, <2>2, EditKeeps
<1>4. ASSUME NEW p \in Proc, Beside!Builds(p) PROVE BesideInv'
  BY <1>4, PublishesPython, BuilderGivesUp, ParsesGraph, BacksUpEngine, PlacesEngine, PlaceFailing,
     PlacesMeta, RollsBackNative, EndsNative, StartsBuild DEF Beside!Builds
<1> QED BY <1>1, <1>2, <1>3, <1>4 DEF Beside!Next

LEMMA BesideInit ==
    ASSUME Beside!SidecarAssumption, Beside!Init
    PROVE  BesideInv
<1>1. /\ onnx = [s \in Onnx |-> Nothing] /\ json = [s \in Beside!Stem |-> Nothing]
      /\ engine = [e \in Engine |-> Nothing] /\ job = [p \in Proc |-> Beside!Idle]
      /\ intruded = {} /\ disturbed = {} /\ commands = 0
  BY DEF Beside!Init
<1>2. commands \in 0 .. MaxBuilds BY <1>1 DEF Beside!SidecarAssumption
<1>3. BesideTypes BY <1>1, <1>2 DEF BesideTypes
<1>4. \A p \in Proc : ~Building(p) /\ ~Placing(p)
  BY <1>1 DEF Building, Placing, Beside!Idle
<1>5. \A e \in Engine : Fits(engine[e], Beside!Discovered(e))
  BY <1>1 DEF Fits
<1> QED BY <1>3, <1>4, <1>5 DEF BesideInv

LEMMA BesideKept == Beside!SidecarAssumption => (Beside!Spec => []BesideInv)
<1> SUFFICES ASSUME Beside!SidecarAssumption PROVE Beside!Spec => []BesideInv
  OBVIOUS
<1>1. Beside!Init => BesideInv BY BesideInit
<1>2. BesideInv /\ [Beside!Next]_(Beside!vars) => BesideInv'
  BY BesideStep
<1> QED BY <1>1, <1>2, PTL DEF Beside!Spec

LEMMA BesidePromises ==
    ASSUME Beside!SidecarAssumption, BesideInv
    PROVE  Beside!TypeOK /\ Beside!EngineKeepsItsSidecar
<1>1. Beside!EngineKeepsItsSidecar
  BY FitsIsLoaded DEF BesideInv, Beside!EngineKeepsItsSidecar
<1>2. BesideTypes BY DEF BesideInv
<1>3. ASSUME NEW p \in Proc
      PROVE  job[p].at \in {"idle", "publish", "parse", "engine", "place", "meta", "twin"}
  BY <1>2 DEF BesideTypes, BesideJobs, Phases, Beside!Idle
<1>4. \A e \in Engine : engine[e] = Nothing \/ engine[e] \in [model : Checkpoint, max : Batches]
  BY <1>2 DEF BesideTypes, Plans
<1> QED BY <1>1, <1>2, <1>3, <1>4 DEF BesideTypes, Beside!TypeOK

LEMMA SourceKept ==
    ASSUME Beside!SidecarAssumption, BesideInv
    PROVE  Beside!KeepsSource
<1> SUFFICES ASSUME NEW p \in Proc, Beside!Builds(p), job[p] # Beside!Idle
             PROVE  json'[job[p].src] = json[job[p].src]
  BY DEF Beside!KeepsSource
<1> QED
  BY PublishesPython, BuilderGivesUp, ParsesGraph, BacksUpEngine, PlacesEngine, PlaceFailing,
     PlacesMeta, RollsBackNative, EndsNative, StartsBuild DEF Beside!Builds

\* Whatever the two builders, the exports and the user do in between, no build changes the
\* sidecar of its own source, and the runtime takes every engine that was published undisturbed
\* with the labels of its graph, or none.
THEOREM SidecarsAreTheirEngines == BuildersSpec /\ program = variant => EngineKeepsItsSidecar
<1>1. CASE variant = "sidecars"
  <2>1. Beside!SidecarAssumption BY PartsAssumption
  <2>2. BesideInv => Beside!TypeOK /\ Beside!EngineKeepsItsSidecar
    BY <2>1, BesidePromises
  <2>3. BesideInv => Beside!KeepsSource BY <2>1, SourceKept
  <2>4. Beside!Spec => []BesideInv BY <2>1, BesideKept
  <2>5. BuildersSpec /\ program = variant => Beside!Spec
    BY <1>1, BesideRuns
  <2> QED BY <2>2, <2>3, <2>4, <2>5, PTL DEF EngineKeepsItsSidecar
<1>2. CASE variant # "sidecars"
  <2>1. program = variant => ~(program = "sidecars") BY <1>2
  <2> QED BY <2>1, ProgramStays, PTL DEF EngineKeepsItsSidecar
<1> QED BY <1>1, <1>2

------------------------------
(* The recipe of a build *)

\* The engine and the sidecar that the arguments and the graph determine.
EngineMade ==
    [batch |-> net.batch, outputs |-> net.outputs,
     profile |-> IF net.batch = Recipe!Dynamic THEN args.profile
                 ELSE <<net.batch, net.batch, net.batch>>,
     computed |-> Recipe!Computed, aux |-> Recipe!AuxStreams]
SidecarMade ==
    [names |-> Recipe!Names, classes |-> Recipe!Classes,
     precision |-> Recipe!Precision(Recipe!Flag), mode |-> Recipe!Mode(Recipe!Flag),
     decoder_fp32 |-> Recipe!DecoderFp32(Recipe!Flag),
     dynamic |-> engine.batch = Recipe!Dynamic, profile |-> engine.profile,
     compat |-> Recipe!AuxStreams = 0 /\ Recipe!OutputsFp32(engine.outputs, Recipe!Names)]

Validated == {"parse", "build", "inspect", "stamp", "published"}
Parsed == Validated \ {"parse"}
Serialized == Parsed \ {"build"}

RecipeInv ==
    /\ at \in {"start", "refused"} \cup Validated
    /\ args \in Recipe!Arguments /\ meta \in Sidecars \cup {Nothing}
       /\ net \in Networks \cup {Nothing}
    /\ at \in Validated => Recipe!ValidProfile(args.profile) /\ Recipe!ValidModes
    /\ at \in Parsed => net \in Networks
    /\ engine = Nothing \/ (engine.profile \in (Nat \ {0}) \X (Nat \ {0}) \X (Nat \ {0}))
    /\ at \in Serialized => engine = EngineMade /\ (args.strongly_typed => args.modes = {})
    /\ at \in {"stamp", "published"} => Recipe!EffectiveProfile(engine)
    /\ at = "published" => sidecar = SidecarMade

LEMMA RecipeStep ==
    ASSUME Recipe!RecipeAssumption, RecipeInv, Recipe!Next
    PROVE  RecipeInv'
<1>1. /\ "parse" \in Validated /\ "parse" \notin Parsed /\ "parse" \notin Serialized
      /\ "build" \in Validated /\ "build" \in Parsed /\ "build" \notin Serialized
      /\ "inspect" \in Validated /\ "inspect" \in Parsed /\ "inspect" \in Serialized
      /\ "stamp" \in Validated /\ "stamp" \in Parsed /\ "stamp" \in Serialized
      /\ "published" \in Validated /\ "published" \in Parsed /\ "published" \in Serialized
      /\ "refused" \notin Validated /\ "refused" \notin Parsed /\ "refused" \notin Serialized
      /\ "start" \notin Validated
  BY DEF Validated, Parsed, Serialized
<1>2. CASE Recipe!Validate
  <2>1. PICK m \in Sidecars :
          /\ meta' = m
          /\ at' = IF /\ Recipe!Readable(m) /\ Recipe!ValidProfile(args.profile)
                      /\ Recipe!ValidModes /\ Recipe!ValidPolicy
                   THEN "parse" ELSE "refused"
          /\ UNCHANGED <<args, net, engine, sidecar>>
    BY <1>2 DEF Recipe!Validate
  <2>2. Recipe!ValidModes' <=> Recipe!ValidModes
    BY <2>1 DEF Recipe!ValidModes
  <2>3. at' = "refused" \/ (at' = "parse" /\ Recipe!ValidProfile(args.profile) /\ Recipe!ValidModes)
    BY <2>1
  <2>4. Recipe!ValidProfile(args.profile)' <=> Recipe!ValidProfile(args.profile)
    BY <2>1
  <2> QED BY <1>1, <2>1, <2>2, <2>3, <2>4 DEF RecipeInv, Recipe!Arguments
<1>3. CASE Recipe!Parse
  <2>1. /\ at = "parse" /\ at' \in {"refused", "build"} /\ net' \in Networks
        /\ UNCHANGED <<args, meta, engine, sidecar>>
    BY <1>3 DEF Recipe!Parse
  <2>2. Recipe!ValidModes' <=> Recipe!ValidModes
    BY <2>1 DEF Recipe!ValidModes
  <2>4. Recipe!ValidProfile(args.profile)' <=> Recipe!ValidProfile(args.profile)
    BY <2>1
  <2> QED BY <1>1, <2>1, <2>2, <2>4 DEF RecipeInv, Recipe!Arguments
<1>4. CASE Recipe!ParseFails \/ Recipe!SerializeFails
  <2>1. at' = "refused" /\ UNCHANGED <<args, meta, net, engine, sidecar>>
    BY <1>4 DEF Recipe!ParseFails, Recipe!SerializeFails
  <2> QED BY <1>1, <2>1 DEF RecipeInv, Recipe!Arguments
<1>5. CASE Recipe!Serialize
  <2>1. /\ at = "build" /\ at' = "inspect" /\ engine' = EngineMade
        /\ args.strongly_typed => args.modes = {}
        /\ UNCHANGED <<args, meta, net, sidecar>>
    BY <1>5 DEF Recipe!Serialize, EngineMade
  <2>2. Recipe!ValidModes' <=> Recipe!ValidModes
    BY <2>1 DEF Recipe!ValidModes
  <2>4. Recipe!ValidProfile(args.profile)' <=> Recipe!ValidProfile(args.profile)
    BY <2>1
  <2>5. EngineMade' = EngineMade
    BY <2>1 DEF EngineMade, Recipe!Computed, Recipe!AuxStreams
  <2>6. engine'.profile \in (Nat \ {0}) \X (Nat \ {0}) \X (Nat \ {0})
    <3>1. net \in Networks /\ Recipe!ValidProfile(args.profile)
        /\ args.profile \in Int \X Int \X Int
      BY <1>1, <2>1 DEF RecipeInv, Recipe!RecipeAssumption, Recipe!Arguments
    <3>2. args.profile \in (Nat \ {0}) \X (Nat \ {0}) \X (Nat \ {0})
      BY <3>1 DEF Recipe!ValidProfile
    <3>3. net.batch = Recipe!Dynamic \/ net.batch \in Nat \ {0}
      BY <3>1 DEF Recipe!RecipeAssumption
    <3>4. engine'.profile = IF net.batch = Recipe!Dynamic THEN args.profile
                            ELSE <<net.batch, net.batch, net.batch>>
      BY <2>1 DEF EngineMade
    <3> QED BY <3>2, <3>3, <3>4
  <2> QED BY <1>1, <2>1, <2>2, <2>4, <2>5, <2>6 DEF RecipeInv, Recipe!Arguments
<1>6. CASE Recipe!Inspect
  <2>1. /\ at = "inspect" /\ at' = (IF Recipe!EffectiveProfile(engine) THEN "stamp" ELSE "refused")
        /\ UNCHANGED <<args, meta, net, engine, sidecar>>
    BY <1>6 DEF Recipe!Inspect
  <2>2. Recipe!ValidModes' <=> Recipe!ValidModes
    BY <2>1 DEF Recipe!ValidModes
  <2>4. Recipe!ValidProfile(args.profile)' <=> Recipe!ValidProfile(args.profile)
    BY <2>1
  <2>5. EngineMade' = EngineMade
    BY <2>1 DEF EngineMade, Recipe!Computed, Recipe!AuxStreams
  <2>6. Recipe!EffectiveProfile(engine)' <=> Recipe!EffectiveProfile(engine)
    BY <2>1 DEF Recipe!EffectiveProfile
  <2>7. (at' = "stamp" /\ Recipe!EffectiveProfile(engine)) \/ at' = "refused"
    BY <2>1
  <2> QED BY <1>1, <2>1, <2>2, <2>4, <2>5, <2>6, <2>7 DEF RecipeInv, Recipe!Arguments
<1>7. CASE Recipe!Stamp
  <2>1. /\ at = "stamp" /\ at' = "published" /\ sidecar' = SidecarMade
        /\ UNCHANGED <<args, meta, net, engine>>
    BY <1>7 DEF Recipe!Stamp, SidecarMade
  <2>2. Recipe!ValidModes' <=> Recipe!ValidModes
    BY <2>1 DEF Recipe!ValidModes
  <2>4. Recipe!ValidProfile(args.profile)' <=> Recipe!ValidProfile(args.profile)
    BY <2>1
  <2>5. EngineMade' = EngineMade
    BY <2>1 DEF EngineMade, Recipe!Computed, Recipe!AuxStreams
  <2>6. Recipe!EffectiveProfile(engine)' <=> Recipe!EffectiveProfile(engine)
    BY <2>1 DEF Recipe!EffectiveProfile
  <2>7. SidecarMade' = SidecarMade
    BY <2>1 DEF SidecarMade, Recipe!Names, Recipe!Classes, Recipe!Precision, Recipe!Mode,
       Recipe!DecoderFp32, Recipe!Flag, Recipe!AuxStreams, Recipe!LogitsWidth
  <2> QED BY <1>1, <2>1, <2>2, <2>4, <2>5, <2>6, <2>7 DEF RecipeInv, Recipe!Arguments
<1> QED BY <1>2, <1>3, <1>4, <1>5, <1>6, <1>7 DEF Recipe!Next

------------------------------
(* The recipe of a build: precision and types *)

LEMMA OneMode ==
    ASSUME args \in Recipe!Arguments, Recipe!ValidModes
    PROVE  args.modes = {} \/ \E m \in Recipe!Modes : args.modes = {m}
<1>1. args.modes \in SUBSET Recipe!Modes /\ Recipe!Cardinality(args.modes) <= 1
  BY DEF Recipe!Arguments, Recipe!ValidModes
<1>2. Recipe!Cardinality(args.modes) = Cardinality(args.modes)
  BY DEF Recipe!Cardinality, Cardinality
<1>3. IsFiniteSet(Recipe!Modes)
  <2>1. Recipe!Modes = ((({"fp16"} \cup {"fp16_decoder_fp32"}) \cup {"bf16_decoder_fp32"})
                        \cup {"int8"})
    BY DEF Recipe!Modes
  <2>2. \A m : IsFiniteSet({m}) BY FS_Singleton
  <2>3. IsFiniteSet({"fp16"} \cup {"fp16_decoder_fp32"})
    BY <2>2, FS_Union
  <2>4. IsFiniteSet(({"fp16"} \cup {"fp16_decoder_fp32"}) \cup {"bf16_decoder_fp32"})
    BY <2>2, <2>3, FS_Union
  <2>5. IsFiniteSet((({"fp16"} \cup {"fp16_decoder_fp32"}) \cup {"bf16_decoder_fp32"})
                    \cup {"int8"})
    BY <2>2, <2>4, FS_Union
  <2> QED BY <2>1, <2>5
<1>4. IsFiniteSet(args.modes) /\ Cardinality(args.modes) \in Nat
  BY <1>1, <1>3, FS_Subset, FS_CardinalityType
<1>5. Cardinality(args.modes) = 0 \/ Cardinality(args.modes) = 1
  BY <1>1, <1>2, <1>4
<1>6. Cardinality(args.modes) = 0 => args.modes = {}
  BY <1>4, FS_EmptySet
<1>7. Cardinality(args.modes) = 1 => \E m : args.modes = {m}
  BY <1>4, FS_Singleton
<1> QED BY <1>1, <1>5, <1>6, <1>7

\* What a flag makes of an engine, without a flag and with one.
LEMMA FlagFacts ==
    ASSUME Recipe!RecipeAssumption, args \in Recipe!Arguments, Recipe!ValidModes
    PROVE  /\ args.modes = {} => Recipe!Flag = Nothing
           /\ args.modes # {} => Recipe!Flag \in args.modes
              /\ Recipe!Flag \in Recipe!Modes \ {Nothing}
           /\ args.modes = {} /\ ~args.strongly_typed => Recipe!Computed = "fp32"
           /\ args.strongly_typed => Recipe!Computed = net.typed
           /\ args.modes # {} /\ ~args.strongly_typed
              => Recipe!Computed = Recipe!Precision(Recipe!Flag)
<1>1. \A m \in Recipe!Modes : m # Nothing BY DEF Recipe!RecipeAssumption
<1>2. CASE args.modes = {} BY <1>2 DEF Recipe!Flag, Recipe!Computed
<1>3. ASSUME NEW m \in Recipe!Modes, args.modes = {m} PROVE
        /\ Recipe!Flag = m
        /\ args.strongly_typed => Recipe!Computed = net.typed
        /\ ~args.strongly_typed => Recipe!Computed = Recipe!Precision(m)
  <2>1. Recipe!Flag = m BY <1>3 DEF Recipe!Flag
  <2>2. args.strongly_typed => Recipe!Computed = net.typed
    BY DEF Recipe!Computed
  <2> DEFINE fits(t) == \E k \in args.modes : \/ t = "fp16" /\ k \in {"fp16", "fp16_decoder_fp32"}
                                              \/ t = "bf16" /\ k = "bf16_decoder_fp32"
                                              \/ t = "int8" /\ k = "int8"
             types == {"fp16", "bf16", "int8"}
  <2>3. ~args.strongly_typed => Recipe!Computed = CHOOSE t \in types : fits(t)
    BY <1>3 DEF Recipe!Computed
  <2>4. \A t \in types : fits(t) <=> t = Recipe!Precision(m)
    BY <1>3 DEF Recipe!Precision, Recipe!Modes
  <2>5. Recipe!Precision(m) \in types
    BY DEF Recipe!Precision, Recipe!Modes
  <2>6. (CHOOSE t \in types : fits(t)) = Recipe!Precision(m)
    <3> HIDE DEF fits, types
    <3> QED BY <2>4, <2>5
  <2> QED BY <2>1, <2>2, <2>3, <2>6
<1> QED BY <1>1, <1>2, <1>3, OneMode

LEMMA RecipeIsHonest ==
    ASSUME Recipe!RecipeAssumption, RecipeInv
    PROVE  Recipe!TypeOK /\ Recipe!PrecisionHonest /\ Recipe!RecipeOfThisBuild
<1>1. at = "published" =>
        /\ args \in Recipe!Arguments /\ Recipe!ValidModes
        /\ engine = EngineMade /\ (args.strongly_typed => args.modes = {})
        /\ sidecar = SidecarMade /\ net \in Networks
        /\ meta \in Sidecars \cup {Nothing}
  BY DEF RecipeInv, Validated, Parsed, Serialized
<1>2. at = "published" =>
        /\ engine.computed = Recipe!Computed
        /\ sidecar.precision = Recipe!Precision(Recipe!Flag)
           /\ sidecar.mode = Recipe!Mode(Recipe!Flag)
        /\ sidecar.decoder_fp32 = Recipe!DecoderFp32(Recipe!Flag)
  <2>1. EngineMade.computed = Recipe!Computed BY DEF EngineMade
  <2>2. /\ SidecarMade.precision = Recipe!Precision(Recipe!Flag)
        /\ SidecarMade.mode = Recipe!Mode(Recipe!Flag)
        /\ SidecarMade.decoder_fp32 = Recipe!DecoderFp32(Recipe!Flag)
    BY DEF SidecarMade
  <2> QED BY <1>1, <2>1, <2>2
<1>3. at = "published" =>
        /\ args.modes = {} => Recipe!Flag = Nothing
        /\ args.modes # {} => Recipe!Flag \in args.modes /\ Recipe!Flag \in Recipe!Modes \ {Nothing}
        /\ args.modes = {} /\ ~args.strongly_typed => Recipe!Computed = "fp32"
        /\ args.strongly_typed => Recipe!Computed = net.typed
        /\ args.modes # {} /\ ~args.strongly_typed
           => Recipe!Computed = Recipe!Precision(Recipe!Flag)
  BY <1>1, FlagFacts
<1>4. Nothing \notin {"fp32", "strongly_typed_unknown", "fp16", "fp16_decoder_fp32",
                     "bf16_decoder_fp32", "int8"}
  BY DEF Recipe!RecipeAssumption, Recipe!Modes
<1>5. Recipe!TypeOK
  <2>1. at = "published" => sidecar.mode # Nothing
    BY <1>2, <1>4 DEF Recipe!Mode, Recipe!Default
  <2> QED BY <2>1 DEF RecipeInv, Recipe!TypeOK, Validated
<1>6. Recipe!PrecisionHonest
  <2>1. SUFFICES ASSUME at = "published",
                        meta # Nothing => Recipe!Default(meta.precision, "fp32") = net.typed,
                        args.strongly_typed \/ net.typed = "fp32"
                 PROVE  Recipe!Precision(Recipe!Flag) \in {Recipe!Computed, "unknown"}
    BY <1>2 DEF Recipe!PrecisionHonest, Recipe!Published
  <2>2. CASE args.modes = {}
    <3>1. Recipe!Flag = Nothing BY <1>3, <2>1, <2>2
    <3>2. Recipe!Precision(Nothing) = IF meta # Nothing THEN Recipe!Default(meta.precision, "fp32")
                                     ELSE IF args.strongly_typed THEN "unknown" ELSE "fp32"
      BY <1>4 DEF Recipe!Precision
    <3>3. Recipe!Computed = IF args.strongly_typed THEN net.typed ELSE "fp32"
      BY <1>1, <1>3, <2>1, <2>2 DEF Recipe!Arguments
    <3> QED BY <2>1, <3>1, <3>2, <3>3
  <2>3. CASE args.modes # {} BY <1>1, <1>3, <2>1, <2>3
  <2> QED BY <2>2, <2>3
<1>7. Recipe!RecipeOfThisBuild
  <2>1. SUFFICES ASSUME at = "published"
                 PROVE  /\ Recipe!DecoderFp32(Recipe!Flag) =>
                             Recipe!Pins \/ (args.modes = {} /\ meta # Nothing /\ meta.decoder_fp32)
                        /\ args.modes # {} => Recipe!Mode(Recipe!Flag) \in args.modes
    BY <1>2 DEF Recipe!RecipeOfThisBuild, Recipe!Published
  <2>2. CASE args.modes = {} BY <1>3, <2>1, <2>2 DEF Recipe!DecoderFp32
  <2>3. CASE args.modes # {}
    BY <1>3, <2>1, <2>3 DEF Recipe!DecoderFp32, Recipe!Mode, Recipe!Pins
  <2> QED BY <2>2, <2>3
<1> QED BY <1>5, <1>6, <1>7

------------------------------
(* The recipe of a build: what the runtime makes of it *)

TensorOf(outs, name) == CHOOSE t \in Recipe!Tensors(outs) : t.name = name

\* The outputs of a network have names of their own, so a name finds its tensor.
LEMMA TensorOfName ==
    ASSUME Recipe!RecipeAssumption, NEW n \in Networks
    PROVE  /\ \A t \in Recipe!Tensors(n.outputs) : t \in Recipe!Tensor
           /\ \A t, u \in Recipe!Tensors(n.outputs) : t.name = u.name => t = u
           /\ \A name \in Recipe!NamesOf(n.outputs) :
                /\ TensorOf(n.outputs, name) \in Recipe!Tensors(n.outputs)
                /\ TensorOf(n.outputs, name).name = name
<1>1. /\ n.outputs \in Seq(Recipe!Tensor)
      /\ \A i, j \in DOMAIN n.outputs : n.outputs[i].name = n.outputs[j].name => i = j
  BY DEF Recipe!RecipeAssumption
<1>2. \A t \in Recipe!Tensors(n.outputs) : t \in Recipe!Tensor
  BY <1>1 DEF Recipe!Tensors
<1>3. \A t, u \in Recipe!Tensors(n.outputs) : t.name = u.name => t = u
  BY <1>1 DEF Recipe!Tensors
<1>4. ASSUME NEW name \in Recipe!NamesOf(n.outputs)
      PROVE  /\ TensorOf(n.outputs, name) \in Recipe!Tensors(n.outputs)
             /\ TensorOf(n.outputs, name).name = name
  <2>1. \E t \in Recipe!Tensors(n.outputs) : t.name = name
    BY <1>4 DEF Recipe!NamesOf
  <2> QED BY <2>1 DEF TensorOf
<1> QED BY <1>2, <1>3, <1>4

Told(names, outs) ==
    names = Nothing \/ (Recipe!PairOfNames(names)
                        /\ Recipe!Range(names) \subseteq Recipe!NamesOf(outs))

\* Two outputs, one of which looks like boxes.
LEMMA OneOfTwo ==
    ASSUME Recipe!RecipeAssumption, NEW n \in Networks, Len(n.outputs) = 2,
           Recipe!Cardinality({i \in DOMAIN n.outputs : n.outputs[i].last = 4}) = 1
    PROVE  LET boxes == {i \in DOMAIN n.outputs : n.outputs[i].last = 4}
               b == CHOOSE i \in boxes : TRUE
           IN /\ b \in {1, 2} /\ n.outputs[b].last = 4 /\ n.outputs[3 - b].last # 4
              /\ Recipe!Tensors(n.outputs) = {n.outputs[3 - b], n.outputs[b]}
<1> DEFINE boxes == {i \in DOMAIN n.outputs : n.outputs[i].last = 4}
           b == CHOOSE i \in boxes : TRUE
<1>1. n.outputs \in Seq(Recipe!Tensor) /\ DOMAIN n.outputs = {1, 2}
  BY DEF Recipe!RecipeAssumption
<1>2. Cardinality(boxes) = 1 BY DEF Recipe!Cardinality, Cardinality
<1>3. IsFiniteSet(boxes)
  <2>1. IsFiniteSet({1} \cup {2}) BY FS_Singleton, FS_Union
  <2>2. boxes \subseteq {1} \cup {2} BY <1>1
  <2> QED BY <2>1, <2>2, FS_Subset
<1>4. \E i : boxes = {i}
  <2> HIDE DEF boxes
  <2> QED BY <1>2, <1>3, FS_Singleton
<1>5. b \in boxes /\ \A i \in boxes : i = b BY <1>4
<1>6. b \in {1, 2} /\ n.outputs[b].last = 4 BY <1>1, <1>5
<1>7. 3 - b \in {1, 2} /\ 3 - b # b /\ {1, 2} = {3 - b, b}
  <2> HIDE DEF b
  <2> QED BY <1>6
<1>8. n.outputs[3 - b].last # 4 BY <1>1, <1>5, <1>7
<1>9. Recipe!Tensors(n.outputs) = {n.outputs[3 - b], n.outputs[b]}
  <2>1. Recipe!Tensors(n.outputs) = {n.outputs[i] : i \in {3 - b, b}}
    BY <1>1, <1>7 DEF Recipe!Tensors
  <2> QED BY <2>1
<1> QED BY <1>6, <1>8, <1>9

\* The builder and the runtime take the same two outputs, or neither takes any.
LEMMA SameOutputs ==
    ASSUME Recipe!RecipeAssumption, NEW n \in Networks, NEW e, e.outputs = n.outputs, NEW s,
           s.names \in Seq(STRING) \cup {Nothing}
    PROVE  LET R == Recipe!Resolved(e, s)
               C == Recipe!Consumed(n.outputs, s.names)
               called == {"logits", "boxes"} \subseteq Recipe!NamesOf(n.outputs)
           IN /\ R = Nothing => C = {} \/ ~Told(s.names, n.outputs)
              /\ R # Nothing =>
                   /\ Told(s.names, n.outputs)
                   /\ C = {R.logits, R.boxes}
                   /\ R.logits \in Recipe!Tensors(n.outputs)
                      /\ R.boxes \in Recipe!Tensors(n.outputs)
                   /\ s.names # Nothing => R.logits.name = s.names[1] /\ R.boxes.name = s.names[2]
                   /\ s.names = Nothing /\ called
                      => R.logits.name = "logits" /\ R.boxes.name = "boxes"
                   /\ s.names = Nothing /\ ~called => R.logits.last # 4 /\ R.boxes.last = 4
              /\ R = Nothing \/ R \in [logits : Recipe!Tensor, boxes : Recipe!Tensor]
              /\ C # {} /\ Told(s.names, n.outputs) => R # Nothing
<1> DEFINE R == Recipe!Resolved(e, s)
           C == Recipe!Consumed(n.outputs, s.names)
           called == {"logits", "boxes"} \subseteq Recipe!NamesOf(n.outputs)
           tensor(name) == TensorOf(n.outputs, name)
<1>1. CASE s.names # Nothing /\ ~Told(s.names, n.outputs)
  <2>1. R = Nothing BY <1>1 DEF Recipe!Resolved, Told
  <2> QED BY <1>1, <2>1
<1>2. CASE s.names # Nothing /\ Told(s.names, n.outputs)
  <2>1. s.names \in Seq(STRING) /\ Len(s.names) = 2
      /\ Recipe!Range(s.names) = {s.names[1], s.names[2]}
    BY <1>2 DEF Told, Recipe!PairOfNames, Recipe!Range
  <2>2. s.names[1] \in Recipe!NamesOf(n.outputs) /\ s.names[2] \in Recipe!NamesOf(n.outputs)
    BY <1>2, <2>1 DEF Told
  <2>3. R = [logits |-> tensor(s.names[1]), boxes |-> tensor(s.names[2])]
    BY <1>2 DEF Recipe!Resolved, Told, TensorOf
  <2>4. C = Recipe!Named(n.outputs, {s.names[1], s.names[2]})
    BY <1>2, <2>1 DEF Recipe!Consumed, Told
  <2>5. PICK t \in Recipe!Tensors(n.outputs), u \in Recipe!Tensors(n.outputs) :
          /\ t = tensor(s.names[1]) /\ u = tensor(s.names[2]) /\ t.name = s.names[1]
             /\ u.name = s.names[2]
          /\ t \in Recipe!Tensor /\ u \in Recipe!Tensor
    <3>1. PICK a \in Recipe!NamesOf(n.outputs), b \in Recipe!NamesOf(n.outputs) :
            a = s.names[1] /\ b = s.names[2]
      BY <2>2
    <3>2. PICK t \in Recipe!Tensors(n.outputs), u \in Recipe!Tensors(n.outputs) :
            /\ t = TensorOf(n.outputs, a) /\ u = TensorOf(n.outputs, b)
            /\ t.name = a /\ u.name = b /\ t \in Recipe!Tensor /\ u \in Recipe!Tensor
      BY TensorOfName
    <3> QED BY <3>1, <3>2
  <2> HIDE DEF R, C, tensor
  <2>6. R.logits = t /\ R.boxes = u /\ R \in [logits : Recipe!Tensor, boxes : Recipe!Tensor]
    BY <2>3, <2>5
  <2>7. R # Nothing BY <2>6 DEF Recipe!RecipeAssumption
  <2>8. C = {R.logits, R.boxes} /\ C # {}
    <3>1. \A k \in C : k = t \/ k = u
      BY <2>4, <2>5, TensorOfName DEF Recipe!Named
    <3>2. t \in C /\ u \in C BY <2>4, <2>5 DEF Recipe!Named
    <3> QED BY <2>6, <3>1, <3>2
  <2> QED BY <1>2, <2>5, <2>6, <2>7, <2>8 DEF R, C
<1>3. CASE s.names = Nothing /\ called
  <2>2. "logits" \in Recipe!NamesOf(n.outputs) /\ "boxes" \in Recipe!NamesOf(n.outputs)
    BY <1>3
  <2>3. R = [logits |-> tensor("logits"), boxes |-> tensor("boxes")]
    BY <1>3 DEF Recipe!Resolved, TensorOf
  <2>4. C = Recipe!Named(n.outputs, {"logits", "boxes"})
    BY <1>3 DEF Recipe!Consumed, Recipe!PairOfNames
  <2>5. PICK t \in Recipe!Tensors(n.outputs), u \in Recipe!Tensors(n.outputs) :
          /\ t = tensor("logits") /\ u = tensor("boxes") /\ t.name = "logits" /\ u.name = "boxes"
          /\ t \in Recipe!Tensor /\ u \in Recipe!Tensor
    <3>1. PICK a \in Recipe!NamesOf(n.outputs), b \in Recipe!NamesOf(n.outputs) :
            a = "logits" /\ b = "boxes"
      BY <2>2
    <3>2. PICK t \in Recipe!Tensors(n.outputs), u \in Recipe!Tensors(n.outputs) :
            /\ t = TensorOf(n.outputs, a) /\ u = TensorOf(n.outputs, b)
            /\ t.name = a /\ u.name = b /\ t \in Recipe!Tensor /\ u \in Recipe!Tensor
      BY TensorOfName
    <3> QED BY <3>1, <3>2
  <2> HIDE DEF R, C, tensor
  <2>6. R.logits = t /\ R.boxes = u /\ R \in [logits : Recipe!Tensor, boxes : Recipe!Tensor]
    BY <2>3, <2>5
  <2>7. R # Nothing BY <2>6 DEF Recipe!RecipeAssumption
  <2>8. C = {R.logits, R.boxes} /\ C # {}
    <3>1. \A k \in C : k = t \/ k = u
      BY <2>4, <2>5, TensorOfName DEF Recipe!Named
    <3>2. t \in C /\ u \in C BY <2>4, <2>5 DEF Recipe!Named
    <3> QED BY <2>6, <3>1, <3>2
  <2> QED BY <1>3, <2>5, <2>6, <2>7, <2>8 DEF R, C, Told
<1>4. CASE s.names = Nothing /\ ~called
  <2> DEFINE boxes == {i \in DOMAIN n.outputs : n.outputs[i].last = 4}
             b == CHOOSE i \in boxes : TRUE
             apart == Len(n.outputs) = 2 /\ Recipe!Cardinality(boxes) = 1
  <2>1. R = IF apart THEN [logits |-> n.outputs[3 - b], boxes |-> n.outputs[b]] ELSE Nothing
    BY <1>4 DEF Recipe!Resolved
  <2>2. C = IF apart THEN Recipe!Tensors(n.outputs) ELSE {}
    BY <1>4 DEF Recipe!Consumed, Recipe!PairOfNames
  <2>3. CASE ~apart BY <1>4, <2>1, <2>2, <2>3
  <2>4. CASE apart
    <3>1. /\ b \in {1, 2} /\ n.outputs[b].last = 4 /\ n.outputs[3 - b].last # 4
          /\ Recipe!Tensors(n.outputs) = {n.outputs[3 - b], n.outputs[b]}
      BY <2>4, OneOfTwo
    <3> HIDE DEF R, C, b
    <3>2. n.outputs[3 - b] \in Recipe!Tensors(n.outputs)
        /\ n.outputs[b] \in Recipe!Tensors(n.outputs)
      BY <3>1
    <3>3. n.outputs[3 - b] \in Recipe!Tensor /\ n.outputs[b] \in Recipe!Tensor
      BY <3>2, TensorOfName
    <3>4. /\ R.logits = n.outputs[3 - b] /\ R.boxes = n.outputs[b]
          /\ R \in [logits : Recipe!Tensor, boxes : Recipe!Tensor] /\ R # Nothing
      BY <2>1, <2>4, <3>3 DEF Recipe!RecipeAssumption
    <3>5. /\ C = {R.logits, R.boxes} /\ R.logits \in Recipe!Tensors(n.outputs)
          /\ R.boxes \in Recipe!Tensors(n.outputs) /\ R.logits.last # 4 /\ R.boxes.last = 4
      BY <2>2, <2>4, <3>1, <3>2, <3>4
    <3> QED BY <1>4, <3>4, <3>5 DEF R, C, Told
  <2> QED BY <2>3, <2>4
<1> QED BY <1>1, <1>2, <1>3, <1>4 DEF Told

LEMMA RecipeIsLoadable ==
    ASSUME Recipe!RecipeAssumption, RecipeInv
    PROVE  Recipe!BuiltIsLoadable /\ Recipe!GraphClaimHolds
<1>1. SUFFICES ASSUME at = "published"
               PROVE  /\ meta # Nothing /\ Recipe!Describes(meta, net) =>
                           (Recipe!Consumed(engine.outputs, sidecar.names) # {}
                              <=> Recipe!Accepted(engine, sidecar))
                      /\ sidecar.compat /\ Recipe!Accepted(engine, sidecar) =>
                           Recipe!GraphSupported(engine, sidecar)
  BY DEF Recipe!BuiltIsLoadable, Recipe!GraphClaimHolds, Recipe!Published
<1>2. /\ engine = EngineMade /\ sidecar = SidecarMade /\ net \in Networks
      /\ meta \in Sidecars \cup {Nothing} /\ Recipe!EffectiveProfile(engine)
      /\ Recipe!ValidProfile(args.profile) /\ args \in Recipe!Arguments
  BY <1>1 DEF RecipeInv, Validated, Parsed, Serialized
<1>3. /\ engine.outputs = net.outputs /\ engine.batch = net.batch /\ engine.aux = Recipe!AuxStreams
      /\ engine.profile = IF net.batch = Recipe!Dynamic THEN args.profile
                          ELSE <<net.batch, net.batch, net.batch>>
  BY <1>2 DEF EngineMade
<1>4. /\ sidecar.names = Recipe!Names /\ sidecar.classes = Recipe!Classes
      /\ sidecar.dynamic = (engine.batch = Recipe!Dynamic) /\ sidecar.profile = engine.profile
      /\ sidecar.compat = (Recipe!AuxStreams = 0
                           /\ Recipe!OutputsFp32(engine.outputs, Recipe!Names))
  BY <1>2 DEF SidecarMade
<1>5. Recipe!Names \in Seq(STRING) \cup {Nothing}
  BY <1>2 DEF Recipe!Names, Recipe!RecipeAssumption, Recipe!Optional
<1> DEFINE R == Recipe!Resolved(engine, sidecar)
           C == Recipe!Consumed(net.outputs, sidecar.names)
           called == {"logits", "boxes"} \subseteq Recipe!NamesOf(net.outputs)
<1>6. /\ R = Nothing => C = {} \/ ~Told(sidecar.names, net.outputs)
      /\ R # Nothing =>
           /\ Told(sidecar.names, net.outputs)
           /\ C = {R.logits, R.boxes}
           /\ R.logits \in Recipe!Tensors(net.outputs) /\ R.boxes \in Recipe!Tensors(net.outputs)
           /\ sidecar.names # Nothing
              => R.logits.name = sidecar.names[1] /\ R.boxes.name = sidecar.names[2]
           /\ sidecar.names = Nothing /\ called
              => R.logits.name = "logits" /\ R.boxes.name = "boxes"
           /\ sidecar.names = Nothing /\ ~called => R.logits.last # 4 /\ R.boxes.last = 4
  BY <1>2, <1>3, <1>4, <1>5, SameOutputs, ZenonT(60)
<1>7. Recipe!Accepted(engine, sidecar) <=>
        /\ R # Nothing /\ R.boxes.last = 4
        /\ sidecar.classes # Nothing => sidecar.classes = R.logits.last
  <2>1. engine.batch \in {Recipe!Dynamic, 1} /\ engine.profile = args.profile
    BY <1>2 DEF Recipe!EffectiveProfile
  <2>2. args.profile \in Int \X Int \X Int
    BY <1>2 DEF Recipe!Arguments, Recipe!RecipeAssumption
  <2>3. /\ engine.profile[1] > 0 /\ engine.profile[1] <= engine.profile[2]
        /\ engine.profile[2] <= engine.profile[3]
    BY <1>2, <2>1, <2>2 DEF Recipe!ValidProfile
  <2>4. sidecar.profile = (IF engine.batch = Recipe!Dynamic THEN engine.profile ELSE <<1, 1, 1>>)
    BY <1>3, <1>4, <2>1
  <2> QED BY <1>4, <2>1, <2>3, <2>4 DEF Recipe!Accepted
<1>8. ASSUME sidecar.compat, Recipe!Accepted(engine, sidecar)
      PROVE  Recipe!GraphSupported(engine, sidecar)
  <2>1. R # Nothing /\ Recipe!AuxStreams = 0 /\ Recipe!OutputsFp32(net.outputs, sidecar.names)
    BY <1>3, <1>4, <1>7, <1>8
  <2>2. \A t \in C : t.fp32 BY <2>1 DEF Recipe!OutputsFp32
  <2>3. R.logits.fp32 /\ R.boxes.fp32
    <3> HIDE DEF R, C
    <3> QED BY <1>6, <2>1, <2>2
  <2> QED BY <1>3, <2>1, <2>3 DEF Recipe!GraphSupported
<1>9. ASSUME meta # Nothing, Recipe!Describes(meta, net)
      PROVE  C # {} <=> Recipe!Accepted(engine, sidecar)
  <2>1. sidecar.names = meta.names /\ sidecar.classes = meta.classes
    BY <1>4, <1>9 DEF Recipe!Names, Recipe!Classes
  <2>2. Told(sidecar.names, net.outputs)
    BY <1>9, <2>1 DEF Recipe!Describes, Told
  <2>3. \A t \in Recipe!Tensors(net.outputs) :
          t.name = (IF meta.names # Nothing THEN meta.names[2] ELSE "boxes") => t.last = 4
    BY <1>9 DEF Recipe!Describes
  <2>4. \A t \in Recipe!Tensors(net.outputs) :
          /\ meta.classes # Nothing
          /\ IF meta.names # Nothing THEN t.name = meta.names[1]
             ELSE IF called THEN t.name = "logits" ELSE t.last # 4
          => t.last = meta.classes
    BY <1>9 DEF Recipe!Describes
  <2> HIDE DEF R, C, called
  <2>5. R # Nothing => C # {} /\ R.boxes.last = 4
      /\ (meta.classes # Nothing => meta.classes = R.logits.last)
    BY <1>6, <2>1, <2>3, <2>4
  <2> QED BY <1>6, <1>7, <2>1, <2>2, <2>5
<1> QED BY <1>3, <1>8, <1>9

LEMMA RecipeKept == Recipe!Spec => []RecipeInv
<1>1. Recipe!Init => RecipeInv
  BY DEF Recipe!Init, RecipeInv, Validated, Parsed, Serialized
<1>2. RecipeInv /\ [Recipe!Next]_(Recipe!vars) => RecipeInv'
  <2> SUFFICES ASSUME RecipeInv, [Recipe!Next]_(Recipe!vars)
               PROVE  RecipeInv'
    OBVIOUS
  <2>1. CASE Recipe!Next BY <2>1, RecipeStep, PartsAssumption
  <2>2. CASE UNCHANGED Recipe!vars
    <3>1. UNCHANGED <<at, args, meta, net, engine, sidecar>>
      BY <2>2 DEF Recipe!vars
    <3>2. /\ Recipe!ValidModes' <=> Recipe!ValidModes
          /\ Recipe!ValidProfile(args.profile)' <=> Recipe!ValidProfile(args.profile)
      BY <3>1 DEF Recipe!ValidModes
    <3>3. EngineMade' = EngineMade
        /\ (Recipe!EffectiveProfile(engine)' <=> Recipe!EffectiveProfile(engine))
      BY <3>1 DEF EngineMade, Recipe!Computed, Recipe!AuxStreams, Recipe!EffectiveProfile
    <3>4. SidecarMade' = SidecarMade
      BY <3>1 DEF SidecarMade, Recipe!Names, Recipe!Classes, Recipe!Precision, Recipe!Mode,
         Recipe!DecoderFp32, Recipe!Flag, Recipe!AuxStreams, Recipe!LogitsWidth
    <3> QED BY <3>1, <3>2, <3>3, <3>4 DEF RecipeInv, Recipe!Arguments
  <2> QED BY <2>1, <2>2
<1> QED BY <1>1, <1>2, PTL DEF Recipe!Spec

\* Whatever flags, graph and sidecar build_engine.py is given, the runtime accepts what it
\* publishes exactly when the builder could tell the outputs apart, captures graphs where the
\* sidecar says it may, and the precision and the recipe recorded are those of this very build
\* (build_engine.py build, DFineDetector::Impl).
THEOREM RecipesAreHonest == BuildersSpec /\ program = variant => []BuiltIsLoadable
<1>1. CASE variant = "recipe"
  <2>1. Recipe!RecipeAssumption BY PartsAssumption
  <2>2. RecipeInv => BuiltIsLoadable
    BY <2>1, RecipeIsHonest, RecipeIsLoadable DEF BuiltIsLoadable
  <2> QED BY <1>1, <2>2, RecipeRuns, RecipeKept, PTL
<1>2. CASE variant # "recipe"
  <2>1. program = variant => BuiltIsLoadable BY <1>2 DEF BuiltIsLoadable
  <2> QED BY <2>1, ProgramStays, PTL
<1> QED BY <1>1, <1>2

------------------------------
(* The two FP16 converters (TypeHarmonizer).  A pass adds casts to a list *)
(* and the end of it puts them in: while it runs, the graph and the list  *)
(* fit together, and the surgical tool knows the type of all there is, in *)
(* which what it has visited is exact.  The second pass finds that it is. *)

\* Induction over a set: no operator has to be instantiated.
LEMMA NatInductive ==
    ASSUME NEW S, 0 \in S, \A n \in Nat : n \in S => n + 1 \in S
    PROVE  Nat \subseteq S
<1> DEFINE R == OpToRel(<, Nat)
<1>1. IsWellFoundedOn(R, Nat) BY NatLessThanWellFounded
<1>2. \A a, b \in Nat : a < b => <<a, b>> \in R BY DEF OpToRel
<1> HIDE DEF R
<1> SUFFICES ASSUME Nat \ S # {}
             PROVE  FALSE
  OBVIOUS
<1>3. \E m \in Nat \ S : \A k \in Nat \ S : ~ (<<k, m>> \in R)
  BY <1>1, WFMin
<1>4. PICK m \in Nat \ S : \A k \in Nat \ S : ~ (<<k, m>> \in R) BY <1>3
<1>5. m # 0 /\ m - 1 \in Nat /\ m - 1 + 1 = m /\ m - 1 < m BY <1>4
<1>6. m - 1 \in S BY <1>2, <1>4, <1>5
<1> QED BY <1>4, <1>5, <1>6

\* The names a tensor may have: those of the graph, of its copies and of the casts.
HarmNames == Repairs[variant].names
HarmOps == Repairs[variant].ops \cup {"Cast16", "Cast32"}
Bare ==
    {Harmonizer(variant)!Image, Harmonizer(variant)!Weight, Harmonizer(variant)!Inner}
        \cup {Harmonizer(variant)!Tensor(HarmNames[j]) : j \in DOMAIN HarmNames}
Copied ==
    {Harmonizer(variant)!Copy(Harmonizer(variant)!Weight, type) :
        type \in Harmonizer(variant)!Float}
Casted == {Harmonizer(variant)!CastName(t, m) : t \in Bare, m \in Nat}
AllTensors == Bare \cup Copied \cup Casted

\* A cast reads one tensor.
Nodes ==
    {node \in [op : HarmOps, block : BOOLEAN, ins : AllTensors \X AllTensors, out : AllTensors] :
        Harmonizer(variant)!IsCast(node.op) => node.ins[1] = node.ins[2]}

OutsBefore(g, n) == {g[j].out : j \in 1 .. n - 1}

\* No two makers of a tensor, and none of what is there from the start.
OneMaker(g, A) ==
    /\ \A n \in 1 .. Len(g) : g[n].out \notin A
    /\ \A n, j \in 1 .. Len(g) : g[n].out = g[j].out => n = j

Formed(g, A) ==
    /\ g \in Seq(Nodes) /\ OneMaker(g, A)
    /\ \A n \in 1 .. Len(g) : \A k \in {1, 2} : g[n].ins[k] \in A \cup OutsBefore(g, n)

\* The first m casts have their place in the graph, and what they need before it.
CastsFit(g, A, casts, m) ==
    /\ \A c \in 1 .. m :
           /\ casts[c][1] \in 1 .. Len(g) /\ casts[c][2] \in Nodes
           /\ casts[c][2].out \notin A
           /\ \A n \in 1 .. Len(g) : casts[c][2].out # g[n].out
           /\ \A k \in {1, 2} : casts[c][2].ins[k] \in A \cup OutsBefore(g, casts[c][1])
    /\ \A c, d \in 1 .. m : c <= d => casts[c][1] <= casts[d][1]
    /\ \A c, d \in 1 .. m : casts[c][2].out = casts[d][2].out => c = d

\* What the first m casts make before node n.
CastBefore(casts, m, n) == {casts[c][2].out : c \in {d \in 1 .. m : casts[d][1] <= n}}

\* A graph that is formed once the casts are in it.
Fitting(g, A, casts, m) ==
    /\ g \in Seq(Nodes) /\ m \in Nat /\ OneMaker(g, A) /\ CastsFit(g, A, casts, m)
    /\ \A n \in 1 .. Len(g) : \A k \in {1, 2} :
           g[n].ins[k] \in A \cup OutsBefore(g, n) \cup CastBefore(casts, m, n)

LEMMA FittingIsFormed ==
    ASSUME NEW g, NEW A, NEW casts, Fitting(g, A, casts, 0)
    PROVE  Formed(g, A)
<1>1. \A n : CastBefore(casts, 0, n) = {} BY DEF CastBefore
<1> QED BY <1>1 DEF Fitting, Formed

LEMMA FormedIsFitting ==
    ASSUME NEW g, NEW A, NEW casts, Formed(g, A)
    PROVE  Fitting(g, A, casts, 0)
<1>1. CastsFit(g, A, casts, 0) BY DEF CastsFit
<1> QED BY <1>1 DEF Fitting, Formed

\* h is g with the node x inserted at place p.
Put(g, p, x, h) ==
    /\ h \in Seq(Nodes) /\ Len(h) = Len(g) + 1 /\ h[p] = x
    /\ \A j \in 1 .. p - 1 : h[j] = g[j]
    /\ \A j \in p + 1 .. Len(h) : h[j] = g[j - 1]

LEMMA Inserted ==
    ASSUME NEW g \in Seq(Nodes), NEW x \in Nodes, NEW p \in 1 .. Len(g), NEW h,
           h = Harmonizer(variant)!InsertAt(g, p, x)
    PROVE  Put(g, p, x, h)
<1> DEFINE a == SubSeq(g, 1, p - 1)
           b == <<x>>
           c == SubSeq(g, p, Len(g))
<1>1. a \in Seq(Nodes) /\ Len(a) = p - 1 /\ \A j \in 1 .. p - 1 : a[j] = g[j]
  OBVIOUS
<1>2. /\ c \in Seq(Nodes) /\ Len(c) = Len(g) - p + 1
      /\ \A j \in 1 .. Len(g) - p + 1 : c[j] = g[p + j - 1]
  OBVIOUS
<1>3. b \in Seq(Nodes) /\ Len(b) = 1 /\ b[1] = x OBVIOUS
<1>4. h = (a \o b) \o c BY DEF Harmonizer!InsertAt
<1> HIDE DEF a, b, c
<1> DEFINE d == a \o b
<1>5. d \in Seq(Nodes) /\ Len(d) = p /\ d[p] = x /\ \A j \in 1 .. p - 1 : d[j] = g[j]
  <2>1. p \in Nat /\ p - 1 \in Nat /\ (p - 1) + 1 = p OBVIOUS
  <2>2. /\ d \in Seq(Nodes) /\ Len(d) = Len(a) + Len(b)
        /\ \A j \in 1 .. Len(a) + Len(b) : d[j] = IF j <= Len(a) THEN a[j] ELSE b[j - Len(a)]
    BY <1>1, <1>3, ConcatProperties
  <2> HIDE DEF d
  <2>3. d \in Seq(Nodes) /\ Len(d) = p BY <2>1, <2>2, <1>1, <1>3
  <2>4. d[p] = b[1]
    <3>1. d[p] = b[p - Len(a)]
      <4>1. p \in 1 .. Len(a) + Len(b) /\ ~(p <= Len(a))
        BY <2>1, <1>1, <1>3
      <4> QED BY <2>2, <4>1, Zenon
    <3> QED BY <3>1, <2>1, <1>1
  <2>5. \A j \in 1 .. p - 1 : d[j] = a[j] BY <2>1, <2>2, <1>1, <1>3
  <2> QED BY <2>3, <2>4, <2>5, <1>1, <1>3
<1>6. h = d \o c BY <1>4
<1> HIDE DEF d
<1>7. h \in Seq(Nodes) /\ Len(h) = Len(g) + 1
  <2>1. h \in Seq(Nodes) /\ Len(h) = Len(d) + Len(c)
    BY <1>2, <1>5, <1>6, ConcatProperties
  <2>2. Len(d) + Len(c) = Len(g) + 1 BY <1>2, <1>5
  <2> QED BY <2>1, <2>2
<1>8. \A j \in 1 .. p : h[j] = d[j] BY <1>2, <1>5, <1>6
<1>9. \A j \in p + 1 .. Len(h) : h[j] = c[j - p]
  BY <1>2, <1>5, <1>6, <1>7
<1> QED
  <2>1. \A j \in p + 1 .. Len(h) : j - p \in 1 .. Len(g) - p + 1 /\ p + (j - p) - 1 = j - 1
    BY <1>7
  <2> QED BY <1>2, <1>5, <1>7, <1>8, <1>9, <2>1 DEF Put

\* What the nodes of g and the casts are made of.
Has(g, node) == \E n \in 1 .. Len(g) : g[n] = node

LEMMA InsertFits ==
    ASSUME NEW g, NEW A, NEW casts, NEW m \in Nat, Fitting(g, A, casts, m + 1),
           NEW h, h = Harmonizer(variant)!InsertAt(g, casts[m + 1][1], casts[m + 1][2])
    PROVE  /\ Fitting(h, A, casts, m) /\ Len(g) \in Nat /\ Len(h) = Len(g) + 1
           /\ \A node : Has(h, node) <=> Has(g, node) \/ node = casts[m + 1][2]
<1> DEFINE p == casts[m + 1][1]
           x == casts[m + 1][2]
           N == Len(g)
<1>1. g \in Seq(Nodes) /\ N \in Nat /\ p \in 1 .. N /\ x \in Nodes
  BY DEF Fitting, CastsFit
<1>2. /\ h \in Seq(Nodes) /\ Len(h) = N + 1 /\ h[p] = x
      /\ \A j \in 1 .. p - 1 : h[j] = g[j]
      /\ \A j \in p + 1 .. N + 1 : h[j] = g[j - 1]
  <2>1. Put(g, p, x, h) BY <1>1, Inserted
  <2> QED BY <2>1 DEF Put
<1>3. /\ x.out \notin A /\ \A n \in 1 .. N : x.out # g[n].out
      /\ \A k \in {1, 2} : x.ins[k] \in A \cup OutsBefore(g, p)
      /\ \A c \in 1 .. m : casts[c][1] <= p /\ casts[c][2].out # x.out
  <2>1. CastsFit(g, A, casts, m + 1) /\ m + 1 \in 1 .. m + 1
    BY DEF Fitting
  <2>2. \A c \in 1 .. m : c \in 1 .. m + 1 /\ c <= m + 1 /\ c # m + 1
    OBVIOUS
  <2>3. /\ x.out \notin A /\ \A n \in 1 .. N : x.out # g[n].out
        /\ \A k \in {1, 2} : x.ins[k] \in A \cup OutsBefore(g, p)
    BY <2>1, Zenon DEF CastsFit
  <2>4. \A c \in 1 .. m : casts[c][1] <= p /\ casts[c][2].out # x.out
    BY <2>1, <2>2, Zenon DEF CastsFit
  <2> QED BY <2>3, <2>4
<1>4. \A c \in 1 .. m :
           /\ casts[c][1] \in 1 .. N /\ casts[c][2] \in Nodes
           /\ casts[c][2].out \notin A
           /\ \A n \in 1 .. N : casts[c][2].out # g[n].out
           /\ \A k \in {1, 2} : casts[c][2].ins[k] \in A \cup OutsBefore(g, casts[c][1])
  BY DEF Fitting, CastsFit
<1>5. /\ \A c, d \in 1 .. m : c <= d => casts[c][1] <= casts[d][1]
      /\ \A c, d \in 1 .. m : casts[c][2].out = casts[d][2].out => c = d
  BY DEF Fitting, CastsFit
<1>6. /\ \A n \in 1 .. N : g[n].out \notin A
      /\ \A n, j \in 1 .. N : g[n].out = g[j].out => n = j
  BY DEF Fitting, OneMaker
<1>7. \A n \in 1 .. N : \A k \in {1, 2} :
           g[n].ins[k] \in A \cup OutsBefore(g, n) \cup CastBefore(casts, m + 1, n)
  BY DEF Fitting
<1> HIDE DEF p, x, N
<1>8. \A n \in 1 .. N + 1 : n \in 1 .. p - 1 \/ n = p \/ (n \in p + 1 .. N + 1 /\ n - 1 \in 1 .. N)
  BY <1>1
<1>9. OneMaker(h, A)
  <2>0. \A n \in 1 .. N + 1 : n = p \/ \E q \in 1 .. N : h[n] = g[q]
    BY <1>1, <1>2, <1>8
  <2>1. \A n \in 1 .. N + 1 : h[n].out \notin A
    BY <2>0, <1>2, <1>3, <1>6, Zenon
  <2>2. ASSUME NEW n \in 1 .. N + 1, NEW j \in 1 .. N + 1, h[n].out = h[j].out
        PROVE  n = j
    <3>1. CASE n = p BY <3>1, <2>0, <2>2, <1>2, <1>3, ZenonT(60)
    <3>2. CASE j = p BY <3>2, <2>0, <2>2, <1>2, <1>3, ZenonT(60)
    <3>3. CASE n # p /\ j # p
      <4> DEFINE u == IF n < p THEN n ELSE n - 1
                 v == IF j < p THEN j ELSE j - 1
      <4>1. u \in 1 .. N /\ v \in 1 .. N BY <3>3, <1>1
      <4>2. h[n] = g[u] /\ h[j] = g[v]
        BY <3>3, <1>1, <1>2, <1>8, SMTT(60)
      <4>3. u = v
        <5> HIDE DEF u, v
        <5> QED BY <4>1, <4>2, <2>2, <1>6
      <4> QED BY <4>3, <3>3, <1>1
    <3> QED BY <3>1, <3>2, <3>3
  <2> QED BY <2>1, <2>2, <1>2 DEF OneMaker
<1>10. \A n \in 1 .. p : OutsBefore(h, n) = OutsBefore(g, n)
  <2> SUFFICES ASSUME NEW n \in 1 .. p
               PROVE  OutsBefore(h, n) = OutsBefore(g, n)
    OBVIOUS
  <2>1. \A j \in 1 .. n - 1 : h[j] = g[j] BY <1>1, <1>2
  <2> QED BY <2>1 DEF OutsBefore
<1>11. \A n \in p + 1 .. N + 1 : OutsBefore(g, n - 1) \subseteq OutsBefore(h, n)
    /\ x.out \in OutsBefore(h, n)
  <2> SUFFICES ASSUME NEW n \in p + 1 .. N + 1
               PROVE  OutsBefore(g, n - 1) \subseteq OutsBefore(h, n) /\ x.out \in OutsBefore(h, n)
    OBVIOUS
  <2>1. x.out \in OutsBefore(h, n)
    <3>1. p \in 1 .. n - 1 BY <1>1
    <3> QED BY <3>1, <1>2 DEF OutsBefore
  <2>2. ASSUME NEW j \in 1 .. (n - 1) - 1
        PROVE  g[j].out \in OutsBefore(h, n)
    <3>1. CASE j < p
      <4>1. h[j] = g[j] /\ j \in 1 .. n - 1 BY <3>1, <1>1, <1>2
      <4> QED BY <4>1 DEF OutsBefore
    <3>2. CASE ~(j < p)
      <4>1. j + 1 \in p + 1 .. N + 1 /\ j + 1 \in 1 .. n - 1 /\ (j + 1) - 1 = j
        BY <3>2, <1>1
      <4>2. h[j + 1] = g[j] BY <4>1, <1>2
      <4> QED BY <4>1, <4>2 DEF OutsBefore
    <3> QED BY <3>1, <3>2
  <2> QED BY <2>1, <2>2 DEF OutsBefore
<1>12. CastsFit(h, A, casts, m)
  <2>1. ASSUME NEW c \in 1 .. m
        PROVE  /\ casts[c][1] \in 1 .. N + 1 /\ casts[c][2] \in Nodes
               /\ casts[c][2].out \notin A
               /\ \A n \in 1 .. N + 1 : casts[c][2].out # h[n].out
               /\ \A k \in {1, 2} : casts[c][2].ins[k] \in A \cup OutsBefore(h, casts[c][1])
    <3>1. casts[c][1] \in 1 .. N + 1 /\ casts[c][2] \in Nodes /\ casts[c][2].out \notin A
      BY <1>1, <1>4
    <3>2. ASSUME NEW n \in 1 .. N + 1
          PROVE  casts[c][2].out # h[n].out
      <4>1. CASE n \in 1 .. p - 1
        <5>1. h[n] = g[n] /\ n \in 1 .. N BY <4>1, <1>1, <1>2
        <5> QED BY <5>1, <1>4
      <4>2. CASE n = p BY <4>2, <1>2, <1>3
      <4>3. CASE n \in p + 1 .. N + 1 /\ n - 1 \in 1 .. N
        <5>1. h[n] = g[n - 1] BY <4>3, <1>2
        <5> QED BY <5>1, <4>3, <1>4
      <4> QED BY <4>1, <4>2, <4>3, <1>8
    <3>3. casts[c][1] \in 1 .. p BY <1>1, <1>3, <1>4
    <3>4. OutsBefore(h, casts[c][1]) = OutsBefore(g, casts[c][1])
      BY <3>3, <1>10
    <3> QED BY <3>1, <3>2, <3>4, <1>4
  <2> QED BY <2>1, <1>2, <1>5 DEF CastsFit
<1>13. ASSUME NEW n \in 1 .. N + 1, NEW k \in {1, 2}
       PROVE  h[n].ins[k] \in A \cup OutsBefore(h, n) \cup CastBefore(casts, m, n)
  <2>1. CASE n \in 1 .. p - 1
    <3>1. h[n] = g[n] /\ n \in 1 .. N /\ n \in 1 .. p
      BY <2>1, <1>1, <1>2
    <3>2. g[n].ins[k] \in A \cup OutsBefore(h, n) \cup CastBefore(casts, m + 1, n)
      BY <3>1, <1>7, <1>10
    <3>3. CastBefore(casts, m + 1, n) \subseteq CastBefore(casts, m, n)
      <4>1. ASSUME NEW d \in 1 .. m + 1, casts[d][1] <= n
            PROVE  d \in 1 .. m
        BY <4>1, <2>1, <1>1 DEF p
      <4> QED BY <4>1 DEF CastBefore
    <3> QED BY <3>1, <3>2, <3>3
  <2>2. CASE n = p BY <2>2, <1>1, <1>2, <1>3, <1>10
  <2>3. CASE n \in p + 1 .. N + 1 /\ n - 1 \in 1 .. N
    <3>1. h[n] = g[n - 1] BY <2>3, <1>2
    <3>2. g[n - 1].ins[k] \in A \cup OutsBefore(g, n - 1) \cup CastBefore(casts, m + 1, n - 1)
      BY <2>3, <1>7
    <3>3. CastBefore(casts, m + 1, n - 1) \subseteq CastBefore(casts, m, n) \cup {x.out}
      <4>1. ASSUME NEW d \in 1 .. m + 1, casts[d][1] <= n - 1
            PROVE  (d \in 1 .. m /\ casts[d][1] <= n) \/ casts[d][2] = x
        <5>1. CASE d = m + 1 BY <5>1 DEF x
        <5>2. CASE d \in 1 .. m
          <6>1. casts[d][1] \in 1 .. N BY <5>2, <1>4
          <6> QED BY <6>1, <5>2, <4>1, <1>1
        <5> QED BY <5>1, <5>2
      <4> QED BY <4>1 DEF CastBefore
    <3> QED BY <2>3, <3>1, <3>2, <3>3, <1>11
  <2> QED BY <2>1, <2>2, <2>3, <1>8
<1>14. Fitting(h, A, casts, m) BY <1>2, <1>9, <1>12, <1>13 DEF Fitting
<1>15. ASSUME NEW node
       PROVE  Has(h, node) <=> Has(g, node) \/ node = x
  <2>1. ASSUME NEW n \in 1 .. N + 1
        PROVE  Has(g, h[n]) \/ h[n] = x
    <3>1. CASE n \in 1 .. p - 1
      <4>1. n \in 1 .. N BY <3>1, <1>1
      <4> QED BY <4>1, <3>1, <1>2 DEF Has, N
    <3>2. CASE n \in p + 1 .. N + 1 /\ n - 1 \in 1 .. N
      BY <3>2, <1>2 DEF Has, N
    <3> QED BY <3>1, <3>2, <1>2, <1>8
  <2>2. ASSUME NEW n \in 1 .. N
        PROVE  Has(h, g[n])
    <3>1. CASE n < p
      <4>1. h[n] = g[n] /\ n \in 1 .. Len(h) BY <3>1, <1>1, <1>2
      <4> QED BY <4>1 DEF Has
    <3>2. CASE ~(n < p)
      <4>1. n + 1 \in p + 1 .. N + 1 /\ n + 1 \in 1 .. Len(h) /\ (n + 1) - 1 = n
        BY <3>2, <1>1, <1>2
      <4>2. h[n + 1] = g[n] BY <4>1, <1>2
      <4> QED BY <4>1, <4>2 DEF Has
    <3> QED BY <3>1, <3>2
  <2>3. Has(h, x) BY <1>1, <1>2 DEF Has
  <2>4. Has(h, node) => Has(g, node) \/ node = x BY <2>1, <1>2 DEF Has
  <2>5. Has(g, node) => Has(h, node) BY <2>2 DEF Has, N
  <2> QED BY <2>3, <2>4, <2>5
<1> QED BY <1>1, <1>2, <1>14, <1>15 DEF x, N

------------------------------
(* TypeHarmonizer: the casts go in *)

\* The graphs on the way: f[c] has the casts from c on.
CastsGoIn(g, casts, a, f) ==
    /\ DOMAIN f = a .. Len(casts) + 1 /\ f = [c \in a .. Len(casts) + 1 |-> f[c]]
    /\ f[Len(casts) + 1] = g
    /\ \A c \in a .. Len(casts) :
       f[c] = Harmonizer(variant)!InsertAt(f[c + 1], casts[c][1], casts[c][2])

LEMMA CastsCanGoIn ==
    ASSUME NEW g, NEW casts, Len(casts) \in Nat
    PROVE  \E f : CastsGoIn(g, casts, 1, f)
<1> DEFINE N == Len(casts)
           S == {k \in Nat : k <= N => \E f : CastsGoIn(g, casts, N + 1 - k, f)}
<1>1. 0 \in S
  <2> DEFINE f == [c \in N + 1 .. N + 1 |-> g]
  <2>1. CastsGoIn(g, casts, N + 1, f) BY DEF CastsGoIn
  <2>2. CastsGoIn(g, casts, N + 1 - 0, f)
    <3> HIDE DEF f
    <3>1. N + 1 - 0 = N + 1 OBVIOUS
    <3> QED BY <2>1, <3>1
  <2> HIDE DEF f
  <2> QED BY <2>2
<1>2. ASSUME NEW k \in Nat, k \in S
      PROVE  k + 1 \in S
  <2> SUFFICES ASSUME k + 1 <= N
               PROVE  \E f : CastsGoIn(g, casts, N + 1 - (k + 1), f)
    OBVIOUS
  <2> DEFINE a == N + 1 - (k + 1)
  <2>1. a \in 1 .. N /\ a + 1 = N + 1 - k /\ k <= N OBVIOUS
  <2> HIDE DEF a
  <2>2. \E f : CastsGoIn(g, casts, N + 1 - k, f) BY <1>2, <2>1
  <2> HIDE DEF S
  <2>3. PICK f : CastsGoIn(g, casts, a + 1, f) BY <2>1, <2>2
  <2> DEFINE h == [c \in a .. N + 1 |->
                      IF c = a THEN Harmonizer(variant)!InsertAt(f[a + 1], casts[a][1], casts[a][2])
                        ELSE f[c]]
  <2>4. DOMAIN h = a .. N + 1 /\ h = [c \in a .. N + 1 |-> h[c]]
    BY Zenon
  <2>5. h[a] = Harmonizer(variant)!InsertAt(f[a + 1], casts[a][1], casts[a][2])
    <3>1. a \in a .. N + 1 BY <2>1
    <3> QED BY <3>1, Zenon
  <2>6. \A c \in a + 1 .. N + 1 : h[c] = f[c]
    <3>1. \A c \in a + 1 .. N + 1 : c \in a .. N + 1 /\ c # a BY <2>1
    <3> QED BY <3>1, Zenon
  <2> HIDE DEF h
  <2>7. h[N + 1] = g
    <3>1. N + 1 \in a + 1 .. N + 1 BY <2>1
    <3> QED BY <3>1, <2>3, <2>6, Zenon DEF CastsGoIn
  <2>8. ASSUME NEW c \in a .. N
        PROVE  h[c] = Harmonizer(variant)!InsertAt(h[c + 1], casts[c][1], casts[c][2])
    <3>1. c = a \/ c \in a + 1 .. N BY <2>1
    <3>2. c + 1 \in a + 1 .. N + 1 BY <2>1
    <3>3. h[c + 1] = f[c + 1] BY <3>2, <2>6, Zenon
    <3>4. CASE c = a BY <3>3, <3>4, <2>5, Zenon
    <3>5. CASE c \in a + 1 .. N
      <4>1. f[c] = Harmonizer(variant)!InsertAt(f[c + 1], casts[c][1], casts[c][2])
        BY <3>5, <2>3, Zenon DEF CastsGoIn
      <4>2. c \in a + 1 .. N + 1 BY <3>5, <2>1
      <4>3. h[c] = f[c] BY <4>2, <2>6, Zenon
      <4> QED BY <4>1, <4>3, <3>3, Zenon
    <3> QED BY <3>1, <3>4, <3>5
  <2>9. CastsGoIn(g, casts, a, h)
    BY <2>4, <2>7, <2>8, Zenon DEF CastsGoIn
  <2> QED BY <2>9 DEF a
<1> HIDE DEF S
<1>3. Nat \subseteq S BY <1>1, <1>2, NatInductive
<1>4. N \in S BY <1>3
<1>5. \E f : CastsGoIn(g, casts, N + 1 - N, f) BY <1>4 DEF S
<1>6. N + 1 - N = 1 OBVIOUS
<1> QED BY <1>5, <1>6

LEMMA WithCastsSteps ==
    ASSUME NEW g, NEW casts, Len(casts) \in Nat
    PROVE  \E f : CastsGoIn(g, casts, 1, f) /\ Harmonizer(variant)!WithCasts(g, casts) = f[1]
<1> DEFINE N == Len(casts)
           Loop(f) == f = [c \in 1 .. N + 1 |->
                              IF c > N THEN g
                              ELSE Harmonizer(variant)!InsertAt(f[c + 1], casts[c][1], casts[c][2])]
           C == CHOOSE f : Loop(f)
<1>1. PICK f : CastsGoIn(g, casts, 1, f) BY CastsCanGoIn
<1>2. Loop(f)
  <2> DEFINE h == [c \in 1 .. N + 1 |->
                      IF c > N THEN g
                      ELSE Harmonizer(variant)!InsertAt(f[c + 1], casts[c][1], casts[c][2])]
  <2>1. DOMAIN h = 1 .. N + 1 /\ h = [c \in 1 .. N + 1 |-> h[c]]
    BY Zenon
  <2>2. \A c \in 1 .. N + 1 :
            h[c] = IF c > N THEN g
              ELSE Harmonizer(variant)!InsertAt(f[c + 1], casts[c][1], casts[c][2])
    BY Zenon
  <2> HIDE DEF h
  <2>3. \A c \in 1 .. N + 1 : (c > N /\ c = N + 1) \/ (~(c > N) /\ c \in 1 .. N)
    OBVIOUS
  <2>4. \A c \in 1 .. N + 1 : h[c] = f[c]
    BY <1>1, <2>2, <2>3, Zenon DEF CastsGoIn
  <2>5. f = [c \in 1 .. N + 1 |-> f[c]] BY <1>1, Zenon DEF CastsGoIn
  <2>6. f = h BY <2>1, <2>4, <2>5, Zenon
  <2> QED BY <2>6, Zenon DEF h
<1>3. Loop(C)
  <2> HIDE DEF Loop
  <2> QED BY <1>2, Zenon
<1>4. Harmonizer(variant)!WithCasts(g, casts) = C[1]
  BY DEF Harmonizer!WithCasts
<1> HIDE DEF C
<1>5. CastsGoIn(g, casts, 1, C)
  <2>1. DOMAIN C = 1 .. N + 1 /\ C = [c \in 1 .. N + 1 |-> C[c]]
    <3> DEFINE B(c) == IF c > N THEN g
        ELSE Harmonizer(variant)!InsertAt(C[c + 1], casts[c][1], casts[c][2])
    <3>1. C = [c \in 1 .. N + 1 |-> B(c)] BY <1>3, Zenon
    <3> HIDE DEF B, Loop
    <3> QED BY <3>1, Zenon
  <2>2. \A c \in 1 .. N + 1 :
            C[c] = IF c > N THEN g
              ELSE Harmonizer(variant)!InsertAt(C[c + 1], casts[c][1], casts[c][2])
    <3> DEFINE B(c) == IF c > N THEN g
        ELSE Harmonizer(variant)!InsertAt(C[c + 1], casts[c][1], casts[c][2])
    <3>1. C = [c \in 1 .. N + 1 |-> B(c)] BY <1>3, Zenon
    <3> HIDE DEF B, Loop
    <3>2. \A c \in 1 .. N + 1 : C[c] = B(c) BY <3>1, Zenon
    <3> QED BY <3>2, Zenon DEF B
  <2> HIDE DEF Loop
  <2>3. N + 1 \in 1 .. N + 1 /\ N + 1 > N /\ \A c \in 1 .. N : c \in 1 .. N + 1 /\ ~(c > N)
    OBVIOUS
  <2> QED BY <2>1, <2>2, <2>3, Zenon DEF CastsGoIn
<1> QED BY <1>4, <1>5, Zenon

\* Once the casts are in, the graph is formed, and its nodes are the old ones and the casts.
LEMMA WithCastsForms ==
    ASSUME NEW g, NEW A, NEW casts, Len(casts) \in Nat, Fitting(g, A, casts, Len(casts)),
           NEW h, h = Harmonizer(variant)!WithCasts(g, casts)
    PROVE  /\ Formed(h, A) /\ Len(g) <= Len(h)
           /\ \A node : Has(h, node) <=>
                            Has(g, node) \/ \E c \in 1 .. Len(casts) : casts[c][2] = node
<1> DEFINE N == Len(casts)
<1>1. PICK f : CastsGoIn(g, casts, 1, f) /\ h = f[1] BY WithCastsSteps
<1> DEFINE From(a, node) == Has(g, node) \/ \E c \in a .. N : casts[c][2] = node
           Good(a) == /\ Fitting(f[a], A, casts, a - 1) /\ Len(g) <= Len(f[a])
                      /\ \A node : Has(f[a], node) <=> From(a, node)
           S == {k \in Nat : k <= N => Good(N + 1 - k)}
<1>2. 0 \in S
  <2>1. N + 1 - 0 = N + 1 /\ N + 1 - 1 = N /\ N + 1 .. N = {} OBVIOUS
  <2>2. f[N + 1] = g BY <1>1 DEF CastsGoIn
  <2>3. Fitting(f[N + 1], A, casts, N + 1 - 1) /\ Len(g) <= Len(f[N + 1])
    <3>1. Len(g) \in Nat BY DEF Fitting
    <3> QED BY <2>1, <2>2, <3>1
  <2>4. \A node : Has(f[N + 1], node) <=> From(N + 1, node)
    BY <2>1, <2>2
  <2> HIDE DEF From
  <2>5. Good(N + 1 - 0) BY <2>1, <2>3, <2>4
  <2> HIDE DEF Good
  <2> QED BY <2>5
<1>3. ASSUME NEW k \in Nat, k \in S
      PROVE  k + 1 \in S
  <2> SUFFICES ASSUME k + 1 <= N
               PROVE  Good(N + 1 - (k + 1))
    OBVIOUS
  <2> DEFINE a == N + 1 - (k + 1)
             m == a - 1
  <2>1. a \in 1 .. N /\ a + 1 = N + 1 - k /\ k <= N /\ m \in Nat /\ m + 1 = a /\ a + 1 - 1 = a
    OBVIOUS
  <2> HIDE DEF a, m, Good
  <2>2. Good(a + 1) BY <1>3, <2>1
  <2>3. f[a] = Harmonizer(variant)!InsertAt(f[a + 1], casts[a][1], casts[a][2])
    BY <1>1, <2>1, Zenon DEF CastsGoIn
  <2>4. Fitting(f[a + 1], A, casts, m + 1) BY <2>1, <2>2 DEF Good
  <2>5. /\ Fitting(f[a], A, casts, m) /\ Len(g) <= Len(f[a])
        /\ \A node : Has(f[a], node) <=> Has(f[a + 1], node) \/ node = casts[a][2]
    <3>1. f[a] = Harmonizer(variant)!InsertAt(f[a + 1], casts[m + 1][1], casts[m + 1][2])
      BY <2>1, <2>3
    <3>2. /\ Fitting(f[a], A, casts, m)
          /\ Len(f[a + 1]) \in Nat /\ Len(f[a]) = Len(f[a + 1]) + 1
          /\ \A node : Has(f[a], node) <=> Has(f[a + 1], node) \/ node = casts[m + 1][2]
      BY <2>1, <2>4, <3>1, InsertFits, SMTT(60)
    <3>3. Len(g) <= Len(f[a + 1]) /\ Len(g) \in Nat
      BY <2>2 DEF Good, Fitting
    <3>4. \A node : Has(f[a], node) <=> Has(f[a + 1], node) \/ node = casts[a][2]
      BY <2>1, <3>2, Zenon
    <3>5. Len(g) <= Len(f[a]) BY <3>2, <3>3
    <3> QED BY <3>2, <3>4, <3>5, Zenon
  <2>6. \A node : Has(f[a], node) <=> From(a, node)
    <3>1. \A node : Has(f[a + 1], node) <=> From(a + 1, node)
      BY <2>2 DEF Good
    <3>2. \A c : c \in a .. N <=> c = a \/ c \in a + 1 .. N BY <2>1
    <3> QED BY <3>1, <3>2, <2>5
  <2> HIDE DEF From
  <2>7. Good(a) BY <2>1, <2>5, <2>6 DEF Good, m
  <2> QED BY <2>7 DEF a
<1>4. Nat \subseteq S
  <2> HIDE DEF S
  <2> QED BY <1>2, <1>3, NatInductive
<1>5. Good(1)
  <2>1. N \in S
    <3> HIDE DEF S
    <3> QED BY <1>4
  <2> HIDE DEF Good
  <2>2. Good(N + 1 - N) /\ N + 1 - N = 1 BY <2>1
  <2> QED BY <2>2
<1>6. Formed(f[1], A)
  <2>1. Fitting(f[1], A, casts, 1 - 1) /\ 1 - 1 = 0 BY <1>5
  <2> QED BY <2>1, FittingIsFormed
<1> QED BY <1>1, <1>5, <1>6

------------------------------
(* TypeHarmonizer: the types *)

\* The types after each of the first N nodes.
TypesGrow(g, ini, N, f) ==
    /\ DOMAIN f = 0 .. N /\ f = [n \in 0 .. N |-> f[n]]
    /\ f[0] = ini
    /\ \A n \in 1 .. N :
           f[n] = Harmonizer(variant)!Assign(
               f[n - 1], {g[n].out}, Harmonizer(variant)!Produces(g[n], f[n - 1][g[n].ins[1]]))

LEMMA TypesCanGrow ==
    ASSUME NEW g, NEW ini, NEW N \in Nat
    PROVE  \E f : TypesGrow(g, ini, N, f)
<1> DEFINE S == {k \in Nat : \E f : TypesGrow(g, ini, k, f)}
<1>1. 0 \in S
  <2> DEFINE f == [n \in 0 .. 0 |-> ini]
  <2>1. TypesGrow(g, ini, 0, f) BY DEF TypesGrow
  <2> HIDE DEF f
  <2> QED BY <2>1
<1>2. ASSUME NEW k \in Nat, k \in S
      PROVE  k + 1 \in S
  <2>1. PICK f : TypesGrow(g, ini, k, f) BY <1>2
  <2> HIDE DEF S
  <2> DEFINE x == Harmonizer(variant)!Assign(
      f[k], {g[k + 1].out}, Harmonizer(variant)!Produces(g[k + 1], f[k][g[k + 1].ins[1]]))
             h == [n \in 0 .. k + 1 |-> IF n = k + 1 THEN x ELSE f[n]]
  <2>2. DOMAIN h = 0 .. k + 1 /\ h = [n \in 0 .. k + 1 |-> h[n]]
    BY Zenon
  <2>3. h[k + 1] = x
    <3>1. k + 1 \in 0 .. k + 1 OBVIOUS
    <3> QED BY <3>1, Zenon
  <2>4. \A n \in 0 .. k : h[n] = f[n]
    <3>1. \A n \in 0 .. k : n \in 0 .. k + 1 /\ n # k + 1 OBVIOUS
    <3> QED BY <3>1, Zenon
  <2> HIDE DEF h
  <2>5. h[0] = ini
    <3>1. 0 \in 0 .. k OBVIOUS
    <3> QED BY <3>1, <2>1, <2>4, Zenon DEF TypesGrow
  <2>6. ASSUME NEW n \in 1 .. k + 1
        PROVE  h[n] = Harmonizer(variant)!Assign(
            h[n - 1], {g[n].out}, Harmonizer(variant)!Produces(g[n], h[n - 1][g[n].ins[1]]))
    <3>1. n - 1 \in 0 .. k /\ (n = k + 1 => n - 1 = k) /\ (n = k + 1 \/ n \in 1 .. k)
      OBVIOUS
    <3>2. h[n - 1] = f[n - 1] BY <3>1, <2>4, Zenon
    <3>3. CASE n = k + 1 BY <3>1, <3>2, <3>3, <2>3, Zenon
    <3>4. CASE n \in 1 .. k
      <4>1. n \in 0 .. k BY <3>4
      <4>2. h[n] = f[n] BY <4>1, <2>4, Zenon
      <4>3. f[n] = Harmonizer(variant)!Assign(
          f[n - 1], {g[n].out}, Harmonizer(variant)!Produces(g[n], f[n - 1][g[n].ins[1]]))
        BY <3>4, <2>1, Zenon DEF TypesGrow
      <4> QED BY <4>2, <4>3, <3>2, Zenon
    <3> QED BY <3>1, <3>3, <3>4
  <2>7. TypesGrow(g, ini, k + 1, h)
    BY <2>2, <2>5, <2>6, Zenon DEF TypesGrow
  <2>8. \E e : TypesGrow(g, ini, k + 1, e) BY <2>7, Zenon
  <2>9. k + 1 \in Nat OBVIOUS
  <2> QED BY <2>8, <2>9, Zenon DEF S
<1> HIDE DEF S
<1>3. Nat \subseteq S BY <1>1, <1>2, NatInductive
<1>4. N \in S BY <1>3
<1> QED BY <1>4, Zenon DEF S

LEMMA TypedSteps ==
    ASSUME NEW g, NEW ini, Len(g) \in Nat
    PROVE  \E f : TypesGrow(g, ini, Len(g), f) /\ Harmonizer(variant)!Typed(g, ini) = f[Len(g)]
<1> DEFINE N == Len(g)
           Step(t, n) == Harmonizer(variant)!Assign(
               t, {g[n].out}, Harmonizer(variant)!Produces(g[n], t[g[n].ins[1]]))
           Loop(f) == f = [n \in 0 .. N |-> IF n = 0 THEN ini ELSE Step(f[n - 1], n)]
           C == CHOOSE f : Loop(f)
<1>1. PICK f : TypesGrow(g, ini, N, f) BY TypesCanGrow
<1>2. Harmonizer(variant)!Typed(g, ini) = C[N] BY DEF Harmonizer!Typed
<1>3. \A e : TypesGrow(g, ini, N, e) <=>
               /\ DOMAIN e = 0 .. N /\ e = [n \in 0 .. N |-> e[n]]
               /\ e[0] = ini /\ \A n \in 1 .. N : e[n] = Step(e[n - 1], n)
  BY Zenon DEF TypesGrow
<1> HIDE DEF Step
<1>4. Loop(f)
  <2> DEFINE h == [n \in 0 .. N |-> IF n = 0 THEN ini ELSE Step(f[n - 1], n)]
  <2>1. DOMAIN h = 0 .. N /\ h = [n \in 0 .. N |-> h[n]] BY Zenon
  <2>2. \A n \in 0 .. N : h[n] = IF n = 0 THEN ini ELSE Step(f[n - 1], n)
    BY Zenon
  <2> HIDE DEF h
  <2>3. \A n \in 0 .. N : n = 0 \/ n \in 1 .. N OBVIOUS
  <2>4. \A n \in 0 .. N : n # 0 => n \in 1 .. N OBVIOUS
  <2>5. \A n \in 0 .. N : h[n] = f[n] BY <1>1, <1>3, <2>2, <2>4, Zenon
  <2>6. f = [n \in 0 .. N |-> f[n]] BY <1>1, <1>3, Zenon
  <2>7. f = h BY <2>1, <2>5, <2>6, Zenon
  <2> QED BY <2>7, Zenon DEF h
<1>5. Loop(C)
  <2> HIDE DEF Loop
  <2> QED BY <1>4, Zenon
<1> HIDE DEF C
<1>6. TypesGrow(g, ini, N, C)
  <2> DEFINE B(n) == IF n = 0 THEN ini ELSE Step(C[n - 1], n)
  <2>1. C = [n \in 0 .. N |-> B(n)] BY <1>5, Zenon
  <2> HIDE DEF B, Loop
  <2>2. DOMAIN C = 0 .. N /\ C = [n \in 0 .. N |-> C[n]] /\ \A n \in 0 .. N : C[n] = B(n)
    BY <2>1, Zenon
  <2>3. 0 \in 0 .. N /\ \A n \in 1 .. N : n \in 0 .. N /\ n # 0 OBVIOUS
  <2>4. C[0] = ini /\ \A n \in 1 .. N : C[n] = Step(C[n - 1], n)
    BY <2>2, <2>3, Zenon DEF B
  <2> QED BY <2>2, <2>4, <1>3, Zenon
<1> QED BY <1>2, <1>6, Zenon

Types == Harmonizer(variant)!Float \cup {"int"}

\* A map of types that has those of A, and of every one of the first n outputs.
IsTyping(g, ini, n, t) ==
    /\ DOMAIN t = DOMAIN ini \cup OutsBefore(g, n + 1)
    /\ \A x \in DOMAIN t : t[x] \in Types
    /\ \A x \in DOMAIN ini : t[x] = ini[x]
    /\ \A j \in 1 .. n : t[g[j].out] = Harmonizer(variant)!Produces(g[j], t[g[j].ins[1]])

LEMMA TypingGrows ==
    ASSUME NEW g, NEW ini, Formed(g, DOMAIN ini), NEW n \in Nat, n + 1 <= Len(g),
           NEW t, IsTyping(g, ini, n, t),
           NEW u, u = Harmonizer(variant)!Assign(
               t, {g[n + 1].out}, Harmonizer(variant)!Produces(g[n + 1], t[g[n + 1].ins[1]]))
    PROVE  IsTyping(g, ini, n + 1, u)
<1> DEFINE o == g[n + 1].out
           y == Harmonizer(variant)!Produces(g[n + 1], t[g[n + 1].ins[1]])
<1>1. /\ DOMAIN u = DOMAIN t \cup {o} /\ u[o] = y
      /\ \A x \in DOMAIN t : x # o => u[x] = t[x]
  BY DEF Harmonizer!Assign
<1>2. n + 1 \in 1 .. Len(g) /\ g \in Seq(Nodes) /\ Len(g) \in Nat /\ g[n + 1] \in Nodes
  BY DEF Formed
<1>3. o \notin DOMAIN ini /\ \A j \in 1 .. n : g[j].out # o
  BY <1>2 DEF Formed, OneMaker
<1>4. OutsBefore(g, n + 1 + 1) = OutsBefore(g, n + 1) \cup {o}
  <2>1. \A j : j \in 1 .. (n + 1 + 1) - 1 <=> j \in 1 .. (n + 1) - 1 \/ j = n + 1
    OBVIOUS
  <2> QED BY <2>1 DEF OutsBefore
<1>5. o \notin DOMAIN t
  <2>1. o \notin OutsBefore(g, n + 1) BY <1>3 DEF OutsBefore
  <2> QED BY <2>1, <1>3 DEF IsTyping
<1>6. \A j \in 1 .. n + 1 : g[j].ins[1] \in DOMAIN t
  <2> SUFFICES ASSUME NEW j \in 1 .. n + 1
               PROVE  g[j].ins[1] \in DOMAIN t
    OBVIOUS
  <2>1. j \in 1 .. Len(g) BY <1>2
  <2>2. g[j].ins[1] \in DOMAIN ini \cup OutsBefore(g, j)
    BY <2>1 DEF Formed
  <2>3. OutsBefore(g, j) \subseteq OutsBefore(g, n + 1)
    <3>1. \A i \in 1 .. j - 1 : i \in 1 .. (n + 1) - 1 OBVIOUS
    <3> QED BY <3>1 DEF OutsBefore
  <2> QED BY <2>2, <2>3 DEF IsTyping
<1>7. y \in Types
  <2>1. t[g[n + 1].ins[1]] \in Types
    <3>1. n + 1 \in 1 .. n + 1 OBVIOUS
    <3> QED BY <3>1, <1>6 DEF IsTyping
  <2> QED BY <2>1 DEF Harmonizer!Produces, Types, Harmonizer!Float, Harmonizer!CastType
<1> HIDE DEF o, y
<1>8. DOMAIN u = DOMAIN ini \cup OutsBefore(g, n + 1 + 1)
  BY <1>1, <1>4 DEF IsTyping
<1>9. \A x \in DOMAIN u : u[x] \in Types BY <1>1, <1>7 DEF IsTyping
<1>10. \A x \in DOMAIN ini : u[x] = ini[x] BY <1>1, <1>5 DEF IsTyping
<1>11. ASSUME NEW j \in 1 .. n + 1
       PROVE  u[g[j].out] = Harmonizer(variant)!Produces(g[j], u[g[j].ins[1]])
  <2>1. u[g[j].ins[1]] = t[g[j].ins[1]] BY <1>1, <1>5, <1>6
  <2>2. CASE j = n + 1 BY <2>1, <2>2, <1>1, Zenon DEF o, y
  <2>3. CASE j \in 1 .. n
    <3>1. t[g[j].out] = Harmonizer(variant)!Produces(g[j], t[g[j].ins[1]])
      BY <2>3 DEF IsTyping
    <3>2. g[j].out \in DOMAIN t
      <4>1. j \in 1 .. (n + 1) - 1 BY <2>3
      <4> QED BY <4>1 DEF IsTyping, OutsBefore
    <3>3. u[g[j].out] = t[g[j].out] BY <3>2, <1>1, <1>5
    <3> QED BY <3>1, <3>3, <2>1
  <2>4. j = n + 1 \/ j \in 1 .. n OBVIOUS
  <2> QED BY <2>2, <2>3, <2>4, Zenon
<1> QED BY <1>8, <1>9, <1>10, <1>11 DEF IsTyping

\* The types at run time: those of the start, and what the nodes make of them.
LEMMA TypedIs ==
    ASSUME NEW g, NEW ini, Formed(g, DOMAIN ini), \A x \in DOMAIN ini : ini[x] \in Types
    PROVE  IsTyping(g, ini, Len(g), Harmonizer(variant)!Typed(g, ini))
<1> DEFINE N == Len(g)
<1>1. N \in Nat BY DEF Formed
<1>2. PICK f : TypesGrow(g, ini, N, f) /\ Harmonizer(variant)!Typed(g, ini) = f[N]
  BY <1>1, TypedSteps
<1> DEFINE S == {k \in Nat : k <= N => IsTyping(g, ini, k, f[k])}
<1>3. 0 \in S
  <2>1. f[0] = ini BY <1>2 DEF TypesGrow
  <2>2. OutsBefore(g, 0 + 1) = {} BY DEF OutsBefore
  <2>3. IsTyping(g, ini, 0, ini) BY <2>2 DEF IsTyping
  <2> QED BY <2>1, <2>3
<1>4. ASSUME NEW k \in Nat, k \in S
      PROVE  k + 1 \in S
  <2> SUFFICES ASSUME k + 1 <= N
               PROVE  IsTyping(g, ini, k + 1, f[k + 1])
    OBVIOUS
  <2>1. IsTyping(g, ini, k, f[k]) BY <1>1, <1>4
  <2>2. k + 1 \in 1 .. N /\ (k + 1) - 1 = k BY <1>1
  <2>3. f[k + 1] = Harmonizer(variant)!Assign(
      f[k], {g[k + 1].out}, Harmonizer(variant)!Produces(g[k + 1], f[k][g[k + 1].ins[1]]))
    BY <1>2, <2>2 DEF TypesGrow
  <2> HIDE DEF S
  <2> QED BY <2>1, <2>3, TypingGrows
<1> HIDE DEF S
<1>5. Nat \subseteq S BY <1>3, <1>4, NatInductive
<1>6. N \in S BY <1>1, <1>5
<1> QED BY <1>1, <1>2, <1>6 DEF S

\* Types that fit every node, and those there are before the first.
Solves(g, ini, W) ==
    /\ \A x \in DOMAIN ini : ini[x] \in Types /\ W[x] = ini[x]
    /\ \A n \in 1 .. Len(g) : W[g[n].out] = Harmonizer(variant)!Produces(g[n], W[g[n].ins[1]])

Alike(t, W) == \A x \in DOMAIN t : t[x] = W[x]

\* There are no others.
LEMMA TypedIsTheOne ==
    ASSUME NEW g, NEW ini, Formed(g, DOMAIN ini), NEW W, Solves(g, ini, W),
           NEW t, t = Harmonizer(variant)!Typed(g, ini)
    PROVE  /\ DOMAIN t = DOMAIN ini \cup OutsBefore(g, Len(g) + 1)
           /\ Alike(t, W)
<1> DEFINE N == Len(g)
           S == {k \in Nat : k <= N => \A x \in DOMAIN ini \cup OutsBefore(g, k + 1) : t[x] = W[x]}
<1>1. /\ \A x \in DOMAIN ini : ini[x] \in Types /\ W[x] = ini[x]
      /\ \A n \in 1 .. N : W[g[n].out] = Harmonizer(variant)!Produces(g[n], W[g[n].ins[1]])
  BY DEF Solves
<1>2. N \in Nat /\ IsTyping(g, ini, N, t) BY <1>1, TypedIs DEF Formed
<1>3. 0 \in S BY <1>2, <1>1 DEF IsTyping, OutsBefore
<1>4. ASSUME NEW k \in Nat, k \in S
      PROVE  k + 1 \in S
  <2> SUFFICES ASSUME k + 1 <= N, NEW x \in DOMAIN ini \cup OutsBefore(g, k + 1 + 1)
               PROVE  t[x] = W[x]
    OBVIOUS
  <2>1. \A y \in DOMAIN ini \cup OutsBefore(g, k + 1) : t[y] = W[y]
    BY <1>2, <1>4
  <2>2. k + 1 \in 1 .. N BY <1>2
  <2>3. g[k + 1].ins[1] \in DOMAIN ini \cup OutsBefore(g, k + 1)
    BY <2>2 DEF Formed
  <2>4. t[g[k + 1].out] = W[g[k + 1].out]
    <3>1. t[g[k + 1].out] = Harmonizer(variant)!Produces(g[k + 1], t[g[k + 1].ins[1]])
      BY <2>2, <1>2 DEF IsTyping
    <3>2. t[g[k + 1].ins[1]] = W[g[k + 1].ins[1]] BY <2>1, <2>3
    <3>3. W[g[k + 1].out] = Harmonizer(variant)!Produces(g[k + 1], W[g[k + 1].ins[1]])
      BY <2>2, <1>1
    <3> QED BY <3>1, <3>2, <3>3
  <2>5. x \in DOMAIN ini \cup OutsBefore(g, k + 1) \/ x = g[k + 1].out
    <3>1. \A j : j \in 1 .. (k + 1 + 1) - 1 <=> j \in 1 .. (k + 1) - 1 \/ j = k + 1
      OBVIOUS
    <3> QED BY <3>1 DEF OutsBefore
  <2> QED BY <2>1, <2>4, <2>5
<1>5. Nat \subseteq S
  <2> HIDE DEF S
  <2> QED BY <1>3, <1>4, NatInductive
<1>6. DOMAIN t = DOMAIN ini \cup OutsBefore(g, N + 1)
  BY <1>2 DEF IsTyping
<1>7. \A x \in DOMAIN ini \cup OutsBefore(g, N + 1) : t[x] = W[x]
  <2>1. N \in S
    <3> HIDE DEF S
    <3> QED BY <1>2, <1>5
  <2> QED BY <2>1, <1>2
<1> QED BY <1>6, <1>7 DEF Alike

------------------------------
(* TypeHarmonizer: names and nodes *)

LEMMA RepairAssumption ==
    ASSUME variant \in DOMAIN Repairs
    PROVE  /\ Harmonizer(variant)!HarmonizerAssumption
           /\ HarmNames \in Seq(STRING \ {"images", "w"}) /\ Len(HarmNames) \in Nat \ {0}
           /\ DOMAIN HarmNames = 1 .. Len(HarmNames)
           /\ \A j, k \in DOMAIN HarmNames : HarmNames[j] = HarmNames[k] => j = k
<1>1. Harmonizer(variant)!HarmonizerAssumption BY PartsAssumption
<1> QED BY <1>1 DEF Harmonizer!HarmonizerAssumption, HarmNames

LEMMA TensorKinds ==
    /\ Harmonizer(variant)!Image # Harmonizer(variant)!Weight
    /\ \A j : Harmonizer(variant)!Tensor(j) = <<j>>
    /\ \A j, k : Harmonizer(variant)!Tensor(j) = Harmonizer(variant)!Tensor(k) => j = k
    /\ \A j : Harmonizer(variant)!Tensor(j) # Harmonizer(variant)!Inner
    /\ Harmonizer(variant)!Image # Harmonizer(variant)!Inner
       /\ Harmonizer(variant)!Weight # Harmonizer(variant)!Inner
<1>1. Len(Harmonizer(variant)!Inner) = 2 BY DEF Harmonizer!Inner
<1>2. \A j : Len(<<j>>) = 1 /\ <<j>>[1] = j OBVIOUS
<1>3. "images" # "w" OBVIOUS
<1> QED BY <1>1, <1>2, <1>3 DEF Harmonizer!Image, Harmonizer!Weight, Harmonizer!Tensor

LEMMA NameKinds ==
    /\ \A t \in Bare : Len(t) \in {1, 2}
    /\ \A t \in Copied : Len(t) = 3 /\ t[1] = "copy"
    /\ \A t \in Casted : Len(t) = 3 /\ t[1] = "harm"
    /\ Bare \cap Copied = {} /\ Bare \cap Casted = {} /\ Copied \cap Casted = {}
<1>1. \A t \in Bare : Len(t) \in {1, 2}
  BY DEF Bare, Harmonizer!Image, Harmonizer!Weight, Harmonizer!Inner, Harmonizer!Tensor
<1>2. \A t \in Copied : Len(t) = 3 /\ t[1] = "copy"
  BY DEF Copied, Harmonizer!Copy
<1>3. \A t \in Casted : Len(t) = 3 /\ t[1] = "harm"
  BY DEF Casted, Harmonizer!CastName
<1> QED BY <1>1, <1>2, <1>3

LEMMA CastNamesDiffer ==
    ASSUME NEW x, NEW y, NEW m, NEW n,
           Harmonizer(variant)!CastName(x, m) = Harmonizer(variant)!CastName(y, n)
    PROVE  m = n
<1>1. Harmonizer(variant)!CastName(x, m)[3] = m /\ Harmonizer(variant)!CastName(y, n)[3] = n
  BY DEF Harmonizer!CastName
<1> QED BY <1>1

LEMMA NodeParts ==
    ASSUME NEW node \in Nodes
    PROVE  /\ node.op \in HarmOps /\ node.block \in BOOLEAN /\ node.out \in AllTensors
           /\ node.ins[1] \in AllTensors /\ node.ins[2] \in AllTensors
           /\ Harmonizer(variant)!IsCast(node.op) => node.ins[1] = node.ins[2]
BY DEF Nodes

\* What the pass is going to mend.
LEMMA ToFixIs ==
    ASSUME NEW node
    PROVE  /\ Harmonizer(variant)!ToFix(node) \subseteq {1, 2}
           /\ Harmonizer(variant)!IsCast(node.op) => Harmonizer(variant)!ToFix(node) = {}
           /\ Harmonizer(variant)!ToFix(node) \subseteq Harmonizer(variant)!Mismatched(node)
BY DEF Harmonizer!ToFix, Harmonizer!Mismatched, Harmonizer!FloatInputs, Harmonizer!Checked

LEMMA SmallSets ==
    /\ Cardinality({}) = 0 /\ Cardinality({1}) = 1 /\ Cardinality({2}) = 1
    /\ Cardinality({1, 2}) = 2
<1>1. Cardinality({}) = 0 BY FS_EmptySet
<1>2. Cardinality({1}) = 1 /\ Cardinality({2}) = 1 /\ IsFiniteSet({1})
  BY FS_Singleton
<1>3. Cardinality({1} \cup {2}) = 2 BY <1>2, FS_AddElement
<1>4. {1} \cup {2} = {1, 2} OBVIOUS
<1> QED BY <1>1, <1>2, <1>3, <1>4

LEMMA Numbers ==
    ASSUME NEW node, fixed \in Nat
    PROVE  /\ Cardinality(Harmonizer(variant)!ToFix(node)) \in 0 .. 2
           /\ Harmonizer(variant)!ToFix(node) = {}
              => Cardinality(Harmonizer(variant)!ToFix(node)) = 0
           /\ \A k \in Harmonizer(variant)!ToFix(node) :
                  Harmonizer(variant)!Number(node, k)
                    \in fixed .. fixed + Cardinality(Harmonizer(variant)!ToFix(node)) - 1
           /\ Harmonizer(variant)!ToFix(node) = {1, 2}
              => Harmonizer(variant)!Number(node, 1) # Harmonizer(variant)!Number(node, 2)
<1> DEFINE F == Harmonizer(variant)!ToFix(node)
           c == Cardinality(F)
           below(k) == {j \in F : j < k}
<1>1. F \in {{}, {1}, {2}, {1, 2}}
  <2>1. F \subseteq {1, 2} BY ToFixIs
  <2> HIDE DEF F
  <2> QED BY <2>1
<1>2. \A k : Harmonizer(variant)!Number(node, k) = fixed + Harmonizer(variant)!Cardinality(below(k))
  BY DEF Harmonizer!Number
<1>3. \A T : Harmonizer(variant)!Cardinality(T) = Cardinality(T)
  BY Zenon DEF Harmonizer!Cardinality, Cardinality
<1>4. \A k : Harmonizer(variant)!Number(node, k) = fixed + Cardinality(below(k))
  <2> HIDE DEF F
  <2> QED BY <1>2, <1>3
<1> HIDE DEF F
<1>5. CASE F = {} BY <1>5, SmallSets DEF F
<1>6. CASE F = {1}
  <2>1. below(1) = {} BY <1>6
  <2> QED BY <1>4, <1>6, <2>1, SmallSets DEF F
<1>7. CASE F = {2}
  <2>1. below(2) = {} BY <1>7
  <2> QED BY <1>4, <1>7, <2>1, SmallSets DEF F
<1>8. CASE F = {1, 2}
  <2>1. below(1) = {} /\ below(2) = {1} BY <1>8
  <2>2. Harmonizer(variant)!Number(node, 1) = fixed
      /\ Harmonizer(variant)!Number(node, 2) = fixed + 1
    BY <1>4, <2>1, SmallSets
  <2> QED BY <1>8, <2>2, SmallSets DEF F
<1>9. QED BY <1>1, <1>5, <1>6, <1>7, <1>8 DEF F

Entry(node, k) == <<idx,
                    Harmonizer(variant)!Cast(node.ins[k], Harmonizer(variant)!NewInput(node, k),
                                             Harmonizer(variant)!Target(node))>>

EntriesIn(node, S) == \A k \in {1, 2} : Harmonizer(variant)!NeedsCast(node, k)
  => Entry(node, k) \in S

\* The casts of a node in order: one for each input that needs one.
CastsOf(node, K) ==
    /\ \A c \in 1 .. Len(K) : \E k \in {1, 2} : Harmonizer(variant)!NeedsCast(node, k)
       /\ K[c] = Entry(node, k)
    /\ \A k \in {1, 2} : Harmonizer(variant)!NeedsCast(node, k)
       => \E c \in 1 .. Len(K) : K[c] = Entry(node, k)
    /\ \A c, d \in 1 .. Len(K) : c # d =>
           /\ Harmonizer(variant)!NeedsCast(node, 1) /\ Harmonizer(variant)!NeedsCast(node, 2)
           /\ {K[c], K[d]} = {Entry(node, 1), Entry(node, 2)}

LEMMA NewCastsAre ==
    ASSUME NEW node, NEW S, EntriesIn(node, S), NEW K, K = Harmonizer(variant)!NewCasts(node)
    PROVE  K \in Seq(S) /\ Len(K) \in 0 .. 2 /\ CastsOf(node, K)
<1> SUFFICES /\ K \in Seq(S) /\ Len(K) \in 0 .. 2
             /\ \A c \in 1 .. Len(K) : \E k \in {1, 2} : Harmonizer(variant)!NeedsCast(node, k)
                /\ K[c] = Entry(node, k)
             /\ \A k \in {1, 2} : Harmonizer(variant)!NeedsCast(node, k)
                => \E c \in 1 .. Len(K) : K[c] = Entry(node, k)
             /\ \A c, d \in 1 .. Len(K) : c # d =>
                    /\ Harmonizer(variant)!NeedsCast(node, 1)
                       /\ Harmonizer(variant)!NeedsCast(node, 2)
                    /\ {K[c], K[d]} = {Entry(node, 1), Entry(node, 2)}
  BY DEF CastsOf
<1>1. \A k \in {1, 2} : Harmonizer(variant)!NeedsCast(node, k) => Entry(node, k) \in S
  BY DEF EntriesIn
<1> DEFINE a == Entry(node, 1)
           b == Entry(node, 2)
<1>2. K = (IF Harmonizer(variant)!NeedsCast(node, 1) THEN <<a>> ELSE <<>>)
          \o (IF Harmonizer(variant)!NeedsCast(node, 2) THEN <<b>> ELSE <<>>)
  BY DEF Harmonizer!NewCasts, Harmonizer!CastFor, Entry
<1> HIDE DEF a, b
<1>3. CASE Harmonizer(variant)!NeedsCast(node, 1) /\ Harmonizer(variant)!NeedsCast(node, 2)
  <2>1. K = <<a>> \o <<b>> BY <1>2, <1>3
  <2>2. a \in S /\ b \in S BY <1>1, <1>3 DEF a, b
  <2>3. /\ <<a>> \in Seq(S) /\ Len(<<a>>) = 1 /\ <<a>>[1] = a
        /\ <<b>> \in Seq(S) /\ Len(<<b>>) = 1 /\ <<b>>[1] = b
    BY <2>2
  <2>4. K \in Seq(S) /\ Len(K) = 2 /\ K[1] = a /\ K[2] = b
    BY <2>1, <2>3, ConcatProperties
  <2>5. \A c \in 1 .. 2 : c = 1 \/ c = 2 OBVIOUS
  <2> QED BY <2>4, <2>5, <1>3 DEF a, b
<1>4. CASE Harmonizer(variant)!NeedsCast(node, 1) /\ ~Harmonizer(variant)!NeedsCast(node, 2)
  <2>1. K = <<a>> \o <<>> BY <1>2, <1>4
  <2>2. a \in S BY <1>1, <1>4 DEF a
  <2>3. K = <<a>> BY <2>1, <2>2
  <2>4. K \in Seq(S) /\ Len(K) = 1 /\ K[1] = a BY <2>2, <2>3
  <2>5. \A c \in 1 .. 1 : c = 1 OBVIOUS
  <2> QED BY <2>4, <2>5, <1>4 DEF a
<1>5. CASE ~Harmonizer(variant)!NeedsCast(node, 1) /\ Harmonizer(variant)!NeedsCast(node, 2)
  <2>1. K = <<>> \o <<b>> BY <1>2, <1>5
  <2>2. b \in S BY <1>1, <1>5 DEF b
  <2>3. K = <<b>> BY <2>1, <2>2
  <2>4. K \in Seq(S) /\ Len(K) = 1 /\ K[1] = b BY <2>2, <2>3
  <2>5. \A c \in 1 .. 1 : c = 1 OBVIOUS
  <2> QED BY <2>4, <2>5, <1>5 DEF b
<1>6. CASE ~Harmonizer(variant)!NeedsCast(node, 1) /\ ~Harmonizer(variant)!NeedsCast(node, 2)
  <2>1. K = <<>> BY <1>2, <1>6
  <2>2. K \in Seq(S) /\ Len(K) = 0 BY <2>1
  <2> QED BY <2>2, <1>6
<1> QED BY <1>3, <1>4, <1>5, <1>6

LEMMA Concatenated ==
    ASSUME NEW S, NEW s \in Seq(S), NEW t \in Seq(S), NEW r, r = s \o t
    PROVE  /\ r \in Seq(S) /\ Len(r) = Len(s) + Len(t) /\ Len(s) \in Nat /\ Len(t) \in Nat
           /\ \A c \in 1 .. Len(s) : r[c] = s[c]
           /\ \A c \in 1 .. Len(r) : c \notin 1 .. Len(s) =>
                  c - Len(s) \in 1 .. Len(t) /\ r[c] = t[c - Len(s)]
           /\ \A c \in 1 .. Len(t) : Len(s) + c \in 1 .. Len(r) /\ r[Len(s) + c] = t[c]
<1>1. /\ r \in Seq(S) /\ Len(r) = Len(s) + Len(t)
      /\ \A c \in 1 .. Len(s) + Len(t) : r[c] = IF c <= Len(s) THEN s[c] ELSE t[c - Len(s)]
  BY ConcatProperties
<1>2. Len(s) \in Nat /\ Len(t) \in Nat OBVIOUS
<1>3. \A c \in 1 .. Len(t) : /\ Len(s) + c \in 1 .. Len(s) + Len(t)
                             /\ ~(Len(s) + c <= Len(s)) /\ (Len(s) + c) - Len(s) = c
  BY <1>2
<1> QED BY <1>1, <1>2, <1>3

\* The tensors there are before the first node.
There == {Harmonizer(variant)!Image, Harmonizer(variant)!Weight} \cup {dup[d] : d \in DOMAIN dup}

\* In the first pass what is not visited yet has the names it had before.
FirstNames ==
    /\ DOMAIN init = {Harmonizer(variant)!Weight}
       /\ init[Harmonizer(variant)!Weight] \in Harmonizer(variant)!Float
    /\ DOMAIN dup \subseteq {Harmonizer(variant)!Weight} \X Harmonizer(variant)!Float
    /\ \A d \in DOMAIN dup : dup[d] = Harmonizer(variant)!Copy(d[1], d[2])
    /\ \A n \in 1 .. Len(onnx) : onnx[n].out \in Bare
    /\ \A n \in idx .. Len(onnx) : \A k \in {1, 2} : onnx[n].ins[k] \in Bare
    /\ \A c \in 1 .. Len(pending) :
           /\ pending[c][1] < idx
           /\ \E x \in Bare, m \in 0 .. fixed - 1 :
              pending[c][2].out = Harmonizer(variant)!CastName(x, m)

FirstFits ==
    /\ pending \in Seq(Nat \X Nodes)
    /\ Fitting(onnx, There, pending, Len(pending))

FirstCounts ==
    /\ fixed \in Nat /\ idx \in 1 .. Len(onnx) + 1
    /\ fixed <= 2 * (idx - 1) /\ fixed <= 2 * Len(HarmNames)
    /\ \/ Len(onnx) = Len(HarmNames)
       \/ Len(onnx) = Len(HarmNames) + 1 /\ Harmonizer(variant)!IsCast(onnx[Len(onnx)].op)

LEMMA TargetIsFloat ==
    ASSUME NEW node
    PROVE  Harmonizer(variant)!Target(node) \in Harmonizer(variant)!Float
BY DEF Harmonizer!Target, Harmonizer!Float

\* A new input is the old one, the copy of the weight, or what a cast will make.
LEMMA NewInputIs ==
    ASSUME FirstNames, fixed \in Nat, NEW node, NEW k \in {1, 2}, node.ins[k] \in Bare
    PROVE  /\ k \notin Harmonizer(variant)!ToFix(node)
              => Harmonizer(variant)!NewInput(node, k) = node.ins[k]
           /\ k \in Harmonizer(variant)!ToFix(node) /\ ~Harmonizer(variant)!NeedsCast(node, k) =>
                  /\ node.ins[k] = Harmonizer(variant)!Weight
                  /\ Harmonizer(variant)!NewInput(node, k)
                     = Harmonizer(variant)!Copy(Harmonizer(variant)!Weight,
                                                Harmonizer(variant)!Target(node))
                  /\ Harmonizer(variant)!NewInput(node, k) \in Copied
           /\ Harmonizer(variant)!NeedsCast(node, k) =>
                  /\ k \in Harmonizer(variant)!ToFix(node)
                     /\ node.ins[k] # Harmonizer(variant)!Weight
                  /\ Harmonizer(variant)!NewInput(node, k)
                     = Harmonizer(variant)!CastName(node.ins[k],
                                                    Harmonizer(variant)!Number(node, k))
                  /\ Harmonizer(variant)!Number(node, k) \in Nat
                  /\ Harmonizer(variant)!NewInput(node, k) \in Casted
           /\ Harmonizer(variant)!NewInput(node, k) \in AllTensors
<1>1. k \in Harmonizer(variant)!ToFix(node) => Harmonizer(variant)!Number(node, k) \in Nat
  BY Numbers
<1>2. Harmonizer(variant)!Target(node) \in Harmonizer(variant)!Float
  BY TargetIsFloat
<1>3. k \notin Harmonizer(variant)!ToFix(node)
    => Harmonizer(variant)!NewInput(node, k) = node.ins[k]
  BY DEF Harmonizer!NewInput
<1>4. k \in Harmonizer(variant)!ToFix(node) /\ ~Harmonizer(variant)!NeedsCast(node, k) =>
          node.ins[k] = Harmonizer(variant)!Weight
            /\ Harmonizer(variant)!NewInput(node, k)
               = Harmonizer(variant)!Copy(Harmonizer(variant)!Weight,
                                          Harmonizer(variant)!Target(node))
  BY DEF Harmonizer!NeedsCast, Harmonizer!NewInput, Harmonizer!Fixed, FirstNames
<1>5. Harmonizer(variant)!NeedsCast(node, k) =>
          /\ k \in Harmonizer(variant)!ToFix(node) /\ node.ins[k] # Harmonizer(variant)!Weight
          /\ Harmonizer(variant)!NewInput(node, k)
             = Harmonizer(variant)!CastName(node.ins[k], Harmonizer(variant)!Number(node, k))
  BY DEF Harmonizer!NeedsCast, Harmonizer!NewInput, Harmonizer!Fixed, FirstNames
<1>6. Harmonizer(variant)!Copy(Harmonizer(variant)!Weight, Harmonizer(variant)!Target(node))
    \in Copied
  BY <1>2 DEF Copied
<1>7. Harmonizer(variant)!Number(node, k) \in Nat
    => Harmonizer(variant)!CastName(node.ins[k], Harmonizer(variant)!Number(node, k)) \in Casted
  BY DEF Casted
<1> QED BY <1>1, <1>3, <1>4, <1>5, <1>6, <1>7 DEF AllTensors

LEMMA FixedNodeIs ==
    ASSUME FirstNames, fixed \in Nat, NEW node \in Nodes, \A k \in {1, 2} : node.ins[k] \in Bare
    PROVE  /\ Harmonizer(variant)!FixedNode(node) \in Nodes
           /\ Harmonizer(variant)!FixedNode(node).op = node.op
              /\ Harmonizer(variant)!FixedNode(node).block = node.block
           /\ Harmonizer(variant)!FixedNode(node).out = node.out
           /\ \A k \in {1, 2} :
              Harmonizer(variant)!FixedNode(node).ins[k] = Harmonizer(variant)!NewInput(node, k)
<1> DEFINE a == Harmonizer(variant)!NewInput(node, 1)
           b == Harmonizer(variant)!NewInput(node, 2)
           R == [op : HarmOps, block : BOOLEAN, ins : AllTensors \X AllTensors, out : AllTensors]
           x == [node EXCEPT !.ins = <<a, b>>]
<1>1. Harmonizer(variant)!FixedNode(node) = x
  BY DEF Harmonizer!FixedNode
<1>2. a \in AllTensors /\ b \in AllTensors BY NewInputIs
<1>3. node \in R /\ (Harmonizer(variant)!IsCast(node.op) => node.ins[1] = node.ins[2])
  BY DEF Nodes
<1>4. Harmonizer(variant)!IsCast(node.op) => a = node.ins[1] /\ b = node.ins[2]
  BY ToFixIs, NewInputIs
<1> HIDE DEF a, b
<1>5. /\ x \in R /\ x.op = node.op /\ x.block = node.block /\ x.out = node.out
      /\ x.ins[1] = a /\ x.ins[2] = b
  BY <1>2, <1>3
<1> HIDE DEF x, R
<1>6. x \in Nodes BY <1>3, <1>4, <1>5 DEF Nodes, R
<1> QED BY <1>1, <1>5, <1>6 DEF a, b

\* A cast the pass inserts.
LEMMA EntryIs ==
    ASSUME FirstNames, fixed \in Nat, idx \in Nat, NEW node, NEW k \in {1, 2},
           node.ins[k] \in Bare, Harmonizer(variant)!NeedsCast(node, k)
    PROVE  /\ Entry(node, k) \in Nat \X Nodes
           /\ Entry(node, k)[1] = idx
           /\ Entry(node, k)[2].out
              = Harmonizer(variant)!CastName(node.ins[k], Harmonizer(variant)!Number(node, k))
           /\ \A j \in {1, 2} : Entry(node, k)[2].ins[j] = node.ins[k]
           /\ Harmonizer(variant)!IsCast(Entry(node, k)[2].op)
           /\ Harmonizer(variant)!CastType(Entry(node, k)[2].op) = Harmonizer(variant)!Target(node)
           /\ Entry(node, k)[2].out \in Casted
           /\ k \in Harmonizer(variant)!ToFix(node)
<1> DEFINE in == node.ins[k]
           o == Harmonizer(variant)!NewInput(node, k)
           c == Harmonizer(variant)!Cast(in, o, Harmonizer(variant)!Target(node))
           R == [op : HarmOps, block : BOOLEAN, ins : AllTensors \X AllTensors, out : AllTensors]
<1>1. o \in Casted /\ o = Harmonizer(variant)!CastName(in, Harmonizer(variant)!Number(node, k))
    /\ k \in Harmonizer(variant)!ToFix(node)
  BY NewInputIs
<1>2. in \in AllTensors /\ o \in AllTensors BY <1>1 DEF AllTensors
<1>3. Harmonizer(variant)!Target(node) \in {"f16", "f32"}
  BY TargetIsFloat DEF Harmonizer!Float
<1>4. Entry(node, k) = <<idx, c>> BY DEF Entry
<1> HIDE DEF in, o
<1>5. c = [op |-> IF Harmonizer(variant)!Target(node) = "f16" THEN "Cast16"
           ELSE "Cast32", block |-> FALSE,
           ins |-> <<in, in>>, out |-> o]
  BY DEF Harmonizer!Cast
<1>6. /\ c \in R /\ c.out = o /\ c.ins[1] = in /\ c.ins[2] = in
      /\ c.op = IF Harmonizer(variant)!Target(node) = "f16" THEN "Cast16" ELSE "Cast32"
  BY <1>2, <1>5 DEF HarmOps
<1> HIDE DEF c
<1>7. Harmonizer(variant)!IsCast(c.op)
    /\ Harmonizer(variant)!CastType(c.op) = Harmonizer(variant)!Target(node)
  BY <1>3, <1>6 DEF Harmonizer!IsCast, Harmonizer!CastType
<1>8. c \in Nodes BY <1>6 DEF Nodes
<1>9. Entry(node, k)[1] = idx /\ Entry(node, k)[2] = c /\ Entry(node, k) \in Nat \X Nodes
  BY <1>4, <1>8
<1> QED BY <1>1, <1>6, <1>7, <1>9 DEF in, o

------------------------------
(* TypeHarmonizer: a visit *)

\* What casts make, and what those of a node will.
OutsOf(casts) == {casts[c][2].out : c \in DOMAIN casts}
NewOuts(node) == {Entry(node, k)[2].out :
                  k \in {j \in {1, 2} : Harmonizer(variant)!NeedsCast(node, j)}}

\* The tensors node idx adds, and what the pass knows before it notes its output.
NewTensors(node) ==
    {Harmonizer(variant)!Copy(c[1], c[2]) : c \in Harmonizer(variant)!NewCopies(node)}
      \cup OutsOf(Harmonizer(variant)!NewCasts(node))
KnownAt(node) == Harmonizer(variant)!Assign(vtype, NewTensors(node),
                                            Harmonizer(variant)!Target(node))

LEMMA VisitDoes ==
    ASSUME Harmonizer(variant)!Visit, NEW node, node = onnx[idx]
    PROVE  /\ pc = "pass" /\ pc' = pc /\ idx \in DOMAIN onnx /\ idx' = idx + 1
           /\ onnx' = [onnx EXCEPT ![idx] = Harmonizer(variant)!FixedNode(node)]
           /\ pending' = pending \o Harmonizer(variant)!NewCasts(node)
           /\ dup' = [c \in DOMAIN dup \cup Harmonizer(variant)!NewCopies(node) |->
                           Harmonizer(variant)!Copy(c[1], c[2])]
           /\ fixed' = fixed + Cardinality(Harmonizer(variant)!ToFix(node))
           /\ vtype' = Harmonizer(variant)!Assign(KnownAt(node), {node.out},
                                                  Harmonizer(variant)!Noted(node, KnownAt(node)))
           /\ init' = init /\ declared' = declared /\ passes' = passes
<1>1. \A T : Harmonizer(variant)!Cardinality(T) = Cardinality(T)
  BY Zenon DEF Harmonizer!Cardinality, Cardinality
<1>2. fixed' = fixed + Harmonizer(variant)!Cardinality(Harmonizer(variant)!ToFix(node))
  BY DEF Harmonizer!Visit
<1> QED BY <1>1, <1>2 DEF Harmonizer!Visit, KnownAt, NewTensors, OutsOf

LEMMA NewCopiesAre ==
    ASSUME FirstNames, NEW node
    PROVE  /\ Harmonizer(variant)!NewCopies(node)
              \subseteq {Harmonizer(variant)!Weight} \X Harmonizer(variant)!Float
           /\ \A k \in {1, 2} : k \in Harmonizer(variant)!ToFix(node)
              /\ ~Harmonizer(variant)!NeedsCast(node, k) =>
                  <<Harmonizer(variant)!Weight, Harmonizer(variant)!Target(node)>>
                    \in Harmonizer(variant)!NewCopies(node)
           /\ \A c \in Harmonizer(variant)!NewCopies(node) :
              c = <<Harmonizer(variant)!Weight, Harmonizer(variant)!Target(node)>>
<1>1. Harmonizer(variant)!Target(node) \in Harmonizer(variant)!Float
  BY TargetIsFloat
<1>2. \A c \in Harmonizer(variant)!NewCopies(node) :
    c = <<Harmonizer(variant)!Weight, Harmonizer(variant)!Target(node)>>
  BY DEF Harmonizer!NewCopies, FirstNames
<1>3. \A k \in {1, 2} : k \in Harmonizer(variant)!ToFix(node)
    /\ ~Harmonizer(variant)!NeedsCast(node, k) =>
          <<Harmonizer(variant)!Weight, Harmonizer(variant)!Target(node)>>
            \in Harmonizer(variant)!NewCopies(node)
  BY DEF Harmonizer!NewCopies, Harmonizer!NeedsCast, FirstNames
<1> QED BY <1>1, <1>2, <1>3

LEMMA ThereIs ==
    ASSUME FirstNames
    PROVE  There \subseteq {Harmonizer(variant)!Image, Harmonizer(variant)!Weight} \cup Copied
BY DEF FirstNames, There, Copied

\* What a visit makes of the names.
LEMMA VisitThere ==
    ASSUME Harmonizer(variant)!Visit, FirstNames, NEW node, node = onnx[idx]
    PROVE  /\ DOMAIN dup' \subseteq {Harmonizer(variant)!Weight} \X Harmonizer(variant)!Float
           /\ \A d \in DOMAIN dup' : dup'[d] = Harmonizer(variant)!Copy(d[1], d[2])
           /\ There' = There \cup {Harmonizer(variant)!Copy(c[1], c[2]) :
                                   c \in Harmonizer(variant)!NewCopies(node)}
           /\ There' \subseteq {Harmonizer(variant)!Image, Harmonizer(variant)!Weight} \cup Copied
<1>1. dup' = [c \in DOMAIN dup
              \cup Harmonizer(variant)!NewCopies(node) |-> Harmonizer(variant)!Copy(c[1], c[2])]
  BY VisitDoes
<1>2. Harmonizer(variant)!NewCopies(node)
    \subseteq {Harmonizer(variant)!Weight} \X Harmonizer(variant)!Float
  BY NewCopiesAre
<1>3. DOMAIN dup' = DOMAIN dup \cup Harmonizer(variant)!NewCopies(node)
  BY <1>1
<1>4. \A d \in DOMAIN dup' : dup'[d] = Harmonizer(variant)!Copy(d[1], d[2])
  BY <1>1, <1>3
<1>5. DOMAIN dup' \subseteq {Harmonizer(variant)!Weight} \X Harmonizer(variant)!Float
  BY <1>2, <1>3 DEF FirstNames
<1>6. \A d \in DOMAIN dup : dup[d] = Harmonizer(variant)!Copy(d[1], d[2])
  BY DEF FirstNames
<1>7. There' = {Harmonizer(variant)!Image, Harmonizer(variant)!Weight}
    \cup {dup'[d] : d \in DOMAIN dup'}
  BY DEF There, Harmonizer!Image, Harmonizer!Weight
<1>8. {dup'[d] : d \in DOMAIN dup'}
          = {dup[d] : d \in DOMAIN dup}
            \cup {Harmonizer(variant)!Copy(c[1], c[2]) : c \in Harmonizer(variant)!NewCopies(node)}
  BY <1>3, <1>4, <1>6
<1>9. There' = There
    \cup {Harmonizer(variant)!Copy(c[1], c[2]) : c \in Harmonizer(variant)!NewCopies(node)}
  BY <1>7, <1>8 DEF There
<1>10. \A d \in DOMAIN dup' : dup'[d] \in Copied
  BY <1>4, <1>5 DEF Copied
<1> QED BY <1>4, <1>5, <1>7, <1>9, <1>10

\* What a visit makes of the graph, and of the casts to insert.
LEMMA VisitGraph ==
    ASSUME Harmonizer(variant)!Visit, FirstNames, FirstFits, FirstCounts, NEW node, node = onnx[idx]
    PROVE  /\ onnx \in Seq(Nodes) /\ Len(onnx) \in Nat /\ idx \in 1 .. Len(onnx) /\ node \in Nodes
           /\ \A k \in {1, 2} : node.ins[k] \in Bare
           /\ onnx' \in Seq(Nodes) /\ Len(onnx') = Len(onnx)
           /\ \A n \in 1 .. Len(onnx) : n # idx => onnx'[n] = onnx[n]
           /\ onnx'[idx] = Harmonizer(variant)!FixedNode(node)
           /\ \A n \in 1 .. Len(onnx) : /\ onnx'[n].out = onnx[n].out /\ onnx'[n].op = onnx[n].op
                                        /\ onnx'[n].block = onnx[n].block
<1>1. idx \in DOMAIN onnx /\ onnx' = [onnx EXCEPT ![idx] = Harmonizer(variant)!FixedNode(node)]
  BY VisitDoes
<1>2. onnx \in Seq(Nodes) BY DEF FirstFits, Fitting
<1>3. idx \in 1 .. Len(onnx) /\ node \in Nodes /\ Len(onnx) \in Nat
  BY <1>1, <1>2
<1>4. idx \in idx .. Len(onnx) BY <1>3
<1>5. \A k \in {1, 2} : node.ins[k] \in Bare BY <1>4 DEF FirstNames
<1>6. Harmonizer(variant)!FixedNode(node) \in Nodes
    /\ Harmonizer(variant)!FixedNode(node).out = node.out
      /\ Harmonizer(variant)!FixedNode(node).op = node.op
         /\ Harmonizer(variant)!FixedNode(node).block = node.block
  BY <1>3, <1>5, FixedNodeIs DEF FirstCounts
<1> HIDE DEF FirstNames, FirstFits, FirstCounts
<1> DEFINE x == Harmonizer(variant)!FixedNode(node)
<1> HIDE DEF x
<1>7. onnx' = [onnx EXCEPT ![idx] = x] /\ x \in Nodes
  BY <1>1, <1>6 DEF x
<1>8. onnx' \in Seq(Nodes) /\ Len(onnx') = Len(onnx) BY <1>2, <1>3, <1>7
<1>9. \A n \in 1 .. Len(onnx) : onnx'[n] = IF n = idx THEN x ELSE onnx[n]
  BY <1>2, <1>3, <1>7
<1> QED BY <1>2, <1>3, <1>5, <1>6, <1>8, <1>9 DEF x

LEMMA VisitCasts ==
    ASSUME Harmonizer(variant)!Visit, FirstNames, FirstFits, FirstCounts, NEW node, node = onnx[idx]
    PROVE  /\ pending' \in Seq(Nat \X Nodes)
           /\ Len(pending) \in Nat /\ Len(pending') \in Nat /\ Len(pending) <= Len(pending')
           /\ \A c \in 1 .. Len(pending) : pending'[c] = pending[c]
           /\ \A c \in 1 .. Len(pending') : c \notin 1 .. Len(pending) =>
                  \E k \in {1, 2} : Harmonizer(variant)!NeedsCast(node, k)
                    /\ pending'[c] = Entry(node, k)
           /\ \A k \in {1, 2} : Harmonizer(variant)!NeedsCast(node, k) =>
                  \E c \in 1 .. Len(pending') : pending'[c] = Entry(node, k)
           /\ \A c, d \in 1 .. Len(pending') :
                  c \notin 1 .. Len(pending) /\ d \notin 1 .. Len(pending) /\ c # d =>
                      /\ Harmonizer(variant)!NeedsCast(node, 1)
                         /\ Harmonizer(variant)!NeedsCast(node, 2)
                      /\ {pending'[c], pending'[d]} = {Entry(node, 1), Entry(node, 2)}
           /\ OutsOf(Harmonizer(variant)!NewCasts(node)) = NewOuts(node)
<1> DEFINE K == Harmonizer(variant)!NewCasts(node)
           S == Nat \X Nodes
<1>1. pending' = pending \o K BY VisitDoes
<1>2. \A k \in {1, 2} : node.ins[k] \in Bare BY VisitGraph
<1>3. EntriesIn(node, S)
  <2>1. fixed \in Nat /\ idx \in Nat BY DEF FirstCounts
  <2> QED BY <1>2, <2>1, EntryIs DEF EntriesIn
<1> HIDE DEF S
<1>4. K \in Seq(S) /\ Len(K) \in 0 .. 2 /\ CastsOf(node, K)
  BY <1>3, NewCastsAre
<1>5. /\ \A c \in 1 .. Len(K) : \E k \in {1, 2} : Harmonizer(variant)!NeedsCast(node, k)
         /\ K[c] = Entry(node, k)
      /\ \A k \in {1, 2} : Harmonizer(variant)!NeedsCast(node, k)
         => \E c \in 1 .. Len(K) : K[c] = Entry(node, k)
      /\ \A c, d \in 1 .. Len(K) : c # d =>
             /\ Harmonizer(variant)!NeedsCast(node, 1) /\ Harmonizer(variant)!NeedsCast(node, 2)
             /\ {K[c], K[d]} = {Entry(node, 1), Entry(node, 2)}
  BY <1>4 DEF CastsOf
<1>6. pending \in Seq(S) BY DEF FirstFits, S
<1> HIDE DEF K
<1>7. /\ pending' \in Seq(S) /\ Len(pending') = Len(pending) + Len(K)
      /\ Len(pending) \in Nat /\ Len(K) \in Nat
      /\ \A c \in 1 .. Len(pending) : pending'[c] = pending[c]
      /\ \A c \in 1 .. Len(pending') : c \notin 1 .. Len(pending) =>
             c - Len(pending) \in 1 .. Len(K) /\ pending'[c] = K[c - Len(pending)]
      /\ \A c \in 1 .. Len(K) :
             Len(pending) + c \in 1 .. Len(pending') /\ pending'[Len(pending) + c] = K[c]
  BY <1>1, <1>4, <1>6, Concatenated
<1> DEFINE N == Len(pending)
           M == Len(pending')
<1>8. \A c \in 1 .. M : c \notin 1 .. N =>
          \E k \in {1, 2} : Harmonizer(variant)!NeedsCast(node, k) /\ pending'[c] = Entry(node, k)
  BY <1>5, <1>7
<1>9. ASSUME NEW k \in {1, 2}, Harmonizer(variant)!NeedsCast(node, k)
      PROVE  \E c \in 1 .. M : pending'[c] = Entry(node, k)
  <2>1. PICK c \in 1 .. Len(K) : K[c] = Entry(node, k) BY <1>5, <1>9
  <2>2. N + c \in 1 .. M /\ pending'[N + c] = Entry(node, k)
    BY <2>1, <1>7
  <2> QED BY <2>2
<1>10. ASSUME NEW c \in 1 .. M, NEW d \in 1 .. M, c \notin 1 .. N, d \notin 1 .. N, c # d
      PROVE  /\ Harmonizer(variant)!NeedsCast(node, 1) /\ Harmonizer(variant)!NeedsCast(node, 2)
             /\ {pending'[c], pending'[d]} = {Entry(node, 1), Entry(node, 2)}
  <2>1. c - N \in 1 .. Len(K) /\ d - N \in 1 .. Len(K) /\ c - N # d - N
    BY <1>7, <1>10
  <2>2. pending'[c] = K[c - N] /\ pending'[d] = K[d - N] BY <1>7, <1>10
  <2> QED BY <2>1, <2>2, <1>5, ZenonT(60)
<1>11. OutsOf(K) = NewOuts(node)
  <2>1. DOMAIN K = 1 .. Len(K) BY <1>4
  <2> QED BY <2>1, <1>5 DEF OutsOf, NewOuts
<1>12. N \in Nat /\ M \in Nat /\ N <= M BY <1>7
<1> QED BY <1>7, <1>8, <1>9, <1>10, <1>11, <1>12, Zenon DEF K, S

\* A new input is one of There, an earlier output or what a cast makes.
LEMMA NewInputFits ==
    ASSUME Harmonizer(variant)!Visit, FirstNames, FirstFits, FirstCounts, NEW node,
           node = onnx[idx], NEW k \in {1, 2}
    PROVE  /\ node.ins[k] \in There \cup OutsBefore(onnx, idx)
           /\ Harmonizer(variant)!NewInput(node, k) \in There' \cup OutsBefore(onnx, idx)
                  \cup {Entry(node, j)[2].out :
                        j \in {i \in {1, 2} : Harmonizer(variant)!NeedsCast(node, i)}}
<1>1. node.ins[k] \in Bare /\ idx \in 1 .. Len(onnx) /\ fixed \in Nat /\ idx \in Nat
  BY VisitGraph, SMTT(60) DEF FirstCounts
<1>2. node.ins[k] \in There \cup OutsBefore(onnx, idx)
  <2>1. node.ins[k] \in There \cup OutsBefore(onnx, idx)
            \cup CastBefore(pending, Len(pending), idx)
    BY <1>1 DEF FirstFits, Fitting
  <2>2. CastBefore(pending, Len(pending), idx) \subseteq Casted
    <3>1. \A c \in 1 .. Len(pending) : pending[c][2].out \in Casted
      <4>1. \A m \in 0 .. fixed - 1 : m \in Nat BY <1>1
      <4> QED BY <4>1 DEF FirstNames, Casted
    <3> QED BY <3>1 DEF CastBefore
  <2> QED BY <1>1, <2>1, <2>2, NameKinds
<1>3. There' = There
    \cup {Harmonizer(variant)!Copy(c[1], c[2]) : c \in Harmonizer(variant)!NewCopies(node)}
  BY VisitThere
<1>4. CASE k \notin Harmonizer(variant)!ToFix(node)
  BY <1>1, <1>2, <1>3, <1>4, NewInputIs
<1>5. CASE k \in Harmonizer(variant)!ToFix(node) /\ ~Harmonizer(variant)!NeedsCast(node, k)
  <2>1. Harmonizer(variant)!NewInput(node, k)
      = Harmonizer(variant)!Copy(Harmonizer(variant)!Weight, Harmonizer(variant)!Target(node))
    BY <1>1, <1>5, NewInputIs
  <2>2. <<Harmonizer(variant)!Weight, Harmonizer(variant)!Target(node)>>
      \in Harmonizer(variant)!NewCopies(node)
    BY <1>5, NewCopiesAre
  <2>3. Harmonizer(variant)!Copy(Harmonizer(variant)!Weight, Harmonizer(variant)!Target(node))
      \in {Harmonizer(variant)!Copy(c[1], c[2]) : c \in Harmonizer(variant)!NewCopies(node)}
    BY <2>2
  <2> QED BY <2>1, <2>3, <1>2, <1>3, Zenon
<1>6. CASE Harmonizer(variant)!NeedsCast(node, k)
  <2>1. Harmonizer(variant)!NewInput(node, k) = Entry(node, k)[2].out
    BY <1>1, <1>6, NewInputIs, EntryIs
  <2> QED BY <2>1, <1>2, <1>6
<1> QED BY <1>2, <1>4, <1>5, <1>6

\* The graph and its casts still fit together after a visit.
LEMMA VisitFits ==
    ASSUME Harmonizer(variant)!Visit, FirstNames, FirstFits, FirstCounts
    PROVE  FirstFits'
<1> DEFINE node == onnx[idx]
           g == onnx'
           A == There'
           P == pending'
           N == Len(pending)
           M == Len(pending')
           L == Len(onnx)
<1>1. /\ L \in Nat /\ idx \in 1 .. L /\ \A k \in {1, 2} : node.ins[k] \in Bare
      /\ g \in Seq(Nodes) /\ Len(g) = L /\ g[idx] = Harmonizer(variant)!FixedNode(node)
         /\ node \in Nodes
      /\ \A n \in 1 .. L : n # idx => g[n] = onnx[n]
      /\ \A n \in 1 .. L : g[n].out = onnx[n].out
  BY VisitGraph
<1>2. /\ P \in Seq(Nat \X Nodes) /\ N \in Nat /\ M \in Nat /\ N <= M
      /\ \A c \in 1 .. N : P[c] = pending[c]
      /\ \A c \in 1 .. M : c \notin 1 .. N =>
             \E k \in {1, 2} : Harmonizer(variant)!NeedsCast(node, k) /\ P[c] = Entry(node, k)
      /\ \A k \in {1, 2} : Harmonizer(variant)!NeedsCast(node, k)
         => \E c \in 1 .. M : P[c] = Entry(node, k)
  BY VisitCasts
<1>3. \A c, d \in 1 .. M : c \notin 1 .. N /\ d \notin 1 .. N /\ c # d =>
          /\ Harmonizer(variant)!NeedsCast(node, 1) /\ Harmonizer(variant)!NeedsCast(node, 2)
          /\ {P[c], P[d]} = {Entry(node, 1), Entry(node, 2)}
  BY VisitCasts
<1>4. There \subseteq A
    /\ A \subseteq {Harmonizer(variant)!Image, Harmonizer(variant)!Weight} \cup Copied
  BY VisitThere
<1>5. \A k \in {1, 2} : Harmonizer(variant)!NeedsCast(node, k) =>
          /\ Entry(node, k) \in Nat \X Nodes /\ Entry(node, k)[1] = idx
          /\ Entry(node, k)[2].out
             = Harmonizer(variant)!CastName(node.ins[k], Harmonizer(variant)!Number(node, k))
          /\ \A j \in {1, 2} : Entry(node, k)[2].ins[j] = node.ins[k]
          /\ Entry(node, k)[2].out \in Casted
          /\ k \in Harmonizer(variant)!ToFix(node)
  <2>1. fixed \in Nat /\ idx \in Nat BY DEF FirstCounts
  <2> QED BY <2>1, <1>1, EntryIs
<1>6. \A k \in {1, 2} :
          /\ node.ins[k] \in There \cup OutsBefore(onnx, idx)
          /\ Harmonizer(variant)!NewInput(node, k) \in A \cup OutsBefore(onnx, idx)
                 \cup {Entry(node, j)[2].out :
                       j \in {i \in {1, 2} : Harmonizer(variant)!NeedsCast(node, i)}}
  BY NewInputFits
<1>7. \A k \in {1, 2} :
    Harmonizer(variant)!FixedNode(node).ins[k] = Harmonizer(variant)!NewInput(node, k)
  <2>1. fixed \in Nat BY DEF FirstCounts
  <2> QED BY <2>1, <1>1, FixedNodeIs
<1>8. \A n \in 1 .. L + 1 : OutsBefore(g, n) = OutsBefore(onnx, n)
  <2> SUFFICES ASSUME NEW n \in 1 .. L + 1
               PROVE  OutsBefore(g, n) = OutsBefore(onnx, n)
    OBVIOUS
  <2>1. \A j \in 1 .. n - 1 : j \in 1 .. L BY <1>1
  <2> QED BY <2>1, <1>1 DEF OutsBefore
<1>9. /\ \A c \in 1 .. N :
             /\ pending[c][1] \in 1 .. L /\ pending[c][2] \in Nodes
             /\ \A n \in 1 .. L : pending[c][2].out # onnx[n].out
             /\ \A k \in {1, 2} :
                pending[c][2].ins[k] \in There \cup OutsBefore(onnx, pending[c][1])
      /\ \A c, d \in 1 .. N : c <= d => pending[c][1] <= pending[d][1]
      /\ \A c, d \in 1 .. N : pending[c][2].out = pending[d][2].out => c = d
  BY DEF FirstFits, Fitting, CastsFit
<1>10. \A c \in 1 .. N : /\ pending[c][1] < idx
                         /\ \E x \in Bare, m \in 0 .. fixed - 1 :
                            pending[c][2].out = Harmonizer(variant)!CastName(x, m)
  BY DEF FirstNames
<1>11. \A n \in 1 .. L : onnx[n].out \in Bare BY DEF FirstNames
<1>12. \A n, j \in 1 .. L : onnx[n].out = onnx[j].out => n = j
  BY DEF FirstFits, Fitting, OneMaker
<1>13. \A n \in 1 .. L : onnx[n].out \notin There
  BY DEF FirstFits, Fitting, OneMaker
<1>14. \A n \in 1 .. L : \A k \in {1, 2} :
           onnx[n].ins[k] \in There \cup OutsBefore(onnx, n) \cup CastBefore(pending, N, n)
  BY DEF FirstFits, Fitting
<1>15. fixed \in Nat BY DEF FirstCounts
<1>16. /\ \A k \in Harmonizer(variant)!ToFix(node) : Harmonizer(variant)!Number(node, k) >= fixed
       /\ Harmonizer(variant)!ToFix(node) = {1, 2}
          => Harmonizer(variant)!Number(node, 1) # Harmonizer(variant)!Number(node, 2)
       /\ Harmonizer(variant)!ToFix(node) \subseteq {1, 2}
  <2>1. \A k \in Harmonizer(variant)!ToFix(node) :
            Harmonizer(variant)!Number(node, k)
              \in fixed .. fixed + Cardinality(Harmonizer(variant)!ToFix(node)) - 1
    BY <1>15, Numbers
  <2>2. \A k \in Harmonizer(variant)!ToFix(node) : Harmonizer(variant)!Number(node, k) >= fixed
    BY <2>1, <1>15
  <2> QED BY <2>2, <1>15, Numbers, ToFixIs
<1> HIDE DEF node, g, A, P, N, M, L
<1>17. \A c \in 1 .. M : P[c][2].out \in Casted
  <2>1. ASSUME NEW c \in 1 .. N
        PROVE  P[c][2].out \in Casted
    <3>1. PICK x \in Bare, m \in 0 .. fixed - 1 :
        pending[c][2].out = Harmonizer(variant)!CastName(x, m)
      BY <1>10
    <3>2. m \in Nat /\ P[c] = pending[c] BY <1>2, <1>15
    <3> QED BY <3>1, <3>2 DEF Casted
  <2> QED BY <2>1, <1>2, <1>5
<1>18. OneMaker(g, A)
  <2>1. \A n \in 1 .. L : g[n].out \notin A
    BY <1>1, <1>4, <1>11, <1>13, NameKinds DEF There
  <2> QED BY <2>1, <1>1, <1>12 DEF OneMaker
<1>19. ASSUME NEW c \in 1 .. M
       PROVE  /\ P[c][1] \in 1 .. L /\ P[c][2] \in Nodes
              /\ P[c][2].out \notin A
              /\ \A n \in 1 .. L : P[c][2].out # g[n].out
              /\ \A k \in {1, 2} : P[c][2].ins[k] \in A \cup OutsBefore(g, P[c][1])
  <2>1. P[c][2].out \notin A
    <3>1. Harmonizer(variant)!Image \in Bare /\ Harmonizer(variant)!Weight \in Bare
      BY DEF Bare
    <3> QED BY <3>1, <1>4, <1>17, NameKinds
  <2>2. \A n \in 1 .. L : P[c][2].out # g[n].out
    BY <1>1, <1>11, <1>17, NameKinds
  <2>3. CASE c \in 1 .. N
    <3>1. P[c] = pending[c] /\ pending[c][1] \in 1 .. L + 1
      BY <2>3, <1>1, <1>2, <1>9
    <3> QED BY <3>1, <2>1, <2>2, <2>3, <1>4, <1>8, <1>9
  <2>4. CASE c \notin 1 .. N
    <3>1. PICK k \in {1, 2} : Harmonizer(variant)!NeedsCast(node, k) /\ P[c] = Entry(node, k)
      BY <2>4, <1>2
    <3>2. P[c][1] = idx /\ P[c] \in Nat \X Nodes BY <3>1, <1>5
    <3>3. P[c][2] \in Nodes BY <3>2
    <3>4. idx \in 1 .. L + 1 BY <1>1
    <3>5. \A j \in {1, 2} : P[c][2].ins[j] \in A \cup OutsBefore(g, idx)
      BY <3>1, <3>4, <1>4, <1>5, <1>6, <1>8
    <3> QED BY <2>1, <2>2, <3>2, <3>3, <3>5, <1>1
  <2> QED BY <2>3, <2>4
<1>20. ASSUME NEW c \in 1 .. M, NEW d \in 1 .. M, c <= d
       PROVE  P[c][1] <= P[d][1]
  <2>1. \A e \in 1 .. M : e \notin 1 .. N => P[e][1] = idx BY <1>2, <1>5
  <2>2. CASE d \in 1 .. N
    <3>1. c \in 1 .. N BY <2>2, <1>2, <1>20
    <3> QED BY <3>1, <2>2, <1>2, <1>9, <1>20
  <2>3. CASE d \notin 1 .. N /\ c \in 1 .. N
    <3>1. P[c][1] < idx /\ P[c][1] \in 1 .. L BY <2>3, <1>2, <1>9, <1>10
    <3> QED BY <3>1, <2>1, <2>3, <1>1
  <2>4. CASE d \notin 1 .. N /\ c \notin 1 .. N BY <2>1, <2>4, <1>1
  <2> QED BY <2>2, <2>3, <2>4
<1>21. ASSUME NEW c \in 1 .. M, NEW d \in 1 .. M, P[c][2].out = P[d][2].out
       PROVE  c = d
  <2>1. ASSUME NEW e \in 1 .. N, NEW f \in 1 .. M, f \notin 1 .. N
        PROVE  P[e][2].out # P[f][2].out
    <3>1. PICK x \in Bare, m \in 0 .. fixed - 1 :
        pending[e][2].out = Harmonizer(variant)!CastName(x, m)
      BY <1>10
    <3>2. PICK k \in {1, 2} : Harmonizer(variant)!NeedsCast(node, k) /\ P[f] = Entry(node, k)
      BY <2>1, <1>2
    <3>3. /\ P[f][2].out
                 = Harmonizer(variant)!CastName(node.ins[k], Harmonizer(variant)!Number(node, k))
          /\ Harmonizer(variant)!Number(node, k) >= fixed
      BY <3>2, <1>5, <1>16
    <3>4. m < fixed BY <1>15
    <3>5. m # Harmonizer(variant)!Number(node, k) BY <3>3, <3>4, <1>15
    <3>6. P[e] = pending[e] BY <1>2
    <3> QED BY <3>1, <3>3, <3>5, <3>6, CastNamesDiffer
  <2>2. CASE c \in 1 .. N /\ d \in 1 .. N BY <2>2, <1>2, <1>9, <1>21
  <2>3. CASE c \in 1 .. N /\ d \notin 1 .. N BY <2>1, <2>3, <1>21
  <2>4. CASE c \notin 1 .. N /\ d \in 1 .. N BY <2>1, <2>4, <1>21
  <2>5. CASE c \notin 1 .. N /\ d \notin 1 .. N
    <3> SUFFICES ASSUME c # d
                 PROVE  FALSE
      OBVIOUS
    <3>1. /\ Harmonizer(variant)!NeedsCast(node, 1) /\ Harmonizer(variant)!NeedsCast(node, 2)
          /\ {P[c], P[d]} = {Entry(node, 1), Entry(node, 2)}
      BY <2>5, <1>3
    <3>2. Entry(node, 1)[2].out = Entry(node, 2)[2].out BY <3>1, <1>21
    <3>3. /\ Entry(node, 1)[2].out
             = Harmonizer(variant)!CastName(node.ins[1], Harmonizer(variant)!Number(node, 1))
          /\ Entry(node, 2)[2].out
             = Harmonizer(variant)!CastName(node.ins[2], Harmonizer(variant)!Number(node, 2))
          /\ 1 \in Harmonizer(variant)!ToFix(node) /\ 2 \in Harmonizer(variant)!ToFix(node)
      BY <3>1, <1>5
    <3>4. Harmonizer(variant)!ToFix(node) = {1, 2} BY <3>3, <1>16
    <3> QED BY <3>2, <3>3, <3>4, <1>16, CastNamesDiffer
  <2> QED BY <2>2, <2>3, <2>4, <2>5
<1>22. CastsFit(g, A, P, M) BY <1>1, <1>19, <1>20, <1>21 DEF CastsFit
<1>23. \A n : CastBefore(pending, N, n) \subseteq CastBefore(P, M, n)
  <2>1. \A c \in 1 .. N : c \in 1 .. M /\ P[c] = pending[c] BY <1>2
  <2> QED BY <2>1 DEF CastBefore
<1>24. {Entry(node, j)[2].out : j \in {i \in {1, 2} : Harmonizer(variant)!NeedsCast(node, i)}}
           \subseteq CastBefore(P, M, idx)
  <2> SUFFICES ASSUME NEW k \in {1, 2}, Harmonizer(variant)!NeedsCast(node, k)
               PROVE  Entry(node, k)[2].out \in CastBefore(P, M, idx)
    OBVIOUS
  <2>1. PICK c \in 1 .. M : P[c] = Entry(node, k) BY <1>2
  <2>2. P[c][1] = idx /\ idx <= idx BY <2>1, <1>1, <1>5
  <2> QED BY <2>1, <2>2 DEF CastBefore
<1>25. ASSUME NEW n \in 1 .. L, NEW k \in {1, 2}
       PROVE  g[n].ins[k] \in A \cup OutsBefore(g, n) \cup CastBefore(P, M, n)
  <2>1. n \in 1 .. L + 1 BY <1>1
  <2>2. CASE n = idx BY <2>1, <2>2, <1>1, <1>6, <1>7, <1>8, <1>24
  <2>3. CASE n # idx BY <2>1, <2>3, <1>1, <1>4, <1>8, <1>14, <1>23
  <2> QED BY <2>2, <2>3
<1>26. Fitting(g, A, P, M)
  BY <1>1, <1>2, <1>18, <1>22, <1>25 DEF Fitting
<1> QED BY <1>2, <1>26 DEF FirstFits, g, A, P, M

------------------------------
(* TypeHarmonizer: the names and the counts after a visit, and the types *)

LEMMA VisitNames ==
    ASSUME Harmonizer(variant)!Visit, FirstNames, FirstFits, FirstCounts
    PROVE  FirstNames'
<1> DEFINE node == onnx[idx]
           N == Len(pending)
           M == Len(pending')
           L == Len(onnx)
<1>1. /\ L \in Nat /\ idx \in 1 .. L /\ \A k \in {1, 2} : node.ins[k] \in Bare
      /\ Len(onnx') = L
      /\ \A n \in 1 .. L : n # idx => onnx'[n] = onnx[n]
      /\ \A n \in 1 .. L : onnx'[n].out = onnx[n].out
  BY VisitGraph
<1>2. /\ N \in Nat /\ M \in Nat /\ N <= M
      /\ \A c \in 1 .. N : pending'[c] = pending[c]
      /\ \A c \in 1 .. M : c \notin 1 .. N =>
             \E k \in {1, 2} : Harmonizer(variant)!NeedsCast(node, k)
               /\ pending'[c] = Entry(node, k)
  BY VisitCasts
<1>3. idx' = idx + 1 /\ init' = init
    /\ fixed' = fixed + Cardinality(Harmonizer(variant)!ToFix(node))
  BY VisitDoes
<1>4. /\ fixed \in Nat /\ Cardinality(Harmonizer(variant)!ToFix(node)) \in Nat
      /\ \A k \in Harmonizer(variant)!ToFix(node) :
         Harmonizer(variant)!Number(node, k) \in 0 .. fixed' - 1
  <2>1. fixed \in Nat BY DEF FirstCounts
  <2>2. Cardinality(Harmonizer(variant)!ToFix(node)) \in 0 .. 2
    BY <2>1, Numbers
  <2>3. \A k \in Harmonizer(variant)!ToFix(node) :
            Harmonizer(variant)!Number(node, k)
              \in fixed .. fixed + Cardinality(Harmonizer(variant)!ToFix(node)) - 1
    BY <2>1, Numbers
  <2> DEFINE d == Cardinality(Harmonizer(variant)!ToFix(node))
  <2>4. d \in 0 .. 2 /\ \A k \in Harmonizer(variant)!ToFix(node) :
      Harmonizer(variant)!Number(node, k) \in fixed .. fixed + d - 1
    BY <2>2, <2>3
  <2>5. fixed' = fixed + d BY <1>3
  <2> HIDE DEF d
  <2>6. d \in Nat /\ \A k \in Harmonizer(variant)!ToFix(node) :
      Harmonizer(variant)!Number(node, k) \in 0 .. fixed' - 1
    BY <2>1, <2>4, <2>5
  <2> QED BY <2>1, <2>6 DEF d
<1>5. \A k \in {1, 2} : Harmonizer(variant)!NeedsCast(node, k) =>
          /\ Entry(node, k)[1] = idx /\ k \in Harmonizer(variant)!ToFix(node)
          /\ Entry(node, k)[2].out
             = Harmonizer(variant)!CastName(node.ins[k], Harmonizer(variant)!Number(node, k))
  <2>1. fixed \in Nat /\ idx \in Nat BY DEF FirstCounts
  <2> QED BY <2>1, <1>1, EntryIs
<1>6. DOMAIN init' = {Harmonizer(variant)!Weight}
    /\ init'[Harmonizer(variant)!Weight] \in Harmonizer(variant)!Float
  BY <1>3 DEF FirstNames
<1>7. DOMAIN dup' \subseteq {Harmonizer(variant)!Weight} \X Harmonizer(variant)!Float
    /\ \A d \in DOMAIN dup' : dup'[d] = Harmonizer(variant)!Copy(d[1], d[2])
  BY VisitThere
<1>8. \A n \in 1 .. L : onnx'[n].out \in Bare BY <1>1 DEF FirstNames
<1>9. \A n \in idx + 1 .. L : \A k \in {1, 2} : onnx'[n].ins[k] \in Bare
  <2>1. \A n \in idx + 1 .. L : n \in 1 .. L /\ n # idx /\ n \in idx .. L
    BY <1>1
  <2> QED BY <2>1, <1>1 DEF FirstNames
<1>10. ASSUME NEW c \in 1 .. M
       PROVE  /\ pending'[c][1] < idx + 1
              /\ \E x \in Bare, m \in 0 .. fixed' - 1 :
                 pending'[c][2].out = Harmonizer(variant)!CastName(x, m)
  <2>1. CASE c \in 1 .. N
    <3>1. pending[c][1] < idx /\ pending[c][1] \in 1 .. L
      BY <2>1 DEF FirstNames, FirstFits, Fitting, CastsFit
    <3>2. PICK x \in Bare, m \in 0 .. fixed - 1 :
        pending[c][2].out = Harmonizer(variant)!CastName(x, m)
      BY <2>1 DEF FirstNames
    <3>3. m \in 0 .. fixed' - 1 BY <1>3, <1>4
    <3>4. pending'[c] = pending[c] BY <2>1, <1>2
    <3>5. pending[c][1] < idx + 1 BY <3>1, <1>1
    <3> QED BY <3>2, <3>3, <3>4, <3>5
  <2>2. CASE c \notin 1 .. N
    <3>1. PICK k \in {1, 2} : Harmonizer(variant)!NeedsCast(node, k) /\ pending'[c] = Entry(node, k)
      BY <2>2, <1>2
    <3>2. idx < idx + 1 BY <1>1
    <3> QED BY <3>1, <3>2, <1>1, <1>4, <1>5, SMTT(60)
  <2> QED BY <2>1, <2>2
<1> HIDE DEF node, N, M, L
<1>11. \A n \in 1 .. Len(onnx') : onnx'[n].out \in Bare BY <1>1, <1>8
<1>12. \A n \in idx' .. Len(onnx') : \A k \in {1, 2} : onnx'[n].ins[k] \in Bare
  BY <1>1, <1>3, <1>9
<1>13. \A c \in 1 .. Len(pending') :
           /\ pending'[c][1] < idx'
           /\ \E x \in Bare, m \in 0 .. fixed' - 1 :
              pending'[c][2].out = Harmonizer(variant)!CastName(x, m)
  BY <1>3, <1>10 DEF M
<1>14. Bare' = Bare /\ Harmonizer(variant)!Weight' = Harmonizer(variant)!Weight
    /\ Harmonizer(variant)!Float' = Harmonizer(variant)!Float
  BY DEF Bare, Harmonizer!Image, Harmonizer!Weight, Harmonizer!Inner, Harmonizer!Float
<1> QED BY <1>6, <1>7, <1>11, <1>12, <1>13, <1>14 DEF FirstNames

LEMMA VisitCounts ==
    ASSUME Harmonizer(variant)!Visit, FirstNames, FirstFits, FirstCounts, Len(HarmNames) \in Nat
    PROVE  FirstCounts'
<1> DEFINE node == onnx[idx]
           L == Len(onnx)
           d == Cardinality(Harmonizer(variant)!ToFix(node))
           R == Len(HarmNames)
<1>1. /\ L \in Nat /\ idx \in 1 .. L /\ Len(onnx') = L
      /\ \A n \in 1 .. L : onnx'[n].op = onnx[n].op
  BY VisitGraph
<1>2. idx' = idx + 1 /\ fixed' = fixed + d BY VisitDoes
<1>3. /\ fixed \in Nat /\ fixed <= 2 * (idx - 1) /\ fixed <= 2 * R
      /\ (L = R \/ (L = R + 1 /\ Harmonizer(variant)!IsCast(onnx[L].op)))
  BY DEF FirstCounts
<1>4. d \in 0 .. 2 /\ (Harmonizer(variant)!IsCast(node.op) => d = 0)
  <2>1. Harmonizer(variant)!ToFix(node) = {} => d = 0 BY <1>3, Numbers
  <2>2. d \in 0 .. 2 BY <1>3, Numbers
  <2> QED BY <2>1, <2>2, ToFixIs
<1>5. R \in Nat OBVIOUS
<1>6. idx = L /\ L = R + 1 => d = 0 BY <1>3, <1>4
<1> HIDE DEF L, d, R, node
<1>7. /\ fixed' \in Nat /\ idx' \in 1 .. L + 1
      /\ fixed' <= 2 * (idx' - 1) /\ fixed' <= 2 * R
  BY <1>1, <1>2, <1>3, <1>4, <1>5, <1>6
<1>8. L = R \/ (L = R + 1 /\ Harmonizer(variant)!IsCast(onnx'[L].op))
  <2>1. L = R + 1 => L \in 1 .. L BY <1>1, <1>5
  <2> QED BY <2>1, <1>1, <1>3 DEF L
<1> QED BY <1>1, <1>7, <1>8 DEF FirstCounts, R, Harmonizer!IsCast, HarmNames

\* A node computes what its inputs say, in its own type, and mixes no integers with floats.
NodeExact(node, W) ==
    /\ W[node.out] = Harmonizer(variant)!Produces(node, W[node.ins[1]])
    /\ ~Harmonizer(variant)!IsCast(node.op)
       => \A k \in Harmonizer(variant)!Checked(node) :
         W[node.ins[k]] \in {"int", Harmonizer(variant)!Target(node)}
    /\ node.op = "Mul" => (W[node.ins[1]] = "int" <=> W[node.ins[2]] = "int")

LEMMA ProducesIs ==
    ASSUME NEW node, NEW t
    PROVE  /\ Harmonizer(variant)!IsCast(node.op)
              => Harmonizer(variant)!Produces(node, t) = Harmonizer(variant)!CastType(node.op)
           /\ node.op = "Shape" => Harmonizer(variant)!Produces(node, t) = "int"
           /\ node.op \in {"Mul", "Resize"} => Harmonizer(variant)!Produces(node, t) = t
BY DEF Harmonizer!Produces, Harmonizer!IsCast

\* I holds the output of a node just if what it reads says so.
Agrees(node, I) ==
    /\ Harmonizer(variant)!IsCast(node.op) => node.out \notin I
    /\ node.op = "Shape" => node.out \in I
    /\ node.op \in {"Mul", "Resize"} => (node.out \in I <=> node.ins[1] \in I)
    /\ node.op = "Mul" => (node.ins[1] \in I <=> node.ins[2] \in I)

LEMMA ExactKept ==
    ASSUME NEW node, NEW V, NEW W, NodeExact(node, V),
           W[node.out] = V[node.out], \A k \in {1, 2} : W[node.ins[k]] = V[node.ins[k]]
    PROVE  NodeExact(node, W)
BY DEF NodeExact, Harmonizer!Checked

\* A node with its new inputs is exact, and its output is an integer just if it was one.
LEMMA MendedNode ==
    ASSUME variant \in DOMAIN Repairs, Repairs[variant].tool = "surgical",
           NEW node \in Nodes, NEW x, x.op = node.op, x.block = node.block, x.out = node.out,
           NEW I, Agrees(node, I),
           \A k \in {1, 2} : /\ node.ins[k] \in DOMAIN vtype /\ vtype[node.ins[k]] \in Types
                             /\ vtype[node.ins[k]] = "int" <=> node.ins[k] \in I,
           NEW V, \A k \in {1, 2} : V[x.ins[k]] = IF k \in Harmonizer(variant)!ToFix(node)
             THEN Harmonizer(variant)!Target(node)
                                                  ELSE vtype[node.ins[k]],
           NEW known, V[x.out] = Harmonizer(variant)!Noted(node, known)
    PROVE  /\ NodeExact(x, V)
           /\ V[x.out] = "int" <=> x.out \in I
           /\ V[x.out] \in Types
<1> DEFINE t1 == vtype[node.ins[1]]
           t2 == vtype[node.ins[2]]
           target == Harmonizer(variant)!Target(node)
           F == Harmonizer(variant)!ToFix(node)
           u1 == V[x.ins[1]]
           u2 == V[x.ins[2]]
<1>1. /\ t1 \in Types /\ t2 \in Types /\ Harmonizer(variant)!TypeOf(node.ins[1]) = t1
         /\ Harmonizer(variant)!TypeOf(node.ins[2]) = t2
      /\ (t1 = "int" <=> node.ins[1] \in I) /\ (t2 = "int" <=> node.ins[2] \in I)
  BY DEF Harmonizer!TypeOf
<1>2. target \in Harmonizer(variant)!Float /\ Harmonizer(variant)!Float = {"f16", "f32"}
    /\ Types = {"f16", "f32", "int"}
  BY TargetIsFloat DEF Harmonizer!Float, Types
<1>3. node.op \in {"Mul", "Cast16", "Cast32", "Resize", "Shape"}
  BY RepairAssumption, NodeParts DEF Harmonizer!HarmonizerAssumption, HarmOps
<1>4. Harmonizer(variant)!Target(x) = target
    /\ Harmonizer(variant)!Checked(x) = Harmonizer(variant)!Checked(node)
      /\ \A t : Harmonizer(variant)!Produces(x, t) = Harmonizer(variant)!Produces(node, t)
  BY DEF Harmonizer!Target, Harmonizer!Checked, Harmonizer!Produces
<1>5. \A k \in {1, 2} : k \in F <=> /\ ~Harmonizer(variant)!IsCast(node.op)
                                       /\ k \in Harmonizer(variant)!Checked(node)
                                    /\ Harmonizer(variant)!TypeOf(node.ins[k])
                                       \in Harmonizer(variant)!Float
                                    /\ Harmonizer(variant)!TypeOf(node.ins[k]) # target
  BY DEF Harmonizer!ToFix, Harmonizer!Mismatched, Harmonizer!FloatInputs, Harmonizer!Checked
<1>6. u1 = (IF 1 \in F THEN target ELSE t1) /\ u2 = IF 2 \in F THEN target ELSE t2
  OBVIOUS
<1>7. V[x.out] = IF Harmonizer(variant)!FloatInputs(node) = {}
    THEN Harmonizer(variant)!Produces(node, "int") ELSE Harmonizer(variant)!Produces(node, target)
  BY DEF Harmonizer!Noted
<1>8. \A k \in {1, 2} :
          k \in Harmonizer(variant)!FloatInputs(node) <=> k \in Harmonizer(variant)!Checked(node)
            /\ Harmonizer(variant)!TypeOf(node.ins[k]) \in Harmonizer(variant)!Float
  BY DEF Harmonizer!FloatInputs
<1>9. Harmonizer(variant)!FloatInputs(node) \subseteq {1, 2}
  BY DEF Harmonizer!FloatInputs, Harmonizer!Checked
<1> DEFINE o == V[x.out]
           FI == Harmonizer(variant)!FloatInputs(node)
<1>10. x.out \in I <=> node.out \in I OBVIOUS
<1> HIDE DEF t1, t2, target, F, u1, u2, o, FI
<1>11. CASE Harmonizer(variant)!IsCast(node.op)
  <2>1. \A t : Harmonizer(variant)!Produces(node, t) = Harmonizer(variant)!CastType(node.op)
      /\ Harmonizer(variant)!Produces(x, t) = Harmonizer(variant)!CastType(node.op)
    <3>1. \A t : Harmonizer(variant)!Produces(node, t) = Harmonizer(variant)!CastType(node.op)
      BY <1>11, ProducesIs
    <3> QED BY <3>1, <1>4, Zenon
  <2>2. o = Harmonizer(variant)!CastType(node.op) /\ o \in {"f16", "f32"}
    BY <1>7, <2>1 DEF o, Harmonizer!CastType
  <2>3. Harmonizer(variant)!IsCast(x.op) /\ x.op # "Mul"
    BY <1>11 DEF Harmonizer!IsCast
  <2>4. NodeExact(x, V) BY <2>1, <2>2, <2>3 DEF NodeExact, o
  <2>5. node.out \notin I BY <1>11 DEF Agrees
  <2> QED BY <2>2, <2>4, <2>5, <1>2, <1>10 DEF o
<1>12. CASE ~Harmonizer(variant)!IsCast(node.op) /\ node.op = "Shape"
  <2>1. \A t : Harmonizer(variant)!Produces(node, t) = "int"
      /\ Harmonizer(variant)!Produces(x, t) = "int"
    BY <1>12 DEF Harmonizer!Produces
  <2>2. o = "int" /\ node.out \in I BY <1>7, <1>12, <2>1 DEF o, Agrees
  <2>3. u1 \in {"int", target} /\ u2 \in {"int", target}
    <3>1. Harmonizer(variant)!Checked(node) = {1, 2}
      BY <1>12 DEF Harmonizer!Checked
    <3> QED BY <3>1, <1>1, <1>2, <1>5, <1>6, <1>12
  <2>4. \A k \in {1, 2} : V[x.ins[k]] \in {"int", target}
    BY <2>3 DEF u1, u2
  <2>5. x.op # "Mul" /\ Harmonizer(variant)!Checked(x) \subseteq {1, 2}
    BY <1>12 DEF Harmonizer!Checked
  <2>6. NodeExact(x, V) BY <2>1, <2>2, <2>4, <2>5, <1>4 DEF NodeExact, o
  <2> QED BY <2>2, <2>6, <1>2, <1>10 DEF o
<1>13. CASE ~Harmonizer(variant)!IsCast(node.op) /\ node.op \in {"Mul", "Resize"}
  <2>1. \A t : Harmonizer(variant)!Produces(node, t) = t /\ Harmonizer(variant)!Produces(x, t) = t
    BY <1>13 DEF Harmonizer!Produces
  <2>2. 1 \in Harmonizer(variant)!Checked(node)
      /\ (node.op = "Mul" => Harmonizer(variant)!Checked(node) = {1, 2})
        /\ (node.op = "Resize" => Harmonizer(variant)!Checked(node) = {1})
    BY <1>13 DEF Harmonizer!Checked
  <2>3. o = IF FI = {} THEN "int" ELSE target BY <1>7, <2>1 DEF o, FI
  <2>4. FI = {} <=> t1 = "int"
    <3>1. 1 \in FI <=> t1 # "int" BY <1>1, <1>2, <1>8, <2>2 DEF FI
    <3>2. 2 \in FI => t1 # "int"
      <4>1. CASE node.op = "Mul"
        BY <4>1, <1>1, <1>2, <1>8, <2>2 DEF FI, Agrees
      <4>2. CASE node.op = "Resize" BY <4>2, <1>8, <2>2 DEF FI
      <4> QED BY <4>1, <4>2, <1>13
    <3> QED BY <3>1, <3>2, <1>9 DEF FI
  <2>5. u1 = IF t1 = "int" THEN "int" ELSE target
    BY <1>1, <1>2, <1>5, <1>6, <1>13, <2>2
  <2>6. o = u1 /\ (o = "int" <=> t1 = "int") /\ o \in Types
    BY <2>3, <2>4, <2>5, <1>2
  <2>7. node.op = "Mul" => u2 = IF t2 = "int" THEN "int" ELSE target
    BY <1>1, <1>2, <1>5, <1>6, <1>13, <2>2
  <2>8. node.op = "Mul" => (t1 = "int" <=> t2 = "int")
    BY <1>1 DEF Agrees
  <2>9. \A k \in Harmonizer(variant)!Checked(x) : V[x.ins[k]] \in {"int", target}
    BY <2>2, <2>5, <2>7, <1>4, <1>13 DEF u1, u2
  <2>10. node.op = "Mul" => (u1 = "int" <=> u2 = "int")
    BY <2>5, <2>7, <2>8, <1>2
  <2>11. NodeExact(x, V)
    BY <2>1, <2>6, <2>9, <2>10, <1>4 DEF NodeExact, o, u1, u2
  <2>12. o = "int" <=> node.out \in I BY <2>6, <1>1, <1>13 DEF Agrees
  <2> QED BY <2>6, <2>11, <2>12, <1>10 DEF o
<1> QED BY <1>3, <1>11, <1>12, <1>13 DEF Harmonizer!IsCast

CastOuts == {pending[c][2].out : c \in 1 .. Len(pending)}

\* What the surgical pass knows: the types of all there is so far, in which the visited nodes
\* and the casts are exact; the others still agree with the integers of the graph.
FirstTypes(I) ==
    /\ DOMAIN vtype = There \cup OutsBefore(onnx, idx) \cup CastOuts
    /\ \A t \in DOMAIN vtype : vtype[t] \in Types
    /\ vtype[Harmonizer(variant)!Image] = "f32"
       /\ vtype[Harmonizer(variant)!Weight] = init[Harmonizer(variant)!Weight]
    /\ \A d \in DOMAIN dup : vtype[dup[d]] = d[2]
    /\ Harmonizer(variant)!Image \notin I /\ Harmonizer(variant)!Weight \notin I
       /\ Harmonizer(variant)!Output \notin I
    /\ \A n \in 1 .. Len(onnx) : n < idx =>
           NodeExact(onnx[n], vtype) /\ (vtype[onnx[n].out] = "int" <=> onnx[n].out \in I)
    /\ \A n \in 1 .. Len(onnx) : idx <= n => Agrees(onnx[n], I)
    /\ \A c \in 1 .. Len(pending) : NodeExact(pending[c][2], vtype)

LEMMA CastOutsAre ==
    ASSUME FirstNames, FirstCounts
    PROVE  CastOuts \subseteq Casted
<1> SUFFICES ASSUME NEW c \in 1 .. Len(pending)
             PROVE  pending[c][2].out \in Casted
  BY DEF CastOuts
<1>1. PICK x \in Bare, m \in 0 .. fixed - 1 :
    pending[c][2].out = Harmonizer(variant)!CastName(x, m)
  BY DEF FirstNames
<1>2. m \in Nat BY DEF FirstCounts
<1> QED BY <1>1, <1>2 DEF Casted

\* A visit changes no type that is known, and gives the new tensors the target's.
LEMMA VisitExtends ==
    ASSUME Harmonizer(variant)!Visit, FirstNames, FirstFits, FirstCounts, NEW I, FirstTypes(I),
           NEW node, node = onnx[idx]
    PROVE  /\ DOMAIN vtype' = DOMAIN vtype \cup NewTensors(node) \cup {node.out}
           /\ \A t \in DOMAIN vtype : vtype'[t] = vtype[t]
           /\ \A t \in NewTensors(node) : vtype'[t] = Harmonizer(variant)!Target(node)
           /\ vtype'[node.out] = Harmonizer(variant)!Noted(node, KnownAt(node))
           /\ NewTensors(node) = {Harmonizer(variant)!Copy(c[1], c[2]) :
                                  c \in Harmonizer(variant)!NewCopies(node)}
                  \cup NewOuts(node)
<1> DEFINE target == Harmonizer(variant)!Target(node)
           X == {Harmonizer(variant)!Copy(c[1], c[2]) : c \in Harmonizer(variant)!NewCopies(node)}
           Y == NewOuts(node)
           v == vtype'
           known == KnownAt(node)
<1>1. NewTensors(node) = X \cup Y
  <2>1. OutsOf(Harmonizer(variant)!NewCasts(node)) = NewOuts(node)
    BY VisitCasts
  <2> QED BY <2>1 DEF NewTensors, NewOuts
<1>2. v = Harmonizer(variant)!Assign(known, {node.out}, Harmonizer(variant)!Noted(node, known))
  BY VisitDoes
<1>3. /\ idx \in 1 .. Len(onnx) /\ Len(onnx) \in Nat /\ node.out \in Bare
      /\ \A k \in {1, 2} : node.ins[k] \in Bare
  BY VisitGraph DEF FirstNames
<1>4. fixed \in Nat /\ idx \in Nat BY DEF FirstCounts
<1>5. X \subseteq Copied /\ \A x \in X :
    x = Harmonizer(variant)!Copy(Harmonizer(variant)!Weight, target)
  <2>1. target \in Harmonizer(variant)!Float BY TargetIsFloat
  <2>2. \A c \in Harmonizer(variant)!NewCopies(node) : c = <<Harmonizer(variant)!Weight, target>>
    BY NewCopiesAre
  <2>3. \A x \in X : x = Harmonizer(variant)!Copy(Harmonizer(variant)!Weight, target)
    BY <2>2
  <2> QED BY <2>1, <2>3 DEF Copied
<1>6. Y \subseteq Casted BY <1>3, <1>4, EntryIs DEF NewOuts
<1>7. node.out \notin DOMAIN vtype
  <2>1. node.out \notin There BY <1>3 DEF FirstFits, Fitting, OneMaker
  <2>2. node.out \notin OutsBefore(onnx, idx)
    <3>1. \A j \in 1 .. idx - 1 : j \in 1 .. Len(onnx) /\ j # idx
      BY <1>3
    <3>2. \A n, j \in 1 .. Len(onnx) : onnx[n].out = onnx[j].out => n = j
      BY DEF FirstFits, Fitting, OneMaker
    <3> QED BY <3>1, <3>2, <1>3 DEF OutsBefore
  <2>3. node.out \notin CastOuts BY <1>3, CastOutsAre, NameKinds
  <2> QED BY <2>1, <2>2, <2>3 DEF FirstTypes
<1>8. node.out \notin X \cup Y BY <1>3, <1>5, <1>6, NameKinds
<1>9. \A t \in DOMAIN vtype \cap X : vtype[t] = target
  <2> SUFFICES ASSUME NEW t \in DOMAIN vtype, t \in X
               PROVE  vtype[t] = target
    OBVIOUS
  <2>1. t \in Copied /\ t = Harmonizer(variant)!Copy(Harmonizer(variant)!Weight, target)
    BY <1>5
  <2>2. OutsBefore(onnx, idx) \subseteq Bare
    <3>1. \A j \in 1 .. idx - 1 : j \in 1 .. Len(onnx) BY <1>3
    <3> QED BY <3>1 DEF OutsBefore, FirstNames
  <2>3. Harmonizer(variant)!Image \in Bare /\ Harmonizer(variant)!Weight \in Bare
    BY DEF Bare
  <2>4. t \in {dup[d] : d \in DOMAIN dup}
    BY <2>1, <2>2, <2>3, CastOutsAre, NameKinds DEF FirstTypes, There
  <2>5. PICK d \in DOMAIN dup : t = dup[d] BY <2>4
  <2>6. Harmonizer(variant)!Copy(d[1], d[2])
      = Harmonizer(variant)!Copy(Harmonizer(variant)!Weight, target)
    BY <2>1, <2>5 DEF FirstNames
  <2>7. d[2] = target
    <3>1. Harmonizer(variant)!Copy(d[1], d[2])[3] = d[2]
        /\ Harmonizer(variant)!Copy(Harmonizer(variant)!Weight, target)[3] = target
      BY DEF Harmonizer!Copy
    <3> QED BY <2>6, <3>1
  <2> QED BY <2>5, <2>7 DEF FirstTypes
<1>10. DOMAIN vtype \cap Y = {}
  <2> SUFFICES ASSUME NEW k \in {1, 2}, Harmonizer(variant)!NeedsCast(node, k),
                      Entry(node, k)[2].out \in DOMAIN vtype
               PROVE  FALSE
    BY DEF NewOuts
  <2>1. /\ Entry(node, k)[2].out
           = Harmonizer(variant)!CastName(node.ins[k], Harmonizer(variant)!Number(node, k))
        /\ Entry(node, k)[2].out \in Casted /\ k \in Harmonizer(variant)!ToFix(node)
    BY <1>3, <1>4, EntryIs
  <2>2. OutsBefore(onnx, idx) \subseteq Bare
    <3>1. \A j \in 1 .. idx - 1 : j \in 1 .. Len(onnx) BY <1>3
    <3> QED BY <3>1 DEF OutsBefore, FirstNames
  <2>3. Harmonizer(variant)!Image \in Bare /\ Harmonizer(variant)!Weight \in Bare
    BY DEF Bare
  <2>4. Entry(node, k)[2].out \in CastOuts
    BY <2>1, <2>2, <2>3, ThereIs, NameKinds DEF FirstTypes
  <2>5. PICK c \in 1 .. Len(pending) : Entry(node, k)[2].out = pending[c][2].out
    BY <2>4 DEF CastOuts
  <2>6. PICK x \in Bare, m \in 0 .. fixed - 1 :
      pending[c][2].out = Harmonizer(variant)!CastName(x, m)
    BY DEF FirstNames
  <2>7. m = Harmonizer(variant)!Number(node, k)
    BY <2>1, <2>5, <2>6, CastNamesDiffer, ZenonT(60)
  <2>8. Harmonizer(variant)!Number(node, k)
      \in fixed .. fixed + Cardinality(Harmonizer(variant)!ToFix(node)) - 1
    BY <2>1, <1>4, Numbers
  <2>9. m < fixed /\ Harmonizer(variant)!Number(node, k) >= fixed
    BY <2>8, <1>4
  <2> QED BY <2>7, <2>9, <1>4
<1>11. /\ DOMAIN known = DOMAIN vtype \cup (X \cup Y)
       /\ \A t \in X \cup Y : known[t] = target
       /\ \A t \in DOMAIN vtype : t \notin X \cup Y => known[t] = vtype[t]
  <2> HIDE DEF X, Y, target
  <2>1. known = Harmonizer(variant)!Assign(vtype, X \cup Y, target)
    BY <1>1 DEF KnownAt, target
  <2> HIDE DEF known
  <2> QED BY <2>1 DEF Harmonizer!Assign
<1> HIDE DEF known, X, Y, target
<1>12. \A t \in DOMAIN vtype : known[t] = vtype[t] BY <1>9, <1>10, <1>11
<1> DEFINE y == Harmonizer(variant)!Noted(node, known)
<1>13. /\ DOMAIN v = DOMAIN known \cup {node.out} /\ v[node.out] = y
       /\ \A t \in DOMAIN known : t # node.out => v[t] = known[t]
  <2>1. v = Harmonizer(variant)!Assign(known, {node.out}, y) BY <1>2
  <2> HIDE DEF v, y
  <2> QED BY <2>1 DEF Harmonizer!Assign
<1> HIDE DEF v, y
<1>14. DOMAIN v = DOMAIN vtype \cup (X \cup Y) \cup {node.out}
  BY <1>11, <1>13
<1>15. \A t \in DOMAIN vtype : v[t] = vtype[t]
  BY <1>7, <1>11, <1>12, <1>13
<1>16. \A t \in X \cup Y : v[t] = target BY <1>8, <1>11, <1>13
<1> QED BY <1>1, <1>13, <1>14, <1>15, <1>16 DEF v, y, known, target, X, Y

\* Every node that was visited stays exact, and the one that is visited becomes it.
LEMMA VisitTypes ==
    ASSUME variant \in DOMAIN Repairs, Repairs[variant].tool = "surgical",
           Harmonizer(variant)!Visit, FirstNames, FirstFits, FirstCounts, NEW I, FirstTypes(I)
    PROVE  FirstTypes(I)'
<1> DEFINE node == onnx[idx]
           x == Harmonizer(variant)!FixedNode(node)
           v == vtype'
           g == onnx'
           P == pending'
           N == Len(pending)
           M == Len(pending')
           L == Len(onnx)
           target == Harmonizer(variant)!Target(node)
           X == {Harmonizer(variant)!Copy(c[1], c[2]) : c \in Harmonizer(variant)!NewCopies(node)}
           Y == NewOuts(node)
<1>1. /\ L \in Nat /\ idx \in 1 .. L /\ node \in Nodes /\ \A k \in {1, 2} : node.ins[k] \in Bare
      /\ g \in Seq(Nodes) /\ Len(g) = L /\ g[idx] = x
      /\ \A n \in 1 .. L : n # idx => g[n] = onnx[n]
      /\ \A n \in 1 .. L : g[n].out = onnx[n].out
  BY VisitGraph
<1>2. /\ N \in Nat /\ M \in Nat /\ N <= M
      /\ \A c \in 1 .. N : P[c] = pending[c]
      /\ \A c \in 1 .. M : c \notin 1 .. N =>
             \E k \in {1, 2} : Harmonizer(variant)!NeedsCast(node, k) /\ P[c] = Entry(node, k)
      /\ \A k \in {1, 2} : Harmonizer(variant)!NeedsCast(node, k)
         => \E c \in 1 .. M : P[c] = Entry(node, k)
  BY VisitCasts
<1>3. /\ DOMAIN v = DOMAIN vtype \cup NewTensors(node) \cup {node.out}
      /\ \A t \in DOMAIN vtype : v[t] = vtype[t]
      /\ \A t \in NewTensors(node) : v[t] = target
      /\ v[node.out] = Harmonizer(variant)!Noted(node, KnownAt(node))
      /\ NewTensors(node) = X \cup Y
  BY VisitExtends
<1>4. idx' = idx + 1 /\ init' = init BY VisitDoes
<1>5. fixed \in Nat /\ idx \in Nat BY DEF FirstCounts
<1>6. There' = There \cup X BY VisitThere
<1>7. DOMAIN dup' \subseteq {Harmonizer(variant)!Weight} \X Harmonizer(variant)!Float
    /\ \A d \in DOMAIN dup' : dup'[d] = Harmonizer(variant)!Copy(d[1], d[2])
      /\ DOMAIN dup' = DOMAIN dup \cup Harmonizer(variant)!NewCopies(node)
  BY VisitThere, VisitDoes, ZenonT(60)
<1>8. x.op = node.op /\ x.block = node.block /\ x.out = node.out
      /\ \A k \in {1, 2} : x.ins[k] = Harmonizer(variant)!NewInput(node, k)
  BY <1>1, <1>5, FixedNodeIs
<1>9. \A k \in {1, 2} : node.ins[k] \in There \cup OutsBefore(onnx, idx)
  BY NewInputFits
<1>10. \A k \in {1, 2} :
           /\ k \notin Harmonizer(variant)!ToFix(node)
              => Harmonizer(variant)!NewInput(node, k) = node.ins[k]
           /\ k \in Harmonizer(variant)!ToFix(node)
              => Harmonizer(variant)!NewInput(node, k) \in X \cup Y
  <2> SUFFICES ASSUME NEW k \in {1, 2}
               PROVE  /\ k \notin Harmonizer(variant)!ToFix(node)
                         => Harmonizer(variant)!NewInput(node, k) = node.ins[k]
                      /\ k \in Harmonizer(variant)!ToFix(node)
                         => Harmonizer(variant)!NewInput(node, k) \in X \cup Y
    OBVIOUS
  <2>1. k \notin Harmonizer(variant)!ToFix(node)
      => Harmonizer(variant)!NewInput(node, k) = node.ins[k]
    BY <1>1, <1>5, NewInputIs
  <2>2. ASSUME k \in Harmonizer(variant)!ToFix(node), ~Harmonizer(variant)!NeedsCast(node, k)
        PROVE  Harmonizer(variant)!NewInput(node, k) \in X
    <3>1. Harmonizer(variant)!NewInput(node, k)
        = Harmonizer(variant)!Copy(Harmonizer(variant)!Weight, target)
      BY <1>1, <1>5, <2>2, NewInputIs
    <3>2. <<Harmonizer(variant)!Weight, target>> \in Harmonizer(variant)!NewCopies(node)
      BY <2>2, NewCopiesAre
    <3>3. Harmonizer(variant)!Copy(Harmonizer(variant)!Weight, target) \in X
      BY <3>2
    <3> QED BY <3>1, <3>3, Zenon
  <2>3. ASSUME Harmonizer(variant)!NeedsCast(node, k)
        PROVE  Harmonizer(variant)!NewInput(node, k) \in Y
    <3>1. Harmonizer(variant)!NewInput(node, k) = Entry(node, k)[2].out
      BY <1>1, <1>5, <2>3, NewInputIs, EntryIs
    <3> QED BY <2>3, <3>1 DEF NewOuts
  <2> QED BY <2>1, <2>2, <2>3
<1>11. /\ DOMAIN vtype = There \cup OutsBefore(onnx, idx) \cup CastOuts
       /\ \A t \in DOMAIN vtype : vtype[t] \in Types
       /\ vtype[Harmonizer(variant)!Image] = "f32"
          /\ vtype[Harmonizer(variant)!Weight] = init[Harmonizer(variant)!Weight]
       /\ \A d \in DOMAIN dup : vtype[dup[d]] = d[2]
       /\ Harmonizer(variant)!Image \notin I /\ Harmonizer(variant)!Weight \notin I
          /\ Harmonizer(variant)!Output \notin I
       /\ \A n \in 1 .. L : n < idx =>
              NodeExact(onnx[n], vtype) /\ (vtype[onnx[n].out] = "int" <=> onnx[n].out \in I)
       /\ \A n \in 1 .. L : idx <= n => Agrees(onnx[n], I)
       /\ \A c \in 1 .. N : NodeExact(pending[c][2], vtype)
  BY DEF FirstTypes
<1>12. target \in Harmonizer(variant)!Float BY TargetIsFloat
<1>13. \A c \in Harmonizer(variant)!NewCopies(node) : c = <<Harmonizer(variant)!Weight, target>>
  BY NewCopiesAre
<1>14. \A n \in 1 .. L : \A k \in {1, 2} :
           onnx[n].ins[k] \in There \cup OutsBefore(onnx, n) \cup CastBefore(pending, N, n)
  BY DEF FirstFits, Fitting
<1>15. \A c \in 1 .. N : \A k \in {1, 2} :
           pending[c][2].ins[k] \in There \cup OutsBefore(onnx, pending[c][1])
  BY DEF FirstFits, Fitting, CastsFit
<1>16. \A c \in 1 .. N : pending[c][1] < idx /\ pending[c][1] \in 1 .. L
  BY DEF FirstNames, FirstFits, Fitting, CastsFit
<1>17. \A n \in 1 .. idx : OutsBefore(onnx, n) \subseteq OutsBefore(onnx, idx)
  <2> SUFFICES ASSUME NEW n \in 1 .. idx
               PROVE  OutsBefore(onnx, n) \subseteq OutsBefore(onnx, idx)
    OBVIOUS
  <2>1. \A j \in 1 .. n - 1 : j \in 1 .. idx - 1 BY <1>5
  <2> QED BY <2>1 DEF OutsBefore
<1>18. \A n : CastBefore(pending, N, n) \subseteq CastOuts
  BY DEF CastBefore, CastOuts
<1> HIDE DEF node, x, v, g, P, N, M, L, target, X, Y
<1>19. \A k \in {1, 2} : vtype[node.ins[k]] = "int" <=> node.ins[k] \in I
  <2> SUFFICES ASSUME NEW k \in {1, 2}
               PROVE  vtype[node.ins[k]] = "int" <=> node.ins[k] \in I
    OBVIOUS
  <2>1. node.ins[k] \in Bare BY <1>1
  <2>2. node.ins[k] \in {Harmonizer(variant)!Image, Harmonizer(variant)!Weight}
      \cup OutsBefore(onnx, idx)
    BY <2>1, <1>9, ThereIs, NameKinds
  <2>3. init[Harmonizer(variant)!Weight] # "int"
    BY DEF FirstNames, Harmonizer!Float
  <2>4. CASE node.ins[k] \in {Harmonizer(variant)!Image, Harmonizer(variant)!Weight}
    BY <2>3, <2>4, <1>11
  <2>5. CASE node.ins[k] \in OutsBefore(onnx, idx)
    <3>1. PICK j \in 1 .. idx - 1 : node.ins[k] = onnx[j].out
      BY <2>5 DEF OutsBefore
    <3>2. j \in 1 .. L /\ j < idx BY <1>1
    <3> QED BY <3>1, <3>2, <1>11
  <2> QED BY <2>2, <2>4, <2>5
<1>20. \A k \in {1, 2} : node.ins[k] \in DOMAIN vtype /\ vtype[node.ins[k]] \in Types
  BY <1>9, <1>11
<1>21. \A k \in {1, 2} : v[x.ins[k]] = IF k \in Harmonizer(variant)!ToFix(node) THEN target
    ELSE vtype[node.ins[k]]
  <2> SUFFICES ASSUME NEW k \in {1, 2}
               PROVE  v[x.ins[k]] = IF k \in Harmonizer(variant)!ToFix(node) THEN target
                 ELSE vtype[node.ins[k]]
    OBVIOUS
  <2>1. x.ins[k] = Harmonizer(variant)!NewInput(node, k) BY <1>8
  <2>2. CASE k \in Harmonizer(variant)!ToFix(node)
    BY <2>1, <2>2, <1>3, <1>10
  <2>3. CASE k \notin Harmonizer(variant)!ToFix(node)
    BY <2>1, <2>3, <1>3, <1>10, <1>20
  <2> QED BY <2>2, <2>3
<1>22. Agrees(node, I) BY <1>1, <1>5, <1>11 DEF node
<1>23. /\ NodeExact(x, v)
       /\ v[x.out] = "int" <=> x.out \in I
       /\ v[x.out] \in Types
  <2>1. v[x.out] = Harmonizer(variant)!Noted(node, KnownAt(node))
    BY <1>3, <1>8
  <2> QED BY <2>1, <1>1, <1>8, <1>19, <1>20, <1>21, <1>22, MendedNode DEF target
<1>24. \A t \in DOMAIN v : v[t] \in Types
  BY <1>3, <1>8, <1>11, <1>12, <1>23 DEF Types
<1>25. ASSUME NEW n \in 1 .. L, n < idx + 1
       PROVE  NodeExact(g[n], v) /\ (v[g[n].out] = "int" <=> g[n].out \in I)
  <2>1. CASE n = idx BY <2>1, <1>1, <1>23
  <2>2. CASE n # idx
    <3>1. g[n] = onnx[n] /\ n < idx /\ n \in 1 .. idx
      BY <2>2, <1>1, <1>5, <1>25
    <3>2. onnx[n].out \in DOMAIN vtype
      <4>1. n \in 1 .. idx - 1 BY <3>1, <1>5
      <4> QED BY <4>1, <1>11 DEF OutsBefore
    <3>3. \A k \in {1, 2} : onnx[n].ins[k] \in DOMAIN vtype
      BY <3>1, <1>11, <1>14, <1>17, <1>18
    <3>4. NodeExact(onnx[n], vtype) /\ (vtype[onnx[n].out] = "int" <=> onnx[n].out \in I)
      BY <3>1, <1>11
    <3>5. v[onnx[n].out] = vtype[onnx[n].out] /\ \A k \in {1, 2} :
        v[onnx[n].ins[k]] = vtype[onnx[n].ins[k]]
      BY <3>2, <3>3, <1>3
    <3>6. NodeExact(onnx[n], v) BY <3>4, <3>5, ExactKept
    <3> QED BY <3>1, <3>4, <3>5, <3>6
  <2> QED BY <2>1, <2>2
<1>26. \A n \in 1 .. L : idx + 1 <= n => Agrees(g[n], I)
  <2>1. \A n \in 1 .. L : idx + 1 <= n => n # idx /\ idx <= n BY <1>5
  <2> QED BY <2>1, <1>1, <1>11
<1>27. ASSUME NEW c \in 1 .. M
       PROVE  NodeExact(P[c][2], v)
  <2>1. CASE c \in 1 .. N
    <3>1. P[c] = pending[c] /\ NodeExact(pending[c][2], vtype) /\ pending[c][1] \in 1 .. idx
      BY <2>1, <1>2, <1>5, <1>11, <1>16
    <3>2. pending[c][2].out \in DOMAIN vtype
      BY <2>1, <1>11 DEF CastOuts, N
    <3>3. \A k \in {1, 2} : pending[c][2].ins[k] \in DOMAIN vtype
      BY <2>1, <3>1, <1>11, <1>15, <1>17
    <3>4. /\ v[pending[c][2].out] = vtype[pending[c][2].out]
          /\ \A k \in {1, 2} : v[pending[c][2].ins[k]] = vtype[pending[c][2].ins[k]]
      BY <3>2, <3>3, <1>3
    <3>5. NodeExact(pending[c][2], v) BY <3>1, <3>4, ExactKept
    <3> QED BY <3>1, <3>5
  <2>2. CASE c \notin 1 .. N
    <3>1. PICK k \in {1, 2} : Harmonizer(variant)!NeedsCast(node, k) /\ P[c] = Entry(node, k)
      BY <2>2, <1>2
    <3> DEFINE e == Entry(node, k)[2]
    <3>2. Harmonizer(variant)!IsCast(e.op) /\ Harmonizer(variant)!CastType(e.op) = target
      BY <3>1, <1>1, <1>5, EntryIs DEF target
    <3>3. e.out \in NewTensors(node) BY <3>1, <1>3 DEF Y, NewOuts
    <3> HIDE DEF e
    <3>4. v[e.out] = target BY <3>3, <1>3
    <3>5. Harmonizer(variant)!Produces(e, v[e.ins[1]]) = target
      BY <3>2, ProducesIs
    <3>6. e.op # "Mul" BY <3>2 DEF Harmonizer!IsCast
    <3>7. NodeExact(e, v) BY <3>2, <3>4, <3>5, <3>6 DEF NodeExact
    <3> QED BY <3>1, <3>7 DEF e
  <2> QED BY <2>1, <2>2
<1>28. DOMAIN v = There' \cup OutsBefore(g, idx + 1) \cup {P[c][2].out : c \in 1 .. M}
  <2>1. OutsBefore(g, idx + 1) = OutsBefore(onnx, idx) \cup {node.out}
    <3>1. \A j : j \in 1 .. (idx + 1) - 1 <=> j \in 1 .. idx - 1 \/ j = idx
      BY <1>1
    <3>2. \A j \in 1 .. (idx + 1) - 1 : g[j].out = onnx[j].out
      <4>1. \A j \in 1 .. (idx + 1) - 1 : j \in 1 .. L BY <1>1
      <4> QED BY <4>1, <1>1
    <3> QED BY <3>1, <3>2 DEF OutsBefore, node
  <2>2. {P[c][2].out : c \in 1 .. M} = CastOuts \cup Y
    <3>1. \A c \in 1 .. M : P[c][2].out \in CastOuts \cup Y
      BY <1>2 DEF CastOuts, Y, NewOuts, N
    <3>2. \A c \in 1 .. N : c \in 1 .. M /\ P[c] = pending[c] BY <1>2
    <3>3. \A c \in 1 .. N : pending[c][2].out \in {P[e][2].out : e \in 1 .. M}
      BY <3>2
    <3>4. Y \subseteq {P[c][2].out : c \in 1 .. M}
      BY <1>2 DEF Y, NewOuts
    <3> QED BY <3>1, <3>3, <3>4 DEF CastOuts, N
  <2> QED BY <2>1, <2>2, <1>3, <1>6, <1>11
<1>29. \A d \in DOMAIN dup' : v[dup'[d]] = d[2]
  <2> SUFFICES ASSUME NEW d \in DOMAIN dup'
               PROVE  v[dup'[d]] = d[2]
    OBVIOUS
  <2>1. CASE d \in DOMAIN dup
    <3>1. dup'[d] = dup[d] BY <2>1, <1>7 DEF FirstNames
    <3>2. dup[d] \in DOMAIN vtype BY <2>1, <1>11 DEF There
    <3> QED BY <2>1, <3>1, <3>2, <1>3, <1>11
  <2>2. CASE d \in Harmonizer(variant)!NewCopies(node)
    <3>1. dup'[d] \in NewTensors(node) BY <2>2, <1>3, <1>7 DEF X
    <3>2. d = <<Harmonizer(variant)!Weight, target>> BY <2>2, <1>13
    <3> QED BY <3>1, <3>2, <1>3
  <2> QED BY <2>1, <2>2, <1>7
<1>30. v[Harmonizer(variant)!Image] = "f32"
    /\ v[Harmonizer(variant)!Weight] = init[Harmonizer(variant)!Weight]
  <2>1. Harmonizer(variant)!Image \in DOMAIN vtype /\ Harmonizer(variant)!Weight \in DOMAIN vtype
    BY <1>11 DEF There
  <2> QED BY <2>1, <1>3, <1>11
<1>31. CastOuts' = {P[c][2].out : c \in 1 .. M} BY DEF CastOuts, P, M
<1>32. Harmonizer(variant)!Image' = Harmonizer(variant)!Image
    /\ Harmonizer(variant)!Weight' = Harmonizer(variant)!Weight
       /\ Harmonizer(variant)!Output' = Harmonizer(variant)!Output
  BY DEF Harmonizer!Image, Harmonizer!Weight, Harmonizer!Output
<1> QED
  BY <1>1, <1>4, <1>11, <1>24, <1>25, <1>26, <1>27, <1>28, <1>29, <1>30, <1>31, <1>32
     DEF FirstTypes, v, g, P, M, L

------------------------------
(* TypeHarmonizer: the graph the converter leaves, and its outputs *)

Start == {Harmonizer(variant)!Image, Harmonizer(variant)!Weight}

\* The graph before the first pass.
RawGraph ==
    /\ Formed(onnx, Start)
    /\ \A n \in 1 .. Len(onnx) : onnx[n].out \in Bare /\ \A k \in {1, 2} : onnx[n].ins[k] \in Bare
    /\ DOMAIN init = {Harmonizer(variant)!Weight}
       /\ init[Harmonizer(variant)!Weight] \in Harmonizer(variant)!Float

\* Its integers, by the names of the tensors.
RawTypes(I) ==
    /\ Harmonizer(variant)!Image \notin I /\ Harmonizer(variant)!Weight \notin I
       /\ Harmonizer(variant)!Output \notin I /\ Harmonizer(variant)!Inner \notin I
    /\ \A n \in 1 .. Len(onnx) : Agrees(onnx[n], I)

\* The last node makes the output, in FP32.
LastSo ==
    /\ Len(onnx) \in Nat \ {0} /\ onnx[Len(onnx)].out = Harmonizer(variant)!Output
    /\ \/ onnx[Len(onnx)].op = "Cast32"
       \/ onnx[Len(onnx)].op = "Mul" /\ onnx[Len(onnx)].block

\* The graph the converter leaves: one node of each name.
Fresh ==
    /\ Len(onnx) = Len(HarmNames)
    /\ \A n \in 1 .. Len(onnx) : onnx[n].out = Harmonizer(variant)!Tensor(HarmNames[n])

LEMMA InitialIs ==
    /\ DOMAIN Harmonizer(variant)!Initial = DOMAIN init \cup {Harmonizer(variant)!Image}
    /\ Harmonizer(variant)!Initial[Harmonizer(variant)!Image] = "f32"
    /\ \A t \in DOMAIN init : t # Harmonizer(variant)!Image
       => Harmonizer(variant)!Initial[t] = init[t]
BY DEF Harmonizer!Initial, Harmonizer!Assign

LEMMA OutputIs ==
    ASSUME variant \in DOMAIN Repairs
    PROVE  Harmonizer(variant)!Output = Harmonizer(variant)!Tensor(HarmNames[Len(HarmNames)])
      /\ Len(HarmNames) \in DOMAIN HarmNames
<1>1. Len(HarmNames) \in DOMAIN HarmNames BY RepairAssumption
<1> QED BY <1>1 DEF Harmonizer!Output, Harmonizer!Final, HarmNames

\* What the converter leaves is a formed graph, with integers and floats that do not meet.
LEMMA ConvertedIsRaw ==
    ASSUME variant \in DOMAIN Repairs, Harmonizer(variant)!Init
    PROVE  RawGraph /\ Fresh /\ \E I : RawTypes(I)
<1> DEFINE N == Len(HarmNames)
           T == Harmonizer(variant)!Typed(onnx, Harmonizer(variant)!Initial)
           I == {t \in DOMAIN T : T[t] = "int"}
<1>1. N \in Nat \ {0} /\ DOMAIN HarmNames = 1 .. N /\ \A j, k \in 1 .. N :
    HarmNames[j] = HarmNames[k] => j = k
  BY RepairAssumption
<1>2. /\ init \in [{Harmonizer(variant)!Weight} -> Harmonizer(variant)!Float]
      /\ onnx \in Harmonizer(variant)!AllGraphs /\ Harmonizer(variant)!WellTyped(onnx)
  BY DEF Harmonizer!Init
<1>3. /\ onnx \in [1 .. N -> UNION {Harmonizer(variant)!NodeAt(n) : n \in 1 .. N}]
      /\ \A n \in 1 .. N : onnx[n] \in Harmonizer(variant)!NodeAt(n)
  BY <1>1, <1>2 DEF Harmonizer!AllGraphs, HarmNames
<1>4. ASSUME NEW n \in 1 .. N
      PROVE  /\ onnx[n] \in Nodes /\ onnx[n].out = Harmonizer(variant)!Tensor(HarmNames[n])
             /\ onnx[n].ins \in (Start
                                 \cup {Harmonizer(variant)!Tensor(HarmNames[j]) : j \in 1 .. n - 1})
                                \X (Start \cup {Harmonizer(variant)!Tensor(HarmNames[j]) :
                                                j \in 1 .. n - 1})
  <2> DEFINE there == Start \cup {Harmonizer(variant)!Tensor(HarmNames[j]) : j \in 1 .. n - 1}
  <2>1. \A j \in 1 .. n - 1 : j \in DOMAIN HarmNames BY <1>1
  <2>2. there \subseteq Bare /\ Harmonizer(variant)!Tensor(HarmNames[n]) \in Bare
    BY <2>1, <1>1 DEF Bare, Start
  <2>3. /\ onnx[n] \in [op : Repairs[variant].ops, block : BOOLEAN, ins : there \X there,
                        out : {Harmonizer(variant)!Tensor(HarmNames[n])}]
        /\ Harmonizer(variant)!IsCast(onnx[n].op) => onnx[n].ins[1] = onnx[n].ins[2]
    BY <1>3 DEF Harmonizer!NodeAt, Start, HarmNames
  <2> HIDE DEF there
  <2>4. there \subseteq AllTensors /\ Harmonizer(variant)!Tensor(HarmNames[n]) \in AllTensors
    BY <2>2 DEF AllTensors
  <2>5. onnx[n] \in Nodes BY <2>3, <2>4 DEF Nodes, HarmOps
  <2> QED BY <2>3, <2>5 DEF there
<1>5. onnx \in Seq(Nodes) /\ Len(onnx) = N
  <2>1. onnx \in [1 .. N -> Nodes] BY <1>3, <1>4
  <2> QED BY <2>1, <1>1
<1>6. \A n \in 1 .. N : /\ onnx[n].out \in Bare /\ onnx[n].out \notin Start
                        /\ \A k \in {1, 2} : onnx[n].ins[k] \in Bare
                        /\ \A k \in {1, 2} : onnx[n].ins[k] \in Start \cup OutsBefore(onnx, n)
  <2> SUFFICES ASSUME NEW n \in 1 .. N
               PROVE  /\ onnx[n].out \in Bare /\ onnx[n].out \notin Start
                      /\ \A k \in {1, 2} : onnx[n].ins[k] \in Bare
                      /\ \A k \in {1, 2} : onnx[n].ins[k] \in Start \cup OutsBefore(onnx, n)
    OBVIOUS
  <2>1. onnx[n].out \in Bare BY <1>1, <1>4 DEF Bare
  <2>2. onnx[n].out \notin Start
    <3>1. HarmNames[n] \notin {"images", "w"} BY <1>1, RepairAssumption
    <3>2. Harmonizer(variant)!Image = Harmonizer(variant)!Tensor("images")
        /\ Harmonizer(variant)!Weight = Harmonizer(variant)!Tensor("w")
      BY DEF Harmonizer!Image, Harmonizer!Weight, Harmonizer!Tensor
    <3> QED BY <3>1, <3>2, <1>4, TensorKinds DEF Start
  <2>3. {Harmonizer(variant)!Tensor(HarmNames[j]) : j \in 1 .. n - 1} = OutsBefore(onnx, n)
    <3>1. \A j \in 1 .. n - 1 : j \in 1 .. N BY <1>1
    <3>2. \A j \in 1 .. n - 1 : onnx[j].out = Harmonizer(variant)!Tensor(HarmNames[j])
      BY <3>1, <1>4
    <3> QED BY <3>2 DEF OutsBefore
  <2>4. \A k \in {1, 2} : onnx[n].ins[k] \in Start \cup OutsBefore(onnx, n)
    <3>1. onnx[n].ins \in (Start \cup OutsBefore(onnx, n)) \X (Start \cup OutsBefore(onnx, n))
      BY <2>3, <1>4
    <3> QED BY <3>1
  <2>5. Start \cup OutsBefore(onnx, n) \subseteq Bare
    <3>1. \A j \in 1 .. n - 1 : j \in 1 .. N BY <1>1
    <3>2. \A j \in 1 .. n - 1 : onnx[j].out \in Bare
      BY <3>1, <1>1, <1>4 DEF Bare
    <3> QED BY <3>2 DEF OutsBefore, Start, Bare
  <2> QED BY <2>1, <2>2, <2>4, <2>5
<1>7. Formed(onnx, Start)
  <2>1. \A n, j \in 1 .. N : onnx[n].out = onnx[j].out => n = j
    BY <1>1, <1>4, TensorKinds
  <2>2. OneMaker(onnx, Start) BY <1>5, <1>6, <2>1 DEF OneMaker
  <2> QED BY <1>5, <1>6, <2>2 DEF Formed
<1>8. /\ DOMAIN init = {Harmonizer(variant)!Weight}
         /\ init[Harmonizer(variant)!Weight] \in Harmonizer(variant)!Float
      /\ DOMAIN Harmonizer(variant)!Initial = Start /\ \A t \in Start :
         Harmonizer(variant)!Initial[t] \in Harmonizer(variant)!Float
  <2>1. DOMAIN init = {Harmonizer(variant)!Weight}
      /\ init[Harmonizer(variant)!Weight] \in Harmonizer(variant)!Float
    BY <1>2
  <2>2. "f32" \in Harmonizer(variant)!Float BY DEF Harmonizer!Float
  <2> QED BY <2>1, <2>2, InitialIs, TensorKinds DEF Start
<1>9. IsTyping(onnx, Harmonizer(variant)!Initial, N, T)
  BY <1>5, <1>7, <1>8, TypedIs DEF Types
<1>10. OutsBefore(onnx, N + 1) = {onnx[n].out : n \in 1 .. N}
  <2>1. (N + 1) - 1 = N BY <1>1
  <2> QED BY <2>1 DEF OutsBefore
<1>11. /\ DOMAIN T = Start \cup {onnx[n].out : n \in 1 .. N}
       /\ \A t \in Start : T[t] \in Harmonizer(variant)!Float
       /\ \A n \in 1 .. N :
          T[onnx[n].out] = Harmonizer(variant)!Produces(onnx[n], T[onnx[n].ins[1]])
  BY <1>8, <1>9, <1>10 DEF IsTyping
<1>12. /\ T[Harmonizer(variant)!Output] \in Harmonizer(variant)!Float
       /\ \A n \in 1 .. N : onnx[n].op = "Mul" =>
              (T[onnx[n].ins[1]] = "int" <=> T[onnx[n].ins[2]] = "int")
  <2>1. DOMAIN onnx = 1 .. N BY <1>5
  <2> QED BY <1>2, <2>1 DEF Harmonizer!WellTyped
<1> HIDE DEF T
<1>13. "int" \notin Harmonizer(variant)!Float BY DEF Harmonizer!Float
<1>14. RawTypes(I)
  <2>1. Harmonizer(variant)!Image \notin I /\ Harmonizer(variant)!Weight \notin I
      /\ Harmonizer(variant)!Output \notin I
    BY <1>11, <1>12, <1>13 DEF Start
  <2>2. Harmonizer(variant)!Inner \notin I
    <3>1. Harmonizer(variant)!Inner \notin Start
      BY TensorKinds DEF Start
    <3>2. \A n \in 1 .. N : onnx[n].out # Harmonizer(variant)!Inner
      BY <1>4, TensorKinds
    <3> QED BY <3>1, <3>2, <1>11
  <2>3. ASSUME NEW n \in 1 .. N
        PROVE  Agrees(onnx[n], I)
    <3> DEFINE x == onnx[n]
    <3>1. x.out \in DOMAIN T BY <1>11
    <3>2. \A k \in {1, 2} : x.ins[k] \in DOMAIN T
      <4>1. \A j \in 1 .. n - 1 : j \in 1 .. N BY <1>1
      <4>2. Start \subseteq DOMAIN T /\ OutsBefore(onnx, n) \subseteq DOMAIN T
        BY <4>1, <1>11, Zenon DEF OutsBefore
      <4>3. \A k \in {1, 2} : x.ins[k] \in Start \cup OutsBefore(onnx, n)
        BY <1>6, Zenon
      <4> QED BY <4>2, <4>3, Zenon
    <3>3. T[x.out] = Harmonizer(variant)!Produces(x, T[x.ins[1]])
      BY <1>11
    <3>4. x.op = "Mul" => (T[x.ins[1]] = "int" <=> T[x.ins[2]] = "int")
      BY <1>12
    <3> HIDE DEF x
    <3>5. Harmonizer(variant)!IsCast(x.op) => T[x.out] # "int"
      <4>1. \A op : Harmonizer(variant)!CastType(op) # "int"
        BY DEF Harmonizer!CastType
      <4> QED BY <3>3, <4>1, ProducesIs
    <3>6. x.op = "Shape" => T[x.out] = "int" BY <3>3, ProducesIs
    <3>7. x.op \in {"Mul", "Resize"} => T[x.out] = T[x.ins[1]]
      BY <3>3, ProducesIs
    <3>8. Agrees(x, I) BY <3>1, <3>2, <3>4, <3>5, <3>6, <3>7 DEF Agrees
    <3> QED BY <3>8 DEF x
  <2> QED BY <2>1, <2>2, <2>3, <1>5 DEF RawTypes
<1>15. RawGraph BY <1>5, <1>6, <1>7, <1>8 DEF RawGraph
<1>16. Fresh BY <1>4, <1>5 DEF Fresh
<1> HIDE DEF I
<1> QED BY <1>14, <1>15, <1>16

\* The nodes of the converter's graph, and maybe a cast behind the last one.
Counted ==
    \/ Len(onnx) = Len(HarmNames)
    \/ Len(onnx) = Len(HarmNames) + 1 /\ Harmonizer(variant)!IsCast(onnx[Len(onnx)].op)

Replaced(g, n, x, h) == h = [g EXCEPT ![n] = x]
Appended(g, x, h) == h = Append(g, x)

LEMMA AppendedIs ==
    ASSUME NEW S, NEW g \in Seq(S), NEW x \in S, NEW h, Appended(g, x, h)
    PROVE  /\ h \in Seq(S) /\ Len(h) = Len(g) + 1 /\ h[Len(g) + 1] = x
           /\ \A n \in 1 .. Len(g) : h[n] = g[n]
<1>1. h = Append(g, x) BY DEF Appended
<1> QED BY <1>1, AppendProperties

\* A formed graph with another last node of the same output.
LEMMA LastChanged ==
    ASSUME NEW g, Formed(g, Start), NEW N, N = Len(g), N > 0, NEW x \in Nodes,
           x.out = g[N].out, x.ins = g[N].ins, NEW h, Replaced(g, N, x, h)
    PROVE  /\ Formed(h, Start) /\ Len(h) = N /\ h[N] = x
           /\ \A n \in 1 .. N : h[n].out = g[n].out /\ h[n].ins = g[n].ins
           /\ \A n \in 1 .. N : n # N => h[n] = g[n]
<1>1. g \in Seq(Nodes) /\ N \in 1 .. N /\ N \in Nat BY DEF Formed
<1>2. h \in Seq(Nodes) /\ Len(h) = N /\ h[N] = x /\ \A n \in 1 .. N : n # N => h[n] = g[n]
  BY <1>1 DEF Replaced
<1>3. \A n \in 1 .. N : h[n].out = g[n].out /\ h[n].ins = g[n].ins
  BY <1>2
<1>4. OneMaker(h, Start) BY <1>1, <1>2, <1>3 DEF Formed, OneMaker
<1>5. \A n \in 1 .. N : OutsBefore(h, n) = OutsBefore(g, n)
  <2> SUFFICES ASSUME NEW n \in 1 .. N
               PROVE  OutsBefore(h, n) = OutsBefore(g, n)
    OBVIOUS
  <2>1. \A j \in 1 .. n - 1 : j \in 1 .. N BY <1>1
  <2> QED BY <2>1, <1>3 DEF OutsBefore
<1>6. \A n \in 1 .. N : \A k \in {1, 2} : g[n].ins[k] \in Start \cup OutsBefore(g, n)
  BY DEF Formed
<1>7. \A n \in 1 .. N : \A k \in {1, 2} : h[n].ins[k] \in Start \cup OutsBefore(h, n)
  BY <1>3, <1>5, <1>6
<1> QED BY <1>2, <1>3, <1>4, <1>7 DEF Formed

\* A formed graph whose last node y got another output, which a cast c reads.
LEMMA LastCast ==
    ASSUME NEW g, Formed(g, Start), NEW N, N = Len(g), N > 0, NEW y \in Nodes, NEW c \in Nodes,
           y.ins = g[N].ins, y.out \notin Start, \A n \in 1 .. N : g[n].out # y.out,
           c.out = g[N].out, c.ins[1] = y.out, c.ins[2] = y.out,
           NEW g1, Replaced(g, N, y, g1), NEW h, Appended(g1, c, h)
    PROVE  /\ Formed(h, Start) /\ Len(h) = N + 1 /\ h[N] = y /\ h[N + 1] = c
           /\ \A n \in 1 .. N - 1 : h[n] = g[n]
<1>1. g \in Seq(Nodes) /\ N \in 1 .. N /\ N \in Nat BY DEF Formed
<1>2. g1 \in Seq(Nodes) /\ Len(g1) = N /\ g1[N] = y /\ \A n \in 1 .. N - 1 : g1[n] = g[n]
  BY <1>1 DEF Replaced
<1>3. /\ h \in Seq(Nodes) /\ Len(h) = N + 1 /\ h[N] = y /\ h[N + 1] = c
      /\ \A n \in 1 .. N - 1 : h[n] = g[n]
  <2>1. /\ h \in Seq(Nodes) /\ Len(h) = N + 1 /\ h[N + 1] = c
        /\ \A n \in 1 .. N : h[n] = g1[n]
    BY <1>2, AppendedIs
  <2>2. \A n \in 1 .. N - 1 : n \in 1 .. N BY <1>1
  <2> QED BY <1>1, <1>2, <2>1, <2>2
<1>4. \A n \in 1 .. N + 1 : n \in 1 .. N - 1 \/ n = N \/ n = N + 1
  BY <1>1
<1>5. \A n \in 1 .. N - 1 : n \in 1 .. N /\ n # N /\ n # N + 1 BY <1>1
<1>6. /\ \A n \in 1 .. N : g[n].out \notin Start
      /\ \A n, j \in 1 .. N : g[n].out = g[j].out => n = j
      /\ \A n \in 1 .. N : \A k \in {1, 2} : g[n].ins[k] \in Start \cup OutsBefore(g, n)
  BY DEF Formed, OneMaker
<1>7. OneMaker(h, Start)
  <2>1. \A n \in 1 .. N + 1 : h[n].out \notin Start
    BY <1>1, <1>3, <1>4, <1>5, <1>6, SMTT(60)
  <2>2. \A n, j \in 1 .. N + 1 : h[n].out = h[j].out => n = j
    <3>a. \A n, j \in 1 .. N : g[n].out = g[j].out => n = j BY <1>6
    <3>b. \A n \in 1 .. N - 1 : n \in 1 .. N /\ n # N /\ h[n] = g[n]
      BY <1>3, <1>5
    <3>1. ASSUME NEW n \in 1 .. N - 1
          PROVE  h[n].out # y.out /\ h[n].out # c.out
      <4>1. n \in 1 .. N /\ N \in 1 .. N /\ n # N /\ h[n] = g[n]
        BY <1>1, <3>b, Zenon
      <4>2. g[n].out # g[N].out BY <3>a, <4>1, Zenon
      <4> QED BY <4>1, <4>2
    <3>2. y.out # c.out BY <1>1
    <3>3. \A n, j \in 1 .. N - 1 : h[n].out = h[j].out => n = j
      <4> SUFFICES ASSUME NEW n \in 1 .. N - 1, NEW j \in 1 .. N - 1, h[n].out = h[j].out
                   PROVE  n = j
        OBVIOUS
      <4>1. n \in 1 .. N /\ j \in 1 .. N /\ g[n].out = g[j].out
        BY <3>b, Zenon
      <4> QED BY <3>a, <4>1, Zenon
    <3>4. h[N].out = y.out /\ h[N + 1].out = c.out BY <1>3
    <3> SUFFICES ASSUME NEW n \in 1 .. N + 1, NEW j \in 1 .. N + 1, h[n].out = h[j].out
                 PROVE  n = j
      OBVIOUS
    <3>5. /\ n \in 1 .. N - 1 \/ n = N \/ n = N + 1
          /\ j \in 1 .. N - 1 \/ j = N \/ j = N + 1
      BY <1>4
    <3>6. CASE n \in 1 .. N - 1
      <4>1. h[n].out # y.out /\ h[n].out # c.out BY <3>1, <3>6, Zenon
      <4>2. j # N /\ j # N + 1 BY <3>4, <4>1, Zenon
      <4> QED BY <3>3, <3>5, <3>6, <4>2, Zenon
    <3>7. CASE n = N BY <3>1, <3>2, <3>4, <3>5, <3>7, Zenon
    <3>8. CASE n = N + 1 BY <3>1, <3>2, <3>4, <3>5, <3>8, Zenon
    <3> QED BY <3>5, <3>6, <3>7, <3>8
  <2> QED BY <2>1, <2>2, <1>3 DEF OneMaker
<1>8. \A n \in 1 .. N : OutsBefore(h, n) = OutsBefore(g, n)
  <2> SUFFICES ASSUME NEW n \in 1 .. N
               PROVE  OutsBefore(h, n) = OutsBefore(g, n)
    OBVIOUS
  <2>1. \A j \in 1 .. n - 1 : j \in 1 .. N - 1 BY <1>1
  <2>2. \A j \in 1 .. n - 1 : h[j] = g[j] BY <2>1, <1>3
  <2> QED BY <2>2 DEF OutsBefore
<1>9. y.out \in OutsBefore(h, N + 1)
  <2>1. N \in 1 .. (N + 1) - 1 BY <1>1
  <2> QED BY <2>1, <1>3 DEF OutsBefore
<1>10. ASSUME NEW n \in 1 .. N + 1, NEW k \in {1, 2}
       PROVE  h[n].ins[k] \in Start \cup OutsBefore(h, n)
  <2>1. CASE n = N + 1 BY <2>1, <1>3, <1>9
  <2>2. CASE n = N BY <2>2, <1>1, <1>3, <1>6, <1>8
  <2>3. CASE n \in 1 .. N - 1 BY <2>3, <1>3, <1>5, <1>6, <1>8
  <2> QED BY <2>1, <2>2, <2>3, <1>4
<1> QED BY <1>3, <1>7, <1>10 DEF Formed

LEMMA OutputsRetyped ==
    ASSUME variant \in DOMAIN Repairs, Harmonizer(variant)!RetypeOutputs, RawGraph, Fresh, NEW I,
           RawTypes(I),
           declared \in Harmonizer(variant)!Float, declared = "f32" => LastSo
    PROVE  RawGraph' /\ RawTypes(I)' /\ LastSo' /\ Counted'
<1> DEFINE g == onnx
           h == onnx'
           N == Len(onnx)
<1>1. /\ N = Len(HarmNames) /\ N \in Nat \ {0} /\ g \in Seq(Nodes) /\ N \in 1 .. N
      /\ g[N].out = Harmonizer(variant)!Output /\ g[N] \in Nodes
  <2>1. N = Len(HarmNames) /\ N \in Nat \ {0} /\ g \in Seq(Nodes)
    BY RepairAssumption DEF Fresh, RawGraph, Formed
  <2>2. N \in 1 .. N BY <2>1
  <2> QED BY <2>1, <2>2, OutputIs DEF Fresh
<1>2. init' = init /\ h = IF declared = "f16" THEN Harmonizer(variant)!RetypedGraph ELSE g
  BY DEF Harmonizer!RetypeOutputs
<1>3. /\ Start' = Start /\ Bare' = Bare /\ Harmonizer(variant)!Image' = Harmonizer(variant)!Image
         /\ Harmonizer(variant)!Weight' = Harmonizer(variant)!Weight
      /\ Harmonizer(variant)!Output' = Harmonizer(variant)!Output
         /\ Harmonizer(variant)!Inner' = Harmonizer(variant)!Inner /\ Nodes' = Nodes
            /\ HarmNames' = HarmNames
      /\ Harmonizer(variant)!Float' = Harmonizer(variant)!Float
  BY DEF Start, Bare, Harmonizer!Image, Harmonizer!Weight, Harmonizer!Output, Harmonizer!Inner,
         Nodes, HarmNames, Harmonizer!Float
<1>4. /\ Formed(g, Start) /\ DOMAIN init = {Harmonizer(variant)!Weight}
         /\ init[Harmonizer(variant)!Weight] \in Harmonizer(variant)!Float
      /\ \A n \in 1 .. N : g[n].out \in Bare /\ \A k \in {1, 2} : g[n].ins[k] \in Bare
  BY DEF RawGraph
<1>5. /\ Harmonizer(variant)!Image \notin I /\ Harmonizer(variant)!Weight \notin I
         /\ Harmonizer(variant)!Output \notin I /\ Harmonizer(variant)!Inner \notin I
      /\ \A n \in 1 .. N : Agrees(g[n], I)
  BY DEF RawTypes
<1>6. SUFFICES /\ Formed(h, Start)
               /\ \A n \in 1 .. Len(h) : h[n].out \in Bare /\ \A k \in {1, 2} :
                  h[n].ins[k] \in Bare
               /\ \A n \in 1 .. Len(h) : Agrees(h[n], I)
               /\ Len(h) \in Nat \ {0} /\ h[Len(h)].out = Harmonizer(variant)!Output
               /\ \/ h[Len(h)].op = "Cast32"
                  \/ h[Len(h)].op = "Mul" /\ h[Len(h)].block
               /\ Len(h) = N \/ (Len(h) = N + 1 /\ Harmonizer(variant)!IsCast(h[Len(h)].op))
  <2>1. RawGraph' BY <1>2, <1>3, <1>4, <1>6 DEF RawGraph
  <2>2. RawTypes(I)' BY <1>3, <1>5, <1>6 DEF RawTypes
  <2>3. LastSo' BY <1>3, <1>6 DEF LastSo
  <2>4. Counted' BY <1>1, <1>3, <1>6 DEF Counted
  <2> QED BY <2>1, <2>2, <2>3, <2>4
<1>7. CASE declared # "f16"
  <2>1. declared = "f32" BY <1>7 DEF Harmonizer!Float
  <2>2. h = g BY <1>2, <1>7
  <2> QED BY <2>1, <2>2, <1>1, <1>4, <1>5 DEF LastSo
<1>8. CASE declared = "f16" /\ Harmonizer(variant)!IsCast(g[N].op)
  <2> DEFINE x == [g[N] EXCEPT !.op = "Cast32"]
  <2>1. /\ x.op = "Cast32" /\ x.out = g[N].out /\ x.ins = g[N].ins
           /\ Harmonizer(variant)!IsCast(x.op)
    BY <1>1 DEF Nodes, Harmonizer!IsCast
  <2>2. x \in Nodes
    <3>1. "Cast32" \in HarmOps BY DEF HarmOps
    <3> QED BY <1>1, <1>8, <3>1 DEF Nodes
  <2>3. Replaced(g, N, x, h)
    BY <1>2, <1>8 DEF Harmonizer!RetypedGraph, Replaced
  <2> HIDE DEF x, g, h
  <2>4. N = Len(g) BY DEF g
  <2>5. N > 0 BY <1>1
  <2> HIDE DEF N
  <2>6. /\ Formed(h, Start) /\ Len(h) = N /\ h[N] = x
        /\ \A n \in 1 .. N : h[n].out = g[n].out /\ h[n].ins = g[n].ins
        /\ \A n \in 1 .. N : n # N => h[n] = g[n]
    BY <1>1, <1>4, <2>1, <2>2, <2>3, <2>4, <2>5, LastChanged
  <2>7. Agrees(x, I) BY <1>1, <1>5, <2>1 DEF Agrees, Harmonizer!IsCast
  <2>8. \A n \in 1 .. N : Agrees(h[n], I) BY <1>5, <2>6, <2>7
  <2> QED BY <1>1, <1>4, <2>1, <2>6, <2>8
<1>9. CASE declared = "f16" /\ ~Harmonizer(variant)!IsCast(g[N].op)
  <2> DEFINE y == [g[N] EXCEPT !.out = Harmonizer(variant)!Inner]
             c == Harmonizer(variant)!Cast(Harmonizer(variant)!Inner, Harmonizer(variant)!Output,
                                           "f32")
  <2>1. /\ y.out = Harmonizer(variant)!Inner /\ y.ins = g[N].ins /\ y.op = g[N].op
    BY <1>1 DEF Nodes
  <2>2. Harmonizer(variant)!Inner \in Bare /\ Harmonizer(variant)!Output \in Bare
    BY <1>1, <1>4 DEF Bare
  <2>3. y \in Nodes BY <1>1, <2>2 DEF Nodes, AllTensors
  <2>4. c = [op |-> "Cast32", block |-> FALSE,
             ins |-> <<Harmonizer(variant)!Inner, Harmonizer(variant)!Inner>>,
               out |-> Harmonizer(variant)!Output]
    BY DEF Harmonizer!Cast
  <2>5. Harmonizer(variant)!Inner \in AllTensors /\ Harmonizer(variant)!Output \in AllTensors
      /\ "Cast32" \in HarmOps
    BY <2>2 DEF AllTensors, HarmOps
  <2> DEFINE R == [op : HarmOps, block : BOOLEAN, ins : AllTensors \X AllTensors, out : AllTensors]
  <2> HIDE DEF c
  <2>6. /\ c.op = "Cast32" /\ c.ins[1] = Harmonizer(variant)!Inner
           /\ c.ins[2] = Harmonizer(variant)!Inner /\ c.out = Harmonizer(variant)!Output
        /\ c \in R
    BY <2>4, <2>5
  <2>7. c \in Nodes BY <2>6 DEF Nodes
  <2> DEFINE g1 == [g EXCEPT ![N] = y]
  <2>8. Appended(g1, c, h) /\ Replaced(g, N, y, g1)
    BY <1>2, <1>9 DEF Harmonizer!RetypedGraph, Replaced, Appended, c
  <2> HIDE DEF y, g1
  <2>9. y.out \notin Start /\ \A n \in 1 .. N : g[n].out # y.out
    BY <1>1, <2>1, TensorKinds DEF Fresh, Start
  <2>10. N = Len(g) OBVIOUS
  <2>11. N > 0 BY <1>1
  <2> HIDE DEF g, h, N
  <2>12. c.out = g[N].out /\ c.ins[1] = y.out /\ c.ins[2] = y.out /\ Formed(g, Start)
    BY <1>1, <1>4, <2>1, <2>6
  <2> HIDE DEF R
  <2>13. /\ Formed(h, Start) /\ Len(h) = N + 1 /\ h[N] = y /\ h[N + 1] = c
        /\ \A n \in 1 .. N - 1 : h[n] = g[n]
    BY <2>1, <2>3, <2>7, <2>8, <2>9, <2>10, <2>11, <2>12, LastCast
  <2>14. Agrees(y, I) BY <1>1, <1>5, <1>9, <2>1 DEF Agrees
  <2>15. Agrees(c, I)
    <3>1. c.op # "Shape" /\ c.op \notin {"Mul", "Resize"} BY <2>6
    <3> QED BY <1>5, <2>6, <3>1 DEF Agrees
  <2>16. \A n \in 1 .. N + 1 : n \in 1 .. N - 1 \/ n = N \/ n = N + 1
    BY <1>1
  <2>17. \A n \in 1 .. N - 1 : n \in 1 .. N BY <1>1
  <2>18. Harmonizer(variant)!IsCast(c.op) BY <2>6 DEF Harmonizer!IsCast
  <2>19. \A n \in 1 .. Len(h) : Agrees(h[n], I)
    BY <1>5, <2>13, <2>14, <2>15, <2>16, <2>17
  <2>20. \A n \in 1 .. Len(h) : h[n].out \in Bare /\ \A k \in {1, 2} : h[n].ins[k] \in Bare
    BY <1>1, <1>4, <2>1, <2>2, <2>6, <2>13, <2>16, <2>17, ZenonT(60)
  <2>21. N + 1 \in Nat \ {0} BY <1>1
  <2> QED BY <2>6, <2>13, <2>18, <2>19, <2>20, <2>21
<1> QED BY <1>7, <1>8, <1>9

------------------------------
(* TypeHarmonizer: the passes *)

Surgical == Repairs[variant].tool = "surgical"

\* What the pass of the other tool keeps: it knows the type of every output.
Inferred ==
    /\ \A t \in DOMAIN vtype : vtype[t] \in Types
    /\ \A n \in 1 .. Len(onnx) : onnx[n].out \in DOMAIN vtype

FirstPass ==
    /\ FirstNames /\ FirstFits /\ FirstCounts /\ LastSo
    /\ IF Surgical THEN \E I : FirstTypes(I) ELSE Inferred

\* Between the passes and after them.
Given == {Harmonizer(variant)!Image} \cup DOMAIN init
Settled ==
    /\ Formed(onnx, Given)
    /\ \A t \in DOMAIN init : init[t] \in Harmonizer(variant)!Float

\* With the types W every node is exact.
Repaired(W) ==
    /\ W[Harmonizer(variant)!Image] = "f32" /\ \A t \in DOMAIN init : W[t] = init[t]
    /\ \A n \in 1 .. Len(onnx) : NodeExact(onnx[n], W) /\ W[onnx[n].out] \in Types
    /\ W[Harmonizer(variant)!Output] = "f32" /\ \E n \in 1 .. Len(onnx) :
       onnx[n].out = Harmonizer(variant)!Output

\* The second pass of the surgical tool finds nothing.
SecondPass(W) ==
    /\ Settled /\ Repaired(W)
    /\ fixed = 0 /\ pending = <<>> /\ DOMAIN dup = {} /\ idx \in 1 .. Len(onnx) + 1
    /\ DOMAIN vtype = Given \cup OutsBefore(onnx, idx)
    /\ \A t \in DOMAIN vtype : vtype[t] = W[t]

LEMMA ToolIs ==
    ASSUME variant \in DOMAIN Repairs
    PROVE  /\ Repairs[variant].tool \in {"surgical", "fp16"}
           /\ HarmOps \subseteq {"Mul", "Cast16", "Cast32", "Resize", "Shape"}
BY RepairAssumption DEF Harmonizer!HarmonizerAssumption, HarmOps

LEMMA NothingBefore ==
    ASSUME NEW g
    PROVE  OutsBefore(g, 1) = {}
BY DEF OutsBefore

LEMMA FirstBegins ==
    ASSUME variant \in DOMAIN Repairs, Harmonizer(variant)!Begin, RawGraph, NEW I, RawTypes(I),
           LastSo, Counted
    PROVE  FirstPass'
<1>1. /\ onnx' = onnx /\ init' = init /\ idx' = 1 /\ pending' = <<>> /\ dup' = <<>> /\ fixed' = 0
      /\ vtype' = IF Surgical THEN Harmonizer(variant)!Initial
         ELSE Harmonizer(variant)!Typed(onnx, Harmonizer(variant)!Initial)
  BY DEF Harmonizer!Begin, Surgical
<1>2. /\ Formed(onnx, Start) /\ onnx \in Seq(Nodes) /\ Len(onnx) \in Nat
      /\ \A n \in 1 .. Len(onnx) : onnx[n].out \in Bare /\ \A k \in {1, 2} :
         onnx[n].ins[k] \in Bare
      /\ DOMAIN init = {Harmonizer(variant)!Weight}
         /\ init[Harmonizer(variant)!Weight] \in Harmonizer(variant)!Float
  BY DEF RawGraph, Formed
<1>3. /\ Start' = Start /\ Bare' = Bare /\ Harmonizer(variant)!Image' = Harmonizer(variant)!Image
         /\ Harmonizer(variant)!Weight' = Harmonizer(variant)!Weight
      /\ Harmonizer(variant)!Output' = Harmonizer(variant)!Output /\ Nodes' = Nodes
         /\ HarmNames' = HarmNames /\ Harmonizer(variant)!Float' = Harmonizer(variant)!Float
      /\ Types' = Types /\ Surgical' = Surgical
  BY DEF Start, Bare, Harmonizer!Image, Harmonizer!Weight, Harmonizer!Output, Nodes, HarmNames,
         Harmonizer!Float, Types, Surgical
<1>4. DOMAIN dup' = {} /\ Len(pending') = 0 /\ pending' \in Seq(Nat \X Nodes)
  BY <1>1
<1>5. There' = Start BY <1>3, <1>4 DEF There, Start
<1>6. FirstNames'
  <2>1. 1 .. Len(pending') = {} BY <1>4
  <2>2. \A n \in 1 .. Len(onnx) : \A k \in {1, 2} : onnx[n].ins[k] \in Bare
    BY <1>2
  <2> QED BY <1>1, <1>2, <1>3, <1>4, <2>1, <2>2 DEF FirstNames
<1>7. FirstFits'
  <2>1. Fitting(onnx, Start, pending', 0) BY <1>2, FormedIsFitting
  <2>2. Fitting(onnx', There', pending', Len(pending'))
    BY <2>1, <1>1, <1>4, <1>5
  <2> QED BY <2>2, <1>3, <1>4 DEF FirstFits
<1>8. FirstCounts'
  <2>1. Len(HarmNames) \in Nat BY RepairAssumption
  <2>2. 0 \in Nat /\ 1 \in 1 .. Len(onnx) + 1 /\ 0 <= 2 * (1 - 1) /\ 0 <= 2 * Len(HarmNames)
    BY <1>2, <2>1
  <2> QED BY <1>1, <1>3, <2>2 DEF FirstCounts, Counted
<1>9. LastSo' BY <1>1, <1>3 DEF LastSo
<1>10. /\ DOMAIN Harmonizer(variant)!Initial = Start
          /\ Harmonizer(variant)!Initial[Harmonizer(variant)!Image] = "f32"
       /\ Harmonizer(variant)!Initial[Harmonizer(variant)!Weight] = init[Harmonizer(variant)!Weight]
          /\ \A t \in Start : Harmonizer(variant)!Initial[t] \in Types
  <2>1. DOMAIN Harmonizer(variant)!Initial = Start
      /\ Harmonizer(variant)!Initial[Harmonizer(variant)!Image] = "f32"
         /\ Harmonizer(variant)!Initial[Harmonizer(variant)!Weight]
            = init[Harmonizer(variant)!Weight]
    BY <1>2, InitialIs, TensorKinds DEF Start
  <2>2. "f32" \in Types /\ init[Harmonizer(variant)!Weight] \in Types
    BY <1>2 DEF Types, Harmonizer!Float
  <2> QED BY <2>1, <2>2 DEF Start
<1>11. CASE Surgical
  <2>1. vtype' = Harmonizer(variant)!Initial BY <1>1, <1>11
  <2>2. \A n \in 1 .. Len(onnx) : ~(n < 1) /\ 1 <= n BY <1>2
  <2>3. /\ Harmonizer(variant)!Image \notin I /\ Harmonizer(variant)!Weight \notin I
           /\ Harmonizer(variant)!Output \notin I
        /\ \A n \in 1 .. Len(onnx) : Agrees(onnx[n], I)
    BY DEF RawTypes
  <2>4. CastOuts' = {}
    <3>1. 1 .. Len(pending') = {} BY <1>4
    <3> QED BY <3>1 DEF CastOuts
  <2>5. OutsBefore(onnx', idx') = {} BY <1>1, NothingBefore
  <2>6. 1 .. Len(pending') = {} BY <1>4
  <2>7. FirstTypes(I)'
    <3>1. /\ DOMAIN vtype' = There' \cup OutsBefore(onnx', idx') \cup CastOuts'
          /\ \A t \in DOMAIN vtype' : vtype'[t] \in Types
          /\ vtype'[Harmonizer(variant)!Image] = "f32"
             /\ vtype'[Harmonizer(variant)!Weight] = init'[Harmonizer(variant)!Weight]
      BY <1>1, <1>5, <1>10, <2>1, <2>4, <2>5
    <3>2. \A d \in DOMAIN dup' : vtype'[dup'[d]] = d[2] BY <1>4
    <3>3. \A n \in 1 .. Len(onnx') : ~(n < idx') /\ Agrees(onnx'[n], I)
      BY <1>1, <2>2, <2>3
    <3> QED BY <1>3, <2>3, <2>6, <3>1, <3>2, <3>3 DEF FirstTypes
  <2>8. (\E J : FirstTypes(J))' BY <2>7
  <2> QED BY <1>3, <1>6, <1>7, <1>8, <1>9, <1>11, <2>8 DEF FirstPass
<1>12. CASE ~Surgical
  <2>1. vtype' = Harmonizer(variant)!Typed(onnx, Harmonizer(variant)!Initial)
    BY <1>1, <1>12
  <2>2. IsTyping(onnx, Harmonizer(variant)!Initial, Len(onnx), vtype')
    BY <1>2, <1>10, <2>1, TypedIs
  <2>3. \A n \in 1 .. Len(onnx) : onnx[n].out \in OutsBefore(onnx, Len(onnx) + 1)
    <3>1. (Len(onnx) + 1) - 1 = Len(onnx) BY <1>2
    <3> QED BY <3>1 DEF OutsBefore
  <2>4. Inferred' BY <1>1, <1>3, <2>2, <2>3 DEF Inferred, IsTyping
  <2> QED BY <1>3, <1>6, <1>7, <1>8, <1>9, <1>12, <2>4 DEF FirstPass
<1> QED BY <1>11, <1>12

LEMMA SecondBegins ==
    ASSUME variant \in DOMAIN Repairs, Harmonizer(variant)!Begin, Surgical, Settled, NEW W,
           Repaired(W)
    PROVE  SecondPass(W)'
<1>1. /\ onnx' = onnx /\ init' = init /\ idx' = 1 /\ pending' = <<>> /\ dup' = <<>> /\ fixed' = 0
      /\ vtype' = Harmonizer(variant)!Initial
  BY DEF Harmonizer!Begin, Surgical
<1>2. Given' = Given /\ Harmonizer(variant)!Image' = Harmonizer(variant)!Image
    /\ Harmonizer(variant)!Output' = Harmonizer(variant)!Output /\ Types' = Types
      /\ Harmonizer(variant)!Float' = Harmonizer(variant)!Float
  BY <1>1 DEF Given, Harmonizer!Image, Harmonizer!Output, Types, Harmonizer!Float
<1>3. Settled' BY <1>1, <1>2 DEF Settled
<1>4. Repaired(W)' BY <1>1, <1>2 DEF Repaired
<1>5. Len(onnx) \in Nat BY DEF Settled, Formed
<1>6. DOMAIN dup' = {} /\ 1 \in 1 .. Len(onnx) + 1 BY <1>1, <1>5
<1>7. DOMAIN vtype' = Given' \cup OutsBefore(onnx', idx')
  BY <1>1, <1>2, NothingBefore, InitialIs DEF Given
<1>8. \A t \in DOMAIN vtype' : vtype'[t] = W[t]
  BY <1>1, InitialIs DEF Repaired
<1> QED BY <1>1, <1>3, <1>4, <1>6, <1>7, <1>8 DEF SecondPass

LEMMA InferredVisit ==
    ASSUME variant \in DOMAIN Repairs, ~Surgical, Harmonizer(variant)!Visit, FirstNames, FirstFits,
           FirstCounts, Inferred
    PROVE  Inferred'
<1> DEFINE node == onnx[idx]
           known == KnownAt(node)
<1>1. /\ idx \in 1 .. Len(onnx) /\ Len(onnx') = Len(onnx)
      /\ \A n \in 1 .. Len(onnx) : onnx'[n].out = onnx[n].out
  BY VisitGraph
<1>2. vtype' = Harmonizer(variant)!Assign(known, {node.out}, Harmonizer(variant)!Noted(node, known))
  BY VisitDoes
<1>3. known = Harmonizer(variant)!Assign(vtype, NewTensors(node), Harmonizer(variant)!Target(node))
  BY DEF KnownAt
<1>4. Harmonizer(variant)!Noted(node, known) = known[node.out]
  <2>1. Repairs[variant].tool = "fp16" BY ToolIs DEF Surgical
  <2> QED BY <2>1 DEF Harmonizer!Noted
<1>5. Harmonizer(variant)!Target(node) \in Types
  BY TargetIsFloat DEF Types
<1> HIDE DEF known
<1>6. DOMAIN vtype \subseteq DOMAIN known /\ \A t \in DOMAIN known : known[t] \in Types
  BY <1>3, <1>5 DEF Harmonizer!Assign, Inferred
<1>7. node.out \in DOMAIN known BY <1>1, <1>6 DEF Inferred
<1>8. DOMAIN known \subseteq DOMAIN vtype' /\ \A t \in DOMAIN vtype' : vtype'[t] \in Types
  BY <1>2, <1>4, <1>6, <1>7 DEF Harmonizer!Assign
<1>9. \A n \in 1 .. Len(onnx') : onnx'[n].out \in DOMAIN vtype'
  BY <1>1, <1>6, <1>8 DEF Inferred
<1> QED BY <1>8, <1>9 DEF Inferred, Types, Harmonizer!Float

LEMMA FirstVisit ==
    ASSUME variant \in DOMAIN Repairs, Harmonizer(variant)!Visit, FirstPass
    PROVE  FirstPass'
<1>1. FirstNames /\ FirstFits /\ FirstCounts /\ LastSo BY DEF FirstPass
<1>2. FirstNames' /\ FirstFits' BY <1>1, VisitNames, VisitFits
<1>3. FirstCounts' BY <1>1, VisitCounts, RepairAssumption
<1>4. LastSo'
  <2> DEFINE node == onnx[idx]
  <2>1. /\ Len(onnx') = Len(onnx)
        /\ \A n \in 1 .. Len(onnx) : /\ onnx'[n].out = onnx[n].out /\ onnx'[n].op = onnx[n].op
                                     /\ onnx'[n].block = onnx[n].block
    BY <1>1, VisitGraph
  <2>2. Len(onnx) \in 1 .. Len(onnx) BY <1>1 DEF LastSo
  <2>3. Harmonizer(variant)!Output' = Harmonizer(variant)!Output
    BY DEF Harmonizer!Output
  <2> QED BY <1>1, <2>1, <2>2, <2>3 DEF LastSo
<1>5. Surgical' = Surgical BY DEF Surgical
<1>6. CASE Surgical
  <2>1. PICK I : FirstTypes(I) BY <1>6 DEF FirstPass
  <2>2. FirstTypes(I)' BY <1>1, <1>6, <2>1, VisitTypes DEF Surgical
  <2>3. (\E J : FirstTypes(J))' BY <2>2
  <2> QED BY <1>2, <1>3, <1>4, <1>5, <1>6, <2>3 DEF FirstPass
<1>7. CASE ~Surgical
  <2>1. Inferred' BY <1>1, <1>7, InferredVisit DEF FirstPass
  <2> QED BY <1>2, <1>3, <1>4, <1>5, <1>7, <2>1 DEF FirstPass
<1> QED BY <1>6, <1>7

\* A node that is exact needs nothing, and what the pass notes for it is right.
LEMMA SettledNode ==
    ASSUME variant \in DOMAIN Repairs, Surgical, NEW node \in Nodes, NEW W, NodeExact(node, W),
           \A k \in {1, 2} : node.ins[k] \in DOMAIN vtype /\ vtype[node.ins[k]] = W[node.ins[k]],
           W[node.ins[1]] \in Types, W[node.ins[2]] \in Types, NEW known
    PROVE  /\ Harmonizer(variant)!ToFix(node) = {}
           /\ Harmonizer(variant)!Noted(node, known) = W[node.out]
<1> DEFINE t1 == W[node.ins[1]]
           t2 == W[node.ins[2]]
<1>1. /\ W[node.out] = Harmonizer(variant)!Produces(node, t1)
      /\ ~Harmonizer(variant)!IsCast(node.op)
         => \A k \in Harmonizer(variant)!Checked(node) :
           W[node.ins[k]] \in {"int", Harmonizer(variant)!Target(node)}
      /\ node.op = "Mul" => (t1 = "int" <=> t2 = "int")
  BY DEF NodeExact
<1>2. \A k \in {1, 2} : Harmonizer(variant)!TypeOf(node.ins[k]) = W[node.ins[k]]
  BY DEF Harmonizer!TypeOf
<1>3. Harmonizer(variant)!Checked(node) \subseteq {1, 2} /\ 1 \in Harmonizer(variant)!Checked(node)
      /\ (node.op = "Resize" => Harmonizer(variant)!Checked(node) = {1})
      /\ (node.op # "Resize" => Harmonizer(variant)!Checked(node) = {1, 2})
  BY DEF Harmonizer!Checked
<1>4. "int" \notin Harmonizer(variant)!Float
    /\ Harmonizer(variant)!Target(node) \in Harmonizer(variant)!Float
  BY TargetIsFloat DEF Harmonizer!Float
<1>5. \A k : k \in Harmonizer(variant)!FloatInputs(node) <=> k \in Harmonizer(variant)!Checked(node)
    /\ W[node.ins[k]] \in Harmonizer(variant)!Float
  BY <1>2, <1>3 DEF Harmonizer!FloatInputs
<1>6. \A k : k \in Harmonizer(variant)!Mismatched(node) <=> k
    \in Harmonizer(variant)!FloatInputs(node) /\ W[node.ins[k]] # Harmonizer(variant)!Target(node)
  BY <1>2, <1>3, <1>5 DEF Harmonizer!Mismatched
<1>7. Harmonizer(variant)!ToFix(node) = {}
  <2>1. CASE Harmonizer(variant)!IsCast(node.op) BY <2>1, ToFixIs
  <2>2. CASE ~Harmonizer(variant)!IsCast(node.op)
    BY <2>2, <1>1, <1>4, <1>5, <1>6, ToFixIs
  <2> QED BY <2>1, <2>2
<1> DEFINE FI == Harmonizer(variant)!FloatInputs(node)
<1>8. Harmonizer(variant)!Noted(node, known) = IF FI = {}
    THEN Harmonizer(variant)!Produces(node, "int")
                             ELSE Harmonizer(variant)!Produces(node,
                                                               Harmonizer(variant)!Target(node))
  <2>1. Repairs[variant].tool # "fp16" BY DEF Surgical
  <2> QED BY <2>1 DEF Harmonizer!Noted
<1>9. node.op \in {"Mul", "Cast16", "Cast32", "Resize", "Shape"}
  BY ToolIs, NodeParts
<1>10. CASE Harmonizer(variant)!IsCast(node.op) \/ node.op = "Shape"
  BY <1>1, <1>7, <1>8, <1>10, ProducesIs
<1>11. CASE node.op \in {"Mul", "Resize"} /\ ~Harmonizer(variant)!IsCast(node.op)
  <2>1. \A t : Harmonizer(variant)!Produces(node, t) = t
    BY <1>11, ProducesIs
  <2>2. \A k \in Harmonizer(variant)!Checked(node) :
      W[node.ins[k]] \in {"int", Harmonizer(variant)!Target(node)}
    BY <1>1, <1>11
  <2>3. FI = {} => t1 = "int" BY <2>2, <1>3, <1>4, <1>5
  <2>4. FI # {} => t1 = Harmonizer(variant)!Target(node)
    <3> SUFFICES ASSUME NEW k, k \in FI
                 PROVE  t1 = Harmonizer(variant)!Target(node)
      OBVIOUS
    <3>1. k \in Harmonizer(variant)!Checked(node) /\ W[node.ins[k]] \in Harmonizer(variant)!Float
        /\ k \in {1, 2}
      BY <1>3, <1>5
    <3>2. CASE k = 1 BY <3>1, <3>2, <2>2, <1>4
    <3>3. CASE k = 2
      <4>1. node.op = "Mul" BY <3>1, <3>3, <1>3, <1>11
      <4>2. t2 # "int" BY <3>1, <3>3, <1>4
      <4> QED BY <4>1, <4>2, <2>2, <1>1, <1>3
    <3> QED BY <3>1, <3>2, <3>3
  <2> QED BY <1>1, <1>7, <1>8, <2>1, <2>3, <2>4
<1>12. Harmonizer(variant)!Noted(node, known) = W[node.out]
  BY <1>9, <1>10, <1>11 DEF Harmonizer!IsCast
<1> QED BY <1>7, <1>12

LEMMA SettledVisit ==
    ASSUME variant \in DOMAIN Repairs, Harmonizer(variant)!Visit, NEW node, node = onnx[idx],
           node \in Nodes,
           Harmonizer(variant)!ToFix(node) = {}
    PROVE  /\ Harmonizer(variant)!FixedNode(node) = node
              /\ Harmonizer(variant)!NewCasts(node) = <<>>
                 /\ Harmonizer(variant)!NewCopies(node) = {}
           /\ NewTensors(node) = {}
<1>1. \A k \in {1, 2} : Harmonizer(variant)!NewInput(node, k) = node.ins[k]
    /\ ~Harmonizer(variant)!NeedsCast(node, k)
  BY DEF Harmonizer!NewInput, Harmonizer!NeedsCast
<1>2. Harmonizer(variant)!NewCopies(node) = {}
  BY DEF Harmonizer!NewCopies
<1>3. Harmonizer(variant)!NewCasts(node) = <<>>
  <2>1. Harmonizer(variant)!CastFor(node, 1) = <<>> /\ Harmonizer(variant)!CastFor(node, 2) = <<>>
    BY <1>1 DEF Harmonizer!CastFor
  <2>2. Harmonizer(variant)!NewCasts(node) = <<>> \o <<>>
    BY <2>1 DEF Harmonizer!NewCasts
  <2> QED BY <2>2
<1>4. Harmonizer(variant)!FixedNode(node) = node
  <2>1. Harmonizer(variant)!FixedNode(node) = [node EXCEPT !.ins = <<node.ins[1], node.ins[2]>>]
    BY <1>1 DEF Harmonizer!FixedNode
  <2>2. node \in [op : HarmOps, block : BOOLEAN, ins : AllTensors \X AllTensors, out : AllTensors]
    BY DEF Nodes
  <2>3. node.ins = <<node.ins[1], node.ins[2]>> BY <2>2
  <2>4. [node EXCEPT !.ins = node.ins] = node BY <2>2
  <2> QED BY <2>1, <2>3, <2>4
<1>5. OutsOf(<<>>) = {}
  <2>1. DOMAIN <<>> = {} OBVIOUS
  <2> QED BY <2>1 DEF OutsOf
<1>6. NewTensors(node) = {} BY <1>2, <1>3, <1>5 DEF NewTensors
<1> QED BY <1>2, <1>3, <1>4, <1>6

LEMMA SecondVisit ==
    ASSUME variant \in DOMAIN Repairs, Surgical, Harmonizer(variant)!Visit, NEW W, SecondPass(W)
    PROVE  SecondPass(W)'
<1> DEFINE node == onnx[idx]
           known == KnownAt(node)
<1>1. /\ Settled /\ Repaired(W) /\ fixed = 0 /\ pending = <<>> /\ DOMAIN dup = {}
      /\ DOMAIN vtype = Given \cup OutsBefore(onnx, idx)
      /\ \A t \in DOMAIN vtype : vtype[t] = W[t]
  BY DEF SecondPass
<1>2. onnx \in Seq(Nodes) /\ Len(onnx) \in Nat
      /\ \A n \in 1 .. Len(onnx) : \A k \in {1, 2} :
         onnx[n].ins[k] \in Given \cup OutsBefore(onnx, n)
  BY <1>1 DEF Settled, Formed
<1>3. /\ idx \in DOMAIN onnx /\ idx' = idx + 1
         /\ onnx' = [onnx EXCEPT ![idx] = Harmonizer(variant)!FixedNode(node)]
      /\ pending' = pending \o Harmonizer(variant)!NewCasts(node)
      /\ dup' = [c \in DOMAIN dup
                 \cup Harmonizer(variant)!NewCopies(node) |-> Harmonizer(variant)!Copy(c[1], c[2])]
      /\ fixed' = fixed + Cardinality(Harmonizer(variant)!ToFix(node))
      /\ vtype' = Harmonizer(variant)!Assign(known, {node.out},
                                             Harmonizer(variant)!Noted(node, known)) /\ init' = init
  BY VisitDoes
<1>4. idx \in 1 .. Len(onnx) /\ node \in Nodes BY <1>2, <1>3
<1>5. \A k \in {1, 2} : node.ins[k] \in DOMAIN vtype /\ vtype[node.ins[k]] = W[node.ins[k]]
  BY <1>1, <1>2, <1>4
<1>6. \A n \in 1 .. Len(onnx) : NodeExact(onnx[n], W) /\ W[onnx[n].out] \in Types
  BY <1>1 DEF Repaired
<1>7. \A t \in DOMAIN vtype : W[t] \in Types
  <2>1. \A t \in Given : W[t] \in Types
    BY <1>1 DEF Given, Repaired, Settled, Types, Harmonizer!Float
  <2>2. \A t \in OutsBefore(onnx, idx) : W[t] \in Types
    <3>1. \A j \in 1 .. idx - 1 : j \in 1 .. Len(onnx) BY <1>2, <1>4
    <3> QED BY <3>1, <1>6 DEF OutsBefore
  <2> QED BY <2>1, <2>2, <1>1
<1>8. Harmonizer(variant)!ToFix(node) = {} /\ Harmonizer(variant)!Noted(node, known) = W[node.out]
  <2>1. NodeExact(node, W) /\ W[node.ins[1]] \in Types /\ W[node.ins[2]] \in Types
    BY <1>4, <1>5, <1>6, <1>7
  <2> QED BY <2>1, <1>4, <1>5, SettledNode
<1>9. /\ Harmonizer(variant)!FixedNode(node) = node /\ Harmonizer(variant)!NewCasts(node) = <<>>
         /\ Harmonizer(variant)!NewCopies(node) = {}
      /\ NewTensors(node) = {}
  BY <1>4, <1>8, SettledVisit
<1>10. onnx' = onnx BY <1>2, <1>3, <1>4, <1>9
<1>11. pending' = <<>> /\ DOMAIN dup' = {} /\ fixed' = 0 /\ idx' \in 1 .. Len(onnx) + 1
  <2>1. pending' = <<>> BY <1>1, <1>3, <1>9
  <2>2. fixed' = 0 BY <1>1, <1>3, <1>8, SmallSets
  <2> QED BY <2>1, <2>2, <1>1, <1>2, <1>3, <1>4, <1>9
<1>12. known = Harmonizer(variant)!Assign(vtype, {}, Harmonizer(variant)!Target(node))
  BY <1>9 DEF KnownAt
<1> HIDE DEF known
<1>13. DOMAIN known = DOMAIN vtype /\ \A t \in DOMAIN vtype : known[t] = vtype[t]
  BY <1>12 DEF Harmonizer!Assign
<1> HIDE DEF node
<1>14. /\ DOMAIN vtype' = DOMAIN vtype \cup {node.out}
       /\ \A t \in DOMAIN vtype' : vtype'[t] = W[t]
  BY <1>1, <1>3, <1>8, <1>13 DEF Harmonizer!Assign
<1>15. OutsBefore(onnx, idx + 1) = OutsBefore(onnx, idx) \cup {node.out}
  <2>1. \A j : j \in 1 .. (idx + 1) - 1 <=> j \in 1 .. idx - 1 \/ j = idx
    BY <1>4
  <2> QED BY <2>1 DEF OutsBefore, node
<1>16. Given' = Given /\ Harmonizer(variant)!Image' = Harmonizer(variant)!Image
    /\ Harmonizer(variant)!Output' = Harmonizer(variant)!Output /\ Types' = Types
       /\ Harmonizer(variant)!Float' = Harmonizer(variant)!Float
  BY <1>3 DEF Given, Harmonizer!Image, Harmonizer!Output, Types, Harmonizer!Float
<1>17. DOMAIN vtype' = Given' \cup OutsBefore(onnx', idx')
  BY <1>1, <1>3, <1>10, <1>14, <1>15, <1>16
<1>18. Settled' BY <1>1, <1>3, <1>10, <1>16 DEF Settled
<1>19. Repaired(W)' BY <1>1, <1>3, <1>10, <1>16 DEF Repaired
<1> QED BY <1>10, <1>11, <1>14, <1>17, <1>18, <1>19 DEF SecondPass

\* What the end of the first pass makes of the initializers.
LEMMA CopiesGoIn ==
    ASSUME Harmonizer(variant)!EndPass, FirstNames
    PROVE  /\ DOMAIN init' = {Harmonizer(variant)!Weight} \cup {dup[d] : d \in DOMAIN dup}
           /\ \A d \in DOMAIN dup : init'[dup[d]] = d[2] /\ d[2] \in Harmonizer(variant)!Float
           /\ init'[Harmonizer(variant)!Weight] = init[Harmonizer(variant)!Weight]
           /\ \A t \in DOMAIN init' : init'[t] \in Harmonizer(variant)!Float
<1> DEFINE made == {dup[d] : d \in DOMAIN dup}
<1>1. init' = [t \in DOMAIN init \cup made |-> IF t \in made THEN Harmonizer(variant)!Final(t)
               ELSE init[t]]
  BY DEF Harmonizer!EndPass
<1>2. /\ DOMAIN init = {Harmonizer(variant)!Weight}
         /\ init[Harmonizer(variant)!Weight] \in Harmonizer(variant)!Float
      /\ DOMAIN dup \subseteq {Harmonizer(variant)!Weight} \X Harmonizer(variant)!Float
      /\ \A d \in DOMAIN dup : dup[d] = Harmonizer(variant)!Copy(d[1], d[2])
  BY DEF FirstNames
<1>3. \A d \in DOMAIN dup : Harmonizer(variant)!Final(dup[d]) = d[2]
    /\ d[2] \in Harmonizer(variant)!Float /\ dup[d] \in Copied
  <2>1. \A x, type : Harmonizer(variant)!Final(Harmonizer(variant)!Copy(x, type)) = type
    BY DEF Harmonizer!Final, Harmonizer!Copy
  <2> QED BY <1>2, <2>1 DEF Copied
<1>4. Harmonizer(variant)!Weight \notin made BY <1>3, NameKinds DEF Bare
<1>5. \A d \in DOMAIN dup : dup[d] \in made OBVIOUS
<1>6. \A t \in made : \E d \in DOMAIN dup : t = dup[d] OBVIOUS
<1> HIDE DEF made
<1>7. /\ DOMAIN init' = {Harmonizer(variant)!Weight} \cup made
      /\ \A t \in made : init'[t] = Harmonizer(variant)!Final(t)
      /\ init'[Harmonizer(variant)!Weight] = init[Harmonizer(variant)!Weight]
  BY <1>1, <1>2, <1>4
<1>8. \A d \in DOMAIN dup : init'[dup[d]] = d[2] /\ d[2] \in Harmonizer(variant)!Float
  BY <1>3, <1>5, <1>7
<1>9. \A t \in DOMAIN init' : init'[t] \in Harmonizer(variant)!Float
  BY <1>2, <1>6, <1>7, <1>8
<1> QED BY <1>7, <1>8, <1>9 DEF made

LEMMA FirstEnds ==
    ASSUME variant \in DOMAIN Repairs, Harmonizer(variant)!EndPass, FirstPass
    PROVE  /\ Settled' /\ Len(onnx) <= Len(onnx')
           /\ Surgical => (\E W : Repaired(W))'
<1> DEFINE g == onnx
           h == onnx'
           P == pending
           L == Len(onnx)
           made == {dup[d] : d \in DOMAIN dup}
<1>1. FirstNames /\ FirstFits /\ FirstCounts /\ LastSo BY DEF FirstPass
<1>2. h = Harmonizer(variant)!WithCasts(g, P) /\ idx = L + 1
  BY DEF Harmonizer!EndPass
<1>3. Len(P) \in Nat /\ Fitting(g, There, P, Len(P)) /\ g \in Seq(Nodes) /\ L \in Nat
  BY <1>1 DEF FirstFits, Fitting
<1>4. /\ Formed(h, There) /\ Len(g) <= Len(h)
      /\ \A node : Has(h, node) <=> Has(g, node) \/ \E c \in 1 .. Len(P) : P[c][2] = node
  BY <1>2, <1>3, WithCastsForms
<1>5. /\ DOMAIN init' = {Harmonizer(variant)!Weight} \cup made
      /\ \A d \in DOMAIN dup : init'[dup[d]] = d[2]
      /\ init'[Harmonizer(variant)!Weight] = init[Harmonizer(variant)!Weight]
      /\ \A t \in DOMAIN init' : init'[t] \in Harmonizer(variant)!Float
  BY <1>1, CopiesGoIn
<1>6. /\ Harmonizer(variant)!Image' = Harmonizer(variant)!Image
         /\ Harmonizer(variant)!Output' = Harmonizer(variant)!Output /\ Types' = Types
      /\ Harmonizer(variant)!Float' = Harmonizer(variant)!Float
  BY DEF Harmonizer!Image, Harmonizer!Output, Types, Harmonizer!Float
<1>7. Given' = There BY <1>5, <1>6 DEF Given, There
<1>8. Settled' BY <1>4, <1>5, <1>6, <1>7 DEF Settled
<1>9. ASSUME Surgical
      PROVE  (\E W : Repaired(W))'
  <2>1. PICK I : FirstTypes(I) BY <1>9 DEF FirstPass
  <2>2. PICK W : W = vtype OBVIOUS
  <2>3. /\ DOMAIN vtype = There \cup OutsBefore(g, idx) \cup CastOuts
        /\ \A t \in DOMAIN vtype : W[t] \in Types
        /\ W[Harmonizer(variant)!Image] = "f32"
           /\ W[Harmonizer(variant)!Weight] = init[Harmonizer(variant)!Weight]
        /\ \A d \in DOMAIN dup : W[dup[d]] = d[2]
        /\ Harmonizer(variant)!Output \notin I
        /\ \A n \in 1 .. L : n < idx
           => NodeExact(g[n], W) /\ (W[g[n].out] = "int" <=> g[n].out \in I)
        /\ \A c \in 1 .. Len(P) : NodeExact(P[c][2], W)
    BY <2>1, <2>2 DEF FirstTypes
  <2>4. \A n \in 1 .. L : n < idx BY <1>2, <1>3
  <2>5. \A n \in 1 .. L : NodeExact(g[n], W) /\ W[g[n].out] \in Types
    <3>1. \A n \in 1 .. L : n \in 1 .. idx - 1 BY <1>2, <1>3
    <3>2. \A n \in 1 .. L : g[n].out \in OutsBefore(g, idx)
      BY <3>1 DEF OutsBefore
    <3> QED BY <2>3, <2>4, <3>2
  <2>6. \A c \in 1 .. Len(P) : NodeExact(P[c][2], W) /\ W[P[c][2].out] \in Types
    BY <2>3 DEF CastOuts
  <2>7. \A n \in 1 .. Len(h) : NodeExact(h[n], W) /\ W[h[n].out] \in Types
    <3> SUFFICES ASSUME NEW n \in 1 .. Len(h)
                 PROVE  NodeExact(h[n], W) /\ W[h[n].out] \in Types
      OBVIOUS
    <3>1. Has(h, h[n]) BY DEF Has
    <3>2. Has(g, h[n]) \/ \E c \in 1 .. Len(P) : P[c][2] = h[n]
      BY <1>4, <3>1
    <3>3. Has(g, h[n]) => \E m \in 1 .. L : g[m] = h[n] BY DEF Has
    <3> HIDE DEF g, h, P, L
    <3> QED BY <2>5, <2>6, <3>2, <3>3
  <2>8. L \in 1 .. L /\ g[L].out = Harmonizer(variant)!Output
        /\ (g[L].op = "Cast32" \/ (g[L].op = "Mul" /\ g[L].block))
    BY <1>1 DEF LastSo
  <2>9. W[Harmonizer(variant)!Output] = "f32"
    <3> DEFINE x == g[L]
    <3>1. /\ NodeExact(x, W) /\ W[x.out] # "int" /\ x.out = Harmonizer(variant)!Output
          /\ (x.op = "Cast32" \/ (x.op = "Mul" /\ x.block))
      BY <2>3, <2>4, <2>5, <2>8
    <3> HIDE DEF x
    <3>2. W[x.out] = Harmonizer(variant)!Produces(x, W[x.ins[1]])
      BY <3>1 DEF NodeExact
    <3>3. CASE x.op = "Cast32"
      <4>1. Harmonizer(variant)!IsCast(x.op) /\ Harmonizer(variant)!CastType(x.op) = "f32"
        BY <3>3 DEF Harmonizer!IsCast, Harmonizer!CastType
      <4> QED BY <4>1, <3>1, <3>2, ProducesIs
    <3>4. CASE x.op = "Mul" /\ x.block
      <4>1. ~Harmonizer(variant)!IsCast(x.op) /\ 1 \in Harmonizer(variant)!Checked(x)
          /\ Harmonizer(variant)!Target(x) = "f32"
        BY <3>4 DEF Harmonizer!IsCast, Harmonizer!Checked, Harmonizer!Target
      <4>2. W[x.ins[1]] \in {"int", "f32"} BY <3>1, <4>1 DEF NodeExact
      <4>3. W[x.out] = W[x.ins[1]] BY <3>2, <3>4, ProducesIs
      <4> QED BY <3>1, <4>2, <4>3
    <3> QED BY <3>1, <3>3, <3>4
  <2>10. \E n \in 1 .. Len(h) : h[n].out = Harmonizer(variant)!Output
    <3>1. Has(g, g[L]) BY <2>8 DEF Has
    <3>2. Has(h, g[L]) BY <3>1, <1>4
    <3>3. PICK n \in 1 .. Len(h) : h[n] = g[L] BY <3>2 DEF Has
    <3> QED BY <3>3, <2>8
  <2>11. \A t \in DOMAIN init' : W[t] = init'[t] BY <2>3, <1>5
  <2>12. Repaired(W)'
    BY <2>3, <2>7, <2>9, <2>10, <2>11, <1>6 DEF Repaired
  <2> QED BY <2>12
<1> QED BY <1>4, <1>8, <1>9

LEMMA SecondEnds ==
    ASSUME variant \in DOMAIN Repairs, Harmonizer(variant)!EndPass, NEW W, SecondPass(W)
    PROVE  Settled' /\ Repaired(W)' /\ onnx' = onnx /\ pc' = "done"
<1>1. Settled /\ Repaired(W) /\ fixed = 0 /\ pending = <<>> /\ DOMAIN dup = {}
  BY DEF SecondPass
<1>2. /\ onnx' = Harmonizer(variant)!WithCasts(onnx, pending)
      /\ init' = [t \in DOMAIN init \cup {dup[d] : d \in DOMAIN dup} |->
                      IF t \in {dup[d] : d \in DOMAIN dup} THEN Harmonizer(variant)!Final(t)
                        ELSE init[t]]
      /\ pc' = IF Repairs[variant].tool = "surgical" /\ Harmonizer(variant)!Again THEN "begin"
         ELSE "done"
  BY DEF Harmonizer!EndPass
<1>3. onnx' = onnx
  <2>1. Len(pending) = 0 BY <1>1
  <2>2. PICK f : CastsGoIn(onnx, pending, 1, f) /\ onnx' = f[1]
    BY <1>2, <2>1, WithCastsSteps
  <2>3. f[0 + 1] = onnx BY <2>1, <2>2 DEF CastsGoIn
  <2> QED BY <2>2, <2>3
<1>4. DOMAIN init' = DOMAIN init /\ \A t \in DOMAIN init : init'[t] = init[t]
  BY <1>1, <1>2
<1>5. pc' = "done" BY <1>1, <1>2 DEF Harmonizer!Again
<1>6. Given' = Given /\ Harmonizer(variant)!Image' = Harmonizer(variant)!Image
    /\ Harmonizer(variant)!Output' = Harmonizer(variant)!Output /\ Types' = Types
      /\ Harmonizer(variant)!Float' = Harmonizer(variant)!Float
  BY <1>4 DEF Given, Harmonizer!Image, Harmonizer!Output, Types, Harmonizer!Float
<1>7. Settled' BY <1>1, <1>3, <1>4, <1>6 DEF Settled
<1>8. Repaired(W)' BY <1>1, <1>3, <1>4, <1>6 DEF Repaired
<1> QED BY <1>3, <1>5, <1>7, <1>8

------------------------------
(* TypeHarmonizer: the invariant *)

HarmBounds ==
    /\ idx \in 1 .. Len(onnx) + 1 /\ fixed \in Nat /\ fixed <= 2 * Len(HarmNames)
    /\ \A t \in DOMAIN vtype : vtype[t] \in Types

AtStart ==
    /\ RawGraph /\ \E I : RawTypes(I)
    /\ vtype = <<>> /\ idx = 1 /\ fixed = 0 /\ passes = 0

Between == Settled /\ Surgical /\ passes = 1 /\ \E W : Repaired(W)

HarmInv ==
    /\ pc \in {"outputs", "begin", "pass", "done"} /\ passes \in 0 .. 2
    /\ declared \in Harmonizer(variant)!Float /\ HarmBounds
    /\ pc = "outputs" => AtStart /\ Fresh /\ (declared = "f32" => LastSo)
    /\ pc = "begin" => (AtStart /\ LastSo /\ Counted) \/ Between
    /\ pc = "pass" => \/ passes = 1 /\ FirstPass
                      \/ passes = 2 /\ Surgical /\ \E W : SecondPass(W)
    /\ pc = "done" => Settled /\ (Surgical => \E W : Repaired(W))

LEMMA StartBounded ==
    ASSUME variant \in DOMAIN Repairs, AtStart
    PROVE  HarmBounds
<1>1. Len(onnx) \in Nat BY DEF AtStart, RawGraph, Formed
<1>2. DOMAIN vtype = {} BY DEF AtStart
<1>3. Len(HarmNames) \in Nat BY RepairAssumption
<1> QED BY <1>1, <1>2, <1>3 DEF HarmBounds, AtStart

LEMMA FirstBounded ==
    ASSUME FirstPass
    PROVE  HarmBounds
<1>1. FirstCounts BY DEF FirstPass
<1>2. \A t \in DOMAIN vtype : vtype[t] \in Types
  <2>1. CASE Surgical
    <3>1. PICK I : FirstTypes(I) BY <2>1 DEF FirstPass
    <3> QED BY <3>1 DEF FirstTypes
  <2>2. CASE ~Surgical BY <2>2 DEF FirstPass, Inferred
  <2> QED BY <2>1, <2>2
<1> QED BY <1>1, <1>2 DEF HarmBounds, FirstCounts

LEMMA SecondBounded ==
    ASSUME variant \in DOMAIN Repairs, NEW W, SecondPass(W)
    PROVE  HarmBounds
<1>1. /\ Settled /\ Repaired(W) /\ fixed = 0 /\ idx \in 1 .. Len(onnx) + 1
      /\ DOMAIN vtype = Given \cup OutsBefore(onnx, idx)
      /\ \A t \in DOMAIN vtype : vtype[t] = W[t]
  BY DEF SecondPass
<1>2. Len(onnx) \in Nat BY <1>1 DEF Settled, Formed
<1>3. \A t \in Given : W[t] \in Types
  BY <1>1 DEF Given, Repaired, Settled, Types, Harmonizer!Float
<1>4. \A t \in OutsBefore(onnx, idx) : W[t] \in Types
  <2>1. \A j \in 1 .. idx - 1 : j \in 1 .. Len(onnx) BY <1>1, <1>2
  <2> QED BY <2>1, <1>1 DEF OutsBefore, Repaired
<1>5. 0 <= 2 * Len(HarmNames) BY RepairAssumption
<1> QED BY <1>1, <1>3, <1>4, <1>5 DEF HarmBounds

LEMMA HarmInit ==
    ASSUME variant \in DOMAIN Repairs, Harmonizer(variant)!Init
    PROVE  HarmInv
<1>1. RawGraph /\ Fresh /\ \E I : RawTypes(I) BY ConvertedIsRaw
<1>2. /\ pc = "outputs" /\ passes = 0 /\ vtype = <<>> /\ idx = 1 /\ fixed = 0
      /\ declared \in Harmonizer(variant)!Float
      /\ declared = "f32" => \/ onnx[Len(onnx)].op = "Cast32"
                             \/ onnx[Len(onnx)].op = "Mul" /\ onnx[Len(onnx)].block
  BY DEF Harmonizer!Init, Harmonizer!Final
<1>3. AtStart BY <1>1, <1>2 DEF AtStart
<1>4. HarmBounds BY <1>3, StartBounded
<1>5. declared = "f32" => LastSo
  <2>1. Len(onnx) = Len(HarmNames) /\ Len(onnx) \in Nat \ {0}
    BY <1>1, RepairAssumption DEF Fresh
  <2>2. Len(onnx) \in 1 .. Len(onnx) BY <2>1
  <2>3. onnx[Len(onnx)].out = Harmonizer(variant)!Output
    BY <1>1, <2>1, <2>2, OutputIs DEF Fresh
  <2> QED BY <1>2, <2>1, <2>3 DEF LastSo
<1> QED BY <1>1, <1>2, <1>3, <1>4, <1>5 DEF HarmInv

LEMMA HarmRetypes ==
    ASSUME variant \in DOMAIN Repairs, HarmInv, Harmonizer(variant)!RetypeOutputs
    PROVE  HarmInv'
<1>1. /\ pc = "outputs" /\ pc' = "begin" /\ declared' = "f32" /\ vtype' = vtype /\ idx' = idx
      /\ fixed' = fixed /\ passes' = passes
  BY DEF Harmonizer!RetypeOutputs
<1>2. AtStart /\ Fresh /\ (declared = "f32" => LastSo) /\ declared \in Harmonizer(variant)!Float
  BY <1>1 DEF HarmInv
<1>3. PICK I : RawTypes(I) BY <1>2 DEF AtStart
<1>4. RawGraph' /\ RawTypes(I)' /\ LastSo' /\ Counted'
  BY <1>2, <1>3, OutputsRetyped DEF AtStart
<1>5. (\E J : RawTypes(J))' BY <1>4
<1>6. AtStart' BY <1>1, <1>2, <1>4, <1>5 DEF AtStart
<1>7. HarmBounds' BY <1>6, StartBounded, PTL
<1>8. declared' \in Harmonizer(variant)!Float'
  BY <1>1 DEF Harmonizer!Float
<1>9. passes' \in 0 .. 2 BY <1>1 DEF HarmInv
<1> QED BY <1>1, <1>4, <1>6, <1>7, <1>8, <1>9 DEF HarmInv

LEMMA HarmBegins ==
    ASSUME variant \in DOMAIN Repairs, HarmInv, Harmonizer(variant)!Begin
    PROVE  HarmInv'
<1>1. pc = "begin" /\ pc' = "pass" /\ passes' = passes + 1 /\ declared' = declared
  BY DEF Harmonizer!Begin
<1>2. declared' \in Harmonizer(variant)!Float'
  BY <1>1 DEF HarmInv, Harmonizer!Float
<1>3. CASE AtStart /\ LastSo /\ Counted
  <2>1. PICK I : RawTypes(I) BY <1>3 DEF AtStart
  <2>2. FirstPass' BY <1>3, <2>1, FirstBegins DEF AtStart
  <2>3. HarmBounds' BY <2>2, FirstBounded, PTL
  <2>4. passes' = 1 BY <1>1, <1>3 DEF AtStart
  <2> QED BY <1>1, <1>2, <2>2, <2>3, <2>4 DEF HarmInv
<1>4. CASE Between
  <2>1. PICK W : Repaired(W) BY <1>4 DEF Between
  <2>2. SecondPass(W)' BY <1>4, <2>1, SecondBegins DEF Between
  <2>3. HarmBounds' BY <2>2, SecondBounded, PTL
  <2>4. passes' = 2 /\ Surgical' BY <1>1, <1>4 DEF Between, Surgical
  <2>5. (\E V : SecondPass(V))' BY <2>2
  <2> QED BY <1>1, <1>2, <2>3, <2>4, <2>5 DEF HarmInv
<1> QED BY <1>1, <1>3, <1>4 DEF HarmInv

LEMMA HarmVisits ==
    ASSUME variant \in DOMAIN Repairs, HarmInv, Harmonizer(variant)!Visit
    PROVE  HarmInv'
<1>1. pc = "pass" /\ pc' = pc /\ passes' = passes /\ declared' = declared
  BY VisitDoes
<1>2. declared' \in Harmonizer(variant)!Float'
  BY <1>1 DEF HarmInv, Harmonizer!Float
<1>3. CASE passes = 1 /\ FirstPass
  <2>1. FirstPass' BY <1>3, FirstVisit
  <2>2. HarmBounds' BY <2>1, FirstBounded, PTL
  <2> QED BY <1>1, <1>2, <1>3, <2>1, <2>2 DEF HarmInv
<1>4. CASE passes = 2 /\ Surgical /\ \E W : SecondPass(W)
  <2>1. PICK W : SecondPass(W) BY <1>4
  <2>2. SecondPass(W)' BY <1>4, <2>1, SecondVisit
  <2>3. HarmBounds' BY <2>2, SecondBounded, PTL
  <2>4. Surgical' BY <1>4 DEF Surgical
  <2>5. (\E V : SecondPass(V))' BY <2>2
  <2> QED BY <1>1, <1>2, <1>4, <2>3, <2>4, <2>5 DEF HarmInv
<1> QED BY <1>1, <1>3, <1>4 DEF HarmInv

LEMMA HarmEnds ==
    ASSUME variant \in DOMAIN Repairs, HarmInv, Harmonizer(variant)!EndPass
    PROVE  HarmInv'
<1>1. /\ pc = "pass" /\ pc' = IF Surgical /\ Harmonizer(variant)!Again THEN "begin" ELSE "done"
      /\ passes' = passes /\ declared' = declared /\ vtype' = vtype /\ idx' = idx /\ fixed' = fixed
  BY DEF Harmonizer!EndPass, Surgical
<1>2. declared' \in Harmonizer(variant)!Float' /\ passes' \in 0 .. 2
  BY <1>1 DEF HarmInv, Harmonizer!Float
<1>3. Surgical' = Surgical /\ Types' = Types /\ HarmNames' = HarmNames
  BY DEF Surgical, Types, Harmonizer!Float, HarmNames
<1>4. HarmBounds BY DEF HarmInv
<1>5. CASE passes = 1 /\ FirstPass
  <2>1. /\ Settled' /\ Len(onnx) <= Len(onnx')
        /\ Surgical => (\E W : Repaired(W))'
    BY <1>5, FirstEnds
  <2>2. Len(onnx) \in Nat /\ Len(onnx') \in Nat
    BY <2>1, <1>5 DEF FirstPass, FirstFits, Fitting, Settled, Formed
  <2>3. HarmBounds' BY <1>1, <1>3, <1>4, <2>1, <2>2 DEF HarmBounds
  <2>4. Surgical => Between' BY <1>1, <1>3, <1>5, <2>1 DEF Between
  <2> QED BY <1>1, <1>2, <1>3, <2>1, <2>3, <2>4 DEF HarmInv
<1>6. CASE passes = 2 /\ Surgical /\ \E W : SecondPass(W)
  <2>1. PICK W : SecondPass(W) BY <1>6
  <2>2. Settled' /\ Repaired(W)' /\ onnx' = onnx /\ pc' = "done"
    BY <2>1, SecondEnds
  <2>3. (\E V : Repaired(V))' BY <2>2
  <2>4. HarmBounds' BY <1>1, <1>3, <1>4, <2>2 DEF HarmBounds
  <2> QED BY <1>2, <2>2, <2>3, <2>4 DEF HarmInv
<1> QED BY <1>1, <1>5, <1>6 DEF HarmInv

LEMMA HarmRests ==
    ASSUME HarmInv, UNCHANGED Harmonizer(variant)!vars
    PROVE  HarmInv'
<1>1. /\ onnx' = onnx /\ init' = init /\ declared' = declared /\ vtype' = vtype /\ idx' = idx
      /\ pending' = pending /\ dup' = dup /\ fixed' = fixed /\ passes' = passes /\ pc' = pc
  BY DEF Harmonizer!vars
<1>2. /\ Start' = Start /\ Bare' = Bare /\ Harmonizer(variant)!Image' = Harmonizer(variant)!Image
         /\ Harmonizer(variant)!Weight' = Harmonizer(variant)!Weight
      /\ Harmonizer(variant)!Output' = Harmonizer(variant)!Output
         /\ Harmonizer(variant)!Inner' = Harmonizer(variant)!Inner /\ Nodes' = Nodes
            /\ HarmNames' = HarmNames
      /\ Harmonizer(variant)!Float' = Harmonizer(variant)!Float /\ Types' = Types
         /\ Surgical' = Surgical
  BY DEF Start, Bare, Harmonizer!Image, Harmonizer!Weight, Harmonizer!Output, Harmonizer!Inner,
         Nodes, HarmNames, Harmonizer!Float, Types,
         Surgical
<1>3. HarmBounds' BY <1>1, <1>2 DEF HarmInv, HarmBounds
<1>4. /\ RawGraph => RawGraph'
      /\ \A I : RawTypes(I) => RawTypes(I)'
      /\ (Fresh => Fresh') /\ (LastSo => LastSo') /\ (Counted => Counted')
  <2>1. RawGraph => RawGraph' BY <1>1, <1>2 DEF RawGraph
  <2>2. \A I : RawTypes(I) => RawTypes(I)' BY <1>1, <1>2 DEF RawTypes
  <2>3. (Fresh => Fresh') /\ (LastSo => LastSo') /\ (Counted => Counted')
    BY <1>1, <1>2 DEF Fresh, LastSo, Counted
  <2> QED BY <2>1, <2>2, <2>3
<1>5. AtStart => AtStart' BY <1>1, <1>4 DEF AtStart
<1>6. There' = There /\ CastOuts' = CastOuts /\ Given' = Given
  BY <1>1, <1>2 DEF There, CastOuts, Given, Harmonizer!Image, Harmonizer!Weight
<1>7. FirstPass => FirstPass'
  <2>1. FirstNames => FirstNames' BY <1>1, <1>2 DEF FirstNames
  <2>2. FirstFits => FirstFits' BY <1>1, <1>2, <1>6 DEF FirstFits
  <2>3. FirstCounts => FirstCounts' BY <1>1, <1>2 DEF FirstCounts
  <2>4. \A I : FirstTypes(I) => FirstTypes(I)'
    BY <1>1, <1>2, <1>6 DEF FirstTypes
  <2>5. Inferred => Inferred' BY <1>1, <1>2 DEF Inferred
  <2> QED BY <2>1, <2>2, <2>3, <2>4, <2>5, <1>2, <1>4 DEF FirstPass
<1>8. Settled => Settled' BY <1>1, <1>2, <1>6 DEF Settled
<1>9. \A W : Repaired(W) => Repaired(W)' BY <1>1, <1>2 DEF Repaired
<1>10. Between => Between' BY <1>1, <1>2, <1>8, <1>9 DEF Between
<1>11. \A W : SecondPass(W) => SecondPass(W)'
  BY <1>1, <1>6, <1>8, <1>9 DEF SecondPass
<1> QED BY <1>1, <1>2, <1>3, <1>4, <1>5, <1>7, <1>8, <1>9, <1>10, <1>11 DEF HarmInv

LEMMA HarmStep ==
    ASSUME variant \in DOMAIN Repairs, HarmInv,
           [Harmonizer(variant)!Next]_(Harmonizer(variant)!vars)
    PROVE  HarmInv'
<1>1. CASE Harmonizer(variant)!RetypeOutputs BY <1>1, HarmRetypes
<1>2. CASE Harmonizer(variant)!Begin BY <1>2, HarmBegins
<1>3. CASE Harmonizer(variant)!Visit BY <1>3, HarmVisits
<1>4. CASE Harmonizer(variant)!EndPass BY <1>4, HarmEnds
<1>5. CASE UNCHANGED Harmonizer(variant)!vars BY <1>5, HarmRests
<1> QED BY <1>1, <1>2, <1>3, <1>4, <1>5 DEF Harmonizer!Next

LEMMA AtMostOne ==
    ASSUME NEW S, NEW x, S \subseteq {x}
    PROVE  Harmonizer(variant)!Cardinality(S) <= 1
<1>1. Harmonizer(variant)!Cardinality(S) = Cardinality(S)
  BY Zenon DEF Harmonizer!Cardinality, Cardinality
<1>2. S = {} \/ S = {x} OBVIOUS
<1>3. Cardinality(S) = 0 \/ Cardinality(S) = 1
  BY <1>2, FS_EmptySet, FS_Singleton
<1> QED BY <1>1, <1>3

LEMMA InitialOfGiven ==
    /\ DOMAIN Harmonizer(variant)!Initial = Given
    /\ \A W : (W[Harmonizer(variant)!Image] = "f32" /\ \A t \in DOMAIN init : W[t] = init[t])
           => \A t \in Given : Harmonizer(variant)!Initial[t] = W[t]
BY InitialIs DEF Given

\* The types the pass believes in are those the tensors have at run time.
LEMMA RuntimeIs ==
    ASSUME Settled, NEW W, Repaired(W)
    PROVE  /\ DOMAIN Harmonizer(variant)!Runtime = Given \cup {onnx[n].out : n \in 1 .. Len(onnx)}
           /\ \A t \in DOMAIN Harmonizer(variant)!Runtime : Harmonizer(variant)!Runtime[t] = W[t]
<1>1. PICK ini : ini = Harmonizer(variant)!Initial OBVIOUS
<1>2. /\ Formed(onnx, Given) /\ \A t \in DOMAIN init : init[t] \in Harmonizer(variant)!Float
      /\ W[Harmonizer(variant)!Image] = "f32" /\ \A t \in DOMAIN init : W[t] = init[t]
      /\ \A n \in 1 .. Len(onnx) :
         W[onnx[n].out] = Harmonizer(variant)!Produces(onnx[n], W[onnx[n].ins[1]])
  BY DEF Settled, Repaired, NodeExact
<1>3. DOMAIN ini = Given /\ \A t \in Given : ini[t] = W[t]
  BY <1>1, <1>2, InitialOfGiven
<1>4. \A t \in Given : ini[t] \in Types
  BY <1>2, <1>3 DEF Given, Types, Harmonizer!Float
<1>5. Harmonizer(variant)!Runtime = Harmonizer(variant)!Typed(onnx, ini)
  BY <1>1 DEF Harmonizer!Runtime
<1>6. /\ DOMAIN Harmonizer(variant)!Runtime = DOMAIN ini \cup OutsBefore(onnx, Len(onnx) + 1)
      /\ \A t \in DOMAIN Harmonizer(variant)!Runtime : Harmonizer(variant)!Runtime[t] = W[t]
  <2>1. Formed(onnx, DOMAIN ini) /\ Solves(onnx, ini, W)
    BY <1>2, <1>3, <1>4 DEF Solves
  <2>2. DOMAIN Harmonizer(variant)!Runtime = DOMAIN ini \cup OutsBefore(onnx, Len(onnx) + 1)
      /\ Alike(Harmonizer(variant)!Runtime, W)
    BY <2>1, <1>5, TypedIsTheOne
  <2> QED BY <2>2 DEF Alike
<1>7. OutsBefore(onnx, Len(onnx) + 1) = {onnx[n].out : n \in 1 .. Len(onnx)}
  <2>1. (Len(onnx) + 1) - 1 = Len(onnx) BY <1>2 DEF Formed
  <2> QED BY <2>1 DEF OutsBefore
<1> QED BY <1>3, <1>6, <1>7

LEMMA HarmTypes ==
    ASSUME variant \in DOMAIN Repairs, HarmInv
    PROVE  Harmonizer(variant)!TypeOK
<1>1. /\ pc \in {"outputs", "begin", "pass", "done"} /\ passes \in 0 .. 2
      /\ declared \in Harmonizer(variant)!Float /\ HarmBounds
  BY DEF HarmInv
<1>2. onnx \in Seq(Nodes) /\ \A t \in DOMAIN init : init[t] \in Harmonizer(variant)!Float
  <2>1. RawGraph => onnx \in Seq(Nodes) /\ \A t \in DOMAIN init :
      init[t] \in Harmonizer(variant)!Float
    BY DEF RawGraph, Formed
  <2>2. Settled => onnx \in Seq(Nodes) /\ \A t \in DOMAIN init :
      init[t] \in Harmonizer(variant)!Float
    BY DEF Settled, Formed
  <2>3. FirstPass => onnx \in Seq(Nodes) /\ \A t \in DOMAIN init :
      init[t] \in Harmonizer(variant)!Float
    BY DEF FirstPass, FirstNames, FirstFits, Fitting
  <2>4. RawGraph \/ Settled \/ FirstPass
    BY <1>1 DEF HarmInv, AtStart, Between, SecondPass
  <2> QED BY <2>1, <2>2, <2>3, <2>4
<1>3. \A n \in DOMAIN onnx : /\ onnx[n].op \in Repairs[variant].ops \cup {"Cast16", "Cast32"}
                             /\ onnx[n].block \in BOOLEAN
  <2>1. \A n \in DOMAIN onnx : onnx[n] \in Nodes BY <1>2
  <2> QED BY <2>1, NodeParts DEF HarmOps
<1>4. /\ \A t \in DOMAIN vtype : vtype[t] \in Harmonizer(variant)!Float \cup {"int"}
      /\ idx \in 1 .. Len(onnx) + 1 /\ fixed <= 2 * Len(Repairs[variant].names)
  BY <1>1 DEF HarmBounds, Types, HarmNames
<1>5. passes <= 2 BY <1>1
<1> QED BY <1>1, <1>2, <1>3, <1>4, <1>5 DEF Harmonizer!TypeOK

LEMMA FormedIsOrdered ==
    ASSUME Formed(onnx, Given)
    PROVE  \A n \in DOMAIN onnx : \A k \in {1, 2} :
               onnx[n].ins[k] \in Harmonizer(variant)!Defined(SubSeq(onnx, 1, n - 1),
                                                              Harmonizer(variant)!Initial)
<1>1. /\ onnx \in Seq(Nodes) /\ Len(onnx) \in Nat
      /\ \A n \in 1 .. Len(onnx) : \A k \in {1, 2} :
         onnx[n].ins[k] \in Given \cup OutsBefore(onnx, n)
  BY DEF Formed
<1> SUFFICES ASSUME NEW n \in 1 .. Len(onnx)
             PROVE  OutsBefore(onnx, n) \cup Given
               \subseteq Harmonizer(variant)!Defined(SubSeq(onnx, 1, n - 1),
                                                     Harmonizer(variant)!Initial)
  BY <1>1
<1> DEFINE s == SubSeq(onnx, 1, n - 1)
<1>2. DOMAIN s = 1 .. n - 1 /\ \A j \in 1 .. n - 1 : s[j] = onnx[j]
  BY <1>1
<1> HIDE DEF s
<1>3. Harmonizer(variant)!Defined(s, Harmonizer(variant)!Initial) = Given
    \cup {s[j].out : j \in 1 .. n - 1}
  BY <1>2, InitialOfGiven DEF Harmonizer!Defined
<1>4. {s[j].out : j \in 1 .. n - 1} = OutsBefore(onnx, n)
  BY <1>2 DEF OutsBefore
<1> QED BY <1>3, <1>4 DEF s

LEMMA HarmPromises ==
    ASSUME variant \in DOMAIN Repairs, HarmInv
    PROVE  /\ Harmonizer(variant)!TypeOK /\ Harmonizer(variant)!NamesUnique
              /\ Harmonizer(variant)!StillTopological
           /\ Surgical => Harmonizer(variant)!NoMixedNode /\ Harmonizer(variant)!IslandIsExact
              /\ Harmonizer(variant)!Converges
<1>1. Harmonizer(variant)!TypeOK BY HarmTypes
<1>2. Settled => onnx \in Seq(Nodes) /\ DOMAIN onnx = 1 .. Len(onnx) /\ Len(onnx) \in Nat
  BY DEF Settled, Formed
<1>3. Harmonizer(variant)!NamesUnique
  <2> SUFFICES ASSUME pc = "done"
               PROVE  /\ \A n, k \in DOMAIN onnx : onnx[n].out = onnx[k].out => n = k
                      /\ \A n \in DOMAIN onnx : onnx[n].out \notin DOMAIN init
    BY DEF Harmonizer!NamesUnique
  <2>1. Settled BY DEF HarmInv
  <2> QED BY <1>2, <2>1 DEF Settled, Formed, OneMaker, Given
<1>4. Harmonizer(variant)!StillTopological
  <2> SUFFICES ASSUME pc \in {"begin", "done"}
               PROVE  Formed(onnx, Given)
    BY FormedIsOrdered DEF Harmonizer!StillTopological
  <2>1. RawGraph => Formed(onnx, Given) BY DEF RawGraph, Start, Given
  <2> QED BY <2>1 DEF HarmInv, AtStart, Between, Settled
<1>5. ASSUME Surgical
      PROVE  Harmonizer(variant)!NoMixedNode /\ Harmonizer(variant)!IslandIsExact
        /\ Harmonizer(variant)!Converges
  <2>1. Harmonizer(variant)!Converges
    BY DEF HarmInv, AtStart, Between, Harmonizer!Converges
  <2>2. CASE pc # "done"
    BY <2>1, <2>2 DEF Harmonizer!NoMixedNode, Harmonizer!IslandIsExact
  <2>3. CASE pc = "done"
    <3>1. Settled /\ \E W : Repaired(W) BY <1>5, <2>3 DEF HarmInv
    <3>2. PICK W : Repaired(W) BY <3>1
    <3> DEFINE R == Harmonizer(variant)!Runtime
    <3>3. /\ DOMAIN R = Given \cup {onnx[n].out : n \in 1 .. Len(onnx)}
          /\ \A t \in DOMAIN R : R[t] = W[t]
      BY <3>1, <3>2, RuntimeIs
    <3> HIDE DEF R
    <3>4. R[Harmonizer(variant)!Output] = "f32"
      <4>1. W[Harmonizer(variant)!Output] = "f32" /\ Harmonizer(variant)!Output \in DOMAIN R
        BY <3>2, <3>3 DEF Repaired
      <4> QED BY <4>1, <3>3
    <3>5. ASSUME NEW n \in DOMAIN onnx
          PROVE  /\ onnx[n] \in Nodes /\ NodeExact(onnx[n], W)
                 /\ \A k \in {1, 2} : R[onnx[n].ins[k]] = W[onnx[n].ins[k]]
      <4>1. n \in 1 .. Len(onnx) /\ onnx[n] \in Nodes BY <1>2, <3>1
      <4>2. \A j \in 1 .. n - 1 : j \in 1 .. Len(onnx)
        BY <4>1, <1>2, <3>1
      <4>3. OutsBefore(onnx, n) \subseteq {onnx[j].out : j \in 1 .. Len(onnx)}
        BY <4>2 DEF OutsBefore
      <4>4. \A k \in {1, 2} : onnx[n].ins[k] \in DOMAIN R
        BY <4>1, <4>3, <3>1, <3>3 DEF Settled, Formed
      <4> QED BY <4>1, <4>4, <3>2, <3>3 DEF Repaired
    <3>6. ASSUME NEW n \in DOMAIN onnx
          PROVE  /\ ~Harmonizer(variant)!IsCast(onnx[n].op) =>
                        Harmonizer(variant)!FloatTypes(onnx[n])
                          \subseteq {Harmonizer(variant)!Target(onnx[n])}
                 /\ Harmonizer(variant)!Cardinality(Harmonizer(variant)!FloatTypes(onnx[n])) <= 1
      <4> DEFINE x == onnx[n]
                 F == Harmonizer(variant)!FloatTypes(x)
      <4>1. F = {R[x.ins[k]] : k \in Harmonizer(variant)!Checked(x)} \cap Harmonizer(variant)!Float
        BY DEF Harmonizer!FloatTypes, R
      <4>2. x \in Nodes /\ NodeExact(x, W) /\ \A k \in {1, 2} : R[x.ins[k]] = W[x.ins[k]]
        BY <3>5
      <4> HIDE DEF x, F
      <4>3. Harmonizer(variant)!Checked(x) \subseteq {1, 2}
        BY DEF Harmonizer!Checked
      <4>4. CASE Harmonizer(variant)!IsCast(x.op)
        <5>1. x.ins[1] = x.ins[2] BY <4>2, <4>4, NodeParts
        <5>2. F \subseteq {R[x.ins[1]]} BY <5>1, <4>1, <4>3
        <5>3. Harmonizer(variant)!Cardinality(F) <= 1 BY <5>2, AtMostOne
        <5> QED BY <5>3, <4>4 DEF x, F
      <4>5. CASE ~Harmonizer(variant)!IsCast(x.op)
        <5>1. \A k \in Harmonizer(variant)!Checked(x) :
            R[x.ins[k]] \in {"int", Harmonizer(variant)!Target(x)}
          BY <4>2, <4>3, <4>5 DEF NodeExact
        <5>2. F \subseteq {Harmonizer(variant)!Target(x)}
          BY <5>1, <4>1 DEF Harmonizer!Float
        <5>3. Harmonizer(variant)!Cardinality(F) <= 1 BY <5>2, AtMostOne
        <5> QED BY <5>2, <5>3 DEF x, F
      <4> QED BY <4>4, <4>5
    <3>7. Harmonizer(variant)!NoMixedNode
      BY <3>6 DEF Harmonizer!NoMixedNode
    <3>8. Harmonizer(variant)!IslandIsExact
      BY <3>4, <3>6 DEF Harmonizer!IslandIsExact, R
    <3> QED BY <2>1, <3>7, <3>8
  <2> QED BY <2>2, <2>3
<1> QED BY <1>1, <1>3, <1>4, <1>5

LEMMA HarmKept ==
    variant \in DOMAIN Repairs => (Harmonizer(variant)!Spec => []HarmInv)
<1> SUFFICES ASSUME variant \in DOMAIN Repairs
             PROVE  Harmonizer(variant)!Spec => []HarmInv
  OBVIOUS
<1>1. Harmonizer(variant)!Init => HarmInv BY HarmInit
<1>2. HarmInv /\ [Harmonizer(variant)!Next]_(Harmonizer(variant)!vars) => HarmInv'
  BY HarmStep
<1> QED BY <1>1, <1>2, PTL DEF Harmonizer!Spec

LEMMA HarmonizerRuns ==
    variant \in DOMAIN Repairs => (BuildersSpec /\ program = variant => Harmonizer(variant)!Spec)
<1> SUFFICES ASSUME variant \in DOMAIN Repairs
             PROVE  BuildersSpec /\ program = variant => Harmonizer(variant)!Spec
  OBVIOUS
<1>1. BuildersInit /\ program = variant => Harmonizer(variant)!Init
  <2> SUFFICES ASSUME BuildersInit, program = variant
               PROVE  Harmonizer(variant)!Init
    OBVIOUS
  <2>1. HarmonizerBegins
    BY NamesAssumption
       DEF BuildersInit, ReaderBegins, CacheBegins, BesideBegins, RecipeBegins
  <2> QED BY <2>1 DEF HarmonizerBegins
<1>2. program = variant /\ [BuildersNext]_BuildersVars
    => [Harmonizer(variant)!Next]_(Harmonizer(variant)!vars)
  <2> SUFFICES ASSUME program = variant, [BuildersNext]_BuildersVars
               PROVE  [Harmonizer(variant)!Next]_(Harmonizer(variant)!vars)
    OBVIOUS
  <2>1. CASE BuildersNext
    <3>1. HarmonizerSteps
      BY <2>1, NamesAssumption
         DEF BuildersNext, ReaderSteps, CacheSteps, BesideSteps, RecipeSteps
    <3> QED BY <3>1 DEF HarmonizerSteps
  <2>2. CASE UNCHANGED BuildersVars
    BY <2>2 DEF BuildersVars, Harmonizer!vars
  <2> QED BY <2>1, <2>2
<1> QED BY <1>1, <1>2, ProgramStays, PTL DEF BuildersSpec, Harmonizer!Spec

\* Of whatever graph the converter left: every tensor has one maker, every node follows those
\* that feed it, and after the surgical tool the FP32 island computes in FP32, the rest does
\* not, no node mixes two float types, and the second pass was the last
\* (harmonize_blockset, harmonize_float_types, retype_outputs_fp32).
THEOREM IslandsAreExact == BuildersSpec /\ program = variant => []IslandIsExact
<1>1. CASE variant \in DOMAIN Repairs
  <2>1. HarmInv /\ program = variant => IslandIsExact
    BY <1>1, HarmPromises DEF IslandIsExact, Surgical
  <2> QED BY <1>1, <2>1, HarmonizerRuns, HarmKept, ProgramStays, PTL
<1>2. CASE variant \notin DOMAIN Repairs
  <2>1. program = variant => IslandIsExact BY <1>2 DEF IslandIsExact
  <2> QED BY <2>1, ProgramStays, PTL
<1> QED BY <1>1, <1>2

============================================================================
