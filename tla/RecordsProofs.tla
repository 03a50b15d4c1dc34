--------------------------- MODULE RecordsProofs ---------------------------
(***************************************************************************)
(* Proofs about what is recorded of a model: the report file that is put   *)
(* in place at once (ReportFile), the assembly of a release                *)
(* (ReleaseAssembly), the evaluation of one artifact (EvaluationRun), the  *)
(* benchmark of several (BenchmarkRun), the chain of stages that are       *)
(* compared (ArtifactLineage) and the sweep over operating points          *)
(* (PresetSweep).  The report file is extended, the others are instances   *)
(* of the suite, whose variant is any; no theorem is about two of them,    *)
(* but for the property they share.                                        *)
(***************************************************************************)
EXTENDS MCRecords, Integers, SequenceTheorems, FiniteSetTheorems,
        WellFoundedInduction, TLAPS

CONSTANT variant    \* the program a theorem is about

------------------------------
(* The suite: a behaviour that begins as a program stays one, and is a
   behaviour of that program's own specification. *)

LEMMA ProgramStays == RecordsSpec /\ program = variant => [](program = variant)
<1>1. program = variant /\ [RecordsNext]_RecordsVars => (program = variant)'
  <2> SUFFICES ASSUME program = variant, [RecordsNext]_RecordsVars
               PROVE  program' = program
    OBVIOUS
  <2>1. CASE RecordsNext
    BY <2>1 DEF RecordsNext, ReportSteps, EvaluationSteps, BenchmarkSteps, LineageSteps,
                SweepSteps, ReleaseSteps
  <2>2. CASE UNCHANGED RecordsVars BY <2>2 DEF RecordsVars
  <2> QED BY <2>1, <2>2
<1> QED BY <1>1, PTL DEF RecordsSpec

LEMMA ReleaseRuns ==
    variant \in DOMAIN Releases => (RecordsSpec /\ program = variant => Release(variant)!Spec)
<1> SUFFICES ASSUME variant \in DOMAIN Releases
             PROVE  RecordsSpec /\ program = variant => Release(variant)!Spec
  OBVIOUS
<1>1. RecordsInit /\ program = variant => Release(variant)!Init
  <2> SUFFICES ASSUME RecordsInit, program = variant
               PROVE  Release(variant)!Init
    OBVIOUS
  <2>1. ReleaseBegins
    BY NamesAssumption
       DEF RecordsInit, ReportBegins, EvaluationBegins, BenchmarkBegins, LineageBegins,
           SweepBegins
  <2> QED BY <2>1 DEF ReleaseBegins
<1>2. program = variant /\ [RecordsNext]_RecordsVars
    => [Release(variant)!Next]_(Release(variant)!vars)
  <2> SUFFICES ASSUME program = variant, [RecordsNext]_RecordsVars
               PROVE  [Release(variant)!Next]_(Release(variant)!vars)
    OBVIOUS
  <2>1. CASE RecordsNext
    <3>1. ReleaseSteps
      BY <2>1, NamesAssumption
         DEF RecordsNext, ReportSteps, EvaluationSteps, BenchmarkSteps, LineageSteps,
             SweepSteps
    <3> QED BY <3>1 DEF ReleaseSteps
  <2>2. CASE UNCHANGED RecordsVars BY <2>2 DEF RecordsVars, Release!vars
  <2> QED BY <2>1, <2>2
<1> QED BY <1>1, <1>2, ProgramStays, PTL DEF RecordsSpec, Release!Spec

LEMMA EvaluationRuns ==
    variant \in DOMAIN Evaluations => (RecordsSpec /\ program = variant => Evaluation(variant)!Spec)
<1> SUFFICES ASSUME variant \in DOMAIN Evaluations
             PROVE  RecordsSpec /\ program = variant => Evaluation(variant)!Spec
  OBVIOUS
<1>1. RecordsInit /\ program = variant => Evaluation(variant)!Init
  <2> SUFFICES ASSUME RecordsInit, program = variant
               PROVE  Evaluation(variant)!Init
    OBVIOUS
  <2>1. EvaluationBegins
    BY NamesAssumption
       DEF RecordsInit, ReportBegins, BenchmarkBegins, LineageBegins, SweepBegins,
           ReleaseBegins
  <2> QED BY <2>1 DEF EvaluationBegins
<1>2. program = variant /\ [RecordsNext]_RecordsVars
    => [Evaluation(variant)!Next]_(Evaluation(variant)!vars)
  <2> SUFFICES ASSUME program = variant, [RecordsNext]_RecordsVars
               PROVE  [Evaluation(variant)!Next]_(Evaluation(variant)!vars)
    OBVIOUS
  <2>1. CASE RecordsNext
    <3>1. EvaluationSteps
      BY <2>1, NamesAssumption
         DEF RecordsNext, ReportSteps, BenchmarkSteps, LineageSteps, SweepSteps,
             ReleaseSteps
    <3> QED BY <3>1 DEF EvaluationSteps
  <2>2. CASE UNCHANGED RecordsVars
    BY <2>2 DEF RecordsVars, Evaluation!vars
  <2> QED BY <2>1, <2>2
<1> QED BY <1>1, <1>2, ProgramStays, PTL DEF RecordsSpec, Evaluation!Spec

LEMMA BenchmarkRuns ==
    variant \in DOMAIN Benchmarks => (RecordsSpec /\ program = variant => Benchmark(variant)!Spec)
<1> SUFFICES ASSUME variant \in DOMAIN Benchmarks
             PROVE  RecordsSpec /\ program = variant => Benchmark(variant)!Spec
  OBVIOUS
<1>1. RecordsInit /\ program = variant => Benchmark(variant)!Init
  <2> SUFFICES ASSUME RecordsInit, program = variant
               PROVE  Benchmark(variant)!Init
    OBVIOUS
  <2>1. BenchmarkBegins
    BY NamesAssumption
       DEF RecordsInit, ReportBegins, EvaluationBegins, LineageBegins, SweepBegins,
           ReleaseBegins
  <2> QED BY <2>1 DEF BenchmarkBegins
<1>2. program = variant /\ [RecordsNext]_RecordsVars
    => [Benchmark(variant)!Next]_(Benchmark(variant)!vars)
  <2> SUFFICES ASSUME program = variant, [RecordsNext]_RecordsVars
               PROVE  [Benchmark(variant)!Next]_(Benchmark(variant)!vars)
    OBVIOUS
  <2>1. CASE RecordsNext
    <3>1. BenchmarkSteps
      BY <2>1, NamesAssumption
         DEF RecordsNext, ReportSteps, EvaluationSteps, LineageSteps, SweepSteps,
             ReleaseSteps
    <3> QED BY <3>1 DEF BenchmarkSteps
  <2>2. CASE UNCHANGED RecordsVars
    BY <2>2 DEF RecordsVars, Benchmark!vars
  <2> QED BY <2>1, <2>2
<1> QED BY <1>1, <1>2, ProgramStays, PTL DEF RecordsSpec, Benchmark!Spec

------------------------------
(* ReportFile *)

States == {"check", "exists", "publish", "refused", "published", "failed", "killed"}

Shapes ==
    /\ asked \in [Writer -> Name]
    /\ overwrite \in [Writer -> BOOLEAN]
    /\ target \in [Writer -> Name \cup {Nothing}]
    /\ temp \subseteq Writer
    /\ wpc \in [Writer -> States]

\* No artifact is a symbolic link, nor the target of a writer that passed its check.
Apart ==
    /\ \A n \in Input : link[n] = Nothing
    /\ \A w \in Writer : wpc[w] \in {"exists", "publish"} => target[w] \in Name \ Input

IInv == TypeOK /\ Shapes /\ Apart /\ ArtifactsKept

\* A name without a link resolves to itself, and any name to a name.
LEMMA ResolveIsName ==
    ASSUME link \in [Name -> Name \cup {Nothing}], NEW n \in Name
    PROVE  /\ Resolve(n) \in Name
           /\ link[n] = Nothing => Resolve(n) = n
  BY DEF Resolve

LEMMA InitIInv == Init => IInv
<1> SUFFICES ASSUME Init PROVE IInv
  OBVIOUS
<1>1. /\ Input \subseteq Name /\ Nothing \notin Name BY ReportAssumption
<1>2. TypeOK BY <1>1 DEF Init, TypeOK
<1>3. Shapes BY DEF Init, Shapes, States
<1>4. Apart BY <1>1 DEF Init, Apart
<1>5. ArtifactsKept BY <1>1 DEF Init, ArtifactsKept
<1> QED BY <1>2, <1>3, <1>4, <1>5 DEF IInv

------------------------------
(* The user *)

LEMMA MakeLinkIInv ==
    ASSUME IInv, MakeLink
    PROVE  IInv'
<1>1. PICK n \in Name \ Input, to \in Name :
          /\ to # n /\ Free(n)
          /\ \/ link' = [link EXCEPT ![n] = to] /\ content' = content
             \/ content[to] # Nothing /\ content' = [content EXCEPT ![n] = content[to]]
                /\ link' = link
          /\ UNCHANGED <<asked, overwrite, target, temp, wpc>>
  BY DEF MakeLink
<1>2. /\ content \in [Name -> Input \cup Writer \cup {Nothing}]
      /\ link \in [Name -> Name \cup {Nothing}]
  BY DEF IInv, TypeOK
<1>3. TypeOK' BY <1>1, <1>2 DEF IInv, TypeOK, Free
<1>4. Apart' BY <1>1, <1>2, ReportAssumption DEF IInv, Apart
<1>5. ArtifactsKept'
  BY <1>1, <1>2, ReportAssumption DEF IInv, ArtifactsKept
<1> QED BY <1>1, <1>3, <1>4, <1>5 DEF IInv, Shapes

LEMMA RemoveLinkIInv ==
    ASSUME IInv, RemoveLink
    PROVE  IInv'
<1>1. PICK n \in Name \ Input :
          /\ link' = [link EXCEPT ![n] = Nothing] /\ content' = content
          /\ UNCHANGED <<asked, overwrite, target, temp, wpc>>
  BY DEF RemoveLink
<1>2. link \in [Name -> Name \cup {Nothing}] BY DEF IInv, TypeOK
<1>3. TypeOK' BY <1>1, <1>2 DEF IInv, TypeOK
<1>4. Apart' BY <1>1, <1>2, ReportAssumption DEF IInv, Apart
<1> QED BY <1>1, <1>3, <1>4 DEF IInv, Shapes, ArtifactsKept

------------------------------
(* A writer *)

\* A name that passes the check is not the name of an artifact.
LEMMA CheckIInv ==
    ASSUME IInv, NEW w \in Writer, Check(w)
    PROVE  IInv'
<1>1. /\ link \in [Name -> Name \cup {Nothing}] /\ asked[w] \in Name
      /\ target \in [Writer -> Name \cup {Nothing}] /\ wpc \in [Writer -> States]
  BY DEF IInv, TypeOK, Shapes
<1>2. Resolve(asked[w]) \in Name BY <1>1, ResolveIsName
<1>3. \A n \in Input : Resolve(n) = n
  BY <1>1, ResolveIsName, ReportAssumption DEF IInv, Apart
<1>4. Aliases(w) \/ Resolve(asked[w]) \notin Input BY <1>3 DEF Aliases
<1>5. /\ wpc[w] = "check"
      /\ target' = [target EXCEPT ![w] = Resolve(asked[w])]
      /\ wpc' = [wpc EXCEPT ![w] = IF Aliases(w) THEN "refused" ELSE "exists"]
      /\ UNCHANGED <<content, link, asked, overwrite, temp>>
  BY DEF Check, End
<1>6. w \notin temp BY <1>5 DEF IInv, TypeOK
<1>7. TypeOK' BY <1>1, <1>5, <1>6 DEF IInv, TypeOK, Shapes
<1>8. Shapes' BY <1>1, <1>2, <1>5 DEF IInv, Shapes, States
<1>9. Apart' BY <1>1, <1>2, <1>4, <1>5 DEF IInv, Apart
<1> QED BY <1>5, <1>7, <1>8, <1>9 DEF IInv, ArtifactsKept

LEMMA CheckExistsIInv ==
    ASSUME IInv, NEW w \in Writer, CheckExists(w)
    PROVE  IInv'
<1>1. wpc \in [Writer -> States] BY DEF IInv, Shapes
<1>2. wpc[w] = "exists" /\ target[w] \in Name \ Input
  BY DEF CheckExists, IInv, Apart
<1>3. /\ UNCHANGED <<content, link, asked, overwrite, target>>
      /\ \/ wpc' = [wpc EXCEPT ![w] = "refused"] /\ temp' = temp
         \/ wpc' = [wpc EXCEPT ![w] = "publish"] /\ temp' = temp \cup {w}
  BY DEF CheckExists, End
<1>4. w \notin temp BY <1>2 DEF IInv, TypeOK
<1>5. TypeOK' BY <1>1, <1>2, <1>3, <1>4 DEF IInv, TypeOK, Shapes
<1>6. Shapes' BY <1>1, <1>3 DEF IInv, Shapes, States
<1>7. Apart' BY <1>1, <1>2, <1>3 DEF IInv, Apart
<1> QED BY <1>3, <1>5, <1>6, <1>7 DEF IInv, ArtifactsKept

\* Whatever a publication does happens at the target, which is no artifact.
LEMMA PublishIInv ==
    ASSUME IInv, NEW w \in Writer, Publish(w)
    PROVE  IInv'
<1>1. /\ wpc \in [Writer -> States]
      /\ content \in [Name -> Input \cup Writer \cup {Nothing}]
      /\ link \in [Name -> Name \cup {Nothing}]
  BY DEF IInv, Shapes, TypeOK
<1>2. wpc[w] = "publish" /\ target[w] \in Name \ Input
  BY DEF Publish, IInv, Apart
<1>3. /\ UNCHANGED <<asked, overwrite, target, temp>>
      /\ \/ wpc' = [wpc EXCEPT ![w] = "published"]
         \/ wpc' = [wpc EXCEPT ![w] = "failed"]
      /\ \/ UNCHANGED <<content, link>>
         \/ /\ content' = [content EXCEPT ![target[w]] = w]
            /\ \/ link' = [link EXCEPT ![target[w]] = Nothing]
               \/ link' = link /\ Free(target[w])
  BY DEF Publish, Replace, Link, End
<1>4. TypeOK' BY <1>1, <1>2, <1>3 DEF IInv, TypeOK, Shapes, Free
<1>5. Shapes' BY <1>1, <1>3 DEF IInv, Shapes, States
<1>6. Apart' BY <1>1, <1>2, <1>3, ReportAssumption DEF IInv, Apart
<1>7. ArtifactsKept'
  BY <1>1, <1>2, <1>3, ReportAssumption DEF IInv, ArtifactsKept
<1> QED BY <1>4, <1>5, <1>6, <1>7 DEF IInv

LEMMA UnlinkIInv ==
    ASSUME IInv, NEW w \in Writer, Unlink(w)
    PROVE  IInv'
  BY DEF Unlink, IInv, TypeOK, Shapes, Apart, ArtifactsKept

LEMMA KillIInv ==
    ASSUME IInv, NEW w \in Writer, Kill(w)
    PROVE  IInv'
<1>1. /\ wpc \in [Writer -> States] /\ wpc' = [wpc EXCEPT ![w] = "killed"]
      /\ UNCHANGED <<content, link, asked, overwrite, target, temp>>
  BY DEF Kill, End, IInv, Shapes
<1>2. TypeOK' BY <1>1 DEF IInv, TypeOK, Shapes
<1>3. Shapes' /\ Apart' BY <1>1 DEF IInv, Shapes, Apart, States
<1> QED BY <1>1, <1>2, <1>3 DEF IInv, ArtifactsKept

LEMMA StutterIInv == IInv /\ UNCHANGED vars => IInv'
  BY DEF vars, IInv, TypeOK, Shapes, Apart, ArtifactsKept

------------------------------
(* Theorems *)

\* The invariant is inductive.
THEOREM ReportInvariant == Spec => []IInv
<1>1. IInv /\ [Next]_vars => IInv'
  BY MakeLinkIInv, RemoveLinkIInv, CheckIInv, CheckExistsIInv, PublishIInv, UnlinkIInv,
     KillIInv, StutterIInv DEF Next, Step
<1> QED BY InitIInv, <1>1, PTL DEF Spec

\* Every entry is free, a file or a link, and temporary files belong to writers past their checks.
THEOREM ReportTypes == Spec => []TypeOK
<1>1. IInv => TypeOK BY DEF IInv
<1> QED BY ReportInvariant, <1>1, PTL

\* No report ever takes the place of an artifact, whatever links come and go (paths_alias).
THEOREM ReportKeepsArtifacts == Spec => []ArtifactsKept
<1>1. IInv => ArtifactsKept BY DEF IInv
<1> QED BY ReportInvariant, <1>1, PTL

\* A writer without --overwrite publishes only where nothing is (os.link).
THEOREM ReportReplacesNothing == Spec => NothingReplaced
<1>1. IInv /\ [Next]_vars =>
          [\A w \in Writer : (wpc'[w] = "published" /\ wpc[w] # "published" /\ ~overwrite[w])
                             => Free(target[w])]_vars
  <2> SUFFICES ASSUME IInv, Next, NEW w \in Writer,
                      wpc'[w] = "published", wpc[w] # "published", ~overwrite[w]
               PROVE  Free(target[w])
    OBVIOUS
  <2>1. wpc \in [Writer -> States] BY DEF IInv, Shapes
  <2>2. PICK v \in Writer : Step(v) \/ Kill(v)
    BY DEF Next, MakeLink, RemoveLink
  <2>3. Publish(v) /\ v = w
    BY <2>1, <2>2 DEF Step, Check, CheckExists, Publish, Unlink, Kill, End, Replace, Link
  <2> QED BY <2>1, <2>3 DEF Publish, Link, End
<1> QED BY ReportInvariant, <1>1, PTL DEF Spec, NothingReplaced

------------------------------
(* ReleaseAssembly *)

Contents == Release(variant)!Content \cup Release(variant)!Wheel \cup {Nothing}
Dir == {d \in [Release(variant)!Payload -> Contents] :
           \A f \in Release(variant)!Model : d[f] \in Release(variant)!Content \cup {Nothing}}

Snapshots ==
    {s \in [before : Contents \X Contents, graph : Release(variant)!Content \cup {Nothing},
            facts : Release(variant)!Content \cup {Nothing}] :
           s.facts # Nothing => s.graph # Nothing}

ReleaseTypes ==
    /\ input \in [Release(variant)!Payload -> Contents]
    /\ \A f \in Release(variant)!Model : input[f] \in Release(variant)!Content
    /\ pending = Nothing \/ pending \in [sidecar : Release(variant)!Content,
                                         backup : Release(variant)!Content]
    /\ conversion = Nothing \/ conversion \in Snapshots
    /\ publications \in 0 .. Releases[variant].max_publications
    /\ pc \in [Releases[variant].assemblers -> {"idle", "copy", "validate", "hash", "recheck",
                                                "replace", "cleanup"}]
    /\ staging \in [Releases[variant].assemblers -> Dir]
    /\ sums \in [Releases[variant].assemblers -> Dir]
    /\ frozen \in [Releases[variant].assemblers -> BOOLEAN]

\* The contents of the input directory, the staging directories, a publication, a conversion.
Existing ==
    {c \in Release(variant)!Content :
        \/ pending # Nothing /\ c \in {pending.sidecar, pending.backup}
        \/ conversion # Nothing /\ c = conversion.facts
        \/ \E f \in Release(variant)!Model : input[f] = c
        \/ \E a \in Releases[variant].assemblers, f \in Release(variant)!Model : staging[a][f] = c}

\* What is known of two contents: of one FP32 publication there is one checkpoint,
\* and a conversion says that of the sidecar it took the facts from.
Coherent(c, d) ==
    /\ c.recipe = "op19" /\ d.recipe = "op19" /\ c.made = d.made => c.official = d.official
    /\ c.recipe = "slim" /\ d.recipe = "op19" /\ c.facts = d.made => c.official = d.official

\* What is read, published and put back as an FP32 artifact is one.
PairInv ==
    /\ input["op19.onnx"].recipe = "op19" /\ input["op19.json"].recipe = "op19"
    /\ pending # Nothing /\ pending.sidecar.recipe = "op19" => pending.backup.recipe = "op19"
    /\ conversion # Nothing /\ conversion.facts # Nothing => conversion.facts.recipe = "op19"

ContentInv ==
    /\ \A c \in Existing : c.made <= publications + 1 /\ c.facts <= publications + 1
    /\ \A c, d \in Existing : Coherent(c, d)

\* What an assembly has validated stays as it is until it is renamed.
Fit(d, pinned) ==
    /\ d \in Dir
    /\ d["wheel"] = "good"
    /\ IF pinned THEN Release(variant)!FrozenMatches(d) ELSE Release(variant)!PackValid(d)
    /\ \A f \in Release(variant)!Payload : d[f] # Nothing
    /\ d["slim.json"].from = d["slim.json"].facts => d["op19.onnx"].official

AssemblyInv ==
    \A a \in Releases[variant].assemblers :
        /\ pc[a] \in {"hash", "recheck", "replace"} => Fit(staging[a], frozen[a])
        /\ pc[a] \in {"recheck", "replace"} => sums[a] = staging[a]

\* A manifest is one that was shipped, of exactly the files it was shipped with.
SumsInv(r) ==
    /\ r.files \in [Release(variant)!Payload -> Contents]
    /\ r.sums = Nothing \/ \E s \in shipped : r.sums = s.sums

ShippedInv ==
    /\ \A s \in shipped : Fit(s.files, s.frozen) /\ s.sums = s.files
    /\ out # Nothing => \E s \in shipped : out.files = s.files /\ out.sums = s.sums
    /\ SumsInv(release)
    /\ download # Nothing => SumsInv(download)
    /\ verified => \E s \in shipped : s.files = download.files /\ s.sums = download.sums

ReleaseInv == ReleaseTypes /\ PairInv /\ ContentInv /\ AssemblyInv /\ ShippedInv

LEMMA ReleaseFacts ==
    ASSUME Release(variant)!AssemblyAssumption
    PROVE  /\ Releases[variant].max_publications \in Nat
           /\ Nothing \notin Release(variant)!Content /\ Nothing \notin Release(variant)!Wheel
           /\ Release(variant)!EmptyDir \in Dir
           /\ \A f \in Release(variant)!Model :
              Release(variant)!FROZEN_MODEL_PACK[f] \in Release(variant)!Content
           /\ Release(variant)!FROZEN_MODEL_PACK["op19.onnx"].official
           /\ Release(variant)!Number = 0 .. Releases[variant].max_publications + 1
           /\ \A c \in Release(variant)!Content :
                 /\ c.made \in Release(variant)!Number /\ c.facts \in Release(variant)!Number
                 /\ c.recipe \in {"op19", "slim"} /\ c.official \in BOOLEAN
                    /\ c.tools \in Releases[variant].tools
<1>1. /\ Releases[variant].max_publications \in Nat
      /\ Nothing \notin Release(variant)!Content /\ Nothing \notin Release(variant)!Wheel
  BY DEF Release!AssemblyAssumption
<1>2. Release(variant)!EmptyDir \in Dir
  BY DEF Release!EmptyDir, Dir, Contents, Release!Payload
<1>3. (CHOOSE t \in Releases[variant].tools : TRUE) \in Releases[variant].tools
  BY DEF Release!AssemblyAssumption
<1>4. 0 \in 0 .. Releases[variant].max_publications + 1
    /\ 1 \in 0 .. Releases[variant].max_publications + 1
  BY <1>1
<1>5. ASSUME NEW f \in Release(variant)!Model
      PROVE  /\ Release(variant)!FROZEN_MODEL_PACK[f] \in Release(variant)!Content
             /\ Release(variant)!FROZEN_MODEL_PACK[f].official
  BY <1>3, <1>4 DEF Release!FROZEN_MODEL_PACK, Release!Content, Release!Made, Release!Number
<1>6. ASSUME NEW c \in Release(variant)!Content
      PROVE  /\ c.made \in Release(variant)!Number /\ c.facts \in Release(variant)!Number
             /\ c.recipe \in {"op19", "slim"} /\ c.official \in BOOLEAN
                /\ c.tools \in Releases[variant].tools
  BY DEF Release!Content
<1> QED BY <1>1, <1>2, <1>5, <1>6 DEF Release!Model, Release!Number

LEMMA InitRelease ==
    ASSUME Release(variant)!AssemblyAssumption, Release(variant)!Init PROVE ReleaseInv
<1>1. ReleaseTypes
  BY ReleaseFacts
     DEF Release!Init, ReleaseTypes, Contents, Release!Payload, Release!Model
<1>2. \A f \in Release(variant)!Model : input[f] = Release(variant)!FROZEN_MODEL_PACK[f]
  BY DEF Release!Init, Release!Payload, Release!Model
<1>3. input["op19.onnx"] = input["op19.json"] /\ input["op19.onnx"].recipe = "op19"
  BY <1>2 DEF Release!FROZEN_MODEL_PACK, Release!Made, Release!Recipe, Release!Model
<1>4. PairInv BY <1>3 DEF PairInv, Release!Init
<1>5. \A c \in Existing : \E f \in Release(variant)!Model :
    c = Release(variant)!FROZEN_MODEL_PACK[f]
  BY <1>2, ReleaseFacts DEF Existing, Release!Init, Release!EmptyDir, Release!Payload
<1>6. \A f \in Release(variant)!Model :
        LET c == Release(variant)!FROZEN_MODEL_PACK[f] IN
        /\ c.official = TRUE /\ c.made \in {0, 1} /\ c.facts = 0
  BY DEF Release!FROZEN_MODEL_PACK, Release!Made
<1>7. ContentInv
  <2>1. \A c \in Existing : c.official = TRUE /\ c.made \in {0, 1} /\ c.facts = 0
    BY <1>5, <1>6
  <2>2. publications = 0 BY DEF Release!Init
  <2>3. \A c \in Existing : c.made <= publications + 1 /\ c.facts <= publications + 1
    BY <2>1, <2>2
  <2>4. ASSUME NEW c \in Existing, NEW d \in Existing PROVE Coherent(c, d)
    <3>1. c.official = d.official BY <2>1
    <3> QED BY <3>1 DEF Coherent
  <2> QED BY <2>3, <2>4 DEF ContentInv
<1>8. AssemblyInv BY DEF AssemblyInv, Release!Init
<1>9. ShippedInv
  <2>1. release.files \in [Release(variant)!Payload -> Contents] /\ release.sums = Nothing
    BY ReleaseFacts DEF Release!Init, Dir
  <2> QED BY <2>1 DEF ShippedInv, SumsInv, Release!Init
<1> QED BY <1>1, <1>4, <1>7, <1>8, <1>9 DEF ReleaseInv
\* What admission finds out of a directory whose files are of what there is.
LEMMA AdmittedFits ==
    ASSUME Release(variant)!AssemblyAssumption, ReleaseTypes, ContentInv,
           NEW a \in Releases[variant].assemblers,
           Release(variant)!Admitted(a, staging[a])
    PROVE  Fit(staging[a], frozen[a])
<1> DEFINE d == staging[a]
<1>1. d \in Dir /\ d["wheel"] = "good"
  BY DEF ReleaseTypes, Release!Admitted, Release!WheelValid
<1>2. Nothing # "good" BY ReleaseFacts DEF Release!Wheel
<1>3. CASE frozen[a]
  <2>1. \A f \in Release(variant)!Model : d[f] = Release(variant)!FROZEN_MODEL_PACK[f]
    BY <1>3 DEF Release!Admitted, Release!FrozenMatches
  <2>2. d["op19.onnx"].official /\ \A f \in Release(variant)!Model : d[f] # Nothing
    BY <2>1, ReleaseFacts DEF Release!Model
  <2> QED
    BY <1>1, <1>2, <1>3, <2>1, <2>2
       DEF Fit, Release!Payload, Release!FrozenMatches
<1>4. CASE ~frozen[a]
  <2>1. Release(variant)!PackValid(d) BY <1>4 DEF Release!Admitted
  <2>2. \A f \in Release(variant)!Model : d[f] # Nothing
    BY <2>1 DEF Release!PackValid, Release!SidecarValid, Release!GraphValid, Release!Model
  <2>3. d["slim.json"] \in Existing /\ d["op19.onnx"] \in Existing
    BY <1>1, <2>2 DEF Existing, Dir, Release!Model
  <2>4. /\ d["slim.json"].recipe = "slim" /\ d["op19.onnx"].recipe = "op19"
        /\ d["slim.json"].official /\ d["slim.json"].from = d["op19.onnx"].made
    BY <2>1 DEF Release!PackValid, Release!SidecarValid, Release!GraphValid, Release!SourceMatches,
                Release!Recipe
  <2>5. d["slim.json"].from = d["slim.json"].facts => d["op19.onnx"].official
    BY <2>3, <2>4, ReleaseFacts, ZenonT(60) DEF ContentInv, Coherent, Existing
  <2> QED BY <1>1, <1>2, <1>4, <2>1, <2>2, <2>5 DEF Fit, Release!Payload
<1> QED BY <1>3, <1>4

\* A step that adds no content, or one publication.
LEMMA ContentStep ==
    ASSUME Release(variant)!AssemblyAssumption, ReleaseTypes, ContentInv,
           \/ Existing' \subseteq Existing /\ publications' = publications
           \/ \E c \in Release(variant)!Content :
                 /\ Existing' \subseteq Existing \cup {c}
                 /\ publications' = publications + 1
                 /\ c.made = publications + 2
                 /\ \/ c.recipe = "op19" /\ c.facts = publications + 2
                    \/ \E g \in Existing : c.recipe = "slim" /\ g.recipe = "op19"
                                           /\ c.facts = g.made /\ c.official = g.official
    PROVE  ContentInv'
<1>1. publications \in Nat BY ReleaseFacts DEF ReleaseTypes
<1>2. \A c \in Existing : c.made \in Nat /\ c.facts \in Nat /\ c.recipe \in {"op19", "slim"}
  BY ReleaseFacts DEF Existing
<1>3. CASE Existing' \subseteq Existing /\ publications' = publications
  BY <1>3 DEF ContentInv, Coherent
<1>4. ASSUME NEW c \in Release(variant)!Content,
             Existing' \subseteq Existing \cup {c},
             publications' = publications + 1,
             c.made = publications + 2,
             \/ c.recipe = "op19" /\ c.facts = publications + 2
             \/ \E g \in Existing : c.recipe = "slim" /\ g.recipe = "op19"
                                    /\ c.facts = g.made /\ c.official = g.official
      PROVE  ContentInv'
  <2>1. ASSUME NEW d \in Existing
        PROVE  /\ Coherent(c, d) /\ Coherent(d, c) /\ Coherent(c, c)
               /\ d.made <= publications' + 1 /\ d.facts <= publications' + 1
    <3>1. d.made <= publications + 1 /\ d.facts <= publications + 1
      BY DEF ContentInv
    <3>2. Coherent(d, c) /\ Coherent(c, c)
      BY <1>1, <1>2, <1>4, <3>1 DEF Coherent
    <3>3. CASE c.recipe = "op19" /\ c.facts = publications + 2
      BY <1>1, <1>2, <1>4, <3>1, <3>2, <3>3 DEF Coherent
    <3>4. CASE \E g \in Existing : c.recipe = "slim" /\ g.recipe = "op19"
                                   /\ c.facts = g.made /\ c.official = g.official
      <4>1. PICK g \in Existing : c.recipe = "slim" /\ g.recipe = "op19"
                                  /\ c.facts = g.made /\ c.official = g.official
        BY <3>4
      <4>2. Coherent(g, d) BY DEF ContentInv
      <4> QED BY <1>1, <1>2, <1>4, <3>1, <3>2, <4>1, <4>2 DEF Coherent
    <3> QED BY <1>4, <3>3, <3>4
  <2>2. c.made <= publications' + 1 /\ c.facts <= publications' + 1 /\ Coherent(c, c)
    BY <1>1, <1>2, <1>4, <2>1 DEF ContentInv, Coherent
  <2> QED BY <1>1, <1>4, <2>1, <2>2 DEF ContentInv
<1> QED BY <1>3, <1>4

\* The constants and the input directory, as the producers' steps use them.
LEMMA InputTypes ==
    ASSUME Release(variant)!AssemblyAssumption, ReleaseInv
    PROVE  /\ ReleaseTypes /\ PairInv /\ ContentInv /\ AssemblyInv /\ ShippedInv
           /\ input \in [Release(variant)!Payload -> Contents]
           /\ \A f \in Release(variant)!Model :
                 input[f] \in Release(variant)!Content /\ f \in Release(variant)!Payload
           /\ publications \in 0 .. Releases[variant].max_publications
           /\ Releases[variant].max_publications \in Nat
           /\ Nothing \notin Release(variant)!Content
           /\ {"op19.json", "op19.onnx", "slim.json", "slim.onnx"} = Release(variant)!Model
BY ReleaseFacts DEF ReleaseInv, ReleaseTypes, Release!Model, Release!Payload

\* One graph of a publication that begins.
LEMMA PublishStep ==
    ASSUME Release(variant)!AssemblyAssumption, ReleaseInv,
           NEW recipe \in {"op19", "slim"}, NEW src \in Release(variant)!Number,
           NEW facts \in Release(variant)!Number, NEW official \in BOOLEAN,
           NEW tools \in Releases[variant].tools,
           Release(variant)!Publish(recipe, src, facts, official, tools),
           conversion' \in {conversion, Nothing},
           \/ recipe = "op19" /\ facts = publications + 2
           \/ recipe = "slim" /\ \E g \in Existing : g.recipe = "op19" /\ facts = g.made
                                                    /\ official = g.official
    PROVE  ReleaseInv'
<1> DEFINE f == IF recipe = "op19" THEN "op19.onnx" ELSE "slim.onnx"
           c == Release(variant)!Made(recipe, publications + 2, src, facts, official, tools)
           new == [sidecar |-> c, backup |-> input[f]]
<1>1. /\ pending = Nothing /\ publications < Releases[variant].max_publications
      /\ publications' = publications + 1
      /\ input' = [input EXCEPT ![f] = c]
      /\ pending' = new
      /\ UNCHANGED <<pc, staging, copied, frozen, sums>> /\ UNCHANGED <<out, shipped>>
      /\ UNCHANGED <<release, download, verified>>
  BY DEF Release!Publish, Release!Graph, Release!assemblers, Release!published
<1>2. c \in Release(variant)!Content /\ c.recipe = recipe /\ c.made = publications + 2
      /\ c.facts = facts /\ c.official = official
  <2>1. publications + 2 \in Release(variant)!Number
    BY <1>1, InputTypes, ReleaseFacts
  <2> QED BY <2>1 DEF Release!Made, Release!Content
<1>3. f \in Release(variant)!Model /\ f \in {"op19.onnx", "slim.onnx"}
      /\ f # "op19.json" /\ (f = "op19.onnx" <=> recipe = "op19")
  BY DEF Release!Model
<1> HIDE DEF f, c
<1>4. /\ new.sidecar = c /\ new.backup = input[f] /\ input[f] \in Release(variant)!Content
      /\ new \in [sidecar : Release(variant)!Content, backup : Release(variant)!Content]
  BY <1>2, <1>3, InputTypes
<1> HIDE DEF new
<1>5. AssemblyInv' /\ ShippedInv'
  BY <1>1, InputTypes DEF AssemblyInv, ShippedInv, SumsInv
<1>6. /\ input'[f] = c /\ \A g \in Release(variant)!Payload \ {f} : input'[g] = input[g]
      /\ input' \in [Release(variant)!Payload -> Contents]
  BY <1>1, <1>2, <1>3, InputTypes DEF Contents
<1>7. ReleaseTypes'
  <2>1. publications' \in 0 .. Releases[variant].max_publications
    BY <1>1, InputTypes
  <2>2. \A g \in Release(variant)!Model : input'[g] \in Release(variant)!Content
    BY <1>2, <1>6, InputTypes
  <2> QED BY <1>1, <1>4, <1>6, <2>1, <2>2, InputTypes DEF ReleaseTypes, Contents, Dir
<1>8. PairInv' BY <1>1, <1>2, <1>3, <1>4, <1>6, InputTypes DEF PairInv
<1>9. Existing' \subseteq Existing \cup {c}
  BY <1>1, <1>3, <1>4, <1>6, InputTypes DEF Existing
<1>10. ContentInv' BY <1>1, <1>2, <1>9, InputTypes, ContentStep
<1> QED BY <1>5, <1>7, <1>8, <1>10 DEF ReleaseInv

\* What the producers write.
LEMMA ProducersStep ==
    ASSUME Release(variant)!AssemblyAssumption, ReleaseInv,
           \/ Release(variant)!Export \/ Release(variant)!PublishSidecar
           \/ Release(variant)!PublishFails \/ Release(variant)!Convert
    PROVE  ReleaseInv'
<1>1. ASSUME UNCHANGED <<pc, staging, copied, frozen, sums>>, UNCHANGED <<out, shipped>>,
             UNCHANGED <<release, download, verified>>
      PROVE  AssemblyInv' /\ ShippedInv'
  BY <1>1, InputTypes DEF AssemblyInv, ShippedInv, SumsInv
<1>2. CASE Release(variant)!Export
  <2>1. PICK official \in BOOLEAN, tools \in Releases[variant].tools :
          Release(variant)!Publish("op19", publications + 2, publications + 2, official, tools)
    BY <1>2 DEF Release!Export
  <2>2. conversion' = conversion BY <1>2 DEF Release!Export
  <2>3. publications + 2 \in Release(variant)!Number
    BY <2>1, InputTypes, ReleaseFacts DEF Release!Publish
  <2> QED BY <2>1, <2>2, <2>3, PublishStep
<1>3. CASE Release(variant)!Convert
  <2> DEFINE g == conversion.graph
             facts == conversion.facts
  <2>1. /\ conversion # Nothing /\ facts # Nothing /\ conversion' = Nothing
        /\ Release(variant)!Publish("slim", g.made, facts.made, facts.official, facts.tools)
    BY <1>3 DEF Release!Convert
  <2>2. g \in Release(variant)!Content /\ facts \in Release(variant)!Content
        /\ facts.recipe = "op19"
    BY <2>1, InputTypes DEF ReleaseTypes, PairInv, Snapshots
  <2>3. facts \in Existing BY <2>1, <2>2 DEF Existing
  <2>4. /\ g.made \in Release(variant)!Number /\ facts.made \in Release(variant)!Number
        /\ facts.official \in BOOLEAN /\ facts.tools \in Releases[variant].tools
    BY <2>2, ReleaseFacts
  <2> HIDE DEF g, facts
  <2> QED BY <2>1, <2>2, <2>3, <2>4, PublishStep
<1>4. CASE Release(variant)!PublishSidecar \/ Release(variant)!PublishFails
  <2>1. /\ pending # Nothing /\ pending' = Nothing /\ UNCHANGED <<conversion, publications>>
        /\ UNCHANGED <<pc, staging, copied, frozen, sums>> /\ UNCHANGED <<out, shipped>>
        /\ UNCHANGED <<release, download, verified>>
    BY <1>4 DEF Release!PublishSidecar, Release!PublishFails, Release!assemblers,
                Release!published
  <2>2. /\ pending.sidecar \in Release(variant)!Content
        /\ pending.backup \in Release(variant)!Content
        /\ pending.sidecar.recipe = "op19" => pending.backup.recipe = "op19"
    BY <2>1, InputTypes DEF ReleaseTypes, PairInv
  <2>3. PICK f \in Release(variant)!Model, c \in Release(variant)!Content :
          /\ c \in {pending.sidecar, pending.backup, input[f]}
          /\ input' = [input EXCEPT ![f] = c]
          /\ f \in {"op19.json", "op19.onnx"} => c.recipe = "op19"
    <3>1. CASE Release(variant)!PublishSidecar
      <4>1. PICK f \in {"op19.json", "slim.json"} :
              /\ f = (IF pending.sidecar.recipe = "op19" THEN "op19.json" ELSE "slim.json")
              /\ input' = [input EXCEPT ![f] = pending.sidecar]
        BY <3>1 DEF Release!PublishSidecar
      <4> QED BY <2>2, <4>1, InputTypes
    <3>2. CASE Release(variant)!PublishFails
      <4>1. PICK f \in {"op19.onnx", "slim.onnx"} :
              /\ f = Release(variant)!Graph(pending.sidecar.recipe)
              /\ input' = input \/ input' = [input EXCEPT ![f] = pending.backup]
        BY <3>2 DEF Release!PublishFails, Release!Graph
      <4>2. f = "op19.onnx" => pending.sidecar.recipe = "op19"
        BY <4>1 DEF Release!Graph
      <4>3. input = [input EXCEPT !["slim.onnx"] = input["slim.onnx"]]
        BY InputTypes
      <4> QED BY <2>2, <4>1, <4>2, <4>3, InputTypes
    <3> QED BY <1>4, <3>1, <3>2
  <2>4. c \in Existing BY <2>1, <2>3, InputTypes DEF Existing
  <2>5. /\ input'[f] = c /\ \A g \in Release(variant)!Payload \ {f} : input'[g] = input[g]
        /\ input' \in [Release(variant)!Payload -> Contents]
    BY <2>3, <2>4, InputTypes DEF Contents
  <2>6. ReleaseTypes'
    BY <2>1, <2>4, <2>5, InputTypes DEF ReleaseTypes, Contents, Dir
  <2>7. PairInv' BY <2>1, <2>3, <2>5, InputTypes DEF PairInv
  <2>8. Existing' \subseteq Existing
    BY <2>1, <2>4, <2>5, InputTypes DEF Existing
  <2> QED BY <1>1, <2>1, <2>6, <2>7, <2>8, InputTypes, ContentStep DEF ReleaseInv
<1> QED BY <1>2, <1>3, <1>4

\* What a converter reads, of the two files of a source one after the other.
LEMMA ReadsStep ==
    ASSUME Release(variant)!AssemblyAssumption, ReleaseInv, NEW new, Release(variant)!Reads(new),
           new = Nothing \/ (new \in Snapshots /\ new.facts \in {input["op19.json"], Nothing})
    PROVE  ReleaseInv'
<1>1. /\ conversion' = new /\ UNCHANGED <<input, pending, publications>>
      /\ UNCHANGED <<pc, staging, copied, frozen, sums>> /\ UNCHANGED <<out, shipped>>
      /\ UNCHANGED <<release, download, verified>>
  BY DEF Release!Reads, Release!assemblers, Release!published
<1>2. AssemblyInv' /\ ShippedInv'
  BY <1>1, InputTypes DEF AssemblyInv, ShippedInv, SumsInv
<1>3. ReleaseTypes' BY <1>1, InputTypes DEF ReleaseTypes, Contents, Dir
<1>4. PairInv' BY <1>1, InputTypes DEF PairInv
<1>5. Existing' \subseteq Existing BY <1>1, InputTypes DEF Existing
<1> QED BY <1>1, <1>2, <1>3, <1>4, <1>5, InputTypes, ContentStep DEF ReleaseInv

LEMMA ConverterStep ==
    ASSUME Release(variant)!AssemblyAssumption, ReleaseInv,
           \/ Release(variant)!ReadIdentities \/ Release(variant)!ReadGraph
           \/ Release(variant)!ReadSidecar \/ Release(variant)!ConvertFails
    PROVE  ReleaseInv'
<1>1. CASE Release(variant)!ReadIdentities
  <2>1. Release(variant)!Identities \in Contents \X Contents
    BY InputTypes DEF Contents, Release!Identities
  <2> DEFINE new == [before |-> Release(variant)!Identities, graph |-> Nothing, facts |-> Nothing]
  <2>2. new \in Snapshots /\ new.facts = Nothing BY <2>1 DEF Snapshots
  <2>3. Release(variant)!Reads(new) BY <1>1 DEF Release!ReadIdentities
  <2> HIDE DEF new
  <2> QED BY <2>2, <2>3, ReadsStep
<1>2. CASE Release(variant)!ReadGraph
  <2> DEFINE new == [conversion EXCEPT !.graph = input["op19.onnx"]]
  <2>1. conversion \in Snapshots /\ conversion.facts = Nothing
    BY <1>2, InputTypes DEF Release!ReadGraph, ReleaseTypes, Snapshots
  <2>2. new \in Snapshots /\ new.facts = Nothing
    BY <2>1, InputTypes DEF Snapshots
  <2>3. Release(variant)!Reads(new) BY <1>2 DEF Release!ReadGraph
  <2> HIDE DEF new
  <2> QED BY <2>2, <2>3, ReadsStep
<1>3. CASE Release(variant)!ReadSidecar
  <2> DEFINE new == [conversion EXCEPT !.facts = input["op19.json"]]
  <2>1. conversion \in Snapshots /\ conversion.graph # Nothing
    BY <1>3, InputTypes DEF Release!ReadSidecar, ReleaseTypes
  <2>2. new \in Snapshots /\ new.facts = input["op19.json"]
    BY <2>1, InputTypes DEF Snapshots
  <2>3. Release(variant)!Reads(new) \/ Release(variant)!Reads(Nothing)
    BY <1>3 DEF Release!ReadSidecar
  <2> HIDE DEF new
  <2> QED BY <2>2, <2>3, ReadsStep
<1>4. CASE Release(variant)!ConvertFails
  BY <1>4, ReadsStep DEF Release!ConvertFails
<1> QED BY <1>1, <1>2, <1>3, <1>4

\* What the assemblers do: nothing that is shipped has another content than what
\* was validated in their own staging directory.
LEMMA AssemblersStep ==
    ASSUME Release(variant)!AssemblyAssumption, ReleaseInv, NEW a \in Releases[variant].assemblers,
           Release(variant)!Run(a)
    PROVE  ReleaseInv'
<1>a. ReleaseTypes /\ PairInv /\ ContentInv /\ AssemblyInv /\ ShippedInv
  BY DEF ReleaseInv
<1>b. /\ input \in [Release(variant)!Payload -> Contents]
      /\ \A f \in Release(variant)!Model : input[f] \in Release(variant)!Content
      /\ staging \in [Releases[variant].assemblers -> Dir]
         /\ sums \in [Releases[variant].assemblers -> Dir]
      /\ frozen \in [Releases[variant].assemblers -> BOOLEAN]
      /\ pc \in [Releases[variant].assemblers -> {"idle", "copy", "validate", "hash", "recheck",
                                                  "replace", "cleanup"}]
      /\ Release(variant)!EmptyDir \in Dir
  BY <1>a, ReleaseFacts DEF ReleaseTypes
<1>1. UNCHANGED <<input, pending, conversion, publications>>
    /\ UNCHANGED <<release, download, verified>>
  BY DEF Release!Run, Release!Assemble, Release!Copy, Release!Validate, Release!WriteSums,
         Release!CheckEmpty, Release!Replace, Release!Cleanup, Release!producers,
         Release!published
<1>2. PairInv' BY <1>a, <1>1 DEF PairInv
<1>3. ASSUME UNCHANGED staging PROVE ContentInv'
  <2>1. Existing' \subseteq Existing BY <1>1, <1>3 DEF Existing
  <2> QED BY <1>a, <1>1, <2>1, ContentStep
<1>4. ASSUME UNCHANGED <<out, shipped>> PROVE ShippedInv'
  BY <1>a, <1>1, <1>4 DEF ShippedInv, SumsInv
<1>5. CASE Release(variant)!Assemble(a) \/ Release(variant)!Cleanup(a)
  <2>1. /\ staging' = [staging EXCEPT ![a] = Release(variant)!EmptyDir]
        /\ pc' = [pc EXCEPT ![a] = pc'[a]] /\ pc'[a] \in {"idle", "copy"}
        /\ sums' \in {sums, [sums EXCEPT ![a] = Release(variant)!EmptyDir]}
        /\ \E other \in BOOLEAN : frozen' = [frozen EXCEPT ![a] = other]
        /\ UNCHANGED <<out, shipped>>
    BY <1>5, <1>b DEF Release!Assemble, Release!Cleanup, Release!Goto
  <2>2. ReleaseTypes' BY <1>a, <1>b, <1>1, <2>1 DEF ReleaseTypes
  <2>3. Existing' \subseteq Existing
    BY <1>b, <1>1, <2>1, ReleaseFacts
       DEF Existing, Release!EmptyDir, Release!Payload, Release!Model
  <2>4. ContentInv' BY <1>a, <1>1, <2>3, ContentStep
  <2>5. \A other \in Releases[variant].assemblers \ {a} :
          pc'[other] = pc[other] /\ staging'[other] = staging[other] /\ sums'[other] = sums[other]
            /\ frozen'[other] = frozen[other]
    BY <1>b, <2>1
  <2>6. AssemblyInv' BY <1>a, <2>1, <2>5 DEF AssemblyInv
  <2> QED BY <1>2, <1>4, <2>1, <2>2, <2>4, <2>6 DEF ReleaseInv
<1>6. CASE Release(variant)!Copy(a)
  <2> DEFINE f == IF copied[a] < Len(Releases[variant].order)
      THEN Releases[variant].order[copied[a] + 1] ELSE "wheel"
  <2>1. /\ staging' = [staging EXCEPT ![a][f] = input[f]]
        /\ pc' = [pc EXCEPT ![a] = IF f = "wheel" THEN "validate" ELSE "copy"]
        /\ UNCHANGED <<sums, frozen, out, shipped>>
    BY <1>6 DEF Release!Copy, Release!Goto
  <2> HIDE DEF f
  <2>2. staging'[a] \in Dir
    <3>1. staging'[a] = [staging[a] EXCEPT ![f] = input[f]] /\ staging[a] \in Dir
      BY <1>b, <2>1
    <3>2. staging'[a] \in [Release(variant)!Payload -> Contents]
      BY <1>b, <3>1, ZenonT(60) DEF Dir
    <3>3. \A g \in Release(variant)!Model :
        staging'[a][g] \in Release(variant)!Content \cup {Nothing}
      BY <1>b, <3>1 DEF Dir, Release!Payload
    <3> QED BY <3>2, <3>3 DEF Dir
  <2>3. \A other \in Releases[variant].assemblers \ {a} : pc'[other] = pc[other]
      /\ staging'[other] = staging[other]
    BY <1>b, <2>1
  <2>4. ReleaseTypes' BY <1>a, <1>b, <1>1, <2>1, <2>2 DEF ReleaseTypes
  <2>5. Existing' \subseteq Existing
    BY <1>b, <1>1, <2>1, <2>3 DEF Existing, Dir, Release!Payload
  <2>6. ContentInv' BY <1>a, <1>1, <2>5, ContentStep
  <2>7. AssemblyInv' BY <1>a, <1>b, <2>1, <2>3 DEF AssemblyInv
  <2> QED BY <1>2, <1>4, <2>1, <2>4, <2>6, <2>7 DEF ReleaseInv
<1>7. CASE Release(variant)!Validate(a) \/ Release(variant)!WriteSums(a)
    \/ Release(variant)!CheckEmpty(a)
  <2>1. UNCHANGED <<staging, frozen, out, shipped>>
        /\ sums' \in {sums, [sums EXCEPT ![a] = staging[a]]}
        /\ \E l \in {"hash", "recheck", "replace", "cleanup"} : pc' = [pc EXCEPT ![a] = l]
    BY <1>7 DEF Release!Validate, Release!WriteSums, Release!CheckEmpty, Release!Goto,
                Release!Digests
  <2>2. ReleaseTypes' BY <1>a, <1>b, <1>1, <2>1 DEF ReleaseTypes
  <2>3. \A other \in Releases[variant].assemblers \ {a} : pc'[other] = pc[other]
      /\ sums'[other] = sums[other]
    BY <1>b, <2>1
  <2>4. pc'[a] \in {"hash", "recheck", "replace"} => Fit(staging[a], frozen[a])
    <3>1. CASE Release(variant)!Validate(a)
      BY <1>a, <1>b, <3>1, AdmittedFits
         DEF Release!Validate, Release!Goto, Release!Validated
    <3>2. CASE Release(variant)!WriteSums(a) \/ Release(variant)!CheckEmpty(a)
      BY <1>a, <1>b, <3>2 DEF AssemblyInv, Release!WriteSums, Release!CheckEmpty, Release!Goto
    <3> QED BY <1>7, <3>1, <3>2
  <2>5. pc'[a] \in {"recheck", "replace"} => sums'[a] = staging[a]
    BY <1>a, <1>b, <1>7
       DEF AssemblyInv, Release!Validate, Release!WriteSums, Release!CheckEmpty, Release!Goto,
           Release!Digests
  <2>6. AssemblyInv' BY <1>a, <2>1, <2>3, <2>4, <2>5 DEF AssemblyInv
  <2> QED BY <1>2, <1>3, <1>4, <2>1, <2>2, <2>6 DEF ReleaseInv
<1>8. CASE Release(variant)!Replace(a)
  <2>1. UNCHANGED <<staging, frozen, sums>> /\ pc' = [pc EXCEPT ![a] = "cleanup"]
        /\ pc[a] = "replace"
    BY <1>8 DEF Release!Replace, Release!Goto
  <2>2. ReleaseTypes' BY <1>a, <1>b, <1>1, <2>1 DEF ReleaseTypes
  <2>3. AssemblyInv' BY <1>a, <1>b, <2>1 DEF AssemblyInv
  <2>4. Fit(staging[a], frozen[a]) /\ sums[a] = staging[a]
    BY <1>a, <2>1 DEF AssemblyInv
  <2>5. CASE Release(variant)!MayRename
    <3> DEFINE s == [files |-> staging[a], sums |-> sums[a], frozen |-> frozen[a]]
    <3>1. shipped' = shipped \cup {s} /\ out' = [files |-> staging[a], sums |-> sums[a]]
      BY <1>8, <2>5 DEF Release!Replace
    <3>2. s \in shipped' /\ out'.files = s.files /\ out'.sums = s.sums
          /\ Fit(s.files, s.frozen) /\ s.sums = s.files
      BY <2>4, <3>1
    <3> HIDE DEF s
    <3>3. \A r : SumsInv(r) => SumsInv(r)' BY <3>1 DEF SumsInv
    <3>4. SumsInv(release) => SumsInv(release)'
      BY <1>1, <3>1 DEF SumsInv
    <3>5. SumsInv(download) => SumsInv(download)'
      BY <1>1, <3>1 DEF SumsInv
    <3> QED
      BY <1>2, <1>3, <1>a, <1>1, <2>1, <2>2, <2>3, <3>1, <3>2, <3>4, <3>5 DEF ShippedInv, ReleaseInv
  <2>6. CASE ~Release(variant)!MayRename
    BY <1>2, <1>3, <1>4, <1>8, <2>1, <2>2, <2>3, <2>6 DEF Release!Replace, ReleaseInv
  <2> QED BY <2>5, <2>6
<1> QED BY <1>5, <1>6, <1>7, <1>8 DEF Release!Run

\* What the maintainer does, and who verifies the release.
LEMMA PublishedStep ==
    ASSUME Release(variant)!AssemblyAssumption, ReleaseInv,
           \/ Release(variant)!EmptyOut \/ Release(variant)!UploadSums \/ Release(variant)!Download
              \/ Release(variant)!Verify
           \/ \E f \in Release(variant)!Payload : Release(variant)!Upload(f)
           \/ UNCHANGED Release(variant)!vars
    PROVE  ReleaseInv'
<1>a. ReleaseTypes /\ PairInv /\ ContentInv /\ AssemblyInv /\ ShippedInv
  BY DEF ReleaseInv
<1>1. UNCHANGED <<input, pending, conversion, publications, pc, staging, copied, frozen, sums, shipped>>
  BY DEF Release!EmptyOut, Release!UploadSums, Release!Download, Release!Verify, Release!Upload,
         Release!vars, Release!producers, Release!assemblers
<1>2. Existing' = Existing BY <1>1 DEF Existing
<1>3. ReleaseTypes' /\ PairInv' /\ AssemblyInv'
  BY <1>a, <1>1 DEF ReleaseTypes, PairInv, AssemblyInv
<1>4. ContentInv' BY <1>a, <1>1, <1>2, ContentStep
<1>b. /\ \A s \in shipped : Fit(s.files, s.frozen) /\ s.sums = s.files
      /\ out # Nothing => \E s \in shipped : out.files = s.files /\ out.sums = s.sums
      /\ SumsInv(release)
      /\ download # Nothing => SumsInv(download)
      /\ verified => \E s \in shipped : s.files = download.files /\ s.sums = download.sums
  BY <1>a DEF ShippedInv
<1>5. CASE Release(variant)!EmptyOut \/ UNCHANGED Release(variant)!vars
  <2>1. UNCHANGED <<release, download, verified>> /\ (out' = out \/ out' = Nothing)
    BY <1>5 DEF Release!EmptyOut, Release!vars, Release!published
  <2> QED BY <1>1, <1>3, <1>4, <1>b, <2>1 DEF ShippedInv, SumsInv, ReleaseInv
<1>6. CASE Release(variant)!UploadSums \/ \E f \in Release(variant)!Payload :
    Release(variant)!Upload(f)
  <2>1. UNCHANGED <<out, download, verified>> /\ out # Nothing
    BY <1>6 DEF Release!UploadSums, Release!Upload
  <2>2. PICK s \in shipped : out.files = s.files /\ out.sums = s.sums
    BY <1>b, <2>1
  <2>3. s.files \in [Release(variant)!Payload -> Contents]
    BY <1>b DEF Fit, Dir
  <2>4. SumsInv(release)'
    <3>1. CASE Release(variant)!UploadSums
      <4>1. release' = [release EXCEPT !.sums = out.sums]
        BY <3>1 DEF Release!UploadSums
      <4> QED BY <1>1, <1>b, <2>2, <4>1 DEF SumsInv
    <3>2. CASE \E f \in Release(variant)!Payload : Release(variant)!Upload(f)
      <4>1. PICK f \in Release(variant)!Payload :
          release' = [release EXCEPT !.files[f] = out.files[f]]
        BY <3>2 DEF Release!Upload
      <4>2. out.files[f] \in Contents BY <2>2, <2>3
      <4> QED BY <1>1, <1>b, <4>1, <4>2 DEF SumsInv
    <3> QED BY <1>6, <3>1, <3>2
  <2> QED BY <1>1, <1>3, <1>4, <1>b, <2>1, <2>4 DEF ShippedInv, SumsInv, ReleaseInv
<1>7. CASE Release(variant)!Download
  <2>1. UNCHANGED <<out, release>> /\ download' = release /\ ~verified'
    BY <1>7 DEF Release!Download
  <2> QED BY <1>1, <1>3, <1>4, <1>b, <2>1 DEF ShippedInv, SumsInv, ReleaseInv
<1>8. CASE Release(variant)!Verify
  <2>1. /\ UNCHANGED <<out, release>> /\ download # Nothing
        /\ verified' = (Release(variant)!NamesComplete(download)
                        /\ Release(variant)!DigestsMatch(download))
        /\ download' = IF verified' THEN download ELSE Nothing
    BY <1>8 DEF Release!Verify
  <2>2. ASSUME verified'
        PROVE  \E s \in shipped : s.files = download.files /\ s.sums = download.sums
    <3>1. PICK s \in shipped : download.sums = s.sums
      BY <1>b, <2>1, <2>2 DEF SumsInv, Release!NamesComplete
    <3>2. \A f \in Release(variant)!Payload : download.files[f] = s.files[f]
      BY <1>b, <2>1, <2>2, <3>1 DEF Release!DigestsMatch
    <3>3. download.files \in [Release(variant)!Payload -> Contents]
          /\ s.files \in [Release(variant)!Payload -> Contents]
      BY <1>b, <2>1 DEF SumsInv, Fit, Dir
    <3> QED BY <3>1, <3>2, <3>3
  <2> QED BY <1>1, <1>3, <1>4, <1>b, <2>1, <2>2 DEF ShippedInv, SumsInv, ReleaseInv
<1> QED BY <1>5, <1>6, <1>7, <1>8

LEMMA ReleaseKept == Release(variant)!AssemblyAssumption => (Release(variant)!Spec => []ReleaseInv)
<1> SUFFICES ASSUME Release(variant)!AssemblyAssumption
             PROVE  Release(variant)!Spec => []ReleaseInv
  OBVIOUS
<1>1. Release(variant)!Init => ReleaseInv BY InitRelease
<1>2. ReleaseInv /\ [Release(variant)!Next]_(Release(variant)!vars) => ReleaseInv'
  BY ProducersStep, ConverterStep, AssemblersStep, PublishedStep DEF Release!Next
<1> QED BY <1>1, <1>2, PTL DEF Release!Spec

LEMMA ReleasePromises ==
    ReleaseInv => /\ Release(variant)!ShippedIsAdmitted /\ Release(variant)!Fp32GraphOfficial
                  /\ Release(variant)!OutWhole /\ Release(variant)!VerifiedIsOneAssembly
  BY DEF ReleaseInv, ShippedInv, Fit, Release!ShippedIsAdmitted, Release!Fp32GraphOfficial,
         Release!OutWhole, Release!VerifiedIsOneAssembly, Release!FrozenMatches

LEMMA OutStays == [Release(variant)!Next]_(Release(variant)!vars) => Release(variant)!OutNotReplaced
  BY DEF Release!Next, Release!Run, Release!Assemble, Release!Copy, Release!Validate,
         Release!WriteSums, Release!CheckEmpty, Release!Replace, Release!Cleanup, Release!MayRename,
         Release!Export, Release!Convert, Release!PublishSidecar, Release!PublishFails,
         Release!ReadIdentities, Release!ReadGraph, Release!ReadSidecar, Release!ConvertFails,
         Release!Reads, Release!Publish, Release!EmptyOut,
         Release!Upload, Release!UploadSums, Release!Download, Release!Verify, Release!vars,
         Release!OutNotReplaced

\* Whatever the exports and conversions replace in the input directory between the
\* copy, the validation and the hashing, and however many assemblies and uploads
\* there are: what is shipped was admitted, --out is absent or whole and never replaced
\* by a second assembly, and verify passes only a set that one assembly shipped.  The FP32
\* graph is of the official checkpoint, if the converter that bound it read the graph and the
\* sidecar of one publication.
THEOREM ShippedIsOnePack == RecordsSpec /\ program = variant => ShippedIsAdmitted
<1>1. CASE variant \in DOMAIN Releases
  <2>1. Release(variant)!AssemblyAssumption BY <1>1, PartsAssumption
  <2>2. Release(variant)!Spec => []ReleaseInv BY <2>1, ReleaseKept
  <2>3. RecordsSpec /\ program = variant => Release(variant)!Spec
    BY <1>1, ReleaseRuns
  <2>4. /\ program = variant /\ [Release(variant)!Next]_(Release(variant)!vars) /\ ReleaseInv
           /\ ReleaseInv'
        => \A v \in DOMAIN Releases : program = v =>
             /\ Release(v)!OutNotReplaced
             /\ Release(v)!OutWhole' /\ Release(v)!ShippedIsAdmitted'
                /\ Release(v)!Fp32GraphOfficial'
             /\ Release(v)!VerifiedIsOneAssembly'
    <3>1. ReleaseInv' => /\ Release(variant)!OutWhole' /\ Release(variant)!ShippedIsAdmitted'
                         /\ Release(variant)!Fp32GraphOfficial'
                         /\ Release(variant)!VerifiedIsOneAssembly'
      BY ReleasePromises, PTL
    <3>2. [Release(variant)!Next]_(Release(variant)!vars) => Release(variant)!OutNotReplaced
      BY OutStays
    <3> QED BY <3>1, <3>2
  <2> QED BY <2>2, <2>3, <2>4, ProgramStays, PTL DEF Release!Spec, ShippedIsAdmitted
<1>2. CASE variant \notin DOMAIN Releases
  <2>1. program = variant =>
          \A v \in DOMAIN Releases : program = v =>
             /\ Release(v)!OutNotReplaced
             /\ Release(v)!OutWhole' /\ Release(v)!ShippedIsAdmitted'
                /\ Release(v)!Fp32GraphOfficial'
             /\ Release(v)!VerifiedIsOneAssembly'
    BY <1>2
  <2> QED BY <2>1, ProgramStays, PTL DEF ShippedIsAdmitted
<1> QED BY <1>1, <1>2

------------------------------
(* EvaluationRun: where an evaluation may be *)

EvaluationPhases ==
    {"start", "contract", "load", "image", "inputs", "entry", "written", "failed"} \cup
    IF Evaluations[variant].tool = "python"
      THEN {"lineage", "match", "infer", "transfer", "sync", "decode"}
                       ELSE {"flush", "last"}

\* After the sources were matched.
Matched == {"image", "infer", "transfer", "sync", "decode", "flush", "last", "inputs", "entry",
             "written"}

PhaseInv ==
    /\ pc \in EvaluationPhases
    /\ b \in 1 .. Len(Evaluations[variant].backends) /\ k \in 1 .. Len(Evaluations[variant].images)
    /\ Evaluations[variant].tool = "native" => b = 1

LEMMA EvaluationFacts ==
    ASSUME Evaluation(variant)!EvaluationAssumption
    PROVE  /\ Len(Evaluations[variant].backends) \in Nat /\ Len(Evaluations[variant].images) \in Nat
           /\ Len(Evaluations[variant].backends) >= 1 /\ Len(Evaluations[variant].images) >= 1
           /\ \A j \in 1 .. Len(Evaluations[variant].backends) :
                 Evaluations[variant].backends[j] \in Evaluation(variant)!Backend
                   /\ Evaluations[variant].backends[j] \in {"onnx", "engine"}
           /\ \A a \in Evaluation(variant)!Backend :
              \E j \in 1 .. Len(Evaluations[variant].backends) :
                a = Evaluations[variant].backends[j]
           /\ \A j, l \in 1 .. Len(Evaluations[variant].backends) :
              Evaluations[variant].backends[j] = Evaluations[variant].backends[l] => j = l
           /\ \A j \in 1 .. Len(Evaluations[variant].images) :
              Evaluations[variant].images[j] \in Evaluation(variant)!Image
           /\ \A m \in Evaluation(variant)!Image : \E j \in 1 .. Len(Evaluations[variant].images) :
              m = Evaluations[variant].images[j]
           /\ \A j, l \in 1 .. Len(Evaluations[variant].images) :
              Evaluations[variant].images[j] = Evaluations[variant].images[l] => j = l
           /\ Evaluations[variant].tool \in {"python", "native"}
           /\ Evaluations[variant].tool = "native"
              => Len(Evaluations[variant].backends) = 1 /\ Evaluation(variant)!Backend = {"engine"}
<1>1. Evaluations[variant].backends \in Seq({"onnx", "engine"})
    /\ Evaluations[variant].backends # <<>>
      /\ Evaluations[variant].images \in Seq(Evaluation(variant)!Image)
         /\ Evaluations[variant].images # <<>>
  BY DEF Evaluation!EvaluationAssumption
<1>2. /\ Len(Evaluations[variant].backends) \in Nat /\ Len(Evaluations[variant].backends) >= 1
         /\ DOMAIN Evaluations[variant].backends = 1 .. Len(Evaluations[variant].backends)
      /\ Len(Evaluations[variant].images) \in Nat /\ Len(Evaluations[variant].images) >= 1
         /\ DOMAIN Evaluations[variant].images = 1 .. Len(Evaluations[variant].images)
  BY <1>1
<1>3. /\ \A j, l \in 1 .. Len(Evaluations[variant].backends) :
         Evaluations[variant].backends[j] = Evaluations[variant].backends[l] => j = l
      /\ \A j, l \in 1 .. Len(Evaluations[variant].images) :
         Evaluations[variant].images[j] = Evaluations[variant].images[l] => j = l
  BY <1>2 DEF Evaluation!EvaluationAssumption, Evaluation!IsInjective
<1>4. /\ \A j \in 1 .. Len(Evaluations[variant].backends) :
            Evaluations[variant].backends[j] \in Evaluation(variant)!Backend
              /\ Evaluations[variant].backends[j] \in {"onnx", "engine"}
      /\ \A a \in Evaluation(variant)!Backend : \E j \in 1 .. Len(Evaluations[variant].backends) :
         a = Evaluations[variant].backends[j]
  BY <1>1, <1>2 DEF Evaluation!Backend, Evaluation!Range
<1>5. /\ \A j \in 1 .. Len(Evaluations[variant].images) :
         Evaluations[variant].images[j] \in Evaluation(variant)!Image
      /\ \A m \in Evaluation(variant)!Image : \E j \in 1 .. Len(Evaluations[variant].images) :
         m = Evaluations[variant].images[j]
  BY <1>1, <1>2 DEF Evaluation!Image, Evaluation!Range
<1>6. Evaluations[variant].tool \in {"python", "native"}
  BY DEF Evaluation!EvaluationAssumption
<1>7. ASSUME Evaluations[variant].tool = "native"
      PROVE  Len(Evaluations[variant].backends) = 1 /\ Evaluation(variant)!Backend = {"engine"}
  <2>1. Evaluations[variant].backends = <<"engine">>
    BY <1>7 DEF Evaluation!EvaluationAssumption
  <2>2. Len(Evaluations[variant].backends) = 1 /\ Evaluations[variant].backends[1] = "engine"
    BY <2>1
  <2>3. \A a \in Evaluation(variant)!Backend : a = "engine"
    <3>1. SUFFICES ASSUME NEW a \in Evaluation(variant)!Backend
                   PROVE  a = "engine"
      OBVIOUS
    <3>2. PICK j \in 1 .. Len(Evaluations[variant].backends) : a = Evaluations[variant].backends[j]
      BY <1>4
    <3>3. j = 1 BY <2>2
    <3> QED BY <2>2, <3>2, <3>3
  <2>4. 1 \in 1 .. Len(Evaluations[variant].backends) BY <2>2
  <2>5. Evaluations[variant].backends[1] \in Evaluation(variant)!Backend
    BY <1>4, <2>4
  <2>6. "engine" \in Evaluation(variant)!Backend BY <2>2, <2>5
  <2> QED BY <2>2, <2>3, <2>6
<1> QED BY <1>2, <1>3, <1>4, <1>5, <1>6, <1>7

\* The steps of the other tools and of the device, which the evaluator does not take.
Others ==
    \/ \E a \in Evaluation(variant)!Backend : Evaluation(variant)!Publish(a)
    \/ Evaluation(variant)!PublishSidecar
    \/ \E f \in Evaluation(variant)!DataFile : Evaluation(variant)!Rewrite(f)
    \/ Evaluation(variant)!StreamRuns

LEMMA PhaseStep ==
    ASSUME Evaluation(variant)!EvaluationAssumption, PhaseInv,
           [Evaluation(variant)!Next]_(Evaluation(variant)!vars)
    PROVE  PhaseInv'
<1> USE EvaluationFacts DEF PhaseInv, EvaluationPhases
<1>1. CASE Others \/ UNCHANGED Evaluation(variant)!vars
  BY <1>1 DEF Others, Evaluation!Publish, Evaluation!PublishSidecar, Evaluation!Rewrite,
              Evaluation!StreamRuns, Evaluation!vars
<1>2. CASE Evaluation(variant)!Start \/ Evaluation(variant)!ReadContract \/ Evaluation(variant)!Load
    \/ Evaluation(variant)!HashLineage
           \/ Evaluation(variant)!Match
  BY <1>2 DEF Evaluation!Start, Evaluation!ReadContract, Evaluation!Load, Evaluation!HashLineage,
              Evaluation!Match
<1>3. CASE Evaluation(variant)!ReadImage \/ Evaluation(variant)!ReusableCall
    \/ Evaluation(variant)!Transfer
           \/ Evaluation(variant)!Synchronize
  BY <1>3 DEF Evaluation!ReadImage, Evaluation!ReusableCall, Evaluation!Transfer,
              Evaluation!Synchronize
<1>4. CASE Evaluation(variant)!Decode \/ Evaluation(variant)!RunOnnx
  BY <1>4, SMTT(60) DEF Evaluation!Decode, Evaluation!RunOnnx, Evaluation!Decoded,
     Evaluation!NextImage
<1>5. CASE Evaluation(variant)!SkipImage \/ Evaluation(variant)!TakeImage
    \/ Evaluation(variant)!Flush \/ Evaluation(variant)!FlushLast
           \/ Evaluation(variant)!Fail
  BY <1>5, SMTT(60) DEF Evaluation!SkipImage, Evaluation!TakeImage, Evaluation!Flush,
     Evaluation!FlushLast, Evaluation!Fail, Evaluation!NextImage
<1>6. CASE Evaluation(variant)!EvaluationContract \/ Evaluation(variant)!Incomplete
    \/ Evaluation(variant)!BackendEntry
  BY <1>6 DEF Evaluation!EvaluationContract, Evaluation!Incomplete, Evaluation!BackendEntry
<1> QED BY <1>1, <1>2, <1>3, <1>4, <1>5, <1>6 DEF Others, Evaluation!Next

------------------------------
(* EvaluationRun: the detections and the pixels they come from *)

\* The images that the native binary holds.
Held == {chunk[j] : j \in DOMAIN chunk}

\* The images the evaluator has already given to a backend.
Before == SetUp \cup {"match", "image"}
Past(j) == j < k \/ (j = k /\ pc \notin Before)

SeenInv ==
    /\ \A d \in dets : d.pixels.image = d.image /\ \E j \in 1 .. Len(Evaluations[variant].images) :
       d.image = Evaluations[variant].images[j] /\ Past(j)
    /\ \A d, e \in dets : d.image = e.image => d.pixels = e.pixels

\* The buffers of the engine call are those of the image it is at.
CallInv ==
    /\ pc \in {"infer", "transfer", "sync", "decode"} =>
          x.image = Evaluations[variant].images[k] /\ \A d \in dets :
            d.image = Evaluations[variant].images[k] => d.pixels = x
    /\ pc \in {"transfer", "sync", "decode"} => host = x
    /\ stream => pc = "sync"
    /\ pc = "decode" \/ (pc = "sync" /\ ~stream) => out = x

\* The native binary has run, holds, or has passed over every image before its own.
Covered(m) == m \in resized \/ (\E d \in dets : d.image = m) \/ (\E q \in Held : q.id = m)
ChunkInv ==
    /\ \A q \in Held : /\ q.pixels.image = q.id
                       /\ \E j \in 1 .. Len(Evaluations[variant].images) :
                          q.id = Evaluations[variant].images[j] /\ Past(j)
                       /\ \A d \in dets : d.image # q.id
    /\ \A q, r \in Held : q.id = r.id => q.pixels = r.pixels
    /\ Evaluations[variant].tool = "native" /\ pc # "failed"
       => \A j \in 1 .. Len(Evaluations[variant].images) : Past(j)
         => Covered(Evaluations[variant].images[j])
    /\ pc \in {"inputs", "entry", "written"} => chunk = <<>>
    /\ pc \in {"last", "inputs", "entry", "written"} => k = Len(Evaluations[variant].images)
    /\ Evaluations[variant].tool = "python" => chunk = <<>>

AllSeen == \A m \in Evaluation(variant)!Image : m \in resized \/ \E d \in dets : d.image = m
SettledInv ==
    IF pc \in {"entry", "written"}
    THEN /\ report \in [input : {report.input}, images : {Evaluation(variant)!Image},
                        artifact : {report.artifact}, lineage : {report.lineage}]
         /\ AllSeen
    ELSE report = Nothing

Taken == [id : Evaluation(variant)!Image,
          pixels : [image : Evaluation(variant)!Image, version : Nat]]

PixelsInv ==
    /\ PhaseInv /\ input \in [Evaluation(variant)!DataFile -> Nat] /\ chunk \in Seq(Taken)
    /\ SeenInv /\ CallInv /\ ChunkInv /\ SettledInv

\* A step between two images leaves what was seen as it is.
LEMMA PixelsKept ==
    ASSUME PixelsInv, PhaseInv', UNCHANGED <<k, resized, chunk, dets, report>>,
           input' \in [Evaluation(variant)!DataFile -> Nat],
           \/ pc' = pc
           \/ pc \in Before /\ pc' \in Before
           \/ pc \in {"image", "infer", "flush", "last", "inputs"} \cup Before /\ pc' = "failed"
           \/ {pc, pc'} \subseteq {"infer", "transfer", "sync", "decode"},
           CallInv'
    PROVE  PixelsInv'
<1>a. PhaseInv /\ chunk \in Seq(Taken) /\ SeenInv /\ ChunkInv /\ SettledInv
  BY DEF PixelsInv
<1>1. chunk' \in Seq(Taken) BY <1>a DEF Taken
<1>2. Held' = Held BY DEF Held
<1>3. \A j \in 1 .. Len(Evaluations[variant].images) : Past(j) => Past(j)'
  BY DEF Past, Before, SetUp
<1>4. pc' # "failed" => \A j \in 1 .. Len(Evaluations[variant].images) : Past(j)' => Past(j)
  BY DEF Past, Before, SetUp
<1>5. pc' # pc => pc' \notin {"entry", "written", "last", "inputs"}
    /\ pc \notin {"entry", "written"}
  BY DEF Before, SetUp
<1>6. SeenInv' BY <1>a, <1>3 DEF SeenInv
<1>7. \A m : Covered(m)' <=> Covered(m) BY <1>2 DEF Covered
<1>8. ChunkInv'
  <2>1. \A q \in Held : /\ q.pixels.image = q.id
                        /\ \E j \in 1 .. Len(Evaluations[variant].images) :
                           q.id = Evaluations[variant].images[j] /\ Past(j)'
                        /\ \A d \in dets : d.image # q.id
    BY <1>a, <1>3 DEF ChunkInv
  <2>2. \A q, r \in Held : q.id = r.id => q.pixels = r.pixels
    BY <1>a DEF ChunkInv
  <2>3. Evaluations[variant].tool = "native" /\ pc' # "failed"
      => \A j \in 1 .. Len(Evaluations[variant].images) : Past(j)'
        => Covered(Evaluations[variant].images[j])
    <3>1. pc' # "failed" => pc # "failed" BY DEF Before, SetUp
    <3> QED BY <1>a, <1>4, <3>1 DEF ChunkInv
  <2> QED BY <1>a, <1>2, <1>5, <1>7, <2>1, <2>2, <2>3 DEF ChunkInv
<1>9. SettledInv' BY <1>a, <1>5 DEF SettledInv, AllSeen
<1> QED BY <1>1, <1>6, <1>8, <1>9 DEF PixelsInv

\* A detection of the image the evaluator is at, decoded from its pixels.
LEMMA DecodedStep ==
    ASSUME Evaluation(variant)!EvaluationAssumption, PixelsInv, PhaseInv',
           pc \in {"infer", "decode"}, Evaluation(variant)!Decoded(x),
           UNCHANGED <<input, resized, x, host, out, stream, chunk, report>>
    PROVE  PixelsInv'
<1> DEFINE d0 == [backend |-> Evaluations[variant].backends[b],
                  image |-> Evaluations[variant].images[k], pixels |-> x]
<1>a. PhaseInv /\ input \in [Evaluation(variant)!DataFile -> Nat] /\ chunk \in Seq(Taken)
      /\ SeenInv /\ CallInv /\ ChunkInv /\ SettledInv
  BY DEF PixelsInv
<1>b. Evaluations[variant].tool = "python" /\ chunk = <<>> /\ ~stream
  BY <1>a, EvaluationFacts DEF PhaseInv, EvaluationPhases, ChunkInv, CallInv
<1>1. dets' = dets \cup {d0} /\ d0.image = Evaluations[variant].images[k] /\ d0.pixels = x
    /\ x.image = Evaluations[variant].images[k]
  BY <1>a DEF Evaluation!Decoded, Evaluation!Image_k, CallInv
<1>2. \A d \in dets : d.image = Evaluations[variant].images[k] => d.pixels = x
  BY <1>a DEF CallInv
<1>3. \/ pc' = "infer" /\ k' = k
      \/ pc' = "image" /\ k' = k + 1
      \/ pc' = "inputs" /\ k' = k /\ k = Len(Evaluations[variant].images)
  BY <1>a, <1>b, EvaluationFacts
     DEF Evaluation!Decoded, Evaluation!NextImage, PhaseInv, EvaluationPhases
<1>4. k \in 1 .. Len(Evaluations[variant].images) /\ Len(Evaluations[variant].images) \in Nat
  BY <1>a, EvaluationFacts DEF PhaseInv
<1>5. \A j \in 1 .. Len(Evaluations[variant].images) : (Past(j) => Past(j)') /\ (j = k => Past(j)')
  BY <1>3, <1>4 DEF Past, Before, SetUp
<1> HIDE DEF d0
<1>6. SeenInv'
  <2>1. \A d \in dets' : d.pixels.image = d.image
      /\ \E j \in 1 .. Len(Evaluations[variant].images) : d.image = Evaluations[variant].images[j]
         /\ Past(j)'
    BY <1>a, <1>1, <1>4, <1>5 DEF SeenInv
  <2>2. \A d, e \in dets' : d.image = e.image => d.pixels = e.pixels
    BY <1>a, <1>1, <1>2 DEF SeenInv
  <2> QED BY <2>1, <2>2 DEF SeenInv
<1>7. CallInv' BY <1>a, <1>b, <1>1, <1>2, <1>3 DEF CallInv
<1>8. Held = {} /\ Held' = {} /\ chunk' = <<>> BY <1>b DEF Held
<1>9. ChunkInv' BY <1>b, <1>3, <1>8 DEF ChunkInv
<1>10. pc \notin {"entry", "written"} /\ pc' \notin {"entry", "written"}
  BY <1>3
<1>11. SettledInv' BY <1>a, <1>10 DEF SettledInv
<1> QED BY <1>a, <1>6, <1>7, <1>9, <1>11 DEF PixelsInv, Taken

\* What the native binary does with the images it holds and passes over.
LEMMA NativeStep ==
    ASSUME Evaluation(variant)!EvaluationAssumption, PixelsInv, PhaseInv',
           Evaluation(variant)!SkipImage \/ Evaluation(variant)!TakeImage
             \/ Evaluation(variant)!Flush \/ Evaluation(variant)!FlushLast
    PROVE  PixelsInv'
<1>a. PhaseInv /\ input \in [Evaluation(variant)!DataFile -> Nat] /\ chunk \in Seq(Taken)
      /\ SeenInv /\ CallInv /\ ChunkInv /\ SettledInv
  BY DEF PixelsInv
<1>n. k \in 1 .. Len(Evaluations[variant].images) /\ Len(Evaluations[variant].images) \in Nat
  BY <1>a, EvaluationFacts DEF PhaseInv
<1>b. /\ Evaluations[variant].images[k] \in Evaluation(variant)!Image
      /\ \A j, l \in 1 .. Len(Evaluations[variant].images) :
         Evaluations[variant].images[j] = Evaluations[variant].images[l] => j = l
  BY <1>a, EvaluationFacts DEF PhaseInv
<1>c. Evaluations[variant].tool = "native" /\ pc \in {"image", "flush", "last"} /\ ~stream
  BY <1>a, EvaluationFacts DEF Evaluation!SkipImage, Evaluation!TakeImage, Evaluation!Flush,
     Evaluation!FlushLast, PhaseInv, EvaluationPhases, CallInv
<1>1. UNCHANGED <<input, resized, x, host, out, stream, report>>
  BY DEF Evaluation!SkipImage, Evaluation!TakeImage, Evaluation!Flush, Evaluation!FlushLast,
         Evaluation!files, Evaluation!call
<1>2. pc' \in {"image", "flush", "last", "inputs"}
  BY <1>c DEF Evaluation!SkipImage, Evaluation!TakeImage, Evaluation!Flush, Evaluation!FlushLast,
         Evaluation!NextImage
<1>3. CallInv' BY <1>c, <1>1, <1>2 DEF CallInv
<1>4. SettledInv' BY <1>a, <1>c, <1>1, <1>2 DEF SettledInv
<1>5. /\ \A q \in Held : /\ q.pixels.image = q.id
                         /\ \E j \in 1 .. Len(Evaluations[variant].images) :
                            q.id = Evaluations[variant].images[j] /\ Past(j)
                         /\ \A d \in dets : d.image # q.id
      /\ \A q, r \in Held : q.id = r.id => q.pixels = r.pixels
      /\ \A j \in 1 .. Len(Evaluations[variant].images) : Past(j)
         => Covered(Evaluations[variant].images[j])
  BY <1>a, <1>c DEF ChunkInv
<1>6. /\ \A d \in dets : d.pixels.image = d.image
                         /\ \E j \in 1 .. Len(Evaluations[variant].images) :
                            d.image = Evaluations[variant].images[j] /\ Past(j)
      /\ \A d, e \in dets : d.image = e.image => d.pixels = e.pixels
  BY <1>a DEF SeenInv
\* What has to hold of the images that were seen and are held after the step.
<1>7. ASSUME \A j \in 1 .. Len(Evaluations[variant].images) : Past(j) => Past(j)',
             \A d \in dets' : d.pixels.image = d.image
                              /\ \E j \in 1 .. Len(Evaluations[variant].images) :
                                 d.image = Evaluations[variant].images[j] /\ Past(j)',
             \A d, e \in dets' : d.image = e.image => d.pixels = e.pixels,
             \A q \in Held' : /\ q.pixels.image = q.id
                              /\ \E j \in 1 .. Len(Evaluations[variant].images) :
                                 q.id = Evaluations[variant].images[j] /\ Past(j)'
                              /\ \A d \in dets' : d.image # q.id,
             \A q, r \in Held' : q.id = r.id => q.pixels = r.pixels,
             \A j \in 1 .. Len(Evaluations[variant].images) : Past(j)'
               => Covered(Evaluations[variant].images[j])',
             pc' = "inputs" => chunk' = <<>>,
             pc' \in {"last", "inputs"} => k' = Len(Evaluations[variant].images),
             chunk' \in Seq(Taken)
      PROVE  PixelsInv'
  <2>1. SeenInv' BY <1>7 DEF SeenInv
  <2>2. ChunkInv' BY <1>c, <1>2, <1>7 DEF ChunkInv
  <2>3. input' \in [Evaluation(variant)!DataFile -> Nat] /\ chunk' \in Seq(Taken)'
    BY <1>a, <1>1, <1>7 DEF Taken
  <2> QED BY <1>3, <1>4, <2>1, <2>2, <2>3 DEF PixelsInv
<1>8. CASE Evaluation(variant)!SkipImage
  <2>1. UNCHANGED <<chunk, dets>> /\ Evaluations[variant].images[k] \in resized /\ pc = "image"
        /\ \/ pc' = "image" /\ k' = k + 1
           \/ pc' = "last" /\ k' = k /\ k = Len(Evaluations[variant].images)
    BY <1>8, <1>n, <1>c DEF Evaluation!SkipImage, Evaluation!Skips, Evaluation!NextImage,
                            Evaluation!Image_k, Evaluation!call
  <2>2. \A j \in 1 .. Len(Evaluations[variant].images) : (Past(j) => Past(j)')
      /\ (Past(j)' => Past(j) \/ j = k)
    BY <1>n, <2>1 DEF Past, Before, SetUp
  <2>3. Held' = Held BY <2>1 DEF Held
  <2>4. \A j \in 1 .. Len(Evaluations[variant].images) : Past(j)'
      => Covered(Evaluations[variant].images[j])'
    BY <1>1, <1>5, <2>1, <2>2, <2>3 DEF Covered
  <2> QED BY <1>a, <1>5, <1>6, <1>7, <2>1, <2>2, <2>3, <2>4
<1>9. CASE Evaluation(variant)!TakeImage
  <2> DEFINE t == [id |-> Evaluations[variant].images[k],
                   pixels |-> [image |-> Evaluations[variant].images[k],
                               version |-> input[Evaluations[variant].images[k]]]]
  <2>1. pc = "image" /\ UNCHANGED dets /\ chunk' = Append(chunk, t)
        /\ \/ pc' = "flush" /\ k' = k
           \/ pc' = "image" /\ k' = k + 1
           \/ pc' = "last" /\ k' = k /\ k = Len(Evaluations[variant].images)
    BY <1>9, <1>n, <1>c DEF Evaluation!TakeImage, Evaluation!NextImage, Evaluation!Image_k,
                            Evaluation!Pixels_k
  <2>2. t \in Taken /\ t.id = Evaluations[variant].images[k] /\ t.pixels.image = t.id
    BY <1>a, <1>b DEF Taken, Evaluation!DataFile
  <2> HIDE DEF t
  <2>3. \A j \in 1 .. Len(Evaluations[variant].images) : (Past(j) => Past(j)' /\ j # k)
      /\ (Past(j)' => Past(j) \/ j = k)
        /\ (j = k => Past(j)')
    BY <1>n, <2>1 DEF Past, Before, SetUp
  <2>4. chunk' \in Seq(Taken) BY <1>a, <2>1, <2>2
  <2>5. Held' = Held \cup {t}
    <3>1. /\ DOMAIN chunk' = DOMAIN chunk \cup {Len(chunk) + 1} /\ chunk'[Len(chunk) + 1] = t
          /\ \A j \in DOMAIN chunk : chunk'[j] = chunk[j]
      BY <1>a, <2>1, <2>2
    <3> QED BY <3>1, ZenonT(60) DEF Held
  <2>6. (\A q \in Held : q.id # t.id) /\ \A d \in dets : d.image # t.id
    BY <1>n, <1>b, <1>5, <1>6, <2>2, <2>3
  <2>7. \A j \in 1 .. Len(Evaluations[variant].images) : Past(j)'
      => Covered(Evaluations[variant].images[j])'
    BY <1>1, <1>5, <2>1, <2>2, <2>3, <2>5 DEF Covered
  <2>8. \A d \in dets' : d.pixels.image = d.image
                              /\ \E j \in 1 .. Len(Evaluations[variant].images) :
                                 d.image = Evaluations[variant].images[j] /\ Past(j)'
    BY <1>6, <2>1, <2>3
  <2>9. \A q \in Held' : /\ q.pixels.image = q.id
                         /\ \E j \in 1 .. Len(Evaluations[variant].images) :
                            q.id = Evaluations[variant].images[j] /\ Past(j)'
                         /\ \A d \in dets' : d.image # q.id
    BY <1>n, <1>5, <2>1, <2>2, <2>3, <2>5, <2>6
  <2>10. \A q, r \in Held' : q.id = r.id => q.pixels = r.pixels
    BY <1>5, <2>5, <2>6
  <2> QED BY <1>6, <1>7, <2>1, <2>3, <2>4, <2>7, <2>8, <2>9, <2>10
<1>10. CASE Evaluation(variant)!Flush \/ Evaluation(variant)!FlushLast
  <2>1. pc \in {"flush", "last"} /\ dets' = dets \cup Evaluation(variant)!Results /\ chunk' = <<>>
        /\ \/ pc' = "image" /\ k' = k + 1
           \/ pc' = "last" /\ k' = k /\ k = Len(Evaluations[variant].images)
           \/ pc' = "inputs" /\ k' = k /\ pc = "last"
    BY <1>10, <1>n, <1>c DEF Evaluation!Flush, Evaluation!FlushLast, Evaluation!NextImage,
                             Evaluation!LastResults
  <2>2. \A j \in 1 .. Len(Evaluations[variant].images) : (Past(j) => Past(j)')
      /\ (Past(j)' => Past(j))
    BY <1>n, <2>1 DEF Past, Before, SetUp
  <2>3. Held' = {} /\ chunk' \in Seq(Taken) BY <2>1 DEF Held
  <2>4. /\ \A d \in Evaluation(variant)!Results : \E q \in Held : d.image = q.id
           /\ d.pixels = q.pixels
        /\ \A q \in Held : \E d \in Evaluation(variant)!Results : d.image = q.id
           /\ d.pixels = q.pixels
    <3>1. Evaluation(variant)!Results
        = {[backend |-> "engine", image |-> q.id, pixels |-> q.pixels] : q \in Held}
      BY DEF Held, Evaluation!Results, Evaluation!IdOfResult
    <3>2. ASSUME NEW q \in Held
          PROVE  \E d \in Evaluation(variant)!Results : d.image = q.id /\ d.pixels = q.pixels
      <4>1. [backend |-> "engine", image |-> q.id, pixels |-> q.pixels]
          \in Evaluation(variant)!Results
        BY <3>1
      <4> QED BY <4>1
    <3> QED BY <3>1, <3>2
  <2>5. \A d \in dets' : d.pixels.image = d.image
                         /\ \E j \in 1 .. Len(Evaluations[variant].images) :
                            d.image = Evaluations[variant].images[j] /\ Past(j)'
    BY <1>5, <1>6, <2>1, <2>2, <2>4, SMTT(60)
  <2>6. \A d, e \in dets' : d.image = e.image => d.pixels = e.pixels
    BY <1>5, <1>6, <2>1, <2>4
  <2>7. \A j \in 1 .. Len(Evaluations[variant].images) : Past(j)'
      => Covered(Evaluations[variant].images[j])'
    BY <1>1, <1>5, <2>1, <2>2, <2>4 DEF Covered
  <2>8. pc' \in {"last", "inputs"} => k' = Len(Evaluations[variant].images)
    BY <1>a, <2>1 DEF ChunkInv
  <2> QED BY <1>7, <2>1, <2>2, <2>3, <2>5, <2>6, <2>7, <2>8
<1> QED BY <1>8, <1>9, <1>10

LEMMA PixelsStep ==
    ASSUME Evaluation(variant)!EvaluationAssumption, PixelsInv, PhaseInv',
           [Evaluation(variant)!Next]_(Evaluation(variant)!vars)
    PROVE  PixelsInv'
<1>a. PhaseInv /\ input \in [Evaluation(variant)!DataFile -> Nat] /\ chunk \in Seq(Taken)
      /\ SeenInv /\ CallInv /\ ChunkInv /\ SettledInv
  BY DEF PixelsInv
<1>b. pc \in EvaluationPhases /\ pc \in {"infer", "transfer", "sync", "decode"}
    => Evaluations[variant].tool = "python"
  BY <1>a, EvaluationFacts DEF PhaseInv, EvaluationPhases
<1>1. CASE \/ \E a \in Evaluation(variant)!Backend : Evaluation(variant)!Publish(a)
           \/ Evaluation(variant)!PublishSidecar \/ UNCHANGED Evaluation(variant)!vars
           \/ \E f \in Evaluation(variant)!DataFile : Evaluation(variant)!Rewrite(f)
  <2>1. UNCHANGED <<pc, k, resized, chunk, dets, report>> /\ UNCHANGED <<x, host, out, stream>>
    BY <1>1 DEF Evaluation!Publish, Evaluation!PublishSidecar, Evaluation!Rewrite, Evaluation!vars,
                Evaluation!call
  <2>2. input' = input \/ \E f \in Evaluation(variant)!DataFile :
      input' = [input EXCEPT ![f] = @ + 1]
    BY <1>1 DEF Evaluation!Publish, Evaluation!PublishSidecar, Evaluation!Rewrite, Evaluation!vars
  <2>3. input' \in [Evaluation(variant)!DataFile -> Nat] BY <1>a, <2>2
  <2>4. CallInv' BY <1>a, <2>1 DEF CallInv
  <2> QED BY <2>1, <2>3, <2>4, PixelsKept
<1>2. CASE Evaluation(variant)!Start \/ Evaluation(variant)!ReadContract \/ Evaluation(variant)!Load
    \/ Evaluation(variant)!HashLineage
           \/ Evaluation(variant)!Match
  <2>1. UNCHANGED <<k, resized, chunk, dets, report>> /\ UNCHANGED <<input, x, host, out, stream>>
        /\ pc \in SetUp \cup {"match"} /\ pc' \in SetUp \cup {"match", "image", "failed"}
    BY <1>2 DEF Evaluation!Start, Evaluation!ReadContract, Evaluation!Load, Evaluation!HashLineage,
                Evaluation!Match, SetUp, Evaluation!files, Evaluation!call
  <2>2. CallInv' BY <1>a, <2>1 DEF CallInv, SetUp
  <2> QED BY <1>a, <2>1, <2>2, PixelsKept DEF Before
<1>3. CASE Evaluation(variant)!ReadImage
  <2>1. pc = "image" /\ pc' = "infer"
      /\ x' = [image |-> Evaluations[variant].images[k],
               version |-> input[Evaluations[variant].images[k]]]
        /\ UNCHANGED <<k, resized, chunk, dets, report>> /\ UNCHANGED <<input, host, out, stream>>
        /\ Evaluations[variant].tool = "python"
    BY <1>3 DEF Evaluation!ReadImage, Evaluation!files, Evaluation!Pixels_k, Evaluation!Image_k
  <2>2. k \in 1 .. Len(Evaluations[variant].images) /\ Len(Evaluations[variant].images) \in Nat
    BY <1>a, EvaluationFacts DEF PhaseInv
  <2>3. \A j \in 1 .. Len(Evaluations[variant].images) : (Past(j) => j # k) /\ (Past(j) => Past(j)')
    BY <2>1, <2>2 DEF Past, Before, SetUp
  <2>4. \A d \in dets : d.image # Evaluations[variant].images[k]
    BY <1>a, <2>2, <2>3, EvaluationFacts DEF SeenInv
  <2>5. CallInv' BY <1>a, <2>1, <2>4 DEF CallInv
  <2>6. SeenInv' BY <1>a, <2>1, <2>3 DEF SeenInv
  <2>7. chunk = <<>> /\ Held' = {} BY <1>a, <2>1 DEF ChunkInv, Held
  <2>8. ChunkInv' BY <2>1, <2>7 DEF ChunkInv
  <2>9. SettledInv' BY <1>a, <2>1 DEF SettledInv
  <2> QED BY <1>a, <2>1, <2>5, <2>6, <2>8, <2>9 DEF PixelsInv, Taken
<1>4. CASE \/ Evaluation(variant)!ReusableCall \/ Evaluation(variant)!Transfer
              \/ Evaluation(variant)!StreamRuns
           \/ Evaluation(variant)!Synchronize
  <2>1. UNCHANGED <<k, resized, chunk, dets, report>> /\ UNCHANGED <<input, x>>
        /\ {pc, pc'} \subseteq {"infer", "transfer", "sync", "decode"}
    BY <1>4, <1>a DEF Evaluation!ReusableCall, Evaluation!Transfer, Evaluation!StreamRuns,
                      Evaluation!Synchronize, Evaluation!files, Evaluation!call, CallInv
  <2>2. CallInv'
    BY <1>a, <1>4, <2>1
       DEF Evaluation!ReusableCall, Evaluation!Transfer, Evaluation!StreamRuns, Evaluation!call,
           Evaluation!Synchronize, Evaluation!Synchronized, Evaluation!SetHostInput,
           Evaluation!Tensor, CallInv
  <2> QED BY <1>a, <2>1, <2>2, PixelsKept
<1>5. CASE Evaluation(variant)!Decode \/ Evaluation(variant)!RunOnnx
  <2>1. pc \in {"infer", "decode"} /\ Evaluation(variant)!Decoded(x)
        /\ UNCHANGED <<input, resized, x, host, out, stream, chunk, report>>
    BY <1>a, <1>5 DEF Evaluation!Decode, Evaluation!RunOnnx, Evaluation!Tensor, Evaluation!files,
                      Evaluation!call, CallInv
  <2> QED BY <2>1, DecodedStep
<1>6. CASE Evaluation(variant)!SkipImage \/ Evaluation(variant)!TakeImage
    \/ Evaluation(variant)!Flush \/ Evaluation(variant)!FlushLast
  BY <1>6, NativeStep
<1>7. CASE Evaluation(variant)!Fail \/ Evaluation(variant)!Incomplete
  <2>1. UNCHANGED <<k, resized, chunk, dets, report>> /\ UNCHANGED <<input, x, host, out, stream>>
        /\ pc \in {"image", "infer", "flush", "last", "inputs"} /\ pc' = "failed"
    BY <1>7 DEF Evaluation!Fail, Evaluation!Incomplete, Evaluation!files, Evaluation!call
  <2>2. CallInv' BY <1>a, <2>1 DEF CallInv
  <2> QED BY <1>a, <2>1, <2>2, PixelsKept
<1>8. CASE Evaluation(variant)!EvaluationContract \/ Evaluation(variant)!BackendEntry
  <2>1. UNCHANGED <<k, resized, chunk, dets>> /\ UNCHANGED <<input, x, host, out, stream>>
        /\ pc \in {"inputs", "entry"} /\ pc' \in {"entry", "written"}
    BY <1>8 DEF Evaluation!EvaluationContract, Evaluation!BackendEntry, Evaluation!files,
                Evaluation!call
  <2>2. CallInv' BY <1>a, <2>1 DEF CallInv
  <2>3. \A j \in 1 .. Len(Evaluations[variant].images) : Past(j) <=> Past(j)'
    BY <2>1 DEF Past, Before, SetUp
  <2>4. SeenInv' BY <1>a, <2>1, <2>3 DEF SeenInv
  <2>5. Held' = Held /\ chunk = <<>> /\ Held = {} /\ k = Len(Evaluations[variant].images)
    BY <1>a, <2>1 DEF ChunkInv, Held
  <2>6. Evaluations[variant].tool = "native"
      => \A j \in 1 .. Len(Evaluations[variant].images) : Past(j)
        => Covered(Evaluations[variant].images[j])
    BY <1>a, <2>1 DEF ChunkInv
  <2>7. ChunkInv' BY <1>a, <2>1, <2>3, <2>5, <2>6 DEF ChunkInv, Covered
  <2>8. AllSeen
    <3>1. CASE Evaluations[variant].tool = "native"
      <4>1. \A j \in 1 .. Len(Evaluations[variant].images) : Past(j)
        BY <2>1, <2>5, EvaluationFacts DEF Past, Before, SetUp
      <4> QED BY <2>5, <2>6, <3>1, <4>1, EvaluationFacts DEF AllSeen, Covered
    <3>2. CASE pc = "entry" BY <1>a, <3>2 DEF SettledInv
    <3>3. CASE Evaluations[variant].tool = "python" /\ pc = "inputs"
      <4>1. Evaluations[variant].backends[1] \in Evaluation(variant)!Backend
        BY EvaluationFacts
      <4>2. {d.image : d \in {e \in dets : e.backend = Evaluations[variant].backends[1]}}
          = Evaluation(variant)!Image
        BY <1>8, <3>3, <4>1
           DEF Evaluation!EvaluationContract, Evaluation!BackendEntry, Evaluation!Complete
      <4> QED BY <4>2 DEF AllSeen
    <3> QED BY <2>1, <3>1, <3>2, <3>3, EvaluationFacts
  <2>9. report' \in [input : {report'.input}, images : {Evaluation(variant)!Image},
                     artifact : {report'.artifact}, lineage : {report'.lineage}]
    <3>1. CASE Evaluation(variant)!EvaluationContract
      BY <3>1 DEF Evaluation!EvaluationContract
    <3>2. CASE Evaluation(variant)!BackendEntry
      <4>1. report \in [input : {report.input}, images : {Evaluation(variant)!Image},
                        artifact : {report.artifact}, lineage : {report.lineage}]
        BY <1>a, <3>2 DEF SettledInv, Evaluation!BackendEntry
      <4>2. report' = [report EXCEPT !.artifact[Evaluations[variant].backends[b]]
                         = artifact[Evaluations[variant].backends[b]],
                       !.lineage[Evaluations[variant].backends[b]]
                         = Evaluation(variant)!LineageHash(Evaluations[variant].backends[b])]
        BY <3>2 DEF Evaluation!BackendEntry
      <4> QED BY <4>1, <4>2
    <3> QED BY <1>8, <3>1, <3>2
  <2>10. SettledInv' BY <2>1, <2>8, <2>9 DEF SettledInv, AllSeen
  <2> QED BY <1>a, <2>1, <2>2, <2>4, <2>7, <2>10 DEF PixelsInv, Taken
<1> QED BY <1>1, <1>2, <1>3, <1>4, <1>5, <1>6, <1>7, <1>8 DEF Evaluation!Next

\* Whenever an image is rewritten and whenever the device gets to a call: a detection
\* comes from the pixels of its own image, all backends of a report saw one version of
\* an image, and an image without detections was passed over for its size.
LEMMA PixelsHold == Evaluation(variant)!EvaluationAssumption =>
                       (Evaluation(variant)!Spec => []PixelsInv)
<1> SUFFICES ASSUME Evaluation(variant)!EvaluationAssumption
             PROVE  Evaluation(variant)!Spec => []PixelsInv
  OBVIOUS
<1>1. Evaluation(variant)!Init => PixelsInv
  <2> SUFFICES ASSUME Evaluation(variant)!Init PROVE PixelsInv
    OBVIOUS
  <2>1. PhaseInv
    BY EvaluationFacts DEF PhaseInv, EvaluationPhases, Evaluation!Init
  <2>2. /\ input \in [Evaluation(variant)!DataFile -> Nat] /\ chunk = <<>> /\ dets = {}
           /\ report = Nothing
        /\ pc \in {"start", "contract"} /\ k = 1 /\ stream = FALSE
    BY DEF Evaluation!Init
  <2>3. Held = {} /\ chunk \in Seq(Taken) BY <2>2 DEF Held
  <2>4. \A j \in 1 .. Len(Evaluations[variant].images) : ~Past(j)
    BY <2>2, EvaluationFacts DEF Past, Before, SetUp
  <2>5. SeenInv /\ CallInv /\ SettledInv
    BY <2>2 DEF SeenInv, CallInv, SettledInv
  <2>6. ChunkInv BY <2>2, <2>3, <2>4 DEF ChunkInv
  <2> QED BY <2>1, <2>2, <2>3, <2>5, <2>6 DEF PixelsInv
<1>2. PixelsInv /\ [Evaluation(variant)!Next]_(Evaluation(variant)!vars) => PixelsInv'
  BY PhaseStep, PixelsStep DEF PixelsInv
<1> QED BY <1>1, <1>2, PTL DEF Evaluation!Spec

LEMMA DetectionsAreOfTheirImages ==
    ASSUME Evaluation(variant)!EvaluationAssumption
    PROVE  PixelsInv => Evaluation(variant)!OwnPixels /\ Evaluation(variant)!SamePixels
      /\ Evaluation(variant)!UnseenIsResized
<1>3. PixelsInv => Evaluation(variant)!OwnPixels /\ Evaluation(variant)!SamePixels
    /\ Evaluation(variant)!UnseenIsResized
  BY DEF PixelsInv, SeenInv, SettledInv, AllSeen, Evaluation!OwnPixels, Evaluation!SamePixels,
         Evaluation!UnseenIsResized
<1> QED BY <1>3

------------------------------
(* EvaluationRun: the artifacts that a report names *)

FileTypes ==
    /\ artifact \in [Evaluation(variant)!Backend -> Evaluation(variant)!Content]
    /\ sidecar \in [Evaluation(variant)!Backend -> Evaluation(variant)!Content]
    /\ publishing = Nothing \/ (publishing.backend \in Evaluation(variant)!Backend
                                /\ publishing.content \in Evaluation(variant)!Content)
    /\ published \in 0 .. Evaluations[variant].max_publications
    /\ \A a \in Evaluation(variant)!Backend : artifact[a].made <= published
    /\ lineage \in [Evaluation(variant)!Backend -> Evaluation(variant)!Content \cup {Nothing}]

Reports ==
    [input : {report.input}, images : {report.images},
     artifact : [Evaluation(variant)!Backend -> Evaluation(variant)!Content \cup {Nothing}],
     lineage : [Evaluation(variant)!Backend -> Evaluation(variant)!Content \cup {Nothing}]]
BothBackends == Evaluation(variant)!Backend = {"onnx", "engine"}

\* The graph was hashed before the match and is hashed again for the report: as
\* publications are numbered in order, equal hashes leave only the matched graph between.
SourceInv ==
    /\ PhaseInv /\ FileTypes
    /\ \A a \in Evaluation(variant)!Backend : lineage[a] # Nothing
       => lineage[a].made <= artifact[a].made
    /\ BothBackends /\ pc \in Matched =>
          /\ contract["engine"].from \in Nat
          /\ contract["engine"].from <= artifact["onnx"].made
          /\ lineage["onnx"] # Nothing => lineage["onnx"].made <= contract["engine"].from
    /\ pc \in {"entry", "written"} =>
          /\ report \in Reports
          /\ Evaluations[variant].tool = "python" => report.lineage = lineage
          /\ BothBackends /\ report.artifact["onnx"] # Nothing =>
                contract["engine"].from <= report.artifact["onnx"].made
    /\ pc = "entry" => \A j \in 1 .. b - 1 :
       report.artifact[Evaluations[variant].backends[j]] # Nothing
    /\ pc = "written" => \A a \in Evaluation(variant)!Backend : report.artifact[a] # Nothing

\* A step that touches neither the files nor the names.
LEMMA SourceKept ==
    ASSUME Evaluation(variant)!EvaluationAssumption, SourceInv, PhaseInv',
           UNCHANGED <<artifact, sidecar, publishing, published, lineage, contract, report>>,
           \/ pc' = pc /\ b' = b
           \/ pc' \notin {"entry", "written"} /\ (pc' \in Matched => pc \in Matched)
    PROVE  SourceInv'
<1>1. FileTypes' BY DEF SourceInv, FileTypes
<1> QED BY <1>1 DEF SourceInv, Reports

LEMMA SourceStep ==
    ASSUME Evaluation(variant)!EvaluationAssumption, SourceInv, PhaseInv',
           [Evaluation(variant)!Next]_(Evaluation(variant)!vars)
    PROVE  SourceInv'
<1>a. PhaseInv /\ FileTypes /\ Evaluations[variant].max_publications \in Nat
    /\ Nothing \notin Evaluation(variant)!Content
  BY DEF SourceInv, Evaluation!EvaluationAssumption
<1>b. \A c \in Evaluation(variant)!Content : c.made \in Nat /\ c.from \in Nat
  BY <1>a DEF Evaluation!Content
<1>c. BothBackends => Evaluations[variant].tool = "python" /\ "onnx" \in Evaluation(variant)!Backend
  BY EvaluationFacts DEF BothBackends
<1>d. b \in 1 .. Len(Evaluations[variant].backends) /\ Len(Evaluations[variant].backends) \in Nat
    /\ Evaluations[variant].backends[b] \in Evaluation(variant)!Backend
  BY <1>a, EvaluationFacts DEF PhaseInv
<1>1. ASSUME NEW a \in Evaluation(variant)!Backend, Evaluation(variant)!Publish(a) PROVE SourceInv'
  <2>1. UNCHANGED <<sidecar, lineage, contract, report>> /\ pc' = pc /\ b' = b
        /\ published < Evaluations[variant].max_publications /\ published' = published + 1
    BY <1>1 DEF Evaluation!Publish, Evaluation!names
  <2>2. PICK c \in Evaluation(variant)!Content :
          /\ artifact' = [artifact EXCEPT ![a] = c] /\ publishing' = [backend |-> a, content |-> c]
          /\ c.made = published + 1
    <3> DEFINE n == published + 1
               built == [made |-> n, from |-> artifact["onnx"].made,
                         model |-> sidecar["onnx"].model]
    <3>1. n \in 0 .. Evaluations[variant].max_publications
      BY <1>a, <2>1 DEF FileTypes
    <3>2. CASE a = "engine" /\ "onnx" \in Evaluation(variant)!Backend
      <4>1. artifact["onnx"] \in Evaluation(variant)!Content
          /\ sidecar["onnx"] \in Evaluation(variant)!Content
        BY <1>a, <3>2 DEF FileTypes
      <4>2. artifact["onnx"].made \in 0 .. Evaluations[variant].max_publications
          /\ sidecar["onnx"].model \in Evaluations[variant].models
        BY <4>1 DEF Evaluation!Content
      <4>3. built \in Evaluation(variant)!Content /\ built.made = published + 1
        BY <3>1, <4>2 DEF Evaluation!Content
      <4>4. artifact' = [artifact EXCEPT ![a] = built]
          /\ publishing' = [backend |-> a, content |-> built]
        BY <1>1, <3>2 DEF Evaluation!Publish
      <4> QED BY <4>3, <4>4
    <3>3. CASE ~(a = "engine" /\ "onnx" \in Evaluation(variant)!Backend)
      <4>1. PICK m \in Evaluations[variant].models :
              LET c == [made |-> n, from |-> n, model |-> m] IN
              artifact' = [artifact EXCEPT ![a] = c] /\ publishing' = [backend |-> a, content |-> c]
        BY <1>1, <3>3, ZenonT(60) DEF Evaluation!Publish
      <4>2. [made |-> n, from |-> n, model |-> m] \in Evaluation(variant)!Content
        BY <3>1 DEF Evaluation!Content
      <4> QED BY <4>1, <4>2
    <3> QED BY <3>2, <3>3
  <2>3. artifact \in [Evaluation(variant)!Backend -> Evaluation(variant)!Content]
      /\ published \in Nat
        /\ \A d \in Evaluation(variant)!Backend : artifact[d].made <= published
    BY <1>a DEF FileTypes
  <2>4. artifact' \in [Evaluation(variant)!Backend -> Evaluation(variant)!Content]
        /\ \A d \in Evaluation(variant)!Backend :
              artifact'[d].made <= published + 1 /\ artifact[d].made <= artifact'[d].made
    <3>1. artifact' \in [Evaluation(variant)!Backend -> Evaluation(variant)!Content]
      BY <2>2, <2>3
    <3>2. ASSUME NEW d \in Evaluation(variant)!Backend
          PROVE  artifact'[d].made <= published + 1 /\ artifact[d].made <= artifact'[d].made
      <4>1. artifact[d].made \in Nat /\ artifact[d].made <= published
        BY <1>b, <2>3
      <4>2. artifact'[d] = IF d = a THEN c ELSE artifact[d]
        BY <2>2, <2>3
      <4> QED BY <2>2, <2>3, <4>1, <4>2
    <3> QED BY <3>1, <3>2
  <2>5. FileTypes' BY <1>a, <2>1, <2>2, <2>4 DEF FileTypes
  <2>6. \A d \in Evaluation(variant)!Backend : artifact[d].made \in Nat /\ artifact'[d].made \in Nat
    BY <1>b, <2>3, <2>4
  <2>7. \A d \in Evaluation(variant)!Backend : lineage[d] # Nothing
      => lineage[d].made <= artifact'[d].made
    <3> SUFFICES ASSUME NEW d \in Evaluation(variant)!Backend, lineage[d] # Nothing
                 PROVE  lineage[d].made <= artifact'[d].made
      OBVIOUS
    <3>1. lineage[d].made <= artifact[d].made BY DEF SourceInv
    <3>2. lineage[d].made \in Nat BY <1>a, <1>b DEF FileTypes
    <3> QED BY <2>4, <2>6, <3>1, <3>2
  <2>8. ASSUME BothBackends, pc \in Matched
        PROVE  /\ contract["engine"].from \in Nat
               /\ contract["engine"].from <= artifact'["onnx"].made
               /\ lineage["onnx"] # Nothing => lineage["onnx"].made <= contract["engine"].from
    <3>1. contract["engine"].from \in Nat /\ contract["engine"].from <= artifact["onnx"].made
      BY <2>8 DEF SourceInv
    <3> QED BY <1>c, <2>4, <2>6, <2>8, <3>1 DEF SourceInv
  <2> QED BY <2>1, <2>5, <2>7, <2>8 DEF SourceInv, Reports, BothBackends
<1>2. CASE Evaluation(variant)!PublishSidecar
  <2>1. UNCHANGED <<artifact, published, lineage, contract, report>> /\ pc' = pc /\ b' = b
        /\ publishing' = Nothing /\ publishing # Nothing
        /\ sidecar' = [sidecar EXCEPT ![publishing.backend] = publishing.content]
    BY <1>2 DEF Evaluation!PublishSidecar, Evaluation!names
  <2>2. FileTypes' BY <1>a, <2>1 DEF FileTypes
  <2> QED BY <2>1, <2>2 DEF SourceInv, Reports
<1>3. CASE \/ Evaluation(variant)!StreamRuns \/ UNCHANGED Evaluation(variant)!vars
           \/ \E f \in Evaluation(variant)!DataFile : Evaluation(variant)!Rewrite(f)
  <2>1. UNCHANGED <<artifact, sidecar, publishing, published, lineage, contract, report>>
        /\ pc' = pc /\ b' = b
    BY <1>3 DEF Evaluation!StreamRuns, Evaluation!Rewrite, Evaluation!vars, Evaluation!files,
                Evaluation!names
  <2> QED BY <2>1, SourceKept
<1>4. CASE Evaluation(variant)!Start \/ Evaluation(variant)!ReadContract \/ Evaluation(variant)!Load
  <2>1. UNCHANGED <<artifact, sidecar, publishing, published, lineage, report>>
        /\ pc \notin Matched /\ pc' \in {"contract", "start", "load", "lineage", "image"}
        /\ (pc' = "image" => Evaluations[variant].tool = "native")
    BY <1>4, EvaluationFacts
       DEF Evaluation!Start, Evaluation!ReadContract, Evaluation!Load, Evaluation!files,
           Evaluation!names, Matched
  <2>2. FileTypes' BY <1>a, <2>1 DEF FileTypes
  <2> QED BY <1>c, <2>1, <2>2 DEF SourceInv, Matched
<1>5. CASE Evaluation(variant)!HashLineage
  <2>1. UNCHANGED <<artifact, sidecar, publishing, published, contract, report>>
        /\ pc \notin Matched /\ pc' \in {"contract", "match"}
        /\ lineage' = [lineage EXCEPT ![Evaluations[variant].backends[b]]
                       = artifact[Evaluations[variant].backends[b]]]
    BY <1>5 DEF Evaluation!HashLineage, Evaluation!files, Matched
  <2>2. FileTypes' BY <1>a, <1>d, <2>1 DEF FileTypes
  <2>3. \A a \in Evaluation(variant)!Backend : lineage'[a] # Nothing
      => lineage'[a].made <= artifact[a].made
    BY <1>a, <1>b, <1>d, <2>1 DEF SourceInv, FileTypes
  <2> QED BY <2>1, <2>2, <2>3 DEF SourceInv, Matched
<1>6. CASE Evaluation(variant)!Match
  <2>1. UNCHANGED <<artifact, sidecar, publishing, published, lineage, contract, report>>
        /\ pc' \in {"image", "failed"}
        /\ (pc' = "image" /\ BothBackends => contract["engine"].from = artifact["onnx"].made)
    BY <1>6 DEF Evaluation!Match, Evaluation!EngineSourceMatches, Evaluation!files,
                Evaluation!names, BothBackends
  <2>2. FileTypes' BY <1>a, <2>1 DEF FileTypes
  <2>3. BothBackends => artifact["onnx"].made \in Nat
    BY <1>a, <1>b, <1>c DEF FileTypes
  <2> QED BY <1>c, <2>1, <2>2, <2>3 DEF SourceInv, Matched
<1>7. CASE \/ Evaluation(variant)!ReadImage \/ Evaluation(variant)!ReusableCall
              \/ Evaluation(variant)!Transfer
           \/ Evaluation(variant)!Synchronize \/ Evaluation(variant)!Decode
              \/ Evaluation(variant)!RunOnnx
           \/ Evaluation(variant)!SkipImage \/ Evaluation(variant)!TakeImage
              \/ Evaluation(variant)!Flush \/ Evaluation(variant)!FlushLast
           \/ Evaluation(variant)!Fail \/ Evaluation(variant)!Incomplete
  <2>1. UNCHANGED <<artifact, sidecar, publishing, published, lineage, contract, report>>
    BY <1>7 DEF Evaluation!ReadImage, Evaluation!ReusableCall, Evaluation!Transfer,
                Evaluation!Synchronize, Evaluation!Decode, Evaluation!RunOnnx,
                Evaluation!SkipImage, Evaluation!TakeImage, Evaluation!Flush, Evaluation!FlushLast,
                Evaluation!Fail, Evaluation!Incomplete, Evaluation!files, Evaluation!names
  <2>2. pc' \notin {"entry", "written"} /\ pc \in Matched
    BY <1>7
       DEF Evaluation!ReadImage, Evaluation!ReusableCall, Evaluation!Transfer,
           Evaluation!Synchronize, Evaluation!Decode, Evaluation!RunOnnx, Evaluation!Decoded,
           Evaluation!SkipImage, Evaluation!TakeImage, Evaluation!Flush, Evaluation!FlushLast,
           Evaluation!Fail, Evaluation!Incomplete, Evaluation!NextImage, Matched
  <2>3. FileTypes' BY <1>a, <2>1 DEF FileTypes
  <2> QED BY <2>1, <2>2, <2>3 DEF SourceInv, Reports
<1>8. CASE Evaluation(variant)!EvaluationContract
  <2>1. UNCHANGED <<artifact, sidecar, publishing, published, lineage, contract>>
        /\ pc = "inputs" /\ pc' = "entry" /\ b' = 1
    BY <1>8 DEF Evaluation!EvaluationContract, Evaluation!files, Evaluation!names
  <2>2. report' = [input |-> input, images |-> Evaluation(variant)!Image,
                   artifact |-> [a \in Evaluation(variant)!Backend |-> Nothing],
                     lineage |-> lineage]
    BY <1>8 DEF Evaluation!EvaluationContract
  <2>3. FileTypes' BY <1>a, <2>1 DEF FileTypes
  <2>4. report' \in Reports' /\ report'.lineage = lineage
        /\ report'.artifact = [a \in Evaluation(variant)!Backend |-> Nothing]
    BY <1>a, <2>2 DEF Reports, FileTypes
  <2> QED BY <1>c, <2>1, <2>3, <2>4 DEF SourceInv, Matched
<1>9. CASE Evaluation(variant)!BackendEntry
  <2>1. UNCHANGED <<artifact, sidecar, publishing, published, lineage, contract>>
        /\ pc = "entry"
        /\ \/ pc' = "entry" /\ b' = b + 1
           \/ pc' = "written" /\ b = Len(Evaluations[variant].backends)
    BY <1>9, <1>d DEF Evaluation!BackendEntry, Evaluation!files, Evaluation!names
  <2>2. report' = [report EXCEPT !.artifact[Evaluations[variant].backends[b]]
                     = artifact[Evaluations[variant].backends[b]],
                   !.lineage[Evaluations[variant].backends[b]]
                     = Evaluation(variant)!LineageHash(Evaluations[variant].backends[b])]
    BY <1>9 DEF Evaluation!BackendEntry
  <2>3. FileTypes' BY <1>a, <2>1 DEF FileTypes
  <2>4. report \in Reports /\ (Evaluations[variant].tool = "python" => report.lineage = lineage)
    BY <2>1 DEF SourceInv
  <2>5. artifact[Evaluations[variant].backends[b]] \in Evaluation(variant)!Content
        /\ Evaluation(variant)!LineageHash(Evaluations[variant].backends[b])
           \in Evaluation(variant)!Content \cup {Nothing}
        /\ (Evaluations[variant].tool = "python"
            => Evaluation(variant)!LineageHash(Evaluations[variant].backends[b])
              = lineage[Evaluations[variant].backends[b]])
    BY <1>a, <1>d DEF FileTypes, Evaluation!LineageHash
  <2>6. report' \in Reports'
      /\ report'.artifact = [report.artifact EXCEPT ![Evaluations[variant].backends[b]]
                             = artifact[Evaluations[variant].backends[b]]]
        /\ report'.lineage = [report.lineage EXCEPT ![Evaluations[variant].backends[b]]
                              = Evaluation(variant)!LineageHash(Evaluations[variant].backends[b])]
    BY <1>d, <2>2, <2>4, <2>5 DEF Reports
  <2>7. Evaluations[variant].tool = "python" => report'.lineage = lineage'
    BY <1>a, <2>1, <2>4, <2>5, <2>6 DEF FileTypes
  <2>8. BothBackends /\ report'.artifact["onnx"] # Nothing =>
           contract["engine"].from <= report'.artifact["onnx"].made
    BY <1>c, <1>d, <2>1, <2>4, <2>6 DEF SourceInv, Reports, Matched
  <2>9. \A j \in 1 .. b : report'.artifact[Evaluations[variant].backends[j]] # Nothing
    <3> SUFFICES ASSUME NEW j \in 1 .. b
        PROVE report'.artifact[Evaluations[variant].backends[j]] # Nothing
      OBVIOUS
    <3>1. j \in 1 .. Len(Evaluations[variant].backends) /\ (j = b \/ j \in 1 .. b - 1)
      BY <1>d
    <3>2. report.artifact
        \in [Evaluation(variant)!Backend -> Evaluation(variant)!Content \cup {Nothing}]
      BY <2>4 DEF Reports
    <3>3. j = b \/ report.artifact[Evaluations[variant].backends[j]] # Nothing
      BY <2>1, <3>1 DEF SourceInv
    <3> QED BY <1>a, <1>d, <2>5, <2>6, <3>1, <3>2, <3>3, EvaluationFacts, SMTT(60)
  <2>10. pc' = "entry"
      => \A j \in 1 .. b' - 1 : report'.artifact[Evaluations[variant].backends[j]] # Nothing
    BY <1>d, <2>1, <2>9
  <2>11. pc' = "written" => \A a \in Evaluation(variant)!Backend : report'.artifact[a] # Nothing
    BY <2>1, <2>9, EvaluationFacts
  <2> QED BY <2>1, <2>3, <2>6, <2>7, <2>8, <2>10, <2>11 DEF SourceInv, Matched
<1> QED BY <1>1, <1>2, <1>3, <1>4, <1>5, <1>6, <1>7, <1>8, <1>9 DEF Evaluation!Next

LEMMA SourceInit ==
    ASSUME Evaluation(variant)!EvaluationAssumption, Evaluation(variant)!Init PROVE SourceInv
<1>1. PhaseInv
  BY EvaluationFacts DEF PhaseInv, EvaluationPhases, Evaluation!Init
<1>2. PICK m \in Evaluations[variant].models :
    artifact = [a \in Evaluation(variant)!Backend |-> [made |-> 0, from |-> 0, model |-> m]]
  BY DEF Evaluation!Init
<1>3. Evaluations[variant].max_publications \in Nat
  BY DEF Evaluation!EvaluationAssumption
<1>4. [made |-> 0, from |-> 0, model |-> m] \in Evaluation(variant)!Content
  BY <1>3 DEF Evaluation!Content
<1>5. FileTypes BY <1>2, <1>3, <1>4 DEF Evaluation!Init, FileTypes
<1>6. lineage = [a \in Evaluation(variant)!Backend |-> Nothing] /\ pc \in {"start", "contract"}
  BY DEF Evaluation!Init
<1> QED BY <1>1, <1>5, <1>6 DEF SourceInv, Matched

\* An accepted report on a graph and an engine is on an engine of the very graph it
\* names, whenever either of them or one of their sidecars was replaced.
LEMMA SourceHolds == Evaluation(variant)!EvaluationAssumption =>
                       (Evaluation(variant)!Spec => []SourceInv)
<1> SUFFICES ASSUME Evaluation(variant)!EvaluationAssumption
             PROVE  Evaluation(variant)!Spec => []SourceInv
  OBVIOUS
<1>1. Evaluation(variant)!Init => SourceInv BY SourceInit
<1>2. SourceInv /\ [Evaluation(variant)!Next]_(Evaluation(variant)!vars) => SourceInv'
  BY PhaseStep, SourceStep DEF SourceInv
<1> QED BY <1>1, <1>2, PTL DEF Evaluation!Spec

LEMMA EngineIsOfNamedGraph ==
    ASSUME Evaluation(variant)!EvaluationAssumption
    PROVE  SourceInv => Evaluation(variant)!EngineOfNamedOnnx
<1>3. ASSUME SourceInv PROVE Evaluation(variant)!EngineOfNamedOnnx
  <2> SUFFICES ASSUME Evaluation(variant)!Accepted, BothBackends
               PROVE  contract["engine"].from = report.artifact["onnx"].made
    BY DEF Evaluation!EngineOfNamedOnnx, BothBackends
  <2>1. pc = "written" /\ Evaluations[variant].tool = "python"
      /\ "onnx" \in Evaluation(variant)!Backend
    BY EvaluationFacts DEF Evaluation!Accepted, BothBackends
  <2>2. report.artifact["onnx"] # Nothing /\ lineage["onnx"] = report.artifact["onnx"]
    BY <1>3, <2>1 DEF SourceInv, Evaluation!Accepted
  <2>3. lineage["onnx"] \in Evaluation(variant)!Content
    BY <1>3, <2>1, <2>2 DEF SourceInv, FileTypes
  <2>4. lineage["onnx"].made \in Nat
    BY <2>3 DEF Evaluation!Content, Evaluation!EvaluationAssumption
  <2>5. contract["engine"].from \in Nat /\ lineage["onnx"].made <= contract["engine"].from
        /\ contract["engine"].from <= lineage["onnx"].made
    BY <1>3, <2>1, <2>2 DEF SourceInv, Matched
  <2> QED BY <2>2, <2>4, <2>5
<1> QED BY <1>3

\* With no publication before the images, the contract, the bytes and the hash of a
\* backend are of one content; equal hashes then name what was measured.
NamedInv ==
    /\ SourceInv
    /\ contract \in [Evaluation(variant)!Backend -> Evaluation(variant)!Content \cup {Nothing}]
    /\ loaded \in [Evaluation(variant)!Backend -> Evaluation(variant)!Content \cup {Nothing}]
    /\ pc \in SetUp => publishing = Nothing /\ sidecar = artifact
    /\ pc \in {"load", "lineage"}
       => contract[Evaluations[variant].backends[b]] = artifact[Evaluations[variant].backends[b]]
    /\ pc = "lineage" => loaded[Evaluations[variant].backends[b]]
       = artifact[Evaluations[variant].backends[b]]
    /\ \A j \in 1 .. Len(Evaluations[variant].backends) :
          pc \in SetUp /\ j < b => /\ contract[Evaluations[variant].backends[j]]
                                      = lineage[Evaluations[variant].backends[j]]
                                   /\ loaded[Evaluations[variant].backends[j]]
                                      = lineage[Evaluations[variant].backends[j]]
    /\ pc \notin SetUp => contract = lineage /\ loaded = lineage

LEMMA NamedStep ==
    ASSUME Evaluation(variant)!EvaluationAssumption, Evaluations[variant].tool = "python",
           Evaluations[variant].write_during \cap SetUp = {},
           NamedInv, SourceInv', PhaseInv', [Evaluation(variant)!Next]_(Evaluation(variant)!vars)
    PROVE  NamedInv'
<1>a. PhaseInv /\ FileTypes BY DEF NamedInv, SourceInv
<1>d. b \in 1 .. Len(Evaluations[variant].backends) /\ Len(Evaluations[variant].backends) \in Nat
    /\ Evaluations[variant].backends[b] \in Evaluation(variant)!Backend
  BY <1>a, EvaluationFacts DEF PhaseInv
<1>1. ASSUME NEW a \in Evaluation(variant)!Backend, Evaluation(variant)!Publish(a) PROVE NamedInv'
  <2>1. UNCHANGED <<contract, loaded, lineage>> /\ UNCHANGED <<pc, b>> /\ pc \notin SetUp
    BY <1>1 DEF Evaluation!Publish, Evaluation!names
  <2> QED BY <2>1 DEF NamedInv, SetUp
<1>2. CASE Evaluation(variant)!PublishSidecar
  <2>1. UNCHANGED <<contract, loaded, lineage>> /\ UNCHANGED <<pc, b, artifact>>
        /\ publishing # Nothing
    BY <1>2 DEF Evaluation!PublishSidecar, Evaluation!names
  <2> QED BY <2>1 DEF NamedInv, SetUp
<1>3. CASE \/ Evaluation(variant)!StreamRuns \/ UNCHANGED Evaluation(variant)!vars
           \/ \E f \in Evaluation(variant)!DataFile : Evaluation(variant)!Rewrite(f)
  <2>1. UNCHANGED <<contract, loaded, lineage>>
      /\ UNCHANGED <<artifact, sidecar, publishing, pc, b>>
    BY <1>3 DEF Evaluation!StreamRuns, Evaluation!Rewrite, Evaluation!vars, Evaluation!files,
                Evaluation!names
  <2> QED BY <2>1 DEF NamedInv
<1>4. CASE Evaluation(variant)!Start
  <2>1. UNCHANGED <<contract, loaded, lineage>> /\ UNCHANGED <<artifact, sidecar, publishing, b>>
        /\ pc = "start" /\ pc' = "contract"
    BY <1>4 DEF Evaluation!Start, Evaluation!files
  <2> QED BY <2>1 DEF NamedInv, SetUp
<1>5. CASE Evaluation(variant)!ReadContract
  <2>1. UNCHANGED <<loaded, lineage>> /\ UNCHANGED <<artifact, sidecar, publishing, b>>
        /\ pc = "contract" /\ pc' = "load"
        /\ contract' = [contract EXCEPT ![Evaluations[variant].backends[b]]
                        = sidecar[Evaluations[variant].backends[b]]]
    BY <1>5 DEF Evaluation!ReadContract, Evaluation!files
  <2>2. contract \in [Evaluation(variant)!Backend -> Evaluation(variant)!Content \cup {Nothing}]
        /\ sidecar = artifact /\ publishing = Nothing
    BY <2>1 DEF NamedInv, SetUp
  <2>3. contract' \in [Evaluation(variant)!Backend -> Evaluation(variant)!Content \cup {Nothing}]
        /\ contract'[Evaluations[variant].backends[b]] = artifact[Evaluations[variant].backends[b]]
    BY <1>a, <1>d, <2>1, <2>2 DEF FileTypes
  <2>4. \A j \in 1 .. Len(Evaluations[variant].backends) : j < b
      => contract'[Evaluations[variant].backends[j]] = contract[Evaluations[variant].backends[j]]
    BY <1>d, <2>1, <2>2, EvaluationFacts
  <2>5. \A j \in 1 .. Len(Evaluations[variant].backends) :
           j < b => /\ contract'[Evaluations[variant].backends[j]]
                         = lineage[Evaluations[variant].backends[j]]
                    /\ loaded[Evaluations[variant].backends[j]]
                         = lineage[Evaluations[variant].backends[j]]
    BY <2>1, <2>4 DEF NamedInv, SetUp
  <2> QED BY <2>1, <2>2, <2>3, <2>5 DEF NamedInv, SetUp
<1>6. CASE Evaluation(variant)!Load
  <2>1. UNCHANGED <<contract, lineage>> /\ UNCHANGED <<artifact, sidecar, publishing, b>>
        /\ pc = "load" /\ pc' = "lineage"
        /\ loaded' = [loaded EXCEPT ![Evaluations[variant].backends[b]]
                      = artifact[Evaluations[variant].backends[b]]]
    BY <1>6 DEF Evaluation!Load, Evaluation!files, Evaluation!names
  <2>2. loaded \in [Evaluation(variant)!Backend -> Evaluation(variant)!Content \cup {Nothing}]
    BY <2>1 DEF NamedInv
  <2>3. loaded' \in [Evaluation(variant)!Backend -> Evaluation(variant)!Content \cup {Nothing}]
        /\ loaded'[Evaluations[variant].backends[b]] = artifact[Evaluations[variant].backends[b]]
    BY <1>a, <1>d, <2>1, <2>2 DEF FileTypes
  <2>4. \A j \in 1 .. Len(Evaluations[variant].backends) : j < b
      => loaded'[Evaluations[variant].backends[j]] = loaded[Evaluations[variant].backends[j]]
    BY <1>d, <2>1, <2>2, EvaluationFacts
  <2> QED BY <2>1, <2>2, <2>3, <2>4 DEF NamedInv, SetUp
<1>7. CASE Evaluation(variant)!HashLineage
  <2>1. UNCHANGED <<contract, loaded>> /\ UNCHANGED <<artifact, sidecar, publishing>>
        /\ pc = "lineage" /\ lineage'
           = [lineage EXCEPT ![Evaluations[variant].backends[b]]
              = artifact[Evaluations[variant].backends[b]]]
        /\ \/ b < Len(Evaluations[variant].backends) /\ pc' = "contract" /\ b' = b + 1
           \/ b = Len(Evaluations[variant].backends) /\ pc' = "match" /\ b' = 1
    BY <1>7, <1>d DEF Evaluation!HashLineage, Evaluation!files
  <2>2. /\ contract \in [Evaluation(variant)!Backend -> Evaluation(variant)!Content \cup {Nothing}]
        /\ loaded \in [Evaluation(variant)!Backend -> Evaluation(variant)!Content \cup {Nothing}]
        /\ lineage \in [Evaluation(variant)!Backend -> Evaluation(variant)!Content \cup {Nothing}]
    BY <1>a DEF NamedInv, FileTypes
  <2>3. ASSUME NEW j \in 1 .. Len(Evaluations[variant].backends), j <= b
        PROVE  /\ contract[Evaluations[variant].backends[j]]
                  = lineage'[Evaluations[variant].backends[j]]
               /\ loaded[Evaluations[variant].backends[j]]
                  = lineage'[Evaluations[variant].backends[j]]
    <3>1. CASE j = b BY <1>d, <2>1, <2>2, <3>1 DEF NamedInv
    <3>2. CASE j < b
      <4>1. lineage'[Evaluations[variant].backends[j]] = lineage[Evaluations[variant].backends[j]]
        BY <1>d, <2>1, <2>2, <3>2, EvaluationFacts
      <4> QED BY <2>1, <3>2, <4>1 DEF NamedInv, SetUp
    <3> QED BY <1>d, <2>3, <3>1, <3>2
  <2>4. pc' = "match" => contract = lineage' /\ loaded = lineage'
    <3>1. lineage' \in [Evaluation(variant)!Backend -> Evaluation(variant)!Content \cup {Nothing}]
      BY <1>a, <1>d, <2>1, <2>2 DEF FileTypes
    <3>2. pc' = "match" => \A a \in Evaluation(variant)!Backend : contract[a] = lineage'[a]
        /\ loaded[a] = lineage'[a]
      BY <2>1, <2>3, EvaluationFacts, SMTT(60)
    <3> QED BY <2>2, <3>1, <3>2
  <2>5. \A j \in 1 .. Len(Evaluations[variant].backends) :
          pc' \in SetUp /\ j < b' => /\ contract[Evaluations[variant].backends[j]]
                                        = lineage'[Evaluations[variant].backends[j]]
                                     /\ loaded[Evaluations[variant].backends[j]]
                                        = lineage'[Evaluations[variant].backends[j]]
    BY <1>d, <2>1, <2>3 DEF SetUp
  <2> QED BY <2>1, <2>2, <2>4, <2>5 DEF NamedInv, SetUp
<1>8. CASE \/ Evaluation(variant)!Match \/ Evaluation(variant)!ReadImage
              \/ Evaluation(variant)!ReusableCall
           \/ Evaluation(variant)!Transfer \/ Evaluation(variant)!Synchronize
              \/ Evaluation(variant)!Decode
           \/ Evaluation(variant)!RunOnnx \/ Evaluation(variant)!SkipImage
              \/ Evaluation(variant)!TakeImage
           \/ Evaluation(variant)!Flush \/ Evaluation(variant)!FlushLast \/ Evaluation(variant)!Fail
              \/ Evaluation(variant)!Incomplete
           \/ Evaluation(variant)!EvaluationContract \/ Evaluation(variant)!BackendEntry
  <2>1. UNCHANGED <<contract, loaded, lineage>>
    BY <1>8 DEF Evaluation!Match, Evaluation!ReadImage, Evaluation!ReusableCall,
                Evaluation!Transfer, Evaluation!Synchronize, Evaluation!Decode, Evaluation!RunOnnx,
                Evaluation!SkipImage, Evaluation!TakeImage, Evaluation!Flush, Evaluation!FlushLast,
                Evaluation!Fail, Evaluation!Incomplete, Evaluation!EvaluationContract,
                Evaluation!BackendEntry, Evaluation!names
  <2>2. pc \notin SetUp /\ pc' \notin SetUp
    BY <1>8
       DEF Evaluation!Match, Evaluation!ReadImage, Evaluation!ReusableCall, SetUp,
           Evaluation!Transfer, Evaluation!Synchronize, Evaluation!Decode, Evaluation!RunOnnx,
           Evaluation!SkipImage, Evaluation!TakeImage, Evaluation!Flush, Evaluation!FlushLast,
           Evaluation!Fail, Evaluation!Incomplete, Evaluation!EvaluationContract,
           Evaluation!BackendEntry, Evaluation!Decoded, Evaluation!NextImage
  <2> QED BY <2>1, <2>2 DEF NamedInv, SetUp
<1> QED BY <1>1, <1>2, <1>3, <1>4, <1>5, <1>6, <1>7, <1>8 DEF Evaluation!Next

\* An accepted report of the Python evaluator names the bytes that were measured and a
\* model contract that is theirs, whatever is published once the images have begun.
LEMMA NamesHold == Evaluation(variant)!EvaluationAssumption /\ Evaluations[variant].tool = "python"
  /\ Evaluations[variant].write_during \cap SetUp = {} =>
                       (Evaluation(variant)!Spec => []NamedInv)
<1> SUFFICES ASSUME Evaluation(variant)!EvaluationAssumption, Evaluations[variant].tool = "python",
                    Evaluations[variant].write_during \cap SetUp = {}
             PROVE  Evaluation(variant)!Spec => []NamedInv
  OBVIOUS
<1>1. Evaluation(variant)!Init => NamedInv
  <2>1. Evaluation(variant)!Init => SourceInv BY SourceInit
  <2>2. Evaluation(variant)!Init => /\ b = 1 /\ pc = "start" /\ publishing = Nothing
                                       /\ sidecar = artifact
                           /\ contract = [a \in Evaluation(variant)!Backend |-> Nothing]
                              /\ loaded = contract
    BY DEF Evaluation!Init
  <2>3. \A j \in 1 .. Len(Evaluations[variant].backends) : ~(j < 1)
    BY EvaluationFacts
  <2> QED BY <2>1, <2>2, <2>3 DEF NamedInv, SetUp
<1>2. NamedInv /\ [Evaluation(variant)!Next]_(Evaluation(variant)!vars) => NamedInv'
  BY PhaseStep, SourceStep, NamedStep DEF NamedInv, SourceInv
<1> QED BY <1>1, <1>2, PTL DEF Evaluation!Spec

LEMMA NamedIsMeasured ==
    ASSUME Evaluation(variant)!EvaluationAssumption, Evaluations[variant].tool = "python",
           Evaluations[variant].write_during \cap SetUp = {}
    PROVE  NamedInv => Evaluation(variant)!MeasuredIsNamed
<1>3. NamedInv => Evaluation(variant)!MeasuredIsNamed
  BY DEF NamedInv, SourceInv, SetUp, Evaluation!MeasuredIsNamed, Evaluation!Accepted
<1> QED BY <1>3

------------------------------
(* BenchmarkRun: where a benchmark may be *)

Early == {"contract", "lineage", "facts", "match"}
NativeSteps == {"runtime", "round", "score", "check"}
OwnSteps == {"backend", "measure"}
Entries == {"entry", "written"} \cup NativeSteps \cup OwnSteps

BenchmarkPhase ==
    /\ pc \in Early \cup Entries \cup {"failed"}
    /\ b \in 1 .. Len(Benchmarks[variant].backends)
    /\ pc \in {"contract", "lineage", "facts"} => p \in 1 .. Len(Benchmark(variant)!Paths)
    /\ pc \in NativeSteps => Benchmarks[variant].backends[b] \in Benchmark(variant)!Native
    /\ pc \in OwnSteps => Benchmarks[variant].backends[b] \notin Benchmark(variant)!Native
    /\ pc = "round" => Benchmarks[variant].latency
    /\ pc = "score" => Benchmarks[variant].accuracy
    /\ process # Nothing => pc \in {"round", "score"}
    /\ pc \in Early => DOMAIN report = {}

LEMMA BenchmarkFacts ==
    ASSUME Benchmark(variant)!BenchmarkAssumption
    PROVE  /\ Len(Benchmarks[variant].backends) \in Nat /\ Len(Benchmarks[variant].backends) >= 1
           /\ \A j \in 1 .. Len(Benchmarks[variant].backends) :
              Benchmarks[variant].backends[j] \in Benchmark(variant)!Backend
           /\ \A a \in Benchmark(variant)!Backend :
              \E j \in 1 .. Len(Benchmarks[variant].backends) : a = Benchmarks[variant].backends[j]
           /\ Benchmark(variant)!Backend \subseteq {"trt", "onnx", "torch", "cpp", "cpp-graph"}
           /\ Len(Benchmark(variant)!Paths) \in Nat
           /\ \A f \in Benchmark(variant)!Path : \E j \in 1 .. Len(Benchmark(variant)!Paths) :
              Benchmark(variant)!Paths[j] = f
           /\ Benchmark(variant)!Paths # <<>> => Len(Benchmark(variant)!Paths) >= 1
           /\ \A j \in 1 .. Len(Benchmark(variant)!Paths) :
              Benchmark(variant)!Paths[j] \in Benchmark(variant)!Path
           /\ Benchmark(variant)!Paths = <<>> => Benchmark(variant)!Path = {}
           /\ Benchmark(variant)!Path \subseteq {"engine", "onnx"}
           /\ Benchmarks[variant].latency \/ Benchmarks[variant].accuracy
           /\ Benchmarks[variant].rounds \in Nat \ {0}
<1>1. Benchmarks[variant].backends \in Seq({"trt", "onnx", "torch", "cpp", "cpp-graph"})
    /\ Benchmarks[variant].backends # <<>>
  BY DEF Benchmark!BenchmarkAssumption, Benchmark!Native
<1>2. /\ Len(Benchmarks[variant].backends) \in Nat /\ Len(Benchmarks[variant].backends) >= 1
         /\ DOMAIN Benchmarks[variant].backends = 1 .. Len(Benchmarks[variant].backends)
  BY <1>1
<1>3. /\ \A j \in 1 .. Len(Benchmarks[variant].backends) :
         Benchmarks[variant].backends[j] \in Benchmark(variant)!Backend
      /\ \A a \in Benchmark(variant)!Backend : \E j \in 1 .. Len(Benchmarks[variant].backends) :
         a = Benchmarks[variant].backends[j]
      /\ Benchmark(variant)!Backend \subseteq {"trt", "onnx", "torch", "cpp", "cpp-graph"}
  BY <1>1, <1>2 DEF Benchmark!Backend, Benchmark!Range
<1>4. Benchmark(variant)!Paths \in Seq({"engine", "onnx"})
  <2>1. Benchmark(variant)!IfUsed("engine") \in Seq({"engine", "onnx"})
        /\ Benchmark(variant)!IfUsed("onnx") \in Seq({"engine", "onnx"})
    <3>1. ASSUME NEW f \in {"engine", "onnx"}
        PROVE Benchmark(variant)!IfUsed(f) \in Seq({"engine", "onnx"})
      <4>1. <<f>> \in Seq({"engine", "onnx"}) /\ <<>> \in Seq({"engine", "onnx"})
        OBVIOUS
      <4>2. Benchmark(variant)!IfUsed(f) = <<f>> \/ Benchmark(variant)!IfUsed(f) = <<>>
        BY DEF Benchmark!IfUsed
      <4> QED BY <4>1, <4>2
    <3> QED BY <3>1
  <2> QED BY <2>1 DEF Benchmark!Paths
<1>5. /\ Len(Benchmark(variant)!Paths) \in Nat
      /\ Benchmark(variant)!Paths # <<>> => Len(Benchmark(variant)!Paths) >= 1
      /\ DOMAIN Benchmark(variant)!Paths = 1 .. Len(Benchmark(variant)!Paths)
  BY <1>4
<1>6. /\ \A j \in 1 .. Len(Benchmark(variant)!Paths) :
         Benchmark(variant)!Paths[j] \in Benchmark(variant)!Path
      /\ \A f \in Benchmark(variant)!Path : \E j \in 1 .. Len(Benchmark(variant)!Paths) :
         Benchmark(variant)!Paths[j] = f
      /\ Benchmark(variant)!Path \subseteq {"engine", "onnx"}
  BY <1>4, <1>5 DEF Benchmark!Path, Benchmark!Range
<1>7. Benchmark(variant)!Paths = <<>> => Benchmark(variant)!Path = {}
  <2>1. ASSUME Benchmark(variant)!Paths = <<>> PROVE Len(Benchmark(variant)!Paths) = 0
    BY <2>1
  <2> QED BY <1>5, <2>1 DEF Benchmark!Path, Benchmark!Range
<1>8. (Benchmarks[variant].latency \/ Benchmarks[variant].accuracy)
    /\ Benchmarks[variant].rounds \in Nat \ {0}
  BY DEF Benchmark!BenchmarkAssumption
<1> QED BY <1>2, <1>3, <1>5, <1>6, <1>7, <1>8

LEMMA BenchmarkPhaseStep ==
    ASSUME Benchmark(variant)!BenchmarkAssumption, BenchmarkPhase,
           [Benchmark(variant)!Next]_(Benchmark(variant)!vars)
    PROVE  BenchmarkPhase'
<1> USE BenchmarkFacts DEF BenchmarkPhase, Early, NativeSteps, OwnSteps, Entries
<1>1. CASE \/ \E f \in {Benchmark(variant)!Source(name) : name \in Benchmark(variant)!Backend}
              \cup {"checkpoint"} :
                 Benchmark(variant)!Publish(f)
           \/ Benchmark(variant)!PublishSidecar
           \/ \E f \in Benchmark(variant)!Program \cup Benchmark(variant)!Library :
              Benchmark(variant)!Rebuild(f)
           \/ UNCHANGED Benchmark(variant)!vars
  BY <1>1 DEF Benchmark!Publish, Benchmark!PublishSidecar, Benchmark!Rebuild, Benchmark!vars
<1>2. CASE Benchmark(variant)!ReadContract \/ Benchmark(variant)!HashLineage
    \/ Benchmark(variant)!Match
  BY <1>2 DEF Benchmark!ReadContract, Benchmark!HashLineage, Benchmark!Match
<1>3. CASE Benchmark(variant)!EngineContract
  BY <1>3 DEF Benchmark!EngineContract, Benchmark!NextPath
<1>4. CASE Benchmark(variant)!BeginEntry \/ Benchmark(variant)!NameRuntime
    \/ Benchmark(variant)!MakeBackend
  BY <1>4 DEF Benchmark!BeginEntry, Benchmark!NameRuntime, Benchmark!MakeBackend, Benchmark!Current
<1>5. CASE Benchmark(variant)!StartRound \/ Benchmark(variant)!StartScore
    \/ Benchmark(variant)!LoadEngine
  BY <1>5 DEF Benchmark!StartRound, Benchmark!StartScore, Benchmark!LoadEngine, Benchmark!Start
<1>6. CASE Benchmark(variant)!EndRound \/ Benchmark(variant)!EndScore
    \/ Benchmark(variant)!MeasureFails
  BY <1>6 DEF Benchmark!EndRound, Benchmark!EndScore, Benchmark!MeasureFails
<1>7. CASE Benchmark(variant)!CheckRuntime \/ Benchmark(variant)!Measure
  <2>1. /\ pc \in {"check", "measure"} /\ process' = process /\ p' = p
        /\ pc' \in {"entry", "written", "failed"}
           /\ (b' = b \/ (b < Len(Benchmarks[variant].backends) /\ b' = b + 1))
    BY <1>7 DEF Benchmark!CheckRuntime, Benchmark!Measure, Benchmark!EndEntry
  <2> QED BY <2>1
<1> QED BY <1>1, <1>2, <1>3, <1>4, <1>5, <1>6, <1>7 DEF Benchmark!Next

------------------------------
(* BenchmarkRun: the artifacts, of which a later one has a higher number *)

ArtifactTypes ==
    /\ artifact \in [Benchmark(variant)!File -> Benchmark(variant)!Content]
    /\ published \in 0 .. Benchmarks[variant].max_publications
    /\ \A f \in Benchmark(variant)!File : artifact[f].made <= published

Numbered ==
    /\ ArtifactTypes'
    /\ \A f \in Benchmark(variant)!File : /\ artifact[f].made \in Nat /\ artifact'[f].made \in Nat
                                 /\ artifact[f].made <= artifact'[f].made

LEMMA ArtifactStep ==
    ASSUME Benchmark(variant)!BenchmarkAssumption, ArtifactTypes,
           [Benchmark(variant)!Next]_(Benchmark(variant)!vars)
    PROVE  Numbered
<1>a. /\ artifact \in [Benchmark(variant)!File -> Benchmark(variant)!Content]
         /\ published \in 0 .. Benchmarks[variant].max_publications
      /\ \A f \in Benchmark(variant)!File : artifact[f].made <= published
      /\ Benchmarks[variant].max_publications \in Nat
      /\ \A c \in Benchmark(variant)!Content : c.made \in Nat /\ c.from \in Nat
  BY DEF ArtifactTypes, Benchmark!BenchmarkAssumption, Benchmark!Content
<1>1. ASSUME UNCHANGED <<artifact, published>> PROVE Numbered
  BY <1>a, <1>1 DEF Numbered, ArtifactTypes
<1>2. ASSUME NEW f \in {Benchmark(variant)!Source(name) : name \in Benchmark(variant)!Backend}
    \cup {"checkpoint"},
             Benchmark(variant)!Publish(f)
      PROVE  Numbered
  <2>1. f \in Benchmark(variant)!File
    BY <1>2, BenchmarkFacts DEF Benchmark!Source, Benchmark!File, Benchmark!Native
  <2>2. published < Benchmarks[variant].max_publications /\ published' = published + 1
    BY <1>2 DEF Benchmark!Publish
  <2> DEFINE n == published + 1
  <2>3. PICK m \in Benchmarks[variant].max_batches :
          artifact' = [artifact EXCEPT ![f]
                       = [Benchmark(variant)!Published(f, n) EXCEPT !.max_batch = m]]
    BY <1>2 DEF Benchmark!Publish
  <2>4. n \in 0 .. Benchmarks[variant].max_publications BY <1>a, <2>2
  <2> HIDE DEF n
  <2>5. \A g \in Benchmark(variant)!File : artifact[g] \in Benchmark(variant)!Content
    BY <1>a
  <2>6. /\ artifact["onnx"].made \in 0 .. Benchmarks[variant].max_publications
        /\ artifact["onnx"].checkpoint \in 0 .. Benchmarks[variant].max_publications
        /\ artifact["checkpoint"].checkpoint \in 0 .. Benchmarks[variant].max_publications
    BY <2>5 DEF Benchmark!Content, Benchmark!File
  <2>7. Benchmark(variant)!Published(f, n) \in Benchmark(variant)!Content
      /\ Benchmark(variant)!Published(f, n).made = n
    <3> DEFINE c == artifact[f]
    <3>1. c \in Benchmark(variant)!Content BY <2>1, <2>5
    <3>2. Benchmark(variant)!Published(f, n) =
            IF f = "checkpoint" THEN [c EXCEPT !.made = n, !.checkpoint = n]
            ELSE IF f = "onnx" THEN [c EXCEPT !.made = n, !.from = n,
                                              !.checkpoint = artifact["checkpoint"].checkpoint]
            ELSE [c EXCEPT !.made = n, !.from = artifact["onnx"].made,
                           !.checkpoint = artifact["onnx"].checkpoint]
      BY <2>1 DEF Benchmark!Published, Benchmark!File
    <3> HIDE DEF c
    <3> QED BY <2>4, <2>6, <3>1, <3>2 DEF Benchmark!Content
  <2> DEFINE new == [Benchmark(variant)!Published(f, n) EXCEPT !.max_batch = m]
  <2>8. new \in Benchmark(variant)!Content /\ new.made = n
    BY <2>7 DEF Benchmark!Content
  <2> HIDE DEF new
  <2>9. artifact' = [artifact EXCEPT ![f] = new] BY <2>3 DEF new
  <2>10. artifact' \in [Benchmark(variant)!File -> Benchmark(variant)!Content]
    BY <1>a, <2>1, <2>8, <2>9
  <2>11. ASSUME NEW g \in Benchmark(variant)!File
         PROVE  /\ artifact[g].made \in Nat /\ artifact'[g].made \in Nat
                /\ artifact[g].made <= artifact'[g].made /\ artifact'[g].made <= published'
    <3>1. artifact'[g] = IF g = f THEN new ELSE artifact[g]
      BY <1>a, <2>9
    <3>2. artifact[g].made \in Nat /\ artifact[g].made <= published /\ published \in Nat
      BY <1>a
    <3> QED BY <2>2, <2>8, <3>1, <3>2 DEF n
  <2> QED BY <1>a, <2>2, <2>4, <2>10, <2>11 DEF Numbered, ArtifactTypes, n
<1>3. CASE \/ \E f \in Benchmark(variant)!Program \cup Benchmark(variant)!Library :
              Benchmark(variant)!Rebuild(f)
           \/ Benchmark(variant)!PublishSidecar \/ UNCHANGED Benchmark(variant)!vars
  BY <1>1, <1>3 DEF Benchmark!Rebuild, Benchmark!PublishSidecar, Benchmark!vars
<1>4. CASE \/ Benchmark(variant)!ReadContract \/ Benchmark(variant)!HashLineage
              \/ Benchmark(variant)!EngineContract
           \/ Benchmark(variant)!Match \/ Benchmark(variant)!BeginEntry
              \/ Benchmark(variant)!NameRuntime
           \/ Benchmark(variant)!StartRound \/ Benchmark(variant)!StartScore
              \/ Benchmark(variant)!LoadEngine
           \/ Benchmark(variant)!EndRound \/ Benchmark(variant)!EndScore
              \/ Benchmark(variant)!MeasureFails
           \/ Benchmark(variant)!CheckRuntime \/ Benchmark(variant)!MakeBackend
              \/ Benchmark(variant)!Measure
  BY <1>1, <1>4
     DEF Benchmark!ReadContract, Benchmark!HashLineage, Benchmark!EngineContract,
         Benchmark!Match, Benchmark!BeginEntry, Benchmark!NameRuntime, Benchmark!Start,
         Benchmark!StartRound, Benchmark!StartScore, Benchmark!LoadEngine,
         Benchmark!EndRound, Benchmark!EndScore, Benchmark!MeasureFails,
         Benchmark!CheckRuntime, Benchmark!MakeBackend, Benchmark!Measure, Benchmark!files
<1> QED BY <1>2, <1>3, <1>4 DEF Benchmark!Next

------------------------------
(* BenchmarkRun: the programs and the library that a native entry names *)

\* The library that all executables of this benchmark resolve to.
TheLibrary == CHOOSE l \in Benchmark(variant)!Libraries : TRUE

Runs == [program : Nat, library : Nat, engine : Benchmark(variant)!Content,
         batches : SUBSET Benchmarks[variant].batches]
Processes == [program : Benchmark(variant)!Program, version : Nat, library : Nat,
              engine : Benchmark(variant)!Content \cup {Nothing}]

EntryRecords ==
    [artifact : {entry.artifact}, runtime : {entry.runtime}, loaded : {entry.loaded},
     rounds : Seq(Runs), scored : Runs \cup {Nothing}]

\* A run is no older than what the entry names, and no newer than what is there now.
Since(made, library, e) ==
    /\ entry.runtime.library <= library /\ library <= version[TheLibrary]
    /\ entry.runtime.programs[e] <= made /\ made <= version[e]

MeasuredSo ==
    /\ entry \in EntryRecords
    /\ entry.runtime \in [programs : [Benchmark(variant)!Executables -> Nat], library : Nat]
    /\ \A e \in Benchmark(variant)!Executables : linked[e] = TheLibrary
    /\ entry.runtime.library <= version[TheLibrary]
    /\ \A e \in Benchmark(variant)!Executables : entry.runtime.programs[e] <= version[e]
    /\ process # Nothing =>
          /\ process \in Processes
          /\ process.program = (IF pc = "round" THEN "dfine_bench" ELSE "dfine_coco_eval")
          /\ Since(process.version, process.library, process.program)
    /\ \A j \in 1 .. Len(entry.rounds) :
          /\ Since(entry.rounds[j].program, entry.rounds[j].library, "dfine_bench")
          /\ entry.rounds[j].batches = Benchmarks[variant].batches
    /\ entry.scored # Nothing
       => Since(entry.scored.program, entry.scored.library, "dfine_coco_eval")
    /\ pc = "round" => Len(entry.rounds) < Benchmarks[variant].rounds
    /\ pc # "round" /\ Benchmarks[variant].latency => Len(entry.rounds) = Benchmarks[variant].rounds
    /\ ~Benchmarks[variant].latency => entry.rounds = <<>>
    /\ ~Benchmarks[variant].accuracy => entry.scored = Nothing

Faithful(r) ==
    /\ r.rounds \in Seq(Runs)
    /\ \A j \in 1 .. Len(r.rounds) :
          /\ r.rounds[j].library = r.runtime.library
          /\ r.rounds[j].program = r.runtime.programs["dfine_bench"]
          /\ r.rounds[j].batches = Benchmarks[variant].batches
    /\ r.scored # Nothing => r.scored.library = r.runtime.library
    /\ Benchmarks[variant].latency => Len(r.rounds) = Benchmarks[variant].rounds

RuntimeInv ==
    /\ BenchmarkPhase /\ ArtifactTypes
    /\ version \in [Benchmark(variant)!Program \cup Benchmark(variant)!Library -> Nat]
    /\ linked \in [Benchmark(variant)!Program -> Benchmark(variant)!Library]
    /\ pc = "runtime" => entry \in EntryRecords /\ entry.rounds = <<>> /\ entry.scored = Nothing
    /\ pc \in {"round", "score", "check"} => MeasuredSo
    /\ \A name \in DOMAIN report \cap Benchmark(variant)!Native : Faithful(report[name])

LEMMA OneLibrary ==
    ASSUME Benchmark(variant)!BenchmarkAssumption,
           linked \in [Benchmark(variant)!Program -> Benchmark(variant)!Library],
           Benchmark(variant)!Cardinality(Benchmark(variant)!Libraries) = 1
    PROVE  \A e \in Benchmark(variant)!Executables : linked[e] = TheLibrary
<1>1. Benchmark(variant)!Libraries \subseteq {"libdfine", "other libdfine"}
  BY DEF Benchmark!Libraries, Benchmark!Executables, Benchmark!Program, Benchmark!Library
<1>2. IsFiniteSet(Benchmark(variant)!Libraries)
  <2>1. IsFiniteSet({"libdfine"}) BY FS_Singleton
  <2>2. IsFiniteSet({"libdfine"} \cup {"other libdfine"})
    BY <2>1, FS_AddElement
  <2>3. Benchmark(variant)!Libraries \subseteq {"libdfine"} \cup {"other libdfine"}
    BY <1>1
  <2> QED BY <2>2, <2>3, FS_Subset
<1>3. Benchmark(variant)!Cardinality(Benchmark(variant)!Libraries)
    = Cardinality(Benchmark(variant)!Libraries)
  BY DEF Benchmark!Cardinality, Cardinality
<1>4. PICK l : Benchmark(variant)!Libraries = {l}
  BY <1>2, <1>3, FS_Singleton
<1>5. TheLibrary = l BY <1>4 DEF TheLibrary
<1> QED BY <1>4, <1>5 DEF Benchmark!Libraries

\* Where the entry, its process and the report stay, a rebuild moves no run out of
\* its bounds, for versions only grow.
LEMMA RuntimeKept ==
    ASSUME Benchmark(variant)!BenchmarkAssumption, RuntimeInv, BenchmarkPhase', ArtifactTypes',
           UNCHANGED <<linked, pc, entry, process, report>>,
           version' \in [Benchmark(variant)!Program \cup Benchmark(variant)!Library -> Nat],
           \A f \in Benchmark(variant)!Program \cup Benchmark(variant)!Library :
             version[f] <= version'[f]
    PROVE  RuntimeInv'
<1>a. /\ version \in [Benchmark(variant)!Program \cup Benchmark(variant)!Library -> Nat]
      /\ linked \in [Benchmark(variant)!Program -> Benchmark(variant)!Library]
  BY DEF RuntimeInv
<1>1. TheLibrary' = TheLibrary BY DEF TheLibrary, Benchmark!Libraries
<1>2. ASSUME pc \in {"round", "score", "check"} PROVE MeasuredSo'
  <2>1. MeasuredSo BY <1>2 DEF RuntimeInv
  <2>2. TheLibrary \in Benchmark(variant)!Program \cup Benchmark(variant)!Library
    <3>1. PICK e \in Benchmark(variant)!Executables : TRUE
      BY DEF Benchmark!Executables, Benchmark!BenchmarkAssumption
    <3>2. e \in Benchmark(variant)!Program /\ linked[e] = TheLibrary
      BY <2>1, <3>1 DEF MeasuredSo, Benchmark!Executables, Benchmark!Program
    <3> QED BY <1>a, <3>2
  <2>3. entry.runtime \in [programs : [Benchmark(variant)!Executables -> Nat], library : Nat]
        /\ entry \in EntryRecords
    BY <2>1 DEF MeasuredSo
  <2>4. \A m, n, e : Since(m, n, e) /\ m \in Nat /\ n \in Nat /\ e \in Benchmark(variant)!Program
                        => Since(m, n, e)'
    BY <1>a, <1>1, <2>2 DEF Since
  <2>5. /\ entry'.runtime.library <= version'[TheLibrary']
        /\ \A e \in Benchmark(variant)!Executables : entry'.runtime.programs[e] <= version'[e]
    <3>1. entry.runtime.library \in Nat /\ version[TheLibrary] \in Nat
        /\ version'[TheLibrary] \in Nat
          /\ version[TheLibrary] <= version'[TheLibrary]
             /\ entry.runtime.library <= version[TheLibrary]
      BY <1>a, <2>1, <2>2, <2>3 DEF MeasuredSo
    <3>2. ASSUME NEW e \in Benchmark(variant)!Executables
          PROVE  entry.runtime.programs[e] <= version'[e]
      <4>1. e \in Benchmark(variant)!Program
        BY DEF Benchmark!Executables, Benchmark!Program
      <4>2. entry.runtime.programs[e] \in Nat /\ entry.runtime.programs[e] <= version[e]
        BY <2>1, <2>3 DEF MeasuredSo
      <4> QED BY <1>a, <4>1, <4>2
    <3> QED BY <1>1, <3>1, <3>2
  <2>6. process # Nothing => Since(process.version, process.library, process.program)'
    BY <2>1, <2>4 DEF MeasuredSo, Processes
  <2>7. \A j \in 1 .. Len(entry.rounds) :
           Since(entry.rounds[j].program, entry.rounds[j].library, "dfine_bench")'
    <3> SUFFICES ASSUME NEW j \in 1 .. Len(entry.rounds)
                 PROVE  Since(entry.rounds[j].program, entry.rounds[j].library, "dfine_bench")'
      OBVIOUS
    <3>1. entry.rounds[j] \in Runs BY <2>3 DEF EntryRecords
    <3>2. entry.rounds[j].program \in Nat /\ entry.rounds[j].library \in Nat
      BY <3>1 DEF Runs
    <3> QED BY <2>1, <2>4, <3>2 DEF MeasuredSo, Benchmark!Program
  <2>8. entry.scored # Nothing =>
           Since(entry.scored.program, entry.scored.library, "dfine_coco_eval")'
    <3>1. entry.scored # Nothing => entry.scored.program \in Nat /\ entry.scored.library \in Nat
      BY <2>3 DEF EntryRecords, Runs
    <3> QED BY <2>1, <2>4, <3>1 DEF MeasuredSo, Benchmark!Program
  <2> QED BY <1>1, <2>1, <2>5, <2>6, <2>7, <2>8 DEF MeasuredSo, EntryRecords, Runs, Processes
<1> QED BY <1>a, <1>2, ZenonT(60) DEF RuntimeInv, EntryRecords, Runs, Faithful

LEMMA RuntimeElsewhere ==
    ASSUME Benchmark(variant)!BenchmarkAssumption, RuntimeInv, BenchmarkPhase', ArtifactTypes',
           UNCHANGED <<linked, version, report>>,
           pc' \notin {"runtime", "round", "score", "check"}
    PROVE  RuntimeInv'
BY DEF RuntimeInv, Faithful

LEMMA RuntimeBegins ==
    ASSUME Benchmark(variant)!BenchmarkAssumption, RuntimeInv, BenchmarkPhase', ArtifactTypes',
           Benchmark(variant)!BeginEntry
    PROVE  RuntimeInv'
<1>1. /\ UNCHANGED <<linked, version, report>> /\ pc' \in {"runtime", "backend"}
      /\ entry' = [Benchmark(variant)!NoEntry EXCEPT !.artifact
                   = artifact[Benchmark(variant)!Source(Benchmark(variant)!Current)]]
  BY DEF Benchmark!BeginEntry, Benchmark!files
<1>2. entry' = [artifact |-> artifact[Benchmark(variant)!Source(Benchmark(variant)!Current)],
                runtime |-> Nothing,
                loaded |-> Nothing, rounds |-> <<>>, scored |-> Nothing]
  <2> DEFINE a == artifact[Benchmark(variant)!Source(Benchmark(variant)!Current)]
  <2>1. entry' = [Benchmark(variant)!NoEntry EXCEPT !.artifact = a]
    BY <1>1
  <2> HIDE DEF a
  <2>2. entry' = [artifact |-> a, runtime |-> Nothing, loaded |-> Nothing, rounds |-> <<>>,
                  scored |-> Nothing]
    BY <2>1 DEF Benchmark!NoEntry
  <2> QED BY <2>2 DEF a
<1>3. <<>> \in Seq(Runs) /\ Nothing \in Runs \cup {Nothing} OBVIOUS
<1>4. entry' \in EntryRecords' /\ entry'.rounds = <<>> /\ entry'.scored = Nothing
  <2> HIDE DEF Benchmark!Source, Benchmark!Current
  <2>1. /\ entry'.rounds = <<>> /\ entry'.scored = Nothing /\ entry'.runtime = Nothing
        /\ entry'.loaded = Nothing
           /\ entry'.artifact = artifact[Benchmark(variant)!Source(Benchmark(variant)!Current)]
    BY <1>2
  <2>2. EntryRecords' = [artifact : {entry'.artifact}, runtime : {entry'.runtime},
                         loaded : {entry'.loaded}, rounds : Seq(Runs), scored : Runs \cup {Nothing}]
    BY DEF EntryRecords, Runs
  <2>3. entry' = [artifact |-> entry'.artifact, runtime |-> entry'.runtime,
                  loaded |-> entry'.loaded,
                  rounds |-> <<>>, scored |-> Nothing]
    BY <1>2, <2>1
  <2> QED BY <1>3, <2>1, <2>2, <2>3
<1> QED BY <1>1, <1>4 DEF RuntimeInv, Faithful

LEMMA RuntimeIsTaken ==
    ASSUME Benchmark(variant)!BenchmarkAssumption, RuntimeInv, BenchmarkPhase', ArtifactTypes',
           Benchmark(variant)!NameRuntime
    PROVE  RuntimeInv'
<1>1. CASE Benchmark(variant)!Cardinality(Benchmark(variant)!Libraries) # 1
  BY <1>1, RuntimeElsewhere DEF Benchmark!NameRuntime, Benchmark!files
<1>2. CASE Benchmark(variant)!Cardinality(Benchmark(variant)!Libraries) = 1
  <2>1. /\ UNCHANGED <<linked, version, report, process>> /\ pc = "runtime"
        /\ entry' = [entry EXCEPT !.runtime = Benchmark(variant)!NativeRuntimeArtifacts]
        /\ pc' = IF Benchmarks[variant].latency THEN "round" ELSE "score"
    BY <1>2 DEF Benchmark!NameRuntime, Benchmark!files
  <2>2. /\ entry \in EntryRecords /\ entry.rounds = <<>> /\ entry.scored = Nothing
           /\ process = Nothing
        /\ version \in [Benchmark(variant)!Program \cup Benchmark(variant)!Library -> Nat]
        /\ linked \in [Benchmark(variant)!Program -> Benchmark(variant)!Library]
    BY <2>1 DEF RuntimeInv, BenchmarkPhase
  <2>3. \A e \in Benchmark(variant)!Executables : linked[e] = TheLibrary
    BY <1>2, <2>2, OneLibrary
  <2>4. TheLibrary \in Benchmark(variant)!Library
    <3>1. PICK e \in Benchmark(variant)!Executables : TRUE
      BY DEF Benchmark!Executables, Benchmark!BenchmarkAssumption
    <3> QED BY <2>2, <2>3, <3>1 DEF Benchmark!Executables, Benchmark!Program
  <2> DEFINE r == Benchmark(variant)!NativeRuntimeArtifacts
  <2>5. /\ r = [programs |-> [e \in Benchmark(variant)!Executables |-> version[e]],
                library |-> version[TheLibrary]]
    BY DEF Benchmark!NativeRuntimeArtifacts, TheLibrary
  <2>6. Benchmark(variant)!Executables \subseteq Benchmark(variant)!Program
    BY DEF Benchmark!Executables, Benchmark!Program
  <2>7. /\ r \in [programs : [Benchmark(variant)!Executables -> Nat], library : Nat]
        /\ r.library <= version[TheLibrary]
        /\ \A e \in Benchmark(variant)!Executables : r.programs[e] <= version[e]
    BY <2>2, <2>4, <2>5, <2>6
  <2>8. entry' \in EntryRecords' /\ entry'.runtime = r /\ entry'.rounds = <<>>
      /\ entry'.scored = Nothing
    <3> HIDE DEF r
    <3>1. entry' = [entry EXCEPT !.runtime = r] BY <2>1 DEF r
    <3> QED BY <2>2, <3>1 DEF EntryRecords, Runs
  <2> HIDE DEF r
  <2>9. TheLibrary' = TheLibrary /\ Benchmark(variant)!Executables' = Benchmark(variant)!Executables
    BY <2>1 DEF TheLibrary, Benchmark!Libraries, Benchmark!Executables
  <2>10. Benchmarks[variant].rounds \in Nat \ {0} /\ Len(entry'.rounds) = 0
    BY <2>8 DEF Benchmark!BenchmarkAssumption
  <2>11. MeasuredSo'
    BY <2>1, <2>2, <2>3, <2>7, <2>8, <2>9, <2>10 DEF MeasuredSo
  <2> QED BY <2>1, <2>2, <2>11 DEF RuntimeInv, Faithful
<1> QED BY <1>1, <1>2

\* A program maps what is there when it starts.
LEMMA RuntimeStarts ==
    ASSUME Benchmark(variant)!BenchmarkAssumption, RuntimeInv, BenchmarkPhase', ArtifactTypes',
           Benchmark(variant)!StartRound \/ Benchmark(variant)!StartScore
             \/ Benchmark(variant)!LoadEngine
    PROVE  RuntimeInv'
<1>1. /\ UNCHANGED <<artifact, linked, version, report, entry, pc>> /\ pc \in {"round", "score"}
      /\ pc = "round" => Benchmarks[variant].latency
      /\ pc = "score" => Benchmarks[variant].accuracy
  BY DEF Benchmark!StartRound, Benchmark!StartScore, Benchmark!Start, Benchmark!LoadEngine,
         Benchmark!files, RuntimeInv, BenchmarkPhase
<1>2. /\ MeasuredSo
      /\ version \in [Benchmark(variant)!Program \cup Benchmark(variant)!Library -> Nat]
      /\ linked \in [Benchmark(variant)!Program -> Benchmark(variant)!Library]
      /\ artifact \in [Benchmark(variant)!File -> Benchmark(variant)!Content]
  BY <1>1 DEF RuntimeInv, ArtifactTypes
<1>3. TheLibrary' = TheLibrary
  BY <1>1 DEF TheLibrary, Benchmark!Libraries
<1> DEFINE e == IF pc = "round" THEN "dfine_bench" ELSE "dfine_coco_eval"
<1> DEFINE Later(made, library, who) ==
             /\ entry'.runtime.library <= library /\ library <= version'[TheLibrary']
             /\ entry'.runtime.programs[who] <= made /\ made <= version'[who]
<1>4. e \in Benchmark(variant)!Executables /\ e \in Benchmark(variant)!Program
  BY <1>1 DEF Benchmark!Executables, Benchmark!Program
<1>5. process' # Nothing => /\ process' \in Processes
                            /\ process'.program = e
                            /\ Later(process'.version, process'.library, e)
  <2>1. CASE Benchmark(variant)!StartRound \/ Benchmark(variant)!StartScore
    <3>1. process' = [program |-> e, version |-> version[e], library |-> version[linked[e]],
                      engine |-> Nothing]
      BY <2>1 DEF Benchmark!StartRound, Benchmark!StartScore, Benchmark!Start
    <3> HIDE DEF e
    <3>2. process' \in Processes /\ process'.program = e
      BY <1>2, <1>4, <3>1 DEF Processes
    <3>3. /\ process'.version = version[e] /\ process'.library = version[TheLibrary]
          /\ version[e] \in Nat /\ version[TheLibrary] \in Nat
      BY <1>2, <1>4, <3>1 DEF MeasuredSo
    <3>4. entry.runtime.library <= version[TheLibrary] /\ entry.runtime.programs[e] <= version[e]
      BY <1>2, <1>4 DEF MeasuredSo
    <3> QED BY <1>1, <1>3, <3>2, <3>3, <3>4 DEF Since
  <2>2. CASE Benchmark(variant)!LoadEngine
    <3>1. process # Nothing /\ process' = [process EXCEPT !.engine = artifact["engine"]]
      BY <2>2 DEF Benchmark!LoadEngine
    <3>2. process \in Processes /\ artifact["engine"] \in Benchmark(variant)!Content
      BY <1>2, <3>1 DEF MeasuredSo, Benchmark!File
    <3>3. process' \in Processes /\ process'.program = process.program
          /\ process'.version = process.version /\ process'.library = process.library
      BY <3>1, <3>2 DEF Processes
    <3>4. process.program = e /\ Since(process.version, process.library, process.program)
      BY <1>2, <3>1 DEF MeasuredSo
    <3> HIDE DEF e
    <3> QED BY <1>1, <1>3, <3>3, <3>4 DEF Since
  <2> QED BY <2>1, <2>2
<1>6. entry' \in EntryRecords' /\ Processes' = Processes
  BY <1>1, <1>2 DEF MeasuredSo, EntryRecords, Runs, Processes
<1>7. process' # Nothing =>
          /\ process' \in Processes'
          /\ process'.program = (IF pc' = "round" THEN "dfine_bench" ELSE "dfine_coco_eval")
          /\ Since(process.version, process.library, process.program)'
  <2> SUFFICES ASSUME process' # Nothing
               PROVE  /\ process' \in Processes'
                      /\ process'.program = (IF pc' = "round" THEN "dfine_bench"
                                             ELSE "dfine_coco_eval")
                      /\ Since(process.version, process.library, process.program)'
    OBVIOUS
  <2>1. e = IF pc' = "round" THEN "dfine_bench" ELSE "dfine_coco_eval"
    BY <1>1
  <2> HIDE DEF e
  <2>2. process' \in Processes' /\ process'.program = e
      /\ Later(process'.version, process'.library, e)
    BY <1>5, <1>6
  <2>3. Since(process.version, process.library, process.program)'
    BY <2>2 DEF Since
  <2> QED BY <2>1, <2>2, <2>3
<1>8. \A j \in 1 .. Len(entry'.rounds) :
          /\ Since(entry.rounds[j].program, entry.rounds[j].library, "dfine_bench")'
          /\ entry'.rounds[j].batches = Benchmarks[variant].batches
  BY <1>1, <1>2, <1>3 DEF MeasuredSo, Since
<1>9. MeasuredSo'
  BY <1>1, <1>2, <1>3, <1>6, <1>7, <1>8 DEF MeasuredSo, Since
<1> QED BY <1>1, <1>2, <1>9 DEF RuntimeInv, Faithful

LEMMA RuntimeEndsRound ==
    ASSUME Benchmark(variant)!BenchmarkAssumption, RuntimeInv, BenchmarkPhase', ArtifactTypes',
           Benchmark(variant)!EndRound
    PROVE  RuntimeInv'
<1>1. CASE ~(Benchmark(variant)!BenchRuns /\ Benchmark(variant)!AllRows)
  BY <1>1, RuntimeElsewhere DEF Benchmark!EndRound, Benchmark!files
<1>2. CASE Benchmark(variant)!BenchRuns /\ Benchmark(variant)!AllRows
  <2>1. /\ UNCHANGED <<linked, version, report>> /\ pc = "round" /\ process # Nothing
        /\ process.engine # Nothing /\ process' = Nothing
        /\ entry' = [entry EXCEPT !.rounds = Append(entry.rounds, Benchmark(variant)!Ran)]
        /\ pc' = IF Len(entry.rounds) + 1 < Benchmarks[variant].rounds THEN "round"
                 ELSE IF Benchmarks[variant].accuracy THEN "score" ELSE "check"
        /\ Benchmark(variant)!Measured = Benchmarks[variant].batches
    BY <1>2 DEF Benchmark!EndRound, Benchmark!files, Benchmark!Loaded, Benchmark!AllRows,
                Benchmark!MoreRounds
  <2>2. MeasuredSo /\ Benchmarks[variant].latency /\ Benchmarks[variant].rounds \in Nat
    BY <2>1 DEF RuntimeInv, BenchmarkPhase, Benchmark!BenchmarkAssumption
  <2>3. /\ entry \in EntryRecords /\ entry.rounds \in Seq(Runs) /\ process \in Processes
        /\ process.program = "dfine_bench"
        /\ Since(process.version, process.library, process.program)
    BY <2>1, <2>2 DEF MeasuredSo, EntryRecords
  <2> DEFINE new == Benchmark(variant)!Ran
             all == Append(entry.rounds, new)
  <2>4. /\ new \in Runs /\ new.batches = Benchmarks[variant].batches
        /\ Since(new.program, new.library, "dfine_bench")
    <3>1. new = [program |-> process.version, library |-> process.library,
                 engine |-> process.engine, batches |-> Benchmarks[variant].batches]
      BY <2>1 DEF Benchmark!Ran
    <3>2. process.version \in Nat /\ process.library \in Nat
        /\ process.engine \in Benchmark(variant)!Content
      BY <2>1, <2>3 DEF Processes
    <3> QED BY <2>3, <3>1, <3>2 DEF Runs
  <2> HIDE DEF new
  <2>5. /\ all \in Seq(Runs) /\ Len(all) = Len(entry.rounds) + 1 /\ Len(entry.rounds) \in Nat
        /\ \A j \in 1 .. Len(entry.rounds) : all[j] = entry.rounds[j]
        /\ all[Len(entry.rounds) + 1] = new
    BY <2>3, <2>4
  <2>6. \A j \in 1 .. Len(all) : /\ Since(all[j].program, all[j].library, "dfine_bench")
                                 /\ all[j].batches = Benchmarks[variant].batches
    <3> SUFFICES ASSUME NEW j \in 1 .. Len(all)
                 PROVE  /\ Since(all[j].program, all[j].library, "dfine_bench")
                        /\ all[j].batches = Benchmarks[variant].batches
      OBVIOUS
    <3>1. j \in 1 .. Len(entry.rounds) \/ j = Len(entry.rounds) + 1
      BY <2>5
    <3>2. CASE j \in 1 .. Len(entry.rounds)
      BY <2>2, <2>5, <3>2 DEF MeasuredSo
    <3>3. CASE j = Len(entry.rounds) + 1 BY <2>4, <2>5, <3>3
    <3> QED BY <3>1, <3>2, <3>3
  <2> HIDE DEF all
  <2>7. entry' = [entry EXCEPT !.rounds = all] BY <2>1 DEF all, new
  <2>8. /\ entry'.rounds = all /\ entry'.runtime = entry.runtime /\ entry'.scored = entry.scored
        /\ entry' \in EntryRecords'
    BY <2>3, <2>5, <2>7 DEF EntryRecords, Runs
  <2>9. TheLibrary' = TheLibrary
    BY <2>1 DEF TheLibrary, Benchmark!Libraries
  <2>10. \A m, n, e : Since(m, n, e)' <=> Since(m, n, e)
    BY <2>1, <2>8, <2>9 DEF Since
  <2>11. \A j \in 1 .. Len(entry'.rounds) :
            /\ Since(entry.rounds[j].program, entry.rounds[j].library, "dfine_bench")'
            /\ entry'.rounds[j].batches = Benchmarks[variant].batches
    BY <2>1, <2>6, <2>8, <2>9 DEF Since
  <2>12. /\ entry'.runtime \in [programs : [Benchmark(variant)!Executables' -> Nat], library : Nat]
         /\ \A e \in Benchmark(variant)!Executables : linked'[e] = TheLibrary'
         /\ entry'.runtime.library <= version'[TheLibrary']
         /\ \A e \in Benchmark(variant)!Executables : entry'.runtime.programs[e] <= version'[e]
    BY <2>1, <2>2, <2>8, <2>9 DEF MeasuredSo, Benchmark!Executables
  <2>13. entry'.scored # Nothing =>
            Since(entry.scored.program, entry.scored.library, "dfine_coco_eval")'
    BY <2>1, <2>2, <2>8, <2>9 DEF MeasuredSo, Since
  <2>14. /\ pc' = "round" => Len(entry'.rounds) < Benchmarks[variant].rounds
         /\ pc' # "round" /\ Benchmarks[variant].latency
            => Len(entry'.rounds) = Benchmarks[variant].rounds
    BY <2>1, <2>2, <2>5, <2>8 DEF MeasuredSo
  <2>15. ~Benchmarks[variant].accuracy => entry'.scored = Nothing
    BY <2>2, <2>8 DEF MeasuredSo
  <2>16. MeasuredSo'
    BY <2>1, <2>2, <2>8, <2>11, <2>12, <2>13, <2>14, <2>15 DEF MeasuredSo, Benchmark!Executables
  <2> QED BY <2>1, <2>16 DEF RuntimeInv, Faithful
<1> QED BY <1>1, <1>2

LEMMA RuntimeEndsScore ==
    ASSUME Benchmark(variant)!BenchmarkAssumption, RuntimeInv, BenchmarkPhase', ArtifactTypes',
           Benchmark(variant)!EndScore
    PROVE  RuntimeInv'
<1>1. /\ UNCHANGED <<linked, version, report>> /\ pc = "score" /\ process # Nothing
      /\ process.engine # Nothing /\ process' = Nothing /\ pc' = "check"
      /\ entry' = [entry EXCEPT !.scored = Benchmark(variant)!Ran]
  BY DEF Benchmark!EndScore, Benchmark!files, Benchmark!Loaded
<1>2. MeasuredSo /\ Benchmarks[variant].accuracy
  BY <1>1 DEF RuntimeInv, BenchmarkPhase
<1>3. /\ entry \in EntryRecords /\ process \in Processes
      /\ process.program = "dfine_coco_eval"
      /\ Since(process.version, process.library, process.program)
  BY <1>1, <1>2 DEF MeasuredSo
<1> DEFINE new == Benchmark(variant)!Ran
<1>4. new \in Runs /\ Since(new.program, new.library, "dfine_coco_eval")
  <2>1. new = [program |-> process.version, library |-> process.library,
               engine |-> process.engine, batches |-> Benchmark(variant)!Measured]
    BY DEF Benchmark!Ran
  <2>2. process.version \in Nat /\ process.library \in Nat
      /\ process.engine \in Benchmark(variant)!Content
    BY <1>1, <1>3 DEF Processes
  <2>3. Benchmark(variant)!Measured \in SUBSET Benchmarks[variant].batches
    BY DEF Benchmark!Measured
  <2> QED BY <1>3, <2>1, <2>2, <2>3 DEF Runs
<1> HIDE DEF new
<1>5. entry' = [entry EXCEPT !.scored = new] BY <1>1 DEF new
<1>6. /\ entry'.rounds = entry.rounds /\ entry'.runtime = entry.runtime /\ entry'.scored = new
      /\ entry' \in EntryRecords'
  BY <1>3, <1>4, <1>5 DEF EntryRecords, Runs
<1>7. TheLibrary' = TheLibrary
  BY <1>1 DEF TheLibrary, Benchmark!Libraries
<1>8. \A j \in 1 .. Len(entry'.rounds) :
          /\ Since(entry.rounds[j].program, entry.rounds[j].library, "dfine_bench")'
          /\ entry'.rounds[j].batches = Benchmarks[variant].batches
  BY <1>1, <1>2, <1>6, <1>7 DEF MeasuredSo, Since
<1>9. /\ entry'.runtime \in [programs : [Benchmark(variant)!Executables' -> Nat], library : Nat]
      /\ \A e \in Benchmark(variant)!Executables : linked'[e] = TheLibrary'
      /\ entry'.runtime.library <= version'[TheLibrary']
      /\ \A e \in Benchmark(variant)!Executables : entry'.runtime.programs[e] <= version'[e]
  BY <1>1, <1>2, <1>6, <1>7 DEF MeasuredSo, Benchmark!Executables
<1>10. Since(entry.scored.program, entry.scored.library, "dfine_coco_eval")'
  BY <1>1, <1>4, <1>6, <1>7 DEF Since
<1>11. /\ Benchmarks[variant].latency => Len(entry'.rounds) = Benchmarks[variant].rounds
       /\ ~Benchmarks[variant].latency => entry'.rounds = <<>>
  BY <1>1, <1>2, <1>6 DEF MeasuredSo
<1>12. MeasuredSo'
  BY <1>1, <1>2, <1>6, <1>8, <1>9, <1>10, <1>11 DEF MeasuredSo, Benchmark!Executables
<1> QED BY <1>1, <1>12 DEF RuntimeInv, Faithful

\* A native entry is entered when its runtime is still there: what lies between the two is it.
LEMMA RuntimeIsChecked ==
    ASSUME Benchmark(variant)!BenchmarkAssumption, RuntimeInv, BenchmarkPhase', ArtifactTypes',
           Benchmark(variant)!CheckRuntime
    PROVE  RuntimeInv'
<1>1. /\ UNCHANGED <<linked, version, entry>> /\ pc = "check"
      /\ pc' \notin {"runtime", "round", "score", "check"}
  BY DEF Benchmark!CheckRuntime, Benchmark!files, Benchmark!EndEntry
<1>2. /\ MeasuredSo
      /\ version \in [Benchmark(variant)!Program \cup Benchmark(variant)!Library -> Nat]
      /\ linked \in [Benchmark(variant)!Program -> Benchmark(variant)!Library]
  BY <1>1 DEF RuntimeInv
<1>3. CASE ~(Benchmark(variant)!Cardinality(Benchmark(variant)!Libraries) = 1
             /\ entry.runtime = Benchmark(variant)!NativeRuntimeArtifacts)
  BY <1>1, <1>3, RuntimeElsewhere DEF Benchmark!CheckRuntime
<1>4. CASE /\ Benchmark(variant)!Cardinality(Benchmark(variant)!Libraries) = 1
           /\ entry.runtime = Benchmark(variant)!NativeRuntimeArtifacts
  <2>1. report' = [name \in DOMAIN report \cup {Benchmark(variant)!Current} |->
                     IF name = Benchmark(variant)!Current THEN entry ELSE report[name]]
    BY <1>4 DEF Benchmark!CheckRuntime, Benchmark!EndEntry
  <2>2. /\ entry.runtime.library = version[TheLibrary]
        /\ \A e \in Benchmark(variant)!Executables : entry.runtime.programs[e] = version[e]
    BY <1>4 DEF Benchmark!NativeRuntimeArtifacts, TheLibrary
  <2>3. /\ entry.rounds \in Seq(Runs) /\ entry.scored \in Runs \cup {Nothing}
        /\ entry.runtime.library \in Nat
        /\ \A e \in Benchmark(variant)!Executables : entry.runtime.programs[e] \in Nat
    BY <1>2 DEF MeasuredSo, EntryRecords
  <2>4. ASSUME NEW j \in 1 .. Len(entry.rounds)
        PROVE  /\ entry.rounds[j].library = entry.runtime.library
               /\ entry.rounds[j].program = entry.runtime.programs["dfine_bench"]
               /\ entry.rounds[j].batches = Benchmarks[variant].batches
    <3>1. entry.rounds[j] \in Runs BY <2>3
    <3>2. entry.rounds[j].program \in Nat /\ entry.rounds[j].library \in Nat
      BY <3>1 DEF Runs
    <3>3. Benchmarks[variant].latency
      <4>1. ASSUME ~Benchmarks[variant].latency PROVE FALSE
        <5>1. entry.rounds = <<>> BY <1>2, <4>1 DEF MeasuredSo
        <5>2. Len(entry.rounds) = 0 BY <5>1
        <5> QED BY <5>2
      <4> QED BY <4>1
    <3>4. "dfine_bench" \in Benchmark(variant)!Executables
      BY <3>3 DEF Benchmark!Executables
    <3>5. Since(entry.rounds[j].program, entry.rounds[j].library, "dfine_bench")
          /\ entry.rounds[j].batches = Benchmarks[variant].batches
      BY <1>2 DEF MeasuredSo
    <3> QED BY <2>2, <2>3, <3>2, <3>4, <3>5 DEF Since
  <2>5. entry.scored # Nothing => entry.scored.library = entry.runtime.library
    <3>1. entry.scored # Nothing => entry.scored.library \in Nat
      BY <2>3 DEF Runs
    <3>2. entry.scored # Nothing =>
             Since(entry.scored.program, entry.scored.library, "dfine_coco_eval")
      BY <1>2 DEF MeasuredSo
    <3> QED BY <2>2, <2>3, <3>1, <3>2 DEF Since
  <2>6. Faithful(entry)
    BY <1>1, <1>2, <2>3, <2>4, <2>5 DEF Faithful, MeasuredSo
  <2>7. \A name \in DOMAIN report' \cap Benchmark(variant)!Native : Faithful(report'[name])
    BY <2>1, <2>6 DEF RuntimeInv
  <2> QED BY <1>1, <1>2, <2>7 DEF RuntimeInv, Faithful
<1> QED BY <1>3, <1>4

LEMMA RuntimeOfOthers ==
    ASSUME Benchmark(variant)!BenchmarkAssumption, RuntimeInv, BenchmarkPhase', ArtifactTypes',
           Benchmark(variant)!Measure
    PROVE  RuntimeInv'
<1>1. /\ UNCHANGED <<linked, version>> /\ pc = "measure"
      /\ pc' \notin {"runtime", "round", "score", "check"}
      /\ report' = [name \in DOMAIN report \cup {Benchmark(variant)!Current} |->
                      IF name = Benchmark(variant)!Current THEN entry ELSE report[name]]
  BY DEF Benchmark!Measure, Benchmark!files, Benchmark!EndEntry
<1>2. Benchmark(variant)!Current \notin Benchmark(variant)!Native
  BY <1>1 DEF RuntimeInv, BenchmarkPhase, OwnSteps, Benchmark!Current
<1>3. \A name \in DOMAIN report' \cap Benchmark(variant)!Native : Faithful(report'[name])
  BY <1>1, <1>2 DEF RuntimeInv
<1> QED BY <1>1, <1>3 DEF RuntimeInv, Faithful

LEMMA RuntimeStep ==
    ASSUME Benchmark(variant)!BenchmarkAssumption, RuntimeInv,
           [Benchmark(variant)!Next]_(Benchmark(variant)!vars)
    PROVE  RuntimeInv'
<1>1. BenchmarkPhase' /\ ArtifactTypes'
  BY BenchmarkPhaseStep, ArtifactStep DEF RuntimeInv, Numbered
<1>2. CASE \/ \E f \in {Benchmark(variant)!Source(name) : name \in Benchmark(variant)!Backend}
              \cup {"checkpoint"} :
                 Benchmark(variant)!Publish(f)
           \/ Benchmark(variant)!PublishSidecar \/ UNCHANGED Benchmark(variant)!vars
  <2>1. UNCHANGED <<linked, pc, entry, process, report, version>>
    BY <1>2 DEF Benchmark!Publish, Benchmark!PublishSidecar, Benchmark!vars
  <2>2. /\ version' \in [Benchmark(variant)!Program \cup Benchmark(variant)!Library -> Nat]
        /\ \A f \in Benchmark(variant)!Program \cup Benchmark(variant)!Library :
           version[f] <= version'[f]
    <3>1. version \in [Benchmark(variant)!Program \cup Benchmark(variant)!Library -> Nat]
      BY DEF RuntimeInv
    <3> QED BY <2>1, <3>1
  <2> QED BY <1>1, <2>1, <2>2, RuntimeKept
<1>3. ASSUME NEW f \in Benchmark(variant)!Program \cup Benchmark(variant)!Library,
             Benchmark(variant)!Rebuild(f)
      PROVE  RuntimeInv'
  <2>1. /\ UNCHANGED <<linked, pc, entry, process, report>>
        /\ version' = [version EXCEPT ![f] = @ + 1]
    BY <1>3 DEF Benchmark!Rebuild, Benchmark!names
  <2>2. version \in [Benchmark(variant)!Program \cup Benchmark(variant)!Library -> Nat]
    BY DEF RuntimeInv
  <2>3. /\ version' \in [Benchmark(variant)!Program \cup Benchmark(variant)!Library -> Nat]
        /\ \A g \in Benchmark(variant)!Program \cup Benchmark(variant)!Library :
           version[g] <= version'[g]
    BY <2>1, <2>2
  <2> QED BY <1>1, <2>1, <2>3, RuntimeKept
<1>4. CASE Benchmark(variant)!ReadContract \/ Benchmark(variant)!HashLineage
    \/ Benchmark(variant)!EngineContract
  <2>1. /\ UNCHANGED <<linked, version, report>>
        /\ pc' \in {"lineage", "facts", "contract", "match", "failed"}
    BY <1>4 DEF Benchmark!ReadContract, Benchmark!HashLineage, Benchmark!EngineContract,
                Benchmark!NextPath, Benchmark!files
  <2> QED BY <1>1, <2>1, RuntimeElsewhere
<1>5. CASE Benchmark(variant)!Match \/ Benchmark(variant)!MakeBackend
    \/ Benchmark(variant)!MeasureFails
  <2>1. /\ UNCHANGED <<linked, version, report>> /\ pc' \in {"entry", "measure", "failed"}
    BY <1>5 DEF Benchmark!Match, Benchmark!MakeBackend, Benchmark!MeasureFails, Benchmark!files
  <2> QED BY <1>1, <2>1, RuntimeElsewhere
<1> QED
  BY <1>1, <1>2, <1>3, <1>4, <1>5, RuntimeBegins, RuntimeIsTaken, RuntimeStarts, RuntimeEndsRound,
     RuntimeEndsScore, RuntimeIsChecked, RuntimeOfOthers
     DEF Benchmark!Next

LEMMA RuntimeInit ==
    ASSUME Benchmark(variant)!BenchmarkAssumption, Benchmark(variant)!Init
    PROVE  RuntimeInv
<1>1. BenchmarkPhase
  <2>1. /\ pc = (IF Benchmark(variant)!Paths = <<>> THEN "entry" ELSE "contract") /\ p = 1 /\ b = 1
        /\ process = Nothing
        /\ DOMAIN report = {}
    BY DEF Benchmark!Init
  <2> QED BY <2>1, BenchmarkFacts DEF BenchmarkPhase, Early, NativeSteps, OwnSteps, Entries
<1>2. ArtifactTypes
  <2>1. /\ artifact \in [Benchmark(variant)!File -> {[made |-> 0, from |-> 0, checkpoint |-> 0,
                                             max_batch |-> m] : m
                                               \in Benchmarks[variant].max_batches}]
        /\ published = 0 /\ Benchmarks[variant].max_publications \in Nat
    BY DEF Benchmark!Init, Benchmark!BenchmarkAssumption
  <2>2. 0 \in 0 .. Benchmarks[variant].max_publications BY <2>1
  <2>3. ASSUME NEW m \in Benchmarks[variant].max_batches
        PROVE  [made |-> 0, from |-> 0, checkpoint |-> 0, max_batch |-> m]
                  \in Benchmark(variant)!Content
    BY <2>2 DEF Benchmark!Content
  <2>4. ASSUME NEW f \in Benchmark(variant)!File
        PROVE  artifact[f] \in Benchmark(variant)!Content /\ artifact[f].made = 0
    <3>1. artifact[f] \in {[made |-> 0, from |-> 0, checkpoint |-> 0, max_batch |-> m] :
                              m \in Benchmarks[variant].max_batches}
      BY <2>1
    <3>2. PICK m \in Benchmarks[variant].max_batches :
             artifact[f] = [made |-> 0, from |-> 0, checkpoint |-> 0, max_batch |-> m]
      BY <3>1
    <3>3. artifact[f] \in Benchmark(variant)!Content BY <2>3, <3>2
    <3>4. artifact[f].made = 0 BY <3>2
    <3> QED BY <3>3, <3>4
  <2>5. artifact \in [Benchmark(variant)!File -> Benchmark(variant)!Content]
    BY <2>1, <2>4
  <2> QED BY <2>1, <2>4, <2>5 DEF ArtifactTypes
<1>3. /\ version \in [Benchmark(variant)!Program \cup Benchmark(variant)!Library -> Nat]
      /\ linked \in [Benchmark(variant)!Program -> Benchmark(variant)!Library]
      /\ pc \in {"entry", "contract"} /\ DOMAIN report = {}
  BY DEF Benchmark!Init
<1> QED BY <1>1, <1>2, <1>3 DEF RuntimeInv

\* A native entry names what ran: _native_runtime_artifacts is taken before the first and
\* compared after the last process (profile.py), and programs are only ever rebuilt anew, so
\* every round and the evaluation loaded that library, and every round that program, for every
\* set of backends and batches, number of rounds and order of rebuilds.  The medians of an
\* entry are over all rounds of every batch.
LEMMA RuntimeHolds == Benchmark(variant)!BenchmarkAssumption =>
                       (Benchmark(variant)!Spec => []RuntimeInv)
<1> SUFFICES ASSUME Benchmark(variant)!BenchmarkAssumption
             PROVE  Benchmark(variant)!Spec => []RuntimeInv
  OBVIOUS
<1>1. Benchmark(variant)!Init => RuntimeInv BY RuntimeInit
<1>2. RuntimeInv /\ [Benchmark(variant)!Next]_(Benchmark(variant)!vars) => RuntimeInv'
  BY RuntimeStep
<1> QED BY <1>1, <1>2, PTL DEF Benchmark!Spec

LEMMA NativeEntriesAreWhole ==
    ASSUME Benchmark(variant)!BenchmarkAssumption
    PROVE  RuntimeInv => Benchmark(variant)!RuntimeIsNamed
      /\ Benchmark(variant)!EveryBatchEveryRound
<1>3. RuntimeInv => Benchmark(variant)!RuntimeIsNamed /\ Benchmark(variant)!EveryBatchEveryRound
  <2> SUFFICES ASSUME RuntimeInv, NEW name \in Benchmark(variant)!Native, name \in DOMAIN report
               PROVE  /\ \A r \in Benchmark(variant)!NativeRuns(name) :
                              r.library = report[name].runtime.library
                      /\ \A r \in Benchmark(variant)!Range(report[name].rounds) :
                              /\ r.program = report[name].runtime.programs["dfine_bench"]
                              /\ r.batches = Benchmarks[variant].batches
                      /\ Benchmarks[variant].latency
                         => Len(report[name].rounds) = Benchmarks[variant].rounds
    BY DEF Benchmark!RuntimeIsNamed, Benchmark!EveryBatchEveryRound, Benchmark!Entered
  <2> DEFINE e == report[name]
  <2>1. Faithful(e) BY DEF RuntimeInv
  <2> HIDE DEF e
  <2>2. DOMAIN e.rounds = 1 .. Len(e.rounds) BY <2>1 DEF Faithful
  <2>3. \A r \in Benchmark(variant)!Range(e.rounds) : \E j \in 1 .. Len(e.rounds) : r = e.rounds[j]
    BY <2>2 DEF Benchmark!Range
  <2>4. \A r \in Benchmark(variant)!Range(e.rounds) : /\ r.library = e.runtime.library
                                             /\ r.program = e.runtime.programs["dfine_bench"]
                                             /\ r.batches = Benchmarks[variant].batches
    BY <2>1, <2>3 DEF Faithful
  <2>5. Benchmark(variant)!NativeRuns(name) = Benchmark(variant)!Range(e.rounds)
      \cup ({e.scored} \ {Nothing})
    BY DEF Benchmark!NativeRuns, e
  <2>6. \A r \in Benchmark(variant)!NativeRuns(name) : r.library = e.runtime.library
    BY <2>1, <2>4, <2>5 DEF Faithful
  <2> QED BY <2>1, <2>4, <2>6 DEF Faithful, e
<1> QED BY <1>3

------------------------------
(* BenchmarkRun: the contracts against what was loaded and entered later *)

BothPaths == Benchmark(variant)!Path = {"engine", "onnx"}

HashedAt(f) == lineage[f] \in Benchmark(variant)!Content /\ lineage[f].made <= artifact[f].made

\* The paths that have been hashed.
HashedPaths ==
    pc \in Early => /\ lineage
                       \in [Benchmark(variant)!Path -> Benchmark(variant)!Content \cup {Nothing}]
                    /\ \A j \in 1 .. Len(Benchmark(variant)!Paths) :
                          (j < p \/ (j = p /\ pc = "facts") \/ pc = "match")
                             => HashedAt(Benchmark(variant)!Paths[j])

\* The engine was built from a graph that was published after the hashed one, if it is another,
\* and no graph after it is the hashed one again.
SourceOf(graph) ==
    /\ graph \in Benchmark(variant)!Content
    /\ lineage["onnx"].made \in Nat /\ contract["engine"].from \in Nat
    /\ lineage["onnx"].made <= contract["engine"].from
    /\ contract["engine"].from <= graph.made

OwnEntry ==
    /\ entry \in [artifact : {entry.artifact}, runtime : {entry.runtime}, loaded : {entry.loaded},
                  rounds : {entry.rounds}, scored : {entry.scored}]
    /\ (BothPaths /\ Benchmarks[variant].backends[b] = "onnx") => SourceOf(entry.artifact)
    /\ (pc = "measure" /\ Benchmarks[variant].backends[b] = "torch")
       => Benchmark(variant)!WithTheOthers(entry.loaded)

EntriesInv ==
    /\ BenchmarkPhase /\ ArtifactTypes /\ HashedPaths
    /\ pc \in Early => b = 1
    /\ (pc \in Entries /\ BothPaths) => SourceOf(artifact["onnx"])
    /\ pc \in OwnSteps => OwnEntry
    /\ \A j \in 1 .. Len(Benchmarks[variant].backends) :
          ((pc \in Entries /\ j < b) \/ pc = "written")
            => Benchmarks[variant].backends[j] \in DOMAIN report
    /\ (BothPaths /\ "onnx" \in DOMAIN report) => SourceOf(report["onnx"].artifact)
    /\ "torch" \in DOMAIN report => Benchmark(variant)!WithTheOthers(report["torch"].loaded)

\* After the comparison the contracts stay, and a graph only gets newer.
LEMMA PathsKept ==
    ASSUME Benchmark(variant)!BenchmarkAssumption, ArtifactTypes, Numbered,
           UNCHANGED <<contract, lineage>>
    PROVE  /\ \A g : SourceOf(g) => SourceOf(g)'
           /\ SourceOf(artifact["onnx"]) => SourceOf(artifact["onnx"])'
           /\ \A c : Benchmark(variant)!WithTheOthers(c) => Benchmark(variant)!WithTheOthers(c)'
<1>1. \A g : SourceOf(g) => SourceOf(g)' BY DEF SourceOf
<1>2. SourceOf(artifact["onnx"]) => SourceOf(artifact["onnx"])'
  <2>1. /\ artifact["onnx"].made \in Nat /\ artifact'["onnx"].made \in Nat
        /\ artifact["onnx"].made <= artifact'["onnx"].made
        /\ artifact'["onnx"] \in Benchmark(variant)!Content
    BY DEF Numbered, ArtifactTypes, Benchmark!File
  <2>2. /\ SourceOf(artifact["onnx"]) =>
             /\ lineage["onnx"].made \in Nat /\ contract["engine"].from \in Nat
             /\ lineage["onnx"].made <= contract["engine"].from
             /\ contract["engine"].from <= artifact["onnx"].made
    BY DEF SourceOf
  <2> HIDE DEF Benchmark!Content
  <2> QED BY <2>1, <2>2 DEF SourceOf
<1>3. \A c : Benchmark(variant)!WithTheOthers(c) => Benchmark(variant)!WithTheOthers(c)'
  BY DEF Benchmark!WithTheOthers
<1> QED BY <1>1, <1>2, <1>3

\* Neither the contracts nor the entry change, nor where the benchmark is.
LEMMA EntriesKept ==
    ASSUME Benchmark(variant)!BenchmarkAssumption, EntriesInv, BenchmarkPhase', Numbered,
           UNCHANGED <<pc, p, b, contract, lineage, entry, report>>
    PROVE  EntriesInv'
<1>1. ArtifactTypes /\ ArtifactTypes' BY DEF EntriesInv, Numbered
<1>2. HashedPaths'
  <2>1. HashedPaths BY DEF EntriesInv
  <2>2. ASSUME NEW f \in Benchmark(variant)!Path, HashedAt(f) PROVE HashedAt(f)'
    <3>1. f \in Benchmark(variant)!File
      BY BenchmarkFacts DEF Benchmark!File
    <3>2. /\ lineage[f].made \in Nat /\ artifact[f].made \in Nat /\ artifact'[f].made \in Nat
          /\ artifact[f].made <= artifact'[f].made /\ lineage[f].made <= artifact[f].made
      BY <2>2, <3>1 DEF HashedAt, Numbered, Benchmark!Content
    <3> QED BY <2>2, <3>2 DEF HashedAt
  <2>3. \A j \in 1 .. Len(Benchmark(variant)!Paths) :
      Benchmark(variant)!Paths[j] \in Benchmark(variant)!Path
    BY BenchmarkFacts
  <2>4. \A j \in 1 .. Len(Benchmark(variant)!Paths) :
           HashedAt(Benchmark(variant)!Paths[j]) => HashedAt(Benchmark(variant)!Paths[j])'
    BY <2>2, <2>3
  <2> QED BY <2>1, <2>4 DEF HashedPaths
<1>3. OwnEntry => OwnEntry'
  <2>1. \A g : SourceOf(g) => SourceOf(g)' BY <1>1, PathsKept
  <2>2. \A c : Benchmark(variant)!WithTheOthers(c) => Benchmark(variant)!WithTheOthers(c)'
    BY <1>1, PathsKept
  <2>3. ASSUME OwnEntry PROVE OwnEntry'
    <3>1. entry' = entry /\ pc' = pc /\ b' = b OBVIOUS
    <3>2. (BothPaths /\ Benchmarks[variant].backends[b] = "onnx") => SourceOf(entry.artifact)'
      <4>1. (BothPaths /\ Benchmarks[variant].backends[b] = "onnx") => SourceOf(entry.artifact)
        BY <2>3 DEF OwnEntry
      <4> QED BY <4>1 DEF SourceOf
    <3>3. (pc = "measure" /\ Benchmarks[variant].backends[b] = "torch")
        => Benchmark(variant)!WithTheOthers(entry.loaded)'
      <4>1. (pc = "measure" /\ Benchmarks[variant].backends[b] = "torch")
          => Benchmark(variant)!WithTheOthers(entry.loaded)
        BY <2>3 DEF OwnEntry
      <4> QED BY <4>1 DEF Benchmark!WithTheOthers
    <3> QED BY <2>3, <3>1, <3>2, <3>3 DEF OwnEntry, BothPaths
  <2> QED BY <2>3
<1>4. SourceOf(artifact["onnx"]) => SourceOf(artifact["onnx"])'
  BY <1>1, PathsKept
<1>5. (BothPaths /\ "onnx" \in DOMAIN report) => SourceOf(report["onnx"].artifact)'
  BY DEF EntriesInv, SourceOf
<1>6. "torch" \in DOMAIN report => Benchmark(variant)!WithTheOthers(report["torch"].loaded)'
  BY DEF EntriesInv, Benchmark!WithTheOthers
<1> QED BY <1>1, <1>2, <1>3, <1>4, <1>5, <1>6 DEF EntriesInv, BothPaths

LEMMA EntriesEarly ==
    ASSUME Benchmark(variant)!BenchmarkAssumption, EntriesInv, BenchmarkPhase', Numbered,
           Benchmark(variant)!ReadContract \/ Benchmark(variant)!HashLineage
             \/ Benchmark(variant)!EngineContract
    PROVE  EntriesInv'
<1>1. /\ UNCHANGED <<artifact, b, entry, report>> /\ pc \in Early
      /\ pc' \in {"lineage", "facts", "contract", "match", "failed"}
  BY DEF Benchmark!ReadContract, Benchmark!HashLineage, Benchmark!EngineContract,
         Benchmark!NextPath, Benchmark!files, Early
<1>2. DOMAIN report = {} /\ ArtifactTypes /\ ArtifactTypes' /\ HashedPaths
  BY <1>1 DEF EntriesInv, BenchmarkPhase, Numbered
<1>3. lineage \in [Benchmark(variant)!Path -> Benchmark(variant)!Content \cup {Nothing}]
  BY <1>1, <1>2 DEF HashedPaths
<1>4. HashedPaths'
  <2> SUFFICES ASSUME pc' \in Early
               PROVE  /\ lineage' \in [Benchmark(variant)!Path -> Benchmark(variant)!Content
                                       \cup {Nothing}]
                      /\ \A j \in 1 .. Len(Benchmark(variant)!Paths) :
                            (j < p' \/ (j = p' /\ pc' = "facts") \/ pc' = "match")
                               => HashedAt(Benchmark(variant)!Paths[j])'
    BY DEF HashedPaths
  <2>0. p \in 1 .. Len(Benchmark(variant)!Paths) /\ Len(Benchmark(variant)!Paths) \in Nat
        /\ \A j \in 1 .. Len(Benchmark(variant)!Paths) :
           Benchmark(variant)!Paths[j] \in Benchmark(variant)!Path
    <3>1. pc \in {"contract", "lineage", "facts"}
      BY DEF Benchmark!ReadContract, Benchmark!HashLineage, Benchmark!EngineContract
    <3> QED BY <3>1, BenchmarkFacts DEF EntriesInv, BenchmarkPhase
  <2>1. CASE Benchmark(variant)!ReadContract
    <3>1. lineage' = lineage /\ p' = p /\ pc = "contract" /\ pc' = "lineage"
      BY <2>1 DEF Benchmark!ReadContract
    <3> QED BY <1>1, <1>2, <1>3, <3>1 DEF HashedPaths, HashedAt
  <2>2. CASE Benchmark(variant)!HashLineage
    <3> DEFINE f == Benchmark(variant)!Paths[p]
               a == artifact[f]
    <3>1. /\ lineage' = [lineage EXCEPT ![f] = a] /\ p' = p /\ pc = "lineage" /\ pc' = "facts"
      BY <2>2 DEF Benchmark!HashLineage, Benchmark!Path_p
    <3>2. f \in Benchmark(variant)!Path BY <2>0
    <3>3. a \in Benchmark(variant)!Content /\ a.made \in Nat
      <4>1. f \in Benchmark(variant)!File
        BY <3>2, BenchmarkFacts DEF Benchmark!File
      <4> QED BY <1>2, <4>1 DEF ArtifactTypes, Benchmark!Content
    <3>4. artifact'[f] = a BY <1>1
    <3> HIDE DEF a
    <3>5. lineage' \in [Benchmark(variant)!Path -> Benchmark(variant)!Content \cup {Nothing}]
          /\ \A g \in Benchmark(variant)!Path : lineage'[g] = IF g = f THEN a ELSE lineage[g]
      BY <1>3, <3>1, <3>2, <3>3
    <3>6. ASSUME NEW j \in 1 .. Len(Benchmark(variant)!Paths), j < p \/ j = p
          PROVE  HashedAt(Benchmark(variant)!Paths[j])'
      <4>1. CASE Benchmark(variant)!Paths[j] = f
        <5>1. lineage'[f] = a BY <3>2, <3>5
        <5>2. a.made <= a.made BY <3>3
        <5> QED BY <3>3, <3>4, <4>1, <5>1, <5>2 DEF HashedAt
      <4>2. CASE Benchmark(variant)!Paths[j] # f
        <5>1. j # p BY <4>2
        <5>2. HashedAt(Benchmark(variant)!Paths[j])
          BY <1>1, <1>2, <3>6, <5>1 DEF HashedPaths
        <5>3. lineage'[Benchmark(variant)!Paths[j]] = lineage[Benchmark(variant)!Paths[j]]
          BY <2>0, <3>5, <4>2
        <5> QED BY <1>1, <5>2, <5>3 DEF HashedAt
      <4> QED BY <4>1, <4>2
    <3> QED BY <3>1, <3>5, <3>6
  <2>3. CASE Benchmark(variant)!EngineContract
    <3>1. /\ lineage' = lineage /\ pc = "facts"
          /\ (p < Len(Benchmark(variant)!Paths) /\ pc' = "contract" /\ p' = p + 1)
             \/ (p >= Len(Benchmark(variant)!Paths) /\ pc' = "match" /\ p' = p) \/ pc' = "failed"
      BY <2>0, <2>3 DEF Benchmark!EngineContract, Benchmark!NextPath
    <3>2. \A j \in 1 .. Len(Benchmark(variant)!Paths) :
             (j < p \/ j = p) => HashedAt(Benchmark(variant)!Paths[j])
      BY <1>1, <1>2, <3>1 DEF HashedPaths
    <3>3. \A j \in 1 .. Len(Benchmark(variant)!Paths) :
             (j < p' \/ (j = p' /\ pc' = "facts") \/ pc' = "match") => (j < p \/ j = p)
      BY <2>0, <3>1 DEF Early
    <3>4. \A j \in 1 .. Len(Benchmark(variant)!Paths) :
             HashedAt(Benchmark(variant)!Paths[j]) => HashedAt(Benchmark(variant)!Paths[j])'
      BY <1>1, <3>1 DEF HashedAt
    <3> QED BY <1>3, <3>1, <3>2, <3>3, <3>4
  <2> QED BY <2>1, <2>2, <2>3
<1> QED BY <1>1, <1>2, <1>4 DEF EntriesInv, Entries, NativeSteps, OwnSteps

\* main compares the contracts: what the engine was built from is the graph that is there.
LEMMA EntriesMatch ==
    ASSUME Benchmark(variant)!BenchmarkAssumption, EntriesInv, BenchmarkPhase', Numbered,
           Benchmark(variant)!Match
    PROVE  EntriesInv'
<1>1. /\ UNCHANGED <<artifact, p, b, contract, lineage, entry, report>> /\ pc = "match"
      /\ pc' \in {"entry", "failed"}
      /\ pc' = "entry" => Benchmark(variant)!EngineSourceMatches
  BY DEF Benchmark!Match, Benchmark!files, Benchmark!names
<1>2. DOMAIN report = {} /\ ArtifactTypes /\ ArtifactTypes' /\ HashedPaths
  BY <1>1 DEF EntriesInv, BenchmarkPhase, Numbered, Early
<1>3. ASSUME pc' = "entry", BothPaths PROVE SourceOf(artifact["onnx"])
  <2>1. contract["engine"].from = artifact["onnx"].made
    BY <1>1, <1>3 DEF Benchmark!EngineSourceMatches, BothPaths
  <2>2. HashedAt("onnx")
    <3>1. \E j \in 1 .. Len(Benchmark(variant)!Paths) : Benchmark(variant)!Paths[j] = "onnx"
      BY <1>3, BenchmarkFacts DEF BothPaths
    <3> QED BY <1>1, <1>2, <3>1 DEF HashedPaths, Early
  <2>3. artifact["onnx"] \in Benchmark(variant)!Content
    BY <1>2 DEF ArtifactTypes, Benchmark!File
  <2>4. artifact["onnx"].made \in Nat /\ lineage["onnx"].made \in Nat
    BY <2>2, <2>3 DEF HashedAt, Benchmark!Content
  <2> QED BY <2>1, <2>2, <2>3, <2>4 DEF SourceOf, HashedAt
<1>4. (pc' = "entry" /\ BothPaths) => SourceOf(artifact["onnx"])'
  BY <1>1, <1>3 DEF SourceOf
<1>5. HashedPaths' BY <1>1 DEF HashedPaths, Early
<1>6. \A j \in 1 .. Len(Benchmarks[variant].backends) : pc' = "entry" /\ j < b'
    => Benchmarks[variant].backends[j] \in DOMAIN report
  <2>1. b = 1 BY <1>1 DEF EntriesInv, Early
  <2> QED BY <1>1, <2>1
<1> QED
  BY <1>1, <1>2, <1>4, <1>5, <1>6 DEF EntriesInv, Entries, NativeSteps, OwnSteps, BothPaths,
                                      Early

\* The steps that neither enter an entry nor change a contract, to where no entry is begun.
LEMMA EntriesElsewhere ==
    ASSUME Benchmark(variant)!BenchmarkAssumption, EntriesInv, BenchmarkPhase', Numbered,
           UNCHANGED <<b, contract, lineage, report>>, pc \in Entries,
           pc' \in {"entry"} \cup NativeSteps \cup {"failed"} \/ (pc' \in OwnSteps /\ OwnEntry')
    PROVE  EntriesInv'
<1>1. ArtifactTypes /\ ArtifactTypes' BY DEF EntriesInv, Numbered
<1>3. (pc \in Entries /\ BothPaths) => SourceOf(artifact["onnx"])'
  BY <1>1, PathsKept DEF EntriesInv
<1>4. (BothPaths /\ "onnx" \in DOMAIN report) => SourceOf(report["onnx"].artifact)'
  BY DEF EntriesInv, SourceOf
<1>5. "torch" \in DOMAIN report => Benchmark(variant)!WithTheOthers(report["torch"].loaded)'
  BY DEF EntriesInv, Benchmark!WithTheOthers
<1>6. \A j \in 1 .. Len(Benchmarks[variant].backends) : j < b'
    => Benchmarks[variant].backends[j] \in DOMAIN report'
  BY DEF EntriesInv
<1>7. pc' \notin Early /\ pc' # "written" /\ (pc' \in OwnSteps => OwnEntry')
  BY DEF Early, NativeSteps, OwnSteps
<1>8. HashedPaths' BY <1>7 DEF HashedPaths
<1> QED BY <1>1, <1>3, <1>4, <1>5, <1>6, <1>7, <1>8 DEF EntriesInv, BothPaths

LEMMA EntriesBegin ==
    ASSUME Benchmark(variant)!BenchmarkAssumption, EntriesInv, BenchmarkPhase', Numbered,
           Benchmark(variant)!BeginEntry
    PROVE  EntriesInv'
<1>1. /\ UNCHANGED <<artifact, b, contract, lineage, report>> /\ pc = "entry"
      /\ pc' = IF Benchmarks[variant].backends[b] \in Benchmark(variant)!Native THEN "runtime"
         ELSE "backend"
      /\ entry' = [Benchmark(variant)!NoEntry EXCEPT !.artifact
                   = artifact[Benchmark(variant)!Source(Benchmarks[variant].backends[b])]]
  BY DEF Benchmark!BeginEntry, Benchmark!files, Benchmark!names, Benchmark!Current
<1> DEFINE a == artifact[Benchmark(variant)!Source(Benchmarks[variant].backends[b])]
<1>2. entry' = [artifact |-> a, runtime |-> Nothing, loaded |-> Nothing, rounds |-> <<>>,
                scored |-> Nothing]
  <2>1. entry' = [Benchmark(variant)!NoEntry EXCEPT !.artifact = a]
    BY <1>1
  <2> HIDE DEF a
  <2> QED BY <2>1 DEF Benchmark!NoEntry
<1>3. entry' \in [artifact : {entry'.artifact}, runtime : {entry'.runtime},
                  loaded : {entry'.loaded}, rounds : {entry'.rounds}, scored : {entry'.scored}]
  <2> HIDE DEF a
  <2> QED BY <1>2
<1>4. (BothPaths /\ Benchmarks[variant].backends[b] = "onnx") => SourceOf(entry.artifact)'
  <2>1. SUFFICES ASSUME BothPaths, Benchmarks[variant].backends[b] = "onnx"
      PROVE SourceOf(entry.artifact)'
    OBVIOUS
  <2>2. entry'.artifact = artifact["onnx"]
    <3>1. entry'.artifact = a
      <4> HIDE DEF a
      <4> QED BY <1>2
    <3>2. Benchmark(variant)!Source("onnx") = "onnx"
      BY DEF Benchmark!Source, Benchmark!Native
    <3> QED BY <2>1, <3>1, <3>2
  <2>3. SourceOf(artifact["onnx"]) BY <1>1, <2>1 DEF EntriesInv, Entries
  <2> QED BY <1>1, <2>2, <2>3 DEF SourceOf
<1>5. pc' = "backend" => OwnEntry'
  BY <1>1, <1>3, <1>4 DEF OwnEntry, BothPaths
<1> QED BY <1>1, <1>5, EntriesElsewhere DEF Entries, NativeSteps, OwnSteps

LEMMA EntriesMake ==
    ASSUME Benchmark(variant)!BenchmarkAssumption, EntriesInv, BenchmarkPhase', Numbered,
           Benchmark(variant)!MakeBackend
    PROVE  EntriesInv'
<1> DEFINE c == artifact[Benchmark(variant)!Source(Benchmark(variant)!Current)]
<1>1. /\ UNCHANGED <<artifact, b, contract, lineage, report>> /\ pc = "backend"
      /\ entry' = [entry EXCEPT !.loaded = c]
      /\ pc' = IF Benchmarks[variant].backends[b] = "torch" => Benchmark(variant)!WithTheOthers(c)
         THEN "measure" ELSE "failed"
  BY DEF Benchmark!MakeBackend, Benchmark!files, Benchmark!names, Benchmark!Current
<1> HIDE DEF c
<1>2. OwnEntry BY <1>1 DEF EntriesInv, OwnSteps
<1>3. /\ entry' \in [artifact : {entry'.artifact}, runtime : {entry'.runtime},
                     loaded : {entry'.loaded}, rounds : {entry'.rounds}, scored : {entry'.scored}]
      /\ entry'.artifact = entry.artifact /\ entry'.loaded = c
  BY <1>1, <1>2 DEF OwnEntry
<1>4. pc' = "measure" => OwnEntry'
  <2>1. (BothPaths /\ Benchmarks[variant].backends[b] = "onnx") => SourceOf(entry.artifact)'
    BY <1>1, <1>2, <1>3 DEF OwnEntry, SourceOf
  <2>2. (pc' = "measure" /\ Benchmarks[variant].backends[b] = "torch")
      => Benchmark(variant)!WithTheOthers(entry.loaded)'
    BY <1>1, <1>3 DEF Benchmark!WithTheOthers
  <2> QED BY <1>1, <1>3, <2>1, <2>2 DEF OwnEntry, BothPaths
<1> QED BY <1>1, <1>4, EntriesElsewhere DEF Entries, NativeSteps, OwnSteps

LEMMA EntriesEnd ==
    ASSUME Benchmark(variant)!BenchmarkAssumption, EntriesInv, BenchmarkPhase', Numbered,
           UNCHANGED <<artifact, contract, lineage, entry>>, Benchmark(variant)!EndEntry,
           (Benchmarks[variant].backends[b] \in Benchmark(variant)!Native /\ pc = "check")
             \/ pc = "measure"
    PROVE  EntriesInv'
<1>1. /\ report' = [name \in DOMAIN report \cup {Benchmarks[variant].backends[b]} |->
                      IF name = Benchmarks[variant].backends[b] THEN entry ELSE report[name]]
      /\ (b < Len(Benchmarks[variant].backends) /\ pc' = "entry" /\ b' = b + 1)
         \/ (b >= Len(Benchmarks[variant].backends) /\ pc' = "written" /\ b' = b)
      /\ b \in 1 .. Len(Benchmarks[variant].backends) /\ Len(Benchmarks[variant].backends) \in Nat
  BY BenchmarkFacts DEF Benchmark!EndEntry, Benchmark!Current, EntriesInv, BenchmarkPhase
<1>2. ArtifactTypes /\ ArtifactTypes' /\ pc \in Entries
  BY DEF EntriesInv, Numbered, Entries, NativeSteps, OwnSteps
<1>3. pc' \notin Early /\ pc' \notin OwnSteps
  BY <1>1 DEF Early, OwnSteps
<1>4. HashedPaths' BY <1>3 DEF HashedPaths
<1>5. BothPaths => SourceOf(artifact["onnx"])'
  BY <1>2, PathsKept DEF EntriesInv
<1>6. \A j \in 1 .. Len(Benchmarks[variant].backends) :
         (j < b' \/ pc' = "written") => Benchmarks[variant].backends[j] \in DOMAIN report'
  <2> SUFFICES ASSUME NEW j \in 1 .. Len(Benchmarks[variant].backends), j < b' \/ pc' = "written"
               PROVE  Benchmarks[variant].backends[j] \in DOMAIN report
                 \cup {Benchmarks[variant].backends[b]}
    BY <1>1
  <2>1. j < b \/ j = b BY <1>1
  <2> QED BY <1>2, <2>1 DEF EntriesInv
<1>7. (BothPaths /\ "onnx" \in DOMAIN report') => SourceOf(report["onnx"].artifact)'
  <2> SUFFICES ASSUME BothPaths, "onnx" \in DOMAIN report' PROVE SourceOf(report["onnx"].artifact)'
    OBVIOUS
  <2>1. CASE Benchmarks[variant].backends[b] = "onnx"
    <3>1. pc = "measure" BY <2>1 DEF Benchmark!Native
    <3>2. SourceOf(entry.artifact)
      BY <2>1, <3>1 DEF EntriesInv, OwnSteps, OwnEntry
    <3>3. report'["onnx"] = entry BY <1>1, <2>1
    <3> QED BY <3>2, <3>3 DEF SourceOf
  <2>2. CASE Benchmarks[variant].backends[b] # "onnx"
    <3>1. "onnx" \in DOMAIN report /\ report'["onnx"] = report["onnx"]
      BY <1>1, <2>2
    <3> QED BY <3>1 DEF EntriesInv, SourceOf
  <2> QED BY <2>1, <2>2
<1>8. "torch" \in DOMAIN report' => Benchmark(variant)!WithTheOthers(report["torch"].loaded)'
  <2> SUFFICES ASSUME "torch" \in DOMAIN report'
               PROVE  Benchmark(variant)!WithTheOthers(report["torch"].loaded)'
    OBVIOUS
  <2>1. CASE Benchmarks[variant].backends[b] = "torch"
    <3>1. pc = "measure" BY <2>1 DEF Benchmark!Native
    <3>2. Benchmark(variant)!WithTheOthers(entry.loaded)
      BY <2>1, <3>1 DEF EntriesInv, OwnSteps, OwnEntry
    <3>3. report'["torch"] = entry BY <1>1, <2>1
    <3> QED BY <3>2, <3>3 DEF Benchmark!WithTheOthers
  <2>2. CASE Benchmarks[variant].backends[b] # "torch"
    <3>1. "torch" \in DOMAIN report /\ report'["torch"] = report["torch"]
      BY <1>1, <2>2
    <3> QED BY <3>1 DEF EntriesInv, Benchmark!WithTheOthers
  <2> QED BY <2>1, <2>2
<1> QED BY <1>2, <1>3, <1>4, <1>5, <1>6, <1>7, <1>8 DEF EntriesInv, BothPaths

LEMMA EntriesStep ==
    ASSUME Benchmark(variant)!BenchmarkAssumption, EntriesInv,
           [Benchmark(variant)!Next]_(Benchmark(variant)!vars)
    PROVE  EntriesInv'
<1>1. BenchmarkPhase' /\ Numbered
  BY BenchmarkPhaseStep, ArtifactStep DEF EntriesInv
<1>2. CASE \/ \E f \in {Benchmark(variant)!Source(name) : name \in Benchmark(variant)!Backend}
              \cup {"checkpoint"} :
                 Benchmark(variant)!Publish(f)
           \/ Benchmark(variant)!PublishSidecar
           \/ \E f \in Benchmark(variant)!Program \cup Benchmark(variant)!Library :
              Benchmark(variant)!Rebuild(f)
           \/ UNCHANGED Benchmark(variant)!vars
  <2>1. UNCHANGED <<pc, p, b, contract, lineage, entry, report>>
    BY <1>2 DEF Benchmark!Publish, Benchmark!PublishSidecar, Benchmark!Rebuild, Benchmark!vars,
                Benchmark!names
  <2> QED BY <1>1, <2>1, EntriesKept
<1>3. CASE Benchmark(variant)!StartRound \/ Benchmark(variant)!StartScore
    \/ Benchmark(variant)!LoadEngine
  <2>1. UNCHANGED <<pc, p, b, contract, lineage, entry, report>>
    BY <1>3 DEF Benchmark!StartRound, Benchmark!StartScore, Benchmark!Start, Benchmark!LoadEngine,
                Benchmark!names
  <2> QED BY <1>1, <2>1, EntriesKept
<1>4. CASE \/ Benchmark(variant)!NameRuntime \/ Benchmark(variant)!EndRound
              \/ Benchmark(variant)!EndScore
           \/ Benchmark(variant)!MeasureFails
  <2>1. /\ UNCHANGED <<b, contract, lineage, report>>
        /\ pc \in {"runtime", "round", "score", "measure"}
        /\ pc' \in {"round", "score", "check", "failed"}
    BY <1>4 DEF Benchmark!NameRuntime, Benchmark!EndRound, Benchmark!EndScore,
                Benchmark!MeasureFails, Benchmark!names
  <2> QED BY <1>1, <2>1, EntriesElsewhere DEF Entries, NativeSteps, OwnSteps
<1>5. CASE Benchmark(variant)!CheckRuntime
  <2>1. UNCHANGED <<artifact, contract, lineage, entry>> /\ pc = "check"
    BY <1>5 DEF Benchmark!CheckRuntime, Benchmark!files, Benchmark!names
  <2>2. Benchmarks[variant].backends[b] \in Benchmark(variant)!Native
    BY <2>1 DEF EntriesInv, BenchmarkPhase, NativeSteps
  <2>3. CASE Benchmark(variant)!EndEntry
    BY <1>1, <2>1, <2>2, <2>3, EntriesEnd
  <2>4. CASE ~Benchmark(variant)!EndEntry
    <3>1. pc' = "failed" /\ UNCHANGED <<b, contract, lineage, report>>
      BY <1>5, <2>1, <2>4 DEF Benchmark!CheckRuntime
    <3> QED BY <1>1, <2>1, <3>1, EntriesElsewhere DEF Entries, NativeSteps
  <2> QED BY <2>3, <2>4
<1>6. CASE Benchmark(variant)!Measure
  <2>1. UNCHANGED <<artifact, contract, lineage, entry>> /\ pc = "measure"
      /\ Benchmark(variant)!EndEntry
    BY <1>6 DEF Benchmark!Measure, Benchmark!files, Benchmark!names
  <2> QED BY <1>1, <2>1, EntriesEnd
<1> QED
  BY <1>1, <1>2, <1>3, <1>4, <1>5, <1>6, EntriesEarly, EntriesMatch, EntriesBegin, EntriesMake
     DEF Benchmark!Next

LEMMA EntriesInit ==
    ASSUME Benchmark(variant)!BenchmarkAssumption, Benchmark(variant)!Init
    PROVE  EntriesInv
<1>1. BenchmarkPhase /\ ArtifactTypes BY RuntimeInit DEF RuntimeInv
<1>2. /\ pc = (IF Benchmark(variant)!Paths = <<>> THEN "entry" ELSE "contract") /\ p = 1 /\ b = 1
      /\ lineage = [f \in Benchmark(variant)!Path |-> Nothing]
      /\ DOMAIN report = {}
  BY DEF Benchmark!Init
<1>3. HashedPaths BY <1>2, BenchmarkFacts DEF HashedPaths, Early
<1>4. pc = "entry" => ~BothPaths BY <1>2, BenchmarkFacts DEF BothPaths
<1> QED
  BY <1>1, <1>2, <1>3, <1>4, BenchmarkFacts DEF EntriesInv, Entries, NativeSteps, OwnSteps, Early

\* A report with a torch reference compares it with artifacts of the weights it loaded, for
\* the late comparison in main (profile.py) is with the contracts that were read first; and a
\* report whose entries are what was hashed with the contracts names a graph the engine was
\* built from, for no publication brings an older graph back.  For every set of backends, and
\* whatever was published in between.
LEMMA EntriesHold == Benchmark(variant)!BenchmarkAssumption =>
                       (Benchmark(variant)!Spec => []EntriesInv)
<1> SUFFICES ASSUME Benchmark(variant)!BenchmarkAssumption
             PROVE  Benchmark(variant)!Spec => []EntriesInv
  OBVIOUS
<1>1. Benchmark(variant)!Init => EntriesInv BY EntriesInit
<1>2. EntriesInv /\ [Benchmark(variant)!Next]_(Benchmark(variant)!vars) => EntriesInv'
  BY EntriesStep
<1> QED BY <1>1, <1>2, PTL DEF Benchmark!Spec

LEMMA EntriesAreOfOneModel ==
    ASSUME Benchmark(variant)!BenchmarkAssumption
    PROVE  EntriesInv => Benchmark(variant)!OneCheckpoint /\ Benchmark(variant)!EngineOfNamedOnnx
<1>3. EntriesInv => Benchmark(variant)!OneCheckpoint /\ Benchmark(variant)!EngineOfNamedOnnx
  <2> SUFFICES ASSUME EntriesInv
      PROVE Benchmark(variant)!OneCheckpoint /\ Benchmark(variant)!EngineOfNamedOnnx
    OBVIOUS
  <2>1. Benchmark(variant)!OneCheckpoint
    BY DEF EntriesInv, Benchmark!OneCheckpoint, Benchmark!Entered, Benchmark!WithTheOthers
  <2>2. ASSUME Benchmark(variant)!Accepted, BothPaths, "onnx" \in Benchmark(variant)!Backend
        PROVE  contract["engine"].from = report["onnx"].artifact.made
    <3>1. pc = "written" BY <2>2 DEF Benchmark!Accepted
    <3>2. "onnx" \in DOMAIN report
      <4>1. PICK j \in 1 .. Len(Benchmarks[variant].backends) :
          Benchmarks[variant].backends[j] = "onnx"
        BY <2>2, BenchmarkFacts
      <4> QED BY <3>1, <4>1 DEF EntriesInv
    <3>3. lineage["onnx"] = report["onnx"].artifact
      BY <2>2 DEF Benchmark!Accepted, Benchmark!Source, Benchmark!Native
    <3>4. SourceOf(report["onnx"].artifact) BY <2>2, <3>2 DEF EntriesInv
    <3> QED BY <3>3, <3>4 DEF SourceOf
  <2> QED BY <2>1, <2>2 DEF Benchmark!EngineOfNamedOnnx, BothPaths
<1> QED BY <1>3

------------------------------
(* What the suite checks of evaluations and benchmarks. *)

LEMMA EvaluationIsNamed ==
    variant \in DOMAIN Evaluations => (RecordsSpec /\ program = variant => []EngineOfNamedOnnx)
<1> SUFFICES ASSUME variant \in DOMAIN Evaluations
             PROVE  RecordsSpec /\ program = variant => []EngineOfNamedOnnx
  OBVIOUS
<1>1. Evaluation(variant)!EvaluationAssumption BY PartsAssumption
<1>2. RecordsSpec /\ program = variant => Evaluation(variant)!Spec
  BY EvaluationRuns
<1>3. variant \notin DOMAIN Benchmarks BY NamesAssumption
<1>4. /\ program = variant /\ PixelsInv /\ SourceInv
      /\ (Evaluations[variant].tool = "python" /\ Evaluations[variant].write_during \cap SetUp = {}
          => Evaluation(variant)!MeasuredIsNamed)
      => EngineOfNamedOnnx
  BY <1>1, <1>3, DetectionsAreOfTheirImages, EngineIsOfNamedGraph DEF EngineOfNamedOnnx
<1>5. Evaluation(variant)!Spec => []PixelsInv /\ []SourceInv
  BY <1>1, PixelsHold, SourceHolds
<1>6. CASE Evaluations[variant].tool = "python" /\ Evaluations[variant].write_during \cap SetUp = {}
  <2>1. Evaluation(variant)!Spec => []NamedInv BY <1>1, <1>6, NamesHold
  <2>2. NamedInv => Evaluation(variant)!MeasuredIsNamed
    BY <1>1, <1>6, NamedIsMeasured
  <2>3. program = variant /\ PixelsInv /\ SourceInv /\ NamedInv => EngineOfNamedOnnx
    BY <1>4, <2>2
  <2> QED BY <1>2, <1>5, <2>1, <2>3, ProgramStays, PTL
<1>7. CASE ~(Evaluations[variant].tool = "python"
             /\ Evaluations[variant].write_during \cap SetUp = {})
  <2>1. program = variant /\ PixelsInv /\ SourceInv => EngineOfNamedOnnx
    BY <1>4, <1>7
  <2> QED BY <1>2, <1>5, <2>1, ProgramStays, PTL
<1> QED BY <1>6, <1>7

\* An accepted report is on an engine of the graph it names.  Of an evaluation: a detection
\* comes from the pixels of its own image, both backends saw one version of it, and what the
\* report names was measured if the sources stay while they are read.  Of a benchmark: the
\* library and the programs of an entry are those of all its rounds, which are complete, and
\* artifacts are compared with the weights the reference loaded.  Whatever is published,
\* rewritten or rebuilt meanwhile (coco_eval.py, cpp_coco_eval.py, profile.py).
THEOREM ReportsNameTheMeasured == RecordsSpec /\ program = variant => []EngineOfNamedOnnx
<1>1. CASE variant \in DOMAIN Evaluations BY <1>1, EvaluationIsNamed
<1>2. CASE variant \in DOMAIN Benchmarks
  <2>1. Benchmark(variant)!BenchmarkAssumption BY <1>2, PartsAssumption
  <2>2. RecordsSpec /\ program = variant => Benchmark(variant)!Spec
    BY <1>2, BenchmarkRuns
  <2>3. variant \notin DOMAIN Evaluations BY <1>2, NamesAssumption
  <2>4. program = variant /\ RuntimeInv /\ EntriesInv => EngineOfNamedOnnx
    BY <2>1, <2>3, NativeEntriesAreWhole, EntriesAreOfOneModel DEF EngineOfNamedOnnx
  <2>5. Benchmark(variant)!Spec => []RuntimeInv /\ []EntriesInv
    BY <2>1, RuntimeHolds, EntriesHold
  <2> QED BY <2>2, <2>4, <2>5, ProgramStays, PTL
<1>3. CASE variant \notin DOMAIN Evaluations \cup DOMAIN Benchmarks
  <2>1. program = variant => EngineOfNamedOnnx
    BY <1>3 DEF EngineOfNamedOnnx
  <2> QED BY <2>1, ProgramStays, PTL
<1> QED BY <1>1, <1>2, <1>3

------------------------------
(* ArtifactLineage *)

LEMMA LineageRuns ==
    variant \in DOMAIN Lineages => (RecordsSpec /\ program = variant => Lineage(variant)!Spec)
<1> SUFFICES ASSUME variant \in DOMAIN Lineages
             PROVE  RecordsSpec /\ program = variant => Lineage(variant)!Spec
  OBVIOUS
<1>1. RecordsInit /\ program = variant => Lineage(variant)!Init
  <2> SUFFICES ASSUME RecordsInit, program = variant
               PROVE  Lineage(variant)!Init
    OBVIOUS
  <2>1. LineageBegins
    BY NamesAssumption
       DEF RecordsInit, ReportBegins, EvaluationBegins, BenchmarkBegins, SweepBegins,
           ReleaseBegins
  <2> QED BY <2>1 DEF LineageBegins
<1>2. program = variant /\ [RecordsNext]_RecordsVars
    => [Lineage(variant)!Next]_(Lineage(variant)!vars)
  <2> SUFFICES ASSUME program = variant, [RecordsNext]_RecordsVars
               PROVE  [Lineage(variant)!Next]_(Lineage(variant)!vars)
    OBVIOUS
  <2>1. CASE RecordsNext
    <3>1. LineageSteps
      BY <2>1, NamesAssumption
         DEF RecordsNext, ReportSteps, EvaluationSteps, BenchmarkSteps, SweepSteps,
             ReleaseSteps
    <3> QED BY <3>1 DEF LineageSteps
  <2>2. CASE UNCHANGED RecordsVars BY <2>2 DEF RecordsVars, Lineage!vars
  <2> QED BY <2>1, <2>2
<1> QED BY <1>1, <1>2, ProgramStays, PTL DEF RecordsSpec, Lineage!Spec

\* What the bytes of an artifact are made of.
Steps ==
    Lineages[variant].checkpoints \cup Lineages[variant].graphs
      \cup Lineages[variant].converters \cup Lineages[variant].flags
      \cup {"partial", "strong", "weak"}

\* The bytes of a graph: a checkpoint, its sliders, and the conversions.
MadeOnnx(bs) ==
    /\ bs \in Seq(Steps) /\ Len(bs) >= 2
    /\ bs[2] \in Lineages[variant].graphs /\ Lineage(variant)!ValidCascade(bs[2])
    /\ \A n \in 3 .. Len(bs) : bs[n] \in Lineages[variant].converters \cup {"partial"}

OfPrefix(source, bs) ==
    \/ source = <<>>
    \/ /\ Len(source) \in Nat /\ Len(source) < Len(bs)
       /\ SubSeq(bs, 1, Len(source)) = source

\* With the converters that write down what they did, the sidecar says all of the bytes.
Clean(mode, source, bs) ==
    \/ Len(bs) = 2 /\ mode = Lineage(variant)!Fp32Mode /\ source = <<>>
    \/ /\ Len(bs) = 3 /\ bs[3] \in {"decoder", "slim"}
       /\ mode = Lineage(variant)!Mode("surgical", bs[3]) /\ source = <<bs[1], bs[2]>>

Described(mode, source, bs) ==
    /\ mode.family # "weakly_typed" /\ OfPrefix(source, bs)
    /\ Marks(variant) => Clean(mode, source, bs)

\* What a strict export's sidecar says after the conversions, and after the build.
OnnxTold(meta, bs) ==
    meta.load = "strict" =>
        /\ meta.kind = "onnx" /\ meta.checkpoint = <<bs[1]>> /\ meta.graph = bs[2]
        /\ Described(meta.precision_mode, meta.source, bs)

BuiltAs(mode, source, src, flag) ==
    /\ OfPrefix(source, src)
    /\ flag = "none" => Described(mode, source, src)
    /\ flag # "none" => mode.family = "weakly_typed"

EngineTold(meta, src, flag) ==
    meta.load = "strict" =>
        /\ meta.checkpoint = <<src[1]>> /\ meta.graph = src[2] /\ meta.onnx = src
        /\ BuiltAs(meta.precision_mode, meta.source, src, flag)

MadeEngine(bs, src, typed, flag) ==
    /\ MadeOnnx(src) /\ bs = src \o <<typed, flag>>
    /\ typed \in {"strong", "weak"} /\ flag \in Lineages[variant].flags

FileInv ==
    /\ file.kind \in {"none", "checkpoint", "onnx", "engine"}
    /\ file.kind = "none" => file = Lineage(variant)!NoFile
    /\ file.kind = "checkpoint" => \E c \in Lineages[variant].checkpoints : file.bytes = <<c>>
    /\ file.kind = "onnx" => MadeOnnx(file.bytes) /\ OnnxTold(file.meta, file.bytes)
    /\ file.kind = "engine" =>
           \E src, typed, flag : /\ MadeEngine(file.bytes, src, typed, flag)
                                 /\ EngineTold(file.meta, src, flag)

LEMMA LineageConstants ==
    ASSUME variant \in DOMAIN Lineages
    PROVE  /\ Lineages[variant].stages \in Nat \ {0, 1}
           /\ Lineages[variant].max_conversions \in Nat
           /\ Lineages[variant].converters \subseteq {"decoder", "slim", "fp16", "int8"}
           /\ Lineages[variant].graphs
                \subseteq [initial : Nat \ {0}, cascade : {<<>>} \cup (Nat \X Nat),
                           eval_idx : Nat, size : Nat \ {0}]
           /\ Lineages[variant].kinds \subseteq {"export", "runtime", "precision", "preset", "comparison"}
BY PartsAssumption DEF Lineage!LineageAssumption, Lineage!TransitionKinds

LEMMA OfPrefixGrows ==
    ASSUME NEW S, NEW bs \in Seq(S), NEW t \in S, NEW source, OfPrefix(source, bs)
    PROVE  OfPrefix(source, Append(bs, t))
<1>1. CASE source = <<>> BY <1>1 DEF OfPrefix
<1>2. CASE source # <<>>
  <2>1. Len(source) \in Nat /\ Len(source) < Len(bs) /\ SubSeq(bs, 1, Len(source)) = source
    BY <1>2 DEF OfPrefix
  <2>2. Len(Append(bs, t)) = Len(bs) + 1 OBVIOUS
  <2>3. SubSeq(Append(bs, t), 1, Len(source)) = SubSeq(bs, 1, Len(source))
    BY <2>1
  <2> QED BY <2>1, <2>2, <2>3 DEF OfPrefix
<1> QED BY <1>1, <1>2

LEMMA Joined ==
    ASSUME NEW S, NEW c \in S, NEW g \in S, NEW h \in S
    PROVE  <<c>> \o <<g>> = <<c, g>> /\ <<c, g>> \o <<>> = <<c, g>>
           /\ <<c, g>> \o <<h>> = <<c, g, h>>
<1>1. /\ <<c>> \in Seq(S) /\ <<g>> \in Seq(S) /\ <<h>> \in Seq(S)
      /\ <<c, g>> \in Seq(S) /\ <<c, g, h>> \in Seq(S)
  OBVIOUS
<1>2. <<c>> \o <<g>> = <<c, g>>
  <2>1. /\ <<c>> \o <<g>> \in Seq(S) /\ Len(<<c>> \o <<g>>) = 2
        /\ \A n \in 1 .. 2 : (<<c>> \o <<g>>)[n] = IF n <= 1 THEN <<c>>[n] ELSE <<g>>[n - 1]
    BY <1>1, ConcatProperties
  <2>2. \A n \in 1 .. 2 : (<<c>> \o <<g>>)[n] = <<c, g>>[n] BY <2>1
  <2> QED BY <1>1, <2>1, <2>2, SeqEqual
<1>3. <<c, g>> \o <<>> = <<c, g>> BY <1>1, ConcatEmptySeq
<1>4. <<c, g>> \o <<h>> = <<c, g, h>>
  <2>1. /\ <<c, g>> \o <<h>> \in Seq(S) /\ Len(<<c, g>> \o <<h>>) = 3
        /\ \A n \in 1 .. 3 : (<<c, g>> \o <<h>>)[n] = IF n <= 2 THEN <<c, g>>[n] ELSE <<h>>[n - 2]
    BY <1>1, ConcatProperties
  <2>2. \A n \in 1 .. 3 : (<<c, g>> \o <<h>>)[n] = <<c, g, h>>[n]
    BY <2>1
  <2> QED BY <1>1, <2>1, <2>2, SeqEqual
<1> QED BY <1>2, <1>3, <1>4

LEMMA ExportedOnnx ==
    ASSUME NEW c \in Lineages[variant].checkpoints, NEW g \in Lineages[variant].graphs,
           Lineage(variant)!ValidCascade(g)
    PROVE  /\ MadeOnnx(<<c>> \o <<g>> \o <<>>) /\ <<c>> \o <<g>> \o <<>> = <<c, g>>
           /\ MadeOnnx(<<c>> \o <<g>> \o <<"partial">>)
<1>1. c \in Steps /\ g \in Steps /\ "partial" \in Steps BY DEF Steps
<1>2. <<c>> \o <<g>> = <<c, g>> /\ <<c, g>> \o <<>> = <<c, g>>
  BY <1>1, Joined
<1>3. <<c, g>> \o <<"partial">> = <<c, g, "partial">> BY <1>1, Joined
<1>4. MadeOnnx(<<c, g>>) BY <1>1 DEF MadeOnnx
<1>5. MadeOnnx(<<c, g, "partial">>) BY <1>1 DEF MadeOnnx
<1> QED BY <1>2, <1>3, <1>4, <1>5

LEMMA ConvertedOnnx ==
    ASSUME NEW bs, MadeOnnx(bs), NEW t \in Lineages[variant].converters
    PROVE  MadeOnnx(Append(bs, t)) /\ Append(bs, t)[1] = bs[1] /\ Append(bs, t)[2] = bs[2]
<1>1. t \in Steps /\ bs \in Seq(Steps) /\ Len(bs) \in Nat /\ Len(bs) >= 2
  BY DEF Steps, MadeOnnx
<1>2. Append(bs, t) \in Seq(Steps) /\ Len(Append(bs, t)) = Len(bs) + 1
  BY <1>1
<1>3. /\ \A n \in 1 .. Len(bs) : Append(bs, t)[n] = bs[n]
      /\ Append(bs, t)[Len(bs) + 1] = t
  BY <1>1
<1>4. \A n \in 3 .. Len(bs) + 1 : Append(bs, t)[n] \in Lineages[variant].converters \cup {"partial"}
  <2> TAKE n \in 3 .. Len(bs) + 1
  <2>1. n \in 3 .. Len(bs) \/ n = Len(bs) + 1 BY <1>1
  <2>2. CASE n \in 3 .. Len(bs) BY <2>2, <1>1, <1>3 DEF MadeOnnx
  <2> QED BY <2>1, <2>2, <1>3
<1>5. Append(bs, t)[1] = bs[1] /\ Append(bs, t)[2] = bs[2] BY <1>1, <1>3
<1> QED BY <1>1, <1>2, <1>4, <1>5 DEF MadeOnnx

LEMMA ConvertedTold ==
    ASSUME variant \in DOMAIN Lineages, NEW bs, MadeOnnx(bs), NEW meta, OnnxTold(meta, bs),
           DOMAIN meta = DOMAIN Lineage(variant)!NoMeta,
           Lineage(variant)!Conversions(bs) < Lineages[variant].max_conversions,
           NEW t \in Lineages[variant].converters
    PROVE  OnnxTold(Lineage(variant)!ConverterMeta(t, meta, bs), Append(bs, t))
<1> DEFINE new == Lineage(variant)!ConverterMeta(t, meta, bs)
           cs == Append(bs, t)
<1>1. t \in {"decoder", "slim", "fp16", "int8"} BY LineageConstants
<1>2. /\ bs \in Seq(Steps) /\ t \in Steps /\ Len(bs) \in Nat /\ Len(bs) >= 2
      /\ cs[1] = bs[1] /\ cs[2] = bs[2] /\ Len(cs) = Len(bs) + 1
  BY ConvertedOnnx DEF MadeOnnx, Steps
<1>3. /\ new.load = meta.load /\ new.kind = meta.kind /\ new.checkpoint = meta.checkpoint
      /\ new.graph = meta.graph
      /\ t \in {"decoder", "slim"} =>
             new.precision_mode = Lineage(variant)!Mode("surgical", t) /\ new.source = bs
      /\ t = "fp16" => /\ new.precision_mode = Lineage(variant)!Mode("strongly_typed_onnx", t)
                       /\ new.source = meta.source
      /\ t = "int8" => new = meta
  BY <1>1 DEF Lineage!ConverterMeta, Lineage!ConvertedSidecar, Lineage!NoMeta
<1> SUFFICES ASSUME new.load = "strict"
             PROVE  Described(new.precision_mode, new.source, cs)
  BY <1>2, <1>3 DEF OnnxTold
<1>4. Described(meta.precision_mode, meta.source, bs)
  BY <1>3 DEF OnnxTold
<1>5. new.precision_mode.family # "weakly_typed"
  BY <1>1, <1>3, <1>4 DEF Lineage!Mode, Described
<1>6. OfPrefix(new.source, cs)
  <2>1. CASE t \in {"decoder", "slim"}
    <3>1. SubSeq(cs, 1, Len(bs)) = bs BY <1>2
    <3> QED BY <2>1, <3>1, <1>2, <1>3 DEF OfPrefix
  <2>2. CASE t \in {"fp16", "int8"}
    <3>1. new.source = meta.source BY <2>2, <1>3
    <3> QED BY <3>1, <1>2, <1>4, OfPrefixGrows DEF Described
  <2> QED BY <1>1, <2>1, <2>2
<1>7. ASSUME Marks(variant)
      PROVE  Clean(new.precision_mode, new.source, cs)
  <2>1. t \in {"decoder", "slim"} BY <1>7 DEF Marks
  <2>2. Len(bs) = 2
    <3>1. Lineage(variant)!Conversions(bs) = Len(bs) - 2
      BY <1>2 DEF Lineage!Conversions
    <3>2. Lineages[variant].max_conversions \in Nat /\ Lineages[variant].max_conversions <= 1
      BY <1>7, LineageConstants DEF Marks
    <3>3. Lineage(variant)!Conversions(bs) < Lineages[variant].max_conversions
      OBVIOUS
    <3>4. Len(bs) \in Nat /\ Len(bs) >= 2 BY <1>2
    <3> DEFINE most == Lineages[variant].max_conversions
               len == Len(bs)
    <3>5. len \in Nat /\ most \in Nat /\ len - 2 < most /\ most <= 1 /\ len >= 2
      BY <3>1, <3>2, <3>3, <3>4
    <3> HIDE DEF most, len
    <3>6. len = 2 BY <3>5
    <3> QED BY <3>6 DEF len
  <2>3. bs = <<bs[1], bs[2]>> BY <1>2, <2>2
  <2>4. cs[3] = t /\ Len(cs) = 3 BY <1>2, <2>2
  <2> HIDE DEF new, cs
  <2> QED BY <1>2, <1>3, <2>1, <2>3, <2>4 DEF Clean
<1> QED BY <1>5, <1>6, <1>7 DEF Described

\* A sidecar has the fields of one.
MetaFields == DOMAIN file.meta = DOMAIN Lineage(variant)!NoMeta

LEMMA FileStepInv ==
    ASSUME variant \in DOMAIN Lineages, FileInv, MetaFields, DOMAIN file = {"kind", "bytes", "meta"},
           Lineage(variant)!Next
    PROVE  FileInv' /\ MetaFields' /\ DOMAIN file' = {"kind", "bytes", "meta"}
<1> DEFINE Fields(f) == DOMAIN f = {"kind", "bytes", "meta"}
                         /\ DOMAIN f.meta = DOMAIN Lineage(variant)!NoMeta
<1> SUFFICES FileInv' /\ Fields(file')
  BY DEF MetaFields, Lineage!NoMeta, Lineage!Mode, Lineage!NoGraph
<1>1. Fields(Lineage(variant)!NoFile) /\ Lineage(variant)!NoFile.kind = "none"
  BY DEF Lineage!NoFile
<1>2. ASSUME NEW c \in Lineages[variant].checkpoints, Lineage(variant)!Take(c)
      PROVE  FileInv' /\ Fields(file')
  <2>1. file' = [kind |-> "checkpoint", bytes |-> <<c>>, meta |-> Lineage(variant)!NoMeta]
    BY <1>2 DEF Lineage!Take
  <2> QED BY <2>1 DEF FileInv
<1>3. ASSUME NEW g \in Lineages[variant].graphs, NEW load \in {"strict", "partial"},
             Lineage(variant)!Export(g, load)
      PROVE  FileInv' /\ Fields(file')
  <2> DEFINE bs == file.bytes \o <<g>> \o (IF load = "strict" THEN <<>> ELSE <<load>>)
  <2>1. /\ file.kind = "checkpoint" /\ Lineage(variant)!ValidCascade(g)
        /\ file' = [kind |-> "onnx", bytes |-> bs,
                    meta |-> [kind |-> "onnx", precision_mode |-> Lineage(variant)!Fp32Mode,
                              load |-> load, checkpoint |-> file.bytes, graph |-> g,
                              onnx |-> <<>>, source |-> <<>>]]
    BY <1>3 DEF Lineage!Export
  <2>2. PICK c \in Lineages[variant].checkpoints : file.bytes = <<c>>
    BY <2>1 DEF FileInv
  <2>3. MadeOnnx(bs) /\ (load = "strict" => bs = <<c, g>>)
    <3>1. CASE load = "strict"
      <4>1. bs = <<c>> \o <<g>> \o <<>> BY <2>2, <3>1
      <4> HIDE DEF bs
      <4> QED BY <4>1, <2>1, ExportedOnnx
    <3>2. CASE load = "partial"
      <4>1. bs = <<c>> \o <<g>> \o <<"partial">> BY <2>2, <3>2
      <4> HIDE DEF bs
      <4> QED BY <4>1, <3>2, <2>1, ExportedOnnx
    <3> QED BY <3>1, <3>2
  <2> HIDE DEF bs
  <2> DEFINE meta == file'.meta
  <2>4. /\ file'.kind = "onnx" /\ file'.bytes = bs
        /\ meta.kind = "onnx" /\ meta.precision_mode = Lineage(variant)!Fp32Mode
        /\ meta.load = load /\ meta.checkpoint = file.bytes /\ meta.graph = g
        /\ meta.source = <<>>
    BY <2>1
  <2>5. Fields(file') BY <2>1 DEF Lineage!NoMeta
  <2>6. OnnxTold(meta, bs)
    <3> SUFFICES ASSUME load = "strict"
                 PROVE  /\ meta.checkpoint = <<bs[1]>> /\ meta.graph = bs[2]
                        /\ Described(meta.precision_mode, meta.source, bs)
      BY <2>4 DEF OnnxTold
    <3>1. bs[1] = c /\ bs[2] = g /\ Len(bs) = 2 BY <2>3
    <3>2. Lineage(variant)!Fp32Mode.family # "weakly_typed"
      BY DEF Lineage!Fp32Mode, Lineage!Mode
    <3> QED BY <2>2, <2>4, <3>1, <3>2 DEF Described, OfPrefix, Clean
  <2> HIDE DEF meta
  <2>7. FileInv' BY <2>3, <2>4, <2>6 DEF FileInv, meta
  <2> QED BY <2>5, <2>7
<1>4. ASSUME NEW t \in Lineages[variant].converters, Lineage(variant)!Convert(t)
      PROVE  FileInv' /\ Fields(file')
  <2> DEFINE bs == file.bytes
             meta == file.meta
  <2>1. /\ file.kind = "onnx"
        /\ Lineage(variant)!Conversions(bs) < Lineages[variant].max_conversions
        /\ file' = [file EXCEPT !.bytes = Append(@, t),
                                !.meta = IF @.kind = "none" THEN @
                                         ELSE Lineage(variant)!ConverterMeta(t, @, file.bytes)]
    BY <1>4 DEF Lineage!Convert
  <2>2. /\ file'.kind = "onnx" /\ file'.bytes = Append(bs, t) /\ DOMAIN file' = DOMAIN file
        /\ file'.meta = IF meta.kind = "none" THEN meta
                        ELSE Lineage(variant)!ConverterMeta(t, meta, bs)
    BY <2>1
  <2>3. MadeOnnx(bs) /\ OnnxTold(meta, bs) BY <2>1 DEF FileInv
  <2>4. MadeOnnx(Append(bs, t)) BY <2>3, ConvertedOnnx
  <2>5. DOMAIN Lineage(variant)!ConverterMeta(t, meta, bs) = DOMAIN meta
    <3>1. t \in {"decoder", "slim", "fp16", "int8"} BY LineageConstants
    <3> QED BY <3>1 DEF Lineage!ConverterMeta, Lineage!ConvertedSidecar
  <2>6. OnnxTold(file'.meta, Append(bs, t))
    <3>1. CASE meta.kind = "none"
      <4>1. meta.load # "strict" BY <2>3, <3>1 DEF OnnxTold
      <4> QED BY <4>1, <3>1, <2>2 DEF OnnxTold
    <3>2. CASE meta.kind # "none"
      <4> HIDE DEF bs, meta
      <4>1. DOMAIN meta = DOMAIN Lineage(variant)!NoMeta
        BY DEF MetaFields, meta
      <4> QED BY <2>1, <2>2, <2>3, <3>2, <4>1, ConvertedTold
    <3> QED BY <3>1, <3>2
  <2>7. Fields(file') BY <2>2, <2>5 DEF MetaFields
  <2> HIDE DEF bs, meta
  <2> QED BY <2>2, <2>4, <2>6, <2>7 DEF FileInv
<1>5. ASSUME NEW flag \in Lineages[variant].flags, NEW typed \in {"strong", "weak"},
             Lineage(variant)!Build(flag, typed)
      PROVE  FileInv' /\ Fields(file')
  <2> DEFINE bs == file.bytes
             meta == file.meta
             new == file'.meta
  <2>1. /\ file.kind = "onnx"
        /\ file' = [kind |-> "engine", bytes |-> file.bytes \o <<typed, flag>>,
                    meta |-> Lineage(variant)!EngineMeta(meta, bs, flag, typed)]
    BY <1>5 DEF Lineage!Build
  <2>2. MadeOnnx(bs) /\ OnnxTold(meta, bs) BY <2>1 DEF FileInv
  <2>3. /\ file'.kind = "engine" /\ file'.bytes = bs \o <<typed, flag>>
        /\ new = [meta EXCEPT !.kind = "engine",
                     !.precision_mode = Lineage(variant)!BuiltMode(meta, flag, typed), !.onnx = bs]
    BY <2>1 DEF Lineage!EngineMeta, Lineage!BuiltFrom
  <2>4. /\ new.load = meta.load /\ new.checkpoint = meta.checkpoint /\ new.graph = meta.graph
        /\ new.source = meta.source /\ new.onnx = bs /\ DOMAIN new = DOMAIN meta
        /\ new.precision_mode = Lineage(variant)!BuiltMode(meta, flag, typed)
    BY <2>3 DEF MetaFields, Lineage!NoMeta
  <2>5. Fields(file') BY <2>1, <2>4 DEF MetaFields
  <2>6. MadeEngine(file'.bytes, bs, typed, flag)
    BY <2>2, <2>3 DEF MadeEngine
  <2>7. EngineTold(new, bs, flag)
    <3> SUFFICES ASSUME meta.load = "strict"
                 PROVE  /\ meta.checkpoint = <<bs[1]>> /\ meta.graph = bs[2]
                        /\ BuiltAs(new.precision_mode, meta.source, bs, flag)
      BY <2>4 DEF EngineTold
    <3>1. /\ meta.kind = "onnx" /\ meta.checkpoint = <<bs[1]>> /\ meta.graph = bs[2]
          /\ Described(meta.precision_mode, meta.source, bs)
      BY <2>2 DEF OnnxTold
    <3>2. flag = "none" => new.precision_mode = meta.precision_mode
      BY <2>4, <3>1 DEF Lineage!BuiltMode
    <3>3. flag # "none" => new.precision_mode.family = "weakly_typed"
      BY <2>4 DEF Lineage!BuiltMode, Lineage!Mode
    <3> HIDE DEF bs, meta, new
    <3> QED BY <3>1, <3>2, <3>3 DEF BuiltAs, Described
  <2> HIDE DEF bs, meta
  <2>8. FileInv' BY <2>3, <2>6, <2>7 DEF FileInv
  <2> QED BY <2>5, <2>8
<1>6. ASSUME Lineage(variant)!LoseSidecar
      PROVE  FileInv' /\ Fields(file')
  <2>1. file.meta.kind # "none" /\ file' = [file EXCEPT !.meta = Lineage(variant)!NoMeta]
    BY <1>6 DEF Lineage!LoseSidecar
  <2>2. /\ file'.kind = file.kind /\ file'.bytes = file.bytes /\ DOMAIN file' = DOMAIN file
        /\ file'.meta = Lineage(variant)!NoMeta
    BY <2>1
  <2>3. Lineage(variant)!NoMeta.load = "none" /\ Lineage(variant)!NoMeta.kind = "none"
    BY DEF Lineage!NoMeta
  <2>4. file.kind # "none" BY <2>1, <2>3 DEF FileInv, Lineage!NoFile
  <2>5. CASE file.kind = "engine"
    <3>1. PICK src, typed, flag : MadeEngine(file.bytes, src, typed, flag)
      BY <2>5 DEF FileInv
    <3>2. EngineTold(file'.meta, src, flag) BY <2>2, <2>3 DEF EngineTold
    <3>3. \E src_1, typed_1, flag_1 : /\ MadeEngine(file'.bytes, src_1, typed_1, flag_1)
                                      /\ EngineTold(file'.meta, src_1, flag_1)
      BY <2>2, <3>1, <3>2
    <3> QED BY <2>2, <2>5, <3>3 DEF FileInv
  <2>6. CASE file.kind \in {"checkpoint", "onnx"}
    <3>1. OnnxTold(file'.meta, file'.bytes) BY <2>2, <2>3 DEF OnnxTold
    <3> QED BY <2>2, <2>6, <3>1 DEF FileInv
  <2> QED BY <2>4, <2>5, <2>6 DEF FileInv
<1>7. ASSUME file' = Lineage(variant)!NoFile
      PROVE  FileInv' /\ Fields(file')
  BY <1>1, <1>7 DEF FileInv, Lineage!NoFile
<1>8. ASSUME file' = file
      PROVE  FileInv' /\ Fields(file')
  BY <1>8 DEF FileInv, MetaFields
<1>9. ASSUME NEW g \in Lineages[variant].graphs, NEW P, NEW m, NEW legacy,
             Lineage(variant)!Evaluate(g, P, m, legacy)
      PROVE  file' = Lineage(variant)!NoFile
  BY <1>9 DEF Lineage!Evaluate
<1>10. ASSUME NEW ask, NEW allow, Lineage(variant)!BuildReport(ask, allow)
       PROVE  file' = file
  BY <1>10 DEF Lineage!BuildReport
<1> QED BY <1>2, <1>3, <1>4, <1>5, <1>6, <1>7, <1>8, <1>9, <1>10 DEF Lineage!Next

\* A report that says anything of its model says how its artifact was made.
GoodReport(s) ==
    ~ s.legacy =>
        /\ s.lineage.artifact = s.artifact /\ s.lineage.checkpoint = s.model.checkpoint
        /\ s.model.checkpoint = <<s.artifact[1]>>
        /\ s.model.graph \in Lineages[variant].graphs
        /\ Lineage(variant)!ValidCascade(s.model.graph)
        /\ \/ /\ s.lineage.kind = "checkpoint" /\ s.artifact = <<s.artifact[1]>>
              /\ s.lineage.precision_mode = Lineage(variant)!Fp32Mode
           \/ /\ s.lineage.kind = "onnx" /\ MadeOnnx(s.artifact)
              /\ s.model.graph = s.artifact[2]
              /\ Described(s.lineage.precision_mode, s.lineage.source, s.artifact)
           \/ /\ s.lineage.kind = "engine"
              /\ \E typed, flag : MadeEngine(s.artifact, s.lineage.onnx, typed, flag)
                     /\ BuiltAs(s.lineage.precision_mode, s.lineage.source, s.lineage.onnx, flag)
              /\ s.model.graph = s.lineage.onnx[2]

LEMMA EngineBytes ==
    ASSUME NEW bs, NEW src, NEW typed, NEW flag, MadeEngine(bs, src, typed, flag)
    PROVE  /\ bs \in Seq(Steps) /\ Len(src) \in Nat /\ Len(src) >= 2
           /\ Len(bs) = Len(src) + 2
           /\ \A n \in 1 .. Len(src) : bs[n] = src[n]
           /\ bs[Len(bs) - 1] = typed /\ bs[Len(bs)] = flag
           /\ Lineage(variant)!SourceOf(bs) = src
<1>1. /\ src \in Seq(Steps) /\ Len(src) \in Nat /\ Len(src) >= 2
      /\ <<typed, flag>> \in Seq(Steps) /\ bs = src \o <<typed, flag>>
  BY DEF MadeEngine, MadeOnnx, Steps
<1>2. /\ bs \in Seq(Steps) /\ Len(bs) = Len(src) + 2
      /\ \A n \in 1 .. Len(src) + 2 :
             bs[n] = IF n <= Len(src) THEN src[n] ELSE <<typed, flag>>[n - Len(src)]
  BY <1>1, ConcatProperties
<1>3. \A n \in 1 .. Len(src) : bs[n] = src[n] BY <1>1, <1>2
<1>4. bs[Len(bs) - 1] = typed /\ bs[Len(bs)] = flag BY <1>1, <1>2
<1>5. SubSeq(bs, 1, Len(src)) = src BY <1>1, <1>2, <1>3
<1> QED BY <1>1, <1>2, <1>3, <1>4, <1>5 DEF Lineage!SourceOf

LEMMA EvaluatedGood ==
    ASSUME variant \in DOMAIN Lineages, FileInv, DOMAIN file = {"kind", "bytes", "meta"},
           NEW g \in Lineages[variant].graphs, NEW P, NEW m, NEW legacy \in BOOLEAN,
           Lineage(variant)!Evaluate(g, P, m, legacy)
    PROVE  \E s : /\ reports' = Append(reports, s) /\ GoodReport(s)
                  /\ s.legacy \in BOOLEAN
<1> DEFINE a == Lineage(variant)!Subject(g)
           s == [legacy |-> legacy, artifact |-> a.bytes,
                 model |-> Lineage(variant)!ModelContract(a.meta),
                 lineage |-> Lineage(variant)!Lineage(a), protocol |-> P, manifest |-> m]
<1>1. /\ file.kind # "none" /\ reports' = Append(reports, s)
      /\ file.kind # "checkpoint" => g = file.meta.graph
      /\ file.kind = "checkpoint" => Lineage(variant)!ValidCascade(g)
      /\ legacy \/ (a.meta.kind = a.kind /\ Lineage(variant)!HasContract(a.meta))
  BY DEF Lineage!Evaluate
<1>2. /\ s.legacy = legacy /\ s.artifact = a.bytes /\ s.lineage.artifact = a.bytes
      /\ s.lineage.checkpoint = a.meta.checkpoint /\ s.model.checkpoint = a.meta.checkpoint
      /\ s.model.graph = a.meta.graph /\ s.lineage.kind = a.kind
      /\ s.lineage.precision_mode = a.meta.precision_mode /\ s.lineage.source = a.meta.source
      /\ s.lineage.onnx = a.meta.onnx
  BY DEF Lineage!ModelContract, Lineage!Lineage
<1> HIDE DEF s
<1>3. ASSUME ~ legacy
      PROVE  GoodReport(s)
  <2>1. /\ a.meta.kind = a.kind /\ a.meta.load = "strict"
        /\ Lineage(variant)!ValidCascade(a.meta.graph)
    BY <1>1, <1>3 DEF Lineage!HasContract
  <2>2. CASE file.kind = "checkpoint"
    <3>1. PICK c \in Lineages[variant].checkpoints : file.bytes = <<c>>
      BY <2>2 DEF FileInv
    <3>2. /\ a.bytes = file.bytes /\ a.kind = "checkpoint"
          /\ a.meta.checkpoint = file.bytes /\ a.meta.graph = g
          /\ a.meta.precision_mode = Lineage(variant)!Fp32Mode
      <4> DEFINE meta == Lineage(variant)!TorchMeta(g)
      <4>1. /\ meta.checkpoint = file.bytes /\ meta.graph = g /\ meta.kind = "checkpoint"
            /\ meta.precision_mode = Lineage(variant)!Fp32Mode
        BY DEF Lineage!TorchMeta, Lineage!NoMeta
      <4>2. a = [file EXCEPT !.meta = meta] BY <2>2 DEF Lineage!Subject
      <4> HIDE DEF meta, a
      <4>3. a.meta = meta /\ a.bytes = file.bytes /\ a.kind = file.kind
        BY <4>2
      <4> QED BY <2>2, <4>1, <4>3
    <3>3. <<c>>[1] = c OBVIOUS
    <3> HIDE DEF a
    <3> QED BY <1>1, <1>2, <2>1, <3>1, <3>2, <3>3 DEF GoodReport
  <2>3. CASE file.kind = "onnx"
    <3>1. a = file BY <2>3 DEF Lineage!Subject
    <3>2. MadeOnnx(file.bytes) /\ OnnxTold(file.meta, file.bytes)
      BY <2>3 DEF FileInv
    <3> HIDE DEF a
    <3> QED BY <1>1, <1>2, <2>1, <2>3, <3>1, <3>2 DEF GoodReport, OnnxTold
  <2>4. CASE file.kind = "engine"
    <3>1. a = file BY <2>4 DEF Lineage!Subject
    <3>2. PICK src, typed, flag : MadeEngine(file.bytes, src, typed, flag)
                                  /\ EngineTold(file.meta, src, flag)
      BY <2>4 DEF FileInv
    <3> HIDE DEF a
    <3>3. /\ file.meta.checkpoint = <<src[1]>> /\ file.meta.graph = src[2]
          /\ file.meta.onnx = src
          /\ BuiltAs(file.meta.precision_mode, file.meta.source, src, flag)
      BY <2>1, <3>1, <3>2 DEF EngineTold
    <3>4. file.bytes[1] = src[1] BY <3>2, EngineBytes
    <3>5. \E typed_1, flag_1 : MadeEngine(s.artifact, s.lineage.onnx, typed_1, flag_1)
            /\ BuiltAs(s.lineage.precision_mode, s.lineage.source, s.lineage.onnx, flag_1)
      BY <1>2, <3>1, <3>2, <3>3
    <3> QED BY <1>1, <1>2, <2>1, <2>4, <3>1, <3>3, <3>4, <3>5 DEF GoodReport
  <2> QED BY <1>1, <2>2, <2>3, <2>4 DEF FileInv
<1>4. ASSUME legacy
      PROVE  GoodReport(s)
  BY <1>2, <1>4 DEF GoodReport
<1> QED BY <1>1, <1>2, <1>3, <1>4

\* What build_report says of the reports.
Judgement(ask, allow) ==
    LET Pairs == 1 .. Lineages[variant].stages - 1
        passed == [n \in Pairs |-> Lineage(variant)!Verified(ask[n], reports[n], reports[n + 1])]
    IN  [judged |-> TRUE,
         accepted |->
             /\ Lineage(variant)!Comparable
             /\ \A n \in DOMAIN reports : Lineage(variant)!StageValid(reports[n])
             /\ \A n \in Pairs :
                   \/ passed[n]
                   \/ Lineage(variant)!Unverified(ask[n], reports[n], reports[n + 1], allow),
         kinds |-> [n \in Pairs |->
                       Lineage(variant)!Requested(ask[n], reports[n], reports[n + 1])],
         verified |-> passed]

\* While an artifact is in hand a report is missing, and a verdict is on all of them.
LineageInv ==
    /\ FileInv /\ MetaFields /\ DOMAIN file = {"kind", "bytes", "meta"}
    /\ \E S : reports \in Seq(S)
    /\ file.kind # "none" => Len(reports) < Lineages[variant].stages
    /\ \A n \in 1 .. Len(reports) : GoodReport(reports[n])
    /\ verdict.judged \in BOOLEAN
    /\ verdict.judged =>
           /\ Len(reports) = Lineages[variant].stages
           /\ \E ask \in Lineage(variant)!Asked, allow \in BOOLEAN : verdict = Judgement(ask, allow)
    /\ ~ verdict.judged => verdict = Lineage(variant)!Unjudged

LEMMA LineageStepInv ==
    ASSUME variant \in DOMAIN Lineages, LineageInv, Lineage(variant)!Next
    PROVE  LineageInv'
<1>1. FileInv' /\ MetaFields' /\ DOMAIN file' = {"kind", "bytes", "meta"}
  BY FileStepInv DEF LineageInv
<1>2. PICK S : reports \in Seq(S) BY DEF LineageInv
<1>3. /\ Lineages[variant].stages \in Nat \ {0, 1} /\ Len(reports) \in Nat
      /\ file.kind # "none" => Len(reports) < Lineages[variant].stages
      /\ \A n \in 1 .. Len(reports) : GoodReport(reports[n])
      /\ verdict.judged \in BOOLEAN
      /\ verdict.judged => Len(reports) = Lineages[variant].stages
      /\ ~ verdict.judged => verdict = Lineage(variant)!Unjudged
  BY <1>2, LineageConstants DEF LineageInv
<1>4. ASSUME UNCHANGED <<reports, verdict>>, ~ verdict.judged, Len(reports) < Lineages[variant].stages
      PROVE  LineageInv'
  <2>1. \A n \in 1 .. Len(reports') : GoodReport(reports[n])'
    BY <1>3, <1>4 DEF GoodReport
  <2> QED BY <1>1, <1>2, <1>3, <1>4, <2>1 DEF LineageInv, Lineage!Unjudged
<1>5. file.kind # "none" => ~ verdict.judged BY <1>3
<1>6. ASSUME NEW c \in Lineages[variant].checkpoints, Lineage(variant)!Take(c)
      PROVE  LineageInv'
  <2>1. Len(reports) < Lineages[variant].stages /\ UNCHANGED <<reports, verdict>>
    BY <1>6 DEF Lineage!Take
  <2> QED BY <2>1, <1>3, <1>4
<1>7. ASSUME NEW g \in Lineages[variant].graphs, NEW load \in {"strict", "partial"},
             Lineage(variant)!Export(g, load)
      PROVE  LineageInv'
  <2>1. file.kind = "checkpoint" /\ UNCHANGED <<reports, verdict>>
    BY <1>7 DEF Lineage!Export
  <2> QED BY <2>1, <1>3, <1>4, <1>5
<1>8. ASSUME NEW t \in Lineages[variant].converters, Lineage(variant)!Convert(t)
      PROVE  LineageInv'
  <2>1. file.kind = "onnx" /\ UNCHANGED <<reports, verdict>>
    BY <1>8 DEF Lineage!Convert
  <2> QED BY <2>1, <1>3, <1>4, <1>5
<1>9. ASSUME NEW flag \in Lineages[variant].flags, NEW typed \in {"strong", "weak"},
             Lineage(variant)!Build(flag, typed)
      PROVE  LineageInv'
  <2>1. file.kind = "onnx" /\ UNCHANGED <<reports, verdict>>
    BY <1>9 DEF Lineage!Build
  <2> QED BY <2>1, <1>3, <1>4, <1>5
<1>10. ASSUME Lineage(variant)!LoseSidecar
       PROVE  LineageInv'
  <2>1. file.meta.kind # "none" /\ UNCHANGED <<reports, verdict>>
    BY <1>10 DEF Lineage!LoseSidecar
  <2>2. file.kind # "none"
    BY <2>1 DEF LineageInv, FileInv, Lineage!NoFile, Lineage!NoMeta
  <2> QED BY <2>1, <2>2, <1>3, <1>4, <1>5
<1>11. ASSUME NEW g \in Lineages[variant].graphs, NEW P \in Lineages[variant].protocols,
              NEW m \in Lineages[variant].manifests, NEW legacy \in BOOLEAN,
              Lineage(variant)!Evaluate(g, P, m, legacy)
       PROVE  LineageInv'
  <2>1. file.kind # "none" /\ UNCHANGED verdict /\ file' = Lineage(variant)!NoFile
    BY <1>11 DEF Lineage!Evaluate
  <2>2. PICK s : reports' = Append(reports, s) /\ GoodReport(s)
    <3>1. FileInv /\ DOMAIN file = {"kind", "bytes", "meta"}
      BY DEF LineageInv
    <3> QED BY <1>11, <3>1, EvaluatedGood
  <2>3. /\ reports \in Seq(S \cup {s}) /\ reports' \in Seq(S \cup {s})
        /\ Len(reports') = Len(reports) + 1
        /\ \A n \in 1 .. Len(reports) : reports'[n] = reports[n]
        /\ reports'[Len(reports) + 1] = s
    <3>1. reports \in Seq(S \cup {s}) BY <1>2
    <3> QED BY <2>2, <3>1
  <2>4. \A n \in 1 .. Len(reports') : GoodReport(reports'[n])
    <3> TAKE n \in 1 .. Len(reports')
    <3>1. n \in 1 .. Len(reports) \/ n = Len(reports) + 1 BY <2>3, <1>3
    <3> QED BY <3>1, <2>2, <2>3, <1>3
  <2>5. \A n \in 1 .. Len(reports') : GoodReport(reports[n])'
    BY <2>4 DEF GoodReport
  <2>6. file'.kind = "none" BY <2>1 DEF Lineage!NoFile
  <2>7. ~ verdict.judged /\ verdict' = Lineage(variant)!Unjudged
    BY <1>3, <1>5, <2>1
  <2>8. \E R : reports' \in Seq(R) BY <2>3
  <2> QED BY <1>1, <2>5, <2>6, <2>7, <2>8 DEF LineageInv, Lineage!Unjudged
<1>12. ASSUME NEW ask \in Lineage(variant)!Asked, NEW allow \in BOOLEAN,
              Lineage(variant)!BuildReport(ask, allow)
       PROVE  LineageInv'
  <2>1. /\ Len(reports) = Lineages[variant].stages /\ UNCHANGED <<file, reports>>
        /\ verdict' = Judgement(ask, allow)
    BY <1>12 DEF Lineage!BuildReport, Judgement
  <2>2. Judgement(ask, allow)' = Judgement(ask, allow)
    BY <2>1 DEF Judgement, Lineage!Comparable, Lineage!ManifestsAgree
  <2>3. verdict'.judged = TRUE BY <2>1 DEF Judgement
  <2>4. \A n \in 1 .. Len(reports') : GoodReport(reports[n])'
    BY <1>3, <2>1 DEF GoodReport
  <2>5. \E ask_1 \in Lineage(variant)!Asked, allow_1 \in BOOLEAN :
            verdict' = Judgement(ask_1, allow_1)'
    BY <2>1, <2>2
  <2>6. Lineage(variant)!Asked' = Lineage(variant)!Asked
    BY DEF Lineage!Asked
  <2> QED BY <1>1, <1>2, <1>3, <2>1, <2>3, <2>4, <2>5, <2>6 DEF LineageInv
<1> QED BY <1>6, <1>7, <1>8, <1>9, <1>10, <1>11, <1>12 DEF Lineage!Next

LEMMA LineageKept ==
    variant \in DOMAIN Lineages => (Lineage(variant)!Spec => []LineageInv)
<1> SUFFICES ASSUME variant \in DOMAIN Lineages
             PROVE  Lineage(variant)!Spec => []LineageInv
  OBVIOUS
<1>1. Lineage(variant)!Init => LineageInv
  <2> SUFFICES ASSUME Lineage(variant)!Init
               PROVE  LineageInv
    OBVIOUS
  <2>1. /\ file = Lineage(variant)!NoFile /\ reports = <<>>
        /\ verdict = Lineage(variant)!Unjudged
    BY DEF Lineage!Init
  <2>2. /\ file.kind = "none" /\ file.meta = Lineage(variant)!NoMeta
        /\ DOMAIN file = {"kind", "bytes", "meta"} /\ verdict.judged = FALSE
    BY <2>1 DEF Lineage!NoFile, Lineage!Unjudged
  <2>3. reports \in Seq({}) /\ Len(reports) = 0 BY <2>1
  <2>4. FileInv /\ MetaFields BY <2>1, <2>2 DEF FileInv, MetaFields
  <2>5. \E S : reports \in Seq(S) BY <2>3
  <2>6. \A n \in 1 .. Len(reports) : GoodReport(reports[n]) BY <2>3
  <2> QED BY <2>1, <2>2, <2>4, <2>5, <2>6 DEF LineageInv
<1>2. LineageInv /\ [Lineage(variant)!Next]_(Lineage(variant)!vars) => LineageInv'
  <2> SUFFICES ASSUME LineageInv, [Lineage(variant)!Next]_(Lineage(variant)!vars)
               PROVE  LineageInv'
    OBVIOUS
  <2>1. CASE Lineage(variant)!Next BY <2>1, LineageStepInv
  <2>2. CASE UNCHANGED Lineage(variant)!vars
    <3>1. UNCHANGED <<file, reports, verdict>> BY <2>2 DEF Lineage!vars
    <3>2. FileInv' /\ MetaFields'
      BY <3>1 DEF LineageInv, FileInv, MetaFields
    <3>3. \A n \in 1 .. Len(reports') : GoodReport(reports[n])'
      BY <3>1 DEF LineageInv, GoodReport
    <3>4. ASSUME NEW ask \in Lineage(variant)!Asked, NEW allow \in BOOLEAN,
                 verdict = Judgement(ask, allow)
          PROVE  verdict' = Judgement(ask, allow)'
      <4>1. Judgement(ask, allow)' = Judgement(ask, allow)
        BY <3>1 DEF Judgement, Lineage!Comparable, Lineage!ManifestsAgree
      <4> QED BY <3>1, <3>4, <4>1
    <3>5. Lineage(variant)!Asked' = Lineage(variant)!Asked
      BY DEF Lineage!Asked
    <3>6. ASSUME verdict.judged
          PROVE  \E ask \in Lineage(variant)!Asked', allow \in BOOLEAN :
                     verdict' = Judgement(ask, allow)'
      <4>1. PICK ask \in Lineage(variant)!Asked, allow \in BOOLEAN : verdict = Judgement(ask, allow)
        BY <3>6 DEF LineageInv
      <4> QED BY <4>1, <3>4, <3>5
    <3> QED BY <3>1, <3>2, <3>3, <3>6 DEF LineageInv, Lineage!Unjudged
  <2> QED BY <2>1, <2>2
<1> QED BY <1>1, <1>2, PTL DEF Lineage!Spec

LEMMA JudgedPair ==
    ASSUME variant \in DOMAIN Lineages, LineageInv, verdict.judged, NEW n \in DOMAIN verdict.kinds
    PROVE  /\ n \in 1 .. Len(reports) /\ n + 1 \in 1 .. Len(reports)
           /\ GoodReport(reports[n]) /\ GoodReport(reports[n + 1])
           /\ \E ask : /\ verdict.kinds[n]
                           = Lineage(variant)!Requested(ask, reports[n], reports[n + 1])
                       /\ verdict.verified[n]
                           = Lineage(variant)!Verified(ask, reports[n], reports[n + 1])
<1>1. PICK ask \in Lineage(variant)!Asked, allow \in BOOLEAN : verdict = Judgement(ask, allow)
  BY DEF LineageInv
<1>2. Lineages[variant].stages \in Nat \ {0, 1} /\ Len(reports) = Lineages[variant].stages
  BY LineageConstants DEF LineageInv
<1>3. DOMAIN verdict.kinds = 1 .. Lineages[variant].stages - 1
  BY <1>1 DEF Judgement
<1>4. n \in 1 .. Lineages[variant].stages - 1 BY <1>3
<1>5. n \in 1 .. Len(reports) /\ n + 1 \in 1 .. Len(reports)
  BY <1>2, <1>4
<1>6. GoodReport(reports[n]) /\ GoodReport(reports[n + 1])
  BY <1>5 DEF LineageInv
<1>7. verdict.kinds[n] = Lineage(variant)!Requested(ask[n], reports[n], reports[n + 1])
  BY <1>1, <1>4 DEF Judgement
<1>8. verdict.verified[n] = Lineage(variant)!Verified(ask[n], reports[n], reports[n + 1])
  BY <1>1, <1>4, Zenon DEF Judgement
<1> QED BY <1>5, <1>6, <1>7, <1>8

LEMMA AcceptedIsJudged ==
    ASSUME LineageInv, verdict.accepted
    PROVE  verdict.judged
BY DEF LineageInv, Lineage!Unjudged

LEMMA PairOfOneModel ==
    ASSUME NEW l, NEW r, NEW ask, GoodReport(l), GoodReport(r), Lineage(variant)!Verified(ask, l, r)
    PROVE  /\ l.artifact[1] = r.artifact[1] /\ l.model.graph.size = r.model.graph.size
           /\ ~ l.legacy /\ ~ r.legacy
<1>1. ~ l.legacy /\ ~ r.legacy /\ Lineage(variant)!SameModel(l, r)
  BY DEF Lineage!Verified
<1>2. <<l.model.checkpoint, l.model.graph.size>> = <<r.model.checkpoint, r.model.graph.size>>
  BY <1>1 DEF Lineage!SameModel, Lineage!IdentityFields
<1>3. l.model.checkpoint = <<l.artifact[1]>> /\ r.model.checkpoint = <<r.artifact[1]>>
  BY <1>1 DEF GoodReport
<1>4. l.model.checkpoint = r.model.checkpoint /\ l.model.graph.size = r.model.graph.size
  BY <1>2
<1>5. l.artifact[1] = r.artifact[1] BY <1>3, <1>4
<1> QED BY <1>1, <1>4, <1>5

LEMMA AxisOfPair ==
    ASSUME NEW l, NEW r, NEW ask, Lineage(variant)!Verified(ask, l, r),
           NEW kind \in {"export", "runtime", "precision", "preset"},
           Lineage(variant)!Requested(ask, l, r) = kind
    PROVE  /\ ~ l.legacy /\ ~ r.legacy
           /\ Lineage(variant)!InferredKind(l, r) = kind /\ Lineage(variant)!AxisFits(kind, l, r)
           /\ Lineage(variant)!SameModel(l, r)
BY DEF Lineage!Verified, Lineage!AskedIsInferred

LEMMA InferredExport ==
    ASSUME NEW l, NEW r, ~ l.legacy, ~ r.legacy,
           Lineage(variant)!InferredKind(l, r) = "export"
    PROVE  l.lineage.kind = "checkpoint" /\ r.lineage.kind = "onnx"
BY DEF Lineage!InferredKind

LEMMA InferredRuntime ==
    ASSUME NEW l, NEW r, ~ l.legacy, ~ r.legacy,
           Lineage(variant)!InferredKind(l, r) = "runtime"
    PROVE  l.lineage.kind = "onnx" /\ r.lineage.kind = "engine"
BY DEF Lineage!InferredKind

LEMMA InferredPrecision ==
    ASSUME NEW l, NEW r, ~ l.legacy, ~ r.legacy,
           Lineage(variant)!InferredKind(l, r) = "precision"
    PROVE  l.lineage.kind = r.lineage.kind /\ l.lineage.kind \in {"onnx", "engine"}
BY DEF Lineage!InferredKind

LEMMA InferredPreset ==
    ASSUME NEW l, NEW r, ~ l.legacy, ~ r.legacy,
           Lineage(variant)!InferredKind(l, r) = "preset"
    PROVE  /\ l.lineage.kind = r.lineage.kind /\ l.lineage.kind \in {"onnx", "engine"}
           /\ l.lineage.precision_mode = r.lineage.precision_mode
           /\ Lineage(variant)!GraphDiffers(l, r)
BY DEF Lineage!InferredKind

LEMMA RuntimePair ==
    ASSUME NEW l, NEW r, NEW ask, GoodReport(l), GoodReport(r), Lineage(variant)!Verified(ask, l, r),
           Lineage(variant)!Requested(ask, l, r) = "runtime"
    PROVE  \E typed \in {"strong", "weak"} : r.artifact = l.artifact \o <<typed, "none">>
<1>1. /\ ~ l.legacy /\ ~ r.legacy /\ Lineage(variant)!AxisFits("runtime", l, r)
      /\ Lineage(variant)!InferredKind(l, r) = "runtime"
  BY AxisOfPair
<1>2. l.lineage.kind = "onnx" /\ r.lineage.kind = "engine"
  BY <1>1, InferredRuntime
<1>3. /\ l.lineage.precision_mode = r.lineage.precision_mode
      /\ r.lineage.onnx = l.lineage.artifact
  BY <1>1 DEF Lineage!AxisFits, Lineage!RuntimeFits, Lineage!SameGraph
<1>4. /\ l.lineage.artifact = l.artifact
      /\ Described(l.lineage.precision_mode, l.lineage.source, l.artifact)
  BY <1>1, <1>2 DEF GoodReport
<1>5. PICK typed, flag : MadeEngine(r.artifact, r.lineage.onnx, typed, flag)
          /\ BuiltAs(r.lineage.precision_mode, r.lineage.source, r.lineage.onnx, flag)
  BY <1>1, <1>2 DEF GoodReport
<1>6. flag = "none" BY <1>3, <1>4, <1>5 DEF BuiltAs, Described
<1> QED BY <1>3, <1>4, <1>5, <1>6 DEF MadeEngine

\* The graph a report is of.
LEMMA OnnxOfReport ==
    ASSUME NEW s, GoodReport(s), ~ s.legacy, s.lineage.kind \in {"onnx", "engine"}
    PROVE  /\ MadeOnnx(Lineage(variant)!OnnxOf(s))
           /\ Lineage(variant)!OnnxOf(s)
                 = IF s.lineage.kind = "onnx" THEN s.artifact ELSE s.lineage.onnx
           /\ OfPrefix(s.lineage.source, Lineage(variant)!OnnxOf(s))
           /\ s.model.graph = Lineage(variant)!OnnxOf(s)[2]
           /\ s.model.checkpoint = <<Lineage(variant)!OnnxOf(s)[1]>>
           /\ s.artifact[1] = Lineage(variant)!OnnxOf(s)[1]
           /\ s.artifact[2] = Lineage(variant)!OnnxOf(s)[2]
<1>1. CASE s.lineage.kind = "onnx"
  BY <1>1 DEF GoodReport, Lineage!OnnxOf, Described
<1>2. CASE s.lineage.kind = "engine"
  <2>1. PICK typed, flag : MadeEngine(s.artifact, s.lineage.onnx, typed, flag)
            /\ BuiltAs(s.lineage.precision_mode, s.lineage.source, s.lineage.onnx, flag)
    BY <1>2 DEF GoodReport
  <2>2. /\ Lineage(variant)!SourceOf(s.artifact) = s.lineage.onnx
        /\ Len(s.lineage.onnx) \in Nat /\ Len(s.lineage.onnx) >= 2
        /\ \A n \in 1 .. Len(s.lineage.onnx) : s.artifact[n] = s.lineage.onnx[n]
    BY <2>1, EngineBytes
  <2>3. Lineage(variant)!OnnxOf(s) = s.lineage.onnx
    BY <1>2, <2>2 DEF Lineage!OnnxOf
  <2>4. s.artifact[1] = s.lineage.onnx[1] /\ s.artifact[2] = s.lineage.onnx[2]
    BY <2>2
  <2>5. s.model.graph = s.lineage.onnx[2] /\ s.model.checkpoint = <<s.artifact[1]>>
    BY <1>2 DEF GoodReport
  <2>6. MadeOnnx(s.lineage.onnx) /\ OfPrefix(s.lineage.source, s.lineage.onnx)
    BY <2>1 DEF MadeEngine, BuiltAs
  <2> QED BY <1>2, <2>3, <2>4, <2>5, <2>6
<1> QED BY <1>1, <1>2

LEMMA PrecisionPair ==
    ASSUME NEW l, NEW r, NEW ask, GoodReport(l), GoodReport(r), Lineage(variant)!Verified(ask, l, r),
           Lineage(variant)!Requested(ask, l, r) = "precision"
    PROVE  Lineage(variant)!IsConverted(Lineage(variant)!OnnxOf(l), Lineage(variant)!OnnxOf(r))
<1>1. /\ ~ l.legacy /\ ~ r.legacy /\ Lineage(variant)!AxisFits("precision", l, r)
      /\ Lineage(variant)!InferredKind(l, r) = "precision"
  BY AxisOfPair
<1>2. l.lineage.kind = r.lineage.kind /\ l.lineage.kind \in {"onnx", "engine"}
  BY <1>1, InferredPrecision
<1>3. r.lineage.source = IF l.lineage.kind = "onnx" THEN l.lineage.artifact ELSE l.lineage.onnx
  BY <1>1 DEF Lineage!AxisFits, Lineage!PrecisionFits
<1> DEFINE a == Lineage(variant)!OnnxOf(l)
           c == Lineage(variant)!OnnxOf(r)
<1>4. MadeOnnx(a) /\ a = (IF l.lineage.kind = "onnx" THEN l.artifact ELSE l.lineage.onnx)
  BY <1>1, <1>2, OnnxOfReport
<1>5. MadeOnnx(c) /\ OfPrefix(r.lineage.source, c)
  BY <1>1, <1>2, OnnxOfReport
<1>6. l.lineage.artifact = l.artifact BY <1>1 DEF GoodReport
<1> HIDE DEF a, c
<1>7. r.lineage.source = a BY <1>3, <1>4, <1>6
<1>8. Len(a) >= 2 /\ Len(a) \in Nat BY <1>4 DEF MadeOnnx
<1>9. a # <<>> BY <1>8
<1>10. Len(a) < Len(c) /\ SubSeq(c, 1, Len(a)) = a
  BY <1>5, <1>7, <1>9 DEF OfPrefix
<1> QED BY <1>10 DEF Lineage!IsConverted, a, c

\* With the converters that write down what they did, a report does too.
LEMMA CleanReport ==
    ASSUME Marks(variant), NEW s, GoodReport(s), ~ s.legacy, s.lineage.kind \in {"onnx", "engine"}
    PROVE  Clean(s.lineage.precision_mode, s.lineage.source, Lineage(variant)!OnnxOf(s))
<1>1. Lineage(variant)!OnnxOf(s) = IF s.lineage.kind = "onnx" THEN s.artifact ELSE s.lineage.onnx
  BY OnnxOfReport
<1>2. CASE s.lineage.kind = "onnx"
  BY <1>1, <1>2 DEF GoodReport, Described
<1>3. CASE s.lineage.kind = "engine"
  <2>1. PICK typed, flag : MadeEngine(s.artifact, s.lineage.onnx, typed, flag)
            /\ BuiltAs(s.lineage.precision_mode, s.lineage.source, s.lineage.onnx, flag)
    BY <1>3 DEF GoodReport
  <2>2. flag = "none" BY <2>1 DEF MadeEngine, Marks
  <2> QED BY <1>1, <1>3, <2>1, <2>2 DEF BuiltAs, Described
<1> QED BY <1>2, <1>3

LEMMA LastOfThree ==
    ASSUME NEW S, NEW bs \in Seq(S), Len(bs) = 3
    PROVE  bs[3] \in S
<1>1. 3 \in 1 .. Len(bs) OBVIOUS
<1> QED BY <1>1, ElementOfSeq

\* What the sidecar says decides the bytes after the graph, and the other way round.
LEMMA CleanModes ==
    ASSUME NEW mode, NEW source, NEW bs, Clean(mode, source, bs), MadeOnnx(bs)
    PROVE  \/ /\ Len(bs) = 2 /\ mode = Lineage(variant)!Fp32Mode /\ source = <<>>
              /\ bs = <<bs[1], bs[2]>> /\ SubSeq(bs, 3, Len(bs)) = <<>>
           \/ /\ Len(bs) = 3 /\ mode = Lineage(variant)!Mode("surgical", bs[3])
              /\ source = <<bs[1], bs[2]>> /\ mode # Lineage(variant)!Fp32Mode
              /\ SubSeq(bs, 3, Len(bs)) = <<bs[3]>>
<1>1. bs \in Seq(Steps) BY DEF MadeOnnx
<1>2. CASE Len(bs) = 2 /\ mode = Lineage(variant)!Fp32Mode /\ source = <<>>
  <2>1. bs = <<bs[1], bs[2]>> BY <1>1, <1>2
  <2>2. SubSeq(bs, 3, Len(bs)) = <<>> BY <1>1, <1>2
  <2> QED BY <1>2, <2>1, <2>2
<1>3. CASE /\ Len(bs) = 3 /\ mode = Lineage(variant)!Mode("surgical", bs[3])
           /\ source = <<bs[1], bs[2]>>
  <2>1. mode # Lineage(variant)!Fp32Mode
    <3>1. mode.family = "surgical" /\ Lineage(variant)!Fp32Mode.family = "fp32"
      BY <1>3 DEF Lineage!Mode, Lineage!Fp32Mode
    <3> QED BY <3>1
  <2>2. SubSeq(bs, 3, Len(bs)) = <<bs[3]>>
    <3>0. Len(bs) = 3 BY <1>3
    <3>4. bs[3] \in Steps BY <1>1, <3>0, LastOfThree
    <3>1. <<bs[3]>> \in Seq(Steps) /\ Len(<<bs[3]>>) = 1 /\ <<bs[3]>>[1] = bs[3]
      BY <3>4
    <3> DEFINE sub == SubSeq(bs, 3, 3)
    <3>2. sub \in Seq(Steps) /\ Len(sub) = 1 /\ sub[1] = bs[3]
      BY <1>1, <3>0, <3>4, SubSeqProperties
    <3> HIDE DEF sub
    <3>3. sub = <<bs[3]>> BY <3>1, <3>2, SeqEqual
    <3> QED BY <1>3, <3>3 DEF sub
  <2> QED BY <1>3, <2>1, <2>2
<1> QED BY <1>2, <1>3 DEF Clean

\* The sliders of two graphs of one size say whether they are one graph.
LEMMA GraphsDiffer ==
    ASSUME variant \in DOMAIN Lineages, NEW l, NEW r,
           l.model.graph \in Lineages[variant].graphs, r.model.graph \in Lineages[variant].graphs,
           l.model.graph.size = r.model.graph.size
    PROVE  Lineage(variant)!GraphDiffers(l, r) <=> l.model.graph # r.model.graph
<1> DEFINE g == l.model.graph
           h == r.model.graph
           G == [initial : Nat \ {0}, cascade : {<<>>} \cup (Nat \X Nat),
                 eval_idx : Nat, size : Nat \ {0}]
<1>1. g \in G /\ h \in G BY LineageConstants
<1>2. Lineage(variant)!GraphDiffers(l, r)
        <=> ~ (g.initial = h.initial /\ g.cascade = h.cascade /\ g.eval_idx = h.eval_idx)
  BY DEF Lineage!GraphDiffers, Lineage!GraphFields
<1>3. g.size = h.size OBVIOUS
<1> HIDE DEF g, h
<1>4. g.initial = h.initial /\ g.cascade = h.cascade /\ g.eval_idx = h.eval_idx => g = h
  BY <1>1, <1>3
<1> QED BY <1>2, <1>4 DEF g, h

LEMMA ExportPair ==
    ASSUME variant \in DOMAIN Lineages, Marks(variant), NEW l, NEW r, NEW ask,
           GoodReport(l), GoodReport(r), Lineage(variant)!Verified(ask, l, r),
           Lineage(variant)!Requested(ask, l, r) = "export"
    PROVE  r.artifact = Append(l.artifact, l.model.graph)
<1>1. /\ ~ l.legacy /\ ~ r.legacy /\ Lineage(variant)!AxisFits("export", l, r)
      /\ Lineage(variant)!InferredKind(l, r) = "export"
  BY AxisOfPair
<1>2. l.lineage.kind = "checkpoint" /\ r.lineage.kind = "onnx"
  BY <1>1, InferredExport
<1>3. /\ ~ Lineage(variant)!GraphDiffers(l, r)
      /\ r.lineage.precision_mode = Lineage(variant)!Fp32Mode
  BY <1>1 DEF Lineage!AxisFits, Lineage!ExportFits
<1>4. Lineage(variant)!OnnxOf(r) = r.artifact /\ MadeOnnx(r.artifact)
  BY <1>1, <1>2, OnnxOfReport
<1>5. r.artifact = <<r.artifact[1], r.artifact[2]>>
  <2>1. Clean(r.lineage.precision_mode, r.lineage.source, r.artifact)
    BY <1>1, <1>2, <1>4, CleanReport
  <2> QED BY <1>3, <1>4, <2>1, CleanModes
<1>6. l.artifact[1] = r.artifact[1] /\ l.model.graph.size = r.model.graph.size
  BY PairOfOneModel
<1>7. l.model.graph = r.model.graph
  <2>1. l.model.graph \in Lineages[variant].graphs /\ r.model.graph \in Lineages[variant].graphs
    BY <1>1 DEF GoodReport
  <2> QED BY <1>3, <1>6, <2>1, GraphsDiffer
<1>8. r.model.graph = r.artifact[2] /\ l.artifact = <<l.artifact[1]>>
  BY <1>1, <1>2 DEF GoodReport
<1> DEFINE c == l.artifact[1]
           g == l.model.graph
<1>9. l.artifact = <<c>> /\ r.artifact = <<c, g>>
  BY <1>5, <1>6, <1>7, <1>8
<1> HIDE DEF c, g
<1>10. Append(<<c>>, g) = <<c, g>>
  <2> DEFINE S == {c, g}
             made == Append(<<c>>, g)
  <2>1. c \in S /\ g \in S OBVIOUS
  <2> HIDE DEF S
  <2>2. <<c>> \in Seq(S) /\ <<c, g>> \in Seq(S) BY <2>1
  <2>3. made \in Seq(S) /\ Len(made) = 2 /\ made[1] = c /\ made[2] = g
    BY <2>1, <2>2
  <2> HIDE DEF made
  <2>4. made = <<c, g>> BY <2>2, <2>3, SeqEqual
  <2> QED BY <2>4 DEF made
<1> QED BY <1>9, <1>10 DEF g

LEMMA PresetPair ==
    ASSUME variant \in DOMAIN Lineages, Marks(variant), NEW l, NEW r, NEW ask,
           GoodReport(l), GoodReport(r), Lineage(variant)!Verified(ask, l, r),
           Lineage(variant)!Requested(ask, l, r) = "preset"
    PROVE  /\ l.artifact[2] # r.artifact[2]
           /\ SubSeq(Lineage(variant)!OnnxOf(l), 3, Len(Lineage(variant)!OnnxOf(l)))
                = SubSeq(Lineage(variant)!OnnxOf(r), 3, Len(Lineage(variant)!OnnxOf(r)))
<1> DEFINE a == Lineage(variant)!OnnxOf(l)
           c == Lineage(variant)!OnnxOf(r)
<1>1. ~ l.legacy /\ ~ r.legacy /\ Lineage(variant)!InferredKind(l, r) = "preset"
  BY AxisOfPair
<1>2. /\ l.lineage.kind \in {"onnx", "engine"} /\ r.lineage.kind \in {"onnx", "engine"}
      /\ l.lineage.precision_mode = r.lineage.precision_mode
      /\ Lineage(variant)!GraphDiffers(l, r)
  BY <1>1, InferredPreset
<1>3. /\ MadeOnnx(a) /\ Clean(l.lineage.precision_mode, l.lineage.source, a)
      /\ l.artifact[2] = a[2] /\ l.model.graph = a[2]
  BY <1>1, <1>2, OnnxOfReport, CleanReport
<1>4. /\ MadeOnnx(c) /\ Clean(r.lineage.precision_mode, r.lineage.source, c)
      /\ r.artifact[2] = c[2] /\ r.model.graph = c[2]
  BY <1>1, <1>2, OnnxOfReport, CleanReport
<1>5. l.model.graph # r.model.graph
  BY <1>2 DEF Lineage!GraphDiffers, Lineage!GraphFields
<1> HIDE DEF a, c
<1> DEFINE mode == l.lineage.precision_mode
<1>6. \/ mode = Lineage(variant)!Fp32Mode /\ SubSeq(a, 3, Len(a)) = <<>>
      \/ /\ mode = Lineage(variant)!Mode("surgical", a[3]) /\ mode # Lineage(variant)!Fp32Mode
         /\ SubSeq(a, 3, Len(a)) = <<a[3]>>
  BY <1>3, CleanModes
<1>7. \/ mode = Lineage(variant)!Fp32Mode /\ SubSeq(c, 3, Len(c)) = <<>>
      \/ /\ mode = Lineage(variant)!Mode("surgical", c[3]) /\ mode # Lineage(variant)!Fp32Mode
         /\ SubSeq(c, 3, Len(c)) = <<c[3]>>
  BY <1>2, <1>4, CleanModes
<1> HIDE DEF mode
<1>8. Lineage(variant)!Mode("surgical", a[3]) = Lineage(variant)!Mode("surgical", c[3])
        => a[3] = c[3]
  BY DEF Lineage!Mode
<1> DEFINE before == SubSeq(a, 3, Len(a))
           after == SubSeq(c, 3, Len(c))
<1>9. before = after
  <2> HIDE DEF before, after
  <2>1. CASE mode = Lineage(variant)!Fp32Mode
    <3>1. before = <<>> /\ after = <<>>
      BY <1>6, <1>7, <2>1, Zenon DEF before, after
    <3> QED BY <3>1
  <2>2. CASE mode # Lineage(variant)!Fp32Mode
    <3>1. /\ before = <<a[3]>> /\ mode = Lineage(variant)!Mode("surgical", a[3])
          /\ after = <<c[3]>> /\ mode = Lineage(variant)!Mode("surgical", c[3])
      BY <1>6, <1>7, <2>2, Zenon DEF before, after
    <3>2. a[3] = c[3] BY <3>1, <1>8, Zenon
    <3> QED BY <3>1, <3>2
  <2> QED BY <2>1, <2>2
<1> QED BY <1>3, <1>4, <1>5, <1>9 DEF a, c

\* A report that says how its artifact was made is valid by the chain's own rules.
LEMMA GoodIsValid ==
    ASSUME variant \in DOMAIN Lineages, NEW s, GoodReport(s), ~ s.legacy
    PROVE  Lineage(variant)!StageValid(s)
<1>1. /\ s.lineage.checkpoint = s.model.checkpoint /\ s.lineage.artifact = s.artifact
      /\ s.model.checkpoint = <<s.artifact[1]>> /\ s.model.graph \in Lineages[variant].graphs
      /\ Lineage(variant)!ValidCascade(s.model.graph)
      /\ s.lineage.kind = "checkpoint" => /\ s.artifact = <<s.artifact[1]>>
                                          /\ s.lineage.precision_mode = Lineage(variant)!Fp32Mode
  BY DEF GoodReport
<1>2. Lineage(variant)!LineageValid(s) BY <1>1 DEF Lineage!LineageValid
<1> DEFINE g == s.model.graph
<1>3. /\ g.initial \in Nat \ {0} /\ g.cascade \in {<<>>} \cup (Nat \X Nat)
      /\ g.cascade # <<>> => g.cascade[2] < g.initial
  <2>1. g \in [initial : Nat \ {0}, cascade : {<<>>} \cup (Nat \X Nat),
               eval_idx : Nat, size : Nat \ {0}]
    BY <1>1, LineageConstants
  <2> QED BY <1>1, <2>1 DEF Lineage!ValidCascade
<1> HIDE DEF g
<1>4. g.initial > 0 BY <1>3
<1>5. g.cascade # <<>> => g.cascade[1] >= 0 BY <1>3
<1>6. s.model.checkpoint # <<>> BY <1>1
<1>7. Lineage(variant)!ModelContractValid(s.model)
  BY <1>3, <1>4, <1>5, <1>6 DEF Lineage!ModelContractValid, g
<1> QED BY <1>2, <1>7 DEF Lineage!StageValid

\* What the model of two stages has to agree in.
LEMMA SameModels ==
    ASSUME NEW l, NEW r, GoodReport(l), GoodReport(r), ~ l.legacy, ~ r.legacy,
           l.artifact[1] = r.artifact[1], l.model.graph.size = r.model.graph.size
    PROVE  Lineage(variant)!SameModel(l, r) /\ l.lineage.checkpoint = r.lineage.checkpoint
<1>1. /\ l.model.checkpoint = <<l.artifact[1]>> /\ r.model.checkpoint = <<r.artifact[1]>>
      /\ l.lineage.checkpoint = l.model.checkpoint /\ r.lineage.checkpoint = r.model.checkpoint
  BY DEF GoodReport
<1> QED BY <1>1 DEF Lineage!SameModel, Lineage!IdentityFields

LEMMA Verifies ==
    ASSUME NEW l, NEW r, NEW ask, GoodReport(l), GoodReport(r), ~ l.legacy, ~ r.legacy,
           l.artifact[1] = r.artifact[1], l.model.graph.size = r.model.graph.size,
           Lineage(variant)!Requested(ask, l, r) = Lineage(variant)!InferredKind(l, r),
           Lineage(variant)!AxisFits(Lineage(variant)!InferredKind(l, r), l, r)
    PROVE  Lineage(variant)!Verified(ask, l, r)
BY SameModels DEF Lineage!Verified, Lineage!AskedIsInferred

\* How long the bytes of the artifacts of each kind are.
LEMMA Lengths ==
    ASSUME NEW s, GoodReport(s), ~ s.legacy
    PROVE  /\ s.lineage.kind \in {"checkpoint", "onnx", "engine"}
           /\ s.lineage.kind = "checkpoint" => Len(s.artifact) = 1
           /\ s.lineage.kind = "onnx" => Len(s.artifact) \in Nat /\ Len(s.artifact) >= 2
           /\ s.lineage.kind = "engine" =>
                  /\ Len(s.artifact) = Len(s.lineage.onnx) + 2
                  /\ Len(s.lineage.onnx) \in Nat /\ Len(s.lineage.onnx) >= 2
<1>1. CASE s.lineage.kind = "checkpoint"
  <2>1. s.artifact = <<s.artifact[1]>> BY <1>1 DEF GoodReport
  <2> DEFINE c == s.artifact[1]
  <2>2. s.artifact = <<c>> BY <2>1
  <2> HIDE DEF c
  <2> QED BY <1>1, <2>2
<1>2. CASE s.lineage.kind = "onnx"
  <2>1. MadeOnnx(s.artifact) BY <1>2 DEF GoodReport
  <2> QED BY <1>2, <2>1 DEF MadeOnnx
<1>3. CASE s.lineage.kind = "engine"
  <2>1. PICK typed, flag : MadeEngine(s.artifact, s.lineage.onnx, typed, flag)
    BY <1>3 DEF GoodReport
  <2>2. /\ Len(s.artifact) = Len(s.lineage.onnx) + 2
        /\ Len(s.lineage.onnx) \in Nat /\ Len(s.lineage.onnx) >= 2
    BY <2>1, EngineBytes
  <2> QED BY <1>3, <2>2
<1>4. s.lineage.kind \in {"checkpoint", "onnx", "engine"}
  BY DEF GoodReport
<1> QED BY <1>1, <1>2, <1>3, <1>4

LEMMA TrueKinds ==
    ASSUME NEW l, NEW r
    PROVE  LET a == l.artifact
               c == r.artifact
               from == Lineage(variant)!OnnxOf(l)
               to == Lineage(variant)!OnnxOf(r)
               kind == Lineage(variant)!TrueKind(l, r)
           IN  /\ kind = "export" =>
                      l.lineage.kind = "checkpoint" /\ c = Append(a, l.model.graph)
               /\ kind = "runtime" =>
                      r.lineage.kind = "engine" /\ Lineage(variant)!SourceOf(c) = a
               /\ kind = "precision" =>
                      /\ l.lineage.kind = r.lineage.kind /\ Len(a) > 1 /\ Len(c) = Len(a) + 1
                      /\ Lineage(variant)!IsConverted(from, to)
               /\ kind = "preset" =>
                      /\ l.lineage.kind = r.lineage.kind /\ Len(a) > 1 /\ a[1] = c[1]
                      /\ a[2] # c[2] /\ a[2].size = c[2].size
                      /\ SubSeq(from, 3, Len(from)) = SubSeq(to, 3, Len(to))
               /\ kind \in {"export", "runtime", "precision", "preset", "none"}
BY Zenon DEF Lineage!TrueKind

LEMMA TrueExport ==
    ASSUME variant \in DOMAIN Lineages, Marks(variant), NEW l, NEW r, GoodReport(l), GoodReport(r),
           ~ l.legacy, ~ r.legacy, Lineage(variant)!TrueKind(l, r) = "export"
    PROVE  /\ l.artifact[1] = r.artifact[1] /\ l.model.graph.size = r.model.graph.size
           /\ Lineage(variant)!InferredKind(l, r) = "export"
           /\ Lineage(variant)!AxisFits("export", l, r)
<1>1. l.lineage.kind = "checkpoint" /\ r.artifact = Append(l.artifact, l.model.graph)
  BY TrueKinds
<1>2. /\ l.artifact = <<l.artifact[1]>>
      /\ l.lineage.precision_mode = Lineage(variant)!Fp32Mode
  BY <1>1 DEF GoodReport
<1> DEFINE c == l.artifact[1]
           g == l.model.graph
<1>3. l.artifact = <<c>> /\ r.artifact = Append(<<c>>, g) BY <1>1, <1>2
<1> HIDE DEF c, g
<1>4. Len(r.artifact) = 2 /\ r.artifact[1] = c /\ r.artifact[2] = g
  <2> DEFINE made == Append(<<c>>, g)
  <2>1. <<c>> \in Seq({c, g}) /\ g \in {c, g} OBVIOUS
  <2>2. Len(made) = 2 /\ made[1] = c /\ made[2] = g BY <2>1
  <2> HIDE DEF made
  <2> QED BY <1>3, <2>2 DEF made
<1>5. r.lineage.kind = "onnx"
  <2>1. /\ r.lineage.kind \in {"checkpoint", "onnx", "engine"}
        /\ r.lineage.kind = "checkpoint" => Len(r.artifact) = 1
        /\ r.lineage.kind = "engine" =>
               /\ Len(r.artifact) = Len(r.lineage.onnx) + 2
               /\ Len(r.lineage.onnx) \in Nat /\ Len(r.lineage.onnx) >= 2
    BY Lengths, Zenon
  <2>2. Len(r.artifact) = 2 BY <1>4
  <2> QED BY <2>1, <2>2
<1>6. MadeOnnx(r.artifact) /\ Lineage(variant)!OnnxOf(r) = r.artifact /\ r.model.graph = r.artifact[2]
  BY <1>5, OnnxOfReport
<1>7. Clean(r.lineage.precision_mode, r.lineage.source, r.artifact)
  BY <1>5, <1>6, CleanReport
<1>8. r.lineage.precision_mode = Lineage(variant)!Fp32Mode /\ r.lineage.source = <<>>
  <2> HIDE DEF Clean, MadeOnnx
  <2> QED BY <1>4, <1>6, <1>7, CleanModes
<1>9. r.model.graph = l.model.graph /\ l.artifact[1] = r.artifact[1]
  BY <1>3, <1>4, <1>6 DEF c, g
<1>10. ~ Lineage(variant)!GraphDiffers(l, r)
  BY <1>9 DEF Lineage!GraphDiffers, Lineage!GraphFields
<1>11. Lineage(variant)!InferredKind(l, r) = "export"
  BY <1>1, <1>5 DEF Lineage!InferredKind
<1>12. Lineage(variant)!AxisFits("export", l, r)
  BY <1>2, <1>8, <1>10 DEF Lineage!AxisFits, Lineage!ExportFits
<1> QED BY <1>9, <1>11, <1>12

LEMMA TrueRuntime ==
    ASSUME variant \in DOMAIN Lineages, Marks(variant), NEW l, NEW r, GoodReport(l), GoodReport(r),
           ~ l.legacy, ~ r.legacy, Lineage(variant)!TrueKind(l, r) = "runtime"
    PROVE  /\ l.artifact[1] = r.artifact[1] /\ l.model.graph.size = r.model.graph.size
           /\ Lineage(variant)!InferredKind(l, r) = "runtime"
           /\ Lineage(variant)!AxisFits("runtime", l, r)
<1>1. r.lineage.kind = "engine" /\ Lineage(variant)!SourceOf(r.artifact) = l.artifact
  BY TrueKinds
<1>2. PICK typed, flag : MadeEngine(r.artifact, r.lineage.onnx, typed, flag)
  BY <1>1 DEF GoodReport
<1>3. r.lineage.onnx = l.artifact /\ MadeOnnx(l.artifact)
  <2>1. Lineage(variant)!SourceOf(r.artifact) = r.lineage.onnx
    BY <1>2, EngineBytes, Zenon
  <2> QED BY <1>1, <1>2, <2>1 DEF MadeEngine
<1>4. Len(l.artifact) \in Nat /\ Len(l.artifact) >= 2
  BY <1>3 DEF MadeOnnx
<1>5. l.lineage.kind # "checkpoint"
  <2>1. l.lineage.kind = "checkpoint" => Len(l.artifact) = 1
    BY Lengths, Zenon
  <2> DEFINE len == Len(l.artifact)
             kind == l.lineage.kind
  <2>2. len \in Nat /\ len >= 2 /\ (kind = "checkpoint" => len = 1)
    BY <1>4, <2>1
  <2> HIDE DEF len, kind
  <2>3. kind # "checkpoint" BY <2>2
  <2> QED BY <2>3 DEF kind
<1>6. l.lineage.kind # "engine"
  <2> SUFFICES ASSUME l.lineage.kind = "engine"
               PROVE  FALSE
    OBVIOUS
  <2>1. PICK typed_1, flag_1 : MadeEngine(l.artifact, l.lineage.onnx, typed_1, flag_1)
    BY DEF GoodReport
  <2>2. /\ l.artifact[Len(l.artifact) - 1] = typed_1 /\ Len(l.lineage.onnx) >= 2
        /\ Len(l.lineage.onnx) \in Nat /\ Len(l.artifact) = Len(l.lineage.onnx) + 2
    BY <2>1, EngineBytes
  <2>3. Len(l.artifact) - 1 \in 3 .. Len(l.artifact) BY <2>2
  <2>4. l.artifact[Len(l.artifact) - 1] \in Lineages[variant].converters \cup {"partial"}
    BY <1>3, <2>3 DEF MadeOnnx
  <2>5. Lineages[variant].converters \subseteq {"decoder", "slim", "fp16", "int8"}
    BY LineageConstants
  <2>6. typed_1 \in {"strong", "weak"} BY <2>1 DEF MadeEngine
  <2> QED BY <2>2, <2>4, <2>5, <2>6
<1>7. l.lineage.kind = "onnx" BY <1>5, <1>6, Lengths
<1>8. /\ Lineage(variant)!OnnxOf(l) = l.artifact /\ l.model.graph = l.artifact[2]
      /\ Clean(l.lineage.precision_mode, l.lineage.source, l.artifact)
  BY <1>7, OnnxOfReport, CleanReport
<1>9. /\ Lineage(variant)!OnnxOf(r) = l.artifact /\ r.model.graph = l.artifact[2]
      /\ Clean(r.lineage.precision_mode, r.lineage.source, l.artifact)
      /\ r.artifact[1] = l.artifact[1]
  BY <1>1, <1>3, OnnxOfReport, CleanReport
<1>10. l.lineage.precision_mode = r.lineage.precision_mode
  <2>1. \/ Len(l.artifact) = 2 /\ l.lineage.precision_mode = Lineage(variant)!Fp32Mode
        \/ /\ Len(l.artifact) = 3
           /\ l.lineage.precision_mode = Lineage(variant)!Mode("surgical", l.artifact[3])
    BY <1>3, <1>8, CleanModes
  <2>2. \/ Len(l.artifact) = 2 /\ r.lineage.precision_mode = Lineage(variant)!Fp32Mode
        \/ /\ Len(l.artifact) = 3
           /\ r.lineage.precision_mode = Lineage(variant)!Mode("surgical", l.artifact[3])
    BY <1>3, <1>9, CleanModes
  <2> QED BY <2>1, <2>2
<1>11. l.lineage.artifact = l.artifact BY DEF GoodReport
<1>12. ~ Lineage(variant)!GraphDiffers(l, r)
  BY <1>8, <1>9 DEF Lineage!GraphDiffers, Lineage!GraphFields
<1>13. Lineage(variant)!InferredKind(l, r) = "runtime"
  BY <1>1, <1>7 DEF Lineage!InferredKind
<1>14. Lineage(variant)!AxisFits("runtime", l, r)
  BY <1>3, <1>10, <1>11, <1>12 DEF Lineage!AxisFits, Lineage!RuntimeFits, Lineage!SameGraph
<1> QED BY <1>8, <1>9, <1>13, <1>14

LEMMA TruePrecision ==
    ASSUME variant \in DOMAIN Lineages, Marks(variant), NEW l, NEW r, GoodReport(l), GoodReport(r),
           ~ l.legacy, ~ r.legacy, Lineage(variant)!TrueKind(l, r) = "precision"
    PROVE  /\ l.artifact[1] = r.artifact[1] /\ l.model.graph.size = r.model.graph.size
           /\ Lineage(variant)!InferredKind(l, r) = "precision"
           /\ Lineage(variant)!AxisFits("precision", l, r)
<1> DEFINE a == Lineage(variant)!OnnxOf(l)
           c == Lineage(variant)!OnnxOf(r)
<1>1. /\ l.lineage.kind = r.lineage.kind /\ Len(l.artifact) > 1
      /\ Len(r.artifact) = Len(l.artifact) + 1 /\ Lineage(variant)!IsConverted(a, c)
  BY TrueKinds
<1>2. l.lineage.kind \in {"onnx", "engine"} /\ r.lineage.kind \in {"onnx", "engine"}
  BY <1>1, Lengths
<1>3. /\ MadeOnnx(a) /\ Clean(l.lineage.precision_mode, l.lineage.source, a)
      /\ a = (IF l.lineage.kind = "onnx" THEN l.artifact ELSE l.lineage.onnx)
      /\ l.artifact[1] = a[1] /\ l.model.graph = a[2]
  BY <1>2, OnnxOfReport, CleanReport
<1>4. /\ MadeOnnx(c) /\ Clean(r.lineage.precision_mode, r.lineage.source, c)
      /\ r.artifact[1] = c[1] /\ r.model.graph = c[2]
  BY <1>2, OnnxOfReport, CleanReport
<1>5. l.lineage.artifact = l.artifact BY DEF GoodReport
<1>6. Len(a) < Len(c) /\ SubSeq(c, 1, Len(a)) = a
  BY <1>1 DEF Lineage!IsConverted
<1> HIDE DEF a, c
<1>7. /\ a \in Seq(Steps) /\ c \in Seq(Steps) /\ Len(a) = 2 /\ Len(c) = 3
      /\ l.lineage.precision_mode = Lineage(variant)!Fp32Mode
      /\ a = <<a[1], a[2]>>
      /\ r.lineage.precision_mode # Lineage(variant)!Fp32Mode /\ r.lineage.source = <<c[1], c[2]>>
  <2>1. \/ Len(a) = 2 /\ l.lineage.precision_mode = Lineage(variant)!Fp32Mode /\ a = <<a[1], a[2]>>
        \/ Len(a) = 3
    BY <1>3, CleanModes
  <2>2. \/ Len(c) = 2
        \/ /\ Len(c) = 3 /\ r.lineage.precision_mode # Lineage(variant)!Fp32Mode
           /\ r.lineage.source = <<c[1], c[2]>>
    BY <1>4, CleanModes
  <2>3. Len(a) < Len(c) BY <1>6
  <2>4. Len(a) = 2 /\ Len(c) = 3 BY <2>1, <2>2, <2>3
  <2>5. a \in Seq(Steps) /\ c \in Seq(Steps) BY <1>3, <1>4 DEF MadeOnnx
  <2> QED BY <2>1, <2>2, <2>4, <2>5
<1>8. a[1] = c[1] /\ a[2] = c[2]
  <2> DEFINE sub == SubSeq(c, 1, 2)
  <2>1. sub[1] = c[1] /\ sub[2] = c[2] BY <1>7
  <2>2. sub = a BY <1>6, <1>7
  <2> HIDE DEF sub
  <2> QED BY <2>1, <2>2
<1>9. r.lineage.source = a BY <1>7, <1>8
<1>10. l.model.graph = r.model.graph /\ l.artifact[1] = r.artifact[1]
  BY <1>3, <1>4, <1>8
<1>11. ~ Lineage(variant)!GraphDiffers(l, r)
  BY <1>10 DEF Lineage!GraphDiffers, Lineage!GraphFields
<1>12. l.lineage.precision_mode # r.lineage.precision_mode BY <1>7
<1>13. Lineage(variant)!InferredKind(l, r) = "precision"
  BY <1>1, <1>2, <1>12 DEF Lineage!InferredKind
<1>14. Lineage(variant)!AxisFits("precision", l, r)
  BY <1>3, <1>5, <1>9, <1>11 DEF Lineage!AxisFits, Lineage!PrecisionFits
<1> QED BY <1>10, <1>13, <1>14

LEMMA TruePreset ==
    ASSUME variant \in DOMAIN Lineages, Marks(variant), NEW l, NEW r, GoodReport(l), GoodReport(r),
           ~ l.legacy, ~ r.legacy, Lineage(variant)!TrueKind(l, r) = "preset"
    PROVE  /\ l.artifact[1] = r.artifact[1] /\ l.model.graph.size = r.model.graph.size
           /\ Lineage(variant)!InferredKind(l, r) = "preset"
           /\ Lineage(variant)!AxisFits("preset", l, r)
<1> DEFINE a == Lineage(variant)!OnnxOf(l)
           c == Lineage(variant)!OnnxOf(r)
<1>1. /\ l.lineage.kind = r.lineage.kind /\ Len(l.artifact) > 1
      /\ l.artifact[1] = r.artifact[1] /\ l.artifact[2] # r.artifact[2]
      /\ l.artifact[2].size = r.artifact[2].size
      /\ SubSeq(a, 3, Len(a)) = SubSeq(c, 3, Len(c))
  BY TrueKinds
<1>2. l.lineage.kind \in {"onnx", "engine"} /\ r.lineage.kind \in {"onnx", "engine"}
  BY <1>1, Lengths
<1>3. /\ MadeOnnx(a) /\ Clean(l.lineage.precision_mode, l.lineage.source, a)
      /\ l.artifact[2] = a[2] /\ l.model.graph = a[2]
  BY <1>2, OnnxOfReport, CleanReport
<1>4. /\ MadeOnnx(c) /\ Clean(r.lineage.precision_mode, r.lineage.source, c)
      /\ r.artifact[2] = c[2] /\ r.model.graph = c[2]
  BY <1>2, OnnxOfReport, CleanReport
<1>5. l.model.graph.size = r.model.graph.size /\ l.model.graph # r.model.graph
  BY <1>1, <1>3, <1>4
<1>6. Lineage(variant)!GraphDiffers(l, r)
  <2>1. l.model.graph \in Lineages[variant].graphs /\ r.model.graph \in Lineages[variant].graphs
    BY DEF GoodReport
  <2> QED BY <1>5, <2>1, GraphsDiffer
<1> HIDE DEF a, c
<1> DEFINE before == SubSeq(a, 3, Len(a))
           after == SubSeq(c, 3, Len(c))
<1>7. before = after BY <1>1
<1>8. \/ l.lineage.precision_mode = Lineage(variant)!Fp32Mode /\ before = <<>>
      \/ l.lineage.precision_mode = Lineage(variant)!Mode("surgical", a[3]) /\ before = <<a[3]>>
  BY <1>3, CleanModes
<1>9. \/ r.lineage.precision_mode = Lineage(variant)!Fp32Mode /\ after = <<>>
      \/ r.lineage.precision_mode = Lineage(variant)!Mode("surgical", c[3]) /\ after = <<c[3]>>
  BY <1>4, CleanModes
<1> HIDE DEF before, after
<1>10. l.lineage.precision_mode = r.lineage.precision_mode
  <2>1. CASE before = <<>>
    <3>1. /\ l.lineage.precision_mode = Lineage(variant)!Fp32Mode
          /\ r.lineage.precision_mode = Lineage(variant)!Fp32Mode
      BY <1>7, <1>8, <1>9, <2>1
    <3> QED BY <3>1
  <2>2. CASE before # <<>>
    <3>1. /\ l.lineage.precision_mode = Lineage(variant)!Mode("surgical", a[3]) /\ before = <<a[3]>>
          /\ r.lineage.precision_mode = Lineage(variant)!Mode("surgical", c[3]) /\ after = <<c[3]>>
      BY <1>7, <1>8, <1>9, <2>2
    <3> DEFINE m == a[3]
               n == c[3]
    <3>3. <<m>> = <<n>> BY <1>7, <3>1, Zenon
    <3> HIDE DEF m, n
    <3>4. <<m>>[1] = m /\ <<n>>[1] = n OBVIOUS
    <3>5. m = n BY <3>3, <3>4, Zenon
    <3>2. a[3] = c[3] BY <3>5 DEF m, n
    <3> QED BY <3>1, <3>2
  <2> QED BY <2>1, <2>2
<1>11. Lineage(variant)!InferredKind(l, r) = "preset"
  BY <1>1, <1>2, <1>6, <1>10 DEF Lineage!InferredKind
<1>12. Lineage(variant)!AxisFits("preset", l, r)
  BY <1>6, <1>10 DEF Lineage!AxisFits, Lineage!PresetFits
<1> QED BY <1>1, <1>5, <1>11, <1>12

\* A pair that differs as was asked or inferred is verified.
LEMMA TruePair ==
    ASSUME variant \in DOMAIN Lineages, Marks(variant), NEW l, NEW r, GoodReport(l), GoodReport(r),
           ~ l.legacy, ~ r.legacy, NEW ask, ask = "inferred" \/ ask \in Lineages[variant].kinds,
           Lineage(variant)!Requested(ask, l, r) = Lineage(variant)!TrueKind(l, r)
    PROVE  Lineage(variant)!Verified(ask, l, r)
<1>1. Lineage(variant)!TrueKind(l, r) \in {"export", "runtime", "precision", "preset", "none"}
  BY TrueKinds
<1>2. Lineage(variant)!Requested(ask, l, r) # "none"
  <2>1. Lineage(variant)!InferredKind(l, r) # "none"
    BY DEF Lineage!InferredKind
  <2>2. Lineages[variant].kinds \subseteq {"export", "runtime", "precision", "preset", "comparison"}
    BY LineageConstants
  <2> QED BY <2>1, <2>2 DEF Lineage!Requested
<1>3. CASE Lineage(variant)!TrueKind(l, r) = "export"
  BY <1>3, TrueExport, Verifies
<1>4. CASE Lineage(variant)!TrueKind(l, r) = "runtime"
  BY <1>4, TrueRuntime, Verifies
<1>5. CASE Lineage(variant)!TrueKind(l, r) = "precision"
  BY <1>5, TruePrecision, Verifies
<1>6. CASE Lineage(variant)!TrueKind(l, r) = "preset"
  BY <1>6, TruePreset, Verifies
<1> QED BY <1>1, <1>2, <1>3, <1>4, <1>5, <1>6

LEMMA AllOneProtocol ==
    ASSUME variant \in DOMAIN Lineages, LineageInv, verdict.accepted,
           NEW m \in DOMAIN reports, NEW n \in DOMAIN reports
    PROVE  reports[m].protocol = reports[n].protocol /\ reports[m].manifest = reports[n].manifest
<1>1. PICK ask \in Lineage(variant)!Asked, allow \in BOOLEAN : verdict = Judgement(ask, allow)
  BY AcceptedIsJudged DEF LineageInv
<1>2. Lineage(variant)!Comparable BY <1>1 DEF Judgement
<1> DEFINE all == {reports[i_1].manifest : i_1 \in DOMAIN reports}
<1>3. Lineage(variant)!Cardinality(all) = 1
  BY <1>2 DEF Lineage!Comparable, Lineage!ManifestsAgree
<1>4. Lineage(variant)!Cardinality(all) = Cardinality(all)
  BY DEF Lineage!Cardinality, Cardinality
<1>5. IsFiniteSet(all)
  <2>1. PICK S : reports \in Seq(S) BY DEF LineageInv
  <2>2. DOMAIN reports = 1 .. Len(reports) /\ Len(reports) \in Nat
    BY <2>1
  <2>3. IsFiniteSet(DOMAIN reports) BY <2>2, FS_Interval
  <2> DEFINE f == [i_1 \in DOMAIN reports |-> reports[i_1].manifest]
  <2>4. f \in Surjection(DOMAIN reports, all) BY DEF Surjection
  <2> QED BY <2>3, <2>4, FS_Surjection
<1>6. \E z : all = {z}
  <2> HIDE DEF all
  <2> QED BY <1>3, <1>4, <1>5, FS_Singleton
<1>7. reports[m].manifest \in all /\ reports[n].manifest \in all OBVIOUS
<1>8. reports[m].manifest = reports[n].manifest
  <2> HIDE DEF all
  <2> QED BY <1>6, <1>7
<1>9. reports[m].protocol = reports[1].protocol /\ reports[n].protocol = reports[1].protocol
  BY <1>2 DEF Lineage!Comparable
<1> QED BY <1>8, <1>9

LEMMA Singletons ==
    ASSUME variant \in DOMAIN Lineages, LineageInv, verdict.judged,
           \A m, n \in DOMAIN reports : /\ reports[m].protocol = reports[n].protocol
                                        /\ reports[m].manifest = reports[n].manifest
    PROVE  Lineage(variant)!Comparable
<1>1. PICK S : reports \in Seq(S) BY DEF LineageInv
<1>2. Len(reports) = Lineages[variant].stages /\ Lineages[variant].stages \in Nat \ {0, 1}
  BY LineageConstants DEF LineageInv
<1>3. DOMAIN reports = 1 .. Len(reports) /\ 1 \in DOMAIN reports
  BY <1>1, <1>2
<1> DEFINE all == {reports[i_1].manifest : i_1 \in DOMAIN reports}
<1>4. all = {reports[1].manifest} BY <1>3
<1>5. Cardinality(all) = 1 BY <1>4, FS_Singleton
<1>6. Lineage(variant)!Cardinality(all) = Cardinality(all)
  BY DEF Lineage!Cardinality, Cardinality
<1> QED BY <1>3, <1>5, <1>6 DEF Lineage!Comparable, Lineage!ManifestsAgree

\* The chain accepts what it should.
LEMMA TrueChain ==
    ASSUME variant \in DOMAIN Lineages, LineageInv, Marks(variant)
    PROVE  Lineage(variant)!TrueTransitionsAccepted
<1> SUFFICES ASSUME verdict.judged, ~ verdict.accepted,
                    \A n \in DOMAIN reports : ~ reports[n].legacy,
                    \A m, n \in DOMAIN reports : /\ reports[m].protocol = reports[n].protocol
                                                 /\ reports[m].manifest = reports[n].manifest,
                    \A n \in DOMAIN verdict.kinds :
                        verdict.kinds[n] = Lineage(variant)!TrueKind(reports[n], reports[n + 1])
             PROVE  FALSE
  BY DEF Lineage!TrueTransitionsAccepted
<1>1. PICK ask \in Lineage(variant)!Asked, allow \in BOOLEAN : verdict = Judgement(ask, allow)
  BY DEF LineageInv
<1>2. PICK S : reports \in Seq(S) BY DEF LineageInv
<1>3. Len(reports) = Lineages[variant].stages /\ Lineages[variant].stages \in Nat \ {0, 1}
  BY LineageConstants DEF LineageInv
<1>4. DOMAIN reports = 1 .. Len(reports) /\ DOMAIN verdict.kinds = 1 .. Len(reports) - 1
  BY <1>1, <1>2, <1>3 DEF Judgement
<1>5. Lineage(variant)!Comparable BY Singletons
<1>6. \A n \in DOMAIN reports : GoodReport(reports[n])
  BY <1>4 DEF LineageInv
<1>7. \A n \in DOMAIN reports : Lineage(variant)!StageValid(reports[n])
  BY <1>6, GoodIsValid
<1>8. ASSUME NEW n \in 1 .. Lineages[variant].stages - 1
      PROVE  Lineage(variant)!Verified(ask[n], reports[n], reports[n + 1])
  <2>1. n \in DOMAIN reports /\ n + 1 \in DOMAIN reports /\ n \in DOMAIN verdict.kinds
    BY <1>3, <1>4
  <2>2. verdict.kinds[n] = Lineage(variant)!Requested(ask[n], reports[n], reports[n + 1])
    BY <1>1, <1>8, Zenon DEF Judgement
  <2>3. verdict.kinds[n] = Lineage(variant)!TrueKind(reports[n], reports[n + 1])
    BY <2>1
  <2>4. ask[n] = "inferred" \/ ask[n] \in Lineages[variant].kinds
    BY DEF Lineage!Asked
  <2>5. /\ GoodReport(reports[n]) /\ GoodReport(reports[n + 1])
        /\ ~ reports[n].legacy /\ ~ reports[n + 1].legacy
    BY <1>6, <2>1
  <2> DEFINE l == reports[n]
             r == reports[n + 1]
             what == ask[n]
  <2> HIDE DEF l, r, what
  <2>6. Lineage(variant)!Requested(what, l, r) = Lineage(variant)!TrueKind(l, r)
    BY <2>2, <2>3 DEF l, r, what
  <2>7. Lineage(variant)!Verified(what, l, r)
    <3>1. what = "inferred" \/ what \in Lineages[variant].kinds
      BY <2>4 DEF what
    <3>2. GoodReport(l) /\ GoodReport(r) /\ ~ l.legacy /\ ~ r.legacy
      BY <2>5 DEF l, r
    <3> QED BY <2>6, <3>1, <3>2, TruePair
  <2> QED BY <2>7 DEF l, r, what
<1>9. verdict.accepted BY <1>1, <1>5, <1>7, <1>8, Zenon DEF Judgement
<1> QED BY <1>9

\* What the chain verified of a pair of stages.
LEMMA VerifiedPair ==
    ASSUME variant \in DOMAIN Lineages, LineageInv, verdict.accepted, NEW n \in DOMAIN verdict.kinds,
           verdict.verified[n]
    PROVE  LET l == reports[n]
               r == reports[n + 1]
           IN  /\ l.artifact[1] = r.artifact[1] /\ l.model.graph.size = r.model.graph.size
               /\ verdict.kinds[n] = "runtime" =>
                      \E typed \in {"strong", "weak"} : r.artifact = l.artifact \o <<typed, "none">>
               /\ verdict.kinds[n] = "precision" =>
                      Lineage(variant)!IsConverted(Lineage(variant)!OnnxOf(l), Lineage(variant)!OnnxOf(r))
               /\ Marks(variant) =>
                      /\ verdict.kinds[n] = "export" => r.artifact = Append(l.artifact, l.model.graph)
                      /\ verdict.kinds[n] = "preset" =>
                             /\ l.artifact[2] # r.artifact[2]
                             /\ SubSeq(Lineage(variant)!OnnxOf(l), 3, Len(Lineage(variant)!OnnxOf(l)))
                                  = SubSeq(Lineage(variant)!OnnxOf(r), 3,
                                           Len(Lineage(variant)!OnnxOf(r)))
<1> DEFINE l == reports[n]
           r == reports[n + 1]
<1>1. GoodReport(l) /\ GoodReport(r) BY AcceptedIsJudged, JudgedPair
<1>2. PICK ask : /\ verdict.kinds[n] = Lineage(variant)!Requested(ask, l, r)
                 /\ verdict.verified[n] = Lineage(variant)!Verified(ask, l, r)
  BY AcceptedIsJudged, JudgedPair
<1>3. Lineage(variant)!Verified(ask, l, r) BY <1>2, Zenon
<1> HIDE DEF l, r
<1>4. l.artifact[1] = r.artifact[1] /\ l.model.graph.size = r.model.graph.size
  BY <1>1, <1>3, PairOfOneModel
<1>5. verdict.kinds[n] = "runtime" =>
          \E typed \in {"strong", "weak"} : r.artifact = l.artifact \o <<typed, "none">>
  BY <1>1, <1>2, <1>3, RuntimePair
<1>6. verdict.kinds[n] = "precision" =>
          Lineage(variant)!IsConverted(Lineage(variant)!OnnxOf(l), Lineage(variant)!OnnxOf(r))
  BY <1>1, <1>2, <1>3, PrecisionPair
<1>7. Marks(variant) /\ verdict.kinds[n] = "export" => r.artifact = Append(l.artifact, l.model.graph)
  BY <1>1, <1>2, <1>3, ExportPair
<1>8. Marks(variant) /\ verdict.kinds[n] = "preset" =>
          /\ l.artifact[2] # r.artifact[2]
          /\ SubSeq(Lineage(variant)!OnnxOf(l), 3, Len(Lineage(variant)!OnnxOf(l)))
               = SubSeq(Lineage(variant)!OnnxOf(r), 3, Len(Lineage(variant)!OnnxOf(r)))
  BY <1>1, <1>2, <1>3, PresetPair
<1> QED BY <1>4, <1>5, <1>6, <1>7, <1>8, Zenon DEF l, r

LEMMA LineageHolds ==
    ASSUME variant \in DOMAIN Lineages, LineageInv
    PROVE  /\ Lineage(variant)!OneModel /\ Lineage(variant)!OneProtocol
           /\ Lineage(variant)!RuntimeIsTheBackend /\ Lineage(variant)!PrecisionOfOneGraph
           /\ Marks(variant) => /\ Lineage(variant)!ExportIsRaw
                                /\ Lineage(variant)!PresetChangesGraphOnly
                                /\ Lineage(variant)!TrueTransitionsAccepted
<1>1. Lineage(variant)!OneModel
  BY VerifiedPair, Zenon DEF Lineage!OneModel
<1>2. Lineage(variant)!OneProtocol
  BY AllOneProtocol DEF Lineage!OneProtocol
<1>3. Lineage(variant)!RuntimeIsTheBackend
  BY VerifiedPair, Zenon DEF Lineage!RuntimeIsTheBackend, Lineage!Pair, Lineage!IsVerified
<1>4. Lineage(variant)!PrecisionOfOneGraph
  BY VerifiedPair, Zenon DEF Lineage!PrecisionOfOneGraph, Lineage!Pair, Lineage!IsVerified
<1>5. Marks(variant) => Lineage(variant)!ExportIsRaw
  BY VerifiedPair, Zenon DEF Lineage!ExportIsRaw, Lineage!Pair, Lineage!IsVerified
<1>6. Marks(variant) => Lineage(variant)!PresetChangesGraphOnly
  BY VerifiedPair, Zenon DEF Lineage!PresetChangesGraphOnly, Lineage!Pair, Lineage!IsVerified
<1> QED BY <1>1, <1>2, <1>3, <1>4, <1>5, <1>6, TrueChain

\* What an accuracy chain says of its stages is true of how they were made, whatever the
\* exporter, the converters, the builder and lost sidecars left: stages verified against each
\* other are of one checkpoint at one size, an accepted chain is of one protocol and one
\* manifest, a runtime transition is between a graph and an engine of it, a precision
\* transition between two forms of one graph and, where the sidecar says all conversions, an
\* export is raw, a preset changes the graph only, and no documented chain is refused
\* (export_dfine_onnx.py, convert_fp16_surgical.py, build_engine.py,
\* coco_eval.py, accuracy_chain.py).
THEOREM VerdictsAreTrue == RecordsSpec /\ program = variant => []OneModel
<1>1. CASE variant \in DOMAIN Lineages
  <2>1. program = variant /\ LineageInv => OneModel
    BY <1>1, LineageHolds DEF OneModel
  <2> QED BY <1>1, <2>1, LineageRuns, LineageKept, ProgramStays, PTL
<1>2. CASE variant \notin DOMAIN Lineages
  <2>1. program = variant => OneModel BY <1>2 DEF OneModel
  <2> QED BY <2>1, ProgramStays, PTL
<1> QED BY <1>1, <1>2

------------------------------
(* PresetSweep *)

LEMMA SweepRuns ==
    variant \in DOMAIN Sweeps => (RecordsSpec /\ program = variant => Sweep(variant)!Spec)
<1> SUFFICES ASSUME variant \in DOMAIN Sweeps
             PROVE  RecordsSpec /\ program = variant => Sweep(variant)!Spec
  OBVIOUS
<1>1. RecordsInit /\ program = variant => Sweep(variant)!Init
  <2> SUFFICES ASSUME RecordsInit, program = variant
               PROVE  Sweep(variant)!Init
    OBVIOUS
  <2>1. SweepBegins
    BY NamesAssumption
       DEF RecordsInit, ReportBegins, EvaluationBegins, BenchmarkBegins, LineageBegins,
           ReleaseBegins
  <2> QED BY <2>1 DEF SweepBegins
<1>2. program = variant /\ [RecordsNext]_RecordsVars
    => [Sweep(variant)!Next]_(Sweep(variant)!vars)
  <2> SUFFICES ASSUME program = variant, [RecordsNext]_RecordsVars
               PROVE  [Sweep(variant)!Next]_(Sweep(variant)!vars)
    OBVIOUS
  <2>1. CASE RecordsNext
    <3>1. SweepSteps
      BY <2>1, NamesAssumption
         DEF RecordsNext, ReportSteps, EvaluationSteps, BenchmarkSteps, LineageSteps,
             ReleaseSteps
    <3> QED BY <3>1 DEF SweepSteps
  <2>2. CASE UNCHANGED RecordsVars BY <2>2 DEF RecordsVars, Sweep!vars
  <2> QED BY <2>1, <2>2
<1> QED BY <1>1, <1>2, ProgramStays, PTL DEF RecordsSpec, Sweep!Spec

\* The points of the sweep and the keys of their units.
PointAt(n) == Sweeps[variant].points[n]
PointsOf == DOMAIN Sweeps[variant].points
GraphOf(n) == PointAt(n).graph
Fp32Of(n) == <<PointAt(n).graph, "fp32">>
EvalOf(n) == <<PointAt(n).graph, PointAt(n).precision>>
BuildOf(n) == <<PointAt(n).graph, PointAt(n).precision, PointAt(n).profile, PointAt(n).mode>>
EngineOf(n) == Sweep(variant)!eval_engine_for(PointAt(n))
Marked(tag, key) == <<tag, key>> \in failures

\* Nothing changes under a sweep that runs.
Quiet == Sweeps[variant].change_at = {0}

LEMMA SweepConstants ==
    ASSUME variant \in DOMAIN Sweeps
    PROVE  /\ PointsOf = 1 .. Len(Sweeps[variant].points) /\ Len(Sweeps[variant].points) \in Nat
           /\ 1 \in PointsOf
           /\ \A n \in PointsOf :
                  /\ PointAt(n).precision \in {"slim", "fp32"}
                  /\ PointAt(n).mode \in {"enqueue", "graph"} /\ PointAt(n).profile \in STRING
           /\ Nothing \notin Sweep(variant)!Content /\ Nothing \notin Sweep(variant)!Sidecar
           /\ Nothing \notin Sweep(variant)!Engine /\ Nothing \notin Sweep(variant)!EngineSidecar
           /\ Nothing \notin Sweep(variant)!Accuracy /\ Nothing \notin Sweep(variant)!Latency
<1>1. Sweep(variant)!SweepAssumption BY PartsAssumption
<1> DEFINE S == [graph : {PointAt(n).graph : n \in PointsOf}, precision : {"slim", "fp32"},
                 mode : {"enqueue", "graph"}, profile : STRING]
           points == Sweeps[variant].points
<1>2. points \in Seq(S) /\ points # <<>>
  BY <1>1 DEF Sweep!SweepAssumption, Sweep!Index, PointAt, PointsOf
<1>3. DOMAIN points = 1 .. Len(points) /\ Len(points) \in Nat /\ Len(points) # 0
  <2> HIDE DEF S, points
  <2> QED BY <1>2
<1>4. \A n \in 1 .. Len(points) : points[n] \in S
  <2> HIDE DEF S, points
  <2> QED BY <1>2, ElementOfSeq
<1>5. 1 \in DOMAIN points
  <2> HIDE DEF points
  <2> QED BY <1>3
<1>6. PointsOf = DOMAIN points /\ \A n : PointAt(n) = points[n]
  BY DEF PointsOf, PointAt
<1>7. \A n \in PointsOf : /\ PointAt(n).precision \in {"slim", "fp32"}
                          /\ PointAt(n).mode \in {"enqueue", "graph"} /\ PointAt(n).profile \in STRING
  <2> TAKE n \in PointsOf
  <2>1. PointAt(n) \in S BY <1>3, <1>4, <1>6
  <2> QED BY <2>1
<1> QED BY <1>1, <1>3, <1>5, <1>6, <1>7 DEF Sweep!SweepAssumption

LEMMA PhaseNames ==
    /\ DOMAIN Sweep(variant)!Phases = 1 .. 6 /\ Len(Sweep(variant)!Phases) = 6
    /\ phase = 1 => Sweep(variant)!Step = "export"
    /\ phase = 2 => Sweep(variant)!Step = "convert"
    /\ phase = 3 => Sweep(variant)!Step = "build"
    /\ phase = 4 => Sweep(variant)!Step = "eval"
    /\ phase = 5 => Sweep(variant)!Step = "chain"
    /\ phase = 6 => Sweep(variant)!Step = "bench"
BY DEF Sweep!Phases, Sweep!Step

LEMMA PointKeys ==
    ASSUME NEW n
    PROVE  /\ Sweep(variant)!GraphKey(PointAt(n)) = GraphOf(n)
           /\ Sweep(variant)!EvalKey(PointAt(n)) = EvalOf(n)
           /\ Sweep(variant)!Fp32(PointAt(n)) = Fp32Of(n)
           /\ Sweep(variant)!BuildKey(PointAt(n)) = BuildOf(n)
           /\ Sweep(variant)!Baseline = PointAt(1)
           /\ Sweep(variant)!Index = PointsOf
BY DEF PointAt, PointsOf, GraphOf, EvalOf, Fp32Of, BuildOf, Sweep!GraphKey, Sweep!EvalKey, Sweep!Fp32,
       Sweep!BuildKey, Sweep!Baseline, Sweep!Index

\* Two points of one key.
LEMMA SameKeys ==
    ASSUME NEW m, NEW n
    PROVE  /\ Fp32Of(m) = Fp32Of(n) <=> GraphOf(m) = GraphOf(n)
           /\ EvalOf(m) = EvalOf(n) => GraphOf(m) = GraphOf(n)
           /\ EvalOf(m) = EvalOf(n) <=>
                  GraphOf(m) = GraphOf(n) /\ PointAt(m).precision = PointAt(n).precision
           /\ BuildOf(m) = BuildOf(n) => EvalOf(m) = EvalOf(n)
           /\ BuildOf(m) = BuildOf(n) => PointAt(m).profile = PointAt(n).profile
                                         /\ PointAt(m).mode = PointAt(n).mode
           /\ EvalOf(m) = Fp32Of(n) <=> GraphOf(m) = GraphOf(n) /\ PointAt(m).precision = "fp32"
BY DEF GraphOf, EvalOf, Fp32Of, BuildOf

\* What is on disk has a key of a point.
LEMMA KeysOfPoints ==
    /\ \A n \in PointsOf : /\ Fp32Of(n) \in Sweep(variant)!GraphFiles
                           /\ EvalOf(n) \in Sweep(variant)!GraphFiles
                           /\ BuildOf(n) \in Sweep(variant)!Builds
    /\ \A e \in Sweep(variant)!GraphFiles : \E n \in PointsOf : e = EvalOf(n) \/ e = Fp32Of(n)
    /\ \A m \in Sweep(variant)!Builds : \E n \in PointsOf : m = BuildOf(n)
BY PointKeys DEF Sweep!GraphFiles, Sweep!Builds, Sweep!Index, Sweep!EvalKey, Sweep!Fp32, Sweep!BuildKey,
       PointAt, PointsOf, EvalOf, Fp32Of, BuildOf

\* A unit of a sweep that has been gone through.
Done(f, n) == table # Nothing \/ f < phase \/ (f = phase /\ n < at)

\* What the plan says of a unit in each phase.
LEMMA ExportPlan ==
    ASSUME phase = 1, NEW n
    PROVE  LET q == PointAt(n) IN
           /\ Sweep(variant)!Key(q) = <<"graph", GraphOf(n)>> /\ Sweep(variant)!Upstream(q) = {}
           /\ ~ Sweep(variant)!NothingToConvert(q) /\ ~ Sweep(variant)!Refuses(q)
           /\ Sweep(variant)!Passed(q) => \E m \in 1 .. at - 1 : GraphOf(m) = GraphOf(n)
           /\ Sweep(variant)!Cached(q) <=>
                  /\ art[Fp32Of(n)] # Nothing /\ side[Fp32Of(n)] # Nothing
                  /\ side[Fp32Of(n)].checkpoint = start.checkpoint
           /\ Sweep(variant)!WriteArtifact(q) <=>
                  /\ art' = [art EXCEPT ![Fp32Of(n)] = Sweep(variant)!Exported(q)]
                  /\ engine' = engine
           /\ Sweep(variant)!WriteSidecar(q) <=>
                  /\ side' = [side EXCEPT ![Fp32Of(n)] = Sweep(variant)!ExportedSide]
                  /\ engineSide' = engineSide
           /\ Sweep(variant)!WriteReport(q) <=> UNCHANGED <<accuracy, chain, latency>>
           /\ Sweep(variant)!Noted(q) <=> chained' = chained
<1> DEFINE q == PointAt(n)
<1>1. Sweep(variant)!Step = "export" BY PhaseNames
<1>2. \A m : Sweep(variant)!Key(PointAt(m)) = <<"graph", GraphOf(m)>>
  BY <1>1, PointKeys DEF Sweep!Key
<1>3. Sweep(variant)!Passed(q) => \E m \in 1 .. at - 1 : GraphOf(m) = GraphOf(n)
  <2>1. Sweep(variant)!Passed(q)
          => \E m \in 1 .. at - 1 : Sweep(variant)!Key(PointAt(m)) = Sweep(variant)!Key(q)
    BY <1>1 DEF Sweep!Passed, PointAt
  <2> QED BY <2>1, <1>2
<1>4. Sweep(variant)!Cached(q) <=>
          /\ art[Fp32Of(n)] # Nothing /\ side[Fp32Of(n)] # Nothing
          /\ side[Fp32Of(n)].checkpoint = start.checkpoint
  BY <1>1, PointKeys DEF Sweep!Cached, Sweep!ExportCached
<1>5. Sweep(variant)!WriteArtifact(q) <=>
          /\ art' = [art EXCEPT ![Fp32Of(n)] = Sweep(variant)!Exported(q)]
          /\ engine' = engine
  BY <1>1, PointKeys DEF Sweep!WriteArtifact
<1>6. Sweep(variant)!WriteSidecar(q) <=>
          /\ side' = [side EXCEPT ![Fp32Of(n)] = Sweep(variant)!ExportedSide]
          /\ engineSide' = engineSide
  BY <1>1, PointKeys DEF Sweep!WriteSidecar
<1>7. Sweep(variant)!WriteReport(q) <=> UNCHANGED <<accuracy, chain, latency>>
  BY <1>1 DEF Sweep!WriteReport
<1>8. Sweep(variant)!Noted(q) <=> chained' = chained
  BY <1>1 DEF Sweep!Noted
<1>9. /\ Sweep(variant)!Upstream(q) = {} /\ ~ Sweep(variant)!NothingToConvert(q)
      /\ ~ Sweep(variant)!Refuses(q)
  BY <1>1 DEF Sweep!Upstream, Sweep!NothingToConvert, Sweep!Refuses
<1> QED BY <1>2, <1>3, <1>4, <1>5, <1>6, <1>7, <1>8, <1>9

LEMMA ConvertPlan ==
    ASSUME phase = 2, NEW n
    PROVE  LET q == PointAt(n) IN
           /\ Sweep(variant)!Key(q) = <<"eval", EvalOf(n)>>
           /\ Sweep(variant)!Upstream(q) = {<<"graph", GraphOf(n)>>}
           /\ Sweep(variant)!NothingToConvert(q) <=> q.precision = "fp32"
           /\ ~ Sweep(variant)!Refuses(q)
           /\ Sweep(variant)!Passed(q) => \E m \in 1 .. at - 1 : EvalOf(m) = EvalOf(n)
           /\ Sweep(variant)!Cached(q) <=>
                  /\ art[EvalOf(n)] # Nothing /\ side[EvalOf(n)] # Nothing
                  /\ side[EvalOf(n)].source = art[Fp32Of(n)]
           /\ Sweep(variant)!WriteArtifact(q) <=>
                  /\ art' = [art EXCEPT ![EvalOf(n)] = Sweep(variant)!Converted(q)]
                  /\ engine' = engine
           /\ Sweep(variant)!WriteSidecar(q) <=>
                  /\ side' = [side EXCEPT ![EvalOf(n)] = Sweep(variant)!ConvertedSide(q)]
                  /\ engineSide' = engineSide
           /\ Sweep(variant)!WriteReport(q) <=> UNCHANGED <<accuracy, chain, latency>>
           /\ Sweep(variant)!Noted(q) <=> chained' = chained
<1> DEFINE q == PointAt(n)
<1>1. Sweep(variant)!Step = "convert" BY PhaseNames
<1>2. \A m : Sweep(variant)!Key(PointAt(m)) = <<"eval", EvalOf(m)>>
  BY <1>1, PointKeys DEF Sweep!Key
<1>3. Sweep(variant)!Passed(q) => \E m \in 1 .. at - 1 : EvalOf(m) = EvalOf(n)
  <2>1. Sweep(variant)!Passed(q)
          => \E m \in 1 .. at - 1 : Sweep(variant)!Key(PointAt(m)) = Sweep(variant)!Key(q)
    BY <1>1 DEF Sweep!Passed, PointAt
  <2> QED BY <2>1, <1>2
<1>4. Sweep(variant)!Cached(q) <=>
          /\ art[EvalOf(n)] # Nothing /\ side[EvalOf(n)] # Nothing
          /\ side[EvalOf(n)].source = art[Fp32Of(n)]
  BY <1>1, PointKeys DEF Sweep!Cached, Sweep!ConvertCached
<1>5. Sweep(variant)!WriteArtifact(q) <=>
          /\ art' = [art EXCEPT ![EvalOf(n)] = Sweep(variant)!Converted(q)]
          /\ engine' = engine
  BY <1>1, PointKeys DEF Sweep!WriteArtifact
<1>6. Sweep(variant)!WriteSidecar(q) <=>
          /\ side' = [side EXCEPT ![EvalOf(n)] = Sweep(variant)!ConvertedSide(q)]
          /\ engineSide' = engineSide
  BY <1>1, PointKeys DEF Sweep!WriteSidecar
<1>7. Sweep(variant)!WriteReport(q) <=> UNCHANGED <<accuracy, chain, latency>>
  BY <1>1 DEF Sweep!WriteReport
<1>8. Sweep(variant)!Noted(q) <=> chained' = chained
  BY <1>1 DEF Sweep!Noted
<1>9. /\ Sweep(variant)!Upstream(q) = {<<"graph", GraphOf(n)>>}
      /\ Sweep(variant)!NothingToConvert(q) <=> q.precision = "fp32"
      /\ ~ Sweep(variant)!Refuses(q)
  BY <1>1, PointKeys DEF Sweep!Upstream, Sweep!NothingToConvert, Sweep!Refuses
<1> QED BY <1>2, <1>3, <1>4, <1>5, <1>6, <1>7, <1>8, <1>9

LEMMA BuildPlan ==
    ASSUME phase = 3, NEW n
    PROVE  LET q == PointAt(n) IN
           /\ Sweep(variant)!Key(q) = <<"build", BuildOf(n)>>
           /\ Sweep(variant)!Upstream(q) = {<<"eval", EvalOf(n)>>}
           /\ ~ Sweep(variant)!NothingToConvert(q) /\ ~ Sweep(variant)!Refuses(q)
           /\ Sweep(variant)!Passed(q) => \E m \in 1 .. at - 1 : BuildOf(m) = BuildOf(n)
           /\ Sweep(variant)!Cached(q) <=>
                  /\ engine[BuildOf(n)] # Nothing /\ engineSide[BuildOf(n)] # Nothing
                  /\ engineSide[BuildOf(n)].onnx = art[EvalOf(n)]
           /\ Sweep(variant)!WriteArtifact(q) <=>
                  /\ engine' = [engine EXCEPT ![BuildOf(n)] = Sweep(variant)!Built(q)]
                  /\ art' = art
           /\ Sweep(variant)!WriteSidecar(q) <=>
                  /\ engineSide' = [engineSide EXCEPT ![BuildOf(n)] = Sweep(variant)!BuiltSide(q)]
                  /\ side' = side
           /\ Sweep(variant)!WriteReport(q) <=> UNCHANGED <<accuracy, chain, latency>>
           /\ Sweep(variant)!Noted(q) <=> chained' = chained
<1> DEFINE q == PointAt(n)
<1>1. Sweep(variant)!Step = "build" BY PhaseNames
<1>2. \A m : Sweep(variant)!Key(PointAt(m)) = <<"build", BuildOf(m)>>
  BY <1>1, PointKeys DEF Sweep!Key
<1>3. Sweep(variant)!Passed(q) => \E m \in 1 .. at - 1 : BuildOf(m) = BuildOf(n)
  <2>1. Sweep(variant)!Passed(q)
          => \E m \in 1 .. at - 1 : Sweep(variant)!Key(PointAt(m)) = Sweep(variant)!Key(q)
    BY <1>1 DEF Sweep!Passed, PointAt
  <2> QED BY <2>1, <1>2
<1>4. Sweep(variant)!Cached(q) <=>
          /\ engine[BuildOf(n)] # Nothing /\ engineSide[BuildOf(n)] # Nothing
          /\ engineSide[BuildOf(n)].onnx = art[EvalOf(n)]
  BY <1>1, PointKeys DEF Sweep!Cached, Sweep!BuildCached, Sweep!BuiltOnnx
<1>5. Sweep(variant)!WriteArtifact(q) <=>
          /\ engine' = [engine EXCEPT ![BuildOf(n)] = Sweep(variant)!Built(q)]
          /\ art' = art
  BY <1>1, PointKeys DEF Sweep!WriteArtifact
<1>6. Sweep(variant)!WriteSidecar(q) <=>
          /\ engineSide' = [engineSide EXCEPT ![BuildOf(n)] = Sweep(variant)!BuiltSide(q)]
          /\ side' = side
  BY <1>1, PointKeys DEF Sweep!WriteSidecar
<1>7. Sweep(variant)!WriteReport(q) <=> UNCHANGED <<accuracy, chain, latency>>
  BY <1>1 DEF Sweep!WriteReport
<1>8. Sweep(variant)!Noted(q) <=> chained' = chained
  BY <1>1 DEF Sweep!Noted
<1>9. /\ Sweep(variant)!Upstream(q) = {<<"eval", EvalOf(n)>>}
      /\ ~ Sweep(variant)!NothingToConvert(q) /\ ~ Sweep(variant)!Refuses(q)
  BY <1>1, PointKeys DEF Sweep!Upstream, Sweep!NothingToConvert, Sweep!Refuses
<1> QED BY <1>2, <1>3, <1>4, <1>5, <1>6, <1>7, <1>8, <1>9

LEMMA EvalPlan ==
    ASSUME phase = 4, NEW n
    PROVE  LET q == PointAt(n) IN
           /\ Sweep(variant)!Key(q) = <<"eval", EvalOf(n)>>
           /\ Sweep(variant)!Upstream(q) = {<<"build", EngineOf(n)>>}
           /\ ~ Sweep(variant)!NothingToConvert(q)
           /\ Sweep(variant)!Refuses(q) <=>
                  \/ engineSide[EngineOf(n)].onnx # art[EvalOf(n)]
                  \/ engineSide[EngineOf(n)].checkpoint # side[EvalOf(n)].checkpoint
           /\ Sweep(variant)!Passed(q) => \E m \in 1 .. at - 1 : EvalOf(m) = EvalOf(n)
           /\ Sweep(variant)!Cached(q) <=>
                  /\ accuracy[EvalOf(n)] # Nothing
                  /\ accuracy[EvalOf(n)].engine = engine[EngineOf(n)]
                  /\ accuracy[EvalOf(n)].ann = start.ann
           /\ Sweep(variant)!WriteArtifact(q) <=> UNCHANGED <<art, engine>>
           /\ Sweep(variant)!WriteSidecar(q) <=> UNCHANGED <<side, engineSide>>
           /\ Sweep(variant)!WriteReport(q) <=>
                  /\ accuracy' = [accuracy EXCEPT ![EvalOf(n)] = Sweep(variant)!Evaluated(q)]
                  /\ UNCHANGED <<chain, latency>>
           /\ Sweep(variant)!Noted(q) <=> chained' = chained
<1> DEFINE q == PointAt(n)
<1>1. Sweep(variant)!Step = "eval" BY PhaseNames
<1>2. \A m : Sweep(variant)!Key(PointAt(m)) = <<"eval", EvalOf(m)>>
  BY <1>1, PointKeys DEF Sweep!Key
<1>3. Sweep(variant)!Passed(q) => \E m \in 1 .. at - 1 : EvalOf(m) = EvalOf(n)
  <2>1. Sweep(variant)!Passed(q)
          => \E m \in 1 .. at - 1 : Sweep(variant)!Key(PointAt(m)) = Sweep(variant)!Key(q)
    BY <1>1 DEF Sweep!Passed, PointAt
  <2> QED BY <2>1, <1>2
<1>4. Sweep(variant)!Cached(q) <=>
          /\ accuracy[EvalOf(n)] # Nothing
          /\ accuracy[EvalOf(n)].engine = engine[EngineOf(n)]
          /\ accuracy[EvalOf(n)].ann = start.ann
  BY <1>1, PointKeys
     DEF Sweep!Cached, Sweep!EvalCached, Sweep!EvalProved, Sweep!SameEngine, EngineOf
<1>5. Sweep(variant)!WriteArtifact(q) <=> UNCHANGED <<art, engine>>
  BY <1>1 DEF Sweep!WriteArtifact
<1>6. Sweep(variant)!WriteSidecar(q) <=> UNCHANGED <<side, engineSide>>
  BY <1>1 DEF Sweep!WriteSidecar
<1>7. Sweep(variant)!WriteReport(q) <=>
          /\ accuracy' = [accuracy EXCEPT ![EvalOf(n)] = Sweep(variant)!Evaluated(q)]
          /\ UNCHANGED <<chain, latency>>
  BY <1>1, PointKeys DEF Sweep!WriteReport
<1>8. Sweep(variant)!Noted(q) <=> chained' = chained
  BY <1>1 DEF Sweep!Noted
<1>9. /\ Sweep(variant)!Upstream(q) = {<<"build", EngineOf(n)>>}
      /\ ~ Sweep(variant)!NothingToConvert(q)
      /\ Sweep(variant)!Refuses(q) <=>
             \/ engineSide[EngineOf(n)].onnx # art[EvalOf(n)]
             \/ engineSide[EngineOf(n)].checkpoint # side[EvalOf(n)].checkpoint
  BY <1>1, PointKeys
     DEF Sweep!Upstream, Sweep!NothingToConvert, Sweep!Refuses, Sweep!EvalRefuses, EngineOf
<1> QED BY <1>2, <1>3, <1>4, <1>5, <1>6, <1>7, <1>8, <1>9

LEMMA ChainPlan ==
    ASSUME phase = 5, NEW n
    PROVE  LET q == PointAt(n)
               l == accuracy[EvalOf(1)]
               r == accuracy[EvalOf(n)]
           IN
           /\ Sweep(variant)!Key(q) = <<"chain", EvalOf(n)>> /\ Sweep(variant)!Upstream(q) = {}
           /\ ~ Sweep(variant)!NothingToConvert(q) /\ ~ Sweep(variant)!Cached(q)
           /\ ~ Sweep(variant)!Refuses(q) =>
                  l.ann = r.ann /\ l.images = r.images /\ l.checkpoint = r.checkpoint
           /\ Sweep(variant)!Passed(q) =>
                  \/ \E m \in 1 .. at - 1 : EvalOf(m) = EvalOf(n)
                  \/ EvalOf(n) = EvalOf(1) \/ Marked("eval", EvalOf(1)) \/ Marked("eval", EvalOf(n))
           /\ ~ Sweep(variant)!Passed(q) =>
                  ~ Marked("eval", EvalOf(1)) /\ ~ Marked("eval", EvalOf(n))
           /\ Sweep(variant)!WriteArtifact(q) <=> UNCHANGED <<art, engine>>
           /\ Sweep(variant)!WriteSidecar(q) <=> UNCHANGED <<side, engineSide>>
           /\ Sweep(variant)!WriteReport(q) <=>
                  /\ chain' = [chain EXCEPT ![EvalOf(n)] = [base |-> l, of |-> r]]
                  /\ UNCHANGED <<accuracy, latency>>
           /\ Sweep(variant)!Noted(q) <=> chained' = chained \cup {EvalOf(n)}
<1> DEFINE q == PointAt(n)
           l == accuracy[EvalOf(1)]
           r == accuracy[EvalOf(n)]
<1>1. Sweep(variant)!Step = "chain" BY PhaseNames
<1>2. \A m : Sweep(variant)!Key(PointAt(m)) = <<"chain", EvalOf(m)>>
  BY <1>1, PointKeys DEF Sweep!Key
<1>3. Sweep(variant)!Passed(q) <=>
          \/ \E m \in 1 .. at - 1 : Sweep(variant)!Key(PointAt(m)) = Sweep(variant)!Key(q)
          \/ EvalOf(n) = EvalOf(1)
          \/ {<<"eval", EvalOf(1)>>, <<"eval", EvalOf(n)>>} \cap failures # {}
  BY <1>1, PointKeys DEF Sweep!Passed, PointAt
<1>4. ~ Sweep(variant)!Refuses(q) =>
          l.ann = r.ann /\ l.images = r.images /\ l.checkpoint = r.checkpoint
  BY <1>1, PointKeys
     DEF Sweep!Refuses, Sweep!ChainRefuses, Sweep!Comparable, Sweep!SameDataset
<1>5. Sweep(variant)!WriteArtifact(q) <=> UNCHANGED <<art, engine>>
  BY <1>1 DEF Sweep!WriteArtifact
<1>6. Sweep(variant)!WriteSidecar(q) <=> UNCHANGED <<side, engineSide>>
  BY <1>1 DEF Sweep!WriteSidecar
<1>7. Sweep(variant)!WriteReport(q) <=>
          /\ chain' = [chain EXCEPT ![EvalOf(n)] = [base |-> l, of |-> r]]
          /\ UNCHANGED <<accuracy, latency>>
  BY <1>1, PointKeys DEF Sweep!WriteReport, Sweep!Compared
<1>8. Sweep(variant)!Noted(q) <=> chained' = chained \cup {EvalOf(n)}
  BY <1>1, PointKeys DEF Sweep!Noted
<1>9. /\ Sweep(variant)!Upstream(q) = {} /\ ~ Sweep(variant)!NothingToConvert(q)
      /\ ~ Sweep(variant)!Cached(q)
  BY <1>1 DEF Sweep!Upstream, Sweep!NothingToConvert, Sweep!Cached
<1>10. Sweep(variant)!Passed(q) =>
          \/ \E m \in 1 .. at - 1 : EvalOf(m) = EvalOf(n)
          \/ EvalOf(n) = EvalOf(1) \/ Marked("eval", EvalOf(1)) \/ Marked("eval", EvalOf(n))
  BY <1>2, <1>3 DEF Marked
<1>11. ~ Sweep(variant)!Passed(q) => ~ Marked("eval", EvalOf(1)) /\ ~ Marked("eval", EvalOf(n))
  BY <1>3 DEF Marked
<1> QED BY <1>2, <1>4, <1>5, <1>6, <1>7, <1>8, <1>9, <1>10, <1>11

LEMMA BenchPlan ==
    ASSUME phase = 6, NEW n
    PROVE  LET q == PointAt(n) IN
           /\ Sweep(variant)!Key(q) = <<"bench", BuildOf(n)>> /\ Sweep(variant)!Upstream(q) = {}
           /\ ~ Sweep(variant)!NothingToConvert(q) /\ ~ Sweep(variant)!Refuses(q)
           /\ Sweep(variant)!Passed(q) =>
                  \/ \E m \in 1 .. at - 1 : BuildOf(m) = BuildOf(n)
                  \/ Marked("build", BuildOf(n))
           /\ ~ Sweep(variant)!Passed(q) => ~ Marked("build", BuildOf(n))
           /\ Sweep(variant)!Cached(q) <=>
                  /\ latency[BuildOf(n)] # Nothing
                  /\ latency[BuildOf(n)].engine = engine[BuildOf(n)]
           /\ Sweep(variant)!WriteArtifact(q) <=> UNCHANGED <<art, engine>>
           /\ Sweep(variant)!WriteSidecar(q) <=> UNCHANGED <<side, engineSide>>
           /\ Sweep(variant)!WriteReport(q) <=>
                  /\ latency' = [latency EXCEPT ![BuildOf(n)] = Sweep(variant)!Measured(q)]
                  /\ UNCHANGED <<accuracy, chain>>
           /\ Sweep(variant)!Noted(q) <=> chained' = chained
<1> DEFINE q == PointAt(n)
<1>1. Sweep(variant)!Step = "bench" BY PhaseNames
<1>2. \A m : Sweep(variant)!Key(PointAt(m)) = <<"bench", BuildOf(m)>>
  BY <1>1, PointKeys DEF Sweep!Key
<1>3. Sweep(variant)!Passed(q) <=>
          \/ \E m \in 1 .. at - 1 : Sweep(variant)!Key(PointAt(m)) = Sweep(variant)!Key(q)
          \/ Marked("build", BuildOf(n))
  BY <1>1, PointKeys DEF Sweep!Passed, PointAt, Marked
<1>4. Sweep(variant)!Cached(q) <=>
          /\ latency[BuildOf(n)] # Nothing
          /\ latency[BuildOf(n)].engine = engine[BuildOf(n)]
  BY <1>1, PointKeys DEF Sweep!Cached, Sweep!BenchCached
<1>5. Sweep(variant)!WriteArtifact(q) <=> UNCHANGED <<art, engine>>
  BY <1>1 DEF Sweep!WriteArtifact
<1>6. Sweep(variant)!WriteSidecar(q) <=> UNCHANGED <<side, engineSide>>
  BY <1>1 DEF Sweep!WriteSidecar
<1>7. Sweep(variant)!WriteReport(q) <=>
          /\ latency' = [latency EXCEPT ![BuildOf(n)] = Sweep(variant)!Measured(q)]
          /\ UNCHANGED <<accuracy, chain>>
  BY <1>1, PointKeys DEF Sweep!WriteReport
<1>8. Sweep(variant)!Noted(q) <=> chained' = chained
  BY <1>1 DEF Sweep!Noted
<1>9. /\ Sweep(variant)!Upstream(q) = {} /\ ~ Sweep(variant)!NothingToConvert(q)
      /\ ~ Sweep(variant)!Refuses(q)
  BY <1>1 DEF Sweep!Upstream, Sweep!NothingToConvert, Sweep!Refuses
<1>10. Sweep(variant)!Passed(q) =>
           \/ \E m \in 1 .. at - 1 : BuildOf(m) = BuildOf(n)
           \/ Marked("build", BuildOf(n))
  BY <1>2, <1>3
<1> QED BY <1>2, <1>3, <1>4, <1>5, <1>6, <1>7, <1>8, <1>9, <1>10

LEMMA LeastOf ==
    ASSUME NEW S, S \subseteq Nat, S # {}
    PROVE  \E m \in S : \A n \in S : m <= n
<1> DEFINE R == OpToRel(<, Nat)
<1>1. IsWellFoundedOn(R, Nat) BY NatLessThanWellFounded
<1>2. \A m, n \in Nat : m < n => <<m, n>> \in R BY DEF OpToRel
<1> HIDE DEF R
<1>3. \E m \in S : \A n \in S : ~ (<<n, m>> \in R) BY <1>1, WFMin
<1>4. PICK m \in S : \A n \in S : ~ (<<n, m>> \in R) BY <1>3
<1>5. ASSUME NEW n \in S PROVE m <= n
  <2>1. ~ (n < m) BY <1>2, <1>4
  <2> QED BY <2>1
<1> QED BY <1>5

\* The engine an evaluation uses is of the first point of its key, those first whose build did
\* not fail.
Rank(m) == Sweep(variant)!EngineRank(PointAt(m))
Serves(m, n) ==
    /\ EvalOf(m) = EvalOf(n)
    /\ \A j \in PointsOf : EvalOf(j) = EvalOf(n) =>
           Rank(m) < Rank(j) \/ (Rank(m) = Rank(j) /\ m <= j)
EnginesServe == \A n \in PointsOf : \E m \in PointsOf : Serves(m, n) /\ EngineOf(n) = BuildOf(m)

LEMMA Ranks ==
    \A m : Rank(m) \in 0 .. 3 /\ (Rank(m) >= 2 <=> Marked("build", BuildOf(m)))
<1> TAKE m
<1> DEFINE failed == IF <<"build", BuildOf(m)>> \in failures THEN 2 ELSE 0
           other == IF Sweep(variant)!IsDefault(PointAt(m)) THEN 0 ELSE 1
<1>1. Rank(m) = failed + other BY PointKeys DEF Rank, Sweep!EngineRank
<1>2. failed \in {0, 2} /\ other \in {0, 1} /\ (failed = 2 <=> Marked("build", BuildOf(m)))
  BY DEF Marked
<1> HIDE DEF failed, other
<1> QED BY <1>1, <1>2

LEMMA EngineServes == variant \in DOMAIN Sweeps => EnginesServe
<1> SUFFICES ASSUME variant \in DOMAIN Sweeps, NEW n \in PointsOf
             PROVE  \E m \in PointsOf : Serves(m, n) /\ EngineOf(n) = BuildOf(m)
  BY DEF EnginesServe
<1> DEFINE candidates == {m \in PointsOf : EvalOf(m) = EvalOf(n)}
           Preferred(m, j) == Rank(m) < Rank(j) \/ (Rank(m) = Rank(j) /\ m <= j)
           First(m) == \A j \in candidates : Preferred(m, j)
<1>1. EngineOf(n) = BuildOf(CHOOSE m \in candidates : First(m))
  BY DEF EngineOf, Sweep!eval_engine_for, PointAt, PointsOf, EvalOf, BuildOf, Rank, Sweep!EvalKey,
         Sweep!BuildKey, Sweep!Index
<1>2. PointsOf \subseteq Nat BY SweepConstants
<1>3. n \in candidates OBVIOUS
<1>4. \E m \in candidates : First(m)
  <2> DEFINE ranks == {Rank(m) : m \in candidates}
  <2>1. PICK least \in ranks : \A z \in ranks : least <= z
    <3>1. ranks \subseteq Nat /\ ranks # {} BY Ranks, <1>3
    <3> HIDE DEF ranks
    <3> QED BY <3>1, LeastOf
  <2> DEFINE ties == {m \in candidates : Rank(m) = least}
  <2>2. PICK m \in ties : \A j \in ties : m <= j
    <3>1. ties \subseteq Nat /\ ties # {} BY <1>2, <2>1
    <3> HIDE DEF ties
    <3> QED BY <3>1, LeastOf
  <2>3. ASSUME NEW j \in candidates PROVE Preferred(m, j)
    <3>1. Rank(m) = least /\ least <= Rank(j) /\ Rank(m) \in Nat /\ Rank(j) \in Nat
      BY Ranks, <2>1, <2>2
    <3>2. CASE Rank(j) = least
      <4>1. j \in ties BY <3>2
      <4> QED BY <4>1, <2>2, <3>1, <3>2
    <3>3. CASE Rank(j) # least
      <4>1. Rank(m) < Rank(j) BY <3>1, <3>3
      <4> QED BY <4>1
    <3> QED BY <3>2, <3>3
  <2> QED BY <2>2, <2>3
<1> DEFINE chosen == CHOOSE m \in candidates : First(m)
<1>5. chosen \in candidates /\ First(chosen)
  <2> HIDE DEF First, candidates
  <2> QED BY <1>4, Zenon
<1>6. EngineOf(n) = BuildOf(chosen) BY <1>1
<1> HIDE DEF chosen
<1> QED BY <1>5, <1>6 DEF Serves

\* It was built unless none of its key was.
LEMMA ChosenEngine ==
    ASSUME variant \in DOMAIN Sweeps, NEW n \in PointsOf
    PROVE  \E m \in PointsOf :
               /\ EvalOf(m) = EvalOf(n) /\ EngineOf(n) = BuildOf(m)
               /\ Marked("build", BuildOf(m)) =>
                      \A j \in PointsOf : EvalOf(j) = EvalOf(n) => Marked("build", BuildOf(j))
<1>1. PICK m \in PointsOf : Serves(m, n) /\ EngineOf(n) = BuildOf(m)
  BY EngineServes DEF EnginesServe
<1>2. ASSUME Marked("build", BuildOf(m)), NEW j \in PointsOf, EvalOf(j) = EvalOf(n)
      PROVE  Marked("build", BuildOf(j))
  <2>1. Rank(m) < Rank(j) \/ Rank(m) = Rank(j) BY <1>1, <1>2 DEF Serves
  <2>2. Rank(m) >= 2 /\ Rank(m) \in Nat /\ Rank(j) \in Nat
    BY Ranks, <1>2
  <2>3. Rank(j) >= 2 BY <2>1, <2>2
  <2> QED BY Ranks, <2>3
<1> QED BY <1>1, <1>2 DEF Serves

\* It depends on the builds that failed only.
LEMMA EngineStays ==
    ASSUME variant \in DOMAIN Sweeps, NEW n \in PointsOf,
           \A m \in PointsOf : Marked("build", BuildOf(m))' <=> Marked("build", BuildOf(m))
    PROVE  EngineOf(n)' = EngineOf(n)
<1>1. PICK m \in PointsOf : Serves(m, n) /\ EngineOf(n) = BuildOf(m)
  BY EngineServes DEF EnginesServe
<1>2. PICK j \in PointsOf : Serves(j, n)' /\ EngineOf(n)' = BuildOf(j)
  <2>1. (variant \in DOMAIN Sweeps)' => EnginesServe'
    BY EngineServes, PTL
  <2>2. EnginesServe' BY <2>1
  <2> QED BY <2>2 DEF EnginesServe, PointsOf, BuildOf, PointAt
<1>3. \A h \in PointsOf : Rank(h)' = Rank(h)
  BY PointKeys DEF Rank, Marked, Sweep!EngineRank, Sweep!IsDefault, PointAt, BuildOf
<1>4. Serves(j, n) BY <1>2, <1>3 DEF Serves, PointsOf, EvalOf, PointAt
<1>5. m = j
  <2>1. m \in Nat /\ j \in Nat /\ Rank(m) \in Nat /\ Rank(j) \in Nat
    BY Ranks, SweepConstants
  <2>2. Rank(m) < Rank(j) \/ (Rank(m) = Rank(j) /\ m <= j)
    BY <1>1, <1>4 DEF Serves
  <2>3. Rank(j) < Rank(m) \/ (Rank(j) = Rank(m) /\ j <= m)
    BY <1>1, <1>4 DEF Serves
  <2> DEFINE r == Rank(m)
             s == Rank(j)
  <2> HIDE DEF r, s
  <2>4. r \in Nat /\ s \in Nat /\ (r < s \/ (r = s /\ m <= j)) /\ (s < r \/ (s = r /\ j <= m))
    BY <2>1, <2>2, <2>3 DEF r, s
  <2> QED BY <2>1, <2>4
<1> QED BY <1>1, <1>2, <1>5

\* What is on disk once the unit of a phase has been gone through.
ExportedUnit(n) ==
    \/ Marked("graph", GraphOf(n))
    \/ /\ art[Fp32Of(n)] # Nothing /\ side[Fp32Of(n)] # Nothing
       /\ Quiet => side[Fp32Of(n)].checkpoint = start.checkpoint
ConvertedUnit(n) ==
    \/ Marked("eval", EvalOf(n))
    \/ /\ art[EvalOf(n)] # Nothing /\ side[EvalOf(n)] # Nothing
       /\ PointAt(n).precision # "fp32" => side[EvalOf(n)].source = art[Fp32Of(n)]
BuiltUnit(n) ==
    \/ Marked("build", BuildOf(n))
    \/ /\ engine[BuildOf(n)] # Nothing /\ engineSide[BuildOf(n)] # Nothing
       /\ engineSide[BuildOf(n)].onnx = art[EvalOf(n)]
EvaluatedUnit(n) ==
    \/ Marked("eval", EvalOf(n))
    \/ /\ ~ <<"build", EngineOf(n)>> \in failures
       /\ accuracy[EvalOf(n)] # Nothing /\ accuracy[EvalOf(n)].engine = engine[EngineOf(n)]
       /\ Quiet => accuracy[EvalOf(n)].ann = start.ann
ComparedUnit(n) ==
    \/ EvalOf(n) = EvalOf(1) \/ Marked("eval", EvalOf(1)) \/ Marked("eval", EvalOf(n))
    \/ Marked("chain", EvalOf(n))
    \/ /\ EvalOf(n) \in chained
       /\ chain[EvalOf(n)] = [base |-> accuracy[EvalOf(1)], of |-> accuracy[EvalOf(n)]]
MeasuredUnit(n) ==
    \/ Marked("build", BuildOf(n)) \/ Marked("bench", BuildOf(n))
    \/ /\ latency[BuildOf(n)] # Nothing /\ latency[BuildOf(n)].engine = engine[BuildOf(n)]

Unit(f, n) ==
    /\ f = 1 => ExportedUnit(n)
    /\ f = 2 => ConvertedUnit(n)
    /\ f = 3 => BuiltUnit(n)
    /\ f = 4 => EvaluatedUnit(n)
    /\ f = 5 => ComparedUnit(n)
    /\ f = 6 => MeasuredUnit(n)
Reached == \A n \in PointsOf, f \in 1 .. 6 : Done(f, n) => Unit(f, n)

SweepTypes ==
    /\ world \in [Sweep(variant)!Field -> {0, 1}] /\ start \in [Sweep(variant)!Field -> {0, 1}]
    /\ art \in [Sweep(variant)!GraphFiles -> Sweep(variant)!Content \cup {Nothing}]
    /\ side \in [Sweep(variant)!GraphFiles -> Sweep(variant)!Sidecar \cup {Nothing}]
    /\ engine \in [Sweep(variant)!Builds -> Sweep(variant)!Engine \cup {Nothing}]
    /\ engineSide \in [Sweep(variant)!Builds -> Sweep(variant)!EngineSidecar \cup {Nothing}]
    /\ accuracy \in [Sweep(variant)!GraphFiles -> Sweep(variant)!Accuracy \cup {Nothing}]
    /\ latency \in [Sweep(variant)!Builds -> Sweep(variant)!Latency \cup {Nothing}]
    /\ chain = [e \in Sweep(variant)!GraphFiles |-> chain[e]]
    /\ chained \subseteq Sweep(variant)!GraphFiles

\* Where the sweep is: a table is of the sweep that ended.
Positions ==
    /\ phase \in 0 .. 7 /\ at \in PointsOf /\ crashes \in Nat
    /\ table # Nothing => phase = 0 /\ table = [n \in PointsOf |-> Sweep(variant)!point_row(PointAt(n))]
    /\ Quiet /\ phase # 0 => world = start

UnitStep ==
    \/ Sweep(variant)!Pass \/ Sweep(variant)!Inherit \/ Sweep(variant)!Reuse
    \/ Sweep(variant)!Run \/ Sweep(variant)!ToolFails

KeepsDisk == UNCHANGED <<art, side, engine, engineSide, accuracy, chain, latency>>

LEMMA UnitForms ==
    ASSUME variant \in DOMAIN Sweeps, UnitStep
    PROVE  LET q == PointAt(at)
               key == Sweep(variant)!Key(q)
               step == <<Sweep(variant)!Step, key>>
           IN  /\ phase \in 1 .. 6 /\ at \in PointsOf
               /\ UNCHANGED <<world, start, table, crashes>>
               /\ \/ /\ KeepsDisk /\ Sweep(variant)!Next_i
                     /\ UNCHANGED <<failures, ran, broke, chained, settled>>
                     /\ \/ Sweep(variant)!Passed(q)
                        \/ /\ Sweep(variant)!Upstream(q) \cap failures = {}
                           /\ Sweep(variant)!NothingToConvert(q) \/ key \in failures
                        \/ Sweep(variant)!Due(q) /\ Sweep(variant)!Cached(q)
                  \/ /\ KeepsDisk /\ Sweep(variant)!Next_i
                     /\ UNCHANGED <<ran, broke, chained, settled>>
                     /\ ~ Sweep(variant)!Passed(q) /\ Sweep(variant)!Upstream(q) \cap failures # {}
                     /\ failures' = failures \cup {key}
                  \/ /\ Sweep(variant)!Due(q) /\ ~ Sweep(variant)!Cached(q)
                     /\ ~ Sweep(variant)!Refuses(q) /\ Sweep(variant)!Next_i
                     /\ Sweep(variant)!WriteArtifact(q) /\ Sweep(variant)!WriteSidecar(q)
                     /\ Sweep(variant)!WriteReport(q) /\ Sweep(variant)!Noted(q)
                     /\ ran' = ran \cup {step} /\ UNCHANGED <<failures, broke, settled>>
                  \/ /\ Sweep(variant)!Due(q) /\ ~ Sweep(variant)!Cached(q) /\ KeepsDisk
                     /\ Sweep(variant)!Noted(q) /\ settled' = Nothing
                     /\ failures' = failures \cup {key}
                     /\ \/ Sweep(variant)!Refuses(q) /\ broke' = broke
                        \/ broke' = broke \cup {step}
                     /\ Sweep(variant)!Next_i \/ (phase' = 0 /\ at' = 1)
<1>1. Sweep(variant)!AtStep => phase \in 1 .. 6 /\ at \in PointsOf
  BY PhaseNames, PointKeys DEF Sweep!AtStep
<1>2. Sweep(variant)!Point_i = PointAt(at) BY DEF Sweep!Point_i, PointAt
<1>3. CASE Sweep(variant)!Pass
  BY <1>1, <1>2, <1>3, Zenon DEF Sweep!Pass, Sweep!disk, Sweep!bounds, KeepsDisk
<1>4. CASE Sweep(variant)!Inherit
  BY <1>1, <1>2, <1>4, Zenon DEF Sweep!Inherit, Sweep!disk, Sweep!bounds, KeepsDisk
<1>5. CASE Sweep(variant)!Reuse
  BY <1>1, <1>2, <1>5, Zenon DEF Sweep!Reuse, Sweep!disk, Sweep!bounds, KeepsDisk
<1>6. CASE Sweep(variant)!Run
  BY <1>1, <1>2, <1>6, Zenon DEF Sweep!Run, Sweep!bounds
<1>7. CASE Sweep(variant)!ToolFails
  BY <1>1, <1>2, <1>7 DEF Sweep!ToolFails, Sweep!Marked, Sweep!disk, KeepsDisk
<1> QED BY <1>3, <1>4, <1>5, <1>6, <1>7 DEF UnitStep

\* The plan goes through the points of a phase, then through the next phase.
LEMMA Moves ==
    ASSUME variant \in DOMAIN Sweeps, phase \in 1 .. 6, at \in PointsOf, Sweep(variant)!Next_i,
           table = Nothing, table' = Nothing
    PROVE  /\ phase' \in 1 .. 7 /\ at' \in PointsOf
           /\ \A n \in PointsOf, f \in 1 .. 6 : Done(f, n)' <=> Done(f, n) \/ (f = phase /\ n = at)
<1> DEFINE len == Len(Sweeps[variant].points)
<1>1. PointsOf = 1 .. len /\ len \in Nat /\ at \in 1 .. len
  BY SweepConstants
<1>2. IF at < len THEN at' = at + 1 /\ phase' = phase ELSE at' = 1 /\ phase' = phase + 1
  BY DEF Sweep!Next_i
<1>3. \A n, f : /\ Done(f, n) <=> f < phase \/ (f = phase /\ n < at)
                /\ Done(f, n)' <=> f < phase' \/ (f = phase' /\ n < at')
  BY DEF Done
<1> HIDE DEF len
<1>4. CASE at < len BY <1>1, <1>2, <1>3, <1>4
<1>5. CASE ~ (at < len)
  <2>1. at = len BY <1>1, <1>5
  <2> QED BY <1>1, <1>2, <1>3, <1>5, <2>1
<1> QED BY <1>4, <1>5

\* Points of one key have one unit.
LEMMA SameUnit ==
    ASSUME NEW m, NEW n
    PROVE  /\ GraphOf(m) = GraphOf(n) => (ExportedUnit(m) <=> ExportedUnit(n))
           /\ EvalOf(m) = EvalOf(n) => /\ EngineOf(m) = EngineOf(n)
                                       /\ ConvertedUnit(m) <=> ConvertedUnit(n)
                                       /\ EvaluatedUnit(m) <=> EvaluatedUnit(n)
                                       /\ ComparedUnit(m) <=> ComparedUnit(n)
           /\ BuildOf(m) = BuildOf(n) => /\ BuiltUnit(m) <=> BuiltUnit(n)
                                         /\ MeasuredUnit(m) <=> MeasuredUnit(n)
<1>1. GraphOf(m) = GraphOf(n) => (ExportedUnit(m) <=> ExportedUnit(n))
  <2> SUFFICES ASSUME GraphOf(m) = GraphOf(n) PROVE ExportedUnit(m) <=> ExportedUnit(n)
    OBVIOUS
  <2>1. Fp32Of(m) = Fp32Of(n) BY SameKeys
  <2> QED BY <2>1 DEF ExportedUnit
<1>2. ASSUME EvalOf(m) = EvalOf(n)
      PROVE  /\ EngineOf(m) = EngineOf(n)
             /\ ConvertedUnit(m) <=> ConvertedUnit(n)
             /\ EvaluatedUnit(m) <=> EvaluatedUnit(n)
             /\ ComparedUnit(m) <=> ComparedUnit(n)
  <2>1. Fp32Of(m) = Fp32Of(n) /\ PointAt(m).precision = PointAt(n).precision
    BY <1>2, SameKeys
  <2>2. EngineOf(m) = EngineOf(n)
    BY <1>2, PointKeys DEF EngineOf, Sweep!eval_engine_for
  <2>3. ConvertedUnit(m) <=> ConvertedUnit(n)
    BY <1>2, <2>1 DEF ConvertedUnit
  <2>4. EvaluatedUnit(m) <=> EvaluatedUnit(n)
    BY <1>2, <2>2 DEF EvaluatedUnit
  <2>5. ComparedUnit(m) <=> ComparedUnit(n) BY <1>2 DEF ComparedUnit
  <2> QED BY <2>2, <2>3, <2>4, <2>5
<1>3. ASSUME BuildOf(m) = BuildOf(n)
      PROVE  (BuiltUnit(m) <=> BuiltUnit(n)) /\ (MeasuredUnit(m) <=> MeasuredUnit(n))
  <2>1. EvalOf(m) = EvalOf(n) BY <1>3, SameKeys
  <2> QED BY <1>3, <2>1 DEF BuiltUnit, MeasuredUnit
<1> QED BY <1>1, <1>2, <1>3

\* A unit stays what it is while failures are added.
LEMMA UnitStays ==
    ASSUME variant \in DOMAIN Sweeps, NEW n \in PointsOf, NEW f \in 1 .. 6, Unit(f, n),
           KeepsDisk, start' = start, failures \subseteq failures', chained \subseteq chained',
           f = 4 => \A m \in PointsOf : Marked("build", BuildOf(m))' <=> Marked("build", BuildOf(m))
    PROVE  Unit(f, n)'
<1> USE DEF KeepsDisk
<1>1. f = 1 => ExportedUnit(n)'
  BY DEF Unit, ExportedUnit, Marked, GraphOf, Fp32Of, PointAt, Quiet
<1>2. f = 2 => ConvertedUnit(n)'
  BY DEF Unit, ConvertedUnit, Marked, EvalOf, Fp32Of, PointAt
<1>3. f = 3 => BuiltUnit(n)'
  BY DEF Unit, BuiltUnit, Marked, EvalOf, BuildOf, PointAt
<1>4. f = 4 => EvaluatedUnit(n)'
  <2> SUFFICES ASSUME f = 4 PROVE EvaluatedUnit(n)'
    OBVIOUS
  <2>1. EngineOf(n)' = EngineOf(n) BY EngineStays
  <2>2. PICK m \in PointsOf : EngineOf(n) = BuildOf(m)
    BY EngineServes DEF EnginesServe
  <2>3. <<"build", EngineOf(n)>> \in failures' <=> <<"build", EngineOf(n)>> \in failures
    BY <2>2 DEF Marked, BuildOf, PointAt
  <2> QED BY <2>1, <2>3 DEF Unit, EvaluatedUnit, Marked, EvalOf, PointAt, Quiet
<1>5. f = 5 => ComparedUnit(n)'
  BY DEF Unit, ComparedUnit, Marked, EvalOf, PointAt
<1>6. f = 6 => MeasuredUnit(n)'
  BY DEF Unit, MeasuredUnit, Marked, BuildOf, PointAt
<1> QED BY <1>1, <1>2, <1>3, <1>4, <1>5, <1>6 DEF Unit

\* What the plan skips is there, or marked.
LEMMA SkippedIsThere ==
    ASSUME variant \in DOMAIN Sweeps, phase \in 1 .. 6, at \in PointsOf, Reached,
           \/ Sweep(variant)!Passed(PointAt(at))
           \/ /\ Sweep(variant)!Upstream(PointAt(at)) \cap failures = {}
              /\ \/ Sweep(variant)!NothingToConvert(PointAt(at))
                 \/ Sweep(variant)!Key(PointAt(at)) \in failures
           \/ Sweep(variant)!Due(PointAt(at)) /\ Sweep(variant)!Cached(PointAt(at))
    PROVE  Unit(phase, at)
<1>1. \A m \in 1 .. at - 1 : m \in PointsOf /\ Unit(phase, m)
  <2> TAKE m \in 1 .. at - 1
  <2>1. at \in 1 .. Len(Sweeps[variant].points) /\ Len(Sweeps[variant].points) \in Nat
        /\ PointsOf = 1 .. Len(Sweeps[variant].points)
    BY SweepConstants
  <2>2. m \in PointsOf /\ m < at BY <2>1
  <2>3. Done(phase, m) BY <2>2 DEF Done
  <2> QED BY <2>2, <2>3 DEF Reached
<1>2. Sweep(variant)!Due(PointAt(at)) => Sweep(variant)!Upstream(PointAt(at)) \cap failures = {}
  BY DEF Sweep!Due
<1>3. CASE phase = 1
  <2>1. ExportedUnit(at)
    BY <1>1, <1>3, ExportPlan, SameUnit DEF Unit, ExportedUnit, Marked
  <2> QED BY <1>3, <2>1 DEF Unit
<1>4. CASE phase = 2
  <2>1. ASSUME PointAt(at).precision = "fp32", ~ Marked("graph", GraphOf(at)) PROVE ConvertedUnit(at)
    <3>1. EvalOf(at) = Fp32Of(at) BY <2>1, SameKeys
    <3>2. Done(1, at) BY <1>4 DEF Done
    <3>3. ExportedUnit(at) BY <3>2 DEF Reached, Unit
    <3> QED BY <2>1, <3>1, <3>3 DEF ExportedUnit, ConvertedUnit
  <2>2. ConvertedUnit(at)
    <3>1. CASE Sweep(variant)!Passed(PointAt(at))
      BY <1>1, <1>4, <3>1, ConvertPlan, SameUnit DEF Unit
    <3>2. CASE /\ Sweep(variant)!Upstream(PointAt(at)) \cap failures = {}
               /\ \/ Sweep(variant)!NothingToConvert(PointAt(at))
                  \/ Sweep(variant)!Key(PointAt(at)) \in failures
      <4>1. ~ Marked("graph", GraphOf(at))
        BY <1>4, <3>2, ConvertPlan DEF Marked
      <4> QED BY <1>4, <2>1, <3>2, <4>1, ConvertPlan DEF ConvertedUnit, Marked
    <3>3. CASE Sweep(variant)!Due(PointAt(at)) /\ Sweep(variant)!Cached(PointAt(at))
      BY <1>4, <3>3, ConvertPlan DEF ConvertedUnit
    <3> QED BY <3>1, <3>2, <3>3
  <2> QED BY <1>4, <2>2 DEF Unit
<1>5. CASE phase = 3
  <2>1. BuiltUnit(at)
    BY <1>1, <1>5, BuildPlan, SameUnit DEF Unit, BuiltUnit, Marked
  <2> QED BY <1>5, <2>1 DEF Unit
<1>6. CASE phase = 4
  <2>1. EvaluatedUnit(at)
    <3>1. CASE Sweep(variant)!Passed(PointAt(at))
      BY <1>1, <1>6, <3>1, EvalPlan, SameUnit DEF Unit
    <3>2. CASE Sweep(variant)!Key(PointAt(at)) \in failures
      BY <1>6, <3>2, EvalPlan DEF EvaluatedUnit, Marked
    <3>3. CASE Sweep(variant)!Due(PointAt(at)) /\ Sweep(variant)!Cached(PointAt(at))
      <4>1. ~ <<"build", EngineOf(at)>> \in failures
        BY <1>2, <1>6, <3>3, EvalPlan
      <4> QED BY <1>6, <3>3, <4>1, EvalPlan DEF EvaluatedUnit
    <3>4. ~ Sweep(variant)!NothingToConvert(PointAt(at))
      BY <1>6, EvalPlan
    <3> QED BY <3>1, <3>2, <3>3, <3>4
  <2> QED BY <1>6, <2>1 DEF Unit
<1>7. CASE phase = 5
  <2>1. ComparedUnit(at)
    BY <1>1, <1>7, ChainPlan, SameUnit DEF Unit, ComparedUnit, Marked
  <2> QED BY <1>7, <2>1 DEF Unit
<1>8. CASE phase = 6
  <2>1. MeasuredUnit(at)
    BY <1>1, <1>8, BenchPlan, SameUnit DEF Unit, MeasuredUnit, Marked
  <2> QED BY <1>8, <2>1 DEF Unit
<1> QED BY <1>3, <1>4, <1>5, <1>6, <1>7, <1>8

\* So is what has been marked.
LEMMA MarkedIsMarked ==
    ASSUME phase \in 1 .. 6, Sweep(variant)!Key(PointAt(at)) \in failures',
           NEW n, n = at, NEW f, f = phase
    PROVE  Unit(f, n)'
<1>1. f = 1 => ExportedUnit(n)'
  BY ExportPlan DEF ExportedUnit, Marked, GraphOf, PointAt
<1>2. f = 2 => ConvertedUnit(n)'
  BY ConvertPlan DEF ConvertedUnit, Marked, EvalOf, PointAt
<1>3. f = 3 => BuiltUnit(n)'
  BY BuildPlan DEF BuiltUnit, Marked, BuildOf, PointAt
<1>4. f = 4 => EvaluatedUnit(n)'
  BY EvalPlan DEF EvaluatedUnit, Marked, EvalOf, PointAt
<1>5. f = 5 => ComparedUnit(n)'
  BY ChainPlan DEF ComparedUnit, Marked, EvalOf, PointAt
<1>6. f = 6 => MeasuredUnit(n)'
  BY BenchPlan DEF MeasuredUnit, Marked, BuildOf, PointAt
<1> QED BY <1>1, <1>2, <1>3, <1>4, <1>5, <1>6 DEF Unit

\* What the tools write is of its kind.
LEMMA ToolsWrite ==
    ASSUME variant \in DOMAIN Sweeps, SweepTypes, NEW n \in PointsOf
    PROVE  LET q == PointAt(n) IN
           /\ Sweep(variant)!Exported(q) \in Sweep(variant)!Content
           /\ Sweep(variant)!ExportedSide \in Sweep(variant)!Sidecar
           /\ art[Fp32Of(n)] # Nothing /\ side[Fp32Of(n)] # Nothing =>
                  /\ Sweep(variant)!Converted(q) \in Sweep(variant)!Content
                  /\ Sweep(variant)!ConvertedSide(q) \in Sweep(variant)!Sidecar
           /\ art[EvalOf(n)] # Nothing /\ side[EvalOf(n)] # Nothing =>
                  /\ Sweep(variant)!Built(q) \in Sweep(variant)!Engine
                  /\ Sweep(variant)!BuiltSide(q) \in Sweep(variant)!EngineSidecar
           /\ engine[EngineOf(n)] # Nothing /\ side[EvalOf(n)] # Nothing =>
                  Sweep(variant)!Evaluated(q) \in Sweep(variant)!Accuracy
           /\ engine[BuildOf(n)] # Nothing => Sweep(variant)!Measured(q) \in Sweep(variant)!Latency
<1> DEFINE q == PointAt(n)
           Content == Sweep(variant)!Content
           Sidecar == Sweep(variant)!Sidecar
           Engine == Sweep(variant)!Engine
<1>1. /\ world.checkpoint \in {0, 1} /\ world.ann \in {0, 1} /\ world.images \in {0, 1}
      /\ world.iters \in {0, 1}
  BY DEF SweepTypes, Sweep!Field
<1>2. /\ q.graph \in {PointAt(m).graph : m \in PointsOf} /\ q.mode \in {"enqueue", "graph"}
      /\ q.profile \in STRING
  BY SweepConstants
<1>3. /\ Content = [checkpoint : {0, 1}, graph : {PointAt(m).graph : m \in PointsOf},
                    precision : {"fp32", "slim"}]
      /\ Sidecar = [checkpoint : {0, 1}, source : Content \cup {Nothing}]
      /\ Engine = [onnx : Content, profile : STRING, mode : {"enqueue", "graph"}]
      /\ Sweep(variant)!EngineSidecar = [checkpoint : {0, 1}, onnx : Content]
      /\ Sweep(variant)!Accuracy =
             [engine : Engine, checkpoint : {0, 1}, ann : {0, 1}, images : {0, 1}]
      /\ Sweep(variant)!Latency = [engine : Engine, iters : {0, 1}]
  BY PointKeys DEF Sweep!Content, Sweep!Sidecar, Sweep!Engine, Sweep!EngineSidecar, Sweep!Accuracy,
                   Sweep!Latency, Sweep!Index, PointAt, PointsOf
<1>4. /\ art[Fp32Of(n)] \in Content \cup {Nothing} /\ side[Fp32Of(n)] \in Sidecar \cup {Nothing}
      /\ art[EvalOf(n)] \in Content \cup {Nothing} /\ side[EvalOf(n)] \in Sidecar \cup {Nothing}
      /\ engine[BuildOf(n)] \in Engine \cup {Nothing} /\ engine[EngineOf(n)] \in Engine \cup {Nothing}
  <2>1. EngineOf(n) \in Sweep(variant)!Builds
    BY EngineServes, KeysOfPoints DEF EnginesServe
  <2> QED BY <2>1, KeysOfPoints DEF SweepTypes
<1> HIDE DEF Content, Sidecar, Engine, q
<1>5. Sweep(variant)!Exported(q) \in Content /\ Sweep(variant)!ExportedSide \in Sidecar
  BY <1>1, <1>2, <1>3 DEF Sweep!Exported, Sweep!ExportedSide
<1>6. art[Fp32Of(n)] # Nothing /\ side[Fp32Of(n)] # Nothing =>
          Sweep(variant)!Converted(q) \in Content /\ Sweep(variant)!ConvertedSide(q) \in Sidecar
  BY <1>3, <1>4, PointKeys DEF Sweep!Converted, Sweep!ConvertedSide, q
<1>7. art[EvalOf(n)] # Nothing /\ side[EvalOf(n)] # Nothing =>
          Sweep(variant)!Built(q) \in Engine /\ Sweep(variant)!BuiltSide(q) \in Sweep(variant)!EngineSidecar
  BY <1>2, <1>3, <1>4, PointKeys DEF Sweep!Built, Sweep!BuiltSide, q
<1>8. engine[EngineOf(n)] # Nothing /\ side[EvalOf(n)] # Nothing =>
          Sweep(variant)!Evaluated(q) \in Sweep(variant)!Accuracy
  BY <1>1, <1>3, <1>4, PointKeys DEF Sweep!Evaluated, EngineOf, q
<1>9. engine[BuildOf(n)] # Nothing => Sweep(variant)!Measured(q) \in Sweep(variant)!Latency
  BY <1>1, <1>3, <1>4, PointKeys DEF Sweep!Measured, q
<1> QED BY <1>5, <1>6, <1>7, <1>8, <1>9 DEF q, Content, Sidecar, Engine

\* A tool runs: its unit is due, and it writes.
ToolRuns ==
    /\ Sweep(variant)!Due(PointAt(at)) /\ ~ Sweep(variant)!Refuses(PointAt(at))
    /\ Sweep(variant)!WriteArtifact(PointAt(at)) /\ Sweep(variant)!WriteSidecar(PointAt(at))
    /\ Sweep(variant)!WriteReport(PointAt(at)) /\ Sweep(variant)!Noted(PointAt(at))
    /\ UNCHANGED <<world, start, failures>>
Reaching(f, n) == Done(f, n) \/ (f = phase /\ n = at)

LEMMA RunExport ==
    ASSUME variant \in DOMAIN Sweeps, phase = 1, at \in PointsOf, SweepTypes, Positions, Reached, ToolRuns
    PROVE  /\ SweepTypes'
           /\ \A n \in PointsOf, f \in 1 .. 6 : Reaching(f, n) => Unit(f, n)'
<1> DEFINE q == PointAt(at)
           e == Fp32Of(at)
<1>1. /\ art' = [art EXCEPT ![e] = Sweep(variant)!Exported(q)]
      /\ side' = [side EXCEPT ![e] = Sweep(variant)!ExportedSide]
      /\ UNCHANGED <<engine, engineSide, accuracy, chain, latency, chained, failures, world, start>>
  BY ExportPlan, Zenon DEF ToolRuns
<1>2. /\ Sweep(variant)!Exported(q) \in Sweep(variant)!Content
      /\ Sweep(variant)!ExportedSide \in Sweep(variant)!Sidecar
      /\ e \in Sweep(variant)!GraphFiles
  BY ToolsWrite, KeysOfPoints
<1>3. SweepTypes'
  <2>1. /\ Sweep(variant)!GraphFiles' = Sweep(variant)!GraphFiles
        /\ Sweep(variant)!Builds' = Sweep(variant)!Builds
        /\ Sweep(variant)!Content' = Sweep(variant)!Content
    BY DEF Sweep!GraphFiles
  <2> QED BY <1>1, <1>2, <2>1 DEF SweepTypes
<1>4. ASSUME NEW n \in PointsOf, NEW f \in 1 .. 6, Reaching(f, n) PROVE Unit(f, n)'
  <2>1. f = 1 /\ table = Nothing BY <1>4 DEF Reaching, Done, Positions
  <2>2. CASE Fp32Of(n) = e
    <3>1. art'[e] # Nothing /\ side'[e] # Nothing /\ side'[e].checkpoint = world.checkpoint
      BY <1>1, <1>2, SweepConstants DEF SweepTypes, Sweep!ExportedSide
    <3>2. Quiet => world.checkpoint = start.checkpoint BY DEF Positions
    <3> QED BY <1>1, <2>1, <2>2, <3>1, <3>2 DEF Unit, ExportedUnit, Fp32Of, PointAt, Quiet
  <2>3. CASE Fp32Of(n) # e
    <3>1. art'[Fp32Of(n)] = art[Fp32Of(n)] /\ side'[Fp32Of(n)] = side[Fp32Of(n)]
      BY <1>1, <2>3, KeysOfPoints DEF SweepTypes
    <3>2. ExportedUnit(n)
      <4>1. n # at BY <2>3
      <4>2. Done(1, n) BY <1>4, <2>1, <4>1 DEF Reaching
      <4> QED BY <4>2 DEF Reached, Unit
    <3> QED
      BY <1>1, <2>1, <3>1, <3>2 DEF Unit, ExportedUnit, Fp32Of, PointAt, Quiet, Marked, GraphOf
  <2> QED BY <2>2, <2>3
<1> QED BY <1>3, <1>4

\* What a tool needs is there when its unit is due.
LEMMA ConvertIsDue ==
    ASSUME variant \in DOMAIN Sweeps, phase = 2, at \in PointsOf, SweepTypes, Reached,
           Sweep(variant)!Due(PointAt(at))
    PROVE  /\ ~ Marked("graph", GraphOf(at)) /\ PointAt(at).precision # "fp32"
           /\ Sweep(variant)!Converted(PointAt(at)) \in Sweep(variant)!Content
           /\ Sweep(variant)!ConvertedSide(PointAt(at)) \in Sweep(variant)!Sidecar
<1>1. ~ Marked("graph", GraphOf(at)) /\ PointAt(at).precision # "fp32"
  BY ConvertPlan DEF Sweep!Due, Marked
<1>2. Done(1, at) BY DEF Done
<1>3. ExportedUnit(at) BY <1>2 DEF Reached, Unit
<1>4. art[Fp32Of(at)] # Nothing /\ side[Fp32Of(at)] # Nothing
  BY <1>1, <1>3 DEF ExportedUnit
<1> QED BY <1>1, <1>4, ToolsWrite

LEMMA BuildIsDue ==
    ASSUME variant \in DOMAIN Sweeps, phase = 3, at \in PointsOf, SweepTypes, Reached,
           Sweep(variant)!Due(PointAt(at))
    PROVE  /\ ~ Marked("eval", EvalOf(at))
           /\ Sweep(variant)!Built(PointAt(at)) \in Sweep(variant)!Engine
           /\ Sweep(variant)!BuiltSide(PointAt(at)) \in Sweep(variant)!EngineSidecar
<1>1. ~ Marked("eval", EvalOf(at)) BY BuildPlan DEF Sweep!Due, Marked
<1>2. Done(2, at) BY DEF Done
<1>3. ConvertedUnit(at) BY <1>2 DEF Reached, Unit
<1>4. art[EvalOf(at)] # Nothing /\ side[EvalOf(at)] # Nothing
  BY <1>1, <1>3 DEF ConvertedUnit
<1> QED BY <1>1, <1>4, ToolsWrite

LEMMA RunConvert ==
    ASSUME variant \in DOMAIN Sweeps, phase = 2, at \in PointsOf, SweepTypes, Positions, Reached, ToolRuns
    PROVE  /\ SweepTypes'
           /\ \A n \in PointsOf, f \in 1 .. 6 : Reaching(f, n) => Unit(f, n)'
<1> DEFINE q == PointAt(at)
           e == EvalOf(at)
<1>1. /\ art' = [art EXCEPT ![e] = Sweep(variant)!Converted(q)]
      /\ side' = [side EXCEPT ![e] = Sweep(variant)!ConvertedSide(q)]
      /\ UNCHANGED <<engine, engineSide, accuracy, chain, latency, chained, failures, world, start>>
  BY ConvertPlan, Zenon DEF ToolRuns
<1>2. ~ Marked("graph", GraphOf(at)) /\ q.precision # "fp32"
  BY ConvertIsDue DEF ToolRuns
<1>3. /\ Sweep(variant)!Converted(q) \in Sweep(variant)!Content
      /\ Sweep(variant)!ConvertedSide(q) \in Sweep(variant)!Sidecar
      /\ e \in Sweep(variant)!GraphFiles
  BY ConvertIsDue, KeysOfPoints DEF ToolRuns
<1>4. SweepTypes'
  <2>1. /\ Sweep(variant)!GraphFiles' = Sweep(variant)!GraphFiles
        /\ Sweep(variant)!Builds' = Sweep(variant)!Builds
        /\ Sweep(variant)!Content' = Sweep(variant)!Content
    BY DEF Sweep!GraphFiles
  <2> QED BY <1>1, <1>3, <2>1 DEF SweepTypes
<1>5. \A n \in PointsOf : art'[Fp32Of(n)] = art[Fp32Of(n)] /\ side'[Fp32Of(n)] = side[Fp32Of(n)]
  <2> TAKE n \in PointsOf
  <2>1. Fp32Of(n) # e BY <1>2, SameKeys
  <2> QED BY <1>1, <2>1, KeysOfPoints DEF SweepTypes
<1>6. ASSUME NEW n \in PointsOf, NEW f \in 1 .. 6, Reaching(f, n) PROVE Unit(f, n)'
  <2>1. f \in {1, 2} /\ table = Nothing
    BY <1>6 DEF Reaching, Done, Positions
  <2>2. CASE f = 1
    <3>1. ExportedUnit(n) BY <1>6, <2>2 DEF Reaching, Reached, Unit
    <3> QED
      BY <1>1, <1>5, <2>2, <3>1 DEF Unit, ExportedUnit, Fp32Of, PointAt, Quiet, Marked, GraphOf
  <2>3. CASE f = 2 /\ EvalOf(n) = e
    <3>1. art'[e] # Nothing /\ side'[e] # Nothing /\ side'[e].source = art[Fp32Of(at)]
      BY <1>1, <1>3, SweepConstants, PointKeys DEF SweepTypes, Sweep!ConvertedSide
    <3>2. Fp32Of(n) = Fp32Of(at) BY <2>3, SameKeys
    <3>3. art'[Fp32Of(n)] = art[Fp32Of(at)] BY <1>5, <3>2
    <3> QED BY <1>1, <2>3, <3>1, <3>3 DEF Unit, ConvertedUnit, Fp32Of, EvalOf, PointAt
  <2>4. CASE f = 2 /\ EvalOf(n) # e
    <3>1. art'[EvalOf(n)] = art[EvalOf(n)] /\ side'[EvalOf(n)] = side[EvalOf(n)]
      BY <1>1, <2>4, KeysOfPoints DEF SweepTypes
    <3>2. ConvertedUnit(n)
      <4>1. n # at BY <2>4
      <4>2. Done(2, n) BY <1>6, <2>4, <4>1 DEF Reaching
      <4> QED BY <4>2 DEF Reached, Unit
    <3> QED BY <1>1, <1>5, <2>4, <3>1, <3>2 DEF Unit, ConvertedUnit, Fp32Of, EvalOf, PointAt, Marked
  <2> QED BY <2>1, <2>2, <2>3, <2>4
<1> QED BY <1>4, <1>6

LEMMA RunBuild ==
    ASSUME variant \in DOMAIN Sweeps, phase = 3, at \in PointsOf, SweepTypes, Positions, Reached, ToolRuns
    PROVE  /\ SweepTypes'
           /\ \A n \in PointsOf, f \in 1 .. 6 : Reaching(f, n) => Unit(f, n)'
<1> DEFINE q == PointAt(at)
           e == BuildOf(at)
<1>1. /\ engine' = [engine EXCEPT ![e] = Sweep(variant)!Built(q)]
      /\ engineSide' = [engineSide EXCEPT ![e] = Sweep(variant)!BuiltSide(q)]
      /\ UNCHANGED <<art, side, accuracy, chain, latency, chained, failures, world, start>>
  BY BuildPlan, Zenon DEF ToolRuns
<1>3. /\ Sweep(variant)!Built(q) \in Sweep(variant)!Engine
      /\ Sweep(variant)!BuiltSide(q) \in Sweep(variant)!EngineSidecar
      /\ e \in Sweep(variant)!Builds
  BY BuildIsDue, KeysOfPoints DEF ToolRuns
<1>4. SweepTypes'
  <2>1. /\ Sweep(variant)!GraphFiles' = Sweep(variant)!GraphFiles
        /\ Sweep(variant)!Builds' = Sweep(variant)!Builds
        /\ Sweep(variant)!Content' = Sweep(variant)!Content
    BY DEF Sweep!GraphFiles
  <2> QED BY <1>1, <1>3, <2>1 DEF SweepTypes
<1>5. ASSUME NEW n \in PointsOf, NEW f \in 1 .. 6, Reaching(f, n) PROVE Unit(f, n)'
  <2>1. f \in {1, 2, 3} /\ table = Nothing
    BY <1>5 DEF Reaching, Done, Positions
  <2>2. CASE f = 1
    <3>1. ExportedUnit(n) BY <1>5, <2>2 DEF Reaching, Reached, Unit
    <3> QED BY <1>1, <2>2, <3>1 DEF Unit, ExportedUnit, Fp32Of, PointAt, Quiet, Marked, GraphOf
  <2>3. CASE f = 2
    <3>1. ConvertedUnit(n) BY <1>5, <2>3 DEF Reaching, Reached, Unit
    <3> QED BY <1>1, <2>3, <3>1 DEF Unit, ConvertedUnit, Fp32Of, EvalOf, PointAt, Marked
  <2>4. CASE f = 3 /\ BuildOf(n) = e
    <3>1. engine'[e] # Nothing /\ engineSide'[e] # Nothing /\ engineSide'[e].onnx = art[EvalOf(at)]
      BY <1>1, <1>3, SweepConstants, PointKeys DEF SweepTypes, Sweep!BuiltSide
    <3>2. EvalOf(n) = EvalOf(at) BY <2>4, SameKeys
    <3>3. art'[EvalOf(n)] = art[EvalOf(at)] BY <1>1, <3>2
    <3> QED BY <1>1, <2>4, <3>1, <3>3 DEF Unit, BuiltUnit, BuildOf, EvalOf, PointAt
  <2>5. CASE f = 3 /\ BuildOf(n) # e
    <3>1. engine'[BuildOf(n)] = engine[BuildOf(n)] /\ engineSide'[BuildOf(n)] = engineSide[BuildOf(n)]
      BY <1>1, <2>5, KeysOfPoints DEF SweepTypes
    <3>2. BuiltUnit(n)
      <4>1. n # at BY <2>5
      <4>2. Done(3, n) BY <1>5, <2>5, <4>1 DEF Reaching
      <4> QED BY <4>2 DEF Reached, Unit
    <3> QED BY <1>1, <2>5, <3>1, <3>2 DEF Unit, BuiltUnit, BuildOf, EvalOf, PointAt, Marked
  <2> QED BY <2>1, <2>2, <2>3, <2>4, <2>5
<1> QED BY <1>4, <1>5

\* The reports do not touch the artifacts.
LEMMA ArtifactsStay ==
    ASSUME variant \in DOMAIN Sweeps, NEW n \in PointsOf, NEW f \in 1 .. 3, Unit(f, n),
           UNCHANGED <<art, side, engine, engineSide, failures, start>>
    PROVE  Unit(f, n)'
<1>1. f = 1 => ExportedUnit(n)'
  BY DEF Unit, ExportedUnit, Marked, GraphOf, Fp32Of, PointAt, Quiet
<1>2. f = 2 => ConvertedUnit(n)'
  BY DEF Unit, ConvertedUnit, Marked, EvalOf, Fp32Of, PointAt
<1>3. f = 3 => BuiltUnit(n)'
  BY DEF Unit, BuiltUnit, Marked, EvalOf, BuildOf, PointAt
<1> QED BY <1>1, <1>2, <1>3 DEF Unit

LEMMA AccuracyStays ==
    ASSUME variant \in DOMAIN Sweeps, NEW n \in PointsOf, EvaluatedUnit(n),
           UNCHANGED <<engine, failures, start>>, accuracy'[EvalOf(n)] = accuracy[EvalOf(n)]
    PROVE  EvaluatedUnit(n)'
<1>1. EngineOf(n)' = EngineOf(n)
  BY EngineStays DEF Marked, BuildOf, PointAt
<1> QED BY <1>1 DEF EvaluatedUnit, Marked, EvalOf, PointAt, Quiet

LEMMA RunEval ==
    ASSUME variant \in DOMAIN Sweeps, phase = 4, at \in PointsOf, SweepTypes, Positions, Reached, ToolRuns
    PROVE  /\ SweepTypes'
           /\ \A n \in PointsOf, f \in 1 .. 6 : Reaching(f, n) => Unit(f, n)'
<1> DEFINE q == PointAt(at)
           e == EvalOf(at)
<1>1. /\ accuracy' = [accuracy EXCEPT ![e] = Sweep(variant)!Evaluated(q)]
      /\ UNCHANGED <<art, side, engine, engineSide, chain, latency, chained, failures, world, start>>
  BY EvalPlan, Zenon DEF ToolRuns
<1>2. ~ <<"build", EngineOf(at)>> \in failures /\ ~ Marked("eval", e)
  BY EvalPlan DEF ToolRuns, Sweep!Due, Marked
<1>3. Sweep(variant)!Evaluated(q) \in Sweep(variant)!Accuracy /\ e \in Sweep(variant)!GraphFiles
  <2>1. PICK m \in PointsOf : EvalOf(m) = EvalOf(at) /\ EngineOf(at) = BuildOf(m)
    BY EngineServes DEF EnginesServe, Serves
  <2>2. Done(2, at) /\ Done(3, m) BY DEF Done
  <2>3. ConvertedUnit(at) /\ BuiltUnit(m) BY <2>2 DEF Reached, Unit
  <2>4. engine[EngineOf(at)] # Nothing /\ side[EvalOf(at)] # Nothing
    BY <1>2, <2>1, <2>3 DEF BuiltUnit, ConvertedUnit, Marked
  <2> QED BY <2>4, ToolsWrite, KeysOfPoints
<1>4. SweepTypes'
  <2>1. /\ Sweep(variant)!GraphFiles' = Sweep(variant)!GraphFiles
        /\ Sweep(variant)!Builds' = Sweep(variant)!Builds
        /\ Sweep(variant)!Content' = Sweep(variant)!Content
    BY DEF Sweep!GraphFiles
  <2> QED BY <1>1, <1>3, <2>1 DEF SweepTypes
<1>5. ASSUME NEW n \in PointsOf, NEW f \in 1 .. 6, Reaching(f, n) PROVE Unit(f, n)'
  <2>1. f \in 1 .. 4 /\ table = Nothing
    BY <1>5 DEF Reaching, Done, Positions
  <2>2. CASE f \in 1 .. 3
    <3>1. Unit(f, n) BY <1>5, <2>2 DEF Reaching, Reached
    <3> QED BY <1>1, <2>2, <3>1, ArtifactsStay
  <2>3. CASE f = 4 /\ EvalOf(n) = e
    <3>1. /\ accuracy'[e] # Nothing /\ accuracy'[e].engine = engine[EngineOf(at)]
          /\ accuracy'[e].ann = world.ann
      BY <1>1, <1>3, SweepConstants, PointKeys DEF SweepTypes, Sweep!Evaluated, EngineOf
    <3>2. Quiet => world.ann = start.ann BY DEF Positions
    <3>3. EngineOf(n) = EngineOf(at) BY <2>3, SameUnit
    <3>4. EngineOf(n)' = EngineOf(n)
      BY <1>1, EngineStays DEF Marked, BuildOf, PointAt
    <3> QED
      BY <1>1, <1>2, <2>3, <3>1, <3>2, <3>3, <3>4 DEF Unit, EvaluatedUnit, EvalOf, PointAt, Quiet
  <2>4. CASE f = 4 /\ EvalOf(n) # e
    <3>1. accuracy'[EvalOf(n)] = accuracy[EvalOf(n)]
      BY <1>1, <2>4, KeysOfPoints DEF SweepTypes
    <3>2. EvaluatedUnit(n)
      <4>1. n # at BY <2>4
      <4>2. Done(4, n) BY <1>5, <2>4, <4>1 DEF Reaching
      <4> QED BY <4>2 DEF Reached, Unit
    <3>3. EvaluatedUnit(n)' BY <1>1, <3>1, <3>2, AccuracyStays
    <3> QED BY <2>4, <3>3 DEF Unit
  <2> QED BY <2>1, <2>2, <2>3, <2>4
<1> QED BY <1>4, <1>5

LEMMA RunChain ==
    ASSUME variant \in DOMAIN Sweeps, phase = 5, at \in PointsOf, SweepTypes, Positions, Reached, ToolRuns
    PROVE  /\ SweepTypes'
           /\ \A n \in PointsOf, f \in 1 .. 6 : Reaching(f, n) => Unit(f, n)'
<1> DEFINE e == EvalOf(at)
           c == [base |-> accuracy[EvalOf(1)], of |-> accuracy[EvalOf(at)]]
<1>1. /\ chain' = [chain EXCEPT ![e] = c] /\ chained' = chained \cup {e}
      /\ UNCHANGED <<art, side, engine, engineSide, accuracy, latency, failures, world, start>>
  BY ChainPlan, Zenon DEF ToolRuns
<1> HIDE DEF c
<1>2. e \in Sweep(variant)!GraphFiles BY KeysOfPoints
<1>3. SweepTypes'
  <2>1. /\ Sweep(variant)!GraphFiles' = Sweep(variant)!GraphFiles
        /\ Sweep(variant)!Builds' = Sweep(variant)!Builds
        /\ Sweep(variant)!Content' = Sweep(variant)!Content
    BY DEF Sweep!GraphFiles
  <2>2. chain' = [z \in Sweep(variant)!GraphFiles |-> chain'[z]]
    BY <1>1 DEF SweepTypes
  <2> QED BY <1>1, <1>2, <2>1, <2>2 DEF SweepTypes
<1>4. ASSUME NEW n \in PointsOf, NEW f \in 1 .. 6, Reaching(f, n) PROVE Unit(f, n)'
  <2>1. f \in 1 .. 5 /\ table = Nothing
    BY <1>4 DEF Reaching, Done, Positions
  <2>2. CASE f \in 1 .. 3
    <3>1. Unit(f, n) BY <1>4, <2>2 DEF Reaching, Reached
    <3> QED BY <1>1, <2>2, <3>1, ArtifactsStay
  <2>3. CASE f = 4
    <3>1. EvaluatedUnit(n) BY <1>4, <2>3 DEF Reaching, Reached, Unit
    <3>2. EvaluatedUnit(n)' BY <1>1, <3>1, AccuracyStays
    <3> QED BY <2>3, <3>2 DEF Unit
  <2>4. CASE f = 5 /\ EvalOf(n) = e
    <3>1. chain'[e] = c /\ e \in chained' BY <1>1, <1>2 DEF SweepTypes
    <3>2. c = [base |-> accuracy[EvalOf(1)], of |-> accuracy[EvalOf(n)]]
      BY <2>4 DEF c
    <3> QED BY <1>1, <2>4, <3>1, <3>2 DEF Unit, ComparedUnit, EvalOf, PointAt, Marked
  <2>5. CASE f = 5 /\ EvalOf(n) # e
    <3>1. chain'[EvalOf(n)] = chain[EvalOf(n)] /\ (EvalOf(n) \in chained => EvalOf(n) \in chained')
      BY <1>1, <2>5, KeysOfPoints DEF SweepTypes
    <3>2. ComparedUnit(n)
      <4>1. n # at BY <2>5
      <4>2. Done(5, n) BY <1>4, <2>5, <4>1 DEF Reaching
      <4> QED BY <4>2 DEF Reached, Unit
    <3> QED BY <1>1, <2>5, <3>1, <3>2 DEF Unit, ComparedUnit, EvalOf, PointAt, Marked
  <2> QED BY <2>1, <2>2, <2>3, <2>4, <2>5
<1> QED BY <1>3, <1>4

LEMMA RunBench ==
    ASSUME variant \in DOMAIN Sweeps, phase = 6, at \in PointsOf, SweepTypes, Positions, Reached, ToolRuns
    PROVE  /\ SweepTypes'
           /\ \A n \in PointsOf, f \in 1 .. 6 : Reaching(f, n) => Unit(f, n)'
<1> DEFINE q == PointAt(at)
           e == BuildOf(at)
<1>1. /\ latency' = [latency EXCEPT ![e] = Sweep(variant)!Measured(q)]
      /\ UNCHANGED <<art, side, engine, engineSide, accuracy, chain, chained, failures, world, start>>
  BY BenchPlan, Zenon DEF ToolRuns
<1>2. ~ Marked("build", e) BY BenchPlan DEF ToolRuns, Sweep!Due, Marked
<1>3. Sweep(variant)!Measured(q) \in Sweep(variant)!Latency /\ e \in Sweep(variant)!Builds
  <2>1. Done(3, at) BY DEF Done
  <2>2. BuiltUnit(at) BY <2>1 DEF Reached, Unit
  <2>3. engine[e] # Nothing BY <1>2, <2>2 DEF BuiltUnit
  <2> QED BY <2>3, ToolsWrite, KeysOfPoints
<1>4. SweepTypes'
  <2>1. /\ Sweep(variant)!GraphFiles' = Sweep(variant)!GraphFiles
        /\ Sweep(variant)!Builds' = Sweep(variant)!Builds
        /\ Sweep(variant)!Content' = Sweep(variant)!Content
    BY DEF Sweep!GraphFiles
  <2> QED BY <1>1, <1>3, <2>1 DEF SweepTypes
<1>5. ASSUME NEW n \in PointsOf, NEW f \in 1 .. 6, Reaching(f, n) PROVE Unit(f, n)'
  <2>1. f \in 1 .. 6 /\ table = Nothing
    BY <1>5 DEF Reaching, Done, Positions
  <2>2. CASE f \in 1 .. 3
    <3>1. Unit(f, n) BY <1>5, <2>2 DEF Reaching, Reached
    <3> QED BY <1>1, <2>2, <3>1, ArtifactsStay
  <2>3. CASE f = 4
    <3>1. EvaluatedUnit(n) BY <1>5, <2>3 DEF Reaching, Reached, Unit
    <3>2. EvaluatedUnit(n)' BY <1>1, <3>1, AccuracyStays
    <3> QED BY <2>3, <3>2 DEF Unit
  <2>4. CASE f = 5
    <3>1. ComparedUnit(n) BY <1>5, <2>4 DEF Reaching, Reached, Unit
    <3> QED BY <1>1, <2>4, <3>1 DEF Unit, ComparedUnit, EvalOf, PointAt, Marked
  <2>5. CASE f = 6 /\ BuildOf(n) = e
    <3>1. latency'[e] # Nothing /\ latency'[e].engine = engine[e]
      BY <1>1, <1>3, SweepConstants, PointKeys DEF SweepTypes, Sweep!Measured
    <3> QED BY <1>1, <2>5, <3>1 DEF Unit, MeasuredUnit, BuildOf, PointAt
  <2>6. CASE f = 6 /\ BuildOf(n) # e
    <3>1. latency'[BuildOf(n)] = latency[BuildOf(n)]
      BY <1>1, <2>6, KeysOfPoints DEF SweepTypes
    <3>2. MeasuredUnit(n)
      <4>1. n # at BY <2>6
      <4>2. Done(6, n) BY <1>5, <2>6, <4>1 DEF Reaching
      <4> QED BY <4>2 DEF Reached, Unit
    <3> QED BY <1>1, <2>6, <3>1, <3>2 DEF Unit, MeasuredUnit, BuildOf, PointAt, Marked
  <2> QED BY <2>1, <2>2, <2>3, <2>4, <2>5, <2>6
<1> QED BY <1>4, <1>5

LEMMA UnitsMove ==
    ASSUME variant \in DOMAIN Sweeps, SweepTypes, Positions, Reached, UnitStep
    PROVE  SweepTypes' /\ Positions' /\ Reached'
<1> DEFINE q == PointAt(at)
           key == Sweep(variant)!Key(q)
<1>1. phase \in 1 .. 6 /\ at \in PointsOf /\ table = Nothing
      /\ UNCHANGED <<world, start, table, crashes>>
  BY UnitForms DEF Positions
<1>2. SweepTypes' /\ \A n \in PointsOf, f \in 1 .. 6 : Reaching(f, n) => Unit(f, n)'
  <2>1. ASSUME KeepsDisk, failures \subseteq failures', chained \subseteq chained',
               chained' \subseteq chained \cup {EvalOf(at)}, failures' \subseteq failures \cup {key}
        PROVE  /\ SweepTypes'
               /\ \A n \in PointsOf, f \in 1 .. 6 : Done(f, n) => Unit(f, n)'
               /\ Unit(phase, at) => \A n \in PointsOf : n = at => \A f \in 1 .. 6 : f = phase => Unit(f, n)'
    <3>1. SweepTypes'
      <4>1. /\ Sweep(variant)!GraphFiles' = Sweep(variant)!GraphFiles
            /\ Sweep(variant)!Builds' = Sweep(variant)!Builds
            /\ Sweep(variant)!Content' = Sweep(variant)!Content
        BY DEF Sweep!GraphFiles
      <4>2. EvalOf(at) \in Sweep(variant)!GraphFiles
        BY <1>1, KeysOfPoints
      <4> QED BY <1>1, <2>1, <4>1, <4>2 DEF SweepTypes, KeepsDisk
    <3>2. phase \in 4 .. 6 =>
              \A m \in PointsOf : Marked("build", BuildOf(m))' <=> Marked("build", BuildOf(m))
      <4>1. phase \in 4 .. 6 => key[1] # "build"
        BY EvalPlan, ChainPlan, BenchPlan
      <4> QED BY <2>1, <4>1 DEF Marked, BuildOf, PointAt
    <3>3. ASSUME NEW n \in PointsOf, NEW f \in 1 .. 6, Done(f, n) PROVE Unit(f, n)'
      <4>1. Unit(f, n) BY <3>3 DEF Reached
      <4>2. f <= phase BY <1>1, <3>3 DEF Done
      <4> QED BY <1>1, <2>1, <3>2, <4>1, <4>2, UnitStays
    <3>4. ASSUME Unit(phase, at), NEW n \in PointsOf, n = at, NEW f \in 1 .. 6, f = phase
          PROVE  Unit(f, n)'
      <4>1. Unit(f, n) BY <3>4
      <4> QED BY <1>1, <2>1, <3>2, <3>4, <4>1, UnitStays
    <3> QED BY <3>1, <3>3, <3>4
  <2>2. CASE /\ KeepsDisk /\ UNCHANGED <<failures, chained>>
             /\ \/ Sweep(variant)!Passed(q)
                \/ /\ Sweep(variant)!Upstream(q) \cap failures = {}
                   /\ Sweep(variant)!NothingToConvert(q) \/ key \in failures
                \/ Sweep(variant)!Due(q) /\ Sweep(variant)!Cached(q)
    <3>1. Unit(phase, at) BY <1>1, <2>2, SkippedIsThere
    <3> QED BY <2>1, <2>2, <3>1 DEF Reaching
  <2>3. CASE /\ KeepsDisk /\ failures' = failures \cup {key}
             /\ chained \subseteq chained' /\ chained' \subseteq chained \cup {EvalOf(at)}
    <3>1. \A n \in PointsOf : n = at => \A f \in 1 .. 6 : f = phase => Unit(f, n)'
      BY <1>1, <2>3, MarkedIsMarked
    <3> QED BY <2>1, <2>3, <3>1 DEF Reaching
  <2>4. CASE ToolRuns
    BY <1>1, <2>4, RunExport, RunConvert, RunBuild, RunEval, RunChain, RunBench
  <2>5. \/ /\ KeepsDisk /\ UNCHANGED <<failures, chained>>
           /\ \/ Sweep(variant)!Passed(q)
              \/ /\ Sweep(variant)!Upstream(q) \cap failures = {}
                 /\ Sweep(variant)!NothingToConvert(q) \/ key \in failures
              \/ Sweep(variant)!Due(q) /\ Sweep(variant)!Cached(q)
        \/ /\ KeepsDisk /\ failures' = failures \cup {key}
           /\ chained' = chained \/ Sweep(variant)!Noted(q)
        \/ ToolRuns
    BY UnitForms, Zenon DEF ToolRuns
  <2>6. Sweep(variant)!Noted(q) => chained \subseteq chained' /\ chained' \subseteq chained \cup {EvalOf(at)}
    BY <1>1, ExportPlan, ConvertPlan, BuildPlan, EvalPlan, ChainPlan, BenchPlan
  <2> QED BY <2>2, <2>3, <2>4, <2>5, <2>6
<1>3. Sweep(variant)!Next_i \/ (phase' = 0 /\ at' = 1)
  BY UnitForms, Zenon
<1>4. CASE Sweep(variant)!Next_i
  <2>1. /\ phase' \in 1 .. 7 /\ at' \in PointsOf
        /\ \A n \in PointsOf, f \in 1 .. 6 : Done(f, n)' <=> Done(f, n) \/ (f = phase /\ n = at)
    BY <1>1, <1>4, Moves
  <2>2. Reached' BY <1>2, <2>1 DEF Reached, Reaching, PointsOf
  <2>3. Positions' BY <1>1, <2>1 DEF Positions, Quiet, PointsOf
  <2> QED BY <1>2, <2>2, <2>3
<1>5. CASE phase' = 0 /\ at' = 1
  <2>1. \A n \in PointsOf, f \in 1 .. 6 : ~ Done(f, n)'
    BY <1>1, <1>5 DEF Done
  <2>2. Positions'
    BY <1>1, <1>5, SweepConstants DEF Positions, Quiet, PointsOf
  <2> QED BY <1>2, <2>1, <2>2 DEF Reached, PointsOf
<1> QED BY <1>3, <1>4, <1>5

\* Nothing of the sweep that runs, or of its table, is touched.
LEMMA ReachedStays ==
    ASSUME variant \in DOMAIN Sweeps, SweepTypes, Reached, KeepsDisk,
           UNCHANGED <<start, failures, chained>>,
           \A n \in PointsOf, f \in 1 .. 6 : Done(f, n)' => Done(f, n)
    PROVE  Reached'
<1> SUFFICES ASSUME NEW n \in PointsOf, NEW f \in 1 .. 6, Done(f, n)' PROVE Unit(f, n)'
  BY DEF Reached, PointsOf
<1>1. Unit(f, n) BY DEF Reached
<1>2. \A m \in PointsOf : Marked("build", BuildOf(m))' <=> Marked("build", BuildOf(m))
  BY DEF Marked, BuildOf, PointAt
<1> QED BY <1>1, <1>2, UnitStays

LEMMA RowsStay ==
    ASSUME KeepsDisk, UNCHANGED <<failures, chained>>, NEW n
    PROVE  Sweep(variant)!point_row(PointAt(n))' = Sweep(variant)!point_row(PointAt(n))
BY DEF KeepsDisk, PointAt, Sweep!point_row

LEMMA TypesStay ==
    ASSUME SweepTypes, KeepsDisk, UNCHANGED chained,
           world' \in [Sweep(variant)!Field -> {0, 1}], start' \in [Sweep(variant)!Field -> {0, 1}]
    PROVE  SweepTypes'
<1>1. /\ Sweep(variant)!GraphFiles' = Sweep(variant)!GraphFiles
      /\ Sweep(variant)!Builds' = Sweep(variant)!Builds
      /\ Sweep(variant)!Content' = Sweep(variant)!Content
  BY DEF Sweep!GraphFiles
<1> QED BY <1>1 DEF SweepTypes, KeepsDisk

LEMMA ChangeMoves ==
    ASSUME variant \in DOMAIN Sweeps, SweepTypes, Positions, Reached,
           NEW f \in Sweep(variant)!Field, Sweep(variant)!Change(f)
    PROVE  SweepTypes' /\ Positions' /\ Reached'
<1>1. /\ KeepsDisk
      /\ UNCHANGED <<phase, at, start, failures, ran, broke, chained, table, crashes, settled>>
      /\ phase \in Sweeps[variant].change_at
  BY DEF Sweep!Change, Sweep!disk, KeepsDisk
<1>2. world' \in [Sweep(variant)!Field -> {0, 1}]
  BY DEF Sweep!Change, SweepTypes
<1>3. SweepTypes' BY <1>1, <1>2, TypesStay DEF SweepTypes
<1>4. Reached' BY <1>1, ReachedStays DEF Done
<1>5. Quiet => phase = 0 BY <1>1 DEF Quiet
<1>6. table # Nothing => table' = [n \in PointsOf |-> Sweep(variant)!point_row(PointAt(n))']
  BY <1>1, RowsStay DEF Positions
<1>7. Positions' BY <1>1, <1>5, <1>6 DEF Positions, PointsOf, Quiet
<1> QED BY <1>3, <1>4, <1>7

LEMMA BeginMoves ==
    ASSUME variant \in DOMAIN Sweeps, SweepTypes, Positions, Reached, Sweep(variant)!Begin
    PROVE  SweepTypes' /\ Positions' /\ Reached'
<1>1. /\ KeepsDisk /\ UNCHANGED <<world, crashes, settled>> /\ start' = world /\ phase' = 1 /\ at' = 1
      /\ table' = Nothing /\ failures' = {} /\ broke' = {} /\ ran' = {} /\ chained' = {}
  BY DEF Sweep!Begin, Sweep!disk, KeepsDisk
<1>2. SweepTypes'
  <2>1. /\ Sweep(variant)!GraphFiles' = Sweep(variant)!GraphFiles
        /\ Sweep(variant)!Builds' = Sweep(variant)!Builds
        /\ Sweep(variant)!Content' = Sweep(variant)!Content
    BY DEF Sweep!GraphFiles
  <2> QED BY <1>1, <2>1 DEF SweepTypes, KeepsDisk
<1>3. \A n \in PointsOf, f \in 1 .. 6 : ~ Done(f, n)'
  BY <1>1, SweepConstants DEF Done
<1>4. Reached' BY <1>3 DEF Reached, PointsOf
<1>5. Positions' BY <1>1, SweepConstants DEF Positions, PointsOf
<1> QED BY <1>2, <1>4, <1>5

LEMMA CrashForms ==
    ASSUME variant \in DOMAIN Sweeps, Sweep(variant)!Crash
    PROVE  /\ phase \in 1 .. 3 /\ at \in PointsOf
           /\ Sweep(variant)!Due(PointAt(at)) /\ Sweep(variant)!WriteArtifact(PointAt(at))
           /\ phase' = 0 /\ at' = 1 /\ settled' = Nothing /\ crashes' = crashes + 1
           /\ UNCHANGED <<world, side, engineSide, accuracy, chain, latency, start, failures, broke,
                          ran, chained, table>>
<1>1. phase \in 1 .. 6 /\ at \in PointsOf
  BY PhaseNames, PointKeys DEF Sweep!Crash, Sweep!AtStep
<1>2. phase \in 1 .. 3 BY <1>1, PhaseNames DEF Sweep!Crash
<1>3. Sweep(variant)!Point_i = PointAt(at) BY DEF Sweep!Point_i, PointAt
<1> QED BY <1>1, <1>2, <1>3, Zenon DEF Sweep!Crash

LEMMA CrashMoves ==
    ASSUME variant \in DOMAIN Sweeps, SweepTypes, Positions, Reached, Sweep(variant)!Crash
    PROVE  SweepTypes' /\ Positions' /\ Reached'
<1> DEFINE q == PointAt(at)
<1>1. /\ phase \in 1 .. 3 /\ at \in PointsOf /\ Sweep(variant)!Due(q)
      /\ Sweep(variant)!WriteArtifact(q) /\ phase' = 0 /\ at' = 1 /\ crashes' = crashes + 1
      /\ UNCHANGED <<world, side, engineSide, accuracy, chain, latency, start, failures, broke, ran,
                     chained, table>>
  BY CrashForms
<1>2. /\ art' \in [Sweep(variant)!GraphFiles -> Sweep(variant)!Content \cup {Nothing}]
      /\ engine' \in [Sweep(variant)!Builds -> Sweep(variant)!Engine \cup {Nothing}]
  <2>1. CASE phase = 1
    <3>1. art' = [art EXCEPT ![Fp32Of(at)] = Sweep(variant)!Exported(q)] /\ engine' = engine
      BY <1>1, <2>1, ExportPlan
    <3>2. Sweep(variant)!Exported(q) \in Sweep(variant)!Content
      BY <1>1, ToolsWrite
    <3> QED BY <3>1, <3>2 DEF SweepTypes
  <2>2. CASE phase = 2
    <3>1. art' = [art EXCEPT ![EvalOf(at)] = Sweep(variant)!Converted(q)] /\ engine' = engine
      BY <1>1, <2>2, ConvertPlan
    <3>2. Sweep(variant)!Converted(q) \in Sweep(variant)!Content
      BY <1>1, <2>2, ConvertIsDue
    <3> QED BY <3>1, <3>2 DEF SweepTypes
  <2>3. CASE phase = 3
    <3>1. engine' = [engine EXCEPT ![BuildOf(at)] = Sweep(variant)!Built(q)] /\ art' = art
      BY <1>1, <2>3, BuildPlan
    <3>2. Sweep(variant)!Built(q) \in Sweep(variant)!Engine
      BY <1>1, <2>3, BuildIsDue
    <3> QED BY <3>1, <3>2 DEF SweepTypes
  <2> QED BY <1>1, <2>1, <2>2, <2>3
<1>3. SweepTypes'
  <2>1. /\ Sweep(variant)!GraphFiles' = Sweep(variant)!GraphFiles
        /\ Sweep(variant)!Builds' = Sweep(variant)!Builds
        /\ Sweep(variant)!Content' = Sweep(variant)!Content
    BY DEF Sweep!GraphFiles
  <2> QED BY <1>1, <1>2, <2>1 DEF SweepTypes
<1>4. table' = Nothing BY <1>1 DEF Positions
<1>5. \A n \in PointsOf, f \in 1 .. 6 : ~ Done(f, n)'
  BY <1>1, <1>4 DEF Done
<1>6. Reached' BY <1>5 DEF Reached, PointsOf
<1>7. Positions' BY <1>1, <1>4, SweepConstants DEF Positions, PointsOf
<1> QED BY <1>3, <1>6, <1>7

LEMMA TableMoves ==
    ASSUME variant \in DOMAIN Sweeps, SweepTypes, Positions, Reached, Sweep(variant)!WriteTable
    PROVE  SweepTypes' /\ Positions' /\ Reached'
<1>1. /\ KeepsDisk /\ UNCHANGED <<world, at, start, failures, chained, crashes>> /\ phase' = 0
      /\ phase = 7 /\ table' = [n \in PointsOf |-> Sweep(variant)!point_row(PointAt(n))]
  BY PhaseNames, PointKeys DEF Sweep!WriteTable, Sweep!disk, Sweep!bounds, KeepsDisk, PointAt
<1>2. SweepTypes' BY <1>1, TypesStay DEF SweepTypes
<1>3. \A n \in PointsOf, f \in 1 .. 6 : Done(f, n) BY <1>1 DEF Done
<1>4. Reached' BY <1>1, <1>3, ReachedStays
<1>5. table' = [n \in PointsOf |-> Sweep(variant)!point_row(PointAt(n))']
  BY <1>1, RowsStay
<1>6. Positions' BY <1>1, <1>5 DEF Positions, PointsOf, Quiet
<1> QED BY <1>2, <1>4, <1>6

\* As long as the machine has not stopped between two renames, a sidecar is of its file, and an
\* AP of the checkpoint its sidecar named.
GraphPair(e) ==
    \/ art[e] = Nothing /\ side[e] = Nothing
    \/ /\ art[e] # Nothing /\ side[e] # Nothing
       /\ art[e] = [checkpoint |-> side[e].checkpoint, graph |-> e[1], precision |-> e[2]]
       /\ e[2] # "fp32" =>
              side[e].source = [checkpoint |-> side[e].checkpoint, graph |-> e[1], precision |-> "fp32"]
EnginePair(m) ==
    \/ engine[m] = Nothing /\ engineSide[m] = Nothing
    \/ /\ engine[m] # Nothing /\ engineSide[m] # Nothing
       /\ engine[m] = [onnx |-> engineSide[m].onnx, profile |-> m[3], mode |-> m[4]]
       /\ engineSide[m].onnx =
              [checkpoint |-> engineSide[m].checkpoint, graph |-> m[1], precision |-> m[2]]
NamedCheckpoint(e) == accuracy[e] # Nothing => accuracy[e].engine.onnx.checkpoint = accuracy[e].checkpoint
PairsMatch ==
    /\ \A e \in Sweep(variant)!GraphFiles : GraphPair(e) /\ NamedCheckpoint(e)
    /\ \A m \in Sweep(variant)!Builds : EnginePair(m)

LEMMA PairsStay ==
    ASSUME variant \in DOMAIN Sweeps, SweepTypes, Positions, Reached, PairsMatch, ToolRuns,
           phase \in 1 .. 6, at \in PointsOf
    PROVE  PairsMatch'
<1> DEFINE q == PointAt(at)
<1>1. /\ Sweep(variant)!GraphFiles' = Sweep(variant)!GraphFiles
      /\ Sweep(variant)!Builds' = Sweep(variant)!Builds
  BY DEF Sweep!GraphFiles
<1>2. Sweep(variant)!Due(q) /\ ~ Sweep(variant)!Refuses(q)
  BY DEF ToolRuns
<1>3. CASE phase = 1
  <2> DEFINE e == Fp32Of(at)
  <2>1. /\ art' = [art EXCEPT ![e] = Sweep(variant)!Exported(q)]
        /\ side' = [side EXCEPT ![e] = Sweep(variant)!ExportedSide]
        /\ UNCHANGED <<engine, engineSide, accuracy>>
    BY <1>3, ExportPlan, Zenon DEF ToolRuns
  <2>2. e \in Sweep(variant)!GraphFiles BY KeysOfPoints
  <2>3. /\ art'[e] = [checkpoint |-> world.checkpoint, graph |-> e[1], precision |-> e[2]]
        /\ side'[e].checkpoint = world.checkpoint /\ e[2] = "fp32"
        /\ art'[e] # Nothing /\ side'[e] # Nothing
    <3>1. art'[e] = Sweep(variant)!Exported(q) /\ side'[e] = Sweep(variant)!ExportedSide
      BY <2>1, <2>2 DEF SweepTypes
    <3>2. /\ Sweep(variant)!Exported(q) \in Sweep(variant)!Content
          /\ Sweep(variant)!ExportedSide \in Sweep(variant)!Sidecar
      BY ToolsWrite
    <3>3. art'[e] # Nothing /\ side'[e] # Nothing
      BY <3>1, <3>2, SweepConstants
    <3>4. e[1] = q.graph /\ e[2] = "fp32" BY DEF Fp32Of
    <3> HIDE DEF e
    <3> QED BY <3>1, <3>3, <3>4 DEF Sweep!Exported, Sweep!ExportedSide
  <2> HIDE DEF e
  <2>4. ASSUME NEW z \in Sweep(variant)!GraphFiles PROVE GraphPair(z)'
    <3>1. CASE z = e BY <2>3, <3>1 DEF GraphPair
    <3>2. CASE z # e BY <2>1, <3>2 DEF GraphPair, PairsMatch, SweepTypes
    <3> QED BY <3>1, <3>2
  <2> QED BY <1>1, <2>1, <2>4 DEF PairsMatch, EnginePair, NamedCheckpoint
<1>4. CASE phase = 2
  <2> DEFINE e == EvalOf(at)
             f == Fp32Of(at)
  <2>1. /\ art' = [art EXCEPT ![e] = Sweep(variant)!Converted(q)]
        /\ side' = [side EXCEPT ![e] = Sweep(variant)!ConvertedSide(q)]
        /\ UNCHANGED <<engine, engineSide, accuracy>>
    BY <1>4, ConvertPlan, Zenon DEF ToolRuns
  <2>2. e \in Sweep(variant)!GraphFiles /\ f \in Sweep(variant)!GraphFiles
    BY KeysOfPoints
  <2>3. ~ Marked("graph", GraphOf(at)) /\ q.precision # "fp32"
        /\ Sweep(variant)!Converted(q) \in Sweep(variant)!Content
        /\ Sweep(variant)!ConvertedSide(q) \in Sweep(variant)!Sidecar
    BY <1>2, <1>4, ConvertIsDue
  <2>4. art[f] = [checkpoint |-> side[f].checkpoint, graph |-> q.graph, precision |-> "fp32"]
    <3>1. Done(1, at) BY <1>4 DEF Done
    <3>2. ExportedUnit(at) BY <3>1 DEF Reached, Unit
    <3>3. art[f] # Nothing BY <2>3, <3>2 DEF ExportedUnit
    <3>4. f[1] = q.graph /\ f[2] = "fp32" BY DEF Fp32Of
    <3> HIDE DEF f
    <3> QED BY <2>2, <3>3, <3>4 DEF PairsMatch, GraphPair
  <2>5. e[1] = q.graph /\ e[2] = q.precision /\ q.precision = "slim"
    BY <2>3, SweepConstants DEF EvalOf
  <2>6. Sweep(variant)!Fp32(q) = f /\ Sweep(variant)!EvalKey(q) = e
    BY PointKeys
  <2> HIDE DEF e, f
  <2>7. /\ art'[e] = [checkpoint |-> side'[e].checkpoint, graph |-> e[1], precision |-> e[2]]
        /\ side'[e].source = [checkpoint |-> side'[e].checkpoint, graph |-> e[1], precision |-> "fp32"]
        /\ art'[e] # Nothing /\ side'[e] # Nothing
    <3>1. art'[e] = Sweep(variant)!Converted(q) /\ side'[e] = Sweep(variant)!ConvertedSide(q)
      BY <2>1, <2>2 DEF SweepTypes
    <3>2. art'[e] # Nothing /\ side'[e] # Nothing
      BY <3>1, <2>3, SweepConstants
    <3> DEFINE c == side[f].checkpoint
    <3>3. side'[e].checkpoint = c /\ side'[e].source = art[f]
      BY <2>6, <3>1 DEF Sweep!ConvertedSide
    <3>4. Sweep(variant)!Converted(q) = [art[f] EXCEPT !.precision = "slim"]
      BY <2>6 DEF Sweep!Converted
    <3>5. art[f] = [checkpoint |-> c, graph |-> q.graph, precision |-> "fp32"]
      BY <2>4
    <3> HIDE DEF c
    <3>6. art'[e] = [checkpoint |-> c, graph |-> q.graph, precision |-> "slim"]
      BY <3>1, <3>4, <3>5
    <3> QED BY <2>5, <3>2, <3>3, <3>5, <3>6
  <2>8. ASSUME NEW z \in Sweep(variant)!GraphFiles PROVE GraphPair(z)'
    <3>1. CASE z = e BY <2>7, <3>1 DEF GraphPair
    <3>2. CASE z # e BY <2>1, <3>2 DEF GraphPair, PairsMatch, SweepTypes
    <3> QED BY <3>1, <3>2
  <2> QED BY <1>1, <2>1, <2>8 DEF PairsMatch, EnginePair, NamedCheckpoint
<1>5. CASE phase = 3
  <2> DEFINE e == EvalOf(at)
             b1 == BuildOf(at)
  <2>1. /\ engine' = [engine EXCEPT ![b1] = Sweep(variant)!Built(q)]
        /\ engineSide' = [engineSide EXCEPT ![b1] = Sweep(variant)!BuiltSide(q)]
        /\ UNCHANGED <<art, side, accuracy>>
    BY <1>5, BuildPlan, Zenon DEF ToolRuns
  <2>2. e \in Sweep(variant)!GraphFiles /\ b1 \in Sweep(variant)!Builds
    BY KeysOfPoints
  <2>3. /\ ~ Marked("eval", EvalOf(at)) /\ Sweep(variant)!Built(q) \in Sweep(variant)!Engine
        /\ Sweep(variant)!BuiltSide(q) \in Sweep(variant)!EngineSidecar
    BY <1>2, <1>5, BuildIsDue
  <2>4. art[e] = [checkpoint |-> side[e].checkpoint, graph |-> q.graph, precision |-> q.precision]
    <3>1. Done(2, at) BY <1>5 DEF Done
    <3>2. ConvertedUnit(at) BY <3>1 DEF Reached, Unit
    <3>3. art[e] # Nothing BY <2>3, <3>2 DEF ConvertedUnit
    <3>4. e[1] = q.graph /\ e[2] = q.precision BY DEF EvalOf
    <3> HIDE DEF e
    <3> QED BY <2>2, <3>3, <3>4 DEF PairsMatch, GraphPair
  <2>5. b1[1] = q.graph /\ b1[2] = q.precision /\ b1[3] = q.profile /\ b1[4] = q.mode
    BY DEF BuildOf
  <2>6. Sweep(variant)!EvalKey(q) = e BY PointKeys
  <2> HIDE DEF e, b1
  <2>7. /\ engine'[b1] # Nothing /\ engineSide'[b1] # Nothing
        /\ engine'[b1] = [onnx |-> engineSide'[b1].onnx, profile |-> b1[3], mode |-> b1[4]]
        /\ engineSide'[b1].onnx =
               [checkpoint |-> engineSide'[b1].checkpoint, graph |-> b1[1], precision |-> b1[2]]
    <3>1. engine'[b1] = Sweep(variant)!Built(q) /\ engineSide'[b1] = Sweep(variant)!BuiltSide(q)
      BY <2>1, <2>2 DEF SweepTypes
    <3>2. engine'[b1] # Nothing /\ engineSide'[b1] # Nothing
      BY <3>1, <2>3, SweepConstants
    <3>3. /\ engine'[b1] = [onnx |-> art[e], profile |-> q.profile, mode |-> q.mode]
          /\ engineSide'[b1] = [checkpoint |-> side[e].checkpoint, onnx |-> art[e]]
      BY <2>6, <3>1 DEF Sweep!Built, Sweep!BuiltSide
    <3>4. engineSide'[b1].onnx = art[e] /\ engineSide'[b1].checkpoint = side[e].checkpoint
      BY <3>3
    <3> QED BY <2>4, <2>5, <3>2, <3>3, <3>4
  <2>8. ASSUME NEW z \in Sweep(variant)!Builds PROVE EnginePair(z)'
    <3>1. CASE z = b1 BY <2>7, <3>1 DEF EnginePair
    <3>2. CASE z # b1
      BY <2>1, <3>2 DEF EnginePair, PairsMatch, SweepTypes
    <3> QED BY <3>1, <3>2
  <2> QED BY <1>1, <2>1, <2>8 DEF PairsMatch, GraphPair, NamedCheckpoint
<1>6. CASE phase = 4
  <2> DEFINE e == EvalOf(at)
             b1 == EngineOf(at)
  <2>1. /\ accuracy' = [accuracy EXCEPT ![e] = Sweep(variant)!Evaluated(q)]
        /\ UNCHANGED <<art, side, engine, engineSide>>
    BY <1>6, EvalPlan, Zenon DEF ToolRuns
  <2>2. e \in Sweep(variant)!GraphFiles /\ b1 \in Sweep(variant)!Builds
    BY KeysOfPoints, EngineServes DEF EnginesServe
  <2>3. engine[b1].onnx.checkpoint = side[e].checkpoint
    <3>1. ~ <<"build", b1>> \in failures /\ ~ Marked("eval", e)
      BY <1>2, <1>6, EvalPlan DEF Sweep!Due, Marked
    <3>2. engineSide[b1].checkpoint = side[e].checkpoint
      BY <1>2, <1>6, EvalPlan
    <3>3. PICK m \in PointsOf : EngineOf(at) = BuildOf(m)
      BY EngineServes DEF EnginesServe
    <3>4. Done(3, m) BY <1>6 DEF Done
    <3>5. BuiltUnit(m) BY <3>4 DEF Reached, Unit
    <3>6. engine[b1] # Nothing BY <3>1, <3>3, <3>5 DEF BuiltUnit, Marked
    <3>7. EnginePair(b1) BY <2>2 DEF PairsMatch
    <3> HIDE DEF e, b1
    <3>8. /\ engine[b1] = [onnx |-> engineSide[b1].onnx, profile |-> b1[3], mode |-> b1[4]]
          /\ engineSide[b1].onnx =
                 [checkpoint |-> engineSide[b1].checkpoint, graph |-> b1[1], precision |-> b1[2]]
      BY <3>6, <3>7 DEF EnginePair
    <3>9. engine[b1].onnx = engineSide[b1].onnx /\ engineSide[b1].onnx.checkpoint = engineSide[b1].checkpoint
      BY <3>8
    <3> QED BY <3>2, <3>9
  <2>4. /\ Sweep(variant)!Evaluated(q).engine = engine[b1]
        /\ Sweep(variant)!Evaluated(q).checkpoint = side[e].checkpoint
    BY PointKeys DEF Sweep!Evaluated, EngineOf
  <2> HIDE DEF e, b1
  <2>5. ASSUME NEW z \in Sweep(variant)!GraphFiles PROVE NamedCheckpoint(z)'
    <3>1. CASE z = e
      <4>1. accuracy'[z] = Sweep(variant)!Evaluated(q)
        BY <2>1, <2>2, <3>1 DEF SweepTypes
      <4> QED BY <2>3, <2>4, <4>1 DEF NamedCheckpoint
    <3>2. CASE z # e
      BY <2>1, <3>2 DEF NamedCheckpoint, PairsMatch, SweepTypes
    <3> QED BY <3>1, <3>2
  <2> QED BY <1>1, <2>1, <2>5 DEF PairsMatch, EnginePair, GraphPair
<1>7. CASE phase = 5 \/ phase = 6
  <2>1. UNCHANGED <<art, side, engine, engineSide, accuracy>>
    BY <1>7, ChainPlan, BenchPlan, SMT DEF ToolRuns
  <2> QED BY <1>1, <2>1 DEF PairsMatch, EnginePair, GraphPair, NamedCheckpoint
<1> QED BY <1>3, <1>4, <1>5, <1>6, <1>7

\* A marked evaluation has its cause.
Caused ==
    \A n \in PointsOf : Marked("eval", EvalOf(n)) =>
        \/ Marked("graph", GraphOf(n))
        \/ \E s \in {"convert", "eval"} : <<s, <<"eval", EvalOf(n)>>>> \in broke
        \/ \A m \in PointsOf : EvalOf(m) = EvalOf(n) => Marked("build", BuildOf(m))

\* Two APs that were compared are of one checkpoint and one dataset.
DeltasAgree ==
    \A e \in chained :
        \/ Marked("chain", e)
        \/ /\ chain[e].base.ann = chain[e].of.ann /\ chain[e].base.images = chain[e].of.images
           /\ chain[e].base.engine.onnx.checkpoint = chain[e].of.engine.onnx.checkpoint

\* An engine its own build made is not refused.
LEMMA NotRefused ==
    ASSUME variant \in DOMAIN Sweeps, phase = 4, at \in PointsOf, SweepTypes, Reached, PairsMatch,
           Sweep(variant)!Due(PointAt(at))
    PROVE  ~ Sweep(variant)!Refuses(PointAt(at))
<1> DEFINE e == EvalOf(at)
           b1 == EngineOf(at)
<1>1. ~ <<"build", b1>> \in failures /\ ~ Marked("eval", e)
  BY EvalPlan DEF Sweep!Due, Marked
<1>2. PICK m \in PointsOf : EvalOf(m) = EvalOf(at) /\ EngineOf(at) = BuildOf(m)
  BY EngineServes DEF EnginesServe, Serves
<1>3. Done(2, at) /\ Done(3, m) BY DEF Done
<1>4. ConvertedUnit(at) /\ BuiltUnit(m) BY <1>3 DEF Reached, Unit
<1>5. art[e] # Nothing /\ engine[b1] # Nothing /\ engineSide[b1].onnx = art[e]
  BY <1>1, <1>2, <1>4 DEF ConvertedUnit, BuiltUnit, Marked
<1>6. GraphPair(e) /\ EnginePair(b1)
  <2>1. e \in Sweep(variant)!GraphFiles /\ b1 \in Sweep(variant)!Builds
    BY <1>2, KeysOfPoints
  <2> QED BY <2>1 DEF PairsMatch
<1>7. ~ Sweep(variant)!Refuses(PointAt(at)) <=>
          engineSide[b1].onnx = art[e] /\ engineSide[b1].checkpoint = side[e].checkpoint
  BY EvalPlan
<1> HIDE DEF e, b1
<1>8. art[e] = [checkpoint |-> side[e].checkpoint, graph |-> e[1], precision |-> e[2]]
  BY <1>5, <1>6 DEF GraphPair
<1>9. engineSide[b1].onnx = [checkpoint |-> engineSide[b1].checkpoint, graph |-> b1[1], precision |-> b1[2]]
  BY <1>5, <1>6 DEF EnginePair
<1>10. art[e].checkpoint = side[e].checkpoint
       /\ engineSide[b1].onnx.checkpoint = engineSide[b1].checkpoint
  BY <1>8, <1>9
<1> QED BY <1>5, <1>7, <1>10

Consistent == crashes = 0 => PairsMatch /\ Caused /\ DeltasAgree

LEMMA CauseStays ==
    ASSUME variant \in DOMAIN Sweeps, SweepTypes, Positions, Reached, PairsMatch, Caused, UnitStep
    PROVE  Caused'
<1> DEFINE q == PointAt(at)
           key == Sweep(variant)!Key(q)
           step == <<Sweep(variant)!Step, key>>
<1>1. phase \in 1 .. 6 /\ at \in PointsOf BY UnitForms
<1>2. failures \subseteq failures' /\ broke \subseteq broke' /\ failures' \subseteq failures \cup {key}
  BY UnitForms
<1>3. key \in failures \/ failures' = failures
      \/ Sweep(variant)!Upstream(q) \cap failures # {}
      \/ (Sweep(variant)!Due(q) /\ Sweep(variant)!Refuses(q))
      \/ (Sweep(variant)!Due(q) /\ step \in broke')
  BY UnitForms
<1> SUFFICES ASSUME NEW n \in PointsOf, <<"eval", EvalOf(n)>> \in failures'
             PROVE  \/ <<"graph", GraphOf(n)>> \in failures'
                    \/ \E s \in {"convert", "eval"} : <<s, <<"eval", EvalOf(n)>>>> \in broke'
                    \/ \A m \in PointsOf : EvalOf(m) = EvalOf(n) => <<"build", BuildOf(m)>> \in failures'
  BY DEF Caused, Marked, PointsOf, EvalOf, GraphOf, BuildOf, PointAt
<1>4. CASE <<"eval", EvalOf(n)>> \in failures
  BY <1>2, <1>4 DEF Caused, Marked
<1>5. CASE <<"eval", EvalOf(n)>> \notin failures
  <2>1. key = <<"eval", EvalOf(n)>> /\ key \notin failures /\ failures' # failures
    BY <1>2, <1>5
  <2>2. (phase = 2 \/ phase = 4) /\ EvalOf(n) = EvalOf(at)
    BY <1>1, <2>1, ExportPlan, ConvertPlan, BuildPlan, EvalPlan, ChainPlan, BenchPlan
  <2>3. GraphOf(n) = GraphOf(at) BY <2>2, SameKeys
  <2>4. CASE phase = 2
    <3>1. ~ Sweep(variant)!Refuses(q) /\ Sweep(variant)!Upstream(q) = {<<"graph", GraphOf(at)>>}
          /\ Sweep(variant)!Step = "convert"
      BY <2>4, ConvertPlan, PhaseNames
    <3> QED BY <1>2, <1>3, <2>1, <2>3, <3>1
  <2>5. CASE phase = 4
    <3>1. Sweep(variant)!Due(q) => ~ Sweep(variant)!Refuses(q)
      BY <1>1, <2>5, NotRefused
    <3>2. Sweep(variant)!Step = "eval" /\ Sweep(variant)!Upstream(q) = {<<"build", EngineOf(at)>>}
      BY <2>5, EvalPlan, PhaseNames
    <3>3. CASE <<"build", EngineOf(at)>> \in failures
      <4>1. PICK m \in PointsOf :
                /\ EngineOf(at) = BuildOf(m)
                /\ Marked("build", BuildOf(m)) =>
                       \A j \in PointsOf : EvalOf(j) = EvalOf(at) => Marked("build", BuildOf(j))
        BY <1>1, ChosenEngine
      <4>2. \A j \in PointsOf : EvalOf(j) = EvalOf(n) => <<"build", BuildOf(j)>> \in failures
        BY <2>2, <3>3, <4>1 DEF Marked
      <4> QED BY <1>2, <4>2
    <3>4. CASE step \in broke' BY <2>1, <3>2, <3>4
    <3> QED BY <1>3, <2>1, <3>1, <3>2, <3>3, <3>4
  <2> QED BY <2>2, <2>4, <2>5
<1> QED BY <1>4, <1>5

LEMMA DeltasStay ==
    ASSUME variant \in DOMAIN Sweeps, SweepTypes, Positions, Reached, PairsMatch, DeltasAgree, UnitStep
    PROVE  DeltasAgree'
<1> DEFINE q == PointAt(at)
           e == EvalOf(at)
<1>1. phase \in 1 .. 6 /\ at \in PointsOf /\ failures \subseteq failures'
  BY UnitForms
<1>2. \/ chained' = chained /\ chain' = chain
      \/ phase = 5 /\ ToolRuns
      \/ /\ phase = 5 /\ chain' = chain /\ chained' = chained \cup {e}
         /\ <<"chain", e>> \in failures'
  <2>1. CASE KeepsDisk /\ chained' = chained BY <2>1 DEF KeepsDisk
  <2>2. CASE KeepsDisk /\ Sweep(variant)!Noted(q) /\ failures' = failures \cup {Sweep(variant)!Key(q)}
    <3>1. CASE phase = 5 BY <2>2, <3>1, ChainPlan DEF KeepsDisk
    <3>2. CASE phase # 5
      BY <1>1, <2>2, <3>2, ExportPlan, ConvertPlan, BuildPlan, EvalPlan, BenchPlan DEF KeepsDisk
    <3> QED BY <3>1, <3>2
  <2>3. CASE ToolRuns
    <3>1. CASE phase # 5
      BY <1>1, <2>3, <3>1, ExportPlan, ConvertPlan, BuildPlan, EvalPlan, BenchPlan DEF ToolRuns
    <3> QED BY <2>3, <3>1
  <2> QED BY <2>1, <2>2, <2>3, UnitForms, Zenon DEF ToolRuns
<1>3. CASE chained' = chained /\ chain' = chain
  BY <1>1, <1>3 DEF DeltasAgree, Marked
<1>4. CASE phase = 5 /\ ToolRuns
  <2> DEFINE l == accuracy[EvalOf(1)]
             r == accuracy[EvalOf(at)]
             c == [base |-> l, of |-> r]
  <2>1. /\ chain' = [chain EXCEPT ![e] = c] /\ chained' = chained \cup {e} /\ failures' = failures
        /\ l.ann = r.ann /\ l.images = r.images /\ l.checkpoint = r.checkpoint
    BY <1>4, ChainPlan, Zenon DEF ToolRuns
  <2>2. 1 \in PointsOf /\ ~ Marked("eval", EvalOf(1)) /\ ~ Marked("eval", EvalOf(at))
    BY <1>4, SweepConstants, ChainPlan DEF ToolRuns, Sweep!Due
  <2>3. Done(4, 1) /\ Done(4, at) BY <1>4 DEF Done
  <2>4. l # Nothing /\ r # Nothing
    <3>1. EvaluatedUnit(1) /\ EvaluatedUnit(at)
      <4>1. Unit(4, 1) /\ Unit(4, at) BY <1>1, <2>2, <2>3 DEF Reached
      <4> QED BY <4>1 DEF Unit
    <3> QED BY <2>2, <3>1 DEF EvaluatedUnit
  <2>5. EvalOf(1) \in Sweep(variant)!GraphFiles /\ e \in Sweep(variant)!GraphFiles
    BY <1>1, <2>2, KeysOfPoints
  <2>6. l.engine.onnx.checkpoint = r.engine.onnx.checkpoint
    BY <2>1, <2>4, <2>5 DEF PairsMatch, NamedCheckpoint
  <2> DEFINE agrees == /\ c.base.ann = c.of.ann /\ c.base.images = c.of.images
                       /\ c.base.engine.onnx.checkpoint = c.of.engine.onnx.checkpoint
  <2>7. agrees BY <2>1, <2>6
  <2> HIDE DEF c, e
  <2>8. ASSUME NEW z \in chained'
        PROVE  \/ <<"chain", z>> \in failures'
               \/ /\ chain'[z].base.ann = chain'[z].of.ann /\ chain'[z].base.images = chain'[z].of.images
                  /\ chain'[z].base.engine.onnx.checkpoint = chain'[z].of.engine.onnx.checkpoint
    <3>1. CASE z = e
      <4>1. chain'[z] = c BY <2>1, <2>5, <3>1 DEF SweepTypes
      <4> QED BY <2>7, <4>1
    <3>2. CASE z # e
      <4>1. z \in chained /\ chain'[z] = chain[z]
        BY <2>1, <2>5, <2>8, <3>2 DEF SweepTypes
      <4> QED BY <2>1, <4>1 DEF DeltasAgree, Marked
    <3> QED BY <3>1, <3>2
  <2> QED BY <2>8 DEF DeltasAgree, Marked
<1>5. CASE /\ phase = 5 /\ chain' = chain /\ chained' = chained \cup {e}
           /\ <<"chain", e>> \in failures'
  BY <1>1, <1>5 DEF DeltasAgree, Marked
<1> QED BY <1>2, <1>3, <1>4, <1>5

LEMMA ConsistentMoves ==
    ASSUME variant \in DOMAIN Sweeps, SweepTypes, Positions, Reached, Consistent, Sweep(variant)!Next
    PROVE  Consistent'
<1>1. CASE UnitStep
  <2>1. crashes' = crashes /\ phase \in 1 .. 6 /\ at \in PointsOf
    BY <1>1, UnitForms
  <2> SUFFICES ASSUME crashes = 0 PROVE Consistent'
    BY <2>1 DEF Consistent
  <2>2. PairsMatch /\ Caused /\ DeltasAgree BY DEF Consistent
  <2>3. KeepsDisk \/ ToolRuns BY <1>1, UnitForms, Zenon DEF ToolRuns
  <2>4. PairsMatch'
    <3>1. CASE KeepsDisk
      BY <2>2, <3>1, SMTT(60) DEF PairsMatch, GraphPair, EnginePair, NamedCheckpoint, KeepsDisk,
         Sweep!GraphFiles
    <3>2. CASE ToolRuns BY <2>1, <2>2, <3>2, PairsStay
    <3> QED BY <2>3, <3>1, <3>2
  <2>5. Caused' BY <1>1, <2>2, CauseStays
  <2>6. DeltasAgree' BY <1>1, <2>2, DeltasStay
  <2> QED BY <2>4, <2>5, <2>6 DEF Consistent
<1>2. ASSUME KeepsDisk, UNCHANGED crashes, UNCHANGED <<failures, broke, chained>> \/
             (failures' = {} /\ chained' = {})
      PROVE  Consistent'
  <2> SUFFICES ASSUME crashes = 0 PROVE Consistent'
    BY <1>2 DEF Consistent
  <2>1. PairsMatch /\ Caused /\ DeltasAgree BY DEF Consistent
  <2>2. PairsMatch'
    BY <1>2, <2>1 DEF PairsMatch, GraphPair, EnginePair, NamedCheckpoint, KeepsDisk, Sweep!GraphFiles
  <2>3. Caused'
    BY <1>2, <2>1 DEF Caused, Marked, PointsOf, EvalOf, GraphOf, BuildOf, PointAt
  <2>4. DeltasAgree' BY <1>2, <2>1 DEF DeltasAgree, Marked, KeepsDisk
  <2> QED BY <2>2, <2>3, <2>4 DEF Consistent
<1>3. ASSUME NEW f \in Sweep(variant)!Field, Sweep(variant)!Change(f) PROVE Consistent'
  BY <1>2, <1>3 DEF Sweep!Change, Sweep!disk, KeepsDisk
<1>4. CASE Sweep(variant)!Begin
  BY <1>2, <1>4 DEF Sweep!Begin, Sweep!disk, KeepsDisk
<1>5. CASE Sweep(variant)!WriteTable
  BY <1>2, <1>5 DEF Sweep!WriteTable, Sweep!disk, Sweep!bounds, KeepsDisk
<1>6. CASE Sweep(variant)!Crash
  <2>1. crashes' = crashes + 1 /\ crashes \in Nat
    BY <1>6, CrashForms DEF Positions
  <2> QED BY <2>1 DEF Consistent
<1> QED BY <1>1, <1>3, <1>4, <1>5, <1>6 DEF Sweep!Next, UnitStep

\* What the last sweep left, if it ended without a failure: a sweep of the same world finds all of it.
OnDisk(n) ==
    /\ art[Fp32Of(n)] # Nothing /\ side[Fp32Of(n)] # Nothing
    /\ side[Fp32Of(n)].checkpoint = settled.checkpoint
    /\ art[EvalOf(n)] # Nothing /\ side[EvalOf(n)] # Nothing
    /\ PointAt(n).precision # "fp32" => side[EvalOf(n)].source = art[Fp32Of(n)]
    /\ engine[BuildOf(n)] # Nothing /\ engineSide[BuildOf(n)] # Nothing
    /\ engineSide[BuildOf(n)].onnx = art[EvalOf(n)]
    /\ accuracy[EvalOf(n)] # Nothing /\ accuracy[EvalOf(n)].engine = engine[EngineOf(n)]
    /\ accuracy[EvalOf(n)].ann = settled.ann
    /\ latency[BuildOf(n)] # Nothing /\ latency[BuildOf(n)].engine = engine[BuildOf(n)]
IsSettled == Quiet /\ settled # Nothing /\ (phase = 0 \/ settled = start)
Settled ==
    IsSettled =>
        /\ failures = {} /\ (phase # 0 => \A r \in ran : r[1] = "chain")
        /\ \A n \in PointsOf : OnDisk(n)

LEMMA DiskStays ==
    ASSUME variant \in DOMAIN Sweeps, NEW n \in PointsOf, OnDisk(n), failures = {}, failures' = {},
           UNCHANGED <<art, side, engine, engineSide, accuracy, latency, settled>>
    PROVE  OnDisk(n)'
<1>1. EngineOf(n)' = EngineOf(n) BY EngineStays DEF Marked
<1> QED BY <1>1 DEF OnDisk, Fp32Of, EvalOf, BuildOf, PointAt

\* Nothing is due in it but a comparison.
LEMMA AllCached ==
    ASSUME variant \in DOMAIN Sweeps, phase \in 1 .. 6, phase # 5, at \in PointsOf, OnDisk(at),
           settled = start, Sweep(variant)!Due(PointAt(at))
    PROVE  Sweep(variant)!Cached(PointAt(at))
<1>1. phase = 2 => PointAt(at).precision # "fp32"
  BY ConvertPlan DEF Sweep!Due
<1>2. CASE phase = 1 BY <1>2, ExportPlan DEF OnDisk
<1>3. CASE phase = 2 BY <1>1, <1>3, ConvertPlan DEF OnDisk
<1>4. CASE phase = 3 BY <1>4, BuildPlan DEF OnDisk
<1>5. CASE phase = 4 BY <1>5, EvalPlan DEF OnDisk
<1>6. CASE phase = 6 BY <1>6, BenchPlan DEF OnDisk
<1> QED BY <1>2, <1>3, <1>4, <1>5, <1>6

\* A whole sweep without a failure leaves it.
LEMMA SweepSettles ==
    ASSUME variant \in DOMAIN Sweeps, Reached, phase = 7, failures = {}, Quiet, NEW n \in PointsOf
    PROVE  /\ art[Fp32Of(n)] # Nothing /\ side[Fp32Of(n)] # Nothing
           /\ side[Fp32Of(n)].checkpoint = start.checkpoint
           /\ art[EvalOf(n)] # Nothing /\ side[EvalOf(n)] # Nothing
           /\ PointAt(n).precision # "fp32" => side[EvalOf(n)].source = art[Fp32Of(n)]
           /\ engine[BuildOf(n)] # Nothing /\ engineSide[BuildOf(n)] # Nothing
           /\ engineSide[BuildOf(n)].onnx = art[EvalOf(n)]
           /\ accuracy[EvalOf(n)] # Nothing /\ accuracy[EvalOf(n)].engine = engine[EngineOf(n)]
           /\ accuracy[EvalOf(n)].ann = start.ann
           /\ latency[BuildOf(n)] # Nothing /\ latency[BuildOf(n)].engine = engine[BuildOf(n)]
<1>1. \A f \in 1 .. 6 : Unit(f, n) BY DEF Done, Reached
<1>2. ExportedUnit(n) /\ ConvertedUnit(n) /\ BuiltUnit(n) /\ EvaluatedUnit(n) /\ MeasuredUnit(n)
  BY <1>1 DEF Unit
<1>3. \A tag, key : ~ Marked(tag, key) BY DEF Marked
<1> QED
  BY <1>2, <1>3
     DEF ExportedUnit, ConvertedUnit, BuiltUnit, EvaluatedUnit, MeasuredUnit

LEMMA SettledMoves ==
    ASSUME variant \in DOMAIN Sweeps, SweepTypes, Positions, Reached, Settled, Sweep(variant)!Next
    PROVE  Settled'
<1> SUFFICES ASSUME IsSettled'
             PROVE  /\ failures' = {} /\ (phase' # 0 => \A r \in ran' : r[1] = "chain")
                    /\ \A n \in PointsOf : OnDisk(n)'
  BY DEF Settled, PointsOf
<1>1. Quiet /\ settled' # Nothing /\ (phase' = 0 \/ settled' = start')
  BY DEF IsSettled, Quiet
<1>2. ASSUME UNCHANGED <<art, side, engine, engineSide, accuracy, latency, settled, failures, ran>>,
             IsSettled, phase = 0 => phase' = 0
      PROVE  /\ failures' = {} /\ (phase' # 0 => \A r \in ran' : r[1] = "chain")
             /\ \A n \in PointsOf : OnDisk(n)'
  <2>1. failures = {} /\ (phase # 0 => \A r \in ran : r[1] = "chain") /\ \A n \in PointsOf : OnDisk(n)
    BY <1>2 DEF Settled
  <2> QED BY <1>2, <2>1, DiskStays
<1>3. CASE UnitStep
  <2>1. /\ phase \in 1 .. 6 /\ at \in PointsOf /\ start' = start /\ table = Nothing
        /\ Sweep(variant)!Next_i /\ settled' = settled
    BY <1>1, <1>3, UnitForms DEF Positions
  <2>2. phase' \in 1 .. 7 BY <2>1, SweepConstants DEF Sweep!Next_i
  <2>3. IsSettled /\ settled = start BY <1>1, <2>1, <2>2 DEF IsSettled
  <2>4. failures = {} /\ (\A r \in ran : r[1] = "chain") /\ \A n \in PointsOf : OnDisk(n)
    BY <2>1, <2>3 DEF Settled
  <2>5. CASE KeepsDisk /\ UNCHANGED <<failures, ran>>
    BY <1>2, <2>1, <2>3, <2>5 DEF KeepsDisk
  <2>6. CASE /\ ToolRuns /\ ~ Sweep(variant)!Cached(PointAt(at))
             /\ ran' = ran \cup {<<Sweep(variant)!Step, Sweep(variant)!Key(PointAt(at))>>}
    <3>1. phase = 5 BY <2>1, <2>3, <2>4, <2>6, AllCached DEF ToolRuns
    <3>2. UNCHANGED <<art, side, engine, engineSide, accuracy, latency, failures>>
      BY <2>6, <3>1, ChainPlan DEF ToolRuns
    <3>3. Sweep(variant)!Step = "chain" BY <3>1, PhaseNames
    <3> QED BY <2>1, <2>4, <2>6, <3>2, <3>3, DiskStays
  <2>7. \/ KeepsDisk /\ UNCHANGED <<failures, ran>>
        \/ /\ ToolRuns /\ ~ Sweep(variant)!Cached(PointAt(at))
           /\ ran' = ran \cup {<<Sweep(variant)!Step, Sweep(variant)!Key(PointAt(at))>>}
    <3>1. settled' # Nothing /\ ~ (Sweep(variant)!Upstream(PointAt(at)) \cap failures # {})
      BY <1>1, <2>4
    <3> QED BY <1>3, <3>1, UnitForms, Zenon DEF ToolRuns
  <2> QED BY <2>5, <2>6, <2>7
<1>4. ASSUME NEW f \in Sweep(variant)!Field, Sweep(variant)!Change(f)
      PROVE  /\ failures' = {} /\ (phase' # 0 => \A r \in ran' : r[1] = "chain")
             /\ \A n \in PointsOf : OnDisk(n)'
  <2>1. UNCHANGED <<art, side, engine, engineSide, accuracy, latency, settled, failures, ran, phase, start>>
    BY <1>4 DEF Sweep!Change, Sweep!disk
  <2> QED BY <1>1, <1>2, <2>1 DEF IsSettled
<1>5. CASE Sweep(variant)!Begin
  <2>1. /\ UNCHANGED <<art, side, engine, engineSide, accuracy, latency, settled>> /\ phase = 0
        /\ failures' = {} /\ ran' = {}
    BY <1>5 DEF Sweep!Begin, Sweep!disk
  <2>2. failures = {} /\ \A n \in PointsOf : OnDisk(n)
    BY <1>1, <2>1 DEF IsSettled, Settled
  <2> QED BY <2>1, <2>2, DiskStays
<1>6. CASE Sweep(variant)!WriteTable
  <2>1. /\ UNCHANGED <<art, side, engine, engineSide, accuracy, latency, failures>> /\ phase = 7
        /\ phase' = 0 /\ failures = {} /\ settled' = start
    BY <1>1, <1>6, PhaseNames DEF Sweep!WriteTable, Sweep!disk
  <2>2. ASSUME NEW n \in PointsOf PROVE OnDisk(n)'
    <3>1. EngineOf(n)' = EngineOf(n) BY <2>1, EngineStays DEF Marked
    <3> QED BY <1>1, <2>1, <3>1, SweepSettles DEF OnDisk, Fp32Of, EvalOf, BuildOf, PointAt
  <2> QED BY <2>1, <2>2
<1>7. CASE Sweep(variant)!Crash BY <1>1, <1>7, CrashForms
<1> QED BY <1>3, <1>4, <1>5, <1>6, <1>7 DEF Sweep!Next, UnitStep

SweepInv == SweepTypes /\ Positions /\ Reached /\ Consistent /\ Settled

LEMMA SweepBeginsWell ==
    ASSUME variant \in DOMAIN Sweeps, Sweep(variant)!Init
    PROVE  SweepInv
<1> USE DEF Sweep!Init
<1>1. SweepTypes BY DEF SweepTypes, Sweep!Field
<1>2. Positions BY SweepConstants DEF Positions
<1>3. Reached BY SweepConstants DEF Reached, Done
<1>4. Consistent
  <2>1. PairsMatch
    BY DEF PairsMatch, GraphPair, EnginePair, NamedCheckpoint
  <2>2. Caused /\ DeltasAgree BY DEF Caused, DeltasAgree, Marked
  <2> QED BY <2>1, <2>2 DEF Consistent
<1>5. Settled BY DEF Settled, IsSettled
<1> QED BY <1>1, <1>2, <1>3, <1>4, <1>5 DEF SweepInv

LEMMA SweepGoesOn ==
    ASSUME variant \in DOMAIN Sweeps, SweepInv, [Sweep(variant)!Next]_(Sweep(variant)!vars)
    PROVE  SweepInv'
<1> USE DEF SweepInv
<1>1. CASE Sweep(variant)!Next
  <2>1. Consistent' /\ Settled' BY <1>1, ConsistentMoves, SettledMoves
  <2>2. SweepTypes' /\ Positions' /\ Reached'
    BY <1>1, UnitsMove, ChangeMoves, BeginMoves, CrashMoves, TableMoves DEF Sweep!Next, UnitStep
  <2> QED BY <2>1, <2>2
<1>2. CASE UNCHANGED Sweep(variant)!vars
  <2>1. /\ KeepsDisk
        /\ UNCHANGED <<world, phase, at, start, failures, broke, ran, chained, table, crashes, settled>>
    BY <1>2 DEF Sweep!vars, KeepsDisk
  <2>2. SweepTypes' BY <2>1, TypesStay DEF SweepTypes
  <2>3. Reached' BY <2>1, ReachedStays DEF Done
  <2>4. table # Nothing => table' = [n \in PointsOf |-> Sweep(variant)!point_row(PointAt(n))']
    BY <2>1, RowsStay DEF Positions
  <2>5. Positions' BY <2>1, <2>4 DEF Positions, PointsOf, Quiet
  <2>6. Consistent'
    BY <2>1 DEF Consistent, PairsMatch, GraphPair, EnginePair, NamedCheckpoint, Caused, DeltasAgree,
                KeepsDisk, Marked, Sweep!GraphFiles, PointsOf, EvalOf, GraphOf, BuildOf, PointAt
  <2>7. Settled'
    <3>1. CASE IsSettled
      <4>1. failures = {} /\ (phase # 0 => \A r \in ran : r[1] = "chain") /\ \A n \in PointsOf : OnDisk(n)
        BY <3>1 DEF Settled
      <4> QED BY <2>1, <4>1, DiskStays DEF Settled, KeepsDisk, PointsOf
    <3>2. CASE ~ IsSettled BY <2>1, <3>2 DEF Settled, IsSettled, Quiet
    <3> QED BY <3>1, <3>2
  <2> QED BY <2>2, <2>3, <2>5, <2>6, <2>7
<1> QED BY <1>1, <1>2

\* A row without a mark shows what its units left.
LEMMA RowIsThere ==
    ASSUME variant \in DOMAIN Sweeps, SweepInv, NEW n \in Sweep(variant)!Rows
    PROVE  /\ n \in PointsOf /\ table # Nothing /\ table[n] = Sweep(variant)!point_row(PointAt(n))
           /\ ~ Marked("graph", GraphOf(n)) /\ ~ Marked("eval", EvalOf(n))
           /\ ~ Marked("chain", EvalOf(n)) /\ ~ Marked("build", BuildOf(n))
           /\ ~ Marked("bench", BuildOf(n))
           /\ ExportedUnit(n) /\ ConvertedUnit(n) /\ BuiltUnit(n) /\ EvaluatedUnit(n)
           /\ ComparedUnit(n) /\ MeasuredUnit(n)
           /\ table[n].ap = accuracy[EvalOf(n)] /\ table[n].latency = latency[BuildOf(n)]
           /\ table[n].delta = IF EvalOf(n) \in chained THEN chain[EvalOf(n)] ELSE Nothing
<1>1. n \in PointsOf /\ table # Nothing /\ ~ table[n].failed
  BY PointKeys DEF Sweep!Rows
<1>2. table[n] = Sweep(variant)!point_row(PointAt(n))
  BY <1>1 DEF SweepInv, Positions
<1>3. ~ (Sweep(variant)!RowKeys(PointAt(n)) \cap failures # {})
  <2> DEFINE marked == Sweep(variant)!RowKeys(PointAt(n)) \cap failures # {}
  <2>1. table[n].failed = marked
    <3> HIDE DEF marked
    <3>1. Sweep(variant)!point_row(PointAt(n)).failed = marked
      BY Zenon DEF Sweep!point_row, marked
    <3> QED BY <1>2, <3>1
  <2> QED BY <1>1, <2>1
<1>4. /\ ~ Marked("graph", GraphOf(n)) /\ ~ Marked("eval", EvalOf(n))
      /\ ~ Marked("chain", EvalOf(n)) /\ ~ Marked("build", BuildOf(n))
      /\ ~ Marked("bench", BuildOf(n))
  BY <1>3, PointKeys DEF Sweep!RowKeys, Marked
<1>5. \A f \in 1 .. 6 : Unit(f, n) BY <1>1 DEF Done, Reached, SweepInv
<1>6. /\ ExportedUnit(n) /\ ConvertedUnit(n) /\ BuiltUnit(n) /\ EvaluatedUnit(n)
      /\ ComparedUnit(n) /\ MeasuredUnit(n)
  BY <1>5 DEF Unit
<1>7. /\ table[n].ap = accuracy[EvalOf(n)] /\ table[n].latency = latency[BuildOf(n)]
      /\ table[n].delta = IF EvalOf(n) \in chained THEN chain[EvalOf(n)] ELSE Nothing
  BY <1>2, PointKeys DEF Sweep!point_row
<1> QED BY <1>1, <1>2, <1>4, <1>6, <1>7

LEMMA SweepRowsComplete ==
    ASSUME variant \in DOMAIN Sweeps, SweepInv
    PROVE  Sweep(variant)!RowsAreComplete
<1> SUFFICES ASSUME NEW n \in Sweep(variant)!Rows, EvalOf(n) # EvalOf(1), 1 \in Sweep(variant)!Rows
             PROVE  table[n].delta = [base |-> table[1].ap, of |-> table[n].ap]
  BY PointKeys DEF Sweep!RowsAreComplete, PointAt
<1>1. EvalOf(n) \in chained
      /\ chain[EvalOf(n)] = [base |-> accuracy[EvalOf(1)], of |-> accuracy[EvalOf(n)]]
  BY RowIsThere DEF ComparedUnit
<1> QED BY <1>1, RowIsThere

LEMMA SweepDeltas ==
    ASSUME variant \in DOMAIN Sweeps, SweepInv, crashes = 0
    PROVE  Sweep(variant)!DeltaOfOneModel
<1> SUFFICES ASSUME NEW n \in Sweep(variant)!Rows, table[n].delta # Nothing
             PROVE  LET l == table[n].delta.base
                        r == table[n].delta.of
                    IN  l.engine.onnx.checkpoint = r.engine.onnx.checkpoint /\ l.ann = r.ann /\ l.images = r.images
  BY DEF Sweep!DeltaOfOneModel
<1>1. EvalOf(n) \in chained /\ table[n].delta = chain[EvalOf(n)] /\ ~ Marked("chain", EvalOf(n))
  BY RowIsThere
<1>2. DeltasAgree BY DEF SweepInv, Consistent
<1> QED BY <1>1, <1>2 DEF DeltasAgree

LEMMA SweepCauses ==
    ASSUME variant \in DOMAIN Sweeps, SweepInv, crashes = 0
    PROVE  Sweep(variant)!FailureHasCause
<1>1. Caused BY DEF SweepInv, Consistent
<1> SUFFICES ASSUME NEW n \in PointsOf, <<"eval", EvalOf(n)>> \in failures
             PROVE  \/ <<"graph", GraphOf(n)>> \in failures
                    \/ \E s \in {"convert", "eval"} : <<s, <<"eval", EvalOf(n)>>>> \in broke
                    \/ \A m \in PointsOf : EvalOf(m) = EvalOf(n) => <<"build", BuildOf(m)>> \in failures
  BY PointKeys DEF Sweep!FailureHasCause, PointAt
<1> QED BY <1>1 DEF Caused, Marked

LEMMA SweepResumes ==
    ASSUME variant \in DOMAIN Sweeps, SweepInv, Quiet
    PROVE  Sweep(variant)!Resumes
<1> SUFFICES ASSUME settled # Nothing, settled = start, phase # 0 PROVE \A r \in ran : r[1] = "chain"
  BY DEF Sweep!Resumes
<1> QED BY DEF SweepInv, Settled, IsSettled

LEMMA SweepRowsCurrent ==
    ASSUME variant \in DOMAIN Sweeps, SweepInv, Quiet, crashes = 0
    PROVE  Sweep(variant)!RowsAreCurrent
<1> SUFFICES ASSUME NEW n \in Sweep(variant)!Rows
             PROVE  LET onnx == [checkpoint |-> start.checkpoint, graph |-> PointAt(n).graph,
                                 precision |-> PointAt(n).precision]
                    IN  /\ table[n].ap # Nothing /\ table[n].latency # Nothing
                        /\ table[n].ap.engine.onnx = onnx /\ table[n].ap.ann = start.ann
                        /\ table[n].latency.engine = [onnx |-> onnx, profile |-> PointAt(n).profile,
                                                      mode |-> PointAt(n).mode]
  BY DEF Sweep!RowsAreCurrent, Sweep!OnnxOf, PointAt
<1> DEFINE f == Fp32Of(n)
           e == EvalOf(n)
           m == BuildOf(n)
           g == EngineOf(n)
           s == start.checkpoint
           q == PointAt(n)
<1>1. n \in PointsOf /\ table[n].ap = accuracy[e] /\ table[n].latency = latency[m]
  BY RowIsThere
<1>2. /\ art[f] # Nothing /\ side[f].checkpoint = s
      /\ art[e] # Nothing /\ (q.precision # "fp32" => side[e].source = art[f])
      /\ engine[m] # Nothing /\ engineSide[m].onnx = art[e]
      /\ accuracy[e] # Nothing /\ accuracy[e].engine = engine[g] /\ accuracy[e].ann = start.ann
      /\ latency[m] # Nothing /\ latency[m].engine = engine[m]
      /\ ~ <<"build", g>> \in failures
  BY RowIsThere
     DEF ExportedUnit, ConvertedUnit, BuiltUnit, EvaluatedUnit, MeasuredUnit
<1>3. engine[g] # Nothing /\ engineSide[g].onnx = art[e] /\ g \in Sweep(variant)!Builds
  <2>1. PICK j \in PointsOf : EvalOf(j) = EvalOf(n) /\ EngineOf(n) = BuildOf(j)
    BY <1>1, EngineServes DEF EnginesServe, Serves
  <2>2. Done(3, j) BY RowIsThere DEF Done
  <2>3. BuiltUnit(j)
    <3>1. Unit(3, j) BY <2>2 DEF SweepInv, Reached
    <3> QED BY <3>1 DEF Unit
  <2> QED BY <1>2, <2>1, <2>3, KeysOfPoints DEF BuiltUnit, Marked
<1>4. GraphPair(f) /\ GraphPair(e) /\ EnginePair(m) /\ EnginePair(g)
  BY <1>1, <1>3, KeysOfPoints DEF SweepInv, Consistent, PairsMatch
<1>5. /\ f[1] = q.graph /\ f[2] = "fp32" /\ e[1] = q.graph /\ e[2] = q.precision
      /\ m[3] = q.profile /\ m[4] = q.mode
      /\ q.precision = "fp32" => e = f
  BY DEF Fp32Of, EvalOf, BuildOf
<1> DEFINE onnx == [checkpoint |-> s, graph |-> q.graph, precision |-> q.precision]
<1> HIDE DEF f, e, m, g, s, q
<1>6. art[f] = [checkpoint |-> s, graph |-> q.graph, precision |-> "fp32"]
  BY <1>2, <1>4, <1>5 DEF GraphPair
<1>7. art[e] = onnx
  <2>1. CASE q.precision = "fp32" BY <1>5, <1>6, <2>1
  <2>2. CASE q.precision # "fp32"
    <3> DEFINE c == side[e].checkpoint
    <3>1. /\ art[e] = [checkpoint |-> c, graph |-> q.graph, precision |-> q.precision]
          /\ art[f] = [checkpoint |-> c, graph |-> q.graph, precision |-> "fp32"]
      BY <1>2, <1>4, <1>5, <2>2 DEF GraphPair
    <3> HIDE DEF c
    <3>2. c = s
      <4>1. art[f].checkpoint = c /\ art[f].checkpoint = s BY <1>6, <3>1
      <4> QED BY <4>1
    <3> QED BY <3>1, <3>2
  <2> QED BY <2>1, <2>2
<1> HIDE DEF onnx
<1>8. engine[m] = [onnx |-> onnx, profile |-> q.profile, mode |-> q.mode]
  BY <1>2, <1>4, <1>5, <1>7 DEF EnginePair
<1>9. engine[g].onnx = onnx
  <2>1. engine[g] = [onnx |-> engineSide[g].onnx, profile |-> g[3], mode |-> g[4]]
    BY <1>3, <1>4 DEF EnginePair
  <2>2. engine[g].onnx = engineSide[g].onnx BY <2>1
  <2> QED BY <1>3, <1>7, <2>2
<1> QED BY <1>1, <1>2, <1>8, <1>9 DEF onnx, s, q

\* A row of the sweep's table is complete, of its own point, and its delta of one checkpoint; a
\* mark has its cause, and a sweep over its own results runs the comparisons only: under what
\* RowsAreCurrent says of changes and stops (preset_sweep.py).
THEOREM SweepsAreCurrent == RecordsSpec /\ program = variant => []RowsAreCurrent
<1>1. CASE variant \in DOMAIN Sweeps
  <2>1. Sweep(variant)!Init => SweepInv BY <1>1, SweepBeginsWell
  <2>2. SweepInv /\ [Sweep(variant)!Next]_(Sweep(variant)!vars) => SweepInv'
    BY <1>1, SweepGoesOn
  <2>3. SweepInv /\ program = variant => RowsAreCurrent
    <3> SUFFICES ASSUME SweepInv, program = variant PROVE RowsAreCurrent
      OBVIOUS
    <3>1. Sweeps[variant].change_at = {0} => Quiet BY DEF Quiet
    <3> QED
      BY <1>1, <3>1, SweepRowsComplete, SweepDeltas, SweepCauses, SweepResumes, SweepRowsCurrent
         DEF RowsAreCurrent
  <2> QED BY <1>1, <2>1, <2>2, <2>3, SweepRuns, ProgramStays, PTL DEF Sweep!Spec
<1>2. CASE variant \notin DOMAIN Sweeps
  <2>1. program = variant => RowsAreCurrent BY <1>2 DEF RowsAreCurrent
  <2> QED BY <2>1, ProgramStays, PTL
<1> QED BY <1>1, <1>2

============================================================================
