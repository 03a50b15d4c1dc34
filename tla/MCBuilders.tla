----------------------------- MODULE MCBuilders ------------------------------
(*****************************************************************************)
(* What stands between a graph on disk and an engine that is loaded: the     *)
(* types a strongly typed build insists on, which the FP16 converters repair *)
(* (TypeHarmonizer), the builder that reads an ONNX pair while it is         *)
(* replaced (ArtifactReader), its recipe, the names of sidecars, and the     *)
(* cache of engines behind the command line.  A behaviour is of one program. *)
(*****************************************************************************)
EXTENDS ArtifactReader, Integers, Sequences, TLC

CONSTANTS
    Proc, Checkpoint, Nothing,
    DefaultProfile, PlacedSlots, Unbound, RenamesProfile,
    Caches,    \* by the name of an instance of the cache, its constants
    Engine, Onnx, Shape, Batches, MaxBuilds,
    Networks, Sidecars, Triples, AuxLimits,
    Repairs    \* by the name of an instance of the pass, its constants

VARIABLE program     \* which program this behaviour is of
VARIABLES onnx, engines, publisher, job, calm, commands, edits, json, engine, intruded,
          disturbed, at, args, meta, net, sidecar, init, declared, vtype, idx, pending, dup,
          fixed, passes

\* What predict asks for, and two other profiles.
Default == [opt |-> 1, max |-> 8, g0 |-> FALSE]
ThreeProfiles == {Default, [opt |-> 4, max |-> 4, g0 |-> FALSE],
                  [opt |-> 1, max |-> 8, g0 |-> TRUE]}

\* Two outputs in either order, unnamed ones, a model of four classes, and a third output.
TwoOrThreeOutputs == {
    <<<<"logits", 80>>, <<"boxes", 4>>>>, <<<<"boxes", 4>>, <<"logits", 80>>>>,
    <<<<"out0", 80>>, <<"out1", 4>>>>, <<<<"logits", 4>>, <<"boxes", 4>>>>,
    <<<<"out0", 4>>, <<"out1", 4>>>>, <<<<"aux", 7>>, <<"logits", 80>>, <<"boxes", 4>>>>}
Typed(outs, half) ==
    [i \in DOMAIN outs |-> [name |-> outs[i][1], last |-> outs[i][2], fp32 |-> i \notin half]]
TheNetworks ==
    {[batch |-> b, typed |-> t, decoder_named |-> TRUE, outputs |-> Typed(o, half)] :
        b \in {-1, 1, 2}, t \in {"fp32", "fp16"}, o \in TwoOrThreeOutputs, half \in {{}, {1}, {2}}}
    \cup {[batch |-> -1, typed |-> "fp32", decoder_named |-> FALSE,
           outputs |-> Typed(<<<<"logits", 80>>, <<"boxes", 4>>>>, {})]}

Described(names, classes, precision, mode, decoder) ==
    [kind |-> "onnx", color |-> "RGB", names |-> names, classes |-> classes,
     precision |-> precision, mode |-> mode, decoder_fp32 |-> decoder]
Plain == Described(Nothing, Nothing, Nothing, Nothing, FALSE)
TheSidecars == {
    Nothing, Plain, [Plain EXCEPT !.kind = "engine"], [Plain EXCEPT !.color = "BGR"],
    Described(<<"logits", "boxes">>, 80, "fp32", "fp32", FALSE),
    Described(<<"logits", "boxes">>, 80, "fp16", "strongly_typed_fp16", TRUE),
    Described(<<"out0", "out1">>, 4, "fp16", Nothing, FALSE),
    Described(<<"aux", "boxes">>, 7, "fp32", "fp32", FALSE),
    Described(<<"boxes">>, Nothing, "fp32", "fp32", FALSE)}

Cache(v) == INSTANCE EngineCache WITH
    Proc <- Caches[v].procs, Checkpoint <- Caches[v].checkpoints,
    Profiles <- Caches[v].profiles, MaxCommands <- Caches[v].max_commands,
    MaxEdits <- Caches[v].max_edits
Beside == INSTANCE SidecarNames WITH Model <- Checkpoint, MaxCommands <- MaxBuilds
Recipe == INSTANCE BuildRecipe WITH Profiles <- Triples, Absent <- Nothing
Harmonizer(v) == INSTANCE TypeHarmonizer WITH
    Tool <- Repairs[v].tool, Names <- Repairs[v].names, Ops <- Repairs[v].ops, MaxPasses <- 2,
    graph <- onnx

\* Two processes, three commands, one edit by hand; one process, builds of three profiles; one
\* process while engines and graphs are renamed by hand.
ThePlacedSlots == {"_slim"}
TheUnbound == {<<"fp16", "legacy">>}
TheCaches ==
    "cache" :> [procs |-> Proc, checkpoints |-> Checkpoint, profiles |-> {Default},
                max_commands |-> 3, max_edits |-> 1] @@
    "profiles" :> [procs |-> {"p"}, checkpoints |-> {"c"}, profiles |-> ThreeProfiles,
                   max_commands |-> 4, max_edits |-> 1] @@
    "misnamed" :> [procs |-> {"p"}, checkpoints |-> {"c"}, profiles |-> {Default},
                   max_commands |-> 3, max_edits |-> 2]

\* One engine, both of whose sidecar names are those of graphs, and a third graph.
TheOnnx == {<<"a">>, <<"a", "engine">>, <<"b">>}
OneShape == [c \in Checkpoint |-> 1]

TheTriples == {<<1, 1, 1>>, <<1, 4, 8>>, <<2, 2, 2>>, <<0, 1, 1>>, <<2, 1, 8>>}
TheAuxLimits == {Nothing, -1, 0, 1}

\* All graphs of two nodes over five operators and of three over two; the single pass of
\* convert_fp16.py over three nodes.
TheRepairs ==
    "harmonize" :>
        [tool |-> "surgical", names |-> <<"a", "b">>,
         ops |-> {"Mul", "Cast16", "Cast32", "Resize", "Shape"}] @@
    "harmonize_three" :>
        [tool |-> "surgical", names |-> <<"a", "b", "c">>, ops |-> {"Mul", "Cast16"}] @@
    "harmonize_fp16" :>
        [tool |-> "fp16", names |-> <<"a", "b", "c">>, ops |-> {"Mul"}]

ASSUME PartsAssumption ==
    /\ \A v \in DOMAIN Caches : Cache(v)!CacheAssumption
    /\ Beside!SidecarAssumption /\ Recipe!RecipeAssumption
    /\ \A v \in DOMAIN Repairs : Harmonizer(v)!HarmonizerAssumption

\* No name is that of two programs.
ASSUME NamesAssumption ==
    /\ {"reader", "sidecars", "recipe"} \cap (DOMAIN Caches \cup DOMAIN Repairs) = {}
    /\ DOMAIN Caches \cap DOMAIN Repairs = {}

-----------------------------------------------------------------------------
(* The variables of a program the behaviour is not of stay unused.         *)

Unused == "unused"
ReaderOnly == <<dir, lock, tmp, bak, changed, unrestored, preserve, result, whole, rpc, seen,
                input>>
CacheOnly == <<engines, publisher, calm, edits>>
BesideOnly == <<json, intruded, disturbed>>
RecipeOnly == <<at, args, meta, net, sidecar>>
HarmonizerOnly == <<init, declared, vtype, idx, pending, dup, fixed, passes>>
NoReader ==
    /\ dir = Unused /\ lock = Unused /\ tmp = Unused /\ bak = Unused /\ changed = Unused
    /\ unrestored = Unused /\ preserve = Unused /\ result = Unused /\ whole = Unused
    /\ rpc = Unused /\ seen = Unused /\ input = Unused
NoCache ==
    /\ engines = Unused /\ publisher = Unused /\ calm = Unused /\ edits = Unused
NoBeside ==
    /\ json = Unused /\ intruded = Unused /\ disturbed = Unused
NoRecipe ==
    /\ at = Unused /\ args = Unused /\ meta = Unused /\ net = Unused /\ sidecar = Unused
NoHarmonizer ==
    /\ init = Unused /\ declared = Unused /\ vtype = Unused /\ idx = Unused
    /\ pending = Unused /\ dup = Unused /\ fixed = Unused /\ passes = Unused

\* One publisher with a sidecar and one without, and the builder that reads.
ReaderBegins ==
    /\ program = "reader" /\ ReadInit /\ dir["twin"] = NoFile
    /\ NoCache /\ NoBeside /\ NoRecipe /\ NoHarmonizer /\ onnx = Unused /\ job = Unused
    /\ commands = Unused /\ engine = Unused
ReaderSteps ==
    /\ program = "reader" /\ ReadNext
    /\ UNCHANGED <<program, CacheOnly, BesideOnly, RecipeOnly, HarmonizerOnly, onnx, job,
                   commands, engine>>

CacheBegins ==
    /\ \E v \in DOMAIN Caches : program = v /\ Cache(v)!Init
    /\ NoReader /\ NoBeside /\ NoRecipe /\ NoHarmonizer /\ engine = Unused
CacheSteps ==
    /\ \E v \in DOMAIN Caches : program = v /\ Cache(v)!Next
    /\ UNCHANGED <<program, ReaderOnly, BesideOnly, RecipeOnly, HarmonizerOnly, engine>>

BesideBegins ==
    /\ program = "sidecars" /\ Beside!Init
    /\ NoReader /\ NoCache /\ NoRecipe /\ NoHarmonizer /\ pc = Unused
BesideSteps ==
    /\ program = "sidecars" /\ Beside!Next
    /\ UNCHANGED <<program, ReaderOnly, CacheOnly, RecipeOnly, HarmonizerOnly, pc>>

\* Every combination of flags with six graphs and nine sidecars.
RecipeBegins ==
    /\ program = "recipe" /\ Recipe!Init
    /\ NoReader /\ NoCache /\ NoBeside /\ NoHarmonizer /\ pc = Unused /\ onnx = Unused
    /\ job = Unused /\ commands = Unused
RecipeSteps ==
    /\ program = "recipe" /\ Recipe!Next
    /\ UNCHANGED <<program, ReaderOnly, CacheOnly, BesideOnly, HarmonizerOnly, pc, onnx, job,
                   commands>>

HarmonizerBegins ==
    /\ \E v \in DOMAIN Repairs : program = v /\ Harmonizer(v)!Init
    /\ NoReader /\ NoCache /\ NoBeside /\ NoRecipe
    /\ job = Unused /\ commands = Unused /\ engine = Unused
HarmonizerSteps ==
    /\ \E v \in DOMAIN Repairs : program = v /\ Harmonizer(v)!Next
    /\ UNCHANGED <<program, ReaderOnly, CacheOnly, BesideOnly, RecipeOnly, job, commands,
                   engine>>

BuildersInit ==
    \/ ReaderBegins \/ CacheBegins \/ BesideBegins \/ RecipeBegins \/ HarmonizerBegins
BuildersNext ==
    \/ ReaderSteps \/ CacheSteps \/ BesideSteps \/ RecipeSteps \/ HarmonizerSteps
BuildersVars == <<program, dir, lock, pc, tmp, bak, changed, unrestored, preserve, result,
                  whole, rpc, seen, input, onnx, engines, publisher, job, calm, commands,
                  edits, json, engine, intruded, disturbed, at, args, meta, net, sidecar,
                  init, declared, vtype, idx, pending, dup, fixed, passes>>

BuildersSpec == BuildersInit /\ [][BuildersNext]_BuildersVars

-----------------------------------------------------------------------------
\* Undisturbed, a command of dfine ends with an engine of the very ONNX it resolved, what
\* it builds is what the next command finds, of the precision its name says, and a larger
\* engine is chosen when the request needs it, if nobody renames an engine to another profile
\* (_resolve_engine, _build_engine).
EngineOfItsOnnx ==
    \A v \in DOMAIN Caches : program = v =>
        /\ Cache(v)!TypeOK /\ Cache(v)!BuiltIsFound /\ Cache(v)!PrecisionHonest
        /\ Cache(v)!LockIsPassing /\ Cache(v)!Reverified
        /\ ~RenamesProfile => Cache(v)!ServesIfAny

\* No build changes the sidecar of its own source, and an engine whose publication no other
\* builder, export or rollback was in the way of is found to have the labels of its graph,
\* or none (_engine_sidecar_plan, dfine_build.cpp).
EngineKeepsItsSidecar ==
    [][program = "sidecars" =>
         Beside!TypeOK' /\ Beside!KeepsSource /\ Beside!EngineKeepsItsSidecar']_BuildersVars

\* Whatever the flags, the runtime loads what build_engine.py publishes, enables capture
\* where the sidecar says so, and the precision and recipe are those of this very build.
BuiltIsLoadable ==
    program = "recipe" => /\ Recipe!TypeOK /\ Recipe!BuiltIsLoadable /\ Recipe!GraphClaimHolds
                          /\ Recipe!PrecisionHonest /\ Recipe!RecipeOfThisBuild

\* The FP32 island of a harmonized graph computes in FP32 and the rest does not, no node mixes
\* types, no tensor has two makers, every node follows those that feed it, and two passes are
\* enough (harmonize_blockset, harmonize_float_types).
IslandIsExact ==
    \A v \in DOMAIN Repairs : program = v =>
        /\ Harmonizer(v)!TypeOK /\ Harmonizer(v)!NamesUnique /\ Harmonizer(v)!StillTopological
        /\ Repairs[v].tool = "surgical" =>
              Harmonizer(v)!NoMixedNode /\ Harmonizer(v)!IslandIsExact /\ Harmonizer(v)!Converges

Symmetry == Permutations(Proc) \cup Permutations(Checkpoint)
=============================================================================
