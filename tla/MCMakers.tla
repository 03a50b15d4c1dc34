------------------------------ MODULE MCMakers -------------------------------
(*****************************************************************************)
(* The tools that make a graph, each by itself: the export of a checkpoint,  *)
(* what deploy() and the sliders make of the decoder, the geometry of its    *)
(* queries, and the conversions to FP16 and INT8 with the nodes they keep.   *)
(* They meet in files only; a behaviour is of one of them.                   *)
(*****************************************************************************)
EXTENDS Integers, Sequences, FiniteSets, TLC

CONSTANTS
    Position, Proc, Nothing,
    MaxVersion, MaxFaults, NumLayers, NumQueries, Scores, EvalIdxs, QueryCounts, Cascades,
    Geometries, Conversions, Lists    \* by the name of an instance, its constants

VARIABLE program     \* which program this behaviour is of
VARIABLES pc, args, checkpoint, sources, running, bytes, model, meta, staged, published,
          decoder, content, rank, layer, rows, selected, out, size, anchors, mask, memory, query,
          dir, temps, lock, job, killed, runs, failures, onnx, idx, frontier,
          visited, block

Square == {<<n, n>> : n \in {32, 64, 96}}

\* Exports to m, conversions of m to h and of h to q; for the paths, also m.ONNX, a link to
\* m.onnx, and the name INT8 preprocessing takes.
Onnx(stem) == [stem |-> stem, ext |-> "onnx"]
TwoFiles == [m |-> Onnx(<<"m">>), h |-> Onnx(<<"h">>)]
ThreeFiles == [m |-> Onnx(<<"m">>), h |-> Onnx(<<"h">>), q |-> Onnx(<<"q">>)]
AliasedFiles ==
    [m |-> Onnx(<<"m">>), upper |-> [stem |-> <<"m">>, ext |-> "ONNX"], link |-> Onnx(<<"m">>),
     preproc |-> Onnx(<<"m", "preproc">>)]
Command(t, from, to) == [tool |-> t, src |-> from, out |-> to]

\* Names of nodes in the scopes the block list tells apart.
Attention == <<"model", "decoder", "decoder", "layers.0", "cross_attn", "node">>
Ffn == <<"model", "decoder", "decoder", "layers.0", "linear1", "node">>
BoxHead == <<"model", "decoder", "dec_bbox_head.0", "dec_bbox_head", "node">>
Glue == <<"model", "decoder", "decoder", "node">>
Leaf == <<"model", "decoder", "node">>
Encoder == <<"model", "encoder", "node">>

Export == INSTANCE ExportRun
Decoder == INSTANCE DecoderDeploy WITH
    Candidate <- Position, i <- layer
Geometry(v) == INSTANCE QueryGeometry WITH
    Strides <- Geometries[v].strides, Sizes <- Geometries[v].sizes,
    Trained <- Geometries[v].trained, EpsInverse <- Geometries[v].eps_inverse
Converting(v) == INSTANCE Conversion WITH
    Commands <- Conversions[v].commands, Real <- Conversions[v].real,
    MaxCommands <- Conversions[v].max_commands, MaxFailures <- Conversions[v].max_failures,
    MaxKills <- Conversions[v].max_kills, NoFile <- Nothing, Nobody <- Nothing
List(v) == INSTANCE Blocklist WITH
    Size <- Lists[v].size, NodeNames <- Lists[v].names, Slim <- Lists[v].slim,
    Fp16Only <- Lists[v].fp16_only, graph <- onnx, seen <- visited

\* Every slider from one below its range to one above it.
TheEvalIdxs == {Nothing} \cup (-1 .. 3)
TheQueryCounts == {Nothing} \cup (0 .. Cardinality(Position) + 1)
TheCascades == {Nothing} \cup [k : -1 .. 3, keep : 0 .. Cardinality(Position)]

\* The strides of the models at every size from 32 to 96; the two levels of the smallest one,
\* with wider borders.
TheGeometries ==
    "geometry" :>
        [strides |-> <<8, 16, 32>>, sizes |-> 32 .. 96, trained |-> Square, eps_inverse |-> 20] @@
    "geometry_nano" :>
        [strides |-> <<16, 32>>, sizes |-> 32 .. 96, trained |-> Square, eps_inverse |-> 10]

\* Exports of m and conversions of m to h; a chain of conversions, one of which may be
\* killed; every pair of names for the source and the output.
TheConversions ==
    "conversion" :>
        [commands |-> {Command("export", "m", "m"), Command("fp16", "m", "h"),
                       Command("int8", "m", "h")},
         real |-> TwoFiles, max_commands |-> 3, max_failures |-> 1, max_kills |-> 0] @@
    "conversion_killed" :>
        [commands |-> {Command("export", "m", "m"), Command("surgical", "m", "h"),
                       Command("surgical", "h", "q")},
         real |-> ThreeFiles, max_commands |-> 2, max_failures |-> 1, max_kills |-> 1] @@
    "conversion_paths" :>
        [commands |-> [tool : {"fp16", "int8"}, src : DOMAIN AliasedFiles,
                       out : DOMAIN AliasedFiles],
         real |-> AliasedFiles, max_commands |-> 1, max_failures |-> 1, max_kills |-> 0]

\* All graphs of nodes in cross attention, glue, a box head and the encoder; cross attention
\* in FP16 but for its indices; the scopes right under the decoder.
TheLists ==
    "blocklist" :>
        [size |-> 3, names |-> {Attention, BoxHead, Glue, Encoder}, slim |-> TRUE,
         fp16_only |-> {}] @@
    "blocklist_hybrid" :>
        [size |-> 2, names |-> {Attention, Ffn, Glue, Encoder}, slim |-> FALSE,
         fp16_only |-> {"cross_attn"}] @@
    "blocklist_leaves" :>
        [size |-> 2, names |-> {Attention, Ffn, Leaf, Glue}, slim |-> FALSE, fp16_only |-> {}]

ASSUME PartsAssumption ==
    /\ Export!ExportAssumption /\ Decoder!DecoderAssumption
    /\ \A v \in DOMAIN Geometries : Geometry(v)!GeometryAssumption
    /\ \A v \in DOMAIN Conversions : Converting(v)!ConversionAssumption
    /\ \A v \in DOMAIN Lists : List(v)!BlocklistAssumption

\* No name is that of two programs.
Singles == {"export", "decoder"}
ASSUME NamesAssumption ==
    /\ Singles \cap (DOMAIN Geometries \cup DOMAIN Conversions \cup DOMAIN Lists) = {}
    /\ DOMAIN Geometries \cap (DOMAIN Conversions \cup DOMAIN Lists) = {}
    /\ DOMAIN Conversions \cap DOMAIN Lists = {}

-----------------------------------------------------------------------------
(* The variables of a program the behaviour is not of stay unused.         *)

Unused == "unused"
ExportOnly == <<sources, running, bytes, model, staged, published>>
DecoderOnly == <<decoder, content, rank, layer, rows, selected>>
GeometryOnly == <<size, anchors, mask, memory, query>>
ConversionOnly == <<dir, temps, lock, job, killed, runs, failures>>
BlocklistOnly == <<frontier, visited, block>>
NoExport ==
    /\ sources = Unused /\ running = Unused /\ bytes = Unused /\ model = Unused
    /\ staged = Unused /\ published = Unused
NoDecoder ==
    /\ decoder = Unused /\ content = Unused /\ rank = Unused /\ layer = Unused
    /\ rows = Unused /\ selected = Unused
NoGeometry ==
    /\ size = Unused /\ anchors = Unused /\ mask = Unused /\ memory = Unused
    /\ query = Unused
NoConversion ==
    /\ dir = Unused /\ temps = Unused /\ lock = Unused /\ job = Unused /\ killed = Unused
    /\ runs = Unused /\ failures = Unused
NoBlocklist ==
    /\ frontier = Unused /\ visited = Unused /\ block = Unused
NoGraph == onnx = Unused /\ idx = Unused

\* One replacement of the checkpoint and one update of each source.
ExportBegins ==
    /\ program = "export" /\ Export!Init
    /\ NoDecoder /\ NoGeometry /\ NoConversion /\ NoBlocklist
    /\ out = Unused /\ NoGraph
ExportSteps ==
    /\ program = "export" /\ Export!Next
    /\ UNCHANGED <<program, DecoderOnly, GeometryOnly, ConversionOnly, BlocklistOnly,
                   out, onnx, idx>>

\* Three layers, three positions, two scores.
DecoderBegins ==
    /\ program = "decoder" /\ Decoder!Init
    /\ NoExport /\ NoGeometry /\ NoConversion /\ NoBlocklist
    /\ checkpoint = Unused /\ NoGraph
DecoderSteps ==
    /\ program = "decoder" /\ Decoder!Next
    /\ UNCHANGED <<program, ExportOnly, GeometryOnly, ConversionOnly, BlocklistOnly,
                   checkpoint, onnx, idx>>

GeometryBegins ==
    /\ \E v \in DOMAIN Geometries : program = v /\ Geometry(v)!Init
    /\ NoExport /\ NoDecoder /\ NoConversion /\ NoBlocklist
    /\ args = Unused /\ meta = Unused /\ out = Unused /\ NoGraph
GeometrySteps ==
    /\ \E v \in DOMAIN Geometries : program = v /\ Geometry(v)!Next
    /\ UNCHANGED <<program, ExportOnly, DecoderOnly, ConversionOnly, BlocklistOnly,
                   args, meta, out, onnx, idx>>

ConvertingBegins ==
    /\ \E v \in DOMAIN Conversions : program = v /\ Converting(v)!Init
    /\ NoExport /\ NoDecoder /\ NoGeometry /\ NoBlocklist /\ pc = Unused
    /\ args = Unused /\ checkpoint = Unused /\ meta = Unused /\ out = Unused
    /\ NoGraph
ConvertingSteps ==
    /\ \E v \in DOMAIN Conversions : program = v /\ Converting(v)!Next
    /\ UNCHANGED <<program, ExportOnly, DecoderOnly, GeometryOnly, BlocklistOnly,
                   pc, args, checkpoint, meta, out, onnx, idx>>

ListBegins ==
    /\ \E v \in DOMAIN Lists : program = v /\ List(v)!Init
    /\ NoExport /\ NoDecoder /\ NoGeometry /\ NoConversion
    /\ args = Unused /\ checkpoint = Unused /\ meta = Unused
ListSteps ==
    /\ \E v \in DOMAIN Lists : program = v /\ List(v)!Next
    /\ UNCHANGED <<program, ExportOnly, DecoderOnly, GeometryOnly, ConversionOnly,
                   args, checkpoint, meta>>

MakersInit ==
    \/ ExportBegins \/ DecoderBegins \/ GeometryBegins \/ ConvertingBegins \/ ListBegins
MakersNext ==
    \/ ExportSteps \/ DecoderSteps \/ GeometrySteps \/ ConvertingSteps \/ ListSteps
MakersVars == <<program, pc, args, checkpoint, sources, running, bytes, model, meta, staged,
                published, decoder, content, rank, layer, rows, selected, out, size, anchors, mask,
                memory, query, dir, temps, lock, job, killed, runs, failures, onnx, idx, frontier,
                visited, block>>

MakersSpec == MakersInit /\ [][MakersNext]_MakersVars

-----------------------------------------------------------------------------
\* What an export publishes has passed every postcondition in the form in which it is
\* published, and its sidecar tells the weights and the simplification of that very graph;
\* a run that does not end well leaves the old pair and no staging file (export_dfine_onnx.py).
ExportIsTrue ==
    program = "export" => /\ Export!TypeOK /\ Export!PublishedIsVerified
                          /\ Export!FailureLeavesNothing /\ Export!WeightsAreTold
                          /\ Export!SimplificationIsTold

\* Whatever the sliders, no query that was dropped scored higher than one that was kept, and
\* the box and the logits of an output row are those the trained heads give one and the same
\* query; the sidecar counts the rows, and accepted sliders run (deploy, patch_cascade).
RowsAreTrained ==
    program = "decoder" => /\ Decoder!TypeOK /\ Decoder!RowsAreTrained
                           /\ Decoder!SidecarDescribesGraph /\ Decoder!BestQueriesKept
                           /\ Decoder!AcceptedSlidersRun

\* The anchor of a query is centred on the cell its features come from, and only sizes the
\* strides divide get through (_get_decoder_input).
QueriesAreAnchored ==
    \A v \in DOMAIN Geometries : program = v =>
        Geometry(v)!TypeOK /\ Geometry(v)!QueriesAreAnchored /\ Geometry(v)!OnlyWholeSizesRun

\* A conversion never writes to its source and leaves neither files nor the lock behind;
\* where no two graphs share a sidecar, it takes its source as it was when it looked, and
\* leaves a pair of one run (convert_*.py).
ConversionIsClean ==
    \A v \in DOMAIN Conversions : program = v =>
        /\ Converting(v)!TypeOK /\ Converting(v)!NoLitter /\ Converting(v)!SourceKept
        /\ Converting(v)!OneGraphOfAStem =>
              Converting(v)!AcceptedAsFound /\ Converting(v)!PairsOfOneRun

\* The work list finds exactly the nodes that compute indices of the gathers, and they stay
\* FP32 whatever the options (build_blocklist).
IndicesStayFp32 ==
    \A v \in DOMAIN Lists : program = v =>
        List(v)!TypeOK /\ List(v)!IndicesStayFp32 /\ List(v)!SliceIsExact
=============================================================================
