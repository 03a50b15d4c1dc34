---------------------------- MODULE EvaluationRun ----------------------------
(***************************************************************************)
(* One accuracy evaluation while other tools publish artifacts and edit    *)
(* the dataset: coco_eval.py runs the backends in process, cpp_coco_eval.py*)
(* runs the native binary and scores what it wrote.  Both name what they   *)
(* measured by hashing files, some before and most after the images; the   *)
(* properties compare what a report names with what was read.              *)
(*                                                                         *)
(* A content stands for its digest: made numbers the publication, from the *)
(* graph an engine was built from, model the model contract.  A dataset    *)
(* file is the number of times it was rewritten.                           *)
(***************************************************************************)
EXTENDS Naturals, Sequences, FiniteSets, Functions

CONSTANTS
    Backends,         \* the backends in the order they are set up
    Tool,             \* "python" or "native"
    Images,           \* the selected images in order
    FilterRes,        \* whether --filter-res asks for one resolution
    Batch,            \* images per call of the native binary
    Models,           \* model contracts
    WriteDuring,      \* the phases in which the other tools write
    MaxPublications,  \* bound on the artifact pairs that are published
    MaxRewrites,      \* bound on the rewrites of dataset files and scripts
    Nothing

Backend == Range(Backends)
Image == Range(Images)
DataFile == {"annotations", "metrics"} \cup Image

Content == [made : 0 .. MaxPublications, from : 0 .. MaxPublications, model : Models]

EvaluationAssumption ==
    /\ Tool \in {"python", "native"}
    /\ Backends \in Seq({"onnx", "engine"}) /\ IsInjective(Backends) /\ Backends # <<>>
    /\ Tool = "native" => Backends = <<"engine">>
    /\ Images \in Seq(Image) /\ IsInjective(Images) /\ Images # <<>>
    /\ FilterRes \in BOOLEAN /\ Batch \in Nat \ {0}
    /\ MaxPublications \in Nat /\ MaxRewrites \in Nat
    /\ Nothing \notin Content

Pixels == [image : Image, version : 0 .. MaxRewrites]

VARIABLES
    artifact, sidecar,  \* the files of each backend
    publishing,         \* the sidecar a publication still has to write
    published,
    input, rewrites,    \* the dataset and the scripts
    resized,            \* images whose pixels are not of the annotated size
    pc, b, k,           \* the evaluator, its current backend and image
    imported,           \* the annotations and the metrics code it holds in memory
    contract, loaded, lineage,
    x, host, out, stream,  \* the input tensor and the buffers of the engine call
    chunk,              \* the images the native binary has read and not yet run
    dets,               \* what was decoded, for which image, from which pixels
    report              \* what was written, or Nothing

files == <<artifact, sidecar, publishing, published, input, rewrites, resized>>
names == <<imported, contract, lineage>>
call == <<x, host, out, stream, chunk>>
vars == <<artifact, sidecar, publishing, published, input, rewrites, resized, pc, b, k, imported,
          contract, loaded, lineage, x, host, out, stream, chunk, dets, report>>

Init ==
    /\ artifact \in {[a \in Backend |-> [made |-> 0, from |-> 0, model |-> m]] : m \in Models}
    /\ sidecar = artifact
    /\ publishing = Nothing /\ published = 0
    /\ input = [f \in DataFile |-> 0] /\ rewrites = 0
    /\ resized \in SUBSET Image
    /\ pc = (IF Tool = "python" THEN "start" ELSE "contract")
    /\ b = 1 /\ k = 1
    /\ imported = Nothing
    /\ contract = [a \in Backend |-> Nothing]
    /\ loaded = contract /\ lineage = contract
    /\ x = Nothing /\ host = Nothing /\ out = Nothing /\ stream = FALSE /\ chunk = <<>>
    /\ dets = {} /\ report = Nothing

-----------------------------------------------------------------------------
(* The other tools: a pair is published graph first, an engine is built    *)
(* from the graph of the moment.                                           *)

Publish(a) ==
    LET n == published + 1
        built == [made |-> n, from |-> artifact["onnx"].made, model |-> sidecar["onnx"].model]
    IN  /\ pc \in WriteDuring /\ publishing = Nothing /\ published < MaxPublications
        /\ published' = n
        /\ \E c \in IF a = "engine" /\ "onnx" \in Backend THEN {built}
                    ELSE {[made |-> n, from |-> n, model |-> m] : m \in Models} :
               /\ artifact' = [artifact EXCEPT ![a] = c]
               /\ publishing' = [backend |-> a, content |-> c]
        /\ UNCHANGED <<sidecar, input, rewrites, resized, pc, b, k, names, loaded, call, dets, report>>

PublishSidecar ==
    /\ publishing # Nothing
    /\ sidecar' = [sidecar EXCEPT ![publishing.backend] = publishing.content]
    /\ publishing' = Nothing
    /\ UNCHANGED <<artifact, published, input, rewrites, resized, pc, b, k, names, loaded, call, dets,
                   report>>

Rewrite(f) ==
    /\ pc \in WriteDuring /\ rewrites < MaxRewrites
    /\ rewrites' = rewrites + 1
    /\ input' = [input EXCEPT ![f] = @ + 1]
    /\ UNCHANGED <<artifact, sidecar, publishing, published, resized, pc, b, k, names, loaded, call,
                   dets, report>>

-----------------------------------------------------------------------------
(* Setting up: the annotations, then each backend's sidecar and bytes.     *)

Start ==
    /\ pc = "start"
    /\ imported' = [annotations |-> input["annotations"], metrics |-> input["metrics"]]
    /\ pc' = IF Tool = "python" THEN "contract" ELSE "load"
    /\ UNCHANGED <<files, b, k, contract, loaded, lineage, call, dets, report>>

ReadContract ==
    /\ pc = "contract"
    /\ contract' = [contract EXCEPT ![Backends[b]] = sidecar[Backends[b]]]
    /\ pc' = IF Tool = "python" THEN "load" ELSE "start"
    /\ UNCHANGED <<files, b, k, imported, loaded, lineage, call, dets, report>>

\* The bytes are read once; the native binary reads them itself.
Load ==
    /\ pc = "load"
    /\ loaded' = [loaded EXCEPT ![Backends[b]] = artifact[Backends[b]]]
    /\ pc' = IF Tool = "python" THEN "lineage" ELSE "image"
    /\ UNCHANGED <<files, b, k, names, call, dets, report>>

HashLineage ==
    /\ pc = "lineage"
    /\ lineage' = [lineage EXCEPT ![Backends[b]] = artifact[Backends[b]]]
    /\ IF b < Len(Backends) THEN pc' = "contract" /\ b' = b + 1 ELSE pc' = "match" /\ b' = 1
    /\ UNCHANGED <<files, k, imported, contract, loaded, call, dets, report>>

ContractsMatch == \A a \in Backend : contract[a].model = contract[Backends[1]].model

\* A bug that takes any engine that names a graph.
SourceRecorded == TRUE
EngineSourceMatches ==
    Backend = {"onnx", "engine"} => contract["engine"].from = artifact["onnx"].made

Match ==
    /\ pc = "match"
    /\ pc' = IF ContractsMatch /\ EngineSourceMatches THEN "image" ELSE "failed"
    /\ UNCHANGED <<files, b, k, names, loaded, call, dets, report>>

-----------------------------------------------------------------------------
(* The images: each is read once and given to every backend.               *)

Image_k == Images[k]

Pixels_k == [image |-> Image_k, version |-> input[Image_k]]

NextImage ==
    IF k < Len(Images) THEN pc' = "image" /\ k' = k + 1
    ELSE pc' = (IF Tool = "python" THEN "inputs" ELSE "last") /\ k' = k

ReadImage ==
    /\ pc = "image" /\ Tool = "python"
    /\ x' = Pixels_k
    /\ b' = 1
    /\ pc' = "infer"
    /\ UNCHANGED <<files, k, names, loaded, host, out, stream, chunk, dets, report>>

Tensor == x

SetHostInput == Tensor

\* prepare on the first call, set_host_input and bind on the later ones.
ReusableCall ==
    /\ pc = "infer" /\ Backends[b] = "engine"
    /\ host' = SetHostInput
    /\ pc' = "transfer"
    /\ UNCHANGED <<files, b, k, names, loaded, x, out, stream, chunk, dets, report>>

Transfer ==
    /\ pc = "transfer"
    /\ stream' = TRUE
    /\ pc' = "sync"
    /\ UNCHANGED <<files, b, k, names, loaded, x, host, out, chunk, dets, report>>

\* The upload, the engine and the downloads, whenever the device gets to them.
StreamRuns ==
    /\ stream
    /\ out' = host
    /\ stream' = FALSE
    /\ UNCHANGED <<files, pc, b, k, names, loaded, x, host, chunk, dets, report>>

Synchronized == ~stream

Synchronize ==
    /\ pc = "sync" /\ Synchronized
    /\ pc' = "decode"
    /\ UNCHANGED <<files, b, k, names, loaded, call, dets, report>>

Decoded(pixels) ==
    /\ dets' = dets \cup {[backend |-> Backends[b], image |-> Image_k, pixels |-> pixels]}
    /\ IF b < Len(Backends) THEN pc' = "infer" /\ b' = b + 1 /\ k' = k
       ELSE b' = b /\ NextImage

Decode ==
    /\ pc = "decode"
    /\ Decoded(out)
    /\ UNCHANGED <<files, names, loaded, call, report>>

RunOnnx ==
    /\ pc = "infer" /\ Backends[b] = "onnx"
    /\ Decoded(Tensor)
    /\ UNCHANGED <<files, names, loaded, call, report>>

-----------------------------------------------------------------------------
(* The native binary: images of the wrong decoded size are passed over, the  *)
(* others run in chunks of Batch, the last of which may be short.            *)

Skips == FilterRes /\ Image_k \in resized

SkipImage ==
    /\ pc = "image" /\ Tool = "native" /\ Skips
    /\ NextImage
    /\ UNCHANGED <<files, b, names, loaded, call, dets, report>>

TakeImage ==
    /\ pc = "image" /\ Tool = "native" /\ ~Skips
    /\ chunk' = Append(chunk, [id |-> Image_k, pixels |-> Pixels_k])
    /\ IF Len(chunk') >= Batch THEN pc' = "flush" /\ k' = k ELSE NextImage
    /\ UNCHANGED <<files, b, names, loaded, x, host, out, stream, dets, report>>

IdOfResult(i) == chunk[i].id

Results ==
    {[backend |-> "engine", image |-> IdOfResult(i), pixels |-> chunk[i].pixels] : i \in DOMAIN chunk}

Flush ==
    /\ pc = "flush"
    /\ dets' = dets \cup Results
    /\ chunk' = <<>>
    /\ NextImage
    /\ UNCHANGED <<files, b, names, loaded, x, host, out, stream, report>>

LastResults == Results

FlushLast ==
    /\ pc = "last"
    /\ dets' = dets \cup LastResults
    /\ chunk' = <<>>
    /\ pc' = "inputs"
    /\ UNCHANGED <<files, b, k, names, loaded, x, host, out, stream, report>>

\* An image that cannot be read, an output that is not finite or of another shape.
Fail ==
    /\ pc \in {"image", "infer", "flush", "last"}
    /\ pc' = "failed"
    /\ UNCHANGED <<files, b, k, names, loaded, call, dets, report>>

-----------------------------------------------------------------------------
(* The report: everything that is named is hashed now.                     *)

\* No detection at all ends the evaluation, and so does an image short.
Complete ==
    /\ dets # {}
    /\ Tool = "python" => \A a \in Backend : {d.image : d \in {e \in dets : e.backend = a}} = Image

EvaluationContract ==
    /\ pc = "inputs" /\ Complete
    /\ report' = [input |-> input, images |-> Image, artifact |-> [a \in Backend |-> Nothing],
                  lineage |-> lineage]
    /\ pc' = "entry" /\ b' = 1
    /\ UNCHANGED <<files, k, names, loaded, call, dets>>

Incomplete ==
    /\ pc = "inputs" /\ ~Complete
    /\ pc' = "failed"
    /\ UNCHANGED <<files, b, k, names, loaded, call, dets, report>>

LineageHash(a) == IF Tool = "python" THEN lineage[a] ELSE artifact[a]

BackendEntry ==
    LET a == Backends[b] IN
    /\ pc = "entry"
    /\ report' = [report EXCEPT !.artifact[a] = artifact[a], !.lineage[a] = LineageHash(a)]
    /\ IF b < Len(Backends) THEN pc' = pc /\ b' = b + 1 ELSE pc' = "written" /\ b' = b
    /\ UNCHANGED <<files, k, names, loaded, call, dets>>

Next ==
    \/ \E a \in Backend : Publish(a)
    \/ PublishSidecar
    \/ \E f \in DataFile : Rewrite(f)
    \/ Start \/ ReadContract \/ Load \/ HashLineage \/ Match
    \/ ReadImage \/ ReusableCall \/ Transfer \/ StreamRuns \/ Synchronize \/ Decode
    \/ RunOnnx \/ SkipImage \/ TakeImage \/ Flush \/ FlushLast \/ Fail
    \/ EvaluationContract \/ Incomplete \/ BackendEntry

Spec == Init /\ [][Next]_vars

-----------------------------------------------------------------------------
Phases == {"start", "contract", "load", "lineage", "match", "image", "infer", "transfer", "sync",
           "decode", "flush", "last", "inputs", "entry", "written", "failed"}

TypeOK ==
    /\ artifact \in [Backend -> Content] /\ sidecar \in [Backend -> Content]
    /\ pc \in Phases /\ b \in DOMAIN Backends /\ k \in DOMAIN Images
    /\ \A a \in Backend : {contract[a], loaded[a], lineage[a]} \subseteq Content \cup {Nothing}
    /\ \A d \in dets : d.backend \in Backend /\ d.image \in Image /\ d.pixels \in Pixels
    /\ stream => pc = "sync"
    /\ Len(chunk) <= Batch

\* The chain refuses a report whose two hashes of an artifact differ (_validate_lineage).
Accepted == pc = "written" /\ \A a \in Backend : report.lineage[a] = report.artifact[a]

\* An accepted report names the bytes that were measured, and its model contract is theirs,
\* also when the artifact is replaced while the images are evaluated (_artifact_lineage
\* before the images, backend_artifact after them).
MeasuredIsNamed ==
    Accepted => \A a \in Backend :
        loaded[a] = report.artifact[a] /\ contract[a] = report.artifact[a]

\* An accepted report on a graph and an engine is on an engine of that graph, whenever
\* either was replaced (_require_engine_source, _validate_lineage).
EngineOfNamedOnnx ==
    Accepted /\ Backend = {"onnx", "engine"} => contract["engine"].from = report.artifact["onnx"].made

\* The detections of an image come from its pixels: the engine's buffers are those of this
\* call when they are decoded (EngineBackend.reusable_call, _PreparedEngineCall).
OwnPixels == \A d \in dets : d.pixels.image = d.image

\* Two backends of one report saw the same version of every image, whenever the image was
\* rewritten (the loop of main).
SamePixels == \A d, e \in dets : d.image = e.image => d.pixels = e.pixels

\* The native evaluator leaves an image out of the scores' detections for its decoded size
\* only: a chunk that never filled up is run too (dfine_coco_eval).
UnseenIsResized ==
    report # Nothing => \A i \in report.images :
        i \in resized \/ \E d \in dets : d.image = i

=============================================================================
