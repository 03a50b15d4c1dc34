------------------------------- MODULE Detector -------------------------------
(***************************************************************************)
(* DFineDetector (src/src/tasks/detector.cpp): run_batch on its four paths *)
(* (full-pipeline graph, GPU decode, engine graph, plain enqueue) and      *)
(* freeze, above a session that keeps the promise of SessionContract and   *)
(* for an engine with a dynamic batch.                                     *)
(*                                                                         *)
(* A frame is its packed size, a call is the sequence of its frames.  Work *)
(* queued on the stream is the set of pinned host buffers it still reads   *)
(* or writes; what the GPU does between two waits of the host is only seen *)
(* through them.  A call that is refused before it changes anything is a   *)
(* stuttering step.                                                        *)
(***************************************************************************)
EXTENDS Naturals, Sequences

CONSTANTS
  Binding,        \* the engine's IO tensors
  Consumed,       \* those whose addresses the detector reads itself
  Address,        \* device addresses
  NoAddress,      \* a binding without a buffer
  Batch,          \* batch sizes of the engine's profile
  NoBatch,        \* no batch (-1 in the code)
  MaxCall,        \* bound: images a caller passes at once
  Size,           \* frame sizes
  InputSize,      \* the engine's own input size, freeze()'s default
  Pinned,         \* addresses of pinned result buffers
  UseCudaGraph,   \* DetectorOptions.use_cuda_graph on a capturable engine
  GpuDecode,      \* DetectorOptions.gpu_decode, with FP32 outputs
  FullPipeline,   \* DetectorOptions.full_pipeline_graph, without auxiliary streams
  MaxGeneration   \* bound: how often the session replaces its buffers

ASSUME DetectorAssumption ==
  /\ Consumed \subseteq Binding
  /\ NoAddress \notin Address
  /\ Batch \subseteq Nat \ {0} /\ NoBatch \notin Batch
  /\ \E n \in Batch : \A m \in Batch : m <= n
  /\ MaxCall \in Nat /\ MaxGeneration \in Nat
  /\ Size \subseteq Nat \ {0} /\ InputSize \in Size
  /\ {UseCudaGraph, GpuDecode, FullPipeline} \subseteq BOOLEAN
  /\ FullPipeline => GpuDecode

VARIABLES
  \* the session (SessionContract)
  state, session_frozen, shape, device, generation, ran,
  \* the call under way
  pc,             \* its next step; "idle" between calls
  images,         \* its frames
  done,           \* how many of them were preprocessed
  warm,           \* warm-up runs freeze() still owes, this one included; 0: a caller's call
  spec,           \* what freeze() was asked for
  \* the detector
  graph_ctx_batch,    \* graph_ctx_batch_: batch the context is flushed for
  graphs,             \* graphs_: per batch, what the captured engine graph baked in
  pinned,             \* pinned_logits_ and pinned_boxes_, with the batch they hold
  graph_disabled,     \* graph_disabled_
  gdec,               \* GPU-decode scratch: its allocation and gdec_cap_batch_
  staging,            \* capacity of the preprocessor's staging buffers
  staging_frozen,     \* the preprocessor is frozen
  frozen,             \* frozen_, frozen_batch_, frozen_src_*, frozen_source_bounded_
  full,               \* what the full-pipeline graph baked in, once full_ready_
  \* the stream
  flushed,        \* batch whose deferred shape setup the last enqueue executed
  inflight,       \* pinned host buffers that queued work still uses
  torn            \* the host touched such a buffer

session == <<state, session_frozen, shape, device, generation, ran>>
call == <<images, done, warm, spec>>
captured == <<graphs, pinned, graph_disabled, full>>
memory == <<gdec, staging>>
locks == <<frozen, staging_frozen>>
stream == <<flushed, inflight, torn>>
vars == <<session, pc, call, graph_ctx_batch, captured, memory, locks, stream>>

Session == INSTANCE SessionContract WITH Shape <- Batch, NoShape <- NoBatch,
                                         frozen <- session_frozen

HostBuffer == {"staging", "maps", "survivors", "slab", "outputs"}
Calls == UNION {[1..n -> Size] : n \in 1..MaxCall}
NoGraph == [ready |-> FALSE]
MaxBatch == CHOOSE n \in Batch : \A m \in Batch : m <= n
B == Len(images)

Init ==
  /\ Session!Init
  /\ device = [b \in Binding |-> NoAddress]
  /\ pc = "idle" /\ images = <<>> /\ done = 0 /\ warm = 0
  /\ spec = [batch |-> NoBatch, src |-> InputSize, bounded |-> FALSE]
  /\ graph_ctx_batch = NoBatch
  /\ graphs = [b \in Batch |-> NoGraph]
  /\ pinned \in [addr : Pinned, cap : {0}]
  /\ graph_disabled = FALSE
  /\ gdec = [block |-> 0, cap |-> 0]
  /\ staging = 0 /\ staging_frozen = FALSE
  /\ frozen = [on |-> FALSE, batch |-> NoBatch, src |-> InputSize, bounded |-> FALSE]
  /\ full = NoGraph
  /\ flushed = NoBatch /\ inflight = {} /\ torn = FALSE

-----------------------------------------------------------------------------
(* The stream.                                                             *)

\* The host reads or writes buffers while the operations of "queued" are pending.
Touch(buffers, queued) == torn' = (torn \/ buffers \cap queued # {})
Queue(buffers) == inflight' = inflight \cup buffers
Idle == inflight' = {}

\* One inference on addresses and batch a captured graph baked in.
Replay(batch, addresses) ==
  /\ ran' = [shape |-> batch, device |-> addresses]
  /\ UNCHANGED <<state, session_frozen, shape, device, generation>>

-----------------------------------------------------------------------------
(* run_batch.                                                              *)

\* A bug that gates the replay on the frames only.
FullGateOnFrames(ims) ==
  /\ full.ready
  /\ Len(ims) = full.batch
  /\ \A k \in DOMAIN ims : ims[k] = full.src

\* The full-pipeline graph serves the call.
FullGate(ims) ==
  /\ full.ready
  /\ state = "clean"
  /\ Len(ims) = full.batch
  /\ graph_ctx_batch = full.batch
  /\ \A k \in DOMAIN ims : ims[k] = full.src

OverBound(ims) == frozen.bounded /\ \E k \in DOMAIN ims : ims[k] > frozen.src

\* The marker is dropped before an attempt to change the batch.
MarkerAtEntry(ims) == IF graph_ctx_batch = Len(ims) THEN graph_ctx_batch ELSE NoBatch

Enter(ims) ==
  /\ images' = ims
  /\ done' = 0
  /\ \/ /\ FullGate(ims)
        /\ pc' = "full"
        /\ UNCHANGED graph_ctx_batch
     \/ /\ ~ FullGate(ims) /\ OverBound(ims)
        /\ pc' = "throw"
        /\ UNCHANGED graph_ctx_batch
     \/ /\ ~ FullGate(ims) /\ ~ OverBound(ims)
        /\ pc' = "shape"
        /\ graph_ctx_batch' = MarkerAtEntry(ims)

\* detect() and detect_batch().
Detect(ims) ==
  /\ pc = "idle"
  /\ Enter(ims)
  /\ warm' = 0
  /\ UNCHANGED <<session, spec, captured, memory, locks, stream>>

BatchRefused ==
  \/ frozen.on /\ B > frozen.batch
  \/ B \notin Batch
  \/ state = "poisoned"

\* set_batch_ refuses the batch, or a poisoned session refuses any.
RefuseBatch ==
  /\ pc = "shape"
  /\ BatchRefused
  /\ pc' = "throw"
  /\ UNCHANGED <<session, call, graph_ctx_batch, captured, memory, locks, stream>>

\* set_input_shape on a session that is already there.
KeepShape ==
  /\ pc = "shape" /\ ~ BatchRefused
  /\ state = "clean" /\ shape = B
  /\ pc' = "images"
  /\ UNCHANGED <<session, call, graph_ctx_batch, captured, memory, locks, stream>>

\* set_input_shape commits.  The context's setup for the new shape is deferred to its
\* next enqueue.
SetShape ==
  /\ pc = "shape" /\ ~ BatchRefused
  /\ ~ (state = "clean" /\ shape = B)
  /\ Session!Settle(B)
  /\ generation' <= MaxGeneration
  /\ flushed' = NoBatch /\ Idle
  /\ pc' = "images"
  /\ UNCHANGED <<call, graph_ctx_batch, captured, memory, locks, torn>>

\* set_input_shape throws.
SetShapeFails ==
  /\ pc = "shape" /\ ~ BatchRefused
  /\ ~ (state = "clean" /\ shape = B)
  /\ Session!Break \/ Session!Poison
  /\ flushed' = NoBatch /\ Idle
  /\ pc' = "throw"
  /\ UNCHANGED <<call, graph_ctx_batch, captured, memory, locks, torn>>

Frame == images[done + 1]
StagingGrows == Frame > staging

\* A bug that packs the next image without waiting for the last upload.
NoUploadWait == inflight

\* process() first waits for its own last upload.
AfterUploadWait == inflight \ {"staging"}

StagingGrown == Frame

StagingMayGrow == ~ staging_frozen

\* The preprocessor takes the next image.
Preprocess ==
  /\ pc = "images"
  /\ StagingGrows => StagingMayGrow
  /\ Touch({"staging"}, AfterUploadWait)
  /\ inflight' = AfterUploadWait \cup {"staging"}
  /\ staging' = IF StagingGrows THEN StagingGrown ELSE staging
  /\ done' = done + 1
  /\ pc' = CASE done' < B -> "images"
             [] done' = B /\ GpuDecode -> "decode"
             [] OTHER -> "engine"
  /\ UNCHANGED <<session, images, warm, spec, graph_ctx_batch, captured, gdec, locks, flushed>>

\* It refuses to grow or fails to (both buffers are gone then), or queues only a part.
PreprocessFails ==
  /\ pc = "images"
  /\ \/ UNCHANGED <<staging, inflight, torn>>
     \/ /\ StagingGrows /\ StagingMayGrow
        /\ staging' = 0
        /\ inflight' = AfterUploadWait
        /\ UNCHANGED torn
     \/ /\ StagingGrows => StagingMayGrow
        /\ Touch({"staging"}, AfterUploadWait)
        /\ inflight' = AfterUploadWait \cup {"staging"}
        /\ staging' = IF StagingGrows THEN StagingGrown ELSE staging
  /\ pc' = "throw"
  /\ UNCHANGED <<session, call, graph_ctx_batch, captured, gdec, locks, flushed>>

-----------------------------------------------------------------------------
(* GPU decode.                                                             *)

ScratchShort == B > gdec.cap
NewBlock == 1 - gdec.block

\* ensure_gpu_decode_ allocates for the engine's largest batch and waits for the stream.
GrowScratch ==
  /\ pc = "decode" /\ ScratchShort /\ ~ frozen.on
  /\ gdec' = [block |-> NewBlock, cap |-> MaxBatch]
  /\ Idle
  /\ UNCHANGED <<session, pc, call, graph_ctx_batch, captured, staging, locks, flushed, torn>>

\* A failure before the commit keeps the old block, one after it keeps the old capacity.
GrowScratchFails ==
  /\ pc = "decode" /\ ScratchShort
  /\ \/ UNCHANGED gdec
     \/ ~ frozen.on /\ gdec' = [gdec EXCEPT !.block = NewBlock]
  /\ pc' = "throw"
  /\ UNCHANGED <<session, call, graph_ctx_batch, captured, staging, locks, stream>>

\* A bug that forgets that this call flushed the context.
MarkerForgotten == graph_ctx_batch

MarkerAfterDecode == B

\* The inference, the coordinate maps, the decode and the copy of its results.
Decode ==
  /\ pc = "decode" /\ ~ ScratchShort
  /\ Session!Run
  /\ flushed' = B
  /\ graph_ctx_batch' = MarkerAfterDecode
  /\ Touch({"maps"}, inflight)
  /\ \/ Queue({"maps", "survivors"}) /\ pc' = "wait"
     \/ Queue({"maps"}) /\ pc' = "throw"
  /\ UNCHANGED <<call, captured, memory, locks>>

-----------------------------------------------------------------------------
(* The engine graph and the plain path.                                    *)

\* A bug that compares only the addresses the detector knows.
StaleAddressesOnly(g) ==
  \/ \E b \in Consumed : g.device[b] # device[b]
  \/ g.pinned # pinned.addr

\* A bug that compares the device side only.
StaleDeviceOnly(g) ==
  \/ g.generation # generation
  \/ \E b \in Consumed : g.device[b] # device[b]

\* graph_stale_: the generation covers the bindings the detector never looks at.
Stale(g) ==
  \/ g.generation # generation
  \/ \E b \in Consumed : g.device[b] # device[b]
  \/ g.pinned # pinned.addr

MayReplay == UseCudaGraph /\ ~ graph_disabled /\ graph_ctx_batch = B

EraseStale ==
  /\ pc = "engine" /\ MayReplay
  /\ graphs[B].ready /\ Stale(graphs[B])
  /\ graphs' = [graphs EXCEPT ![B] = NoGraph]
  /\ UNCHANGED <<session, pc, call, graph_ctx_batch, pinned, graph_disabled, full, memory, locks,
                 stream>>

\* Capturing allocates.
MayCapture == ~ frozen.on

\* ensure_pinned_: the new buffer is allocated before the old one is released.
PinnedFor(batch) ==
  IF pinned.cap >= batch
    THEN {pinned}
    ELSE [addr : Pinned \ (IF pinned.cap = 0 THEN {} ELSE {pinned.addr}), cap : {batch}]

\* Warm-up enqueues, the wait, the capture and its instantiation.
Capture ==
  /\ pc = "engine" /\ MayReplay
  /\ ~ graphs[B].ready /\ MayCapture
  /\ Session!Run
  /\ flushed' = B /\ Idle
  /\ pinned' \in PinnedFor(B)
  /\ graphs' = [graphs EXCEPT ![B] = [ready |-> TRUE, device |-> device,
                                      generation |-> generation, pinned |-> pinned'.addr]]
  /\ UNCHANGED <<pc, call, graph_ctx_batch, graph_disabled, full, memory, locks, torn>>

\* A capture that fails is not tried again; the context stays usable unless it is
\* poisoned (EnqueueFails, WaitFails).
CaptureFails ==
  /\ pc = "engine" /\ MayReplay
  /\ ~ graphs[B].ready /\ MayCapture
  /\ graph_disabled' = TRUE
  /\ pinned' \in PinnedFor(B) \cup {pinned}
  /\ UNCHANGED <<session, pc, call, graph_ctx_batch, graphs, full, memory, locks, stream>>

ReplayEngine ==
  /\ pc = "engine" /\ MayReplay
  /\ graphs[B].ready /\ ~ Stale(graphs[B])
  /\ \/ /\ Replay(B, graphs[B].device)
        /\ Queue({"outputs"})
        /\ pc' = "wait"
     \/ pc' = "throw" /\ UNCHANGED <<session, inflight>>
  /\ UNCHANGED <<call, graph_ctx_batch, captured, memory, locks, flushed, torn>>

Enqueue ==
  /\ pc = "engine"
  /\ ~ MayReplay \/ (~ graphs[B].ready /\ ~ MayCapture)
  /\ Session!Run
  /\ flushed' = B
  /\ Queue({"outputs"})
  /\ pc' = "copy"
  /\ UNCHANGED <<call, graph_ctx_batch, captured, memory, locks, torn>>

\* The session rejects an enqueue of the decode, plain or capture path.
EnqueueFails ==
  /\ \/ pc = "decode" /\ ~ ScratchShort
     \/ pc = "engine" /\ ~ (MayReplay /\ graphs[B].ready)
  /\ Session!Poison
  /\ pc' = "throw"
  /\ UNCHANGED <<call, graph_ctx_batch, captured, memory, locks, stream>>

\* get_output_f32 of every output waits; only then is the context marked as flushed.
CopyOutputs ==
  /\ pc = "copy"
  /\ Idle
  /\ graph_ctx_batch' = B
  /\ pc' = "return"
  /\ UNCHANGED <<session, call, captured, memory, locks, flushed, torn>>

-----------------------------------------------------------------------------
(* The full-pipeline graph, and how calls end.                             *)

\* The frames are packed and the graph is launched; TensorRT is not called.
ReplayFull ==
  /\ pc = "full"
  /\ Touch({"slab"}, inflight)
  /\ \/ /\ Replay(full.batch, full.device)
        /\ Queue({"slab", "survivors"})
        /\ pc' = "wait"
     \/ pc' = "throw" /\ UNCHANGED <<session, inflight>>
  /\ UNCHANGED <<call, graph_ctx_batch, captured, memory, locks, flushed>>

\* session.synchronize, after which the host reads the results.
Wait ==
  /\ pc = "wait"
  /\ Idle
  /\ pc' = "return"
  /\ UNCHANGED <<session, call, graph_ctx_batch, captured, memory, locks, flushed, torn>>

WaitFails ==
  /\ pc \in {"wait", "copy"}
  /\ Session!Poison
  /\ Idle
  /\ pc' = "throw"
  /\ UNCHANGED <<call, graph_ctx_batch, captured, memory, locks, flushed, torn>>

Return ==
  /\ pc = "return"
  /\ warm' = IF warm = 0 THEN 0 ELSE warm - 1
  /\ \/ /\ warm = 0
        /\ pc' = "idle" /\ images' = <<>> /\ done' = 0
        /\ UNCHANGED graph_ctx_batch
     \/ /\ warm > 1
        /\ Enter(images)
     \/ /\ warm = 1
        /\ pc' = IF FullPipeline THEN "capture" ELSE "lock"
        /\ UNCHANGED <<images, done, graph_ctx_batch>>
  /\ UNCHANGED <<session, spec, captured, memory, locks, stream>>

\* DrainOnException.
AfterDrain == {}

\* The exception leaves run_batch or freeze_.  The drain poisons the session when the
\* stream itself reports an error.
Throw ==
  /\ pc = "throw"
  /\ Session!Poison \/ UNCHANGED session
  /\ inflight' = AfterDrain
  /\ pc' = "idle" /\ images' = <<>> /\ done' = 0 /\ warm' = 0
  /\ UNCHANGED <<spec, graph_ctx_batch, captured, memory, locks, flushed, torn>>

-----------------------------------------------------------------------------
(* freeze.                                                                 *)

\* A bug that warms up once although a graph is captured on a later run.
WarmOnce == 1

\* The run after the one that flushes the shape captures the engine graph.
WarmRuns == IF UseCudaGraph THEN 3 ELSE 1

FreezeSpec == {s \in [batch : Batch, src : Size, bounded : BOOLEAN] :
                 ~ s.bounded => s.src = InputSize}

\* freeze_ on a detector that is not frozen: warm up first.
Freeze(s) ==
  /\ pc = "idle" /\ ~ frozen.on
  /\ spec' = s
  /\ warm' = WarmRuns
  /\ Enter([k \in 1..s.batch |-> s.src])
  /\ UNCHANGED <<session, captured, memory, locks, stream>>

\* The same configuration again, now with explicit source bounds.
Refreeze(s) ==
  /\ pc = "idle" /\ frozen.on
  /\ s.batch = frozen.batch /\ s.src = frozen.src
  /\ s.bounded /\ ~ frozen.bounded
  /\ staging_frozen' = TRUE
  /\ frozen' = [frozen EXCEPT !.bounded = TRUE]
  /\ UNCHANGED <<session, pc, call, graph_ctx_batch, captured, memory, stream>>

\* capture_full_graph_: warm-up runs, capture, instantiation and one replay.
CaptureFull ==
  /\ pc = "capture"
  /\ Session!Run
  /\ Touch({"slab", "maps"}, inflight)
  /\ flushed' = spec.batch /\ Idle
  /\ full' = [ready |-> TRUE, batch |-> spec.batch, src |-> spec.src,
              device |-> device, block |-> gdec.block]
  /\ pc' = "lock"
  /\ UNCHANGED <<call, graph_ctx_batch, graphs, pinned, graph_disabled, memory, locks>>

\* release_full_graph_state_ drains and drops everything; a poisoned session makes
\* freeze_ throw, any other failure leaves the split path.
CaptureFullFails ==
  /\ pc = "capture"
  /\ \/ Session!Poison /\ pc' = "throw"
     \/ UNCHANGED session /\ pc' = "lock"
  /\ Idle
  /\ UNCHANGED <<call, graph_ctx_batch, captured, memory, locks, flushed, torn>>

Locked == [on |-> TRUE, batch |-> spec.batch, src |-> spec.src, bounded |-> spec.bounded]

\* The allocation lock.
Lock ==
  /\ pc = "lock"
  /\ Session!Freeze
  /\ frozen' = Locked
  /\ staging_frozen' = (staging_frozen \/ spec.bounded)
  /\ pc' = "idle" /\ images' = <<>> /\ done' = 0
  /\ UNCHANGED <<warm, spec, graph_ctx_batch, captured, memory, stream>>

-----------------------------------------------------------------------------
RunBatch ==
  \/ RefuseBatch \/ KeepShape \/ SetShape \/ SetShapeFails
  \/ Preprocess \/ PreprocessFails
  \/ GrowScratch \/ GrowScratchFails \/ Decode \/ EnqueueFails
  \/ EraseStale \/ Capture \/ CaptureFails \/ ReplayEngine \/ Enqueue \/ CopyOutputs
  \/ ReplayFull \/ Wait \/ WaitFails \/ Return \/ Throw

Next ==
  \/ \E ims \in Calls : Detect(ims)
  \/ \E s \in FreezeSpec : Freeze(s) \/ Refreeze(s)
  \/ RunBatch
  \/ CaptureFull \/ CaptureFullFails \/ Lock

Spec == Init /\ [][Next]_vars

-----------------------------------------------------------------------------
(* Properties.                                                             *)

Graph == [ready : {TRUE}, device : Session!Buffers, generation : Nat, pinned : Pinned]
FullGraph == [ready : {TRUE}, batch : Batch, src : Size, device : Session!Buffers, block : {0, 1}]

TypeOK ==
  /\ pc \in {"idle", "shape", "images", "decode", "engine", "copy", "full", "wait", "return",
             "throw", "capture", "lock"}
  /\ images \in Seq(Size)
  /\ done \in 0..B
  /\ warm \in 0..3
  /\ graph_ctx_batch \in Batch \cup {NoBatch}
  /\ flushed \in Batch \cup {NoBatch}
  /\ graphs \in [Batch -> Graph \cup {NoGraph}]
  /\ full \in FullGraph \cup {NoGraph}
  /\ pinned \in [addr : Pinned, cap : Batch \cup {0}]
  /\ gdec \in [block : {0, 1}, cap : Batch \cup {0}]
  /\ staging \in Size \cup {0}
  /\ inflight \subseteq HostBuffer
  /\ {graph_disabled, staging_frozen, torn} \subseteq BOOLEAN

\* The marker is never ahead of the context: it names a batch only while the last thing
\* the context did was to run at that batch, whatever calls failed or were refused since.
MarkerTrusted ==
  graph_ctx_batch # NoBatch /\ state # "poisoned" =>
    /\ flushed = graph_ctx_batch
    /\ state = "clean"
    /\ shape = graph_ctx_batch

\* A replay is indistinguishable from an inference through the session: it runs only in a
\* clean session, at the committed batch, on the buffers all bindings have now.
ReplaysAreInferences == Session!Spec

\* A graph that may be replayed writes its results where they are read: into the pinned
\* buffers the detector holds now, which are large enough for the batch, although the
\* allocator reuses addresses.
ResultsLand ==
  \A b \in Batch : graphs[b].ready /\ ~ Stale(graphs[b]) =>
    graphs[b].pinned = pinned.addr /\ pinned.cap >= b

\* The full-pipeline graph has no staleness check: everything it baked in must stay.
FullGraphPinned ==
  full.ready /\ pc # "lock" =>
    /\ full.device = device
    /\ full.block = gdec.block
    /\ gdec.cap >= full.batch
    /\ frozen.on

\* Between calls nothing runs on the stream that a later call could collide with.
DrainedBetweenCalls == pc = "idle" => inflight = {}

\* The host never reads or writes a pinned buffer that queued work uses.
NeverTorn == ~ torn

\* Once frozen: no device buffer moves, no graph is captured, no scratch is allocated, and
\* with a source bound no staging either.
FrozenAllocatesNothing ==
  [][frozen.on =>
       /\ UNCHANGED <<device, generation, gdec, pinned, full>>
       /\ \A b \in Batch : graphs'[b] \in {graphs[b], NoGraph}
       /\ frozen.bounded => UNCHANGED staging]_vars

\* freeze() leaves the engine graph of its batch captured and current, so that the first
\* call after it replays, unless capturing failed.
FreezeSettles ==
  frozen.on /\ UseCudaGraph /\ ~ GpuDecode /\ ~ graph_disabled =>
    graphs[frozen.batch].ready /\ ~ Stale(graphs[frozen.batch])

\* The gates heal: after a call at the frozen batch succeeded, on whichever path, the next
\* matching call is served by the full-pipeline graph.
GatesHeal ==
  pc = "return" /\ full.ready /\ B = full.batch => FullGate([k \in 1..full.batch |-> full.src])

\* detector.cpp, on a second freeze() that adds source bounds: "staging was already warmed
\* at exactly this size".
StagingWarmWhenFrozen == staging_frozen => staging >= frozen.src
==============================================================================
