---------------------------- MODULE DetectorProofs ----------------------------
(* The detector for any bindings, batches, sizes and options.  The invariants
   the runs check are not inductive one by one: the marker is right because a
   call drops it before it reconfigures the context, the full-pipeline graph
   because the lock follows its capture, and the replay after freeze() because
   of what the warm-up runs have left.  IInv ties these to the step of the call
   that is under way.                                                         *)
EXTENDS Detector, TLAPS

Steps == {"idle", "shape", "images", "decode", "engine", "copy", "full", "wait", "return",
          "throw", "capture", "lock"}

\* The types of the session and of what freeze() was asked for.
Shapes ==
  /\ state \in {"clean", "dirty", "poisoned"} /\ session_frozen \in BOOLEAN
  /\ shape \in Batch \cup {NoBatch} /\ device \in Session!Buffers /\ generation \in Nat
  /\ spec \in [batch : Batch \cup {NoBatch}, src : Size, bounded : BOOLEAN]
  /\ frozen \in [on : BOOLEAN, batch : Batch \cup {NoBatch}, src : Size, bounded : BOOLEAN]

\* The context of the call under way.
InCall ==
  /\ pc \notin {"idle", "throw", "lock"} => graph_ctx_batch \in {NoBatch, B}
  /\ pc \in {"images", "decode", "engine", "copy", "wait", "return", "capture"} =>
       state = "clean" /\ shape = B /\ B \in Batch
  /\ pc \in {"wait", "return", "capture"} => graph_ctx_batch = B
  /\ pc = "shape" => done = 0
  /\ pc = "images" => done < B
  /\ pc = "copy" => flushed = B
  /\ pc = "full" => FullGate(images)
  /\ pc = "decode" => GpuDecode
  /\ pc \in {"engine", "copy"} => ~ GpuDecode

\* What may be queued at each step.
Flight ==
  /\ pc \in {"idle", "shape", "full", "return", "capture", "lock"} => inflight = {}
  /\ pc \in {"images", "decode", "engine"} => inflight \subseteq {"staging"}

\* The full-pipeline graph is current from its capture on.
FullCurrent ==
  full.ready =>
    /\ full.device = device
    /\ full.block = gdec.block
    /\ gdec.cap >= full.batch
    /\ frozen.on \/ pc = "lock"

Locks ==
  /\ frozen.on => session_frozen
  /\ frozen.bounded => staging_frozen

\* An engine graph of the current generation has the current addresses.
GraphsDated ==
  \A b \in Batch : graphs[b].ready =>
    /\ pinned.cap >= b
    /\ graphs[b].generation <= generation
    /\ graphs[b].generation = generation => graphs[b].device = device

\* The warm-up runs of freeze().
Warming ==
  /\ warm > 0 => ~ frozen.on /\ B = spec.batch
  /\ pc \in {"capture", "lock"} => ~ frozen.on /\ B = spec.batch /\ B \in Batch
  /\ pc \in {"idle", "capture", "lock"} => warm = 0
  /\ FullPipeline /\ warm > 0 /\ pc \in {"wait", "return"} => gdec.cap >= B
  /\ pc = "capture" => gdec.cap >= B /\ FullPipeline

Replayable(b) == UseCudaGraph /\ ~ GpuDecode /\ ~ graph_disabled
  => graphs[b].ready /\ ~ Stale(graphs[b])

\* The first warm-up run flushes the context, so that the second captures.
Settling ==
  /\ UseCudaGraph /\ warm \in 1..2 /\ pc \notin {"idle", "throw"} => graph_ctx_batch = B
  /\ warm \in 1..2 /\ pc \in {"copy", "wait", "return"} => Replayable(B)
  /\ pc \in {"capture", "lock"} => Replayable(B)

IInv ==
  /\ TypeOK /\ Shapes /\ MarkerTrusted /\ InCall /\ Flight /\ NeverTorn
  /\ FullCurrent /\ Locks /\ GraphsDated /\ Warming /\ Settling /\ FreezeSettles

LEMMA GraphFacts ==
    ASSUME IInv, NEW b \in Batch, graphs[b].ready
    PROVE  /\ graphs[b].generation \in Nat /\ graphs[b].device \in Session!Buffers
           /\ graphs[b].pinned \in Pinned
<1>1. graphs[b] \in Graph \cup {NoGraph} BY DEF IInv, TypeOK
<1>2. graphs[b] # NoGraph BY DEF NoGraph
<1> QED BY <1>1, <1>2 DEF Graph

\* The pinned result buffers only grow, to what the batch needs.
LEMMA PinnedGrows ==
    ASSUME IInv, NEW n \in Batch, NEW new \in PinnedFor(n)
    PROVE  /\ new \in [addr : Pinned, cap : Batch \cup {0}]
           /\ new.cap \in Nat /\ pinned.cap \in Nat
           /\ new.cap >= pinned.cap /\ new.cap >= n
<1>1. pinned \in [addr : Pinned, cap : Batch \cup {0}]
  BY DEF IInv, TypeOK
<1>2. pinned.cap \in Nat /\ n \in Nat
  <2>1. Batch \subseteq Nat BY DetectorAssumption
  <2>2. pinned.cap \in Batch \cup {0} BY <1>1
  <2>3. 0 \in Nat OBVIOUS
  <2> QED BY <2>1, <2>2, <2>3, Zenon
<1>3. CASE pinned.cap >= n BY <1>1, <1>2, <1>3 DEF PinnedFor
<1>4. CASE ~ (pinned.cap >= n)
  <2>1. new \in [addr : Pinned, cap : {n}] BY <1>4 DEF PinnedFor
  <2> QED BY <1>2, <1>4, <2>1
<1> QED BY <1>3, <1>4

LEMMA CapsAreNumbers == IInv => pinned.cap \in Nat /\ gdec.cap \in Nat
<1> SUFFICES ASSUME IInv PROVE pinned.cap \in Nat /\ gdec.cap \in Nat
  OBVIOUS
<1>1. Batch \subseteq Nat BY DetectorAssumption
<1>2. pinned.cap \in Batch \cup {0} /\ gdec.cap \in Batch \cup {0}
  BY DEF IInv, TypeOK
<1>3. 0 \in Nat OBVIOUS
<1> QED BY <1>1, <1>2, <1>3, Zenon

LEMMA FullFacts ==
    ASSUME IInv, full.ready
    PROVE  full.batch \in Batch /\ full.batch \in Nat /\ full.batch > 0
<1>1. full \in FullGraph \cup {NoGraph} BY DEF IInv, TypeOK
<1>2. full # NoGraph BY DEF NoGraph
<1>3. full.batch \in Batch BY <1>1, <1>2 DEF FullGraph
<1>4. full.batch \in Nat \ {0} BY <1>3, DetectorAssumption, Zenon
<1> QED BY <1>3, <1>4

------------------------------
(* A call begins or goes on.                                               *)

\* RefuseBatch keeps the invariant.
LEMMA RefuseBatchIInv ==
    ASSUME IInv, RefuseBatch
    PROVE  IInv'
<1>1. /\ pc = "shape" /\ pc' = "throw"
      /\ UNCHANGED <<state, session_frozen, shape, device, generation, images, done, warm, spec,
                     graphs, pinned, graph_disabled, full, gdec, staging, frozen,
                     staging_frozen, graph_ctx_batch, flushed, inflight, torn>>
  BY DEF RefuseBatch, session, call, captured, memory, locks, stream
<1>2. TypeOK' /\ Shapes'
  BY <1>1, DetectorAssumption DEF IInv, TypeOK, Shapes, B
<1>3. MarkerTrusted' BY <1>1 DEF IInv, MarkerTrusted
<1>4. InCall' BY <1>1 DEF IInv, InCall, FullGate, B
<1>5. Flight' /\ NeverTorn' BY <1>1 DEF IInv, Flight, NeverTorn
<1>6. FullCurrent' /\ Locks' BY <1>1 DEF IInv, FullCurrent, Locks
<1>7. GraphsDated' BY <1>1 DEF IInv, GraphsDated
<1>8. Warming' BY <1>1 DEF IInv, Warming, B
<1>9. Settling' /\ FreezeSettles'
  BY <1>1 DEF IInv, Settling, FreezeSettles, Replayable, Stale, B
<1> QED BY <1>2, <1>3, <1>4, <1>5, <1>6, <1>7, <1>8, <1>9 DEF IInv

\* KeepShape keeps the invariant.
LEMMA KeepShapeIInv ==
    ASSUME IInv, KeepShape
    PROVE  IInv'
<1>1. /\ pc = "shape" /\ pc' = "images"
      /\ B \in Batch /\ state = "clean" /\ shape = B
      /\ UNCHANGED <<state, session_frozen, shape, device, generation, images, done, warm, spec,
                     graphs, pinned, graph_disabled, full, gdec, staging, frozen,
                     staging_frozen, graph_ctx_batch, flushed, inflight, torn>>
  BY DEF KeepShape, BatchRefused, session, call, captured, memory, locks, stream
<1>2. TypeOK' /\ Shapes'
  BY <1>1, DetectorAssumption DEF IInv, TypeOK, Shapes, B
<1>3. MarkerTrusted' BY <1>1 DEF IInv, MarkerTrusted
<1>4. InCall' BY <1>1, DetectorAssumption DEF IInv, InCall, FullGate, B
<1>5. Flight' /\ NeverTorn' BY <1>1 DEF IInv, Flight, NeverTorn
<1>6. FullCurrent' /\ Locks' BY <1>1 DEF IInv, FullCurrent, Locks
<1>7. GraphsDated' BY <1>1 DEF IInv, GraphsDated
<1>8. Warming' BY <1>1 DEF IInv, Warming, B
<1>9. Settling' /\ FreezeSettles'
  BY <1>1 DEF IInv, Settling, FreezeSettles, Replayable, Stale, B
<1> QED BY <1>2, <1>3, <1>4, <1>5, <1>6, <1>7, <1>8, <1>9 DEF IInv

\* SetShape keeps the invariant.
LEMMA SetShapeIInv ==
    ASSUME IInv, SetShape
    PROVE  IInv'
<1>1. /\ pc = "shape" /\ pc' = "images"
      /\ B \in Batch /\ state # "poisoned" /\ ~ (state = "clean" /\ shape = B)
      /\ state' = "clean" /\ shape' = B /\ session_frozen' = session_frozen
      /\ \/ UNCHANGED <<device, generation>>
         \/ ~ session_frozen /\ device' \in Session!Buffers /\ generation' = generation + 1
      /\ flushed' = NoBatch /\ inflight' = {} /\ torn' = torn
      /\ UNCHANGED <<images, done, warm, spec, graph_ctx_batch, graphs, pinned, graph_disabled,
                     full, gdec, staging, frozen, staging_frozen>>
  BY DEF SetShape, BatchRefused, Idle, Session!Settle, Session!Replace, call, captured, memory,
     locks
<1>2. graph_ctx_batch = NoBatch BY <1>1 DEF IInv, InCall, MarkerTrusted
<1>3. TypeOK' /\ Shapes'
  BY <1>1, <1>2, DetectorAssumption DEF IInv, TypeOK, Shapes, B
<1>4. MarkerTrusted' BY <1>1, <1>2 DEF IInv, MarkerTrusted
<1>5. InCall'
  BY <1>1, <1>2, DetectorAssumption DEF IInv, InCall, FullGate, B
<1>6. Flight' /\ NeverTorn' BY <1>1, <1>2 DEF IInv, Flight, NeverTorn
<1>7. FullCurrent' /\ Locks' BY <1>1, <1>2 DEF IInv, FullCurrent, Locks
<1>8. GraphsDated'
  BY <1>1, <1>2, GraphFacts DEF IInv, GraphsDated, Shapes
<1>9. Warming' BY <1>1, <1>2 DEF IInv, Warming, B
<1>10. Settling' /\ FreezeSettles'
  BY <1>1, <1>2 DEF IInv, Settling, FreezeSettles, Replayable, Stale, B, Locks
<1> QED BY <1>3, <1>4, <1>5, <1>6, <1>7, <1>8, <1>9, <1>10 DEF IInv

\* SetShapeFails keeps the invariant.
LEMMA SetShapeFailsIInv ==
    ASSUME IInv, SetShapeFails
    PROVE  IInv'
<1>1. /\ pc = "shape" /\ pc' = "throw"
      /\ state # "poisoned" /\ ~ (state = "clean" /\ shape = B) /\ B \in Batch
      /\ state' \in {"dirty", "poisoned"}
      /\ flushed' = NoBatch /\ inflight' = {} /\ torn' = torn
      /\ UNCHANGED <<session_frozen, shape, device, generation, images, done, warm, spec,
                     graph_ctx_batch, graphs, pinned, graph_disabled, full, gdec, staging,
                     frozen, staging_frozen>>
  BY DEF SetShapeFails, BatchRefused, Idle, Session!Break, Session!Poison, call, captured,
     memory, locks
<1>2. graph_ctx_batch = NoBatch BY <1>1 DEF IInv, InCall, MarkerTrusted
<1>3. TypeOK' /\ Shapes'
  BY <1>1, <1>2, DetectorAssumption DEF IInv, TypeOK, Shapes, B
<1>4. MarkerTrusted' BY <1>1, <1>2 DEF IInv, MarkerTrusted
<1>5. InCall' BY <1>1, <1>2 DEF IInv, InCall, FullGate, B
<1>6. Flight' /\ NeverTorn' BY <1>1, <1>2 DEF IInv, Flight, NeverTorn
<1>7. FullCurrent' /\ Locks' BY <1>1, <1>2 DEF IInv, FullCurrent, Locks
<1>8. GraphsDated' BY <1>1, <1>2 DEF IInv, GraphsDated
<1>9. Warming' BY <1>1, <1>2 DEF IInv, Warming, B
<1>10. Settling' /\ FreezeSettles'
  BY <1>1, <1>2 DEF IInv, Settling, FreezeSettles, Replayable, Stale, B
<1> QED BY <1>3, <1>4, <1>5, <1>6, <1>7, <1>8, <1>9, <1>10 DEF IInv

\* A call starts on the full-pipeline path, is refused, or goes to the batch.
LEMMA EnterFacts ==
    ASSUME IInv, NEW ims \in Seq(Size), Enter(ims)
    PROVE  /\ images' = ims /\ done' = 0 /\ B' = Len(ims) /\ B' \in Nat
           /\ pc' \in {"full", "throw", "shape"}
           /\ pc' = "full" => FullGate(ims) /\ full.ready
           /\ pc' # "shape" => graph_ctx_batch' = graph_ctx_batch
           /\ graph_ctx_batch' = NoBatch \/ graph_ctx_batch' = graph_ctx_batch
           /\ pc' = "shape" => graph_ctx_batch' \in {NoBatch, B'}
           /\ graph_ctx_batch = Len(ims) => graph_ctx_batch' = graph_ctx_batch
           /\ pc' = "full" => graph_ctx_batch = full.batch /\ full.batch = Len(ims)
              /\ state = "clean"
  BY DEF Enter, MarkerAtEntry, FullGate, B

\* Detect keeps the invariant.
LEMMA DetectIInv ==
    ASSUME IInv, NEW ims \in Calls, Detect(ims)
    PROVE  IInv'
<1>1. /\ pc = "idle" /\ Enter(ims) /\ warm' = 0
      /\ ims \in Seq(Size)
      /\ UNCHANGED <<state, session_frozen, shape, device, generation, spec, graphs, pinned,
                     graph_disabled, full, gdec, staging, frozen, staging_frozen, flushed,
                     inflight, torn>>
  BY DEF Detect, Calls, session, captured, memory, locks, stream
<1>2. /\ images' = ims /\ done' = 0 /\ B' = Len(ims) /\ B' \in Nat
      /\ pc' \in {"full", "throw", "shape"}
      /\ pc' = "full" => FullGate(ims) /\ full.ready
      /\ pc' # "shape" => graph_ctx_batch' = graph_ctx_batch
      /\ graph_ctx_batch' = NoBatch \/ graph_ctx_batch' = graph_ctx_batch
      /\ pc' = "shape" => graph_ctx_batch' \in {NoBatch, B'}
      /\ graph_ctx_batch = Len(ims) => graph_ctx_batch' = graph_ctx_batch
      /\ pc' = "full" => graph_ctx_batch = full.batch /\ full.batch = Len(ims) /\ state = "clean"
  BY <1>1, EnterFacts
<1>3. TypeOK' /\ Shapes'
  BY <1>1, <1>2, DetectorAssumption, SMTT(60) DEF IInv, TypeOK, Shapes, B
<1>4. MarkerTrusted' BY <1>1, <1>2 DEF IInv, MarkerTrusted
<1>5. InCall' BY <1>1, <1>2 DEF IInv, InCall, FullGate, B
<1>6. Flight' /\ NeverTorn' BY <1>1, <1>2 DEF IInv, Flight, NeverTorn
<1>7. FullCurrent' /\ Locks' BY <1>1, <1>2 DEF IInv, FullCurrent, Locks
<1>8. GraphsDated' BY <1>1, <1>2 DEF IInv, GraphsDated
<1>9. Warming' BY <1>1, <1>2 DEF IInv, Warming, B
<1>10. Settling' /\ FreezeSettles'
  BY <1>1, <1>2 DEF IInv, Settling, FreezeSettles, Replayable, Stale, B
<1> QED BY <1>3, <1>4, <1>5, <1>6, <1>7, <1>8, <1>9, <1>10 DEF IInv

\* Freeze keeps the invariant.
LEMMA FreezeIInv ==
    ASSUME IInv, NEW s \in FreezeSpec, Freeze(s)
    PROVE  IInv'
<1>1. /\ pc = "idle" /\ ~ frozen.on /\ spec' = s /\ warm' = WarmRuns
      /\ s.batch \in Batch /\ s.src \in Size /\ s \in [batch : Batch, src : Size, bounded : BOOLEAN]
      /\ Enter([k \in 1..s.batch |-> s.src])
      /\ UNCHANGED <<state, session_frozen, shape, device, generation, graphs, pinned,
                     graph_disabled, full, gdec, staging, frozen, staging_frozen, flushed,
                     inflight, torn>>
  BY DEF Freeze, FreezeSpec, session, captured, memory, locks, stream
<1> DEFINE frames == [k \in 1..s.batch |-> s.src]
<1>2. frames \in Seq(Size) /\ Len(frames) = s.batch
  <2>1. s.batch \in Nat /\ s.src \in Size BY <1>1, DetectorAssumption
  <2>2. frames \in [1..s.batch -> Size] BY <2>1
  <2> QED BY <2>1, <2>2
<1> HIDE DEF frames
<1>3. /\ images' = frames /\ done' = 0 /\ B' = Len(frames) /\ B' \in Nat
      /\ pc' \in {"full", "throw", "shape"}
      /\ pc' = "full" => FullGate(frames) /\ full.ready
      /\ pc' # "shape" => graph_ctx_batch' = graph_ctx_batch
      /\ graph_ctx_batch' = NoBatch \/ graph_ctx_batch' = graph_ctx_batch
      /\ pc' = "shape" => graph_ctx_batch' \in {NoBatch, B'}
      /\ graph_ctx_batch = Len(frames) => graph_ctx_batch' = graph_ctx_batch
      /\ pc' = "full" => graph_ctx_batch = full.batch /\ full.batch = Len(frames) /\ state = "clean"
  BY <1>1, <1>2, EnterFacts DEF frames
<1>4. WarmRuns \in 1..3 /\ (UseCudaGraph => WarmRuns = 3)
  BY DEF WarmRuns
<1>5. pc' # "full" BY <1>1, <1>3 DEF IInv, FullCurrent
<1>6. TypeOK' /\ Shapes'
  BY <1>1, <1>2, <1>3, <1>4, <1>5, DetectorAssumption, SMTT(60) DEF IInv, TypeOK, Shapes, B
<1>7. MarkerTrusted'
  BY <1>1, <1>2, <1>3, <1>4, <1>5 DEF IInv, MarkerTrusted
<1>8. InCall'
  BY <1>1, <1>2, <1>3, <1>4, <1>5 DEF IInv, InCall, FullGate, B
<1>9. Flight' /\ NeverTorn'
  BY <1>1, <1>2, <1>3, <1>4, <1>5 DEF IInv, Flight, NeverTorn
<1>10. FullCurrent' /\ Locks'
  BY <1>1, <1>2, <1>3, <1>4, <1>5 DEF IInv, FullCurrent, Locks
<1>11. GraphsDated'
  BY <1>1, <1>2, <1>3, <1>4, <1>5 DEF IInv, GraphsDated
<1>12. Warming' BY <1>1, <1>2, <1>3, <1>4, <1>5 DEF IInv, Warming, B
<1>13. Settling' /\ FreezeSettles'
  BY <1>1, <1>2, <1>3, <1>4, <1>5 DEF IInv, Settling, FreezeSettles, Replayable, Stale, B
<1> QED BY <1>6, <1>7, <1>8, <1>9, <1>10, <1>11, <1>12, <1>13 DEF IInv

------------------------------
(* The frames and GPU decode.                                              *)

\* Preprocess keeps the invariant.
LEMMA PreprocessIInv ==
    ASSUME IInv, Preprocess
    PROVE  IInv'
<1>1. /\ pc = "images" /\ StagingGrows => StagingMayGrow
      /\ pc = "images"
      /\ torn' = (torn \/ {"staging"} \cap AfterUploadWait # {})
      /\ inflight' = AfterUploadWait \cup {"staging"}
      /\ staging' = IF StagingGrows THEN StagingGrown ELSE staging
      /\ done' = done + 1
      /\ pc' = CASE done' < B -> "images"
              [] done' = B /\ GpuDecode -> "decode"
              [] OTHER -> "engine"
      /\ UNCHANGED <<state, session_frozen, shape, device, generation, images, warm, spec,
                     graph_ctx_batch, graphs, pinned, graph_disabled, full, gdec, frozen,
                     staging_frozen, flushed>>
  BY DEF Preprocess, Touch, session, captured, locks
<1>2. B \in Nat /\ done \in 0..B /\ done < B /\ B' = B
  BY <1>1 DEF IInv, TypeOK, InCall, B
<1>3. /\ pc' \in {"images", "decode", "engine"}
      /\ pc' = "images" => done' < B
      /\ pc' = "decode" => GpuDecode
      /\ pc' = "engine" => ~ GpuDecode
      /\ done' \in 0..B
  BY <1>1, <1>2
<1>4. torn' = torn /\ inflight' \subseteq {"staging"}
  BY <1>1 DEF IInv, Flight, NeverTorn, TypeOK, AfterUploadWait
<1>5. Frame \in Size BY <1>2 DEF IInv, TypeOK, Frame, B
<1>6. staging' \in Size \cup {0}
  BY <1>1, <1>5 DEF IInv, TypeOK, StagingGrown
<1>7. TypeOK' /\ Shapes'
  <2>1. UNCHANGED <<images, warm, graph_ctx_batch, flushed, graphs, full, pinned, gdec,
                    graph_disabled, staging_frozen>>
    BY <1>1
  <2>2. inflight' \subseteq HostBuffer BY <1>4 DEF HostBuffer
  <2>3. TypeOK' BY <1>2, <1>3, <1>4, <1>6, <2>1, <2>2 DEF IInv, TypeOK
  <2>4. Shapes' BY <1>1 DEF IInv, Shapes
  <2> QED BY <2>3, <2>4
<1>8. MarkerTrusted'
  BY <1>1, <1>2, <1>3, <1>4, <1>5, <1>6 DEF IInv, MarkerTrusted
<1>9. InCall'
  BY <1>1, <1>2, <1>3, <1>4, <1>5, <1>6 DEF IInv, InCall, FullGate, B
<1>10. Flight' /\ NeverTorn'
  BY <1>1, <1>2, <1>3, <1>4, <1>5, <1>6 DEF IInv, Flight, NeverTorn
<1>11. FullCurrent' /\ Locks'
  BY <1>1, <1>2, <1>3, <1>4, <1>5, <1>6 DEF IInv, FullCurrent, Locks
<1>12. GraphsDated'
  BY <1>1, <1>2, <1>3, <1>4, <1>5, <1>6 DEF IInv, GraphsDated
<1>13. Warming'
  BY <1>1, <1>2, <1>3, <1>4, <1>5, <1>6 DEF IInv, Warming, B
<1>14. Settling' /\ FreezeSettles'
  BY <1>1, <1>2, <1>3, <1>4, <1>5, <1>6 DEF IInv, Settling, FreezeSettles, Replayable, Stale, B
<1> QED BY <1>7, <1>8, <1>9, <1>10, <1>11, <1>12, <1>13, <1>14 DEF IInv

\* PreprocessFails keeps the invariant.
LEMMA PreprocessFailsIInv ==
    ASSUME IInv, PreprocessFails
    PROVE  IInv'
<1>1. /\ pc = "images" /\ pc' = "throw"
      /\ staging' \in {staging, 0, Frame} /\ inflight' \subseteq HostBuffer
      /\ torn' = torn \/ torn' = (torn \/ {"staging"} \cap AfterUploadWait # {})
      /\ UNCHANGED <<state, session_frozen, shape, device, generation, images, done, warm, spec,
                     graph_ctx_batch, graphs, pinned, graph_disabled, full, gdec, frozen,
                     staging_frozen, flushed>>
  BY DEF IInv, TypeOK, HostBuffer, AfterUploadWait, StagingGrown, PreprocessFails, Touch, session,
     call, captured, locks
<1>2. torn' = torn BY <1>1 DEF IInv, NeverTorn, TypeOK, AfterUploadWait
<1>3. TypeOK' /\ Shapes'
  <2>1. Frame \in Size BY <1>1 DEF IInv, TypeOK, InCall, Frame, B
  <2>2. staging' \in Size \cup {0} BY <1>1, <2>1 DEF IInv, TypeOK
  <2>3. UNCHANGED <<images, warm, graph_ctx_batch, flushed, graphs, full, pinned, gdec,
                    graph_disabled, staging_frozen, done, spec, frozen>>
    BY <1>1
  <2>4. TypeOK'
    <3>1. B' = B /\ done' = done BY <1>1 DEF B
    <3>2. pc' = "throw" /\ inflight' \subseteq HostBuffer /\ torn' = torn
      BY <1>1, <1>2
    <3> QED BY <2>2, <2>3, <3>1, <3>2 DEF IInv, TypeOK
  <2> QED BY <1>1, <2>4 DEF IInv, Shapes
<1>4. MarkerTrusted' BY <1>1, <1>2 DEF IInv, MarkerTrusted
<1>5. InCall' BY <1>1, <1>2 DEF IInv, InCall, FullGate, B
<1>6. Flight' /\ NeverTorn' BY <1>1, <1>2 DEF IInv, Flight, NeverTorn
<1>7. FullCurrent' /\ Locks' BY <1>1, <1>2 DEF IInv, FullCurrent, Locks
<1>8. GraphsDated' BY <1>1, <1>2 DEF IInv, GraphsDated
<1>9. Warming' BY <1>1, <1>2 DEF IInv, Warming, B
<1>10. Settling' /\ FreezeSettles'
  BY <1>1, <1>2 DEF IInv, Settling, FreezeSettles, Replayable, Stale, B
<1> QED BY <1>3, <1>4, <1>5, <1>6, <1>7, <1>8, <1>9, <1>10 DEF IInv

\* GrowScratch keeps the invariant.
LEMMA GrowScratchIInv ==
    ASSUME IInv, GrowScratch
    PROVE  IInv'
<1>1. /\ pc = "decode" /\ pc' = pc /\ ~ frozen.on
      /\ gdec' = [block |-> NewBlock, cap |-> MaxBatch]
      /\ inflight' = {}
      /\ UNCHANGED <<state, session_frozen, shape, device, generation, images, done, warm, spec,
                     graph_ctx_batch, graphs, pinned, graph_disabled, full, staging, frozen,
                     staging_frozen, flushed, torn>>
  BY DEF GrowScratch, Idle, session, call, captured, locks
<1>2. MaxBatch \in Batch BY DetectorAssumption DEF MaxBatch
<1>3. gdec'.block \in {0, 1} /\ gdec'.cap \in Batch
  BY <1>1, <1>2 DEF IInv, TypeOK, NewBlock
<1>4. gdec' \in [block : {0, 1}, cap : Batch \cup {0}] BY <1>1, <1>3
<1>5. TypeOK' /\ Shapes'
  BY <1>1, <1>2, <1>3, <1>4, DetectorAssumption DEF IInv, TypeOK, Shapes, B
<1>6. MarkerTrusted' BY <1>1, <1>2, <1>3, <1>4 DEF IInv, MarkerTrusted
<1>7. InCall' BY <1>1, <1>2, <1>3, <1>4 DEF IInv, InCall, FullGate, B
<1>8. Flight' /\ NeverTorn'
  BY <1>1, <1>2, <1>3, <1>4 DEF IInv, Flight, NeverTorn
<1>9. FullCurrent' /\ Locks'
  BY <1>1, <1>2, <1>3, <1>4 DEF IInv, FullCurrent, Locks
<1>10. GraphsDated' BY <1>1, <1>2, <1>3, <1>4 DEF IInv, GraphsDated
<1>11. Warming' BY <1>1, <1>2, <1>3, <1>4 DEF IInv, Warming, B
<1>12. Settling' /\ FreezeSettles'
  BY <1>1, <1>2, <1>3, <1>4 DEF IInv, Settling, FreezeSettles, Replayable, Stale, B
<1> QED BY <1>5, <1>6, <1>7, <1>8, <1>9, <1>10, <1>11, <1>12 DEF IInv

\* GrowScratchFails keeps the invariant.
LEMMA GrowScratchFailsIInv ==
    ASSUME IInv, GrowScratchFails
    PROVE  IInv'
<1>1. /\ pc = "decode" /\ pc' = "throw"
      /\ gdec' = gdec \/ (~ frozen.on /\ gdec' = [gdec EXCEPT !.block = NewBlock])
      /\ UNCHANGED <<state, session_frozen, shape, device, generation, images, done, warm, spec,
                     graph_ctx_batch, graphs, pinned, graph_disabled, full, staging, frozen,
                     staging_frozen, flushed, inflight, torn>>
  BY DEF GrowScratchFails, session, call, captured, locks, stream
<1>2. gdec' \in [block : {0, 1}, cap : Batch \cup {0}] /\ gdec'.cap = gdec.cap
  <2>1. gdec \in [block : {0, 1}, cap : Batch \cup {0}] /\ NewBlock \in {0, 1}
    BY DEF IInv, TypeOK, NewBlock
  <2> QED BY <1>1, <2>1
<1>3. ~ frozen.on => ~ full.ready BY <1>1 DEF IInv, FullCurrent
<1>4. full.ready => gdec' = gdec BY <1>1, <1>3
<1>5. TypeOK' /\ Shapes'
  BY <1>1, <1>2, <1>3, <1>4, DetectorAssumption DEF IInv, TypeOK, Shapes, B
<1>6. MarkerTrusted' BY <1>1, <1>2, <1>3, <1>4 DEF IInv, MarkerTrusted
<1>7. InCall' BY <1>1, <1>2, <1>3, <1>4 DEF IInv, InCall, FullGate, B
<1>8. Flight' /\ NeverTorn'
  BY <1>1, <1>2, <1>3, <1>4 DEF IInv, Flight, NeverTorn
<1>9. FullCurrent' /\ Locks'
  BY <1>1, <1>2, <1>3, <1>4 DEF IInv, FullCurrent, Locks
<1>10. GraphsDated' BY <1>1, <1>2, <1>3, <1>4 DEF IInv, GraphsDated
<1>11. Warming' BY <1>1, <1>2, <1>3, <1>4 DEF IInv, Warming, B
<1>12. Settling' /\ FreezeSettles'
  BY <1>1, <1>2, <1>3, <1>4 DEF IInv, Settling, FreezeSettles, Replayable, Stale, B
<1> QED BY <1>5, <1>6, <1>7, <1>8, <1>9, <1>10, <1>11, <1>12 DEF IInv

\* Decode keeps the invariant.
LEMMA DecodeIInv ==
    ASSUME IInv, Decode
    PROVE  IInv'
<1>1. /\ pc = "decode" /\ pc' \in {"wait", "throw"}
      /\ ~ (B > gdec.cap)
      /\ flushed' = B /\ graph_ctx_batch' = B
      /\ torn' = (torn \/ {"maps"} \cap inflight # {})
      /\ inflight' \subseteq inflight \cup {"maps", "survivors"}
      /\ UNCHANGED <<state, session_frozen, shape, device, generation, images, done, warm, spec,
                     graphs, pinned, graph_disabled, full, gdec, staging, frozen,
                     staging_frozen>>
  BY DEF Decode, ScratchShort, Session!Run, MarkerAfterDecode, Touch, Queue, call, captured,
     memory, locks
<1>2. torn' = torn /\ torn = FALSE
  BY <1>1 DEF IInv, Flight, NeverTorn, TypeOK
<1>3. B \in Batch /\ state = "clean" /\ shape = B /\ GpuDecode
  BY <1>1 DEF IInv, InCall
<1>4. gdec.cap >= B
  <2>1. gdec.cap \in Nat /\ B \in Nat
    BY <1>3, DetectorAssumption, CapsAreNumbers
  <2> QED BY <1>1, <2>1
<1>5. TypeOK' /\ Shapes'
  BY <1>1, <1>2, <1>3, <1>4, DetectorAssumption DEF IInv, TypeOK, Shapes, B, HostBuffer
<1>6. MarkerTrusted' BY <1>1, <1>2, <1>3, <1>4 DEF IInv, MarkerTrusted
<1>7. InCall' BY <1>1, <1>2, <1>3, <1>4 DEF IInv, InCall, FullGate, B
<1>8. Flight' /\ NeverTorn'
  BY <1>1, <1>2, <1>3, <1>4 DEF IInv, Flight, NeverTorn
<1>9. FullCurrent' /\ Locks'
  BY <1>1, <1>2, <1>3, <1>4 DEF IInv, FullCurrent, Locks
<1>10. GraphsDated' BY <1>1, <1>2, <1>3, <1>4 DEF IInv, GraphsDated
<1>11. Warming' BY <1>1, <1>2, <1>3, <1>4 DEF IInv, Warming, B
<1>12. Settling' /\ FreezeSettles'
  BY <1>1, <1>2, <1>3, <1>4 DEF IInv, Settling, FreezeSettles, Replayable, Stale, B
<1> QED BY <1>5, <1>6, <1>7, <1>8, <1>9, <1>10, <1>11, <1>12 DEF IInv

------------------------------
(* The engine graph and the plain path.                                    *)

\* EnqueueFails keeps the invariant.
LEMMA EnqueueFailsIInv ==
    ASSUME IInv, EnqueueFails
    PROVE  IInv'
<1>1. /\ pc \in {"decode", "engine"} /\ pc' = "throw" /\ state' = "poisoned"
      /\ UNCHANGED <<session_frozen, shape, device, generation, images, done, warm, spec,
                     graph_ctx_batch, graphs, pinned, graph_disabled, full, gdec, staging,
                     frozen, staging_frozen, flushed, inflight, torn>>
  BY DEF EnqueueFails, Session!Poison, call, captured, memory, locks, stream
<1>2. TypeOK' /\ Shapes'
  BY <1>1, DetectorAssumption DEF IInv, TypeOK, Shapes, B
<1>3. MarkerTrusted' BY <1>1 DEF IInv, MarkerTrusted
<1>4. InCall' BY <1>1 DEF IInv, InCall, FullGate, B
<1>5. Flight' /\ NeverTorn' BY <1>1 DEF IInv, Flight, NeverTorn
<1>6. FullCurrent' /\ Locks' BY <1>1 DEF IInv, FullCurrent, Locks
<1>7. GraphsDated' BY <1>1 DEF IInv, GraphsDated
<1>8. Warming' BY <1>1 DEF IInv, Warming, B
<1>9. Settling' /\ FreezeSettles'
  BY <1>1 DEF IInv, Settling, FreezeSettles, Replayable, Stale, B
<1> QED BY <1>2, <1>3, <1>4, <1>5, <1>6, <1>7, <1>8, <1>9 DEF IInv

\* EraseStale keeps the invariant.
LEMMA EraseStaleIInv ==
    ASSUME IInv, EraseStale
    PROVE  IInv'
<1>1. /\ pc = "engine" /\ pc' = pc /\ graphs[B].ready /\ Stale(graphs[B])
      /\ graphs' = [graphs EXCEPT ![B] = NoGraph]
      /\ UNCHANGED <<state, session_frozen, shape, device, generation, images, done, warm, spec,
                     graph_ctx_batch, pinned, graph_disabled, full, gdec, staging, frozen,
                     staging_frozen, flushed, inflight, torn>>
  BY DEF EraseStale, session, call, memory, locks, stream
<1>2. B \in Batch /\ NoGraph.ready = FALSE
  BY <1>1 DEF IInv, InCall, NoGraph
<1>3. \A b \in Batch : graphs'[b].ready => graphs'[b] = graphs[b] /\ graphs[b].ready
  BY <1>1, <1>2 DEF IInv, TypeOK
<1>4. frozen.on /\ UseCudaGraph /\ ~ GpuDecode /\ ~ graph_disabled
    => graphs'[frozen.batch] = graphs[frozen.batch]
  BY <1>1, <1>2 DEF IInv, TypeOK, FreezeSettles
<1>5. TypeOK' /\ Shapes'
  BY <1>1, <1>2, <1>3, <1>4, DetectorAssumption DEF IInv, TypeOK, Shapes, B
<1>6. MarkerTrusted' BY <1>1, <1>2, <1>3, <1>4 DEF IInv, MarkerTrusted
<1>7. InCall' BY <1>1, <1>2, <1>3, <1>4 DEF IInv, InCall, FullGate, B
<1>8. Flight' /\ NeverTorn'
  BY <1>1, <1>2, <1>3, <1>4 DEF IInv, Flight, NeverTorn
<1>9. FullCurrent' /\ Locks'
  BY <1>1, <1>2, <1>3, <1>4 DEF IInv, FullCurrent, Locks
<1>10. GraphsDated' BY <1>1, <1>2, <1>3, <1>4 DEF IInv, GraphsDated
<1>11. Warming' BY <1>1, <1>2, <1>3, <1>4 DEF IInv, Warming, B
<1>12. Settling' /\ FreezeSettles'
  BY <1>1, <1>2, <1>3, <1>4 DEF IInv, Settling, FreezeSettles, Replayable, Stale, B
<1> QED BY <1>5, <1>6, <1>7, <1>8, <1>9, <1>10, <1>11, <1>12 DEF IInv

\* Capture keeps the invariant.
LEMMA CaptureIInv ==
    ASSUME IInv, Capture
    PROVE  IInv'
<1>1. /\ pc = "engine" /\ pc' = pc /\ ~ frozen.on /\ graph_ctx_batch = B
      /\ flushed' = B /\ inflight' = {}
      /\ pinned' \in PinnedFor(B)
      /\ graphs' = [graphs EXCEPT ![B] = [ready |-> TRUE, device |-> device,
                                                generation |-> generation, pinned |-> pinned'.addr]]
      /\ UNCHANGED <<state, session_frozen, shape, device, generation, images, done, warm, spec,
                     graph_ctx_batch, graph_disabled, full, gdec, staging, frozen,
                     staging_frozen, torn>>
  BY DEF Capture, MayReplay, MayCapture, Session!Run, Idle, call, memory, locks
<1>2. B \in Batch /\ B \in Nat
  BY <1>1, DetectorAssumption DEF IInv, InCall
<1>3. /\ pinned' \in [addr : Pinned, cap : Batch \cup {0}]
      /\ pinned'.cap \in Nat /\ pinned.cap \in Nat
      /\ pinned'.cap >= pinned.cap /\ pinned'.cap >= B
  BY <1>1, <1>2, PinnedGrows
<1>4. graphs' \in [Batch -> Graph \cup {NoGraph}]
  BY <1>1, <1>2, <1>3 DEF IInv, TypeOK, Shapes, Graph
<1>5. TypeOK' /\ Shapes'
  BY <1>1, <1>2, <1>3, <1>4, DetectorAssumption DEF IInv, TypeOK, Shapes, B
<1>6. MarkerTrusted' BY <1>1, <1>2, <1>3, <1>4 DEF IInv, MarkerTrusted
<1>7. InCall' BY <1>1, <1>2, <1>3, <1>4 DEF IInv, InCall, FullGate, B
<1>8. Flight' /\ NeverTorn'
  BY <1>1, <1>2, <1>3, <1>4 DEF IInv, Flight, NeverTorn
<1>9. FullCurrent' /\ Locks'
  BY <1>1, <1>2, <1>3, <1>4 DEF IInv, FullCurrent, Locks
<1>10. GraphsDated'
  BY <1>1, <1>2, <1>3, <1>4, DetectorAssumption DEF IInv, GraphsDated, TypeOK, Shapes
<1>11. Warming' BY <1>1, <1>2, <1>3, <1>4 DEF IInv, Warming, B
<1>12. Settling' /\ FreezeSettles'
  BY <1>1, <1>2, <1>3, <1>4 DEF IInv, Settling, FreezeSettles, Replayable, Stale, B
<1> QED BY <1>5, <1>6, <1>7, <1>8, <1>9, <1>10, <1>11, <1>12 DEF IInv

\* CaptureFails keeps the invariant.
LEMMA CaptureFailsIInv ==
    ASSUME IInv, CaptureFails
    PROVE  IInv'
<1>1. /\ pc = "engine" /\ pc' = pc /\ ~ frozen.on
      /\ graph_disabled' = TRUE
      /\ pinned' = pinned \/ pinned' \in PinnedFor(B)
      /\ UNCHANGED <<state, session_frozen, shape, device, generation, images, done, warm, spec,
                     graph_ctx_batch, graphs, full, gdec, staging, frozen, staging_frozen,
                     flushed, inflight, torn>>
  BY DEF CaptureFails, MayCapture, session, call, memory, locks, stream
<1>2. B \in Batch /\ B \in Nat
  BY <1>1, DetectorAssumption DEF IInv, InCall
<1>3. /\ pinned' \in [addr : Pinned, cap : Batch \cup {0}]
      /\ pinned'.cap \in Nat /\ pinned.cap \in Nat
      /\ pinned'.cap >= pinned.cap
  BY <1>1, <1>2, PinnedGrows, SMTT(60) DEF IInv, TypeOK
<1>4. TypeOK' /\ Shapes'
  BY <1>1, <1>2, <1>3, DetectorAssumption DEF IInv, TypeOK, Shapes, B
<1>5. MarkerTrusted' BY <1>1, <1>2, <1>3 DEF IInv, MarkerTrusted
<1>6. InCall' BY <1>1, <1>2, <1>3 DEF IInv, InCall, FullGate, B
<1>7. Flight' /\ NeverTorn'
  BY <1>1, <1>2, <1>3 DEF IInv, Flight, NeverTorn
<1>8. FullCurrent' /\ Locks'
  BY <1>1, <1>2, <1>3 DEF IInv, FullCurrent, Locks
<1>9. GraphsDated'
  BY <1>1, <1>2, <1>3, DetectorAssumption DEF IInv, GraphsDated
<1>10. Warming' BY <1>1, <1>2, <1>3 DEF IInv, Warming, B
<1>11. Settling' /\ FreezeSettles'
  BY <1>1, <1>2, <1>3 DEF IInv, Settling, FreezeSettles, Replayable, Stale, B
<1> QED BY <1>4, <1>5, <1>6, <1>7, <1>8, <1>9, <1>10, <1>11 DEF IInv

\* ReplayEngine keeps the invariant.
LEMMA ReplayEngineIInv ==
    ASSUME IInv, ReplayEngine
    PROVE  IInv'
<1>1. /\ pc = "engine" /\ pc' \in {"wait", "throw"} /\ graph_ctx_batch = B
      /\ graphs[B].ready /\ ~ Stale(graphs[B])
      /\ inflight' \subseteq inflight \cup {"outputs"}
      /\ UNCHANGED <<state, session_frozen, shape, device, generation, images, done, warm, spec,
                     graph_ctx_batch, graphs, pinned, graph_disabled, full, gdec, staging,
                     frozen, staging_frozen, flushed, torn>>
  BY DEF ReplayEngine, MayReplay, Replay, Queue, session, call, captured, memory, locks
<1>2. TypeOK' /\ Shapes'
  BY <1>1, DetectorAssumption DEF IInv, TypeOK, Shapes, B, HostBuffer
<1>3. MarkerTrusted' BY <1>1 DEF IInv, MarkerTrusted
<1>4. InCall' BY <1>1 DEF IInv, InCall, FullGate, B
<1>5. Flight' /\ NeverTorn' BY <1>1 DEF IInv, Flight, NeverTorn
<1>6. FullCurrent' /\ Locks' BY <1>1 DEF IInv, FullCurrent, Locks
<1>7. GraphsDated' BY <1>1 DEF IInv, GraphsDated
<1>8. Warming' BY <1>1, DetectorAssumption DEF IInv, Warming, B, InCall
<1>9. Settling' /\ FreezeSettles'
  BY <1>1 DEF IInv, Settling, FreezeSettles, Replayable, Stale, B
<1> QED BY <1>2, <1>3, <1>4, <1>5, <1>6, <1>7, <1>8, <1>9 DEF IInv

\* Enqueue keeps the invariant.
LEMMA EnqueueIInv ==
    ASSUME IInv, Enqueue
    PROVE  IInv'
<1>1. /\ pc = "engine" /\ pc' = "copy"
      /\ graph_ctx_batch # B \/ ~ UseCudaGraph \/ graph_disabled \/ frozen.on
      /\ flushed' = B
      /\ inflight' = inflight \cup {"outputs"}
      /\ UNCHANGED <<state, session_frozen, shape, device, generation, images, done, warm, spec,
                     graph_ctx_batch, graphs, pinned, graph_disabled, full, gdec, staging,
                     frozen, staging_frozen, torn>>
  BY DEF Enqueue, MayReplay, MayCapture, Session!Run, Queue, call, captured, memory, locks
<1>2. TypeOK' /\ Shapes'
  BY <1>1, DetectorAssumption DEF IInv, TypeOK, Shapes, B, HostBuffer, InCall
<1>3. MarkerTrusted' BY <1>1 DEF IInv, MarkerTrusted, InCall
<1>4. InCall' BY <1>1 DEF IInv, InCall, FullGate, B
<1>5. Flight' /\ NeverTorn' BY <1>1 DEF IInv, Flight, NeverTorn
<1>6. FullCurrent' /\ Locks' BY <1>1 DEF IInv, FullCurrent, Locks
<1>7. GraphsDated' BY <1>1 DEF IInv, GraphsDated
<1>8. Warming' BY <1>1 DEF IInv, Warming, B
<1>9. Settling' /\ FreezeSettles'
  BY <1>1 DEF IInv, Settling, FreezeSettles, Replayable, Stale, B, Warming, InCall
<1> QED BY <1>2, <1>3, <1>4, <1>5, <1>6, <1>7, <1>8, <1>9 DEF IInv

\* CopyOutputs keeps the invariant.
LEMMA CopyOutputsIInv ==
    ASSUME IInv, CopyOutputs
    PROVE  IInv'
<1>1. /\ pc = "copy" /\ pc' = "return" /\ graph_ctx_batch' = B
      /\ inflight' = {}
      /\ UNCHANGED <<state, session_frozen, shape, device, generation, images, done, warm, spec,
                     graphs, pinned, graph_disabled, full, gdec, staging, frozen,
                     staging_frozen, flushed, torn>>
  BY DEF CopyOutputs, Idle, session, call, captured, memory, locks
<1>2. TypeOK' /\ Shapes'
  BY <1>1, DetectorAssumption DEF IInv, TypeOK, Shapes, B, InCall
<1>3. MarkerTrusted' BY <1>1 DEF IInv, MarkerTrusted, InCall
<1>4. InCall' BY <1>1 DEF IInv, InCall, FullGate, B
<1>5. Flight' /\ NeverTorn' BY <1>1 DEF IInv, Flight, NeverTorn
<1>6. FullCurrent' /\ Locks' BY <1>1 DEF IInv, FullCurrent, Locks
<1>7. GraphsDated' BY <1>1 DEF IInv, GraphsDated
<1>8. Warming' BY <1>1, DetectorAssumption DEF IInv, Warming, B, InCall
<1>9. Settling' /\ FreezeSettles'
  BY <1>1 DEF IInv, Settling, FreezeSettles, Replayable, Stale, B
<1> QED BY <1>2, <1>3, <1>4, <1>5, <1>6, <1>7, <1>8, <1>9 DEF IInv

------------------------------
(* The full-pipeline graph, and how calls end.                             *)

\* ReplayFull keeps the invariant.
LEMMA ReplayFullIInv ==
    ASSUME IInv, ReplayFull
    PROVE  IInv'
<1>1. /\ pc = "full" /\ pc' \in {"wait", "throw"}
      /\ torn' = (torn \/ {"slab"} \cap inflight # {})
      /\ inflight' \subseteq inflight \cup {"slab", "survivors"}
      /\ UNCHANGED <<state, session_frozen, shape, device, generation, images, done, warm, spec,
                     graph_ctx_batch, graphs, pinned, graph_disabled, full, gdec, staging,
                     frozen, staging_frozen, flushed>>
  BY DEF ReplayFull, Touch, Replay, Queue, session, call, captured, memory, locks
<1>2. torn' = torn /\ torn = FALSE
  BY <1>1 DEF IInv, Flight, NeverTorn, TypeOK
<1>3. full.ready /\ state = "clean" /\ B = full.batch /\ graph_ctx_batch = full.batch /\ frozen.on
  BY <1>1 DEF IInv, InCall, FullGate, FullCurrent, B
<1>4. full.batch \in Batch /\ graph_ctx_batch # NoBatch
  BY <1>3, FullFacts, DetectorAssumption
<1>5. shape = B /\ warm = 0
  <2>1. shape = B BY <1>3, <1>4 DEF IInv, MarkerTrusted
  <2>2. warm = 0 BY <1>3 DEF IInv, TypeOK, Warming
  <2> QED BY <2>1, <2>2
<1>6. TypeOK' /\ Shapes'
  BY <1>1, <1>2, <1>3, <1>4, <1>5, DetectorAssumption DEF IInv, TypeOK, Shapes, B, HostBuffer
<1>7. MarkerTrusted'
  BY <1>1, <1>2, <1>3, <1>4, <1>5 DEF IInv, MarkerTrusted
<1>8. InCall'
  BY <1>1, <1>2, <1>3, <1>4, <1>5 DEF IInv, InCall, FullGate, B
<1>9. Flight' /\ NeverTorn'
  BY <1>1, <1>2, <1>3, <1>4, <1>5 DEF IInv, Flight, NeverTorn
<1>10. FullCurrent' /\ Locks'
  BY <1>1, <1>2, <1>3, <1>4, <1>5 DEF IInv, FullCurrent, Locks
<1>11. GraphsDated'
  BY <1>1, <1>2, <1>3, <1>4, <1>5 DEF IInv, GraphsDated
<1>12. Warming' BY <1>1, <1>2, <1>3, <1>4, <1>5 DEF IInv, Warming, B
<1>13. Settling' /\ FreezeSettles'
  BY <1>1, <1>2, <1>3, <1>4, <1>5 DEF IInv, Settling, FreezeSettles, Replayable, Stale, B
<1> QED BY <1>6, <1>7, <1>8, <1>9, <1>10, <1>11, <1>12, <1>13 DEF IInv

\* Wait keeps the invariant.
LEMMA WaitIInv ==
    ASSUME IInv, Wait
    PROVE  IInv'
<1>1. /\ pc = "wait" /\ pc' = "return"
      /\ inflight' = {}
      /\ UNCHANGED <<state, session_frozen, shape, device, generation, images, done, warm, spec,
                     graph_ctx_batch, graphs, pinned, graph_disabled, full, gdec, staging,
                     frozen, staging_frozen, flushed, torn>>
  BY DEF Wait, Idle, session, call, captured, memory, locks
<1>2. TypeOK' /\ Shapes'
  BY <1>1, DetectorAssumption DEF IInv, TypeOK, Shapes, B
<1>3. MarkerTrusted' BY <1>1 DEF IInv, MarkerTrusted
<1>4. InCall' BY <1>1 DEF IInv, InCall, FullGate, B
<1>5. Flight' /\ NeverTorn' BY <1>1 DEF IInv, Flight, NeverTorn
<1>6. FullCurrent' /\ Locks' BY <1>1 DEF IInv, FullCurrent, Locks
<1>7. GraphsDated' BY <1>1 DEF IInv, GraphsDated
<1>8. Warming' BY <1>1 DEF IInv, Warming, B
<1>9. Settling' /\ FreezeSettles'
  BY <1>1 DEF IInv, Settling, FreezeSettles, Replayable, Stale, B
<1> QED BY <1>2, <1>3, <1>4, <1>5, <1>6, <1>7, <1>8, <1>9 DEF IInv

\* WaitFails keeps the invariant.
LEMMA WaitFailsIInv ==
    ASSUME IInv, WaitFails
    PROVE  IInv'
<1>1. /\ pc \in {"wait", "copy"} /\ pc' = "throw" /\ state' = "poisoned"
      /\ inflight' = {}
      /\ UNCHANGED <<session_frozen, shape, device, generation, images, done, warm, spec,
                     graph_ctx_batch, graphs, pinned, graph_disabled, full, gdec, staging,
                     frozen, staging_frozen, flushed, torn>>
  BY DEF WaitFails, Idle, Session!Poison, call, captured, memory, locks
<1>2. TypeOK' /\ Shapes'
  BY <1>1, DetectorAssumption DEF IInv, TypeOK, Shapes, B
<1>3. MarkerTrusted' BY <1>1 DEF IInv, MarkerTrusted
<1>4. InCall' BY <1>1 DEF IInv, InCall, FullGate, B
<1>5. Flight' /\ NeverTorn' BY <1>1 DEF IInv, Flight, NeverTorn
<1>6. FullCurrent' /\ Locks' BY <1>1 DEF IInv, FullCurrent, Locks
<1>7. GraphsDated' BY <1>1 DEF IInv, GraphsDated
<1>8. Warming' BY <1>1 DEF IInv, Warming, B
<1>9. Settling' /\ FreezeSettles'
  BY <1>1 DEF IInv, Settling, FreezeSettles, Replayable, Stale, B
<1> QED BY <1>2, <1>3, <1>4, <1>5, <1>6, <1>7, <1>8, <1>9 DEF IInv

\* Throw keeps the invariant.
LEMMA ThrowIInv ==
    ASSUME IInv, Throw
    PROVE  IInv'
<1>1. /\ pc = "throw" /\ pc' = "idle" /\ images' = <<>> /\ done' = 0 /\ warm' = 0
      /\ state' \in {state, "poisoned"}
      /\ inflight' = {}
      /\ UNCHANGED <<session_frozen, shape, device, generation, spec, graph_ctx_batch, graphs,
                     pinned, graph_disabled, full, gdec, staging, frozen, staging_frozen,
                     flushed, torn>>
  BY DEF Throw, AfterDrain, Session!Poison, session, captured, memory, locks
<1>2. images' \in Seq(Size) /\ B' = 0 BY <1>1 DEF B
<1>3. TypeOK' /\ Shapes'
  <2>1. done' \in 0..B' BY <1>1, <1>2
  <2>2. TypeOK' BY <1>1, <1>2, <2>1, DetectorAssumption DEF IInv, TypeOK
  <2>3. Shapes' BY <1>1, <1>2 DEF IInv, Shapes, TypeOK
  <2> QED BY <2>2, <2>3
<1>4. MarkerTrusted' BY <1>1, <1>2 DEF IInv, MarkerTrusted
<1>5. InCall' BY <1>1, <1>2 DEF IInv, InCall, FullGate, B
<1>6. Flight' /\ NeverTorn' BY <1>1, <1>2 DEF IInv, Flight, NeverTorn
<1>7. FullCurrent' /\ Locks' BY <1>1, <1>2 DEF IInv, FullCurrent, Locks
<1>8. GraphsDated' BY <1>1, <1>2 DEF IInv, GraphsDated
<1>9. Warming' BY <1>1, <1>2 DEF IInv, Warming, B
<1>10. Settling' /\ FreezeSettles'
  BY <1>1, <1>2 DEF IInv, Settling, FreezeSettles, Replayable, Stale, B
<1> QED BY <1>3, <1>4, <1>5, <1>6, <1>7, <1>8, <1>9, <1>10 DEF IInv

\* ReturnToCaller keeps the invariant.
LEMMA ReturnToCallerIInv ==
    ASSUME IInv, Return, warm = 0
    PROVE  IInv'
<1>1. /\ pc = "return" /\ pc' = "idle" /\ images' = <<>> /\ done' = 0 /\ warm' = 0 /\ warm = 0
      /\ UNCHANGED <<state, session_frozen, shape, device, generation, spec, graph_ctx_batch,
                     graphs, pinned, graph_disabled, full, gdec, staging, frozen,
                     staging_frozen, flushed, inflight, torn>>
  BY DEF Return, session, captured, memory, locks, stream
<1>2. images' \in Seq(Size) /\ B' = 0 BY <1>1 DEF B
<1>3. TypeOK' /\ Shapes'
  <2>1. done' \in 0..B' BY <1>1, <1>2
  <2>2. TypeOK' BY <1>1, <1>2, <2>1, DetectorAssumption DEF IInv, TypeOK
  <2>3. Shapes' BY <1>1, <1>2 DEF IInv, Shapes, TypeOK
  <2> QED BY <2>2, <2>3
<1>4. MarkerTrusted' BY <1>1, <1>2 DEF IInv, MarkerTrusted
<1>5. InCall' BY <1>1, <1>2 DEF IInv, InCall, FullGate, B
<1>6. Flight' /\ NeverTorn' BY <1>1, <1>2 DEF IInv, Flight, NeverTorn
<1>7. FullCurrent' /\ Locks' BY <1>1, <1>2 DEF IInv, FullCurrent, Locks
<1>8. GraphsDated' BY <1>1, <1>2 DEF IInv, GraphsDated
<1>9. Warming' BY <1>1, <1>2 DEF IInv, Warming, B
<1>10. Settling' /\ FreezeSettles'
  BY <1>1, <1>2 DEF IInv, Settling, FreezeSettles, Replayable, Stale, B
<1> QED BY <1>3, <1>4, <1>5, <1>6, <1>7, <1>8, <1>9, <1>10 DEF IInv

\* ReturnToWarmUp keeps the invariant.
LEMMA ReturnToWarmUpIInv ==
    ASSUME IInv, Return, warm > 1
    PROVE  IInv'
<1>1. /\ pc = "return" /\ Enter(images) /\ warm' = warm - 1
      /\ UNCHANGED <<state, session_frozen, shape, device, generation, spec, graphs, pinned,
                     graph_disabled, full, gdec, staging, frozen, staging_frozen, flushed,
                     inflight, torn>>
  BY DEF Return, session, captured, memory, locks, stream
<1>2. images \in Seq(Size) /\ warm \in 2..3 BY DEF IInv, TypeOK
<1>3. /\ images' = images /\ done' = 0 /\ B' = Len(images) /\ B' \in Nat
      /\ pc' \in {"full", "throw", "shape"}
      /\ pc' = "full" => FullGate(images) /\ full.ready
      /\ pc' # "shape" => graph_ctx_batch' = graph_ctx_batch
      /\ graph_ctx_batch' = NoBatch \/ graph_ctx_batch' = graph_ctx_batch
      /\ pc' = "shape" => graph_ctx_batch' \in {NoBatch, B'}
      /\ graph_ctx_batch = Len(images) => graph_ctx_batch' = graph_ctx_batch
      /\ pc' = "full" => graph_ctx_batch = full.batch /\ full.batch = Len(images) /\ state = "clean"
  BY <1>1, <1>2, EnterFacts
<1>4. graph_ctx_batch = B /\ B = spec.batch /\ ~ frozen.on /\ warm' \in 1..2 /\ B' = B
  BY <1>1, <1>2, <1>3 DEF IInv, InCall, Warming, B
<1>5. pc' # "full" /\ graph_ctx_batch' = B
  <2>1. pc' # "full" BY <1>1, <1>3, <1>4 DEF IInv, FullCurrent
  <2>2. graph_ctx_batch' = B BY <1>3, <1>4 DEF B
  <2> QED BY <2>1, <2>2
<1>6. TypeOK' /\ Shapes'
  BY <1>1, <1>2, <1>3, <1>4, <1>5, DetectorAssumption DEF IInv, TypeOK, Shapes, B
<1>7. MarkerTrusted'
  BY <1>1, <1>2, <1>3, <1>4, <1>5 DEF IInv, MarkerTrusted
<1>8. InCall'
  BY <1>1, <1>2, <1>3, <1>4, <1>5 DEF IInv, InCall, FullGate, B
<1>9. Flight' /\ NeverTorn'
  BY <1>1, <1>2, <1>3, <1>4, <1>5 DEF IInv, Flight, NeverTorn
<1>10. FullCurrent' /\ Locks'
  BY <1>1, <1>2, <1>3, <1>4, <1>5 DEF IInv, FullCurrent, Locks
<1>11. GraphsDated'
  BY <1>1, <1>2, <1>3, <1>4, <1>5 DEF IInv, GraphsDated
<1>12. Warming' BY <1>1, <1>2, <1>3, <1>4, <1>5 DEF IInv, Warming, B
<1>13. Settling' /\ FreezeSettles'
  BY <1>1, <1>2, <1>3, <1>4, <1>5 DEF IInv, Settling, FreezeSettles, Replayable, Stale, B
<1> QED BY <1>6, <1>7, <1>8, <1>9, <1>10, <1>11, <1>12, <1>13 DEF IInv

\* ReturnToLock keeps the invariant.
LEMMA ReturnToLockIInv ==
    ASSUME IInv, Return, warm = 1
    PROVE  IInv'
<1>1. /\ pc = "return" /\ pc' = (IF FullPipeline THEN "capture" ELSE "lock") /\ warm' = 0
      /\ UNCHANGED <<state, session_frozen, shape, device, generation, images, done, spec,
                     graph_ctx_batch, graphs, pinned, graph_disabled, full, gdec, staging,
                     frozen, staging_frozen, flushed, inflight, torn>>
  BY DEF Return, session, captured, memory, locks, stream
<1>2. pc' \in {"capture", "lock"} /\ (pc' = "capture" => FullPipeline)
  BY <1>1
<1>3. ~ frozen.on /\ B = spec.batch /\ B \in Batch /\ warm \in 1..2 /\ Replayable(B)
  BY DEF IInv, TypeOK, Warming, InCall, Settling, Return
<1>4. TypeOK' /\ Shapes'
  BY <1>1, <1>2, <1>3, DetectorAssumption DEF IInv, TypeOK, Shapes, B
<1>5. MarkerTrusted' BY <1>1, <1>2, <1>3 DEF IInv, MarkerTrusted
<1>6. InCall' BY <1>1, <1>2, <1>3 DEF IInv, InCall, FullGate, B
<1>7. Flight' /\ NeverTorn'
  BY <1>1, <1>2, <1>3 DEF IInv, Flight, NeverTorn
<1>8. FullCurrent' /\ Locks'
  BY <1>1, <1>2, <1>3 DEF IInv, FullCurrent, Locks
<1>9. GraphsDated' BY <1>1, <1>2, <1>3 DEF IInv, GraphsDated
<1>10. Warming' BY <1>1, <1>2, <1>3 DEF IInv, Warming, B
<1>11. Settling' /\ FreezeSettles'
  BY <1>1, <1>2, <1>3 DEF IInv, Settling, FreezeSettles, Replayable, Stale, B
<1> QED BY <1>4, <1>5, <1>6, <1>7, <1>8, <1>9, <1>10, <1>11 DEF IInv

\* Return keeps the invariant.
LEMMA ReturnIInv ==
    ASSUME IInv, Return
    PROVE  IInv'
<1>1. warm = 0 \/ warm = 1 \/ warm > 1 BY DEF IInv, TypeOK
<1> QED BY <1>1, ReturnToCallerIInv, ReturnToWarmUpIInv, ReturnToLockIInv

------------------------------
(* freeze.                                                                 *)

\* Refreeze keeps the invariant.
LEMMA RefreezeIInv ==
    ASSUME IInv, NEW s, Refreeze(s)
    PROVE  IInv'
<1>1. /\ pc = "idle" /\ frozen.on
      /\ staging_frozen' = TRUE
      /\ frozen' = [frozen EXCEPT !.bounded = TRUE]
      /\ UNCHANGED <<state, session_frozen, shape, device, generation, pc, images, done, warm,
                     spec, graph_ctx_batch, graphs, pinned, graph_disabled, full, gdec, staging,
                     flushed, inflight, torn>>
  BY DEF Refreeze, session, call, captured, memory, stream
<1>2. /\ frozen' \in [on : BOOLEAN, batch : Batch \cup {NoBatch}, src : Size, bounded : BOOLEAN]
      /\ frozen'.on = frozen.on /\ frozen'.batch = frozen.batch
  BY <1>1 DEF IInv, Shapes
<1>3. TypeOK' /\ Shapes'
  <2>1. done' \in 0..B' BY <1>1, <1>2 DEF IInv, TypeOK, B
  <2>2. TypeOK'
    BY <1>1, <1>2, <2>1, DetectorAssumption DEF IInv, TypeOK, B
  <2>3. Shapes' BY <1>1, <1>2 DEF IInv, Shapes, TypeOK, B
  <2> QED BY <2>2, <2>3
<1>4. MarkerTrusted' BY <1>1, <1>2 DEF IInv, MarkerTrusted
<1>5. InCall' BY <1>1, <1>2 DEF IInv, InCall, FullGate, B
<1>6. Flight' /\ NeverTorn' BY <1>1, <1>2 DEF IInv, Flight, NeverTorn
<1>7. FullCurrent' /\ Locks' BY <1>1, <1>2 DEF IInv, FullCurrent, Locks
<1>8. GraphsDated' BY <1>1, <1>2 DEF IInv, GraphsDated
<1>9. Warming' BY <1>1, <1>2 DEF IInv, Warming, B
<1>10. Settling' /\ FreezeSettles'
  BY <1>1, <1>2 DEF IInv, Settling, FreezeSettles, Replayable, Stale, B
<1> QED BY <1>3, <1>4, <1>5, <1>6, <1>7, <1>8, <1>9, <1>10 DEF IInv

\* CaptureFull keeps the invariant.
LEMMA CaptureFullIInv ==
    ASSUME IInv, CaptureFull
    PROVE  IInv'
<1>1. /\ pc = "capture" /\ pc' = "lock"
      /\ torn' = (torn \/ {"slab", "maps"} \cap inflight # {})
      /\ flushed' = spec.batch /\ inflight' = {}
      /\ full' = [ready |-> TRUE, batch |-> spec.batch, src |-> spec.src,
                 device |-> device, block |-> gdec.block]
      /\ UNCHANGED <<state, session_frozen, shape, device, generation, images, done, warm, spec,
                     graph_ctx_batch, graphs, pinned, graph_disabled, gdec, staging, frozen,
                     staging_frozen>>
  BY DEF CaptureFull, Session!Run, Touch, Idle, call, captured, memory, locks
<1>2. torn' = torn /\ torn = FALSE
  BY <1>1 DEF IInv, Flight, NeverTorn, TypeOK
<1>3. ~ frozen.on /\ B = spec.batch /\ B \in Batch /\ gdec.cap >= B /\ graph_ctx_batch = B
  BY <1>1 DEF IInv, Warming, InCall
<1>4. full' \in FullGraph
  BY <1>1, <1>3 DEF IInv, TypeOK, Shapes, FullGraph
<1>5. full'.device = device /\ full'.block = gdec.block /\ full'.batch = B
  BY <1>1, <1>3
<1>6. TypeOK' /\ Shapes'
  BY <1>1, <1>2, <1>3, <1>4, <1>5, DetectorAssumption DEF IInv, TypeOK, Shapes, B, HostBuffer
<1>7. MarkerTrusted'
  BY <1>1, <1>2, <1>3, <1>4, <1>5 DEF IInv, MarkerTrusted
<1>8. InCall'
  BY <1>1, <1>2, <1>3, <1>4, <1>5 DEF IInv, InCall, FullGate, B
<1>9. Flight' /\ NeverTorn'
  BY <1>1, <1>2, <1>3, <1>4, <1>5 DEF IInv, Flight, NeverTorn
<1>10. FullCurrent' /\ Locks'
  BY <1>1, <1>2, <1>3, <1>4, <1>5 DEF IInv, FullCurrent, Locks
<1>11. GraphsDated'
  BY <1>1, <1>2, <1>3, <1>4, <1>5 DEF IInv, GraphsDated
<1>12. Warming' BY <1>1, <1>2, <1>3, <1>4, <1>5 DEF IInv, Warming, B
<1>13. Settling' /\ FreezeSettles'
  BY <1>1, <1>2, <1>3, <1>4, <1>5 DEF IInv, Settling, FreezeSettles, Replayable, Stale, B
<1> QED BY <1>6, <1>7, <1>8, <1>9, <1>10, <1>11, <1>12, <1>13 DEF IInv

\* CaptureFullFails keeps the invariant.
LEMMA CaptureFullFailsIInv ==
    ASSUME IInv, CaptureFullFails
    PROVE  IInv'
<1>1. /\ pc = "capture"
      /\ \/ pc' = "lock" /\ state' = state
         \/ pc' = "throw" /\ state' = "poisoned"
      /\ inflight' = {}
      /\ UNCHANGED <<session_frozen, shape, device, generation, images, done, warm, spec,
                     graph_ctx_batch, graphs, pinned, graph_disabled, full, gdec, staging,
                     frozen, staging_frozen, flushed, torn>>
  BY DEF CaptureFullFails, Session!Poison, Idle, session, call, captured, memory, locks
<1>2. TypeOK' /\ Shapes'
  BY <1>1, DetectorAssumption DEF IInv, TypeOK, Shapes, B
<1>3. MarkerTrusted' BY <1>1 DEF IInv, MarkerTrusted
<1>4. InCall' BY <1>1 DEF IInv, InCall, FullGate, B
<1>5. Flight' /\ NeverTorn' BY <1>1 DEF IInv, Flight, NeverTorn
<1>6. FullCurrent' /\ Locks' BY <1>1 DEF IInv, FullCurrent, Locks
<1>7. GraphsDated' BY <1>1 DEF IInv, GraphsDated
<1>8. Warming' BY <1>1 DEF IInv, Warming, B
<1>9. Settling' /\ FreezeSettles'
  BY <1>1 DEF IInv, Settling, FreezeSettles, Replayable, Stale, B
<1> QED BY <1>2, <1>3, <1>4, <1>5, <1>6, <1>7, <1>8, <1>9 DEF IInv

\* Lock keeps the invariant.
LEMMA LockIInv ==
    ASSUME IInv, Lock
    PROVE  IInv'
<1>1. /\ pc = "lock" /\ pc' = "idle" /\ images' = <<>> /\ done' = 0
      /\ session_frozen' = TRUE
      /\ frozen' = [on |-> TRUE, batch |-> spec.batch, src |-> spec.src, bounded |-> spec.bounded]
      /\ staging_frozen' = (staging_frozen \/ spec.bounded)
      /\ UNCHANGED <<state, shape, device, generation, warm, spec, graph_ctx_batch, graphs,
                     pinned, graph_disabled, full, gdec, staging, flushed, inflight, torn>>
  BY DEF Lock, Locked, Session!Freeze, call, captured, memory, stream
<1>2. images' \in Seq(Size) /\ B' = 0 BY <1>1 DEF B
<1>3. /\ frozen' \in [on : BOOLEAN, batch : Batch \cup {NoBatch}, src : Size, bounded : BOOLEAN]
      /\ frozen'.on = TRUE /\ frozen'.batch = spec.batch /\ frozen'.bounded = spec.bounded
  BY <1>1 DEF IInv, Shapes
<1>4. ~ frozen.on /\ warm = 0 /\ spec.batch \in Batch /\ Replayable(spec.batch)
  BY <1>1 DEF IInv, Warming, Settling
<1>5. staging_frozen' \in BOOLEAN /\ (spec.bounded => staging_frozen')
  BY <1>1 DEF IInv, TypeOK, Shapes
<1>6. TypeOK' /\ Shapes'
  <2>1. done' \in 0..B' BY <1>1, <1>2, <1>3, <1>5
  <2>2. TypeOK'
    BY <1>1, <1>2, <1>3, <1>5, <2>1, DetectorAssumption DEF IInv, TypeOK
  <2>3. Shapes' BY <1>1, <1>2, <1>3, <1>5 DEF IInv, Shapes, TypeOK
  <2> QED BY <2>2, <2>3
<1>7. MarkerTrusted'
  BY <1>1, <1>2, <1>3, <1>4, <1>5 DEF IInv, MarkerTrusted
<1>8. InCall'
  BY <1>1, <1>2, <1>3, <1>4, <1>5 DEF IInv, InCall, FullGate, B
<1>9. Flight' /\ NeverTorn'
  BY <1>1, <1>2, <1>3, <1>4, <1>5 DEF IInv, Flight, NeverTorn
<1>10. FullCurrent' /\ Locks'
  BY <1>1, <1>2, <1>3, <1>4, <1>5 DEF IInv, FullCurrent, Locks
<1>11. GraphsDated'
  BY <1>1, <1>2, <1>3, <1>4, <1>5 DEF IInv, GraphsDated
<1>12. Warming' BY <1>1, <1>2, <1>3, <1>4, <1>5 DEF IInv, Warming, B
<1>13. Settling' /\ FreezeSettles'
  BY <1>1, <1>2, <1>3, <1>4, <1>5 DEF IInv, Settling, FreezeSettles, Replayable, Stale, B
<1> QED BY <1>6, <1>7, <1>8, <1>9, <1>10, <1>11, <1>12, <1>13 DEF IInv

\* A step that changes nothing keeps the invariant.
LEMMA StutterIInv ==
    ASSUME IInv, UNCHANGED vars
    PROVE  IInv'
<1>1. /\ pc' = pc
      /\ UNCHANGED <<state, session_frozen, shape, device, generation, images, done, warm, spec,
                     graph_ctx_batch, graphs, pinned, graph_disabled, full, gdec, staging,
                     frozen, staging_frozen, flushed, inflight, torn>>
  BY DEF vars, session, call, captured, memory, locks, stream
<1>2. TypeOK' /\ Shapes'
  BY <1>1, DetectorAssumption DEF IInv, TypeOK, Shapes, B
<1>3. MarkerTrusted' BY <1>1 DEF IInv, MarkerTrusted
<1>4. InCall' BY <1>1 DEF IInv, InCall, FullGate, B
<1>5. Flight' /\ NeverTorn' BY <1>1 DEF IInv, Flight, NeverTorn
<1>6. FullCurrent' /\ Locks' BY <1>1 DEF IInv, FullCurrent, Locks
<1>7. GraphsDated' BY <1>1 DEF IInv, GraphsDated
<1>8. Warming' BY <1>1 DEF IInv, Warming, B
<1>9. Settling' /\ FreezeSettles'
  BY <1>1 DEF IInv, Settling, FreezeSettles, Replayable, Stale, B
<1> QED BY <1>2, <1>3, <1>4, <1>5, <1>6, <1>7, <1>8, <1>9 DEF IInv

------------------------------
(* The theorems.                                                           *)

LEMMA InitIInv == Init => IInv
<1> SUFFICES ASSUME Init PROVE IInv
  OBVIOUS
<1>1. B = 0 /\ images \in Seq(Size) BY DEF Init, B
<1>2. frozen.on = FALSE /\ frozen.bounded = FALSE /\ full.ready = FALSE
  BY DEF Init, NoGraph
<1>3. \A b \in Batch : graphs[b] = NoGraph /\ ~ graphs[b].ready
  BY DEF Init, NoGraph
<1>4. TypeOK
  <2>1. pinned \in [addr : Pinned, cap : Batch \cup {0}] BY DEF Init
  <2>2. gdec \in [block : {0, 1}, cap : Batch \cup {0}] BY DEF Init
  <2>3. graphs \in [Batch -> Graph \cup {NoGraph}] BY DEF Init
  <2>4. done \in 0..B /\ warm \in 0..3 BY <1>1 DEF Init
  <2>5. full \in FullGraph \cup {NoGraph} /\ staging \in Size \cup {0}
      /\ inflight \subseteq HostBuffer
    BY DEF Init
  <2>6. /\ pc = "idle" /\ graph_ctx_batch = NoBatch /\ flushed = NoBatch
        /\ {graph_disabled, staging_frozen, torn} \subseteq BOOLEAN
    BY DEF Init
  <2> QED BY <1>1, <2>1, <2>2, <2>3, <2>4, <2>5, <2>6 DEF TypeOK
<1>5. Shapes
  BY DetectorAssumption DEF Init, Shapes, Session!Init, Session!Buffers
<1>6. MarkerTrusted /\ InCall /\ Flight /\ NeverTorn
  BY <1>1 DEF Init, MarkerTrusted, InCall, Flight, NeverTorn
<1>7. FullCurrent /\ Locks /\ GraphsDated /\ FreezeSettles
  BY <1>2, <1>3 DEF FullCurrent, Locks, GraphsDated, FreezeSettles
<1>8. Warming /\ Settling BY DEF Init, Warming, Settling
<1> QED BY <1>4, <1>5, <1>6, <1>7, <1>8 DEF IInv

LEMMA NextIInv == IInv /\ [Next]_vars => IInv'
<1> SUFFICES ASSUME IInv, [Next]_vars PROVE IInv'
  OBVIOUS
<1>1. CASE RunBatch
  BY <1>1, RefuseBatchIInv, KeepShapeIInv, SetShapeIInv, SetShapeFailsIInv, PreprocessIInv,
     PreprocessFailsIInv, GrowScratchIInv, GrowScratchFailsIInv, DecodeIInv, EnqueueFailsIInv,
     EraseStaleIInv, CaptureIInv, CaptureFailsIInv, ReplayEngineIInv, EnqueueIInv,
     CopyOutputsIInv, ReplayFullIInv, WaitIInv, WaitFailsIInv, ReturnIInv, ThrowIInv
     DEF RunBatch
<1>2. CASE (\E ims \in Calls : Detect(ims)) \/ (\E s \in FreezeSpec : Freeze(s) \/ Refreeze(s))
  BY <1>2, DetectIInv, FreezeIInv, RefreezeIInv
<1>3. CASE CaptureFull \/ CaptureFullFails \/ Lock
  BY <1>3, CaptureFullIInv, CaptureFullFailsIInv, LockIInv
<1>4. CASE UNCHANGED vars BY <1>4, StutterIInv
<1> QED BY <1>1, <1>2, <1>3, <1>4 DEF Next

\* IInv holds of every detector: the step of the call under way, the marker, the graphs and
\* the locks stay tied to each other through every failure of run_batch and freeze_.
THEOREM DetectorInvariant == Spec => []IInv
BY InitIInv, NextIInv, PTL DEF Spec

\* Every variable keeps the type that TypeOK gives it, for any engine and options.
THEOREM DetectorTypes == Spec => []TypeOK
<1>1. IInv => TypeOK BY DEF IInv
<1> QED BY <1>1, DetectorInvariant, PTL

\* graph_ctx_batch_ names a batch only while the context is flushed for it, however the
\* calls before it ended.
THEOREM MarkerIsTrusted == Spec => []MarkerTrusted
<1>1. IInv => MarkerTrusted BY DEF IInv
<1> QED BY <1>1, DetectorInvariant, PTL

\* What the full-pipeline graph baked in (device buffers, decode scratch) stays valid for
\* as long as the graph can be replayed.
THEOREM FullGraphIsPinned == Spec => []FullGraphPinned
<1>1. IInv => FullGraphPinned BY DEF IInv, FullCurrent, FullGraphPinned
<1> QED BY <1>1, DetectorInvariant, PTL

\* Every call and freeze() leaves the stream empty, on its error paths as well.
THEOREM CallsDrain == Spec => []DrainedBetweenCalls
<1>1. IInv => DrainedBetweenCalls
  BY DEF IInv, Flight, DrainedBetweenCalls
<1> QED BY <1>1, DetectorInvariant, PTL

\* The host leaves pinned buffers alone while queued work uses them.
THEOREM BuffersAreNeverTorn == Spec => []NeverTorn
<1>1. IInv => NeverTorn BY DEF IInv
<1> QED BY <1>1, DetectorInvariant, PTL

\* The engine graphs that graph_stale_ lets through write into the buffers results are
\* read from.
THEOREM ReplaysLand == Spec => []ResultsLand
<1>1. IInv => ResultsLand BY DEF IInv, GraphsDated, Stale, ResultsLand
<1> QED BY <1>1, DetectorInvariant, PTL

\* The warm-up of freeze() leaves the engine graph of its batch ready and current.
THEOREM FreezeIsSettled == Spec => []FreezeSettles
<1>1. IInv => FreezeSettles BY DEF IInv
<1> QED BY <1>1, DetectorInvariant, PTL

LEMMA ConstantFrames ==
    ASSUME NEW n \in Nat, NEW x
    PROVE  /\ Len([k \in 1..n |-> x]) = n
           /\ \A k \in DOMAIN [j \in 1..n |-> x] : [j \in 1..n |-> x][k] = x
OBVIOUS

\* A call that succeeded at the frozen batch opens the gates of the full-pipeline graph.
THEOREM GatesAreHealed == Spec => []GatesHeal
<1>1. IInv => GatesHeal
  <2> SUFFICES ASSUME IInv, pc = "return", full.ready, B = full.batch
               PROVE  FullGate([k \in 1..full.batch |-> full.src])
    BY DEF GatesHeal
  <2>1. full.batch \in Nat BY FullFacts
  <2>2. state = "clean" /\ graph_ctx_batch = full.batch
    BY DEF IInv, InCall
  <2> QED BY <2>1, <2>2, ConstantFrames DEF FullGate
<1> QED BY <1>1, DetectorInvariant, PTL

\* Once frozen, no step moves a device buffer, captures a graph or allocates scratch, and
\* with source bounds none allocates staging.
THEOREM FrozenStays == Spec => FrozenAllocatesNothing
<1> DEFINE A == frozen.on =>
                  /\ UNCHANGED <<device, generation, gdec, pinned, full>>
                  /\ \A b \in Batch : graphs'[b] \in {graphs[b], NoGraph}
                  /\ frozen.bounded => UNCHANGED staging
<1>1. IInv /\ [Next]_vars => [A]_vars
  <2> SUFFICES ASSUME IInv, Next PROVE A
    OBVIOUS
  <2>1. frozen.on => session_frozen /\ (frozen.bounded => staging_frozen) /\ pc # "capture"
    BY DEF IInv, Locks, Warming
  <2>2. CASE SetShape
    BY <2>1, <2>2 DEF SetShape, Session!Settle, Session!Replace, captured, memory
  <2>3. CASE Preprocess \/ PreprocessFails
    BY <2>1, <2>3 DEF Preprocess, PreprocessFails, StagingMayGrow, session, captured
  <2>4. CASE GrowScratch \/ GrowScratchFails \/ Capture \/ CaptureFails
    BY <2>4 DEF GrowScratch, GrowScratchFails, Capture, CaptureFails, MayCapture, Session!Run,
                session, captured, memory
  <2>5. CASE EraseStale
    <3>1. UNCHANGED <<device, generation, gdec, staging, pinned, full>>
      BY <2>5 DEF EraseStale, session, memory
    <3>2. graphs \in [Batch -> Graph \cup {NoGraph}] /\ graphs' = [graphs EXCEPT ![B] = NoGraph]
      BY <2>5 DEF EraseStale, IInv, TypeOK
    <3> QED BY <3>1, <3>2
  <2>6. CASE CaptureFull BY <2>1, <2>6 DEF CaptureFull
  <2>7. CASE RefuseBatch \/ KeepShape \/ SetShapeFails \/ Decode \/ EnqueueFails
    BY <2>7 DEF RefuseBatch, KeepShape, SetShapeFails, Decode, EnqueueFails, Session!Run,
                Session!Break, Session!Poison, session, captured, memory
  <2>8. CASE ReplayEngine \/ Enqueue \/ CopyOutputs \/ ReplayFull \/ Wait \/ WaitFails
    BY <2>8 DEF ReplayEngine, Enqueue, CopyOutputs, ReplayFull, Wait, WaitFails, Replay,
                Session!Run, Session!Poison, session, captured, memory
  <2>9. CASE Return \/ Throw \/ CaptureFullFails \/ Lock
    BY <2>9 DEF Return, Throw, CaptureFullFails, Lock, Session!Poison, Session!Freeze, session,
                captured, memory
  <2>10. ASSUME NEW ims \in Calls, Detect(ims) PROVE A
    BY <2>10 DEF Detect, session, captured, memory
  <2>11. ASSUME NEW s \in FreezeSpec, Freeze(s) \/ Refreeze(s) PROVE A
    BY <2>11 DEF Freeze, Refreeze, session, captured, memory
  <2> QED BY <2>2, <2>3, <2>4, <2>5, <2>6, <2>7, <2>8, <2>9, <2>10, <2>11 DEF Next, RunBatch
<1> QED BY <1>1, DetectorInvariant, PTL DEF Spec, FrozenAllocatesNothing

------------------------------
(* Replays are inferences.                                                 *)

LEMMA EngineReplayRuns ==
    ASSUME IInv, ReplayEngine
    PROVE  Session!Run \/ UNCHANGED Session!vars
<1>1. CASE UNCHANGED session BY <1>1 DEF session, Session!vars
<1>2. CASE Replay(B, graphs[B].device)
  <2>1. B \in Batch /\ state = "clean" /\ shape = B /\ graphs[B].ready /\ ~ Stale(graphs[B])
    BY DEF ReplayEngine, IInv, InCall
  <2>2. graphs[B].device = device BY <2>1 DEF IInv, GraphsDated, Stale
  <2>3. shape # NoBatch BY <2>1, DetectorAssumption
  <2> QED BY <1>2, <2>1, <2>2, <2>3 DEF Replay, Session!Run
<1> QED BY <1>1, <1>2 DEF ReplayEngine

LEMMA FullReplayRuns ==
    ASSUME IInv, ReplayFull
    PROVE  Session!Run \/ UNCHANGED Session!vars
<1>1. CASE UNCHANGED session BY <1>1 DEF session, Session!vars
<1>2. CASE Replay(full.batch, full.device)
  <2>1. full.ready /\ state = "clean" /\ graph_ctx_batch = full.batch
    BY DEF ReplayFull, IInv, InCall, FullGate
  <2>2. full.batch \in Batch /\ full.batch # NoBatch
    BY <2>1, FullFacts, DetectorAssumption
  <2>3. shape = full.batch BY <2>1, <2>2 DEF IInv, MarkerTrusted
  <2>4. full.device = device BY <2>1 DEF IInv, FullCurrent
  <2> QED BY <1>2, <2>1, <2>2, <2>3, <2>4 DEF Replay, Session!Run
<1> QED BY <1>1, <1>2 DEF ReplayFull

\* Every step of the detector is a step of the session's contract or leaves the session
\* alone; a replayed graph, which calls no TensorRT, is one of its inferences.
THEOREM ReplaysAreSessionInferences == Spec => ReplaysAreInferences
<1>1. Init => Session!Init BY DEF Init
<1>2. IInv /\ [Next]_vars => [Session!Next]_(Session!vars)
  <2> SUFFICES ASSUME IInv, [Next]_vars PROVE Session!Next \/ UNCHANGED Session!vars
    OBVIOUS
  <2>1. CASE SetShape
    <3>1. B \in Batch BY <2>1 DEF SetShape, BatchRefused
    <3> QED BY <2>1, <3>1 DEF SetShape, Session!Next
  <2>2. CASE ReplayEngine \/ ReplayFull
    BY <2>2, EngineReplayRuns, FullReplayRuns DEF Session!Next
  <2>3. CASE SetShapeFails \/ Decode \/ EnqueueFails \/ Capture \/ Enqueue \/ WaitFails
      \/ CaptureFull \/ Lock
    BY <2>3 DEF SetShapeFails, Decode, EnqueueFails, Capture, Enqueue, WaitFails, CaptureFull,
       Lock,
                Session!Next
  <2>4. CASE Throw \/ CaptureFullFails
    BY <2>4 DEF Throw, CaptureFullFails, session, Session!vars, Session!Next
  <2>5. CASE RefuseBatch \/ KeepShape \/ Preprocess \/ PreprocessFails \/ GrowScratch
      \/ GrowScratchFails
    BY <2>5 DEF RefuseBatch, KeepShape, Preprocess, PreprocessFails, GrowScratch,
       GrowScratchFails,
                session, Session!vars
  <2>6. CASE EraseStale \/ CaptureFails \/ CopyOutputs \/ Wait \/ Return
    BY <2>6 DEF EraseStale, CaptureFails, CopyOutputs, Wait, Return, session, Session!vars
  <2>7. ASSUME NEW ims \in Calls, Detect(ims) PROVE UNCHANGED Session!vars
    BY <2>7 DEF Detect, session, Session!vars
  <2>8. ASSUME NEW s \in FreezeSpec, Freeze(s) \/ Refreeze(s) PROVE UNCHANGED Session!vars
    BY <2>8 DEF Freeze, Refreeze, session, Session!vars
  <2>9. CASE UNCHANGED vars BY <2>9 DEF vars, session, Session!vars
  <2> QED BY <2>1, <2>2, <2>3, <2>4, <2>5, <2>6, <2>7, <2>8, <2>9 DEF Next, RunBatch
<1> QED BY <1>1, <1>2, DetectorInvariant, PTL DEF Spec, ReplaysAreInferences, Session!Spec
===============================================================================
