--------------------------- MODULE ImagePreprocessor ---------------------------
(***************************************************************************)
(* ImagePreprocessor (src/src/core/cuda_preprocess.cu): each image is      *)
(* packed into one pinned staging buffer, uploaded to one device source    *)
(* buffer and resized by a kernel into its slot of the engine input.  Both *)
(* buffers are reused for every image and grow on demand; the host waits   *)
(* for the last upload only, never for the kernel.                         *)
(*                                                                         *)
(* An image is its identity and its packed size.  Sizes of buffers are     *)
(* kept apart from capacity_, which is only what the class believes.       *)
(***************************************************************************)
EXTENDS Naturals, Sequences

CONSTANTS
  Image,     \* images callers pass
  Bytes,     \* Bytes[im]: size of image im once packed
  Slot,      \* positions of a batch in the engine input
  Garbage,   \* contents nobody wrote
  MaxQueue   \* bound: operations queued on the stream

ASSUME PreprocessorAssumption ==
  /\ Garbage \notin Image
  /\ Bytes \in [Image -> Nat \ {0}]
  /\ MaxQueue \in Nat

VARIABLES
  pc,        \* where process() is: "idle", "wait", "free", "device", "pinned", "pack",
             \* "unwind"
  job,       \* the image and slot process() was called with
  frozen,    \* frozen_
  capacity,  \* capacity_
  size,      \* bytes allocated for d_src_ and h_pinned_
  h_pinned,  \* image in the pinned buffer
  d_src,     \* image in the device source buffer
  d_dst,     \* image each slot of the engine input was made from
  stream,    \* operations the GPU has not executed, in order
  wanted     \* image last accepted for each slot

host == <<pc, job, frozen>>
buffers == <<capacity, size>>
data == <<h_pinned, d_src, d_dst>>
vars == <<host, buffers, data, stream, wanted>>

Operation == [op : {"upload", "kernel"}, slot : Slot]
Upload(s) == [op |-> "upload", slot |-> s]
Kernel(s) == [op |-> "kernel", slot |-> s]
Queued(o) == \E i \in DOMAIN stream : stream[i] = o

Init ==
  /\ pc = "idle" /\ job \in Image \X Slot /\ frozen = FALSE
  /\ capacity = 0 /\ size = [d_src |-> 0, h_pinned |-> 0]
  /\ h_pinned = Garbage /\ d_src = Garbage /\ d_dst = [s \in Slot |-> Garbage]
  /\ stream = <<>>
  /\ wanted = [s \in Slot |-> Garbage]

-----------------------------------------------------------------------------
(* process().                                                              *)

\* A bug that overwrites the staging buffers without waiting.
UploadAssumedDone == TRUE

\* A bug that waits for an upload to have arrived: the first call has none to wait for.
UploadArrived == h_pinned # Garbage /\ d_src = h_pinned

\* cudaEventSynchronize(upload_done_): the last upload has left the pinned buffer.
UploadDone == \A s \in Slot : ~ Queued(Upload(s))

MayGrow == ~ frozen

\* A well-formed image comes to the wait.
Process(im, s) ==
  /\ pc = "idle"
  /\ job' = <<im, s>>
  /\ pc' = "wait"
  /\ UNCHANGED <<frozen, buffers, data, stream, wanted>>

\* The wait ends.  A frame that does not fit a frozen preprocessor is refused.
Waited ==
  /\ pc = "wait"
  /\ UploadDone
  /\ pc' = CASE Bytes[job[1]] <= capacity -> "pack"
             [] Bytes[job[1]] > capacity /\ MayGrow -> "free"
             [] OTHER -> "unwind"
  /\ UNCHANGED <<job, frozen, buffers, data, stream, wanted>>

\* A malformed image, or an error reported by the wait.
ProcessFails ==
  /\ pc \in {"idle", "wait"}
  /\ pc' = "unwind"
  /\ UNCHANGED <<job, frozen, buffers, data, stream, wanted>>

\* cudaFree and cudaFreeHost return only when the device is idle.
DeviceIdle == stream = <<>>

\* Nothing is left to fit in once the buffers are gone.
CapacityWhileGrowing == 0

Free ==
  /\ pc = "free"
  /\ DeviceIdle
  /\ capacity' = CapacityWhileGrowing
  /\ size' = [d_src |-> 0, h_pinned |-> 0]
  /\ h_pinned' = Garbage /\ d_src' = Garbage
  /\ pc' = "device"
  /\ UNCHANGED <<job, frozen, d_dst, stream, wanted>>

AllocateDevice ==
  /\ pc = "device"
  /\ size' = [size EXCEPT !.d_src = Bytes[job[1]]]
  /\ pc' = "pinned"
  /\ UNCHANGED <<job, frozen, capacity, data, stream, wanted>>

AllocatePinned ==
  /\ pc = "pinned"
  /\ size' = [size EXCEPT !.h_pinned = Bytes[job[1]]]
  /\ capacity' = Bytes[job[1]]
  /\ pc' = "pack"
  /\ UNCHANGED <<job, frozen, data, stream, wanted>>

\* Either allocation may fail; what was allocated stays owned.
AllocateFails ==
  /\ pc \in {"device", "pinned"}
  /\ pc' = "unwind"
  /\ UNCHANGED <<job, frozen, buffers, data, stream, wanted>>

\* d_input + i * single, computed by the caller for the i-th image.
Target == job[2]

\* Pack, queue the upload, record the event, queue the kernel.
Accept ==
  /\ pc = "pack"
  /\ Len(stream) + 2 <= MaxQueue
  /\ h_pinned' = job[1]
  /\ stream' = stream \o <<Upload(Target), Kernel(Target)>>
  /\ wanted' = [wanted EXCEPT ![Target] = job[1]]
  /\ pc' = "idle"
  /\ UNCHANGED <<job, frozen, buffers, d_src, d_dst>>

\* The upload, its event or the kernel cannot be queued.
QueueFails ==
  /\ pc = "pack"
  /\ Len(stream) + 1 <= MaxQueue
  /\ h_pinned' = job[1]
  /\ stream' \in {stream, Append(stream, Upload(Target))}
  /\ pc' = "unwind"
  /\ UNCHANGED <<job, frozen, buffers, d_src, d_dst, wanted>>

\* The exception leaves run_batch, whose DrainOnException waits for the stream.
Unwound ==
  /\ pc = "unwind"
  /\ stream = <<>>
  /\ pc' = "idle"
  /\ UNCHANGED <<job, frozen, buffers, data, stream, wanted>>

Freeze ==
  /\ pc = "idle" /\ ~ frozen
  /\ frozen' = TRUE
  /\ UNCHANGED <<pc, job, buffers, data, stream, wanted>>

\* The GPU executes the next operation on what the buffers hold now.
GpuStep ==
  /\ stream # <<>>
  /\ stream' = Tail(stream)
  /\ \/ /\ Head(stream).op = "upload"
        /\ d_src' = h_pinned
        /\ UNCHANGED d_dst
     \/ /\ Head(stream).op = "kernel"
        /\ d_dst' = [d_dst EXCEPT ![Head(stream).slot] = d_src]
        /\ UNCHANGED d_src
  /\ UNCHANGED <<host, buffers, h_pinned, wanted>>

Grow == Free \/ AllocateDevice \/ AllocatePinned \/ AllocateFails

Next ==
  \/ \E im \in Image, s \in Slot : Process(im, s)
  \/ Waited \/ ProcessFails
  \/ Grow \/ Accept \/ QueueFails \/ Unwound
  \/ Freeze
  \/ GpuStep

\* The GPU never stops, and a call that was begun goes on to its end.  No
\* failure is owed.
Fairness ==
  /\ WF_vars(GpuStep)
  /\ WF_vars(Waited \/ Free \/ AllocateDevice \/ AllocatePinned \/ Accept \/ Unwound)

Spec == Init /\ [][Next]_vars /\ Fairness

-----------------------------------------------------------------------------
(* Properties.                                                             *)

TypeOK ==
  /\ pc \in {"idle", "wait", "free", "device", "pinned", "pack", "unwind"}
  /\ job \in Image \X Slot
  /\ frozen \in BOOLEAN
  /\ capacity \in Nat
  /\ size \in [d_src : Nat, h_pinned : Nat]
  /\ {h_pinned, d_src} \subseteq Image \cup {Garbage}
  /\ d_dst \in [Slot -> Image \cup {Garbage}]
  /\ wanted \in [Slot -> Image \cup {Garbage}]
  /\ stream \in Seq(Operation)

\* Once the kernel of a slot has run, the slot holds the pixels of the image accepted for
\* it, although every image of the batch passed through the same two buffers.
RightPixels ==
  \A s \in Slot : ~ Queued(Kernel(s)) => d_dst[s] = wanted[s]

\* What is packed or queued fits both buffers, and capacity_ never promises more than both
\* hold, however an earlier growth failed.
CapacityHonest ==
  /\ capacity <= size.d_src
  /\ capacity <= size.h_pinned
  /\ pc = "pack" => Bytes[job[1]] <= capacity

\* freeze() ends allocation: a frozen preprocessor neither frees nor allocates again.
FrozenStays == [][frozen => UNCHANGED buffers]_vars

\* Every call comes back, whether it succeeds, fails to allocate or cannot queue its work:
\* neither the wait for the last upload, nor that for the device, nor the drain blocks for ever.
CallReturns == pc # "idle" ~> pc = "idle"
==============================================================================
