------------------------------ MODULE TrtSession ------------------------------
(***************************************************************************)
(* TrtSession (src/src/core/trt_session.cpp): the execution context, the   *)
(* device and pinned buffers of every binding, and the transactional       *)
(* set_input_shape that keeps them in step.                                *)
(*                                                                         *)
(* One host thread drives a session; the GPU works on what was queued on   *)
(* its stream while the host goes on.  An address stands for the device    *)
(* buffer of a binding together with its pinned twin: the code allocates,  *)
(* swaps and frees the two together.  set_input_shape is one action per    *)
(* step that can fail.  Calls that change nothing (the unchanged-shape     *)
(* fast path, a frozen request rejected before the context is touched, any *)
(* call on a poisoned session) are stuttering steps.                       *)
(***************************************************************************)
EXTENDS Naturals

CONSTANTS
  Binding,     \* binding indices, in the engine's order
  Input,       \* the dynamic input among them
  Shape,       \* input shapes a caller may request
  NoShape,     \* the unresolved shape of a dynamic engine
  Unresolved,  \* shapes that leave some output's shape data-dependent
  Bytes,       \* Bytes[b][s]: what binding b needs when the input shape is s
  CtorBytes,   \* what each binding gets at construction (0: dynamic, deferred)
  Address,     \* device addresses
  NoAddress    \* no buffer

ASSUME SessionAssumption ==
  /\ Binding \subseteq Nat
  /\ Input \in Binding
  /\ NoShape \notin Shape
  /\ NoAddress \notin Address
  /\ Bytes \in [Binding -> [Shape -> Nat \ {0}]]
  /\ CtorBytes \in [Binding -> Nat]
  /\ \A b \in Binding : CtorBytes[b] # 0 => \A s \in Shape : Bytes[b][s] = CtorBytes[b]

VARIABLES
  phase,        \* where set_input_shape is: "idle", "grow", "restore"; or "destroyed"
  target,       \* the shape set_input_shape was asked for
  staged,       \* replacement buffers of the transition under way
  rebound,      \* bindings whose context address is the staged one
  shape_state,  \* kClean, kDirty, kPoisoned
  frozen,       \* frozen_
  shape,        \* the input shape bindings_ was last committed for
  capacity,     \* buffer_capacity_
  device,       \* device_buffers_
  generation,   \* buffer_generation_
  ctx_shape,    \* the input shape the execution context holds
  ctx_addr,     \* the tensor addresses the execution context holds
  live,         \* allocated device memory
  inflight,     \* addresses that work queued on the stream still touches
  ran           \* context shape and addresses of the last launched inference

transition == <<phase, target, staged, rebound>>
cache == <<shape, capacity, device, generation>>
context == <<ctx_shape, ctx_addr>>
gpu == <<live, inflight, ran>>
vars == <<transition, shape_state, frozen, cache, context, gpu>>

Buffers == [Binding -> Address \cup {NoAddress}]
NoBuffers == [b \in Binding |-> NoAddress]
Held(buffers) == {buffers[b] : b \in Binding} \ {NoAddress}

\* Distinct bindings hold distinct buffers.
Distinct(buffers) ==
  \A b, c \in Binding : b # c /\ buffers[b] # NoAddress => buffers[b] # buffers[c]

\* The constructor allocates and binds every binding whose size the engine fixes.
Init ==
  /\ phase = "idle" /\ target = NoShape /\ staged = NoBuffers /\ rebound = {}
  /\ shape_state = "clean" /\ frozen = FALSE
  /\ shape = NoShape /\ capacity = CtorBytes /\ generation = 0
  /\ device \in Buffers
  /\ Distinct(device)
  /\ \A b \in Binding : device[b] = NoAddress <=> CtorBytes[b] = 0
  /\ ctx_shape = NoShape /\ ctx_addr = device
  /\ live = Held(device) /\ inflight = {}
  /\ ran = [shape |-> NoShape, device |-> device]

-----------------------------------------------------------------------------
(* The stream.                                                             *)

Quiesced == inflight' = {}

\* A bug that skips the wait: queued work is still there afterwards.
NotQuiesced == UNCHANGED inflight

\* synchronize("shape transition"), before a transition touches anything.
QuiesceForTransition == Quiesced

\* The GPU finishes what was queued.  A synchronize() or drain_noexcept() that succeeds
\* is this step, as the host sees it.
GpuRetires ==
  /\ inflight # {}
  /\ Quiesced
  /\ UNCHANGED <<transition, shape_state, frozen, cache, context, live, ran>>

\* A stream that reports an error runs nothing more; the session is poisoned by
\* synchronize() and by drain_noexcept() alike.
StreamFails ==
  /\ phase = "idle"
  /\ shape_state' = "poisoned"
  /\ Quiesced
  /\ UNCHANGED <<transition, frozen, cache, context, live, ran>>

-----------------------------------------------------------------------------
(* set_input_shape.                                                        *)

Grown(s) == {b \in Binding : Bytes[b][s] > capacity[b]}
Unstaged == {b \in Grown(target) : staged[b] = NoAddress}
First(b, S) == b \in S /\ \A c \in S : b <= c

\* The cache is trusted only while it is known to mirror the context.
FastPath(s) == shape_state = "clean" /\ shape = s

FrozenReject(s) == frozen /\ Input \in Grown(s)

\* Some output outgrows a buffer the frozen session may not replace.
FrozenOutput(s) == frozen /\ Grown(s) # {}

\* The request goes past the fast path and the frozen pre-check.
Transitions(s) ==
  /\ phase = "idle"
  /\ shape_state # "poisoned"
  /\ ~ FastPath(s)
  /\ ~ FrozenReject(s)

\* The state is marked before the context may diverge from the cache.
MarkDirty == shape_state' = "dirty"

\* The context refuses the shape.
ContextRefuses(s) ==
  /\ Transitions(s)
  /\ QuiesceForTransition
  /\ MarkDirty
  /\ UNCHANGED <<transition, frozen, cache, context, live, ran>>

\* The context took the shape, but the plan cannot be carried out.
Unplannable(s) ==
  /\ Transitions(s)
  /\ s \in Unresolved \/ FrozenOutput(s)
  /\ QuiesceForTransition
  /\ MarkDirty
  /\ ctx_shape' = s
  /\ UNCHANGED <<transition, frozen, cache, ctx_addr, live, ran>>

\* The context took the shape and the plan stands.
BeginTransition(s) ==
  /\ Transitions(s)
  /\ s \notin Unresolved /\ ~ FrozenOutput(s)
  /\ QuiesceForTransition
  /\ MarkDirty
  /\ ctx_shape' = s
  /\ phase' = "grow"
  /\ target' = s
  /\ UNCHANGED <<staged, rebound, frozen, cache, ctx_addr, live, ran>>

Allocate(b) ==
  /\ phase = "grow"
  /\ First(b, Unstaged)
  /\ \E a \in Address \ live :
       /\ staged' = [staged EXCEPT ![b] = a]
       /\ live' = live \cup {a}
  /\ UNCHANGED <<phase, target, rebound, shape_state, frozen, cache, context, inflight, ran>>

\* Leaving a failed transition frees what it staged.
FreeStaged == live' = live \ Held(staged)

Abandon ==
  /\ phase' = "idle"
  /\ target' = NoShape
  /\ staged' = NoBuffers
  /\ rebound' = {}
  /\ FreeStaged

\* cudaMalloc or cudaMallocHost fails for the next binding.
AllocateFails ==
  /\ phase = "grow"
  /\ Unstaged # {}
  /\ Abandon
  /\ UNCHANGED <<shape_state, frozen, cache, context, inflight, ran>>

ToRebind == Grown(target) \ rebound

Rebind(b) ==
  /\ phase = "grow" /\ Unstaged = {}
  /\ First(b, ToRebind)
  /\ ctx_addr' = [ctx_addr EXCEPT ![b] = staged[b]]
  /\ rebound' = rebound \cup {b}
  /\ UNCHANGED <<phase, target, staged, shape_state, frozen, cache, ctx_shape, gpu>>

\* A bug that leaves the last swapped address behind.
SwappedButLast == {b \in rebound : device[b] # NoAddress /\ \E c \in rebound : c > b}

\* The addresses to restore: those already swapped that had a buffer before.
ToRestore == {b \in rebound : device[b] # NoAddress}

RebindFails ==
  /\ phase = "grow" /\ Unstaged = {}
  /\ ToRebind # {}
  /\ phase' = "restore"
  /\ rebound' = ToRestore
  /\ UNCHANGED <<target, staged, shape_state, frozen, cache, context, gpu>>

Restore(b) ==
  /\ phase = "restore"
  /\ First(b, rebound)
  /\ ctx_addr' = [ctx_addr EXCEPT ![b] = device[b]]
  /\ rebound' = rebound \ {b}
  /\ UNCHANGED <<phase, target, staged, shape_state, frozen, cache, ctx_shape, gpu>>

\* The context may go on referring to a buffer the unwind frees.
RestoreFails ==
  /\ phase = "restore"
  /\ rebound # {}
  /\ shape_state' = "poisoned"
  /\ Abandon
  /\ UNCHANGED <<frozen, cache, context, inflight, ran>>

\* Every restorable address is back; the session stays dirty.
Unwind ==
  /\ phase = "restore"
  /\ rebound = {}
  /\ Abandon
  /\ UNCHANGED <<shape_state, frozen, cache, context, inflight, ran>>

\* The capacity recorded for binding b once the transition commits.
CommittedCapacity(b) ==
  IF b \in Grown(target) THEN Bytes[b][target] ELSE capacity[b]

\* A bug that announces new buffers only when the input's buffer moved.
GenerationOfInput == IF Input \in Grown(target) THEN generation + 1 ELSE generation

\* One generation for the whole set of addresses.
CommittedGeneration == IF Grown(target) # {} THEN generation + 1 ELSE generation

Commit ==
  /\ phase = "grow" /\ Unstaged = {} /\ ToRebind = {}
  /\ device' = [b \in Binding |-> IF b \in Grown(target) THEN staged[b] ELSE device[b]]
  /\ capacity' = [b \in Binding |-> CommittedCapacity(b)]
  /\ generation' = CommittedGeneration
  /\ shape' = target
  /\ shape_state' = "clean"
  /\ live' = live \ {device[b] : b \in Grown(target)}
  /\ phase' = "idle" /\ target' = NoShape /\ staged' = NoBuffers /\ rebound' = {}
  /\ UNCHANGED <<frozen, context, inflight, ran>>

-----------------------------------------------------------------------------
(* The other operations.                                                   *)

Ready == phase = "idle" /\ shape_state = "clean"

\* set_input and get_output need a binding whose size is known.
Resolved(b) == capacity[b] # 0

\* set_input, get_output and kernels handed device_buffer(b) queue work on one buffer.
CopyBuffer(b) ==
  /\ Ready
  /\ Resolved(b)
  /\ inflight' = inflight \cup {device[b]}
  /\ UNCHANGED <<transition, shape_state, frozen, cache, context, live, ran>>

\* enqueueV3 accepts only a resolved shape with every address set.
EnqueueAccepted ==
  /\ Ready
  /\ ctx_shape # NoShape
  /\ \A b \in Binding : ctx_addr[b] # NoAddress
  /\ inflight' = inflight \cup Held(ctx_addr)
  /\ ran' = [shape |-> ctx_shape, device |-> ctx_addr]
  /\ UNCHANGED <<transition, shape_state, frozen, cache, context, live>>

\* A rejected enqueue poisons the session.
EnqueueRejected ==
  /\ Ready
  /\ shape_state' = "poisoned"
  /\ UNCHANGED <<transition, frozen, cache, context, gpu>>

Freeze ==
  /\ phase = "idle"
  /\ ~ frozen
  /\ frozen' = TRUE
  /\ UNCHANGED <<transition, shape_state, cache, context, gpu>>

\* ~TrtSession: drain, then free the buffers.
Destroy ==
  /\ phase = "idle"
  /\ Quiesced
  /\ phase' = "destroyed"
  /\ device' = NoBuffers
  /\ live' = live \ Held(device)
  /\ UNCHANGED <<target, staged, rebound, shape_state, frozen, shape, capacity, generation,
                 context, ran>>

\* Nothing runs after the destructor.
Destroyed == phase = "destroyed" /\ UNCHANGED vars

SetInputShape ==
  \/ \E s \in Shape : ContextRefuses(s) \/ Unplannable(s) \/ BeginTransition(s)
  \/ \E b \in Binding : Allocate(b) \/ Rebind(b) \/ Restore(b)
  \/ AllocateFails \/ RebindFails \/ RestoreFails \/ Unwind \/ Commit

Next ==
  \/ SetInputShape
  \/ \E b \in Binding : CopyBuffer(b)
  \/ EnqueueAccepted \/ EnqueueRejected
  \/ GpuRetires \/ StreamFails
  \/ Freeze \/ Destroy \/ Destroyed

Spec == Init /\ [][Next]_vars

-----------------------------------------------------------------------------
(* Properties.                                                             *)

TypeOK ==
  /\ phase \in {"idle", "grow", "restore", "destroyed"}
  /\ target \in Shape \cup {NoShape}
  /\ staged \in Buffers
  /\ rebound \subseteq Binding
  /\ shape_state \in {"clean", "dirty", "poisoned"}
  /\ frozen \in BOOLEAN
  /\ shape \in Shape \cup {NoShape}
  /\ capacity \in [Binding -> Nat]
  /\ device \in Buffers
  /\ generation \in Nat
  /\ ctx_shape \in Shape \cup {NoShape}
  /\ ctx_addr \in Buffers
  /\ live \subseteq Address
  /\ inflight \subseteq Address
  /\ ran \in [shape : Shape \cup {NoShape}, device : Buffers]

\* kClean means what the header says: the context holds the cached shape and the
\* session's own buffers, and every buffer is large enough for that shape, whatever
\* failed, was rolled back or was retried before.
Mirrors ==
  phase = "idle" /\ shape_state = "clean" =>
    /\ ctx_shape = shape
    /\ ctx_addr = device
    /\ shape # NoShape => Grown(shape) = {} /\ \A b \in Binding : device[b] # NoAddress

\* Work queued on the stream never touches freed memory: a transition and the destructor
\* free only what nothing in flight can reach.
NoUseAfterFree == inflight \subseteq live

\* Between calls the session holds exactly the buffers of its bindings: every way out of
\* a failed transition frees what it staged, and no two bindings share a buffer.
NothingLeaks ==
  phase \in {"idle", "destroyed"} => live = Held(device) /\ Distinct(device)

\* A recoverable session can always go back: the committed shape is re-issued to the
\* context, is not refused for being frozen, and needs no allocation.
Recoverable ==
  phase = "idle" /\ shape_state = "dirty" /\ shape # NoShape =>
    /\ Transitions(shape)
    /\ Grown(shape) = {}
    /\ shape \notin Unresolved

\* A frozen session never moves a buffer: captured graphs may keep its addresses.
FrozenPins == [][frozen /\ phase' # "destroyed" => UNCHANGED <<device, generation>>]_vars

\* A shape that fits keeps fitting: going down and up again never reallocates, so
\* warming up at the largest shape is enough before freeze().
FitsForever == [][\A s \in Shape : Grown(s) = {} => Grown(s)' = {}]_vars

Contract == INSTANCE SessionContract WITH
  state <- IF phase = "destroyed" THEN "destroyed" ELSE shape_state

\* The detailed session implements the promise of SessionContract: inference runs only
\* on the committed shape and buffers, and replaced buffers carry a new generation.
ImplementsContract == Contract!Spec
==============================================================================
