--------------------------- MODULE SessionContract ---------------------------
(***************************************************************************)
(* What a TrtSession promises to the code that runs inference through it   *)
(* (src/src/internal/trt_session.hpp): a shape transition either settles   *)
(* at the requested shape or leaves the last committed one, inference runs *)
(* only on the committed shape and on the buffers device_buffer() hands    *)
(* out, every binding of a settled session has a buffer of its own,        *)
(* replaced buffers are announced by a new generation, and a frozen        *)
(* session never replaces one.  How a transition plans, allocates, rebinds *)
(* and unwinds is left to TrtSession, which implements this module.        *)
(***************************************************************************)
EXTENDS Naturals

CONSTANTS
  Binding,     \* the engine's IO tensors
  Shape,       \* the input shapes a caller may select
  NoShape,     \* a dynamic engine before the first selection
  Address,     \* device addresses
  NoAddress    \* a binding without a buffer

VARIABLES
  state,       \* "clean", "dirty", "poisoned" or "destroyed"
  frozen,      \* freeze() was called
  shape,       \* the committed input shape
  device,      \* the buffer of each binding
  generation,  \* how often the buffers were replaced
  ran          \* shape and buffers of the last inference launched

vars == <<state, frozen, shape, device, generation, ran>>

Buffers == [Binding -> Address \cup {NoAddress}]

Init ==
  /\ state = "clean"
  /\ frozen = FALSE
  /\ shape = NoShape
  /\ device \in Buffers
  /\ generation = 0
  /\ ran = [shape |-> NoShape, device |-> device]

Usable == state \in {"clean", "dirty"}

\* A transition touched the execution context and has not committed.
Break ==
  /\ Usable
  /\ state' = "dirty"
  /\ UNCHANGED <<frozen, shape, device, generation, ran>>

\* Every binding has a buffer of its own.
Placed(buffers) ==
  /\ buffers \in [Binding -> Address]
  /\ \A b, c \in Binding : b # c => buffers[b] # buffers[c]

\* The buffers the session holds after a commit: the same, or replaced and announced.
Replace ==
  \/ UNCHANGED <<device, generation>>
  \/ /\ ~frozen
     /\ device' \in Buffers
     /\ device' # device
     /\ generation' = generation + 1

\* A transition commits shape s.
Settle(s) ==
  /\ Usable
  /\ state' = "clean"
  /\ shape' = s
  /\ Replace
  /\ Placed(device')
  /\ UNCHANGED <<frozen, ran>>

\* The execution context or its stream failed for good.
Poison ==
  /\ state # "destroyed"
  /\ state' = "poisoned"
  /\ UNCHANGED <<frozen, shape, device, generation, ran>>

Freeze ==
  /\ state # "destroyed"
  /\ frozen' = TRUE
  /\ UNCHANGED <<state, shape, device, generation, ran>>

\* One inference is launched.
Run ==
  /\ state = "clean"
  /\ shape # NoShape
  /\ ran' = [shape |-> shape, device |-> device]
  /\ UNCHANGED <<state, frozen, shape, device, generation>>

Destroy ==
  /\ state' = "destroyed"
  /\ device' = [b \in Binding |-> NoAddress]
  /\ UNCHANGED <<frozen, shape, generation, ran>>

Next ==
  \/ Break
  \/ \E s \in Shape : Settle(s)
  \/ Poison
  \/ Freeze
  \/ Run
  \/ Destroy

Spec == Init /\ [][Next]_vars
==============================================================================
