--------------------------- MODULE TrtSessionProofs ---------------------------
(***************************************************************************)
(* The session's invariants for every engine, shape set and address space. *)
(* Mirrors and NoUseAfterFree are not inductive: both depend on what a     *)
(* transition under way has staged and rebound, which IInv adds.           *)
(***************************************************************************)
EXTENDS TrtSession, TLAPS

Busy == phase \in {"grow", "restore"}

\* What a transition knows about itself.
Plan ==
  /\ ~ Busy => staged = NoBuffers /\ rebound = {}
  /\ Busy =>
       /\ shape_state = "dirty"
       /\ target \in Shape \ Unresolved
       /\ ctx_shape = target
       /\ inflight = {}
       /\ frozen => Grown(target) = {}
       /\ rebound \subseteq Grown(target)
       /\ \A b \in Binding : staged[b] # NoAddress => b \in Grown(target)
       /\ \A b \in rebound : staged[b] # NoAddress
  /\ phase = "grow" => \A b \in rebound : Unstaged = {} /\ ctx_addr[b] = staged[b]

\* Memory is the bindings' buffers and the staged ones, each owned once.
Memory ==
  /\ live = Held(device) \cup Held(staged)
  /\ Distinct(device)
  /\ Distinct(staged)
  /\ Held(device) \cap Held(staged) = {}
  /\ phase # "destroyed" => \A b \in Binding : device[b] = NoAddress <=> capacity[b] = 0

\* A binding that had a buffer is bound to it, unless the transition swapped it.
Addresses ==
  phase # "destroyed" /\ shape_state # "poisoned" =>
    \A b \in Binding \ rebound : device[b] # NoAddress => ctx_addr[b] = device[b]

\* The committed shape fits the buffers.
CommittedFits == shape # NoShape => Grown(shape) = {} /\ shape \notin Unresolved

IInv ==
  /\ TypeOK
  /\ Plan
  /\ Memory
  /\ Addresses
  /\ CommittedFits
  /\ Mirrors
  /\ NoUseAfterFree

LEMMA InitIInv == Init => IInv
  <1> SUFFICES ASSUME Init PROVE IInv
    OBVIOUS
  <1> USE SessionAssumption DEF Init, Buffers, NoBuffers, Held, Distinct
  <1>1. TypeOK
    <2>1. live \subseteq Address /\ staged \in Buffers OBVIOUS
    <2>2. ran \in [shape : Shape \cup {NoShape}, device : Buffers]
      OBVIOUS
    <2> QED BY <2>1, <2>2 DEF TypeOK
  <1>2. Plan BY DEF Plan, Busy
  <1>3. Memory BY DEF Memory
  <1>4. Addresses BY DEF Addresses
  <1>5. CommittedFits /\ Mirrors /\ NoUseAfterFree
    BY DEF CommittedFits, Mirrors, NoUseAfterFree
  <1> QED BY <1>1, <1>2, <1>3, <1>4, <1>5 DEF IInv

\* Giving up a transition frees exactly what it staged.
LEMMA AbandonKeepsMemory ==
  ASSUME Memory, Abandon, phase \in {"grow", "restore"}, UNCHANGED <<device, capacity>>
  PROVE  Memory'
  <1>1. Held(staged') = {} BY DEF Abandon, NoBuffers, Held
  <1>2. Held(device') = Held(device) BY DEF Held
  <1>3. live' = Held(device') BY <1>2 DEF Abandon, FreeStaged, Memory
  <1>4. Distinct(staged') BY DEF Abandon, NoBuffers, Distinct
  <1>5. Distinct(device') BY DEF Memory, Distinct
  <1>6. phase' # "destroyed" => \A b \in Binding : device'[b] = NoAddress <=> capacity'[b] = 0
    BY DEF Memory
  <1> QED BY <1>1, <1>3, <1>4, <1>5, <1>6 DEF Memory

\* A step that leaves the buffers alone owns them as before.
LEMMA MemoryFrame ==
  ASSUME Memory, UNCHANGED <<device, staged, capacity, live>>,
         phase' # "destroyed" => phase # "destroyed"
  PROVE  Memory'
  <1>1. Held(device') = Held(device) /\ Held(staged') = Held(staged)
    BY DEF Held
  <1>2. live' = Held(device') \cup Held(staged') /\ Held(device') \cap Held(staged') = {}
    BY <1>1 DEF Memory
  <1>3. Distinct(device') /\ Distinct(staged') BY DEF Memory, Distinct
  <1>4. phase' # "destroyed" => \A b \in Binding : device'[b] = NoAddress <=> capacity'[b] = 0
    BY DEF Memory
  <1> QED BY <1>2, <1>3, <1>4 DEF Memory

LEMMA NextIInv == IInv /\ [Next]_vars => IInv'
  <1> SUFFICES ASSUME IInv, [Next]_vars PROVE IInv'
    OBVIOUS
  <1> USE SessionAssumption DEF IInv, transition, cache, context, gpu
  <1>1. ASSUME NEW s \in Shape, ContextRefuses(s) PROVE IInv'
    <2> USE <1>1 DEF ContextRefuses, Transitions, QuiesceForTransition, Quiesced, MarkDirty
    <2>1. Plan' /\ Addresses' /\ Mirrors'
      <3>1. Plan'
        BY DEF TypeOK, Plan, Busy, Buffers, NoBuffers, Grown, Unstaged
      <3>2. Addresses'
        BY DEF TypeOK, Plan, Busy, Addresses, Memory, Buffers, NoBuffers, Unstaged
      <3>3. Mirrors'
        BY DEF TypeOK, Plan, Busy, Memory, Addresses, Mirrors, CommittedFits, Buffers, Grown,
               Unstaged
      <3> QED BY <3>1, <3>2, <3>3
    <2>2. TypeOK' /\ Memory' /\ CommittedFits' /\ NoUseAfterFree'
      <3>1. TypeOK'
        BY DEF TypeOK, Plan, Busy, Memory, Buffers, NoBuffers, Grown
      <3>2. Memory' BY MemoryFrame
      <3>3. CommittedFits'
        BY DEF TypeOK, Plan, Busy, CommittedFits, Grown
      <3>4. NoUseAfterFree'
        BY DEF TypeOK, Plan, Busy, Memory, Mirrors, CommittedFits, NoUseAfterFree, Buffers,
               NoBuffers, Held, Grown
      <3> QED BY <3>1, <3>2, <3>3, <3>4
    <2> QED BY <2>1, <2>2 DEF IInv
  <1>2. ASSUME NEW s \in Shape, Unplannable(s) PROVE IInv'
    <2> USE <1>2 DEF Unplannable, Transitions, QuiesceForTransition, Quiesced, MarkDirty
    <2>1. Plan' /\ Addresses' /\ Mirrors'
      <3>1. Plan'
        BY DEF TypeOK, Plan, Busy, Buffers, NoBuffers, Grown, Unstaged
      <3>2. Addresses'
        BY DEF TypeOK, Plan, Busy, Addresses, Memory, Buffers, NoBuffers, Unstaged
      <3>3. Mirrors'
        BY DEF TypeOK, Plan, Busy, Memory, Addresses, Mirrors, CommittedFits, Buffers, Grown,
               Unstaged
      <3> QED BY <3>1, <3>2, <3>3
    <2>2. TypeOK' /\ Memory' /\ CommittedFits' /\ NoUseAfterFree'
      <3>1. TypeOK'
        BY DEF TypeOK, Plan, Busy, Memory, Buffers, NoBuffers, Grown
      <3>2. Memory' BY MemoryFrame
      <3>3. CommittedFits'
        BY DEF TypeOK, Plan, Busy, CommittedFits, Grown
      <3>4. NoUseAfterFree'
        BY DEF TypeOK, Plan, Busy, Memory, Mirrors, CommittedFits, NoUseAfterFree, Buffers,
               NoBuffers, Held, Grown
      <3> QED BY <3>1, <3>2, <3>3, <3>4
    <2> QED BY <2>1, <2>2 DEF IInv
  <1>3. ASSUME NEW s \in Shape, BeginTransition(s) PROVE IInv'
    <2> USE <1>3 DEF BeginTransition, Transitions, QuiesceForTransition, Quiesced, MarkDirty,
                     FrozenOutput
    <2>1. Plan' /\ Addresses' /\ Mirrors'
      <3>1. Plan'
        BY DEF TypeOK, Plan, Busy, Buffers, NoBuffers, Grown, Unstaged
      <3>2. Addresses'
        BY DEF TypeOK, Plan, Busy, Addresses, Memory, Buffers, NoBuffers, Unstaged
      <3>3. Mirrors'
        BY DEF TypeOK, Plan, Busy, Memory, Addresses, Mirrors, CommittedFits, Buffers, Grown,
               Unstaged
      <3> QED BY <3>1, <3>2, <3>3
    <2>2. TypeOK' /\ Memory' /\ CommittedFits' /\ NoUseAfterFree'
      <3>1. TypeOK'
        BY DEF TypeOK, Plan, Busy, Memory, Buffers, NoBuffers, Grown
      <3>2. Memory' BY MemoryFrame
      <3>3. CommittedFits'
        BY DEF TypeOK, Plan, Busy, CommittedFits, Grown
      <3>4. NoUseAfterFree'
        BY DEF TypeOK, Plan, Busy, Memory, Mirrors, CommittedFits, NoUseAfterFree, Buffers,
               NoBuffers, Held, Grown
      <3> QED BY <3>1, <3>2, <3>3, <3>4
    <2> QED BY <2>1, <2>2 DEF IInv
  <1>4. ASSUME NEW b \in Binding, Allocate(b) PROVE IInv'
    <2> USE <1>4 DEF Allocate, First
    <2>1. Memory'
      <3>1. PICK a \in Address \ live :
              staged' = [staged EXCEPT ![b] = a] /\ live' = live \cup {a}
        OBVIOUS
      <3>2. Held(staged') = Held(staged) \cup {a}
        BY <3>1 DEF TypeOK, Buffers, Held, Unstaged, Grown
      <3>3. Distinct(staged')
        BY <3>1 DEF TypeOK, Buffers, Memory, Distinct, Held
      <3>4. Held(device) \cap Held(staged') = {}
        BY <3>1, <3>2 DEF Memory
      <3> QED BY <3>1, <3>2, <3>3, <3>4, ZenonT(60) DEF Memory, Distinct
    <2>2. Plan' /\ Addresses' /\ Mirrors'
      <3>1. Plan'
        BY DEF TypeOK, Plan, Busy, Buffers, NoBuffers, Grown, Unstaged
      <3>2. Addresses'
        BY DEF TypeOK, Plan, Busy, Addresses, Memory, Buffers, NoBuffers, Unstaged
      <3>3. Mirrors'
        BY DEF TypeOK, Plan, Busy, Memory, Addresses, Mirrors, CommittedFits, Buffers, Grown,
               Unstaged
      <3> QED BY <3>1, <3>2, <3>3
    <2>3. TypeOK' /\ CommittedFits' /\ NoUseAfterFree'
      <3>1. TypeOK'
        BY DEF TypeOK, Plan, Busy, Memory, Buffers, NoBuffers, Grown
      <3>2. CommittedFits'
        BY DEF TypeOK, Plan, Busy, CommittedFits, Grown
      <3>3. NoUseAfterFree'
        BY DEF TypeOK, Plan, Busy, Memory, Mirrors, CommittedFits, NoUseAfterFree, Buffers,
               NoBuffers, Held, Grown
      <3> QED BY <3>1, <3>2, <3>3
    <2> QED BY <2>1, <2>2, <2>3 DEF IInv
  <1>5. ASSUME NEW b \in Binding, Rebind(b) PROVE IInv'
    <2> USE <1>5 DEF Rebind, First, ToRebind
    <2>1. Plan' /\ Addresses' /\ Mirrors'
      <3>1. Plan'
        BY DEF TypeOK, Plan, Busy, Buffers, NoBuffers, Grown, Unstaged
      <3>2. Addresses'
        BY DEF TypeOK, Plan, Busy, Addresses, Memory, Buffers, NoBuffers, Unstaged
      <3>3. Mirrors'
        BY DEF TypeOK, Plan, Busy, Memory, Addresses, Mirrors, CommittedFits, Buffers, Grown,
               Unstaged
      <3> QED BY <3>1, <3>2, <3>3
    <2>2. TypeOK' /\ Memory' /\ CommittedFits' /\ NoUseAfterFree'
      <3>1. TypeOK'
        BY DEF TypeOK, Plan, Busy, Memory, Buffers, NoBuffers, Grown
      <3>2. Memory' BY MemoryFrame
      <3>3. CommittedFits'
        BY DEF TypeOK, Plan, Busy, CommittedFits, Grown
      <3>4. NoUseAfterFree'
        BY DEF TypeOK, Plan, Busy, Memory, Mirrors, CommittedFits, NoUseAfterFree, Buffers,
               NoBuffers, Held, Grown
      <3> QED BY <3>1, <3>2, <3>3, <3>4
    <2> QED BY <2>1, <2>2 DEF IInv
  <1>6. ASSUME NEW b \in Binding, Restore(b) PROVE IInv'
    <2> USE <1>6 DEF Restore, First
    <2>1. Plan' /\ Addresses' /\ Mirrors'
      <3>1. Plan'
        BY DEF TypeOK, Plan, Busy, Buffers, NoBuffers, Grown, Unstaged
      <3>2. Addresses'
        BY DEF TypeOK, Plan, Busy, Addresses, Memory, Buffers, NoBuffers, Unstaged
      <3>3. Mirrors'
        BY DEF TypeOK, Plan, Busy, Memory, Addresses, Mirrors, CommittedFits, Buffers, Grown,
               Unstaged
      <3> QED BY <3>1, <3>2, <3>3
    <2>2. TypeOK' /\ Memory' /\ CommittedFits' /\ NoUseAfterFree'
      <3>1. TypeOK'
        BY DEF TypeOK, Plan, Busy, Memory, Buffers, NoBuffers, Grown
      <3>2. Memory' BY MemoryFrame
      <3>3. CommittedFits'
        BY DEF TypeOK, Plan, Busy, CommittedFits, Grown
      <3>4. NoUseAfterFree'
        BY DEF TypeOK, Plan, Busy, Memory, Mirrors, CommittedFits, NoUseAfterFree, Buffers,
               NoBuffers, Held, Grown
      <3> QED BY <3>1, <3>2, <3>3, <3>4
    <2> QED BY <2>1, <2>2 DEF IInv
  <1>7. CASE AllocateFails
    <2>1. Memory' BY <1>7, AbandonKeepsMemory DEF AllocateFails, cache
    <2> USE <1>7 DEF AllocateFails, Abandon, FreeStaged
    <2>2. Plan' /\ Addresses' /\ Mirrors'
      <3>1. Plan'
        BY DEF TypeOK, Plan, Busy, Buffers, NoBuffers, Grown, Unstaged
      <3>2. Addresses'
        BY DEF TypeOK, Plan, Busy, Addresses, Memory, Buffers, NoBuffers, Unstaged
      <3>3. Mirrors'
        BY DEF TypeOK, Plan, Busy, Memory, Addresses, Mirrors, CommittedFits, Buffers, Grown,
               Unstaged
      <3> QED BY <3>1, <3>2, <3>3
    <2>3. TypeOK' /\ CommittedFits' /\ NoUseAfterFree'
      <3>1. TypeOK'
        BY DEF TypeOK, Plan, Busy, Memory, Buffers, NoBuffers, Grown
      <3>2. CommittedFits'
        BY DEF TypeOK, Plan, Busy, CommittedFits, Grown
      <3>3. NoUseAfterFree'
        BY DEF TypeOK, Plan, Busy, Memory, Mirrors, CommittedFits, NoUseAfterFree, Buffers,
               NoBuffers, Held, Grown
      <3> QED BY <3>1, <3>2, <3>3
    <2> QED BY <2>1, <2>2, <2>3 DEF IInv
  <1>8. CASE RebindFails
    <2> USE <1>8 DEF RebindFails, ToRebind, ToRestore
    <2>1. Plan' /\ Addresses' /\ Mirrors'
      <3>1. Plan'
        BY DEF TypeOK, Plan, Busy, Buffers, NoBuffers, Grown, Unstaged
      <3>2. Addresses'
        BY DEF TypeOK, Plan, Busy, Addresses, Memory, Buffers, NoBuffers, Unstaged
      <3>3. Mirrors'
        BY DEF TypeOK, Plan, Busy, Memory, Addresses, Mirrors, CommittedFits, Buffers, Grown,
               Unstaged
      <3> QED BY <3>1, <3>2, <3>3
    <2>2. TypeOK' /\ Memory' /\ CommittedFits' /\ NoUseAfterFree'
      <3>1. TypeOK'
        BY DEF TypeOK, Plan, Busy, Memory, Buffers, NoBuffers, Grown
      <3>2. Memory' BY MemoryFrame
      <3>3. CommittedFits'
        BY DEF TypeOK, Plan, Busy, CommittedFits, Grown
      <3>4. NoUseAfterFree'
        BY DEF TypeOK, Plan, Busy, Memory, Mirrors, CommittedFits, NoUseAfterFree, Buffers,
               NoBuffers, Held, Grown
      <3> QED BY <3>1, <3>2, <3>3, <3>4
    <2> QED BY <2>1, <2>2 DEF IInv
  <1>9. CASE RestoreFails
    <2>1. Memory' BY <1>9, AbandonKeepsMemory DEF RestoreFails, cache
    <2> USE <1>9 DEF RestoreFails, Abandon, FreeStaged
    <2>2. Plan' /\ Addresses' /\ Mirrors'
      <3>1. Plan'
        BY DEF TypeOK, Plan, Busy, Buffers, NoBuffers, Grown, Unstaged
      <3>2. Addresses'
        BY DEF TypeOK, Plan, Busy, Addresses, Memory, Buffers, NoBuffers, Unstaged
      <3>3. Mirrors'
        BY DEF TypeOK, Plan, Busy, Memory, Addresses, Mirrors, CommittedFits, Buffers, Grown,
               Unstaged
      <3> QED BY <3>1, <3>2, <3>3
    <2>3. TypeOK' /\ CommittedFits' /\ NoUseAfterFree'
      <3>1. TypeOK'
        BY DEF TypeOK, Plan, Busy, Memory, Buffers, NoBuffers, Grown
      <3>2. CommittedFits'
        BY DEF TypeOK, Plan, Busy, CommittedFits, Grown
      <3>3. NoUseAfterFree'
        BY DEF TypeOK, Plan, Busy, Memory, Mirrors, CommittedFits, NoUseAfterFree, Buffers,
               NoBuffers, Held, Grown
      <3> QED BY <3>1, <3>2, <3>3
    <2> QED BY <2>1, <2>2, <2>3 DEF IInv
  <1>10. CASE Unwind
    <2>2. Memory' BY <1>10, AbandonKeepsMemory DEF Unwind, cache
    <2> USE <1>10 DEF Unwind, Abandon, FreeStaged
    <2>1. Plan' /\ Addresses' /\ Mirrors'
      <3>1. Plan'
        BY DEF TypeOK, Plan, Busy, Buffers, NoBuffers, Grown, Unstaged
      <3>2. Addresses'
        BY DEF TypeOK, Plan, Busy, Addresses, Memory, Buffers, NoBuffers, Unstaged
      <3>3. Mirrors'
        BY DEF TypeOK, Plan, Busy, Memory, Addresses, Mirrors, CommittedFits, Buffers, Grown,
               Unstaged
      <3> QED BY <3>1, <3>2, <3>3
    <2>3. TypeOK' /\ CommittedFits' /\ NoUseAfterFree'
      <3>1. TypeOK'
        BY DEF TypeOK, Plan, Busy, Memory, Buffers, NoBuffers, Grown
      <3>2. CommittedFits'
        BY DEF TypeOK, Plan, Busy, CommittedFits, Grown
      <3>3. NoUseAfterFree'
        BY DEF TypeOK, Plan, Busy, Memory, Mirrors, CommittedFits, NoUseAfterFree, Buffers,
               NoBuffers, Held, Grown
      <3> QED BY <3>1, <3>2, <3>3
    <2> QED BY <2>1, <2>2, <2>3 DEF IInv
  <1>11. CASE Commit
    <2> USE <1>11 DEF Commit, ToRebind, CommittedCapacity, CommittedGeneration
    <2>1. TypeOK'
      <3>1. device' \in Buffers BY DEF TypeOK, Buffers
      <3>2. capacity' \in [Binding -> Nat]
        BY DEF TypeOK, Plan, Busy, Grown
      <3>3. staged' \in Buffers BY DEF Buffers, NoBuffers
      <3> QED BY <3>1, <3>2, <3>3 DEF TypeOK
    <2>2. Memory'
      <3> DEFINE G == Grown(target)
      <3>1. /\ \A b \in Binding : device'[b] = IF b \in G THEN staged[b] ELSE device[b]
            /\ \A b \in Binding : b \in G <=> staged[b] # NoAddress
            /\ G \subseteq Binding
        BY DEF TypeOK, Plan, Busy, Grown, Unstaged
      <3>2. Held(staged') = {} /\ Distinct(staged')
        BY DEF NoBuffers, Held, Distinct
      <3>3. ASSUME NEW b \in Binding, NEW c \in Binding, device[b] # NoAddress
            PROVE  device[b] # staged[c]
        <4>1. SUFFICES ASSUME device[b] = staged[c] PROVE FALSE OBVIOUS
        <4>2. device[b] \in Held(device) /\ device[b] \in Held(staged)
          BY <3>3, <4>1 DEF Held
        <4> QED BY <4>2 DEF Memory
      <3>4. \A x : x \in live <=>
              x # NoAddress /\ \E b \in Binding : x = device[b] \/ x = staged[b]
        <4>1. live = Held(device) \cup Held(staged) BY DEF Memory
        <4> HIDE DEF Commit
        <4> HIDE <1>11
        <4> QED BY <4>1 DEF Held
      <3>5. live' = Held(device')
        <4>1. \A x : x \in live' <=> x \in live /\ \A b \in G : x # device[b]
          OBVIOUS
        <4>2. \A x : x \in Held(device') <=> x # NoAddress /\ \E b \in Binding : x = device'[b]
          BY DEF Held
        <4>3. ASSUME NEW x \in live' PROVE x \in Held(device')
          <5>1. x \in live /\ x # NoAddress /\ \A b \in G : x # device[b]
            BY <4>1, <3>4
          <5>2. PICK b \in Binding : x = device[b] \/ x = staged[b]
            BY <5>1, <3>4
          <5>3. x = device'[b] BY <5>1, <5>2, <3>1
          <5> QED BY <5>1, <5>3, <4>2
        <4>4. ASSUME NEW x \in Held(device') PROVE x \in live'
          <5>1. PICK b \in Binding : x = device'[b] BY <4>2
          <5>2. x # NoAddress BY <4>2
          <5>3. x \in live BY <5>1, <5>2, <3>1, <3>4
          <5>4. ASSUME NEW c \in G PROVE x # device[c]
            BY <5>1, <5>2, <3>1, <3>3 DEF Memory, Distinct
          <5> QED BY <5>3, <5>4, <4>1
        <4> QED BY <4>3, <4>4
      <3>6. Distinct(device') BY <3>1, <3>3 DEF Memory, Distinct
      <3>7. \A b \in Binding : device'[b] = NoAddress <=> capacity'[b] = 0
        <4>1. ASSUME NEW b \in Binding, b \in G PROVE device'[b] # NoAddress /\ capacity'[b] # 0
          <5>1. Bytes[b][target] \in Nat /\ capacity[b] \in Nat /\ Bytes[b][target] > capacity[b]
            BY <4>1 DEF TypeOK, Plan, Busy, Grown
          <5>2. capacity'[b] = Bytes[b][target] BY <4>1 DEF TypeOK
          <5> QED BY <5>1, <5>2, <4>1, <3>1
        <4>2. ASSUME NEW b \in Binding, b \notin G
              PROVE  device'[b] = device[b] /\ capacity'[b] = capacity[b]
          BY <4>2, <3>1 DEF TypeOK
        <4>3. \A b \in Binding : device[b] = NoAddress <=> capacity[b] = 0
          BY DEF Memory
        <4> HIDE <1>11 DEF Commit
        <4> QED BY <4>1, <4>2, <4>3
      <3> QED BY <3>2, <3>5, <3>6, <3>7 DEF Memory
    <2>3. CommittedFits'
      <3>1. \A b \in Binding :
              /\ Bytes[b][target] \in Nat
              /\ capacity'[b] \in Nat
              /\ Bytes[b][target] <= capacity'[b]
        <4>1. SUFFICES ASSUME NEW b \in Binding
                       PROVE  /\ Bytes[b][target] \in Nat
                              /\ capacity'[b] \in Nat
                              /\ Bytes[b][target] <= capacity'[b]
          OBVIOUS
        <4>2. Bytes[b][target] \in Nat /\ capacity[b] \in Nat
          BY DEF TypeOK, Plan, Busy
        <4>3. capacity'[b] = IF Bytes[b][target] > capacity[b] THEN Bytes[b][target]
            ELSE capacity[b]
          BY DEF Grown
        <4> HIDE <1>11 DEF Commit
        <4> QED BY <4>2, <4>3
      <3>2. ASSUME NEW b \in Binding PROVE ~ (Bytes[b][shape'] > capacity'[b])
        <4>1. shape' = target OBVIOUS
        <4>2. Bytes[b][shape'] = Bytes[b][target] BY <4>1
        <4>3. Bytes[b][target] \in Nat /\ capacity'[b] \in Nat /\ Bytes[b][target] <= capacity'[b]
          BY <3>1
        <4> HIDE <1>11 DEF Commit
        <4> QED BY <4>2, <4>3
      <3>3. shape' \notin Unresolved BY DEF Plan, Busy
      <3> QED BY <3>2, <3>3 DEF CommittedFits, Grown
    <2>4. Plan' /\ Addresses' /\ Mirrors'
      <3>1. Plan'
        BY DEF TypeOK, Plan, Busy, Buffers, NoBuffers, Grown, Unstaged
      <3>2. Addresses'
        BY DEF TypeOK, Plan, Busy, Addresses, Memory, Buffers, NoBuffers, Unstaged
      <3>3. Mirrors'
        BY DEF TypeOK, Plan, Busy, Memory, Addresses, Mirrors, CommittedFits, Buffers, Grown,
               Unstaged
      <3> QED BY <3>1, <3>2, <3>3
    <2>5. NoUseAfterFree'
      BY DEF TypeOK, Plan, Busy, Memory, CommittedFits, Mirrors, NoUseAfterFree, Buffers, NoBuffers,
             Held, Distinct, Grown
    <2> QED BY <2>1, <2>2, <2>3, <2>4, <2>5 DEF IInv
  <1>12. ASSUME NEW b \in Binding, CopyBuffer(b) PROVE IInv'
    <2> USE <1>12 DEF CopyBuffer, Ready, Resolved
    <2>1. TypeOK'
      <3>1. device[b] \in Address BY DEF TypeOK, Ready, Memory, Buffers
      <3> QED BY <3>1 DEF TypeOK
    <2>2. Plan' /\ Addresses' /\ Mirrors'
      <3>1. Plan'
        BY DEF TypeOK, Plan, Busy, Buffers, NoBuffers, Grown, Unstaged
      <3>2. Addresses'
        BY DEF TypeOK, Plan, Busy, Addresses, Memory, Buffers, NoBuffers, Unstaged
      <3>3. Mirrors'
        BY DEF TypeOK, Plan, Busy, Memory, Addresses, Mirrors, CommittedFits, Buffers, Grown,
               Unstaged
      <3> QED BY <3>1, <3>2, <3>3
    <2>3. Memory' /\ CommittedFits' /\ NoUseAfterFree'
      <3>1. Memory' BY MemoryFrame
      <3>2. CommittedFits'
        BY DEF TypeOK, Plan, Busy, CommittedFits, Grown
      <3>3. NoUseAfterFree'
        BY DEF TypeOK, Plan, Busy, Memory, Mirrors, CommittedFits, NoUseAfterFree, Buffers,
               NoBuffers, Held, Grown
      <3> QED BY <3>1, <3>2, <3>3
    <2> QED BY <2>1, <2>2, <2>3 DEF IInv
  <1>13. CASE EnqueueAccepted
    <2> USE <1>13 DEF EnqueueAccepted, Ready
    <2>1. Plan' /\ Addresses' /\ Mirrors'
      <3>1. Plan'
        BY DEF TypeOK, Plan, Busy, Buffers, NoBuffers, Grown, Unstaged
      <3>2. Addresses'
        BY DEF TypeOK, Plan, Busy, Addresses, Memory, Buffers, NoBuffers, Unstaged
      <3>3. Mirrors'
        BY DEF TypeOK, Plan, Busy, Memory, Addresses, Mirrors, CommittedFits, Buffers, Grown,
               Unstaged
      <3> QED BY <3>1, <3>2, <3>3
    <2>2. TypeOK' /\ Memory' /\ CommittedFits' /\ NoUseAfterFree'
      <3>1. TypeOK'
        <4>1. inflight' \subseteq Address BY DEF TypeOK, Buffers, Held
        <4>2. ran' \in [shape : Shape \cup {NoShape}, device : Buffers]
          BY DEF TypeOK
        <4> QED BY <4>1, <4>2 DEF TypeOK
      <3>2. Memory' BY MemoryFrame
      <3>3. CommittedFits'
        BY DEF TypeOK, Plan, Busy, CommittedFits, Grown
      <3>4. NoUseAfterFree'
        BY DEF TypeOK, Plan, Busy, Memory, Mirrors, CommittedFits, NoUseAfterFree, Buffers,
               NoBuffers, Held, Grown
      <3> QED BY <3>1, <3>2, <3>3, <3>4
    <2> QED BY <2>1, <2>2 DEF IInv
  <1>14. CASE EnqueueRejected
    <2> USE <1>14 DEF EnqueueRejected, Ready
    <2>1. Plan' /\ Addresses' /\ Mirrors'
      <3>1. Plan'
        BY DEF TypeOK, Plan, Busy, Buffers, NoBuffers, Grown, Unstaged
      <3>2. Addresses'
        BY DEF TypeOK, Plan, Busy, Addresses, Memory, Buffers, NoBuffers, Unstaged
      <3>3. Mirrors'
        BY DEF TypeOK, Plan, Busy, Memory, Addresses, Mirrors, CommittedFits, Buffers, Grown,
               Unstaged
      <3> QED BY <3>1, <3>2, <3>3
    <2>2. TypeOK' /\ Memory' /\ CommittedFits' /\ NoUseAfterFree'
      <3>1. TypeOK'
        BY DEF TypeOK, Plan, Busy, Memory, Buffers, NoBuffers, Grown
      <3>2. Memory' BY MemoryFrame
      <3>3. CommittedFits'
        BY DEF TypeOK, Plan, Busy, CommittedFits, Grown
      <3>4. NoUseAfterFree'
        BY DEF TypeOK, Plan, Busy, Memory, Mirrors, CommittedFits, NoUseAfterFree, Buffers,
               NoBuffers, Held, Grown
      <3> QED BY <3>1, <3>2, <3>3, <3>4
    <2> QED BY <2>1, <2>2 DEF IInv
  <1>15. CASE GpuRetires
    <2> USE <1>15 DEF GpuRetires, Quiesced
    <2>1. Plan' /\ Addresses' /\ Mirrors'
      <3>1. Plan'
        BY DEF TypeOK, Plan, Busy, Buffers, NoBuffers, Grown, Unstaged
      <3>2. Addresses'
        BY DEF TypeOK, Plan, Busy, Addresses, Memory, Buffers, NoBuffers, Unstaged
      <3>3. Mirrors'
        BY DEF TypeOK, Plan, Busy, Memory, Addresses, Mirrors, CommittedFits, Buffers, Grown,
               Unstaged
      <3> QED BY <3>1, <3>2, <3>3
    <2>2. TypeOK' /\ Memory' /\ CommittedFits' /\ NoUseAfterFree'
      <3>1. TypeOK'
        BY DEF TypeOK, Plan, Busy, Memory, Buffers, NoBuffers, Grown
      <3>2. Memory' BY MemoryFrame
      <3>3. CommittedFits'
        BY DEF TypeOK, Plan, Busy, CommittedFits, Grown
      <3>4. NoUseAfterFree'
        BY DEF TypeOK, Plan, Busy, Memory, Mirrors, CommittedFits, NoUseAfterFree, Buffers,
               NoBuffers, Held, Grown
      <3> QED BY <3>1, <3>2, <3>3, <3>4
    <2> QED BY <2>1, <2>2 DEF IInv
  <1>16. CASE StreamFails
    <2> USE <1>16 DEF StreamFails, Quiesced
    <2>1. Plan' /\ Addresses' /\ Mirrors'
      <3>1. Plan'
        BY DEF TypeOK, Plan, Busy, Buffers, NoBuffers, Grown, Unstaged
      <3>2. Addresses'
        BY DEF TypeOK, Plan, Busy, Addresses, Memory, Buffers, NoBuffers, Unstaged
      <3>3. Mirrors'
        BY DEF TypeOK, Plan, Busy, Memory, Addresses, Mirrors, CommittedFits, Buffers, Grown,
               Unstaged
      <3> QED BY <3>1, <3>2, <3>3
    <2>2. TypeOK' /\ Memory' /\ CommittedFits' /\ NoUseAfterFree'
      <3>1. TypeOK'
        BY DEF TypeOK, Plan, Busy, Memory, Buffers, NoBuffers, Grown
      <3>2. Memory' BY MemoryFrame
      <3>3. CommittedFits'
        BY DEF TypeOK, Plan, Busy, CommittedFits, Grown
      <3>4. NoUseAfterFree'
        BY DEF TypeOK, Plan, Busy, Memory, Mirrors, CommittedFits, NoUseAfterFree, Buffers,
               NoBuffers, Held, Grown
      <3> QED BY <3>1, <3>2, <3>3, <3>4
    <2> QED BY <2>1, <2>2 DEF IInv
  <1>17. CASE Freeze
    <2> USE <1>17 DEF Freeze
    <2>1. Plan' /\ Addresses' /\ Mirrors'
      <3>1. Plan'
        BY DEF TypeOK, Plan, Busy, Buffers, NoBuffers, Grown, Unstaged
      <3>2. Addresses'
        BY DEF TypeOK, Plan, Busy, Addresses, Memory, Buffers, NoBuffers, Unstaged
      <3>3. Mirrors'
        BY DEF TypeOK, Plan, Busy, Memory, Addresses, Mirrors, CommittedFits, Buffers, Grown,
               Unstaged
      <3> QED BY <3>1, <3>2, <3>3
    <2>2. TypeOK' /\ Memory' /\ CommittedFits' /\ NoUseAfterFree'
      <3>1. TypeOK'
        BY DEF TypeOK, Plan, Busy, Memory, Buffers, NoBuffers, Grown
      <3>2. Memory' BY MemoryFrame
      <3>3. CommittedFits'
        BY DEF TypeOK, Plan, Busy, CommittedFits, Grown
      <3>4. NoUseAfterFree'
        BY DEF TypeOK, Plan, Busy, Memory, Mirrors, CommittedFits, NoUseAfterFree, Buffers,
               NoBuffers, Held, Grown
      <3> QED BY <3>1, <3>2, <3>3, <3>4
    <2> QED BY <2>1, <2>2 DEF IInv
  <1>18. CASE Destroy
    <2> USE <1>18 DEF Destroy, Quiesced
    <2>1. Plan' /\ Addresses' /\ Mirrors'
      <3>1. Plan'
        BY DEF TypeOK, Plan, Busy, Buffers, NoBuffers, Grown, Unstaged
      <3>2. Addresses'
        BY DEF TypeOK, Plan, Busy, Addresses, Memory, Buffers, NoBuffers, Unstaged
      <3>3. Mirrors'
        BY DEF TypeOK, Plan, Busy, Memory, Addresses, Mirrors, CommittedFits, Buffers, Grown,
               Unstaged
      <3> QED BY <3>1, <3>2, <3>3
    <2>2. TypeOK' /\ Memory' /\ CommittedFits' /\ NoUseAfterFree'
      <3>1. TypeOK'
        BY DEF TypeOK, Plan, Busy, Memory, Buffers, NoBuffers, Grown
      <3>2. Memory'
        BY DEF TypeOK, Plan, Busy, Memory, Buffers, NoBuffers, Held, Distinct
      <3>3. CommittedFits'
        BY DEF TypeOK, Plan, Busy, CommittedFits, Grown
      <3>4. NoUseAfterFree'
        BY DEF TypeOK, Plan, Busy, Memory, Mirrors, CommittedFits, NoUseAfterFree, Buffers,
               NoBuffers, Held, Grown
      <3> QED BY <3>1, <3>2, <3>3, <3>4
    <2> QED BY <2>1, <2>2 DEF IInv
  <1>19. CASE UNCHANGED vars
    <2> USE <1>19 DEF vars
    <2>1. Plan' /\ Addresses' /\ Mirrors'
      <3>1. Plan'
        BY DEF TypeOK, Plan, Busy, Buffers, NoBuffers, Grown, Unstaged
      <3>2. Addresses'
        BY DEF TypeOK, Plan, Busy, Addresses, Memory, Buffers, NoBuffers, Unstaged
      <3>3. Mirrors'
        BY DEF TypeOK, Plan, Busy, Memory, Addresses, Mirrors, CommittedFits, Buffers, Grown,
               Unstaged
      <3> QED BY <3>1, <3>2, <3>3
    <2>2. TypeOK' /\ Memory' /\ CommittedFits' /\ NoUseAfterFree'
      <3>1. TypeOK'
        BY DEF TypeOK, Plan, Busy, Memory, Buffers, NoBuffers, Grown
      <3>2. Memory' BY MemoryFrame
      <3>3. CommittedFits'
        BY DEF TypeOK, Plan, Busy, CommittedFits, Grown
      <3>4. NoUseAfterFree'
        BY DEF TypeOK, Plan, Busy, Memory, Mirrors, CommittedFits, NoUseAfterFree, Buffers,
               NoBuffers, Held, Grown
      <3> QED BY <3>1, <3>2, <3>3, <3>4
    <2> QED BY <2>1, <2>2 DEF IInv
  <1> QED
    BY <1>1, <1>2, <1>3, <1>4, <1>5, <1>6, <1>7, <1>8, <1>9, <1>10, <1>11, <1>12, <1>13, <1>14,
       <1>15, <1>16, <1>17, <1>18, <1>19 DEF Next, SetInputShape, Destroyed

LEMMA Invariance == Spec => []IInv
  BY InitIInv, NextIInv, PTL DEF Spec

\* Every variable keeps its type: no step commits a buffer it does not have, and no copy
\* is queued on a binding without one.
THEOREM TypeCorrect == Spec => []TypeOK
  <1>1. IInv => TypeOK BY DEF IInv
  <1> QED BY <1>1, Invariance, PTL

\* kClean really means that the context mirrors the cache (trt_session.hpp, ShapeState).
THEOREM CleanMirrors == Spec => []Mirrors
  <1>1. IInv => Mirrors BY DEF IInv
  <1> QED BY <1>1, Invariance, PTL

\* The GPU never works on memory that a transition or the destructor freed.
THEOREM MemorySafe == Spec => []NoUseAfterFree
  <1>1. IInv => NoUseAfterFree BY DEF IInv
  <1> QED BY <1>1, Invariance, PTL

\* Every way out of set_input_shape and the destructor leave no orphaned buffer.
THEOREM LeakFree == Spec => []NothingLeaks
  <1>1. IInv => NothingLeaks
    <2> SUFFICES ASSUME IInv, phase \in {"idle", "destroyed"}
                 PROVE  live = Held(device) /\ Distinct(device)
      BY DEF NothingLeaks
    <2>1. Held(staged) = {} BY DEF IInv, Plan, Busy, NoBuffers, Held
    <2> QED BY <2>1 DEF IInv, Memory
  <1> QED BY <1>1, Invariance, PTL

\* The last committed shape can be requested again after any failed transition.
THEOREM DirtyRecovers == Spec => []Recoverable
  <1>1. IInv => Recoverable
    BY SessionAssumption
       DEF IInv, CommittedFits, Recoverable, Transitions, FastPath, FrozenReject
  <1> QED BY <1>1, Invariance, PTL

\* What a step does to the buffers: only a commit replaces any, only for bindings that
\* grow, and never in a frozen session.
LEMMA BufferStep ==
  ASSUME IInv, [Next]_vars
  PROVE  /\ \A b \in Binding : capacity[b] <= capacity'[b]
         /\ frozen /\ phase' # "destroyed" => UNCHANGED <<device, generation>>
  <1> USE SessionAssumption DEF IInv, transition, cache, context, gpu
  <1>1. CASE Commit
    <2> USE <1>1 DEF Commit, ToRebind, CommittedCapacity, CommittedGeneration
    <2>1. \A b \in Binding : capacity[b] <= capacity'[b]
      BY DEF TypeOK, Plan, Busy, Grown
    <2>2. ASSUME frozen PROVE UNCHANGED <<device, generation>>
      <3>1. Grown(target) = {} BY <2>2 DEF Plan, Busy
      <3> QED BY <3>1 DEF TypeOK, Buffers
    <2> QED BY <2>1, <2>2
  <1>2. CASE Destroy BY <1>2 DEF Destroy, TypeOK
  <1>3. ASSUME UNCHANGED cache
        PROVE  UNCHANGED <<device, generation, capacity>>
    BY <1>3
  <1>4. Commit \/ Destroy \/ UNCHANGED cache
    BY DEF Next, SetInputShape, ContextRefuses, Unplannable, BeginTransition, Allocate, Rebind,
           Restore, AllocateFails, RebindFails, RestoreFails, Unwind, CopyBuffer,
           EnqueueAccepted, EnqueueRejected, GpuRetires, StreamFails, Freeze, Destroyed, vars
  <1> QED BY <1>1, <1>2, <1>3, <1>4 DEF TypeOK

\* freeze() pins every address: graphs captured before it stay valid.
THEOREM FrozenAddressesStay == Spec => FrozenPins
  <1>1. IInv /\ [Next]_vars
      => [frozen /\ phase' # "destroyed" => UNCHANGED <<device, generation>>]_vars
    BY BufferStep
  <1> QED BY <1>1, Invariance, PTL DEF Spec, FrozenPins

\* Capacities never shrink, so warming up at the largest shape suffices before freeze().
THEOREM NothingRegrows == Spec => FitsForever
  <1>1. ASSUME IInv, [Next]_vars, NEW s \in Shape, Grown(s) = {} PROVE Grown(s)' = {}
    <2>1. TypeOK' BY NextIInv, <1>1 DEF IInv
    <2>2. ASSUME NEW b \in Binding PROVE ~ (Bytes[b][s] > capacity'[b])
      <3>1. capacity[b] <= capacity'[b] BY <1>1, BufferStep
      <3>2. ~ (Bytes[b][s] > capacity[b]) BY <1>1 DEF Grown
      <3> QED BY <3>1, <3>2, <2>1, <1>1, SessionAssumption DEF IInv, TypeOK
    <2> QED BY <2>2 DEF Grown
  <1>2. IInv /\ [Next]_vars => [\A s \in Shape : Grown(s) = {} => Grown(s)' = {}]_vars
    BY <1>1
  <1> QED BY <1>2, Invariance, PTL DEF Spec, FitsForever

\* Each step of the session is a step of its contract, or invisible to it.
LEMMA ContractStep == IInv /\ [Next]_vars => [Contract!Next]_(Contract!vars)
  <1> SUFFICES ASSUME IInv, [Next]_vars PROVE Contract!Next \/ UNCHANGED Contract!vars
    OBVIOUS
  <1> USE SessionAssumption DEF IInv, transition, cache, context, gpu, Contract!vars
  <1>1. ASSUME NEW s \in Shape, ContextRefuses(s) \/ Unplannable(s) \/ BeginTransition(s)
        PROVE  Contract!Next
    <2>1. Contract!Break
      BY <1>1 DEF ContextRefuses, Unplannable, BeginTransition, Transitions, MarkDirty,
                  TypeOK, Contract!Break, Contract!Usable
    <2> QED BY <2>1 DEF Contract!Next
  <1>2. ASSUME NEW b \in Binding, Allocate(b) \/ Rebind(b) \/ Restore(b) \/ CopyBuffer(b)
        PROVE  UNCHANGED Contract!vars
    BY <1>2 DEF Allocate, Rebind, Restore, CopyBuffer
  <1>3. CASE AllocateFails \/ RebindFails \/ Unwind \/ GpuRetires
    BY <1>3 DEF AllocateFails, RebindFails, Unwind, GpuRetires, Abandon
  <1>4. CASE RestoreFails \/ EnqueueRejected \/ StreamFails
    <2>1. Contract!Poison
      BY <1>4 DEF RestoreFails, EnqueueRejected, StreamFails, Abandon, Ready, TypeOK,
                  Contract!Poison
    <2> QED BY <2>1 DEF Contract!Next
  <1>5. CASE Commit
    <2> USE <1>5 DEF Commit, ToRebind, CommittedGeneration
    <2>1. ASSUME Grown(target) = {} PROVE Contract!Replace
      BY <2>1 DEF TypeOK, Buffers, Contract!Replace
    <2>2. ASSUME Grown(target) # {} PROVE Contract!Replace
      <3>1. PICK b \in Grown(target) : TRUE BY <2>2
      <3>2. b \in Binding /\ staged[b] # NoAddress
        BY <3>1 DEF Grown, Unstaged
      <3>3. staged[b] \in Held(staged) /\ (device[b] # NoAddress => device[b] \in Held(device))
        BY <3>2 DEF Held
      <3>4. device'[b] # device[b] BY <3>1, <3>2, <3>3 DEF Memory
      <3>5. device' \in Buffers /\ ~ frozen
        BY <2>2 DEF TypeOK, Buffers, Plan, Busy
      <3> QED BY <3>4, <3>5, <2>2 DEF Contract!Replace, Contract!Buffers, Buffers
    <2>3. Contract!Placed(device')
      <3>1. Memory' /\ Mirrors' /\ TypeOK' BY NextIInv DEF IInv
      <3> QED BY <3>1 DEF Memory, Mirrors, TypeOK, Buffers, Distinct, Plan, Busy, Contract!Placed
    <2>4. target \in Shape /\ Contract!Settle(target)
      BY <2>1, <2>2, <2>3 DEF Plan, Busy, Contract!Settle, Contract!Usable
    <2> QED BY <2>4 DEF Contract!Next
  <1>6. CASE EnqueueAccepted
    <2>1. Contract!Run
      BY <1>6 DEF EnqueueAccepted, Ready, Mirrors, Contract!Run
    <2> QED BY <2>1 DEF Contract!Next
  <1>7. CASE Freeze
    <2>1. Contract!Freeze BY <1>7 DEF Freeze, TypeOK, Contract!Freeze
    <2> QED BY <2>1 DEF Contract!Next
  <1>8. CASE Destroy
    <2>1. Contract!Destroy
      BY <1>8 DEF Destroy, NoBuffers, Contract!Destroy
    <2> QED BY <2>1 DEF Contract!Next
  <1>9. CASE UNCHANGED vars BY <1>9 DEF vars
  <1> QED BY <1>1, <1>2, <1>3, <1>4, <1>5, <1>6, <1>7, <1>8, <1>9 DEF Next, SetInputShape, Destroyed

\* The detailed session implements SessionContract: whatever fails inside a transition,
\* its caller sees it settle or break, and inference run on what was committed.
THEOREM Implements == Spec => ImplementsContract
  <1>1. Init => Contract!Init
    BY DEF Init, Contract!Init, Buffers, Contract!Buffers
  <1> QED BY <1>1, Invariance, ContractStep, PTL DEF Spec, ImplementsContract, Contract!Spec
==============================================================================
