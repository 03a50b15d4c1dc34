---------------------------- MODULE DeviceArena ----------------------------
(* The arena of device_arena.hpp: slabs are reserved as offsets, one
   allocation backs them all, and a lock turns any later reservation into an
   error (or, under the warning policy, an offset with nothing behind it).
   Any caller, any order of calls; the allocation may fail.                 *)
EXTENDS Integers, Sequences

CONSTANTS
    Sizes,      \* bytes a caller may ask for
    Align,      \* the alignment of every slab
    MaxSlabs,   \* bound on the reservations of one behaviour
    NoBlock     \* base_ == nullptr

ASSUME ArenaAssumption == Sizes \subseteq Nat /\ Align \in Nat \ {0}

VARIABLES
    high_water, capacity, base, committed, locked,
    policy,     \* "throw" | "warn"
    slabs,      \* history: the reservations that were backed, in order
    unbacked,   \* history: offsets the warning policy has handed out
    mallocs,    \* history: allocations that succeeded; base is the last one
    outcome     \* of the last call: "ok" | "error"

arena_vars == <<high_water, capacity, base, committed, locked, policy, slabs,
                unbacked, mallocs, outcome>>

block == <<capacity, base, committed, mallocs>>
freeze == <<locked, policy>>

\* A bug that rounds down.
AlignDown(x) == (x \div Align) * Align

AlignUp(x) == ((x + Align - 1) \div Align) * Align

Bytes(n) == IF n = 0 THEN 1 ELSE n

Sub(n) ==
    /\ Len(slabs) < MaxSlabs
    /\ ~locked /\ ~committed
    /\ high_water' = AlignUp(high_water) + Bytes(n)
    /\ slabs' = Append(slabs, [offset |-> AlignUp(high_water), bytes |-> Bytes(n)])
    /\ outcome' = "ok"
    /\ UNCHANGED <<block, freeze, unbacked>>

\* After commit, or locked under the throwing policy.
SubRefused ==
    /\ IF locked THEN policy = "throw" ELSE committed
    /\ outcome' = "error"
    /\ UNCHANGED <<high_water, block, freeze, slabs, unbacked>>

SubUnbacked ==
    /\ locked /\ policy = "warn"
    /\ unbacked' = unbacked \cup {AlignUp(high_water)}
    /\ outcome' = "ok"
    /\ UNCHANGED <<high_water, block, freeze, slabs>>

BlockSize == high_water

Allocates == ~committed

\* committed_ is set before cudaMalloc is called.
Commit(succeeds) ==
    /\ Allocates
    /\ committed' = TRUE
    /\ capacity' = BlockSize
    /\ IF BlockSize > 0 /\ succeeds
       THEN /\ base' = mallocs + 1
            /\ mallocs' = mallocs + 1
       ELSE UNCHANGED <<base, mallocs>>
    /\ outcome' = IF BlockSize > 0 /\ ~succeeds THEN "error" ELSE "ok"
    /\ UNCHANGED <<high_water, freeze, slabs, unbacked>>

\* `if (committed_) return;`
CommitAgain ==
    /\ committed
    /\ outcome' = "ok"
    /\ UNCHANGED <<high_water, capacity, base, committed, mallocs, freeze, slabs, unbacked>>

Lock(p) ==
    /\ locked' = TRUE
    /\ policy' = p
    /\ outcome' = "ok"
    /\ UNCHANGED <<high_water, block, slabs, unbacked>>

ArenaInit ==
    /\ high_water = 0 /\ capacity = 0 /\ base = NoBlock
    /\ committed = FALSE /\ locked = FALSE /\ policy = "throw"
    /\ slabs = <<>> /\ unbacked = {} /\ mallocs = 0
    /\ outcome = "ok"

ArenaNext ==
    \/ \E n \in Sizes : Sub(n)
    \/ SubRefused \/ SubUnbacked
    \/ \E succeeds \in BOOLEAN : Commit(succeeds)
    \/ CommitAgain
    \/ \E p \in {"throw", "warn"} : Lock(p)

ArenaSpec == ArenaInit /\ [][ArenaNext]_arena_vars

---------------------------------------------------------------------------
(* Properties *)

ArenaTypeOK ==
    /\ high_water \in Nat /\ capacity \in Nat /\ (base = NoBlock \/ base = mallocs)
    /\ committed \in BOOLEAN /\ locked \in BOOLEAN /\ policy \in {"throw", "warn"}
    /\ \A k \in 1 .. Len(slabs) : slabs[k].offset % Align = 0 /\ slabs[k].bytes > 0
    /\ mallocs \in Nat /\ outcome \in {"ok", "error"}

\* No two slabs share a byte, whatever was reserved in between: the nine
\* scratch buffers of the GPU decode never write into each other.
SlabsDisjoint ==
    \A j, k \in 1 .. Len(slabs) : j < k =>
        slabs[j].offset + slabs[j].bytes <= slabs[k].offset

\* When the one allocation succeeded, every slab lies in it, and an offset
\* handed out under the warning policy lies behind it, never on a slab.
SlabsBacked ==
    base # NoBlock =>
        /\ \A k \in 1 .. Len(slabs) : slabs[k].offset + slabs[k].bytes <= capacity
        /\ \A u \in unbacked : capacity <= u

\* Once there is a block its address and size never change: what a captured
\* graph has recorded stays valid.
StableAddresses == [][base # NoBlock => UNCHANGED <<base, capacity, slabs>>]_arena_vars

=============================================================================
