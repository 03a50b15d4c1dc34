---------------------------- MODULE LibraryLoader ----------------------------
(***************************************************************************)
(* How Python finds libdfine (python/dfine/_ffi.py): the ordered search,   *)
(* one file check at a time, while a build may replace the files; the      *)
(* cached library of the process; and the ABI guard of a Detector.         *)
(***************************************************************************)
EXTENDS Naturals, FiniteSets, Sequences

CONSTANTS
    Thread,       \* Python threads that need the library
    Place,        \* the paths a library may be at
    SearchOrder,  \* the candidates of automatic discovery, most specific first
    System,       \* what the system loader finds by name
    Rebuilds,     \* whether a build replaces libraries meanwhile
    MaxChanges,   \* bound on the replaced files
    None

\* A file there: absent, not loadable (a missing dependency), the old ABI, or v2.
Content == {"absent", "broken", "v1", "v2"}

LoaderAssumption ==
    /\ SearchOrder \in Seq(Place) /\ System \in Content
    /\ Rebuilds \in BOOLEAN /\ MaxChanges \in Nat
    /\ None \notin Place

VARIABLES
    disk,    \* Place -> Content
    env,     \* DFINE_LIBRARY, or None
    lib,     \* _LIB: the library of the process
    pc,      \* the threads inside get_lib
    next,    \* the candidate each thread looks at
    found,   \* what it found there, or how the search ended
    steady,  \* the places whose file did not change during the search (history)
    changes

vars == <<disk, env, lib, pc, next, found, steady, changes>>
NoLib == [at |-> None, abi |-> None]
Abi == {"v1", "v2"}

Init ==
    /\ disk \in [Place -> Content]
    /\ env \in Place \cup {None}
    /\ lib = NoLib
    /\ pc = [t \in Thread |-> "idle"]
    /\ next = [t \in Thread |-> 1]
    /\ found = [t \in Thread |-> NoLib]
    /\ steady = [t \in Thread |-> Place]
    /\ changes = 0

Goto(t, label) == pc' = [pc EXCEPT ![t] = label]
Exists(p) == disk[p] # "absent"

\* _candidate_paths.
Candidates == IF env = None THEN SearchOrder ELSE <<env>> \o SearchOrder

-----------------------------------------------------------------------------
\* get_lib on a thread that needs the library.
Cached(t) ==
    /\ pc[t] = "idle" /\ lib # NoLib
    /\ found' = [found EXCEPT ![t] = lib]
    /\ Goto(t, "have")
    /\ UNCHANGED <<disk, env, lib, next, steady, changes>>

RequestedIsMissing == env # None /\ ~Exists(env)

BeginLoad(t) ==
    /\ pc[t] = "idle" /\ lib = NoLib
    /\ next' = [next EXCEPT ![t] = 1]
    /\ steady' = [steady EXCEPT ![t] = Place]
    /\ Goto(t, IF RequestedIsMissing THEN "error" ELSE "search")
    /\ UNCHANGED <<disk, env, lib, found, changes>>

\* cand.exists()
Look(t) ==
    /\ pc[t] = "search" /\ next[t] <= Len(Candidates)
    /\ \/ /\ Exists(Candidates[next[t]])
          /\ Goto(t, "open")
          /\ UNCHANGED next
       \/ /\ ~Exists(Candidates[next[t]])
          /\ next' = [next EXCEPT ![t] = @ + 1]
          /\ UNCHANGED pc
    /\ UNCHANGED <<disk, env, lib, found, steady, changes>>

\* A bug that tries the next candidate when one does not load.
TriesNext(t) == /\ Goto(t, "search") /\ next' = [next EXCEPT ![t] = @ + 1]
\* An existing file that does not load ends the search.
NotLoadable(t) == Goto(t, "error") /\ UNCHANGED next

Loads(c) == c \in Abi
\* ctypes.CDLL(cand)
Open(t) ==
    LET p == Candidates[next[t]]
    IN  /\ pc[t] = "open"
        /\ \/ /\ Loads(disk[p])
              /\ found' = [found EXCEPT ![t] = [at |-> p, abi |-> disk[p]]]
              /\ Goto(t, "configure")
              /\ UNCHANGED next
           \/ /\ ~Loads(disk[p])
              /\ NotLoadable(t)
              /\ UNCHANGED found
        /\ UNCHANGED <<disk, env, lib, steady, changes>>

\* Last resort: the system loader by name.
OpenSystem(t) ==
    /\ pc[t] = "search" /\ next[t] > Len(Candidates)
    /\ \/ /\ Loads(System)
          /\ found' = [found EXCEPT ![t] = [at |-> "system", abi |-> System]]
          /\ Goto(t, "configure")
       \/ /\ ~Loads(System)
          /\ Goto(t, "error")
          /\ UNCHANGED found
    /\ UNCHANGED <<disk, env, lib, next, steady, changes>>

\* _configure; only then the process caches the library.
Configure(t) ==
    /\ pc[t] = "configure"
    /\ lib' = found[t]
    /\ Goto(t, "have")
    /\ UNCHANGED <<disk, env, next, found, steady, changes>>

\* The call raised; the application may try again.
Retry(t) ==
    /\ pc[t] = "error"
    /\ Goto(t, "idle")
    /\ UNCHANGED <<disk, env, lib, next, found, steady, changes>>

\* The Detector asks for the frozen-pipeline calls of the C ABI v2.
HasFreeze(l) == l.abi = "v2"

\* Detector.__init__ passes its options struct, or refuses the library.
PassOptions(t) ==
    /\ pc[t] = "have"
    /\ Goto(t, IF HasFreeze(found[t]) THEN "options" ELSE "refused")
    /\ UNCHANGED <<disk, env, lib, next, found, steady, changes>>

\* A build unlinks, truncates or writes a library.
Rebuild(p) ==
    /\ Rebuilds /\ changes < MaxChanges
    /\ changes' = changes + 1
    /\ \E c \in Content \ {disk[p]} : disk' = [disk EXCEPT ![p] = c]
    /\ steady' = [t \in Thread |-> steady[t] \ {p}]
    /\ UNCHANGED <<env, lib, pc, next, found>>

Step(t) ==
    \/ Cached(t) \/ BeginLoad(t) \/ Look(t) \/ Open(t) \/ OpenSystem(t)
    \/ Configure(t) \/ Retry(t) \/ PassOptions(t)
Next == (\E t \in Thread : Step(t)) \/ (\E p \in Place : Rebuild(p))

Spec == Init /\ [][Next]_vars

-----------------------------------------------------------------------------
Library == [at : Place \cup {"system"}, abi : Abi] \cup {NoLib}

\* The types of the state.
TypeOK ==
    /\ disk \in [Place -> Content] /\ env \in Place \cup {None}
    /\ lib \in Library /\ found \in [Thread -> Library]
    /\ pc \in [Thread -> {"idle", "search", "open", "configure", "have", "error", "options", "refused"}]
    /\ next \in [Thread -> 1 .. Len(Candidates) + 1]
    /\ steady \in [Thread -> SUBSET Place] /\ changes \in 0 .. MaxChanges

\* A library that was there, at a more specific place, during the whole search is
\* never passed over: neither for a later candidate, nor because it does not load.
NotPassedOver ==
    \A t \in Thread : pc[t] = "configure" =>
        \A i \in 1 .. Len(Candidates) :
            (i < next[t] /\ Candidates[i] \in steady[t]) => ~Exists(Candidates[i])

\* "An explicitly requested library must never be silently substituted with a
\* fallback" (_ffi.py): with DFINE_LIBRARY set the search ends there or fails.
NeverSubstituted ==
    \A t \in Thread : pc[t] = "configure" => env \in {None, found[t].at}

\* No thread passes the v2 options struct to a library that would misread it, also
\* when two threads load at once and one overwrites the cached library.
OptionsUnderstood == \A t \in Thread : pc[t] = "options" => found[t].abi = "v2"
=============================================================================
