------------------------------ MODULE LogBridge ------------------------------
(***************************************************************************)
(* The route of a log message: log_message (src/core/log.cpp), the adapter *)
(* of the C API (src/c_api/c_api.cpp) and the callables that Python        *)
(* threads install and remove (python/dfine/detector.py).  Two atomics     *)
(* hold the route and are read and written one at a time.                  *)
(***************************************************************************)
EXTENDS Naturals, FiniteSets

CONSTANTS
    Setter,       \* Python threads that call set_log_callback
    Logger,       \* native threads that log
    Trampoline,   \* the CFUNCTYPE objects a run may create
    OneSetter,    \* whether calls of set_log_callback never overlap
    MaxMessages,  \* bound on the messages logged
    Null

BridgeAssumption ==
    /\ Setter \cap Logger = {}
    /\ Null \notin Trampoline
    /\ OneSetter \in BOOLEAN /\ MaxMessages \in Nat

VARIABLES
    g_c_log_callback,  \* c_api.cpp: the C function the adapter calls
    g_callback,        \* log.cpp: "adapter", or Null for stderr
    holders,           \* the trampolines Python keeps alive
    created,           \* the trampolines that were ever made
    pc, arg,           \* the threads; what a setter installs, what a logger loaded
    fate,              \* where the last message of a logger went (history)
    restoring,         \* loggers that overlapped a return to the default (history)
    wanted,            \* what the last setter to finish asked for (history)
    messages

vars == <<g_c_log_callback, g_callback, holders, created, pc, arg, fate, restoring, wanted, messages>>
routes == <<g_c_log_callback, g_callback>>
AnyThread == Setter \cup Logger

Init ==
    /\ g_c_log_callback = Null /\ g_callback = Null
    /\ holders = {} /\ created = {}
    /\ pc = [t \in AnyThread |-> "idle"]
    /\ arg = [t \in AnyThread |-> Null]
    /\ fate = [l \in Logger |-> "none"]
    /\ restoring = {} /\ wanted = Null /\ messages = 0

Goto(t, label) == pc' = [pc EXCEPT ![t] = label]
Setting == {s \in Setter : pc[s] # "idle"}
Restoring == {s \in Setting : arg[s] = Null}
Logging == {l \in Logger : pc[l] # "idle"}

-----------------------------------------------------------------------------
\* A bug that keeps only the newest trampoline alive.
OnlyNewest(c) == {c}
\* What is alive once c is about to be installed.
Kept(c) == holders \cup {c}

\* set_log_callback makes the trampoline and appends it to _LOG_HOLDERS.
Install(s) ==
    /\ pc[s] = "idle"
    /\ OneSetter => Setting = {}
    /\ \E c \in Trampoline \ created :
        /\ created' = created \cup {c}
        /\ holders' = Kept(c)
        /\ arg' = [arg EXCEPT ![s] = c]
    /\ Goto(s, "first")
    /\ UNCHANGED <<routes, fate, restoring, wanted, messages>>

\* set_log_callback(None).
Restore(s) ==
    /\ pc[s] = "idle"
    /\ OneSetter => Setting = {}
    /\ arg' = [arg EXCEPT ![s] = Null]
    /\ Goto(s, "first")
    /\ restoring' = restoring \cup Logging
    /\ UNCHANGED <<routes, holders, created, fate, wanted, messages>>

\* The order of the two stores of dfine_set_log_callback.
StoreOrder == <<"target", "route">>

Route(target) == IF target = Null THEN Null ELSE "adapter"

Put(s, atomic) ==
    IF atomic = "target"
    THEN /\ g_c_log_callback' = arg[s]
         /\ UNCHANGED g_callback
    ELSE /\ g_callback' = Route(arg[s])
         /\ UNCHANGED g_c_log_callback

FirstStore(s) ==
    /\ pc[s] = "first"
    /\ Put(s, StoreOrder[1])
    /\ Goto(s, "second")
    /\ UNCHANGED <<holders, created, arg, fate, restoring, wanted, messages>>

SecondStore(s) ==
    /\ pc[s] = "second"
    /\ Put(s, StoreOrder[2])
    /\ Goto(s, "idle")
    /\ wanted' = arg[s]
    /\ UNCHANGED <<holders, created, arg, fate, restoring, messages>>

-----------------------------------------------------------------------------
\* log_message on a message that the severity gate lets through.
Log(l) ==
    /\ pc[l] = "idle" /\ messages < MaxMessages
    /\ messages' = messages + 1
    /\ fate' = [fate EXCEPT ![l] = "none"]
    /\ restoring' = IF Restoring = {} THEN restoring \ {l} ELSE restoring \cup {l}
    /\ Goto(l, "gated")
    /\ UNCHANGED <<routes, holders, created, arg, wanted>>

\* Load g_callback: the adapter is called, or the message goes to stderr.
LoadRoute(l) ==
    /\ pc[l] = "gated"
    /\ \/ /\ g_callback # Null
          /\ Goto(l, "adapter")
          /\ UNCHANGED fate
       \/ /\ g_callback = Null
          /\ fate' = [fate EXCEPT ![l] = "stderr"]
          /\ Goto(l, "idle")
    /\ UNCHANGED <<routes, holders, created, arg, restoring, wanted, messages>>

\* c_log_adapter loads its target and calls it, or returns.
LoadTarget(l) ==
    /\ pc[l] = "adapter"
    /\ arg' = [arg EXCEPT ![l] = g_c_log_callback]
    /\ \/ /\ g_c_log_callback # Null
          /\ Goto(l, "calling")
          /\ UNCHANGED fate
       \/ /\ g_c_log_callback = Null
          /\ fate' = [fate EXCEPT ![l] = "lost"]
          /\ Goto(l, "idle")
    /\ UNCHANGED <<routes, holders, created, restoring, wanted, messages>>

\* The trampoline returns; an exception of the callable ends in it.
CallReturns(l) ==
    /\ pc[l] = "calling"
    /\ fate' = [fate EXCEPT ![l] = "called"]
    /\ Goto(l, "idle")
    /\ UNCHANGED <<routes, holders, created, arg, restoring, wanted, messages>>

SetterStep(s) == Install(s) \/ Restore(s) \/ FirstStore(s) \/ SecondStore(s)
LoggerStep(l) == Log(l) \/ LoadRoute(l) \/ LoadTarget(l) \/ CallReturns(l)
Next == (\E s \in Setter : SetterStep(s)) \/ (\E l \in Logger : LoggerStep(l))

Spec == Init /\ [][Next]_vars

-----------------------------------------------------------------------------
Target == Trampoline \cup {Null}

\* The types of the state; the C++ logger knows the adapter only.
TypeOK ==
    /\ g_c_log_callback \in Target /\ g_callback \in {"adapter", Null}
    /\ created \subseteq Trampoline /\ holders \subseteq created
    /\ pc \in [AnyThread -> {"idle", "first", "second", "gated", "adapter", "calling"}]
    /\ arg \in [AnyThread -> Target]
    /\ fate \in [Logger -> {"none", "stderr", "called", "lost"}]
    /\ restoring \subseteq Logger /\ wanted \in Target
    /\ messages \in 0 .. MaxMessages

\* Whatever order threads install and log in, native code runs only in
\* trampolines Python still holds, also when another one replaced them while
\* the call was running.
CalledIsAlive == \A l \in Logger : pc[l] = "calling" => arg[l] \in holders

\* Replacing one callable by another, or stderr by a callable, never swallows a
\* message: only a return to the default that runs at the same time may, because
\* the adapter can find its target already gone.
LostOnlyOnRestore == \A l \in Logger : fate[l] = "lost" => l \in restoring

\* Once a call of set_log_callback is over and no other is running, the two
\* atomics agree: messages go to the callable it installed, or to stderr.
SettledRoute ==
    Setting = {} => /\ g_c_log_callback = wanted
                    /\ g_callback = IF wanted = Null THEN Null ELSE "adapter"

=============================================================================
