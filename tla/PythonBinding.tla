---------------------------- MODULE PythonBinding ----------------------------
(***************************************************************************)
(* dfine.Detector (python/dfine/detector.py) over the C ABI                *)
(* (src/c_api/c_api.cpp): who owns a native detector and a result set, and *)
(* whose error a thread reads.  Every thread has a Detector of its own, as *)
(* the class asks; the collector may finish one in any thread.  An address *)
(* the allocator took back may be handed out again.                        *)
(***************************************************************************)
EXTENDS Integers, FiniteSets

CONSTANTS
    Thread,      \* Python threads
    Handle,      \* addresses of native detectors
    Threshold,   \* valid thresholds, in tenths
    Batch,       \* the sizes of a detect_batch
    Interrupts,  \* whether Ctrl-C may come between two bytecodes
    MaxCalls,    \* bound on the constructions and detections
    None

BindingAssumption ==
    /\ Threshold \subseteq 0 .. 10
    /\ Batch \subseteq Nat \ {0}
    /\ Interrupts \in BOOLEAN /\ MaxCalls \in Nat
    /\ None \notin Handle /\ None \notin Int

VARIABLES
    native,        \* live native detectors, with the default each was created with
    handle,        \* Detector._handle of each thread's object
    threshold,     \* Detector._threshold
    garbage,       \* handles of objects that await the collector
    t_last_error,  \* the error text of each native thread
    results,       \* the result memory a thread's call allocated
    pc, call,      \* what each thread is doing
    raised,        \* the text of the last RuntimeError (history)
    calls

vars == <<native, handle, threshold, garbage, t_last_error, results, pc, call, raised, calls>>
owners == <<native, handle, threshold, garbage>>
NoResult == [sets |-> 0, array |-> FALSE]
NoCall == [kind |-> "none", n |-> 0, id |-> 0, asked |-> None, used |-> None, ret |-> None]
ThresholdArg == Threshold \cup {None}

Init ==
    /\ native = [h \in {} |-> 0]
    /\ handle = [t \in Thread |-> None]
    /\ threshold = [t \in Thread |-> None]
    /\ garbage = {}
    /\ t_last_error = [t \in Thread |-> 0]
    /\ results = [t \in Thread |-> NoResult]
    /\ pc = [t \in Thread |-> "idle"]
    /\ call = [t \in Thread |-> NoCall]
    /\ raised = [t \in Thread |-> None]
    /\ calls = 0

Alive == DOMAIN native
Without(h) == [x \in Alive \ {h} |-> native[x]]
At(t, label) == pc[t] = label
Goto(t, label) == pc' = [pc EXCEPT ![t] = label]

\* A bug that keeps one error text for the process.
SharedCell(t) == CHOOSE x \in Thread : TRUE
\* Where a thread's error text lives; 0 is the empty text.
Cell(t) == t
SetError(t, text) == t_last_error' = [t_last_error EXCEPT ![Cell(t)] = text]

\* A native call begins: it clears the error of its thread.
Enter(t, label, c) ==
    /\ At(t, "idle") /\ calls < MaxCalls
    /\ calls' = calls + 1
    /\ call' = [call EXCEPT ![t] = [c EXCEPT !.id = calls + 1]]
    /\ SetError(t, 0)
    /\ raised' = [raised EXCEPT ![t] = None]
    /\ Goto(t, label)
    /\ UNCHANGED <<owners, results>>

-----------------------------------------------------------------------------
\* Detector.__init__ after its own checks.
Construct(t) ==
    /\ handle[t] = None
    /\ \E thr \in Threshold : Enter(t, "creating", [NoCall EXCEPT !.kind = "create", !.asked = thr])

\* dfine_detector_create_ex: an option of 0 stands for the default.
OptionThreshold(thr) == IF thr > 0 THEN thr ELSE 5

CreateReturns(t) ==
    /\ At(t, "creating")
    /\ \E h \in Handle \ Alive :
        /\ native' = [x \in Alive \cup {h} |-> IF x = h THEN OptionThreshold(call[t].asked) ELSE native[x]]
        /\ call' = [call EXCEPT ![t].ret = h]
    /\ Goto(t, "created")
    /\ UNCHANGED <<handle, threshold, garbage, t_last_error, results, raised, calls>>

StoreHandle(t) ==
    /\ At(t, "created")
    /\ handle' = [handle EXCEPT ![t] = call[t].ret]
    /\ threshold' = [threshold EXCEPT ![t] = call[t].asked]
    /\ call' = [call EXCEPT ![t] = NoCall]
    /\ Goto(t, "idle")
    /\ UNCHANGED <<native, garbage, t_last_error, results, raised, calls>>

\* A native call fails: what it allocated is gone and the error is set.
Fails(t) ==
    /\ SetError(t, call[t].id)
    /\ Goto(t, "failed")
    /\ UNCHANGED <<owners, call, raised, calls>>

CreateFails(t) == At(t, "creating") /\ Fails(t) /\ UNCHANGED results

\* The wrapper sees NULL and raises with the text of last_error().
RaiseError(t) ==
    /\ At(t, "failed")
    /\ raised' = [raised EXCEPT ![t] = t_last_error[Cell(t)]]
    /\ Goto(t, "idle")
    /\ UNCHANGED <<owners, t_last_error, results, call, calls>>

-----------------------------------------------------------------------------
\* _resolve_threshold.
ResolveThreshold(t, asked) == IF asked = None THEN threshold[t] ELSE asked

\* detect and detect_batch; an empty batch never gets here.
Detect(t) ==
    /\ handle[t] # None
    /\ \E asked \in ThresholdArg, n \in Batch, kind \in {"one", "batch"} :
        /\ kind = "one" => n = 1
        /\ Enter(t, "inferring", [NoCall EXCEPT !.kind = kind, !.n = n, !.asked = asked,
                                                !.used = ResolveThreshold(t, asked)])

\* The detector's own rule: a negative threshold stands for its default.  A call
\* on freed memory has no outcome here.
Infers(t) ==
    /\ At(t, "inferring") /\ handle[t] \in Alive
    /\ call' = [call EXCEPT ![t].used = IF @ >= 0 THEN @ ELSE native[handle[t]]]
    /\ Goto(t, "packing")
    /\ UNCHANGED <<owners, t_last_error, results, raised, calls>>

InferFails(t) == At(t, "inferring") /\ handle[t] \in Alive /\ Fails(t) /\ UNCHANGED results

PackOne(t) ==
    /\ At(t, "packing") /\ results[t].sets < call[t].n
    /\ results' = [results EXCEPT ![t].sets = @ + 1]
    /\ UNCHANGED <<owners, t_last_error, pc, call, raised, calls>>

\* What is left of the results when packing throws.
FreesPacked(t) == [results EXCEPT ![t] = NoResult]
PackFails(t) ==
    /\ At(t, "packing")
    /\ results[t].sets < call[t].n \/ call[t].kind = "batch"
    /\ results' = FreesPacked(t)
    /\ Fails(t)

PackReturns(t) ==
    /\ At(t, "packing") /\ results[t].sets = call[t].n
    /\ results' = [results EXCEPT ![t].array = call[t].kind = "batch"]
    /\ Goto(t, "returned")
    /\ UNCHANGED <<owners, t_last_error, call, raised, calls>>

\* The wrapper enters its try block.
EnterTry(t) ==
    /\ At(t, "returned")
    /\ Goto(t, "copying")
    /\ UNCHANGED <<owners, t_last_error, results, call, raised, calls>>

\* _copy_out is done or raises; the finally block frees either way.
FreeResults(t) ==
    /\ At(t, "copying")
    /\ results' = [results EXCEPT ![t] = [sets |-> @.sets - call[t].n, array |-> FALSE]]
    /\ Goto(t, "idle")
    /\ UNCHANGED <<owners, t_last_error, call, raised, calls>>

-----------------------------------------------------------------------------
\* close() on an open detector calls dfine_detector_destroy.
Close(t) ==
    /\ At(t, "idle") /\ handle[t] # None
    /\ native' = Without(handle[t])
    /\ Goto(t, "destroyed")
    /\ UNCHANGED <<handle, threshold, garbage, t_last_error, results, call, raised, calls>>

\* A bug that leaves the handle in the closed object.
KeepsHandle(t) == handle
ClearedHandle(t) == [handle EXCEPT ![t] = None]
ClearHandle(t) ==
    /\ At(t, "destroyed")
    /\ handle' = ClearedHandle(t)
    /\ Goto(t, "idle")
    /\ UNCHANGED <<native, threshold, garbage, t_last_error, results, call, raised, calls>>

\* The last reference goes while the object is open.
Drop(t) ==
    /\ At(t, "idle") /\ handle[t] # None
    /\ garbage' = garbage \cup {handle[t]}
    /\ handle' = [handle EXCEPT ![t] = None]
    /\ UNCHANGED <<native, threshold, t_last_error, results, pc, call, raised, calls>>

AfterDestroy(t) == t_last_error
\* __del__ of a dropped object, in whichever thread runs Python code.
Collect(t) ==
    /\ pc[t] \in {"idle", "created", "failed", "returned", "copying", "destroyed"}
    /\ \E h \in garbage :
        /\ native' = Without(h)
        /\ garbage' = garbage \ {h}
    /\ t_last_error' = AfterDestroy(t)
    /\ UNCHANGED <<handle, threshold, results, pc, call, raised, calls>>

\* KeyboardInterrupt after a native call, before its result is stored.
Interrupt(t) ==
    /\ Interrupts
    /\ pc[t] \in {"created", "returned", "destroyed"}
    /\ Goto(t, "idle")
    /\ UNCHANGED <<owners, t_last_error, results, call, raised, calls>>

Step(t) ==
    \/ Construct(t) \/ CreateReturns(t) \/ StoreHandle(t) \/ CreateFails(t) \/ RaiseError(t)
    \/ Detect(t) \/ Infers(t) \/ InferFails(t) \/ PackOne(t) \/ PackFails(t) \/ PackReturns(t)
    \/ EnterTry(t) \/ FreeResults(t)
    \/ Close(t) \/ ClearHandle(t) \/ Drop(t) \/ Collect(t) \/ Interrupt(t)
Next == \E t \in Thread : Step(t)

Spec == Init /\ [][Next]_vars

-----------------------------------------------------------------------------
\* The types of the state; the error texts are call numbers.
TypeOK ==
    /\ Alive \subseteq Handle /\ \A h \in Alive : native[h] \in 1 .. 10
    /\ handle \in [Thread -> Handle \cup {None}]
    /\ threshold \in [Thread -> ThresholdArg]
    /\ garbage \subseteq Handle
    /\ t_last_error \in [Thread -> 0 .. MaxCalls] /\ raised \in [Thread -> (0 .. MaxCalls) \cup {None}]
    /\ \A t \in Thread : results[t].sets \in Nat /\ results[t].array \in BOOLEAN
    /\ pc \in [Thread -> {"idle", "creating", "created", "inferring", "packing", "returned",
                          "copying", "failed", "destroyed"}]
    /\ \A t \in Thread : call[t].n \in Batch \cup {0} /\ call[t].id \in 0 .. MaxCalls
    /\ calls \in 0 .. MaxCalls

Holding == {t \in Thread : handle[t] # None /\ pc[t] # "destroyed"}

\* The native detectors that somebody is going to destroy.
Owned ==
    garbage \cup {handle[t] : t \in Holding} \cup {call[t].ret : t \in {x \in Thread : pc[x] = "created"}}

\* Across closes, drops and collections in other threads every native detector
\* has one owner: none is lost, none is destroyed twice, and no object is left
\* with a handle whose address now belongs to another detector.
OneOwner ==
    /\ Owned = Alive
    /\ \A t, u \in Holding : t # u => handle[t] # handle[u]
    /\ \A t \in Holding : handle[t] \notin garbage

\* A thread that is back from a call, by success, by a native failure at any
\* allocation or by an exception while it copied, has freed all its result memory.
ResultsFreed == \A t \in Thread : pc[t] \in {"idle", "failed"} => results[t] = NoResult

\* The text of a RuntimeError is that of the call of this thread that failed,
\* whatever other threads call and whatever the collector destroys in between.
ErrorIsOwn == \A t \in Thread : raised[t] # None => raised[t] = call[t].id

\* Detections are filtered by the threshold the caller gave, or by the one given
\* to the constructor: also 0, which the C options read as "use the default".
ThresholdHonoured ==
    \A t \in Thread : pc[t] \in {"packing", "returned", "copying"} =>
        call[t].used = IF call[t].asked = None THEN threshold[t] ELSE call[t].asked

=============================================================================
