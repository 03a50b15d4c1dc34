------------------------------ MODULE MCRuntime ------------------------------
(*****************************************************************************)
(* The parts of libdfine and of its Python binding that share no state with  *)
(* each other, in one run: a behaviour is of one program, and the others     *)
(* stay as they are.                                                         *)
(*****************************************************************************)
EXTENDS SessionIo, DeviceArena, TLC

CONSTANTS
    NaN, Thread, Native, Object, Threshold, Batch, Place, SearchOrder, System,
    Slots, MaxNth, MaxHits,
    Decodings, Contracts, Bindings, Searches, Bridges  \* by the name of an instance, its constants

VARIABLE program     \* which program this behaviour is of
VARIABLES phase, path, batch, frames, thr, thr_cell, pairs, sorted, s_thr, s_count, written,
          out, counts, results, engine, doc, rewritten, meta, logits, name, remaining, g_armed,
          check, hits, fires, asked, total, pc, word, exponent, mantissa, single, native, handle,
          threshold, garbage, t_last_error, call, raised, disk, env, lib, next, found, steady,
          changes, g_c_log_callback, g_callback, holders, created, arg, fate, restoring, wanted,
          messages

Decoding(v) == INSTANCE BoxDecoding WITH
    Queries <- Decodings[v].queries, Classes <- Decodings[v].classes,
    Limit <- Decodings[v].limit, MaxBatch <- Decodings[v].max_batch,
    Score <- Decodings[v].score, Frames <- Decodings[v].frames,
    Requests <- Decodings[v].requests, OwnThreshold <- Decodings[v].own_threshold,
    Calls <- Decodings[v].calls
Contract(v) == INSTANCE EngineContract WITH
    Sizes <- Contracts[v].sizes, Classes <- Contracts[v].classes,
    Batches <- Contracts[v].batches, DefaultSize <- Contracts[v].default_size,
    Renamed <- Contracts[v].renamed,
    DefaultClasses <- Contracts[v].default_classes, Absent <- Nothing
Failpoints == INSTANCE FaultInjection WITH
    Names <- Object, Threads <- Thread, Free <- Nothing
Half == INSTANCE HalfUnpack WITH
    Words <- 0 .. 2^16 - 1, h <- word, e <- exponent, m <- mantissa, f <- single
Detectors(v) == INSTANCE PythonBinding WITH
    Handle <- Object, Interrupts <- Bindings[v].interrupts,
    MaxCalls <- Bindings[v].max_calls, None <- Nothing
Loader(v) == INSTANCE LibraryLoader WITH
    Rebuilds <- Searches[v].rebuilds, MaxChanges <- Searches[v].max_changes, None <- Nothing
Bridge(v) == INSTANCE LogBridge WITH
    Setter <- Thread, Logger <- Native, Trampoline <- Object,
    OneSetter <- Bridges[v].one_setter, MaxMessages <- Bridges[v].max_messages, Null <- Nothing

\* The highest two levels share a score: sigmoid has saturated.
Saturating == 0 :> 0 @@ 1 :> 1 @@ 2 :> 2 @@ 3 :> 2

\* Images for batches: ties and NaN among them.
FewFrames ==
    { 0 :> 1 @@ 1 :> 3 @@ 2 :> 2 @@ 3 :> 1,
      0 :> NaN @@ 1 :> 2 @@ 2 :> 2 @@ 3 :> 1,
      0 :> 3 @@ 1 :> 3 @@ 2 :> 1 @@ 3 :> 2 }

\* Every image of two queries and two classes over three logits and NaN; two calls of one or
\* two images, on one scratch.
TheDecodings ==
    "decode" :> [queries |-> 2, classes |-> 2, limit |-> 3, max_batch |-> 1, score |-> Saturating,
                 frames |-> [0 .. 3 -> {1, 2, 3, NaN}], requests |-> {-1, 0, 1, 2},
                 own_threshold |-> 1, calls |-> 1] @@
    "decode_batch" :> [queries |-> 2, classes |-> 2, limit |-> 3, max_batch |-> 2,
                       score |-> Saturating, frames |-> FewFrames, requests |-> {0, 2},
                       own_threshold |-> 1, calls |-> 2]

\* Every engine of two sizes and class counts, every engine of batches of one or two, and
\* every engine of other tensor names, each with every sidecar.
TheContracts ==
    "contract" :> [sizes |-> {320, 640}, classes |-> {4, 80}, batches |-> {1},
                   default_size |-> 640, default_classes |-> 80, renamed |-> {}] @@
    "contract_names" :> [sizes |-> {640}, classes |-> {4, 80}, batches |-> {1},
                         default_size |-> 640, default_classes |-> 80,
                         renamed |-> {"input", "outputs"}] @@
    "contract_batch" :> [sizes |-> {640}, classes |-> {4}, batches |-> {1, 2},
                         default_size |-> 640, default_classes |-> 4, renamed |-> {}]

\* Two threads with a detector each, and an address to be reused; without and with Ctrl-C.
TheBindings ==
    "detectors" :> [interrupts |-> FALSE, max_calls |-> 4] @@
    "interrupted" :> [interrupts |-> TRUE, max_calls |-> 3]

\* Two threads load the library; two files are replaced meanwhile, or none.
TheSearches ==
    "loader" :> [rebuilds |-> TRUE, max_changes |-> 2] @@
    "loader_steady" :> [rebuilds |-> FALSE, max_changes |-> 0]
WheelThenBuild == <<"wheel", "build">>

\* Calls of set_log_callback may overlap, or do not.
TheBridges ==
    "log" :> [one_setter |-> FALSE, max_messages |-> 4] @@
    "log_one" :> [one_setter |-> TRUE, max_messages |-> 3]

ASSUME PartsAssumption ==
    /\ Failpoints!FaultAssumption /\ Half!WordsAssumption
    /\ \A v \in DOMAIN Decodings : Decoding(v)!DecodingAssumption
    /\ \A v \in DOMAIN Contracts : Contract(v)!ContractAssumption
    /\ \A v \in DOMAIN Bindings : Detectors(v)!BindingAssumption
    /\ \A v \in DOMAIN Searches : Loader(v)!LoaderAssumption
    /\ \A v \in DOMAIN Bridges : Bridge(v)!BridgeAssumption

\* No name is that of two programs.
Singles == {"io", "arena", "failpoints", "half"}
ASSUME NamesAssumption ==
    /\ Singles \cap (DOMAIN Decodings \cup DOMAIN Contracts \cup DOMAIN Bindings
                     \cup DOMAIN Searches \cup DOMAIN Bridges) = {}
    /\ DOMAIN Decodings \cap (DOMAIN Contracts \cup DOMAIN Bindings \cup DOMAIN Searches
                              \cup DOMAIN Bridges) = {}
    /\ DOMAIN Contracts \cap (DOMAIN Bindings \cup DOMAIN Searches \cup DOMAIN Bridges) = {}
    /\ DOMAIN Bindings \cap (DOMAIN Searches \cup DOMAIN Bridges) = {}
    /\ DOMAIN Searches \cap DOMAIN Bridges = {}

-----------------------------------------------------------------------------
(* The variables of a program the behaviour is not of stay unused.         *)

Unused == "unused"
IoOnly == <<given, used, host_in, device_in, device_out, host_out, stream, waiting, returned>>
ArenaOnly == <<high_water, capacity, base, committed, locked, policy, slabs, unbacked, mallocs,
               outcome>>
DecodingOnly == <<path, batch, frames, thr, thr_cell, pairs, sorted, s_thr, s_count, written,
                  out, counts>>
ContractOnly == <<engine, doc, rewritten, meta, logits>>
FailpointsOnly == <<name, remaining, g_armed, check, hits, fires, asked, total>>
HalfOnly == <<word, exponent, mantissa, single>>
DetectorsOnly == <<native, handle, threshold, garbage, t_last_error, call, raised>>
LoaderOnly == <<disk, env, lib, next, found, steady, changes>>
BridgeOnly == <<g_c_log_callback, g_callback, holders, created, arg, fate, restoring, wanted,
                messages>>
NoIo ==
    /\ given = [i \in Inputs |-> Nothing] /\ used = Nothing
    /\ host_in = given /\ device_in = given
    /\ device_out = [o \in Outputs |-> Nothing] /\ host_out = device_out
    /\ stream = <<>> /\ waiting = Nothing /\ returned = Nothing
NoArena == ArenaInit
NoDecoding ==
    /\ path = Unused /\ batch = Unused /\ frames = Unused /\ thr = Unused
    /\ thr_cell = Unused /\ pairs = Unused /\ sorted = Unused /\ s_thr = Unused
    /\ s_count = Unused /\ written = Unused /\ out = Unused /\ counts = Unused
NoContract ==
    /\ engine = Unused /\ doc = Unused /\ rewritten = Unused /\ meta = Unused
    /\ logits = Unused
NoFailpoints ==
    /\ name = Unused /\ remaining = Unused /\ g_armed = Unused /\ check = Unused
    /\ hits = Unused /\ fires = Unused /\ asked = Unused /\ total = Unused
NoHalf ==
    /\ word = Unused /\ exponent = Unused /\ mantissa = Unused /\ single = Unused
NoDetectors ==
    /\ native = Unused /\ handle = Unused /\ threshold = Unused /\ garbage = Unused
    /\ t_last_error = Unused /\ call = Unused /\ raised = Unused
NoLoader ==
    /\ disk = Unused /\ env = Unused /\ lib = Unused /\ next = Unused /\ found = Unused
    /\ steady = Unused /\ changes = Unused
NoBridge ==
    /\ g_c_log_callback = Unused /\ g_callback = Unused /\ holders = Unused
    /\ created = Unused /\ arg = Unused /\ fate = Unused /\ restoring = Unused
    /\ wanted = Unused /\ messages = Unused

\* Two inputs, two outputs, two values.
IoBegins ==
    /\ program = "io" /\ Init
    /\ NoArena /\ NoDecoding /\ NoContract /\ NoFailpoints /\ NoHalf /\ NoDetectors
    /\ NoLoader /\ NoBridge /\ phase = Unused /\ results = Unused /\ pc = Unused
IoSteps ==
    /\ program = "io" /\ Next
    /\ UNCHANGED <<program, ArenaOnly, DecodingOnly, ContractOnly, FailpointsOnly,
                   HalfOnly, DetectorsOnly, LoaderOnly, BridgeOnly, phase, results, pc>>

\* Slabs of none, one, four or five bytes, aligned to four.
ArenaBegins ==
    /\ program = "arena" /\ ArenaInit
    /\ NoIo /\ NoDecoding /\ NoContract /\ NoFailpoints /\ NoHalf /\ NoDetectors
    /\ NoLoader /\ NoBridge /\ calls = Unused /\ phase = Unused /\ results = Unused
    /\ pc = Unused
ArenaSteps ==
    /\ program = "arena" /\ ArenaNext
    /\ UNCHANGED <<program, IoOnly, DecodingOnly, ContractOnly, FailpointsOnly, HalfOnly,
                   DetectorsOnly, LoaderOnly, BridgeOnly, calls, phase, results, pc>>

DecodingBegins ==
    /\ \E v \in DOMAIN Decodings : program = v /\ Decoding(v)!Init
    /\ NoIo /\ NoArena /\ NoContract /\ NoFailpoints /\ NoHalf /\ NoDetectors /\ NoLoader
    /\ NoBridge /\ pc = Unused
DecodingSteps ==
    /\ \E v \in DOMAIN Decodings : program = v /\ Decoding(v)!Next
    /\ UNCHANGED <<program, IoOnly, ArenaOnly, ContractOnly, FailpointsOnly, HalfOnly,
                   DetectorsOnly, LoaderOnly, BridgeOnly, pc>>

ContractBegins ==
    /\ \E v \in DOMAIN Contracts : program = v /\ Contract(v)!Init
    /\ NoIo /\ NoArena /\ NoDecoding /\ NoFailpoints /\ NoHalf /\ NoDetectors /\ NoLoader
    /\ NoBridge /\ calls = Unused /\ results = Unused /\ pc = Unused
ContractSteps ==
    /\ \E v \in DOMAIN Contracts : program = v /\ Contract(v)!Next
    /\ UNCHANGED <<program, IoOnly, ArenaOnly, DecodingOnly, FailpointsOnly, HalfOnly,
                   DetectorsOnly, LoaderOnly, BridgeOnly, calls, results, pc>>

\* Three failpoints for two slots, two threads.
FailpointsBegins ==
    /\ program = "failpoints" /\ Failpoints!Init
    /\ NoIo /\ NoArena /\ NoDecoding /\ NoContract /\ NoHalf /\ NoDetectors /\ NoLoader
    /\ NoBridge /\ calls = Unused /\ phase = Unused /\ results = Unused /\ pc = Unused
FailpointsSteps ==
    /\ program = "failpoints" /\ Failpoints!Next
    /\ UNCHANGED <<program, IoOnly, ArenaOnly, DecodingOnly, ContractOnly, HalfOnly,
                   DetectorsOnly, LoaderOnly, BridgeOnly, calls, phase, results, pc>>

\* All 65536 words.
HalfBegins ==
    /\ program = "half" /\ Half!Init
    /\ NoIo /\ NoArena /\ NoDecoding /\ NoContract /\ NoFailpoints /\ NoDetectors
    /\ NoLoader /\ NoBridge /\ calls = Unused /\ phase = Unused /\ results = Unused
HalfSteps ==
    /\ program = "half" /\ Half!Next
    /\ UNCHANGED <<program, IoOnly, ArenaOnly, DecodingOnly, ContractOnly,
                   FailpointsOnly, DetectorsOnly, LoaderOnly, BridgeOnly, calls, phase,
                   results>>

DetectorsBegins ==
    /\ \E v \in DOMAIN Bindings : program = v /\ Detectors(v)!Init
    /\ NoIo /\ NoArena /\ NoDecoding /\ NoContract /\ NoFailpoints /\ NoHalf /\ NoLoader
    /\ NoBridge /\ phase = Unused
DetectorsSteps ==
    /\ \E v \in DOMAIN Bindings : program = v /\ Detectors(v)!Next
    /\ UNCHANGED <<program, IoOnly, ArenaOnly, DecodingOnly, ContractOnly,
                   FailpointsOnly, HalfOnly, LoaderOnly, BridgeOnly, phase>>

LoaderBegins ==
    /\ \E v \in DOMAIN Searches : program = v /\ Loader(v)!Init
    /\ NoIo /\ NoArena /\ NoDecoding /\ NoContract /\ NoFailpoints /\ NoHalf
    /\ NoDetectors /\ NoBridge /\ calls = Unused /\ phase = Unused /\ results = Unused
LoaderSteps ==
    /\ \E v \in DOMAIN Searches : program = v /\ Loader(v)!Next
    /\ UNCHANGED <<program, IoOnly, ArenaOnly, DecodingOnly, ContractOnly,
                   FailpointsOnly, HalfOnly, DetectorsOnly, BridgeOnly, calls, phase,
                   results>>

BridgeBegins ==
    /\ \E v \in DOMAIN Bridges : program = v /\ Bridge(v)!Init
    /\ NoIo /\ NoArena /\ NoDecoding /\ NoContract /\ NoFailpoints /\ NoHalf
    /\ NoDetectors /\ NoLoader /\ calls = Unused /\ phase = Unused /\ results = Unused
BridgeSteps ==
    /\ \E v \in DOMAIN Bridges : program = v /\ Bridge(v)!Next
    /\ UNCHANGED <<program, IoOnly, ArenaOnly, DecodingOnly, ContractOnly,
                   FailpointsOnly, HalfOnly, DetectorsOnly, LoaderOnly, calls, phase,
                   results>>

RuntimeInit ==
    \/ IoBegins \/ ArenaBegins \/ DecodingBegins \/ ContractBegins
    \/ FailpointsBegins \/ HalfBegins \/ DetectorsBegins \/ LoaderBegins \/ BridgeBegins
RuntimeNext ==
    \/ IoSteps \/ ArenaSteps \/ DecodingSteps \/ ContractSteps
    \/ FailpointsSteps \/ HalfSteps \/ DetectorsSteps \/ LoaderSteps \/ BridgeSteps
RuntimeVars == <<program, given, used, host_in, device_in, device_out, host_out, stream,
                 waiting, returned, calls, high_water, capacity, base, committed, locked,
                 policy, slabs, unbacked, mallocs, outcome, phase, path, batch, frames, thr,
                 thr_cell, pairs, sorted, s_thr, s_count, written, out, counts, results,
                 engine, doc, rewritten, meta, logits, name, remaining, g_armed, check, hits,
                 fires, asked, total, pc, word, exponent, mantissa, single, native, handle,
                 threshold, garbage, t_last_error, call, raised, disk, env, lib, next, found, steady,
                 changes, g_c_log_callback, g_callback, holders, created, arg, fate, restoring, wanted,
                 messages>>

RuntimeSpec == RuntimeInit /\ [][RuntimeNext]_RuntimeVars

-----------------------------------------------------------------------------
(* OutputOfItsInputs (SessionIo) and SlabsDisjoint (DeviceArena) are checked as they are. *)

\* On every path a call returns, for an image without NaN, what the Python reference may
\* return for the same outputs and threshold; no stronger candidate is left out, and NaN
\* is no detection (postprocess.cpp, decode_gpu.cu).
AgreesWithReference ==
    \A v \in DOMAIN Decodings : program = v =>
        /\ Decoding(v)!TypeOK /\ Decoding(v)!AgreesWithReference
        /\ Decoding(v)!NoStrongerLeftOut /\ Decoding(v)!NaNIsNoDetection
        /\ Decoding(v)!SurvivorsAreAPrefix

\* A detector is never built on a sidecar that describes another engine, and is never
\* refused one that fits, however few fields it has (detector.cpp).
ContractIsExact ==
    \A v \in DOMAIN Contracts : program = v =>
        /\ Contract(v)!TypeOK /\ Contract(v)!AcceptedDescribesEngine
        /\ Contract(v)!FittingSidecarLoads /\ Contract(v)!OutputsToldApart

\* Once the checks have returned, a point has fired exactly once if it was hit often enough
\* since it was armed, whatever threads hit it (failpoint.cpp).
FiresOnNthHit ==
    program = "failpoints" =>
        Failpoints!TypeOK /\ Failpoints!FiresOnNthHit /\ Failpoints!CountIsLive

\* Every FP16 word is unpacked to exactly its value, and what is not finite stays so
\* (get_output_f32).
ExactValue == program = "half" => Half!TypeOK /\ Half!ExactValue /\ Half!NonFiniteKept

\* Across closes, drops and collections in other threads every native detector has one
\* owner, and result memory is gone when its call is over, unless Ctrl-C interrupts
\* (detector.py).
OneOwner ==
    \A v \in DOMAIN Bindings : program = v =>
        /\ Detectors(v)!TypeOK
        /\ ~Bindings[v].interrupts => Detectors(v)!OneOwner /\ Detectors(v)!ResultsFreed

\* The text of a RuntimeError is that of the failed call of this very thread, and the
\* threshold is the one the caller meant, also between interrupts (detector.py).
ErrorIsOwn ==
    \A v \in DOMAIN Bindings : program = v =>
        Detectors(v)!ErrorIsOwn /\ Detectors(v)!ThresholdHonoured

\* A library that was there during the whole search is not passed over for a later
\* candidate, no thread passes v2 options to an older one, and while nothing is rebuilt the
\* library DFINE_LIBRARY names is the one that is loaded (_ffi.py).
NotPassedOver ==
    \A v \in DOMAIN Searches : program = v =>
        /\ Loader(v)!TypeOK /\ Loader(v)!NotPassedOver /\ Loader(v)!OptionsUnderstood
        /\ ~Searches[v].rebuilds => Loader(v)!NeverSubstituted

\* Native code runs only in trampolines Python still holds; when calls of set_log_callback
\* do not overlap, a message is lost to a return to the default only, and messages go where
\* the last call sent them (detector.py, c_api.cpp).
CalledIsAlive ==
    \A v \in DOMAIN Bridges : program = v =>
        /\ Bridge(v)!TypeOK /\ Bridge(v)!CalledIsAlive
        /\ Bridges[v].one_setter => Bridge(v)!LostOnlyOnRestore /\ Bridge(v)!SettledRoute

Symmetry == Permutations(Thread) \cup Permutations(Object)
=============================================================================
