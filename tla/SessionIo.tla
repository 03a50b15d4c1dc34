----------------------------- MODULE SessionIo -----------------------------
(* The contents that move through a TrtSession when its inputs are fed with
   set_input (dfine_smoke, test_shape_transitions): host memory, the pinned
   twin of a binding, device memory, and back.  Copies and the engine run in
   the order of one stream, at any time after they were queued and until a
   synchronize; an upload reads the pinned twin when it runs, not when it was
   queued, and set_input overwrites the twin without waiting.  TrtSession
   models shapes, addresses and failures of the same calls, without contents;
   here the shapes are fixed and the calls succeed.                         *)
EXTENDS Integers, Sequences

CONSTANTS
    Inputs,     \* input bindings
    Outputs,    \* output bindings
    Values,     \* contents a caller may pass
    Nothing,    \* memory nobody has written
    MaxCalls    \* bound on the API calls of one behaviour

VARIABLES
    given,          \* history: what the caller last passed for each input
    used,           \* history: `given` when infer was last called
    host_in,        \* pinned twins of the inputs
    device_in,
    device_out,     \* what the engine wrote: the inputs it ran on
    host_out,       \* pinned twins of the outputs
    stream,         \* queued work, oldest first
    waiting,        \* the call that has queued its work and not returned
    returned,       \* last get_output: [output, value], or Nothing
    calls

vars == <<given, used, host_in, device_in, device_out, host_out, stream,
          waiting, returned, calls>>

device == <<device_in, device_out, host_out>>
history == <<given, used>>

Upload(i) == [op |-> "upload", binding |-> i]
Infer == [op |-> "infer", binding |-> Nothing]
Download(o) == [op |-> "download", binding |-> o]

ASSUME IoAssumption ==
    /\ MaxCalls \in Nat
    /\ Nothing \notin Values
    /\ Nothing # Infer /\ \A o \in Outputs : Nothing # Download(o)

Enter == waiting = Nothing /\ calls < MaxCalls /\ calls' = calls + 1

\* memcpy into the pinned twin, then an asynchronous copy.
SetInput(i, v) ==
    /\ Enter
    /\ given' = [given EXCEPT ![i] = v]
    /\ host_in' = [host_in EXCEPT ![i] = v]
    /\ stream' = Append(stream, Upload(i))
    /\ UNCHANGED <<device, used, waiting, returned>>

CallInfer ==
    /\ Enter
    /\ \A i \in Inputs : given[i] # Nothing
    /\ used' = given
    /\ stream' = Append(stream, Infer)
    /\ waiting' = Infer
    /\ UNCHANGED <<device, given, host_in, returned>>

Queued(o) == Append(stream, Download(o))

CallGetOutput(o) ==
    /\ Enter
    /\ used # Nothing
    /\ stream' = Queued(o)
    /\ waiting' = Download(o)
    /\ UNCHANGED <<device, history, host_in, returned>>

\* The oldest queued work.
RunUpload ==
    /\ stream # <<>> /\ Head(stream).op = "upload"
    /\ device_in' = [device_in EXCEPT ![Head(stream).binding] = host_in[Head(stream).binding]]
    /\ stream' = Tail(stream)
    /\ UNCHANGED <<history, host_in, device_out, host_out, waiting, returned, calls>>

RunEngine ==
    /\ stream # <<>> /\ Head(stream).op = "infer"
    /\ device_out' = [o \in Outputs |-> device_in]
    /\ stream' = Tail(stream)
    /\ UNCHANGED <<history, host_in, device_in, host_out, waiting, returned, calls>>

RunDownload ==
    /\ stream # <<>> /\ Head(stream).op = "download"
    /\ host_out' = [host_out EXCEPT ![Head(stream).binding] = device_out[Head(stream).binding]]
    /\ stream' = Tail(stream)
    /\ UNCHANGED <<history, host_in, device_in, device_out, waiting, returned, calls>>

\* A bug that waits for the engine and not for the copies of its outputs.
WaitForEngine == waiting.op = "infer" => stream = <<>>

\* synchronize(...)
Synchronized == stream = <<>>

ReturnFromInfer ==
    /\ waiting = Infer
    /\ Synchronized
    /\ waiting' = Nothing
    /\ UNCHANGED <<device, history, host_in, stream, returned, calls>>

ReturnOutput(o) ==
    /\ waiting = Download(o)
    /\ Synchronized
    /\ returned' = [output |-> o, value |-> host_out[o]]
    /\ waiting' = Nothing
    /\ UNCHANGED <<device, history, host_in, stream, calls>>

Init ==
    /\ given = [i \in Inputs |-> Nothing] /\ used = Nothing
    /\ host_in = given /\ device_in = given
    /\ device_out = [o \in Outputs |-> Nothing]
    /\ host_out = device_out
    /\ stream = <<>>
    /\ waiting = Nothing /\ returned = Nothing
    /\ calls = 0

Next ==
    \/ \E i \in Inputs, v \in Values : SetInput(i, v)
    \/ CallInfer
    \/ \E o \in Outputs : CallGetOutput(o) \/ ReturnOutput(o)
    \/ RunUpload \/ RunEngine \/ RunDownload
    \/ ReturnFromInfer

Spec == Init /\ [][Next]_vars

---------------------------------------------------------------------------
(* Properties *)

\* At most one call waits, for work it put last into the stream.
TypeOK ==
    /\ DOMAIN given = Inputs /\ DOMAIN host_in = Inputs /\ DOMAIN device_in = Inputs
    /\ \A i \in Inputs : {given[i], host_in[i], device_in[i]} \subseteq Values \cup {Nothing}
    /\ waiting \in {Nothing, Infer} \cup {Download(o) : o \in Outputs}
    /\ calls \in 0 .. MaxCalls
    /\ waiting # Nothing /\ stream # <<>> => stream[Len(stream)] = waiting

\* An output handed to the caller was computed from exactly the inputs that
\* were in place when infer was called, and lies in the caller's memory only
\* after it was copied from the device: although set_input overwrites a pinned
\* twin that an upload may still have to read, infer has waited for every
\* upload before the caller can pass the next value.
OutputOfItsInputs ==
    [][\A o \in Outputs : ReturnOutput(o) => returned'.value = used]_vars

\* A pinned twin is never ahead of what an engine run still has to read.
NothingOvertaken ==
    \A k \in 1 .. Len(stream) : stream[k] = Infer =>
        \A j \in 1 .. k : stream[j].op = "upload" =>
            host_in[stream[j].binding] = used[stream[j].binding]

=============================================================================
