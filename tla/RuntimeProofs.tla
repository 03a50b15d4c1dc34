--------------------------- MODULE RuntimeProofs ---------------------------
(***************************************************************************)
(* Proofs about the parts of the runtime that stand beside the session:    *)
(* the stream an inference goes through (SessionIo), the arena its memory  *)
(* comes from (DeviceArena), the logging bridge (LogBridge), the handles   *)
(* and errors of the Python binding (PythonBinding), the search for the    *)
(* library (LibraryLoader), the failpoints of the tests (FaultInjection),  *)
(* the unpacking of a half word (HalfUnpack), what the bindings of an      *)
(* engine say of it (EngineContract) and the decoding of its outputs       *)
(* (BoxDecoding).  The stream and the arena are extended, the others are   *)
(* instances; no theorem is about two of them.                             *)
(***************************************************************************)
EXTENDS MCRuntime, FiniteSets, SequenceTheorems, FiniteSetTheorems, WellFoundedInduction, TLAPS

CONSTANT variant    \* the program a theorem is about

------------------------------
(* The suite: a behaviour that begins as a program stays one, and is a
   behaviour of that program's own specification. *)

LEMMA ProgramStays == RuntimeSpec /\ program = variant => [](program = variant)
<1>1. program = variant /\ [RuntimeNext]_RuntimeVars => (program = variant)'
  <2> SUFFICES ASSUME program = variant, [RuntimeNext]_RuntimeVars
               PROVE  program' = program
    OBVIOUS
  <2>1. CASE RuntimeNext
    BY <2>1 DEF RuntimeNext, IoSteps, ArenaSteps, DecodingSteps, ContractSteps,
                FailpointsSteps, HalfSteps, DetectorsSteps, LoaderSteps, BridgeSteps
  <2>2. CASE UNCHANGED RuntimeVars BY <2>2 DEF RuntimeVars
  <2> QED BY <2>1, <2>2
<1> QED BY <1>1, PTL DEF RuntimeSpec

LEMMA BridgeRuns ==
    variant \in DOMAIN Bridges => (RuntimeSpec /\ program = variant => Bridge(variant)!Spec)
<1> SUFFICES ASSUME variant \in DOMAIN Bridges
             PROVE  RuntimeSpec /\ program = variant => Bridge(variant)!Spec
  OBVIOUS
<1>1. RuntimeInit /\ program = variant => Bridge(variant)!Init
  <2> SUFFICES ASSUME RuntimeInit, program = variant
               PROVE  Bridge(variant)!Init
    OBVIOUS
  <2>1. BridgeBegins
    BY NamesAssumption
       DEF RuntimeInit, Singles, IoBegins, ArenaBegins, DecodingBegins,
           ContractBegins, FailpointsBegins, HalfBegins, DetectorsBegins, LoaderBegins
  <2> QED BY <2>1 DEF BridgeBegins
<1>2. program = variant /\ [RuntimeNext]_RuntimeVars
    => [Bridge(variant)!Next]_(Bridge(variant)!vars)
  <2> SUFFICES ASSUME program = variant, [RuntimeNext]_RuntimeVars
               PROVE  [Bridge(variant)!Next]_(Bridge(variant)!vars)
    OBVIOUS
  <2>1. CASE RuntimeNext
    <3>1. BridgeSteps
      BY <2>1, NamesAssumption
         DEF RuntimeNext, Singles, IoSteps, ArenaSteps, DecodingSteps,
             ContractSteps, FailpointsSteps, HalfSteps, DetectorsSteps, LoaderSteps
    <3> QED BY <3>1 DEF BridgeSteps
  <2>2. CASE UNCHANGED RuntimeVars BY <2>2 DEF RuntimeVars, Bridge!vars
  <2> QED BY <2>1, <2>2
<1> QED BY <1>1, <1>2, ProgramStays, PTL DEF RuntimeSpec, Bridge!Spec

LEMMA DetectorsRuns ==
    variant \in DOMAIN Bindings => (RuntimeSpec /\ program = variant => Detectors(variant)!Spec)
<1> SUFFICES ASSUME variant \in DOMAIN Bindings
             PROVE  RuntimeSpec /\ program = variant => Detectors(variant)!Spec
  OBVIOUS
<1>1. RuntimeInit /\ program = variant => Detectors(variant)!Init
  <2> SUFFICES ASSUME RuntimeInit, program = variant
               PROVE  Detectors(variant)!Init
    OBVIOUS
  <2>1. DetectorsBegins
    BY NamesAssumption
       DEF RuntimeInit, Singles, IoBegins, ArenaBegins, DecodingBegins,
           ContractBegins, FailpointsBegins, HalfBegins, LoaderBegins, BridgeBegins
  <2> QED BY <2>1 DEF DetectorsBegins
<1>2. program = variant /\ [RuntimeNext]_RuntimeVars
    => [Detectors(variant)!Next]_(Detectors(variant)!vars)
  <2> SUFFICES ASSUME program = variant, [RuntimeNext]_RuntimeVars
               PROVE  [Detectors(variant)!Next]_(Detectors(variant)!vars)
    OBVIOUS
  <2>1. CASE RuntimeNext
    <3>1. DetectorsSteps
      BY <2>1, NamesAssumption
         DEF RuntimeNext, Singles, IoSteps, ArenaSteps, DecodingSteps,
             ContractSteps, FailpointsSteps, HalfSteps, LoaderSteps, BridgeSteps
    <3> QED BY <3>1 DEF DetectorsSteps
  <2>2. CASE UNCHANGED RuntimeVars
    BY <2>2 DEF RuntimeVars, Detectors!vars
  <2> QED BY <2>1, <2>2
<1> QED BY <1>1, <1>2, ProgramStays, PTL DEF RuntimeSpec, Detectors!Spec

LEMMA LoaderRuns ==
    variant \in DOMAIN Searches => (RuntimeSpec /\ program = variant => Loader(variant)!Spec)
<1> SUFFICES ASSUME variant \in DOMAIN Searches
             PROVE  RuntimeSpec /\ program = variant => Loader(variant)!Spec
  OBVIOUS
<1>1. RuntimeInit /\ program = variant => Loader(variant)!Init
  <2> SUFFICES ASSUME RuntimeInit, program = variant
               PROVE  Loader(variant)!Init
    OBVIOUS
  <2>1. LoaderBegins
    BY NamesAssumption
       DEF RuntimeInit, Singles, IoBegins, ArenaBegins, DecodingBegins,
           ContractBegins, FailpointsBegins, HalfBegins, DetectorsBegins, BridgeBegins
  <2> QED BY <2>1 DEF LoaderBegins
<1>2. program = variant /\ [RuntimeNext]_RuntimeVars
    => [Loader(variant)!Next]_(Loader(variant)!vars)
  <2> SUFFICES ASSUME program = variant, [RuntimeNext]_RuntimeVars
               PROVE  [Loader(variant)!Next]_(Loader(variant)!vars)
    OBVIOUS
  <2>1. CASE RuntimeNext
    <3>1. LoaderSteps
      BY <2>1, NamesAssumption
         DEF RuntimeNext, Singles, IoSteps, ArenaSteps, DecodingSteps,
             ContractSteps, FailpointsSteps, HalfSteps, DetectorsSteps, BridgeSteps
    <3> QED BY <3>1 DEF LoaderSteps
  <2>2. CASE UNCHANGED RuntimeVars BY <2>2 DEF RuntimeVars, Loader!vars
  <2> QED BY <2>1, <2>2
<1> QED BY <1>1, <1>2, ProgramStays, PTL DEF RuntimeSpec, Loader!Spec

LEMMA FailpointsRuns ==
    variant = "failpoints" => (RuntimeSpec /\ program = variant => Failpoints!Spec)
<1> SUFFICES ASSUME variant = "failpoints"
             PROVE  RuntimeSpec /\ program = variant => Failpoints!Spec
  OBVIOUS
<1>1. RuntimeInit /\ program = variant => Failpoints!Init
  <2> SUFFICES ASSUME RuntimeInit, program = variant
               PROVE  Failpoints!Init
    OBVIOUS
  <2>1. FailpointsBegins
    BY NamesAssumption
       DEF RuntimeInit, Singles, IoBegins, ArenaBegins, DecodingBegins,
           ContractBegins, HalfBegins, DetectorsBegins, LoaderBegins, BridgeBegins
  <2> QED BY <2>1 DEF FailpointsBegins
<1>2. program = variant /\ [RuntimeNext]_RuntimeVars => [Failpoints!Next]_(Failpoints!vars)
  <2> SUFFICES ASSUME program = variant, [RuntimeNext]_RuntimeVars
               PROVE  [Failpoints!Next]_(Failpoints!vars)
    OBVIOUS
  <2>1. CASE RuntimeNext
    <3>1. FailpointsSteps
      BY <2>1, NamesAssumption
         DEF RuntimeNext, Singles, IoSteps, ArenaSteps, DecodingSteps,
             ContractSteps, HalfSteps, DetectorsSteps, LoaderSteps, BridgeSteps
    <3> QED BY <3>1 DEF FailpointsSteps
  <2>2. CASE UNCHANGED RuntimeVars
    BY <2>2 DEF RuntimeVars, Failpoints!vars
  <2> QED BY <2>1, <2>2
<1> QED BY <1>1, <1>2, ProgramStays, PTL DEF RuntimeSpec, Failpoints!Spec

LEMMA ContractRuns ==
    variant \in DOMAIN Contracts => (RuntimeSpec /\ program = variant => Contract(variant)!Spec)
<1> SUFFICES ASSUME variant \in DOMAIN Contracts
             PROVE  RuntimeSpec /\ program = variant => Contract(variant)!Spec
  OBVIOUS
<1>1. RuntimeInit /\ program = variant => Contract(variant)!Init
  <2> SUFFICES ASSUME RuntimeInit, program = variant
               PROVE  Contract(variant)!Init
    OBVIOUS
  <2>1. ContractBegins
    BY NamesAssumption
       DEF RuntimeInit, Singles, IoBegins, ArenaBegins, DecodingBegins,
           FailpointsBegins, HalfBegins, DetectorsBegins, LoaderBegins, BridgeBegins
  <2> QED BY <2>1 DEF ContractBegins
<1>2. program = variant /\ [RuntimeNext]_RuntimeVars
    => [Contract(variant)!Next]_(Contract(variant)!vars)
  <2> SUFFICES ASSUME program = variant, [RuntimeNext]_RuntimeVars
               PROVE  [Contract(variant)!Next]_(Contract(variant)!vars)
    OBVIOUS
  <2>1. CASE RuntimeNext
    <3>1. ContractSteps
      BY <2>1, NamesAssumption
         DEF RuntimeNext, Singles, IoSteps, ArenaSteps, DecodingSteps,
             FailpointsSteps, HalfSteps, DetectorsSteps, LoaderSteps, BridgeSteps
    <3> QED BY <3>1 DEF ContractSteps
  <2>2. CASE UNCHANGED RuntimeVars
    BY <2>2 DEF RuntimeVars, Contract!vars
  <2> QED BY <2>1, <2>2
<1> QED BY <1>1, <1>2, ProgramStays, PTL DEF RuntimeSpec, Contract!Spec

------------------------------
Contents == Values \cup {Nothing}
Work == {Upload(i) : i \in Inputs} \cup {Infer} \cup {Download(o) : o \in Outputs}

Shapes ==
    /\ given \in [Inputs -> Contents] /\ host_in = given
    /\ device_in \in [Inputs -> Contents]
    /\ DOMAIN host_out = Outputs
    /\ host_out = [o \in Outputs |-> host_out[o]]
    /\ stream \in Seq(Work)
    /\ waiting \in {Nothing, Infer} \cup {Download(o) : o \in Outputs}
    /\ calls \in 0 .. MaxCalls

\* Only uploads, then what the waiting call has queued.
Order ==
    /\ \A k \in 1 .. Len(stream) :
          stream[k].op = "upload" \/ (k = Len(stream) /\ stream[k] = waiting)
    /\ waiting # Nothing /\ Len(stream) > 0 => stream[Len(stream)] = waiting

\* What the caller passed is on the device or on its way.
Pending ==
    \A i \in Inputs :
        device_in[i] = given[i] \/ \E k \in 1 .. Len(stream) : stream[k] = Upload(i)

\* The last inference, once it has run, and the output copied last.
Results ==
    /\ waiting = Infer => used = given
    /\ waiting \notin {Nothing, Infer} => used # Nothing
    /\ used # Nothing /\ (waiting = Infer => Len(stream) = 0) =>
           \A o \in Outputs : device_out[o] = used
    /\ \A o \in Outputs : waiting = Download(o) /\ Len(stream) = 0 => host_out[o] = used

IInv == Shapes /\ Order /\ Pending /\ Results

------------------------------
(* The stream *)

LEMMA WorkKinds ==
    /\ \A w \in Work : w.op \in {"upload", "infer", "download"}
    /\ \A w \in Work : w.op = "upload" => w.binding \in Inputs /\ w = Upload(w.binding)
    /\ \A w \in Work : w.op = "infer" => w = Infer
    /\ \A w \in Work : w.op = "download" => w.binding \in Outputs /\ w = Download(w.binding)
    /\ \A i \in Inputs : Upload(i).op = "upload" /\ Upload(i).binding = i
    /\ Infer.op = "infer"
    /\ \A o \in Outputs : Download(o).op = "download" /\ Download(o).binding = o
    /\ Nothing # Infer /\ \A o \in Outputs : Nothing # Download(o)
  BY IoAssumption DEF Work, Upload, Infer, Download

LEMMA Appended ==
    ASSUME NEW s \in Seq(Work), NEW w \in Work
    PROVE  /\ Len(s) \in Nat
           /\ Append(s, w) \in Seq(Work)
           /\ Len(Append(s, w)) = Len(s) + 1
           /\ \A k \in 1 .. Len(s) : Append(s, w)[k] = s[k]
           /\ Append(s, w)[Len(s) + 1] = w
  OBVIOUS

LEMMA Oldest ==
    ASSUME NEW s \in Seq(Work), s # <<>>
    PROVE  /\ Len(s) \in Nat /\ Len(s) > 0
           /\ Head(s) = s[1] /\ s[1] \in Work
           /\ Tail(s) \in Seq(Work)
           /\ Len(Tail(s)) = Len(s) - 1
           /\ \A k \in 1 .. Len(s) - 1 : Tail(s)[k] = s[k + 1]
<1>1. Len(s) \in Nat /\ Len(s) > 0 OBVIOUS
<1>2. s[1] \in Work BY <1>1, ElementOfSeq
<1> QED BY <1>1, <1>2

LEMMA NoWork ==
    ASSUME NEW s \in Seq(Work), s = <<>> \/ Len(s) = 0
    PROVE  s = <<>> /\ Len(s) = 0
  BY EmptySeq

LEMMA InitIInv == Init => IInv
<1> SUFFICES ASSUME Init PROVE IInv
  OBVIOUS
<1>1. stream = <<>> /\ Len(stream) = 0 /\ stream \in Seq(Work)
  BY DEF Init
<1>2. Shapes BY <1>1, IoAssumption DEF Init, Shapes, Contents
<1>3. Order /\ Pending BY <1>1 DEF Init, Order, Pending
<1>4. Results BY <1>1, WorkKinds DEF Init, Results
<1> QED BY <1>2, <1>3, <1>4 DEF IInv

------------------------------
(* Calls *)

\* While no call waits only uploads are queued, and Order holds for one more.
LEMMA CallOrder ==
    ASSUME Shapes, Order, waiting = Nothing,
           NEW w \in Work, stream' = Append(stream, w),
           \/ w.op = "upload" /\ waiting' = Nothing
           \/ waiting' = w
    PROVE  Order'
<1>1. /\ Len(stream) \in Nat
      /\ Len(stream') = Len(stream) + 1
      /\ \A k \in 1 .. Len(stream) : stream'[k] = stream[k]
      /\ stream'[Len(stream) + 1] = w
  BY Appended DEF Shapes
<1>2. ASSUME NEW k \in 1 .. Len(stream)
      PROVE  stream[k].op = "upload"
  <2>1. stream[k] \in Work BY <1>1, <1>2, ElementOfSeq DEF Shapes
  <2> QED BY <1>2, <2>1, WorkKinds DEF Order
<1>3. ASSUME NEW k \in 1 .. Len(stream')
      PROVE  stream'[k].op = "upload" \/ (k = Len(stream') /\ stream'[k] = waiting')
  <2>1. CASE k \in 1 .. Len(stream) BY <1>1, <1>2, <2>1
  <2>2. CASE k = Len(stream) + 1 BY <1>1, <2>2
  <2> QED BY <1>1, <1>3, <2>1, <2>2
<1>4. waiting' # Nothing => stream'[Len(stream')] = waiting' BY <1>1
<1> QED BY <1>3, <1>4 DEF Order

LEMMA SetInputIInv ==
    ASSUME IInv, NEW i \in Inputs, NEW v \in Values, SetInput(i, v)
    PROVE  IInv'
<1>1. /\ waiting = Nothing /\ calls < MaxCalls /\ calls' = calls + 1
      /\ given' = [given EXCEPT ![i] = v] /\ host_in' = given'
      /\ stream' = Append(stream, Upload(i))
      /\ UNCHANGED <<device_in, device_out, host_out, used, waiting>>
  BY DEF SetInput, Enter, device, IInv, Shapes
<1>2. Upload(i) \in Work /\ Upload(i).op = "upload"
  BY WorkKinds DEF Work
<1>3. /\ Len(stream) \in Nat /\ stream' \in Seq(Work)
      /\ Len(stream') = Len(stream) + 1
      /\ \A k \in 1 .. Len(stream) : stream'[k] = stream[k]
      /\ stream'[Len(stream) + 1] = Upload(i)
  BY <1>1, <1>2, Appended DEF IInv, Shapes
<1>4. Shapes' BY <1>1, <1>3, IoAssumption DEF IInv, Shapes, Contents
<1>5. Order' BY <1>1, <1>2, CallOrder DEF IInv
<1>6. ASSUME NEW j \in Inputs
      PROVE  device_in'[j] = given'[j] \/ \E k \in 1 .. Len(stream') : stream'[k] = Upload(j)
  <2>1. CASE j = i BY <1>3, <2>1
  <2>2. CASE j # i /\ device_in[j] = given[j]
    BY <1>1, <2>2 DEF IInv, Shapes
  <2>3. CASE \E k \in 1 .. Len(stream) : stream[k] = Upload(j)
    BY <1>3, <2>3
  <2> QED BY <1>6, <2>1, <2>2, <2>3 DEF IInv, Pending
<1>7. Results' BY <1>1, <1>3, WorkKinds DEF IInv, Results
<1> QED BY <1>4, <1>5, <1>6, <1>7 DEF IInv, Pending

\* A call that queues w and then waits for it.
LEMMA QueuedPending ==
    ASSUME Shapes, Pending, NEW w \in Work, stream' = Append(stream, w),
           UNCHANGED <<device_in, given>>
    PROVE  Pending'
  BY Appended DEF Shapes, Pending

LEMMA CallInferIInv ==
    ASSUME IInv, CallInfer
    PROVE  IInv'
<1>1. /\ waiting = Nothing /\ calls < MaxCalls /\ calls' = calls + 1
      /\ used' = given /\ waiting' = Infer
      /\ stream' = Append(stream, Infer)
      /\ UNCHANGED <<device_in, device_out, host_out, given, host_in>>
  BY DEF CallInfer, Enter, device
<1>2. Infer \in Work BY DEF Work
<1>3. stream' \in Seq(Work) /\ Len(stream') = Len(stream) + 1 /\ Len(stream) \in Nat
  BY <1>1, <1>2, Appended DEF IInv, Shapes
<1>4. Shapes' BY <1>1, <1>3, IoAssumption DEF IInv, Shapes
<1>5. Order' BY <1>1, <1>2, CallOrder DEF IInv
<1>6. Pending' BY <1>1, <1>2, QueuedPending DEF IInv
<1>7. Results' BY <1>1, <1>3, WorkKinds DEF Results
<1> QED BY <1>4, <1>5, <1>6, <1>7 DEF IInv

LEMMA CallGetOutputIInv ==
    ASSUME IInv, NEW o \in Outputs, CallGetOutput(o)
    PROVE  IInv'
<1>1. /\ waiting = Nothing /\ calls < MaxCalls /\ calls' = calls + 1
      /\ used # Nothing /\ waiting' = Download(o)
      /\ stream' = Append(stream, Download(o))
      /\ UNCHANGED <<device_in, device_out, host_out, given, used, host_in>>
  BY DEF CallGetOutput, Queued, Enter, device, history
<1>2. Download(o) \in Work BY DEF Work
<1>3. stream' \in Seq(Work) /\ Len(stream') = Len(stream) + 1 /\ Len(stream) \in Nat
  BY <1>1, <1>2, Appended DEF IInv, Shapes
<1>4. Shapes' BY <1>1, <1>3, IoAssumption DEF IInv, Shapes
<1>5. Order' BY <1>1, <1>2, CallOrder DEF IInv
<1>6. Pending' BY <1>1, <1>2, QueuedPending DEF IInv
<1>7. Results' BY <1>1, <1>3, WorkKinds DEF IInv, Results
<1> QED BY <1>4, <1>5, <1>6, <1>7 DEF IInv

------------------------------
(* The stream runs *)

\* What is left of the stream keeps its order.
LEMMA TailOrder ==
    ASSUME Shapes, Order, stream # <<>>, stream' = Tail(stream), UNCHANGED waiting
    PROVE  Order'
<1>1. /\ Len(stream) \in Nat /\ Len(stream) > 0
      /\ Len(stream') = Len(stream) - 1
      /\ \A k \in 1 .. Len(stream) - 1 : stream'[k] = stream[k + 1]
  BY Oldest DEF Shapes
<1>2. ASSUME NEW k \in 1 .. Len(stream')
      PROVE  stream'[k].op = "upload" \/ (k = Len(stream') /\ stream'[k] = waiting')
  <2>1. k + 1 \in 1 .. Len(stream) /\ stream'[k] = stream[k + 1]
    BY <1>1, <1>2
  <2>2. stream[k + 1].op = "upload" \/ (k + 1 = Len(stream) /\ stream[k + 1] = waiting)
    BY <2>1 DEF Order
  <2>3. CASE stream[k + 1].op = "upload" BY <2>1, <2>3
  <2>4. CASE k + 1 = Len(stream) /\ stream[k + 1] = waiting
    <3>1. k \in Int /\ Len(stream) \in Int /\ Len(stream') = Len(stream) - 1
      BY <1>1, <1>2
    <3>2. k = Len(stream) - 1 BY <2>4, <3>1
    <3> QED BY <2>1, <2>4, <3>1, <3>2
  <2> QED BY <2>2, <2>3, <2>4
<1>3. ASSUME waiting # Nothing, Len(stream') > 0
      PROVE  stream'[Len(stream')] = waiting
  <2>1. stream'[Len(stream')] = stream[Len(stream)] BY <1>1, <1>3
  <2> QED BY <1>1, <1>3, <2>1 DEF Order
<1> QED BY <1>2, <1>3 DEF Order

LEMMA RunUploadIInv ==
    ASSUME IInv, RunUpload
    PROVE  IInv'
<1> DEFINE b == stream[1].binding
<1>1. /\ stream # <<>> /\ stream' = Tail(stream)
      /\ UNCHANGED <<given, used, host_in, device_out, host_out, waiting, calls>>
  BY DEF RunUpload, history
<1>2. /\ Len(stream) \in Nat /\ Len(stream) > 0
      /\ Head(stream) = stream[1] /\ stream[1] \in Work
      /\ stream' \in Seq(Work)
      /\ Len(stream') = Len(stream) - 1
      /\ \A k \in 1 .. Len(stream) - 1 : stream'[k] = stream[k + 1]
  BY <1>1, Oldest DEF IInv, Shapes
<1>3. stream[1].op = "upload" /\ device_in' = [device_in EXCEPT ![b] = host_in[b]]
  BY <1>2 DEF RunUpload
<1>4. b \in Inputs /\ stream[1] = Upload(b) BY <1>2, <1>3, WorkKinds
<1>5. Shapes' BY <1>1, <1>2, <1>3, <1>4 DEF IInv, Shapes
<1>6. Order' BY <1>1, TailOrder DEF IInv
<1>7. ASSUME NEW i \in Inputs
      PROVE  device_in'[i] = given'[i] \/ \E k \in 1 .. Len(stream') : stream'[k] = Upload(i)
  <2>1. CASE i = b BY <1>1, <1>3, <1>4, <2>1 DEF IInv, Shapes
  <2>2. CASE i # b /\ device_in[i] = given[i]
    BY <1>1, <1>3, <2>2 DEF IInv, Shapes
  <2>3. CASE i # b /\ \E k \in 1 .. Len(stream) : stream[k] = Upload(i)
    <3>1. PICK k \in 1 .. Len(stream) : stream[k] = Upload(i) BY <2>3
    <3>2. k # 1 BY <1>4, <1>7, <2>3, <3>1, WorkKinds
    <3>3. k - 1 \in 1 .. Len(stream') /\ stream'[k - 1] = Upload(i)
      BY <1>2, <3>1, <3>2
    <3> QED BY <3>3
  <2> QED BY <1>7, <2>1, <2>2, <2>3 DEF IInv, Pending
<1>8. waiting # Nothing => Len(stream') # 0
  <2>1. SUFFICES ASSUME waiting # Nothing, Len(stream') = 0 PROVE FALSE
    OBVIOUS
  <2>2. Len(stream) = 1 BY <1>2, <2>1
  <2>3. stream[1] = waiting BY <2>1, <2>2 DEF IInv, Order
  <2> QED BY <1>3, <2>1, <2>3, WorkKinds DEF IInv, Shapes
<1>9. Results' BY <1>1, <1>2, <1>8, WorkKinds DEF IInv, Results
<1> QED BY <1>5, <1>6, <1>7, <1>9 DEF IInv, Pending

\* The engine runs last, when every upload is done.
LEMMA RunEngineIInv ==
    ASSUME IInv, RunEngine
    PROVE  IInv'
<1>1. /\ stream # <<>> /\ stream' = Tail(stream)
      /\ device_out' = [o \in Outputs |-> device_in]
      /\ UNCHANGED <<given, used, host_in, device_in, host_out, waiting, calls>>
  BY DEF RunEngine, history
<1>2. /\ Len(stream) \in Nat /\ Len(stream) > 0
      /\ Head(stream) = stream[1] /\ stream[1] \in Work
      /\ stream' \in Seq(Work)
      /\ Len(stream') = Len(stream) - 1
  BY <1>1, Oldest DEF IInv, Shapes
<1>3. stream[1].op = "infer" /\ stream[1] = Infer
  BY <1>2, WorkKinds DEF RunEngine
<1>4. Len(stream) = 1 /\ waiting = Infer BY <1>2, <1>3 DEF IInv, Order
<1>5. ASSUME NEW i \in Inputs
      PROVE  device_in[i] = given[i]
  <2>1. \A k \in 1 .. Len(stream) : stream[k].op = "infer" BY <1>3, <1>4
  <2>2. \A k \in 1 .. Len(stream) : stream[k] # Upload(i)
    BY <1>5, <2>1, WorkKinds
  <2> QED BY <1>5, <2>2 DEF IInv, Pending
<1>6. device_in = given BY <1>5 DEF IInv, Shapes
<1>7. Shapes' BY <1>1, <1>2 DEF IInv, Shapes
<1>8. Order' BY <1>1, TailOrder DEF IInv
<1>9. Pending' BY <1>1, <1>5 DEF Pending
<1>10. Results' BY <1>1, <1>4, <1>6, WorkKinds DEF IInv, Results
<1> QED BY <1>7, <1>8, <1>9, <1>10 DEF IInv

LEMMA RunDownloadIInv ==
    ASSUME IInv, RunDownload
    PROVE  IInv'
<1> DEFINE b == stream[1].binding
<1>1. /\ stream # <<>> /\ stream' = Tail(stream)
      /\ UNCHANGED <<given, used, host_in, device_in, device_out, waiting, calls>>
  BY DEF RunDownload, history
<1>2. /\ Len(stream) \in Nat /\ Len(stream) > 0
      /\ Head(stream) = stream[1] /\ stream[1] \in Work
      /\ stream' \in Seq(Work)
      /\ Len(stream') = Len(stream) - 1
  BY <1>1, Oldest DEF IInv, Shapes
<1>3. stream[1].op = "download" /\ host_out' = [host_out EXCEPT ![b] = device_out[b]]
  BY <1>2 DEF RunDownload
<1>4. b \in Outputs /\ stream[1] = Download(b) BY <1>2, <1>3, WorkKinds
<1>5. Len(stream) = 1 /\ waiting = Download(b)
  BY <1>2, <1>3, <1>4 DEF IInv, Order
<1>6. used # Nothing /\ waiting # Infer
  BY <1>4, <1>5, WorkKinds DEF IInv, Results
<1>7. Shapes' BY <1>1, <1>2, <1>3, <1>4 DEF IInv, Shapes
<1>8. Order' BY <1>1, TailOrder DEF IInv
<1>9. Pending'
  <2>1. \A k \in 1 .. Len(stream) : stream[k].op = "download"
    BY <1>3, <1>5
  <2>2. \A i \in Inputs : device_in[i] = given[i]
    BY <2>1, WorkKinds, ZenonT(60) DEF IInv, Pending
  <2> QED BY <1>1, <2>2 DEF Pending
<1>10. \A o \in Outputs : device_out[o] = used BY <1>6 DEF IInv, Results
<1>11. host_out'[b] = used BY <1>3, <1>4, <1>10 DEF IInv, Shapes
<1>12. \A o \in Outputs : waiting = Download(o) => o = b
  BY <1>4, <1>5, WorkKinds
<1>13. Results'
  BY <1>1, <1>6, <1>10, <1>11, <1>12, WorkKinds DEF IInv, Results
<1> QED BY <1>7, <1>8, <1>9, <1>13 DEF IInv

------------------------------
(* Returns *)

LEMMA ReturnIInv ==
    ASSUME IInv, ReturnFromInfer \/ \E o \in Outputs : ReturnOutput(o)
    PROVE  IInv'
<1>1. /\ waiting # Nothing => Len(stream) = 0
      /\ stream = <<>> /\ Len(stream) = 0 /\ waiting' = Nothing
      /\ UNCHANGED <<given, used, host_in, device_in, device_out, host_out, stream, calls>>
  BY NoWork DEF ReturnFromInfer, ReturnOutput, Synchronized, device, history, IInv, Shapes
<1>2. Shapes' /\ Order' /\ Pending'
  BY <1>1 DEF IInv, Shapes, Order, Pending
<1>3. Results' BY <1>1, WorkKinds DEF IInv, Results
<1> QED BY <1>2, <1>3 DEF IInv

LEMMA StutterIInv == IInv /\ UNCHANGED vars => IInv'
  BY DEF vars, IInv, Shapes, Order, Pending, Results

------------------------------
(* Theorems *)

\* The invariant is inductive.
THEOREM IoInvariant == Spec => []IInv
<1>1. IInv /\ [Next]_vars => IInv'
  BY SetInputIInv, CallInferIInv, CallGetOutputIInv, RunUploadIInv, RunEngineIInv,
     RunDownloadIInv, ReturnIInv, StutterIInv DEF Next
<1> QED BY InitIInv, <1>1, PTL DEF Spec

\* Contents and calls keep their types; at most one call waits, for the last work.
THEOREM IoTypes == Spec => []TypeOK
<1>1. IInv => TypeOK
  <2>1. SUFFICES ASSUME IInv PROVE TypeOK OBVIOUS
  <2>2. ASSUME waiting # Nothing, stream # <<>>
        PROVE  stream[Len(stream)] = waiting
    <3>1. Len(stream) > 0 BY <2>1, <2>2, Oldest DEF IInv, Shapes
    <3> QED BY <2>1, <2>2, <3>1 DEF IInv, Order
  <2> QED BY <2>1, <2>2 DEF IInv, Shapes, Contents, TypeOK
<1> QED BY IoInvariant, <1>1, PTL

\* set_input never overwrites a pinned twin that an engine run still depends on.
THEOREM IoNothingOvertaken == Spec => []NothingOvertaken
<1>1. IInv => NothingOvertaken
  BY WorkKinds DEF IInv, Shapes, Order, Results, NothingOvertaken
<1> QED BY IoInvariant, <1>1, PTL

\* get_output returns what the engine computed from the inputs at the last infer.
THEOREM IoOutputOfItsInputs == Spec => OutputOfItsInputs
<1>1. IInv /\ [Next]_vars =>
          [\A o \in Outputs : ReturnOutput(o) => returned'.value = used]_vars
  <2> SUFFICES ASSUME IInv, NEW o \in Outputs, ReturnOutput(o)
               PROVE  returned'.value = used
    OBVIOUS
  <2>1. waiting = Download(o) /\ Len(stream) = 0
    BY NoWork DEF ReturnOutput, Synchronized, IInv, Shapes
  <2>2. returned'.value = host_out[o] BY DEF ReturnOutput
  <2> QED BY <2>1, <2>2 DEF IInv, Results
<1> QED BY IoInvariant, <1>1, PTL DEF Spec, OutputOfItsInputs

------------------------------
(* Rounding up *)

\* What \div and % are.
LEMMA Division ==
    ASSUME NEW a \in Nat \ {0}, NEW x \in Nat
    PROVE  /\ (x \div a) \in Nat
           /\ (x % a) \in Nat
           /\ (x % a) < a
           /\ x = a * (x \div a) + (x % a)
  BY SMT

\* A multiple leaves no rest.
LEMMA Multiple ==
    ASSUME NEW a \in Nat \ {0}, NEW q \in Nat
    PROVE  q * a \in Nat /\ (q * a) % a = 0
  BY SMT

\* align_up returns an aligned offset that is not below what it was given.
LEMMA AlignUpRounds ==
    ASSUME NEW x \in Nat
    PROVE  /\ AlignUp(x) \in Nat
           /\ AlignUp(x) >= x
           /\ AlignUp(x) % Align = 0
<1> DEFINE y == x + Align - 1
<1>1. Align \in Nat \ {0} BY ArenaAssumption
<1>2. y \in Nat BY <1>1, SMT
<1>3. /\ (y \div Align) \in Nat /\ (y % Align) \in Nat /\ (y % Align) < Align
      /\ y = Align * (y \div Align) + (y % Align)
  BY <1>1, <1>2, Division
<1>4. PICK q \in Nat : q = y \div Align BY <1>3
<1>5. PICK r \in Nat : r = y % Align BY <1>3
<1>6. q * Align \in Nat /\ (q * Align) % Align = 0
  BY <1>1, <1>4, Multiple
<1>7. q * Align = Align * q BY <1>1, <1>4, SMT
<1>8. PICK p \in Nat : p = q * Align BY <1>6
<1>9. r < Align /\ y = p + r BY <1>3, <1>4, <1>5, <1>7, <1>8
<1>10. p >= x BY <1>1, <1>5, <1>8, <1>9, SMT
<1>11. AlignUp(x) = p BY <1>4, <1>8 DEF AlignUp
<1> QED BY <1>6, <1>8, <1>10, <1>11

------------------------------
(* The inductive invariant *)

Slabs == slabs \in Seq([offset : Nat, bytes : Nat \ {0}])

\* Every slab ends at or before high_water.
Below == \A k \in 1 .. Len(slabs) : slabs[k].offset + slabs[k].bytes <= high_water

\* The one allocation has the size of all reservations, and none follows it.
Allocated ==
    /\ committed => capacity = high_water
    /\ base # NoBlock => committed

\* Offsets without backing exist only once reservations have stopped.
Behind ==
    /\ unbacked # {} => locked
    /\ \A u \in unbacked : u \in Nat /\ high_water <= u

ArenaInv == ArenaTypeOK /\ Slabs /\ SlabsDisjoint /\ Below /\ Allocated /\ Behind

LEMMA ArenaInitInv == ArenaInit => ArenaInv
<1> SUFFICES ASSUME ArenaInit PROVE ArenaInv
  OBVIOUS
<1>1. slabs = <<>> /\ Len(slabs) = 0 BY DEF ArenaInit
<1>2. Slabs /\ SlabsDisjoint /\ Below
  BY <1>1 DEF Slabs, SlabsDisjoint, Below
<1>3. ArenaTypeOK
  <2>1. \A k \in 1 .. Len(slabs) : slabs[k].offset % Align = 0 /\ slabs[k].bytes > 0
    BY <1>1
  <2>2. /\ high_water = 0 /\ capacity = 0 /\ base = NoBlock /\ mallocs = 0
        /\ committed = FALSE /\ locked = FALSE /\ policy = "throw"
        /\ outcome = "ok"
    BY DEF ArenaInit
  <2> QED BY <2>1, <2>2 DEF ArenaTypeOK
<1>4. Allocated /\ Behind BY DEF ArenaInit, Allocated, Behind
<1> QED BY <1>2, <1>3, <1>4 DEF ArenaInv

\* A reservation goes behind all earlier ones.
LEMMA SubIInv ==
    ASSUME ArenaInv, NEW n \in Sizes, Sub(n)
    PROVE  ArenaInv'
<1> DEFINE off == AlignUp(high_water)
           slab == [offset |-> off, bytes |-> Bytes(n)]
<1>1. n \in Nat BY ArenaAssumption
<1>2. Bytes(n) \in Nat \ {0} BY <1>1 DEF Bytes
<1>3. high_water \in Nat BY DEF ArenaInv, ArenaTypeOK
<1>4. off \in Nat /\ off >= high_water /\ off % Align = 0
  BY <1>3, AlignUpRounds
<1> HIDE DEF off
<1>5. /\ high_water' = off + Bytes(n)
      /\ slabs' = Append(slabs, slab)
      /\ ~locked /\ ~committed
      /\ UNCHANGED <<capacity, base, committed, mallocs, locked, policy, unbacked>>
      /\ outcome' = "ok"
  BY DEF Sub, block, freeze, off
<1>6. slabs \in Seq([offset : Nat, bytes : Nat \ {0}])
  BY DEF ArenaInv, Slabs
<1>7. slab \in [offset : Nat, bytes : Nat \ {0}] BY <1>2, <1>4
<1>8. /\ slabs' \in Seq([offset : Nat, bytes : Nat \ {0}])
      /\ Len(slabs') = Len(slabs) + 1
      /\ \A k \in 1 .. Len(slabs) : slabs'[k] = slabs[k]
      /\ slabs'[Len(slabs) + 1] = slab
  BY <1>5, <1>6, <1>7
<1>9. Len(slabs) \in Nat BY <1>6
<1>10. high_water' \in Nat /\ high_water <= off /\ off + Bytes(n) <= high_water'
  BY <1>2, <1>3, <1>4, <1>5
<1>11. \A k \in 1 .. Len(slabs) :
          slabs[k].offset \in Nat /\ slabs[k].bytes \in Nat
  <2>1. ASSUME NEW k \in 1 .. Len(slabs)
        PROVE  slabs[k] \in [offset : Nat, bytes : Nat \ {0}]
    BY <1>6, ElementOfSeq
  <2> QED BY <2>1
<1>12. ArenaTypeOK'
  <2>1. ASSUME NEW k \in 1 .. Len(slabs')
        PROVE  slabs'[k].offset % Align = 0 /\ slabs'[k].bytes > 0
    <3>1. CASE k \in 1 .. Len(slabs)
      BY <1>8, <3>1 DEF ArenaInv, ArenaTypeOK
    <3>2. CASE k = Len(slabs) + 1 BY <1>2, <1>4, <1>8, <3>2
    <3> QED BY <1>8, <1>9, <3>1, <3>2
  <2> QED BY <1>5, <1>10, <2>1 DEF ArenaInv, ArenaTypeOK
<1>13. SlabsDisjoint'
  <2>1. ASSUME NEW j \in 1 .. Len(slabs'), NEW k \in 1 .. Len(slabs'), j < k
        PROVE  slabs'[j].offset + slabs'[j].bytes <= slabs'[k].offset
    <3>1. j \in 1 .. Len(slabs) /\ slabs'[j] = slabs[j]
      BY <1>8, <1>9, <2>1, SMTT(60)
    <3>2. CASE k \in 1 .. Len(slabs)
      BY <1>8, <2>1, <3>1, <3>2 DEF ArenaInv, SlabsDisjoint
    <3>3. CASE k = Len(slabs) + 1
      <4>1. slabs[j].offset + slabs[j].bytes <= high_water
        BY <3>1 DEF ArenaInv, Below
      <4>2. slabs'[k].offset = off BY <1>8, <3>3
      <4>3. slabs[j].offset \in Nat /\ slabs[j].bytes \in Nat
        BY <1>11, <3>1
      <4>4. slabs[j].offset + slabs[j].bytes <= off
        BY <1>3, <1>4, <4>1, <4>3, SMTT(60)
      <4>5. slabs'[j].offset = slabs[j].offset /\ slabs'[j].bytes = slabs[j].bytes
        BY <3>1
      <4> QED BY <4>2, <4>4, <4>5
    <3> QED BY <1>8, <1>9, <3>2, <3>3
  <2> QED BY <2>1 DEF SlabsDisjoint
<1>14. Below'
  <2>1. ASSUME NEW k \in 1 .. Len(slabs')
        PROVE  slabs'[k].offset + slabs'[k].bytes <= high_water'
    <3>1. CASE k \in 1 .. Len(slabs)
      <4>1. slabs[k].offset + slabs[k].bytes <= high_water
        BY <3>1 DEF ArenaInv, Below
      <4>2. high_water <= high_water' BY <1>2, <1>3, <1>4, <1>10
      <4>3. slabs'[k].offset = slabs[k].offset /\ slabs'[k].bytes = slabs[k].bytes
        BY <1>8, <3>1
      <4>4. slabs[k].offset \in Nat /\ slabs[k].bytes \in Nat
        BY <1>11, <3>1
      <4>5. slabs[k].offset + slabs[k].bytes <= high_water'
        BY <1>3, <1>10, <4>1, <4>2, <4>4
      <4> QED BY <4>3, <4>5
    <3>2. CASE k = Len(slabs) + 1 BY <1>8, <1>10, <3>2
    <3> QED BY <1>8, <1>9, <3>1, <3>2
  <2> QED BY <2>1 DEF Below
<1>15. Allocated' /\ Behind' BY <1>5 DEF ArenaInv, Allocated, Behind
<1> QED BY <1>8, <1>12, <1>13, <1>14, <1>15 DEF ArenaInv, Slabs

\* Every other call leaves the reservations alone.
LEMMA OtherIInv ==
    ASSUME ArenaInv,
           \/ SubRefused \/ SubUnbacked \/ CommitAgain
           \/ \E succeeds \in BOOLEAN : Commit(succeeds)
           \/ \E p \in {"throw", "warn"} : Lock(p)
           \/ UNCHANGED arena_vars
    PROVE  ArenaInv'
<1>1. high_water \in Nat BY DEF ArenaInv, ArenaTypeOK
<1>2. AlignUp(high_water) \in Nat /\ AlignUp(high_water) >= high_water
  BY <1>1, AlignUpRounds
<1>3. high_water' = high_water /\ slabs' = slabs
  BY DEF SubRefused, SubUnbacked, CommitAgain, Commit, Lock, arena_vars
<1>4. Slabs' /\ SlabsDisjoint' /\ Below'
  BY <1>3 DEF ArenaInv, Slabs, SlabsDisjoint, Below
<1>5. CASE SubRefused
  BY <1>3, <1>4, <1>5 DEF SubRefused, ArenaInv, ArenaTypeOK, Allocated, Behind, block, freeze
<1>6. CASE SubUnbacked
  BY <1>1, <1>2, <1>3, <1>4, <1>6
    DEF SubUnbacked, ArenaInv, ArenaTypeOK, Allocated, Behind, block, freeze
<1>7. CASE CommitAgain
  BY <1>3, <1>4, <1>7 DEF CommitAgain, ArenaInv, ArenaTypeOK, Allocated, Behind, freeze
<1>8. CASE \E succeeds \in BOOLEAN : Commit(succeeds)
  BY <1>1, <1>3, <1>4, <1>8
    DEF Commit, Allocates, BlockSize, ArenaInv, ArenaTypeOK, Allocated, Behind, freeze
<1>9. CASE \E p \in {"throw", "warn"} : Lock(p)
  BY <1>3, <1>4, <1>9 DEF Lock, ArenaInv, ArenaTypeOK, Allocated, Behind, block
<1>10. CASE UNCHANGED arena_vars
  BY <1>3, <1>4, <1>10 DEF arena_vars, ArenaInv, ArenaTypeOK, Allocated, Behind
<1> QED BY <1>5, <1>6, <1>7, <1>8, <1>9, <1>10

\* The invariant is inductive.
THEOREM ArenaInvariant == ArenaSpec => []ArenaInv
<1>1. ArenaInv /\ [ArenaNext]_arena_vars => ArenaInv'
  BY SubIInv, OtherIInv DEF ArenaNext
<1> QED BY ArenaInitInv, <1>1, PTL DEF ArenaSpec

\* The types of the arena, with every slab aligned and not empty.
THEOREM ArenaTypes == ArenaSpec => []ArenaTypeOK
<1>1. ArenaInv => ArenaTypeOK BY DEF ArenaInv
<1> QED BY ArenaInvariant, <1>1, PTL

\* Slabs never share a byte, for every alignment and however many there are.
THEOREM ArenaDisjoint == ArenaSpec => []SlabsDisjoint
<1>1. ArenaInv => SlabsDisjoint BY DEF ArenaInv
<1> QED BY ArenaInvariant, <1>1, PTL

\* Slabs lie in the allocated block, unbacked offsets behind it.
THEOREM ArenaBacked == ArenaSpec => []SlabsBacked
<1>1. ArenaInv => SlabsBacked
  BY DEF ArenaInv, ArenaTypeOK, Below, Allocated, Behind, SlabsBacked
<1> QED BY ArenaInvariant, <1>1, PTL

\* Once there is a block, no call moves or resizes it or adds a slab.
THEOREM ArenaStable == ArenaSpec => StableAddresses
<1>1. ArenaInv /\ [ArenaNext]_arena_vars
    => [base # NoBlock => UNCHANGED <<base, capacity, slabs>>]_arena_vars
  <2> SUFFICES ASSUME ArenaInv, ArenaNext, base # NoBlock
               PROVE  UNCHANGED <<base, capacity, slabs>>
    OBVIOUS
  <2>1. committed BY DEF ArenaInv, Allocated
  <2> QED
    BY <2>1 DEF ArenaNext, Sub, SubRefused, SubUnbacked, Commit, Allocates, CommitAgain, Lock, block
<1> QED BY ArenaInvariant, <1>1, PTL DEF ArenaSpec, StableAddresses

------------------------------
(* LogBridge *)

\* A thread is where its kind can be, and whatever it is about to install or to
\* call is held: the code never frees a trampoline, so no store can undo this.
BridgeInv ==
    /\ Bridge(variant)!TypeOK
    /\ \A s \in Thread : pc[s] \in {"idle", "first", "second"}
    /\ \A l \in Native : pc[l] \in {"idle", "gated", "adapter", "calling"}
    /\ g_c_log_callback \in holders \cup {Nothing}
    /\ \A s \in Thread : pc[s] # "idle" => arg[s] \in holders \cup {Nothing}
    /\ \A l \in Native : pc[l] = "calling" => arg[l] \in holders

\* While setters do not overlap, the two atomics are what the last finished
\* call left, but for the store that the running call has done; and a logger
\* that may still find the target gone has overlapped a return to the default.
OneSetterInv ==
    /\ \A s, r \in Bridge(variant)!Setting : s = r
    /\ g_callback = Bridge(variant)!Route(wanted)
    /\ (\A s \in Thread : pc[s] # "second") => g_c_log_callback = wanted
    /\ \A s \in Thread : pc[s] = "second" => g_c_log_callback = arg[s]
    /\ Bridge(variant)!Restoring # {} => Bridge(variant)!Logging \subseteq restoring
    /\ \A l \in Native : pc[l] = "adapter" => g_c_log_callback # Nothing \/ l \in restoring
    /\ \A l \in Native : fate[l] = "lost" => l \in restoring

LEMMA BridgeInitInv ==
    ASSUME Bridge(variant)!BridgeAssumption, Bridge(variant)!Init
    PROVE  BridgeInv
  BY DEF Bridge!BridgeAssumption, Bridge!Init, BridgeInv, Bridge!TypeOK, Bridge!Target,
         Bridge!AnyThread

LEMMA BridgeSetterInv ==
    ASSUME Bridge(variant)!BridgeAssumption, BridgeInv, NEW s \in Thread,
           Bridge(variant)!SetterStep(s)
    PROVE  BridgeInv'
<1> USE DEF BridgeInv, Bridge!TypeOK, Bridge!Target, Bridge!AnyThread, Bridge!Goto,
            Bridge!BridgeAssumption, Bridge!routes
<1>1. CASE Bridge(variant)!Install(s)
  BY <1>1 DEF Bridge!Install, Bridge!Kept
<1>2. CASE Bridge(variant)!Restore(s)
  BY <1>2 DEF Bridge!Restore, Bridge!Logging
<1>3. CASE Bridge(variant)!FirstStore(s)
  BY <1>3 DEF Bridge!FirstStore, Bridge!Put, Bridge!StoreOrder, Bridge!Route
<1>4. CASE Bridge(variant)!SecondStore(s)
  BY <1>4 DEF Bridge!SecondStore, Bridge!Put, Bridge!StoreOrder, Bridge!Route
<1> QED BY <1>1, <1>2, <1>3, <1>4 DEF Bridge!SetterStep

LEMMA BridgeLoggerInv ==
    ASSUME Bridge(variant)!BridgeAssumption, BridgeInv, NEW l \in Native,
           Bridge(variant)!LoggerStep(l)
    PROVE  BridgeInv'
<1> USE DEF BridgeInv, Bridge!TypeOK, Bridge!Target, Bridge!AnyThread, Bridge!Goto,
            Bridge!BridgeAssumption, Bridge!routes
<1>1. CASE Bridge(variant)!Log(l) BY <1>1 DEF Bridge!Log
<1>2. CASE Bridge(variant)!LoadRoute(l) BY <1>2 DEF Bridge!LoadRoute
<1>3. CASE Bridge(variant)!LoadTarget(l) BY <1>3 DEF Bridge!LoadTarget
<1>4. CASE Bridge(variant)!CallReturns(l) BY <1>4 DEF Bridge!CallReturns
<1> QED BY <1>1, <1>2, <1>3, <1>4 DEF Bridge!LoggerStep

LEMMA BridgeNextInv ==
    ASSUME Bridge(variant)!BridgeAssumption, BridgeInv,
           [Bridge(variant)!Next]_(Bridge(variant)!vars)
    PROVE  BridgeInv'
<1>1. CASE Bridge(variant)!Next
  BY <1>1, BridgeSetterInv, BridgeLoggerInv DEF Bridge!Next
<1>2. CASE UNCHANGED Bridge(variant)!vars
  BY <1>2 DEF Bridge!vars, BridgeInv, Bridge!TypeOK
<1> QED BY <1>1, <1>2

LEMMA BridgeKept == Bridge(variant)!BridgeAssumption => (Bridge(variant)!Spec => []BridgeInv)
<1> SUFFICES ASSUME Bridge(variant)!BridgeAssumption
             PROVE  Bridge(variant)!Spec => []BridgeInv
  OBVIOUS
<1>1. Bridge(variant)!Init => BridgeInv BY BridgeInitInv
<1>2. BridgeInv /\ [Bridge(variant)!Next]_(Bridge(variant)!vars) => BridgeInv'
  BY BridgeNextInv
<1> QED BY <1>1, <1>2, PTL DEF Bridge!Spec

LEMMA OneSetterInitInv ==
    ASSUME Bridge(variant)!BridgeAssumption, Bridge(variant)!Init
    PROVE  OneSetterInv
  BY DEF Bridge!BridgeAssumption, Bridge!Init, OneSetterInv, Bridge!AnyThread, Bridge!Setting,
         Bridge!Restoring, Bridge!Route

LEMMA OneSetterSetterInv ==
    ASSUME Bridge(variant)!BridgeAssumption, Bridges[variant].one_setter, BridgeInv, OneSetterInv,
           NEW s \in Thread, Bridge(variant)!SetterStep(s)
    PROVE  OneSetterInv'
<1> USE DEF BridgeInv, OneSetterInv, Bridge!TypeOK, Bridge!Target, Bridge!AnyThread, Bridge!Goto,
            Bridge!BridgeAssumption, Bridge!routes, Bridge!Setting, Bridge!Restoring, Bridge!Logging
<1>1. CASE Bridge(variant)!Install(s)
  BY <1>1 DEF Bridge!Install, Bridge!Kept
<1>2. CASE Bridge(variant)!Restore(s) BY <1>2 DEF Bridge!Restore
<1>3. CASE Bridge(variant)!FirstStore(s)
  BY <1>3 DEF Bridge!FirstStore, Bridge!Put, Bridge!StoreOrder, Bridge!Route
<1>4. CASE Bridge(variant)!SecondStore(s)
  BY <1>4 DEF Bridge!SecondStore, Bridge!Put, Bridge!StoreOrder, Bridge!Route
<1> QED BY <1>1, <1>2, <1>3, <1>4 DEF Bridge!SetterStep

LEMMA OneSetterLoggerInv ==
    ASSUME Bridge(variant)!BridgeAssumption, Bridges[variant].one_setter, BridgeInv, OneSetterInv,
           NEW l \in Native, Bridge(variant)!LoggerStep(l)
    PROVE  OneSetterInv'
<1> USE DEF BridgeInv, OneSetterInv, Bridge!TypeOK, Bridge!Target, Bridge!AnyThread, Bridge!Goto,
            Bridge!BridgeAssumption, Bridge!routes, Bridge!Setting, Bridge!Restoring, Bridge!Logging
<1>1. CASE Bridge(variant)!Log(l) BY <1>1 DEF Bridge!Log
<1>2. CASE Bridge(variant)!LoadRoute(l)
  BY <1>2 DEF Bridge!LoadRoute, Bridge!Route
<1>3. CASE Bridge(variant)!LoadTarget(l) BY <1>3 DEF Bridge!LoadTarget
<1>4. CASE Bridge(variant)!CallReturns(l) BY <1>4 DEF Bridge!CallReturns
<1> QED BY <1>1, <1>2, <1>3, <1>4 DEF Bridge!LoggerStep

LEMMA OneSetterKept ==
    Bridge(variant)!BridgeAssumption /\ Bridges[variant].one_setter
      => (Bridge(variant)!Spec => [](BridgeInv /\ OneSetterInv))
<1> SUFFICES ASSUME Bridge(variant)!BridgeAssumption, Bridges[variant].one_setter
             PROVE  Bridge(variant)!Spec => [](BridgeInv /\ OneSetterInv)
  OBVIOUS
<1>1. Bridge(variant)!Init => BridgeInv /\ OneSetterInv
  BY BridgeInitInv, OneSetterInitInv
<1>2. BridgeInv /\ OneSetterInv /\ [Bridge(variant)!Next]_(Bridge(variant)!vars) => OneSetterInv'
  <2> SUFFICES ASSUME BridgeInv, OneSetterInv, [Bridge(variant)!Next]_(Bridge(variant)!vars)
               PROVE  OneSetterInv'
    OBVIOUS
  <2>1. CASE Bridge(variant)!Next
    BY <2>1, OneSetterSetterInv, OneSetterLoggerInv DEF Bridge!Next
  <2>2. CASE UNCHANGED Bridge(variant)!vars
    BY <2>2 DEF Bridge!vars, OneSetterInv, Bridge!Setting, Bridge!Restoring, Bridge!Logging
  <2> QED BY <2>1, <2>2
<1>3. BridgeInv /\ [Bridge(variant)!Next]_(Bridge(variant)!vars) => BridgeInv'
  BY BridgeNextInv
<1> QED BY <1>1, <1>2, <1>3, PTL DEF Bridge!Spec

\* Native code runs only in trampolines Python still holds, whatever threads set
\* and log.  While calls of set_log_callback do not overlap, messages are lost only
\* where a return to the default runs at the same time, and between such calls
\* the two atomics agree.
THEOREM CallsHeldTrampolines == RuntimeSpec /\ program = variant => []CalledIsAlive
<1>1. CASE variant \in DOMAIN Bridges
  <2>1. Bridge(variant)!BridgeAssumption BY <1>1, PartsAssumption
  <2>2. BridgeInv /\ program = variant
        /\ (Bridges[variant].one_setter => OneSetterInv) => CalledIsAlive
    BY DEF CalledIsAlive, BridgeInv, OneSetterInv, Bridge!CalledIsAlive, Bridge!LostOnlyOnRestore,
           Bridge!SettledRoute, Bridge!Setting, Bridge!Route
  <2>3. CASE Bridges[variant].one_setter
    BY <1>1, <2>1, <2>2, <2>3, BridgeRuns, OneSetterKept, ProgramStays, PTL
  <2>4. CASE ~Bridges[variant].one_setter
    BY <1>1, <2>1, <2>2, <2>4, BridgeRuns, BridgeKept, ProgramStays, PTL
  <2> QED BY <2>3, <2>4
<1>2. CASE variant \notin DOMAIN Bridges
  <2>1. program = variant => CalledIsAlive BY <1>2 DEF CalledIsAlive
  <2> QED BY <2>1, ProgramStays, PTL
<1> QED BY <1>1, <1>2

------------------------------
(* PythonBinding *)

Kinds == {"none", "create", "one", "batch"}
CallState == [kind : Kinds, n : Batch \cup {0}, id : 0 .. Bindings[variant].max_calls,
              asked : Detectors(variant)!ThresholdArg, used : Detectors(variant)!ThresholdArg,
                ret : Object \cup {Nothing}]

\* What a thread's call is about, at every point of it; interrupts included.
BindingInv ==
    /\ Detectors(variant)!TypeOK
    /\ call \in [Thread -> CallState]
    /\ results \in [Thread -> [sets : Nat, array : BOOLEAN]]
    /\ \A t \in Thread :
          /\ pc[t] \in {"creating", "created"} => call[t].asked \in Threshold
          /\ pc[t] = "created" => call[t].ret \in Object
          /\ pc[t] \in {"inferring", "packing", "returned", "copying"} => call[t].used \in Threshold
          /\ handle[t] # Nothing => threshold[t] \in Threshold
          /\ pc[t] \in {"returned", "copying"} => results[t].sets = call[t].n

\* The error and the threshold of a call stay those of the call while it runs.
CallInv ==
    \A t \in Thread :
        /\ pc[t] \notin {"idle", "destroyed"} => raised[t] = Nothing
        /\ raised[t] # Nothing => raised[t] = call[t].id
        /\ pc[t] = "failed" => t_last_error[t] = call[t].id
        /\ pc[t] \in {"inferring", "packing", "returned", "copying"} =>
              call[t].used = IF call[t].asked = Nothing THEN threshold[t] ELSE call[t].asked

\* Without interrupts a result set lives inside its call.
ResultInv ==
    \A t \in Thread :
        pc[t] \in {"idle", "creating", "created", "inferring", "failed", "destroyed"} =>
            results[t] = Detectors(variant)!NoResult

\* Without interrupts the owners of native detectors are distinct: open objects,
\* dropped ones, calls that have created one and not stored it.
OwnerInv ==
    /\ \A t \in Thread : pc[t] \in {"creating", "created"} => handle[t] = Nothing
    /\ \A h \in Object :
          h \in Detectors(variant)!Alive <=>
              \/ h \in garbage
              \/ \E t \in Detectors(variant)!Holding : handle[t] = h
              \/ \E t \in Thread : pc[t] = "created" /\ call[t].ret = h
    /\ \A t, u \in Detectors(variant)!Holding : t # u => handle[t] # handle[u]
    /\ \A t \in Detectors(variant)!Holding : handle[t] \notin garbage
    /\ \A t \in Thread : pc[t] = "created" =>
          /\ call[t].ret \notin garbage
          /\ \A u \in Detectors(variant)!Holding : handle[u] # call[t].ret
          /\ \A u \in Thread : pc[u] = "created" /\ u # t => call[u].ret # call[t].ret

LEMMA BindingInitInv ==
    ASSUME Detectors(variant)!BindingAssumption, Detectors(variant)!Init
    PROVE  BindingInv /\ CallInv /\ ResultInv /\ OwnerInv
<1> USE DEF Detectors!BindingAssumption, Detectors!Init, Detectors!Alive, Detectors!NoResult,
            Detectors!NoCall, Detectors!ThresholdArg
<1>1. call \in [Thread -> CallState] BY DEF CallState, Kinds
<1>2. BindingInv
  <2>1. \A t \in Thread : call[t].n = 0 /\ call[t].id = 0 OBVIOUS
  <2>2. DOMAIN native = {} OBVIOUS
  <2>3. t_last_error \in [Thread -> 0 .. Bindings[variant].max_calls]
      /\ calls \in 0 .. Bindings[variant].max_calls
    OBVIOUS
  <2>4. \A t \in Thread : results[t].sets = 0 /\ results[t].array = FALSE
    OBVIOUS
  <2>5. Detectors(variant)!TypeOK
    BY <2>1, <2>2, <2>3, <2>4 DEF Detectors!TypeOK
  <2> QED BY <1>1, <2>5 DEF BindingInv
<1>3. CallInv BY DEF CallInv
<1>4. OwnerInv BY DEF OwnerInv, Detectors!Holding
<1>5. ResultInv BY DEF ResultInv
<1> QED BY <1>2, <1>3, <1>4, <1>5

LEMMA NoCallFields ==
    ASSUME Detectors(variant)!BindingAssumption
    PROVE  Detectors(variant)!NoCall \in CallState /\ Detectors(variant)!NoCall.n = 0
      /\ Detectors(variant)!NoCall.id = 0
<1>1. Bindings[variant].max_calls \in Nat
  BY DEF Detectors!BindingAssumption
<1> QED BY <1>1 DEF CallState, Detectors!NoCall, Detectors!ThresholdArg, Kinds

LEMMA CallBegins ==
    ASSUME Detectors(variant)!BindingAssumption, BindingInv, NEW t \in Thread, NEW label,
           NEW c \in CallState, Detectors(variant)!Enter(t, label, c)
    PROVE  /\ calls' \in 0 .. Bindings[variant].max_calls /\ call' \in [Thread -> CallState]
           /\ call'[t].id = calls + 1 /\ call'[t].asked = c.asked /\ call'[t].used = c.used
           /\ call'[t].n = c.n
           /\ \A u \in Thread \ {t} : call'[u] = call[u]
           /\ t_last_error' = [t_last_error EXCEPT ![t] = 0]
           /\ raised' = [raised EXCEPT ![t] = Nothing]
           /\ pc[t] = "idle" /\ pc' = [pc EXCEPT ![t] = label]
           /\ UNCHANGED <<native, handle, threshold, garbage, results>>
<1>1. call \in [Thread -> CallState] /\ calls \in 0 .. Bindings[variant].max_calls
    /\ Bindings[variant].max_calls \in Nat
  BY DEF BindingInv, Detectors!TypeOK, Detectors!BindingAssumption
<1>2. /\ calls < Bindings[variant].max_calls /\ calls' = calls + 1
      /\ call' = [call EXCEPT ![t] = [c EXCEPT !.id = calls + 1]]
  BY DEF Detectors!Enter
<1> DEFINE d == [c EXCEPT !.id = calls + 1]
<1>3. /\ d \in CallState /\ d.id = calls + 1
      /\ d.asked = c.asked /\ d.used = c.used /\ d.n = c.n
  BY <1>1, <1>2 DEF CallState
<1> HIDE DEF d
<1>4. /\ t_last_error' = [t_last_error EXCEPT ![t] = 0]
      /\ raised' = [raised EXCEPT ![t] = Nothing]
      /\ pc[t] = "idle" /\ pc' = [pc EXCEPT ![t] = label]
      /\ UNCHANGED <<native, handle, threshold, garbage, results>>
  BY DEF Detectors!Enter, Detectors!SetError, Detectors!Cell, Detectors!At, Detectors!Goto,
         Detectors!owners
<1>5. calls' \in 0 .. Bindings[variant].max_calls BY <1>1, <1>2
<1>6. call' = [call EXCEPT ![t] = d] BY <1>2 DEF d
<1>7. /\ call' \in [Thread -> CallState] /\ call'[t] = d
      /\ \A u \in Thread \ {t} : call'[u] = call[u]
  BY <1>1, <1>3, <1>6
<1> QED BY <1>3, <1>4, <1>5, <1>7

LEMMA BindingStepInv ==
    ASSUME Detectors(variant)!BindingAssumption, BindingInv, NEW t \in Thread,
           Detectors(variant)!Step(t)
    PROVE  BindingInv'
<1> USE DEF Detectors!Goto, Detectors!At, Detectors!Alive, Detectors!owners, Detectors!SetError,
            Detectors!Cell
<1>a. call \in [Thread -> CallState] /\ results \in [Thread -> [sets : Nat, array : BOOLEAN]]
  BY DEF BindingInv
<1>b. Bindings[variant].max_calls \in Nat /\ Threshold \subseteq 0 .. 10 /\ Nothing \notin Int
    /\ Nothing \notin Object
  BY DEF Detectors!BindingAssumption
<1>1. CASE Detectors(variant)!Construct(t)
  <2>1. PICK th \in Threshold :
          Detectors(variant)!Enter(t, "creating",
                                   [Detectors(variant)!NoCall EXCEPT !.kind = "create",
                                     !.asked = th])
    BY <1>1 DEF Detectors!Construct
  <2> DEFINE c == [Detectors(variant)!NoCall EXCEPT !.kind = "create", !.asked = th]
  <2>2. c \in CallState /\ c.asked = th /\ c.n = 0
    BY NoCallFields DEF CallState, Detectors!ThresholdArg, Kinds
  <2>3. Detectors(variant)!Enter(t, "creating", c) BY <2>1
  <2> HIDE DEF c
  <2>4. /\ calls' \in 0 .. Bindings[variant].max_calls /\ call' \in [Thread -> CallState]
        /\ call'[t].asked = th /\ call'[t].n = 0 /\ call'[t].id \in 0 .. Bindings[variant].max_calls
        /\ \A u \in Thread \ {t} : call'[u] = call[u]
        /\ t_last_error' = [t_last_error EXCEPT ![t] = 0]
        /\ raised' = [raised EXCEPT ![t] = Nothing]
        /\ pc[t] = "idle" /\ pc' = [pc EXCEPT ![t] = "creating"]
        /\ UNCHANGED <<native, handle, threshold, garbage, results>>
    BY <2>2, <2>3, CallBegins DEF CallState
  <2> QED BY <2>4, <1>b, SMTT(60) DEF BindingInv, Detectors!TypeOK
<1>2. CASE Detectors(variant)!CreateReturns(t)
  <2>1. PICK h \in Object \ Detectors(variant)!Alive :
          /\ native' = [x \in Detectors(variant)!Alive \cup {h} |->
                          IF x = h THEN Detectors(variant)!OptionThreshold(call[t].asked)
                            ELSE native[x]]
          /\ call' = [call EXCEPT ![t].ret = h]
    BY <1>2 DEF Detectors!CreateReturns
  <2>2. Detectors(variant)!OptionThreshold(call[t].asked) \in 1 .. 10
    <3>1. call[t].asked \in 0 .. 10
      BY <1>2, <1>b DEF Detectors!CreateReturns, BindingInv
    <3> QED BY <3>1 DEF Detectors!OptionThreshold
  <2>3. /\ DOMAIN native' \subseteq Object
        /\ \A x \in DOMAIN native' : native'[x] \in 1 .. 10
    BY <2>1, <2>2 DEF BindingInv, Detectors!TypeOK
  <2>4. /\ call' \in [Thread -> CallState]
        /\ call'[t] = [call[t] EXCEPT !.ret = h]
        /\ \A u \in Thread \ {t} : call'[u] = call[u]
    BY <2>1, <1>a, SMTT(40) DEF CallState
  <2>5. /\ call'[t].ret = h /\ call'[t].asked = call[t].asked /\ call'[t].n = call[t].n
        /\ call'[t].id = call[t].id
    BY <2>4, <1>a DEF CallState
  <2>6. pc[t] = "creating" /\ pc' = [pc EXCEPT ![t] = "created"]
        /\ UNCHANGED <<handle, threshold, garbage, t_last_error, results, raised, calls>>
    BY <1>2 DEF Detectors!CreateReturns
  <2> QED BY <2>3, <2>4, <2>5, <2>6, <1>b, ZenonT(60) DEF BindingInv, Detectors!TypeOK
<1>3. CASE Detectors(variant)!StoreHandle(t)
  <2>1. /\ pc[t] = "created" /\ pc' = [pc EXCEPT ![t] = "idle"]
        /\ handle' = [handle EXCEPT ![t] = call[t].ret]
        /\ threshold' = [threshold EXCEPT ![t] = call[t].asked]
        /\ call' = [call EXCEPT ![t] = Detectors(variant)!NoCall]
        /\ UNCHANGED <<native, garbage, t_last_error, results, raised, calls>>
    BY <1>3 DEF Detectors!StoreHandle
  <2>2. call' \in [Thread -> CallState] /\ call'[t].n = 0 /\ call'[t].id = 0
    BY <2>1, <1>a, NoCallFields
  <2>3. call[t].ret \in Object /\ call[t].asked \in Threshold
    BY <2>1 DEF BindingInv
  <2> QED BY <2>1, <2>2, <2>3, <1>b DEF BindingInv, Detectors!TypeOK, Detectors!ThresholdArg
<1>4. CASE Detectors(variant)!CreateFails(t)
  BY <1>4, <1>b DEF Detectors!CreateFails, Detectors!Fails,
     BindingInv, Detectors!TypeOK, Detectors!ThresholdArg
<1>5. CASE Detectors(variant)!RaiseError(t)
  BY <1>5, <1>b DEF Detectors!RaiseError,
     BindingInv, Detectors!TypeOK, Detectors!ThresholdArg
<1>6. CASE Detectors(variant)!Detect(t)
  <2>1. PICK limit \in Detectors(variant)!ThresholdArg, n \in Batch, kind \in {"one", "batch"} :
          Detectors(variant)!Enter(t, "inferring",
              [Detectors(variant)!NoCall EXCEPT !.kind = kind, !.n = n, !.asked = limit,
                                       !.used = Detectors(variant)!ResolveThreshold(t, limit)])
    BY <1>6 DEF Detectors!Detect
  <2>2. Detectors(variant)!ResolveThreshold(t, limit) \in Threshold
    BY <1>6, <2>1 DEF Detectors!Detect, Detectors!ResolveThreshold, Detectors!ThresholdArg,
                      BindingInv
  <2> DEFINE c == [Detectors(variant)!NoCall EXCEPT !.kind = kind, !.n = n, !.asked = limit,
                                           !.used = Detectors(variant)!ResolveThreshold(t, limit)]
  <2>3. c \in CallState /\ c.used \in Threshold /\ c.n = n
    BY <2>1, <2>2, NoCallFields DEF CallState, Detectors!ThresholdArg, Kinds
  <2>4. Detectors(variant)!Enter(t, "inferring", c) BY <2>1
  <2> HIDE DEF c
  <2>5. /\ calls' \in 0 .. Bindings[variant].max_calls /\ call' \in [Thread -> CallState]
        /\ call'[t].used \in Threshold /\ call'[t].n = n
           /\ call'[t].id \in 0 .. Bindings[variant].max_calls
        /\ \A u \in Thread \ {t} : call'[u] = call[u]
        /\ t_last_error' = [t_last_error EXCEPT ![t] = 0]
        /\ raised' = [raised EXCEPT ![t] = Nothing]
        /\ pc[t] = "idle" /\ pc' = [pc EXCEPT ![t] = "inferring"]
        /\ UNCHANGED <<native, handle, threshold, garbage, results>>
    BY <2>3, <2>4, CallBegins DEF CallState
  <2> QED BY <2>1, <2>5, <1>b, SMTT(60) DEF BindingInv, Detectors!TypeOK
<1>7. CASE Detectors(variant)!Infers(t)
  <2>1. call[t].used \in Threshold
    BY <1>7 DEF Detectors!Infers, BindingInv
  <2>2. call[t].used \in 0 .. 10 BY <2>1, <1>b
  <2>3. (IF call[t].used >= 0 THEN call[t].used ELSE native[handle[t]]) = call[t].used
    BY <2>2
  <2>4. call' = call
    <3>1. call' = [call EXCEPT ![t] = [call[t] EXCEPT !.used =
                      IF call[t].used >= 0 THEN call[t].used ELSE native[handle[t]]]]
      BY <1>7 DEF Detectors!Infers
    <3>2. call' = [call EXCEPT ![t] = [call[t] EXCEPT !.used = call[t].used]]
      BY <3>1, <2>3
    <3> QED BY <3>2, <1>a DEF CallState
  <2> QED BY <1>7, <2>4 DEF Detectors!Infers, BindingInv, Detectors!TypeOK
<1>8. CASE Detectors(variant)!InferFails(t)
  BY <1>8, <1>b DEF Detectors!InferFails, Detectors!Fails,
     BindingInv, Detectors!TypeOK, Detectors!ThresholdArg
<1>9. CASE Detectors(variant)!PackOne(t)
  BY <1>9, <1>b DEF Detectors!PackOne,
     BindingInv, Detectors!TypeOK, Detectors!ThresholdArg
<1>10. CASE Detectors(variant)!PackFails(t)
  <2>1. results' = [results EXCEPT ![t] = [sets |-> 0, array |-> FALSE]]
    BY <1>10 DEF Detectors!PackFails, Detectors!FreesPacked, Detectors!NoResult
  <2>2. results' \in [Thread -> [sets : Nat, array : BOOLEAN]]
    BY <2>1, <1>a
  <2> QED
    BY <1>10, <2>1, <2>2, <1>b, ZenonT(60) DEF Detectors!PackFails, Detectors!Fails, BindingInv,
       Detectors!TypeOK
<1>11. CASE Detectors(variant)!PackReturns(t)
  <2>1. results[t].sets = call[t].n /\ pc[t] = "packing" /\ pc' = [pc EXCEPT ![t] = "returned"]
        /\ results' = [results EXCEPT ![t].array = call[t].kind = "batch"]
        /\ UNCHANGED <<native, handle, threshold, garbage, t_last_error, call, raised, calls>>
    BY <1>11 DEF Detectors!PackReturns
  <2>2. /\ results' \in [Thread -> [sets : Nat, array : BOOLEAN]]
        /\ results'[t].sets = call[t].n
        /\ \A u \in Thread \ {t} : results'[u] = results[u]
    BY <2>1, <1>a, ZenonT(60)
  <2> QED BY <2>1, <2>2 DEF BindingInv, Detectors!TypeOK
<1>12. CASE Detectors(variant)!EnterTry(t)
  BY <1>12, <1>b DEF Detectors!EnterTry,
     BindingInv, Detectors!TypeOK, Detectors!ThresholdArg
<1>13. CASE Detectors(variant)!FreeResults(t)
  <2>1. results[t].sets = call[t].n /\ results[t].sets \in Nat
    BY <1>13, <1>a DEF Detectors!FreeResults, BindingInv
  <2>2. results[t].sets - call[t].n = 0 BY <2>1
  <2>3. results' = [results EXCEPT ![t] = [sets |-> 0, array |-> FALSE]]
    BY <1>13, <2>2 DEF Detectors!FreeResults
  <2>4. results' \in [Thread -> [sets : Nat, array : BOOLEAN]]
    BY <2>3, <1>a
  <2> QED BY <1>13, <2>3, <2>4, ZenonT(60) DEF Detectors!FreeResults, BindingInv, Detectors!TypeOK
<1>14. CASE Detectors(variant)!Close(t)
  BY <1>14, <1>b DEF Detectors!Close, Detectors!Without,
     BindingInv, Detectors!TypeOK, Detectors!ThresholdArg
<1>15. CASE Detectors(variant)!ClearHandle(t)
  BY <1>15, <1>b DEF Detectors!ClearHandle, Detectors!ClearedHandle,
     BindingInv, Detectors!TypeOK, Detectors!ThresholdArg
<1>16. CASE Detectors(variant)!Drop(t)
  BY <1>16, <1>b DEF Detectors!Drop,
     BindingInv, Detectors!TypeOK, Detectors!ThresholdArg
<1>17. CASE Detectors(variant)!Collect(t)
  BY <1>17, <1>b DEF Detectors!Collect, Detectors!Without, Detectors!AfterDestroy,
     BindingInv, Detectors!TypeOK, Detectors!ThresholdArg
<1>18. CASE Detectors(variant)!Interrupt(t)
  BY <1>18, <1>b DEF Detectors!Interrupt,
     BindingInv, Detectors!TypeOK, Detectors!ThresholdArg
<1> QED
  BY <1>1, <1>2, <1>3, <1>4, <1>5, <1>6, <1>7, <1>8, <1>9, <1>10, <1>11, <1>12, <1>13, <1>14,
     <1>15, <1>16, <1>17, <1>18 DEF Detectors!Step

LEMMA CallStepInv ==
    ASSUME Detectors(variant)!BindingAssumption, BindingInv, CallInv, NEW t \in Thread,
           Detectors(variant)!Step(t)
    PROVE  CallInv'
<1> USE DEF CallInv, Detectors!Goto, Detectors!At, Detectors!owners, Detectors!SetError,
            Detectors!Cell
<1>a. /\ call \in [Thread -> CallState] /\ DOMAIN pc = Thread /\ DOMAIN raised = Thread
      /\ DOMAIN t_last_error = Thread /\ DOMAIN threshold = Thread
  BY DEF BindingInv, Detectors!TypeOK
<1>b. Threshold \subseteq 0 .. 10 /\ Nothing \notin Int
  BY DEF Detectors!BindingAssumption
<1>1. CASE Detectors(variant)!Construct(t)
  BY <1>1, <1>a DEF Detectors!Construct, Detectors!Enter
<1>2. CASE Detectors(variant)!CreateReturns(t)
  BY <1>2, <1>a DEF Detectors!CreateReturns, CallState
<1>3. CASE Detectors(variant)!StoreHandle(t)
  BY <1>3, <1>a DEF Detectors!StoreHandle
<1>4. CASE Detectors(variant)!CreateFails(t)
  BY <1>4, <1>a DEF Detectors!CreateFails, Detectors!Fails
<1>5. CASE Detectors(variant)!RaiseError(t)
  BY <1>5, <1>a DEF Detectors!RaiseError
<1>6. CASE Detectors(variant)!Detect(t)
  <2>1. PICK limit \in Detectors(variant)!ThresholdArg, n \in Batch, kind \in {"one", "batch"} :
          Detectors(variant)!Enter(t, "inferring",
              [Detectors(variant)!NoCall EXCEPT !.kind = kind, !.n = n, !.asked = limit,
                                       !.used = Detectors(variant)!ResolveThreshold(t, limit)])
    BY <1>6 DEF Detectors!Detect
  <2>2. Detectors(variant)!ResolveThreshold(t, limit) \in Threshold
    BY <1>6, <2>1 DEF Detectors!Detect, Detectors!ResolveThreshold, Detectors!ThresholdArg,
                      BindingInv
  <2> DEFINE u == Detectors(variant)!ResolveThreshold(t, limit)
             c == [Detectors(variant)!NoCall EXCEPT !.kind = kind, !.n = n, !.asked = limit,
                   !.used = u]
  <2>3. c \in CallState /\ c.used = u /\ c.asked = limit
    BY <2>1, <2>2, NoCallFields DEF CallState, Detectors!ThresholdArg, Kinds
  <2>4. Detectors(variant)!Enter(t, "inferring", c) BY <2>1
  <2>5. u = IF limit = Nothing THEN threshold[t] ELSE limit
    BY DEF Detectors!ResolveThreshold
  <2> HIDE DEF c, u
  <2> QED BY <2>3, <2>4, <2>5, <1>a, CallBegins
<1>7. CASE Detectors(variant)!Infers(t)
  <2>1. call[t].used \in 0 .. 10
    BY <1>7, <1>b DEF Detectors!Infers, BindingInv
  <2>2. (IF call[t].used >= 0 THEN call[t].used ELSE native[handle[t]]) = call[t].used
    BY <2>1
  <2>3. call' = [call EXCEPT ![t] = [call[t] EXCEPT !.used =
                    IF call[t].used >= 0 THEN call[t].used ELSE native[handle[t]]]]
    BY <1>7 DEF Detectors!Infers
  <2>4. call' = call BY <2>2, <2>3, <1>a DEF CallState
  <2>5. /\ pc[t] = "inferring" /\ pc' = [pc EXCEPT ![t] = "packing"]
        /\ UNCHANGED <<native, handle, threshold, garbage, t_last_error, results, raised, calls>>
    BY <1>7 DEF Detectors!Infers
  <2> QED BY <2>4, <2>5, <1>a
<1>8. CASE Detectors(variant)!InferFails(t)
  BY <1>8, <1>a DEF Detectors!InferFails, Detectors!Fails
<1>9. CASE Detectors(variant)!PackOne(t)
  BY <1>9, <1>a DEF Detectors!PackOne
<1>10. CASE Detectors(variant)!PackFails(t)
  BY <1>10, <1>a DEF Detectors!PackFails, Detectors!Fails
<1>11. CASE Detectors(variant)!PackReturns(t)
  BY <1>11, <1>a DEF Detectors!PackReturns
<1>12. CASE Detectors(variant)!EnterTry(t)
  BY <1>12, <1>a DEF Detectors!EnterTry
<1>13. CASE Detectors(variant)!FreeResults(t)
  BY <1>13, <1>a DEF Detectors!FreeResults
<1>14. CASE Detectors(variant)!Close(t)
  BY <1>14, <1>a DEF Detectors!Close
<1>15. CASE Detectors(variant)!ClearHandle(t)
  BY <1>15, <1>a DEF Detectors!ClearHandle
<1>16. CASE Detectors(variant)!Drop(t) BY <1>16, <1>a DEF Detectors!Drop
<1>17. CASE Detectors(variant)!Collect(t)
  BY <1>17, <1>a DEF Detectors!Collect, Detectors!AfterDestroy
<1>18. CASE Detectors(variant)!Interrupt(t)
  BY <1>18, <1>a DEF Detectors!Interrupt
<1> QED
  BY <1>1, <1>2, <1>3, <1>4, <1>5, <1>6, <1>7, <1>8, <1>9, <1>10, <1>11, <1>12, <1>13, <1>14,
     <1>15, <1>16, <1>17, <1>18 DEF Detectors!Step

LEMMA ResultStepInv ==
    ASSUME Detectors(variant)!BindingAssumption, ~Bindings[variant].interrupts, BindingInv,
           ResultInv,
           NEW t \in Thread, Detectors(variant)!Step(t)
    PROVE  ResultInv'
<1> USE DEF ResultInv, Detectors!Goto, Detectors!At, Detectors!owners, Detectors!NoResult
<1>a. /\ DOMAIN pc = Thread /\ results \in [Thread -> [sets : Nat, array : BOOLEAN]]
      /\ call \in [Thread -> CallState]
  BY DEF BindingInv, Detectors!TypeOK
<1>1. CASE Detectors(variant)!Construct(t)
  BY <1>1, <1>a DEF Detectors!Construct, Detectors!Enter
<1>2. CASE Detectors(variant)!CreateReturns(t)
  BY <1>2, <1>a DEF Detectors!CreateReturns
<1>3. CASE Detectors(variant)!StoreHandle(t)
  BY <1>3, <1>a DEF Detectors!StoreHandle
<1>4. CASE Detectors(variant)!CreateFails(t)
  BY <1>4, <1>a DEF Detectors!CreateFails, Detectors!Fails
<1>5. CASE Detectors(variant)!RaiseError(t)
  BY <1>5, <1>a DEF Detectors!RaiseError
<1>6. CASE Detectors(variant)!Detect(t)
  BY <1>6, <1>a DEF Detectors!Detect, Detectors!Enter
<1>7. CASE Detectors(variant)!Infers(t)
  BY <1>7, <1>a DEF Detectors!Infers
<1>8. CASE Detectors(variant)!InferFails(t)
  BY <1>8, <1>a DEF Detectors!InferFails, Detectors!Fails
<1>9. CASE Detectors(variant)!PackOne(t)
  BY <1>9, <1>a DEF Detectors!PackOne
<1>10. CASE Detectors(variant)!PackFails(t)
  BY <1>10, <1>a DEF Detectors!PackFails, Detectors!Fails, Detectors!FreesPacked
<1>11. CASE Detectors(variant)!PackReturns(t)
  BY <1>11, <1>a DEF Detectors!PackReturns
<1>12. CASE Detectors(variant)!EnterTry(t)
  BY <1>12, <1>a DEF Detectors!EnterTry
<1>13. CASE Detectors(variant)!FreeResults(t)
  <2>1. results[t].sets = call[t].n /\ results[t].sets \in Nat
    BY <1>13, <1>a DEF Detectors!FreeResults, BindingInv
  <2>2. results[t].sets - call[t].n = 0 BY <2>1
  <2>3. results' = [results EXCEPT ![t] = [sets |-> 0, array |-> FALSE]]
    BY <1>13, <2>2 DEF Detectors!FreeResults
  <2> QED BY <1>13, <2>3, <1>a DEF Detectors!FreeResults
<1>14. CASE Detectors(variant)!Close(t)
  BY <1>14, <1>a DEF Detectors!Close
<1>15. CASE Detectors(variant)!ClearHandle(t)
  BY <1>15, <1>a DEF Detectors!ClearHandle
<1>16. CASE Detectors(variant)!Drop(t) BY <1>16, <1>a DEF Detectors!Drop
<1>17. CASE Detectors(variant)!Collect(t)
  BY <1>17, <1>a DEF Detectors!Collect
<1>18. CASE Detectors(variant)!Interrupt(t)
  BY <1>18, <1>a DEF Detectors!Interrupt
<1> QED
  BY <1>1, <1>2, <1>3, <1>4, <1>5, <1>6, <1>7, <1>8, <1>9, <1>10, <1>11, <1>12, <1>13, <1>14,
     <1>15, <1>16, <1>17, <1>18 DEF Detectors!Step

LEMMA OwnerStepInv ==
    ASSUME Detectors(variant)!BindingAssumption, ~Bindings[variant].interrupts, BindingInv,
           OwnerInv,
           NEW t \in Thread, Detectors(variant)!Step(t)
    PROVE  OwnerInv'
<1> USE DEF OwnerInv, Detectors!Goto, Detectors!At, Detectors!owners, Detectors!SetError,
            Detectors!Cell, Detectors!Alive, Detectors!Holding
<1>a. /\ call \in [Thread -> CallState] /\ DOMAIN pc = Thread
      /\ handle \in [Thread -> Object \cup {Nothing}] /\ garbage \subseteq Object
      /\ DOMAIN native \subseteq Object
  BY DEF BindingInv, Detectors!TypeOK, Detectors!Alive
<1>b. Nothing \notin Object BY DEF Detectors!BindingAssumption
<1>1. CASE Detectors(variant)!Construct(t)
  BY <1>1, <1>a DEF Detectors!Construct, Detectors!Enter
<1>2. CASE Detectors(variant)!CreateReturns(t)
  BY <1>2, <1>a, <1>b DEF Detectors!CreateReturns, CallState
<1>3. CASE Detectors(variant)!StoreHandle(t)
  BY <1>3, <1>a, <1>b DEF Detectors!StoreHandle, BindingInv
<1>4. CASE Detectors(variant)!CreateFails(t)
  BY <1>4, <1>a DEF Detectors!CreateFails, Detectors!Fails
<1>5. CASE Detectors(variant)!RaiseError(t)
  BY <1>5, <1>a DEF Detectors!RaiseError
<1>6. CASE Detectors(variant)!Detect(t)
  BY <1>6, <1>a DEF Detectors!Detect, Detectors!Enter
<1>7. CASE Detectors(variant)!Infers(t)
  BY <1>7, <1>a DEF Detectors!Infers
<1>8. CASE Detectors(variant)!InferFails(t)
  BY <1>8, <1>a DEF Detectors!InferFails, Detectors!Fails
<1>9. CASE Detectors(variant)!PackOne(t)
  BY <1>9, <1>a DEF Detectors!PackOne
<1>10. CASE Detectors(variant)!PackFails(t)
  BY <1>10, <1>a DEF Detectors!PackFails, Detectors!Fails
<1>11. CASE Detectors(variant)!PackReturns(t)
  BY <1>11, <1>a DEF Detectors!PackReturns
<1>12. CASE Detectors(variant)!EnterTry(t)
  BY <1>12, <1>a DEF Detectors!EnterTry
<1>13. CASE Detectors(variant)!FreeResults(t)
  BY <1>13, <1>a DEF Detectors!FreeResults
<1>14. CASE Detectors(variant)!Close(t)
  BY <1>14, <1>a, <1>b DEF Detectors!Close, Detectors!Without
<1>15. CASE Detectors(variant)!ClearHandle(t)
  BY <1>15, <1>a DEF Detectors!ClearHandle, Detectors!ClearedHandle
<1>16. CASE Detectors(variant)!Drop(t)
  BY <1>16, <1>a, <1>b DEF Detectors!Drop
<1>17. CASE Detectors(variant)!Collect(t)
  BY <1>17, <1>a, <1>b DEF Detectors!Collect, Detectors!AfterDestroy, Detectors!Without
<1>18. CASE Detectors(variant)!Interrupt(t)
  BY <1>18 DEF Detectors!Interrupt
<1> QED
  BY <1>1, <1>2, <1>3, <1>4, <1>5, <1>6, <1>7, <1>8, <1>9, <1>10, <1>11, <1>12, <1>13, <1>14,
     <1>15, <1>16, <1>17, <1>18 DEF Detectors!Step

LEMMA BindingKept ==
    Detectors(variant)!BindingAssumption => (Detectors(variant)!Spec => [](BindingInv /\ CallInv))
<1> SUFFICES ASSUME Detectors(variant)!BindingAssumption
             PROVE  Detectors(variant)!Spec => [](BindingInv /\ CallInv)
  OBVIOUS
<1>1. Detectors(variant)!Init => BindingInv /\ CallInv BY BindingInitInv
<1>2. BindingInv /\ CallInv /\ [Detectors(variant)!Next]_(Detectors(variant)!vars)
    => BindingInv' /\ CallInv'
  <2> SUFFICES ASSUME BindingInv, CallInv, [Detectors(variant)!Next]_(Detectors(variant)!vars)
               PROVE  BindingInv' /\ CallInv'
    OBVIOUS
  <2>1. CASE Detectors(variant)!Next
    BY <2>1, BindingStepInv, CallStepInv DEF Detectors!Next
  <2>2. CASE UNCHANGED Detectors(variant)!vars
    <3>1. BindingInv'
      BY <2>2 DEF Detectors!vars, BindingInv, Detectors!TypeOK, Detectors!Alive
    <3>2. CallInv' BY <2>2 DEF Detectors!vars, CallInv
    <3> QED BY <3>1, <3>2
  <2> QED BY <2>1, <2>2
<1> QED BY <1>1, <1>2, PTL DEF Detectors!Spec

LEMMA OwnersKept ==
    Detectors(variant)!BindingAssumption /\ ~Bindings[variant].interrupts
      => (Detectors(variant)!Spec => [](ResultInv /\ OwnerInv))
<1> SUFFICES ASSUME Detectors(variant)!BindingAssumption, ~Bindings[variant].interrupts
             PROVE  Detectors(variant)!Spec => [](ResultInv /\ OwnerInv)
  OBVIOUS
<1>1. Detectors(variant)!Init => ResultInv /\ OwnerInv BY BindingInitInv
<1>2. BindingInv /\ ResultInv /\ OwnerInv /\ [Detectors(variant)!Next]_(Detectors(variant)!vars)
        => ResultInv' /\ OwnerInv'
  <2> SUFFICES ASSUME BindingInv, ResultInv, OwnerInv,
                      [Detectors(variant)!Next]_(Detectors(variant)!vars)
               PROVE  ResultInv' /\ OwnerInv'
    OBVIOUS
  <2>1. CASE Detectors(variant)!Next
    BY <2>1, ResultStepInv, OwnerStepInv DEF Detectors!Next
  <2>2. CASE UNCHANGED Detectors(variant)!vars
    <3>1. ResultInv' BY <2>2 DEF Detectors!vars, ResultInv
    <3>2. OwnerInv'
      BY <2>2 DEF Detectors!vars, OwnerInv, Detectors!Alive, Detectors!Holding
    <3> QED BY <3>1, <3>2
  <2> QED BY <2>1, <2>2
<1> QED BY <1>1, <1>2, BindingKept, PTL DEF Detectors!Spec

\* Between any calls of other threads, collections and interrupts, an error text
\* and a threshold are those of the call: the cell a call writes is the cell its
\* wrapper reads, and nothing but a call of the same thread writes it.
THEOREM ErrorsAreOwn == RuntimeSpec /\ program = variant => []ErrorIsOwn
<1>1. CASE variant \in DOMAIN Bindings
  <2>1. Detectors(variant)!BindingAssumption BY <1>1, PartsAssumption
  <2>2. CallInv /\ program = variant => ErrorIsOwn
    BY DEF ErrorIsOwn, CallInv, Detectors!ErrorIsOwn, Detectors!ThresholdHonoured
  <2> QED BY <1>1, <2>1, <2>2, DetectorsRuns, BindingKept, ProgramStays, PTL
<1>2. CASE variant \notin DOMAIN Bindings
  <2>1. program = variant => ErrorIsOwn BY <1>2 DEF ErrorIsOwn
  <2> QED BY <2>1, ProgramStays, PTL
<1> QED BY <1>1, <1>2

LEMMA OwnedIsAlive ==
    ASSUME BindingInv, OwnerInv
    PROVE  Detectors(variant)!OneOwner
<1>1. ASSUME NEW h
      PROVE  h \in Detectors(variant)!Owned <=>
                \/ h \in garbage
                \/ \E t \in Detectors(variant)!Holding : handle[t] = h
                \/ \E t \in Thread : pc[t] = "created" /\ call[t].ret = h
  BY DEF Detectors!Owned
<1>2. /\ Detectors(variant)!Alive \subseteq Object /\ garbage \subseteq Object
      /\ \A t \in Detectors(variant)!Holding : handle[t] \in Object
      /\ \A t \in Thread : pc[t] = "created" => call[t].ret \in Object
  BY DEF BindingInv, Detectors!TypeOK, Detectors!Holding
<1>3. \A h : h \in Detectors(variant)!Owned <=> h \in Detectors(variant)!Alive
  BY <1>1, <1>2 DEF OwnerInv
<1>4. Detectors(variant)!Owned = Detectors(variant)!Alive BY <1>3
<1> QED BY <1>4 DEF OwnerInv, Detectors!OneOwner

\* Without interrupts every live native detector has exactly one owner, and a
\* call that is over has freed its results.
THEOREM OwnersAreOne == RuntimeSpec /\ program = variant => []OneOwner
<1>1. CASE variant \in DOMAIN Bindings
  <2>1. Detectors(variant)!BindingAssumption BY <1>1, PartsAssumption
  <2>2. BindingInv /\ program = variant
        /\ (~Bindings[variant].interrupts => ResultInv /\ OwnerInv) => OneOwner
    <3> SUFFICES ASSUME BindingInv, program = variant,
                        ~Bindings[variant].interrupts => ResultInv /\ OwnerInv
                 PROVE  OneOwner
      OBVIOUS
    <3>1. Detectors(variant)!TypeOK BY DEF BindingInv
    <3>2. ~Bindings[variant].interrupts
        => Detectors(variant)!OneOwner /\ Detectors(variant)!ResultsFreed
      BY OwnedIsAlive DEF ResultInv, Detectors!ResultsFreed
    <3> QED BY <3>1, <3>2 DEF OneOwner
  <2>3. CASE Bindings[variant].interrupts
    BY <1>1, <2>1, <2>2, <2>3, DetectorsRuns, BindingKept, ProgramStays, PTL
  <2>4. CASE ~Bindings[variant].interrupts
    BY <1>1, <2>1, <2>2, <2>4, DetectorsRuns, BindingKept, OwnersKept, ProgramStays, PTL
  <2> QED BY <2>3, <2>4
<1>2. CASE variant \notin DOMAIN Bindings
  <2>1. program = variant => OneOwner BY <1>2 DEF OneOwner
  <2> QED BY <2>1, ProgramStays, PTL
<1> QED BY <1>1, <1>2

------------------------------
(* LibraryLoader *)

\* What a search has passed was not there, unless the file changed meanwhile;
\* what it found is a library, and the options go to one that takes them.
SearchInv ==
    /\ Loader(variant)!TypeOK
    /\ \A t \in Thread : pc[t] \in {"search", "open", "configure"} =>
          \A i \in 1 .. Len(Loader(variant)!Candidates) :
              (i < next[t] /\ Loader(variant)!Candidates[i] \in steady[t])
                => ~Loader(variant)!Exists(Loader(variant)!Candidates[i])
    /\ \A t \in Thread : pc[t] = "open" => next[t] <= Len(Loader(variant)!Candidates)
    /\ \A t \in Thread : pc[t] = "options" => found[t].abi = "v2"

\* While no file changes, the library that is asked for stays the first candidate.
RequestedInv ==
    env # Nothing =>
        \A t \in Thread :
            /\ pc[t] \in {"search", "open", "configure"}
               => next[t] = 1 /\ Loader(variant)!Exists(env)
            /\ pc[t] = "configure" => found[t].at = env

LEMMA CandidatesAre ==
    ASSUME Loader(variant)!LoaderAssumption, env \in Place \cup {Nothing}
    PROVE  /\ Loader(variant)!Candidates \in Seq(Place)
           /\ Len(Loader(variant)!Candidates) \in Nat
           /\ \A i \in 1 .. Len(Loader(variant)!Candidates) :
              Loader(variant)!Candidates[i] \in Place
           /\ env # Nothing => Len(Loader(variant)!Candidates) >= 1
              /\ Loader(variant)!Candidates[1] = env
<1>1. SearchOrder \in Seq(Place) BY DEF Loader!LoaderAssumption
<1>2. CASE env = Nothing BY <1>1, <1>2 DEF Loader!Candidates
<1>3. CASE env # Nothing
  <2>1. <<env>> \in Seq(Place) BY <1>3
  <2>2. Loader(variant)!Candidates = <<env>> \o SearchOrder
    BY <1>3 DEF Loader!Candidates
  <2>3. /\ Loader(variant)!Candidates \in Seq(Place)
        /\ Len(Loader(variant)!Candidates) = 1 + Len(SearchOrder)
        /\ Loader(variant)!Candidates[1] = env
    BY <1>1, <2>1, <2>2
  <2>4. Len(SearchOrder) \in Nat BY <1>1
  <2> QED BY <2>3, <2>4
<1> QED BY <1>2, <1>3

LEMMA LoaderInitInv ==
    ASSUME Loader(variant)!LoaderAssumption, Loader(variant)!Init
    PROVE  SearchInv /\ RequestedInv
<1>1. env \in Place \cup {Nothing} BY DEF Loader!Init
<1>2. Len(Loader(variant)!Candidates) \in Nat BY <1>1, CandidatesAre
<1>3. Loader(variant)!TypeOK
  BY <1>2 DEF Loader!Init, Loader!TypeOK, Loader!Library, Loader!NoLib, Loader!LoaderAssumption
<1> QED BY <1>3 DEF SearchInv, RequestedInv, Loader!Init

LEMMA LoaderStepInv ==
    ASSUME Loader(variant)!LoaderAssumption, SearchInv, NEW t \in Thread, Loader(variant)!Step(t)
    PROVE  SearchInv'
<1> DEFINE C == Loader(variant)!Candidates
<1>1. Len(C) \in Nat /\ \A i \in 1 .. Len(C) : C[i] \in Place
  BY CandidatesAre DEF SearchInv, Loader!TypeOK
<1>2. env' = env /\ disk' = disk /\ changes' = changes
  BY DEF Loader!Step, Loader!Cached, Loader!BeginLoad, Loader!Look, Loader!Open,
         Loader!OpenSystem, Loader!Configure, Loader!Retry, Loader!PassOptions
<1>c. C = Loader(variant)!Candidates OBVIOUS
<1>3. C' = C /\ \A p : Loader(variant)!Exists(p)' <=> Loader(variant)!Exists(p)
  BY <1>2 DEF Loader!Candidates, Loader!Exists
<1> HIDE DEF C
<1>5. /\ pc \in [Thread -> {"idle", "search", "open", "configure", "have", "error", "options",
                            "refused"}]
      /\ next \in [Thread -> 1 .. Len(C) + 1] /\ steady \in [Thread -> SUBSET Place]
      /\ found \in [Thread -> Loader(variant)!Library] /\ lib \in Loader(variant)!Library
      /\ \A u \in Thread : pc[u] \in {"search", "open", "configure"} =>
            \A i \in 1 .. Len(C) :
                (i < next[u] /\ C[i] \in steady[u]) => ~Loader(variant)!Exists(C[i])
      /\ \A u \in Thread : pc[u] = "open" => next[u] <= Len(C)
      /\ \A u \in Thread : pc[u] = "options" => found[u].abi = "v2"
  BY DEF SearchInv, Loader!TypeOK, C
<1> DEFINE Types ==
             /\ pc' \in [Thread -> {"idle", "search", "open", "configure", "have", "error",
                                    "options", "refused"}]
             /\ next' \in [Thread -> 1 .. Len(C) + 1] /\ steady' \in [Thread -> SUBSET Place]
             /\ found' \in [Thread -> Loader(variant)!Library] /\ lib' \in Loader(variant)!Library
           Passed ==
             /\ \A u \in Thread : pc'[u] \in {"search", "open", "configure"} =>
                   \A i \in 1 .. Len(C) :
                       (i < next'[u] /\ C[i] \in steady'[u]) => ~Loader(variant)!Exists(C[i])
             /\ \A u \in Thread : pc'[u] = "open" => next'[u] <= Len(C)
             /\ \A u \in Thread : pc'[u] = "options" => found'[u].abi = "v2"
<1>6. Types /\ Passed
  <2> USE DEF Loader!Goto
  <2>1. CASE Loader(variant)!Cached(t)
    BY <1>1, <1>5, <2>1 DEF Loader!Cached
  <2>2. CASE Loader(variant)!BeginLoad(t)
    BY <1>1, <1>5, <2>2 DEF Loader!BeginLoad
  <2>3. CASE Loader(variant)!Look(t)
    <3>1. /\ pc[t] = "search" /\ next[t] <= Len(C)
          /\ UNCHANGED <<lib, found, steady>>
      BY <2>3, <1>c DEF Loader!Look
    <3>2. CASE pc' = [pc EXCEPT ![t] = "open"] /\ next' = next
      BY <1>1, <1>5, <3>1, <3>2
    <3>3. CASE ~Loader(variant)!Exists(C[next[t]]) /\ next' = [next EXCEPT ![t] = @ + 1] /\ pc' = pc
      <4>1. Types BY <1>1, <1>5, <3>1, <3>3
      <4>2. next[t] \in Nat /\ next'[t] = next[t] + 1 /\ \A u \in Thread \ {t} : next'[u] = next[u]
        BY <1>1, <1>5, <3>3
      <4>3. ASSUME NEW i \in 1 .. Len(C), i < next'[t], C[i] \in steady[t]
            PROVE  ~Loader(variant)!Exists(C[i])
        <5>1. CASE i = next[t] BY <3>3, <5>1
        <5>2. CASE i < next[t] BY <1>5, <3>1, <4>3, <5>2
        <5> QED BY <1>1, <4>2, <4>3, <5>1, <5>2
      <4>4. Passed BY <1>5, <3>1, <3>3, <4>2, <4>3
      <4> QED BY <4>1, <4>4
    <3> QED BY <2>3, <3>2, <3>3, <1>c DEF Loader!Look
  <2>4. CASE Loader(variant)!Open(t)
    <3>1. /\ pc[t] = "open" /\ UNCHANGED <<lib, steady, next>>
          /\ \/ /\ disk[C[next[t]]] \in {"v1", "v2"}
                /\ found' = [found EXCEPT ![t] = [at |-> C[next[t]], abi |-> disk[C[next[t]]]]]
                /\ pc' = [pc EXCEPT ![t] = "configure"]
             \/ pc' = [pc EXCEPT ![t] = "error"] /\ found' = found
      BY <2>4, <1>c DEF Loader!Open, Loader!NotLoadable, Loader!Loads, Loader!Abi
    <3>2. C[next[t]] \in Place BY <1>1, <1>5, <3>1
    <3>3. disk[C[next[t]]] \in {"v1", "v2"} =>
            [at |-> C[next[t]], abi |-> disk[C[next[t]]]] \in Loader(variant)!Library
      BY <3>2 DEF Loader!Library, Loader!Abi
    <3>4. found' \in [Thread -> Loader(variant)!Library] /\ \A u \in Thread \ {t} :
        found'[u] = found[u]
      BY <1>5, <3>1, <3>3
    <3> QED BY <1>5, <3>1, <3>4, ZenonT(60)
  <2>5. CASE Loader(variant)!OpenSystem(t)
    <3>1. /\ pc[t] = "search" /\ UNCHANGED <<lib, steady, next>>
          /\ \/ /\ System \in {"v1", "v2"}
                /\ found' = [found EXCEPT ![t] = [at |-> "system", abi |-> System]]
                /\ pc' = [pc EXCEPT ![t] = "configure"]
             \/ pc' = [pc EXCEPT ![t] = "error"] /\ found' = found
      BY <2>5 DEF Loader!OpenSystem, Loader!Loads, Loader!Abi
    <3>2. System \in {"v1", "v2"} => [at |-> "system", abi |-> System] \in Loader(variant)!Library
      BY DEF Loader!Library, Loader!Abi
    <3>3. found' \in [Thread -> Loader(variant)!Library] /\ \A u \in Thread \ {t} :
        found'[u] = found[u]
      BY <1>5, <3>1, <3>2, ZenonT(60)
    <3> QED BY <1>5, <3>1, <3>3, ZenonT(60)
  <2>6. CASE Loader(variant)!Configure(t)
    BY <1>1, <1>5, <2>6 DEF Loader!Configure
  <2>7. CASE Loader(variant)!Retry(t)
    BY <1>1, <1>5, <2>7 DEF Loader!Retry
  <2>8. CASE Loader(variant)!PassOptions(t)
    BY <1>1, <1>5, <2>8 DEF Loader!PassOptions, Loader!HasFreeze
  <2> QED BY <2>1, <2>2, <2>3, <2>4, <2>5, <2>6, <2>7, <2>8 DEF Loader!Step
<1>7. Loader(variant)!TypeOK'
  BY <1>2, <1>3, <1>6 DEF Loader!TypeOK, SearchInv, C
<1> QED BY <1>3, <1>6, <1>7 DEF SearchInv, C

\* A replaced file is no longer one of the steady ones.
LEMMA RebuildInv ==
    ASSUME Loader(variant)!LoaderAssumption, SearchInv, NEW p \in Place, Loader(variant)!Rebuild(p)
    PROVE  SearchInv'
<1>1. /\ changes < Searches[variant].max_changes /\ changes' = changes + 1
      /\ \E c \in Loader(variant)!Content \ {disk[p]} : disk' = [disk EXCEPT ![p] = c]
      /\ steady' = [t \in Thread |-> steady[t] \ {p}]
      /\ UNCHANGED <<env, lib, pc, next, found>>
  BY DEF Loader!Rebuild
<1>2. Loader(variant)!Candidates' = Loader(variant)!Candidates
  BY <1>1 DEF Loader!Candidates
<1>3. \A q \in Place \ {p} : Loader(variant)!Exists(q)' <=> Loader(variant)!Exists(q)
  BY <1>1 DEF SearchInv, Loader!TypeOK, Loader!Exists
<1>4. Len(Loader(variant)!Candidates) \in Nat /\ \A i \in 1 .. Len(Loader(variant)!Candidates) :
    Loader(variant)!Candidates[i] \in Place
  BY CandidatesAre DEF SearchInv, Loader!TypeOK
<1>5. Loader(variant)!TypeOK'
  BY <1>1, <1>2 DEF SearchInv, Loader!TypeOK, Loader!LoaderAssumption
<1>6. ASSUME NEW t \in Thread, pc[t] \in {"search", "open", "configure"},
             NEW i \in 1 .. Len(Loader(variant)!Candidates), i < next[t],
               Loader(variant)!Candidates[i] \in steady'[t]
      PROVE  ~Loader(variant)!Exists(Loader(variant)!Candidates[i])'
  <2>1. Loader(variant)!Candidates[i] \in Place \ {p} /\ Loader(variant)!Candidates[i] \in steady[t]
    BY <1>1, <1>4, <1>6
  <2>2. ~Loader(variant)!Exists(Loader(variant)!Candidates[i])
    BY <1>6, <2>1 DEF SearchInv
  <2> QED BY <1>2, <1>3, <2>1, <2>2 DEF Loader!Exists
<1>7. \A t \in Thread : pc'[t] = pc[t] /\ next'[t] = next[t] /\ found'[t] = found[t]
  BY <1>1
<1> QED BY <1>2, <1>5, <1>6, <1>7 DEF SearchInv

LEMMA RequestedStepInv ==
    ASSUME Loader(variant)!LoaderAssumption, ~Searches[variant].rebuilds, SearchInv, RequestedInv,
           NEW t \in Thread, Loader(variant)!Step(t)
    PROVE  RequestedInv'
<1>1. env' = env /\ disk' = disk
  BY DEF Loader!Step, Loader!Cached, Loader!BeginLoad, Loader!Look, Loader!Open,
         Loader!OpenSystem, Loader!Configure, Loader!Retry, Loader!PassOptions
<1>2. CASE env = Nothing BY <1>1, <1>2 DEF RequestedInv
<1>3. CASE env # Nothing
  <2>1. /\ Len(Loader(variant)!Candidates) \in Nat /\ Len(Loader(variant)!Candidates) >= 1
           /\ Loader(variant)!Candidates[1] = env
        /\ DOMAIN pc = Thread /\ DOMAIN found = Thread /\ DOMAIN next = Thread
    BY <1>3, CandidatesAre DEF SearchInv, Loader!TypeOK
  <2>2. \A u \in Thread :
          /\ pc[u] \in {"search", "open", "configure"} => next[u] = 1 /\ Loader(variant)!Exists(env)
          /\ pc[u] = "configure" => found[u].at = env
    BY <1>3 DEF RequestedInv
  <2>3. Loader(variant)!Exists(env)' <=> Loader(variant)!Exists(env)
    BY <1>1 DEF Loader!Exists
  <2>4. \A u \in Thread :
          /\ pc'[u] \in {"search", "open", "configure"}
             => next'[u] = 1 /\ Loader(variant)!Exists(env)
          /\ pc'[u] = "configure" => found'[u].at = env
    <3> USE DEF Loader!Goto
    <3>1. CASE Loader(variant)!Cached(t)
      BY <2>1, <2>2, <3>1 DEF Loader!Cached
    <3>2. CASE Loader(variant)!BeginLoad(t)
      BY <1>3, <2>1, <2>2, <3>2 DEF Loader!BeginLoad, Loader!RequestedIsMissing
    <3>3. CASE Loader(variant)!Look(t)
      BY <2>1, <2>2, <3>3 DEF Loader!Look
    <3>4. CASE Loader(variant)!Open(t)
      BY <2>1, <2>2, <3>4 DEF Loader!Open, Loader!NotLoadable
    <3>5. CASE Loader(variant)!OpenSystem(t)
      BY <2>1, <2>2, <3>5 DEF Loader!OpenSystem
    <3>6. CASE Loader(variant)!Configure(t)
      BY <2>1, <2>2, <3>6 DEF Loader!Configure
    <3>7. CASE Loader(variant)!Retry(t)
      BY <2>1, <2>2, <3>7 DEF Loader!Retry
    <3>8. CASE Loader(variant)!PassOptions(t)
      BY <2>1, <2>2, <3>8 DEF Loader!PassOptions
    <3> QED BY <3>1, <3>2, <3>3, <3>4, <3>5, <3>6, <3>7, <3>8 DEF Loader!Step
  <2> QED BY <1>1, <2>3, <2>4 DEF RequestedInv
<1> QED BY <1>2, <1>3

LEMMA SearchKept == Loader(variant)!LoaderAssumption => (Loader(variant)!Spec => []SearchInv)
<1> SUFFICES ASSUME Loader(variant)!LoaderAssumption
             PROVE  Loader(variant)!Spec => []SearchInv
  OBVIOUS
<1>1. Loader(variant)!Init => SearchInv BY LoaderInitInv
<1>2. SearchInv /\ [Loader(variant)!Next]_(Loader(variant)!vars) => SearchInv'
  <2> SUFFICES ASSUME SearchInv, [Loader(variant)!Next]_(Loader(variant)!vars)
               PROVE  SearchInv'
    OBVIOUS
  <2>1. CASE Loader(variant)!Next
    BY <2>1, LoaderStepInv, RebuildInv DEF Loader!Next
  <2>2. CASE UNCHANGED Loader(variant)!vars
    BY <2>2 DEF Loader!vars, SearchInv, Loader!TypeOK, Loader!Candidates, Loader!Exists
  <2> QED BY <2>1, <2>2
<1> QED BY <1>1, <1>2, PTL DEF Loader!Spec

LEMMA RequestedKept ==
    Loader(variant)!LoaderAssumption /\ ~Searches[variant].rebuilds
      => (Loader(variant)!Spec => []RequestedInv)
<1> SUFFICES ASSUME Loader(variant)!LoaderAssumption, ~Searches[variant].rebuilds
             PROVE  Loader(variant)!Spec => []RequestedInv
  OBVIOUS
<1>1. Loader(variant)!Init => RequestedInv BY LoaderInitInv
<1>2. SearchInv /\ RequestedInv /\ [Loader(variant)!Next]_(Loader(variant)!vars) => RequestedInv'
  <2> SUFFICES ASSUME SearchInv, RequestedInv, [Loader(variant)!Next]_(Loader(variant)!vars)
               PROVE  RequestedInv'
    OBVIOUS
  <2>1. CASE Loader(variant)!Next
    BY <2>1, RequestedStepInv DEF Loader!Next, Loader!Rebuild
  <2>2. CASE UNCHANGED Loader(variant)!vars
    BY <2>2 DEF Loader!vars, RequestedInv, Loader!Exists
  <2> QED BY <2>1, <2>2
<1> QED BY <1>1, <1>2, SearchKept, PTL DEF Loader!Spec

\* Whatever other threads load and a build replaces, a search ends at the most
\* specific library that stayed, and options go only to a library that knows them;
\* while no file changes, the requested library is the one that is loaded.
THEOREM SearchIsOrdered == RuntimeSpec /\ program = variant => []NotPassedOver
<1>1. CASE variant \in DOMAIN Searches
  <2>1. Loader(variant)!LoaderAssumption BY <1>1, PartsAssumption
  <2>2. SearchInv /\ program = variant
        /\ (~Searches[variant].rebuilds => RequestedInv) => NotPassedOver
    BY DEF NotPassedOver, SearchInv, RequestedInv, Loader!NotPassedOver, Loader!OptionsUnderstood,
           Loader!NeverSubstituted
  <2>3. CASE Searches[variant].rebuilds
    BY <1>1, <2>1, <2>2, <2>3, LoaderRuns, SearchKept, ProgramStays, PTL
  <2>4. CASE ~Searches[variant].rebuilds
    BY <1>1, <2>1, <2>2, <2>4, LoaderRuns, SearchKept, RequestedKept, ProgramStays, PTL
  <2> QED BY <2>3, <2>4
<1>2. CASE variant \notin DOMAIN Searches
  <2>1. program = variant => NotPassedOver BY <1>2 DEF NotPassedOver
  <2> QED BY <2>1, ProgramStays, PTL
<1> QED BY <1>1, <1>2

------------------------------
(* FaultInjection *)

\* The cardinality of the instance is that of FiniteSets.
LEMMA FailpointCardinality ==
    ASSUME NEW S PROVE Failpoints!Cardinality(S) = Cardinality(S)
  BY DEF Failpoints!Cardinality, Cardinality

CheckState ==
    [point : Object \cup {Nothing}, at : 0 .. Slots,
      step : {"idle", "scan", "count", "clear", "release"}]

FaultTypes ==
    /\ name \in [Failpoints!Slot -> Object \cup {Nothing}]
    /\ remaining \in [Failpoints!Slot -> Int]
    /\ check \in [Thread -> CheckState]
    /\ hits \in [Object -> Nat] /\ fires \in [Object -> Nat] /\ asked \in [Object -> Nat]
    /\ \A t \in Thread :
          IF check[t].step = "idle" THEN check[t] = Failpoints!Idle
          ELSE check[t].point \in Object /\ check[t].at \in Failpoints!Slot

\* The checks of a point that have not counted yet, and the one that fires it.
Waiting(n) == {t \in Thread : check[t].point = n /\ check[t].step \in {"scan", "count"}}
Firing(n) == {t \in Thread : check[t].point = n /\ check[t].step \in {"clear", "release"}}

\* A live point: every hit has counted or is on its way to the slot.
Unspent(n) ==
    /\ fires[n] = 0 /\ Firing(n) = {}
    /\ \E s \in Failpoints!Slot :
          /\ name[s] = n /\ remaining[s] >= 1
          /\ hits[n] = asked[n] - remaining[s] + Cardinality(Waiting(n))
          /\ \A t \in Waiting(n) : IF check[t].step = "scan" THEN check[t].at <= s
             ELSE check[t].at = s

\* A point whose countdown has ended: exactly one check has fired it, or is
\* about to, and those that still count find nothing left.
Spent(n) ==
    /\ hits[n] >= asked[n]
    /\ \A t \in Waiting(n) : check[t].step = "count" => remaining[check[t].at] <= 0
    /\ \/ fires[n] = 1 /\ Firing(n) = {} /\ Failpoints!Named(n) = {}
       \/ /\ fires[n] = 0
          /\ \E t \in Thread :
                /\ Firing(n) = {t}
                /\ IF check[t].step = "clear" THEN remaining[check[t].at] <= 0
                                              ELSE Failpoints!Named(n) = {}

Unasked(n) ==
    /\ Failpoints!Named(n) = {} /\ Firing(n) = {}
    /\ \A t \in Waiting(n) : check[t].step = "scan"

PointInv(n) == /\ IsFiniteSet(Waiting(n))
               /\ IF asked[n] > 0 THEN Unspent(n) \/ Spent(n) ELSE Unasked(n)

\* The slots that g_armed counts: the named ones, and the one a firing check has
\* cleared and not yet taken off the count.
LiveSlots ==
    {s \in Failpoints!Slot :
        name[s] # Nothing \/ \E t \in Thread : check[t].step = "release" /\ check[t].at = s}

SlotInv ==
    /\ g_armed = Cardinality(LiveSlots)
    /\ \A s, r \in Failpoints!Slot : name[s] = name[r] /\ name[s] # Nothing => s = r
    /\ \A t \in Thread :
          /\ check[t].step = "count" => name[check[t].at] \in {check[t].point, Nothing}
          /\ check[t].step = "clear" => name[check[t].at] = check[t].point
          /\ check[t].step = "release" => name[check[t].at] = Nothing
          /\ \A u \in Thread :
                check[t].step = "release" /\ check[u].step = "release" /\ check[t].at = check[u].at
                  => t = u

FaultInv == FaultTypes /\ SlotInv /\ \A n \in Object : PointInv(n)

LEMMA FaultFacts ==
    ASSUME Failpoints!FaultAssumption
    PROVE  /\ Slots \in Nat \ {0} /\ Nothing \notin Object
           /\ IsFiniteSet(Failpoints!Slot)
           /\ \A S \in SUBSET Failpoints!Slot : IsFiniteSet(S) /\ Cardinality(S) \in Nat
           /\ Failpoints!Idle \in CheckState
           /\ Failpoints!Idle.step = "idle" /\ Failpoints!Idle.point = Nothing
<1>1. Slots \in Nat \ {0} /\ Nothing \notin Object
  BY DEF Failpoints!FaultAssumption
<1>2. IsFiniteSet(Failpoints!Slot)
  BY <1>1, FS_Interval DEF Failpoints!Slot
<1>3. \A S \in SUBSET Failpoints!Slot : IsFiniteSet(S) /\ Cardinality(S) \in Nat
  BY <1>2, FS_Subset, FS_CardinalityType
<1>4. /\ Failpoints!Idle \in CheckState
      /\ Failpoints!Idle.step = "idle" /\ Failpoints!Idle.point = Nothing
  BY <1>1 DEF Failpoints!Idle, CheckState
<1> QED BY <1>1, <1>2, <1>3, <1>4

LEMMA FaultInit ==
    ASSUME Failpoints!FaultAssumption, Failpoints!Init
    PROVE  FaultInv
<1>1. FaultTypes BY FaultFacts DEF Failpoints!Init, FaultTypes
<1>2. \A n \in Object : Waiting(n) = {} /\ Firing(n) = {} /\ Failpoints!Named(n) = {}
  BY FaultFacts DEF Failpoints!Init, Waiting, Firing, Failpoints!Named, Failpoints!Idle
<1>3. \A n \in Object : PointInv(n)
  BY <1>2, FS_EmptySet DEF PointInv, Unasked, Failpoints!Init
<1>4. LiveSlots = {} BY FaultFacts DEF Failpoints!Init, LiveSlots
<1>5. SlotInv
  BY <1>4, FaultFacts, FS_EmptySet DEF Failpoints!Init, SlotInv
<1> QED BY <1>1, <1>3, <1>5 DEF FaultInv

\* While nothing is checked no check waits or fires.
LEMMA QuietPoints ==
    ASSUME Failpoints!FaultAssumption, FaultTypes, Failpoints!Quiet
    PROVE  /\ \A n \in Object : Waiting(n) = {} /\ Firing(n) = {}
           /\ \A t \in Thread : check[t].step = "idle"
           /\ LiveSlots = {s \in Failpoints!Slot : name[s] # Nothing}
  BY FaultFacts DEF Failpoints!Quiet, Waiting, Firing, LiveSlots

LEMMA ArmInv ==
    ASSUME Failpoints!FaultAssumption, FaultInv, NEW n \in Object, NEW nth \in 1 .. MaxNth,
           Failpoints!Arm(n, nth)
    PROVE  FaultInv'
<1>1. /\ Failpoints!Quiet /\ nth \in Nat \ {0}
      /\ hits' = [hits EXCEPT ![n] = 0] /\ fires' = [fires EXCEPT ![n] = 0]
      /\ asked' = [asked EXCEPT ![n] = nth] /\ check' = check
  BY DEF Failpoints!Arm, Failpoints!FaultAssumption
<1>2. PICK s \in Failpoints!SlotFor(n) :
        /\ name' = [name EXCEPT ![s] = n] /\ remaining' = [remaining EXCEPT ![s] = nth]
        /\ g_armed' = IF name[s] = Nothing THEN g_armed + 1 ELSE g_armed
  BY DEF Failpoints!Arm, Failpoints!Countdown, Failpoints!CountArmed
<1>3. /\ s \in Failpoints!Slot
      /\ name[s] = n \/ (name[s] = Nothing /\ Failpoints!Named(n) = {})
  BY <1>2 DEF Failpoints!SlotFor, Failpoints!Named
<1>4. /\ \A m \in Object : Waiting(m) = {} /\ Firing(m) = {} /\ Waiting(m)' = {} /\ Firing(m)' = {}
      /\ \A t \in Thread : check[t].step = "idle"
      /\ LiveSlots = {r \in Failpoints!Slot : name[r] # Nothing}
  BY <1>1, QuietPoints DEF FaultInv, Waiting, Firing
<1>5. FaultTypes' BY <1>1, <1>2, <1>3 DEF FaultInv, FaultTypes
<1>6. SlotInv'
  <2>1. LiveSlots' = LiveSlots \cup {s}
    BY <1>1, <1>2, <1>3, <1>4, FaultFacts DEF LiveSlots, FaultInv, FaultTypes
  <2>2. IsFiniteSet(LiveSlots) /\ (s \in LiveSlots <=> name[s] # Nothing)
    BY <1>3, <1>4, FaultFacts DEF LiveSlots
  <2>3. g_armed' = Cardinality(LiveSlots')
    BY <1>2, <2>1, <2>2, FS_AddElement DEF FaultInv, SlotInv
  <2>4. \A q, r \in Failpoints!Slot : name'[q] = name'[r] /\ name'[q] # Nothing => q = r
    BY <1>2, <1>3 DEF FaultInv, SlotInv, FaultTypes, Failpoints!Named
  <2> QED BY <1>1, <1>4, <2>3, <2>4 DEF SlotInv
<1>7. ASSUME NEW m \in Object
      PROVE  PointInv(m)'
  <2>1. IsFiniteSet(Waiting(m)') /\ Cardinality(Waiting(m)') = 0
    BY <1>4, FS_EmptySet
  <2>2. CASE m = n
    <3>1. Unspent(m)'
      BY <1>1, <1>2, <1>3, <1>4, <2>1, <2>2 DEF Unspent, FaultInv, FaultTypes
    <3> QED BY <1>1, <2>1, <3>1, <2>2 DEF PointInv, FaultInv, FaultTypes
  <2>3. CASE m # n
    <3>1. /\ hits'[m] = hits[m] /\ fires'[m] = fires[m] /\ asked'[m] = asked[m]
          /\ \A r \in Failpoints!Slot : name'[r] = m <=> name[r] = m
          /\ \A r \in Failpoints!Slot : name[r] = m => remaining'[r] = remaining[r]
      BY <1>1, <1>2, <1>3, <2>3, FaultFacts DEF FaultInv, FaultTypes
    <3>2. Failpoints!Named(m)' = Failpoints!Named(m)
      BY <3>1 DEF Failpoints!Named
    <3>3. CASE asked[m] > 0 /\ Unspent(m)
      <4>1. Unspent(m)' BY <1>4, <2>1, <3>1, <3>3 DEF Unspent
      <4> QED BY <2>1, <3>1, <3>3, <4>1 DEF PointInv
    <3>4. CASE asked[m] > 0 /\ Spent(m)
      <4>1. fires[m] = 1 /\ Failpoints!Named(m) = {} /\ hits[m] >= asked[m]
        BY <1>4, <3>4 DEF Spent
      <4>2. Spent(m)' BY <1>4, <3>1, <3>2, <4>1 DEF Spent
      <4> QED BY <2>1, <3>1, <3>4, <4>2 DEF PointInv
    <3>5. CASE ~(asked[m] > 0)
      BY <1>4, <2>1, <3>1, <3>2, <3>5 DEF PointInv, Unasked, FaultInv
    <3> QED BY <3>3, <3>4, <3>5 DEF PointInv, FaultInv
  <2> QED BY <2>2, <2>3
<1> QED BY <1>5, <1>6, <1>7 DEF FaultInv

LEMMA DisarmInv ==
    ASSUME Failpoints!FaultAssumption, FaultInv, NEW n \in Object, Failpoints!Disarm(n)
    PROVE  FaultInv'
<1>1. /\ Failpoints!Quiet /\ asked' = [asked EXCEPT ![n] = 0] /\ g_armed' = g_armed - 1
      /\ UNCHANGED <<remaining, check, hits, fires>>
  BY DEF Failpoints!Disarm
<1>2. PICK s \in Failpoints!Slot : name[s] = n /\ name' = [name EXCEPT ![s] = Nothing]
  BY DEF Failpoints!Disarm, Failpoints!Named
<1>3. /\ \A m \in Object : Waiting(m) = {} /\ Firing(m) = {} /\ Waiting(m)' = {} /\ Firing(m)' = {}
      /\ \A t \in Thread : check[t].step = "idle"
      /\ LiveSlots = {r \in Failpoints!Slot : name[r] # Nothing}
  BY <1>1, QuietPoints DEF FaultInv, Waiting, Firing
<1>4. FaultTypes' BY <1>1, <1>2 DEF FaultInv, FaultTypes
<1>5. SlotInv'
  <2>1. LiveSlots' = LiveSlots \ {s} /\ s \in LiveSlots
    BY <1>1, <1>2, <1>3, FaultFacts DEF LiveSlots, FaultInv, FaultTypes
  <2>2. IsFiniteSet(LiveSlots) BY FaultFacts DEF LiveSlots
  <2>3. g_armed' = Cardinality(LiveSlots')
    BY <1>1, <2>1, <2>2, FS_RemoveElement DEF FaultInv, SlotInv
  <2>4. \A q, r \in Failpoints!Slot : name'[q] = name'[r] /\ name'[q] # Nothing => q = r
    BY <1>2 DEF FaultInv, SlotInv, FaultTypes
  <2> QED BY <1>1, <1>3, <2>3, <2>4 DEF SlotInv
<1>6. ASSUME NEW m \in Object
      PROVE  PointInv(m)'
  <2>1. IsFiniteSet(Waiting(m)') /\ Cardinality(Waiting(m)') = 0
    BY <1>3, FS_EmptySet
  <2>2. CASE m = n
    <3>1. Failpoints!Named(m)' = {}
      BY <1>2, <2>2, FaultFacts DEF FaultInv, SlotInv, FaultTypes, Failpoints!Named
    <3> QED BY <1>1, <1>3, <2>1, <2>2, <3>1 DEF PointInv, Unasked, FaultInv, FaultTypes
  <2>3. CASE m # n
    <3>1. /\ hits'[m] = hits[m] /\ fires'[m] = fires[m] /\ asked'[m] = asked[m]
          /\ remaining' = remaining
          /\ \A r \in Failpoints!Slot : name'[r] = m <=> name[r] = m
      BY <1>1, <1>2, <2>3, FaultFacts DEF FaultInv, FaultTypes
    <3>2. Failpoints!Named(m)' = Failpoints!Named(m)
      BY <3>1 DEF Failpoints!Named
    <3>3. CASE asked[m] > 0 /\ Unspent(m)
      <4>1. Unspent(m)' BY <1>3, <2>1, <3>1, <3>3 DEF Unspent
      <4> QED BY <2>1, <3>1, <3>3, <4>1 DEF PointInv
    <3>4. CASE asked[m] > 0 /\ Spent(m)
      <4>1. fires[m] = 1 /\ Failpoints!Named(m) = {} /\ hits[m] >= asked[m]
        BY <1>3, <3>4 DEF Spent
      <4>2. Spent(m)' BY <1>3, <3>1, <3>2, <4>1 DEF Spent
      <4> QED BY <2>1, <3>1, <3>4, <4>2 DEF PointInv
    <3>5. CASE ~(asked[m] > 0)
      BY <1>3, <2>1, <3>1, <3>2, <3>5 DEF PointInv, Unasked, FaultInv
    <3> QED BY <3>3, <3>4, <3>5 DEF PointInv, FaultInv
  <2> QED BY <2>2, <2>3
<1> QED BY <1>4, <1>5, <1>6 DEF FaultInv

\* A check of one point leaves what is known of the others.
LEMMA OtherPoints ==
    ASSUME Failpoints!FaultAssumption, FaultInv, NEW t \in Thread, NEW n \in Object,
           NEW m \in Object \ {n},
           check[t].point \in {n, Nothing}, check'[t].point \in {n, Nothing},
           \A u \in Thread \ {t} : check'[u] = check[u],
           hits'[m] = hits[m], fires'[m] = fires[m], asked'[m] = asked[m],
           \A r \in Failpoints!Slot : name'[r] = m <=> name[r] = m,
           remaining' \in [Failpoints!Slot -> Int],
           \A r \in Failpoints!Slot : remaining'[r] <= remaining[r],
           \A r \in Failpoints!Slot : name[r] = m => remaining'[r] = remaining[r]
    PROVE  PointInv(m)'
<1>1. /\ Waiting(m)' = Waiting(m) /\ Firing(m)' = Firing(m)
      /\ Failpoints!Named(m)' = Failpoints!Named(m)
      /\ \A u \in Waiting(m) \cup Firing(m) : check'[u] = check[u]
  BY FaultFacts DEF Waiting, Firing, Failpoints!Named
<1>2. PointInv(m) BY DEF FaultInv
<1>3. \A u \in Waiting(m) \cup Firing(m) :
         /\ check[u].at \in Failpoints!Slot
         /\ remaining[check[u].at] \in Int
         /\ remaining'[check[u].at] \in Int
         /\ remaining'[check[u].at] <= remaining[check[u].at]
  BY DEF FaultInv, FaultTypes, Waiting, Firing
<1>4. CASE asked[m] > 0 /\ Unspent(m)
  <2>1. Unspent(m)' BY <1>1, <1>4 DEF Unspent
  <2> QED BY <1>1, <1>2, <1>4, <2>1 DEF PointInv
<1>5. CASE asked[m] > 0 /\ Spent(m)
  <2>1. \A u \in Waiting(m)' : check'[u].step = "count" => remaining'[check'[u].at] <= 0
    <3> SUFFICES ASSUME NEW u \in Waiting(m), check[u].step = "count"
                 PROVE  remaining'[check[u].at] <= 0
      BY <1>1
    <3>1. remaining[check[u].at] <= 0 BY <1>5 DEF Spent
    <3> QED BY <1>1, <1>3, <3>1
  <2>2. \/ fires'[m] = 1 /\ Firing(m)' = {} /\ Failpoints!Named(m)' = {}
        \/ /\ fires'[m] = 0
           /\ \E u \in Thread :
                 /\ Firing(m)' = {u}
                 /\ IF check'[u].step = "clear" THEN remaining'[check'[u].at] <= 0
                                                ELSE Failpoints!Named(m)' = {}
    <3>1. CASE fires[m] = 1 /\ Firing(m) = {} /\ Failpoints!Named(m) = {}
      BY <1>1, <3>1
    <3>2. CASE fires[m] # 1
      <4>1. PICK u \in Thread :
              /\ Firing(m) = {u}
              /\ IF check[u].step = "clear" THEN remaining[check[u].at] <= 0
                                            ELSE Failpoints!Named(m) = {}
        BY <1>5, <3>2 DEF Spent
      <4>2. check'[u] = check[u] /\ remaining'[check[u].at] <= remaining[check[u].at]
            /\ remaining[check[u].at] \in Int /\ remaining'[check[u].at] \in Int
        BY <1>1, <1>3, <4>1
      <4>3. fires'[m] = 0 /\ Firing(m)' = {u}
        BY <1>1, <1>5, <3>2, <4>1 DEF Spent
      <4>4. CASE check[u].step = "clear" BY <4>1, <4>2, <4>3, <4>4
      <4>5. CASE check[u].step # "clear" BY <4>1, <4>2, <4>3, <4>5, <1>1
      <4> QED BY <4>4, <4>5
    <3> QED BY <1>5, <3>1, <3>2 DEF Spent
  <2>3. Spent(m)' BY <1>5, <2>1, <2>2 DEF Spent
  <2> QED BY <1>1, <1>2, <1>5, <2>3 DEF PointInv
<1>6. CASE ~(asked[m] > 0) BY <1>1, <1>2, <1>6 DEF PointInv, Unasked
<1> QED BY <1>2, <1>4, <1>5, <1>6 DEF PointInv

LEMMA CheckInv ==
    ASSUME Failpoints!FaultAssumption, FaultInv, NEW t \in Thread, NEW n \in Object,
           Failpoints!Check(t, n)
    PROVE  FaultInv'
<1>1. /\ check[t] = Failpoints!Idle
      /\ check' = IF g_armed = 0 THEN check
                  ELSE [check EXCEPT ![t] = [point |-> n, at |-> 1, step |-> "scan"]]
      /\ hits' = [hits EXCEPT ![n] = @ + 1]
      /\ UNCHANGED <<name, remaining, g_armed, fires, asked>>
  BY DEF Failpoints!Check, Failpoints!points
<1>2. [point |-> n, at |-> 1, step |-> "scan"] \in CheckState /\ 1 \in Failpoints!Slot
  BY FaultFacts DEF CheckState, Failpoints!Slot
<1>3. FaultTypes'
  <2>1. hits' \in [Object -> Nat] BY <1>1 DEF FaultInv, FaultTypes
  <2> QED BY <1>1, <1>2, <2>1 DEF FaultInv, FaultTypes
<1>4. SlotInv'
  <2>1. \A u \in Thread :
           check[u].step \in {"count", "clear", "release"}
             \/ check'[u].step \in {"count", "clear", "release"}
              => check'[u] = check[u]
    BY <1>1, FaultFacts DEF FaultInv, FaultTypes
  <2>2. LiveSlots' = LiveSlots BY <1>1, <2>1 DEF LiveSlots
  <2> QED BY <1>1, <2>1, <2>2 DEF FaultInv, SlotInv
<1>5. PointInv(n)'
  <2>1. /\ hits[n] \in Nat /\ hits'[n] = hits[n] + 1 /\ asked[n] \in Nat /\ PointInv(n)
        /\ t \notin Waiting(n) /\ t \notin Firing(n)
    BY <1>1, FaultFacts DEF FaultInv, FaultTypes, Waiting, Firing
  <2>2. CASE g_armed = 0
    <3>1. LiveSlots = {}
      BY <2>2, FaultFacts, FS_EmptySet DEF FaultInv, SlotInv, LiveSlots
    <3>2. ~Unspent(n) BY <3>1, FaultFacts DEF Unspent, LiveSlots
    <3>3. /\ Waiting(n)' = Waiting(n) /\ Firing(n)' = Firing(n) /\ check' = check
          /\ Failpoints!Named(n)' = Failpoints!Named(n)
      BY <1>1, <2>2 DEF Waiting, Firing, Failpoints!Named
    <3>4. Spent(n) => Spent(n)' BY <1>1, <2>1, <3>3 DEF Spent
    <3> QED BY <1>1, <2>1, <3>2, <3>3, <3>4 DEF PointInv, Unasked
  <2>3. CASE g_armed # 0
    <3>1. /\ Waiting(n)' = Waiting(n) \cup {t} /\ Firing(n)' = Firing(n)
          /\ Failpoints!Named(n)' = Failpoints!Named(n)
          /\ check'[t].step = "scan" /\ check'[t].at = 1
          /\ \A u \in Thread \ {t} : check'[u] = check[u]
      BY <1>1, <2>1, <2>3 DEF Waiting, Firing, Failpoints!Named, FaultInv, FaultTypes
    <3>2. /\ IsFiniteSet(Waiting(n)) /\ IsFiniteSet(Waiting(n)')
          /\ Cardinality(Waiting(n)') = Cardinality(Waiting(n)) + 1
          /\ Cardinality(Waiting(n)) \in Nat
      BY <2>1, <3>1, FS_AddElement, FS_CardinalityType DEF PointInv
    <3>3. CASE asked[n] > 0 /\ Unspent(n)
      <4>1. PICK s \in Failpoints!Slot :
              /\ name[s] = n /\ remaining[s] >= 1
              /\ hits[n] = asked[n] - remaining[s] + Cardinality(Waiting(n))
              /\ \A u \in Waiting(n) :
                    IF check[u].step = "scan" THEN check[u].at <= s ELSE check[u].at = s
        BY <3>3 DEF Unspent
      <4>2. s >= 1 /\ remaining[s] \in Int
        BY FaultFacts DEF Failpoints!Slot, FaultInv, FaultTypes
      <4>3. hits'[n] = asked[n] - remaining[s] + Cardinality(Waiting(n)')
        BY <2>1, <3>2, <4>1, <4>2
      <4>4. ASSUME NEW u \in Waiting(n)'
            PROVE  IF check'[u].step = "scan" THEN check'[u].at <= s ELSE check'[u].at = s
        <5>1. CASE u = t BY <3>1, <4>2, <5>1
        <5>2. CASE u # t BY <3>1, <4>1, <5>2 DEF Waiting
        <5> QED BY <5>1, <5>2
      <4>5. Unspent(n)'
        BY <1>1, <3>1, <3>3, <4>1, <4>3, <4>4 DEF Unspent
      <4> QED BY <1>1, <3>2, <3>3, <4>5 DEF PointInv
    <3>4. CASE asked[n] > 0 /\ Spent(n)
      <4>1. \A u \in Firing(n) : check'[u] = check[u]
        BY <2>1, <3>1 DEF Firing
      <4>2. Spent(n)' BY <1>1, <2>1, <3>1, <3>4, <4>1 DEF Spent
      <4> QED BY <1>1, <3>2, <3>4, <4>2 DEF PointInv
    <3>5. CASE ~(asked[n] > 0)
      BY <1>1, <2>1, <3>1, <3>2, <3>5 DEF PointInv, Unasked
    <3> QED BY <2>1, <3>3, <3>4, <3>5 DEF PointInv
  <2> QED BY <2>2, <2>3
<1>6. ASSUME NEW m \in Object \ {n}
      PROVE  PointInv(m)'
  <2>1. /\ check[t].point \in {n, Nothing} /\ check'[t].point \in {n, Nothing}
        /\ \A u \in Thread \ {t} : check'[u] = check[u]
        /\ hits'[m] = hits[m] /\ fires'[m] = fires[m] /\ asked'[m] = asked[m]
    BY <1>1, FaultFacts DEF FaultInv, FaultTypes
  <2>2. \A r \in Failpoints!Slot : remaining'[r] <= remaining[r]
    BY <1>1 DEF FaultInv, FaultTypes
  <2> QED BY <1>1, <1>3, <2>1, <2>2, OtherPoints DEF FaultTypes
<1> QED BY <1>3, <1>4, <1>5, <1>6 DEF FaultInv

LEMMA RunningCheck ==
    ASSUME Failpoints!FaultAssumption, FaultInv, NEW t \in Thread, check[t].step # "idle"
    PROVE  /\ check[t] \in CheckState
           /\ check[t].point \in Object /\ check[t].at \in Failpoints!Slot
           /\ check[t].at \in 1 .. Slots /\ Slots \in Nat
           /\ remaining[check[t].at] \in Int
           /\ hits[check[t].point] \in Nat /\ asked[check[t].point] \in Nat
           /\ PointInv(check[t].point)
           /\ IsFiniteSet(Waiting(check[t].point)) /\ Cardinality(Waiting(check[t].point)) \in Nat
  BY FaultFacts, FS_CardinalityType DEF FaultInv, FaultTypes, Failpoints!Slot, PointInv

\* A check that only moves on, or that returns, without firing.
LEMMA ScanInv ==
    ASSUME Failpoints!FaultAssumption, FaultInv, NEW t \in Thread,
           Failpoints!SkipSlot(t) \/ Failpoints!MatchSlot(t)
    PROVE  FaultInv'
<1>0. check[t].step = "scan"
  BY DEF Failpoints!SkipSlot, Failpoints!MatchSlot
<1>p. PICK n \in Object, a \in Failpoints!Slot : n = check[t].point /\ a = check[t].at
  BY <1>0, RunningCheck
<1>1. /\ check[t].step = "scan" /\ UNCHANGED <<name, remaining, g_armed, hits, fires, asked>>
      /\ \/ name[a] # n /\ a < Slots
           /\ check' = [check EXCEPT ![t] = [check[t] EXCEPT !.at = a + 1, !.step = "scan"]]
         \/ name[a] # n /\ ~(a < Slots) /\ check' = [check EXCEPT ![t] = Failpoints!Idle]
         \/ name[a] = n
           /\ check' = [check EXCEPT ![t] = [check[t] EXCEPT !.at = a, !.step = "count"]]
  BY <1>p DEF Failpoints!SkipSlot, Failpoints!MatchSlot, Failpoints!Step, Failpoints!Return,
         Failpoints!points, Failpoints!history, FaultInv, FaultTypes
<1>2. /\ check[t] \in CheckState /\ n \in Object /\ a \in Failpoints!Slot /\ a \in 1 .. Slots
      /\ Slots \in Nat /\ PointInv(n) /\ IsFiniteSet(Waiting(n)) /\ Cardinality(Waiting(n)) \in Nat
      /\ t \in Waiting(n) /\ t \notin Firing(n)
  BY <1>p, <1>1, RunningCheck DEF Waiting, Firing
<1>3. /\ check' \in [Thread -> CheckState]
      /\ \A u \in Thread \ {t} : check'[u] = check[u]
      /\ \/ /\ name[a] # n /\ a < Slots
            /\ check'[t].point = n /\ check'[t].at = a + 1 /\ check'[t].step = "scan"
         \/ name[a] # n /\ ~(a < Slots) /\ check'[t] = Failpoints!Idle
         \/ name[a] = n /\ check'[t].point = n /\ check'[t].at = a /\ check'[t].step = "count"
  <2>1. check \in [Thread -> CheckState] BY DEF FaultInv, FaultTypes
  <2>2. a < Slots => [check[t] EXCEPT !.at = a + 1, !.step = "scan"] \in CheckState
    <3>1. a < Slots => a + 1 \in 0 .. Slots BY <1>2
    <3> QED BY <1>2, <3>1 DEF CheckState
  <2>3. [check[t] EXCEPT !.at = a, !.step = "count"] \in CheckState
    <3>1. a \in 0 .. Slots BY <1>2
    <3> QED BY <1>2, <3>1 DEF CheckState
  <2>4. check' \in [Thread -> CheckState]
    BY <1>1, <2>1, <2>2, <2>3, FaultFacts
  <2>5. [check[t] EXCEPT !.at = a + 1, !.step = "scan"].point = check[t].point
        /\ [check[t] EXCEPT !.at = a + 1, !.step = "scan"].at = a + 1
        /\ [check[t] EXCEPT !.at = a + 1, !.step = "scan"].step = "scan"
    BY <1>2 DEF CheckState
  <2>6. [check[t] EXCEPT !.at = a, !.step = "count"].point = check[t].point
        /\ [check[t] EXCEPT !.at = a, !.step = "count"].at = a
        /\ [check[t] EXCEPT !.at = a, !.step = "count"].step = "count"
    BY <1>2 DEF CheckState
  <2> QED BY <1>p, <1>1, <2>1, <2>4, <2>5, <2>6
<1>4. FaultTypes'
  <2>1. \A u \in Thread :
           IF check'[u].step = "idle" THEN check'[u] = Failpoints!Idle
           ELSE check'[u].point \in Object /\ check'[u].at \in Failpoints!Slot
    <3>1. a < Slots => a + 1 \in Failpoints!Slot
      BY <1>2 DEF Failpoints!Slot
    <3> QED BY <1>2, <1>3, <3>1, FaultFacts DEF FaultInv, FaultTypes
  <2> QED BY <1>1, <1>3, <2>1 DEF FaultInv, FaultTypes
<1>5. SlotInv'
  <2>1. \A u \in Thread : check[u].step \in {"clear", "release"}
      \/ check'[u].step \in {"clear", "release"}
           => check'[u] = check[u]
    BY <1>1, <1>3, FaultFacts
  <2>2. LiveSlots' = LiveSlots BY <1>1, <2>1 DEF LiveSlots
  <2>3. \A u \in Thread : check'[u].step = "count" =>
           check'[u] = check[u] \/ name[check'[u].at] = check'[u].point
    BY <1>2, <1>3, FaultFacts
  <2> QED BY <1>1, <2>1, <2>2, <2>3 DEF FaultInv, SlotInv
<1>6. PointInv(n)'
  <2>1. /\ Firing(n)' = Firing(n) /\ Failpoints!Named(n)' = Failpoints!Named(n)
        /\ \A u \in Firing(n) : check'[u] = check[u]
        /\ Waiting(n)' \subseteq Waiting(n)
        /\ check'[t].step # "idle" => Waiting(n)' = Waiting(n)
    BY <1>1, <1>2, <1>3, FaultFacts DEF Firing, Waiting, Failpoints!Named
  <2>2. IsFiniteSet(Waiting(n)') BY <1>2, <2>1, FS_Subset
  <2>3. CASE asked[n] > 0 /\ Unspent(n)
    <3>1. PICK s \in Failpoints!Slot :
            /\ name[s] = n /\ remaining[s] >= 1
            /\ hits[n] = asked[n] - remaining[s] + Cardinality(Waiting(n))
            /\ \A u \in Waiting(n) :
                  IF check[u].step = "scan" THEN check[u].at <= s ELSE check[u].at = s
      BY <2>3 DEF Unspent
    <3>2. a <= s /\ s \in 1 .. Slots
      BY <1>p, <1>1, <1>2, <3>1 DEF Failpoints!Slot
    <3>3. name[a] = n => a = s
      BY <1>2, <3>1, FaultFacts DEF FaultInv, SlotInv
    <3>4. name[a] # n => a < s BY <1>2, <3>1, <3>2
    <3>5. ASSUME NEW u \in Waiting(n)
          PROVE  IF check'[u].step = "scan" THEN check'[u].at <= s ELSE check'[u].at = s
      <4>1. CASE u = t BY <1>p, <1>2, <1>3, <3>2, <3>3, <3>4, <4>1
      <4>2. CASE u # t BY <1>3, <3>1, <4>2 DEF Waiting
      <4> QED BY <4>1, <4>2
    <3>6. Waiting(n)' = Waiting(n) BY <1>2, <1>3, <2>1, <3>2, <3>4
    <3>7. Unspent(n)' BY <1>1, <2>1, <2>3, <3>1, <3>5, <3>6 DEF Unspent
    <3> QED BY <1>1, <2>2, <2>3, <3>7 DEF PointInv
  <2>4. CASE asked[n] > 0 /\ Spent(n)
    <3>1. name[a] = n => remaining[a] <= 0
      <4> SUFFICES ASSUME name[a] = n
                   PROVE  remaining[a] <= 0
        OBVIOUS
      <4>1. Failpoints!Named(n) # {} BY <1>2 DEF Failpoints!Named
      <4>2. PICK u \in Thread : Firing(n) = {u} /\ check[u].step = "clear"
          /\ remaining[check[u].at] <= 0
        BY <2>4, <4>1 DEF Spent
      <4>3. name[check[u].at] = n /\ check[u].at \in Failpoints!Slot
        BY <4>2 DEF Firing, FaultInv, SlotInv, FaultTypes
      <4> QED BY <1>2, <4>2, <4>3, FaultFacts DEF FaultInv, SlotInv
    <3>2. ASSUME NEW u \in Waiting(n)', check'[u].step = "count"
          PROVE  remaining'[check'[u].at] <= 0
      <4>1. CASE u = t BY <1>1, <1>3, <3>1, <3>2, <4>1, FaultFacts
      <4>2. CASE u # t
        BY <1>1, <1>3, <2>1, <2>4, <3>2, <4>2 DEF Spent, Waiting
      <4> QED BY <4>1, <4>2
    <3>3. Spent(n)' BY <1>1, <2>1, <2>4, <3>2 DEF Spent
    <3> QED BY <1>1, <2>2, <2>4, <3>3 DEF PointInv
  <2>5. CASE ~(asked[n] > 0)
    <3>1. Unasked(n) /\ name[a] # n
      BY <1>2, <2>5 DEF PointInv, Unasked, Failpoints!Named
    <3>2. ASSUME NEW u \in Waiting(n)'
          PROVE  check'[u].step = "scan"
      <4>1. CASE u = t BY <1>3, <3>1, <3>2, <4>1, FaultFacts DEF Waiting
      <4>2. CASE u # t
        BY <1>3, <2>1, <3>1, <3>2, <4>2 DEF Unasked, Waiting
      <4> QED BY <4>1, <4>2
    <3>3. Unasked(n)' BY <2>1, <3>1, <3>2 DEF Unasked
    <3> QED BY <1>1, <2>2, <2>5, <3>3 DEF PointInv
  <2> QED BY <1>2, <2>3, <2>4, <2>5 DEF PointInv
<1>7. ASSUME NEW m \in Object \ {n}
      PROVE  PointInv(m)'
  <2>1. check[t].point \in {n, Nothing} /\ check'[t].point \in {n, Nothing}
    BY <1>p, <1>3, FaultFacts
  <2>2. \A r \in Failpoints!Slot : remaining'[r] <= remaining[r]
    BY <1>1 DEF FaultInv, FaultTypes
  <2>3. remaining' \in [Failpoints!Slot -> Int] BY <1>4 DEF FaultTypes
  <2> QED BY <1>1, <1>2, <1>3, <2>1, <2>2, <2>3, OtherPoints
<1> QED BY <1>4, <1>5, <1>6, <1>7 DEF FaultInv

LEMMA CountDownInv ==
    ASSUME Failpoints!FaultAssumption, FaultInv, NEW t \in Thread, Failpoints!CountDown(t)
    PROVE  FaultInv'
<1>0. check[t].step = "count" BY DEF Failpoints!CountDown
<1>p. PICK n \in Object, a \in Failpoints!Slot : n = check[t].point /\ a = check[t].at
  BY <1>0, RunningCheck
<1>1. /\ check[t].step = "count" /\ UNCHANGED <<name, g_armed, hits, fires, asked>>
      /\ remaining' = [remaining EXCEPT ![a] = @ - 1]
      /\ check' = IF remaining[a] = 1
                  THEN [check EXCEPT ![t] = [check[t] EXCEPT !.at = a, !.step = "clear"]]
                  ELSE [check EXCEPT ![t] = Failpoints!Idle]
  BY <1>p DEF Failpoints!CountDown, Failpoints!Fires, Failpoints!Step, Failpoints!Return,
              Failpoints!history, FaultInv, FaultTypes
<1>2. /\ check[t] \in CheckState /\ a \in 1 .. Slots /\ remaining[a] \in Int
      /\ hits[n] \in Nat /\ asked[n] \in Nat
      /\ Slots \in Nat /\ PointInv(n) /\ IsFiniteSet(Waiting(n)) /\ Cardinality(Waiting(n)) \in Nat
      /\ t \in Waiting(n) /\ t \notin Firing(n)
  BY <1>p, <1>1, RunningCheck DEF Waiting, Firing
<1>3. /\ check' \in [Thread -> CheckState]
      /\ \A u \in Thread \ {t} : check'[u] = check[u]
      /\ IF remaining[a] = 1
         THEN check'[t].point = n /\ check'[t].at = a /\ check'[t].step = "clear"
         ELSE check'[t] = Failpoints!Idle
  <2>1. check \in [Thread -> CheckState] /\ a \in 0 .. Slots
    BY <1>2 DEF FaultInv, FaultTypes
  <2>2. /\ [check[t] EXCEPT !.at = a, !.step = "clear"] \in CheckState
        /\ [check[t] EXCEPT !.at = a, !.step = "clear"].point = check[t].point
        /\ [check[t] EXCEPT !.at = a, !.step = "clear"].at = a
        /\ [check[t] EXCEPT !.at = a, !.step = "clear"].step = "clear"
    BY <1>2, <2>1 DEF CheckState
  <2> QED BY <1>p, <1>1, <2>1, <2>2, FaultFacts
<1>4. /\ remaining' \in [Failpoints!Slot -> Int]
      /\ remaining'[a] = remaining[a] - 1
      /\ \A r \in Failpoints!Slot : r # a => remaining'[r] = remaining[r]
      /\ \A r \in Failpoints!Slot : remaining'[r] <= remaining[r]
  BY <1>1, <1>2 DEF FaultInv, FaultTypes
<1>5. FaultTypes'
  BY <1>1, <1>3, <1>4, FaultFacts DEF FaultInv, FaultTypes
<1>6. asked[n] > 0 /\ (Unspent(n) \/ Spent(n))
  BY <1>1, <1>2 DEF PointInv, Unasked
<1>7. remaining[a] >= 1 => Unspent(n) /\ name[a] = n
  <2>1. Spent(n) => remaining[a] <= 0 BY <1>p, <1>1, <1>2 DEF Spent
  <2>2. Unspent(n) => name[a] = n BY <1>p, <1>1, <1>2 DEF Unspent
  <2> QED BY <1>2, <1>6, <2>1, <2>2
<1>8. SlotInv'
  <2>1. \A u \in Thread : check'[u].step = "release" \/ check[u].step = "release"
           => check'[u] = check[u]
    BY <1>1, <1>3, FaultFacts
  <2>2. \A u \in Thread : check'[u].step = "clear" =>
           check'[u] = check[u] \/ (u = t /\ name[check'[u].at] = check'[u].point)
    BY <1>2, <1>3, <1>7, FaultFacts
  <2>3. \A u \in Thread : check'[u].step = "count" => check'[u] = check[u]
    BY <1>3, FaultFacts
  <2>4. LiveSlots' = LiveSlots BY <1>1, <2>1 DEF LiveSlots
  <2>5. \A u \in Thread :
          /\ check'[u].step = "count" => name[check'[u].at] \in {check'[u].point, Nothing}
          /\ check'[u].step = "clear" => name[check'[u].at] = check'[u].point
          /\ check'[u].step = "release" => name[check'[u].at] = Nothing
    BY <2>1, <2>2, <2>3 DEF FaultInv, SlotInv
  <2>6. \A u, v \in Thread :
          check'[u].step = "release" /\ check'[v].step = "release" /\ check'[u].at = check'[v].at
            => u = v
    BY <2>1 DEF FaultInv, SlotInv
  <2> QED BY <1>1, <2>4, <2>5, <2>6 DEF FaultInv, SlotInv
<1>9. /\ Waiting(n)' = Waiting(n) \ {t}
      /\ Failpoints!Named(n)' = Failpoints!Named(n)
      /\ Firing(n)' = IF remaining[a] = 1 THEN Firing(n) \cup {t} ELSE Firing(n)
      /\ \A u \in Firing(n) : check'[u] = check[u]
  BY <1>1, <1>2, <1>3, FaultFacts DEF Waiting, Firing, Failpoints!Named
<1>10. /\ IsFiniteSet(Waiting(n)') /\ Cardinality(Waiting(n)') = Cardinality(Waiting(n)) - 1
       /\ Cardinality(Waiting(n)') \in Nat
  BY <1>2, <1>9, FS_RemoveElement, FS_CardinalityType
<1>11. PointInv(n)'
  <2>1. CASE Unspent(n)
    <3>1. PICK s \in Failpoints!Slot :
            /\ name[s] = n /\ remaining[s] >= 1
            /\ hits[n] = asked[n] - remaining[s] + Cardinality(Waiting(n))
            /\ \A u \in Waiting(n) :
                  IF check[u].step = "scan" THEN check[u].at <= s ELSE check[u].at = s
      BY <2>1 DEF Unspent
    <3>2. a = s BY <1>p, <1>1, <1>2, <3>1
    <3>3. CASE remaining[a] = 1
      <4>1. hits[n] >= asked[n] BY <1>2, <1>10, <3>1, <3>2, <3>3
      <4>2. Firing(n)' = {t} /\ fires'[n] = 0
        BY <1>1, <1>9, <2>1, <3>3 DEF Unspent
      <4>3. check'[t].step = "clear" /\ remaining'[check'[t].at] <= 0
        BY <1>3, <1>4, <3>3
      <4>4. ASSUME NEW u \in Waiting(n)', check'[u].step = "count"
            PROVE  remaining'[check'[u].at] <= 0
        BY <1>3, <1>4, <1>9, <3>1, <3>2, <3>3, <4>4 DEF Waiting
      <4>5. Spent(n)' BY <1>1, <4>1, <4>2, <4>3, <4>4 DEF Spent
      <4> QED BY <1>1, <1>6, <1>10, <4>5 DEF PointInv
    <3>4. CASE remaining[a] # 1
      <4>1. hits[n] = asked[n] - remaining'[s] + Cardinality(Waiting(n)')
        BY <1>2, <1>4, <1>10, <3>1, <3>2
      <4>2. remaining'[s] >= 1 BY <1>2, <1>4, <3>1, <3>2, <3>4
      <4>3. \A u \in Waiting(n)' :
              IF check'[u].step = "scan" THEN check'[u].at <= s ELSE check'[u].at = s
        BY <1>3, <1>9, <3>1 DEF Waiting
      <4>4. fires'[n] = 0 /\ Firing(n)' = {}
        BY <1>1, <1>9, <2>1, <3>4 DEF Unspent
      <4>5. Unspent(n)'
        BY <1>1, <3>1, <4>1, <4>2, <4>3, <4>4 DEF Unspent
      <4> QED BY <1>1, <1>6, <1>10, <4>5 DEF PointInv
    <3> QED BY <3>3, <3>4
  <2>2. CASE Spent(n)
    <3>1. remaining[a] <= 0 BY <1>p, <1>1, <1>2, <2>2 DEF Spent
    <3>2. Firing(n)' = Firing(n) BY <1>2, <1>9, <3>1
    <3>3. ASSUME NEW u \in Waiting(n)', check'[u].step = "count"
          PROVE  remaining'[check'[u].at] <= 0
      <4>1. u \in Waiting(n) /\ check'[u] = check[u] /\ remaining[check[u].at] <= 0
        BY <1>3, <1>9, <2>2, <3>3 DEF Spent, Waiting
      <4>2. check[u].at \in Failpoints!Slot /\ remaining[check[u].at] \in Int
        BY <4>1 DEF FaultInv, FaultTypes, Waiting
      <4>3. CASE check[u].at = a BY <1>2, <1>4, <3>1, <4>1, <4>3
      <4>4. CASE check[u].at # a BY <1>4, <4>1, <4>2, <4>4
      <4> QED BY <4>3, <4>4
    <3>4. ASSUME NEW u \in Thread, Firing(n) = {u}, check[u].step = "clear",
                 remaining[check[u].at] <= 0
          PROVE  remaining'[check'[u].at] <= 0
      <4>1. check'[u] = check[u] BY <1>9, <3>4
      <4>2. PICK r \in Failpoints!Slot : r = check[u].at
        BY <3>4 DEF FaultInv, FaultTypes
      <4>3. remaining[r] \in Int /\ remaining[r] <= 0
        BY <3>4, <4>2 DEF FaultInv, FaultTypes
      <4>4. remaining'[r] <= remaining[r] /\ remaining'[r] \in Int
        BY <1>4, <4>2
      <4>5. remaining'[r] <= 0 BY <4>3, <4>4
      <4> QED BY <4>1, <4>2, <4>5
    <3>5. \/ fires'[n] = 1 /\ Firing(n)' = {} /\ Failpoints!Named(n)' = {}
          \/ /\ fires'[n] = 0
             /\ \E u \in Thread :
                   /\ Firing(n)' = {u}
                   /\ IF check'[u].step = "clear" THEN remaining'[check'[u].at] <= 0
                                                  ELSE Failpoints!Named(n)' = {}
      <4>1. CASE fires[n] = 1 BY <1>1, <1>9, <2>2, <3>2, <4>1 DEF Spent
      <4>2. CASE fires[n] # 1
        <5>1. PICK u \in Thread :
                /\ Firing(n) = {u}
                /\ IF check[u].step = "clear" THEN remaining[check[u].at] <= 0
                                              ELSE Failpoints!Named(n) = {}
          BY <2>2, <4>2 DEF Spent
        <5>2. fires'[n] = 0 /\ check'[u] = check[u]
          BY <1>1, <1>9, <2>2, <4>2, <5>1 DEF Spent
        <5> QED BY <1>9, <3>2, <3>4, <5>1, <5>2
      <4> QED BY <4>1, <4>2
    <3>6. Spent(n)' BY <1>1, <2>2, <3>3, <3>5 DEF Spent
    <3> QED BY <1>1, <1>6, <1>10, <3>6 DEF PointInv
  <2> QED BY <1>6, <2>1, <2>2
<1>12. ASSUME NEW m \in Object \ {n}
       PROVE  PointInv(m)'
  <2>1. check[t].point \in {n, Nothing} /\ check'[t].point \in {n, Nothing}
    BY <1>p, <1>3, FaultFacts
  <2>2. name[a] # m BY <1>p, <1>1, FaultFacts DEF FaultInv, SlotInv
  <2> QED BY <1>1, <1>3, <1>4, <2>1, <2>2, OtherPoints
<1> QED BY <1>5, <1>8, <1>11, <1>12 DEF FaultInv

LEMMA ClearInv ==
    ASSUME Failpoints!FaultAssumption, FaultInv, NEW t \in Thread, Failpoints!Clear(t)
    PROVE  FaultInv'
<1>0. check[t].step = "clear" BY DEF Failpoints!Clear
<1>p. PICK n \in Object, a \in Failpoints!Slot : n = check[t].point /\ a = check[t].at
  BY <1>0, RunningCheck
<1>1. /\ UNCHANGED <<remaining, g_armed, hits, fires, asked>>
      /\ name' = [name EXCEPT ![a] = Nothing]
      /\ check' = [check EXCEPT ![t] = [check[t] EXCEPT !.at = a, !.step = "release"]]
  BY <1>p DEF Failpoints!Clear, Failpoints!Step, Failpoints!history, FaultInv, FaultTypes
<1>2. /\ check[t] \in CheckState /\ a \in 0 .. Slots /\ hits[n] \in Nat /\ asked[n] \in Nat
      /\ PointInv(n) /\ name[a] = n /\ n # Nothing
      /\ t \notin Waiting(n) /\ t \in Firing(n)
  <2>1. /\ check[t] \in CheckState /\ a \in 0 .. Slots /\ hits[n] \in Nat /\ asked[n] \in Nat
        /\ PointInv(n)
    BY <1>p, <1>0, RunningCheck
  <2>2. name[a] = n /\ n # Nothing
    BY <1>p, <1>0, FaultFacts DEF FaultInv, SlotInv
  <2>3. t \notin Waiting(n) /\ t \in Firing(n)
    BY <1>p, <1>0 DEF Waiting, Firing
  <2> QED BY <2>1, <2>2, <2>3
<1>3. /\ check' \in [Thread -> CheckState]
      /\ \A u \in Thread \ {t} : check'[u] = check[u]
      /\ check'[t].point = n /\ check'[t].at = a /\ check'[t].step = "release"
  <2>1. check \in [Thread -> CheckState] BY DEF FaultInv, FaultTypes
  <2>2. /\ [check[t] EXCEPT !.at = a, !.step = "release"] \in CheckState
        /\ [check[t] EXCEPT !.at = a, !.step = "release"].point = check[t].point
        /\ [check[t] EXCEPT !.at = a, !.step = "release"].at = a
        /\ [check[t] EXCEPT !.at = a, !.step = "release"].step = "release"
    BY <1>2 DEF CheckState
  <2> QED BY <1>p, <1>1, <2>1, <2>2
<1>4. FaultTypes' BY <1>1, <1>3 DEF FaultInv, FaultTypes
<1>5. asked[n] > 0 /\ Spent(n) /\ Firing(n) = {t} /\ fires[n] = 0
  BY <1>2 DEF PointInv, Unasked, Unspent, Spent
<1>6. /\ Waiting(n)' = Waiting(n) /\ Firing(n)' = Firing(n)
      /\ Failpoints!Named(n)' = {}
  <2>1. Failpoints!Named(n)' = {}
    BY <1>1, <1>2, FaultFacts DEF FaultInv, SlotInv, FaultTypes, Failpoints!Named
  <2> QED BY <1>2, <1>3, <2>1 DEF Waiting, Firing
<1>7. SlotInv'
  <2>1. \A r \in Failpoints!Slot : name'[r] = IF r = a THEN Nothing ELSE name[r]
    BY <1>1 DEF FaultInv, FaultTypes
  <2>2. \A u \in Thread \ {t} : check[u].step \in {"clear", "release"} => check[u].at # a
    BY <1>2, <1>5 DEF FaultInv, SlotInv, Firing
  <2>3. LiveSlots' = LiveSlots
    <3>1. a \in LiveSlots /\ a \in LiveSlots'
      BY <1>2, <1>3 DEF LiveSlots
    <3>2. ASSUME NEW s \in Failpoints!Slot, s # a
          PROVE  s \in LiveSlots' <=> s \in LiveSlots
      <4>1. \A u \in Thread : check'[u].step = "release" /\ check'[u].at = s
                               <=> check[u].step = "release" /\ check[u].at = s
        BY <1>0, <1>3, <3>2
      <4> QED BY <2>1, <3>2, <4>1 DEF LiveSlots
    <3> QED BY <3>1, <3>2 DEF LiveSlots
  <2>4. \A s, r \in Failpoints!Slot : name'[s] = name'[r] /\ name'[s] # Nothing => s = r
    BY <2>1 DEF FaultInv, SlotInv
  <2>5. ASSUME NEW u \in Thread
        PROVE  /\ check'[u].step = "count" => name'[check'[u].at] \in {check'[u].point, Nothing}
               /\ check'[u].step = "clear" => name'[check'[u].at] = check'[u].point
               /\ check'[u].step = "release" => name'[check'[u].at] = Nothing
    <3>1. CASE u = t BY <1>3, <2>1, <3>1
    <3>2. CASE u # t
      <4>1. check'[u] = check[u] /\ (check[u].step # "idle" => check[u].at \in Failpoints!Slot)
        BY <1>3, <3>2 DEF FaultInv, FaultTypes
      <4> QED BY <2>1, <2>2, <3>2, <4>1 DEF FaultInv, SlotInv
    <3> QED BY <3>1, <3>2
  <2>6. \A u, v \in Thread :
          check'[u].step = "release" /\ check'[v].step = "release" /\ check'[u].at = check'[v].at
            => u = v
    BY <1>3, <2>2 DEF FaultInv, SlotInv
  <2> QED BY <1>1, <2>3, <2>4, <2>5, <2>6 DEF FaultInv, SlotInv
<1>8. PointInv(n)'
  <2>1. \A u \in Waiting(n) : check'[u] = check[u]
    BY <1>2, <1>3 DEF Waiting
  <2>2. Spent(n)' BY <1>1, <1>3, <1>5, <1>6, <2>1 DEF Spent
  <2> QED BY <1>1, <1>2, <1>5, <1>6, <2>2 DEF PointInv
<1>9. ASSUME NEW m \in Object \ {n}
      PROVE  PointInv(m)'
  <2>1. check[t].point \in {n, Nothing} /\ check'[t].point \in {n, Nothing}
    BY <1>p, <1>3
  <2>2. \A r \in Failpoints!Slot : name'[r] = m <=> name[r] = m
    BY <1>1, <1>2, FaultFacts DEF FaultInv, FaultTypes
  <2>3. /\ remaining' \in [Failpoints!Slot -> Int]
        /\ \A r \in Failpoints!Slot : remaining'[r] <= remaining[r]
    BY <1>1 DEF FaultInv, FaultTypes
  <2> QED BY <1>1, <1>3, <2>1, <2>2, <2>3, OtherPoints
<1> QED BY <1>4, <1>7, <1>8, <1>9 DEF FaultInv

LEMMA ReleaseInv ==
    ASSUME Failpoints!FaultAssumption, FaultInv, NEW t \in Thread, Failpoints!Release(t)
    PROVE  FaultInv'
<1>0. check[t].step = "release" BY DEF Failpoints!Release
<1>p. PICK n \in Object, a \in Failpoints!Slot : n = check[t].point /\ a = check[t].at
  BY <1>0, RunningCheck
<1>1. /\ UNCHANGED <<name, remaining, hits, asked>>
      /\ g_armed' = g_armed - 1
      /\ fires' = [fires EXCEPT ![n] = @ + 1]
      /\ check' = [check EXCEPT ![t] = Failpoints!Idle]
  BY <1>p DEF Failpoints!Release, Failpoints!Return
<1>2. /\ hits[n] \in Nat /\ asked[n] \in Nat /\ fires \in [Object -> Nat]
      /\ PointInv(n) /\ name[a] = Nothing
      /\ t \notin Waiting(n) /\ t \in Firing(n)
  BY <1>p, <1>0, RunningCheck DEF Waiting, Firing, FaultInv, SlotInv, FaultTypes
<1>3. /\ check' \in [Thread -> CheckState]
      /\ \A u \in Thread \ {t} : check'[u] = check[u]
      /\ check'[t] = Failpoints!Idle
  BY <1>1, FaultFacts DEF FaultInv, FaultTypes
<1>4. FaultTypes'
  <2>1. fires' \in [Object -> Nat] BY <1>1, <1>2
  <2> QED BY <1>1, <1>3, <2>1, FaultFacts DEF FaultInv, FaultTypes
<1>5. /\ asked[n] > 0 /\ Spent(n) /\ Firing(n) = {t} /\ fires[n] = 0
      /\ Failpoints!Named(n) = {}
  BY <1>0, <1>2 DEF PointInv, Unasked, Unspent, Spent
<1>6. /\ Waiting(n)' = Waiting(n) /\ Firing(n)' = {}
      /\ Failpoints!Named(n)' = {} /\ fires'[n] = 1
  BY <1>1, <1>2, <1>3, <1>5, FaultFacts DEF Waiting, Firing, Failpoints!Named
<1>7. SlotInv'
  <2>1. LiveSlots' = LiveSlots \ {a} /\ a \in LiveSlots
    BY <1>0, <1>p, <1>1, <1>2, <1>3, FaultFacts DEF LiveSlots, FaultInv, SlotInv
  <2>2. IsFiniteSet(LiveSlots) BY FaultFacts DEF LiveSlots
  <2>3. g_armed' = Cardinality(LiveSlots')
    BY <1>1, <2>1, <2>2, FS_RemoveElement DEF FaultInv, SlotInv
  <2>4. \A u \in Thread : check'[u].step # "idle" => check'[u] = check[u]
    BY <1>3, FaultFacts
  <2> QED BY <1>1, <2>3, <2>4 DEF FaultInv, SlotInv
<1>8. PointInv(n)'
  <2>1. \A u \in Waiting(n) : check'[u] = check[u]
    BY <1>2, <1>3 DEF Waiting
  <2>2. Spent(n)' BY <1>1, <1>5, <1>6, <2>1 DEF Spent
  <2> QED BY <1>1, <1>2, <1>5, <1>6, <2>2 DEF PointInv
<1>9. ASSUME NEW m \in Object \ {n}
      PROVE  PointInv(m)'
  <2>1. check[t].point \in {n, Nothing} /\ check'[t].point \in {n, Nothing} /\ fires'[m] = fires[m]
    BY <1>p, <1>1, <1>2, <1>3, FaultFacts
  <2>2. /\ remaining' \in [Failpoints!Slot -> Int]
        /\ \A r \in Failpoints!Slot : remaining'[r] <= remaining[r]
    BY <1>1 DEF FaultInv, FaultTypes
  <2> QED BY <1>1, <1>3, <2>1, <2>2, OtherPoints
<1> QED BY <1>4, <1>7, <1>8, <1>9 DEF FaultInv

LEMMA FaultKept == Failpoints!FaultAssumption => (Failpoints!Spec => []FaultInv)
<1> SUFFICES ASSUME Failpoints!FaultAssumption
             PROVE  Failpoints!Spec => []FaultInv
  OBVIOUS
<1>1. Failpoints!Init => FaultInv BY FaultInit
<1>2. FaultInv /\ [Failpoints!Next]_(Failpoints!vars) => FaultInv'
  <2> SUFFICES ASSUME FaultInv, [Failpoints!Next]_(Failpoints!vars)
               PROVE  FaultInv'
    OBVIOUS
  <2>1. CASE Failpoints!Next
    BY <2>1, ArmInv, DisarmInv, CheckInv, ScanInv, CountDownInv, ClearInv, ReleaseInv
       DEF Failpoints!Next
  <2>2. CASE UNCHANGED Failpoints!vars
    <3>1. UNCHANGED <<name, remaining, g_armed, check, hits, fires, asked>>
      BY <2>2 DEF Failpoints!vars
    <3>2. /\ LiveSlots' = LiveSlots
          /\ \A n \in Object : /\ Waiting(n)' = Waiting(n) /\ Firing(n)' = Firing(n)
                              /\ Failpoints!Named(n)' = Failpoints!Named(n)
      BY <3>1 DEF LiveSlots, Waiting, Firing, Failpoints!Named
    <3>3. FaultTypes' /\ SlotInv'
      BY <3>1, <3>2 DEF FaultInv, FaultTypes, SlotInv
    <3>4. ASSUME NEW n \in Object
          PROVE  PointInv(n)'
      <4>1. Unspent(n) => Unspent(n)' BY <3>1, <3>2 DEF Unspent
      <4>2. Spent(n) => Spent(n)' BY <3>1, <3>2 DEF Spent
      <4>3. Unasked(n) => Unasked(n)' BY <3>1, <3>2 DEF Unasked
      <4> QED BY <3>1, <3>2, <4>1, <4>2, <4>3 DEF FaultInv, PointInv
    <3> QED BY <3>3, <3>4 DEF FaultInv
  <2> QED BY <2>1, <2>2
<1> QED BY <1>1, <1>2, PTL DEF Failpoints!Spec

LEMMA QuietIsExact ==
    ASSUME Failpoints!FaultAssumption, FaultInv, Failpoints!Quiet
    PROVE  /\ \A n \in Object : asked[n] > 0 => fires[n] = IF hits[n] >= asked[n] THEN 1 ELSE 0
           /\ g_armed = Cardinality({s \in Failpoints!Slot : name[s] # Nothing})
           /\ \A n \in Object : Cardinality(Failpoints!Named(n)) <= 1
<1>1. /\ \A n \in Object : Waiting(n) = {} /\ Firing(n) = {}
      /\ LiveSlots = {s \in Failpoints!Slot : name[s] # Nothing}
  BY QuietPoints DEF FaultInv
<1>2. ASSUME NEW n \in Object, asked[n] > 0
      PROVE  fires[n] = IF hits[n] >= asked[n] THEN 1 ELSE 0
  <2>1. asked[n] \in Nat /\ hits[n] \in Nat /\ PointInv(n)
    BY DEF FaultInv, FaultTypes
  <2>2. CASE Unspent(n)
    <3>1. PICK s \in Failpoints!Slot :
            remaining[s] >= 1 /\ hits[n] = asked[n] - remaining[s] + Cardinality(Waiting(n))
      BY <2>2 DEF Unspent
    <3>2. remaining[s] \in Int /\ Cardinality(Waiting(n)) = 0
      BY <1>1, FS_EmptySet DEF FaultInv, FaultTypes
    <3>3. hits[n] < asked[n] BY <2>1, <3>1, <3>2
    <3> QED BY <2>1, <2>2, <3>3 DEF Unspent
  <2>3. CASE Spent(n) BY <1>1, <2>1, <2>3 DEF Spent
  <2> QED BY <1>2, <2>1, <2>2, <2>3 DEF PointInv
<1>3. ASSUME NEW n \in Object
      PROVE  Cardinality(Failpoints!Named(n)) <= 1
  <2>1. CASE Failpoints!Named(n) = {} BY <2>1, FS_EmptySet
  <2>2. CASE Failpoints!Named(n) # {}
    <3>1. PICK s \in Failpoints!Slot : name[s] = n
      BY <2>2 DEF Failpoints!Named
    <3>2. Failpoints!Named(n) = {s}
      BY <3>1, FaultFacts DEF Failpoints!Named, FaultInv, SlotInv
    <3>3. Cardinality(Failpoints!Named(n)) = 1 BY <3>2, FS_Singleton
    <3> QED BY <3>3
  <2> QED BY <2>1, <2>2
<1> QED BY <1>1, <1>2, <1>3 DEF FaultInv, SlotInv

\* The checks that may still count down.
Counting == {t \in Thread : check[t].step \in {"scan", "count"}}

\* A countdown goes below zero by at most the checks there were.
BoundInv ==
    /\ total \in 0 .. MaxHits /\ g_armed \in Int
    /\ IsFiniteSet(Counting)
    /\ \A s \in Failpoints!Slot : Cardinality(Counting) - total <= remaining[s]
       /\ remaining[s] <= MaxNth

LEMMA BoundStepInv ==
    ASSUME Failpoints!FaultAssumption, FaultInv, BoundInv, Failpoints!Next
    PROVE  BoundInv'
<1>a. /\ MaxNth \in Nat /\ MaxHits \in Nat
      /\ total \in Nat /\ total <= MaxHits /\ g_armed \in Int /\ IsFiniteSet(Counting)
      /\ Cardinality(Counting) \in Nat
      /\ remaining \in [Failpoints!Slot -> Int] /\ check \in [Thread -> CheckState]
  BY FS_CardinalityType DEF Failpoints!FaultAssumption, BoundInv, FaultInv, FaultTypes
<1>b. ASSUME UNCHANGED <<remaining, total>>, g_armed' \in Int, Counting' \subseteq Counting
      PROVE  BoundInv'
  <2>1. /\ IsFiniteSet(Counting') /\ Cardinality(Counting') <= Cardinality(Counting)
        /\ Cardinality(Counting') \in Nat
    BY <1>a, <1>b, FS_Subset, FS_CardinalityType
  <2>2. ASSUME NEW s \in Failpoints!Slot
        PROVE  Cardinality(Counting') - total <= remaining[s] /\ remaining[s] <= MaxNth
    <3>1. /\ remaining[s] \in Int /\ remaining[s] <= MaxNth
          /\ Cardinality(Counting) - total <= remaining[s]
      BY <1>a DEF BoundInv
    <3> QED BY <1>a, <2>1, <3>1
  <2> QED BY <1>a, <1>b, <2>1, <2>2 DEF BoundInv
<1>1. ASSUME NEW n \in Object, NEW nth \in 1 .. MaxNth, Failpoints!Arm(n, nth)
      PROVE  BoundInv'
  <2>1. Counting = {} /\ Counting' = {} /\ total' = total
    BY <1>1, QuietPoints DEF Failpoints!Arm, Counting, FaultInv
  <2>2. PICK s \in Failpoints!SlotFor(n) :
          /\ remaining' = [remaining EXCEPT ![s] = nth]
          /\ g_armed' = IF name[s] = Nothing THEN g_armed + 1 ELSE g_armed
    BY <1>1 DEF Failpoints!Arm, Failpoints!Countdown, Failpoints!CountArmed
  <2>3. /\ IsFiniteSet(Counting') /\ Cardinality(Counting) = 0 /\ Cardinality(Counting') = 0
        /\ nth \in Nat /\ nth <= MaxNth /\ g_armed' \in Int
    BY <1>a, <2>1, <2>2, FS_EmptySet
  <2>4. ASSUME NEW r \in Failpoints!Slot
        PROVE  0 - total <= remaining'[r] /\ remaining'[r] <= MaxNth
    <3>1. remaining'[r] \in {nth, remaining[r]} /\ remaining[r] \in Int
      BY <1>a, <2>2
    <3>2. 0 - total <= remaining[r] /\ remaining[r] <= MaxNth
      BY <2>3 DEF BoundInv
    <3> QED BY <1>a, <2>3, <3>1, <3>2
  <2> QED BY <1>a, <2>1, <2>3, <2>4 DEF BoundInv
<1>2. ASSUME NEW n \in Object, Failpoints!Disarm(n)
      PROVE  BoundInv'
  <2>1. UNCHANGED <<remaining, total>> /\ g_armed' \in Int /\ Counting' = Counting
    BY <1>a, <1>2 DEF Failpoints!Disarm, Counting
  <2> QED BY <1>b, <2>1
<1>3. ASSUME NEW t \in Thread, NEW n \in Object, Failpoints!Check(t, n)
      PROVE  BoundInv'
  <2>1. /\ total < MaxHits /\ total' = total + 1 /\ UNCHANGED <<remaining, g_armed>>
        /\ \A u \in Thread \ {t} : check'[u] = check[u]
    BY <1>a, <1>3 DEF Failpoints!Check, Failpoints!points
  <2>2. Counting' \subseteq Counting \cup {t} BY <2>1 DEF Counting
  <2>3. /\ IsFiniteSet(Counting \cup {t})
        /\ Cardinality(Counting \cup {t}) \in {Cardinality(Counting), Cardinality(Counting) + 1}
    BY <1>a, FS_AddElement
  <2>4. /\ IsFiniteSet(Counting') /\ Cardinality(Counting') \in Nat
        /\ Cardinality(Counting') <= Cardinality(Counting) + 1
    <3>1. /\ IsFiniteSet(Counting')
          /\ Cardinality(Counting') <= Cardinality(Counting \cup {t})
      BY <2>2, <2>3, FS_Subset
    <3>2. Cardinality(Counting') \in Nat BY <3>1, FS_CardinalityType
    <3> QED BY <1>a, <2>3, <3>1, <3>2
  <2>5. ASSUME NEW s \in Failpoints!Slot
        PROVE  Cardinality(Counting') - (total + 1) <= remaining[s] /\ remaining[s] <= MaxNth
    <3>1. /\ remaining[s] \in Int /\ remaining[s] <= MaxNth
          /\ Cardinality(Counting) - total <= remaining[s]
      BY <1>a DEF BoundInv
    <3> QED BY <1>a, <2>4, <3>1
  <2>6. total' \in 0 .. MaxHits BY <1>a, <2>1
  <2> QED BY <1>a, <2>1, <2>4, <2>5, <2>6 DEF BoundInv
<1>4. ASSUME NEW t \in Thread,
             \/ Failpoints!SkipSlot(t) \/ Failpoints!MatchSlot(t)
             \/ Failpoints!Clear(t) \/ Failpoints!Release(t)
      PROVE  BoundInv'
  <2>1. /\ UNCHANGED <<remaining, total>> /\ g_armed' \in Int
        /\ \A u \in Thread \ {t} : check'[u] = check[u]
    BY <1>a, <1>4 DEF Failpoints!SkipSlot, Failpoints!MatchSlot, Failpoints!Clear,
                      Failpoints!Release,
                    Failpoints!Step, Failpoints!Return, Failpoints!points, Failpoints!history
  <2>2. check'[t].step \in {"scan", "count"} => check[t].step = "scan"
    <3>0. check[t] \in CheckState BY <1>a
    <3>1. CASE Failpoints!SkipSlot(t) \/ Failpoints!MatchSlot(t)
      BY <3>1 DEF Failpoints!SkipSlot, Failpoints!MatchSlot
    <3>2. CASE Failpoints!Clear(t)
      <4>1. check' = [check EXCEPT ![t] = [check[t] EXCEPT !.at = check[t].at, !.step = "release"]]
        BY <1>a, <3>2 DEF Failpoints!Clear, Failpoints!Step
      <4> QED BY <1>a, <3>0, <4>1 DEF CheckState
    <3>3. CASE Failpoints!Release(t)
      BY <1>a, <3>3, FaultFacts DEF Failpoints!Release, Failpoints!Return
    <3> QED BY <1>4, <3>1, <3>2, <3>3
  <2>3. Counting' \subseteq Counting BY <2>1, <2>2 DEF Counting
  <2> QED BY <1>b, <2>1, <2>3
<1>5. ASSUME NEW t \in Thread, Failpoints!CountDown(t)
      PROVE  BoundInv'
  <2>0. check[t].step = "count" BY <1>5 DEF Failpoints!CountDown
  <2>1. PICK a \in Failpoints!Slot : a = check[t].at
    BY <2>0, RunningCheck
  <2>2. /\ UNCHANGED <<total, g_armed>> /\ remaining' = [remaining EXCEPT ![a] = @ - 1]
        /\ \A u \in Thread \ {t} : check'[u] = check[u]
        /\ check'[t].step \in {"clear", "idle"}
    <3>1. /\ UNCHANGED <<total, g_armed>> /\ remaining' = [remaining EXCEPT ![a] = @ - 1]
          /\ check' = IF remaining[a] = 1
                      THEN [check EXCEPT ![t] = [check[t] EXCEPT !.at = a, !.step = "clear"]]
                      ELSE [check EXCEPT ![t] = Failpoints!Idle]
      BY <1>a, <1>5, <2>1 DEF Failpoints!CountDown, Failpoints!Fires, Failpoints!Step,
                            Failpoints!Return, Failpoints!history
    <3>2. [check[t] EXCEPT !.at = a, !.step = "clear"].step = "clear"
      BY <1>a DEF CheckState
    <3> QED BY <1>a, <3>1, <3>2, FaultFacts
  <2>3. t \in Counting /\ Counting' = Counting \ {t}
    BY <2>0, <2>2 DEF Counting
  <2>4. IsFiniteSet(Counting') /\ Cardinality(Counting') = Cardinality(Counting) - 1
    BY <1>a, <2>3, FS_RemoveElement
  <2>5. ASSUME NEW s \in Failpoints!Slot
        PROVE  Cardinality(Counting') - total <= remaining'[s] /\ remaining'[s] <= MaxNth
    <3>1. /\ remaining[s] \in Int /\ remaining[s] <= MaxNth
          /\ Cardinality(Counting) - total <= remaining[s]
      BY <1>a DEF BoundInv
    <3>2. remaining'[s] \in {remaining[s], remaining[s] - 1}
      BY <1>a, <2>2
    <3> QED BY <1>a, <2>4, <3>1, <3>2
  <2> QED BY <1>a, <2>2, <2>4, <2>5 DEF BoundInv
<1> QED BY <1>1, <1>2, <1>3, <1>4, <1>5 DEF Failpoints!Next

LEMMA BoundKept == Failpoints!FaultAssumption => (Failpoints!Spec => [](FaultInv /\ BoundInv))
<1> SUFFICES ASSUME Failpoints!FaultAssumption
             PROVE  Failpoints!Spec => [](FaultInv /\ BoundInv)
  OBVIOUS
<1>1. Failpoints!Init => BoundInv
  <2> SUFFICES ASSUME Failpoints!Init PROVE BoundInv
    OBVIOUS
  <2>1. Counting = {} BY FaultFacts DEF Failpoints!Init, Counting
  <2>2. IsFiniteSet(Counting) /\ Cardinality(Counting) = 0
    BY <2>1, FS_EmptySet
  <2>3. MaxHits \in Nat /\ MaxNth \in Nat
    BY DEF Failpoints!FaultAssumption
  <2> QED BY <2>2, <2>3 DEF Failpoints!Init, BoundInv
<1>2. FaultInv /\ BoundInv /\ [Failpoints!Next]_(Failpoints!vars) => BoundInv'
  <2> SUFFICES ASSUME FaultInv, BoundInv, [Failpoints!Next]_(Failpoints!vars)
               PROVE  BoundInv'
    OBVIOUS
  <2>1. CASE Failpoints!Next BY <2>1, BoundStepInv
  <2>2. CASE UNCHANGED Failpoints!vars
    <3>1. UNCHANGED <<remaining, g_armed, check, total>>
      BY <2>2 DEF Failpoints!vars
    <3>2. Counting' = Counting BY <3>1 DEF Counting
    <3> QED BY <3>1, <3>2 DEF BoundInv
  <2> QED BY <2>1, <2>2
<1> QED BY <1>1, <1>2, FaultKept, PTL DEF Failpoints!Spec

\* Whatever threads hit a point and however their checks interleave, between
\* checks it has fired once if it was hit often enough since it was armed and
\* else never, and the count of armed points is the number of live slots.
THEOREM FiresOnce == RuntimeSpec /\ program = variant => []FiresOnNthHit
<1>1. CASE variant = "failpoints"
  <2>1. Failpoints!FaultAssumption BY PartsAssumption
  <2>2. FaultInv /\ BoundInv => FiresOnNthHit
    <3> SUFFICES ASSUME FaultInv, BoundInv
                 PROVE  Failpoints!TypeOK /\ Failpoints!FiresOnNthHit /\ Failpoints!CountIsLive
      BY DEF FiresOnNthHit
    <3>1. ASSUME NEW s \in Failpoints!Slot
          PROVE  remaining[s] \in -MaxHits .. MaxNth
      <4>1. /\ remaining[s] \in Int /\ Cardinality(Counting) \in Nat
            /\ total \in Nat /\ total <= MaxHits /\ MaxHits \in Nat /\ MaxNth \in Nat
        BY <2>1, FS_CardinalityType DEF FaultInv, FaultTypes, BoundInv, Failpoints!FaultAssumption
      <4>2. Cardinality(Counting) - total <= remaining[s] /\ remaining[s] <= MaxNth
        BY DEF BoundInv
      <4> QED BY <4>1, <4>2
    <3>2. Failpoints!TypeOK
      BY <3>1 DEF FaultInv, FaultTypes, BoundInv, CheckState, Failpoints!TypeOK
    <3>3. Failpoints!FiresOnNthHit
      BY <2>1, QuietIsExact DEF Failpoints!FiresOnNthHit
    <3>4. Failpoints!CountIsLive
      BY <2>1, QuietIsExact, FailpointCardinality DEF Failpoints!CountIsLive
    <3> QED BY <3>2, <3>3, <3>4
  <2> QED BY <1>1, <2>1, <2>2, FailpointsRuns, BoundKept, PTL
<1>2. CASE variant # "failpoints"
  <2>1. program = variant => FiresOnNthHit BY <1>2 DEF FiresOnNthHit
  <2> QED BY <2>1, ProgramStays, PTL
<1> QED BY <1>1, <1>2

------------------------------
(* EngineContract *)

\* The metadata is the document's from the time it is loaded, and a rejected
\* document or detector was rejected for one of the two reasons.  A document
\* that was written back is one that a detector was built on: it describes the
\* engine, but for the batch range that an ONNX sidecar does not vouch for.
ContractInv ==
    /\ Contract(variant)!TypeOK
    /\ phase # "file" => meta = Contract(variant)!Parsed(doc)
    /\ phase = "loaded" => Contract(variant)!Valid(doc)
    /\ phase = "accepted" =>
          /\ Contract(variant)!Valid(doc) /\ Contract(variant)!Accepts
          /\ logits = Contract(variant)!TakenForLogits
    /\ phase = "rejected" => ~Contract(variant)!Valid(doc) \/ ~Contract(variant)!Accepts

\* What the detector accepts describes the engine, and what fits it is accepted.
LEMMA AcceptsWhatDescribes ==
    ASSUME Contract(variant)!ContractAssumption, engine \in Contract(variant)!Engine,
           meta = Contract(variant)!Parsed(doc)
    PROVE  /\ Contract(variant)!Accepts => Contract(variant)!Describes(doc)
           /\ Contract(variant)!Fits(doc)
              => Contract(variant)!Valid(doc) /\ Contract(variant)!Accepts
           /\ Contract(variant)!Accepts /\ Contract(variant)!TakenForLogits # "logits" =>
                 doc.outputs = "boxes, logits" /\ engine.classes = 4
<1>a. /\ \A n \in Contracts[variant].batches : n \in Nat /\ 1 <= n
      /\ Nothing \notin Contracts[variant].batches
      /\ Nothing # "logits, boxes" /\ Nothing # "boxes, logits" /\ Nothing # "missing"
  <2>1. Contracts[variant].batches \subseteq Nat \ {0}
    BY DEF Contract!ContractAssumption
  <2>2. Nothing \notin Contracts[variant].batches /\ Nothing # "logits, boxes"
      /\ Nothing # "boxes, logits" /\ Nothing # "missing"
    BY DEF Contract!ContractAssumption
  <2>3. ASSUME NEW n \in Contracts[variant].batches PROVE n \in Nat /\ 1 <= n
    BY <2>1
  <2> QED BY <2>2, <2>3
<1>1. meta.declared = doc BY DEF Contract!Parsed
<1>2. engine.min \in Nat /\ engine.opt \in Nat /\ engine.max \in Nat
      /\ 1 <= engine.min /\ engine.min <= engine.opt /\ engine.opt <= engine.max
  <2>1. engine.min \in Contracts[variant].batches /\ engine.opt \in Contracts[variant].batches
      /\ engine.max \in Contracts[variant].batches
        /\ engine.min <= engine.opt /\ engine.opt <= engine.max
    BY DEF Contract!Engine
  <2> QED BY <1>a, <2>1
<1>3. Contract(variant)!Accepts => Contract(variant)!Describes(doc)
  BY <1>1 DEF Contract!Accepts, Contract!ShapesAgree, Contract!BatchAgrees, Contract!Agrees,
              Contract!BatchFactsDescribeEngine, Contract!Describes
<1>4. ASSUME Contract(variant)!Fits(doc) PROVE Contract(variant)!Valid(doc)
  <2> DEFINE min == Contract(variant)!Or(doc.min, 1)
             opt == Contract(variant)!Or(doc.opt, min)
             max == Contract(variant)!Or(doc.max, opt)
  <2>1. min <= opt /\ opt <= max
    <3>1. CASE doc.kind = "onnx"
      <4>1. PICK lo \in Contracts[variant].batches, mid \in Contracts[variant].batches,
          hi \in Contracts[variant].batches :
              /\ lo <= mid /\ mid <= hi
              /\ doc.min = lo /\ doc.opt \in {mid, Nothing} /\ doc.max = hi
        BY <1>4, <3>1 DEF Contract!Fits
      <4>2. lo \in Nat /\ mid \in Nat /\ hi \in Nat /\ lo # Nothing /\ hi # Nothing
        BY <1>a
      <4>3. min = lo /\ opt \in {lo, mid} /\ max = hi
        BY <4>1, <4>2 DEF Contract!Or
      <4> QED BY <4>1, <4>2, <4>3
    <3>2. CASE /\ doc.min \in {Nothing, engine.min}
               /\ doc.opt \in {Nothing, engine.opt}
               /\ doc.max \in {Nothing, engine.max}
      <4>1. min \in {1, engine.min} /\ opt \in {min, engine.opt} /\ max \in {opt, engine.max}
        BY <3>2 DEF Contract!Or
      <4> QED BY <1>2, <4>1
    <3> QED BY <1>4, <3>1, <3>2 DEF Contract!Fits
  <2>2. doc.classes # Nothing /\ doc.labels # Nothing => doc.labels = doc.classes
    BY <1>4 DEF Contract!Fits, Contract!Describes
  <2> QED BY <2>1, <2>2 DEF Contract!Valid, Contract!BatchFields
<1>5. ASSUME Contract(variant)!Fits(doc) PROVE Contract(variant)!Accepts
  <2>1. Contract(variant)!TakenForLogits = "logits"
    BY <1>a, <1>1, <1>5 DEF Contract!Fits, Contract!TakenForLogits
  <2>2. /\ Contract(variant)!InputFound /\ Contract(variant)!Resolvable
        /\ Contract(variant)!BoxesHaveFour
    BY <1>a, <1>1, <1>5, <2>1 DEF Contract!Fits, Contract!InputFound, Contract!Resolvable,
                            Contract!TellableByShape, Contract!BoxesHaveFour
  <2>3. Contract(variant)!ShapesAgree(doc)
    BY <1>5 DEF Contract!Fits, Contract!Describes, Contract!ShapesAgree, Contract!Agrees
  <2>4. Contract(variant)!BatchAgrees(doc)
    BY <1>5 DEF Contract!Fits, Contract!BatchAgrees, Contract!Agrees,
                Contract!BatchFactsDescribeEngine
  <2> QED BY <1>1, <2>2, <2>3, <2>4 DEF Contract!Accepts
<1>6. Contract(variant)!Accepts /\ Contract(variant)!TakenForLogits # "logits" =>
        doc.outputs = "boxes, logits" /\ engine.classes = 4
  BY <1>a, <1>1 DEF Contract!Accepts, Contract!TakenForLogits, Contract!BoxesHaveFour
<1> QED BY <1>3, <1>4, <1>5, <1>6

\* What load_engine_meta makes of a document, and what to_json_file writes of it.
LEMMA ParsedFields ==
    ASSUME Contract(variant)!ContractAssumption, NEW d \in Contract(variant)!Document
    PROVE  /\ Contract(variant)!Parsed(d).declared = d
           /\ Contract(variant)!Parsed(d).size \in Contracts[variant].sizes
           /\ Contract(variant)!Parsed(d).classes \in Contracts[variant].classes
           /\ Contract(variant)!Parsed(d).dynamic \in BOOLEAN
           /\ Contract(variant)!Parsed(d).batch = Contract(variant)!BatchFields(d)
           /\ {Contract(variant)!BatchFields(d).min, Contract(variant)!BatchFields(d).opt,
               Contract(variant)!BatchFields(d).max} \subseteq Contracts[variant].batches
<1>1. /\ Contract(variant)!Or(d.size, Contracts[variant].default_size) \in Contracts[variant].sizes
      /\ Contract(variant)!ClassesOf(d) \in Contracts[variant].classes
      /\ Contract(variant)!Or(d.dynamic, FALSE) \in BOOLEAN
  BY DEF Contract!ContractAssumption, Contract!Document, Contract!Optional, Contract!Or,
         Contract!ClassesOf
<1>2. {Contract(variant)!BatchFields(d).min, Contract(variant)!BatchFields(d).opt,
       Contract(variant)!BatchFields(d).max} \subseteq Contracts[variant].batches
  BY DEF Contract!ContractAssumption, Contract!Document, Contract!Optional, Contract!Or,
         Contract!BatchFields
<1> QED BY <1>1, <1>2 DEF Contract!Parsed

LEMMA ContractInitInv ==
    ASSUME Contract(variant)!ContractAssumption, Contract(variant)!Init
    PROVE  ContractInv
<1>1. /\ engine \in Contract(variant)!Engine /\ doc \in Contract(variant)!Document
      /\ rewritten = FALSE /\ phase = "file" /\ meta = Contract(variant)!Parsed(doc)
  BY DEF Contract!Init
<1>2. /\ meta.size \in Contracts[variant].sizes /\ meta.classes \in Contracts[variant].classes
      /\ meta.dynamic \in BOOLEAN /\ meta.batch = Contract(variant)!BatchFields(doc)
      /\ {meta.batch.min, meta.batch.opt, meta.batch.max} \subseteq Contracts[variant].batches
  BY <1>1, ParsedFields
<1>3. Contract(variant)!TypeOK BY <1>1, <1>2 DEF Contract!TypeOK
<1> QED BY <1>1, <1>3 DEF ContractInv

LEMMA ContractStepInv ==
    ASSUME Contract(variant)!ContractAssumption, ContractInv, Contract(variant)!Next
    PROVE  ContractInv'
<1>a. /\ Contract(variant)!TypeOK
      /\ engine \in Contract(variant)!Engine /\ doc \in Contract(variant)!Document
      /\ rewritten \in BOOLEAN
  BY DEF ContractInv, Contract!TypeOK
<1>b. (engine \in Contract(variant)!Engine)' <=> engine' \in Contract(variant)!Engine
  BY DEF Contract!Engine
<1>1. CASE Contract(variant)!Load
  <2>1. /\ phase' = IF Contract(variant)!Valid(doc) THEN "loaded" ELSE "rejected"
        /\ meta' = Contract(variant)!Parsed(doc)
        /\ UNCHANGED <<engine, doc, rewritten, logits>>
    BY <1>1 DEF Contract!Load
  <2>2. /\ meta'.size \in Contracts[variant].sizes /\ meta'.classes \in Contracts[variant].classes
        /\ meta'.dynamic \in BOOLEAN /\ meta'.batch = Contract(variant)!BatchFields(doc)
        /\ {meta'.batch.min, meta'.batch.opt, meta'.batch.max} \subseteq Contracts[variant].batches
    BY <1>a, <2>1, ParsedFields
  <2>3. phase' = "loaded"
      => meta'.batch.min <= meta'.batch.opt /\ meta'.batch.opt <= meta'.batch.max
    BY <2>1, <2>2 DEF Contract!Valid
  <2>4. Contract(variant)!TypeOK'
    BY <1>a, <1>b, <2>1, <2>2, <2>3 DEF Contract!TypeOK
  <2> QED BY <2>1, <2>4 DEF ContractInv
<1>2. CASE Contract(variant)!Construct
  <2>1. /\ phase = "loaded" /\ UNCHANGED <<engine, doc, rewritten, meta>>
        /\ phase' = IF Contract(variant)!Accepts THEN "accepted" ELSE "rejected"
        /\ logits' = IF Contract(variant)!Accepts THEN Contract(variant)!TakenForLogits ELSE logits
    BY <1>2 DEF Contract!Construct
  <2>2. /\ Contract(variant)!Accepts' <=> Contract(variant)!Accepts
        /\ Contract(variant)!TakenForLogits' = Contract(variant)!TakenForLogits
    BY <2>1 DEF Contract!Accepts, Contract!InputFound, Contract!Resolvable,
                Contract!BoxesHaveFour, Contract!ShapesAgree, Contract!BatchAgrees,
                Contract!TellableByShape, Contract!TakenForLogits
  <2>3. Contract(variant)!TypeOK'
    BY <1>a, <1>b, <2>1 DEF Contract!TypeOK
  <2> QED BY <2>1, <2>2, <2>3 DEF ContractInv
<1>3. CASE Contract(variant)!Rewrite
  <2>1. /\ phase = "accepted" /\ phase' = "file" /\ rewritten' = TRUE
        /\ doc' = [kind |-> "engine", size |-> meta.size, classes |-> meta.classes,
                   labels |-> meta.declared.labels, dynamic |-> meta.dynamic,
                   min |-> meta.batch.min, opt |-> meta.batch.opt, max |-> meta.batch.max,
                   input |-> Contract(variant)!Or(meta.declared.input,
                                                  Contract(variant)!DefaultInput),
                   outputs |-> Contract(variant)!Or(meta.declared.outputs,
                                                    Contract(variant)!DefaultOutputs)]
        /\ UNCHANGED <<engine, meta, logits>>
    BY <1>3 DEF Contract!Rewrite
  <2>2. meta.declared = doc BY <1>a, <2>1, ParsedFields DEF ContractInv
  <2>3. doc' \in Contract(variant)!Document
    <3>1. /\ meta.size \in Contracts[variant].sizes /\ meta.classes \in Contracts[variant].classes
          /\ meta.dynamic \in BOOLEAN /\ meta.batch.min \in Contracts[variant].batches
          /\ meta.batch.opt \in Contracts[variant].batches
          /\ meta.batch.max \in Contracts[variant].batches
      BY <1>a DEF Contract!TypeOK
    <3>2. doc.labels \in Contract(variant)!Optional(Contracts[variant].classes)
      BY <1>a DEF Contract!Document
    <3>3. \A t \in {"input", "outputs"} :
            t \in engine.named \/ "missing" \in Contract(variant)!Missing(t)
      BY <1>a DEF Contract!Engine, Contract!Missing
    <3>4. /\ Contract(variant)!DefaultInput \in {"own"} \cup Contract(variant)!Missing("input")
          /\ Contract(variant)!DefaultOutputs
                \in {"logits, boxes", "boxes, logits"} \cup Contract(variant)!Missing("outputs")
      BY <3>3 DEF Contract!DefaultInput, Contract!DefaultOutputs
    <3>5. Contract(variant)!Or(doc.input, Contract(variant)!DefaultInput)
            \in Contract(variant)!Optional({"own"} \cup Contract(variant)!Missing("input"))
      BY <1>a, <3>4 DEF Contract!Document, Contract!Or, Contract!Optional
    <3>6. Contract(variant)!Or(doc.outputs, Contract(variant)!DefaultOutputs)
            \in Contract(variant)!Optional({"logits, boxes", "boxes, logits"}
                                           \cup Contract(variant)!Missing("outputs"))
      BY <1>a, <3>4 DEF Contract!Document, Contract!Or, Contract!Optional
    <3> QED
      BY <2>1, <2>2, <3>1, <3>2, <3>5, <3>6 DEF Contract!Document, Contract!Optional, Contract!Kinds
  <2>4. Contract(variant)!TypeOK'
    BY <1>a, <1>b, <2>1, <2>3 DEF Contract!TypeOK
  <2> QED BY <2>1, <2>4 DEF ContractInv
<1> QED BY <1>1, <1>2, <1>3 DEF Contract!Next

LEMMA ContractKept == Contract(variant)!ContractAssumption
  => (Contract(variant)!Spec => []ContractInv)
<1> SUFFICES ASSUME Contract(variant)!ContractAssumption
             PROVE  Contract(variant)!Spec => []ContractInv
  OBVIOUS
<1>1. Contract(variant)!Init => ContractInv BY ContractInitInv
<1>2. ContractInv /\ [Contract(variant)!Next]_(Contract(variant)!vars) => ContractInv'
  <2> SUFFICES ASSUME ContractInv, [Contract(variant)!Next]_(Contract(variant)!vars)
               PROVE  ContractInv'
    OBVIOUS
  <2>1. CASE Contract(variant)!Next BY <2>1, ContractStepInv
  <2>2. CASE UNCHANGED Contract(variant)!vars
    <3>1. UNCHANGED <<engine, doc, rewritten, phase, meta, logits>>
      BY <2>2 DEF Contract!vars
    <3>2. Contract(variant)!TypeOK'
      BY <3>1 DEF ContractInv, Contract!TypeOK, Contract!Engine
    <3>3. /\ Contract(variant)!Accepts' <=> Contract(variant)!Accepts
          /\ Contract(variant)!TakenForLogits' = Contract(variant)!TakenForLogits
      BY <3>1 DEF Contract!Accepts, Contract!InputFound, Contract!Resolvable,
                  Contract!BoxesHaveFour,
                  Contract!ShapesAgree, Contract!BatchAgrees, Contract!TellableByShape,
                  Contract!TakenForLogits
    <3> QED BY <3>1, <3>2, <3>3 DEF ContractInv
  <2> QED BY <2>1, <2>2
<1> QED BY <1>1, <1>2, PTL DEF Contract!Spec

\* For every engine and every sidecar, also one that was written back: the
\* detector believes of its engine exactly what fits it.
THEOREM ContractExact == RuntimeSpec /\ program = variant => []ContractIsExact
<1>1. CASE variant \in DOMAIN Contracts
  <2>1. Contract(variant)!ContractAssumption BY <1>1, PartsAssumption
  <2>2. ContractInv /\ program = variant => ContractIsExact
    <3> SUFFICES ASSUME ContractInv, program = variant
                 PROVE  ContractIsExact
      OBVIOUS
    <3>1. /\ Contract(variant)!AcceptedDescribesEngine
          /\ Contract(variant)!FittingSidecarLoads
          /\ Contract(variant)!OutputsToldApart
      BY <2>1, AcceptsWhatDescribes
         DEF ContractInv, Contract!TypeOK, Contract!AcceptedDescribesEngine,
             Contract!FittingSidecarLoads,
             Contract!OutputsToldApart
    <3>2. Contract(variant)!TypeOK BY DEF ContractInv
    <3> QED BY <3>1, <3>2 DEF ContractIsExact
  <2> QED BY <1>1, <2>1, <2>2, ContractRuns, ContractKept, ProgramStays, PTL
<1>2. CASE variant \notin DOMAIN Contracts
  <2>1. program = variant => ContractIsExact BY <1>2 DEF ContractIsExact
  <2> QED BY <2>1, ProgramStays, PTL
<1> QED BY <1>1, <1>2

------------------------------
(* HalfUnpack *)

LEMMA HalfRuns ==
    variant = "half" => (RuntimeSpec /\ program = variant => Half!Spec)
<1> SUFFICES ASSUME variant = "half"
             PROVE  RuntimeSpec /\ program = variant => Half!Spec
  OBVIOUS
<1>1. RuntimeInit /\ program = variant => Half!Init
  <2> SUFFICES ASSUME RuntimeInit, program = variant
               PROVE  Half!Init
    OBVIOUS
  <2>1. HalfBegins
    BY NamesAssumption
       DEF RuntimeInit, Singles, IoBegins, ArenaBegins, DecodingBegins,
           ContractBegins, FailpointsBegins, DetectorsBegins, LoaderBegins, BridgeBegins
  <2> QED BY <2>1 DEF HalfBegins
<1>2. program = variant /\ [RuntimeNext]_RuntimeVars => [Half!Next]_(Half!vars)
  <2> SUFFICES ASSUME program = variant, [RuntimeNext]_RuntimeVars
               PROVE  [Half!Next]_(Half!vars)
    OBVIOUS
  <2>1. CASE RuntimeNext
    <3>1. HalfSteps
      BY <2>1, NamesAssumption
         DEF RuntimeNext, Singles, IoSteps, ArenaSteps, DecodingSteps,
             ContractSteps, FailpointsSteps, DetectorsSteps, LoaderSteps, BridgeSteps
    <3> QED BY <3>1 DEF HalfSteps
  <2>2. CASE UNCHANGED RuntimeVars BY <2>2 DEF RuntimeVars, Half!vars
  <2> QED BY <2>1, <2>2
<1> QED BY <1>1, <1>2, ProgramStays, PTL DEF RuntimeSpec, Half!Spec

\* In the loop the mantissa is that of the word, shifted as often as the counter says.
Doubled(k, n) ==
    \/ (k = 0 /\ n = Half!Mantissa) \/ (k = 1 /\ n = 2 * Half!Mantissa)
    \/ (k = 2 /\ n = 4 * Half!Mantissa) \/ (k = 3 /\ n = 8 * Half!Mantissa)
    \/ (k = 4 /\ n = 16 * Half!Mantissa) \/ (k = 5 /\ n = 32 * Half!Mantissa)
    \/ (k = 6 /\ n = 64 * Half!Mantissa) \/ (k = 7 /\ n = 128 * Half!Mantissa)
    \/ (k = 8 /\ n = 256 * Half!Mantissa) \/ (k = 9 /\ n = 512 * Half!Mantissa)
    \/ (k = 10 /\ n = 1024 * Half!Mantissa)

HalfInv ==
    /\ Half!TypeOK /\ Half!ExactValue /\ Half!NonFiniteKept
    /\ pc = "normalize" => Half!Subnormal /\ Doubled(exponent, mantissa)

\* The ranges of the fields, by name: the provers lose themselves in the literals.
HalfWords == 0 .. 2^16 - 1
HalfCounters == 0 .. 10
HalfShifted == 0 .. 2^11 - 1
HalfBytes == 0 .. 2^8 - 1
HalfFractions == 0 .. 2^23 - 1

HalfTyped ==
    /\ word \in HalfWords /\ pc \in {"read", "normalize", "done"}
    /\ exponent \in HalfCounters /\ mantissa \in HalfShifted
    /\ single.sign \in {0, 1} /\ single.exponent \in HalfBytes
    /\ single.fraction \in HalfFractions

LEMMA HalfTypes == Half!TypeOK <=> HalfTyped
BY DEF Half!TypeOK, HalfTyped, HalfWords, HalfCounters, HalfShifted, HalfBytes, HalfFractions

LEMMA HalfInvTypes ==
    ASSUME HalfInv
    PROVE  /\ word \in HalfWords /\ pc \in {"read", "normalize", "done"}
           /\ exponent \in HalfCounters /\ mantissa \in HalfShifted
           /\ single.sign \in {0, 1} /\ single.exponent \in HalfBytes
           /\ single.fraction \in HalfFractions
<1>1. Half!TypeOK BY DEF HalfInv
<1> QED BY <1>1, HalfTypes DEF HalfTyped

LEMMA HalfTypeStep ==
    ASSUME word' \in HalfWords, pc' \in {"read", "normalize", "done"},
           exponent' \in HalfCounters, mantissa' \in HalfShifted,
           single'.sign \in {0, 1}, single'.exponent \in HalfBytes,
           single'.fraction \in HalfFractions
    PROVE  Half!TypeOK'
<1>1. HalfTyped' BY DEF HalfTyped
<1>2. HalfTyped' => Half!TypeOK' BY HalfTypes, PTL
<1> QED BY <1>1, <1>2

LEMMA WordParts ==
    ASSUME word \in HalfWords
    PROVE  Half!Sign \in {0, 1} /\ Half!Exponent \in 0 .. 31 /\ Half!Mantissa \in 0 .. 2^10 - 1
<1>1. Half!Sign \in {0, 1} BY SMT DEF Half!Sign, HalfWords
<1>2. Half!Exponent \in 0 .. 31 BY SMT DEF Half!Exponent, HalfWords
<1>3. Half!Mantissa \in 0 .. 2^10 - 1
  BY SMT DEF Half!Mantissa, HalfWords
<1> QED BY <1>1, <1>2, <1>3

LEMMA Widened ==
    ASSUME NEW n \in 0 .. 2^10 - 1
    PROVE  /\ Half!Widen(n) \in 0 .. 2^23 - 1 /\ Half!Widen(n) % 2^13 = 0
           /\ Half!Widen(n) \div 2^13 = n /\ (Half!Widen(n) = 0 <=> n = 0)
BY SMT DEF Half!Widen

\* A word that is not subnormal is unpacked in one step.
LEMMA FinishedInv ==
    ASSUME HalfInv, NEW r, r.sign = Half!Sign,
           \/ Half!Zero /\ r.exponent = 0 /\ r.fraction = 0
           \/ Half!NonFinite /\ r.exponent = 255 /\ r.fraction = Half!Widen(Half!Mantissa)
           \/ /\ ~(Half!Zero \/ Half!Subnormal \/ Half!NonFinite)
              /\ r.exponent = Half!Exponent + (127 - 15)
              /\ r.fraction = Half!Widen(Half!Mantissa),
           single' = r, pc' = "done", UNCHANGED <<word, exponent, mantissa>>
    PROVE  HalfInv'
<1>1. word \in HalfWords /\ exponent \in HalfCounters /\ mantissa \in HalfShifted
  BY HalfInvTypes
<1>0. Half!Sign \in {0, 1} /\ Half!Exponent \in 0 .. 31 /\ Half!Mantissa \in 0 .. 2^10 - 1
  BY <1>1, WordParts, Zenon
<1> DEFINE S == Half!Sign
           E == Half!Exponent
           M == Half!Mantissa
           W == Half!Widen(M)
<1>2. Half!Sign' = S /\ Half!Exponent' = E /\ Half!Mantissa' = M
  BY DEF Half!Sign, Half!Exponent, Half!Mantissa
<1>3. S \in {0, 1} /\ E \in 0 .. 31 /\ M \in 0 .. 2^10 - 1
  BY <1>0, Zenon
<1>4. W \in 0 .. 2^23 - 1 /\ W % 2^13 = 0 /\ W \div 2^13 = M /\ (W = 0 <=> M = 0)
  BY <1>3, Widened
<1>5. /\ single'.sign = S
      /\ \/ E = 0 /\ M = 0 /\ single'.exponent = 0 /\ single'.fraction = 0
         \/ E = 31 /\ single'.exponent = 255 /\ single'.fraction = W
         \/ E # 0 /\ E # 31 /\ single'.exponent = E + 112 /\ single'.fraction = W
  BY <1>3, SMT DEF Half!Zero, Half!Subnormal, Half!NonFinite
<1> HIDE DEF S, E, M, W
<1>6. /\ single'.sign \in {0, 1} /\ single'.exponent \in 0 .. 2^8 - 1
      /\ single'.fraction \in 0 .. 2^23 - 1
  <2>1. single'.exponent \in 0 .. 2^8 - 1 BY <1>3, <1>5, SMT
  <2>2. single'.fraction \in 0 .. 2^23 - 1 BY <1>4, <1>5, SMT
  <2> QED BY <2>1, <2>2, <1>3, <1>5
<1>7. Half!TypeOK'
  <2>1. /\ word' \in HalfWords /\ exponent' \in HalfCounters /\ mantissa' \in HalfShifted
        /\ pc' \in {"read", "normalize", "done"}
    BY <1>1, Zenon
  <2>2. /\ single'.sign \in {0, 1} /\ single'.exponent \in HalfBytes
        /\ single'.fraction \in HalfFractions
    BY <1>6, Zenon DEF HalfBytes, HalfFractions
  <2> QED BY <2>1, <2>2, HalfTypeStep, Zenon
<1>8. Half!NonFiniteKept'
  BY <1>2, <1>3, <1>4, <1>5, SMT DEF Half!NonFiniteKept
<1>9. Half!ExactValue'
  <2>1. CASE E = 0
    BY <2>1, <1>2, <1>3, <1>5, SMT DEF Half!ExactValue, Half!HalfSignificand
  <2>2. CASE E = 31 BY <1>2, <2>2 DEF Half!ExactValue
  <2>3. CASE E # 0 /\ E # 31
    <3>1. single'.exponent = E + 112 /\ single'.fraction = W
      BY <2>3, <1>5
    <3>2. Half!HalfSignificand' = 2^10 + M /\ Half!HalfPower' = E - 25
      BY <2>3, <1>2, <1>3, SMT DEF Half!HalfSignificand, Half!HalfPower
    <3>3. /\ single'.exponent \in 1 .. 254 /\ single'.exponent - 127 - 10 = E - 25
          /\ E - 25 <= E - 25 /\ (E - 25) - (E - 25) = 0
      BY <3>1, <2>3, <1>3, SMT
    <3>4. (2^10 + M) * 2^0 = 2^10 + M /\ 2^10 + M # 0 BY <1>3, SMT
    <3> QED BY <3>1, <3>2, <3>3, <3>4, <1>2, <1>4, <1>5, ZenonT(60) DEF Half!ExactValue
  <2> QED BY <2>1, <2>2, <2>3
<1>10. pc' # "normalize" OBVIOUS
<1> QED BY <1>7, <1>8, <1>9, <1>10 DEF HalfInv

LEMMA HalfStepInv ==
    ASSUME HalfInv, Half!Next
    PROVE  HalfInv'
<1>0. /\ word \in HalfWords /\ exponent \in HalfCounters /\ mantissa \in HalfShifted
      /\ single.sign \in {0, 1} /\ single.exponent \in HalfBytes
      /\ single.fraction \in HalfFractions
  BY HalfInvTypes
<1>1. exponent \in 0 .. 10 /\ mantissa \in 0 .. 2^11 - 1
  BY <1>0, Zenon DEF HalfCounters, HalfShifted
<1>2. Half!Sign \in {0, 1} /\ Half!Exponent \in 0 .. 31 /\ Half!Mantissa \in 0 .. 2^10 - 1
  BY <1>0, WordParts, Zenon
<1>3. CASE Half!ReadZero
  <2> DEFINE r == Half!Float(Half!Sign, 0, 0)
  <2>1. r.sign = Half!Sign /\ r.exponent = 0 /\ r.fraction = 0
    BY DEF Half!Float
  <2>2. Half!Zero /\ single' = r /\ pc' = "done" /\ UNCHANGED <<word, exponent, mantissa>>
    BY <1>3 DEF Half!ReadZero, Half!Finish
  <2> HIDE DEF r
  <2> QED BY <2>1, <2>2, FinishedInv
<1>4. CASE Half!ReadNonFinite
  <2> DEFINE r == Half!Float(Half!Sign, 255, Half!Widen(Half!Mantissa))
  <2>1. r.sign = Half!Sign /\ r.exponent = 255 /\ r.fraction = Half!Widen(Half!Mantissa)
    BY DEF Half!Float
  <2>2. Half!NonFinite /\ single' = r /\ pc' = "done" /\ UNCHANGED <<word, exponent, mantissa>>
    BY <1>4 DEF Half!ReadNonFinite, Half!Finish
  <2> HIDE DEF r
  <2> QED BY <2>1, <2>2, FinishedInv
<1>5. CASE Half!ReadNormal
  <2> DEFINE r == Half!Float(Half!Sign, Half!Exponent + (127 - 15), Half!Widen(Half!Mantissa))
  <2>1. /\ r.sign = Half!Sign /\ r.exponent = Half!Exponent + (127 - 15)
        /\ r.fraction = Half!Widen(Half!Mantissa)
    BY DEF Half!Float
  <2>2. /\ ~(Half!Zero \/ Half!Subnormal \/ Half!NonFinite)
        /\ single' = r /\ pc' = "done" /\ UNCHANGED <<word, exponent, mantissa>>
    BY <1>5 DEF Half!ReadNormal, Half!Finish
  <2> HIDE DEF r
  <2> QED BY <2>1, <2>2, FinishedInv
<1>6. CASE Half!ReadSubnormal
  <2>1. /\ Half!Subnormal /\ exponent' = 0 /\ mantissa' = Half!Mantissa /\ pc' = "normalize"
        /\ UNCHANGED <<word, single>>
    BY <1>6 DEF Half!ReadSubnormal
  <2>2. Half!Exponent' = Half!Exponent /\ Half!Mantissa' = Half!Mantissa
    BY <2>1 DEF Half!Exponent, Half!Mantissa
  <2>3. mantissa' \in 0 .. 2^11 - 1 BY <2>1, <1>2, SMT
  <2>4. Half!TypeOK'
    <3>1. /\ word' \in HalfWords /\ pc' \in {"read", "normalize", "done"}
          /\ single'.sign \in {0, 1} /\ single'.exponent \in HalfBytes
          /\ single'.fraction \in HalfFractions
      BY <1>0, <2>1
    <3>2. exponent' \in HalfCounters /\ mantissa' \in HalfShifted
      <4>1. exponent' \in 0 .. 10 BY <2>1
      <4> QED BY <4>1, <2>3, Zenon DEF HalfCounters, HalfShifted
    <3> QED BY <3>1, <3>2, HalfTypeStep, Zenon
  <2>5. Half!Subnormal' /\ Doubled(exponent, mantissa)'
    BY <2>1, <2>2 DEF Half!Subnormal, Doubled
  <2> QED BY <2>1, <2>4, <2>5 DEF HalfInv, Half!ExactValue, Half!NonFiniteKept
<1>7. CASE Half!Shift
  <2>1. /\ pc = "normalize" /\ mantissa' = 2 * mantissa /\ exponent' = exponent + 1
        /\ UNCHANGED <<word, pc, single>>
        /\ Half!Subnormal /\ Doubled(exponent, mantissa)
    BY <1>7 DEF Half!Shift, HalfInv
  <2>2. (mantissa \div 2^10) % 2 # 1
    BY <1>7 DEF Half!Shift, Half!Normalized
  <2>3. mantissa \in 0 .. 2^10 - 1 BY <2>2, <1>1, SMT
  <2>4. Half!Mantissa' = Half!Mantissa /\ Half!Exponent' = Half!Exponent
    BY <2>1 DEF Half!Mantissa, Half!Exponent
  <2>5. mantissa' \in 0 .. 2^11 - 1 BY <2>1, <2>3, SMT
  <2> DEFINE M == Half!Mantissa
  <2>6. M \in 1 .. 2^10 - 1 /\ Half!Mantissa' = M
    BY <1>2, <2>1, <2>4, SMT DEF Half!Subnormal
  <2>7. Doubled(exponent, mantissa)' /\ exponent' \in 0 .. 10
    <3>1. /\ \/ (exponent = 0 /\ mantissa = M) \/ (exponent = 1 /\ mantissa = 2 * M)
             \/ (exponent = 2 /\ mantissa = 4 * M) \/ (exponent = 3 /\ mantissa = 8 * M)
             \/ (exponent = 4 /\ mantissa = 16 * M) \/ (exponent = 5 /\ mantissa = 32 * M)
             \/ (exponent = 6 /\ mantissa = 64 * M) \/ (exponent = 7 /\ mantissa = 128 * M)
             \/ (exponent = 8 /\ mantissa = 256 * M) \/ (exponent = 9 /\ mantissa = 512 * M)
             \/ (exponent = 10 /\ mantissa = 1024 * M)
      BY <2>1 DEF Doubled
    <3> HIDE DEF M
    <3>2. exponent # 10 BY <3>1, <2>3, <2>6, SMT
    <3>3. exponent' \in 0 .. 10 BY <3>2, <2>1, <1>1
    <3>4. /\ \/ (exponent' = 0 /\ mantissa' = M) \/ (exponent' = 1 /\ mantissa' = 2 * M)
             \/ (exponent' = 2 /\ mantissa' = 4 * M) \/ (exponent' = 3 /\ mantissa' = 8 * M)
             \/ (exponent' = 4 /\ mantissa' = 16 * M) \/ (exponent' = 5 /\ mantissa' = 32 * M)
             \/ (exponent' = 6 /\ mantissa' = 64 * M) \/ (exponent' = 7 /\ mantissa' = 128 * M)
             \/ (exponent' = 8 /\ mantissa' = 256 * M) \/ (exponent' = 9 /\ mantissa' = 512 * M)
             \/ (exponent' = 10 /\ mantissa' = 1024 * M)
      BY <3>1, <3>2, <2>1, <2>6, SMT
    <3> QED BY <3>3, <3>4, <2>6, SMT DEF Doubled
  <2>8. Half!TypeOK'
    <3>1. /\ word' \in HalfWords /\ pc' \in {"read", "normalize", "done"}
          /\ single'.sign \in {0, 1} /\ single'.exponent \in HalfBytes
          /\ single'.fraction \in HalfFractions
      BY <1>0, <2>1
    <3>2. exponent' \in HalfCounters /\ mantissa' \in HalfShifted
      BY <2>5, <2>7, Zenon DEF HalfCounters, HalfShifted
    <3> QED BY <3>1, <3>2, HalfTypeStep, Zenon
  <2>9. Half!Subnormal' BY <2>1, <2>4 DEF Half!Subnormal
  <2> QED BY <2>1, <2>7, <2>8, <2>9 DEF HalfInv, Half!ExactValue, Half!NonFiniteKept
<1>8. CASE Half!Pack
  <2>1. /\ pc = "normalize" /\ single' = Half!Normal /\ pc' = "done"
        /\ UNCHANGED <<word, exponent, mantissa>>
        /\ Half!Subnormal /\ Doubled(exponent, mantissa) /\ (mantissa \div 2^10) % 2 = 1
    BY <1>8 DEF Half!Pack, HalfInv, Half!Normalized
  <2> DEFINE M == Half!Mantissa
             W == Half!Widen(mantissa % 2^10)
  <2>2. /\ single'.sign = Half!Sign /\ single'.exponent = 127 - 14 - exponent
        /\ single'.fraction = W
    BY <2>1 DEF Half!Normal, Half!Float
  <2>3. mantissa % 2^10 \in 0 .. 2^10 - 1 /\ mantissa = 2^10 + (mantissa % 2^10)
    BY <2>1, <1>1, SMT
  <2>4. /\ W \in 0 .. 2^23 - 1 /\ W % 2^13 = 0 /\ W \div 2^13 = mantissa % 2^10
    BY <2>3, Widened
  <2>5. Half!Sign' = Half!Sign /\ Half!Mantissa' = M /\ Half!Exponent' = 0 /\ M # 0
    BY <2>1 DEF Half!Sign, Half!Mantissa, Half!Exponent, Half!Subnormal
  <2>6. Half!HalfSignificand' = M /\ Half!HalfPower' = -24
    BY <2>5, SMT DEF Half!HalfSignificand, Half!HalfPower
  <2>7. M * 2^exponent = mantissa
    <3>1. /\ \/ (exponent = 0 /\ mantissa = M) \/ (exponent = 1 /\ mantissa = 2 * M)
             \/ (exponent = 2 /\ mantissa = 4 * M) \/ (exponent = 3 /\ mantissa = 8 * M)
             \/ (exponent = 4 /\ mantissa = 16 * M) \/ (exponent = 5 /\ mantissa = 32 * M)
             \/ (exponent = 6 /\ mantissa = 64 * M) \/ (exponent = 7 /\ mantissa = 128 * M)
             \/ (exponent = 8 /\ mantissa = 256 * M) \/ (exponent = 9 /\ mantissa = 512 * M)
             \/ (exponent = 10 /\ mantissa = 1024 * M)
      BY <2>1 DEF Doubled
    <3>2. M \in Int BY <1>2
    <3> HIDE DEF M
    <3>3. CASE exponent = 0 /\ mantissa = M
      <4>1. 2^exponent = 2^0 BY <3>3
      <4>2. M * 2^0 = M BY <3>2, SMT
      <4> QED BY <3>3, <4>1, <4>2
    <3>4. CASE exponent = 1 /\ mantissa = 2 * M
      <4>1. 2^exponent = 2^1 BY <3>4
      <4>2. M * 2^1 = 2 * M BY <3>2, SMT
      <4> QED BY <3>4, <4>1, <4>2
    <3>5. CASE exponent = 2 /\ mantissa = 4 * M
      <4>1. 2^exponent = 2^2 BY <3>5
      <4>2. M * 2^2 = 4 * M BY <3>2, SMT
      <4> QED BY <3>5, <4>1, <4>2
    <3>6. CASE exponent = 3 /\ mantissa = 8 * M
      <4>1. 2^exponent = 2^3 BY <3>6
      <4>2. M * 2^3 = 8 * M BY <3>2, SMT
      <4> QED BY <3>6, <4>1, <4>2
    <3>7. CASE exponent = 4 /\ mantissa = 16 * M
      <4>1. 2^exponent = 2^4 BY <3>7
      <4>2. M * 2^4 = 16 * M BY <3>2, SMT
      <4> QED BY <3>7, <4>1, <4>2
    <3>8. CASE exponent = 5 /\ mantissa = 32 * M
      <4>1. 2^exponent = 2^5 BY <3>8
      <4>2. M * 2^5 = 32 * M BY <3>2, SMT
      <4> QED BY <3>8, <4>1, <4>2
    <3>9. CASE exponent = 6 /\ mantissa = 64 * M
      <4>1. 2^exponent = 2^6 BY <3>9
      <4>2. M * 2^6 = 64 * M BY <3>2, SMT
      <4> QED BY <3>9, <4>1, <4>2
    <3>10. CASE exponent = 7 /\ mantissa = 128 * M
      <4>1. 2^exponent = 2^7 BY <3>10
      <4>2. M * 2^7 = 128 * M BY <3>2, SMT
      <4> QED BY <3>10, <4>1, <4>2
    <3>11. CASE exponent = 8 /\ mantissa = 256 * M
      <4>1. 2^exponent = 2^8 BY <3>11
      <4>2. M * 2^8 = 256 * M BY <3>2, SMT
      <4> QED BY <3>11, <4>1, <4>2
    <3>12. CASE exponent = 9 /\ mantissa = 512 * M
      <4>1. 2^exponent = 2^9 BY <3>12
      <4>2. M * 2^9 = 512 * M BY <3>2, SMT
      <4> QED BY <3>12, <4>1, <4>2
    <3>13. CASE exponent = 10 /\ mantissa = 1024 * M
      <4>1. 2^exponent = 2^10 BY <3>13
      <4>2. M * 2^10 = 1024 * M BY <3>2, SMT
      <4> QED BY <3>13, <4>1, <4>2
    <3> QED
      BY <3>1, <3>3, <3>4, <3>5, <3>6, <3>7, <3>8, <3>9, <3>10, <3>11, <3>12, <3>13, ZenonT(60)
  <2> HIDE DEF M, W
  <2>8. /\ single'.exponent \in 0 .. 2^8 - 1 /\ single'.exponent \in 1 .. 254
        /\ single'.exponent # 255
        /\ single'.exponent - 127 - 10 = -24 - exponent /\ -24 - exponent <= -24
        /\ -24 - (-24 - exponent) = exponent
    BY <2>2, <1>1, SMT
  <2>9. Half!TypeOK'
    <3>1. /\ word' \in HalfWords /\ pc' \in {"read", "normalize", "done"}
          /\ exponent' \in HalfCounters /\ mantissa' \in HalfShifted
      BY <1>0, <2>1
    <3>2. /\ single'.sign \in {0, 1} /\ single'.exponent \in HalfBytes
          /\ single'.fraction \in HalfFractions
      BY <1>2, <2>2, <2>4, <2>8, Zenon DEF HalfBytes, HalfFractions
    <3> QED BY <3>1, <3>2, HalfTypeStep, Zenon
  <2>10. Half!ExactValue'
    BY <2>2, <2>3, <2>4, <2>5, <2>6, <2>7, <2>8, ZenonT(60) DEF Half!ExactValue
  <2>11. Half!NonFiniteKept' BY <2>5, <2>8 DEF Half!NonFiniteKept
  <2> QED BY <2>1, <2>9, <2>10, <2>11 DEF HalfInv
<1> QED BY <1>3, <1>4, <1>5, <1>6, <1>7, <1>8 DEF Half!Next

LEMMA HalfKept == Half!Spec => []HalfInv
<1>1. ASSUME Half!Init PROVE HalfInv
  <2>1. word \in HalfWords /\ pc = "read" /\ exponent = 0 /\ mantissa = 0 /\ single = Half!Unset
    BY <1>1, SMT DEF Half!Init, HalfWords
  <2>0. single.sign = 0 /\ single.exponent = 0 /\ single.fraction = 0
    BY <2>1, Zenon DEF Half!Unset, Half!Float
  <2>2. HalfTyped
    <3>1. 0 \in HalfCounters /\ 0 \in HalfShifted /\ 0 \in HalfBytes /\ 0 \in HalfFractions
      BY DEF HalfCounters, HalfShifted, HalfBytes, HalfFractions
    <3> QED BY <2>0, <2>1, <3>1, Zenon DEF HalfTyped
  <2>3. pc # "done" /\ pc # "normalize" BY <2>1
  <2> QED BY <2>2, <2>3, HalfTypes, Zenon DEF HalfInv, Half!ExactValue, Half!NonFiniteKept
<1>2. HalfInv /\ [Half!Next]_(Half!vars) => HalfInv'
  <2> SUFFICES ASSUME HalfInv, [Half!Next]_(Half!vars)
               PROVE  HalfInv'
    OBVIOUS
  <2>1. CASE Half!Next BY <2>1, HalfStepInv
  <2>2. CASE UNCHANGED Half!vars
    <3>1. UNCHANGED <<word, pc, exponent, mantissa, single>>
      BY <2>2 DEF Half!vars
    <3>2. /\ UNCHANGED <<Half!Sign, Half!Exponent, Half!Mantissa>>
          /\ Half!HalfSignificand' = Half!HalfSignificand /\ Half!HalfPower' = Half!HalfPower
      BY <3>1 DEF Half!Sign, Half!Exponent, Half!Mantissa, Half!HalfSignificand, Half!HalfPower
    <3>3. Half!TypeOK'
      <4>1. /\ word' \in HalfWords /\ pc' \in {"read", "normalize", "done"}
            /\ exponent' \in HalfCounters /\ mantissa' \in HalfShifted
            /\ single'.sign \in {0, 1} /\ single'.exponent \in HalfBytes
            /\ single'.fraction \in HalfFractions
        BY <3>1, HalfInvTypes
      <4> QED BY <4>1, HalfTypeStep, Zenon
    <3>4. Half!ExactValue'
      BY <3>1, <3>2, Zenon DEF HalfInv, Half!ExactValue
    <3>5. Half!NonFiniteKept'
      BY <3>1, <3>2 DEF HalfInv, Half!NonFiniteKept
    <3>6. (pc = "normalize" => Half!Subnormal /\ Doubled(exponent, mantissa))'
      BY <3>1, <3>2 DEF HalfInv, Half!Subnormal, Doubled
    <3> QED BY <3>3, <3>4, <3>5, <3>6 DEF HalfInv
  <2> QED BY <2>1, <2>2
<1> QED BY <1>1, <1>2, PTL DEF Half!Spec

\* Every word of 16 bits is unpacked to exactly its value, the loop for
\* subnormals ends before its counter passes the mantissa, no field spills
\* into another, and infinities and NaNs stay what they are (get_output_f32).
THEOREM ValueIsExact == RuntimeSpec /\ program = variant => []ExactValue
<1>1. CASE variant = "half"
  <2>1. HalfInv => ExactValue BY DEF HalfInv, ExactValue
  <2> QED BY <1>1, <2>1, HalfRuns, HalfKept, PTL
<1>2. CASE variant # "half"
  <2>1. program = variant => ExactValue BY <1>2 DEF ExactValue
  <2> QED BY <2>1, ProgramStays, PTL
<1> QED BY <1>1, <1>2

------------------------------
(* BoxDecoding *)

LEMMA DecodingRuns ==
    variant \in DOMAIN Decodings => (RuntimeSpec /\ program = variant => Decoding(variant)!Spec)
<1> SUFFICES ASSUME variant \in DOMAIN Decodings
             PROVE  RuntimeSpec /\ program = variant => Decoding(variant)!Spec
  OBVIOUS
<1>1. RuntimeInit /\ program = variant => Decoding(variant)!Init
  <2> SUFFICES ASSUME RuntimeInit, program = variant
               PROVE  Decoding(variant)!Init
    OBVIOUS
  <2>1. DecodingBegins
    BY NamesAssumption
       DEF RuntimeInit, Singles, IoBegins, ArenaBegins, ContractBegins, FailpointsBegins,
           HalfBegins, DetectorsBegins, LoaderBegins, BridgeBegins
  <2> QED BY <2>1 DEF DecodingBegins
<1>2. program = variant /\ [RuntimeNext]_RuntimeVars
    => [Decoding(variant)!Next]_(Decoding(variant)!vars)
  <2> SUFFICES ASSUME program = variant, [RuntimeNext]_RuntimeVars
               PROVE  [Decoding(variant)!Next]_(Decoding(variant)!vars)
    OBVIOUS
  <2>1. CASE RuntimeNext
    <3>1. DecodingSteps
      BY <2>1, NamesAssumption
         DEF RuntimeNext, Singles, IoSteps, ArenaSteps, ContractSteps, FailpointsSteps,
             HalfSteps, DetectorsSteps, LoaderSteps, BridgeSteps
    <3> QED BY <3>1 DEF DecodingSteps
  <2>2. CASE UNCHANGED RuntimeVars
    BY <2>2 DEF RuntimeVars, Decoding!vars
  <2> QED BY <2>1, <2>2
<1> QED BY <1>1, <1>2, ProgramStays, PTL DEF RuntimeSpec, Decoding!Spec

\* Induction over a set: no operator has to be instantiated.
LEMMA NatInductive ==
    ASSUME NEW S, 0 \in S, \A n \in Nat : n \in S => n + 1 \in S
    PROVE  Nat \subseteq S
<1> DEFINE R == OpToRel(<, Nat)
<1>1. IsWellFoundedOn(R, Nat) BY NatLessThanWellFounded
<1>2. \A a, b \in Nat : a < b => <<a, b>> \in R BY DEF OpToRel
<1> HIDE DEF R
<1> SUFFICES ASSUME Nat \ S # {}
             PROVE  FALSE
  OBVIOUS
<1>3. \E m \in Nat \ S : \A k \in Nat \ S : ~ (<<k, m>> \in R)
  BY <1>1, WFMin
<1>4. PICK m \in Nat \ S : \A k \in Nat \ S : ~ (<<k, m>> \in R) BY <1>3
<1>5. m # 0 /\ m - 1 \in Nat /\ m - 1 + 1 = m /\ m - 1 < m BY <1>4
<1>6. m - 1 \in S BY <1>2, <1>4, <1>5
<1> QED BY <1>4, <1>5, <1>6

\* Pairs of a block and a place in it are numbered block by block.
LEMMA BlockIndex ==
    ASSUME NEW N \in Nat \ {0}, NEW B \in Nat, NEW b \in 0 .. B - 1, NEW k \in 0 .. N - 1
    PROVE  /\ b * N + k \in 0 .. B * N - 1
           /\ (b * N + k) \div N = b
           /\ (b * N + k) % N = k
<1>1. b * N \in Nat /\ B * N \in Nat BY SMT
<1>2. (b + 1) * N = b * N + N BY SMT
<1>3. (b + 1) * N <= B * N
  <2>1. b + 1 <= B OBVIOUS
  <2> QED BY <2>1, SMT
<1>4. b * N + k \in 0 .. B * N - 1 BY <1>1, <1>2, <1>3
<1>5. (b * N + k) \div N = b BY SMT
<1>6. (b * N + k) % N = k BY SMT
<1> QED BY <1>4, <1>5, <1>6

LEMMA BlockIndexInjective ==
    ASSUME NEW N \in Nat \ {0}, NEW b \in Nat, NEW d \in Nat,
           NEW k \in 0 .. N - 1, NEW l \in 0 .. N - 1, b * N + k = d * N + l
    PROVE  b = d /\ k = l
<1> DEFINE B == b + d + 1
<1>1. B \in Nat /\ b \in 0 .. B - 1 /\ d \in 0 .. B - 1 OBVIOUS
<1> HIDE DEF B
<1>2. (b * N + k) \div N = b /\ (b * N + k) % N = k BY <1>1, BlockIndex
<1>3. (d * N + l) \div N = d /\ (d * N + l) % N = l BY <1>1, BlockIndex
<1> QED BY <1>2, <1>3, Zenon

\* Every number is of one block.
LEMMA BlockOf ==
    ASSUME NEW N \in Nat \ {0}, NEW B \in Nat, NEW i \in 0 .. B * N - 1
    PROVE  /\ i \div N \in 0 .. B - 1 /\ i % N \in 0 .. N - 1
           /\ i = ((i \div N) * N) + (i % N)
<1>1. i \in Nat /\ B * N \in Nat BY SMT
<1>2. i % N \in 0 .. N - 1 /\ i \div N \in Nat BY <1>1, SMT
<1>3. i = ((i \div N) * N) + (i % N) BY <1>1, SMT
<1>4. i \div N < B
  <2> DEFINE q == i \div N
  <2>1. q \in Nat /\ i >= q * N /\ i < B * N BY <1>1, <1>2, <1>3, SMT
  <2> HIDE DEF q
  <2>2. ASSUME q >= B
        PROVE  FALSE
    <3>1. q * N >= B * N BY <2>1, <2>2, SMT
    <3> QED BY <2>1, <3>1, <1>1, SMT
  <2>3. q < B BY <2>1, <2>2
  <2> QED BY <2>3 DEF q
<1> QED BY <1>2, <1>3, <1>4

\* The numbers at which a descending function reaches a bound are the first ones.
LEMMA DescendingPrefix ==
    ASSUME NEW N \in Nat, NEW f \in [1 .. N -> Int], NEW t \in Int,
           \A i, j \in 1 .. N : i < j => f[i] >= f[j]
    PROVE  \E m \in 0 .. N : \A i \in 1 .. N : i <= m <=> f[i] >= t
<1> DEFINE S == {n \in Nat : n <= N => \E m \in 0 .. n : \A i \in 1 .. n : i <= m <=> f[i] >= t}
<1>1. 0 \in S OBVIOUS
<1>2. ASSUME NEW n \in Nat, n \in S
      PROVE  n + 1 \in S
  <2> SUFFICES ASSUME n + 1 <= N
               PROVE  \E m \in 0 .. n + 1 : \A i \in 1 .. n + 1 : i <= m <=> f[i] >= t
    OBVIOUS
  <2>1. PICK m \in 0 .. n : \A i \in 1 .. n : i <= m <=> f[i] >= t
    BY <1>2
  <2>2. CASE f[n + 1] >= t
    <3>1. \A i \in 1 .. n + 1 : f[i] >= t BY <2>2
    <3>2. n + 1 \in 0 .. n + 1 /\ \A i \in 1 .. n + 1 : i <= n + 1 <=> f[i] >= t
      BY <3>1
    <3> QED BY <3>2, Zenon
  <2>3. CASE ~(f[n + 1] >= t)
    <3>1. \A i \in 1 .. n + 1 : i <= m <=> f[i] >= t BY <2>1, <2>3
    <3>2. m \in 0 .. n + 1 OBVIOUS
    <3> QED BY <3>1, <3>2, Zenon
  <2> QED BY <2>2, <2>3
<1> HIDE DEF S
<1>3. Nat \subseteq S BY <1>1, <1>2, NatInductive
<1>4. N \in S BY <1>3
<1>5. N <= N => \E m \in 0 .. N : \A i \in 1 .. N : i <= m <=> f[i] >= t
  BY <1>4, Zenon DEF S
<1> QED BY <1>5

\* The first m of rows.
Prefix(rows, m) == [i \in 1 .. m |-> rows[i]]
HasFirst(S, N, m) == m \in 0 .. N /\ \A i \in 1 .. N : i \in S <=> i <= m

\* The loop over ranked rows keeps a prefix as it is.
LEMMA KeptPrefix ==
    ASSUME NEW N \in Nat, NEW rows, rows = Prefix(rows, N), NEW m, NEW S, HasFirst(S, N, m)
    PROVE  Decoding(variant)!Kept(rows, S) = Prefix(rows, m)
<1>0. rows = [i \in 1 .. N |-> rows[i]] /\ m \in 0 .. N /\ \A i \in 1 .. N : i \in S <=> i <= m
  BY DEF Prefix, HasFirst
<1> DEFINE Until(k) == IF k <= m THEN k ELSE m
           Loop(g) == g = [k \in 0 .. N |-> IF k = 0 THEN <<>>
                                            ELSE IF k \in S THEN Append(g[k - 1], rows[k])
                                            ELSE g[k - 1]]
           C == CHOOSE g : Loop(g)
           G == [k \in 0 .. N |-> [i \in 1 .. Until(k) |-> rows[i]]]
<1>1. Len(rows) = N /\ DOMAIN rows = 1 .. N
  <2>1. rows \in Seq({rows[i] : i \in 1 .. N}) BY <1>0
  <2>2. DOMAIN rows = 1 .. N BY <1>0
  <2> QED BY <2>1, <2>2
<1>2. \A k \in 1 .. N : G[k] = IF k \in S THEN Append(G[k - 1], rows[k]) ELSE G[k - 1]
  <2> SUFFICES ASSUME NEW k \in 1 .. N
               PROVE  G[k] = IF k \in S THEN Append(G[k - 1], rows[k]) ELSE G[k - 1]
    OBVIOUS
  <2> DEFINE p == k - 1
  <2>0. p \in 0 .. N /\ k = p + 1 OBVIOUS
  <2>1. G[k] = [i \in 1 .. Until(k) |-> rows[i]] /\ G[p] = [i \in 1 .. Until(p) |-> rows[i]]
    OBVIOUS
  <2> HIDE DEF G, p
  <2>2. CASE k \in S
    <3>1. k <= m BY <2>2, <1>0
    <3>2. Until(k) = k /\ Until(p) = p BY <3>1, <2>0, <1>0
    <3> HIDE DEF Until
    <3>3. G[p] = [i \in 1 .. p |-> rows[i]] /\ G[k] = [i \in 1 .. k |-> rows[i]]
      BY <2>1, <3>2
    <3>4. Append([i \in 1 .. p |-> rows[i]], rows[k]) = [i \in 1 .. k |-> rows[i]]
      <4> DEFINE a == [i \in 1 .. p |-> rows[i]]
                 b == [i \in 1 .. k |-> rows[i]]
                 T == {rows[i] : i \in 1 .. k}
      <4>1. a \in Seq(T) /\ Len(a) = p /\ b \in Seq(T) /\ Len(b) = k
        <5>1. p \in Nat /\ k \in Nat /\ 1 .. p \subseteq 1 .. k BY <2>0
        <5>2. a \in [1 .. p -> T] /\ b \in [1 .. k -> T] BY <5>1, Zenon
        <5> HIDE DEF a, b, T
        <5> QED BY <5>1, <5>2
      <4>2. rows[k] \in T BY <2>0
      <4>3. \A i \in 1 .. p : a[i] = b[i] BY <2>0
      <4>4. b[k] = rows[k] BY <2>0
      <4> HIDE DEF a, b, T
      <4> DEFINE d == Append(a, rows[k])
      <4>5. d \in Seq(T) /\ Len(d) = k /\ (\A i \in 1 .. p : d[i] = a[i]) /\ d[k] = rows[k]
        BY <4>1, <4>2, <2>0
      <4> HIDE DEF d
      <4>6. \A i \in 1 .. k : d[i] = b[i] BY <4>3, <4>4, <4>5, <2>0
      <4>7. d = b BY <4>1, <4>5, <4>6, SeqEqual
      <4> QED BY <4>7 DEF a, b, d
    <3>5. G[k] = Append(G[p], rows[k]) BY <3>3, <3>4, Zenon
    <3> QED BY <3>5, <2>2, Zenon DEF p
  <2>3. CASE k \notin S
    <3>1. Until(k) = m /\ Until(p) = m BY <2>0, <2>3, <1>0
    <3>2. G[k] = G[p] BY <2>1, <3>1
    <3> QED BY <3>2, <2>3, Zenon DEF p
  <2> QED BY <2>2, <2>3, Zenon
<1>3. G[0] = <<>>
  <2>1. G[0] = [i \in 1 .. 0 |-> rows[i]] BY <1>0
  <2> QED BY <2>1
<1>4. Loop(G)
  <2> DEFINE H == [k \in 0 .. N |-> IF k = 0 THEN <<>>
                                    ELSE IF k \in S THEN Append(G[k - 1], rows[k]) ELSE G[k - 1]]
  <2>1. DOMAIN G = 0 .. N /\ G = [k \in DOMAIN G |-> G[k]] BY Zenon
  <2> HIDE DEF G
  <2>2. DOMAIN H = 0 .. N /\ H = [k \in DOMAIN H |-> H[k]] BY Zenon
  <2>3. \A k \in 0 .. N : H[k] = IF k = 0 THEN <<>> ELSE IF k \in S THEN Append(G[k - 1], rows[k])
                                                        ELSE G[k - 1]
    BY Zenon
  <2> HIDE DEF H
  <2>4. \A k \in 0 .. N : k = 0 \/ k \in 1 .. N OBVIOUS
  <2>5. \A k \in 0 .. N : G[k] = H[k] BY <2>3, <2>4, <1>2, <1>3, Zenon
  <2>6. G = H BY <2>1, <2>2, <2>5, Zenon
  <2> QED BY <2>6, Zenon DEF H
<1>5. Loop(C)
  <2> HIDE DEF Loop, G
  <2> QED BY <1>4, Zenon
<1>6. Decoding(variant)!Kept(rows, S) = C[N] BY <1>1 DEF Decoding!Kept
<1>7. C[N] = G[N]
  <2> HIDE DEF C, G
  <2>1. C[0] = <<>> BY <1>5
  <2>2. ASSUME NEW k \in 1 .. N
        PROVE  C[k] = IF k \in S THEN Append(C[k - 1], rows[k]) ELSE C[k - 1]
    <3>1. k \in 0 .. N /\ k # 0 OBVIOUS
    <3> QED BY <3>1, <1>5, Zenon
  <2> HIDE DEF Loop
  <2> DEFINE R == {n \in Nat : n <= N => C[n] = G[n]}
  <2>3. 0 \in R BY <1>3, <2>1
  <2>4. ASSUME NEW n \in Nat, n \in R
        PROVE  n + 1 \in R
    <3> SUFFICES ASSUME n + 1 <= N
                 PROVE  C[n + 1] = G[n + 1]
      OBVIOUS
    <3> DEFINE k == n + 1
    <3>1. k \in 1 .. N /\ k - 1 = n /\ C[n] = G[n] BY <2>4
    <3> HIDE DEF k, R
    <3>2. C[k - 1] = G[k - 1] BY <3>1, Zenon
    <3>3. C[k] = G[k] BY <3>1, <3>2, <2>2, <1>2, Zenon
    <3> QED BY <3>3 DEF k
  <2> HIDE DEF R
  <2>5. Nat \subseteq R BY <2>3, <2>4, NatInductive
  <2>6. N \in R BY <2>5
  <2>7. N <= N => C[N] = G[N] BY <2>6, Zenon DEF R
  <2> QED BY <2>7
<1>8. G[N] = [i \in 1 .. m |-> rows[i]]
  <2>1. Until(N) = m BY <1>0
  <2>2. G[N] = [i \in 1 .. Until(N) |-> rows[i]] OBVIOUS
  <2> HIDE DEF G, Until
  <2> QED BY <2>1, <2>2, Zenon
<1> QED BY <1>6, <1>7, <1>8, Zenon DEF Prefix

\* The order of a stable descending sort, and how many go before a number in it.
Goes(key, a, d) == key[a] > key[d] \/ (key[a] = key[d] /\ a < d)
Ahead(A, key, a) == {d \in A : Goes(key, d, a)}

\* The places of a stable sort are all different, and in order.
LEMMA SortedPlaces ==
    ASSUME NEW lo \in Int, NEW N \in Nat \ {0}, NEW key,
           \A a \in lo .. lo + N - 1 : key[a] \in Int
    PROVE  LET A == lo .. lo + N - 1
           IN  /\ \A a \in A : Cardinality(Ahead(A, key, a)) \in 0 .. N - 1
               /\ \A a, d \in A :
                     Goes(key, a, d) =>
                        Cardinality(Ahead(A, key, a)) < Cardinality(Ahead(A, key, d))
               /\ \A k \in 0 .. N - 1 : \E a \in A : Cardinality(Ahead(A, key, a)) = k
<1> DEFINE A == lo .. lo + N - 1
           Number(a) == Cardinality(Ahead(A, key, a))
           f == [a \in A |-> Number(a)]
<1>1. A \subseteq Int /\ IsFiniteSet(A) /\ Cardinality(A) = N
  <2>1. lo + N - 1 \in Int /\ ~(lo > lo + N - 1) /\ lo + N - 1 - lo + 1 = N
    OBVIOUS
  <2> QED BY <2>1, FS_Interval
<1>2. \A a \in A : key[a] \in Int OBVIOUS
<1> HIDE DEF A
<1>3. ASSUME NEW a \in A
      PROVE  IsFiniteSet(Ahead(A, key, a)) /\ a \notin Ahead(A, key, a)
        /\ Ahead(A, key, a) \subseteq A
  <2>1. ~Goes(key, a, a) BY <1>1, <1>2 DEF Goes
  <2>2. a \notin Ahead(A, key, a) /\ Ahead(A, key, a) \subseteq A
    BY <2>1 DEF Ahead
  <2> QED BY <2>2, <1>1, FS_Subset
<1>4. ASSUME NEW a \in A, NEW d \in A, Goes(key, a, d)
      PROVE  Number(a) < Number(d)
  <2>1. ASSUME NEW x \in Ahead(A, key, a)
        PROVE  x \in Ahead(A, key, d)
    BY <1>1, <1>2, <1>4 DEF Ahead, Goes
  <2>2. a \in Ahead(A, key, d) BY <1>4 DEF Ahead
  <2>3. Ahead(A, key, a) \in SUBSET Ahead(A, key, d) /\ Ahead(A, key, a) # Ahead(A, key, d)
    BY <2>1, <2>2, <1>3
  <2>4. Number(a) <= Number(d) /\ Number(a) # Number(d)
    BY <2>3, <1>3, FS_Subset
  <2>5. Number(a) \in Nat /\ Number(d) \in Nat
    BY <1>3, FS_CardinalityType
  <2> QED BY <2>4, <2>5
<1>5. ASSUME NEW a \in A
      PROVE  Number(a) \in 0 .. N - 1
  <2>1. Number(a) \in Nat /\ Number(a) <= N
    BY <1>1, <1>3, FS_Subset, FS_CardinalityType
  <2>2. Number(a) # N
    <3>1. Ahead(A, key, a) # A BY <1>3
    <3> QED BY <3>1, <1>1, <1>3, FS_Subset
  <2> QED BY <2>1, <2>2
<1>6. f \in Injection(A, 0 .. N - 1)
  <2>1. f \in [A -> 0 .. N - 1] BY <1>5
  <2>2. ASSUME NEW a \in A, NEW d \in A, a # d
        PROVE  f[a] # f[d]
    <3>1. Goes(key, a, d) \/ Goes(key, d, a)
      BY <1>1, <1>2, <2>2 DEF Goes
    <3>2. Number(a) \in Int /\ Number(d) \in Int BY <1>5
    <3>3. Number(a) # Number(d)
      <4> HIDE DEF Number
      <4>1. Number(a) < Number(d) \/ Number(d) < Number(a) BY <3>1, <1>4
      <4> QED BY <4>1, <3>2
    <3> QED BY <3>3
  <2> HIDE DEF f
  <2> QED BY <2>1, <2>2 DEF Injection, IsInjective
<1>7. f \in Surjection(A, 0 .. N - 1)
  <2>1. IsFiniteSet(0 .. N - 1) /\ Cardinality(0 .. N - 1) = N
    <3>1. N - 1 \in Int /\ 0 \in Int /\ ~(0 > N - 1) /\ N - 1 - 0 + 1 = N
      OBVIOUS
    <3> QED BY <3>1, FS_Interval
  <2> HIDE DEF f
  <2> QED BY <2>1, <1>1, <1>6, FS_Injection
<1>8. \A k \in 0 .. N - 1 : \E a \in A : Number(a) = k
  <2>1. \A k \in 0 .. N - 1 : \E a \in A : f[a] = k
    <3> HIDE DEF f
    <3> QED BY <1>7 DEF Surjection
  <2>2. \A a \in A : f[a] = Number(a) BY Zenon
  <2> QED BY <2>1, <2>2, Zenon
<1> QED BY <1>4, <1>5, <1>8 DEF A

\* The numbers of the variant: candidates of an image, places of a ranking, images of a batch.
Wide == Decodings[variant].queries * Decodings[variant].classes
Deep == Decoding(variant)!TopK
Batches == Decodings[variant].max_batch
Cells == 0 .. Wide - 1
Levels == DOMAIN Decodings[variant].score
ScoreAt(level) == Decodings[variant].score[level]

LEMMA DecodingNumbers ==
    ASSUME variant \in DOMAIN Decodings
    PROVE  /\ Wide \in Nat \ {0} /\ Deep \in 1 .. Wide /\ Batches \in Nat \ {0}
           /\ Decodings[variant].queries \in Nat \ {0} /\ Decodings[variant].classes \in Nat \ {0}
           /\ Decodings[variant].own_threshold \in Nat /\ Decodings[variant].requests \subseteq Int
<1>1. Decoding(variant)!DecodingAssumption BY PartsAssumption
<1>2. /\ Decodings[variant].queries \in Nat \ {0} /\ Decodings[variant].classes \in Nat \ {0}
      /\ Decodings[variant].limit \in Nat \ {0} /\ Batches \in Nat \ {0}
      /\ Decodings[variant].own_threshold \in Nat /\ Decodings[variant].requests \subseteq Int
  BY <1>1 DEF Decoding!DecodingAssumption, Batches
<1>3. \A q, c \in Nat \ {0} : q * c \in Nat \ {0} BY SMT
<1>4. Wide \in Nat \ {0} BY <1>2, <1>3, Zenon DEF Wide
<1>5. Deep = IF Wide < Decodings[variant].limit THEN Wide ELSE Decodings[variant].limit
  BY DEF Deep, Wide, Decoding!TopK
<1>6. Deep \in 1 .. Wide BY <1>2, <1>4, <1>5
<1> QED BY <1>2, <1>4, <1>6

LEMMA DecodingSets ==
    ASSUME variant \in DOMAIN Decodings
    PROVE  /\ Decoding(variant)!NCand = Wide /\ Decoding(variant)!Candidate = Cells
           /\ Decoding(variant)!Slot = 0 .. Batches * Wide - 1
           /\ Decoding(variant)!Image = 0 .. Batches - 1
           /\ Decoding(variant)!MinusInf = 0 /\ Decoding(variant)!Level = Levels
           /\ \A j \in Nat : Decoding(variant)!SegOff(j) = j * Wide
           /\ \A j \in Nat : Decoding(variant)!Segment(j) = j * Wide .. j * Wide + Wide - 1
<1>1. Decoding(variant)!NCand = Wide BY DEF Decoding!NCand, Wide
<1>2. Decoding(variant)!Candidate = Cells
  BY DEF Decoding!Candidate, Cells, Wide
<1>3. Decoding(variant)!Slot = 0 .. Batches * Wide - 1
  BY <1>1, Zenon DEF Decoding!Slot, Batches
<1>4. Decoding(variant)!Image = 0 .. Batches - 1
  BY DEF Decoding!Image, Batches
<1>5. Decoding(variant)!MinusInf = 0 /\ Decoding(variant)!Level = Levels
  BY DEF Decoding!MinusInf, Decoding!Level, Levels
<1>6. \A j : Decoding(variant)!SegOff(j) = j * Wide
  BY <1>1, Zenon DEF Decoding!SegOff
<1>7. ASSUME NEW j \in Nat
      PROVE  Decoding(variant)!Segment(j) = j * Wide .. j * Wide + Wide - 1
  <2>1. Decoding(variant)!Segment(j) = j * Wide .. (j + 1) * Wide - 1
    <3>1. Decoding(variant)!Segment(j) =
             Decoding(variant)!SegOff(j) .. Decoding(variant)!SegOff(j + 1) - 1
      BY DEF Decoding!Segment
    <3>2. /\ Decoding(variant)!SegOff(j) = j * Wide
          /\ Decoding(variant)!SegOff(j + 1) = (j + 1) * Wide
      BY <1>6, Zenon
    <3> QED BY <3>1, <3>2
  <2>2. (j + 1) * Wide = j * Wide + Wide
    <3>1. Wide \in Nat BY DecodingNumbers
    <3>2. \A w \in Nat : (j + 1) * w = j * w + w BY SMT
    <3> QED BY <3>1, <3>2, Zenon
  <2> DEFINE first == j * Wide
             last == (j + 1) * Wide
  <2>3. Decoding(variant)!Segment(j) = first .. last - 1 /\ last = first + Wide
    BY <2>1, <2>2
  <2>4. first \in Nat /\ Wide \in Nat
    <3>1. Wide \in Nat BY DecodingNumbers
    <3>2. \A a, d \in Nat : a * d \in Nat BY SMT
    <3> QED BY <3>1, <3>2, Zenon
  <2> HIDE DEF first, last
  <2>5. last - 1 = first + Wide - 1 BY <2>3, <2>4
  <2>6. Decoding(variant)!Segment(j) = first .. first + Wide - 1
    BY <2>3, <2>5, Zenon
  <2> QED BY <2>6 DEF first
<1> QED BY <1>1, <1>2, <1>3, <1>4, <1>5, <1>6, <1>7

LEMMA DecodingScores ==
    ASSUME variant \in DOMAIN Decodings
    PROVE  /\ Levels \subseteq Int /\ NaN \notin Levels /\ 0 \in Levels /\ ScoreAt(0) = 0
           /\ \A a \in Levels : ScoreAt(a) \in Int
           /\ \A a, d \in Levels : a <= d => ScoreAt(a) <= ScoreAt(d)
           /\ \A f \in Decodings[variant].frames : \A c \in Cells : f[c] \in Levels \cup {NaN}
<1>1. Decoding(variant)!DecodingAssumption BY PartsAssumption
<1>2. /\ Levels \subseteq Int /\ NaN \notin Levels /\ 0 \in Levels /\ ScoreAt(0) = 0
      /\ Decodings[variant].score \in [Levels -> Int]
      /\ \A a, d \in Levels : a <= d => ScoreAt(a) <= ScoreAt(d)
  BY <1>1, DecodingSets, Zenon DEF Decoding!DecodingAssumption, ScoreAt
<1>3. \A f \in Decodings[variant].frames : \A c \in Cells : f[c] \in Levels \cup {NaN}
  BY <1>1, DecodingSets, Zenon DEF Decoding!DecodingAssumption
<1>4. \A a \in Levels : ScoreAt(a) \in Int BY <1>2 DEF ScoreAt
<1> QED BY <1>2, <1>3, <1>4

\* The key a candidate of an image f is ranked by, and its score.
KeyOf(f, c) == Decoding(variant)!HostKey(f[c])
ScoreOf(f, c) == ScoreAt(KeyOf(f, c))

LEMMA KeysTyped ==
    ASSUME variant \in DOMAIN Decodings, NEW f \in Decodings[variant].frames, NEW c \in Cells
    PROVE  /\ KeyOf(f, c) \in Levels /\ KeyOf(f, c) \in Int /\ ScoreOf(f, c) \in Int
           /\ f[c] # NaN => KeyOf(f, c) = f[c]
           /\ f[c] = NaN => KeyOf(f, c) = 0
           /\ Decoding(variant)!PackedKey(f[c]) = KeyOf(f, c)
<1>1. f[c] \in Levels \cup {NaN} BY DecodingScores
<1>2. KeyOf(f, c) = IF f[c] = NaN THEN 0 ELSE f[c]
  BY DEF KeyOf, Decoding!HostKey, Decoding!MinusInf
<1>3. Decoding(variant)!PackedKey(f[c]) = KeyOf(f, c)
  BY DEF KeyOf, Decoding!HostKey, Decoding!PackedKey
<1>4. KeyOf(f, c) \in Levels BY <1>1, <1>2, DecodingScores
<1> QED BY <1>2, <1>3, <1>4, DecodingScores DEF ScoreOf

\* r is a descending order of the candidates of image f, as far as it goes.
Ranked(f, r) ==
    /\ r \in [1 .. Deep -> Cells]
    /\ \A i, j \in 1 .. Deep : i < j => r[i] # r[j] /\ KeyOf(f, r[i]) >= KeyOf(f, r[j])
    /\ \A c \in Cells : (\A i \in 1 .. Deep : r[i] # c) => KeyOf(f, c) <= KeyOf(f, r[Deep])

LEMMA HostRanksSo ==
    ASSUME variant \in DOMAIN Decodings, NEW b, NEW r
    PROVE  r \in Decoding(variant)!HostRankings(b) <=> Ranked(frames[b], r)
<1> DEFINE key == [c \in Cells |-> KeyOf(frames[b], c)]
<1>1. Decoding(variant)!HostRankings(b) = Decoding(variant)!Rankings(key)
  BY DecodingSets, Zenon DEF Decoding!HostRankings, KeyOf
<1>2. r \in Decoding(variant)!Rankings(key) <=>
        /\ r \in [1 .. Deep -> Cells]
        /\ \A i, j \in 1 .. Deep : i < j => r[i] # r[j] /\ key[r[i]] >= key[r[j]]
        /\ \A c \in Cells : (\A i \in 1 .. Deep : r[i] # c) => key[c] <= key[r[Deep]]
  <2> HIDE DEF key
  <2> QED BY DecodingSets, Zenon DEF Decoding!Rankings, Deep
<1>3. \A c \in Cells : key[c] = KeyOf(frames[b], c) OBVIOUS
<1>4. Deep \in 1 .. Deep BY DecodingNumbers
<1> HIDE DEF key
<1>5. r \in [1 .. Deep -> Cells] =>
          /\ \A i \in 1 .. Deep : key[r[i]] = KeyOf(frames[b], r[i])
          /\ key[r[Deep]] = KeyOf(frames[b], r[Deep])
  BY <1>3, <1>4
<1> QED BY <1>1, <1>2, <1>3, <1>5, ZenonT(60) DEF Ranked

\* What is returned for image f in place b and threshold t: the first m of a ranking, which are
\* those that reach the threshold.
IsResult(rows, b, f, t, r, m) ==
    /\ Ranked(f, r) /\ m \in 0 .. Deep
    /\ rows = [i \in 1 .. m |-> Decoding(variant)!Row(b, r[i], ScoreOf(f, r[i]))]
    /\ \A i \in 1 .. Deep : i <= m <=> ScoreOf(f, r[i]) >= t

\* A ranking by logits descends in scores, too.
LEMMA RankedScores ==
    ASSUME variant \in DOMAIN Decodings, NEW f \in Decodings[variant].frames,
           NEW r, Ranked(f, r)
    PROVE  /\ \A i \in 1 .. Deep : ScoreOf(f, r[i]) \in Int
           /\ \A i, j \in 1 .. Deep : i < j => ScoreOf(f, r[i]) >= ScoreOf(f, r[j])
           /\ \A c \in Cells : (\A i \in 1 .. Deep : r[i] # c)
              => ScoreOf(f, c) <= ScoreOf(f, r[Deep])
<1>1. \A i \in 1 .. Deep : r[i] \in Cells BY DEF Ranked
<1>2. \A c \in Cells : KeyOf(f, c) \in Levels /\ KeyOf(f, c) \in Int /\ ScoreOf(f, c) \in Int
  BY KeysTyped
<1>3. \A c, d \in Cells : KeyOf(f, c) <= KeyOf(f, d) => ScoreOf(f, c) <= ScoreOf(f, d)
  BY <1>2, DecodingScores, Zenon DEF ScoreOf
<1>4. Deep \in 1 .. Deep BY DecodingNumbers
<1>5. ASSUME NEW i \in 1 .. Deep, NEW j \in 1 .. Deep, i < j
      PROVE  ScoreOf(f, r[i]) >= ScoreOf(f, r[j])
  <2>1. KeyOf(f, r[i]) >= KeyOf(f, r[j]) BY <1>5 DEF Ranked
  <2>2. KeyOf(f, r[j]) <= KeyOf(f, r[i]) BY <2>1, <1>1, <1>2
  <2>3. ScoreOf(f, r[j]) <= ScoreOf(f, r[i]) BY <2>2, <1>1, <1>3, Zenon
  <2> QED BY <2>3, <1>1, <1>2
<1>6. ASSUME NEW c \in Cells, \A i \in 1 .. Deep : r[i] # c
      PROVE  ScoreOf(f, c) <= ScoreOf(f, r[Deep])
  <2>1. KeyOf(f, c) <= KeyOf(f, r[Deep]) BY <1>6, Zenon DEF Ranked
  <2> QED BY <2>1, <1>1, <1>3, <1>4, Zenon
<1> QED BY <1>1, <1>2, <1>5, <1>6, Zenon

LEMMA HostRowsAreResult ==
    ASSUME variant \in DOMAIN Decodings, NEW b, frames[b] \in Decodings[variant].frames,
           NEW r, Ranked(frames[b], r), thr \in Int
    PROVE  \E m : IsResult(Decoding(variant)!HostRows(b, r), b, frames[b], thr, r, m)
<1> DEFINE scored == [i \in 1 .. Deep |-> Decoding(variant)!Row(b, r[i], ScoreOf(frames[b], r[i]))]
           S == {i \in 1 .. Deep : Decoding(variant)!HostKeeps(scored[i].score, thr)}
           f == [i \in 1 .. Deep |-> ScoreOf(frames[b], r[i])]
<1>1. Deep \in Nat BY DecodingNumbers
<1>2. f \in [1 .. Deep -> Int] /\ \A i, j \in 1 .. Deep : i < j => f[i] >= f[j]
  <2>1. \A i \in 1 .. Deep : f[i] = ScoreOf(frames[b], r[i]) OBVIOUS
  <2>2. f \in [1 .. Deep -> Int] BY RankedScores
  <2> HIDE DEF f
  <2> QED BY <2>1, <2>2, RankedScores
<1>3. PICK m \in 0 .. Deep : \A i \in 1 .. Deep : i <= m <=> f[i] >= thr
  <2> HIDE DEF f
  <2> QED BY <1>1, <1>2, DescendingPrefix
<1>4. \A i \in 1 .. Deep : i <= m <=> ScoreOf(frames[b], r[i]) >= thr
  BY <1>3
<1>5. \A i \in 1 .. Deep : i \in S <=> i <= m
  <2>1. \A i \in 1 .. Deep : scored[i].score = ScoreOf(frames[b], r[i])
    BY DEF Decoding!Row
  <2> HIDE DEF scored
  <2>2. \A i \in 1 .. Deep : ScoreOf(frames[b], r[i]) \in Int
    BY RankedScores
  <2> QED BY <2>1, <2>2, <1>4 DEF Decoding!HostKeeps
<1>6. scored = Prefix(scored, Deep)
  <2>1. scored = [i \in 1 .. Deep |-> scored[i]] BY Zenon
  <2> QED BY <2>1, Zenon DEF Prefix
<1>7. Decoding(variant)!HostRows(b, r) = Decoding(variant)!Kept(scored, S)
  BY Zenon DEF Decoding!HostRows, ScoreOf, KeyOf, ScoreAt, Deep
<1>8. \A i \in 1 .. m : scored[i] = Decoding(variant)!Row(b, r[i], ScoreOf(frames[b], r[i]))
  <2>1. \A i \in 1 .. m : i \in 1 .. Deep BY <1>1
  <2>2. \A i \in 1 .. Deep : scored[i] = Decoding(variant)!Row(b, r[i], ScoreOf(frames[b], r[i]))
    BY Zenon
  <2> QED BY <2>1, <2>2, Zenon
<1> HIDE DEF scored, S, f
<1>9. Decoding(variant)!Kept(scored, S) = [i \in 1 .. m |-> scored[i]]
  <2>1. HasFirst(S, Deep, m) BY <1>3, <1>5, Zenon DEF HasFirst
  <2>2. Decoding(variant)!Kept(scored, S) = Prefix(scored, m)
    BY <1>1, <1>6, <2>1, KeptPrefix
  <2> QED BY <2>2, Zenon DEF Prefix
<1>10. Decoding(variant)!HostRows(b, r)
         = [i \in 1 .. m |-> Decoding(variant)!Row(b, r[i], ScoreOf(frames[b], r[i]))]
  BY <1>7, <1>8, <1>9, Zenon
<1>11. IsResult(Decoding(variant)!HostRows(b, r), b, frames[b], thr, r, m)
  BY <1>3, <1>4, <1>10, Zenon DEF IsResult
<1> QED BY <1>11

LEMMA ResultAgrees ==
    ASSUME variant \in DOMAIN Decodings, NEW b, frames[b] \in Decodings[variant].frames,
           thr \in Int,
           NEW r, NEW m, NEW rows, IsResult(rows, b, frames[b], thr, r, m),
           \A c \in Cells : frames[b][c] # NaN
    PROVE  rows \in Decoding(variant)!ReferenceOutcomes(b)
<1> DEFINE prob == [c \in Cells |-> ScoreAt(frames[b][c])]
           row(c) == [box |-> <<b, c \div Decodings[variant].classes>>,
                      class |-> c % Decodings[variant].classes, score |-> prob[c]]
           all == [i \in 1 .. Deep |-> row(r[i])]
           S == {i \in 1 .. Deep : prob[r[i]] >= thr}
<1>1. Deep \in Nat /\ m \in 0 .. Deep /\ Ranked(frames[b], r)
  BY DecodingNumbers DEF IsResult
<1>2. \A c \in Cells : prob[c] = ScoreOf(frames[b], c)
  <2>1. \A c \in Cells : KeyOf(frames[b], c) = frames[b][c] BY KeysTyped
  <2> QED BY <2>1 DEF ScoreOf
<1>3. \A i \in 1 .. Deep : r[i] \in Cells BY <1>1 DEF Ranked
<1>4. \A c \in Cells : row(c) = Decoding(variant)!Row(b, c, ScoreOf(frames[b], c))
  BY <1>2, Zenon DEF Decoding!Row
<1>5. r \in Decoding(variant)!Rankings(prob)
  <2> HIDE DEF prob
  <2>1. r \in Decoding(variant)!Rankings(prob) <=>
        /\ r \in [1 .. Deep -> Cells]
        /\ \A i, j \in 1 .. Deep : i < j => r[i] # r[j] /\ prob[r[i]] >= prob[r[j]]
        /\ \A c \in Cells : (\A i \in 1 .. Deep : r[i] # c) => prob[c] <= prob[r[Deep]]
    BY DecodingSets, Zenon DEF Decoding!Rankings, Deep
  <2>2. r \in [1 .. Deep -> Cells] /\ \A i, j \in 1 .. Deep : i < j => r[i] # r[j]
    BY <1>1 DEF Ranked
  <2>3. \A i \in 1 .. Deep : prob[r[i]] = ScoreOf(frames[b], r[i])
    BY <1>2, <1>3, Zenon
  <2>4. Deep \in 1 .. Deep BY DecodingNumbers
  <2>5. \A i, j \in 1 .. Deep : i < j => prob[r[i]] >= prob[r[j]]
    <3>1. \A i, j \in 1 .. Deep : i < j => ScoreOf(frames[b], r[i]) >= ScoreOf(frames[b], r[j])
      BY <1>1, RankedScores
    <3> QED BY <3>1, <2>3, Zenon
  <2>6. \A c \in Cells : (\A i \in 1 .. Deep : r[i] # c) => prob[c] <= prob[r[Deep]]
    <3>1. \A c \in Cells : (\A i \in 1 .. Deep : r[i] # c)
        => ScoreOf(frames[b], c) <= ScoreOf(frames[b], r[Deep])
      BY <1>1, RankedScores
    <3> QED BY <3>1, <1>2, <2>3, <2>4, Zenon
  <2> QED BY <2>1, <2>2, <2>5, <2>6, Zenon
<1>6. \A i \in 1 .. Deep : i \in S <=> i <= m
  <2>1. \A i \in 1 .. Deep : prob[r[i]] = ScoreOf(frames[b], r[i])
    BY <1>2, <1>3, Zenon
  <2>2. \A i \in 1 .. Deep : i <= m <=> ScoreOf(frames[b], r[i]) >= thr
    BY DEF IsResult
  <2> HIDE DEF prob
  <2> QED BY <2>1, <2>2
<1>7. \A i \in 1 .. Deep : all[i] = Decoding(variant)!Row(b, r[i], ScoreOf(frames[b], r[i]))
  <2>1. \A i \in 1 .. Deep : all[i] = row(r[i]) BY Zenon
  <2> QED BY <2>1, <1>3, <1>4, Zenon
<1>8. all = Prefix(all, Deep)
  <2>1. all = [i \in 1 .. Deep |-> all[i]] BY Zenon
  <2> QED BY <2>1, Zenon DEF Prefix
<1>9. Decoding(variant)!Kept(all, S) \in Decoding(variant)!ReferenceOutcomes(b)
  <2>1. Decoding(variant)!ReferenceOutcomes(b) =
          {Decoding(variant)!Kept([i \in 1 .. Deep |-> row(q[i])],
                                  {i \in 1 .. Deep : prob[q[i]] >= thr}) :
              q \in Decoding(variant)!Rankings(prob)}
    BY DecodingSets, ZenonT(60) DEF Decoding!ReferenceOutcomes, ScoreAt, Deep
  <2> QED BY <2>1, <1>5, Zenon
<1> HIDE DEF all, S, prob, row
<1>10. Decoding(variant)!Kept(all, S) = [i \in 1 .. m |-> all[i]]
  <2>1. HasFirst(S, Deep, m) BY <1>1, <1>6, Zenon DEF HasFirst
  <2>2. Decoding(variant)!Kept(all, S) = Prefix(all, m)
    BY <1>1, <1>8, <2>1, KeptPrefix
  <2> QED BY <2>2, Zenon DEF Prefix
<1>11. \A i \in 1 .. m : all[i] = Decoding(variant)!Row(b, r[i], ScoreOf(frames[b], r[i]))
  BY <1>1, <1>7
<1>12. rows = [i \in 1 .. m |-> Decoding(variant)!Row(b, r[i], ScoreOf(frames[b], r[i]))]
  BY Zenon DEF IsResult
<1>13. rows = [i \in 1 .. m |-> all[i]] BY <1>11, <1>12, Zenon
<1> QED BY <1>9, <1>10, <1>13, Zenon

\* A candidate is its query and its class.
LEMMA CandidateIsItsRow ==
    ASSUME NEW N \in Nat \ {0}, NEW c \in Nat, NEW d \in Nat, c \div N = d \div N, c % N = d % N
    PROVE  c = d
<1>1. c = ((c \div N) * N) + (c % N) BY SMT
<1>2. d = ((d \div N) * N) + (d % N) BY SMT
<1> QED BY <1>1, <1>2, Zenon

LEMMA ResultTakes ==
    ASSUME variant \in DOMAIN Decodings, NEW b, NEW r, NEW m,
           IsResult(results[b], b, frames[b], thr, r, m)
    PROVE  \A c \in Cells : Decoding(variant)!Takes(b, c) <=> \E i \in 1 .. m : r[i] = c
<1> SUFFICES ASSUME NEW c \in Cells
             PROVE  Decoding(variant)!Takes(b, c) <=> \E i \in 1 .. m : r[i] = c
  OBVIOUS
<1> DEFINE N == Decodings[variant].classes
<1>1. N \in Nat \ {0} /\ Deep \in Nat /\ m \in 0 .. Deep /\ Cells \subseteq Nat
  BY DecodingNumbers DEF IsResult, Cells
<1>2. \A i \in 1 .. m : r[i] \in Cells BY <1>1 DEF IsResult, Ranked
<1>3. results[b] = [i \in 1 .. m |-> Decoding(variant)!Row(b, r[i], ScoreOf(frames[b], r[i]))]
  BY Zenon DEF IsResult
<1>4. Len(results[b]) = m
  <2> DEFINE T == {Decoding(variant)!Row(b, r[i], ScoreOf(frames[b], r[i])) : i \in 1 .. m}
             q == results[b]
  <2>1. q \in [1 .. m -> T] /\ m \in Nat BY <1>1, <1>3
  <2> HIDE DEF q, T
  <2>2. Len(q) = m BY <2>1
  <2> QED BY <2>2 DEF q
<1>5. \A i \in 1 .. m : /\ results[b][i].box = <<b, r[i] \div N>>
                        /\ results[b][i].class = r[i] % N
  <2>1. \A i \in 1 .. m : results[b][i] = Decoding(variant)!Row(b, r[i], ScoreOf(frames[b], r[i]))
    BY <1>3, Zenon
  <2>2. \A x, s : Decoding(variant)!Row(b, x, s).box = <<b, x \div N>>
      /\ Decoding(variant)!Row(b, x, s).class = x % N
    BY DEF Decoding!Row
  <2> QED BY <2>1, <2>2, ZenonT(60)
<1>6. Decoding(variant)!Takes(b, c) <=>
        \E i \in 1 .. m : results[b][i].box = <<b, c \div N>> /\ results[b][i].class = c % N
  BY <1>4, Zenon DEF Decoding!Takes
<1>7. Decoding(variant)!Takes(b, c) <=>
        \E i \in 1 .. m : <<b, r[i] \div N>> = <<b, c \div N>> /\ r[i] % N = c % N
  BY <1>5, <1>6, Zenon
<1>8. Decoding(variant)!Takes(b, c) <=> \E i \in 1 .. m : r[i] \div N = c \div N /\ r[i] % N = c % N
  <2>1. \A x, y : <<b, x>> = <<b, y>> <=> x = y OBVIOUS
  <2> QED BY <1>7, <2>1, Zenon
<1>9. \A i \in 1 .. m : r[i] \div N = c \div N /\ r[i] % N = c % N => r[i] = c
  <2>1. c \in Nat /\ \A i \in 1 .. m : r[i] \in Nat BY <1>1, <1>2
  <2> HIDE DEF N
  <2> QED BY <1>1, <2>1, CandidateIsItsRow
<1> QED BY <1>8, <1>9, Zenon

LEMMA ResultLeavesWeaker ==
    ASSUME variant \in DOMAIN Decodings, NEW b, frames[b] \in Decodings[variant].frames,
           NEW r, NEW m, IsResult(results[b], b, frames[b], thr, r, m),
           NEW c \in Cells, NEW d \in Cells,
           Decoding(variant)!Takes(b, c), ~Decoding(variant)!Takes(b, d)
    PROVE  KeyOf(frames[b], d) <= KeyOf(frames[b], c)
<1>0. \A x \in Cells : Decoding(variant)!Takes(b, x) <=> \E i \in 1 .. m : r[i] = x
  BY ResultTakes
<1>1. PICK i \in 1 .. m : r[i] = c BY <1>0, Zenon
<1>2. \A j \in 1 .. m : r[j] # d BY <1>0, Zenon
<1>3. /\ Deep \in Nat /\ m \in 0 .. Deep /\ i \in 1 .. Deep /\ Deep \in 1 .. Deep
      /\ r \in [1 .. Deep -> Cells]
      /\ \A j, k \in 1 .. Deep : j < k => KeyOf(frames[b], r[j]) >= KeyOf(frames[b], r[k])
      /\ \A x \in Cells : (\A j \in 1 .. Deep : r[j] # x)
         => KeyOf(frames[b], x) <= KeyOf(frames[b], r[Deep])
  BY DecodingNumbers, SMTT(60) DEF IsResult, Ranked
<1>4. \A x \in Cells : KeyOf(frames[b], x) \in Int BY KeysTyped
<1>5. CASE \E j \in 1 .. Deep : r[j] = d
  <2>1. PICK j \in 1 .. Deep : r[j] = d BY <1>5
  <2>2. i < j BY <1>2, <1>3, <2>1
  <2>3. KeyOf(frames[b], c) >= KeyOf(frames[b], d)
    BY <1>1, <1>3, <2>1, <2>2, Zenon
  <2> QED BY <2>3, <1>4
<1>6. CASE \A j \in 1 .. Deep : r[j] # d
  <2>1. KeyOf(frames[b], d) <= KeyOf(frames[b], r[Deep])
    BY <1>3, <1>6, Zenon
  <2>2. i = Deep \/ i < Deep BY <1>3
  <2>3. KeyOf(frames[b], c) >= KeyOf(frames[b], r[Deep])
    <3>1. CASE i = Deep
      <4>1. KeyOf(frames[b], r[Deep]) = KeyOf(frames[b], c)
        BY <3>1, <1>1
      <4> QED BY <4>1, <1>4
    <3>2. CASE i < Deep BY <3>2, <1>1, <1>3, Zenon
    <3> QED BY <3>1, <3>2, <2>2
  <2>4. r[Deep] \in Cells BY <1>3
  <2> QED BY <2>1, <2>3, <2>4, <1>4
<1> QED BY <1>5, <1>6

LEMMA ResultDropsNaN ==
    ASSUME variant \in DOMAIN Decodings, NEW b, frames[b] \in Decodings[variant].frames,
           NEW r, NEW m, IsResult(results[b], b, frames[b], thr, r, m),
           NEW c \in Cells, frames[b][c] = NaN
    PROVE  thr \in Int /\ thr > 0 => ~Decoding(variant)!Takes(b, c)
<1>1. ScoreOf(frames[b], c) = 0 BY KeysTyped, DecodingScores DEF ScoreOf
<1>2. \A x \in Cells : Decoding(variant)!Takes(b, x) <=> \E i \in 1 .. m : r[i] = x
  BY ResultTakes
<1> SUFFICES ASSUME thr \in Int, thr > 0, NEW i \in 1 .. m, r[i] = c
             PROVE  FALSE
  BY <1>2, Zenon
<1>3. i \in 1 .. Deep /\ i <= m BY DecodingNumbers DEF IsResult
<1>4. ScoreOf(frames[b], r[i]) >= thr BY <1>3 DEF IsResult
<1> QED BY <1>1, <1>4

------------------------------
KeyPairs == [key : Levels, val : Cells]
DecodedRows ==
    {Decoding(variant)!Row(b, c, s) : b \in 0 .. Batches - 1, c \in Cells, s \in Int}
        \cup {Decoding(variant)!Padded(s) : s \in Int}

\* What slot k of block b holds, of the sorted pairs q and the threshold t.
SlotOf(q, b, k) == q[b * Wide + k]
KeepsSlot(q, t, b, k) == ScoreAt(SlotOf(q, b, k).key) >= t
SlotRow(q, t, b, k) ==
    IF KeepsSlot(q, t, b, k)
    THEN Decoding(variant)!Row(b, SlotOf(q, b, k).val, ScoreAt(SlotOf(q, b, k).key))
    ELSE Decoding(variant)!Padded(ScoreAt(SlotOf(q, b, k).key))
Survivors(q, t, b) == {k \in 0 .. Deep - 1 : KeepsSlot(q, t, b, k)}

\* The segment of block b was sorted from the logits of image f.
SortedFrom(q, b, f) ==
    /\ Ranked(f, [i \in 1 .. Deep |-> SlotOf(q, b, i - 1).val])
    /\ \A k \in 0 .. Deep - 1 : SlotOf(q, b, k).key = KeyOf(f, SlotOf(q, b, k).val)

DecodeTypes ==
    /\ phase \in {"idle", "host", "pack", "sort", "decode", "collect"}
    /\ path \in {"host", "split", "graph"}
    /\ batch \in 0 .. Batches /\ thr \in Nat /\ thr_cell \in Nat
    /\ pairs \in [0 .. Batches * Wide - 1 -> KeyPairs]
    /\ sorted \in [0 .. Batches * Wide - 1 -> KeyPairs]
    /\ s_thr \in [0 .. Batches - 1 -> Int]
    /\ s_count \in [0 .. Batches - 1 -> Nat] /\ counts \in [0 .. Batches - 1 -> Nat]
    /\ out \in [0 .. Batches * Deep - 1 -> DecodedRows]
    /\ written \subseteq (0 .. Batches - 1) \X (0 .. Deep - 1)

\* A call under way, or over.
DecodeCall ==
    /\ phase # "idle" \/ results # <<>> =>
           /\ batch \in 1 .. Batches /\ frames \in [0 .. batch - 1 -> Decodings[variant].frames]
           /\ path = "graph" => thr_cell = thr
    /\ phase # "idle" => results = <<>>

Packed ==
    phase = "sort" => \A b \in 0 .. batch - 1, c \in Cells :
        SlotOf(pairs, b, c) = [key |-> KeyOf(frames[b], c), val |-> c]

SegmentsSorted ==
    phase \in {"decode", "collect"} => \A b \in 0 .. batch - 1 : SortedFrom(sorted, b, frames[b])

\* What the threads of a block have done so far.
BlocksCount ==
    phase = "decode" => \A b \in 0 .. batch - 1 :
        /\ s_thr[b] \in {-1, thr}
        /\ s_thr[b] = -1 => \A k \in 0 .. Deep - 1 : <<b, k>> \notin written
        /\ s_thr[b] # -1 =>
               s_count[b] = Cardinality({k \in Survivors(sorted, thr, b) : <<b, k>> \in written})

SlotsFilled ==
    phase \in {"decode", "collect"} => \A b \in 0 .. batch - 1, k \in 0 .. Deep - 1 :
        <<b, k>> \in written \/ phase = "collect" => out[b * Deep + k] = SlotRow(sorted, thr, b, k)

SurvivorsCounted ==
    phase = "collect" => \A b \in 0 .. batch - 1 :
      counts[b] = Cardinality(Survivors(sorted, thr, b))

ResultsInPlace ==
    phase = "idle" /\ results # <<>> =>
        /\ DOMAIN results = 0 .. batch - 1
        /\ \A b \in 0 .. batch - 1 : \E r, m : IsResult(results[b], b, frames[b], thr, r, m)

DecodeInv ==
    /\ DecodeTypes /\ DecodeCall /\ Packed /\ SegmentsSorted /\ BlocksCount /\ SlotsFilled
    /\ SurvivorsCounted /\ ResultsInPlace

LEMMA DecodedRowsTyped ==
    ASSUME variant \in DOMAIN Decodings
    PROVE  /\ \A b \in 0 .. Batches - 1, c \in Cells, s \in Int :
                 /\ Decoding(variant)!Row(b, c, s) \in DecodedRows
                 /\ Decoding(variant)!Row(b, c, s).class # -1
           /\ \A s \in Int : /\ Decoding(variant)!Padded(s) \in DecodedRows
                             /\ Decoding(variant)!Padded(s).class = -1
           /\ \A q \in DecodedRows : q.class # -1 => Decoding(variant)!IsRow(q)
<1> DEFINE M == Decodings[variant].queries
           N == Decodings[variant].classes
<1>1. M \in Nat \ {0} /\ N \in Nat \ {0} /\ Cells = 0 .. M * N - 1
  BY DecodingNumbers DEF Cells, Wide
<1>2. \A c \in Cells : c \div N \in 0 .. M - 1 /\ c % N \in 0 .. N - 1
  <2> HIDE DEF M, N
  <2> QED BY <1>1, BlockOf
<1>3. \A b, c, s : /\ Decoding(variant)!Row(b, c, s).box = <<b, c \div N>>
                   /\ Decoding(variant)!Row(b, c, s).class = c % N
  BY DEF Decoding!Row
<1>4. \A s : Decoding(variant)!Padded(s).class = -1
  BY DEF Decoding!Padded
<1>5. ASSUME NEW b \in 0 .. Batches - 1, NEW c \in Cells, NEW s \in Int
      PROVE  Decoding(variant)!Row(b, c, s).class # -1
        /\ Decoding(variant)!IsRow(Decoding(variant)!Row(b, c, s))
  <2> DEFINE q == Decoding(variant)!Row(b, c, s)
  <2>1. q.box = <<b, c \div N>> /\ q.class = c % N BY <1>3, Zenon
  <2>2. c \div N \in 0 .. M - 1 /\ c % N \in 0 .. N - 1 BY <1>2, Zenon
  <2> HIDE DEF q
  <2>3. q.box[1] = b /\ q.box[2] \in 0 .. M - 1 /\ q.class \in 0 .. N - 1
    <3> HIDE DEF N, M
    <3> QED BY <2>1, <2>2
  <2>4. Decoding(variant)!IsRow(q)
    BY <2>3, DecodingSets, Zenon DEF Decoding!IsRow
  <2>5. q.class # -1 BY <2>3, <1>1
  <2> QED BY <2>4, <2>5 DEF q
<1>6. \A b \in 0 .. Batches - 1, c \in Cells, s \in Int :
         Decoding(variant)!Row(b, c, s) \in DecodedRows /\ Decoding(variant)!Row(b, c, s).class # -1
  BY <1>5 DEF DecodedRows
<1>7. \A s \in Int : Decoding(variant)!Padded(s) \in DecodedRows
    /\ Decoding(variant)!Padded(s).class = -1
  BY <1>4 DEF DecodedRows
<1>8. ASSUME NEW q \in DecodedRows, q.class # -1
      PROVE  Decoding(variant)!IsRow(q)
  <2>1. CASE q \in {Decoding(variant)!Padded(s) : s \in Int}
    BY <2>1, <1>8, <1>4, Zenon
  <2>2. CASE q \in {Decoding(variant)!Row(b, c, s) : b \in 0 .. Batches - 1, c \in Cells, s \in Int}
    <3>1. PICK b \in 0 .. Batches - 1, c \in Cells, s \in Int : q = Decoding(variant)!Row(b, c, s)
      BY <2>2
    <3> QED BY <3>1, <1>5, Zenon
  <2> QED BY <2>1, <2>2 DEF DecodedRows
<1> QED BY <1>6, <1>7, <1>8, Zenon

LEMMA DecodeInvInit ==
    ASSUME variant \in DOMAIN Decodings
    PROVE  Decoding(variant)!Init => DecodeInv
<1> SUFFICES ASSUME Decoding(variant)!Init
             PROVE  DecodeInv
  OBVIOUS
<1>1. /\ phase = "idle" /\ path = "host" /\ batch = 0 /\ results = <<>> /\ written = {}
      /\ thr = Decodings[variant].own_threshold /\ thr_cell = Decodings[variant].own_threshold
      /\ pairs = [i \in 0 .. Batches * Wide - 1 |-> [key |-> 0, val |-> 0]] /\ sorted = pairs
      /\ s_thr = [b \in 0 .. Batches - 1 |-> -1]
      /\ s_count = [b \in 0 .. Batches - 1 |-> 0] /\ counts = [b \in 0 .. Batches - 1 |-> 0]
      /\ out = [i \in 0 .. Batches * Deep - 1 |-> Decoding(variant)!Padded(0)]
  BY DecodingSets, Zenon DEF Decoding!Init, Decoding!NoRow, Batches, Deep
<1>2. [key |-> 0, val |-> 0] \in KeyPairs
  BY DecodingScores, DecodingNumbers DEF KeyPairs, Cells
<1>3. pairs \in [0 .. Batches * Wide - 1 -> KeyPairs]
    /\ sorted \in [0 .. Batches * Wide - 1 -> KeyPairs]
  BY <1>1, <1>2
<1>4. s_thr \in [0 .. Batches - 1 -> Int] /\ s_count \in [0 .. Batches - 1 -> Nat]
      /\ counts \in [0 .. Batches - 1 -> Nat]
  BY <1>1
<1>5. out \in [0 .. Batches * Deep - 1 -> DecodedRows]
  <2>1. Decoding(variant)!Padded(0) \in DecodedRows BY DecodedRowsTyped
  <2> QED BY <1>1, <2>1, Zenon
<1>6. batch \in 0 .. Batches /\ thr \in Nat /\ thr_cell \in Nat
  BY <1>1, DecodingNumbers
<1>7. DecodeTypes BY <1>1, <1>3, <1>4, <1>5, <1>6, Zenon DEF DecodeTypes
<1>8. DecodeCall /\ Packed /\ SegmentsSorted /\ BlocksCount /\ SlotsFilled /\ SurvivorsCounted
    /\ ResultsInPlace
  BY <1>1 DEF DecodeCall, Packed, SegmentsSorted, BlocksCount, SlotsFilled, SurvivorsCounted,
              ResultsInPlace
<1> QED BY <1>7, <1>8 DEF DecodeInv

LEMMA CallKeeps ==
    ASSUME variant \in DOMAIN Decodings, DecodeInv,
           NEW p \in {"host", "split", "graph"}, NEW b \in 1 .. Batches,
           NEW t \in Decodings[variant].requests,
           NEW f \in [0 .. b - 1 -> Decodings[variant].frames], Decoding(variant)!Call(p, b, f, t)
    PROVE  DecodeInv'
<1>1. /\ path' = p /\ batch' = b /\ frames' = f /\ results' = <<>>
      /\ thr' = Decoding(variant)!EffectiveThreshold(t)
      /\ thr_cell' = IF p = "graph" THEN thr' ELSE thr_cell
      /\ phase' = IF p = "host" THEN "host" ELSE "pack"
      /\ UNCHANGED <<pairs, sorted, s_thr, s_count, written, out, counts>>
  BY Zenon DEF Decoding!Call, Decoding!ThresholdCell, Decoding!scratch
<1>2. thr' \in Nat
  BY <1>1, DecodingNumbers DEF Decoding!EffectiveThreshold
<1>3. thr_cell \in Nat BY DEF DecodeInv, DecodeTypes
<1>4. phase' \in {"host", "pack"} /\ thr_cell' \in Nat /\ (path' = "graph" => thr_cell' = thr')
  BY <1>1, <1>2, <1>3, Zenon
<1>5. batch' \in 0 .. Batches BY <1>1
<1>6. DecodeTypes' BY <1>1, <1>2, <1>4, <1>5 DEF DecodeInv, DecodeTypes
<1>7. DecodeCall' BY <1>1, <1>4, Zenon DEF DecodeCall
<1>8. /\ Packed' /\ SegmentsSorted' /\ BlocksCount' /\ SlotsFilled' /\ SurvivorsCounted'
      /\ ResultsInPlace'
  <2>1. phase' \notin {"idle", "sort", "decode", "collect"} BY <1>4
  <2> QED
    BY <2>1 DEF Packed, SegmentsSorted, BlocksCount, SlotsFilled, SurvivorsCounted, ResultsInPlace
<1> QED BY <1>6, <1>7, <1>8 DEF DecodeInv

LEMMA DecodeOnHostKeeps ==
    ASSUME variant \in DOMAIN Decodings, DecodeInv, Decoding(variant)!DecodeOnHost
    PROVE  DecodeInv'
<1>1. PICK q : /\ \A b \in 0 .. batch - 1 : q[b] \in Decoding(variant)!HostRankings(b)
               /\ results' = [b \in 0 .. batch - 1 |-> Decoding(variant)!HostRows(b, q[b])]
  BY Zenon DEF Decoding!DecodeOnHost
<1>2. /\ phase = "host" /\ phase' = "idle"
      /\ UNCHANGED <<path, batch, frames, thr, thr_cell, pairs, sorted, s_thr, s_count, written,
                     out, counts>>
  BY Zenon DEF Decoding!DecodeOnHost, Decoding!request, Decoding!scratch
<1>3. /\ batch \in 1 .. Batches /\ frames \in [0 .. batch - 1 -> Decodings[variant].frames]
      /\ path = "graph" => thr_cell = thr
  BY <1>2 DEF DecodeInv, DecodeCall
<1>4. thr \in Int BY DEF DecodeInv, DecodeTypes
<1>5. DecodeTypes' BY <1>2 DEF DecodeInv, DecodeTypes
<1>6. DecodeCall' BY <1>2, <1>3 DEF DecodeCall
<1>7. DOMAIN results' = 0 .. batch' - 1 BY <1>1, <1>2
<1>8. ASSUME NEW b \in 0 .. batch - 1
      PROVE  \E r, m : IsResult(results'[b], b, frames[b], thr, r, m)
  <2>1. Ranked(frames[b], q[b]) BY <1>1, HostRanksSo
  <2>2. frames[b] \in Decodings[variant].frames BY <1>3
  <2>3. \E m : IsResult(Decoding(variant)!HostRows(b, q[b]), b, frames[b], thr, q[b], m)
    BY <1>4, <2>1, <2>2, HostRowsAreResult
  <2>4. results'[b] = Decoding(variant)!HostRows(b, q[b]) BY <1>1, Zenon
  <2> QED BY <2>3, <2>4, Zenon
<1>9. ResultsInPlace' BY <1>2, <1>7, <1>8, Zenon DEF ResultsInPlace
<1>10. Packed' /\ SegmentsSorted' /\ BlocksCount' /\ SlotsFilled' /\ SurvivorsCounted'
  BY <1>2 DEF Packed, SegmentsSorted, BlocksCount, SlotsFilled, SurvivorsCounted
<1> QED BY <1>5, <1>6, <1>9, <1>10 DEF DecodeInv

LEMMA PackKeeps ==
    ASSUME variant \in DOMAIN Decodings, DecodeInv, Decoding(variant)!Pack
    PROVE  DecodeInv'
<1>1. /\ phase = "pack" /\ phase' = "sort"
      /\ UNCHANGED <<path, batch, frames, thr, thr_cell, results, sorted, s_thr, s_count, written,
                     out, counts>>
  BY Zenon DEF Decoding!Pack, Decoding!request
<1>2. pairs' = [i \in 0 .. Batches * Wide - 1 |->
                   IF i < batch * Wide
                   THEN [key |-> Decoding(variant)!PackedKey(frames[i \div Wide][i % Wide]),
                         val |-> i % Wide]
                   ELSE pairs[i]]
  BY DecodingSets, Zenon DEF Decoding!Pack
<1>3. /\ batch \in 1 .. Batches /\ frames \in [0 .. batch - 1 -> Decodings[variant].frames]
      /\ results = <<>> /\ path = "graph" => thr_cell = thr
  BY <1>1 DEF DecodeInv, DecodeCall
<1>4. /\ Wide \in Nat \ {0} /\ Batches \in Nat /\ batch \in Nat
      /\ pairs \in [0 .. Batches * Wide - 1 -> KeyPairs]
  BY <1>3, DecodingNumbers DEF DecodeInv, DecodeTypes
<1>5. pairs' \in [0 .. Batches * Wide - 1 -> KeyPairs]
  <2> SUFFICES ASSUME NEW i \in 0 .. Batches * Wide - 1
               PROVE  pairs'[i] \in KeyPairs
    BY <1>2, Zenon
  <2>1. CASE i < batch * Wide
    <3>1. i \in 0 .. batch * Wide - 1
      <4>1. batch * Wide \in Nat BY <1>4, SMT
      <4> QED BY <4>1, <2>1
    <3>2. i \div Wide \in 0 .. batch - 1 /\ i % Wide \in 0 .. Wide - 1
      BY <3>1, <1>4, BlockOf
    <3> DEFINE f == frames[i \div Wide]
               c == i % Wide
    <3>3. f \in Decodings[variant].frames /\ c \in Cells
      BY <3>2, <1>3 DEF Cells
    <3>4. pairs'[i] = [key |-> Decoding(variant)!PackedKey(f[c]), val |-> c]
      BY <1>2, <2>1, Zenon
    <3> HIDE DEF f, c
    <3>5. Decoding(variant)!PackedKey(f[c]) = KeyOf(f, c) /\ KeyOf(f, c) \in Levels
      BY <3>3, KeysTyped
    <3> QED BY <3>3, <3>4, <3>5 DEF KeyPairs
  <2>2. CASE ~(i < batch * Wide) BY <2>2, <1>2, <1>4
  <2> QED BY <2>1, <2>2
<1>6. ASSUME NEW b \in 0 .. batch - 1, NEW c \in Cells
      PROVE  SlotOf(pairs', b, c) = [key |-> KeyOf(frames[b], c), val |-> c]
  <2> DEFINE i == b * Wide + c
  <2>1. c \in 0 .. Wide - 1 /\ b \in 0 .. Batches - 1
    BY <1>3, <1>4 DEF Cells
  <2>2. i \in 0 .. batch * Wide - 1 /\ i \div Wide = b /\ i % Wide = c
    BY <2>1, <1>4, BlockIndex
  <2>3. i \in 0 .. Batches * Wide - 1 BY <2>1, <1>4, BlockIndex
  <2>4. i < batch * Wide
    <3>1. batch * Wide \in Nat BY <1>4, SMT
    <3> HIDE DEF i
    <3> QED BY <3>1, <2>2
  <2>5. pairs'[i] = [key |-> Decoding(variant)!PackedKey(frames[i \div Wide][i % Wide]),
                     val |-> i % Wide]
    BY <1>2, <2>3, <2>4, Zenon
  <2>6. pairs'[i] = [key |-> Decoding(variant)!PackedKey(frames[b][c]), val |-> c]
    BY <2>2, <2>5, Zenon
  <2>7. Decoding(variant)!PackedKey(frames[b][c]) = KeyOf(frames[b], c)
    <3>1. frames[b] \in Decodings[variant].frames BY <1>3
    <3> QED BY <3>1, KeysTyped
  <2> QED BY <2>6, <2>7, Zenon DEF SlotOf
<1>7. DecodeTypes' BY <1>1, <1>5 DEF DecodeInv, DecodeTypes
<1>8. DecodeCall' BY <1>1, <1>3 DEF DecodeCall
<1>9. Packed' BY <1>1, <1>6, Zenon DEF Packed
<1>10. SegmentsSorted' /\ BlocksCount' /\ SlotsFilled' /\ SurvivorsCounted' /\ ResultsInPlace'
  BY <1>1 DEF SegmentsSorted, BlocksCount, SlotsFilled, SurvivorsCounted, ResultsInPlace
<1> QED BY <1>7, <1>8, <1>9, <1>10 DEF DecodeInv

\* s is the stable descending sort of the numbers in A by their key.
SortsBy(A, N, key, s) == \A k \in 0 .. N - 1 : s[k] \in A /\ Cardinality(Ahead(A, key, s[k])) = k
InOrder(A, N, key, s) ==
    /\ \A i, j \in 0 .. N - 1 : i < j => s[i] # s[j] /\ key[s[i]] >= key[s[j]]
    /\ \A a \in A : \E k \in 0 .. N - 1 : s[k] = a
HasKeys(A, key) == \A a \in A : key[a] \in Int

LEMMA StableSort ==
    ASSUME NEW lo \in Int, NEW N \in Nat \ {0}, NEW key, NEW A, A = lo .. lo + N - 1,
           HasKeys(A, key), NEW s, SortsBy(A, N, key, s)
    PROVE  InOrder(A, N, key, s)
<1>0. \A a \in A : key[a] \in Int BY DEF HasKeys
<1>1. /\ \A a \in A : Cardinality(Ahead(A, key, a)) \in 0 .. N - 1
      /\ \A a, d \in A :
            Goes(key, a, d) => Cardinality(Ahead(A, key, a)) < Cardinality(Ahead(A, key, d))
  <2>1. \A a \in lo .. lo + N - 1 : key[a] \in Int BY <1>0
  <2> QED BY <2>1, SortedPlaces
<1>2. A \subseteq Int OBVIOUS
<1>3. \A a, d \in A : a = d \/ Goes(key, a, d) \/ Goes(key, d, a)
  BY <1>0, <1>2 DEF Goes
<1>4. \A a, d \in A : Cardinality(Ahead(A, key, a)) < Cardinality(Ahead(A, key, d))
    => Goes(key, a, d)
  BY <1>1, <1>3
<1>5. ASSUME NEW i \in 0 .. N - 1, NEW j \in 0 .. N - 1, i < j
      PROVE  s[i] # s[j] /\ key[s[i]] >= key[s[j]]
  <2>1. s[i] \in A /\ s[j] \in A /\ Cardinality(Ahead(A, key, s[i])) = i
        /\ Cardinality(Ahead(A, key, s[j])) = j
    BY DEF SortsBy
  <2>2. Goes(key, s[i], s[j]) BY <1>4, <1>5, <2>1
  <2>3. s[i] # s[j] BY <1>5, <2>1
  <2>4. key[s[i]] \in Int /\ key[s[j]] \in Int BY <2>1, <1>0
  <2>5. key[s[i]] >= key[s[j]] BY <2>2, <2>4 DEF Goes
  <2> QED BY <2>3, <2>5
<1>6. ASSUME NEW a \in A
      PROVE  \E k \in 0 .. N - 1 : s[k] = a
  <2> DEFINE k == Cardinality(Ahead(A, key, a))
  <2>1. k \in 0 .. N - 1 BY <1>1
  <2>2. s[k] \in A /\ Cardinality(Ahead(A, key, s[k])) = k
    BY <2>1 DEF SortsBy
  <2>3. s[k] = a BY <1>1, <1>3, <2>1, <2>2, SMTT(60)
  <2> QED BY <2>1, <2>3, Zenon
<1> QED BY <1>5, <1>6 DEF InOrder

\* To which pair the sort of a segment gives place k.
Source(b, k) ==
    CHOOSE a \in Decoding(variant)!Segment(b) : Decoding(variant)!Destination(b, a) = k

LEMMA SegmentSorted ==
    ASSUME variant \in DOMAIN Decodings, DecodeInv, NEW b \in 0 .. Batches - 1
    PROVE  LET A == b * Wide .. b * Wide + Wide - 1
               key == [a \in A |-> pairs[a].key]
               s == [k \in Cells |-> Source(b, k)]
           IN  SortsBy(A, Wide, key, s) /\ \A a \in A : key[a] = pairs[a].key /\ key[a] \in Int
<1> DEFINE A == b * Wide .. b * Wide + Wide - 1
           key == [a \in A |-> pairs[a].key]
           s == [k \in Cells |-> Source(b, k)]
<1>1. Wide \in Nat \ {0} /\ b \in Nat /\ Batches \in Nat /\ b * Wide \in Nat
  <2>1. Wide \in Nat \ {0} /\ b \in Nat /\ Batches \in Nat
    BY DecodingNumbers
  <2>2. \A x, y \in Nat : x * y \in Nat BY SMT
  <2> QED BY <2>1, <2>2
<1>2. ASSUME NEW a \in A
      PROVE  pairs[a].key \in Int
  <2> DEFINE first == b * Wide
             k == a - first
  <2>1. k \in 0 .. Wide - 1 /\ a = first + k
    <3> HIDE DEF first
    <3>1. first \in Nat /\ a \in first .. first + Wide - 1
      BY <1>1 DEF first
    <3> QED BY <3>1, <1>1
  <2>2. a \in 0 .. Batches * Wide - 1
    <3> HIDE DEF k
    <3>1. first + k \in 0 .. Batches * Wide - 1
      BY <2>1, <1>1, BlockIndex
    <3> QED BY <2>1, <3>1, Zenon
  <2>3. pairs[a] \in KeyPairs BY <2>2 DEF DecodeInv, DecodeTypes
  <2> QED BY <2>3, DecodingScores DEF KeyPairs
<1>3. \A a \in A : key[a] = pairs[a].key /\ key[a] \in Int BY <1>2
<1>4. Decoding(variant)!Segment(b) = A BY <1>1, DecodingSets, Zenon
<1>5. \A a \in A : Decoding(variant)!Destination(b, a) = Cardinality(Ahead(A, key, a))
  <2> HIDE DEF key, A
  <2> SUFFICES ASSUME NEW a \in A
               PROVE  Decoding(variant)!Destination(b, a) = Cardinality(Ahead(A, key, a))
    OBVIOUS
  <2>1. {d \in Decoding(variant)!Segment(b) : Decoding(variant)!Precedes(d, a)} = Ahead(A, key, a)
    BY <1>3, <1>4 DEF Decoding!Precedes, Ahead, Goes
  <2> QED
    <3>1. Decoding(variant)!Destination(b, a) = Decoding(variant)!Cardinality(
             {d \in Decoding(variant)!Segment(b) : Decoding(variant)!Precedes(d, a)})
      BY Zenon DEF Decoding!Destination
    <3>2. \A S : Decoding(variant)!Cardinality(S) = Cardinality(S)
      BY Zenon DEF Decoding!Cardinality, Cardinality
    <3> QED BY <2>1, <3>1, <3>2
<1>6. \A k \in 0 .. Wide - 1 : \E a \in A : Cardinality(Ahead(A, key, a)) = k
  <2>1. b * Wide \in Int /\ \A a \in b * Wide .. b * Wide + Wide - 1 : key[a] \in Int
    BY <1>1, <1>3
  <2> HIDE DEF key
  <2> QED BY <2>1, <1>1, SortedPlaces
<1>7. ASSUME NEW k \in 0 .. Wide - 1
      PROVE  s[k] \in A /\ Cardinality(Ahead(A, key, s[k])) = k
  <2> HIDE DEF A, key
  <2>1. \E a \in A : Decoding(variant)!Destination(b, a) = k
    BY <1>5, <1>6, Zenon
  <2>2. Source(b, k) \in A /\ Decoding(variant)!Destination(b, Source(b, k)) = k
    BY <2>1, <1>4, Zenon DEF Source
  <2>3. s[k] = Source(b, k) BY DEF Cells
  <2> QED BY <1>5, <2>2, <2>3, Zenon
<1>8. SortsBy(A, Wide, key, s)
  <2> HIDE DEF A, key, s
  <2> QED BY <1>7, Zenon DEF SortsBy
<1> QED BY <1>3, <1>8, Zenon

\* A place of a segment gets the pair that is sorted to it.
LEMMA SortPlaces ==
    ASSUME variant \in DOMAIN Decodings, DecodeInv, Decoding(variant)!Sort, batch \in 1 .. Batches,
           NEW b \in 0 .. batch - 1, NEW k \in Cells
    PROVE  SlotOf(sorted', b, k) = pairs[Source(b, k)]
<1> DEFINE i == b * Wide + k
<1>1. /\ Wide \in Nat \ {0} /\ b \in Nat /\ batch \in Nat /\ Batches \in Nat /\ k \in 0 .. Wide - 1
      /\ b \in 0 .. Batches - 1
  BY DecodingNumbers DEF Cells
<1>2. i \in 0 .. Batches * Wide - 1 BY <1>1, BlockIndex
<1>3. ASSUME NEW j \in 0 .. batch - 1
      PROVE  i \in Decoding(variant)!Segment(j) <=> j = b
  <2> DEFINE first == j * Wide
             l == i - first
  <2>1. first \in Nat /\ i \in Nat /\ j \in Nat
    <3>1. \A x, y \in Nat : x * y \in Nat BY SMT
    <3> QED BY <3>1, <1>1, <1>2
  <2>2. Decoding(variant)!Segment(j) = first .. first + Wide - 1
    BY <2>1, DecodingSets, Zenon
  <2>3. ASSUME i \in Decoding(variant)!Segment(j)
        PROVE  j = b
    <3>1. l \in 0 .. Wide - 1 /\ first + l = i
      <4> HIDE DEF first, i
      <4> QED BY <2>1, <2>2, <2>3, <1>1
    <3> HIDE DEF l
    <3>2. j * Wide + l = b * Wide + k BY <3>1, Zenon
    <3> QED BY <3>1, <3>2, <2>1, <1>1, BlockIndexInjective
  <2>4. ASSUME j = b
        PROVE  i \in Decoding(variant)!Segment(j)
    <3>1. i = first + k BY <2>4
    <3> HIDE DEF first, i
    <3> QED BY <3>1, <2>1, <2>2, <1>1
  <2> QED BY <2>3, <2>4
<1>4. i - Decoding(variant)!SegOff(b) = k
  <2>1. Decoding(variant)!SegOff(b) = b * Wide BY <1>1, DecodingSets
  <2> DEFINE first == b * Wide
  <2>2. first \in Nat
    <3>1. \A x, y \in Nat : x * y \in Nat BY SMT
    <3> QED BY <3>1, <1>1
  <2>3. i = first + k /\ Decoding(variant)!SegOff(b) = first BY <2>1
  <2> HIDE DEF first, i
  <2> QED BY <2>2, <2>3, <1>1
<1> HIDE DEF i
<1>5. (CHOOSE j \in 0 .. batch - 1 : i \in Decoding(variant)!Segment(j)) = b
  BY <1>3, Zenon
<1>6. \E j \in 0 .. batch - 1 : i \in Decoding(variant)!Segment(j)
  BY <1>3, Zenon
<1> DEFINE chosen == CHOOSE j \in 0 .. batch - 1 : i \in Decoding(variant)!Segment(j)
<1>7. sorted'[i] = pairs[CHOOSE a \in Decoding(variant)!Segment(chosen) :
                           Decoding(variant)!Destination(chosen, a)
                             = i - Decoding(variant)!SegOff(chosen)]
  <2>1. sorted' = [n \in 0 .. Batches * Wide - 1 |->
                    IF \E j \in 0 .. batch - 1 : n \in Decoding(variant)!Segment(j)
                    THEN LET j == CHOOSE j \in 0 .. batch - 1 : n \in Decoding(variant)!Segment(j)
                         IN  pairs[CHOOSE a \in Decoding(variant)!Segment(j) :
                                Decoding(variant)!Destination(j, a)
                                  = n - Decoding(variant)!SegOff(j)]
                    ELSE sorted[n]]
    BY DecodingSets, Zenon DEF Decoding!Sort
  <2> QED BY <2>1, <1>2, <1>6, Zenon
<1>8. chosen = b BY <1>5
<1> HIDE DEF chosen
<1>9. sorted'[i] = pairs[CHOOSE a \in Decoding(variant)!Segment(b) :
                           Decoding(variant)!Destination(b, a) = k]
  BY <1>4, <1>7, <1>8, Zenon
<1> QED BY <1>9, Zenon DEF SlotOf, Source, i

LEMMA SortKeeps ==
    ASSUME variant \in DOMAIN Decodings, DecodeInv, Decoding(variant)!Sort
    PROVE  DecodeInv'
<1>1. /\ phase = "sort" /\ phase' = "decode" /\ written' = {}
      /\ s_thr' = [b \in 0 .. Batches - 1 |-> -1]
      /\ UNCHANGED <<path, batch, frames, thr, thr_cell, results, pairs, s_count, out, counts>>
  BY DecodingSets, Zenon DEF Decoding!Sort, Decoding!request
<1>2. /\ batch \in 1 .. Batches /\ frames \in [0 .. batch - 1 -> Decodings[variant].frames]
      /\ results = <<>>
      /\ path = "graph" => thr_cell = thr
  BY <1>1 DEF DecodeInv, DecodeCall
<1>3. /\ Wide \in Nat \ {0} /\ Batches \in Nat /\ batch \in Nat /\ Deep \in 1 .. Wide
      /\ pairs \in [0 .. Batches * Wide - 1 -> KeyPairs]
  BY <1>2, DecodingNumbers DEF DecodeInv, DecodeTypes
<1>4. ASSUME NEW b \in 0 .. batch - 1
      PROVE  SortedFrom(sorted', b, frames[b])
  <2> DEFINE first == b * Wide
             A == first .. first + Wide - 1
             key == [a \in A |-> pairs[a].key]
             s == [k \in Cells |-> Source(b, k)]
             f == frames[b]
             r == [i \in 1 .. Deep |-> SlotOf(sorted', b, i - 1).val]
  <2>1. b \in 0 .. Batches - 1 /\ first \in Nat /\ f \in Decodings[variant].frames
    <3>1. \A x, y \in Nat : x * y \in Nat BY SMT
    <3> QED BY <3>1, <1>2, <1>3
  <2>2. SortsBy(A, Wide, key, s) /\ \A a \in A : key[a] = pairs[a].key /\ key[a] \in Int
    BY <2>1, SegmentSorted, Zenon
  <2>3. \A k \in Cells : SlotOf(sorted', b, k) = pairs[s[k]]
    <3>1. \A k \in Cells : s[k] = Source(b, k) BY Zenon
    <3> HIDE DEF s
    <3> QED BY <3>1, <1>2, SortPlaces
  <2>4. \A c \in Cells : first + c \in A /\ pairs[first + c] = [key |-> KeyOf(f, c), val |-> c]
    <3>1. \A c \in Cells : pairs[first + c] = [key |-> KeyOf(f, c), val |-> c]
      BY <1>1, Zenon DEF DecodeInv, Packed, SlotOf
    <3> HIDE DEF first
    <3>2. \A c \in Cells : first + c \in A BY <2>1, <1>3 DEF Cells
    <3> QED BY <3>1, <3>2
  <2>5. \A a \in A : a - first \in Cells /\ first + (a - first) = a
    <3> HIDE DEF first
    <3> QED BY <2>1, <1>3 DEF Cells
  <2>6. /\ \A i, j \in 0 .. Wide - 1 : i < j => s[i] # s[j] /\ key[s[i]] >= key[s[j]]
        /\ \A a \in A : \E k \in 0 .. Wide - 1 : s[k] = a
    <3>1. A = first .. first + Wide - 1 OBVIOUS
    <3>2. first \in Int /\ Wide \in Nat \ {0} BY <2>1, <1>3
    <3> HIDE DEF key, s, first, A
    <3>3. SortsBy(A, Wide, key, s) BY <2>2, Zenon
    <3>4. HasKeys(A, key) BY <2>2, Zenon DEF HasKeys
    <3>5. InOrder(A, Wide, key, s) BY <3>1, <3>2, <3>3, <3>4, StableSort
    <3> QED BY <3>5, Zenon DEF InOrder
  <2>7. \A k \in 0 .. Wide - 1 : s[k] \in A
    <3> HIDE DEF s, key, A
    <3> QED BY <2>2 DEF SortsBy
  <2> HIDE DEF A, key, s, f, first
  <2> DEFINE c(k) == s[k] - first
  <2>8. \A k \in 0 .. Wide - 1 : /\ c(k) \in Cells /\ s[k] = first + c(k)
                                  /\ SlotOf(sorted', b, k) = [key |-> KeyOf(f, c(k)), val |-> c(k)]
                                  /\ key[s[k]] = KeyOf(f, c(k))
    <3> SUFFICES ASSUME NEW k \in 0 .. Wide - 1
                 PROVE  /\ c(k) \in Cells /\ s[k] = first + c(k)
                        /\ SlotOf(sorted', b, k) = [key |-> KeyOf(f, c(k)), val |-> c(k)]
                        /\ key[s[k]] = KeyOf(f, c(k))
      OBVIOUS
    <3>1. c(k) \in Cells /\ first + c(k) = s[k] BY <2>5, <2>7, Zenon
    <3>2. pairs[s[k]] = [key |-> KeyOf(f, c(k)), val |-> c(k)]
      BY <3>1, <2>4, Zenon
    <3>3. SlotOf(sorted', b, k) = pairs[s[k]] BY <2>3, Zenon DEF Cells
    <3>4. key[s[k]] = pairs[s[k]].key BY <2>2, <2>7, Zenon
    <3>5. pairs[s[k]].key = KeyOf(f, c(k))
      <4>1. \A x, y : [key |-> x, val |-> y].key = x OBVIOUS
      <4> QED BY <3>2, <4>1, Zenon
    <3> QED BY <3>1, <3>2, <3>3, <3>4, <3>5, Zenon
  <2>9. \A k \in 0 .. Wide - 1 : /\ SlotOf(sorted', b, k).val = c(k)
                                  /\ SlotOf(sorted', b, k).key = KeyOf(f, c(k))
    <3> SUFFICES ASSUME NEW k \in 0 .. Wide - 1
                 PROVE  /\ SlotOf(sorted', b, k).val = c(k)
                        /\ SlotOf(sorted', b, k).key = KeyOf(f, c(k))
      OBVIOUS
    <3>1. SlotOf(sorted', b, k) = [key |-> KeyOf(f, c(k)), val |-> c(k)]
      BY <2>8, Zenon
    <3> HIDE DEF c
    <3> QED BY <3>1
  <2>10. \A i \in 1 .. Deep : i - 1 \in 0 .. Wide - 1 BY <1>3
  <2>11. \A i \in 1 .. Deep : r[i] = c(i - 1) BY <2>9, <2>10, Zenon
  <2>12. r = [i \in 1 .. Deep |-> r[i]] BY Zenon
  <2> HIDE DEF r
  <2>13. r \in [1 .. Deep -> Cells]
    <3>1. \A i \in 1 .. Deep : r[i] \in Cells
      BY <2>8, <2>10, <2>11, Zenon
    <3> QED BY <2>12, <3>1, Zenon
  <2>14. ASSUME NEW i \in 1 .. Deep, NEW j \in 1 .. Deep, i < j
         PROVE  r[i] # r[j] /\ KeyOf(f, r[i]) >= KeyOf(f, r[j])
    <3>1. i - 1 < j - 1 BY <2>14
    <3>2. s[i - 1] # s[j - 1] /\ key[s[i - 1]] >= key[s[j - 1]]
      BY <2>6, <2>10, <3>1, Zenon
    <3>3. s[i - 1] = first + r[i] /\ s[j - 1] = first + r[j]
      BY <2>8, <2>10, <2>11, Zenon
    <3>4. key[s[i - 1]] = KeyOf(f, r[i]) /\ key[s[j - 1]] = KeyOf(f, r[j])
      BY <2>8, <2>10, <2>11, Zenon
    <3> QED BY <3>2, <3>3, <3>4, Zenon
  <2>15. ASSUME NEW x \in Cells, \A i \in 1 .. Deep : r[i] # x
         PROVE  KeyOf(f, x) <= KeyOf(f, r[Deep])
    <3>1. PICK k \in 0 .. Wide - 1 : s[k] = first + x
      BY <2>4, <2>6, Zenon
    <3>2. c(k) = x
      <4>1. c(k) \in Cells /\ s[k] = first + c(k) /\ s[k] = first + x
        BY <2>8, <3>1, Zenon
      <4>2. c(k) \in Int /\ x \in Int /\ first \in Int /\ first + c(k) = first + x
        <5> HIDE DEF c
        <5> QED BY <4>1, <2>1 DEF Cells
      <4>3. \A w, y, z \in Int : w + y = w + z => y = z BY SMT
      <4> HIDE DEF c
      <4> QED BY <4>2, <4>3, Zenon
    <3>3. ~(k <= Deep - 1)
      <4> SUFFICES ASSUME k <= Deep - 1
                   PROVE  FALSE
        OBVIOUS
      <4>1. k + 1 \in 1 .. Deep /\ k + 1 - 1 = k BY <1>3
      <4>2. r[k + 1] = x BY <4>1, <2>11, <3>2
      <4> QED BY <4>1, <4>2, <2>15, Zenon
    <3>4. Deep - 1 \in 0 .. Wide - 1 /\ Deep - 1 < k /\ Deep \in 1 .. Deep
      BY <1>3, <3>3
    <3>5. key[s[Deep - 1]] >= key[s[k]] BY <2>6, <3>4, Zenon
    <3>6. key[s[Deep - 1]] = KeyOf(f, r[Deep])
      BY <2>8, <2>11, <3>4, Zenon
    <3>7. key[s[k]] = KeyOf(f, x) BY <2>8, <3>2, Zenon
    <3>8. KeyOf(f, r[Deep]) >= KeyOf(f, x) BY <3>5, <3>6, <3>7, Zenon
    <3>9. KeyOf(f, r[Deep]) \in Int /\ KeyOf(f, x) \in Int
      <4>1. r[Deep] \in Cells BY <2>13, <3>4
      <4> QED BY <4>1, <2>1, KeysTyped
    <3> QED BY <3>8, <3>9
  <2>16. Ranked(f, r) BY <2>13, <2>14, <2>15, Zenon DEF Ranked
  <2>17. \A k \in 0 .. Deep - 1 : SlotOf(sorted', b, k).key = KeyOf(f, SlotOf(sorted', b, k).val)
    <3>1. \A k \in 0 .. Deep - 1 : k \in 0 .. Wide - 1 BY <1>3
    <3> QED BY <3>1, <2>9, Zenon
  <2> QED BY <2>16, <2>17, Zenon DEF SortedFrom, r, f
<1>5. sorted' \in [0 .. Batches * Wide - 1 -> KeyPairs]
  <2> DEFINE D == 0 .. Batches * Wide - 1
  <2>1. DOMAIN sorted' = D /\ sorted' = [i \in D |-> sorted'[i]]
    <3> DEFINE Body(n) ==
                 IF \E j \in 0 .. batch - 1 : n \in Decoding(variant)!Segment(j)
                 THEN LET j == CHOOSE j \in 0 .. batch - 1 : n \in Decoding(variant)!Segment(j)
                      IN  pairs[CHOOSE a \in Decoding(variant)!Segment(j) :
                             Decoding(variant)!Destination(j, a) = n - Decoding(variant)!SegOff(j)]
                 ELSE sorted[n]
    <3>1. sorted' = [n \in D |-> Body(n)]
      BY DecodingSets, Zenon DEF Decoding!Sort
    <3> HIDE DEF Body, D
    <3> QED BY <3>1
  <2>2. ASSUME NEW i \in D
        PROVE  sorted'[i] \in KeyPairs
    <3> DEFINE b == i \div Wide
               k == i % Wide
    <3>1. b \in 0 .. Batches - 1 /\ k \in 0 .. Wide - 1 /\ i = b * Wide + k
      BY <1>3, BlockOf
    <3> HIDE DEF b, k
    <3>2. CASE b < batch
      <4>1. b \in 0 .. batch - 1 /\ k \in Cells
        BY <3>1, <3>2, <1>3 DEF Cells
      <4>2. SlotOf(sorted', b, k) = pairs[Source(b, k)]
        BY <4>1, <1>2, SortPlaces
      <4>3. Source(b, k) \in D
        <5> DEFINE A == b * Wide .. b * Wide + Wide - 1
                   key == [a \in A |-> pairs[a].key]
                   s == [n \in Cells |-> Source(b, n)]
        <5>1. SortsBy(A, Wide, key, s) BY <3>1, SegmentSorted, Zenon
        <5>2. s[k] = Source(b, k) BY <4>1, Zenon
        <5> HIDE DEF key, s
        <5>3. Source(b, k) \in A BY <5>1, <5>2, <3>1, Zenon DEF SortsBy
        <5> DEFINE n == Source(b, k) - b * Wide
        <5>4. n \in 0 .. Wide - 1 /\ Source(b, k) = b * Wide + n
          <6>1. b * Wide \in Nat
            <7>1. \A x, y \in Nat : x * y \in Nat BY SMT
            <7> QED BY <7>1, <3>1, <1>3
          <6> DEFINE first == b * Wide
          <6> HIDE DEF first
          <6>2. first \in Nat /\ Source(b, k) \in first .. first + Wide - 1
            BY <6>1, <5>3 DEF first
          <6>3. Source(b, k) - first \in 0 .. Wide - 1
              /\ Source(b, k) = first + (Source(b, k) - first)
            BY <6>2, <1>3
          <6> QED BY <6>3 DEF first
        <5> HIDE DEF n
        <5>5. b * Wide + n \in D BY <3>1, <5>4, <1>3, BlockIndex
        <5> QED BY <5>4, <5>5, Zenon
      <4> QED BY <4>2, <4>3, <3>1, <1>3 DEF SlotOf
    <3>3. CASE ~(b < batch)
      <4>1. ~ \E j \in 0 .. batch - 1 : i \in Decoding(variant)!Segment(j)
        <5> SUFFICES ASSUME NEW j \in 0 .. batch - 1, i \in Decoding(variant)!Segment(j)
                     PROVE  FALSE
          OBVIOUS
        <5> DEFINE first == j * Wide
        <5>1. first \in Nat /\ j \in Nat
          <6>1. \A x, y \in Nat : x * y \in Nat BY SMT
          <6> QED BY <6>1, <1>3
        <5>2. i \in first .. first + Wide - 1 BY <5>1, DecodingSets
        <5> DEFINE l == i - first
        <5>3. l \in 0 .. Wide - 1 /\ i = first + l
          <6> HIDE DEF first
          <6> QED BY <5>1, <5>2, <1>3
        <5> HIDE DEF l
        <5>4. j * Wide + l = b * Wide + k BY <5>3, <3>1, Zenon
        <5>5. j = b BY <5>1, <5>3, <5>4, <3>1, <1>3, BlockIndexInjective
        <5> QED BY <5>5, <3>3, <1>3
      <4>2. sorted'[i] = sorted[i]
        BY <4>1, DecodingSets, Zenon DEF Decoding!Sort
      <4> QED BY <4>2 DEF DecodeInv, DecodeTypes
    <3> QED BY <3>2, <3>3
  <2> HIDE DEF D
  <2>3. sorted' \in [D -> KeyPairs] BY <2>1, <2>2, Zenon
  <2> QED BY <2>3 DEF D
<1>6. DecodeTypes'
  <2>1. s_thr' \in [0 .. Batches - 1 -> Int] BY <1>1
  <2> QED BY <1>1, <1>5, <2>1 DEF DecodeInv, DecodeTypes
<1>7. DecodeCall'
  <2>1. batch' \in 1 .. Batches /\ frames' \in [0 .. batch' - 1 -> Decodings[variant].frames]
    BY <1>1, <1>2, Zenon
  <2>2. results' = <<>> /\ (path' = "graph" => thr_cell' = thr')
    BY <1>1, <1>2, Zenon
  <2> QED BY <2>1, <2>2, Zenon DEF DecodeCall
<1>8. SegmentsSorted' BY <1>1, <1>4, Zenon DEF SegmentsSorted
<1>9. BlocksCount'
  <2>1. \A b \in 0 .. batch - 1 : b \in 0 .. Batches - 1 BY <1>2, <1>3
  <2>2. \A b \in 0 .. batch - 1 : s_thr'[b] = -1 BY <1>1, <2>1, Zenon
  <2>3. \A b \in 0 .. batch - 1, k \in 0 .. Deep - 1 : <<b, k>> \notin written'
    BY <1>1
  <2>4. batch' = batch BY <1>1
  <2> QED BY <2>2, <2>3, <2>4, Zenon DEF BlocksCount
<1>10. SlotsFilled' BY <1>1 DEF SlotsFilled
<1>11. Packed' /\ SurvivorsCounted' /\ ResultsInPlace'
  BY <1>1 DEF Packed, SurvivorsCounted, ResultsInPlace
<1> QED BY <1>6, <1>7, <1>8, <1>9, <1>10, <1>11 DEF DecodeInv

LEMMA StartBlockKeeps ==
    ASSUME variant \in DOMAIN Decodings, DecodeInv, NEW b \in 0 .. Batches - 1,
           Decoding(variant)!StartBlock(b)
    PROVE  DecodeInv'
<1>1. /\ phase = "decode" /\ phase' = "decode" /\ b < batch /\ s_thr[b] = -1
      /\ s_count' = [s_count EXCEPT ![b] = 0]
      /\ s_thr' = [s_thr EXCEPT ![b] = IF path = "graph" THEN thr_cell ELSE thr]
      /\ UNCHANGED <<path, batch, frames, thr, thr_cell, results, pairs, sorted, written, out,
                     counts>>
  BY Zenon DEF Decoding!StartBlock, Decoding!CounterAtStart, Decoding!request
<1>2. /\ batch \in 1 .. Batches /\ frames \in [0 .. batch - 1 -> Decodings[variant].frames]
      /\ results = <<>>
      /\ path = "graph" => thr_cell = thr
  BY <1>1 DEF DecodeInv, DecodeCall
<1>3. /\ Batches \in Nat /\ thr \in Nat /\ s_thr \in [0 .. Batches - 1 -> Int]
      /\ s_count \in [0 .. Batches - 1 -> Nat]
  BY DecodingNumbers DEF DecodeInv, DecodeTypes
<1>4. s_thr' = [s_thr EXCEPT ![b] = thr] BY <1>1, <1>2, Zenon
<1>5. DecodeTypes'
  <2>1. s_thr' \in [0 .. Batches - 1 -> Int] /\ s_count' \in [0 .. Batches - 1 -> Nat]
    BY <1>1, <1>3, <1>4, SMTT(60)
  <2> QED BY <1>1, <2>1 DEF DecodeInv, DecodeTypes
<1>6. DecodeCall' BY <1>1, <1>2 DEF DecodeCall
<1>7. ASSUME NEW d \in 0 .. batch - 1
      PROVE  /\ s_thr'[d] \in {-1, thr}
             /\ s_thr'[d] = -1 => \A k \in 0 .. Deep - 1 : <<d, k>> \notin written
             /\ s_thr'[d] # -1 =>
                   s_count'[d] = Cardinality({k \in Survivors(sorted, thr, d) :
                                              <<d, k>> \in written})
  <2>0. d \in 0 .. Batches - 1 BY <1>2, <1>3
  <2>1. /\ s_thr[d] \in {-1, thr}
        /\ s_thr[d] = -1 => \A k \in 0 .. Deep - 1 : <<d, k>> \notin written
        /\ s_thr[d] # -1 =>
              s_count[d] = Cardinality({k \in Survivors(sorted, thr, d) : <<d, k>> \in written})
    BY <1>1, Zenon DEF DecodeInv, BlocksCount
  <2>2. CASE d = b
    <3>1. s_thr'[d] = thr /\ s_count'[d] = 0 BY <1>1, <1>3, <1>4, <2>2
    <3>2. {k \in Survivors(sorted, thr, d) : <<d, k>> \in written} = {}
      BY <1>1, <2>1, <2>2 DEF Survivors
    <3>3. Cardinality({k \in Survivors(sorted, thr, d) : <<d, k>> \in written}) = 0
      BY <3>2, FS_EmptySet
    <3>4. thr # -1 BY <1>3
    <3> QED BY <3>1, <3>3, <3>4, Zenon
  <2>3. CASE d # b
    <3>1. s_thr'[d] = s_thr[d] /\ s_count'[d] = s_count[d]
      BY <1>1, <1>3, <1>4, <2>0, <2>3
    <3> QED BY <2>1, <3>1, Zenon
  <2> QED BY <2>2, <2>3
<1>8. BlocksCount' BY <1>1, <1>7, Zenon DEF BlocksCount
<1>9. SegmentsSorted' BY <1>1, Zenon DEF DecodeInv, SegmentsSorted
<1>10. SlotsFilled' BY <1>1, Zenon DEF DecodeInv, SlotsFilled
<1>11. Packed' /\ SurvivorsCounted' /\ ResultsInPlace'
  BY <1>1 DEF Packed, SurvivorsCounted, ResultsInPlace
<1> QED BY <1>5, <1>6, <1>8, <1>9, <1>10, <1>11 DEF DecodeInv

LEMMA WriteSlotKeeps ==
    ASSUME variant \in DOMAIN Decodings, DecodeInv, NEW b \in 0 .. Batches - 1,
           NEW k \in 0 .. Deep - 1, Decoding(variant)!WriteSlot(b, k)
    PROVE  DecodeInv'
<1> DEFINE score == ScoreAt(SlotOf(sorted, b, k).key)
           keep == ~(score < s_thr[b])
           w == written \cup {<<b, k>>}
           Seen(d, v) == {l \in Survivors(sorted, thr, d) : <<d, l>> \in v}
<1>1. /\ phase = "decode" /\ phase' = "decode" /\ b < batch /\ s_thr[b] # -1
         /\ <<b, k>> \notin written
      /\ s_count' = [s_count EXCEPT ![b] = IF keep THEN @ + 1 ELSE @]
      /\ out' = [out EXCEPT ![b * Deep + k] =
                    IF keep THEN Decoding(variant)!Row(b, SlotOf(sorted, b, k).val, score)
                    ELSE Decoding(variant)!Padded(score)]
      /\ written' = w
      /\ UNCHANGED <<path, batch, frames, thr, thr_cell, results, pairs, sorted, s_thr, counts>>
  BY DecodingSets, Zenon DEF Decoding!WriteSlot, Decoding!request, SlotOf, ScoreAt, Deep
<1>2. /\ batch \in 1 .. Batches /\ frames \in [0 .. batch - 1 -> Decodings[variant].frames]
      /\ results = <<>>
      /\ path = "graph" => thr_cell = thr
  BY <1>1 DEF DecodeInv, DecodeCall
<1>3. /\ Batches \in Nat /\ thr \in Nat /\ s_thr \in [0 .. Batches - 1 -> Int]
      /\ s_count \in [0 .. Batches - 1 -> Nat] /\ out \in [0 .. Batches * Deep - 1 -> DecodedRows]
      /\ Wide \in Nat \ {0} /\ Deep \in 1 .. Wide
         /\ written \subseteq (0 .. Batches - 1) \X (0 .. Deep - 1)
      /\ sorted \in [0 .. Batches * Wide - 1 -> KeyPairs]
  BY DecodingNumbers DEF DecodeInv, DecodeTypes
<1>4. b \in 0 .. batch - 1 BY <1>1, <1>2
<1>5. s_thr[b] = thr BY <1>1, <1>4, Zenon DEF DecodeInv, BlocksCount
<1>6. SlotOf(sorted, b, k).key \in Levels /\ SlotOf(sorted, b, k).val \in Cells
  <2>1. k \in 0 .. Wide - 1 BY <1>3
  <2>2. b * Wide + k \in 0 .. Batches * Wide - 1
    BY <2>1, <1>3, BlockIndex, Zenon
  <2>3. sorted[b * Wide + k] \in KeyPairs BY <1>3, <2>2, Zenon
  <2> QED BY <2>3 DEF SlotOf, KeyPairs
<1>7. score \in Int BY <1>6, DecodingScores
<1>8. keep <=> KeepsSlot(sorted, thr, b, k)
  <2> HIDE DEF score
  <2>1. keep <=> score >= thr BY <1>3, <1>5, <1>7
  <2> QED BY <2>1, Zenon DEF KeepsSlot, score
<1> HIDE DEF keep
<1>9. out' = [out EXCEPT ![b * Deep + k] = SlotRow(sorted, thr, b, k)]
  BY <1>1, <1>8, Zenon DEF SlotRow
<1>10. SlotRow(sorted, thr, b, k) \in DecodedRows
  BY <1>6, <1>7, DecodedRowsTyped, Zenon DEF SlotRow
<1>11. b * Deep + k \in 0 .. Batches * Deep - 1
  <2>1. Deep \in Nat \ {0} BY <1>3
  <2> QED BY <2>1, <1>3, BlockIndex, Zenon
<1>12. DecodeTypes'
  <2>1. s_count' \in [0 .. Batches - 1 -> Nat] BY <1>1, <1>3, SMTT(60)
  <2>2. out' \in [0 .. Batches * Deep - 1 -> DecodedRows]
    BY <1>3, <1>9, <1>10, <1>11
  <2>3. written' \subseteq (0 .. Batches - 1) \X (0 .. Deep - 1)
    BY <1>1, <1>3, SMTT(60)
  <2> QED BY <1>1, <2>1, <2>2, <2>3 DEF DecodeInv, DecodeTypes
<1>13. DecodeCall' BY <1>1, <1>2 DEF DecodeCall
<1>14. ASSUME NEW d \in 0 .. batch - 1
       PROVE  /\ s_thr[d] \in {-1, thr}
              /\ s_thr[d] = -1 => \A l \in 0 .. Deep - 1 : <<d, l>> \notin w
              /\ s_thr[d] # -1 => s_count'[d] = Cardinality(Seen(d, w))
  <2>0. d \in 0 .. Batches - 1 BY <1>2, <1>3
  <2>1. /\ s_thr[d] \in {-1, thr}
        /\ s_thr[d] = -1 => \A l \in 0 .. Deep - 1 : <<d, l>> \notin written
        /\ s_thr[d] # -1 => s_count[d] = Cardinality(Seen(d, written))
    BY <1>1, Zenon DEF DecodeInv, BlocksCount
  <2>2. CASE d # b
    <3>1. s_count'[d] = s_count[d] BY <1>1, <1>3, <2>0, <2>2
    <3>2. \A l : <<d, l>> \in w <=> <<d, l>> \in written BY <2>2
    <3>3. Seen(d, w) = Seen(d, written) BY <3>2, Zenon
    <3> HIDE DEF Seen, w
    <3> QED BY <2>1, <3>1, <3>2, <3>3, Zenon
  <2>3. CASE d = b
    <3>1. s_count[b] = Cardinality(Seen(b, written)) /\ s_count[b] \in Nat
      BY <1>1, <1>3, <2>1, <2>3
    <3>2. CASE keep
      <4>1. s_count'[b] = s_count[b] + 1 BY <1>1, <1>3, <3>2
      <4>2. k \in Survivors(sorted, thr, b)
        BY <1>8, <3>2, Zenon DEF Survivors
      <4>3. Seen(b, w) = Seen(b, written) \cup {k} /\ k \notin Seen(b, written)
        BY <4>2, <1>1
      <4>4. IsFiniteSet(Seen(b, written))
        <5>1. IsFiniteSet(0 .. Deep - 1) BY <1>3, FS_Interval
        <5>2. Seen(b, written) \subseteq 0 .. Deep - 1 BY DEF Survivors
        <5> QED BY <5>1, <5>2, FS_Subset, Zenon
      <4> HIDE DEF Seen, w
      <4>5. Cardinality(Seen(b, written) \cup {k}) = Cardinality(Seen(b, written)) + 1
        BY <4>3, <4>4, FS_AddElement, Zenon
      <4>6. s_count'[b] = Cardinality(Seen(b, w))
        BY <3>1, <4>1, <4>3, <4>5, Zenon
      <4> QED BY <1>1, <1>5, <2>1, <2>3, <4>6, Zenon
    <3>3. CASE ~keep
      <4>1. s_count'[b] = s_count[b] BY <1>1, <1>3, <3>3
      <4>2. k \notin Survivors(sorted, thr, b)
        BY <1>8, <3>3, Zenon DEF Survivors
      <4>3. Seen(b, w) = Seen(b, written) BY <4>2
      <4> HIDE DEF Seen, w
      <4> QED BY <1>1, <2>1, <2>3, <3>1, <4>1, <4>3, Zenon
    <3> QED BY <3>2, <3>3
  <2> QED BY <2>2, <2>3
<1>15. BlocksCount'
  <2> HIDE DEF w
  <2> QED BY <1>1, <1>14, Zenon DEF BlocksCount
<1>16. SlotsFilled'
  <2> SUFFICES ASSUME NEW d \in 0 .. batch - 1, NEW l \in 0 .. Deep - 1, <<d, l>> \in w
               PROVE  out'[d * Deep + l] = SlotRow(sorted, thr, d, l)
    BY <1>1 DEF SlotsFilled
  <2>1. CASE d = b /\ l = k BY <2>1, <1>3, <1>9, <1>11
  <2>2. CASE ~(d = b /\ l = k)
    <3>1. <<d, l>> \in written BY <2>2
    <3>2. out[d * Deep + l] = SlotRow(sorted, thr, d, l)
      BY <1>1, <3>1, Zenon DEF DecodeInv, SlotsFilled
    <3>3. d * Deep + l # b * Deep + k
      <4>1. Deep \in Nat \ {0} /\ d \in Nat /\ b \in Nat BY <1>3, <1>2
      <4> QED BY <4>1, <2>2, BlockIndexInjective
    <3>4. d * Deep + l \in 0 .. Batches * Deep - 1
      <4>1. Deep \in Nat \ {0} /\ d \in 0 .. Batches - 1
        BY <1>3, <1>2, SMTT(60)
      <4> QED BY <4>1, <1>3, BlockIndex, Zenon
    <3> DEFINE i == d * Deep + l
               j == b * Deep + k
               D == 0 .. Batches * Deep - 1
    <3>5. i # j /\ i \in D /\ out \in [D -> DecodedRows]
        /\ out' = [out EXCEPT ![j] = SlotRow(sorted, thr, b, k)]
      BY <3>3, <3>4, <1>3, <1>9, Zenon
    <3>6. out[i] = SlotRow(sorted, thr, d, l) BY <3>2
    <3> HIDE DEF i, j, D
    <3>7. out'[i] = SlotRow(sorted, thr, d, l) BY <3>5, <3>6
    <3> QED BY <3>7 DEF i
  <2> QED BY <2>1, <2>2
<1>17. SegmentsSorted' BY <1>1, Zenon DEF DecodeInv, SegmentsSorted
<1>18. Packed' /\ SurvivorsCounted' /\ ResultsInPlace'
  BY <1>1 DEF Packed, SurvivorsCounted, ResultsInPlace
<1> QED BY <1>12, <1>13, <1>15, <1>16, <1>17, <1>18 DEF DecodeInv

\* The ranking a sorted segment holds.
OrderOf(q, b) == [i \in 1 .. Deep |-> SlotOf(q, b, i - 1).val]

\* The slots of a sorted segment that survive a threshold are its first ones.
LEMMA SurvivorsFirst ==
    ASSUME variant \in DOMAIN Decodings, NEW q, NEW b, NEW f \in Decodings[variant].frames,
           SortedFrom(q, b, f), NEW t \in Int
    PROVE  \E m \in 0 .. Deep :
              /\ \A i \in 1 .. Deep : i <= m <=> ScoreOf(f, OrderOf(q, b)[i]) >= t
              /\ \A k \in 0 .. Deep - 1 : k < m <=> KeepsSlot(q, t, b, k)
              /\ Cardinality(Survivors(q, t, b)) = m
<1> DEFINE r == OrderOf(q, b)
           s == [i \in 1 .. Deep |-> ScoreOf(f, r[i])]
<1>1. Deep \in Nat \ {0} BY DecodingNumbers
<1>2. Ranked(f, r) /\ \A k \in 0 .. Deep - 1 : SlotOf(q, b, k).key = KeyOf(f, SlotOf(q, b, k).val)
  BY Zenon DEF SortedFrom, OrderOf
<1>3. \A i \in 1 .. Deep : r[i] = SlotOf(q, b, i - 1).val
  BY Zenon DEF OrderOf
<1> HIDE DEF r
<1>4. \A i \in 1 .. Deep : s[i] = ScoreOf(f, r[i]) BY Zenon
<1>5. s \in [1 .. Deep -> Int] /\ \A i, j \in 1 .. Deep : i < j => s[i] >= s[j]
  <2>1. s = [i \in 1 .. Deep |-> s[i]] BY Zenon
  <2> HIDE DEF s
  <2>2. /\ \A i \in 1 .. Deep : ScoreOf(f, r[i]) \in Int
        /\ \A i, j \in 1 .. Deep : i < j => ScoreOf(f, r[i]) >= ScoreOf(f, r[j])
    BY <1>2, RankedScores
  <2>3. \A i \in 1 .. Deep : s[i] \in Int BY <1>4, <2>2, Zenon
  <2>4. \A i, j \in 1 .. Deep : i < j => s[i] >= s[j]
    BY <1>4, <2>2, Zenon
  <2>5. s \in [1 .. Deep -> Int] BY <2>1, <2>3, Zenon
  <2> QED BY <2>4, <2>5, Zenon
<1> HIDE DEF s
<1>6. PICK m \in 0 .. Deep : \A i \in 1 .. Deep : i <= m <=> s[i] >= t
  BY <1>1, <1>5, DescendingPrefix
<1>7. \A k \in 0 .. Deep - 1 : k < m <=> KeepsSlot(q, t, b, k)
  <2> SUFFICES ASSUME NEW k \in 0 .. Deep - 1
               PROVE  k < m <=> KeepsSlot(q, t, b, k)
    OBVIOUS
  <2> DEFINE i == k + 1
  <2>1. i \in 1 .. Deep /\ i - 1 = k /\ (k < m <=> i <= m) BY <1>1
  <2> HIDE DEF i
  <2>2. s[i] = ScoreAt(SlotOf(q, b, k).key)
    <3>1. s[i] = ScoreOf(f, r[i]) /\ r[i] = SlotOf(q, b, i - 1).val
      BY <1>3, <1>4, <2>1, Zenon
    <3>2. SlotOf(q, b, k).key = KeyOf(f, SlotOf(q, b, k).val)
      BY <1>2, Zenon
    <3> QED BY <2>1, <3>1, <3>2, Zenon DEF ScoreOf
  <2> QED BY <1>6, <2>1, <2>2, Zenon DEF KeepsSlot
<1>8. Survivors(q, t, b) = 0 .. m - 1 BY <1>1, <1>6, <1>7 DEF Survivors
<1>9. Cardinality(Survivors(q, t, b)) = m
  <2>1. Cardinality(0 .. m - 1) = IF 0 > m - 1 THEN 0 ELSE m - 1 - 0 + 1
    <3>1. 0 \in Int /\ m - 1 \in Int BY <1>6
    <3> QED BY <3>1, FS_Interval
  <2> QED BY <1>8, <2>1
<1>10. \A i \in 1 .. Deep : i <= m <=> ScoreOf(f, r[i]) >= t
  BY <1>4, <1>6, Zenon
<1> QED BY <1>7, <1>9, <1>10, Zenon DEF r

LEMMA EndKernelKeeps ==
    ASSUME variant \in DOMAIN Decodings, DecodeInv, Decoding(variant)!EndKernel
    PROVE  DecodeInv'
<1>1. /\ phase = "decode" /\ phase' = "collect"
      /\ written = {<<b, k>> : b \in 0 .. batch - 1, k \in 0 .. Deep - 1}
      /\ counts' = [b \in 0 .. Batches - 1 |-> IF b < batch THEN s_count[b] ELSE counts[b]]
      /\ UNCHANGED <<path, batch, frames, thr, thr_cell, results, pairs, sorted, s_thr, s_count,
                     written, out>>
  <2>1. /\ phase = "decode" /\ phase' = "collect"
        /\ UNCHANGED <<path, batch, frames, thr, thr_cell, results, pairs, sorted, s_thr, s_count,
                       written, out>>
    BY Zenon DEF Decoding!EndKernel, Decoding!request
  <2>2. counts' = [b \in 0 .. Batches - 1 |-> IF b < batch THEN s_count[b] ELSE counts[b]]
    BY DecodingSets, Zenon DEF Decoding!EndKernel
  <2>3. written = {<<b, k>> : b \in 0 .. batch - 1, k \in 0 .. Deep - 1}
    BY DEF Decoding!EndKernel, Deep
  <2> QED BY <2>1, <2>2, <2>3
<1>2. /\ batch \in 1 .. Batches /\ frames \in [0 .. batch - 1 -> Decodings[variant].frames]
      /\ results = <<>>
      /\ path = "graph" => thr_cell = thr
  BY <1>1 DEF DecodeInv, DecodeCall
<1>3. /\ Batches \in Nat /\ s_count \in [0 .. Batches - 1 -> Nat]
         /\ counts \in [0 .. Batches - 1 -> Nat]
      /\ Deep \in Nat \ {0}
  BY DecodingNumbers, SMTT(60) DEF DecodeInv, DecodeTypes
<1>4. DecodeTypes'
  <2>1. counts' \in [0 .. Batches - 1 -> Nat] BY <1>1, <1>3
  <2> QED BY <1>1, <2>1 DEF DecodeInv, DecodeTypes
<1>5. DecodeCall' BY <1>1, <1>2 DEF DecodeCall
<1>6. \A b \in 0 .. batch - 1, k \in 0 .. Deep - 1 : <<b, k>> \in written
  BY <1>1
<1>7. ASSUME NEW b \in 0 .. batch - 1
      PROVE  counts'[b] = Cardinality(Survivors(sorted, thr, b))
  <2>0. b \in 0 .. Batches - 1 /\ b < batch /\ 0 \in 0 .. Deep - 1
    BY <1>2, <1>3
  <2>1. counts'[b] = s_count[b] BY <1>1, <2>0, Zenon
  <2>2. s_thr[b] # -1
    <3>1. <<b, 0>> \in written BY <1>6, <2>0, Zenon
    <3> QED BY <1>1, <2>0, <3>1, Zenon DEF DecodeInv, BlocksCount
  <2>3. s_count[b] = Cardinality({k \in Survivors(sorted, thr, b) : <<b, k>> \in written})
    BY <1>1, <2>2, Zenon DEF DecodeInv, BlocksCount
  <2>4. {k \in Survivors(sorted, thr, b) : <<b, k>> \in written} = Survivors(sorted, thr, b)
    <3>1. Survivors(sorted, thr, b) \subseteq 0 .. Deep - 1
      BY DEF Survivors
    <3> QED BY <1>6, <3>1, Zenon
  <2> QED BY <2>1, <2>3, <2>4, Zenon
<1>8. SurvivorsCounted' BY <1>1, <1>7, Zenon DEF SurvivorsCounted
<1>9. SlotsFilled' BY <1>1, <1>6, Zenon DEF DecodeInv, SlotsFilled
<1>10. SegmentsSorted' BY <1>1, Zenon DEF DecodeInv, SegmentsSorted
<1>11. Packed' /\ BlocksCount' /\ ResultsInPlace'
  BY <1>1 DEF Packed, BlocksCount, ResultsInPlace
<1> QED BY <1>4, <1>5, <1>8, <1>9, <1>10, <1>11 DEF DecodeInv

LEMMA CollectKeeps ==
    ASSUME variant \in DOMAIN Decodings, DecodeInv, Decoding(variant)!Collect
    PROVE  DecodeInv'
<1>1. /\ phase = "collect" /\ phase' = "idle"
      /\ results' = [b \in 0 .. batch - 1 |-> [k \in 1 .. counts[b] |-> out[b * Deep + k - 1]]]
      /\ UNCHANGED <<path, batch, frames, thr, thr_cell, pairs, sorted, s_thr, s_count, written,
                     out, counts>>
  BY Zenon DEF Decoding!Collect, Decoding!request, Decoding!scratch, Deep
<1>2. /\ batch \in 1 .. Batches /\ frames \in [0 .. batch - 1 -> Decodings[variant].frames]
      /\ path = "graph" => thr_cell = thr
  BY <1>1 DEF DecodeInv, DecodeCall
<1>3. Batches \in Nat /\ thr \in Int /\ Deep \in Nat \ {0}
  BY DecodingNumbers, SMTT(60) DEF DecodeInv, DecodeTypes
<1>4. ASSUME NEW b \in 0 .. batch - 1
      PROVE  \E r, m : IsResult(results'[b], b, frames[b], thr, r, m)
  <2> DEFINE f == frames[b]
             r == OrderOf(sorted, b)
  <2>1. SortedFrom(sorted, b, f) /\ counts[b] = Cardinality(Survivors(sorted, thr, b))
        /\ \A k \in 0 .. Deep - 1 : out[b * Deep + k] = SlotRow(sorted, thr, b, k)
    BY <1>1, Zenon DEF DecodeInv, SegmentsSorted, SurvivorsCounted, SlotsFilled
  <2>2. f \in Decodings[variant].frames BY <1>2
  <2>3. Ranked(f, r) /\ \A k \in 0 .. Deep - 1 :
      SlotOf(sorted, b, k).key = KeyOf(f, SlotOf(sorted, b, k).val)
    BY <2>1, Zenon DEF SortedFrom, OrderOf
  <2>4. \A i \in 1 .. Deep : r[i] = SlotOf(sorted, b, i - 1).val
    BY Zenon DEF OrderOf
  <2>5. PICK m \in 0 .. Deep :
          /\ \A i \in 1 .. Deep : i <= m <=> ScoreOf(f, r[i]) >= thr
          /\ \A k \in 0 .. Deep - 1 : k < m <=> KeepsSlot(sorted, thr, b, k)
          /\ Cardinality(Survivors(sorted, thr, b)) = m
    <3> HIDE DEF f
    <3> QED BY <2>1, <2>2, <1>3, SurvivorsFirst
  <2> HIDE DEF f, r
  <2>6. results'[b] = [i \in 1 .. m |-> out[b * Deep + i - 1]]
    BY <1>1, <2>1, <2>5, Zenon
  <2>7. ASSUME NEW i \in 1 .. m
        PROVE  out[b * Deep + i - 1] = Decoding(variant)!Row(b, r[i], ScoreOf(f, r[i]))
    <3> DEFINE k == i - 1
               first == b * Deep
    <3>1. k \in 0 .. Deep - 1 /\ k < m /\ i \in 1 .. Deep BY <1>3, <2>5
    <3>2. b * Deep + i - 1 = b * Deep + k
      <4>1. first \in Int
        <5>1. \A x, y \in Int : x * y \in Int BY SMT
        <5> QED BY <5>1, <1>3
      <4> HIDE DEF first
      <4>2. first + i - 1 = first + k BY <4>1, <3>1
      <4> QED BY <4>2 DEF first
    <3>3. r[i] = SlotOf(sorted, b, k).val BY <2>4, <3>1, Zenon
    <3> HIDE DEF k
    <3>4. out[b * Deep + k] = SlotRow(sorted, thr, b, k)
      BY <2>1, <3>1, Zenon
    <3>5. KeepsSlot(sorted, thr, b, k) BY <2>5, <3>1, Zenon
    <3>6. SlotRow(sorted, thr, b, k) =
             Decoding(variant)!Row(b, SlotOf(sorted, b, k).val, ScoreAt(SlotOf(sorted, b, k).key))
      BY <3>5, Zenon DEF SlotRow
    <3>7. ScoreAt(SlotOf(sorted, b, k).key) = ScoreOf(f, r[i])
      BY <2>3, <3>1, <3>3, Zenon DEF ScoreOf
    <3> QED BY <3>2, <3>3, <3>4, <3>6, <3>7, Zenon
  <2>8. results'[b] = [i \in 1 .. m |-> Decoding(variant)!Row(b, r[i], ScoreOf(f, r[i]))]
    BY <2>6, <2>7, Zenon
  <2>9. IsResult(results'[b], b, f, thr, r, m)
    BY <2>3, <2>5, <2>8, Zenon DEF IsResult
  <2> QED BY <2>9, Zenon DEF f
<1>5. DOMAIN results' = 0 .. batch' - 1 BY <1>1
<1>6. ResultsInPlace' BY <1>1, <1>4, <1>5, Zenon DEF ResultsInPlace
<1>7. DecodeTypes' BY <1>1 DEF DecodeInv, DecodeTypes
<1>8. DecodeCall' BY <1>1, <1>2 DEF DecodeCall
<1>9. Packed' /\ SegmentsSorted' /\ BlocksCount' /\ SlotsFilled' /\ SurvivorsCounted'
  BY <1>1 DEF Packed, SegmentsSorted, BlocksCount, SlotsFilled, SurvivorsCounted
<1> QED BY <1>6, <1>7, <1>8, <1>9 DEF DecodeInv

LEMMA DecodeNextKeeps ==
    ASSUME variant \in DOMAIN Decodings, DecodeInv, Decoding(variant)!Next
    PROVE  DecodeInv'
<1>1. \/ \E p \in {"host", "split", "graph"}, b \in 1 .. Batches,
         t \in Decodings[variant].requests :
            \E f \in [0 .. b - 1 -> Decodings[variant].frames] : Decoding(variant)!Call(p, b, f, t)
      \/ Decoding(variant)!DecodeOnHost \/ Decoding(variant)!Pack \/ Decoding(variant)!Sort
      \/ \E b \in 0 .. Batches - 1 : Decoding(variant)!StartBlock(b)
      \/ \E b \in 0 .. Batches - 1, k \in 0 .. Deep - 1 : Decoding(variant)!WriteSlot(b, k)
      \/ Decoding(variant)!EndKernel \/ Decoding(variant)!Collect
  BY DecodingSets, Zenon DEF Decoding!Next, Deep, Batches
<1>2. CASE \E p \in {"host", "split", "graph"}, b \in 1 .. Batches,
    t \in Decodings[variant].requests :
              \E f \in [0 .. b - 1 -> Decodings[variant].frames] :
                Decoding(variant)!Call(p, b, f, t)
  <2>1. PICK p \in {"host", "split", "graph"}, b \in 1 .. Batches,
      t \in Decodings[variant].requests :
            \E f \in [0 .. b - 1 -> Decodings[variant].frames] : Decoding(variant)!Call(p, b, f, t)
    BY <1>2
  <2>2. PICK f \in [0 .. b - 1 -> Decodings[variant].frames] : Decoding(variant)!Call(p, b, f, t)
    BY <2>1
  <2> QED BY <2>2, CallKeeps
<1>3. CASE Decoding(variant)!DecodeOnHost BY <1>3, DecodeOnHostKeeps
<1>4. CASE Decoding(variant)!Pack BY <1>4, PackKeeps
<1>5. CASE Decoding(variant)!Sort BY <1>5, SortKeeps
<1>6. CASE \E b \in 0 .. Batches - 1 : Decoding(variant)!StartBlock(b)
  BY <1>6, StartBlockKeeps
<1>7. CASE \E b \in 0 .. Batches - 1, k \in 0 .. Deep - 1 : Decoding(variant)!WriteSlot(b, k)
  BY <1>7, WriteSlotKeeps
<1>8. CASE Decoding(variant)!EndKernel BY <1>8, EndKernelKeeps
<1>9. CASE Decoding(variant)!Collect BY <1>9, CollectKeeps
<1> QED BY <1>1, <1>2, <1>3, <1>4, <1>5, <1>6, <1>7, <1>8, <1>9, Zenon

LEMMA DecodeKept ==
    variant \in DOMAIN Decodings => (Decoding(variant)!Spec => []DecodeInv)
<1> SUFFICES ASSUME variant \in DOMAIN Decodings
             PROVE  Decoding(variant)!Spec => []DecodeInv
  OBVIOUS
<1>1. Decoding(variant)!Init => DecodeInv BY DecodeInvInit
<1>2. DecodeInv /\ [Decoding(variant)!Next]_(Decoding(variant)!vars) => DecodeInv'
  <2> SUFFICES ASSUME DecodeInv, [Decoding(variant)!Next]_(Decoding(variant)!vars)
               PROVE  DecodeInv'
    OBVIOUS
  <2>1. CASE Decoding(variant)!Next BY <2>1, DecodeNextKeeps
  <2>2. CASE UNCHANGED Decoding(variant)!vars
    <3>1. UNCHANGED <<phase, path, batch, frames, thr, thr_cell, pairs, sorted, s_thr, s_count,
                      written,
                      out, counts, results>>
      BY <2>2 DEF Decoding!vars
    <3>2. DecodeTypes' /\ DecodeCall'
      BY <3>1 DEF DecodeInv, DecodeTypes, DecodeCall
    <3>3. Packed' /\ SegmentsSorted'
      BY <3>1, Zenon DEF DecodeInv, Packed, SegmentsSorted
    <3>4. BlocksCount' /\ SlotsFilled' /\ SurvivorsCounted'
      BY <3>1, Zenon DEF DecodeInv, BlocksCount, SlotsFilled, SurvivorsCounted
    <3>5. ResultsInPlace' BY <3>1, Zenon DEF DecodeInv, ResultsInPlace
    <3> QED BY <3>2, <3>3, <3>4, <3>5 DEF DecodeInv
  <2> QED BY <2>1, <2>2
<1> QED BY <1>1, <1>2, PTL DEF Decoding!Spec

\* What a call has returned, image by image.
LEMMA WhatIsReturned ==
    ASSUME variant \in DOMAIN Decodings, DecodeInv, Decoding(variant)!Returned
    PROVE  /\ thr \in Int /\ batch \in 1 .. Batches /\ DOMAIN results = 0 .. batch - 1
           /\ \A b \in 0 .. batch - 1 :
                 /\ frames[b] \in Decodings[variant].frames
                 /\ \E r, m : IsResult(results[b], b, frames[b], thr, r, m)
<1>1. phase = "idle" /\ results # <<>> BY DEF Decoding!Returned
<1>2. batch \in 1 .. Batches /\ frames \in [0 .. batch - 1 -> Decodings[variant].frames]
  BY <1>1, Zenon DEF DecodeInv, DecodeCall
<1>3. thr \in Int BY DEF DecodeInv, DecodeTypes
<1>4. \A b \in 0 .. batch - 1 : frames[b] \in Decodings[variant].frames
  BY <1>2
<1>5. /\ DOMAIN results = 0 .. batch - 1
      /\ \A b \in 0 .. batch - 1 : \E r, m : IsResult(results[b], b, frames[b], thr, r, m)
  BY <1>1, Zenon DEF DecodeInv, ResultsInPlace
<1> QED BY <1>2, <1>3, <1>4, <1>5, Zenon

LEMMA ReturnedAgrees ==
    ASSUME variant \in DOMAIN Decodings, DecodeInv
    PROVE  /\ Decoding(variant)!AgreesWithReference /\ Decoding(variant)!NoStrongerLeftOut
           /\ Decoding(variant)!NaNIsNoDetection
<1>1. ASSUME Decoding(variant)!Returned, NEW b \in 0 .. batch - 1
      PROVE  /\ (\A c \in Cells : frames[b][c] # NaN)
                => results[b] \in Decoding(variant)!ReferenceOutcomes(b)
             /\ \A c, d \in Cells : Decoding(variant)!Takes(b, c) /\ ~Decoding(variant)!Takes(b, d)
                                       => KeyOf(frames[b], d) <= KeyOf(frames[b], c)
             /\ thr > 0 => \A c \in Cells : frames[b][c] = NaN => ~Decoding(variant)!Takes(b, c)
  <2>1. thr \in Int /\ frames[b] \in Decodings[variant].frames
    BY <1>1, WhatIsReturned
  <2>2. \E r, m : IsResult(results[b], b, frames[b], thr, r, m)
    BY <1>1, WhatIsReturned
  <2>3. PICK r, m : IsResult(results[b], b, frames[b], thr, r, m)
    BY <2>2
  <2>4. (\A c \in Cells : frames[b][c] # NaN)
      => results[b] \in Decoding(variant)!ReferenceOutcomes(b)
    BY <2>1, <2>3, ResultAgrees
  <2>5. \A c, d \in Cells : Decoding(variant)!Takes(b, c) /\ ~Decoding(variant)!Takes(b, d)
                               => KeyOf(frames[b], d) <= KeyOf(frames[b], c)
    BY <2>1, <2>3, ResultLeavesWeaker
  <2>6. thr > 0 => \A c \in Cells : frames[b][c] = NaN => ~Decoding(variant)!Takes(b, c)
    BY <2>1, <2>3, ResultDropsNaN
  <2> QED BY <2>4, <2>5, <2>6
<1>2. Decoding(variant)!AgreesWithReference
  BY <1>1, DecodingSets, Zenon DEF Decoding!AgreesWithReference
<1>3. Decoding(variant)!NoStrongerLeftOut
  BY <1>1, DecodingSets, Zenon DEF Decoding!NoStrongerLeftOut, KeyOf
<1>4. Decoding(variant)!NaNIsNoDetection
  BY <1>1, DecodingSets, Zenon DEF Decoding!NaNIsNoDetection
<1> QED BY <1>2, <1>3, <1>4

LEMMA SurvivorsPrefix ==
    ASSUME variant \in DOMAIN Decodings, DecodeInv
    PROVE  Decoding(variant)!SurvivorsAreAPrefix
<1> SUFFICES ASSUME phase = "collect", NEW b \in 0 .. batch - 1, NEW k \in 0 .. Deep - 1
             PROVE  k < counts[b] <=> out[b * Deep + k].class # -1
  BY Zenon DEF Decoding!SurvivorsAreAPrefix, Deep
<1>1. /\ batch \in 1 .. Batches /\ frames \in [0 .. batch - 1 -> Decodings[variant].frames]
      /\ thr \in Int /\ Batches \in Nat /\ Wide \in Nat \ {0} /\ Deep \in 1 .. Wide
      /\ sorted \in [0 .. Batches * Wide - 1 -> KeyPairs]
  BY DecodingNumbers, SMTT(60) DEF DecodeInv, DecodeCall, DecodeTypes
<1> DEFINE f == frames[b]
<1>2. f \in Decodings[variant].frames /\ b \in 0 .. Batches - 1 /\ k \in 0 .. Wide - 1
  BY <1>1
<1>3. SortedFrom(sorted, b, f) /\ counts[b] = Cardinality(Survivors(sorted, thr, b))
      /\ out[b * Deep + k] = SlotRow(sorted, thr, b, k)
  BY Zenon DEF DecodeInv, SegmentsSorted, SurvivorsCounted, SlotsFilled
<1>4. k < counts[b] <=> KeepsSlot(sorted, thr, b, k)
  <2> HIDE DEF f
  <2>1. PICK m \in 0 .. Deep :
          /\ \A l \in 0 .. Deep - 1 : l < m <=> KeepsSlot(sorted, thr, b, l)
          /\ Cardinality(Survivors(sorted, thr, b)) = m
    BY <1>1, <1>2, <1>3, SurvivorsFirst
  <2> QED BY <1>3, <2>1, Zenon
<1>5. SlotOf(sorted, b, k).val \in Cells /\ SlotOf(sorted, b, k).key \in Levels
  <2>1. b * Wide + k \in 0 .. Batches * Wide - 1
    BY <1>1, <1>2, BlockIndex
  <2>2. sorted[b * Wide + k] \in KeyPairs BY <1>1, <2>1, Zenon
  <2> QED BY <2>2 DEF SlotOf, KeyPairs
<1>6. ScoreAt(SlotOf(sorted, b, k).key) \in Int BY <1>5, DecodingScores
<1>7. SlotRow(sorted, thr, b, k).class # -1 <=> KeepsSlot(sorted, thr, b, k)
  BY <1>2, <1>5, <1>6, DecodedRowsTyped, Zenon DEF SlotRow
<1> QED BY <1>3, <1>4, <1>7, Zenon

LEMMA DecodeTyped ==
    ASSUME variant \in DOMAIN Decodings, DecodeInv
    PROVE  Decoding(variant)!TypeOK
<1>1. DecodeTypes BY DEF DecodeInv
<1>2. /\ phase \in {"idle", "host", "pack", "sort", "decode", "collect"}
      /\ path \in {"host", "split", "graph"}
      /\ batch \in 0 .. Batches
  BY <1>1 DEF DecodeTypes
<1>3. ASSUME NEW q \in [0 .. Batches * Wide - 1 -> KeyPairs], NEW i \in 0 .. Batches * Wide - 1
      PROVE  q[i].key \in Levels /\ q[i].val \in Cells
  <2>1. q[i] \in KeyPairs BY Zenon
  <2> QED BY <2>1 DEF KeyPairs
<1>4. pairs \in [0 .. Batches * Wide - 1 -> KeyPairs]
    /\ sorted \in [0 .. Batches * Wide - 1 -> KeyPairs]
  BY <1>1 DEF DecodeTypes
<1>5. \A b \in 0 .. Batches - 1 : s_count[b] \in Nat /\ counts[b] \in Nat
  BY <1>1 DEF DecodeTypes
<1>6. ASSUME NEW i \in DOMAIN out, out[i].class # -1
      PROVE  Decoding(variant)!IsRow(out[i])
  <2>1. out[i] \in DecodedRows BY <1>1 DEF DecodeTypes
  <2> QED BY <1>6, <2>1, DecodedRowsTyped
<1>7. ASSUME NEW b \in DOMAIN results, NEW i \in DOMAIN results[b], results[b][i].class # -1
      PROVE  Decoding(variant)!IsRow(results[b][i])
  <2>1. results # <<>> BY <1>7
  <2>2. phase = "idle" BY <2>1, Zenon DEF DecodeInv, DecodeCall
  <2>3. Decoding(variant)!Returned BY <2>1, <2>2 DEF Decoding!Returned
  <2>4. thr \in Int /\ batch \in 1 .. Batches /\ b \in 0 .. batch - 1
      /\ frames[b] \in Decodings[variant].frames
    BY <2>3, WhatIsReturned, Zenon
  <2>5. PICK r, m : IsResult(results[b], b, frames[b], thr, r, m)
    BY <2>3, <2>4, WhatIsReturned, Zenon
  <2>6. i \in 1 .. m /\ results[b][i] = Decoding(variant)!Row(b, r[i], ScoreOf(frames[b], r[i]))
    <3>1. results[b] = [j \in 1 .. m |-> Decoding(variant)!Row(b, r[j], ScoreOf(frames[b], r[j]))]
      BY <2>5, Zenon DEF IsResult
    <3>2. DOMAIN results[b] = 1 .. m BY <3>1
    <3>3. i \in 1 .. m BY <3>2
    <3> QED BY <3>1, <3>3, Zenon
  <2>7. i \in 1 .. Deep /\ b \in 0 .. Batches - 1
    <3>1. m \in 0 .. Deep /\ Deep \in Nat /\ Batches \in Nat
      BY <2>5, DecodingNumbers DEF IsResult
    <3> QED BY <3>1, <2>4, <2>6
  <2>8. r[i] \in Cells BY <2>5, <2>7 DEF IsResult, Ranked
  <2>9. ScoreOf(frames[b], r[i]) \in Int BY <2>4, <2>8, KeysTyped
  <2>10. results[b][i] \in DecodedRows
    BY <2>6, <2>7, <2>8, <2>9, DecodedRowsTyped, Zenon
  <2> QED BY <1>7, <2>10, DecodedRowsTyped
<1>8. \A i \in 0 .. Batches * Wide - 1 : pairs[i].key \in Levels /\ pairs[i].val \in Cells
  BY <1>3, <1>4
<1>9. \A i \in 0 .. Batches * Wide - 1 : sorted[i].key \in Levels /\ sorted[i].val \in Cells
  BY <1>3, <1>4
<1> QED BY <1>2, <1>5, <1>6, <1>7, <1>8, <1>9, DecodingSets, Zenon DEF Decoding!TypeOK, Batches

\* On every path a call returns, for an image without NaN, what decode() of the Python
\* reference may return for the same outputs and threshold; no candidate left out has a
\* higher logit than one that is in, a NaN is no detection at a positive threshold, and the
\* survivors are the first slots of a block, which is what the host copies, whatever the
\* sizes, scores, batches, paths and orders of the threads are (postprocess.cpp,
\* decode_gpu.cu).
THEOREM DecodersAgree == RuntimeSpec /\ program = variant => []AgreesWithReference
<1>1. CASE variant \in DOMAIN Decodings
  <2>1. DecodeInv /\ program = variant => AgreesWithReference
    BY <1>1, ReturnedAgrees, SurvivorsPrefix, DecodeTyped DEF AgreesWithReference
  <2> QED BY <1>1, <2>1, DecodingRuns, DecodeKept, ProgramStays, PTL
<1>2. CASE variant \notin DOMAIN Decodings
  <2>1. program = variant => AgreesWithReference
    BY <1>2 DEF AgreesWithReference
  <2> QED BY <2>1, ProgramStays, PTL
<1> QED BY <1>1, <1>2

============================================================================
