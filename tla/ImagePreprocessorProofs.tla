----------------------- MODULE ImagePreprocessorProofs -----------------------
(* The preprocessor for any images, sizes, slots and queue: right pixels in
   every slot, an honest capacity, and no allocation once frozen.  The wait for
   the last upload bounds what can be queued: one kernel of an older image and
   then the upload and the kernel of the newest, each of which finds in its
   buffer what the slot is to get.                                            *)
EXTENDS ImagePreprocessor, SequenceTheorems, TLAPS

NoneQueued == stream = <<>>
OneKernel == \E s \in Slot : stream = <<Kernel(s)>> /\ d_src = wanted[s]
Newest == \E s \in Slot : stream = <<Upload(s), Kernel(s)>> /\ h_pinned = wanted[s]
BehindKernel ==
    \E r, s \in Slot : /\ stream = <<Kernel(r), Upload(s), Kernel(s)>>
                       /\ h_pinned = wanted[s]
                       /\ r = s \/ d_src = wanted[r]
\* Uploads whose kernel could not be queued.
HalfQueued == \E s \in Slot : stream = <<Upload(s)>>
HalfBehindKernel ==
    \E r, s \in Slot : stream = <<Kernel(r), Upload(s)>> /\ d_src = wanted[r]

Order ==
    /\ NoneQueued \/ OneKernel \/ Newest \/ BehindKernel \/ HalfQueued \/ HalfBehindKernel
    /\ HalfQueued \/ HalfBehindKernel => pc = "unwind"
    /\ pc \in {"free", "pack"} => NoneQueued \/ OneKernel
    /\ pc \in {"device", "pinned"} => NoneQueued

Growing ==
    /\ pc \in {"free", "device", "pinned"} => ~frozen
    /\ pc \in {"device", "pinned"} => capacity = 0
    /\ pc = "pinned" => size.d_src = Bytes[job[1]]

IInv == TypeOK /\ Order /\ RightPixels /\ CapacityHonest /\ Growing

------------------------------
(* The queue *)

LEMMA Operations ==
    ASSUME NEW s \in Slot
    PROVE  /\ Upload(s) \in Operation /\ Upload(s).op = "upload" /\ Upload(s).slot = s
           /\ Kernel(s) \in Operation /\ Kernel(s).op = "kernel" /\ Kernel(s).slot = s
           /\ Upload(s) # Kernel(s)
           /\ \A r \in Slot : /\ Upload(r) = Upload(s) => r = s
                              /\ Kernel(r) = Kernel(s) => r = s
                              /\ Upload(r) # Kernel(s)
  BY DEF Operation, Upload, Kernel

LEMMA Lists ==
    ASSUME NEW a \in Operation, NEW b \in Operation, NEW c \in Operation
    PROVE  /\ <<>> \in Seq(Operation)
           /\ <<a>> \in Seq(Operation) /\ <<a, b>> \in Seq(Operation)
           /\ <<a, b, c>> \in Seq(Operation)
           /\ <<a>> # <<>> /\ Head(<<a>>) = a /\ Tail(<<a>>) = <<>>
           /\ <<a, b>> # <<>> /\ Head(<<a, b>>) = a /\ Tail(<<a, b>>) = <<b>>
           /\ <<a, b, c>> # <<>> /\ Head(<<a, b, c>>) = a /\ Tail(<<a, b, c>>) = <<b, c>>
           /\ <<>> \o <<a, b>> = <<a, b>> /\ <<a>> \o <<b, c>> = <<a, b, c>>
           /\ Append(<<>>, a) = <<a>> /\ Append(<<a>>, b) = <<a, b>>
<1>1. /\ <<>> \in Seq(Operation)
      /\ <<a>> \in Seq(Operation) /\ <<a, b>> \in Seq(Operation)
      /\ <<a, b, c>> \in Seq(Operation)
  OBVIOUS
<1>2. <<a>> # <<>> /\ <<a, b>> # <<>> /\ <<a, b, c>> # <<>> OBVIOUS
<1>3. Head(<<a>>) = a /\ Head(<<a, b>>) = a /\ Head(<<a, b, c>>) = a
  OBVIOUS
<1>4. Tail(<<a>>) = <<>> OBVIOUS
<1>5. Tail(<<a, b>>) = <<b>> OBVIOUS
<1>6. Tail(<<a, b, c>>) = <<b, c>> OBVIOUS
<1>7. <<>> \o <<a, b>> = <<a, b>> OBVIOUS
<1>8. <<a>> \o <<b, c>> = <<a, b, c>>
  <2> DEFINE joined == <<a>> \o <<b, c>>
             listed == <<a, b, c>>
  <2>1. joined \in Seq(Operation) /\ Len(joined) = 3 BY <1>1
  <2>2. joined[1] = a OBVIOUS
  <2>3. joined[2] = b OBVIOUS
  <2>4. joined[3] = c OBVIOUS
  <2>5. \A k \in 1 .. 3 : joined[k] = listed[k] BY <2>2, <2>3, <2>4
  <2>6. listed \in Seq(Operation) /\ Len(listed) = 3 BY <1>1
  <2> HIDE DEF joined, listed
  <2>7. joined = listed BY <2>1, <2>5, <2>6, SeqEqual
  <2> QED BY <2>7 DEF joined, listed
<1>9. Append(<<>>, a) = <<a>> OBVIOUS
<1>10. Append(<<a>>, b) = <<a, b>>
  <2> DEFINE joined == Append(<<a>>, b)
             listed == <<a, b>>
  <2>1. joined \in Seq(Operation) /\ Len(joined) = 2 /\ joined[1] = a /\ joined[2] = b
    BY <1>1
  <2>2. listed \in Seq(Operation) /\ Len(listed) = 2 /\ listed[1] = a /\ listed[2] = b
    BY <1>1
  <2> HIDE DEF joined, listed
  <2>3. \A k \in 1 .. 2 : joined[k] = listed[k] BY <2>1, <2>2
  <2>4. joined = listed BY <2>1, <2>2, <2>3, SeqEqual
  <2> QED BY <2>4 DEF joined, listed
<1> QED BY <1>1, <1>2, <1>3, <1>4, <1>5, <1>6, <1>7, <1>8, <1>9, <1>10

LEMMA Unlike ==
    ASSUME NEW a, NEW b, NEW c, NEW d, NEW e
    PROVE  /\ <<a>> # <<d, e>> /\ <<a, b>> # <<d>>
           /\ <<a, b>> = <<d, e>> => a = d
           /\ <<a>> = <<d>> => a = d
           /\ <<a, b, c>> # <<d>> /\ <<a, b, c>> # <<d, e>>
<1>1. Len(<<a>>) = 1 /\ Len(<<d>>) = 1 /\ Len(<<a, b>>) = 2 /\ Len(<<d, e>>) = 2
    /\ Len(<<a, b, c>>) = 3
  OBVIOUS
<1>2. <<a, b>>[1] = a /\ <<d, e>>[1] = d /\ <<a>>[1] = a /\ <<d>>[1] = d
  OBVIOUS
<1> QED BY <1>1, <1>2

LEMMA InLists ==
    ASSUME NEW a, NEW b, NEW c, NEW o
    PROVE  /\ stream = <<>> => ~Queued(o)
           /\ stream = <<a>> => (Queued(o) <=> o = a)
           /\ stream = <<a, b>> => (Queued(o) <=> o \in {a, b})
           /\ stream = <<a, b, c>> => (Queued(o) <=> o \in {a, b, c})
  BY DEF Queued

LEMMA InitIInv == Init => IInv
<1> SUFFICES ASSUME Init PROVE IInv
  OBVIOUS
<1>1. stream = <<>> /\ stream \in Seq(Operation) BY DEF Init
<1>2. TypeOK BY <1>1 DEF Init, TypeOK
<1>3. Order /\ Growing
  BY DEF Init, Order, NoneQueued, HalfQueued, HalfBehindKernel, Growing
<1>4. RightPixels /\ CapacityHonest
  BY DEF Init, RightPixels, CapacityHonest
<1> QED BY <1>2, <1>3, <1>4 DEF IInv

------------------------------
(* The host *)

\* Once the last upload is done only a kernel is left.
LEMMA AfterUpload ==
    ASSUME IInv, pc = "wait", UploadDone
    PROVE  NoneQueued \/ OneKernel
<1>1. ~HalfQueued /\ ~HalfBehindKernel BY DEF IInv, Order
<1>2. ~Newest BY InLists DEF UploadDone, Newest
<1>3. ~BehindKernel BY InLists DEF UploadDone, BehindKernel
<1> QED BY <1>1, <1>2, <1>3 DEF IInv, Order

LEMMA WaitedIInv ==
    ASSUME IInv, Waited
    PROVE  IInv'
<1>1. /\ pc = "wait"
      /\ pc' = CASE Bytes[job[1]] <= capacity -> "pack"
                 [] Bytes[job[1]] > capacity /\ MayGrow -> "free"
                 [] OTHER -> "unwind"
      /\ UNCHANGED <<job, frozen, capacity, size, h_pinned, d_src, d_dst, stream, wanted>>
  BY DEF Waited, buffers, data
<1>2. NoneQueued \/ OneKernel BY <1>1, AfterUpload DEF Waited
<1>3. Bytes[job[1]] \in Nat /\ capacity \in Nat
  BY PreprocessorAssumption DEF IInv, TypeOK
<1>4. /\ pc' \in {"pack", "free", "unwind"}
      /\ pc' = "pack" => Bytes[job'[1]] <= capacity
      /\ pc' = "free" => ~frozen
  BY <1>1, <1>3 DEF MayGrow
<1>5. TypeOK' BY <1>1, <1>4 DEF IInv, TypeOK
<1>6. Order'
  BY <1>1, <1>2, <1>4 DEF IInv, Order, NoneQueued, OneKernel, Newest, BehindKernel, HalfQueued,
                          HalfBehindKernel
<1>7. RightPixels' BY <1>1 DEF IInv, RightPixels, Queued
<1>8. CapacityHonest' /\ Growing'
  BY <1>1, <1>4 DEF IInv, CapacityHonest, Growing
<1> QED BY <1>5, <1>6, <1>7, <1>8 DEF IInv

\* A call that comes to the wait has touched nothing but its own arguments.
LEMMA ProcessIInv ==
    ASSUME IInv, NEW im \in Image, NEW s \in Slot, Process(im, s)
    PROVE  IInv'
<1>1. /\ pc = "idle" /\ job' = <<im, s>> /\ pc' = "wait"
      /\ UNCHANGED <<frozen, capacity, size, h_pinned, d_src, d_dst, stream, wanted>>
  BY DEF Process, buffers, data
<1>2. TypeOK' BY <1>1 DEF IInv, TypeOK
<1>3. Order'
  BY <1>1 DEF IInv, Order, NoneQueued, OneKernel, Newest, BehindKernel, HalfQueued,
              HalfBehindKernel
<1>4. RightPixels' BY <1>1 DEF IInv, RightPixels, Queued
<1>5. CapacityHonest' /\ Growing'
  BY <1>1 DEF IInv, CapacityHonest, Growing
<1> QED BY <1>2, <1>3, <1>4, <1>5 DEF IInv

\* Steps that change neither the queue nor what the buffers hold.
LEMMA QuietIInv ==
    ASSUME IInv,
           \/ ProcessFails \/ AllocateDevice \/ AllocatePinned \/ AllocateFails
           \/ Unwound \/ Freeze \/ UNCHANGED vars
    PROVE  IInv'
<1>1. UNCHANGED <<h_pinned, d_src, d_dst, stream, wanted, job>>
  BY DEF ProcessFails, AllocateDevice, AllocatePinned, AllocateFails, Unwound, Freeze, vars, host,
         data
<1>2. RightPixels' BY <1>1 DEF IInv, RightPixels, Queued
<1>3. job[1] \in Image /\ Bytes[job[1]] \in Nat
  BY PreprocessorAssumption DEF IInv, TypeOK
<1>4. TypeOK'
  BY <1>1, <1>3 DEF IInv, TypeOK, ProcessFails, AllocateDevice, AllocatePinned, AllocateFails,
                    Unwound, Freeze, vars, host, buffers
<1>5. /\ HalfQueued \/ HalfBehindKernel => pc' = "unwind"
      /\ pc' \in {"free", "pack"} => NoneQueued \/ OneKernel
      /\ pc' \in {"device", "pinned"} => NoneQueued
  <2>1. stream = <<>> => ~HalfQueued /\ ~HalfBehindKernel
    BY Operations, Lists DEF HalfQueued, HalfBehindKernel
  <2>2. CASE Unwound BY <2>1, <2>2 DEF Unwound
  <2>3. CASE ~Unwound
    BY <2>1, <2>3 DEF IInv, Order, NoneQueued, ProcessFails, AllocateDevice, AllocatePinned,
                      AllocateFails, Freeze, vars, host
  <2> QED BY <2>2, <2>3
<1>6. Order'
  BY <1>1, <1>5 DEF IInv, Order, NoneQueued, OneKernel, Newest, BehindKernel, HalfQueued,
                    HalfBehindKernel
<1>7. CapacityHonest' /\ Growing'
  BY <1>1, <1>3, SMTT(60) DEF IInv, TypeOK, CapacityHonest, Growing, ProcessFails, AllocateDevice,
     AllocatePinned, AllocateFails, Unwound, Freeze, vars, host, buffers
<1> QED BY <1>2, <1>4, <1>6, <1>7 DEF IInv

\* The device is idle while the buffers are released.
LEMMA FreeIInv ==
    ASSUME IInv, Free
    PROVE  IInv'
<1>1. /\ pc = "free" /\ pc' = "device" /\ stream = <<>>
      /\ capacity' = 0 /\ size' = [d_src |-> 0, h_pinned |-> 0]
      /\ h_pinned' = Garbage /\ d_src' = Garbage
      /\ UNCHANGED <<job, frozen, d_dst, stream, wanted>>
  BY DEF Free, DeviceIdle, CapacityWhileGrowing
<1>2. TypeOK' BY <1>1 DEF IInv, TypeOK
<1>3. RightPixels' BY <1>1 DEF IInv, RightPixels, Queued
<1>4. ~HalfQueued' /\ ~HalfBehindKernel' /\ NoneQueued'
  BY <1>1, Operations, Lists DEF HalfQueued, HalfBehindKernel, NoneQueued
<1>5. Order' BY <1>1, <1>4 DEF Order
<1>6. CapacityHonest' /\ Growing'
  BY <1>1 DEF IInv, CapacityHonest, Growing
<1> QED BY <1>2, <1>3, <1>5, <1>6 DEF IInv

\* The newest image is packed behind at most one kernel of an older one.
LEMMA AcceptIInv ==
    ASSUME IInv, Accept
    PROVE  IInv'
<1> DEFINE s == job[2]
<1>1. /\ pc = "pack" /\ pc' = "idle"
      /\ h_pinned' = job[1]
      /\ stream' = stream \o <<Upload(s), Kernel(s)>>
      /\ wanted' = [wanted EXCEPT ![s] = job[1]]
      /\ UNCHANGED <<job, frozen, capacity, size, d_src, d_dst>>
  BY DEF Accept, Target, buffers
<1>2. s \in Slot /\ job[1] \in Image /\ wanted \in [Slot -> Image \cup {Garbage}]
  BY DEF IInv, TypeOK
<1> HIDE DEF s
<1>3. /\ Upload(s) \in Operation /\ Kernel(s) \in Operation
  BY <1>2, Operations
<1>4. /\ wanted'[s] = h_pinned'
      /\ \A r \in Slot : r = s \/ wanted'[r] = wanted[r]
  BY <1>1, <1>2
<1>5. /\ (Newest \/ BehindKernel)'
      /\ \/ stream = <<>> /\ stream' = <<Upload(s), Kernel(s)>>
         \/ \E a \in Slot : /\ stream = <<Kernel(a)>>
                            /\ stream' = <<Kernel(a), Upload(s), Kernel(s)>>
  <2>1. CASE NoneQueued
    <3>1. stream' = <<Upload(s), Kernel(s)>>
      BY <1>1, <1>3, <2>1, Lists DEF NoneQueued
    <3> QED BY <1>2, <1>4, <2>1, <3>1 DEF NoneQueued, Newest
  <2>2. CASE OneKernel
    <3>1. PICK r \in Slot : stream = <<Kernel(r)>> /\ d_src = wanted[r]
      BY <2>2 DEF OneKernel
    <3>2. Kernel(r) \in Operation BY Operations
    <3>3. stream' = <<Kernel(r), Upload(s), Kernel(s)>>
      BY <1>1, <1>3, <3>1, <3>2, Lists, ZenonT(60)
    <3>4. r = s \/ d_src' = wanted'[r] BY <1>1, <1>4, <3>1
    <3> QED BY <1>2, <1>4, <3>1, <3>3, <3>4 DEF BehindKernel
  <2> QED BY <1>1, <2>1, <2>2 DEF IInv, Order
<1>6. stream' \in Seq(Operation)
  <2>1. CASE stream' = <<Upload(s), Kernel(s)>> BY <1>3, <2>1, Lists
  <2>2. ASSUME NEW a \in Slot, stream' = <<Kernel(a), Upload(s), Kernel(s)>>
        PROVE  stream' \in Seq(Operation)
    <3>1. Kernel(a) \in Operation BY <2>2, Operations
    <3> QED BY <1>3, <2>2, <3>1, Lists
  <2> QED BY <1>5, <2>1, <2>2
<1>7. TypeOK' BY <1>1, <1>2, <1>6 DEF IInv, TypeOK
<1>8. ~HalfQueued' /\ ~HalfBehindKernel'
  <2>1. CASE stream' = <<Upload(s), Kernel(s)>>
    BY <1>2, <2>1, Unlike, Operations DEF HalfQueued, HalfBehindKernel
  <2>2. ASSUME NEW a \in Slot, stream' = <<Kernel(a), Upload(s), Kernel(s)>>
        PROVE  ~HalfQueued' /\ ~HalfBehindKernel'
    BY <2>2, Unlike DEF HalfQueued, HalfBehindKernel
  <2> QED BY <1>5, <2>1, <2>2
<1>9. Order' BY <1>1, <1>5, <1>8 DEF Order
<1>10. ASSUME NEW r \in Slot, ~Queued(Kernel(r))'
       PROVE  d_dst'[r] = wanted'[r]
  <2>1. r # s BY <1>5, <1>10, InLists DEF Queued
  <2>2. ~Queued(Kernel(r))
    <3>1. CASE stream = <<>> BY <3>1, InLists
    <3>2. ASSUME NEW a \in Slot, stream = <<Kernel(a)>>,
                 stream' = <<Kernel(a), Upload(s), Kernel(s)>>
          PROVE  ~Queued(Kernel(r))
      <4>1. Kernel(r) # Kernel(a) BY <1>10, <3>2 DEF Queued
      <4> QED BY <3>2, <4>1, InLists
    <3> QED BY <1>5, <3>1, <3>2
  <2> QED BY <1>1, <1>4, <2>1, <2>2 DEF IInv, RightPixels
<1>11. CapacityHonest' /\ Growing'
  BY <1>1 DEF IInv, CapacityHonest, Growing
<1> QED BY <1>7, <1>9, <1>10, <1>11 DEF IInv, RightPixels

\* An image that was packed, with at most its upload queued.
LEMMA QueueFailsIInv ==
    ASSUME IInv, QueueFails
    PROVE  IInv'
<1> DEFINE s == job[2]
<1>1. /\ pc = "pack" /\ pc' = "unwind" /\ h_pinned' = job[1]
      /\ stream' = stream \/ stream' = Append(stream, Upload(s))
      /\ UNCHANGED <<job, frozen, capacity, size, d_src, d_dst, wanted>>
  BY DEF QueueFails, Target, buffers
<1>2. s \in Slot /\ job[1] \in Image BY DEF IInv, TypeOK
<1> HIDE DEF s
<1>3. Upload(s) \in Operation /\ stream \in Seq(Operation)
  BY <1>2, Operations DEF IInv, TypeOK
<1>4. TypeOK'
  <2>1. stream' \in Seq(Operation) BY <1>1, <1>3
  <2>2. h_pinned' \in Image \cup {Garbage} /\ pc' = "unwind"
    BY <1>1, <1>2
  <2>3. /\ job \in Image \X Slot /\ frozen \in BOOLEAN
        /\ capacity \in Nat /\ size \in [d_src : Nat, h_pinned : Nat]
        /\ d_src \in Image \cup {Garbage}
        /\ d_dst \in [Slot -> Image \cup {Garbage}] /\ wanted \in [Slot -> Image \cup {Garbage}]
    BY DEF IInv, TypeOK
  <2> QED BY <1>1, <2>1, <2>2, <2>3 DEF TypeOK
<1>5. CapacityHonest' /\ Growing'
  BY <1>1 DEF IInv, CapacityHonest, Growing
<1>6. /\ (NoneQueued \/ OneKernel \/ HalfQueued \/ HalfBehindKernel)'
      /\ \A r \in Slot : Queued(Kernel(r))' <=> Queued(Kernel(r))
  <2>1. CASE stream' = stream
    BY <1>1, <2>1 DEF IInv, Order, NoneQueued, OneKernel, Queued
  <2>2. CASE NoneQueued /\ stream' = Append(stream, Upload(s))
    <3>1. stream' = <<Upload(s)>> BY <1>3, <2>2, Lists DEF NoneQueued
    <3>2. \A r \in Slot : ~Queued(Kernel(r))' /\ ~Queued(Kernel(r))
      BY <1>2, <2>2, <3>1, Operations DEF NoneQueued, Queued
    <3> QED BY <1>2, <3>1, <3>2 DEF HalfQueued
  <2>3. CASE OneKernel /\ stream' = Append(stream, Upload(s))
    <3>1. PICK a \in Slot : stream = <<Kernel(a)>> /\ d_src = wanted[a]
      BY <2>3 DEF OneKernel
    <3>2. stream' = <<Kernel(a), Upload(s)>>
      BY <1>3, <2>3, <3>1, Lists, Operations
    <3>3. HalfBehindKernel'
      BY <1>1, <1>2, <3>1, <3>2 DEF HalfBehindKernel
    <3>4. ASSUME NEW r \in Slot
          PROVE  Queued(Kernel(r))' <=> Queued(Kernel(r))
      <4>1. Kernel(r) # Upload(s) BY <1>2, <3>4, Operations
      <4>2. Queued(Kernel(r)) <=> Kernel(r) = Kernel(a) BY <3>1, InLists
      <4>3. Queued(Kernel(r))' <=> Kernel(r) \in {Kernel(a), Upload(s)}
        BY <3>2 DEF Queued
      <4> QED BY <4>1, <4>2, <4>3
    <3> QED BY <3>3, <3>4
  <2> QED BY <1>1, <2>1, <2>2, <2>3 DEF IInv, Order
<1>7. Order' BY <1>1, <1>6 DEF Order
<1>8. RightPixels' BY <1>1, <1>6 DEF IInv, RightPixels
<1> QED BY <1>4, <1>5, <1>7, <1>8 DEF IInv

------------------------------
(* The GPU *)

\* What stays true of the queue and the slots when its oldest operation is done.
LEMMA GpuStepData ==
    ASSUME IInv, GpuStep
    PROVE  Order' /\ RightPixels' /\ stream' \in Seq(Operation)
<1>1. /\ stream # <<>> /\ stream' = Tail(stream)
      /\ UNCHANGED <<pc, h_pinned, wanted>>
  BY DEF GpuStep, host
<1>2. /\ Head(stream).op = "upload" => d_src' = h_pinned /\ d_dst' = d_dst
      /\ Head(stream).op = "kernel" =>
            d_src' = d_src /\ d_dst' = [d_dst EXCEPT ![Head(stream).slot] = d_src]
  BY DEF GpuStep
<1>3. d_dst \in [Slot -> Image \cup {Garbage}] BY DEF IInv, TypeOK
<1>4. \A r \in Slot : d_dst[r] = wanted[r] \/ Queued(Kernel(r))
  BY DEF IInv, RightPixels
<1>5. CASE OneKernel
  <2>1. PICK s \in Slot : stream = <<Kernel(s)>> /\ d_src = wanted[s]
    BY <1>5 DEF OneKernel
  <2>2. stream' = <<>> /\ Head(stream) = Kernel(s)
    BY <1>1, <2>1, Lists, Operations
  <2>3. d_dst' = [d_dst EXCEPT ![s] = wanted[s]]
    BY <1>2, <2>1, <2>2, Operations
  <2>4. \A r \in Slot : r = s \/ ~Queued(Kernel(r))
    BY <2>1, InLists, Operations
  <2>5. RightPixels' BY <1>1, <1>3, <1>4, <2>3, <2>4 DEF RightPixels
  <2>6. NoneQueued' /\ ~HalfQueued' /\ ~HalfBehindKernel'
    BY <2>2, Lists, Operations DEF NoneQueued, HalfQueued, HalfBehindKernel
  <2> QED BY <2>2, <2>5, <2>6, Lists DEF Order
<1>6. CASE Newest
  <2>1. PICK s \in Slot : stream = <<Upload(s), Kernel(s)>> /\ h_pinned = wanted[s]
    BY <1>6 DEF Newest
  <2>2. stream' = <<Kernel(s)>> /\ Head(stream) = Upload(s) /\ stream' \in Seq(Operation)
    BY <1>1, <2>1, Lists, Operations
  <2>3. d_src' = wanted[s] /\ d_dst' = d_dst
    BY <1>2, <2>1, <2>2, Operations
  <2>4. ASSUME NEW r \in Slot, ~Queued(Kernel(r))'
        PROVE  d_dst'[r] = wanted'[r]
    <3>1. Kernel(r) # Kernel(s) BY <2>2, <2>4 DEF Queued
    <3>2. Kernel(r) # Upload(s) BY Operations, <2>4
    <3>3. ~Queued(Kernel(r)) BY <2>1, <3>1, <3>2, InLists
    <3> QED BY <1>1, <1>4, <2>3, <3>3, <2>4
  <2>5. OneKernel' BY <1>1, <2>2, <2>3 DEF OneKernel
  <2>6. ~HalfQueued' /\ ~HalfBehindKernel'
    BY <2>2, Unlike, Operations DEF HalfQueued, HalfBehindKernel
  <2>7. pc \notin {"device", "pinned"}
    BY <1>1 DEF IInv, Order, NoneQueued
  <2> QED BY <1>1, <2>2, <2>4, <2>5, <2>6, <2>7 DEF Order, RightPixels
<1>7. CASE BehindKernel
  <2>1. PICK r \in Slot, s \in Slot :
            /\ stream = <<Kernel(r), Upload(s), Kernel(s)>>
            /\ h_pinned = wanted[s]
            /\ r = s \/ d_src = wanted[r]
    BY <1>7 DEF BehindKernel
  <2>2. stream' = <<Upload(s), Kernel(s)>> /\ Head(stream) = Kernel(r) /\ stream' \in Seq(Operation)
    BY <1>1, <2>1, Lists, Operations
  <2>3. d_dst' = [d_dst EXCEPT ![r] = d_src]
    BY <1>2, <2>1, <2>2, Operations
  <2>4. ASSUME NEW q \in Slot, ~Queued(Kernel(q))'
        PROVE  d_dst'[q] = wanted'[q]
    <3>1. q # s BY <2>2, <2>4 DEF Queued
    <3>2. CASE q = r BY <1>1, <1>3, <2>1, <2>3, <3>1, <3>2
    <3>3. CASE q # r
      <4>1. Kernel(q) \notin {Kernel(r), Upload(s), Kernel(s)}
        BY <2>4, <3>1, <3>3, Operations
      <4>2. ~Queued(Kernel(q)) BY <2>1, <4>1, InLists
      <4> QED BY <1>1, <1>3, <1>4, <2>3, <3>3, <4>2, <2>4
    <3> QED BY <3>2, <3>3
  <2>5. Newest' BY <1>1, <2>1, <2>2 DEF Newest
  <2>6. ~HalfQueued' /\ ~HalfBehindKernel'
    BY <2>2, Unlike, Operations DEF HalfQueued, HalfBehindKernel
  <2>7. ~NoneQueued /\ ~OneKernel
    BY <1>1, <2>1, Unlike DEF NoneQueued, OneKernel
  <2> QED BY <1>1, <2>2, <2>4, <2>5, <2>6, <2>7 DEF IInv, Order, NoneQueued, RightPixels
<1>8. CASE HalfQueued
  <2>1. PICK s \in Slot : stream = <<Upload(s)>> BY <1>8 DEF HalfQueued
  <2>2. stream' = <<>> /\ Head(stream) = Upload(s)
    BY <1>1, <2>1, Lists, Operations
  <2>3. d_dst' = d_dst BY <1>2, <2>1, <2>2, Operations
  <2>4. \A r \in Slot : ~Queued(Kernel(r)) BY <2>1, InLists, Operations
  <2>5. pc' = "unwind" /\ NoneQueued'
    BY <1>1, <1>8, <2>2 DEF IInv, Order, NoneQueued
  <2>6. stream' \in Seq(Operation) BY <2>2
  <2> QED BY <1>1, <1>4, <2>2, <2>3, <2>4, <2>5, <2>6 DEF Order, RightPixels
<1>9. CASE HalfBehindKernel
  <2>1. PICK r \in Slot, s \in Slot : stream = <<Kernel(r), Upload(s)>> /\ d_src = wanted[r]
    BY <1>9 DEF HalfBehindKernel
  <2>2. stream' = <<Upload(s)>> /\ Head(stream) = Kernel(r) /\ stream' \in Seq(Operation)
    BY <1>1, <2>1, Lists, Operations
  <2>3. d_dst' = [d_dst EXCEPT ![r] = wanted[r]]
    BY <1>2, <2>1, <2>2, Operations
  <2>4. ASSUME NEW q \in Slot
        PROVE  q = r \/ ~Queued(Kernel(q))
    <3>1. Kernel(q) # Upload(s) /\ (Kernel(q) = Kernel(r) => q = r)
      BY <2>4, Operations
    <3> QED BY <2>1, <3>1, InLists
  <2>5. RightPixels' BY <1>1, <1>3, <1>4, <2>3, <2>4 DEF RightPixels
  <2>6. pc' = "unwind" /\ HalfQueued'
    BY <1>1, <1>9, <2>2 DEF IInv, Order, HalfQueued
  <2>7. Order' BY <2>6 DEF Order
  <2> QED BY <2>2, <2>5, <2>7
<1> QED BY <1>1, <1>5, <1>6, <1>7, <1>8, <1>9 DEF IInv, Order, NoneQueued

LEMMA GpuStepIInv ==
    ASSUME IInv, GpuStep
    PROVE  IInv'
<1>1. Order' /\ RightPixels' /\ stream' \in Seq(Operation)
  BY GpuStepData
<1>2. /\ UNCHANGED <<pc, job, frozen, capacity, size, h_pinned, wanted>>
      /\ d_src' \in {d_src, h_pinned}
      /\ d_dst' = d_dst \/ d_dst' = [d_dst EXCEPT ![Head(stream).slot] = d_src]
  BY DEF GpuStep, host, buffers
<1>3. TypeOK' BY <1>1, <1>2 DEF IInv, TypeOK
<1>4. CapacityHonest' /\ Growing'
  BY <1>2 DEF IInv, CapacityHonest, Growing
<1> QED BY <1>1, <1>3, <1>4 DEF IInv

------------------------------
(* Theorems *)

\* The invariant is inductive.
THEOREM PreprocessorInvariant == Spec => []IInv
<1>1. IInv /\ [Next]_vars => IInv'
  BY ProcessIInv, WaitedIInv, QuietIInv, FreeIInv, AcceptIInv, QueueFailsIInv, GpuStepIInv DEF Next, Grow
<1> QED BY InitIInv, <1>1, PTL DEF Spec

\* The state of the preprocessor keeps its types.
THEOREM PreprocessorTypes == Spec => []TypeOK
<1>1. IInv => TypeOK BY DEF IInv
<1> QED BY PreprocessorInvariant, <1>1, PTL

\* Every slot gets the pixels of its own image through the two shared buffers.
THEOREM SlotsGetTheirPixels == Spec => []RightPixels
<1>1. IInv => RightPixels BY DEF IInv
<1> QED BY PreprocessorInvariant, <1>1, PTL

\* Nothing is ever packed into buffers that are too small for it.
THEOREM CapacityIsHonest == Spec => []CapacityHonest
<1>1. IInv => CapacityHonest BY DEF IInv
<1> QED BY PreprocessorInvariant, <1>1, PTL

\* A frozen preprocessor keeps its buffers for ever.
THEOREM FrozenKeepsBuffers == Spec => FrozenStays
<1>1. IInv /\ [Next]_vars => [frozen => UNCHANGED buffers]_vars
  <2> SUFFICES ASSUME IInv, Next, frozen
               PROVE  UNCHANGED buffers
    OBVIOUS
  <2>1. pc \notin {"free", "device", "pinned"} BY DEF IInv, Growing
  <2> QED
    BY <2>1 DEF Next, Grow, Process, Waited, ProcessFails, Free, AllocateDevice, AllocatePinned,
                AllocateFails,
             Accept, QueueFails, Unwound, Freeze, GpuStep, buffers
<1> QED BY PreprocessorInvariant, <1>1, PTL DEF Spec, FrozenStays

=============================================================================
