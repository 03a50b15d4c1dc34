---------------------------- MODULE BoxDecoding ----------------------------
(* From raw engine outputs to detections, along the three paths a detector
   has for it: decode_detections on the host (postprocess.cpp), the split
   device decode (k_pack, a segmented radix sort, k_decode_topk) and the same
   kernels replayed inside the captured full-pipeline graph, where the score
   threshold is read from a mapped cell when the kernel runs.  The reference
   they have to agree with is decode() of coco_eval.py.

   A candidate is a flat (query * classes + class) index.  A logit is a level
   of a bounded scale, or NaN; the level MinusInf has the score 0, and Score
   is monotone but need not be injective: high logits saturate in float.  A
   box is named by its image and query: the cxcywh arithmetic, the letterbox
   un-mapping and the clip are the same expressions on every path.         *)
EXTENDS Integers, FiniteSets, Sequences

CONSTANTS
    Queries, Classes,   \* the two dimensions of the logits of one image
    Limit,              \* kDetectionLimit
    MaxBatch,           \* the batch the device scratch is sized for
    Score,              \* sigmoid: level -> score
    NaN,                \* a logit that is no number (a model value)
    Frames,             \* the logits an image may have: candidate -> level
    Requests,           \* thresholds a caller may pass; a negative one asks
                        \* for the detector's own
    OwnThreshold,       \* opts.threshold
    Calls               \* bound on the calls of one behaviour

MinusInf == 0
Level == DOMAIN Score
Candidate == 0 .. Queries * Classes - 1
Image == 0 .. MaxBatch - 1

DecodingAssumption ==
    /\ {Queries, Classes, Limit, MaxBatch} \subseteq Nat \ {0}
    /\ Level \subseteq Int /\ Score \in [Level -> Int] /\ NaN \notin Level
    /\ MinusInf \in Level /\ Score[MinusInf] = 0
    /\ \A a, b \in Level : a <= b => Score[a] <= Score[b]
    /\ \A f \in Frames : \A c \in Candidate : f[c] \in Level \cup {NaN}
    /\ Requests \subseteq Int /\ OwnThreshold \in Nat

\* detection_limit: the decode never keeps more than there is.
TopK == IF Queries * Classes < Limit THEN Queries * Classes ELSE Limit

VARIABLES
    phase,      \* where the call is
    path,       \* "host" | "split" | "graph"
    batch,      \* images of this call
    frames,     \* their logits, on the device (and copied to the host)
    thr,        \* the threshold of this call, an argument of the split path
    thr_cell,   \* h_thr_: mapped pinned memory the replayed kernel reads
    pairs,      \* keys / vals: what k_pack wrote
    sorted,     \* keys_out / vals_out
    s_thr,      \* the threshold a block has read (shared memory)
    s_count,    \* the block's survivor counter (shared memory)
    written,    \* slots a thread of this launch has written
    out,        \* [max_batch * topk] DetectionGPU
    counts,     \* survivors per image
    results,    \* what the call returned
    calls

vars == <<phase, path, batch, frames, thr, thr_cell, pairs, sorted, s_thr,
          s_count, written, out, counts, results, calls>>

scratch == <<pairs, sorted, s_thr, s_count, written, out, counts>>
request == <<path, batch, frames, thr, thr_cell, calls>>

---------------------------------------------------------------------------
(* Ranking *)

\* NaN sorts last.
HostKey(logit) == IF logit = NaN THEN MinusInf ELSE logit

PackedKey(logit) == IF logit = NaN THEN MinusInf ELSE logit

\* Every order std::partial_sort (or argpartition and argsort) may leave in
\* the first TopK places: descending, ties in no particular order.
Rankings(key) ==
    {r \in [1 .. TopK -> Candidate] :
        /\ \A i, j \in 1 .. TopK : i < j => r[i] # r[j] /\ key[r[i]] >= key[r[j]]
        /\ \A c \in Candidate :
              (\A i \in 1 .. TopK : r[i] # c) => key[c] <= key[r[TopK]]}

Row(b, c, score) ==
    [box |-> <<b, c \div Classes>>, class |-> c % Classes, score |-> score]

\* A slot below the threshold.
Padded(score) == [box |-> <<>>, class |-> -1, score |-> score]
NoRow == Padded(0)

\* `if (score < threshold) continue`
HostKeeps(score, threshold) == ~(score < threshold)

\* One loop over the ranked rows, which keeps those with a number in S.
Kept(rows, S) ==
    LET upto[k \in 0 .. Len(rows)] ==
            IF k = 0 THEN <<>>
            ELSE IF k \in S THEN Append(upto[k - 1], rows[k]) ELSE upto[k - 1]
    IN  upto[Len(rows)]

---------------------------------------------------------------------------
(* The call *)

\* run_batch: a negative threshold asks for the detector's own.
EffectiveThreshold(t) == IF t >= 0 THEN t ELSE OwnThreshold

\* A bug that leaves the mapped cell at the value of the capture.
BakedCell(p, t) == thr_cell

\* run_full_graph_ stores the threshold before each launch.
ThresholdCell(p, t) == IF p = "graph" THEN t ELSE thr_cell

Call(p, b, f, t) ==
    /\ phase = "idle"
    /\ calls < Calls
    /\ p = "graph" => b = MaxBatch     \* captured for one batch
    /\ path' = p
    /\ batch' = b
    /\ frames' = f
    /\ thr' = EffectiveThreshold(t)
    /\ thr_cell' = ThresholdCell(p, EffectiveThreshold(t))
    /\ results' = <<>>
    /\ calls' = calls + 1
    /\ phase' = IF p = "host" THEN "host" ELSE "pack"
    /\ UNCHANGED scratch

\* decode_detections, once per image.
HostRows(b, ranking) ==
    LET scored == [i \in 1 .. TopK |->
                      Row(b, ranking[i], Score[HostKey(frames[b][ranking[i]])])]
    IN  Kept(scored, {i \in 1 .. TopK : HostKeeps(scored[i].score, thr)})

HostRankings(b) == Rankings([c \in Candidate |-> HostKey(frames[b][c])])

DecodeOnHost ==
    /\ phase = "host"
    /\ \E r \in [0 .. batch - 1 -> UNION {HostRankings(b) : b \in 0 .. batch - 1}] :
          /\ \A b \in 0 .. batch - 1 : r[b] \in HostRankings(b)
          /\ results' = [b \in 0 .. batch - 1 |-> HostRows(b, r[b])]
    /\ phase' = "idle"
    /\ UNCHANGED <<request, scratch>>

---------------------------------------------------------------------------
(* The kernels *)

NCand == Queries * Classes
Slot == 0 .. MaxBatch * NCand - 1

\* One thread per candidate of the whole batch; the rest of the scratch keeps
\* what an earlier, larger call left there.
Pack ==
    /\ phase = "pack"
    /\ pairs' = [i \in Slot |->
                    IF i < batch * NCand
                    THEN [key |-> PackedKey(frames[i \div NCand][i % NCand]),
                          val |-> i % NCand]
                    ELSE pairs[i]]
    /\ phase' = "sort"
    /\ UNCHANGED <<request, results, sorted, s_thr, s_count, written, out, counts>>

SegOff(j) == j * NCand

Segment(j) == SegOff(j) .. SegOff(j + 1) - 1

\* DeviceSegmentedRadixSort::SortPairsDescending: stable within a segment.
Precedes(a, b) ==
    \/ pairs[a].key > pairs[b].key
    \/ pairs[a].key = pairs[b].key /\ a < b

\* How far from the start of its segment a pair is sorted to.
Destination(j, a) == Cardinality({d \in Segment(j) : Precedes(d, a)})

Sort ==
    /\ phase = "sort"
    /\ sorted' = [i \in Slot |->
                    IF \E j \in 0 .. batch - 1 : i \in Segment(j)
                    THEN LET j == CHOOSE j \in 0 .. batch - 1 : i \in Segment(j)
                         IN  pairs[CHOOSE a \in Segment(j) : Destination(j, a) = i - SegOff(j)]
                    ELSE sorted[i]]
    /\ written' = {}
    /\ s_thr' = [b \in Image |-> -1]
    /\ phase' = "decode"
    /\ UNCHANGED <<request, results, pairs, s_count, out, counts>>

CounterAtStart(b) == 0

\* Thread 0 of block b: the counter, and the threshold for all of them.
StartBlock(b) ==
    /\ phase = "decode"
    /\ b < batch
    /\ s_thr[b] = -1
    /\ s_count' = [s_count EXCEPT ![b] = CounterAtStart(b)]
    /\ s_thr' = [s_thr EXCEPT ![b] = IF path = "graph" THEN thr_cell ELSE thr]
    /\ UNCHANGED <<request, results, phase, pairs, sorted, written, out, counts>>

\* One iteration of a thread of block b, in any order within the block.
WriteSlot(b, k) ==
    LET g == b * NCand + k
        score == Score[sorted[g].key]
        keep == ~(score < s_thr[b])
    IN  /\ phase = "decode"
        /\ b < batch
        /\ s_thr[b] # -1
        /\ <<b, k>> \notin written
        /\ s_count' = [s_count EXCEPT ![b] = IF keep THEN @ + 1 ELSE @]
        /\ out' = [out EXCEPT ![b * TopK + k] =
                      IF keep THEN Row(b, sorted[g].val, score) ELSE Padded(score)]
        /\ written' = written \cup {<<b, k>>}
        /\ UNCHANGED <<request, results, phase, pairs, sorted, s_thr, counts>>

\* Behind the second barrier of every block, and in stream order before the
\* copies to the host.
EndKernel ==
    /\ phase = "decode"
    /\ written = {<<b, k>> : b \in 0 .. batch - 1, k \in 0 .. TopK - 1}
    /\ counts' = [b \in Image |-> IF b < batch THEN s_count[b] ELSE counts[b]]
    /\ phase' = "collect"
    /\ UNCHANGED <<request, results, pairs, sorted, s_thr, s_count, written, out>>

\* After the synchronize: the first counts[b] rows of each image.
Collect ==
    /\ phase = "collect"
    /\ results' = [b \in 0 .. batch - 1 |->
                      [k \in 1 .. counts[b] |-> out[b * TopK + k - 1]]]
    /\ phase' = "idle"
    /\ UNCHANGED <<request, scratch>>

---------------------------------------------------------------------------
Init ==
    /\ phase = "idle" /\ path = "host" /\ batch = 0 /\ frames = <<>>
    /\ thr = OwnThreshold /\ thr_cell = OwnThreshold
    /\ pairs = [i \in Slot |-> [key |-> MinusInf, val |-> 0]]
    /\ sorted = pairs
    /\ s_thr = [b \in Image |-> -1]
    /\ s_count = [b \in Image |-> 0]
    /\ written = {}
    /\ out = [i \in 0 .. MaxBatch * TopK - 1 |-> NoRow]
    /\ counts = [b \in Image |-> 0]
    /\ results = <<>>
    /\ calls = 0

Next ==
    \/ \E p \in {"host", "split", "graph"}, b \in 1 .. MaxBatch, t \in Requests :
          \E f \in [0 .. b - 1 -> Frames] : Call(p, b, f, t)
    \/ DecodeOnHost
    \/ Pack
    \/ Sort
    \/ \E b \in Image : StartBlock(b)
    \/ \E b \in Image, k \in 0 .. TopK - 1 : WriteSlot(b, k)
    \/ EndKernel
    \/ Collect

Spec == Init /\ [][Next]_vars

---------------------------------------------------------------------------
(* Properties *)

Returned == phase = "idle" /\ results # <<>>

IsRow(row) ==
    /\ row.box[1] \in Image
    /\ row.box[2] \in 0 .. Queries - 1
    /\ row.class \in 0 .. Classes - 1

\* A row names a query of an image and a class, or it is padding.
TypeOK ==
    /\ phase \in {"idle", "host", "pack", "sort", "decode", "collect"}
    /\ path \in {"host", "split", "graph"}
    /\ batch \in 0 .. MaxBatch
    /\ \A i \in Slot : pairs[i].key \in Level /\ pairs[i].val \in Candidate
    /\ \A i \in Slot : sorted[i].key \in Level /\ sorted[i].val \in Candidate
    /\ \A b \in Image : s_count[b] \in Nat /\ counts[b] \in Nat
    /\ \A i \in DOMAIN out : out[i].class # -1 => IsRow(out[i])
    /\ \A b \in DOMAIN results : \A i \in DOMAIN results[b] :
          results[b][i].class # -1 => IsRow(results[b][i])

\* What decode() of coco_eval.py returns for the outputs of an image: ranked
\* by probability, ties in any order; the threshold is applied to its scores.
ReferenceOutcomes(b) ==
    LET prob == [c \in Candidate |-> Score[frames[b][c]]]
        row(c) == [box |-> <<b, c \div Classes>>, class |-> c % Classes,
                   score |-> prob[c]]
    IN  {Kept([i \in 1 .. TopK |-> row(r[i])], {i \in 1 .. TopK : prob[r[i]] >= thr}) :
            r \in Rankings(prob)}

\* On each path a call returns, for an image without NaN, a result the Python
\* reference may return for the same outputs and threshold: the same queries, boxes,
\* classes and scores, up to the order of equal scores.  Stale rows of an
\* earlier and larger batch, a threshold baked at capture, a counter another
\* launch left behind or a row of the neighbouring image would all break it.
AgreesWithReference ==
    Returned => \A b \in 0 .. batch - 1 :
        (\A c \in Candidate : frames[b][c] # NaN) =>
            results[b] \in ReferenceOutcomes(b)

\* Raw logits separate what saturated scores cannot: no candidate left out of
\* a result has a higher logit than one that is in it (postprocess.cpp and
\* decode_gpu.cu sort by logit for this).
Takes(b, c) == \E i \in 1 .. Len(results[b]) :
                  /\ results[b][i].box = <<b, c \div Classes>>
                  /\ results[b][i].class = c % Classes

NoStrongerLeftOut ==
    Returned => \A b \in 0 .. batch - 1 : \A c, d \in Candidate :
        Takes(b, c) /\ ~Takes(b, d) =>
            HostKey(frames[b][d]) <= HostKey(frames[b][c])

\* The survivors of an image are the first counts[b] slots of its block, and
\* no slot after them survived: the host copies a prefix and nothing else.
SurvivorsAreAPrefix ==
    phase = "collect" =>
        \A b \in 0 .. batch - 1 : \A k \in 0 .. TopK - 1 :
            k < counts[b] <=> out[b * TopK + k].class # -1

\* At any positive threshold a NaN logit is never a detection, whatever the
\* path and however few other candidates there are.
NaNIsNoDetection ==
    Returned /\ thr > 0 =>
        \A b \in 0 .. batch - 1 : \A c \in Candidate :
            frames[b][c] = NaN => ~Takes(b, c)

=============================================================================
