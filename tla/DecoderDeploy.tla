----------------------------- MODULE DecoderDeploy -----------------------------
(***************************************************************************)
(* The decoder on its way into an exported graph: apply_sliders checks and *)
(* applies --num-queries, --eval-idx and --cascade, deploy() drops what    *)
(* evaluation does not use, and forward refines the queries layer by       *)
(* layer, with a cascade through the forward patch_cascade put in place.   *)
(*                                                                         *)
(* A tensor is the sequence of its rows, one per query.  A row is named by *)
(* the query it belongs to and the layer it comes from, and a trained head *)
(* or layer by its index.  What a layer computes stays uninterpreted: from *)
(* the rows it was trained on it makes the next row of the same query, and *)
(* from any others Garbage.                                                *)
(***************************************************************************)
EXTENDS Integers, Sequences, FiniteSets, Functions

CONSTANTS
    NumLayers,     \* decoder layers of the checkpoint
    Candidate,     \* the encoder's positions
    NumQueries,    \* the checkpoint's initial queries
    Scores,        \* values a score head gives
    EvalIdxs, QueryCounts, Cascades,   \* the values of the sliders
    Nothing

Layer == 0 .. NumLayers - 1
DecoderAssumption ==
    /\ NumLayers \in Nat \ {0}
    /\ IsFiniteSet(Candidate) /\ NumQueries \in 1 .. Cardinality(Candidate)
    /\ Scores \subseteq Int /\ Scores # {}
    /\ (EvalIdxs \cup QueryCounts) \ {Nothing} \subseteq Int
    /\ \A c \in Cascades \ {Nothing} : c.k \in Int /\ c.keep \in Int
    /\ Nothing \notin Candidate /\ Nothing \notin [k : Int, keep : Int, head : Int]

Row == [of : Candidate \cup {Nothing}, at : -1 .. NumLayers - 1]
Garbage == [of |-> Nothing, at |-> -1]
Identity == -1

VARIABLES
    pc,
    args,          \* the sliders of this export
    decoder,       \* the model
    meta,          \* what the sidecar says of it
    content, rank, \* the scores of the encoder's head, and of layer k's, on this image
    i,             \* the layer forward is at
    rows,          \* the tensors that live from one layer to the next
    selected,      \* the queries forward starts with
    out            \* pred_boxes and pred_logits, or Nothing

vars == <<pc, args, decoder, meta, content, rank, i, rows, selected, out>>

Trained == [n \in Layer |-> n]
NoRows == [output |-> <<>>, output_detach |-> <<>>, corners |-> <<>>, refs |-> <<>>, initial |-> <<>>]

Init ==
    /\ pc = "load"
    /\ args \in [eval_idx : EvalIdxs, num_queries : QueryCounts, cascade : Cascades]
    /\ \E sign \in {1, -1} :
         decoder = [layers |-> Trained, lqe |-> Trained, score_head |-> Trained, bbox_head |-> Trained,
                    exit |-> NumLayers - 1, heads_exit |-> NumLayers - 1, num_queries |-> NumQueries,
                    reg_scale |-> sign, project |-> FALSE, cascade |-> Nothing]
    /\ meta = Nothing /\ out = Nothing
    /\ content = [c \in Candidate |-> 0] /\ rank = content
    /\ i = 0 /\ rows = NoRows /\ selected = <<>>

-----------------------------------------------------------------------------
(* apply_sliders and deploy *)

LayerCount == Cardinality(DOMAIN decoder.layers)
Exit == IF args.eval_idx = Nothing THEN decoder.exit ELSE args.eval_idx
QueriesAsked == IF args.num_queries = Nothing THEN decoder.num_queries ELSE args.num_queries

EvalIdxFits == args.eval_idx # Nothing => (0 <= args.eval_idx /\ args.eval_idx < LayerCount)
CascadeFits ==
    args.cascade # Nothing => (/\ 0 <= args.cascade.k /\ args.cascade.k < Exit
                               /\ 0 < args.cascade.keep /\ args.cascade.keep < QueriesAsked)
QueriesFit == args.num_queries # Nothing => args.num_queries > 0

Reshaped == [decoder EXCEPT !.exit = Exit, !.heads_exit = Exit, !.num_queries = QueriesAsked]

\* The head that ranks the queries is copied while it is there.
CascadeHead(d) == d.score_head[args.cascade.k]
WithCascade(d) ==
    IF args.cascade = Nothing THEN d
    ELSE [d EXCEPT !.cascade = [k |-> args.cascade.k, keep |-> args.cascade.keep,
                                head |-> CascadeHead(d)]]

ApplySliders ==
    /\ pc = "load"
    /\ IF EvalIdxFits /\ QueriesFit /\ CascadeFits
       THEN pc' = "deploy" /\ decoder' = WithCascade(Reshaped)
       ELSE pc' = "refused" /\ decoder' = decoder
    /\ UNCHANGED <<args, meta, content, rank, i, rows, selected, out>>

OnlyExit(heads, n) == [l \in 0 .. n |-> IF l = n THEN heads[l] ELSE Identity]
UpToExit(heads, n) == [l \in DOMAIN heads |-> IF l <= n THEN heads[l] ELSE Identity]

\* DFINETransformer.convert_to_deploy
ConvertHeads(d) ==
    [d EXCEPT !.score_head = OnlyExit(@, d.heads_exit), !.bbox_head = UpToExit(@, d.heads_exit),
              !.reg_scale = IF @ < 0 THEN -@ ELSE @]
Truncated(layers, n) == [l \in 0 .. n |-> layers[l]]
\* TransformerDecoder.convert_to_deploy
ConvertDecoder(d) ==
    [d EXCEPT !.project = TRUE, !.layers = Truncated(@, d.exit), !.lqe = OnlyExit(@, d.exit)]

Deploy ==
    /\ pc = "deploy"
    /\ decoder' = ConvertDecoder(ConvertHeads(decoder)) /\ pc' = "meta"
    /\ UNCHANGED <<args, meta, content, rank, i, rows, selected, out>>

QueriesOut == IF args.cascade = Nothing THEN decoder.num_queries ELSE args.cascade.keep

CollectMeta ==
    /\ pc = "meta"
    /\ meta' = [num_queries |-> QueriesOut, initial |-> decoder.num_queries,
                layers |-> LayerCount, eval_idx |-> decoder.heads_exit]
    /\ pc' = "image"
    /\ UNCHANGED <<args, decoder, content, rank, i, rows, selected, out>>

-----------------------------------------------------------------------------
(* forward *)

\* The orders topk may return for n of the elements: ties go either way.
TopK(elements, score, n) ==
    {s \in [1 .. n -> elements] :
        /\ \A a, b \in 1 .. n : a < b => (s[a] # s[b] /\ score[s[a]] >= score[s[b]])
        /\ \A e \in elements \ Range(s) : \A a \in 1 .. n : score[s[a]] >= score[e]}

Start(queries) == [s \in DOMAIN queries |-> [of |-> queries[s], at |-> -1]]

\* _select_topk; the first layer has no corrections to add yet.
SelectQueries ==
    /\ pc = "image"
    /\ content' \in [Candidate -> Scores] /\ rank' \in [Candidate -> Scores]
    /\ IF decoder.num_queries > Cardinality(Candidate)
       THEN pc' = "crashed" /\ UNCHANGED <<rows, selected>>
       ELSE \E queries \in TopK(Candidate, content', decoder.num_queries) :
              /\ selected' = queries
              /\ rows' = [output |-> Start(queries), output_detach |-> Start(queries),
                          corners |-> Start(queries), refs |-> Start(queries),
                          initial |-> Start(queries)]
              /\ pc' = "layer"
    /\ i' = 0
    /\ UNCHANGED <<args, decoder, meta, out>>

\* The row module n makes from rows of this layer and rows of the one before.
Made(n, now, before) ==
    IF /\ n = i /\ \A r \in now : r.at = i
       /\ \A r \in before : r.at = i - 1
       /\ \E c \in Candidate : \A r \in now \cup before : r.of = c
    THEN [of |-> (CHOOSE r \in now \cup before : TRUE).of, at |-> i]
    ELSE Garbage

Slots == DOMAIN rows.output
Output == [s \in Slots |-> Made(decoder.layers[i], {}, {rows.output[s], rows.refs[s]})]
\* pre_bboxes, which every layer refines
Initial == IF i = 0 THEN [s \in Slots |-> Made(0, {Output[s]}, {rows.refs[s]})] ELSE rows.initial
Corners ==
    [s \in Slots |->
        Made(decoder.bbox_head[i], {Output[s]}, {rows.output_detach[s], rows.corners[s]})]
\* distance2bbox takes reg_scale as it is once the model is deployed.
ScaleUsed == IF decoder.project \/ decoder.reg_scale > 0 THEN decoder.reg_scale ELSE -decoder.reg_scale
Boxes ==
    [s \in Slots |->
        IF Initial[s].of = Corners[s].of /\ ScaleUsed > 0 THEN Corners[s] ELSE Garbage]
Logits ==
    [s \in Slots |->
        Made(decoder.lqe[i], {Made(decoder.score_head[i], {Output[s]}, {}), Corners[s]}, {})]

Return ==
    /\ pc = "layer" /\ i \in DOMAIN decoder.layers /\ i = decoder.exit
    /\ out' = [boxes |-> Boxes, logits |-> Logits] /\ pc' = "done"
    /\ UNCHANGED <<args, decoder, meta, content, rank, i, rows, selected>>

Prunes == decoder.cascade # Nothing /\ i = decoder.cascade.k

\* The rows layer k's own head ranks best; a head of another layer ranks them anyhow.
Kept ==
    LET score == [s \in Slots |-> IF decoder.cascade.head = i THEN rank[Output[s].of] ELSE 0]
    IN TopK(Slots, score, decoder.cascade.keep)

Refined == [output |-> Output, output_detach |-> Output, corners |-> Corners, refs |-> Boxes,
            initial |-> Initial]
\* A bug that forgets the initial boxes.
GatherMost(slots) ==
    [t \in DOMAIN Refined |->
        IF t = "initial" THEN SubSeq(Initial, 1, Len(slots))
        ELSE [s \in DOMAIN slots |-> Refined[t][slots[s]]]]
Gather(slots) == [t \in DOMAIN Refined |-> [s \in DOMAIN slots |-> Refined[t][slots[s]]]]

NextLayer ==
    /\ pc = "layer" /\ i \in DOMAIN decoder.layers /\ i # decoder.exit
    /\ \/ Prunes /\ \E slots \in Kept : rows' = Gather(slots)
       \/ ~Prunes /\ rows' = Refined
    /\ i' = i + 1
    /\ UNCHANGED <<pc, args, decoder, meta, content, rank, selected, out>>

Next == ApplySliders \/ Deploy \/ CollectMeta \/ SelectQueries \/ NextLayer \/ Return
Spec == Init /\ [][Next]_vars

-----------------------------------------------------------------------------
(* Properties *)

\* Every value stays in its type: a graph never returns more rows than it starts with.
TypeOK ==
    /\ pc \in {"load", "deploy", "meta", "image", "layer", "done", "refused", "crashed"}
    /\ {args.eval_idx, args.num_queries} \ {Nothing} \subseteq Int
    /\ i \in 0 .. NumLayers /\ content \in [Candidate -> Int] /\ rank \in [Candidate -> Int]
    /\ \A t \in DOMAIN rows : \A s \in DOMAIN rows[t] : rows[t][s] \in Row
    /\ meta # Nothing => meta.num_queries \in 1 .. decoder.num_queries

\* Whatever the sliders, and however the pruned tensors were gathered, the box and the logits of
\* an output row are those the trained heads of the exit layer give one and the same query, every
\* step of which ran the trained layer on that query's own rows (deploy, _cascade_forward).
RowsAreTrained ==
    pc = "done" => \A s \in DOMAIN out.logits :
                      /\ out.logits[s] = out.boxes[s]
                      /\ out.logits[s].of \in Candidate
                      /\ out.logits[s].at = (IF args.eval_idx = Nothing THEN NumLayers - 1 ELSE args.eval_idx)

\* The sidecar counts the rows the graph returns, the queries it starts with and the layers it
\* runs (_collect_meta).
SidecarDescribesGraph ==
    pc = "done" => (/\ Len(out.logits) = meta.num_queries /\ Len(selected) = meta.initial
                    /\ meta.layers = i + 1 /\ meta.eval_idx = i)

\* No query is returned twice, and none that was dropped scored higher than one that was kept:
\* in the encoder, or for the trained head of layer k (patch_cascade).
BestQueriesKept ==
    pc = "done" =>
        LET returned == {out.logits[s].of : s \in DOMAIN out.logits} IN
        /\ Cardinality(returned) = Len(out.logits) /\ returned \subseteq Range(selected)
        /\ \A q \in Range(selected), c \in Candidate \ Range(selected) : content[q] >= content[c]
        /\ \A q \in returned, d \in Range(selected) \ returned : rank[q] >= rank[d]

\* Sliders that were accepted run: forward meets only layers that are there and stops at the
\* exit layer, and fails only for more queries than there are positions ("eval_idx not
\* reached" is not reached).
TooManyQueries == args.num_queries # Nothing /\ args.num_queries > Cardinality(Candidate)
AcceptedSlidersRun ==
    /\ pc = "layer" => i \in DOMAIN decoder.layers /\ i <= decoder.exit
    /\ pc = "crashed" => TooManyQueries
=============================================================================
