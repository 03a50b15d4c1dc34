----------------------------- MODULE QueryGeometry -----------------------------
(***************************************************************************)
(* The geometry of the initial queries.  build_model lays out anchors and  *)
(* position embeddings for --img-size; a checkpoint brings the anchors it  *)
(* was trained with; forward flattens the feature maps the backbone gives  *)
(* and picks anchors and features by the same positions.                   *)
(*                                                                         *)
(* A tensor over positions is the sequence of the shapes <<h, w>> it was   *)
(* laid out for, level by level; Cells lists its positions.  Which ones    *)
(* score best is left open.                                                *)
(***************************************************************************)
EXTENDS Naturals, Sequences

CONSTANTS
    Strides,      \* feat_strides, the finest level first
    Sizes,        \* --img-size
    Trained,      \* the <<h, w>> checkpoints were trained at, squares
    EpsInverse,   \* 1 / eps
    Nothing

Levels == DOMAIN Strides
\* Every level of the backbone halves the one before it; the models are trained at squares.
GeometryAssumption ==
    /\ Strides \in Seq(Nat \ {0}) /\ Strides # <<>>
    /\ \A l \in 1 .. Len(Strides) - 1 : Strides[l + 1] = 2 * Strides[l]
    /\ Sizes \subseteq Nat \ {0} /\ Trained \subseteq (Nat \ {0}) \X (Nat \ {0})
    /\ \A shape \in Trained : shape[1] = shape[2]
    /\ EpsInverse \in Nat \ {0}

VARIABLES
    pc,
    size,         \* --img-size of this export
    checkpoint,   \* the <<h, w>> of its anchors and of its mask, Nothing where it has none
    anchors, mask,\* the decoder's buffers
    memory,       \* the encoder's output
    query         \* the anchor and the features of a selected query

vars == <<pc, size, checkpoint, anchors, mask, memory, query>>

Init ==
    /\ pc = "build" /\ size \in Sizes
    /\ checkpoint \in {c \in [anchors : Trained \cup {Nothing}, mask : Trained \cup {Nothing}] :
                          Nothing \in {c.anchors, c.mask} \/ c.anchors = c.mask}
    /\ anchors = <<>> /\ mask = <<>> /\ memory = <<>> /\ query = Nothing

-----------------------------------------------------------------------------
(* build_model and load_checkpoint_state *)

\* int(eval_h / s), int(eval_w / s)
AnchorShapes(h, w) == [l \in Levels |-> <<h \div Strides[l], w \div Strides[l]>>]

\* The positions of all levels.
Count(shapes) ==
    LET total[l \in 0 .. Len(shapes)] ==
            IF l = 0 THEN 0 ELSE total[l - 1] + shapes[l][1] * shapes[l][2]
    IN  total[Len(shapes)]

\* A buffer is loaded where the checkpoint has it in the model's shape, and is fresh elsewhere.
Loaded(own, of) ==
    IF of # Nothing /\ Count(AnchorShapes(of[1], of[2])) = Count(own) THEN AnchorShapes(of[1], of[2])
    ELSE own

Build ==
    /\ pc = "build"
    /\ LET own == AnchorShapes(size, size) IN
         anchors' = Loaded(own, checkpoint.anchors) /\ mask' = Loaded(own, checkpoint.mask)
    /\ pc' = "encode"
    /\ UNCHANGED <<size, checkpoint, memory, query>>

-----------------------------------------------------------------------------
(* forward *)

\* A backbone of padded stride-two convolutions rounds up.
FeatureSize(l) == (size + Strides[l] - 1) \div Strides[l]
FeatureShapes == [l \in Levels |-> <<FeatureSize(l), FeatureSize(l)>>]

Top == Len(Strides)
Broadcasts(n, m) == n = m \/ n = 1 \/ m = 1
\* The embedding of the coarsest level is laid out for --img-size as well.
Embeds == Broadcasts((size \div Strides[Top]) * (size \div Strides[Top]),
                     FeatureSize(Top) * FeatureSize(Top))
\* The fusion joins a level with the one above it, enlarged twice.
Fuses == \A l \in Levels \ {Top} : FeatureSize(l) = 2 * FeatureSize(l + 1)

Encode ==
    /\ pc = "encode"
    /\ IF Embeds /\ Fuses THEN pc' = "select" /\ memory' = FeatureShapes
                          ELSE pc' = "failed" /\ memory' = memory
    /\ UNCHANGED <<size, checkpoint, anchors, mask, query>>

Cell(l, shape, y, x) == [level |-> l, y |-> y, x |-> x, h |-> shape[1], w |-> shape[2]]
LevelCells(l, shape) ==
    [k \in 1 .. shape[1] * shape[2] |-> Cell(l, shape, (k - 1) \div shape[2], (k - 1) % shape[2])]
\* A bug that walks the anchors of a level column by column, as the embedding does.
ColumnCells(l, shape) ==
    [k \in 1 .. shape[1] * shape[2] |-> Cell(l, shape, (k - 1) % shape[1], (k - 1) \div shape[1])]
AnchorCells(l, shape) == LevelCells(l, shape)

\* What flatten and concat make of the levels, the finest first.
Flat(levels) ==
    LET joined[l \in 0 .. Len(levels)] == IF l = 0 THEN <<>> ELSE joined[l - 1] \o levels[l]
    IN  joined[Len(levels)]

FlatMemory == Flat([l \in Levels |-> LevelCells(l, memory[l])])
FlatAnchors(shapes) == Flat([l \in Levels |-> AnchorCells(l, shapes[l])])

\* eps < (2 k + 1) / 2 n < 1 - eps
Inside(k, n) == 2 * n < EpsInverse * (2 * k + 1) /\ EpsInverse * (2 * k + 1) < 2 * n * (EpsInverse - 1)
Valid(cell) == Inside(cell.y, cell.h) /\ Inside(cell.x, cell.w)

Masked(p) == ~Valid(FlatAnchors(mask)[p])

Select ==
    /\ pc = "select"
    /\ IF Count(anchors) = Count(memory) /\ Count(mask) = Count(memory)
       THEN /\ \E p \in 1 .. Count(memory) :
                 query' = [anchor |-> FlatAnchors(anchors)[p], features |-> FlatMemory[p],
                           masked |-> Masked(p)]
            /\ pc' = "done"
       ELSE pc' = "failed" /\ query' = query
    /\ UNCHANGED <<size, checkpoint, anchors, mask, memory>>

Next == Build \/ Encode \/ Select
Spec == Init /\ [][Next]_vars

-----------------------------------------------------------------------------
(* Properties *)

\* Every value stays in its type.  A level of a size below its stride is empty.
TypeOK ==
    /\ pc \in {"build", "encode", "select", "done", "failed"} /\ size \in Sizes
    /\ \A t \in {anchors, mask, memory} :
          \A l \in DOMAIN t : t[l] \in Nat \X Nat
    /\ pc # "done" => query = Nothing

\* The anchor of a selected query is centred on the very cell its features come from, on the same
\* level and of that level's size, and the features were zeroed exactly if the cell lies so near
\* the border that its anchor is infinite (_get_decoder_input).
SamePlace(a, b) ==
    /\ a.level = b.level /\ (2 * a.y + 1) * b.h = (2 * b.y + 1) * a.h
    /\ (2 * a.x + 1) * b.w = (2 * b.x + 1) * a.w
QueriesAreAnchored ==
    pc = "done" => (/\ SamePlace(query.anchor, query.features)
                    /\ query.masked = ~Valid(query.features))

\* An image size the strides do not divide never gets through, however the shapes broadcast, and
\* one they divide always does, at the training size and at any other one.
OnlyWholeSizesRun ==
    /\ pc = "done" => \A l \in Levels : size % Strides[l] = 0
    /\ pc = "failed" => \E l \in Levels : size % Strides[l] # 0
=============================================================================
