------------------------------- MODULE Blocklist -------------------------------
(***************************************************************************)
(* build_blocklist: the nodes that convert_fp16_surgical.py keeps FP32.    *)
(* Apart from named scopes these are the nodes that compute the indices of *)
(* the gathers in cross attention, which coord_slice finds with a work     *)
(* list over the tensors.                                                  *)
(*                                                                         *)
(* A graph is a sequence of nodes in topological order, and the output of  *)
(* node n is tensor n; tensor 0 is the input.  The name of a node is the   *)
(* sequence of its components.                                             *)
(***************************************************************************)
EXTENDS Naturals, Sequences, Functions

CONSTANTS
    Size,       \* the number of nodes
    NodeNames,  \* the names they may have, but for what makes them unique
    Slim,       \* --slim
    Fp16Only    \* SURGICAL_FP16_ONLY, as components of names

BlocklistAssumption == Size \in Nat /\ Slim \in BOOLEAN

Ops == {"Gather", "MatMul", "Mul"}
StopOps == {"MatMul", "Gemm", "Softmax", "Conv"}
FdrScopes == {"integral", "lqe_layers", "dec_bbox_head", "pre_bbox_head", "enc_bbox_head"}

VARIABLES
    graph,
    idx,                    \* the node the search for gathers is at
    frontier, seen, out,    \* coord_slice
    block, pc

vars == <<graph, idx, frontier, seen, out, block, pc>>

Nodes == 1 .. Size
Graphs ==
    {g \in [Nodes -> [name : NodeNames, op : Ops, ins : (0 .. Size - 1) \X (0 .. Size - 1)]] :
        \A n \in Nodes : g[n].ins[1] < n /\ g[n].ins[2] < n}

Within(scope, name) == scope \in Range(name)
InDecoder(name) == Within("decoder", name)
IndexedGather(node) == Within("cross_attn", node.name) /\ node.op = "Gather"

Init ==
    /\ graph \in Graphs /\ idx = 1
    /\ frontier = <<>> /\ seen = {} /\ out = {} /\ block = {}
    /\ pc = "gathers"

-----------------------------------------------------------------------------
(* coord_slice                                                             *)

FindGather ==
    /\ pc = "gathers" /\ idx \in Nodes
    /\ frontier' = IF IndexedGather(graph[idx]) THEN Append(frontier, graph[idx].ins[2]) ELSE frontier
    /\ idx' = idx + 1
    /\ UNCHANGED <<graph, seen, out, block, pc>>

AllFound ==
    /\ pc = "gathers" /\ idx \notin Nodes
    /\ pc' = "slice"
    /\ UNCHANGED <<graph, idx, frontier, seen, out, block>>

Passed(p) == p = 0 \/ ~InDecoder(graph[p].name) \/ p \in out

\* A bug that follows the data and not every input.
FirstInput(p) == <<graph[p].ins[1]>>
Inputs(p) == IF graph[p].op \in StopOps THEN <<>> ELSE graph[p].ins

Rest == SubSeq(frontier, 1, Len(frontier) - 1)

\* The tensor is popped from the back of the list; p produces it.
Pop ==
    /\ pc = "slice" /\ frontier # <<>>
    /\ LET p == frontier[Len(frontier)]
           rest == Rest
       IN  /\ seen' = seen \cup {p}
           /\ IF p \in seen \/ Passed(p)
              THEN frontier' = rest /\ UNCHANGED out
              ELSE frontier' = rest \o Inputs(p) /\ out' = out \cup {p}
    /\ UNCHANGED <<graph, idx, block, pc>>

-----------------------------------------------------------------------------
(* build_blocklist                                                         *)

\* Directly under /model/decoder/decoder/ or /model/decoder/.
IsGlueLeaf(name) ==
    \/ Len(name) = 4 /\ SubSeq(name, 1, 3) = <<"model", "decoder", "decoder">>
    \/ Len(name) = 3 /\ SubSeq(name, 1, 2) = <<"model", "decoder">>

Scoped(name) == \E s \in FdrScopes : Within(s, name)

ByScope ==
    {n \in Nodes : Scoped(graph[n].name) \/ (~Slim /\ IsGlueLeaf(graph[n].name))}

\* Everything under the decoder except the named scopes.
Coarse == {n \in Nodes : InDecoder(graph[n].name) /\ \A s \in Fp16Only : ~Within(s, graph[n].name)}

\* Only when a named scope speaks of cross attention is the slice taken back.
BlockFor(slice) ==
    IF Fp16Only = {} THEN ByScope \cup slice
    ELSE Coarse \cup (IF "cross_attn" \in Fp16Only THEN slice ELSE {})

Block ==
    /\ pc = "slice" /\ frontier = <<>>
    /\ block' = BlockFor(out)
    /\ pc' = "done"
    /\ UNCHANGED <<graph, idx, frontier, seen, out>>

Next == FindGather \/ AllFound \/ Pop \/ Block

Spec == Init /\ [][Next]_vars

-----------------------------------------------------------------------------
TypeOK ==
    /\ \A t \in Range(frontier) : t \in 0 .. Size
    /\ seen \subseteq 0 .. Size /\ out \subseteq Nodes /\ block \subseteq Nodes
    /\ out # {} => pc \in {"slice", "done"}
    /\ pc \in {"gathers", "slice", "done"}

\* Node n feeds an index of a gather directly, or by way of a node of s that is no module.
Feeds(n, s) ==
    \E k \in Nodes :
        \/ IndexedGather(graph[k]) /\ graph[k].ins[2] = n
        \/ k \in s /\ graph[k].op \notin StopOps /\ n \in Range(graph[k].ins)
Closed(s) == \A n \in Nodes : InDecoder(graph[n].name) /\ Feeds(n, s) => n \in s

\* The least set of decoder nodes that is closed under what feeds it.
Slice == {n \in Nodes : \A s \in SUBSET Nodes : Closed(s) => n \in s}

\* The work list finds exactly the decoder nodes between an index of a gather and the modules
\* or the rest of the network it comes from (coord_slice).
SliceIsExact == pc = "done" => out = Slice

\* The arithmetic of indices stays FP32, up to and including the module it starts from, also
\* when cross attention is one of the scopes made FP16 by name; whoever names only others
\* answers for what feeds an index from there (coord_slice, build_blocklist).
IndicesStayFp32 ==
    pc = "done" /\ (Fp16Only = {} \/ "cross_attn" \in Fp16Only) => Slice \subseteq block
=============================================================================
