---------------------------- MODULE TypeHarmonizer ----------------------------
(***************************************************************************)
(* What the two FP16 converters do to the graph that onnxconverter_common  *)
(* leaves behind: the outputs are made FP32, and every node gets float     *)
(* inputs of one type, by casts or by copies of an initializer.  Strongly  *)
(* typed TensorRT refuses a node that mixes the two.                       *)
(*                                                                         *)
(* A graph is a sequence of nodes in topological order; the name of a      *)
(* tensor is a tuple, which holds that of the tensor it was made of.       *)
(***************************************************************************)
EXTENDS Naturals, Sequences, FiniteSets

CONSTANTS
    Tool,       \* "surgical" (harmonize_blockset) or "fp16" (harmonize_float_types)
    Names,      \* the nodes of the graph in order
    Ops,        \* the operators they may have
    MaxPasses

HarmonizerAssumption ==
    /\ Tool \in {"surgical", "fp16"} /\ MaxPasses \in Nat
    /\ Names \in Seq(STRING \ {"images", "w"}) /\ Len(Names) > 0
    /\ \A j, k \in DOMAIN Names : Names[j] = Names[k] => j = k
    /\ Ops \subseteq {"Mul", "Cast16", "Cast32", "Resize", "Shape"}

Float == {"f16", "f32"}
Image == <<"images">>
Weight == <<"w">>
Tensor(name) == <<name>>

VARIABLES
    graph,        \* the nodes in order
    init,         \* the initializers with their types
    declared,     \* the type the graph declares for its output
    vtype,        \* the types the pass knows
    idx, pending, \* the node it is at, and the casts to insert, with their places
    dup,          \* copies of initializers by initializer and type
    fixed, passes, pc

vars == <<graph, init, declared, vtype, idx, pending, dup, fixed, passes, pc>>

Final(s) == s[Len(s)]
Output == Tensor(Final(Names))
IsCast(op) == op \in {"Cast16", "Cast32"}
CastType(op) == IF op = "Cast16" THEN "f16" ELSE "f32"

\* The types, with one for some more tensors.
Assign(types, tensors, type) ==
    [t \in DOMAIN types \cup tensors |-> IF t \in tensors THEN type ELSE types[t]]

-----------------------------------------------------------------------------
(* What a tensor is at run time: a node computes in the type of its inputs. *)

\* Inputs the operator keeps FP32 whatever the data is: the scales of Resize.
Checked(node) == IF node.op = "Resize" THEN {1} ELSE {1, 2}
Produces(node, type) ==
    CASE IsCast(node.op) -> CastType(node.op)
      [] node.op = "Shape" -> "int"
      [] OTHER -> type

Typed(g, initial) ==
    LET types[n \in 0 .. Len(g)] ==
            IF n = 0 THEN initial
            ELSE LET t == types[n - 1]
                 IN  Assign(t, {g[n].out}, Produces(g[n], t[g[n].ins[1]]))
    IN  types[Len(g)]

Initial == Assign(init, {Image}, "f32")

\* Each node reads what is there before it; the last one makes the output.
NodeAt(n) ==
    LET there == {Image, Weight} \cup {Tensor(Names[j]) : j \in 1 .. n - 1}
        nodes == [op : Ops, block : BOOLEAN, ins : there \X there, out : {Tensor(Names[n])}]
    IN  {node \in nodes : IsCast(node.op) => ~node.block /\ node.ins[1] = node.ins[2]}

AllGraphs ==
    {g \in [DOMAIN Names -> UNION {NodeAt(n) : n \in DOMAIN Names}] :
        \A n \in DOMAIN Names : g[n] \in NodeAt(n)}

\* Integers and floats meet in no node, and the output is a float.
WellTyped(g) ==
    LET t == Typed(g, Initial)
    IN  /\ t[Output] \in Float
        /\ \A n \in DOMAIN g : g[n].op = "Mul" => (t[g[n].ins[1]] = "int" <=> t[g[n].ins[2]] = "int")

Init ==
    /\ init \in [{Weight} -> Float]
    /\ graph \in {g \in AllGraphs : WellTyped(g)}
    /\ declared \in Float
    /\ declared = "f32" => \/ Final(graph).op = "Cast32"
                           \/ Final(graph).op = "Mul" /\ Final(graph).block
    /\ vtype = <<>> /\ idx = 1 /\ pending = <<>> /\ dup = <<>>
    /\ fixed = 0 /\ passes = 0 /\ pc = "outputs"

-----------------------------------------------------------------------------
(* retype_outputs_fp32: a cast to FP16 is turned round, any other producer *)
(* gets a cast behind it.                                                  *)

Inner == <<Final(Names), "fp16out">>
Cast(in, out, type) ==
    [op |-> IF type = "f16" THEN "Cast16" ELSE "Cast32", block |-> FALSE, ins |-> <<in, in>>, out |-> out]

RetypedGraph ==
    LET last == Len(graph) IN
    IF IsCast(graph[last].op) THEN [graph EXCEPT ![last].op = "Cast32"]
    ELSE Append([graph EXCEPT ![last].out = Inner], Cast(Inner, Output, "f32"))

RetypeOutputs ==
    /\ pc = "outputs"
    /\ graph' = IF declared = "f16" THEN RetypedGraph ELSE graph
    /\ declared' = "f32"
    /\ pc' = "begin"
    /\ UNCHANGED <<init, vtype, idx, pending, dup, fixed, passes>>

-----------------------------------------------------------------------------
(* One pass.                                                               *)

\* Where the types come from: from nothing but the inputs, or from ONNX shape inference.
Begin ==
    /\ pc = "begin" /\ passes < MaxPasses
    /\ vtype' = IF Tool = "surgical" THEN Initial ELSE Typed(graph, Initial)
    /\ idx' = 1 /\ pending' = <<>> /\ dup' = <<>> /\ fixed' = 0
    /\ passes' = passes + 1
    /\ pc' = "pass"
    /\ UNCHANGED <<graph, init, declared>>

TypeOf(tensor) == IF tensor \in DOMAIN vtype THEN vtype[tensor] ELSE "int"
FloatInputs(node) == {k \in Checked(node) : TypeOf(node.ins[k]) \in Float}
Target(node) == IF node.block THEN "f32" ELSE "f16"

Mixed(node) == Cardinality({TypeOf(node.ins[k]) : k \in FloatInputs(node)}) = 2
Mismatched(node) == {k \in FloatInputs(node) : TypeOf(node.ins[k]) # Target(node)}

ToFix(node) ==
    IF IsCast(node.op) THEN {}
    ELSE IF Tool = "surgical" THEN Mismatched(node)
    ELSE IF node.op = "Mul" /\ Mixed(node) THEN Mismatched(node) ELSE {}

CastName(in, n) == <<"harm", in, n>>

Copy(in, type) == <<"copy", in, type>>

\* The new input k of a node, n fixes after the start of the pass.
Fixed(node, k, n) ==
    LET in == node.ins[k] IN
    IF in \in DOMAIN init THEN Copy(in, Target(node)) ELSE CastName(in, n)

\* Input 1 is fixed before input 2.
Number(node, k) == fixed + Cardinality({j \in ToFix(node) : j < k})

NewInput(node, k) ==
    IF k \in ToFix(node) THEN Fixed(node, k, Number(node, k)) ELSE node.ins[k]
FixedNode(node) == [node EXCEPT !.ins = <<NewInput(node, 1), NewInput(node, 2)>>]

NeedsCast(node, k) == k \in ToFix(node) /\ node.ins[k] \notin DOMAIN init
CastFor(node, k) ==
    IF NeedsCast(node, k) THEN <<<<idx, Cast(node.ins[k], NewInput(node, k), Target(node))>>>>
    ELSE <<>>
NewCasts(node) == CastFor(node, 1) \o CastFor(node, 2)
NewCopies(node) ==
    {<<node.ins[k], Target(node)>> : k \in {j \in ToFix(node) : node.ins[j] \in DOMAIN init}}

\* A bug that trusts the type the converter had noted down for the output.
Stale(node, known) == IF node.out \in DOMAIN known THEN known[node.out] ELSE TypeOf(node.ins[1])
\* The surgical pass notes what the node will be; the other one keeps what inference said.
Noted(node, known) ==
    IF Tool = "fp16" THEN known[node.out]
    ELSE IF FloatInputs(node) = {} THEN Produces(node, "int") ELSE Produces(node, Target(node))

Visit ==
    /\ pc = "pass" /\ idx \in DOMAIN graph
    /\ LET node == graph[idx]
           casts == NewCasts(node)
           copies == NewCopies(node)
           new == {Copy(c[1], c[2]) : c \in copies} \cup {casts[c][2].out : c \in DOMAIN casts}
           known == Assign(vtype, new, Target(node))
       IN  /\ graph' = [graph EXCEPT ![idx] = FixedNode(node)]
           /\ pending' = pending \o casts
           /\ dup' = [c \in DOMAIN dup \cup copies |-> Copy(c[1], c[2])]
           /\ fixed' = fixed + Cardinality(ToFix(node))
           /\ vtype' = Assign(known, {node.out}, Noted(node, known))
    /\ idx' = idx + 1
    /\ UNCHANGED <<init, declared, passes, pc>>

\* From the last one on, so that the places of the others stay good.
InsertAt(s, n, node) == SubSeq(s, 1, n - 1) \o <<node>> \o SubSeq(s, n, Len(s))
WithCasts(g, casts) ==
    LET inserted[c \in 1 .. Len(casts) + 1] ==
            IF c > Len(casts) THEN g ELSE InsertAt(inserted[c + 1], casts[c][1], casts[c][2])
    IN  inserted[1]

Again == fixed > 0

\* The surgical converter goes on until a pass finds nothing; the other makes one pass.
EndPass ==
    /\ pc = "pass" /\ idx = Len(graph) + 1
    /\ graph' = WithCasts(graph, pending)
    /\ LET made == {dup[d] : d \in DOMAIN dup}
       IN  init' = [t \in DOMAIN init \cup made |-> IF t \in made THEN Final(t) ELSE init[t]]
    /\ pc' = IF Tool = "surgical" /\ Again THEN "begin" ELSE "done"
    /\ UNCHANGED <<declared, vtype, idx, pending, dup, fixed, passes>>

Next == RetypeOutputs \/ Begin \/ Visit \/ EndPass

Spec == Init /\ [][Next]_vars

-----------------------------------------------------------------------------
TypeOK ==
    /\ \A n \in DOMAIN graph : graph[n].op \in Ops \cup {"Cast16", "Cast32"} /\ graph[n].block \in BOOLEAN
    /\ declared \in Float /\ \A t \in DOMAIN init : init[t] \in Float
    /\ \A t \in DOMAIN vtype : vtype[t] \in Float \cup {"int"}
    /\ idx \in 1 .. Len(graph) + 1 /\ fixed <= 2 * Len(Names) /\ passes <= MaxPasses
    /\ pc \in {"outputs", "begin", "pass", "done"}

Runtime == Typed(graph, Initial)
FloatTypes(node) == {Runtime[node.ins[k]] : k \in Checked(node)} \cap Float

\* A finished graph mixes types in no node, so that strongly typed TensorRT takes it
\* (harmonize_blockset, harmonize_float_types).
NoMixedNode ==
    pc = "done" => \A n \in DOMAIN graph : Cardinality(FloatTypes(graph[n])) <= 1

\* Every node of the FP32 island computes in FP32 and no other one does, and the output is
\* FP32, whatever types the converter had left (harmonize_blockset).
IslandIsExact ==
    pc = "done" =>
        /\ Runtime[Output] = "f32"
        /\ \A n \in DOMAIN graph :
               ~IsCast(graph[n].op) => FloatTypes(graph[n]) \subseteq {Target(graph[n])}

Defined(g, t) == DOMAIN t \cup {g[n].out : n \in DOMAIN g}

\* No pass names two tensors alike: the counter in the names starts again in each.
NamesUnique ==
    pc = "done" => /\ \A n, k \in DOMAIN graph : graph[n].out = graph[k].out => n = k
                   /\ \A n \in DOMAIN graph : graph[n].out \notin DOMAIN init

\* Between two passes every node comes after the nodes that feed it.
StillTopological ==
    pc \in {"begin", "done"} => \A n \in DOMAIN graph : \A k \in {1, 2} :
        graph[n].ins[k] \in Defined(SubSeq(graph, 1, n - 1), Initial)

\* The second pass finds nothing, so the loop of main ends.
Converges == pc = "begin" => passes < 2
=============================================================================
