----------------------------- MODULE GraphBuild -----------------------------
(***************************************************************************)
(* Building a fusilli Graph: the caller makes input tensors, adds nodes    *)
(* with the functional API, names things, marks outputs, and validates;    *)
(* then the graph emits its MLIR.                                          *)
(*                                                                         *)
(* The builders make up the names that the caller left unset, and every    *)
(* SSA value is named after a tensor, a node, or both.  MLIR has no scopes *)
(* here, so the program is well formed only if validate rejects every      *)
(* graph in which two names would meet.                                    *)
(*                                                                         *)
(* What a graph keeps of a tensor is what emission and the name checks     *)
(* read.  Shapes are left out: the checks that need them may refuse a      *)
(* graph at any validate.  The caller passes tensors of this graph, each   *)
(* for one converted operand of a node unless Repeats, and does not rename *)
(* a tensor that validate has sorted by name: the code declares that       *)
(* undefined.                                                              *)
(***************************************************************************)
EXTENDS AsmEmitter

CONSTANTS
  Plans,    \* the sequences of builder calls that callers follow
  Inputs,   \* Inputs[i]: the tensors tried for the i-th input of the graph
  Names,    \* the names the caller gives to nodes and results
  MaxNodes, \* bound on the nodes of a graph
  Numeral,  \* Numeral[i]: the digits of i
  Repeats   \* the caller may use a tensor twice in one node

Word == STRING
Name == Seq(Word)

CallType == [kind : Name, mode : Word, ins : Seq(Name), outs : Seq(Name)]

AllCalls == UNION {Range(plan) : plan \in Plans}

\* The ports of a node have names, all different, and no prefix that the
\* builders put before the number of a node is the beginning of another.
ASSUME PlanAssumption ==
  /\ Plans \subseteq Seq(CallType)
  /\ \A c \in AllCalls :
       /\ \A i, j \in DOMAIN c.ins : c.ins[i] = c.ins[j] => i = j
       /\ \A i, j \in DOMAIN c.outs : c.outs[i] = c.outs[j] => i = j
       /\ Range(c.ins) \cap Range(c.outs) = {}
       /\ <<>> \notin Range(c.ins) \cup Range(c.outs)
  /\ \A c, d \in AllCalls :
       /\ Len(c.kind) <= Len(d.kind)
       /\ \A i \in DOMAIN c.kind : c.kind[i] = d.kind[i]
       => c.kind = d.kind

ASSUME InputsAssumption ==
  Inputs \in Seq(SUBSET [name : Name, scalar : BOOLEAN, broadcast : BOOLEAN])

ASSUME NamesAssumption == Names \subseteq Name \ {<<>>}

ASSUME BoundAssumption == MaxNodes \in Nat /\ Repeats \in BOOLEAN

ASSUME NumeralAssumption ==
  /\ Numeral \in [0..MaxNodes -> Word]
  /\ \A i, j \in 0..MaxNodes : Numeral[i] = Numeral[j] => i = j

VARIABLES
  tensors,  \* fullGraphInputs_ and fullGraphOutputs_, in order of creation
  nodes,    \* subNodes_
  sorted,   \* fullGraphInputsSorted_ and fullGraphOutputsSorted_
  valid,    \* isValidated_
  edited    \* a tensor or a node was added or renamed since validate succeeded

vars == <<tensors, nodes, sorted, valid, edited>>

(* own says that the caller chose the name, or the name of the node it     *)
(* derives from.                                                           *)
Tensor == [name : Name, own : BOOLEAN, input : BOOLEAN,
           virtual : BOOLEAN, scalar : BOOLEAN, broadcast : BOOLEAN]

\* A node has its tensors at the ports of its call, and they are in the graph.
TypeOK ==
  /\ tensors \in Seq(Tensor)
  /\ nodes \in Seq(Range(nodes))
  /\ Len(nodes) <= MaxNodes
  /\ \A k \in DOMAIN nodes :
       /\ nodes[k].call \in AllCalls
       /\ nodes[k].name \in Name \ {<<>>}
       /\ nodes[k].own \in BOOLEAN
       /\ nodes[k].in  \in [Range(nodes[k].call.ins)  -> DOMAIN tensors]
       /\ nodes[k].out \in [Range(nodes[k].call.outs) -> DOMAIN tensors]
  /\ sorted \subseteq DOMAIN tensors
  /\ valid \in BOOLEAN
  /\ edited \in BOOLEAN

Init ==
  /\ tensors = <<>>
  /\ nodes = <<>>
  /\ sorted = {}
  /\ valid = FALSE
  /\ edited = FALSE

-----------------------------------------------------------------------------
(* Graph::tensor, TensorAttr::setName and setOutput *)

NewTensor(attr) ==
  /\ tensors' = Append(tensors,
       [name |-> attr.name, own |-> TRUE, input |-> TRUE, virtual |-> FALSE,
        scalar |-> attr.scalar, broadcast |-> attr.broadcast])
  /\ edited' = valid
  /\ UNCHANGED <<nodes, sorted, valid>>

SetName(t, name) ==
  /\ t \notin sorted
  /\ tensors' = [tensors EXCEPT ![t].name = name, ![t].own = TRUE]
  /\ edited' = valid
  /\ UNCHANGED <<nodes, sorted, valid>>

SetOutput(t) ==
  /\ ~tensors[t].input
  /\ tensors' = [tensors EXCEPT ![t].virtual = FALSE]
  /\ UNCHANGED <<nodes, sorted, valid, edited>>

-----------------------------------------------------------------------------
(* The builders.  A call is the kind of node, its mode, the ports at which *)
(* it is given inputs, in the order in which it names them, and the        *)
(* outputs it makes.                                                       *)

Call(kind, mode, ins, outs) == [kind |-> kind, mode |-> mode, ins |-> ins, outs |-> outs]

ConvFPropCall == Call(<<"conv", "fprop">>, "", <<<<"X">>, <<"W">>>>, <<<<"Y">>>>)
ConvWGradCall == Call(<<"conv", "wgrad">>, "", <<<<"DY">>, <<"X">>>>, <<<<"DW">>>>)
ConvDGradCall == Call(<<"conv", "dgrad">>, "", <<<<"DY">>, <<"W">>>>, <<<<"DX">>>>)

\* opt: those of SCALE, BIAS, MEAN and VAR that are given
BatchNormCall(training, opt) ==
  Call(<<"batchnorm">>, "", <<<<"X">>>> \o opt \o <<<<"EPSILON">>, <<"MOMENTUM">>>>,
       <<<<"Y">>>> \o IF training THEN <<<<"SAVED", "MEAN">>, <<"SAVED", "INV", "VARIANCE">>>>
                     ELSE <<>>)

LayerNormCall(training, opt) ==
  Call(<<"layernorm">>, "", <<<<"X">>>> \o opt \o <<<<"EPSILON">>>>,
       <<<<"Y">>>> \o IF training THEN <<<<"MEAN">>, <<"INV", "VARIANCE">>>> ELSE <<>>)

RmsNormCall(training, opt) ==
  Call(<<"rmsnorm">>, "", <<<<"X">>>> \o opt \o <<<<"EPSILON">>>>,
       <<<<"Y">>>> \o IF training THEN <<<<"INV", "RMS">>>> ELSE <<>>)

MatmulCall == Call(<<"matmul">>, "", <<<<"A">>, <<"B">>>>, <<<<"C">>>>)

PointwiseCall(mode, arity) ==
  Call(<<"pointwise">>, mode,
       SubSeq(<<<<"IN", "0">>, <<"IN", "1">>, <<"IN", "2">>>>, 1, arity), <<<<"OUT", "0">>>>)

ReductionCall(mode) == Call(<<"reduction">>, mode, <<<<"X">>>>, <<<<"Y">>>>)

SdpaCall(opt) ==
  Call(<<"sdpa">>, "", <<<<"Q">>, <<"K">>, <<"V">>>> \o opt, <<<<"O">>>>)

CustomOpCall(ins, outs) ==
  Call(<<"custom", "op">>, "",
       SubSeq(<<<<"IN", "0">>, <<"IN", "1">>, <<"IN", "2">>>>, 1, ins),
       SubSeq(<<<<"OUT", "0">>, <<"OUT", "1">>, <<"OUT", "2">>>>, 1, outs))

\* The calls that the nodes admit: the mode of a pointwise node fits the number of its
\* inputs, and a custom op has inputs and outputs.
Unary   == {"Unary", "Identity", "Elu", "Gelu", "Softplus", "Swish"}
Binary  == {"Binary", "SubAdd", "AddSquare", "TanhBwd", "ReluBwd", "GeluBwd", "SwishBwd"}
Reduced == {"Keepdim", "KeepdimDtype", "Norm1", "Norm2", "AbsAmax", "Mul", "MulNoZeros"}

BuilderCalls ==
  LET channel == {<<"SCALE">>, <<"BIAS">>, <<"MEAN">>, <<"VAR">>}
  IN  {ConvFPropCall, ConvWGradCall, ConvDGradCall, MatmulCall}
        \cup {BatchNormCall(training, opt) : training \in BOOLEAN, opt \in SeqOf(channel, 4)}
        \cup {LayerNormCall(training, opt) : training \in BOOLEAN,
                                            opt \in SeqOf({<<"SCALE">>, <<"BIAS">>}, 2)}
        \cup {RmsNormCall(training, opt) : training \in BOOLEAN, opt \in SeqOf({<<"SCALE">>}, 1)}
        \cup {PointwiseCall(mode, 1) : mode \in Unary}
        \cup {PointwiseCall(mode, 2) : mode \in Binary} \cup {PointwiseCall("Ternary", 3)}
        \cup {ReductionCall(mode) : mode \in Reduced}
        \cup {SdpaCall(opt) : opt \in SeqOf({<<"MASK">>}, 1)}
        \cup {CustomOpCall(ins, outs) : ins \in 1..3, outs \in 1..3}

ASSUME BuildersAssumption == AllCalls \subseteq BuilderCalls

\* Mutant of DefaultName: nodes are counted per graph, but from a stale count.
DefaultNameUncounted(kind) == Append(kind, Numeral[0])

DefaultName(kind) == Append(kind, Numeral[Len(nodes)])

\* The tensors after a builder has named those of args that had no name.
NameInputs(node, call, args) ==
  [t \in DOMAIN tensors |->
     IF tensors[t].name = <<>> /\ \E i \in DOMAIN args : args[i] = t
       THEN LET first == CHOOSE i \in DOMAIN args :
                           args[i] = t /\ \A j \in DOMAIN args : args[j] = t => i <= j
            IN  [tensors[t] EXCEPT !.name = node.name \o call.ins[first], !.own = node.own]
       ELSE tensors[t]]

OutputTensors(node, call) ==
  [k \in DOMAIN call.outs |->
     [name |-> node.name \o call.outs[k], own |-> node.own, input |-> FALSE,
      virtual |-> TRUE, scalar |-> FALSE, broadcast |-> FALSE]]

\* Mutant of PortMap: the port after, as with a vector of outputs counted from 1.
PortMapShifted(ports, index) ==
  [p \in Range(ports) |-> 1 + index[CHOOSE i \in DOMAIN ports : ports[i] = p]]

PortMap(ports, index) ==
  [p \in Range(ports) |-> index[CHOOSE i \in DOMAIN ports : ports[i] = p]]

\* The inputs that emission converts under the name of the node alone.
ConvertedPorts(call) ==
  {i \in DOMAIN call.ins :
     /\ call.kind # <<"custom", "op">>
     /\ call.ins[i] \notin {<<"EPSILON">>, <<"MOMENTUM">>}
     /\ call.kind = <<"batchnorm">> => call.ins[i] = <<"X">>}

NewNode(call, name, args) ==
  [call |-> call,
   name |-> IF name = <<>> THEN DefaultName(call.kind) ELSE name,
   own  |-> name # <<>>,
   in   |-> PortMap(call.ins, args),
   out  |-> PortMap(call.outs, [k \in DOMAIN call.outs |-> Len(tensors) + k])]

AddNode(call, name, args) ==
  LET node == NewNode(call, name, args)
  IN  /\ Repeats \/ \A i, j \in ConvertedPorts(call) : args[i] = args[j] => i = j
      /\ \A i \in DOMAIN args : tensors[args[i]].name = <<>> => args[i] \notin sorted
      /\ tensors' = NameInputs(node, call, args) \o OutputTensors(node, call)
      /\ nodes' = Append(nodes, node)
      /\ edited' = valid
      /\ UNCHANGED <<sorted, valid>>

-----------------------------------------------------------------------------
(* Graph::validate *)

\* Mutant of UniqueNames: the names of nodes are not among the used symbols.
UniqueTensorNames ==
  \A s, t \in DOMAIN tensors : tensors[s].name = tensors[t].name => s = t

UniqueNames ==
  /\ \A s, t \in DOMAIN tensors : tensors[s].name = tensors[t].name => s = t
  /\ \A k, l \in DOMAIN nodes : nodes[k].name = nodes[l].name => k = l
  /\ \A t \in DOMAIN tensors, k \in DOMAIN nodes : tensors[t].name # nodes[k].name

\* What the nodes check of their operands that does not depend on shapes, or
\* that follows from the rank of a scalar or from a layout check.
Fits(n, p) ==
  LET t == tensors[n.in[p]]
  IN  CASE p \in {<<"EPSILON">>, <<"MOMENTUM">>}            -> t.scalar
        [] n.call.kind = <<"custom", "op">>                      -> ~t.scalar
        [] n.call.kind \in {<<"pointwise">>, <<"reduction">>}    -> TRUE
        [] n.call.kind \in {<<"matmul">>, <<"sdpa">>}            -> ~t.scalar
        [] n.call.kind = <<"batchnorm">> /\ p # <<"X">>          -> ~t.broadcast
        [] OTHER                                            -> ~t.scalar /\ ~t.broadcast

NodeAccepted(n) ==
  /\ \A p \in DOMAIN n.in : Fits(n, p)
  /\ n.call.kind = <<"batchnorm">> /\ <<"SAVED", "MEAN">> \notin DOMAIN n.out
       => {<<"MEAN">>, <<"VAR">>} \subseteq DOMAIN n.in
  /\ n.call.kind = <<"batchnorm">>
       => \A p \in DOMAIN n.in : n.in[p] = n.in[<<"X">>] => p = <<"X">>
  /\ ~(n.call.kind = <<"rmsnorm">> /\ <<"INV", "RMS">> \in DOMAIN n.out)

\* Mutant of SortTensors: the outputs are filled once, when there are none.
SortOutputsOnce ==
  sorted' = sorted \cup {t \in DOMAIN tensors :
                           tensors[t].input \/ \A s \in sorted : tensors[s].input}

SortTensors == sorted' = sorted \cup DOMAIN tensors

Validate ==
  /\ UniqueNames
  /\ SortTensors
  /\ \/ /\ \A k \in DOMAIN nodes : NodeAccepted(nodes[k])
        /\ valid' = TRUE
        /\ edited' = FALSE
     \/ UNCHANGED <<valid, edited>>
  /\ UNCHANGED <<tensors, nodes>>

-----------------------------------------------------------------------------
InputCount == Cardinality({t \in DOMAIN tensors : tensors[t].input})

\* The calls with which some plan goes on from the nodes there are.
NextCalls ==
  LET made == [k \in DOMAIN nodes |-> nodes[k].call]
  IN  {plan[Len(nodes) + 1] : plan \in {p \in Plans : IsStrictPrefix(made, p)}}

Next ==
  \/ InputCount < Len(Inputs) /\ \E attr \in Inputs[InputCount + 1] : NewTensor(attr)
  \/ \E t \in DOMAIN tensors, name \in Names : ~tensors[t].own /\ SetName(t, name)
  \/ \E t \in DOMAIN tensors : SetOutput(t)
  \/ Len(nodes) < MaxNodes /\ \E call \in NextCalls, name \in Names \cup {<<>>} :
       \E args \in [DOMAIN call.ins -> DOMAIN tensors] : AddNode(call, name, args)
  \/ Validate

Spec == Init /\ [][Next]_vars

-----------------------------------------------------------------------------
(* The program of the graph *)

InOrder(set) == FlattenSeq([t \in DOMAIN tensors |-> IF t \in set THEN <<t>> ELSE <<>>])

Resolved(n) ==
  [kind |-> n.call.kind, mode |-> n.call.mode, name |-> n.name,
   in  |-> [p \in DOMAIN n.in  |-> tensors[n.in[p]]],
   out |-> [p \in DOMAIN n.out |-> tensors[n.out[p]]]]

Program ==
  LET ins  == InOrder({t \in sorted : tensors[t].input})
      outs == InOrder({t \in sorted : ~tensors[t].input})
  IN  EmitAsm([i \in DOMAIN ins |-> tensors[ins[i]]],
              [i \in DOMAIN outs |-> tensors[outs[i]]],
              [k \in DOMAIN nodes |-> Resolved(nodes[k])])

\* The graph is as validate accepted it.
Accepted == valid /\ ~edited

Defs(program) == FlattenSeq([i \in DOMAIN program |-> program[i].def])

\* node.h: names are unique "to avoid re-definition of SSA values": no value of
\* the program of an accepted graph is defined twice.
SingleAssignment ==
  Accepted => LET defs == Defs(Program) IN Cardinality(Range(defs)) = Len(defs)

\* Every value is defined before the statement that uses it: the nodes are in
\* topological order and no conversion, constant or literal is forgotten.
DefinedBeforeUse ==
  Accepted => LET program == Program
              IN  \A i \in DOMAIN program :
                    program[i].use \subseteq Range(Defs(SubSeq(program, 1, i - 1)))

\* Each output that is not virtual is an argument of the function and is
\* overwritten, once, at its end, also when it came after a first validate or
\* became an output after the last.
ResultsWritten ==
  Accepted => LET program == Program
              IN  \A t \in DOMAIN tensors : ~tensors[t].input /\ ~tensors[t].virtual =>
                    /\ Alias(tensors[t]) \in Range(program[1].def)
                    /\ Cardinality({i \in DOMAIN program : program[i].def = <<>>
                         /\ program[i].use = {tensors[t].name, Alias(tensors[t])}}) = 1

\* Names that the builders make up never meet: two symbols of one name are the
\* caller's doing, so that a graph in which the caller names nothing is not
\* refused for its names.
DefaultNamesUnique ==
  LET made(x) == ~x.own /\ x.name # <<>>
  IN  /\ \A s, t \in DOMAIN tensors :
           made(tensors[s]) /\ made(tensors[t]) /\ tensors[s].name = tensors[t].name => s = t
      /\ \A k, l \in DOMAIN nodes :
           made(nodes[k]) /\ made(nodes[l]) /\ nodes[k].name = nodes[l].name => k = l
      /\ \A t \in DOMAIN tensors, k \in DOMAIN nodes :
           made(tensors[t]) /\ made(nodes[k]) => tensors[t].name # nodes[k].name
=============================================================================
