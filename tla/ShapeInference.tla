--------------------------- MODULE ShapeInference ---------------------------
(***************************************************************************)
(* Graph::validate on dims, strides and data types: every node checks its  *)
(* inputs, infers what the caller left unset and checks the result; at the *)
(* end every tensor must have a type, and a layout the emitter can         *)
(* express.                                                                *)
(*                                                                         *)
(* A graph is a case: its nodes, the two data types of its context, and    *)
(* for each tensor the values that the caller may give it, at first and    *)
(* between two calls of validate.  A node has its kind, its ports (name to *)
(* tensor), the names of its output ports and its parameters; the ports an *)
(* operation cannot do without are there.  pack gives the data type of the *)
(* buffer a program brings for each tensor, and is empty if no program     *)
(* executes the case.                                                      *)
(***************************************************************************)
EXTENDS TensorLayout

CONSTANT Cases

DataTypes ==
  {NotSet, "Half", "BFloat16", "Float", "Double", "Uint8", "Int4", "Int8", "Int16", "Int32",
   "Int64", "Boolean", "FP8E5M2"}

\* What a tensor has.
Tensor == [dim : Seq(Int), stride : Seq(Int), type : DataTypes,
           virtual : BOOLEAN, scalar : BOOLEAN, dynamic : SUBSET Nat]

\* The ports an operation cannot do without.
NeededPorts(kind) ==
  CASE kind = "fprop"     -> {"X", "W", "Y"}
    [] kind = "wgrad"     -> {"DY", "X", "DW"}
    [] kind = "dgrad"     -> {"DY", "W", "DX"}
    [] kind = "matmul"    -> {"A", "B", "C"}
    [] kind = "pointwise" -> {"IN_0", "OUT_0"}
    [] kind = "sdpa"      -> {"Q", "K", "V", "O"}
    [] kind = "custom"    -> {}
    [] OTHER              -> {"X", "Y"}

\* The code divides by the steps of a convolution, and checks no parameter's sign.
ASSUME CasesAssumption == \A c \in Cases :
  /\ {c.io, c.intermediate} \subseteq DataTypes
  /\ \A i \in DOMAIN c.choices : c.choices[i] \subseteq Tensor
  /\ c.nodes \in Seq(Range(c.nodes))
  /\ \A node \in Range(c.nodes) :
       /\ NeededPorts(node.kind) \subseteq DOMAIN node.port
       /\ node.port \in [DOMAIN node.port -> DOMAIN c.choices]
       /\ node.kind \in {"fprop", "wgrad", "dgrad"} =>
            /\ {node.padding, node.dilation} \subseteq Seq(Nat)
            /\ node.step \in Seq(Nat \ {0})

\* The outputs of a node are tensors its builder makes, so that no earlier node has them; a
\* tensor that is virtual is the output of a node.
ASSUME BuiltAssumption == \A c \in Cases : \A k \in DOMAIN c.nodes :
  LET node == c.nodes[k]
      made(n) == {n.port[p] : p \in n.out}
  IN  /\ node.out \subseteq DOMAIN node.port
      /\ node.kind = "pointwise" => "OUT_0" \in node.out
      /\ node.kind = "matmul" => {"A", "B"} \cap node.out = {}
      /\ \A j \in 1..k - 1 : made(node) \cap Range(c.nodes[j].port) = {}
      /\ \A p \in DOMAIN node.port \ node.out :
           (\E t \in c.choices[node.port[p]] : t.virtual) =>
             \E j \in 1..k - 1 : node.port[p] \in made(c.nodes[j])

\* The ports whose dims and strides an operation infers when they are not set.
InferredPorts(node) ==
  CASE node.kind \in {"fprop", "reduction"} -> {"Y"}
    [] node.kind = "wgrad"     -> {"DW"}
    [] node.kind = "dgrad"     -> {"DX"}
    [] node.kind = "matmul"    -> {"C"}
    [] node.kind = "pointwise" -> {"OUT_0"}
    [] node.kind = "sdpa"      -> {"O"}
    [] node.kind = "layernorm" ->
         {"Y", "SCALE", "BIAS", "MEAN", "INV_VARIANCE"} \cap DOMAIN node.port
    [] node.kind = "rmsnorm"   -> {"Y", "SCALE", "INV_RMS"} \cap DOMAIN node.port
    [] node.kind = "batchnorm" -> DOMAIN node.port \ {"X", "EPSILON", "MOMENTUM"}
    [] OTHER                   -> {}

\* The order of a product's operand is asked for as soon as its dims are set, and asserts
\* that its strides are: the caller sets both, unless an earlier node infers them.
ASSUME OperandsAssumption == \A c \in Cases : \A k \in DOMAIN c.nodes :
  c.nodes[k].kind = "matmul" =>
    \A i \in {c.nodes[k].port["A"], c.nodes[k].port["B"]} :
      \/ \E j \in 1..k - 1 : \E p \in InferredPorts(c.nodes[j]) : c.nodes[j].port[p] = i
      \/ \A t \in c.choices[i] : t.dim # <<>> => t.stride # <<>>

VARIABLES
  graph,      \* the case
  tensor,     \* the attributes of each tensor
  at,         \* the node validate is at; 0 when no call is under way
  accepted    \* the last validate succeeded, and no setter was called since

vars == <<graph, tensor, at, accepted>>

Idle == 0

\* Mutant of Concluding: the last node is taken for the end.
ConcludingEarly == Len(graph.nodes)

Concluding == Len(graph.nodes) + 1

-----------------------------------------------------------------------------
(* Helpers.  ts maps tensors to values: those of a state, or of the middle  *)
(* of a step.                                                              *)

Has(node, p)    == p \in DOMAIN node.port
Port(node, ts, p) == ts[node.port[p]]

\* inferDim and inferStride of the tensors at ports: only what is unset, and the
\* dims before the stride.
Fill(node, ts, ports, dim, Stride(_)) ==
  LET filled(t) ==
        LET d == IF t.dim = <<>> THEN dim ELSE t.dim
        IN  [t EXCEPT !.dim = d,
                      !.stride = IF t.stride = <<>> THEN Stride(d) ELSE t.stride]
      ids == {node.port[p] : p \in ports \cap DOMAIN node.port}
  IN  [i \in DOMAIN ts |-> IF i \in ids THEN filled(ts[i]) ELSE ts[i]]

ContextType(t) == IF t.virtual THEN graph.intermediate ELSE graph.io

\* A custom op fills its inputs only.
FilledPorts(node) == IF node.kind = "custom" THEN DOMAIN node.port \ node.out ELSE DOMAIN node.port

\* fillFromContext: tensors without a data type get that of the graph.
FilledFromContext(node, ts) ==
  [i \in DOMAIN ts |->
     IF ts[i].type = NotSet /\ i \in {node.port[p] : p \in FilledPorts(node)}
       THEN [ts[i] EXCEPT !.type = ContextType(ts[i])]
       ELSE ts[i]]

IsScalar(node, ts, p) == Has(node, p) /\ Port(node, ts, p).scalar

Formatted(t) == IsContiguous(t) \/ IsChannelsLast(t)

\* The stride of dim in the format of t.
StrideLike(t, dim) ==
  IF IsContiguous(t) THEN ContiguousStride(dim) ELSE ChannelsLastStride(dim)

-----------------------------------------------------------------------------
(* Convolution, its weight gradient and its data gradient                  *)

\* Integer division of C++, towards zero.
TruncDiv(a, b) == IF a >= 0 THEN a \div b ELSE -((-a) \div b)

\* getConvInferredOutputShape
ConvShape(node, x, w) ==
  [i \in DOMAIN x |->
     CASE i = 1 -> x[1]
       [] i = 2 -> w[1]
       [] OTHER -> 1 + TruncDiv(x[i] - (w[i] - 1) * node.dilation[i - 2]
                                  + 2 * node.padding[i - 2] - 1,
                                node.step[i - 2])]

\* The attributes have one entry per spatial axis of the first input.
ConvInputsValid(node, first, second) ==
  /\ Len(first.dim) >= 3 /\ Len(second.dim) >= 3
  /\ \A s \in {node.padding, node.step, node.dilation} : Len(s) = Len(first.dim) - 2
  /\ Formatted(first) /\ Formatted(second)

\* A filter without channels stops the program, and one with fewer is refused.
GroupsValid(in, out, filter) ==
  /\ filter > 0 /\ in % filter = 0
  /\ in \div filter \in 1..in
  /\ in \div filter <= out
  /\ out % (in \div filter) = 0

ConvResultValid(node, x, w, y, result) ==
  /\ Len(result.dim) >= 3
  /\ y.dim = ConvShape(node, x.dim, w.dim)
  /\ Formatted(result)

ConvFPropPre(node, ts) ==
  LET x == Port(node, ts, "X")
      w == Port(node, ts, "W")
  IN  /\ ConvInputsValid(node, x, w)
      /\ Len(x.dim) = Len(w.dim)
      /\ GroupsValid(x.dim[2], w.dim[1], w.dim[2])

ConvFPropInfer(node, ts) ==
  LET x == Port(node, ts, "X")
  IN  Fill(node, ts, {"Y"}, ConvShape(node, x.dim, Port(node, ts, "W").dim),
           LAMBDA d : StrideLike(x, d))

ConvFPropPost(node, ts) ==
  LET y == Port(node, ts, "Y")
  IN  /\ Len(y.dim) = Len(Port(node, ts, "X").dim)
      /\ ConvResultValid(node, Port(node, ts, "X"), Port(node, ts, "W"), y, y)

ConvWGradPre(node, ts) ==
  LET dy == Port(node, ts, "DY")
      x  == Port(node, ts, "X")
  IN  /\ ConvInputsValid(node, dy, x)
      /\ Len(dy.dim) = Len(x.dim)
      /\ GroupsValid(x.dim[2], dy.dim[2], Port(node, ts, "DW").dim[2])

\* The dims of a gradient depend on the number of groups, and are not inferred.
ConvWGradInfer(node, ts) ==
  Fill(node, ts, {"DW"}, <<>>, LAMBDA d : StrideLike(Port(node, ts, "DY"), d))

ConvWGradPost(node, ts) ==
  LET dw == Port(node, ts, "DW")
  IN  ConvResultValid(node, Port(node, ts, "X"), dw, Port(node, ts, "DY"), dw)

\* The ranks of DY and W are not compared here.
ConvDGradPre(node, ts) ==
  LET w == Port(node, ts, "W")
  IN  /\ ConvInputsValid(node, Port(node, ts, "DY"), w)
      /\ GroupsValid(Port(node, ts, "DX").dim[2], w.dim[1], w.dim[2])

ConvDGradInfer(node, ts) ==
  Fill(node, ts, {"DX"}, <<>>, LAMBDA d : StrideLike(Port(node, ts, "DY"), d))

ConvDGradPost(node, ts) ==
  LET dx == Port(node, ts, "DX")
      dy == Port(node, ts, "DY")
  IN  /\ Len(dy.dim) = Len(dx.dim)
      /\ ConvResultValid(node, dx, Port(node, ts, "W"), dy, dx)

-----------------------------------------------------------------------------
(* Matrix multiplication                                                   *)

BatchAxes(t) == 1..Len(t.dim) - 2

\* checkBatchDims
BatchOutermost(t) == \A i \in BatchAxes(t) : LogicalToPhysical(t)[i] = i

\* getMatmulInferredOutputShape
MatmulShape(a, b) ==
  [i \in DOMAIN a |->
     CASE i = Len(a)     -> b[i]
       [] i = Len(a) - 1 -> a[i]
       [] OTHER          -> IF a[i] >= b[i] THEN a[i] ELSE b[i]]

\* Mutant of MixedFits: a type that is not set yet is nothing to compare.
MixedFitsWhenSet(a, b) ==
  a.type # b.type /\ NotSet \notin {a.type, b.type} => Len(a.dim) = 3 /\ a.dim[1] = b.dim[1]

\* Operands of different types need torch.bmm.  This runs before the context fills in
\* the types.
MixedFits(a, b) == a.type # b.type => Len(a.dim) = 3 /\ a.dim[1] = b.dim[1]

MatmulPre(node, ts) ==
  LET a == Port(node, ts, "A")
      b == Port(node, ts, "B")
      rank == Len(a.dim)
  IN  /\ rank >= 2 /\ Len(b.dim) = rank
      /\ a.dim[rank] = b.dim[rank - 1]
      /\ \A i \in BatchAxes(a) : a.dim[i] % b.dim[i] = 0 \/ b.dim[i] % a.dim[i] = 0
      /\ BatchOutermost(a) /\ BatchOutermost(b)
      /\ MixedFits(a, b)

MatmulInfer(node, ts) ==
  Fill(node, ts, {"C"}, MatmulShape(Port(node, ts, "A").dim, Port(node, ts, "B").dim),
       ContiguousStride)

MatmulPost(node, ts) ==
  LET c == Port(node, ts, "C")
  IN  /\ Len(c.dim) >= 2
      /\ c.dim = MatmulShape(Port(node, ts, "A").dim, Port(node, ts, "B").dim)
      /\ BatchOutermost(c)

-----------------------------------------------------------------------------
(* Pointwise                                                               *)

Operands == <<"IN_0", "IN_1", "IN_2">>

LogicalModes ==
  {"CMP_EQ", "CMP_NEQ", "CMP_LT", "CMP_LE", "CMP_GT", "CMP_GE",
   "LOGICAL_AND", "LOGICAL_NOT", "LOGICAL_OR"}

BinaryModes ==
  (LogicalModes \ {"LOGICAL_NOT"})
    \cup {"ADD", "ADD_SQUARE", "DIV", "MAX_OP", "MIN_OP", "MUL", "SUB"}
    \cup {"GELU_APPROX_TANH_BWD", "GELU_BWD", "RELU_BWD", "SWISH_BWD", "TANH_BWD"}

\* kModeToRequiredInputCount
Required(mode) == CASE mode = "BINARY_SELECT" -> 3 [] mode \in BinaryModes -> 2 [] OTHER -> 1

\* The mode requires the first inputs, and forbids the others.
PointwisePre(node, ts) ==
  \A i \in DOMAIN Operands : Has(node, Operands[i]) <=> i <= Required(node.mode)

PointwiseInputs(node, ts) ==
  [i \in 1..Required(node.mode) |-> Port(node, ts, Operands[i])]

\* Mutant of Forced: the mode does not decide.
ForcedNever(node, ts) == ts

\* Comparisons have Boolean outputs, whatever the caller or the context says.
Forced(node, ts) ==
  IF node.kind = "pointwise" /\ node.mode \in LogicalModes
    THEN [ts EXCEPT ![node.port["OUT_0"]].type = "Boolean"] ELSE ts

\* The dims that OUT_0 has or gets, <<>> when inputs do not broadcast.
PointwiseDim(node, ts) ==
  LET own == Port(node, ts, "OUT_0").dim
  IN  IF own # <<>> THEN own
      ELSE BroadcastShape({t.dim : t \in Range(PointwiseInputs(node, ts))})

\* Strides are those of the first input with the same dims; failing that a virtual
\* output has the format of IN_0, and any other has none.
PointwiseStride(node, ts, dim, order) ==
  LET inputs == PointwiseInputs(node, ts)
      same   == {i \in DOMAIN inputs : inputs[i].dim = dim}
      found  == IF same = {} THEN <<>>
                ELSE inputs[CHOOSE i \in same : \A j \in same : i <= j].stride
  IN  CASE dim = <<>> -> <<>>
        [] found # <<>> -> found
        [] Port(node, ts, "OUT_0").virtual -> StrideFromDim(dim, order)
        [] OTHER -> <<>>

PointwiseInfer(node, ts, order) ==
  Fill(node, ts, {"OUT_0"}, PointwiseDim(node, ts),
       LAMBDA d : PointwiseStride(node, ts, d, order))

\* There is no check of the output after this one.
PointwisePost(node, ts) ==
  /\ Port(node, ts, "OUT_0").dim # <<>>
  /\ Port(node, ts, "OUT_0").stride # <<>>

-----------------------------------------------------------------------------
(* Reduction                                                               *)

ReductionPre(node, ts) == Port(node, ts, "X").dim # <<>>

ReductionInfer(node, ts) ==
  Fill(node, ts, {"Y"}, Port(node, ts, "X").dim, ContiguousStride)

IntegralTypes == {"Int4", "Uint8", "Int8", "Int16", "Int32", "Int64", "Boolean"}

ReductionPost(node, ts) ==
  LET x == Port(node, ts, "X").dim
      y == Port(node, ts, "Y").dim
  IN  /\ Len(x) = Len(y)
      /\ node.mode = "AVG" => \A p \in {"X", "Y"} : Port(node, ts, p).type \notin IntegralTypes
      /\ \A i \in DOMAIN x : y[i] \in {1, x[i]}
      /\ \E i \in DOMAIN x : y[i] = 1 /\ x[i] > 1

-----------------------------------------------------------------------------
(* Layer norm and RMS norm                                                 *)

ScaleDim(dim)      == [dim EXCEPT ![1] = 1]
StatisticsDim(dim) == [Ones(Len(dim)) EXCEPT ![1] = dim[1]]

NormInputsValid(node, ts, scales) ==
  LET x == Port(node, ts, "X")
  IN  /\ Len(x.dim) >= 2
      /\ Formatted(x)
      /\ \A p \in scales \cap DOMAIN node.port :
           LET s == Port(node, ts, p)
           IN  /\ s.dim # <<>> => s.dim = ScaleDim(x.dim)
               /\ s.stride # <<>> => Formatted(s)
      /\ IsScalar(node, ts, "EPSILON")

\* Training computes the statistics, inference has no port for them.
StatisticsPresent(node, statistics) ==
  statistics \cap DOMAIN node.port = IF node.training THEN statistics ELSE {}

\* inferScaleBiasDimAndStride: the scale gets the order of the strides of X.
FillScales(node, ts, scales, order) ==
  Fill(node, ts, scales, ScaleDim(Port(node, ts, "X").dim),
       LAMBDA d : StrideFromDim(d, order))

\* inferDimAndStride
FillLikeX(node, ts) ==
  Fill(node, ts, {"Y"}, Port(node, ts, "X").dim, LAMBDA d : Port(node, ts, "X").stride)

FillStatistics(node, ts, statistics) ==
  LET dim == StatisticsDim(Port(node, ts, "X").dim)
  IN  Fill(node, ts, statistics, dim, LAMBDA d : ContiguousStride(dim))

\* Mutant of NormResultValid: the statistics are not compared.
NormOutputValid(node, ts, statistics) ==
  Port(node, ts, "Y").dim = Port(node, ts, "X").dim /\ Formatted(Port(node, ts, "Y"))

NormResultValid(node, ts, statistics) ==
  LET x == Port(node, ts, "X")
      dim == StatisticsDim(x.dim)
  IN  /\ Port(node, ts, "Y").dim = x.dim
      /\ Formatted(Port(node, ts, "Y"))
      /\ \A p \in statistics \cap DOMAIN node.port :
           Port(node, ts, p).dim = dim /\ Port(node, ts, p).stride = ContiguousStride(dim)

LayerNormPre(node, ts) ==
  NormInputsValid(node, ts, {"SCALE", "BIAS"})
    /\ StatisticsPresent(node, {"MEAN", "INV_VARIANCE"})

LayerNormInfer(node, ts, order) ==
  FillStatistics(node, FillLikeX(node, FillScales(node, ts, {"SCALE", "BIAS"}, order)),
                 {"MEAN", "INV_VARIANCE"})

LayerNormPost(node, ts) == NormResultValid(node, ts, {"MEAN", "INV_VARIANCE"})

RmsNormPre(node, ts) ==
  NormInputsValid(node, ts, {"SCALE"}) /\ StatisticsPresent(node, {"INV_RMS"})

RmsNormInfer(node, ts, order) ==
  FillStatistics(node, FillLikeX(node, FillScales(node, ts, {"SCALE"}, order)), {"INV_RMS"})

\* Training is refused, after everything was inferred.
RmsNormPost(node, ts) == NormResultValid(node, ts, {"INV_RMS"}) /\ ~node.training

-----------------------------------------------------------------------------
(* Batch norm                                                              *)

\* Mutant of ChannelPorts: all the inputs but X.
ChannelAndScalarPorts(node) == DOMAIN node.port \ {"X", "Y"}

ChannelPorts(node) == DOMAIN node.port \ {"X", "Y", "EPSILON", "MOMENTUM"}

BatchNormPre(node, ts) ==
  LET x == Port(node, ts, "X")
      saved == {"SAVED_MEAN", "SAVED_INV_VARIANCE"}
  IN  /\ Len(x.dim) >= 2
      /\ Formatted(x)
      /\ IF node.training THEN saved \subseteq DOMAIN node.port
         ELSE {"MEAN", "VAR"} \subseteq DOMAIN node.port /\ saved \cap DOMAIN node.port = {}
      /\ IsScalar(node, ts, "EPSILON") /\ IsScalar(node, ts, "MOMENTUM")

BatchNormInfer(node, ts) ==
  LET x == Port(node, ts, "X")
  IN  FillLikeX(node, Fill(node, ts, ChannelPorts(node), <<x.dim[2]>>, LAMBDA d : <<1>>))

BatchNormPost(node, ts) ==
  LET x == Port(node, ts, "X")
      y == Port(node, ts, "Y")
  IN  /\ y.dim = x.dim
      /\ Formatted(y)
      /\ \A p \in ChannelPorts(node) :
           Port(node, ts, p).dim = <<x.dim[2]>> /\ Port(node, ts, p).stride = <<1>>

-----------------------------------------------------------------------------
(* Scaled dot product attention                                            *)

SdpaShape(node, ts) ==
  LET q == Port(node, ts, "Q").dim
  IN  <<q[1], q[2], q[3], Port(node, ts, "V").dim[4]>>

SdpaPre(node, ts) ==
  LET q == Port(node, ts, "Q").dim
      k == Port(node, ts, "K").dim
      v == Port(node, ts, "V").dim
  IN  /\ \A p \in {"Q", "K", "V"} : Len(Port(node, ts, p).dim) = 4
      /\ q[1] = k[1] /\ q[1] = v[1] /\ q[4] = k[4] /\ k[3] = v[3]
      /\ \A heads \in {k[2], v[2]} : IF node.gqa THEN q[2] % heads = 0 ELSE q[2] = heads
      /\ Has(node, "MASK") =>
           LET mask == Port(node, ts, "MASK").dim
           IN  /\ ~node.causal
               /\ Len(mask) = 4
               /\ \A i \in 1..4 : mask[i] \in {1, <<q[1], q[2], q[3], k[3]>>[i]}

SdpaInfer(node, ts) ==
  Fill(node, ts, {"O"}, SdpaShape(node, ts),
       LAMBDA d : ContiguousStride(SdpaShape(node, ts)))

SdpaPost(node, ts) == Port(node, ts, "O").dim = SdpaShape(node, ts)

-----------------------------------------------------------------------------
(* The three steps of a node.  A custom op infers no shapes, and takes no   *)
(* scalars.                                                                *)

CustomPre(node, ts) == \A p \in DOMAIN node.port : ~Port(node, ts, p).scalar

PreValid(node, ts) ==
  CASE node.kind = "fprop"    -> ConvFPropPre(node, ts)
    [] node.kind = "wgrad"    -> ConvWGradPre(node, ts)
    [] node.kind = "dgrad"    -> ConvDGradPre(node, ts)
    [] node.kind = "matmul"   -> MatmulPre(node, ts)
    [] node.kind = "pointwise"-> PointwisePre(node, ts)
    [] node.kind = "reduction"-> ReductionPre(node, ts)
    [] node.kind = "layernorm"-> LayerNormPre(node, ts)
    [] node.kind = "rmsnorm"  -> RmsNormPre(node, ts)
    [] node.kind = "batchnorm"-> BatchNormPre(node, ts)
    [] node.kind = "sdpa"     -> SdpaPre(node, ts)
    [] OTHER                  -> CustomPre(node, ts)

\* The stride orders that inference may work with.
Orders(node, ts) ==
  CASE node.kind \in {"layernorm", "rmsnorm"} ->
         OrdersPreserving(Port(node, ts, "X").stride, Len(Port(node, ts, "X").dim))
    [] node.kind = "pointwise" ->
         OrdersPreserving(Port(node, ts, "IN_0").stride, Len(PointwiseDim(node, ts)))
    [] OTHER -> {<<>>}

Inferred(node, before, order) ==
  LET ts == FilledFromContext(node, Forced(node, before))
  IN  CASE node.kind = "fprop"    -> ConvFPropInfer(node, ts)
        [] node.kind = "wgrad"    -> ConvWGradInfer(node, ts)
        [] node.kind = "dgrad"    -> ConvDGradInfer(node, ts)
        [] node.kind = "matmul"   -> MatmulInfer(node, ts)
        [] node.kind = "pointwise"-> PointwiseInfer(node, ts, order)
        [] node.kind = "reduction"-> ReductionInfer(node, ts)
        [] node.kind = "layernorm"-> LayerNormInfer(node, ts, order)
        [] node.kind = "rmsnorm"  -> RmsNormInfer(node, ts, order)
        [] node.kind = "batchnorm"-> BatchNormInfer(node, ts)
        [] node.kind = "sdpa"     -> SdpaInfer(node, ts)
        [] OTHER                  -> ts

PostValid(node, ts) ==
  CASE node.kind = "fprop"    -> ConvFPropPost(node, ts)
    [] node.kind = "wgrad"    -> ConvWGradPost(node, ts)
    [] node.kind = "dgrad"    -> ConvDGradPost(node, ts)
    [] node.kind = "matmul"   -> MatmulPost(node, ts)
    [] node.kind = "pointwise"-> PointwisePost(node, ts)
    [] node.kind = "reduction"-> ReductionPost(node, ts)
    [] node.kind = "layernorm"-> LayerNormPost(node, ts)
    [] node.kind = "rmsnorm"  -> RmsNormPost(node, ts)
    [] node.kind = "batchnorm"-> BatchNormPost(node, ts)
    [] node.kind = "sdpa"     -> SdpaPost(node, ts)
    [] OTHER                  -> TRUE

Outputs == UNION {{node.port[p] : p \in node.out} : node \in Range(graph.nodes)}

\* Mutant of DynamicValid: a dynamic dim may be represented by 1.
DynamicUnit(t) == \A i \in t.dynamic : i \in DOMAIN t.dim /\ t.stride[i] # 0

DynamicValid(t) ==
  /\ \A i \in t.dynamic : i \in DOMAIN t.dim /\ t.stride[i] # 0 /\ t.dim[i] # 1
  /\ t.dynamic # {} => BroadcastAxes(t) = {}

\* TensorAttr::validate of every tensor, and no broadcast on an output.
TensorsValid ==
  /\ \A i \in DOMAIN tensor :
       LET t == tensor[i]
       IN  /\ t.dim # <<>> /\ t.stride # <<>>
           /\ DynamicValid(t) /\ ValidPhysical(t)
           /\ t.type # NotSet
           /\ ~(t.virtual /\ t.scalar)
  /\ \A i \in Outputs : BroadcastAxes(tensor[i]) = {}

-----------------------------------------------------------------------------

Init ==
  /\ graph \in Cases
  /\ tensor \in {t \in [DOMAIN graph.choices -> UNION Range(graph.choices)] :
                   \A i \in DOMAIN t : t[i] \in graph.choices[i]}
  /\ at = Idle
  /\ accepted = FALSE

\* The caller gives no data type again: the one filled in stays.
Typed(t, type) == IF t.type = NotSet THEN [t EXCEPT !.type = type] ELSE t

\* setDim, setStride, setOutput, setDataType on a tensor between two calls.
SetTensor(i) ==
  /\ at = Idle
  /\ \E t \in {Typed(c, tensor[i].type) : c \in graph.choices[i]} \ {tensor[i]} :
       tensor' = [tensor EXCEPT ![i] = t]
  /\ accepted' = FALSE
  /\ UNCHANGED <<graph, at>>

Begin ==
  /\ at = Idle
  /\ at' = 1
  /\ UNCHANGED <<graph, tensor, accepted>>

Refused == at' = Idle /\ accepted' = FALSE

\* preValidateNode refuses.
RefuseNode ==
  /\ at \in DOMAIN graph.nodes
  /\ ~PreValid(graph.nodes[at], tensor)
  /\ Refused
  /\ UNCHANGED <<graph, tensor>>

\* What was inferred stays, also when postValidateNode refuses it.
ValidateNode ==
  /\ at \in DOMAIN graph.nodes
  /\ LET node == graph.nodes[at]
     IN  /\ PreValid(node, tensor)
         /\ \E order \in Orders(node, tensor) : tensor' = Inferred(node, tensor, order)
         /\ IF PostValid(node, tensor') THEN at' = at + 1 /\ UNCHANGED accepted
            ELSE Refused
  /\ UNCHANGED graph

Conclude ==
  /\ at = Concluding
  /\ IF TensorsValid THEN at' = Idle /\ accepted' = TRUE ELSE Refused
  /\ UNCHANGED <<graph, tensor>>

Next ==
  \/ \E i \in DOMAIN tensor : SetTensor(i)
  \/ Begin \/ RefuseNode \/ ValidateNode \/ Conclude

Spec == Init /\ [][Next]_vars

-----------------------------------------------------------------------------
(* Properties                                                              *)

\* The types.  A stride may be of another rank than its dims: the output of a norm that
\* is refused gets the stride of the input.
TypeOK ==
  /\ graph \in Cases
  /\ tensor \in [DOMAIN graph.choices -> Tensor]
  /\ at \in Idle..Concluding
  /\ accepted \in BOOLEAN

\* In an accepted graph, the physical dims and the permutations that the emitter
\* gives to the compiler put every element of every tensor where the strides of the
\* caller's buffer say it is; a tensor with an empty dim has none.
LayoutFaithful ==
  accepted =>
    \A i \in DOMAIN tensor :
      Range(tensor[i].dim) \subseteq Nat \ {0} => Faithful(tensor[i])

\* The number of places of a filter of size w over an axis of size x.
Windows(x, w, dilation, padding, step) ==
  Cardinality({p \in 0..x + 2 * padding :
                 p * step + (w - 1) * dilation < x + 2 * padding})

\* The dims of the three tensors of a convolution.  Nobody compares the rank of the
\* filter with the others in a gradient's node: further axes of the filter are not looked
\* at, and axes that it lacks are read beyond its end.
ConvFollows(node, x, w, y) ==
  LET fits == \A i \in 3..Len(x) :
                w[i] > 0 /\ (w[i] - 1) * node.dilation[i - 2] < x[i] + 2 * node.padding[i - 2]
  IN  /\ Len(x) = Len(y) /\ (node.kind = "fprop" => Len(x) = Len(w))
      /\ y[1] = x[1] /\ y[2] = w[1]
      /\ \E groups \in 1..x[2] : x[2] = groups * w[2] /\ w[1] % groups = 0
      /\ Len(x) <= Len(w) /\ fits =>
           \A i \in 3..Len(x) :
             y[i] = Windows(x[i], w[i], node.dilation[i - 2], node.padding[i - 2],
                            node.step[i - 2])

\* Batch dims broadcast when they are equal or one is 1; the code admits more, and takes
\* the larger one also when the other is 0.
MatmulFollows(a, b, c) ==
  LET broadcast == \A i \in 1..Len(a) - 2 :
                     a[i] = b[i] \/ (1 \in {a[i], b[i]} /\ a[i] > 0 /\ b[i] > 0)
      n == Len(a)
  IN  broadcast =>
        c = BroadcastShape({SubSeq(a, 1, n - 2) \o <<1, 1>>, SubSeq(b, 1, n - 2) \o <<1, 1>>,
                            <<a[n - 1], 1>>, <<b[n]>>})

\* Every axis is kept or reduced to one element, and some axis gets shorter.
ReductionFollows(x, y) ==
  \E reduced \in SUBSET DOMAIN x :
    /\ y = [i \in DOMAIN x |-> IF i \in reduced THEN 1 ELSE x[i]]
    /\ \E i \in reduced : x[i] > 1

\* A batch norm has one value of its parameters and statistics for each channel; the other
\* norms have one scale and one bias for each element of a batch, which all batches share,
\* and one of each statistic for each batch.
NormDim(node, p, x) ==
  CASE p = "Y" -> x
    [] p # "Y" /\ node.kind = "batchnorm" -> <<x[2]>>
    [] p \in {"SCALE", "BIAS"} /\ node.kind # "batchnorm" ->
         [i \in DOMAIN x |-> IF i = 1 THEN 1 ELSE x[i]]
    [] OTHER -> [i \in DOMAIN x |-> IF i = 1 THEN x[1] ELSE 1]

Follows(node, ts) ==
  LET dim(p) == Port(node, ts, p).dim
  IN  CASE node.kind = "fprop"  -> ConvFollows(node, dim("X"), dim("W"), dim("Y"))
        [] node.kind = "wgrad"  -> ConvFollows(node, dim("X"), dim("DW"), dim("DY"))
        [] node.kind = "dgrad"  -> ConvFollows(node, dim("DX"), dim("W"), dim("DY"))
        [] node.kind = "matmul" -> MatmulFollows(dim("A"), dim("B"), dim("C"))
        [] node.kind = "reduction" -> ReductionFollows(dim("X"), dim("Y"))
        [] node.kind \in {"layernorm", "rmsnorm", "batchnorm"} ->
             \A p \in InferredPorts(node) : dim(p) = NormDim(node, p, dim("X"))
        [] node.kind = "sdpa"   -> dim("O") = [dim("Q") EXCEPT ![4] = dim("V")[4]]
        [] OTHER -> TRUE

\* In an accepted graph the outputs of every convolution, product, reduction, norm and
\* attention, the statistics of a norm and its inferred scale and bias have the shapes the
\* operation makes of the shapes of its inputs, also when they were inferred for other
\* inputs before.  Nothing is said of pointwise nodes, whose output the code never compares
\* with the inputs again, and of custom ops, which infer and check no shape.
ShapesFollow == accepted => \A node \in Range(graph.nodes) : Follows(node, tensor)

\* The permutations that the emitter takes from the representative size of a dynamic
\* dim are right for every other size a buffer brings.
RuntimeSizesFaithful ==
  accepted =>
    \A i \in DOMAIN tensor :
      Range(tensor[i].dim) \subseteq Nat \ {0} => RuntimeFaithful(tensor[i], {1, 2, 3})

\* A custom op leaves its outputs without a data type, and a product compares the types
\* of its operands before it fills them in.
CustomFed(node) ==
  \E maker \in Range(graph.nodes) :
    /\ maker.kind = "custom"
    /\ \E p \in maker.out : maker.port[p] \in {node.port["A"], node.port["B"]}

\* An accepted product of two data types is one that torch.bmm computes, also when a
\* type was left to the context, or to the node that made the operand.
MixedProductsBatched ==
  accepted =>
    \A node \in Range(graph.nodes) :
      node.kind = "matmul" /\ ~CustomFed(node) =>
        LET a == Port(node, tensor, "A")
            b == Port(node, tensor, "B")
        IN  a.type # b.type => Len(a.dim) = 3 /\ a.dim[1] = b.dim[1]

\* The buffers that a program brings to execute are those of an accepted graph: one for
\* each tensor outside, none for scalars, with the type that the graph gave the tensor
\* and as many elements as its dims say.
SampleBuffersFit ==
  accepted /\ DOMAIN graph.pack # {} =>
    /\ DOMAIN graph.pack = {i \in DOMAIN tensor : ~tensor[i].virtual /\ ~tensor[i].scalar}
    /\ \A i \in DOMAIN graph.pack :
         /\ graph.pack[i] = tensor[i].type
         /\ Volume(PhysicalDim(tensor[i])) = Volume(tensor[i].dim)

\* Two axes of a norm's input have one stride, or one has none because a dim is 0: the
\* order of the scale's axes is then not that of the input's format.
Tied(stride) ==
  \E i, j \in DOMAIN stride : stride[i] = 0 \/ (i # j /\ stride[i] = stride[j])

TiedNorm ==
  \E node \in Range(graph.nodes) :
    node.kind \in {"layernorm", "rmsnorm"} /\ Tied(Port(node, tensor, "X").stride)

MixedCustomFed ==
  \E node \in Range(graph.nodes) :
    /\ node.kind = "matmul" /\ CustomFed(node)
    /\ Port(node, tensor, "A").type # Port(node, tensor, "B").type

\* An accepted graph that nobody changes is accepted again, with the same tensors:
\* what validate infers passes its own checks.
Revalidates ==
  [][accepted /\ ~TiedNorm /\ ~MixedCustomFed =>
       (accepted' /\ tensor' = tensor) \/ \E i \in DOMAIN tensor : SetTensor(i)]_vars

\* No call of validate refuses a program of samples/, at first or after its outputs were
\* unset again.
SamplesAccepted ==
  [][at # Idle /\ at' = Idle /\ DOMAIN graph.pack # {} => accepted']_vars
=============================================================================
