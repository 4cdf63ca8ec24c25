------------------------------- MODULE Samples -------------------------------
(***************************************************************************)
(* The programs of samples/: the graph that each builds, and the data type *)
(* of the buffer it brings for each tensor.  GENERATE and the calls that   *)
(* execute one builder on several types and shapes make a set of programs. *)
(***************************************************************************)
EXTENDS TensorLayout, TLC

-----------------------------------------------------------------------------
(* Tensors *)

Set(dim, stride) ==
  [dim |-> dim, stride |-> stride, type |-> NotSet, virtual |-> FALSE, scalar |-> FALSE,
   dynamic |-> {}]

Contiguous(dim)    == Set(dim, ContiguousStride(dim))
ChannelsLast(dim)  == Set(dim, ChannelsLastStride(dim))
Shape(dim)         == Set(dim, <<>>)
Unset              == Shape(<<>>)
Virtual            == [Unset EXCEPT !.virtual = TRUE]

\* setDataType, setDynamicDims
Of(type, t)        == [t EXCEPT !.type = type]
Dynamic(axes, t)   == [t EXCEPT !.dynamic = axes]

\* TensorAttr(value)
Scalar(type)       == [Contiguous(<<1>>) EXCEPT !.scalar = TRUE, !.type = type]

-----------------------------------------------------------------------------
(* Nodes *)

\* A convolution along as many axes as the attributes have entries.
Conv(kind, out, port, padding, step) ==
  [kind |-> kind, out |-> {out}, port |-> port,
   padding |-> padding, step |-> step, dilation |-> Ones(Len(step))]

Matmul == [kind |-> "matmul", out |-> {"C"}, port |-> [A |-> "a", B |-> "b", C |-> "c"]]

PointwiseNode(mode, port) ==
  [kind |-> "pointwise", out |-> {"OUT_0"}, mode |-> mode, port |-> port]

Unary(mode, x, y)     == PointwiseNode(mode, [IN_0 |-> x, OUT_0 |-> y])
Binary(mode, x, z, y) == PointwiseNode(mode, [IN_0 |-> x, IN_1 |-> z, OUT_0 |-> y])

Reduction(mode, x, y) ==
  [kind |-> "reduction", out |-> {"Y"}, mode |-> mode, port |-> [X |-> x, Y |-> y]]

\* Every norm takes an epsilon.
Norm(kind, training, out, port) ==
  [kind |-> kind, training |-> training, out |-> out, port |-> port @@ [EPSILON |-> "e"]]

Attention(gqa, causal, port) ==
  [kind |-> "sdpa", out |-> {"O"}, gqa |-> gqa, causal |-> causal, port |-> port]

\* A custom op with one output.
CustomOp(port) == [kind |-> "custom", out |-> {"Y"}, port |-> port]

-----------------------------------------------------------------------------

\* A program gives every tensor its attributes once.
Program(io, intermediate, nodes, given, pack) ==
  [io |-> io, intermediate |-> intermediate, nodes |-> nodes,
   choices |-> [i \in DOMAIN given |-> {given[i]}], pack |-> pack]

\* Buffers of one type, as most programs have.
Buffers(type, tensors) == [i \in tensors |-> type]

OfIoType(io, nodes, given, tensors) ==
  Program(io, NotSet, nodes, given, Buffers(io, tensors))

-----------------------------------------------------------------------------
(* Convolution *)

FProp(padding) ==
  Conv("fprop", "Y", [X |-> "x", W |-> "w", Y |-> "y"], padding, <<1, 1>>)

WGrad(step) ==
  Conv("wgrad", "DW", [X |-> "x", DY |-> "dy", DW |-> "dw"], <<0, 0>>, step)

DGrad == Conv("dgrad", "DX", [DY |-> "dy", W |-> "w", DX |-> "dx"], <<0, 0>>, <<1, 1>>)

BiasReduction == Reduction("SUM", "dy", "db")
BiasGradient  == Of("Float", Set(<<1, 16, 1, 1>>, <<1, 1, 1, 1>>))

conv_fprop_nchw_kcrs ==
  OfIoType("Half", <<FProp(<<0, 0>>)>>,
           [x |-> Contiguous(<<4, 4, 4, 4>>), w |-> Contiguous(<<4, 4, 1, 1>>), y |-> Unset],
           {"x", "w", "y"})

conv_fprop_nchw_kcrs_grouped ==
  OfIoType("Half", <<FProp(<<0, 0>>)>>,
           [x |-> Contiguous(<<16, 128, 64, 64>>), w |-> Contiguous(<<256, 16, 1, 1>>),
            y |-> Unset],
           {"x", "w", "y"})

conv_fprop_nhwc_krsc ==
  OfIoType("Half", <<FProp(<<0, 0>>)>>,
           [x |-> ChannelsLast(<<16, 128, 64, 64>>), w |-> ChannelsLast(<<256, 128, 1, 1>>),
            y |-> Unset],
           {"x", "w", "y"})

conv_fprop_nhwc_krsc_with_pad ==
  OfIoType("Half", <<FProp(<<1, 1>>)>>,
           [x |-> ChannelsLast(<<16, 128, 64, 64>>), w |-> ChannelsLast(<<256, 128, 3, 3>>),
            y |-> Unset],
           {"x", "w", "y"})

Bias == Set(<<1, 256, 1, 1>>, <<256, 1, 256, 256>>)

conv_fprop_with_bias ==
  OfIoType("Half", <<FProp(<<0, 0>>), Binary("ADD", "y", "b", "result")>>,
           [x |-> ChannelsLast(<<16, 128, 64, 64>>), w |-> ChannelsLast(<<256, 128, 1, 1>>),
            y |-> Of("Half", Virtual), b |-> Bias, result |-> Unset],
           {"x", "w", "b", "result"})

conv_fprop_with_relu ==
  OfIoType("Half", <<FProp(<<0, 0>>), Unary("RELU_FWD", "y", "result")>>,
           [x |-> ChannelsLast(<<16, 128, 64, 64>>), w |-> ChannelsLast(<<256, 128, 1, 1>>),
            y |-> Of("Half", Virtual), result |-> Unset],
           {"x", "w", "result"})

BiasAndRelu(w) ==
  OfIoType("Half", <<FProp(<<0, 0>>), Binary("ADD", "y", "b", "bias_result"),
                     Unary("RELU_FWD", "bias_result", "result")>>,
           [x |-> ChannelsLast(<<16, 128, 64, 64>>), w |-> ChannelsLast(w),
            y |-> Of("Half", Virtual), b |-> Bias, bias_result |-> Of("Half", Virtual),
            result |-> Unset],
           {"x", "w", "b", "result"})

conv_fprop_with_relu_and_bias         == BiasAndRelu(<<256, 128, 1, 1>>)
conv_fprop_grouped_with_relu_and_bias == BiasAndRelu(<<256, 16, 1, 1>>)

conv_dgrad_nhwc_krsc ==
  OfIoType("Float", <<DGrad>>,
           [dy |-> ChannelsLast(<<4, 16, 8, 8>>), w |-> Contiguous(<<16, 8, 1, 1>>),
            dx |-> Of("Float", Shape(<<4, 8, 8, 8>>))],
           {"dy", "w", "dx"})

conv_dgrad_nhwc_krsc_bias ==
  OfIoType("Float", <<BiasReduction, DGrad>>,
           [dy |-> ChannelsLast(<<4, 16, 8, 8>>), w |-> Contiguous(<<16, 8, 1, 1>>),
            db |-> BiasGradient, dx |-> Of("Float", Shape(<<4, 8, 8, 8>>))],
           {"dy", "w", "db", "dx"})

conv_dgrad_nhwc_krsc_grouped ==
  OfIoType("Float", <<DGrad>>,
           [dy |-> ChannelsLast(<<4, 32, 8, 8>>), w |-> Contiguous(<<32, 4, 1, 1>>),
            dx |-> Of("Float", Shape(<<4, 16, 8, 8>>))],
           {"dy", "w", "dx"})

conv_wgrad_nhwc_krsc ==
  OfIoType("Float", <<WGrad(<<1, 1>>)>>,
           [dy |-> ChannelsLast(<<4, 16, 8, 8>>), x |-> ChannelsLast(<<4, 8, 8, 8>>),
            dw |-> Of("Float", Shape(<<16, 8, 1, 1>>))],
           {"dy", "x", "dw"})

conv_wgrad_nhwc_krsc_bias ==
  OfIoType("Float", <<BiasReduction, WGrad(<<1, 1>>)>>,
           [dy |-> ChannelsLast(<<4, 16, 8, 8>>), x |-> ChannelsLast(<<4, 8, 8, 8>>),
            db |-> BiasGradient, dw |-> Of("Float", Shape(<<16, 8, 1, 1>>))],
           {"dy", "x", "db", "dw"})

conv_wgrad_nhwc_krsc_grouped ==
  OfIoType("Float", <<WGrad(<<1, 1>>)>>,
           [dy |-> ChannelsLast(<<4, 32, 8, 8>>), x |-> ChannelsLast(<<4, 16, 8, 8>>),
            dw |-> Of("Float", Shape(<<32, 4, 1, 1>>))],
           {"dy", "x", "dw"})

conv_wgrad_nhwc_krsc_grouped_strided ==
  OfIoType("Float", <<WGrad(<<2, 2>>)>>,
           [dy |-> ChannelsLast(<<4, 32, 4, 4>>), x |-> ChannelsLast(<<4, 16, 8, 8>>),
            dw |-> Of("Float", Shape(<<32, 4, 1, 1>>))],
           {"dy", "x", "dw"})

conv_fprop_dynamic_batch ==
  OfIoType("Half", <<FProp(<<0, 0>>)>>,
           [x |-> Dynamic({1}, Contiguous(<<4, 4, 4, 4>>)), w |-> Contiguous(<<4, 4, 1, 1>>),
            y |-> Dynamic({1}, Unset)],
           {"x", "w", "y"})

-----------------------------------------------------------------------------
(* Matrix multiplication *)

MatrixProduct(io, a, b) ==
  OfIoType(io, <<Matmul>>, [a |-> a, b |-> b, c |-> Unset], {"a", "b", "c"})

WithBias(type, a, b, bias) ==
  Program(type, type, <<Matmul, Binary("ADD", "c", "bias", "result")>>,
          [a |-> a, b |-> b, c |-> Virtual, bias |-> bias, result |-> Unset],
          Buffers(type, {"a", "b", "bias", "result"}))

matmul_basic ==
  MatrixProduct("Half", Contiguous(<<64, 128>>), Contiguous(<<128, 256>>))

matmul_transpose_b ==
  MatrixProduct("Half", Contiguous(<<64, 128>>), Set(<<128, 256>>, <<1, 128>>))

matmul_basic_with_bias ==
  WithBias("Half", Contiguous(<<64, 128>>), Contiguous(<<128, 256>>), Contiguous(<<1, 256>>))

matmul_transpose_b_with_bias ==
  WithBias("Half", Contiguous(<<64, 128>>), Set(<<128, 256>>, <<1, 128>>),
           Contiguous(<<1, 256>>))

matmul_batched ==
  MatrixProduct("Float", Contiguous(<<16, 32, 64>>), Contiguous(<<16, 64, 128>>))

matmul_batched_broadcast ==
  MatrixProduct("Float", Contiguous(<<16, 16, 32, 64>>), Set(<<1, 1, 64, 128>>, <<1, 1, 128, 1>>))

matmul_batched_with_bias ==
  WithBias("Float", Contiguous(<<16, 32, 64>>), Contiguous(<<16, 64, 128>>),
           Set(<<1, 1, 128>>, <<128, 128, 1>>))

matmul_batched_broadcast_with_bias ==
  WithBias("Float", Contiguous(<<16, 16, 32, 64>>), Set(<<1, 1, 64, 128>>, <<1, 1, 128, 1>>),
           Set(<<1, 1, 1, 128>>, <<128, 128, 128, 1>>))

matmul_int4_fp16 ==
  Program("Half", NotSet, <<Matmul>>,
          [a |-> Of("Int4", Contiguous(<<1, 4, 8>>)), b |-> Contiguous(<<1, 8, 4>>), c |-> Unset],
          [a |-> "Int4", b |-> "Half", c |-> "Half"])

-----------------------------------------------------------------------------
(* Pointwise *)

Image    == Contiguous(<<2, 16, 64, 64>>)
Channels == Contiguous(<<1, 16, 1, 1>>)

pointwise_add_transposed ==
  OfIoType("Float", <<Binary("ADD", "a", "b", "c")>>,
           [a |-> Contiguous(<<3, 2>>), b |-> Set(<<3, 2>>, <<1, 3>>), c |-> Unset],
           {"a", "b", "c"})

pointwise_scalar_mul ==
  OfIoType("Float", <<Binary("MUL", "x", "alpha", "y")>>,
           [x |-> Image, alpha |-> Scalar("Float"), y |-> Unset], {"x", "y"})

UnaryProgram(type, mode) ==
  OfIoType(type, <<Unary(mode, "x", "y")>>, [x |-> Image, y |-> Unset], {"x", "y"})

pointwise_unary_ops ==
  {UnaryProgram("Int32", mode) : mode \in {"ABS", "IDENTITY", "NEG", "RELU_FWD"}}
    \cup {UnaryProgram("Half", mode) :
            mode \in {"ABS", "CEIL", "ELU_FWD", "ERF", "EXP", "FLOOR", "GELU_APPROX_TANH_FWD",
                      "GELU_FWD", "IDENTITY", "LOG", "NEG", "RECIPROCAL", "RELU_FWD", "RSQRT",
                      "SIGMOID_FWD", "SIN", "SOFTPLUS_FWD", "SQRT", "SWISH_FWD", "TAN",
                      "TANH_FWD"}}

pointwise_bwd ==
  {OfIoType("Half", <<Binary(mode, "dy", "x", "dx")>>, [dy |-> Image, x |-> Image, dx |-> Unset],
            {"dy", "x", "dx"}) :
     mode \in {"GELU_BWD", "GELU_APPROX_TANH_BWD", "RELU_BWD", "SWISH_BWD", "TANH_BWD"}}

pointwise_binary_ops ==
  {OfIoType(type, <<Binary(mode, "a", "b", "c")>>, [a |-> Image, b |-> b, c |-> Unset],
            {"a", "b", "c"}) :
     type \in {"Int32", "Half"}, b \in {Image, Channels},
     mode \in {"ADD", "ADD_SQUARE", "DIV", "MAX_OP", "MIN_OP", "MUL", "SUB"}}

pointwise_ternary_ops ==
  {Program(type, NotSet,
           <<PointwiseNode("BINARY_SELECT",
                       [IN_0 |-> "cond", IN_1 |-> "t", IN_2 |-> "f", OUT_0 |-> "y"])>>,
           [cond |-> Of("Boolean", Image), t |-> Image, f |-> f, y |-> Unset],
           [cond |-> "Boolean", t |-> type, f |-> type, y |-> type]) :
     type \in {"Int32", "Half"}, f \in {Image, Channels}}

\* The buffer of a comparison's result is Boolean, which the program does not set.
pointwise_binary_cmp_ops ==
  {Program(type, NotSet, <<Binary(mode, "a", "b", "y")>>, [a |-> Image, b |-> b, y |-> Unset],
           [a |-> type, b |-> type, y |-> "Boolean"]) :
     type \in {"Int32", "Half"}, b \in {Image, Channels},
     mode \in {"CMP_EQ", "CMP_LT", "CMP_LE", "CMP_GT", "CMP_GE", "CMP_NEQ", "LOGICAL_AND",
               "LOGICAL_OR"}}

pointwise_unary_logical_ops ==
  {Program(type, NotSet, <<Unary("LOGICAL_NOT", "x", "y")>>, [x |-> Image, y |-> Unset],
           [x |-> type, y |-> "Boolean"]) :
     type \in {"Int32", "Half"}}

-----------------------------------------------------------------------------
(* Reduction *)

ReductionModes ==
  {"ADD", "SUM", "MIN", "MAX", "AMAX", "AVG", "NORM1", "NORM2", "MUL", "MUL_NO_ZEROS"}

ReductionProgram(type, mode, axes) ==
  OfIoType(type, <<Reduction(mode, "x", "y")>>,
           [x |-> Dynamic(axes, Contiguous(<<2, 16, 8, 8>>)),
            y |-> Dynamic(axes, Contiguous(<<2, 16, 1, 1>>))],
           {"x", "y"})

reduction_ops ==
  {ReductionProgram(type, mode, {}) : type \in {"Half", "Float"}, mode \in ReductionModes}
    \cup {ReductionProgram("Int32", mode, {}) : mode \in ReductionModes \ {"AVG"}}

-----------------------------------------------------------------------------
(* Norms *)

NormProgram(kind, training, outputs, port, given) ==
  LET scalars == {i \in DOMAIN given : given[i].scalar}
  IN  OfIoType("Float", <<Norm(kind, training, outputs, port)>>, given, DOMAIN given \ scalars)

FloatOutput == Of("Float", Unset)

NCHW(c, h) == Contiguous(<<2, c, h, h>>)
NHWC(c, h) == ChannelsLast(<<2, c, h, h>>)

BatchTensors(x) ==
  [x |-> x, y |-> FloatOutput, m |-> Unset, v |-> Unset,
   e |-> Scalar("Float"), momentum |-> Scalar("Float")]

Affine == [s |-> Unset, b |-> Unset]

InferPorts ==
  [X |-> "x", MEAN |-> "m", VAR |-> "v", Y |-> "y", MOMENTUM |-> "momentum"]

batchnorm_infer_nchw ==
  NormProgram("batchnorm", FALSE, {"Y"}, InferPorts, BatchTensors(NCHW(4, 8)))

BatchInferScaleBias(x) ==
  NormProgram("batchnorm", FALSE, {"Y"}, InferPorts @@ [SCALE |-> "s", BIAS |-> "b"],
              BatchTensors(x) @@ Affine)

batchnorm_infer_nchw_scale_bias == BatchInferScaleBias(NCHW(4, 8))
batchnorm_infer_nhwc_scale_bias == BatchInferScaleBias(NHWC(4, 8))

TrainPorts ==
  [X |-> "x", Y |-> "y", SAVED_MEAN |-> "m", SAVED_INV_VARIANCE |-> "v",
   MOMENTUM |-> "momentum"]

TrainTensors(x) == [m |-> FloatOutput, v |-> FloatOutput] @@ BatchTensors(x)

Saved == {"Y", "SAVED_MEAN", "SAVED_INV_VARIANCE"}

batchnorm_train_nchw ==
  NormProgram("batchnorm", TRUE, Saved, TrainPorts, TrainTensors(NCHW(4, 8)))

batchnorm_train_nchw_scale_bias ==
  NormProgram("batchnorm", TRUE, Saved, TrainPorts @@ [SCALE |-> "s", BIAS |-> "b"],
              TrainTensors(NCHW(4, 8)) @@ Affine)

LayerTensors(x) == [x |-> x, y |-> FloatOutput, e |-> Scalar("Float")]

layernorm_infer_nchw ==
  NormProgram("layernorm", FALSE, {"Y"}, [X |-> "x", Y |-> "y"], LayerTensors(NCHW(3, 32)))

LayerInferScaleBias(x) ==
  NormProgram("layernorm", FALSE, {"Y"}, [X |-> "x", Y |-> "y", SCALE |-> "s", BIAS |-> "b"],
              LayerTensors(x) @@ Affine)

layernorm_infer_nchw_scale_bias == LayerInferScaleBias(NCHW(3, 32))
layernorm_infer_nhwc_scale_bias == LayerInferScaleBias(NHWC(3, 32))

Statistics == [m |-> FloatOutput, v |-> FloatOutput]

LayerTrainPorts == [X |-> "x", Y |-> "y", MEAN |-> "m", INV_VARIANCE |-> "v"]

LayerTrain(port, given) ==
  NormProgram("layernorm", TRUE, {"Y", "MEAN", "INV_VARIANCE"}, port, given @@ Statistics)

layernorm_train_nchw == LayerTrain(LayerTrainPorts, LayerTensors(NCHW(3, 32)))

LayerTrainScaleBias(x) ==
  LayerTrain(LayerTrainPorts @@ [SCALE |-> "s", BIAS |-> "b"], LayerTensors(x) @@ Affine)

layernorm_train_nchw_scale_bias == LayerTrainScaleBias(NCHW(3, 32))
layernorm_train_nhwc_scale_bias == LayerTrainScaleBias(NHWC(3, 32))

rmsnorm_infer_nchw ==
  NormProgram("rmsnorm", FALSE, {"Y"}, [X |-> "x", Y |-> "y"], LayerTensors(NCHW(3, 32)))

RmsScale(x) ==
  NormProgram("rmsnorm", FALSE, {"Y"}, [X |-> "x", Y |-> "y", SCALE |-> "s"],
              LayerTensors(x) @@ [s |-> Unset])

rmsnorm_infer_nchw_scale == RmsScale(NCHW(3, 32))
rmsnorm_infer_nhwc_scale == RmsScale(NHWC(3, 32))

-----------------------------------------------------------------------------
(* Attention, as a node and as a custom op.  The heads are those of the     *)
(* query, the keys and the values; the lengths those of the query and of    *)
(* the keys and values.  Causal attention, the scale and the dropout of a   *)
(* custom op are in its code.                                               *)

setupSdpaGraph(heads, length, masked) ==
  [q |-> Contiguous(<<1, heads[1], length[1], 64>>),
   k |-> Contiguous(<<1, heads[2], length[2], 64>>),
   v |-> Contiguous(<<1, heads[3], length[2], 64>>)]
    @@ IF masked THEN [mask |-> Contiguous(<<1, 1, length[1], length[2]>>)] ELSE <<>>

executeAndVerify(nodes, given) ==
  Program("Half", "Half", nodes, given, Buffers("Half", DOMAIN given))

AttentionPorts(masked) ==
  [Q |-> "q", K |-> "k", V |-> "v", O |-> "o"] @@ IF masked THEN [MASK |-> "mask"] ELSE <<>>

executeSdpa(heads, length, gqa, causal, masked) ==
  executeAndVerify(<<Attention(gqa, causal, AttentionPorts(masked))>>,
                   setupSdpaGraph(heads, length, masked) @@ [o |-> Unset])

CustomPorts(masked) ==
  [X |-> "q", K |-> "k", V |-> "v", Y |-> "o"] @@ IF masked THEN [MASK |-> "mask"] ELSE <<>>

executeSdpaCustomOp(heads, length, masked) ==
  executeAndVerify(<<CustomOp(CustomPorts(masked))>>,
                   setupSdpaGraph(heads, length, masked)
                     @@ [o |-> Of("Half", Contiguous(<<1, heads[1], length[1], 64>>))])

MHA    == <<8, 8, 8>>
Square == <<64, 64>>
Cross  == <<32, 128>>

\* A scale and a dropout change no shape: three of the programs are one here.
sdpa_fprop ==
  {executeSdpa(MHA, Square, FALSE, FALSE, FALSE), executeSdpa(MHA, Square, FALSE, TRUE, FALSE),
   executeSdpa(MHA, Cross, FALSE, FALSE, FALSE),
   executeSdpa(<<8, 2, 2>>, Square, TRUE, FALSE, FALSE),
   executeSdpa(<<8, 4, 2>>, Square, TRUE, FALSE, FALSE),
   executeSdpa(MHA, Square, FALSE, FALSE, TRUE)}

custom_op_sdpa_fprop ==
  {executeSdpaCustomOp(MHA, Square, FALSE), executeSdpaCustomOp(MHA, Cross, FALSE),
   executeSdpaCustomOp(<<8, 2, 2>>, Square, FALSE), executeSdpaCustomOp(<<8, 4, 2>>, Square, FALSE),
   executeSdpaCustomOp(MHA, Square, TRUE)}

sdpa_basic_dynamic_sequence ==
  LET given == [i \in {"q", "k", "v"} |-> Dynamic({3}, Contiguous(<<1, 8, 64, 64>>))]
  IN  executeAndVerify(<<Attention(FALSE, FALSE, AttentionPorts(FALSE))>>,
                       given @@ [o |-> Dynamic({3}, Unset)])

-----------------------------------------------------------------------------
(* Custom ops, other dynamic shapes, programs compiled ahead of time        *)

custom_op_add ==
  {Program(type, type, <<Binary("ADD", "a", "b", "sum"), CustomOp([X |-> "sum", Y |-> "out"])>>,
           [a |-> Contiguous(dim), b |-> Contiguous(dim), sum |-> Virtual,
            out |-> Of(type, Contiguous(dim))],
           Buffers(type, {"a", "b", "out"})) :
     type \in {"Float", "Half"}, dim \in {<<1>>, <<6>>}}

custom_op_dynamic_batch ==
  LET tensors == {"a", "b", "out"}
      rows    == Of("Float", Dynamic({1}, Contiguous(<<4, 8>>)))
  IN  Program("Float", "Float", <<CustomOp([X |-> "a", Z |-> "b", Y |-> "out"])>>,
              [i \in tensors |-> rows], Buffers("Float", tensors))

reduction_min_max_dynamic_batch ==
  {ReductionProgram("Int32", mode, {1}) : mode \in {"MIN", "MAX"}}

aot_add ==
  OfIoType("Int32", <<Binary("ADD", "a", "b", "c")>>,
           [a |-> Contiguous(<<4>>), b |-> Contiguous(<<4>>), c |-> Unset], {"a", "b", "c"})

-----------------------------------------------------------------------------

Convolutions ==
  {conv_fprop_nchw_kcrs, conv_fprop_nchw_kcrs_grouped, conv_fprop_nhwc_krsc,
   conv_fprop_nhwc_krsc_with_pad, conv_fprop_with_bias, conv_fprop_with_relu,
   conv_fprop_with_relu_and_bias, conv_fprop_grouped_with_relu_and_bias,
   conv_fprop_dynamic_batch, conv_dgrad_nhwc_krsc, conv_dgrad_nhwc_krsc_bias,
   conv_dgrad_nhwc_krsc_grouped, conv_wgrad_nhwc_krsc, conv_wgrad_nhwc_krsc_bias,
   conv_wgrad_nhwc_krsc_grouped, conv_wgrad_nhwc_krsc_grouped_strided}

Products ==
  {matmul_basic, matmul_transpose_b, matmul_basic_with_bias, matmul_transpose_b_with_bias,
   matmul_batched, matmul_batched_broadcast, matmul_batched_with_bias,
   matmul_batched_broadcast_with_bias, matmul_int4_fp16}

Elements ==
  {pointwise_add_transposed, pointwise_scalar_mul, aot_add}
    \cup pointwise_unary_ops \cup pointwise_bwd \cup pointwise_binary_ops
    \cup pointwise_ternary_ops \cup pointwise_binary_cmp_ops
    \cup pointwise_unary_logical_ops

Norms ==
  {batchnorm_infer_nchw, batchnorm_infer_nchw_scale_bias, batchnorm_infer_nhwc_scale_bias,
   batchnorm_train_nchw, batchnorm_train_nchw_scale_bias,
   layernorm_infer_nchw, layernorm_infer_nchw_scale_bias, layernorm_infer_nhwc_scale_bias,
   layernorm_train_nchw, layernorm_train_nchw_scale_bias, layernorm_train_nhwc_scale_bias,
   rmsnorm_infer_nchw, rmsnorm_infer_nchw_scale, rmsnorm_infer_nhwc_scale}

Programs ==
  Convolutions \cup Products \cup Elements \cup Norms
    \cup reduction_ops \cup reduction_min_max_dynamic_batch
    \cup sdpa_fprop \cup custom_op_sdpa_fprop \cup {sdpa_basic_dynamic_sequence}
    \cup custom_op_add \cup {custom_op_dynamic_batch}
=============================================================================
