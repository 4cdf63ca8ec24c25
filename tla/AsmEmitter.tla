----------------------------- MODULE AsmEmitter -----------------------------
(***************************************************************************)
(* The MLIR that fusilli emits for a graph, as the SSA program it is: a    *)
(* sequence of statements, each defining values from values.  Types,       *)
(* attribute values and wording are left out; every value the templates    *)
(* name is there, in the order of the templates.                           *)
(*                                                                         *)
(* A name is the sequence of its parts between underscores, so that two    *)
(* names are equal exactly when these sequences are: "%a_matmul_0_perm" is *)
(* <<"a", "matmul", "0", "perm">> and an output's alias, "%a_", is         *)
(* <<"a", "">>.  Lists of ints have two elements.                          *)
(*                                                                         *)
(* A node is given with the tensors at its ports: n.in and n.out are       *)
(* functions from ports to tensors.  A tensor at an optional port that the *)
(* caller left null is not in the domain.                                  *)
(***************************************************************************)
EXTENDS Naturals, SequencesExt

Op(defs, uses) == <<[def |-> defs, use |-> uses]>>
Const(value)   == Op(<<value>>, {})

List(prefix, suffix) ==
  LET item(i) == prefix \o <<"val", i>> \o suffix
  IN  Const(item("0")) \o Const(item("1"))
        \o Op(<<prefix \o suffix>>, {item("0"), item("1")})

Alias(t) == Append(t.name, "")

Converted(t, suffix) == t.name \o suffix \o <<"perm">>

\* Mutant of ToLogical: a broadcast operand is permuted and never expanded.
ToLogicalUnexpanded(t, prefix, suffix) ==
  List(prefix, suffix)
    \o Op(<<t.name \o suffix \o IF t.broadcast THEN <<"perm", "unexpanded">> ELSE <<"perm">>>>,
          {t.name, prefix \o suffix})

\* Physical to logical layout, expanding broadcast dimensions.
ToLogical(t, prefix, suffix) ==
  LET result   == Converted(t, suffix)
      permuted == IF t.broadcast
                    THEN t.name \o suffix \o <<"perm", "unexpanded">> ELSE result
      size     == <<"expand", "size">> \o prefix
      implicit == <<"expand", "implicit">> \o prefix \o suffix
  IN  List(prefix, suffix) \o Op(<<permuted>>, {t.name, prefix \o suffix})
        \o IF t.broadcast
             THEN List(size, suffix) \o Const(implicit)
                    \o Op(<<result>>, {permuted, size \o suffix, implicit})
             ELSE <<>>

\* Logical to physical layout.
ToPhysical(t, prefix, suffix, operand) ==
  List(prefix, suffix) \o Op(<<t.name>>, {operand, prefix \o suffix})

Item(prefix, t, suffix) == Op(<<prefix \o suffix>>, {t.name})

(* What the templates of the nodes share: the conversion of an operand and *)
(* of a result, and the value each leaves or takes.                        *)
Arg(n, p)       == Converted(n.in[p], n.name)
Res(n, p)       == Converted(n.out[p], n.name)
ArgIn(n, p, x)  == ToLogical(n.in[p], <<"permute">> \o x, n.name)
ResOut(n, p, x) == ToPhysical(n.out[p], <<"permute">> \o x, n.name, Res(n, p))

None(x, n)        == <<"none">> \o x \o n.name
OptArg(n, p, x)   == IF p \in DOMAIN n.in THEN Arg(n, p) ELSE None(x, n)
OptArgIn(n, p, x) == IF p \in DOMAIN n.in THEN ArgIn(n, p, x) ELSE Const(None(x, n))

-----------------------------------------------------------------------------
(* Convolutions *)

ConvOperands(n) ==
  {x \o n.name : x \in {<<"bias">>, <<"stride">>, <<"padding">>, <<"dilation">>,
                        <<"transposed">>, <<"output", "padding">>, <<"groups">>}}

ConvAttributes(n) ==
  Const(<<"bias">> \o n.name) \o Const(<<"transposed">> \o n.name)
    \o Const(<<"output", "padding">> \o n.name) \o Const(<<"groups">> \o n.name)
    \o List(<<"stride">>, n.name) \o List(<<"padding">>, n.name)
    \o List(<<"dilation">>, n.name)

ConvFProp(n) ==
  ConvAttributes(n)
    \o ArgIn(n, <<"X">>, <<"X">>) \o ArgIn(n, <<"W">>, <<"W">>)
    \o Op(<<Res(n, <<"Y">>)>>,
          {Arg(n, <<"X">>), Arg(n, <<"W">>)} \cup ConvOperands(n))
    \o ResOut(n, <<"Y">>, <<"Y">>)

\* The empty tensor that stands for the gradient a backward op is to compute.
EmptyTensor(n, p, value) ==
  List(<<"empty", p>>, n.name) \o Const(<<"none", p>> \o n.name)
    \o Const(<<"dtype", p>> \o n.name)
    \o Op(<<value>>, {x \o <<p>> \o n.name : x \in {<<"empty">>, <<"dtype">>, <<"none">>}})

OutputMask(n) ==
  Const(<<"true">> \o n.name) \o Const(<<"false">> \o n.name)
    \o Op(<<<<"output", "mask">> \o n.name>>,
          {<<"true">> \o n.name, <<"false">> \o n.name})

ConvWGrad(n) ==
  LET empty == <<"empty", "w">> \o n.name
  IN  ConvAttributes(n)
        \o ArgIn(n, <<"DY">>, <<"DY">>) \o ArgIn(n, <<"X">>, <<"X">>)
        \o EmptyTensor(n, "DW", empty) \o OutputMask(n)
        \o Op(<<<<"grad", "input">> \o n.name, Res(n, <<"DW">>),
                <<"grad", "bias">> \o n.name>>,
              {Arg(n, <<"DY">>), Arg(n, <<"X">>), empty,
               <<"output", "mask">> \o n.name} \cup ConvOperands(n))
        \o ResOut(n, <<"DW">>, <<"DW">>)

ConvDGrad(n) ==
  LET empty == <<"empty", "x">> \o n.name
  IN  ConvAttributes(n)
        \o ArgIn(n, <<"DY">>, <<"DY">>) \o ArgIn(n, <<"W">>, <<"W">>)
        \o EmptyTensor(n, "DX", empty) \o OutputMask(n)
        \o Op(<<Res(n, <<"DX">>), <<"grad", "weight">> \o n.name,
                <<"grad", "bias">> \o n.name>>,
              {Arg(n, <<"DY">>), empty, Arg(n, <<"W">>),
               <<"output", "mask">> \o n.name} \cup ConvOperands(n))
        \o ResOut(n, <<"DX">>, <<"DX">>)

-----------------------------------------------------------------------------
(* Normalizations *)

\* The channel tensors of a batchnorm are operands as they are.
BatchNorm(n) ==
  LET channel(p, x) == IF p \in DOMAIN n.in THEN n.in[p].name ELSE None(x, n)
      ifNull(p, x)  == IF p \in DOMAIN n.in THEN <<>> ELSE Const(None(x, n))
      training      == <<"SAVED", "MEAN">> \in DOMAIN n.out
      saved         ==
        IF training
          THEN <<Res(n, <<"SAVED", "MEAN">>), Res(n, <<"SAVED", "INV", "VARIANCE">>)>>
          ELSE <<<<"", "infer", "saved", "mean">> \o n.name \o <<"perm">>,
                 <<"", "infer", "saved", "invstd">> \o n.name \o <<"perm">>>>
  IN  Item(<<"eps">>, n.in[<<"EPSILON">>], n.name)
        \o Item(<<"momentum">>, n.in[<<"MOMENTUM">>], n.name)
        \o ArgIn(n, <<"X">>, <<"x">>)
        \o ifNull(<<"SCALE">>, <<"scale">>) \o ifNull(<<"BIAS">>, <<"bias">>)
        \o ifNull(<<"MEAN">>, <<"mean">>) \o ifNull(<<"VAR">>, <<"var">>)
        \o Const(<<"training">> \o n.name)
        \o Op(<<Res(n, <<"Y">>)>> \o saved,
              {Arg(n, <<"X">>), channel(<<"SCALE">>, <<"scale">>),
               channel(<<"BIAS">>, <<"bias">>), channel(<<"MEAN">>, <<"mean">>),
               channel(<<"VAR">>, <<"var">>), <<"training">> \o n.name,
               <<"momentum">> \o n.name, <<"eps">> \o n.name})
        \o ResOut(n, <<"Y">>, <<"y">>)
        \o IF training
             THEN ResOut(n, <<"SAVED", "MEAN">>, <<"saved", "mean">>)
                    \o ResOut(n, <<"SAVED", "INV", "VARIANCE">>,
                              <<"saved", "inv", "variance">>)
             ELSE <<>>

LayerNorm(n) ==
  LET training == <<"MEAN">> \in DOMAIN n.out
      operands == {Arg(n, <<"X">>), <<"normalized", "shape">> \o n.name,
                   OptArg(n, <<"SCALE">>, <<"scale">>),
                   OptArg(n, <<"BIAS">>, <<"bias">>), <<"eps">> \o n.name}
      cudnn    == <<"cudnn", "enable">> \o n.name
  IN  List(<<"normalized", "shape">>, n.name)
        \o Item(<<"eps">>, n.in[<<"EPSILON">>], n.name)
        \o ArgIn(n, <<"X">>, <<"x">>) \o OptArgIn(n, <<"SCALE">>, <<"scale">>)
        \o OptArgIn(n, <<"BIAS">>, <<"bias">>)
        \o IF training
             THEN Op(<<Res(n, <<"Y">>), Res(n, <<"MEAN">>),
                       Res(n, <<"INV", "VARIANCE">>)>>, operands)
                    \o ResOut(n, <<"Y">>, <<"y">>) \o ResOut(n, <<"MEAN">>, <<"mean">>)
                    \o ResOut(n, <<"INV", "VARIANCE">>, <<"inv", "variance">>)
             ELSE Const(cudnn) \o Op(<<Res(n, <<"Y">>)>>, operands \cup {cudnn})
                    \o ResOut(n, <<"Y">>, <<"y">>)

RmsNorm(n) ==
  List(<<"normalized", "shape">>, n.name)
    \o Item(<<"eps">>, n.in[<<"EPSILON">>], n.name)
    \o ArgIn(n, <<"X">>, <<"x">>) \o OptArgIn(n, <<"SCALE">>, <<"scale">>)
    \o Op(<<Res(n, <<"Y">>)>>,
          {Arg(n, <<"X">>), <<"normalized", "shape">> \o n.name,
           OptArg(n, <<"SCALE">>, <<"scale">>), <<"eps">> \o n.name})
    \o ResOut(n, <<"Y">>, <<"y">>)

-----------------------------------------------------------------------------
(* Matmul and attention *)

Matmul(n) ==
  ArgIn(n, <<"A">>, <<"A">>) \o ArgIn(n, <<"B">>, <<"B">>)
    \o Op(<<Res(n, <<"C">>)>>, {Arg(n, <<"A">>), Arg(n, <<"B">>)})
    \o ResOut(n, <<"C">>, <<"C">>)

Sdpa(n) ==
  LET dropout == <<"dropout">> \o n.name
      causal  == <<"is", "causal">> \o n.name
      scale   == <<"scale">> \o n.name
      gqa     == <<"enable", "gqa">> \o n.name
  IN  ArgIn(n, <<"Q">>, <<"Q">>) \o ArgIn(n, <<"K">>, <<"K">>)
        \o ArgIn(n, <<"V">>, <<"V">>) \o OptArgIn(n, <<"MASK">>, <<"mask">>)
        \o Const(dropout) \o Const(causal) \o Const(scale) \o Const(gqa)
        \o Op(<<Res(n, <<"O">>)>>,
              {Arg(n, <<"Q">>), Arg(n, <<"K">>), Arg(n, <<"V">>),
               OptArg(n, <<"MASK">>, <<"mask">>), dropout, causal, scale, gqa})
        \o ResOut(n, <<"O">>, <<"O">>)

-----------------------------------------------------------------------------
(* Pointwise operations and reductions.  Modes that share a template are   *)
(* one mode here.  A template is a sequence of steps <<value, ins, uses>>: *)
(* the value it defines, <<>> for the result of the node, the positions of *)
(* the operands and the earlier values that it takes.                      *)

Steps(n, template, args, result) ==
  [i \in DOMAIN template |->
     [def |-> <<IF template[i][1] = <<>> THEN result ELSE template[i][1] \o n.name>>,
      use |-> {args[k] : k \in template[i][2]}
                \cup {v \o n.name : v \in template[i][3]}]]

SwishBwd ==
  LET v(x) == <<"swish", "bwd">> \o x
      beta == v(<<"beta">>)   scaled == v(<<"scaled">>)    sig == v(<<"sig">>)
      one  == v(<<"one">>)    minus  == v(<<"one", "minus", "sig">>)
      ds   == v(<<"sig", "ds">>)       betax  == v(<<"betax", "sig", "ds">>)
      alpha == v(<<"alpha">>) dinner == v(<<"dinner">>)
  IN  <<<<beta, {}, {}>>, <<scaled, {2}, {beta}>>, <<sig, {}, {scaled}>>,
        <<one, {}, {}>>, <<minus, {}, {sig, one}>>, <<ds, {}, {sig, minus}>>,
        <<betax, {}, {scaled, ds}>>, <<alpha, {}, {}>>,
        <<dinner, {}, {sig, betax, alpha}>>, <<<<>>, {1}, {dinner}>>>>

\* Constants, then the op on all operands and these constants.
WithConstants(ins, constants) ==
  [i \in DOMAIN constants |-> <<constants[i], {}, {}>>]
    \o <<<<<<>>, ins, {constants[i] : i \in DOMAIN constants}>>>>

PointwiseTemplate(mode) ==
  CASE mode = "Unary"     -> <<<<<<>>, {1}, {}>>>>
    [] mode = "Binary"    -> <<<<<<>>, {1, 2}, {}>>>>
    [] mode = "Ternary"   -> <<<<<<>>, {1, 2, 3}, {}>>>>
    [] mode = "SubAdd"    -> WithConstants({1, 2}, <<<<"alpha">>>>)
    [] mode = "AddSquare" ->
         <<<<<<"add", "square", "sq">>, {2}, {}>>, <<<<"alpha">>, {}, {}>>,
           <<<<>>, {1}, {<<"add", "square", "sq">>, <<"alpha">>}>>>>
    [] mode = "TanhBwd"   ->
         <<<<<<"tanh", "bwd", "y">>, {2}, {}>>, <<<<>>, {1}, {<<"tanh", "bwd", "y">>}>>>>
    [] mode = "Identity"  -> WithConstants({1}, <<<<"none">>>>)
    [] mode = "Elu"       ->
         WithConstants({1}, <<<<"elu", "alpha">>, <<"elu", "scale">>,
                              <<"elu", "input", "scale">>>>)
    [] mode = "ReluBwd"   -> WithConstants({1, 2}, <<<<"relu", "bwd", "threshold">>>>)
    [] mode = "Gelu"      -> WithConstants({1}, <<<<"gelu", "approximate">>>>)
    [] mode = "GeluBwd"   -> WithConstants({1, 2}, <<<<"gelu", "approximate">>>>)
    [] mode = "Softplus"  ->
         WithConstants({1}, <<<<"softplus", "beta">>, <<"softplus", "threshold">>>>)
    [] mode = "Swish"     ->
         <<<<<<"swish", "beta">>, {}, {}>>,
           <<<<"swish", "scaled">>, {1}, {<<"swish", "beta">>}>>,
           <<<<"swish", "sig">>, {}, {<<"swish", "scaled">>}>>,
           <<<<>>, {1}, {<<"swish", "sig">>}>>>>
    [] mode = "SwishBwd"  -> SwishBwd

\* The numbers of those ports that a tensor is at.
Positions(ports, p) ==
  LET number == <<"0", "1", "2", "3">>
  IN  FlattenSeq([i \in 1..4 |->
        IF <<p, number[i]>> \in ports THEN <<number[i]>> ELSE <<>>])

PointwiseOp(n) ==
  LET inputs == Positions(DOMAIN n.in, "IN")
  IN  FlattenSeq([k \in DOMAIN inputs |->
                    ArgIn(n, <<"IN", inputs[k]>>, <<"IN", inputs[k]>>)])
        \o Steps(n, PointwiseTemplate(n.mode),
                 [k \in DOMAIN inputs |-> Arg(n, <<"IN", inputs[k]>>)],
                 Res(n, <<"OUT", "0">>))
        \o ResOut(n, <<"OUT", "0">>, <<"OUT", "0">>)

ReductionTemplate(mode) ==
  LET dims == <<"reduction", "dims">>
      keep == <<<<"keepdim">>, {}, {}>>
      type == <<<<"dtype">>, {}, {}>>
  IN CASE mode = "Keepdim"      -> <<keep, <<<<>>, {1}, {dims, <<"keepdim">>}>>>>
       [] mode = "KeepdimDtype" ->
            <<keep, type, <<<<>>, {1}, {dims, <<"keepdim">>, <<"dtype">>}>>>>
       [] mode = "Norm1"        ->
            <<<<<<"abs">>, {1}, {}>>, keep, type,
              <<<<>>, {}, {<<"abs">>, dims, <<"keepdim">>, <<"dtype">>}>>>>
       [] mode = "Norm2"        ->
            <<<<<<"sq">>, {1}, {}>>, keep, type,
              <<<<"sumsq">>, {}, {<<"sq">>, dims, <<"keepdim">>, <<"dtype">>}>>,
              <<<<>>, {}, {<<"sumsq">>}>>>>
       [] mode = "AbsAmax"      ->
            <<<<<<"abs">>, {1}, {}>>, keep,
              <<<<>>, {}, {<<"abs">>, dims, <<"keepdim">>}>>>>
       [] mode = "Mul"          -> <<type, <<<<>>, {1}, {dims, <<"dtype">>}>>>>
       [] mode = "MulNoZeros"   ->
            <<<<<<"zero">>, {}, {}>>, <<<<"mask">>, {1}, {<<"zero">>}>>,
              <<<<"one">>, {}, {}>>,
              <<<<"fixed">>, {1}, {<<"mask">>, <<"one">>}>>, type,
              <<<<>>, {}, {<<"fixed">>, dims, <<"dtype">>}>>>>

ReductionOp(n) ==
  ArgIn(n, <<"X">>, <<"X">>) \o List(<<"reduction", "dims">>, n.name)
    \o Steps(n, ReductionTemplate(n.mode), <<Arg(n, <<"X">>)>>, Res(n, <<"Y">>))
    \o ResOut(n, <<"Y">>, <<"Y">>)

-----------------------------------------------------------------------------
(* A custom op calls a function of the module on its inputs, which are     *)
(* converted under a suffix of their own.  With several outputs the call   *)
(* defines one multi-result value.                                         *)

CustomOp(n) ==
  LET ins       == Positions(DOMAIN n.in, "IN")
      outs      == Positions(DOMAIN n.out, "OUT")
      in(k)     == n.in[<<"IN", ins[k]>>]
      out(k)    == n.out[<<"OUT", outs[k]>>]
      suffix(k) == Append(n.name, <<"i0", "i1", "i2", "i3">>[k])
      result    == IF Len(outs) = 1 THEN Res(n, <<"OUT", "0">>)
                   ELSE out(1).name \o n.name \o <<"res">>
  IN  FlattenSeq([k \in DOMAIN ins |->
                    ToLogical(in(k), <<"permute", "IN", ins[k]>>, suffix(k))])
        \o Op(<<result>>, {Converted(in(k), suffix(k)) : k \in DOMAIN ins})
        \o FlattenSeq([k \in DOMAIN outs |->
                    ToPhysical(out(k), <<"permute", "OUT", outs[k]>>, n.name, result)])

EmitNode(n) ==
  CASE n.kind = <<"conv", "fprop">> -> ConvFProp(n)
    [] n.kind = <<"conv", "wgrad">> -> ConvWGrad(n)
    [] n.kind = <<"conv", "dgrad">> -> ConvDGrad(n)
    [] n.kind = <<"batchnorm">>     -> BatchNorm(n)
    [] n.kind = <<"layernorm">>     -> LayerNorm(n)
    [] n.kind = <<"rmsnorm">>       -> RmsNorm(n)
    [] n.kind = <<"matmul">>        -> Matmul(n)
    [] n.kind = <<"pointwise">>     -> PointwiseOp(n)
    [] n.kind = <<"reduction">>     -> ReductionOp(n)
    [] n.kind = <<"sdpa">>          -> Sdpa(n)
    [] n.kind = <<"custom", "op">>  -> CustomOp(n)

-----------------------------------------------------------------------------
(* The whole function.  The arguments are the results, aliased, and the    *)
(* inputs; scalars are literals; at the end each result is overwritten.    *)

Signature(inputs, outputs) ==
  FlattenSeq([i \in DOMAIN outputs |->
                IF outputs[i].virtual THEN <<>> ELSE <<Alias(outputs[i])>>])
    \o FlattenSeq([i \in DOMAIN inputs |->
                IF inputs[i].scalar THEN <<>> ELSE <<inputs[i].name>>])

GraphPre(inputs, outputs) ==
  Op(Signature(inputs, outputs), {})
    \o FlattenSeq([i \in DOMAIN inputs |->
                IF inputs[i].scalar THEN Const(inputs[i].name) ELSE <<>>])

GraphPost(outputs) ==
  FlattenSeq([i \in DOMAIN outputs |->
                IF outputs[i].virtual
                  THEN <<>> ELSE Op(<<>>, {outputs[i].name, Alias(outputs[i])})])

EmitAsm(inputs, outputs, nodes) ==
  GraphPre(inputs, outputs) \o FlattenSeq([i \in DOMAIN nodes |-> EmitNode(nodes[i])])
    \o GraphPost(outputs)
=============================================================================
