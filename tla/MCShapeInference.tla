-------------------------- MODULE MCShapeInference --------------------------
(* Model checking ShapeInference on small graphs of every kind of node, and *)
(* on the programs of samples/.                                             *)
EXTENDS ShapeInference, Samples

\* A graph that no program executes.
Case(nodes, choices) ==
  [io |-> "Half", intermediate |-> "Float", nodes |-> nodes, choices |-> choices,
   pack |-> <<>>]

\* A convolution along one axis.
SmallConv(kind, out, port) == Conv(kind, out, port, <<1>>, <<2>>)

Epsilon == [e |-> {Scalar("Float")}]

Forward ==
  Case(<<SmallConv("fprop", "Y", [X |-> "x", W |-> "w", Y |-> "y"]),
         Binary("ADD", "y", "b", "z")>>,
       [x |-> {Contiguous(<<2, 2, 4>>), ChannelsLast(<<2, 2, 4>>), ChannelsLast(<<2, 4, 3>>)},
        w |-> {ChannelsLast(<<2, 2, 2>>), Contiguous(<<4, 2, 3>>)},
        y |-> {Virtual, Unset, Shape(<<2, 2, 3>>)},
        b |-> {Contiguous(<<1, 2, 1>>), Set(<<2, 2, 3>>, <<0, 1, 0>>)},
        z |-> {Unset, Virtual}])

WeightGradient ==
  Case(<<SmallConv("wgrad", "DW", [X |-> "x", DW |-> "w", DY |-> "y"])>>,
       [x |-> {Contiguous(<<2, 4, 3>>), ChannelsLast(<<2, 2, 4>>)},
        y |-> {Contiguous(<<2, 4, 2>>), ChannelsLast(<<2, 4, 3>>)},
        w |-> {Shape(<<4, 2, 2>>), Shape(<<4, 2, 3>>), ChannelsLast(<<4, 4, 3>>),
               Set(<<4, 2, 2>>, <<1, 4, 8>>)}])

DataGradient ==
  Case(<<SmallConv("dgrad", "DX", [DX |-> "x", W |-> "w", DY |-> "y"])>>,
       [x |-> {Shape(<<2, 4, 3>>), Shape(<<2, 2, 4>>), ChannelsLast(<<2, 2, 4>>)},
        y |-> {Contiguous(<<2, 4, 2>>), ChannelsLast(<<2, 4, 3>>)},
        w |-> {Contiguous(<<4, 2, 2>>), ChannelsLast(<<4, 2, 3>>), Contiguous(<<4, 2, 2, 1>>)}])

ProductReduced ==
  Case(<<Matmul, Reduction("SUM", "c", "r")>>,
       [a |-> {Contiguous(<<2, 2, 3>>), Set(<<2, 2, 3>>, <<6, 1, 2>>), Contiguous(<<1, 2, 3>>),
               Of("Int4", Contiguous(<<1, 2, 3>>)), Of("Half", Contiguous(<<2, 2, 3>>)),
               Set(<<2, 2, 3>>, <<1, 6, 2>>), Set(<<2, 2, 3>>, <<0, 3, 1>>)},
        b |-> {Contiguous(<<2, 3, 2>>), Of("Float", Contiguous(<<2, 3, 2>>)),
               Contiguous(<<4, 3, 1>>)},
        c |-> {Virtual, Unset},
        r |-> {Unset, Shape(<<2, 2, 1>>), Shape(<<1, 2, 2>>)}])

\* The operands of a product are made by another node, whose type they may get.
ProductOf(maker, x) ==
  Case(<<maker, Matmul>>,
       [x |-> x,
        a |-> {Virtual, Unset, [Contiguous(<<2, 2>>) EXCEPT !.virtual = TRUE],
               Of("Half", Virtual)},
        b |-> {Contiguous(<<2, 2>>), Of("Float", Contiguous(<<2, 2>>))},
        c |-> {Unset}])

Elementwise ==
  Case(<<Binary("MUL", "x", "y", "s"), Unary("NEG", "s", "t")>>,
       [x |-> {Set(<<2, 3, 4>>, <<1, 8, 2>>), Set(<<2, 3, 4>>, <<0, 4, 1>>),
               Contiguous(<<2, 1, 4>>), Set(<<2, 3>>, <<1, 2>>)},
        y |-> {Contiguous(<<3, 1>>), Set(<<3, 4>>, <<0, 1>>), Set(<<2, 3>>, <<4, 1>>),
               Scalar("Float")},
        s |-> {Virtual, Unset, Set(<<2, 3, 4>>, <<3, 1, 6>>)},
        t |-> {Unset}])

\* Averages of what is compared, and of what is not.
Average(mode) ==
  Case(<<Binary(mode, "x", "y", "s"), Reduction("AVG", "s", "t")>>,
       [x |-> {Contiguous(<<2, 3>>), Of("Int32", Contiguous(<<2, 3>>))},
        y |-> {Contiguous(<<2, 1>>)},
        s |-> {Virtual, Of("Int32", Virtual), Unset},
        t |-> {Shape(<<2, 1>>), Of("Boolean", Shape(<<2, 1>>))}])

\* Dims that vary, where strides are not those of the dims' order.
Varying ==
  Case(<<Unary("NEG", "x", "y")>>,
       [x |-> {Dynamic({2}, Set(<<2, 3>>, <<1, 2>>)), Dynamic({2}, Set(<<2, 1>>, <<1, 2>>)),
               Dynamic({1, 3}, ChannelsLast(<<2, 3, 4>>)), Dynamic({1}, Set(<<2, 3>>, <<3, 0>>)),
               Dynamic({1}, Set(<<2, 3>>, <<0, 1>>)), Dynamic({1, 2}, Contiguous(<<2, 2, 1>>)),
               Dynamic({3}, Contiguous(<<2, 3>>)), Dynamic({2}, Set(<<2, 3>>, <<1, 0>>))},
        y |-> {Unset, Dynamic({2}, Unset), Dynamic({1, 2}, Unset), Virtual}])

LayerNorm ==
  Case(<<Norm("layernorm", TRUE, {"Y", "MEAN", "INV_VARIANCE"},
              [X |-> "x", SCALE |-> "s", BIAS |-> "b", Y |-> "y",
               MEAN |-> "m", INV_VARIANCE |-> "v"])>>,
       [x |-> {Contiguous(<<2, 3, 2>>), ChannelsLast(<<2, 3, 2>>), Contiguous(<<3, 3, 2, 1>>)},
        s |-> {Unset, Shape(<<1, 3, 2>>), ChannelsLast(<<1, 3, 2>>)},
        b |-> {Unset},
        y |-> {Unset, Virtual, Shape(<<2, 6>>)},
        m |-> {Unset, Set(<<2, 1, 1>>, <<1, 2, 2>>)},
        v |-> {Unset},
        e |-> {Scalar("Float"), Contiguous(<<1>>)}])

RmsTensors ==
  [x |-> {Contiguous(<<2, 3, 2>>), ChannelsLast(<<2, 3, 2>>), Contiguous(<<2, 3>>)},
   s |-> {Unset, Contiguous(<<1, 3, 2>>)},
   y |-> {Virtual, ChannelsLast(<<2, 3, 2>>)},
   z |-> {Unset}] @@ Epsilon

\* Two norms that share their scale.
RmsNorms ==
  Case(<<Norm("rmsnorm", FALSE, {"Y"}, [X |-> "x", SCALE |-> "s", Y |-> "y"]),
         Norm("rmsnorm", FALSE, {"Y"}, [X |-> "y", SCALE |-> "s", Y |-> "z"])>>,
       RmsTensors)

RmsNormTraining ==
  Case(<<Norm("rmsnorm", TRUE, {"Y", "INV_RMS"},
              [X |-> "x", SCALE |-> "s", Y |-> "y", INV_RMS |-> "z"])>>,
       RmsTensors)

TiedLayerNorm ==
  Case(<<Norm("layernorm", FALSE, {"Y"}, [X |-> "x", SCALE |-> "s", Y |-> "y"])>>,
       [x |-> {Contiguous(<<2, 3, 1, 2>>), ChannelsLast(<<2, 1, 2, 2>>)},
        s |-> {Unset}, y |-> {Unset}] @@ Epsilon)

BatchNorm(training) ==
  Case(<<Norm("batchnorm", training,
              IF training THEN {"Y", "SAVED_MEAN", "SAVED_INV_VARIANCE"} ELSE {"Y"},
              [X |-> "x", SCALE |-> "s", Y |-> "y", MOMENTUM |-> "u"]
                @@ IF training THEN [SAVED_MEAN |-> "m", SAVED_INV_VARIANCE |-> "v"]
                   ELSE [MEAN |-> "m", VAR |-> "v"])>>,
       [x |-> {Contiguous(<<2, 3, 2>>), ChannelsLast(<<2, 3, 2>>), ChannelsLast(<<3, 2, 2>>)},
        s |-> {Unset, Contiguous(<<2>>)},
        y |-> {Unset, Contiguous(<<2, 3, 2>>)},
        m |-> {Unset, Set(<<3>>, <<2>>)},
        v |-> {Unset},
        u |-> {Scalar("Float"), Unset}] @@ Epsilon)

Sdpa(gqa) ==
  Case(<<Attention(gqa, FALSE, AttentionPorts(TRUE))>>,
       [q |-> {Contiguous(<<2, 2, 2, 2>>), Set(<<2, 2, 2, 2>>, <<8, 2, 4, 1>>)},
        k |-> {Contiguous(<<2, 1, 3, 2>>), Contiguous(<<2, 2, 3, 2>>)},
        v |-> {Contiguous(<<2, 2, 3, 1>>), Set(<<2, 2, 3, 2>>, <<12, 1, 2, 6>>)},
        mask |-> {Contiguous(<<1, 1, 2, 3>>), Set(<<2, 2, 2, 3>>, <<0, 0, 3, 1>>)},
        o |-> {Unset, Contiguous(<<2, 2, 2, 1>>)}])

Custom ==
  Case(<<CustomOp([X |-> "x", Y |-> "y"])>>,
       [x |-> {Set(<<2, 3>>, <<1, 2>>), Set(<<2, 3>>, <<4, 1>>), Scalar("Float")},
        y |-> {Unset, Contiguous(<<3, 2>>), Of("Float", Contiguous(<<3, 2>>))}])

MCCases ==
  {Forward, WeightGradient, DataGradient, ProductReduced, Elementwise, Varying, LayerNorm,
   TiedLayerNorm, RmsNorms, RmsNormTraining, Custom}
    \cup {ProductOf(maker, {Contiguous(<<2, 2>>)}) :
            maker \in {Unary("NEG", "x", "a"), CustomOp([X |-> "x", Y |-> "a"])}}
    \cup {Average(mode) : mode \in {"ADD", "CMP_EQ"}}
    \cup {BatchNorm(training) : training \in BOOLEAN} \cup {Sdpa(gqa) : gqa \in BOOLEAN}
    \cup Programs
=============================================================================
