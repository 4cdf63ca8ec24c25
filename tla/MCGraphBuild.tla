---------------------------- MODULE MCGraphBuild ----------------------------
(* Instances of GraphBuild: every kind of node and every template alone or *)
(* behind another node, with inputs that are named or not, broadcast,      *)
(* scalar or neither, and one name that callers give and builders make up. *)
EXTENDS GraphBuild

Channel == <<<<"SCALE">>, <<"BIAS">>, <<"MEAN">>, <<"VAR">>>>

Kinds ==
  {ConvFPropCall, ConvWGradCall, ConvDGradCall, CustomOpCall(2, 2)}
    \cup {BatchNormCall(FALSE, Channel), BatchNormCall(TRUE, <<>>)}
    \cup {LayerNormCall(training, <<>>) : training \in BOOLEAN}
    \cup {RmsNormCall(training, <<>>) : training \in BOOLEAN}
    \cup {PointwiseCall(mode, 1) : mode \in Unary}
    \cup {PointwiseCall(mode, 2) : mode \in Binary}
    \cup {ReductionCall(mode) : mode \in Reduced}

\* The second call of a pair may share operands with the first, or take its
\* results.
MCPlans ==
  {<<call>> : call \in Kinds}
    \cup {<<MatmulCall, call>> :
             call \in {MatmulCall, PointwiseCall("SubAdd", 2), PointwiseCall("Ternary", 3),
                       SdpaCall(<<>>), CustomOpCall(2, 1)}}
    \cup {<<PointwiseCall("Unary", 1), call>> :
             call \in {RmsNormCall(FALSE, <<<<"SCALE">>>>), LayerNormCall(TRUE, <<<<"BIAS">>>>)}}
    \cup {<<CustomOpCall(1, 2), SdpaCall(<<<<"MASK">>>>)>>}

Attr(name, scalar, broadcast) == [name |-> name, scalar |-> scalar, broadcast |-> broadcast]

MCInputs == <<{Attr(<<>>, FALSE, FALSE), Attr(<<"pointwise", "1">>, FALSE, TRUE)},
              {Attr(<<>>, FALSE, FALSE), Attr(<<"a">>, TRUE, FALSE)}>>
MCNames == {<<"pointwise", "1">>}
MCNumeral == [i \in 0..2 |-> <<"0", "1", "2">>[i + 1]]

\* A node that takes an operand twice.
RepeatInputs == <<{Attr(<<>>, FALSE, FALSE)}>>
RepeatPlans == {<<CustomOpCall(2, 1)>>, <<MatmulCall>>, <<ConvFPropCall>>}
=============================================================================
