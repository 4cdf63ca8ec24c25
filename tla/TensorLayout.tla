---------------------------- MODULE TensorLayout ----------------------------
(***************************************************************************)
(* Dims and strides of a tensor, and the permutations between its logical  *)
(* and its physical layout.                                                *)
(*                                                                         *)
(* A tensor t has t.dim and t.stride, sequences of integers, empty when    *)
(* they are not set.  Axes are numbered from 1; the places of a stride     *)
(* order and coordinates from 0.  t.dynamic are the axes whose dim is only *)
(* representative: a buffer may have another.                              *)
(***************************************************************************)
EXTENDS Integers, Sequences, FiniteSets, Functions

\* The data type of a tensor that has none.
NotSet == "NotSet"

Product(f, axes) == FoldFunctionOnSet(LAMBDA x, y : x * y, 1, f, axes)

\* getVolume
Volume(dim) == Product(dim, DOMAIN dim)

Ones(n) == [i \in 1..n |-> 1]

-----------------------------------------------------------------------------
(* Stride orders: order[i] is the place of axis i, counted from the axis    *)
(* that changes fastest.                                                   *)

ContiguousOrder(n) == [i \in 1..n |-> n - i]

ChannelsLastOrder(n) ==
  [i \in 1..n |-> CASE i = 1 -> n - 1 [] i = 2 -> 0 [] OTHER -> n - i + 1]

\* Mutant of OrdersPreserving: the sort is descending, as its comment says.
OrdersReversing(stride, n) ==
  LET axes == DOMAIN stride
  IN  {[i \in 1..n |-> IF i \in axes THEN order[i] ELSE i - 1] :
         order \in {o \in Bijection(axes, 0..Len(stride) - 1) :
                      \A i, j \in axes : stride[i] > stride[j] => o[i] < o[j]}}

\* The orders that preserve the format of a stride.  std::sort may leave axes of
\* one stride in any order; axes that the stride does not have come last.
OrdersPreserving(stride, n) ==
  LET axes == DOMAIN stride
  IN  {[i \in 1..n |-> IF i \in axes THEN order[i] ELSE i - 1] :
         order \in {o \in Bijection(axes, 0..Len(stride) - 1) :
                      \A i, j \in axes : stride[i] < stride[j] => o[i] < o[j]}}

StrideFromDim(dim, order) ==
  [i \in DOMAIN dim |-> Product(dim, {j \in DOMAIN dim : order[j] < order[i]})]

ContiguousStride(dim)   == StrideFromDim(dim, ContiguousOrder(Len(dim)))
ChannelsLastStride(dim) == StrideFromDim(dim, ChannelsLastOrder(Len(dim)))

IsContiguous(t)   == t.stride = ContiguousStride(t.dim)
IsChannelsLast(t) == t.stride = ChannelsLastStride(t.dim)

-----------------------------------------------------------------------------
(* Broadcasting *)

\* The shape to which shapes broadcast, right-aligned, or <<>> if they do not.
BroadcastShape(shapes) ==
  LET filtered == {s \in shapes : s # <<>>}
      rank == CHOOSE n \in {Len(s) : s \in filtered} : \A s \in filtered : Len(s) <= n
      sizes(i) == {s[i - rank + Len(s)] : s \in {s \in filtered : i > rank - Len(s)}} \ {1}
  IN  IF filtered = {} \/ \E i \in 1..rank : Cardinality(sizes(i)) > 1 THEN <<>>
      ELSE [i \in 1..rank |-> IF sizes(i) = {} THEN 1 ELSE CHOOSE d \in sizes(i) : TRUE]

BroadcastAxes(t) == {i \in DOMAIN t.dim : t.dim[i] > 1 /\ t.stride[i] = 0}

UnexpandedDim(t) == [i \in DOMAIN t.dim |-> IF i \in BroadcastAxes(t) THEN 1 ELSE t.dim[i]]

-----------------------------------------------------------------------------
(* The physical layout *)

Reorderable(t) == {i \in DOMAIN t.dim : t.dim[i] # 1 /\ t.stride[i] # 0}

\* The axes before axis i when axes are sorted by stride, and stably: the fastest
\* first, or the slowest first.
Faster(t, axes, i) == {j \in axes : t.stride[j] < t.stride[i]}
                        \cup {j \in axes : t.stride[j] = t.stride[i] /\ j < i}
Slower(t, axes, i) == {j \in axes : t.stride[j] > t.stride[i]}
                        \cup {j \in axes : t.stride[j] = t.stride[i] /\ j < i}

\* Mutant of ValidPhysical: a stride need only be large enough, so that there are gaps.
ValidWithGaps(t) ==
  /\ Len(t.dim) = Len(t.stride)
  /\ \A i \in DOMAIN t.stride : t.stride[i] >= 0
  /\ LET axes == Reorderable(t)
     IN  \A i \in axes : t.stride[i] >= Product(t.dim, Faster(t, axes, i))

\* Axes that count have, from the fastest on, the product of the faster dims as
\* stride.
ValidPhysical(t) ==
  /\ Len(t.dim) = Len(t.stride)
  /\ \A i \in DOMAIN t.stride : t.stride[i] >= 0
  /\ LET axes == Reorderable(t)
     IN  \A i \in axes : t.stride[i] = Product(t.dim, Faster(t, axes, i))

\* The permutation that sorts axes, the slowest first, and leaves the others.
SortedAxes(t, axes) ==
  [i \in DOMAIN t.dim |->
     IF i \in axes
       THEN CHOOSE j \in axes :
              Cardinality(Slower(t, axes, j)) = Cardinality({k \in axes : k < i})
       ELSE i]

\* getLogicalToPhysicalPermuteOrder: physical axis i holds logical axis perm[i].
\* Unit and broadcast axes stay where they are.
LogicalToPhysical(t) == SortedAxes(t, Reorderable(t))

PhysicalToLogical(t) == Inverse(LogicalToPhysical(t), DOMAIN t.dim, DOMAIN t.dim)

PhysicalDim(t) ==
  [i \in DOMAIN t.dim |-> UnexpandedDim(t)[LogicalToPhysical(t)[i]]]

-----------------------------------------------------------------------------
(* What the layout is for.                                                 *)

\* The address of a coordinate by strides, and of one in a row-major array.
Address(stride, x) == SumFunction([i \in DOMAIN stride |-> x[i] * stride[i]])
RowMajor(dim, x)   == Address(ContiguousStride(dim), x)

\* Permuted(s, perm): torch.aten.permute of a shape or a coordinate.
Permuted(s, perm) == [i \in DOMAIN perm |-> s[perm[i]]]

\* Both addresses are linear in the coordinate: one step along an axis tells.
UnitCoordinates(dim) ==
  {[j \in DOMAIN dim |-> IF j = i THEN 1 ELSE 0] : i \in {i \in DOMAIN dim : dim[i] > 1}}

\* t gives the permutations; dim and stride are those of the buffer.
FaithfulFor(t, dim, stride) ==
  LET broadcast == BroadcastAxes(t)
      collapsed(x) == [i \in DOMAIN x |-> IF i \in broadcast THEN 0 ELSE x[i]]
      perm == LogicalToPhysical(t)
      physical == Permuted([i \in DOMAIN dim |-> IF i \in broadcast THEN 1 ELSE dim[i]], perm)
  IN  \A x \in UnitCoordinates(dim) :
         RowMajor(physical, Permuted(collapsed(x), perm)) = Address(stride, x)

\* The compiler knows no strides: it gets the physical dims as a row-major array,
\* permutes it, and expands it.  Every element is then where the strides of the
\* caller's buffer say, also in broadcast tensors.
Faithful(t) ==
  /\ Permuted(PhysicalDim(t), PhysicalToLogical(t)) = UnexpandedDim(t)
  /\ FaithfulFor(t, t.dim, t.stride)

\* The stride that dims of another size have in the layout of t: the dense one in the
\* order of the axes of t.
StrideLikeOf(t, dim) ==
  [i \in DOMAIN dim |-> Product(dim, {j \in DOMAIN dim : t.stride[j] < t.stride[i]})]

\* The permutations come from representative dims; buffers of any other size in the
\* dynamic dims, laid out in the same order, are read and written as well.
RuntimeFaithful(t, sizes) ==
  t.dynamic # {} => \A extent \in [t.dynamic -> sizes] :
    LET dim == [i \in DOMAIN t.dim |-> IF i \in t.dynamic THEN extent[i] ELSE t.dim[i]]
    IN  FaithfulFor(t, dim, StrideLikeOf(t, dim))
=============================================================================
