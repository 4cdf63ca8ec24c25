--------------------------- MODULE MCDeviceBuffer ---------------------------
(* Model checking DeviceBuffer: elements of half a byte, one and two       *)
(* bytes, an odd number of them, shapes whose size is not representable,   *)
(* and graphs with tensors that execute skips.                             *)
EXTENDS DeviceBuffer, TLC

Request(type, shape, data) == [type |-> type, shape |-> shape, data |-> data]

MCRequests ==
  {Request("int4", <<3>>, <<-9, 7, 3>>), Request("int4", <<3, 1>>, <<-8, 2>>),
   Request("int16", <<1>>, <<-300>>),
   Request("int8", <<4, 8>>, <<>>), Request("int8", <<5, 7>>, <<5, -6, 7>>)}

GT(output, virtual, scalar) == [output |-> output, virtual |-> virtual, scalar |-> scalar]

Out     == GT(TRUE, FALSE, FALSE)
Between == GT(TRUE, TRUE, FALSE)
In      == GT(FALSE, FALSE, FALSE)
Literal == GT(FALSE, FALSE, TRUE)

MCGraphs == {<<Between, Out, In>>, <<Out, Literal>>}

Symmetry == Permutations(Slot) \cup Permutations(View) \cup Permutations(Storage)
=============================================================================
