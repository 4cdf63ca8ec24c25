---------------------------- MODULE DeviceBuffer ----------------------------
(***************************************************************************)
(* Buffers: fusilli's handles on device memory, and the arguments that     *)
(* Graph::execute passes to the compiled function.                         *)
(*                                                                         *)
(* A Buffer owns one reference to a HAL buffer view, a view one to its HAL *)
(* buffer, the storage.  allocate uploads host data, import takes a share  *)
(* of a view that somebody else made, allocateRaw makes a workspace, read  *)
(* downloads.  execute retains a view for each argument and the storage of *)
(* the workspace in a VM list, and lets go of all of them when it returns, *)
(* wherever it returns.  Other threads may use their own Buffers, also of  *)
(* the same views, while a call is under way.                              *)
(*                                                                         *)
(* Bytes are numbers; the elements of a type narrower than a byte share    *)
(* one.  IREE's objects are modelled from the calls made on them.          *)
(***************************************************************************)
EXTENDS Integers, SequencesExt

CONSTANTS
  Slot,      \* the Buffers of the program, empty or not
  View,      \* buffer views IREE can allocate; a released one may be allocated again
  Storage,   \* HAL buffers it can allocate
  Requests,  \* what callers pass to allocate: records of type, shape and data
  Sizes,     \* what callers pass to allocateRaw
  Graphs,    \* the sorted outputs and then inputs that a graph may have
  Width,     \* bits of size_t
  Capacity,  \* the largest storage the device can provide, in bytes
  MaxLost,   \* bound on the references that are lost
  None

Bits == [int4 |-> 4, int8 |-> 8, int16 |-> 16]
Type == DOMAIN Bits
Byte == 0..255

Signed(half) == -half..half - 1

\* What a caller can give as an element: Int4 is made of an int8_t, and clamps it.
Given == [int4 |-> Signed(128), int8 |-> Signed(128), int16 |-> Signed(32768)]

\* What execute and createVmContext look at in a tensor.
GraphTensor == [output : BOOLEAN, virtual : BOOLEAN, scalar : BOOLEAN]

ASSUME RequestsAssumption ==
  \A q \in Requests :
    q.type \in Type /\ q.shape \in Seq(Nat) /\ q.data \in Seq(Given[q.type])
ASSUME SizesAssumption == Sizes \subseteq Nat
ASSUME GraphsAssumption == Graphs \subseteq Seq(GraphTensor)
\* No device has half of what size_t can count.  That 2^Width is a number is said for
\* the provers, which know no powers.
ASSUME WidthAssumption ==
  /\ {Width, MaxLost, 2^Width} \subseteq Nat
  /\ Capacity \in Nat \ {0} /\ 2 * Capacity < 2^Width
ASSUME FiniteAssumption == IsFiniteSet(Slot) /\ IsFiniteSet(View) /\ IsFiniteSet(Storage)

\* What a call of execute is doing.  args are the Buffers that the variantPack has for the
\* graph's tensors, None for one it lacks; loaded are the tensors that createVmContext
\* counted, and room what it found; next is the tensor, or what follows them, to be pushed.
Call == [tensors : Seq(GraphTensor), args : Seq(Slot \cup {None}),
         workspace : Slot \cup {None}, need : Nat, async : BOOLEAN,
         loaded : Seq(GraphTensor), room : Nat, next : Nat]

ASSUME NoneAssumption == None \notin Slot \cup View \cup Storage \cup Call

VARIABLES
  holds,   \* holds[s]: the view s's bufferView_ points to
  lent,    \* lent[v]: the maker of view v, outside fusilli, has a reference
  view,    \* view[v]: references, storage, element type and shape
  storage, \* storage[b]: references, bytes, and the elements written there last
  call,    \* the execute under way: arguments, workspace and how far it got
  list,    \* its inputList: the references pushed so far
  fences,  \* how many fences there are
  lost     \* how many references were dropped without being released

memory == <<lent, view, storage>>
vars   == <<holds, memory, call, list, fences, lost>>

NoView    == [refs |-> 0, storage |-> None, type |-> "int8", shape |-> <<>>]
NoStorage == [refs |-> 0, bytes |-> <<>>, given |-> <<>>]
Entry     == [kind : {"view"}, id : View] \cup [kind : {"storage"}, id : Storage]
               \cup [kind : {"null", "fence"}]

TypeOK ==
  /\ holds \in [Slot -> View \cup {None}]
  /\ lent \in [View -> BOOLEAN]
  /\ DOMAIN view = View /\ DOMAIN storage = Storage
  /\ \A v \in View :
       \/ view[v] = NoView
       \/ /\ view[v].refs \in Nat \ {0} /\ view[v].storage \in Storage
          /\ view[v].type \in Type /\ view[v].shape \in Seq(Nat)
  /\ \A b \in Storage :
       \/ storage[b] = NoStorage
       \/ storage[b].refs \in Nat \ {0} /\ storage[b].bytes \in Seq(Byte)
  /\ list \in Seq(Entry) /\ call \in Call \cup {None}
  /\ call = None => list = <<>>
  /\ {fences, lost} \subseteq Nat

Init ==
  /\ holds   = [s \in Slot |-> None]
  /\ lent    = [v \in View |-> FALSE]
  /\ view    = [v \in View |-> NoView]
  /\ storage = [b \in Storage |-> NoStorage]
  /\ call = None /\ list = <<>> /\ fences = 0 /\ lost = 0

-----------------------------------------------------------------------------
(* Elements and bytes                                                      *)

\* Int4: a value is clamped when it is made, and its sign is in bit 3.
Clamp(value) == IF value < -8 THEN -8 ELSE IF value > 7 THEN 7 ELSE value

\* The number that bits stand for, of a type with as many values.
SignExtended(bits, values) == IF 2 * bits >= values THEN bits - values ELSE bits

Nibble(data, i) == IF i \in DOMAIN data THEN data[i] % 16 ELSE 0

\* Mutant of Pack: the first element of a pair is in the high nibble, the way
\* the numbers are written.
PackHighFirst(data) ==
  [k \in 1..(Len(data) + 1) \div 2 |-> 16 * Nibble(data, 2 * k - 1) + Nibble(data, 2 * k)]

\* Element 2k is in the low nibble of byte k, element 2k + 1 in the high one.
Pack(data) ==
  [k \in 1..(Len(data) + 1) \div 2 |-> Nibble(data, 2 * k - 1) + 16 * Nibble(data, 2 * k)]

Unpack(bytes, count) ==
  [i \in 1..count |->
     LET byte == bytes[(i + 1) \div 2]
     IN  SignExtended(IF i % 2 = 1 THEN byte % 16 ELSE byte \div 16, 16)]

\* The elements a host vector of type holds, and the bytes they are uploaded as.
Elements(type, data) == IF type = "int4" THEN [i \in DOMAIN data |-> Clamp(data[i])] ELSE data

Encode(type, elements) ==
  CASE type = "int4" -> Pack(elements)
    [] type = "int8" -> [i \in DOMAIN elements |-> elements[i] % 256]
    [] OTHER -> [i \in 1..2 * Len(elements) |->
                   LET element == elements[(i + 1) \div 2] % 65536
                   IN  IF i % 2 = 1 THEN element % 256 ELSE element \div 256]

Decode(type, bytes, count) ==
  CASE type = "int4" -> Unpack(bytes, count)
    [] type = "int8" -> [i \in 1..count |-> SignExtended(bytes[i], 256)]
    [] OTHER -> [i \in 1..count |-> SignExtended(bytes[2 * i - 1] + 256 * bytes[2 * i], 65536)]

\* What IREE computes of a shape, without overflow, and the length of its elements.
Count(shape)            == FoldSeq(LAMBDA d, n : d * n, 1, shape)
ByteLength(type, shape) == (Count(shape) * Bits[type] + 7) \div 8

-----------------------------------------------------------------------------
(* References                                                              *)

\* An object that lost a reference, and what the last one leaves.
Dropped(object, nothing) ==
  IF object.refs = 1 THEN nothing ELSE [object EXCEPT !.refs = @ - 1]

DropStorage(st, b) == [st EXCEPT ![b] = Dropped(st[b], NoStorage)]

\* iree_hal_buffer_view_release: the last reference takes that to the storage along.
ReleaseView(v) ==
  /\ view' = [view EXCEPT ![v] = Dropped(view[v], NoView)]
  /\ storage' = IF view[v].refs = 1 THEN DropStorage(storage, view[v].storage) ELSE storage

\* IreeHalBufferViewDeleter, on what s holds.
ReleaseHeld(s) ==
  IF holds[s] = None THEN UNCHANGED <<view, storage>> ELSE ReleaseView(holds[s])

\* The Buffers of the variantPack and the workspace are not changed during the call.
InUse == IF call = None THEN {} ELSE Range(call.args) \cup {call.workspace}
Free(s) == s \notin InUse

-----------------------------------------------------------------------------
(* Buffer::allocate                                                        *)

\* The product of the dims, in size_t.
ExpectedSize(shape) == FoldSeq(LAMBDA d, n : (n * d) % 2^Width, 1, shape)

SizesMatch(q) ==
  /\ ExpectedSize(q.shape) # 0 /\ q.shape # <<>>
  /\ Len(q.data) = ExpectedSize(q.shape)

\* A view with its storage, which gets the bytes of elements; the storage is as
\* large as the shape says, and the device may not have that much.
MakeView(v, b, type, shape, elements) ==
  LET bytes  == Encode(type, elements)
      length == ByteLength(type, shape)
  IN  /\ view[v] = NoView /\ storage[b] = NoStorage
      /\ length <= Capacity /\ Len(bytes) <= length
      /\ view' = [view EXCEPT ![v] =
                    [refs |-> 1, storage |-> b, type |-> type, shape |-> shape]]
      /\ storage' = [storage EXCEPT ![b] =
                       [refs  |-> 1, given |-> elements,
                        bytes |-> [i \in 1..length |->
                                     IF i <= Len(bytes) THEN bytes[i] ELSE 0]]]

Allocate(s) == \E q \in Requests, v \in View, b \in Storage :
  /\ Free(s) /\ holds[s] = None
  /\ SizesMatch(q)
  /\ MakeView(v, b, q.type, q.shape, Elements(q.type, q.data))
  /\ holds' = [holds EXCEPT ![s] = v]
  /\ UNCHANGED <<lent, call, list, fences, lost>>

-----------------------------------------------------------------------------
(* Buffer::import, and views made outside fusilli                          *)

Lend == \E q \in Requests, v \in View, b \in Storage :
  /\ SizesMatch(q)
  /\ MakeView(v, b, q.type, q.shape, Elements(q.type, q.data))
  /\ lent' = [lent EXCEPT ![v] = TRUE]
  /\ UNCHANGED <<holds, call, list, fences, lost>>

TakeBack(v) ==
  /\ lent[v]
  /\ lent' = [lent EXCEPT ![v] = FALSE]
  /\ ReleaseView(v)
  /\ UNCHANGED <<holds, call, list, fences, lost>>

\* Mutant of Import: the view is wrapped without being retained.
ImportUnretained(s, v) ==
  /\ Free(s) /\ holds[s] = None
  /\ lent[v] \/ \E r \in Slot : holds[r] = v
  /\ holds' = [holds EXCEPT ![s] = v]
  /\ UNCHANGED <<memory, call, list, fences, lost>>

\* The caller has the view from its maker, or from another Buffer.
Import(s, v) ==
  /\ Free(s) /\ holds[s] = None
  /\ lent[v] \/ \E r \in Slot : holds[r] = v
  /\ view' = [view EXCEPT ![v].refs = @ + 1]
  /\ holds' = [holds EXCEPT ![s] = v]
  /\ UNCHANGED <<lent, storage, call, list, fences, lost>>

-----------------------------------------------------------------------------
(* Buffer::allocateRaw, moves and destruction                              *)

\* A workspace: a view of size bytes, of which nothing is written.
AllocateRaw(s) == \E size \in Sizes, v \in View, b \in Storage :
  /\ Free(s) /\ holds[s] = None
  /\ size # 0
  /\ MakeView(v, b, "int8", <<size>>, [i \in 1..size |-> 0])
  /\ holds' = [holds EXCEPT ![s] = v]
  /\ UNCHANGED <<lent, call, list, fences, lost>>

\* The storage is there, and its view cannot be made.
AllocateRawFails == \E size \in Sizes, b \in Storage :
  /\ size \in 1..Capacity /\ storage[b] = NoStorage /\ lost < MaxLost
  /\ storage' = [storage EXCEPT ![b] = [refs |-> 1, bytes |-> [i \in 1..size |-> 0],
                                        given |-> [i \in 1..size |-> 0]]]
  /\ lost' = lost + 1
  /\ UNCHANGED <<holds, lent, view, call, list, fences>>

\* r = std::move(s), or a new r from s.
Move(s, r) ==
  /\ s # r /\ Free(s) /\ Free(r) /\ holds[s] # None
  /\ holds' = [holds EXCEPT ![r] = holds[s], ![s] = None]
  /\ ReleaseHeld(r)
  /\ UNCHANGED <<lent, call, list, fences, lost>>

Destroy(s) ==
  /\ Free(s) /\ holds[s] # None
  /\ holds' = [holds EXCEPT ![s] = None]
  /\ ReleaseHeld(s)
  /\ UNCHANGED <<lent, call, list, fences, lost>>

-----------------------------------------------------------------------------
(* Buffer::read, into an empty vector of the type the data was written as.  *)
(* It changes no Buffer; a failed one may leave the vector resized, and     *)
(* then another read into it is refused.                                   *)

Viewed(s) == view[holds[s]]
Stored(s) == storage[Viewed(s).storage]

Download(s) == Decode(Viewed(s).type, Stored(s).bytes, Count(Viewed(s).shape))

-----------------------------------------------------------------------------
(* The arguments of Graph::execute                                         *)

\* Mutant of ListCapacity: the outputs are counted without a look at them.
ListCapacityAllOutputs(tensors, async) ==
  Cardinality({i \in DOMAIN tensors : tensors[i].output \/ ~tensors[i].scalar})
    + 1 + IF async THEN 2 ELSE 0

\* What createVmContext counts: outputs, inputs, the workspace and two fences.
ListCapacity(tensors, async) ==
  LET outputs == {i \in DOMAIN tensors : tensors[i].output /\ ~tensors[i].virtual}
      inputs  == {i \in DOMAIN tensors : ~tensors[i].output /\ ~tensors[i].scalar}
  IN  Cardinality(outputs) + Cardinality(inputs) + 1 + IF async THEN 2 ELSE 0

\* execute skips what the function does not take: its own intermediate outputs, and the
\* inputs that are constants in it.
Passed(t) == IF t.output THEN ~t.virtual ELSE ~t.scalar

\* A graph that was edited since it was loaded may have more tensors, or others.
Execute ==
  \E tensors, loaded \in Graphs, workspace \in Slot \cup {None}, need \in Sizes,
     async \in BOOLEAN : \E args \in [DOMAIN tensors -> Slot \cup {None}] :
    /\ call = None
    /\ Len(loaded) <= Len(tensors)
    /\ \A s \in (Range(args) \cup {workspace}) \ {None} : holds[s] # None
    /\ call' = [tensors |-> tensors, args |-> args, workspace |-> workspace, need |-> need,
                async |-> async, loaded |-> loaded, room |-> ListCapacity(loaded, async),
                next |-> 1]
    /\ UNCHANGED <<holds, memory, list, fences, lost>>

\* The tensors, then the workspace, then two fences.
Pushing(place) ==
  /\ call # None
  /\ CASE place = "arg"       -> call.next <= Len(call.args)
       [] place = "workspace" -> call.next = Len(call.args) + 1
       [] place = "fence"     -> call.async /\ call.next - Len(call.args) \in {2, 3}
       [] place = "invoke"    -> call.next = Len(call.args) + IF call.async THEN 4 ELSE 2

\* The next tensor is passed, and the variantPack has it.
Taken    == Passed(call.tensors[call.next])
Supplied == call.args[call.next] # None

Pushed(entry) ==
  /\ list' = Append(list, entry)
  /\ call' = [call EXCEPT !.next = @ + 1]
  /\ UNCHANGED <<holds, lent, lost>>

PushArg ==
  /\ Pushing("arg") /\ Taken /\ Supplied
  /\ LET v == holds[call.args[call.next]]
     IN  /\ view' = [view EXCEPT ![v].refs = @ + 1]
         /\ Pushed([kind |-> "view", id |-> v])
  /\ UNCHANGED <<storage, fences>>

SkipArg ==
  /\ Pushing("arg") /\ ~Taken /\ ~Supplied
  /\ call' = [call EXCEPT !.next = @ + 1]
  /\ UNCHANGED <<holds, memory, list, fences, lost>>

WorkspaceFits ==
  call.workspace # None /\ Len(Stored(call.workspace).bytes) >= call.need

PushWorkspace ==
  /\ Pushing("workspace")
  /\ IF call.need = 0
       THEN Pushed([kind |-> "null"]) /\ UNCHANGED storage
       ELSE LET b == Viewed(call.workspace).storage
            IN  /\ WorkspaceFits
                /\ storage' = [storage EXCEPT ![b].refs = @ + 1]
                /\ Pushed([kind |-> "storage", id |-> b])
  /\ UNCHANGED <<view, fences>>

PushFence ==
  /\ Pushing("fence")
  /\ fences' = fences + 1
  /\ Pushed([kind |-> "fence"])
  /\ UNCHANGED <<view, storage>>

Pushes(kind, id) == Cardinality({i \in DOMAIN list : list[i].kind = kind /\ list[i].id = id})
FencesPushed     == Cardinality({i \in DOMAIN list : list[i].kind = "fence"})

\* The list lets go of its references, when there were those in vw, st and fn.
ReleaseList(vw, st, fn) ==
  LET left(v) == vw[v].refs - Pushes("view", v)
      gone    == {v \in View : vw[v].refs > 0 /\ left(v) = 0}
      kept(b) == st[b].refs - Pushes("storage", b)
                   - Cardinality({v \in gone : vw[v].storage = b})
  IN  /\ view' = [v \in View |-> IF left(v) = 0 THEN NoView
                                 ELSE [vw[v] EXCEPT !.refs = left(v)]]
      /\ storage' = [b \in Storage |-> IF kept(b) = 0 THEN NoStorage
                                       ELSE [st[b] EXCEPT !.refs = kept(b)]]
      /\ fences' = fn - FencesPushed

\* Mutant of Return: without the unique_ptr an early return leaves the list.
ReturnLeavingList(vw, st, fn) ==
  /\ IF Pushing("invoke") THEN ReleaseList(vw, st, fn)
     ELSE view' = vw /\ storage' = st /\ fences' = fn
  /\ list' = <<>> /\ call' = None
  /\ UNCHANGED <<holds, lent>>

\* execute returns: ~IreeVmListUniquePtrType.
Return(vw, st, fn) ==
  /\ ReleaseList(vw, st, fn)
  /\ list' = <<>> /\ call' = None
  /\ UNCHANGED <<holds, lent>>

\* The variantPack lacks the next tensor, or has it though it is none of the function's;
\* the workspace is missing or too small, the list cannot take the null reference for
\* none, a fence cannot be created, or the invocation fails.
ExecuteFails ==
  /\ \/ Pushing("arg") /\ (Taken # Supplied)
     \/ Pushing("workspace") /\ call.need # 0 /\ ~WorkspaceFits
     \/ Pushing("workspace") /\ call.need = 0 /\ Len(list) >= call.room
     \/ Pushing("fence")
     \/ Pushing("invoke")
  /\ Return(view, storage, fences)
  /\ UNCHANGED lost

\* The list has to grow and cannot: the reference that was to go into it, be it
\* a new fence's, is not released.
PushFails ==
  /\ call # None /\ Len(list) >= call.room /\ lost < MaxLost
  /\ lost' = lost + 1
  /\ \/ /\ Pushing("arg") /\ Taken /\ Supplied
        /\ Return([view EXCEPT ![holds[call.args[call.next]]].refs = @ + 1], storage, fences)
     \/ /\ Pushing("workspace") /\ call.need # 0 /\ WorkspaceFits
        /\ Return(view, [storage EXCEPT ![Viewed(call.workspace).storage].refs = @ + 1], fences)
     \/ /\ Pushing("fence")
        /\ Return(view, storage, fences + 1)

\* The views that the function writes: those of its outputs, and the workspace's.
Overwritten ==
  {holds[call.args[i]] : i \in {i \in DOMAIN call.args :
                                  call.tensors[i].output /\ Passed(call.tensors[i])}}
    \cup (IF call.need = 0 THEN {} ELSE {holds[call.workspace]})

\* Elements that fill view v.
Filling(v) ==
  {Elements(q.type, q.data) : q \in {q \in Requests : q.type = view[v].type
                                       /\ Len(q.data) = Count(view[v].shape)}}

\* The storages when data[v] was written to each view v that is in data.
Overwrite(data) ==
  [b \in Storage |->
     LET views == {v \in DOMAIN data : view[v].storage = b}
         v == CHOOSE v \in views : TRUE
     IN  IF views = {} THEN storage[b]
         ELSE [storage[b] EXCEPT !.given = data[v], !.bytes = Encode(view[v].type, data[v])]]

\* The function writes its results into the outputs, in place, and what it likes into the
\* workspace.
Invoke ==
  /\ Pushing("invoke")
  /\ \E data \in [Overwritten -> UNION {Filling(v) : v \in Overwritten}] :
       /\ \A v \in Overwritten : data[v] \in Filling(v)
       /\ Return(view, Overwrite(data), fences)
  /\ UNCHANGED lost

-----------------------------------------------------------------------------
Next ==
  \/ \E s \in Slot :
       \/ Allocate(s) \/ AllocateRaw(s) \/ Destroy(s)
       \/ \E v \in View : Import(s, v)
       \/ \E r \in Slot : Move(s, r)
  \/ Lend \/ \E v \in View : TakeBack(v)
  \/ AllocateRawFails
  \/ Execute \/ PushArg \/ SkipArg \/ PushWorkspace \/ PushFence \/ PushFails
  \/ ExecuteFails \/ Invoke

Spec == Init /\ [][Next]_vars

-----------------------------------------------------------------------------
(* Properties                                                              *)

ViewHolders(v) ==
  Cardinality({s \in Slot : holds[s] = v}) + (IF lent[v] THEN 1 ELSE 0) + Pushes("view", v)

StorageHolders(b) ==
  Cardinality({v \in View : view[v].storage = b}) + Pushes("storage", b)

\* Nothing is released while a Buffer, a view, the lender of a view or the list of
\* a call refers to it: no count is lower than the references there are.
HeldIsAlive ==
  /\ \A v \in View : view[v].refs >= ViewHolders(v)
  /\ \A b \in Storage : storage[b].refs >= StorageHolders(b)

\* Nothing is kept for ever, on any path out of allocate, execute or a destructor,
\* except for one reference each time a view cannot be made for a storage, or the
\* input list cannot grow.
NothingElseLost ==
  lost = SumFunction([v \in View |-> view[v].refs - ViewHolders(v)])
           + SumFunction([b \in Storage |-> storage[b].refs - StorageHolders(b)])
           + (fences - FencesPushed)

\* The input list of a graph that has the tensors it was loaded with never has to grow,
\* and nothing of it is left over at the call: the loops of createVmContext, which ran
\* when the graph was loaded, count exactly what the loops of execute push.
CapacityExact ==
  call # None /\ call.loaded = call.tensors =>
    /\ Len(list) <= call.room
    /\ Pushing("invoke") => Len(list) = call.room

\* What a read returns is what was written last, by allocate or by a function, with
\* Int4 values clamped: also an odd number of them, and through any Buffer of the view.
ReadExact == \A s \in Slot : holds[s] # None => Download(s) = Stored(s).given
=============================================================================
