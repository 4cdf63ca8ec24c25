-------------------------- MODULE GraphBuild_proofs --------------------------
(***************************************************************************)
(* Proofs about GraphBuild, whatever the plans of the callers, the number  *)
(* of nodes and the names that callers give: types; that the names the     *)
(* builders make up never meet; and that the program of an accepted graph  *)
(* defines every value before its use and overwrites each result once.     *)
(*                                                                         *)
(* The last two read the program in pieces.  Adds says what a piece needs  *)
(* and what it adds; it is established for each template of AsmEmitter and *)
(* composed, with the lemmas about FlattenSeq, along the order in which    *)
(* EmitAsm joins the pieces.  BuildInv, the invariant that makes them fit, *)
(* says where the operands of the nodes come from and what validate left.  *)
(***************************************************************************)
EXTENDS GraphBuild, SequenceTheorems, WellFoundedInduction,
        FiniteSetTheorems, TLAPS

-----------------------------------------------------------------------------
(* Names *)

\* What the builders make up for the port p of node number i of a kind.
MadeUp(kind, i, p) == Append(kind, i) \o p

\* Where the parts of a name are: the kind, the number, the port.
LEMMA NameParts ==
  ASSUME NEW S, NEW a \in Seq(S), NEW i \in S, NEW p \in Seq(S)
  PROVE  /\ Append(a, i) \o p \in Seq(S)
         /\ Len(Append(a, i) \o p) = Len(a) + 1 + Len(p)
         /\ \A n \in 1..Len(a) : (Append(a, i) \o p)[n] = a[n]
         /\ (Append(a, i) \o p)[Len(a) + 1] = i
         /\ \A n \in 1..Len(p) : (Append(a, i) \o p)[Len(a) + 1 + n] = p[n]
<1> DEFINE u == Append(a, i)
<1>1. u \in Seq(S) /\ Len(u) = Len(a) + 1 /\ Len(a) \in Nat /\ Len(p) \in Nat
  OBVIOUS
<1>2. u[Len(a) + 1] = i
  OBVIOUS
<1>3. \A n \in 1..Len(a) : u[n] = a[n]
  OBVIOUS
<1> HIDE DEF u
<1>4. /\ u \o p \in Seq(S)
      /\ Len(u \o p) = Len(u) + Len(p)
      /\ \A n \in 1..Len(u) + Len(p) : (u \o p)[n] = IF n <= Len(u) THEN u[n] ELSE p[n - Len(u)]
  BY <1>1, ConcatProperties
<1>5. \A n \in 1..Len(p) : (u \o p)[Len(a) + 1 + n] = p[n]
  BY <1>1, <1>4
<1>6. \A n \in 1..Len(a) + 1 : (u \o p)[n] = u[n]
  BY <1>1, <1>4
<1>7. QED BY <1>1, <1>2, <1>3, <1>4, <1>5, <1>6 DEF u

LEMMA CallsTyped == AllCalls \subseteq CallType
<1> SUFFICES ASSUME NEW plan \in Plans, NEW c \in Range(plan) PROVE c \in CallType
  BY DEF AllCalls
<1>1. plan \in Seq(CallType)
  BY PlanAssumption
<1>2. PICK i \in DOMAIN plan : c = plan[i]
  BY DEF Range
<1>3. QED BY <1>1, <1>2

\* The kinds are those of calls, so that one beginning of a name is no other's.
LEMMA NameKind ==
  ASSUME NEW c \in AllCalls, NEW d \in AllCalls,
         NEW i \in Word, NEW j \in Word, NEW p \in Name, NEW q \in Name,
         MadeUp(c.kind, i, p) = MadeUp(d.kind, j, q)
  PROVE  c.kind = d.kind
<1>1. c.kind \in Seq(Word) /\ d.kind \in Seq(Word) /\ p \in Seq(Word) /\ q \in Seq(Word)
  BY CallsTyped DEF CallType, Name
<1>2. \A n \in 1..Len(c.kind) : n \in 1..Len(d.kind) => c.kind[n] = d.kind[n]
  <2> TAKE n \in 1..Len(c.kind)
  <2> HAVE n \in 1..Len(d.kind)
  <2>1. (Append(c.kind, i) \o p)[n] = c.kind[n]
    BY <1>1, NameParts
  <2>2. (Append(d.kind, j) \o q)[n] = d.kind[n]
    BY <1>1, NameParts
  <2>3. QED BY <2>1, <2>2 DEF MadeUp
<1>3. /\ DOMAIN c.kind = 1..Len(c.kind) /\ Len(c.kind) \in Nat
      /\ DOMAIN d.kind = 1..Len(d.kind) /\ Len(d.kind) \in Nat
  BY <1>1
<1>4. CASE Len(c.kind) <= Len(d.kind)
  <2>1. \A n \in DOMAIN c.kind : c.kind[n] = d.kind[n]
    BY <1>2, <1>3, <1>4
  <2>2. QED BY <2>1, <1>4, PlanAssumption
<1>5. CASE Len(d.kind) <= Len(c.kind)
  <2>1. \A n \in DOMAIN d.kind : d.kind[n] = c.kind[n]
    BY <1>2, <1>3, <1>5
  <2>2. QED BY <2>1, <1>5, PlanAssumption
<1>6. QED BY <1>3, <1>4, <1>5

\* The number and the port can be read back from the name.
LEMMA NameNumber ==
  ASSUME NEW c \in AllCalls, NEW d \in AllCalls,
         NEW i \in Word, NEW j \in Word, NEW p \in Name, NEW q \in Name,
         MadeUp(c.kind, i, p) = MadeUp(d.kind, j, q)
  PROVE  i = j
<1> DEFINE a == c.kind
<1>1. c.kind = d.kind
  BY NameKind
<1>2. a \in Seq(Word) /\ p \in Seq(Word) /\ q \in Seq(Word)
  BY CallsTyped DEF CallType, Name
<1>3. Append(a, i) \o p = Append(a, j) \o q
  BY <1>1 DEF MadeUp
<1> HIDE DEF a
<1>4. (Append(a, i) \o p)[Len(a) + 1] = i
  BY <1>2, NameParts
<1>5. (Append(a, j) \o q)[Len(a) + 1] = j
  BY <1>2, NameParts
<1>6. QED BY <1>3, <1>4, <1>5

LEMMA NamePort ==
  ASSUME NEW c \in AllCalls, NEW d \in AllCalls,
         NEW i \in Word, NEW j \in Word, NEW p \in Name, NEW q \in Name,
         MadeUp(c.kind, i, p) = MadeUp(d.kind, j, q)
  PROVE  p = q
<1> DEFINE a == c.kind
<1>1. c.kind = d.kind
  BY NameKind
<1>2. a \in Seq(Word) /\ p \in Seq(Word) /\ q \in Seq(Word)
  BY CallsTyped DEF CallType, Name
<1>3. Append(a, i) \o p = Append(a, j) \o q
  BY <1>1 DEF MadeUp
<1> HIDE DEF a
<1>4. /\ Len(Append(a, i) \o p) = Len(a) + 1 + Len(p)
      /\ \A n \in 1..Len(p) : (Append(a, i) \o p)[Len(a) + 1 + n] = p[n]
  BY <1>2, NameParts
<1>5. /\ Len(Append(a, j) \o q) = Len(a) + 1 + Len(q)
      /\ \A n \in 1..Len(q) : (Append(a, j) \o q)[Len(a) + 1 + n] = q[n]
  BY <1>2, NameParts
<1>6. Len(p) = Len(q)
  BY <1>2, <1>3, <1>4, <1>5
<1>7. \A n \in 1..Len(p) : p[n] = q[n]
  BY <1>3, <1>4, <1>5, <1>6
<1>8. QED BY <1>2, <1>6, <1>7, SeqEqual

-----------------------------------------------------------------------------
(* The steps of a builder *)

LEMMA NextCallTyped ==
  ASSUME TypeOK, NEW call \in NextCalls
  PROVE  call \in AllCalls
<1> DEFINE made == [k \in DOMAIN nodes |-> nodes[k].call]
<1>1. PICK plan \in Plans : IsStrictPrefix(made, plan) /\ call = plan[Len(nodes) + 1]
  BY DEF NextCalls
<1>2. plan \in Seq(CallType)
  BY PlanAssumption
<1>3. Len(nodes) \in Nat /\ DOMAIN nodes = 1..Len(nodes)
  BY DEF TypeOK
<1>4. made \in Seq(AllCalls) /\ Len(made) = Len(nodes)
  BY <1>3 DEF TypeOK
<1>5. \A i \in DOMAIN plan : plan[i] \in AllCalls
  BY DEF AllCalls, Range
<1>6. plan \in Seq(AllCalls)
  BY <1>2, <1>5
<1> HIDE DEF made
<1>7. Len(made) # Len(plan)
  BY <1>1, <1>4, <1>6, SubSeqFull DEF IsStrictPrefix, IsPrefix
<1>8. Len(made) <= Len(plan)
  BY <1>1 DEF IsStrictPrefix, IsPrefix
<1>9. Len(nodes) + 1 \in DOMAIN plan
  BY <1>2, <1>3, <1>4, <1>7, <1>8
<1>10. QED BY <1>1, <1>5, <1>9

\* A set of numbers has a least one.
LEMMA Least ==
  ASSUME NEW S \in SUBSET Nat, S # {}
  PROVE  \E m \in S : \A n \in S : m <= n
<1>1. PICK m \in S : \A n \in S : ~ (<<n, m>> \in OpToRel(<, Nat))
  BY NatLessThanWellFounded, WFMin
<1>2. \A n \in S : ~ (n < m)
  BY <1>1 DEF OpToRel
<1>3. QED BY <1>2

\* The map from ports to tensors finds the tensor given at a port.
LEMMA PortMapValue ==
  ASSUME NEW ports \in Seq(Name), NEW index, NEW i \in DOMAIN ports,
         \A j, k \in DOMAIN ports : ports[j] = ports[k] => j = k
  PROVE  /\ ports[i] \in DOMAIN PortMap(ports, index)
         /\ PortMap(ports, index)[ports[i]] = index[i]
<1>1. ports[i] \in Range(ports)
  BY DEF Range
<1>2. (CHOOSE j \in DOMAIN ports : ports[j] = ports[i]) = i
  OBVIOUS
<1>3. QED BY <1>1, <1>2 DEF PortMap

LEMMA PortMapTyped ==
  ASSUME NEW ports \in Seq(Name), NEW S, NEW index \in [DOMAIN ports -> S]
  PROVE  PortMap(ports, index) \in [Range(ports) -> S]
<1> SUFFICES ASSUME NEW p \in Range(ports)
             PROVE  index[CHOOSE i \in DOMAIN ports : ports[i] = p] \in S
  BY DEF PortMap
<1>1. \E i \in DOMAIN ports : ports[i] = p
  BY DEF Range
<1>2. QED BY <1>1

LEMMA NewNodeTyped ==
  ASSUME TypeOK, Len(nodes) < MaxNodes, NEW call \in AllCalls,
         NEW name \in Names \cup {<<>>}, NEW args \in [DOMAIN call.ins -> DOMAIN tensors],
         NEW node, node = NewNode(call, name, args)
  PROVE  /\ node.call = call
         /\ node.name \in Name \ {<<>>}
         /\ node.own \in BOOLEAN
         /\ ~node.own => node.name = Append(call.kind, Numeral[Len(nodes)])
         /\ node.in \in [Range(call.ins) -> DOMAIN tensors]
         /\ node.out \in [Range(call.outs) -> Len(tensors) + 1 .. Len(tensors) + Len(call.outs)]
<1>1. call.kind \in Seq(Word) /\ call.ins \in Seq(Name) /\ call.outs \in Seq(Name)
  BY CallsTyped DEF CallType, Name
<1>2. Numeral[Len(nodes)] \in Word
  BY BoundAssumption, NumeralAssumption DEF TypeOK
<1>3. DefaultName(call.kind) \in Name \ {<<>>}
  <2>1. Append(call.kind, Numeral[Len(nodes)]) \in Seq(Word)
    BY <1>1, <1>2
  <2>2. Append(call.kind, Numeral[Len(nodes)]) # <<>>
    BY <1>1, <1>2, AppendProperties
  <2>3. QED BY <2>1, <2>2 DEF DefaultName, Name
<1>4. node.name \in Name \ {<<>>}
  BY <1>3, NamesAssumption DEF NewNode
<1>5. /\ node.call = call
      /\ node.own = (name # <<>>)
      /\ name = <<>> => node.name = Append(call.kind, Numeral[Len(nodes)])
      /\ node.in = PortMap(call.ins, args)
      /\ node.out = PortMap(call.outs, [k \in DOMAIN call.outs |-> Len(tensors) + k])
  BY DEF NewNode, DefaultName
<1>6. node.in \in [Range(call.ins) -> DOMAIN tensors]
  <2>1. PortMap(call.ins, args) \in [Range(call.ins) -> DOMAIN tensors]
    BY <1>1, PortMapTyped
  <2>2. QED BY <1>5, <2>1
<1>7. [k \in DOMAIN call.outs |-> Len(tensors) + k]
        \in [DOMAIN call.outs -> Len(tensors) + 1 .. Len(tensors) + Len(call.outs)]
  <2>1. Len(tensors) \in Nat
    BY DEF TypeOK
  <2>2. QED BY <1>1, <2>1
<1>8. node.out \in [Range(call.outs) -> Len(tensors) + 1 .. Len(tensors) + Len(call.outs)]
  <2> DEFINE index == [k \in DOMAIN call.outs |-> Len(tensors) + k]
  <2>1. PortMap(call.outs, index)
          \in [Range(call.outs) -> Len(tensors) + 1 .. Len(tensors) + Len(call.outs)]
    <3> HIDE DEF index
    <3>1. QED BY <1>1, <1>7, PortMapTyped DEF index
  <2>2. QED BY <1>5, <2>1
<1>9. QED BY <1>4, <1>5, <1>6, <1>8

\* t has the name that node makes up for port p, and stands there.
NamedBy(t, index, node, p) ==
  /\ \/ p \in DOMAIN node.in /\ node.in[p] = index
     \/ p \in DOMAIN node.out /\ node.out[p] = index
  /\ t.name = node.name \o p
  /\ t.own = node.own

\* A builder names its inputs, and nothing else, by the ports they are at.
LEMMA NameInputsNames ==
  ASSUME TypeOK, Len(nodes) < MaxNodes, NEW call \in AllCalls,
         NEW name \in Names \cup {<<>>}, NEW args \in [DOMAIN call.ins -> DOMAIN tensors],
         NEW node, node = NewNode(call, name, args), NEW t \in DOMAIN tensors
  PROVE  LET named == NameInputs(node, call, args)[t]
         IN  /\ named \in Tensor
             /\ named = tensors[t] \/ \E p \in Range(call.ins) : NamedBy(named, t, node, p)
<1> DEFINE named == NameInputs(node, call, args)[t]
           here  == {i \in DOMAIN args : args[i] = t}
           first == CHOOSE i \in DOMAIN args :
                      args[i] = t /\ \A j \in DOMAIN args : args[j] = t => i <= j
<1>1. tensors[t] \in Tensor
  BY DEF TypeOK
<1>2. CASE ~(tensors[t].name = <<>> /\ \E i \in DOMAIN args : args[i] = t)
  <2>1. named = tensors[t]
    BY <1>2 DEF NameInputs
  <2>2. QED BY <1>1, <2>1
<1>3. CASE tensors[t].name = <<>> /\ \E i \in DOMAIN args : args[i] = t
  <2>1. call.ins \in Seq(Name)
    BY CallsTyped DEF CallType
  <2>2. DOMAIN args = DOMAIN call.ins /\ DOMAIN args \subseteq Nat
    BY <2>1
  <2>3. here \in SUBSET Nat /\ here # {}
    BY <1>3, <2>2
  <2>4. \E i \in here : \A j \in here : i <= j
    BY <2>3, Least
  <2>5. first \in DOMAIN args /\ args[first] = t
    BY <2>4
  <2>6. named = [tensors[t] EXCEPT !.name = node.name \o call.ins[first], !.own = node.own]
    BY <1>3 DEF NameInputs
  <2> HIDE DEF first, named
  <2>7. /\ node.name \in Name /\ node.own \in BOOLEAN
        /\ node.in \in [Range(call.ins) -> DOMAIN tensors]
        /\ node.in = PortMap(call.ins, args)
    BY NewNodeTyped DEF NewNode
  <2>8. call.ins[first] \in Name
    BY <2>1, <2>2, <2>5
  <2>9. node.name \o call.ins[first] \in Name
    BY <2>7, <2>8 DEF Name
  <2>10. named \in Tensor /\ named.name = node.name \o call.ins[first] /\ named.own = node.own
    BY <1>1, <2>6, <2>7, <2>9 DEF Tensor
  <2>11. call.ins[first] \in DOMAIN node.in /\ node.in[call.ins[first]] = t
    BY <2>1, <2>2, <2>5, <2>7, PortMapValue, PlanAssumption
  <2>12. call.ins[first] \in Range(call.ins)
    BY <2>2, <2>5 DEF Range
  <2>13. QED BY <2>10, <2>11, <2>12 DEF NamedBy, named
<1>4. QED BY <1>2, <1>3

\* The outputs it makes are named by the ports they are at.
LEMMA OutputTensorsNames ==
  ASSUME TypeOK, Len(nodes) < MaxNodes, NEW call \in AllCalls,
         NEW name \in Names \cup {<<>>}, NEW args \in [DOMAIN call.ins -> DOMAIN tensors],
         NEW node, node = NewNode(call, name, args)
  PROVE  LET made == OutputTensors(node, call)
         IN  /\ made \in Seq(Tensor)
             /\ Len(made) = Len(call.outs)
             /\ \A k \in 1..Len(call.outs) :
                  \E p \in Range(call.outs) : NamedBy(made[k], Len(tensors) + k, node, p)
<1> DEFINE made == OutputTensors(node, call)
<1>1. call.outs \in Seq(Name)
  BY CallsTyped DEF CallType
<1>2. /\ node.name \in Name /\ node.own \in BOOLEAN
      /\ node.out \in [Range(call.outs) -> Len(tensors) + 1 .. Len(tensors) + Len(call.outs)]
      /\ node.out = PortMap(call.outs, [k \in DOMAIN call.outs |-> Len(tensors) + k])
  BY NewNodeTyped DEF NewNode
<1>3. \A k \in 1..Len(call.outs) : call.outs[k] \in Name /\ node.name \o call.outs[k] \in Name
  BY <1>1, <1>2 DEF Name
<1> DEFINE output(k) ==
             [name |-> node.name \o call.outs[k], own |-> node.own, input |-> FALSE,
              virtual |-> TRUE, scalar |-> FALSE, broadcast |-> FALSE]
<1>4. \A k \in 1..Len(call.outs) :
        /\ output(k) \in Tensor
        /\ output(k).name = node.name \o call.outs[k]
        /\ output(k).own = node.own
  BY <1>2, <1>3 DEF Tensor
<1>9. made = [k \in DOMAIN call.outs |-> output(k)]
  BY DEF OutputTensors
<1> HIDE DEF made, output
<1>5. made \in Seq(Tensor) /\ Len(made) = Len(call.outs)
  <2>1. DOMAIN call.outs = 1..Len(call.outs) /\ Len(call.outs) \in Nat
    BY <1>1
  <2>2. \A k \in DOMAIN call.outs : output(k) \in Tensor
    BY <1>4, <2>1
  <2>3. made \in [1..Len(call.outs) -> Tensor]
    BY <1>9, <2>1, <2>2
  <2>4. QED BY <2>1, <2>3
<1>6. ASSUME NEW k \in 1..Len(call.outs)
      PROVE  NamedBy(made[k], Len(tensors) + k, node, call.outs[k])
  <2>1. made[k].name = node.name \o call.outs[k] /\ made[k].own = node.own
    <3>1. made[k] = output(k)
      BY <1>1, <1>9
    <3>2. QED BY <1>4, <3>1
  <2> DEFINE index == [l \in DOMAIN call.outs |-> Len(tensors) + l]
  <2>2. index[k] = Len(tensors) + k
    BY <1>1
  <2> HIDE DEF index
  <2>3. call.outs[k] \in DOMAIN PortMap(call.outs, index)
        /\ PortMap(call.outs, index)[call.outs[k]] = index[k]
    BY <1>1, PortMapValue, PlanAssumption
  <2>4. node.out = PortMap(call.outs, index)
    BY <1>2 DEF index
  <2>5. QED BY <2>1, <2>2, <2>3, <2>4 DEF NamedBy
<1>7. \A k \in 1..Len(call.outs) : call.outs[k] \in Range(call.outs)
  BY <1>1 DEF Range
<1>8. QED BY <1>5, <1>6, <1>7 DEF made

\* What a builder does to the tensors and the nodes.
LEMMA AddNodeEffect ==
  ASSUME TypeOK, Len(nodes) < MaxNodes, NEW call \in AllCalls,
         NEW name \in Names \cup {<<>>}, NEW args \in [DOMAIN call.ins -> DOMAIN tensors],
         AddNode(call, name, args), NEW node, node = NewNode(call, name, args)
  PROVE  /\ nodes' = Append(nodes, node)
         /\ tensors' \in Seq(Tensor)
         /\ Len(tensors') = Len(tensors) + Len(call.outs)
         /\ \A t \in DOMAIN tensors :
              \/ tensors'[t] = tensors[t]
              \/ \E p \in Range(call.ins) : NamedBy(tensors'[t], t, node, p)
         /\ \A t \in Len(tensors) + 1 .. Len(tensors) + Len(call.outs) :
              \E p \in Range(call.outs) : NamedBy(tensors'[t], t, node, p)
<1> DEFINE named == NameInputs(node, call, args)
           made  == OutputTensors(node, call)
<1>1. nodes' = Append(nodes, node) /\ tensors' = named \o made
  BY DEF AddNode
<1>2. DOMAIN tensors = 1..Len(tensors) /\ Len(tensors) \in Nat
  BY DEF TypeOK
<1>3. DOMAIN named = DOMAIN tensors
  BY DEF NameInputs
<1>4. \A t \in DOMAIN tensors :
        /\ named[t] \in Tensor
        /\ named[t] = tensors[t] \/ \E p \in Range(call.ins) : NamedBy(named[t], t, node, p)
  BY NameInputsNames
<1>5. /\ made \in Seq(Tensor)
      /\ Len(made) = Len(call.outs)
      /\ \A k \in 1..Len(call.outs) :
           \E p \in Range(call.outs) : NamedBy(made[k], Len(tensors) + k, node, p)
  BY OutputTensorsNames
<1>6. named = [t \in DOMAIN tensors |-> named[t]]
  BY DEF NameInputs
<1> HIDE DEF named, made
<1>7. named \in Seq(Tensor) /\ Len(named) = Len(tensors)
  <2>1. named \in [1..Len(tensors) -> Tensor]
    BY <1>2, <1>4, <1>6
  <2>2. QED BY <1>2, <2>1
<1>8. /\ tensors' \in Seq(Tensor)
      /\ Len(tensors') = Len(tensors) + Len(call.outs)
      /\ \A t \in 1..Len(tensors) + Len(call.outs) :
           tensors'[t] = IF t <= Len(tensors) THEN named[t] ELSE made[t - Len(tensors)]
  <2>1. /\ named \o made \in Seq(Tensor)
        /\ Len(named \o made) = Len(named) + Len(made)
        /\ \A t \in 1..Len(named) + Len(made) :
             (named \o made)[t] = IF t <= Len(named) THEN named[t] ELSE made[t - Len(named)]
    BY <1>5, <1>7, ConcatProperties
  <2>2. QED BY <1>1, <1>5, <1>7, <2>1
<1>9. Len(call.outs) \in Nat
  BY <1>5
<1>10. \A t \in DOMAIN tensors : tensors'[t] = named[t]
  BY <1>2, <1>8, <1>9
<1>11. ASSUME NEW t \in Len(tensors) + 1 .. Len(tensors) + Len(call.outs)
       PROVE  \E p \in Range(call.outs) : NamedBy(tensors'[t], t, node, p)
  <2> DEFINE k == t - Len(tensors)
  <2>1. k \in 1..Len(call.outs) /\ Len(tensors) + k = t
    BY <1>2, <1>9
  <2>2. tensors'[t] = made[k]
    BY <1>2, <1>8, <1>9
  <2> HIDE DEF k
  <2>3. PICK p \in Range(call.outs) : NamedBy(made[k], Len(tensors) + k, node, p)
    BY <1>5, <2>1
  <2>4. QED BY <2>1, <2>2, <2>3
<1>12. QED BY <1>1, <1>4, <1>8, <1>10, <1>11

-----------------------------------------------------------------------------
(* The invariant: who made which name *)

\* The nodes that the caller did not name have the names of their numbers.
NodesNumbered ==
  \A k \in DOMAIN nodes :
    ~nodes[k].own => nodes[k].name = Append(nodes[k].call.kind, Numeral[k - 1])

\* A name the caller did not choose is that of a port at which the tensor stands.
TensorsNamed ==
  \A t \in DOMAIN tensors : ~tensors[t].own =>
    \E k \in DOMAIN nodes : \E p \in DOMAIN nodes[k].in \cup DOMAIN nodes[k].out :
      ~nodes[k].own /\ NamedBy(tensors[t], t, nodes[k], p)

IInv == TypeOK /\ NodesNumbered /\ TensorsNamed

\* Type correctness of the step of a builder.
LEMMA AddNodeType ==
  ASSUME TypeOK, Len(nodes) < MaxNodes, NEW call \in NextCalls,
         NEW name \in Names \cup {<<>>}, NEW args \in [DOMAIN call.ins -> DOMAIN tensors],
         AddNode(call, name, args)
  PROVE  TypeOK'
<1>0. PICK node : node = NewNode(call, name, args)
  OBVIOUS
<1>1. call \in AllCalls
  BY NextCallTyped
<1>2. call.outs \in Seq(Name) /\ Len(call.outs) \in Nat
  BY <1>1, CallsTyped DEF CallType
<1>3. /\ node.call = call
      /\ node.name \in Name \ {<<>>}
      /\ node.own \in BOOLEAN
      /\ node.in \in [Range(call.ins) -> DOMAIN tensors]
      /\ node.out \in [Range(call.outs) -> Len(tensors) + 1 .. Len(tensors) + Len(call.outs)]
  BY <1>0, <1>1, NewNodeTyped
<1>4. /\ nodes' = Append(nodes, node)
      /\ tensors' \in Seq(Tensor)
      /\ Len(tensors') = Len(tensors) + Len(call.outs)
  BY <1>0, <1>1, AddNodeEffect
<1>5. /\ DOMAIN tensors = 1..Len(tensors) /\ Len(tensors) \in Nat
      /\ DOMAIN tensors' = 1..Len(tensors) + Len(call.outs)
  BY <1>2, <1>4 DEF TypeOK
<1>6. /\ DOMAIN tensors \subseteq DOMAIN tensors'
      /\ Len(tensors) + 1 .. Len(tensors) + Len(call.outs) \subseteq DOMAIN tensors'
  BY <1>2, <1>5
<1>7. /\ nodes' \in Seq(Range(nodes) \cup {node})
      /\ DOMAIN nodes = 1..Len(nodes) /\ Len(nodes) \in Nat
      /\ DOMAIN nodes' = 1..Len(nodes) + 1 /\ Len(nodes') = Len(nodes) + 1
      /\ \A k \in DOMAIN nodes : nodes'[k] = nodes[k]
      /\ nodes'[Len(nodes) + 1] = node
  <2>1. nodes \in Seq(Range(nodes) \cup {node}) /\ node \in Range(nodes) \cup {node}
    BY DEF TypeOK
  <2>2. QED BY <1>4, <2>1
<1>8. \A k \in DOMAIN nodes' :
        /\ nodes'[k].call \in AllCalls
        /\ nodes'[k].name \in Name \ {<<>>}
        /\ nodes'[k].own \in BOOLEAN
        /\ nodes'[k].in  \in [Range(nodes'[k].call.ins)  -> DOMAIN tensors']
        /\ nodes'[k].out \in [Range(nodes'[k].call.outs) -> DOMAIN tensors']
  <2> TAKE k \in DOMAIN nodes'
  <2>1. CASE k \in DOMAIN nodes
    BY <1>6, <1>7, <2>1 DEF TypeOK
  <2>2. CASE k = Len(nodes) + 1
    BY <1>1, <1>3, <1>6, <1>7, <2>2
  <2>3. QED BY <1>7, <2>1, <2>2
<1>9. nodes' \in Seq(Range(nodes'))
  <2>1. \A k \in DOMAIN nodes' : nodes'[k] \in Range(nodes')
    BY DEF Range
  <2>2. nodes' \in [1..Len(nodes) + 1 -> Range(nodes')]
    BY <1>7, <2>1
  <2>3. QED BY <1>7, <2>2
<1>10. Len(nodes') <= MaxNodes
  BY <1>7, BoundAssumption
<1>11. sorted' \subseteq DOMAIN tensors' /\ valid' \in BOOLEAN /\ edited' \in BOOLEAN
  BY <1>6 DEF AddNode, TypeOK
<1>12. QED BY <1>4, <1>8, <1>9, <1>10, <1>11 DEF TypeOK

LEMMA NewTensorTyped ==
  ASSUME TypeOK, InputCount < Len(Inputs), NEW attr \in Inputs[InputCount + 1]
  PROVE  attr \in [name : Name, scalar : BOOLEAN, broadcast : BOOLEAN]
<1>1. DOMAIN tensors = 1..Len(tensors) /\ Len(tensors) \in Nat
  BY DEF TypeOK
<1>2. IsFiniteSet(DOMAIN tensors)
  BY <1>1, FS_Interval
<1>3. InputCount \in Nat
  BY <1>2, FS_Subset, FS_CardinalityType DEF InputCount
<1>4. InputCount + 1 \in DOMAIN Inputs
  BY <1>3, InputsAssumption
<1>5. QED BY <1>4, InputsAssumption

\* Every step keeps the types.
LEMMA TypeStep ==
  ASSUME TypeOK, [Next]_vars
  PROVE  TypeOK'
<1>0. /\ tensors \in Seq(Tensor) /\ Len(tensors) \in Nat
      /\ DOMAIN tensors = 1..Len(tensors)
  BY DEF TypeOK
<1>1. ASSUME tensors' \in Seq(Tensor), DOMAIN tensors \subseteq DOMAIN tensors',
             nodes' = nodes, sorted' \subseteq DOMAIN tensors',
             valid' \in BOOLEAN, edited' \in BOOLEAN
      PROVE  TypeOK'
  BY <1>1 DEF TypeOK
<1>2. CASE UNCHANGED vars
  BY <1>1, <1>2 DEF vars, TypeOK
<1>3. CASE InputCount < Len(Inputs) /\ \E attr \in Inputs[InputCount + 1] : NewTensor(attr)
  <2>1. PICK attr \in Inputs[InputCount + 1] : NewTensor(attr)
    BY <1>3
  <2>2. attr \in [name : Name, scalar : BOOLEAN, broadcast : BOOLEAN]
    BY <1>3, NewTensorTyped
  <2>3. PICK t \in Tensor : tensors' = Append(tensors, t)
    BY <2>1, <2>2 DEF NewTensor, Tensor
  <2>4. tensors' \in Seq(Tensor) /\ DOMAIN tensors \subseteq DOMAIN tensors'
    BY <1>0, <2>3
  <2>5. QED BY <1>1, <2>1, <2>4 DEF NewTensor, TypeOK
<1>4. CASE \E t \in DOMAIN tensors, name \in Names : ~tensors[t].own /\ SetName(t, name)
  <2>1. PICK t \in DOMAIN tensors, name \in Names : SetName(t, name)
    BY <1>4
  <2>2. [tensors[t] EXCEPT !.name = name, !.own = TRUE] \in Tensor
    <3>1. tensors[t] \in Tensor
      BY <1>0
    <3>2. name \in Name
      BY NamesAssumption
    <3>3. QED BY <3>1, <3>2 DEF Tensor
  <2>3. tensors' = [tensors EXCEPT ![t] = [tensors[t] EXCEPT !.name = name, !.own = TRUE]]
    BY <2>1 DEF SetName
  <2>4. tensors' \in Seq(Tensor) /\ DOMAIN tensors' = DOMAIN tensors
    BY <1>0, <2>2, <2>3
  <2>5. QED BY <1>1, <2>1, <2>4 DEF SetName, TypeOK
<1>5. CASE \E t \in DOMAIN tensors : SetOutput(t)
  <2>1. PICK t \in DOMAIN tensors : SetOutput(t)
    BY <1>5
  <2>2. [tensors[t] EXCEPT !.virtual = FALSE] \in Tensor
    <3>1. tensors[t] \in Tensor
      BY <1>0
    <3>2. QED BY <3>1 DEF Tensor
  <2>3. tensors' = [tensors EXCEPT ![t] = [tensors[t] EXCEPT !.virtual = FALSE]]
    BY <2>1 DEF SetOutput
  <2>4. tensors' \in Seq(Tensor) /\ DOMAIN tensors' = DOMAIN tensors
    BY <1>0, <2>2, <2>3
  <2>5. QED BY <1>1, <2>1, <2>4 DEF SetOutput, TypeOK
<1>6. CASE Len(nodes) < MaxNodes /\ \E call \in NextCalls, name \in Names \cup {<<>>} :
             \E args \in [DOMAIN call.ins -> DOMAIN tensors] : AddNode(call, name, args)
  BY <1>6, AddNodeType
<1>7. CASE Validate
  BY <1>1, <1>7 DEF Validate, SortTensors, TypeOK
<1>8. QED BY <1>2, <1>3, <1>4, <1>5, <1>6, <1>7 DEF Next

\* The step of a builder names one more node, and what it makes and takes.
LEMMA AddNodeNames ==
  ASSUME IInv, TypeOK', Len(nodes) < MaxNodes, NEW call \in NextCalls,
         NEW name \in Names \cup {<<>>}, NEW args \in [DOMAIN call.ins -> DOMAIN tensors],
         AddNode(call, name, args)
  PROVE  NodesNumbered' /\ TensorsNamed'
<1>0. PICK node : node = NewNode(call, name, args)
  OBVIOUS
<1>1. call \in AllCalls /\ TypeOK
  BY NextCallTyped DEF IInv
<1>2. /\ node.call = call
      /\ ~node.own => node.name = Append(call.kind, Numeral[Len(nodes)])
      /\ node.own \in BOOLEAN
      /\ DOMAIN node.in = Range(call.ins) /\ DOMAIN node.out = Range(call.outs)
  BY <1>0, <1>1, NewNodeTyped
<1>3. /\ nodes' = Append(nodes, node)
      /\ tensors' \in Seq(Tensor)
      /\ Len(tensors') = Len(tensors) + Len(call.outs)
      /\ \A t \in DOMAIN tensors :
           \/ tensors'[t] = tensors[t]
           \/ \E p \in Range(call.ins) : NamedBy(tensors'[t], t, node, p)
      /\ \A t \in Len(tensors) + 1 .. Len(tensors) + Len(call.outs) :
           \E p \in Range(call.outs) : NamedBy(tensors'[t], t, node, p)
  BY <1>0, <1>1, AddNodeEffect
<1>4. /\ DOMAIN nodes = 1..Len(nodes) /\ Len(nodes) \in Nat
      /\ DOMAIN nodes' = 1..Len(nodes) + 1
      /\ \A k \in DOMAIN nodes : nodes'[k] = nodes[k]
      /\ nodes'[Len(nodes) + 1] = node
  <2>1. nodes \in Seq(Range(nodes) \cup {node}) /\ node \in Range(nodes) \cup {node}
    BY <1>1 DEF TypeOK
  <2>2. QED BY <1>3, <2>1
<1>5. NodesNumbered'
  <2> SUFFICES ASSUME NEW k \in DOMAIN nodes', ~nodes'[k].own
               PROVE  nodes'[k].name = Append(nodes'[k].call.kind, Numeral[k - 1])
    BY DEF NodesNumbered
  <2>1. CASE k \in DOMAIN nodes
    BY <1>4, <2>1 DEF IInv, NodesNumbered
  <2>2. CASE k = Len(nodes) + 1
    <3>1. k - 1 = Len(nodes)
      BY <1>4, <2>2
    <3>2. QED BY <1>2, <1>4, <2>2, <3>1
  <2>3. QED BY <1>4, <2>1, <2>2
<1>6. TensorsNamed'
  <2> SUFFICES ASSUME NEW t \in DOMAIN tensors', ~tensors'[t].own
               PROVE  \E k \in DOMAIN nodes' : \E p \in DOMAIN nodes'[k].in \cup DOMAIN nodes'[k].out :
                        ~nodes'[k].own /\ NamedBy(tensors'[t], t, nodes'[k], p)
    BY DEF TensorsNamed, NamedBy
  <2>0. /\ DOMAIN tensors = 1..Len(tensors) /\ Len(tensors) \in Nat
        /\ DOMAIN tensors' = 1..Len(tensors')
    BY <1>1, <1>3 DEF TypeOK
  <2>1. ASSUME NEW p \in Range(call.ins) \cup Range(call.outs),
               NamedBy(tensors'[t], t, node, p)
        PROVE  \E k \in DOMAIN nodes' : \E q \in DOMAIN nodes'[k].in \cup DOMAIN nodes'[k].out :
                 ~nodes'[k].own /\ NamedBy(tensors'[t], t, nodes'[k], q)
    <3>1. ~node.own
      BY <2>1 DEF NamedBy
    <3>2. Len(nodes) + 1 \in DOMAIN nodes'
      BY <1>4
    <3>3. QED BY <1>2, <1>4, <2>1, <3>1, <3>2
  <2>2. CASE t \in DOMAIN tensors /\ tensors'[t] = tensors[t]
    <3>1. PICK k \in DOMAIN nodes :
            \E p \in DOMAIN nodes[k].in \cup DOMAIN nodes[k].out :
              ~nodes[k].own /\ NamedBy(tensors[t], t, nodes[k], p)
      BY <2>2 DEF IInv, TensorsNamed
    <3>2. k \in DOMAIN nodes' /\ nodes'[k] = nodes[k]
      BY <1>4
    <3>3. QED BY <2>2, <3>1, <3>2
  <2>3. CASE t \in DOMAIN tensors /\ tensors'[t] # tensors[t]
    BY <1>3, <2>1, <2>3
  <2>4. CASE t \in Len(tensors) + 1 .. Len(tensors) + Len(call.outs)
    BY <1>3, <2>1, <2>4
  <2>5. QED BY <1>3, <2>0, <2>2, <2>3, <2>4
<1>7. QED BY <1>5, <1>6

\* What makes no node and no name leaves all names accounted for.
LEMMA NamesKept ==
  ASSUME NodesNumbered, TensorsNamed, nodes' = nodes,
         \A t \in DOMAIN tensors' : ~tensors'[t].own =>
           /\ t \in DOMAIN tensors
           /\ tensors'[t].name = tensors[t].name
           /\ tensors'[t].own = tensors[t].own
  PROVE  NodesNumbered' /\ TensorsNamed'
<1>1. NodesNumbered'
  BY DEF NodesNumbered
<1>2. TensorsNamed'
  <2> SUFFICES ASSUME NEW t \in DOMAIN tensors', ~tensors'[t].own
               PROVE  \E k \in DOMAIN nodes' : \E p \in DOMAIN nodes'[k].in \cup DOMAIN nodes'[k].out :
                        ~nodes'[k].own /\ NamedBy(tensors'[t], t, nodes'[k], p)
    BY DEF TensorsNamed, NamedBy
  <2>1. t \in DOMAIN tensors /\ ~tensors[t].own
    OBVIOUS
  <2>2. PICK k \in DOMAIN nodes :
          \E p \in DOMAIN nodes[k].in \cup DOMAIN nodes[k].out :
            ~nodes[k].own /\ NamedBy(tensors[t], t, nodes[k], p)
    BY <2>1 DEF TensorsNamed
  <2>3. QED BY <2>2 DEF NamedBy
<1>3. QED BY <1>1, <1>2

\* The invariant is inductive.
LEMMA InvStep ==
  ASSUME IInv, [Next]_vars
  PROVE  IInv'
<1>0. TypeOK /\ NodesNumbered /\ TensorsNamed /\ TypeOK'
  BY TypeStep DEF IInv
<1>1. /\ tensors \in Seq(Tensor) /\ Len(tensors) \in Nat
      /\ DOMAIN tensors = 1..Len(tensors)
  BY <1>0 DEF TypeOK
<1>2. CASE UNCHANGED vars
  BY <1>0, <1>2, NamesKept DEF vars, IInv
<1>3. CASE InputCount < Len(Inputs) /\ \E attr \in Inputs[InputCount + 1] : NewTensor(attr)
  <2>1. PICK attr \in Inputs[InputCount + 1] : NewTensor(attr)
    BY <1>3
  <2>2. attr \in [name : Name, scalar : BOOLEAN, broadcast : BOOLEAN]
    BY <1>0, <1>3, NewTensorTyped
  <2>3. PICK r \in Tensor : tensors' = Append(tensors, r) /\ r.own
    <3> DEFINE r == [name |-> attr.name, own |-> TRUE, input |-> TRUE, virtual |-> FALSE,
                     scalar |-> attr.scalar, broadcast |-> attr.broadcast]
    <3>1. r \in Tensor /\ r.own
      BY <2>2 DEF Tensor
    <3>2. tensors' = Append(tensors, r)
      BY <2>1 DEF NewTensor
    <3>3. QED BY <3>1, <3>2
  <2>4. \A t \in DOMAIN tensors' : \/ t \in DOMAIN tensors /\ tensors'[t] = tensors[t]
                                   \/ tensors'[t] = r
    BY <1>1, <2>3
  <2>5. \A t \in DOMAIN tensors' : ~tensors'[t].own =>
          /\ t \in DOMAIN tensors
          /\ tensors'[t].name = tensors[t].name
          /\ tensors'[t].own = tensors[t].own
    BY <2>3, <2>4
  <2>6. nodes' = nodes
    BY <2>1 DEF NewTensor
  <2>7. QED BY <1>0, <2>5, <2>6, NamesKept DEF IInv
<1>4. CASE \E t \in DOMAIN tensors, name \in Names : ~tensors[t].own /\ SetName(t, name)
  <2>1. PICK t \in DOMAIN tensors, name \in Names : SetName(t, name)
    BY <1>4
  <2>2. tensors' = [tensors EXCEPT ![t] = [tensors[t] EXCEPT !.name = name, !.own = TRUE]]
    BY <2>1 DEF SetName
  <2>3. tensors[t] \in Tensor
    BY <1>1
  <2>4. [tensors[t] EXCEPT !.name = name, !.own = TRUE].own
    BY <2>3 DEF Tensor
  <2>5. \A s \in DOMAIN tensors' : ~tensors'[s].own =>
          /\ s \in DOMAIN tensors
          /\ tensors'[s].name = tensors[s].name
          /\ tensors'[s].own = tensors[s].own
    BY <1>1, <2>2, <2>4
  <2>6. nodes' = nodes
    BY <2>1 DEF SetName
  <2>7. QED BY <1>0, <2>5, <2>6, NamesKept DEF IInv
<1>5. CASE \E t \in DOMAIN tensors : SetOutput(t)
  <2>1. PICK t \in DOMAIN tensors : SetOutput(t)
    BY <1>5
  <2>2. tensors' = [tensors EXCEPT ![t] = [tensors[t] EXCEPT !.virtual = FALSE]]
    BY <2>1 DEF SetOutput
  <2>3. tensors[t] \in Tensor
    BY <1>1
  <2>4. /\ [tensors[t] EXCEPT !.virtual = FALSE].own = tensors[t].own
        /\ [tensors[t] EXCEPT !.virtual = FALSE].name = tensors[t].name
    BY <2>3 DEF Tensor
  <2>5. \A s \in DOMAIN tensors' : ~tensors'[s].own =>
          /\ s \in DOMAIN tensors
          /\ tensors'[s].name = tensors[s].name
          /\ tensors'[s].own = tensors[s].own
    BY <1>1, <2>2, <2>4
  <2>6. nodes' = nodes
    BY <2>1 DEF SetOutput
  <2>7. QED BY <1>0, <2>5, <2>6, NamesKept DEF IInv
<1>6. CASE Len(nodes) < MaxNodes /\ \E call \in NextCalls, name \in Names \cup {<<>>} :
             \E args \in [DOMAIN call.ins -> DOMAIN tensors] : AddNode(call, name, args)
  BY <1>0, <1>6, AddNodeNames DEF IInv
<1>7. CASE Validate
  BY <1>0, <1>7, NamesKept DEF Validate, IInv
<1>8. QED BY <1>2, <1>3, <1>4, <1>5, <1>6, <1>7 DEF Next

\* Two nodes that the builders numbered have two names, also as the beginnings
\* of the names of their ports.
LEMMA NodeOfName ==
  ASSUME IInv, NEW k \in DOMAIN nodes, NEW l \in DOMAIN nodes,
         ~nodes[k].own, ~nodes[l].own, NEW p \in Name, NEW q \in Name,
         nodes[k].name \o p = nodes[l].name \o q
  PROVE  k = l /\ p = q
<1>1. nodes[k].call \in AllCalls /\ nodes[l].call \in AllCalls
  BY DEF IInv, TypeOK
<1>2. k - 1 \in 0..MaxNodes /\ l - 1 \in 0..MaxNodes /\ k \in Nat /\ l \in Nat
  BY BoundAssumption DEF IInv, TypeOK
<1>3. Numeral[k - 1] \in Word /\ Numeral[l - 1] \in Word
  BY <1>2, NumeralAssumption
<1>4. MadeUp(nodes[k].call.kind, Numeral[k - 1], p)
        = MadeUp(nodes[l].call.kind, Numeral[l - 1], q)
  <2>1. nodes[k].name = Append(nodes[k].call.kind, Numeral[k - 1])
    BY DEF IInv, NodesNumbered
  <2>2. nodes[l].name = Append(nodes[l].call.kind, Numeral[l - 1])
    BY DEF IInv, NodesNumbered
  <2>3. QED BY <2>1, <2>2 DEF MadeUp
<1>5. Numeral[k - 1] = Numeral[l - 1] /\ p = q
  <2>1. PICK c \in AllCalls, d \in AllCalls : c = nodes[k].call /\ d = nodes[l].call
    BY <1>1
  <2>2. PICK i \in Word, j \in Word : i = Numeral[k - 1] /\ j = Numeral[l - 1]
    BY <1>3
  <2>3. MadeUp(c.kind, i, p) = MadeUp(d.kind, j, q)
    BY <1>4, <2>1, <2>2
  <2>4. i = j
    BY <2>3, NameNumber
  <2>5. p = q
    BY <2>3, NamePort
  <2>6. QED BY <2>2, <2>4, <2>5
<1>6. k - 1 = l - 1
  BY <1>2, <1>5, NumeralAssumption
<1>7. QED BY <1>2, <1>5, <1>6

\* The ports of a node are named, and its inputs are none of its outputs.
LEMMA PortsTyped ==
  ASSUME TypeOK, NEW k \in DOMAIN nodes
  PROVE  /\ DOMAIN nodes[k].in \cup DOMAIN nodes[k].out \subseteq Name \ {<<>>}
         /\ DOMAIN nodes[k].in \cap DOMAIN nodes[k].out = {}
<1> DEFINE call == nodes[k].call
<1>1. call \in AllCalls /\ DOMAIN nodes[k].in = Range(call.ins)
                        /\ DOMAIN nodes[k].out = Range(call.outs)
  BY DEF TypeOK
<1> HIDE DEF call
<1>2. call.ins \in Seq(Name) /\ call.outs \in Seq(Name)
  BY <1>1, CallsTyped DEF CallType
<1>3. Range(call.ins) \subseteq Name /\ Range(call.outs) \subseteq Name
  BY <1>2 DEF Range
<1>4. QED BY <1>1, <1>3, PlanAssumption

LEMMA InvImpliesUnique == ASSUME IInv PROVE DefaultNamesUnique
<1> DEFINE made(x) == ~x.own /\ x.name # <<>>
<1>0. TypeOK /\ TensorsNamed
  BY DEF IInv
<1>1. ASSUME NEW t \in DOMAIN tensors, ~tensors[t].own
      PROVE  \E k \in DOMAIN nodes : ~nodes[k].own /\ \E p \in Name \ {<<>>} :
               /\ p \in DOMAIN nodes[k].in \cup DOMAIN nodes[k].out
               /\ NamedBy(tensors[t], t, nodes[k], p)
  <2>1. PICK k \in DOMAIN nodes :
          \E p \in DOMAIN nodes[k].in \cup DOMAIN nodes[k].out :
            ~nodes[k].own /\ NamedBy(tensors[t], t, nodes[k], p)
    BY <1>0, <1>1 DEF TensorsNamed
  <2>2. QED BY <1>0, <2>1, PortsTyped
<1>2. ASSUME NEW s \in DOMAIN tensors, NEW t \in DOMAIN tensors,
             made(tensors[s]), made(tensors[t]), tensors[s].name = tensors[t].name
      PROVE  s = t
  <2>1. PICK k \in DOMAIN nodes : ~nodes[k].own /\ \E p \in Name \ {<<>>} :
          p \in DOMAIN nodes[k].in \cup DOMAIN nodes[k].out /\ NamedBy(tensors[s], s, nodes[k], p)
    BY <1>1, <1>2
  <2>2. PICK p \in Name \ {<<>>} :
          p \in DOMAIN nodes[k].in \cup DOMAIN nodes[k].out /\ NamedBy(tensors[s], s, nodes[k], p)
    BY <2>1
  <2>3. PICK l \in DOMAIN nodes : ~nodes[l].own /\ \E q \in Name \ {<<>>} :
          q \in DOMAIN nodes[l].in \cup DOMAIN nodes[l].out /\ NamedBy(tensors[t], t, nodes[l], q)
    BY <1>1, <1>2
  <2>4. PICK q \in Name \ {<<>>} :
          q \in DOMAIN nodes[l].in \cup DOMAIN nodes[l].out /\ NamedBy(tensors[t], t, nodes[l], q)
    BY <2>3
  <2>5. nodes[k].name \o p = nodes[l].name \o q
    BY <1>2, <2>2, <2>4 DEF NamedBy
  <2>6. k = l /\ p = q
    BY <2>1, <2>3, <2>5, NodeOfName
  <2>7. QED BY <1>0, <2>2, <2>4, <2>6, PortsTyped DEF NamedBy
<1>3. ASSUME NEW k \in DOMAIN nodes, NEW l \in DOMAIN nodes,
             made(nodes[k]), made(nodes[l]), nodes[k].name = nodes[l].name
      PROVE  k = l
  <2>1. <<>> \in Name
    BY DEF Name
  <2>2. QED BY <1>3, <2>1, NodeOfName
<1>4. ASSUME NEW t \in DOMAIN tensors, NEW k \in DOMAIN nodes,
             made(tensors[t]), made(nodes[k]), tensors[t].name = nodes[k].name
      PROVE  FALSE
  <2>1. PICK l \in DOMAIN nodes : ~nodes[l].own /\ \E q \in Name \ {<<>>} :
          q \in DOMAIN nodes[l].in \cup DOMAIN nodes[l].out /\ NamedBy(tensors[t], t, nodes[l], q)
    BY <1>1, <1>4
  <2>2. PICK q \in Name \ {<<>>} : NamedBy(tensors[t], t, nodes[l], q)
    BY <2>1
  <2>3. <<>> \in Name /\ nodes[k].name \in Seq(Word)
    BY <1>0 DEF TypeOK, Name
  <2>4. nodes[k].name \o <<>> = nodes[l].name \o q
    BY <1>4, <2>2, <2>3, ConcatEmptySeq DEF NamedBy
  <2>5. <<>> = q
    BY <1>4, <2>1, <2>3, <2>4, NodeOfName
  <2>6. QED BY <2>2, <2>5
<1>5. QED BY <1>2, <1>3, <1>4 DEF DefaultNamesUnique

LEMMA InvCorrect == Spec => []IInv
<1>1. Init => IInv
  <2> SUFFICES ASSUME Init PROVE IInv
    OBVIOUS
  <2>1. tensors \in Seq(Tensor) /\ DOMAIN tensors = {}
    BY DEF Init
  <2>2. nodes \in Seq(Range(nodes)) /\ DOMAIN nodes = {} /\ Len(nodes) <= MaxNodes
    BY BoundAssumption DEF Init
  <2>3. TypeOK
    BY <2>1, <2>2 DEF Init, TypeOK
  <2>4. QED BY <2>1, <2>2, <2>3 DEF IInv, NodesNumbered, TensorsNamed
<1>2. IInv /\ [Next]_vars => IInv'
  BY InvStep
<1>3. QED BY <1>1, <1>2, PTL DEF Spec

-----------------------------------------------------------------------------

\* Every reachable graph is well typed: the nodes of the plans, each with the
\* tensors of its ports, which are tensors of the graph.
THEOREM TypeOKCorrect == Spec => []TypeOK
<1>1. IInv => TypeOK
  BY DEF IInv
<1>2. QED BY <1>1, InvCorrect, PTL

\* The names that the builders make up never meet, for every plan and length of
\* graph, and whatever the caller names in between.
THEOREM DefaultNamesUniqueCorrect == Spec => []DefaultNamesUnique
<1>1. IInv => DefaultNamesUnique
  BY InvImpliesUnique
<1>2. QED BY <1>1, InvCorrect, PTL

-----------------------------------------------------------------------------
(* Sequences of sequences, one after the other                             *)

\* The members of ss up to n, one after the other.
PartialJoins(ss, n, f) ==
  /\ f = [i \in 1..n |-> f[i]]
  /\ f[1] = ss[1]
  /\ \A i \in 2..n : f[i] = f[i - 1] \o ss[i]

LEMMA PartialJoinsExist ==
  ASSUME NEW ss, NEW n \in Nat \ {0}
  PROVE  \E f : PartialJoins(ss, n, f)
<1> DEFINE Bad == {m \in Nat \ {0} : ~\E f : PartialJoins(ss, m, f)}
<1> SUFFICES ASSUME Bad # {} PROVE FALSE
  OBVIOUS
<1>1. PICK m \in Bad : \A k \in Bad : m <= k
  <2>1. Bad \in SUBSET Nat
    OBVIOUS
  <2> HIDE DEF Bad
  <2> QED BY <2>1, Least
<1>2. m # 1
  <2>1. PartialJoins(ss, 1, [i \in 1..1 |-> ss[1]])
    BY DEF PartialJoins
  <2> QED BY <2>1
<1>3. m - 1 \in Nat \ {0} /\ m - 1 \notin Bad
  BY <1>1, <1>2
<1>4. PICK f : PartialJoins(ss, m - 1, f)
  BY <1>3
<1> DEFINE g == [i \in 1..m |-> IF i = m THEN f[m - 1] \o ss[m] ELSE f[i]]
<1>5. g = [i \in 1..m |-> g[i]] /\ g[1] = ss[1]
  <2>1. 1 \in 1..m /\ f[1] = ss[1]
    BY <1>3, <1>4 DEF PartialJoins
  <2> QED BY <1>2, <2>1
<1>6. ASSUME NEW i \in 2..m PROVE g[i] = g[i - 1] \o ss[i]
  <2>1. CASE i = m
    <3>1. m \in 1..m /\ m - 1 \in 1..m /\ m - 1 # m
      BY <1>3
    <3>2. g[m] = f[m - 1] \o ss[m] /\ g[m - 1] = f[m - 1]
      BY <3>1
    <3> HIDE DEF g
    <3> QED BY <2>1, <3>2
  <2>2. CASE i # m
    <3>1. i \in 2..m - 1 /\ i \in 1..m /\ i - 1 \in 1..m /\ i - 1 # m
      BY <1>3, <2>2
    <3>2. f[i] = f[i - 1] \o ss[i]
      BY <1>4, <3>1 DEF PartialJoins
    <3> QED BY <2>2, <3>1, <3>2
  <2> QED BY <2>1, <2>2
<1>7. PartialJoins(ss, m, g)
  <2> HIDE DEF g
  <2> QED BY <1>5, <1>6 DEF PartialJoins
<1> QED BY <1>1, <1>7

LEMMA FlattenIsPrefix ==
  ASSUME NEW ss, Len(ss) \in Nat \ {0}
  PROVE  \E f : PartialJoins(ss, Len(ss), f) /\ FlattenSeq(ss) = f[Len(ss)]
<1> DEFINE n == Len(ss)
           Rec(f) == f = [i \in 1..n |-> IF i = 1 THEN ss[i] ELSE f[i - 1] \o ss[i]]
<1>1. PICK g : PartialJoins(ss, n, g)
  BY PartialJoinsExist
<1>2. Rec(g)
  <2>2. g = [i \in 1..n |-> g[i]]
    BY <1>1 DEF PartialJoins
  <2>3. \A i \in 1..n : g[i] = IF i = 1 THEN ss[i] ELSE g[i - 1] \o ss[i]
    <3> TAKE i \in 1..n
    <3>1. CASE i = 1
      BY <1>1, <3>1 DEF PartialJoins
    <3>2. CASE i # 1
      <4>1. i \in 2..n
        BY <3>2
      <4>2. g[i] = g[i - 1] \o ss[i]
        BY <1>1, <4>1 DEF PartialJoins
      <4> QED BY <3>2, <4>2
    <3> QED BY <3>1, <3>2
  <2> QED BY <2>2, <2>3
<1> DEFINE f == CHOOSE h : Rec(h)
<1>3. Rec(f)
  <2> HIDE DEF Rec
  <2> QED BY <1>2
<1>4. FlattenSeq(ss) = f[n]
  BY DEF FlattenSeq
<1>5. PartialJoins(ss, n, f)
  <2> HIDE DEF f
  <2>1. f = [i \in 1..n |-> f[i]]
    BY <1>3
  <2>2. \A i \in 1..n : f[i] = IF i = 1 THEN ss[i] ELSE f[i - 1] \o ss[i]
    <3>1. \E h : h = f /\ Rec(h)
      BY <1>3
    <3>2. PICK h : h = f /\ h = [i \in 1..n |-> IF i = 1 THEN ss[i] ELSE h[i - 1] \o ss[i]]
      BY <3>1
    <3> QED BY <3>2
  <2>3. 1 \in 1..n /\ \A i \in 2..n : i \in 1..n /\ i # 1
    OBVIOUS
  <2> QED BY <2>1, <2>2, <2>3 DEF PartialJoins
<1> QED BY <1>4, <1>5

\* Where the members of ss are in F.
Places(ss, F, at) ==
  /\ at \in [0..Len(ss) -> Nat]
  /\ at[0] = 0 /\ at[Len(ss)] = Len(F)
  /\ \A i \in 1..Len(ss) : at[i] = at[i - 1] + Len(ss[i])
  /\ \A i \in 1..Len(ss) : \A b \in 1..Len(ss[i]) : F[at[i - 1] + b] = ss[i][b]

\* Later members are at later places.
LEMMA PlacesMonotone ==
  ASSUME NEW S, NEW ss \in Seq(Seq(S)), NEW F, NEW at, Places(ss, F, at),
         NEW i \in 0..Len(ss), NEW j \in i..Len(ss)
  PROVE  at[i] <= at[j]
<1> DEFINE n == Len(ss)
           Bad == {k \in i..n : ~(at[i] <= at[k])}
<1> SUFFICES ASSUME ~(at[i] <= at[j]) PROVE FALSE
  OBVIOUS
<1>1. /\ n \in Nat /\ at \in [0..n -> Nat]
      /\ \A k \in 1..n : at[k] = at[k - 1] + Len(ss[k]) /\ Len(ss[k]) \in Nat
  BY DEF Places
<1>2. i..n \subseteq Nat
  BY <1>1
<1>3. PICK k \in Bad : \A l \in Bad : k <= l
  <2>1. Bad \in SUBSET Nat /\ Bad # {}
    BY <1>2
  <2> HIDE DEF Bad
  <2> QED BY <2>1, Least
<1>4. at[i] \in Nat /\ at[i] <= at[i] /\ k \in i..n /\ ~(at[i] <= at[k])
  BY <1>1, <1>3
<1>5. k # i /\ k \in 1..n /\ k - 1 \in i..n /\ k - 1 \in 0..n /\ k \in 0..n /\ ~(k <= k - 1)
  BY <1>1, <1>4
<1>6. at[i] <= at[k - 1]
  BY <1>3, <1>5
<1>7. at[k] = at[k - 1] + Len(ss[k]) /\ Len(ss[k]) \in Nat /\ at[k - 1] \in Nat /\ at[k] \in Nat
  BY <1>1, <1>5
<1> QED BY <1>4, <1>6, <1>7

\* One more member.
LEMMA PlacesNext ==
  ASSUME NEW S, NEW ss \in Seq(Seq(S)), NEW s \in Seq(S), NEW F \in Seq(S), NEW at,
         Places(ss, F, at)
  PROVE  \E to : Places(Append(ss, s), F \o s, to)
<1> DEFINE n == Len(ss)
           all == Append(ss, s)
           to == [i \in 0..n + 1 |-> IF i = n + 1 THEN Len(F) + Len(s) ELSE at[i]]
           G == F \o s
<1>1. n \in Nat /\ Len(F) \in Nat /\ Len(s) \in Nat /\ Len(all) = n + 1
  OBVIOUS
<1>2. all[n + 1] = s /\ \A i \in 1..n : all[i] = ss[i]
  OBVIOUS
<1>3. /\ Len(G) = Len(F) + Len(s)
      /\ \A p \in 1..Len(F) : G[p] = F[p]
      /\ \A b \in 1..Len(s) : G[Len(F) + b] = s[b]
  OBVIOUS
<1>4. /\ at \in [0..n -> Nat] /\ at[0] = 0 /\ at[n] = Len(F)
      /\ \A i \in 1..n : at[i] = at[i - 1] + Len(ss[i])
      /\ \A i \in 1..n : \A b \in 1..Len(ss[i]) : F[at[i - 1] + b] = ss[i][b]
  BY DEF Places
<1>7. \A i \in 1..n : ss[i] \in Seq(S) /\ Len(ss[i]) \in Nat
  OBVIOUS
<1> HIDE DEF all, G, n
<1>5. to \in [0..n + 1 -> Nat] /\ to[n + 1] = Len(F) + Len(s) /\ \A i \in 0..n : to[i] = at[i]
  BY <1>1, <1>4
<1> HIDE DEF to
<1>6. ASSUME NEW i \in 1..n + 1 PROVE to[i] = to[i - 1] + Len(all[i])
  <2>1. CASE i = n + 1
    <3>1. i - 1 = n /\ n \in 0..n
      BY <1>1, <2>1
    <3>2. to[i - 1] = Len(F) /\ to[i] = Len(F) + Len(s) /\ all[i] = s
      BY <1>2, <1>4, <1>5, <2>1, <3>1
    <3> QED BY <3>2
  <2>2. CASE i # n + 1
    <3>1. i \in 1..n /\ i \in 0..n /\ i - 1 \in 0..n
      BY <1>1, <2>2
    <3> QED BY <1>2, <1>4, <1>5, <3>1
  <2> QED BY <2>1, <2>2
<1>8. \A i \in 0..n : \A j \in i..n : at[i] <= at[j]
  BY PlacesMonotone DEF n
<1>9. ASSUME NEW i \in 1..n + 1, NEW b \in 1..Len(all[i])
      PROVE  G[to[i - 1] + b] = all[i][b]
  <2>1. CASE i = n + 1
    <3>1. i - 1 = n /\ n \in 0..n
      BY <1>1, <2>1
    <3>2. to[i - 1] = Len(F) /\ all[i] = s
      BY <1>2, <1>4, <1>5, <2>1, <3>1
    <3> QED BY <1>3, <3>2
  <2>2. CASE i # n + 1
    <3>1. i \in 1..n /\ i \in 0..n /\ i - 1 \in 0..n /\ n \in i..n
      BY <1>1, <2>2
    <3>2. b \in 1..Len(ss[i]) /\ F[at[i - 1] + b] = ss[i][b] /\ to[i - 1] = at[i - 1]
      BY <1>2, <1>4, <1>5, <3>1
    <3>3. at[i] = at[i - 1] + Len(ss[i]) /\ at[i] <= Len(F) /\ at[i - 1] \in Nat /\ Len(ss[i]) \in Nat
      BY <1>4, <1>7, <1>8, <3>1
    <3>5. \A x, y, z, w \in Nat : \A c \in 1..y : z = x + y /\ z <= w => x + c \in 1..w
      OBVIOUS
    <3>6. at[i] \in Nat
      BY <1>4, <3>1
    <3>4. at[i - 1] + b \in 1..Len(F)
      BY <1>1, <3>2, <3>3, <3>5, <3>6
    <3> QED BY <1>2, <1>3, <3>1, <3>2, <3>4
  <2> QED BY <2>1, <2>2
<1>10. Places(all, G, to)
  <2>1. 0 \in 0..n /\ to[0] = 0 /\ to[Len(all)] = Len(G)
    BY <1>1, <1>3, <1>4, <1>5
  <2> QED BY <1>1, <1>5, <1>6, <1>9, <2>1 DEF Places
<1> QED BY <1>10 DEF all, G

LEMMA PlacesOfPrefix ==
  ASSUME NEW S, NEW ss \in Seq(Seq(S)), NEW f, Len(ss) > 0, PartialJoins(ss, Len(ss), f),
         NEW n \in 1..Len(ss)
  PROVE  f[n] \in Seq(S) /\ \E at : Places(SubSeq(ss, 1, n), f[n], at)
<1> DEFINE Good(m) == f[m] \in Seq(S) /\ \E at : Places(SubSeq(ss, 1, m), f[m], at)
           Bad == {m \in 1..Len(ss) : ~Good(m)}
<1> SUFFICES ASSUME Bad # {} PROVE FALSE
  OBVIOUS
<1>1. PICK m \in Bad : \A k \in Bad : m <= k
  <2>1. Bad \in SUBSET Nat
    OBVIOUS
  <2> HIDE DEF Bad
  <2> QED BY <2>1, Least
<1>2. m \in 1..Len(ss) /\ ~Good(m) /\ Len(ss) \in Nat
  BY <1>1
<1>3. m # 1
  <2> SUFFICES Good(1)
    BY <1>2
  <2>1. f[1] = ss[1] /\ ss[1] \in Seq(S) /\ 1 \in 1..Len(ss)
    BY <1>2 DEF PartialJoins
  <2>2. SubSeq(ss, 1, 1) = <<ss[1]>>
    <3>1. SubSeq(ss, 1, 1) = [i \in 1..1 |-> ss[i]]
      BY <1>2
    <3>2. [i \in 1..1 |-> ss[i]] = <<ss[1]>>
      OBVIOUS
    <3> QED BY <3>1, <3>2
  <2> DEFINE at == [i \in 0..1 |-> IF i = 0 THEN 0 ELSE Len(ss[1])]
  <2>3. at \in [0..1 -> Nat] /\ at[0] = 0 /\ at[1] = Len(ss[1])
    BY <2>1
  <2>4. Places(<<ss[1]>>, ss[1], at)
    <3> HIDE DEF at
    <3>1. \A i \in 1..1 : i = 1
      OBVIOUS
    <3>2. \A b \in 1..Len(ss[1]) : 0 + b = b
      BY <2>1
    <3> QED BY <2>1, <2>3, <3>1, <3>2 DEF Places
  <2> QED BY <2>1, <2>2, <2>4
<1>4. m - 1 \in 1..Len(ss) /\ Good(m - 1)
  <2>1. m - 1 \in 1..Len(ss)
    BY <1>2, <1>3
  <2>2. m \in Nat /\ ~(m <= m - 1)
    BY <1>2
  <2>3. m - 1 \notin Bad
    <3> HIDE DEF Bad
    <3> QED BY <1>1, <2>2
  <2> HIDE DEF Good
  <2> QED BY <2>1, <2>3
<1>5. f[m] = f[m - 1] \o ss[m]
  <2>1. m \in 2..Len(ss)
    BY <1>2, <1>3
  <2> QED BY <2>1 DEF PartialJoins
<1>6. PICK at : Places(SubSeq(ss, 1, m - 1), f[m - 1], at)
  BY <1>4
<1>7. SubSeq(ss, 1, m) = Append(SubSeq(ss, 1, m - 1), ss[m])
  BY <1>2, <1>4
<1>8. SubSeq(ss, 1, m - 1) \in Seq(Seq(S)) /\ ss[m] \in Seq(S) /\ f[m - 1] \in Seq(S)
  BY <1>2, <1>4
<1>9. \E to : Places(Append(SubSeq(ss, 1, m - 1), ss[m]), f[m - 1] \o ss[m], to)
  BY <1>6, <1>8, PlacesNext
<1>10. f[m] \in Seq(S)
  BY <1>5, <1>8
<1> QED BY <1>2, <1>5, <1>7, <1>9, <1>10

\* A flattened sequence is made of its members, one after the other.
LEMMA FlattenPlaces ==
  ASSUME NEW S, NEW ss \in Seq(Seq(S))
  PROVE  FlattenSeq(ss) \in Seq(S) /\ \E at : Places(ss, FlattenSeq(ss), at)
<1>1. Len(ss) \in Nat
  OBVIOUS
<1>2. CASE Len(ss) = 0
  <2>1. ss = <<>> /\ FlattenSeq(ss) = <<>>
    BY <1>2 DEF FlattenSeq
  <2> DEFINE at == [i \in 0..0 |-> 0]
  <2>2. at \in [0..0 -> Nat] /\ at[0] = 0
    OBVIOUS
  <2>3. Places(<<>>, <<>>, at)
    <3> HIDE DEF at
    <3>1. Len(<<>>) = 0 /\ 1..0 = {}
      OBVIOUS
    <3> QED BY <2>2, <3>1 DEF Places
  <2> QED BY <2>1, <2>3
<1>3. CASE Len(ss) # 0
  <2>1. PICK f : PartialJoins(ss, Len(ss), f) /\ FlattenSeq(ss) = f[Len(ss)]
    BY <1>1, <1>3, FlattenIsPrefix
  <2>2. f[Len(ss)] \in Seq(S) /\ \E at : Places(SubSeq(ss, 1, Len(ss)), f[Len(ss)], at)
    BY <1>1, <1>3, <2>1, PlacesOfPrefix
  <2>3. SubSeq(ss, 1, Len(ss)) = ss
    BY <1>1, <1>3
  <2> QED BY <2>1, <2>2, <2>3
<1> QED BY <1>2, <1>3

-----------------------------------------------------------------------------
(* Pieces of programs                                                      *)

\* The values defined before statement i.
Before(p, i) == UNION {Range(p[j].def) : j \in 1..i - 1}

Statements(p) == p \in Seq({p[i] : i \in 1..Len(p)})

\* What a statement of a node defines: a list of values, and not an empty one.
Results(def) == def \in Seq(Range(def)) /\ def # <<>>

LEMMA ResultsOf ==
  ASSUME NEW S, NEW def \in Seq(S), def # <<>>
  PROVE  Results(def)
<1>1. def \in [1..Len(def) -> Range(def)] /\ Len(def) \in Nat
  <2>1. DOMAIN def = 1..Len(def) /\ Len(def) \in Nat /\ def = [i \in 1..Len(def) |-> def[i]]
    OBVIOUS
  <2> QED BY <2>1 DEF Range
<1> QED BY <1>1 DEF Results

\* Every statement of p defines values, and uses those of K and what p defined before; at
\* the end of p there are also those of A.
Adds(p, K, A) ==
  /\ Statements(p)
  /\ \A i \in 1..Len(p) : Results(p[i].def) /\ p[i].use \subseteq K \cup Before(p, i)
  /\ A \subseteq Before(p, Len(p) + 1)

LEMMA StatementsIn ==
  ASSUME NEW S, NEW p \in Seq(S)
  PROVE  Statements(p) /\ {p[i] : i \in 1..Len(p)} \subseteq S
<1>1. DOMAIN p = 1..Len(p) /\ Len(p) \in Nat /\ \A i \in 1..Len(p) : p[i] \in S
  OBVIOUS
<1>2. p = [i \in 1..Len(p) |-> p[i]]
  BY <1>1
<1> DEFINE T == {p[i] : i \in 1..Len(p)}
<1>3. p \in [1..Len(p) -> T] /\ T \subseteq S
  BY <1>1, <1>2
<1>4. Len(p) \in Nat
  OBVIOUS
<1>5. p \in Seq(T)
  <2> HIDE DEF T
  <2> QED BY <1>3, <1>4
<1> QED BY <1>3, <1>5 DEF Statements

\* The places of the statements of p \o q.
LEMMA Joined ==
  ASSUME NEW p, NEW q, Statements(p), Statements(q)
  PROVE  /\ Statements(p \o q)
         /\ Len(p) \in Nat /\ Len(q) \in Nat /\ Len(p \o q) = Len(p) + Len(q)
         /\ \A i \in 1..Len(p) : (p \o q)[i] = p[i]
         /\ \A i \in 1..Len(q) : (p \o q)[Len(p) + i] = q[i]
<1> DEFINE S == {p[i] : i \in 1..Len(p)}
           T == {q[i] : i \in 1..Len(q)}
<1>1. p \in Seq(S \cup T) /\ q \in Seq(S \cup T)
  <2>1. p \in Seq(S) /\ q \in Seq(T)
    BY DEF Statements
  <2> HIDE DEF S, T
  <2> QED BY <2>1
<1> HIDE DEF S, T
<1>2. p \o q \in Seq(S \cup T)
  BY <1>1
<1>3. Statements(p \o q)
  BY <1>2, StatementsIn
<1> QED BY <1>1, <1>3

LEMMA InBefore ==
  ASSUME NEW p, NEW i, NEW v
  PROVE  v \in Before(p, i) <=> \E j \in 1..i - 1 : v \in Range(p[j].def)
BY DEF Before

LEMMA BeforeJoined ==
  ASSUME NEW p, NEW q, Statements(p), Statements(q)
  PROVE  /\ \A i \in 1..Len(p) + 1 : Before(p, i) \subseteq Before(p \o q, i)
         /\ \A i \in 1..Len(q) + 1 :
              Before(p, Len(p) + 1) \cup Before(q, i) \subseteq Before(p \o q, Len(p) + i)
<1>1. /\ Len(p) \in Nat /\ Len(q) \in Nat
      /\ \A i \in 1..Len(p) : (p \o q)[i] = p[i]
      /\ \A i \in 1..Len(q) : (p \o q)[Len(p) + i] = q[i]
  BY Joined
<1> DEFINE r == p \o q
           m == Len(p)
           n == Len(q)
<1> HIDE DEF r, m, n
<1>2. /\ m \in Nat /\ n \in Nat
      /\ \A i \in 1..m : r[i] = p[i]
      /\ \A i \in 1..n : r[m + i] = q[i]
  BY <1>1 DEF r, m, n
<1>3. ASSUME NEW i \in 1..m + 1, NEW v \in Before(p, i) PROVE v \in Before(r, i)
  <2>1. PICK j \in 1..i - 1 : v \in Range(p[j].def)
    BY InBefore
  <2>2. j \in 1..m /\ r[j] = p[j]
    BY <1>2
  <2> QED BY <2>1, <2>2, InBefore
<1>4. ASSUME NEW i \in 1..n + 1, NEW v \in Before(p, m + 1) PROVE v \in Before(r, m + i)
  <2>1. PICK j \in 1..(m + 1) - 1 : v \in Range(p[j].def)
    BY InBefore
  <2>2. j \in 1..m /\ j \in 1..(m + i) - 1 /\ r[j] = p[j]
    BY <1>2
  <2> QED BY <2>1, <2>2, InBefore
<1>5. ASSUME NEW i \in 1..n + 1, NEW v \in Before(q, i) PROVE v \in Before(r, m + i)
  <2>1. PICK j \in 1..i - 1 : v \in Range(q[j].def)
    BY InBefore
  <2>2. j \in 1..n /\ m + j \in 1..(m + i) - 1
    BY <1>2
  <2>3. r[m + j] = q[j]
    BY <1>2, <2>2
  <2>4. v \in Range(r[m + j].def)
    BY <2>1, <2>3
  <2> QED BY <2>2, <2>4, InBefore
<1> QED BY <1>3, <1>4, <1>5 DEF r, m, n

LEMMA AddsMore ==
  ASSUME NEW p, NEW K, NEW A, Adds(p, K, A), NEW L, K \subseteq L, NEW B, B \subseteq A
  PROVE  Adds(p, L, B)
BY DEF Adds

\* What a piece adds, the next one may use.
LEMMA AddsThen ==
  ASSUME NEW p, NEW K, NEW A, Adds(p, K, A),
         NEW q, NEW L, NEW B, Adds(q, L, B), L \subseteq K \cup A
  PROVE  Adds(p \o q, K, A \cup B)
<1> DEFINE r == p \o q
           m == Len(p)
           n == Len(q)
<1>1. /\ Statements(p) /\ A \subseteq Before(p, m + 1)
      /\ \A i \in 1..m : Results(p[i].def) /\ p[i].use \subseteq K \cup Before(p, i)
  BY DEF Adds
<1>2. /\ Statements(q) /\ B \subseteq Before(q, n + 1)
      /\ \A i \in 1..n : Results(q[i].def) /\ q[i].use \subseteq L \cup Before(q, i)
  BY DEF Adds
<1>3. /\ Statements(r) /\ m \in Nat /\ n \in Nat /\ Len(r) = m + n
      /\ \A i \in 1..m : r[i] = p[i]
      /\ \A i \in 1..n : r[m + i] = q[i]
  BY <1>1, <1>2, Joined
<1>4. /\ \A i \in 1..m + 1 : Before(p, i) \subseteq Before(r, i)
      /\ \A i \in 1..n + 1 : Before(p, m + 1) \cup Before(q, i) \subseteq Before(r, m + i)
  BY <1>1, <1>2, BeforeJoined
<1> HIDE DEF r, m, n
<1>5. ASSUME NEW i \in 1..m PROVE Results(r[i].def) /\ r[i].use \subseteq K \cup Before(r, i)
  <2>1. i \in 1..m + 1
    BY <1>3
  <2> QED BY <1>1, <1>3, <1>4, <2>1
<1>6. ASSUME NEW i \in 1..n
      PROVE  Results(r[m + i].def) /\ r[m + i].use \subseteq K \cup Before(r, m + i)
  <2>1. i \in 1..n + 1
    BY <1>3
  <2>2. Before(p, m + 1) \cup Before(q, i) \subseteq Before(r, m + i)
    BY <1>4, <2>1
  <2> QED BY <1>1, <1>2, <1>3, <2>2
<1>7. \A i \in 1..m + n : i \in 1..m \/ (i - m \in 1..n /\ i = m + (i - m))
  BY <1>3
<1>8. \A i \in 1..Len(r) : Results(r[i].def) /\ r[i].use \subseteq K \cup Before(r, i)
  BY <1>3, <1>5, <1>6, <1>7
<1>9. A \cup B \subseteq Before(r, Len(r) + 1)
  <2>1. n + 1 \in 1..n + 1 /\ Len(r) + 1 = m + (n + 1)
    BY <1>3
  <2> QED BY <1>1, <1>2, <1>4, <2>1
<1>10. Adds(r, K, A \cup B)
  BY <1>3, <1>8, <1>9 DEF Adds
<1> QED BY <1>10 DEF r

LEMMA AddsNothing == \A K : Adds(<<>>, K, {})
<1>1. <<>> \in Seq({}) /\ Len(<<>>) = 0
  OBVIOUS
<1>2. Statements(<<>>)
  BY <1>1, StatementsIn
<1> QED BY <1>1, <1>2 DEF Adds

LEMMA AddsOp ==
  ASSUME NEW defs, NEW uses, NEW K, NEW A, Results(defs), uses \subseteq K, A \subseteq Range(defs)
  PROVE  Adds(Op(defs, uses), K, A)
<1> DEFINE s == [def |-> defs, use |-> uses]
           p == <<s>>
<1>1. p \in Seq({s}) /\ Len(p) = 1 /\ p[1] = s
  OBVIOUS
<1>2. s.def = defs /\ s.use = uses
  OBVIOUS
<1>3. Op(defs, uses) = p
  BY DEF Op
<1> HIDE DEF p, s
<1>4. Statements(p)
  BY <1>1, StatementsIn
<1>5. \A i \in 1..Len(p) : i = 1
  BY <1>1
<1>6. A \subseteq Before(p, Len(p) + 1)
  <2>1. 1 \in 1..Len(p) + 1 - 1
    BY <1>1
  <2> QED BY <1>1, <1>2, <2>1 DEF Before
<1> QED BY <1>1, <1>2, <1>3, <1>4, <1>5, <1>6 DEF Adds

\* A statement that defines one value.
LEMMA AddsValue ==
  ASSUME NEW v, NEW uses, NEW K, uses \subseteq K
  PROVE  Adds(Op(<<v>>, uses), K, {v})
<1> DEFINE d == <<v>>
<1>1. d \in Seq({v}) /\ d # <<>> /\ {v} \subseteq Range(d)
  BY DEF Range
<1> HIDE DEF d
<1>2. Results(d)
  BY <1>1, ResultsOf
<1>3. Adds(Op(d, uses), K, {v})
  BY <1>1, <1>2, AddsOp
<1> QED BY <1>3 DEF d

LEMMA AddsConst ==
  ASSUME NEW v, NEW K
  PROVE  Adds(Const(v), K, {v})
BY AddsValue DEF Const

\* What the pieces up to n add.
Added(a, n) == UNION {a[j] : j \in 1..n}

LEMMA AddsPrefix ==
  ASSUME NEW ss, NEW n \in Nat \ {0}, NEW f, PartialJoins(ss, n, f), NEW K, NEW k, NEW a,
         \A i \in 1..n : Adds(ss[i], k[i], a[i]) /\ k[i] \subseteq K \cup Added(a, i - 1),
         NEW m \in 1..n
  PROVE  Adds(f[m], K, Added(a, m))
<1> DEFINE Good(l) == Adds(f[l], K, Added(a, l))
           Bad == {l \in 1..n : ~Good(l)}
<1> SUFFICES ASSUME Bad # {} PROVE FALSE
  OBVIOUS
<1>1. PICK l \in Bad : \A o \in Bad : l <= o
  <2>1. Bad \in SUBSET Nat
    OBVIOUS
  <2> HIDE DEF Bad
  <2> QED BY <2>1, Least
<1>2. l \in 1..n /\ ~Good(l) /\ l \in Nat
  BY <1>1
<1>3. l # 1
  <2> SUFFICES Good(1)
    BY <1>2
  <2>1. f[1] = ss[1] /\ Adds(ss[1], k[1], a[1]) /\ k[1] \subseteq K \cup Added(a, 1 - 1)
    BY DEF PartialJoins
  <2>2. Added(a, 1 - 1) = {} /\ Added(a, 1) = a[1]
    BY DEF Added
  <2>3. k[1] \subseteq K /\ Added(a, 1) \subseteq a[1]
    BY <2>1, <2>2
  <2> QED BY <2>1, <2>3, AddsMore
<1>4. l \in 2..n /\ l - 1 \in 1..n /\ ~(l <= l - 1)
  BY <1>2, <1>3
<1>5. Good(l - 1)
  <2>1. l - 1 \notin Bad
    <3> HIDE DEF Bad
    <3> QED BY <1>1, <1>4
  <2> HIDE DEF Good
  <2> QED BY <1>4, <2>1
<1>6. f[l] = f[l - 1] \o ss[l]
  BY <1>4 DEF PartialJoins
<1>7. Adds(ss[l], k[l], a[l]) /\ k[l] \subseteq K \cup Added(a, l - 1)
  BY <1>2
<1>8. Adds(f[l - 1] \o ss[l], K, Added(a, l - 1) \cup a[l])
  BY <1>5, <1>7, AddsThen
<1>9. Added(a, l - 1) \cup a[l] = Added(a, l)
  <2>1. \A j \in 1..l : j \in 1..l - 1 \/ j = l
    BY <1>4
  <2>2. l \in 1..l /\ 1..l - 1 \subseteq 1..l
    BY <1>4
  <2> QED BY <2>1, <2>2 DEF Added
<1> QED BY <1>2, <1>6, <1>8, <1>9

\* Pieces one after the other: each may use what the earlier ones add.
LEMMA AddsFlatten ==
  ASSUME NEW n \in Nat, NEW ss, ss = [i \in 1..n |-> ss[i]], NEW K, NEW k, NEW a,
         \A i \in 1..n : Adds(ss[i], k[i], a[i]) /\ k[i] \subseteq K \cup Added(a, i - 1)
  PROVE  Adds(FlattenSeq(ss), K, Added(a, n))
<1>1. ss \in Seq({ss[i] : i \in 1..n}) /\ Len(ss) = n
  <2>1. ss \in [1..n -> {ss[i] : i \in 1..n}]
    OBVIOUS
  <2> QED BY <2>1
<1>2. CASE n = 0
  <2>1. FlattenSeq(ss) = ss /\ ss = <<>>
    BY <1>1, <1>2 DEF FlattenSeq
  <2>2. Added(a, n) = {}
    BY <1>2 DEF Added
  <2> QED BY <2>1, <2>2, AddsNothing
<1>3. CASE n # 0
  <2>1. Len(ss) \in Nat \ {0}
    BY <1>1, <1>3
  <2>2. PICK f : PartialJoins(ss, n, f) /\ FlattenSeq(ss) = f[n]
    BY <1>1, <2>1, FlattenIsPrefix
  <2>3. n \in Nat \ {0} /\ n \in 1..n
    BY <1>3
  <2>4. Adds(f[n], K, Added(a, n))
    BY <2>2, <2>3, AddsPrefix
  <2> QED BY <2>2, <2>4
<1> QED BY <1>2, <1>3

-----------------------------------------------------------------------------
(* What the templates share                                                *)

LEMMA AddsList ==
  ASSUME NEW prefix, NEW suffix, NEW K
  PROVE  Adds(List(prefix, suffix), K, {prefix \o suffix})
<1> DEFINE x    == prefix \o <<"val", "0">> \o suffix
           y    == prefix \o <<"val", "1">> \o suffix
           list == prefix \o suffix
<1>1. Adds(Const(x), K, {x}) /\ Adds(Const(y), K, {y})
  BY AddsConst
<1>2. Adds(Op(<<list>>, {x, y}), {x, y}, {list})
  BY AddsValue
<1>3. List(prefix, suffix) = Const(x) \o Const(y) \o Op(<<list>>, {x, y})
  BY DEF List
<1> HIDE DEF x, y, list
<1>4. Adds(Const(x) \o Const(y), K, {x} \cup {y})
  BY <1>1, AddsThen
<1>5. Adds(Const(x) \o Const(y) \o Op(<<list>>, {x, y}), K, ({x} \cup {y}) \cup {list})
  <2>1. {x, y} \subseteq K \cup ({x} \cup {y})
    OBVIOUS
  <2> QED BY <1>2, <1>4, <2>1, AddsThen
<1>6. Adds(List(prefix, suffix), K, ({x} \cup {y}) \cup {list})
  BY <1>3, <1>5
<1>7. Adds(List(prefix, suffix), K, {list})
  BY <1>6, AddsMore
<1> QED BY <1>7 DEF list

LEMMA AddsItem ==
  ASSUME NEW prefix, NEW t, NEW suffix, NEW K, t.name \in K
  PROVE  Adds(Item(prefix, t, suffix), K, {prefix \o suffix})
<1>1. {t.name} \subseteq K
  OBVIOUS
<1> QED BY <1>1, AddsValue DEF Item

LEMMA AddsToLogical ==
  ASSUME NEW t, NEW prefix, NEW suffix, NEW K, t.name \in K
  PROVE  Adds(ToLogical(t, prefix, suffix), K, {Converted(t, suffix)})
<1> DEFINE result   == Converted(t, suffix)
           permuted == IF t.broadcast
                         THEN t.name \o suffix \o <<"perm", "unexpanded">> ELSE result
           size     == <<"expand", "size">> \o prefix
           implicit == <<"expand", "implicit">> \o prefix \o suffix
           perm     == prefix \o suffix
           sizes    == size \o suffix
           first    == List(prefix, suffix) \o Op(<<permuted>>, {t.name, perm})
           expanded == List(size, suffix) \o Const(implicit) \o Op(<<result>>, {permuted, sizes, implicit})
<1>1. Adds(first, K, {perm} \cup {permuted})
  <2>1. Adds(List(prefix, suffix), K, {perm})
    BY AddsList
  <2>2. Adds(Op(<<permuted>>, {t.name, perm}), {t.name, perm}, {permuted})
    BY AddsValue
  <2>3. {t.name, perm} \subseteq K \cup {perm}
    OBVIOUS
  <2> HIDE DEF permuted, perm
  <2> QED BY <2>1, <2>2, <2>3, AddsThen
<1>2. Adds(expanded, {permuted}, ({sizes} \cup {implicit}) \cup {result})
  <2>1. Adds(List(size, suffix), {permuted}, {sizes})
    BY AddsList
  <2>2. Adds(Const(implicit), {permuted}, {implicit})
    BY AddsConst
  <2>3. Adds(Op(<<result>>, {permuted, sizes, implicit}), {permuted, sizes, implicit}, {result})
    BY AddsValue
  <2> HIDE DEF permuted, sizes, size, implicit, result
  <2>4. Adds(List(size, suffix) \o Const(implicit), {permuted}, {sizes} \cup {implicit})
    BY <2>1, <2>2, AddsThen
  <2>5. {permuted, sizes, implicit} \subseteq {permuted} \cup ({sizes} \cup {implicit})
    OBVIOUS
  <2> QED BY <2>3, <2>4, <2>5, AddsThen
<1>3. ToLogical(t, prefix, suffix) = first \o IF t.broadcast THEN expanded ELSE <<>>
  BY DEF ToLogical
<1>4. ~t.broadcast => permuted = result
  OBVIOUS
<1> HIDE DEF first, expanded, permuted, result
<1>5. CASE t.broadcast
  <2>1. Adds(first \o expanded, K, ({perm} \cup {permuted}) \cup (({sizes} \cup {implicit}) \cup {result}))
    <3> HIDE DEF perm, sizes, implicit
    <3>1. {permuted} \subseteq K \cup ({perm} \cup {permuted})
      OBVIOUS
    <3> QED BY <1>1, <1>2, <3>1, AddsThen
  <2>2. Adds(first \o expanded, K, {result})
    <3> HIDE DEF perm, sizes, implicit
    <3> QED BY <2>1, AddsMore
  <2> QED BY <1>3, <1>5, <2>2 DEF result
<1>6. CASE ~t.broadcast
  <2>1. Adds(first \o <<>>, K, ({perm} \cup {permuted}) \cup {})
    <3> HIDE DEF perm
    <3>1. Adds(<<>>, {}, {}) /\ {} \subseteq K \cup ({perm} \cup {permuted})
      BY AddsNothing
    <3> QED BY <1>1, <3>1, AddsThen
  <2>2. Adds(first \o <<>>, K, {result})
    <3> HIDE DEF perm
    <3> QED BY <1>4, <1>6, <2>1, AddsMore
  <2> QED BY <1>3, <1>6, <2>2 DEF result
<1> QED BY <1>5, <1>6

LEMMA AddsToPhysical ==
  ASSUME NEW t, NEW prefix, NEW suffix, NEW operand, NEW K, operand \in K
  PROVE  Adds(ToPhysical(t, prefix, suffix, operand), K, {t.name})
<1> DEFINE perm == prefix \o suffix
<1>1. Adds(List(prefix, suffix), K, {perm})
  BY AddsList
<1>2. Adds(Op(<<t.name>>, {operand, perm}), {operand, perm}, {t.name})
  BY AddsValue
<1>3. ToPhysical(t, prefix, suffix, operand)
        = List(prefix, suffix) \o Op(<<t.name>>, {operand, perm})
  BY DEF ToPhysical
<1> HIDE DEF perm
<1>4. Adds(ToPhysical(t, prefix, suffix, operand), K, {perm} \cup {t.name})
  <2>1. {operand, perm} \subseteq K \cup {perm}
    OBVIOUS
  <2> QED BY <1>1, <1>2, <1>3, <2>1, AddsThen
<1> QED BY <1>4, AddsMore

LEMMA AddsStep ==
  ASSUME NEW p, NEW K, NEW A, Adds(p, K, A), NEW q, NEW L, NEW B, Adds(q, L, B),
         L \subseteq K \cup A, NEW C, C \subseteq A \cup B
  PROVE  Adds(p \o q, K, C)
<1>1. Adds(p \o q, K, A \cup B)
  BY AddsThen
<1> QED BY <1>1, AddsMore

-----------------------------------------------------------------------------
(* The templates of the nodes.  K has the names of the inputs.             *)

Given(n, K) == \A p \in DOMAIN n.in : n.in[p].name \in K

LEMMA AddsArgIn ==
  ASSUME NEW n, NEW K, Given(n, K), NEW p \in DOMAIN n.in, NEW x
  PROVE  Adds(ArgIn(n, p, x), K, {Arg(n, p)})
BY AddsToLogical DEF Given, ArgIn, Arg

LEMMA AddsOptArgIn ==
  ASSUME NEW n, NEW K, Given(n, K), NEW p, NEW x
  PROVE  Adds(OptArgIn(n, p, x), K, {OptArg(n, p, x)})
<1>1. CASE p \in DOMAIN n.in
  BY <1>1, AddsArgIn DEF OptArgIn, OptArg
<1>2. CASE p \notin DOMAIN n.in
  BY <1>2, AddsConst DEF OptArgIn, OptArg
<1> QED BY <1>1, <1>2

LEMMA AddsResOut ==
  ASSUME NEW n, NEW p, NEW x
  PROVE  Adds(ResOut(n, p, x), {Res(n, p)}, {n.out[p].name})
BY AddsToPhysical DEF ResOut

LEMMA AddsScalar ==
  ASSUME NEW n, NEW K, Given(n, K), NEW p \in DOMAIN n.in, NEW x
  PROVE  Adds(Item(x, n.in[p], n.name), K, {x \o n.name})
BY AddsItem DEF Given

LEMMA AddsConvAttributes ==
  ASSUME NEW n, NEW K
  PROVE  Adds(ConvAttributes(n), K, ConvOperands(n))
<1> DEFINE bias       == <<"bias">> \o n.name
           transposed == <<"transposed">> \o n.name
           output     == <<"output", "padding">> \o n.name
           groups     == <<"groups">> \o n.name
           stride     == <<"stride">> \o n.name
           padding    == <<"padding">> \o n.name
           dilation   == <<"dilation">> \o n.name
           strides    == List(<<"stride">>, n.name)
           paddings   == List(<<"padding">>, n.name)
           dilations  == List(<<"dilation">>, n.name)
<1>1. /\ Adds(Const(bias), K, {bias})
      /\ Adds(Const(transposed), K, {transposed})
      /\ Adds(Const(output), K, {output})
      /\ Adds(Const(groups), K, {groups})
  BY AddsConst
<1>2. /\ Adds(strides, K, {stride})
      /\ Adds(paddings, K, {padding})
      /\ Adds(dilations, K, {dilation})
  BY AddsList
<1>3. ConvAttributes(n) = Const(bias) \o Const(transposed) \o Const(output) \o Const(groups)
                            \o strides \o paddings \o dilations
  BY DEF ConvAttributes
<1>4. ConvOperands(n) = {bias, transposed, output, groups, stride, padding, dilation}
  BY DEF ConvOperands
<1> HIDE DEF bias, transposed, output, groups, stride, padding, dilation,
             strides, paddings, dilations
<1>5. Adds(Const(bias) \o Const(transposed), K, {bias, transposed})
  BY <1>1, AddsStep
<1>6. Adds(Const(bias) \o Const(transposed) \o Const(output), K, {bias, transposed, output})
  BY <1>1, <1>5, AddsStep
<1>7. Adds(Const(bias) \o Const(transposed) \o Const(output) \o Const(groups), K,
           {bias, transposed, output, groups})
  BY <1>1, <1>6, AddsStep
<1>8. Adds(Const(bias) \o Const(transposed) \o Const(output) \o Const(groups) \o strides, K,
           {bias, transposed, output, groups, stride})
  BY <1>2, <1>7, AddsStep
<1>9. Adds(Const(bias) \o Const(transposed) \o Const(output) \o Const(groups)
             \o strides \o paddings, K,
           {bias, transposed, output, groups, stride, padding})
  BY <1>2, <1>8, AddsStep
<1>10. Adds(Const(bias) \o Const(transposed) \o Const(output) \o Const(groups)
             \o strides \o paddings \o dilations, K,
           {bias, transposed, output, groups, stride, padding, dilation})
  BY <1>2, <1>9, AddsStep
<1> QED BY <1>3, <1>4, <1>10

LEMMA ConvFPropAdds ==
  ASSUME NEW n, NEW K, Given(n, K), {<<"X">>, <<"W">>} \subseteq DOMAIN n.in
  PROVE  Adds(ConvFProp(n), K, {n.out[<<"Y">>].name})
<1> DEFINE operands == ConvOperands(n)
           x == Arg(n, <<"X">>)
           w == Arg(n, <<"W">>)
           y == Res(n, <<"Y">>)
           result  == n.out[<<"Y">>].name
           attrs   == ConvAttributes(n)
           xIn     == ArgIn(n, <<"X">>, <<"X">>)
           wIn     == ArgIn(n, <<"W">>, <<"W">>)
           conv    == Op(<<y>>, {x, w} \cup operands)
           yOut    == ResOut(n, <<"Y">>, <<"Y">>)
<1>1. Adds(attrs, K, operands)
  BY AddsConvAttributes
<1>2. Adds(xIn, K, {x}) /\ Adds(wIn, K, {w})
  BY AddsArgIn
<1>3. Adds(conv, {x, w} \cup operands, {y})
  BY AddsValue
<1>4. Adds(yOut, {y}, {result})
  BY AddsResOut
<1>5. ConvFProp(n) = attrs \o xIn \o wIn \o conv \o yOut
  BY DEF ConvFProp
<1> HIDE DEF operands, x, w, y, result, attrs, xIn, wIn, conv, yOut
<1>6. Adds(attrs \o xIn, K, operands \cup {x})
  BY <1>1, <1>2, AddsStep
<1>7. Adds(attrs \o xIn \o wIn, K, operands \cup {x, w})
  BY <1>2, <1>6, AddsStep
<1>8. Adds(attrs \o xIn \o wIn \o conv, K, {y})
  BY <1>3, <1>7, AddsStep
<1>9. Adds(attrs \o xIn \o wIn \o conv \o yOut, K, {result})
  BY <1>4, <1>8, AddsStep
<1> QED BY <1>5, <1>9 DEF result

LEMMA PairIsTwo ==
  ASSUME NEW a, NEW b
  PROVE  <<a>> \o <<b>> = <<a, b>>
<1>1. <<a>> \in Seq({a, b}) /\ <<b>> \in Seq({a, b}) /\ <<a, b>> \in Seq({a, b})
  OBVIOUS
<1>2. /\ Len(<<a>> \o <<b>>) = 2 /\ <<a>> \o <<b>> \in Seq({a, b})
      /\ (<<a>> \o <<b>>)[1] = a /\ (<<a>> \o <<b>>)[2] = b
  OBVIOUS
<1>3. Len(<<a, b>>) = 2 /\ <<a, b>>[1] = a /\ <<a, b>>[2] = b
  OBVIOUS
<1>4. \A i \in 1..2 : i = 1 \/ i = 2
  OBVIOUS
<1> QED BY <1>1, <1>2, <1>3, <1>4, SeqEqual

\* The tensor in the place of the gradient that is to be computed.
LEMMA AddsEmptyTensor ==
  ASSUME NEW n, NEW p, NEW value, NEW K
  PROVE  Adds(EmptyTensor(n, p, value), K, {value})
<1> DEFINE empty == <<"empty", p>> \o n.name
           none  == <<"none", p>> \o n.name
           dtype == <<"dtype", p>> \o n.name
           sizes == List(<<"empty", p>>, n.name)
           uses  == {x \o <<p>> \o n.name : x \in {<<"empty">>, <<"dtype">>, <<"none">>}}
<1>1. Adds(sizes, K, {empty})
  BY AddsList
<1>2. Adds(Const(none), K, {none}) /\ Adds(Const(dtype), K, {dtype})
  BY AddsConst
<1>3. Adds(Op(<<value>>, uses), uses, {value})
  BY AddsValue
<1>4. EmptyTensor(n, p, value) = sizes \o Const(none) \o Const(dtype) \o Op(<<value>>, uses)
  BY DEF EmptyTensor
<1>5. uses = {empty, dtype, none}
  <2>1. /\ <<"empty">> \o <<p>> = <<"empty", p>>
        /\ <<"none">> \o <<p>> = <<"none", p>>
        /\ <<"dtype">> \o <<p>> = <<"dtype", p>>
    BY PairIsTwo
  <2>2. uses = {<<"empty">> \o <<p>> \o n.name, <<"dtype">> \o <<p>> \o n.name,
                <<"none">> \o <<p>> \o n.name}
    OBVIOUS
  <2> QED BY <2>1, <2>2
<1> HIDE DEF empty, none, dtype, sizes, uses
<1>6. Adds(sizes \o Const(none), K, {empty, none})
  BY <1>1, <1>2, AddsStep
<1>7. Adds(sizes \o Const(none) \o Const(dtype), K, {empty, none, dtype})
  BY <1>2, <1>6, AddsStep
<1>8. Adds(sizes \o Const(none) \o Const(dtype) \o Op(<<value>>, uses), K, {value})
  BY <1>3, <1>5, <1>7, AddsStep
<1> QED BY <1>4, <1>8

LEMMA AddsOutputMask ==
  ASSUME NEW n, NEW K
  PROVE  Adds(OutputMask(n), K, {<<"output", "mask">> \o n.name})
<1> DEFINE yes  == <<"true">> \o n.name
           no   == <<"false">> \o n.name
           mask == <<"output", "mask">> \o n.name
<1>1. Adds(Const(yes), K, {yes}) /\ Adds(Const(no), K, {no})
  BY AddsConst
<1>2. Adds(Op(<<mask>>, {yes, no}), {yes, no}, {mask})
  BY AddsValue
<1>3. OutputMask(n) = Const(yes) \o Const(no) \o Op(<<mask>>, {yes, no})
  BY DEF OutputMask
<1> HIDE DEF yes, no, mask
<1>4. Adds(Const(yes) \o Const(no), K, {yes, no})
  BY <1>1, AddsStep
<1>5. Adds(Const(yes) \o Const(no) \o Op(<<mask>>, {yes, no}), K, {mask})
  BY <1>2, <1>4, AddsStep
<1> QED BY <1>3, <1>5 DEF mask

LEMMA ConvWGradAdds ==
  ASSUME NEW n, NEW K, Given(n, K), {<<"DY">>, <<"X">>} \subseteq DOMAIN n.in
  PROVE  Adds(ConvWGrad(n), K, {n.out[<<"DW">>].name})
<1> DEFINE operands == ConvOperands(n)
           dy == Arg(n, <<"DY">>)
           x  == Arg(n, <<"X">>)
           dw == Res(n, <<"DW">>)
           result == n.out[<<"DW">>].name
           empty  == <<"empty", "w">> \o n.name
           mask   == <<"output", "mask">> \o n.name
           attrs  == ConvAttributes(n)
           dyIn   == ArgIn(n, <<"DY">>, <<"DY">>)
           xIn    == ArgIn(n, <<"X">>, <<"X">>)
           blank  == EmptyTensor(n, "DW", empty)
           masks  == OutputMask(n)
           uses   == {dy, x, empty, mask} \cup operands
           defs   == <<<<"grad", "input">> \o n.name, dw, <<"grad", "bias">> \o n.name>>
           conv   == Op(defs, uses)
           dwOut  == ResOut(n, <<"DW">>, <<"DW">>)
<1>1. Adds(attrs, K, operands)
  BY AddsConvAttributes
<1>2. Adds(dyIn, K, {dy}) /\ Adds(xIn, K, {x})
  BY AddsArgIn
<1>3. Adds(blank, K, {empty})
  BY AddsEmptyTensor
<1>4. Adds(masks, K, {mask})
  BY AddsOutputMask
<1>5. Adds(conv, uses, {dw})
  <2> DEFINE S == {defs[1], defs[2], defs[3]}
  <2>1. /\ defs \in Seq(S) /\ defs # <<>>
        /\ defs[2] = dw /\ 2 \in DOMAIN defs
    OBVIOUS
  <2>3. Results(defs)
    <3> HIDE DEF defs, S
    <3> QED BY <2>1, ResultsOf
  <2> HIDE DEF defs, uses, dw
  <2>2. {dw} \subseteq Range(defs)
    BY <2>1 DEF Range
  <2> QED BY <2>2, <2>3, AddsOp
<1>6. Adds(dwOut, {dw}, {result})
  BY AddsResOut
<1>7. ConvWGrad(n) = attrs \o dyIn \o xIn \o blank \o masks \o conv \o dwOut
  BY DEF ConvWGrad
<1> HIDE DEF operands, dy, x, dw, result, empty, mask, attrs, dyIn, xIn, blank, masks, conv, dwOut
<1>8. Adds(attrs \o dyIn, K, operands \cup {dy})
  BY <1>1, <1>2, AddsStep
<1>9. Adds(attrs \o dyIn \o xIn, K, operands \cup {dy, x})
  BY <1>2, <1>8, AddsStep
<1>10. Adds(attrs \o dyIn \o xIn \o blank, K, operands \cup {dy, x, empty})
  BY <1>3, <1>9, AddsStep
<1>11. Adds(attrs \o dyIn \o xIn \o blank \o masks, K, operands \cup {dy, x, empty, mask})
  BY <1>4, <1>10, AddsStep
<1>12. Adds(attrs \o dyIn \o xIn \o blank \o masks \o conv, K, {dw})
  BY <1>5, <1>11, AddsStep
<1>13. Adds(attrs \o dyIn \o xIn \o blank \o masks \o conv \o dwOut, K, {result})
  BY <1>6, <1>12, AddsStep
<1> QED BY <1>7, <1>13 DEF result

LEMMA ConvDGradAdds ==
  ASSUME NEW n, NEW K, Given(n, K), {<<"DY">>, <<"W">>} \subseteq DOMAIN n.in
  PROVE  Adds(ConvDGrad(n), K, {n.out[<<"DX">>].name})
<1> DEFINE operands == ConvOperands(n)
           dy == Arg(n, <<"DY">>)
           w  == Arg(n, <<"W">>)
           dx == Res(n, <<"DX">>)
           result == n.out[<<"DX">>].name
           empty  == <<"empty", "x">> \o n.name
           mask   == <<"output", "mask">> \o n.name
           attrs  == ConvAttributes(n)
           dyIn   == ArgIn(n, <<"DY">>, <<"DY">>)
           wIn    == ArgIn(n, <<"W">>, <<"W">>)
           blank  == EmptyTensor(n, "DX", empty)
           masks  == OutputMask(n)
           uses   == {dy, empty, w, mask} \cup operands
           defs   == <<dx, <<"grad", "weight">> \o n.name, <<"grad", "bias">> \o n.name>>
           conv   == Op(defs, uses)
           dxOut  == ResOut(n, <<"DX">>, <<"DX">>)
<1>1. Adds(attrs, K, operands)
  BY AddsConvAttributes
<1>2. Adds(dyIn, K, {dy}) /\ Adds(wIn, K, {w})
  BY AddsArgIn
<1>3. Adds(blank, K, {empty})
  BY AddsEmptyTensor
<1>4. Adds(masks, K, {mask})
  BY AddsOutputMask
<1>5. Adds(conv, uses, {dx})
  <2> DEFINE S == {defs[1], defs[2], defs[3]}
  <2>1. /\ defs \in Seq(S) /\ defs # <<>>
        /\ defs[1] = dx /\ 1 \in DOMAIN defs
    OBVIOUS
  <2>3. Results(defs)
    <3> HIDE DEF defs, S
    <3> QED BY <2>1, ResultsOf
  <2> HIDE DEF defs, uses, dx
  <2>2. {dx} \subseteq Range(defs)
    BY <2>1 DEF Range
  <2> QED BY <2>2, <2>3, AddsOp
<1>6. Adds(dxOut, {dx}, {result})
  BY AddsResOut
<1>7. ConvDGrad(n) = attrs \o dyIn \o wIn \o blank \o masks \o conv \o dxOut
  BY DEF ConvDGrad
<1> HIDE DEF operands, dy, w, dx, result, empty, mask, attrs, dyIn, wIn, blank, masks, conv, dxOut
<1>8. Adds(attrs \o dyIn, K, operands \cup {dy})
  BY <1>1, <1>2, AddsStep
<1>9. Adds(attrs \o dyIn \o wIn, K, operands \cup {dy, w})
  BY <1>2, <1>8, AddsStep
<1>10. Adds(attrs \o dyIn \o wIn \o blank, K, operands \cup {dy, w, empty})
  BY <1>3, <1>9, AddsStep
<1>11. Adds(attrs \o dyIn \o wIn \o blank \o masks, K, operands \cup {dy, w, empty, mask})
  BY <1>4, <1>10, AddsStep
<1>12. Adds(attrs \o dyIn \o wIn \o blank \o masks \o conv, K, {dx})
  BY <1>5, <1>11, AddsStep
<1>13. Adds(attrs \o dyIn \o wIn \o blank \o masks \o conv \o dxOut, K, {result})
  BY <1>6, <1>12, AddsStep
<1> QED BY <1>7, <1>13 DEF result

LEMMA MatmulAdds ==
  ASSUME NEW n, NEW K, Given(n, K), {<<"A">>, <<"B">>} \subseteq DOMAIN n.in
  PROVE  Adds(Matmul(n), K, {n.out[<<"C">>].name})
<1> DEFINE a == Arg(n, <<"A">>)
           b == Arg(n, <<"B">>)
           c == Res(n, <<"C">>)
           result == n.out[<<"C">>].name
           aIn  == ArgIn(n, <<"A">>, <<"A">>)
           bIn  == ArgIn(n, <<"B">>, <<"B">>)
           cOut == ResOut(n, <<"C">>, <<"C">>)
<1>1. Adds(aIn, K, {a}) /\ Adds(bIn, K, {b})
  BY AddsArgIn
<1>2. Adds(Op(<<c>>, {a, b}), {a, b}, {c})
  BY AddsValue
<1>3. Adds(cOut, {c}, {result})
  BY AddsResOut
<1>4. Matmul(n) = aIn \o bIn \o Op(<<c>>, {a, b}) \o cOut
  BY DEF Matmul
<1> HIDE DEF a, b, c, result, aIn, bIn, cOut
<1>5. Adds(aIn \o bIn, K, {a, b})
  BY <1>1, AddsStep
<1>6. Adds(aIn \o bIn \o Op(<<c>>, {a, b}), K, {c})
  BY <1>2, <1>5, AddsStep
<1>7. Adds(aIn \o bIn \o Op(<<c>>, {a, b}) \o cOut, K, {result})
  BY <1>3, <1>6, AddsStep
<1> QED BY <1>4, <1>7 DEF result

\* An operation of several results.
LEMMA AddsResults ==
  ASSUME NEW S, NEW defs \in Seq(S), defs # <<>>, NEW uses, NEW A, A \subseteq Range(defs)
  PROVE  Adds(Op(defs, uses), uses, A)
BY ResultsOf, AddsOp

LEMMA ThreeInRange ==
  ASSUME NEW a, NEW b, NEW c
  PROVE  /\ <<a, b, c>> \in Seq({a, b, c}) /\ <<a, b, c>> # <<>>
         /\ {a, b, c} \subseteq Range(<<a, b, c>>)
<1> DEFINE s == <<a, b, c>>
<1>1. /\ 1 \in DOMAIN s /\ 2 \in DOMAIN s /\ 3 \in DOMAIN s
      /\ s[1] = a /\ s[2] = b /\ s[3] = c
      /\ s \in Seq({a, b, c}) /\ s # <<>>
  OBVIOUS
<1> HIDE DEF s
<1>2. {a, b, c} \subseteq Range(s)
  BY <1>1 DEF Range
<1> QED BY <1>1, <1>2 DEF s

LEMMA SdpaAdds ==
  ASSUME NEW n, NEW K, Given(n, K), {<<"Q">>, <<"K">>, <<"V">>} \subseteq DOMAIN n.in
  PROVE  Adds(Sdpa(n), K, {n.out[<<"O">>].name})
<1> DEFINE q == Arg(n, <<"Q">>)
           k == Arg(n, <<"K">>)
           v == Arg(n, <<"V">>)
           m == OptArg(n, <<"MASK">>, <<"mask">>)
           o == Res(n, <<"O">>)
           dropout == <<"dropout">> \o n.name
           causal  == <<"is", "causal">> \o n.name
           scale   == <<"scale">> \o n.name
           gqa     == <<"enable", "gqa">> \o n.name
           result  == n.out[<<"O">>].name
           qIn  == ArgIn(n, <<"Q">>, <<"Q">>)
           kIn  == ArgIn(n, <<"K">>, <<"K">>)
           vIn  == ArgIn(n, <<"V">>, <<"V">>)
           mIn  == OptArgIn(n, <<"MASK">>, <<"mask">>)
           op   == Op(<<o>>, {q, k, v, m, dropout, causal, scale, gqa})
           oOut == ResOut(n, <<"O">>, <<"O">>)
<1>1. Adds(qIn, K, {q}) /\ Adds(kIn, K, {k}) /\ Adds(vIn, K, {v})
  BY AddsArgIn
<1>2. Adds(mIn, K, {m})
  BY AddsOptArgIn
<1>3. /\ Adds(Const(dropout), K, {dropout})
      /\ Adds(Const(causal), K, {causal})
      /\ Adds(Const(scale), K, {scale})
      /\ Adds(Const(gqa), K, {gqa})
  BY AddsConst
<1>4. Adds(op, {q, k, v, m, dropout, causal, scale, gqa}, {o})
  BY AddsValue
<1>5. Adds(oOut, {o}, {result})
  BY AddsResOut
<1>6. Sdpa(n) = qIn \o kIn \o vIn \o mIn
                  \o Const(dropout) \o Const(causal) \o Const(scale) \o Const(gqa) \o op \o oOut
  BY DEF Sdpa
<1> HIDE DEF q, k, v, m, o, dropout, causal, scale, gqa, result, qIn, kIn, vIn, mIn, op, oOut
<1>7. Adds(qIn \o kIn, K, {q, k})
  BY <1>1, AddsStep
<1>8. Adds(qIn \o kIn \o vIn, K, {q, k, v})
  BY <1>1, <1>7, AddsStep
<1> DEFINE args == qIn \o kIn \o vIn \o mIn
<1>9. Adds(args, K, {q, k, v, m})
  BY <1>2, <1>8, AddsStep
<1> HIDE DEF args
<1>10. Adds(args \o Const(dropout), K, {q, k, v, m, dropout})
  BY <1>3, <1>9, AddsStep
<1>11. Adds(args \o Const(dropout) \o Const(causal), K, {q, k, v, m, dropout, causal})
  BY <1>3, <1>10, AddsStep
<1>12. Adds(args \o Const(dropout) \o Const(causal) \o Const(scale), K,
            {q, k, v, m, dropout, causal, scale})
  BY <1>3, <1>11, AddsStep
<1>13. Adds(args \o Const(dropout) \o Const(causal) \o Const(scale) \o Const(gqa), K,
            {q, k, v, m, dropout, causal, scale, gqa})
  BY <1>3, <1>12, AddsStep
<1>14. Adds(args \o Const(dropout) \o Const(causal) \o Const(scale) \o Const(gqa) \o op, K, {o})
  BY <1>4, <1>13, AddsStep
<1>15. Adds(args \o Const(dropout) \o Const(causal) \o Const(scale) \o Const(gqa) \o op \o oOut,
            K, {result})
  BY <1>5, <1>14, AddsStep
<1> QED BY <1>6, <1>15 DEF result, args

LEMMA RmsNormAdds ==
  ASSUME NEW n, NEW K, Given(n, K), {<<"X">>, <<"EPSILON">>} \subseteq DOMAIN n.in
  PROVE  Adds(RmsNorm(n), K, {n.out[<<"Y">>].name})
<1> DEFINE shape == <<"normalized", "shape">> \o n.name
           eps   == <<"eps">> \o n.name
           x     == Arg(n, <<"X">>)
           scale == OptArg(n, <<"SCALE">>, <<"scale">>)
           y     == Res(n, <<"Y">>)
           result  == n.out[<<"Y">>].name
           shapeIn == List(<<"normalized", "shape">>, n.name)
           epsIn   == Item(<<"eps">>, n.in[<<"EPSILON">>], n.name)
           xIn     == ArgIn(n, <<"X">>, <<"x">>)
           scaleIn == OptArgIn(n, <<"SCALE">>, <<"scale">>)
           norm    == Op(<<y>>, {x, shape, scale, eps})
           yOut    == ResOut(n, <<"Y">>, <<"y">>)
<1>1. Adds(shapeIn, K, {shape})
  BY AddsList
<1>2. Adds(epsIn, K, {eps})
  BY AddsScalar
<1>3. Adds(xIn, K, {x})
  BY AddsArgIn
<1>4. Adds(scaleIn, K, {scale})
  BY AddsOptArgIn
<1>5. Adds(norm, {x, shape, scale, eps}, {y})
  BY AddsValue
<1>6. Adds(yOut, {y}, {result})
  BY AddsResOut
<1>7. RmsNorm(n) = shapeIn \o epsIn \o xIn \o scaleIn \o norm \o yOut
  BY DEF RmsNorm
<1> HIDE DEF shape, eps, x, scale, y, result, shapeIn, epsIn, xIn, scaleIn, norm, yOut
<1>8. Adds(shapeIn \o epsIn, K, {shape, eps})
  BY <1>1, <1>2, AddsStep
<1>9. Adds(shapeIn \o epsIn \o xIn, K, {shape, eps, x})
  BY <1>3, <1>8, AddsStep
<1>10. Adds(shapeIn \o epsIn \o xIn \o scaleIn, K, {shape, eps, x, scale})
  BY <1>4, <1>9, AddsStep
<1>11. Adds(shapeIn \o epsIn \o xIn \o scaleIn \o norm, K, {y})
  BY <1>5, <1>10, AddsStep
<1>12. Adds(shapeIn \o epsIn \o xIn \o scaleIn \o norm \o yOut, K, {result})
  BY <1>6, <1>11, AddsStep
<1> QED BY <1>7, <1>12 DEF result

\* The outputs of a layer norm: with statistics if one of them is there.
LEMMA LayerNormAdds ==
  ASSUME NEW n, NEW K, Given(n, K), {<<"X">>, <<"EPSILON">>} \subseteq DOMAIN n.in
  PROVE  Adds(LayerNorm(n), K,
              IF <<"MEAN">> \in DOMAIN n.out
                THEN {n.out[<<"Y">>].name, n.out[<<"MEAN">>].name,
                      n.out[<<"INV", "VARIANCE">>].name}
                ELSE {n.out[<<"Y">>].name})
<1> DEFINE training == <<"MEAN">> \in DOMAIN n.out
           shape == <<"normalized", "shape">> \o n.name
           eps   == <<"eps">> \o n.name
           x     == Arg(n, <<"X">>)
           scale == OptArg(n, <<"SCALE">>, <<"scale">>)
           bias  == OptArg(n, <<"BIAS">>, <<"bias">>)
           cudnn == <<"cudnn", "enable">> \o n.name
           y     == Res(n, <<"Y">>)
           mean  == Res(n, <<"MEAN">>)
           inv   == Res(n, <<"INV", "VARIANCE">>)
           ySet    == n.out[<<"Y">>].name
           meanSet == n.out[<<"MEAN">>].name
           invSet  == n.out[<<"INV", "VARIANCE">>].name
           operands == {x, shape, scale, bias, eps}
           shapeIn == List(<<"normalized", "shape">>, n.name)
           epsIn   == Item(<<"eps">>, n.in[<<"EPSILON">>], n.name)
           xIn     == ArgIn(n, <<"X">>, <<"x">>)
           scaleIn == OptArgIn(n, <<"SCALE">>, <<"scale">>)
           biasIn  == OptArgIn(n, <<"BIAS">>, <<"bias">>)
           trains  == Op(<<y, mean, inv>>, operands)
           infers  == Op(<<y>>, operands \cup {cudnn})
           yOut    == ResOut(n, <<"Y">>, <<"y">>)
           meanOut == ResOut(n, <<"MEAN">>, <<"mean">>)
           invOut  == ResOut(n, <<"INV", "VARIANCE">>, <<"inv", "variance">>)
           args    == shapeIn \o epsIn \o xIn \o scaleIn \o biasIn
<1>1. Adds(shapeIn, K, {shape})
  BY AddsList
<1>2. Adds(epsIn, K, {eps})
  BY AddsScalar
<1>3. Adds(xIn, K, {x})
  BY AddsArgIn
<1>4. Adds(scaleIn, K, {scale}) /\ Adds(biasIn, K, {bias})
  BY AddsOptArgIn
<1>5. Adds(trains, operands, {y, mean, inv})
  <2> HIDE DEF y, mean, inv, operands
  <2> DEFINE defs == <<y, mean, inv>>
             S    == {y, mean, inv}
  <2>1. defs \in Seq(S) /\ defs # <<>> /\ S \subseteq Range(defs)
    BY ThreeInRange
  <2> HIDE DEF defs, S
  <2>2. Adds(Op(defs, operands), operands, S)
    BY <2>1, AddsResults
  <2> QED BY <2>2 DEF defs, S, trains
<1>6. Adds(infers, operands \cup {cudnn}, {y})
  BY AddsValue
<1>7. Adds(yOut, {y}, {ySet}) /\ Adds(meanOut, {mean}, {meanSet}) /\ Adds(invOut, {inv}, {invSet})
  BY AddsResOut
<1>8. Adds(Const(cudnn), {}, {cudnn})
  BY AddsConst
<1>9. LayerNorm(n) = args \o IF training THEN trains \o yOut \o meanOut \o invOut
                                         ELSE Const(cudnn) \o infers \o yOut
  BY DEF LayerNorm
<1> HIDE DEF training, shape, eps, x, scale, bias, cudnn, y, mean, inv, ySet, meanSet, invSet,
             shapeIn, epsIn, xIn, scaleIn, biasIn, trains, infers, yOut, meanOut, invOut
<1>10. Adds(args, K, operands)
  <2>1. Adds(shapeIn \o epsIn, K, {shape, eps})
    BY <1>1, <1>2, AddsStep
  <2>2. Adds(shapeIn \o epsIn \o xIn, K, {shape, eps, x})
    BY <1>3, <2>1, AddsStep
  <2>3. Adds(shapeIn \o epsIn \o xIn \o scaleIn, K, {shape, eps, x, scale})
    BY <1>4, <2>2, AddsStep
  <2> QED BY <1>4, <2>3, AddsStep
<1> HIDE DEF args, operands
<1>11. Adds(trains \o yOut \o meanOut \o invOut, operands, {ySet, meanSet, invSet})
  <2>1. Adds(trains \o yOut, operands, {mean, inv, ySet})
    BY <1>5, <1>7, AddsStep
  <2>2. Adds(trains \o yOut \o meanOut, operands, {inv, ySet, meanSet})
    BY <1>7, <2>1, AddsStep
  <2> QED BY <1>7, <2>2, AddsStep
<1>12. Adds(Const(cudnn) \o infers \o yOut, operands, {ySet})
  <2>1. Adds(Const(cudnn), operands, {cudnn})
    BY <1>8, AddsMore
  <2>2. Adds(Const(cudnn) \o infers, operands, {y})
    BY <1>6, <2>1, AddsStep
  <2> QED BY <1>7, <2>2, AddsStep
<1>13. CASE training
  <2>1. Adds(args \o (trains \o yOut \o meanOut \o invOut), K, {ySet, meanSet, invSet})
    BY <1>10, <1>11, AddsStep
  <2> QED BY <1>9, <1>13, <2>1 DEF training, ySet, meanSet, invSet
<1>14. CASE ~training
  <2>1. Adds(args \o (Const(cudnn) \o infers \o yOut), K, {ySet})
    BY <1>10, <1>12, AddsStep
  <2> QED BY <1>9, <1>14, <2>1 DEF training, ySet
<1> QED BY <1>13, <1>14

\* The outputs of a batch norm: with statistics if the first of them is there.
LEMMA BatchNormAdds ==
  ASSUME NEW n, NEW K, Given(n, K),
         {<<"X">>, <<"EPSILON">>, <<"MOMENTUM">>} \subseteq DOMAIN n.in
  PROVE  Adds(BatchNorm(n), K,
              IF <<"SAVED", "MEAN">> \in DOMAIN n.out
                THEN {n.out[<<"Y">>].name, n.out[<<"SAVED", "MEAN">>].name,
                      n.out[<<"SAVED", "INV", "VARIANCE">>].name}
                ELSE {n.out[<<"Y">>].name})
<1> DEFINE training == <<"SAVED", "MEAN">> \in DOMAIN n.out
           channel(p, z) == IF p \in DOMAIN n.in THEN n.in[p].name ELSE None(z, n)
           ifNull(p, z)  == IF p \in DOMAIN n.in THEN <<>> ELSE Const(None(z, n))
           extra(p, z)   == IF p \in DOMAIN n.in THEN {} ELSE {None(z, n)}
           mean == Res(n, <<"SAVED", "MEAN">>)
           inv  == Res(n, <<"SAVED", "INV", "VARIANCE">>)
           saved == IF training
                      THEN <<mean, inv>>
                      ELSE <<<<"", "infer", "saved", "mean">> \o n.name \o <<"perm">>,
                             <<"", "infer", "saved", "invstd">> \o n.name \o <<"perm">>>>
           eps      == <<"eps">> \o n.name
           momentum == <<"momentum">> \o n.name
           flag     == <<"training">> \o n.name
           x        == Arg(n, <<"X">>)
           y        == Res(n, <<"Y">>)
           scale    == channel(<<"SCALE">>, <<"scale">>)
           bias     == channel(<<"BIAS">>, <<"bias">>)
           chMean   == channel(<<"MEAN">>, <<"mean">>)
           chVar    == channel(<<"VAR">>, <<"var">>)
           ySet     == n.out[<<"Y">>].name
           meanSet  == n.out[<<"SAVED", "MEAN">>].name
           invSet   == n.out[<<"SAVED", "INV", "VARIANCE">>].name
           epsIn    == Item(<<"eps">>, n.in[<<"EPSILON">>], n.name)
           momIn    == Item(<<"momentum">>, n.in[<<"MOMENTUM">>], n.name)
           xIn      == ArgIn(n, <<"X">>, <<"x">>)
           scaleIn  == ifNull(<<"SCALE">>, <<"scale">>)
           biasIn   == ifNull(<<"BIAS">>, <<"bias">>)
           meanIn   == ifNull(<<"MEAN">>, <<"mean">>)
           varIn    == ifNull(<<"VAR">>, <<"var">>)
           sx       == extra(<<"SCALE">>, <<"scale">>)
           bx       == extra(<<"BIAS">>, <<"bias">>)
           mx       == extra(<<"MEAN">>, <<"mean">>)
           vx       == extra(<<"VAR">>, <<"var">>)
           operands == {x, scale, bias, chMean, chVar, flag, momentum, eps}
           defs     == <<y>> \o saved
           norm     == Op(defs, operands)
           yOut     == ResOut(n, <<"Y">>, <<"y">>)
           meanOut  == ResOut(n, <<"SAVED", "MEAN">>, <<"saved", "mean">>)
           invOut   == ResOut(n, <<"SAVED", "INV", "VARIANCE">>, <<"saved", "inv", "variance">>)
           made     == IF training THEN {y, mean, inv} ELSE {y}
           args     == epsIn \o momIn \o xIn \o scaleIn \o biasIn \o meanIn \o varIn \o Const(flag)
<1>1. Adds(epsIn, K, {eps}) /\ Adds(momIn, K, {momentum})
  BY AddsScalar
<1>2. Adds(xIn, K, {x})
  BY AddsArgIn
<1>3. ASSUME NEW p, NEW z
      PROVE  Adds(ifNull(p, z), K, extra(p, z)) /\ channel(p, z) \in K \cup extra(p, z)
  <2>1. CASE p \in DOMAIN n.in
    <3>1. Adds(<<>>, K, {})
      BY AddsNothing
    <3> QED BY <2>1, <3>1 DEF Given
  <2>2. CASE p \notin DOMAIN n.in
    <3>1. Adds(Const(None(z, n)), K, {None(z, n)})
      BY AddsConst
    <3> QED BY <2>2, <3>1
  <2> QED BY <2>1, <2>2
<1>4. /\ Adds(scaleIn, K, sx) /\ scale \in K \cup sx
      /\ Adds(biasIn, K, bx) /\ bias \in K \cup bx
      /\ Adds(meanIn, K, mx) /\ chMean \in K \cup mx
      /\ Adds(varIn, K, vx) /\ chVar \in K \cup vx
  <2> HIDE DEF channel, ifNull, extra
  <2> QED BY <1>3
<1>5. Adds(Const(flag), K, {flag})
  BY AddsConst
<1>6. Adds(norm, operands, made)
  <2>1. CASE training
    <3>1. saved = <<mean, inv>>
      BY <2>1
    <3> HIDE DEF y, mean, inv, saved, operands, training
    <3>2. <<y>> \o <<mean, inv>> \in Seq({y, mean, inv}) /\ <<y>> \o <<mean, inv>> # <<>>
      OBVIOUS
    <3>3. \A i \in 1..3 : i \in DOMAIN (<<y>> \o <<mean, inv>>)
      OBVIOUS
    <3>4. (<<y>> \o <<mean, inv>>)[1] = y /\ (<<y>> \o <<mean, inv>>)[2] = mean
            /\ (<<y>> \o <<mean, inv>>)[3] = inv
      OBVIOUS
    <3>5. defs = <<y>> \o <<mean, inv>>
      BY <3>1
    <3> HIDE DEF defs
    <3>6. {y, mean, inv} \subseteq Range(defs)
      BY <3>3, <3>4, <3>5 DEF Range
    <3>7. defs \in Seq({y, mean, inv}) /\ defs # <<>>
      BY <3>2, <3>5
    <3>8. Adds(norm, operands, {y, mean, inv})
      BY <3>6, <3>7, AddsResults
    <3> QED BY <2>1, <3>8
  <2>2. CASE ~training
    <3> DEFINE a == <<"", "infer", "saved", "mean">> \o n.name \o <<"perm">>
               b == <<"", "infer", "saved", "invstd">> \o n.name \o <<"perm">>
    <3>1. saved = <<a, b>>
      BY <2>2
    <3> HIDE DEF y, a, b, saved, operands, training
    <3>2. /\ <<y>> \o <<a, b>> \in Seq({y, a, b}) /\ <<y>> \o <<a, b>> # <<>>
          /\ 1 \in DOMAIN (<<y>> \o <<a, b>>)
      OBVIOUS
    <3>4. (<<y>> \o <<a, b>>)[1] = y
      OBVIOUS
    <3>5. defs = <<y>> \o <<a, b>>
      BY <3>1
    <3> HIDE DEF defs
    <3>7. defs \in Seq({y, a, b}) /\ defs # <<>> /\ 1 \in DOMAIN defs
      BY <3>2, <3>5
    <3>6. {y} \subseteq Range(defs)
      BY <3>4, <3>5, <3>7 DEF Range
    <3>8. Adds(norm, operands, {y})
      BY <3>6, <3>7, AddsResults
    <3> QED BY <2>2, <3>8
  <2> QED BY <2>1, <2>2
<1>7. Adds(yOut, {y}, {ySet}) /\ Adds(meanOut, {mean}, {meanSet}) /\ Adds(invOut, {inv}, {invSet})
  BY AddsResOut
<1>8. BatchNorm(n) = args \o norm \o yOut \o IF training THEN meanOut \o invOut ELSE <<>>
  BY DEF BatchNorm
<1>9. (training => made = {y, mean, inv}) /\ (~training => made = {y})
  OBVIOUS
<1> HIDE DEF training, channel, ifNull, extra, mean, inv, saved, eps, momentum, flag, x, y,
             scale, bias, chMean, chVar, ySet, meanSet, invSet, epsIn, momIn, xIn, scaleIn,
             biasIn, meanIn, varIn, sx, bx, mx, vx, defs, norm, yOut, meanOut, invOut, made
<1>10. Adds(args, K, {eps, momentum, x, flag} \cup sx \cup bx \cup mx \cup vx)
  <2>1. Adds(epsIn \o momIn, K, {eps, momentum})
    BY <1>1, AddsStep
  <2>2. Adds(epsIn \o momIn \o xIn, K, {eps, momentum, x})
    BY <1>2, <2>1, AddsStep
  <2>3. Adds(epsIn \o momIn \o xIn \o scaleIn, K, {eps, momentum, x} \cup sx)
    BY <1>4, <2>2, AddsStep
  <2>4. Adds(epsIn \o momIn \o xIn \o scaleIn \o biasIn, K, {eps, momentum, x} \cup sx \cup bx)
    BY <1>4, <2>3, AddsStep
  <2>5. Adds(epsIn \o momIn \o xIn \o scaleIn \o biasIn \o meanIn, K,
             {eps, momentum, x} \cup sx \cup bx \cup mx)
    BY <1>4, <2>4, AddsStep
  <2>6. Adds(epsIn \o momIn \o xIn \o scaleIn \o biasIn \o meanIn \o varIn, K,
             {eps, momentum, x} \cup sx \cup bx \cup mx \cup vx)
    BY <1>4, <2>5, AddsStep
  <2> QED BY <1>5, <2>6, AddsStep
<1> HIDE DEF args
<1>11. operands \subseteq K \cup ({eps, momentum, x, flag} \cup sx \cup bx \cup mx \cup vx)
  BY <1>4
<1> HIDE DEF operands
<1>12. Adds(args \o norm, K, made)
  BY <1>6, <1>10, <1>11, AddsStep
<1>13. CASE training
  <2>1. Adds(args \o norm \o yOut, K, {mean, inv, ySet})
    BY <1>7, <1>9, <1>12, <1>13, AddsStep
  <2>2. Adds(meanOut \o invOut, {mean, inv}, {meanSet, invSet})
    <3>1. Adds(meanOut, {mean, inv}, {meanSet})
      BY <1>7, AddsMore
    <3> QED BY <1>7, <3>1, AddsStep
  <2>3. Adds(args \o norm \o yOut \o (meanOut \o invOut), K, {ySet, meanSet, invSet})
    BY <2>1, <2>2, AddsStep
  <2> QED BY <1>8, <1>13, <2>3 DEF training, ySet, meanSet, invSet
<1>14. CASE ~training
  <2>1. Adds(args \o norm \o yOut, K, {ySet})
    BY <1>7, <1>9, <1>12, <1>14, AddsStep
  <2>2. Adds(<<>>, {}, {})
    BY AddsNothing
  <2>3. Adds(args \o norm \o yOut \o <<>>, K, {ySet})
    BY <2>1, <2>2, AddsStep
  <2> QED BY <1>8, <1>14, <2>3 DEF training, ySet
<1> QED BY <1>13, <1>14

-----------------------------------------------------------------------------
(* Templates of steps                                                      *)

\* A template for m operands: a step takes operands, values of given and values of earlier
\* steps, and some step defines the result of the node.
WellFormed(template, m, given) ==
  /\ Len(template) \in Nat
  /\ template = [i \in 1..Len(template) |-> template[i]]
  /\ \A i \in 1..Len(template) :
       /\ template[i][2] \subseteq 1..m
       /\ \A v \in template[i][3] :
            v \in given \/ (v # <<>> /\ \E j \in 1..i - 1 : template[j][1] = v)
  /\ \E i \in 1..Len(template) : template[i][1] = <<>>

LEMMA StepsAdd ==
  ASSUME NEW n, NEW template, NEW m, NEW given, WellFormed(template, m, given),
         NEW args, NEW result, NEW K, \A k \in 1..m : args[k] \in K,
         \A v \in given : v \o n.name \in K
  PROVE  Adds(Steps(n, template, args, result), K, {result})
<1> DEFINE len    == Len(template)
           value(i) == IF template[i][1] = <<>> THEN result ELSE template[i][1] \o n.name
           uses(i)  == {args[k] : k \in template[i][2]} \cup {v \o n.name : v \in template[i][3]}
           p == Steps(n, template, args, result)
<1>1. /\ len \in Nat /\ template = [i \in 1..len |-> template[i]]
      /\ \A i \in 1..len :
           /\ template[i][2] \subseteq 1..m
           /\ \A v \in template[i][3] :
                v \in given \/ (v # <<>> /\ \E j \in 1..i - 1 : template[j][1] = v)
      /\ \E i \in 1..len : template[i][1] = <<>>
  BY DEF WellFormed
<1>2. p = [i \in DOMAIN template |-> [def |-> <<value(i)>>, use |-> uses(i)]]
  BY DEF Steps
<1>3. DOMAIN template = 1..len
  <2> HIDE DEF len
  <2> QED BY <1>1
<1> HIDE DEF p, len
<1>4. p = [i \in 1..len |-> [def |-> <<value(i)>>, use |-> uses(i)]]
  BY <1>2, <1>3
<1>5. \A i \in 1..len : p[i].def = <<value(i)>> /\ p[i].use = uses(i)
  <2> HIDE DEF value, uses
  <2> QED BY <1>4
<1>6. Statements(p) /\ Len(p) = len
  <2> HIDE DEF value, uses
  <2>1. p \in [1..len -> {p[i] : i \in 1..len}]
    BY <1>4
  <2>2. p \in Seq({p[i] : i \in 1..len}) /\ Len(p) = len
    BY <1>1, <2>1
  <2> QED BY <2>2 DEF Statements
<1>7. ASSUME NEW i \in 1..len, NEW u \in uses(i) PROVE u \in K \cup Before(p, i)
  <2>1. CASE \E k \in template[i][2] : u = args[k]
    BY <1>1, <2>1
  <2>2. CASE \E v \in template[i][3] : u = v \o n.name
    <3>1. PICK v \in template[i][3] : u = v \o n.name
      BY <2>2
    <3>2. CASE v \in given
      BY <3>1, <3>2
    <3>3. CASE v \notin given
      <4>1. PICK j \in 1..i - 1 : template[j][1] = v /\ v # <<>>
        BY <1>1, <3>3
      <4>2. j \in 1..len
        BY <1>1
      <4>3. value(j) = u
        BY <3>1, <4>1
      <4>4. p[j].def = <<u>>
        BY <1>5, <4>2, <4>3
      <4>5. u \in Range(p[j].def)
        BY <4>4 DEF Range
      <4>6. u \in Before(p, i)
        BY <4>5, InBefore
      <4> QED BY <4>6
    <3> QED BY <3>2, <3>3
  <2> QED BY <2>1, <2>2
<1>8. result \in Before(p, Len(p) + 1)
  <2>1. PICK i \in 1..len : template[i][1] = <<>>
    BY <1>1
  <2>2. p[i].def = <<result>>
    BY <1>5, <2>1
  <2>3. result \in Range(p[i].def)
    BY <2>2 DEF Range
  <2>4. i \in 1..(Len(p) + 1) - 1
    BY <1>1, <1>6
  <2> QED BY <2>3, <2>4, InBefore
<1>9. \A i \in 1..len : Results(p[i].def) /\ p[i].use \subseteq K \cup Before(p, i)
  <2>1. \A v : Results(<<v>>)
    <3> TAKE v
    <3> DEFINE d == <<v>>
    <3>1. d \in Seq({v}) /\ d # <<>>
      OBVIOUS
    <3> HIDE DEF d
    <3>2. Results(d)
      BY <3>1, ResultsOf
    <3> QED BY <3>2 DEF d
  <2> HIDE DEF value, uses
  <2> QED BY <1>5, <1>7, <2>1
<1>10. Adds(p, K, {result})
  BY <1>6, <1>8, <1>9 DEF Adds
<1> QED BY <1>10 DEF p

\* Constants and an operation on them and the operands.
LEMMA WithConstantsFormed ==
  ASSUME NEW S, NEW constants \in Seq(S), <<>> \notin S, NEW m, NEW ins, ins \subseteq 1..m
  PROVE  WellFormed(WithConstants(ins, constants), m, {})
<1> DEFINE k == Len(constants)
           c(i) == <<constants[i], {}, {}>>
           uses == {constants[i] : i \in DOMAIN constants}
           op == <<<<>>, ins, uses>>
           head == [i \in DOMAIN constants |-> c(i)]
           t == head \o <<op>>
<1>1. /\ k \in Nat /\ DOMAIN constants = 1..k
      /\ \A i \in 1..k : constants[i] # <<>>
  OBVIOUS
<1>2. head = [i \in 1..k |-> c(i)]
  BY <1>1
<1>3. uses = {constants[i] : i \in 1..k}
  BY <1>1
<1>4. op[1] = <<>> /\ op[2] = ins /\ op[3] = uses
  <2> HIDE DEF uses
  <2> QED OBVIOUS
<1>5. \A i \in 1..k : c(i)[1] = constants[i] /\ c(i)[2] = {} /\ c(i)[3] = {}
  OBVIOUS
<1>6. t = WithConstants(ins, constants)
  BY DEF WithConstants
<1> HIDE DEF op, c, k
<1>7. head \in Seq({c(i) : i \in 1..k} \cup {op}) /\ Len(head) = k
  <2>1. head \in [1..k -> {c(i) : i \in 1..k} \cup {op}]
    BY <1>2
  <2> HIDE DEF head
  <2> QED BY <1>1, <2>1
<1>8. \A i \in 1..k : head[i] = c(i)
  BY <1>2
<1> HIDE DEF head
<1>9. <<op>> \in Seq({c(i) : i \in 1..k} \cup {op}) /\ Len(<<op>>) = 1 /\ <<op>>[1] = op
  OBVIOUS
<1>10. /\ t \in Seq({c(i) : i \in 1..k} \cup {op}) /\ Len(t) = k + 1
       /\ \A i \in 1..k : t[i] = c(i)
       /\ t[k + 1] = op
  <2> DEFINE T == {c(i) : i \in 1..k} \cup {op}
             o == <<op>>
  <2> HIDE DEF T, o
  <2>1. head \in Seq(T) /\ o \in Seq(T) /\ Len(o) = 1 /\ o[1] = op
    BY <1>7, <1>9 DEF T, o
  <2>2. /\ head \o o \in Seq(T) /\ Len(head \o o) = k + 1
        /\ \A i \in 1..k : (head \o o)[i] = head[i]
        /\ (head \o o)[k + 1] = o[1]
    <3>1. Statements(head) /\ Statements(o) /\ head \o o \in Seq(T)
      BY <2>1, StatementsIn
    <3>2. /\ Len(head \o o) = Len(head) + Len(o)
          /\ \A i \in 1..Len(head) : (head \o o)[i] = head[i]
          /\ \A i \in 1..Len(o) : (head \o o)[Len(head) + i] = o[i]
      BY <3>1, Joined
    <3>3. 1 \in 1..Len(o)
      BY <2>1
    <3> QED BY <1>7, <2>1, <3>1, <3>2, <3>3
  <2> QED BY <1>8, <2>1, <2>2 DEF T, o
<1> HIDE DEF t
<1>11. t = [i \in 1..Len(t) |-> t[i]] /\ Len(t) \in Nat
  BY <1>10
<1>12. \A i \in 1..k + 1 : i \in 1..k \/ i = k + 1
  BY <1>1
<1>13. ASSUME NEW i \in 1..k + 1
       PROVE /\ t[i][2] \subseteq 1..m
             /\ \A v \in t[i][3] : v # <<>> /\ \E j \in 1..i - 1 : t[j][1] = v
  <2>1. CASE i \in 1..k
    BY <1>5, <1>10, <2>1
  <2>2. CASE i = k + 1
    <3>1. t[i][2] = ins /\ t[i][3] = {constants[j] : j \in 1..k}
      BY <1>3, <1>4, <1>10, <2>2
    <3>2. \A j \in 1..k : t[j][1] = constants[j] /\ j \in 1..i - 1
      BY <1>1, <1>5, <1>10, <2>2
    <3> QED BY <1>1, <3>1, <3>2
  <2> QED BY <1>12, <2>1, <2>2
<1>14. k + 1 \in 1..k + 1 /\ t[k + 1][1] = <<>>
  BY <1>1, <1>4, <1>10
<1>15. WellFormed(t, m, {})
  BY <1>10, <1>11, <1>13, <1>14 DEF WellFormed
<1> QED BY <1>6, <1>15

LEMMA UnaryFormed == WellFormed(PointwiseTemplate("Unary"), 1, {})
<1> DEFINE t == <<<<<<>>, {1}, {}>>>>
<1>1. PointwiseTemplate("Unary") = t
  BY DEF PointwiseTemplate
<1>2. Len(t) = 1 /\ t = [i \in 1..1 |-> t[i]]
  OBVIOUS
<1>3. t[1][1] = <<>> /\ t[1][2] = {1} /\ t[1][3] = {}
  OBVIOUS
<1> HIDE DEF t
<1>4. {1} \subseteq 1..1
  OBVIOUS
<1> QED BY <1>1, <1>2, <1>3, <1>4 DEF WellFormed

LEMMA BinaryFormed == WellFormed(PointwiseTemplate("Binary"), 2, {})
<1> DEFINE t == <<<<<<>>, {1, 2}, {}>>>>
<1>1. PointwiseTemplate("Binary") = t
  BY DEF PointwiseTemplate
<1>2. Len(t) = 1 /\ t = [i \in 1..1 |-> t[i]]
  OBVIOUS
<1>3. t[1][1] = <<>> /\ t[1][2] = {1, 2} /\ t[1][3] = {}
  OBVIOUS
<1> HIDE DEF t
<1>4. {1, 2} \subseteq 1..2
  OBVIOUS
<1> QED BY <1>1, <1>2, <1>3, <1>4 DEF WellFormed

LEMMA TernaryFormed == WellFormed(PointwiseTemplate("Ternary"), 3, {})
<1> DEFINE t == <<<<<<>>, {1, 2, 3}, {}>>>>
<1>1. PointwiseTemplate("Ternary") = t
  BY DEF PointwiseTemplate
<1>2. Len(t) = 1 /\ t = [i \in 1..1 |-> t[i]]
  OBVIOUS
<1>3. t[1][1] = <<>> /\ t[1][2] = {1, 2, 3} /\ t[1][3] = {}
  OBVIOUS
<1> HIDE DEF t
<1>4. {1, 2, 3} \subseteq 1..3
  OBVIOUS
<1> QED BY <1>1, <1>2, <1>3, <1>4 DEF WellFormed

LEMMA AddSquareFormed == WellFormed(PointwiseTemplate("AddSquare"), 2, {})
<1> DEFINE sq     == <<"add", "square", "sq">>
           alpha  == <<"alpha">>
           t      == <<<<sq, {2}, {}>>, <<alpha, {}, {}>>, <<<<>>, {1}, {sq, alpha}>>>>
<1>1. PointwiseTemplate("AddSquare") = t
  BY DEF PointwiseTemplate
<1>2. sq # <<>> /\ alpha # <<>>
  OBVIOUS
<1> HIDE DEF sq, alpha
<1>3. Len(t) = 3 /\ t = [i \in 1..3 |-> t[i]]
  OBVIOUS
<1>4. /\ t[1][1] = sq /\ t[1][2] = {2} /\ t[1][3] = {}
      /\ t[2][1] = alpha /\ t[2][2] = {} /\ t[2][3] = {}
      /\ t[3][1] = <<>> /\ t[3][2] = {1} /\ t[3][3] = {sq, alpha}
  OBVIOUS
<1> HIDE DEF t
<1>5. \A i \in 1..3 : i = 1 \/ i = 2 \/ i = 3
  OBVIOUS
<1> QED BY <1>1, <1>2, <1>3, <1>4, <1>5 DEF WellFormed

LEMMA TanhBwdFormed == WellFormed(PointwiseTemplate("TanhBwd"), 2, {})
<1> DEFINE y      == <<"tanh", "bwd", "y">>
           t      == <<<<y, {2}, {}>>, <<<<>>, {1}, {y}>>>>
<1>1. PointwiseTemplate("TanhBwd") = t
  BY DEF PointwiseTemplate
<1>2. y # <<>>
  OBVIOUS
<1> HIDE DEF y
<1>3. Len(t) = 2 /\ t = [i \in 1..2 |-> t[i]]
  OBVIOUS
<1>4. /\ t[1][1] = y /\ t[1][2] = {2} /\ t[1][3] = {}
      /\ t[2][1] = <<>> /\ t[2][2] = {1} /\ t[2][3] = {y}
  OBVIOUS
<1> HIDE DEF t
<1>5. \A i \in 1..2 : i = 1 \/ i = 2
  OBVIOUS
<1> QED BY <1>1, <1>2, <1>3, <1>4, <1>5 DEF WellFormed

LEMMA SwishFormed == WellFormed(PointwiseTemplate("Swish"), 1, {})
<1> DEFINE beta   == <<"swish", "beta">>
           scaled == <<"swish", "scaled">>
           sig    == <<"swish", "sig">>
           t      == <<<<beta, {}, {}>>, <<scaled, {1}, {beta}>>, <<sig, {}, {scaled}>>,
                       <<<<>>, {1}, {sig}>>>>
<1>1. PointwiseTemplate("Swish") = t
  BY DEF PointwiseTemplate
<1>2. beta # <<>> /\ scaled # <<>> /\ sig # <<>>
  OBVIOUS
<1> HIDE DEF beta, scaled, sig
<1>3. Len(t) = 4 /\ t = [i \in 1..4 |-> t[i]]
  OBVIOUS
<1>4. /\ t[1][1] = beta /\ t[1][2] = {} /\ t[1][3] = {}
      /\ t[2][1] = scaled /\ t[2][2] = {1} /\ t[2][3] = {beta}
      /\ t[3][1] = sig /\ t[3][2] = {} /\ t[3][3] = {scaled}
      /\ t[4][1] = <<>> /\ t[4][2] = {1} /\ t[4][3] = {sig}
  OBVIOUS
<1> HIDE DEF t
<1>5. \A i \in 1..4 : i = 1 \/ i = 2 \/ i = 3 \/ i = 4
  OBVIOUS
<1> QED BY <1>1, <1>2, <1>3, <1>4, <1>5 DEF WellFormed

LEMMA SwishBwdFormed == WellFormed(PointwiseTemplate("SwishBwd"), 2, {})
<1> DEFINE beta   == <<"swish", "bwd">> \o <<"beta">>
           scaled == <<"swish", "bwd">> \o <<"scaled">>
           sig    == <<"swish", "bwd">> \o <<"sig">>
           one    == <<"swish", "bwd">> \o <<"one">>
           minus  == <<"swish", "bwd">> \o <<"one", "minus", "sig">>
           ds     == <<"swish", "bwd">> \o <<"sig", "ds">>
           betax  == <<"swish", "bwd">> \o <<"betax", "sig", "ds">>
           alpha  == <<"swish", "bwd">> \o <<"alpha">>
           dinner == <<"swish", "bwd">> \o <<"dinner">>
           t      == <<<<beta, {}, {}>>, <<scaled, {2}, {beta}>>, <<sig, {}, {scaled}>>,
                       <<one, {}, {}>>, <<minus, {}, {sig, one}>>, <<ds, {}, {sig, minus}>>,
                       <<betax, {}, {scaled, ds}>>, <<alpha, {}, {}>>,
                       <<dinner, {}, {sig, betax, alpha}>>, <<<<>>, {1}, {dinner}>>>>
<1>1. PointwiseTemplate("SwishBwd") = t
  BY DEF PointwiseTemplate, SwishBwd
<1>2. /\ beta # <<>> /\ scaled # <<>> /\ sig # <<>> /\ one # <<>> /\ minus # <<>>
      /\ ds # <<>> /\ betax # <<>> /\ alpha # <<>> /\ dinner # <<>>
  OBVIOUS
<1> HIDE DEF beta, scaled, sig, one, minus, ds, betax, alpha, dinner
<1>3. Len(t) = 10 /\ t = [i \in 1..10 |-> t[i]]
  OBVIOUS
<1>4. /\ t[1][1] = beta /\ t[1][2] = {} /\ t[1][3] = {}
      /\ t[2][1] = scaled /\ t[2][2] = {2} /\ t[2][3] = {beta}
      /\ t[3][1] = sig /\ t[3][2] = {} /\ t[3][3] = {scaled}
      /\ t[4][1] = one /\ t[4][2] = {} /\ t[4][3] = {}
      /\ t[5][1] = minus /\ t[5][2] = {} /\ t[5][3] = {sig, one}
      /\ t[6][1] = ds /\ t[6][2] = {} /\ t[6][3] = {sig, minus}
      /\ t[7][1] = betax /\ t[7][2] = {} /\ t[7][3] = {scaled, ds}
      /\ t[8][1] = alpha /\ t[8][2] = {} /\ t[8][3] = {}
      /\ t[9][1] = dinner /\ t[9][2] = {} /\ t[9][3] = {sig, betax, alpha}
      /\ t[10][1] = <<>> /\ t[10][2] = {1} /\ t[10][3] = {dinner}
  OBVIOUS
<1> HIDE DEF t
<1>5. \A i \in 1..10 : \/ i = 1 \/ i = 2 \/ i = 3 \/ i = 4 \/ i = 5
                    \/ i = 6 \/ i = 7 \/ i = 8 \/ i = 9 \/ i = 10
  OBVIOUS
<1>6. \A i \in 1..10 : t[i][2] \subseteq 1..2
  BY <1>4, <1>5
<1>7. \A i \in 1..10 : \A v \in t[i][3] : v # <<>>
  BY <1>2, <1>4, <1>5
<1>8. /\ t[1][3] = {}
      /\ \A v \in t[2][3] : \E j \in {1} : t[j][1] = v
      /\ \A v \in t[3][3] : \E j \in {2} : t[j][1] = v
      /\ t[4][3] = {}
      /\ \A v \in t[5][3] : \E j \in {3, 4} : t[j][1] = v
      /\ \A v \in t[6][3] : \E j \in {3, 5} : t[j][1] = v
      /\ \A v \in t[7][3] : \E j \in {2, 6} : t[j][1] = v
      /\ t[8][3] = {}
      /\ \A v \in t[9][3] : \E j \in {3, 7, 8} : t[j][1] = v
      /\ \A v \in t[10][3] : \E j \in {9} : t[j][1] = v
  BY <1>4
<1>9. \A i \in 1..10 : \A v \in t[i][3] : \E j \in 1..i - 1 : t[j][1] = v
  BY <1>5, <1>8
<1>10. t[10][1] = <<>> /\ 10 \in 1..10
  BY <1>4
<1>11. \E i \in 1..10 : t[i][1] = <<>>
  BY <1>10
<1>12. \A i \in 1..10 : \A v \in t[i][3] : v # <<>> /\ \E j \in 1..i - 1 : t[j][1] = v
  BY <1>7, <1>9
<1>13. WellFormed(t, 2, {})
  BY <1>3, <1>6, <1>11, <1>12 DEF WellFormed
<1> QED BY <1>1, <1>13

LEMMA SubAddFormed == WellFormed(PointwiseTemplate("SubAdd"), 2, {})
<1> DEFINE constants == <<<<"alpha">>>>
           S == {<<"alpha">>}
<1>1. PointwiseTemplate("SubAdd") = WithConstants({1, 2}, constants)
  BY DEF PointwiseTemplate
<1>2. constants \in Seq(S) /\ <<>> \notin S
  OBVIOUS
<1> HIDE DEF constants, S
<1>3. {1, 2} \subseteq 1..2
  OBVIOUS
<1> QED BY <1>1, <1>2, <1>3, WithConstantsFormed

LEMMA IdentityFormed == WellFormed(PointwiseTemplate("Identity"), 1, {})
<1> DEFINE constants == <<<<"none">>>>
           S == {<<"none">>}
<1>1. PointwiseTemplate("Identity") = WithConstants({1}, constants)
  BY DEF PointwiseTemplate
<1>2. constants \in Seq(S) /\ <<>> \notin S
  OBVIOUS
<1> HIDE DEF constants, S
<1>3. {1} \subseteq 1..1
  OBVIOUS
<1> QED BY <1>1, <1>2, <1>3, WithConstantsFormed

LEMMA EluFormed == WellFormed(PointwiseTemplate("Elu"), 1, {})
<1> DEFINE constants == <<<<"elu", "alpha">>, <<"elu", "scale">>, <<"elu", "input", "scale">>>>
           S == {<<"elu", "alpha">>, <<"elu", "scale">>, <<"elu", "input", "scale">>}
<1>1. PointwiseTemplate("Elu") = WithConstants({1}, constants)
  BY DEF PointwiseTemplate
<1>2. constants \in Seq(S) /\ <<>> \notin S
  OBVIOUS
<1> HIDE DEF constants, S
<1>3. {1} \subseteq 1..1
  OBVIOUS
<1> QED BY <1>1, <1>2, <1>3, WithConstantsFormed

LEMMA ReluBwdFormed == WellFormed(PointwiseTemplate("ReluBwd"), 2, {})
<1> DEFINE constants == <<<<"relu", "bwd", "threshold">>>>
           S == {<<"relu", "bwd", "threshold">>}
<1>1. PointwiseTemplate("ReluBwd") = WithConstants({1, 2}, constants)
  BY DEF PointwiseTemplate
<1>2. constants \in Seq(S) /\ <<>> \notin S
  OBVIOUS
<1> HIDE DEF constants, S
<1>3. {1, 2} \subseteq 1..2
  OBVIOUS
<1> QED BY <1>1, <1>2, <1>3, WithConstantsFormed

LEMMA GeluFormed == WellFormed(PointwiseTemplate("Gelu"), 1, {})
<1> DEFINE constants == <<<<"gelu", "approximate">>>>
           S == {<<"gelu", "approximate">>}
<1>1. PointwiseTemplate("Gelu") = WithConstants({1}, constants)
  BY DEF PointwiseTemplate
<1>2. constants \in Seq(S) /\ <<>> \notin S
  OBVIOUS
<1> HIDE DEF constants, S
<1>3. {1} \subseteq 1..1
  OBVIOUS
<1> QED BY <1>1, <1>2, <1>3, WithConstantsFormed

LEMMA GeluBwdFormed == WellFormed(PointwiseTemplate("GeluBwd"), 2, {})
<1> DEFINE constants == <<<<"gelu", "approximate">>>>
           S == {<<"gelu", "approximate">>}
<1>1. PointwiseTemplate("GeluBwd") = WithConstants({1, 2}, constants)
  BY DEF PointwiseTemplate
<1>2. constants \in Seq(S) /\ <<>> \notin S
  OBVIOUS
<1> HIDE DEF constants, S
<1>3. {1, 2} \subseteq 1..2
  OBVIOUS
<1> QED BY <1>1, <1>2, <1>3, WithConstantsFormed

LEMMA SoftplusFormed == WellFormed(PointwiseTemplate("Softplus"), 1, {})
<1> DEFINE constants == <<<<"softplus", "beta">>, <<"softplus", "threshold">>>>
           S == {<<"softplus", "beta">>, <<"softplus", "threshold">>}
<1>1. PointwiseTemplate("Softplus") = WithConstants({1}, constants)
  BY DEF PointwiseTemplate
<1>2. constants \in Seq(S) /\ <<>> \notin S
  OBVIOUS
<1> HIDE DEF constants, S
<1>3. {1} \subseteq 1..1
  OBVIOUS
<1> QED BY <1>1, <1>2, <1>3, WithConstantsFormed

LEMMA PointwiseFormed ==
  /\ \A mode \in Unary : WellFormed(PointwiseTemplate(mode), 1, {})
  /\ \A mode \in Binary : WellFormed(PointwiseTemplate(mode), 2, {})
  /\ WellFormed(PointwiseTemplate("Ternary"), 3, {})
BY UnaryFormed, BinaryFormed, TernaryFormed, AddSquareFormed, TanhBwdFormed, SwishFormed,
   SwishBwdFormed, SubAddFormed, IdentityFormed, EluFormed, ReluBwdFormed, GeluFormed,
   GeluBwdFormed, SoftplusFormed DEF Unary, Binary

LEMMA KeepdimFormed == WellFormed(ReductionTemplate("Keepdim"), 1, {<<"reduction", "dims">>})
<1> DEFINE dims   == <<"reduction", "dims">>
           keep   == <<"keepdim">>
           t      == <<<<keep, {}, {}>>, <<<<>>, {1}, {dims, keep}>>>>
<1>1. ReductionTemplate("Keepdim") = t
  BY DEF ReductionTemplate
<1>2. keep # <<>>
  OBVIOUS
<1> HIDE DEF dims, keep
<1>3. Len(t) = 2 /\ t = [i \in 1..2 |-> t[i]]
  OBVIOUS
<1>4. /\ t[1][1] = keep /\ t[1][2] = {} /\ t[1][3] = {}
      /\ t[2][1] = <<>> /\ t[2][2] = {1} /\ t[2][3] = {dims, keep}
  OBVIOUS
<1> HIDE DEF t
<1>5. \A i \in 1..2 : i = 1 \/ i = 2
  OBVIOUS
<1>6. WellFormed(t, 1, {dims})
  BY <1>2, <1>3, <1>4, <1>5 DEF WellFormed
<1> QED BY <1>1, <1>6 DEF dims

LEMMA KeepdimDtypeFormed == WellFormed(ReductionTemplate("KeepdimDtype"), 1, {<<"reduction", "dims">>})
<1> DEFINE dims   == <<"reduction", "dims">>
           keep   == <<"keepdim">>
           type   == <<"dtype">>
           t      == <<<<keep, {}, {}>>, <<type, {}, {}>>,
                       <<<<>>, {1}, {dims, keep, type}>>>>
<1>1. ReductionTemplate("KeepdimDtype") = t
  BY DEF ReductionTemplate
<1>2. keep # <<>> /\ type # <<>>
  OBVIOUS
<1> HIDE DEF dims, keep, type
<1>3. Len(t) = 3 /\ t = [i \in 1..3 |-> t[i]]
  OBVIOUS
<1>4. /\ t[1][1] = keep /\ t[1][2] = {} /\ t[1][3] = {}
      /\ t[2][1] = type /\ t[2][2] = {} /\ t[2][3] = {}
      /\ t[3][1] = <<>> /\ t[3][2] = {1} /\ t[3][3] = {dims, keep, type}
  OBVIOUS
<1> HIDE DEF t
<1>5. \A i \in 1..3 : i = 1 \/ i = 2 \/ i = 3
  OBVIOUS
<1>6. WellFormed(t, 1, {dims})
  BY <1>2, <1>3, <1>4, <1>5 DEF WellFormed
<1> QED BY <1>1, <1>6 DEF dims

LEMMA Norm1Formed == WellFormed(ReductionTemplate("Norm1"), 1, {<<"reduction", "dims">>})
<1> DEFINE dims   == <<"reduction", "dims">>
           keep   == <<"keepdim">>
           type   == <<"dtype">>
           abs    == <<"abs">>
           t      == <<<<abs, {1}, {}>>, <<keep, {}, {}>>, <<type, {}, {}>>,
                       <<<<>>, {}, {abs, dims, keep, type}>>>>
<1>1. ReductionTemplate("Norm1") = t
  BY DEF ReductionTemplate
<1>2. keep # <<>> /\ type # <<>> /\ abs # <<>>
  OBVIOUS
<1> HIDE DEF dims, keep, type, abs
<1>3. Len(t) = 4 /\ t = [i \in 1..4 |-> t[i]]
  OBVIOUS
<1>4. /\ t[1][1] = abs /\ t[1][2] = {1} /\ t[1][3] = {}
      /\ t[2][1] = keep /\ t[2][2] = {} /\ t[2][3] = {}
      /\ t[3][1] = type /\ t[3][2] = {} /\ t[3][3] = {}
      /\ t[4][1] = <<>> /\ t[4][2] = {} /\ t[4][3] = {abs, dims, keep, type}
  OBVIOUS
<1> HIDE DEF t
<1>5. \A i \in 1..4 : i = 1 \/ i = 2 \/ i = 3 \/ i = 4
  OBVIOUS
<1>6. WellFormed(t, 1, {dims})
  BY <1>2, <1>3, <1>4, <1>5 DEF WellFormed
<1> QED BY <1>1, <1>6 DEF dims

LEMMA Norm2Formed == WellFormed(ReductionTemplate("Norm2"), 1, {<<"reduction", "dims">>})
<1> DEFINE dims   == <<"reduction", "dims">>
           keep   == <<"keepdim">>
           type   == <<"dtype">>
           sq     == <<"sq">>
           sumsq  == <<"sumsq">>
           t      == <<<<sq, {1}, {}>>, <<keep, {}, {}>>, <<type, {}, {}>>,
                       <<sumsq, {}, {sq, dims, keep, type}>>, <<<<>>, {}, {sumsq}>>>>
<1>1. ReductionTemplate("Norm2") = t
  BY DEF ReductionTemplate
<1>2. keep # <<>> /\ type # <<>> /\ sq # <<>> /\ sumsq # <<>>
  OBVIOUS
<1> HIDE DEF dims, keep, type, sq, sumsq
<1>3. Len(t) = 5 /\ t = [i \in 1..5 |-> t[i]]
  OBVIOUS
<1>4. /\ t[1][1] = sq /\ t[1][2] = {1} /\ t[1][3] = {}
      /\ t[2][1] = keep /\ t[2][2] = {} /\ t[2][3] = {}
      /\ t[3][1] = type /\ t[3][2] = {} /\ t[3][3] = {}
      /\ t[4][1] = sumsq /\ t[4][2] = {} /\ t[4][3] = {sq, dims, keep, type}
      /\ t[5][1] = <<>> /\ t[5][2] = {} /\ t[5][3] = {sumsq}
  OBVIOUS
<1> HIDE DEF t
<1>5. \A i \in 1..5 : i = 1 \/ i = 2 \/ i = 3 \/ i = 4 \/ i = 5
  OBVIOUS
<1>6. WellFormed(t, 1, {dims})
  BY <1>2, <1>3, <1>4, <1>5 DEF WellFormed
<1> QED BY <1>1, <1>6 DEF dims

LEMMA AbsAmaxFormed == WellFormed(ReductionTemplate("AbsAmax"), 1, {<<"reduction", "dims">>})
<1> DEFINE dims   == <<"reduction", "dims">>
           keep   == <<"keepdim">>
           abs    == <<"abs">>
           t      == <<<<abs, {1}, {}>>, <<keep, {}, {}>>, <<<<>>, {}, {abs, dims, keep}>>>>
<1>1. ReductionTemplate("AbsAmax") = t
  BY DEF ReductionTemplate
<1>2. keep # <<>> /\ abs # <<>>
  OBVIOUS
<1> HIDE DEF dims, keep, abs
<1>3. Len(t) = 3 /\ t = [i \in 1..3 |-> t[i]]
  OBVIOUS
<1>4. /\ t[1][1] = abs /\ t[1][2] = {1} /\ t[1][3] = {}
      /\ t[2][1] = keep /\ t[2][2] = {} /\ t[2][3] = {}
      /\ t[3][1] = <<>> /\ t[3][2] = {} /\ t[3][3] = {abs, dims, keep}
  OBVIOUS
<1> HIDE DEF t
<1>5. \A i \in 1..3 : i = 1 \/ i = 2 \/ i = 3
  OBVIOUS
<1>6. WellFormed(t, 1, {dims})
  BY <1>2, <1>3, <1>4, <1>5 DEF WellFormed
<1> QED BY <1>1, <1>6 DEF dims

LEMMA MulFormed == WellFormed(ReductionTemplate("Mul"), 1, {<<"reduction", "dims">>})
<1> DEFINE dims   == <<"reduction", "dims">>
           type   == <<"dtype">>
           t      == <<<<type, {}, {}>>, <<<<>>, {1}, {dims, type}>>>>
<1>1. ReductionTemplate("Mul") = t
  BY DEF ReductionTemplate
<1>2. type # <<>>
  OBVIOUS
<1> HIDE DEF dims, type
<1>3. Len(t) = 2 /\ t = [i \in 1..2 |-> t[i]]
  OBVIOUS
<1>4. /\ t[1][1] = type /\ t[1][2] = {} /\ t[1][3] = {}
      /\ t[2][1] = <<>> /\ t[2][2] = {1} /\ t[2][3] = {dims, type}
  OBVIOUS
<1> HIDE DEF t
<1>5. \A i \in 1..2 : i = 1 \/ i = 2
  OBVIOUS
<1>6. WellFormed(t, 1, {dims})
  BY <1>2, <1>3, <1>4, <1>5 DEF WellFormed
<1> QED BY <1>1, <1>6 DEF dims

LEMMA MulNoZerosFormed == WellFormed(ReductionTemplate("MulNoZeros"), 1, {<<"reduction", "dims">>})
<1> DEFINE dims   == <<"reduction", "dims">>
           type   == <<"dtype">>
           zero   == <<"zero">>
           mask   == <<"mask">>
           one    == <<"one">>
           fixed  == <<"fixed">>
           t      == <<<<zero, {}, {}>>, <<mask, {1}, {zero}>>, <<one, {}, {}>>,
                       <<fixed, {1}, {mask, one}>>, <<type, {}, {}>>,
                       <<<<>>, {}, {fixed, dims, type}>>>>
<1>1. ReductionTemplate("MulNoZeros") = t
  BY DEF ReductionTemplate
<1>2. type # <<>> /\ zero # <<>> /\ mask # <<>> /\ one # <<>> /\ fixed # <<>>
  OBVIOUS
<1> HIDE DEF dims, type, zero, mask, one, fixed
<1>3. Len(t) = 6 /\ t = [i \in 1..6 |-> t[i]]
  OBVIOUS
<1>4. /\ t[1][1] = zero /\ t[1][2] = {} /\ t[1][3] = {}
      /\ t[2][1] = mask /\ t[2][2] = {1} /\ t[2][3] = {zero}
      /\ t[3][1] = one /\ t[3][2] = {} /\ t[3][3] = {}
      /\ t[4][1] = fixed /\ t[4][2] = {1} /\ t[4][3] = {mask, one}
      /\ t[5][1] = type /\ t[5][2] = {} /\ t[5][3] = {}
      /\ t[6][1] = <<>> /\ t[6][2] = {} /\ t[6][3] = {fixed, dims, type}
  OBVIOUS
<1> HIDE DEF t
<1>5. \A i \in 1..6 : i = 1 \/ i = 2 \/ i = 3 \/ i = 4 \/ i = 5 \/ i = 6
  OBVIOUS
<1>6. WellFormed(t, 1, {dims})
  BY <1>2, <1>3, <1>4, <1>5 DEF WellFormed
<1> QED BY <1>1, <1>6 DEF dims

LEMMA ReductionFormed ==
  \A mode \in Reduced : WellFormed(ReductionTemplate(mode), 1, {<<"reduction", "dims">>})
BY KeepdimFormed, KeepdimDtypeFormed, Norm1Formed, Norm2Formed, AbsAmaxFormed, MulFormed,
   MulNoZerosFormed DEF Reduced

LEMMA ReductionAdds ==
  ASSUME NEW n, NEW K, Given(n, K), <<"X">> \in DOMAIN n.in, n.mode \in Reduced
  PROVE  Adds(ReductionOp(n), K, {n.out[<<"Y">>].name})
<1> DEFINE x      == Arg(n, <<"X">>)
           y      == Res(n, <<"Y">>)
           result == n.out[<<"Y">>].name
           given  == <<"reduction", "dims">>
           dims   == given \o n.name
           xIn    == ArgIn(n, <<"X">>, <<"X">>)
           dimsIn == List(given, n.name)
           args   == <<x>>
           steps  == Steps(n, ReductionTemplate(n.mode), args, y)
           yOut   == ResOut(n, <<"Y">>, <<"Y">>)
<1>1. Adds(xIn, K, {x})
  BY AddsArgIn
<1>2. Adds(dimsIn, K, {dims})
  BY AddsList
<1>3. Adds(steps, {x, dims}, {y})
  <2> DEFINE template == ReductionTemplate(n.mode)
             L == {x, dims}
             G == {given}
  <2>1. WellFormed(template, 1, G)
    BY ReductionFormed
  <2>2. \A k \in 1..1 : args[k] \in L
    <3>1. args[1] = x /\ \A k \in 1..1 : k = 1
      OBVIOUS
    <3> HIDE DEF args, x, dims
    <3> QED BY <3>1
  <2>3. \A v \in G : v \o n.name \in L
    OBVIOUS
  <2> HIDE DEF args, x, y, dims, given, template, L, G
  <2>4. Adds(Steps(n, template, args, y), L, {y})
    BY <2>1, <2>2, <2>3, StepsAdd
  <2> QED BY <2>4 DEF template, L
<1>4. Adds(yOut, {y}, {result})
  BY AddsResOut
<1>5. ReductionOp(n) = xIn \o dimsIn \o steps \o yOut
  BY DEF ReductionOp
<1> HIDE DEF x, y, result, given, dims, xIn, dimsIn, args, steps, yOut
<1>6. Adds(xIn \o dimsIn, K, {x, dims})
  BY <1>1, <1>2, AddsStep
<1>7. Adds(xIn \o dimsIn \o steps, K, {y})
  BY <1>3, <1>6, AddsStep
<1>8. Adds(xIn \o dimsIn \o steps \o yOut, K, {result})
  BY <1>4, <1>7, AddsStep
<1> QED BY <1>5, <1>8 DEF result

-----------------------------------------------------------------------------
(* Numbered ports                                                          *)

LEMMA FlattenFour ==
  ASSUME NEW ss, ss = [i \in 1..4 |-> ss[i]]
  PROVE  FlattenSeq(ss) = ss[1] \o ss[2] \o ss[3] \o ss[4]
<1>1. ss \in [1..4 -> {ss[i] : i \in 1..4}]
  OBVIOUS
<1>2. Len(ss) = 4 /\ 4 \in Nat \ {0}
  BY <1>1
<1>3. PICK f : PartialJoins(ss, 4, f) /\ FlattenSeq(ss) = f[4]
  BY <1>2, FlattenIsPrefix
<1>4. f[1] = ss[1] /\ \A i \in 2..4 : f[i] = f[i - 1] \o ss[i]
  BY <1>3 DEF PartialJoins
<1>5. f[2] = f[1] \o ss[2] /\ f[3] = f[2] \o ss[3] /\ f[4] = f[3] \o ss[4]
  <2>1. 2 \in 2..4 /\ 3 \in 2..4 /\ 4 \in 2..4 /\ 2 - 1 = 1 /\ 3 - 1 = 2 /\ 4 - 1 = 3
    OBVIOUS
  <2> QED BY <1>4, <2>1
<1> QED BY <1>3, <1>4, <1>5

\* The ports of a side are numbered from 0: k of them.
Numbered(ports, p, k) ==
  /\ <<p, "0">> \in ports <=> 1 <= k
  /\ <<p, "1">> \in ports <=> 2 <= k
  /\ <<p, "2">> \in ports <=> 3 <= k
  /\ <<p, "3">> \notin ports

LEMMA PositionsNumbered ==
  ASSUME NEW ports, NEW p, NEW k \in 1..3, Numbered(ports, p, k)
  PROVE  /\ Positions(ports, p) \in Seq({"0", "1", "2"})
         /\ Len(Positions(ports, p)) = k
         /\ Positions(ports, p)[1] = "0"
         /\ \A i \in 1..k : <<p, Positions(ports, p)[i]>> \in ports
         /\ k >= 2 => Positions(ports, p)[2] = "1"
         /\ k >= 3 => Positions(ports, p)[3] = "2"
<1> DEFINE number == <<"0", "1", "2", "3">>
           ss == [i \in 1..4 |-> IF <<p, number[i]>> \in ports THEN <<number[i]>> ELSE <<>>]
           s == Positions(ports, p)
<1>1. s = FlattenSeq(ss)
  BY DEF Positions
<1>2. FlattenSeq(ss) = ss[1] \o ss[2] \o ss[3] \o ss[4]
  <2>1. ss = [i \in 1..4 |-> ss[i]]
    OBVIOUS
  <2> HIDE DEF ss
  <2> QED BY <2>1, FlattenFour
<1>3. number[1] = "0" /\ number[2] = "1" /\ number[3] = "2" /\ number[4] = "3"
  OBVIOUS
<1> HIDE DEF number
<1>4. /\ ss[1] = <<"0">>
      /\ ss[2] = IF 2 <= k THEN <<"1">> ELSE <<>>
      /\ ss[3] = IF 3 <= k THEN <<"2">> ELSE <<>>
      /\ ss[4] = <<>>
  BY <1>3 DEF Numbered
<1> HIDE DEF ss, s
<1>5. k = 1 \/ k = 2 \/ k = 3
  OBVIOUS
<1>6. CASE k = 1
  <2>1. s = <<"0">> \o <<>> \o <<>> \o <<>>
    BY <1>1, <1>2, <1>4, <1>6
  <2>2. s \in Seq({"0", "1", "2"}) /\ Len(s) = 1 /\ s[1] = "0"
    BY <2>1
  <2>3. \A i \in 1..k : i = 1
    BY <1>6
  <2> QED BY <1>6, <2>2, <2>3 DEF s, Numbered
<1>7. CASE k = 2
  <2>1. s = <<"0">> \o <<"1">> \o <<>> \o <<>>
    BY <1>1, <1>2, <1>4, <1>7
  <2>2. s \in Seq({"0", "1", "2"}) /\ Len(s) = 2 /\ s[1] = "0" /\ s[2] = "1"
    BY <2>1
  <2>3. \A i \in 1..k : i = 1 \/ i = 2
    BY <1>7
  <2>4. <<p, "0">> \in ports /\ <<p, "1">> \in ports /\ ~(k >= 3)
    BY <1>7 DEF Numbered
  <2>5. \A i \in 1..k : <<p, s[i]>> \in ports
    BY <2>2, <2>3, <2>4
  <2> QED BY <1>7, <2>2, <2>4, <2>5 DEF s
<1>8. CASE k = 3
  <2>1. s = <<"0">> \o <<"1">> \o <<"2">> \o <<>>
    BY <1>1, <1>2, <1>4, <1>8
  <2>2. s \in Seq({"0", "1", "2"}) /\ Len(s) = 3 /\ s[1] = "0" /\ s[2] = "1" /\ s[3] = "2"
    BY <2>1
  <2>3. \A i \in 1..k : i = 1 \/ i = 2 \/ i = 3
    BY <1>8
  <2> QED BY <1>8, <2>2, <2>3 DEF s, Numbered
<1> QED BY <1>5, <1>6, <1>7, <1>8

Row(ss, m) == ss = [i \in 1..m |-> ss[i]]

Values(value, m) == {value[i] : i \in 1..m}

\* Pieces for the members of a sequence, each of which needs no other.
LEMMA AddsEach ==
  ASSUME NEW m \in Nat, NEW ss, Row(ss, m), NEW K, NEW value,
         \A i \in 1..m : Adds(ss[i], K, {value[i]})
  PROVE  Adds(FlattenSeq(ss), K, Values(value, m))
<1> DEFINE a == [i \in 1..m |-> {value[i]}]
           k == [i \in 1..m |-> K]
<1>1. \A i \in 1..m : a[i] = {value[i]} /\ k[i] = K
  OBVIOUS
<1> HIDE DEF a, k
<1>2. \A i \in 1..m : Adds(ss[i], k[i], a[i]) /\ k[i] \subseteq K \cup Added(a, i - 1)
  BY <1>1
<1>3. Adds(FlattenSeq(ss), K, Added(a, m))
  BY <1>2, AddsFlatten DEF Row
<1>4. Added(a, m) = Values(value, m)
  BY <1>1 DEF Added, Values
<1> QED BY <1>3, <1>4

LEMMA PointwiseAdds ==
  ASSUME NEW n, NEW K, Given(n, K), NEW m \in 1..3, Numbered(DOMAIN n.in, "IN", m),
         WellFormed(PointwiseTemplate(n.mode), m, {})
  PROVE  Adds(PointwiseOp(n), K, {n.out[<<"OUT", "0">>].name})
<1> DEFINE inputs   == Positions(DOMAIN n.in, "IN")
           args     == [k \in 1..m |-> Arg(n, <<"IN", inputs[k]>>)]
           pieces   == [k \in 1..m |-> ArgIn(n, <<"IN", inputs[k]>>, <<"IN", inputs[k]>>)]
           operands == Values(args, m)
           y        == Res(n, <<"OUT", "0">>)
           result   == n.out[<<"OUT", "0">>].name
           template == PointwiseTemplate(n.mode)
           steps    == Steps(n, template, args, y)
           yOut     == ResOut(n, <<"OUT", "0">>, <<"OUT", "0">>)
<1>1. DOMAIN inputs = 1..m /\ \A i \in 1..m : <<"IN", inputs[i]>> \in DOMAIN n.in
  <2>1. inputs \in Seq({"0", "1", "2"}) /\ Len(inputs) = m
          /\ \A i \in 1..m : <<"IN", inputs[i]>> \in DOMAIN n.in
    BY PositionsNumbered
  <2> HIDE DEF inputs
  <2> QED BY <2>1
<1>2. PointwiseOp(n) = FlattenSeq(pieces) \o steps \o yOut
  BY <1>1 DEF PointwiseOp
<1> HIDE DEF inputs
<1>3. \A i \in 1..m : Adds(pieces[i], K, {args[i]})
  <2> TAKE i \in 1..m
  <2> DEFINE p == <<"IN", inputs[i]>>
  <2>1. pieces[i] = ArgIn(n, p, p) /\ args[i] = Arg(n, p)
    OBVIOUS
  <2>2. p \in DOMAIN n.in
    BY <1>1
  <2> HIDE DEF p, pieces, args
  <2>3. Adds(ArgIn(n, p, p), K, {Arg(n, p)})
    BY <2>2, AddsArgIn
  <2> QED BY <2>1, <2>3
<1>4. Row(pieces, m)
  BY DEF Row
<1>5. Adds(yOut, {y}, {result})
  BY AddsResOut
<1> HIDE DEF args, pieces
<1>6. Adds(FlattenSeq(pieces), K, operands)
  <2>1. m \in Nat
    OBVIOUS
  <2> QED BY <1>3, <1>4, <2>1, AddsEach
<1>7. Adds(steps, operands, {y})
  <2> DEFINE G == {}
  <2>1. WellFormed(template, m, G) /\ (\A k \in 1..m : args[k] \in operands)
          /\ \A v \in G : v \o n.name \in operands
    BY DEF Values
  <2>2. steps = Steps(n, template, args, y)
    OBVIOUS
  <2> HIDE DEF G, operands, template, y, steps
  <2>3. Adds(Steps(n, template, args, y), operands, {y})
    BY <2>1, StepsAdd
  <2> QED BY <2>2, <2>3
<1> HIDE DEF operands, y, result, template, steps, yOut
<1> DEFINE head == FlattenSeq(pieces)
<1> HIDE DEF head
<1>8. Adds(head \o steps, K, {y})
  BY <1>6, <1>7, AddsStep DEF head
<1>9. Adds(head \o steps \o yOut, K, {result})
  BY <1>5, <1>8, AddsStep
<1> QED BY <1>2, <1>9 DEF head, result

\* A custom op defines its outputs, at most three of them.
LEMMA CustomOpAdds ==
  ASSUME NEW n, NEW K, Given(n, K), NEW m \in 1..3, Numbered(DOMAIN n.in, "IN", m),
         NEW l \in 1..3, Numbered(DOMAIN n.out, "OUT", l)
  PROVE  Adds(CustomOp(n), K,
              {n.out[<<"OUT", Positions(DOMAIN n.out, "OUT")[i]>>].name : i \in 1..l})
<1> DEFINE ins       == Positions(DOMAIN n.in, "IN")
           outs      == Positions(DOMAIN n.out, "OUT")
           in(k)     == n.in[<<"IN", ins[k]>>]
           out(k)    == n.out[<<"OUT", outs[k]>>]
           suffix(k) == Append(n.name, <<"i0", "i1", "i2", "i3">>[k])
           result    == IF Len(outs) = 1 THEN Res(n, <<"OUT", "0">>)
                        ELSE out(1).name \o n.name \o <<"res">>
           args      == [k \in 1..m |-> Converted(in(k), suffix(k))]
           operands  == Values(args, m)
           uses      == {Converted(in(k), suffix(k)) : k \in 1..m}
           results   == [k \in 1..l |-> out(k).name]
           before    == [k \in 1..m |-> ToLogical(in(k), <<"permute", "IN", ins[k]>>, suffix(k))]
           after     == [k \in 1..l |->
                           ToPhysical(out(k), <<"permute", "OUT", outs[k]>>, n.name, result)]
<1>1. DOMAIN ins = 1..m /\ \A i \in 1..m : <<"IN", ins[i]>> \in DOMAIN n.in
  <2>1. ins \in Seq({"0", "1", "2"}) /\ Len(ins) = m
          /\ \A i \in 1..m : <<"IN", ins[i]>> \in DOMAIN n.in
    BY PositionsNumbered
  <2> HIDE DEF ins
  <2> QED BY <2>1
<1>2. DOMAIN outs = 1..l
  <2>1. outs \in Seq({"0", "1", "2"}) /\ Len(outs) = l
    BY PositionsNumbered
  <2> HIDE DEF outs
  <2> QED BY <2>1
<1>3. CustomOp(n) = FlattenSeq(before) \o Op(<<result>>, uses) \o FlattenSeq(after)
  BY <1>1, <1>2 DEF CustomOp
<1>4. uses = operands
  <2>1. \A k \in 1..m : args[k] = Converted(in(k), suffix(k))
    OBVIOUS
  <2> HIDE DEF args, in, suffix
  <2> QED BY <2>1 DEF Values
<1>5. \A i \in 1..m : Adds(before[i], K, {args[i]})
  <2> TAKE i \in 1..m
  <2> DEFINE t == in(i)
             x == <<"permute", "IN", ins[i]>>
             s == suffix(i)
  <2>1. before[i] = ToLogical(t, x, s) /\ args[i] = Converted(t, s)
    OBVIOUS
  <2>2. t.name \in K
    BY <1>1 DEF Given
  <2> HIDE DEF t, x, s, before, args
  <2> QED BY <2>1, <2>2, AddsToLogical
<1>6. \A i \in 1..l : Adds(after[i], {result}, {results[i]})
  <2> TAKE i \in 1..l
  <2> DEFINE t == out(i)
             x == <<"permute", "OUT", outs[i]>>
  <2>1. after[i] = ToPhysical(t, x, n.name, result) /\ results[i] = t.name
    OBVIOUS
  <2> HIDE DEF t, x, after, results, result
  <2> QED BY <2>1, AddsToPhysical
<1>7. Row(before, m) /\ Row(after, l)
  BY DEF Row
<1>8. {n.out[<<"OUT", outs[i]>>].name : i \in 1..l} = Values(results, l)
  <2>1. \A i \in 1..l : results[i] = n.out[<<"OUT", outs[i]>>].name
    OBVIOUS
  <2> HIDE DEF results, outs
  <2> QED BY <2>1 DEF Values
<1> HIDE DEF ins, in, out, suffix, result, args, uses, results, before, after
<1>9. Adds(FlattenSeq(before), K, operands)
  <2>1. m \in Nat
    OBVIOUS
  <2> QED BY <1>5, <1>7, <2>1, AddsEach
<1>10. Adds(FlattenSeq(after), {result}, Values(results, l))
  <2>1. l \in Nat
    OBVIOUS
  <2> QED BY <1>6, <1>7, <2>1, AddsEach
<1>11. Adds(Op(<<result>>, uses), uses, {result})
  BY AddsValue
<1> DEFINE head == FlattenSeq(before)
           tail == FlattenSeq(after)
           made == Values(results, l)
           call == Op(<<result>>, uses)
           res  == {result}
<1>12. Adds(head, K, operands) /\ Adds(call, operands, res) /\ Adds(tail, res, made)
  BY <1>4, <1>9, <1>10, <1>11
<1> HIDE DEF operands, head, tail, made, call, res
<1>13. Adds(head \o call, K, res)
  BY <1>12, AddsStep
<1>14. Adds(head \o call \o tail, K, made)
  BY <1>12, <1>13, AddsStep
<1> QED BY <1>3, <1>8, <1>14 DEF head, tail, made, call, outs

-----------------------------------------------------------------------------
(* What a node adds                                                        *)

LEMMA RangeJoined ==
  ASSUME NEW S, NEW p \in Seq(S), NEW q \in Seq(S)
  PROVE  Range(p \o q) = Range(p) \cup Range(q)
<1>1. /\ DOMAIN p = 1..Len(p) /\ DOMAIN q = 1..Len(q)
      /\ Len(p) \in Nat /\ Len(q) \in Nat
      /\ DOMAIN (p \o q) = 1..Len(p) + Len(q)
      /\ \A i \in 1..Len(p) : (p \o q)[i] = p[i]
      /\ \A i \in 1..Len(q) : (p \o q)[Len(p) + i] = q[i]
  <2>1. Statements(p) /\ Statements(q) /\ p \o q \in Seq(S)
    BY StatementsIn
  <2> QED BY <2>1, Joined
<1> DEFINE m == Len(p)
           n == Len(q)
           r == p \o q
<1>2. /\ DOMAIN p = 1..m /\ DOMAIN q = 1..n /\ m \in Nat /\ n \in Nat
      /\ DOMAIN r = 1..m + n
      /\ \A i \in 1..m : r[i] = p[i]
      /\ \A i \in 1..n : r[m + i] = q[i]
  BY <1>1
<1> HIDE DEF m, n, r
<1>3. \A i \in 1..m + n : i \in 1..m \/ (i - m \in 1..n /\ i = m + (i - m))
  BY <1>2
<1>4. (\A i \in 1..m : i \in 1..m + n) /\ \A i \in 1..n : m + i \in 1..m + n
  BY <1>2
<1>5. \A x : x \in Range(r) <=> x \in Range(p) \cup Range(q)
  <2> TAKE x
  <2>1. ASSUME x \in Range(r) PROVE x \in Range(p) \cup Range(q)
    <3>1. PICK i \in 1..m + n : x = r[i]
      BY <1>2, <2>1 DEF Range
    <3>2. CASE i \in 1..m
      BY <1>2, <3>1, <3>2 DEF Range
    <3>3. CASE i - m \in 1..n /\ i = m + (i - m)
      BY <1>2, <3>1, <3>3 DEF Range
    <3> QED BY <1>3, <3>2, <3>3
  <2>2. ASSUME x \in Range(p) PROVE x \in Range(r)
    BY <1>2, <1>4, <2>2 DEF Range
  <2>3. ASSUME x \in Range(q) PROVE x \in Range(r)
    <3>1. PICK i \in 1..n : x = q[i]
      BY <1>2, <2>3 DEF Range
    <3>2. r[m + i] = x /\ m + i \in DOMAIN r
      BY <1>2, <1>4, <3>1
    <3> QED BY <3>2 DEF Range
  <2> QED BY <2>1, <2>2, <2>3
<1> QED BY <1>5 DEF r

LEMMA RangeListed ==
  ASSUME NEW a, NEW b
  PROVE  /\ Range(<<>>) = {}
         /\ Range(<<a>>) = {a}
         /\ Range(<<a, b>>) = {a, b}
<1>1. Range(<<>>) = {} /\ Range(<<a>>) = {a}
  BY DEF Range
<1>2. Range(<<a, b>>) = {a, b}
  <2> DEFINE s == <<a, b>>
  <2>1. DOMAIN s = {1, 2} /\ s[1] = a /\ s[2] = b
    OBVIOUS
  <2> HIDE DEF s
  <2>2. Range(s) = {a, b}
    BY <2>1 DEF Range
  <2> QED BY <2>2 DEF s
<1> QED BY <1>1, <1>2

\* What a call gives before and after the optional ports.
LEMMA RangeAround ==
  ASSUME NEW S, NEW a, NEW s \in Seq(S), NEW t, NEW T, t \in Seq(T)
  PROVE  {a} \cup Range(t) \subseteq Range(<<a>> \o s \o t)
<1> DEFINE U == {a} \cup S \cup T
           p == <<a>>
<1>1. p \in Seq(U) /\ s \in Seq(U) /\ t \in Seq(U)
  OBVIOUS
<1>2. Range(p) = {a}
  BY RangeListed
<1> HIDE DEF U, p
<1>3. p \o s \in Seq(U)
  BY <1>1
<1>4. Range(p \o s) = Range(p) \cup Range(s)
  BY <1>1, RangeJoined
<1> DEFINE ps == p \o s
<1>5. ps \in Seq(U) /\ Range(ps) = Range(p) \cup Range(s)
  BY <1>3, <1>4
<1>6. ps \o t = p \o s \o t
  OBVIOUS
<1> HIDE DEF ps
<1>7. Range(ps \o t) = Range(ps) \cup Range(t)
  BY <1>1, <1>5, RangeJoined
<1> QED BY <1>2, <1>5, <1>6, <1>7 DEF p

LEMMA RangeAfter ==
  ASSUME NEW a, NEW b, NEW c
  PROVE  /\ Range(<<a>> \o <<b>>) = {a, b}
         /\ Range(<<a>> \o <<b, c>>) = {a, b, c}
<1> DEFINE U == {a, b, c}
           p == <<a>>
           q == <<b>>
           r == <<b, c>>
<1>1. p \in Seq(U) /\ q \in Seq(U) /\ r \in Seq(U)
  OBVIOUS
<1>2. Range(p) = {a} /\ Range(q) = {b} /\ Range(r) = {b, c}
  BY RangeListed
<1> HIDE DEF U, p, q, r
<1>3. Range(p \o q) = Range(p) \cup Range(q) /\ Range(p \o r) = Range(p) \cup Range(r)
  BY <1>1, RangeJoined
<1>4. Range(p \o q) = {a, b} /\ Range(p \o r) = {a, b, c}
  BY <1>2, <1>3
<1> QED BY <1>4 DEF p, q, r

LEMMA SeqOfTyped ==
  ASSUME NEW S, NEW m \in Nat, NEW s \in SeqOf(S, m)
  PROVE  s \in Seq(S)
BY DEF SeqOf

\* n is a node of call.
Made(n, call) ==
  /\ n.kind = call.kind
  /\ n.mode = call.mode
  /\ DOMAIN n.in = Range(call.ins)
  /\ DOMAIN n.out = Range(call.outs)

OutNames(n) == {n.out[p].name : p \in DOMAIN n.out}

\* The template of each kind of node.
LEMMA Templates ==
  ASSUME NEW n
  PROVE  /\ n.kind = <<"conv", "fprop">> => EmitNode(n) = ConvFProp(n)
         /\ n.kind = <<"conv", "wgrad">> => EmitNode(n) = ConvWGrad(n)
         /\ n.kind = <<"conv", "dgrad">> => EmitNode(n) = ConvDGrad(n)
         /\ n.kind = <<"batchnorm">>     => EmitNode(n) = BatchNorm(n)
         /\ n.kind = <<"layernorm">>     => EmitNode(n) = LayerNorm(n)
         /\ n.kind = <<"rmsnorm">>       => EmitNode(n) = RmsNorm(n)
         /\ n.kind = <<"matmul">>        => EmitNode(n) = Matmul(n)
         /\ n.kind = <<"pointwise">>     => EmitNode(n) = PointwiseOp(n)
         /\ n.kind = <<"reduction">>     => EmitNode(n) = ReductionOp(n)
         /\ n.kind = <<"sdpa">>          => EmitNode(n) = Sdpa(n)
         /\ n.kind = <<"custom", "op">>  => EmitNode(n) = CustomOp(n)
BY DEF EmitNode

LEMMA ConvolutionsAdd ==
  ASSUME NEW n, NEW K, Given(n, K),
         Made(n, ConvFPropCall) \/ Made(n, ConvWGradCall) \/ Made(n, ConvDGradCall)
           \/ Made(n, MatmulCall)
  PROVE  Adds(EmitNode(n), K, OutNames(n))
<1>1. CASE Made(n, ConvFPropCall)
  <2>1. n.kind = <<"conv", "fprop">> /\ DOMAIN n.in = {<<"X">>, <<"W">>} /\ DOMAIN n.out = {<<"Y">>}
    BY <1>1, RangeListed DEF Made, ConvFPropCall, Call
  <2>2. OutNames(n) = {n.out[<<"Y">>].name}
    BY <2>1 DEF OutNames
  <2>3. Adds(ConvFProp(n), K, {n.out[<<"Y">>].name})
    BY <2>1, ConvFPropAdds
  <2> QED BY <2>1, <2>2, <2>3, Templates
<1>2. CASE Made(n, ConvWGradCall)
  <2>1. n.kind = <<"conv", "wgrad">> /\ DOMAIN n.in = {<<"DY">>, <<"X">>} /\ DOMAIN n.out = {<<"DW">>}
    BY <1>2, RangeListed DEF Made, ConvWGradCall, Call
  <2>2. OutNames(n) = {n.out[<<"DW">>].name}
    BY <2>1 DEF OutNames
  <2>3. Adds(ConvWGrad(n), K, {n.out[<<"DW">>].name})
    BY <2>1, ConvWGradAdds
  <2> QED BY <2>1, <2>2, <2>3, Templates
<1>3. CASE Made(n, ConvDGradCall)
  <2>1. n.kind = <<"conv", "dgrad">> /\ DOMAIN n.in = {<<"DY">>, <<"W">>} /\ DOMAIN n.out = {<<"DX">>}
    BY <1>3, RangeListed DEF Made, ConvDGradCall, Call
  <2>2. OutNames(n) = {n.out[<<"DX">>].name}
    BY <2>1 DEF OutNames
  <2>3. Adds(ConvDGrad(n), K, {n.out[<<"DX">>].name})
    BY <2>1, ConvDGradAdds
  <2> QED BY <2>1, <2>2, <2>3, Templates
<1>4. CASE Made(n, MatmulCall)
  <2>1. n.kind = <<"matmul">> /\ DOMAIN n.in = {<<"A">>, <<"B">>} /\ DOMAIN n.out = {<<"C">>}
    BY <1>4, RangeListed DEF Made, MatmulCall, Call
  <2>2. OutNames(n) = {n.out[<<"C">>].name}
    BY <2>1 DEF OutNames
  <2>3. Adds(Matmul(n), K, {n.out[<<"C">>].name})
    BY <2>1, MatmulAdds
  <2> QED BY <2>1, <2>2, <2>3, Templates
<1> QED BY <1>1, <1>2, <1>3, <1>4

LEMMA NormsAdd ==
  ASSUME NEW n, NEW K, Given(n, K), NEW training \in BOOLEAN
  PROVE  /\ \A opt \in SeqOf({<<"SCALE">>, <<"BIAS">>, <<"MEAN">>, <<"VAR">>}, 4) :
              Made(n, BatchNormCall(training, opt)) => Adds(EmitNode(n), K, OutNames(n))
         /\ \A opt \in SeqOf({<<"SCALE">>, <<"BIAS">>}, 2) :
              Made(n, LayerNormCall(training, opt)) => Adds(EmitNode(n), K, OutNames(n))
         /\ \A opt \in SeqOf({<<"SCALE">>}, 1) :
              Made(n, RmsNormCall(training, opt)) /\ <<"INV", "RMS">> \notin DOMAIN n.out
                => Adds(EmitNode(n), K, OutNames(n))
<1> DEFINE x    == <<"X">>
           y    == <<"Y">>
           eps  == <<"EPSILON">>
           mom  == <<"MOMENTUM">>
           mean == <<"MEAN">>
           inv  == <<"INV", "VARIANCE">>
           savedMean == <<"SAVED", "MEAN">>
           savedInv  == <<"SAVED", "INV", "VARIANCE">>
           rms  == <<"INV", "RMS">>
<1>1. ASSUME NEW opt \in SeqOf({<<"SCALE">>, <<"BIAS">>, <<"MEAN">>, <<"VAR">>}, 4),
             Made(n, BatchNormCall(training, opt))
      PROVE  Adds(EmitNode(n), K, OutNames(n))
  <2> DEFINE S == {<<"SCALE">>, <<"BIAS">>, <<"MEAN">>, <<"VAR">>}
             T == {eps, mom}
             last == <<eps, mom>>
             outs == <<y>> \o IF training THEN <<savedMean, savedInv>> ELSE <<>>
  <2>1. n.kind = <<"batchnorm">> /\ DOMAIN n.in = Range(<<x>> \o opt \o last)
          /\ DOMAIN n.out = Range(outs)
    BY <1>1 DEF Made, BatchNormCall, Call
  <2>2. {x, eps, mom} \subseteq DOMAIN n.in
    <3>1. opt \in Seq(S) /\ last \in Seq(T)
      BY SeqOfTyped
    <3>2. Range(last) = T
      BY RangeListed
    <3> HIDE DEF S, T, last
    <3>3. {x} \cup Range(last) \subseteq Range(<<x>> \o opt \o last)
      BY <3>1, RangeAround
    <3> QED BY <2>1, <3>2, <3>3 DEF T
  <2>3. savedMean # y
    OBVIOUS
  <2>4. CASE training
    <3>1. outs = <<y>> \o <<savedMean, savedInv>>
      BY <2>4
    <3> HIDE DEF y, savedMean, savedInv, outs
    <3>2. Range(<<y>> \o <<savedMean, savedInv>>) = {y, savedMean, savedInv}
      BY RangeAfter
    <3>3. Range(outs) = {y, savedMean, savedInv}
      BY <3>1, <3>2
    <3>4. DOMAIN n.out = {y, savedMean, savedInv}
      BY <2>1, <3>3
    <3>5. OutNames(n) = {n.out[y].name, n.out[savedMean].name, n.out[savedInv].name}
      BY <3>4 DEF OutNames
    <3>6. Adds(BatchNorm(n), K, {n.out[y].name, n.out[savedMean].name, n.out[savedInv].name})
      BY <2>2, <3>4, BatchNormAdds DEF x, y, eps, mom, savedMean, savedInv
    <3> QED BY <2>1, <3>5, <3>6, Templates
  <2>5. CASE ~training
    <3>1. outs = <<y>>
      BY <2>5
    <3> HIDE DEF y, savedMean, savedInv, outs
    <3>2. DOMAIN n.out = {y}
      BY <2>1, <3>1, RangeListed
    <3>3. OutNames(n) = {n.out[y].name}
      BY <3>2 DEF OutNames
    <3>4. Adds(BatchNorm(n), K, {n.out[y].name})
      BY <2>2, <2>3, <3>2, BatchNormAdds DEF x, y, eps, mom, savedMean, savedInv
    <3> QED BY <2>1, <3>3, <3>4, Templates
  <2> QED BY <2>4, <2>5
<1>2. ASSUME NEW opt \in SeqOf({<<"SCALE">>, <<"BIAS">>}, 2),
             Made(n, LayerNormCall(training, opt))
      PROVE  Adds(EmitNode(n), K, OutNames(n))
  <2> DEFINE S == {<<"SCALE">>, <<"BIAS">>}
             T == {eps}
             last == <<eps>>
             outs == <<y>> \o IF training THEN <<mean, inv>> ELSE <<>>
  <2>1. n.kind = <<"layernorm">> /\ DOMAIN n.in = Range(<<x>> \o opt \o last)
          /\ DOMAIN n.out = Range(outs)
    BY <1>2 DEF Made, LayerNormCall, Call
  <2>2. {x, eps} \subseteq DOMAIN n.in
    <3>1. opt \in Seq(S) /\ last \in Seq(T)
      BY SeqOfTyped
    <3>2. Range(last) = T
      BY RangeListed
    <3> HIDE DEF S, T, last
    <3>3. {x} \cup Range(last) \subseteq Range(<<x>> \o opt \o last)
      BY <3>1, RangeAround
    <3> QED BY <2>1, <3>2, <3>3 DEF T
  <2>3. mean # y
    OBVIOUS
  <2>4. CASE training
    <3>1. outs = <<y>> \o <<mean, inv>>
      BY <2>4
    <3> HIDE DEF y, mean, inv, outs
    <3>2. Range(<<y>> \o <<mean, inv>>) = {y, mean, inv}
      BY RangeAfter
    <3>3. Range(outs) = {y, mean, inv}
      BY <3>1, <3>2
    <3>4. DOMAIN n.out = {y, mean, inv}
      BY <2>1, <3>3
    <3>5. OutNames(n) = {n.out[y].name, n.out[mean].name, n.out[inv].name}
      BY <3>4 DEF OutNames
    <3>6. Adds(LayerNorm(n), K, {n.out[y].name, n.out[mean].name, n.out[inv].name})
      BY <2>2, <3>4, LayerNormAdds DEF x, y, eps, mean, inv
    <3> QED BY <2>1, <3>5, <3>6, Templates
  <2>5. CASE ~training
    <3>1. outs = <<y>>
      BY <2>5
    <3> HIDE DEF y, mean, inv, outs
    <3>2. DOMAIN n.out = {y}
      BY <2>1, <3>1, RangeListed
    <3>3. OutNames(n) = {n.out[y].name}
      BY <3>2 DEF OutNames
    <3>4. Adds(LayerNorm(n), K, {n.out[y].name})
      BY <2>2, <2>3, <3>2, LayerNormAdds DEF x, y, eps, mean, inv
    <3> QED BY <2>1, <3>3, <3>4, Templates
  <2> QED BY <2>4, <2>5
<1>3. ASSUME NEW opt \in SeqOf({<<"SCALE">>}, 1),
             Made(n, RmsNormCall(training, opt)), rms \notin DOMAIN n.out
      PROVE  Adds(EmitNode(n), K, OutNames(n))
  <2> DEFINE S == {<<"SCALE">>}
             T == {eps}
             last == <<eps>>
             outs == <<y>> \o IF training THEN <<rms>> ELSE <<>>
  <2>1. n.kind = <<"rmsnorm">> /\ DOMAIN n.in = Range(<<x>> \o opt \o last)
          /\ DOMAIN n.out = Range(outs)
    BY <1>3 DEF Made, RmsNormCall, Call
  <2>2. {x, eps} \subseteq DOMAIN n.in
    <3>1. opt \in Seq(S) /\ last \in Seq(T)
      BY SeqOfTyped
    <3>2. Range(last) = T
      BY RangeListed
    <3> HIDE DEF S, T, last
    <3>3. {x} \cup Range(last) \subseteq Range(<<x>> \o opt \o last)
      BY <3>1, RangeAround
    <3> QED BY <2>1, <3>2, <3>3 DEF T
  <2>3. ~training
    <3> SUFFICES ASSUME training PROVE rms \in DOMAIN n.out
      BY <1>3
    <3>1. outs = <<y>> \o <<rms>>
      OBVIOUS
    <3> HIDE DEF y, rms, outs
    <3>3. Range(outs) = {y, rms}
      BY <3>1, RangeAfter
    <3> QED BY <2>1, <3>3
  <2>4. outs = <<y>>
    BY <2>3
  <2> HIDE DEF y, outs
  <2>5. DOMAIN n.out = {y}
    BY <2>1, <2>4, RangeListed
  <2>6. OutNames(n) = {n.out[y].name}
    BY <2>5 DEF OutNames
  <2>7. Adds(RmsNorm(n), K, {n.out[y].name})
    BY <2>2, RmsNormAdds DEF y
  <2> QED BY <2>1, <2>6, <2>7, Templates
<1> QED BY <1>1, <1>2, <1>3

LEMMA PortsNumbered ==
  ASSUME NEW p, NEW k \in 1..3
  PROVE  LET ports == Range(SubSeq(<<<<p, "0">>, <<p, "1">>, <<p, "2">>>>, 1, k))
         IN  /\ Numbered(ports, p, k)
             /\ ports \subseteq {<<p, "0">>, <<p, "1">>, <<p, "2">>}
<1> DEFINE a == <<p, "0">>
           b == <<p, "1">>
           c == <<p, "2">>
           d == <<p, "3">>
           t == <<a, b, c>>
           s == SubSeq(t, 1, k)
<1>1. a # b /\ a # c /\ a # d /\ b # c /\ b # d /\ c # d
  OBVIOUS
<1> HIDE DEF a, b, c, d
<1>2. t \in Seq({a, b, c}) /\ Len(t) = 3 /\ t[1] = a /\ t[2] = b /\ t[3] = c
  OBVIOUS
<1> HIDE DEF t
<1>3. DOMAIN s = 1..k /\ \A i \in 1..k : s[i] = t[i]
  <2>1. 1 \in 1..Len(t) + 1 /\ k \in 1 - 1..Len(t)
    BY <1>2
  <2>2. DOMAIN s = 1..(k - 1) + 1 /\ \A i \in 1..(k - 1) + 1 : s[i] = t[1 + i - 1]
    BY <1>2
  <2>3. (k - 1) + 1 = k /\ \A i \in 1..k : 1 + i - 1 = i
    OBVIOUS
  <2> QED BY <2>2, <2>3
<1> HIDE DEF s
<1>4. \A x : x \in Range(s) <=> \E i \in 1..k : x = t[i]
  BY <1>3 DEF Range
<1>5. \A i \in 1..k : i = 1 \/ (i = 2 /\ 2 <= k) \/ (i = 3 /\ 3 <= k)
  OBVIOUS
<1>6. 1 \in 1..k /\ (2 <= k => 2 \in 1..k) /\ (3 <= k => 3 \in 1..k) /\ 1 <= k
  OBVIOUS
<1>7. /\ a \in Range(s)
      /\ b \in Range(s) <=> 2 <= k
      /\ c \in Range(s) <=> 3 <= k
      /\ d \notin Range(s)
  BY <1>1, <1>2, <1>4, <1>5, <1>6
<1>8. Range(s) \subseteq {a, b, c}
  BY <1>2, <1>4, <1>5
<1>9. Numbered(Range(s), p, k)
  BY <1>6, <1>7 DEF Numbered, a, b, c, d
<1> QED BY <1>8, <1>9 DEF a, b, c, s, t

LEMMA OthersAdd ==
  ASSUME NEW n, NEW K, Given(n, K)
  PROVE  /\ \A opt \in SeqOf({<<"MASK">>}, 1) :
              Made(n, SdpaCall(opt)) => Adds(EmitNode(n), K, OutNames(n))
         /\ \A mode \in Reduced :
              Made(n, ReductionCall(mode)) => Adds(EmitNode(n), K, OutNames(n))
         /\ \A m \in 1..3 : \A mode :
              Made(n, PointwiseCall(mode, m)) /\ WellFormed(PointwiseTemplate(mode), m, {})
                => Adds(EmitNode(n), K, OutNames(n))
         /\ \A ins \in 1..3, outs \in 1..3 :
              Made(n, CustomOpCall(ins, outs)) => Adds(EmitNode(n), K, OutNames(n))
<1>1. ASSUME NEW opt \in SeqOf({<<"MASK">>}, 1), Made(n, SdpaCall(opt))
      PROVE  Adds(EmitNode(n), K, OutNames(n))
  <2> DEFINE q == <<"Q">>
             k == <<"K">>
             v == <<"V">>
             o == <<"O">>
             s == <<q, k, v>>
             U == {q, k, v, <<"MASK">>}
  <2>1. n.kind = <<"sdpa">> /\ DOMAIN n.in = Range(s \o opt) /\ DOMAIN n.out = Range(<<o>>)
    BY <1>1 DEF Made, SdpaCall, Call
  <2>2. s \in Seq(U) /\ opt \in Seq(U)
    <3>1. opt \in Seq({<<"MASK">>})
      BY SeqOfTyped
    <3> QED BY <3>1
  <2>3. {q, k, v} \subseteq Range(s)
    <3> HIDE DEF q, k, v
    <3> QED BY ThreeInRange
  <2> HIDE DEF q, k, v, o, s, U
  <2>4. {q, k, v} \subseteq DOMAIN n.in
    BY <2>1, <2>2, <2>3, RangeJoined
  <2>5. DOMAIN n.out = {o}
    BY <2>1, RangeListed
  <2>6. OutNames(n) = {n.out[o].name}
    BY <2>5 DEF OutNames
  <2>7. Adds(Sdpa(n), K, {n.out[o].name})
    BY <2>4, SdpaAdds DEF q, k, v, o
  <2> QED BY <2>1, <2>6, <2>7, Templates
<1>2. ASSUME NEW mode \in Reduced, Made(n, ReductionCall(mode))
      PROVE  Adds(EmitNode(n), K, OutNames(n))
  <2> DEFINE x == <<"X">>
             y == <<"Y">>
  <2>1. n.kind = <<"reduction">> /\ n.mode = mode
          /\ DOMAIN n.in = Range(<<x>>) /\ DOMAIN n.out = Range(<<y>>)
    BY <1>2 DEF Made, ReductionCall, Call
  <2> HIDE DEF x, y
  <2>2. DOMAIN n.in = {x} /\ DOMAIN n.out = {y}
    BY <2>1, RangeListed
  <2>3. OutNames(n) = {n.out[y].name}
    BY <2>2 DEF OutNames
  <2>4. Adds(ReductionOp(n), K, {n.out[y].name})
    BY <2>1, <2>2, ReductionAdds DEF x, y
  <2> QED BY <2>1, <2>3, <2>4, Templates
<1>3. ASSUME NEW m \in 1..3, NEW mode, Made(n, PointwiseCall(mode, m)),
             WellFormed(PointwiseTemplate(mode), m, {})
      PROVE  Adds(EmitNode(n), K, OutNames(n))
  <2> DEFINE y == <<"OUT", "0">>
  <2>1. n.kind = <<"pointwise">> /\ n.mode = mode /\ DOMAIN n.out = Range(<<y>>)
          /\ DOMAIN n.in = Range(SubSeq(<<<<"IN", "0">>, <<"IN", "1">>, <<"IN", "2">>>>, 1, m))
    BY <1>3 DEF Made, PointwiseCall, Call
  <2>2. Numbered(DOMAIN n.in, "IN", m)
    BY <2>1, PortsNumbered
  <2> HIDE DEF y
  <2>3. DOMAIN n.out = {y}
    BY <2>1, RangeListed
  <2>4. OutNames(n) = {n.out[y].name}
    BY <2>3 DEF OutNames
  <2>5. Adds(PointwiseOp(n), K, {n.out[y].name})
    BY <1>3, <2>1, <2>2, PointwiseAdds DEF y
  <2> QED BY <2>1, <2>4, <2>5, Templates
<1>4. ASSUME NEW ins \in 1..3, NEW outs \in 1..3, Made(n, CustomOpCall(ins, outs))
      PROVE  Adds(EmitNode(n), K, OutNames(n))
  <2> DEFINE at == Positions(DOMAIN n.out, "OUT")
  <2>1. n.kind = <<"custom", "op">>
          /\ DOMAIN n.in = Range(SubSeq(<<<<"IN", "0">>, <<"IN", "1">>, <<"IN", "2">>>>, 1, ins))
          /\ DOMAIN n.out
               = Range(SubSeq(<<<<"OUT", "0">>, <<"OUT", "1">>, <<"OUT", "2">>>>, 1, outs))
    BY <1>4 DEF Made, CustomOpCall, Call
  <2>2. Numbered(DOMAIN n.in, "IN", ins)
    BY <2>1, PortsNumbered
  <2>3. Numbered(DOMAIN n.out, "OUT", outs)
          /\ DOMAIN n.out \subseteq {<<"OUT", "0">>, <<"OUT", "1">>, <<"OUT", "2">>}
    BY <2>1, PortsNumbered
  <2>4. Adds(CustomOp(n), K, {n.out[<<"OUT", at[i]>>].name : i \in 1..outs})
    BY <2>2, <2>3, CustomOpAdds
  <2>5. /\ at[1] = "0" /\ 1 \in 1..outs
        /\ outs >= 2 => at[2] = "1" /\ 2 \in 1..outs
        /\ outs >= 3 => at[3] = "2" /\ 3 \in 1..outs
    <3>1. at[1] = "0" /\ (outs >= 2 => at[2] = "1") /\ (outs >= 3 => at[3] = "2")
      BY <2>3, PositionsNumbered
    <3>2. 1 \in 1..outs /\ (outs >= 2 => 2 \in 1..outs) /\ (outs >= 3 => 3 \in 1..outs)
      OBVIOUS
    <3> HIDE DEF at
    <3> QED BY <3>1, <3>2
  <2> HIDE DEF at
  <2>6. \A p \in DOMAIN n.out : \E i \in 1..outs : p = <<"OUT", at[i]>>
    <3>1. <<"OUT", "1">> \in DOMAIN n.out => 2 <= outs
      BY <2>3 DEF Numbered
    <3>2. <<"OUT", "2">> \in DOMAIN n.out => 3 <= outs
      BY <2>3 DEF Numbered
    <3>3. outs \in Nat
      OBVIOUS
    <3>4. \A p \in DOMAIN n.out :
            \/ p = <<"OUT", "0">>
            \/ p = <<"OUT", "1">> /\ outs >= 2
            \/ p = <<"OUT", "2">> /\ outs >= 3
      BY <2>3, <3>1, <3>2, <3>3
    <3> QED BY <2>5, <3>4
  <2>7. OutNames(n) \subseteq {n.out[<<"OUT", at[i]>>].name : i \in 1..outs}
    BY <2>6 DEF OutNames
  <2> DEFINE A == {n.out[<<"OUT", at[i]>>].name : i \in 1..outs}
  <2> HIDE DEF A
  <2>8. Adds(CustomOp(n), K, OutNames(n))
    BY <2>4, <2>7, AddsMore DEF A
  <2> QED BY <2>1, <2>8, Templates
<1> QED BY <1>1, <1>2, <1>3, <1>4

\* A node that is accepted defines its outputs, and uses its inputs.
LEMMA EmitNodeAdds ==
  ASSUME NEW n, NEW K, Given(n, K), NEW call \in BuilderCalls, Made(n, call),
         ~(n.kind = <<"rmsnorm">> /\ <<"INV", "RMS">> \in DOMAIN n.out)
  PROVE  Adds(EmitNode(n), K, OutNames(n))
<1>1. ASSUME NEW training \in BOOLEAN, NEW opt, call = RmsNormCall(training, opt)
      PROVE  <<"INV", "RMS">> \notin DOMAIN n.out
  BY <1>1 DEF Made, RmsNormCall, Call
<1>2. ASSUME call \in {ConvFPropCall, ConvWGradCall, ConvDGradCall, MatmulCall}
      PROVE  Adds(EmitNode(n), K, OutNames(n))
  BY <1>2, ConvolutionsAdd
<1>3. ASSUME NEW training \in BOOLEAN, NEW opt,
             \/ /\ opt \in SeqOf({<<"SCALE">>, <<"BIAS">>, <<"MEAN">>, <<"VAR">>}, 4)
                /\ call = BatchNormCall(training, opt)
             \/ opt \in SeqOf({<<"SCALE">>, <<"BIAS">>}, 2) /\ call = LayerNormCall(training, opt)
             \/ opt \in SeqOf({<<"SCALE">>}, 1) /\ call = RmsNormCall(training, opt)
      PROVE  Adds(EmitNode(n), K, OutNames(n))
  BY <1>1, <1>3, NormsAdd
<1>4. ASSUME NEW m \in 1..3, NEW mode, call = PointwiseCall(mode, m),
             \/ m = 1 /\ mode \in Unary
             \/ m = 2 /\ mode \in Binary
             \/ m = 3 /\ mode = "Ternary"
      PROVE  Adds(EmitNode(n), K, OutNames(n))
  BY <1>4, OthersAdd, PointwiseFormed
<1>5. ASSUME NEW mode \in Reduced, call = ReductionCall(mode)
      PROVE  Adds(EmitNode(n), K, OutNames(n))
  BY <1>5, OthersAdd
<1>6. ASSUME NEW opt \in SeqOf({<<"MASK">>}, 1), call = SdpaCall(opt)
      PROVE  Adds(EmitNode(n), K, OutNames(n))
  BY <1>6, OthersAdd
<1>7. ASSUME NEW ins \in 1..3, NEW outs \in 1..3, call = CustomOpCall(ins, outs)
      PROVE  Adds(EmitNode(n), K, OutNames(n))
  BY <1>7, OthersAdd
<1>8. \/ call \in {ConvFPropCall, ConvWGradCall, ConvDGradCall, MatmulCall}
      \/ \E training \in BOOLEAN : \E opt \in SeqOf({<<"SCALE">>, <<"BIAS">>, <<"MEAN">>, <<"VAR">>}, 4) :
           call = BatchNormCall(training, opt)
      \/ \E training \in BOOLEAN : \E opt \in SeqOf({<<"SCALE">>, <<"BIAS">>}, 2) :
           call = LayerNormCall(training, opt)
      \/ \E training \in BOOLEAN : \E opt \in SeqOf({<<"SCALE">>}, 1) :
           call = RmsNormCall(training, opt)
      \/ \E mode \in Unary : call = PointwiseCall(mode, 1)
      \/ \E mode \in Binary : call = PointwiseCall(mode, 2)
      \/ call = PointwiseCall("Ternary", 3)
      \/ \E mode \in Reduced : call = ReductionCall(mode)
      \/ \E opt \in SeqOf({<<"MASK">>}, 1) : call = SdpaCall(opt)
      \/ \E ins \in 1..3, outs \in 1..3 : call = CustomOpCall(ins, outs)
  BY DEF BuilderCalls
<1>9. 1 \in 1..3 /\ 2 \in 1..3 /\ 3 \in 1..3
  OBVIOUS
<1> QED BY <1>2, <1>3, <1>4, <1>5, <1>6, <1>7, <1>8, <1>9

-----------------------------------------------------------------------------
(* What an accepted graph is                                               *)

\* Each tensor that is no input is an output of a node.
EachMade ==
  \A t \in DOMAIN tensors : ~tensors[t].input =>
    \E k \in DOMAIN nodes : \E p \in DOMAIN nodes[k].out : nodes[k].out[p] = t

\* Each node is given inputs of the graph and outputs of nodes before it.
GivenBy(k, t) ==
  tensors[t].input \/ \E l \in 1..k - 1 : \E q \in DOMAIN nodes[l].out : nodes[l].out[q] = t

EachGiven ==
  \A k \in DOMAIN nodes : \A p \in DOMAIN nodes[k].in : GivenBy(k, nodes[k].in[p])

\* What validate established holds until the caller edits the graph.
AsValidated ==
  Accepted => /\ sorted = DOMAIN tensors
              /\ UniqueNames
              /\ \A k \in DOMAIN nodes : NodeAccepted(nodes[k])

BuildInv == TypeOK /\ EachMade /\ EachGiven /\ AsValidated

LEMMA FlowKept ==
  ASSUME TypeOK, EachMade, EachGiven, nodes' = nodes,
         \A t \in DOMAIN tensors : tensors'[t].input = tensors[t].input,
         \A t \in DOMAIN tensors' : t \in DOMAIN tensors \/ tensors'[t].input
  PROVE  EachMade' /\ EachGiven'
<1>1. EachMade'
  BY DEF EachMade
<1>2. EachGiven'
  <2> SUFFICES ASSUME NEW k \in DOMAIN nodes, NEW p \in DOMAIN nodes[k].in
               PROVE  GivenBy(k, nodes[k].in[p])'
    BY DEF EachGiven
  <2>1. nodes[k].in[p] \in DOMAIN tensors
    BY DEF TypeOK
  <2>2. GivenBy(k, nodes[k].in[p])
    BY DEF EachGiven
  <2> QED BY <2>1, <2>2 DEF GivenBy
<1> QED BY <1>1, <1>2

LEMMA AddNodeFlow ==
  ASSUME TypeOK, EachMade, EachGiven, Len(nodes) < MaxNodes, NEW call \in NextCalls,
         NEW name \in Names \cup {<<>>}, NEW args \in [DOMAIN call.ins -> DOMAIN tensors],
         AddNode(call, name, args)
  PROVE  EachMade' /\ EachGiven'
<1>0. PICK node : node = NewNode(call, name, args)
  OBVIOUS
<1> DEFINE n == Len(nodes)
           m == Len(tensors)
           c == Len(call.outs)
<1>1. call \in AllCalls /\ call.outs \in Seq(Name)
  BY NextCallTyped, CallsTyped DEF CallType
<1>2. /\ node.in \in [Range(call.ins) -> DOMAIN tensors]
      /\ node.out \in [Range(call.outs) -> m + 1 .. m + c]
  BY <1>0, <1>1, NewNodeTyped
<1>3. /\ nodes' = Append(nodes, node)
      /\ tensors' \in Seq(Tensor)
      /\ Len(tensors') = m + c
      /\ \A t \in m + 1 .. m + c :
           \E p \in Range(call.outs) : NamedBy(tensors'[t], t, node, p)
  BY <1>0, <1>1, AddNodeEffect
<1>4. /\ DOMAIN nodes = 1..n /\ n \in Nat
      /\ DOMAIN nodes' = 1..n + 1
      /\ \A k \in DOMAIN nodes : nodes'[k] = nodes[k]
      /\ nodes'[n + 1] = node
  <2>1. nodes \in Seq(Range(nodes) \cup {node}) /\ node \in Range(nodes) \cup {node}
    BY DEF TypeOK
  <2> QED BY <1>3, <2>1
<1>5. /\ m \in Nat /\ c \in Nat /\ DOMAIN tensors = 1..m
      /\ DOMAIN tensors' = 1..m + c
      /\ \A t \in DOMAIN tensors : tensors[t] \in Tensor
  BY <1>1, <1>3 DEF TypeOK
<1>6. ASSUME NEW t \in DOMAIN tensors PROVE tensors'[t].input = tensors[t].input
  <2> DEFINE named == NameInputs(node, call, args)
             made  == OutputTensors(node, call)
             first == CHOOSE i \in DOMAIN args :
                        args[i] = t /\ \A j \in DOMAIN args : args[j] = t => i <= j
             port  == node.name \o call.ins[first]
  <2>1. tensors' = named \o made
    BY <1>0 DEF AddNode
  <2>2. named[t] = IF tensors[t].name = <<>> /\ \E i \in DOMAIN args : args[i] = t
                     THEN [tensors[t] EXCEPT !.name = port, !.own = node.own]
                     ELSE tensors[t]
    BY DEF NameInputs
  <2> HIDE DEF port
  <2>3. named[t].input = tensors[t].input
    BY <1>5, <2>2 DEF Tensor
  <2>4. named \in Seq(Tensor) /\ Len(named) = m
    <3>1. \A s \in DOMAIN tensors : named[s] \in Tensor
      BY <1>0, <1>1, NameInputsNames
    <3>2. named = [s \in DOMAIN tensors |-> named[s]]
      BY DEF NameInputs
    <3> HIDE DEF named
    <3>3. named \in [1..m -> Tensor]
      BY <1>5, <3>1, <3>2
    <3> QED BY <1>5, <3>3
  <2>5. made \in Seq(Tensor)
    BY <1>0, <1>1, OutputTensorsNames
  <2> HIDE DEF named, made
  <2>6. tensors'[t] = named[t]
    BY <1>5, <2>1, <2>4, <2>5
  <2> QED BY <2>3, <2>6
<1>7. \A t \in m + 1 .. m + c : \E p \in DOMAIN node.out : node.out[p] = t
  <2> TAKE t \in m + 1 .. m + c
  <2>1. PICK p \in Range(call.outs) : NamedBy(tensors'[t], t, node, p)
    BY <1>3
  <2>2. t \notin DOMAIN tensors
    BY <1>5
  <2> QED BY <1>2, <2>1, <2>2 DEF NamedBy
<1> HIDE DEF n, m, c
<1>8. EachMade'
  <2> SUFFICES ASSUME NEW t \in DOMAIN tensors', ~tensors'[t].input
               PROVE  \E k \in DOMAIN nodes' : \E p \in DOMAIN nodes'[k].out : nodes'[k].out[p] = t
    BY DEF EachMade
  <2>1. CASE t \in DOMAIN tensors
    <3>1. PICK k \in DOMAIN nodes : \E p \in DOMAIN nodes[k].out : nodes[k].out[p] = t
      BY <1>6, <2>1 DEF EachMade
    <3>2. k \in DOMAIN nodes' /\ nodes'[k] = nodes[k]
      BY <1>4
    <3> QED BY <3>1, <3>2
  <2>2. CASE t \notin DOMAIN tensors
    <3>1. t \in m + 1 .. m + c
      BY <1>5, <2>2
    <3>2. n + 1 \in DOMAIN nodes'
      BY <1>4
    <3> QED BY <1>4, <1>7, <3>1, <3>2
  <2> QED BY <2>1, <2>2
<1>9. EachGiven'
  <2> SUFFICES ASSUME NEW k \in DOMAIN nodes', NEW p \in DOMAIN nodes'[k].in
               PROVE  \/ tensors'[nodes'[k].in[p]].input
                      \/ \E l \in 1..k - 1 : \E q \in DOMAIN nodes'[l].out :
                           nodes'[l].out[q] = nodes'[k].in[p]
    BY DEF EachGiven, GivenBy
  <2>1. CASE k \in DOMAIN nodes
    <3> DEFINE t == nodes[k].in[p]
    <3>1. nodes'[k] = nodes[k] /\ p \in DOMAIN nodes[k].in
      BY <1>4, <2>1
    <3>2. t \in DOMAIN tensors /\ GivenBy(k, t)
      BY <2>1, <3>1 DEF TypeOK, EachGiven
    <3>3. nodes'[k].in[p] = t
      BY <3>1
    <3> HIDE DEF t
    <3>4. CASE tensors[t].input
      BY <1>6, <3>2, <3>3, <3>4
    <3>5. CASE \E l \in 1..k - 1 : \E q \in DOMAIN nodes[l].out : nodes[l].out[q] = t
      <4>1. PICK l \in 1..k - 1 : \E q \in DOMAIN nodes[l].out : nodes[l].out[q] = t
        BY <3>5
      <4>2. nodes'[l] = nodes[l]
        BY <1>4, <2>1
      <4> QED BY <3>3, <4>1, <4>2
    <3> QED BY <3>2, <3>4, <3>5 DEF GivenBy
  <2>2. CASE k \notin DOMAIN nodes
    <3> DEFINE t == node.in[p]
    <3>1. k = n + 1 /\ nodes'[k] = node /\ p \in DOMAIN node.in
      BY <1>4, <2>2
    <3>2. t \in DOMAIN tensors
      BY <1>2, <3>1
    <3>3. nodes'[k].in[p] = t
      BY <3>1
    <3> HIDE DEF t
    <3>4. CASE tensors[t].input
      BY <1>6, <3>2, <3>3, <3>4
    <3>5. CASE ~tensors[t].input
      <4>1. PICK l \in DOMAIN nodes : \E q \in DOMAIN nodes[l].out : nodes[l].out[q] = t
        BY <3>2, <3>5 DEF EachMade
      <4>2. l \in 1..k - 1 /\ nodes'[l] = nodes[l]
        BY <1>4, <3>1
      <4> QED BY <3>3, <4>1, <4>2
    <3> QED BY <3>4, <3>5
  <2> QED BY <2>1, <2>2
<1> QED BY <1>8, <1>9

\* The flow of every step.
LEMMA FlowStep ==
  ASSUME TypeOK, EachMade, EachGiven, [Next]_vars
  PROVE  EachMade' /\ EachGiven'
<1>0. /\ tensors \in Seq(Tensor) /\ Len(tensors) \in Nat
      /\ DOMAIN tensors = 1..Len(tensors)
  BY DEF TypeOK
<1>1. CASE UNCHANGED vars
  BY <1>1, FlowKept DEF vars
<1>2. CASE InputCount < Len(Inputs) /\ \E attr \in Inputs[InputCount + 1] : NewTensor(attr)
  <2>1. PICK attr \in Inputs[InputCount + 1] : NewTensor(attr)
    BY <1>2
  <2>2. PICK r : tensors' = Append(tensors, r) /\ r.input
    <3> DEFINE r == [name |-> attr.name, own |-> TRUE, input |-> TRUE, virtual |-> FALSE,
                     scalar |-> attr.scalar, broadcast |-> attr.broadcast]
    <3>1. r.input
      OBVIOUS
    <3>2. tensors' = Append(tensors, r)
      BY <2>1 DEF NewTensor
    <3> QED BY <3>1, <3>2
  <2>3. nodes' = nodes
    BY <2>1 DEF NewTensor
  <2>4. /\ \A t \in DOMAIN tensors : tensors'[t] = tensors[t]
        /\ \A t \in DOMAIN tensors' : t \in DOMAIN tensors \/ tensors'[t] = r
    <3>1. tensors \in Seq(Tensor \cup {r}) /\ r \in Tensor \cup {r}
      BY <1>0
    <3>2. /\ DOMAIN tensors' = 1..Len(tensors) + 1
          /\ \A t \in 1..Len(tensors) : tensors'[t] = tensors[t]
          /\ tensors'[Len(tensors) + 1] = r
      BY <2>2, <3>1
    <3>3. \A t \in 1..Len(tensors) + 1 : t \in 1..Len(tensors) \/ t = Len(tensors) + 1
      BY <1>0
    <3> QED BY <1>0, <3>2, <3>3
  <2> QED BY <2>2, <2>3, <2>4, FlowKept
<1>3. CASE \E t \in DOMAIN tensors, name \in Names : ~tensors[t].own /\ SetName(t, name)
  <2>1. PICK t \in DOMAIN tensors, name \in Names : SetName(t, name)
    BY <1>3
  <2>2. tensors' = [tensors EXCEPT ![t] = [tensors[t] EXCEPT !.name = name, !.own = TRUE]]
          /\ nodes' = nodes
    BY <2>1 DEF SetName
  <2>3. [tensors[t] EXCEPT !.name = name, !.own = TRUE].input = tensors[t].input
    BY <1>0 DEF Tensor
  <2>4. DOMAIN tensors' = DOMAIN tensors
          /\ \A s \in DOMAIN tensors : tensors'[s].input = tensors[s].input
    BY <2>2, <2>3
  <2> QED BY <2>2, <2>4, FlowKept
<1>4. CASE \E t \in DOMAIN tensors : SetOutput(t)
  <2>1. PICK t \in DOMAIN tensors : SetOutput(t)
    BY <1>4
  <2>2. tensors' = [tensors EXCEPT ![t] = [tensors[t] EXCEPT !.virtual = FALSE]]
          /\ nodes' = nodes
    BY <2>1 DEF SetOutput
  <2>3. [tensors[t] EXCEPT !.virtual = FALSE].input = tensors[t].input
    BY <1>0 DEF Tensor
  <2>4. DOMAIN tensors' = DOMAIN tensors
          /\ \A s \in DOMAIN tensors : tensors'[s].input = tensors[s].input
    BY <2>2, <2>3
  <2> QED BY <2>2, <2>4, FlowKept
<1>5. CASE Len(nodes) < MaxNodes /\ \E call \in NextCalls, name \in Names \cup {<<>>} :
             \E args \in [DOMAIN call.ins -> DOMAIN tensors] : AddNode(call, name, args)
  BY <1>5, AddNodeFlow
<1>6. CASE Validate
  BY <1>6, FlowKept DEF Validate
<1> QED BY <1>1, <1>2, <1>3, <1>4, <1>5, <1>6 DEF Next

\* Only setOutput leaves an accepted graph accepted, and it changes no name.
LEMMA AcceptedStep ==
  ASSUME TypeOK, AsValidated, [Next]_vars
  PROVE  AsValidated'
<1> SUFFICES ASSUME Accepted'
             PROVE  /\ sorted' = DOMAIN tensors'
                    /\ UniqueNames'
                    /\ \A k \in DOMAIN nodes' : NodeAccepted(nodes[k])'
  BY DEF AsValidated
<1>1. CASE UNCHANGED vars
  <2>1. Accepted
    BY <1>1 DEF vars, Accepted
  <2> QED BY <1>1, <2>1 DEF vars, AsValidated, UniqueNames, NodeAccepted, Fits
<1>2. CASE InputCount < Len(Inputs) /\ \E attr \in Inputs[InputCount + 1] : NewTensor(attr)
  BY <1>2 DEF NewTensor, Accepted
<1>3. CASE \E t \in DOMAIN tensors, name \in Names : ~tensors[t].own /\ SetName(t, name)
  BY <1>3 DEF SetName, Accepted
<1>4. CASE \E t \in DOMAIN tensors : SetOutput(t)
  <2>1. PICK t \in DOMAIN tensors : SetOutput(t)
    BY <1>4
  <2>2. /\ tensors' = [tensors EXCEPT ![t] = [tensors[t] EXCEPT !.virtual = FALSE]]
        /\ nodes' = nodes /\ sorted' = sorted /\ Accepted
    BY <2>1 DEF SetOutput, Accepted
  <2> DEFINE r == [tensors[t] EXCEPT !.virtual = FALSE]
  <2>3. r.name = tensors[t].name /\ r.scalar = tensors[t].scalar /\ r.broadcast = tensors[t].broadcast
    BY DEF TypeOK, Tensor
  <2> HIDE DEF r
  <2>4. DOMAIN tensors' = DOMAIN tensors
          /\ \A s \in DOMAIN tensors : /\ tensors'[s].name = tensors[s].name
                                       /\ tensors'[s].scalar = tensors[s].scalar
                                       /\ tensors'[s].broadcast = tensors[s].broadcast
    BY <2>2, <2>3 DEF r
  <2>5. sorted = DOMAIN tensors /\ UniqueNames /\ \A k \in DOMAIN nodes : NodeAccepted(nodes[k])
    BY <2>2 DEF AsValidated
  <2>6. UniqueNames'
    BY <2>2, <2>4, <2>5 DEF UniqueNames
  <2>7. ASSUME NEW k \in DOMAIN nodes PROVE NodeAccepted(nodes[k])'
    <3>1. nodes[k].in \in [Range(nodes[k].call.ins) -> DOMAIN tensors]
      BY DEF TypeOK
    <3>2. \A p \in DOMAIN nodes[k].in : Fits(nodes[k], p) => Fits(nodes[k], p)'
      BY <2>2, <2>4, <3>1 DEF Fits
    <3> QED BY <2>2, <2>5, <3>2 DEF NodeAccepted
  <2> QED BY <2>2, <2>4, <2>5, <2>6, <2>7
<1>5. CASE Len(nodes) < MaxNodes /\ \E call \in NextCalls, name \in Names \cup {<<>>} :
             \E args \in [DOMAIN call.ins -> DOMAIN tensors] : AddNode(call, name, args)
  <2>1. PICK call \in NextCalls, name \in Names \cup {<<>>} :
          \E args \in [DOMAIN call.ins -> DOMAIN tensors] : AddNode(call, name, args)
    BY <1>5
  <2>2. PICK args \in [DOMAIN call.ins -> DOMAIN tensors] : AddNode(call, name, args)
    BY <2>1
  <2>3. edited' = valid /\ valid' = valid
    BY <2>2 DEF AddNode
  <2> QED BY <2>3 DEF Accepted
<1>6. CASE Validate
  <2>1. /\ UniqueNames /\ sorted' = sorted \cup DOMAIN tensors
        /\ tensors' = tensors /\ nodes' = nodes
        /\ \/ \A k \in DOMAIN nodes : NodeAccepted(nodes[k])
           \/ valid' = valid /\ edited' = edited
    BY <1>6 DEF Validate, SortTensors
  <2>2. sorted' = DOMAIN tensors
    BY <2>1 DEF TypeOK
  <2>3. \A k \in DOMAIN nodes : NodeAccepted(nodes[k])
    <3>1. CASE \A k \in DOMAIN nodes : NodeAccepted(nodes[k])
      BY <3>1
    <3>2. CASE valid' = valid /\ edited' = edited
      <4>1. Accepted
        BY <3>2 DEF Accepted
      <4> QED BY <4>1 DEF AsValidated
    <3> QED BY <2>1, <3>1, <3>2
  <2>4. UniqueNames'
    BY <2>1 DEF UniqueNames
  <2>5. ASSUME NEW k \in DOMAIN nodes PROVE NodeAccepted(nodes[k])'
    <3>1. \A p \in DOMAIN nodes[k].in : Fits(nodes[k], p) => Fits(nodes[k], p)'
      BY <2>1 DEF Fits
    <3> QED BY <2>1, <2>3, <3>1 DEF NodeAccepted
  <2> QED BY <2>1, <2>2, <2>4, <2>5
<1> QED BY <1>1, <1>2, <1>3, <1>4, <1>5, <1>6 DEF Next

LEMMA BuildInvCorrect == Spec => []BuildInv
<1>1. Init => BuildInv
  <2> SUFFICES ASSUME Init PROVE BuildInv
    OBVIOUS
  <2>1. DOMAIN tensors = {} /\ DOMAIN nodes = {} /\ ~Accepted
    BY DEF Init, Accepted
  <2>2. tensors \in Seq(Tensor)
    BY DEF Init
  <2>3. nodes \in Seq(Range(nodes)) /\ Len(nodes) <= MaxNodes
    BY BoundAssumption DEF Init
  <2>4. TypeOK
    BY <2>1, <2>2, <2>3 DEF Init, TypeOK
  <2> QED BY <2>1, <2>4 DEF BuildInv, EachMade, EachGiven, AsValidated
<1>2. BuildInv /\ [Next]_vars => BuildInv'
  BY TypeStep, FlowStep, AcceptedStep DEF BuildInv
<1> QED BY <1>1, <1>2, PTL DEF Spec

-----------------------------------------------------------------------------
(* Optional members                                                        *)

\* r has the value of each of 1..n that is on, once.
Selects(r, n, on, val) ==
  \E from \in [1..Len(r) -> {i \in 1..n : on[i]}] :
    /\ \A j \in 1..Len(r) : r[j] = val[from[j]]
    /\ \A j, l \in 1..Len(r) : from[j] = from[l] => j = l
    /\ \A i \in 1..n : on[i] => \E j \in 1..Len(r) : from[j] = i

LEMMA FlattenOptional ==
  ASSUME NEW S, NEW n \in Nat, NEW ss \in Seq(Seq(S)), Len(ss) = n, NEW on, NEW val,
         \A i \in 1..n : IF on[i] THEN Len(ss[i]) = 1 /\ ss[i][1] = val[i] ELSE Len(ss[i]) = 0
  PROVE  FlattenSeq(ss) \in Seq(S) /\ Selects(FlattenSeq(ss), n, on, val)
<1> DEFINE F == FlattenSeq(ss)
<1>1. F \in Seq(S) /\ \E at : Places(ss, F, at)
  BY FlattenPlaces
<1> HIDE DEF F
<1>2. PICK at : Places(ss, F, at)
  BY <1>1
<1>3. /\ at \in [0..n -> Nat] /\ at[0] = 0 /\ at[n] = Len(F) /\ Len(F) \in Nat
      /\ \A i \in 1..n : at[i] = at[i - 1] + Len(ss[i])
      /\ \A i \in 1..n : \A b \in 1..Len(ss[i]) : F[at[i - 1] + b] = ss[i][b]
  BY <1>1, <1>2 DEF Places
<1>4. \A i \in 0..n : \A j \in i..n : at[i] <= at[j]
  BY <1>2, PlacesMonotone
<1>5. \A i \in 1..n : /\ on[i] => at[i] = at[i - 1] + 1 /\ F[at[i]] = val[i]
                      /\ ~on[i] => at[i] = at[i - 1]
  <2> TAKE i \in 1..n
  <2>1. at[i - 1] \in Nat /\ at[i] \in Nat
    BY <1>3
  <2>2. at[i] = at[i - 1] + Len(ss[i])
    BY <1>3
  <2>3. CASE on[i]
    <3>1. Len(ss[i]) = 1 /\ ss[i][1] = val[i]
      BY <2>3
    <3>2. F[at[i - 1] + 1] = ss[i][1]
      <4>1. 1 \in 1..Len(ss[i])
        BY <3>1
      <4> QED BY <1>3, <4>1
    <3> QED BY <2>2, <2>3, <3>1, <3>2
  <2>4. CASE ~on[i]
    BY <2>1, <2>2, <2>4
  <2> QED BY <2>3, <2>4
<1> DEFINE Is(i, j) == on[i] /\ at[i] = j
<1>6. ASSUME NEW j \in 1..Len(F) PROVE \E i \in 1..n : Is(i, j)
  <2> DEFINE Past == {i \in 0..n : at[i] >= j}
  <2>1. PICK i \in Past : \A k \in Past : i <= k
    <3>1. n \in Past
      BY <1>3
    <3>2. Past \in SUBSET Nat /\ Past # {}
      BY <3>1
    <3> HIDE DEF Past
    <3> QED BY <3>2, Least
  <2>2. i \in 0..n /\ at[i] >= j /\ i # 0
    BY <1>3, <2>1
  <2>3. i \in 1..n /\ i - 1 \in 0..n /\ ~(i <= i - 1)
    BY <2>2
  <2>4. ~(at[i - 1] >= j)
    BY <2>1, <2>3
  <2>5. at[i] \in Nat /\ at[i - 1] \in Nat
    BY <1>3, <2>2, <2>3
  <2>6. on[i] /\ at[i] = at[i - 1] + 1
    BY <1>5, <2>2, <2>3, <2>4, <2>5
  <2>7. Is(i, j)
    BY <2>2, <2>4, <2>5, <2>6
  <2> QED BY <2>3, <2>7
<1>7. ASSUME NEW i \in 1..n, NEW k \in 1..n, Is(i, at[k]), on[k] PROVE i = k
  <2>1. at[i] = at[k] /\ at[i] = at[i - 1] + 1 /\ at[k] = at[k - 1] + 1
    BY <1>5, <1>7
  <2>2. i - 1 \in 0..n /\ k - 1 \in 0..n /\ at[i - 1] \in Nat /\ at[k - 1] \in Nat
          /\ at[i] \in Nat /\ at[k] \in Nat
    BY <1>3
  <2>5. \A x, y \in Nat : x = y + 1 => ~(x <= y)
    OBVIOUS
  <2>3. CASE i < k
    <3>1. i \in 0..n /\ k - 1 \in i..n
      BY <2>3
    <3>2. at[i] <= at[k - 1]
      BY <1>4, <3>1
    <3> QED BY <2>1, <2>2, <2>5, <3>2
  <2>4. CASE k < i
    <3>1. k \in 0..n /\ i - 1 \in k..n
      BY <2>4
    <3>2. at[k] <= at[i - 1]
      BY <1>4, <3>1
    <3> QED BY <2>1, <2>2, <2>5, <3>2
  <2> QED BY <2>3, <2>4
<1>8. ASSUME NEW i \in 1..n, on[i] PROVE at[i] \in 1..Len(F)
  <2>1. at[i] = at[i - 1] + 1 /\ at[i - 1] \in Nat /\ at[i] \in Nat
    <3>1. at[i] = at[i - 1] + 1
      BY <1>5, <1>8
    <3>2. i \in 0..n /\ i - 1 \in 0..n
      OBVIOUS
    <3> QED BY <1>3, <3>1, <3>2
  <2>2. i \in 0..n /\ n \in i..n
    BY <1>3
  <2>3. at[i] <= Len(F)
    BY <1>3, <1>4, <2>2
  <2> QED BY <1>3, <2>1, <2>3
<1> DEFINE from == [j \in 1..Len(F) |-> CHOOSE i \in 1..n : Is(i, j)]
<1>9. \A j \in 1..Len(F) : from[j] \in 1..n /\ Is(from[j], j)
  <2> HIDE DEF Is
  <2> QED BY <1>6
<1>10. from \in [1..Len(F) -> {i \in 1..n : on[i]}]
  <2>1. from = [j \in 1..Len(F) |-> from[j]]
    OBVIOUS
  <2> HIDE DEF from
  <2> QED BY <1>9, <2>1
<1> HIDE DEF from
<1>11. \A j \in 1..Len(F) : F[j] = val[from[j]]
  BY <1>5, <1>9
<1>12. \A j, l \in 1..Len(F) : from[j] = from[l] => j = l
  BY <1>9
<1>13. ASSUME NEW i \in 1..n, on[i] PROVE \E j \in 1..Len(F) : from[j] = i
  <2>1. at[i] \in 1..Len(F)
    BY <1>8, <1>13
  <2>2. from[at[i]] \in 1..n /\ Is(from[at[i]], at[i])
    BY <1>9, <2>1
  <2>3. from[at[i]] = i
    <3> HIDE DEF Is
    <3> QED BY <1>7, <1>13, <2>2
  <2> QED BY <2>1, <2>3
<1>14. Selects(F, n, on, val)
  BY <1>10, <1>11, <1>12, <1>13 DEF Selects
<1> QED BY <1>1, <1>14 DEF F

LEMMA FlattenChosen ==
  ASSUME NEW n \in Nat, NEW ss, Row(ss, n), NEW on, NEW val,
         \A i \in 1..n : ss[i] = IF on[i] THEN <<val[i]>> ELSE <<>>
  PROVE  FlattenSeq(ss) \in Seq(Values(val, n)) /\ Selects(FlattenSeq(ss), n, on, val)
<1> DEFINE S == Values(val, n)
<1>1. \A i \in 1..n : val[i] \in S
  BY DEF Values
<1> HIDE DEF S
<1>2. \A v \in S : <<v>> \in Seq(S) /\ Len(<<v>>) = 1 /\ <<v>>[1] = v
  OBVIOUS
<1>3. <<>> \in Seq(S) /\ Len(<<>>) = 0
  OBVIOUS
<1>4. \A i \in 1..n : ss[i] \in Seq(S)
  BY <1>1, <1>2, <1>3
<1>5. \A i \in 1..n : IF on[i] THEN Len(ss[i]) = 1 /\ ss[i][1] = val[i] ELSE Len(ss[i]) = 0
  BY <1>1, <1>2, <1>3
<1>6. ss \in Seq(Seq(S)) /\ Len(ss) = n
  <2>1. ss \in [1..n -> Seq(S)]
    BY <1>4 DEF Row
  <2> HIDE DEF S
  <2> QED BY <2>1
<1>7. FlattenSeq(ss) \in Seq(S) /\ Selects(FlattenSeq(ss), n, on, val)
  BY <1>5, <1>6, FlattenOptional
<1> QED BY <1>7 DEF S

\* s has each member of set once.
Listed(s, set) ==
  /\ s \in Seq(set)
  /\ \A i, j \in DOMAIN s : s[i] = s[j] => i = j
  /\ \A t \in set : \E i \in DOMAIN s : s[i] = t

LEMMA InOrderListed ==
  ASSUME TypeOK, NEW set \in SUBSET DOMAIN tensors
  PROVE  Listed(InOrder(set), set)
<1> DEFINE n   == Len(tensors)
           ss  == [t \in 1..n |-> IF t \in set THEN <<t>> ELSE <<>>]
           on  == [t \in 1..n |-> t \in set]
           val == [t \in 1..n |-> t]
           s   == FlattenSeq(ss)
<1>1. n \in Nat /\ DOMAIN tensors = 1..n
  BY DEF TypeOK
<1>2. InOrder(set) = s
  BY <1>1 DEF InOrder
<1>3. \A t \in 1..n : (on[t] <=> t \in set) /\ val[t] = t
  OBVIOUS
<1>4. Row(ss, n) /\ \A t \in 1..n : ss[t] = IF on[t] THEN <<val[t]>> ELSE <<>>
  BY DEF Row
<1> HIDE DEF ss, on, val, n
<1>5. s \in Seq(Values(val, n)) /\ Selects(s, n, on, val)
  BY <1>1, <1>4, FlattenChosen
<1> HIDE DEF s
<1>6. PICK from \in [1..Len(s) -> {t \in 1..n : on[t]}] :
        /\ \A j \in 1..Len(s) : s[j] = val[from[j]]
        /\ \A j, l \in 1..Len(s) : from[j] = from[l] => j = l
        /\ \A t \in 1..n : on[t] => \E j \in 1..Len(s) : from[j] = t
  BY <1>5 DEF Selects
<1>7. Len(s) \in Nat /\ DOMAIN s = 1..Len(s) /\ s = [j \in 1..Len(s) |-> s[j]]
  BY <1>5
<1>8. \A j \in 1..Len(s) : s[j] = from[j] /\ s[j] \in set
  BY <1>3, <1>6
<1>9. s \in Seq(set)
  <2>1. s \in [1..Len(s) -> set]
    BY <1>7, <1>8
  <2> QED BY <1>7, <2>1
<1>10. \A i, j \in DOMAIN s : s[i] = s[j] => i = j
  BY <1>6, <1>7, <1>8
<1>11. \A t \in set : \E i \in DOMAIN s : s[i] = t
  BY <1>1, <1>3, <1>6, <1>7, <1>8
<1>12. Listed(s, set)
  BY <1>9, <1>10, <1>11 DEF Listed
<1> QED BY <1>2, <1>12

-----------------------------------------------------------------------------
(* The program of an accepted graph                                        *)

InputTensors == {t \in DOMAIN tensors : tensors[t].input}
OutTensors   == {t \in DOMAIN tensors : ~tensors[t].input}

InputRow  == [i \in DOMAIN InOrder(InputTensors) |-> tensors[InOrder(InputTensors)[i]]]
OutputRow == [i \in DOMAIN InOrder(OutTensors) |-> tensors[InOrder(OutTensors)[i]]]

\* r has the tensors of set, each once.
RowOf(r, set) ==
  \E s : /\ Listed(s, set)
         /\ Len(s) \in Nat /\ DOMAIN s = 1..Len(s)
         /\ r = [i \in 1..Len(s) |-> tensors[s[i]]]

LEMMA RowsListed ==
  ASSUME TypeOK
  PROVE  RowOf(InputRow, InputTensors) /\ RowOf(OutputRow, OutTensors)
<1>1. ASSUME NEW set \in SUBSET DOMAIN tensors
      PROVE  RowOf([i \in DOMAIN InOrder(set) |-> tensors[InOrder(set)[i]]], set)
  <2> DEFINE s == InOrder(set)
  <2>1. Listed(s, set)
    BY InOrderListed
  <2> HIDE DEF s
  <2>2. Len(s) \in Nat /\ DOMAIN s = 1..Len(s)
    BY <2>1 DEF Listed
  <2>3. RowOf([i \in DOMAIN s |-> tensors[s[i]]], set)
    BY <2>1, <2>2 DEF RowOf
  <2> QED BY <2>3 DEF s
<1>2. InputTensors \in SUBSET DOMAIN tensors /\ OutTensors \in SUBSET DOMAIN tensors
  BY DEF InputTensors, OutTensors
<1>3. RowOf(InputRow, InputTensors)
  BY <1>1, <1>2 DEF InputRow
<1>4. RowOf(OutputRow, OutTensors)
  BY <1>1, <1>2 DEF OutputRow
<1> QED BY <1>3, <1>4

Literals(r) ==
  FlattenSeq([i \in DOMAIN r |-> IF r[i].scalar THEN Const(r[i].name) ELSE <<>>])

NodeCode == FlattenSeq([k \in DOMAIN nodes |-> EmitNode(Resolved(nodes[k]))])

LEMMA ProgramParts ==
  ASSUME sorted = DOMAIN tensors
  PROVE  Program = Op(Signature(InputRow, OutputRow), {}) \o Literals(InputRow)
                     \o NodeCode \o GraphPost(OutputRow)
<1> DEFINE rs == [k \in DOMAIN nodes |-> Resolved(nodes[k])]
<1>1. Program = EmitAsm(InputRow, OutputRow, rs)
  BY DEF Program, InputRow, OutputRow, InputTensors, OutTensors
<1>2. [i \in DOMAIN rs |-> EmitNode(rs[i])] = [k \in DOMAIN nodes |-> EmitNode(Resolved(nodes[k]))]
  OBVIOUS
<1> HIDE DEF rs
<1> QED BY <1>1, <1>2 DEF EmitAsm, GraphPre, Literals, NodeCode

\* The function takes the results, aliased, and the inputs that are no scalars.
LEMMA SignatureHas ==
  ASSUME NEW inputs, RowOf(inputs, InputTensors), NEW outputs, RowOf(outputs, OutTensors)
  PROVE  /\ Signature(inputs, outputs) \in Seq(Range(Signature(inputs, outputs)))
         /\ \A t \in OutTensors : ~tensors[t].virtual =>
              Alias(tensors[t]) \in Range(Signature(inputs, outputs))
         /\ \A t \in InputTensors : ~tensors[t].scalar =>
              tensors[t].name \in Range(Signature(inputs, outputs))
<1>1. PICK p : /\ Listed(p, InputTensors) /\ Len(p) \in Nat /\ DOMAIN p = 1..Len(p)
               /\ inputs = [k \in 1..Len(p) |-> tensors[p[k]]]
  BY DEF RowOf
<1>2. PICK q : /\ Listed(q, OutTensors) /\ Len(q) \in Nat /\ DOMAIN q = 1..Len(q)
               /\ outputs = [k \in 1..Len(q) |-> tensors[q[k]]]
  BY DEF RowOf
<1> DEFINE n   == Len(p)
           m   == Len(q)
           rss == [k \in 1..m |-> IF outputs[k].virtual THEN <<>> ELSE <<Alias(outputs[k])>>]
           ron == [k \in 1..m |-> ~outputs[k].virtual]
           rv  == [k \in 1..m |-> Alias(outputs[k])]
           ass == [k \in 1..n |-> IF inputs[k].scalar THEN <<>> ELSE <<inputs[k].name>>]
           aon == [k \in 1..n |-> ~inputs[k].scalar]
           av  == [k \in 1..n |-> inputs[k].name]
           rs  == FlattenSeq(rss)
           args == FlattenSeq(ass)
           S   == Values(rv, m) \cup Values(av, n)
<1>3. Signature(inputs, outputs) = rs \o args
  <2>1. DOMAIN inputs = 1..n /\ DOMAIN outputs = 1..m
    BY <1>1, <1>2
  <2> QED BY <2>1 DEF Signature
<1>4. \A k \in 1..m : (ron[k] <=> ~outputs[k].virtual) /\ rv[k] = Alias(outputs[k])
  OBVIOUS
<1>5. \A k \in 1..n : (aon[k] <=> ~inputs[k].scalar) /\ av[k] = inputs[k].name
  OBVIOUS
<1>6. Row(rss, m) /\ \A k \in 1..m : rss[k] = IF ron[k] THEN <<rv[k]>> ELSE <<>>
  BY DEF Row
<1>7. Row(ass, n) /\ \A k \in 1..n : ass[k] = IF aon[k] THEN <<av[k]>> ELSE <<>>
  BY DEF Row
<1> HIDE DEF rss, ron, rv, ass, aon, av
<1>8. rs \in Seq(Values(rv, m)) /\ Selects(rs, m, ron, rv)
  BY <1>2, <1>6, FlattenChosen
<1>9. args \in Seq(Values(av, n)) /\ Selects(args, n, aon, av)
  BY <1>1, <1>7, FlattenChosen
<1> HIDE DEF rs, args
<1>10. rs \in Seq(S) /\ args \in Seq(S)
  <2>1. Values(rv, m) \subseteq S /\ Values(av, n) \subseteq S
    OBVIOUS
  <2>2. rs \in Seq(Values(rv, m)) /\ args \in Seq(Values(av, n))
    BY <1>8, <1>9
  <2> HIDE DEF S
  <2>3. rs \in Seq(S)
    BY <2>1, <2>2
  <2> QED BY <2>1, <2>2, <2>3
<1> HIDE DEF S
<1>11. Range(rs \o args) = Range(rs) \cup Range(args)
  BY <1>10, RangeJoined
<1>12. rs \o args \in Seq(Range(rs \o args))
  <2> DEFINE sig == rs \o args
  <2>1. sig \in Seq(S)
    BY <1>10
  <2> HIDE DEF sig
  <2>2. DOMAIN sig = 1..Len(sig) /\ Len(sig) \in Nat /\ sig = [k \in 1..Len(sig) |-> sig[k]]
    BY <2>1
  <2>3. sig \in [1..Len(sig) -> Range(sig)]
    BY <2>2 DEF Range
  <2>4. sig \in Seq(Range(sig))
    BY <2>2, <2>3
  <2> QED BY <2>4 DEF sig
<1>13. ASSUME NEW t \in OutTensors, ~tensors[t].virtual PROVE Alias(tensors[t]) \in Range(rs)
  <2>1. PICK k \in 1..m : q[k] = t
    BY <1>2 DEF Listed
  <2>2. outputs[k] = tensors[t]
    BY <1>2, <2>1
  <2>3. ron[k] /\ rv[k] = Alias(tensors[t])
    BY <1>4, <1>13, <2>2
  <2>4. PICK j \in 1..Len(rs) : rs[j] = rv[k]
    BY <1>8, <2>3 DEF Selects
  <2>5. DOMAIN rs = 1..Len(rs)
    BY <1>8
  <2> QED BY <2>3, <2>4, <2>5 DEF Range
<1>14. ASSUME NEW t \in InputTensors, ~tensors[t].scalar PROVE tensors[t].name \in Range(args)
  <2>1. PICK k \in 1..n : p[k] = t
    BY <1>1 DEF Listed
  <2>2. inputs[k] = tensors[t]
    BY <1>1, <2>1
  <2>3. aon[k] /\ av[k] = tensors[t].name
    BY <1>5, <1>14, <2>2
  <2>4. PICK j \in 1..Len(args) : args[j] = av[k]
    BY <1>9, <2>3 DEF Selects
  <2>5. DOMAIN args = 1..Len(args)
    BY <1>9
  <2> QED BY <2>3, <2>4, <2>5 DEF Range
<1> QED BY <1>3, <1>11, <1>12, <1>13, <1>14

\* Each scalar is a literal.
LEMMA LiteralsAdd ==
  ASSUME NEW inputs, RowOf(inputs, InputTensors)
  PROVE  Adds(Literals(inputs), {}, {tensors[t].name : t \in {s \in InputTensors : tensors[s].scalar}})
<1>1. PICK p : /\ Listed(p, InputTensors) /\ Len(p) \in Nat /\ DOMAIN p = 1..Len(p)
               /\ inputs = [k \in 1..Len(p) |-> tensors[p[k]]]
  BY DEF RowOf
<1> DEFINE n  == Len(p)
           ss == [k \in 1..n |-> IF inputs[k].scalar THEN Const(inputs[k].name) ELSE <<>>]
           a  == [k \in 1..n |-> IF inputs[k].scalar THEN {inputs[k].name} ELSE {}]
           k0 == [k \in 1..n |-> {}]
<1>2. Literals(inputs) = FlattenSeq(ss)
  <2>1. DOMAIN inputs = 1..n
    BY <1>1
  <2> QED BY <2>1 DEF Literals
<1>3. ASSUME NEW k \in 1..n PROVE Adds(ss[k], k0[k], a[k]) /\ k0[k] = {}
  <2>1. k0[k] = {}
    OBVIOUS
  <2> HIDE DEF k0
  <2>2. CASE inputs[k].scalar
    <3>1. ss[k] = Const(inputs[k].name) /\ a[k] = {inputs[k].name}
      BY <2>2
    <3> HIDE DEF ss, a
    <3>2. Adds(Const(inputs[k].name), {}, {inputs[k].name})
      BY AddsConst
    <3> QED BY <2>1, <3>1, <3>2
  <2>3. CASE ~inputs[k].scalar
    <3>1. ss[k] = <<>> /\ a[k] = {}
      BY <2>3
    <3> HIDE DEF ss, a
    <3> QED BY <2>1, <3>1, AddsNothing
  <2> QED BY <2>2, <2>3
<1>4. ss = [k \in 1..n |-> ss[k]]
  OBVIOUS
<1>5. \A k \in 1..n : inputs[k].scalar => inputs[k].name \in a[k]
  OBVIOUS
<1> HIDE DEF ss, a, k0
<1>6. \A k \in 1..n : Adds(ss[k], k0[k], a[k]) /\ k0[k] \subseteq {} \cup Added(a, k - 1)
  BY <1>3
<1>7. n \in Nat
  BY <1>1
<1>8. Adds(FlattenSeq(ss), {}, Added(a, n))
  <2> HIDE DEF n
  <2> QED BY <1>4, <1>6, <1>7, AddsFlatten
<1>9. ASSUME NEW t \in InputTensors, tensors[t].scalar PROVE tensors[t].name \in Added(a, n)
  <2>1. PICK k \in 1..n : p[k] = t
    BY <1>1 DEF Listed
  <2>2. inputs[k] = tensors[t]
    BY <1>1, <2>1
  <2> QED BY <1>5, <1>9, <2>2 DEF Added
<1> DEFINE A == {tensors[t].name : t \in {s \in InputTensors : tensors[s].scalar}}
<1>10. A \subseteq Added(a, n)
  BY <1>9
<1> HIDE DEF A
<1>11. Adds(FlattenSeq(ss), {}, A)
  BY <1>8, <1>10, AddsMore
<1> QED BY <1>2, <1>11 DEF A

\* The nodes, in their order, use the inputs and one another's outputs.
LEMMA NodesAdd ==
  ASSUME TypeOK, EachMade, EachGiven, \A k \in DOMAIN nodes : NodeAccepted(nodes[k])
  PROVE  Adds(NodeCode, {tensors[t].name : t \in InputTensors},
              {tensors[t].name : t \in OutTensors})
<1> DEFINE n  == Len(nodes)
           r(k) == Resolved(nodes[k])
           K  == {tensors[t].name : t \in InputTensors}
           ss == [k \in 1..n |-> EmitNode(r(k))]
           a  == [k \in 1..n |-> OutNames(r(k))]
           kk == [k \in 1..n |-> K \cup Added(a, k - 1)]
<1>1. n \in Nat /\ DOMAIN nodes = 1..n
  BY DEF TypeOK
<1>2. NodeCode = FlattenSeq(ss)
  BY <1>1 DEF NodeCode
<1>3. \A k \in 1..n : ss[k] = EmitNode(r(k)) /\ a[k] = OutNames(r(k)) /\ kk[k] = K \cup Added(a, k - 1)
  OBVIOUS
<1>4. ss = [k \in 1..n |-> ss[k]]
  OBVIOUS
<1> HIDE DEF ss, a, kk, n, K
<1>5. ASSUME NEW k \in 1..n
      PROVE  /\ r(k).kind = nodes[k].call.kind /\ r(k).mode = nodes[k].call.mode
             /\ DOMAIN r(k).in = DOMAIN nodes[k].in
             /\ \A p \in DOMAIN nodes[k].in : r(k).in[p] = tensors[nodes[k].in[p]]
             /\ DOMAIN r(k).out = DOMAIN nodes[k].out
             /\ \A p \in DOMAIN nodes[k].out : r(k).out[p] = tensors[nodes[k].out[p]]
  BY DEF Resolved
<1> HIDE DEF r
<1>6. ASSUME NEW k \in 1..n, NEW q \in DOMAIN nodes[k].out
      PROVE  tensors[nodes[k].out[q]].name \in a[k]
  BY <1>3, <1>5 DEF OutNames
<1>7. ASSUME NEW k \in 1..n PROVE Given(r(k), kk[k])
  <2> SUFFICES ASSUME NEW p \in DOMAIN nodes[k].in
               PROVE  tensors[nodes[k].in[p]].name \in K \cup Added(a, k - 1)
    BY <1>3, <1>5 DEF Given
  <2> DEFINE t == nodes[k].in[p]
  <2>1. t \in DOMAIN tensors /\ GivenBy(k, t)
    BY <1>1 DEF TypeOK, EachGiven
  <2>2. CASE tensors[t].input
    BY <2>1, <2>2 DEF InputTensors, K
  <2>3. CASE \E l \in 1..k - 1 : \E q \in DOMAIN nodes[l].out : nodes[l].out[q] = t
    <3>1. PICK l \in 1..k - 1 : \E q \in DOMAIN nodes[l].out : nodes[l].out[q] = t
      BY <2>3
    <3>2. l \in 1..n
      BY <1>1
    <3>3. tensors[t].name \in a[l]
      BY <1>6, <3>1, <3>2
    <3>4. tensors[t].name \in Added(a, k - 1)
      BY <3>3 DEF Added
    <3> QED BY <3>4
  <2> QED BY <2>1, <2>2, <2>3 DEF GivenBy
<1>8. ASSUME NEW k \in 1..n PROVE Adds(EmitNode(r(k)), kk[k], OutNames(r(k)))
  <2>1. /\ nodes[k].call \in AllCalls
        /\ DOMAIN nodes[k].in = Range(nodes[k].call.ins)
        /\ DOMAIN nodes[k].out = Range(nodes[k].call.outs)
    BY <1>1 DEF TypeOK
  <2>2. Made(r(k), nodes[k].call)
    BY <1>5, <2>1 DEF Made
  <2>3. nodes[k].call \in BuilderCalls
    BY <2>1, BuildersAssumption
  <2>4. NodeAccepted(nodes[k])
    BY <1>1
  <2>5. ~(r(k).kind = <<"rmsnorm">> /\ <<"INV", "RMS">> \in DOMAIN r(k).out)
    BY <1>5, <2>4 DEF NodeAccepted
  <2> QED BY <1>7, <2>2, <2>3, <2>5, EmitNodeAdds
<1>9. \A k \in 1..n : Adds(ss[k], kk[k], a[k]) /\ kk[k] \subseteq K \cup Added(a, k - 1)
  BY <1>3, <1>8
<1>10. Adds(FlattenSeq(ss), K, Added(a, n))
  BY <1>1, <1>4, <1>9, AddsFlatten
<1> DEFINE A == {tensors[t].name : t \in OutTensors}
<1>11. A \subseteq Added(a, n)
  <2> SUFFICES ASSUME NEW t \in OutTensors PROVE tensors[t].name \in Added(a, n)
    OBVIOUS
  <2>1. PICK k \in DOMAIN nodes : \E p \in DOMAIN nodes[k].out : nodes[k].out[p] = t
    BY DEF OutTensors, EachMade
  <2>2. tensors[t].name \in a[k]
    BY <1>1, <1>6, <2>1
  <2> QED BY <1>1, <2>2 DEF Added
<1> HIDE DEF A
<1>12. Adds(FlattenSeq(ss), K, A)
  BY <1>10, <1>11, AddsMore
<1> QED BY <1>2, <1>12 DEF A, K

\* What overwrites the result t.
Written(t) == [def |-> <<>>, use |-> {tensors[t].name, Alias(tensors[t])}]

LEMMA AppendApart ==
  ASSUME NEW S, NEW a \in Seq(S), NEW b \in Seq(S), NEW x \in S,
         NEW c, NEW d, c = Append(a, x), d = Append(b, x), {a, c} = {b, d}
  PROVE  a = b
<1>1. Len(a) \in Nat /\ Len(b) \in Nat /\ Len(c) = Len(a) + 1 /\ Len(d) = Len(b) + 1
  OBVIOUS
<1>2. a = b \/ (a = d /\ b = c)
  <2>1. a \in {b, d} /\ b \in {a, c}
    OBVIOUS
  <2> QED BY <2>1
<1>3. ~(a = d /\ b = c)
  <2>1. a = d /\ b = c => Len(a) = Len(d) /\ Len(b) = Len(c)
    OBVIOUS
  <2>2. \A m, n \in Nat : ~(m = n + 1 /\ n = m + 1)
    OBVIOUS
  <2> QED BY <1>1, <2>1, <2>2
<1> QED BY <1>2, <1>3

LEMMA AliasApart ==
  ASSUME NEW s, NEW t, s.name \in Name, t.name \in Name,
         {s.name, Alias(s)} = {t.name, Alias(t)}
  PROVE  s.name = t.name
<1> DEFINE x == ""
           a == s.name
           b == t.name
           S == Word \cup {x}
<1>1. Alias(s) = Append(a, x) /\ Alias(t) = Append(b, x)
  BY DEF Alias
<1>2. Word \subseteq S /\ x \in S
  OBVIOUS
<1> HIDE DEF x, a, b, S
<1>3. a \in Seq(Word) /\ b \in Seq(Word)
  BY DEF Name, a, b
<1>4. a \in Seq(S) /\ b \in Seq(S)
  <2> HIDE DEF Word
  <2> QED BY <1>2, <1>3
<1>5. {a, Alias(s)} = {b, Alias(t)}
  BY DEF a, b
<1>6. a = b
  BY <1>1, <1>2, <1>4, <1>5, AppendApart
<1> QED BY <1>6 DEF a, b

\* Each result that is not virtual is overwritten once.
LEMMA PostWrites ==
  ASSUME TypeOK, UniqueNames, NEW outputs, RowOf(outputs, OutTensors), NEW r, r = GraphPost(outputs)
  PROVE  /\ Statements(r)
         /\ \A j \in 1..Len(r) : \E t \in OutTensors : ~tensors[t].virtual /\ r[j] = Written(t)
         /\ \A t \in OutTensors : ~tensors[t].virtual => \E j \in 1..Len(r) : r[j] = Written(t)
         /\ \A j, l \in 1..Len(r) : r[j].use = r[l].use => j = l
<1>1. PICK q : /\ Listed(q, OutTensors) /\ Len(q) \in Nat /\ DOMAIN q = 1..Len(q)
               /\ outputs = [k \in 1..Len(q) |-> tensors[q[k]]]
  BY DEF RowOf
<1> DEFINE m   == Len(q)
           on  == [k \in 1..m |-> ~outputs[k].virtual]
           val == [k \in 1..m |-> Written(q[k])]
           ss  == [k \in 1..m |-> IF outputs[k].virtual THEN <<>>
                                  ELSE Op(<<>>, {outputs[k].name, Alias(outputs[k])})]
<1>2. r = FlattenSeq(ss)
  <2>1. DOMAIN outputs = 1..m
    BY <1>1
  <2> QED BY <2>1 DEF GraphPost
<1>3. ASSUME NEW k \in 1..m
      PROVE  /\ on[k] <=> ~tensors[q[k]].virtual
             /\ val[k] = Written(q[k])
             /\ q[k] \in OutTensors
             /\ ss[k] = IF on[k] THEN <<val[k]>> ELSE <<>>
  <2>1. outputs[k] = tensors[q[k]] /\ q[k] \in OutTensors
    BY <1>1 DEF Listed
  <2>2. ss[k] = IF outputs[k].virtual THEN <<>>
                ELSE Op(<<>>, {outputs[k].name, Alias(outputs[k])})
    OBVIOUS
  <2>3. Op(<<>>, {outputs[k].name, Alias(outputs[k])}) = <<Written(q[k])>>
    BY <2>1 DEF Op, Written
  <2>4. (on[k] <=> ~outputs[k].virtual) /\ val[k] = Written(q[k])
    OBVIOUS
  <2> HIDE DEF ss, on, val
  <2> QED BY <2>1, <2>2, <2>3, <2>4
<1>4. Row(ss, m)
  BY DEF Row
<1> HIDE DEF on, val, ss
<1>5. r \in Seq(Values(val, m)) /\ Selects(r, m, on, val)
  BY <1>1, <1>2, <1>3, <1>4, FlattenChosen
<1>6. PICK from \in [1..Len(r) -> {k \in 1..m : on[k]}] :
        /\ \A j \in 1..Len(r) : r[j] = val[from[j]]
        /\ \A j, l \in 1..Len(r) : from[j] = from[l] => j = l
        /\ \A k \in 1..m : on[k] => \E j \in 1..Len(r) : from[j] = k
  BY <1>5 DEF Selects
<1>7. Statements(r)
  BY <1>5, StatementsIn
<1>8. ASSUME NEW j \in 1..Len(r)
      PROVE  /\ from[j] \in 1..m /\ q[from[j]] \in OutTensors
             /\ ~tensors[q[from[j]]].virtual /\ r[j] = Written(q[from[j]])
  BY <1>3, <1>6
<1>9. ASSUME NEW t \in OutTensors, ~tensors[t].virtual
      PROVE  \E j \in 1..Len(r) : r[j] = Written(t)
  <2>1. PICK k \in 1..m : q[k] = t
    BY <1>1 DEF Listed
  <2>2. on[k] /\ val[k] = Written(t)
    BY <1>3, <1>9, <2>1
  <2> QED BY <1>6, <2>2
<1>10. ASSUME NEW j \in 1..Len(r), NEW l \in 1..Len(r), r[j].use = r[l].use PROVE j = l
  <2> DEFINE s == q[from[j]]
             t == q[from[l]]
  <2>1. s \in DOMAIN tensors /\ t \in DOMAIN tensors
    BY <1>8 DEF OutTensors
  <2>2. r[j] = Written(s) /\ r[l] = Written(t)
    BY <1>8
  <2>3. from[j] \in DOMAIN q /\ from[l] \in DOMAIN q
    BY <1>1, <1>8
  <2>4. s = t => from[j] = from[l]
    BY <1>1, <2>3 DEF Listed
  <2> HIDE DEF s, t
  <2>5. {tensors[s].name, Alias(tensors[s])} = {tensors[t].name, Alias(tensors[t])}
    <3>1. r[j].use = {tensors[s].name, Alias(tensors[s])}
      BY <2>2 DEF Written
    <3>2. r[l].use = {tensors[t].name, Alias(tensors[t])}
      BY <2>2 DEF Written
    <3> QED BY <1>10, <3>1, <3>2
  <2>6. tensors[s].name \in Name /\ tensors[t].name \in Name
    <3>1. tensors[s] \in Tensor /\ tensors[t] \in Tensor
      BY <2>1 DEF TypeOK
    <3> QED BY <3>1 DEF Tensor
  <2>7. tensors[s].name = tensors[t].name
    BY <2>5, <2>6, AliasApart
  <2>8. s = t
    BY <2>1, <2>7 DEF UniqueNames
  <2> QED BY <1>6, <2>4, <2>8
<1> QED BY <1>7, <1>8, <1>9, <1>10

-----------------------------------------------------------------------------
(* Programs in which what is used is defined                               *)

Piece(p) ==
  /\ Statements(p)
  /\ \A i \in 1..Len(p) : /\ p[i].def \in Seq(Range(p[i].def))
                          /\ p[i].use \subseteq Before(p, i)

AtEnd(p) == Before(p, Len(p) + 1)

LEMMA PieceThen ==
  ASSUME NEW p, Piece(p), NEW q, Statements(q),
         \A i \in 1..Len(q) : /\ q[i].def \in Seq(Range(q[i].def))
                              /\ q[i].use \subseteq AtEnd(p) \cup Before(q, i)
  PROVE  Piece(p \o q) /\ AtEnd(p) \cup AtEnd(q) \subseteq AtEnd(p \o q)
<1> DEFINE r == p \o q
           m == Len(p)
           n == Len(q)
<1>1. /\ Statements(p)
      /\ \A i \in 1..m : p[i].def \in Seq(Range(p[i].def)) /\ p[i].use \subseteq Before(p, i)
  BY DEF Piece
<1>2. /\ Statements(r) /\ m \in Nat /\ n \in Nat /\ Len(r) = m + n
      /\ \A i \in 1..m : r[i] = p[i]
      /\ \A i \in 1..n : r[m + i] = q[i]
  BY <1>1, Joined
<1>3. /\ \A i \in 1..m + 1 : Before(p, i) \subseteq Before(r, i)
      /\ \A i \in 1..n + 1 : AtEnd(p) \cup Before(q, i) \subseteq Before(r, m + i)
  BY <1>1, BeforeJoined DEF AtEnd
<1>4. \A i \in 1..n : /\ q[i].def \in Seq(Range(q[i].def))
                      /\ q[i].use \subseteq AtEnd(p) \cup Before(q, i)
  OBVIOUS
<1> HIDE DEF r, m, n
<1>5. ASSUME NEW i \in 1..m
      PROVE  r[i].def \in Seq(Range(r[i].def)) /\ r[i].use \subseteq Before(r, i)
  <2>1. i \in 1..m + 1
    BY <1>2
  <2> QED BY <1>1, <1>2, <1>3, <2>1
<1>6. ASSUME NEW i \in 1..n
      PROVE  r[m + i].def \in Seq(Range(r[m + i].def)) /\ r[m + i].use \subseteq Before(r, m + i)
  <2>1. i \in 1..n + 1
    BY <1>2
  <2> QED BY <1>2, <1>3, <1>4, <2>1
<1>7. \A i \in 1..m + n : i \in 1..m \/ (i - m \in 1..n /\ i = m + (i - m))
  BY <1>2
<1>8. Piece(r)
  BY <1>2, <1>5, <1>6, <1>7 DEF Piece
<1>9. AtEnd(p) \cup AtEnd(q) \subseteq AtEnd(r)
  <2>1. n + 1 \in 1..n + 1 /\ Len(r) + 1 = m + (n + 1)
    BY <1>2
  <2>2. AtEnd(p) \cup Before(q, n + 1) \subseteq Before(r, m + (n + 1))
    BY <1>3, <2>1
  <2> QED BY <2>1, <2>2 DEF AtEnd, n
<1> QED BY <1>8, <1>9 DEF r

LEMMA PieceAdds ==
  ASSUME NEW p, Piece(p), NEW q, NEW K, NEW A, Adds(q, K, A), K \subseteq AtEnd(p)
  PROVE  Piece(p \o q) /\ AtEnd(p) \cup A \subseteq AtEnd(p \o q)
<1>1. /\ Statements(q) /\ A \subseteq AtEnd(q)
      /\ \A i \in 1..Len(q) : /\ q[i].def \in Seq(Range(q[i].def))
                              /\ q[i].use \subseteq AtEnd(p) \cup Before(q, i)
  BY DEF Adds, AtEnd, Results
<1>2. Piece(p \o q) /\ AtEnd(p) \cup AtEnd(q) \subseteq AtEnd(p \o q)
  BY <1>1, PieceThen
<1> QED BY <1>1, <1>2

LEMMA DefsBefore ==
  ASSUME NEW p, Piece(p), NEW i \in 1..Len(p)
  PROVE  Before(p, i) \subseteq Range(Defs(SubSeq(p, 1, i - 1)))
<1> DEFINE n  == i - 1
           q  == SubSeq(p, 1, n)
           ss == [j \in DOMAIN q |-> q[j].def]
           S  == UNION {Range(p[j].def) : j \in 1..Len(p)}
           F  == FlattenSeq(ss)
<1>1. p \in Seq({p[j] : j \in 1..Len(p)}) /\ Len(p) \in Nat
  BY DEF Piece, Statements
<1>2. n \in Nat /\ 1..n \subseteq 1..Len(p)
  BY <1>1
<1>3. DOMAIN q = 1..n /\ \A j \in 1..n : q[j] = p[j]
  BY <1>1, <1>2
<1>4. Defs(q) = F
  BY DEF Defs
<1>5. ss = [j \in 1..n |-> ss[j]] /\ \A j \in 1..n : ss[j] = p[j].def
  <2> HIDE DEF q
  <2> QED BY <1>3
<1>6. \A j \in 1..n : p[j].def \in Seq(S)
  <2> TAKE j \in 1..n
  <2>1. p[j].def \in Seq(Range(p[j].def)) /\ Range(p[j].def) \subseteq S
    BY <1>2 DEF Piece
  <2> HIDE DEF S
  <2> QED BY <2>1
<1> HIDE DEF ss, S, q, n
<1>7. ss \in Seq(Seq(S)) /\ Len(ss) = n
  <2>1. ss \in [1..n -> Seq(S)]
    BY <1>5, <1>6
  <2> QED BY <1>2, <2>1
<1> HIDE DEF F
<1>8. F \in Seq(S) /\ \E at : Places(ss, F, at)
  BY <1>7, FlattenPlaces DEF F
<1>9. PICK at : Places(ss, F, at)
  BY <1>8
<1>10. /\ at \in [0..n -> Nat] /\ at[n] = Len(F) /\ Len(F) \in Nat
       /\ \A j \in 1..n : at[j] = at[j - 1] + Len(ss[j])
       /\ \A j \in 1..n : \A b \in 1..Len(ss[j]) : F[at[j - 1] + b] = ss[j][b]
  BY <1>7, <1>8, <1>9 DEF Places
<1>11. ASSUME NEW v \in Before(p, i) PROVE v \in Range(F)
  <2>1. PICK j \in 1..n : v \in Range(ss[j])
    <3>1. PICK j \in 1..i - 1 : v \in Range(p[j].def)
      BY InBefore
    <3> QED BY <1>5, <3>1 DEF n
  <2>2. ss[j] \in Seq(S)
    BY <1>5, <1>6
  <2>3. PICK b \in 1..Len(ss[j]) : v = ss[j][b]
    <3>1. DOMAIN ss[j] = 1..Len(ss[j])
      BY <2>2
    <3>2. PICK b \in DOMAIN ss[j] : v = ss[j][b]
      BY <2>1 DEF Range
    <3> QED BY <3>1, <3>2
  <2>4. F[at[j - 1] + b] = v
    BY <1>10, <2>3
  <2>5. at[j] <= at[n]
    <3>1. j \in 0..Len(ss) /\ n \in j..Len(ss)
      BY <1>2, <1>7
    <3> QED BY <1>7, <1>9, <3>1, PlacesMonotone
  <2>6. at[j - 1] + b \in 1..Len(F)
    <3>1. at[j] \in Nat /\ at[j - 1] \in Nat /\ at[j] = at[j - 1] + Len(ss[j]) /\ Len(ss[j]) \in Nat
      <4>1. j \in 0..n /\ j - 1 \in 0..n
        BY <1>2
      <4> QED BY <1>10, <2>2, <4>1
    <3>2. \A x, y, z, w \in Nat : \A c \in 1..y : z = x + y /\ z <= w => x + c \in 1..w
      OBVIOUS
    <3>3. at[j] <= Len(F)
      BY <1>10, <2>5
    <3> QED BY <1>10, <3>1, <3>2, <3>3
  <2>7. DOMAIN F = 1..Len(F)
    BY <1>8
  <2> QED BY <2>4, <2>6, <2>7 DEF Range
<1> QED BY <1>4, <1>11 DEF q, n

\* The statements before the end define values, but for a function of no arguments.
Plain(p) == Statements(p) /\ \A i \in 1..Len(p) : p[i].def = <<>> => p[i].use = {}

LEMMA PlainJoined ==
  ASSUME NEW p, Plain(p), NEW q, Plain(q)
  PROVE  Plain(p \o q)
<1> DEFINE r == p \o q
           m == Len(p)
           n == Len(q)
<1>1. /\ Statements(r) /\ m \in Nat /\ n \in Nat /\ Len(r) = m + n
      /\ \A i \in 1..m : r[i] = p[i]
      /\ \A i \in 1..n : r[m + i] = q[i]
  BY Joined DEF Plain
<1>2. (\A i \in 1..m : p[i].def = <<>> => p[i].use = {})
        /\ \A i \in 1..n : q[i].def = <<>> => q[i].use = {}
  BY DEF Plain
<1> HIDE DEF r, m, n
<1>3. \A i \in 1..m + n : i \in 1..m \/ (i - m \in 1..n /\ i = m + (i - m))
  BY <1>1
<1>4. \A i \in 1..Len(r) : r[i].def = <<>> => r[i].use = {}
  BY <1>1, <1>2, <1>3
<1>5. Plain(r)
  BY <1>1, <1>4 DEF Plain
<1> QED BY <1>5 DEF r

LEMMA AddsPlain ==
  ASSUME NEW p, NEW K, NEW A, Adds(p, K, A)
  PROVE  Plain(p)
BY DEF Adds, Plain, Results

\* The program of an accepted graph: its arguments, literals and nodes, and the results.
LEMMA AcceptedProgram ==
  ASSUME BuildInv, Accepted
  PROVE  \E p, r : /\ Program = p \o r /\ r = GraphPost(OutputRow)
                   /\ Piece(p) /\ Plain(p)
                   /\ Len(p) > 0 /\ p[1].def = Signature(InputRow, OutputRow)
                   /\ \A t \in OutTensors : ~tensors[t].virtual =>
                        /\ Alias(tensors[t]) \in Range(p[1].def)
                        /\ Written(t).use \subseteq AtEnd(p)
<1> DEFINE sig  == Signature(InputRow, OutputRow)
           h    == Op(sig, {})
           c    == Literals(InputRow)
           ins  == {tensors[t].name : t \in InputTensors}
           lits == {tensors[t].name : t \in {s \in InputTensors : tensors[s].scalar}}
           outs == {tensors[t].name : t \in OutTensors}
           p    == h \o c \o NodeCode
<1>1. /\ TypeOK /\ EachMade /\ EachGiven /\ sorted = DOMAIN tensors
      /\ \A k \in DOMAIN nodes : NodeAccepted(nodes[k])
  BY DEF BuildInv, AsValidated
<1>2. RowOf(InputRow, InputTensors) /\ RowOf(OutputRow, OutTensors)
  BY <1>1, RowsListed
<1>3. /\ sig \in Seq(Range(sig))
      /\ \A t \in OutTensors : ~tensors[t].virtual => Alias(tensors[t]) \in Range(sig)
      /\ \A t \in InputTensors : ~tensors[t].scalar => tensors[t].name \in Range(sig)
  BY <1>2, SignatureHas
<1>4. Adds(c, {}, lits)
  BY <1>2, LiteralsAdd
<1>5. Adds(NodeCode, ins, outs)
  BY <1>1, NodesAdd
<1>6. Program = h \o c \o NodeCode \o GraphPost(OutputRow)
  BY <1>1, ProgramParts
<1>7. \A t \in InputTensors : tensors[t].name \in Range(sig) \cup lits
  BY <1>3
<1>8. ins \subseteq Range(sig) \cup lits
  BY <1>7
<1>9. \A t \in OutTensors : tensors[t].name \in outs
  OBVIOUS
<1> HIDE DEF sig, c, ins, lits, outs
<1>10. Statements(h) /\ Len(h) = 1 /\ h[1].def = sig /\ h[1].use = {}
  <2> DEFINE s == [def |-> sig, use |-> {}]
             one == <<s>>
  <2>1. one \in Seq({s}) /\ Len(one) = 1 /\ one[1] = s /\ s.def = sig /\ s.use = {}
    OBVIOUS
  <2>2. h = one
    BY DEF Op
  <2> HIDE DEF s, one, h
  <2> QED BY <2>1, <2>2, StatementsIn
<1> HIDE DEF h
<1>11. \A i \in 1..Len(h) : i = 1
  BY <1>10
<1>12. Piece(h) /\ Plain(h) /\ Range(sig) \subseteq AtEnd(h)
  <2>1. Piece(h) /\ Plain(h)
    BY <1>3, <1>10, <1>11 DEF Piece, Plain
  <2>2. 1 \in 1..(Len(h) + 1) - 1
    BY <1>10
  <2> QED BY <1>10, <2>1, <2>2 DEF AtEnd, Before
<1> DEFINE hc == h \o c
<1>13. Piece(hc) /\ AtEnd(h) \cup lits \subseteq AtEnd(hc)
  <2>1. {} \subseteq AtEnd(h)
    OBVIOUS
  <2> QED BY <1>4, <1>12, <2>1, PieceAdds
<1>14. Plain(hc)
  BY <1>4, <1>12, AddsPlain, PlainJoined
<1>15. Len(hc) \in Nat /\ Len(hc) > 0 /\ hc[1] = h[1]
  <2>1. Statements(h) /\ Statements(c)
    BY <1>4, <1>10 DEF Adds
  <2>2. 1 \in 1..Len(h)
    BY <1>10
  <2>3. /\ Len(h) \in Nat /\ Len(c) \in Nat /\ Len(hc) = Len(h) + Len(c)
        /\ \A i \in 1..Len(h) : hc[i] = h[i]
    BY <2>1, Joined
  <2> HIDE DEF hc
  <2> QED BY <1>10, <2>2, <2>3
<1> HIDE DEF hc
<1>16. ins \subseteq AtEnd(hc)
  BY <1>8, <1>12, <1>13
<1> DEFINE q == hc \o NodeCode
<1>17. Piece(q) /\ AtEnd(hc) \cup outs \subseteq AtEnd(q)
  BY <1>5, <1>13, <1>16, PieceAdds
<1>18. Plain(q)
  BY <1>5, <1>14, AddsPlain, PlainJoined
<1>19. Len(q) > 0 /\ q[1].def = sig
  <2>1. Statements(hc) /\ Statements(NodeCode)
    BY <1>5, <1>14 DEF Adds, Plain
  <2>2. 1 \in 1..Len(hc)
    BY <1>15
  <2>3. /\ Len(hc) \in Nat /\ Len(NodeCode) \in Nat /\ Len(q) = Len(hc) + Len(NodeCode)
        /\ \A i \in 1..Len(hc) : q[i] = hc[i]
    BY <2>1, Joined
  <2> HIDE DEF q
  <2> QED BY <1>10, <1>15, <2>2, <2>3
<1>20. Program = q \o GraphPost(OutputRow)
  BY <1>6 DEF hc
<1> HIDE DEF q
<1>21. ASSUME NEW t \in OutTensors, ~tensors[t].virtual
       PROVE  Alias(tensors[t]) \in Range(q[1].def) /\ Written(t).use \subseteq AtEnd(q)
  <2>1. Alias(tensors[t]) \in Range(sig)
    BY <1>3, <1>21
  <2>2. Written(t).use = {tensors[t].name, Alias(tensors[t])}
    BY DEF Written
  <2>3. tensors[t].name \in AtEnd(q) /\ Alias(tensors[t]) \in AtEnd(q)
    BY <1>9, <1>12, <1>13, <1>17, <2>1
  <2> QED BY <1>19, <2>1, <2>2, <2>3
<1> QED BY <1>17, <1>18, <1>19, <1>20, <1>21 DEF sig

LEMMA InvDefinesBeforeUse == ASSUME BuildInv PROVE DefinedBeforeUse
<1> SUFFICES ASSUME Accepted, NEW i \in DOMAIN Program
             PROVE  Program[i].use \subseteq Range(Defs(SubSeq(Program, 1, i - 1)))
  BY DEF DefinedBeforeUse
<1>1. PICK p, r : /\ Program = p \o r /\ r = GraphPost(OutputRow) /\ Piece(p)
                  /\ \A t \in OutTensors : ~tensors[t].virtual => Written(t).use \subseteq AtEnd(p)
  BY AcceptedProgram
<1>2. /\ Statements(r)
      /\ \A j \in 1..Len(r) : \E t \in OutTensors : ~tensors[t].virtual /\ r[j] = Written(t)
  BY <1>1, RowsListed, PostWrites DEF BuildInv, AsValidated
<1>3. ASSUME NEW j \in 1..Len(r)
      PROVE  r[j].def \in Seq(Range(r[j].def)) /\ r[j].use \subseteq AtEnd(p) \cup Before(r, j)
  <2>1. PICK t \in OutTensors : ~tensors[t].virtual /\ r[j] = Written(t)
    BY <1>2
  <2>2. r[j].def = <<>>
    BY <2>1 DEF Written
  <2>3. <<>> \in Seq(Range(<<>>))
    OBVIOUS
  <2> QED BY <1>1, <2>1, <2>2, <2>3
<1> DEFINE q == p \o r
<1>4. Piece(q)
  BY <1>1, <1>2, <1>3, PieceThen
<1>5. Program = q
  BY <1>1
<1> HIDE DEF q
<1>6. DOMAIN q = 1..Len(q)
  BY <1>4 DEF Piece, Statements
<1>7. q[i].use \subseteq Before(q, i) /\ Before(q, i) \subseteq Range(Defs(SubSeq(q, 1, i - 1)))
  BY <1>4, <1>5, <1>6, DefsBefore DEF Piece
<1> QED BY <1>5, <1>7

LEMMA InvWritesResults == ASSUME BuildInv PROVE ResultsWritten
<1> SUFFICES ASSUME Accepted, NEW t \in DOMAIN tensors,
                    ~tensors[t].input /\ ~tensors[t].virtual
             PROVE  /\ Alias(tensors[t]) \in Range(Program[1].def)
                    /\ Cardinality({i \in DOMAIN Program : Program[i].def = <<>>
                         /\ Program[i].use = {tensors[t].name, Alias(tensors[t])}}) = 1
  BY DEF ResultsWritten
<1>1. PICK p, r : /\ Program = p \o r /\ r = GraphPost(OutputRow)
                  /\ Piece(p) /\ Plain(p) /\ Len(p) > 0
                  /\ \A s \in OutTensors : ~tensors[s].virtual => Alias(tensors[s]) \in Range(p[1].def)
  BY AcceptedProgram
<1>2. t \in OutTensors
  BY DEF OutTensors
<1>3. /\ Statements(r)
      /\ \A s \in OutTensors : ~tensors[s].virtual => \E j \in 1..Len(r) : r[j] = Written(s)
      /\ \A j, l \in 1..Len(r) : r[j].use = r[l].use => j = l
  BY <1>1, RowsListed, PostWrites DEF BuildInv, AsValidated
<1> DEFINE q == p \o r
           m == Len(p)
           n == Len(r)
           use == {tensors[t].name, Alias(tensors[t])}
<1>4. /\ Statements(q) /\ m \in Nat /\ n \in Nat /\ Len(q) = m + n /\ m > 0
      /\ \A i \in 1..m : q[i] = p[i]
      /\ \A i \in 1..n : q[m + i] = r[i]
  BY <1>1, <1>3, Joined DEF Plain
<1>5. DOMAIN q = 1..m + n
  BY <1>4 DEF Statements
<1>6. PICK j \in 1..n : r[j] = Written(t)
  BY <1>2, <1>3
<1>7. r[j].def = <<>> /\ r[j].use = use
  BY <1>6 DEF Written
<1>8. use # {}
  OBVIOUS
<1>9. \A i \in 1..m : ~(p[i].def = <<>> /\ p[i].use = use)
  BY <1>1, <1>8 DEF Plain
<1>10. Program = q
  BY <1>1
<1>11. q[1] = p[1]
  BY <1>4
<1> HIDE DEF q, m, n, use
<1> DEFINE At == {i \in DOMAIN q : q[i].def = <<>> /\ q[i].use = use}
<1>12. At = {m + j}
  <2>1. m + j \in At
    BY <1>4, <1>5, <1>6, <1>7
  <2>2. ASSUME NEW i \in At PROVE i = m + j
    <3>1. i \in 1..m + n /\ q[i].def = <<>> /\ q[i].use = use
      BY <1>5
    <3>2. i \notin 1..m
      BY <1>4, <1>9, <3>1
    <3>3. i - m \in 1..n /\ i = m + (i - m)
      BY <1>4, <3>1, <3>2
    <3>4. r[i - m].use = r[j].use
      BY <1>4, <1>7, <3>1, <3>3
    <3>5. i - m = j
      BY <1>3, <1>6, <3>3, <3>4 DEF n
    <3> QED BY <3>3, <3>5
  <2> HIDE DEF At
  <2> QED BY <2>1, <2>2
<1> HIDE DEF At
<1>13. Cardinality(At) = 1
  BY <1>12, FS_Singleton
<1>14. Alias(tensors[t]) \in Range(q[1].def)
  BY <1>1, <1>2, <1>11
<1> QED BY <1>10, <1>13, <1>14 DEF At, use

\* Every value of the program of an accepted graph is defined before it is used, for every
\* sequence of builder calls the nodes admit and whatever the caller names.
THEOREM DefinedBeforeUseCorrect == Spec => []DefinedBeforeUse
<1>1. BuildInv => DefinedBeforeUse
  BY InvDefinesBeforeUse
<1>2. QED BY <1>1, BuildInvCorrect, PTL

\* Every output that is not virtual is an argument of the program of an accepted graph,
\* and is overwritten at its end, once.
THEOREM ResultsWrittenCorrect == Spec => []ResultsWritten
<1>1. BuildInv => ResultsWritten
  BY InvWritesResults
<1>2. QED BY <1>1, BuildInvCorrect, PTL
===============================================================================
