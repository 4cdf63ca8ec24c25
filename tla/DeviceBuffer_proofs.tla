------------------------ MODULE DeviceBuffer_proofs ------------------------
(***************************************************************************)
(* Proofs about DeviceBuffer, for any number of Buffers, views, storages,  *)
(* requests and lost references: a reference count is never lower than the *)
(* number of references there are (HeldIsAlive), the references nobody has *)
(* are the ones counted as lost (NothingElseLost), the input list of a     *)
(* call has exactly the room that createVmContext counted (CapacityExact), *)
(* and a read returns what was written last (ReadExact).                   *)
(*                                                                         *)
(* Counting is by cardinality: of the Buffers that hold a view, of the     *)
(* places of the list that hold one, of the views of a storage.  A step    *)
(* that takes or drops a reference adds an element to such a set or        *)
(* removes one, and changes the count by as much; the sum over all objects *)
(* then changes by what was lost.  Sums and products are folds: what they  *)
(* compute is shown by the smallest set for which it would be wrong.       *)
(***************************************************************************)
EXTENDS DeviceBuffer, FiniteSetTheorems, TLAPS

(* What the counting needs of the types: bytes and shapes play no part.    *)
Memory(w, st) ==
  /\ w = [v \in View |-> w[v]]
  /\ \A v \in View :
       /\ DOMAIN w[v] = DOMAIN NoView
       /\ w[v].refs \in Nat
       /\ w[v].storage \in Storage \cup {None}
       /\ w[v].refs = 0 <=> w[v].storage = None
  /\ st = [b \in Storage |-> st[b]]
  /\ \A b \in Storage : DOMAIN st[b] = DOMAIN NoStorage /\ st[b].refs \in Nat

Shaped ==
  /\ holds \in [Slot -> View \cup {None}]
  /\ lent \in [View -> BOOLEAN]
  /\ list \in Seq(Entry)
  /\ Memory(view, storage)

(* A call under way, whose Buffers stay. *)
Called == call # None =>
  /\ call \in Call /\ DOMAIN call.args = DOMAIN call.tensors
  /\ \A s \in Range(call.args) \ {None} : holds[s] \in View
  /\ call.workspace # None => holds[call.workspace] \in View
  /\ call.next \in 1..Len(call.args) + (IF call.async THEN 4 ELSE 2)

IInv == Shaped /\ Called /\ (call = None => list = <<>>) /\ HeldIsAlive

-----------------------------------------------------------------------------
(* Sets                                                                    *)

\* The number of elements that are left of a finite set.
LEMMA Difference ==
  ASSUME NEW S, IsFiniteSet(S), NEW T \in SUBSET S
  PROVE  /\ IsFiniteSet(S \ T) /\ Cardinality(T) \in Nat
         /\ Cardinality(S \ T) = Cardinality(S) - Cardinality(T)
<1>1. IsFiniteSet(T) /\ IsFiniteSet(S \ T)
  BY FS_Subset
<1>2. T \cup (S \ T) = S /\ T \cap (S \ T) = {}
  OBVIOUS
<1>3. Cardinality(S) = Cardinality(T) + Cardinality(S \ T) - Cardinality({})
  BY <1>1, <1>2, FS_Union
<1>4. Cardinality(T) \in Nat /\ Cardinality(S \ T) \in Nat /\ Cardinality({}) = 0
  BY <1>1, FS_CardinalityType, FS_EmptySet
<1> QED BY <1>1, <1>3, <1>4

Holders(f, v)   == {s \in Slot : f[s] = v}
At(l, kind, id) == {i \in DOMAIN l : l[i].kind = kind /\ l[i].id = id}
Views(w, b)     == {v \in View : w[v].storage = b}

\* They are finite.
LEMMA HoldersFinite ==
  ASSUME NEW f, NEW v
  PROVE  IsFiniteSet(Holders(f, v)) /\ Cardinality(Holders(f, v)) \in Nat
<1>1. Holders(f, v) \in SUBSET Slot
  BY DEF Holders
<1> QED BY <1>1, FiniteAssumption, FS_Subset, FS_CardinalityType

LEMMA ViewsFinite ==
  ASSUME NEW w, NEW b
  PROVE  IsFiniteSet(Views(w, b)) /\ Cardinality(Views(w, b)) \in Nat
<1>1. Views(w, b) \in SUBSET View
  BY DEF Views
<1> QED BY <1>1, FiniteAssumption, FS_Subset, FS_CardinalityType

LEMMA AtFinite ==
  ASSUME NEW S, NEW l \in Seq(S), NEW kind, NEW id
  PROVE  IsFiniteSet(At(l, kind, id)) /\ Cardinality(At(l, kind, id)) \in Nat
<1>1. At(l, kind, id) \in SUBSET (1..Len(l)) /\ 1 \in Int /\ Len(l) \in Int
  BY DEF At
<1> QED BY <1>1, FS_Interval, FS_Subset, FS_CardinalityType

\* One more place in a list.
LEMMA AtAppend ==
  ASSUME NEW S, NEW l \in Seq(S), NEW e \in S, NEW kind, NEW id
  PROVE  Cardinality(At(Append(l, e), kind, id))
           = Cardinality(At(l, kind, id)) + (IF e.kind = kind /\ e.id = id THEN 1 ELSE 0)
<1> DEFINE n == Len(l) + 1
<1>1. /\ DOMAIN Append(l, e) = 1..n /\ DOMAIN l = 1..Len(l) /\ Len(l) \in Nat
      /\ Append(l, e)[n] = e /\ \A i \in 1..Len(l) : Append(l, e)[i] = l[i]
  OBVIOUS
<1>2. n \notin At(l, kind, id)
  BY <1>1 DEF At
<1>3. CASE e.kind = kind /\ e.id = id
  <2>1. At(Append(l, e), kind, id) = At(l, kind, id) \cup {n}
    BY <1>1, <1>3 DEF At
  <2>2. IsFiniteSet(At(l, kind, id)) /\ Cardinality(At(l, kind, id)) \in Nat
    BY AtFinite
  <2>3. Cardinality(At(l, kind, id) \cup {n}) = Cardinality(At(l, kind, id)) + 1
    BY <1>2, <2>2, FS_AddElement
  <2> QED BY <1>3, <2>1, <2>3
<1>4. CASE ~(e.kind = kind /\ e.id = id)
  <2>1. At(Append(l, e), kind, id) = At(l, kind, id)
    BY <1>1, <1>4 DEF At
  <2> QED BY <1>4, <2>1, AtFinite
<1> QED BY <1>3, <1>4

\* A Buffer gets a view, or lets go of one.
LEMMA HoldersExcept ==
  ASSUME NEW f \in [Slot -> View \cup {None}], NEW s \in Slot, NEW v,
         NEW g \in [Slot -> View \cup {None}], \A r \in Slot : r # s => g[r] = f[r]
  PROVE  Cardinality(Holders(g, v))
           = Cardinality(Holders(f, v)) - (IF f[s] = v THEN 1 ELSE 0)
                                        + (IF g[s] = v THEN 1 ELSE 0)
<1> DEFINE H == Holders(f, v) \ {s}
<1>1. /\ IsFiniteSet(H) /\ Cardinality(H) \in Nat
      /\ Cardinality(H) = Cardinality(Holders(f, v)) - (IF f[s] = v THEN 1 ELSE 0)
  <2>1. s \in Holders(f, v) <=> f[s] = v
    BY DEF Holders
  <2>2. IsFiniteSet(Holders(f, v)) /\ Cardinality(Holders(f, v)) \in Nat
    BY HoldersFinite
  <2>3. /\ IsFiniteSet(H)
        /\ Cardinality(H) = IF s \in Holders(f, v) THEN Cardinality(Holders(f, v)) - 1
                            ELSE Cardinality(Holders(f, v))
    BY <2>2, FS_RemoveElement
  <2> QED BY <2>1, <2>2, <2>3, FS_CardinalityType
<1>2. CASE g[s] = v
  <2>1. Holders(g, v) = H \cup {s}
    BY <1>2 DEF Holders
  <2>2. Cardinality(H \cup {s}) = Cardinality(H) + 1
    BY <1>1, FS_AddElement
  <2> HIDE DEF H
  <2>3. Cardinality(Holders(f, v)) \in Nat
    BY HoldersFinite
  <2> QED BY <1>1, <1>2, <2>1, <2>2, <2>3
<1>3. CASE g[s] # v
  <2>1. Holders(g, v) = H
    BY <1>3 DEF Holders
  <2> HIDE DEF H
  <2>2. Cardinality(Holders(f, v)) \in Nat
    BY HoldersFinite
  <2> QED BY <1>1, <1>3, <2>1, <2>2
<1> QED BY <1>2, <1>3

-----------------------------------------------------------------------------
(* Sums                                                                    *)

\* A set of finite sets that is not empty has a member none of whose proper subsets
\* is a member: the form in which induction over subsets can be used here.
LEMMA SmallestSet ==
  ASSUME NEW S, IsFiniteSet(S), NEW T, T \subseteq SUBSET S, T # {}
  PROVE  \E x \in T : \A y \in T : y \subseteq x => y = x
<1>1. IsWellFoundedOn(StrictSubsetOrdering(S), SUBSET S)
  BY FS_StrictSubsetOrderingWellFounded, FS_FiniteSubsetsOfFinite
<1>2. PICK x \in T : \A y \in T : <<y, x>> \notin StrictSubsetOrdering(S)
  BY <1>1, WFMin
<1>3. \A y \in T : y \subseteq x => y = x
  BY <1>2 DEF StrictSubsetOrdering
<1> QED BY <1>3

\* g is computed along choices: b for the empty set, else step[s] of what is left
\* when choice[s] is taken out of s.
Computes(g, S, b, choice, step) ==
  \A s \in SUBSET S : g[s] = IF s = {} THEN b ELSE step[s][g[s \ {choice[s]}]]

\* There is only one, on the sets both are defined for.
LEMMA OneComputes ==
  ASSUME NEW S, IsFiniteSet(S), NEW b, NEW step,
         NEW choice, \A s \in SUBSET S : s # {} => choice[s] \in s,
         NEW g, NEW h, NEW R \in SUBSET S, NEW Q \in SUBSET S, R \subseteq Q,
         Computes(g, R, b, choice, step), Computes(h, Q, b, choice, step)
  PROVE  \A s \in SUBSET R : g[s] = h[s]
<1> DEFINE T == {s \in SUBSET R : g[s] # h[s]}
<1> SUFFICES ASSUME T # {} PROVE FALSE
  OBVIOUS
<1>1. PICK s \in T : \A y \in T : y \subseteq s => y = s
  <2>1. T \subseteq SUBSET S
    OBVIOUS
  <2> HIDE DEF T
  <2> QED BY <2>1, SmallestSet
<1>2. s # {}
  BY <1>1 DEF Computes
<1> DEFINE u == s \ {choice[s]}
<1>3. u \in SUBSET R /\ u # s /\ u \subseteq s
  BY <1>1, <1>2
<1>4. g[u] = h[u]
  BY <1>1, <1>3
<1> QED BY <1>1, <1>2, <1>4 DEF Computes

\* And there is one, built from those for the smaller sets.
LEMMA SomeComputes ==
  ASSUME NEW S, IsFiniteSet(S), NEW V, NEW b \in V,
         NEW choice, \A s \in SUBSET S : s # {} => choice[s] \in s,
         NEW step \in [SUBSET S -> [V -> V]]
  PROVE  \E g \in [SUBSET S -> V] : Computes(g, S, b, choice, step)
<1> DEFINE Has(s) == \E g \in [SUBSET s -> V] : Computes(g, s, b, choice, step)
           T == {s \in SUBSET S : ~Has(s)}
<1> SUFFICES ASSUME T # {} PROVE FALSE
  OBVIOUS
<1>1. PICK s \in T : \A y \in T : y \subseteq s => y = s
  <2>1. T \subseteq SUBSET S
    OBVIOUS
  <2> HIDE DEF T
  <2> QED BY <2>1, SmallestSet
<1>2. \A u \in SUBSET s : u # s => Has(u)
  BY <1>1 DEF T
<1> DEFINE G(u) == CHOOSE g : g \in [SUBSET u -> V] /\ Computes(g, u, b, choice, step)
<1>3. \A u \in SUBSET s : u # s => G(u) \in [SUBSET u -> V] /\ Computes(G(u), u, b, choice, step)
  BY <1>2
<1> DEFINE val(u) == IF u = s THEN IF s = {} THEN b ELSE step[s][G(s \ {choice[s]})[s \ {choice[s]}]]
                     ELSE G(u)[u]
           g == [u \in SUBSET s |-> val(u)]
<1> HIDE DEF G, Has, T
<1>10. \A u \in SUBSET s : u # s => G(u)[u] \in V
  <2> TAKE u \in SUBSET s
  <2> HAVE u # s
  <2>1. G(u) \in [SUBSET u -> V]
    BY <1>3
  <2> QED BY <2>1
<1>4. s # {} => s \ {choice[s]} \in SUBSET s /\ s \ {choice[s]} # s
  BY <1>1 DEF T
<1>5. \A u \in SUBSET s : val(u) \in V
  <2> TAKE u \in SUBSET s
  <2>1. CASE u # s
    <3>1. G(u)[u] \in V
      BY <1>10, <2>1
    <3> QED BY <2>1, <3>1
  <2>2. CASE u = s /\ s = {}
    BY <2>2
  <2>3. CASE u = s /\ s # {}
    <3>1. G(s \ {choice[s]})[s \ {choice[s]}] \in V
      BY <1>10, <1>4, <2>3
    <3>2. step[s] \in [V -> V]
      BY <1>1 DEF T
    <3> QED BY <2>3, <3>1, <3>2
  <2> QED BY <2>1, <2>2, <2>3
<1>6. ASSUME NEW u \in SUBSET s
      PROVE  g[u] = IF u = {} THEN b ELSE step[u][g[u \ {choice[u]}]]
  <2> DEFINE w == u \ {choice[u]}
  <2>1. u # {} => w \in SUBSET u /\ w # u /\ w \in SUBSET s /\ w # s
    BY <1>1 DEF T
  <2>2. CASE u = {}
    <3>1. CASE u = s
      BY <2>2, <3>1
    <3>2. CASE u # s
      <4>1. G(u)[u] = b
        BY <1>3, <2>2, <3>2 DEF Computes
      <4> QED BY <2>2, <3>2, <4>1
    <3> QED BY <3>1, <3>2
  <2>3. CASE u # {} /\ u = s
    <3>1. g[u] = step[u][G(w)[w]]
      BY <2>3
    <3>2. g[w] = G(w)[w]
      BY <2>1, <2>3
    <3> QED BY <2>3, <3>1, <3>2
  <2>4. CASE u # {} /\ u # s
    <3>1. g[u] = G(u)[u] /\ g[w] = G(w)[w]
      BY <2>1, <2>4
    <3>2. Computes(G(u), u, b, choice, step) /\ Computes(G(w), w, b, choice, step)
      BY <1>3, <2>1, <2>4
    <3>3. G(u)[u] = step[u][G(u)[w]]
      BY <2>4, <3>2 DEF Computes
    <3>4. G(w)[w] = G(u)[w]
      <4>1. u \in SUBSET S /\ w \in SUBSET S /\ w \subseteq u
        BY <1>1, <2>1, <2>4 DEF T
      <4> HIDE DEF w
      <4>2. \A x \in SUBSET w : G(w)[x] = G(u)[x]
        BY <3>2, <4>1, OneComputes
      <4> QED BY <4>2
    <3> QED BY <2>4, <3>1, <3>3, <3>4
  <2> QED BY <2>2, <2>3, <2>4
<1>7. g \in [SUBSET s -> V]
  BY <1>5
<1>8. Computes(g, s, b, choice, step)
  BY <1>6 DEF Computes
<1>9. Has(s)
  BY <1>7, <1>8 DEF Has
<1> QED BY <1>1, <1>9 DEF T

\* The element with which a fold goes on.
Chosen(s) == CHOOSE x \in s : TRUE

\* g has the sum of f over each subset of S.
Sums(g, S, f) ==
  /\ \A s \in SUBSET S : g[s] \in Int
  /\ g[{}] = 0
  /\ \A s \in SUBSET S :
       s # {} => Chosen(s) \in s /\ g[s] = f[Chosen(s)] + g[s \ {Chosen(s)}]

\* The sum of a function is computed along the choices of elements.
LEMMA SumUnfolds ==
  ASSUME NEW S, IsFiniteSet(S), NEW f \in [S -> Int]
  PROVE  \E g : SumFunction(f) = g[S] /\ Sums(g, S, f)
<1> DEFINE choice == [s \in SUBSET S |-> Chosen(s)]
           step == [s \in SUBSET S |-> [n \in Int |-> IF s = {} THEN n ELSE f[Chosen(s)] + n]]
           Iter(h) == h = [s \in SUBSET S |-> IF s = {} THEN 0 ELSE f[Chosen(s)] + h[s \ {Chosen(s)}]]
           iter == CHOOSE h : Iter(h)
<1>1. \A s \in SUBSET S : s # {} => Chosen(s) \in s /\ choice[s] = Chosen(s)
  BY DEF Chosen
<1>2. step \in [SUBSET S -> [Int -> Int]]
  <2>1. ASSUME NEW s \in SUBSET S, NEW n \in Int
        PROVE  (IF s = {} THEN n ELSE f[Chosen(s)] + n) \in Int
    <3>1. s # {} => f[Chosen(s)] \in Int
      BY <1>1
    <3> QED BY <3>1
  <2> QED BY <2>1
<1>3. PICK g \in [SUBSET S -> Int] : Computes(g, S, 0, choice, step)
  <2>1. \A s \in SUBSET S : s # {} => choice[s] \in s
    BY <1>1
  <2>2. 0 \in Int
    OBVIOUS
  <2> HIDE DEF choice, step
  <2> QED BY <1>2, <2>1, <2>2, SomeComputes
<1>4. \A s \in SUBSET S :
        g[s] = IF s = {} THEN 0 ELSE f[Chosen(s)] + g[s \ {Chosen(s)}]
  <2> TAKE s \in SUBSET S
  <2>1. g[s] = IF s = {} THEN 0 ELSE step[s][g[s \ {choice[s]}]]
    BY <1>3 DEF Computes
  <2>2. CASE s # {}
    <3>1. g[s \ {Chosen(s)}] \in Int
      OBVIOUS
    <3> QED BY <1>1, <2>1, <2>2, <3>1
  <2> QED BY <2>1, <2>2
<1>5. Iter(g)
  BY <1>4
<1>6. Iter(iter)
  BY <1>5
<1>7. \A s \in SUBSET S :
        iter[s] = IF s = {} THEN 0 ELSE f[Chosen(s)] + iter[s \ {Chosen(s)}]
  BY <1>6
<1>8. SumFunction(f) = iter[S]
  <2>1. DOMAIN f = S
    OBVIOUS
  <2> QED BY <2>1 DEF SumFunction, SumFunctionOnSet, FoldFunctionOnSet, MapThenFoldSet, Chosen
<1>9. \A s \in SUBSET S : iter[s] = g[s]
  <2> DEFINE T == {s \in SUBSET S : iter[s] # g[s]}
  <2> HIDE DEF iter
  <2> SUFFICES ASSUME T # {} PROVE FALSE
    OBVIOUS
  <2>1. PICK s \in T : \A y \in T : y \subseteq s => y = s
    <3>1. T \subseteq SUBSET S
      OBVIOUS
    <3> HIDE DEF T
    <3> QED BY <3>1, SmallestSet
  <2>2. s # {}
    BY <1>4, <1>7, <2>1
  <2>3. iter[s \ {Chosen(s)}] = g[s \ {Chosen(s)}]
    BY <1>1, <2>1, <2>2
  <2> QED BY <1>4, <1>7, <2>1, <2>2, <2>3
<1>10. \A s \in SUBSET S : iter[s] \in Int
  BY <1>3, <1>9
<1> HIDE DEF iter
<1> QED BY <1>1, <1>7, <1>8, <1>10 DEF Sums

\* A sum of zeros, and one of a function that is higher by one at one place.
LEMMA SumZero ==
  ASSUME NEW S, IsFiniteSet(S), NEW f \in [S -> Int], \A x \in S : f[x] = 0
  PROVE  SumFunction(f) = 0
<1>1. PICK g : SumFunction(f) = g[S] /\ Sums(g, S, f)
  BY SumUnfolds
<1> DEFINE T == {s \in SUBSET S : g[s] # 0}
<1> SUFFICES ASSUME T # {} PROVE FALSE
  BY <1>1
<1>2. PICK s \in T : \A y \in T : y \subseteq s => y = s
  <2>1. T \subseteq SUBSET S
    OBVIOUS
  <2> HIDE DEF T
  <2> QED BY <2>1, SmallestSet
<1>3. s # {} /\ Chosen(s) \in s
  BY <1>1, <1>2 DEF Sums
<1>4. g[s \ {Chosen(s)}] = 0
  BY <1>2, <1>3
<1>5. g[s] = f[Chosen(s)] + 0 /\ f[Chosen(s)] = 0 /\ g[s] # 0
  BY <1>1, <1>2, <1>3, <1>4 DEF Sums
<1> QED BY <1>5

LEMMA SumOneMore ==
  ASSUME NEW S, IsFiniteSet(S), NEW f \in [S -> Int], NEW h \in [S -> Int], NEW x \in S,
         h[x] = f[x] + 1, \A y \in S \ {x} : h[y] = f[y]
  PROVE  SumFunction(h) = SumFunction(f) + 1
<1>1. PICK g : SumFunction(f) = g[S] /\ Sums(g, S, f)
  BY SumUnfolds
<1>2. PICK k : SumFunction(h) = k[S] /\ Sums(k, S, h)
  BY SumUnfolds
<1> DEFINE T == {s \in SUBSET S : k[s] # g[s] + (IF x \in s THEN 1 ELSE 0)}
<1> SUFFICES ASSUME T # {} PROVE FALSE
  BY <1>1, <1>2 DEF Sums
<1>3. PICK s \in T : \A y \in T : y \subseteq s => y = s
  <2>1. T \subseteq SUBSET S
    OBVIOUS
  <2> HIDE DEF T
  <2> QED BY <2>1, SmallestSet
<1>4. s # {} /\ Chosen(s) \in s
  <2>1. {} \notin T
    BY <1>1, <1>2 DEF Sums
  <2>2. s # {} /\ s \in SUBSET S
    BY <1>3, <2>1
  <2> QED BY <1>1, <2>2 DEF Sums
<1> DEFINE c == Chosen(s)
           u == s \ {c}
<1>5. u \in SUBSET S /\ k[u] = g[u] + (IF x \in u THEN 1 ELSE 0)
  BY <1>3, <1>4
<1>6. /\ g[s] = f[c] + g[u] /\ k[s] = h[c] + k[u] /\ c \in S
      /\ k[s] # g[s] + (IF x \in s THEN 1 ELSE 0)
      /\ g[u] \in Int /\ k[u] \in Int /\ f[c] \in Int
  BY <1>1, <1>2, <1>3, <1>4, <1>5 DEF Sums
<1>7. CASE c = x
  <2>1. x \notin u /\ x \in s
    BY <1>4, <1>7
  <2> HIDE DEF c, u
  <2> QED BY <1>5, <1>6, <1>7, <2>1
<1>8. CASE c # x
  <2>1. x \in u <=> x \in s
    BY <1>8
  <2>2. h[c] = f[c]
    BY <1>6, <1>8
  <2> HIDE DEF c, u
  <2> QED BY <1>5, <1>6, <2>1, <2>2
<1> QED BY <1>7, <1>8

\* h is f, with one more at p when that is in S.
Raised(h, f, S, p) == \A y \in S : h[y] = f[y] + (IF y = p THEN 1 ELSE 0)

LEMMA SumAdds ==
  ASSUME NEW S, IsFiniteSet(S), NEW f \in [S -> Int], NEW p,
         NEW h \in [S -> Int], Raised(h, f, S, p)
  PROVE  /\ SumFunction(f) \in Int
         /\ SumFunction(h) = SumFunction(f) + (IF p \in S THEN 1 ELSE 0)
<1>1. SumFunction(f) \in Int
  <2>1. PICK g : SumFunction(f) = g[S] /\ Sums(g, S, f)
    BY SumUnfolds
  <2> QED BY <2>1 DEF Sums
<1>2. CASE p \in S
  <2>1. h[p] = f[p] + 1
    BY <1>2 DEF Raised
  <2>2. \A y \in S \ {p} : h[y] = f[y]
    <3> TAKE y \in S \ {p}
    <3>1. f[y] \in Int /\ h[y] = f[y] + 0
      BY DEF Raised
    <3> QED BY <3>1
  <2>3. SumFunction(h) = SumFunction(f) + 1
    BY <1>2, <2>1, <2>2, SumOneMore
  <2> QED BY <1>1, <1>2, <2>3
<1>3. CASE p \notin S
  <2>1. \A y \in S : h[y] = f[y]
    <3> TAKE y \in S
    <3>1. f[y] \in Int /\ h[y] = f[y] + 0
      BY <1>3 DEF Raised
    <3> QED BY <3>1
  <2>2. h = f
    BY <2>1
  <2> QED BY <1>1, <1>3, <2>2
<1> QED BY <1>1, <1>2, <1>3

-----------------------------------------------------------------------------
(* Sizes of shapes                                                         *)

\* g has the product of f over each subset of S, and h that in size_t.
Products(g, S, f) ==
  /\ \A s \in SUBSET S : g[s] \in Nat
  /\ g[{}] = 1
  /\ \A s \in SUBSET S :
       s # {} => Chosen(s) \in s /\ g[s] = f[Chosen(s)] * g[s \ {Chosen(s)}]

Wrapped(h, S, f) ==
  /\ \A s \in SUBSET S : h[s] \in Int
  /\ h[{}] = 1
  /\ \A s \in SUBSET S :
       s # {} => Chosen(s) \in s /\ h[s] = (h[s \ {Chosen(s)}] * f[Chosen(s)]) % 2^Width

LEMMA CountUnfolds ==
  ASSUME NEW f \in Seq(Nat)
  PROVE  \E g : Count(f) = g[DOMAIN f] /\ Products(g, DOMAIN f, f)
<1> DEFINE S == DOMAIN f
           choice == [s \in SUBSET S |-> Chosen(s)]
           step == [s \in SUBSET S |-> [n \in Nat |-> IF s = {} THEN n ELSE f[Chosen(s)] * n]]
           Iter(h) == h = [s \in SUBSET S |-> IF s = {} THEN 1 ELSE f[Chosen(s)] * h[s \ {Chosen(s)}]]
           iter == CHOOSE h : Iter(h)
<1>1. \A s \in SUBSET S : s # {} => Chosen(s) \in s /\ choice[s] = Chosen(s)
  BY DEF Chosen
<1>2. IsFiniteSet(S) /\ \A i \in S : f[i] \in Nat
  <2>1. S = 1..Len(f) /\ Len(f) \in Int /\ 1 \in Int
    OBVIOUS
  <2> QED BY <2>1, FS_Interval
<1>3. step \in [SUBSET S -> [Nat -> Nat]]
  <2>1. ASSUME NEW s \in SUBSET S, NEW n \in Nat
        PROVE  (IF s = {} THEN n ELSE f[Chosen(s)] * n) \in Nat
    <3>1. \A a, b \in Nat : a * b \in Nat
      OBVIOUS
    <3>2. s # {} => f[Chosen(s)] \in Nat
      BY <1>1, <1>2
    <3> QED BY <3>1, <3>2
  <2> QED BY <2>1
<1>4. PICK g \in [SUBSET S -> Nat] : Computes(g, S, 1, choice, step)
  <2>1. \A s \in SUBSET S : s # {} => choice[s] \in s
    BY <1>1
  <2>2. 1 \in Nat
    OBVIOUS
  <2> HIDE DEF choice, step, S
  <2> QED BY <1>2, <1>3, <2>1, <2>2, SomeComputes
<1>5. \A s \in SUBSET S :
        g[s] = IF s = {} THEN 1 ELSE f[Chosen(s)] * g[s \ {Chosen(s)}]
  <2> TAKE s \in SUBSET S
  <2>1. g[s] = IF s = {} THEN 1 ELSE step[s][g[s \ {choice[s]}]]
    BY <1>4 DEF Computes
  <2>2. CASE s # {}
    <3>1. g[s \ {Chosen(s)}] \in Nat
      OBVIOUS
    <3>2. step[s] = [n \in Nat |-> f[Chosen(s)] * n]
      BY <2>2
    <3> QED BY <1>1, <2>1, <2>2, <3>1, <3>2
  <2> QED BY <2>1, <2>2
<1>6. Iter(g)
  BY <1>5
<1>7. Iter(iter)
  BY <1>6
<1>8. \A s \in SUBSET S :
        iter[s] = IF s = {} THEN 1 ELSE f[Chosen(s)] * iter[s \ {Chosen(s)}]
  BY <1>7
<1>9. Count(f) = iter[S]
  BY DEF Count, FoldSeq, FoldFunction, FoldFunctionOnSet, MapThenFoldSet, Chosen
<1>10. \A s \in SUBSET S : iter[s] = g[s]
  <2> DEFINE T == {s \in SUBSET S : iter[s] # g[s]}
  <2> HIDE DEF iter
  <2> SUFFICES ASSUME T # {} PROVE FALSE
    OBVIOUS
  <2>1. PICK s \in T : \A y \in T : y \subseteq s => y = s
    <3>1. T \subseteq SUBSET S
      OBVIOUS
    <3> HIDE DEF T, S
    <3> QED BY <1>2, <3>1, SmallestSet
  <2>2. s # {}
    BY <1>5, <1>8, <2>1
  <2>3. iter[s \ {Chosen(s)}] = g[s \ {Chosen(s)}]
    BY <1>1, <2>1, <2>2
  <2> QED BY <1>5, <1>8, <2>1, <2>2, <2>3
<1>11. \A s \in SUBSET S : iter[s] \in Nat
  BY <1>4, <1>10
<1> HIDE DEF iter
<1>12. Products(iter, S, f)
  BY <1>1, <1>8, <1>11 DEF Products
<1> QED BY <1>9, <1>12

LEMMA SizeUnfolds ==
  ASSUME NEW f \in Seq(Nat)
  PROVE  \E h : ExpectedSize(f) = h[DOMAIN f] /\ Wrapped(h, DOMAIN f, f)
<1> DEFINE S == DOMAIN f
           choice == [s \in SUBSET S |-> Chosen(s)]
           step == [s \in SUBSET S |->
                      [n \in Int |-> IF s = {} THEN n ELSE (n * f[Chosen(s)]) % 2^Width]]
           Iter(h) == h = [s \in SUBSET S |->
                             IF s = {} THEN 1 ELSE (h[s \ {Chosen(s)}] * f[Chosen(s)]) % 2^Width]
           iter == CHOOSE h : Iter(h)
<1>1. \A s \in SUBSET S : s # {} => Chosen(s) \in s /\ choice[s] = Chosen(s)
  BY DEF Chosen
<1>2. IsFiniteSet(S) /\ \A i \in S : f[i] \in Nat
  <2>1. S = 1..Len(f) /\ Len(f) \in Int /\ 1 \in Int
    OBVIOUS
  <2> QED BY <2>1, FS_Interval
<1>3. step \in [SUBSET S -> [Int -> Int]]
  <2>1. ASSUME NEW s \in SUBSET S, NEW n \in Int
        PROVE  (IF s = {} THEN n ELSE (n * f[Chosen(s)]) % 2^Width) \in Int
    <3>1. \A a \in Int : a % 2^Width \in Int
      BY WidthAssumption
    <3>2. \A a \in Int, b \in Nat : a * b \in Int
      OBVIOUS
    <3>3. s # {} => f[Chosen(s)] \in Nat
      BY <1>1, <1>2
    <3> QED BY <3>1, <3>2, <3>3
  <2> QED BY <2>1
<1>4. PICK g \in [SUBSET S -> Int] : Computes(g, S, 1, choice, step)
  <2>1. \A s \in SUBSET S : s # {} => choice[s] \in s
    BY <1>1
  <2>2. 1 \in Int
    OBVIOUS
  <2> HIDE DEF choice, step, S
  <2> QED BY <1>2, <1>3, <2>1, <2>2, SomeComputes
<1>5. \A s \in SUBSET S :
        g[s] = IF s = {} THEN 1 ELSE (g[s \ {Chosen(s)}] * f[Chosen(s)]) % 2^Width
  <2> TAKE s \in SUBSET S
  <2>1. g[s] = IF s = {} THEN 1 ELSE step[s][g[s \ {choice[s]}]]
    BY <1>4 DEF Computes
  <2>2. CASE s # {}
    <3>1. g[s \ {Chosen(s)}] \in Int
      OBVIOUS
    <3>2. step[s] = [n \in Int |-> (n * f[Chosen(s)]) % 2^Width]
      BY <2>2
    <3> QED BY <1>1, <2>1, <2>2, <3>1, <3>2
  <2> QED BY <2>1, <2>2
<1>6. Iter(g)
  BY <1>5
<1>7. Iter(iter)
  BY <1>6
<1>8. \A s \in SUBSET S :
        iter[s] = IF s = {} THEN 1 ELSE (iter[s \ {Chosen(s)}] * f[Chosen(s)]) % 2^Width
  BY <1>7
<1>9. ExpectedSize(f) = iter[S]
  BY DEF ExpectedSize, FoldSeq, FoldFunction, FoldFunctionOnSet, MapThenFoldSet, Chosen
<1>10. \A s \in SUBSET S : iter[s] = g[s]
  <2> DEFINE T == {s \in SUBSET S : iter[s] # g[s]}
  <2> HIDE DEF iter
  <2> SUFFICES ASSUME T # {} PROVE FALSE
    OBVIOUS
  <2>1. PICK s \in T : \A y \in T : y \subseteq s => y = s
    <3>1. T \subseteq SUBSET S
      OBVIOUS
    <3> HIDE DEF T, S
    <3> QED BY <1>2, <3>1, SmallestSet
  <2>2. s # {}
    BY <1>5, <1>8, <2>1
  <2>3. iter[s \ {Chosen(s)}] = g[s \ {Chosen(s)}]
    BY <1>1, <2>1, <2>2
  <2> QED BY <1>5, <1>8, <2>1, <2>2, <2>3
<1>11. \A s \in SUBSET S : iter[s] \in Int
  BY <1>4, <1>10
<1> HIDE DEF iter
<1>12. Wrapped(iter, S, f)
  BY <1>1, <1>8, <1>11 DEF Wrapped
<1> QED BY <1>9, <1>12

\* A product that size_t can hold is computed in it.
LEMMA SizeIsCount ==
  ASSUME NEW f \in Seq(Nat)
  PROVE  /\ Count(f) \in Nat
         /\ Count(f) < 2^Width => ExpectedSize(f) = Count(f)
<1> DEFINE S == DOMAIN f
           M == 2^Width
<1>1. PICK g : Count(f) = g[S] /\ Products(g, S, f)
  BY CountUnfolds
<1>2. PICK h : ExpectedSize(f) = h[S] /\ Wrapped(h, S, f)
  BY SizeUnfolds
<1>3. IsFiniteSet(S) /\ \A i \in S : f[i] \in Nat
  <2>1. S = 1..Len(f) /\ Len(f) \in Int /\ 1 \in Int
    OBVIOUS
  <2> QED BY <2>1, FS_Interval
<1>4. Count(f) \in Nat
  BY <1>1 DEF Products
<1>5. M \in Nat \ {0}
  BY WidthAssumption
<1> DEFINE T == {s \in SUBSET S : g[s] < M /\ h[s] # g[s]}
<1> HIDE DEF M
<1> SUFFICES ASSUME T # {} PROVE FALSE
  BY <1>1, <1>2, <1>4 DEF M
<1>6. PICK s \in T : \A y \in T : y \subseteq s => y = s
  <2>1. T \subseteq SUBSET S
    OBVIOUS
  <2> HIDE DEF T, S
  <2> QED BY <1>3, <2>1, SmallestSet
<1>7. s # {}
  BY <1>1, <1>2, <1>6 DEF Products, Wrapped
<1> DEFINE c == Chosen(s)
           u == s \ {c}
<1>8. /\ c \in s /\ g[s] = f[c] * g[u] /\ h[s] = (h[u] * f[c]) % M
      /\ s \in SUBSET S /\ g[s] < M /\ h[s] # g[s]
  BY <1>1, <1>2, <1>6, <1>7 DEF Products, Wrapped, M
<1>9. u \in SUBSET S /\ h[u] \in Int /\ g[u] \in Nat /\ g[s] \in Nat /\ f[c] \in Nat
  BY <1>1, <1>2, <1>3, <1>8 DEF Products, Wrapped
<1>10. u \subseteq s /\ u # s
  BY <1>8
<1>11. CASE f[c] = 0
  <2>1. g[s] = 0
    BY <1>8, <1>9, <1>11
  <2>2. h[s] = 0
    <3>1. h[u] * f[c] = 0
      BY <1>9, <1>11
    <3>2. 0 % M = 0
      BY <1>5
    <3> QED BY <1>8, <3>1, <3>2
  <2> QED BY <1>8, <2>1, <2>2
<1>12. CASE f[c] # 0
  <2>1. g[u] < M
    <3>1. \A a, b \in Nat : b # 0 => b * a >= a
      OBVIOUS
    <3>2. f[c] * g[u] >= g[u]
      BY <1>9, <1>12, <3>1
    <3> QED BY <1>5, <1>8, <1>9, <3>2
  <2>2. h[u] = g[u]
    BY <1>6, <1>9, <1>10, <2>1
  <2>3. h[u] * f[c] = g[s]
    BY <1>8, <1>9, <2>2
  <2>4. \A n \in Nat : n < M => n % M = n
    BY <1>5
  <2>5. h[s] = g[s] % M
    BY <1>8, <2>3
  <2> QED BY <1>8, <1>9, <2>4, <2>5
<1> QED BY <1>11, <1>12

-----------------------------------------------------------------------------
(* Elements and bytes                                                      *)

\* The elements of a type, as Buffers hold them.
Held(type) == IF type = "int4" THEN Signed(8) ELSE Given[type]

LEMMA SignedIs ==
  \A half \in Nat : \A x \in Int : x \in Signed(half) <=> -half <= x /\ x < half
BY DEF Signed

LEMMA SignedInt == \A half \in Nat : Signed(half) \subseteq Int
BY DEF Signed

LEMMA Int4Is ==
  ASSUME NEW type, type = "int4"
  PROVE  Held(type) = Signed(8) /\ Bits[type] = 4
BY DEF Held, Bits

LEMMA Int8Is ==
  ASSUME NEW type, type = "int8"
  PROVE  Held(type) = Signed(128) /\ Bits[type] = 8
BY DEF Held, Given, Bits

LEMMA Int16Is ==
  ASSUME NEW type, type = "int16"
  PROVE  Held(type) = Signed(32768) /\ Bits[type] = 16
BY DEF Held, Given, Bits

LEMMA TypeIs ==
  ASSUME NEW type \in Type
  PROVE  type = "int4" \/ type = "int8" \/ type = "int16"
BY DEF Type, Bits

LEMMA ElementsHeld ==
  ASSUME NEW q \in Requests
  PROVE  /\ Elements(q.type, q.data) \in Seq(Held(q.type))
         /\ Len(Elements(q.type, q.data)) = Len(q.data)
<1> DEFINE d == q.data
           t == q.type
<1>1. t \in Type /\ d \in Seq(Given[t])
  BY RequestsAssumption
<1> HIDE DEF d, t
<1>2. CASE t = "int4"
  <2>1. d \in Seq(Int)
    <3>1. Given[t] = Signed(128)
      BY <1>2 DEF Given
    <3>2. Signed(128) \subseteq Int
      BY SignedInt
    <3> QED BY <1>1, <3>1, <3>2
  <2>2. Elements(t, d) = [i \in 1..Len(d) |-> Clamp(d[i])]
    BY <1>2, <2>1 DEF Elements
  <2>3. \A i \in 1..Len(d) : Clamp(d[i]) \in Signed(8)
    <3> TAKE i \in 1..Len(d)
    <3>1. d[i] \in Int
      BY <2>1
    <3> QED BY <3>1 DEF Clamp, Signed
  <2>4. Held(t) = Signed(8) /\ Len(d) \in Nat
    BY <1>2, <2>1, Int4Is
  <2> QED BY <2>2, <2>3, <2>4 DEF d, t
<1>3. CASE t # "int4"
  <2>1. Elements(t, d) = d /\ Held(t) = Given[t]
    BY <1>3 DEF Elements, Held
  <2> QED BY <1>1, <2>1 DEF d, t
<1> QED BY <1>2, <1>3

LEMMA HeldInt ==
  ASSUME NEW type \in Type
  PROVE  Held(type) \subseteq Int
BY SignedInt, TypeIs, Int4Is, Int8Is, Int16Is

\* The places of the bytes of an element.
LEMMA Halves ==
  ASSUME NEW n \in Nat, NEW i \in 1..n
  PROVE  LET k == (i + 1) \div 2
         IN  /\ k \in 1..(n + 1) \div 2
             /\ i % 2 = 1 => 2 * k - 1 = i
             /\ i % 2 # 1 => 2 * k = i
OBVIOUS

LEMMA HalfOf ==
  ASSUME NEW n \in Nat, NEW i \in 1..n
  PROVE  /\ 2 * i \in 1..2 * n /\ 2 * i - 1 \in 1..2 * n
         /\ (2 * i + 1) \div 2 = i /\ (2 * i - 1 + 1) \div 2 = i
         /\ (2 * i) % 2 = 0 /\ (2 * i - 1) % 2 = 1
OBVIOUS

LEMMA NibbleRange ==
  ASSUME NEW e \in Seq(Int), NEW i \in Nat
  PROVE  Nibble(e, i) \in 0..15
<1>1. CASE i \in DOMAIN e
  <2>1. e[i] \in Int /\ Nibble(e, i) = e[i] % 16
    BY <1>1 DEF Nibble
  <2>2. \A x \in Int : x % 16 \in 0..15
    OBVIOUS
  <2> QED BY <2>1, <2>2
<1>2. CASE i \notin DOMAIN e
  <2>1. Nibble(e, i) = 0
    BY <1>2 DEF Nibble
  <2> QED BY <2>1
<1> QED BY <1>1, <1>2

\* A nibble, a byte and two bytes are the value they were made of.
LEMMA Sign4 == \A x \in Signed(8) : SignExtended(x % 16, 16) = x
BY DEF SignExtended, Signed

LEMMA Sign8 == \A x \in Signed(128) : SignExtended(x % 256, 256) = x
BY DEF SignExtended, Signed

LEMMA Sign16 ==
  ASSUME NEW x \in Signed(32768)
  PROVE  SignExtended(((x % 65536) % 256) + 256 * ((x % 65536) \div 256), 65536) = x
<1>1. x \in Int /\ -32768 <= x /\ x < 32768
  BY SignedIs, SignedInt
<1>2. \A y \in Int : /\ y % 65536 \in Int
                     /\ (y % 256) + 256 * (y \div 256) = y
                     /\ 0 <= y /\ y < 65536 => y % 65536 = y
                     /\ -65536 <= y /\ y < 0 => y % 65536 = y + 65536
                     /\ 0 <= y /\ y < 32768 => SignExtended(y, 65536) = y
                     /\ -32768 <= y /\ y < 0 => SignExtended(y + 65536, 65536) = y
  BY DEF SignExtended
<1>3. ((x % 65536) % 256) + 256 * ((x % 65536) \div 256) = x % 65536
  BY <1>1, <1>2
<1>4. CASE 0 <= x
  <2>1. x % 65536 = x /\ SignExtended(x, 65536) = x
    BY <1>1, <1>2, <1>4
  <2> QED BY <1>3, <2>1
<1>5. CASE x < 0
  <2>1. x % 65536 = x + 65536 /\ SignExtended(x + 65536, 65536) = x
    BY <1>1, <1>2, <1>5
  <2> QED BY <1>3, <2>1
<1> QED BY <1>1, <1>4, <1>5

\* What is left of a number fits a byte or half of one.
LEMMA Remainders == \A x \in Int :
  /\ x % 256 \in Byte
  /\ (x % 65536) % 256 \in Byte /\ (x % 65536) \div 256 \in Byte
BY DEF Byte

LEMMA Nibbles ==
  \A l, h \in 0..15 : l + 16 * h \in Byte /\ (l + 16 * h) % 16 = l /\ (l + 16 * h) \div 16 = h
BY DEF Byte

\* The bytes that n elements of 4, 8 and 16 bits take.
LEMMA Lengths == \A n \in Nat :
  /\ (n + 1) \div 2 \in Nat /\ (n * 4 + 7) \div 8 = (n + 1) \div 2
  /\ (n * 8 + 7) \div 8 = n
  /\ 2 * n \in Nat /\ (n * 16 + 7) \div 8 = 2 * n
OBVIOUS

LEMMA Bytes ==
  ASSUME NEW type \in Type, NEW e \in Seq(Int)
  PROVE  /\ Encode(type, e) \in Seq(Byte)
         /\ Len(Encode(type, e)) = (Len(e) * Bits[type] + 7) \div 8
<1> DEFINE n == Len(e)
<1>1. n \in Nat /\ DOMAIN e = 1..n /\ \A i \in 1..n : e[i] \in Int
  OBVIOUS
<1> HIDE DEF n
<1>2. CASE type = "int4"
  <2> DEFINE m == (n + 1) \div 2
  <2>1. Encode(type, e) = [k \in 1..m |-> Nibble(e, 2 * k - 1) + 16 * Nibble(e, 2 * k)]
    BY <1>2 DEF Encode, Pack, n
  <2>2. ASSUME NEW k \in 1..m PROVE Nibble(e, 2 * k - 1) + 16 * Nibble(e, 2 * k) \in Byte
    <3>1. 2 * k - 1 \in Nat /\ 2 * k \in Nat
      OBVIOUS
    <3>2. Nibble(e, 2 * k - 1) \in 0..15 /\ Nibble(e, 2 * k) \in 0..15
      BY <3>1, NibbleRange
    <3> QED BY <3>2, Nibbles
  <2>3. m \in Nat /\ (n * 4 + 7) \div 8 = m
    BY <1>1, Lengths
  <2> HIDE DEF m
  <2>4. Encode(type, e) \in Seq(Byte) /\ Len(Encode(type, e)) = m
    BY <2>1, <2>2, <2>3
  <2>5. Bits[type] = 4
    BY <1>2, Int4Is
  <2> QED BY <2>3, <2>4, <2>5 DEF n
<1>3. CASE type = "int8"
  <2>1. Encode(type, e) = [i \in 1..n |-> e[i] % 256]
    BY <1>1, <1>3 DEF Encode
  <2>2. \A i \in 1..n : e[i] % 256 \in Byte
    BY <1>1, Remainders
  <2>3. Encode(type, e) \in Seq(Byte) /\ Len(Encode(type, e)) = n
    BY <1>1, <2>1, <2>2
  <2>4. Bits[type] = 8 /\ (n * 8 + 7) \div 8 = n
    BY <1>1, <1>3, Int8Is, Lengths
  <2> QED BY <2>3, <2>4 DEF n
<1>4. CASE type = "int16"
  <2> DEFINE half(i) == LET element == e[(i + 1) \div 2] % 65536
                        IN  IF i % 2 = 1 THEN element % 256 ELSE element \div 256
             m == 2 * n
  <2>1. Encode(type, e) = [i \in 1..m |-> half(i)]
    BY <1>4 DEF Encode, n
  <2>2. ASSUME NEW i \in 1..m PROVE half(i) \in Byte
    <3>1. (i + 1) \div 2 \in 1..n
      BY <1>1
    <3>2. e[(i + 1) \div 2] \in Int
      BY <1>1, <3>1
    <3>3. (e[(i + 1) \div 2] % 65536) % 256 \in Byte /\ (e[(i + 1) \div 2] % 65536) \div 256 \in Byte
      BY <3>2, Remainders
    <3> QED BY <3>3
  <2>3. m \in Nat /\ (n * 16 + 7) \div 8 = m
    BY <1>1, Lengths
  <2> HIDE DEF half, m
  <2>4. Encode(type, e) \in Seq(Byte) /\ Len(Encode(type, e)) = m
    BY <2>1, <2>2, <2>3
  <2>5. Bits[type] = 16
    BY <1>4, Int16Is
  <2> QED BY <2>3, <2>4, <2>5 DEF n
<1> QED BY <1>2, <1>3, <1>4, TypeIs

\* Whatever follows the bytes that elements were written as, they are read back.
LEMMA RoundTrip ==
  ASSUME NEW type \in Type, NEW e \in Seq(Held(type)), NEW bytes,
         \A i \in 1..Len(Encode(type, e)) : bytes[i] = Encode(type, e)[i]
  PROVE  Decode(type, bytes, Len(e)) = e
<1> DEFINE n == Len(e)
<1>1. n \in Nat /\ e = [i \in 1..n |-> e[i]] /\ \A i \in 1..n : e[i] \in Held(type)
  OBVIOUS
<1>2. e \in Seq(Int) /\ DOMAIN e = 1..n
  <2>1. \A i \in 1..n : e[i] \in Int
    BY <1>1, HeldInt
  <2> QED BY <1>1, <2>1
<1>3. Len(Encode(type, e)) = (n * Bits[type] + 7) \div 8
  BY <1>2, Bytes
<1> HIDE DEF n
<1>4. CASE type = "int4"
  <2> DEFINE m == (n + 1) \div 2
  <2>1. Len(Encode(type, e)) = m
    <3>1. Bits[type] = 4
      BY <1>4, Int4Is
    <3> QED BY <1>1, <1>3, <3>1, Lengths
  <2>2. ASSUME NEW k \in 1..m PROVE bytes[k] = Nibble(e, 2 * k - 1) + 16 * Nibble(e, 2 * k)
    <3>1. Encode(type, e) = [j \in 1..m |-> Nibble(e, 2 * j - 1) + 16 * Nibble(e, 2 * j)]
      BY <1>4 DEF Encode, Pack, n
    <3>2. Encode(type, e)[k] = Nibble(e, 2 * k - 1) + 16 * Nibble(e, 2 * k)
      BY <3>1
    <3> HIDE DEF m
    <3> QED BY <2>1, <3>2
  <2>3. ASSUME NEW i \in 1..n
        PROVE  SignExtended(IF i % 2 = 1 THEN bytes[(i + 1) \div 2] % 16
                            ELSE bytes[(i + 1) \div 2] \div 16, 16) = e[i]
    <3> DEFINE k == (i + 1) \div 2
               lo == Nibble(e, 2 * k - 1)
               hi == Nibble(e, 2 * k)
    <3>1. /\ k \in 1..m
          /\ i % 2 = 1 => 2 * k - 1 = i
          /\ i % 2 # 1 => 2 * k = i
      BY <1>1, Halves
    <3>2. bytes[k] = lo + 16 * hi
      BY <2>2, <3>1
    <3>3. 2 * k - 1 \in Nat /\ 2 * k \in Nat
      BY <3>1
    <3>4. lo \in 0..15 /\ hi \in 0..15
      BY <1>2, <3>3, NibbleRange
    <3>5. Held(type) = Signed(8)
      BY <1>4, Int4Is
    <3>6. e[i] \in Signed(8) /\ Nibble(e, i) = e[i] % 16
      BY <1>1, <1>2, <3>5 DEF Nibble
    <3>7. SignExtended(Nibble(e, i), 16) = e[i]
      BY <3>6, Sign4
    <3>8. (i % 2 = 1 => lo = Nibble(e, i)) /\ (i % 2 # 1 => hi = Nibble(e, i))
      BY <3>1
    <3> HIDE DEF k, lo, hi
    <3>9. bytes[k] % 16 = lo /\ bytes[k] \div 16 = hi
      BY <3>2, <3>4, Nibbles
    <3>10. (IF i % 2 = 1 THEN bytes[k] % 16 ELSE bytes[k] \div 16) = Nibble(e, i)
      BY <3>8, <3>9
    <3> QED BY <3>7, <3>10 DEF k
  <2>4. Decode(type, bytes, n)
          = [i \in 1..n |-> SignExtended(IF i % 2 = 1 THEN bytes[(i + 1) \div 2] % 16
                                         ELSE bytes[(i + 1) \div 2] \div 16, 16)]
    BY <1>4 DEF Decode, Unpack
  <2> QED BY <1>1, <2>3, <2>4 DEF n
<1>5. CASE type = "int8"
  <2>1. Len(Encode(type, e)) = n
    <3>1. Bits[type] = 8
      BY <1>5, Int8Is
    <3> QED BY <1>1, <1>3, <3>1, Lengths
  <2>2. Encode(type, e) = [i \in 1..n |-> e[i] % 256]
    BY <1>2, <1>5 DEF Encode
  <2>3. Held(type) = Signed(128)
    BY <1>5, Int8Is
  <2>4. \A i \in 1..n : bytes[i] = e[i] % 256 /\ e[i] \in Signed(128)
    BY <1>1, <2>1, <2>2, <2>3
  <2>5. \A i \in 1..n : SignExtended(bytes[i], 256) = e[i]
    BY <2>4, Sign8
  <2>6. Decode(type, bytes, n) = [i \in 1..n |-> SignExtended(bytes[i], 256)]
    BY <1>5 DEF Decode
  <2> QED BY <1>1, <2>5, <2>6 DEF n
<1>6. CASE type = "int16"
  <2> DEFINE half(i) == LET element == e[(i + 1) \div 2] % 65536
                        IN  IF i % 2 = 1 THEN element % 256 ELSE element \div 256
             m == 2 * n
  <2>1. Len(Encode(type, e)) = m
    <3>1. Bits[type] = 16
      BY <1>6, Int16Is
    <3> QED BY <1>1, <1>3, <3>1, Lengths
  <2>2. Encode(type, e) = [i \in 1..m |-> half(i)]
    BY <1>6 DEF Encode, n
  <2>3. ASSUME NEW i \in 1..m PROVE bytes[i] = half(i)
    <3>1. Encode(type, e)[i] = half(i)
      BY <2>2
    <3> HIDE DEF m, half
    <3> QED BY <2>1, <3>1
  <2>4. Held(type) = Signed(32768)
    BY <1>6, Int16Is
  <2>5. ASSUME NEW i \in 1..n
        PROVE  SignExtended(bytes[2 * i - 1] + 256 * bytes[2 * i], 65536) = e[i]
    <3>1. /\ 2 * i \in 1..m /\ 2 * i - 1 \in 1..m
          /\ (2 * i + 1) \div 2 = i /\ (2 * i - 1 + 1) \div 2 = i
          /\ (2 * i) % 2 = 0 /\ (2 * i - 1) % 2 = 1
      BY <1>1, HalfOf
    <3>2. bytes[2 * i - 1] = half(2 * i - 1) /\ bytes[2 * i] = half(2 * i)
      BY <2>3, <3>1
    <3>3. /\ half(2 * i - 1) = (e[i] % 65536) % 256
          /\ half(2 * i) = (e[i] % 65536) \div 256
      BY <3>1
    <3>4. e[i] \in Signed(32768)
      BY <1>1, <2>4
    <3> HIDE DEF half, m
    <3>5. SignExtended(((e[i] % 65536) % 256) + 256 * ((e[i] % 65536) \div 256), 65536) = e[i]
      BY <3>4, Sign16
    <3> QED BY <3>2, <3>3, <3>5
  <2>6. Decode(type, bytes, n)
          = [i \in 1..n |-> SignExtended(bytes[2 * i - 1] + 256 * bytes[2 * i], 65536)]
    BY <1>6 DEF Decode
  <2> QED BY <1>1, <2>5, <2>6 DEF n
<1> QED BY <1>4, <1>5, <1>6, TypeIs DEF n

-----------------------------------------------------------------------------
(* References                                                              *)

\* What HeldIsAlive says of the counts in w and st.
Counted(w, st) ==
  /\ \A v \in View : w[v].refs >= ViewHolders(v)
  /\ \A b \in Storage :
       st[b].refs >= Cardinality(Views(w, b)) + Cardinality(At(list, "storage", b))

LEMMA AliveIsCounted == HeldIsAlive <=> Counted(view, storage)
BY DEF HeldIsAlive, Counted, StorageHolders, Views, Pushes, At

\* The references to a view or a storage that nobody has.
ViewExcess(v)    == view[v].refs - ViewHolders(v)
StorageExcess(b) == storage[b].refs - StorageHolders(b)

\* A step leaves them as they are, but for one more of p and one more of q.
Adds(p, q) ==
  /\ \A v \in View : ViewExcess(v)' = ViewExcess(v) + (IF v = p THEN 1 ELSE 0)
  /\ \A b \in Storage : StorageExcess(b)' = StorageExcess(b) + (IF b = q THEN 1 ELSE 0)

LEMMA StorageExcessNow ==
  ASSUME NEW b
  PROVE  StorageExcess(b)
           = storage[b].refs - (Cardinality(Views(view, b)) + Cardinality(At(list, "storage", b)))
BY DEF StorageExcess, StorageHolders, Views, Pushes, At

LEMMA StorageExcessAfter ==
  ASSUME NEW b
  PROVE  StorageExcess(b)'
           = storage'[b].refs - (Cardinality(Views(view', b)) + Cardinality(At(list', "storage", b)))
BY DEF StorageExcess, StorageHolders, Views, Pushes, At

LEMMA PushesAt ==
  ASSUME Shaped, NEW kind, NEW id
  PROVE  /\ Pushes(kind, id) = Cardinality(At(list, kind, id))
         /\ Cardinality(At(list, kind, id)) \in Nat
<1>1. Pushes(kind, id) = Cardinality(At(list, kind, id))
  BY DEF Pushes, At
<1>2. list \in Seq(Entry)
  BY DEF Shaped
<1> QED BY <1>1, <1>2, AtFinite

LEMMA HoldersOfView ==
  ASSUME Shaped, NEW v \in View
  PROVE  /\ ViewHolders(v) = Cardinality(Holders(holds, v)) + (IF lent[v] THEN 1 ELSE 0)
                                + Cardinality(At(list, "view", v))
         /\ ViewHolders(v) \in Nat
<1>1. Cardinality(Holders(holds, v)) \in Nat
  BY HoldersFinite
<1>2. Cardinality(At(list, "view", v)) \in Nat
  BY AtFinite DEF Shaped
<1>3. ViewHolders(v) = Cardinality(Holders(holds, v)) + (IF lent[v] THEN 1 ELSE 0)
                          + Cardinality(At(list, "view", v))
  BY DEF ViewHolders, Pushes, Holders, At
<1> QED BY <1>1, <1>2, <1>3

\* A record with another count is the same otherwise.
LEMMA ViewExcept ==
  ASSUME NEW r, DOMAIN r = DOMAIN NoView, NEW n
  PROVE  LET q == [r EXCEPT !.refs = n]
         IN  /\ q.refs = n /\ q.storage = r.storage /\ DOMAIN q = DOMAIN NoView
             /\ q.type = r.type /\ q.shape = r.shape
BY DEF NoView

LEMMA StorageExcept ==
  ASSUME NEW r, DOMAIN r = DOMAIN NoStorage, NEW n
  PROVE  LET q == [r EXCEPT !.refs = n]
         IN  /\ q.refs = n /\ DOMAIN q = DOMAIN NoStorage
             /\ q.bytes = r.bytes /\ q.given = r.given
BY DEF NoStorage

\* Whoever holds a view is counted, and so is a view by its storage.
LEMMA HeldHasReference ==
  ASSUME Shaped, HeldIsAlive, NEW v \in View,
         lent[v] \/ \E s \in Slot : holds[s] = v
  PROVE  /\ ViewHolders(v) > 0 /\ view[v].refs > 0 /\ view[v].storage \in Storage
         /\ storage[view[v].storage].refs > 0
<1>1. Cardinality(Holders(holds, v)) \in Nat /\ Cardinality(At(list, "view", v)) \in Nat
  BY HoldersFinite, AtFinite DEF Shaped
<1>2. ViewHolders(v) > 0
  <2>1. CASE lent[v]
    <3>1. ViewHolders(v) = Cardinality(Holders(holds, v)) + 1 + Cardinality(At(list, "view", v))
      BY <2>1, HoldersOfView
    <3> QED BY <1>1, <3>1
  <2>2. CASE \E s \in Slot : holds[s] = v
    <3>1. Holders(holds, v) # {}
      BY <2>2 DEF Holders
    <3>2. Cardinality(Holders(holds, v)) # 0
      BY <3>1, HoldersFinite, FS_EmptySet
    <3> QED BY <1>1, <3>2, HoldersOfView
  <2> QED BY <2>1, <2>2
<1>3. view[v].refs > 0 /\ view[v].storage \in Storage
  BY <1>2, HoldersOfView DEF HeldIsAlive, Shaped, Memory
<1> DEFINE b == view[v].storage
<1>4. v \in Views(view, b)
  BY DEF Views
<1>5. Cardinality(Views(view, b)) \in Nat \ {0}
  BY <1>4, ViewsFinite, FS_EmptySet
<1>6. storage[b].refs >= Cardinality(Views(view, b)) + Cardinality(At(list, "storage", b))
  BY <1>3, AliveIsCounted DEF Counted
<1>7. Cardinality(At(list, "storage", b)) \in Nat /\ storage[b].refs \in Nat
  BY <1>3, AtFinite DEF Shaped, Memory
<1> QED BY <1>2, <1>3, <1>5, <1>6, <1>7

\* A view that somebody let go of is released: it goes with its last holder, and
\* its storage with its last view.
LEMMA ViewReleased ==
  ASSUME Shaped, HeldIsAlive, NEW v \in View, ViewHolders(v) > 0, ReleaseView(v),
         list' = list,
         \A x \in View : ViewHolders(x)' \in Nat
           /\ ViewHolders(x)' = ViewHolders(x) - (IF x = v THEN 1 ELSE 0)
  PROVE  Memory(view, storage)' /\ HeldIsAlive' /\ Adds(None, None)
<1> DEFINE b == view[v].storage
<1>1. /\ view[v].refs \in Nat \ {0} /\ b \in Storage /\ ViewHolders(v) \in Nat
      /\ view[v].refs >= ViewHolders(v)
  BY HoldersOfView DEF HeldIsAlive, Shaped, Memory
<1>2. /\ \A x \in View : x # v => view'[x] = view[x]
      /\ view' = [x \in View |-> view'[x]]
      /\ view'[v] = IF view[v].refs = 1 THEN NoView ELSE [view[v] EXCEPT !.refs = view[v].refs - 1]
  BY DEF ReleaseView, Dropped, Shaped, Memory
<1>3. \A x \in View : view'[x].refs >= ViewHolders(x)'
  <2>1. view'[v].refs = view[v].refs - 1
    <3>1. [view[v] EXCEPT !.refs = view[v].refs - 1].refs = view[v].refs - 1
      BY ViewExcept DEF Shaped, Memory
    <3>2. NoView.refs = 0
      BY DEF NoView
    <3> QED BY <1>1, <1>2, <3>1, <3>2
  <2>2. view'[v].refs >= ViewHolders(v)'
    BY <1>1, <2>1
  <2>3. ASSUME NEW x \in View, x # v PROVE view'[x].refs >= ViewHolders(x)'
    <3>1. ViewHolders(x)' = ViewHolders(x) /\ view[x].refs >= ViewHolders(x)
      BY <2>3, HoldersOfView DEF HeldIsAlive
    <3> QED BY <1>2, <2>3, <3>1
  <2> QED BY <2>2, <2>3
<1>6. \A x \in View : ViewExcess(x)' = ViewExcess(x) + (IF x = None THEN 1 ELSE 0)
  <2> TAKE x \in View
  <2>1. /\ view[x].refs \in Nat /\ ViewHolders(x) \in Nat /\ ViewHolders(x)' \in Nat
        /\ x # None
    BY HoldersOfView, NoneAssumption DEF Shaped, Memory
  <2>2. CASE x = v
    <3>1. view'[v].refs = view[v].refs - 1
      <4>1. [view[v] EXCEPT !.refs = view[v].refs - 1].refs = view[v].refs - 1
        BY ViewExcept DEF Shaped, Memory
      <4>2. NoView.refs = 0
        BY DEF NoView
      <4> QED BY <1>1, <1>2, <4>1, <4>2
    <3> QED BY <2>1, <2>2, <3>1 DEF ViewExcess
  <2>3. CASE x # v
    <3>1. view'[x].refs = view[x].refs /\ ViewHolders(x)' = ViewHolders(x)
      BY <1>2, <2>1, <2>3
    <3> QED BY <2>1, <3>1 DEF ViewExcess
  <2> QED BY <2>2, <2>3
<1>4. CASE view[v].refs = 1
  <2>1. /\ view'[v] = NoView /\ storage' = DropStorage(storage, b)
        /\ view'[v].storage = None /\ b # None /\ None \notin Storage
    BY <1>1, <1>2, <1>4, NoneAssumption DEF ReleaseView, NoView
  <2>2. /\ Views(view', b) = Views(view, b) \ {v} /\ v \in Views(view, b)
        /\ \A c \in Storage \ {b} : Views(view', c) = Views(view, c)
    BY <1>2, <2>1 DEF Views
  <2>3. /\ Cardinality(Views(view', b)) = Cardinality(Views(view, b)) - 1
        /\ Cardinality(Views(view, b)) \in Nat \ {0}
    <3>1. IsFiniteSet(Views(view, b)) /\ Cardinality(Views(view, b)) \in Nat
      BY ViewsFinite
    <3>2. Cardinality(Views(view, b)) # 0
      BY <2>2, <3>1, FS_EmptySet
    <3>3. Cardinality(Views(view, b) \ {v}) = Cardinality(Views(view, b)) - 1
      BY <2>2, <3>1, FS_RemoveElement
    <3> QED BY <2>2, <3>1, <3>2, <3>3
  <2>4. Cardinality(At(list, "storage", b)) \in Nat
    BY AtFinite DEF Shaped
  <2>5. /\ storage[b].refs >= Cardinality(Views(view, b)) + Cardinality(At(list, "storage", b))
        /\ storage[b].refs \in Nat
    BY <1>1, AliveIsCounted DEF Counted, Shaped, Memory
  <2>6. /\ storage'[b] = IF storage[b].refs = 1 THEN NoStorage
                         ELSE [storage[b] EXCEPT !.refs = storage[b].refs - 1]
        /\ \A c \in Storage \ {b} : storage'[c] = storage[c]
        /\ storage' = [c \in Storage |-> storage'[c]]
    BY <1>1, <2>1 DEF DropStorage, Dropped, Shaped, Memory
  <2>7. storage'[b].refs = storage[b].refs - 1 /\ DOMAIN storage'[b] = DOMAIN NoStorage
    <3>1. /\ [storage[b] EXCEPT !.refs = storage[b].refs - 1].refs = storage[b].refs - 1
          /\ DOMAIN [storage[b] EXCEPT !.refs = storage[b].refs - 1] = DOMAIN NoStorage
      BY <1>1, StorageExcept DEF Shaped, Memory
    <3>2. NoStorage.refs = 0
      BY DEF NoStorage
    <3> QED BY <2>3, <2>4, <2>5, <2>6, <3>1, <3>2
  <2>8. \A c \in Storage : storage'[c].refs >=
             Cardinality(Views(view', c)) + Cardinality(At(list, "storage", c))
    <3>1. \A c \in Storage \ {b} : storage[c].refs >=
             Cardinality(Views(view, c)) + Cardinality(At(list, "storage", c))
      BY AliveIsCounted DEF Counted
    <3>2. ASSUME NEW c \in Storage, c # b
          PROVE  storage'[c].refs >= Cardinality(Views(view', c)) + Cardinality(At(list, "storage", c))
      BY <2>2, <2>6, <3>1, <3>2
    <3>3. storage'[b].refs >= Cardinality(Views(view', b)) + Cardinality(At(list, "storage", b))
      BY <2>3, <2>4, <2>5, <2>7
    <3> QED BY <3>2, <3>3
  <2>9. Memory(view, storage)'
    <3>1. NoView.refs = 0 /\ NoView.storage = None
      BY DEF NoView
    <3>2. \A x \in View :
            /\ DOMAIN view'[x] = DOMAIN NoView /\ view'[x].refs \in Nat
            /\ view'[x].storage \in Storage \cup {None}
            /\ view'[x].refs = 0 <=> view'[x].storage = None
      <4>1. ASSUME NEW x \in View, x # v
            PROVE  /\ DOMAIN view'[x] = DOMAIN NoView /\ view'[x].refs \in Nat
                   /\ view'[x].storage \in Storage \cup {None}
                   /\ view'[x].refs = 0 <=> view'[x].storage = None
        BY <1>2, <4>1 DEF Shaped, Memory
      <4>2. /\ DOMAIN view'[v] = DOMAIN NoView /\ view'[v].refs = 0 /\ 0 \in Nat
            /\ view'[v].storage = None
        BY <2>1, <3>1
      <4> QED BY <4>1, <4>2
    <3>3. \A c \in Storage : DOMAIN storage'[c] = DOMAIN NoStorage /\ storage'[c].refs \in Nat
      <4>1. storage'[b].refs \in Nat
        BY <2>3, <2>4, <2>5, <2>7
      <4>2. ASSUME NEW c \in Storage, c # b
            PROVE  DOMAIN storage'[c] = DOMAIN NoStorage /\ storage'[c].refs \in Nat
        BY <2>6, <4>2 DEF Shaped, Memory
      <4> QED BY <2>7, <4>1, <4>2
    <3> QED BY <1>2, <2>6, <3>2, <3>3 DEF Memory, NoView, NoStorage
  <2>10. \A c \in Storage : StorageExcess(c)' = StorageExcess(c) + (IF c = None THEN 1 ELSE 0)
    <3> TAKE c \in Storage
    <3>1. /\ c # None /\ storage[c].refs \in Nat /\ Cardinality(Views(view, c)) \in Nat
          /\ Cardinality(At(list, "storage", c)) \in Nat
      BY NoneAssumption, ViewsFinite, AtFinite DEF Shaped, Memory
    <3>2. CASE c = b
      BY <2>3, <2>7, <3>1, <3>2, StorageExcessNow, StorageExcessAfter
    <3>3. CASE c # b
      <4>1. storage'[c] = storage[c] /\ Views(view', c) = Views(view, c)
        BY <2>2, <2>6, <3>3
      <4> QED BY <3>1, <4>1, StorageExcessNow, StorageExcessAfter
    <3> QED BY <3>2, <3>3
  <2> QED BY <1>3, <1>6, <2>8, <2>9, <2>10
          DEF Adds, HeldIsAlive, StorageHolders, Views, Pushes, At
<1>5. CASE view[v].refs # 1
  <2>1. storage' = storage
    BY <1>5 DEF ReleaseView
  <2>2. /\ view'[v].refs = view[v].refs - 1 /\ view'[v].storage = view[v].storage
        /\ DOMAIN view'[v] = DOMAIN NoView
    BY <1>2, <1>5, ViewExcept DEF Shaped, Memory
  <2>3. \A c \in Storage : Views(view', c) = Views(view, c)
    BY <1>2, <2>2 DEF Views
  <2>4. \A c \in Storage :
          storage'[c].refs >= Cardinality(Views(view', c)) + Cardinality(At(list, "storage", c))
    BY <2>1, <2>3, AliveIsCounted DEF Counted
  <2>5. Memory(view, storage)'
    <3>1. \A x \in View :
            /\ DOMAIN view'[x] = DOMAIN NoView /\ view'[x].refs \in Nat
            /\ view'[x].storage \in Storage \cup {None}
            /\ view'[x].refs = 0 <=> view'[x].storage = None
      <4>1. view[v].refs - 1 \in Nat \ {0}
        BY <1>1, <1>5
      <4> QED BY <1>1, <1>2, <2>2, <4>1, NoneAssumption DEF Shaped, Memory
    <3> QED BY <1>2, <2>1, <3>1 DEF Memory, Shaped, NoView
  <2>6. \A c \in Storage : StorageExcess(c)' = StorageExcess(c) + (IF c = None THEN 1 ELSE 0)
    <3> TAKE c \in Storage
    <3>1. /\ c # None /\ storage[c].refs \in Nat /\ Cardinality(Views(view, c)) \in Nat
          /\ Cardinality(At(list, "storage", c)) \in Nat
      BY NoneAssumption, ViewsFinite, AtFinite DEF Shaped, Memory
    <3> QED BY <2>1, <2>3, <3>1, StorageExcessNow, StorageExcessAfter
  <2> QED BY <1>3, <1>6, <2>4, <2>5, <2>6
          DEF Adds, HeldIsAlive, StorageHolders, Views, Pushes, At
<1> QED BY <1>4, <1>5

\* The list of a call lets go of all its references at once.
LEMMA ListReleased ==
  ASSUME Shaped, NEW vw, NEW st, NEW fn, Memory(vw, st), Counted(vw, st),
         ReleaseList(vw, st, fn), list' = <<>>, UNCHANGED <<holds, lent>>
  PROVE  /\ Memory(view, storage)' /\ HeldIsAlive'
         /\ \A v \in View : ViewExcess(v)' = vw[v].refs - ViewHolders(v)
         /\ \A b \in Storage :
              StorageExcess(b)' = st[b].refs - (Cardinality(Views(vw, b))
                                                  + Cardinality(At(list, "storage", b)))
<1> DEFINE left(v)  == vw[v].refs - Pushes("view", v)
           gone     == {v \in View : vw[v].refs > 0 /\ left(v) = 0}
           ended(b) == {v \in gone : vw[v].storage = b}
           kept(b)  == st[b].refs - Pushes("storage", b) - Cardinality(ended(b))
<1>1. /\ view' = [v \in View |-> IF left(v) = 0 THEN NoView ELSE [vw[v] EXCEPT !.refs = left(v)]]
      /\ storage' = [b \in Storage |-> IF kept(b) = 0 THEN NoStorage
                                       ELSE [st[b] EXCEPT !.refs = kept(b)]]
  BY DEF ReleaseList
<1>2. \A v \in View :
        /\ left(v) \in Nat /\ vw[v].refs \in Nat
        /\ left(v) >= ViewHolders(v)'
        /\ left(v) - ViewHolders(v)' = vw[v].refs - ViewHolders(v)
        /\ ViewHolders(v)' \in Nat
  <2> TAKE v \in View
  <2>1. /\ Cardinality(Holders(holds, v)) \in Nat /\ Cardinality(At(list, "view", v)) \in Nat
        /\ Pushes("view", v) = Cardinality(At(list, "view", v))
    BY HoldersFinite, PushesAt
  <2>2. ViewHolders(v)' = Cardinality(Holders(holds, v)) + (IF lent[v] THEN 1 ELSE 0)
    <3>1. Cardinality({i \in DOMAIN <<>> : <<>>[i].kind = "view" /\ <<>>[i].id = v}) = 0
      <4>1. {i \in DOMAIN <<>> : <<>>[i].kind = "view" /\ <<>>[i].id = v} = {}
        OBVIOUS
      <4> QED BY <4>1, FS_EmptySet
    <3>2. ViewHolders(v)' = Cardinality(Holders(holds, v)) + (IF lent[v] THEN 1 ELSE 0) + 0
      BY <3>1 DEF ViewHolders, Pushes, Holders
    <3> QED BY <2>1, <3>2
  <2>3. vw[v].refs \in Nat /\ vw[v].refs >= ViewHolders(v)
    BY DEF Memory, Counted
  <2> HIDE DEF left
  <2>4. left(v) = vw[v].refs - Cardinality(At(list, "view", v))
    BY <2>1 DEF left
  <2>5. PICK n \in {0, 1} : n = IF lent[v] THEN 1 ELSE 0
    OBVIOUS
  <2>6. /\ ViewHolders(v) = Cardinality(Holders(holds, v)) + n + Cardinality(At(list, "view", v))
        /\ ViewHolders(v)' = Cardinality(Holders(holds, v)) + n
    BY <2>2, <2>5, HoldersOfView
  <2> QED BY <2>1, <2>3, <2>4, <2>6
<1>3. \A v \in View :
        /\ DOMAIN view'[v] = DOMAIN NoView /\ view'[v].refs = left(v)
        /\ left(v) = 0 => view'[v].storage = None
        /\ left(v) # 0 => view'[v].storage = vw[v].storage
  <2> TAKE v \in View
  <2>1. NoView.refs = 0 /\ NoView.storage = None
    BY DEF NoView
  <2>2. /\ [vw[v] EXCEPT !.refs = left(v)].refs = left(v)
        /\ [vw[v] EXCEPT !.refs = left(v)].storage = vw[v].storage
        /\ DOMAIN [vw[v] EXCEPT !.refs = left(v)] = DOMAIN NoView
    BY ViewExcept DEF Memory
  <2> HIDE DEF left
  <2> QED BY <1>1, <2>1, <2>2
<1>4. \A b \in Storage :
        /\ kept(b) \in Nat
        /\ kept(b) >= Cardinality(Views(view', b))
        /\ kept(b) - Cardinality(Views(view', b))
             = st[b].refs - (Cardinality(Views(vw, b)) + Cardinality(At(list, "storage", b)))
  <2> TAKE b \in Storage
  <2>1. ended(b) \in SUBSET Views(vw, b)
    BY DEF Views
  <2>2. Views(view', b) = Views(vw, b) \ ended(b)
    <3> HIDE DEF left
    <3>1. \A v \in View : view'[v].storage = b <=> vw[v].storage = b /\ left(v) # 0
      BY <1>3, NoneAssumption
    <3>2. \A v \in View : vw[v].storage = b => vw[v].refs > 0
      BY NoneAssumption DEF Memory
    <3> QED BY <3>1, <3>2 DEF Views
  <2> HIDE DEF ended
  <2>3. /\ IsFiniteSet(Views(vw, b)) /\ Cardinality(Views(vw, b)) \in Nat
        /\ Cardinality(ended(b)) \in Nat
        /\ Cardinality(Views(view', b)) = Cardinality(Views(vw, b)) - Cardinality(ended(b))
    BY <2>1, <2>2, ViewsFinite, Difference
  <2>4. /\ Cardinality(Views(view', b)) \in Nat
        /\ st[b].refs \in Nat
        /\ st[b].refs >= Cardinality(Views(vw, b)) + Cardinality(At(list, "storage", b))
        /\ Pushes("storage", b) = Cardinality(At(list, "storage", b))
        /\ Cardinality(At(list, "storage", b)) \in Nat
    BY ViewsFinite, PushesAt DEF Memory, Counted
  <2> QED BY <2>3, <2>4
<1> HIDE DEF left, kept
<1>5. \A b \in Storage : storage'[b].refs = kept(b) /\ DOMAIN storage'[b] = DOMAIN NoStorage
  <2> TAKE b \in Storage
  <2>1. NoStorage.refs = 0
    BY DEF NoStorage
  <2>2. /\ [st[b] EXCEPT !.refs = kept(b)].refs = kept(b)
        /\ DOMAIN [st[b] EXCEPT !.refs = kept(b)] = DOMAIN NoStorage
    BY StorageExcept DEF Memory
  <2> QED BY <1>1, <2>1, <2>2
<1>6. HeldIsAlive'
  <2>1. \A b \in Storage : Cardinality({i \in DOMAIN <<>> : <<>>[i].kind = "storage" /\ <<>>[i].id = b}) = 0
    <3> TAKE b \in Storage
    <3>1. {i \in DOMAIN <<>> : <<>>[i].kind = "storage" /\ <<>>[i].id = b} = {}
      OBVIOUS
    <3> QED BY <3>1, FS_EmptySet
  <2>2. \A b \in Storage : StorageHolders(b)' = Cardinality(Views(view', b)) + 0
    BY <2>1 DEF StorageHolders, Pushes, Views
  <2>3. \A b \in Storage : storage'[b].refs >= StorageHolders(b)'
    <3> TAKE b \in Storage
    <3>1. Cardinality(Views(view', b)) \in Nat
      BY ViewsFinite
    <3> QED BY <1>4, <1>5, <2>2, <3>1
  <2> QED BY <1>2, <1>3, <2>3 DEF HeldIsAlive
<1>8. \A v \in View : ViewExcess(v)' = vw[v].refs - ViewHolders(v)
  BY <1>2, <1>3 DEF ViewExcess
<1>9. ASSUME NEW b \in Storage
      PROVE  StorageExcess(b)' = st[b].refs - (Cardinality(Views(vw, b))
                                                 + Cardinality(At(list, "storage", b)))
  <2>1. At(list', "storage", b) = {}
    BY DEF At
  <2>2. Cardinality(At(list', "storage", b)) = 0
    BY <2>1, FS_EmptySet
  <2>3. StorageExcess(b)' = kept(b) - (Cardinality(Views(view', b)) + 0)
    BY <1>5, <2>2, StorageExcessAfter
  <2>4. Cardinality(Views(view', b)) \in Nat
    BY ViewsFinite
  <2> QED BY <1>4, <2>3, <2>4
<1>7. Memory(view, storage)'
  <2>1. \A v \in View :
          /\ view'[v].refs \in Nat /\ view'[v].storage \in Storage \cup {None}
          /\ view'[v].refs = 0 <=> view'[v].storage = None
    <3> TAKE v \in View
    <3>1. CASE left(v) = 0
      BY <1>3, <3>1
    <3>2. CASE left(v) # 0
      <4>1. vw[v].refs # 0
        <5>1. left(v) = vw[v].refs - Pushes("view", v) /\ Pushes("view", v) \in Nat
          BY PushesAt DEF left
        <5> QED BY <1>2, <3>2, <5>1
      <4>2. vw[v].storage \in Storage \cup {None} /\ vw[v].storage # None
        BY <4>1 DEF Memory
      <4> QED BY <1>2, <1>3, <3>2, <4>2
    <3> QED BY <3>1, <3>2
  <2>2. /\ view' = [v \in View |-> view'[v]]
        /\ storage' = [b \in Storage |-> storage'[b]]
    BY <1>1
  <2> QED BY <1>3, <1>4, <1>5, <2>1, <2>2 DEF Memory, NoView, NoStorage
<1> QED BY <1>6, <1>7, <1>8, <1>9

\* After a step: the Buffers of the view, its maker, and the places of the list.
LEMMA HoldersAfter ==
  ASSUME list' \in Seq(Entry), NEW v \in View
  PROVE  /\ ViewHolders(v)' = Cardinality(Holders(holds', v)) + (IF lent'[v] THEN 1 ELSE 0)
                                 + Cardinality(At(list', "view", v))
         /\ ViewHolders(v)' \in Nat
<1>1. Cardinality(Holders(holds', v)) \in Nat
  BY HoldersFinite
<1>2. Cardinality(At(list', "view", v)) \in Nat
  BY AtFinite
<1>3. ViewHolders(v)' = Cardinality(Holders(holds', v)) + (IF lent'[v] THEN 1 ELSE 0)
                           + Cardinality(At(list', "view", v))
  BY DEF ViewHolders, Pushes, Holders, At
<1> QED BY <1>1, <1>2, <1>3

LEMMA AliveAfter ==
  (HeldIsAlive') <=>
     /\ \A v \in View : view'[v].refs >= ViewHolders(v)'
     /\ \A b \in Storage :
          storage'[b].refs >= Cardinality(Views(view', b)) + Cardinality(At(list', "storage", b))
BY DEF HeldIsAlive, StorageHolders, Views, Pushes, At

\* A new view with a new storage has the one holder it was made for.
LEMMA ViewMade ==
  ASSUME Shaped, HeldIsAlive, NEW v \in View, NEW b \in Storage,
         NEW type, NEW shape, NEW elements, MakeView(v, b, type, shape, elements),
         list' = list,
         \A x \in View : ViewHolders(x)' \in Nat
           /\ ViewHolders(x)' = ViewHolders(x) + (IF x = v THEN 1 ELSE 0)
  PROVE  Memory(view, storage)' /\ HeldIsAlive' /\ Adds(None, None)
<1>1. /\ view[v].refs = 0 /\ view[v].storage = None /\ storage[b].refs = 0
      /\ \A x \in View : x # v => view'[x] = view[x]
      /\ view'[v].refs = 1 /\ view'[v].storage = b /\ DOMAIN view'[v] = DOMAIN NoView
      /\ \A c \in Storage : c # b => storage'[c] = storage[c]
      /\ storage'[b].refs = 1 /\ DOMAIN storage'[b] = DOMAIN NoStorage
      /\ view' = [x \in View |-> view'[x]] /\ storage' = [c \in Storage |-> storage'[c]]
  <2> DEFINE p == [refs |-> 1, storage |-> b, type |-> type, shape |-> shape]
  <2>1. PICK y : /\ view' = [view EXCEPT ![v] = p]
                 /\ storage' = [storage EXCEPT ![b] = [refs |-> 1, given |-> elements, bytes |-> y]]
                 /\ view[v] = NoView /\ storage[b] = NoStorage
    BY DEF MakeView
  <2> DEFINE q == [refs |-> 1, given |-> elements, bytes |-> y]
  <2>2. p.refs = 1 /\ p.storage = b /\ DOMAIN p = DOMAIN NoView
    BY DEF NoView
  <2>3. q.refs = 1 /\ DOMAIN q = DOMAIN NoStorage
    BY DEF NoStorage
  <2>4. NoView.refs = 0 /\ NoView.storage = None /\ NoStorage.refs = 0
    BY DEF NoView, NoStorage
  <2> HIDE DEF p, q
  <2>5. view = [x \in View |-> view[x]] /\ storage = [c \in Storage |-> storage[c]]
    BY DEF Shaped, Memory
  <2>6. view'[v] = p /\ storage'[b] = q
    BY <2>1, <2>5 DEF q
  <2> QED BY <2>1, <2>2, <2>3, <2>4, <2>5, <2>6
<1>2. \A x \in View : view'[x].refs >= ViewHolders(x)'
  <2>1. view'[v].refs >= ViewHolders(v)'
    BY <1>1, HoldersOfView DEF HeldIsAlive
  <2>2. ASSUME NEW x \in View, x # v PROVE view'[x].refs >= ViewHolders(x)'
    <3>1. /\ ViewHolders(x)' = ViewHolders(x) /\ view[x].refs >= ViewHolders(x)
          /\ ViewHolders(x) \in Nat /\ view[x].refs \in Nat /\ ViewHolders(x)' \in Nat
      BY <2>2, HoldersOfView DEF HeldIsAlive, Shaped, Memory
    <3> QED BY <1>1, <2>2, <3>1
  <2> QED BY <2>1, <2>2
<1>3. \A c \in Storage :
        storage'[c].refs >= Cardinality(Views(view', c)) + Cardinality(At(list', "storage", c))
  <2>1. /\ Cardinality(Views(view, b)) \in Nat /\ Cardinality(At(list, "storage", b)) \in Nat
        /\ 0 >= Cardinality(Views(view, b)) + Cardinality(At(list, "storage", b))
    BY <1>1, AliveIsCounted, ViewsFinite, PushesAt DEF Counted
  <2>2. Cardinality(Views(view', b)) = Cardinality(Views(view, b)) + 1
    <3>1. Views(view', b) = Views(view, b) \cup {v} /\ v \notin Views(view, b)
      BY <1>1, NoneAssumption DEF Views
    <3> QED BY <3>1, ViewsFinite, FS_AddElement
  <2>3. ASSUME NEW c \in Storage, c # b
        PROVE  storage'[c].refs >= Cardinality(Views(view', c)) + Cardinality(At(list', "storage", c))
    <3>1. Views(view', c) = Views(view, c)
      BY <1>1, <2>3, NoneAssumption DEF Views
    <3> QED BY <1>1, <2>3, <3>1, AliveIsCounted DEF Counted
  <2>4. storage'[b].refs >= Cardinality(Views(view', b)) + Cardinality(At(list', "storage", b))
    BY <1>1, <2>1, <2>2
  <2> QED BY <2>3, <2>4
<1>4. Memory(view, storage)'
  <2>1. ASSUME NEW x \in View
        PROVE  /\ DOMAIN view'[x] = DOMAIN NoView /\ view'[x].refs \in Nat
               /\ view'[x].storage \in Storage \cup {None}
               /\ view'[x].refs = 0 <=> view'[x].storage = None
    <3>1. CASE x = v
      BY <1>1, <3>1, NoneAssumption
    <3>2. CASE x # v
      BY <1>1, <3>2 DEF Shaped, Memory
    <3> QED BY <3>1, <3>2
  <2>2. ASSUME NEW c \in Storage
        PROVE  DOMAIN storage'[c] = DOMAIN NoStorage /\ storage'[c].refs \in Nat
    <3>1. DOMAIN storage[c] = DOMAIN NoStorage /\ storage[c].refs \in Nat /\ 1 \in Nat
      BY DEF Shaped, Memory
    <3> QED BY <1>1, <3>1
  <2> QED BY <1>1, <2>1, <2>2 DEF Memory, NoView, NoStorage
<1>5. \A x \in View : ViewExcess(x)' = ViewExcess(x) + (IF x = None THEN 1 ELSE 0)
  <2> TAKE x \in View
  <2>1. x # None /\ view[x].refs \in Nat /\ ViewHolders(x) \in Nat
    BY HoldersOfView, NoneAssumption DEF Shaped, Memory
  <2>2. CASE x = v
    BY <1>1, <2>1, <2>2 DEF ViewExcess
  <2>3. CASE x # v
    BY <1>1, <2>1, <2>3 DEF ViewExcess
  <2> QED BY <2>2, <2>3
<1>6. \A c \in Storage : StorageExcess(c)' = StorageExcess(c) + (IF c = None THEN 1 ELSE 0)
  <2> TAKE c \in Storage
  <2>1. /\ c # None /\ storage[c].refs \in Nat /\ Cardinality(Views(view, c)) \in Nat
        /\ Cardinality(At(list, "storage", c)) \in Nat
    BY NoneAssumption, ViewsFinite, AtFinite DEF Shaped, Memory
  <2>2. Cardinality(Views(view', c)) = Cardinality(Views(view, c)) + (IF c = b THEN 1 ELSE 0)
    <3>1. CASE c = b
      <4>1. Views(view', b) = Views(view, b) \cup {v} /\ v \notin Views(view, b)
        BY <1>1, NoneAssumption DEF Views
      <4>2. Cardinality(Views(view', b)) = Cardinality(Views(view, b)) + 1
        BY <4>1, ViewsFinite, FS_AddElement
      <4> QED BY <3>1, <4>2
    <3>2. CASE c # b
      <4>1. Views(view', c) = Views(view, c)
        BY <1>1, <3>2, NoneAssumption DEF Views
      <4> QED BY <2>1, <3>2, <4>1
    <3> QED BY <3>1, <3>2
  <2>3. CASE c = b
    BY <1>1, <2>1, <2>2, <2>3, StorageExcessNow, StorageExcessAfter
  <2>4. CASE c # b
    BY <1>1, <2>1, <2>2, <2>4, StorageExcessNow, StorageExcessAfter
  <2> QED BY <2>3, <2>4
<1> QED BY <1>2, <1>3, <1>4, <1>5, <1>6, AliveAfter DEF Adds

\* A view that is there gets one more holder.
LEMMA ViewRetained ==
  ASSUME Shaped, HeldIsAlive, NEW v \in View, view[v].refs > 0,
         view' = [view EXCEPT ![v].refs = @ + 1], storage' = storage,
         \A b \in Storage :
           Cardinality(At(list', "storage", b)) = Cardinality(At(list, "storage", b)),
         \A x \in View : ViewHolders(x)' \in Nat
           /\ ViewHolders(x)' = ViewHolders(x) + (IF x = v THEN 1 ELSE 0)
  PROVE  Memory(view, storage)' /\ HeldIsAlive' /\ Adds(None, None)
<1>1. /\ \A x \in View : x # v => view'[x] = view[x]
      /\ view'[v] = [view[v] EXCEPT !.refs = view[v].refs + 1]
      /\ view' = [x \in View |-> view'[x]]
  BY DEF Shaped, Memory
<1>2. /\ view'[v].refs = view[v].refs + 1 /\ view'[v].storage = view[v].storage
      /\ DOMAIN view'[v] = DOMAIN NoView
  <2>1. DOMAIN view[v] = DOMAIN NoView
    BY DEF Shaped, Memory
  <2> DEFINE r == view[v]
             q == [r EXCEPT !.refs = r.refs + 1]
  <2>2. q.refs = r.refs + 1 /\ q.storage = r.storage /\ DOMAIN q = DOMAIN NoView
    BY <2>1, ViewExcept
  <2>3. view'[v] = q
    BY <1>1
  <2> HIDE DEF q
  <2> QED BY <2>2, <2>3
<1>3. ASSUME NEW x \in View PROVE view'[x].refs >= ViewHolders(x)'
  <2>1. view[x].refs \in Nat /\ ViewHolders(x) \in Nat /\ view[x].refs >= ViewHolders(x)
    BY HoldersOfView DEF HeldIsAlive, Shaped, Memory
  <2> QED BY <1>1, <1>2, <2>1
<1>4. ASSUME NEW c \in Storage
      PROVE  storage'[c].refs >= Cardinality(Views(view', c)) + Cardinality(At(list', "storage", c))
  <2>1. Views(view', c) = Views(view, c)
    BY <1>1, <1>2 DEF Views
  <2> QED BY <2>1, AliveIsCounted DEF Counted
<1>5. Memory(view, storage)'
  <2>1. view[v].refs \in Nat
    BY DEF Shaped, Memory
  <2>2. ASSUME NEW x \in View
        PROVE  /\ DOMAIN view'[x] = DOMAIN NoView /\ view'[x].refs \in Nat
               /\ view'[x].storage \in Storage \cup {None}
               /\ view'[x].refs = 0 <=> view'[x].storage = None
    BY <1>1, <1>2, <2>1, NoneAssumption DEF Shaped, Memory
  <2> QED BY <1>1, <2>2 DEF Memory, NoView, NoStorage, Shaped
<1>6. \A x \in View : ViewExcess(x)' = ViewExcess(x) + (IF x = None THEN 1 ELSE 0)
  <2> TAKE x \in View
  <2>1. x # None /\ view[x].refs \in Nat /\ ViewHolders(x) \in Nat
    BY HoldersOfView, NoneAssumption DEF Shaped, Memory
  <2>2. CASE x = v
    BY <1>2, <2>1, <2>2 DEF ViewExcess
  <2>3. CASE x # v
    BY <1>1, <2>1, <2>3 DEF ViewExcess
  <2> QED BY <2>2, <2>3
<1>7. \A c \in Storage : StorageExcess(c)' = StorageExcess(c) + (IF c = None THEN 1 ELSE 0)
  <2> TAKE c \in Storage
  <2>1. /\ c # None /\ storage[c].refs \in Nat /\ Cardinality(Views(view, c)) \in Nat
        /\ Cardinality(At(list, "storage", c)) \in Nat
    BY NoneAssumption, ViewsFinite, AtFinite DEF Shaped, Memory
  <2>2. Views(view', c) = Views(view, c)
    BY <1>1, <1>2 DEF Views
  <2>3. StorageExcess(c) \in Int
    <3>1. \A i, j, k \in Nat : i - (j + k) \in Int
      OBVIOUS
    <3> QED BY <2>1, <3>1, StorageExcessNow
  <2>4. StorageExcess(c)' = StorageExcess(c)
    BY Zenon, <2>2, StorageExcessNow, StorageExcessAfter
  <2> QED BY <2>1, <2>3, <2>4
<1> QED BY <1>3, <1>4, <1>5, <1>6, <1>7, AliveAfter DEF Adds

-----------------------------------------------------------------------------
(* What the program does with its Buffers                                  *)

\* The Buffers of a call are not among those it changes.
LEMMA CalledStays ==
  ASSUME Called, call' = call, list' = list,
         \A s \in Slot : ~Free(s) => holds'[s] = holds[s]
  PROVE  Called'
<1>1. call # None => /\ \A s \in Range(call.args) : s \in Slot => ~Free(s)
                     /\ call.workspace # None => ~Free(call.workspace)
  BY DEF Free, InUse
<1>2. call # None => \A s \in Range(call.args) \ {None} : s \in Slot
  <2>1. \A f \in Seq(Slot \cup {None}) : \A s \in Range(f) \ {None} : s \in Slot
    BY DEF Range
  <2> QED BY <2>1 DEF Called, Call
<1>3. call # None => call.workspace \in Slot \cup {None}
  BY DEF Called, Call
<1> QED BY <1>1, <1>2, <1>3 DEF Called

\* One Buffer that is free gets the view w, and lets go of the one it had.
LEMMA Reassigned ==
  ASSUME IInv, NEW s \in Slot, Free(s), NEW w \in View \cup {None},
         holds' \in [Slot -> View \cup {None}], holds'[s] = w,
         \A r \in Slot : r # s => holds'[r] = holds[r], UNCHANGED <<call, list>>
  PROVE  /\ holds' \in [Slot -> View \cup {None}] /\ list' \in Seq(Entry)
         /\ Called' /\ (call' = None => list' = <<>>)
         /\ \A x \in View : lent'[x] = lent[x] =>
              /\ ViewHolders(x)' \in Nat
              /\ ViewHolders(x)' = ViewHolders(x) - (IF holds[s] = x THEN 1 ELSE 0)
                                                 + (IF w = x THEN 1 ELSE 0)
<1>1. holds' \in [Slot -> View \cup {None}] /\ list' \in Seq(Entry)
  BY DEF IInv, Shaped
<1>2. Called'
  <2>1. \A x \in Slot : ~Free(x) => holds'[x] = holds[x]
    BY DEF IInv, Shaped
  <2> QED BY <2>1, CalledStays DEF IInv
<1>3. ASSUME NEW x \in View, lent'[x] = lent[x]
      PROVE  /\ ViewHolders(x)' \in Nat
             /\ ViewHolders(x)' = ViewHolders(x) - (IF holds[s] = x THEN 1 ELSE 0)
                                                + (IF w = x THEN 1 ELSE 0)
  <2>1. Cardinality(Holders(holds', x)) = Cardinality(Holders(holds, x))
          - (IF holds[s] = x THEN 1 ELSE 0) + (IF w = x THEN 1 ELSE 0)
    <3>1. holds \in [Slot -> View \cup {None}]
      BY DEF IInv, Shaped
    <3>2. Cardinality(Holders(holds', x)) = Cardinality(Holders(holds, x))
            - (IF holds[s] = x THEN 1 ELSE 0) + (IF holds'[s] = x THEN 1 ELSE 0)
      BY <3>1, HoldersExcept
    <3> QED BY <3>1, <3>2
  <2>2. PICK n \in {0, 1} : n = IF lent[x] THEN 1 ELSE 0
    OBVIOUS
  <2>3. /\ ViewHolders(x)' = Cardinality(Holders(holds', x)) + n + Cardinality(At(list, "view", x))
        /\ ViewHolders(x)' \in Nat
    BY <1>1, <1>3, <2>2, HoldersAfter
  <2>4. ViewHolders(x) = Cardinality(Holders(holds, x)) + n + Cardinality(At(list, "view", x))
    BY <2>2, HoldersOfView DEF IInv
  <2>5. /\ Cardinality(Holders(holds', x)) \in Nat /\ Cardinality(Holders(holds, x)) \in Nat
        /\ Cardinality(At(list, "view", x)) \in Nat
    BY HoldersFinite, PushesAt DEF IInv
  <2>6. PICK i \in {0, 1} : i = IF holds[s] = x THEN 1 ELSE 0
    OBVIOUS
  <2>7. PICK j \in {0, 1} : j = IF w = x THEN 1 ELSE 0
    OBVIOUS
  <2>8. ViewHolders(x)' = ViewHolders(x) - i + j
    <3> DEFINE C == Cardinality(Holders(holds, x))
               D == Cardinality(Holders(holds', x))
               L == Cardinality(At(list, "view", x))
    <3>1. D = C - i + j
      BY <2>1, <2>6, <2>7
    <3>2. C \in Nat /\ D \in Nat /\ L \in Nat
      BY <2>5
    <3>3. ViewHolders(x)' = D + n + L /\ ViewHolders(x) = C + n + L
      BY <2>3, <2>4
    <3> HIDE DEF C, D, L
    <3> QED BY <3>1, <3>2, <3>3
  <2> QED BY <2>3, <2>6, <2>7, <2>8
<1> QED BY <1>1, <1>2, <1>3 DEF IInv

LEMMA AllocateInv ==
  ASSUME IInv, NEW s \in Slot, Allocate(s) \/ AllocateRaw(s)
  PROVE  IInv' /\ Adds(None, None)
<1>1. PICK v \in View, b \in Storage :
        /\ \E type, shape, elements : MakeView(v, b, type, shape, elements)
        /\ Free(s) /\ holds[s] = None /\ holds' = [holds EXCEPT ![s] = v]
        /\ UNCHANGED <<lent, call, list>>
  BY DEF Allocate, AllocateRaw
<1>2. /\ holds' \in [Slot -> View \cup {None}] /\ list' \in Seq(Entry)
      /\ Called' /\ (call' = None => list' = <<>>)
      /\ \A x \in View : ViewHolders(x)' \in Nat
           /\ ViewHolders(x)' = ViewHolders(x) - (IF holds[s] = x THEN 1 ELSE 0)
                                              + (IF v = x THEN 1 ELSE 0)
  <2>1. /\ holds' \in [Slot -> View \cup {None}] /\ holds'[s] = v
        /\ \A r \in Slot : r # s => holds'[r] = holds[r]
    BY <1>1 DEF IInv, Shaped
  <2>2. Free(s) /\ UNCHANGED <<lent, call, list>>
    BY <1>1
  <2> QED BY <2>1, <2>2, Reassigned
<1>3. \A x \in View : ViewHolders(x)' \in Nat
           /\ ViewHolders(x)' = ViewHolders(x) + (IF x = v THEN 1 ELSE 0)
  <2> TAKE x \in View
  <2>1. holds[s] # x
    BY <1>1, NoneAssumption
  <2>2. ViewHolders(x) \in Nat
    BY HoldersOfView DEF IInv
  <2> QED BY <1>2, <2>1, <2>2
<1>4. Memory(view, storage)' /\ HeldIsAlive' /\ Adds(None, None)
  BY <1>1, <1>3, ViewMade DEF IInv
<1> QED BY <1>1, <1>2, <1>4 DEF IInv, Shaped

LEMMA DestroyInv ==
  ASSUME IInv, NEW s \in Slot, Destroy(s)
  PROVE  IInv' /\ Adds(None, None)
<1>1. /\ Free(s) /\ holds[s] \in View /\ holds' = [holds EXCEPT ![s] = None]
      /\ ReleaseView(holds[s]) /\ UNCHANGED <<lent, call, list>>
  BY DEF Destroy, ReleaseHeld, IInv, Shaped
<1>2. /\ holds' \in [Slot -> View \cup {None}] /\ list' \in Seq(Entry)
      /\ Called' /\ (call' = None => list' = <<>>)
      /\ \A x \in View : ViewHolders(x)' \in Nat
           /\ ViewHolders(x)' = ViewHolders(x) - (IF holds[s] = x THEN 1 ELSE 0)
                                              + (IF None = x THEN 1 ELSE 0)
  <2>1. /\ holds' \in [Slot -> View \cup {None}] /\ holds'[s] = None
        /\ \A r \in Slot : r # s => holds'[r] = holds[r]
    BY <1>1 DEF IInv, Shaped
  <2>2. Free(s) /\ UNCHANGED <<lent, call, list>>
    BY <1>1
  <2> QED BY <2>1, <2>2, Reassigned
<1>3. \A x \in View : ViewHolders(x)' \in Nat
           /\ ViewHolders(x)' = ViewHolders(x) - (IF x = holds[s] THEN 1 ELSE 0)
  <2> TAKE x \in View
  <2>1. None # x /\ ViewHolders(x) \in Nat
    BY NoneAssumption, HoldersOfView DEF IInv
  <2> QED BY <1>2, <2>1
<1>4. ViewHolders(holds[s]) > 0
  BY <1>1, HeldHasReference DEF IInv
<1>5. Memory(view, storage)' /\ HeldIsAlive' /\ Adds(None, None)
  BY <1>1, <1>3, <1>4, ViewReleased DEF IInv
<1> QED BY <1>1, <1>2, <1>5 DEF IInv, Shaped

LEMMA ImportInv ==
  ASSUME IInv, NEW s \in Slot, NEW v \in View, Import(s, v)
  PROVE  IInv' /\ Adds(None, None)
<1>1. /\ Free(s) /\ holds[s] = None /\ holds' = [holds EXCEPT ![s] = v]
      /\ lent[v] \/ \E r \in Slot : holds[r] = v
      /\ view' = [view EXCEPT ![v].refs = @ + 1] /\ storage' = storage
      /\ UNCHANGED <<lent, call, list>>
  BY DEF Import
<1>2. /\ holds' \in [Slot -> View \cup {None}] /\ list' \in Seq(Entry)
      /\ Called' /\ (call' = None => list' = <<>>)
      /\ \A x \in View : ViewHolders(x)' \in Nat
           /\ ViewHolders(x)' = ViewHolders(x) - (IF holds[s] = x THEN 1 ELSE 0)
                                              + (IF v = x THEN 1 ELSE 0)
  <2>1. /\ holds' \in [Slot -> View \cup {None}] /\ holds'[s] = v
        /\ \A r \in Slot : r # s => holds'[r] = holds[r]
    BY <1>1 DEF IInv, Shaped
  <2>2. Free(s) /\ UNCHANGED <<lent, call, list>>
    BY <1>1
  <2> QED BY <2>1, <2>2, Reassigned
<1>3. \A x \in View : ViewHolders(x)' \in Nat
           /\ ViewHolders(x)' = ViewHolders(x) + (IF x = v THEN 1 ELSE 0)
  <2> TAKE x \in View
  <2>1. holds[s] # x /\ ViewHolders(x) \in Nat
    BY <1>1, NoneAssumption, HoldersOfView DEF IInv
  <2> QED BY <1>2, <2>1
<1>4. view[v].refs > 0
  BY <1>1, HeldHasReference DEF IInv
<1>5. Memory(view, storage)' /\ HeldIsAlive' /\ Adds(None, None)
  BY <1>1, <1>3, <1>4, ViewRetained DEF IInv
<1> QED BY <1>1, <1>2, <1>5 DEF IInv, Shaped

LEMMA MoveInv ==
  ASSUME IInv, NEW s \in Slot, NEW r \in Slot, Move(s, r)
  PROVE  IInv' /\ Adds(None, None)
<1> DEFINE w == holds[s]
           g == [holds EXCEPT ![r] = w]
<1>1. /\ s # r /\ Free(s) /\ Free(r) /\ w \in View
      /\ holds \in [Slot -> View \cup {None}] /\ g \in [Slot -> View \cup {None}]
      /\ g[s] = w /\ holds' = [g EXCEPT ![s] = None]
      /\ ReleaseHeld(r) /\ UNCHANGED <<lent, call, list>>
  BY DEF Move, IInv, Shaped
<1>2. holds' \in [Slot -> View \cup {None}] /\ list' \in Seq(Entry)
  BY <1>1 DEF IInv, Shaped
<1>3. Called'
  <2>1. \A x \in Slot : ~Free(x) => holds'[x] = holds[x]
    BY <1>1
  <2> QED BY <1>1, <2>1, CalledStays DEF IInv
<1>4. ASSUME NEW x \in View
      PROVE  /\ ViewHolders(x)' \in Nat
             /\ ViewHolders(x)' = ViewHolders(x) - (IF x = holds[r] THEN 1 ELSE 0)
  <2> DEFINE C == Cardinality(Holders(holds, x))
             D == Cardinality(Holders(g, x))
             E == Cardinality(Holders(holds', x))
             L == Cardinality(At(list, "view", x))
  <2>1. D = C - (IF holds[r] = x THEN 1 ELSE 0) + (IF w = x THEN 1 ELSE 0)
    <3>1. g[r] = w /\ \A q \in Slot : q # r => g[q] = holds[q]
      BY <1>1
    <3> HIDE DEF g
    <3> QED BY <1>1, <3>1, HoldersExcept
  <2>2. E = D - (IF g[s] = x THEN 1 ELSE 0) + (IF None = x THEN 1 ELSE 0)
    <3>1. holds'[s] = None /\ \A q \in Slot : q # s => holds'[q] = g[q]
      BY <1>1
    <3> HIDE DEF g
    <3>2. g \in [Slot -> View \cup {None}]
      BY <1>1
    <3>3. E = D - (IF g[s] = x THEN 1 ELSE 0) + (IF holds'[s] = x THEN 1 ELSE 0)
      BY <1>2, <3>1, <3>2, HoldersExcept
    <3> QED BY <3>1, <3>3
  <2>3. C \in Nat /\ D \in Nat /\ E \in Nat /\ L \in Nat
    BY HoldersFinite, PushesAt DEF IInv
  <2>4. PICK n \in {0, 1} : n = IF lent[x] THEN 1 ELSE 0
    OBVIOUS
  <2>5. /\ ViewHolders(x)' = E + n + L /\ ViewHolders(x) = C + n + L
        /\ ViewHolders(x)' \in Nat
    <3>1. ViewHolders(x) = C + n + L
      BY <2>4, HoldersOfView DEF IInv
    <3>2. ViewHolders(x)' = E + n + L /\ ViewHolders(x)' \in Nat
      BY <1>1, <1>2, <2>4, HoldersAfter
    <3> QED BY <3>1, <3>2
  <2>6. E = D - (IF w = x THEN 1 ELSE 0)
    <3>1. None # x
      BY NoneAssumption
    <3> HIDE DEF D, E, g, w
    <3> QED BY <1>1, <2>2, <2>3, <3>1
  <2> HIDE DEF C, D, E, L, w
  <2> QED BY <2>1, <2>3, <2>5, <2>6
<1>5. Memory(view, storage)' /\ HeldIsAlive' /\ Adds(None, None)
  <2>1. CASE holds[r] = None
    <3>1. UNCHANGED <<view, storage>>
      BY <1>1, <2>1 DEF ReleaseHeld
    <3>2. \A x \in View : ViewHolders(x)' = ViewHolders(x)
      <4> TAKE x \in View
      <4>1. x # holds[r] /\ ViewHolders(x) \in Nat
        BY <2>1, NoneAssumption, HoldersOfView DEF IInv
      <4> QED BY <1>4, <4>1
    <3>3. HeldIsAlive'
      BY <1>1, <3>1, <3>2, AliveAfter, AliveIsCounted DEF Counted, IInv
    <3>4. Adds(None, None)
      <4>1. ASSUME NEW x \in View
            PROVE  ViewExcess(x)' = ViewExcess(x) + (IF x = None THEN 1 ELSE 0)
        <5>1. x # None /\ view[x].refs \in Nat /\ ViewHolders(x) \in Nat
          BY HoldersOfView, NoneAssumption DEF IInv, Shaped, Memory
        <5> QED BY <3>1, <3>2, <5>1 DEF ViewExcess
      <4>2. ASSUME NEW c \in Storage
            PROVE  StorageExcess(c)' = StorageExcess(c) + (IF c = None THEN 1 ELSE 0)
        <5>1. /\ c # None /\ storage[c].refs \in Nat /\ Cardinality(Views(view, c)) \in Nat
              /\ Cardinality(At(list, "storage", c)) \in Nat
          BY NoneAssumption, ViewsFinite, PushesAt DEF IInv, Shaped, Memory
        <5>2. StorageExcess(c)' = StorageExcess(c)
          BY <1>1, <3>1, StorageExcessNow, StorageExcessAfter
        <5>3. StorageExcess(c) \in Int
          BY <5>1, StorageExcessNow
        <5> QED BY <5>1, <5>2, <5>3
      <4> QED BY <4>1, <4>2 DEF Adds
    <3> QED BY <3>1, <3>3, <3>4 DEF IInv, Shaped, Memory
  <2>2. CASE holds[r] # None
    <3>1. holds[r] \in View /\ ReleaseView(holds[r])
      BY <1>1, <2>2 DEF ReleaseHeld
    <3>2. ViewHolders(holds[r]) > 0
      BY <3>1, HeldHasReference DEF IInv
    <3> QED BY <1>1, <1>4, <3>1, <3>2, ViewReleased DEF IInv
  <2> QED BY <2>1, <2>2
<1> QED BY <1>1, <1>2, <1>3, <1>5 DEF IInv, Shaped

\* The maker of a view has a reference, or gives it back.
LEMMA LendInv ==
  ASSUME IInv, Lend \/ \E v \in View : TakeBack(v)
  PROVE  IInv' /\ Adds(None, None)
<1>1. UNCHANGED <<holds, call, list>> /\ lent' \in [View -> BOOLEAN]
  BY DEF Lend, TakeBack, IInv, Shaped
<1>2. Called' /\ list' \in Seq(Entry)
  BY <1>1, CalledStays DEF IInv, Shaped
<1>3. ASSUME NEW x \in View
      PROVE  /\ ViewHolders(x)' \in Nat /\ ViewHolders(x) \in Nat
             /\ ViewHolders(x)' = ViewHolders(x) - (IF lent[x] THEN 1 ELSE 0)
                                                + (IF lent'[x] THEN 1 ELSE 0)
  <2>1. Cardinality(Holders(holds, x)) \in Nat /\ Cardinality(At(list, "view", x)) \in Nat
    BY HoldersFinite, PushesAt DEF IInv
  <2>2. PICK n \in {0, 1} : n = IF lent[x] THEN 1 ELSE 0
    OBVIOUS
  <2>3. PICK m \in {0, 1} : m = IF lent'[x] THEN 1 ELSE 0
    OBVIOUS
  <2>4. ViewHolders(x) = Cardinality(Holders(holds, x)) + n + Cardinality(At(list, "view", x))
    BY <2>2, HoldersOfView DEF IInv
  <2>5. ViewHolders(x)' = Cardinality(Holders(holds, x)) + m + Cardinality(At(list, "view", x))
    BY <1>1, <1>2, <2>3, HoldersAfter
  <2>6. /\ ViewHolders(x)' \in Nat /\ ViewHolders(x) \in Nat
        /\ ViewHolders(x)' = ViewHolders(x) - n + m
    BY <2>1, <2>4, <2>5
  <2> QED BY <2>2, <2>3, <2>6
<1>4. CASE Lend
  <2>1. PICK v \in View, b \in Storage :
          /\ \E type, shape, elements : MakeView(v, b, type, shape, elements)
          /\ lent' = [lent EXCEPT ![v] = TRUE]
    BY <1>4 DEF Lend
  <2>2. ASSUME NEW x \in View
        PROVE  /\ ViewHolders(x)' \in Nat
               /\ ViewHolders(x)' = ViewHolders(x) + (IF x = v THEN 1 ELSE 0)
    <3>1. CASE x = v
      <4>1. lent'[x] = TRUE /\ lent \in [View -> BOOLEAN]
        BY <2>1, <3>1 DEF IInv, Shaped
      <4>2. view[v].refs = 0
        BY <2>1 DEF MakeView, NoView
      <4>3. lent[x] = FALSE
        BY <3>1, <4>1, <4>2, HeldHasReference DEF IInv
      <4> QED BY <1>3, <3>1, <4>1, <4>3
    <3>2. CASE x # v
      <4>1. lent'[x] = lent[x]
        BY <2>1, <3>2 DEF IInv, Shaped
      <4> QED BY <1>3, <3>2, <4>1
    <3> QED BY <3>1, <3>2
  <2>3. Memory(view, storage)' /\ HeldIsAlive' /\ Adds(None, None)
    BY <1>1, <2>1, <2>2, ViewMade DEF IInv
  <2> QED BY <1>1, <1>2, <2>3 DEF IInv, Shaped
<1>5. ASSUME NEW v \in View, TakeBack(v) PROVE IInv' /\ Adds(None, None)
  <2>1. lent[v] /\ lent' = [lent EXCEPT ![v] = FALSE] /\ ReleaseView(v)
    BY <1>5 DEF TakeBack
  <2>2. ASSUME NEW x \in View
        PROVE  /\ ViewHolders(x)' \in Nat
               /\ ViewHolders(x)' = ViewHolders(x) - (IF x = v THEN 1 ELSE 0)
    <3>1. CASE x = v
      <4>1. lent[x] = TRUE /\ lent'[x] = FALSE
        BY <2>1, <3>1 DEF IInv, Shaped
      <4> QED BY <1>3, <3>1, <4>1
    <3>2. CASE x # v
      <4>1. lent'[x] = lent[x]
        BY <2>1, <3>2 DEF IInv, Shaped
      <4> QED BY <1>3, <3>2, <4>1
    <3> QED BY <3>1, <3>2
  <2>3. ViewHolders(v) > 0
    BY <2>1, HeldHasReference DEF IInv
  <2>4. Memory(view, storage)' /\ HeldIsAlive' /\ Adds(None, None)
    BY <1>1, <2>1, <2>2, <2>3, ViewReleased DEF IInv
  <2> QED BY <1>1, <1>2, <2>4 DEF IInv, Shaped
<1> QED BY <1>4, <1>5

\* What is added to both sides of a balance.
LEMMA SameBalance ==
  \A a, b, d, e, f, g \in Int : b - e = a - d + g => b - (f + e) = a - (f + d) + g
OBVIOUS

\* The counts of storages rise by what the list gets, and that of q by one more.
LEMMA StorageGrown ==
  ASSUME Shaped, HeldIsAlive, view' = view, NEW q, storage' = [c \in Storage |-> storage'[c]],
         \A c \in Storage :
           /\ DOMAIN storage'[c] = DOMAIN NoStorage /\ storage'[c].refs \in Nat
           /\ storage'[c].refs - Cardinality(At(list', "storage", c))
                = storage[c].refs - Cardinality(At(list, "storage", c)) + (IF c = q THEN 1 ELSE 0),
         list' \in Seq(Entry), \A x \in View : ViewHolders(x)' = ViewHolders(x)
  PROVE  Memory(view, storage)' /\ HeldIsAlive' /\ Adds(None, q)
<1>1. ASSUME NEW c \in Storage
      PROVE  storage'[c].refs >= Cardinality(Views(view', c)) + Cardinality(At(list', "storage", c))
  <2>1. storage[c].refs >= Cardinality(Views(view, c)) + Cardinality(At(list, "storage", c))
    BY AliveIsCounted DEF Counted
  <2>2. /\ Cardinality(Views(view, c)) \in Nat /\ Cardinality(At(list, "storage", c)) \in Nat
        /\ Cardinality(At(list', "storage", c)) \in Nat
        /\ storage[c].refs \in Nat /\ storage'[c].refs \in Nat
    BY ViewsFinite, PushesAt, AtFinite DEF Shaped, Memory
  <2>3. PICK k \in {0, 1} : k = IF c = q THEN 1 ELSE 0
    OBVIOUS
  <2>4. storage'[c].refs - Cardinality(At(list', "storage", c))
          = storage[c].refs - Cardinality(At(list, "storage", c)) + k
    BY <2>3
  <2> QED BY <2>1, <2>2, <2>4
<1>2. \A x \in View : view'[x].refs >= ViewHolders(x)'
  BY DEF HeldIsAlive
<1>3. Memory(view, storage)'
  BY DEF Shaped, Memory, NoView, NoStorage
<1>4. ASSUME NEW x \in View
      PROVE  ViewExcess(x)' = ViewExcess(x) + (IF x = None THEN 1 ELSE 0)
  <2>1. x # None /\ view[x].refs \in Nat /\ ViewHolders(x) \in Nat
    BY HoldersOfView, NoneAssumption DEF Shaped, Memory
  <2> QED BY <2>1 DEF ViewExcess
<1>5. ASSUME NEW c \in Storage
      PROVE  StorageExcess(c)' = StorageExcess(c) + (IF c = q THEN 1 ELSE 0)
  <2> DEFINE n == storage[c].refs
             m == storage'[c].refs
             L == Cardinality(At(list, "storage", c))
             M == Cardinality(At(list', "storage", c))
             C == Cardinality(Views(view, c))
  <2>1. n \in Nat /\ m \in Nat /\ C \in Nat /\ L \in Nat /\ M \in Nat
    BY ViewsFinite, PushesAt, AtFinite DEF Shaped, Memory
  <2>2. PICK k \in {0, 1} : k = IF c = q THEN 1 ELSE 0
    OBVIOUS
  <2>3. m - M = n - L + k
    BY <2>2
  <2>4. StorageExcess(c)' = m - (C + M) /\ StorageExcess(c) = n - (C + L)
    BY StorageExcessNow, StorageExcessAfter
  <2> HIDE DEF n, m, L, M, C
  <2>5. m - (C + M) = n - (C + L) + k
    <3>1. k \in Int
      OBVIOUS
    <3> QED BY <2>1, <2>3, <3>1, SameBalance
  <2>6. StorageExcess(c)' = StorageExcess(c) + k
    BY Zenon, <2>4, <2>5
  <2> QED BY Zenon, <2>2, <2>6
<1> QED BY <1>1, <1>2, <1>3, <1>4, <1>5, AliveAfter DEF Adds

\* A workspace without a view: its storage is counted, and nobody will let go of it.
LEMMA AllocateRawFailsInv ==
  ASSUME IInv, AllocateRawFails
  PROVE  IInv' /\ \E b \in Storage : Adds(None, b)
<1>1. PICK b \in Storage : \E given, bytes :
        /\ storage[b] = NoStorage /\ UNCHANGED <<holds, lent, view, call, list>>
        /\ storage' = [storage EXCEPT ![b] = [refs |-> 1, bytes |-> bytes, given |-> given]]
  BY DEF AllocateRawFails
<1>2. UNCHANGED <<holds, lent, view, call, list>>
  BY <1>1
<1>3. Called' /\ list' \in Seq(Entry)
  BY <1>2, CalledStays DEF IInv, Shaped
<1>4. \A x \in View : ViewHolders(x)' = ViewHolders(x)
  BY <1>2 DEF ViewHolders, Pushes
<1>5. /\ storage' = [c \in Storage |-> storage'[c]] /\ storage[b].refs = 0
      /\ \A c \in Storage : c # b => storage'[c] = storage[c]
      /\ storage'[b].refs = 1 /\ DOMAIN storage'[b] = DOMAIN NoStorage
  BY <1>1 DEF IInv, Shaped, Memory, NoStorage
<1>6. ASSUME NEW c \in Storage
      PROVE  /\ DOMAIN storage'[c] = DOMAIN NoStorage /\ storage'[c].refs \in Nat
             /\ storage'[c].refs - Cardinality(At(list', "storage", c))
                  = storage[c].refs - Cardinality(At(list, "storage", c)) + (IF c = b THEN 1 ELSE 0)
  <2>1. /\ storage[c].refs \in Nat /\ DOMAIN storage[c] = DOMAIN NoStorage
        /\ Cardinality(At(list, "storage", c)) \in Nat /\ list' = list
    BY <1>2, PushesAt DEF IInv, Shaped, Memory
  <2>2. CASE c = b
    BY <1>5, <2>1, <2>2
  <2>3. CASE c # b
    BY <1>5, <2>1, <2>3
  <2> QED BY <2>2, <2>3
<1>7. Memory(view, storage)' /\ HeldIsAlive' /\ Adds(None, b)
  BY <1>2, <1>3, <1>4, <1>5, <1>6, StorageGrown DEF IInv
<1> QED BY <1>2, <1>3, <1>7 DEF IInv, Shaped

-----------------------------------------------------------------------------
(* A call                                                                  *)

LEMMA Excesses ==
  ASSUME IInv
  PROVE  /\ \A v \in View : ViewExcess(v) \in Int
         /\ \A b \in Storage : StorageExcess(b) \in Int
<1>1. ASSUME NEW v \in View PROVE ViewExcess(v) \in Int
  BY HoldersOfView DEF IInv, Shaped, Memory, ViewExcess
<1>2. ASSUME NEW b \in Storage PROVE StorageExcess(b) \in Int
  <2>1. /\ storage[b].refs \in Nat /\ Cardinality(Views(view, b)) \in Nat
        /\ Cardinality(At(list, "storage", b)) \in Nat
    BY ViewsFinite, PushesAt DEF IInv, Shaped, Memory
  <2> QED BY <2>1, StorageExcessNow
<1> QED BY <1>1, <1>2

LEMMA NothingAdded ==
  ASSUME IInv, UNCHANGED <<holds, lent, view, storage, list>>
  PROVE  Adds(None, None)
<1>1. /\ \A v \in View : ViewExcess(v)' = ViewExcess(v) /\ ViewExcess(v) \in Int /\ v # None
      /\ \A b \in Storage : StorageExcess(b)' = StorageExcess(b)
           /\ StorageExcess(b) \in Int /\ b # None
  BY Excesses, NoneAssumption DEF ViewExcess, StorageExcess, ViewHolders, StorageHolders, Pushes
<1> QED BY <1>1 DEF Adds

\* The tensors of a graph that createVmContext counts, and that execute passes.
Outputs(tensors) == {i \in DOMAIN tensors : tensors[i].output /\ ~tensors[i].virtual}
Inputs(tensors)  == {i \in DOMAIN tensors : ~tensors[i].output /\ ~tensors[i].scalar}

LEMMA TensorsFinite ==
  ASSUME NEW tensors \in Seq(GraphTensor), NEW S \in SUBSET DOMAIN tensors
  PROVE  IsFiniteSet(S) /\ Cardinality(S) \in Nat
<1>1. S \in SUBSET (1..Len(tensors)) /\ 1 \in Int /\ Len(tensors) \in Int
  OBVIOUS
<1> QED BY <1>1, FS_Interval, FS_Subset, FS_CardinalityType

LEMMA CapacityNat ==
  ASSUME NEW tensors \in Seq(GraphTensor), NEW async \in BOOLEAN
  PROVE  ListCapacity(tensors, async) \in Nat
<1>1. /\ Outputs(tensors) \in SUBSET DOMAIN tensors
      /\ Inputs(tensors) \in SUBSET DOMAIN tensors
  BY DEF Outputs, Inputs
<1>2. /\ Cardinality(Outputs(tensors)) \in Nat /\ Cardinality(Inputs(tensors)) \in Nat
  BY <1>1, TensorsFinite
<1>3. ListCapacity(tensors, async)
        = Cardinality(Outputs(tensors)) + Cardinality(Inputs(tensors)) + 1
            + IF async THEN 2 ELSE 0
  BY DEF ListCapacity, Outputs, Inputs
<1> QED BY <1>2, <1>3

LEMMA ExecuteInv ==
  ASSUME IInv, Execute
  PROVE  IInv' /\ Adds(None, None)
<1>1. /\ call = None /\ list = <<>> /\ UNCHANGED <<holds, lent, view, storage, list>>
  BY DEF Execute, IInv, memory
<1>2. Called' /\ call' # None
  <2>1. PICK tensors \in Graphs, loaded \in Graphs, workspace \in Slot \cup {None},
             need \in Sizes, async \in BOOLEAN :
          \E args \in [DOMAIN tensors -> Slot \cup {None}] :
            /\ \A s \in (Range(args) \cup {workspace}) \ {None} : holds[s] # None
            /\ call' = [tensors |-> tensors, args |-> args, workspace |-> workspace,
                        need |-> need, async |-> async, loaded |-> loaded,
                        room |-> ListCapacity(loaded, async), next |-> 1]
    BY Zenon DEF Execute
  <2>2. PICK args \in [DOMAIN tensors -> Slot \cup {None}] :
          /\ \A s \in (Range(args) \cup {workspace}) \ {None} : holds[s] # None
          /\ call' = [tensors |-> tensors, args |-> args, workspace |-> workspace,
                      need |-> need, async |-> async, loaded |-> loaded,
                      room |-> ListCapacity(loaded, async), next |-> 1]
    BY Zenon, <2>1
  <2>3. /\ tensors \in Seq(GraphTensor) /\ loaded \in Seq(GraphTensor) /\ need \in Nat
        /\ args \in Seq(Slot \cup {None}) /\ 1 \in Nat
    BY GraphsAssumption, SizesAssumption
  <2>4. ListCapacity(loaded, async) \in Nat
    BY <2>3, CapacityNat
  <2>5. call' \in Call /\ call'.args = args /\ call'.tensors = tensors
        /\ call'.workspace = workspace /\ call'.next = 1
    BY <2>2, <2>3, <2>4 DEF Call
  <2>6. Range(args) \ {None} \subseteq Slot
    BY DEF Range
  <2>7. /\ \A s \in Range(args) \ {None} : holds[s] \in View
        /\ workspace # None => holds[workspace] \in View
    BY <2>2, <2>6 DEF IInv, Shaped
  <2>8. 1 \in 1..Len(args) + (IF call'.async THEN 4 ELSE 2)
    BY <2>3
  <2>9. call' # None /\ UNCHANGED holds
    BY <1>1, <2>5, NoneAssumption
  <2> QED BY <2>5, <2>7, <2>8, <2>9 DEF Called
<1>3. HeldIsAlive'
  BY <1>1 DEF HeldIsAlive, ViewHolders, StorageHolders, Pushes, IInv
<1>4. Adds(None, None)
  BY <1>1, NothingAdded
<1> QED BY <1>1, <1>2, <1>3, <1>4 DEF IInv, Shaped, Memory

\* The place of the list that is filled next.
LEMMA PushingPlaces ==
  ASSUME Called, NEW place \in {"arg", "workspace", "fence"}, Pushing(place)
  PROVE  /\ call # None /\ call \in Call
         /\ call.next + 1 \in 1..Len(call.args) + (IF call.async THEN 4 ELSE 2)
         /\ place = "arg" => call.next \in DOMAIN call.args
<1>1. call # None /\ call \in Call /\ call.args \in Seq(Slot \cup {None}) /\ call.next \in Nat
      /\ call.async \in BOOLEAN
  BY DEF Pushing, Called, Call
<1> DEFINE n == Len(call.args)
           m == IF call.async THEN 4 ELSE 2
           i == call.next
<1>2. i \in 1..n + m /\ n \in Nat /\ DOMAIN call.args = 1..n
  <2>1. i \in 1..n + m
    BY <1>1 DEF Called
  <2> HIDE DEF m, i
  <2> QED BY <1>1, <2>1
<1>3. m \in {2, 4} /\ (call.async => m = 4)
  OBVIOUS
<1> SUFFICES /\ i + 1 \in 1..n + m
             /\ place = "arg" => i \in DOMAIN call.args
  BY <1>1
<1>4. CASE place = "arg"
  <2>1. i <= n
    BY <1>4 DEF Pushing
  <2> HIDE DEF i, n, m
  <2> QED BY <1>2, <1>3, <2>1
<1>5. CASE place = "workspace"
  <2>1. i = n + 1
    BY <1>5 DEF Pushing
  <2> HIDE DEF i, n, m
  <2> QED BY <1>2, <1>3, <1>5, <2>1
<1>6. CASE place = "fence"
  <2>1. call.async /\ i - n \in {2, 3}
    BY <1>6 DEF Pushing
  <2> HIDE DEF i, n, m
  <2> QED BY <1>2, <1>3, <1>6, <2>1
<1> QED BY <1>4, <1>5, <1>6

\* The list and the call after a push.
LEMMA ListPushed ==
  ASSUME IInv, NEW place \in {"arg", "workspace", "fence"}, Pushing(place),
         NEW e \in Entry, Pushed(e)
  PROVE  /\ UNCHANGED <<holds, lent>> /\ list' \in Seq(Entry) /\ Called' /\ call' # None
         /\ \A x \in View : ViewHolders(x)' \in Nat
              /\ ViewHolders(x)' = ViewHolders(x) + (IF e.kind = "view" /\ e.id = x THEN 1 ELSE 0)
         /\ \A c \in Storage : Cardinality(At(list', "storage", c))
              = Cardinality(At(list, "storage", c)) + (IF e.kind = "storage" /\ e.id = c THEN 1 ELSE 0)
<1>1. /\ UNCHANGED <<holds, lent>> /\ list \in Seq(Entry) /\ list' = Append(list, e)
      /\ list' \in Seq(Entry) /\ call' = [call EXCEPT !.next = call.next + 1]
  BY DEF Pushed, IInv, Shaped
<1>2. Called' /\ call' # None
  <2>1. /\ call \in Call /\ call # None
        /\ call.next + 1 \in 1..Len(call.args) + (IF call.async THEN 4 ELSE 2)
    BY PushingPlaces DEF IInv
  <2>2. /\ call' \in Call /\ call'.args = call.args /\ call'.workspace = call.workspace
        /\ call'.async = call.async /\ call'.tensors = call.tensors
        /\ call'.next = call.next + 1
    <3> DEFINE k == call.next + 1
    <3>1. k \in Nat
      BY <2>1 DEF Call
    <3> HIDE DEF k
    <3> QED BY <1>1, <2>1, <3>1 DEF Call, k
  <2>3. /\ \A s \in Range(call.args) \ {None} : holds[s] \in View
        /\ call.workspace # None => holds[call.workspace] \in View
        /\ DOMAIN call.args = DOMAIN call.tensors
    BY <2>1 DEF IInv, Called
  <2>4. call' # None
    BY <2>2, NoneAssumption
  <2>5. /\ \A s \in Range(call'.args) \ {None} : holds'[s] \in View
        /\ call'.workspace # None => holds'[call'.workspace] \in View
    <3>1. holds' = holds
      BY <1>1
    <3> QED BY <2>2, <2>3, <3>1
  <2>6. call'.next \in 1..Len(call'.args) + (IF call'.async THEN 4 ELSE 2)
    BY <2>1, <2>2
  <2> QED BY <2>2, <2>3, <2>4, <2>5, <2>6 DEF Called
<1>3. ASSUME NEW x \in View
      PROVE  /\ ViewHolders(x)' \in Nat
             /\ ViewHolders(x)' = ViewHolders(x) + (IF e.kind = "view" /\ e.id = x THEN 1 ELSE 0)
  <2> DEFINE C == Cardinality(Holders(holds, x))
             L == Cardinality(At(list, "view", x))
             M == Cardinality(At(list', "view", x))
  <2>1. M = L + (IF e.kind = "view" /\ e.id = x THEN 1 ELSE 0)
    BY <1>1, AtAppend
  <2>2. C \in Nat /\ L \in Nat /\ M \in Nat
    BY <1>1, HoldersFinite, AtFinite
  <2>3. PICK n \in {0, 1} : n = IF lent[x] THEN 1 ELSE 0
    OBVIOUS
  <2>4. ViewHolders(x) = C + n + L
    BY <2>3, HoldersOfView DEF IInv
  <2>5. ViewHolders(x)' = C + n + M /\ ViewHolders(x)' \in Nat
    BY <1>1, <2>3, HoldersAfter
  <2> HIDE DEF C, L, M
  <2> QED BY <2>1, <2>2, <2>4, <2>5
<1>4. \A c \in Storage : Cardinality(At(list', "storage", c))
              = Cardinality(At(list, "storage", c)) + (IF e.kind = "storage" /\ e.id = c THEN 1 ELSE 0)
  BY <1>1, AtAppend
<1> QED BY <1>1, <1>2, <1>3, <1>4

LEMMA PushArgInv ==
  ASSUME IInv, PushArg
  PROVE  IInv' /\ Adds(None, None)
<1> DEFINE v == holds[call.args[call.next]]
           e == [kind |-> "view", id |-> v]
<1>1. Pushing("arg") /\ Supplied /\ Pushed(e) /\ storage' = storage
      /\ view' = [view EXCEPT ![v].refs = @ + 1]
  BY DEF PushArg
<1>2. v \in View /\ \E s \in Slot : holds[s] = v
  <2> DEFINE s == call.args[call.next]
  <2>1. /\ call # None /\ call.next \in DOMAIN call.args
        /\ call.args \in Seq(Slot \cup {None})
    BY <1>1, PushingPlaces DEF IInv, Call
  <2>2. s \in Range(call.args) \ {None} /\ s \in Slot
    BY <1>1, <2>1 DEF Range, Supplied
  <2> HIDE DEF s
  <2>3. holds[s] \in View
    BY <2>1, <2>2 DEF IInv, Called
  <2> QED BY <2>2, <2>3 DEF s
<1> HIDE DEF v
<1>3. e \in Entry /\ e.kind = "view" /\ e.id = v
  BY <1>2 DEF Entry
<1> HIDE DEF e
<1>4. /\ UNCHANGED <<holds, lent>> /\ list' \in Seq(Entry) /\ Called' /\ call' # None
      /\ \A x \in View : ViewHolders(x)' \in Nat
           /\ ViewHolders(x)' = ViewHolders(x) + (IF e.kind = "view" /\ e.id = x THEN 1 ELSE 0)
      /\ \A c \in Storage : Cardinality(At(list', "storage", c))
           = Cardinality(At(list, "storage", c)) + (IF e.kind = "storage" /\ e.id = c THEN 1 ELSE 0)
  BY <1>1, <1>3, ListPushed
<1>5. \A x \in View : ViewHolders(x)' \in Nat
           /\ ViewHolders(x)' = ViewHolders(x) + (IF x = v THEN 1 ELSE 0)
  BY <1>3, <1>4
<1>6. \A c \in Storage : Cardinality(At(list', "storage", c)) = Cardinality(At(list, "storage", c))
  <2> TAKE c \in Storage
  <2>1. "view" # "storage" /\ Cardinality(At(list, "storage", c)) \in Nat
    BY PushesAt DEF IInv
  <2> QED BY <1>3, <1>4, <2>1
<1>7. view[v].refs > 0
  BY <1>2, HeldHasReference DEF IInv
<1>8. Memory(view, storage)' /\ HeldIsAlive' /\ Adds(None, None)
  BY <1>1, <1>2, <1>5, <1>6, <1>7, ViewRetained DEF IInv
<1> QED BY <1>4, <1>8 DEF IInv, Shaped

\* The call goes on to the next tensor.
LEMMA SkipArgInv ==
  ASSUME IInv, SkipArg
  PROVE  IInv' /\ Adds(None, None)
<1>1. /\ UNCHANGED <<holds, lent, view, storage, list>> /\ Pushing("arg")
      /\ call' = [call EXCEPT !.next = call.next + 1]
  BY DEF SkipArg, memory
<1>2. Called' /\ call' # None
  <2>1. /\ call \in Call /\ call # None
        /\ call.next + 1 \in 1..Len(call.args) + (IF call.async THEN 4 ELSE 2)
    BY <1>1, PushingPlaces DEF IInv
  <2>2. /\ call' \in Call /\ call'.args = call.args /\ call'.workspace = call.workspace
        /\ call'.async = call.async /\ call'.tensors = call.tensors
        /\ call'.next = call.next + 1
    <3> DEFINE k == call.next + 1
    <3>1. k \in Nat
      BY <2>1 DEF Call
    <3> HIDE DEF k
    <3> QED BY <1>1, <2>1, <3>1 DEF Call, k
  <2>3. call' # None
    BY <2>2, NoneAssumption
  <2>4. /\ \A s \in Range(call.args) \ {None} : holds'[s] \in View
        /\ call.workspace # None => holds'[call.workspace] \in View
        /\ DOMAIN call.args = DOMAIN call.tensors
    BY <1>1, <2>1 DEF IInv, Called
  <2>5. call'.next \in 1..Len(call'.args) + (IF call'.async THEN 4 ELSE 2)
    BY <2>1, <2>2
  <2> QED BY <2>2, <2>3, <2>4, <2>5 DEF Called
<1>3. HeldIsAlive'
  BY <1>1 DEF HeldIsAlive, ViewHolders, StorageHolders, Pushes, IInv
<1>4. Adds(None, None)
  BY <1>1, NothingAdded
<1> QED BY <1>1, <1>2, <1>3, <1>4 DEF IInv, Shaped, Memory

\* The storage of the workspace gets a reference, and a fence is none of a buffer.
LEMMA PushOtherInv ==
  ASSUME IInv, PushWorkspace \/ PushFence
  PROVE  IInv' /\ Adds(None, None)
<1>1. PICK e \in Entry, place \in {"workspace", "fence"} :
        /\ Pushing(place) /\ Pushed(e) /\ view' = view
        /\ \/ e.kind # "storage" /\ storage' = storage
           \/ /\ e.kind = "storage" /\ e.id \in Storage
              /\ storage' = [storage EXCEPT ![e.id].refs = @ + 1]
        /\ e.kind # "view"
  <2>1. CASE PushFence
    <3> DEFINE e == [kind |-> "fence"]
    <3>1. e \in Entry /\ e.kind = "fence"
      BY DEF Entry
    <3> QED BY <2>1, <3>1 DEF PushFence
  <2>2. CASE PushWorkspace /\ call.need = 0
    <3> DEFINE e == [kind |-> "null"]
    <3>1. e \in Entry /\ e.kind = "null"
      BY DEF Entry
    <3> QED BY <2>2, <3>1 DEF PushWorkspace
  <2>3. CASE PushWorkspace /\ call.need # 0
    <3> DEFINE b == view[holds[call.workspace]].storage
               e == [kind |-> "storage", id |-> b]
    <3>1. /\ Pushing("workspace") /\ WorkspaceFits /\ view' = view
          /\ storage' = [storage EXCEPT ![b].refs = @ + 1] /\ Pushed(e)
      BY <2>3 DEF PushWorkspace, Viewed
    <3>2. b \in Storage
      <4>1. call # None /\ call.workspace # None /\ call.workspace \in Slot
        BY <3>1, PushingPlaces DEF WorkspaceFits, IInv, Call
      <4>2. holds[call.workspace] \in View
        BY <4>1 DEF IInv, Called
      <4> QED BY <4>1, <4>2, HeldHasReference DEF IInv
    <3> HIDE DEF b
    <3>3. e \in Entry /\ e.kind = "storage" /\ e.id = b
      BY <3>2 DEF Entry
    <3> HIDE DEF e
    <3> QED BY <3>1, <3>2, <3>3
  <2> QED BY <2>1, <2>2, <2>3
<1>2. /\ UNCHANGED <<holds, lent>> /\ list' \in Seq(Entry) /\ Called' /\ call' # None
      /\ \A x \in View : ViewHolders(x)' \in Nat
           /\ ViewHolders(x)' = ViewHolders(x) + (IF e.kind = "view" /\ e.id = x THEN 1 ELSE 0)
      /\ \A c \in Storage : Cardinality(At(list', "storage", c))
           = Cardinality(At(list, "storage", c)) + (IF e.kind = "storage" /\ e.id = c THEN 1 ELSE 0)
  BY <1>1, ListPushed
<1>3. \A x \in View : ViewHolders(x)' = ViewHolders(x)
  <2> TAKE x \in View
  <2>1. ViewHolders(x) \in Nat
    BY HoldersOfView DEF IInv
  <2> QED BY <1>1, <1>2, <2>1
<1>4. ASSUME NEW c \in Storage
      PROVE  /\ DOMAIN storage'[c] = DOMAIN NoStorage /\ storage'[c].refs \in Nat
             /\ storage'[c].refs - Cardinality(At(list', "storage", c))
                  = storage[c].refs - Cardinality(At(list, "storage", c))
                      + (IF c = None THEN 1 ELSE 0)
  <2> DEFINE L == Cardinality(At(list, "storage", c))
             M == Cardinality(At(list', "storage", c))
             n == storage[c].refs
  <2>1. n \in Nat /\ DOMAIN storage[c] = DOMAIN NoStorage /\ L \in Nat /\ c # None
    BY PushesAt, NoneAssumption DEF IInv, Shaped, Memory
  <2>2. M = L + (IF e.kind = "storage" /\ e.id = c THEN 1 ELSE 0)
    BY <1>2
  <2>3. CASE e.kind = "storage" /\ e.id = c
    <3>1. storage' = [storage EXCEPT ![c].refs = storage[c].refs + 1]
      BY <1>1, <2>3
    <3>2. storage'[c] = [storage[c] EXCEPT !.refs = n + 1]
      BY <3>1 DEF IInv, Shaped, Memory
    <3>3. storage'[c].refs = n + 1 /\ DOMAIN storage'[c] = DOMAIN NoStorage
      <4> DEFINE r == storage[c]
                 q == [r EXCEPT !.refs = n + 1]
      <4>1. q.refs = n + 1 /\ DOMAIN q = DOMAIN NoStorage
        BY <2>1, StorageExcept
      <4> HIDE DEF q
      <4> QED BY <3>2, <4>1 DEF q
    <3> HIDE DEF L, M, n
    <3> QED BY <2>1, <2>2, <2>3, <3>3 DEF L, M, n
  <2>4. CASE ~(e.kind = "storage" /\ e.id = c)
    <3>1. storage'[c] = storage[c]
      BY <1>1, <2>4 DEF IInv, Shaped, Memory
    <3>2. M = L
      BY <2>1, <2>2, <2>4
    <3> QED BY <2>1, <3>1, <3>2
  <2> QED BY <2>3, <2>4
<1>5. storage' = [c \in Storage |-> storage'[c]]
  BY <1>1 DEF IInv, Shaped, Memory
<1>6. Memory(view, storage)' /\ HeldIsAlive' /\ Adds(None, None)
  BY <1>1, <1>2, <1>3, <1>4, <1>5, StorageGrown DEF IInv
<1> QED BY <1>2, <1>6 DEF IInv, Shaped

\* Wherever execute returns, with the references vw and st there were then: those
\* of now, and maybe one more to p and to q.
LEMMA Returned ==
  ASSUME IInv, NEW vw, NEW st, NEW fn, NEW p, NEW q,
         Memory(vw, st), Counted(vw, st), Return(vw, st, fn),
         \A v \in View : /\ vw[v].storage = view[v].storage
                         /\ vw[v].refs = view[v].refs + (IF v = p THEN 1 ELSE 0),
         \A b \in Storage : st[b].refs = storage[b].refs + (IF b = q THEN 1 ELSE 0)
  PROVE  IInv' /\ Adds(p, q)
<1>1. /\ ReleaseList(vw, st, fn) /\ list' = <<>> /\ call' = None /\ UNCHANGED <<holds, lent>>
  BY DEF Return
<1>2. /\ Memory(view, storage)' /\ HeldIsAlive'
      /\ \A v \in View : ViewExcess(v)' = vw[v].refs - ViewHolders(v)
      /\ \A b \in Storage :
           StorageExcess(b)' = st[b].refs - (Cardinality(Views(vw, b))
                                               + Cardinality(At(list, "storage", b)))
  BY <1>1, ListReleased DEF IInv
<1>3. list' \in Seq(Entry)
  BY <1>1
<1>4. ASSUME NEW v \in View
      PROVE  ViewExcess(v)' = ViewExcess(v) + (IF v = p THEN 1 ELSE 0)
  <2>1. PICK k \in {0, 1} : k = IF v = p THEN 1 ELSE 0
    OBVIOUS
  <2>2. vw[v].refs = view[v].refs + k /\ view[v].refs \in Nat /\ ViewHolders(v) \in Nat
    BY <2>1, HoldersOfView DEF IInv, Shaped, Memory
  <2>3. ViewExcess(v)' = ViewExcess(v) + k
    BY <1>2, <2>2 DEF ViewExcess
  <2> QED BY Zenon, <2>1, <2>3
<1>5. ASSUME NEW b \in Storage
      PROVE  StorageExcess(b)' = StorageExcess(b) + (IF b = q THEN 1 ELSE 0)
  <2>1. PICK k \in {0, 1} : k = IF b = q THEN 1 ELSE 0
    OBVIOUS
  <2>2. /\ st[b].refs = storage[b].refs + k /\ storage[b].refs \in Nat
        /\ Cardinality(Views(view, b)) \in Nat /\ Cardinality(At(list, "storage", b)) \in Nat
    BY <2>1, ViewsFinite, PushesAt DEF IInv, Shaped, Memory
  <2>3. Views(vw, b) = Views(view, b)
    BY DEF Views
  <2>4. StorageExcess(b)' = StorageExcess(b) + k
    BY <1>2, <2>2, <2>3, StorageExcessNow
  <2> QED BY Zenon, <2>1, <2>4
<1> QED BY <1>1, <1>2, <1>3, <1>4, <1>5 DEF Adds, IInv, Shaped, Called

\* Other counts, no lower than those of now.
LEMMA StillCounted ==
  ASSUME IInv, NEW w, NEW s,
         w = [v \in View |-> w[v]], s = [b \in Storage |-> s[b]],
         \A v \in View : /\ DOMAIN w[v] = DOMAIN NoView /\ w[v].storage = view[v].storage
                         /\ w[v].refs \in Nat /\ w[v].refs >= view[v].refs
                         /\ view[v].refs = 0 => w[v].refs = 0,
         \A b \in Storage : /\ DOMAIN s[b] = DOMAIN NoStorage
                            /\ s[b].refs \in Nat /\ s[b].refs >= storage[b].refs
  PROVE  Memory(w, s) /\ Counted(w, s)
<1>1. ASSUME NEW v \in View
      PROVE  /\ w[v].refs >= ViewHolders(v) /\ w[v].storage \in Storage \cup {None}
             /\ w[v].refs = 0 <=> w[v].storage = None
  <2>1. /\ view[v].refs \in Nat /\ view[v].storage \in Storage \cup {None}
        /\ view[v].refs = 0 <=> view[v].storage = None
        /\ view[v].refs >= ViewHolders(v) /\ ViewHolders(v) \in Nat
    BY HoldersOfView DEF IInv, HeldIsAlive, Shaped, Memory
  <2> QED BY <2>1
<1>2. ASSUME NEW b \in Storage
      PROVE  s[b].refs >= Cardinality(Views(w, b)) + Cardinality(At(list, "storage", b))
  <2>1. Views(w, b) = Views(view, b)
    BY DEF Views
  <2>2. /\ storage[b].refs >= Cardinality(Views(view, b)) + Cardinality(At(list, "storage", b))
        /\ Cardinality(Views(view, b)) \in Nat /\ Cardinality(At(list, "storage", b)) \in Nat
        /\ storage[b].refs \in Nat
    BY AliveIsCounted, ViewsFinite, PushesAt DEF IInv, Counted, Shaped, Memory
  <2> QED BY <2>1, <2>2
<1> QED BY <1>1, <1>2 DEF Memory, Counted, NoView, NoStorage

LEMMA NowCounted == IInv => Memory(view, storage) /\ Counted(view, storage)
BY AliveIsCounted DEF IInv, Shaped

\* The Buffers of a call have their views, and the views their storages.
LEMMA CallHasViews ==
  ASSUME IInv, call # None
  PROVE  /\ \A i \in DOMAIN call.args : call.args[i] # None =>
              /\ holds[call.args[i]] \in View /\ view[holds[call.args[i]]].refs > 0
              /\ view[holds[call.args[i]]].storage \in Storage
         /\ call.workspace # None => view[holds[call.workspace]].storage \in Storage
<1>1. call.args \in Seq(Slot \cup {None}) /\ call.workspace \in Slot \cup {None}
  BY DEF IInv, Called, Call
<1>2. ASSUME NEW i \in DOMAIN call.args, call.args[i] # None
      PROVE  /\ holds[call.args[i]] \in View /\ view[holds[call.args[i]]].refs > 0
             /\ view[holds[call.args[i]]].storage \in Storage
  <2>1. call.args[i] \in Range(call.args) \ {None} /\ call.args[i] \in Slot
    BY <1>1, <1>2 DEF Range
  <2>2. holds[call.args[i]] \in View
    BY <2>1 DEF IInv, Called
  <2> QED BY <2>1, <2>2, HeldHasReference DEF IInv
<1>3. call.workspace # None => view[holds[call.workspace]].storage \in Storage
  <2> SUFFICES ASSUME call.workspace # None PROVE view[holds[call.workspace]].storage \in Storage
    OBVIOUS
  <2>1. call.workspace \in Slot /\ holds[call.workspace] \in View
    BY <1>1 DEF IInv, Called
  <2> QED BY <2>1, HeldHasReference DEF IInv
<1> QED BY <1>2, <1>3

\* A storage with one reference more, or with other bytes.
LEMMA OtherStorage ==
  ASSUME IInv, NEW b \in Storage, NEW r, NEW s, s = [storage EXCEPT ![b] = r],
         DOMAIN r = DOMAIN NoStorage, r.refs \in Nat, r.refs >= storage[b].refs
  PROVE  Memory(view, s) /\ Counted(view, s)
<1>1. /\ s = [c \in Storage |-> s[c]] /\ s[b] = r
      /\ \A c \in Storage : c # b => s[c] = storage[c]
  BY DEF IInv, Shaped, Memory
<1>2. ASSUME NEW c \in Storage
      PROVE  /\ DOMAIN s[c] = DOMAIN NoStorage
             /\ s[c].refs \in Nat /\ s[c].refs >= storage[c].refs
  <2>1. DOMAIN storage[c] = DOMAIN NoStorage /\ storage[c].refs \in Nat
    BY DEF IInv, Shaped, Memory
  <2>2. CASE c = b
    BY <1>1, <2>2
  <2>3. CASE c # b
    BY <1>1, <2>1, <2>3
  <2> QED BY <2>2, <2>3
<1>3. /\ view = [v \in View |-> view[v]]
      /\ \A v \in View : /\ DOMAIN view[v] = DOMAIN NoView
                         /\ view[v].refs \in Nat /\ view[v].refs >= view[v].refs
  BY DEF IInv, Shaped, Memory
<1> HIDE DEF Memory
<1> QED BY <1>1, <1>2, <1>3, StillCounted

LEMMA FencesReturned ==
  ASSUME NEW vw, NEW st, NEW fn, Return(vw, st, fn)
  PROVE  fences' = fn - FencesPushed
BY DEF Return, ReleaseList

\* Counts that are those of now.
LEMMA SameCounts ==
  ASSUME IInv
  PROVE  /\ \A v \in View : view[v].refs = view[v].refs + (IF v = None THEN 1 ELSE 0)
         /\ \A b \in Storage : storage[b].refs = storage[b].refs + (IF b = None THEN 1 ELSE 0)
<1>1. /\ \A v \in View : view[v].refs \in Nat /\ v # None
      /\ \A b \in Storage : storage[b].refs \in Nat /\ b # None
  BY NoneAssumption DEF IInv, Shaped, Memory
<1> QED BY <1>1

LEMMA ExecuteFailsInv ==
  ASSUME IInv, ExecuteFails
  PROVE  IInv' /\ Adds(None, None)
<1>1. Return(view, storage, fences)
  BY DEF ExecuteFails
<1> QED BY <1>1, NowCounted, SameCounts, Returned

\* What a function writes leaves the references alone.
LEMMA OverwriteKeeps ==
  ASSUME IInv, NEW data
  PROVE  LET s == Overwrite(data)
         IN  /\ s = [b \in Storage |-> s[b]]
             /\ \A b \in Storage : DOMAIN s[b] = DOMAIN NoStorage /\ s[b].refs = storage[b].refs
             /\ Memory(view, s) /\ Counted(view, s)
<1> DEFINE s == Overwrite(data)
<1>1. s = [b \in Storage |-> s[b]]
  BY DEF Overwrite
<1>2. ASSUME NEW b \in Storage
      PROVE  DOMAIN s[b] = DOMAIN NoStorage /\ s[b].refs = storage[b].refs
  <2> DEFINE r == storage[b]
  <2>1. DOMAIN r = {"refs", "bytes", "given"} /\ DOMAIN NoStorage = {"refs", "bytes", "given"}
    BY DEF IInv, Shaped, Memory, NoStorage
  <2>2. \/ s[b] = r
        \/ \E e, c : s[b] = [r EXCEPT !.given = e, !.bytes = c]
    BY DEF Overwrite
  <2> HIDE DEF r, s
  <2>3. ASSUME NEW e, NEW c
        PROVE  /\ DOMAIN [r EXCEPT !.given = e, !.bytes = c] = DOMAIN r
               /\ [r EXCEPT !.given = e, !.bytes = c].refs = r.refs
    BY <2>1
  <2>4. DOMAIN s[b] = DOMAIN r /\ s[b].refs = r.refs
    BY <2>2, <2>3
  <2> QED BY <2>1, <2>4 DEF r
<1> HIDE DEF s
<1>3. \A b \in Storage : /\ DOMAIN s[b] = DOMAIN NoStorage
                         /\ s[b].refs \in Nat /\ s[b].refs >= storage[b].refs
  BY <1>2 DEF IInv, Shaped, Memory
<1>4. /\ view = [v \in View |-> view[v]]
      /\ \A v \in View : /\ DOMAIN view[v] = DOMAIN NoView
                         /\ view[v].refs \in Nat /\ view[v].refs >= view[v].refs
  BY DEF IInv, Shaped, Memory
<1>5. Memory(view, s) /\ Counted(view, s)
  BY <1>1, <1>3, <1>4, StillCounted
<1> QED BY <1>1, <1>2, <1>5 DEF s

LEMMA InvokeInv ==
  ASSUME IInv, Invoke
  PROVE  IInv' /\ Adds(None, None)
<1>1. PICK data : Return(view, Overwrite(data), fences)
  BY DEF Invoke
<1> DEFINE s == Overwrite(data)
<1>2. Memory(view, s) /\ Counted(view, s) /\ \A b \in Storage : s[b].refs = storage[b].refs
  BY OverwriteKeeps
<1>3. Return(view, s, fences)
  BY <1>1
<1> HIDE DEF s
<1>4. \A c \in Storage : s[c].refs = storage[c].refs + (IF c = None THEN 1 ELSE 0)
  BY <1>2, SameCounts
<1> QED BY <1>2, <1>3, <1>4, SameCounts, Returned

\* The reference that did not get into the list stays.
LEMMA PushFailsInv ==
  ASSUME IInv, PushFails
  PROVE  /\ IInv'
         /\ \/ /\ fences' = fences - FencesPushed
               /\ (\E v \in View : Adds(v, None)) \/ (\E b \in Storage : Adds(None, b))
            \/ fences' = (fences + 1) - FencesPushed /\ Adds(None, None)
<1>1. call # None
  BY DEF PushFails
<1>2. CASE /\ Pushing("arg") /\ Supplied
           /\ Return([view EXCEPT ![holds[call.args[call.next]]].refs = @ + 1], storage, fences)
  <2> DEFINE v == holds[call.args[call.next]]
  <2>1. v \in View /\ view[v].refs > 0
    BY <1>2, PushingPlaces, CallHasViews DEF IInv, Supplied
  <2> HIDE DEF v
  <2> DEFINE n == view[v].refs
             p == view[v]
             q == [p EXCEPT !.refs = n + 1]
             w == [view EXCEPT ![v] = q]
  <2>2. /\ q.refs = n + 1 /\ q.storage = p.storage /\ DOMAIN q = DOMAIN NoView
        /\ n \in Nat
    <3>1. DOMAIN p = DOMAIN NoView /\ n \in Nat
      BY <2>1 DEF IInv, Shaped, Memory
    <3> QED BY <3>1, ViewExcept
  <2>3. Return(w, storage, fences)
    BY <1>2 DEF v
  <2> HIDE DEF q
  <2>4. /\ w = [x \in View |-> w[x]] /\ w[v] = q
        /\ \A x \in View : x # v => w[x] = view[x]
    BY <2>1 DEF IInv, Shaped, Memory
  <2> HIDE DEF w
  <2>5. ASSUME NEW x \in View
        PROVE  /\ DOMAIN w[x] = DOMAIN NoView /\ w[x].storage = view[x].storage
               /\ w[x].refs \in Nat /\ w[x].refs >= view[x].refs
               /\ view[x].refs = 0 => w[x].refs = 0
    <3>1. DOMAIN view[x] = DOMAIN NoView /\ view[x].refs \in Nat
      BY DEF IInv, Shaped, Memory
    <3>2. CASE x = v
      BY <2>1, <2>2, <2>4, <3>2
    <3>3. CASE x # v
      BY <2>4, <3>1, <3>3
    <3> QED BY <3>2, <3>3
  <2>6. /\ storage = [b \in Storage |-> storage[b]]
        /\ \A b \in Storage : /\ DOMAIN storage[b] = DOMAIN NoStorage
                              /\ storage[b].refs \in Nat /\ storage[b].refs >= storage[b].refs
    BY DEF IInv, Shaped, Memory
  <2>7. Memory(w, storage) /\ Counted(w, storage)
    BY <2>4, <2>5, <2>6, StillCounted
  <2>8. ASSUME NEW x \in View
        PROVE  /\ w[x].storage = view[x].storage
               /\ w[x].refs = view[x].refs + (IF x = v THEN 1 ELSE 0)
    <3>1. view[x].refs \in Nat
      BY DEF IInv, Shaped, Memory
    <3>2. CASE x = v
      BY <2>2, <2>4, <3>2
    <3>3. CASE x # v
      BY <2>4, <3>1, <3>3
    <3> QED BY <3>2, <3>3
  <2>9. IInv' /\ Adds(v, None)
    BY <2>3, <2>7, <2>8, SameCounts, Returned
  <2>10. fences' = fences - FencesPushed
    BY <2>3, FencesReturned
  <2> QED BY <2>1, <2>9, <2>10
<1>3. CASE /\ Pushing("workspace") /\ WorkspaceFits
           /\ Return(view, [storage EXCEPT ![Viewed(call.workspace).storage].refs = @ + 1], fences)
  <2> DEFINE b == view[holds[call.workspace]].storage
  <2>1. b \in Storage
    BY <1>1, <1>3, CallHasViews DEF WorkspaceFits
  <2> DEFINE p == storage[b]
             r == [p EXCEPT !.refs = p.refs + 1]
             s == [storage EXCEPT ![b] = r]
  <2>2. Return(view, s, fences)
    BY <1>3 DEF Viewed
  <2> HIDE DEF b
  <2>3. DOMAIN r = DOMAIN NoStorage /\ r.refs \in Nat /\ r.refs >= storage[b].refs
    <3>1. DOMAIN p = DOMAIN NoStorage /\ p.refs \in Nat
      BY <2>1 DEF IInv, Shaped, Memory
    <3>2. r.refs = p.refs + 1 /\ DOMAIN r = DOMAIN NoStorage
      BY <3>1, StorageExcept
    <3> HIDE DEF r
    <3> QED BY <3>1, <3>2
  <2>4. r.refs = storage[b].refs + 1
    <3>1. DOMAIN p = DOMAIN NoStorage
      BY <2>1 DEF IInv, Shaped, Memory
    <3>2. r.refs = p.refs + 1
      BY <3>1, StorageExcept
    <3> HIDE DEF r
    <3> QED BY <3>2
  <2> HIDE DEF r
  <2>5. Memory(view, s) /\ Counted(view, s)
    BY <2>1, <2>3, OtherStorage
  <2>6. ASSUME NEW c \in Storage
        PROVE  s[c].refs = storage[c].refs + (IF c = b THEN 1 ELSE 0)
    <3>1. /\ storage[c].refs \in Nat /\ storage = [x \in Storage |-> storage[x]]
      BY DEF IInv, Shaped, Memory
    <3>2. CASE c = b
      BY <2>1, <2>4, <3>1, <3>2
    <3>3. CASE c # b
      BY <2>1, <3>1, <3>3
    <3> QED BY <3>2, <3>3
  <2> HIDE DEF s
  <2>7. IInv' /\ Adds(None, b)
    BY <2>2, <2>5, <2>6, SameCounts, Returned
  <2>8. fences' = fences - FencesPushed
    BY <2>2, FencesReturned
  <2> QED BY <2>1, <2>7, <2>8
<1>4. CASE Return(view, storage, fences + 1)
  <2>1. fences' = (fences + 1) - FencesPushed
    BY <1>4, FencesReturned
  <2> QED BY <1>4, <2>1, NowCounted, SameCounts, Returned
<1> QED BY <1>2, <1>3, <1>4 DEF PushFails

-----------------------------------------------------------------------------
(* How far a call is                                                       *)

PassedBefore(tensors, n) == {i \in DOMAIN tensors : i < n /\ Passed(tensors[i])}

\* What was pushed after n tensors, when place i is the next.
Beyond(n, i) == IF i > n + 1 THEN i - 1 - n ELSE 0

(* The list has what execute passed so far: of the tensors only those that the       *)
(* function takes, and the variantPack had them.                                     *)
Progressed == call # None =>
  /\ \A i \in DOMAIN call.args :
       i < call.next => (Passed(call.tensors[i]) <=> call.args[i] # None)
  /\ call.next > Len(call.args) + 1 /\ call.need # 0 => call.workspace # None
  /\ call.room = ListCapacity(call.loaded, call.async)
  /\ Len(list) = Cardinality(PassedBefore(call.tensors, call.next))
                   + Beyond(Len(call.args), call.next)

\* What createVmContext counts of the tensors.
Counts(tensors) == Outputs(tensors) \cup Inputs(tensors)

LEMMA CapacityOf ==
  ASSUME NEW tensors \in Seq(GraphTensor), NEW async \in BOOLEAN
  PROVE  LET m == IF async THEN 4 ELSE 2
         IN  /\ m \in {2, 4}
             /\ ListCapacity(tensors, async) = Cardinality(Counts(tensors)) + m - 1
<1> DEFINE O == Outputs(tensors)
           I == Inputs(tensors)
<1>1. O \in SUBSET DOMAIN tensors /\ I \in SUBSET DOMAIN tensors /\ O \cap I = {}
  BY DEF Outputs, Inputs
<1>2. ListCapacity(tensors, async) = Cardinality(O) + Cardinality(I) + 1 + IF async THEN 2 ELSE 0
  BY DEF ListCapacity, Outputs, Inputs
<1> HIDE DEF O, I
<1>3. /\ IsFiniteSet(O) /\ IsFiniteSet(I)
      /\ Cardinality(O) \in Nat /\ Cardinality(I) \in Nat
  BY <1>1, TensorsFinite
<1>4. Cardinality(O \cup I) = Cardinality(O) + Cardinality(I)
  <2>1. Cardinality(O \cup I) = Cardinality(O) + Cardinality(I) - Cardinality(O \cap I)
    BY <1>3, FS_Union
  <2>2. Cardinality(O \cap I) = 0
    BY <1>1, FS_EmptySet
  <2> QED BY <1>3, <2>1, <2>2
<1>5. Counts(tensors) = O \cup I
  BY DEF Counts, O, I
<1> QED BY <1>2, <1>3, <1>4, <1>5

\* The tensors that execute passes are among them, and all of them in the end.
LEMMA PassedCounted ==
  ASSUME NEW tensors \in Seq(GraphTensor), NEW i \in Nat
  PROVE  LET P == PassedBefore(tensors, i)
         IN  /\ Cardinality(P) \in Nat /\ Cardinality(Counts(tensors)) \in Nat
             /\ Cardinality(P) <= Cardinality(Counts(tensors))
             /\ i > Len(tensors) => P = Counts(tensors)
<1> DEFINE P == PassedBefore(tensors, i)
           C == Counts(tensors)
<1>1. P \in SUBSET C /\ C \in SUBSET DOMAIN tensors /\ P \in SUBSET DOMAIN tensors
  BY DEF PassedBefore, Counts, Passed, Outputs, Inputs
<1>2. i > Len(tensors) => P = C
  BY DEF PassedBefore, Counts, Passed, Outputs, Inputs
<1> HIDE DEF P, C
<1>3. IsFiniteSet(C) /\ Cardinality(C) \in Nat /\ Cardinality(P) \in Nat
  BY <1>1, TensorsFinite
<1>4. Cardinality(P) <= Cardinality(C)
  BY <1>1, <1>3, FS_Subset
<1> QED BY <1>2, <1>3, <1>4 DEF P, C

\* The places before the next one.
LEMMA OneFurther ==
  ASSUME NEW tensors \in Seq(GraphTensor), NEW i \in Nat \ {0}
  PROVE  Cardinality(PassedBefore(tensors, i + 1))
           = Cardinality(PassedBefore(tensors, i))
               + (IF i \in DOMAIN tensors /\ Passed(tensors[i]) THEN 1 ELSE 0)
<1> DEFINE P == PassedBefore(tensors, i)
           Q == PassedBefore(tensors, i + 1)
<1>1. P \in SUBSET DOMAIN tensors /\ i \notin P /\ \A k \in DOMAIN tensors : k \in Int
  BY DEF PassedBefore
<1>2. IsFiniteSet(P) /\ Cardinality(P) \in Nat
  BY <1>1, TensorsFinite
<1>3. CASE i \in DOMAIN tensors /\ Passed(tensors[i])
  <2>1. Q = P \cup {i}
    BY <1>1, <1>3 DEF PassedBefore
  <2> HIDE DEF P, Q
  <2>2. Cardinality(Q) = Cardinality(P) + 1
    BY <1>1, <1>2, <2>1, FS_AddElement
  <2> QED BY <1>3, <2>2 DEF P, Q
<1>4. CASE ~(i \in DOMAIN tensors /\ Passed(tensors[i]))
  <2>1. Q = P
    BY <1>1, <1>4 DEF PassedBefore
  <2> HIDE DEF P, Q
  <2>2. Cardinality(Q) = Cardinality(P) + 0
    BY <1>2, <2>1
  <2> QED BY <1>4, <2>2 DEF P, Q
<1> QED BY <1>3, <1>4

\* A call starts with nothing pushed.
LEMMA ExecuteProgressed ==
  ASSUME IInv, Execute
  PROVE  Progressed'
<1> SUFFICES ASSUME call' # None PROVE Progressed'
  BY DEF Progressed
<1>1. list' = <<>> /\ IInv'
  BY ExecuteInv DEF Execute, IInv
<1>2. call'.next = 1 /\ call'.room = ListCapacity(call'.loaded, call'.async)
  <2>1. PICK tensors \in Graphs, loaded \in Graphs, workspace \in Slot \cup {None},
             need \in Sizes, async \in BOOLEAN :
          \E args \in [DOMAIN tensors -> Slot \cup {None}] :
            call' = [tensors |-> tensors, args |-> args, workspace |-> workspace,
                     need |-> need, async |-> async, loaded |-> loaded,
                     room |-> ListCapacity(loaded, async), next |-> 1]
    BY Zenon DEF Execute
  <2>2. PICK args :
            call' = [tensors |-> tensors, args |-> args, workspace |-> workspace,
                     need |-> need, async |-> async, loaded |-> loaded,
                     room |-> ListCapacity(loaded, async), next |-> 1]
    BY Zenon, <2>1
  <2> QED BY <2>2
<1>3. call'.tensors \in Seq(GraphTensor) /\ call'.args \in Seq(Slot \cup {None})
      /\ DOMAIN call'.args = DOMAIN call'.tensors
  BY <1>1 DEF IInv, Called, Call
<1>4. Cardinality(PassedBefore(call'.tensors, 1)) = 0
  <2>1. PassedBefore(call'.tensors, 1) = {}
    BY <1>3 DEF PassedBefore
  <2> QED BY <2>1, FS_EmptySet
<1>5. Len(call'.args) \in Nat
  BY <1>3
<1>6. Beyond(Len(call'.args), 1) = 0 /\ ~(1 > Len(call'.args) + 1)
  BY <1>5 DEF Beyond
<1>7. Len(list') = 0 + 0
  BY <1>1
<1>8. \A i \in DOMAIN call'.args : ~(i < 1)
  BY <1>3
<1> QED BY <1>2, <1>4, <1>6, <1>7, <1>8 DEF Progressed

\* A step of a call, to the tensor or what follows after next.
LEMMA StepProgressed ==
  ASSUME IInv, Progressed, NEW place \in {"arg", "workspace", "fence"}, Pushing(place),
         call' = [call EXCEPT !.next = call.next + 1],
         NEW k \in {0, 1}, Len(list') = Len(list) + k,
         IF place = "arg" THEN /\ k = IF Taken THEN 1 ELSE 0
                               /\ Taken <=> Supplied
                          ELSE k = 1,
         place = "workspace" /\ call.need # 0 => call.workspace # None
  PROVE  Progressed'
<1>1. /\ call # None /\ call \in Call
      /\ place = "arg" => call.next \in DOMAIN call.args
  BY PushingPlaces DEF IInv
<1> DEFINE t == call.tensors
           a == call.args
           n == Len(call.args)
           i == call.next
<1>2. /\ t \in Seq(GraphTensor) /\ a \in Seq(Slot \cup {None}) /\ DOMAIN a = DOMAIN t
      /\ n \in Nat /\ i \in Nat \ {0} /\ DOMAIN a = 1..n
  <2>1. /\ t \in Seq(GraphTensor) /\ a \in Seq(Slot \cup {None}) /\ DOMAIN a = DOMAIN t
        /\ call.next \in 1..Len(call.args) + (IF call.async THEN 4 ELSE 2) /\ i \in Nat
    BY <1>1 DEF IInv, Called, Call
  <2>2. PICK m \in {2, 4} : m = IF call.async THEN 4 ELSE 2
    OBVIOUS
  <2>3. i \in 1..n + m
    BY Zenon, <2>1, <2>2
  <2>4. n \in Nat /\ DOMAIN a = 1..n
    BY <2>1
  <2> HIDE DEF n, i, t, a
  <2>5. i # 0
    BY <2>2, <2>3, <2>4
  <2> QED BY <2>1, <2>4, <2>5
<1>3. /\ call'.args = a /\ call'.tensors = t /\ call'.workspace = call.workspace
      /\ call'.need = call.need /\ call'.async = call.async /\ call'.loaded = call.loaded
      /\ call'.room = call.room /\ call'.next = i + 1
  BY <1>1 DEF Call
<1>4. /\ \A j \in DOMAIN a : j < i => (Passed(t[j]) <=> a[j] # None)
      /\ i > n + 1 /\ call.need # 0 => call.workspace # None
      /\ call.room = ListCapacity(call.loaded, call.async)
      /\ Len(list) = Cardinality(PassedBefore(t, i)) + Beyond(n, i)
  BY <1>1 DEF Progressed
<1>5. /\ place = "arg" => i <= n /\ (Taken <=> Passed(t[i])) /\ (Supplied <=> a[i] # None)
      /\ place = "workspace" => i = n + 1
      /\ place = "fence" => i > n + 1
  <2>1. place = "arg" => i <= n /\ (Taken <=> Passed(t[i])) /\ (Supplied <=> a[i] # None)
    BY DEF Pushing, Taken, Supplied
  <2>2. place = "workspace" => i = n + 1
    BY DEF Pushing
  <2>3. place = "fence" => i - n \in {2, 3}
    BY DEF Pushing
  <2> QED BY <1>2, <2>1, <2>2, <2>3
<1> DEFINE c == Cardinality(PassedBefore(t, i))
           d == Cardinality(PassedBefore(t, i + 1))
<1>6. c \in Nat /\ d = c + (IF i \in DOMAIN t /\ Passed(t[i]) THEN 1 ELSE 0)
  BY <1>2, OneFurther, PassedCounted
<1> HIDE DEF t, a, n, i, c, d
<1>7. d + Beyond(n, i + 1) = c + Beyond(n, i) + k
  <2>1. CASE place = "arg"
    <3>1. Beyond(n, i) = 0 /\ Beyond(n, i + 1) = 0
      BY <1>2, <1>5, <2>1 DEF Beyond
    <3>2. i \in DOMAIN t
      BY <1>1, <1>2, <2>1 DEF i, a
    <3>3. d = c + k
      BY <1>5, <1>6, <2>1, <3>2
    <3> QED BY <1>6, <3>1, <3>3
  <2>2. CASE place # "arg"
    <3>1. i >= n + 1 /\ k = 1
      BY <1>2, <1>5, <2>2
    <3>2. Beyond(n, i + 1) = i - n /\ Beyond(n, i) = i - 1 - n
      BY <1>2, <3>1 DEF Beyond
    <3>3. i \notin DOMAIN t
      BY <1>2, <3>1
    <3>4. d = c /\ c \in Nat
      BY <1>6, <3>3
    <3> QED BY <1>2, <3>1, <3>2, <3>4
  <2> QED BY <2>1, <2>2
<1>8. Len(list') = d + Beyond(n, i + 1)
  BY <1>4, <1>7 DEF c
<1>9. ASSUME NEW j \in DOMAIN a, j < i + 1
      PROVE  Passed(t[j]) <=> a[j] # None
  <2>1. j \in Nat
    BY <1>2
  <2>2. CASE j < i
    BY <1>4, <2>2
  <2>3. CASE j = i
    <3>1. place = "arg"
      BY <1>2, <1>5, <2>3
    <3> QED BY <1>5, <2>3, <3>1
  <2> QED BY <1>2, <1>9, <2>1, <2>2, <2>3
<1>10. i + 1 > n + 1 /\ call.need # 0 => call.workspace # None
  BY <1>2, <1>4, <1>5
<1>11. /\ \A j \in DOMAIN call'.args :
            j < call'.next => (Passed(call'.tensors[j]) <=> call'.args[j] # None)
       /\ call'.next > Len(call'.args) + 1 /\ call'.need # 0 => call'.workspace # None
       /\ call'.room = ListCapacity(call'.loaded, call'.async)
  BY <1>3, <1>4, <1>9, <1>10 DEF n, a
<1>12. Len(list') = Cardinality(PassedBefore(call'.tensors, call'.next))
                      + Beyond(Len(call'.args), call'.next)
  BY <1>3, <1>8 DEF d, n, a
<1> QED BY <1>11, <1>12 DEF Progressed

LEMMA ProgressedInit == Init => Progressed
BY DEF Init, Progressed

LEMMA ProgressedNext == IInv /\ Progressed /\ [Next]_vars => Progressed'
<1> SUFFICES ASSUME IInv, Progressed, [Next]_vars PROVE Progressed'
  OBVIOUS
<1>1. CASE UNCHANGED <<call, list>>
  BY <1>1 DEF Progressed
<1>2. CASE Execute
  BY <1>2, ExecuteProgressed
<1>3. ASSUME NEW place \in {"arg", "workspace", "fence"}, Pushing(place),
             NEW e, Pushed(e),
             place = "arg" => Taken /\ Supplied,
             place = "workspace" /\ call.need # 0 => call.workspace # None
      PROVE  Progressed'
  <2>1. call' = [call EXCEPT !.next = call.next + 1] /\ list' = Append(list, e)
    BY <1>3 DEF Pushed
  <2>2. Len(list') = Len(list) + 1
    BY <2>1 DEF IInv, Shaped
  <2> QED BY <1>3, <2>1, <2>2, StepProgressed
<1>4. CASE PushArg
  BY <1>3, <1>4 DEF PushArg
<1>5. CASE SkipArg
  <2>1. /\ Pushing("arg") /\ ~Taken /\ ~Supplied /\ list' = list
        /\ call' = [call EXCEPT !.next = call.next + 1]
    BY <1>5 DEF SkipArg
  <2>2. Len(list') = Len(list) + 0
    BY <2>1 DEF IInv, Shaped
  <2> QED BY <2>1, <2>2, StepProgressed
<1>6. CASE PushWorkspace
  <2>1. Pushing("workspace") /\ (call.need # 0 => call.workspace # None) /\ \E e : Pushed(e)
    BY <1>6 DEF PushWorkspace, WorkspaceFits
  <2> QED BY <1>3, <2>1
<1>7. CASE PushFence
  <2>1. Pushing("fence") /\ \E e : Pushed(e)
    BY <1>7 DEF PushFence
  <2> QED BY <1>3, <2>1
<1>8. CASE PushFails \/ ExecuteFails \/ Invoke
  <2>1. call' = None
    BY <1>8 DEF PushFails, ExecuteFails, Invoke, Return
  <2> QED BY <2>1 DEF Progressed
<1>9. CASE \/ \E s \in Slot :
                \/ Allocate(s) \/ AllocateRaw(s) \/ Destroy(s)
                \/ \E v \in View : Import(s, v)
                \/ \E r \in Slot : Move(s, r)
           \/ Lend \/ (\E v \in View : TakeBack(v)) \/ AllocateRawFails \/ UNCHANGED vars
  <2>1. UNCHANGED <<call, list>>
    BY <1>9 DEF Allocate, AllocateRaw, Destroy, Import, Move, Lend, TakeBack,
                AllocateRawFails, vars
  <2> QED BY <1>1, <2>1
<1> QED BY <1>2, <1>4, <1>5, <1>6, <1>7, <1>8, <1>9 DEF Next

\* What a function writes to are Buffers of the call, that have their views.
LEMMA OverwrittenLive ==
  ASSUME IInv, Progressed, Pushing("invoke")
  PROVE  \A v \in Overwritten :
           v \in View /\ view[v].refs # 0 /\ view[v].storage \in Storage
<1>1. call # None /\ call \in Call
  BY DEF Pushing, IInv, Called
<1> DEFINE n == Len(call.args)
<1>2. /\ DOMAIN call.args = 1..n /\ n \in Nat /\ call.workspace \in Slot \cup {None}
      /\ call.next = n + IF call.async THEN 4 ELSE 2
  BY <1>1 DEF Call, Pushing
<1>3. call.next > n + 1
  <2> DEFINE i == call.next
  <2>1. PICK m \in {2, 4} : i = n + m
    BY <1>2
  <2> HIDE DEF i, n
  <2>2. i > n + 1
    BY <1>2, <2>1
  <2> QED BY <2>2 DEF i
<1> TAKE v \in Overwritten
<1>4. CASE call.need # 0 /\ v = holds[call.workspace]
  <2>1. call.workspace # None
    BY <1>1, <1>3, <1>4 DEF Progressed
  <2>2. v \in View /\ call.workspace \in Slot
    BY <1>1, <1>2, <1>4, <2>1 DEF IInv, Called
  <2>3. view[v].refs > 0 /\ view[v].storage \in Storage /\ view[v].refs \in Nat
    BY <1>4, <2>2, HeldHasReference DEF IInv, Shaped, Memory
  <2> QED BY <2>2, <2>3
<1>5. CASE \E i \in DOMAIN call.args : /\ Passed(call.tensors[i])
                                      /\ v = holds[call.args[i]]
  <2>1. PICK i \in DOMAIN call.args : Passed(call.tensors[i]) /\ v = holds[call.args[i]]
    BY <1>5
  <2>2. i < call.next
    <3> DEFINE j == call.next
    <3>1. j > n + 1 /\ i \in 1..n /\ j \in Nat
      BY <1>1, <1>2, <1>3, <2>1 DEF Call
    <3> HIDE DEF n, j
    <3>2. i < j
      BY <1>2, <3>1
    <3> QED BY <3>2 DEF j
  <2>3. call.args[i] # None
    BY <1>1, <2>1, <2>2 DEF Progressed
  <2>4. v \in View /\ view[v].refs > 0 /\ view[v].storage \in Storage
    BY <1>1, <2>1, <2>3, CallHasViews
  <2>5. view[v].refs \in Nat
    BY <2>4 DEF IInv, Shaped, Memory
  <2> QED BY <2>4, <2>5
<1> QED BY <1>4, <1>5 DEF Overwritten

-----------------------------------------------------------------------------
(* What is lost                                                            *)

FencesAt(l) == {i \in DOMAIN l : l[i].kind = "fence"}

LEMMA FencesFinite ==
  ASSUME NEW S, NEW l \in Seq(S)
  PROVE  IsFiniteSet(FencesAt(l)) /\ Cardinality(FencesAt(l)) \in Nat
<1>1. FencesAt(l) \in SUBSET (1..Len(l)) /\ 1 \in Int /\ Len(l) \in Int
  BY DEF FencesAt
<1> QED BY <1>1, FS_Interval, FS_Subset, FS_CardinalityType

LEMMA FencesAppend ==
  ASSUME NEW S, NEW l \in Seq(S), NEW e \in S
  PROVE  Cardinality(FencesAt(Append(l, e)))
           = Cardinality(FencesAt(l)) + (IF e.kind = "fence" THEN 1 ELSE 0)
<1> DEFINE n == Len(l) + 1
<1>1. /\ DOMAIN Append(l, e) = 1..n /\ DOMAIN l = 1..Len(l) /\ Len(l) \in Nat
      /\ Append(l, e)[n] = e /\ \A i \in 1..Len(l) : Append(l, e)[i] = l[i]
  OBVIOUS
<1>2. n \notin FencesAt(l)
  BY <1>1 DEF FencesAt
<1>3. IsFiniteSet(FencesAt(l)) /\ Cardinality(FencesAt(l)) \in Nat
  BY FencesFinite
<1>4. CASE e.kind = "fence"
  <2>1. FencesAt(Append(l, e)) = FencesAt(l) \cup {n}
    BY <1>1, <1>4 DEF FencesAt
  <2>2. Cardinality(FencesAt(l) \cup {n}) = Cardinality(FencesAt(l)) + 1
    BY <1>2, <1>3, FS_AddElement
  <2> QED BY <1>4, <2>1, <2>2
<1>5. CASE e.kind # "fence"
  <2>1. FencesAt(Append(l, e)) = FencesAt(l)
    BY <1>1, <1>5 DEF FencesAt
  <2> QED BY <1>3, <1>5, <2>1
<1> QED BY <1>4, <1>5

\* The fences that no place of the list refers to.
FenceExcess == fences - FencesPushed

LossesOfViews    == SumFunction([v \in View |-> ViewExcess(v)])
LossesOfStorages == SumFunction([b \in Storage |-> StorageExcess(b)])

(* The invariant of NothingElseLost: nothing of the list is without a fence. *)
Balanced == FenceExcess \in Nat /\ fences \in Int /\ lost \in Nat /\ NothingElseLost

\* A step that adds references changes the sums by as many.
LEMMA LossesAfter ==
  ASSUME IInv, IInv', NEW p, NEW q, Adds(p, q)
  PROVE  /\ LossesOfViews \in Int /\ LossesOfStorages \in Int
         /\ LossesOfViews' = LossesOfViews + (IF p \in View THEN 1 ELSE 0)
         /\ LossesOfStorages' = LossesOfStorages + (IF q \in Storage THEN 1 ELSE 0)
<1> DEFINE f == [v \in View |-> ViewExcess(v)]
           h == [v \in View |-> ViewExcess(v)']
           k == [b \in Storage |-> StorageExcess(b)]
           m == [b \in Storage |-> StorageExcess(b)']
<1>1. /\ \A v \in View : ViewExcess(v) \in Int /\ ViewExcess(v)' \in Int
      /\ \A b \in Storage : StorageExcess(b) \in Int /\ StorageExcess(b)' \in Int
  <2>1. /\ \A v \in View : ViewExcess(v)' = ViewExcess(v) + (IF v = p THEN 1 ELSE 0)
        /\ \A b \in Storage : StorageExcess(b)' = StorageExcess(b) + (IF b = q THEN 1 ELSE 0)
    BY DEF Adds
  <2> QED BY <2>1, Excesses
<1>2. f \in [View -> Int] /\ h \in [View -> Int] /\ k \in [Storage -> Int] /\ m \in [Storage -> Int]
  BY <1>1
<1>3. Raised(h, f, View, p) /\ Raised(m, k, Storage, q)
  BY DEF Adds, Raised
<1>4. /\ LossesOfViews = SumFunction(f) /\ LossesOfViews' = SumFunction(h)
      /\ LossesOfStorages = SumFunction(k) /\ LossesOfStorages' = SumFunction(m)
  BY DEF LossesOfViews, LossesOfStorages
<1> HIDE DEF f, h, k, m
<1>5. SumFunction(f) \in Int /\ SumFunction(h) = SumFunction(f) + (IF p \in View THEN 1 ELSE 0)
  BY <1>2, <1>3, FiniteAssumption, SumAdds
<1>6. SumFunction(k) \in Int /\ SumFunction(m) = SumFunction(k) + (IF q \in Storage THEN 1 ELSE 0)
  BY <1>2, <1>3, FiniteAssumption, SumAdds
<1> QED BY <1>4, <1>5, <1>6

LEMMA LostNow == NothingElseLost <=> lost = LossesOfViews + LossesOfStorages + FenceExcess
BY DEF NothingElseLost, LossesOfViews, LossesOfStorages, FenceExcess, ViewExcess, StorageExcess

LEMMA LostAfter ==
  (NothingElseLost') <=> (lost' = LossesOfViews' + LossesOfStorages' + FenceExcess')
BY DEF NothingElseLost, LossesOfViews, LossesOfStorages, FenceExcess, ViewExcess, StorageExcess

LEMMA FencesNow ==
  ASSUME IInv
  PROVE  FencesPushed = Cardinality(FencesAt(list)) /\ FencesPushed \in Nat
<1>1. FencesPushed = Cardinality(FencesAt(list))
  BY DEF FencesPushed, FencesAt
<1> QED BY <1>1, FencesFinite DEF IInv, Shaped

\* Nothing is added, no fence made or released, and nothing lost.
LEMMA KeepsBalance ==
  ASSUME IInv, IInv', Balanced, Adds(None, None), fences' \in Int,
         FenceExcess' = FenceExcess, lost' = lost
  PROVE  Balanced'
<1>1. None \notin View /\ None \notin Storage
  BY NoneAssumption
<1>2. LossesOfViews' = LossesOfViews + 0 /\ LossesOfStorages' = LossesOfStorages + 0
  BY <1>1, LossesAfter
<1>3. LossesOfViews \in Int /\ LossesOfStorages \in Int
  BY LossesAfter
<1> QED BY <1>2, <1>3, LostNow, LostAfter DEF Balanced

\* A step that leaves the list and the fences alone.
LEMMA FencesStay ==
  ASSUME UNCHANGED <<list, fences>>
  PROVE  FenceExcess' = FenceExcess
BY DEF FenceExcess, FencesPushed

\* The list is gone, and with it its fences.
LEMMA FencesGone ==
  ASSUME IInv, Balanced, list' = <<>>, NEW n \in Int, fences' = (fences + n) - FencesPushed
  PROVE  fences' \in Int /\ FenceExcess' = FenceExcess + n
<1>1. FencesPushed \in Nat /\ fences \in Int
  BY FencesNow DEF Balanced
<1>2. FencesPushed' = 0
  <2>1. FencesAt(list') = {}
    BY DEF FencesAt
  <2> QED BY <2>1, FS_EmptySet DEF FencesPushed, FencesAt
<1> QED BY <1>1, <1>2 DEF FenceExcess

LEMMA FencesWithPush ==
  ASSUME IInv, Balanced, NEW e \in Entry, Pushed(e),
         fences' = fences + (IF e.kind = "fence" THEN 1 ELSE 0)
  PROVE  fences' \in Int /\ FenceExcess' = FenceExcess
<1>1. list' = Append(list, e) /\ list \in Seq(Entry) /\ fences \in Int
  BY DEF Pushed, IInv, Shaped, Balanced
<1> DEFINE C == Cardinality(FencesAt(list))
           D == Cardinality(FencesAt(Append(list, e)))
<1>2. D = C + (IF e.kind = "fence" THEN 1 ELSE 0)
  BY <1>1, FencesAppend
<1>3. FencesPushed = C /\ FencesPushed' = D /\ C \in Nat
  BY <1>1, FencesNow DEF FencesPushed, FencesAt
<1> HIDE DEF C, D
<1>4. PICK k \in {0, 1} : k = IF e.kind = "fence" THEN 1 ELSE 0
  OBVIOUS
<1>5. D = C + k /\ fences' = fences + k
  BY Zenon, <1>2, <1>4
<1> QED BY <1>1, <1>3, <1>5 DEF FenceExcess

-----------------------------------------------------------------------------
(* What is written                                                         *)

\* The storage r of a view w reads as what was written there last.
Matches(w, r) ==
  /\ w.type \in Type /\ w.shape \in Seq(Nat)
  /\ Decode(w.type, r.bytes, Count(w.shape)) = r.given

\* No storage is shared by two views, so that a function that writes through one
\* does not change what another one shows.
Written ==
  /\ \A v \in View : view[v].refs # 0 => Matches(view[v], storage[view[v].storage])
  /\ \A v, x \in View :
       view[v].refs # 0 /\ view[x].refs # 0 /\ view[v].storage = view[x].storage => v = x

\* A view or a storage without references is none.
Empty ==
  /\ \A v \in View : view[v].refs = 0 => view[v] = NoView
  /\ \A b \in Storage : storage[b].refs = 0 => storage[b] = NoStorage
  /\ \A b \in Storage : storage[b].bytes \in Seq(Byte)

Live == \A v \in View :
  view[v].refs # 0 => view[v].storage \in Storage /\ storage[view[v].storage].refs # 0

LEMMA IsLive == IInv => Live
<1> SUFFICES ASSUME IInv, NEW v \in View, view[v].refs # 0
             PROVE  view[v].storage \in Storage /\ storage[view[v].storage].refs # 0
  BY DEF Live
<1> DEFINE b == view[v].storage
<1>1. b \in Storage
  BY DEF IInv, Shaped, Memory
<1>2. v \in Views(view, b)
  BY DEF Views
<1>3. Cardinality(Views(view, b)) \in Nat \ {0}
  BY <1>2, ViewsFinite, FS_EmptySet
<1>4. /\ storage[b].refs >= Cardinality(Views(view, b)) + Cardinality(At(list, "storage", b))
      /\ Cardinality(At(list, "storage", b)) \in Nat /\ storage[b].refs \in Nat
  BY <1>1, AliveIsCounted, PushesAt DEF IInv, Counted, Shaped, Memory
<1> QED BY <1>1, <1>3, <1>4

LEMMA LiveAfter ==
  ASSUME IInv'
  PROVE  Live'
BY IsLive, PTL

\* A step keeps a view, or a storage, as w, or r, but for the number of references.
ViewKept(v, w) ==
  \/ view'[v] = NoView
  \/ /\ view'[v].refs # 0
     /\ view'[v].storage = w.storage /\ view'[v].type = w.type /\ view'[v].shape = w.shape

StorageKept(b, r) ==
  \/ storage'[b] = NoStorage
  \/ storage'[b].refs # 0 /\ storage'[b].bytes = r.bytes /\ storage'[b].given = r.given

StorageMade(b) ==
  storage[b].refs = 0 /\ storage'[b].refs # 0 /\ storage'[b].bytes \in Seq(Byte)

\* No view is made, and no storage of one; st says what is in the storages.
Kept(st) ==
  /\ \A v \in View : ViewKept(v, view[v])
  /\ \A b \in Storage : StorageKept(b, st[b]) \/ StorageMade(b)

LEMMA NoneEmpty ==
  /\ NoView.refs = 0 /\ NoView.storage = None
  /\ NoStorage.refs = 0 /\ NoStorage.bytes = <<>> /\ <<>> \in Seq(Byte)
BY DEF NoView, NoStorage

LEMMA KeptInv ==
  ASSUME IInv, IInv', Written, Empty, NEW st, Kept(st),
         \A v \in View : view[v].refs # 0 => Matches(view[v], st[view[v].storage]),
         \A b \in Storage : st[b].bytes \in Seq(Byte)
  PROVE  Written' /\ Empty'
<1>1. ASSUME NEW v \in View, view'[v].refs # 0
      PROVE  /\ view[v].refs # 0 /\ view'[v].storage = view[v].storage
             /\ view'[v].type = view[v].type /\ view'[v].shape = view[v].shape
             /\ view'[v].storage \in Storage /\ storage'[view'[v].storage].refs # 0
  <2>1. view'[v].storage \in Storage /\ storage'[view'[v].storage].refs # 0
    BY <1>1, LiveAfter DEF Live
  <2>2. /\ view'[v].storage = view[v].storage
        /\ view'[v].type = view[v].type /\ view'[v].shape = view[v].shape
    BY <1>1, NoneEmpty DEF Kept, ViewKept
  <2>3. view[v].refs # 0
    BY <2>1, <2>2, NoneAssumption DEF IInv, Shaped, Memory
  <2> QED BY <2>1, <2>2, <2>3
<1>2. ASSUME NEW v \in View, view'[v].refs # 0
      PROVE  Matches(view[v], storage[view[v].storage])'
  <2> DEFINE b == view[v].storage
  <2>1. /\ view[v].refs # 0 /\ view'[v].storage = b /\ b \in Storage /\ storage'[b].refs # 0
        /\ view'[v].type = view[v].type /\ view'[v].shape = view[v].shape
    BY <1>1, <1>2
  <2>2. storage[b].refs # 0
    BY <2>1, IsLive DEF Live
  <2>3. storage'[b].bytes = st[b].bytes /\ storage'[b].given = st[b].given
    BY <2>1, <2>2, NoneEmpty DEF Kept, StorageKept, StorageMade
  <2>4. Matches(view[v], st[b])
    BY <2>1
  <2> HIDE DEF b
  <2>5. /\ view[v].type \in Type /\ view[v].shape \in Seq(Nat)
        /\ Decode(view[v].type, st[b].bytes, Count(view[v].shape)) = st[b].given
    BY <2>4 DEF Matches
  <2>6. Decode(view'[v].type, storage'[b].bytes, Count(view'[v].shape)) = storage'[b].given
    BY <2>1, <2>3, <2>5
  <2> QED BY <2>1, <2>5, <2>6 DEF Matches
<1>3. ASSUME NEW v \in View, NEW x \in View, view'[v].refs # 0, view'[x].refs # 0,
             view'[v].storage = view'[x].storage
      PROVE  v = x
  BY <1>1, <1>3 DEF Written
<1>4. \A v \in View : view'[v].refs = 0 => view'[v] = NoView
  BY DEF Kept, ViewKept
<1>5. /\ \A b \in Storage : storage'[b].refs = 0 => storage'[b] = NoStorage
      /\ \A b \in Storage : storage'[b].bytes \in Seq(Byte)
  BY NoneEmpty DEF Kept, StorageKept, StorageMade
<1> QED BY <1>2, <1>3, <1>4, <1>5 DEF Written, Empty

\* The same for the storages as they are.
LEMMA StaysWritten ==
  ASSUME IInv, IInv', Written, Empty, Kept(storage)
  PROVE  Written' /\ Empty'
BY KeptInv DEF Written, Empty

\* What is not touched is kept.
LEMMA ViewUntouched ==
  ASSUME Empty, NEW v \in View, view'[v] = view[v]
  PROVE  ViewKept(v, view[v])
BY DEF Empty, ViewKept

LEMMA StorageUntouched ==
  ASSUME Empty, NEW b \in Storage, storage'[b] = storage[b]
  PROVE  StorageKept(b, storage[b])
BY DEF Empty, StorageKept

LEMMA UntouchedKept ==
  ASSUME Empty, UNCHANGED <<view, storage>>
  PROVE  Kept(storage)
BY ViewUntouched, StorageUntouched DEF Kept

\* A view that somebody holds loses a reference.
LEMMA ReleaseKept ==
  ASSUME IInv, Empty, NEW v \in View, view[v].refs # 0, ReleaseView(v)
  PROVE  Kept(storage)
<1> DEFINE b == view[v].storage
<1>1. /\ view[v].refs \in Nat \ {0} /\ b \in Storage /\ storage[b].refs \in Nat \ {0}
      /\ DOMAIN view[v] = DOMAIN NoView /\ DOMAIN storage[b] = DOMAIN NoStorage
      /\ view = [x \in View |-> view[x]] /\ storage = [x \in Storage |-> storage[x]]
  BY IsLive DEF IInv, Shaped, Memory, Live
<1>2. /\ \A x \in View : x # v => view'[x] = view[x]
      /\ view'[v] = IF view[v].refs = 1 THEN NoView ELSE [view[v] EXCEPT !.refs = view[v].refs - 1]
  BY <1>1 DEF ReleaseView, Dropped
<1>3. ViewKept(v, view[v])
  <2>1. CASE view[v].refs = 1
    BY <1>2, <2>1 DEF ViewKept
  <2>2. CASE view[v].refs # 1
    <3> DEFINE p == view[v]
               q == [p EXCEPT !.refs = p.refs - 1]
    <3>1. q.refs = p.refs - 1 /\ q.storage = p.storage /\ q.type = p.type /\ q.shape = p.shape
      BY <1>1, ViewExcept
    <3>2. view'[v] = q
      BY <1>2, <2>2
    <3> HIDE DEF q
    <3>3. p.refs - 1 # 0
      BY <1>1, <2>2
    <3> QED BY <3>1, <3>2, <3>3 DEF ViewKept
  <2> QED BY <2>1, <2>2
<1>4. \A x \in View : ViewKept(x, view[x])
  BY <1>2, <1>3, ViewUntouched
<1>5. CASE view[v].refs # 1
  <2>1. storage' = storage
    BY <1>5 DEF ReleaseView
  <2> QED BY <1>4, <2>1, StorageUntouched DEF Kept
<1>6. CASE view[v].refs = 1
  <2>1. storage' = [storage EXCEPT ![b] = Dropped(storage[b], NoStorage)]
    BY <1>6 DEF ReleaseView, DropStorage
  <2>2. /\ \A c \in Storage : c # b => storage'[c] = storage[c]
        /\ storage'[b] = IF storage[b].refs = 1 THEN NoStorage
                         ELSE [storage[b] EXCEPT !.refs = storage[b].refs - 1]
    BY <1>1, <2>1 DEF Dropped
  <2>3. StorageKept(b, storage[b])
    <3>1. CASE storage[b].refs = 1
      BY <2>2, <3>1 DEF StorageKept
    <3>2. CASE storage[b].refs # 1
      <4> DEFINE p == storage[b]
                 q == [p EXCEPT !.refs = p.refs - 1]
      <4>1. q.refs = p.refs - 1 /\ q.bytes = p.bytes /\ q.given = p.given
        BY <1>1, StorageExcept
      <4>2. storage'[b] = q
        BY <2>2, <3>2
      <4> HIDE DEF q
      <4>3. p.refs - 1 # 0
        BY <1>1, <3>2
      <4> QED BY <4>1, <4>2, <4>3 DEF StorageKept
    <3> QED BY <3>1, <3>2
  <2> HIDE DEF b
  <2>4. \A c \in Storage : StorageKept(c, storage[c])
    BY <2>2, <2>3, StorageUntouched
  <2> QED BY <1>4, <2>4 DEF Kept
<1> QED BY <1>5, <1>6

\* A view, or a storage, gets a reference.
LEMMA ViewMore ==
  ASSUME IInv, NEW v \in View, NEW n \in Nat \ {0},
         NEW w, w = [view EXCEPT ![v].refs = n]
  PROVE  /\ \A x \in View : x # v => w[x] = view[x]
         /\ w[v].refs = n /\ w[v].storage = view[v].storage
         /\ w[v].type = view[v].type /\ w[v].shape = view[v].shape
<1> DEFINE p == view[v]
           q == [p EXCEPT !.refs = n]
<1>1. DOMAIN p = DOMAIN NoView /\ view = [x \in View |-> view[x]]
  BY DEF IInv, Shaped, Memory
<1>2. q.refs = n /\ q.storage = p.storage /\ q.type = p.type /\ q.shape = p.shape
  BY <1>1, ViewExcept
<1>3. w[v] = q /\ \A x \in View : x # v => w[x] = view[x]
  BY <1>1
<1> HIDE DEF q
<1> QED BY <1>2, <1>3

LEMMA StorageMore ==
  ASSUME IInv, NEW b \in Storage, NEW n \in Nat \ {0},
         NEW s, s = [storage EXCEPT ![b].refs = n]
  PROVE  /\ \A c \in Storage : c # b => s[c] = storage[c]
         /\ s[b].refs = n /\ s[b].bytes = storage[b].bytes /\ s[b].given = storage[b].given
<1> DEFINE p == storage[b]
           q == [p EXCEPT !.refs = n]
<1>1. DOMAIN p = DOMAIN NoStorage /\ storage = [x \in Storage |-> storage[x]]
  BY DEF IInv, Shaped, Memory
<1>2. q.refs = n /\ q.bytes = p.bytes /\ q.given = p.given
  BY <1>1, StorageExcept
<1>3. s[b] = q /\ \A x \in Storage : x # b => s[x] = storage[x]
  BY <1>1
<1> HIDE DEF q
<1> QED BY <1>2, <1>3

LEMMA ViewRetainedKept ==
  ASSUME IInv, Empty, NEW v \in View, view' = [view EXCEPT ![v].refs = @ + 1], storage' = storage
  PROVE  Kept(storage)
<1> DEFINE n == view[v].refs + 1
<1>1. n \in Nat \ {0} /\ view' = [view EXCEPT ![v].refs = n]
  BY DEF IInv, Shaped, Memory
<1> HIDE DEF n
<1>2. /\ \A x \in View : x # v => view'[x] = view[x]
      /\ view'[v].refs = n /\ view'[v].storage = view[v].storage
      /\ view'[v].type = view[v].type /\ view'[v].shape = view[v].shape
  BY <1>1, ViewMore
<1>3. ViewKept(v, view[v])
  BY <1>1, <1>2 DEF ViewKept
<1> QED BY <1>2, <1>3, ViewUntouched, StorageUntouched DEF Kept

LEMMA StorageRetainedKept ==
  ASSUME IInv, Empty, NEW b \in Storage, storage' = [storage EXCEPT ![b].refs = @ + 1], view' = view
  PROVE  Kept(storage)
<1> DEFINE n == storage[b].refs + 1
<1>1. n \in Nat \ {0} /\ storage' = [storage EXCEPT ![b].refs = n]
  BY DEF IInv, Shaped, Memory
<1> HIDE DEF n
<1>2. /\ \A x \in Storage : x # b => storage'[x] = storage[x]
      /\ storage'[b].refs = n /\ storage'[b].bytes = storage[b].bytes
      /\ storage'[b].given = storage[b].given
  BY <1>1, StorageMore
<1>3. StorageKept(b, storage[b])
  BY <1>1, <1>2 DEF StorageKept
<1> QED BY <1>2, <1>3, ViewUntouched, StorageUntouched DEF Kept

\* The list lets go of references that there were in vw and s, and changes nothing else.
LEMMA ListKept ==
  ASSUME IInv, NEW vw, NEW s, NEW st, NEW fn, Memory(vw, s), ReleaseList(vw, s, fn),
         \A v \in View : /\ vw[v].storage = view[v].storage
                         /\ vw[v].type = view[v].type /\ vw[v].shape = view[v].shape,
         \A b \in Storage : s[b].bytes = st[b].bytes /\ s[b].given = st[b].given
  PROVE  Kept(st)
<1> DEFINE left(v)  == vw[v].refs - Pushes("view", v)
           gone     == {v \in View : vw[v].refs > 0 /\ left(v) = 0}
           ended(b) == {v \in gone : vw[v].storage = b}
           kept(b)  == s[b].refs - Pushes("storage", b) - Cardinality(ended(b))
<1>1. /\ view' = [v \in View |-> IF left(v) = 0 THEN NoView ELSE [vw[v] EXCEPT !.refs = left(v)]]
      /\ storage' = [b \in Storage |-> IF kept(b) = 0 THEN NoStorage
                                       ELSE [s[b] EXCEPT !.refs = kept(b)]]
  BY DEF ReleaseList
<1> HIDE DEF left, kept
<1>2. ASSUME NEW v \in View PROVE ViewKept(v, view[v])
  <2>1. CASE left(v) = 0
    BY <1>1, <2>1 DEF ViewKept
  <2>2. CASE left(v) # 0
    <3> DEFINE p == vw[v]
               q == [p EXCEPT !.refs = left(v)]
    <3>1. q.refs = left(v) /\ q.storage = p.storage /\ q.type = p.type /\ q.shape = p.shape
      BY ViewExcept DEF Memory
    <3>2. view'[v] = q
      BY <1>1, <2>2
    <3> HIDE DEF q
    <3> QED BY <2>2, <3>1, <3>2 DEF ViewKept
  <2> QED BY <2>1, <2>2
<1>3. ASSUME NEW b \in Storage PROVE StorageKept(b, st[b])
  <2>1. CASE kept(b) = 0
    BY <1>1, <2>1 DEF StorageKept
  <2>2. CASE kept(b) # 0
    <3> DEFINE p == s[b]
               q == [p EXCEPT !.refs = kept(b)]
    <3>1. q.refs = kept(b) /\ q.bytes = p.bytes /\ q.given = p.given
      BY StorageExcept DEF Memory
    <3>2. storage'[b] = q
      BY <1>1, <2>2
    <3> HIDE DEF q
    <3> QED BY <2>2, <3>1, <3>2 DEF StorageKept
  <2> QED BY <2>1, <2>2
<1> QED BY <1>2, <1>3 DEF Kept

\* Elements as many as a shape says, in a storage that is as large as it says.
LEMMA Fits ==
  ASSUME NEW type \in Type, NEW shape \in Seq(Nat), NEW elements,
         elements \in Seq(Held(type)), Len(elements) = Count(shape)
  PROVE  /\ Encode(type, elements) \in Seq(Byte)
         /\ Len(Encode(type, elements)) = ByteLength(type, shape)
<1>1. Held(type) \subseteq Int
  BY HeldInt
<1>2. elements \in Seq(Int)
  BY <1>1
<1> QED BY <1>2, Bytes DEF ByteLength

\* A new view shows the elements it was made with.
LEMMA MadeWritten ==
  ASSUME IInv, IInv', Written, Empty, NEW v \in View, NEW b \in Storage,
         NEW type \in Type, NEW shape \in Seq(Nat), NEW elements,
         elements \in Seq(Held(type)), Len(elements) = Count(shape),
         MakeView(v, b, type, shape, elements)
  PROVE  Written' /\ Empty'
<1> DEFINE bytes == Encode(type, elements)
           n == ByteLength(type, shape)
           padded == [i \in 1..n |-> IF i <= Len(bytes) THEN bytes[i] ELSE 0]
           p == [refs |-> 1, storage |-> b, type |-> type, shape |-> shape]
           r == [refs |-> 1, given |-> elements, bytes |-> padded]
<1>1. /\ view[v] = NoView /\ storage[b] = NoStorage
      /\ view' = [view EXCEPT ![v] = p] /\ storage' = [storage EXCEPT ![b] = r]
  BY DEF MakeView
<1>2. bytes \in Seq(Byte) /\ Len(bytes) = n
  BY Fits
<1>3. padded = bytes
  <2>1. n \in Nat /\ bytes = [i \in 1..n |-> bytes[i]]
    BY <1>2
  <2> HIDE DEF bytes, n
  <2> QED BY <1>2, <2>1
<1>4. Decode(type, bytes, Count(shape)) = elements
  BY RoundTrip
<1>5. /\ p.refs = 1 /\ p.storage = b /\ p.type = type /\ p.shape = shape
      /\ r.refs = 1 /\ r.bytes = padded /\ r.given = elements
  OBVIOUS
<1> HIDE DEF p, r, padded, bytes, n
<1>6. /\ view'[v] = p /\ \A x \in View : x # v => view'[x] = view[x]
      /\ storage'[b] = r /\ \A c \in Storage : c # b => storage'[c] = storage[c]
  BY <1>1 DEF IInv, Shaped, Memory
<1>7. Matches(p, r)
  BY <1>3, <1>4, <1>5 DEF Matches
<1>8. ASSUME NEW x \in View, x # v, view'[x].refs # 0
      PROVE  /\ view'[x] = view[x] /\ view[x].storage \in Storage
             /\ view[x].storage # b /\ storage'[view[x].storage] = storage[view[x].storage]
  <2>1. view'[x] = view[x]
    BY <1>6, <1>8
  <2>2. view[x].storage \in Storage /\ storage[view[x].storage].refs # 0
    BY <1>8, <2>1, IsLive DEF Live
  <2>3. view[x].storage # b
    BY <1>1, <2>2, NoneEmpty
  <2> QED BY <1>6, <2>1, <2>2, <2>3
<1>9. ASSUME NEW x \in View, view'[x].refs # 0
      PROVE  Matches(view[x], storage[view[x].storage])'
  <2>1. CASE x = v
    <3>1. view'[x] = p /\ storage'[b] = r /\ p.storage = b
      BY <1>5, <1>6, <2>1
    <3> QED BY <1>7, <3>1 DEF Matches
  <2>2. CASE x # v
    <3>1. view'[x] = view[x] /\ storage'[view[x].storage] = storage[view[x].storage]
      BY <1>8, <1>9, <2>2
    <3>2. Matches(view[x], storage[view[x].storage])
      BY <1>9, <3>1 DEF Written
    <3> QED BY <3>1, <3>2 DEF Matches
  <2> QED BY <2>1, <2>2
<1>10. ASSUME NEW x \in View, NEW y \in View, view'[x].refs # 0, view'[y].refs # 0,
              view'[x].storage = view'[y].storage
       PROVE  x = y
  <2>1. view'[v].storage = b
    BY <1>5, <1>6
  <2>2. CASE x = v \/ y = v
    BY <1>8, <1>10, <2>1, <2>2
  <2>3. CASE x # v /\ y # v
    BY <1>8, <1>10, <2>3 DEF Written
  <2> QED BY <2>2, <2>3
<1>11. Empty'
  <2>1. \A x \in View : view'[x].refs = 0 => view'[x] = NoView
    BY <1>5, <1>6 DEF Empty
  <2>2. \A c \in Storage : storage'[c].refs = 0 => storage'[c] = NoStorage
    BY <1>5, <1>6 DEF Empty
  <2>3. \A c \in Storage : storage'[c].bytes \in Seq(Byte)
    BY <1>2, <1>3, <1>5, <1>6 DEF Empty
  <2> QED BY <2>1, <2>2, <2>3 DEF Empty
<1> QED BY <1>9, <1>10, <1>11 DEF Written

LEMMA WidthOf ==
  ASSUME NEW type \in Type
  PROVE  Bits[type] \in {4, 8, 16}
BY TypeIs, Int4Is, Int8Is, Int16Is

\* What SizesMatch and the size of the device say of a request.
LEMMA RequestFits ==
  ASSUME NEW q \in Requests, SizesMatch(q), ByteLength(q.type, q.shape) <= Capacity
  PROVE  /\ q.type \in Type /\ q.shape \in Seq(Nat)
         /\ Elements(q.type, q.data) \in Seq(Held(q.type))
         /\ Len(Elements(q.type, q.data)) = Count(q.shape)
<1>1. q.type \in Type /\ q.shape \in Seq(Nat)
  BY RequestsAssumption
<1> DEFINE n == Count(q.shape)
           M == 2^Width
<1>2. n \in Nat /\ (n < M => ExpectedSize(q.shape) = n)
  BY <1>1, SizeIsCount
<1>3. (n * Bits[q.type] + 7) \div 8 <= Capacity
  BY DEF ByteLength
<1>4. M \in Nat /\ Capacity \in Nat /\ 2 * Capacity < M
  BY WidthAssumption
<1>5. Bits[q.type] \in {4, 8, 16}
  BY <1>1, WidthOf
<1> HIDE DEF n, M
<1>6. n < M
  <2>1. CASE Bits[q.type] = 4
    BY <1>2, <1>3, <1>4, <2>1
  <2>2. CASE Bits[q.type] = 8
    BY <1>2, <1>3, <1>4, <2>2
  <2>3. CASE Bits[q.type] = 16
    BY <1>2, <1>3, <1>4, <2>3
  <2> QED BY <1>5, <2>1, <2>2, <2>3
<1>7. Len(q.data) = n
  BY <1>2, <1>6 DEF SizesMatch
<1> QED BY <1>1, <1>7, ElementsHeld DEF n

LEMMA CountOne ==
  ASSUME NEW n \in Nat
  PROVE  Count(<<n>>) = n
<1> DEFINE f == <<n>>
<1>1. f \in Seq(Nat) /\ DOMAIN f = {1} /\ f[1] = n
  OBVIOUS
<1> HIDE DEF f
<1>2. PICK g : Count(f) = g[DOMAIN f] /\ Products(g, DOMAIN f, f)
  BY <1>1, CountUnfolds
<1>3. Chosen({1}) = 1 /\ {1} \ {1} = {}
  BY DEF Chosen
<1>4. g[{1}] = n * 1
  BY <1>1, <1>2, <1>3 DEF Products
<1> QED BY <1>1, <1>2, <1>4 DEF f

\* A workspace is made of zeros.
LEMMA WorkspaceFilled ==
  ASSUME NEW size \in Nat
  PROVE  LET zeros == [i \in 1..size |-> 0]
         IN  /\ "int8" \in Type /\ <<size>> \in Seq(Nat)
             /\ zeros \in Seq(Held("int8")) /\ Len(zeros) = Count(<<size>>)
<1> DEFINE zeros == [i \in 1..size |-> 0]
<1>1. Held("int8") = Signed(128)
  BY Int8Is
<1>2. 0 \in Held("int8")
  BY <1>1 DEF Signed
<1>3. zeros \in Seq(Held("int8")) /\ Len(zeros) = size
  BY <1>2
<1>4. "int8" \in Type
  BY DEF Type, Bits
<1> HIDE DEF zeros
<1>5. <<size>> \in Seq(Nat)
  OBVIOUS
<1> QED BY <1>3, <1>4, <1>5, CountOne DEF zeros

\* Whatever is made is made as SizesMatch or the size asked for wants it.
LEMMA MakersWrite ==
  ASSUME IInv, IInv', Written, Empty,
         Lend \/ \E s \in Slot : Allocate(s) \/ AllocateRaw(s)
  PROVE  Written' /\ Empty'
<1>1. CASE Lend \/ \E s \in Slot : Allocate(s)
  <2>1. PICK q \in Requests, v \in View, b \in Storage :
          SizesMatch(q) /\ MakeView(v, b, q.type, q.shape, Elements(q.type, q.data))
    BY <1>1 DEF Lend, Allocate
  <2>2. ByteLength(q.type, q.shape) <= Capacity
    BY <2>1 DEF MakeView
  <2>3. /\ q.type \in Type /\ q.shape \in Seq(Nat)
        /\ Elements(q.type, q.data) \in Seq(Held(q.type))
        /\ Len(Elements(q.type, q.data)) = Count(q.shape)
    BY <2>1, <2>2, RequestFits
  <2> QED BY <2>1, <2>3, MadeWritten
<1>2. CASE \E s \in Slot : AllocateRaw(s)
  <2>1. PICK size \in Sizes, v \in View, b \in Storage :
          MakeView(v, b, "int8", <<size>>, [i \in 1..size |-> 0])
    BY <1>2 DEF AllocateRaw
  <2> DEFINE zeros == [i \in 1..size |-> 0]
  <2>2. size \in Nat
    BY SizesAssumption
  <2>3. /\ "int8" \in Type /\ <<size>> \in Seq(Nat)
        /\ zeros \in Seq(Held("int8")) /\ Len(zeros) = Count(<<size>>)
    BY <2>2, WorkspaceFilled
  <2> HIDE DEF zeros
  <2> QED BY <2>1, <2>3, MadeWritten DEF zeros
<1> QED BY <1>1, <1>2

\* Buffers that change hands, and views whose maker lets go of them.
LEMMA HandlersKeep ==
  ASSUME IInv, Empty,
         \/ \E v \in View : TakeBack(v)
         \/ \E s \in Slot : \/ Destroy(s) \/ \E v \in View : Import(s, v)
                            \/ \E r \in Slot : Move(s, r)
  PROVE  Kept(storage)
<1>1. ASSUME NEW v \in View, TakeBack(v) PROVE Kept(storage)
  <2>1. lent[v] /\ ReleaseView(v)
    BY <1>1 DEF TakeBack
  <2>2. view[v].refs # 0
    BY <2>1, HeldHasReference DEF IInv
  <2> QED BY <2>1, <2>2, ReleaseKept
<1>2. ASSUME NEW s \in Slot, ReleaseHeld(s) PROVE Kept(storage)
  <2>1. CASE holds[s] = None
    <3>1. UNCHANGED <<view, storage>>
      BY <1>2, <2>1 DEF ReleaseHeld
    <3> QED BY <3>1, UntouchedKept
  <2>2. CASE holds[s] # None
    <3>1. ReleaseView(holds[s]) /\ holds[s] \in View
      BY <1>2, <2>2 DEF ReleaseHeld, IInv, Shaped
    <3>2. view[holds[s]].refs # 0
      BY <3>1, HeldHasReference DEF IInv
    <3> QED BY <3>1, <3>2, ReleaseKept
  <2> QED BY <2>1, <2>2
<1>3. ASSUME NEW s \in Slot, NEW v \in View, Import(s, v) PROVE Kept(storage)
  <2>1. view' = [view EXCEPT ![v].refs = @ + 1] /\ storage' = storage
    BY <1>3 DEF Import
  <2> QED BY <2>1, ViewRetainedKept
<1> QED BY <1>1, <1>2, <1>3 DEF Destroy, Move

LEMMA RawFailsKeeps ==
  ASSUME IInv, Empty, AllocateRawFails
  PROVE  Kept(storage)
<1>1. PICK size \in Sizes, b \in Storage :
        /\ storage[b] = NoStorage /\ view' = view
        /\ storage' = [storage EXCEPT ![b] = [refs |-> 1, bytes |-> [i \in 1..size |-> 0],
                                              given |-> [i \in 1..size |-> 0]]]
  BY DEF AllocateRawFails
<1> DEFINE zeros == [i \in 1..size |-> 0]
           r == [refs |-> 1, bytes |-> zeros, given |-> zeros]
<1>2. r.refs = 1 /\ r.bytes = zeros
  OBVIOUS
<1>3. zeros \in Seq(Byte)
  <2>1. size \in Nat /\ 0 \in Byte
    BY SizesAssumption DEF Byte
  <2> QED BY <2>1
<1>4. storage'[b] = r /\ \A c \in Storage : c # b => storage'[c] = storage[c]
  BY <1>1 DEF IInv, Shaped, Memory
<1> HIDE DEF r, zeros
<1>5. StorageMade(b)
  <2>1. storage[b].refs = 0
    BY <1>1, NoneEmpty
  <2>2. storage'[b].refs = 1 /\ storage'[b].bytes \in Seq(Byte)
    BY <1>2, <1>3, <1>4
  <2> QED BY <2>1, <2>2 DEF StorageMade
<1>6. \A c \in Storage : StorageKept(c, storage[c]) \/ StorageMade(c)
  BY <1>4, <1>5, StorageUntouched
<1> QED BY <1>1, <1>6, ViewUntouched DEF Kept

\* Filling the list of a call takes references.
LEMMA PushesKeep ==
  ASSUME IInv, Empty, Execute \/ PushArg \/ SkipArg \/ PushWorkspace \/ PushFence
  PROVE  Kept(storage)
<1>1. CASE Execute \/ SkipArg \/ PushFence \/ (PushWorkspace /\ call.need = 0)
  <2>1. UNCHANGED <<view, storage>>
    BY <1>1 DEF Execute, SkipArg, PushFence, PushWorkspace, memory
  <2> QED BY <2>1, UntouchedKept
<1>2. CASE PushArg
  <2> DEFINE v == holds[call.args[call.next]]
  <2>1. /\ Pushing("arg") /\ Supplied
        /\ view' = [view EXCEPT ![v].refs = @ + 1] /\ storage' = storage
    BY <1>2 DEF PushArg
  <2>2. v \in View
    BY <2>1, PushingPlaces, CallHasViews DEF IInv, Supplied
  <2> HIDE DEF v
  <2> QED BY <2>1, <2>2, ViewRetainedKept
<1>3. CASE PushWorkspace /\ call.need # 0
  <2> DEFINE b == view[holds[call.workspace]].storage
  <2>1. /\ call # None /\ call.workspace # None /\ view' = view
        /\ storage' = [storage EXCEPT ![b].refs = @ + 1]
    BY <1>3 DEF PushWorkspace, Pushing, WorkspaceFits, Viewed
  <2>2. b \in Storage
    BY <2>1, CallHasViews
  <2> HIDE DEF b
  <2> QED BY <2>1, <2>2, StorageRetainedKept
<1> QED BY <1>1, <1>2, <1>3

\* A call that fails leaves the storages as they are.
LEMMA FailuresKeep ==
  ASSUME IInv, ExecuteFails \/ PushFails
  PROVE  Kept(storage)
<1>1. Memory(view, storage)
  BY DEF IInv, Shaped
<1>2. ASSUME NEW fn, Return(view, storage, fn) PROVE Kept(storage)
  <2>1. ReleaseList(view, storage, fn)
    BY <1>2 DEF Return
  <2> QED BY <1>1, <2>1, ListKept
<1>3. CASE /\ Pushing("arg") /\ Supplied
           /\ Return([view EXCEPT ![holds[call.args[call.next]]].refs = @ + 1], storage, fences)
  <2> DEFINE v == holds[call.args[call.next]]
             n == view[v].refs + 1
             w == [view EXCEPT ![v].refs = n]
  <2>1. call # None /\ v \in View /\ view[v].refs > 0
    BY <1>3, PushingPlaces, CallHasViews DEF IInv, Pushing, Supplied
  <2>2. ReleaseList(w, storage, fences)
    BY <1>3 DEF Return
  <2> HIDE DEF v
  <2>3. n \in Nat \ {0} /\ DOMAIN view[v] = DOMAIN NoView /\ view = [x \in View |-> view[x]]
    BY <2>1 DEF IInv, Shaped, Memory
  <2>4. /\ DOMAIN w[v] = DOMAIN NoView /\ w = [x \in View |-> w[x]]
    <3> DEFINE p == view[v]
               q == [p EXCEPT !.refs = n]
    <3>1. DOMAIN q = DOMAIN NoView
      BY <2>3, ViewExcept
    <3>2. w[v] = q
      BY <2>1, <2>3
    <3>3. w = [x \in View |-> w[x]]
      BY <2>3
    <3> HIDE DEF q, w
    <3> QED BY <3>1, <3>2, <3>3
  <2> HIDE DEF n
  <2>5. w = [view EXCEPT ![v].refs = n]
    OBVIOUS
  <2> HIDE DEF w
  <2>6. /\ \A x \in View : x # v => w[x] = view[x]
        /\ w[v].refs = n /\ w[v].storage = view[v].storage
        /\ w[v].type = view[v].type /\ w[v].shape = view[v].shape
    BY <2>1, <2>3, <2>5, ViewMore
  <2>7. \A x \in View :
          /\ DOMAIN w[x] = DOMAIN NoView /\ w[x].refs \in Nat
          /\ w[x].storage \in Storage \cup {None}
          /\ w[x].refs = 0 <=> w[x].storage = None
    <3>1. view[v].storage \in Storage
      BY <2>1, IsLive DEF Live
    <3> QED BY <1>1, <2>3, <2>4, <2>6, <3>1, NoneAssumption DEF Memory
  <2>8. Memory(w, storage)
    BY <1>1, <2>4, <2>7 DEF Memory
  <2>9. \A x \in View : /\ w[x].storage = view[x].storage
                        /\ w[x].type = view[x].type /\ w[x].shape = view[x].shape
    BY <2>6
  <2> QED BY <2>2, <2>8, <2>9, ListKept
<1>4. CASE /\ Pushing("workspace") /\ WorkspaceFits
           /\ Return(view, [storage EXCEPT ![Viewed(call.workspace).storage].refs = @ + 1], fences)
  <2> DEFINE b == view[holds[call.workspace]].storage
             n == storage[b].refs + 1
             s == [storage EXCEPT ![b].refs = n]
  <2>1. b \in Storage
    BY <1>4, CallHasViews DEF WorkspaceFits, Pushing
  <2>2. ReleaseList(view, s, fences)
    BY <1>4 DEF Return, Viewed
  <2> HIDE DEF b
  <2>3. n \in Nat \ {0} /\ DOMAIN storage[b] = DOMAIN NoStorage
        /\ storage = [c \in Storage |-> storage[c]]
    BY <2>1 DEF IInv, Shaped, Memory
  <2>4. /\ DOMAIN s[b] = DOMAIN NoStorage /\ s = [c \in Storage |-> s[c]]
    <3> DEFINE p == storage[b]
               q == [p EXCEPT !.refs = n]
    <3>1. DOMAIN q = DOMAIN NoStorage
      BY <2>3, StorageExcept
    <3>2. s[b] = q
      BY <2>1, <2>3
    <3>3. s = [c \in Storage |-> s[c]]
      BY <2>3
    <3> HIDE DEF q, s
    <3> QED BY <3>1, <3>2, <3>3
  <2> HIDE DEF n
  <2>5. s = [storage EXCEPT ![b].refs = n]
    OBVIOUS
  <2> HIDE DEF s
  <2>6. /\ \A c \in Storage : c # b => s[c] = storage[c]
        /\ s[b].refs = n /\ s[b].bytes = storage[b].bytes /\ s[b].given = storage[b].given
    BY <2>1, <2>3, <2>5, StorageMore
  <2>7. Memory(view, s)
    <3>1. \A c \in Storage : DOMAIN s[c] = DOMAIN NoStorage /\ s[c].refs \in Nat
      BY <1>1, <2>3, <2>4, <2>6 DEF Memory
    <3> QED BY <1>1, <2>4, <3>1 DEF Memory
  <2>8. \A c \in Storage : s[c].bytes = storage[c].bytes /\ s[c].given = storage[c].given
    BY <2>6
  <2> QED BY <2>2, <2>7, <2>8, ListKept
<1> QED BY <1>2, <1>3, <1>4 DEF ExecuteFails, PushFails

\* A function overwrites each storage with as many elements as the view of it shows,
\* and no other view shows that storage.
LEMMA InvokeWrites ==
  ASSUME IInv, IInv', Progressed, Written, Empty, Invoke
  PROVE  Written' /\ Empty'
<1>1. PICK data \in [Overwritten -> UNION {Filling(v) : v \in Overwritten}] :
        /\ Pushing("invoke") /\ \A v \in Overwritten : data[v] \in Filling(v)
        /\ Return(view, Overwrite(data), fences)
  BY DEF Invoke
<1> DEFINE s == Overwrite(data)
           O == Overwritten
<1>2. \A v \in O : v \in View /\ view[v].refs # 0 /\ view[v].storage \in Storage
  BY <1>1, OverwrittenLive
<1>3. Memory(view, s)
  BY OverwriteKeeps
<1>4. DOMAIN data = O
  OBVIOUS
<1>5. ASSUME NEW v \in O
      PROVE  /\ s[view[v].storage].given = data[v]
             /\ s[view[v].storage].bytes = Encode(view[v].type, data[v])
  <2> DEFINE b == view[v].storage
             views == {x \in DOMAIN data : view[x].storage = b}
             r == storage[b]
             q == [r EXCEPT !.given = data[v], !.bytes = Encode(view[v].type, data[v])]
  <2>1. b \in Storage
    BY <1>2
  <2>2. views = {v}
    BY <1>2, <1>4 DEF Written
  <2>3. (CHOOSE x \in views : TRUE) = v /\ views # {}
    BY <2>2
  <2>4. s[b] = q
    BY <2>1, <2>3 DEF Overwrite
  <2>5. DOMAIN r = {"refs", "bytes", "given"}
    BY <2>1 DEF IInv, Shaped, Memory, NoStorage
  <2> HIDE DEF r, s, b
  <2>6. q.given = data[v] /\ q.bytes = Encode(view[v].type, data[v])
    BY <2>5
  <2> HIDE DEF q
  <2> QED BY <2>4, <2>6 DEF b
<1>6. ASSUME NEW c \in Storage, \A v \in O : view[v].storage # c
      PROVE  s[c] = storage[c]
  BY <1>4, <1>6 DEF Overwrite
<1> HIDE DEF s
<1>7. ASSUME NEW v \in O
      PROVE  /\ view[v].type \in Type /\ data[v] \in Seq(Held(view[v].type))
             /\ Len(data[v]) = Count(view[v].shape)
  <2>1. data[v] \in Filling(v)
    BY <1>1
  <2>2. PICK q \in Requests : /\ q.type = view[v].type /\ Len(q.data) = Count(view[v].shape)
                             /\ data[v] = Elements(q.type, q.data)
    BY <2>1 DEF Filling
  <2>3. view[v].type \in Type
    BY <2>2, RequestsAssumption
  <2> QED BY <2>2, <2>3, ElementsHeld
<1>8. Kept(s)
  <2>1. ReleaseList(view, s, fences)
    BY <1>1 DEF Return, s
  <2> QED BY <1>3, <2>1, ListKept
<1> HIDE DEF O
<1>9. ASSUME NEW x \in View, view[x].refs # 0
       PROVE  Matches(view[x], s[view[x].storage])
  <2>1. Matches(view[x], storage[view[x].storage]) /\ view[x].storage \in Storage
    BY <1>9, IsLive DEF Written, Live
  <2>2. CASE x \in O
    <3> DEFINE t == view[x].type
               e == data[x]
               r == s[view[x].storage]
    <3>1. /\ t \in Type /\ e \in Seq(Held(t)) /\ Len(e) = Count(view[x].shape)
          /\ r.given = e /\ r.bytes = Encode(t, e)
      BY <1>5, <1>7, <2>2
    <3> HIDE DEF t, e, r
    <3>2. Decode(t, r.bytes, Len(e)) = e
      BY <3>1, RoundTrip
    <3> QED BY <2>1, <3>1, <3>2 DEF Matches, t, r
  <2>3. CASE x \notin O
    <3>1. \A v \in O : view[v].storage # view[x].storage
      BY <1>2, <1>9, <2>3 DEF Written
    <3>2. s[view[x].storage] = storage[view[x].storage]
      BY <1>6, <2>1, <3>1
    <3> QED BY <2>1, <3>2
  <2> QED BY <2>2, <2>3
<1>10. ASSUME NEW c \in Storage PROVE s[c].bytes \in Seq(Byte)
  <2>1. CASE \A v \in O : view[v].storage # c
    BY <1>6, <2>1 DEF Empty
  <2>2. CASE \E v \in O : view[v].storage = c
    <3>1. PICK v \in O : view[v].storage = c
      BY <2>2
    <3> DEFINE t == view[v].type
               e == data[v]
    <3>2. t \in Type /\ e \in Seq(Held(t)) /\ s[c].bytes = Encode(t, e)
      BY <1>5, <1>7, <3>1
    <3> HIDE DEF t, e
    <3>3. Held(t) \subseteq Int
      BY <3>2, HeldInt
    <3>4. Encode(t, e) \in Seq(Byte)
      BY <3>2, <3>3, Bytes
    <3> QED BY <3>2, <3>4
  <2> QED BY <2>1, <2>2
<1> QED BY <1>8, <1>9, <1>10, KeptInv

-----------------------------------------------------------------------------
(* The invariant                                                           *)

LEMMA InvInit == Init => IInv
<1> SUFFICES ASSUME Init PROVE IInv
  OBVIOUS
<1>1. /\ holds = [s \in Slot |-> None] /\ lent = [v \in View |-> FALSE]
      /\ view = [v \in View |-> NoView] /\ storage = [b \in Storage |-> NoStorage]
      /\ call = None /\ list = <<>>
  BY DEF Init
<1>2. Shaped
  <2>1. NoView.refs = 0 /\ NoView.storage = None /\ NoStorage.refs = 0
    BY DEF NoView, NoStorage
  <2>2. list \in Seq(Entry)
    BY <1>1
  <2> QED BY <1>1, <2>1, <2>2 DEF Shaped, Memory
<1>3. HeldIsAlive
  <2>1. NoView.refs = 0 /\ NoView.storage = None /\ NoStorage.refs = 0
    BY DEF NoView, NoStorage
  <2>2. ASSUME NEW v \in View PROVE view[v].refs >= ViewHolders(v)
    <3>1. Holders(holds, v) = {} /\ At(list, "view", v) = {}
      BY <1>1, NoneAssumption DEF Holders, At
    <3>2. Cardinality(Holders(holds, v)) = 0 /\ Cardinality(At(list, "view", v)) = 0
      BY <3>1, FS_EmptySet
    <3>3. lent[v] = FALSE
      BY <1>1
    <3>4. ViewHolders(v) = 0 + 0 + 0
      BY <1>2, <3>2, <3>3, HoldersOfView
    <3> QED BY <1>1, <2>1, <3>4
  <2>3. ASSUME NEW b \in Storage
        PROVE  storage[b].refs >= Cardinality(Views(view, b)) + Cardinality(At(list, "storage", b))
    <3>1. Views(view, b) = {} /\ At(list, "storage", b) = {}
      BY <1>1, <2>1, NoneAssumption DEF Views, At
    <3>2. Cardinality(Views(view, b)) = 0 /\ Cardinality(At(list, "storage", b)) = 0
      BY <3>1, FS_EmptySet
    <3> QED BY <1>1, <2>1, <3>2
  <2> QED BY <2>2, <2>3, AliveIsCounted DEF Counted
<1> QED BY <1>1, <1>2, <1>3 DEF IInv, Called

LEMMA InvNext == IInv /\ [Next]_vars => IInv'
<1> SUFFICES ASSUME IInv, [Next]_vars PROVE IInv'
  OBVIOUS
<1>1. ASSUME NEW s \in Slot, Allocate(s) \/ AllocateRaw(s) PROVE IInv'
  BY <1>1, AllocateInv
<1>2. ASSUME NEW s \in Slot, Destroy(s) PROVE IInv'
  BY <1>2, DestroyInv
<1>3. ASSUME NEW s \in Slot, NEW v \in View, Import(s, v) PROVE IInv'
  BY <1>3, ImportInv
<1>4. ASSUME NEW s \in Slot, NEW r \in Slot, Move(s, r) PROVE IInv'
  BY <1>4, MoveInv
<1>5. CASE Lend \/ \E v \in View : TakeBack(v)
  BY <1>5, LendInv
<1>6. CASE AllocateRawFails
  BY <1>6, AllocateRawFailsInv
<1>7. CASE Execute
  BY <1>7, ExecuteInv
<1>8. CASE PushArg \/ SkipArg
  BY <1>8, PushArgInv, SkipArgInv
<1>9. CASE PushWorkspace \/ PushFence
  BY <1>9, PushOtherInv
<1>10. CASE PushFails
  BY <1>10, PushFailsInv
<1>11. CASE ExecuteFails
  BY <1>11, ExecuteFailsInv
<1>12. CASE Invoke
  BY <1>12, InvokeInv
<1>13. CASE UNCHANGED vars
  <2>1. UNCHANGED <<holds, lent, view, storage, call, list>>
    BY <1>13 DEF vars, memory
  <2> QED BY <2>1 DEF IInv, Shaped, Memory, Called, HeldIsAlive, ViewHolders,
                      StorageHolders, Pushes
<1> QED BY <1>1, <1>2, <1>3, <1>4, <1>5, <1>6, <1>7, <1>8, <1>9, <1>10, <1>11, <1>12, <1>13
        DEF Next

\* For any number of Buffers, views, storages and requests: nothing that a Buffer, a
\* lender, a view or the list of a call refers to was released, whatever fails.
THEOREM HeldIsAliveCorrect == Spec => []HeldIsAlive
<1>1. IInv => HeldIsAlive
  BY DEF IInv
<1> QED BY <1>1, InvInit, InvNext, PTL DEF Spec

\* For graphs of any number of tensors, the virtual and the scalar ones among them, and
\* any variantPack: the list of a graph that has the tensors it was loaded with does not
\* grow beyond what createVmContext counted, and is as long at the call.
THEOREM CapacityExactCorrect == Spec => []CapacityExact
<1>1. ASSUME IInv, Progressed, call # None, call.loaded = call.tensors
      PROVE  /\ Len(list) <= call.room
             /\ Pushing("invoke") => Len(list) = call.room
  <2> DEFINE t == call.tensors
             n == Len(call.args)
             i == call.next
             m == IF call.async THEN 4 ELSE 2
             P == PassedBefore(t, i)
  <2>1. /\ t \in Seq(GraphTensor) /\ n \in Nat /\ i \in Nat /\ DOMAIN t = 1..n
        /\ i \in 1..n + m /\ call.async \in BOOLEAN
    <3>1. /\ call.tensors \in Seq(GraphTensor) /\ call.args \in Seq(Slot \cup {None})
          /\ DOMAIN call.args = DOMAIN call.tensors /\ call.next \in Nat
          /\ call.next \in 1..Len(call.args) + m /\ call.async \in BOOLEAN
      BY <1>1 DEF IInv, Called, Call
    <3>2. n \in Nat /\ DOMAIN call.args = 1..n
      BY <3>1
    <3> QED BY <3>1, <3>2
  <2>2. Len(list) = Cardinality(P) + Beyond(n, i) /\ call.room = ListCapacity(t, call.async)
    BY <1>1 DEF Progressed
  <2>3. m \in {2, 4} /\ ListCapacity(t, call.async) = Cardinality(Counts(t)) + m - 1
    BY <2>1, CapacityOf
  <2>4. /\ Cardinality(P) \in Nat /\ Cardinality(Counts(t)) \in Nat
        /\ Cardinality(P) <= Cardinality(Counts(t))
        /\ i > n => P = Counts(t)
    <3> HIDE DEF t, n, i
    <3>1. Len(t) = n
      BY <2>1
    <3> QED BY <2>1, <3>1, PassedCounted
  <2>5. Pushing("invoke") => i = n + m
    BY DEF Pushing
  <2> HIDE DEF t, n, i, m, P
  <2>6. Beyond(n, i) <= m - 1 /\ Beyond(n, i) \in Nat /\ (i = n + m => Beyond(n, i) = m - 1)
    BY <2>1, <2>3 DEF Beyond
  <2>7. Cardinality(P) + Beyond(n, i) <= Cardinality(Counts(t)) + m - 1
    BY <2>3, <2>4, <2>6
  <2>8. i = n + m => Cardinality(P) + Beyond(n, i) = Cardinality(Counts(t)) + m - 1
    BY <2>1, <2>3, <2>4, <2>6
  <2> QED BY <2>2, <2>3, <2>5, <2>7, <2>8
<1>2. IInv /\ Progressed => CapacityExact
  BY <1>1 DEF CapacityExact
<1> QED BY <1>2, InvInit, InvNext, ProgressedInit, ProgressedNext, PTL DEF Spec

LEMMA BalancedInit == Init => Balanced
<1> SUFFICES ASSUME Init PROVE Balanced
  OBVIOUS
<1>1. IInv
  BY InvInit
<1>2. /\ holds = [s \in Slot |-> None] /\ lent = [v \in View |-> FALSE]
      /\ view = [v \in View |-> NoView] /\ storage = [b \in Storage |-> NoStorage]
      /\ list = <<>> /\ fences = 0 /\ lost = 0
  BY DEF Init
<1>3. NoView.refs = 0 /\ NoView.storage = None /\ NoStorage.refs = 0
  BY DEF NoView, NoStorage
<1>4. ASSUME NEW v \in View PROVE ViewExcess(v) = 0
  <2>1. Holders(holds, v) = {} /\ At(list, "view", v) = {}
    BY <1>2, NoneAssumption DEF Holders, At
  <2>2. Cardinality(Holders(holds, v)) = 0 /\ Cardinality(At(list, "view", v)) = 0
    BY <2>1, FS_EmptySet
  <2>3. lent[v] = FALSE
    BY <1>2
  <2>4. ViewHolders(v) = 0 + 0 + 0
    BY <1>1, <2>2, <2>3, HoldersOfView DEF IInv
  <2> QED BY <1>2, <1>3, <2>4 DEF ViewExcess
<1>5. ASSUME NEW b \in Storage PROVE StorageExcess(b) = 0
  <2>1. Views(view, b) = {} /\ At(list, "storage", b) = {}
    BY <1>2, <1>3, NoneAssumption DEF Views, At
  <2>2. Cardinality(Views(view, b)) = 0 /\ Cardinality(At(list, "storage", b)) = 0
    BY <2>1, FS_EmptySet
  <2>3. StorageExcess(b) = 0 - (0 + 0)
    BY <1>2, <1>3, <2>2, StorageExcessNow
  <2> QED BY <2>3
<1>6. LossesOfViews = 0 /\ LossesOfStorages = 0
  <2> DEFINE f == [v \in View |-> ViewExcess(v)]
             k == [b \in Storage |-> StorageExcess(b)]
  <2>1. /\ f \in [View -> Int] /\ \A v \in View : f[v] = 0
        /\ k \in [Storage -> Int] /\ \A b \in Storage : k[b] = 0
    BY <1>4, <1>5
  <2>2. LossesOfViews = SumFunction(f) /\ LossesOfStorages = SumFunction(k)
    BY DEF LossesOfViews, LossesOfStorages
  <2> HIDE DEF f, k
  <2> QED BY <2>1, <2>2, FiniteAssumption, SumZero
<1>7. FenceExcess = 0
  <2>1. FencesAt(list) = {}
    BY <1>2 DEF FencesAt
  <2> QED BY <1>2, <2>1, FS_EmptySet DEF FenceExcess, FencesPushed, FencesAt
<1> QED BY <1>2, <1>6, <1>7, LostNow DEF Balanced

\* A Buffer's steps change no list, and those of a call no more than their part of it.
LEMMA BalancedNext == IInv /\ Balanced /\ [Next]_vars => Balanced'
<1> SUFFICES ASSUME IInv, Balanced, [Next]_vars PROVE Balanced'
  OBVIOUS
<1>1. IInv' /\ lost \in Int /\ fences \in Int
  BY InvNext DEF Balanced
<1> DEFINE Buffers ==
      \/ \E s \in Slot : \/ Allocate(s) \/ AllocateRaw(s) \/ Destroy(s)
                         \/ \E v \in View : Import(s, v)
                         \/ \E r \in Slot : Move(s, r)
      \/ Lend \/ \E v \in View : TakeBack(v)
<1>2. CASE Buffers
  <2>1. Adds(None, None)
    BY <1>2, AllocateInv, DestroyInv, ImportInv, MoveInv, LendInv
  <2>2. UNCHANGED <<list, fences, lost>>
    BY <1>2 DEF Allocate, AllocateRaw, Destroy, Import, Move, Lend, TakeBack
  <2> QED BY <1>1, <2>1, <2>2, FencesStay, KeepsBalance
<1>3. CASE Execute \/ SkipArg \/ UNCHANGED vars
  <2>1. UNCHANGED <<holds, lent, view, storage, list, fences, lost>>
    BY <1>3 DEF Execute, SkipArg, vars, memory
  <2> QED BY <1>1, <2>1, NothingAdded, FencesStay, KeepsBalance
<1>4. CASE AllocateRawFails
  <2>1. PICK b \in Storage : Adds(None, b)
    BY <1>4, AllocateRawFailsInv
  <2>2. UNCHANGED <<list, fences>> /\ lost' = lost + 1
    BY <1>4 DEF AllocateRawFails
  <2>3. LossesOfViews' = LossesOfViews + 0 /\ LossesOfStorages' = LossesOfStorages + 1
    BY <1>1, <2>1, LossesAfter, NoneAssumption
  <2>4. LossesOfViews \in Int /\ LossesOfStorages \in Int
    BY <1>1, <2>1, LossesAfter
  <2>5. FenceExcess' = FenceExcess /\ FenceExcess \in Int
    BY <1>1, <2>2, FencesStay, FencesNow DEF FenceExcess
  <2> QED BY <1>1, <2>2, <2>3, <2>4, <2>5, LostNow, LostAfter DEF Balanced
<1>5. CASE PushArg \/ PushWorkspace \/ PushFence
  <2>1. Adds(None, None) /\ lost' = lost
    BY <1>5, PushArgInv, PushOtherInv DEF PushArg, PushWorkspace, PushFence, Pushed
  <2>2. \E e \in Entry : Pushed(e) /\ fences' = fences + (IF e.kind = "fence" THEN 1 ELSE 0)
    <3>1. CASE PushArg
      <4> DEFINE v == holds[call.args[call.next]]
                 e == [kind |-> "view", id |-> v]
      <4>1. Pushing("arg") /\ Supplied /\ Pushed(e) /\ fences' = fences
        BY <3>1 DEF PushArg
      <4>2. v \in View
        BY <4>1, PushingPlaces, CallHasViews DEF IInv, Supplied
      <4>3. e \in Entry /\ e.kind # "fence"
        BY <4>2 DEF Entry
      <4> HIDE DEF e
      <4> QED BY <1>1, <4>1, <4>3
    <3>2. CASE PushWorkspace /\ call.need = 0
      <4> DEFINE e == [kind |-> "null"]
      <4>1. e \in Entry /\ e.kind # "fence"
        BY DEF Entry
      <4>2. Pushed(e) /\ fences' = fences
        BY <3>2 DEF PushWorkspace
      <4> HIDE DEF e
      <4> QED BY <1>1, <4>1, <4>2
    <3>3. CASE PushWorkspace /\ call.need # 0
      <4> DEFINE b == view[holds[call.workspace]].storage
                 e == [kind |-> "storage", id |-> b]
      <4>1. call # None /\ call.workspace # None /\ Pushed(e) /\ fences' = fences
        BY <3>3 DEF PushWorkspace, Pushing, WorkspaceFits, Viewed
      <4>2. b \in Storage
        BY <4>1, CallHasViews
      <4>3. e \in Entry /\ e.kind # "fence"
        BY <4>2 DEF Entry
      <4> HIDE DEF e
      <4> QED BY <1>1, <4>1, <4>3
    <3>4. CASE PushFence
      <4> DEFINE e == [kind |-> "fence"]
      <4>1. e \in Entry /\ e.kind = "fence"
        BY DEF Entry
      <4>2. Pushed(e) /\ fences' = fences + 1
        BY <3>4 DEF PushFence
      <4> HIDE DEF e
      <4> QED BY <4>1, <4>2
    <3> QED BY <1>5, <3>1, <3>2, <3>3, <3>4
  <2>3. fences' \in Int /\ FenceExcess' = FenceExcess
    BY <2>2, FencesWithPush
  <2> QED BY <1>1, <2>1, <2>3, KeepsBalance
<1>6. CASE ExecuteFails \/ Invoke
  <2>1. Adds(None, None) /\ lost' = lost
    BY <1>6, ExecuteFailsInv, InvokeInv DEF ExecuteFails, Invoke
  <2>2. list' = <<>> /\ fences' = fences - FencesPushed
    <3>1. \E st : Return(view, st, fences)
      BY <1>6 DEF ExecuteFails, Invoke
    <3> QED BY <3>1, FencesReturned DEF Return
  <2>3. fences' = (fences + 0) - FencesPushed
    BY <1>1, <2>2
  <2>4. fences' \in Int /\ FenceExcess' = FenceExcess + 0 /\ FenceExcess \in Int
    BY <1>1, <2>2, <2>3, FencesGone, FencesNow DEF FenceExcess
  <2> QED BY <1>1, <2>1, <2>4, KeepsBalance
<1>7. CASE PushFails
  <2>1. list' = <<>> /\ lost' = lost + 1
    BY <1>7 DEF PushFails, Return
  <2>2. FenceExcess \in Int
    BY <1>1, FencesNow DEF FenceExcess
  <2>3. CASE /\ fences' = fences - FencesPushed
             /\ (\E v \in View : Adds(v, None)) \/ (\E b \in Storage : Adds(None, b))
    <3>1. fences' = (fences + 0) - FencesPushed
      BY <1>1, <2>3
    <3>2. fences' \in Int /\ FenceExcess' = FenceExcess + 0
      BY <2>1, <3>1, FencesGone
    <3>3. /\ LossesOfViews \in Int /\ LossesOfStorages \in Int
          /\ \/ LossesOfViews' = LossesOfViews + 1 /\ LossesOfStorages' = LossesOfStorages + 0
             \/ LossesOfViews' = LossesOfViews + 0 /\ LossesOfStorages' = LossesOfStorages + 1
      BY <1>1, <2>3, LossesAfter, NoneAssumption
    <3> QED BY <1>1, <2>1, <2>2, <3>2, <3>3, LostNow, LostAfter DEF Balanced
  <2>4. CASE fences' = (fences + 1) - FencesPushed /\ Adds(None, None)
    <3>1. fences' \in Int /\ FenceExcess' = FenceExcess + 1
      BY <2>1, <2>4, FencesGone
    <3>2. /\ LossesOfViews \in Int /\ LossesOfStorages \in Int
          /\ LossesOfViews' = LossesOfViews + 0 /\ LossesOfStorages' = LossesOfStorages + 0
      BY <1>1, <2>4, LossesAfter, NoneAssumption
    <3> QED BY <1>1, <2>1, <2>2, <3>1, <3>2, LostNow, LostAfter DEF Balanced
  <2> QED BY <1>7, <2>3, <2>4, PushFailsInv
<1> QED BY <1>2, <1>3, <1>4, <1>5, <1>6, <1>7 DEF Next

\* For any number of Buffers, views, storages and requests: after any calls, and however
\* they fail, the references that nobody has are the ones counted as lost, one for each
\* view that could not be made and each push that could not grow the list.
THEOREM NothingElseLostCorrect == Spec => []NothingElseLost
<1>1. Balanced => NothingElseLost
  BY DEF Balanced
<1> QED BY <1>1, InvInit, InvNext, BalancedInit, BalancedNext, PTL DEF Spec

LEMMA WrittenInit == Init => Written /\ Empty
<1> SUFFICES ASSUME Init PROVE Written /\ Empty
  OBVIOUS
<1>1. \A v \in View : view[v] = NoView /\ \A b \in Storage : storage[b] = NoStorage
  BY DEF Init
<1>2. \A b \in Storage : storage[b] = NoStorage
  BY DEF Init
<1> QED BY <1>1, <1>2, NoneEmpty DEF Written, Empty

LEMMA WrittenNext ==
  IInv /\ Progressed /\ Written /\ Empty /\ [Next]_vars => Written' /\ Empty'
<1> SUFFICES ASSUME IInv, Progressed, Written, Empty, [Next]_vars PROVE Written' /\ Empty'
  OBVIOUS
<1>1. IInv'
  BY InvNext
<1>2. CASE Lend \/ \E s \in Slot : Allocate(s) \/ AllocateRaw(s)
  BY <1>1, <1>2, MakersWrite
<1>3. CASE \/ \E v \in View : TakeBack(v)
           \/ \E s \in Slot : \/ Destroy(s) \/ \E v \in View : Import(s, v)
                              \/ \E r \in Slot : Move(s, r)
  BY <1>1, <1>3, HandlersKeep, StaysWritten
<1>4. CASE AllocateRawFails
  BY <1>1, <1>4, RawFailsKeeps, StaysWritten
<1>5. CASE Execute \/ PushArg \/ SkipArg \/ PushWorkspace \/ PushFence
  BY <1>1, <1>5, PushesKeep, StaysWritten
<1>6. CASE ExecuteFails \/ PushFails
  BY <1>1, <1>6, FailuresKeep, StaysWritten
<1>7. CASE Invoke
  BY <1>1, <1>7, InvokeWrites
<1>8. CASE UNCHANGED vars
  <2>1. UNCHANGED <<view, storage>>
    BY <1>8 DEF vars, memory
  <2> QED BY <1>1, <2>1, UntouchedKept, StaysWritten
<1> QED BY <1>2, <1>3, <1>4, <1>5, <1>6, <1>7, <1>8 DEF Next

\* For data of any type, length and values: a read of any Buffer, also while a call is
\* under way, returns what allocate or a function wrote last.
THEOREM ReadExactCorrect == Spec => []ReadExact
<1>1. IInv /\ Written => ReadExact
  <2> SUFFICES ASSUME IInv, Written, NEW s \in Slot, holds[s] # None
               PROVE  Download(s) = Stored(s).given
    BY DEF ReadExact
  <2> DEFINE v == holds[s]
  <2>1. v \in View
    BY DEF IInv, Shaped
  <2>2. view[v].refs # 0
    BY <2>1, HeldHasReference DEF IInv
  <2>3. Matches(view[v], storage[view[v].storage])
    BY <2>1, <2>2 DEF Written
  <2> QED BY <2>3 DEF Matches, Download, Stored, Viewed
<1> QED BY <1>1, InvInit, InvNext, ProgressedInit, ProgressedNext, WrittenInit, WrittenNext,
       PTL DEF Spec

\* Every variable keeps its type; that the counts of references do rests on all of the above.
THEOREM TypeOKCorrect == Spec => []TypeOK
<1>1. IInv /\ Written /\ Empty /\ Balanced => TypeOK
  <2> SUFFICES ASSUME IInv, Written, Empty, Balanced PROVE TypeOK
    OBVIOUS
  <2>1. /\ holds \in [Slot -> View \cup {None}] /\ lent \in [View -> BOOLEAN]
        /\ DOMAIN view = View /\ DOMAIN storage = Storage /\ list \in Seq(Entry)
    BY DEF IInv, Shaped, Memory
  <2>2. ASSUME NEW v \in View
        PROVE  \/ view[v] = NoView
               \/ /\ view[v].refs \in Nat \ {0} /\ view[v].storage \in Storage
                  /\ view[v].type \in Type /\ view[v].shape \in Seq(Nat)
    <3>1. view[v].refs \in Nat
      BY DEF IInv, Shaped, Memory
    <3> QED BY <3>1, IsLive DEF Live, Empty, Written, Matches
  <2>3. ASSUME NEW b \in Storage
        PROVE  \/ storage[b] = NoStorage
               \/ storage[b].refs \in Nat \ {0} /\ storage[b].bytes \in Seq(Byte)
    <3>1. storage[b].refs \in Nat
      BY DEF IInv, Shaped, Memory
    <3> QED BY <3>1 DEF Empty
  <2>4. call \in Call \cup {None} /\ (call = None => list = <<>>)
    BY DEF IInv, Called
  <2>5. {fences, lost} \subseteq Nat
    <3>1. FencesPushed \in Nat
      BY <2>1, FencesFinite DEF FencesPushed, FencesAt
    <3>2. FenceExcess \in Nat /\ fences \in Int /\ lost \in Nat
      BY DEF Balanced
    <3>3. fences = FenceExcess + FencesPushed
      BY <3>1, <3>2 DEF FenceExcess
    <3> QED BY <3>1, <3>2, <3>3
  <2> QED BY <2>1, <2>2, <2>3, <2>4, <2>5 DEF TypeOK
<1> QED BY <1>1, InvInit, InvNext, ProgressedInit, ProgressedNext, WrittenInit, WrittenNext,
       BalancedInit, BalancedNext, PTL DEF Spec
=============================================================================
