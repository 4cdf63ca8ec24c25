------------------------ MODULE ShapeInference_proofs ------------------------
(***************************************************************************)
(* Proofs about ShapeInference, for any cases: any nodes, tensors, dims,   *)
(* strides and edits between the calls of validate.                        *)
(*                                                                         *)
(* Layout: a stride that passes ValidPhysical is the product of the dims   *)
(* of the faster axes, so that sorting the axes by stride is a permutation *)
(* and the row-major address of the permuted coordinate is the address by  *)
(* strides (LayoutFaithful); the same holds for any size of a dynamic dim  *)
(* (RuntimeSizesFaithful).  Inference: a node fills what is unset, and     *)
(* changes nothing that is set (Grown), so that what the checks of a node  *)
(* found stays true while later nodes are validated, and while an accepted *)
(* graph is validated again (ShapesFollow).  Types: what a validated node  *)
(* leaves without a type has none in the context either (Settled), so that *)
(* the operands of a product that get their types from the context get the *)
(* same one (MixedProductsBatched).  A second call: what a node's checks   *)
(* look at is set when it passes (Known), so that it passes again (Again), *)
(* by one lemma for each kind of node, and nothing is left to infer        *)
(* (Revalidates).                                                          *)
(*                                                                         *)
(* Sums and products are folds over finite sets, and the largest rank is a *)
(* CHOOSE: what they are is shown by the smallest set for which it would   *)
(* be wrong.                                                               *)
(***************************************************************************)
EXTENDS ShapeInference, Integers, Functions, FiniteSetTheorems, WellFoundedInduction, TLAPS

-----------------------------------------------------------------------------
(* Folds over finite sets                                                  *)

\* A set of finite sets that is not empty has a member none of whose proper subsets
\* is a member: the form in which induction over subsets can be used here.
LEMMA SmallestSet ==
  ASSUME NEW S, IsFiniteSet(S), NEW T, T \subseteq SUBSET S, T # {}
  PROVE  \E x \in T : \A y \in T : y \subseteq x => y = x
<1>1. IsWellFoundedOn(StrictSubsetOrdering(S), SUBSET S)
  BY FS_StrictSubsetOrderingWellFounded, FS_FiniteSubsetsOfFinite
<1>2. PICK x \in T : \A y \in T : <<y, x>> \notin StrictSubsetOrdering(S)
  BY <1>1, WFMin
<1>3. \A y \in T : y \subseteq x => y = x
  BY <1>2 DEF StrictSubsetOrdering
<1> QED BY <1>3

\* g is computed along choices: b for the empty set, else step[s] of what is left
\* when choice[s] is taken out of s.
Computes(g, S, b, choice, step) ==
  \A s \in SUBSET S : g[s] = IF s = {} THEN b ELSE step[s][g[s \ {choice[s]}]]

\* There is only one, on the sets both are defined for.
LEMMA OneComputes ==
  ASSUME NEW S, IsFiniteSet(S), NEW b, NEW step,
         NEW choice, \A s \in SUBSET S : s # {} => choice[s] \in s,
         NEW g, NEW h, NEW R \in SUBSET S, NEW Q \in SUBSET S, R \subseteq Q,
         Computes(g, R, b, choice, step), Computes(h, Q, b, choice, step)
  PROVE  \A s \in SUBSET R : g[s] = h[s]
<1> DEFINE T == {s \in SUBSET R : g[s] # h[s]}
<1> SUFFICES ASSUME T # {} PROVE FALSE
  OBVIOUS
<1>1. PICK s \in T : \A y \in T : y \subseteq s => y = s
  <2>1. T \subseteq SUBSET S
    OBVIOUS
  <2> HIDE DEF T
  <2> QED BY <2>1, SmallestSet
<1>2. s # {}
  BY <1>1 DEF Computes
<1> DEFINE u == s \ {choice[s]}
<1>3. u \in SUBSET R /\ u # s /\ u \subseteq s
  BY <1>1, <1>2
<1>4. g[u] = h[u]
  BY <1>1, <1>3
<1> QED BY <1>1, <1>2, <1>4 DEF Computes

\* And there is one, built from those for the smaller sets.
LEMMA SomeComputes ==
  ASSUME NEW S, IsFiniteSet(S), NEW V, NEW b \in V,
         NEW choice, \A s \in SUBSET S : s # {} => choice[s] \in s,
         NEW step \in [SUBSET S -> [V -> V]]
  PROVE  \E g \in [SUBSET S -> V] : Computes(g, S, b, choice, step)
<1> DEFINE Reached(s) == \E g \in [SUBSET s -> V] : Computes(g, s, b, choice, step)
           T == {s \in SUBSET S : ~Reached(s)}
<1> SUFFICES ASSUME T # {} PROVE FALSE
  OBVIOUS
<1>1. PICK s \in T : \A y \in T : y \subseteq s => y = s
  <2>1. T \subseteq SUBSET S
    OBVIOUS
  <2> HIDE DEF T
  <2> QED BY <2>1, SmallestSet
<1>2. \A u \in SUBSET s : u # s => Reached(u)
  BY <1>1 DEF T
<1> DEFINE G(u) == CHOOSE g : g \in [SUBSET u -> V] /\ Computes(g, u, b, choice, step)
<1>3. \A u \in SUBSET s : u # s => G(u) \in [SUBSET u -> V] /\ Computes(G(u), u, b, choice, step)
  BY <1>2
<1> DEFINE val(u) == IF u = s THEN IF s = {} THEN b ELSE step[s][G(s \ {choice[s]})[s \ {choice[s]}]]
                     ELSE G(u)[u]
           g == [u \in SUBSET s |-> val(u)]
<1> HIDE DEF G, Reached, T
<1>10. \A u \in SUBSET s : u # s => G(u)[u] \in V
  <2> TAKE u \in SUBSET s
  <2> HAVE u # s
  <2>1. G(u) \in [SUBSET u -> V]
    BY <1>3
  <2> QED BY <2>1
<1>4. s # {} => s \ {choice[s]} \in SUBSET s /\ s \ {choice[s]} # s
  BY <1>1 DEF T
<1>5. \A u \in SUBSET s : val(u) \in V
  <2> TAKE u \in SUBSET s
  <2>1. CASE u # s
    <3>1. G(u)[u] \in V
      BY <1>10, <2>1
    <3> QED BY <2>1, <3>1
  <2>2. CASE u = s /\ s = {}
    BY <2>2
  <2>3. CASE u = s /\ s # {}
    <3>1. G(s \ {choice[s]})[s \ {choice[s]}] \in V
      BY <1>10, <1>4, <2>3
    <3>2. step[s] \in [V -> V]
      BY <1>1 DEF T
    <3> QED BY <2>3, <3>1, <3>2
  <2> QED BY <2>1, <2>2, <2>3
<1>6. ASSUME NEW u \in SUBSET s
      PROVE  g[u] = IF u = {} THEN b ELSE step[u][g[u \ {choice[u]}]]
  <2> DEFINE w == u \ {choice[u]}
  <2>1. u # {} => w \in SUBSET u /\ w # u /\ w \in SUBSET s /\ w # s
    BY <1>1 DEF T
  <2>2. CASE u = {}
    <3>1. CASE u = s
      BY <2>2, <3>1
    <3>2. CASE u # s
      <4>1. G(u)[u] = b
        BY <1>3, <2>2, <3>2 DEF Computes
      <4> QED BY <2>2, <3>2, <4>1
    <3> QED BY <3>1, <3>2
  <2>3. CASE u # {} /\ u = s
    <3>1. g[u] = step[u][G(w)[w]]
      BY <2>3
    <3>2. g[w] = G(w)[w]
      BY <2>1, <2>3
    <3> QED BY <2>3, <3>1, <3>2
  <2>4. CASE u # {} /\ u # s
    <3>1. g[u] = G(u)[u] /\ g[w] = G(w)[w]
      BY <2>1, <2>4
    <3>2. Computes(G(u), u, b, choice, step) /\ Computes(G(w), w, b, choice, step)
      BY <1>3, <2>1, <2>4
    <3>3. G(u)[u] = step[u][G(u)[w]]
      BY <2>4, <3>2 DEF Computes
    <3>4. G(w)[w] = G(u)[w]
      <4>1. u \in SUBSET S /\ w \in SUBSET S /\ w \subseteq u
        BY <1>1, <2>1, <2>4 DEF T
      <4> HIDE DEF w
      <4>2. \A x \in SUBSET w : G(w)[x] = G(u)[x]
        BY <3>2, <4>1, OneComputes
      <4> QED BY <4>2
    <3> QED BY <2>4, <3>1, <3>3, <3>4
  <2> QED BY <2>2, <2>3, <2>4
<1>7. g \in [SUBSET s -> V]
  BY <1>5
<1>8. Computes(g, s, b, choice, step)
  BY <1>6 DEF Computes
<1>9. Reached(s)
  BY <1>7, <1>8 DEF Reached
<1> QED BY <1>1, <1>9 DEF T

\* The element with which a fold goes on.
Chosen(s) == CHOOSE x \in s : TRUE

\* g has the sum of f over each subset of S.
Sums(g, S, f) ==
  /\ \A s \in SUBSET S : g[s] \in Int
  /\ g[{}] = 0
  /\ \A s \in SUBSET S :
       s # {} => Chosen(s) \in s /\ g[s] = f[Chosen(s)] + g[s \ {Chosen(s)}]

\* The sum of a function is computed along the choices of elements.
LEMMA SumUnfolds ==
  ASSUME NEW S, IsFiniteSet(S), NEW f \in [S -> Int]
  PROVE  \E g : SumFunction(f) = g[S] /\ Sums(g, S, f)
<1> DEFINE choice == [s \in SUBSET S |-> Chosen(s)]
           step == [s \in SUBSET S |-> [n \in Int |-> IF s = {} THEN n ELSE f[Chosen(s)] + n]]
           Iter(h) == h = [s \in SUBSET S |-> IF s = {} THEN 0 ELSE f[Chosen(s)] + h[s \ {Chosen(s)}]]
           iter == CHOOSE h : Iter(h)
<1>1. \A s \in SUBSET S : s # {} => Chosen(s) \in s /\ choice[s] = Chosen(s)
  BY DEF Chosen
<1>2. step \in [SUBSET S -> [Int -> Int]]
  <2>1. ASSUME NEW s \in SUBSET S, NEW n \in Int
        PROVE  (IF s = {} THEN n ELSE f[Chosen(s)] + n) \in Int
    <3>1. s # {} => f[Chosen(s)] \in Int
      BY <1>1
    <3> QED BY <3>1
  <2> QED BY <2>1
<1>3. PICK g \in [SUBSET S -> Int] : Computes(g, S, 0, choice, step)
  <2>1. \A s \in SUBSET S : s # {} => choice[s] \in s
    BY <1>1
  <2>2. 0 \in Int
    OBVIOUS
  <2> HIDE DEF choice, step
  <2> QED BY <1>2, <2>1, <2>2, SomeComputes
<1>4. \A s \in SUBSET S :
        g[s] = IF s = {} THEN 0 ELSE f[Chosen(s)] + g[s \ {Chosen(s)}]
  <2> TAKE s \in SUBSET S
  <2>1. g[s] = IF s = {} THEN 0 ELSE step[s][g[s \ {choice[s]}]]
    BY <1>3 DEF Computes
  <2>2. CASE s # {}
    <3>1. g[s \ {Chosen(s)}] \in Int
      OBVIOUS
    <3> QED BY <1>1, <2>1, <2>2, <3>1
  <2> QED BY <2>1, <2>2
<1>5. Iter(g)
  BY <1>4
<1>6. Iter(iter)
  BY <1>5
<1>7. \A s \in SUBSET S :
        iter[s] = IF s = {} THEN 0 ELSE f[Chosen(s)] + iter[s \ {Chosen(s)}]
  BY <1>6
<1>8. SumFunction(f) = iter[S]
  <2>1. DOMAIN f = S
    OBVIOUS
  <2> QED BY <2>1 DEF SumFunction, SumFunctionOnSet, FoldFunctionOnSet, MapThenFoldSet, Chosen
<1>9. \A s \in SUBSET S : iter[s] = g[s]
  <2> DEFINE T == {s \in SUBSET S : iter[s] # g[s]}
  <2> HIDE DEF iter
  <2> SUFFICES ASSUME T # {} PROVE FALSE
    OBVIOUS
  <2>1. PICK s \in T : \A y \in T : y \subseteq s => y = s
    <3>1. T \subseteq SUBSET S
      OBVIOUS
    <3> HIDE DEF T
    <3> QED BY <3>1, SmallestSet
  <2>2. s # {}
    BY <1>4, <1>7, <2>1
  <2>3. iter[s \ {Chosen(s)}] = g[s \ {Chosen(s)}]
    BY <1>1, <2>1, <2>2
  <2> QED BY <1>4, <1>7, <2>1, <2>2, <2>3
<1>10. \A s \in SUBSET S : iter[s] \in Int
  BY <1>3, <1>9
<1> HIDE DEF iter
<1> QED BY <1>1, <1>7, <1>8, <1>10 DEF Sums


-----------------------------------------------------------------------------
(* Products                                                                *)

\* The product over a set is computed along the choices of elements.
LEMMA ProductUnfolds ==
  ASSUME NEW f, NEW S, IsFiniteSet(S), \A x \in S : f[x] \in Int
  PROVE  /\ Product(f, S) \in Int
         /\ S = {} => Product(f, S) = 1
         /\ S # {} => Chosen(S) \in S /\ Product(f, S) = f[Chosen(S)] * Product(f, S \ {Chosen(S)})
<1> DEFINE choice == [s \in SUBSET S |-> Chosen(s)]
           step == [s \in SUBSET S |-> [n \in Int |-> IF s = {} THEN n ELSE f[Chosen(s)] * n]]
           Iter(h, D) == h = [s \in SUBSET D |-> IF s = {} THEN 1 ELSE f[Chosen(s)] * h[s \ {Chosen(s)}]]
           iter(D) == CHOOSE h : Iter(h, D)
<1>1. \A s \in SUBSET S : s # {} => Chosen(s) \in s /\ choice[s] = Chosen(s)
  BY DEF Chosen
<1>2. step \in [SUBSET S -> [Int -> Int]]
  <2>1. ASSUME NEW s \in SUBSET S, NEW n \in Int
        PROVE  (IF s = {} THEN n ELSE f[Chosen(s)] * n) \in Int
    <3>1. \A a, b \in Int : a * b \in Int
      OBVIOUS
    <3>2. s # {} => f[Chosen(s)] \in Int
      BY <1>1
    <3> QED BY <3>1, <3>2
  <2> QED BY <2>1
<1>3. PICK g \in [SUBSET S -> Int] : Computes(g, S, 1, choice, step)
  <2>1. \A s \in SUBSET S : s # {} => choice[s] \in s
    BY <1>1
  <2>2. 1 \in Int
    OBVIOUS
  <2> HIDE DEF choice, step
  <2> QED BY <1>2, <2>1, <2>2, SomeComputes
<1>4. \A s \in SUBSET S :
        g[s] = IF s = {} THEN 1 ELSE f[Chosen(s)] * g[s \ {Chosen(s)}]
  <2> TAKE s \in SUBSET S
  <2>1. g[s] = IF s = {} THEN 1 ELSE step[s][g[s \ {choice[s]}]]
    BY <1>3 DEF Computes
  <2>2. CASE s # {}
    <3>1. g[s \ {Chosen(s)}] \in Int
      OBVIOUS
    <3>2. step[s] = [n \in Int |-> f[Chosen(s)] * n]
      BY <2>2
    <3> QED BY <1>1, <2>1, <2>2, <3>1, <3>2
  <2> QED BY <2>1, <2>2
<1> HIDE DEF choice, step
<1>5. \A D \in SUBSET S : \A s \in SUBSET D : iter(D)[s] = g[s]
  <2> SUFFICES ASSUME NEW D \in SUBSET S PROVE \A s \in SUBSET D : iter(D)[s] = g[s]
    OBVIOUS
  <2>1. Iter([s \in SUBSET D |-> g[s]], D)
    <3> DEFINE h == [s \in SUBSET D |-> g[s]]
    <3>1. \A s \in SUBSET D :
            h[s] = IF s = {} THEN 1 ELSE f[Chosen(s)] * h[s \ {Chosen(s)}]
      BY <1>4
    <3> QED BY <3>1
  <2>2. Iter(iter(D), D)
    BY <2>1
  <2>3. \A s \in SUBSET D :
          iter(D)[s] = IF s = {} THEN 1 ELSE f[Chosen(s)] * iter(D)[s \ {Chosen(s)}]
    BY <2>2
  <2> HIDE DEF iter
  <2> DEFINE T == {s \in SUBSET D : iter(D)[s] # g[s]}
  <2> SUFFICES ASSUME T # {} PROVE FALSE
    OBVIOUS
  <2>4. PICK s \in T : \A y \in T : y \subseteq s => y = s
    <3>1. T \subseteq SUBSET S
      OBVIOUS
    <3> HIDE DEF T
    <3> QED BY <3>1, SmallestSet
  <2>5. s # {} /\ s \in SUBSET S
    BY <1>4, <2>3, <2>4
  <2>6. iter(D)[s \ {Chosen(s)}] = g[s \ {Chosen(s)}]
    BY <1>1, <2>4, <2>5
  <2> QED BY <1>4, <2>3, <2>4, <2>5, <2>6
<1>6. \A D \in SUBSET S : Product(f, D) = iter(D)[D]
  BY DEF Product, FoldFunctionOnSet, MapThenFoldSet, Chosen
<1>7. \A D \in SUBSET S : Product(f, D) = g[D]
  BY <1>5, <1>6
<1> HIDE DEF iter
<1>8. Product(f, S) \in Int
  BY <1>7
<1>9. S # {} => Product(f, S \ {Chosen(S)}) = g[S \ {Chosen(S)}]
  BY <1>7
<1> QED BY <1>1, <1>4, <1>7, <1>8, <1>9

\* Any element can be taken out first.
LEMMA ProductTakes ==
  ASSUME NEW f, NEW S, IsFiniteSet(S), \A x \in S : f[x] \in Int
  PROVE  \A x \in S : /\ Product(f, S) = f[x] * Product(f, S \ {x})
                      /\ Product(f, S \ {x}) \in Int
<1> DEFINE T == {s \in SUBSET S : \E y \in s : Product(f, s) # f[y] * Product(f, s \ {y})}
<1>1. ASSUME NEW s \in SUBSET S
      PROVE  /\ Product(f, s) \in Int
             /\ s # {} => Chosen(s) \in s /\ Product(f, s) = f[Chosen(s)] * Product(f, s \ {Chosen(s)})
  <2>1. IsFiniteSet(s) /\ \A x \in s : f[x] \in Int
    BY FS_Subset
  <2> QED BY <2>1, ProductUnfolds
<1>2. T = {}
  <2> SUFFICES ASSUME T # {} PROVE FALSE
    OBVIOUS
  <2>1. PICK s \in T : \A y \in T : y \subseteq s => y = s
    <3>1. T \subseteq SUBSET S
      OBVIOUS
    <3> HIDE DEF T
    <3> QED BY <3>1, SmallestSet
  <2>2. PICK y \in s : Product(f, s) # f[y] * Product(f, s \ {y})
    BY <2>1
  <2> DEFINE c == Chosen(s)
             u == s \ {c}
             v == s \ {y}
             w == u \ {y}
  <2>3. s \in SUBSET S /\ c \in s /\ Product(f, s) = f[c] * Product(f, u) /\ c # y
    BY <1>1, <2>1, <2>2
  <2>4. /\ u \in SUBSET S /\ u \notin T /\ v \in SUBSET S /\ v \notin T
        /\ y \in u /\ c \in v /\ w = v \ {c} /\ w \in SUBSET S
    BY <2>1, <2>2, <2>3
  <2>5. Product(f, u) = f[y] * Product(f, w) /\ Product(f, v) = f[c] * Product(f, w)
    BY <2>4
  <2>6. f[c] \in Int /\ f[y] \in Int /\ Product(f, w) \in Int
    BY <1>1, <2>2, <2>3, <2>4
  <2> HIDE DEF u, v, w, c
  <2>7. \A a, b, p \in Int : a * (b * p) = b * (a * p)
    OBVIOUS
  <2> QED BY <2>2, <2>3, <2>5, <2>6, <2>7 DEF v
<1>3. ASSUME NEW x \in S PROVE Product(f, S \ {x}) \in Int
  BY <1>1
<1> QED BY <1>2, <1>3

LEMMA ProductInt ==
  ASSUME NEW f, NEW S, IsFiniteSet(S), \A x \in S : f[x] \in Int
  PROVE  Product(f, S) \in Int
BY ProductUnfolds

LEMMA ProductNone == \A f : Product(f, {}) = 1
<1> TAKE f
<1>1. IsFiniteSet({}) /\ \A x \in {} : f[x] \in Int
  BY FS_EmptySet
<1> QED BY <1>1, ProductUnfolds

\* A one-to-one renaming of the factors does not change the product.
LEMMA ProductRenamed ==
  ASSUME NEW f, NEW S, IsFiniteSet(S), \A x \in S : f[x] \in Int,
         NEW h, NEW p, \A x \in S : h[p[x]] = f[x],
         \A x, y \in S : p[x] = p[y] => x = y
  PROVE  Product(h, {p[x] : x \in S}) = Product(f, S)
<1> DEFINE Image(s) == {p[x] : x \in s}
           T == {s \in SUBSET S : Product(h, Image(s)) # Product(f, s)}
<1> SUFFICES ASSUME T # {} PROVE FALSE
  OBVIOUS
<1>1. PICK s \in T : \A y \in T : y \subseteq s => y = s
  <2>1. T \subseteq SUBSET S
    OBVIOUS
  <2> HIDE DEF T
  <2> QED BY <2>1, SmallestSet
<1>2. s \in SUBSET S /\ Product(h, Image(s)) # Product(f, s)
  BY <1>1
<1>3. s # {}
  <2>1. s = {} => Image(s) = {}
    OBVIOUS
  <2> HIDE DEF Image
  <2> QED BY <1>2, <2>1, ProductNone
<1>4. PICK c \in s : TRUE
  BY <1>3
<1> DEFINE u == s \ {c}
<1>5. Product(h, Image(u)) = Product(f, u)
  BY <1>1
<1>6. IsFiniteSet(s) /\ \A x \in s : f[x] \in Int
  BY <1>2, FS_Subset
<1>7. Product(f, s) = f[c] * Product(f, u)
  <2> HIDE DEF Image, T
  <2> QED BY <1>4, <1>6, ProductTakes
<1>8. IsFiniteSet(Image(s))
  <2> DEFINE q == [x \in s |-> p[x]]
  <2>1. q \in Surjection(s, Image(s))
    BY DEF Surjection
  <2> HIDE DEF q, Image
  <2> QED BY <1>6, <2>1, FS_Surjection DEF ExistsSurjection
<1>9. /\ \A x \in Image(s) : h[x] \in Int
      /\ p[c] \in Image(s) /\ Image(s) \ {p[c]} = Image(u) /\ h[p[c]] = f[c]
  BY <1>2, <1>4, <1>6
<1> HIDE DEF Image, T, u
<1>10. Product(h, Image(s)) = h[p[c]] * Product(h, Image(s) \ {p[c]})
  BY <1>8, <1>9, ProductTakes
<1> QED BY <1>2, <1>5, <1>7, <1>9, <1>10

\* Two factors are the same, and a factor of one does not matter.
LEMMA ProductSame ==
  ASSUME NEW f, NEW S, IsFiniteSet(S), \A x \in S : f[x] \in Int,
         NEW h, \A x \in S : h[x] = f[x]
  PROVE  Product(h, S) = Product(f, S)
<1> DEFINE p == [x \in S |-> x]
<1>1. {p[x] : x \in S} = S /\ \A x \in S : p[x] = x
  OBVIOUS
<1> HIDE DEF p
<1>2. Product(h, {p[x] : x \in S}) = Product(f, S)
  BY <1>1, ProductRenamed
<1> QED BY <1>1, <1>2

LEMMA ProductOfOnes ==
  ASSUME NEW f, NEW S, IsFiniteSet(S), \A x \in S : f[x] \in Int,
         NEW U \in SUBSET S, \A x \in S \ U : f[x] = 1
  PROVE  Product(f, S) = Product(f, U)
<1> DEFINE T == {s \in SUBSET S : U \subseteq s /\ Product(f, s) # Product(f, U)}
<1> SUFFICES ASSUME T # {} PROVE FALSE
  OBVIOUS
<1>1. PICK s \in T : \A y \in T : y \subseteq s => y = s
  <2>1. T \subseteq SUBSET S
    OBVIOUS
  <2> HIDE DEF T
  <2> QED BY <2>1, SmallestSet
<1>2. s \in SUBSET S /\ U \subseteq s /\ Product(f, s) # Product(f, U)
  BY <1>1
<1>3. PICK c \in s : c \notin U
  BY <1>2
<1> DEFINE u == s \ {c}
<1>4. U \subseteq u /\ Product(f, u) = Product(f, U)
  BY <1>1, <1>3
<1>5. IsFiniteSet(s) /\ \A x \in s : f[x] \in Int
  BY <1>2, FS_Subset
<1>6. Product(f, s) = f[c] * Product(f, u) /\ Product(f, u) \in Int
  BY <1>3, <1>5, ProductTakes
<1>7. f[c] = 1
  BY <1>2, <1>3
<1> HIDE DEF u
<1> QED BY <1>2, <1>4, <1>6, <1>7

\* Positive factors have a positive product.
LEMMA ProductPositive ==
  ASSUME NEW f, NEW S, IsFiniteSet(S), \A x \in S : f[x] \in Nat \ {0}
  PROVE  Product(f, S) \in Nat \ {0}
<1> DEFINE T == {s \in SUBSET S : Product(f, s) \notin Nat \ {0}}
<1> SUFFICES ASSUME T # {} PROVE FALSE
  OBVIOUS
<1>1. PICK s \in T : \A y \in T : y \subseteq s => y = s
  <2>1. T \subseteq SUBSET S
    OBVIOUS
  <2> HIDE DEF T
  <2> QED BY <2>1, SmallestSet
<1>2. s # {}
  <2>1. Product(f, {}) \in Nat \ {0}
    BY ProductNone
  <2> QED BY <1>1, <2>1
<1>3. PICK c \in s : TRUE
  BY <1>2
<1> DEFINE u == s \ {c}
<1>4. Product(f, u) \in Nat \ {0}
  BY <1>1, <1>3
<1>5. IsFiniteSet(s) /\ \A x \in s : f[x] \in Int
  BY <1>1, FS_Subset
<1>6. Product(f, s) = f[c] * Product(f, u)
  BY <1>3, <1>5, ProductTakes
<1>7. f[c] \in Nat \ {0} /\ s \in T
  BY <1>1, <1>3
<1> HIDE DEF u
<1>8. \A a, b \in Nat \ {0} : a * b \in Nat \ {0}
  OBVIOUS
<1> QED BY <1>4, <1>6, <1>7, <1>8

\* A function on the first numbers is a sequence.
LEMMA ShapeOfFunction ==
  ASSUME NEW n \in Nat, NEW d \in [1..n -> Int]
  PROVE  d \in Seq(Int) /\ DOMAIN d = 1..n
OBVIOUS

\* The axes of a shape.
LEMMA Axes ==
  ASSUME NEW d \in Seq(Int)
  PROVE  /\ DOMAIN d = 1..Len(d) /\ Len(d) \in Nat /\ IsFiniteSet(DOMAIN d)
         /\ \A i \in DOMAIN d : d[i] \in Int
<1>1. DOMAIN d = 1..Len(d) /\ Len(d) \in Nat /\ 1 \in Int /\ Len(d) \in Int
  OBVIOUS
<1> QED BY <1>1, FS_Interval

\* The strides of a shape in any order.
LEMMA StrideType ==
  ASSUME NEW d \in Seq(Int), NEW order
  PROVE  StrideFromDim(d, order) \in Seq(Int) /\ Len(StrideFromDim(d, order)) = Len(d)
<1>1. ASSUME NEW i \in DOMAIN d
      PROVE  Product(d, {j \in DOMAIN d : order[j] < order[i]}) \in Int
  <2> DEFINE S == {j \in DOMAIN d : order[j] < order[i]}
  <2>1. IsFiniteSet(S) /\ \A x \in S : d[x] \in Int
    BY Axes, FS_Subset
  <2> HIDE DEF S
  <2> QED BY <2>1, ProductInt DEF S
<1>2. DOMAIN d = 1..Len(d) /\ Len(d) \in Nat
  BY Axes
<1> QED BY <1>1, <1>2 DEF StrideFromDim

-----------------------------------------------------------------------------
(* Sorting                                                                 *)

\* before[x] is what comes before x, for a strict total order of S.
Ordering(S, before) ==
  /\ \A x \in S : x \notin before[x]
  /\ \A x \in S : \A y \in before[x] : before[y] \subseteq before[x]
  /\ \A x, y \in S : x = y \/ x \in before[y] \/ y \in before[x]

\* The number of elements before one is its place: later elements have higher places,
\* and every place is that of an element.
LEMMA Places ==
  ASSUME NEW S, IsFiniteSet(S), NEW before \in [S -> SUBSET S], Ordering(S, before)
  PROVE  /\ Cardinality(S) \in Nat
         /\ \A x \in S : Cardinality(before[x]) \in 0..Cardinality(S) - 1
         /\ \A x, y \in S : y \in before[x] <=> Cardinality(before[y]) < Cardinality(before[x])
         /\ \A r \in 0..Cardinality(S) - 1 : \E x \in S : Cardinality(before[x]) = r
<1> DEFINE place(x) == Cardinality(before[x])
           n == Cardinality(S)
<1>1. n \in Nat
  BY FS_CardinalityType
<1>2. \A x \in S : IsFiniteSet(before[x]) /\ place(x) \in Nat
  <2> TAKE x \in S
  <2>1. IsFiniteSet(before[x])
    BY FS_Subset
  <2> QED BY <2>1, FS_CardinalityType
<1>3. ASSUME NEW x \in S, NEW y \in before[x]
      PROVE  place(y) < place(x)
  <2>1. before[y] \subseteq before[x] /\ y \notin before[y] /\ y \in S
    BY DEF Ordering
  <2>2. place(y) <= place(x) /\ place(y) # place(x)
    BY <1>2, <2>1, FS_Subset
  <2>3. place(x) \in Nat /\ place(y) \in Nat
    BY <1>2, <2>1
  <2> HIDE DEF place
  <2> QED BY <2>2, <2>3
<1>4. \A x \in S : place(x) \in 0..n - 1
  <2> TAKE x \in S
  <2>1. before[x] \subseteq S /\ before[x] # S
    BY DEF Ordering
  <2>2. place(x) <= n /\ place(x) # n
    BY <2>1, FS_Subset
  <2>3. place(x) \in Nat
    BY <1>2
  <2> HIDE DEF place, n
  <2> QED BY <1>1, <2>2, <2>3
<1>5. ASSUME NEW x \in S, NEW y \in S, place(y) < place(x)
      PROVE  y \in before[x]
  <2>1. x = y \/ x \in before[y] \/ y \in before[x]
    BY DEF Ordering
  <2>2. place(x) \in Nat /\ place(y) \in Nat
    BY <1>2
  <2>3. x \in before[y] => place(x) < place(y)
    BY <1>3
  <2> HIDE DEF place
  <2> QED BY <1>5, <2>1, <2>2, <2>3
<1> DEFINE f == [x \in S |-> place(x)]
<1>6. f \in Injection(S, 0..n - 1)
  <2>1. \A x, y \in S : place(x) = place(y) => x = y
    <3> TAKE x, y \in S
    <3>1. x = y \/ x \in before[y] \/ y \in before[x]
      BY DEF Ordering
    <3>2. place(x) \in Nat /\ place(y) \in Nat
      BY <1>2
    <3>3. (x \in before[y] => place(x) < place(y)) /\ (y \in before[x] => place(y) < place(x))
      BY <1>3
    <3> HIDE DEF place
    <3> QED BY <3>1, <3>2, <3>3
  <2> HIDE DEF place, n
  <2> QED BY <1>4, <2>1 DEF Injection, IsInjective
<1>7. f \in Surjection(S, 0..n - 1)
  <2>1. IsFiniteSet(0..n - 1) /\ Cardinality(0..n - 1) = n
    <3>1. 0 \in Int /\ n - 1 \in Int
      BY <1>1
    <3> HIDE DEF n
    <3>2. Cardinality(0..n - 1) = IF 0 > n - 1 THEN 0 ELSE n - 1 - 0 + 1
      BY <3>1, FS_Interval
    <3>3. IsFiniteSet(0..n - 1)
      BY <3>1, FS_Interval
    <3> QED BY <1>1, <3>2, <3>3
  <2> HIDE DEF f
  <2> QED BY <1>6, <2>1, FS_Injection DEF n
<1>8. \A r \in 0..n - 1 : \E x \in S : place(x) = r
  <2> HIDE DEF n, place
  <2> QED BY <1>7 DEF Surjection
<1> QED BY <1>1, <1>3, <1>4, <1>5, <1>8

\* The same for a set of numbers.
LEMMA PlacesOfNumbers ==
  ASSUME NEW S \in SUBSET Int, IsFiniteSet(S)
  PROVE  LET before == [x \in S |-> {y \in S : y < x}]
         IN  before \in [S -> SUBSET S] /\ Ordering(S, before)
<1> DEFINE before == [x \in S |-> {y \in S : y < x}]
<1>1. before \in [S -> SUBSET S]
  OBVIOUS
<1>2. \A x \in S : x \notin before[x]
  OBVIOUS
<1>3. \A x \in S : \A y \in before[x] : before[y] \subseteq before[x]
  <2>1. \A a, b, c \in Int : a < b /\ b < c => a < c
    OBVIOUS
  <2>2. \A x \in S : x \in Int
    OBVIOUS
  <2> SUFFICES ASSUME NEW x \in S, NEW y \in before[x], NEW z \in before[y]
               PROVE  z \in before[x]
    OBVIOUS
  <2>3. y \in S /\ y < x /\ z \in S /\ z < y
    OBVIOUS
  <2>4. z < x
    BY <2>1, <2>2, <2>3
  <2> QED BY <2>3, <2>4
<1>4. \A x, y \in S : x = y \/ x \in before[y] \/ y \in before[x]
  OBVIOUS
<1> QED BY <1>1, <1>2, <1>3, <1>4 DEF Ordering

\* Two orders of one set: match takes every element to that at the same place of the
\* second.
Matching(S, first, second, match) ==
  /\ match \in [S -> S]
  /\ \A x \in S : Cardinality(second[match[x]]) = Cardinality(first[x])

LEMMA MatchingIsPermutation ==
  ASSUME NEW S, IsFiniteSet(S),
         NEW first \in [S -> SUBSET S], Ordering(S, first),
         NEW second \in [S -> SUBSET S], Ordering(S, second),
         NEW match, Matching(S, first, second, match)
  PROVE  /\ match \in Bijection(S, S)
         /\ \A x, y \in S : y \in first[x] <=> match[y] \in second[match[x]]
<1>1. match \in [S -> S] /\ \A x \in S : Cardinality(second[match[x]]) = Cardinality(first[x])
  BY DEF Matching
<1>2. \A x, y \in S : y \in first[x] <=> Cardinality(first[y]) < Cardinality(first[x])
  BY Places
<1>3. \A x, y \in S : y \in second[x] <=> Cardinality(second[y]) < Cardinality(second[x])
  BY Places
<1>4. \A x, y \in S : y \in first[x] <=> match[y] \in second[match[x]]
  <2> TAKE x, y \in S
  <2>1. match[x] \in S /\ match[y] \in S
    BY <1>1
  <2>2. match[y] \in second[match[x]]
          <=> Cardinality(second[match[y]]) < Cardinality(second[match[x]])
    BY <1>3, <2>1
  <2>3. /\ Cardinality(second[match[y]]) = Cardinality(first[y])
        /\ Cardinality(second[match[x]]) = Cardinality(first[x])
    BY <1>1
  <2> QED BY <1>2, <2>2, <2>3
<1>5. match \in Injection(S, S)
  <2>1. \A x, y \in S : match[x] = match[y] => x = y
    <3> TAKE x, y \in S
    <3>1. x = y \/ x \in first[y] \/ y \in first[x]
      BY DEF Ordering
    <3>2. match[x] \notin second[match[x]]
      BY <1>1 DEF Ordering
    <3> QED BY <1>4, <3>1, <3>2
  <2> QED BY <1>1, <2>1 DEF Injection, IsInjective
<1>6. match \in Surjection(S, S)
  BY <1>5, FS_Injection
<1> QED BY <1>4, <1>5, <1>6 DEF Bijection

-----------------------------------------------------------------------------
(* The permutation of the axes                                             *)

\* dims and strides of one rank.
Strided(t) == t.dim \in Seq(Int) /\ t.stride \in Seq(Int) /\ Len(t.dim) = Len(t.stride)

LEMMA StridedAxes ==
  ASSUME NEW t, Strided(t)
  PROVE  /\ DOMAIN t.dim = 1..Len(t.dim) /\ DOMAIN t.stride = DOMAIN t.dim
         /\ Len(t.dim) \in Nat
         /\ IsFiniteSet(DOMAIN t.dim)
         /\ \A i \in DOMAIN t.dim : i \in Int /\ t.dim[i] \in Int /\ t.stride[i] \in Int
<1> DEFINE d == t.dim
           s == t.stride
<1>1. d \in Seq(Int) /\ s \in Seq(Int) /\ Len(d) = Len(s)
  BY DEF Strided
<1> HIDE DEF d, s
<1>2. /\ DOMAIN d = 1..Len(d) /\ DOMAIN s = DOMAIN d /\ Len(d) \in Nat
      /\ IsFiniteSet(DOMAIN d)
      /\ \A i \in DOMAIN d : i \in Int /\ d[i] \in Int /\ s[i] \in Int
  <2>1. IsFiniteSet(DOMAIN d)
    BY <1>1, Axes
  <2> QED BY <1>1, <2>1
<1> QED BY <1>2 DEF d, s

\* Sorted by stride, axes have one order.
LEMMA SlowerOrders ==
  ASSUME NEW t, Strided(t), NEW axes \in SUBSET DOMAIN t.dim
  PROVE  LET slower == [i \in axes |-> Slower(t, axes, i)]
         IN  slower \in [axes -> SUBSET axes] /\ Ordering(axes, slower)
<1> DEFINE slower == [i \in axes |-> Slower(t, axes, i)]
           s == t.stride
<1>1. \A i \in axes : i \in Int /\ s[i] \in Int
  BY StridedAxes
<1>2. \A i \in axes : slower[i] = {j \in axes : s[j] > s[i] \/ (s[j] = s[i] /\ j < i)}
  BY DEF Slower
<1>3. slower \in [axes -> SUBSET axes]
  BY DEF Slower
<1> HIDE DEF slower, s
<1>4. \A x \in axes : x \notin slower[x]
  BY <1>1, <1>2
<1>5. \A x \in axes : \A y \in slower[x] : slower[y] \subseteq slower[x]
  <2>1. \A a, b, c, i, j, k \in Int :
          (b > a \/ (b = a /\ j < i)) /\ (c > b \/ (c = b /\ k < j))
            => c > a \/ (c = a /\ k < i)
    OBVIOUS
  <2> SUFFICES ASSUME NEW x \in axes, NEW y \in slower[x], NEW z \in slower[y]
               PROVE  z \in slower[x]
    OBVIOUS
  <2>2. y \in axes /\ (s[y] > s[x] \/ (s[y] = s[x] /\ y < x))
    BY <1>2
  <2>3. z \in axes /\ (s[z] > s[y] \/ (s[z] = s[y] /\ z < y))
    BY <1>2, <2>2
  <2>4. s[z] > s[x] \/ (s[z] = s[x] /\ z < x)
    BY <1>1, <2>1, <2>2, <2>3
  <2> QED BY <1>2, <2>3, <2>4
<1>6. \A x, y \in axes : x = y \/ x \in slower[y] \/ y \in slower[x]
  <2>1. \A a, b, i, j \in Int :
          i = j \/ (a > b \/ (a = b /\ i < j)) \/ (b > a \/ (b = a /\ j < i))
    OBVIOUS
  <2> TAKE x, y \in axes
  <2>2. x = y \/ (s[x] > s[y] \/ (s[x] = s[y] /\ x < y)) \/ (s[y] > s[x] \/ (s[y] = s[x] /\ y < x))
    BY <1>1, <2>1
  <2> QED BY <1>2, <2>2
<1>7. Ordering(axes, slower)
  BY <1>4, <1>5, <1>6 DEF Ordering
<1> QED BY <1>3, <1>7 DEF slower

\* What sorts the axes is a permutation; it takes the axes in the order of their numbers
\* to the axes in the order of their strides, and leaves the others.
LEMMA SortedPermutes ==
  ASSUME NEW t, Strided(t), NEW axes \in SUBSET DOMAIN t.dim,
         NEW perm, perm = SortedAxes(t, axes)
  PROVE  /\ DOMAIN perm = DOMAIN t.dim
         /\ perm \in Bijection(DOMAIN t.dim, DOMAIN t.dim)
         /\ \A i \in DOMAIN t.dim \ axes : perm[i] = i
         /\ \A i \in axes : perm[i] \in axes
         /\ \A j \in axes : \E i \in axes : perm[i] = j
         /\ \A i, j \in axes : j < i <=> perm[j] \in Slower(t, axes, perm[i])
<1> DEFINE D == DOMAIN t.dim
           first == [i \in axes |-> {k \in axes : k < i}]
           slower == [i \in axes |-> Slower(t, axes, i)]
           match == [i \in axes |-> perm[i]]
<1>1. IsFiniteSet(axes) /\ axes \in SUBSET Int
  BY StridedAxes, FS_Subset
<1>2. first \in [axes -> SUBSET axes] /\ Ordering(axes, first)
  BY <1>1, PlacesOfNumbers
<1>3. slower \in [axes -> SUBSET axes] /\ Ordering(axes, slower)
  BY SlowerOrders
<1>4. ASSUME NEW i \in axes
      PROVE  perm[i] \in axes /\ Cardinality(slower[perm[i]]) = Cardinality(first[i])
  <2> DEFINE r == Cardinality(first[i])
  <2>1. r \in 0..Cardinality(axes) - 1
    <3> HIDE DEF first
    <3> QED BY <1>1, <1>2, Places
  <2>2. \E j \in axes : Cardinality(slower[j]) = r
    <3> HIDE DEF slower, r
    <3> QED BY <1>1, <1>3, <2>1, Places
  <2>3. \E j \in axes : Cardinality(Slower(t, axes, j)) = Cardinality({k \in axes : k < i})
    BY <2>2
  <2>4. perm[i] = CHOOSE j \in axes : Cardinality(Slower(t, axes, j)) = Cardinality({k \in axes : k < i})
    BY DEF SortedAxes
  <2>5. perm[i] \in axes /\ Cardinality(Slower(t, axes, perm[i])) = Cardinality({k \in axes : k < i})
    BY <2>3, <2>4
  <2> QED BY <2>5
<1>5. match \in [axes -> axes] /\ \A i \in axes : match[i] = perm[i]
  BY <1>4
<1>6. Matching(axes, first, slower, match)
  BY <1>4, <1>5 DEF Matching
<1>7. DOMAIN perm = D /\ \A i \in D \ axes : perm[i] = i
  BY DEF SortedAxes
<1>8. /\ \A i, j \in axes : match[i] = match[j] => i = j
      /\ \A j \in axes : \E i \in axes : match[i] = j
      /\ \A i, j \in axes : j \in first[i] <=> match[j] \in slower[match[i]]
  <2> HIDE DEF first, slower, match
  <2>1. /\ match \in Bijection(axes, axes)
        /\ \A i, j \in axes : j \in first[i] <=> match[j] \in slower[match[i]]
    BY <1>1, <1>2, <1>3, <1>6, MatchingIsPermutation
  <2> QED BY <1>5, <2>1 DEF Bijection, Injection, Surjection, IsInjective
<1>9. \A i, j \in axes : j < i <=> perm[j] \in Slower(t, axes, perm[i])
  BY <1>4, <1>5, <1>8
<1> HIDE DEF first, slower, match
<1>10. \A i, j \in D : perm[i] = perm[j] => i = j
  BY <1>4, <1>5, <1>7, <1>8
<1>11. \A j \in D : \E i \in D : perm[i] = j
  BY <1>5, <1>7, <1>8
<1>12. perm \in [D -> D]
  <2>1. \A i \in D : perm[i] \in D
    BY <1>4, <1>7
  <2>2. perm = [i \in D |-> perm[i]]
    BY DEF SortedAxes
  <2> QED BY <2>1, <2>2
<1>13. perm \in Bijection(D, D)
  BY <1>7, <1>10, <1>11, <1>12 DEF Bijection, Injection, Surjection, IsInjective
<1> QED BY <1>4, <1>5, <1>7, <1>8, <1>9, <1>13

-----------------------------------------------------------------------------
(* Addresses                                                               *)

\* A sum of which only one term counts.
LEMMA SumOnly ==
  ASSUME NEW S, IsFiniteSet(S), NEW f \in [S -> Int], NEW x \in S, \A y \in S \ {x} : f[y] = 0
  PROVE  SumFunction(f) = f[x]
<1>1. PICK g : SumFunction(f) = g[S] /\ Sums(g, S, f)
  BY SumUnfolds
<1> DEFINE T == {s \in SUBSET S : g[s] # IF x \in s THEN f[x] ELSE 0}
<1> SUFFICES ASSUME T # {} PROVE FALSE
  BY <1>1
<1>2. PICK s \in T : \A y \in T : y \subseteq s => y = s
  <2>1. T \subseteq SUBSET S
    OBVIOUS
  <2> HIDE DEF T
  <2> QED BY <2>1, SmallestSet
<1>3. s # {} /\ Chosen(s) \in s
  <2>1. {} \notin T
    BY <1>1 DEF Sums
  <2>2. s # {} /\ s \in SUBSET S
    BY <1>2, <2>1
  <2> QED BY <1>1, <2>2 DEF Sums
<1> DEFINE c == Chosen(s)
           u == s \ {c}
<1>4. g[u] = IF x \in u THEN f[x] ELSE 0
  BY <1>2, <1>3
<1>5. /\ g[s] = f[c] + g[u] /\ c \in S /\ s \in SUBSET S
      /\ g[s] # IF x \in s THEN f[x] ELSE 0
      /\ f[c] \in Int /\ f[x] \in Int
  BY <1>1, <1>2, <1>3 DEF Sums
<1>6. CASE c = x
  <2>1. x \notin u /\ x \in s
    BY <1>3, <1>6
  <2> HIDE DEF c, u
  <2> QED BY <1>4, <1>5, <1>6, <2>1
<1>7. CASE c # x
  <2>1. x \in u <=> x \in s
    BY <1>7
  <2>2. f[c] = 0
    BY <1>5, <1>7
  <2> HIDE DEF c, u
  <2> QED BY <1>4, <1>5, <2>1, <2>2
<1> QED BY <1>6, <1>7

\* The address of a coordinate that is not 0 along at most one axis.
LEMMA AddressOfUnit ==
  ASSUME NEW stride \in Seq(Int), NEW x, NEW k \in DOMAIN stride, x[k] \in {0, 1},
         \A i \in DOMAIN stride \ {k} : x[i] = 0
  PROVE  Address(stride, x) = IF x[k] = 1 THEN stride[k] ELSE 0
<1> DEFINE f == [i \in DOMAIN stride |-> x[i] * stride[i]]
<1>1. \A i \in DOMAIN stride : stride[i] \in Int
  BY Axes
<1>2. \A n \in Int : 0 * n = 0 /\ 1 * n = n
  OBVIOUS
<1>3. \A i \in DOMAIN stride \ {k} : f[i] = 0
  BY <1>1, <1>2
<1>4. f[k] = IF x[k] = 1 THEN stride[k] ELSE 0
  BY <1>1, <1>2
<1>5. f \in [DOMAIN stride -> Int]
  <2>1. \A i \in DOMAIN stride : f[i] \in Int
    BY <1>1, <1>3, <1>4
  <2> QED BY <2>1
<1>6. IsFiniteSet(DOMAIN stride)
  BY Axes
<1>7. Address(stride, x) = SumFunction(f)
  BY DEF Address
<1> HIDE DEF f
<1> QED BY <1>3, <1>4, <1>5, <1>6, <1>7, SumOnly

\* The stride of an axis in a row-major array: the product of the later dims.
LEMMA ContiguousStrideIs ==
  ASSUME NEW d \in Seq(Int)
  PROVE  /\ ContiguousStride(d) \in Seq(Int) /\ DOMAIN ContiguousStride(d) = DOMAIN d
         /\ \A k \in DOMAIN d :
              ContiguousStride(d)[k] = Product(d, {j \in DOMAIN d : k < j})
<1> DEFINE n == Len(d)
<1>1. DOMAIN d = 1..n /\ n \in Nat
  BY Axes
<1>2. ContiguousStride(d) \in Seq(Int) /\ DOMAIN ContiguousStride(d) = DOMAIN d
  BY StrideType DEF ContiguousStride, StrideFromDim
<1> HIDE DEF n
<1>3. ASSUME NEW k \in DOMAIN d
      PROVE  {j \in DOMAIN d : ContiguousOrder(n)[j] < ContiguousOrder(n)[k]}
               = {j \in DOMAIN d : k < j}
  BY <1>1 DEF ContiguousOrder
<1> QED BY <1>2, <1>3 DEF ContiguousStride, StrideFromDim, n

\* dim and stride are those of a buffer whose axes have the order that t's have, without
\* gaps, and which repeats along the axes that t expands.
LaidOutLike(t, dim, stride) ==
  LET axes == Reorderable(t)
  IN  /\ \A i \in DOMAIN dim : dim[i] \in Nat \ {0}
      /\ \A i \in DOMAIN dim \ axes : i \in BroadcastAxes(t) \/ dim[i] = 1
      /\ \A i \in BroadcastAxes(t) : stride[i] = 0
      /\ \A i, j \in axes : t.stride[i] = t.stride[j] => i = j
      /\ \A i \in axes : stride[i] = Product(dim, {l \in axes : t.stride[l] < t.stride[i]})

\* The dims that the compiler expands are 1.
Collapsed(t, dim) == [i \in DOMAIN dim |-> IF i \in BroadcastAxes(t) THEN 1 ELSE dim[i]]

LEMMA CollapsedIs ==
  ASSUME NEW t, Strided(t), NEW dim \in Seq(Int), DOMAIN dim = DOMAIN t.dim,
         NEW stride, LaidOutLike(t, dim, stride)
  PROVE  /\ DOMAIN Collapsed(t, dim) = DOMAIN dim
         /\ \A i \in DOMAIN dim : Collapsed(t, dim)[i] \in Int
         /\ \A i \in DOMAIN dim \ Reorderable(t) : Collapsed(t, dim)[i] = 1
         /\ \A i \in Reorderable(t) : Collapsed(t, dim)[i] = dim[i]
<1>1. \A i \in Reorderable(t) : i \in DOMAIN dim /\ i \notin BroadcastAxes(t)
  BY DEF Reorderable, BroadcastAxes
<1>2. \A i \in DOMAIN dim : dim[i] \in Int
  BY Axes
<1>3. \A i \in DOMAIN dim \ Reorderable(t) : i \in BroadcastAxes(t) \/ dim[i] = 1
  BY DEF LaidOutLike
<1> QED BY <1>1, <1>2, <1>3 DEF Collapsed

\* The row-major stride of the physical axis that holds axis i is the stride of i.
LEMMA StrideOfPhysical ==
  ASSUME NEW t, Strided(t), NEW dim \in Seq(Int), DOMAIN dim = DOMAIN t.dim,
         NEW stride, LaidOutLike(t, dim, stride),
         NEW perm, perm = LogicalToPhysical(t),
         NEW k \in Reorderable(t)
  PROVE  ContiguousStride(Permuted(Collapsed(t, dim), perm))[k] = stride[perm[k]]
<1> DEFINE D == DOMAIN dim
           axes == Reorderable(t)
           q == Collapsed(t, dim)
           physical == Permuted(q, perm)
           after == {j \in D : k < j}
           faster == {l \in axes : t.stride[l] < t.stride[perm[k]]}
<1>1. axes \in SUBSET D
  BY DEF Reorderable
<1>2. /\ DOMAIN perm = D
      /\ perm \in Bijection(D, D)
      /\ \A i \in D \ axes : perm[i] = i
      /\ \A i \in axes : perm[i] \in axes
      /\ \A j \in axes : \E i \in axes : perm[i] = j
      /\ \A i, j \in axes : j < i <=> perm[j] \in Slower(t, axes, perm[i])
  <2>1. perm = SortedAxes(t, axes)
    BY DEF LogicalToPhysical
  <2> HIDE DEF axes
  <2>2. axes \in SUBSET DOMAIN t.dim
    BY <1>1
  <2> QED BY <2>1, <2>2, SortedPermutes
<1>3. /\ DOMAIN q = D
      /\ \A i \in D : q[i] \in Int
      /\ \A i \in D \ axes : q[i] = 1
      /\ \A i \in axes : q[i] = dim[i]
  BY CollapsedIs
<1>4. \A i \in D : perm[i] \in D
  BY <1>1, <1>2
<1>5. DOMAIN physical = D /\ \A i \in D : physical[i] = q[perm[i]] /\ physical[i] \in Int
  BY <1>2, <1>3, <1>4 DEF Permuted
<1>6. physical \in Seq(Int)
  <2>1. physical = [i \in D |-> q[perm[i]]]
    BY <1>2 DEF Permuted
  <2>2. D = 1..Len(dim) /\ Len(dim) \in Nat
    BY Axes
  <2>3. physical \in [1..Len(dim) -> Int]
    BY <1>5, <2>1, <2>2
  <2> HIDE DEF physical
  <2> QED BY <2>2, <2>3
<1> HIDE DEF q, physical, axes
<1>7. ContiguousStride(physical)[k] = Product(physical, after)
  <2>1. k \in DOMAIN physical
    BY <1>1, <1>5 DEF axes
  <2>2. ContiguousStride(physical)[k] = Product(physical, {j \in DOMAIN physical : k < j})
    BY <1>6, <2>1, ContiguousStrideIs
  <2> QED BY <1>5, <2>2
<1>8. IsFiniteSet(after) /\ \A i \in after : physical[i] \in Int
  <2>1. IsFiniteSet(D)
    BY Axes
  <2>2. after \in SUBSET D
    OBVIOUS
  <2> HIDE DEF after, D
  <2> QED BY <1>5, <2>1, <2>2, FS_Subset
<1>9. Product(physical, after) = Product(physical, after \cap axes)
  <2>1. \A i \in after \ (after \cap axes) : physical[i] = 1
    BY <1>2, <1>3, <1>5
  <2> HIDE DEF after
  <2> QED BY <1>8, <2>1, ProductOfOnes
<1>10. Product(physical, after \cap axes) = Product(q, {perm[j] : j \in after \cap axes})
  <2> DEFINE u == after \cap axes
  <2>1. IsFiniteSet(u) /\ \A i \in u : physical[i] \in Int
    BY <1>8, FS_Subset
  <2>2. \A i \in u : q[perm[i]] = physical[i]
    BY <1>5
  <2>3. \A i, j \in u : perm[i] = perm[j] => i = j
    <3>1. u \in SUBSET D
      OBVIOUS
    <3>2. \A i, j \in D : perm[i] = perm[j] => i = j
      BY <1>2 DEF Bijection, Injection, IsInjective
    <3> QED BY <3>1, <3>2
  <2> HIDE DEF u
  <2>4. Product(q, {perm[j] : j \in u}) = Product(physical, u)
    BY <2>1, <2>2, <2>3, ProductRenamed
  <2> QED BY <2>4 DEF u
<1>11. \A i \in axes : i \in Int /\ t.stride[i] \in Int
  BY <1>1, StridedAxes
<1>12. \A j \in axes : k < j <=> t.stride[perm[j]] < t.stride[perm[k]]
  <2> TAKE j \in axes
  <2> DEFINE a == t.stride[perm[k]]
             b == t.stride[perm[j]]
  <2>1. k \in axes /\ perm[k] \in axes /\ perm[j] \in axes
    BY <1>2 DEF axes
  <2>2. k < j <=> a > b \/ (a = b /\ perm[k] < perm[j])
    BY <1>2, <2>1 DEF Slower
  <2>3. a = b => perm[k] = perm[j]
    BY <2>1 DEF LaidOutLike, axes
  <2>4. a \in Int /\ b \in Int /\ perm[k] \in Int /\ perm[j] \in Int
    BY <1>11, <2>1
  <2> HIDE DEF a, b
  <2>5. k < j <=> b < a
    BY <2>2, <2>3, <2>4
  <2> QED BY <2>5 DEF a, b
<1>13. {perm[j] : j \in after \cap axes} = faster
  <2>1. \A j \in after \cap axes : perm[j] \in faster
    BY <1>2, <1>12
  <2>2. \A l \in faster : \E j \in after \cap axes : perm[j] = l
    <3> TAKE l \in faster
    <3>1. l \in axes /\ t.stride[l] < t.stride[perm[k]]
      OBVIOUS
    <3>2. PICK j \in axes : perm[j] = l
      BY <1>2, <3>1
    <3>3. k < j
      BY <1>12, <3>1, <3>2
    <3> QED BY <1>1, <3>2, <3>3
  <2> HIDE DEF faster, after
  <2> QED BY <2>1, <2>2
<1>14. Product(q, faster) = Product(dim, faster)
  <2>1. faster \in SUBSET D /\ faster \subseteq axes
    BY <1>1
  <2>2. IsFiniteSet(faster) /\ \A i \in faster : dim[i] \in Int /\ q[i] = dim[i]
    <3>1. IsFiniteSet(D) /\ \A i \in D : dim[i] \in Int
      BY Axes
    <3> HIDE DEF faster, D
    <3> QED BY <1>3, <2>1, <3>1, FS_Subset
  <2> HIDE DEF faster
  <2> QED BY <2>2, ProductSame
<1>15. stride[perm[k]] = Product(dim, faster)
  <2>1. perm[k] \in axes
    BY <1>2 DEF axes
  <2> QED BY <2>1 DEF LaidOutLike, axes
<1> HIDE DEF after, faster
<1> QED BY <1>7, <1>9, <1>10, <1>13, <1>14, <1>15 DEF physical, q

\* Every element of such a buffer is where the compiler looks for it.
LEMMA LaidOutLikeIsFaithful ==
  ASSUME NEW t, Strided(t), NEW dim \in Seq(Int), DOMAIN dim = DOMAIN t.dim,
         NEW stride \in Seq(Int), DOMAIN stride = DOMAIN dim, LaidOutLike(t, dim, stride)
  PROVE  FaithfulFor(t, dim, stride)
<1> DEFINE D == DOMAIN dim
           axes == Reorderable(t)
           broadcast == BroadcastAxes(t)
           perm == LogicalToPhysical(t)
           physical == Permuted(Collapsed(t, dim), perm)
           unit(i) == [j \in D |-> IF j = i THEN 1 ELSE 0]
           collapsed(x) == [i \in DOMAIN x |-> IF i \in broadcast THEN 0 ELSE x[i]]
           place(x) == Permuted(collapsed(x), perm)
           physicalStride == ContiguousStride(physical)
<1>1. axes \in SUBSET D /\ broadcast \in SUBSET D /\ axes \cap broadcast = {}
  BY DEF Reorderable, BroadcastAxes
<1>2. /\ DOMAIN perm = D
      /\ \A i, j \in D : perm[i] = perm[j] => i = j
      /\ \A i \in D : perm[i] \in D
      /\ \A i \in axes : perm[i] \in axes
      /\ \A j \in axes : \E i \in axes : perm[i] = j
  <2>1. perm = SortedAxes(t, axes)
    BY DEF LogicalToPhysical
  <2> HIDE DEF axes, perm
  <2>2. axes \in SUBSET DOMAIN t.dim
    BY <1>1
  <2>3. /\ DOMAIN perm = DOMAIN t.dim
        /\ perm \in Bijection(DOMAIN t.dim, DOMAIN t.dim)
        /\ \A i \in axes : perm[i] \in axes
        /\ \A j \in axes : \E i \in axes : perm[i] = j
    BY <2>1, <2>2, SortedPermutes
  <2> QED BY <2>3 DEF Bijection, Injection, IsInjective
<1>3. physical \in Seq(Int) /\ DOMAIN physical = D
  <2> DEFINE q == Collapsed(t, dim)
  <2>1. DOMAIN q = D /\ \A i \in D : q[i] \in Int
    BY CollapsedIs
  <2>2. physical = [i \in D |-> q[perm[i]]]
    BY <1>2 DEF Permuted
  <2>3. D = 1..Len(dim) /\ Len(dim) \in Nat
    BY Axes
  <2> HIDE DEF q, perm
  <2>4. physical \in [1..Len(dim) -> Int]
    BY <1>2, <2>1, <2>2, <2>3
  <2> HIDE DEF physical
  <2>5. physical \in Seq(Int) /\ DOMAIN physical = 1..Len(dim)
    BY <2>3, <2>4, ShapeOfFunction
  <2> QED BY <2>3, <2>5
<1>4. physicalStride \in Seq(Int) /\ DOMAIN physicalStride = D
  <2> HIDE DEF physical
  <2> QED BY <1>3, ContiguousStrideIs
<1>5. \A i \in D : stride[i] \in Int
  BY Axes
<1> HIDE DEF perm, axes, broadcast, physicalStride
<1>6. ASSUME NEW i \in D, dim[i] > 1
      PROVE  Address(physicalStride, place(unit(i))) = Address(stride, unit(i))
  <2> DEFINE x == unit(i)
             y == place(x)
  <2>1. x[i] = 1 /\ \A j \in D \ {i} : x[j] = 0
    OBVIOUS
  <2>2. DOMAIN x = D
    OBVIOUS
  <2>3. Address(stride, x) = stride[i]
    <3> HIDE DEF x
    <3> QED BY <2>1, AddressOfUnit
  <2>4. \A j \in D : y[j] = IF perm[j] \in broadcast THEN 0 ELSE x[perm[j]]
    <3>1. DOMAIN perm = D /\ \A j \in D : perm[j] \in D
      BY <1>2
    <3> HIDE DEF x
    <3> QED BY <2>2, <3>1 DEF Permuted
  <2> HIDE DEF x, y
  <2>5. CASE i \in broadcast
    <3>1. ASSUME NEW j \in D PROVE y[j] = 0
      <4>1. perm[j] \in D /\ (perm[j] \notin broadcast => perm[j] # i)
        BY <1>2, <2>5
      <4>2. perm[j] \notin broadcast => x[perm[j]] = 0
        BY <2>1, <4>1
      <4> QED BY <2>4, <4>2
    <3>2. i \in DOMAIN physicalStride /\ y[i] = 0
      BY <1>4, <3>1
    <3>3. Address(physicalStride, y) = IF y[i] = 1 THEN physicalStride[i] ELSE 0
      <4>1. \A j \in DOMAIN physicalStride \ {i} : y[j] = 0
        BY <1>4, <3>1
      <4> QED BY <1>4, <3>2, <4>1, AddressOfUnit
    <3>4. stride[i] = 0
      BY <2>5 DEF LaidOutLike, broadcast
    <3> QED BY <2>3, <3>2, <3>3, <3>4 DEF x, y
  <2>6. CASE i \notin broadcast
    <3>1. i \in axes
      BY <1>6, <2>6 DEF LaidOutLike, axes, broadcast
    <3>2. PICK k \in axes : perm[k] = i
      BY <1>2, <3>1
    <3>3. k \in D /\ y[k] = 1
      <4>1. k \in D
        BY <1>1
      <4>2. y[k] = x[i]
        BY <2>4, <2>6, <3>2, <4>1
      <4> QED BY <2>1, <4>1, <4>2
    <3>4. ASSUME NEW j \in D \ {k} PROVE y[j] = 0
      <4>1. perm[j] \in D /\ perm[j] # i
        BY <1>2, <3>2, <3>3
      <4>2. x[perm[j]] = 0
        BY <2>1, <4>1
      <4> QED BY <2>4, <4>2
    <3>5. Address(physicalStride, y) = physicalStride[k]
      <4>1. k \in DOMAIN physicalStride /\ y[k] \in {0, 1} /\ y[k] = 1
        BY <1>4, <3>3
      <4>2. \A j \in DOMAIN physicalStride \ {k} : y[j] = 0
        BY <1>4, <3>4
      <4> QED BY <1>4, <4>1, <4>2, AddressOfUnit
    <3>6. physicalStride[k] = stride[perm[k]]
      BY <3>2, StrideOfPhysical DEF axes, physicalStride, perm
    <3> QED BY <2>3, <3>2, <3>5, <3>6 DEF x, y
  <2> QED BY <2>5, <2>6
<1>7. FaithfulFor(t, dim, stride) <=>
        \A x \in UnitCoordinates(dim) : Address(physicalStride, place(x)) = Address(stride, x)
  BY DEF FaithfulFor, RowMajor, Collapsed, broadcast, perm, physicalStride
<1>8. \A x \in UnitCoordinates(dim) : \E i \in D : dim[i] > 1 /\ x = unit(i)
  BY DEF UnitCoordinates
<1> HIDE DEF place, unit
<1> QED BY <1>6, <1>7, <1>8

\* A valid layout has no two axes of one stride.
LEMMA DistinctStrides ==
  ASSUME NEW t, Strided(t), ValidPhysical(t), \A i \in DOMAIN t.dim : t.dim[i] \in Nat \ {0}
  PROVE  \A i, j \in Reorderable(t) : t.stride[i] = t.stride[j] => i = j
<1> DEFINE axes == Reorderable(t)
           d == t.dim
<1>1. axes \in SUBSET DOMAIN d /\ IsFiniteSet(axes)
  BY StridedAxes, FS_Subset DEF Reorderable
<1>2. \A i \in axes : i \in Int /\ t.stride[i] \in Int /\ t.stride[i] # 0
  BY StridedAxes DEF Reorderable
<1>3. \A i \in axes : d[i] \in Nat \ {0} /\ d[i] # 1
  BY <1>1 DEF Reorderable
<1>4. ASSUME NEW i \in axes, NEW j \in axes, t.stride[i] = t.stride[j], i < j
      PROVE  FALSE
  <2> DEFINE f == Faster(t, axes, i)
             g == Faster(t, axes, j)
  <2>1. f \in SUBSET axes /\ g \in SUBSET axes /\ i \in g /\ f \subseteq g \ {i}
    <3>1. \A k \in axes : k < i => k < j
      BY <1>2, <1>4
    <3>2. i \notin f
      BY <1>2 DEF Faster
    <3> QED BY <1>4, <3>1, <3>2 DEF Faster
  <2>2. t.stride[i] = Product(d, f) /\ t.stride[j] = Product(d, g)
    BY DEF ValidPhysical
  <2> HIDE DEF f, g, d, axes
  <2>3. IsFiniteSet(g) /\ IsFiniteSet(f) /\ IsFiniteSet((g \ {i}) \ f)
    BY <1>1, <2>1, FS_Subset
  <2>4. Product(d, f) \in Nat \ {0}
    <3>1. \A k \in f : d[k] \in Nat \ {0}
      BY <1>3, <2>1
    <3> QED BY <2>3, <3>1, ProductPositive
  <2>5. Product(d, g) > Product(d, f)
    <3> DEFINE T == {s \in SUBSET g : i \in s /\ f \subseteq s /\ ~(Product(d, s) > Product(d, f))}
    <3> SUFFICES ASSUME T # {} PROVE FALSE
      BY <2>1
    <3>1. PICK s \in T : \A y \in T : y \subseteq s => y = s
      <4>1. T \subseteq SUBSET g
        OBVIOUS
      <4> HIDE DEF T
      <4> QED BY <2>3, <4>1, SmallestSet
    <3>2. s \in SUBSET g /\ i \in s /\ f \subseteq s /\ ~(Product(d, s) > Product(d, f))
      BY <3>1
    <3>3. IsFiniteSet(s) /\ \A k \in s : d[k] \in Int /\ d[k] \in Nat \ {0} /\ d[k] # 1
      BY <1>3, <2>1, <2>3, <3>2, FS_Subset
    <3>4. \A a, b \in Nat \ {0} : a # 1 => a * b > b
      <4> TAKE a, b \in Nat \ {0}
      <4> HAVE a # 1
      <4>1. (a - 2) * b >= 0
        BY SMT
      <4>2. a * b = (a - 2) * b + 2 * b
        BY SMT
      <4> QED BY <4>1, <4>2
    <3>5. CASE s = f \cup {i}
      <4>1. Product(d, s) = d[i] * Product(d, s \ {i})
        BY <3>2, <3>3, ProductTakes
      <4>2. s \ {i} = f
        BY <2>1, <3>5
      <4> QED BY <2>4, <3>2, <3>3, <3>4, <4>1, <4>2
    <3>6. CASE s # f \cup {i}
      <4>1. PICK c \in s : c \notin f /\ c # i
        BY <3>2, <3>6
      <4> DEFINE u == s \ {c}
      <4>2. u \in SUBSET g /\ i \in u /\ f \subseteq u /\ u \subseteq s /\ u # s
        BY <3>2, <4>1
      <4>3. Product(d, u) > Product(d, f)
        BY <3>1, <4>2
      <4>4. Product(d, s) = d[c] * Product(d, u) /\ Product(d, u) \in Int
        BY <3>3, <4>1, ProductTakes
      <4>5. d[c] \in Nat \ {0} /\ d[c] # 1
        BY <3>3, <4>1
      <4> HIDE DEF u
      <4>6. Product(d, u) \in Nat \ {0}
        BY <2>4, <4>3, <4>4
      <4>7. d[c] * Product(d, u) > Product(d, u)
        BY <3>4, <4>5, <4>6
      <4>8. \A a, b, e \in Int : a > b /\ b > e => a > e
        OBVIOUS
      <4>9. Product(d, s) > Product(d, u) /\ Product(d, s) \in Int
        BY <3>3, <4>4, <4>7, ProductInt
      <4>10. Product(d, f) \in Int
        BY <2>4
      <4>11. Product(d, s) > Product(d, f)
        BY <4>3, <4>4, <4>8, <4>9, <4>10
      <4> QED BY <3>2, <4>11
    <3> QED BY <3>5, <3>6
  <2>6. Product(d, g) = Product(d, f)
    BY <1>4, <2>2
  <2> QED BY <2>4, <2>5, <2>6
<1> HIDE DEF axes
<1>5. \A i, j \in Int : i < j \/ j < i \/ i = j
  OBVIOUS
<1>6. \A i, j \in axes : t.stride[i] = t.stride[j] => i = j
  BY <1>2, <1>4, <1>5
<1> QED BY <1>6 DEF axes

Positive(d) == \A i \in DOMAIN d : d[i] \in Nat \ {0}

\* The axes that do not count are expanded or of size 1.
LEMMA OtherAxes ==
  ASSUME NEW t, Strided(t), Positive(t.dim)
  PROVE  \A i \in DOMAIN t.dim \ Reorderable(t) : i \in BroadcastAxes(t) \/ t.dim[i] = 1
<1> SUFFICES ASSUME NEW i \in DOMAIN t.dim, t.dim[i] = 1 \/ t.stride[i] = 0, t.dim[i] # 1
             PROVE  i \in BroadcastAxes(t)
  BY DEF Reorderable
<1>1. t.dim[i] \in Nat \ {0}
  BY DEF Positive
<1>2. \A n \in Nat \ {0} : n # 1 => n > 1
  OBVIOUS
<1> QED BY <1>1, <1>2 DEF BroadcastAxes

\* A valid layout is one of its own kind.
LEMMA ValidIsLaidOut ==
  ASSUME NEW t, Strided(t), ValidPhysical(t), Positive(t.dim)
  PROVE  LaidOutLike(t, t.dim, t.stride)
<1> DEFINE axes == Reorderable(t)
<1>1. \A i, j \in axes : t.stride[i] = t.stride[j] => i = j
  BY DistinctStrides DEF Positive
<1>2. \A i \in axes : i \in Int
  BY StridedAxes DEF Reorderable
<1>3. ASSUME NEW i \in axes
      PROVE  t.stride[i] = Product(t.dim, {l \in axes : t.stride[l] < t.stride[i]})
  <2>1. t.stride[i] = Product(t.dim, Faster(t, axes, i))
    BY DEF ValidPhysical
  <2>2. \A l \in axes : ~(t.stride[l] = t.stride[i] /\ l < i)
    BY <1>1, <1>2
  <2> HIDE DEF axes
  <2>3. Faster(t, axes, i) = {l \in axes : t.stride[l] < t.stride[i]}
    BY <2>2 DEF Faster
  <2> QED BY <2>1, <2>3
<1>4. \A i \in BroadcastAxes(t) : t.stride[i] = 0
  BY DEF BroadcastAxes
<1> QED BY <1>1, <1>3, <1>4, OtherAxes DEF LaidOutLike, Positive

LEMMA ValidIsFaithful ==
  ASSUME NEW t, Strided(t), ValidPhysical(t), Positive(t.dim)
  PROVE  Faithful(t)
<1> DEFINE D == DOMAIN t.dim
           perm == LogicalToPhysical(t)
           inverse == PhysicalToLogical(t)
<1>1. t.dim \in Seq(Int) /\ t.stride \in Seq(Int)
  BY DEF Strided
<1>2. DOMAIN t.stride = DOMAIN t.dim
  BY StridedAxes
<1>3. FaithfulFor(t, t.dim, t.stride)
  BY <1>1, <1>2, ValidIsLaidOut, LaidOutLikeIsFaithful
<1>4. DOMAIN perm = D /\ perm \in Bijection(D, D)
  <2>1. perm = SortedAxes(t, Reorderable(t))
    BY DEF LogicalToPhysical
  <2>2. Reorderable(t) \in SUBSET DOMAIN t.dim
    BY DEF Reorderable
  <2> HIDE DEF perm
  <2> QED BY <2>1, <2>2, SortedPermutes
<1>5. DOMAIN inverse = D /\ \A i \in D : inverse[i] \in D /\ perm[inverse[i]] = i
  <2>1. inverse = [i \in D |-> CHOOSE k \in D : i \in Range(perm) => perm[k] = i]
    BY DEF PhysicalToLogical, Inverse
  <2> HIDE DEF perm, inverse
  <2>2. \A i \in D : \E k \in D : perm[k] = i
    BY <1>4 DEF Bijection, Surjection
  <2>3. \A i \in D : i \in Range(perm)
    BY <1>4, <2>2 DEF Range
  <2> QED BY <2>1, <2>2, <2>3
<1> HIDE DEF perm, inverse
<1>6. Permuted(PhysicalDim(t), inverse) = UnexpandedDim(t)
  <2> DEFINE u == UnexpandedDim(t)
  <2>1. PhysicalDim(t) = [i \in D |-> u[perm[i]]]
    BY DEF PhysicalDim, perm
  <2>2. Permuted(PhysicalDim(t), inverse) = [i \in D |-> PhysicalDim(t)[inverse[i]]]
    BY <1>5 DEF Permuted
  <2>3. \A i \in D : PhysicalDim(t)[inverse[i]] = u[i]
    BY <1>5, <2>1
  <2>4. u = [i \in D |-> u[i]]
    BY DEF UnexpandedDim
  <2> HIDE DEF u
  <2>5. [i \in D |-> PhysicalDim(t)[inverse[i]]] = [i \in D |-> u[i]]
    BY <2>3
  <2> QED BY <2>2, <2>4, <2>5 DEF u
<1> QED BY <1>3, <1>6 DEF Faithful, inverse

\* In every size of its dynamic dims, a tensor is in the layout of the representative.
LEMMA DynamicIsFaithful ==
  ASSUME NEW t, Strided(t), ValidPhysical(t), Positive(t.dim), DynamicValid(t),
         NEW sizes \in SUBSET (Nat \ {0})
  PROVE  RuntimeFaithful(t, sizes)
<1> DEFINE D == DOMAIN t.dim
           axes == Reorderable(t)
<1> SUFFICES ASSUME t.dynamic # {}, NEW extent \in [t.dynamic -> sizes]
             PROVE  LET dim == [i \in D |-> IF i \in t.dynamic THEN extent[i] ELSE t.dim[i]]
                    IN  FaithfulFor(t, dim, StrideLikeOf(t, dim))
  BY DEF RuntimeFaithful
<1> DEFINE dim == [i \in D |-> IF i \in t.dynamic THEN extent[i] ELSE t.dim[i]]
           stride == StrideLikeOf(t, dim)
           before(i) == {j \in D : t.stride[j] < t.stride[i]}
<1>1. \A i \in t.dynamic : i \in axes
  BY DEF DynamicValid, Reorderable
<1>2. BroadcastAxes(t) = {}
  BY DEF DynamicValid
<1>3. \A i \in D : dim[i] \in Nat \ {0}
  BY DEF Positive
<1>4. DOMAIN dim = D
  OBVIOUS
<1>5. D = 1..Len(t.dim) /\ Len(t.dim) \in Nat /\ IsFiniteSet(D)
  BY StridedAxes
<1> HIDE DEF dim
<1>6. \A i \in D \ axes : dim[i] = 1
  BY <1>1, <1>2, OtherAxes DEF dim
<1>7. dim \in Seq(Int)
  <2>1. dim \in [1..Len(t.dim) -> Int]
    <3>1. dim = [i \in D |-> dim[i]]
      BY DEF dim
    <3>2. \A i \in D : dim[i] \in Int
      BY <1>3
    <3> QED BY <1>5, <3>1, <3>2
  <2> QED BY <1>5, <2>1
<1>8. \A i \in D : IsFiniteSet(before(i)) /\ \A j \in before(i) : dim[j] \in Int
  <2> TAKE i \in D
  <2>1. before(i) \in SUBSET D
    OBVIOUS
  <2> HIDE DEF before, D
  <2>2. \A j \in D : dim[j] \in Int
    BY <1>3
  <2> QED BY <1>5, <2>1, <2>2, FS_Subset
<1>9. DOMAIN stride = D /\ \A i \in D : stride[i] = Product(dim, before(i))
  BY <1>4 DEF StrideLikeOf
<1>10. stride \in Seq(Int)
  <2>1. \A i \in D : stride[i] \in Int
    <3> HIDE DEF before, stride, D
    <3> QED BY <1>8, <1>9, ProductInt
  <2>2. stride = [i \in D |-> stride[i]]
    BY <1>4 DEF StrideLikeOf
  <2> HIDE DEF stride
  <2>3. stride \in [1..Len(t.dim) -> Int]
    BY <1>5, <2>1, <2>2
  <2> QED BY <1>5, <2>3
<1>11. ASSUME NEW i \in axes
       PROVE  stride[i] = Product(dim, {l \in axes : t.stride[l] < t.stride[i]})
  <2> DEFINE u == {l \in axes : t.stride[l] < t.stride[i]}
  <2>1. i \in D /\ u \in SUBSET before(i) /\ \A j \in before(i) \ u : j \in D \ axes
    BY DEF Reorderable
  <2>2. \A j \in before(i) \ u : dim[j] = 1
    BY <1>6, <2>1
  <2>3. stride[i] = Product(dim, before(i))
    BY <1>9, <2>1
  <2>4. IsFiniteSet(before(i)) /\ \A j \in before(i) : dim[j] \in Int
    BY <1>8, <2>1
  <2> HIDE DEF u, before, stride
  <2>5. Product(dim, before(i)) = Product(dim, u)
    BY <2>1, <2>2, <2>4, ProductOfOnes
  <2> QED BY <2>3, <2>5 DEF u
<1>12. \A i, j \in axes : t.stride[i] = t.stride[j] => i = j
  BY DistinctStrides DEF Positive
<1> HIDE DEF stride
<1>13. LaidOutLike(t, dim, stride)
  BY <1>2, <1>3, <1>4, <1>6, <1>11, <1>12 DEF LaidOutLike
<1>14. FaithfulFor(t, dim, stride)
  <2>1. DOMAIN dim = DOMAIN t.dim /\ DOMAIN stride = DOMAIN dim
    BY <1>4, <1>9
  <2> QED BY <1>7, <1>10, <1>13, <2>1, LaidOutLikeIsFaithful
<1> QED BY <1>14 DEF dim, stride

-----------------------------------------------------------------------------
(* Filling                                                                 *)

\* A tensor with other dims and strides, or another type.
WithLayout(t, d, s) == [t EXCEPT !.dim = d, !.stride = s]

SameBut(u, t, attributes) ==
  \A a \in {"dim", "stride", "type", "virtual", "scalar", "dynamic"} \ attributes : u[a] = t[a]

LEMMA TensorExcept ==
  ASSUME NEW t \in Tensor, NEW d \in Seq(Int), NEW s \in Seq(Int)
  PROVE  /\ WithLayout(t, d, s) \in Tensor
         /\ WithLayout(t, d, s).dim = d /\ WithLayout(t, d, s).stride = s
         /\ SameBut(WithLayout(t, d, s), t, {"dim", "stride"})
BY DEF Tensor, WithLayout, SameBut

LEMMA TypedTensor ==
  ASSUME NEW t \in Tensor, NEW type \in DataTypes
  PROVE  /\ [t EXCEPT !.type = type] \in Tensor
         /\ [t EXCEPT !.type = type].type = type
         /\ SameBut([t EXCEPT !.type = type], t, {"type"})
BY DEF Tensor, SameBut

\* What inference leaves alone: dims and strides that are set, and what no node infers.
Grown(D, ts, us) ==
  /\ us \in [D -> Tensor]
  /\ \A i \in D :
       /\ ts[i].dim # <<>> => us[i].dim = ts[i].dim
       /\ ts[i].stride # <<>> => us[i].stride = ts[i].stride
       /\ \A a \in {"virtual", "scalar", "dynamic"} : us[i][a] = ts[i][a]

LEMMA GrownFurther ==
  ASSUME NEW D, NEW ts, NEW us, NEW vs, Grown(D, ts, us), Grown(D, us, vs)
  PROVE  Grown(D, ts, vs)
BY DEF Grown

LEMMA NotGrown ==
  ASSUME NEW D, NEW ts \in [D -> Tensor]
  PROVE  Grown(D, ts, ts)
BY DEF Grown

\* Inference changes no type.
Filled(D, ts, us) == Grown(D, ts, us) /\ \A i \in D : us[i].type = ts[i].type

LEMMA FilledFurther ==
  ASSUME NEW D, NEW ts, NEW us, NEW vs, Filled(D, ts, us), Filled(D, us, vs)
  PROVE  Filled(D, ts, vs)
BY GrownFurther DEF Filled

\* One tensor, when what is missing is dim and stride.
FilledTensor(t, dim, stride) ==
  [t EXCEPT !.dim = IF t.dim = <<>> THEN dim ELSE t.dim,
            !.stride = IF t.stride = <<>> THEN stride ELSE t.stride]

LEMMA FilledOne ==
  ASSUME NEW t \in Tensor, NEW dim \in Seq(Int), NEW stride \in Seq(Int)
  PROVE  LET u == FilledTensor(t, dim, stride)
         IN  /\ u \in Tensor
             /\ t.dim # <<>> => u.dim = t.dim
             /\ t.dim = <<>> => u.dim = dim
             /\ t.stride # <<>> => u.stride = t.stride
             /\ \A a \in {"type", "virtual", "scalar", "dynamic"} : u[a] = t[a]
<1> DEFINE d == IF t.dim = <<>> THEN dim ELSE t.dim
           r == IF t.stride = <<>> THEN stride ELSE t.stride
<1>1. d \in Seq(Int) /\ r \in Seq(Int)
  BY DEF Tensor
<1>2. FilledTensor(t, dim, stride) = WithLayout(t, d, r)
  BY DEF FilledTensor, WithLayout
<1>3. (t.dim # <<>> => d = t.dim) /\ (t.dim = <<>> => d = dim) /\ (t.stride # <<>> => r = t.stride)
  OBVIOUS
<1> HIDE DEF d, r
<1>4. /\ WithLayout(t, d, r) \in Tensor
      /\ WithLayout(t, d, r).dim = d /\ WithLayout(t, d, r).stride = r
      /\ SameBut(WithLayout(t, d, r), t, {"dim", "stride"})
  BY <1>1, TensorExcept
<1>5. \A a \in {"type", "virtual", "scalar", "dynamic"} : WithLayout(t, d, r)[a] = t[a]
  BY <1>4 DEF SameBut
<1> QED BY <1>2, <1>3, <1>4, <1>5

\* Filling the tensors ids, each with a stride.
FilledAt(D, ts, ids, dim, stride) ==
  [i \in D |-> IF i \in ids THEN FilledTensor(ts[i], dim, stride[i]) ELSE ts[i]]

\* The dims that a tensor has after it was filled.
DimOr(t, dim) == IF t.dim = <<>> THEN dim ELSE t.dim

LEMMA FilledGrows ==
  ASSUME NEW D, NEW ts \in [D -> Tensor], NEW ids, NEW dim \in Seq(Int),
         NEW stride, \A i \in ids \cap D : stride[i] \in Seq(Int),
         NEW us, us = FilledAt(D, ts, ids, dim, stride)
  PROVE  /\ Filled(D, ts, us)
         /\ \A i \in D : ts[i].dim = <<>> => us[i].dim = <<>> \/ us[i].dim = dim
<1>1. ASSUME NEW i \in D
      PROVE  /\ us[i] \in Tensor
             /\ ts[i].dim # <<>> => us[i].dim = ts[i].dim
             /\ ts[i].dim = <<>> => us[i].dim = <<>> \/ us[i].dim = dim
             /\ ts[i].stride # <<>> => us[i].stride = ts[i].stride
             /\ \A a \in {"type", "virtual", "scalar", "dynamic"} : us[i][a] = ts[i][a]
  <2>1. us[i] = IF i \in ids THEN FilledTensor(ts[i], dim, stride[i]) ELSE ts[i]
    BY DEF FilledAt
  <2>2. CASE i \in ids
    BY <2>1, <2>2, FilledOne
  <2>3. CASE i \notin ids
    BY <2>1, <2>3
  <2> QED BY <2>2, <2>3
<1>2. us = [i \in D |-> us[i]]
  BY DEF FilledAt
<1>3. us \in [D -> Tensor]
  BY <1>1, <1>2
<1> QED BY <1>1, <1>3 DEF Filled, Grown

\* What a case says of a node, over its tensors D.
NodeOf(D, node) ==
  /\ NeededPorts(node.kind) \subseteq DOMAIN node.port
  /\ \A p \in DOMAIN node.port : node.port[p] \in D
  /\ node.kind \in {"fprop", "wgrad", "dgrad"} =>
       /\ node.padding \in Seq(Nat) /\ node.dilation \in Seq(Nat)
       /\ node.step \in Seq(Nat \ {0})

LEMMA PortIs ==
  ASSUME NEW D, NEW ts \in [D -> Tensor], NEW node, NodeOf(D, node)
  PROVE  \A p \in DOMAIN node.port :
           Port(node, ts, p) \in Tensor /\ Port(node, ts, p).dim \in Seq(Int)
             /\ Port(node, ts, p).stride \in Seq(Int)
<1> SUFFICES ASSUME NEW p \in DOMAIN node.port
             PROVE  Port(node, ts, p) \in Tensor /\ Port(node, ts, p).dim \in Seq(Int)
                      /\ Port(node, ts, p).stride \in Seq(Int)
  OBVIOUS
<1>1. Port(node, ts, p) \in Tensor
  BY DEF NodeOf, Port
<1> HIDE DEF Port
<1> QED BY <1>1 DEF Tensor

LEMMA StrideLikeType ==
  ASSUME NEW t, NEW d \in Seq(Int)
  PROVE  StrideLike(t, d) \in Seq(Int) /\ ContiguousStride(d) \in Seq(Int)
BY StrideType DEF StrideLike, ContiguousStride, ChannelsLastStride

LEMMA SeqParts ==
  ASSUME NEW S, NEW s \in Seq(S)
  PROVE  DOMAIN s = 1..Len(s) /\ Len(s) \in Nat /\ \A i \in 1..Len(s) : s[i] \in S
OBVIOUS

LEMMA NatIsInt == \A n \in Nat : n \in Int
OBVIOUS

LEMMA TruncDivInt ==
  ASSUME NEW a \in Int, NEW b \in Nat \ {0}
  PROVE  TruncDiv(a, b) \in Int
BY DEF TruncDiv

LEMMA ConvShapeType ==
  ASSUME NEW x \in Seq(Int), NEW w \in Seq(Int), Len(x) >= 3, Len(w) >= Len(x), NEW node,
         NEW padding \in Seq(Nat), NEW dilation \in Seq(Nat), NEW step \in Seq(Nat \ {0}),
         node.padding = padding, node.dilation = dilation, node.step = step,
         Len(padding) = Len(x) - 2, Len(dilation) = Len(x) - 2, Len(step) = Len(x) - 2
  PROVE  ConvShape(node, x, w) \in Seq(Int) /\ Len(ConvShape(node, x, w)) = Len(x)
<1> DEFINE n == Len(x)
           v(i) == 1 + TruncDiv(x[i] - (w[i] - 1) * dilation[i - 2] + 2 * padding[i - 2] - 1,
                                step[i - 2])
<1>1. DOMAIN x = 1..n /\ n \in Nat /\ n >= 3
  BY SeqParts
<1>2. \A i \in 1..n : x[i] \in Int /\ w[i] \in Int
  <2>1. \A i \in 1..n : i \in 1..Len(w)
    <3>1. Len(w) \in Nat /\ Len(x) \in Nat
      BY SeqParts
    <3> QED BY <3>1
  <2> QED BY <2>1, SeqParts
<1>3. \A i \in 1..n - 2 : padding[i] \in Nat /\ dilation[i] \in Nat /\ step[i] \in Nat \ {0}
  BY SeqParts
<1>4. ConvShape(node, x, w) = [i \in 1..n |-> CASE i = 1 -> x[1] [] i = 2 -> w[1] [] OTHER -> v(i)]
  BY <1>1 DEF ConvShape
<1> HIDE DEF n
<1>5. \A i \in 1..n : i # 1 /\ i # 2 => v(i) \in Int
  <2> SUFFICES ASSUME NEW i \in 1..n, i # 1, i # 2 PROVE v(i) \in Int
    OBVIOUS
  <2>1. i - 2 \in 1..n - 2
    BY <1>1
  <2>2. padding[i - 2] \in Nat /\ dilation[i - 2] \in Nat /\ step[i - 2] \in Nat \ {0}
    BY <1>3, <2>1
  <2>3. x[i] \in Int /\ w[i] \in Int
    BY <1>2
  <2>4. \A k, l, m, q \in Int : k - (l - 1) * m + 2 * q - 1 \in Int
    OBVIOUS
  <2>5. padding[i - 2] \in Int /\ dilation[i - 2] \in Int
    BY <2>2, NatIsInt, Zenon
  <2> DEFINE a == x[i] - (w[i] - 1) * dilation[i - 2] + 2 * padding[i - 2] - 1
  <2>6. a \in Int
    BY <2>3, <2>4, <2>5
  <2> HIDE DEF a
  <2>7. TruncDiv(a, step[i - 2]) \in Int
    BY <2>2, <2>6, TruncDivInt
  <2> QED BY <2>7 DEF a
<1> HIDE DEF v
<1>6. \A i \in 1..n : (CASE i = 1 -> x[1] [] i = 2 -> w[1] [] OTHER -> v(i)) \in Int
  <2>1. x[1] \in Int /\ w[1] \in Int
    BY <1>1, <1>2
  <2> QED BY <1>5, <2>1
<1> DEFINE shape == [i \in 1..n |-> CASE i = 1 -> x[1] [] i = 2 -> w[1] [] OTHER -> v(i)]
<1>7. shape \in [1..n -> Int]
  BY <1>6
<1> HIDE DEF shape
<1>8. shape \in Seq(Int) /\ Len(shape) = n
  BY <1>1, <1>7
<1> QED BY <1>4, <1>8 DEF shape, n

\* What inference needs of the ranks, which the first checks of a node give it.
RanksFit(node, ts) ==
  LET rank(p) == Len(Port(node, ts, p).dim)
  IN  /\ node.kind = "fprop" =>
           /\ rank("X") >= 3 /\ rank("X") = rank("W")
           /\ Len(node.padding) = rank("X") - 2
           /\ Len(node.dilation) = rank("X") - 2
           /\ Len(node.step) = rank("X") - 2
      /\ node.kind = "matmul" => rank("B") = rank("A")
      /\ node.kind = "sdpa" => rank("Q") = 4 /\ rank("V") = 4
      /\ node.kind \in {"layernorm", "rmsnorm", "batchnorm"} => rank("X") >= 2
      /\ node.kind = "pointwise" => PointwisePre(node, ts)

\* Convolutions.
LEMMA ConvGrows ==
  ASSUME NEW D, NEW ts \in [D -> Tensor], NEW node, NodeOf(D, node)
  PROVE  /\ node.kind = "fprop" /\ RanksFit(node, ts) => Filled(D, ts, ConvFPropInfer(node, ts))
         /\ node.kind = "wgrad" => Filled(D, ts, ConvWGradInfer(node, ts))
         /\ node.kind = "dgrad" => Filled(D, ts, ConvDGradInfer(node, ts))
<1> DEFINE stride(dim, x) == [i \in D |-> StrideLike(x, DimOr(ts[i], dim))]
           ids(ports) == {node.port[p] : p \in ports \cap DOMAIN node.port}
<1>1. ASSUME NEW dim \in Seq(Int), NEW x, NEW ports
      PROVE  Filled(D, ts, FilledAt(D, ts, ids(ports), dim, stride(dim, x)))
  <2>1. \A i \in D : stride(dim, x)[i] \in Seq(Int)
    <3> TAKE i \in D
    <3>1. DimOr(ts[i], dim) \in Seq(Int)
      BY DEF Tensor, DimOr
    <3> QED BY <3>1, StrideLikeType
  <2> HIDE DEF ids, stride
  <2> QED BY <2>1, FilledGrows
<1>2. CASE node.kind = "fprop" /\ RanksFit(node, ts)
  <2>1. {"X", "W", "Y"} \subseteq DOMAIN node.port
    BY <1>2 DEF NodeOf, NeededPorts
  <2> DEFINE x == Port(node, ts, "X")
             w == Port(node, ts, "W")
  <2>2. x.dim \in Seq(Int) /\ w.dim \in Seq(Int)
    BY <2>1, PortIs
  <2>3. /\ Len(x.dim) >= 3 /\ Len(x.dim) = Len(w.dim)
        /\ Len(node.padding) = Len(x.dim) - 2 /\ Len(node.dilation) = Len(x.dim) - 2
        /\ Len(node.step) = Len(x.dim) - 2
    BY <1>2 DEF RanksFit
  <2> DEFINE shape == ConvShape(node, x.dim, w.dim)
  <2>4. shape \in Seq(Int)
    <3> HIDE DEF x, w
    <3>1. Len(w.dim) >= Len(x.dim)
      BY <2>2, <2>3
    <3> QED BY <1>2, <2>2, <2>3, <3>1, ConvShapeType DEF NodeOf
  <2>5. ConvFPropInfer(node, ts) = FilledAt(D, ts, ids({"Y"}), shape, stride(shape, x))
    BY DEF ConvFPropInfer, Fill, FilledAt, FilledTensor, DimOr
  <2> HIDE DEF shape, stride, ids, x
  <2> QED BY <1>1, <1>2, <2>4, <2>5
<1>3. <<>> \in Seq(Int)
  OBVIOUS
<1>4. ConvWGradInfer(node, ts) = FilledAt(D, ts, ids({"DW"}), <<>>, stride(<<>>, Port(node, ts, "DY")))
  BY DEF ConvWGradInfer, Fill, FilledAt, FilledTensor, DimOr
<1>5. ConvDGradInfer(node, ts) = FilledAt(D, ts, ids({"DX"}), <<>>, stride(<<>>, Port(node, ts, "DY")))
  BY DEF ConvDGradInfer, Fill, FilledAt, FilledTensor, DimOr
<1> HIDE DEF stride, ids
<1>6. Filled(D, ts, ConvWGradInfer(node, ts)) /\ Filled(D, ts, ConvDGradInfer(node, ts))
  BY <1>1, <1>3, <1>4, <1>5
<1> QED BY <1>2, <1>6

HasLargest(S) == \E n \in S : \A m \in S : m <= n

LEMMA LargestOf ==
  ASSUME NEW S, IsFiniteSet(S), \A n \in S : n \in Int, S # {}
  PROVE  HasLargest(S)
<1> DEFINE T == {s \in SUBSET S : s # {} /\ ~HasLargest(s)}
<1> SUFFICES ASSUME T # {} PROVE FALSE
  OBVIOUS
<1>1. PICK s \in T : \A y \in T : y \subseteq s => y = s
  <2>1. T \subseteq SUBSET S
    OBVIOUS
  <2> HIDE DEF T
  <2> QED BY <2>1, SmallestSet
<1>2. PICK c \in s : TRUE
  <2>1. s # {}
    BY <1>1
  <2> QED BY <2>1
<1> DEFINE u == s \ {c}
<1>3. u # {}
  <2>1. u = {} => \A m \in s : m = c
    OBVIOUS
  <2>2. c \in Int /\ c <= c
    BY <1>1, <1>2
  <2> QED BY <1>1, <1>2, <2>1, <2>2 DEF HasLargest
<1>4. PICK n \in u : \A m \in u : m <= n
  <2>1. u \notin T /\ u \in SUBSET S
    BY <1>1, <1>2
  <2> QED BY <1>3, <2>1 DEF HasLargest
<1>5. n \in Int /\ c \in Int /\ n \in s /\ \A m \in s : m \in Int
  BY <1>1, <1>2, <1>4 DEF HasLargest
<1>6. CASE n <= c
  <2>1. \A a, b, e \in Int : a <= b /\ b <= e => a <= e
    OBVIOUS
  <2>2. ASSUME NEW m \in s PROVE m <= c
    <3>1. CASE m = c
      BY <1>5, <3>1
    <3>2. CASE m # c
      <4>1. m <= n
        BY <1>4, <3>2
      <4> QED BY <1>5, <1>6, <2>1, <4>1
    <3> QED BY <3>1, <3>2
  <2> QED BY <1>1, <1>2, <2>2 DEF HasLargest
<1>7. CASE ~(n <= c)
  <2>1. c <= n
    BY <1>5, <1>7
  <2>2. \A m \in s : m <= n
    BY <1>4, <2>1
  <2> QED BY <1>1, <1>5, <2>2 DEF HasLargest
<1> QED BY <1>6, <1>7

\* The rank of a broadcast shape is that of the longest one.
RankOf(filtered) == CHOOSE n \in {Len(s) : s \in filtered} : \A s \in filtered : Len(s) <= n

SizesAt(filtered, rank, i) ==
  {s[i - rank + Len(s)] : s \in {s \in filtered : i > rank - Len(s)}} \ {1}

LEMMA BroadcastRank ==
  ASSUME NEW filtered \in SUBSET Seq(Int), IsFiniteSet(filtered), filtered # {}
  PROVE  /\ RankOf(filtered) \in {Len(s) : s \in filtered}
         /\ \A s \in filtered : Len(s) <= RankOf(filtered)
         /\ RankOf(filtered) \in Nat
<1> DEFINE lens == {Len(s) : s \in filtered}
           f == [s \in filtered |-> Len(s)]
<1>1. lens \in SUBSET Int /\ lens \in SUBSET Nat /\ lens # {}
  <2>1. \A s \in filtered : Len(s) \in Nat /\ Len(s) \in Int
    <3> TAKE s \in filtered
    <3>1. Len(s) \in Nat
      BY SeqParts
    <3> QED BY <3>1
  <2> QED BY <2>1
<1>2. IsFiniteSet(lens)
  <2>1. f \in Surjection(filtered, lens)
    BY DEF Surjection
  <2> HIDE DEF f, lens
  <2> QED BY <2>1, FS_Surjection
<1>3. PICK n \in lens : \A m \in lens : m <= n
  <2> HIDE DEF lens
  <2>1. HasLargest(lens)
    BY <1>1, <1>2, LargestOf
  <2> QED BY <2>1 DEF HasLargest
<1>4. \A s \in filtered : Len(s) <= n
  BY <1>3
<1>5. RankOf(filtered) \in lens /\ \A s \in filtered : Len(s) <= RankOf(filtered)
  BY <1>3, <1>4 DEF RankOf
<1> QED BY <1>1, <1>5

LEMMA SizesAreInts ==
  ASSUME NEW filtered \in SUBSET Seq(Int), IsFiniteSet(filtered), filtered # {},
         NEW i \in 1..RankOf(filtered)
  PROVE  SizesAt(filtered, RankOf(filtered), i) \in SUBSET Int
<1> DEFINE rank == RankOf(filtered)
<1>1. rank \in Nat
  BY BroadcastRank
<1> HIDE DEF rank
<1>2. ASSUME NEW s \in filtered, i > rank - Len(s)
      PROVE  s[i - rank + Len(s)] \in Int
  <2> DEFINE n == Len(s)
  <2>1. n \in Nat /\ \A k \in 1..n : s[k] \in Int
    BY SeqParts
  <2> HIDE DEF n
  <2>2. i - rank + n \in 1..n
    BY <1>1, <1>2, <2>1 DEF rank, n
  <2> QED BY <2>1, <2>2 DEF n
<1> QED BY <1>2 DEF SizesAt, rank

LEMMA BroadcastUnfolds ==
  ASSUME NEW shapes
  PROVE  LET filtered == {s \in shapes : s # <<>>}
             rank == RankOf(filtered)
         IN  BroadcastShape(shapes) =
               IF filtered = {} \/ \E i \in 1..rank : Cardinality(SizesAt(filtered, rank, i)) > 1
                 THEN <<>>
               ELSE [i \in 1..rank |->
                       IF SizesAt(filtered, rank, i) = {} THEN 1
                       ELSE CHOOSE d \in SizesAt(filtered, rank, i) : TRUE]
BY DEF BroadcastShape, RankOf, SizesAt

LEMMA BroadcastType ==
  ASSUME NEW shapes \in SUBSET Seq(Int), IsFiniteSet(shapes)
  PROVE  BroadcastShape(shapes) \in Seq(Int)
<1> DEFINE filtered == {s \in shapes : s # <<>>}
           rank == RankOf(filtered)
           size(i) == IF SizesAt(filtered, rank, i) = {} THEN 1
                      ELSE CHOOSE d \in SizesAt(filtered, rank, i) : TRUE
           result == [i \in 1..rank |-> size(i)]
<1>1. BroadcastShape(shapes) = <<>> \/ (filtered # {} /\ BroadcastShape(shapes) = result)
  BY BroadcastUnfolds
<1>2. filtered \in SUBSET Seq(Int) /\ IsFiniteSet(filtered)
  BY FS_Subset
<1> HIDE DEF filtered
<1>3. CASE filtered # {} /\ BroadcastShape(shapes) = result
  <2>1. rank \in Nat
    BY <1>2, <1>3, BroadcastRank
  <2>2. \A i \in 1..rank : size(i) \in Int
    <3> TAKE i \in 1..rank
    <3>1. SizesAt(filtered, rank, i) \in SUBSET Int
      BY <1>2, <1>3, SizesAreInts
    <3> HIDE DEF rank
    <3> QED BY <3>1
  <2> HIDE DEF rank, size
  <2>3. result \in [1..rank -> Int]
    BY <2>2
  <2> HIDE DEF result
  <2>4. result \in Seq(Int)
    BY <2>1, <2>3
  <2> QED BY <1>3, <2>4
<1>4. <<>> \in Seq(Int)
  OBVIOUS
<1> QED BY <1>1, <1>3, <1>4

\* A type that is filled in, or forced.
Retyped(D, ts, us) ==
  /\ us \in [D -> Tensor]
  /\ \A i \in D : \A a \in {"dim", "stride", "virtual", "scalar", "dynamic"} : us[i][a] = ts[i][a]

LEMMA RetypedGrows ==
  ASSUME NEW D, NEW ts, NEW us, Retyped(D, ts, us)
  PROVE  Grown(D, ts, us)
<1>1. \A i \in D : us[i].dim = ts[i].dim /\ us[i].stride = ts[i].stride
  BY DEF Retyped
<1>2. \A i \in D : \A a \in {"virtual", "scalar", "dynamic"} : us[i][a] = ts[i][a]
  BY DEF Retyped
<1>3. us \in [D -> Tensor]
  BY DEF Retyped
<1> QED BY <1>1, <1>2, <1>3 DEF Grown

LEMMA ContextFills ==
  ASSUME NEW D, NEW ts \in [D -> Tensor], NEW node, {graph.io, graph.intermediate} \subseteq DataTypes
  PROVE  Retyped(D, ts, FilledFromContext(node, ts))
<1> DEFINE us == FilledFromContext(node, ts)
           ids == {node.port[p] : p \in FilledPorts(node)}
<1>1. us = [i \in D |-> IF ts[i].type = NotSet /\ i \in ids
                          THEN [ts[i] EXCEPT !.type = ContextType(ts[i])] ELSE ts[i]]
  BY DEF FilledFromContext
<1> HIDE DEF us, ids
<1>2. ASSUME NEW i \in D
      PROVE  us[i] \in Tensor /\ \A a \in {"dim", "stride", "virtual", "scalar", "dynamic"} : us[i][a] = ts[i][a]
  <2>1. CASE ts[i].type = NotSet /\ i \in ids
    <3> DEFINE type == ContextType(ts[i])
    <3>1. type \in DataTypes /\ us[i] = [ts[i] EXCEPT !.type = type]
      BY <1>1, <2>1 DEF ContextType
    <3> HIDE DEF type
    <3>2. us[i] \in Tensor /\ SameBut(us[i], ts[i], {"type"})
      BY <3>1, TypedTensor
    <3> QED BY <3>2 DEF SameBut
  <2>2. CASE ~(ts[i].type = NotSet /\ i \in ids)
    <3>1. us[i] = ts[i]
      BY <1>1, <2>2
    <3> QED BY <3>1
  <2> QED BY <2>1, <2>2
<1>3. us = [i \in D |-> us[i]]
  BY <1>1
<1>4. us \in [D -> Tensor]
  BY <1>2, <1>3
<1> QED BY <1>2, <1>4 DEF Retyped, us

LEMMA ForcedRetypes ==
  ASSUME NEW D, NEW ts \in [D -> Tensor], NEW node, NodeOf(D, node)
  PROVE  Retyped(D, ts, Forced(node, ts))
<1> DEFINE us == Forced(node, ts)
           o == node.port["OUT_0"]
<1>1. ts = [i \in D |-> ts[i]]
  OBVIOUS
<1>2. CASE us = ts
  BY <1>2 DEF Retyped
<1>3. CASE us # ts
  <2>1. node.kind = "pointwise" /\ us = [ts EXCEPT ![o].type = "Boolean"]
    BY <1>3 DEF Forced
  <2>2. o \in D
    BY <2>1 DEF NodeOf, NeededPorts
  <2>3. us = [i \in D |-> IF i = o THEN [ts[i] EXCEPT !.type = "Boolean"] ELSE ts[i]]
    <3> HIDE DEF us, o
    <3>1. us = [ts EXCEPT ![o] = [ts[o] EXCEPT !.type = "Boolean"]]
      BY <2>1
    <3>2. \A v : [ts EXCEPT ![o] = v] = [i \in D |-> IF i = o THEN v ELSE ts[i]]
      OBVIOUS
    <3>3. us = [i \in D |-> IF i = o THEN [ts[o] EXCEPT !.type = "Boolean"] ELSE ts[i]]
      BY <3>1, <3>2
    <3> QED BY <3>3
  <2> HIDE DEF us, o
  <2>4. ASSUME NEW i \in D
        PROVE  us[i] \in Tensor
                 /\ \A a \in {"dim", "stride", "virtual", "scalar", "dynamic"} : us[i][a] = ts[i][a]
    <3>1. CASE i = o
      <4> DEFINE type == "Boolean"
      <4>1. us[i] = [ts[i] EXCEPT !.type = type]
        BY <2>3, <3>1
      <4>3. type \in DataTypes
        BY DEF DataTypes
      <4> HIDE DEF type
      <4>4. ts[i] \in Tensor
        OBVIOUS
      <4>5. [ts[i] EXCEPT !.type = type] \in Tensor /\ SameBut([ts[i] EXCEPT !.type = type], ts[i], {"type"})
        BY <4>3, <4>4, TypedTensor
      <4>2. us[i] \in Tensor /\ SameBut(us[i], ts[i], {"type"})
        BY <4>1, <4>5
      <4> QED BY <4>2 DEF SameBut
    <3>2. CASE i # o
      BY <2>3, <3>2
    <3> QED BY <3>1, <3>2
  <2>5. us = [i \in D |-> us[i]]
    BY <2>3
  <2>6. us \in [D -> Tensor]
    BY <2>4, <2>5
  <2> QED BY <2>4, <2>6 DEF Retyped, us
<1> QED BY <1>2, <1>3

\* The ports of a node that its kind needs.
LEMMA KindPorts ==
  ASSUME NEW D, NEW node, NodeOf(D, node)
  PROVE  /\ node.kind = "fprop" => {"X", "W", "Y"} \subseteq DOMAIN node.port
         /\ node.kind = "wgrad" => {"DY", "X", "DW"} \subseteq DOMAIN node.port
         /\ node.kind = "dgrad" => {"DY", "W", "DX"} \subseteq DOMAIN node.port
         /\ node.kind = "matmul" => {"A", "B", "C"} \subseteq DOMAIN node.port
         /\ node.kind = "pointwise" => {"IN_0", "OUT_0"} \subseteq DOMAIN node.port
         /\ node.kind = "sdpa" => {"Q", "K", "V", "O"} \subseteq DOMAIN node.port
         /\ node.kind \in {"reduction", "layernorm", "rmsnorm", "batchnorm"} =>
              {"X", "Y"} \subseteq DOMAIN node.port
BY DEF NodeOf, NeededPorts

\* The result of a fill of the tensors at ports.
FilledPortsOf(node, ports) == {node.port[p] : p \in ports \cap DOMAIN node.port}

\* Dense strides for what is missing.
LEMMA DenseGrows ==
  ASSUME NEW D, NEW ts \in [D -> Tensor], NEW ids, NEW dim \in Seq(Int)
  PROVE  Filled(D, ts, FilledAt(D, ts, ids, dim, [i \in D |-> ContiguousStride(DimOr(ts[i], dim))]))
<1> DEFINE stride == [i \in D |-> ContiguousStride(DimOr(ts[i], dim))]
<1>1. \A i \in D : stride[i] \in Seq(Int)
  <2> TAKE i \in D
  <2>1. DimOr(ts[i], dim) \in Seq(Int)
    BY DEF Tensor, DimOr
  <2> QED BY <2>1, StrideLikeType
<1> HIDE DEF stride
<1>2. Filled(D, ts, FilledAt(D, ts, ids, dim, stride))
  BY <1>1, FilledGrows
<1> QED BY <1>2 DEF stride

\* One stride for all that is missing.
Everywhere(D, s) == [i \in D |-> s]

LEMMA FixedGrows ==
  ASSUME NEW D, NEW ts \in [D -> Tensor], NEW ids, NEW dim \in Seq(Int), NEW s \in Seq(Int)
  PROVE  Filled(D, ts, FilledAt(D, ts, ids, dim, Everywhere(D, s)))
<1> DEFINE stride == [i \in D |-> s]
<1>1. \A i \in D : stride[i] \in Seq(Int)
  OBVIOUS
<1> HIDE DEF stride
<1>2. Filled(D, ts, FilledAt(D, ts, ids, dim, stride))
  BY <1>1, FilledGrows
<1> QED BY <1>2 DEF stride, Everywhere

LEMMA SeqExcept ==
  ASSUME NEW S, NEW s \in Seq(S), NEW v \in S, NEW i
  PROVE  [s EXCEPT ![i] = v] \in Seq(S) /\ Len([s EXCEPT ![i] = v]) = Len(s)
<1> DEFINE n == Len(s)
           f == [k \in 1..n |-> IF k = i THEN v ELSE s[k]]
<1>1. DOMAIN s = 1..n /\ n \in Nat /\ \A k \in 1..n : s[k] \in S
  BY SeqParts
<1>2. [s EXCEPT ![i] = v] = f
  BY <1>1
<1> HIDE DEF n
<1>3. f \in [1..n -> S]
  BY <1>1
<1> HIDE DEF f
<1>4. f \in Seq(S) /\ Len(f) = n
  BY <1>1, <1>3
<1> QED BY <1>2, <1>4 DEF n

LEMMA ShapeTypes ==
  ASSUME NEW d \in Seq(Int)
  PROVE  /\ ScaleDim(d) \in Seq(Int)
         /\ Len(d) >= 1 => StatisticsDim(d) \in Seq(Int)
<1>1. ScaleDim(d) \in Seq(Int)
  <2>1. 1 \in Int
    OBVIOUS
  <2> QED BY <2>1, SeqExcept DEF ScaleDim
<1>2. ASSUME Len(d) >= 1 PROVE StatisticsDim(d) \in Seq(Int)
  <2> DEFINE n == Len(d)
             ones == Ones(n)
  <2>1. n \in Nat /\ \A i \in 1..n : d[i] \in Int
    BY SeqParts
  <2>2. 1 \in 1..n
    BY <1>2, <2>1
  <2>3. d[1] \in Int
    BY <2>1, <2>2
  <2> HIDE DEF n
  <2>4. ones \in Seq(Int)
    BY <2>1 DEF Ones
  <2> HIDE DEF ones
  <2>5. [ones EXCEPT ![1] = d[1]] \in Seq(Int)
    BY <2>3, <2>4, SeqExcept
  <2> QED BY <2>5 DEF StatisticsDim, ones, n
<1> QED BY <1>1, <1>2

LEMMA MatmulShapeType ==
  ASSUME NEW a \in Seq(Int), NEW b \in Seq(Int), Len(b) = Len(a)
  PROVE  MatmulShape(a, b) \in Seq(Int) /\ Len(MatmulShape(a, b)) = Len(a)
<1> DEFINE n == Len(a)
           shape == MatmulShape(a, b)
<1>1. DOMAIN a = 1..n /\ n \in Nat /\ \A i \in 1..n : a[i] \in Int /\ b[i] \in Int
  BY SeqParts
<1>2. shape = [i \in 1..n |-> shape[i]] /\ \A i \in 1..n : shape[i] \in {a[i], b[i]}
  BY <1>1 DEF MatmulShape
<1> HIDE DEF n, shape
<1>3. shape \in [1..n -> Int]
  BY <1>1, <1>2
<1>4. shape \in Seq(Int) /\ Len(shape) = n
  BY <1>1, <1>3
<1> QED BY <1>4 DEF n, shape

LEMMA MatmulGrows ==
  ASSUME NEW D, NEW ts \in [D -> Tensor], NEW node, NodeOf(D, node),
         node.kind = "matmul", RanksFit(node, ts)
  PROVE  Filled(D, ts, MatmulInfer(node, ts))
<1> DEFINE a == Port(node, ts, "A").dim
           b == Port(node, ts, "B").dim
           shape == MatmulShape(a, b)
           ids == FilledPortsOf(node, {"C"})
<1>1. a \in Seq(Int) /\ b \in Seq(Int)
  BY KindPorts, PortIs
<1>2. Len(b) = Len(a)
  BY DEF RanksFit
<1>3. MatmulInfer(node, ts) = FilledAt(D, ts, ids, shape, [i \in D |-> ContiguousStride(DimOr(ts[i], shape))])
  BY DEF MatmulInfer, Fill, FilledAt, FilledTensor, DimOr, FilledPortsOf, Everywhere
<1> HIDE DEF a, b
<1>4. shape \in Seq(Int)
  BY <1>1, <1>2, MatmulShapeType
<1> HIDE DEF shape, ids
<1> QED BY <1>3, <1>4, DenseGrows

LEMMA ReductionGrows ==
  ASSUME NEW D, NEW ts \in [D -> Tensor], NEW node, NodeOf(D, node), node.kind = "reduction"
  PROVE  Filled(D, ts, ReductionInfer(node, ts))
<1> DEFINE dim == Port(node, ts, "X").dim
           ids == FilledPortsOf(node, {"Y"})
<1>1. dim \in Seq(Int)
  BY KindPorts, PortIs
<1>2. ReductionInfer(node, ts) = FilledAt(D, ts, ids, dim, [i \in D |-> ContiguousStride(DimOr(ts[i], dim))])
  BY DEF ReductionInfer, Fill, FilledAt, FilledTensor, DimOr, FilledPortsOf, Everywhere
<1> HIDE DEF dim, ids
<1> QED BY <1>1, <1>2, DenseGrows

LEMMA SdpaGrows ==
  ASSUME NEW D, NEW ts \in [D -> Tensor], NEW node, NodeOf(D, node),
         node.kind = "sdpa", RanksFit(node, ts)
  PROVE  Filled(D, ts, SdpaInfer(node, ts))
<1> DEFINE q == Port(node, ts, "Q").dim
           v == Port(node, ts, "V").dim
           shape == SdpaShape(node, ts)
           stride == ContiguousStride(shape)
           ids == FilledPortsOf(node, {"O"})
<1>1. q \in Seq(Int) /\ v \in Seq(Int)
  BY KindPorts, PortIs
<1>2. Len(q) = 4 /\ Len(v) = 4
  BY DEF RanksFit
<1>3. shape = <<q[1], q[2], q[3], v[4]>>
  BY DEF SdpaShape
<1>4. SdpaInfer(node, ts) = FilledAt(D, ts, ids, shape, Everywhere(D, stride))
  BY DEF SdpaInfer, Fill, FilledAt, FilledTensor, DimOr, FilledPortsOf, Everywhere
<1> HIDE DEF q, v, ids, shape
<1>5. shape \in Seq(Int)
  <2>1. q[1] \in Int /\ q[2] \in Int /\ q[3] \in Int /\ v[4] \in Int
    <3>1. \A i \in 1..4 : q[i] \in Int /\ v[i] \in Int
      BY <1>1, <1>2, SeqParts
    <3> QED BY <3>1
  <2> QED BY <1>3, <2>1
<1>6. stride \in Seq(Int)
  BY <1>5, StrideLikeType
<1> HIDE DEF stride
<1> QED BY <1>4, <1>5, <1>6, FixedGrows

\* Norms.
LEMMA ScalesGrow ==
  ASSUME NEW D, NEW ts \in [D -> Tensor], NEW node, Port(node, ts, "X").dim \in Seq(Int),
         NEW scales, NEW order
  PROVE  Filled(D, ts, FillScales(node, ts, scales, order))
<1> DEFINE dim == ScaleDim(Port(node, ts, "X").dim)
           ids == FilledPortsOf(node, scales)
           stride == [i \in D |-> StrideFromDim(DimOr(ts[i], dim), order)]
<1>1. dim \in Seq(Int)
  BY ShapeTypes
<1>2. FillScales(node, ts, scales, order) = FilledAt(D, ts, ids, dim, stride)
  BY DEF FillScales, Fill, FilledAt, FilledTensor, DimOr, FilledPortsOf, Everywhere
<1> HIDE DEF dim, ids
<1>3. \A i \in D : stride[i] \in Seq(Int)
  <2> TAKE i \in D
  <2>1. DimOr(ts[i], dim) \in Seq(Int)
    BY <1>1 DEF Tensor, DimOr
  <2> QED BY <2>1, StrideType
<1> HIDE DEF stride
<1>4. Filled(D, ts, FilledAt(D, ts, ids, dim, stride))
  BY <1>1, <1>3, FilledGrows
<1> QED BY <1>2, <1>4

LEMMA LikeXGrows ==
  ASSUME NEW D, NEW ts \in [D -> Tensor], NEW node, Port(node, ts, "X").dim \in Seq(Int),
         Port(node, ts, "X").stride \in Seq(Int)
  PROVE  Filled(D, ts, FillLikeX(node, ts))
<1> DEFINE dim == Port(node, ts, "X").dim
           ids == FilledPortsOf(node, {"Y"})
           stride == Port(node, ts, "X").stride
<1>1. FillLikeX(node, ts) = FilledAt(D, ts, ids, dim, Everywhere(D, stride))
  BY DEF FillLikeX, Fill, FilledAt, FilledTensor, DimOr, FilledPortsOf, Everywhere
<1>2. dim \in Seq(Int) /\ stride \in Seq(Int)
  OBVIOUS
<1> HIDE DEF dim, ids, stride
<1> QED BY <1>1, <1>2, FixedGrows

LEMMA StatisticsGrow ==
  ASSUME NEW D, NEW ts \in [D -> Tensor], NEW node, Port(node, ts, "X").dim \in Seq(Int),
         Len(Port(node, ts, "X").dim) >= 1, NEW statistics
  PROVE  Filled(D, ts, FillStatistics(node, ts, statistics))
<1> DEFINE dim == StatisticsDim(Port(node, ts, "X").dim)
           ids == FilledPortsOf(node, statistics)
           stride == ContiguousStride(dim)
<1>1. FillStatistics(node, ts, statistics) = FilledAt(D, ts, ids, dim, Everywhere(D, stride))
  BY DEF FillStatistics, Fill, FilledAt, FilledTensor, DimOr, FilledPortsOf, Everywhere
<1>2. dim \in Seq(Int)
  BY ShapeTypes
<1> HIDE DEF dim, ids
<1>3. stride \in Seq(Int)
  BY <1>2, StrideLikeType
<1> HIDE DEF stride
<1> QED BY <1>1, <1>2, <1>3, FixedGrows

\* A port that has dims keeps them.
LEMMA GrownPort ==
  ASSUME NEW D, NEW ts, NEW us, Grown(D, ts, us), NEW node, NodeOf(D, node)
  PROVE  \A p \in DOMAIN node.port :
           /\ Port(node, ts, p).dim # <<>> => Port(node, us, p).dim = Port(node, ts, p).dim
           /\ Port(node, us, p).dim \in Seq(Int) /\ Port(node, us, p).stride \in Seq(Int)
<1>1. us \in [D -> Tensor]
  BY DEF Grown
<1>2. \A p \in DOMAIN node.port :
        Port(node, us, p).dim \in Seq(Int) /\ Port(node, us, p).stride \in Seq(Int)
  BY <1>1, PortIs
<1>3. \A p \in DOMAIN node.port :
        Port(node, ts, p).dim # <<>> => Port(node, us, p).dim = Port(node, ts, p).dim
  BY DEF Grown, NodeOf, Port
<1> QED BY <1>2, <1>3

LEMMA NormGrows ==
  ASSUME NEW D, NEW ts \in [D -> Tensor], NEW node, NodeOf(D, node),
         node.kind \in {"layernorm", "rmsnorm"}, Len(Port(node, ts, "X").dim) >= 2,
         NEW scales, NEW statistics, NEW order
  PROVE  LET us == FillScales(node, ts, scales, order)
             ws == FillStatistics(node, FillLikeX(node, us), statistics)
         IN  Filled(D, ts, ws) /\ Filled(D, us, ws)
<1> DEFINE us == FillScales(node, ts, scales, order)
           vs == FillLikeX(node, us)
           ws == FillStatistics(node, vs, statistics)
<1>1. {"X", "Y"} \subseteq DOMAIN node.port
  BY KindPorts
<1>2. Port(node, ts, "X").dim \in Seq(Int) /\ Port(node, ts, "X").dim # <<>>
  <2>1. Port(node, ts, "X").dim \in Seq(Int)
    BY <1>1, PortIs
  <2>2. Port(node, ts, "X").dim = <<>> => Len(Port(node, ts, "X").dim) = 0
    OBVIOUS
  <2> QED BY <2>1, <2>2
<1>3. Filled(D, ts, us) /\ us \in [D -> Tensor]
  <2>1. Filled(D, ts, us)
    BY <1>2, ScalesGrow
  <2> HIDE DEF us
  <2> QED BY <2>1 DEF Filled, Grown
<1> HIDE DEF us
<1>4. /\ Port(node, us, "X").dim = Port(node, ts, "X").dim
      /\ Port(node, us, "X").dim \in Seq(Int) /\ Port(node, us, "X").stride \in Seq(Int)
  BY <1>1, <1>2, <1>3, GrownPort DEF Filled
<1>5. Filled(D, us, vs) /\ vs \in [D -> Tensor]
  <2>1. Filled(D, us, vs)
    BY <1>3, <1>4, LikeXGrows
  <2> HIDE DEF vs
  <2> QED BY <2>1 DEF Filled, Grown
<1> HIDE DEF vs
<1>6. /\ Port(node, vs, "X").dim = Port(node, ts, "X").dim
      /\ Port(node, vs, "X").dim \in Seq(Int)
  BY <1>1, <1>2, <1>4, <1>5, GrownPort DEF Filled
<1>7. Filled(D, vs, ws)
  <2>1. Len(Port(node, vs, "X").dim) >= 1
    <3> DEFINE n == Len(Port(node, vs, "X").dim)
    <3>1. n \in Nat /\ n >= 2
      BY <1>6, SeqParts
    <3> HIDE DEF n
    <3>2. n >= 1
      BY <3>1
    <3> QED BY <3>2 DEF n
  <2> QED BY <1>5, <1>6, <2>1, StatisticsGrow
<1>8. Filled(D, ts, ws) /\ Filled(D, us, ws)
  <2> HIDE DEF ws
  <2> QED BY <1>3, <1>5, <1>7, FilledFurther
<1> QED BY <1>8 DEF us, vs, ws

LEMMA BatchNormGrows ==
  ASSUME NEW D, NEW ts \in [D -> Tensor], NEW node, NodeOf(D, node),
         node.kind = "batchnorm", Len(Port(node, ts, "X").dim) >= 2
  PROVE  Filled(D, ts, BatchNormInfer(node, ts))
<1> DEFINE x == Port(node, ts, "X").dim
           dim == <<x[2]>>
           one == <<1>>
           ids == FilledPortsOf(node, ChannelPorts(node))
           us == FilledAt(D, ts, ids, dim, Everywhere(D, one))
<1>1. {"X", "Y"} \subseteq DOMAIN node.port
  BY KindPorts
<1>2. x \in Seq(Int)
  BY <1>1, PortIs
<1>3. BatchNormInfer(node, ts) = FillLikeX(node, us)
  BY DEF BatchNormInfer, Fill, FilledAt, FilledTensor, DimOr, FilledPortsOf, Everywhere
<1> HIDE DEF ids
<1>4. Len(x) >= 2
  OBVIOUS
<1> HIDE DEF x
<1>5. x # <<>> /\ x[2] \in Int
  <2>1. Len(x) \in Nat /\ \A i \in 1..Len(x) : x[i] \in Int
    BY <1>2, SeqParts
  <2>2. 2 \in 1..Len(x)
    BY <1>4, <2>1
  <2>3. x = <<>> => Len(x) = 0
    OBVIOUS
  <2> QED BY <1>4, <2>1, <2>2, <2>3
<1>6. dim \in Seq(Int) /\ one \in Seq(Int)
  BY <1>5
<1> HIDE DEF dim, one
<1>7. Filled(D, ts, us) /\ us \in [D -> Tensor]
  <2>1. Filled(D, ts, us)
    BY <1>6, FixedGrows
  <2> HIDE DEF us
  <2> QED BY <2>1 DEF Filled, Grown
<1> HIDE DEF us
<1>8. Port(node, us, "X").dim \in Seq(Int) /\ Port(node, us, "X").stride \in Seq(Int)
  BY <1>1, <1>7, GrownPort DEF Filled
<1>9. Filled(D, us, FillLikeX(node, us))
  BY <1>7, <1>8, LikeXGrows
<1> QED BY <1>3, <1>7, <1>9, FilledFurther

LEMMA PointwiseInputsAre ==
  ASSUME NEW D, NEW ts \in [D -> Tensor], NEW node, NodeOf(D, node), PointwisePre(node, ts)
  PROVE  /\ Required(node.mode) \in 1..3
         /\ DOMAIN PointwiseInputs(node, ts) = 1..Required(node.mode)
         /\ \A i \in DOMAIN PointwiseInputs(node, ts) :
              /\ PointwiseInputs(node, ts)[i] \in Tensor
              /\ PointwiseInputs(node, ts)[i].dim \in Seq(Int)
              /\ PointwiseInputs(node, ts)[i].stride \in Seq(Int)
<1> DEFINE inputs == PointwiseInputs(node, ts)
<1>1. Required(node.mode) \in {1, 2, 3}
  BY DEF Required
<1>2. DOMAIN Operands = 1..3
  BY DEF Operands
<1>3. \A i \in 1..Required(node.mode) : Operands[i] \in DOMAIN node.port
  BY <1>1, <1>2 DEF PointwisePre, Has
<1>4. DOMAIN inputs = 1..Required(node.mode)
         /\ \A i \in 1..Required(node.mode) : inputs[i] = Port(node, ts, Operands[i])
  BY DEF PointwiseInputs
<1>5. \A i \in 1..Required(node.mode) :
        inputs[i] \in Tensor /\ inputs[i].dim \in Seq(Int) /\ inputs[i].stride \in Seq(Int)
  <2> HIDE DEF inputs
  <2> QED BY <1>3, <1>4, PortIs
<1> QED BY <1>1, <1>4, <1>5

LEMMA PointwiseDimType ==
  ASSUME NEW D, NEW ts \in [D -> Tensor], NEW node, NodeOf(D, node),
         node.kind = "pointwise", PointwisePre(node, ts)
  PROVE  PointwiseDim(node, ts) \in Seq(Int)
<1> DEFINE own == Port(node, ts, "OUT_0").dim
           inputs == PointwiseInputs(node, ts)
           shapes == {t.dim : t \in Range(inputs)}
<1>1. own \in Seq(Int)
  BY KindPorts, PortIs
<1>2. /\ Required(node.mode) \in 1..3
      /\ DOMAIN inputs = 1..Required(node.mode)
      /\ \A i \in DOMAIN inputs : inputs[i].dim \in Seq(Int)
  BY PointwiseInputsAre
<1> HIDE DEF inputs
<1>3. shapes = {inputs[i].dim : i \in DOMAIN inputs}
  BY DEF Range
<1>4. shapes \in SUBSET Seq(Int)
  BY <1>2, <1>3
<1>5. IsFiniteSet(shapes)
  <2> DEFINE f == [i \in DOMAIN inputs |-> inputs[i].dim]
  <2>1. f \in Surjection(DOMAIN inputs, shapes)
    BY <1>3 DEF Surjection
  <2>2. IsFiniteSet(DOMAIN inputs)
    <3>1. 1 \in Int /\ Required(node.mode) \in Int
      BY <1>2
    <3> QED BY <1>2, <3>1, FS_Interval
  <2> HIDE DEF f, shapes
  <2> QED BY <2>1, <2>2, FS_Surjection
<1>6. PointwiseDim(node, ts) = IF own # <<>> THEN own ELSE BroadcastShape(shapes)
  BY DEF PointwiseDim, inputs
<1> HIDE DEF own, shapes
<1>7. BroadcastShape(shapes) \in Seq(Int)
  BY <1>4, <1>5, BroadcastType
<1> QED BY <1>1, <1>6, <1>7

LEMMA PointwiseStrideType ==
  ASSUME NEW D, NEW ts \in [D -> Tensor], NEW node, NodeOf(D, node),
         PointwisePre(node, ts), NEW dim \in Seq(Int), NEW order
  PROVE  PointwiseStride(node, ts, dim, order) \in Seq(Int)
<1> DEFINE inputs == PointwiseInputs(node, ts)
           same == {i \in DOMAIN inputs : inputs[i].dim = dim}
           first == CHOOSE i \in same : \A j \in same : i <= j
           found == IF same = {} THEN <<>> ELSE inputs[first].stride
<1>1. /\ Required(node.mode) \in 1..3
      /\ DOMAIN inputs = 1..Required(node.mode)
      /\ \A i \in DOMAIN inputs : inputs[i].stride \in Seq(Int)
  BY PointwiseInputsAre
<1>2. <<>> \in Seq(Int) /\ StrideFromDim(dim, order) \in Seq(Int)
  BY StrideType
<1>3. PointwiseStride(node, ts, dim, order) \in {<<>>, found, StrideFromDim(dim, order)}
  BY DEF PointwiseStride
<1> HIDE DEF inputs
<1>4. same # {} => first \in same
  <2> SUFFICES ASSUME same # {} PROVE \E i \in same : \A j \in same : i <= j
    OBVIOUS
  <2>1. same \subseteq {1, 2, 3}
    BY <1>1
  <2> HIDE DEF same
  <2>2. 1 \in same \/ 2 \in same \/ 3 \in same
    BY <2>1
  <2>3. CASE 1 \in same
    BY <2>1, <2>3
  <2>4. CASE 1 \notin same /\ 2 \in same
    BY <2>1, <2>4
  <2>5. CASE 1 \notin same /\ 2 \notin same /\ 3 \in same
    BY <2>1, <2>5
  <2> QED BY <2>2, <2>3, <2>4, <2>5
<1> HIDE DEF first
<1>5. found \in Seq(Int)
  BY <1>1, <1>2, <1>4
<1> HIDE DEF found
<1> QED BY <1>2, <1>3, <1>5

LEMMA PointwiseGrows ==
  ASSUME NEW D, NEW ts \in [D -> Tensor], NEW node, NodeOf(D, node),
         node.kind = "pointwise", PointwisePre(node, ts), NEW order
  PROVE  Filled(D, ts, PointwiseInfer(node, ts, order))
<1> DEFINE dim == PointwiseDim(node, ts)
           ids == FilledPortsOf(node, {"OUT_0"})
           stride == [i \in D |-> PointwiseStride(node, ts, DimOr(ts[i], dim), order)]
<1>1. dim \in Seq(Int)
  BY PointwiseDimType
<1>2. PointwiseInfer(node, ts, order) = FilledAt(D, ts, ids, dim, stride)
  BY DEF PointwiseInfer, Fill, FilledAt, FilledTensor, DimOr, FilledPortsOf
<1> HIDE DEF dim, ids
<1>3. \A i \in D : stride[i] \in Seq(Int)
  <2> TAKE i \in D
  <2>1. DimOr(ts[i], dim) \in Seq(Int)
    BY <1>1 DEF Tensor, DimOr
  <2> QED BY <2>1, PointwiseStrideType
<1> HIDE DEF stride
<1>4. Filled(D, ts, FilledAt(D, ts, ids, dim, stride))
  BY <1>1, <1>3, FilledGrows
<1> QED BY <1>2, <1>4

\* The first checks of a node give its inference the ranks it needs.
LEMMA PreFits ==
  ASSUME NEW node, NEW ts, PreValid(node, ts)
  PROVE  RanksFit(node, ts)
<1>1. CASE node.kind = "fprop"
  <2>1. ConvFPropPre(node, ts)
    BY <1>1 DEF PreValid
  <2> QED BY <1>1, <2>1 DEF ConvFPropPre, ConvInputsValid, RanksFit
<1>2. CASE node.kind = "matmul"
  <2>1. MatmulPre(node, ts)
    BY <1>2 DEF PreValid
  <2> QED BY <1>2, <2>1 DEF MatmulPre, RanksFit
<1>3. CASE node.kind = "sdpa"
  <2>1. SdpaPre(node, ts)
    BY <1>3 DEF PreValid
  <2> QED BY <1>3, <2>1 DEF SdpaPre, RanksFit
<1>4. CASE node.kind \in {"layernorm", "rmsnorm", "batchnorm"}
  <2>1. LayerNormPre(node, ts) \/ RmsNormPre(node, ts) \/ BatchNormPre(node, ts)
    BY <1>4 DEF PreValid
  <2>2. Len(Port(node, ts, "X").dim) >= 2
    BY <2>1 DEF LayerNormPre, RmsNormPre, BatchNormPre, NormInputsValid
  <2> QED BY <1>4, <2>2 DEF RanksFit
<1>5. CASE node.kind = "pointwise"
  <2>1. PointwisePre(node, ts)
    BY <1>5 DEF PreValid
  <2> QED BY <1>5, <2>1 DEF RanksFit
<1>6. CASE node.kind \notin {"fprop", "matmul", "sdpa", "layernorm", "rmsnorm", "batchnorm", "pointwise"}
  BY <1>6 DEF RanksFit
<1> QED BY <1>1, <1>2, <1>3, <1>4, <1>5, <1>6

LEMMA RetypedFits ==
  ASSUME NEW D, NEW node, NodeOf(D, node), NEW ts, NEW us, Retyped(D, ts, us), RanksFit(node, ts)
  PROVE  RanksFit(node, us)
<1>1. \A p \in DOMAIN node.port : Port(node, us, p).dim = Port(node, ts, p).dim
  <2>1. \A i \in D : us[i].dim = ts[i].dim
    BY DEF Retyped
  <2> QED BY <2>1 DEF NodeOf, Port
<1>2. node.kind = "pointwise" => PointwisePre(node, us)
  BY DEF RanksFit, PointwisePre
<1>3. CASE node.kind = "fprop"
  <2>1. {"X", "W"} \subseteq DOMAIN node.port
    BY <1>3, KindPorts
  <2> QED BY <1>1, <1>3, <2>1 DEF RanksFit
<1>4. CASE node.kind = "matmul"
  <2>1. {"A", "B"} \subseteq DOMAIN node.port
    BY <1>4, KindPorts
  <2> QED BY <1>1, <1>4, <2>1 DEF RanksFit
<1>5. CASE node.kind = "sdpa"
  <2>1. {"Q", "V"} \subseteq DOMAIN node.port
    BY <1>5, KindPorts
  <2> QED BY <1>1, <1>5, <2>1 DEF RanksFit
<1>6. CASE node.kind \in {"layernorm", "rmsnorm", "batchnorm"}
  <2>1. "X" \in DOMAIN node.port
    BY <1>6, KindPorts
  <2> QED BY <1>1, <1>6, <2>1 DEF RanksFit
<1>7. CASE node.kind \notin {"fprop", "matmul", "sdpa", "layernorm", "rmsnorm", "batchnorm"}
  BY <1>2, <1>7 DEF RanksFit
<1> QED BY <1>3, <1>4, <1>5, <1>6, <1>7

\* What a node infers, from tensors whose types are filled in.
InferredBy(node, ts, order) ==
  CASE node.kind = "fprop"    -> ConvFPropInfer(node, ts)
    [] node.kind = "wgrad"    -> ConvWGradInfer(node, ts)
    [] node.kind = "dgrad"    -> ConvDGradInfer(node, ts)
    [] node.kind = "matmul"   -> MatmulInfer(node, ts)
    [] node.kind = "pointwise"-> PointwiseInfer(node, ts, order)
    [] node.kind = "reduction"-> ReductionInfer(node, ts)
    [] node.kind = "layernorm"-> LayerNormInfer(node, ts, order)
    [] node.kind = "rmsnorm"  -> RmsNormInfer(node, ts, order)
    [] node.kind = "batchnorm"-> BatchNormInfer(node, ts)
    [] node.kind = "sdpa"     -> SdpaInfer(node, ts)
    [] OTHER                  -> ts

LEMMA InferredFrom ==
  ASSUME NEW D, NEW before \in [D -> Tensor], NEW node, NodeOf(D, node),
         {graph.io, graph.intermediate} \subseteq DataTypes, PreValid(node, before), NEW order
  PROVE  \E ts \in [D -> Tensor] :
           /\ Retyped(D, before, ts) /\ RanksFit(node, ts)
           /\ Inferred(node, before, order) = InferredBy(node, ts, order)
<1> DEFINE forced == Forced(node, before)
           ts == FilledFromContext(node, forced)
<1>1. Retyped(D, before, forced) /\ forced \in [D -> Tensor]
  BY ForcedRetypes DEF Retyped
<1>2. Inferred(node, before, order) = InferredBy(node, ts, order)
  BY DEF Inferred, InferredBy
<1> HIDE DEF forced
<1>3. Retyped(D, forced, ts)
  BY <1>1, ContextFills
<1> HIDE DEF ts
<1>4. Retyped(D, before, ts) /\ ts \in [D -> Tensor]
  BY <1>1, <1>3 DEF Retyped
<1>5. RanksFit(node, ts)
  <2>1. RanksFit(node, before)
    BY PreFits
  <2> QED BY <1>4, <2>1, RetypedFits
<1> QED BY <1>2, <1>4, <1>5

\* A node's inference changes nothing that is set.
LEMMA InferredGrows ==
  ASSUME NEW D, NEW before \in [D -> Tensor], NEW node, NodeOf(D, node),
         {graph.io, graph.intermediate} \subseteq DataTypes, PreValid(node, before), NEW order
  PROVE  \E ts : /\ ts = FilledFromContext(node, Forced(node, before))
                 /\ Retyped(D, before, ts) /\ Filled(D, ts, Inferred(node, before, order))
                 /\ Grown(D, before, Inferred(node, before, order))
                 /\ node.kind = "wgrad" => Inferred(node, before, order) = ConvWGradInfer(node, ts)
                 /\ node.kind = "dgrad" => Inferred(node, before, order) = ConvDGradInfer(node, ts)
<1> DEFINE forced == Forced(node, before)
           ts == FilledFromContext(node, forced)
           us == Inferred(node, before, order)
<1>1. Retyped(D, before, forced) /\ forced \in [D -> Tensor]
  BY ForcedRetypes DEF Retyped
<1> HIDE DEF forced
<1>2. Retyped(D, forced, ts)
  BY <1>1, ContextFills
<1>3. us = CASE node.kind = "fprop"    -> ConvFPropInfer(node, ts)
             [] node.kind = "wgrad"    -> ConvWGradInfer(node, ts)
             [] node.kind = "dgrad"    -> ConvDGradInfer(node, ts)
             [] node.kind = "matmul"   -> MatmulInfer(node, ts)
             [] node.kind = "pointwise"-> PointwiseInfer(node, ts, order)
             [] node.kind = "reduction"-> ReductionInfer(node, ts)
             [] node.kind = "layernorm"-> LayerNormInfer(node, ts, order)
             [] node.kind = "rmsnorm"  -> RmsNormInfer(node, ts, order)
             [] node.kind = "batchnorm"-> BatchNormInfer(node, ts)
             [] node.kind = "sdpa"     -> SdpaInfer(node, ts)
             [] OTHER                  -> ts
  BY DEF Inferred, forced
<1> HIDE DEF ts, us
<1>4. Retyped(D, before, ts) /\ ts \in [D -> Tensor] /\ Grown(D, before, ts)
  <2>1. Retyped(D, before, ts) /\ ts \in [D -> Tensor]
    BY <1>1, <1>2 DEF Retyped
  <2> QED BY <2>1, RetypedGrows
<1>5. RanksFit(node, ts)
  <2>1. RanksFit(node, before)
    BY PreFits
  <2> QED BY <1>4, <2>1, RetypedFits
<1>6. Filled(D, ts, us)
  <2>1. CASE node.kind \in {"fprop", "wgrad", "dgrad"}
    BY <1>3, <1>4, <1>5, <2>1, ConvGrows
  <2>2. CASE node.kind = "matmul"
    BY <1>3, <1>4, <1>5, <2>2, MatmulGrows
  <2>3. CASE node.kind = "pointwise"
    <3>1. PointwisePre(node, ts)
      BY <1>5, <2>3 DEF RanksFit
    <3> QED BY <1>3, <1>4, <2>3, <3>1, PointwiseGrows
  <2>4. CASE node.kind = "reduction"
    BY <1>3, <1>4, <2>4, ReductionGrows
  <2>5. CASE node.kind \in {"layernorm", "rmsnorm"}
    <3>1. Len(Port(node, ts, "X").dim) >= 2
      BY <1>5, <2>5 DEF RanksFit
    <3>2. us = LayerNormInfer(node, ts, order) \/ us = RmsNormInfer(node, ts, order)
      BY <1>3, <2>5
    <3> QED BY <1>4, <2>5, <3>1, <3>2, NormGrows DEF LayerNormInfer, RmsNormInfer
  <2>6. CASE node.kind = "batchnorm"
    <3>1. Len(Port(node, ts, "X").dim) >= 2
      BY <1>5, <2>6 DEF RanksFit
    <3> QED BY <1>3, <1>4, <2>6, <3>1, BatchNormGrows
  <2>7. CASE node.kind = "sdpa"
    BY <1>3, <1>4, <1>5, <2>7, SdpaGrows
  <2>8. CASE node.kind \notin {"fprop", "wgrad", "dgrad", "matmul", "pointwise", "reduction",
                               "layernorm", "rmsnorm", "batchnorm", "sdpa"}
    <3>1. us = ts
      BY <1>3, <2>8
    <3> QED BY <1>4, <3>1, NotGrown DEF Filled
  <2> QED BY <2>1, <2>2, <2>3, <2>4, <2>5, <2>6, <2>7, <2>8
<1>7. Grown(D, before, us)
  BY <1>4, <1>6, GrownFurther DEF Filled
<1>8. /\ node.kind = "wgrad" => us = ConvWGradInfer(node, ts)
      /\ node.kind = "dgrad" => us = ConvDGradInfer(node, ts)
  BY <1>3
<1> QED BY <1>4, <1>6, <1>7, <1>8 DEF us, ts, forced

-----------------------------------------------------------------------------
(* The types                                                               *)

LEMMA CaseIs ==
  ASSUME graph \in Cases
  PROVE  /\ {graph.io, graph.intermediate} \subseteq DataTypes
         /\ \A i \in DOMAIN graph.choices : graph.choices[i] \subseteq Tensor
         /\ DOMAIN graph.nodes = 1..Len(graph.nodes) /\ Len(graph.nodes) \in Nat
         /\ \A k \in DOMAIN graph.nodes : NodeOf(DOMAIN graph.choices, graph.nodes[k])
<1>1. /\ {graph.io, graph.intermediate} \subseteq DataTypes
      /\ \A i \in DOMAIN graph.choices : graph.choices[i] \subseteq Tensor
      /\ graph.nodes \in Seq(Range(graph.nodes))
      /\ \A node \in Range(graph.nodes) :
           /\ NeededPorts(node.kind) \subseteq DOMAIN node.port
           /\ node.port \in [DOMAIN node.port -> DOMAIN graph.choices]
           /\ node.kind \in {"fprop", "wgrad", "dgrad"} =>
                /\ {node.padding, node.dilation} \subseteq Seq(Nat)
                /\ node.step \in Seq(Nat \ {0})
  BY CasesAssumption
<1>2. DOMAIN graph.nodes = 1..Len(graph.nodes) /\ Len(graph.nodes) \in Nat
  BY <1>1, SeqParts
<1>3. ASSUME NEW k \in DOMAIN graph.nodes
      PROVE  NodeOf(DOMAIN graph.choices, graph.nodes[k])
  <2> DEFINE node == graph.nodes[k]
  <2>1. node \in Range(graph.nodes)
    BY DEF Range
  <2> HIDE DEF node
  <2>2. /\ NeededPorts(node.kind) \subseteq DOMAIN node.port
        /\ node.port \in [DOMAIN node.port -> DOMAIN graph.choices]
        /\ node.kind \in {"fprop", "wgrad", "dgrad"} =>
             /\ {node.padding, node.dilation} \subseteq Seq(Nat)
             /\ node.step \in Seq(Nat \ {0})
    BY <1>1, <2>1
  <2>3. \A p \in DOMAIN node.port : node.port[p] \in DOMAIN graph.choices
    BY <2>2
  <2> QED BY <2>2, <2>3 DEF NodeOf, node
<1> QED BY <1>1, <1>2, <1>3

\* A node that passes its first checks: what it infers.
LEMMA ValidateNodeGrows ==
  ASSUME TypeOK, ValidateNode
  PROVE  /\ Grown(DOMAIN graph.choices, tensor, tensor')
         /\ graph' = graph
         /\ at \in 1..Len(graph.nodes)
         /\ \/ at' = at + 1 /\ accepted' = accepted /\ PostValid(graph.nodes[at], tensor')
            \/ at' = Idle /\ accepted' = FALSE
<1> DEFINE node == graph.nodes[at]
<1>1. graph \in Cases /\ tensor \in [DOMAIN graph.choices -> Tensor]
  BY DEF TypeOK
<1>2. at \in DOMAIN graph.nodes /\ PreValid(node, tensor) /\ graph' = graph
  BY DEF ValidateNode
<1>3. PICK order : tensor' = Inferred(node, tensor, order)
  BY DEF ValidateNode
<1>4. NodeOf(DOMAIN graph.choices, node) /\ {graph.io, graph.intermediate} \subseteq DataTypes
  BY <1>1, <1>2, CaseIs
<1>5. Grown(DOMAIN graph.choices, tensor, tensor')
  <2> HIDE DEF node
  <2>1. Grown(DOMAIN graph.choices, tensor, Inferred(node, tensor, order))
    BY <1>1, <1>2, <1>4, InferredGrows
  <2> QED BY <1>3, <2>1
<1>6. \/ at' = at + 1 /\ accepted' = accepted /\ PostValid(node, tensor')
      \/ at' = Idle /\ accepted' = FALSE
  BY DEF ValidateNode, Refused
<1>7. at \in 1..Len(graph.nodes)
  BY <1>1, <1>2, CaseIs
<1> QED BY <1>2, <1>5, <1>6, <1>7

\* The invariant of the types, and of the place validate is at.
THEOREM TypeOKCorrect == Spec => []TypeOK
<1>1. Init => TypeOK
  <2> SUFFICES ASSUME Init PROVE TypeOK
    OBVIOUS
  <2>1. graph \in Cases /\ at = Idle /\ accepted = FALSE
    BY DEF Init
  <2>2. tensor \in [DOMAIN graph.choices -> Tensor]
    <3>1. tensor \in [DOMAIN graph.choices -> UNION Range(graph.choices)]
            /\ \A i \in DOMAIN tensor : tensor[i] \in graph.choices[i]
      BY DEF Init
    <3>2. \A i \in DOMAIN graph.choices : tensor[i] \in Tensor
      BY <2>1, <3>1, CaseIs
    <3> QED BY <3>1, <3>2
  <2>3. at \in Idle..Concluding
    <3>1. Len(graph.nodes) \in Nat
      BY <2>1, CaseIs
    <3> QED BY <2>1, <3>1 DEF Idle, Concluding
  <2> QED BY <2>1, <2>2, <2>3 DEF TypeOK
<1>2. TypeOK /\ [Next]_vars => TypeOK'
  <2> SUFFICES ASSUME TypeOK, [Next]_vars PROVE TypeOK'
    OBVIOUS
  <2> DEFINE D == DOMAIN graph.choices
             n == Len(graph.nodes)
  <2>1. graph \in Cases /\ tensor \in [D -> Tensor] /\ accepted \in BOOLEAN /\ n \in Nat /\ at \in 0..n + 1
    BY CaseIs DEF TypeOK, Idle, Concluding
  <2>2. graph' = graph
    BY DEF Next, vars, SetTensor, Begin, RefuseNode, ValidateNode, Conclude
  <2>3. ASSUME tensor' \in [D -> Tensor], at' \in 0..n + 1, accepted' \in BOOLEAN
        PROVE  TypeOK'
    BY <2>1, <2>2, <2>3 DEF TypeOK, Idle, Concluding
  <2>4. ASSUME NEW i \in DOMAIN tensor, SetTensor(i) PROVE TypeOK'
    <3>1. at' = at /\ accepted' = FALSE
      BY <2>4 DEF SetTensor
    <3>2. PICK t \in {Typed(c, tensor[i].type) : c \in graph.choices[i]} :
            tensor' = [tensor EXCEPT ![i] = t]
      BY <2>4 DEF SetTensor
    <3>3. PICK c \in graph.choices[i] : t = Typed(c, tensor[i].type)
      BY <3>2
    <3>4. c \in Tensor /\ tensor[i] \in Tensor
      BY <2>1, CaseIs
    <3>5. t \in Tensor
      <4> DEFINE type == tensor[i].type
      <4>1. type \in DataTypes
        BY <3>4 DEF Tensor
      <4> HIDE DEF type
      <4>2. [c EXCEPT !.type = type] \in Tensor
        BY <3>4, <4>1, TypedTensor
      <4>3. t = IF c.type = NotSet THEN [c EXCEPT !.type = type] ELSE c
        BY <3>3 DEF Typed, type
      <4> QED BY <3>4, <4>2, <4>3
    <3>6. tensor' \in [D -> Tensor]
      BY <2>1, <3>2, <3>5
    <3> QED BY <2>1, <2>3, <3>1, <3>6
  <2>5. CASE Begin
    <3>1. at' = 1 /\ tensor' = tensor /\ accepted' = accepted
      BY <2>5 DEF Begin
    <3>2. 1 \in 0..n + 1
      BY <2>1
    <3> QED BY <2>1, <2>3, <3>1, <3>2
  <2>6. CASE RefuseNode
    <3>1. at' = 0 /\ tensor' = tensor /\ accepted' = FALSE
      BY <2>6 DEF RefuseNode, Refused, Idle
    <3>2. 0 \in 0..n + 1
      BY <2>1
    <3> QED BY <2>1, <2>3, <3>1, <3>2
  <2>7. CASE ValidateNode
    <3>1. Grown(D, tensor, tensor')
      BY <2>7, ValidateNodeGrows
    <3>2. at \in 1..n
      BY <2>7, ValidateNodeGrows
    <3>3. (at' = at + 1 /\ accepted' = accepted) \/ (at' = 0 /\ accepted' = FALSE)
      BY <2>7, ValidateNodeGrows DEF Idle
    <3>4. tensor' \in [D -> Tensor]
      BY <3>1 DEF Grown
    <3>5. at' \in 0..n + 1
      <4> HIDE DEF n
      <4>1. n \in Nat /\ at \in 1..n /\ (at' = at + 1 \/ at' = 0)
        BY <2>1, <3>2, <3>3
      <4> QED BY <4>1
    <3>6. accepted' \in BOOLEAN
      <4>1. accepted' = accepted \/ accepted' = FALSE
        BY <3>3
      <4>2. accepted \in BOOLEAN
        BY <2>1
      <4> QED BY <4>1, <4>2
    <3> QED BY <2>3, <3>4, <3>5, <3>6
  <2>8. CASE Conclude
    <3>1. at' = 0 /\ tensor' = tensor /\ accepted' \in BOOLEAN
      BY <2>8 DEF Conclude, Refused, Idle
    <3>2. 0 \in 0..n + 1
      BY <2>1
    <3> QED BY <2>1, <2>3, <3>1, <3>2
  <2>9. CASE UNCHANGED vars
    <3>1. at' = at /\ tensor' = tensor /\ accepted' = accepted
      BY <2>9 DEF vars
    <3> QED BY <2>1, <2>3, <3>1
  <2> QED BY <2>4, <2>5, <2>6, <2>7, <2>8, <2>9 DEF Next
<1> QED BY <1>1, <1>2, PTL DEF Spec

-----------------------------------------------------------------------------
(* The layout of an accepted graph                                         *)

\* What Conclude finds of a tensor's dims and strides.
LaidOut(t) == t.dim # <<>> /\ t.stride # <<>> /\ DynamicValid(t) /\ ValidPhysical(t)

AcceptedLaidOut == accepted => \A i \in DOMAIN tensor : LaidOut(tensor[i])

\* It depends on the dims, the strides and the dynamic axes.
LEMMA SameLayout ==
  ASSUME NEW t, NEW u, u.dim = t.dim, u.stride = t.stride, u.dynamic = t.dynamic, LaidOut(t)
  PROVE  LaidOut(u)
BY DEF LaidOut, DynamicValid, ValidPhysical, BroadcastAxes, Reorderable, Faster

\* A step that leaves a graph accepted changes nothing that is set, or has just checked it.
LEMMA AcceptedStep ==
  ASSUME TypeOK, [Next]_vars, accepted'
  PROVE  /\ graph' = graph
         /\ \/ accepted /\ Grown(DOMAIN graph.choices, tensor, tensor')
            \/ Conclude /\ TensorsValid /\ tensor' = tensor
<1>1. tensor \in [DOMAIN graph.choices -> Tensor] /\ accepted \in BOOLEAN
  BY DEF TypeOK
<1>2. CASE \E i \in DOMAIN tensor : SetTensor(i)
  BY <1>2 DEF SetTensor
<1>3. CASE Begin \/ UNCHANGED vars
  BY <1>1, <1>3, NotGrown DEF Begin, vars
<1>4. CASE RefuseNode
  BY <1>4 DEF RefuseNode, Refused
<1>5. CASE ValidateNode
  <2>1. /\ Grown(DOMAIN graph.choices, tensor, tensor') /\ graph' = graph
        /\ accepted' = accepted \/ accepted' = FALSE
    BY <1>5, ValidateNodeGrows
  <2> QED BY <2>1
<1>6. CASE Conclude
  BY <1>6 DEF Conclude, Refused
<1> QED BY <1>2, <1>3, <1>4, <1>5, <1>6 DEF Next

LEMMA AcceptedStaysLaidOut ==
  ASSUME TypeOK, AcceptedLaidOut, [Next]_vars
  PROVE  AcceptedLaidOut'
<1> DEFINE D == DOMAIN graph.choices
<1> SUFFICES ASSUME accepted' PROVE \A i \in DOMAIN tensor' : LaidOut(tensor'[i])
  BY DEF AcceptedLaidOut
<1>1. tensor \in [D -> Tensor]
  BY DEF TypeOK
<1>2. CASE accepted /\ Grown(D, tensor, tensor')
  <2>1. \A i \in D : LaidOut(tensor[i])
    BY <1>1, <1>2 DEF AcceptedLaidOut
  <2>2. DOMAIN tensor' = D
    BY <1>2 DEF Grown
  <2>3. ASSUME NEW i \in D PROVE LaidOut(tensor'[i])
    <3>1. tensor[i].dim # <<>> /\ tensor[i].stride # <<>> /\ LaidOut(tensor[i])
      BY <2>1 DEF LaidOut
    <3>2. /\ tensor'[i].dim = tensor[i].dim /\ tensor'[i].stride = tensor[i].stride
          /\ tensor'[i].dynamic = tensor[i].dynamic
      BY <1>2, <3>1 DEF Grown
    <3> QED BY <3>1, <3>2, SameLayout
  <2> QED BY <2>2, <2>3
<1>3. CASE TensorsValid /\ tensor' = tensor
  BY <1>3 DEF TensorsValid, LaidOut
<1> QED BY <1>2, <1>3, AcceptedStep

LEMMA AcceptedLaidOutCorrect == Spec => []AcceptedLaidOut
<1>1. Init => AcceptedLaidOut
  BY DEF Init, AcceptedLaidOut
<1>2. AcceptedLaidOut /\ UNCHANGED vars => AcceptedLaidOut'
  BY DEF AcceptedLaidOut, vars
<1> QED BY <1>1, AcceptedStaysLaidOut, TypeOKCorrect, PTL DEF Spec

\* A tensor that is laid out and has elements.
LEMMA LaidOutIsStrided ==
  ASSUME NEW t \in Tensor, LaidOut(t), Range(t.dim) \subseteq Nat \ {0}
  PROVE  Strided(t) /\ ValidPhysical(t) /\ DynamicValid(t) /\ Positive(t.dim)
<1>1. ValidPhysical(t) /\ DynamicValid(t)
  BY DEF LaidOut
<1>2. Strided(t)
  <2>1. Len(t.dim) = Len(t.stride)
    BY <1>1 DEF ValidPhysical
  <2> QED BY <2>1 DEF Strided, Tensor
<1>3. Positive(t.dim)
  BY DEF Positive, Range
<1> QED BY <1>1, <1>2, <1>3

\* LayoutFaithful is an invariant.
THEOREM LayoutFaithfulCorrect == Spec => []LayoutFaithful
<1>1. TypeOK /\ AcceptedLaidOut => LayoutFaithful
  <2> SUFFICES ASSUME TypeOK, AcceptedLaidOut, accepted, NEW i \in DOMAIN tensor,
                      Range(tensor[i].dim) \subseteq Nat \ {0}
               PROVE  Faithful(tensor[i])
    BY DEF LayoutFaithful
  <2>1. tensor[i] \in Tensor /\ LaidOut(tensor[i])
    BY DEF TypeOK, AcceptedLaidOut
  <2> QED BY <2>1, LaidOutIsStrided, ValidIsFaithful
<1> QED BY <1>1, TypeOKCorrect, AcceptedLaidOutCorrect, PTL

\* The permutations of an accepted graph are right for every size that a buffer may bring
\* in the dynamic dims, not only for the few sizes of the property.
THEOREM EverySizeFaithful ==
  Spec => [](accepted =>
               \A i \in DOMAIN tensor : \A sizes \in SUBSET (Nat \ {0}) :
                 Range(tensor[i].dim) \subseteq Nat \ {0} => RuntimeFaithful(tensor[i], sizes))
<1>1. TypeOK /\ AcceptedLaidOut =>
        (accepted =>
           \A i \in DOMAIN tensor : \A sizes \in SUBSET (Nat \ {0}) :
             Range(tensor[i].dim) \subseteq Nat \ {0} => RuntimeFaithful(tensor[i], sizes))
  <2> SUFFICES ASSUME TypeOK, AcceptedLaidOut, accepted, NEW i \in DOMAIN tensor,
                      NEW sizes \in SUBSET (Nat \ {0}),
                      Range(tensor[i].dim) \subseteq Nat \ {0}
               PROVE  RuntimeFaithful(tensor[i], sizes)
    OBVIOUS
  <2>1. tensor[i] \in Tensor /\ LaidOut(tensor[i])
    BY DEF TypeOK, AcceptedLaidOut
  <2> QED BY <2>1, LaidOutIsStrided, DynamicIsFaithful
<1> QED BY <1>1, TypeOKCorrect, AcceptedLaidOutCorrect, PTL

\* RuntimeSizesFaithful is an invariant: the same for the sizes 1, 2 and 3.
THEOREM RuntimeSizesFaithfulCorrect == Spec => []RuntimeSizesFaithful
<1>1. ASSUME accepted =>
               \A i \in DOMAIN tensor : \A sizes \in SUBSET (Nat \ {0}) :
                 Range(tensor[i].dim) \subseteq Nat \ {0} => RuntimeFaithful(tensor[i], sizes)
      PROVE  RuntimeSizesFaithful
  <2>1. {1, 2, 3} \in SUBSET (Nat \ {0})
    OBVIOUS
  <2> QED BY <1>1, <2>1 DEF RuntimeSizesFaithful
<1> QED BY <1>1, EverySizeFaithful, PTL

-----------------------------------------------------------------------------
(* Shapes of convolutions                                                  *)

\* Multiples of a step up to a bound.
LEMMA MultiplesUpTo ==
  ASSUME NEW a \in Nat, NEW step \in Nat \ {0}, NEW p \in Nat
  PROVE  /\ p * step <= a <=> p <= a \div step
         /\ a \div step \in Nat /\ a \div step <= a
<1> DEFINE q == a \div step
           r == a % step
<1>1. q \in Nat /\ r \in 0..step - 1 /\ a = step * q + r
  OBVIOUS
<1> HIDE DEF q, r
<1>2. \A m \in Nat : m * step \in Nat /\ m * step >= m
  OBVIOUS
<1>3. p <= q => p * step <= a
  <2> SUFFICES ASSUME p <= q PROVE p * step <= a
    OBVIOUS
  <2>1. (q - p) * step \in Nat
    BY <1>1, <1>2
  <2>2. (q - p) * step = step * q - p * step
    BY <1>1
  <2> QED BY <1>1, <2>1, <2>2
<1>4. p > q => p * step > a
  <2> SUFFICES ASSUME p > q PROVE p * step > a
    OBVIOUS
  <2>1. (p - q - 1) * step \in Nat
    BY <1>1, <1>2
  <2>2. (p - q - 1) * step = p * step - step * q - step
    BY <1>1
  <2> QED BY <1>1, <2>1, <2>2
<1>5. q <= a
  BY <1>1, <1>2
<1>6. p * step <= a <=> p <= q
  BY <1>1, <1>3, <1>4
<1> QED BY <1>1, <1>5, <1>6 DEF q

LEMMA DivMod ==
  ASSUME NEW a \in Nat, NEW b \in Nat \ {0}
  PROVE  a = b * (a \div b) + (a % b)
<1> DEFINE q == a \div b
           r == a % b
<1>1. q \in Int /\ r \in 0..b - 1 /\ a = b * q + r
  OBVIOUS
<1> QED BY <1>1

\* One axis of the shape.
ConvExtent(x, w, dilation, padding, step) ==
  1 + TruncDiv(x - (w - 1) * dilation + 2 * padding - 1, step)

AxisOf(node, x, w, i) ==
  ConvExtent(x[i], w[i], node.dilation[i - 2], node.padding[i - 2], node.step[i - 2])

LEMMA ConvShapeIs ==
  ASSUME NEW node, NEW x, NEW w, NEW n \in Nat, DOMAIN x = 1..n, n >= 3
  PROVE  /\ ConvShape(node, x, w)[1] = x[1] /\ ConvShape(node, x, w)[2] = w[1]
         /\ \A i \in 3..n : ConvShape(node, x, w)[i] = AxisOf(node, x, w, i)
<1>1. ConvShape(node, x, w)
        = [i \in 1..n |-> CASE i = 1 -> x[1] [] i = 2 -> w[1] [] OTHER -> AxisOf(node, x, w, i)]
  BY DEF ConvShape, ConvExtent, AxisOf
<1>2. 1 \in 1..n /\ 2 \in 1..n /\ \A i \in 3..n : i \in 1..n /\ i # 1 /\ i # 2
  OBVIOUS
<1> QED BY <1>1, <1>2

\* A filter that fits has as many places as the division says.
LEMMA WindowsAre ==
  ASSUME NEW x \in Int, NEW w \in Nat \ {0}, NEW dilation \in Nat, NEW padding \in Nat,
         NEW step \in Nat \ {0}, (w - 1) * dilation < x + 2 * padding
  PROVE  Windows(x, w, dilation, padding, step)
           = ConvExtent(x, w, dilation, padding, step)
<1> DEFINE span == (w - 1) * dilation
           size == x + 2 * padding
           a == size - span - 1
           q == a \div step
<1>1. span \in Nat
  <2>1. \A m, n \in Nat : m * n \in Nat
    OBVIOUS
  <2>2. w - 1 \in Nat
    OBVIOUS
  <2> QED BY <2>1, <2>2
<1>2. x - (w - 1) * dilation + 2 * padding - 1 = a
  BY <1>1
<1>3. Windows(x, w, dilation, padding, step) = Cardinality({p \in 0..size : p * step + span < size})
  BY DEF Windows
<1>4. span < size
  OBVIOUS
<1>5. size \in Int
  OBVIOUS
<1> HIDE DEF span, size
<1>6. a \in Nat /\ a <= size
  BY <1>1, <1>4, <1>5
<1>7. \A p \in Nat : p * step \in Nat
  OBVIOUS
<1>8. \A p \in Nat : p * step + span < size <=> p * step <= a
  BY <1>1, <1>5, <1>7
<1> HIDE DEF a
<1>9. q \in Nat /\ q <= a /\ \A p \in Nat : p * step <= a <=> p <= q
  BY <1>6, MultiplesUpTo
<1>10. TruncDiv(a, step) = q
  BY <1>6 DEF TruncDiv
<1> HIDE DEF q
<1>11. {p \in 0..size : p * step + span < size} = 0..q
  <2>1. ASSUME NEW p \in 0..size, p * step + span < size PROVE p \in 0..q
    BY <1>5, <1>8, <1>9, <2>1
  <2>2. ASSUME NEW p \in 0..q PROVE p \in 0..size /\ p * step + span < size
    <3>1. p \in Nat /\ p <= q
      BY <1>9
    <3>2. p * step + span < size
      BY <1>8, <1>9, <3>1
    <3>3. p <= size
      BY <1>5, <1>6, <1>9, <3>1
    <3> QED BY <1>5, <3>1, <3>2, <3>3
  <2> QED BY <2>1, <2>2
<1>12. Cardinality(0..q) = q + 1
  BY <1>9, FS_Interval
<1>13. Windows(x, w, dilation, padding, step) = q + 1
  BY <1>3, <1>11, <1>12
<1>14. TruncDiv(x - (w - 1) * dilation + 2 * padding - 1, step) = q
  BY <1>2, <1>10
<1>15. q + 1 = 1 + q
  BY <1>9
<1> QED BY <1>13, <1>14, <1>15 DEF ConvExtent

\* The number of groups that the checks found.
LEMMA GroupsFound ==
  ASSUME NEW in \in Int, NEW out \in Int, NEW filter \in Int, GroupsValid(in, out, filter)
  PROVE  \E groups \in 1..in : in = groups * filter /\ out % groups = 0
<1> DEFINE groups == in \div filter
<1>1. filter > 0 /\ in % filter = 0 /\ groups \in 1..in /\ out % groups = 0
  BY DEF GroupsValid
<1>2. in = filter * groups + (in % filter)
  <2>1. filter \in Nat \ {0} /\ in \in Nat
    BY <1>1
  <2> QED BY <2>1, DivMod
<1>3. groups \in Int
  BY <1>1
<1> HIDE DEF groups
<1>4. in = groups * filter
  BY <1>1, <1>2, <1>3
<1> QED BY <1>1, <1>4

\* What the two checks of a convolution's node say of the dims.
LEMMA ConvChecksFollow ==
  ASSUME NEW D, NEW node, NodeOf(D, node), node.kind \in {"fprop", "wgrad", "dgrad"},
         NEW x \in Seq(Int), NEW w \in Seq(Int), NEW y \in Seq(Int),
         Len(x) >= 3, Len(x) = Len(y), node.kind = "fprop" => Len(x) = Len(w),
         Len(node.padding) = Len(x) - 2, Len(node.dilation) = Len(x) - 2,
         Len(node.step) = Len(x) - 2,
         Len(w) >= 3,
         GroupsValid(x[2], w[1], w[2]), y = ConvShape(node, x, w)
  PROVE  ConvFollows(node, x, w, y)
<1> DEFINE n == Len(x)
           fits == \A i \in 3..n :
                     w[i] > 0 /\ (w[i] - 1) * node.dilation[i - 2] < x[i] + 2 * node.padding[i - 2]
<1>1. DOMAIN x = 1..n /\ n \in Nat /\ n >= 3
  BY SeqParts
<1>2. \A i \in 1..n : x[i] \in Int
  BY SeqParts
<1>3. \A i \in 1..Len(w) : w[i] \in Int
  BY SeqParts
<1>4. Len(w) \in Nat
  BY SeqParts
<1>0. 1 \in 1..n /\ 2 \in 1..n
  <2> HIDE DEF n
  <2> QED BY <1>1
<1>5. y[1] = x[1] /\ y[2] = w[1] /\ \A i \in 3..n : y[i] = AxisOf(node, x, w, i)
  <2> HIDE DEF n
  <2>1. n \in Nat /\ n >= 3 /\ DOMAIN x = 1..n
    BY <1>1
  <2>2. /\ ConvShape(node, x, w)[1] = x[1] /\ ConvShape(node, x, w)[2] = w[1]
        /\ \A i \in 3..n : ConvShape(node, x, w)[i] = AxisOf(node, x, w, i)
    BY ONLY <2>1, ConvShapeIs
  <2> QED BY <2>2
<1>7. \E groups \in 1..x[2] : x[2] = groups * w[2] /\ w[1] % groups = 0
  <2>1. x[2] \in Int
    BY <1>0, <1>2
  <2>2. w[1] \in Int /\ w[2] \in Int
    BY <1>3, <1>4
  <2> QED BY <2>1, <2>2, GroupsFound
<1>8. \A i \in 1..n - 2 : node.padding[i] \in Nat /\ node.dilation[i] \in Nat /\ node.step[i] \in Nat \ {0}
  <2>1. /\ node.padding \in Seq(Nat) /\ node.dilation \in Seq(Nat)
        /\ node.step \in Seq(Nat \ {0})
    BY DEF NodeOf
  <2>2. Len(node.padding) = n - 2 /\ Len(node.dilation) = n - 2 /\ Len(node.step) = n - 2
    OBVIOUS
  <2> HIDE DEF n
  <2> QED BY <2>1, <2>2, SeqParts
<1>9. ASSUME n <= Len(w), fits, NEW i \in 3..n
      PROVE  y[i] = Windows(x[i], w[i], node.dilation[i - 2], node.padding[i - 2], node.step[i - 2])
  <2>1. w[i] > 0 /\ (w[i] - 1) * node.dilation[i - 2] < x[i] + 2 * node.padding[i - 2]
    BY <1>9
  <2> HIDE DEF n
  <2>2. i \in 1..n /\ i \in 1..Len(w) /\ i - 2 \in 1..n - 2 /\ i # 1 /\ i # 2
    BY <1>1, <1>4, <1>9
  <2>3. x[i] \in Int /\ w[i] \in Int
    BY <1>2, <1>3, <2>2
  <2>4. w[i] \in Nat \ {0}
    <3>1. \A k \in Int : k > 0 => k \in Nat \ {0}
      OBVIOUS
    <3> QED BY <2>1, <2>3, <3>1
  <2>5. node.padding[i - 2] \in Nat /\ node.dilation[i - 2] \in Nat /\ node.step[i - 2] \in Nat \ {0}
    BY <1>8, <2>2
  <2>6. y[i] = ConvExtent(x[i], w[i], node.dilation[i - 2], node.padding[i - 2], node.step[i - 2])
    BY <1>5, <1>9 DEF AxisOf
  <2>7. Windows(x[i], w[i], node.dilation[i - 2], node.padding[i - 2], node.step[i - 2])
          = ConvExtent(x[i], w[i], node.dilation[i - 2], node.padding[i - 2], node.step[i - 2])
    <3> DEFINE a == x[i]
               b == w[i]
               c == node.dilation[i - 2]
               d == node.padding[i - 2]
               e == node.step[i - 2]
    <3>1. a \in Int /\ b \in Nat \ {0} /\ c \in Nat /\ d \in Nat /\ e \in Nat \ {0}
      BY <2>3, <2>4, <2>5
    <3>2. (b - 1) * c < a + 2 * d
      BY <2>1
    <3> HIDE DEF a, b, c, d, e
    <3>3. Windows(a, b, c, d, e) = ConvExtent(a, b, c, d, e)
      BY <3>1, <3>2, WindowsAre
    <3> QED BY <3>3 DEF a, b, c, d, e
  <2> QED BY <2>6, <2>7
<1>10. n <= Len(w) /\ fits =>
         \A i \in 3..n :
           y[i] = Windows(x[i], w[i], node.dilation[i - 2], node.padding[i - 2], node.step[i - 2])
  BY <1>9
<1> QED BY <1>5, <1>7, <1>10 DEF ConvFollows

-----------------------------------------------------------------------------
(* Shapes of products                                                      *)

\* At every axis a shape has the only size that is not 1.
SizesAre(shapes, rank, shape) ==
  \A i \in 1..rank : SizesAt(shapes, rank, i) = {shape[i]} \ {1}

\* A shape is the broadcast one when at every axis it has the only size that is not 1.
LEMMA BroadcastIs ==
  ASSUME NEW shapes, shapes # {}, <<>> \notin shapes, NEW rank, rank = RankOf(shapes),
         NEW shape, shape = [i \in 1..rank |-> shape[i]],
         SizesAre(shapes, rank, shape)
  PROVE  BroadcastShape(shapes) = shape
<1>1. {s \in shapes : s # <<>>} = shapes
  OBVIOUS
<1> DEFINE value(i) == IF SizesAt(shapes, rank, i) = {} THEN 1
                       ELSE CHOOSE d \in SizesAt(shapes, rank, i) : TRUE
<1>2. BroadcastShape(shapes) =
        IF shapes = {} \/ \E i \in 1..rank : Cardinality(SizesAt(shapes, rank, i)) > 1
          THEN <<>> ELSE [i \in 1..rank |-> value(i)]
  <2> DEFINE filtered == {s \in shapes : s # <<>>}
             r == RankOf(filtered)
  <2>1. BroadcastShape(shapes) =
          IF filtered = {} \/ \E i \in 1..r : Cardinality(SizesAt(filtered, r, i)) > 1
            THEN <<>>
            ELSE [i \in 1..r |->
                    IF SizesAt(filtered, r, i) = {} THEN 1
                    ELSE CHOOSE d \in SizesAt(filtered, r, i) : TRUE]
    BY BroadcastUnfolds
  <2>2. filtered = shapes /\ r = rank
    BY <1>1
  <2> HIDE DEF filtered, r
  <2> QED BY <2>1, <2>2
<1>3. ASSUME NEW i \in 1..rank
      PROVE  /\ Cardinality(SizesAt(shapes, rank, i)) \in {0, 1}
             /\ value(i) = shape[i]
  <2>1. SizesAt(shapes, rank, i) = {shape[i]} \ {1}
    BY DEF SizesAre
  <2>2. CASE shape[i] = 1
    <3>1. SizesAt(shapes, rank, i) = {}
      BY <2>1, <2>2
    <3> QED BY <2>2, <3>1, FS_EmptySet
  <2>3. CASE shape[i] # 1
    <3>1. SizesAt(shapes, rank, i) = {shape[i]}
      BY <2>1, <2>3
    <3>2. (CHOOSE d \in {shape[i]} : TRUE) = shape[i]
      OBVIOUS
    <3> QED BY <3>1, <3>2, FS_Singleton
  <2> QED BY <2>2, <2>3
<1>4. ~ \E i \in 1..rank : Cardinality(SizesAt(shapes, rank, i)) > 1
  BY <1>3
<1> HIDE DEF value
<1>5. BroadcastShape(shapes) = [i \in 1..rank |-> value(i)]
  BY <1>2, <1>4
<1>6. [i \in 1..rank |-> value(i)] = [i \in 1..rank |-> shape[i]]
  BY <1>3
<1> QED BY <1>5, <1>6

\* The size of a shape at an axis, counted from the last one, if it has it.
SizeAt(s, n, i) == IF i > n - Len(s) THEN {s[i - n + Len(s)]} ELSE {}

\* The shapes are two of full rank n, one of rank 2 and one of rank 1.
FourShapes(shapes, n, s1, s2, s3, s4) ==
  /\ shapes = {s1, s2, s3, s4}
  /\ Len(s1) = n /\ Len(s2) = n /\ Len(s3) = 2 /\ Len(s4) = 1

FourSizesAt(shapes, n, s1, s2, s3, s4, i) ==
  SizesAt(shapes, n, i) = ({s1[i], s2[i]} \cup SizeAt(s3, n, i) \cup SizeAt(s4, n, i)) \ {1}

\* Two shapes of full rank, one of the last two axes and one of the last.
LEMMA FourSizes ==
  ASSUME NEW n \in Nat, NEW i \in 1..n, NEW shapes, NEW s1, NEW s2, NEW s3, NEW s4,
         FourShapes(shapes, n, s1, s2, s3, s4)
  PROVE  FourSizesAt(shapes, n, s1, s2, s3, s4, i)
<1>0. /\ shapes = {s1, s2, s3, s4}
      /\ Len(s1) = n /\ Len(s2) = n /\ Len(s3) = 2 /\ Len(s4) = 1
  BY DEF FourShapes
<1> DEFINE used == {s \in shapes : i > n - Len(s)}
           third == IF i > n - 2 THEN {s3} ELSE {}
           fourth == IF i > n - 1 THEN {s4} ELSE {}
<1>1. i > n - n /\ i - n + n = i
  OBVIOUS
<1>2. used = {s1, s2} \cup third \cup fourth
  BY <1>0, <1>1
<1>3. SizesAt(shapes, n, i) = {s[i - n + Len(s)] : s \in used} \ {1}
  BY DEF SizesAt
<1> HIDE DEF used
<1>4. {s[i - n + Len(s)] : s \in used}
        = {s1[i], s2[i]} \cup {s[i - n + Len(s)] : s \in third} \cup {s[i - n + Len(s)] : s \in fourth}
  <2>1. s1[i - n + Len(s1)] = s1[i] /\ s2[i - n + Len(s2)] = s2[i]
    BY <1>0, <1>1
  <2> HIDE DEF third, fourth
  <2> QED BY <1>2, <2>1
<1>5. {s[i - n + Len(s)] : s \in third} = IF i > n - 2 THEN {s3[i - n + 2]} ELSE {}
  BY <1>0
<1>7. SizeAt(s3, n, i) = IF i > n - 2 THEN {s3[i - n + 2]} ELSE {}
  BY <1>0 DEF SizeAt
<1>8. SizeAt(s4, n, i) = IF i > n - 1 THEN {s4[i - n + 1]} ELSE {}
  BY <1>0 DEF SizeAt
<1>6. {s[i - n + Len(s)] : s \in fourth} = IF i > n - 1 THEN {s4[i - n + 1]} ELSE {}
  BY <1>0
<1>9. SizesAt(shapes, n, i) = ({s1[i], s2[i]} \cup SizeAt(s3, n, i) \cup SizeAt(s4, n, i)) \ {1}
  BY <1>3, <1>4, <1>5, <1>6, <1>7, <1>8, Zenon
<1> QED BY <1>9 DEF FourSizesAt

LEMMA Beginning ==
  ASSUME NEW s \in Seq(Int), NEW n \in Nat, n <= Len(s)
  PROVE  /\ SubSeq(s, 1, n) \in Seq(Int) /\ Len(SubSeq(s, 1, n)) = n
         /\ \A i \in 1..n : SubSeq(s, 1, n)[i] = s[i]
OBVIOUS

\* A shape whose last two axes are replaced by units.
LEMMA UnitsBehind ==
  ASSUME NEW a \in Seq(Int), NEW n \in Nat, n = Len(a), n >= 2
  PROVE  LET s == SubSeq(a, 1, n - 2) \o <<1, 1>>
         IN  /\ Len(s) = n /\ s # <<>>
             /\ \A i \in 1..n - 2 : s[i] = a[i]
             /\ s[n - 1] = 1 /\ s[n] = 1
<1> DEFINE batch == SubSeq(a, 1, n - 2)
           s == batch \o <<1, 1>>
<1>1. n \in Nat /\ n >= 2
  OBVIOUS
<1>2. batch \in Seq(Int) /\ Len(batch) = n - 2 /\ \A i \in 1..n - 2 : batch[i] = a[i]
  <2>1. n - 2 \in Nat /\ n - 2 <= n
    BY <1>1
  <2> QED BY <2>1, Beginning
<1> HIDE DEF batch
<1>3. <<1, 1>> \in Seq(Int) /\ Len(<<1, 1>>) = 2
  OBVIOUS
<1>4. Len(s) = n /\ \A i \in 1..n : s[i] = IF i <= n - 2 THEN batch[i] ELSE <<1, 1>>[i - (n - 2)]
  BY <1>1, <1>2
<1>5. n - 1 - (n - 2) = 1 /\ n - (n - 2) = 2 /\ n - 1 \in 1..n /\ n \in 1..n
        /\ ~(n - 1 <= n - 2) /\ ~(n <= n - 2)
  BY <1>1
<1>6. <<1, 1>>[1] = 1 /\ <<1, 1>>[2] = 1
  OBVIOUS
<1> HIDE DEF s
<1>7. s[n - 1] = 1 /\ s[n] = 1
  BY <1>4, <1>5, <1>6
<1>8. \A i \in 1..n - 2 : s[i] = a[i]
  <2>1. \A i \in 1..n - 2 : i \in 1..n /\ i <= n - 2
    BY <1>1
  <2> QED BY <1>2, <1>4, <2>1
<1>9. s # <<>>
  BY <1>1, <1>4
<1> QED BY <1>4, <1>7, <1>8, <1>9 DEF s, batch

Larger(x, y) == IF x >= y THEN x ELSE y

\* The sizes of c, a product of shapes of rank n.
MatmulSizes(a, b, n, c) ==
  /\ c = [i \in 1..n |-> c[i]]
  /\ \A i \in 1..n - 2 : c[i] = Larger(a[i], b[i])
  /\ c[n - 1] = a[n - 1]
  /\ c[n] = b[n]

LEMMA MatmulShapeIs ==
  ASSUME NEW a, NEW b, NEW n \in Nat, Len(a) = n, DOMAIN a = 1..n, n >= 2
  PROVE  MatmulSizes(a, b, n, MatmulShape(a, b))
<1>1. MatmulShape(a, b)
        = [i \in 1..n |-> CASE i = n -> b[i] [] i = n - 1 -> a[i]
                            [] OTHER -> Larger(a[i], b[i])]
  BY DEF MatmulShape, Larger
<1>2. /\ n - 1 \in 1..n /\ n - 1 # n /\ n \in 1..n
      /\ \A i \in 1..n - 2 : i \in 1..n /\ i # n /\ i # n - 1
  OBVIOUS
<1> QED BY <1>1, <1>2 DEF MatmulSizes

\* The larger of two sizes that broadcast is the only one that is not 1.
LEMMA LargerOf ==
  ASSUME NEW x \in Int, NEW y \in Int, x = y \/ (1 \in {x, y} /\ x > 0 /\ y > 0)
  PROVE  {x, y} \ {1} = {Larger(x, y)} \ {1}
BY DEF Larger

LEMMA FourAreFinite ==
  ASSUME NEW x, NEW y, NEW z, NEW u
  PROVE  IsFiniteSet({x, y, z, u})
<1>1. IsFiniteSet({x}) /\ IsFiniteSet({y}) /\ IsFiniteSet({z}) /\ IsFiniteSet({u})
  BY FS_Singleton
<1> DEFINE p == {x}
           q == p \cup {y}
           r == q \cup {z}
<1>2. IsFiniteSet(q)
  <2> HIDE DEF p
  <2> QED BY <1>1, FS_AddElement DEF p
<1>3. IsFiniteSet(r)
  <2> HIDE DEF q
  <2> QED BY <1>2, FS_AddElement
<1>4. IsFiniteSet(r \cup {u})
  <2> HIDE DEF r
  <2> QED BY <1>3, FS_AddElement
<1>5. r \cup {u} = {x, y, z, u}
  OBVIOUS
<1> HIDE DEF r
<1> QED BY <1>4, <1>5

\* The shape of a product is a broadcast one where batch dims broadcast.
LEMMA MatmulIsBroadcast ==
  ASSUME NEW a \in Seq(Int), NEW b \in Seq(Int), Len(a) >= 2, Len(b) = Len(a)
  PROVE  MatmulFollows(a, b, MatmulShape(a, b))
<1> DEFINE n == Len(a)
           s1 == SubSeq(a, 1, n - 2) \o <<1, 1>>
           s2 == SubSeq(b, 1, n - 2) \o <<1, 1>>
           s3 == <<a[n - 1], 1>>
           s4 == <<b[n]>>
           shapes == {s1, s2, s3, s4}
           c == MatmulShape(a, b)
<1> SUFFICES ASSUME \A i \in 1..n - 2 : a[i] = b[i] \/ (1 \in {a[i], b[i]} /\ a[i] > 0 /\ b[i] > 0)
             PROVE  c = BroadcastShape(shapes)
  BY DEF MatmulFollows
<1>1. n \in Nat /\ n >= 2 /\ DOMAIN a = 1..n
  BY SeqParts
<1>2. \A i \in 1..n : a[i] \in Int /\ b[i] \in Int
  BY SeqParts
<1>3. /\ Len(s1) = n /\ s1 # <<>>
      /\ \A i \in 1..n - 2 : s1[i] = a[i]
      /\ s1[n - 1] = 1 /\ s1[n] = 1
  <2>1. n = Len(a)
    OBVIOUS
  <2> HIDE DEF n
  <2> QED BY <1>1, <2>1, UnitsBehind
<1>4. /\ Len(s2) = n /\ s2 # <<>>
      /\ \A i \in 1..n - 2 : s2[i] = b[i]
      /\ s2[n - 1] = 1 /\ s2[n] = 1
  <2>1. n = Len(b)
    OBVIOUS
  <2> HIDE DEF n
  <2> QED BY <1>1, <2>1, UnitsBehind
<1>5. Len(s3) = 2 /\ s3[1] = a[n - 1] /\ s3[2] = 1 /\ s3 # <<>>
  OBVIOUS
<1>6. Len(s4) = 1 /\ s4[1] = b[n] /\ s4 # <<>>
  OBVIOUS
<1>7. s1 \in Seq(Int) /\ s2 \in Seq(Int) /\ s3 \in Seq(Int) /\ s4 \in Seq(Int)
  <2>1. \A s \in Seq(Int), k \in Nat : k <= Len(s) => SubSeq(s, 1, k) \in Seq(Int)
    BY Beginning
  <2>2. n - 2 \in Nat /\ n - 2 <= Len(a) /\ n - 2 <= Len(b)
    BY <1>1
  <2>3. SubSeq(a, 1, n - 2) \in Seq(Int) /\ SubSeq(b, 1, n - 2) \in Seq(Int)
    BY <2>1, <2>2
  <2>4. <<1, 1>> \in Seq(Int)
    OBVIOUS
  <2>5. n - 1 \in 1..n /\ n \in 1..n
    BY <1>1
  <2>6. a[n - 1] \in Int /\ b[n] \in Int
    BY <1>2, <2>5
  <2> HIDE DEF n
  <2>7. <<a[n - 1], 1>> \in Seq(Int) /\ <<b[n]>> \in Seq(Int)
    BY <2>6
  <2>8. \A s, t \in Seq(Int) : s \o t \in Seq(Int)
    OBVIOUS
  <2> QED BY <2>3, <2>4, <2>7, <2>8
<1>8. \A i \in 1..n - 2 : a[i] = b[i] \/ (1 \in {a[i], b[i]} /\ a[i] > 0 /\ b[i] > 0)
  OBVIOUS
<1>9. /\ c = [i \in 1..n |-> c[i]]
      /\ \A i \in 1..n - 2 : c[i] = Larger(a[i], b[i])
      /\ c[n - 1] = a[n - 1] /\ c[n] = b[n]
  <2>1. n = Len(a) /\ n \in Nat /\ n >= 2 /\ DOMAIN a = 1..n
    BY <1>1
  <2> HIDE DEF n
  <2>2. MatmulSizes(a, b, n, MatmulShape(a, b))
    BY <2>1, MatmulShapeIs
  <2> QED BY <2>2 DEF MatmulSizes
<1> HIDE DEF n, s1, s2, s3, s4, c
<1>10. RankOf(shapes) = n
  <2>1. IsFiniteSet(shapes)
    BY FourAreFinite
  <2>2. shapes \in SUBSET Seq(Int) /\ shapes # {}
    BY <1>7
  <2>3. {Len(s) : s \in shapes} = {n, 2, 1}
    BY <1>3, <1>4, <1>5, <1>6
  <2> HIDE DEF shapes
  <2>4. RankOf(shapes) \in {n, 2, 1} /\ \A s \in shapes : Len(s) <= RankOf(shapes)
    BY <2>1, <2>2, <2>3, BroadcastRank
  <2>5. n <= RankOf(shapes)
    BY <1>3, <2>4 DEF shapes
  <2> QED BY <1>1, <2>4, <2>5
<1>11. ASSUME NEW i \in 1..n
       PROVE  SizesAt(shapes, n, i) = {c[i]} \ {1}
  <2> DEFINE third == SizeAt(s3, n, i)
             fourth == SizeAt(s4, n, i)
  <2>1. SizesAt(shapes, n, i) = ({s1[i], s2[i]} \cup third \cup fourth) \ {1}
    <3>1. FourShapes(shapes, n, s1, s2, s3, s4)
      BY <1>3, <1>4, <1>5, <1>6 DEF FourShapes
    <3> HIDE DEF shapes
    <3>2. FourSizesAt(shapes, n, s1, s2, s3, s4, i)
      BY <1>1, <3>1, FourSizes
    <3> QED BY <3>2 DEF FourSizesAt
  <2>2. CASE i \in 1..n - 2
    <3>1. i <= n - 2 /\ i <= n - 1
      BY <1>1, <2>2
    <3>2. third = {} /\ fourth = {}
      BY <1>1, <1>5, <1>6, <3>1 DEF SizeAt
    <3> HIDE DEF third, fourth
    <3>3. SizesAt(shapes, n, i) = {a[i], b[i]} \ {1}
      BY <1>3, <1>4, <2>1, <2>2, <3>2
    <3>4. {a[i], b[i]} \ {1} = {Larger(a[i], b[i])} \ {1}
      BY <1>2, <1>8, <2>2, LargerOf
    <3> QED BY <1>9, <2>2, <3>3, <3>4
  <2>3. CASE i = n - 1
    <3>1. i > n - 2 /\ ~(i > n - 1) /\ i - n + 2 = 1
      BY <1>1, <2>3
    <3>2. third = {a[n - 1]} /\ fourth = {}
      BY <1>5, <1>6, <3>1 DEF SizeAt
    <3> HIDE DEF third, fourth
    <3>3. ({s1[i], s2[i]} \cup third \cup fourth) \ {1} = {a[n - 1]} \ {1}
      BY <1>3, <1>4, <2>3, <3>2
    <3> QED BY <1>9, <2>1, <2>3, <3>3
  <2>4. CASE i = n
    <3>1. i > n - 2 /\ i > n - 1 /\ i - n + 2 = 2 /\ i - n + 1 = 1
      BY <1>1, <2>4
    <3>2. third = {1} /\ fourth = {b[n]}
      BY <1>5, <1>6, <3>1 DEF SizeAt
    <3> HIDE DEF third, fourth
    <3>3. ({s1[i], s2[i]} \cup third \cup fourth) \ {1} = {b[n]} \ {1}
      BY <1>3, <1>4, <2>4, <3>2
    <3> QED BY <1>9, <2>1, <2>4, <3>3
  <2>5. i \in 1..n - 2 \/ i = n - 1 \/ i = n
    BY <1>1
  <2> QED BY <2>2, <2>3, <2>4, <2>5
<1>12. shapes # {} /\ <<>> \notin shapes
  BY <1>3, <1>4, <1>5, <1>6
<1> HIDE DEF shapes
<1>13. n = RankOf(shapes) /\ c = [i \in 1..n |-> c[i]]
         /\ SizesAre(shapes, n, c)
  BY <1>9, <1>10, <1>11 DEF SizesAre
<1> QED BY ONLY <1>12, <1>13, BroadcastIs

-----------------------------------------------------------------------------
(* The shapes of an accepted graph                                         *)

\* The ports whose dims a node's shapes relate.
ShapedPorts(node) ==
  CASE node.kind = "fprop"  -> {"X", "W", "Y"}
    [] node.kind = "wgrad"  -> {"X", "DW", "DY"}
    [] node.kind = "dgrad"  -> {"DX", "W", "DY"}
    [] node.kind = "matmul" -> {"A", "B", "C"}
    [] node.kind = "reduction" -> {"X", "Y"}
    [] node.kind \in {"layernorm", "rmsnorm", "batchnorm"} -> {"X"} \cup InferredPorts(node)
    [] node.kind = "sdpa"   -> {"Q", "V", "O"}
    [] OTHER -> {}

\* The shapes follow, and no later node can set one of them.
Sound(node, ts) ==
  /\ Follows(node, ts)
  /\ \A p \in ShapedPorts(node) : Port(node, ts, p).dim # <<>>

SameDims(node, ts, us) ==
  \A p \in ShapedPorts(node) : Port(node, us, p).dim = Port(node, ts, p).dim

LEMMA FollowsByDims ==
  ASSUME NEW node, NEW ts, NEW us, SameDims(node, ts, us), Follows(node, ts)
  PROVE  Follows(node, us)
<1>1. CASE node.kind = "fprop"
  <2>1. /\ Port(node, us, "X").dim = Port(node, ts, "X").dim
        /\ Port(node, us, "W").dim = Port(node, ts, "W").dim
        /\ Port(node, us, "Y").dim = Port(node, ts, "Y").dim
    BY <1>1 DEF SameDims, ShapedPorts
  <2> QED BY <1>1, <2>1 DEF Follows
<1>2. CASE node.kind = "wgrad"
  <2>1. /\ Port(node, us, "X").dim = Port(node, ts, "X").dim
        /\ Port(node, us, "DW").dim = Port(node, ts, "DW").dim
        /\ Port(node, us, "DY").dim = Port(node, ts, "DY").dim
    BY <1>2 DEF SameDims, ShapedPorts
  <2> QED BY <1>2, <2>1 DEF Follows
<1>3. CASE node.kind = "dgrad"
  <2>1. /\ Port(node, us, "DX").dim = Port(node, ts, "DX").dim
        /\ Port(node, us, "W").dim = Port(node, ts, "W").dim
        /\ Port(node, us, "DY").dim = Port(node, ts, "DY").dim
    BY <1>3 DEF SameDims, ShapedPorts
  <2> QED BY <1>3, <2>1 DEF Follows
<1>4. CASE node.kind = "matmul"
  <2>1. /\ Port(node, us, "A").dim = Port(node, ts, "A").dim
        /\ Port(node, us, "B").dim = Port(node, ts, "B").dim
        /\ Port(node, us, "C").dim = Port(node, ts, "C").dim
    BY <1>4 DEF SameDims, ShapedPorts
  <2> QED BY <1>4, <2>1 DEF Follows
<1>5. CASE node.kind \in {"layernorm", "rmsnorm", "batchnorm"}
  <2>1. /\ Port(node, us, "X").dim = Port(node, ts, "X").dim
        /\ \A p \in InferredPorts(node) : Port(node, us, p).dim = Port(node, ts, p).dim
    BY <1>5 DEF SameDims, ShapedPorts
  <2>2. \A p \in InferredPorts(node) :
          Port(node, ts, p).dim = NormDim(node, p, Port(node, ts, "X").dim)
    BY <1>5 DEF Follows
  <2>3. \A p \in InferredPorts(node) :
          Port(node, us, p).dim = NormDim(node, p, Port(node, us, "X").dim)
    BY <2>1, <2>2
  <2> QED BY <1>5, <2>3 DEF Follows
<1>6. CASE node.kind = "sdpa"
  <2>1. /\ Port(node, us, "Q").dim = Port(node, ts, "Q").dim
        /\ Port(node, us, "V").dim = Port(node, ts, "V").dim
        /\ Port(node, us, "O").dim = Port(node, ts, "O").dim
    BY <1>6 DEF SameDims, ShapedPorts
  <2> QED BY <1>6, <2>1 DEF Follows
<1>7. CASE node.kind = "reduction"
  <2>1. /\ Port(node, us, "X").dim = Port(node, ts, "X").dim
        /\ Port(node, us, "Y").dim = Port(node, ts, "Y").dim
    BY <1>7 DEF SameDims, ShapedPorts
  <2>2. ReductionFollows(Port(node, ts, "X").dim, Port(node, ts, "Y").dim)
    BY <1>7 DEF Follows
  <2> QED BY <1>7, <2>1, <2>2 DEF Follows
<1>8. CASE node.kind \notin {"fprop", "wgrad", "dgrad", "matmul", "reduction", "layernorm",
                             "rmsnorm", "batchnorm", "sdpa"}
  BY <1>8 DEF Follows
<1> QED BY <1>1, <1>2, <1>3, <1>4, <1>5, <1>6, <1>7, <1>8

LEMMA ShapedPortsAreThere ==
  ASSUME NEW D, NEW node, NodeOf(D, node)
  PROVE  ShapedPorts(node) \subseteq DOMAIN node.port
BY KindPorts DEF ShapedPorts, InferredPorts

LEMMA SoundGrows ==
  ASSUME NEW D, NEW ts, NEW us, Grown(D, ts, us), NEW node, NodeOf(D, node), Sound(node, ts)
  PROVE  Sound(node, us)
<1>1. SameDims(node, ts, us)
  BY GrownPort, ShapedPortsAreThere DEF SameDims, Sound
<1>2. Follows(node, us)
  BY <1>1, FollowsByDims DEF Sound
<1> QED BY <1>1, <1>2 DEF Sound, SameDims

\* The dims of a gradient are not inferred.
LEMMA GradientNotInferred ==
  ASSUME NEW D, NEW ts \in [D -> Tensor], NEW node, NodeOf(D, node)
  PROVE  /\ node.kind = "wgrad" /\ Port(node, ts, "DW").dim = <<>> =>
              Port(node, ConvWGradInfer(node, ts), "DW").dim = <<>>
         /\ node.kind = "dgrad" /\ Port(node, ts, "DX").dim = <<>> =>
              Port(node, ConvDGradInfer(node, ts), "DX").dim = <<>>
<1> DEFINE x == Port(node, ts, "DY")
           stride == [i \in D |-> StrideLike(x, DimOr(ts[i], <<>>))]
<1>1. \A i \in D : stride[i] \in Seq(Int)
  <2> TAKE i \in D
  <2>1. DimOr(ts[i], <<>>) \in Seq(Int)
    BY DEF Tensor, DimOr
  <2> QED BY <2>1, StrideLikeType
<1>2. ASSUME NEW ids, NEW us, us = FilledAt(D, ts, ids, <<>>, stride)
      PROVE  \A i \in D : ts[i].dim = <<>> => us[i].dim = <<>>
  <2> DEFINE none == <<>>
  <2>1. none \in Seq(Int)
    OBVIOUS
  <2>2. us = FilledAt(D, ts, ids, none, stride)
    BY <1>2
  <2>3. \A i \in ids \cap D : stride[i] \in Seq(Int)
    BY <1>1
  <2> HIDE DEF stride, none
  <2>4. \A i \in D : ts[i].dim = <<>> => us[i].dim = <<>> \/ us[i].dim = none
    BY <2>1, <2>2, <2>3, FilledGrows
  <2> QED BY <2>4 DEF none
<1>3. ConvWGradInfer(node, ts) = FilledAt(D, ts, FilledPortsOf(node, {"DW"}), <<>>, stride)
  BY DEF ConvWGradInfer, Fill, FilledAt, FilledTensor, DimOr, FilledPortsOf
<1>4. ConvDGradInfer(node, ts) = FilledAt(D, ts, FilledPortsOf(node, {"DX"}), <<>>, stride)
  BY DEF ConvDGradInfer, Fill, FilledAt, FilledTensor, DimOr, FilledPortsOf
<1> HIDE DEF stride
<1>5. \A i \in D : ts[i].dim = <<>> =>
        ConvWGradInfer(node, ts)[i].dim = <<>> /\ ConvDGradInfer(node, ts)[i].dim = <<>>
  BY <1>2, <1>3, <1>4
<1>6. node.kind = "wgrad" => node.port["DW"] \in D
  BY KindPorts DEF NodeOf
<1>7. node.kind = "dgrad" => node.port["DX"] \in D
  BY KindPorts DEF NodeOf
<1> QED BY <1>5, <1>6, <1>7 DEF Port

\* Dims with a rank are set.
LEMMA LongIsSet == \A s : Len(s) >= 2 \/ Len(s) >= 3 => s # <<>>
OBVIOUS

LEMMA SecondOfShape ==
  ASSUME NEW node, NEW x \in Seq(Int), NEW w, Len(x) >= 3
  PROVE  ConvShape(node, x, w)[2] = w[1]
<1>1. DOMAIN x = 1..Len(x) /\ Len(x) \in Nat
  BY SeqParts
<1> QED BY <1>1, ConvShapeIs

\* A node that passes both checks.
LEMMA FPropIsSound ==
  ASSUME NEW D, NEW ts \in [D -> Tensor], NEW us, Grown(D, ts, us), NEW node, NodeOf(D, node),
         node.kind = "fprop", ConvFPropPre(node, ts), ConvFPropPost(node, us)
  PROVE  Sound(node, us)
<1> DEFINE x == Port(node, us, "X").dim
           w == Port(node, us, "W").dim
           y == Port(node, us, "Y").dim
<1>1. {"X", "W", "Y"} \subseteq DOMAIN node.port
  BY KindPorts
<1>2. x \in Seq(Int) /\ w \in Seq(Int) /\ y \in Seq(Int)
  BY <1>1, GrownPort
<1>3. /\ Port(node, ts, "X").dim # <<>> => x = Port(node, ts, "X").dim
      /\ Port(node, ts, "W").dim # <<>> => w = Port(node, ts, "W").dim
  BY <1>1, GrownPort
<1>4. Port(node, ts, "X").dim # <<>> /\ Port(node, ts, "W").dim # <<>>
  <2>1. Len(Port(node, ts, "X").dim) >= 3 /\ Len(Port(node, ts, "W").dim) >= 3
    BY DEF ConvFPropPre, ConvInputsValid
  <2> QED BY <2>1, LongIsSet
<1>5. /\ Len(x) >= 3 /\ Len(w) >= 3 /\ Len(x) = Len(w)
      /\ Len(node.padding) = Len(x) - 2 /\ Len(node.dilation) = Len(x) - 2
      /\ Len(node.step) = Len(x) - 2
      /\ GroupsValid(x[2], w[1], w[2])
  <2>1. x = Port(node, ts, "X").dim /\ w = Port(node, ts, "W").dim
    BY <1>3, <1>4
  <2> HIDE DEF x, w
  <2> QED BY <2>1 DEF ConvFPropPre, ConvInputsValid
<1>6. Len(x) = Len(y) /\ y = ConvShape(node, x, w)
  <2>1. Len(y) = Len(x)
    BY DEF ConvFPropPost
  <2>2. y = ConvShape(node, x, w)
    BY DEF ConvFPropPost, ConvResultValid
  <2> QED BY <2>1, <2>2
<1> HIDE DEF x, w, y
<1>7. ConvFollows(node, x, w, y)
  BY <1>2, <1>5, <1>6, ConvChecksFollow
<1>8. x # <<>> /\ w # <<>> /\ y # <<>>
  BY <1>2, <1>5, <1>6, LongIsSet
<1> QED BY <1>7, <1>8 DEF Sound, Follows, ShapedPorts, x, w, y

LEMMA WGradIsSound ==
  ASSUME NEW D, NEW ts \in [D -> Tensor], NEW us, Grown(D, ts, us), NEW node, NodeOf(D, node),
         node.kind = "wgrad", ConvWGradPre(node, ts), ConvWGradPost(node, us),
         Port(node, ts, "DW").dim = <<>> => Port(node, us, "DW").dim = <<>>
  PROVE  Sound(node, us)
<1> DEFINE x == Port(node, us, "X").dim
           w == Port(node, us, "DW").dim
           y == Port(node, us, "DY").dim
<1>1. {"X", "DW", "DY"} \subseteq DOMAIN node.port
  BY KindPorts
<1>2. x \in Seq(Int) /\ w \in Seq(Int) /\ y \in Seq(Int)
  BY <1>1, GrownPort
<1>3. /\ Port(node, ts, "X").dim # <<>> => x = Port(node, ts, "X").dim
      /\ Port(node, ts, "DW").dim # <<>> => w = Port(node, ts, "DW").dim
      /\ Port(node, ts, "DY").dim # <<>> => y = Port(node, ts, "DY").dim
  BY <1>1, GrownPort
<1>4. Port(node, ts, "X").dim # <<>> /\ Port(node, ts, "DY").dim # <<>>
  <2>1. Len(Port(node, ts, "X").dim) >= 3 /\ Len(Port(node, ts, "DY").dim) >= 3
    BY DEF ConvWGradPre, ConvInputsValid
  <2> QED BY <2>1, LongIsSet
<1>5. Len(w) >= 3 /\ y = ConvShape(node, x, w)
  <2>1. Len(w) >= 3
    BY DEF ConvWGradPost, ConvResultValid
  <2>2. y = ConvShape(node, x, w)
    BY DEF ConvWGradPost, ConvResultValid
  <2> QED BY <2>1, <2>2
<1>6. Port(node, ts, "DW").dim # <<>>
  BY <1>5, LongIsSet
<1>7. /\ Len(x) >= 3 /\ Len(x) = Len(y)
      /\ Len(node.padding) = Len(x) - 2 /\ Len(node.dilation) = Len(x) - 2
      /\ Len(node.step) = Len(x) - 2
      /\ GroupsValid(x[2], y[2], w[2])
  <2>1. x = Port(node, ts, "X").dim /\ w = Port(node, ts, "DW").dim /\ y = Port(node, ts, "DY").dim
    BY <1>3, <1>4, <1>6
  <2> HIDE DEF x, w, y
  <2> QED BY <2>1 DEF ConvWGradPre, ConvInputsValid
<1> HIDE DEF x, w, y
<1>8. y[2] = w[1]
  BY <1>2, <1>5, <1>7, SecondOfShape
<1>9. ConvFollows(node, x, w, y)
  BY <1>2, <1>5, <1>7, <1>8, ConvChecksFollow
<1>10. x # <<>> /\ w # <<>> /\ y # <<>>
  BY <1>2, <1>5, <1>7, LongIsSet
<1> QED BY <1>9, <1>10 DEF Sound, Follows, ShapedPorts, x, w, y

LEMMA DGradIsSound ==
  ASSUME NEW D, NEW ts \in [D -> Tensor], NEW us, Grown(D, ts, us), NEW node, NodeOf(D, node),
         node.kind = "dgrad", ConvDGradPre(node, ts), ConvDGradPost(node, us),
         Port(node, ts, "DX").dim = <<>> => Port(node, us, "DX").dim = <<>>
  PROVE  Sound(node, us)
<1> DEFINE x == Port(node, us, "DX").dim
           w == Port(node, us, "W").dim
           y == Port(node, us, "DY").dim
<1>1. {"DX", "W", "DY"} \subseteq DOMAIN node.port
  BY KindPorts
<1>2. x \in Seq(Int) /\ w \in Seq(Int) /\ y \in Seq(Int)
  BY <1>1, GrownPort
<1>3. /\ Port(node, ts, "DX").dim # <<>> => x = Port(node, ts, "DX").dim
      /\ Port(node, ts, "W").dim # <<>> => w = Port(node, ts, "W").dim
      /\ Port(node, ts, "DY").dim # <<>> => y = Port(node, ts, "DY").dim
  BY <1>1, GrownPort
<1>4. Port(node, ts, "W").dim # <<>> /\ Port(node, ts, "DY").dim # <<>>
  <2>1. Len(Port(node, ts, "W").dim) >= 3 /\ Len(Port(node, ts, "DY").dim) >= 3
    BY DEF ConvDGradPre, ConvInputsValid
  <2> QED BY <2>1, LongIsSet
<1>5. Len(x) >= 3 /\ Len(y) = Len(x) /\ y = ConvShape(node, x, w)
  <2>1. Len(x) >= 3
    BY DEF ConvDGradPost, ConvResultValid
  <2>2. y = ConvShape(node, x, w)
    BY DEF ConvDGradPost, ConvResultValid
  <2>3. Len(y) = Len(x)
    BY DEF ConvDGradPost
  <2> QED BY <2>1, <2>2, <2>3
<1>6. Port(node, ts, "DX").dim # <<>>
  BY <1>5, LongIsSet
<1>7. /\ Len(w) >= 3
      /\ Len(node.padding) = Len(y) - 2 /\ Len(node.dilation) = Len(y) - 2
      /\ Len(node.step) = Len(y) - 2
      /\ GroupsValid(x[2], w[1], w[2])
  <2>1. x = Port(node, ts, "DX").dim /\ w = Port(node, ts, "W").dim /\ y = Port(node, ts, "DY").dim
    BY <1>3, <1>4, <1>6
  <2> HIDE DEF x, w, y
  <2> QED BY <2>1 DEF ConvDGradPre, ConvInputsValid
<1> HIDE DEF x, w, y
<1>8. ConvFollows(node, x, w, y)
  BY <1>2, <1>5, <1>7, ConvChecksFollow
<1>9. x # <<>> /\ w # <<>> /\ y # <<>>
  BY <1>2, <1>5, <1>7, LongIsSet
<1> QED BY <1>8, <1>9 DEF Sound, Follows, ShapedPorts, x, w, y

LEMMA MatmulIsSound ==
  ASSUME NEW D, NEW ts \in [D -> Tensor], NEW us, Grown(D, ts, us), NEW node, NodeOf(D, node),
         node.kind = "matmul", MatmulPre(node, ts), MatmulPost(node, us)
  PROVE  Sound(node, us)
<1> DEFINE a == Port(node, us, "A").dim
           b == Port(node, us, "B").dim
           c == Port(node, us, "C").dim
<1>1. {"A", "B", "C"} \subseteq DOMAIN node.port
  BY KindPorts
<1>2. a \in Seq(Int) /\ b \in Seq(Int)
  BY <1>1, GrownPort
<1>3. /\ Port(node, ts, "A").dim # <<>> => a = Port(node, ts, "A").dim
      /\ Port(node, ts, "B").dim # <<>> => b = Port(node, ts, "B").dim
  BY <1>1, GrownPort
<1>4. /\ Len(Port(node, ts, "A").dim) >= 2
      /\ Len(Port(node, ts, "B").dim) = Len(Port(node, ts, "A").dim)
  BY DEF MatmulPre
<1>5. Port(node, ts, "A").dim # <<>> /\ Port(node, ts, "B").dim # <<>>
  BY <1>4, LongIsSet
<1>6. Len(a) >= 2 /\ Len(b) = Len(a)
  <2>1. a = Port(node, ts, "A").dim /\ b = Port(node, ts, "B").dim
    BY <1>3, <1>5
  <2> HIDE DEF a, b
  <2> QED BY <1>4, <2>1
<1>7. Len(c) >= 2 /\ c = MatmulShape(a, b)
  BY DEF MatmulPost
<1> HIDE DEF a, b, c
<1>8. MatmulFollows(a, b, c)
  BY <1>2, <1>6, <1>7, MatmulIsBroadcast
<1>9. a # <<>> /\ b # <<>> /\ c # <<>>
  BY <1>6, <1>7, LongIsSet
<1> QED BY <1>8, <1>9 DEF Sound, Follows, ShapedPorts, a, b, c

\* Each axis of a reduction's output has its input's size or one element.
LEMMA ReductionIsSound ==
  ASSUME NEW D, NEW ts \in [D -> Tensor], NEW us, Grown(D, ts, us), NEW node, NodeOf(D, node),
         node.kind = "reduction", ReductionPre(node, ts), ReductionPost(node, us)
  PROVE  Sound(node, us)
<1> DEFINE x == Port(node, us, "X").dim
           y == Port(node, us, "Y").dim
           reduced == {i \in DOMAIN x : y[i] = 1}
<1>1. {"X", "Y"} \subseteq DOMAIN node.port
  BY KindPorts
<1>2. x \in Seq(Int) /\ y \in Seq(Int) /\ x # <<>>
  BY <1>1, GrownPort DEF ReductionPre
<1>3. /\ Len(x) = Len(y)
      /\ \A i \in DOMAIN x : y[i] \in {1, x[i]}
      /\ \E i \in DOMAIN x : y[i] = 1 /\ x[i] > 1
  BY DEF ReductionPost
<1> HIDE DEF x, y
<1>4. DOMAIN y = DOMAIN x
  BY <1>2, <1>3, SeqParts
<1>5. y = [i \in DOMAIN x |-> IF i \in reduced THEN 1 ELSE x[i]]
  <2>1. y = [i \in DOMAIN x |-> y[i]]
    BY <1>2, <1>4
  <2>2. \A i \in DOMAIN x : y[i] = IF i \in reduced THEN 1 ELSE x[i]
    BY <1>3
  <2> QED BY <2>1, <2>2
<1>6. reduced \in SUBSET DOMAIN x /\ \E i \in reduced : x[i] > 1
  BY <1>3
<1>7. ReductionFollows(x, y)
  BY <1>5, <1>6 DEF ReductionFollows
<1>8. y # <<>>
  <2>1. DOMAIN <<>> = {}
    OBVIOUS
  <2> QED BY <1>3, <1>4, <2>1
<1> QED BY <1>2, <1>7, <1>8 DEF Sound, Follows, ShapedPorts, x, y

\* The shape of a norm's port is never empty.
LEMMA NormDimIsSet ==
  ASSUME NEW node, NEW p, NEW x \in Seq(Int), Len(x) >= 2
  PROVE  NormDim(node, p, x) # <<>>
<1>1. DOMAIN x = 1..Len(x) /\ Len(x) \in Nat
  BY SeqParts
<1>2. 1 \in DOMAIN x /\ DOMAIN <<>> = {}
  BY <1>1
<1>3. CASE NormDim(node, p, x) = x
  BY <1>2, <1>3
<1>4. CASE NormDim(node, p, x) = <<x[2]>>
  <2>1. \A v : <<v>> # <<>>
    OBVIOUS
  <2> QED BY <1>4, <2>1
<1>5. CASE DOMAIN NormDim(node, p, x) = DOMAIN x
  BY <1>2, <1>5
<1>6. NormDim(node, p, x) = x \/ NormDim(node, p, x) = <<x[2]>> \/ DOMAIN NormDim(node, p, x) = DOMAIN x
  BY DEF NormDim
<1> QED BY <1>3, <1>4, <1>5, <1>6

LEMMA NormIsSound ==
  ASSUME NEW D, NEW ts \in [D -> Tensor], NEW us, Grown(D, ts, us), NEW node, NodeOf(D, node),
         node.kind \in {"layernorm", "rmsnorm", "batchnorm"},
         Len(Port(node, ts, "X").dim) >= 2,
         \A p \in InferredPorts(node) :
           Port(node, us, p).dim = NormDim(node, p, Port(node, us, "X").dim)
  PROVE  Sound(node, us)
<1> DEFINE x == Port(node, us, "X").dim
<1>1. "X" \in DOMAIN node.port
  BY KindPorts
<1>2. Port(node, ts, "X").dim # <<>>
  BY LongIsSet
<1>3. x = Port(node, ts, "X").dim /\ x \in Seq(Int)
  BY <1>1, <1>2, GrownPort
<1>4. x # <<>> /\ Len(x) >= 2
  BY <1>2, <1>3
<1>5. \A p \in InferredPorts(node) : Port(node, us, p).dim # <<>>
  <2> HIDE DEF x
  <2> QED BY <1>3, <1>4, NormDimIsSet DEF x
<1>6. \A p \in ShapedPorts(node) : Port(node, us, p).dim # <<>>
  BY <1>4, <1>5 DEF ShapedPorts
<1>7. Follows(node, us)
  BY DEF Follows
<1> QED BY <1>6, <1>7 DEF Sound

\* A batch norm compares all it infers.
LEMMA BatchNormShapes ==
  ASSUME NEW node, NEW us, node.kind = "batchnorm", BatchNormPost(node, us)
  PROVE  \A p \in InferredPorts(node) :
           Port(node, us, p).dim = NormDim(node, p, Port(node, us, "X").dim)
<1> DEFINE x == Port(node, us, "X").dim
<1> SUFFICES ASSUME NEW p \in InferredPorts(node)
             PROVE  Port(node, us, p).dim = NormDim(node, p, x)
  OBVIOUS
<1>1. CASE p = "Y"
  BY <1>1 DEF BatchNormPost, NormDim
<1>2. CASE p # "Y"
  <2>1. p \in ChannelPorts(node)
    BY <1>2 DEF InferredPorts, ChannelPorts
  <2>2. Port(node, us, p).dim = <<x[2]>>
    BY <2>1 DEF BatchNormPost
  <2>3. NormDim(node, p, x) = <<x[2]>>
    BY <1>2 DEF NormDim
  <2> QED BY <2>2, <2>3
<1> QED BY <1>1, <1>2

\* The shapes that the other norms infer, axis by axis.
LEMMA NormDimsAre ==
  ASSUME NEW x \in Seq(Int), Len(x) >= 2
  PROVE  /\ ScaleDim(x) = [i \in DOMAIN x |-> IF i = 1 THEN 1 ELSE x[i]]
         /\ StatisticsDim(x) = [i \in DOMAIN x |-> IF i = 1 THEN x[1] ELSE 1]
<1> DEFINE n == Len(x)
<1>1. DOMAIN x = 1..n /\ n \in Nat
  BY SeqParts
<1>2. 1 \in 1..n
  BY <1>1
<1>3. x = [i \in DOMAIN x |-> x[i]]
  OBVIOUS
<1>4. ScaleDim(x) = [i \in DOMAIN x |-> IF i = 1 THEN 1 ELSE x[i]]
  BY <1>3 DEF ScaleDim
<1> HIDE DEF n
<1>5. Ones(n) = [i \in 1..n |-> 1]
  BY DEF Ones
<1>6. [Ones(n) EXCEPT ![1] = x[1]] = [i \in 1..n |-> IF i = 1 THEN x[1] ELSE 1]
  BY <1>5
<1>7. StatisticsDim(x) = [i \in DOMAIN x |-> IF i = 1 THEN x[1] ELSE 1]
  BY <1>1, <1>6 DEF StatisticsDim, n
<1> QED BY <1>4, <1>7

\* A scale is compared before the missing ones are inferred.
LEMMA ScaleShape ==
  ASSUME NEW D, NEW ts \in [D -> Tensor], NEW node, NodeOf(D, node),
         Port(node, ts, "X").dim \in Seq(Int),
         NEW scales, NEW p \in scales \cap DOMAIN node.port, NEW order,
         Port(node, ts, p).dim # <<>> =>
           Port(node, ts, p).dim = ScaleDim(Port(node, ts, "X").dim)
  PROVE  Port(node, FillScales(node, ts, scales, order), p).dim
           = ScaleDim(Port(node, ts, "X").dim)
<1> DEFINE fs == FillScales(node, ts, scales, order)
           dim == ScaleDim(Port(node, ts, "X").dim)
           ids == FilledPortsOf(node, scales)
           stride == [i \in D |-> StrideFromDim(DimOr(ts[i], dim), order)]
           k == node.port[p]
<1>1. dim \in Seq(Int)
  BY ShapeTypes
<1>2. fs = FilledAt(D, ts, ids, dim, stride)
  BY DEF FillScales, Fill, FilledAt, FilledTensor, DimOr, FilledPortsOf
<1>3. k \in D /\ k \in ids /\ ts[k].dim \in {<<>>, dim}
  BY DEF NodeOf, FilledPortsOf, Port
<1> HIDE DEF fs, dim, ids, k
<1>4. stride[k] \in Seq(Int)
  <2>1. DimOr(ts[k], dim) \in Seq(Int)
    BY <1>1, <1>3 DEF Tensor, DimOr
  <2> QED BY <1>3, <2>1, StrideType
<1> HIDE DEF stride
<1>5. fs[k] = FilledTensor(ts[k], dim, stride[k])
  BY <1>2, <1>3 DEF FilledAt
<1>6. fs[k].dim = dim
  <2> DEFINE t == ts[k]
             r == stride[k]
  <2>1. t \in Tensor /\ r \in Seq(Int) /\ t.dim \in {<<>>, dim}
    BY <1>3, <1>4
  <2> HIDE DEF t, r
  <2>2. /\ t.dim # <<>> => FilledTensor(t, dim, r).dim = t.dim
        /\ t.dim = <<>> => FilledTensor(t, dim, r).dim = dim
    BY <1>1, <2>1, FilledOne
  <2> QED BY <1>5, <2>1, <2>2 DEF t, r
<1> QED BY <1>6 DEF Port, fs, dim, k

\* A layer norm or RMS norm compares its output and statistics after it infers them.
LEMMA NormShapes ==
  ASSUME NEW D, NEW ts \in [D -> Tensor], NEW node, NodeOf(D, node),
         node.kind \in {"layernorm", "rmsnorm"}, NEW order,
         NEW scales \in SUBSET {"SCALE", "BIAS"},
         NEW statistics \in SUBSET {"MEAN", "INV_VARIANCE", "INV_RMS"},
         InferredPorts(node) \subseteq ({"Y"} \cup scales \cup statistics) \cap DOMAIN node.port,
         NormInputsValid(node, ts, scales),
         NEW us, us = FillStatistics(node, FillLikeX(node, FillScales(node, ts, scales, order)),
                                     statistics),
         NormResultValid(node, us, statistics)
  PROVE  \A p \in InferredPorts(node) :
           Port(node, us, p).dim = NormDim(node, p, Port(node, us, "X").dim)
<1> DEFINE fs == FillScales(node, ts, scales, order)
           x == Port(node, ts, "X").dim
<1>1. "X" \in DOMAIN node.port
  BY KindPorts
<1>2. Len(x) >= 2 /\ x # <<>> /\ x \in Seq(Int)
  <2>1. Len(x) >= 2
    BY DEF NormInputsValid
  <2> QED BY <1>1, <2>1, LongIsSet, PortIs
<1>3. Grown(D, ts, us) /\ Grown(D, fs, us)
  <2>1. Filled(D, ts, us) /\ Filled(D, fs, us)
    BY <1>2, NormGrows
  <2> HIDE DEF fs
  <2> QED BY <2>1 DEF Filled
<1>4. Port(node, us, "X").dim = x
  BY <1>1, <1>2, <1>3, GrownPort
<1> SUFFICES ASSUME NEW p \in InferredPorts(node)
             PROVE  Port(node, us, p).dim = NormDim(node, p, x)
  BY <1>4
<1>5. p \in DOMAIN node.port /\ p \in {"Y"} \cup scales \cup statistics
  OBVIOUS
<1>6. CASE p = "Y"
  <2>1. Port(node, us, p).dim = x
    BY <1>4, <1>6 DEF NormResultValid
  <2> QED BY <1>6, <2>1 DEF NormDim
<1>7. CASE p \in statistics
  <2>1. Port(node, us, p).dim = StatisticsDim(x)
    BY <1>4, <1>5, <1>7 DEF NormResultValid
  <2>2. p \in {"MEAN", "INV_VARIANCE", "INV_RMS"}
    BY <1>7
  <2>3. NormDim(node, p, x) = [i \in DOMAIN x |-> IF i = 1 THEN x[1] ELSE 1]
    BY <2>2 DEF NormDim
  <2> HIDE DEF x
  <2> QED BY <1>2, <2>1, <2>3, NormDimsAre
<1>8. CASE p \in scales
  <2>1. Port(node, ts, p).dim # <<>> => Port(node, ts, p).dim = ScaleDim(x)
    BY <1>5, <1>8 DEF NormInputsValid
  <2>2. Port(node, fs, p).dim = ScaleDim(x)
    BY <1>2, <1>5, <1>8, <2>1, ScaleShape
  <2>3. p \in {"SCALE", "BIAS"}
    BY <1>8
  <2>4. NormDim(node, p, x) = [i \in DOMAIN x |-> IF i = 1 THEN 1 ELSE x[i]]
    BY <2>3 DEF NormDim
  <2> HIDE DEF fs, x
  <2>5. ScaleDim(x) = [i \in DOMAIN x |-> IF i = 1 THEN 1 ELSE x[i]]
    BY <1>2, NormDimsAre
  <2>6. ScaleDim(x) # <<>>
    <3>1. NormDim(node, p, x) # <<>>
      BY <1>2, NormDimIsSet
    <3> QED BY <2>4, <2>5, <3>1
  <2>7. Port(node, us, p).dim = Port(node, fs, p).dim
    BY <1>3, <1>5, <2>2, <2>6, GrownPort
  <2> QED BY <2>2, <2>4, <2>5, <2>7
<1> QED BY <1>5, <1>6, <1>7, <1>8

\* A shape of four axes with another last one.
LEMMA LastOfFour ==
  ASSUME NEW q \in Seq(Int), Len(q) = 4, NEW v \in Int
  PROVE  <<q[1], q[2], q[3], v>> = [q EXCEPT ![4] = v]
<1> DEFINE s == <<q[1], q[2], q[3], v>>
           r == [q EXCEPT ![4] = v]
<1>1. DOMAIN q = 1..4 /\ \A i \in 1..4 : q[i] \in Int
  BY SeqParts
<1>2. s \in Seq(Int) /\ Len(s) = 4 /\ s[1] = q[1] /\ s[2] = q[2] /\ s[3] = q[3] /\ s[4] = v
  BY <1>1
<1>3. r \in Seq(Int) /\ Len(r) = 4
  BY SeqExcept
<1>4. r[1] = q[1] /\ r[2] = q[2] /\ r[3] = q[3] /\ r[4] = v
  BY <1>1
<1> HIDE DEF s, r
<1>5. \A i \in 1..4 : s[i] = r[i]
  <2>1. \A i \in 1..4 : i = 1 \/ i = 2 \/ i = 3 \/ i = 4
    OBVIOUS
  <2> QED BY <1>2, <1>4, <2>1
<1>6. s = r
  <2>1. \A t \in Seq(Int) : t = [i \in 1..Len(t) |-> t[i]]
    OBVIOUS
  <2>2. s = [i \in 1..4 |-> s[i]] /\ r = [i \in 1..4 |-> r[i]]
    BY <1>2, <1>3, <2>1
  <2>3. [i \in 1..4 |-> s[i]] = [i \in 1..4 |-> r[i]]
    BY <1>5
  <2> QED BY <2>2, <2>3
<1> QED BY <1>6 DEF s, r

LEMMA SdpaIsSound ==
  ASSUME NEW D, NEW ts \in [D -> Tensor], NEW us, Grown(D, ts, us), NEW node, NodeOf(D, node),
         node.kind = "sdpa", SdpaPre(node, ts), SdpaPost(node, us)
  PROVE  Sound(node, us)
<1> DEFINE q == Port(node, us, "Q").dim
           v == Port(node, us, "V").dim
           o == Port(node, us, "O").dim
<1>1. {"Q", "V", "O"} \subseteq DOMAIN node.port
  BY KindPorts
<1>2. q \in Seq(Int) /\ v \in Seq(Int)
  BY <1>1, GrownPort
<1>3. Len(Port(node, ts, "Q").dim) = 4 /\ Len(Port(node, ts, "V").dim) = 4
  BY DEF SdpaPre
<1>4. Port(node, ts, "Q").dim # <<>> /\ Port(node, ts, "V").dim # <<>>
  <2>1. Len(Port(node, ts, "Q").dim) >= 2 /\ Len(Port(node, ts, "V").dim) >= 2
    BY <1>3
  <2> QED BY <2>1, LongIsSet
<1>5. q = Port(node, ts, "Q").dim /\ v = Port(node, ts, "V").dim
  BY <1>1, <1>4, GrownPort
<1>6. Len(q) = 4 /\ Len(v) = 4
  <2> HIDE DEF q, v
  <2> QED BY <1>3, <1>5
<1>7. o = <<q[1], q[2], q[3], v[4]>>
  <2>1. o = SdpaShape(node, us)
    BY DEF SdpaPost
  <2>2. SdpaShape(node, us) = <<q[1], q[2], q[3], v[4]>>
    BY DEF SdpaShape
  <2> QED BY <2>1, <2>2
<1>8. q # <<>> /\ v # <<>>
  <2> HIDE DEF q, v
  <2>1. Len(q) >= 2 /\ Len(v) >= 2
    BY <1>6
  <2> QED BY <2>1, LongIsSet
<1> HIDE DEF q, v, o
<1>9. v[4] \in Int
  <2>1. 4 \in 1..Len(v)
    BY <1>6
  <2> QED BY <1>2, <2>1, SeqParts
<1>10. o = [q EXCEPT ![4] = v[4]]
  BY <1>2, <1>6, <1>7, <1>9, LastOfFour
<1>11. o # <<>>
  BY <1>7
<1>12. Follows(node, us)
  BY <1>10 DEF Follows, q, v, o
<1>13. \A p \in {"Q", "V", "O"} : Port(node, us, p).dim # <<>>
  BY <1>8, <1>11 DEF q, v, o
<1> QED BY <1>12, <1>13 DEF Sound, ShapedPorts

\* The node validate is at, when it passes.
LEMMA ValidatedIsSound ==
  ASSUME NEW D, NEW ts \in [D -> Tensor], NEW node, NodeOf(D, node),
         {graph.io, graph.intermediate} \subseteq DataTypes, PreValid(node, ts), NEW order,
         PostValid(node, Inferred(node, ts, order))
  PROVE  Sound(node, Inferred(node, ts, order))
<1> DEFINE us == Inferred(node, ts, order)
<1>0. PostValid(node, us)
  OBVIOUS
<1>1. PICK vs : /\ Retyped(D, ts, vs)
                /\ Grown(D, ts, Inferred(node, ts, order))
                /\ node.kind = "wgrad" => Inferred(node, ts, order) = ConvWGradInfer(node, vs)
                /\ node.kind = "dgrad" => Inferred(node, ts, order) = ConvDGradInfer(node, vs)
  BY InferredGrows
<1>12. /\ Retyped(D, ts, vs) /\ Grown(D, ts, us)
       /\ node.kind = "wgrad" => us = ConvWGradInfer(node, vs)
       /\ node.kind = "dgrad" => us = ConvDGradInfer(node, vs)
  BY <1>1, Zenon
<1> SUFFICES Sound(node, us)
  OBVIOUS
<1> HIDE DEF us
<1>2. CASE node.kind = "fprop"
  <2>1. ConvFPropPre(node, ts) /\ ConvFPropPost(node, us)
    BY <1>2, <1>0 DEF PreValid, PostValid
  <2> QED BY <1>12, <1>2, <2>1, FPropIsSound
<1>3. \A p \in DOMAIN node.port : Port(node, vs, p).dim = Port(node, ts, p).dim
  BY <1>12 DEF Retyped, NodeOf, Port
<1>4. vs \in [D -> Tensor]
  BY <1>12 DEF Retyped
<1>5. CASE node.kind = "wgrad"
  <2>1. ConvWGradPre(node, ts) /\ ConvWGradPost(node, us)
    BY <1>5, <1>0 DEF PreValid, PostValid
  <2>2. "DW" \in DOMAIN node.port
    BY <1>5, KindPorts
  <2>3. Port(node, ts, "DW").dim = <<>> => Port(node, us, "DW").dim = <<>>
    BY <1>12, <1>3, <1>4, <1>5, <2>2, GradientNotInferred
  <2> QED BY <1>12, <1>5, <2>1, <2>3, WGradIsSound
<1>6. CASE node.kind = "dgrad"
  <2>1. ConvDGradPre(node, ts) /\ ConvDGradPost(node, us)
    BY <1>6, <1>0 DEF PreValid, PostValid
  <2>2. "DX" \in DOMAIN node.port
    BY <1>6, KindPorts
  <2>3. Port(node, ts, "DX").dim = <<>> => Port(node, us, "DX").dim = <<>>
    BY <1>12, <1>3, <1>4, <1>6, <2>2, GradientNotInferred
  <2> QED BY <1>12, <1>6, <2>1, <2>3, DGradIsSound
<1>7. CASE node.kind = "matmul"
  <2>1. MatmulPre(node, ts) /\ MatmulPost(node, us)
    BY <1>7, <1>0 DEF PreValid, PostValid
  <2> QED BY <1>12, <1>7, <2>1, MatmulIsSound
<1>8. CASE node.kind \in {"layernorm", "rmsnorm", "batchnorm"}
  <2>1. Len(Port(node, ts, "X").dim) >= 2
    BY <1>8, PreFits DEF RanksFit
  <2>2. PICK ws \in [D -> Tensor] : /\ Retyped(D, ts, ws) /\ RanksFit(node, ws)
                                    /\ us = InferredBy(node, ws, order)
    BY InferredFrom DEF us
  <2>3. ASSUME NEW scales, NormInputsValid(node, ts, scales), "X" \in DOMAIN node.port
        PROVE  NormInputsValid(node, ws, scales)
    <3>1. \A p \in DOMAIN node.port :
            /\ Port(node, ws, p).dim = Port(node, ts, p).dim
            /\ Port(node, ws, p).stride = Port(node, ts, p).stride
            /\ Port(node, ws, p).scalar = Port(node, ts, p).scalar
      BY <2>2 DEF Retyped, NodeOf, Port
    <3>2. \A p \in DOMAIN node.port : Formatted(Port(node, ws, p)) <=> Formatted(Port(node, ts, p))
      BY <3>1 DEF Formatted, IsContiguous, IsChannelsLast
    <3> QED BY <2>3, <3>1, <3>2 DEF NormInputsValid, IsScalar, Has
  <2>4. "X" \in DOMAIN node.port
    BY <1>8, KindPorts
  <2>5. \A p \in InferredPorts(node) :
          Port(node, us, p).dim = NormDim(node, p, Port(node, us, "X").dim)
    <3>1. CASE node.kind = "layernorm"
      <4> DEFINE scales == {"SCALE", "BIAS"}
                 statistics == {"MEAN", "INV_VARIANCE"}
      <4>1. NormInputsValid(node, ts, scales) /\ NormResultValid(node, us, statistics)
        BY <3>1, <1>0 DEF PreValid, PostValid, LayerNormPre, LayerNormPost
      <4>2. NormInputsValid(node, ws, scales)
        BY <2>3, <2>4, <4>1
      <4>3. us = FillStatistics(node, FillLikeX(node, FillScales(node, ws, scales, order)), statistics)
        BY <2>2, <3>1 DEF InferredBy, LayerNormInfer
      <4>4. InferredPorts(node) \subseteq ({"Y"} \cup scales \cup statistics) \cap DOMAIN node.port
        BY <3>1 DEF InferredPorts
      <4>5. scales \in SUBSET {"SCALE", "BIAS"}
              /\ statistics \in SUBSET {"MEAN", "INV_VARIANCE", "INV_RMS"}
        OBVIOUS
      <4> HIDE DEF scales, statistics
      <4> QED BY <2>2, <3>1, <4>1, <4>2, <4>3, <4>4, <4>5, NormShapes
    <3>2. CASE node.kind = "rmsnorm"
      <4> DEFINE scales == {"SCALE"}
                 statistics == {"INV_RMS"}
      <4>1. NormInputsValid(node, ts, scales) /\ NormResultValid(node, us, statistics)
        BY <3>2, <1>0 DEF PreValid, PostValid, RmsNormPre, RmsNormPost
      <4>2. NormInputsValid(node, ws, scales)
        BY <2>3, <2>4, <4>1
      <4>3. us = FillStatistics(node, FillLikeX(node, FillScales(node, ws, scales, order)), statistics)
        BY <2>2, <3>2 DEF InferredBy, RmsNormInfer
      <4>4. InferredPorts(node) \subseteq ({"Y"} \cup scales \cup statistics) \cap DOMAIN node.port
        BY <3>2 DEF InferredPorts
      <4>5. scales \in SUBSET {"SCALE", "BIAS"}
              /\ statistics \in SUBSET {"MEAN", "INV_VARIANCE", "INV_RMS"}
        OBVIOUS
      <4> HIDE DEF scales, statistics
      <4> QED BY <2>2, <3>2, <4>1, <4>2, <4>3, <4>4, <4>5, NormShapes
    <3>3. CASE node.kind = "batchnorm"
      <4>1. BatchNormPost(node, us)
        BY <3>3, <1>0 DEF PostValid
      <4> QED BY <3>3, <4>1, BatchNormShapes
    <3> QED BY <1>8, <3>1, <3>2, <3>3
  <2> QED BY <1>12, <1>8, <2>1, <2>5, NormIsSound
<1>9. CASE node.kind = "sdpa"
  <2>1. SdpaPre(node, ts) /\ SdpaPost(node, us)
    BY <1>9, <1>0 DEF PreValid, PostValid
  <2> QED BY <1>12, <1>9, <2>1, SdpaIsSound
<1>10. CASE node.kind = "reduction"
  <2>1. ReductionPre(node, ts) /\ ReductionPost(node, us)
    BY <1>10, <1>0 DEF PreValid, PostValid
  <2> QED BY <1>12, <1>10, <2>1, ReductionIsSound
<1>11. CASE node.kind \notin {"fprop", "wgrad", "dgrad", "matmul", "reduction", "layernorm",
                              "rmsnorm", "batchnorm", "sdpa"}
  BY <1>11 DEF Sound, Follows, ShapedPorts
<1> QED BY <1>2, <1>5, <1>6, <1>7, <1>8, <1>9, <1>10, <1>11

\* The nodes that this call of validate has passed, and all of them in an accepted graph.
Validated ==
  \A k \in DOMAIN graph.nodes : k < at \/ accepted => Sound(graph.nodes[k], tensor)

LEMMA ValidatedStays ==
  ASSUME TypeOK, Validated, [Next]_vars
  PROVE  Validated'
<1> DEFINE D == DOMAIN graph.choices
           n == Len(graph.nodes)
<1>1. /\ graph \in Cases /\ tensor \in [D -> Tensor] /\ accepted \in BOOLEAN
      /\ at \in 0..n + 1
  BY DEF TypeOK, Idle, Concluding
<1>2. /\ DOMAIN graph.nodes = 1..n /\ n \in Nat
      /\ \A k \in DOMAIN graph.nodes : NodeOf(D, graph.nodes[k])
      /\ {graph.io, graph.intermediate} \subseteq DataTypes
  BY <1>1, CaseIs
<1>3. graph' = graph
  BY DEF Next, vars, SetTensor, Begin, RefuseNode, ValidateNode, Conclude
<1> HIDE DEF n
<1> SUFFICES ASSUME NEW k \in DOMAIN graph.nodes, k < at' \/ accepted'
             PROVE  Sound(graph.nodes[k], tensor')
  BY <1>3 DEF Validated
<1>4. k \in 1..n /\ ~(k < 0) /\ ~(k < 1)
  BY <1>2
<1>5. k < at \/ accepted => Sound(graph.nodes[k], tensor)
  BY DEF Validated
<1>6. ASSUME NEW i \in DOMAIN tensor, SetTensor(i) PROVE FALSE
  <2>1. at' = 0 /\ accepted' = FALSE
    BY <1>6 DEF SetTensor, Idle
  <2> QED BY <1>4, <2>1
<1>7. CASE Begin
  <2>1. at' = 1 /\ accepted' = accepted /\ tensor' = tensor
    BY <1>7 DEF Begin
  <2> QED BY <1>4, <1>5, <2>1
<1>8. CASE RefuseNode
  <2>1. at' = 0 /\ accepted' = FALSE
    BY <1>8 DEF RefuseNode, Refused, Idle
  <2> QED BY <1>4, <2>1
<1>9. CASE ValidateNode
  <2>1. /\ Grown(D, tensor, tensor') /\ at \in 1..Len(graph.nodes)
        /\ \/ at' = at + 1 /\ accepted' = accepted /\ PostValid(graph.nodes[at], tensor')
           \/ at' = Idle /\ accepted' = FALSE
    BY <1>9, ValidateNodeGrows
  <2>2. at' = at + 1 /\ accepted' = accepted /\ PostValid(graph.nodes[at], tensor')
    <3>1. ~(at' = 0 /\ accepted' = FALSE)
      BY <1>4
    <3> QED BY <2>1, <3>1 DEF Idle
  <2>3. CASE k < at \/ accepted
    <3>1. Sound(graph.nodes[k], tensor)
      BY <1>5, <2>3
    <3> QED BY <1>2, <2>1, <3>1, SoundGrows
  <2>4. CASE k = at
    <3> DEFINE node == graph.nodes[at]
    <3>1. PreValid(node, tensor) /\ NodeOf(D, node) /\ PostValid(node, tensor')
      BY <1>2, <2>2, <2>4, <1>9 DEF ValidateNode
    <3>2. PICK order : tensor' = Inferred(node, tensor, order)
      BY <1>9 DEF ValidateNode
    <3> HIDE DEF node
    <3>3. Sound(node, Inferred(node, tensor, order))
      BY <1>1, <1>2, <3>1, <3>2, ValidatedIsSound
    <3> QED BY <2>4, <3>2, <3>3 DEF node
  <2>5. k < at \/ accepted \/ k = at
    <3>1. k < at + 1 \/ accepted
      BY <2>2
    <3>2. k < at + 1 => k < at \/ k = at
      BY <1>1, <1>4
    <3> QED BY <3>1, <3>2
  <2> QED BY <2>3, <2>4, <2>5
<1>10. CASE Conclude
  <2>1. at = n + 1 /\ tensor' = tensor
    BY <1>10 DEF Conclude, Concluding, n
  <2>2. k < at
    BY <1>2, <1>4, <2>1
  <2> QED BY <1>5, <2>1, <2>2
<1>11. CASE UNCHANGED vars
  BY <1>5, <1>11 DEF vars
<1> QED BY <1>6, <1>7, <1>8, <1>9, <1>10, <1>11 DEF Next

\* ShapesFollow is an invariant.
THEOREM ShapesFollowCorrect == Spec => []ShapesFollow
<1>1. Init => Validated
  <2> SUFFICES ASSUME Init, NEW k \in DOMAIN graph.nodes PROVE ~(k < at \/ accepted)
    BY DEF Validated
  <2>1. graph \in Cases /\ at = 0 /\ accepted = FALSE
    BY DEF Init, Idle
  <2>2. k \in 1..Len(graph.nodes) /\ Len(graph.nodes) \in Nat
    BY <2>1, CaseIs
  <2> QED BY <2>1, <2>2
<1>2. TypeOK /\ Validated /\ [Next]_vars => Validated'
  BY ValidatedStays
<1>3. Validated => ShapesFollow
  <2> SUFFICES ASSUME Validated, accepted, NEW node \in Range(graph.nodes)
               PROVE  Follows(node, tensor)
    BY DEF ShapesFollow
  <2>1. PICK k \in DOMAIN graph.nodes : node = graph.nodes[k]
    BY DEF Range
  <2> QED BY <2>1 DEF Validated, Sound
<1> QED BY <1>1, <1>2, <1>3, TypeOKCorrect, PTL DEF Spec

-----------------------------------------------------------------------------
(* The data types of an accepted graph                                     *)

Forces(node) == node.kind = "pointwise" /\ node.mode \in LogicalModes

\* The tensors whose type a node fills in.
Fills(node) == {node.port[p] : p \in FilledPorts(node)}

\* The type of the tensor i after a node is validated.
TypeAfter(node, t, i) ==
  IF Forces(node) /\ i = node.port["OUT_0"] THEN "Boolean"
  ELSE IF t.type = NotSet /\ i \in Fills(node) THEN ContextType(t) ELSE t.type

LEMMA ForcedType ==
  ASSUME NEW D, NEW ts \in [D -> Tensor], NEW node, NodeOf(D, node)
  PROVE  \A i \in D : /\ Forced(node, ts)[i].virtual = ts[i].virtual
                      /\ Forced(node, ts)[i].type =
                           IF Forces(node) /\ i = node.port["OUT_0"] THEN "Boolean" ELSE ts[i].type
<1> DEFINE us == Forced(node, ts)
           o == node.port["OUT_0"]
<1> SUFFICES ASSUME NEW i \in D
             PROVE  /\ us[i].virtual = ts[i].virtual
                    /\ us[i].type = IF Forces(node) /\ i = o THEN "Boolean" ELSE ts[i].type
  OBVIOUS
<1>1. CASE ~Forces(node)
  <2>1. us = ts
    BY <1>1 DEF Forced, Forces
  <2> QED BY <1>1, <2>1
<1>2. CASE Forces(node)
  <2>1. us = [ts EXCEPT ![o].type = "Boolean"]
    BY <1>2 DEF Forced, Forces
  <2>2. o \in D
    BY <1>2 DEF NodeOf, NeededPorts, Forces
  <2> HIDE DEF us, o
  <2>3. CASE i = o
    <3> DEFINE type == "Boolean"
    <3>1. us[i] = [ts[i] EXCEPT !.type = type]
      BY <2>1, <2>3
    <3>2. type \in DataTypes
      BY DEF DataTypes
    <3> HIDE DEF type
    <3>3. ts[i] \in Tensor
      OBVIOUS
    <3>4. [ts[i] EXCEPT !.type = type].type = type /\ SameBut([ts[i] EXCEPT !.type = type], ts[i], {"type"})
      BY <3>2, <3>3, TypedTensor
    <3>5. us[i].type = type /\ SameBut(us[i], ts[i], {"type"})
      BY <3>1, <3>4
    <3> QED BY <1>2, <2>3, <3>5 DEF SameBut, type
  <2>4. CASE i # o
    BY <2>1, <2>4
  <2> QED BY <2>3, <2>4
<1> QED BY <1>1, <1>2

LEMMA ContextTypes ==
  ASSUME NEW D, NEW ts \in [D -> Tensor], NEW node, {graph.io, graph.intermediate} \subseteq DataTypes
  PROVE  \A i \in D : FilledFromContext(node, ts)[i].type =
                        IF ts[i].type = NotSet /\ i \in Fills(node) THEN ContextType(ts[i]) ELSE ts[i].type
<1> DEFINE us == FilledFromContext(node, ts)
           ids == Fills(node)
<1> SUFFICES ASSUME NEW i \in D
             PROVE  us[i].type = IF ts[i].type = NotSet /\ i \in ids THEN ContextType(ts[i]) ELSE ts[i].type
  OBVIOUS
<1>1. us = [j \in D |-> IF ts[j].type = NotSet /\ j \in ids
                          THEN [ts[j] EXCEPT !.type = ContextType(ts[j])] ELSE ts[j]]
  BY DEF FilledFromContext, Fills
<1> HIDE DEF us, ids
<1>2. CASE ts[i].type = NotSet /\ i \in ids
  <2> DEFINE type == ContextType(ts[i])
  <2>1. type \in DataTypes /\ us[i] = [ts[i] EXCEPT !.type = type]
    BY <1>1, <1>2 DEF ContextType
  <2> HIDE DEF type
  <2>2. us[i].type = type
    BY <2>1, TypedTensor
  <2> QED BY <1>2, <2>2 DEF type
<1>3. CASE ~(ts[i].type = NotSet /\ i \in ids)
  BY <1>1, <1>3
<1> QED BY <1>2, <1>3

\* What a call of validate does to types and flags at a node.
LEMMA TypesAfter ==
  ASSUME TypeOK, ValidateNode
  PROVE  \A i \in DOMAIN graph.choices :
           /\ tensor'[i].type = TypeAfter(graph.nodes[at], tensor[i], i)
           /\ tensor'[i].virtual = tensor[i].virtual
<1> DEFINE D == DOMAIN graph.choices
           node == graph.nodes[at]
           forced == Forced(node, tensor)
           ts == FilledFromContext(node, forced)
<1>1. graph \in Cases /\ tensor \in [D -> Tensor]
  BY DEF TypeOK
<1>2. at \in DOMAIN graph.nodes /\ PreValid(node, tensor)
  BY DEF ValidateNode
<1>3. PICK order : tensor' = Inferred(node, tensor, order)
  BY DEF ValidateNode
<1>4. NodeOf(D, node) /\ {graph.io, graph.intermediate} \subseteq DataTypes
  BY <1>1, <1>2, CaseIs
<1> HIDE DEF node, D
<1>5. Filled(D, ts, tensor')
  BY <1>1, <1>2, <1>3, <1>4, InferredGrows
<1>6. forced \in [D -> Tensor]
  BY <1>1, <1>4, ForcedRetypes DEF Retyped
<1>7. Grown(D, tensor, tensor')
  BY ValidateNodeGrows DEF D
<1>8. ASSUME NEW i \in D
      PROVE  tensor'[i].type = TypeAfter(node, tensor[i], i) /\ tensor'[i].virtual = tensor[i].virtual
  <2>1. tensor'[i].virtual = tensor[i].virtual
    BY <1>7 DEF Grown
  <2>2. forced[i].type = IF Forces(node) /\ i = node.port["OUT_0"] THEN "Boolean" ELSE tensor[i].type
    BY <1>1, <1>4, ForcedType
  <2>3. forced[i].virtual = tensor[i].virtual
    BY <1>1, <1>4, ForcedType
  <2> HIDE DEF forced
  <2>4. ts[i].type = IF forced[i].type = NotSet /\ i \in Fills(node) THEN ContextType(forced[i]) ELSE forced[i].type
    BY <1>4, <1>6, ContextTypes
  <2>5. ContextType(forced[i]) = ContextType(tensor[i])
    BY <2>3 DEF ContextType
  <2>6. tensor'[i].type = ts[i].type
    BY <1>5 DEF Filled
  <2>7. "Boolean" # NotSet
    BY DEF NotSet
  <2> HIDE DEF ts
  <2> QED BY <2>1, <2>2, <2>4, <2>5, <2>6, <2>7 DEF TypeAfter
<1> QED BY <1>8 DEF node, D

\* What validating a node leaves: types that are still missing are missing in the context,
\* and a product has types that torch.bmm computes.
Multiplies(a, b) ==
  /\ a.dim # <<>> /\ b.dim # <<>>
  /\ a.type # b.type /\ NotSet \notin {a.type, b.type} => Len(a.dim) = 3 /\ a.dim[1] = b.dim[1]

Settled(node, ts) ==
  /\ \A i \in Fills(node) : ts[i].type = NotSet => ContextType(ts[i]) = NotSet
  /\ Forces(node) => ts[node.port["OUT_0"]].type = "Boolean"
  /\ node.kind = "matmul" /\ ~CustomFed(node) => Multiplies(Port(node, ts, "A"), Port(node, ts, "B"))

\* A step that retypes no set tensor of a node leaves the node settled.
FillsOnly(S, ts, us) ==
  \A i \in S : /\ us[i].virtual = ts[i].virtual
               /\ us[i].type = ts[i].type \/ (ts[i].type = NotSet /\ us[i].type = ContextType(ts[i]))

LEMMA FillsAreThere ==
  ASSUME NEW D, NEW node, NodeOf(D, node)
  PROVE  /\ Fills(node) \subseteq Range(node.port) /\ Range(node.port) \subseteq D
         /\ node.kind # "custom" => Fills(node) = Range(node.port)
BY DEF NodeOf, Fills, FilledPorts, Range

LEMMA StaysSettled ==
  ASSUME NEW D, NEW ts, NEW us, Grown(D, ts, us), NEW node, NodeOf(D, node),
         FillsOnly(Range(node.port), ts, us), Settled(node, ts)
  PROVE  Settled(node, us)
<1>1. ASSUME NEW i \in Fills(node), us[i].type = NotSet
      PROVE  ContextType(us[i]) = NotSet
  <2>1. i \in Range(node.port)
    BY FillsAreThere
  <2>2. ts[i].type = NotSet
    BY <1>1, <2>1 DEF FillsOnly
  <2>3. ContextType(ts[i]) = NotSet
    BY <2>2 DEF Settled
  <2>4. us[i].virtual = ts[i].virtual
    BY <2>1 DEF FillsOnly
  <2> QED BY <2>3, <2>4 DEF ContextType
<1>2. ASSUME Forces(node)
      PROVE  us[node.port["OUT_0"]].type = "Boolean"
  <2> DEFINE o == node.port["OUT_0"]
  <2>1. o \in Range(node.port)
    BY <1>2, KindPorts DEF Forces, Range
  <2>2. ts[o].type = "Boolean"
    BY <1>2 DEF Settled
  <2> HIDE DEF o
  <2>3. us[o].type = ts[o].type
    BY <2>1, <2>2 DEF FillsOnly, NotSet
  <2> QED BY <2>2, <2>3 DEF o
<1>3. ASSUME node.kind = "matmul", ~CustomFed(node)
      PROVE  Multiplies(Port(node, us, "A"), Port(node, us, "B"))
  <2> DEFINE a == Port(node, ts, "A")
             b == Port(node, ts, "B")
             c == Port(node, us, "A")
             d == Port(node, us, "B")
  <2>1. node.port["A"] \in Fills(node) /\ node.port["B"] \in Fills(node)
    BY <1>3, KindPorts DEF Fills, FilledPorts
  <2>2. node.port["A"] \in Range(node.port) /\ node.port["B"] \in Range(node.port)
    BY <2>1, FillsAreThere
  <2>3. node.port["A"] \in D /\ node.port["B"] \in D
    BY <2>2, FillsAreThere
  <2>4. a.dim # <<>> /\ b.dim # <<>> /\ Multiplies(a, b)
    BY <1>3 DEF Settled, Multiplies
  <2>5. c.dim = a.dim /\ d.dim = b.dim
    BY <2>3, <2>4 DEF Grown, Port
  <2>6. /\ c.type = a.type \/ (a.type = NotSet /\ c.type = ContextType(a))
        /\ d.type = b.type \/ (b.type = NotSet /\ d.type = ContextType(b))
    BY <2>2 DEF FillsOnly, Port
  <2>7. (a.type = NotSet => ContextType(a) = NotSet) /\ (b.type = NotSet => ContextType(b) = NotSet)
    BY <2>1 DEF Settled, Port
  <2> HIDE DEF a, b, c, d
  <2>8. c.type = a.type /\ d.type = b.type
    BY <2>6, <2>7
  <2> QED BY <2>4, <2>5, <2>8 DEF Multiplies, c, d
<1> QED BY <1>1, <1>2, <1>3 DEF Settled

\* Virtual tensors are those a case makes virtual.
VirtualChosen == \A i \in DOMAIN tensor : tensor[i].virtual => \E t \in graph.choices[i] : t.virtual

Settling(k) == k < at \/ accepted

AllSettled == \A k \in DOMAIN graph.nodes : Settling(k) => Settled(graph.nodes[k], tensor)

\* The operand of a product that is missing its type is one whose type the context gives,
\* and the same one for both operands.
LEMMA OperandType ==
  ASSUME TypeOK, VirtualChosen, AllSettled, NEW k \in DOMAIN graph.nodes, k = at,
         graph.nodes[k].kind = "matmul", ~CustomFed(graph.nodes[k]),
         NEW p \in {"A", "B"}, Port(graph.nodes[k], tensor, p).type = NotSet,
         ContextType(Port(graph.nodes[k], tensor, p)) # NotSet
  PROVE  ContextType(Port(graph.nodes[k], tensor, p)) = graph.io
<1> DEFINE D == DOMAIN graph.choices
           node == graph.nodes[k]
           i == node.port[p]
           made(n) == {n.port[q] : q \in n.out}
<1>1. graph \in Cases /\ tensor \in [D -> Tensor]
  BY DEF TypeOK
<1>2. NodeOf(D, node) /\ p \in DOMAIN node.port /\ i \in D
  BY <1>1, CaseIs, KindPorts DEF NodeOf
<1>3. SUFFICES ASSUME tensor[i].virtual PROVE FALSE
  BY DEF ContextType, Port
<1>4. p \notin node.out
  BY <1>1, BuiltAssumption
<1>5. \E t \in graph.choices[node.port[p]] : t.virtual
  BY <1>1, <1>2, <1>3 DEF VirtualChosen
<1>6. PICK j \in 1..k - 1 : i \in made(graph.nodes[j])
  <2>1. /\ \A q \in DOMAIN node.port \ node.out :
             (\E t \in graph.choices[node.port[q]] : t.virtual) =>
               \E j \in 1..k - 1 : node.port[q] \in made(graph.nodes[j])
    BY <1>1, BuiltAssumption
  <2> HIDE DEF made, node
  <2> QED BY <1>2, <1>4, <1>5, <2>1
<1>7. k \in 1..Len(graph.nodes) /\ Len(graph.nodes) \in Nat
  BY <1>1, CaseIs
<1>8. j \in DOMAIN graph.nodes /\ j < at
  <2>1. j \in 1..Len(graph.nodes) /\ j < k
    BY <1>7
  <2> QED BY <1>1, <2>1, CaseIs
<1> DEFINE maker == graph.nodes[j]
<1>9. Settled(maker, tensor) /\ NodeOf(D, maker)
  BY <1>1, <1>8, CaseIs DEF AllSettled, Settling
<1>10. maker \in Range(graph.nodes)
  BY <1>8 DEF Range
<1>11. maker.kind # "custom"
  BY <1>6, <1>10 DEF CustomFed
<1>12. maker.out \subseteq DOMAIN maker.port
  BY <1>1, <1>8, BuiltAssumption
<1> HIDE DEF maker
<1>13. i \in Fills(maker)
  BY <1>6, <1>11, <1>12 DEF Fills, FilledPorts, maker
<1>14. ContextType(tensor[i]) = NotSet
  BY <1>9, <1>13 DEF Settled, Port
<1> QED BY <1>14 DEF Port

LEMMA ProductIsSettled ==
  ASSUME TypeOK, VirtualChosen, AllSettled, ValidateNode,
         graph.nodes[at].kind = "matmul", ~CustomFed(graph.nodes[at])
  PROVE  Multiplies(Port(graph.nodes[at], tensor', "A"), Port(graph.nodes[at], tensor', "B"))
<1> DEFINE D == DOMAIN graph.choices
           node == graph.nodes[at]
           i == node.port["A"]
           j == node.port["B"]
           a == tensor[i]
           b == tensor[j]
           c == tensor'[i]
           d == tensor'[j]
<1>1. graph \in Cases /\ tensor \in [D -> Tensor] /\ at \in DOMAIN graph.nodes
  BY DEF TypeOK, ValidateNode
<1>2. NodeOf(D, node) /\ {"A", "B"} \subseteq DOMAIN node.port
  BY <1>1, CaseIs, KindPorts
<1>3. i \in D /\ j \in D /\ i \in Fills(node) /\ j \in Fills(node)
  BY <1>2 DEF NodeOf, Fills, FilledPorts
<1>4. MatmulPre(node, tensor)
  BY DEF ValidateNode, PreValid
<1>5. Len(a.dim) >= 2 /\ Len(b.dim) = Len(a.dim) /\ MixedFits(a, b)
  BY <1>4 DEF MatmulPre, Port
<1>6. a.dim # <<>> /\ b.dim # <<>>
  BY <1>5, LongIsSet
<1>7. c.dim = a.dim /\ d.dim = b.dim
  BY <1>3, <1>6, ValidateNodeGrows DEF Grown
<1>8. /\ c.type = IF a.type = NotSet THEN ContextType(a) ELSE a.type
      /\ d.type = IF b.type = NotSet THEN ContextType(b) ELSE b.type
  BY <1>3, TypesAfter DEF TypeAfter, Forces
<1>9. /\ a.type = NotSet /\ ContextType(a) # NotSet => ContextType(a) = graph.io
      /\ b.type = NotSet /\ ContextType(b) # NotSet => ContextType(b) = graph.io
  BY <1>1, OperandType DEF Port
<1> SUFFICES Multiplies(c, d)
  BY DEF Port
<1>10. SUFFICES ASSUME c.type # d.type, c.type # NotSet, d.type # NotSet
                PROVE  Len(c.dim) = 3 /\ c.dim[1] = d.dim[1]
  BY <1>6, <1>7 DEF Multiplies
<1> HIDE DEF a, b, c, d
<1>11. a.type # b.type
  BY <1>8, <1>9, <1>10
<1> QED BY <1>5, <1>7, <1>11 DEF MixedFits

\* The node that was just validated.
LEMMA ValidatedIsSettled ==
  ASSUME TypeOK, VirtualChosen, AllSettled, ValidateNode
  PROVE  Settled(graph.nodes[at], tensor')
<1> DEFINE D == DOMAIN graph.choices
           node == graph.nodes[at]
<1>1. graph \in Cases /\ at \in DOMAIN graph.nodes
  BY DEF TypeOK, ValidateNode
<1>2. NodeOf(D, node)
  BY <1>1, CaseIs
<1> HIDE DEF node, D
<1>3. \A i \in D : tensor'[i].type = TypeAfter(node, tensor[i], i) /\ tensor'[i].virtual = tensor[i].virtual
  BY TypesAfter DEF D, node
<1>4. ASSUME NEW i \in Fills(node), tensor'[i].type = NotSet
      PROVE  ContextType(tensor'[i]) = NotSet
  <2>1. i \in D
    BY <1>2, FillsAreThere
  <2>2. TypeAfter(node, tensor[i], i) = NotSet /\ ContextType(tensor'[i]) = ContextType(tensor[i])
    BY <1>3, <1>4, <2>1 DEF ContextType
  <2>3. "Boolean" # NotSet
    BY DEF NotSet
  <2> QED BY <2>2, <2>3 DEF TypeAfter
<1>5. ASSUME Forces(node)
      PROVE  tensor'[node.port["OUT_0"]].type = "Boolean"
  <2>1. node.port["OUT_0"] \in D
    BY <1>2, <1>5, KindPorts DEF Forces, NodeOf
  <2> QED BY <1>3, <1>5, <2>1 DEF TypeAfter
<1>6. node.kind = "matmul" /\ ~CustomFed(node) =>
        Multiplies(Port(node, tensor', "A"), Port(node, tensor', "B"))
  BY ProductIsSettled DEF node
<1> QED BY <1>4, <1>5, <1>6 DEF Settled, node

\* What validating a node does to the types of those that were validated before.
LEMMA OthersFill ==
  ASSUME TypeOK, AllSettled, ValidateNode, NEW k \in DOMAIN graph.nodes, Settling(k)
  PROVE  FillsOnly(Range(graph.nodes[k].port), tensor, tensor')
<1> DEFINE D == DOMAIN graph.choices
           node == graph.nodes[at]
           other == graph.nodes[k]
           o == node.port["OUT_0"]
<1>1. graph \in Cases /\ at \in DOMAIN graph.nodes /\ at \in 1..Len(graph.nodes)
  BY ValidateNodeGrows DEF TypeOK, ValidateNode
<1>2. NodeOf(D, node) /\ NodeOf(D, other)
  BY <1>1, CaseIs
<1>3. Forces(node) => tensor[o].type = "Boolean" \/ o \notin Range(other.port)
  <2>1. CASE accepted
    <3>1. Settled(node, tensor)
      BY <1>1, <2>1 DEF AllSettled, Settling
    <3> QED BY <3>1 DEF Settled
  <2>2. CASE k < at
    <3>1. k \in 1..at - 1
      <4>1. k \in 1..Len(graph.nodes) /\ Len(graph.nodes) \in Nat
        BY <1>1, CaseIs
      <4> QED BY <1>1, <2>2, <4>1
    <3>2. {node.port[p] : p \in node.out} \cap Range(other.port) = {}
      BY <1>1, <3>1, BuiltAssumption
    <3>3. Forces(node) => "OUT_0" \in node.out
      BY <1>1, BuiltAssumption DEF Forces
    <3> QED BY <3>2, <3>3
  <2> QED BY <2>1, <2>2 DEF Settling
<1> SUFFICES ASSUME NEW i \in Range(other.port)
             PROVE  /\ tensor'[i].virtual = tensor[i].virtual
                    /\ \/ tensor'[i].type = tensor[i].type
                       \/ tensor[i].type = NotSet /\ tensor'[i].type = ContextType(tensor[i])
  BY DEF FillsOnly
<1>4. i \in D
  BY <1>2, FillsAreThere
<1>5. tensor'[i].type = TypeAfter(node, tensor[i], i) /\ tensor'[i].virtual = tensor[i].virtual
  BY <1>4, TypesAfter
<1>6. Forces(node) /\ i = o => tensor[i].type = "Boolean"
  BY <1>3
<1> HIDE DEF node
<1> QED BY <1>5, <1>6 DEF TypeAfter

\* The nodes that were validated before.
LEMMA OthersStaySettled ==
  ASSUME TypeOK, AllSettled, ValidateNode, NEW k \in DOMAIN graph.nodes, Settling(k)
  PROVE  Settled(graph.nodes[k], tensor')
<1> DEFINE D == DOMAIN graph.choices
           other == graph.nodes[k]
<1>1. NodeOf(D, other)
  BY CaseIs DEF TypeOK
<1>2. Grown(D, tensor, tensor')
  BY ValidateNodeGrows
<1>3. Settled(other, tensor)
  BY DEF AllSettled
<1>4. FillsOnly(Range(other.port), tensor, tensor')
  BY OthersFill
<1> HIDE DEF other, D
<1>5. Settled(other, tensor')
  BY <1>1, <1>2, <1>3, <1>4, StaysSettled
<1> QED BY <1>5 DEF other

LEMMA SettledStays ==
  ASSUME TypeOK, VirtualChosen, AllSettled, [Next]_vars
  PROVE  AllSettled'
<1> DEFINE n == Len(graph.nodes)
<1>1. /\ DOMAIN graph.nodes = 1..n /\ n \in Nat /\ at \in 0..n + 1 /\ accepted \in BOOLEAN
  BY CaseIs DEF TypeOK, Idle, Concluding
<1>2. graph' = graph
  BY DEF Next, vars, SetTensor, Begin, RefuseNode, ValidateNode, Conclude
<1>3. SUFFICES ASSUME NEW k \in DOMAIN graph.nodes, k < at' \/ accepted'
               PROVE  Settled(graph.nodes[k], tensor')
  BY <1>2 DEF AllSettled, Settling, Settled, Fills, ContextType, CustomFed
<1>4. k \in 1..n
  BY <1>1
<1>5. Settling(k) => Settled(graph.nodes[k], tensor)
  BY DEF AllSettled
<1>6. CASE UNCHANGED vars \/ Begin
  <2>1. tensor' = tensor /\ Settling(k)
    <3>1. tensor' = tensor /\ accepted' = accepted /\ (at' = at \/ at' = 1)
      BY <1>6 DEF vars, Begin
    <3>2. ~(k < 1)
      BY <1>4
    <3> QED BY <1>3, <3>1, <3>2 DEF Settling
  <2> QED BY <1>5, <2>1
<1>7. CASE (\E i \in DOMAIN tensor : SetTensor(i)) \/ RefuseNode
  <2>1. at' = 0 /\ accepted' = FALSE
    BY <1>7 DEF SetTensor, RefuseNode, Refused, Idle
  <2>2. ~(k < 0)
    BY <1>4
  <2> QED BY <1>3, <2>1, <2>2
<1>8. CASE Conclude
  <2>1. at = n + 1 /\ tensor' = tensor
    BY <1>8 DEF Conclude, Concluding
  <2>2. k < at
    BY <1>4, <2>1
  <2> QED BY <1>5, <2>1, <2>2 DEF Settling
<1>9. CASE ValidateNode
  <2>1. Settling(k) \/ k = at
    <3>1. (at' = at + 1 /\ accepted' = accepted) \/ (at' = 0 /\ accepted' = FALSE)
      BY <1>9, ValidateNodeGrows DEF Idle
    <3>2. k < at + 1 => k < at \/ k = at
      BY <1>1, <1>4
    <3>3. ~(k < 0)
      BY <1>4
    <3> QED BY <1>3, <3>1, <3>2, <3>3 DEF Settling
  <2>2. CASE Settling(k)
    BY <1>9, <2>2, OthersStaySettled
  <2>3. CASE k = at
    BY <1>9, <2>3, ValidatedIsSettled
  <2> QED BY <2>1, <2>2, <2>3
<1> QED BY <1>6, <1>7, <1>8, <1>9 DEF Next

LEMMA VirtualChosenStays ==
  ASSUME TypeOK, VirtualChosen, [Next]_vars
  PROVE  VirtualChosen'
<1> DEFINE D == DOMAIN graph.choices
<1>1. graph' = graph /\ tensor \in [D -> Tensor]
  BY DEF TypeOK, Next, vars, SetTensor, Begin, RefuseNode, ValidateNode, Conclude
<1>2. ASSUME DOMAIN tensor' = D,
             \A i \in D : tensor'[i].virtual => \E t \in graph.choices[i] : t.virtual
      PROVE  VirtualChosen'
  BY <1>1, <1>2 DEF VirtualChosen
<1>3. \A i \in D : tensor[i].virtual => \E t \in graph.choices[i] : t.virtual
  BY <1>1 DEF VirtualChosen
<1>4. CASE tensor' = tensor
  BY <1>1, <1>2, <1>3, <1>4
<1>5. CASE ValidateNode
  <2>1. \A i \in D : tensor'[i].virtual = tensor[i].virtual
    BY <1>5, TypesAfter
  <2>2. DOMAIN tensor' = D
    BY <1>5, ValidateNodeGrows DEF Grown
  <2> QED BY <1>2, <1>3, <2>1, <2>2
<1>6. ASSUME NEW i \in DOMAIN tensor, SetTensor(i) PROVE VirtualChosen'
  <2>1. PICK c \in graph.choices[i] : tensor' = [tensor EXCEPT ![i] = Typed(c, tensor[i].type)]
    BY <1>6 DEF SetTensor
  <2> DEFINE u == Typed(c, tensor[i].type)
  <2>2. u.virtual = c.virtual
    <3>1. c \in Tensor /\ tensor[i].type \in DataTypes
      BY <1>1, CaseIs DEF TypeOK, Tensor
    <3> DEFINE type == tensor[i].type
    <3> HIDE DEF type
    <3>2. SameBut([c EXCEPT !.type = type], c, {"type"})
      BY <3>1, TypedTensor DEF type
    <3>3. u = c \/ u = [c EXCEPT !.type = type]
      BY DEF Typed, type
    <3> QED BY <3>2, <3>3 DEF SameBut
  <2> HIDE DEF u
  <2>3. \A j \in D : tensor'[j] = IF j = i THEN u ELSE tensor[j]
    BY <1>1, <2>1 DEF u
  <2>4. DOMAIN tensor' = D
    BY <1>1, <2>1
  <2> QED BY <1>2, <1>3, <2>1, <2>2, <2>3, <2>4
<1>7. tensor' = tensor \/ ValidateNode \/ \E i \in DOMAIN tensor : SetTensor(i)
  BY DEF Next, vars, Begin, RefuseNode, Conclude
<1> QED BY <1>4, <1>5, <1>6, <1>7

AcceptedTyped == accepted => \A i \in DOMAIN tensor : tensor[i].type # NotSet

LEMMA AcceptedStaysTyped ==
  ASSUME TypeOK, AcceptedTyped, [Next]_vars
  PROVE  AcceptedTyped'
<1> DEFINE D == DOMAIN graph.choices
<1> SUFFICES ASSUME accepted' PROVE \A i \in DOMAIN tensor' : tensor'[i].type # NotSet
  BY DEF AcceptedTyped
<1>1. tensor \in [D -> Tensor] /\ accepted \in BOOLEAN
  BY DEF TypeOK
<1>2. CASE TensorsValid /\ tensor' = tensor
  BY <1>2 DEF TensorsValid
<1>3. CASE accepted /\ ~ValidateNode /\ ~Conclude
  <2>1. tensor' = tensor
    BY <1>3 DEF Next, vars, SetTensor, Begin, RefuseNode, Refused
  <2> QED BY <1>3, <2>1 DEF AcceptedTyped
<1>4. CASE accepted /\ ValidateNode
  <2>1. DOMAIN tensor' = D
    BY <1>4, ValidateNodeGrows DEF Grown
  <2>2. ASSUME NEW i \in D PROVE tensor'[i].type # NotSet
    <3>1. tensor[i].type # NotSet
      BY <1>1, <1>4 DEF AcceptedTyped
    <3>2. tensor'[i].type = TypeAfter(graph.nodes[at], tensor[i], i)
      BY <1>4, TypesAfter
    <3> QED BY <3>1, <3>2 DEF TypeAfter, NotSet
  <2> QED BY <2>1, <2>2
<1>5. CASE Conclude
  BY <1>2, <1>5 DEF Conclude, Refused
<1>6. accepted \/ Conclude
  BY AcceptedStep
<1> QED BY <1>3, <1>4, <1>5, <1>6

\* MixedProductsBatched is an invariant.
THEOREM MixedProductsBatchedCorrect == Spec => []MixedProductsBatched
<1> DEFINE TypesInv == VirtualChosen /\ AllSettled /\ AcceptedTyped
<1>1. Init => TypesInv
  <2> SUFFICES ASSUME Init PROVE TypesInv
    OBVIOUS
  <2>1. graph \in Cases /\ at = 0 /\ accepted = FALSE
    BY DEF Init, Idle
  <2>2. VirtualChosen
    BY DEF Init, VirtualChosen
  <2>3. AllSettled
    <3>1. \A k \in 1..Len(graph.nodes) : ~(k < 0)
      BY <2>1, CaseIs
    <3>2. DOMAIN graph.nodes = 1..Len(graph.nodes)
      BY <2>1, CaseIs
    <3> QED BY <2>1, <3>1, <3>2 DEF AllSettled, Settling
  <2> QED BY <2>1, <2>2, <2>3 DEF AcceptedTyped
<1>2. TypeOK /\ TypesInv /\ [Next]_vars => TypesInv'
  BY SettledStays, VirtualChosenStays, AcceptedStaysTyped
<1>3. TypeOK /\ TypesInv => MixedProductsBatched
  <2> SUFFICES ASSUME TypeOK, TypesInv, accepted, NEW node \in Range(graph.nodes),
                      node.kind = "matmul", ~CustomFed(node),
                      Port(node, tensor, "A").type # Port(node, tensor, "B").type
               PROVE  /\ Len(Port(node, tensor, "A").dim) = 3
                      /\ Port(node, tensor, "A").dim[1] = Port(node, tensor, "B").dim[1]
    BY DEF MixedProductsBatched
  <2>1. PICK k \in DOMAIN graph.nodes : node = graph.nodes[k]
    BY DEF Range
  <2>2. Multiplies(Port(node, tensor, "A"), Port(node, tensor, "B"))
    BY <2>1 DEF AllSettled, Settling, Settled
  <2>3. graph \in Cases /\ tensor \in [DOMAIN graph.choices -> Tensor]
    BY DEF TypeOK
  <2>4. NodeOf(DOMAIN graph.choices, node)
    BY <2>1, <2>3, CaseIs
  <2>5. node.port["A"] \in DOMAIN tensor /\ node.port["B"] \in DOMAIN tensor
    BY <2>3, <2>4, KindPorts DEF NodeOf
  <2>6. NotSet \notin {Port(node, tensor, "A").type, Port(node, tensor, "B").type}
    BY <2>5 DEF AcceptedTyped, Port
  <2> QED BY <2>2, <2>6 DEF Multiplies
<1> HIDE DEF TypesInv
<1> QED BY <1>1, <1>2, <1>3, TypeOKCorrect, PTL DEF Spec

-----------------------------------------------------------------------------
(* The order of the strides of a formatted tensor                          *)

\* A product over more axes is a multiple.
LEMMA ProductDivides ==
  ASSUME NEW f, NEW S, IsFiniteSet(S), \A x \in S : f[x] \in Int, NEW R \in SUBSET S
  PROVE  \E q \in Int : Product(f, S) = q * Product(f, R)
<1> DEFINE T == {s \in SUBSET S : R \subseteq s /\ ~\E q \in Int : Product(f, s) = q * Product(f, R)}
<1> SUFFICES ASSUME T # {} PROVE FALSE
  OBVIOUS
<1>1. PICK s \in T : \A y \in T : y \subseteq s => y = s
  <2>1. T \subseteq SUBSET S
    OBVIOUS
  <2> HIDE DEF T
  <2> QED BY <2>1, SmallestSet
<1>2. s \in SUBSET S /\ R \subseteq s /\ ~\E q \in Int : Product(f, s) = q * Product(f, R)
  BY <1>1
<1>3. Product(f, R) \in Int
  <2>1. IsFiniteSet(R) /\ \A x \in R : f[x] \in Int
    BY FS_Subset
  <2> QED BY <2>1, ProductInt
<1>4. s # R
  <2> SUFFICES ASSUME s = R PROVE FALSE
    OBVIOUS
  <2>1. Product(f, R) = 1 * Product(f, R)
    BY <1>3
  <2> QED BY <1>2, <2>1
<1>5. PICK x \in s : x \notin R
  BY <1>2, <1>4
<1> DEFINE u == s \ {x}
<1>6. u \in SUBSET S /\ R \subseteq u /\ u \notin T
  <2>1. u \in SUBSET S /\ R \subseteq u
    BY <1>2, <1>5
  <2>2. u # s /\ u \subseteq s
    BY <1>5
  <2> QED BY <1>1, <2>1, <2>2
<1>7. PICK q \in Int : Product(f, u) = q * Product(f, R)
  BY <1>6
<1>8. Product(f, s) = f[x] * Product(f, u) /\ f[x] \in Int
  <2>1. IsFiniteSet(s) /\ \A y \in s : f[y] \in Int
    BY <1>2, FS_Subset
  <2>2. f[x] \in Int
    BY <1>5, <2>1
  <2> QED BY <1>5, <2>1, <2>2, ProductTakes
<1> HIDE DEF T, u
<1>9. \A a, b, c \in Int : a * (b * c) = (a * b) * c /\ a * b \in Int
  OBVIOUS
<1>10. Product(f, s) = (f[x] * q) * Product(f, R) /\ f[x] * q \in Int
  BY <1>3, <1>7, <1>8, <1>9
<1> QED BY <1>2, <1>10

\* Strides in the order o of axes, all of them positive and no two the same: slower axes
\* have larger ones.
LEMMA SlowerIsLarger ==
  ASSUME NEW d \in Seq(Int), NEW o, \A i \in DOMAIN d : o[i] \in Int,
         NEW stride, stride = StrideFromDim(d, o), \A i \in DOMAIN d : stride[i] > 0,
         \A i, j \in DOMAIN d : stride[i] = stride[j] => i = j,
         NEW k \in DOMAIN d, NEW i \in DOMAIN d, o[k] < o[i]
  PROVE  stride[k] < stride[i]
<1> DEFINE S == {j \in DOMAIN d : o[j] < o[i]}
           R == {j \in DOMAIN d : o[j] < o[k]}
<1>1. IsFiniteSet(S) /\ \A x \in S : d[x] \in Int
  BY Axes, FS_Subset
<1>2. R \in SUBSET S
  <2> SUFFICES ASSUME NEW j \in DOMAIN d, o[j] < o[k] PROVE o[j] < o[i]
    OBVIOUS
  <2>1. o[j] \in Int /\ o[k] \in Int /\ o[i] \in Int
    OBVIOUS
  <2> QED BY <2>1
<1>3. stride[i] = Product(d, S) /\ stride[k] = Product(d, R)
  BY DEF StrideFromDim
<1>4. stride[i] \in Int /\ stride[k] \in Int
  <2>1. IsFiniteSet(R) /\ \A x \in R : d[x] \in Int
    BY <1>1, <1>2, FS_Subset
  <2> HIDE DEF R, S
  <2> QED BY <1>1, <1>3, <2>1, ProductInt
<1> HIDE DEF R, S
<1>5. PICK q \in Int : stride[i] = q * stride[k]
  <2>1. \E q \in Int : Product(d, S) = q * Product(d, R)
    BY <1>1, <1>2, ProductDivides
  <2> QED BY <1>3, <2>1
<1>6. stride[i] # stride[k]
  <2>1. i # k
    <3>1. o[k] \in Int
      OBVIOUS
    <3> QED BY <3>1
  <2> QED BY <2>1
<1>7. \A a, b, c \in Int : a = b * c /\ a > 0 /\ c > 0 /\ a # c => c < a
  <2> SUFFICES ASSUME NEW a \in Int, NEW b \in Int, NEW c \in Int,
                      a = b * c, a > 0, c > 0, a # c PROVE c < a
    OBVIOUS
  <2>1. CASE b <= 0
    <3>1. b * c <= 0
      BY <2>1
    <3> QED BY <3>1
  <2>2. CASE b = 1
    BY <2>2
  <2>3. CASE b >= 2
    <3>1. b * c >= 2 * c
      BY <2>3
    <3> QED BY <3>1
  <2> QED BY <2>1, <2>2, <2>3
<1>8. stride[i] > 0 /\ stride[k] > 0
  OBVIOUS
<1> HIDE DEF S
<1> QED BY <1>4, <1>5, <1>6, <1>7, <1>8

\* Orders of the same axes lay out the same dims in the same way.
LEMMA SameOrder ==
  ASSUME NEW d, NEW o, NEW order,
         \A k, i \in DOMAIN d : order[k] < order[i] <=> o[k] < o[i]
  PROVE  StrideFromDim(d, order) = StrideFromDim(d, o)
<1>1. ASSUME NEW i \in DOMAIN d
      PROVE  {j \in DOMAIN d : order[j] < order[i]} = {j \in DOMAIN d : o[j] < o[i]}
  OBVIOUS
<1> QED BY <1>1 DEF StrideFromDim

\* The places of n axes, and strides that tell axes apart.
AxisOrder(o, n) == o \in [1..n -> Int] /\ \A i, j \in 1..n : o[i] = o[j] => i = j

Untied(stride) == ~Tied(stride) /\ \A i \in DOMAIN stride : stride[i] >= 0

\* The order o is that of the strides: an order that preserves them is o again.
LEMMA PreservedOrder ==
  ASSUME NEW n \in Nat, NEW o, AxisOrder(o, n),
         NEW x \in Seq(Int), Len(x) = n, NEW stride, stride = StrideFromDim(x, o), Untied(stride),
         NEW order \in OrdersPreserving(stride, n), NEW d, DOMAIN d = 1..n
  PROVE  StrideFromDim(d, order) = StrideFromDim(d, o)
<1>0. o \in [1..n -> Int] /\ \A i, j \in 1..n : o[i] = o[j] => i = j
  BY DEF AxisOrder
<1>1. DOMAIN x = 1..n /\ DOMAIN stride = 1..n
  BY SeqParts DEF StrideFromDim
<1>2. stride \in Seq(Int) /\ Len(stride) = n /\ \A i \in 1..n : stride[i] \in Int
  <2>1. stride \in Seq(Int) /\ Len(stride) = n
    BY StrideType
  <2> QED BY <2>1, SeqParts
<1>3. /\ \A i \in 1..n : stride[i] > 0
      /\ \A i, j \in 1..n : stride[i] = stride[j] => i = j
  <2>1. \A i, j \in 1..n : stride[i] # 0 /\ (i # j => stride[i] # stride[j])
    BY <1>1 DEF Tied, Untied
  <2>2. ASSUME NEW i \in 1..n PROVE stride[i] > 0
    <3>1. stride[i] # 0 /\ stride[i] >= 0 /\ stride[i] \in Int
      BY <1>1, <1>2, <2>1 DEF Untied
    <3> QED BY <3>1
  <2> QED BY <2>1, <2>2
<1>4. \A k, i \in 1..n : o[k] < o[i] => stride[k] < stride[i]
  <2> SUFFICES ASSUME NEW k \in DOMAIN x, NEW i \in DOMAIN x, o[k] < o[i]
               PROVE  stride[k] < stride[i]
    BY <1>1
  <2>1. /\ \A j \in DOMAIN x : o[j] \in Int /\ stride[j] > 0
        /\ \A j, l \in DOMAIN x : stride[j] = stride[l] => j = l
    BY <1>0, <1>1, <1>3
  <2> QED BY <2>1, SlowerIsLarger
<1>5. \A k, i \in 1..n : stride[k] < stride[i] => o[k] < o[i]
  <2> SUFFICES ASSUME NEW k \in 1..n, NEW i \in 1..n, stride[k] < stride[i], ~(o[k] < o[i])
               PROVE  FALSE
    OBVIOUS
  <2>1. stride[k] \in Int /\ stride[i] \in Int /\ o[k] \in Int /\ o[i] \in Int
    BY <1>0, <1>2
  <2>2. o[i] < o[k] \/ o[i] = o[k]
    BY <2>1
  <2>3. CASE o[i] < o[k]
    <3>1. stride[i] < stride[k]
      BY <1>4, <2>3
    <3> QED BY <2>1, <3>1
  <2>4. CASE o[i] = o[k]
    <3>1. i = k
      BY <1>0, <2>4
    <3> QED BY <2>1, <3>1
  <2> QED BY <2>2, <2>3, <2>4
<1>6. PICK b \in Bijection(1..n, 0..n - 1) :
        /\ \A i, j \in 1..n : stride[i] < stride[j] => b[i] < b[j]
        /\ order = [i \in 1..n |-> IF i \in 1..n THEN b[i] ELSE i - 1]
  <2>1. \E b \in {c \in Bijection(DOMAIN stride, 0..Len(stride) - 1) :
                   \A i, j \in DOMAIN stride : stride[i] < stride[j] => c[i] < c[j]} :
          order = [i \in 1..n |-> IF i \in DOMAIN stride THEN b[i] ELSE i - 1]
    BY DEF OrdersPreserving
  <2>2. \E b \in {c \in Bijection(1..n, 0..n - 1) :
                   \A i, j \in 1..n : stride[i] < stride[j] => c[i] < c[j]} :
          order = [i \in 1..n |-> IF i \in 1..n THEN b[i] ELSE i - 1]
    BY <1>1, <1>2, <2>1, Zenon
  <2> QED BY <2>2
<1>7. \A i \in 1..n : order[i] = b[i] /\ b[i] \in Int
  BY <1>6 DEF Bijection, Injection
<1>8. \A k, i \in 1..n : order[k] < order[i] => stride[k] < stride[i]
  <2> SUFFICES ASSUME NEW k \in 1..n, NEW i \in 1..n, order[k] < order[i], ~(stride[k] < stride[i])
               PROVE  FALSE
    OBVIOUS
  <2>1. stride[k] \in Int /\ stride[i] \in Int /\ order[k] \in Int /\ order[i] \in Int
    BY <1>2, <1>7
  <2>2. stride[i] < stride[k] \/ stride[i] = stride[k]
    BY <2>1
  <2>3. CASE stride[i] < stride[k]
    <3>1. order[i] < order[k]
      BY <1>6, <1>7, <2>3
    <3> QED BY <2>1, <3>1
  <2>4. CASE stride[i] = stride[k]
    <3>1. i = k
      BY <1>3, <2>4
    <3> QED BY <2>1, <3>1
  <2> QED BY <2>2, <2>3, <2>4
<1>9. \A k, i \in 1..n : order[k] < order[i] <=> o[k] < o[i]
  BY <1>4, <1>5, <1>6, <1>7, <1>8
<1> QED BY <1>9, SameOrder

LEMMA FormatOrders ==
  ASSUME NEW n \in Nat, n >= 1
  PROVE  AxisOrder(ContiguousOrder(n), n) /\ AxisOrder(ChannelsLastOrder(n), n)
<1>1. ASSUME NEW i \in 1..n
      PROVE  /\ ContiguousOrder(n)[i] = n - i
             /\ ChannelsLastOrder(n)[i] = IF i = 1 THEN n - 1 ELSE IF i = 2 THEN 0 ELSE n - i + 1
  BY DEF ContiguousOrder, ChannelsLastOrder
<1>2. ContiguousOrder(n) = [i \in 1..n |-> ContiguousOrder(n)[i]]
         /\ ChannelsLastOrder(n) = [i \in 1..n |-> ChannelsLastOrder(n)[i]]
  BY DEF ContiguousOrder, ChannelsLastOrder
<1>3. \A i \in 1..n : ContiguousOrder(n)[i] \in Int /\ ChannelsLastOrder(n)[i] \in Int
  BY <1>1
<1>4. ContiguousOrder(n) \in [1..n -> Int] /\ ChannelsLastOrder(n) \in [1..n -> Int]
  BY <1>2, <1>3
<1>5. \A i, j \in 1..n : ContiguousOrder(n)[i] = ContiguousOrder(n)[j] => i = j
  BY <1>1
<1>6. \A i, j \in 1..n : ChannelsLastOrder(n)[i] = ChannelsLastOrder(n)[j] => i = j
  <2> SUFFICES ASSUME NEW i \in 1..n, NEW j \in 1..n,
                      ChannelsLastOrder(n)[i] = ChannelsLastOrder(n)[j]
               PROVE  i = j
    OBVIOUS
  <2>1. (IF i = 1 THEN n - 1 ELSE IF i = 2 THEN 0 ELSE n - i + 1)
          = (IF j = 1 THEN n - 1 ELSE IF j = 2 THEN 0 ELSE n - j + 1)
    BY <1>1
  <2> QED BY <2>1
<1> QED BY <1>4, <1>5, <1>6 DEF AxisOrder

\* What is laid out in the order of a formatted tensor is formatted.
LEMMA OrderIsFormat ==
  ASSUME NEW t \in Tensor, Formatted(t), Len(t.dim) >= 1,
         Untied(t.stride),
         NEW order \in OrdersPreserving(t.stride, Len(t.dim)),
         NEW d \in Seq(Int), Len(d) = Len(t.dim)
  PROVE  StrideFromDim(d, order) \in {ContiguousStride(d), ChannelsLastStride(d)}
<1> DEFINE n == Len(t.dim)
<1>1. t.dim \in Seq(Int) /\ n \in Nat /\ n >= 1 /\ DOMAIN d = 1..n
  <2>1. t.dim \in Seq(Int)
    BY DEF Tensor
  <2> QED BY <2>1, SeqParts
<1>2. ASSUME NEW o, AxisOrder(o, n), t.stride = StrideFromDim(t.dim, o)
      PROVE  StrideFromDim(d, order) = StrideFromDim(d, o)
  BY <1>1, <1>2, PreservedOrder
<1>3. CASE IsContiguous(t)
  BY <1>1, <1>2, <1>3, FormatOrders DEF IsContiguous, ContiguousStride
<1>4. CASE IsChannelsLast(t)
  BY <1>1, <1>2, <1>4, FormatOrders DEF IsChannelsLast, ChannelsLastStride
<1> QED BY <1>3, <1>4 DEF Formatted

-----------------------------------------------------------------------------
(* What a node's checks look at                                            *)

\* The ports whose dims a node's checks look at, and those whose strides.
DimsRead(node) ==
  CASE node.kind = "fprop"     -> {"X", "W", "Y"}
    [] node.kind = "wgrad"     -> {"DY", "X", "DW"}
    [] node.kind = "dgrad"     -> {"DY", "W", "DX"}
    [] node.kind = "matmul"    -> {"A", "B", "C"}
    [] node.kind = "pointwise" -> {"OUT_0"}
    [] node.kind = "reduction" -> {"X", "Y"}
    [] node.kind = "layernorm" ->
         {"X", "Y", "SCALE", "BIAS", "MEAN", "INV_VARIANCE"} \cap DOMAIN node.port
    [] node.kind = "rmsnorm"   -> {"X", "Y", "SCALE", "INV_RMS"} \cap DOMAIN node.port
    [] node.kind = "batchnorm" -> {"X", "Y"} \cup ChannelPorts(node)
    [] node.kind = "sdpa"      -> {"Q", "K", "V", "MASK", "O"} \cap DOMAIN node.port
    [] OTHER                   -> {}

StridesRead(node) ==
  CASE node.kind = "reduction" -> {"Y"}
    [] node.kind = "sdpa"      -> {"O"}
    [] OTHER                   -> DimsRead(node)

\* They are set, so that no node changes them.
Known(node, ts) ==
  /\ \A p \in DimsRead(node) : Port(node, ts, p).dim # <<>>
  /\ \A p \in StridesRead(node) : Port(node, ts, p).stride # <<>>

\* What a second validate needs besides: types of a product that fit, and a norm whose
\* input tells its axes apart.
Regular(node, ts) ==
  /\ node.kind = "matmul" => MixedFits(Port(node, ts, "A"), Port(node, ts, "B"))
  /\ node.kind \in {"layernorm", "rmsnorm"} => Untied(Port(node, ts, "X").stride)

\* The node passes its checks again.
Again(node, ts) ==
  Known(node, ts) /\ PostValid(node, ts) /\ (Regular(node, ts) => PreValid(node, ts))

\* The checks see the same.
Alike(node, ts, us) ==
  /\ \A p \in DOMAIN node.port : Port(node, us, p).scalar = Port(node, ts, p).scalar
  /\ \A p \in DimsRead(node) : Port(node, us, p).dim = Port(node, ts, p).dim
  /\ \A p \in StridesRead(node) : Port(node, us, p).stride = Port(node, ts, p).stride
  /\ node.kind \in {"matmul", "reduction"} =>
       \A p \in DimsRead(node) : Port(node, us, p).type = Port(node, ts, p).type

\* BatchOutermost of these dims and strides.
Outermost(dim, stride) ==
  LET axes == {i \in DOMAIN dim : dim[i] # 1 /\ stride[i] # 0}
      slower(i) == {j \in axes : stride[j] > stride[i]}
                     \cup {j \in axes : stride[j] = stride[i] /\ j < i}
      perm == [i \in DOMAIN dim |->
                 IF i \in axes
                   THEN CHOOSE j \in axes :
                          Cardinality(slower(j)) = Cardinality({k \in axes : k < i})
                   ELSE i]
  IN  \A i \in 1..Len(dim) - 2 : perm[i] = i

LEMMA OutermostIs == \A t : BatchOutermost(t) <=> Outermost(t.dim, t.stride)
BY DEF BatchOutermost, BatchAxes, LogicalToPhysical, SortedAxes, Reorderable, Slower, Outermost

LEMMA SameFormat ==
  ASSUME NEW t, NEW u, u.dim = t.dim, u.stride = t.stride
  PROVE  /\ Formatted(u) <=> Formatted(t)
         /\ BatchOutermost(u) <=> BatchOutermost(t)
<1>1. Formatted(u) <=> Formatted(t)
  BY DEF Formatted, IsContiguous, IsChannelsLast
<1>2. BatchOutermost(u) <=> BatchOutermost(t)
  BY OutermostIs
<1> QED BY <1>1, <1>2

LEMMA SameConvInputs ==
  ASSUME NEW node, NEW x, NEW w, NEW y, NEW v,
         y.dim = x.dim, y.stride = x.stride, v.dim = w.dim, v.stride = w.stride
  PROVE  ConvInputsValid(node, y, v) <=> ConvInputsValid(node, x, w)
<1>1. (Formatted(y) <=> Formatted(x)) /\ (Formatted(v) <=> Formatted(w))
  BY SameFormat
<1> QED BY <1>1 DEF ConvInputsValid

LEMMA FPropAlike ==
  ASSUME NEW node, NEW ts, NEW us, node.kind = "fprop", Alike(node, ts, us)
  PROVE  /\ PreValid(node, ts) => PreValid(node, us)
         /\ PostValid(node, ts) => PostValid(node, us)
<1> DEFINE x == Port(node, ts, "X")
           w == Port(node, ts, "W")
           y == Port(node, ts, "Y")
           xx == Port(node, us, "X")
           ww == Port(node, us, "W")
           yy == Port(node, us, "Y")
<1>1. DimsRead(node) = {"X", "W", "Y"} /\ StridesRead(node) = {"X", "W", "Y"}
  BY DEF DimsRead, StridesRead
<1>2. /\ xx.dim = x.dim /\ ww.dim = w.dim /\ yy.dim = y.dim
      /\ xx.stride = x.stride /\ ww.stride = w.stride /\ yy.stride = y.stride
  BY <1>1 DEF Alike
<1>3. /\ PreValid(node, ts) <=> ConvFPropPre(node, ts)
      /\ PreValid(node, us) <=> ConvFPropPre(node, us)
      /\ PostValid(node, ts) <=> ConvFPropPost(node, ts)
      /\ PostValid(node, us) <=> ConvFPropPost(node, us)
  BY DEF PreValid, PostValid
<1>4. /\ ConvFPropPre(node, ts) <=> /\ ConvInputsValid(node, x, w) /\ Len(x.dim) = Len(w.dim)
                                    /\ GroupsValid(x.dim[2], w.dim[1], w.dim[2])
      /\ ConvFPropPre(node, us) <=> /\ ConvInputsValid(node, xx, ww) /\ Len(xx.dim) = Len(ww.dim)
                                    /\ GroupsValid(xx.dim[2], ww.dim[1], ww.dim[2])
      /\ ConvFPropPost(node, ts) <=> Len(y.dim) = Len(x.dim) /\ ConvResultValid(node, x, w, y, y)
      /\ ConvFPropPost(node, us) <=> Len(yy.dim) = Len(xx.dim) /\ ConvResultValid(node, xx, ww, yy, yy)
  BY DEF ConvFPropPre, ConvFPropPost
<1> HIDE DEF x, w, y, xx, ww, yy
<1>5. ConvInputsValid(node, xx, ww) <=> ConvInputsValid(node, x, w)
  BY <1>2, SameConvInputs
<1>6. ConvResultValid(node, xx, ww, yy, yy) <=> ConvResultValid(node, x, w, y, y)
  BY <1>2, SameFormat DEF ConvResultValid
<1> QED BY <1>2, <1>3, <1>4, <1>5, <1>6

LEMMA WGradAlike ==
  ASSUME NEW node, NEW ts, NEW us, node.kind = "wgrad", Alike(node, ts, us)
  PROVE  /\ PreValid(node, ts) => PreValid(node, us)
         /\ PostValid(node, ts) => PostValid(node, us)
<1> DEFINE x == Port(node, ts, "X")
           w == Port(node, ts, "DW")
           y == Port(node, ts, "DY")
           xx == Port(node, us, "X")
           ww == Port(node, us, "DW")
           yy == Port(node, us, "DY")
<1>1. DimsRead(node) = {"DY", "X", "DW"} /\ StridesRead(node) = {"DY", "X", "DW"}
  BY DEF DimsRead, StridesRead
<1>2. /\ xx.dim = x.dim /\ ww.dim = w.dim /\ yy.dim = y.dim
      /\ xx.stride = x.stride /\ ww.stride = w.stride /\ yy.stride = y.stride
  BY <1>1 DEF Alike
<1>3. /\ PreValid(node, ts) <=> ConvWGradPre(node, ts)
      /\ PreValid(node, us) <=> ConvWGradPre(node, us)
      /\ PostValid(node, ts) <=> ConvWGradPost(node, ts)
      /\ PostValid(node, us) <=> ConvWGradPost(node, us)
  BY DEF PreValid, PostValid
<1>4. /\ ConvWGradPre(node, ts) <=> /\ ConvInputsValid(node, y, x) /\ Len(y.dim) = Len(x.dim)
                                    /\ GroupsValid(x.dim[2], y.dim[2], w.dim[2])
      /\ ConvWGradPre(node, us) <=> /\ ConvInputsValid(node, yy, xx) /\ Len(yy.dim) = Len(xx.dim)
                                    /\ GroupsValid(xx.dim[2], yy.dim[2], ww.dim[2])
      /\ ConvWGradPost(node, ts) <=> ConvResultValid(node, x, w, y, w)
      /\ ConvWGradPost(node, us) <=> ConvResultValid(node, xx, ww, yy, ww)
  BY DEF ConvWGradPre, ConvWGradPost
<1> HIDE DEF x, w, y, xx, ww, yy
<1>5. ConvInputsValid(node, yy, xx) <=> ConvInputsValid(node, y, x)
  BY <1>2, SameConvInputs
<1>6. ConvResultValid(node, xx, ww, yy, ww) <=> ConvResultValid(node, x, w, y, w)
  BY <1>2, SameFormat DEF ConvResultValid
<1> QED BY <1>2, <1>3, <1>4, <1>5, <1>6

LEMMA DGradAlike ==
  ASSUME NEW node, NEW ts, NEW us, node.kind = "dgrad", Alike(node, ts, us)
  PROVE  /\ PreValid(node, ts) => PreValid(node, us)
         /\ PostValid(node, ts) => PostValid(node, us)
<1> DEFINE x == Port(node, ts, "DX")
           w == Port(node, ts, "W")
           y == Port(node, ts, "DY")
           xx == Port(node, us, "DX")
           ww == Port(node, us, "W")
           yy == Port(node, us, "DY")
<1>1. DimsRead(node) = {"DY", "W", "DX"} /\ StridesRead(node) = {"DY", "W", "DX"}
  BY DEF DimsRead, StridesRead
<1>2. /\ xx.dim = x.dim /\ ww.dim = w.dim /\ yy.dim = y.dim
      /\ xx.stride = x.stride /\ ww.stride = w.stride /\ yy.stride = y.stride
  BY <1>1 DEF Alike
<1>3. /\ PreValid(node, ts) <=> ConvDGradPre(node, ts)
      /\ PreValid(node, us) <=> ConvDGradPre(node, us)
      /\ PostValid(node, ts) <=> ConvDGradPost(node, ts)
      /\ PostValid(node, us) <=> ConvDGradPost(node, us)
  BY DEF PreValid, PostValid
<1>4. /\ ConvDGradPre(node, ts) <=> ConvInputsValid(node, y, w) /\ GroupsValid(x.dim[2], w.dim[1], w.dim[2])
      /\ ConvDGradPre(node, us) <=> ConvInputsValid(node, yy, ww) /\ GroupsValid(xx.dim[2], ww.dim[1], ww.dim[2])
      /\ ConvDGradPost(node, ts) <=> Len(y.dim) = Len(x.dim) /\ ConvResultValid(node, x, w, y, x)
      /\ ConvDGradPost(node, us) <=> Len(yy.dim) = Len(xx.dim) /\ ConvResultValid(node, xx, ww, yy, xx)
  BY DEF ConvDGradPre, ConvDGradPost
<1> HIDE DEF x, w, y, xx, ww, yy
<1>5. ConvInputsValid(node, yy, ww) <=> ConvInputsValid(node, y, w)
  BY <1>2, SameConvInputs
<1>6. ConvResultValid(node, xx, ww, yy, xx) <=> ConvResultValid(node, x, w, y, x)
  BY <1>2, SameFormat DEF ConvResultValid
<1> QED BY <1>2, <1>3, <1>4, <1>5, <1>6

LEMMA MatmulAlike ==
  ASSUME NEW node, NEW ts, NEW us, node.kind = "matmul", Alike(node, ts, us)
  PROVE  /\ PreValid(node, ts) => PreValid(node, us)
         /\ PostValid(node, ts) => PostValid(node, us)
         /\ Regular(node, us) => Regular(node, ts)
<1> DEFINE a == Port(node, ts, "A")
           b == Port(node, ts, "B")
           c == Port(node, ts, "C")
           aa == Port(node, us, "A")
           bb == Port(node, us, "B")
           cc == Port(node, us, "C")
<1>1. DimsRead(node) = {"A", "B", "C"} /\ StridesRead(node) = {"A", "B", "C"}
  BY DEF DimsRead, StridesRead
<1>2. /\ aa.dim = a.dim /\ bb.dim = b.dim /\ cc.dim = c.dim
      /\ aa.stride = a.stride /\ bb.stride = b.stride /\ cc.stride = c.stride
      /\ aa.type = a.type /\ bb.type = b.type
  BY <1>1 DEF Alike
<1>3. /\ PreValid(node, ts) <=> MatmulPre(node, ts)
      /\ PreValid(node, us) <=> MatmulPre(node, us)
      /\ PostValid(node, ts) <=> MatmulPost(node, ts)
      /\ PostValid(node, us) <=> MatmulPost(node, us)
      /\ Regular(node, ts) <=> MixedFits(a, b)
      /\ Regular(node, us) <=> MixedFits(aa, bb)
  BY DEF PreValid, PostValid, Regular
<1> HIDE DEF a, b, c, aa, bb, cc
<1>4. BatchAxes(aa) = BatchAxes(a) /\ (MixedFits(aa, bb) <=> MixedFits(a, b))
  BY <1>2 DEF BatchAxes, MixedFits
<1>5. /\ BatchOutermost(aa) <=> BatchOutermost(a)
      /\ BatchOutermost(bb) <=> BatchOutermost(b)
      /\ BatchOutermost(cc) <=> BatchOutermost(c)
  BY <1>2, SameFormat
<1>6. MatmulPre(node, ts) => MatmulPre(node, us)
  BY <1>2, <1>4, <1>5 DEF MatmulPre, a, b, aa, bb
<1>7. MatmulPost(node, ts) => MatmulPost(node, us)
  BY <1>2, <1>5 DEF MatmulPost, a, b, c, aa, bb, cc
<1> QED BY <1>3, <1>4, <1>6, <1>7

LEMMA PointwiseAlike ==
  ASSUME NEW node, NEW ts, NEW us, node.kind = "pointwise", Alike(node, ts, us)
  PROVE  /\ PreValid(node, ts) => PreValid(node, us)
         /\ PostValid(node, ts) => PostValid(node, us)
<1>1. DimsRead(node) = {"OUT_0"} /\ StridesRead(node) = {"OUT_0"}
  BY DEF DimsRead, StridesRead
<1>2. PreValid(node, ts) => PreValid(node, us)
  BY DEF PreValid, PointwisePre
<1>3. PostValid(node, ts) => PostValid(node, us)
  BY <1>1 DEF PostValid, PointwisePost, Alike
<1> QED BY <1>2, <1>3

LEMMA ReductionAlike ==
  ASSUME NEW node, NEW ts, NEW us, node.kind = "reduction", Alike(node, ts, us)
  PROVE  /\ PreValid(node, ts) => PreValid(node, us)
         /\ PostValid(node, ts) => PostValid(node, us)
<1>1. DimsRead(node) = {"X", "Y"}
  BY DEF DimsRead
<1>2. \A p \in {"X", "Y"} : /\ Port(node, us, p).dim = Port(node, ts, p).dim
                           /\ Port(node, us, p).type = Port(node, ts, p).type
  BY <1>1 DEF Alike
<1>3. PreValid(node, ts) => PreValid(node, us)
  BY <1>2 DEF PreValid, ReductionPre
<1>4. PostValid(node, ts) => PostValid(node, us)
  <2>1. ReductionPost(node, ts) => ReductionPost(node, us)
    BY <1>2 DEF ReductionPost
  <2> QED BY <2>1 DEF PostValid
<1> QED BY <1>3, <1>4

LEMMA SdpaAlike ==
  ASSUME NEW D, NEW node, NodeOf(D, node), NEW ts, NEW us, node.kind = "sdpa", Alike(node, ts, us)
  PROVE  /\ PreValid(node, ts) => PreValid(node, us)
         /\ PostValid(node, ts) => PostValid(node, us)
<1>1. {"Q", "K", "V", "O"} \subseteq DimsRead(node) /\ (Has(node, "MASK") => "MASK" \in DimsRead(node))
  BY KindPorts DEF DimsRead, Has
<1>2. /\ Port(node, us, "Q").dim = Port(node, ts, "Q").dim
      /\ Port(node, us, "K").dim = Port(node, ts, "K").dim
      /\ Port(node, us, "V").dim = Port(node, ts, "V").dim
      /\ Port(node, us, "O").dim = Port(node, ts, "O").dim
      /\ Has(node, "MASK") => Port(node, us, "MASK").dim = Port(node, ts, "MASK").dim
  BY <1>1 DEF Alike
<1>3. SdpaPre(node, ts) => SdpaPre(node, us)
  BY <1>2 DEF SdpaPre
<1>4. SdpaPost(node, ts) => SdpaPost(node, us)
  BY <1>2 DEF SdpaPost, SdpaShape
<1> QED BY <1>3, <1>4 DEF PreValid, PostValid

LEMMA BatchNormAlike ==
  ASSUME NEW node, NEW ts, NEW us, node.kind = "batchnorm", Alike(node, ts, us)
  PROVE  /\ PreValid(node, ts) => PreValid(node, us)
         /\ PostValid(node, ts) => PostValid(node, us)
<1>1. DimsRead(node) = {"X", "Y"} \cup ChannelPorts(node) /\ StridesRead(node) = DimsRead(node)
  BY DEF DimsRead, StridesRead
<1>2. \A p \in {"X", "Y"} \cup ChannelPorts(node) :
        Port(node, us, p).dim = Port(node, ts, p).dim /\ Port(node, us, p).stride = Port(node, ts, p).stride
  BY <1>1 DEF Alike
<1>3. \A p \in {"X", "Y"} : Formatted(Port(node, us, p)) <=> Formatted(Port(node, ts, p))
  BY <1>2, SameFormat
<1>4. \A p : IsScalar(node, us, p) <=> IsScalar(node, ts, p)
  BY DEF Alike, IsScalar, Has
<1>5. BatchNormPre(node, ts) => BatchNormPre(node, us)
  BY <1>2, <1>3, <1>4 DEF BatchNormPre
<1>6. BatchNormPost(node, ts) => BatchNormPost(node, us)
  BY <1>2, <1>3 DEF BatchNormPost
<1> QED BY <1>5, <1>6 DEF PreValid, PostValid

LEMMA NormAlike ==
  ASSUME NEW D, NEW node, NodeOf(D, node), NEW ts, NEW us, node.kind \in {"layernorm", "rmsnorm"},
         Alike(node, ts, us)
  PROVE  /\ PreValid(node, ts) => PreValid(node, us)
         /\ PostValid(node, ts) => PostValid(node, us)
         /\ Regular(node, us) => Regular(node, ts)
<1>1. /\ {"X", "Y"} \subseteq DimsRead(node) /\ StridesRead(node) = DimsRead(node)
      /\ node.kind = "layernorm" =>
           {"SCALE", "BIAS", "MEAN", "INV_VARIANCE"} \cap DOMAIN node.port \subseteq DimsRead(node)
      /\ node.kind = "rmsnorm" => {"SCALE", "INV_RMS"} \cap DOMAIN node.port \subseteq DimsRead(node)
  BY KindPorts DEF DimsRead, StridesRead
<1>2. \A p \in DimsRead(node) :
        Port(node, us, p).dim = Port(node, ts, p).dim /\ Port(node, us, p).stride = Port(node, ts, p).stride
  BY <1>1 DEF Alike
<1>3. \A p \in DimsRead(node) : Formatted(Port(node, us, p)) <=> Formatted(Port(node, ts, p))
  BY <1>2, SameFormat
<1>4. \A p : IsScalar(node, us, p) <=> IsScalar(node, ts, p)
  BY DEF Alike, IsScalar, Has
<1>5. \A scales : /\ scales \cap DOMAIN node.port \subseteq DimsRead(node)
                  /\ NormInputsValid(node, ts, scales)
                  => NormInputsValid(node, us, scales)
  BY <1>1, <1>2, <1>3, <1>4 DEF NormInputsValid
<1>6. \A statistics : /\ statistics \cap DOMAIN node.port \subseteq DimsRead(node)
                      /\ NormResultValid(node, ts, statistics)
                      => NormResultValid(node, us, statistics)
  BY <1>1, <1>2, <1>3 DEF NormResultValid
<1>7. Regular(node, us) => Regular(node, ts)
  BY <1>1, <1>2 DEF Regular
<1>8. CASE node.kind = "layernorm"
  <2>1. LayerNormPre(node, ts) => LayerNormPre(node, us)
    BY <1>1, <1>5, <1>8 DEF LayerNormPre
  <2>2. LayerNormPost(node, ts) => LayerNormPost(node, us)
    BY <1>1, <1>6, <1>8 DEF LayerNormPost
  <2> QED BY <1>7, <1>8, <2>1, <2>2 DEF PreValid, PostValid
<1>9. CASE node.kind = "rmsnorm"
  <2>1. RmsNormPre(node, ts) => RmsNormPre(node, us)
    BY <1>1, <1>5, <1>9 DEF RmsNormPre
  <2>2. RmsNormPost(node, ts) => RmsNormPost(node, us)
    BY <1>1, <1>6, <1>9 DEF RmsNormPost
  <2> QED BY <1>7, <1>9, <2>1, <2>2 DEF PreValid, PostValid
<1> QED BY <1>8, <1>9

\* What passes again passes again when the checks see the same.
LEMMA AgainAlike ==
  ASSUME NEW D, NEW node, NodeOf(D, node), NEW ts, NEW us, Alike(node, ts, us), Again(node, ts)
  PROVE  Again(node, us)
<1>1. Known(node, us)
  BY DEF Again, Known, Alike
<1>2. SUFFICES /\ PreValid(node, ts) => PreValid(node, us)
               /\ PostValid(node, ts) => PostValid(node, us)
               /\ Regular(node, us) => Regular(node, ts)
  BY <1>1 DEF Again
<1>3. node.kind \notin {"matmul", "layernorm", "rmsnorm"} => Regular(node, ts)
  BY DEF Regular
<1>4. CASE node.kind \in {"fprop", "wgrad", "dgrad"}
  BY <1>3, <1>4, FPropAlike, WGradAlike, DGradAlike
<1>5. CASE node.kind = "matmul"
  BY <1>5, MatmulAlike
<1>6. CASE node.kind \in {"pointwise", "reduction"}
  BY <1>3, <1>6, PointwiseAlike, ReductionAlike
<1>7. CASE node.kind = "sdpa"
  BY <1>3, <1>7, SdpaAlike
<1>8. CASE node.kind = "batchnorm"
  BY <1>3, <1>8, BatchNormAlike
<1>9. CASE node.kind \in {"layernorm", "rmsnorm"}
  BY <1>9, NormAlike
<1>10. CASE node.kind \notin {"fprop", "wgrad", "dgrad", "matmul", "pointwise", "reduction",
                              "layernorm", "rmsnorm", "batchnorm", "sdpa"}
  <2>1. /\ PreValid(node, ts) <=> CustomPre(node, ts)
        /\ PreValid(node, us) <=> CustomPre(node, us)
        /\ PostValid(node, us)
    BY <1>10 DEF PreValid, PostValid
  <2>2. CustomPre(node, ts) => CustomPre(node, us)
    BY DEF CustomPre, Alike
  <2> QED BY <1>3, <1>10, <2>1, <2>2
<1> QED BY <1>4, <1>5, <1>6, <1>7, <1>8, <1>9, <1>10

-----------------------------------------------------------------------------
(* A node that passes, passes again                                        *)

LEMMA PortsRead ==
  ASSUME NEW D, NEW node, NodeOf(D, node)
  PROVE  DimsRead(node) \subseteq DOMAIN node.port /\ StridesRead(node) \subseteq DimsRead(node)
<1>1. CASE node.kind \in {"fprop", "wgrad", "dgrad", "matmul", "pointwise"}
  BY <1>1, KindPorts DEF DimsRead, StridesRead
<1>2. CASE node.kind \in {"reduction", "sdpa"}
  BY <1>2, KindPorts DEF DimsRead, StridesRead
<1>3. CASE node.kind \in {"layernorm", "rmsnorm", "batchnorm"}
  BY <1>3, KindPorts DEF DimsRead, StridesRead, ChannelPorts
<1>4. CASE node.kind \notin {"fprop", "wgrad", "dgrad", "matmul", "pointwise", "reduction",
                             "layernorm", "rmsnorm", "batchnorm", "sdpa"}
  BY <1>4 DEF DimsRead, StridesRead
<1> QED BY <1>1, <1>2, <1>3, <1>4

\* What is set stays.
LEMMA SetPort ==
  ASSUME NEW D, NEW ts, NEW us, Grown(D, ts, us), NEW node, NodeOf(D, node),
         NEW p \in DOMAIN node.port
  PROVE  /\ Port(node, ts, p).dim # <<>> => Port(node, us, p).dim = Port(node, ts, p).dim
         /\ Port(node, ts, p).stride # <<>> => Port(node, us, p).stride = Port(node, ts, p).stride
         /\ Port(node, us, p).scalar = Port(node, ts, p).scalar
         /\ Port(node, us, p) \in Tensor
BY DEF Grown, NodeOf, Port

LEMMA KnownStays ==
  ASSUME NEW D, NEW ts, NEW us, Grown(D, ts, us), NEW node, NodeOf(D, node), Known(node, ts),
         node.kind # "custom" => \A i \in Range(node.port) : us[i].type = ts[i].type
  PROVE  Alike(node, ts, us)
<1>1. \A p \in DOMAIN node.port : Port(node, us, p).scalar = Port(node, ts, p).scalar
  BY SetPort
<1>2. \A p \in DimsRead(node) : Port(node, us, p).dim = Port(node, ts, p).dim
  BY SetPort, PortsRead DEF Known
<1>3. \A p \in StridesRead(node) : Port(node, us, p).stride = Port(node, ts, p).stride
  BY SetPort, PortsRead DEF Known
<1>4. node.kind \in {"matmul", "reduction"} =>
        \A p \in DimsRead(node) : Port(node, us, p).type = Port(node, ts, p).type
  BY PortsRead DEF Port, Range
<1> QED BY <1>1, <1>2, <1>3, <1>4 DEF Alike

\* Dims that are set have a rank, and a stride of that rank is set.
LEMMA RankIsSet ==
  ASSUME NEW d \in Seq(Int)
  PROVE  /\ Len(d) \in Nat /\ (d # <<>> <=> Len(d) >= 1)
         /\ \A order : StrideFromDim(d, order) = <<>> => d = <<>>
         /\ ContiguousStride(d) = <<>> => d = <<>>
         /\ ChannelsLastStride(d) = <<>> => d = <<>>
<1>1. Len(d) \in Nat /\ (d # <<>> <=> Len(d) >= 1)
  OBVIOUS
<1>2. \A order : StrideFromDim(d, order) = <<>> => d = <<>>
  <2> TAKE order
  <2>1. Len(StrideFromDim(d, order)) = Len(d)
    BY StrideType
  <2>2. Len(<<>>) = 0
    OBVIOUS
  <2> QED BY <1>1, <2>1, <2>2
<1> QED BY <1>1, <1>2 DEF ContiguousStride, ChannelsLastStride

LEMMA FormattedIsSet ==
  ASSUME NEW t \in Tensor, Formatted(t), t.dim # <<>>
  PROVE  t.stride # <<>>
<1>1. t.dim \in Seq(Int)
  BY DEF Tensor
<1> QED BY <1>1, RankIsSet DEF Formatted, IsContiguous, IsChannelsLast

\* An input that is formatted, before and after a node is validated.
LEMMA FormattedPort ==
  ASSUME NEW D, NEW ts \in [D -> Tensor], NEW us, Grown(D, ts, us), NEW node, NodeOf(D, node),
         NEW p \in DOMAIN node.port, Port(node, ts, p).dim # <<>>, Formatted(Port(node, ts, p))
  PROVE  /\ Port(node, us, p).dim = Port(node, ts, p).dim
         /\ Port(node, us, p).stride = Port(node, ts, p).stride
         /\ Port(node, us, p).dim # <<>> /\ Port(node, us, p).stride # <<>>
<1>1. Port(node, ts, p) \in Tensor
  BY PortIs
<1>2. Port(node, ts, p).stride # <<>>
  BY <1>1, FormattedIsSet
<1> QED BY <1>2, SetPort

\* An output that is formatted, and of some rank.
LEMMA FormattedResult ==
  ASSUME NEW D, NEW us \in [D -> Tensor], NEW node, NodeOf(D, node), NEW p \in DOMAIN node.port,
         Len(Port(node, us, p).dim) >= 2 \/ Len(Port(node, us, p).dim) >= 3,
         Formatted(Port(node, us, p))
  PROVE  Port(node, us, p).dim # <<>> /\ Port(node, us, p).stride # <<>>
<1>1. Port(node, us, p) \in Tensor
  BY PortIs
<1>2. Port(node, us, p).dim # <<>>
  BY LongIsSet
<1> QED BY <1>1, <1>2, FormattedIsSet

LEMMA FPropAgain ==
  ASSUME NEW D, NEW ts \in [D -> Tensor], NEW us, Grown(D, ts, us), NEW node, NodeOf(D, node),
         node.kind = "fprop", PreValid(node, ts), PostValid(node, us)
  PROVE  Again(node, us)
<1> DEFINE x == Port(node, ts, "X")
           w == Port(node, ts, "W")
           xx == Port(node, us, "X")
           ww == Port(node, us, "W")
           yy == Port(node, us, "Y")
<1>1. {"X", "W", "Y"} \subseteq DOMAIN node.port /\ us \in [D -> Tensor]
  BY KindPorts DEF Grown
<1>2. ConvFPropPre(node, ts) /\ ConvFPropPost(node, us)
  BY DEF PreValid, PostValid
<1>3. /\ ConvInputsValid(node, x, w) /\ Len(x.dim) = Len(w.dim)
      /\ GroupsValid(x.dim[2], w.dim[1], w.dim[2])
  BY <1>2 DEF ConvFPropPre
<1>4. Len(yy.dim) >= 3 /\ Formatted(yy)
  BY <1>2 DEF ConvFPropPost, ConvResultValid
<1>5. x.dim # <<>> /\ w.dim # <<>> /\ Formatted(x) /\ Formatted(w)
  BY <1>3, LongIsSet DEF ConvInputsValid
<1>6. /\ xx.dim = x.dim /\ xx.stride = x.stride /\ xx.dim # <<>> /\ xx.stride # <<>>
      /\ ww.dim = w.dim /\ ww.stride = w.stride /\ ww.dim # <<>> /\ ww.stride # <<>>
  BY <1>1, <1>5, FormattedPort
<1>7. yy.dim # <<>> /\ yy.stride # <<>>
  BY <1>1, <1>4, FormattedResult
<1> HIDE DEF x, w, xx, ww, yy
<1>8. ConvInputsValid(node, xx, ww)
  BY <1>3, <1>6, SameConvInputs
<1>9. ConvFPropPre(node, us)
  BY <1>3, <1>6, <1>8 DEF ConvFPropPre, xx, ww
<1>10. Known(node, us)
  BY <1>6, <1>7 DEF Known, DimsRead, StridesRead, xx, ww, yy
<1> QED BY <1>9, <1>10 DEF Again, PreValid

LEMMA WGradAgain ==
  ASSUME NEW D, NEW ts \in [D -> Tensor], NEW us, Grown(D, ts, us), NEW node, NodeOf(D, node),
         node.kind = "wgrad", PreValid(node, ts), PostValid(node, us),
         Port(node, ts, "DW").dim = <<>> => Port(node, us, "DW").dim = <<>>
  PROVE  Again(node, us)
<1> DEFINE x == Port(node, ts, "X")
           w == Port(node, ts, "DW")
           y == Port(node, ts, "DY")
           xx == Port(node, us, "X")
           ww == Port(node, us, "DW")
           yy == Port(node, us, "DY")
<1>1. {"DY", "X", "DW"} \subseteq DOMAIN node.port /\ us \in [D -> Tensor]
  BY KindPorts DEF Grown
<1>2. ConvWGradPre(node, ts) /\ ConvWGradPost(node, us)
  BY DEF PreValid, PostValid
<1>3. /\ ConvInputsValid(node, y, x) /\ Len(y.dim) = Len(x.dim)
      /\ GroupsValid(x.dim[2], y.dim[2], w.dim[2])
  BY <1>2 DEF ConvWGradPre
<1>4. Len(ww.dim) >= 3 /\ Formatted(ww)
  BY <1>2 DEF ConvWGradPost, ConvResultValid
<1>5. x.dim # <<>> /\ y.dim # <<>> /\ Formatted(x) /\ Formatted(y)
  BY <1>3, LongIsSet DEF ConvInputsValid
<1>6. /\ xx.dim = x.dim /\ xx.stride = x.stride /\ xx.dim # <<>> /\ xx.stride # <<>>
      /\ yy.dim = y.dim /\ yy.stride = y.stride /\ yy.dim # <<>> /\ yy.stride # <<>>
  BY <1>1, <1>5, FormattedPort
<1>7. ww.dim # <<>> /\ ww.stride # <<>>
  BY <1>1, <1>4, FormattedResult
<1>8. ww.dim = w.dim
  <2>1. w.dim # <<>>
    BY <1>7
  <2> QED BY <1>1, <2>1, SetPort
<1> HIDE DEF x, w, y, xx, ww, yy
<1>9. ConvInputsValid(node, yy, xx)
  BY <1>3, <1>6, SameConvInputs
<1>10. ConvWGradPre(node, us)
  BY <1>3, <1>6, <1>8, <1>9 DEF ConvWGradPre, xx, yy, ww
<1>11. Known(node, us)
  BY <1>6, <1>7 DEF Known, DimsRead, StridesRead, xx, ww, yy
<1> QED BY <1>10, <1>11 DEF Again, PreValid

LEMMA DGradAgain ==
  ASSUME NEW D, NEW ts \in [D -> Tensor], NEW us, Grown(D, ts, us), NEW node, NodeOf(D, node),
         node.kind = "dgrad", PreValid(node, ts), PostValid(node, us),
         Port(node, ts, "DX").dim = <<>> => Port(node, us, "DX").dim = <<>>
  PROVE  Again(node, us)
<1> DEFINE x == Port(node, ts, "DX")
           w == Port(node, ts, "W")
           y == Port(node, ts, "DY")
           xx == Port(node, us, "DX")
           ww == Port(node, us, "W")
           yy == Port(node, us, "DY")
<1>1. {"DY", "W", "DX"} \subseteq DOMAIN node.port /\ us \in [D -> Tensor]
  BY KindPorts DEF Grown
<1>2. ConvDGradPre(node, ts) /\ ConvDGradPost(node, us)
  BY DEF PreValid, PostValid
<1>3. ConvInputsValid(node, y, w) /\ GroupsValid(x.dim[2], w.dim[1], w.dim[2])
  BY <1>2 DEF ConvDGradPre
<1>4. Len(xx.dim) >= 3 /\ Formatted(xx)
  BY <1>2 DEF ConvDGradPost, ConvResultValid
<1>5. w.dim # <<>> /\ y.dim # <<>> /\ Formatted(w) /\ Formatted(y)
  BY <1>3, LongIsSet DEF ConvInputsValid
<1>6. /\ ww.dim = w.dim /\ ww.stride = w.stride /\ ww.dim # <<>> /\ ww.stride # <<>>
      /\ yy.dim = y.dim /\ yy.stride = y.stride /\ yy.dim # <<>> /\ yy.stride # <<>>
  BY <1>1, <1>5, FormattedPort
<1>7. xx.dim # <<>> /\ xx.stride # <<>>
  BY <1>1, <1>4, FormattedResult
<1>8. xx.dim = x.dim
  <2>1. x.dim # <<>>
    BY <1>7
  <2> QED BY <1>1, <2>1, SetPort
<1> HIDE DEF x, w, y, xx, ww, yy
<1>9. ConvInputsValid(node, yy, ww)
  BY <1>3, <1>6, SameConvInputs
<1>10. ConvDGradPre(node, us)
  BY <1>3, <1>6, <1>8, <1>9 DEF ConvDGradPre, xx, yy, ww
<1>11. Known(node, us)
  BY <1>6, <1>7 DEF Known, DimsRead, StridesRead, xx, ww, yy
<1> QED BY <1>10, <1>11 DEF Again, PreValid

-----------------------------------------------------------------------------
(* Strides that are inferred with the dims                                 *)

Dense(t) == t.dim # <<>> => t.stride # <<>>

StaysDense(D, ts, us) == \A i \in D : Dense(ts[i]) => Dense(us[i])

LEMMA FilledDense ==
  ASSUME NEW D, NEW ts \in [D -> Tensor], NEW ids, NEW dim \in Seq(Int),
         NEW stride, \A i \in D : stride[i] \in Seq(Int),
         \A i \in ids \cap D : DimOr(ts[i], dim) # <<>> => stride[i] # <<>>,
         NEW us, us = FilledAt(D, ts, ids, dim, stride)
  PROVE  StaysDense(D, ts, us) /\ \A i \in ids \cap D : Dense(us[i])
<1>1. ASSUME NEW i \in D, i \notin ids PROVE us[i] = ts[i]
  BY <1>1 DEF FilledAt
<1>2. ASSUME NEW i \in D, i \in ids PROVE Dense(us[i])
  <2> DEFINE d == DimOr(ts[i], dim)
             r == IF ts[i].stride = <<>> THEN stride[i] ELSE ts[i].stride
  <2>1. us[i] = WithLayout(ts[i], d, r)
    BY <1>2 DEF FilledAt, FilledTensor, WithLayout, DimOr
  <2>2. d \in Seq(Int) /\ r \in Seq(Int) /\ ts[i] \in Tensor
    BY DEF Tensor, DimOr
  <2>3. d # <<>> => r # <<>>
    BY <1>2
  <2> HIDE DEF d, r
  <2>4. us[i].dim = d /\ us[i].stride = r
    BY <2>1, <2>2, TensorExcept
  <2> QED BY <2>3, <2>4 DEF Dense
<1> QED BY <1>1, <1>2 DEF StaysDense

LEMMA DenseFurther ==
  ASSUME NEW D, NEW ts, NEW us, NEW vs, StaysDense(D, ts, us), StaysDense(D, us, vs)
  PROVE  StaysDense(D, ts, vs)
BY DEF StaysDense

\* One stride for all that is missing, and one that follows the dims.
LEMMA FixedDense ==
  ASSUME NEW D, NEW ts \in [D -> Tensor], NEW ids, NEW dim \in Seq(Int), NEW s \in Seq(Int),
         s # <<>>
  PROVE  LET us == FilledAt(D, ts, ids, dim, Everywhere(D, s))
         IN  StaysDense(D, ts, us) /\ \A i \in ids \cap D : Dense(us[i])
<1> DEFINE stride == [i \in D |-> s]
           us == FilledAt(D, ts, ids, dim, stride)
<1>1. \A i \in D : stride[i] \in Seq(Int) /\ stride[i] # <<>>
  OBVIOUS
<1> HIDE DEF stride
<1>2. us = FilledAt(D, ts, ids, dim, stride)
  OBVIOUS
<1> HIDE DEF us
<1>3. StaysDense(D, ts, us) /\ \A i \in ids \cap D : Dense(us[i])
  BY <1>1, <1>2, FilledDense
<1> QED BY <1>3 DEF us, stride, Everywhere

LEMMA FollowingDense ==
  ASSUME NEW D, NEW ts \in [D -> Tensor], NEW ids, NEW dim \in Seq(Int), NEW stride,
         \A i \in D : \/ stride[i] = ContiguousStride(DimOr(ts[i], dim))
                      \/ stride[i] = ChannelsLastStride(DimOr(ts[i], dim))
                      \/ \E order : stride[i] = StrideFromDim(DimOr(ts[i], dim), order),
         NEW us, us = FilledAt(D, ts, ids, dim, stride)
  PROVE  StaysDense(D, ts, us) /\ \A i \in ids \cap D : Dense(us[i])
<1>1. ASSUME NEW i \in D
      PROVE  stride[i] \in Seq(Int) /\ (DimOr(ts[i], dim) # <<>> => stride[i] # <<>>)
  <2> DEFINE d == DimOr(ts[i], dim)
  <2>1. d \in Seq(Int)
    BY DEF Tensor, DimOr
  <2>2. stride[i] = ContiguousStride(d) \/ stride[i] = ChannelsLastStride(d)
          \/ \E order : stride[i] = StrideFromDim(d, order)
    OBVIOUS
  <2> HIDE DEF d
  <2>3. stride[i] \in Seq(Int)
    BY <2>1, <2>2, StrideType DEF ContiguousStride, ChannelsLastStride
  <2>4. d # <<>> => stride[i] # <<>>
    BY <2>1, <2>2, RankIsSet
  <2> QED BY <2>3, <2>4 DEF d
<1> QED BY <1>1, FilledDense

LEMMA ConvDense ==
  ASSUME NEW D, NEW ts \in [D -> Tensor], NEW node, NodeOf(D, node)
  PROVE  /\ node.kind = "fprop" /\ RanksFit(node, ts) => StaysDense(D, ts, ConvFPropInfer(node, ts))
         /\ node.kind = "wgrad" => StaysDense(D, ts, ConvWGradInfer(node, ts))
         /\ node.kind = "dgrad" => StaysDense(D, ts, ConvDGradInfer(node, ts))
<1> DEFINE stride(dim, x) == [i \in D |-> StrideLike(x, DimOr(ts[i], dim))]
           ids(ports) == {node.port[p] : p \in ports \cap DOMAIN node.port}
<1>1. ASSUME NEW dim \in Seq(Int), NEW x, NEW ports
      PROVE  StaysDense(D, ts, FilledAt(D, ts, ids(ports), dim, stride(dim, x)))
  <2>1. \A i \in D : \/ stride(dim, x)[i] = ContiguousStride(DimOr(ts[i], dim))
                     \/ stride(dim, x)[i] = ChannelsLastStride(DimOr(ts[i], dim))
    BY DEF StrideLike
  <2> HIDE DEF ids, stride
  <2> QED BY <2>1, FollowingDense
<1>2. CASE node.kind = "fprop" /\ RanksFit(node, ts)
  <2>1. {"X", "W", "Y"} \subseteq DOMAIN node.port
    BY <1>2, KindPorts
  <2> DEFINE x == Port(node, ts, "X")
             w == Port(node, ts, "W")
             shape == ConvShape(node, x.dim, w.dim)
  <2>2. x.dim \in Seq(Int) /\ w.dim \in Seq(Int)
    BY <2>1, PortIs
  <2>3. /\ Len(x.dim) >= 3 /\ Len(x.dim) = Len(w.dim)
        /\ Len(node.padding) = Len(x.dim) - 2 /\ Len(node.dilation) = Len(x.dim) - 2
        /\ Len(node.step) = Len(x.dim) - 2
    BY <1>2 DEF RanksFit
  <2>4. shape \in Seq(Int)
    <3> HIDE DEF x, w
    <3>1. Len(w.dim) >= Len(x.dim)
      BY <2>2, <2>3
    <3> QED BY <1>2, <2>2, <2>3, <3>1, ConvShapeType DEF NodeOf
  <2>5. ConvFPropInfer(node, ts) = FilledAt(D, ts, ids({"Y"}), shape, stride(shape, x))
    BY DEF ConvFPropInfer, Fill, FilledAt, FilledTensor, DimOr
  <2> HIDE DEF shape, stride, ids, x
  <2> QED BY <1>1, <1>2, <2>4, <2>5
<1>3. <<>> \in Seq(Int)
  OBVIOUS
<1>4. ConvWGradInfer(node, ts) = FilledAt(D, ts, ids({"DW"}), <<>>, stride(<<>>, Port(node, ts, "DY")))
  BY DEF ConvWGradInfer, Fill, FilledAt, FilledTensor, DimOr
<1>5. ConvDGradInfer(node, ts) = FilledAt(D, ts, ids({"DX"}), <<>>, stride(<<>>, Port(node, ts, "DY")))
  BY DEF ConvDGradInfer, Fill, FilledAt, FilledTensor, DimOr
<1> HIDE DEF stride, ids
<1>6. StaysDense(D, ts, ConvWGradInfer(node, ts)) /\ StaysDense(D, ts, ConvDGradInfer(node, ts))
  BY <1>1, <1>3, <1>4, <1>5
<1> QED BY <1>2, <1>6

LEMMA MatmulDense ==
  ASSUME NEW D, NEW ts \in [D -> Tensor], NEW node, NodeOf(D, node),
         node.kind = "matmul", RanksFit(node, ts)
  PROVE  StaysDense(D, ts, MatmulInfer(node, ts)) /\ Dense(Port(node, MatmulInfer(node, ts), "C"))
<1> DEFINE a == Port(node, ts, "A").dim
           b == Port(node, ts, "B").dim
           shape == MatmulShape(a, b)
           ids == FilledPortsOf(node, {"C"})
           us == MatmulInfer(node, ts)
           stride == [i \in D |-> ContiguousStride(DimOr(ts[i], shape))]
<1>1. a \in Seq(Int) /\ b \in Seq(Int)
  BY KindPorts, PortIs
<1>2. Len(b) = Len(a)
  BY DEF RanksFit
<1>3. us = FilledAt(D, ts, ids, shape, stride)
  BY DEF MatmulInfer, Fill, FilledAt, FilledTensor, DimOr, FilledPortsOf
<1>4. node.port["C"] \in ids \cap D
  BY KindPorts DEF FilledPortsOf, NodeOf
<1>5. \A i \in D : stride[i] = ContiguousStride(DimOr(ts[i], shape))
  OBVIOUS
<1> HIDE DEF a, b
<1>6. shape \in Seq(Int)
  BY <1>1, <1>2, MatmulShapeType
<1> HIDE DEF shape, ids, us, stride
<1>7. StaysDense(D, ts, us) /\ \A i \in ids \cap D : Dense(us[i])
  BY <1>3, <1>5, <1>6, FollowingDense
<1> QED BY <1>4, <1>7 DEF Port, us

LEMMA ReductionDense ==
  ASSUME NEW D, NEW ts \in [D -> Tensor], NEW node, NodeOf(D, node), node.kind = "reduction"
  PROVE  StaysDense(D, ts, ReductionInfer(node, ts)) /\ Dense(Port(node, ReductionInfer(node, ts), "Y"))
<1> DEFINE dim == Port(node, ts, "X").dim
           ids == FilledPortsOf(node, {"Y"})
           us == ReductionInfer(node, ts)
           stride == [i \in D |-> ContiguousStride(DimOr(ts[i], dim))]
<1>1. dim \in Seq(Int)
  BY KindPorts, PortIs
<1>2. us = FilledAt(D, ts, ids, dim, stride)
  BY DEF ReductionInfer, Fill, FilledAt, FilledTensor, DimOr, FilledPortsOf
<1>3. node.port["Y"] \in ids \cap D
  BY KindPorts DEF FilledPortsOf, NodeOf
<1>4. \A i \in D : stride[i] = ContiguousStride(DimOr(ts[i], dim))
  OBVIOUS
<1> HIDE DEF dim, ids, us, stride
<1>5. StaysDense(D, ts, us) /\ \A i \in ids \cap D : Dense(us[i])
  BY <1>1, <1>2, <1>4, FollowingDense
<1> QED BY <1>3, <1>5 DEF Port, us

LEMMA SdpaDense ==
  ASSUME NEW D, NEW ts \in [D -> Tensor], NEW node, NodeOf(D, node),
         node.kind = "sdpa", RanksFit(node, ts)
  PROVE  StaysDense(D, ts, SdpaInfer(node, ts)) /\ Dense(Port(node, SdpaInfer(node, ts), "O"))
<1> DEFINE q == Port(node, ts, "Q").dim
           v == Port(node, ts, "V").dim
           shape == SdpaShape(node, ts)
           stride == ContiguousStride(shape)
           ids == FilledPortsOf(node, {"O"})
           us == SdpaInfer(node, ts)
<1>1. q \in Seq(Int) /\ v \in Seq(Int)
  BY KindPorts, PortIs
<1>2. Len(q) = 4 /\ Len(v) = 4
  BY DEF RanksFit
<1>3. shape = <<q[1], q[2], q[3], v[4]>>
  BY DEF SdpaShape
<1>4. us = FilledAt(D, ts, ids, shape, Everywhere(D, stride))
  BY DEF SdpaInfer, Fill, FilledAt, FilledTensor, DimOr, FilledPortsOf, Everywhere
<1>5. node.port["O"] \in ids \cap D
  BY KindPorts DEF FilledPortsOf, NodeOf
<1> HIDE DEF q, v, ids, shape, us
<1>6. shape \in Seq(Int) /\ shape # <<>>
  <2>1. q[1] \in Int /\ q[2] \in Int /\ q[3] \in Int /\ v[4] \in Int
    <3>1. \A i \in 1..4 : q[i] \in Int /\ v[i] \in Int
      BY <1>1, <1>2, SeqParts
    <3> QED BY <3>1
  <2> QED BY <1>3, <2>1
<1>7. stride \in Seq(Int) /\ stride # <<>>
  BY <1>6, StrideLikeType, RankIsSet
<1> HIDE DEF stride
<1>8. StaysDense(D, ts, us) /\ \A i \in ids \cap D : Dense(us[i])
  BY <1>4, <1>6, <1>7, FixedDense
<1> QED BY <1>5, <1>8 DEF Port, us

LEMMA ScalesDense ==
  ASSUME NEW D, NEW ts \in [D -> Tensor], NEW node, Port(node, ts, "X").dim \in Seq(Int),
         NEW scales, NEW order
  PROVE  StaysDense(D, ts, FillScales(node, ts, scales, order))
<1> DEFINE dim == ScaleDim(Port(node, ts, "X").dim)
           ids == FilledPortsOf(node, scales)
           stride == [i \in D |-> StrideFromDim(DimOr(ts[i], dim), order)]
<1>1. dim \in Seq(Int)
  BY ShapeTypes
<1>2. FillScales(node, ts, scales, order) = FilledAt(D, ts, ids, dim, stride)
  BY DEF FillScales, Fill, FilledAt, FilledTensor, DimOr, FilledPortsOf
<1>3. \A i \in D : \E o : stride[i] = StrideFromDim(DimOr(ts[i], dim), o)
  OBVIOUS
<1> HIDE DEF dim, ids, stride
<1> QED BY <1>1, <1>2, <1>3, FollowingDense

LEMMA LikeXDense ==
  ASSUME NEW D, NEW ts \in [D -> Tensor], NEW node, Port(node, ts, "X").dim \in Seq(Int),
         Port(node, ts, "X").stride \in Seq(Int), Port(node, ts, "X").stride # <<>>
  PROVE  StaysDense(D, ts, FillLikeX(node, ts))
<1> DEFINE dim == Port(node, ts, "X").dim
           ids == FilledPortsOf(node, {"Y"})
           stride == Port(node, ts, "X").stride
<1>1. FillLikeX(node, ts) = FilledAt(D, ts, ids, dim, Everywhere(D, stride))
  BY DEF FillLikeX, Fill, FilledAt, FilledTensor, DimOr, FilledPortsOf, Everywhere
<1>2. dim \in Seq(Int) /\ stride \in Seq(Int) /\ stride # <<>>
  OBVIOUS
<1> HIDE DEF dim, ids, stride
<1> QED BY <1>1, <1>2, FixedDense

LEMMA StatisticsDense ==
  ASSUME NEW D, NEW ts \in [D -> Tensor], NEW node, Port(node, ts, "X").dim \in Seq(Int),
         Len(Port(node, ts, "X").dim) >= 1, NEW statistics
  PROVE  StaysDense(D, ts, FillStatistics(node, ts, statistics))
<1> DEFINE x == Port(node, ts, "X").dim
           dim == StatisticsDim(x)
           ids == FilledPortsOf(node, statistics)
           stride == ContiguousStride(dim)
<1>1. FillStatistics(node, ts, statistics) = FilledAt(D, ts, ids, dim, Everywhere(D, stride))
  BY DEF FillStatistics, Fill, FilledAt, FilledTensor, DimOr, FilledPortsOf, Everywhere
<1>2. dim \in Seq(Int)
  BY ShapeTypes
<1>3. dim # <<>>
  <2>1. Len(x) \in Nat /\ 1 \in 1..Len(x)
    BY SeqParts
  <2>2. DOMAIN dim = 1..Len(x)
    BY DEF StatisticsDim, Ones
  <2>3. DOMAIN <<>> = {}
    OBVIOUS
  <2> HIDE DEF dim, x
  <2> QED BY <2>1, <2>2, <2>3
<1> HIDE DEF dim, ids
<1>4. stride \in Seq(Int) /\ stride # <<>>
  BY <1>2, <1>3, StrideLikeType, RankIsSet
<1> HIDE DEF stride
<1> QED BY <1>1, <1>2, <1>4, FixedDense

LEMMA NormDense ==
  ASSUME NEW D, NEW ts \in [D -> Tensor], NEW node, NodeOf(D, node),
         node.kind \in {"layernorm", "rmsnorm"}, Len(Port(node, ts, "X").dim) >= 2,
         Port(node, ts, "X").stride # <<>>, NEW scales, NEW statistics, NEW order
  PROVE  LET us == FillScales(node, ts, scales, order)
             ws == FillStatistics(node, FillLikeX(node, us), statistics)
         IN  StaysDense(D, ts, ws) /\ us \in [D -> Tensor] /\ Grown(D, us, ws)
<1> DEFINE us == FillScales(node, ts, scales, order)
           vs == FillLikeX(node, us)
           ws == FillStatistics(node, vs, statistics)
<1>1. "X" \in DOMAIN node.port
  BY KindPorts
<1>2. Port(node, ts, "X").dim \in Seq(Int) /\ Port(node, ts, "X").dim # <<>>
  BY <1>1, PortIs, LongIsSet
<1>3. Grown(D, ts, us) /\ us \in [D -> Tensor] /\ StaysDense(D, ts, us)
  <2>1. Filled(D, ts, us) /\ StaysDense(D, ts, us)
    BY <1>2, ScalesGrow, ScalesDense
  <2> HIDE DEF us
  <2> QED BY <2>1 DEF Filled, Grown
<1> HIDE DEF us
<1>4. /\ Port(node, us, "X").dim = Port(node, ts, "X").dim
      /\ Port(node, us, "X").stride = Port(node, ts, "X").stride
      /\ Port(node, us, "X").dim \in Seq(Int) /\ Port(node, us, "X").stride \in Seq(Int)
  BY <1>1, <1>2, <1>3, SetPort, GrownPort
<1>5. Grown(D, us, vs) /\ vs \in [D -> Tensor] /\ StaysDense(D, us, vs)
  <2>1. Filled(D, us, vs) /\ StaysDense(D, us, vs)
    BY <1>3, <1>4, LikeXGrows, LikeXDense
  <2> HIDE DEF vs
  <2> QED BY <2>1 DEF Filled, Grown
<1> HIDE DEF vs
<1>6. Port(node, vs, "X").dim = Port(node, ts, "X").dim /\ Port(node, vs, "X").dim \in Seq(Int)
  BY <1>1, <1>2, <1>4, <1>5, SetPort, GrownPort
<1>7. Len(Port(node, vs, "X").dim) >= 1
  BY <1>2, <1>6, RankIsSet
<1>8. Grown(D, vs, ws) /\ StaysDense(D, vs, ws)
  <2>1. Filled(D, vs, ws) /\ StaysDense(D, vs, ws)
    BY <1>5, <1>6, <1>7, StatisticsGrow, StatisticsDense
  <2> QED BY <2>1 DEF Filled
<1> HIDE DEF ws
<1>9. StaysDense(D, ts, ws) /\ us \in [D -> Tensor] /\ Grown(D, us, ws)
  BY <1>3, <1>5, <1>8, DenseFurther, GrownFurther
<1> QED BY <1>9 DEF us, vs, ws

LEMMA BatchNormDense ==
  ASSUME NEW D, NEW ts \in [D -> Tensor], NEW node, NodeOf(D, node),
         node.kind = "batchnorm", Len(Port(node, ts, "X").dim) >= 2,
         Port(node, ts, "X").stride # <<>>
  PROVE  StaysDense(D, ts, BatchNormInfer(node, ts))
<1> DEFINE x == Port(node, ts, "X").dim
           dim == <<x[2]>>
           one == <<1>>
           ids == FilledPortsOf(node, ChannelPorts(node))
           us == FilledAt(D, ts, ids, dim, Everywhere(D, one))
<1>1. "X" \in DOMAIN node.port
  BY KindPorts
<1>2. x \in Seq(Int) /\ x # <<>>
  BY <1>1, PortIs, LongIsSet
<1>3. BatchNormInfer(node, ts) = FillLikeX(node, us)
  BY DEF BatchNormInfer, Fill, FilledAt, FilledTensor, DimOr, FilledPortsOf, Everywhere
<1>4. Len(x) >= 2
  OBVIOUS
<1> HIDE DEF ids, x
<1>5. x[2] \in Int
  <2>1. Len(x) \in Nat /\ \A i \in 1..Len(x) : x[i] \in Int
    BY <1>2, SeqParts
  <2> QED BY <1>4, <2>1
<1>6. dim \in Seq(Int) /\ one \in Seq(Int) /\ one # <<>>
  BY <1>5
<1> HIDE DEF dim, one
<1>7. Grown(D, ts, us) /\ us \in [D -> Tensor] /\ StaysDense(D, ts, us)
  <2>1. Filled(D, ts, us) /\ StaysDense(D, ts, us)
    BY <1>6, FixedGrows, FixedDense
  <2> HIDE DEF us
  <2> QED BY <2>1 DEF Filled, Grown
<1> HIDE DEF us
<1>8. /\ Port(node, us, "X").dim \in Seq(Int) /\ Port(node, us, "X").stride \in Seq(Int)
      /\ Port(node, us, "X").stride # <<>>
  BY <1>1, <1>7, GrownPort, SetPort
<1>9. StaysDense(D, us, FillLikeX(node, us))
  BY <1>7, <1>8, LikeXDense
<1> QED BY <1>3, <1>7, <1>9, DenseFurther

\* A pointwise node leaves strides out at its output only.
LEMMA PointwiseDense ==
  ASSUME NEW D, NEW ts \in [D -> Tensor], NEW node, NodeOf(D, node), node.kind = "pointwise",
         NEW order
  PROVE  \A i \in D : i # node.port["OUT_0"] => PointwiseInfer(node, ts, order)[i] = ts[i]
<1>1. "OUT_0" \in DOMAIN node.port
  BY KindPorts
<1>2. \A i \in D : i \notin {node.port[p] : p \in {"OUT_0"} \cap DOMAIN node.port} =>
                     PointwiseInfer(node, ts, order)[i] = ts[i]
  BY DEF PointwiseInfer, Fill
<1> QED BY <1>1, <1>2

\* The input of a norm, before a node is validated.
LEMMA NormInput ==
  ASSUME NEW D, NEW ts \in [D -> Tensor], NEW node, NodeOf(D, node),
         node.kind \in {"layernorm", "rmsnorm", "batchnorm"}, PreValid(node, ts)
  PROVE  /\ "X" \in DOMAIN node.port
         /\ Port(node, ts, "X").dim # <<>> /\ Formatted(Port(node, ts, "X"))
         /\ Port(node, ts, "X").stride # <<>>
<1>1. "X" \in DOMAIN node.port
  BY KindPorts
<1>2. LayerNormPre(node, ts) \/ RmsNormPre(node, ts) \/ BatchNormPre(node, ts)
  BY DEF PreValid
<1>3. Len(Port(node, ts, "X").dim) >= 2 /\ Formatted(Port(node, ts, "X"))
  BY <1>2 DEF LayerNormPre, RmsNormPre, BatchNormPre, NormInputsValid
<1>4. Port(node, ts, "X").dim # <<>> /\ Port(node, ts, "X") \in Tensor
  BY <1>1, <1>3, LongIsSet, PortIs
<1> QED BY <1>1, <1>3, <1>4, FormattedIsSet

\* Validating a node leaves no tensor with dims and without strides, but for the output of
\* a pointwise node.
LEMMA InferredDense ==
  ASSUME NEW D, NEW before \in [D -> Tensor], NEW node, NodeOf(D, node),
         {graph.io, graph.intermediate} \subseteq DataTypes, PreValid(node, before), NEW order,
         NEW i \in D, Dense(before[i]), ~(node.kind = "pointwise" /\ i = node.port["OUT_0"])
  PROVE  Dense(Inferred(node, before, order)[i])
<1> DEFINE us == Inferred(node, before, order)
<1>1. PICK ts \in [D -> Tensor] : /\ Retyped(D, before, ts) /\ RanksFit(node, ts)
                                  /\ us = InferredBy(node, ts, order)
  BY InferredFrom
<1> HIDE DEF us
<1>2. Dense(ts[i])
  BY <1>1 DEF Retyped, Dense
<1>3. SUFFICES StaysDense(D, ts, us) \/ us[i] = ts[i]
  BY <1>2 DEF StaysDense, us
<1>4. CASE node.kind \in {"fprop", "wgrad", "dgrad"}
  BY <1>1, <1>4, ConvDense DEF InferredBy
<1>5. CASE node.kind = "matmul"
  BY <1>1, <1>5, MatmulDense DEF InferredBy
<1>6. CASE node.kind = "pointwise"
  BY <1>1, <1>6, PointwiseDense DEF InferredBy
<1>7. CASE node.kind = "reduction"
  BY <1>1, <1>7, ReductionDense DEF InferredBy
<1>8. CASE node.kind = "sdpa"
  BY <1>1, <1>8, SdpaDense DEF InferredBy
<1>9. CASE node.kind \in {"layernorm", "rmsnorm", "batchnorm"}
  <2>1. "X" \in DOMAIN node.port /\ Port(node, before, "X").stride # <<>>
    BY <1>9, NormInput
  <2>2. Port(node, ts, "X").stride # <<>>
    BY <1>1, <2>1 DEF Retyped, NodeOf, Port
  <2>3. Len(Port(node, ts, "X").dim) >= 2
    BY <1>1, <1>9 DEF RanksFit
  <2>4. CASE node.kind = "batchnorm"
    BY <1>1, <2>2, <2>3, <2>4, BatchNormDense DEF InferredBy
  <2>5. CASE node.kind \in {"layernorm", "rmsnorm"}
    <3>1. us = LayerNormInfer(node, ts, order) \/ us = RmsNormInfer(node, ts, order)
      BY <1>1, <2>5 DEF InferredBy
    <3> QED BY <2>2, <2>3, <2>5, <3>1, NormDense DEF LayerNormInfer, RmsNormInfer
  <2> QED BY <1>9, <2>4, <2>5
<1>10. CASE node.kind \notin {"fprop", "wgrad", "dgrad", "matmul", "pointwise", "reduction",
                              "layernorm", "rmsnorm", "batchnorm", "sdpa"}
  BY <1>1, <1>10 DEF InferredBy
<1> QED BY <1>4, <1>5, <1>6, <1>7, <1>8, <1>9, <1>10

LEMMA MatmulAgain ==
  ASSUME NEW D, NEW ts \in [D -> Tensor], NEW us, Grown(D, ts, us), NEW node, NodeOf(D, node),
         node.kind = "matmul", PreValid(node, ts), PostValid(node, us),
         Dense(Port(node, ts, "A")), Dense(Port(node, ts, "B")), Dense(Port(node, us, "C"))
  PROVE  Again(node, us)
<1> DEFINE a == Port(node, ts, "A")
           b == Port(node, ts, "B")
           aa == Port(node, us, "A")
           bb == Port(node, us, "B")
           cc == Port(node, us, "C")
<1>1. {"A", "B", "C"} \subseteq DOMAIN node.port
  BY KindPorts
<1>2. MatmulPre(node, ts) /\ MatmulPost(node, us)
  BY DEF PreValid, PostValid
<1>3. Len(a.dim) >= 2 /\ Len(b.dim) = Len(a.dim)
  BY <1>2 DEF MatmulPre
<1>4. a.dim # <<>> /\ b.dim # <<>>
  BY <1>3, LongIsSet
<1>5. a.stride # <<>> /\ b.stride # <<>>
  BY <1>4 DEF Dense
<1>6. /\ aa.dim = a.dim /\ aa.stride = a.stride /\ bb.dim = b.dim /\ bb.stride = b.stride
  BY <1>1, <1>4, <1>5, SetPort
<1>7. cc.dim # <<>> /\ cc.stride # <<>>
  <2>1. Len(cc.dim) >= 2
    BY <1>2 DEF MatmulPost
  <2> QED BY <2>1, LongIsSet DEF Dense
<1> HIDE DEF a, b, aa, bb, cc
<1>8. BatchAxes(aa) = BatchAxes(a)
  BY <1>6 DEF BatchAxes
<1>9. (BatchOutermost(aa) <=> BatchOutermost(a)) /\ (BatchOutermost(bb) <=> BatchOutermost(b))
  BY <1>6, SameFormat
<1>10. MixedFits(aa, bb) => MatmulPre(node, us)
  BY <1>2, <1>6, <1>8, <1>9 DEF MatmulPre, a, b, aa, bb
<1>11. Known(node, us)
  BY <1>4, <1>5, <1>6, <1>7 DEF Known, DimsRead, StridesRead, aa, bb, cc
<1>12. Regular(node, us) => PreValid(node, us)
  BY <1>10 DEF Regular, PreValid, aa, bb
<1> QED BY <1>11, <1>12 DEF Again

LEMMA ReductionAgain ==
  ASSUME NEW D, NEW ts \in [D -> Tensor], NEW us, Grown(D, ts, us), NEW node, NodeOf(D, node),
         node.kind = "reduction", PreValid(node, ts), PostValid(node, us),
         Dense(Port(node, us, "Y"))
  PROVE  Again(node, us)
<1> DEFINE x == Port(node, us, "X").dim
           y == Port(node, us, "Y").dim
<1>1. {"X", "Y"} \subseteq DOMAIN node.port
  BY KindPorts
<1>2. x # <<>>
  <2>1. Port(node, ts, "X").dim # <<>>
    BY DEF PreValid, ReductionPre
  <2> QED BY <1>1, <2>1, SetPort
<1>3. Len(x) = Len(y) /\ x \in Seq(Int) /\ y \in Seq(Int)
  BY <1>1, GrownPort DEF PostValid, ReductionPost
<1>4. y # <<>>
  <2> HIDE DEF x, y
  <2> QED BY <1>2, <1>3, RankIsSet
<1>5. Port(node, us, "Y").stride # <<>>
  BY <1>4 DEF Dense
<1>6. Known(node, us)
  BY <1>2, <1>4, <1>5 DEF Known, DimsRead, StridesRead
<1>7. PreValid(node, us)
  BY <1>2 DEF PreValid, ReductionPre
<1> QED BY <1>6, <1>7 DEF Again

LEMMA SdpaAgain ==
  ASSUME NEW D, NEW ts \in [D -> Tensor], NEW us, Grown(D, ts, us), NEW node, NodeOf(D, node),
         node.kind = "sdpa", PreValid(node, ts), PostValid(node, us),
         Dense(Port(node, us, "O"))
  PROVE  Again(node, us)
<1>1. {"Q", "K", "V", "O"} \subseteq DOMAIN node.port /\ (Has(node, "MASK") => "MASK" \in DOMAIN node.port)
  BY KindPorts DEF Has
<1>2. SdpaPre(node, ts) /\ SdpaPost(node, us)
  BY DEF PreValid, PostValid
<1>3. /\ \A p \in {"Q", "K", "V"} : Len(Port(node, ts, p).dim) = 4
      /\ Has(node, "MASK") => Len(Port(node, ts, "MASK").dim) = 4
  BY <1>2 DEF SdpaPre
<1>4. \A p \in {"Q", "K", "V", "MASK"} \cap DOMAIN node.port :
        Port(node, ts, p).dim # <<>> /\ Port(node, us, p).dim = Port(node, ts, p).dim
  <2> SUFFICES ASSUME NEW p \in {"Q", "K", "V", "MASK"} \cap DOMAIN node.port
               PROVE  Port(node, ts, p).dim # <<>> /\ Port(node, us, p).dim = Port(node, ts, p).dim
    OBVIOUS
  <2>1. Len(Port(node, ts, p).dim) = 4
    BY <1>3 DEF Has
  <2>2. Port(node, ts, p).dim # <<>>
    <3>1. \A s : Len(s) = 4 => s # <<>>
      OBVIOUS
    <3> QED BY <2>1, <3>1
  <2> QED BY <2>2, SetPort
<1>5. /\ Port(node, us, "Q").dim = Port(node, ts, "Q").dim
      /\ Port(node, us, "K").dim = Port(node, ts, "K").dim
      /\ Port(node, us, "V").dim = Port(node, ts, "V").dim
      /\ Has(node, "MASK") => Port(node, us, "MASK").dim = Port(node, ts, "MASK").dim
  BY <1>1, <1>4
<1>6. SdpaPre(node, us)
  BY <1>2, <1>5 DEF SdpaPre
<1>7. Port(node, us, "O").dim # <<>>
  <2>1. Port(node, us, "O").dim = SdpaShape(node, us)
    BY <1>2 DEF SdpaPost
  <2>2. \A a, b, c, d : <<a, b, c, d>> # <<>>
    OBVIOUS
  <2>3. \E a, b, c, d : SdpaShape(node, us) = <<a, b, c, d>>
    BY DEF SdpaShape
  <2> QED BY <2>1, <2>2, <2>3
<1>8. Port(node, us, "O").stride # <<>>
  BY <1>7 DEF Dense
<1>9. Known(node, us)
  <2>1. DimsRead(node) = {"Q", "K", "V", "MASK", "O"} \cap DOMAIN node.port /\ StridesRead(node) = {"O"}
    BY DEF DimsRead, StridesRead
  <2> QED BY <1>4, <1>7, <1>8, <2>1 DEF Known
<1> QED BY <1>6, <1>9 DEF Again, PreValid

LEMMA BatchNormAgain ==
  ASSUME NEW D, NEW ts \in [D -> Tensor], NEW us, Grown(D, ts, us), NEW node, NodeOf(D, node),
         node.kind = "batchnorm", PreValid(node, ts), PostValid(node, us)
  PROVE  Again(node, us)
<1> DEFINE x == Port(node, ts, "X")
           xx == Port(node, us, "X")
           yy == Port(node, us, "Y")
<1>1. {"X", "Y"} \subseteq DOMAIN node.port /\ us \in [D -> Tensor]
  BY KindPorts DEF Grown
<1>2. BatchNormPre(node, ts) /\ BatchNormPost(node, us)
  BY DEF PreValid, PostValid
<1>3. x.dim # <<>> /\ Formatted(x) /\ x.stride # <<>>
  BY NormInput
<1>4. xx.dim = x.dim /\ xx.stride = x.stride
  BY <1>1, <1>3, SetPort
<1>5. yy.dim = xx.dim /\ Formatted(yy)
  BY <1>2 DEF BatchNormPost
<1>6. yy.dim # <<>> /\ yy.stride # <<>>
  <2>1. yy \in Tensor
    BY <1>1, PortIs
  <2> QED BY <1>3, <1>4, <1>5, <2>1, FormattedIsSet
<1>7. \A p \in ChannelPorts(node) : Port(node, us, p).dim # <<>> /\ Port(node, us, p).stride # <<>>
  <2>1. \A p \in ChannelPorts(node) :
          Port(node, us, p).dim = <<xx.dim[2]>> /\ Port(node, us, p).stride = <<1>>
    BY <1>2 DEF BatchNormPost
  <2>2. \A v : <<v>> # <<>>
    OBVIOUS
  <2> QED BY <2>1, <2>2
<1>8. \A p : IsScalar(node, us, p) <=> IsScalar(node, ts, p)
  BY SetPort DEF IsScalar, Has
<1>9. Formatted(xx) <=> Formatted(x)
  BY <1>4, SameFormat
<1> HIDE DEF x, xx, yy
<1>10. BatchNormPre(node, us)
  BY <1>2, <1>4, <1>8, <1>9 DEF BatchNormPre, x, xx
<1>11. Known(node, us)
  <2>1. DimsRead(node) = {"X", "Y"} \cup ChannelPorts(node) /\ StridesRead(node) = DimsRead(node)
    BY DEF DimsRead, StridesRead
  <2> QED BY <1>3, <1>4, <1>6, <1>7, <2>1 DEF Known, xx, yy
<1> QED BY <1>10, <1>11 DEF Again, PreValid

LEMMA ScaleRank ==
  ASSUME NEW d \in Seq(Int)
  PROVE  ScaleDim(d) \in Seq(Int) /\ Len(ScaleDim(d)) = Len(d)
<1>1. 1 \in Int
  OBVIOUS
<1> QED BY <1>1, SeqExcept DEF ScaleDim

\* The scale of a norm, after it was inferred.
LEMMA ScaleAgain ==
  ASSUME NEW D, NEW ts \in [D -> Tensor], NEW node, NodeOf(D, node),
         NEW x \in Tensor, x = Port(node, ts, "X"), x.dim # <<>>, Formatted(x),
         NEW scales, NEW p \in scales \cap DOMAIN node.port,
         Port(node, ts, p).dim # <<>> => Port(node, ts, p).dim = ScaleDim(x.dim),
         Port(node, ts, p).stride # <<>> => Formatted(Port(node, ts, p)),
         NEW order \in OrdersPreserving(x.stride, Len(x.dim)),
         NEW u, u = Port(node, FillScales(node, ts, scales, order), p)
  PROVE  /\ u.dim = ScaleDim(x.dim) /\ u.dim # <<>> /\ u.stride # <<>>
         /\ Untied(x.stride) => Formatted(u)
<1> DEFINE s == Port(node, ts, p)
           dim == ScaleDim(x.dim)
           d == DimOr(s, dim)
           r == IF s.stride = <<>> THEN StrideFromDim(d, order) ELSE s.stride
<1>1. x.dim \in Seq(Int) /\ Len(x.dim) >= 1
  BY RankIsSet DEF Tensor
<1>2. dim \in Seq(Int) /\ Len(dim) = Len(x.dim) /\ dim # <<>>
  <2>1. dim \in Seq(Int) /\ Len(dim) = Len(x.dim)
    BY <1>1, ScaleRank
  <2> HIDE DEF dim
  <2> QED BY <1>1, <2>1, RankIsSet
<1>3. d = dim
  BY DEF DimOr
<1>4. s \in Tensor /\ node.port[p] \in D
  BY DEF Port, NodeOf
<1>5. u = WithLayout(s, d, r)
  BY <1>4 DEF FillScales, Fill, Port, WithLayout, DimOr
<1> HIDE DEF dim, s
<1>6. r \in Seq(Int)
  BY <1>2, <1>3, <1>4, StrideType DEF Tensor
<1> HIDE DEF d, r
<1>7. u.dim = dim /\ u.stride = r
  BY <1>2, <1>3, <1>4, <1>5, <1>6, TensorExcept
<1>8. CASE s.stride = <<>>
  <2>1. r = StrideFromDim(dim, order)
    BY <1>3, <1>8 DEF r
  <2>2. r # <<>>
    BY <1>2, <2>1, RankIsSet
  <2>3. Untied(x.stride) => Formatted(u)
    <3> SUFFICES ASSUME Untied(x.stride) PROVE Formatted(u)
      OBVIOUS
    <3>1. StrideFromDim(dim, order) \in {ContiguousStride(dim), ChannelsLastStride(dim)}
      BY <1>1, <1>2, OrderIsFormat
    <3> QED BY <1>7, <2>1, <3>1 DEF Formatted, IsContiguous, IsChannelsLast
  <2> QED BY <1>2, <1>7, <2>2, <2>3 DEF dim
<1>9. CASE s.stride # <<>>
  <2>1. Formatted(s)
    BY <1>9 DEF s
  <2>2. s.dim # <<>>
    <3> SUFFICES ASSUME s.dim = <<>> PROVE FALSE
      OBVIOUS
    <3>1. s.stride = ContiguousStride(<<>>) \/ s.stride = ChannelsLastStride(<<>>)
      BY <2>1 DEF Formatted, IsContiguous, IsChannelsLast
    <3>2. <<>> \in Seq(Int) /\ Len(<<>>) = 0
      OBVIOUS
    <3>3. Len(s.stride) = 0
      BY <3>1, <3>2, StrideType DEF ContiguousStride, ChannelsLastStride
    <3>4. s.stride \in Seq(Int)
      BY <1>4 DEF Tensor
    <3> QED BY <1>9, <3>3, <3>4, RankIsSet
  <2>3. s.dim = dim
    BY <2>2 DEF s, dim
  <2>4. u.dim = s.dim /\ u.stride = s.stride
    BY <1>7, <1>9, <2>3 DEF r
  <2>5. Formatted(u)
    BY <2>1, <2>4, SameFormat
  <2> QED BY <1>2, <1>7, <1>9, <2>4, <2>5 DEF dim
<1> QED BY <1>8, <1>9

LEMMA StatisticsSet ==
  ASSUME NEW d \in Seq(Int), d # <<>>
  PROVE  StatisticsDim(d) # <<>> /\ ContiguousStride(StatisticsDim(d)) # <<>>
<1> DEFINE dim == StatisticsDim(d)
<1>1. dim \in Seq(Int)
  BY ShapeTypes, RankIsSet
<1>2. dim # <<>>
  <2>1. Len(d) \in Nat /\ 1 \in 1..Len(d)
    BY RankIsSet
  <2>2. DOMAIN dim = 1..Len(d)
    BY DEF StatisticsDim, Ones
  <2>3. DOMAIN <<>> = {}
    OBVIOUS
  <2> HIDE DEF dim
  <2> QED BY <2>1, <2>2, <2>3
<1> HIDE DEF dim
<1>3. ContiguousStride(dim) # <<>>
  BY <1>1, <1>2, RankIsSet
<1> QED BY <1>2, <1>3 DEF dim

\* A norm with these scales and statistics.
LEMMA NormInferredAgain ==
  ASSUME NEW D, NEW ts \in [D -> Tensor], NEW node, NodeOf(D, node),
         node.kind \in {"layernorm", "rmsnorm"}, PreValid(node, ts),
         NEW scales, NEW statistics, NormInputsValid(node, ts, scales),
         NEW order \in OrdersPreserving(Port(node, ts, "X").stride, Len(Port(node, ts, "X").dim)),
         NEW us, us = FillStatistics(node, FillLikeX(node, FillScales(node, ts, scales, order)),
                                     statistics),
         NormResultValid(node, us, statistics)
  PROVE  /\ \A p \in ({"X", "Y"} \cup scales \cup statistics) \cap DOMAIN node.port :
              Port(node, us, p).dim # <<>> /\ Port(node, us, p).stride # <<>>
         /\ Untied(Port(node, us, "X").stride) => NormInputsValid(node, us, scales)
<1> DEFINE fs == FillScales(node, ts, scales, order)
           x == Port(node, ts, "X")
           xx == Port(node, us, "X")
           yy == Port(node, us, "Y")
<1>1. "X" \in DOMAIN node.port /\ "Y" \in DOMAIN node.port
  BY KindPorts
<1>2. x.dim # <<>> /\ Formatted(x) /\ x.stride # <<>> /\ x \in Tensor
  BY <1>1, NormInput, PortIs
<1>3. Len(x.dim) >= 2 /\ IsScalar(node, ts, "EPSILON")
  BY DEF NormInputsValid
<1>4. Grown(D, ts, fs) /\ fs \in [D -> Tensor]
  <2>1. x.dim \in Seq(Int)
    BY <1>2 DEF Tensor
  <2>2. Filled(D, ts, fs)
    BY <2>1, ScalesGrow
  <2> HIDE DEF fs
  <2> QED BY <2>2 DEF Filled, Grown
<1>5. Grown(D, fs, us)
  BY <1>2, <1>3, NormDense
<1> HIDE DEF fs
<1>6. Grown(D, ts, us)
  BY <1>4, <1>5, GrownFurther
<1>7. xx.dim = x.dim /\ xx.stride = x.stride /\ us \in [D -> Tensor]
  BY <1>1, <1>2, <1>6, SetPort DEF Grown
<1>8. yy.dim # <<>> /\ yy.stride # <<>>
  <2>1. yy.dim = xx.dim /\ Formatted(yy) /\ yy \in Tensor
    BY <1>1, <1>7, PortIs DEF NormResultValid
  <2> QED BY <1>2, <1>7, <2>1, FormattedIsSet
<1>9. ASSUME NEW p \in statistics \cap DOMAIN node.port
      PROVE  Port(node, us, p).dim # <<>> /\ Port(node, us, p).stride # <<>>
  <2> DEFINE d == xx.dim
  <2>1. Port(node, us, p).dim = StatisticsDim(d) /\ Port(node, us, p).stride = ContiguousStride(StatisticsDim(d))
    BY DEF NormResultValid
  <2>2. d \in Seq(Int) /\ d # <<>>
    BY <1>2, <1>7 DEF Tensor
  <2> HIDE DEF d
  <2> QED BY <2>1, <2>2, StatisticsSet
<1>10. ASSUME NEW p \in scales \cap DOMAIN node.port
       PROVE  /\ Port(node, us, p).dim # <<>> /\ Port(node, us, p).stride # <<>>
              /\ Port(node, us, p).dim = ScaleDim(x.dim)
              /\ Untied(x.stride) => Formatted(Port(node, us, p))
  <2> DEFINE s == Port(node, ts, p)
             u == Port(node, fs, p)
             v == Port(node, us, p)
  <2>1. /\ s.dim # <<>> => s.dim = ScaleDim(x.dim)
        /\ s.stride # <<>> => Formatted(s)
    BY DEF NormInputsValid
  <2>2. /\ u.dim = ScaleDim(x.dim) /\ u.dim # <<>> /\ u.stride # <<>>
        /\ Untied(x.stride) => Formatted(u)
    BY <1>2, <2>1, ScaleAgain DEF fs
  <2>3. v.dim = u.dim /\ v.stride = u.stride
    BY <1>5, <2>2, SetPort
  <2>4. Formatted(u) => Formatted(v)
    BY <2>3, SameFormat
  <2> QED BY <2>2, <2>3, <2>4
<1>11. Untied(xx.stride) => NormInputsValid(node, us, scales)
  <2>1. Formatted(xx)
    BY <1>2, <1>7, SameFormat
  <2>2. IsScalar(node, us, "EPSILON")
    BY <1>3, <1>6, SetPort DEF IsScalar, Has
  <2> HIDE DEF x, xx
  <2> QED BY <1>3, <1>7, <1>10, <2>1, <2>2 DEF NormInputsValid, xx
<1> QED BY <1>2, <1>7, <1>8, <1>9, <1>10, <1>11

LEMMA NormAgain ==
  ASSUME NEW D, NEW ts \in [D -> Tensor], NEW node, NodeOf(D, node),
         node.kind \in {"layernorm", "rmsnorm"}, PreValid(node, ts),
         NEW order \in OrdersPreserving(Port(node, ts, "X").stride, Len(Port(node, ts, "X").dim)),
         NEW us, us = InferredBy(node, ts, order), PostValid(node, us)
  PROVE  Again(node, us)
<1>1. ASSUME NEW scales, NEW statistics, NormInputsValid(node, ts, scales),
             us = FillStatistics(node, FillLikeX(node, FillScales(node, ts, scales, order)), statistics),
             NormResultValid(node, us, statistics),
             DimsRead(node) \subseteq ({"X", "Y"} \cup scales \cup statistics) \cap DOMAIN node.port
      PROVE  Known(node, us) /\ (Regular(node, us) => NormInputsValid(node, us, scales))
  <2>1. /\ \A p \in ({"X", "Y"} \cup scales \cup statistics) \cap DOMAIN node.port :
              Port(node, us, p).dim # <<>> /\ Port(node, us, p).stride # <<>>
        /\ Untied(Port(node, us, "X").stride) => NormInputsValid(node, us, scales)
    BY <1>1, NormInferredAgain
  <2>2. StridesRead(node) = DimsRead(node)
    BY DEF StridesRead
  <2> QED BY <1>1, <2>1, <2>2 DEF Known, Regular
<1>2. {"X", "Y"} \subseteq DOMAIN node.port
  BY KindPorts
<1>3. CASE node.kind = "layernorm"
  <2> DEFINE scales == {"SCALE", "BIAS"}
             statistics == {"MEAN", "INV_VARIANCE"}
  <2>1. /\ NormInputsValid(node, ts, scales) /\ StatisticsPresent(node, statistics)
        /\ NormResultValid(node, us, statistics)
        /\ us = FillStatistics(node, FillLikeX(node, FillScales(node, ts, scales, order)), statistics)
    BY <1>3 DEF PreValid, PostValid, InferredBy, LayerNormPre, LayerNormPost, LayerNormInfer
  <2>2. DimsRead(node) \subseteq ({"X", "Y"} \cup scales \cup statistics) \cap DOMAIN node.port
    BY <1>2, <1>3 DEF DimsRead
  <2>3. PreValid(node, us) <=> NormInputsValid(node, us, scales)
    BY <1>3, <2>1 DEF PreValid, LayerNormPre
  <2> HIDE DEF scales, statistics
  <2>4. Known(node, us) /\ (Regular(node, us) => NormInputsValid(node, us, scales))
    BY <1>1, <2>1, <2>2
  <2> QED BY <2>3, <2>4 DEF Again
<1>4. CASE node.kind = "rmsnorm"
  <2> DEFINE scales == {"SCALE"}
             statistics == {"INV_RMS"}
  <2>1. /\ NormInputsValid(node, ts, scales) /\ StatisticsPresent(node, statistics)
        /\ NormResultValid(node, us, statistics)
        /\ us = FillStatistics(node, FillLikeX(node, FillScales(node, ts, scales, order)), statistics)
    BY <1>4 DEF PreValid, PostValid, InferredBy, RmsNormPre, RmsNormPost, RmsNormInfer
  <2>2. DimsRead(node) \subseteq ({"X", "Y"} \cup scales \cup statistics) \cap DOMAIN node.port
    BY <1>2, <1>4 DEF DimsRead
  <2>3. PreValid(node, us) <=> NormInputsValid(node, us, scales)
    BY <1>4, <2>1 DEF PreValid, RmsNormPre
  <2> HIDE DEF scales, statistics
  <2>4. Known(node, us) /\ (Regular(node, us) => NormInputsValid(node, us, scales))
    BY <1>1, <2>1, <2>2
  <2> QED BY <2>3, <2>4 DEF Again
<1> QED BY <1>3, <1>4

LEMMA PointwiseAgain ==
  ASSUME NEW ts, NEW us, NEW node, node.kind = "pointwise", PreValid(node, ts), PostValid(node, us)
  PROVE  Again(node, us)
<1>1. PointwisePre(node, ts) /\ PointwisePost(node, us)
  BY DEF PreValid, PostValid
<1>2. PreValid(node, us)
  BY <1>1 DEF PreValid, PointwisePre
<1>3. Known(node, us)
  BY <1>1 DEF PointwisePost, Known, DimsRead, StridesRead
<1> QED BY <1>2, <1>3 DEF Again

LEMMA CustomAgain ==
  ASSUME NEW D, NEW ts, NEW us, Grown(D, ts, us), NEW node, NodeOf(D, node),
         node.kind \notin {"fprop", "wgrad", "dgrad", "matmul", "pointwise", "reduction",
                           "layernorm", "rmsnorm", "batchnorm", "sdpa"}, PreValid(node, ts)
  PROVE  Again(node, us)
<1>1. CustomPre(node, ts)
  BY DEF PreValid
<1>2. CustomPre(node, us)
  BY <1>1, SetPort DEF CustomPre
<1>3. PreValid(node, us) /\ PostValid(node, us) /\ Known(node, us)
  BY <1>2 DEF PreValid, PostValid, Known, DimsRead, StridesRead
<1> QED BY <1>3 DEF Again

\* What a node infers and then accepts, it accepts again.
LEMMA ValidatedAgain ==
  ASSUME NEW D, NEW before \in [D -> Tensor], NEW node, NodeOf(D, node),
         {graph.io, graph.intermediate} \subseteq DataTypes, PreValid(node, before),
         NEW order \in Orders(node, before),
         NEW us, us = Inferred(node, before, order), PostValid(node, us),
         node.kind = "matmul" => Dense(Port(node, before, "A")) /\ Dense(Port(node, before, "B"))
  PROVE  Again(node, us)
<1>1. PICK ts \in [D -> Tensor] : /\ Retyped(D, before, ts) /\ RanksFit(node, ts)
                                  /\ us = InferredBy(node, ts, order)
  BY InferredFrom
<1>2. Grown(D, before, us)
  BY InferredGrows
<1>3. \A p \in DOMAIN node.port :
        /\ Port(node, ts, p).dim = Port(node, before, p).dim
        /\ Port(node, ts, p).stride = Port(node, before, p).stride
        /\ Port(node, ts, p).scalar = Port(node, before, p).scalar
  BY <1>1 DEF Retyped, NodeOf, Port
<1>4. CASE node.kind = "fprop"
  BY <1>2, <1>4, FPropAgain
<1>5. CASE node.kind \in {"wgrad", "dgrad"}
  <2>1. /\ node.kind = "wgrad" => us = ConvWGradInfer(node, ts)
        /\ node.kind = "dgrad" => us = ConvDGradInfer(node, ts)
    BY <1>1 DEF InferredBy
  <2>2. /\ node.kind = "wgrad" => "DW" \in DOMAIN node.port
        /\ node.kind = "dgrad" => "DX" \in DOMAIN node.port
    BY KindPorts
  <2>3. /\ node.kind = "wgrad" =>
             (Port(node, before, "DW").dim = <<>> => Port(node, us, "DW").dim = <<>>)
        /\ node.kind = "dgrad" =>
             (Port(node, before, "DX").dim = <<>> => Port(node, us, "DX").dim = <<>>)
    BY <1>1, <1>3, <2>1, <2>2, GradientNotInferred
  <2> QED BY <1>2, <1>5, <2>3, WGradAgain, DGradAgain
<1>6. CASE node.kind = "matmul"
  <2>1. Dense(Port(node, us, "C"))
    BY <1>1, <1>6, MatmulDense DEF InferredBy
  <2> QED BY <1>2, <1>6, <2>1, MatmulAgain
<1>7. CASE node.kind = "pointwise"
  BY <1>7, PointwiseAgain
<1>8. CASE node.kind = "reduction"
  <2>1. Dense(Port(node, us, "Y"))
    BY <1>1, <1>8, ReductionDense DEF InferredBy
  <2> QED BY <1>2, <1>8, <2>1, ReductionAgain
<1>9. CASE node.kind = "sdpa"
  <2>1. Dense(Port(node, us, "O"))
    BY <1>1, <1>9, SdpaDense DEF InferredBy
  <2> QED BY <1>2, <1>9, <2>1, SdpaAgain
<1>10. CASE node.kind = "batchnorm"
  BY <1>2, <1>10, BatchNormAgain
<1>11. CASE node.kind \in {"layernorm", "rmsnorm"}
  <2>1. Alike(node, before, ts)
    BY <1>3, <1>11, PortsRead DEF Alike
  <2>2. PreValid(node, ts)
    BY <1>11, <2>1, NormAlike
  <2>3. "X" \in DOMAIN node.port
    BY <1>11, KindPorts
  <2>4. order \in OrdersPreserving(Port(node, before, "X").stride, Len(Port(node, before, "X").dim))
    BY <1>11 DEF Orders
  <2>5. order \in OrdersPreserving(Port(node, ts, "X").stride, Len(Port(node, ts, "X").dim))
    BY <1>3, <2>3, <2>4
  <2> QED BY <1>1, <1>11, <2>2, <2>5, NormAgain
<1>12. CASE node.kind \notin {"fprop", "wgrad", "dgrad", "matmul", "pointwise", "reduction",
                              "layernorm", "rmsnorm", "batchnorm", "sdpa"}
  BY <1>2, <1>12, CustomAgain
<1> QED BY <1>4, <1>5, <1>6, <1>7, <1>8, <1>9, <1>10, <1>11, <1>12

-----------------------------------------------------------------------------
(* The operands of products                                                *)

\* The operand is a tensor that an earlier node infers.
InferredBefore(k, i) ==
  \E j \in 1..k - 1 : \E p \in InferredPorts(graph.nodes[j]) : graph.nodes[j].port[p] = i

Operand(k, i) ==
  /\ graph.nodes[k].kind = "matmul"
  /\ i \in {graph.nodes[k].port["A"], graph.nodes[k].port["B"]}

\* The caller sets the strides of the others with their dims.
OperandsDense ==
  \A k \in DOMAIN graph.nodes : \A i \in DOMAIN graph.choices :
    Operand(k, i) /\ ~InferredBefore(k, i) => Dense(tensor[i])

\* What a node infers is among what its checks look at.
LEMMA InferredIsRead ==
  ASSUME NEW D, NEW node, NodeOf(D, node)
  PROVE  InferredPorts(node) \subseteq StridesRead(node)
<1>1. CASE node.kind \in {"fprop", "wgrad", "dgrad", "matmul", "pointwise"}
  BY <1>1 DEF InferredPorts, StridesRead, DimsRead
<1>2. CASE node.kind \in {"reduction", "sdpa"}
  BY <1>2 DEF InferredPorts, StridesRead, DimsRead
<1>3. CASE node.kind = "layernorm"
  BY <1>3 DEF InferredPorts, StridesRead, DimsRead
<1>4. CASE node.kind = "rmsnorm"
  BY <1>4 DEF InferredPorts, StridesRead, DimsRead
<1>5. CASE node.kind = "batchnorm"
  BY <1>5 DEF InferredPorts, StridesRead, DimsRead, ChannelPorts
<1>6. CASE node.kind \notin {"fprop", "wgrad", "dgrad", "matmul", "pointwise", "reduction",
                             "layernorm", "rmsnorm", "batchnorm", "sdpa"}
  BY <1>6 DEF InferredPorts
<1> QED BY <1>1, <1>2, <1>3, <1>4, <1>5, <1>6

\* The output of a pointwise node is no operand of an earlier product.
LEMMA PointwiseOutput ==
  ASSUME graph \in Cases, NEW k \in DOMAIN graph.nodes, NEW j \in DOMAIN graph.nodes,
         graph.nodes[j].kind = "pointwise", Operand(k, graph.nodes[j].port["OUT_0"])
  PROVE  InferredBefore(k, graph.nodes[j].port["OUT_0"])
<1> DEFINE i == graph.nodes[j].port["OUT_0"]
<1>1. /\ DOMAIN graph.nodes = 1..Len(graph.nodes) /\ Len(graph.nodes) \in Nat
      /\ NodeOf(DOMAIN graph.choices, graph.nodes[k])
  BY CaseIs
<1>2. CASE j < k
  <2>1. j \in 1..k - 1
    BY <1>1, <1>2
  <2>2. "OUT_0" \in InferredPorts(graph.nodes[j])
    BY DEF InferredPorts
  <2> QED BY <2>1, <2>2 DEF InferredBefore
<1>3. CASE j = k
  BY <1>3 DEF Operand
<1>4. CASE k < j
  <2>1. k \in 1..j - 1
    BY <1>1, <1>4
  <2>2. "OUT_0" \in graph.nodes[j].out
    BY BuiltAssumption
  <2>3. {graph.nodes[j].port[p] : p \in graph.nodes[j].out} \cap Range(graph.nodes[k].port) = {}
    BY <2>1, BuiltAssumption
  <2>4. i \in Range(graph.nodes[k].port)
    BY <1>1, KindPorts DEF Operand, Range
  <2> QED BY <2>2, <2>3, <2>4
<1>5. j < k \/ j = k \/ k < j
  BY <1>1
<1> QED BY <1>2, <1>3, <1>4, <1>5

LEMMA OperandsStayDense ==
  ASSUME TypeOK, OperandsDense, [Next]_vars
  PROVE  OperandsDense'
<1> DEFINE D == DOMAIN graph.choices
<1>1. /\ graph \in Cases /\ tensor \in [D -> Tensor] /\ graph' = graph
      /\ {graph.io, graph.intermediate} \subseteq DataTypes
  BY CaseIs DEF TypeOK, Next, vars, SetTensor, Begin, RefuseNode, ValidateNode, Conclude
<1>2. SUFFICES ASSUME NEW k \in DOMAIN graph.nodes, NEW i \in D, Operand(k, i), ~InferredBefore(k, i)
               PROVE  Dense(tensor'[i])
  BY <1>1 DEF OperandsDense, Operand, InferredBefore
<1>3. Dense(tensor[i])
  BY <1>2 DEF OperandsDense
<1>4. CASE tensor' = tensor
  BY <1>3, <1>4
<1>5. CASE ValidateNode
  <2> DEFINE node == graph.nodes[at]
  <2>1. at \in DOMAIN graph.nodes /\ PreValid(node, tensor)
    BY <1>5 DEF ValidateNode
  <2>2. PICK order : tensor' = Inferred(node, tensor, order)
    BY <1>5 DEF ValidateNode
  <2>3. NodeOf(D, node)
    BY <1>1, <2>1, CaseIs
  <2>4. ~(node.kind = "pointwise" /\ i = node.port["OUT_0"])
    BY <1>1, <1>2, <2>1, PointwiseOutput
  <2> HIDE DEF node, D
  <2> QED BY <1>1, <1>2, <1>3, <2>1, <2>2, <2>3, <2>4, InferredDense
<1>6. ASSUME NEW j \in DOMAIN tensor, SetTensor(j) PROVE Dense(tensor'[i])
  <2>1. PICK c \in graph.choices[j] : tensor' = [tensor EXCEPT ![j] = Typed(c, tensor[j].type)]
    BY <1>6 DEF SetTensor
  <2>2. CASE i = j
    <3> DEFINE u == Typed(c, tensor[j].type)
               type == tensor[j].type
    <3>1. Dense(c)
      <4>1. \A t \in graph.choices[i] : t.dim # <<>> => t.stride # <<>>
        BY <1>1, <1>2, OperandsAssumption DEF Operand, InferredBefore
      <4> QED BY <2>2, <4>1 DEF Dense
    <3>2. c \in Tensor /\ type \in DataTypes
      BY <1>1, <2>2, CaseIs DEF Tensor
    <3>3. u = c \/ u = [c EXCEPT !.type = type]
      BY DEF Typed
    <3>4. tensor'[i] = u
      BY <1>1, <2>1, <2>2
    <3> HIDE DEF type, u
    <3>5. SameBut([c EXCEPT !.type = type], c, {"type"})
      BY <3>2, TypedTensor
    <3> QED BY <3>1, <3>3, <3>4, <3>5 DEF Dense, SameBut
  <2>3. CASE i # j
    <3>1. tensor'[i] = tensor[i]
      BY <1>1, <2>1, <2>3
    <3> QED BY <1>3, <3>1
  <2> QED BY <2>2, <2>3
<1>7. tensor' = tensor \/ ValidateNode \/ \E j \in DOMAIN tensor : SetTensor(j)
  BY DEF Next, vars, Begin, RefuseNode, Conclude
<1> QED BY <1>4, <1>5, <1>6, <1>7

-----------------------------------------------------------------------------
(* An accepted graph is accepted again                                     *)

\* The nodes that this call of validate has passed pass again, and all of them in an
\* accepted graph.
AllAgain == \A k \in DOMAIN graph.nodes : Settling(k) => Again(graph.nodes[k], tensor)

\* The nodes that were validated before.
LEMMA OthersAgain ==
  ASSUME TypeOK, AllSettled, AllAgain, ValidateNode, NEW k \in DOMAIN graph.nodes, Settling(k)
  PROVE  Again(graph.nodes[k], tensor')
<1> DEFINE D == DOMAIN graph.choices
           other == graph.nodes[k]
<1>1. NodeOf(D, other) /\ Settled(other, tensor) /\ Again(other, tensor)
  BY CaseIs DEF TypeOK, AllSettled, AllAgain
<1>2. Grown(D, tensor, tensor')
  BY ValidateNodeGrows
<1>3. FillsOnly(Range(other.port), tensor, tensor')
  BY OthersFill
<1> HIDE DEF other, D
<1>4. ASSUME other.kind # "custom", NEW i \in Range(other.port)
      PROVE  tensor'[i].type = tensor[i].type
  <2>1. i \in Fills(other)
    BY <1>1, <1>4, FillsAreThere
  <2>2. tensor[i].type = NotSet => ContextType(tensor[i]) = NotSet
    BY <1>1, <2>1 DEF Settled
  <2>3. tensor'[i].type = tensor[i].type \/ (tensor[i].type = NotSet /\ tensor'[i].type = ContextType(tensor[i]))
    BY <1>3, <1>4 DEF FillsOnly
  <2> QED BY <2>2, <2>3
<1>5. Alike(other, tensor, tensor')
  BY <1>1, <1>2, <1>4, KnownStays DEF Again
<1>6. Again(other, tensor')
  BY <1>1, <1>5, AgainAlike
<1> QED BY <1>6 DEF other

\* The operands of a product have strides when its turn comes.
LEMMA OperandIsDense ==
  ASSUME TypeOK, OperandsDense, AllAgain, at \in DOMAIN graph.nodes, NEW i, Operand(at, i)
  PROVE  Dense(tensor[i])
<1> DEFINE D == DOMAIN graph.choices
<1>1. /\ graph \in Cases /\ DOMAIN graph.nodes = 1..Len(graph.nodes) /\ Len(graph.nodes) \in Nat
      /\ NodeOf(D, graph.nodes[at])
  BY CaseIs DEF TypeOK
<1>2. i \in D
  BY <1>1, KindPorts DEF Operand, NodeOf
<1>3. CASE InferredBefore(at, i)
  <2>1. PICK j \in 1..at - 1 : \E p \in InferredPorts(graph.nodes[j]) : graph.nodes[j].port[p] = i
    BY <1>3 DEF InferredBefore
  <2>2. j \in DOMAIN graph.nodes /\ j < at
    BY <1>1
  <2>3. Known(graph.nodes[j], tensor)
    BY <2>2 DEF AllAgain, Settling, Again
  <2>4. InferredPorts(graph.nodes[j]) \subseteq StridesRead(graph.nodes[j])
    BY <1>1, <2>2, CaseIs, InferredIsRead
  <2> QED BY <2>1, <2>3, <2>4 DEF Known, Port, Dense
<1>4. CASE ~InferredBefore(at, i)
  BY <1>2, <1>4 DEF OperandsDense
<1> QED BY <1>3, <1>4

LEMMA AgainStays ==
  ASSUME TypeOK, AllSettled, OperandsDense, AllAgain, [Next]_vars
  PROVE  AllAgain'
<1> DEFINE n == Len(graph.nodes)
<1>1. /\ DOMAIN graph.nodes = 1..n /\ n \in Nat /\ at \in 0..n + 1 /\ accepted \in BOOLEAN
  BY CaseIs DEF TypeOK, Idle, Concluding
<1>2. graph' = graph
  BY DEF Next, vars, SetTensor, Begin, RefuseNode, ValidateNode, Conclude
<1>3. SUFFICES ASSUME NEW k \in DOMAIN graph.nodes, k < at' \/ accepted'
               PROVE  Again(graph.nodes[k], tensor')
  BY <1>2 DEF AllAgain, Settling
<1>4. k \in 1..n
  BY <1>1
<1>5. Settling(k) => Again(graph.nodes[k], tensor)
  BY DEF AllAgain
<1>6. CASE UNCHANGED vars \/ Begin
  <2>1. tensor' = tensor /\ Settling(k)
    <3>1. tensor' = tensor /\ accepted' = accepted /\ (at' = at \/ at' = 1)
      BY <1>6 DEF vars, Begin
    <3>2. ~(k < 1)
      BY <1>4
    <3> QED BY <1>3, <3>1, <3>2 DEF Settling
  <2> QED BY <1>5, <2>1
<1>7. CASE (\E i \in DOMAIN tensor : SetTensor(i)) \/ RefuseNode
  <2>1. at' = 0 /\ accepted' = FALSE
    BY <1>7 DEF SetTensor, RefuseNode, Refused, Idle
  <2>2. ~(k < 0)
    BY <1>4
  <2> QED BY <1>3, <2>1, <2>2
<1>8. CASE Conclude
  <2>1. at = n + 1 /\ tensor' = tensor
    BY <1>8 DEF Conclude, Concluding
  <2>2. k < at
    BY <1>4, <2>1
  <2> QED BY <1>5, <2>1, <2>2 DEF Settling
<1>9. CASE ValidateNode
  <2>1. (at' = at + 1 /\ accepted' = accepted /\ PostValid(graph.nodes[at], tensor'))
          \/ (at' = 0 /\ accepted' = FALSE)
    BY <1>9, ValidateNodeGrows DEF Idle
  <2>2. (Settling(k) \/ k = at) /\ PostValid(graph.nodes[at], tensor')
    <3>1. k < at + 1 => k < at \/ k = at
      BY <1>1, <1>4
    <3>2. ~(k < 0)
      BY <1>4
    <3> QED BY <1>3, <2>1, <3>1, <3>2 DEF Settling
  <2>3. CASE Settling(k)
    BY <1>9, <2>3, OthersAgain
  <2>4. CASE k = at
    <3> DEFINE D == DOMAIN graph.choices
               node == graph.nodes[at]
    <3>1. /\ tensor \in [D -> Tensor] /\ NodeOf(D, node) /\ PreValid(node, tensor)
          /\ {graph.io, graph.intermediate} \subseteq DataTypes
      BY <1>9, CaseIs DEF TypeOK, ValidateNode
    <3>2. PICK order \in Orders(node, tensor) : tensor' = Inferred(node, tensor, order)
      BY <1>9 DEF ValidateNode
    <3>3. node.kind = "matmul" => Dense(Port(node, tensor, "A")) /\ Dense(Port(node, tensor, "B"))
      BY <2>4, OperandIsDense DEF Operand, Port
    <3>4. PostValid(node, tensor')
      BY <2>2
    <3> HIDE DEF D, node
    <3>5. Again(node, tensor')
      BY <3>1, <3>2, <3>3, <3>4, ValidatedAgain
    <3> QED BY <2>4, <3>5 DEF node
  <2> QED BY <2>2, <2>3, <2>4
<1> QED BY <1>6, <1>7, <1>8, <1>9 DEF Next

LEMMA SameTensor ==
  ASSUME NEW t \in Tensor, NEW u \in Tensor,
         \A a \in {"dim", "stride", "type", "virtual", "scalar", "dynamic"} : u[a] = t[a]
  PROVE  u = t
<1>1. \A v \in Tensor : v = [a \in {"dim", "stride", "type", "virtual", "scalar", "dynamic"} |-> v[a]]
  BY DEF Tensor
<1> QED BY <1>1

\* Validating a node of an accepted graph changes nothing.
LEMMA SecondCallKeeps ==
  ASSUME TypeOK, AcceptedLaidOut, AcceptedTyped, AllSettled, accepted, ValidateNode
  PROVE  tensor' = tensor
<1> DEFINE D == DOMAIN graph.choices
           node == graph.nodes[at]
<1>1. tensor \in [D -> Tensor] /\ tensor' \in [D -> Tensor] /\ Grown(D, tensor, tensor')
  BY ValidateNodeGrows DEF TypeOK, Grown
<1>2. Settled(node, tensor)
  BY DEF ValidateNode, AllSettled, Settling
<1>3. ASSUME NEW i \in D PROVE tensor'[i] = tensor[i]
  <2>1. tensor[i].dim # <<>> /\ tensor[i].stride # <<>> /\ tensor[i].type # NotSet
    BY <1>1 DEF AcceptedLaidOut, AcceptedTyped, LaidOut
  <2>2. /\ tensor'[i].dim = tensor[i].dim /\ tensor'[i].stride = tensor[i].stride
        /\ tensor'[i].virtual = tensor[i].virtual /\ tensor'[i].scalar = tensor[i].scalar
        /\ tensor'[i].dynamic = tensor[i].dynamic
    BY <1>1, <2>1 DEF Grown
  <2>3. tensor'[i].type = tensor[i].type
    <3>1. tensor'[i].type = TypeAfter(node, tensor[i], i)
      BY TypesAfter
    <3> QED BY <1>2, <2>1, <3>1 DEF TypeAfter, Settled
  <2>4. tensor[i] \in Tensor /\ tensor'[i] \in Tensor
    BY <1>1
  <2> QED BY <2>2, <2>3, <2>4, SameTensor
<1> QED BY <1>1, <1>3

AcceptedValid == accepted => TensorsValid

LEMMA AcceptedStaysValid ==
  ASSUME TypeOK, AcceptedLaidOut, AcceptedTyped, AllSettled, AcceptedValid, [Next]_vars
  PROVE  AcceptedValid'
<1> SUFFICES ASSUME accepted' PROVE TensorsValid'
  BY DEF AcceptedValid
<1>1. graph' = graph
  BY DEF Next, vars, SetTensor, Begin, RefuseNode, ValidateNode, Conclude
<1>2. tensor' = tensor /\ TensorsValid
  <2>1. CASE ValidateNode
    <3>1. accepted \in BOOLEAN /\ (accepted' = accepted \/ accepted' = FALSE)
      BY <2>1 DEF TypeOK, ValidateNode, Refused
    <3> QED BY <2>1, <3>1, SecondCallKeeps DEF AcceptedValid
  <2>2. CASE Conclude
    BY <2>2 DEF Conclude, Refused
  <2>3. CASE RefuseNode \/ \E i \in DOMAIN tensor : SetTensor(i)
    BY <2>3 DEF RefuseNode, Refused, SetTensor
  <2>4. CASE Begin \/ UNCHANGED vars
    BY <2>4 DEF Begin, vars, AcceptedValid
  <2> QED BY <2>1, <2>2, <2>3, <2>4 DEF Next
<1> QED BY <1>1, <1>2 DEF TensorsValid, Outputs

\* In an accepted graph whose products have operands of types that fit, and whose norms have
\* inputs that tell their axes apart, every node is regular.
LEMMA AcceptedRegular ==
  ASSUME TypeOK, AcceptedLaidOut, MixedProductsBatched, accepted, ~TiedNorm, ~MixedCustomFed,
         NEW k \in DOMAIN graph.nodes
  PROVE  Regular(graph.nodes[k], tensor)
<1> DEFINE D == DOMAIN graph.choices
           node == graph.nodes[k]
<1>1. tensor \in [D -> Tensor] /\ NodeOf(D, node) /\ node \in Range(graph.nodes)
  BY CaseIs DEF TypeOK, Range
<1> HIDE DEF node, D
<1>2. ASSUME node.kind = "matmul"
      PROVE  MixedFits(Port(node, tensor, "A"), Port(node, tensor, "B"))
  BY <1>1, <1>2 DEF MixedProductsBatched, MixedCustomFed, MixedFits
<1>3. ASSUME node.kind \in {"layernorm", "rmsnorm"}
      PROVE  Untied(Port(node, tensor, "X").stride)
  <2>1. node.port["X"] \in D
    BY <1>1, <1>3, KindPorts DEF NodeOf
  <2>2. ValidPhysical(Port(node, tensor, "X"))
    BY <1>1, <2>1 DEF AcceptedLaidOut, LaidOut, Port
  <2>3. ~Tied(Port(node, tensor, "X").stride)
    BY <1>1, <1>3 DEF TiedNorm
  <2> QED BY <2>2, <2>3 DEF ValidPhysical, Untied
<1> QED BY <1>2, <1>3 DEF Regular, node

LEMMA RevalidatesStep ==
  ASSUME TypeOK, AcceptedLaidOut, AcceptedTyped, AcceptedValid, AllSettled, AllAgain,
         MixedProductsBatched, accepted, ~TiedNorm, ~MixedCustomFed, [Next]_vars
  PROVE  (accepted' /\ tensor' = tensor) \/ \E i \in DOMAIN tensor : SetTensor(i)
<1>1. CASE ValidateNode
  <2>1. tensor' = tensor
    BY <1>1, SecondCallKeeps
  <2>2. PostValid(graph.nodes[at], tensor)
    BY <1>1 DEF ValidateNode, AllAgain, Settling, Again
  <2> QED BY <1>1, <2>1, <2>2 DEF ValidateNode
<1>2. CASE RefuseNode
  <2>1. at \in DOMAIN graph.nodes /\ ~PreValid(graph.nodes[at], tensor)
    BY <1>2 DEF RefuseNode
  <2>2. Regular(graph.nodes[at], tensor)
    BY <2>1, AcceptedRegular
  <2> QED BY <2>1, <2>2 DEF AllAgain, Settling, Again
<1>3. CASE Conclude
  BY <1>3 DEF Conclude, AcceptedValid
<1>4. CASE Begin \/ UNCHANGED vars
  BY <1>4 DEF Begin, vars
<1> QED BY <1>1, <1>2, <1>3, <1>4 DEF Next

\* An accepted graph that nobody changes is accepted again, with the same tensors.
THEOREM RevalidatesCorrect == Spec => Revalidates
<1> DEFINE AgainInv == VirtualChosen /\ AllSettled /\ AcceptedTyped /\ OperandsDense /\ AllAgain
                         /\ AcceptedValid
<1>1. Init => AgainInv
  <2> SUFFICES ASSUME Init PROVE AgainInv
    OBVIOUS
  <2>1. graph \in Cases /\ at = 0 /\ accepted = FALSE
    BY DEF Init, Idle
  <2>2. VirtualChosen
    BY DEF Init, VirtualChosen
  <2>3. AllSettled /\ AllAgain
    <3>1. \A k \in 1..Len(graph.nodes) : ~(k < 0)
      BY <2>1, CaseIs
    <3>2. DOMAIN graph.nodes = 1..Len(graph.nodes)
      BY <2>1, CaseIs
    <3> QED BY <2>1, <3>1, <3>2 DEF AllSettled, AllAgain, Settling
  <2>4. OperandsDense
    <3> SUFFICES ASSUME NEW k \in DOMAIN graph.nodes, NEW i \in DOMAIN graph.choices,
                        Operand(k, i), ~InferredBefore(k, i)
                 PROVE  Dense(tensor[i])
      BY DEF OperandsDense
    <3>1. \A t \in graph.choices[i] : t.dim # <<>> => t.stride # <<>>
      BY <2>1, OperandsAssumption DEF Operand, InferredBefore
    <3>2. tensor[i] \in graph.choices[i]
      BY DEF Init
    <3> QED BY <3>1, <3>2 DEF Dense
  <2> QED BY <2>1, <2>2, <2>3, <2>4 DEF AcceptedTyped, AcceptedValid
<1>2. TypeOK /\ AcceptedLaidOut /\ AgainInv /\ [Next]_vars => AgainInv'
  BY SettledStays, VirtualChosenStays, AcceptedStaysTyped, OperandsStayDense, AgainStays,
     AcceptedStaysValid
<1>3. TypeOK /\ AcceptedLaidOut /\ MixedProductsBatched /\ AgainInv /\ [Next]_vars =>
        [accepted /\ ~TiedNorm /\ ~MixedCustomFed =>
           (accepted' /\ tensor' = tensor) \/ \E i \in DOMAIN tensor : SetTensor(i)]_vars
  BY RevalidatesStep
<1> HIDE DEF AgainInv
<1>4. Spec => []AgainInv
  BY <1>1, <1>2, TypeOKCorrect, AcceptedLaidOutCorrect, PTL DEF Spec
<1> QED BY <1>3, <1>4, TypeOKCorrect, AcceptedLaidOutCorrect, MixedProductsBatchedCorrect, PTL
        DEF Spec, Revalidates
=============================================================================
