-------------------------------- MODULE Sums --------------------------------
(***************************************************************************)
(* Lemmas about SumFunctionOnSet, with which the models add up quantities:   *)
(* the sum over a finite set of units held, moved or asked for.  The library *)
(* defines it by choosing one element after the other; these lemmas say that *)
(* the order does not matter.  Induction is by a least counterexample.       *)
(***************************************************************************)
EXTENDS Integers, Functions, FiniteSetTheorems, WellFoundedInduction, TLAPS

LEMMA LeastSubset ==
  ASSUME NEW S, IsFiniteSet(S), NEW D \in SUBSET SUBSET S, D # {}
  PROVE  \E T \in D : \A U \in D : U \subseteq T => U = T
<1>1. FiniteSubsetsOf(S) = SUBSET S BY FS_FiniteSubsetsOfFinite
<1>2. IsWellFoundedOn(StrictSubsetOrdering(S), SUBSET S)
  BY <1>1, FS_StrictSubsetOrderingWellFounded
<1>3. PICK T \in D : \A U \in D : ~ (<<U, T>> \in StrictSubsetOrdering(S))
  BY <1>2, WFMin
<1> QED BY <1>3 DEF StrictSubsetOrdering

\* f gives every subset of S its sum of weights.
Additive(f, w, S) ==
  /\ f \in [SUBSET S -> Int]
  /\ f[{}] = 0
  /\ \A T \in SUBSET S : \A x \in S \ T : f[T \union {x}] = w[x] + f[T]

LEMMA AdditiveExists ==
  ASSUME NEW S, IsFiniteSet(S), NEW w, \A x \in S : w[x] \in Int
  PROVE  \E f : Additive(f, w, S)
<1> DEFINE D == {T \in SUBSET S : ~\E f : Additive(f, w, T)}
<1> SUFFICES ASSUME D # {} PROVE FALSE BY FS_Subset
<1>1. PICK T \in D : \A U \in D : U \subseteq T => U = T
  <2>1. D \in SUBSET SUBSET S OBVIOUS
  <2> HIDE DEF D
  <2> QED BY <2>1, LeastSubset
<1>2. CASE T = {}
  <2> DEFINE f == [U \in SUBSET T |-> 0]
  <2>1. Additive(f, w, T) BY <1>2 DEF Additive
  <2> QED BY <2>1
<1>3. CASE T # {}
  <2>1. PICK x \in T : TRUE BY <1>3
  <2>2. T \ {x} \in SUBSET S /\ T \ {x} \notin D BY <1>1, <2>1
  <2>3. PICK f : Additive(f, w, T \ {x}) BY <2>2
  <2>4. f \in [SUBSET (T \ {x}) -> Int] /\ w[x] \in Int /\ f[{}] = 0
    BY <2>1, <2>3 DEF Additive
  <2> DEFINE g == [U \in SUBSET T |-> IF x \in U THEN w[x] + f[U \ {x}] ELSE f[U]]
  <2>5. \A U \in SUBSET T : /\ U \ {x} \in SUBSET (T \ {x})
                            /\ x \notin U => U \in SUBSET (T \ {x})
    OBVIOUS
  <2>6. g \in [SUBSET T -> Int]
    <3>1. \A U \in SUBSET T : (IF x \in U THEN w[x] + f[U \ {x}] ELSE f[U]) \in Int
      BY <2>4, <2>5
    <3> QED BY <3>1
  <2>7. g[{}] = 0 BY <2>4
  <2>8. ASSUME NEW U \in SUBSET T, NEW y \in T \ U
        PROVE  g[U \union {y}] = w[y] + g[U]
    <3>0. U \union {y} \in SUBSET T /\ w[y] \in Int OBVIOUS
    <3>1. CASE y = x
      <4>1. (U \union {y}) \ {x} = U BY <2>8, <3>1
      <4> QED BY <2>8, <3>0, <3>1, <4>1
    <3>2. CASE y # x /\ x \notin U
      <4>1. f[U \union {y}] = w[y] + f[U] BY <2>3, <2>5, <2>8, <3>2 DEF Additive
      <4> QED BY <2>8, <3>0, <3>2, <4>1
    <3>3. CASE y # x /\ x \in U
      <4>1. (U \union {y}) \ {x} = (U \ {x}) \union {y} BY <3>3
      <4>2. U \ {x} \in SUBSET (T \ {x}) /\ y \in (T \ {x}) \ (U \ {x})
        BY <2>5, <2>8, <3>3
      <4>3. f[(U \ {x}) \union {y}] = w[y] + f[U \ {x}] BY <2>3, <4>2 DEF Additive
      <4>4. f[U \ {x}] \in Int BY <2>4, <4>2
      <4>5. g[U \union {y}] = w[x] + f[(U \ {x}) \union {y}] BY <3>0, <3>3, <4>1
      <4>6. g[U] = w[x] + f[U \ {x}] BY <3>3
      <4> HIDE DEF g
      <4> QED BY <2>4, <3>0, <4>3, <4>4, <4>5, <4>6
    <3> QED BY <3>1, <3>2, <3>3
  <2>9. Additive(g, w, T) BY <2>6, <2>7, <2>8 DEF Additive
  <2> QED BY <2>9
<1> QED BY <1>2, <1>3

\* The library's recursion, whatever element it chooses.
LEMMA SumIsAdditive ==
  ASSUME NEW S, IsFiniteSet(S), NEW w, NEW f, Additive(f, w, S), 
         NEW T \in SUBSET S
  PROVE  SumFunctionOnSet(w, T) = f[T]
<1> DEFINE pick(U) == CHOOSE x \in U : TRUE
<1> DEFINE body(iter) == [U \in SUBSET T |->
                            IF U = {} THEN 0 ELSE w[pick(U)] + iter[U \ {pick(U)}]]
<1> DEFINE it == CHOOSE iter : iter = body(iter)
<1>1. SumFunctionOnSet(w, T) = it[T]
  BY DEF SumFunctionOnSet, FoldFunctionOnSet, MapThenFoldSet
<1>2. \A U \in SUBSET T : U # {} =>
        /\ pick(U) \in U /\ U \ {pick(U)} \in SUBSET T
        /\ f[U] = w[pick(U)] + f[U \ {pick(U)}]
  <2> SUFFICES ASSUME NEW U \in SUBSET T, U # {}
               PROVE  /\ pick(U) \in U /\ U \ {pick(U)} \in SUBSET T
                      /\ f[U] = w[pick(U)] + f[U \ {pick(U)}]
    OBVIOUS
  <2>1. pick(U) \in U OBVIOUS
  <2> HIDE DEF pick
  <2>2. U = (U \ {pick(U)}) \union {pick(U)} BY <2>1
  <2> QED BY <2>1, <2>2 DEF Additive
<1> HIDE DEF pick
<1>3. f[{}] = 0 BY DEF Additive
<1>4. it = body(it)
  <2> DEFINE h == [U \in SUBSET T |-> f[U]]
  <2>1. h = body(h) BY <1>2, <1>3
  <2> HIDE DEF h, body
  <2> QED BY <2>1
<1> HIDE DEF it
<1>5. \A U \in SUBSET T : it[U] = f[U]
  <2> DEFINE D == {U \in SUBSET T : it[U] # f[U]}
  <2> SUFFICES ASSUME D # {} PROVE FALSE OBVIOUS
  <2>1. PICK U \in D : \A V \in D : V \subseteq U => V = U
    <3>1. D \in SUBSET SUBSET T /\ IsFiniteSet(T) BY FS_Subset
    <3> HIDE DEF D
    <3> QED BY <3>1, LeastSubset
  <2>2. U # {} BY <1>3, <1>4
  <2>3. U \ {pick(U)} \notin D BY <1>2, <2>1, <2>2
  <2>4. it[U] = w[pick(U)] + it[U \ {pick(U)}] BY <1>4, <2>2
  <2> QED BY <1>2, <2>2, <2>3, <2>4
<1> QED BY <1>1, <1>5

-----------------------------------------------------------------------------
LEMMA SumEmpty == ASSUME NEW w PROVE SumFunctionOnSet(w, {}) = 0
<1> DEFINE f == [U \in SUBSET {} |-> 0]
<1>1. Additive(f, w, {}) BY DEF Additive
<1> QED BY <1>1, SumIsAdditive, FS_EmptySet

LEMMA SumType ==
  ASSUME NEW S, IsFiniteSet(S), NEW w, \A x \in S : w[x] \in Int
  PROVE  SumFunctionOnSet(w, S) \in Int
<1>1. PICK f : Additive(f, w, S) BY AdditiveExists
<1>2. SumFunctionOnSet(w, S) = f[S] BY <1>1, SumIsAdditive
<1> QED BY <1>1, <1>2 DEF Additive

LEMMA SumAdd ==
  ASSUME NEW S, IsFiniteSet(S), NEW w, \A x \in S : w[x] \in Int,
         NEW y, y \notin S, w[y] \in Int
  PROVE  SumFunctionOnSet(w, S \union {y}) = w[y] + SumFunctionOnSet(w, S)
<1> DEFINE R == S \union {y}
<1>1. IsFiniteSet(R) BY FS_AddElement
<1>2. PICK f : Additive(f, w, R) BY <1>1, AdditiveExists
<1>3. SumFunctionOnSet(w, R) = f[R] BY <1>1, <1>2, SumIsAdditive
<1>4. SumFunctionOnSet(w, S) = f[S] BY <1>1, <1>2, SumIsAdditive
<1>5. f[S \union {y}] = w[y] + f[S] BY <1>2 DEF Additive
<1> QED BY <1>3, <1>4, <1>5

LEMMA SumSingle == ASSUME NEW x, NEW w, w[x] \in Int PROVE SumFunctionOnSet(w, {x}) = w[x]
<1>1. SumFunctionOnSet(w, {} \union {x}) = w[x] + SumFunctionOnSet(w, {})
  BY SumAdd, FS_EmptySet
<1> QED BY <1>1, SumEmpty

LEMMA SumRemove ==
  ASSUME NEW S, IsFiniteSet(S), NEW w, \A x \in S : w[x] \in Int, NEW y \in S
  PROVE  SumFunctionOnSet(w, S) = w[y] + SumFunctionOnSet(w, S \ {y})
<1>1. IsFiniteSet(S \ {y}) BY FS_Subset
<1>2. S = (S \ {y}) \union {y} OBVIOUS
<1> QED BY <1>1, <1>2, SumAdd

\* Only the weights of the members count.
LEMMA SumEqual ==
  ASSUME NEW S, IsFiniteSet(S), NEW w, NEW v, \A x \in S : w[x] \in Int /\ v[x] = w[x]
  PROVE  SumFunctionOnSet(v, S) = SumFunctionOnSet(w, S)
<1>1. PICK f : Additive(f, w, S) BY AdditiveExists
<1>2. Additive(f, v, S) BY <1>1 DEF Additive
<1> QED BY <1>1, <1>2, SumIsAdditive

\* No member weighs less than nothing: a sum covers each of its parts.
LEMMA SumCovers ==
  ASSUME NEW S, IsFiniteSet(S), NEW w, \A x \in S : w[x] \in Nat, NEW T \in SUBSET S
  PROVE  /\ SumFunctionOnSet(w, T) \in Nat
         /\ SumFunctionOnSet(w, T) <= SumFunctionOnSet(w, S)
<1>1. PICK f : Additive(f, w, S) BY AdditiveExists
<1>2. ASSUME NEW U \in SUBSET S, NEW V \in SUBSET U
      PROVE  f[V] <= f[U]
  <2> DEFINE D == {W \in SUBSET U : V \subseteq W /\ ~(f[V] <= f[W])}
  <2> SUFFICES ASSUME D # {} PROVE FALSE OBVIOUS
  <2>1. IsFiniteSet(U) /\ D \in SUBSET SUBSET U BY FS_Subset
  <2>2. PICK W \in D : \A X \in D : X \subseteq W => X = W
    <3> HIDE DEF D
    <3> QED BY <2>1, LeastSubset
  <2>3. W # V BY <1>1 DEF Additive
  <2>4. PICK x \in W \ V : TRUE BY <2>2, <2>3
  <2>5. W \ {x} \in SUBSET U /\ V \subseteq W \ {x} /\ W = (W \ {x}) \union {x}
    BY <2>2, <2>4
  <2>6. f[V] <= f[W \ {x}] BY <2>2, <2>4, <2>5
  <2>7. f[W] = w[x] + f[W \ {x}] BY <1>1, <2>4, <2>5 DEF Additive
  <2>8. f[W \ {x}] \in Int /\ f[V] \in Int /\ w[x] \in Nat
    BY <1>1, <2>4, <2>5 DEF Additive
  <2> QED BY <2>2, <2>6, <2>7, <2>8
<1>3. f[T] <= f[S] /\ 0 <= f[T] /\ f[T] \in Int
  BY <1>1, <1>2 DEF Additive
<1> QED BY <1>1, <1>3, SumIsAdditive
=============================================================================
