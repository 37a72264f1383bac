------------------------------ MODULE Induction ------------------------------
(***************************************************************************)
(* Induction over numbers and finite sets, stated with sets instead of     *)
(* predicates so that a proof can cite it, and what it gives for functions *)
(* that are defined by recursion over the subsets of a finite set, as the  *)
(* folds of the community modules are.                                     *)
(***************************************************************************)
EXTENDS Integers, Sequences, FiniteSets, Functions, SequencesExt,
        FiniteSetTheorems, SequenceTheorems, WellFoundedInduction, TLAPS

Below == {p \in Nat \X Nat : p[1] < p[2]}

(* A set of natural numbers that is not empty has a least element. *)
LEMMA LeastNumber ==
  ASSUME NEW T \in SUBSET Nat, T # {}
  PROVE  \E m \in T : \A n \in T : m <= n
<1>1. IsWellFoundedOn(Below, Nat)
  <2>1. OpToRel(<, Nat) = Below
    BY DEF OpToRel, Below
  <2>. QED  BY <2>1, NatLessThanWellFounded
<1>2. PICK m \in T : \A n \in T : <<n, m>> \notin Below
  BY <1>1, WFMin
<1>3. ASSUME NEW n \in T, n < m  PROVE FALSE
  <2>1. <<n, m>> \in Nat \X Nat
    OBVIOUS
  <2>. QED  BY <2>1, <1>2, <1>3 DEF Below
<1>. QED  BY <1>3

(* What holds of zero and of the successor of what it holds of, holds.      *)
LEMMA NumberInduction ==
  ASSUME NEW J, 0 \in J, \A n \in Nat : n \in J => n + 1 \in J
  PROVE  Nat \subseteq J
<1>. SUFFICES ASSUME Nat \ J # {}  PROVE FALSE
  OBVIOUS
<1>1. PICK m \in Nat \ J : \A n \in Nat \ J : m <= n
  BY LeastNumber
<1>2. m - 1 \in Nat /\ m - 1 \notin Nat \ J
  BY <1>1
<1>. QED  BY <1>1, <1>2

(* A step can be repeated any number of times. *)
LEMMA Iteration ==
  ASSUME NEW V, NEW base \in V, NEW H \in [V -> V], NEW N \in Nat
  PROVE  \E f \in [0..N -> V] : f[0] = base /\ \A n \in 1..N : f[n] = H[f[n - 1]]
<1>. DEFINE Times == {n \in Nat : \E f \in [0..n -> V] :
                        f[0] = base /\ \A k \in 1..n : f[k] = H[f[k - 1]]}
<1>1. 0 \in Times
  <2>. DEFINE f == [k \in 0..0 |-> base]
  <2>1. f \in [0..0 -> V] /\ f[0] = base /\ \A k \in 1..0 : f[k] = H[f[k - 1]]
    OBVIOUS
  <2>. HIDE DEF f
  <2>. QED  BY <2>1
<1>2. ASSUME NEW n \in Nat, n \in Times  PROVE n + 1 \in Times
  <2>1. PICK f \in [0..n -> V] : f[0] = base /\ \A k \in 1..n : f[k] = H[f[k - 1]]
    BY <1>2
  <2>. DEFINE g == [k \in 0..(n + 1) |-> IF k = n + 1 THEN H[f[n]] ELSE f[k]]
  <2>2. g \in [0..(n + 1) -> V]
    <3>1. n \in 0..n /\ H[f[n]] \in V
      OBVIOUS
    <3>2. \A k \in 0..(n + 1) : k # n + 1 => k \in 0..n
      OBVIOUS
    <3>. QED  BY <3>1, <3>2
  <2>3. g[0] = base
    BY <2>1
  <2>4. ASSUME NEW k \in 1..(n + 1)  PROVE g[k] = H[g[k - 1]]
    <3>1. k - 1 \in 0..(n + 1) /\ k - 1 # n + 1 /\ g[k - 1] = f[k - 1]
      OBVIOUS
    <3>2. CASE k = n + 1
      BY <3>1, <3>2
    <3>3. CASE k # n + 1
      <4>1. k \in 1..n /\ g[k] = f[k]
        BY <3>3
      <4>. QED  BY <2>1, <3>1, <4>1
    <3>. QED  BY <3>2, <3>3
  <2>. HIDE DEF g
  <2>. QED  BY <2>2, <2>3, <2>4
<1>3. N \in Times
  BY <1>1, <1>2, NumberInduction
<1>. QED  BY <1>3

(* A finite set of numbers that is not empty has a greatest element.        *)
LEMMA GreatestNumber ==
  ASSUME NEW T \in SUBSET Nat, T # {}, NEW bound \in Nat, \A n \in T : n <= bound
  PROVE  \E m \in T : \A n \in T : n <= m
<1>. DEFINE U == {bound - n : n \in T}
<1>1. U \in SUBSET Nat /\ U # {}
  <2>1. \A n \in T : bound - n \in Nat
    OBVIOUS
  <2>. QED  BY <2>1
<1>2. PICK u \in U : \A v \in U : u <= v
  BY <1>1, LeastNumber
<1>3. PICK m \in T : u = bound - m
  BY <1>2
<1>4. ASSUME NEW n \in T  PROVE n <= m
  <2>1. bound - n \in U
    OBVIOUS
  <2>2. n \in Nat /\ m \in Nat
    OBVIOUS
  <2>. QED  BY <2>1, <2>2, <1>2, <1>3
<1>. QED  BY <1>4

(* What holds of the empty set, and of a set with one element more than one *)
(* it holds of, holds of every finite set.                                  *)
LEMMA SetInduction ==
  ASSUME NEW S, IsFiniteSet(S), NEW J, {} \in J,
         \A T \in SUBSET S, x \in S : T \in J /\ x \notin T => T \union {x} \in J
  PROVE  S \in J
<1>. DEFINE Sizes == {n \in Nat : \A T \in SUBSET S : Cardinality(T) = n => T \in J}
<1>1. 0 \in Sizes
  BY FS_EmptySet, FS_Subset
<1>2. ASSUME NEW n \in Nat, n \in Sizes  PROVE n + 1 \in Sizes
  <2>. SUFFICES ASSUME NEW T \in SUBSET S, Cardinality(T) = n + 1  PROVE T \in J
    OBVIOUS
  <2>1. IsFiniteSet(T)
    BY FS_Subset
  <2>2. T # {}
    BY <2>1, FS_EmptySet
  <2>3. PICK x : x \in T
    BY <2>2
  <2>4. Cardinality(T \ {x}) = n
    <3>1. Cardinality(T \ {x}) = Cardinality(T) - 1
      BY <2>1, <2>3, FS_RemoveElement
    <3>. QED  BY <3>1
  <2>5. T \ {x} \in J
    BY <2>4, <1>2
  <2>6. T = (T \ {x}) \union {x}
    BY <2>3
  <2>. QED  BY <2>3, <2>5, <2>6
<1>3. Nat \subseteq Sizes
  BY <1>1, <1>2, NumberInduction
<1>. QED  BY <1>3, FS_CardinalityType

Recursive(f, S, base, choice, H) ==
  \A T \in SUBSET S : f[T] = IF T = {} THEN base ELSE H[<<choice[T], f[T \ {choice[T]}]>>]

(* A function may be defined on the subsets of a finite set by what it is   *)
(* for the empty set, and by what it is for a set from its value for that   *)
(* set without a chosen element.                                            *)
LEMMA RecursionOnSubsets ==
  ASSUME NEW S, IsFiniteSet(S), NEW V, NEW base \in V,
         NEW choice, \A T \in SUBSET S : T # {} => choice[T] \in T,
         NEW H \in [S \X V -> V]
  PROVE  \E f \in [SUBSET S -> V] : Recursive(f, S, base, choice, H)
<1>. DEFINE Small(n) == {T \in SUBSET S : Cardinality(T) <= n}
            Step(f, T) == IF T = {} THEN base ELSE H[<<choice[T], f[T \ {choice[T]}]>>]
            Sizes == {n \in Nat : \E f \in [Small(n) -> V] : \A T \in Small(n) : f[T] = Step(f, T)}
<1>1. \A T \in SUBSET S : /\ IsFiniteSet(T) /\ Cardinality(T) \in Nat
                          /\ Cardinality(T) <= Cardinality(S)
                          /\ Cardinality(T) = 0 <=> T = {}
  BY FS_Subset, FS_CardinalityType, FS_EmptySet
<1>2. 0 \in Sizes
  <2>1. Small(0) = {{}}
    BY <1>1, FS_EmptySet
  <2>2. [T \in Small(0) |-> base] \in [Small(0) -> V]
    OBVIOUS
  <2>3. \A T \in Small(0) : [U \in Small(0) |-> base][T] = Step([U \in Small(0) |-> base], T)
    BY <2>1
  <2>. QED  BY <2>2, <2>3
<1>3. ASSUME NEW n \in Nat, n \in Sizes  PROVE n + 1 \in Sizes
  <2>1. PICK f \in [Small(n) -> V] : \A T \in Small(n) : f[T] = Step(f, T)
    BY <1>3
  <2>2. \A T \in Small(n + 1) : T # {} =>
          /\ choice[T] \in T /\ choice[T] \in S
          /\ T \ {choice[T]} \in Small(n)
          /\ T \ {choice[T]} \in Small(n + 1)
    <3>. SUFFICES ASSUME NEW T \in Small(n + 1), T # {}
                  PROVE  /\ choice[T] \in T /\ choice[T] \in S
                         /\ T \ {choice[T]} \in SUBSET S
                         /\ Cardinality(T \ {choice[T]}) <= n
      BY <1>1
    <3>1. choice[T] \in T
      OBVIOUS
    <3>2. IsFiniteSet(T) /\ Cardinality(T) \in Nat /\ Cardinality(T) <= n + 1
      BY <1>1
    <3>3. Cardinality(T \ {choice[T]}) = Cardinality(T) - 1
      BY <3>1, <3>2, FS_RemoveElement
    <3>. QED  BY <3>1, <3>2, <3>3
  <2>. DEFINE g == [T \in Small(n + 1) |-> Step(f, T)]
  <2>3. g \in [Small(n + 1) -> V]
    <3>1. \A T \in Small(n + 1) : T # {} =>
            <<choice[T], f[T \ {choice[T]}]>> \in S \X V
      BY <2>2, <2>1
    <3>2. \A T \in Small(n + 1) : Step(f, T) \in V
      BY <3>1
    <3>. QED  BY <3>2
  <2>4. \A T \in Small(n) : T \in Small(n + 1) /\ g[T] = f[T]
    BY <2>1, <1>1
  <2>5. \A T \in Small(n + 1) : g[T] = Step(g, T)
    BY <2>2, <2>4
  <2>6. \E h \in [Small(n + 1) -> V] : \A T \in Small(n + 1) : h[T] = Step(h, T)
    <3>. HIDE DEF g, Small, Step
    <3>. QED  BY <2>3, <2>5
  <2>. HIDE DEF Small, Step
  <2>. QED  BY <2>6
<1>4. Cardinality(S) \in Sizes
  BY <1>1, <1>2, <1>3, NumberInduction
<1>5. Small(Cardinality(S)) = SUBSET S
  BY <1>1
<1>. QED  BY <1>4, <1>5 DEF Recursive

(* What holds of a subset whenever it holds of the same without any one of  *)
(* its elements, holds of every subset of a finite set.                     *)
LEMMA SubsetInduction ==
  ASSUME NEW S, IsFiniteSet(S), NEW J,
         \A T \in SUBSET S : (\A x \in T : T \ {x} \in J) => T \in J
  PROVE  \A T \in SUBSET S : T \in J
<1>. DEFINE Sizes == {n \in Nat : \A T \in SUBSET S : Cardinality(T) = n => T \in J}
<1>1. \A T \in SUBSET S : IsFiniteSet(T) /\ Cardinality(T) \in Nat
  BY FS_Subset, FS_CardinalityType
<1>2. 0 \in Sizes
  BY <1>1, FS_EmptySet
<1>3. ASSUME NEW n \in Nat, n \in Sizes  PROVE n + 1 \in Sizes
  <2>. SUFFICES ASSUME NEW T \in SUBSET S, Cardinality(T) = n + 1, NEW x \in T
                PROVE  T \ {x} \in J
    OBVIOUS
  <2>1. Cardinality(T \ {x}) = Cardinality(T) - 1
    BY <1>1, FS_RemoveElement
  <2>. QED  BY <2>1, <1>3
<1>4. Nat \subseteq Sizes
  BY <1>2, <1>3, NumberInduction
<1>. QED  BY <1>1, <1>4

(* f is base where it stops, and otherwise what H makes of its value at the *)
(* rest.                                                                    *)
Descends(f, D, stop, base, rest, H) ==
  \A x \in D : f[x] = IF x \in stop THEN base[x] ELSE H[<<x, f[rest[x]]>>]

(* The rest of what is not a place to stop is in the domain, and smaller. *)
Shrinks(D, stop, rest, size) ==
  \A x \in D : x \notin stop => rest[x] \in D /\ size[rest[x]] < size[x]

(* A function may be defined by recursion from an argument to a smaller     *)
(* one, whatever the measure is, as long as it is bounded.                  *)
LEMMA MeasuredRecursion ==
  ASSUME NEW D, NEW N \in Nat, NEW size \in [D -> 0..N], NEW stop, NEW V, NEW base \in [D -> V],
         NEW rest, Shrinks(D, stop, rest, size), NEW H \in [D \X V -> V]
  PROVE  \E f \in [D -> V] : Descends(f, D, stop, base, rest, H)
<1>. DEFINE Small(n) == {x \in D : size[x] <= n}
            Step(f, x) == IF x \in stop THEN base[x] ELSE H[<<x, f[rest[x]]>>]
            Sizes == {n \in Nat : \E f \in [Small(n) -> V] : \A x \in Small(n) : f[x] = Step(f, x)}
<1>0. \A x \in D : size[x] \in Nat /\ size[x] <= N
  OBVIOUS
<1>1. 0 \in Sizes
  <2>1. \A x \in Small(0) : x \in D /\ x \in stop
    BY <1>0 DEF Shrinks
  <2>2. [x \in Small(0) |-> base[x]] \in [Small(0) -> V]
    OBVIOUS
  <2>3. \A x \in Small(0) : [y \in Small(0) |-> base[y]][x] = Step([y \in Small(0) |-> base[y]], x)
    BY <2>1
  <2>. QED  BY <2>2, <2>3
<1>2. ASSUME NEW n \in Nat, n \in Sizes  PROVE n + 1 \in Sizes
  <2>1. PICK f \in [Small(n) -> V] : \A x \in Small(n) : f[x] = Step(f, x)
    BY <1>2
  <2>2. \A x \in Small(n + 1) : x \in D /\ (x \notin stop => rest[x] \in Small(n))
    BY <1>0 DEF Shrinks
  <2>. DEFINE g == [x \in Small(n + 1) |-> Step(f, x)]
  <2>3. g \in [Small(n + 1) -> V]
    <3>1. \A x \in Small(n + 1) : x \notin stop => <<x, f[rest[x]]>> \in D \X V
      BY <2>2, <2>1
    <3>2. \A x \in Small(n + 1) : Step(f, x) \in V
      BY <2>2, <3>1
    <3>. QED  BY <3>2
  <2>4. \A x \in Small(n) : x \in Small(n + 1) /\ g[x] = f[x]
    BY <2>1, <1>0
  <2>5. \A x \in Small(n + 1) : g[x] = Step(g, x)
    BY <2>2, <2>4
  <2>6. \E h \in [Small(n + 1) -> V] : \A x \in Small(n + 1) : h[x] = Step(h, x)
    <3>. HIDE DEF g, Small, Step
    <3>. QED  BY <2>3, <2>5
  <2>. HIDE DEF Small, Step
  <2>. QED  BY <2>6
<1>3. N \in Sizes
  BY <1>1, <1>2, NumberInduction
<1>4. Small(N) = D
  BY <1>0
<1>. QED  BY <1>3, <1>4 DEF Descends

(* What holds of a set whenever it holds of all its proper subsets, holds   *)
(* of every subset of a finite set.                                         *)
LEMMA StrongSubsetInduction ==
  ASSUME NEW S, IsFiniteSet(S), NEW J,
         \A T \in SUBSET S : (\A U \in SUBSET T : U # T => U \in J) => T \in J
  PROVE  \A T \in SUBSET S : T \in J
<1>. DEFINE All == {T \in SUBSET S : \A U \in SUBSET T : U \in J}
<1>1. ASSUME NEW T \in SUBSET S, \A x \in T : T \ {x} \in All  PROVE T \in All
  <2>1. ASSUME NEW U \in SUBSET T, U # T  PROVE U \in J
    <3>1. PICK x \in T : x \notin U
      BY <2>1
    <3>. QED  BY <1>1, <3>1
  <2>2. T \in J
    BY <2>1
  <2>. QED  BY <2>1, <2>2
<1>. HIDE DEF All
<1>2. \A T \in SUBSET S : T \in All
  BY <1>1, SubsetInduction
<1>. QED  BY <1>2 DEF All

(* The remainder of a number less than a turn away, without division. *)
LEMMA WrapForm ==
  ASSUME NEW N \in Nat \ {0}, NEW n \in Int, -N <= n, n < 2 * N
  PROVE  n % N = IF n < 0 THEN n + N ELSE IF n < N THEN n ELSE n - N
<1>1. CASE n < 0
  BY <1>1, SMTT(30)
<1>2. CASE n >= 0 /\ n < N
  BY <1>2, SMTT(30)
<1>3. CASE n >= N
  BY <1>3, SMTT(30)
<1>. QED  BY <1>1, <1>2, <1>3

(* A finite set of numbers that is not empty has a greatest element, its    *)
(* bound need not be known.                                                 *)
LEMMA GreatestOfFinite ==
  ASSUME NEW T \in SUBSET Nat, T # {}, IsFiniteSet(T)
  PROVE  \E m \in T : \A n \in T : n <= m
<1>. DEFINE J == {U \in SUBSET T : \E bound \in Nat : \A n \in U : n <= bound}
<1>1. ASSUME NEW U \in SUBSET T, \A x \in U : U \ {x} \in J  PROVE U \in J
  <2>1. CASE U = {}
    BY <2>1
  <2>2. CASE U # {}
    <3>1. PICK x : x \in U
      BY <2>2
    <3>2. PICK bound \in Nat : \A n \in U \ {x} : n <= bound
      BY <1>1, <3>1
    <3>3. bound + x \in Nat /\ \A n \in U : n <= bound + x
      BY <3>1, <3>2
    <3>. QED  BY <3>3
  <2>. QED  BY <2>1, <2>2
<1>2. T \in J
  <2>. HIDE DEF J
  <2>. QED  BY <1>1, SubsetInduction
<1>. QED  BY <1>2, GreatestNumber

(* Of a finite set whose elements differ in a number, there is a part of    *)
(* every size that has the greatest ones.                                   *)
LEMMA Topmost ==
  ASSUME NEW T, IsFiniteSet(T), NEW bound \in Nat, NEW key \in [T -> 0..bound],
         \A s, t \in T : key[s] = key[t] => s = t, NEW size \in 0..Cardinality(T)
  PROVE  \E K \in SUBSET T : /\ Cardinality(K) = size
                             /\ \A s \in K, t \in T \ K : key[t] < key[s]
<1>. DEFINE Tops(K, n) == Cardinality(K) = n /\ \A s \in K, t \in T \ K : key[t] < key[s]
            J == {n \in Nat : n <= Cardinality(T) => \E K \in SUBSET T : Tops(K, n)}
<1>1. 0 \in J
  BY FS_EmptySet
<1>2. ASSUME NEW n \in Nat, n \in J  PROVE n + 1 \in J
  <2>. SUFFICES ASSUME n + 1 <= Cardinality(T)  PROVE \E K \in SUBSET T : Tops(K, n + 1)
    OBVIOUS
  <2>0. Cardinality(T) \in Nat
    BY FS_CardinalityType
  <2>1. PICK K \in SUBSET T : Tops(K, n)
    BY <1>2, <2>0
  <2>. DEFINE left == T \ K
              keys == {key[t] : t \in left}
  <2>2. left # {}
    BY <2>0, <2>1
  <2>3. keys \in SUBSET Nat /\ keys # {} /\ \A k \in keys : k <= bound
    <3>1. \A t \in left : key[t] \in 0..bound
      OBVIOUS
    <3>. QED  BY <2>2, <3>1
  <2>4. \E m \in keys : \A k \in keys : k <= m
    <3>. HIDE DEF keys
    <3>. QED  BY <2>3, GreatestNumber
  <2>5. PICK top1 \in left : \A t \in left : key[t] <= key[top1]
    BY <2>4
  <2>. DEFINE more == K \union {top1}
  <2>6. Cardinality(more) = n + 1
    <3>1. IsFiniteSet(K) /\ top1 \notin K
      BY FS_Subset
    <3>. QED  BY <2>1, <3>1, FS_AddElement
  <2>7. ASSUME NEW s \in more, NEW t \in T \ more  PROVE key[t] < key[s]
    <3>1. t \in left /\ t # top1 /\ t \in T /\ top1 \in T
      OBVIOUS
    <3>2. CASE s \in K
      BY <2>1, <3>1, <3>2
    <3>3. CASE s = top1
      <4>1. key[t] <= key[top1] /\ key[t] # key[top1]
        BY <2>5, <3>1
      <4>2. key[t] \in Int /\ key[top1] \in Int
        BY <3>1
      <4>. QED  BY <3>3, <4>1, <4>2
    <3>. QED  BY <3>2, <3>3
  <2>8. more \in SUBSET T
    OBVIOUS
  <2>. HIDE DEF more
  <2>. QED  BY <2>6, <2>7, <2>8
<1>3. Nat \subseteq J
  <2>. HIDE DEF J
  <2>. QED  BY <1>1, <1>2, NumberInduction
<1>. QED  BY <1>3

---------------------------------------------------------------------------
(* Sums of the values of a function *)

IsSum(g, fun, S) ==
  /\ g \in [SUBSET S -> Nat]
  /\ g[{}] = 0
  /\ \A T \in SUBSET S : T # {} =>
       g[T] = fun[CHOOSE x \in T : TRUE] + g[T \ {CHOOSE x \in T : TRUE}]

(* The sum over a finite set satisfies the equation it is defined by.       *)
LEMMA SumEquation ==
  ASSUME NEW S, IsFiniteSet(S), NEW fun, \A x \in S : fun[x] \in Nat
  PROVE  \E g : IsSum(g, fun, S) /\ SumFunctionOnSet(fun, S) = g[S]
<1>. DEFINE choice == [T \in SUBSET S |-> CHOOSE x \in T : TRUE]
            H == [p \in S \X Nat |-> fun[p[1]] + p[2]]
            Eq(g) == g = [T \in SUBSET S |->
                            IF T = {} THEN 0
                            ELSE fun[CHOOSE x \in T : TRUE] + g[T \ {CHOOSE x \in T : TRUE}]]
<1>1. \A T \in SUBSET S : T # {} => (CHOOSE x \in T : TRUE) \in T
  OBVIOUS
<1>2. H \in [S \X Nat -> Nat]
  OBVIOUS
<1>3. PICK f \in [SUBSET S -> Nat] : Recursive(f, S, 0, choice, H)
  <2>1. \A T \in SUBSET S : T # {} => choice[T] \in T
    BY <1>1
  <2>. HIDE DEF choice, H
  <2>. QED  BY <1>2, <2>1, RecursionOnSubsets
<1>4. ASSUME NEW T \in SUBSET S, T # {}
      PROVE  f[T] = fun[CHOOSE x \in T : TRUE] + f[T \ {CHOOSE x \in T : TRUE}]
  <2>1. <<choice[T], f[T \ {choice[T]}]>> \in S \X Nat /\ choice[T] = CHOOSE x \in T : TRUE
    BY <1>1, <1>4
  <2>. QED  BY <2>1, <1>3, <1>4 DEF Recursive
<1>5. Eq(f)
  BY <1>3, <1>4 DEF Recursive
<1>. DEFINE g == CHOOSE h : Eq(h)
<1>6. Eq(g)
  <2>. HIDE DEF Eq
  <2>. QED  BY <1>5
<1>7. SumFunctionOnSet(fun, S) = g[S]
  BY DEF SumFunctionOnSet, FoldFunctionOnSet, MapThenFoldSet
<1>. HIDE DEF g
<1>8. g[{}] = 0 /\ \A T \in SUBSET S : T # {} =>
       g[T] = fun[CHOOSE x \in T : TRUE] + g[T \ {CHOOSE x \in T : TRUE}]
  BY <1>6
<1>9. \A T \in SUBSET S : g[T] \in Nat
  <2>. DEFINE J == {T \in SUBSET S : g[T] \in Nat}
  <2>1. ASSUME NEW T \in SUBSET S, \A x \in T : T \ {x} \in J  PROVE T \in J
    <3>1. CASE T = {}  BY <3>1, <1>8
    <3>2. CASE T # {}
      <4>. DEFINE c == CHOOSE x \in T : TRUE
      <4>1. c \in T /\ c \in S
        BY <3>2
      <4>2. g[T] = fun[c] + g[T \ {c}]
        BY <3>2, <1>8
      <4>3. g[T \ {c}] \in Nat
        BY <4>1, <2>1
      <4>. HIDE DEF c
      <4>. QED  BY <4>1, <4>2, <4>3
    <3>. QED  BY <3>1, <3>2
  <2>. HIDE DEF J
  <2>2. \A T \in SUBSET S : T \in J
    BY <2>1, SubsetInduction
  <2>. QED  BY <2>2 DEF J
<1>10. g \in [SUBSET S -> Nat]
  BY <1>6, <1>9
<1>. QED  BY <1>7, <1>8, <1>10 DEF IsSum

(* It does not matter which element is taken from the sum.                  *)
LEMMA SumWithout ==
  ASSUME NEW S, IsFiniteSet(S), NEW fun, \A x \in S : fun[x] \in Nat,
         NEW g, IsSum(g, fun, S)
  PROVE  \A T \in SUBSET S : \A x \in T : g[T] = fun[x] + g[T \ {x}]
<1>. DEFINE J == {T \in SUBSET S : \A x \in T : g[T] = fun[x] + g[T \ {x}]}
<1>1. ASSUME NEW T \in SUBSET S, \A x \in T : T \ {x} \in J  PROVE T \in J
  <2>. SUFFICES ASSUME NEW x \in T  PROVE g[T] = fun[x] + g[T \ {x}]
    OBVIOUS
  <2>. DEFINE c == CHOOSE y \in T : TRUE
  <2>1. c \in T /\ g[T] = fun[c] + g[T \ {c}]
    BY DEF IsSum
  <2>. HIDE DEF c
  <2>2. CASE c = x  BY <2>1, <2>2
  <2>3. CASE c # x
    <3>1. g[T \ {c}] = fun[x] + g[(T \ {c}) \ {x}]
      BY <1>1, <2>1, <2>3
    <3>2. g[T \ {x}] = fun[c] + g[(T \ {x}) \ {c}]
      BY <1>1, <2>1, <2>3
    <3>3. (T \ {c}) \ {x} = (T \ {x}) \ {c}
      OBVIOUS
    <3>4. /\ fun[c] \in Nat /\ fun[x] \in Nat /\ g[T \ {c}] \in Nat /\ g[T \ {x}] \in Nat
          /\ g[(T \ {x}) \ {c}] \in Nat
      BY <2>1 DEF IsSum
    <3>. QED  BY <2>1, <3>1, <3>2, <3>3, <3>4
  <2>. QED  BY <2>2, <2>3
<1>. HIDE DEF J
<1>2. \A T \in SUBSET S : T \in J
  BY <1>1, SubsetInduction
<1>. QED  BY <1>2 DEF J

(* Two functions that agree on a finite set have the same sum over it.      *)
LEMMA SumAgrees ==
  ASSUME NEW S, IsFiniteSet(S), NEW fun, \A x \in S : fun[x] \in Nat,
         NEW T \in SUBSET S, NEW fun2, \A x \in T : fun2[x] = fun[x],
         NEW g, IsSum(g, fun, S), NEW h, IsSum(h, fun2, T)
  PROVE  h[T] = g[T]
<1>. DEFINE J == {U \in SUBSET T : h[U] = g[U]}
<1>1. ASSUME NEW U \in SUBSET T, \A x \in U : U \ {x} \in J  PROVE U \in J
  <2>1. CASE U = {}  BY <2>1 DEF IsSum
  <2>2. CASE U # {}
    <3>. DEFINE c == CHOOSE y \in U : TRUE
    <3>1. c \in U /\ g[U] = fun[c] + g[U \ {c}] /\ h[U] = fun2[c] + h[U \ {c}]
      BY <2>2 DEF IsSum
    <3>. HIDE DEF c
    <3>. QED  BY <3>1, <1>1
  <2>. QED  BY <2>1, <2>2
<1>. HIDE DEF J
<1>2. IsFiniteSet(T)
  BY FS_Subset
<1>3. \A U \in SUBSET T : U \in J
  BY <1>1, <1>2, SubsetInduction
<1>. QED  BY <1>3 DEF J

(* What a reader of a sum may use: its type, what one element adds, and     *)
(* that it reads nothing but the values on its set.                         *)
LEMMA SumProperties ==
  ASSUME NEW S, IsFiniteSet(S), NEW fun, \A x \in S : fun[x] \in Nat
  PROVE  /\ SumFunctionOnSet(fun, S) \in Nat
         /\ S = {} => SumFunctionOnSet(fun, S) = 0
         /\ \A x \in S : SumFunctionOnSet(fun, S) = fun[x] + SumFunctionOnSet(fun, S \ {x})
         /\ \A fun2 : (\A x \in S : fun2[x] = fun[x]) =>
              SumFunctionOnSet(fun2, S) = SumFunctionOnSet(fun, S)
<1>1. PICK g : IsSum(g, fun, S) /\ SumFunctionOnSet(fun, S) = g[S]
  BY SumEquation
<1>2. g[S] \in Nat /\ (S = {} => g[S] = 0)
  BY <1>1 DEF IsSum
<1>3. ASSUME NEW T \in SUBSET S, NEW fun2, \A x \in T : fun2[x] = fun[x]
      PROVE  SumFunctionOnSet(fun2, T) = g[T]
  <2>1. IsFiniteSet(T) /\ \A x \in T : fun2[x] \in Nat
    BY <1>3, FS_Subset
  <2>2. PICK h : IsSum(h, fun2, T) /\ SumFunctionOnSet(fun2, T) = h[T]
    BY <2>1, SumEquation
  <2>. QED  BY <1>1, <1>3, <2>1, <2>2, SumAgrees
<1>4. \A x \in S : g[S] = fun[x] + g[S \ {x}]
  BY <1>1, SumWithout
<1>. QED  BY <1>1, <1>2, <1>3, <1>4

---------------------------------------------------------------------------
(* Sequences with one element less or more *)

(* RemoveAt closes the gap it leaves. *)
LEMMA RemoveAtProperties ==
  ASSUME NEW S, NEW s \in Seq(S), NEW i \in 1..Len(s)
  PROVE  /\ RemoveAt(s, i) \in Seq(S)
         /\ Len(RemoveAt(s, i)) = Len(s) - 1
         /\ \A j \in 1..(Len(s) - 1) :
              RemoveAt(s, i)[j] = IF j < i THEN s[j] ELSE s[j + 1]
<1>. DEFINE a == SubSeq(s, 1, i - 1)
<1>. DEFINE b == SubSeq(s, i + 1, Len(s))
<1>1. Len(s) \in Nat /\ i \in Nat
  OBVIOUS
<1>2. a \in Seq(S) /\ Len(a) = i - 1 /\ \A j \in 1..(i - 1) : a[j] = s[j]
  BY <1>1, SubSeqProperties
<1>3. b \in Seq(S) /\ Len(b) = Len(s) - i /\ \A j \in 1..(Len(s) - i) : b[j] = s[i + j]
  BY <1>1, SubSeqProperties
<1>. HIDE DEF a, b
<1>4. /\ a \o b \in Seq(S) /\ Len(a \o b) = Len(a) + Len(b)
      /\ \A j \in 1..(Len(a) + Len(b)) :
           (a \o b)[j] = IF j <= Len(a) THEN a[j] ELSE b[j - Len(a)]
  BY <1>2, <1>3, ConcatProperties
<1>. DEFINE r == a \o b
<1>. HIDE DEF r
<1>5. /\ r \in Seq(S) /\ Len(r) = Len(s) - 1
      /\ \A j \in 1..(Len(s) - 1) :
           r[j] = IF j <= i - 1 THEN a[j] ELSE b[j - (i - 1)]
  BY <1>1, <1>2, <1>3, <1>4 DEF r
<1>6. ASSUME NEW j \in 1..(Len(s) - 1)
      PROVE  r[j] = IF j < i THEN s[j] ELSE s[j + 1]
  <2>1. CASE j < i
    BY <1>1, <1>2, <1>5, <2>1
  <2>2. CASE j >= i
    <3>1. j - (i - 1) \in 1..(Len(s) - i) /\ i + (j - (i - 1)) = j + 1
      BY <1>1, <2>2
    <3>2. r[j] = b[j - (i - 1)]
      BY <1>1, <1>5, <2>2
    <3>3. b[j - (i - 1)] = s[j + 1]
      BY <1>3, <3>1
    <3>. QED  BY <1>1, <2>2, <3>2, <3>3
  <2>. QED  BY <1>1, <2>1, <2>2
<1>7. RemoveAt(s, i) = r
  BY DEF RemoveAt, r, a, b
<1>. QED  BY <1>5, <1>6, <1>7

(* InsertAt moves what is at its place and behind it by one. *)
LEMMA InsertAtProperties ==
  ASSUME NEW S, NEW s \in Seq(S), NEW i \in 1..(Len(s) + 1), NEW e \in S
  PROVE  /\ InsertAt(s, i, e) \in Seq(S)
         /\ Len(InsertAt(s, i, e)) = Len(s) + 1
         /\ \A j \in 1..(Len(s) + 1) :
              InsertAt(s, i, e)[j] = IF j < i THEN s[j] ELSE IF j = i THEN e ELSE s[j - 1]
<1>. DEFINE a == SubSeq(s, 1, i - 1)
            b == SubSeq(s, i, Len(s))
            c == a \o <<e>>
            r == c \o b
<1>1. i \in Nat /\ Len(s) \in Nat /\ 1 <= i /\ i <= Len(s) + 1
  OBVIOUS
<1>2. a \in Seq(S) /\ Len(a) = i - 1 /\ \A j \in 1..(i - 1) : a[j] = s[j]
  <2>1. \A j \in 1..(i - 1) : s[j] \in S
    BY <1>1
  <2>2. \A j \in 1..(i - 1) : 1 + j - 1 = j
    BY <1>1
  <2>. QED  BY <1>1, <2>1, <2>2, SubSeqProperties
<1>3. b \in Seq(S) /\ Len(b) = Len(s) - i + 1 /\ \A j \in 1..(Len(s) - i + 1) : b[j] = s[i + j - 1]
  <2>1. \A j \in i..Len(s) : s[j] \in S
    BY <1>1
  <2>. QED  BY <1>1, <2>1, SubSeqProperties
<1>. HIDE DEF a, b
<1>4. <<e>> \in Seq(S) /\ Len(<<e>>) = 1 /\ <<e>>[1] = e
  OBVIOUS
<1>5. /\ c \in Seq(S) /\ Len(c) = Len(a) + Len(<<e>>)
      /\ \A j \in 1..(Len(a) + Len(<<e>>)) :
           c[j] = IF j <= Len(a) THEN a[j] ELSE <<e>>[j - Len(a)]
  BY <1>2, <1>4, ConcatProperties
<1>. HIDE DEF c
<1>6. c \in Seq(S) /\ Len(c) = i /\ c[i] = e /\ \A j \in 1..(i - 1) : c[j] = s[j]
  <2>1. Len(a) + Len(<<e>>) = i /\ i - Len(a) = 1
    BY <1>1, <1>2, <1>4
  <2>. QED  BY <1>1, <1>2, <1>4, <1>5, <2>1
<1>7. /\ r \in Seq(S) /\ Len(r) = Len(c) + Len(b)
      /\ \A j \in 1..(Len(c) + Len(b)) : r[j] = IF j <= Len(c) THEN c[j] ELSE b[j - Len(c)]
  BY <1>3, <1>6, ConcatProperties
<1>. HIDE DEF r
<1>8. Len(r) = Len(s) + 1 /\ \A j \in 1..(Len(s) + 1) : r[j] = IF j <= i THEN c[j] ELSE b[j - i]
  BY <1>1, <1>3, <1>6, <1>7
<1>9. ASSUME NEW j \in 1..(Len(s) + 1)
      PROVE  r[j] = IF j < i THEN s[j] ELSE IF j = i THEN e ELSE s[j - 1]
  <2>1. CASE j < i
    BY <1>1, <1>6, <1>8, <2>1
  <2>2. CASE j = i
    BY <1>1, <1>6, <1>8, <2>2
  <2>3. CASE j > i
    <3>1. j - i \in 1..(Len(s) - i + 1) /\ i + (j - i) - 1 = j - 1
      BY <1>1, <2>3
    <3>2. r[j] = b[j - i]
      BY <1>1, <1>8, <2>3
    <3>3. b[j - i] = s[j - 1]
      BY <1>3, <3>1
    <3>. QED  BY <1>1, <2>3, <3>2, <3>3
  <2>. QED  BY <1>1, <2>1, <2>2, <2>3
<1>10. InsertAt(s, i, e) = r
  BY DEF InsertAt, a, b, c, r
<1>. QED  BY <1>7, <1>8, <1>9, <1>10
==============================================================================
