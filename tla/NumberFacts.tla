---------------------------- MODULE NumberFacts ----------------------------
(***************************************************************************)
(* What the proofs need to know of sets of numbers: a least element, a     *)
(* greatest one where there is a bound, and a bound where the set is       *)
(* finite; and of the sums the community modules fold over a finite set:   *)
(* of one element more, two sets, an image, the parts; and of what stands  *)
(* at some places of a sequence.                                           *)
(* Max is the community modules' CHOOSE.                                   *)
(***************************************************************************)
EXTENDS Integers, FiniteSets, FiniteSetsExt, Functions, Places, FiniteSetTheorems,
        SequenceTheorems, WellFoundedInduction, NaturalsInduction, TLAPS

\* The numbers are well-founded by the order.
LEMMA NatWellFounded == IsWellFoundedOn({ss \in Nat \X Nat : ss[1] < ss[2]}, Nat)
  BY ONLY NatLessThanWellFounded DEF OpToRel

\* The least number principle, which stands in for induction.
LEMMA LeastNat ==
    ASSUME NEW T \in SUBSET Nat, T # {}
    PROVE  \E x \in T : \A y \in T : x <= y
  <1> DEFINE R == {ss \in Nat \X Nat : ss[1] < ss[2]}
  <1>1. PICK x \in T : \A y \in T : ~(<<y, x>> \in R)
    BY NatWellFounded, WFMin
  <1>2. ASSUME NEW y \in T PROVE x <= y
    <2>1. <<y, x>> \in Nat \X Nat
      OBVIOUS
    <2>2. ~(y < x)
      BY <1>1, <2>1
    <2> QED BY <2>2
  <1> QED BY <1>2

\* The maximum of a set of numbers under a bound is its greatest element.
LEMMA MaxOfBounded ==
    ASSUME NEW S \in SUBSET Nat, S # {}, NEW b \in Nat, \A x \in S : x <= b
    PROVE  Max(S) \in S /\ \A x \in S : x <= Max(S)
  <1> DEFINE U == {n \in Nat : \A x \in S : x <= n}
  <1>1. PICK m \in U : \A y \in U : m <= y
    <2>1. U # {} /\ U \in SUBSET Nat
      OBVIOUS
    <2> HIDE DEF U
    <2> QED BY <2>1, LeastNat
  <1>2. m \in S
    <2>1. SUFFICES ASSUME m \notin S PROVE FALSE
      OBVIOUS
    <2>2. \A x \in S : x < m
      BY <2>1
    <2>3. m - 1 \in Nat
      <3>1. PICK x \in S : x < m
        BY <2>2
      <3>2. x \in Nat /\ m \in Nat
        OBVIOUS
      <3> QED BY ONLY <3>1, <3>2
    <2>4. \A x \in S : x <= m - 1
      BY <2>2
    <2>5. m - 1 \in U
      BY <2>3, <2>4
    <2> QED BY <1>1, <2>3, <2>5
  <1>3. \E x \in S : \A y \in S : x >= y
    BY <1>1, <1>2
  <1> QED BY <1>3 DEF Max

\* A finite set of numbers has a bound: of the sets without, take a smallest, and one number
\* out of it.
LEMMA FiniteIsBounded ==
    ASSUME NEW S \in SUBSET Nat, IsFiniteSet(S)
    PROVE  \E b \in Nat : \A x \in S : x <= b
  <1> DEFINE Free(T) == ~\E b \in Nat : \A x \in T : x <= b
             Sizes == {n \in Nat : \E T \in SUBSET S : Free(T) /\ n = Cardinality(T)}
  <1>1. SUFFICES ASSUME Free(S) PROVE FALSE
    OBVIOUS
  <1>2. Cardinality(S) \in Sizes
    BY <1>1, FS_CardinalityType
  <1>3. PICK n \in Sizes : \A k \in Sizes : n <= k
    <2>1. Sizes \in SUBSET Nat /\ Sizes # {}
      BY <1>2
    <2> HIDE DEF Sizes
    <2> QED BY <2>1, LeastNat
  <1>4. PICK T \in SUBSET S : Free(T) /\ n = Cardinality(T)
    BY <1>3
  <1>5. IsFiniteSet(T)
    BY FS_Subset
  <1>6. PICK x \in T : TRUE
    BY <1>4
  <1>7. /\ Cardinality(T \ {x}) = n - 1 /\ n - 1 < n
        /\ Cardinality(T \ {x}) \in Nat
    BY <1>4, <1>5, <1>6, FS_RemoveElement, FS_CardinalityType
  <1>8. n - 1 \notin Sizes
    BY <1>3, <1>7
  <1>9. ~Free(T \ {x})
    BY <1>7, <1>8
  <1>10. PICK b \in Nat : \A y \in T \ {x} : y <= b
    BY <1>9
  <1>11. PICK c \in Nat : b <= c /\ x <= c
    BY <1>6
  <1>12. \A y \in T : y <= c
    BY <1>6, <1>10, <1>11
  <1> QED BY <1>4, <1>12

\* Sets that are counted on the fingers.
LEMMA AtMostOne ==
    ASSUME NEW k, NEW T \in SUBSET {k}
    PROVE  IsFiniteSet(T) /\ Cardinality(T) <= 1
  <1>1. IsFiniteSet({k}) /\ Cardinality({k}) = 1
    BY FS_Singleton
  <1> QED BY <1>1, FS_Subset

\* A part of two is finite and has two elements at most.
LEMMA AtMostTwo ==
    ASSUME NEW j, NEW k, NEW T \in SUBSET {j, k}
    PROVE  IsFiniteSet(T) /\ Cardinality(T) <= 2
  <1>1. IsFiniteSet({j}) /\ Cardinality({j}) = 1
    BY FS_Singleton
  <1>2. {j, k} = {j} \cup {k}
    OBVIOUS
  <1>3. IsFiniteSet({j, k}) /\ Cardinality({j, k}) <= 2
    BY <1>1, <1>2, FS_AddElement
  <1> QED BY <1>3, FS_Subset, FS_CardinalityType

\* What has an element has one at least.
LEMMA AtLeastOne ==
    ASSUME NEW T, IsFiniteSet(T), NEW k \in T
    PROVE  Cardinality(T) >= 1
  BY FS_CardinalityType, FS_EmptySet

-----------------------------------------------------------------------------
(* Sums over finite sets *)

\* The sum the community modules fold over a set, and what a fold is: a function of every subset
\* that takes one element off after the other.
Total(f, S) == SumFunctionOnSet(f, S)
Pick1(s) == CHOOSE x \in s : TRUE
Alike(f, e, S) == \A x \in S : f[x] = e[x]
Adds(g, f, D) == g = [s \in D |-> IF s = {} THEN 0 ELSE f[Pick1(s)] + g[s \ {Pick1(s)}]]
IsFold(g, f, S) == Adds(g, f, SUBSET S)

\* The sum is the value of such a function.
LEMMA TotalIsFold ==
    ASSUME NEW f, NEW S
    PROVE  Total(f, S) = (CHOOSE g : IsFold(g, f, S))[S]
  BY DEF Total, SumFunctionOnSet, FoldFunctionOnSet, MapThenFoldSet, IsFold, Adds, Pick1

\* One element less.
LEMMA PickOff ==
    ASSUME NEW s, IsFiniteSet(s), s # {}
    PROVE  /\ Pick1(s) \in s /\ IsFiniteSet(s \ {Pick1(s)})
           /\ Cardinality(s) \in Nat /\ Cardinality(s \ {Pick1(s)}) \in Nat
           /\ Cardinality(s \ {Pick1(s)}) = Cardinality(s) - 1
  <1>1. Pick1(s) \in s
    BY DEF Pick1
  <1> QED BY <1>1, FS_RemoveElement, FS_CardinalityType

\* The fold of a finite set is defined: on the sets of up to n elements for every n.
LEMMA FoldExists ==
    ASSUME NEW f, NEW S, IsFiniteSet(S)
    PROVE  \E g : IsFold(g, f, S)
  <1> DEFINE D(n) == {s \in SUBSET S : Cardinality(s) <= n}
             Bad == {n \in Nat : ~\E g : Adds(g, f, D(n))}
  <1>1. \A s \in SUBSET S : IsFiniteSet(s) /\ Cardinality(s) \in Nat /\ Cardinality(s) <= Cardinality(S)
    BY FS_Subset, FS_CardinalityType
  <1>2. Bad = {}
    <2>1. SUFFICES ASSUME Bad # {} PROVE FALSE
      OBVIOUS
    <2>2. PICK n \in Bad : \A k \in Bad : n <= k
      <3>1. Bad \in SUBSET Nat
        OBVIOUS
      <3> HIDE DEF Bad
      <3> QED BY <2>1, <3>1, LeastNat
    <2>3. n \in Nat /\ ~\E g : Adds(g, f, D(n))
      OBVIOUS
    <2>4. CASE n = 0
      <3>1. \A s \in D(0) : s = {}
        BY <1>1, FS_EmptySet
      <3>2. Adds([s \in D(0) |-> 0], f, D(0))
        BY <3>1 DEF Adds
      <3> QED BY <2>3, <2>4, <3>2
    <2>5. CASE n # 0
      <3>1. n - 1 \in Nat /\ n - 1 \notin Bad
        <4>1. n - 1 \in Nat /\ ~(n <= n - 1)
          BY <2>3, <2>5
        <4> HIDE DEF Bad
        <4> QED BY <2>2, <4>1
      <3>2. PICK h : Adds(h, f, D(n - 1))
        BY <3>1
      <3> DEFINE g == [s \in D(n) |-> IF s = {} THEN 0 ELSE f[Pick1(s)] + h[s \ {Pick1(s)}]]
      <3>3. \A t \in D(n - 1) : h[t] = IF t = {} THEN 0 ELSE f[Pick1(t)] + h[t \ {Pick1(t)}]
        BY <3>2 DEF Adds
      <3>4. \A t \in D(n - 1) : t \in D(n)
        BY <1>1, <2>3
      <3>5. \A t \in D(n - 1) : g[t] = h[t]
        BY <3>3, <3>4
      <3>6. ASSUME NEW s \in D(n), s # {} PROVE s \ {Pick1(s)} \in D(n - 1)
        BY <1>1, <2>3, <3>6, PickOff
      <3>7. \A s \in D(n) : g[s] = IF s = {} THEN 0 ELSE f[Pick1(s)] + g[s \ {Pick1(s)}]
        BY <3>5, <3>6
      <3>8. Adds(g, f, D(n))
        <4>1. \A s \in D(n) : (IF s = {} THEN 0 ELSE f[Pick1(s)] + h[s \ {Pick1(s)}])
                                 = (IF s = {} THEN 0 ELSE f[Pick1(s)] + g[s \ {Pick1(s)}])
          BY <3>5, <3>6
        <4>2. g = [s \in D(n) |-> IF s = {} THEN 0 ELSE f[Pick1(s)] + g[s \ {Pick1(s)}]]
          BY <4>1
        <4> QED BY <4>2 DEF Adds
      <3> QED BY <2>3, <3>8
    <2> QED BY <2>4, <2>5
  <1>3. D(Cardinality(S)) = SUBSET S
    BY <1>1
  <1>4. Cardinality(S) \in Nat
    BY FS_CardinalityType
  <1>5. \E g : Adds(g, f, D(Cardinality(S)))
    BY <1>2, <1>4
  <1> QED BY <1>3, <1>5 DEF IsFold

\* Two folds agree where both are defined, if they add the same.
LEMMA FoldsAgree ==
    ASSUME NEW f, NEW e, NEW S, NEW s, NEW g, NEW h, IsFold(g, f, S), IsFold(h, e, s),
           s \in SUBSET S, IsFiniteSet(s), Alike(f, e, s)
    PROVE  g[s] = h[s]
  <1> DEFINE Bad == {n \in Nat : \E t \in SUBSET s : n = Cardinality(t) /\ g[t] # h[t]}
  <1>1. SUFFICES ASSUME g[s] # h[s] PROVE FALSE
    OBVIOUS
  <1>2. Cardinality(s) \in Bad
    BY <1>1, FS_CardinalityType
  <1>3. PICK n \in Bad : \A k \in Bad : n <= k
    <2>1. Bad \in SUBSET Nat /\ Bad # {}
      BY <1>2
    <2> HIDE DEF Bad
    <2> QED BY <2>1, LeastNat
  <1>4. PICK t \in SUBSET s : n = Cardinality(t) /\ g[t] # h[t]
    OBVIOUS
  <1>5. /\ t \in SUBSET S /\ t \in SUBSET s /\ IsFiniteSet(t)
    BY <1>4, FS_Subset
  <1>6. /\ g[t] = IF t = {} THEN 0 ELSE f[Pick1(t)] + g[t \ {Pick1(t)}]
        /\ h[t] = IF t = {} THEN 0 ELSE e[Pick1(t)] + h[t \ {Pick1(t)}]
    BY <1>5 DEF IsFold, Adds
  <1>7. t # {}
    BY <1>4, <1>6
  <1> DEFINE u == t \ {Pick1(t)}
  <1>8. Pick1(t) \in t /\ Cardinality(u) \in Nat /\ Cardinality(u) = n - 1 /\ n \in Nat
    BY <1>4, <1>5, <1>7, PickOff
  <1>9. u \in SUBSET s
    BY <1>4
  <1>10. Cardinality(u) \notin Bad
    <2>1. ~(n <= Cardinality(u))
      BY <1>8
    <2> HIDE DEF Bad, u
    <2> QED BY <1>3, <2>1
  <1>11. g[u] = h[u]
    BY <1>8, <1>9, <1>10
  <1>12. f[Pick1(t)] = e[Pick1(t)]
    BY <1>4, <1>8 DEF Alike
  <1> QED BY <1>4, <1>6, <1>7, <1>11, <1>12

\* What holds of the empty set, and of a set when it holds without one of its elements, holds of
\* every subset: induction over finite sets, on the set of the good ones.
LEMMA SubsetsAreGood ==
    ASSUME NEW S, IsFiniteSet(S), NEW G, {} \in G,
           \A T \in SUBSET S : \A x \in T : T \ {x} \in G => T \in G
    PROVE  SUBSET S \subseteq G
  <1> DEFINE Bad == {n \in Nat : \E T \in SUBSET S : n = Cardinality(T) /\ T \notin G}
  <1>1. ASSUME NEW T \in SUBSET S PROVE IsFiniteSet(T) /\ Cardinality(T) \in Nat
    BY FS_Subset, FS_CardinalityType
  <1>2. SUFFICES ASSUME NEW R \in SUBSET S, R \notin G PROVE FALSE
    OBVIOUS
  <1>3. Cardinality(R) \in Bad
    BY <1>1, <1>2
  <1>4. PICK n \in Bad : \A k \in Bad : n <= k
    <2>1. Bad \in SUBSET Nat /\ Bad # {}
      BY <1>3
    <2> HIDE DEF Bad
    <2> QED BY <2>1, LeastNat
  <1>5. PICK T \in SUBSET S : n = Cardinality(T) /\ T \notin G
    OBVIOUS
  <1>6. PICK x \in T : TRUE
    BY <1>5
  <1>7. n \in Nat /\ T \ {x} \in SUBSET S /\ Cardinality(T \ {x}) = n - 1
    BY <1>1, <1>5, <1>6, FS_RemoveElement
  <1>8. T \ {x} \in G
    <2>1. ~(n <= Cardinality(T \ {x})) /\ Cardinality(T \ {x}) \in Nat
      BY <1>1, <1>7
    <2>2. Cardinality(T \ {x}) \notin Bad
      <3> HIDE DEF Bad
      <3> QED BY <1>4, <2>1
    <2> QED BY <1>7, <2>1, <2>2
  <1> QED BY <1>5, <1>6, <1>8

\* The sum of nothing, and of one element more.
LEMMA TotalOfPick ==
    ASSUME NEW f, NEW S, IsFiniteSet(S)
    PROVE  /\ Total(f, {}) = 0
           /\ S # {} => Total(f, S) = f[Pick1(S)] + Total(f, S \ {Pick1(S)})
  <1> DEFINE fold(T) == CHOOSE g : IsFold(g, f, T)
  <1>1. ASSUME NEW T, IsFiniteSet(T) PROVE IsFold(fold(T), f, T) /\ Total(f, T) = fold(T)[T]
    BY <1>1, FoldExists, TotalIsFold
  <1>2. Total(f, {}) = 0
    <2>1. IsFold(fold({}), f, {}) /\ Total(f, {}) = fold({})[{}]
      BY <1>1, FS_EmptySet
    <2> HIDE DEF fold
    <2> QED BY <2>1 DEF IsFold, Adds
  <1>3. ASSUME S # {} PROVE Total(f, S) = f[Pick1(S)] + Total(f, S \ {Pick1(S)})
    <2> DEFINE T == S \ {Pick1(S)}
    <2>1. IsFiniteSet(T) /\ T \in SUBSET S
      BY <1>3, PickOff
    <2>2. PICK g, h : /\ g = fold(S) /\ h = fold(T)
                      /\ IsFold(g, f, S) /\ IsFold(h, f, T)
                      /\ Total(f, S) = g[S] /\ Total(f, T) = h[T]
      BY <1>1, <2>1
    <2> HIDE DEF fold
    <2>3. g[T] = h[T]
      <3>1. IsFold(g, f, S) /\ IsFold(h, f, T) /\ T \in SUBSET S /\ IsFiniteSet(T) /\ Alike(f, f, T)
        BY <2>1, <2>2 DEF Alike
      <3> HIDE DEF T
      <3> QED BY <3>1, FoldsAgree
    <2>4. g[S] = f[Pick1(S)] + g[T]
      BY <1>3, <2>2 DEF IsFold, Adds
    <2> QED BY <2>2, <2>3, <2>4
  <1> QED BY <1>2, <1>3

\* What is added is all that counts.
LEMMA TotalOfSame ==
    ASSUME NEW f, NEW e, NEW S, IsFiniteSet(S), \A x \in S : f[x] = e[x]
    PROVE  Total(f, S) = Total(e, S)
  <1>1. PICK g, h : /\ IsFold(g, f, S) /\ IsFold(h, e, S)
                    /\ Total(f, S) = g[S] /\ Total(e, S) = h[S]
    BY FoldExists, TotalIsFold
  <1>2. S \in SUBSET S /\ Alike(f, e, S)
    BY DEF Alike
  <1> QED BY <1>1, <1>2, FoldsAgree

\* Sums of numbers are numbers, and any element may be taken off first.
LEMMA TotalOfOneMore ==
    ASSUME NEW f, NEW S, IsFiniteSet(S), \A x \in S : f[x] \in Int
    PROVE  /\ Total(f, S) \in Int
           /\ \A x \in S : Total(f, S) = f[x] + Total(f, S \ {x})
  <1> DEFINE Good(T) == /\ Total(f, T) \in Int
                        /\ \A x \in T : Total(f, T) = f[x] + Total(f, T \ {x})
             Bad == {n \in Nat : \E T \in SUBSET S : n = Cardinality(T) /\ ~Good(T)}
  <1>1. SUFFICES ASSUME ~Good(S) PROVE FALSE
    OBVIOUS
  <1>2. Cardinality(S) \in Bad
    BY <1>1, FS_CardinalityType
  <1>3. PICK n \in Bad : \A k \in Bad : n <= k
    <2>1. Bad \in SUBSET Nat /\ Bad # {}
      BY <1>2
    <2> HIDE DEF Bad
    <2> QED BY <2>1, LeastNat
  <1>4. PICK T \in SUBSET S : n = Cardinality(T) /\ ~Good(T)
    OBVIOUS
  <1>5. IsFiniteSet(T) /\ n \in Nat /\ \A x \in T : f[x] \in Int
    BY <1>4, FS_Subset
  <1>6. ASSUME NEW x \in T
        PROVE  IsFiniteSet(T \ {x}) /\ Cardinality(T \ {x}) = n - 1 /\ Good(T \ {x})
    <2>1. IsFiniteSet(T \ {x}) /\ Cardinality(T \ {x}) = n - 1
      BY <1>4, <1>5, <1>6, FS_RemoveElement
    <2>2. Cardinality(T \ {x}) \in Nat /\ T \ {x} \in SUBSET S
      BY <1>4, <2>1, FS_CardinalityType
    <2>3. Cardinality(T \ {x}) \notin Bad
      <3>1. ~(n <= Cardinality(T \ {x}))
        BY <1>5, <2>1
      <3> HIDE DEF Bad
      <3> QED BY <1>3, <3>1
    <2> HIDE DEF Good
    <2> QED BY <2>1, <2>2, <2>3
  <1>7. CASE T = {}
    <2>1. Total(f, T) = 0
      BY <1>5, <1>7, TotalOfPick
    <2> QED BY <1>4, <1>7, <2>1
  <1>8. CASE T # {}
    <2> DEFINE p == Pick1(T)
    <2>1. p \in T /\ Total(f, T) = f[p] + Total(f, T \ {p})
      BY <1>5, <1>8, PickOff, TotalOfPick
    <2> HIDE DEF p
    <2>2. Total(f, T) \in Int
      <3>1. Total(f, T \ {p}) \in Int
        BY <1>6, <2>1
      <3> QED BY <1>5, <2>1, <3>1
    <2>3. ASSUME NEW x \in T PROVE Total(f, T) = f[x] + Total(f, T \ {x})
      <3>1. CASE x = p
        BY <2>1, <3>1
      <3>2. CASE x # p
        <4>1. x \in T \ {p} /\ p \in T \ {x} /\ (T \ {p}) \ {x} = (T \ {x}) \ {p}
          BY <2>1, <2>3, <3>2
        <4>2. Total(f, T \ {p}) = f[x] + Total(f, (T \ {p}) \ {x})
          BY <1>6, <2>1, <4>1
        <4>3. Total(f, T \ {x}) = f[p] + Total(f, (T \ {x}) \ {p})
          BY <1>6, <2>3, <4>1
        <4>4. PICK rest : rest = Total(f, (T \ {p}) \ {x}) /\ rest = Total(f, (T \ {x}) \ {p})
          BY <4>1
        <4>5. rest \in Int
          <5>1. IsFiniteSet(T \ {p}) /\ Cardinality(T \ {p}) = n - 1 /\ (T \ {p}) \ {x} \in SUBSET S
            BY <1>4, <1>6, <2>1
          <5>2. IsFiniteSet((T \ {p}) \ {x}) /\ Cardinality((T \ {p}) \ {x}) = n - 2
            <6>1. PICK U : U = T \ {p}
              OBVIOUS
            <6>2. x \in U /\ IsFiniteSet(U) /\ Cardinality(U) = n - 1
              BY <4>1, <5>1, <6>1
            <6>3. IsFiniteSet(U \ {x}) /\ Cardinality(U \ {x}) = Cardinality(U) - 1
              BY <6>2, FS_RemoveElement
            <6> QED BY <1>5, <6>1, <6>2, <6>3
          <5>3. Cardinality((T \ {p}) \ {x}) \in Nat
            BY <5>2, FS_CardinalityType
          <5>4. Cardinality((T \ {p}) \ {x}) \notin Bad
            <6>1. ~(n <= Cardinality((T \ {p}) \ {x}))
              BY <1>5, <5>2
            <6> HIDE DEF Bad
            <6> QED BY <1>3, <6>1
          <5>5. Good((T \ {p}) \ {x})
            <6> HIDE DEF Good
            <6> QED BY <5>1, <5>3, <5>4
          <5> QED BY <4>4, <5>5
        <4>6. f[x] \in Int /\ f[p] \in Int
          BY <1>5, <2>1
        <4> QED BY <2>1, <4>2, <4>3, <4>4, <4>5, <4>6
      <3> QED BY <3>1, <3>2
    <2> QED BY <1>4, <2>2, <2>3
  <1> QED BY <1>7, <1>8

\* The sum of two sets that have nothing in common.
LEMMA TotalOfUnion ==
    ASSUME NEW f, NEW S, NEW R, IsFiniteSet(S), IsFiniteSet(R), S \cap R = {},
           \A x \in S \cup R : f[x] \in Int
    PROVE  Total(f, S \cup R) = Total(f, S) + Total(f, R)
  <1> DEFINE G == {T \in SUBSET R : Total(f, S \cup T) = Total(f, S) + Total(f, T)}
  <1>1. {} \in G
    <2>1. S \cup {} = S
      OBVIOUS
    <2>2. Total(f, {}) = 0 /\ Total(f, S) \in Int
      BY TotalOfPick, TotalOfOneMore
    <2> QED BY <2>1, <2>2
  <1>2. ASSUME NEW T \in SUBSET R, NEW x \in T, T \ {x} \in G PROVE T \in G
    <2>1. PICK U, V : U = S \cup T /\ V = S \cup (T \ {x})
      OBVIOUS
    <2>2. /\ IsFiniteSet(T) /\ IsFiniteSet(U) /\ x \in U /\ U \ {x} = V
          /\ (\A y \in U : f[y] \in Int) /\ \A y \in T : f[y] \in Int
      BY <2>1, FS_Subset, FS_Union, ZenonT(60)
    <2>3. Total(f, U) = f[x] + Total(f, V)
      BY <2>2, TotalOfOneMore
    <2>4. Total(f, T) = f[x] + Total(f, T \ {x})
      BY <2>2, TotalOfOneMore
    <2>5. Total(f, V) = Total(f, S) + Total(f, T \ {x})
      BY <1>2, <2>1
    <2>6. Total(f, T \ {x}) \in Int
      <3>1. IsFiniteSet(T \ {x}) /\ \A y \in T \ {x} : f[y] \in Int
        BY <2>2, FS_Subset
      <3> QED BY <3>1, TotalOfOneMore
    <2>7. PICK a \in Int, b \in Int, c \in Int : a = f[x] /\ b = Total(f, S) /\ c = Total(f, T \ {x})
      BY <2>2, <2>6, TotalOfOneMore
    <2>8. Total(f, U) = a + (b + c) /\ Total(f, T) = a + c
      BY <2>3, <2>4, <2>5, <2>7
    <2>9. Total(f, U) = b + (a + c)
      BY <2>8
    <2> QED BY <2>1, <2>7, <2>8, <2>9
  <1>3. SUBSET R \subseteq G
    <2> HIDE DEF G
    <2> QED BY <1>1, <1>2, SubsetsAreGood
  <1>4. R \in G
    BY <1>3
  <1> QED BY <1>4

\* The sum of numbers that are not below zero is none, and a part of them adds up to no more.
LEMMA TotalOfNats ==
    ASSUME NEW f, NEW S, IsFiniteSet(S), \A x \in S : f[x] \in Nat
    PROVE  /\ Total(f, S) \in Nat
           /\ \A T \in SUBSET S : Total(f, T) \in Nat /\ Total(f, T) <= Total(f, S)
  <1> DEFINE G == {T \in SUBSET S : Total(f, T) \in Nat}
  <1>0. \A T \in SUBSET S : IsFiniteSet(T)
    BY FS_Subset
  <1>1. {} \in G
    <2>1. Total(f, {}) = 0
      BY TotalOfPick, FS_EmptySet
    <2> QED BY <2>1
  <1>2. \A T \in SUBSET S : Total(f, T) \in Nat
    <2>1. ASSUME NEW T \in SUBSET S, NEW x \in T, T \ {x} \in G PROVE T \in G
      <3>1. IsFiniteSet(T) /\ \A y \in T : f[y] \in Int
        BY <1>0
      <3>2. Total(f, T) = f[x] + Total(f, T \ {x})
        BY <3>1, TotalOfOneMore
      <3> QED BY <2>1, <3>2
    <2>2. SUBSET S \subseteq G
      <3> HIDE DEF G
      <3> QED BY <1>1, <2>1, SubsetsAreGood
    <2> QED BY <2>2
  <1>3. ASSUME NEW T \in SUBSET S PROVE Total(f, T) <= Total(f, S)
    <2>1. IsFiniteSet(T) /\ IsFiniteSet(S \ T) /\ T \cap (S \ T) = {} /\ T \cup (S \ T) = S
      BY <1>0
    <2>2. Total(f, T \cup (S \ T)) = Total(f, T) + Total(f, S \ T)
      <3>1. \A x \in T \cup (S \ T) : f[x] \in Int
        OBVIOUS
      <3>2. PICK R : R = S \ T
        OBVIOUS
      <3> QED BY <2>1, <3>1, <3>2, TotalOfUnion
    <2>3. Total(f, T) \in Nat /\ Total(f, S \ T) \in Nat
      BY <1>2
    <2>4. PICK a \in Nat, b \in Nat : a = Total(f, T) /\ b = Total(f, S \ T)
      BY <2>3
    <2>5. Total(f, S) = a + b
      BY <2>1, <2>2, <2>4
    <2> QED BY <2>4, <2>5
  <1> QED BY <1>2, <1>3

\* As many times the same.
LEMMA TotalOfConstant ==
    ASSUME NEW f, NEW S, IsFiniteSet(S), NEW a \in Int, \A x \in S : f[x] = a
    PROVE  Total(f, S) = a * Cardinality(S)
  <1> DEFINE G == {T \in SUBSET S : Total(f, T) = a * Cardinality(T)}
  <1>1. {} \in G
    BY TotalOfPick, FS_EmptySet
  <1>2. ASSUME NEW T \in SUBSET S, NEW x \in T, T \ {x} \in G PROVE T \in G
    <2>1. IsFiniteSet(T) /\ \A y \in T : f[y] \in Int
      BY FS_Subset
    <2>2. Total(f, T) = f[x] + Total(f, T \ {x})
      BY <2>1, TotalOfOneMore
    <2>3. PICK n \in Nat : n = Cardinality(T) /\ Cardinality(T \ {x}) = n - 1
      BY <2>1, FS_RemoveElement, FS_CardinalityType
    <2>4. Total(f, T \ {x}) = a * (n - 1) /\ f[x] = a
      BY <1>2, <2>3
    <2>5. a + a * (n - 1) = a * n
      OBVIOUS
    <2> QED BY <2>2, <2>3, <2>4, <2>5
  <1>3. SUBSET S \subseteq G
    <2> HIDE DEF G
    <2> QED BY <1>1, <1>2, SubsetsAreGood
  <1> QED BY <1>3

\* What is zero may be left out.
LEMMA TotalOfRest ==
    ASSUME NEW f, NEW S, IsFiniteSet(S), \A x \in S : f[x] \in Int,
           NEW T \in SUBSET S, \A x \in S \ T : f[x] = 0
    PROVE  Total(f, S) = Total(f, T)
  <1>1. PICK R : R = S \ T
    OBVIOUS
  <1>2. IsFiniteSet(T) /\ IsFiniteSet(R) /\ T \cap R = {} /\ T \cup R = S
    BY <1>1, FS_Subset
  <1>3. \A x \in T \cup R : f[x] \in Int
    BY <1>2
  <1>4. Total(f, T \cup R) = Total(f, T) + Total(f, R)
    BY <1>2, <1>3, TotalOfUnion
  <1>5. Total(f, R) = 0
    <2>1. 0 \in Int /\ \A x \in R : f[x] = 0
      BY <1>1
    <2>2. Total(f, R) = 0 * Cardinality(R)
      BY <1>2, <2>1, TotalOfConstant
    <2> QED BY <1>2, <2>2, FS_CardinalityType
  <1>6. Total(f, T) \in Int
    BY <1>2, <1>3, TotalOfOneMore
  <1>7. Total(f, S) = Total(f, T) + 0
    BY <1>2, <1>4, <1>5
  <1> QED BY <1>6, <1>7

Image(h, S) == {h[x] : x \in S}
OneToOne(h, S) == \A x \in S, y \in S : h[x] = h[y] => x = y

\* The sum over an image is the sum over what it is the image of.
LEMMA TotalOfImage ==
    ASSUME NEW f, NEW S, IsFiniteSet(S), NEW h, NEW g, OneToOne(h, S),
           \A x \in S : g[x] = f[h[x]] /\ g[x] \in Int
    PROVE  IsFiniteSet(Image(h, S)) /\ Total(f, Image(h, S)) = Total(g, S)
  <1> DEFINE Im(T) == {h[x] : x \in T}
             G == {T \in SUBSET S : IsFiniteSet(Im(T)) /\ Total(f, Im(T)) = Total(g, T)}
  <1> USE DEF OneToOne
  <1>1. {} \in G
    <2>1. Im({}) = {}
      OBVIOUS
    <2>2. Total(f, {}) = 0 /\ Total(g, {}) = 0
      BY TotalOfPick, FS_EmptySet
    <2> QED BY <2>1, <2>2, FS_EmptySet
  <1>2. ASSUME NEW T \in SUBSET S, NEW x \in T, T \ {x} \in G PROVE T \in G
    <2>1. IsFiniteSet(T) /\ \A y \in T : g[y] \in Int
      BY FS_Subset
    <2>2. Total(g, T) = g[x] + Total(g, T \ {x})
      BY <2>1, TotalOfOneMore
    <2>3. PICK I, J, v : I = Im(T) /\ J = Im(T \ {x}) /\ v = h[x]
      OBVIOUS
    <2>4. I = J \cup {v} /\ I \ {v} = J /\ v \in I
      BY <2>3
    <2>5. IsFiniteSet(J) /\ Total(f, J) = Total(g, T \ {x})
      BY <1>2, <2>3
    <2>6. IsFiniteSet(I)
      BY <2>4, <2>5, FS_AddElement
    <2>7. \A w \in I : f[w] \in Int
      BY <2>3
    <2>8. Total(f, I) = f[v] + Total(f, J)
      BY <2>4, <2>6, <2>7, TotalOfOneMore
    <2>9. f[v] = g[x]
      BY <2>3
    <2> QED BY <2>2, <2>3, <2>5, <2>6, <2>8, <2>9
  <1>3. SUBSET S \subseteq G
    <2> HIDE DEF G
    <2> QED BY <1>1, <1>2, SubsetsAreGood
  <1>4. S \in G
    BY <1>3
  <1> QED BY <1>4 DEF Image

PartSums(g, f, key, E, K) == \A k \in K : g[k] = Total(f, {x \in E : key[x] = k})
PartsOf(key, E, K) == {x \in E : key[x] \in K}

\* The sum of the sums of the parts.
LEMMA TotalOfParts ==
    ASSUME NEW f, NEW E, IsFiniteSet(E), \A x \in E : f[x] \in Int, NEW key,
           NEW K, IsFiniteSet(K), NEW g, PartSums(g, f, key, E, K)
    PROVE  Total(g, K) = Total(f, PartsOf(key, E, K))
  <1> DEFINE Part(T) == {x \in E : key[x] \in T}
             G == {T \in SUBSET K : Total(g, T) = Total(f, Part(T))}
  <1> USE DEF PartSums
  <1>1. \A k \in K : g[k] \in Int
    <2>1. ASSUME NEW k \in K PROVE g[k] \in Int
      <3>1. PICK R : R = {x \in E : key[x] = k}
        OBVIOUS
      <3>2. IsFiniteSet(R) /\ \A x \in R : f[x] \in Int
        BY <3>1, FS_Subset
      <3>3. Total(f, R) \in Int
        BY <3>2, TotalOfOneMore
      <3> QED BY <3>1, <3>3
    <2> QED BY <2>1
  <1>2. {} \in G
    <2>1. Part({}) = {}
      OBVIOUS
    <2> QED BY <2>1, TotalOfPick, FS_EmptySet
  <1>3. ASSUME NEW T \in SUBSET K, NEW k \in T, T \ {k} \in G PROVE T \in G
    <2>1. IsFiniteSet(T) /\ \A y \in T : g[y] \in Int
      BY <1>1, FS_Subset
    <2>2. Total(g, T) = g[k] + Total(g, T \ {k})
      BY <2>1, TotalOfOneMore
    <2>3. PICK P, Q, R : P = Part(T) /\ Q = {x \in E : key[x] = k} /\ R = Part(T \ {k})
      OBVIOUS
    <2>4. P = Q \cup R /\ Q \cap R = {} /\ Q \in SUBSET E /\ R \in SUBSET E
      BY <2>3
    <2>5. IsFiniteSet(Q) /\ IsFiniteSet(R) /\ \A x \in Q \cup R : f[x] \in Int
      BY <2>4, FS_Subset
    <2>6. Total(f, Q \cup R) = Total(f, Q) + Total(f, R)
      BY <2>4, <2>5, TotalOfUnion
    <2>7. g[k] = Total(f, Q) /\ Total(g, T \ {k}) = Total(f, R)
      BY <1>3, <2>3
    <2> QED BY <2>2, <2>3, <2>4, <2>6, <2>7
  <1>4. SUBSET K \subseteq G
    <2> HIDE DEF G
    <2> QED BY <1>2, <1>3, SubsetsAreGood
  <1>5. K \in G
    BY <1>4
  <1> QED BY <1>5 DEF PartsOf

-----------------------------------------------------------------------------
(* Parts of a sequence *)

\* How many of some numbers are lower says where one stands among them: every place is taken, by
\* one number.
LEMMA RanksOfNumbers ==
    ASSUME NEW T \in SUBSET Nat, IsFiniteSet(T)
    PROVE  LET rank(i) == Cardinality({j \in T : j < i}) IN
           /\ Cardinality(T) \in Nat
           /\ \A i \in T : rank(i) \in 0..(Cardinality(T) - 1)
           /\ \A i, j \in T : i < j => rank(i) < rank(j)
           /\ \A r \in 0..(Cardinality(T) - 1) : \E i \in T : rank(i) = r
  <1> DEFINE lower(i) == {j \in T : j < i}
             rank(i) == Cardinality(lower(i))
  <1>1. Cardinality(T) \in Nat
    BY FS_CardinalityType
  <1>2. ASSUME NEW i \in T PROVE rank(i) \in 0..(Cardinality(T) - 1) /\ IsFiniteSet(lower(i))
    <2>1. lower(i) \subseteq T /\ i \notin lower(i)
      OBVIOUS
    <2>2. lower(i) # T
      BY <2>1
    <2> HIDE DEF lower
    <2>3. rank(i) <= Cardinality(T) /\ (rank(i) = Cardinality(T) => lower(i) = T)
          /\ IsFiniteSet(lower(i))
      BY <2>1, FS_Subset
    <2>4. rank(i) \in Nat
      BY <2>3, FS_CardinalityType
    <2> QED BY <1>1, <2>2, <2>3, <2>4
  <1>3. ASSUME NEW i \in T, NEW j \in T, i < j PROVE rank(i) < rank(j)
    <2>0. i \in Nat /\ j \in Nat /\ \A h \in T : h \in Nat /\ (h < i => h < j)
      BY <1>3
    <2>1. lower(i) \subseteq lower(j) /\ i \in lower(j) /\ i \notin lower(i)
      <3>1. \A h \in lower(i) : h \in lower(j)
        BY <2>0
      <3>2. i \in lower(j)
        BY <1>3
      <3>3. i \notin lower(i)
        BY <2>0
      <3> QED BY <3>1, <3>2, <3>3
    <2>2. lower(i) # lower(j)
      BY <2>1
    <2>3. rank(i) \in Nat /\ rank(j) \in Nat /\ IsFiniteSet(lower(j))
      BY <1>1, <1>2
    <2> HIDE DEF lower
    <2>4. rank(i) <= rank(j) /\ rank(i) # rank(j)
      BY <2>1, <2>2, <2>3, FS_Subset
    <2> QED BY <2>3, <2>4
  <1>4. ASSUME NEW r \in 0..(Cardinality(T) - 1) PROVE \E i \in T : rank(i) = r
    <2>1. SUFFICES ASSUME \A i \in T : rank(i) # r PROVE FALSE
      OBVIOUS
    <2> DEFINE left == (0..(Cardinality(T) - 1)) \ {r}
               f == [i \in T |-> rank(i)]
    <2>2. IsFiniteSet(left) /\ Cardinality(left) < Cardinality(T)
      <3>1. IsFiniteSet(0..(Cardinality(T) - 1)) /\ Cardinality(0..(Cardinality(T) - 1)) = Cardinality(T)
        BY <1>1, FS_Interval
      <3>2. PICK all : all = 0..(Cardinality(T) - 1)
        OBVIOUS
      <3>3. r \in all /\ IsFiniteSet(all) /\ Cardinality(all) = Cardinality(T)
        BY <3>1, <3>2
      <3>4. IsFiniteSet(all \ {r}) /\ Cardinality(all \ {r}) = Cardinality(T) - 1
        BY <3>3, FS_RemoveElement
      <3> QED BY <1>1, <3>2, <3>4
    <2>3. f \in [T -> left]
      BY <1>2, <2>1
    <2>4. \A i \in T : f[i] = rank(i)
      OBVIOUS
    <2> HIDE DEF left, f, lower
    <2>5. PICK i \in T, j \in T : i # j /\ f[i] = f[j]
      BY <1>1, <2>2, <2>3, FS_PigeonHole
    <2>6. rank(i) < rank(j) \/ rank(j) < rank(i)
      BY <1>3, <2>5
    <2>7. rank(i) \in Int /\ rank(j) \in Int
      BY <1>1, <1>2
    <2> QED BY <2>4, <2>5, <2>6, <2>7
  <1> QED BY <1>1, <1>2, <1>3, <1>4

\* Those are the elements of s at the places f tells, from the lowest place to the highest.
LowestFirst(f, c, places, s, those) ==
    f \in [1..c -> places] /\ \A k \in 1..c : those[k] = s[f[k]] /\ \A l \in 1..c : k < l => f[k] < f[l]

PickedFrom(n, s, places, c, those) ==
    n \in Nat /\ places \in SUBSET (1..n) /\ c = Cardinality(places) /\ those = Those(s, places)

\* What stands at some places is as many elements, those of the places in their order.
LEMMA ThoseFacts ==
    ASSUME NEW n, NEW s, NEW places, NEW c, NEW those, PickedFrom(n, s, places, c, those)
    PROVE  /\ c \in 0..n /\ Len(those) = c
           /\ \A S : (\A i \in places : s[i] \in S) => those \in Seq(S)
           /\ \E f : LowestFirst(f, c, places, s, those)
  <1> USE DEF PickedFrom
  <1> DEFINE lower(i) == {j \in places : j < i}
             rank(i) == Cardinality(lower(i))
             at(k) == CHOOSE i \in places : rank(i) = k - 1
             f == [k \in 1..c |-> at(k)]
  <1>1. IsFiniteSet(places) /\ c \in 0..n
    <2>1. IsFiniteSet(1..n) /\ Cardinality(1..n) = n
      BY FS_Interval
    <2>2. PICK all : all = 1..n
      OBVIOUS
    <2>3. IsFiniteSet(places) /\ Cardinality(places) <= Cardinality(all)
      BY <2>1, <2>2, FS_Subset
    <2> QED BY <2>1, <2>2, <2>3, FS_CardinalityType
  <1>2. /\ \A i \in places : rank(i) \in 0..(c - 1)
        /\ \A i, j \in places : i < j => rank(i) < rank(j)
        /\ \A r \in 0..(c - 1) : \E i \in places : rank(i) = r
    <2>1. places \in SUBSET Nat
      OBVIOUS
    <2> QED BY <1>1, <2>1, RanksOfNumbers
  <1>3. those = [k \in 1..c |-> s[at(k)]]
    BY DEF Those
  <1> HIDE DEF rank
  <1>4. ASSUME NEW k \in 1..c PROVE at(k) \in places /\ rank(at(k)) = k - 1
    <2>1. k - 1 \in 0..(c - 1)
      BY <1>1
    <2> QED BY <1>2, <2>1
  <1> HIDE DEF at
  <1>5. f \in [1..c -> places] /\ \A k \in 1..c : f[k] = at(k)
    BY <1>4
  <1>6. ASSUME NEW k \in 1..c, NEW l \in 1..c, k < l PROVE f[k] < f[l]
    <2>1. PICK i, j : i = at(k) /\ j = at(l)
      OBVIOUS
    <2>2. i \in places /\ rank(i) = k - 1
      BY <1>4, <2>1
    <2>3. j \in places /\ rank(j) = l - 1
      BY <1>4, <2>1
    <2>4. ~(j < i)
      BY <1>2, <1>6, <2>2, <2>3
    <2>5. i # j
      BY <1>6, <2>2, <2>3
    <2>6. i < j
      BY <2>2, <2>3, <2>4, <2>5
    <2> QED BY <1>5, <2>1, <2>6
  <1>7. Len(those) = c /\ \A k \in 1..c : those[k] = s[f[k]]
    BY <1>1, <1>3, <1>5
  <1>9. ASSUME NEW S, \A i \in places : s[i] \in S PROVE those \in Seq(S)
    <2>1. \A k \in 1..c : s[at(k)] \in S
      BY <1>4, <1>9
    <2> QED BY <1>1, <1>3, <2>1
  <1> HIDE DEF f
  <1>8. LowestFirst(f, c, places, s, those)
    BY <1>5, <1>6, <1>7 DEF LowestFirst
  <1> QED BY <1>1, <1>7, <1>8, <1>9
=============================================================================
