------------------------------- MODULE FiniteLaws -------------------------------
(***************************************************************************)
(* Sums and largest elements of finite sets.  SumFunctionOnSet of the      *)
(* module Functions is a recursive function chosen by CHOOSE; the lemmas   *)
(* say that such a function exists, is additive, and does not depend on    *)
(* the order elements are taken in.  Induction over a finite set is done   *)
(* by looking at a smallest counterexample (WFMin).  Then division, and    *)
(* folds over the positions of a sequence.                                 *)
(***************************************************************************)
EXTENDS Integers, FiniteSetsExt, Functions, FiniteSetTheorems, WellFoundedInduction, TLAPS

\* F[T] is the sum of f over T, for every T \subseteq S.
Additive(F, f, S) ==
  /\ F \in [SUBSET S -> Int]
  /\ F[{}] = 0
  /\ \A T \in SUBSET S : \A x \in T : F[T] = f[x] + F[T \ {x}]

\* A nonempty set of subsets of a finite set has a smallest member.
LEMMA SmallestMember ==
  ASSUME NEW U, IsFiniteSet(U), NEW Family \in SUBSET (SUBSET U), Family # {}
  PROVE  \E T \in Family : \A V \in Family : V \subseteq T => V = T
PROOF
<1>1. IsWellFoundedOn(StrictSubsetOrdering(U), SUBSET U)
  BY FS_StrictSubsetOrderingWellFounded, FS_FiniteSubsetsOfFinite
<1>2. PICK T \in Family : \A V \in Family : ~(<<V, T>> \in StrictSubsetOrdering(U))
  BY <1>1, WFMin
<1>. QED
  BY <1>2 DEF StrictSubsetOrdering

\* Among counterexamples there is one that loses the defect with any element.
LEMMA SmallestSubset ==
  ASSUME NEW U, IsFiniteSet(U), NEW Bad \in SUBSET (SUBSET U), Bad # {}
  PROVE  \E T \in Bad : \A x \in T : T \ {x} \notin Bad
PROOF
<1>1. PICK T \in Bad : \A V \in Bad : V \subseteq T => V = T
  BY SmallestMember
<1>. QED
  BY <1>1

\* Every function to the integers has its sums.
LEMMA AdditiveExists ==
  ASSUME NEW S, IsFiniteSet(S), NEW f \in [S -> Int]
  PROVE  \E F : Additive(F, f, S)
PROOF
<1>. DEFINE Bad == {T \in SUBSET S : ~ \E F : Additive(F, f, T)}
<1>. SUFFICES ASSUME Bad # {} PROVE FALSE
  OBVIOUS
<1>1. PICK T \in Bad : \A x \in T : T \ {x} \notin Bad
  BY SmallestSubset
<1>2. CASE T = {}
  <2>. DEFINE F == [s \in SUBSET {} |-> 0]
  <2>1. Additive(F, f, {})
    BY DEF Additive
  <2>. QED
    BY <1>1, <1>2, <2>1
<1>3. CASE T # {}
  <2>1. PICK e \in T : TRUE
    BY <1>3
  <2>. DEFINE U == T \ {e}
  <2>2. PICK G : Additive(G, f, U)
    BY <1>1
  <2>. DEFINE F == [s \in SUBSET T |-> IF e \in s THEN f[e] + G[s \ {e}] ELSE G[s]]
  <2>3. \A s \in SUBSET T : (e \in s => s \ {e} \in SUBSET U) /\ (e \notin s => s \in SUBSET U)
    OBVIOUS
  <2>4. f[e] \in Int
    OBVIOUS
  <2>5. F \in [SUBSET T -> Int] /\ F[{}] = 0
    BY <2>2, <2>3, <2>4 DEF Additive
  <2>6. ASSUME NEW s \in SUBSET T, NEW x \in s PROVE F[s] = f[x] + F[s \ {x}]
    <3>1. CASE x = e
      BY <3>1
    <3>2. CASE x # e /\ e \in s
      <4>1. /\ s \ {e} \in SUBSET U /\ x \in s \ {e}
            /\ (s \ {e}) \ {x} = (s \ {x}) \ {e}
            /\ (s \ {e}) \ {x} \in SUBSET U
        BY <3>2
      <4>2. G[s \ {e}] = f[x] + G[(s \ {e}) \ {x}]
        BY <2>2, <4>1 DEF Additive
      <4>3. f[x] \in Int /\ G[(s \ {x}) \ {e}] \in Int
        BY <2>2, <4>1 DEF Additive
      <4>4. F[s] = f[e] + G[s \ {e}] /\ F[s \ {x}] = f[e] + G[(s \ {x}) \ {e}]
        BY <3>2
      <4>5. G[s \ {e}] = f[x] + G[(s \ {x}) \ {e}]
        BY <4>1, <4>2
      <4>. HIDE DEF F
      <4>. QED
        BY <4>3, <4>4, <4>5, <2>4
    <3>3. CASE e \notin s
      <4>1. F[s] = G[s] /\ F[s \ {x}] = G[s \ {x}] /\ s \in SUBSET U
        BY <3>3
      <4>. QED
        BY <2>2, <4>1 DEF Additive
    <3>. QED
      BY <3>1, <3>2, <3>3
  <2>7. Additive(F, f, T)
    <3>. HIDE DEF F
    <3>. QED BY <2>5, <2>6 DEF Additive
  <2>. QED
    BY <2>7, <1>1
<1>. QED
  BY <1>2, <1>3

\* Additive functions agree where their summands do.
LEMMA AdditiveUnique ==
  ASSUME NEW S, IsFiniteSet(S), NEW f, NEW F, Additive(F, f, S),
         NEW T, S \subseteq T, NEW g, NEW G, Additive(G, g, T),
         \A x \in S : f[x] = g[x]
  PROVE  F[S] = G[S]
PROOF
<1>. DEFINE Bad == {U \in SUBSET S : F[U] # G[U]}
<1>. SUFFICES ASSUME Bad # {} PROVE FALSE
  OBVIOUS
<1>1. PICK U \in Bad : \A x \in U : U \ {x} \notin Bad
  BY SmallestSubset
<1>2. U # {}
  BY DEF Additive
<1>3. PICK x \in U : TRUE
  BY <1>2
<1>4. F[U] = f[x] + F[U \ {x}] /\ G[U] = g[x] + G[U \ {x}] /\ F[U \ {x}] = G[U \ {x}]
  BY <1>1 DEF Additive
<1>. QED
  BY <1>4

\* A function that sums by taking any one element away is additive.
LEMMA FoldIsAdditive ==
  ASSUME NEW S, IsFiniteSet(S), NEW f \in [S -> Int],
         NEW F, F = [s \in SUBSET S |-> IF s = {} THEN 0
                       ELSE f[CHOOSE x \in s : TRUE] + F[s \ {CHOOSE x \in s : TRUE}]]
  PROVE  Additive(F, f, S)
PROOF
<1>1. PICK G : Additive(G, f, S)
  BY AdditiveExists
<1>. DEFINE Bad == {T \in SUBSET S : F[T] # G[T]}
<1>2. ASSUME Bad # {} PROVE FALSE
  <2>1. PICK T \in Bad : \A x \in T : T \ {x} \notin Bad
    BY <1>2, SmallestSubset
  <2>2. T # {}
    BY <1>1 DEF Additive
  <2>. DEFINE c == CHOOSE x \in T : TRUE
  <2>3. c \in T
    BY <2>2
  <2>4. F[T] = f[c] + F[T \ {c}]
    BY <2>2
  <2>5. G[T] = f[c] + G[T \ {c}]
    BY <1>1, <2>3 DEF Additive
  <2>. QED
    BY <2>1, <2>3, <2>4, <2>5
<1>3. F = G
  BY <1>1, <1>2 DEF Additive
<1>. QED
  BY <1>1, <1>3

\* SumFunctionOnSet takes the elements one by one, so it is additive.
LEMMA SumIsAdditive ==
  ASSUME NEW S, IsFiniteSet(S), NEW f, \A x \in S : f[x] \in Int
  PROVE  \E F : Additive(F, f, S) /\ SumFunctionOnSet(f, S) = F[S]
PROOF
<1>. DEFINE Step(I) == [s \in SUBSET S |->
                          IF s = {} THEN 0
                          ELSE f[CHOOSE x \in s : TRUE] + I[s \ {CHOOSE x \in s : TRUE}]]
            sum == CHOOSE I : I = Step(I)
            g == [x \in S |-> f[x]]
<1>1. g \in [S -> Int] /\ \A x \in S : g[x] = f[x]
  OBVIOUS
<1>2. PICK G : Additive(G, g, S)
  BY <1>1, AdditiveExists
<1>3. G = Step(G)
  <2>1. ASSUME NEW s \in SUBSET S, s # {}
        PROVE  G[s] = f[CHOOSE x \in s : TRUE] + G[s \ {CHOOSE x \in s : TRUE}]
    BY <1>1, <1>2, <2>1 DEF Additive
  <2>. QED
    BY <1>2, <2>1 DEF Additive
<1>4. sum = Step(sum)
  <2>. HIDE DEF Step
  <2>. QED
    BY <1>3
<1>5. sum = [s \in SUBSET S |-> IF s = {} THEN 0
               ELSE g[CHOOSE x \in s : TRUE] + sum[s \ {CHOOSE x \in s : TRUE}]]
  <2>. HIDE DEF sum
  <2>. QED
    BY <1>1, <1>4
<1>6. Additive(sum, g, S)
  <2>. HIDE DEF sum, g
  <2>. QED
    BY <1>1, <1>5, FoldIsAdditive
<1>7. Additive(sum, f, S)
  BY <1>1, <1>6 DEF Additive
<1>8. SumFunctionOnSet(f, S) = sum[S]
  BY DEF SumFunctionOnSet, FoldFunctionOnSet, MapThenFoldSet
<1>. QED
  BY <1>7, <1>8

\* Sums of integers are integers, and depend on the values only.
LEMMA SumType ==
  ASSUME NEW S, IsFiniteSet(S), NEW f, \A x \in S : f[x] \in Int
  PROVE  SumFunctionOnSet(f, S) \in Int
PROOF
<1>1. PICK F : Additive(F, f, S) /\ SumFunctionOnSet(f, S) = F[S]
  BY SumIsAdditive
<1>. QED
  BY <1>1 DEF Additive

LEMMA SumEmpty ==
  ASSUME NEW f
  PROVE  SumFunctionOnSet(f, {}) = 0
PROOF
<1>1. IsFiniteSet({}) /\ \A x \in {} : f[x] \in Int
  BY FS_EmptySet
<1>2. PICK F : Additive(F, f, {}) /\ SumFunctionOnSet(f, {}) = F[{}]
  BY <1>1, SumIsAdditive
<1>. QED
  BY <1>2 DEF Additive

LEMMA SumSame ==
  ASSUME NEW S, IsFiniteSet(S), NEW f, NEW g,
         \A x \in S : f[x] \in Int /\ f[x] = g[x]
  PROVE  SumFunctionOnSet(f, S) = SumFunctionOnSet(g, S)
PROOF
<1>1. PICK F : Additive(F, f, S) /\ SumFunctionOnSet(f, S) = F[S]
  BY SumIsAdditive
<1>2. PICK G : Additive(G, g, S) /\ SumFunctionOnSet(g, S) = G[S]
  BY SumIsAdditive
<1>3. F[S] = G[S]
  BY <1>1, <1>2, AdditiveUnique
<1>. QED
  BY <1>1, <1>2, <1>3

\* Taking one element away takes its value away.
LEMMA SumRemove ==
  ASSUME NEW S, IsFiniteSet(S), NEW f, \A x \in S : f[x] \in Int, NEW e \in S
  PROVE  SumFunctionOnSet(f, S) = f[e] + SumFunctionOnSet(f, S \ {e})
PROOF
<1>. DEFINE T == S \ {e}
<1>1. IsFiniteSet(T) /\ T \subseteq S /\ \A x \in T : f[x] \in Int
  BY FS_Subset
<1>2. PICK F : Additive(F, f, S) /\ SumFunctionOnSet(f, S) = F[S]
  BY SumIsAdditive
<1>3. PICK G : Additive(G, f, T) /\ SumFunctionOnSet(f, T) = G[T]
  BY <1>1, SumIsAdditive
<1>4. G[T] = F[T]
  BY <1>1, <1>2, <1>3, AdditiveUnique
<1>5. S \in SUBSET S /\ F[S] = f[e] + F[S \ {e}]
  BY <1>2 DEF Additive
<1>. QED
  BY <1>2, <1>3, <1>4, <1>5

LEMMA SumAdd ==
  ASSUME NEW S, IsFiniteSet(S), NEW e, e \notin S, NEW f, \A x \in S \cup {e} : f[x] \in Int
  PROVE  SumFunctionOnSet(f, S \cup {e}) = f[e] + SumFunctionOnSet(f, S)
PROOF
<1>1. IsFiniteSet(S \cup {e}) /\ (S \cup {e}) \ {e} = S
  BY FS_AddElement
<1>. QED
  BY <1>1, SumRemove

\* Sums grow with their values.
LEMMA SumMonotone ==
  ASSUME NEW S, IsFiniteSet(S), NEW f, NEW g,
         \A x \in S : f[x] \in Int /\ g[x] \in Int /\ f[x] <= g[x]
  PROVE  SumFunctionOnSet(f, S) <= SumFunctionOnSet(g, S)
PROOF
<1>. DEFINE Sf(T) == SumFunctionOnSet(f, T)
            Sg(T) == SumFunctionOnSet(g, T)
            Bad == {T \in SUBSET S : ~(Sf(T) <= Sg(T))}
<1>. SUFFICES ASSUME Bad # {} PROVE FALSE
  OBVIOUS
<1>1. PICK T \in Bad : \A x \in T : T \ {x} \notin Bad
  <2>1. Bad \in SUBSET (SUBSET S)
    OBVIOUS
  <2>. HIDE DEF Bad
  <2>. QED
    BY <2>1, SmallestSubset
<1>2. IsFiniteSet(T) /\ T \subseteq S
  BY FS_Subset
<1>3. CASE T = {}
  BY <1>3, SumEmpty
<1>4. CASE T # {}
  <2>1. PICK e \in T : TRUE
    BY <1>4
  <2>2. Sf(T) = f[e] + Sf(T \ {e}) /\ Sg(T) = g[e] + Sg(T \ {e})
    BY <1>2, SumRemove
  <2>3. IsFiniteSet(T \ {e})
    BY <1>2, FS_Subset
  <2>4. Sf(T \ {e}) \in Int /\ Sg(T \ {e}) \in Int
    BY <1>2, <2>3, SumType
  <2>5. Sf(T \ {e}) <= Sg(T \ {e})
    BY <1>1, <1>2
  <2>6. ~(Sf(T) <= Sg(T)) /\ f[e] \in Int /\ g[e] \in Int /\ f[e] <= g[e]
    BY <1>2
  <2>. HIDE DEF Sf, Sg
  <2>. QED
    BY <2>2, <2>4, <2>5, <2>6
<1>. QED
  BY <1>3, <1>4

\* The sum of two disjoint sets is the sum of their sums.
LEMMA SumUnion ==
  ASSUME NEW A, IsFiniteSet(A), NEW B, IsFiniteSet(B), A \cap B = {}, NEW f,
         \A x \in A \cup B : f[x] \in Int
  PROVE  SumFunctionOnSet(f, A \cup B) = SumFunctionOnSet(f, A) + SumFunctionOnSet(f, B)
PROOF
<1>. DEFINE Sum(T) == SumFunctionOnSet(f, T)
            Bad == {T \in SUBSET A : Sum(T \cup B) # Sum(T) + Sum(B)}
<1>. SUFFICES ASSUME Bad # {} PROVE FALSE
  OBVIOUS
<1>1. PICK T \in Bad : \A x \in T : T \ {x} \notin Bad
  <2>1. Bad \in SUBSET (SUBSET A)
    OBVIOUS
  <2>. HIDE DEF Bad
  <2>. QED
    BY <2>1, SmallestSubset
<1>2. IsFiniteSet(T) /\ T \subseteq A /\ IsFiniteSet(T \cup B)
  BY FS_Subset, FS_Union
<1>3. Sum(B) \in Int
  BY SumType
<1>4. CASE T = {}
  <2>1. T \cup B = B /\ Sum({}) = 0
    BY <1>4, SumEmpty
  <2>. QED
    BY <1>3, <1>4, <2>1
<1>5. CASE T # {}
  <2>1. PICK e \in T : TRUE
    BY <1>5
  <2>2. (T \cup B) \ {e} = (T \ {e}) \cup B
    OBVIOUS
  <2>3. Sum(T \cup B) = f[e] + Sum((T \ {e}) \cup B) /\ Sum(T) = f[e] + Sum(T \ {e})
    <3>1. (\A x \in T \cup B : f[x] \in Int) /\ \A x \in T : f[x] \in Int
      BY <1>2
    <3>2. Sum(T \cup B) = f[e] + Sum((T \cup B) \ {e})
      BY <1>2, <3>1, SumRemove
    <3>3. Sum(T) = f[e] + Sum(T \ {e})
      BY <1>2, <3>1, SumRemove
    <3>. QED
      BY <2>2, <3>2, <3>3
  <2>4. Sum((T \ {e}) \cup B) = Sum(T \ {e}) + Sum(B)
    BY <1>1, <1>2
  <2>5. Sum(T \ {e}) \in Int /\ f[e] \in Int
    <3>1. IsFiniteSet(T \ {e})
      BY <1>2, FS_Subset
    <3>. QED
      BY <1>2, <3>1, SumType
  <2>6. Sum(T \cup B) # Sum(T) + Sum(B)
    OBVIOUS
  <2>. HIDE DEF Sum
  <2>. QED
    BY <1>3, <2>3, <2>4, <2>5, <2>6
<1>. QED
  BY <1>4, <1>5

\* Nothing is less than a part of it, when nothing is negative.
LEMMA SumPart ==
  ASSUME NEW S, IsFiniteSet(S), NEW T \in SUBSET S, NEW f, \A x \in S : f[x] \in Nat
  PROVE  SumFunctionOnSet(f, T) \in Nat /\ SumFunctionOnSet(f, T) <= SumFunctionOnSet(f, S)
PROOF
<1>1. ASSUME NEW U \in SUBSET S PROVE SumFunctionOnSet(f, U) \in Nat
  <2>1. IsFiniteSet(U) /\ \A x \in U : f[x] \in Int
    BY FS_Subset
  <2>. DEFINE zero == [x \in U |-> 0]
              Bad == {V \in SUBSET U : SumFunctionOnSet(zero, V) # 0}
  <2>2. SumFunctionOnSet(zero, U) = 0
    <3>. SUFFICES ASSUME Bad # {} PROVE FALSE
      OBVIOUS
    <3>1. PICK V \in Bad : \A x \in V : V \ {x} \notin Bad
      <4>1. Bad \in SUBSET (SUBSET U)
        OBVIOUS
      <4>. HIDE DEF Bad
      <4>. QED
        BY <2>1, <4>1, SmallestSubset
    <3>2. IsFiniteSet(V)
      BY <2>1, FS_Subset
    <3>3. V # {}
      BY SumEmpty
    <3>4. PICK e \in V : TRUE
      BY <3>3
    <3>5. SumFunctionOnSet(zero, V) = zero[e] + SumFunctionOnSet(zero, V \ {e})
      BY <3>2, SumRemove
    <3>6. SumFunctionOnSet(zero, V \ {e}) = 0 /\ zero[e] = 0
      BY <3>1
    <3>. QED
      BY <3>5, <3>6
  <2>3. SumFunctionOnSet(zero, U) <= SumFunctionOnSet(f, U)
    <3>1. \A x \in U : zero[x] \in Int /\ f[x] \in Int /\ zero[x] <= f[x]
      OBVIOUS
    <3>. HIDE DEF zero
    <3>. QED
      BY <2>1, <3>1, SumMonotone
  <2>4. SumFunctionOnSet(f, U) \in Int
    BY <2>1, SumType
  <2>. QED
    BY <2>2, <2>3, <2>4
<1>2. IsFiniteSet(T) /\ IsFiniteSet(S \ T) /\ T \cap (S \ T) = {} /\ T \cup (S \ T) = S
  BY FS_Subset
<1>3. SumFunctionOnSet(f, S) = SumFunctionOnSet(f, T) + SumFunctionOnSet(f, S \ T)
  <2>1. \A x \in T \cup (S \ T) : f[x] \in Int
    OBVIOUS
  <2>2. SumFunctionOnSet(f, T \cup (S \ T)) = SumFunctionOnSet(f, T) + SumFunctionOnSet(f, S \ T)
    BY <1>2, <2>1, SumUnion
  <2>. QED
    BY <1>2, <2>2
<1>4. SumFunctionOnSet(f, T) \in Nat /\ SumFunctionOnSet(f, S \ T) \in Nat
  BY <1>1
<1>. QED
  BY <1>3, <1>4

\* Nothings add up to nothing.
LEMMA SumZeros ==
  ASSUME NEW S, IsFiniteSet(S), NEW f, \A x \in S : f[x] = 0
  PROVE  SumFunctionOnSet(f, S) = 0
PROOF
<1>. DEFINE Z == [T \in SUBSET S |-> 0]
<1>1. PICK F : Additive(F, f, S) /\ SumFunctionOnSet(f, S) = F[S]
  BY SumIsAdditive
<1>2. Additive(Z, f, S)
  BY DEF Additive
<1>3. F[S] = Z[S]
  BY <1>1, <1>2, AdditiveUnique
<1>. QED
  BY <1>1, <1>3

\* Changing one value changes the sum by as much.
LEMMA SumChange ==
  ASSUME NEW S, IsFiniteSet(S), NEW f \in [S -> Int], NEW g \in [S -> Int],
         NEW e \in S, \A x \in S \ {e} : g[x] = f[x]
  PROVE  SumFunctionOnSet(g, S) = SumFunctionOnSet(f, S) + (g[e] - f[e])
PROOF
<1>1. IsFiniteSet(S \ {e})
  BY FS_Subset
<1>2. SumFunctionOnSet(f, S \ {e}) = SumFunctionOnSet(g, S \ {e})
  BY <1>1, SumSame
<1>3. /\ SumFunctionOnSet(f, S) = f[e] + SumFunctionOnSet(f, S \ {e})
      /\ SumFunctionOnSet(g, S) = g[e] + SumFunctionOnSet(g, S \ {e})
  BY SumRemove
<1>4. SumFunctionOnSet(f, S \ {e}) \in Int
  BY <1>1, SumType
<1>. QED
  BY <1>2, <1>3, <1>4

\* What is bounded, element by element, by different values of a function
\* adds up to no more than the function does.
LEMMA SumImage ==
  ASSUME NEW S, IsFiniteSet(S), NEW f, \A x \in S : f[x] \in Int,
         NEW K, IsFiniteSet(K), NEW g, \A k \in K : g[k] \in Nat,
         NEW at, \A x \in S : at[x] \in K /\ f[x] <= g[at[x]],
         \A x, y \in S : at[x] = at[y] => x = y
  PROVE  SumFunctionOnSet(f, S) <= SumFunctionOnSet(g, K)
PROOF
<1>. DEFINE Image(T) == {at[x] : x \in T}
            Sf(T) == SumFunctionOnSet(f, T)
            Sg(T) == SumFunctionOnSet(g, Image(T))
            Bad == {T \in SUBSET S : ~(Sf(T) <= Sg(T))}
<1>1. ASSUME Bad # {}
      PROVE  FALSE
  <2>1. Bad \in SUBSET (SUBSET S)
    OBVIOUS
  <2>2. PICK T \in Bad : \A x \in T : T \ {x} \notin Bad
    BY <1>1, <2>1, SmallestSubset
  <2>3. T # {}
    <3>1. Sf({}) = 0 /\ Image({}) = {}
      BY SumEmpty
    <3>2. Sg({}) = 0
      BY <3>1, SumEmpty
    <3>. QED
      BY <2>2, <3>1, <3>2
  <2>4. PICK e \in T : TRUE
    BY <2>3
  <2>. DEFINE U == T \ {e}
  <2>5. Sf(T) = f[e] + Sf(U) /\ Sf(U) \in Int
    <3>1. IsFiniteSet(T) /\ IsFiniteSet(U) /\ T \in SUBSET S
      BY <2>2, FS_Subset
    <3>. QED
      BY <2>4, <3>1, SumRemove, SumType
  <2>6. Sg(T) = g[at[e]] + Sg(U) /\ Sg(U) \in Int
    <3>1. Image(T) = Image(U) \cup {at[e]} /\ at[e] \notin Image(U)
      BY <2>2, <2>4
    <3>2. Image(U) \in SUBSET K /\ at[e] \in K
      BY <2>2, <2>4
    <3>3. IsFiniteSet(Image(U))
      BY <3>2, FS_Subset
    <3>4. \A x \in Image(U) \cup {at[e]} : g[x] \in Int
      BY <3>2
    <3>. HIDE DEF Image
    <3>. QED
      BY <3>1, <3>2, <3>3, <3>4, SumAdd, SumType
  <2>7. Sf(U) <= Sg(U)
    BY <2>2, <2>4
  <2>8. f[e] \in Int /\ g[at[e]] \in Int /\ f[e] <= g[at[e]]
    BY <2>2, <2>4
  <2>9. Sf(T) <= Sg(T)
    <3>. HIDE DEF Sf, Sg, U
    <3>. QED
      BY <2>5, <2>6, <2>7, <2>8
  <2>. QED
    BY <2>2, <2>9
<1>2. Sf(S) <= Sg(S)
  BY <1>1
<1>3. Sg(S) <= SumFunctionOnSet(g, K)
  <2>1. Image(S) \in SUBSET K
    OBVIOUS
  <2>. HIDE DEF Image
  <2>. QED
    BY <2>1, SumPart
<1>4. Sf(S) \in Int /\ Sg(S) \in Int /\ SumFunctionOnSet(g, K) \in Int
  <2>1. Image(S) \in SUBSET K
    OBVIOUS
  <2>2. IsFiniteSet(Image(S))
    BY <2>1, FS_Subset
  <2>. HIDE DEF Image
  <2>. QED
    BY <2>1, <2>2, SumType
<1>. QED
  BY <1>2, <1>3, <1>4

-----------------------------------------------------------------------------

\* A strict order on a nonempty finite set, given by what lies above each
\* element, has a maximal element.
LEMMA MaximalElement ==
  ASSUME NEW S, IsFiniteSet(S), NEW e \in S, NEW above \in [S -> SUBSET S],
         \A x \in S : x \notin above[x],
         \A x \in S : \A y \in above[x] : above[y] \subseteq above[x]
  PROVE  \E x \in S : above[x] = {}
PROOF
<1>. DEFINE Family == {T \in SUBSET S : \E x \in S : T = above[x]}
<1>1. Family \in SUBSET (SUBSET S) /\ above[e] \in Family
  OBVIOUS
<1>2. \E T \in Family : \A V \in Family : V \subseteq T => V = T
  <2>. HIDE DEF Family
  <2>. QED
    BY <1>1, SmallestMember
<1>3. PICK x \in S : \A y \in S : above[y] \subseteq above[x] => above[y] = above[x]
  <2>1. PICK T \in Family : \A V \in Family : V \subseteq T => V = T
    BY <1>2
  <2>2. PICK x \in S : T = above[x]
    OBVIOUS
  <2>3. \A y \in S : above[y] \in Family
    OBVIOUS
  <2>. HIDE DEF Family
  <2>. QED
    BY <2>1, <2>2, <2>3
<1>4. ASSUME NEW y \in above[x] PROVE FALSE
  <2>1. y \in S /\ above[y] \subseteq above[x] /\ y \notin above[y]
    OBVIOUS
  <2>. QED
    BY <1>3, <2>1
<1>. QED
  BY <1>4

\* A nonempty set of numbers up to n has a largest one.
LEMMA LargestNumber ==
  ASSUME NEW n \in Nat, NEW S \in SUBSET (1..n), NEW e \in S
  PROVE  \E x \in S : \A y \in S : x >= y
PROOF
<1>. DEFINE above == [x \in S |-> {y \in S : y > x}]
<1>1. IsFiniteSet(S)
  <2>1. IsFiniteSet(1..n)
    BY FS_Interval
  <2>. QED
    BY <2>1, FS_Subset
<1>2. /\ above \in [S -> SUBSET S]
      /\ \A x \in S : x \notin above[x]
      /\ \A x \in S : \A y \in above[x] : above[y] \subseteq above[x]
  <2>1. \A x \in S : x \in Int
    OBVIOUS
  <2>2. ASSUME NEW x \in S, NEW y \in above[x], NEW z \in above[y]
        PROVE  z \in above[x]
    <3>1. y \in S /\ z \in S /\ y > x /\ z > y
      OBVIOUS
    <3>2. z > x
      BY <2>1, <3>1
    <3>. QED
      BY <3>1, <3>2
  <2>3. /\ above \in [S -> SUBSET S]
        /\ \A x \in S : x \notin above[x]
    BY <2>1
  <2>. HIDE DEF above
  <2>. QED
    BY <2>2, <2>3
<1>3. \E x \in S : above[x] = {}
  <2>. HIDE DEF above
  <2>. QED
    BY <1>1, <1>2, MaximalElement
<1>. QED
  BY <1>3

\* A nonempty set of numbers up to n has a smallest one.
LEMMA SmallestNumber ==
  ASSUME NEW n \in Nat, NEW S \in SUBSET (0..n), NEW e \in S
  PROVE  \E x \in S : \A y \in S : x <= y
PROOF
<1>. DEFINE Mirror == {i \in 1..(n + 1) : n + 1 - i \in S}
<1>1. n + 1 \in Nat /\ Mirror \in SUBSET (1..(n + 1)) /\ n + 1 - e \in Mirror
  <2>1. e \in 0..n /\ n + 1 - e \in 1..(n + 1) /\ n + 1 - (n + 1 - e) = e
    OBVIOUS
  <2>. QED
    BY <2>1
<1>2. PICK i \in Mirror : \A j \in Mirror : i >= j
  <2>. HIDE DEF Mirror
  <2>. QED
    BY <1>1, LargestNumber
<1>3. ASSUME NEW y \in S PROVE n + 1 - i <= y
  <2>1. y \in 0..n /\ n + 1 - y \in 1..(n + 1) /\ n + 1 - (n + 1 - y) = y
    OBVIOUS
  <2>2. i >= n + 1 - y
    BY <1>2, <2>1
  <2>. QED
    BY <2>1, <2>2
<1>. QED
  BY <1>3

\* So what holds of 0, and of i + 1 when it holds of i, holds up to n.
LEMMA Stepwise ==
  ASSUME NEW n \in Nat, NEW Good \in SUBSET (0..n), 0 \in Good,
         \A i \in 1..n : i - 1 \in Good => i \in Good
  PROVE  Good = 0..n
PROOF
<1>. SUFFICES ASSUME NEW e \in 0..n, e \notin Good PROVE FALSE
  OBVIOUS
<1>. DEFINE Bad == (0..n) \ Good
<1>1. PICK x \in Bad : \A y \in Bad : x <= y
  BY SmallestNumber
<1>2. x \in 1..n /\ x - 1 \in 0..n /\ ~(x <= x - 1)
  OBVIOUS
<1>. QED
  BY <1>1, <1>2

\* A sum of differences.
LEMMA SumLess ==
  ASSUME NEW D, IsFiniteSet(D), NEW line \in [D -> Nat], NEW cut \in [D -> Nat],
         NEW left \in [D -> Nat], \A i \in D : left[i] = line[i] - cut[i]
  PROVE  SumFunctionOnSet(left, D) = SumFunctionOnSet(line, D) - SumFunctionOnSet(cut, D)
PROOF
<1>. DEFINE Sum(f, T) == SumFunctionOnSet(f, T)
            Bad == {T \in SUBSET D : Sum(left, T) # Sum(line, T) - Sum(cut, T)}
<1>1. ASSUME Bad # {} PROVE FALSE
  <2>1. Bad \in SUBSET (SUBSET D)
    OBVIOUS
  <2>2. PICK T \in Bad : \A x \in T : T \ {x} \notin Bad
    <3>. HIDE DEF Bad
    <3>. QED
      BY <1>1, <2>1, SmallestSubset
  <2>3. T \in SUBSET D /\ IsFiniteSet(T)
    BY <2>2, FS_Subset
  <2>4. T # {}
    <3>1. Sum(left, {}) = 0 /\ Sum(line, {}) = 0 /\ Sum(cut, {}) = 0
      BY SumEmpty
    <3>. QED
      BY <2>2, <3>1
  <2>5. PICK e \in T : TRUE
    BY <2>4
  <2>. DEFINE U == T \ {e}
  <2>6. /\ Sum(left, T) = left[e] + Sum(left, U)
        /\ Sum(line, T) = line[e] + Sum(line, U)
        /\ Sum(cut, T) = cut[e] + Sum(cut, U)
    BY <2>3, <2>5, SumRemove
  <2>7. Sum(left, U) \in Int /\ Sum(line, U) \in Int /\ Sum(cut, U) \in Int
    <3>1. IsFiniteSet(U) /\ U \in SUBSET D
      BY <2>3, FS_Subset
    <3>. QED
      BY <3>1, SumType
  <2>8. Sum(left, U) = Sum(line, U) - Sum(cut, U)
    BY <2>2, <2>3, <2>5
  <2>9. left[e] = line[e] - cut[e] /\ line[e] \in Nat /\ cut[e] \in Nat /\ left[e] \in Nat
    BY <2>3, <2>5
  <2>10. Sum(left, T) # Sum(line, T) - Sum(cut, T)
    BY <2>2
  <2>. HIDE DEF Sum, U
  <2>. QED
    BY <2>6, <2>7, <2>8, <2>9, <2>10
<1>2. Sum(left, D) = Sum(line, D) - Sum(cut, D)
  BY <1>1
<1>. QED
  BY <1>2

-----------------------------------------------------------------------------
(* Division.                                                               *)

\* A rounded-down division, bounded by multiplication.
LEMMA Quotient ==
  ASSUME NEW x \in Nat, NEW d \in Nat \ {0}
  PROVE  x \div d \in Nat /\ d * (x \div d) <= x /\ x <= d * (x \div d) + (d - 1)
PROOF
OBVIOUS

\* A share of x in proportion v to d, rounded down, is no more than x; ...
LEMMA ShareOf ==
  ASSUME NEW x \in Nat, NEW d \in Nat \ {0}, NEW v \in Nat, v <= d
  PROVE  (x * v) \div d \in Nat /\ (x * v) \div d <= x
PROOF
<1>1. x * v \in Nat /\ x * v <= x * d
  OBVIOUS
<1>2. (x * v) \div d \in Nat /\ d * ((x * v) \div d) <= x * v
  BY <1>1, Quotient
<1>3. ASSUME NEW q \in Nat, d * q <= x * d PROVE q <= x
  <2>1. ASSUME q > x PROVE FALSE
    <3>1. PICK more \in Nat : q = x + 1 + more
      <4>1. q - x - 1 \in Nat /\ q = x + 1 + (q - x - 1)
        BY <2>1
      <4>. QED
        BY <4>1
    <3>2. d * q = x * d + d + d * more /\ d * more \in Nat /\ x * d \in Nat
      BY <3>1
    <3>. QED
      BY <1>3, <3>2
  <2>. QED
    BY <2>1
<1>. QED
  BY <1>1, <1>2, <1>3

\* ... neither are v percent of it.
LEMMA PercentOf ==
  ASSUME NEW x \in Nat, NEW v \in Nat, v <= 100
  PROVE  (x * v) \div 100 \in Nat /\ (x * v) \div 100 <= x
PROOF
<1>1. 100 \in Nat \ {0}
  OBVIOUS
<1>2. ASSUME NEW d \in Nat \ {0}, v <= d
      PROVE  (x * v) \div d \in Nat /\ (x * v) \div d <= x
  BY <1>2, ShareOf
<1>. QED
  BY <1>1, <1>2

\* Shares rounded down fall short by less than one for each line.
LEMMA SharesFallShort ==
  ASSUME NEW S, IsFiniteSet(S), NEW total \in Nat \ {0}, NEW amount \in Nat,
         NEW f, \A x \in S : f[x] \in Nat,
         NEW q, \A x \in S : q[x] \in Nat /\ total * q[x] <= f[x] * amount
                                        /\ f[x] * amount <= total * q[x] + (total - 1)
  PROVE  /\ total * SumFunctionOnSet(q, S) <= SumFunctionOnSet(f, S) * amount
         /\ SumFunctionOnSet(f, S) * amount <= total * SumFunctionOnSet(q, S) + Cardinality(S) * (total - 1)
PROOF
<1>. DEFINE Q(T) == SumFunctionOnSet(q, T)
            F(T) == SumFunctionOnSet(f, T)
            Fine(T) == /\ total * Q(T) <= F(T) * amount
                       /\ F(T) * amount <= total * Q(T) + Cardinality(T) * (total - 1)
            Bad == {T \in SUBSET S : ~Fine(T)}
<1>1. ASSUME Bad # {} PROVE FALSE
  <2>1. Bad \in SUBSET (SUBSET S)
    OBVIOUS
  <2>2. PICK T \in Bad : \A x \in T : T \ {x} \notin Bad
    <3>. HIDE DEF Bad
    <3>. QED
      BY <1>1, <2>1, SmallestSubset
  <2>3. ~Fine(T) /\ \A x \in T : Fine(T \ {x})
    BY <2>2
  <2>4. IsFiniteSet(T)
    BY <2>2, FS_Subset
  <2>5. T # {}
    <3>1. Q({}) = 0 /\ F({}) = 0 /\ Cardinality({}) = 0
      BY SumEmpty, FS_EmptySet
    <3>2. Fine({})
      BY <3>1
    <3>. QED
      BY <2>3, <3>2
  <2>6. PICK e \in T : TRUE
    BY <2>5
  <2>. DEFINE U == T \ {e}
  <2>7. Q(T) = q[e] + Q(U) /\ F(T) = f[e] + F(U)
    BY <2>2, <2>4, <2>6, SumRemove
  <2>8. IsFiniteSet(U) /\ Q(U) \in Int /\ F(U) \in Int
    <3>1. IsFiniteSet(U)
      BY <2>4, FS_Subset
    <3>. QED
      BY <2>2, <3>1, SumType
  <2>9. Cardinality(T) = Cardinality(U) + 1 /\ Cardinality(U) \in Nat
    BY <2>4, <2>6, <2>8, FS_RemoveElement, FS_CardinalityType
  <2>10. Fine(U)
    BY <2>3, <2>6
  <2>11. ASSUME NEW a \in Int, NEW b \in Int, NEW c \in Nat, NEW x \in Nat, NEW y \in Nat,
                total * a <= b * amount, b * amount <= total * a + c * (total - 1),
                total * x <= y * amount, y * amount <= total * x + (total - 1)
         PROVE  /\ total * (x + a) <= (y + b) * amount
                /\ (y + b) * amount <= total * (x + a) + (c + 1) * (total - 1)
    <3>1. /\ total * (x + a) = total * x + total * a
          /\ (y + b) * amount = y * amount + b * amount
          /\ (c + 1) * (total - 1) = c * (total - 1) + (total - 1)
      OBVIOUS
    <3>2. /\ total * a \in Int /\ b * amount \in Int /\ c * (total - 1) \in Int
          /\ total * x \in Int /\ y * amount \in Int
      OBVIOUS
    <3>. QED
      BY <2>11, <3>1, <3>2
  <2>12. Fine(T)
    <3>1. /\ f[e] \in Nat /\ q[e] \in Nat /\ total * q[e] <= f[e] * amount
          /\ f[e] * amount <= total * q[e] + (total - 1)
      BY <2>2, <2>6
    <3>2. /\ total * Q(U) <= F(U) * amount
          /\ F(U) * amount <= total * Q(U) + Cardinality(U) * (total - 1)
      BY <2>10
    <3>3. /\ total * (q[e] + Q(U)) <= (f[e] + F(U)) * amount
          /\ (f[e] + F(U)) * amount <= total * (q[e] + Q(U)) + (Cardinality(U) + 1) * (total - 1)
      <4>. HIDE DEF Q, F, U, Fine
      <4>. QED
        BY <2>8, <2>9, <2>11, <3>1, <3>2
    <3>. QED
      BY <2>7, <2>9, <3>3
  <2>. QED
    BY <2>3, <2>12
<1>2. Fine(S)
  BY <1>1
<1>. QED
  BY <1>2

\* Multiplication and order.
LEMMA CancelFactor ==
  ASSUME NEW d \in Nat \ {0}, NEW x \in Int, NEW y \in Int, d * x <= d * y
  PROVE  x <= y
PROOF
<1>. SUFFICES ASSUME x > y PROVE FALSE
  OBVIOUS
<1>1. PICK more \in Nat : x = y + 1 + more
  <2>1. x - y - 1 \in Nat /\ x = y + 1 + (x - y - 1)
    OBVIOUS
  <2>. QED
    BY <2>1
<1>2. d * x = d * y + d + d * more /\ d * more \in Nat /\ d * y \in Int
  BY <1>1
<1>. QED
  BY <1>2

\* What the shares leave of a cut when the last line gives all it holds.
LEMMA RestOfCut ==
  ASSUME NEW total \in Nat \ {0}, NEW amount \in Nat, amount <= total,
         NEW held \in Nat, NEW sum \in Nat, total = held + sum,
         NEW taken \in Nat, NEW n \in Nat \ {0},
         sum * amount <= total * taken + (n - 1) * (total - 1)
  PROVE  total * (amount - taken - held) <= (n - 1) * (total - 1)
PROOF
<1>1. /\ total * (amount - taken - held) = total * amount - total * taken - total * held
      /\ total * amount = held * amount + sum * amount
      /\ total * amount \in Int /\ total * taken \in Int /\ total * held \in Int /\ held * amount \in Int
      /\ sum * amount \in Int /\ (n - 1) * (total - 1) \in Int
  OBVIOUS
<1>2. held * amount <= total * held
  OBVIOUS
<1>. QED
  BY <1>1, <1>2

-----------------------------------------------------------------------------
(* Folds.                                                                  *)

\* The largest of 1..n.
LEMMA LargestOf ==
  ASSUME NEW n \in Nat, NEW S \in SUBSET (1..n), S # {}
  PROVE  Max(S) \in S /\ \A y \in S : Max(S) >= y
PROOF
<1>1. PICK e \in S : TRUE
  OBVIOUS
<1>2. \E x \in S : \A y \in S : x >= y
  BY <1>1, LargestNumber
<1>. QED
  BY <1>2 DEF Max

\* A fold by a step that leads from the good values for what was folded to the
\* good values for one element more ...
GoodStep(n, Good, step) ==
  \A S \in SUBSET (1..n) : S # {} => \A v \in Good[S \ {Max(S)}] : step[S][v] \in Good[S]

\* fold is made by such a step from base on.
FoldsBy(n, base, step, fold) ==
  /\ DOMAIN fold = SUBSET (1..n) /\ fold[{}] = base
  /\ \A S \in SUBSET (1..n) : S # {} => fold[S] = step[S][fold[S \ {Max(S)}]]

\* ... exists, ...
LEMMA FoldExists ==
  ASSUME NEW n \in Nat, NEW Good, NEW base, base \in Good[{}], NEW step, GoodStep(n, Good, step)
  PROVE  \E fold : FoldsBy(n, base, step, fold) /\ \A S \in SUBSET (1..n) : fold[S] \in Good[S]
PROOF
<1>. USE DEF GoodStep
<1>. DEFINE Folds(fold, D) == /\ DOMAIN fold = SUBSET D /\ fold[{}] = base
                              /\ \A S \in SUBSET D : /\ fold[S] \in Good[S]
                                                     /\ S # {} => fold[S] = step[S][fold[S \ {Max(S)}]]
            Bad == {D \in SUBSET (1..n) : ~ \E fold : Folds(fold, D)}
<1>1. ASSUME Bad # {} PROVE FALSE
  <2>1. Bad \in SUBSET (SUBSET (1..n)) /\ IsFiniteSet(1..n)
    BY FS_Interval
  <2>2. PICK D \in Bad : \A x \in D : D \ {x} \notin Bad
    <3>. HIDE DEF Bad
    <3>. QED
      BY <1>1, <2>1, SmallestSubset
  <2>3. D \in SUBSET (1..n) /\ ~ \E fold : Folds(fold, D)
    BY <2>2
  <2>4. D # {}
    <3>1. Folds([S \in SUBSET {} |-> base], {})
      OBVIOUS
    <3>. QED
      BY <2>3, <3>1
  <2>. DEFINE m == Max(D)
  <2>5. m \in D /\ \A y \in D : m >= y
    BY <2>3, <2>4, LargestOf
  <2>6. ASSUME NEW S \in SUBSET D, m \in S PROVE Max(S) = m
    <3>1. S \in SUBSET (1..n) /\ S # {}
      BY <2>3, <2>6
    <3>2. Max(S) \in S /\ \A y \in S : Max(S) >= y
      BY <3>1, LargestOf
    <3>3. Max(S) \in D /\ m >= Max(S) /\ Max(S) >= m
      BY <2>5, <2>6, <3>2
    <3>4. m \in 1..n /\ Max(S) \in 1..n
      BY <2>3, <2>5, <3>3
    <3>. HIDE DEF m
    <3>. QED
      BY <3>3, <3>4
  <2>7. D \ {m} \in SUBSET (1..n) /\ D \ {m} \notin Bad
    BY <2>2, <2>3, <2>5
  <2>8. PICK part : Folds(part, D \ {m})
    BY <2>7
  <2>. DEFINE fold == [S \in SUBSET D |-> IF m \in S THEN step[S][part[S \ {m}]] ELSE part[S]]
  <2>9. DOMAIN fold = SUBSET D /\ fold[{}] = base
    BY <2>8
  <2>10. ASSUME NEW S \in SUBSET D
         PROVE  fold[S] \in Good[S] /\ (S # {} => fold[S] = step[S][fold[S \ {Max(S)}]])
    <3>1. CASE m \in S
      <4>1. Max(S) = m /\ S # {} /\ S \in SUBSET (1..n) /\ S \ {m} \in SUBSET (D \ {m}) /\ S \ {m} \in SUBSET D
        BY <2>3, <2>6, <3>1
      <4>2. part[S \ {m}] \in Good[S \ {m}] /\ fold[S \ {m}] = part[S \ {m}] /\ fold[S] = step[S][part[S \ {m}]]
        BY <2>8, <3>1, <4>1
      <4>. HIDE DEF fold, m
      <4>. QED
        BY <4>1, <4>2
    <3>2. CASE m \notin S
      <4>1. S \in SUBSET (D \ {m}) /\ S \ {Max(S)} \in SUBSET D /\ m \notin S \ {Max(S)}
        BY <3>2
      <4>2. fold[S] = part[S] /\ fold[S \ {Max(S)}] = part[S \ {Max(S)}]
        BY <3>2, <4>1
      <4>3. part[S] \in Good[S] /\ (S # {} => part[S] = step[S][part[S \ {Max(S)}]])
        BY <2>8, <4>1
      <4>. HIDE DEF fold, m
      <4>. QED
        BY <4>2, <4>3
    <3>. QED
      BY <3>1, <3>2
  <2>11. Folds(fold, D)
    <3>. HIDE DEF fold
    <3>. QED
      BY <2>9, <2>10
  <2>. HIDE DEF fold, Folds
  <2>. QED
    BY <2>3, <2>11
<1>2. \E fold : Folds(fold, 1..n)
  BY <1>1
<1>. QED
  BY <1>2 DEF FoldsBy

\* ... and its value is good.
LEMMA FoldGood ==
  ASSUME NEW n \in Nat, NEW Good, NEW fold, fold[{}] \in Good[{}],
         \A S \in SUBSET (1..n) : S # {} => (fold[S \ {Max(S)}] \in Good[S \ {Max(S)}] => fold[S] \in Good[S])
  PROVE  fold[1..n] \in Good[1..n]
PROOF
<1>. DEFINE Bad == {S \in SUBSET (1..n) : fold[S] \notin Good[S]}
<1>. SUFFICES ASSUME Bad # {} PROVE FALSE
  OBVIOUS
<1>1. Bad \in SUBSET (SUBSET (1..n)) /\ IsFiniteSet(1..n)
  BY FS_Interval
<1>2. PICK S \in Bad : \A x \in S : S \ {x} \notin Bad
  <2>. HIDE DEF Bad
  <2>. QED
    BY <1>1, SmallestSubset
<1>3. S # {} /\ S \in SUBSET (1..n)
  BY <1>2
<1>4. Max(S) \in S
  BY <1>3, LargestOf
<1>5. S \ {Max(S)} \in SUBSET (1..n) /\ S \ {Max(S)} \notin Bad
  BY <1>2, <1>3, <1>4
<1>6. fold[S] \notin Good[S]
  BY <1>2
<1>. QED
  BY <1>3, <1>5, <1>6
=============================================================================
