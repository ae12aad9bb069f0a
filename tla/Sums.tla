-------------------------------- MODULE Sums --------------------------------
(* What a sum over a finite set obeys.  The recursive function that          *)
(* SumFunctionOnSet is built from is shown to exist, and the facts the proofs *)
(* need follow by induction on the set.                                      *)
EXTENDS Integers, FiniteSets, Functions, FiniteSetTheorems, WellFoundedInduction, TLAPS

Pick(s) == CHOOSE x \in s : TRUE
Partial(f, S, g) == [s \in SUBSET S |-> IF s = {} THEN 0 ELSE f[Pick(s)] + g[s \ {Pick(s)}]]
Iter(f, S) == CHOOSE g : g = Partial(f, S, g)

\* SumFunctionOnSet takes the elements out one by one.
LEMMA SumIsIter == ASSUME NEW f, NEW S PROVE SumFunctionOnSet(f, S) = Iter(f, S)[S]
  BY DEF SumFunctionOnSet, FoldFunctionOnSet, MapThenFoldSet, Iter, Partial, Pick

\* A set of finite sets that is not empty has a smallest member.
LEMMA Smallest ==
  ASSUME NEW S, IsFiniteSet(S), NEW D, D \subseteq SUBSET S, D # {}
  PROVE \E T \in D : IsFiniteSet(T) /\ \A U \in SUBSET T : U # T => U \notin D
  <1>1. D \subseteq FiniteSubsetsOf(S)
    BY FS_Subset DEF FiniteSubsetsOf
  <1>2. IsWellFoundedOn(StrictSubsetOrdering(S), FiniteSubsetsOf(S))
    BY FS_StrictSubsetOrderingWellFounded
  <1>3. PICK T \in D : \A U \in D : ~(<<U, T>> \in StrictSubsetOrdering(S))
    BY <1>1, <1>2, WFMin
  <1>4. \A U \in D : U \subseteq T => U = T
    BY <1>3 DEF StrictSubsetOrdering
  <1> QED
    BY <1>1, <1>3, <1>4 DEF FiniteSubsetsOf

\* Two functions that solve the recursion agree on every finite set both know.
LEMMA IterUnique ==
  ASSUME NEW f, NEW A, NEW B, NEW g, NEW h, NEW S, IsFiniteSet(S),
         S \subseteq A, S \subseteq B,
         g = Partial(f, A, g), h = Partial(f, B, h)
  PROVE g[S] = h[S]
  <1> DEFINE D == {T \in SUBSET S : g[T] # h[T]}
  <1>0. D \subseteq SUBSET S
    OBVIOUS
  <1>1. ASSUME D # {} PROVE FALSE
    <2> HIDE DEF D
    <2>1. PICK T \in D : IsFiniteSet(T) /\ \A U \in SUBSET T : U # T => U \notin D
      BY <1>0, <1>1, Smallest
    <2>2. /\ g[T] = IF T = {} THEN 0 ELSE f[Pick(T)] + g[T \ {Pick(T)}]
          /\ h[T] = IF T = {} THEN 0 ELSE f[Pick(T)] + h[T \ {Pick(T)}]
      BY <1>0 DEF Partial
    <2>3. ASSUME T # {} PROVE g[T \ {Pick(T)}] = h[T \ {Pick(T)}]
      <3>1. Pick(T) \in T
        BY <2>3 DEF Pick
      <3> QED
        BY <1>0, <2>1, <3>1 DEF D
    <2> QED
      BY <2>1, <2>2, <2>3 DEF D
  <1> QED
    BY <1>1

\* The recursion has a solution on every finite set.
LEMMA IterExists ==
  ASSUME NEW f, NEW S, IsFiniteSet(S)
  PROVE Iter(f, S) = Partial(f, S, Iter(f, S))
  <1> DEFINE Solved(T) == \E g : g = Partial(f, T, g)
             D == {T \in SUBSET S : ~Solved(T)}
  <1>0. D \subseteq SUBSET S
    OBVIOUS
  <1>1. ASSUME D # {} PROVE FALSE
    <2> HIDE DEF D
    <2>1. PICK T \in D : IsFiniteSet(T) /\ \A U \in SUBSET T : U # T => U \notin D
      BY <1>0, <1>1, Smallest
    <2>2. \A U \in SUBSET T : U # T => Iter(f, U) = Partial(f, U, Iter(f, U))
      BY <1>0, <2>1 DEF Iter, D
    <2> DEFINE V(U) == Iter(f, U)[U]
               g == [U \in SUBSET T |-> IF U = {} THEN 0 ELSE f[Pick(U)] + V(U \ {Pick(U)})]
    <2>3. ASSUME NEW U \in SUBSET T, U # {} PROVE g[U \ {Pick(U)}] = V(U \ {Pick(U)})
      <3> DEFINE W == U \ {Pick(U)}
      <3>1. W \in SUBSET T /\ W # T
        BY <2>3 DEF Pick
      <3>2. Iter(f, W) = Partial(f, W, Iter(f, W))
        BY <2>2, <3>1
      <3>3. CASE W = {}
        BY <3>2, <3>3 DEF Partial
      <3>4. CASE W # {}
        <4> DEFINE X == W \ {Pick(W)}
        <4>1. X \in SUBSET W /\ X \in SUBSET T /\ X # T /\ IsFiniteSet(X)
          BY <3>1, <3>4, <2>1, FS_Subset
        <4>2. Iter(f, X) = Partial(f, X, Iter(f, X))
          BY <2>2, <4>1
        <4>3. Iter(f, W)[X] = V(X)
          BY <3>2, <4>1, <4>2, IterUnique
        <4>4. Iter(f, W)[W] = f[Pick(W)] + Iter(f, W)[X]
          BY <3>2, <3>4 DEF Partial
        <4> QED
          BY <3>1, <3>4, <4>3, <4>4
      <3> QED
        BY <3>3, <3>4
    <2>4. g = Partial(f, T, g)
      BY <2>3 DEF Partial
    <2> QED
      BY <2>1, <2>4 DEF D
  <1>2. Solved(S)
    BY <1>1
  <1> QED
    BY <1>2 DEF Iter

\* The sum over no element is zero, and over others the value at the picked one and the
\* sum over the rest.
LEMMA SumUnfold ==
  ASSUME NEW f, NEW S, IsFiniteSet(S)
  PROVE SumFunctionOnSet(f, S) =
          IF S = {} THEN 0 ELSE f[Pick(S)] + SumFunctionOnSet(f, S \ {Pick(S)})
  <1>1. Iter(f, S) = Partial(f, S, Iter(f, S))
    BY IterExists
  <1>2. Iter(f, S)[S] = IF S = {} THEN 0 ELSE f[Pick(S)] + Iter(f, S)[S \ {Pick(S)}]
    BY <1>1 DEF Partial
  <1>3. IsFiniteSet(S \ {Pick(S)})
    BY FS_Subset
  <1>4. Iter(f, S \ {Pick(S)}) = Partial(f, S \ {Pick(S)}, Iter(f, S \ {Pick(S)}))
    BY <1>3, IterExists
  <1>5. Iter(f, S)[S \ {Pick(S)}] = Iter(f, S \ {Pick(S)})[S \ {Pick(S)}]
    BY <1>1, <1>3, <1>4, IterUnique
  <1> QED
    BY <1>2, <1>5, SumIsIter

\* Nothing sums to zero.
LEMMA SumEmpty == \A f : SumFunctionOnSet(f, {}) = 0
  BY SumUnfold, FS_EmptySet

\* A sum of integers is an integer.
LEMMA SumInt ==
  ASSUME NEW S, IsFiniteSet(S), NEW f, \A x \in S : f[x] \in Int
  PROVE SumFunctionOnSet(f, S) \in Int
  <1> DEFINE D == {T \in SUBSET S : SumFunctionOnSet(f, T) \notin Int}
  <1>0. D \subseteq SUBSET S
    OBVIOUS
  <1>1. ASSUME D # {} PROVE FALSE
    <2> HIDE DEF D
    <2>1. PICK T \in D : IsFiniteSet(T) /\ \A U \in SUBSET T : U # T => U \notin D
      BY <1>0, <1>1, Smallest
    <2>2. SumFunctionOnSet(f, T) =
            IF T = {} THEN 0 ELSE f[Pick(T)] + SumFunctionOnSet(f, T \ {Pick(T)})
      BY <2>1, SumUnfold
    <2>3. T # {} => Pick(T) \in T
      BY DEF Pick
    <2>4. T # {} => SumFunctionOnSet(f, T \ {Pick(T)}) \in Int
      BY <1>0, <2>1, <2>3 DEF D
    <2> QED
      BY <1>0, <2>1, <2>2, <2>3, <2>4 DEF D
  <1> QED
    BY <1>1

\* Any element may be taken out first.
LEMMA SumSplit ==
  ASSUME NEW S, IsFiniteSet(S), NEW f, \A x \in S : f[x] \in Int, NEW y \in S
  PROVE SumFunctionOnSet(f, S) = f[y] + SumFunctionOnSet(f, S \ {y})
  <1> DEFINE Sum(T) == SumFunctionOnSet(f, T)
             D == {T \in SUBSET S : \E z \in T : Sum(T) # f[z] + Sum(T \ {z})}
  <1>0. D \subseteq SUBSET S
    OBVIOUS
  <1>2. \A T \in SUBSET S : IsFiniteSet(T) /\ Sum(T) \in Int
    BY FS_Subset, SumInt
  <1> HIDE DEF Sum
  <1>1. ASSUME D # {} PROVE FALSE
    <2> HIDE DEF D
    <2>1. PICK T \in D : IsFiniteSet(T) /\ \A U \in SUBSET T : U # T => U \notin D
      BY <1>0, <1>1, Smallest
    <2>2. PICK z \in T : Sum(T) # f[z] + Sum(T \ {z})
      BY DEF D
    <2> DEFINE p == Pick(T)
    <2>3. p \in T /\ T \in SUBSET S
      BY <1>0 DEF Pick
    <2>4. Sum(T) = f[p] + Sum(T \ {p})
      BY <2>1, <2>3, SumUnfold DEF Sum
    <2> HIDE DEF p
    <2>5. \A U \in SUBSET T : U # T => \A x \in U : Sum(U) = f[x] + Sum(U \ {x})
      BY <2>1, <2>3 DEF D
    <2>6. z # p
      BY <2>2, <2>4
    <2> DEFINE R == (T \ {p}) \ {z}
    <2>7. Sum(T \ {p}) = f[z] + Sum(R)
      BY <2>3, <2>5, <2>6
    <2>8. Sum(T \ {z}) = f[p] + Sum(R)
      <3>1. (T \ {z}) \ {p} = R
        OBVIOUS
      <3>2. Sum(T \ {z}) = f[p] + Sum((T \ {z}) \ {p})
        BY <2>3, <2>5, <2>6
      <3> QED
        BY <3>1, <3>2
    <2>9. f[z] \in Int /\ f[p] \in Int /\ Sum(R) \in Int
      BY <1>2, <2>3
    <2> HIDE DEF R
    <2> QED
      BY <2>2, <2>4, <2>7, <2>8, <2>9
  <1> QED
    BY <1>1 DEF Sum

\* Functions that agree on a set have the same sum over it.
LEMMA SumSame ==
  ASSUME NEW S, IsFiniteSet(S), NEW f, NEW g, \A x \in S : f[x] = g[x]
  PROVE SumFunctionOnSet(f, S) = SumFunctionOnSet(g, S)
  <1> DEFINE D == {T \in SUBSET S : SumFunctionOnSet(f, T) # SumFunctionOnSet(g, T)}
  <1>0. D \subseteq SUBSET S
    OBVIOUS
  <1>1. ASSUME D # {} PROVE FALSE
    <2> HIDE DEF D
    <2>1. PICK T \in D : IsFiniteSet(T) /\ \A U \in SUBSET T : U # T => U \notin D
      BY <1>0, <1>1, Smallest
    <2>2. /\ SumFunctionOnSet(f, T) =
               IF T = {} THEN 0 ELSE f[Pick(T)] + SumFunctionOnSet(f, T \ {Pick(T)})
          /\ SumFunctionOnSet(g, T) =
               IF T = {} THEN 0 ELSE g[Pick(T)] + SumFunctionOnSet(g, T \ {Pick(T)})
      BY <2>1, SumUnfold
    <2>3. T # {} => Pick(T) \in T
      BY DEF Pick
    <2>4. T # {} => SumFunctionOnSet(f, T \ {Pick(T)}) = SumFunctionOnSet(g, T \ {Pick(T)})
      BY <1>0, <2>1, <2>3 DEF D
    <2> QED
      BY <1>0, <2>1, <2>2, <2>3, <2>4 DEF D
  <1> QED
    BY <1>1

\* A change at one element changes the sum by as much.
LEMMA SumUpdate ==
  ASSUME NEW S, IsFiniteSet(S), NEW f, NEW g, NEW y \in S,
         \A x \in S : f[x] \in Int /\ g[x] \in Int,
         \A x \in S \ {y} : f[x] = g[x]
  PROVE SumFunctionOnSet(g, S) = SumFunctionOnSet(f, S) + (g[y] - f[y])
  <1>1. /\ SumFunctionOnSet(f, S) = f[y] + SumFunctionOnSet(f, S \ {y})
        /\ SumFunctionOnSet(g, S) = g[y] + SumFunctionOnSet(g, S \ {y})
    BY SumSplit
  <1>2. IsFiniteSet(S \ {y})
    BY FS_Subset
  <1>3. SumFunctionOnSet(f, S \ {y}) = SumFunctionOnSet(g, S \ {y})
    BY <1>2, SumSame
  <1>4. SumFunctionOnSet(f, S \ {y}) \in Int /\ f[y] \in Int /\ g[y] \in Int
    BY <1>2, SumInt
  <1> QED
    BY <1>1, <1>3, <1>4

\* A new element adds its value.
LEMMA SumAdd ==
  ASSUME NEW S, IsFiniteSet(S), NEW y, y \notin S, NEW f,
         \A x \in S \cup {y} : f[x] \in Int
  PROVE SumFunctionOnSet(f, S \cup {y}) = f[y] + SumFunctionOnSet(f, S)
  <1>1. IsFiniteSet(S \cup {y}) /\ (S \cup {y}) \ {y} = S
    BY FS_AddElement
  <1> QED
    BY <1>1, SumSplit

\* Larger values make a larger sum.
LEMMA SumLe ==
  ASSUME NEW S, IsFiniteSet(S), NEW f, NEW g,
         \A x \in S : f[x] \in Int /\ g[x] \in Int /\ f[x] <= g[x]
  PROVE SumFunctionOnSet(f, S) <= SumFunctionOnSet(g, S)
  <1> DEFINE D == {T \in SUBSET S : ~(SumFunctionOnSet(f, T) <= SumFunctionOnSet(g, T))}
  <1>0. D \subseteq SUBSET S
    OBVIOUS
  <1>1. ASSUME D # {} PROVE FALSE
    <2> HIDE DEF D
    <2>1. PICK T \in D : IsFiniteSet(T) /\ \A U \in SUBSET T : U # T => U \notin D
      BY <1>0, <1>1, Smallest
    <2>2. /\ SumFunctionOnSet(f, T) =
               IF T = {} THEN 0 ELSE f[Pick(T)] + SumFunctionOnSet(f, T \ {Pick(T)})
          /\ SumFunctionOnSet(g, T) =
               IF T = {} THEN 0 ELSE g[Pick(T)] + SumFunctionOnSet(g, T \ {Pick(T)})
      BY <2>1, SumUnfold
    <2>3. T # {} => Pick(T) \in T
      BY DEF Pick
    <2>4. T # {} => SumFunctionOnSet(f, T \ {Pick(T)}) <= SumFunctionOnSet(g, T \ {Pick(T)})
      BY <1>0, <2>1, <2>3 DEF D
    <2>5. /\ SumFunctionOnSet(f, T \ {Pick(T)}) \in Int
          /\ SumFunctionOnSet(g, T \ {Pick(T)}) \in Int
      <3>1. IsFiniteSet(T \ {Pick(T)}) /\ T \ {Pick(T)} \in SUBSET S
        BY <1>0, <2>1, FS_Subset
      <3> QED
        BY <3>1, SumInt
    <2>6. T # {} => /\ f[Pick(T)] \in Int /\ g[Pick(T)] \in Int
                    /\ f[Pick(T)] <= g[Pick(T)]
      BY <1>0, <2>3
    <2>7. T \in SUBSET S /\ ~(SumFunctionOnSet(f, T) <= SumFunctionOnSet(g, T))
      BY DEF D
    <2> QED
      BY <2>2, <2>4, <2>5, <2>6, <2>7
  <1> QED
    BY <1>1

\* The sum of sums is the sum of both.
LEMMA SumPlus ==
  ASSUME NEW S, IsFiniteSet(S), NEW f, NEW g, NEW h,
         \A x \in S : f[x] \in Int /\ g[x] \in Int /\ h[x] = f[x] + g[x]
  PROVE SumFunctionOnSet(h, S) = SumFunctionOnSet(f, S) + SumFunctionOnSet(g, S)
  <1> DEFINE Sum(e, T) == SumFunctionOnSet(e, T)
             D == {T \in SUBSET S : Sum(h, T) # Sum(f, T) + Sum(g, T)}
  <1>1. D \subseteq SUBSET S
    OBVIOUS
  <1>2. ASSUME D # {} PROVE FALSE
    <2> HIDE DEF D
    <2>1. PICK T \in D : IsFiniteSet(T) /\ \A U \in SUBSET T : U # T => U \notin D
      BY <1>1, <1>2, Smallest
    <2>2. /\ Sum(h, T) = IF T = {} THEN 0 ELSE h[Pick(T)] + Sum(h, T \ {Pick(T)})
          /\ Sum(f, T) = IF T = {} THEN 0 ELSE f[Pick(T)] + Sum(f, T \ {Pick(T)})
          /\ Sum(g, T) = IF T = {} THEN 0 ELSE g[Pick(T)] + Sum(g, T \ {Pick(T)})
      BY <2>1, SumUnfold
    <2>3. T # {} => Pick(T) \in T
      BY DEF Pick
    <2>4. T # {} => Sum(h, T \ {Pick(T)}) = Sum(f, T \ {Pick(T)}) + Sum(g, T \ {Pick(T)})
      BY <1>1, <2>1, <2>3 DEF D
    <2>5. Sum(f, T \ {Pick(T)}) \in Int /\ Sum(g, T \ {Pick(T)}) \in Int
      <3>1. IsFiniteSet(T \ {Pick(T)}) /\ T \ {Pick(T)} \in SUBSET S
        BY <1>1, <2>1, FS_Subset
      <3> QED
        BY <3>1, SumInt
    <2>6. T # {} => /\ f[Pick(T)] \in Int /\ g[Pick(T)] \in Int
                    /\ h[Pick(T)] = f[Pick(T)] + g[Pick(T)]
      BY <1>1, <2>3
    <2>7. T \in SUBSET S /\ Sum(h, T) # Sum(f, T) + Sum(g, T)
      BY DEF D
    <2> QED
      BY <2>2, <2>4, <2>5, <2>6, <2>7
  <1> QED
    BY <1>2

\* The sum of nothing but zeros is zero.
LEMMA SumZero ==
  ASSUME NEW S, IsFiniteSet(S), NEW f, \A x \in S : f[x] = 0
  PROVE SumFunctionOnSet(f, S) = 0
  <1> DEFINE D == {T \in SUBSET S : SumFunctionOnSet(f, T) # 0}
  <1>0. D \subseteq SUBSET S
    OBVIOUS
  <1>1. ASSUME D # {} PROVE FALSE
    <2> HIDE DEF D
    <2>1. PICK T \in D : IsFiniteSet(T) /\ \A U \in SUBSET T : U # T => U \notin D
      BY <1>0, <1>1, Smallest
    <2>2. SumFunctionOnSet(f, T) =
            IF T = {} THEN 0 ELSE f[Pick(T)] + SumFunctionOnSet(f, T \ {Pick(T)})
      BY <2>1, SumUnfold
    <2>3. T # {} => Pick(T) \in T
      BY DEF Pick
    <2> QED
      BY <1>0, <2>1, <2>2, <2>3 DEF D
  <1> QED
    BY <1>1

\* A sum of naturals is one.
LEMMA SumNat ==
  ASSUME NEW S, IsFiniteSet(S), NEW f, \A x \in S : f[x] \in Nat
  PROVE SumFunctionOnSet(f, S) \in Nat
  <1> DEFINE zero == [x \in S |-> 0]
  <1>1. SumFunctionOnSet(zero, S) = 0
    BY SumZero
  <1>2. SumFunctionOnSet(zero, S) <= SumFunctionOnSet(f, S)
    <2>1. \A x \in S : zero[x] \in Int /\ f[x] \in Int /\ zero[x] <= f[x]
      OBVIOUS
    <2> QED
      BY <2>1, SumLe
  <1>3. SumFunctionOnSet(f, S) \in Int
    BY SumInt
  <1> QED
    BY <1>1, <1>2, <1>3

\* A sum of naturals over a part is at most the sum over the whole.
LEMMA SumPart ==
  ASSUME NEW T, IsFiniteSet(T), NEW S, S \subseteq T, NEW f, \A x \in T : f[x] \in Nat
  PROVE SumFunctionOnSet(f, S) <= SumFunctionOnSet(f, T)
  <1> DEFINE Sum(U) == SumFunctionOnSet(f, U)
             D == {U \in SUBSET (T \ S) : ~(Sum(S) <= Sum(S \cup U))}
  <1>1. \A U \in SUBSET T : IsFiniteSet(U) /\ Sum(U) \in Nat
    BY FS_Subset, SumNat
  <1>2. IsFiniteSet(T \ S) /\ S \in SUBSET T
    BY FS_Subset
  <1>3. ASSUME D # {} PROVE FALSE
    <2>1. PICK U \in D : IsFiniteSet(U) /\ \A V \in SUBSET U : V # U => V \notin D
      <3> HIDE DEF Sum
      <3>1. D \subseteq SUBSET (T \ S)
        OBVIOUS
      <3> HIDE DEF D
      <3> QED
        BY <1>2, <1>3, <3>1, Smallest
    <2>2. U # {}
      <3>1. Sum(S) \in Nat /\ S \cup {} = S
        BY <1>1, <1>2
      <3> HIDE DEF Sum
      <3> QED
        BY <3>1
    <2>3. PICK y \in U : TRUE
      BY <2>2
    <2> DEFINE V == U \ {y}
    <2>4. Sum(S) <= Sum(S \cup V)
      <3>1. V \in SUBSET (T \ S) /\ V # U /\ V \notin D
        BY <2>1, <2>3
      <3> HIDE DEF Sum, V
      <3> QED
        BY <3>1
    <2>5. Sum((S \cup V) \cup {y}) = f[y] + Sum(S \cup V)
      <3>1. IsFiniteSet(S \cup V) /\ y \notin S \cup V /\ \A x \in (S \cup V) \cup {y} : f[x] \in Int
        BY <1>1, <2>1
      <3> HIDE DEF V
      <3> QED
        BY <3>1, SumAdd
    <2>6. (S \cup V) \cup {y} = S \cup U /\ S \cup V \in SUBSET T /\ y \in T
      BY <2>1
    <2>7. Sum(S \cup V) \in Nat /\ Sum(S) \in Nat /\ f[y] \in Nat
      BY <1>1, <1>2, <2>6
    <2> HIDE DEF Sum, V
    <2>8. Sum(S) <= Sum(S \cup U)
      BY <2>4, <2>5, <2>6, <2>7
    <2>9. ~(Sum(S) <= Sum(S \cup U))
      BY <2>1
    <2> QED
      BY <2>8, <2>9
  <1>4. T \ S \in SUBSET (T \ S) /\ S \cup (T \ S) = T
    OBVIOUS
  <1> HIDE DEF Sum
  <1>5. Sum(S) <= Sum(T)
    BY <1>3, <1>4
  <1> QED
    BY <1>5 DEF Sum

\* Numbers with the other sign have the sum with the other sign.
LEMMA SumMinus ==
  ASSUME NEW S, IsFiniteSet(S), NEW f, NEW g, \A x \in S : f[x] \in Int /\ g[x] = -f[x]
  PROVE SumFunctionOnSet(g, S) = -SumFunctionOnSet(f, S)
  <1> DEFINE zero == [x \in S |-> 0]
  <1>1. SumFunctionOnSet(zero, S) = SumFunctionOnSet(f, S) + SumFunctionOnSet(g, S)
    BY SumPlus
  <1>2. SumFunctionOnSet(zero, S) = 0
    BY SumZero
  <1>3. SumFunctionOnSet(f, S) \in Int /\ SumFunctionOnSet(g, S) \in Int
    BY SumInt
  <1> HIDE DEF zero
  <1> QED
    BY <1>1, <1>2, <1>3

\* The sum of equal numbers is a product.
LEMMA SumEqual ==
  ASSUME NEW S, IsFiniteSet(S), NEW f, NEW c \in Nat, \A x \in S : f[x] = c
  PROVE SumFunctionOnSet(f, S) = c * Cardinality(S)
  <1> DEFINE D == {T \in SUBSET S : SumFunctionOnSet(f, T) # c * Cardinality(T)}
  <1>0. D \subseteq SUBSET S
    OBVIOUS
  <1>1. ASSUME D # {} PROVE FALSE
    <2> HIDE DEF D
    <2>1. PICK T \in D : IsFiniteSet(T) /\ \A U \in SUBSET T : U # T => U \notin D
      BY <1>0, <1>1, Smallest
    <2>2. ASSUME T = {} PROVE FALSE
      <3>1. SumFunctionOnSet(f, T) = 0 /\ Cardinality(T) = 0
        BY <2>2, SumEmpty, FS_EmptySet
      <3> QED
        BY <2>1, <3>1 DEF D
    <2>3. PICK y \in T : TRUE
      BY <2>2
    <2> DEFINE R == T \ {y}
    <2>4. SumFunctionOnSet(f, T) = c + SumFunctionOnSet(f, R)
      <3>1. \A x \in T : f[x] \in Int /\ f[x] = c
        BY <1>0, <2>1
      <3> QED
        BY <2>1, <3>1, SumSplit
    <2>5. SumFunctionOnSet(f, R) = c * Cardinality(R)
      BY <1>0, <2>1, <2>3 DEF D
    <2>6. Cardinality(T) \in Nat /\ Cardinality(R) = Cardinality(T) - 1
      BY <2>1, <2>3, FS_RemoveElement, FS_CardinalityType
    <2> HIDE DEF R
    <2>7. c * Cardinality(T) = c + c * Cardinality(R)
      BY <2>6
    <2> QED
      BY <2>1, <2>4, <2>5, <2>7 DEF D
  <1> QED
    BY <1>1
\* The sum over two sets with no common element is the sum of the sums.
LEMMA SumUnion ==
  ASSUME NEW S, IsFiniteSet(S), NEW T, IsFiniteSet(T), S \cap T = {},
         NEW f, \A x \in S \cup T : f[x] \in Int
  PROVE SumFunctionOnSet(f, S \cup T) = SumFunctionOnSet(f, S) + SumFunctionOnSet(f, T)
  <1> DEFINE Sum(U) == SumFunctionOnSet(f, U)
             D == {U \in SUBSET T : Sum(S \cup U) # Sum(S) + Sum(U)}
  <1>1. \A U \in SUBSET T : /\ IsFiniteSet(U) /\ IsFiniteSet(S \cup U)
                            /\ Sum(U) \in Int /\ Sum(S \cup U) \in Int
    BY FS_Subset, FS_Union, SumInt
  <1>2. Sum(S) \in Int
    BY SumInt
  <1>3. ASSUME D # {} PROVE FALSE
    <2>0. D \subseteq SUBSET T
      OBVIOUS
    <2> HIDE DEF D
    <2>1. PICK U \in D : IsFiniteSet(U) /\ \A V \in SUBSET U : V # U => V \notin D
      BY <2>0, <1>3, Smallest
    <2> USE DEF D
    <2>9. Sum(S \cup U) # Sum(S) + Sum(U)
      BY <2>1
    <2>2. ASSUME U = {} PROVE FALSE
      <3>1. Sum(U) = 0
        BY <2>2, SumEmpty
      <3>2. S \cup U = S
        BY <2>2
      <3>3. Sum(S \cup U) = Sum(S)
        BY <3>2
      <3> HIDE DEF Sum, D
      <3> QED
        BY <3>1, <3>3, <1>2, <2>9
    <2>3. PICK y \in U : TRUE
      BY <2>2
    <2> DEFINE V == U \ {y}
    <2>4. Sum(S \cup V) = Sum(S) + Sum(V)
      <3>1. V \in SUBSET T /\ V \in SUBSET U /\ V # U /\ V \notin D
        BY <2>1, <2>3
      <3> HIDE DEF Sum, V
      <3> QED
        BY <3>1
    <2>5. Sum(S \cup U) = f[y] + Sum(S \cup V)
      <3>1. U \in SUBSET T /\ y \in T /\ y \notin S
        BY <2>1, <2>3
      <3>2. IsFiniteSet(S \cup U)
        BY <1>1, <3>1
      <3>3. (S \cup U) \ {y} = S \cup V
        BY <2>3, <3>1
      <3>4. y \in S \cup U /\ \A x \in S \cup U : f[x] \in Int
        BY <2>3, <3>1
      <3> HIDE DEF V
      <3> QED
        BY <3>2, <3>3, <3>4, SumSplit
    <2>6. Sum(U) = f[y] + Sum(V)
      <3>1. IsFiniteSet(U) /\ \A x \in U : f[x] \in Int
        BY <2>1
      <3> QED
        BY <3>1, <2>3, SumSplit
    <2>7. V \in SUBSET T /\ U \in SUBSET T /\ f[y] \in Int
      BY <2>1, <2>3
    <2>8. Sum(V) \in Int
      BY <1>1, <2>7
    <2> HIDE DEF Sum, V, D
    <2> QED
      BY <1>2, <2>4, <2>5, <2>6, <2>7, <2>8, <2>9
  <1> HIDE DEF Sum
  <1>4. Sum(S \cup T) = Sum(S) + Sum(T)
    BY <1>3
  <1> QED
    BY <1>4 DEF Sum

\* A sum over a part of a sequence is the same where that part starts elsewhere.
LEMMA SumShift ==
  ASSUME NEW n \in Nat, NEW S \in SUBSET (1 .. n), NEW d \in Int, NEW f, NEW g,
         \A x \in S : f[x] \in Int /\ g[x + d] = f[x]
  PROVE SumFunctionOnSet(g, {x + d : x \in S}) = SumFunctionOnSet(f, S)
  <1> DEFINE To(U) == {x + d : x \in U}
             D == {U \in SUBSET S : SumFunctionOnSet(g, To(U)) # SumFunctionOnSet(f, U)}
  <1>1. \A U \in SUBSET S : IsFiniteSet(U) /\ IsFiniteSet(To(U))
    <2> SUFFICES ASSUME NEW U \in SUBSET S PROVE IsFiniteSet(U) /\ IsFiniteSet(To(U))
      OBVIOUS
    <2>1. IsFiniteSet(1 .. n) /\ IsFiniteSet((1 + d) .. (n + d))
      BY FS_Interval
    <2>2. U \subseteq 1 .. n
      OBVIOUS
    <2>3. \A x \in U : x + d \in (1 + d) .. (n + d)
      BY <2>2
    <2>4. To(U) \subseteq (1 + d) .. (n + d)
      BY <2>3
    <2> HIDE DEF To
    <2> QED
      BY <2>1, <2>2, <2>4, FS_Subset
  <1>2. ASSUME D # {} PROVE FALSE
    <2>0. D \subseteq SUBSET S
      OBVIOUS
    <2>00. IsFiniteSet(S)
      BY <1>1
    <2> HIDE DEF D
    <2>1. PICK U \in D : IsFiniteSet(U) /\ \A V \in SUBSET U : V # U => V \notin D
      BY <2>0, <2>00, <1>2, Smallest
    <2> USE DEF D
    <2>2. U # {}
      <3>1. To({}) = {}
        OBVIOUS
      <3> QED
        BY <3>1, <2>1, SumEmpty
    <2>3. PICK y \in U : TRUE
      BY <2>2
    <2> DEFINE V == U \ {y}
    <2>4. SumFunctionOnSet(g, To(V)) = SumFunctionOnSet(f, V)
      <3>1. V \in SUBSET S /\ V \in SUBSET U /\ V # U /\ V \notin D
        BY <2>1, <2>3
      <3> HIDE DEF V, To
      <3> QED
        BY <3>1
    <2>5. SumFunctionOnSet(f, U) = f[y] + SumFunctionOnSet(f, V)
      BY <2>1, <2>3, SumSplit
    <2>6. SumFunctionOnSet(g, To(U)) = g[y + d] + SumFunctionOnSet(g, To(V))
      <3>1. /\ To(U) \ {y + d} = To(V) /\ y + d \in To(U)
            /\ \A z \in To(U) : g[z] \in Int
        <4>1. U \subseteq S
          BY <2>1
        <4>2. \A x \in S : x \in Nat
          OBVIOUS
        <4> HIDE DEF D
        <4>3. U \subseteq Nat /\ y \in Nat
          BY <4>1, <4>2
        <4>4. To(U) \ {y + d} = To(V)
          BY <4>3
        <4> QED
          BY <4>1, <4>4
      <3>2. IsFiniteSet(To(U))
        BY <1>1, <2>1
      <3> HIDE DEF V, To
      <3> QED
        BY <3>1, <3>2, SumSplit
    <2>7. g[y + d] = f[y] /\ SumFunctionOnSet(g, To(U)) # SumFunctionOnSet(f, U)
      BY <2>1, <2>3
    <2> HIDE DEF V, To, D
    <2> QED
      BY <2>4, <2>5, <2>6, <2>7
  <1>3. SumFunctionOnSet(g, To(S)) = SumFunctionOnSet(f, S)
    <2> HIDE DEF To
    <2> QED
      BY <1>2
  <1> QED
    BY <1>3
=============================================================================
