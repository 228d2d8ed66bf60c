---------------------------- MODULE MeasureProofs ----------------------------
(***************************************************************************)
(* From the console to the verdict: the trace is the run, the numbers are  *)
(* what happened, and the two evaluators agree, for every workload, every  *)
(* policy and every interleaving of the lines.                             *)
(***************************************************************************)
EXTENDS Host, GuardProofs, FiniteSetTheorems, SequenceTheorems

-----------------------------------------------------------------------------
(* Least and largest.                                                      *)

\* A set of naturals that is not empty has a least element.
LEMMA LeastOf ==
  ASSUME NEW S, S \subseteq Nat, S # {}
  PROVE  Least(S) \in S /\ \A y \in S : Least(S) <= y
<1> DEFINE Less == {xy \in Nat \X Nat : xy[1] < xy[2]}
<1>1. IsWellFoundedOn(Less, Nat)
  BY NatLessThanWellFounded, Zenon DEF OpToRel
<1>2. PICK x \in S : \A y \in S : <<y, x>> \notin Less
  BY <1>1, WFMin, Zenon
<1>3. ASSUME NEW y \in S PROVE x <= y
  <2>1. x \in Nat /\ y \in Nat /\ ~(<<y, x>> \in Less)
    BY <1>2, Zenon
  <2> QED  BY <2>1, SMT
<1> QED  BY <1>3, Zenon DEF Least

\* A set of naturals up to n that is not empty has a largest element.
LEMMA LargestOf ==
  ASSUME NEW n \in Nat, NEW S, S \subseteq 0..n, S # {}
  PROVE  Largest(S) \in S /\ \A y \in S : y <= Largest(S)
<1> DEFINE T == {y + 1 : y \in S}
<1>1. T \subseteq 1..n + 1 /\ T # {} /\ n + 1 \in Nat
  <2>1. \A y \in S : y \in 0..n
    BY Zenon
  <2>2. \A y \in S : y + 1 \in 1..n + 1
    BY <2>1, SMT
  <2>3. n + 1 \in Nat
    BY SMT
  <2> QED  BY <2>2, <2>3, Zenon
<1>2. PICK i \in T : \A j \in T : j <= i
  <2> HIDE DEF T
  <2> QED  BY <1>1, LastExists
<1>3. PICK x \in S : i = x + 1
  OBVIOUS
<1>4. ASSUME NEW y \in S PROVE x >= y /\ y <= x
  <2>1. y \in 0..n /\ x \in 0..n /\ y + 1 \in T
    BY Zenon
  <2>2. y + 1 <= x + 1
    BY <1>2, <1>3, <2>1, Zenon
  <2> QED  BY <2>1, <2>2, SMT
<1>5. \E z \in S : \A y \in S : z >= y
  BY <1>4, Zenon
<1>6. Largest(S) \in S /\ \A y \in S : Largest(S) >= y
  BY <1>5, Zenon DEF Largest
<1> QED  BY <1>6

-----------------------------------------------------------------------------
(* Sums.                                                                   *)

\* h gives every subset of S the sum of f over it.
SumsUp(h, f, S) ==
  /\ h \in [SUBSET S -> Int] /\ h[{}] = 0
  /\ \A T \in SUBSET S : \A x \in T : h[T] = f[x] + h[T \ {x}]

\* What holds of a subset when it holds of every smaller one holds of all.
LEMMA SubsetInduction ==
  ASSUME NEW S, IsFiniteSet(S), NEW C, C \subseteq SUBSET S,
         \A T \in SUBSET S : (\A U \in SUBSET T : U # T => U \in C) => T \in C
  PROVE  C = SUBSET S
<1> DEFINE n == Cardinality(S)
           D == {k \in 0..n : \A T \in SUBSET S : Cardinality(T) <= k => T \in C}
<1>1. n \in Nat
  BY FS_CardinalityType
<1>2. \A T \in SUBSET S : IsFiniteSet(T) /\ Cardinality(T) \in 0..n
  <2> SUFFICES ASSUME NEW T \in SUBSET S PROVE IsFiniteSet(T) /\ Cardinality(T) \in 0..n
    OBVIOUS
  <2>1. IsFiniteSet(T) /\ Cardinality(T) <= n
    BY FS_Subset, Zenon
  <2>2. Cardinality(T) \in Nat
    BY <2>1, FS_CardinalityType
  <2> HIDE DEF n
  <2> QED  BY <1>1, <2>1, <2>2, SMT
<1>3. ASSUME NEW T \in SUBSET S, NEW U \in SUBSET T, U # T
      PROVE  U \in SUBSET S /\ Cardinality(U) < Cardinality(T)
  <2>1. Cardinality(U) <= Cardinality(T) /\ Cardinality(U) # Cardinality(T)
    BY <1>2, <1>3, FS_Subset, Zenon
  <2>2. Cardinality(U) \in 0..n /\ Cardinality(T) \in 0..n
    BY <1>2, Zenon
  <2> HIDE DEF n
  <2> QED  BY <1>1, <2>1, <2>2, SMT
<1> HIDE DEF n
<1>4. 0 \in D
  <2>1. ASSUME NEW T \in SUBSET S, Cardinality(T) <= 0 PROVE T \in C
    <3>1. ASSUME NEW U \in SUBSET T, U # T PROVE FALSE
      <4>1. Cardinality(U) < Cardinality(T) /\ Cardinality(U) \in 0..n /\ Cardinality(T) \in 0..n
        BY <1>2, <1>3, <3>1, Zenon
      <4> QED  BY <1>1, <2>1, <4>1, SMT
    <3> QED  BY <3>1, Zenon
  <2>2. 0 \in 0..n
    BY <1>1, SMT
  <2> QED  BY <2>1, <2>2, Zenon
<1>5. ASSUME NEW k \in 0..n, k \in D, k + 1 <= n PROVE k + 1 \in D
  <2>1. ASSUME NEW T \in SUBSET S, Cardinality(T) <= k + 1 PROVE T \in C
    <3>1. ASSUME NEW U \in SUBSET T, U # T PROVE U \in C
      <4>1. /\ Cardinality(U) < Cardinality(T) /\ Cardinality(U) \in 0..n
            /\ Cardinality(T) \in 0..n /\ U \in SUBSET S
        BY <1>2, <1>3, <3>1, Zenon
      <4>2. Cardinality(U) <= k
        BY <1>1, <2>1, <4>1, SMT
      <4> QED  BY <1>5, <4>1, <4>2, Zenon
    <3> QED  BY <3>1, Zenon
  <2>2. k + 1 \in 0..n
    BY <1>1, <1>5, SMT
  <2> QED  BY <2>1, <2>2, Zenon
<1>6. D = 0..n
  <2>1. D \subseteq 0..n
    OBVIOUS
  <2> HIDE DEF D
  <2> QED  BY <1>1, <1>4, <1>5, <2>1, UpTo
<1>7. ASSUME NEW T \in SUBSET S PROVE T \in C
  <2>1. Cardinality(T) \in D /\ Cardinality(T) \in 0..n
    BY <1>2, <1>6, Zenon
  <2>2. Cardinality(T) <= Cardinality(T)
    BY <1>1, <2>1, SMT
  <2> QED  BY <2>1, <2>2, Zenon
<1> QED  BY <1>7, Zenon

\* Two sums agree where the summands do.
LEMMA SumUnique ==
  ASSUME NEW f, NEW S, NEW h, SumsUp(h, f, S),
         NEW g, NEW R, NEW k, SumsUp(k, g, R),
         NEW T, IsFiniteSet(T), T \subseteq S, T \subseteq R, \A x \in T : f[x] = g[x]
  PROVE  h[T] = k[T]
<1> DEFINE C == {U \in SUBSET T : h[U] = k[U]}
<1>1. ASSUME NEW U \in SUBSET T, \A W \in SUBSET U : W # U => W \in C PROVE U \in C
  <2>1. CASE U = {}
    BY <2>1, Zenon DEF SumsUp
  <2>2. CASE U # {}
    <3>1. PICK x \in U : TRUE
      BY <2>2
    <3>2. U \in SUBSET S /\ U \in SUBSET R /\ x \in T
      BY Zenon
    <3>3. h[U] = f[x] + h[U \ {x}] /\ k[U] = g[x] + k[U \ {x}]
      BY <3>2, Zenon DEF SumsUp
    <3>4. U \ {x} \in SUBSET U /\ U \ {x} # U
      BY <3>1, Zenon
    <3>5. f[x] = g[x] /\ h[U \ {x}] = k[U \ {x}]
      BY <1>1, <3>2, <3>4, Zenon
    <3>6. h[U] = k[U]
      BY <3>3, <3>5, Zenon
    <3> QED  BY <3>6
  <2> QED  BY <2>1, <2>2
<1>2. C = SUBSET T
  <2>1. C \subseteq SUBSET T
    OBVIOUS
  <2> HIDE DEF C
  <2> QED  BY <1>1, <2>1, SubsetInduction, Zenon
<1> QED  BY <1>2, Zenon

\* The fold of Total has such an h.
Iterates(it, f, S) ==
  it = [s \in SUBSET S |->
          IF s = {} THEN 0
          ELSE f[CHOOSE x \in s : TRUE] + it[s \ {CHOOSE x \in s : TRUE}]]

\* Taking one element at a time sums, whichever element is taken.
LEMMA IteratesSums ==
  ASSUME NEW f, NEW S, IsFiniteSet(S), \A x \in S : f[x] \in Int, NEW it, Iterates(it, f, S)
  PROVE  SumsUp(it, f, S)
<1> DEFINE C == {T \in SUBSET S : it[T] \in Int /\ \A x \in T : it[T] = f[x] + it[T \ {x}]}
<1>1. \A T \in SUBSET S : T # {} =>
        \E c \in T : it[T] = f[c] + it[T \ {c}]
  <2> SUFFICES ASSUME NEW T \in SUBSET S, T # {} PROVE \E c \in T : it[T] = f[c] + it[T \ {c}]
    OBVIOUS
  <2> DEFINE c == CHOOSE x \in T : TRUE
  <2>1. c \in T
    OBVIOUS
  <2>2. it[T] = f[c] + it[T \ {c}]
    BY Zenon DEF Iterates
  <2> HIDE DEF c
  <2> QED  BY <2>1, <2>2
<1>2. it[{}] = 0 /\ DOMAIN it = SUBSET S /\ it = [s \in SUBSET S |-> it[s]]
  BY DEF Iterates
<1>3. {} \in C
  BY <1>2
<1>4. ASSUME NEW T \in SUBSET S, \A U \in SUBSET T : U # T => U \in C
      PROVE  T \in C
  <2>1. CASE T = {}
    BY <1>3, <2>1, Zenon
  <2>2. CASE T # {}
    <3>1. PICK c \in T : it[T] = f[c] + it[T \ {c}]
      BY <1>1, <2>2
    <3>2. T \ {c} \in C /\ f[c] \in Int /\ it[T \ {c}] \in Int
      <4>1. T \ {c} \in C
        BY <1>4, Zenon
      <4> QED  BY <4>1, Zenon
    <3>3. ASSUME NEW x \in T, x # c PROVE it[T] = f[x] + it[T \ {x}]
      <4>1. T \ {x} \in C /\ c \in T \ {x} /\ x \in T \ {c} /\ f[x] \in Int
        <5>1. T \ {x} # T /\ T \ {x} \in SUBSET T
          BY Zenon
        <5> QED  BY <1>4, <3>3, <5>1, Zenon
      <4>2. it[T \ {c}] = f[x] + it[(T \ {c}) \ {x}]
        BY <3>2, <4>1, Zenon
      <4>3. it[T \ {x}] = f[c] + it[(T \ {x}) \ {c}]
        BY <4>1, Zenon
      <4>4. (T \ {c}) \ {x} = (T \ {x}) \ {c}
        BY Zenon
      <4>5. it[(T \ {c}) \ {x}] \in Int
        <5>1. (T \ {c}) \ {x} # T /\ (T \ {c}) \ {x} \in SUBSET T
          BY Zenon
        <5>2. (T \ {c}) \ {x} \in C
          BY <1>4, <5>1, Zenon
        <5> QED  BY <5>2, Zenon
      <4> DEFINE rest == it[(T \ {c}) \ {x}]
      <4>6. it[T \ {c}] = f[x] + rest /\ it[T \ {x}] = f[c] + rest /\ rest \in Int
        BY <4>2, <4>3, <4>4, <4>5, Zenon
      <4> HIDE DEF rest
      <4> QED  BY <3>1, <3>2, <4>1, <4>6, SMT
    <3>4. \A x \in T : it[T] = f[x] + it[T \ {x}]
      BY <3>1, <3>3, Zenon
    <3>5. it[T] \in Int
      BY <3>1, <3>2, SMT
    <3> QED  BY <3>4, <3>5, Zenon
  <2> QED  BY <2>1, <2>2
<1>5. C = SUBSET S
  <2>1. C \subseteq SUBSET S
    OBVIOUS
  <2> HIDE DEF C
  <2> QED  BY <1>4, <2>1, SubsetInduction, Zenon
<1>6. /\ \A T \in SUBSET S : it[T] \in Int
      /\ \A T \in SUBSET S : \A x \in T : it[T] = f[x] + it[T \ {x}]
  BY <1>5, Zenon
<1>7. it \in [SUBSET S -> Int]
  <2> HIDE DEF C
  <2> QED  BY <1>2, <1>6, Zenon
<1> QED  BY <1>2, <1>6, <1>7, Zenon DEF SumsUp

\* The iteration MapThenFoldSet chooses exists over a finite set.
LEMMA IteratesExists ==
  ASSUME NEW f, NEW S, IsFiniteSet(S), \A x \in S : f[x] \in Int
  PROVE  \E it : Iterates(it, f, S)
<1> DEFINE C == {T \in SUBSET S : \E it : Iterates(it, f, T)}
           J(U) == CHOOSE it : Iterates(it, f, U)
           Pick(s) == CHOOSE x \in s : TRUE
<1>1. ASSUME NEW T \in SUBSET S, \A U \in SUBSET T : U # T => U \in C
      PROVE  T \in C
  <2> DEFINE it == [s \in SUBSET T |-> IF s = {} THEN 0
                                       ELSE f[Pick(s)] + J(s \ {Pick(s)})[s \ {Pick(s)}]]
  <2>1. ASSUME NEW U \in SUBSET T, U # T
        PROVE  SumsUp(J(U), f, U) /\ Iterates(J(U), f, U)
    <3>1. Iterates(J(U), f, U)
      BY <1>1, <2>1, Zenon
    <3>2. IsFiniteSet(U) /\ \A x \in U : f[x] \in Int
      BY FS_Subset, Zenon
    <3> HIDE DEF J
    <3> QED  BY <3>1, <3>2, IteratesSums, Zenon
  <2>2. ASSUME NEW U \in SUBSET T, U # T PROVE it[U] = J(U)[U]
    <3>1. CASE U = {}
      <4>1. J(U)[U] = 0
        BY <2>1, <2>2, <3>1, Zenon DEF SumsUp
      <4> QED  BY <3>1, <4>1, Zenon
    <3>2. CASE U # {}
      <4> DEFINE W == U \ {Pick(U)}
      <4>1. it[U] = f[Pick(U)] + J(W)[W]
        BY <3>2, Zenon
      <4>2. J(U)[U] = f[Pick(U)] + J(U)[W]
        <5>1. Iterates(J(U), f, U)
          BY <2>1, <2>2, Zenon
        <5> HIDE DEF J
        <5> QED  BY <3>2, <5>1, Zenon DEF Iterates
      <4>3. J(W)[W] = J(U)[W]
        <5>1. Pick(U) \in U
          BY <3>2, Zenon
        <5> HIDE DEF Pick
        <5>2. W \in SUBSET T /\ W \subseteq U /\ W # T /\ IsFiniteSet(W)
          <6>1. IsFiniteSet(W)
            BY FS_Subset, Zenon
          <6> QED  BY <5>1, <6>1, Zenon
        <5>3. SumsUp(J(W), f, W) /\ SumsUp(J(U), f, U)
          BY <2>1, <2>2, <5>2, Zenon
        <5>4. W \subseteq W /\ \A x \in W : f[x] = f[x]
          BY Zenon
        <5> HIDE DEF J, W
        <5> QED  BY <5>2, <5>3, <5>4, SumUnique, SMT
      <4> QED  BY <4>1, <4>2, <4>3, Zenon
    <3> QED  BY <3>1, <3>2
  <2>3. \A s \in SUBSET T : s # {} => it[s \ {Pick(s)}] = J(s \ {Pick(s)})[s \ {Pick(s)}]
    <3> SUFFICES ASSUME NEW s \in SUBSET T, s # {}
                 PROVE  it[s \ {Pick(s)}] = J(s \ {Pick(s)})[s \ {Pick(s)}]
      OBVIOUS
    <3>1. Pick(s) \in s
      BY Zenon
    <3> HIDE DEF Pick, J, it
    <3> QED  BY <2>2, <3>1, Zenon
  <2>4. it = [s \in SUBSET T |-> IF s = {} THEN 0
                                 ELSE f[Pick(s)] + it[s \ {Pick(s)}]]
    <3> DEFINE Value(s) == IF s = {} THEN 0 ELSE f[Pick(s)] + it[s \ {Pick(s)}]
    <3>1. \A s \in SUBSET T : it[s] = Value(s)
      <4> SUFFICES ASSUME NEW s \in SUBSET T PROVE it[s] = Value(s)
        OBVIOUS
      <4> HIDE DEF Pick, J
      <4> QED  BY <2>3, Zenon
    <3>2. it = [s \in SUBSET T |-> it[s]]
      <4> DEFINE V(s) == IF s = {} THEN 0
                         ELSE f[Pick(s)] + J(s \ {Pick(s)})[s \ {Pick(s)}]
      <4>1. it = [s \in SUBSET T |-> V(s)]
        BY Zenon
      <4> HIDE DEF V, it
      <4> QED  BY <4>1, Zenon
    <3> HIDE DEF it, Value
    <3>3. it = [s \in SUBSET T |-> Value(s)]
      BY <3>1, <3>2, Zenon
    <3> QED  BY <3>3, Zenon DEF Value
  <2>5. Iterates(it, f, T)
    <3> HIDE DEF it
    <3> QED  BY <2>4, Zenon DEF Iterates
  <2> HIDE DEF it
  <2> QED  BY <2>5, Zenon
<1>2. C = SUBSET S
  <2>1. C \subseteq SUBSET S
    OBVIOUS
  <2> HIDE DEF C
  <2> QED  BY <1>1, <2>1, SubsetInduction, Zenon
<1> QED  BY <1>2, Zenon

\* Total is the sum.
LEMMA TotalSums ==
  ASSUME NEW f, IsFiniteSet(DOMAIN f), \A x \in DOMAIN f : f[x] \in Int
  PROVE  \E h : SumsUp(h, f, DOMAIN f) /\ Total(f) = h[DOMAIN f]
<1> DEFINE it == CHOOSE i : Iterates(i, f, DOMAIN f)
<1>1. Iterates(it, f, DOMAIN f)
  BY IteratesExists, Zenon
<1>2. SumsUp(it, f, DOMAIN f)
  <2> HIDE DEF it
  <2> QED  BY <1>1, IteratesSums, Zenon
<1>3. Total(f) = it[DOMAIN f]
  BY Zenon DEF Total, FoldFunction, FoldFunctionOnSet, MapThenFoldSet, Iterates
<1> HIDE DEF it
<1> QED  BY <1>2, <1>3, Zenon

\* The sum of integers is an integer.
LEMMA TotalIsInt ==
  ASSUME NEW f, IsFiniteSet(DOMAIN f), \A x \in DOMAIN f : f[x] \in Int
  PROVE  Total(f) \in Int
<1>1. PICK h : SumsUp(h, f, DOMAIN f) /\ Total(f) = h[DOMAIN f]
  BY TotalSums, Zenon
<1>2. h \in [SUBSET DOMAIN f -> Int]
  BY <1>1, Zenon DEF SumsUp
<1>3. h[DOMAIN f] \in Int
  BY <1>2, Zenon
<1> QED  BY <1>1, <1>3, Zenon

\* The sum of nothing is zero.
LEMMA TotalOfNothing ==
  ASSUME NEW f, DOMAIN f = {}
  PROVE  Total(f) = 0
<1>1. IsFiniteSet(DOMAIN f) /\ \A x \in DOMAIN f : f[x] \in Int
  BY FS_EmptySet, Zenon
<1>2. PICK h : SumsUp(h, f, DOMAIN f) /\ Total(f) = h[DOMAIN f]
  BY <1>1, TotalSums, Zenon
<1> QED  BY <1>2, Zenon DEF SumsUp

\* The sum over one element more.
LEMMA TotalAdds ==
  ASSUME NEW f, NEW g, NEW x, IsFiniteSet(DOMAIN f), x \notin DOMAIN f,
         DOMAIN g = DOMAIN f \cup {x}, \A y \in DOMAIN g : g[y] \in Int,
         \A y \in DOMAIN f : g[y] = f[y]
  PROVE  Total(g) = g[x] + Total(f)
<1>1. IsFiniteSet(DOMAIN g)
  BY FS_AddElement, Zenon
<1>2. \A y \in DOMAIN f : f[y] \in Int
  BY Zenon
<1>3. PICK h : SumsUp(h, f, DOMAIN f) /\ Total(f) = h[DOMAIN f]
  BY <1>2, TotalSums, Zenon
<1>4. PICK k : SumsUp(k, g, DOMAIN g) /\ Total(g) = k[DOMAIN g]
  BY <1>1, TotalSums, Zenon
<1>5. (DOMAIN g) \ {x} = DOMAIN f /\ x \in DOMAIN g /\ DOMAIN f \subseteq DOMAIN g
  BY Zenon
<1>6. k[DOMAIN g] = g[x] + k[(DOMAIN g) \ {x}]
  BY <1>4, <1>5, Zenon DEF SumsUp
<1>7. h[DOMAIN f] = k[DOMAIN f]
  <2>1. DOMAIN f \subseteq DOMAIN f /\ \A y \in DOMAIN f : f[y] = g[y]
    BY Zenon
  <2> QED  BY <1>3, <1>4, <1>5, <2>1, SumUnique, SMT
<1> QED  BY <1>3, <1>4, <1>5, <1>6, <1>7, Zenon

\* The sum of naturals is a natural.
LEMMA TotalIsNat ==
  ASSUME NEW f, IsFiniteSet(DOMAIN f), \A x \in DOMAIN f : f[x] \in Nat
  PROVE  Total(f) \in Nat
<1> DEFINE S == DOMAIN f
<1>1. \A x \in S : f[x] \in Int
  OBVIOUS
<1>2. PICK h : SumsUp(h, f, S) /\ Total(f) = h[S]
  BY <1>1, TotalSums, Zenon
<1> DEFINE C == {T \in SUBSET S : h[T] \in Nat}
<1>3. ASSUME NEW T \in SUBSET S, \A U \in SUBSET T : U # T => U \in C PROVE T \in C
  <2>1. CASE T = {}
    <3>1. h[T] = 0
      BY <1>2, <2>1, Zenon DEF SumsUp
    <3> QED  BY <3>1
  <2>2. CASE T # {}
    <3>1. PICK x \in T : h[T] = f[x] + h[T \ {x}]
      BY <1>2, <2>2, Zenon DEF SumsUp
    <3>2. h[T \ {x}] \in Nat /\ f[x] \in Nat
      <4>1. T \ {x} \in SUBSET T /\ T \ {x} # T
        BY Zenon
      <4> QED  BY <1>3, <4>1, Zenon
    <3>3. h[T] \in Nat
      BY <3>1, <3>2
    <3> QED  BY <3>3
  <2> QED  BY <2>1, <2>2
<1>4. S \in C
  <2>1. C \subseteq SUBSET S
    OBVIOUS
  <2>2. C = SUBSET S
    <3> HIDE DEF C, S
    <3> QED  BY <1>3, <2>1, SubsetInduction, Zenon DEF S
  <2> QED  BY <2>2, Zenon
<1> QED  BY <1>2, <1>4, Zenon

\* The same numbers under other names have the same sum.
LEMMA TotalRenamed ==
  ASSUME NEW f, NEW g, IsFiniteSet(DOMAIN f), \A x \in DOMAIN f : f[x] \in Int,
         NEW b \in [DOMAIN f -> DOMAIN g],
         \A x, y \in DOMAIN f : b[x] = b[y] => x = y,
         \A z \in DOMAIN g : \E x \in DOMAIN f : b[x] = z,
         \A x \in DOMAIN f : g[b[x]] = f[x]
  PROVE  Total(g) = Total(f)
<1> DEFINE S == DOMAIN f
           R == DOMAIN g
           Image(T) == {b[x] : x \in T}
<1>1. Image(S) = R /\ IsFiniteSet(R)
  <2>1. Image(S) = R
    <3>1. \A x \in S : b[x] \in R
      BY Zenon
    <3>2. \A z \in R : \E x \in S : b[x] = z
      BY Zenon
    <3> HIDE DEF R, S
    <3> QED  BY <3>1, <3>2
  <2>2. b \in Surjection(S, R)
    BY Zenon DEF Surjection
  <2>3. IsFiniteSet(R)
    BY <2>2, FS_Surjection, Zenon
  <2> QED  BY <2>1, <2>3
<1>2. ASSUME NEW z \in R PROVE g[z] \in Int
  <2>1. PICK x \in S : b[x] = z
    BY Zenon
  <2>2. g[b[x]] \in Int
    BY <2>1, Zenon
  <2> QED  BY <2>1, <2>2, Zenon
<1>3. PICK h : SumsUp(h, f, S) /\ Total(f) = h[S]
  BY TotalSums, Zenon
<1>4. PICK k : SumsUp(k, g, R) /\ Total(g) = k[R]
  BY <1>1, <1>2, TotalSums, Zenon
<1> DEFINE C == {T \in SUBSET S : k[Image(T)] = h[T]}
<1>5. ASSUME NEW T \in SUBSET S, \A U \in SUBSET T : U # T => U \in C PROVE T \in C
  <2>1. CASE T = {}
    <3>1. Image(T) = {}
      BY <2>1, Zenon
    <3> HIDE DEF Image
    <3>2. k[Image(T)] = h[T]
      BY <1>3, <1>4, <2>1, <3>1, Zenon DEF SumsUp
    <3> QED  BY <3>2, Zenon
  <2>2. CASE T # {}
    <3> PICK x \in T : TRUE
      BY <2>2
    <3>1. h[T] = f[x] + h[T \ {x}]
      BY <1>3, Zenon DEF SumsUp
    <3>2. Image(T) \in SUBSET R /\ b[x] \in Image(T)
      <4>1. \A y \in T : b[y] \in R
        BY Zenon
      <4> HIDE DEF R, S
      <4> QED  BY <4>1
    <3>3. Image(T) \ {b[x]} = Image(T \ {x})
      <4>1. \A y \in T : b[y] = b[x] => y = x
        BY Zenon
      <4> HIDE DEF R, S
      <4> QED  BY <4>1
    <3>4. k[Image(T \ {x})] = h[T \ {x}]
      <4>1. T \ {x} \in SUBSET T /\ T \ {x} # T
        BY Zenon
      <4>2. T \ {x} \in C
        BY <1>5, <4>1, Zenon
      <4> HIDE DEF Image
      <4> QED  BY <4>2, Zenon
    <3> HIDE DEF Image
    <3>5. k[Image(T)] = g[b[x]] + k[Image(T) \ {b[x]}]
      BY <1>4, <3>2, Zenon DEF SumsUp
    <3>6. g[b[x]] = f[x]
      BY Zenon
    <3>7. k[Image(T)] = h[T]
      BY <3>1, <3>3, <3>4, <3>5, <3>6, Zenon
    <3> QED  BY <3>7, Zenon
  <2> QED  BY <2>1, <2>2
<1>6. S \in C
  <2>1. C \subseteq SUBSET S
    OBVIOUS
  <2>2. C = SUBSET S
    <3> HIDE DEF C, S
    <3> QED  BY <1>5, <2>1, SubsetInduction, Zenon DEF S
  <2> QED  BY <2>2, Zenon
<1> QED  BY <1>1, <1>3, <1>4, <1>6, Zenon

-----------------------------------------------------------------------------
(* Elements in order.                                                      *)

\* R orders S.
Orders(R, S) ==
  /\ \A x \in S : <<x, x>> \in R
  /\ \A x, y \in S : <<x, y>> \in R \/ <<y, x>> \in R
  /\ \A x, y \in S : <<x, y>> \in R /\ <<y, x>> \in R => x = y
  /\ \A x, y, z \in S : <<x, y>> \in R /\ <<y, z>> \in R => <<x, z>> \in R

Below(x, S, R) == {y \in S : <<y, x>> \in R}

\* How many elements come up to x, x among them.
LEMMA Ranks ==
  ASSUME NEW S, IsFiniteSet(S), NEW R, Orders(R, S)
  PROVE  /\ Cardinality(S) \in Nat
         /\ \A x \in S : /\ IsFiniteSet(Below(x, S, R))
                         /\ Cardinality(Below(x, S, R)) \in 1..Cardinality(S)
         /\ \A x, y \in S : <<x, y>> \in R /\ x # y =>
              Cardinality(Below(x, S, R)) < Cardinality(Below(y, S, R))
         /\ \A x, y \in S :
              Cardinality(Below(x, S, R)) = Cardinality(Below(y, S, R)) => x = y
<1> DEFINE n == Cardinality(S)
           P(x) == Cardinality(Below(x, S, R))
<1>1. n \in Nat
  BY FS_CardinalityType
<1>2. ASSUME NEW x \in S PROVE IsFiniteSet(Below(x, S, R)) /\ P(x) \in 1..n
  <2>1. Below(x, S, R) \in SUBSET S /\ x \in Below(x, S, R)
    BY Zenon DEF Below, Orders
  <2>2. IsFiniteSet(Below(x, S, R)) /\ P(x) <= n
    BY <2>1, FS_Subset, Zenon
  <2>3. P(x) \in Nat /\ P(x) # 0
    BY <2>1, <2>2, FS_CardinalityType, FS_EmptySet
  <2> HIDE DEF n, P
  <2> QED  BY <1>1, <2>2, <2>3
<1>3. ASSUME NEW x \in S, NEW y \in S, <<x, y>> \in R, x # y PROVE P(x) < P(y)
  <2>1. Below(x, S, R) \in SUBSET Below(y, S, R)
    BY <1>3, Zenon DEF Below, Orders
  <2>2. y \in Below(y, S, R) /\ y \notin Below(x, S, R)
    BY <1>3, Zenon DEF Below, Orders
  <2>3. P(x) <= P(y) /\ P(x) # P(y)
    BY <1>2, <2>1, <2>2, FS_Subset, Zenon
  <2>4. P(x) \in 1..n /\ P(y) \in 1..n
    BY <1>2
  <2> HIDE DEF n, P
  <2> QED  BY <1>1, <2>3, <2>4
<1>4. ASSUME NEW x \in S, NEW y \in S, P(x) = P(y) PROVE x = y
  <2>1. P(x) \in 1..n /\ P(y) \in 1..n
    BY <1>2
  <2>2. x # y => P(x) < P(y) \/ P(y) < P(x)
    BY <1>3, Zenon DEF Orders
  <2> HIDE DEF n, P
  <2> QED  BY <1>1, <1>4, <2>1, <2>2
<1> QED  BY <1>1, <1>2, <1>3, <1>4, Zenon

\* Listed is the list of S in the order R.
Lists(L, S, R) ==
  /\ L \in [1..Cardinality(S) -> S]
  /\ \A x \in S : L[Cardinality(Below(x, S, R))] = x
  /\ \A i \in 1..Cardinality(S) : Cardinality(Below(L[i], S, R)) = i

\* Listed puts every element at its rank.
LEMMA ListedLists ==
  ASSUME NEW S, IsFiniteSet(S), NEW R, Orders(R, S)
  PROVE  Lists(Listed(S, R), S, R)
<1> DEFINE n == Cardinality(S)
           P(x) == Cardinality(Below(x, S, R))
           f == [x \in S |-> P(x)]
           L == Listed(S, R)
<1>1. /\ n \in Nat /\ \A x \in S : P(x) \in 1..n
      /\ \A x, y \in S : P(x) = P(y) => x = y
  BY Ranks, Zenon
<1>2. L = [i \in 1..n |-> CHOOSE x \in S : P(x) = i]
  <2> DEFINE Place == [x \in S |-> Cardinality({y \in S : <<y, x>> \in R})]
  <2>1. L = [i \in 1..n |-> CHOOSE x \in S : Place[x] = i]
    BY Zenon DEF Listed
  <2>2. Place = [x \in S |-> P(x)]
    BY Zenon DEF Below
  <2>3. \A x \in S : Place[x] = P(x)
    <3> HIDE DEF P
    <3> QED  BY <2>2, Zenon
  <2> HIDE DEF Place, P
  <2>4. \A i : (CHOOSE x \in S : Place[x] = i) = (CHOOSE x \in S : P(x) = i)
    <3> SUFFICES ASSUME NEW i PROVE (CHOOSE x \in S : Place[x] = i) = (CHOOSE x \in S : P(x) = i)
      OBVIOUS
    <3>1. \A x : (x \in S /\ Place[x] = i) <=> (x \in S /\ P(x) = i)
      BY <2>3, Zenon
    <3> QED  BY <3>1, Zenon
  <2> DEFINE A(i) == CHOOSE x \in S : Place[x] = i
             B(i) == CHOOSE x \in S : P(x) = i
  <2>5. L = [i \in 1..n |-> A(i)] /\ \A i : A(i) = B(i)
    BY <2>1, <2>4, Zenon
  <2> HIDE DEF A, B, L, n
  <2>6. L = [i \in 1..n |-> B(i)]
    BY <2>5, Zenon
  <2> QED  BY <2>6, Zenon DEF B
<1> HIDE DEF P
<1>3. f \in Injection(S, 1..n)
  <2>1. f \in [S -> 1..n]
    BY <1>1, Zenon
  <2>2. \A x, y \in S : f[x] = f[y] => x = y
    BY <1>1, Zenon
  <2> HIDE DEF f
  <2> QED  BY <2>1, <2>2, Zenon DEF Injection, IsInjective
<1>4. IsFiniteSet(1..n) /\ Cardinality(1..n) = n
  <2> HIDE DEF n
  <2> QED  BY <1>1, FS_Interval
<1>5. f \in Surjection(S, 1..n)
  <2>1. Cardinality(S) = Cardinality(1..n)
    BY <1>4
  <2> HIDE DEF f, n
  <2> QED  BY <1>3, <1>4, <2>1, FS_Injection, Zenon
<1>6. \A i \in 1..n : \E x \in S : P(x) = i
  <2>1. \A i \in 1..n : \E x \in S : f[x] = i
    BY <1>5, Zenon DEF Surjection
  <2> QED  BY <2>1, Zenon
<1>7. ASSUME NEW i \in 1..n PROVE L[i] \in S /\ P(L[i]) = i
  <2>1. L[i] = CHOOSE x \in S : P(x) = i
    BY <1>2, Zenon
  <2> HIDE DEF L
  <2> QED  BY <1>6, <2>1, Zenon
<1>8. L \in [1..n -> S]
  BY <1>2, <1>7, Zenon
<1>9. ASSUME NEW x \in S PROVE L[P(x)] = x
  <2>1. P(x) \in 1..n
    BY <1>1, Zenon
  <2>2. L[P(x)] \in S /\ P(L[P(x)]) = P(x)
    BY <1>7, <2>1, Zenon
  <2> HIDE DEF L
  <2> QED  BY <1>1, <2>2, Zenon
<1> HIDE DEF L, n
<1> QED  BY <1>7, <1>8, <1>9, Zenon DEF Lists, P, n, L

\* b carries S, in the order R, to T, in the order Q.
Carries(b, S, R, T, Q) ==
  /\ IsFiniteSet(S) /\ Orders(R, S) /\ Orders(Q, T)
  /\ b \in [S -> T] /\ \A z \in T : \E x \in S : b[x] = z
  /\ \A x, y \in S : <<x, y>> \in R <=> <<b[x], b[y]>> \in Q

\* Two sets that are ordered alike are listed alike.
LEMMA ListedAlike ==
  ASSUME NEW S, NEW R, NEW T, NEW Q, NEW b, Carries(b, S, R, T, Q)
  PROVE  /\ IsFiniteSet(T) /\ Cardinality(T) = Cardinality(S)
         /\ \A i \in 1..Cardinality(S) : Listed(T, Q)[i] = b[Listed(S, R)[i]]
<1> SUFFICES ASSUME IsFiniteSet(S), Orders(R, S), Orders(Q, T), b \in [S -> T],
                    \A z \in T : \E x \in S : b[x] = z,
                    \A x, y \in S : <<x, y>> \in R <=> <<b[x], b[y]>> \in Q
             PROVE  /\ IsFiniteSet(T) /\ Cardinality(T) = Cardinality(S)
                    /\ \A i \in 1..Cardinality(S) : Listed(T, Q)[i] = b[Listed(S, R)[i]]
  BY Zenon DEF Carries
<1>1. \A x, y \in S : b[x] = b[y] => x = y
  BY Zenon DEF Orders
<1>2. b \in Bijection(S, T)
  BY <1>1, Zenon DEF Bijection, Injection, Surjection, IsInjective
<1>3. IsFiniteSet(T) /\ Cardinality(T) = Cardinality(S)
  BY <1>2, FS_Bijection, Zenon DEF ExistsBijection
<1>4. ASSUME NEW x \in S
      PROVE  Cardinality(Below(b[x], T, Q)) = Cardinality(Below(x, S, R))
  <2> DEFINE c == [y \in Below(x, S, R) |-> b[y]]
  <2>1. c \in [Below(x, S, R) -> Below(b[x], T, Q)]
    BY Zenon DEF Below
  <2>2. \A y, z \in Below(x, S, R) : c[y] = c[z] => y = z
    BY <1>1, Zenon DEF Below
  <2>3. \A z \in Below(b[x], T, Q) : \E y \in Below(x, S, R) : c[y] = z
    <3> SUFFICES ASSUME NEW z \in Below(b[x], T, Q) PROVE \E y \in Below(x, S, R) : c[y] = z
      OBVIOUS
    <3>1. z \in T /\ <<z, b[x]>> \in Q
      BY Zenon DEF Below
    <3>2. PICK y \in S : b[y] = z
      BY <3>1, Zenon
    <3>3. y \in Below(x, S, R)
      BY <3>1, <3>2, Zenon DEF Below
    <3> QED  BY <3>2, <3>3, Zenon
  <2> HIDE DEF c
  <2>4. c \in Bijection(Below(x, S, R), Below(b[x], T, Q))
    BY <2>1, <2>2, <2>3, Zenon DEF Bijection, Injection, Surjection, IsInjective
  <2>5. IsFiniteSet(Below(x, S, R))
    BY Ranks, Zenon
  <2> QED  BY <2>4, <2>5, FS_Bijection, Zenon DEF ExistsBijection
<1>5. Lists(Listed(S, R), S, R) /\ Lists(Listed(T, Q), T, Q)
  BY <1>3, ListedLists, Zenon
<1>6. ASSUME NEW i \in 1..Cardinality(S) PROVE Listed(T, Q)[i] = b[Listed(S, R)[i]]
  <2> DEFINE x == Listed(S, R)[i]
  <2>1. x \in S /\ Cardinality(Below(x, S, R)) = i
    BY <1>5, Zenon DEF Lists
  <2> HIDE DEF x
  <2>2. b[x] \in T /\ Cardinality(Below(b[x], T, Q)) = i
    BY <1>4, <2>1, Zenon
  <2>3. Listed(T, Q)[Cardinality(Below(b[x], T, Q))] = b[x]
    BY <1>5, <2>2, Zenon DEF Lists
  <2> QED  BY <2>2, <2>3, Zenon DEF x
<1> QED  BY <1>3, <1>6, Zenon

-----------------------------------------------------------------------------
(* Rounding.                                                               *)

\* Quotient and remainder.
LEMMA Division ==
  ASSUME NEW a \in Nat, NEW b \in Nat \ {0}
  PROVE  /\ a \div b \in Nat /\ a % b \in 0..b - 1
         /\ a = b * (a \div b) + (a % b)
BY SMT

\* What is rounded is not below zero.
LEMMA RoundIsNat ==
  ASSUME NEW a \in Nat, NEW b \in Nat \ {0}
  PROVE  Round(a, b) \in Nat /\ (a = 0 => Round(a, b) = 0)
<1> DEFINE q == a \div b
           r == a % b
<1>1. q \in Nat /\ r \in 0..b - 1 /\ a = b * q + r
  BY Division
<1>2. Round(a, b) = IF 2 * r > b \/ (2 * r = b /\ q % 2 = 1) THEN q + 1 ELSE q
  BY Zenon DEF Round
<1> HIDE DEF q, r
<1>3. Round(a, b) \in {q, q + 1}
  BY <1>2, Zenon
<1>4. ASSUME a = 0 PROVE q = 0 /\ r = 0
  <2>1. b * q \in Nat /\ (q >= 1 => b * q >= b)
    BY <1>1, SMT
  <2> QED  BY <1>1, <1>4, <2>1, SMT
<1>5. a = 0 => ~(2 * r > b) /\ 2 * r # b
  BY <1>4, SMT
<1>6. a = 0 => Round(a, b) = 0
  BY <1>2, <1>4, <1>5, Zenon
<1> QED  BY <1>1, <1>3, <1>6, SMT

\* Rounding to at most an even number, by the quotient alone.
LEMMA RoundAtMost ==
  ASSUME NEW a \in Nat, NEW b \in Nat \ {0}, NEW n \in {100, 250}
  PROVE  Round(a, b) <= n <=> 2 * a <= (2 * n + 1) * b
<1> DEFINE q == a \div b
           r == a % b
<1>1. q \in Nat /\ r \in 0..b - 1 /\ a = b * q + r
  BY Division
<1>2. Round(a, b) = IF 2 * r > b \/ (2 * r = b /\ q % 2 = 1) THEN q + 1 ELSE q
  BY Zenon DEF Round
<1> HIDE DEF q, r
<1> DEFINE p == b * q
<1>3. /\ p \in Nat
      /\ q = n => p = b * n
      /\ q >= n + 1 => p >= b * (n + 1)
      /\ q <= n - 1 => p <= b * (n - 1)
  BY <1>1, SMT
<1>4. a = p + r
  BY <1>1
<1> HIDE DEF p
<1>5. CASE q <= n - 1
  <2>1. Round(a, b) <= n
    BY <1>1, <1>2, <1>5, SMT
  <2>2. 2 * a <= (2 * n + 1) * b
    BY <1>1, <1>3, <1>4, <1>5, SMT
  <2> QED  BY <2>1, <2>2
<1>6. CASE q >= n + 1
  <2>1. ~(Round(a, b) <= n)
    BY <1>1, <1>2, <1>6, SMT
  <2>2. ~(2 * a <= (2 * n + 1) * b)
    BY <1>1, <1>3, <1>4, <1>6, SMT
  <2> QED  BY <2>1, <2>2
<1>7. CASE q = n
  <2>1. q % 2 = 0
    BY <1>7, SMT
  <2>2. Round(a, b) <= n <=> 2 * r <= b
    BY <1>1, <1>2, <1>7, <2>1, SMT
  <2>3. 2 * a <= (2 * n + 1) * b <=> 2 * r <= b
    BY <1>1, <1>3, <1>4, <1>7, SMT
  <2> QED  BY <2>2, <2>3
<1>8. q <= n - 1 \/ q >= n + 1 \/ q = n
  BY <1>1, SMT
<1> QED  BY <1>5, <1>6, <1>7, <1>8

-----------------------------------------------------------------------------
(* The two evaluators.                                                     *)

KEYS == {"avg_response_time", "avg_turnaround_time", "avg_waiting_time", "throughput"}

Better(k, x, y) == IF k = "throughput" THEN x > y ELSE x < y

\* The best of two numbers.
LEMMA BestOfTwo ==
  ASSUME NEW x \in Nat, NEW y \in Nat, NEW k
  PROVE  BestOf({x, y}, k) = IF Better(k, y, x) THEN y ELSE x
<1>1. Least({x, y}) \in {x, y} /\ \A z \in {x, y} : Least({x, y}) <= z
  BY LeastOf
<1>2. \E z \in {x, y} : \A w \in {x, y} : z >= w
  OBVIOUS
<1>3. Largest({x, y}) \in {x, y} /\ \A z \in {x, y} : Largest({x, y}) >= z
  BY <1>2, Zenon DEF Largest
<1>4. Least({x, y}) = IF y < x THEN y ELSE x
  BY <1>1
<1>5. Largest({x, y}) = IF y > x THEN y ELSE x
  BY <1>3
<1> QED  BY <1>4, <1>5, Zenon DEF BestOf, Better

\* A gap graded against a larger denominator is graded no worse.
LEMMA GradedDown ==
  ASSUME NEW d \in Nat, NEW b \in Nat \ {0}, NEW c \in Nat, b <= c
  PROVE  /\ Rank(Graded(Round(1000 * d, c))) <= Rank(Graded(Round(1000 * d, b)))
         /\ Graded(Round(1000 * d, c)) = "FAIL" => d > 0
<1> DEFINE rb == Round(1000 * d, b)
           rc == Round(1000 * d, c)
<1>1. 1000 * d \in Nat /\ c \in Nat \ {0}
  OBVIOUS
<1>2. rb \in Nat /\ rc \in Nat /\ (1000 * d = 0 => rc = 0)
  BY <1>1, RoundIsNat
<1>3. /\ rb <= 100 <=> 2 * (1000 * d) <= 201 * b
      /\ rc <= 100 <=> 2 * (1000 * d) <= 201 * c
      /\ rb <= 250 <=> 2 * (1000 * d) <= 501 * b
      /\ rc <= 250 <=> 2 * (1000 * d) <= 501 * c
  <2>1. 2 * 100 + 1 = 201 /\ 2 * 250 + 1 = 501 /\ 100 \in {100, 250} /\ 250 \in {100, 250}
    OBVIOUS
  <2> HIDE DEF rb, rc
  <2> QED  BY <1>1, <2>1, RoundAtMost DEF rb, rc
<1> HIDE DEF rb, rc
<1>4. (rb <= 100 => rc <= 100) /\ (rb <= 250 => rc <= 250)
  BY <1>3
<1>5. Rank("SUCCESS") = 0 /\ Rank("NEAR-SUCCESS") = 1 /\ Rank("FAIL") = 2
  BY SMT DEF Rank
<1>6. Rank(Graded(rc)) <= Rank(Graded(rb))
  BY <1>2, <1>4, <1>5, SMT DEF Graded, SUCCESS_REGRET, NEAR_SUCCESS_REGRET
<1>7. d = 0 => Graded(rc) # "FAIL"
  BY <1>2, SMT DEF Graded, SUCCESS_REGRET
<1> QED  BY <1>6, <1>7 DEF rb, rc

\* compute_regret over two runs, of x against y.
RegretOf(x, y, k) ==
  LET best == BestOf(({y} \ {NULL}) \cup {x}, k)
  IN  IF x = NULL \/ {y} \ {NULL} = {} THEN NULL
      ELSE IF best = 0 THEN (IF x = 0 THEN 0 ELSE NULL)
      ELSE Round(1000 * Distance(x, best), best)

\* What either evaluator makes of two runs, the first of them selected.
XvVerdict(v, a, o, target, k) ==
  /\ v.scheduling_algorithm = a.algo /\ v.target_metric = target
  /\ {a.m[k], o.m[k]} \ {NULL} # {} =>
       v.judgment = judge(a.m, k, BestOf({a.m[k], o.m[k]} \ {NULL}, k)).judgment
  /\ {a.m[k], o.m[k]} \ {NULL} = {} => v.judgment = judge(a.m, k, 0).judgment
  /\ v.best_algorithm = BestAlgorithm(<<a, o>>, target)

ToolVerdict(t, a, o, k) ==
  /\ t.target_metric = k
  /\ t.judgment = compute_judgment(RegretOf(a.m[k], o.m[k], k), a.m.starvation_occurred)
  /\ t.best_algorithm = BestAlgorithm(<<a, o>>, k)

\* What the two evaluators make of two runs, the own one first.
LEMMA TwoRuns ==
  ASSUME NEW a, NEW o, o.algo # a.algo, NEW target
  PROVE  /\ XvVerdict(build_xv6_metrics(<<a, o>>, a.algo, target), a, o, target,
                      metric_key(target))
         /\ ToolVerdict(evaluate_run(<<a, o>>, a.algo, target), a, o,
                        resolve_target_metric(target))
<1> DEFINE runs == <<a, o>>
           k == metric_key(target)
           j == resolve_target_metric(target)
           v == build_xv6_metrics(runs, a.algo, target)
           t == evaluate_run(runs, a.algo, target)
<1>1. DOMAIN runs = {1, 2} /\ runs[1] = a /\ runs[2] = o
  OBVIOUS
<1>2. {i \in DOMAIN runs : runs[i].algo = a.algo} = {1}
  <2> HIDE DEF runs
  <2> QED  BY <1>1
<1>3. Least({1}) = 1
  BY LeastOf
<1>4. \A q : ValuesOf(runs, q) = {a.m[q], o.m[q]} \ {NULL}
  <2> HIDE DEF runs
  <2> QED  BY <1>1, Zenon DEF ValuesOf
<1> DEFINE S == {i \in DOMAIN runs : runs[i].algo # a.algo}
           R == {s \in S \X S : s[1] <= s[2]}
           others == AtIndices(runs, S)
<1>5. S = {2} /\ IsFiniteSet(S) /\ Cardinality(S) = 1
  <2>1. S = {2}
    <3> HIDE DEF runs
    <3> QED  BY <1>1
  <2> HIDE DEF S
  <2> QED  BY <2>1, FS_Singleton
<1>6. Listed(S, R) \in [1..1 -> S]
  <2>1. R = {<<2, 2>>}
    BY <1>5
  <2>2. Orders(R, S)
    <3> HIDE DEF R, S
    <3> QED  BY <1>5, <2>1 DEF Orders
  <2> HIDE DEF R, S
  <2>3. Lists(Listed(S, R), S, R)
    BY <1>5, <2>2, ListedLists, Zenon
  <2> QED  BY <1>5, <2>3, Zenon DEF Lists
<1>7. DOMAIN others = {1} /\ others[1] = o /\ others # << >>
  <2>1. others = [n \in DOMAIN Listed(S, R) |-> runs[Listed(S, R)[n]]]
    BY Zenon DEF AtIndices
  <2>2. DOMAIN Listed(S, R) = 1..1 /\ Listed(S, R)[1] \in {2}
    <3> HIDE DEF R, S
    <3> QED  BY <1>5, <1>6
  <2> HIDE DEF others, R, S, runs
  <2>3. DOMAIN others = {1} /\ others[1] = o
    BY <1>1, <2>1, <2>2
  <2>4. DOMAIN << >> = {}
    BY SMT
  <2> QED  BY <2>3, <2>4, Zenon
<1>8. \A q : ValuesOf(others, q) = {o.m[q]} \ {NULL}
  <2> HIDE DEF others
  <2> QED  BY <1>7, Zenon DEF ValuesOf
<1>9. select_primary(runs, a.algo) = a
  <2> HIDE DEF runs
  <2>1. {1} # {}
    OBVIOUS
  <2> QED  BY <1>1, <1>2, <1>3, <2>1, Zenon DEF select_primary
<1> DEFINE top == runs[IF {1} = {} THEN 1 ELSE Least({1})]
           best == IF ValuesOf(runs, k) = {} THEN 0 ELSE BestOf(ValuesOf(runs, k), k)
           verdict_ == judge(top.m, k, best)
<1>10. top = a
  <2> HIDE DEF runs
  <2>1. {1} # {}
    OBVIOUS
  <2> QED  BY <1>1, <1>3, <2>1, Zenon
<1>11. v = [scheduling_algorithm |-> top.algo, metrics |-> top.m, target_metric |-> target,
            judgment |-> verdict_.judgment, regret_score |-> verdict_.regret_score,
            best_algorithm |-> BestAlgorithm(runs, target), comparison |-> runs]
  <2> HIDE DEF runs
  <2> QED  BY <1>2, Zenon DEF build_xv6_metrics
<1>12. /\ v.scheduling_algorithm = a.algo /\ v.target_metric = target
       /\ v.judgment = judge(a.m, k, best).judgment
       /\ v.best_algorithm = BestAlgorithm(runs, target)
  <2> HIDE DEF v, runs, k, best, top
  <2> QED  BY <1>10, <1>11
<1> DEFINE regret == compute_regret(j, a.m[j], others)
           primary == select_primary(runs, a.algo)
           base == IF others = << >> THEN synthetic_rr_baseline(primary.m) ELSE others
           named == BestAlgorithm(IF others = << >> THEN runs \o base ELSE runs, j)
<1>13. t = [scheduling_algorithm |-> a.algo, target_metric |-> j, regret_score |-> regret,
            judgment |-> compute_judgment(regret, a.m.starvation_occurred),
            best_algorithm |-> BestAlgorithm(runs, j)]
  <2> DEFINE others_ == AtIndices(runs, {i \in DOMAIN runs : runs[i].algo # primary.algo})
             base_ == IF others_ = << >> THEN synthetic_rr_baseline(primary.m) ELSE others_
             regret_ == compute_regret(j, primary.m[j], base_)
  <2>1. t = [scheduling_algorithm |-> primary.algo, target_metric |-> j, regret_score |-> regret_,
             judgment |-> compute_judgment(regret_, primary.m.starvation_occurred),
             best_algorithm |-> BestAlgorithm(IF others_ = << >> THEN runs \o base_ ELSE runs, j)]
    <3> HIDE DEF runs
    <3> QED  BY Zenon DEF evaluate_run
  <2>2. primary = a
    BY <1>9
  <2> HIDE DEF primary
  <2>3. others_ = others
    <3> HIDE DEF runs
    <3> QED  BY <2>2, Zenon
  <2> HIDE DEF others_
  <2>4. base_ = others
    <3> HIDE DEF others
    <3> QED  BY <1>7, <2>3, Zenon
  <2> HIDE DEF base_
  <2>5. regret_ = regret
    <3> HIDE DEF others, j
    <3> QED  BY <2>2, <2>4, Zenon
  <2> HIDE DEF regret_, regret, others, j, runs
  <2>6. (IF others_ = << >> THEN runs \o base_ ELSE runs) = runs
    BY <1>7, <2>3, Zenon
  <2> QED  BY <2>1, <2>2, <2>5, <2>6, Zenon
<1>14. /\ t.target_metric = j /\ t.judgment = compute_judgment(regret, a.m.starvation_occurred)
       /\ t.best_algorithm = BestAlgorithm(runs, j)
  <2> HIDE DEF t, runs, regret, j
  <2> QED  BY <1>13
<1>15. regret = RegretOf(a.m[j], o.m[j], j)
  <2> DEFINE vals == ValuesOf(others, j)
             both == BestOf(vals \cup {a.m[j]}, j)
  <2>1. regret = IF a.m[j] = NULL \/ vals = {} THEN NULL
                 ELSE IF both = 0 THEN (IF a.m[j] = 0 THEN 0 ELSE NULL)
                 ELSE Round(1000 * Distance(a.m[j], both), both)
    <3> HIDE DEF others, j
    <3> QED  BY Zenon DEF compute_regret
  <2>2. vals = {o.m[j]} \ {NULL}
    <3> HIDE DEF others, j
    <3> QED  BY <1>8, Zenon
  <2>3. both = BestOf(({o.m[j]} \ {NULL}) \cup {a.m[j]}, j)
    <3> HIDE DEF vals, j
    <3> QED  BY <2>2, Zenon
  <2> DEFINE mine == a.m[j]
             his == o.m[j]
  <2>4. regret = IF mine = NULL \/ {his} \ {NULL} = {} THEN NULL
                 ELSE IF both = 0 THEN (IF mine = 0 THEN 0 ELSE NULL)
                 ELSE Round(1000 * Distance(mine, both), both)
    <3> HIDE DEF vals, regret, both
    <3> QED  BY <2>1, <2>2
  <2>5. both = BestOf(({his} \ {NULL}) \cup {mine}, j)
    BY <2>3
  <2>6. RegretOf(mine, his, j) =
          IF mine = NULL \/ {his} \ {NULL} = {} THEN NULL
          ELSE IF both = 0 THEN (IF mine = 0 THEN 0 ELSE NULL)
          ELSE Round(1000 * Distance(mine, both), both)
    <3> HIDE DEF vals, regret, both, mine, his, j
    <3> QED  BY <2>5, SMT DEF RegretOf
  <2> HIDE DEF vals, regret, both, j
  <2> QED  BY <2>4, <2>6
<1>16. ValuesOf(runs, k) = {a.m[k], o.m[k]} \ {NULL}
  <2> HIDE DEF runs
  <2> QED  BY <1>4, Zenon
<1>17. /\ {a.m[k], o.m[k]} \ {NULL} # {} => best = BestOf({a.m[k], o.m[k]} \ {NULL}, k)
       /\ {a.m[k], o.m[k]} \ {NULL} = {} => best = 0
  <2> HIDE DEF runs, k
  <2> QED  BY <1>16, Zenon
<1>18. /\ {a.m[k], o.m[k]} \ {NULL} # {} =>
             v.judgment = judge(a.m, k, BestOf({a.m[k], o.m[k]} \ {NULL}, k)).judgment
       /\ {a.m[k], o.m[k]} \ {NULL} = {} => v.judgment = judge(a.m, k, 0).judgment
  <2> HIDE DEF v, k, best
  <2> QED  BY <1>12, <1>17, Zenon
<1>19. XvVerdict(v, a, o, target, k)
  <2> HIDE DEF v, k, runs
  <2> QED  BY <1>12, <1>18, Zenon DEF XvVerdict, runs
<1>20. ToolVerdict(t, a, o, j)
  <2> HIDE DEF t, j, runs, regret
  <2> QED  BY <1>14, <1>15, Zenon DEF ToolVerdict, runs
<1> QED  BY <1>19, <1>20, Zenon

\* If the other run is the better one, it is the best algorithm.
LEMMA BestOfTwoRuns ==
  ASSUME NEW a, NEW o, NEW k \in KEYS, a.m[k] \in Nat, o.m[k] \in Nat,
         Better(k, o.m[k], a.m[k])
  PROVE  BestAlgorithm(<<a, o>>, k) = o.algo
<1> DEFINE runs == <<a, o>>
           Value(i) == Compared(runs[i].m, k)
           known == {i \in DOMAIN runs : Value(i) # NULL}
           Beats(i, n) == IF k = "throughput" THEN Value(i) > Value(n) ELSE Value(i) < Value(n)
           choice == CHOOSE i \in known : \A n \in known : ~Beats(n, i) /\ (n < i => Beats(i, n))
<1>1. DOMAIN runs = {1, 2} /\ runs[1] = a /\ runs[2] = o
  OBVIOUS
<1>2. \A m_ : Compared(m_, k) = m_[k]
  BY SMT DEF Compared, COMPARED, KEYS
<1> HIDE DEF runs
<1>3. Value(1) = a.m[k] /\ Value(2) = o.m[k]
  BY <1>1, <1>2, Zenon
<1>4. known = {1, 2}
  <2>1. a.m[k] # NULL /\ o.m[k] # NULL
    BY SMT DEF NULL
  <2> HIDE DEF Value
  <2> QED  BY <1>1, <1>3, <2>1
<1>5. BestAlgorithm(runs, k) = IF known = {} THEN "none" ELSE runs[choice].algo
  BY Zenon DEF BestAlgorithm
<1> HIDE DEF known, Value
<1>6. Beats(2, 1) /\ ~Beats(1, 2) /\ ~Beats(2, 2)
  BY <1>3, SMT DEF Better
<1> HIDE DEF Beats
<1>7. \A n \in known : ~Beats(n, 2) /\ (n < 2 => Beats(2, n))
  BY <1>4, <1>6, SMT
<1>8. choice \in known /\ \A n \in known : ~Beats(n, choice)
  <2>1. 2 \in known
    BY <1>4
  <2> QED  BY <1>7, <2>1, Zenon
<1>9. choice = 2
  <2> HIDE DEF choice
  <2> QED  BY <1>4, <1>6, <1>8, SMT
<1>10. known # {}
  BY <1>4
<1> HIDE DEF choice
<1> QED  BY <1>1, <1>5, <1>9, <1>10, Zenon DEF runs

\* What VerdictsAgree says of the two verdicts v and t.
Agrees(v, t, starved) ==
  (t.judgment # "UNKNOWN" /\ metric_key(v.target_metric) = t.target_metric) =>
    /\ Rank(v.judgment) <= Rank(t.judgment)
    /\ starved => v.judgment = "FAIL" /\ t.judgment = "FAIL"
    /\ (v.judgment = "FAIL" /\ ~starved /\ v.target_metric = t.target_metric)
         => v.best_algorithm # v.scheduling_algorithm /\ v.best_algorithm = t.best_algorithm

\* The heart of VerdictsAgree, for any two runs with numbers for metrics.
LEMMA EvaluatorsAgree ==
  ASSUME NEW a, NEW o, o.algo # a.algo, NEW target,
         MetricNumbers(a.m), MetricNumbers(o.m)
  PROVE  Agrees(build_xv6_metrics(<<a, o>>, a.algo, target),
                evaluate_run(<<a, o>>, a.algo, target), a.m.starvation_occurred)
<1> DEFINE v == build_xv6_metrics(<<a, o>>, a.algo, target)
           t == evaluate_run(<<a, o>>, a.algo, target)
           k == metric_key(target)
           starved == a.m.starvation_occurred
           x == a.m[k]
           y == o.m[k]
<1> SUFFICES ASSUME t.judgment # "UNKNOWN", metric_key(v.target_metric) = t.target_metric
             PROVE  /\ Rank(v.judgment) <= Rank(t.judgment)
                    /\ starved => v.judgment = "FAIL" /\ t.judgment = "FAIL"
                    /\ (v.judgment = "FAIL" /\ ~starved /\ v.target_metric = t.target_metric)
                         => /\ v.best_algorithm # v.scheduling_algorithm
                            /\ v.best_algorithm = t.best_algorithm
  BY Zenon DEF Agrees
<1>1. XvVerdict(v, a, o, target, k) /\ ToolVerdict(t, a, o, resolve_target_metric(target))
  BY TwoRuns, Zenon
<1>2. resolve_target_metric(target) = k
  <2> HIDE DEF v, t
  <2> QED  BY <1>1, Zenon DEF XvVerdict, ToolVerdict
<1>3. ToolVerdict(t, a, o, k)
  BY <1>1, <1>2, Zenon
<1>4. k \in KEYS
  BY SMT DEF metric_key, KEYS
<1>5. x \in Nat \cup {NULL} /\ y \in Nat \cup {NULL} /\ starved \in BOOLEAN
  <2> HIDE DEF k
  <2> QED  BY <1>4, SMT DEF MetricNumbers, KEYS
<1> HIDE DEF v, t, k
<1>6. CASE starved
  <2>1. v.judgment = "FAIL"
    <3>1. \A best : judge(a.m, k, best).judgment = "FAIL"
      BY <1>6, SMT DEF judge, Judged
    <3> QED  BY <1>1, <3>1, Zenon DEF XvVerdict
  <2>2. t.judgment = "FAIL"
    BY <1>3, <1>6, Zenon DEF ToolVerdict, compute_judgment
  <2>3. Rank("FAIL") <= Rank("FAIL")
    BY SMT DEF Rank
  <2> HIDE DEF starved
  <2> QED  BY <1>6, <2>1, <2>2, <2>3, Zenon
<1>7. CASE ~starved
  <2> DEFINE regret == RegretOf(x, y, k)
  <2>1. t.judgment = IF regret = NULL THEN "UNKNOWN" ELSE Graded(regret)
    <3> HIDE DEF regret
    <3> QED  BY <1>3, <1>7, Zenon DEF ToolVerdict, compute_judgment, regret
  <2>2. regret # NULL
    BY <2>1, Zenon
  <2>3. x # NULL /\ y # NULL
    <3> HIDE DEF x, y
    <3> QED  BY <2>2, Zenon DEF RegretOf
  <2>4. x \in Nat /\ y \in Nat
    BY <1>5, <2>3, Zenon
  <2> DEFINE best == BestOf({x, y}, k)
  <2>5. ({y} \ {NULL}) \cup {x} = {x, y} /\ {x, y} \ {NULL} = {x, y} /\ {x, y} # {} /\ {y} \ {NULL} # {}
    <3> HIDE DEF x, y
    <3> QED  BY <2>3
  <2>6. regret = IF best = 0 THEN (IF x = 0 THEN 0 ELSE NULL)
                 ELSE Round(1000 * Distance(x, best), best)
    <3>1. best = BestOf(({y} \ {NULL}) \cup {x}, k)
      <4> HIDE DEF x, y
      <4> QED  BY <2>5, Zenon
    <3> HIDE DEF x, y, best
    <3> QED  BY <2>3, <2>5, <3>1, SMT DEF RegretOf, regret
  <2>7. v.judgment = judge(a.m, k, best).judgment
    <3>1. {x, y} \ {NULL} # {}
      <4> HIDE DEF x, y
      <4> QED  BY <2>5, Zenon
    <3>2. v.judgment = judge(a.m, k, BestOf({x, y} \ {NULL}, k)).judgment
      <4> HIDE DEF v
      <4> QED  BY <1>1, <3>1, Zenon DEF XvVerdict
    <3> HIDE DEF x, y
    <3> QED  BY <2>5, <3>2, Zenon
  <2>8. best = IF Better(k, y, x) THEN y ELSE x
    <3> HIDE DEF x, y
    <3> QED  BY <2>4, BestOfTwo, Zenon
  <2> DEFINE floor == AbsFloor(k)
             d == Distance(x, best)
             denom == IF best > floor THEN best ELSE floor
             delta == Round(1000 * d, denom)
  <2>9. v.judgment = IF k # "throughput" /\ d <= floor THEN "SUCCESS" ELSE Graded(delta)
    <3>1. judge(a.m, k, best) =
            IF k # "throughput" /\ d <= floor THEN Judged("SUCCESS", 0)
            ELSE Judged(Graded(delta), delta)
      <4> HIDE DEF best
      <4> QED  BY <1>7, <2>3, Zenon DEF judge
    <3>2. \A g, r : Judged(g, r).judgment = g
      BY DEF Judged
    <3> HIDE DEF d, floor, delta, best
    <3> QED  BY <2>7, <3>1, <3>2, Zenon
  <2> HIDE DEF x, y, best, regret
  <2>10. best \in Nat /\ d \in Nat /\ floor \in Nat /\ floor > 0
    BY <2>4, <2>8, SMT DEF Distance, AbsFloor
  <2>11. denom \in Nat /\ best <= denom /\ denom > 0
    <3> HIDE DEF floor, d
    <3> QED  BY <2>10, SMT
  <2>12. d > 0 => best = y /\ Better(k, y, x)
    BY <2>4, <2>8, SMT DEF Distance
  <2> HIDE DEF floor, d, denom
  <2>13. Rank("SUCCESS") = 0 /\ \A g : Rank(g) \in Nat
    BY SMT DEF Rank
  <2>14. /\ Rank(v.judgment) <= Rank(t.judgment)
         /\ v.judgment = "FAIL" => d > 0
    <3>1. CASE best = 0
      <4>1. x = 0
        BY <2>2, <2>6, <3>1, Zenon
      <4>2. d = 0
        BY <3>1, <4>1, SMT DEF d, Distance
      <4>3. delta = 0
        <5>1. 1000 * d = 0 /\ 0 \in Nat /\ denom \in Nat \ {0}
          BY <2>11, <4>2, SMT
        <5>2. Round(1000 * d, denom) = 0
          BY <5>1, RoundIsNat, SMT
        <5> QED  BY <5>2
      <4>4. Graded(delta) = "SUCCESS"
        <5> HIDE DEF delta
        <5> QED  BY <4>3, SMT DEF Graded, SUCCESS_REGRET
      <4>5. v.judgment = "SUCCESS"
        BY <2>9, <4>4, Zenon
      <4> QED  BY <2>13, <4>5, SMT
    <3>2. CASE best # 0
      <4>1. t.judgment = Graded(Round(1000 * d, best))
        BY <2>1, <2>2, <2>6, <3>2, Zenon DEF d
      <4>2. /\ Rank(Graded(delta)) <= Rank(Graded(Round(1000 * d, best)))
            /\ Graded(delta) = "FAIL" => d > 0
        <5>1. best \in Nat \ {0}
          BY <2>10, <3>2
        <5>2. /\ Rank(Graded(Round(1000 * d, denom))) <= Rank(Graded(Round(1000 * d, best)))
              /\ Graded(Round(1000 * d, denom)) = "FAIL" => d > 0
          BY <2>10, <2>11, <5>1, GradedDown, SMT
        <5> QED  BY <5>2
      <4> HIDE DEF delta
      <4>3. CASE v.judgment = "SUCCESS"
        BY <2>13, <4>3, SMT
      <4>4. CASE v.judgment = Graded(delta)
        <5> DEFINE u == v.judgment
                   w == t.judgment
        <5>1. u = Graded(delta) /\ w = Graded(Round(1000 * d, best))
          BY <4>1, <4>4
        <5> HIDE DEF u, w
        <5>2. Rank(u) <= Rank(w) /\ (u = "FAIL" => d > 0)
          BY <4>2, <5>1, Zenon
        <5> QED  BY <5>2, Zenon DEF u, w
      <4> QED  BY <2>9, <4>3, <4>4, Zenon
    <3> QED  BY <3>1, <3>2
  <2>15. ASSUME v.judgment = "FAIL", v.target_metric = t.target_metric
         PROVE  v.best_algorithm # v.scheduling_algorithm /\ v.best_algorithm = t.best_algorithm
    <3>1. target = k
      BY <1>1, <1>3, <2>15, Zenon DEF XvVerdict, ToolVerdict
    <3>2. Better(k, y, x)
      BY <2>12, <2>14, <2>15, Zenon
    <3>3. BestAlgorithm(<<a, o>>, k) = o.algo
      <4>1. a.m[k] \in Nat /\ o.m[k] \in Nat /\ Better(k, o.m[k], a.m[k])
        BY <2>4, <3>2 DEF x, y
      <4> QED  BY <1>4, <4>1, BestOfTwoRuns, Zenon
    <3>4. /\ v.best_algorithm = BestAlgorithm(<<a, o>>, k) /\ v.scheduling_algorithm = a.algo
          /\ t.best_algorithm = BestAlgorithm(<<a, o>>, k)
      BY <1>1, <1>3, <3>1, Zenon DEF XvVerdict, ToolVerdict
    <3> QED  BY <3>3, <3>4, Zenon
  <2> QED  BY <1>7, <2>14, <2>15, Zenon
<1> QED  BY <1>6, <1>7

-----------------------------------------------------------------------------
(* The lines of a run.                                                     *)

IsSeq(q) == \E S : q \in Seq(S)

\* r is q and one more line, l.
Grown(r, q, l) ==
  /\ IsSeq(r) /\ DOMAIN r = 1..Len(q) + 1 /\ Len(r) = Len(q) + 1
  /\ \A i \in DOMAIN q : r[i] = q[i]
  /\ r[Len(q) + 1] = l

\* The indices of a sequence.
LEMMA Lengths ==
  ASSUME NEW q, IsSeq(q)
  PROVE  Len(q) \in Nat /\ DOMAIN q = 1..Len(q)
<1>1. PICK S : q \in Seq(S)
  BY DEF IsSeq
<1> QED  BY <1>1

\* What writing no line and one line does to the console.
LEMMA Grows ==
  ASSUME NEW q, IsSeq(q), NEW l
  PROVE  q \o << >> = q /\ Grown(q \o <<l>>, q, l)
<1>1. PICK S : q \in Seq(S)
  BY DEF IsSeq
<1> DEFINE T == S \cup {l}
<1>2. q \in Seq(T) /\ <<l>> \in Seq(T)
  BY <1>1
<1> HIDE DEF T
<1>3. q \o <<l>> \in Seq(T)
  BY <1>2
<1>4. /\ q \o << >> = q /\ DOMAIN (q \o <<l>>) = 1..Len(q) + 1
      /\ Len(q \o <<l>>) = Len(q) + 1 /\ DOMAIN q = 1..Len(q)
  BY <1>2
<1>5. \A i \in DOMAIN q : (q \o <<l>>)[i] = q[i]
  BY <1>2
<1>6. (q \o <<l>>)[Len(q) + 1] = l
  BY <1>2
<1> QED  BY <1>3, <1>4, <1>5, <1>6 DEF Grown, IsSeq

\* The events of a parser's lines.
NAMES == {"DISPATCH", "PREEMPT", "EXIT", "PROC_DEF", "RUN_BEGIN", "RUN_END", "none"}
Event == [event : NAMES, pid : Int, tick : Nat \cup {NULL}, arrival : Int]
TIMED == {"DISPATCH", "PREEMPT", "EXIT"}

\* An event the console may show up to the tick now, in a line of the run.
Sound(e, now) ==
  /\ e \in Event /\ e.tick <= now
  /\ e.event \in TIMED <=> e.tick # NULL
  /\ e.pid \in Task \cup {NULL}
  /\ e.event = "PROC_DEF" => e.pid \in Child /\ e.arrival = Def(e.pid).arrival

\* Two lines of the boot, then lines of the run, in the order of their ticks.
LinesInv(q, now) ==
  /\ Len(q) >= 2
  /\ \A i \in DOMAIN q :
       /\ i >= 3 => Sound(q[i].ev, now)
       /\ i <= 2 => q[i].ev = Ev("DISPATCH", i, 0, NULL)
  /\ \A i, j \in DOMAIN q :
       i < j /\ q[i].ev.tick # NULL /\ q[j].ev.tick # NULL => q[i].ev.tick <= q[j].ev.tick

\* What precedes the run's children.
Before(q, i) == \A j \in 1..i - 1 : q[j].ev.pid \notin Child

Anchor(q, algo, i) ==
  /\ \/ RunBegin \in q[i].words
     \/ AlgoWord(algo) \in q[i].words /\ \E j \in 1..i : Marker \in q[j].words
  /\ Before(q, i)

WordsInv(q, algo, point) ==
  /\ \A i \in DOMAIN q :
       /\ (RunBegin \in q[i].words \/ Marker \in q[i].words) => i >= 3
       /\ RunEnd \in q[i].words => i = Len(q) /\ point = "done"
       /\ RunBegin \in q[i].words => Before(q, i)
  /\ point = "done" => RunEnd \in q[Len(q)].words
  /\ point = "tail" => \E i \in DOMAIN q : Marker \in q[i].words
  /\ point \notin {"begin", "rest", "tail"} => \E i \in DOMAIN q : Anchor(q, algo, i)

\* Where the harness and its children are.
STATES == {"none", "ready", "running", "gate", "pause", "wait", "zombie"}
EARLY == {"begin", "rest", "tail", "switch", "tsync", "edge"}

StateInv ==
  /\ tick \in Nat /\ ran \in Nat /\ cpu \in Task \cup {NULL}
  /\ st \in [Task -> STATES]
  /\ used \in [Child -> Nat] /\ hidden \in [Child -> Nat]
  /\ first \in [Child -> Nat \cup {NULL}] /\ end \in [Child -> Nat \cup {NULL}]
  /\ \A p \in Task : st[p] = "running" <=> cpu = p
  /\ at \in EARLY => \A p \in Child : st[p] = "none"
  /\ at = "pause" => \E p \in Child : st[p] = "none"
  /\ at = "done" => cpu = Harness /\ \A p \in Child : st[p] = "zombie"
  /\ \A i \in DOMAIN console : console[i].ev.pid \in Child => st[console[i].ev.pid] # "none"

\* What the lines q say of a child p at the tick now: on, whether it runs, and for how
\* many ticks r; u and h, its ticks charged and hidden; f and e, its first dispatch
\* and its exit; z, whether it has exited.
EvsOf(q) == [i \in DOMAIN q |-> q[i].ev]
Is(q, i, name, p) == q[i].ev.event = name /\ q[i].ev.pid = p
Open(on, r) == IF on THEN r ELSE 0

ChildInv(q, now, p, on, r, u, h, f, e, z) ==
  /\ f = NULL => /\ u = 0 /\ h = 0 /\ ~on /\ ~z
                 /\ \A i \in DOMAIN q : ~Is(q, i, "DISPATCH", p)
  /\ f # NULL => \E i \in DOMAIN q : /\ Is(q, i, "DISPATCH", p) /\ q[i].ev.tick = f
                                     /\ \A j \in 1..i - 1 : ~Is(q, j, "DISPATCH", p)
  /\ \A i \in DOMAIN q : Is(q, i, "EXIT", p) => z /\ q[i].ev.tick = e
  /\ z => ~on /\ \E i \in DOMAIN q : Is(q, i, "EXIT", p)
  /\ on => \E i \in DOMAIN q :
             /\ Is(q, i, "DISPATCH", p) /\ q[i].ev.tick = now - r
             /\ \A k \in i + 1..Len(q) : q[k].ev.event # "DISPATCH" /\ ~Ends(q[k].ev, p)
  /\ cpu_used(EvsOf(q), p) = u - h - Open(on, r)
  /\ u - h >= Open(on, r)
  /\ f # NULL => u - h <= (IF z THEN e ELSE now) - f

ChildOf(p) ==
  ChildInv(console, tick, p, cpu = p, ran, used[p], hidden[p], first[p], end[p],
           st[p] = "zombie")

ConsoleInv ==
  /\ IsSeq(console)
  /\ LinesInv(console, tick) /\ WordsInv(console, job.algo, at) /\ StateInv
  /\ \A p \in Child : ChildOf(p)

-----------------------------------------------------------------------------
(* One line more, one tick more.                                           *)

\* The fields of an event.
LEMMA EventsOf ==
  ASSUME NEW name \in NAMES, NEW p \in Int, NEW t \in Nat \cup {NULL}, NEW a \in Int
  PROVE  /\ Ev(name, p, t, a) \in Event
         /\ Ev(name, p, t, a).event = name /\ Ev(name, p, t, a).pid = p
         /\ Ev(name, p, t, a).tick = t /\ Ev(name, p, t, a).arrival = a
BY DEF Event, Ev

\* A line at the present tick keeps the lines in order.
LEMMA LinesGrow ==
  ASSUME NEW q, NEW r, NEW l, IsSeq(q), Grown(r, q, l), NEW now \in Nat,
         LinesInv(q, now), Sound(l.ev, now), l.ev.tick \in {NULL, now}
  PROVE  LinesInv(r, now)
<1> DEFINE n == Len(q)
<1>1. n \in Nat /\ DOMAIN q = 1..n
  BY Lengths
<1>2. /\ DOMAIN r = 1..n + 1 /\ Len(r) = n + 1 /\ r[n + 1] = l
      /\ \A i \in 1..n : r[i] = q[i]
  BY <1>1, Zenon DEF Grown
<1>3. n >= 2 /\ n + 1 >= 3 /\ Len(r) >= 2
  <2>1. n >= 2
    BY DEF LinesInv
  <2> HIDE DEF n
  <2> QED  BY <1>1, <1>2, <2>1, SMT
<1>4. \A i \in 1..n + 1 : i \in 1..n \/ i = n + 1
  <2> HIDE DEF n
  <2> QED  BY <1>1, SMT
<1> HIDE DEF n
<1>5. \A i \in 1..n : (i >= 3 => Sound(q[i].ev, now))
                      /\ (i <= 2 => q[i].ev = Ev("DISPATCH", i, 0, NULL))
  BY <1>1, Zenon DEF LinesInv
<1>6. ASSUME NEW i \in DOMAIN r
      PROVE  (i >= 3 => Sound(r[i].ev, now))
             /\ (i <= 2 => r[i].ev = Ev("DISPATCH", i, 0, NULL))
  <2>1. CASE i \in 1..n
    BY <1>2, <1>5, <2>1, Zenon
  <2>2. CASE i = n + 1
    <3>1. ~(i <= 2)
      BY <1>1, <1>3, <2>2, SMT
    <3> QED  BY <1>2, <2>2, <3>1, Zenon
  <2> QED  BY <1>2, <1>4, <2>1, <2>2, Zenon
<1>7. \A i \in 1..n : q[i].ev.tick <= now
  <2> SUFFICES ASSUME NEW i \in 1..n PROVE q[i].ev.tick <= now
    OBVIOUS
  <2>1. CASE i >= 3
    BY <1>5, <2>1, Zenon DEF Sound
  <2>2. CASE ~(i >= 3)
    <3>1. q[i].ev = Ev("DISPATCH", i, 0, NULL)
      <4>1. i <= 2
        BY <1>1, <2>2, SMT
      <4> QED  BY <1>5, <4>1, Zenon
    <3>2. Ev("DISPATCH", i, 0, NULL).tick = 0
      BY DEF Ev
    <3> QED  BY <3>1, <3>2
  <2> QED  BY <2>1, <2>2
<1>8. ASSUME NEW i \in DOMAIN r, NEW j \in DOMAIN r, i < j,
             r[i].ev.tick # NULL, r[j].ev.tick # NULL
      PROVE  r[i].ev.tick <= r[j].ev.tick
  <2>1. i \in 1..n
    BY <1>1, <1>2, <1>8, SMT
  <2>2. CASE j \in 1..n
    <3>1. q[i].ev.tick # NULL /\ q[j].ev.tick # NULL
      BY <1>2, <1>8, <2>1, <2>2, Zenon
    <3>2. q[i].ev.tick <= q[j].ev.tick
      BY <1>1, <1>8, <2>1, <2>2, <3>1, Zenon DEF LinesInv
    <3> QED  BY <1>2, <2>1, <2>2, <3>2, Zenon
  <2>3. CASE j = n + 1
    <3>1. r[j].ev.tick = now
      BY <1>2, <1>8, <2>3, Zenon
    <3>2. r[i].ev.tick <= now
      BY <1>2, <1>7, <2>1, Zenon
    <3> QED  BY <3>1, <3>2
  <2> QED  BY <1>2, <1>4, <2>2, <2>3, Zenon
<1> QED  BY <1>3, <1>6, <1>8, Zenon DEF LinesInv

\* So does a tick.
LEMMA LinesAge ==
  ASSUME NEW q, IsSeq(q), NEW now \in Nat, LinesInv(q, now)
  PROVE  LinesInv(q, now + 1)
<1>1. \A e : Sound(e, now) => Sound(e, now + 1)
  <2> SUFFICES ASSUME NEW e, Sound(e, now) PROVE Sound(e, now + 1)
    OBVIOUS
  <2>1. e.tick \in Nat \cup {NULL} /\ e.tick <= now
    BY DEF Sound, Event
  <2>2. e.tick <= now + 1
    BY <2>1, SMT DEF NULL
  <2> QED  BY <2>2, Zenon DEF Sound
<1> QED  BY <1>1, Zenon DEF LinesInv

\* Slices end where a line ends one.
LEMMA SlicesKept ==
  ASSUME NEW q, NEW r, NEW l, IsSeq(q), Grown(r, q, l), NEW p, ~Ends(l.ev, p)
  PROVE  cpu_used(EvsOf(r), p) = cpu_used(EvsOf(q), p)
<1> DEFINE n == Len(q)
           E == EvsOf(q)
           F == EvsOf(r)
<1>1. n \in Nat /\ DOMAIN q = 1..n
  BY Lengths
<1>2. DOMAIN r = 1..n + 1 /\ r[n + 1] = l /\ \A i \in 1..n : r[i] = q[i]
  BY <1>1, Zenon DEF Grown
<1>3. /\ DOMAIN E = 1..n /\ DOMAIN F = 1..n + 1 /\ F[n + 1] = l.ev
      /\ \A i \in 1..n : F[i] = E[i]
  <2> HIDE DEF n
  <2>1. n + 1 \in 1..n + 1 /\ \A i \in 1..n : i \in 1..n + 1
    BY <1>1, SMT
  <2> QED  BY <1>1, <1>2, <2>1, Zenon DEF EvsOf
<1> HIDE DEF E, F, n
<1>4. \A s \in (1..n) \X (1..n) : \A k \in s[1] + 1..s[2] - 1 : k \in 1..n
  BY <1>1, SMT
<1>5. \A s \in (1..n) \X (1..n) : s \in SlicesOf(E, p) <=> s \in SlicesOf(F, p)
  <2> SUFFICES ASSUME NEW s \in (1..n) \X (1..n) PROVE s \in SlicesOf(E, p) <=> s \in SlicesOf(F, p)
    OBVIOUS
  <2>1. s[1] \in 1..n /\ s[2] \in 1..n
    OBVIOUS
  <2>2. F[s[1]] = E[s[1]] /\ F[s[2]] = E[s[2]] /\ \A k \in s[1] + 1..s[2] - 1 : F[k] = E[k]
    BY <1>3, <1>4, <2>1, Zenon
  <2>3. s \in (1..n + 1) \X (1..n + 1)
    BY <1>1, SMT
  <2> QED  BY <1>3, <2>2, <2>3, Zenon DEF SlicesOf
<1>6. SlicesOf(F, p) \subseteq (1..n) \X (1..n)
  <2> SUFFICES ASSUME NEW s \in SlicesOf(F, p) PROVE s \in (1..n) \X (1..n)
    OBVIOUS
  <2>1. s \in (1..n + 1) \X (1..n + 1) /\ s[1] < s[2] /\ Ends(F[s[2]], p)
    BY <1>3, Zenon DEF SlicesOf
  <2>2. s[2] # n + 1
    BY <1>3, <2>1, Zenon
  <2> QED  BY <1>1, <2>1, <2>2, SMT
<1>7. SlicesOf(F, p) = SlicesOf(E, p)
  <2>1. SlicesOf(E, p) \subseteq (1..n) \X (1..n)
    BY <1>3, Zenon DEF SlicesOf
  <2> QED  BY <1>5, <1>6, <2>1, Zenon
<1>8. \A s \in SlicesOf(E, p) : F[s[2]].tick - F[s[1]].tick = E[s[2]].tick - E[s[1]].tick
  <2> SUFFICES ASSUME NEW s \in SlicesOf(E, p)
               PROVE  F[s[2]].tick - F[s[1]].tick = E[s[2]].tick - E[s[1]].tick
    OBVIOUS
  <2>1. s \in (1..n) \X (1..n)
    BY <1>6, <1>7, Zenon
  <2>2. s[1] \in 1..n /\ s[2] \in 1..n
    BY <2>1
  <2> QED  BY <1>3, <2>2, Zenon
<1> DEFINE A == [s \in SlicesOf(E, p) |-> E[s[2]].tick - E[s[1]].tick]
           B == [s \in SlicesOf(F, p) |-> F[s[2]].tick - F[s[1]].tick]
<1>9. A = B
  BY <1>7, <1>8, Zenon
<1>10. cpu_used(E, p) = Total(A) /\ cpu_used(F, p) = Total(B)
  BY Zenon DEF cpu_used
<1> HIDE DEF A, B
<1> QED  BY <1>9, <1>10, Zenon DEF E, F

\* A console has finitely many slices.
LEMMA SlicesFinite ==
  ASSUME NEW q, IsSeq(q), NEW p
  PROVE  IsFiniteSet(SlicesOf(EvsOf(q), p))
<1>1. Len(q) \in Nat /\ DOMAIN q = 1..Len(q)
  BY Lengths
<1>2. IsFiniteSet(1..Len(q))
  BY <1>1, FS_Interval, SMT
<1>3. IsFiniteSet((1..Len(q)) \X (1..Len(q)))
  BY <1>2, FS_Product, Zenon
<1>4. SlicesOf(EvsOf(q), p) \subseteq (1..Len(q)) \X (1..Len(q))
  BY <1>1, Zenon DEF SlicesOf, EvsOf
<1> QED  BY <1>3, <1>4, FS_Subset, Zenon

\* The ticks of the lines.
LEMMA TicksAreInt ==
  ASSUME NEW q, NEW now, LinesInv(q, now), NEW i \in DOMAIN q, DOMAIN q \subseteq Nat
  PROVE  q[i].ev.tick \in Nat \cup {NULL} /\ q[i].ev.tick \in Int
<1>1. CASE i >= 3
  <2>1. q[i].ev.tick \in Nat \cup {NULL}
    BY <1>1, Zenon DEF LinesInv, Sound, Event
  <2> QED  BY <2>1, SMT DEF NULL
<1>2. CASE ~(i >= 3)
  <2>1. i <= 2
    BY <1>2, SMT
  <2>2. q[i].ev = Ev("DISPATCH", i, 0, NULL)
    BY <2>1, Zenon DEF LinesInv
  <2>3. Ev("DISPATCH", i, 0, NULL).tick = 0
    BY DEF Ev
  <2> QED  BY <2>2, <2>3
<1> QED  BY <1>1, <1>2

\* A line that ends an open slice adds one, of the ticks since its dispatch.
LEMMA SliceAdded ==
  ASSUME NEW q, NEW r, NEW l, IsSeq(q), Grown(r, q, l), NEW now, LinesInv(r, now),
         NEW p, Ends(l.ev, p), NEW i \in DOMAIN q, Is(q, i, "DISPATCH", p),
         \A k \in i + 1..Len(q) : q[k].ev.event # "DISPATCH" /\ ~Ends(q[k].ev, p)
  PROVE  cpu_used(EvsOf(r), p) = (l.ev.tick - q[i].ev.tick) + cpu_used(EvsOf(q), p)
<1> DEFINE n == Len(q)
           E == EvsOf(q)
           F == EvsOf(r)
<1>1. n \in Nat /\ DOMAIN q = 1..n
  BY Lengths
<1>2. DOMAIN r = 1..n + 1 /\ r[n + 1] = l /\ \A k \in 1..n : r[k] = q[k]
  BY <1>1, Zenon DEF Grown
<1>3. /\ DOMAIN E = 1..n /\ DOMAIN F = 1..n + 1 /\ F[n + 1] = l.ev
      /\ \A k \in 1..n : F[k] = E[k] /\ F[k] = q[k].ev
  <2> HIDE DEF n
  <2>1. n + 1 \in 1..n + 1 /\ \A k \in 1..n : k \in 1..n + 1
    BY <1>1, SMT
  <2> QED  BY <1>1, <1>2, <2>1, Zenon DEF EvsOf
<1>4. \A k \in 1..n + 1 : F[k].tick \in Int
  <2> SUFFICES ASSUME NEW k \in 1..n + 1 PROVE F[k].tick \in Int
    OBVIOUS
  <2> HIDE DEF n
  <2>1. k \in DOMAIN r /\ DOMAIN r \subseteq Nat
    BY <1>1, <1>2, SMT
  <2>2. r[k].ev.tick \in Int
    BY <2>1, TicksAreInt, Zenon
  <2> QED  BY <1>3, <2>1, <2>2, Zenon DEF EvsOf
<1>5. /\ i \in 1..n /\ E[i].event = "DISPATCH" /\ E[i].pid = p
      /\ \A k \in i + 1..n : E[k].event # "DISPATCH" /\ ~Ends(E[k], p)
  <2>1. \A k \in i + 1..n : k \in 1..n
    BY <1>1, SMT
  <2> QED  BY <1>1, <1>3, <2>1, Zenon DEF Is
<1> HIDE DEF E, F, n
<1>6. \A s \in (1..n) \X (1..n) : \A k \in s[1] + 1..s[2] - 1 : k \in 1..n
  BY <1>1, SMT
<1>7. \A s \in (1..n) \X (1..n) : s \in SlicesOf(E, p) <=> s \in SlicesOf(F, p)
  <2> SUFFICES ASSUME NEW s \in (1..n) \X (1..n) PROVE s \in SlicesOf(E, p) <=> s \in SlicesOf(F, p)
    OBVIOUS
  <2>1. s[1] \in 1..n /\ s[2] \in 1..n
    OBVIOUS
  <2>2. F[s[1]] = E[s[1]] /\ F[s[2]] = E[s[2]] /\ \A k \in s[1] + 1..s[2] - 1 : F[k] = E[k]
    BY <1>3, <1>6, <2>1, Zenon
  <2>3. s \in (1..n + 1) \X (1..n + 1)
    BY <1>1, SMT
  <2> QED  BY <1>3, <2>2, <2>3, Zenon DEF SlicesOf
<1> DEFINE new == <<i, n + 1>>
<1>8. new \in SlicesOf(F, p)
  <2>1. new \in (1..n + 1) \X (1..n + 1) /\ new[1] = i /\ new[2] = n + 1 /\ i < n + 1
    BY <1>1, <1>5, SMT
  <2>2. \A k \in i + 1..(n + 1) - 1 : F[k].event # "DISPATCH" /\ ~Ends(F[k], p)
    <3>1. \A k \in i + 1..(n + 1) - 1 : k \in i + 1..n /\ k \in 1..n
      BY <1>1, <1>5, SMT
    <3> QED  BY <1>3, <1>5, <3>1, Zenon
  <2>3. F[i].event = "DISPATCH" /\ F[i].pid = p /\ Ends(F[n + 1], p)
    BY <1>3, <1>5, Zenon
  <2> HIDE DEF new
  <2> QED  BY <1>3, <2>1, <2>2, <2>3, Zenon DEF SlicesOf
<1>9. ASSUME NEW s \in SlicesOf(F, p), s \notin (1..n) \X (1..n) PROVE s = new
  <2>1. /\ s \in (1..n + 1) \X (1..n + 1) /\ s[1] < s[2]
        /\ F[s[1]].event = "DISPATCH" /\ F[s[1]].pid = p
        /\ \A k \in s[1] + 1..s[2] - 1 : F[k].event # "DISPATCH" /\ ~Ends(F[k], p)
    BY <1>3, Zenon DEF SlicesOf
  <2>2. s[2] = n + 1 /\ s[1] \in 1..n
    BY <1>1, <1>9, <2>1, SMT
  <2>3. ~(s[1] < i)
    <3>1. s[1] < i => i \in s[1] + 1..s[2] - 1
      BY <1>1, <1>5, <2>2, SMT
    <3> QED  BY <1>3, <1>5, <2>1, <3>1, Zenon
  <2>4. ~(s[1] > i)
    <3>1. s[1] > i => s[1] \in i + 1..n
      BY <1>1, <1>5, <2>2, SMT
    <3> QED  BY <1>3, <1>5, <2>1, <2>2, <3>1, Zenon
  <2>5. s[1] = i
    BY <1>1, <1>5, <2>2, <2>3, <2>4, SMT
  <2> QED  BY <2>1, <2>2, <2>5
<1>10. SlicesOf(F, p) = SlicesOf(E, p) \cup {new} /\ new \notin SlicesOf(E, p)
  <2>1. SlicesOf(E, p) \subseteq (1..n) \X (1..n)
    BY <1>3, Zenon DEF SlicesOf
  <2>2. new \notin (1..n) \X (1..n)
    BY <1>1, SMT
  <2> HIDE DEF new
  <2> QED  BY <1>7, <1>8, <1>9, <2>1, <2>2, Zenon
<1> DEFINE A == [s \in SlicesOf(E, p) |-> E[s[2]].tick - E[s[1]].tick]
           B == [s \in SlicesOf(F, p) |-> F[s[2]].tick - F[s[1]].tick]
<1>11. Total(B) = B[new] + Total(A)
  <2>1. IsFiniteSet(DOMAIN A)
    BY SlicesFinite, Zenon DEF E
  <2>2. DOMAIN B = DOMAIN A \cup {new} /\ new \notin DOMAIN A
    BY <1>10, Zenon
  <2>3. \A s \in DOMAIN B : B[s] \in Int
    <3> SUFFICES ASSUME NEW s \in SlicesOf(F, p) PROVE F[s[2]].tick - F[s[1]].tick \in Int
      BY Zenon
    <3>1. s[1] \in 1..n + 1 /\ s[2] \in 1..n + 1
      <4>1. s \in (1..n + 1) \X (1..n + 1)
        BY <1>3, Zenon DEF SlicesOf
      <4> QED  BY <4>1
    <3>2. F[s[1]].tick \in Int /\ F[s[2]].tick \in Int
      BY <1>4, <3>1, Zenon
    <3> QED  BY <3>2, SMT
  <2>4. \A s \in DOMAIN A : B[s] = A[s]
    <3> SUFFICES ASSUME NEW s \in SlicesOf(E, p)
                 PROVE  F[s[2]].tick - F[s[1]].tick = E[s[2]].tick - E[s[1]].tick
      BY <1>10, Zenon
    <3>1. s[1] \in 1..n /\ s[2] \in 1..n
      <4>1. s \in (1..n) \X (1..n)
        BY <1>3, Zenon DEF SlicesOf
      <4> QED  BY <4>1
    <3> QED  BY <1>3, <3>1, Zenon
  <2> HIDE DEF A, B, new
  <2> QED  BY <2>1, <2>2, <2>3, <2>4, TotalAdds, Zenon
<1>12. B[new] = l.ev.tick - q[i].ev.tick
  <2>1. new[1] = i /\ new[2] = n + 1
    OBVIOUS
  <2>2. B[new] = F[new[2]].tick - F[new[1]].tick
    <3> HIDE DEF new
    <3> QED  BY <1>8, Zenon
  <2>3. F[n + 1] = l.ev /\ F[i] = q[i].ev
    BY <1>3, <1>5, Zenon
  <2> HIDE DEF new, B
  <2> QED  BY <2>1, <2>2, <2>3, Zenon
<1>13. cpu_used(E, p) = Total(A) /\ cpu_used(F, p) = Total(B)
  BY Zenon DEF cpu_used
<1> HIDE DEF A, B, new
<1> QED  BY <1>11, <1>12, <1>13, Zenon DEF E, F

\* What a child's line says does not change while it does nothing but run or wait.
LEMMA ChildAges ==
  ASSUME NEW q, NEW now \in Nat, NEW p, NEW on \in BOOLEAN, NEW r \in Nat, NEW u \in Nat,
         NEW h \in Nat, NEW f \in Nat \cup {NULL}, NEW e, NEW z \in BOOLEAN,
         ChildInv(q, now, p, on, r, u, h, f, e, z)
  PROVE  ChildInv(q, now + 1, p, on, r + 1, IF on THEN u + 1 ELSE u, h, f, e, z)
<1> DEFINE v == IF on THEN u + 1 ELSE u
<1>1. on => f # NULL /\ ~z
  BY Zenon DEF ChildInv
<1>2. (now + 1) - (r + 1) = now - r
  BY SMT
<1>3. v - h - Open(on, r + 1) = u - h - Open(on, r)
  BY SMT DEF Open
<1>4. u - h >= Open(on, r) => v - h >= Open(on, r + 1)
  BY SMT DEF Open
<1>5. f # NULL /\ u - h <= (IF z THEN e ELSE now) - f =>
        v - h <= (IF z THEN e ELSE now + 1) - f
  <2>1. CASE z
    BY <1>1, <2>1, Zenon
  <2>2. CASE ~z
    BY <2>2, SMT
  <2> QED  BY <2>1, <2>2
<1>6. f = NULL => v = u
  BY <1>1, Zenon
<1> HIDE DEF v
<1>7. /\ f = NULL => /\ v = 0 /\ h = 0 /\ ~on /\ ~z
                     /\ \A i \in DOMAIN q : ~Is(q, i, "DISPATCH", p)
      /\ f # NULL => v - h <= (IF z THEN e ELSE now + 1) - f
      /\ v - h >= Open(on, r + 1)
      /\ cpu_used(EvsOf(q), p) = v - h - Open(on, r + 1)
  BY <1>3, <1>4, <1>5, <1>6, Zenon DEF ChildInv
<1>8. on => \E i \in DOMAIN q :
              /\ Is(q, i, "DISPATCH", p) /\ q[i].ev.tick = (now + 1) - (r + 1)
              /\ \A k \in i + 1..Len(q) : q[k].ev.event # "DISPATCH" /\ ~Ends(q[k].ev, p)
  BY <1>2, Zenon DEF ChildInv
<1> QED  BY <1>7, <1>8, Zenon DEF ChildInv, v

\* How long it last ran is of no interest once it has stopped.
LEMMA ChildOff ==
  ASSUME NEW q, NEW now, NEW p, NEW r, NEW s, NEW u, NEW h, NEW f, NEW e, NEW z
  PROVE  ChildInv(q, now, p, FALSE, r, u, h, f, e, z) =>
           ChildInv(q, now, p, FALSE, s, u, h, f, e, z)
BY Zenon DEF ChildInv, Open

\* A line about another process or of the harness.
LEMMA ChildElse ==
  ASSUME NEW q, NEW r, NEW l, IsSeq(q), Grown(r, q, l), NEW now, NEW p, NEW on \in BOOLEAN,
         NEW d, NEW u, NEW h, NEW f, NEW e, NEW z, ChildInv(q, now, p, on, d, u, h, f, e, z),
         l.ev.pid # p \/ l.ev.event \notin TIMED, on => l.ev.event # "DISPATCH"
  PROVE  ChildInv(r, now, p, on, d, u, h, f, e, z)
<1> DEFINE n == Len(q)
<1>1. n \in Nat /\ DOMAIN q = 1..n
  BY Lengths
<1>2. /\ DOMAIN r = 1..n + 1 /\ Len(r) = n + 1 /\ r[n + 1] = l
      /\ \A k \in 1..n : r[k] = q[k]
  BY <1>1, Zenon DEF Grown
<1>3. /\ \A k \in 1..n + 1 : k \in 1..n \/ k = n + 1
      /\ \A k \in 1..n : k \in 1..n + 1 /\ \A j \in 1..k - 1 : j \in 1..n
      /\ \A i \in 1..n : \A k \in i + 1..n + 1 : k \in i + 1..n \/ k = n + 1
      /\ \A i \in 1..n : \A k \in i + 1..n : k \in 1..n
  <2> HIDE DEF n
  <2> QED  BY <1>1, SMT
<1> HIDE DEF n
<1>4. ~Ends(l.ev, p) /\ (l.ev.event = "DISPATCH" => l.ev.pid # p)
      /\ (l.ev.event = "EXIT" => l.ev.pid # p)
  BY SMT DEF Ends, TIMED
<1>5. ~Is(r, n + 1, "DISPATCH", p) /\ ~Is(r, n + 1, "EXIT", p)
  BY <1>2, <1>4, Zenon DEF Is
<1>6. \A i \in 1..n : \A name : Is(r, i, name, p) <=> Is(q, i, name, p)
  BY <1>2, Zenon DEF Is
<1>7. cpu_used(EvsOf(r), p) = cpu_used(EvsOf(q), p)
  BY <1>4, SlicesKept, SMT
<1>8. f = NULL => /\ u = 0 /\ h = 0 /\ ~on /\ ~z
                  /\ \A i \in DOMAIN r : ~Is(r, i, "DISPATCH", p)
  BY <1>1, <1>2, <1>3, <1>5, <1>6, Zenon DEF ChildInv
<1>9. ASSUME f # NULL
      PROVE  \E i \in DOMAIN r : /\ Is(r, i, "DISPATCH", p) /\ r[i].ev.tick = f
                                 /\ \A j \in 1..i - 1 : ~Is(r, j, "DISPATCH", p)
  <2>1. PICK i \in 1..n : /\ Is(q, i, "DISPATCH", p) /\ q[i].ev.tick = f
                          /\ \A j \in 1..i - 1 : ~Is(q, j, "DISPATCH", p)
    BY <1>1, <1>9, Zenon DEF ChildInv
  <2> QED  BY <1>2, <1>3, <1>6, <2>1, Zenon
<1>10. \A i \in DOMAIN r : Is(r, i, "EXIT", p) => z /\ r[i].ev.tick = e
  <2> SUFFICES ASSUME NEW i \in 1..n + 1, Is(r, i, "EXIT", p) PROVE z /\ r[i].ev.tick = e
    BY <1>2, Zenon
  <2>1. i \in 1..n
    BY <1>3, <1>5, Zenon
  <2> QED  BY <1>1, <1>2, <1>6, <2>1, Zenon DEF ChildInv
<1>11. z => ~on /\ \E i \in DOMAIN r : Is(r, i, "EXIT", p)
  BY <1>1, <1>2, <1>3, <1>6, Zenon DEF ChildInv
<1>12. ASSUME on
       PROVE  \E i \in DOMAIN r :
                /\ Is(r, i, "DISPATCH", p) /\ r[i].ev.tick = now - d
                /\ \A k \in i + 1..Len(r) : r[k].ev.event # "DISPATCH" /\ ~Ends(r[k].ev, p)
  <2>1. PICK i \in 1..n :
          /\ Is(q, i, "DISPATCH", p) /\ q[i].ev.tick = now - d
          /\ \A k \in i + 1..n : q[k].ev.event # "DISPATCH" /\ ~Ends(q[k].ev, p)
    BY <1>1, <1>12, Zenon DEF ChildInv, n
  <2>2. i \in DOMAIN r /\ Is(r, i, "DISPATCH", p) /\ r[i].ev.tick = now - d
    BY <1>2, <1>3, <1>6, <2>1, Zenon
  <2>3. ASSUME NEW k \in i + 1..n + 1 PROVE r[k].ev.event # "DISPATCH" /\ ~Ends(r[k].ev, p)
    <3>1. CASE k \in i + 1..n
      BY <1>2, <1>3, <2>1, <3>1, Zenon
    <3>2. CASE k = n + 1
      BY <1>2, <1>4, <1>12, <3>2, Zenon
    <3> QED  BY <1>3, <2>1, <3>1, <3>2, Zenon
  <2> QED  BY <1>2, <2>2, <2>3, Zenon
<1>13. /\ cpu_used(EvsOf(r), p) = u - h - Open(on, d) /\ u - h >= Open(on, d)
       /\ f # NULL => u - h <= (IF z THEN e ELSE now) - f
  BY <1>7, Zenon DEF ChildInv
<1> QED  BY <1>8, <1>9, <1>10, <1>11, <1>12, <1>13, Zenon DEF ChildInv

\* A child is dispatched.
LEMMA ChildDispatched ==
  ASSUME NEW q, NEW r, NEW l, IsSeq(q), Grown(r, q, l), NEW now \in Nat, NEW p, NEW d,
         NEW u \in Nat, NEW h \in Nat, NEW f \in Nat \cup {NULL}, NEW e,
         ChildInv(q, now, p, FALSE, d, u, h, f, e, FALSE),
         l.ev = Ev("DISPATCH", p, now, NULL)
  PROVE  ChildInv(r, now, p, TRUE, 0, u, h, IF f = NULL THEN now ELSE f, e, FALSE)
<1> DEFINE n == Len(q)
           g == IF f = NULL THEN now ELSE f
<1>1. n \in Nat /\ DOMAIN q = 1..n
  BY Lengths
<1>2. /\ DOMAIN r = 1..n + 1 /\ Len(r) = n + 1 /\ r[n + 1] = l
      /\ \A k \in 1..n : r[k] = q[k]
  BY <1>1, Zenon DEF Grown
<1>3. /\ \A k \in 1..n + 1 : k \in 1..n \/ k = n + 1
      /\ \A k \in 1..n : k \in 1..n + 1 /\ \A j \in 1..k - 1 : j \in 1..n
      /\ n + 1 \in 1..n + 1 /\ (n + 1) - 1 = n /\ \A k \in (n + 1) + 1..n + 1 : FALSE
  <2> HIDE DEF n
  <2> QED  BY <1>1, SMT
<1> HIDE DEF n
<1>4. l.ev.event = "DISPATCH" /\ l.ev.pid = p /\ l.ev.tick = now
  BY DEF Ev
<1>5. ~Ends(l.ev, p)
  BY <1>4, SMT DEF Ends
<1>6. Is(r, n + 1, "DISPATCH", p) /\ ~Is(r, n + 1, "EXIT", p) /\ r[n + 1].ev.tick = now
  BY <1>2, <1>4, SMT DEF Is
<1>7. \A i \in 1..n : \A name : Is(r, i, name, p) <=> Is(q, i, name, p)
  BY <1>2, Zenon DEF Is
<1>8. cpu_used(EvsOf(r), p) = cpu_used(EvsOf(q), p)
  BY <1>5, SlicesKept, SMT
<1>9. g # NULL /\ (f # NULL => g = f) /\ (f = NULL => g = now)
  BY SMT DEF NULL
<1>10. \E i \in DOMAIN r : /\ Is(r, i, "DISPATCH", p) /\ r[i].ev.tick = g
                           /\ \A j \in 1..i - 1 : ~Is(r, j, "DISPATCH", p)
  <2>1. CASE f = NULL
    <3>1. \A j \in 1..n : ~Is(r, j, "DISPATCH", p)
      BY <1>1, <1>7, <2>1, Zenon DEF ChildInv
    <3> HIDE DEF g
    <3> QED  BY <1>2, <1>3, <1>6, <1>9, <2>1, <3>1, Zenon
  <2>2. CASE f # NULL
    <3>1. PICK i \in 1..n : /\ Is(q, i, "DISPATCH", p) /\ q[i].ev.tick = f
                            /\ \A j \in 1..i - 1 : ~Is(q, j, "DISPATCH", p)
      BY <1>1, <2>2, Zenon DEF ChildInv
    <3> HIDE DEF g
    <3> QED  BY <1>2, <1>3, <1>7, <1>9, <2>2, <3>1, Zenon
  <2> QED  BY <2>1, <2>2
<1>11. \A i \in DOMAIN r : ~Is(r, i, "EXIT", p)
  BY <1>1, <1>2, <1>3, <1>6, <1>7, Zenon DEF ChildInv
<1>12. \E i \in DOMAIN r :
         /\ Is(r, i, "DISPATCH", p) /\ r[i].ev.tick = now - 0
         /\ \A k \in i + 1..Len(r) : r[k].ev.event # "DISPATCH" /\ ~Ends(r[k].ev, p)
  <2>1. now - 0 = now
    BY SMT
  <2> QED  BY <1>2, <1>3, <1>6, <2>1, Zenon
<1>13. /\ cpu_used(EvsOf(q), p) = u - h - Open(FALSE, d) /\ u - h >= Open(FALSE, d)
       /\ f # NULL => u - h <= now - f
       /\ f = NULL => u = 0 /\ h = 0
  BY Zenon DEF ChildInv
<1>14. Open(FALSE, d) = 0 /\ Open(TRUE, 0) = 0
  BY Zenon DEF Open
<1>15. g # NULL => u - h <= now - g
  <2>1. CASE f = NULL
    BY <1>9, <1>13, <2>1, SMT
  <2>2. CASE f # NULL
    BY <1>9, <1>13, <2>2, SMT
  <2> QED  BY <2>1, <2>2
<1>16. cpu_used(EvsOf(r), p) = u - h - Open(TRUE, 0) /\ u - h >= Open(TRUE, 0)
  BY <1>8, <1>13, <1>14, Zenon
<1> HIDE DEF g
<1> QED  BY <1>9, <1>10, <1>11, <1>12, <1>15, <1>16, Zenon DEF ChildInv, g

\* A child that runs is preempted or exits: its line ends the open slice.
LEMMA ChildStops ==
  ASSUME NEW q, NEW r, NEW l, IsSeq(q), Grown(r, q, l), NEW now \in Nat, LinesInv(r, now),
         NEW p, NEW d \in Nat, NEW u \in Nat, NEW h \in Nat, NEW f \in Nat \cup {NULL}, NEW e,
         ChildInv(q, now, p, TRUE, d, u, h, f, e, FALSE),
         l.ev.event \in {"PREEMPT", "EXIT"}, l.ev.pid = p, l.ev.tick = now
  PROVE  /\ l.ev.event = "PREEMPT" => ChildInv(r, now, p, FALSE, d, u, h, f, e, FALSE)
         /\ l.ev.event = "EXIT" => ChildInv(r, now, p, FALSE, d, u, h, f, now, TRUE)
<1> DEFINE n == Len(q)
           name == l.ev.event
           z == (name = "EXIT")
           g == IF z THEN now ELSE e
<1>1. n \in Nat /\ DOMAIN q = 1..n
  BY Lengths
<1>2. /\ DOMAIN r = 1..n + 1 /\ Len(r) = n + 1 /\ r[n + 1] = l
      /\ \A k \in 1..n : r[k] = q[k]
  BY <1>1, Zenon DEF Grown
<1>3. /\ \A k \in 1..n + 1 : k \in 1..n \/ k = n + 1
      /\ \A k \in 1..n : k \in 1..n + 1 /\ \A j \in 1..k - 1 : j \in 1..n
      /\ n + 1 \in 1..n + 1
  <2> HIDE DEF n
  <2> QED  BY <1>1, SMT
<1> HIDE DEF n
<1>4. l.ev.event = name /\ l.ev.pid = p /\ l.ev.tick = now
  OBVIOUS
<1>5. Ends(l.ev, p) /\ name # "DISPATCH"
  BY <1>4, SMT DEF Ends
<1>6. /\ ~Is(r, n + 1, "DISPATCH", p) /\ r[n + 1].ev.tick = now
      /\ Is(r, n + 1, "EXIT", p) <=> z
  BY <1>2, <1>4, <1>5, Zenon DEF Is
<1>7. \A i \in 1..n : \A a : Is(r, i, a, p) <=> Is(q, i, a, p)
  BY <1>2, Zenon DEF Is
<1>8. PICK i \in 1..n :
        /\ Is(q, i, "DISPATCH", p) /\ q[i].ev.tick = now - d
        /\ \A k \in i + 1..Len(q) : q[k].ev.event # "DISPATCH" /\ ~Ends(q[k].ev, p)
  BY <1>1, Zenon DEF ChildInv
<1>9. cpu_used(EvsOf(r), p) = (l.ev.tick - q[i].ev.tick) + cpu_used(EvsOf(q), p)
  BY <1>1, <1>5, <1>8, SliceAdded, SMT
<1>10. /\ f # NULL /\ cpu_used(EvsOf(q), p) = u - h - d /\ u - h >= d /\ u - h <= now - f
  BY Zenon DEF ChildInv, Open
<1>11. cpu_used(EvsOf(r), p) = u - h - Open(FALSE, d) /\ u - h >= Open(FALSE, d)
  <2>1. l.ev.tick - q[i].ev.tick = d
    BY <1>4, <1>8, SMT
  <2>2. Open(FALSE, d) = 0
    BY DEF Open
  <2> DEFINE a == cpu_used(EvsOf(r), p)
             b == cpu_used(EvsOf(q), p)
  <2>3. a = d + b /\ b = u - h - d
    BY <1>9, <1>10, <2>1, Zenon
  <2> HIDE DEF a, b
  <2>4. a = u - h - 0 /\ u - h >= 0
    BY <1>10, <2>3, SMT
  <2> QED  BY <2>2, <2>4, Zenon DEF a
<1>12. \E j \in DOMAIN r : /\ Is(r, j, "DISPATCH", p) /\ r[j].ev.tick = f
                           /\ \A k \in 1..j - 1 : ~Is(r, k, "DISPATCH", p)
  <2>1. PICK j \in 1..n : /\ Is(q, j, "DISPATCH", p) /\ q[j].ev.tick = f
                          /\ \A k \in 1..j - 1 : ~Is(q, k, "DISPATCH", p)
    BY <1>1, <1>10, Zenon DEF ChildInv
  <2> QED  BY <1>2, <1>3, <1>7, <2>1, Zenon
<1>13. \A j \in 1..n : ~Is(r, j, "EXIT", p)
  BY <1>1, <1>7, Zenon DEF ChildInv
<1>14. \A j \in DOMAIN r : Is(r, j, "EXIT", p) => z /\ r[j].ev.tick = g
  BY <1>2, <1>3, <1>6, <1>13, Zenon
<1>15. z => \E j \in DOMAIN r : Is(r, j, "EXIT", p)
  BY <1>2, <1>3, <1>6, Zenon
<1>16. u - h <= (IF z THEN g ELSE now) - f
  BY <1>10, Zenon
<1> HIDE DEF z, g
<1>17. ChildInv(r, now, p, FALSE, d, u, h, f, g, z)
  BY <1>10, <1>11, <1>12, <1>14, <1>15, <1>16, Zenon DEF ChildInv
<1>18. CASE name = "PREEMPT"
  <2>1. z = FALSE /\ g = e
    BY <1>18 DEF z, g
  <2> QED  BY <1>17, <1>18, <2>1
<1>19. CASE name = "EXIT"
  <2>1. z = TRUE /\ g = now
    BY <1>19 DEF z, g
  <2> QED  BY <1>17, <1>19, <2>1
<1> QED  BY <1>18, <1>19

\* A child that runs finds its gate closed: the ticks of the slice are hidden.
LEMMA ChildGated ==
  ASSUME NEW q, NEW now \in Nat, NEW p, NEW d \in Nat, NEW u \in Nat, NEW h \in Nat,
         NEW f \in Nat \cup {NULL}, NEW e, ChildInv(q, now, p, TRUE, d, u, h, f, e, FALSE)
  PROVE  ChildInv(q, now, p, FALSE, d, u, h + d, f, e, FALSE)
<1>1. f # NULL /\ cpu_used(EvsOf(q), p) = u - h - d /\ u - h >= d /\ u - h <= now - f
  BY Zenon DEF ChildInv, Open
<1>2. Open(FALSE, d) = 0
  BY DEF Open
<1>3. /\ u - (h + d) = u - h - d /\ u - (h + d) >= 0 /\ u - (h + d) <= now - f
      /\ u - (h + d) - 0 = u - h - d
  <2>1. f \in Nat
    BY <1>1
  <2> QED  BY <1>1, <2>1, SMT
<1>4. cpu_used(EvsOf(q), p) = u - (h + d) - Open(FALSE, d) /\ u - (h + d) >= Open(FALSE, d)
  BY <1>1, <1>2, <1>3, Zenon
<1> QED  BY <1>1, <1>3, <1>4, Zenon DEF ChildInv

-----------------------------------------------------------------------------
(* The steps of a run.                                                     *)

\* Process numbers: the boot uses 1 and 2, the harness 3, the children the rest.
LEMMA TaskNumbers ==
  /\ Child \subseteq Nat /\ Harness \notin Child /\ Harness = 3 /\ NULL \notin Task
  /\ 1 \notin Child /\ 2 \notin Child /\ Task = Child \cup {Harness} /\ Task \subseteq Int
  /\ \A p \in Child : Def(p).arrival \in Nat
<1>1. \A i \in DOMAIN Workload : i \in Nat /\ i >= 1 /\ Workload[i].arrival \in Nat
  <2> DEFINE R == [arrival : Nat, burst : Nat]
  <2>1. Workload \in Seq(R)
    BY WorkloadAssumption
  <2>2. Len(Workload) \in Nat /\ \A i \in DOMAIN Workload : Workload[i] \in R /\ i \in 1..Len(Workload)
    <3> HIDE DEF R
    <3> QED  BY <2>1
  <2>3. \A i \in DOMAIN Workload : Workload[i].arrival \in Nat
    BY <2>2, Zenon
  <2> QED  BY <2>2, <2>3, SMT
<1>2. \A p \in Child : p \in Nat /\ p >= 4
  BY <1>1 DEF Child, Harness
<1>3. \A p \in Child : Def(p).arrival \in Nat
  <2> SUFFICES ASSUME NEW p \in Child PROVE Def(p).arrival \in Nat
    OBVIOUS
  <2>1. PICK i \in DOMAIN Workload : p = Harness + i
    BY DEF Child
  <2>2. p - Harness = i
    BY <1>1, <2>1 DEF Harness
  <2> QED  BY <1>1, <2>2, Zenon DEF Def
<1> QED  BY <1>2, <1>3 DEF Task, Harness, NULL

\* The words the host looks for are distinct.
LEMMA Words ==
  /\ Marker # RunBegin /\ Marker # RunEnd /\ RunBegin # RunEnd
  /\ \A a : AlgoWord(a) \notin {Marker, RunBegin, RunEnd}
BY SMT DEF Marker, RunBegin, RunEnd, AlgoWord

\* No line of q is a child's.
Childless(q) == \A i \in DOMAIN q : q[i].ev.pid \notin Child

\* What a new line may say for WordsInv to hold of the longer console.
LEMMA WordsGrow ==
  ASSUME NEW q, NEW r, NEW l, IsSeq(q), Grown(r, q, l), Len(q) >= 2, NEW algo, NEW x, NEW y,
         WordsInv(q, algo, x), x # "done",
         RunEnd \in l.words <=> y = "done",
         RunBegin \in l.words => Childless(q),
         y = "tail" => Marker \in l.words \/ x = "tail",
         \/ y \in {"begin", "rest", "tail"}
         \/ x \notin {"begin", "rest", "tail"}
         \/ /\ Childless(q)
            /\ \/ RunBegin \in l.words
               \/ AlgoWord(algo) \in l.words /\ (Marker \in l.words \/ x = "tail")
  PROVE  WordsInv(r, algo, y)
<1> DEFINE n == Len(q)
<1>1. n \in Nat /\ DOMAIN q = 1..n
  BY Lengths
<1>2. /\ DOMAIN r = 1..n + 1 /\ Len(r) = n + 1 /\ r[n + 1] = l
      /\ \A k \in 1..n : r[k] = q[k]
  BY <1>1, Zenon DEF Grown
<1>3. /\ \A k \in 1..n + 1 : k \in 1..n \/ k = n + 1
      /\ \A k \in 1..n : k \in 1..n + 1 /\ \A j \in 1..k - 1 : j \in 1..n
      /\ \A k \in 1..n : \A j \in 1..k : j \in 1..n
      /\ n + 1 \in 1..n + 1 /\ n + 1 >= 3 /\ (n + 1) - 1 = n
      /\ \A j \in 1..n : j \in 1..n + 1
  <2>1. n >= 2
    OBVIOUS
  <2> HIDE DEF n
  <2> QED  BY <1>1, <2>1, SMT
<1> HIDE DEF n
<1>4. \A i \in 1..n : Before(q, i) => Before(r, i)
  BY <1>2, <1>3, Zenon DEF Before
<1>5. Childless(q) => Before(r, n + 1)
  BY <1>1, <1>2, <1>3, Zenon DEF Before, Childless
<1>6. ASSUME NEW i \in DOMAIN r
      PROVE  /\ (RunBegin \in r[i].words \/ Marker \in r[i].words) => i >= 3
             /\ RunEnd \in r[i].words => i = Len(r) /\ y = "done"
             /\ RunBegin \in r[i].words => Before(r, i)
  <2>1. CASE i \in 1..n
    BY <1>1, <1>2, <1>4, <2>1, Zenon DEF WordsInv
  <2>2. CASE i = n + 1
    BY <1>2, <1>3, <1>5, <2>2, Zenon
  <2> QED  BY <1>2, <1>3, <2>1, <2>2, Zenon
<1>7. y = "done" => RunEnd \in r[Len(r)].words
  BY <1>2, Zenon
<1>8. x = "tail" => \E i \in 1..n : Marker \in r[i].words
  BY <1>1, <1>2, Zenon DEF WordsInv
<1>9. y = "tail" => \E i \in DOMAIN r : Marker \in r[i].words
  BY <1>2, <1>3, <1>8, Zenon
<1>10. ASSUME y \notin {"begin", "rest", "tail"} PROVE \E i \in DOMAIN r : Anchor(r, algo, i)
  <2>1. CASE x \notin {"begin", "rest", "tail"}
    <3>1. PICK i \in 1..n : Anchor(q, algo, i)
      BY <1>1, <2>1, Zenon DEF WordsInv
    <3>2. Anchor(r, algo, i)
      BY <1>2, <1>3, <1>4, <3>1, Zenon DEF Anchor
    <3> QED  BY <1>2, <1>3, <3>2, Zenon
  <2>2. CASE x \in {"begin", "rest", "tail"}
    <3>1. Childless(q) /\ (\/ RunBegin \in l.words
                           \/ AlgoWord(algo) \in l.words /\ (Marker \in l.words \/ x = "tail"))
      BY <1>10, <2>2, Zenon
    <3>2. Marker \in l.words \/ x = "tail" => \E j \in 1..n + 1 : Marker \in r[j].words
      BY <1>2, <1>3, <1>8, Zenon
    <3>3. Anchor(r, algo, n + 1)
      BY <1>2, <1>3, <1>5, <3>1, <3>2, Zenon DEF Anchor
    <3> QED  BY <1>2, <1>3, <3>3, Zenon
  <2> QED  BY <2>1, <2>2
<1> QED  BY <1>6, <1>7, <1>9, <1>10, Zenon DEF WordsInv

\* The harness moves without a line.
LEMMA WordsMove ==
  ASSUME NEW q, NEW algo, NEW x, NEW y, WordsInv(q, algo, x),
         x \notin {"begin", "rest", "tail", "done"}, y \notin {"begin", "rest", "tail", "done"}
  PROVE  WordsInv(q, algo, y)
BY Zenon DEF WordsInv

\* A step without a line, of the harness or of a process at its gate.
LEMMA Quiet ==
  ASSUME ConsoleInv, console' = console, tick' = tick, job' = job,
         WordsInv(console, job.algo, at'), StateInv', \A p \in Child : ChildOf(p)'
  PROVE  ConsoleInv'
BY Zenon DEF ConsoleInv

\* The harness moves without a line and children stay as they are.
LEMMA HarnessQuiet ==
  ASSUME ConsoleInv, HarnessStill, console' = console, cpu = Harness, cpu' \in {Harness, NULL},
         \A p \in Child : st'[p] = "zombie" <=> st[p] = "zombie",
         WordsInv(console, job.algo, at'), StateInv'
  PROVE  ConsoleInv'
<1>1. ASSUME NEW p \in Child PROVE ChildOf(p)'
  <2>1. (cpu' = p) = FALSE /\ (cpu = p) = FALSE
    BY TaskNumbers, SMT DEF Task
  <2>2. (st'[p] = "zombie") = (st[p] = "zombie")
    BY Zenon
  <2>3. ChildInv(console, tick, p, cpu = p, ran, used[p], hidden[p], first[p], end[p],
                 st[p] = "zombie")
    BY Zenon DEF ConsoleInv, ChildOf
  <2>4. /\ tick' = tick /\ ran' = ran /\ used' = used /\ hidden' = hidden /\ first' = first
        /\ end' = end
    BY DEF HarnessStill
  <2>5. ChildInv(console', tick', p, cpu' = p, ran', used'[p], hidden'[p], first'[p], end'[p],
                 st'[p] = "zombie")
    BY <2>1, <2>2, <2>3, <2>4, Zenon
  <2> QED  BY <2>5, Zenon DEF ChildOf
<1>2. tick' = tick /\ job' = job
  BY DEF HarnessStill
<1> QED  BY <1>1, <1>2, Quiet, Zenon

\* A step with a line of the harness or of PROC_DEF, and no tick.
LEMMA Speaks ==
  ASSUME ConsoleInv, NEW l, Grown(console', console, l), tick' = tick, job' = job,
         UNCHANGED <<cpu, ran, st, used, hidden, first, end>>,
         Sound(l.ev, tick), l.ev.tick = NULL,
         l.ev.pid # NULL => l.ev.pid = cpu,
         WordsInv(console', job.algo, at'),
         at' \in EARLY => at \in EARLY, at' = "pause" => at = "pause",
         at' = "done" => cpu = Harness /\ \A p \in Child : st[p] = "zombie"
  PROVE  ConsoleInv'
<1>1. IsSeq(console) /\ LinesInv(console, tick) /\ tick \in Nat /\ StateInv
  BY Zenon DEF ConsoleInv, StateInv
<1>2. LinesInv(console', tick) /\ IsSeq(console')
  BY <1>1, LinesGrow, SMT DEF Grown
<1>3. l.ev.event \notin TIMED
  BY Zenon DEF Sound
<1>4. ASSUME NEW p \in Child PROVE ChildOf(p)'
  <2>1. ChildInv(console, tick, p, cpu = p, ran, used[p], hidden[p], first[p], end[p],
                 st[p] = "zombie")
    BY Zenon DEF ConsoleInv, ChildOf
  <2>2. l.ev.event # "DISPATCH"
    BY <1>3 DEF TIMED
  <2>3. ChildInv(console', tick, p, cpu = p, ran, used[p], hidden[p], first[p], end[p],
                 st[p] = "zombie")
    <3> DEFINE on == (cpu = p)
               z == (st[p] = "zombie")
    <3>1. on \in BOOLEAN /\ ChildInv(console, tick, p, on, ran, used[p], hidden[p], first[p], end[p], z)
      BY <2>1, Zenon
    <3> HIDE DEF on, z
    <3>2. ChildInv(console', tick, p, on, ran, used[p], hidden[p], first[p], end[p], z)
      <4>1. (l.ev.pid # p \/ l.ev.event \notin TIMED) /\ (on => l.ev.event # "DISPATCH")
        BY <1>3, <2>2, Zenon
      <4> QED  BY <1>1, <3>1, <4>1, ChildElse, SMT
    <3> QED  BY <3>2, Zenon DEF on, z
  <2>4. ChildInv(console', tick', p, cpu' = p, ran', used'[p], hidden'[p], first'[p], end'[p],
                 st'[p] = "zombie")
    BY <2>3, Zenon
  <2> QED  BY <2>4, Zenon DEF ChildOf
<1>5. \A i \in DOMAIN console' : console'[i].ev.pid \in Child => st[console'[i].ev.pid] # "none"
  <2>1. DOMAIN console = 1..Len(console) /\ Len(console) \in Nat
    BY <1>1, Lengths
  <2>2. \A i \in DOMAIN console' : i \in DOMAIN console \/ i = Len(console) + 1
    BY <2>1, SMT DEF Grown
  <2>3. l.ev.pid \in Child => st[l.ev.pid] = "running"
    <3>1. l.ev.pid \in Child => l.ev.pid # NULL /\ l.ev.pid \in Task
      BY TaskNumbers, Zenon
    <3> QED  BY <1>1, <3>1, Zenon DEF StateInv
  <2>4. "running" # "none"
    OBVIOUS
  <2> QED  BY <1>1, <2>2, <2>3, <2>4, Zenon DEF Grown, StateInv
<1>6. StateInv'
  <2>1. /\ tick' \in Nat /\ ran' \in Nat /\ cpu' \in Task \cup {NULL} /\ st' \in [Task -> STATES]
        /\ used' \in [Child -> Nat] /\ hidden' \in [Child -> Nat]
        /\ first' \in [Child -> Nat \cup {NULL}] /\ end' \in [Child -> Nat \cup {NULL}]
        /\ \A p \in Task : st'[p] = "running" <=> cpu' = p
    BY <1>1, Zenon DEF StateInv
  <2>2. /\ at' \in EARLY => \A p \in Child : st'[p] = "none"
        /\ at' = "pause" => \E p \in Child : st'[p] = "none"
        /\ at' = "done" => cpu' = Harness /\ \A p \in Child : st'[p] = "zombie"
    BY <1>1, Zenon DEF StateInv
  <2>3. \A i \in DOMAIN console' : console'[i].ev.pid \in Child => st'[console'[i].ev.pid] # "none"
    BY <1>5, Zenon
  <2> QED  BY <2>1, <2>2, <2>3, Zenon DEF StateInv
<1>7. /\ IsSeq(console') /\ LinesInv(console', tick') /\ WordsInv(console', job'.algo, at')
      /\ StateInv' /\ \A p \in Child : ChildOf(p)'
  BY <1>2, <1>4, <1>6, Zenon
<1> QED  BY <1>7, Zenon DEF ConsoleInv

\* ConsoleInv holds when the shell reads the command.
LEMMA RunStarts ==
  ASSUME ConsoleInit PROVE ConsoleInv
<1>1. /\ console \in Seq({console[1], console[2]}) /\ Len(console) = 2 /\ DOMAIN console = 1..2
      /\ \A i \in 1..2 : console[i] = [words |-> {AlgoWord("RR")}, ev |-> Ev("DISPATCH", i, 0, NULL)]
  <2>1. console = BootLines
    BY DEF ConsoleInit
  <2> QED  BY <2>1 DEF BootLines
<1>2. IsSeq(console)
  BY <1>1, Zenon DEF IsSeq
<1>3. \A i \in 1..2 : /\ console[i].words = {AlgoWord("RR")}
                      /\ console[i].ev = Ev("DISPATCH", i, 0, NULL)
                      /\ console[i].ev.event = "DISPATCH" /\ console[i].ev.pid = i
                      /\ console[i].ev.tick = 0
  BY <1>1 DEF Ev
<1>4. at = "begin" /\ tick = 0 /\ cpu = Harness /\ ran = 0
  BY DEF ConsoleInit
<1>5. LinesInv(console, tick)
  BY <1>1, <1>3, <1>4, SMT DEF LinesInv
<1>6. WordsInv(console, job.algo, at)
  <2>1. \A i \in 1..2 : {Marker, RunBegin, RunEnd} \cap console[i].words = {}
    <3>1. AlgoWord("RR") \notin {Marker, RunBegin, RunEnd}
      BY Words, Zenon
    <3> QED  BY <1>3, <3>1, Zenon
  <2> QED  BY <1>1, <1>4, <2>1, SMT DEF WordsInv
<1>7. \A i \in DOMAIN console : console[i].ev.pid \notin Child
  BY <1>1, <1>3, TaskNumbers
<1>8. \A p \in Child : p # Harness /\ p \in Task /\ p # 1 /\ p # 2
  BY TaskNumbers DEF Task
<1>9. StateInv
  <2>1. \A p \in Task : st[p] = (IF p = Harness THEN "running" ELSE "none")
    BY Zenon DEF ConsoleInit
  <2>2. st \in [Task -> STATES]
    <3>1. "running" \in STATES /\ "none" \in STATES
      BY DEF STATES
    <3>2. \A p \in Task : st[p] \in STATES
      BY <2>1, <3>1, Zenon
    <3>3. st = [p \in Task |-> IF p = Harness THEN "running" ELSE "none"]
      BY Zenon DEF ConsoleInit
    <3> QED  BY <2>1, <3>2, <3>3, Zenon
  <2>3. /\ used \in [Child -> Nat] /\ hidden \in [Child -> Nat]
        /\ first \in [Child -> Nat \cup {NULL}] /\ end \in [Child -> Nat \cup {NULL}]
    BY SMT DEF ConsoleInit
  <2>4. cpu \in Task
    BY <1>4, TaskNumbers, Zenon
  <2>5. \A p \in Task : st[p] = "running" <=> cpu = p
    BY <1>4, <2>1
  <2>6. \A p \in Child : st[p] = "none"
    BY <1>8, <2>1
  <2> QED  BY <1>4, <1>7, <2>2, <2>3, <2>4, <2>5, <2>6 DEF StateInv
<1>10. ASSUME NEW p \in Child PROVE ChildOf(p)
  <2>1. SlicesOf(EvsOf(console), p) = {}
    <3>1. EvsOf(console) = [i \in 1..2 |-> console[i].ev] /\ DOMAIN EvsOf(console) = 1..2
      BY <1>1, Zenon DEF EvsOf
    <3>2. \A i \in 1..2 : EvsOf(console)[i].pid # p
      BY <1>3, <1>8, <3>1, SMT
    <3>3. \A s \in SlicesOf(EvsOf(console), p) : FALSE
      <4> SUFFICES ASSUME NEW s \in SlicesOf(EvsOf(console), p) PROVE FALSE
        OBVIOUS
      <4>1. s \in (1..2) \X (1..2) /\ EvsOf(console)[s[1]].pid = p
        BY <3>1, Zenon DEF SlicesOf
      <4>2. s[1] \in 1..2
        BY <4>1
      <4> QED  BY <3>2, <4>1, <4>2, Zenon
    <3> QED  BY <3>3, Zenon
  <2>2. cpu_used(EvsOf(console), p) = 0
    <3> DEFINE f == [s \in SlicesOf(EvsOf(console), p) |->
                       EvsOf(console)[s[2]].tick - EvsOf(console)[s[1]].tick]
    <3>1. cpu_used(EvsOf(console), p) = Total(f) /\ DOMAIN f = {}
      BY <2>1, Zenon DEF cpu_used
    <3> HIDE DEF f
    <3> QED  BY <3>1, TotalOfNothing, Zenon
  <2>3. \A i \in DOMAIN console : \A name : ~Is(console, i, name, p)
    BY <1>1, <1>3, <1>8, SMT DEF Is
  <2>4. used[p] = 0 /\ hidden[p] = 0 /\ first[p] = NULL /\ end[p] = NULL /\ cpu # p /\ st[p] # "zombie"
    BY <1>4, <1>8 DEF ConsoleInit
  <2>5. Open(cpu = p, ran) = 0
    BY <2>4, Zenon DEF Open
  <2>6. 0 - 0 - 0 = 0 /\ 0 - 0 >= 0
    BY SMT
  <2> QED  BY <2>2, <2>3, <2>4, <2>5, <2>6, Zenon DEF ChildOf, ChildInv
<1> QED  BY <1>2, <1>5, <1>6, <1>9, <1>10, Zenon DEF ConsoleInv

\* A tick, with the PREEMPT line it may cause.
LEMMA Passes ==
  ASSUME ConsoleInv, NEW cut, NEW preempts \in BOOLEAN, Pass(cut, preempts),
         UNCHANGED <<job, first, end, hidden>>,
         WordsInv(console', job.algo, at'),
         at' \in EARLY => at \in EARLY, at' = "pause" => at = "pause", at' # "done"
  PROVE  ConsoleInv'
<1> DEFINE now == tick + 1
           l == [words |-> cut \cup {AlgoWord(mode)}, ev |-> Ev("PREEMPT", cpu, now, NULL)]
<1>1. /\ IsSeq(console) /\ LinesInv(console, tick) /\ StateInv
      /\ \A p \in Child : ChildOf(p)
  BY Zenon DEF ConsoleInv
<1>2. /\ tick' = now /\ ran' = ran + 1
      /\ cpu' = IF preempts THEN NULL ELSE cpu
      /\ st' = [p \in Task |->
                  IF p = cpu /\ preempts THEN "ready"
                  ELSE IF st[p] = "pause" THEN "ready"
                  ELSE st[p]]
      /\ used' = [p \in Child |-> IF p = cpu THEN used[p] + 1 ELSE used[p]]
      /\ console' = console \o (IF preempts THEN <<l>> ELSE << >>)
  BY Zenon DEF Pass, Write
<1>3. /\ tick \in Nat /\ ran \in Nat /\ now \in Nat /\ cpu \in Task \cup {NULL}
      /\ \A p \in Child : used[p] \in Nat /\ hidden[p] \in Nat /\ first[p] \in Nat \cup {NULL}
      /\ \A p \in Task : st[p] = "running" <=> cpu = p
  BY <1>1, SMT DEF StateInv
<1>4. LinesInv(console, now)
  BY <1>1, <1>3, LinesAge, Zenon
<1>5. /\ preempts => Grown(console', console, l) /\ cpu' = NULL /\ cpu \in Task /\ cpu # NULL
      /\ ~preempts => console' = console /\ cpu' = cpu
  <2> HIDE DEF l
  <2>1. console \o << >> = console /\ Grown(console \o <<l>>, console, l)
    BY <1>1, Grows, Zenon
  <2>2. preempts => cpu # NULL
    BY Zenon DEF Pass
  <2> QED  BY <1>2, <1>3, <2>1, <2>2, Zenon
<1>6. l.ev = Ev("PREEMPT", cpu, now, NULL) /\ l.ev.event = "PREEMPT" /\ l.ev.pid = cpu /\ l.ev.tick = now
  BY DEF Ev
<1>7. preempts => Sound(l.ev, now) /\ l.ev.tick \in {NULL, now}
  <2> SUFFICES ASSUME preempts PROVE Sound(l.ev, now) /\ l.ev.tick \in {NULL, now}
    OBVIOUS
  <2>1. cpu \in Task /\ cpu \in Int /\ now \in Nat /\ now <= now /\ now # NULL
    BY <1>3, <1>5, TaskNumbers, SMT DEF NULL
  <2>2. Ev("PREEMPT", cpu, now, NULL) \in Event
    <3>1. "PREEMPT" \in NAMES /\ NULL \in Int
      BY DEF NULL, NAMES
    <3> HIDE DEF now
    <3> QED  BY <2>1, <3>1, EventsOf, SMT
  <2> HIDE DEF l, now
  <2>3. l.ev \in Event
    BY <1>6, <2>2, Zenon
  <2> QED  BY <1>6, <2>1, <2>3, SMT DEF Sound, TIMED
<1>8. IsSeq(console') /\ LinesInv(console', now)
  <2>1. CASE preempts
    <3> HIDE DEF l, now
    <3> QED  BY <1>1, <1>3, <1>4, <1>5, <1>7, <2>1, LinesGrow, SMT DEF Grown
  <2>2. CASE ~preempts
    BY <1>1, <1>4, <1>5, <2>2, Zenon
  <2> QED  BY <2>1, <2>2
<1> HIDE DEF l, now
<1>9. \A p \in Task : /\ p = cpu /\ preempts => st'[p] = "ready"
                      /\ ~(p = cpu /\ preempts) => \/ st'[p] = st[p]
                                                   \/ st[p] = "pause" /\ st'[p] = "ready"
  BY <1>2, Zenon
<1>10. \A p \in Child : p \in Task /\ p # Harness
  BY TaskNumbers, Zenon
<1>11. ASSUME NEW p \in Child PROVE ChildOf(p)'
  <2> DEFINE on == (cpu = p)
             z == (st[p] = "zombie")
             us == used[p]
             h == hidden[p]
             f == first[p]
             e == end[p]
             u == IF on THEN us + 1 ELSE us
  <2>1. ChildInv(console, tick, p, on, ran, us, h, f, e, z)
    BY <1>1, Zenon DEF ChildOf
  <2>2. ~(on /\ z)
    BY <2>1, Zenon DEF ChildInv
  <2>3. used'[p] = u
    BY <1>2, Zenon
  <2>4. st'[p] = "zombie" <=> z
    <3>1. CASE p = cpu /\ preempts
      <4>1. st'[p] = "ready" /\ st[p] = "running"
        BY <1>3, <1>9, <1>10, <3>1, Zenon
      <4> QED  BY <4>1
    <3>2. CASE ~(p = cpu /\ preempts)
      BY <1>9, <1>10, <3>2, Zenon
    <3> QED  BY <3>1, <3>2
  <2>5. /\ on \in BOOLEAN /\ z \in BOOLEAN /\ u \in Nat /\ us \in Nat /\ h \in Nat
        /\ f \in Nat \cup {NULL} /\ ran + 1 \in Nat
    BY <1>3, SMT
  <2>6. ChildInv(console, now, p, on, ran + 1, u, h, f, e, z)
    <3> HIDE DEF on, z, us, h, f, e
    <3> QED  BY <1>3, <2>1, <2>5, ChildAges, SMT DEF now
  <2> DEFINE d == ran + 1
  <2> HIDE DEF u, on, z
  <2>7. CASE ~preempts
    <3>1. (cpu' = p) = on /\ (st'[p] = "zombie") = z
      BY <1>5, <2>4, <2>7, Zenon DEF on
    <3>2. ChildInv(console', tick', p, cpu' = p, ran', used'[p], hidden'[p], first'[p], end'[p],
                   st'[p] = "zombie")
      BY <1>2, <1>5, <2>3, <2>6, <2>7, <3>1, Zenon
    <3> QED  BY <3>2, Zenon DEF ChildOf
  <2>8. CASE preempts /\ on
    <3>1. cpu = p /\ on = TRUE /\ z = FALSE
      <4>1. on = TRUE /\ z = FALSE
        BY <2>2, <2>5, <2>8, SMT
      <4>2. cpu = p
        BY <2>8 DEF on
      <4> QED  BY <4>1, <4>2
    <3>2. ChildInv(console, now, p, TRUE, d, u, h, f, e, FALSE)
      BY <2>6, <3>1, Zenon
    <3>3. ChildInv(console', now, p, FALSE, d, u, h, f, e, FALSE)
      <4>1. l.ev.event \in {"PREEMPT", "EXIT"} /\ l.ev.pid = p /\ l.ev.tick = now
        BY <1>6, <3>1
      <4>2. Grown(console', console, l)
        BY <1>5, <2>8
      <4> HIDE DEF d, us, h, f, e
      <4>3. d \in Nat
        BY <2>5 DEF d
      <4>4. l.ev.event = "PREEMPT"
        BY <1>6
      <4> QED  BY <1>1, <1>3, <1>8, <2>5, <3>2, <4>1, <4>2, <4>3, <4>4, ChildStops, ZenonT(30)
    <3>4. (cpu' = p) = FALSE /\ (st'[p] = "zombie") = FALSE
      <4>1. cpu' = NULL /\ p # NULL
        BY <1>5, <1>10, <2>8, TaskNumbers, Zenon
      <4> QED  BY <2>4, <3>1, <4>1
    <3>5. ChildInv(console', tick', p, cpu' = p, ran', used'[p], hidden'[p], first'[p], end'[p],
                   st'[p] = "zombie")
      BY <1>2, <2>3, <3>3, <3>4, Zenon
    <3> QED  BY <3>5, Zenon DEF ChildOf
  <2>9. CASE preempts /\ ~on
    <3>1. l.ev.pid # p /\ Grown(console', console, l) /\ l.ev.event # "DISPATCH"
      BY <1>5, <1>6, <2>9 DEF on
    <3>2. ChildInv(console', now, p, on, ran + 1, u, h, f, e, z)
      <4> HIDE DEF us, h, f, e
      <4> QED  BY <1>1, <2>5, <2>6, <3>1, ChildElse, SMT
    <3>3. (cpu' = p) = on /\ (st'[p] = "zombie") = z
      <4>1. cpu' = NULL /\ p # NULL
        BY <1>5, <1>10, <2>9, TaskNumbers, Zenon
      <4>2. on = FALSE /\ (cpu' = p) = FALSE
        BY <2>5, <2>9, <4>1, SMT
      <4> QED  BY <2>4, <4>2, Zenon
    <3>4. ChildInv(console', tick', p, cpu' = p, ran', used'[p], hidden'[p], first'[p], end'[p],
                   st'[p] = "zombie")
      BY <1>2, <2>3, <3>2, <3>3, Zenon
    <3> QED  BY <3>4, Zenon DEF ChildOf
  <2> QED  BY <2>7, <2>8, <2>9
<1>12. \A p \in Child : st[p] = "none" <=> st'[p] = "none"
  <2> SUFFICES ASSUME NEW p \in Child PROVE st[p] = "none" <=> st'[p] = "none"
    OBVIOUS
  <2>1. CASE p = cpu /\ preempts
    <3>1. st'[p] = "ready" /\ st[p] = "running"
      BY <1>3, <1>9, <1>10, <2>1, Zenon
    <3> QED  BY <3>1
  <2>2. CASE ~(p = cpu /\ preempts)
    BY <1>9, <1>10, <2>2, Zenon
  <2> QED  BY <2>1, <2>2
<1>13. st' \in [Task -> STATES] /\ \A p \in Task : st'[p] = "running" <=> cpu' = p
  <2>1. \A p \in Task : st'[p] \in STATES
    <3>1. \A p \in Task : st[p] \in STATES
      BY <1>1, Zenon DEF StateInv
    <3>2. "ready" \in STATES
      BY DEF STATES
    <3> QED  BY <1>9, <3>1, <3>2, Zenon
  <2>2. ASSUME NEW p \in Task PROVE st'[p] = "running" <=> cpu' = p
    <3>1. CASE preempts
      <4>1. cpu' # p
        BY <1>5, <3>1, TaskNumbers
      <4>2. CASE p = cpu
        <5>1. st'[p] = "ready"
          BY <1>9, <3>1, <4>2, Zenon
        <5> QED  BY <4>1, <5>1
      <4>3. CASE p # cpu
        <5>1. st[p] # "running" /\ (st'[p] = st[p] \/ st'[p] = "ready")
          BY <1>3, <1>9, <4>3, Zenon
        <5> QED  BY <4>1, <5>1
      <4> QED  BY <4>2, <4>3
    <3>2. CASE ~preempts
      <4>1. st'[p] = st[p] \/ (st[p] = "pause" /\ st'[p] = "ready")
        BY <1>9, <3>2, Zenon
      <4> QED  BY <1>3, <1>5, <3>2, <4>1
    <3> QED  BY <3>1, <3>2
  <2>3. st' = [p \in Task |-> st'[p]]
    BY <1>2, Zenon
  <2> QED  BY <2>1, <2>2, <2>3, Zenon
<1>14. \A i \in DOMAIN console' : console'[i].ev.pid \in Child => st'[console'[i].ev.pid] # "none"
  <2> SUFFICES ASSUME NEW i \in DOMAIN console', console'[i].ev.pid \in Child
               PROVE  st'[console'[i].ev.pid] # "none"
    OBVIOUS
  <2>1. CASE i \in DOMAIN console /\ console'[i] = console[i]
    BY <1>1, <1>12, <2>1, Zenon DEF StateInv
  <2>2. CASE preempts /\ console'[i] = l
    <3>1. st'[cpu] = "ready"
      BY <1>5, <1>9, <2>2, Zenon
    <3> QED  BY <1>6, <2>2, <3>1, SMT
  <2>3. preempts => i \in DOMAIN console \/ i = Len(console) + 1
    <3>1. DOMAIN console = 1..Len(console) /\ Len(console) \in Nat
      BY <1>1, Lengths
    <3> QED  BY <1>5, <3>1, SMT DEF Grown
  <2> QED  BY <1>5, <2>1, <2>2, <2>3, Zenon DEF Grown
<1>15. StateInv'
  <2>1. /\ tick' \in Nat /\ ran' \in Nat /\ cpu' \in Task \cup {NULL}
        /\ hidden' \in [Child -> Nat]
        /\ first' \in [Child -> Nat \cup {NULL}] /\ end' \in [Child -> Nat \cup {NULL}]
    <3>1. ran + 1 \in Nat
      BY <1>3, SMT
    <3> QED  BY <1>1, <1>2, <1>3, <3>1, Zenon DEF StateInv
  <2>2. used' \in [Child -> Nat]
    <3>1. \A p \in Child : used[p] + 1 \in Nat
      BY <1>3, SMT
    <3> QED  BY <1>2, <1>3, <3>1, Zenon
  <2>3. /\ at' \in EARLY => \A p \in Child : st'[p] = "none"
        /\ at' = "pause" => \E p \in Child : st'[p] = "none"
    BY <1>1, <1>12, Zenon DEF StateInv
  <2> QED  BY <1>13, <1>14, <2>1, <2>2, <2>3, Zenon DEF StateInv
<1>16. /\ IsSeq(console') /\ LinesInv(console', tick') /\ WordsInv(console', job'.algo, at')
       /\ StateInv' /\ \A p \in Child : ChildOf(p)'
  BY <1>2, <1>8, <1>11, <1>15, Zenon
<1> QED  BY <1>16, Zenon DEF ConsoleInv

\* A child exits.
LEMMA Exiting ==
  ASSUME ConsoleInv, NEW x \in Child, Exits(x) PROVE ConsoleInv'
<1> DEFINE l == KernelLine("EXIT", x, tick)
<1>1. /\ IsSeq(console) /\ LinesInv(console, tick) /\ StateInv
      /\ \A p \in Child : ChildOf(p)
      /\ WordsInv(console, job.algo, at)
  BY Zenon DEF ConsoleInv
<1>2. /\ cpu = x /\ cpu' = NULL /\ tick' = tick /\ ran' = ran /\ used' = used /\ hidden' = hidden
      /\ first' = first /\ job' = job /\ at' = at
      /\ end' = [end EXCEPT ![x] = tick]
      /\ st' = [st EXCEPT ![x] = "zombie", ![Harness] = IF @ = "wait" THEN "ready" ELSE @]
      /\ console' = console \o <<l>>
  BY DEF Exits, Write
<1>3. /\ tick \in Nat /\ ran \in Nat
      /\ \A p \in Child : used[p] \in Nat /\ hidden[p] \in Nat /\ first[p] \in Nat \cup {NULL}
      /\ \A p \in Task : st[p] = "running" <=> cpu = p
      /\ st \in [Task -> STATES] /\ end \in [Child -> Nat \cup {NULL}]
  BY <1>1, SMT DEF StateInv
<1>4. Grown(console', console, l)
  <2> HIDE DEF l
  <2> QED  BY <1>1, <1>2, Grows, SMT
<1>5. /\ l.ev = Ev("EXIT", x, tick, NULL) /\ l.ev.event = "EXIT" /\ l.ev.pid = x
      /\ l.ev.tick = tick /\ l.words = {AlgoWord(mode)}
  BY DEF Ev, KernelLine
<1>6. Sound(l.ev, tick) /\ l.ev.tick \in {NULL, tick}
  <2>1. x \in Task /\ x \in Int /\ tick <= tick /\ tick # NULL /\ "EXIT" \in NAMES /\ NULL \in Int
    BY <1>3, TaskNumbers, SMT DEF NULL, NAMES
  <2>2. Ev("EXIT", x, tick, NULL) \in Event
    BY <1>3, <2>1, EventsOf, SMT
  <2> HIDE DEF l
  <2>3. l.ev \in Event
    BY <1>5, <2>2, Zenon
  <2> QED  BY <1>5, <2>1, <2>3, SMT DEF Sound, TIMED
<1> HIDE DEF l
<1>7. IsSeq(console') /\ LinesInv(console', tick)
  <2>1. IsSeq(console')
    BY <1>4, Zenon DEF Grown
  <2>2. LinesInv(console', tick)
    <3>1. LinesInv(console, tick) /\ IsSeq(console) /\ tick \in Nat
      BY <1>1, <1>3, Zenon
    <3> QED  BY <1>4, <1>6, <3>1, LinesGrow, Zenon
  <2> QED  BY <2>1, <2>2
<1>8. \A p \in Child : p \in Task /\ p # Harness /\ p # NULL
  BY TaskNumbers, Zenon
<1>9. \A p \in Child : st'[p] = IF p = x THEN "zombie" ELSE st[p]
  BY <1>2, <1>3, <1>8, Zenon
<1>10. \A p \in Task : p # x => st'[p] = st[p] \/ (st[p] = "wait" /\ st'[p] = "ready")
  BY <1>2, <1>3, <1>8, Zenon
<1>11. at \notin EARLY /\ at # "done"
  <2>1. st[x] = "running"
    BY <1>2, <1>3, <1>8, Zenon
  <2>2. at # "done"
    BY <1>1, <1>2, <1>8, Zenon DEF StateInv
  <2>3. at \in EARLY => st[x] = "none"
    BY <1>1, Zenon DEF StateInv
  <2> QED  BY <2>1, <2>2, <2>3
<1>12. ASSUME NEW p \in Child PROVE ChildOf(p)'
  <2> DEFINE on == (cpu = p)
             z == (st[p] = "zombie")
             u == used[p]
             h == hidden[p]
             f == first[p]
             e == end[p]
  <2>1. ChildInv(console, tick, p, on, ran, u, h, f, e, z)
    BY <1>1, Zenon DEF ChildOf
  <2>2. on \in BOOLEAN /\ z \in BOOLEAN /\ u \in Nat /\ h \in Nat /\ f \in Nat \cup {NULL}
    BY <1>3
  <2>3. ~(on /\ z)
    BY <2>1, Zenon DEF ChildInv
  <2>4. CASE p = x
    <3>1. on = TRUE /\ z = FALSE
      <4>1. on
        BY <1>2, <2>4
      <4> HIDE DEF on, z
      <4> QED  BY <2>2, <2>3, <4>1, SMT
    <3>2. ChildInv(console, tick, p, TRUE, ran, u, h, f, e, FALSE)
      <4> HIDE DEF on, z
      <4> QED  BY <2>1, <3>1, Zenon
    <3>3. ChildInv(console', tick, p, FALSE, ran, u, h, f, tick, TRUE)
      <4>1. l.ev.event \in {"PREEMPT", "EXIT"} /\ l.ev.pid = p /\ l.ev.tick = tick
        BY <1>5, <2>4
      <4>2. l.ev.event = "EXIT"
        BY <1>5
      <4> HIDE DEF u, h, f, e, on, z
      <4> QED  BY <1>1, <1>3, <1>4, <1>7, <2>2, <3>2, <4>1, <4>2, ChildStops, ZenonT(30)
    <3>4. (cpu' = p) = FALSE /\ (st'[p] = "zombie") = TRUE /\ end'[p] = tick
      BY <1>2, <1>3, <1>8, <1>9, <2>4
    <3>5. ChildInv(console', tick', p, cpu' = p, ran', used'[p], hidden'[p], first'[p], end'[p],
                   st'[p] = "zombie")
      BY <1>2, <3>3, <3>4, Zenon
    <3> QED  BY <3>5, Zenon DEF ChildOf
  <2>5. CASE p # x
    <3>1. on = FALSE /\ (cpu' = p) = FALSE
      BY <1>2, <1>8, <2>5
    <3>2. l.ev.pid # p
      BY <1>5, <2>5
    <3>3. ChildInv(console', tick, p, on, ran, u, h, f, e, z)
      <4>1. l.ev.event # "DISPATCH"
        BY <1>5
      <4> HIDE DEF u, h, f, e, on, z
      <4> QED  BY <1>1, <1>4, <2>1, <2>2, <3>2, <4>1, ChildElse, SMT
    <3>4. (st'[p] = "zombie") = z /\ end'[p] = e
      BY <1>2, <1>3, <1>9, <2>5, Zenon
    <3>5. ChildInv(console', tick', p, cpu' = p, ran', used'[p], hidden'[p], first'[p], end'[p],
                   st'[p] = "zombie")
      <4> HIDE DEF on, z
      <4> QED  BY <1>2, <3>1, <3>3, <3>4, Zenon
    <3> QED  BY <3>5, Zenon DEF ChildOf
  <2> QED  BY <2>4, <2>5
<1>13. WordsInv(console', job.algo, at)
  <2>1. l.words \cap {Marker, RunBegin, RunEnd} = {}
    BY <1>5, Words, Zenon
  <2>2. at \notin {"begin", "rest", "tail"} /\ Len(console) >= 2
    BY <1>1, <1>11 DEF EARLY, LinesInv
  <2> QED  BY <1>1, <1>4, <1>11, <2>1, <2>2, WordsGrow, SMT
<1>14. \A i \in DOMAIN console' : console'[i].ev.pid \in Child => st'[console'[i].ev.pid] # "none"
  <2> SUFFICES ASSUME NEW i \in DOMAIN console', console'[i].ev.pid \in Child
               PROVE  st'[console'[i].ev.pid] # "none"
    OBVIOUS
  <2>1. CASE i \in DOMAIN console
    <3>1. console'[i] = console[i]
      BY <1>4, <2>1, Zenon DEF Grown
    <3>2. st[console[i].ev.pid] # "none"
      BY <1>1, <2>1, <3>1, Zenon DEF StateInv
    <3> QED  BY <1>9, <3>1, <3>2, SMT
  <2>2. CASE i = Len(console) + 1
    <3>1. console'[i] = l
      BY <1>4, <2>2, Zenon DEF Grown
    <3> QED  BY <1>5, <1>9, <3>1, SMT
  <2>3. i \in DOMAIN console \/ i = Len(console) + 1
    <3>1. DOMAIN console = 1..Len(console) /\ Len(console) \in Nat
      BY <1>1, Lengths
    <3> QED  BY <1>4, <3>1, SMT DEF Grown
  <2> QED  BY <2>1, <2>2, <2>3
<1>15. StateInv'
  <2>1. st' \in [Task -> STATES]
    <3>1. \A p \in Task : st[p] \in STATES /\ (p = x \/ p # x)
      BY <1>3, Zenon
    <3>2. "zombie" \in STATES /\ "ready" \in STATES
      BY DEF STATES
    <3>3. \A p \in Task : st'[p] \in STATES
      BY <1>9, <1>10, <3>1, <3>2, SMT
    <3>4. st' = [p \in Task |-> st'[p]]
      <4>1. DOMAIN st = Task
        BY <1>3, Zenon
      <4>2. st' = [p \in DOMAIN st |-> st'[p]]
        BY <1>2, Zenon
      <4> QED  BY <4>1, <4>2, Zenon
    <3> QED  BY <3>3, <3>4, Zenon
  <2>2. end' \in [Child -> Nat \cup {NULL}]
    BY <1>2, <1>3, SMT
  <2>3. \A p \in Task : st'[p] = "running" <=> cpu' = p
    <3> SUFFICES ASSUME NEW p \in Task PROVE st'[p] # "running" /\ cpu' # p
      OBVIOUS
    <3>1. cpu' # p
      BY <1>2, TaskNumbers, Zenon
    <3>2. st'[p] # "running"
      BY <1>2, <1>3, <1>9, <1>10, SMT
    <3> QED  BY <3>1, <3>2
  <2>4. at' = "pause" => \E p \in Child : st'[p] = "none"
    <3> SUFFICES ASSUME at = "pause" PROVE \E p \in Child : st'[p] = "none"
      BY <1>2, Zenon
    <3>1. PICK p \in Child : st[p] = "none"
      BY <1>1, Zenon DEF StateInv
    <3>2. p # x
      <4>1. st[x] = "running"
        BY <1>2, <1>3, <1>8, Zenon
      <4> QED  BY <3>1, <4>1
    <3> QED  BY <1>9, <3>1, <3>2, Zenon
  <2>5. /\ tick' \in Nat /\ ran' \in Nat /\ cpu' \in Task \cup {NULL}
        /\ used' \in [Child -> Nat] /\ hidden' \in [Child -> Nat]
        /\ first' \in [Child -> Nat \cup {NULL}]
    BY <1>1, <1>2, Zenon DEF StateInv
  <2> QED  BY <1>2, <1>11, <1>14, <2>1, <2>2, <2>3, <2>4, <2>5, Zenon DEF StateInv
<1>16. /\ IsSeq(console') /\ LinesInv(console', tick') /\ WordsInv(console', job'.algo, at')
       /\ StateInv' /\ \A p \in Child : ChildOf(p)'
  BY <1>2, <1>7, <1>12, <1>13, <1>15, Zenon
<1> QED  BY <1>16, Zenon DEF ConsoleInv

\* A task is dispatched.
LEMMA Dispatching ==
  ASSUME ConsoleInv, NEW x \in Task, Dispatch(x) PROVE ConsoleInv'
<1> DEFINE l == KernelLine("DISPATCH", x, tick)
<1>1. /\ IsSeq(console) /\ LinesInv(console, tick) /\ StateInv
      /\ \A p \in Child : ChildOf(p)
      /\ WordsInv(console, job.algo, at)
  BY Zenon DEF ConsoleInv
<1>2. /\ cpu = NULL /\ cpu' = x /\ tick' = tick /\ ran' = 0 /\ used' = used /\ hidden' = hidden
      /\ job' = job /\ at' = at /\ end' = end /\ st[x] = "ready"
      /\ first' = IF x \in Child /\ first[x] = NULL THEN [first EXCEPT ![x] = tick] ELSE first
      /\ st' = [st EXCEPT ![x] = "running"]
      /\ console' = console \o <<l>>
  BY DEF Dispatch, Write, Ready
<1>3. /\ tick \in Nat /\ ran \in Nat
      /\ \A p \in Child : used[p] \in Nat /\ hidden[p] \in Nat /\ first[p] \in Nat \cup {NULL}
      /\ \A p \in Task : st[p] = "running" <=> cpu = p
      /\ st \in [Task -> STATES] /\ first \in [Child -> Nat \cup {NULL}]
  BY <1>1, SMT DEF StateInv
<1>4. Grown(console', console, l)
  <2> HIDE DEF l
  <2> QED  BY <1>1, <1>2, Grows, SMT
<1>5. /\ l.ev = Ev("DISPATCH", x, tick, NULL) /\ l.ev.event = "DISPATCH" /\ l.ev.pid = x
      /\ l.ev.tick = tick /\ l.words = {AlgoWord(mode)}
  BY DEF Ev, KernelLine
<1>6. Sound(l.ev, tick) /\ l.ev.tick \in {NULL, tick}
  <2>1. x \in Int /\ tick <= tick /\ tick # NULL /\ "DISPATCH" \in NAMES /\ NULL \in Int
    BY <1>3, TaskNumbers, SMT DEF NULL, NAMES
  <2>2. Ev("DISPATCH", x, tick, NULL) \in Event
    BY <1>3, <2>1, EventsOf, SMT
  <2> HIDE DEF l
  <2>3. l.ev \in Event
    BY <1>5, <2>2, Zenon
  <2> QED  BY <1>5, <2>1, <2>3, SMT DEF Sound, TIMED
<1> HIDE DEF l
<1>7. IsSeq(console') /\ LinesInv(console', tick)
  <2>1. IsSeq(console')
    BY <1>4, Zenon DEF Grown
  <2>2. LinesInv(console', tick)
    <3>1. LinesInv(console, tick) /\ IsSeq(console) /\ tick \in Nat
      BY <1>1, <1>3, Zenon
    <3> QED  BY <1>4, <1>6, <3>1, LinesGrow, Zenon
  <2> QED  BY <2>1, <2>2
<1>8. \A p \in Child : p \in Task /\ p # Harness /\ p # NULL
  BY TaskNumbers, Zenon
<1>9. \A p \in Task : st'[p] = IF p = x THEN "running" ELSE st[p]
  BY <1>2, <1>3, Zenon
<1>10. at # "done" /\ (x \in Child => at \notin EARLY)
  <2>1. at # "done"
    <3>1. Harness # NULL
      BY TaskNumbers DEF Task
    <3> QED  BY <1>1, <1>2, <3>1, Zenon DEF StateInv
  <2>2. x \in Child /\ at \in EARLY => st[x] = "none"
    BY <1>1, Zenon DEF StateInv
  <2> QED  BY <1>2, <2>1, <2>2
<1>11. ASSUME NEW p \in Child PROVE ChildOf(p)'
  <2> DEFINE z == (st[p] = "zombie")
             u == used[p]
             h == hidden[p]
             f == first[p]
             e == end[p]
  <2>1. ChildInv(console, tick, p, FALSE, ran, u, h, f, e, z)
    <3>1. (cpu = p) = FALSE
      BY <1>2, <1>8
    <3> QED  BY <1>1, <3>1, Zenon DEF ChildOf
  <2>2. z \in BOOLEAN /\ u \in Nat /\ h \in Nat /\ f \in Nat \cup {NULL}
    BY <1>3
  <2>3. CASE p = x
    <3>1. z = FALSE
      BY <1>2, <2>3
    <3>2. ChildInv(console, tick, p, FALSE, ran, u, h, f, e, FALSE)
      <4> HIDE DEF z
      <4> QED  BY <2>1, <3>1, Zenon
    <3>3. ChildInv(console', tick, p, TRUE, 0, u, h, IF f = NULL THEN tick ELSE f, e, FALSE)
      <4>1. l.ev = Ev("DISPATCH", p, tick, NULL)
        BY <1>5, <2>3
      <4> HIDE DEF u, h, f, e, z
      <4> QED  BY <1>1, <1>3, <1>4, <2>2, <3>2, <4>1, ChildDispatched, ZenonT(30)
    <3>4. /\ (cpu' = p) = TRUE /\ (st'[p] = "zombie") = FALSE
          /\ first'[p] = IF f = NULL THEN tick ELSE f
      <4>1. (cpu' = p) = TRUE /\ (st'[p] = "zombie") = FALSE
        BY <1>2, <1>8, <1>9, <2>3
      <4>2. first'[p] = IF f = NULL THEN tick ELSE f
        BY <1>2, <1>3, <2>3, Zenon
      <4> QED  BY <4>1, <4>2, Zenon
    <3>5. ChildInv(console', tick', p, cpu' = p, ran', used'[p], hidden'[p], first'[p], end'[p],
                   st'[p] = "zombie")
      BY <1>2, <3>3, <3>4, Zenon
    <3> QED  BY <3>5, Zenon DEF ChildOf
  <2>4. CASE p # x
    <3>1. l.ev.pid # p
      BY <1>5, <2>4
    <3>2. ChildInv(console', tick, p, FALSE, ran, u, h, f, e, z)
      <4> DEFINE on == (cpu = p)
      <4>1. on \in BOOLEAN /\ on = FALSE
        BY <1>2, <1>8
      <4> HIDE DEF u, h, f, e, z, on
      <4>2. ChildInv(console, tick, p, on, ran, u, h, f, e, z) /\ (on => l.ev.event # "DISPATCH")
        BY <2>1, <4>1, Zenon
      <4>3. ChildInv(console', tick, p, on, ran, u, h, f, e, z)
        BY <1>1, <1>4, <2>2, <3>1, <4>1, <4>2, ChildElse, SMT
      <4> QED  BY <4>1, <4>3, Zenon
    <3>3. ChildInv(console', tick, p, FALSE, 0, u, h, f, e, z)
      BY <3>2, ChildOff, Zenon
    <3>4. (cpu' = p) = FALSE /\ (st'[p] = "zombie") = z /\ first'[p] = f
      <4>1. (cpu' = p) = FALSE
        BY <1>2, <2>4
      <4>2. (st'[p] = "zombie") = z
        BY <1>8, <1>9, <2>4, Zenon
      <4>3. first'[p] = f
        BY <1>2, <1>3, <2>4, Zenon
      <4> QED  BY <4>1, <4>2, <4>3, Zenon
    <3>5. ChildInv(console', tick', p, cpu' = p, ran', used'[p], hidden'[p], first'[p], end'[p],
                   st'[p] = "zombie")
      <4> HIDE DEF z
      <4> QED  BY <1>2, <3>3, <3>4, Zenon
    <3> QED  BY <3>5, Zenon DEF ChildOf
  <2> QED  BY <2>3, <2>4
<1>12. WordsInv(console', job.algo, at)
  <2>1. l.words \cap {Marker, RunBegin, RunEnd} = {}
    BY <1>5, Words, Zenon
  <2>2. Len(console) >= 2
    BY <1>1 DEF LinesInv
  <2>3. at = "tail" => Marker \in l.words \/ at = "tail"
    OBVIOUS
  <2> QED  BY <1>1, <1>4, <1>10, <2>1, <2>2, <2>3, WordsGrow, SMT
<1>13. \A i \in DOMAIN console' : console'[i].ev.pid \in Child => st'[console'[i].ev.pid] # "none"
  <2> SUFFICES ASSUME NEW i \in DOMAIN console', console'[i].ev.pid \in Child
               PROVE  st'[console'[i].ev.pid] # "none"
    OBVIOUS
  <2>1. CASE i \in DOMAIN console
    <3>1. console'[i] = console[i]
      BY <1>4, <2>1, Zenon DEF Grown
    <3>2. st[console[i].ev.pid] # "none"
      BY <1>1, <2>1, <3>1, Zenon DEF StateInv
    <3> QED  BY <1>8, <1>9, <3>1, <3>2, SMT
  <2>2. CASE i = Len(console) + 1
    <3>1. console'[i] = l
      BY <1>4, <2>2, Zenon DEF Grown
    <3> QED  BY <1>5, <1>8, <1>9, <3>1, SMT
  <2>3. i \in DOMAIN console \/ i = Len(console) + 1
    <3>1. DOMAIN console = 1..Len(console) /\ Len(console) \in Nat
      BY <1>1, Lengths
    <3> QED  BY <1>4, <3>1, SMT DEF Grown
  <2> QED  BY <2>1, <2>2, <2>3
<1>14. StateInv'
  <2>1. st' \in [Task -> STATES]
    BY <1>2, <1>3, SMT DEF STATES
  <2>2. first' \in [Child -> Nat \cup {NULL}]
    BY <1>2, <1>3, SMT
  <2>3. \A p \in Task : st'[p] = "running" <=> cpu' = p
    <3> SUFFICES ASSUME NEW p \in Task PROVE st'[p] = "running" <=> cpu' = p
      OBVIOUS
    <3>1. p # x => st[p] # "running"
      BY <1>2, <1>3, TaskNumbers, Zenon
    <3> QED  BY <1>2, <1>9, <3>1, SMT
  <2>4. \A p \in Child : st[p] = "none" <=> st'[p] = "none"
    BY <1>2, <1>8, <1>9, SMT
  <2>5. /\ at' \in EARLY => \A p \in Child : st'[p] = "none"
        /\ at' = "pause" => \E p \in Child : st'[p] = "none"
    BY <1>1, <1>2, <2>4, Zenon DEF StateInv
  <2>6. /\ tick' \in Nat /\ ran' \in Nat /\ cpu' \in Task \cup {NULL}
        /\ used' \in [Child -> Nat] /\ hidden' \in [Child -> Nat]
        /\ end' \in [Child -> Nat \cup {NULL}]
    <3>1. 0 \in Nat
      OBVIOUS
    <3> QED  BY <1>1, <1>2, <3>1, Zenon DEF StateInv
  <2> QED  BY <1>2, <1>10, <1>13, <2>1, <2>2, <2>3, <2>5, <2>6, Zenon DEF StateInv
<1>15. /\ IsSeq(console') /\ LinesInv(console', tick') /\ WordsInv(console', job'.algo, at')
       /\ StateInv' /\ \A p \in Child : ChildOf(p)'
  BY <1>2, <1>7, <1>11, <1>12, <1>14, Zenon
<1> QED  BY <1>15, Zenon DEF ConsoleInv

\* A function given one value more.
LEMMA Excepted ==
  ASSUME NEW S, NEW T, NEW f \in [S -> T], NEW g, NEW x, NEW v \in T, g = [f EXCEPT ![x] = v]
  PROVE  g \in [S -> T] /\ \A y \in S : g[y] = IF y = x THEN v ELSE f[y]
<1>1. DOMAIN f = S /\ g = [y \in DOMAIN f |-> IF y = x THEN v ELSE f[y]]
  BY Zenon
<1>2. g = [y \in S |-> IF y = x THEN v ELSE f[y]]
  BY <1>1, Zenon
<1> QED  BY <1>2, Zenon

\* A child finds its gate closed.
LEMMA Gating ==
  ASSUME ConsoleInv, NEW x \in Child, Gated(x) PROVE ConsoleInv'
<1>1. /\ IsSeq(console) /\ LinesInv(console, tick) /\ StateInv
      /\ \A p \in Child : ChildOf(p)
      /\ WordsInv(console, job.algo, at)
  BY Zenon DEF ConsoleInv
<1>2. /\ cpu = x /\ cpu' = NULL /\ tick' = tick /\ ran' = ran /\ used' = used
      /\ first' = first /\ job' = job /\ at' = at /\ end' = end /\ console' = console
      /\ hidden' = [hidden EXCEPT ![x] = @ + ran]
      /\ st' = [st EXCEPT ![x] = "gate"]
  BY DEF Gated
<1>3. /\ tick \in Nat /\ ran \in Nat
      /\ \A p \in Child : used[p] \in Nat /\ hidden[p] \in Nat /\ first[p] \in Nat \cup {NULL}
      /\ \A p \in Task : st[p] = "running" <=> cpu = p
      /\ st \in [Task -> STATES] /\ hidden \in [Child -> Nat]
  BY <1>1, SMT DEF StateInv
<1>4. \A p \in Child : p \in Task /\ p # Harness /\ p # NULL
  BY TaskNumbers, Zenon
<1>5. \A p \in Task : st'[p] = IF p = x THEN "gate" ELSE st[p]
  BY <1>2, <1>3, Zenon
<1>6. st[x] = "running"
  BY <1>2, <1>3, <1>4, Zenon
<1>7. ASSUME NEW p \in Child PROVE ChildOf(p)'
  <2> DEFINE z == (st[p] = "zombie")
             u == used[p]
             h == hidden[p]
             f == first[p]
             e == end[p]
  <2>1. ChildInv(console, tick, p, cpu = p, ran, u, h, f, e, z)
    BY <1>1, Zenon DEF ChildOf
  <2>2. u \in Nat /\ h \in Nat /\ f \in Nat \cup {NULL}
    BY <1>3
  <2>3. CASE p = x
    <3>1. z = FALSE /\ (cpu = p) = TRUE
      BY <1>2, <1>6, <2>3
    <3>2. ChildInv(console, tick, p, TRUE, ran, u, h, f, e, FALSE)
      <4> HIDE DEF z
      <4> QED  BY <2>1, <3>1, Zenon
    <3>3. ChildInv(console, tick, p, FALSE, ran, u, h + ran, f, e, FALSE)
      <4> HIDE DEF u, h, f, e, z
      <4> QED  BY <1>3, <2>2, <3>2, ChildGated, ZenonT(30)
    <3>4. (cpu' = p) = FALSE /\ (st'[p] = "zombie") = FALSE /\ hidden'[p] = h + ran
      <4>1. (cpu' = p) = FALSE /\ (st'[p] = "zombie") = FALSE
        BY <1>2, <1>4, <1>5, <2>3
      <4>2. hidden'[p] = h + ran
        BY <1>2, <1>3, <2>3, Zenon
      <4> QED  BY <4>1, <4>2, Zenon
    <3>5. ChildInv(console', tick', p, cpu' = p, ran', used'[p], hidden'[p], first'[p], end'[p],
                   st'[p] = "zombie")
      BY <1>2, <3>3, <3>4, Zenon
    <3> QED  BY <3>5, Zenon DEF ChildOf
  <2>4. CASE p # x
    <3>1. (cpu' = p) = (cpu = p)
      BY <1>2, <1>4, <2>4
    <3>2. (st'[p] = "zombie") = z
      BY <1>4, <1>5, <2>4, Zenon
    <3>3. hidden'[p] = h
      BY <1>2, <1>3, <2>4, Zenon
    <3>4. ChildInv(console', tick', p, cpu' = p, ran', used'[p], hidden'[p], first'[p], end'[p],
                   st'[p] = "zombie")
      <4> HIDE DEF z
      <4> QED  BY <1>2, <2>1, <3>1, <3>2, <3>3, Zenon
    <3> QED  BY <3>4, Zenon DEF ChildOf
  <2> QED  BY <2>3, <2>4
<1>8. StateInv'
  <2>1. st' \in [Task -> STATES]
    <3>1. "gate" \in STATES
      BY DEF STATES
    <3> QED  BY <1>2, <1>3, <3>1, Excepted, Zenon
  <2>2. hidden' \in [Child -> Nat]
    BY <1>2, <1>3, SMT
  <2>3. \A p \in Task : st'[p] = "running" <=> cpu' = p
    <3> SUFFICES ASSUME NEW p \in Task PROVE st'[p] # "running" /\ cpu' # p
      OBVIOUS
    <3>1. p # x => st[p] # "running"
      BY <1>2, <1>3, Zenon
    <3>2. cpu' # p
      BY <1>2, TaskNumbers, Zenon
    <3> QED  BY <1>5, <3>1, <3>2, SMT
  <2>4. \A p \in Child : st[p] = "none" <=> st'[p] = "none"
    BY <1>4, <1>5, <1>6, SMT
  <2>5. at # "done"
    BY <1>1, <1>2, <1>4, Zenon DEF StateInv
  <2>6. /\ at' \in EARLY => \A p \in Child : st'[p] = "none"
        /\ at' = "pause" => \E p \in Child : st'[p] = "none"
        /\ \A i \in DOMAIN console' : console'[i].ev.pid \in Child => st'[console'[i].ev.pid] # "none"
    BY <1>1, <1>2, <2>4, Zenon DEF StateInv
  <2>7. /\ tick' \in Nat /\ ran' \in Nat /\ cpu' \in Task \cup {NULL}
        /\ used' \in [Child -> Nat] /\ first' \in [Child -> Nat \cup {NULL}]
        /\ end' \in [Child -> Nat \cup {NULL}]
    BY <1>1, <1>2, Zenon DEF StateInv
  <2> QED  BY <1>2, <2>1, <2>2, <2>3, <2>5, <2>6, <2>7, Zenon DEF StateInv
<1>9. WordsInv(console, job.algo, at')
  BY <1>1, <1>2, Zenon
<1> QED  BY <1>2, <1>7, <1>8, <1>9, Quiet, Zenon

\* A step of the harness without a line, once it has begun.
LEMMA HarnessMoves ==
  ASSUME ConsoleInv, HarnessStill, console' = console, cpu = Harness,
         \/ cpu' = Harness /\ st'[Harness] = "running"
         \/ cpu' = NULL /\ st'[Harness] # "running",
         st' \in [Task -> STATES],
         \A p \in Child : /\ st'[p] = "zombie" <=> st[p] = "zombie"
                          /\ st'[p] # "running" /\ (st[p] # "none" => st'[p] # "none"),
         at \notin {"begin", "rest", "tail", "done"}, at' \notin {"begin", "rest", "tail", "done"},
         at' \in EARLY => at \in EARLY /\ st' = st,
         at' = "pause" => \E p \in Child : st'[p] = "none"
  PROVE  ConsoleInv'
<1>1. IsSeq(console) /\ StateInv /\ WordsInv(console, job.algo, at)
  BY Zenon DEF ConsoleInv
<1>2. WordsInv(console, job.algo, at')
  BY <1>1, WordsMove, SMT
<1>3. /\ tick' = tick /\ ran' = ran /\ used' = used /\ hidden' = hidden /\ first' = first
      /\ end' = end
  BY DEF HarnessStill
<1>4. \A p \in Task : st'[p] = "running" <=> cpu' = p
  <2> SUFFICES ASSUME NEW p \in Task PROVE st'[p] = "running" <=> cpu' = p
    OBVIOUS
  <2>1. CASE p = Harness
    <3>1. NULL # Harness
      BY TaskNumbers DEF Task
    <3> QED  BY <2>1, <3>1
  <2>2. CASE p # Harness
    <3>1. p \in Child /\ cpu' # p
      BY <2>2, TaskNumbers
    <3> QED  BY <3>1, Zenon
  <2> QED  BY <2>1, <2>2
<1>5. StateInv'
  <2>1. /\ tick' \in Nat /\ ran' \in Nat
        /\ used' \in [Child -> Nat] /\ hidden' \in [Child -> Nat]
        /\ first' \in [Child -> Nat \cup {NULL}] /\ end' \in [Child -> Nat \cup {NULL}]
    BY <1>1, <1>3, Zenon DEF StateInv
  <2>2. cpu' \in Task \cup {NULL}
    BY DEF Task
  <2>3. at' \in EARLY => \A p \in Child : st'[p] = "none"
    BY <1>1, Zenon DEF StateInv
  <2>4. \A i \in DOMAIN console' : console'[i].ev.pid \in Child => st'[console'[i].ev.pid] # "none"
    BY <1>1, Zenon DEF StateInv
  <2>5. at' # "done"
    OBVIOUS
  <2> QED  BY <1>4, <2>1, <2>2, <2>3, <2>4, <2>5, Zenon DEF StateInv
<1>6. cpu' \in {Harness, NULL}
  OBVIOUS
<1> QED  BY <1>2, <1>5, <1>6, HarnessQuiet, Zenon

\* Unforked children are forked in order.
LEMMA Forked ==
  ASSUME Unforked # {} PROVE NextChild \in Unforked
<1>1. Unforked \subseteq Nat
  BY TaskNumbers DEF Unforked
<1>2. \E p \in Unforked : \A q \in Unforked : p <= q
  BY <1>1, LeastOf
<1> QED  BY <1>2, Zenon DEF NextChild

\* The steps of the harness that print nothing.
LEMMA RunMoves ==
  ASSUME ConsoleInv,
         \/ Switch \/ Sync \/ Edge \/ PauseBeforeFork \/ PauseOn \/ Fork \/ Release \/ WaitSleep
  PROVE  ConsoleInv'
<1>1. StateInv
  BY Zenon DEF ConsoleInv
<1>2. /\ st \in [Task -> STATES] /\ \A p \in Task : st[p] = "running" <=> cpu = p
      /\ at \in EARLY => \A p \in Child : st[p] = "none"
      /\ at = "pause" => \E p \in Child : st[p] = "none"
  BY <1>1, Zenon DEF StateInv
<1>3. Harness \in Task /\ \A p \in Child : p \in Task /\ p # Harness
  BY TaskNumbers
<1>4. ASSUME cpu = Harness PROVE st[Harness] = "running" /\ \A p \in Child : st[p] # "running"
  BY <1>2, <1>3, <1>4
<1>5. CASE Switch \/ Sync \/ Edge
  <2>1. /\ HarnessStill /\ console' = console /\ cpu = Harness /\ cpu' = cpu /\ st' = st
        /\ at \in {"switch", "tsync", "edge"} /\ at' \in {"tsync", "edge", "loop"}
    BY <1>5 DEF Switch, Sync, Edge, HarnessAt
  <2>2. /\ at \notin {"begin", "rest", "tail", "done"} /\ at' \notin {"begin", "rest", "tail", "done"}
        /\ at' # "pause" /\ at \in EARLY
    BY <2>1 DEF EARLY
  <2> QED  BY <1>2, <1>4, <2>1, <2>2, HarnessMoves
<1>6. CASE PauseBeforeFork \/ PauseOn \/ WaitSleep
  <2>1. /\ HarnessStill /\ console' = console /\ cpu = Harness /\ cpu' = NULL
        /\ st' \in {[st EXCEPT ![Harness] = "pause"], [st EXCEPT ![Harness] = "wait"]}
        /\ at \in {"loop", "pause", "wait"} /\ at' \in {"pause", "wait"}
        /\ at' = "pause" => Unforked # {}
    BY <1>2, <1>6 DEF PauseBeforeFork, PauseOn, WaitSleep, HarnessAt, Unforked
  <2>2. /\ st' \in [Task -> STATES] /\ st'[Harness] # "running"
        /\ \A p \in Child : st'[p] = st[p]
    BY <1>2, <1>3, <2>1, SMT DEF STATES
  <2>3. /\ at \notin {"begin", "rest", "tail", "done"} /\ at' \notin {"begin", "rest", "tail", "done"}
        /\ at' \notin EARLY
    BY <2>1 DEF EARLY
  <2>4. at' = "pause" => \E p \in Child : st'[p] = "none"
    BY <2>1, <2>2 DEF Unforked
  <2> QED  BY <1>4, <2>1, <2>2, <2>3, <2>4, HarnessMoves
<1>7. CASE Fork
  <2>1. /\ HarnessStill /\ console' = console /\ cpu = Harness /\ cpu' = cpu
        /\ st' = [st EXCEPT ![NextChild] = "ready"]
        /\ at \in {"loop", "pause"} /\ at' = "gate"
        /\ at = "loop" => Unforked # {}
    BY <1>7 DEF Fork, HarnessAt
  <2>2. Unforked # {}
    BY <1>2, <2>1 DEF Unforked
  <2>3. NextChild \in Child /\ st[NextChild] = "none"
    BY <2>2, Forked DEF Unforked
  <2>4. /\ st' \in [Task -> STATES]
        /\ \A p \in Task : st'[p] = IF p = NextChild THEN "ready" ELSE st[p]
    <3> DEFINE n == NextChild
    <3>1. st' = [st EXCEPT ![n] = "ready"]
      BY <2>1
    <3> HIDE DEF n
    <3>2. st' \in [Task -> STATES] /\ \A p \in Task : st'[p] = IF p = n THEN "ready" ELSE st[p]
      <4>1. "ready" \in STATES
        BY DEF STATES
      <4> QED  BY <1>2, <3>1, <4>1, Excepted, Zenon
    <3> QED  BY <3>2 DEF n
  <2>5. /\ at \notin {"begin", "rest", "tail", "done"} /\ at' \notin {"begin", "rest", "tail", "done"}
        /\ at' \notin EARLY /\ at' # "pause"
    BY <2>1 DEF EARLY
  <2>6. /\ st'[Harness] = "running"
        /\ \A p \in Child : /\ st'[p] = "zombie" <=> st[p] = "zombie"
                            /\ st'[p] # "running" /\ (st[p] # "none" => st'[p] # "none")
    <3> DEFINE n == NextChild
    <3>1. n \in Child /\ st[n] = "none" /\ \A p \in Task : st'[p] = IF p = n THEN "ready" ELSE st[p]
      BY <2>3, <2>4
    <3> HIDE DEF n
    <3> QED  BY <1>3, <1>4, <2>1, <3>1
  <2> QED  BY <2>1, <2>4, <2>5, <2>6, HarnessMoves
<1>8. CASE Release
  <2> DEFINE x == CHOOSE q \in Child \ Unforked : \A c \in Child \ Unforked : c <= q
  <2>1. /\ HarnessStill /\ console' = console /\ cpu = Harness /\ cpu' = cpu
        /\ st' = [st EXCEPT ![x] = IF @ = "gate" THEN "ready" ELSE @]
        /\ at = "gate" /\ at' \in {"wait", "loop"}
    BY <1>8 DEF Release, HarnessAt
  <2> HIDE DEF x
  <2>2. /\ st' \in [Task -> STATES]
        /\ \A p \in Task : st'[p] = IF p = x /\ st[p] = "gate" THEN "ready" ELSE st[p]
    <3>1. DOMAIN st = Task /\ \A p \in Task : st[p] \in STATES
      BY <1>2, Zenon
    <3>2. st' = [p \in Task |-> IF p = x THEN (IF st[x] = "gate" THEN "ready" ELSE st[x]) ELSE st[p]]
      BY <2>1, <3>1, Zenon
    <3>3. \A p \in Task : st'[p] = IF p = x /\ st[p] = "gate" THEN "ready" ELSE st[p]
      BY <3>2, Zenon
    <3>4. "ready" \in STATES
      BY DEF STATES
    <3>5. \A p \in Task : st'[p] \in STATES
      BY <3>1, <3>3, <3>4, Zenon
    <3>6. st' = [p \in Task |-> st'[p]]
      BY <3>2, Zenon
    <3> QED  BY <3>3, <3>5, <3>6, Zenon
  <2>3. /\ at \notin {"begin", "rest", "tail", "done"} /\ at' \notin {"begin", "rest", "tail", "done"}
        /\ at' \notin EARLY /\ at' # "pause"
    BY <2>1 DEF EARLY
  <2>4. /\ st'[Harness] = "running"
        /\ \A p \in Child : /\ st'[p] = "zombie" <=> st[p] = "zombie"
                            /\ st'[p] # "running" /\ (st[p] # "none" => st'[p] # "none")
    BY <1>3, <1>4, <2>1, <2>2
  <2> QED  BY <2>1, <2>2, <2>3, <2>4, HarnessMoves
<1> QED  BY <1>5, <1>6, <1>7, <1>8

\* The steps that print a line of their own.
LEMMA RunSpeaks ==
  ASSUME ConsoleInv,
         BeginWhole \/ BeginRest \/ End \/ \E p \in Child : Defines(p)
  PROVE  ConsoleInv'
<1>1. /\ IsSeq(console) /\ LinesInv(console, tick) /\ StateInv
      /\ WordsInv(console, job.algo, at) /\ Len(console) >= 2
  BY Zenon DEF ConsoleInv, LinesInv
<1>2. /\ tick \in Nat /\ cpu \in Task \cup {NULL}
      /\ \A p \in Task : st[p] = "running" <=> cpu = p
      /\ at \in EARLY => \A p \in Child : st[p] = "none"
      /\ \A i \in DOMAIN console : console[i].ev.pid \in Child => st[console[i].ev.pid] # "none"
  BY <1>1, Zenon DEF StateInv
<1>3. at \in EARLY => Childless(console)
  BY <1>2, Zenon DEF Childless
<1>4. NULL <= tick /\ NULL \in Nat \cup {NULL} /\ NULL \in Int
  BY <1>2, SMT DEF NULL
<1>5. ASSUME NEW name \in {"RUN_BEGIN", "RUN_END", "none"}, NEW l, l.ev = Ev(name, NULL, NULL, NULL)
      PROVE  Sound(l.ev, tick) /\ l.ev.tick = NULL /\ l.ev.pid = NULL
  <2>1. name \in NAMES /\ name \notin TIMED /\ name # "PROC_DEF"
    BY DEF NAMES, TIMED
  <2>2. /\ Ev(name, NULL, NULL, NULL) \in Event /\ Ev(name, NULL, NULL, NULL).event = name
        /\ Ev(name, NULL, NULL, NULL).pid = NULL /\ Ev(name, NULL, NULL, NULL).tick = NULL
    BY <1>4, <2>1, EventsOf, SMT
  <2> DEFINE e == l.ev
  <2>3. e \in Event /\ e.event = name /\ e.pid = NULL /\ e.tick = NULL
    BY <1>5, <2>2, Zenon
  <2> HIDE DEF e
  <2>4. Sound(e, tick)
    BY <1>4, <2>1, <2>3, SMT DEF Sound
  <2> QED  BY <2>3, <2>4 DEF e
<1>6. CASE BeginWhole
  <2> DEFINE l == UserLine({RunBegin, AlgoWord(job.algo)}, Ev("RUN_BEGIN", NULL, NULL, NULL))
  <2>1. /\ cpu = Harness /\ at = "begin" /\ at' = "switch" /\ tick' = tick /\ job' = job
        /\ UNCHANGED <<cpu, ran, st, used, hidden, first, end>> /\ console' = console \o <<l>>
    BY <1>6 DEF BeginWhole, HarnessAt, Write, HarnessStill
  <2>2. l.ev = Ev("RUN_BEGIN", NULL, NULL, NULL) /\ l.words = {RunBegin, AlgoWord(job.algo), Marker}
    BY DEF UserLine
  <2> HIDE DEF l
  <2>3. Sound(l.ev, tick) /\ l.ev.tick = NULL /\ l.ev.pid = NULL
    BY <1>5, <2>2, Zenon
  <2>4. Grown(console', console, l)
    BY <1>1, <2>1, Grows, SMT
  <2>5. RunBegin \in l.words /\ Marker \in l.words /\ RunEnd \notin l.words
    BY <2>2, Words, SMT
  <2>6. Childless(console)
    BY <1>3, <2>1 DEF EARLY
  <2>7. WordsInv(console', job.algo, at')
    BY <1>1, <2>1, <2>4, <2>5, <2>6, WordsGrow, SMT
  <2>8. at \in EARLY /\ at' # "pause" /\ at' # "done"
    BY <2>1 DEF EARLY
  <2> QED  BY <2>1, <2>3, <2>4, <2>7, <2>8, Speaks
<1>7. CASE BeginRest
  <2> DEFINE l == [words |-> {AlgoWord(job.algo)} \cup (IF at = "rest" THEN {RunBegin} ELSE {}),
                   ev |-> NoEvent]
  <2>1. /\ cpu = Harness /\ at \in {"rest", "tail"} /\ at' = "switch" /\ tick' = tick /\ job' = job
        /\ UNCHANGED <<cpu, ran, st, used, hidden, first, end>> /\ console' = console \o <<l>>
    BY <1>7 DEF BeginRest, Write, HarnessStill
  <2>2. /\ l.ev = Ev("none", NULL, NULL, NULL) /\ AlgoWord(job.algo) \in l.words
        /\ l.words \subseteq {AlgoWord(job.algo), RunBegin}
        /\ at = "rest" => RunBegin \in l.words
    BY DEF NoEvent
  <2> HIDE DEF l
  <2>3. Sound(l.ev, tick) /\ l.ev.tick = NULL /\ l.ev.pid = NULL
    BY <1>5, <2>2, Zenon
  <2>4. Grown(console', console, l)
    BY <1>1, <2>1, Grows, SMT
  <2>5. RunEnd \notin l.words
    BY <2>2, Words, SMT
  <2>6. Childless(console)
    BY <1>3, <2>1 DEF EARLY
  <2>7. WordsInv(console', job.algo, at')
    BY <1>1, <2>1, <2>2, <2>4, <2>5, <2>6, WordsGrow, SMT
  <2>8. at \in EARLY /\ at' # "pause" /\ at' # "done"
    BY <2>1 DEF EARLY
  <2> QED  BY <2>1, <2>3, <2>4, <2>7, <2>8, Speaks
<1>8. CASE End
  <2> DEFINE l == UserLine({RunEnd}, Ev("RUN_END", NULL, NULL, NULL))
  <2>1. /\ cpu = Harness /\ at = "wait" /\ at' = "done" /\ tick' = tick /\ job' = job
        /\ UNCHANGED <<cpu, ran, st, used, hidden, first, end>> /\ console' = console \o <<l>>
        /\ Unfinished = {}
    BY <1>8 DEF End, HarnessAt, Write, HarnessStill
  <2>2. l.ev = Ev("RUN_END", NULL, NULL, NULL) /\ l.words = {RunEnd, Marker}
    BY DEF UserLine
  <2> HIDE DEF l
  <2>3. Sound(l.ev, tick) /\ l.ev.tick = NULL /\ l.ev.pid = NULL
    BY <1>5, <2>2, Zenon
  <2>4. Grown(console', console, l)
    BY <1>1, <2>1, Grows, SMT
  <2>5. RunBegin \notin l.words /\ RunEnd \in l.words
    BY <2>2, Words, SMT
  <2>6. at # "done" /\ at \notin {"begin", "rest", "tail"} /\ at' # "tail"
    BY <2>1
  <2>7. WordsInv(console', job.algo, at')
    BY <1>1, <2>1, <2>4, <2>5, <2>6, WordsGrow, SMT
  <2>8. at' \notin EARLY /\ at' # "pause" /\ \A p \in Child : st[p] = "zombie"
    BY <2>1 DEF EARLY, Unfinished
  <2> QED  BY <2>1, <2>3, <2>4, <2>7, <2>8, Speaks
<1>9. CASE \E p \in Child : Defines(p)
  <2>1. PICK p \in Child : Defines(p)
    BY <1>9
  <2> DEFINE l == UserLine({}, Ev("PROC_DEF", p, NULL, Def(p).arrival))
  <2>2. /\ cpu = p /\ at' = at /\ tick' = tick /\ job' = job
        /\ UNCHANGED <<cpu, ran, st, used, hidden, first, end>> /\ console' = console \o <<l>>
    BY <2>1 DEF Defines, Write
  <2>3. l.ev = Ev("PROC_DEF", p, NULL, Def(p).arrival) /\ l.words = {Marker}
    BY DEF UserLine
  <2> HIDE DEF l
  <2>4. Sound(l.ev, tick) /\ l.ev.tick = NULL /\ l.ev.pid = p
    <3>1. /\ p \in Int /\ p \in Task /\ Def(p).arrival \in Int
          /\ "PROC_DEF" \in NAMES /\ "PROC_DEF" \notin TIMED
      <4>1. Def(p).arrival \in Nat /\ p \in Task /\ p \in Int
        BY TaskNumbers, Zenon
      <4> QED  BY <4>1 DEF NAMES, TIMED
    <3> DEFINE a == Def(p).arrival
               e == l.ev
    <3> HIDE DEF a
    <3>2. /\ Ev("PROC_DEF", p, NULL, a) \in Event /\ Ev("PROC_DEF", p, NULL, a).event = "PROC_DEF"
          /\ Ev("PROC_DEF", p, NULL, a).pid = p /\ Ev("PROC_DEF", p, NULL, a).tick = NULL
          /\ Ev("PROC_DEF", p, NULL, a).arrival = a
      <4>1. a \in Int
        BY <3>1 DEF a
      <4> QED  BY <1>4, <3>1, <4>1, EventsOf, SMT
    <3>3. e \in Event /\ e.event = "PROC_DEF" /\ e.pid = p /\ e.tick = NULL /\ e.arrival = Def(p).arrival
      BY <2>3, <3>2, Zenon DEF a
    <3> HIDE DEF e
    <3>4. Sound(e, tick)
      BY <1>4, <3>1, <3>3, Zenon DEF Sound
    <3> QED  BY <3>3, <3>4 DEF e
  <2>5. Grown(console', console, l)
    BY <1>1, <2>2, Grows, SMT
  <2>6. RunBegin \notin l.words /\ RunEnd \notin l.words
    BY <2>3, Words, SMT
  <2>7. at \notin EARLY /\ at # "done"
    <3>1. st[p] = "running"
      BY <1>2, <2>2, TaskNumbers, Zenon
    <3>2. at \notin EARLY
      BY <1>2, <3>1
    <3>3. at # "done"
      BY <1>1, <2>2, TaskNumbers, Zenon DEF StateInv
    <3> QED  BY <3>2, <3>3
  <2>8. WordsInv(console', job.algo, at')
    <3>1. at \notin {"begin", "rest", "tail"} /\ at' = at
      BY <2>2, <2>7 DEF EARLY
    <3> QED  BY <1>1, <2>5, <2>6, <2>7, <3>1, WordsGrow, SMT
  <2> QED  BY <2>2, <2>4, <2>5, <2>7, <2>8, Speaks
<1> QED  BY <1>6, <1>7, <1>8, <1>9

\* The steps that take a tick.
LEMMA RunPasses ==
  ASSUME ConsoleInv, Tick \/ BeginCut \/ \E p \in Child : DefineCut(p) PROVE ConsoleInv'
<1>1. /\ IsSeq(console) /\ StateInv /\ WordsInv(console, job.algo, at) /\ Len(console) >= 2
  BY Zenon DEF ConsoleInv, LinesInv
<1>2. /\ cpu \in Task \cup {NULL} /\ \A p \in Task : st[p] = "running" <=> cpu = p
      /\ at \in EARLY => \A p \in Child : st[p] = "none"
      /\ at = "done" => cpu = Harness
      /\ \A i \in DOMAIN console : console[i].ev.pid \in Child => st[console[i].ev.pid] # "none"
  BY <1>1, Zenon DEF StateInv
<1>3. at \in EARLY => Childless(console)
  BY <1>2, Zenon DEF Childless
<1>4. ASSUME NEW cut, NEW preempts \in BOOLEAN, Pass(cut, preempts)
      PROVE  \/ console' = console
             \/ \E l : Grown(console', console, l) /\ l.words = cut \cup {AlgoWord(mode)}
  <2> DEFINE l == [words |-> cut \cup {AlgoWord(mode)}, ev |-> Ev("PREEMPT", cpu, tick + 1, NULL)]
  <2>1. console' = console \o <<l>> \/ console' = console \o << >>
    BY <1>4, Zenon DEF Pass, Write
  <2>2. l.words = cut \cup {AlgoWord(mode)}
    OBVIOUS
  <2> HIDE DEF l
  <2>3. console \o << >> = console /\ Grown(console \o <<l>>, console, l)
    BY <1>1, Grows, Zenon
  <2> QED  BY <2>1, <2>2, <2>3, Zenon
<1>5. ASSUME NEW cut \in {{}, {Marker}}, NEW preempts \in BOOLEAN, Pass(cut, preempts),
             at' = at, at # "done"
      PROVE  WordsInv(console', job.algo, at')
  <2>1. CASE console' = console
    BY <1>1, <1>5, <2>1, Zenon
  <2>2. CASE \E l : Grown(console', console, l) /\ l.words = cut \cup {AlgoWord(mode)}
    <3>1. PICK l : Grown(console', console, l) /\ l.words = cut \cup {AlgoWord(mode)}
      BY <2>2
    <3>2. RunBegin \notin l.words /\ RunEnd \notin l.words
      BY <3>1, Words, SMT
    <3> QED  BY <1>1, <1>5, <3>1, <3>2, WordsGrow, SMT
  <2> QED  BY <1>4, <1>5, <2>1, <2>2, Zenon
<1>6. CASE Tick
  <2>1. PICK preempts \in BOOLEAN :
          Pass({}, preempts) /\ at' = at /\ at # "done" /\ UNCHANGED <<job, first, end, hidden>>
    BY <1>6 DEF Tick
  <2>2. WordsInv(console', job.algo, at')
    BY <1>5, <2>1
  <2> QED  BY <2>1, <2>2, Passes
<1>7. CASE \E p \in Child : DefineCut(p)
  <2>1. PICK p \in Child, cut \in {{}, {Marker}} :
          Pass(cut, TRUE) /\ at' = at /\ cpu = p /\ UNCHANGED <<job, first, end, hidden>>
    BY <1>7 DEF DefineCut
  <2>2. at # "done"
    BY <1>2, <2>1, TaskNumbers
  <2>3. WordsInv(console', job.algo, at')
    BY <1>5, <2>1, <2>2
  <2> QED  BY <2>1, <2>2, <2>3, Passes
<1>8. CASE BeginCut
  <2>1. PICK cut \in BeginCuts, whole \in BOOLEAN :
          /\ cpu = Harness /\ at = "begin"
          /\ cut = {} => whole
          /\ whole => RunBegin \notin cut
          /\ Pass(cut, TRUE)
          /\ at' = IF whole THEN "rest" ELSE "tail"
          /\ UNCHANGED <<job, first, end, hidden>>
    BY <1>8, Zenon DEF BeginCut, HarnessAt
  <2>2. at' \in {"rest", "tail"} /\ (at' = "tail" => Marker \in cut) /\ RunEnd \notin cut
    BY <2>1, Words DEF BeginCuts
  <2>3. at \in EARLY /\ at' # "pause" /\ at' # "done"
    BY <2>1, <2>2 DEF EARLY
  <2>4. \E l : Grown(console', console, l) /\ l.words = cut \cup {AlgoWord(mode)}
    <3> DEFINE l == [words |-> cut \cup {AlgoWord(mode)}, ev |-> Ev("PREEMPT", cpu, tick + 1, NULL)]
    <3>1. console' = console \o <<l>>
      BY <2>1, Zenon DEF Pass, Write
    <3>2. l.words = cut \cup {AlgoWord(mode)}
      OBVIOUS
    <3> HIDE DEF l
    <3>3. Grown(console \o <<l>>, console, l)
      BY <1>1, Grows, Zenon
    <3> QED  BY <3>1, <3>2, <3>3, Zenon
  <2>5. WordsInv(console', job.algo, at')
    <3>1. PICK l : Grown(console', console, l) /\ l.words = cut \cup {AlgoWord(mode)}
      BY <2>4
    <3>2. RunEnd \notin l.words /\ (at' = "tail" => Marker \in l.words) /\ Childless(console)
      BY <1>3, <2>2, <2>3, <3>1, Words, SMT
    <3>3. at # "done" /\ at' \in {"begin", "rest", "tail"} /\ at' # "done"
      BY <2>1, <2>2
    <3> QED  BY <1>1, <3>1, <3>2, <3>3, WordsGrow, SMT
  <2> QED  BY <2>1, <2>3, <2>5, Passes
<1> QED  BY <1>6, <1>7, <1>8

\* The invariant of a run on the console.
LEMMA RunKeeps ==
  ASSUME ConsoleInv, ConsoleNext PROVE ConsoleInv'
BY Exiting, Dispatching, Gating, RunMoves, RunSpeaks, RunPasses, Zenon DEF ConsoleNext

-----------------------------------------------------------------------------
(* From the lines to the trace.                                            *)

\* The window of a run that has ended starts after the boot and before its children.
LEMMA Windowed ==
  ASSUME ConsoleInv, at = "done"
  PROVE  \E w \in 3..Len(console) :
           /\ Before(console, w)
           /\ extract_run_window(console, job.algo) = SubSeq(console, w, Len(console))
<1> DEFINE n == Len(console)
           ends == {i \in DOMAIN console : RunEnd \in console[i].words}
           upto == UpToEnd(console)
           begins == {i \in DOMAIN console : RunBegin \in console[i].words}
           named == {i \in DOMAIN console :
                       /\ AlgoWord(job.algo) \in console[i].words
                       /\ \E j \in 1..i : Marker \in console[j].words}
           starts == IF begins # {} THEN begins ELSE named
<1>1. IsSeq(console) /\ WordsInv(console, job.algo, "done") /\ n >= 2
  BY Zenon DEF ConsoleInv, LinesInv
<1>2. n \in Nat /\ DOMAIN console = 1..n
  BY <1>1, Lengths
<1>3. upto = console
  <2>1. n \in 1..n
    <3> HIDE DEF n
    <3> QED  BY <1>1, <1>2
  <2>2. ends = {n}
    <3>1. \A i \in ends : i = n
      BY <1>1, Zenon DEF WordsInv
    <3>2. n \in ends
      BY <1>1, <1>2, <2>1, Zenon DEF WordsInv
    <3> HIDE DEF ends, n
    <3> QED  BY <3>1, <3>2
  <2>3. Least({n}) = n
    <3> HIDE DEF n
    <3>1. Least({n}) \in {n}
      BY <1>2, LeastOf
    <3> QED  BY <3>1
  <2>4. upto = SubSeq(console, 1, n)
    <3>1. upto = IF ends = {} THEN console ELSE SubSeq(console, 1, Least(ends))
      BY Zenon DEF UpToEnd
    <3> HIDE DEF ends, n, upto
    <3> QED  BY <2>2, <2>3, <3>1
  <2>5. PICK S : console \in Seq(S)
    BY <1>1 DEF IsSeq
  <2>6. SubSeq(console, 1, n) = console
    BY <2>5
  <2> QED  BY <2>4, <2>6, Zenon
<1>4. extract_run_window(console, job.algo) =
        IF starts = {} THEN << >> ELSE SubSeq(console, Least(starts), n)
  <2> HIDE DEF upto, n
  <2>1. UpToEnd(console) = console
    BY <1>3 DEF upto
  <2> QED  BY <2>1, Zenon DEF extract_run_window, n
<1>5. \A i \in begins : i >= 3 /\ Before(console, i)
  BY <1>1, Zenon DEF WordsInv
<1>6. \A i \in named : i >= 3
  <2> SUFFICES ASSUME NEW i \in named PROVE i >= 3
    OBVIOUS
  <2>1. i \in 1..n
    BY <1>2, Zenon
  <2>2. PICK j \in 1..i : Marker \in console[j].words
    BY Zenon
  <2> HIDE DEF named, n
  <2>3. j \in 1..n
    BY <1>2, <2>1, <2>2, SMT
  <2>4. j >= 3
    BY <1>1, <1>2, <2>2, <2>3, Zenon DEF WordsInv
  <2> QED  BY <1>2, <2>1, <2>2, <2>4, SMT
<1>7. PICK a \in 1..n : Anchor(console, job.algo, a)
  <2>1. "done" \notin {"begin", "rest", "tail"}
    OBVIOUS
  <2> HIDE DEF n
  <2> QED  BY <1>1, <1>2, <2>1, Zenon DEF WordsInv
<1>8. begins \subseteq 1..n /\ named \subseteq 1..n /\ starts # {}
  <2>1. a \in begins \/ a \in named
    BY <1>2, <1>7, Zenon DEF Anchor
  <2> QED  BY <1>2, <2>1, Zenon
<1> DEFINE w == Least(starts)
<1>9. w \in starts /\ (\A y \in starts : w <= y) /\ w \in 1..n
  <2>1. starts \subseteq 1..n
    BY <1>8, Zenon
  <2> HIDE DEF starts
  <2>2. starts \subseteq Nat
    BY <1>2, <2>1, SMT
  <2> QED  BY <1>8, <2>1, <2>2, LeastOf, Zenon
<1>10. w >= 3 /\ Before(console, w)
  <2>1. CASE begins # {}
    <3>1. w \in begins
      BY <1>9, <2>1, Zenon
    <3> QED  BY <1>5, <3>1, Zenon
  <2>2. CASE begins = {}
    <3>1. w \in named /\ a \in starts
      BY <1>2, <1>7, <1>9, <2>2, Zenon DEF Anchor
    <3>2. w >= 3 /\ w <= a
      BY <1>6, <1>9, <3>1, Zenon
    <3>3. \A j \in 1..w - 1 : j \in 1..a - 1
      <4> HIDE DEF w, n
      <4> QED  BY <1>2, <1>7, <1>9, <3>2, SMT
    <3> QED  BY <1>7, <3>2, <3>3, Zenon DEF Anchor, Before
  <2> QED  BY <2>1, <2>2
<1> HIDE DEF w, starts, n
<1>11. w \in 3..n
  BY <1>2, <1>9, <1>10, SMT
<1> QED  BY <1>4, <1>8, <1>10, <1>11, Zenon DEF w, n

\* The trace T of the lines q: from line w on, its event k is the one of line b[k],
\* with its tick base earlier, and its arrival brought down to its first dispatch.
Copies(T, q, w, base, b) ==
  /\ \E c \in Nat : DOMAIN T = 1..c
  /\ b \in [DOMAIN T -> w..Len(q)]
  /\ \A k, l \in DOMAIN T : b[k] = b[l] => k = l
  /\ \A i \in w..Len(q) : q[i].ev # NoEvent => \E k \in DOMAIN T : b[k] = i
  /\ \A k \in DOMAIN T :
       /\ T[k].event = q[b[k]].ev.event /\ T[k].pid = q[b[k]].ev.pid
       /\ q[b[k]].ev.tick = NULL => T[k].tick = NULL
       /\ q[b[k]].ev.tick # NULL => T[k].tick = q[b[k]].ev.tick - base /\ T[k].tick \in Nat
  /\ \A k, l \in DOMAIN T :
       q[b[k]].ev.tick # NULL /\ q[b[l]].ev.tick # NULL => (k < l <=> b[k] < b[l])

Snap(T, e) ==
  LET fd == FirstTick(T, "DISPATCH", e.pid)
  IN  IF fd # NULL /\ fd < e.arrival THEN fd ELSE e.arrival

Snaps(T, q, b) ==
  \A k \in DOMAIN T : T[k].event = "PROC_DEF" => T[k].arrival = Snap(T, q[b[k]].ev)

\* T is the events of the lines q at the indices in S, those with a tick in order:
\* its k-th is the one of line L[k].
Sorted(T, q, S, c, L) ==
  /\ L \in [1..c -> S] /\ DOMAIN T = 1..c
  /\ \A k \in 1..c : T[k] = q[L[k]].ev
  /\ \A k, l \in 1..c : L[k] = L[l] => k = l
  /\ \A i \in S : q[i].ev # NoEvent => \E k \in 1..c : L[k] = i
  /\ \A k, l \in 1..c : q[L[k]].ev.tick # NULL /\ q[L[l]].ev.tick # NULL =>
       (k < l <=> L[k] < L[l])

\* parse_file, of lines whose timed events are in order.
LEMMA Parsed ==
  ASSUME NEW W, NEW n \in Nat, DOMAIN W = 1..n,
         \A i \in 1..n : W[i].ev.tick \in Nat \cup {NULL},
         \A i, j \in 1..n :
           i < j /\ W[i].ev.tick # NULL /\ W[j].ev.tick # NULL => W[i].ev.tick <= W[j].ev.tick
  PROVE  \E c \in Nat : \E L : Sorted(parse_file(W), W, 1..n, c, L)
<1> DEFINE E == [i \in DOMAIN W |-> W[i].ev]
           S == {i \in DOMAIN W : W[i].ev # NoEvent}
           R == ByTick(E)
           L == Listed(S, R)
           c == Cardinality(S)
           P(x) == Cardinality(Below(x, S, R))
<1>1. IsFiniteSet(S) /\ S \subseteq 1..n
  <2>1. IsFiniteSet(1..n)
    BY FS_Interval, SMT
  <2>2. S \subseteq 1..n
    BY Zenon
  <2> QED  BY <2>1, <2>2, FS_Subset, Zenon
<1> DEFINE t(i) == W[i].ev.tick
<1>2. DOMAIN E = 1..n /\ \A i \in 1..n : E[i].tick = t(i)
  <2>1. DOMAIN E = DOMAIN W /\ \A i \in DOMAIN W : E[i] = W[i].ev
    BY Zenon
  <2> HIDE DEF E
  <2> QED  BY <2>1, Zenon
<1>3. \A i \in 1..n : t(i) \in Int /\ i \in Int
  <2>1. \A i \in 1..n : t(i) \in Nat \cup {NULL}
    BY Zenon
  <2> HIDE DEF t
  <2> QED  BY <2>1, SMT DEF NULL
<1> HIDE DEF E, t
<1>4. ASSUME NEW i \in 1..n, NEW j \in 1..n
      PROVE  <<i, j>> \in R <=> t(i) < t(j) \/ (t(i) = t(j) /\ i <= j)
  <2> DEFINE s == <<i, j>>
  <2> HIDE DEF S, L, c, P, R
  <2>1. s[1] = i /\ s[2] = j
    OBVIOUS
  <2>2. s \in (1..n) \X (1..n)
    <3> DEFINE I == 1..n
    <3>1. i \in I /\ j \in I
      BY Zenon
    <3> HIDE DEF I
    <3>2. <<i, j>> \in I \X I
      BY <3>1
    <3> QED  BY <3>2 DEF I
  <2> HIDE DEF s
  <2>3. s \in R <=> \/ E[s[1]].tick < E[s[2]].tick
                    \/ E[s[1]].tick = E[s[2]].tick /\ s[1] <= s[2]
    BY <1>2, <2>1, <2>2, Zenon DEF ByTick, R
  <2> QED  BY <1>2, <2>1, <2>3, Zenon DEF s
<1> HIDE DEF R
<1>5. Orders(R, S)
  <2>a. \A x \in S : x \in 1..n
    BY <1>1, Zenon
  <2> HIDE DEF S, L, c, P
  <2>1. \A x \in S : <<x, x>> \in R
    <3> SUFFICES ASSUME NEW x \in S PROVE <<x, x>> \in R
      OBVIOUS
    <3>1. x \in 1..n /\ x \in Int /\ t(x) \in Int
      BY <1>3, <2>a, Zenon
    <3>2. x <= x
      BY <3>1, SMT
    <3> QED  BY <1>4, <3>1, <3>2, Zenon
  <2>2. \A x, y \in S : <<x, y>> \in R \/ <<y, x>> \in R
    <3> SUFFICES ASSUME NEW x \in S, NEW y \in S PROVE <<x, y>> \in R \/ <<y, x>> \in R
      OBVIOUS
    <3>1. /\ x \in 1..n /\ x \in Int /\ t(x) \in Int
          /\ y \in 1..n /\ y \in Int /\ t(y) \in Int
      BY <1>3, <2>a, Zenon
    <3>2. \/ t(x) < t(y) \/ (t(x) = t(y) /\ x <= y)
          \/ t(y) < t(x) \/ (t(y) = t(x) /\ y <= x)
      BY <3>1, SMT
    <3> QED  BY <1>4, <3>1, <3>2, Zenon
  <2>3. \A x, y \in S : <<x, y>> \in R /\ <<y, x>> \in R => x = y
    BY <1>1, <1>3, <1>4, SMT
  <2>4. \A x, y, z \in S : <<x, y>> \in R /\ <<y, z>> \in R => <<x, z>> \in R
    BY <1>1, <1>3, <1>4, SMT
  <2> QED  BY <2>1, <2>2, <2>3, <2>4, Zenon DEF Orders
<1> HIDE DEF S
<1>6. Lists(L, S, R)
  BY <1>1, <1>5, ListedLists, Zenon
<1>7. c \in Nat /\ L \in [1..c -> S] /\ \A k \in 1..c : P(L[k]) = k
  BY <1>1, <1>6, FS_CardinalityType, Zenon DEF Lists
<1>8. \A x \in S : P(x) \in 1..c /\ L[P(x)] = x
  BY <1>1, <1>5, <1>6, Ranks, Zenon DEF Lists
<1>9. \A x, y \in S : <<x, y>> \in R /\ x # y => P(x) < P(y)
  BY <1>1, <1>5, Ranks, Zenon
<1>10. L \in [1..c -> 1..n]
  BY <1>1, <1>7, Zenon
<1>11. DOMAIN parse_file(W) = 1..c /\ \A k \in 1..c : parse_file(W)[k] = W[L[k]].ev
  <2>1. parse_file(W) = [k \in DOMAIN L |-> W[L[k]].ev]
    BY Zenon DEF parse_file, E, S, R
  <2>2. DOMAIN L = 1..c
    BY <1>7, Zenon
  <2> HIDE DEF L
  <2> QED  BY <2>1, <2>2, Zenon
<1> HIDE DEF L, c, P
<1>12. \A k, l \in 1..c : L[k] = L[l] => k = l
  BY <1>7, Zenon
<1>13. \A i \in 1..n : W[i].ev # NoEvent => \E k \in 1..c : L[k] = i
  <2> SUFFICES ASSUME NEW i \in 1..n, W[i].ev # NoEvent PROVE \E k \in 1..c : L[k] = i
    OBVIOUS
  <2>1. i \in S
    BY Zenon DEF S
  <2> QED  BY <1>8, <2>1, Zenon
<1>14. ASSUME NEW k \in 1..c, NEW l \in 1..c, k < l PROVE <<L[k], L[l]>> \in R /\ L[k] # L[l]
  <2>1. L[k] \in S /\ L[l] \in S /\ P(L[k]) = k /\ P(L[l]) = l /\ k # l /\ ~(l < k)
    <3>1. k # l /\ ~(l < k)
      BY <1>7, <1>14, SMT
    <3> QED  BY <1>7, <3>1, Zenon
  <2>2. L[k] # L[l]
    BY <2>1, Zenon
  <2>3. ~(<<L[l], L[k]>> \in R)
    <3> SUFFICES ASSUME <<L[l], L[k]>> \in R PROVE FALSE
      OBVIOUS
    <3>1. P(L[l]) < P(L[k])
      BY <1>9, <2>1, <2>2, Zenon
    <3> QED  BY <2>1, <3>1, Zenon
  <2> QED  BY <1>5, <2>1, <2>2, <2>3, Zenon DEF Orders
<1>15. ASSUME NEW k \in 1..c, NEW l \in 1..c, k < l, t(L[k]) # NULL, t(L[l]) # NULL
       PROVE  L[k] < L[l]
  <2>1. /\ L[k] \in 1..n /\ L[l] \in 1..n /\ L[k] # L[l]
        /\ t(L[k]) < t(L[l]) \/ (t(L[k]) = t(L[l]) /\ L[k] <= L[l])
    BY <1>4, <1>10, <1>14, <1>15, Zenon
  <2>2. L[l] < L[k] => t(L[l]) <= t(L[k])
    BY <1>15, <2>1, Zenon DEF t
  <2> DEFINE x == L[k]
             y == L[l]
  <2>3. /\ x \in 1..n /\ y \in 1..n /\ x # y /\ t(x) \in Int /\ t(y) \in Int
        /\ t(x) < t(y) \/ (t(x) = t(y) /\ x <= y)
        /\ y < x => t(y) <= t(x)
    BY <1>3, <2>1, <2>2, Zenon
  <2> HIDE DEF x, y
  <2>4. x < y
    BY <2>3, SMT
  <2> QED  BY <2>4 DEF x, y
<1>16. \A k, l \in 1..c : W[L[k]].ev.tick # NULL /\ W[L[l]].ev.tick # NULL =>
         (k < l <=> L[k] < L[l])
  <2> SUFFICES ASSUME NEW k \in 1..c, NEW l \in 1..c, t(L[k]) # NULL, t(L[l]) # NULL
               PROVE  k < l <=> L[k] < L[l]
    BY Zenon DEF t
  <2>1. L[k] \in 1..n /\ L[l] \in 1..n
    BY <1>10, Zenon
  <2>2. (k < l => L[k] < L[l]) /\ (l < k => L[l] < L[k]) /\ (k = l => L[k] = L[l])
    BY <1>15, Zenon
  <2> DEFINE x == L[k]
             y == L[l]
  <2>3. x \in 1..n /\ y \in 1..n /\ (k < l => x < y) /\ (l < k => y < x) /\ (k = l => x = y)
    BY <2>1, <2>2, Zenon
  <2> HIDE DEF x, y
  <2>4. k < l <=> x < y
    BY <1>7, <2>3, SMT
  <2> QED  BY <2>4 DEF x, y
<1>17. Sorted(parse_file(W), W, 1..n, c, L)
  BY <1>10, <1>11, <1>12, <1>13, <1>16, Zenon DEF Sorted
<1> QED  BY <1>7, <1>17, Zenon

\* Its lines are the console's from w on.
LEMMA Picked ==
  ASSUME ConsoleInv, NEW w \in 3..Len(console)
  PROVE  \E c \in Nat : \E b :
           Sorted(parse_file(SubSeq(console, w, Len(console))), console, w..Len(console), c, b)
<1> DEFINE n == Len(console)
           v == n - w + 1
           W == SubSeq(console, w, n)
           T == parse_file(W)
<1>1. IsSeq(console) /\ LinesInv(console, tick)
  BY Zenon DEF ConsoleInv
<1>2. n \in Nat /\ DOMAIN console = 1..n
  BY <1>1, Lengths
<1>3. DOMAIN W = 1..v /\ \A i \in 1..v : W[i] = console[i + w - 1]
  <2>1. PICK Q : console \in Seq(Q)
    BY <1>1 DEF IsSeq
  <2> QED  BY <1>2, <2>1
<1> HIDE DEF W, n, v
<1>4. w \in 3..n /\ w \in Nat /\ w >= 3
  <2>1. w \in 3..n
    BY Zenon DEF n
  <2> QED  BY <1>2, <2>1, SMT
<1>5. /\ v \in Nat /\ \A i \in 1..v : i + w - 1 \in w..n /\ i + w - 1 \in 1..n
      /\ \A i \in w..n : i - w + 1 \in 1..v /\ (i - w + 1) + w - 1 = i
  BY <1>2, <1>4, SMT DEF v
<1>6. \A i \in 1..v : W[i].ev.tick \in Nat \cup {NULL}
  <2>1. \A i \in 1..n : console[i].ev.tick \in Nat \cup {NULL}
    <3>1. DOMAIN console \subseteq Nat
      BY <1>2, SMT
    <3> QED  BY <1>1, <1>2, <3>1, TicksAreInt, Zenon
  <2> QED  BY <1>3, <1>5, <2>1, Zenon
<1>7. \A i, j \in 1..v :
        i < j /\ W[i].ev.tick # NULL /\ W[j].ev.tick # NULL => W[i].ev.tick <= W[j].ev.tick
  <2> SUFFICES ASSUME NEW i \in 1..v, NEW j \in 1..v, i < j,
                      W[i].ev.tick # NULL, W[j].ev.tick # NULL
               PROVE  W[i].ev.tick <= W[j].ev.tick
    OBVIOUS
  <2> DEFINE x == i + w - 1
             y == j + w - 1
  <2>1. x < y
    BY <1>4, <1>5, SMT
  <2>2. x \in 1..n /\ y \in 1..n /\ W[i] = console[x] /\ W[j] = console[y]
    BY <1>3, <1>5, Zenon
  <2> HIDE DEF x, y
  <2> QED  BY <1>1, <1>2, <2>1, <2>2, Zenon DEF LinesInv
<1>8. \E c \in Nat : \E L : Sorted(T, W, 1..v, c, L)
  <2>1. v \in Nat
    BY <1>5, Zenon
  <2> QED  BY <1>3, <1>6, <1>7, <2>1, Parsed, Zenon
<1> HIDE DEF T
<1>b. PICK c \in Nat : \E L : Sorted(T, W, 1..v, c, L)
  BY <1>8, Zenon
<1>a. PICK L : Sorted(T, W, 1..v, c, L)
  BY <1>b, Zenon
<1>9. /\ L \in [1..c -> 1..v] /\ DOMAIN T = 1..c
      /\ \A k \in 1..c : T[k] = W[L[k]].ev
      /\ \A k, l \in 1..c : L[k] = L[l] => k = l
      /\ \A i \in 1..v : W[i].ev # NoEvent => \E k \in 1..c : L[k] = i
      /\ \A k, l \in 1..c : W[L[k]].ev.tick # NULL /\ W[L[l]].ev.tick # NULL =>
           (k < l <=> L[k] < L[l])
  BY <1>a, Zenon DEF Sorted
<1> DEFINE b == [k \in 1..c |-> L[k] + w - 1]
<1>10. \A k \in 1..c : L[k] \in 1..v /\ b[k] = L[k] + w - 1 /\ b[k] \in w..n /\ W[L[k]] = console[b[k]]
  <2> SUFFICES ASSUME NEW k \in 1..c
               PROVE  L[k] \in 1..v /\ b[k] = L[k] + w - 1 /\ b[k] \in w..n /\ W[L[k]] = console[b[k]]
    OBVIOUS
  <2>1. L[k] \in 1..v /\ b[k] = L[k] + w - 1
    BY <1>9, Zenon
  <2> HIDE DEF b
  <2> QED  BY <1>3, <1>5, <2>1, Zenon
<1>11. b \in [1..c -> w..n]
  <2>1. DOMAIN b = 1..c /\ b = [k \in 1..c |-> b[k]]
    BY Zenon
  <2> HIDE DEF b
  <2> QED  BY <1>10, <2>1, Zenon
<1> HIDE DEF b
<1>12. \A k, l \in 1..c : (b[k] = b[l] <=> L[k] = L[l]) /\ (b[k] < b[l] <=> L[k] < L[l])
  <2> SUFFICES ASSUME NEW k \in 1..c, NEW l \in 1..c
               PROVE  (b[k] = b[l] <=> L[k] = L[l]) /\ (b[k] < b[l] <=> L[k] < L[l])
    OBVIOUS
  <2> DEFINE x == L[k]
             y == L[l]
  <2>1. x \in 1..v /\ y \in 1..v /\ b[k] = x + w - 1 /\ b[l] = y + w - 1
    BY <1>10, Zenon
  <2> HIDE DEF x, y
  <2>2. (x + w - 1 = y + w - 1 <=> x = y) /\ (x + w - 1 < y + w - 1 <=> x < y)
    BY <1>4, <1>5, <2>1, SMT
  <2> QED  BY <2>1, <2>2, Zenon DEF x, y
<1>13. \A i \in w..n : console[i].ev # NoEvent => \E k \in 1..c : b[k] = i
  <2> SUFFICES ASSUME NEW i \in w..n, console[i].ev # NoEvent PROVE \E k \in 1..c : b[k] = i
    OBVIOUS
  <2> DEFINE j == i - w + 1
  <2>1. j \in 1..v /\ j + w - 1 = i
    BY <1>5, Zenon
  <2> HIDE DEF j
  <2>2. W[j] = console[i]
    BY <1>3, <2>1, Zenon
  <2>3. PICK k \in 1..c : L[k] = j
    BY <1>9, <2>1, <2>2, Zenon
  <2> QED  BY <1>10, <2>1, <2>3, Zenon
<1>14. \A k \in 1..c : T[k] = console[b[k]].ev
  BY <1>9, <1>10, Zenon
<1>15. \A k, l \in 1..c : console[b[k]].ev.tick # NULL /\ console[b[l]].ev.tick # NULL =>
         (k < l <=> b[k] < b[l])
  <2> SUFFICES ASSUME NEW k \in 1..c, NEW l \in 1..c,
                      console[b[k]].ev.tick # NULL, console[b[l]].ev.tick # NULL
               PROVE  k < l <=> b[k] < b[l]
    BY Zenon
  <2>1. W[L[k]].ev.tick # NULL /\ W[L[l]].ev.tick # NULL
    BY <1>10, Zenon
  <2>2. k < l <=> L[k] < L[l]
    BY <1>9, <2>1, Zenon
  <2> QED  BY <1>12, <2>2, Zenon
<1>16. \A k, l \in 1..c : b[k] = b[l] => k = l
  BY <1>9, <1>12, Zenon
<1>17. Sorted(T, console, w..n, c, b)
  BY <1>9, <1>11, <1>13, <1>14, <1>15, <1>16, Zenon DEF Sorted
<1> QED  BY <1>17, Zenon DEF T, W, n

\* What changing one field of an event leaves of the others.
LEMMA EventFields ==
  ASSUME NEW e \in [event : NAMES, pid : Int, tick : Int, arrival : Int], NEW x \in Int
  PROVE  /\ [e EXCEPT !.tick = x] \in [event : NAMES, pid : Int, tick : Int, arrival : Int]
         /\ [e EXCEPT !.tick = x].event = e.event /\ [e EXCEPT !.tick = x].pid = e.pid
         /\ [e EXCEPT !.tick = x].tick = x /\ [e EXCEPT !.tick = x].arrival = e.arrival
         /\ [e EXCEPT !.arrival = x].event = e.event /\ [e EXCEPT !.arrival = x].pid = e.pid
         /\ [e EXCEPT !.arrival = x].tick = e.tick /\ [e EXCEPT !.arrival = x].arrival = x
OBVIOUS

\* FirstTick looks at events, processes and ticks only.
LEMMA FirstTickAlike ==
  ASSUME NEW T, NEW U, NEW c \in Nat, DOMAIN T = 1..c, DOMAIN U = 1..c,
         \A k \in 1..c : T[k].event = U[k].event /\ T[k].pid = U[k].pid /\ T[k].tick = U[k].tick,
         NEW name, NEW p
  PROVE  FirstTick(T, name, p) = FirstTick(U, name, p)
<1> DEFINE hits == {i \in DOMAIN T : T[i].event = name /\ T[i].pid = p}
<1>1. hits = {i \in DOMAIN U : U[i].event = name /\ U[i].pid = p} /\ hits \subseteq 1..c
  BY Zenon
<1>2. /\ FirstTick(T, name, p) = IF hits = {} THEN NULL ELSE T[Least(hits)].tick
      /\ FirstTick(U, name, p) = IF hits = {} THEN NULL ELSE U[Least(hits)].tick
  BY <1>1, Zenon DEF FirstTick
<1> HIDE DEF hits
<1>3. hits \subseteq Nat
  BY <1>1, SMT
<1>4. hits # {} => Least(hits) \in 1..c
  BY <1>1, <1>3, LeastOf, Zenon
<1>5. CASE hits = {}
  BY <1>2, <1>5, Zenon
<1>6. CASE hits # {}
  <2>1. Least(hits) \in 1..c
    BY <1>4, <1>6, Zenon
  <2>2. T[Least(hits)].tick = U[Least(hits)].tick
    BY <2>1, Zenon
  <2> QED  BY <1>2, <1>6, <2>2, Zenon
<1> QED  BY <1>5, <1>6

\* rebase, of a trace whose ticks are known or NULL.
LEMMA Rebased ==
  ASSUME NEW T, NEW c \in Nat, DOMAIN T = 1..c, \A k \in 1..c : T[k] \in Event
  PROVE  LET U == rebase(T)
         IN  /\ DOMAIN U = 1..c
             /\ \A k \in 1..c : U[k].event = T[k].event /\ U[k].pid = T[k].pid
             /\ \A k \in 1..c : T[k].tick = NULL => U[k].tick = NULL
             /\ \E base \in Nat : \A k \in 1..c :
                  T[k].tick # NULL => U[k].tick = T[k].tick - base /\ U[k].tick \in Nat
             /\ \A k \in 1..c : T[k].event = "PROC_DEF" => U[k].arrival = Snap(U, T[k])
<1> DEFINE ticks == TicksOf(T)
           base == IF ticks = {} THEN 0 ELSE Least(ticks)
           M == [i \in DOMAIN T |->
                   IF T[i].tick = NULL THEN T[i] ELSE [T[i] EXCEPT !.tick = @ - base]]
           fd(e) == FirstTick(M, "DISPATCH", e.pid)
           X(e) == IF e.event = "PROC_DEF" /\ fd(e) # NULL /\ fd(e) < e.arrival
                   THEN [e EXCEPT !.arrival = fd(e)] ELSE e
           U == rebase(T)
           Loose == [event : NAMES, pid : Int, tick : Int, arrival : Int]
<1>1. U = [i \in DOMAIN M |-> X(M[i])]
  BY Zenon DEF rebase
<1>2. \A k \in 1..c : T[k].tick \in Nat \cup {NULL} /\ T[k] \in Loose /\ T[k].tick \in Int
  <2> SUFFICES ASSUME NEW k \in 1..c
               PROVE  T[k].tick \in Nat \cup {NULL} /\ T[k] \in Loose /\ T[k].tick \in Int
    OBVIOUS
  <2> DEFINE e == T[k]
  <2>1. e \in Event
    BY Zenon
  <2> HIDE DEF e
  <2>2. e.tick \in Nat \cup {NULL} /\ e \in Loose /\ e.tick \in Int
    BY <2>1 DEF Event, NULL
  <2> QED  BY <2>2, Zenon DEF e
<1>3. ticks \subseteq Nat /\ \A k \in 1..c : T[k].tick # NULL => T[k].tick \in ticks
  <2>1. ticks = {T[i].tick : i \in 1..c} \ {NULL}
    BY Zenon DEF TicksOf
  <2> HIDE DEF ticks
  <2> QED  BY <1>2, <2>1, Zenon
<1> HIDE DEF ticks, X
<1>4. base \in Nat /\ \A t \in ticks : base <= t
  <2>1. CASE ticks = {}
    BY <2>1
  <2>2. CASE ticks # {}
    <3>1. Least(ticks) \in Nat /\ \A t \in ticks : Least(ticks) <= t
      BY <1>3, <2>2, LeastOf, Zenon
    <3> QED  BY <2>2, <3>1, Zenon
  <2> QED  BY <2>1, <2>2
<1> HIDE DEF base
<1>5. DOMAIN M = 1..c /\ \A k \in 1..c :
         M[k] = IF T[k].tick = NULL THEN T[k] ELSE [T[k] EXCEPT !.tick = T[k].tick - base]
  BY Zenon
<1> HIDE DEF M, Loose
<1>6. \A k \in 1..c :
        /\ M[k] \in Loose /\ M[k].event = T[k].event /\ M[k].pid = T[k].pid
        /\ M[k].arrival = T[k].arrival
        /\ T[k].tick = NULL => M[k].tick = NULL
        /\ T[k].tick # NULL => M[k].tick = T[k].tick - base /\ M[k].tick \in Nat
  <2> SUFFICES ASSUME NEW k \in 1..c
               PROVE /\ M[k] \in Loose /\ M[k].event = T[k].event /\ M[k].pid = T[k].pid
                     /\ M[k].arrival = T[k].arrival
                     /\ T[k].tick = NULL => M[k].tick = NULL
                     /\ T[k].tick # NULL => M[k].tick = T[k].tick - base /\ M[k].tick \in Nat
    OBVIOUS
  <2>1. CASE T[k].tick = NULL
    BY <1>2, <1>5, <2>1, Zenon
  <2>2. CASE T[k].tick # NULL
    <3> DEFINE e == T[k]
               x == e.tick - base
    <3>1. M[k] = [e EXCEPT !.tick = x]
      BY <1>5, <2>2, Zenon
    <3>2. e.tick \in Nat /\ base <= e.tick /\ e \in Loose
      BY <1>2, <1>3, <1>4, <2>2, Zenon
    <3>3. x \in Nat /\ x \in Int
      <4> HIDE DEF e
      <4> QED  BY <1>4, <3>2, SMT
    <3> HIDE DEF x, e
    <3>4. /\ [e EXCEPT !.tick = x] \in Loose
          /\ [e EXCEPT !.tick = x].event = e.event /\ [e EXCEPT !.tick = x].pid = e.pid
          /\ [e EXCEPT !.tick = x].tick = x /\ [e EXCEPT !.tick = x].arrival = e.arrival
      BY <3>2, <3>3, EventFields, Zenon DEF Loose
    <3> QED  BY <2>2, <3>1, <3>3, <3>4, Zenon DEF e, x
  <2> QED  BY <2>1, <2>2
<1>7. \A name \in NAMES : \A p : FirstTick(M, name, p) \in Int
  <2> SUFFICES ASSUME NEW name \in NAMES, NEW p PROVE FirstTick(M, name, p) \in Int
    OBVIOUS
  <2> DEFINE hits == {i \in DOMAIN M : M[i].event = name /\ M[i].pid = p}
  <2>1. FirstTick(M, name, p) = IF hits = {} THEN NULL ELSE M[Least(hits)].tick
    BY Zenon DEF FirstTick
  <2>2. hits \subseteq 1..c
    BY <1>5, Zenon
  <2> HIDE DEF hits
  <2>3. CASE hits = {}
    BY <2>1, <2>3 DEF NULL
  <2>4. CASE hits # {}
    <3>1. hits \subseteq Nat
      BY <2>2, SMT
    <3>2. Least(hits) \in 1..c
      BY <2>2, <2>4, <3>1, LeastOf, Zenon
    <3> DEFINE e == M[Least(hits)]
    <3>3. e \in Loose
      BY <1>6, <3>2, Zenon
    <3> HIDE DEF e
    <3>4. e.tick \in Int
      BY <3>3 DEF Loose
    <3> QED  BY <2>1, <2>4, <3>4, Zenon DEF e
  <2> QED  BY <2>3, <2>4
<1>8. ASSUME NEW e \in Loose
      PROVE  /\ X(e).event = e.event /\ X(e).pid = e.pid /\ X(e).tick = e.tick
             /\ e.event = "PROC_DEF" => X(e).arrival = IF fd(e) # NULL /\ fd(e) < e.arrival
                                                       THEN fd(e) ELSE e.arrival
  <2> DEFINE f == fd(e)
  <2>1. f \in Int
    <3>1. "DISPATCH" \in NAMES
      BY DEF NAMES
    <3> QED  BY <1>7, <3>1, Zenon
  <2>2. X(e) = IF e.event = "PROC_DEF" /\ f # NULL /\ f < e.arrival
               THEN [e EXCEPT !.arrival = f] ELSE e
    BY Zenon DEF X
  <2> HIDE DEF f
  <2>3. /\ [e EXCEPT !.arrival = f].event = e.event /\ [e EXCEPT !.arrival = f].pid = e.pid
        /\ [e EXCEPT !.arrival = f].tick = e.tick /\ [e EXCEPT !.arrival = f].arrival = f
    BY <2>1, EventFields, Zenon DEF Loose
  <2>4. CASE e.event = "PROC_DEF" /\ f # NULL /\ f < e.arrival
    BY <2>2, <2>3, <2>4, Zenon DEF f
  <2>5. CASE ~(e.event = "PROC_DEF" /\ f # NULL /\ f < e.arrival)
    BY <2>2, <2>5, Zenon DEF f
  <2> QED  BY <2>4, <2>5
<1>9. DOMAIN U = 1..c /\ \A k \in 1..c : U[k] = X(M[k])
  BY <1>1, <1>5, Zenon
<1> HIDE DEF U, fd
<1>10. \A k \in 1..c : U[k].event = M[k].event /\ U[k].pid = M[k].pid /\ U[k].tick = M[k].tick
  BY <1>6, <1>8, <1>9, Zenon
<1>11. \A e : fd(e) = FirstTick(U, "DISPATCH", e.pid)
  <2> SUFFICES ASSUME NEW e PROVE fd(e) = FirstTick(U, "DISPATCH", e.pid)
    OBVIOUS
  <2> DEFINE p == e.pid
  <2> HIDE DEF p
  <2>1. FirstTick(U, "DISPATCH", p) = FirstTick(M, "DISPATCH", p)
    <3> HIDE DEF M, X
    <3>1. DOMAIN U = 1..c /\ DOMAIN M = 1..c
      BY <1>5, <1>9, Zenon
    <3> QED  BY <1>10, <3>1, FirstTickAlike
  <2> QED  BY <2>1, Zenon DEF fd, p
<1>12. ASSUME NEW k \in 1..c, T[k].event = "PROC_DEF" PROVE U[k].arrival = Snap(U, T[k])
  <2>1. M[k] \in Loose /\ M[k].event = "PROC_DEF" /\ M[k].pid = T[k].pid /\ M[k].arrival = T[k].arrival
    BY <1>6, <1>12, Zenon
  <2> DEFINE f == FirstTick(U, "DISPATCH", T[k].pid)
             r == IF f # NULL /\ f < T[k].arrival THEN f ELSE T[k].arrival
  <2>2. fd(M[k]) = f
    BY <1>11, <2>1, Zenon
  <2> HIDE DEF f
  <2>3. U[k].arrival = r
    BY <1>8, <1>9, <2>1, <2>2, Zenon
  <2>4. Snap(U, T[k]) = r
    BY Zenon DEF Snap, f
  <2> HIDE DEF r
  <2> QED  BY <2>3, <2>4, Zenon
<1>13. \A k \in 1..c :
        /\ U[k].event = T[k].event /\ U[k].pid = T[k].pid
        /\ T[k].tick = NULL => U[k].tick = NULL
        /\ T[k].tick # NULL => U[k].tick = T[k].tick - base /\ U[k].tick \in Nat
  BY <1>6, <1>10, Zenon
<1> QED  BY <1>4, <1>9, <1>12, <1>13, Zenon DEF U

\* The trace of a run that has ended.
LEMMA Copied ==
  ASSUME ConsoleInv, at = "done"
  PROVE  \E w \in 3..Len(console), base \in Nat : \E b :
           /\ Before(console, w)
           /\ Copies(parse_xv6_log(console, job.algo), console, w, base, b)
           /\ Snaps(parse_xv6_log(console, job.algo), console, b)
<1> DEFINE n == Len(console)
<1>1. PICK w \in 3..n : /\ Before(console, w)
                        /\ extract_run_window(console, job.algo) = SubSeq(console, w, n)
  BY Windowed, Zenon
<1> DEFINE T == parse_file(SubSeq(console, w, n))
           U == rebase(T)
<1>2. parse_xv6_log(console, job.algo) = U
  BY <1>1, Zenon DEF parse_xv6_log
<1>3z. PICK c \in Nat : \E b : Sorted(T, console, w..n, c, b)
  BY Picked, Zenon
<1>3. PICK b : Sorted(T, console, w..n, c, b)
  BY <1>3z, Zenon
<1>4. IsSeq(console) /\ LinesInv(console, tick)
  BY Zenon DEF ConsoleInv
<1>5. DOMAIN console = 1..n /\ n \in Nat
  BY <1>4, Lengths
<1> HIDE DEF T, n
<1>6. /\ b \in [1..c -> w..n] /\ DOMAIN T = 1..c
      /\ \A k \in 1..c : T[k] = console[b[k]].ev
      /\ \A k, l \in 1..c : b[k] = b[l] => k = l
      /\ \A i \in w..n : console[i].ev # NoEvent => \E k \in 1..c : b[k] = i
      /\ \A k, l \in 1..c : console[b[k]].ev.tick # NULL /\ console[b[l]].ev.tick # NULL =>
           (k < l <=> b[k] < b[l])
  BY <1>3, Zenon DEF Sorted
<1>7. \A i \in w..n : i \in 1..n /\ i >= 3
  BY <1>5, SMT
<1>8. \A k \in 1..c : T[k] \in Event
  BY <1>4, <1>5, <1>6, <1>7, Zenon DEF LinesInv, Sound
<1>9. /\ DOMAIN U = 1..c
      /\ \A k \in 1..c : U[k].event = T[k].event /\ U[k].pid = T[k].pid
      /\ \A k \in 1..c : T[k].tick = NULL => U[k].tick = NULL
      /\ \E base \in Nat : \A k \in 1..c :
           T[k].tick # NULL => U[k].tick = T[k].tick - base /\ U[k].tick \in Nat
      /\ \A k \in 1..c : T[k].event = "PROC_DEF" => U[k].arrival = Snap(U, T[k])
  BY <1>6, <1>8, Rebased, Zenon
<1> HIDE DEF U
<1>a. /\ DOMAIN U = 1..c
      /\ \A k \in 1..c : U[k].event = T[k].event /\ U[k].pid = T[k].pid
      /\ \A k \in 1..c : T[k].tick = NULL => U[k].tick = NULL
      /\ \A k \in 1..c : T[k].event = "PROC_DEF" => U[k].arrival = Snap(U, T[k])
  BY <1>9
<1>10. PICK base \in Nat : \A k \in 1..c :
           T[k].tick # NULL => U[k].tick = T[k].tick - base /\ U[k].tick \in Nat
  BY <1>9, Zenon
<1>11. Snaps(U, console, b)
  <2> SUFFICES ASSUME NEW k \in 1..c, U[k].event = "PROC_DEF"
               PROVE  U[k].arrival = Snap(U, console[b[k]].ev)
    BY <1>a, Zenon DEF Snaps
  <2>1. T[k].event = "PROC_DEF" /\ T[k] = console[b[k]].ev
    BY <1>6, <1>a, Zenon
  <2>2. U[k].arrival = Snap(U, T[k])
    BY <1>a, <2>1, Zenon
  <2> QED  BY <2>1, <2>2, Zenon
<1>12. Copies(U, console, w, base, b)
  <2>1. \A k \in DOMAIN U :
          /\ U[k].event = console[b[k]].ev.event /\ U[k].pid = console[b[k]].ev.pid
          /\ console[b[k]].ev.tick = NULL => U[k].tick = NULL
          /\ console[b[k]].ev.tick # NULL => U[k].tick = console[b[k]].ev.tick - base /\ U[k].tick \in Nat
    <3> SUFFICES ASSUME NEW k \in 1..c
                 PROVE
          /\ U[k].event = console[b[k]].ev.event /\ U[k].pid = console[b[k]].ev.pid
          /\ console[b[k]].ev.tick = NULL => U[k].tick = NULL
          /\ console[b[k]].ev.tick # NULL => U[k].tick = console[b[k]].ev.tick - base /\ U[k].tick \in Nat
      BY <1>a, Zenon
    <3>1. T[k] = console[b[k]].ev
      BY <1>6, Zenon
    <3>2. U[k].event = T[k].event /\ U[k].pid = T[k].pid /\ (T[k].tick = NULL => U[k].tick = NULL)
      BY <1>a, Zenon
    <3>3. T[k].tick # NULL => U[k].tick = T[k].tick - base /\ U[k].tick \in Nat
      BY <1>10, Zenon
    <3> QED  BY <3>1, <3>2, <3>3, Zenon
  <2> QED  BY <1>6, <1>a, <2>1, Zenon DEF Copies, n
<1>13. w \in 3..Len(console)
  BY Zenon DEF n
<1> QED  BY <1>1, <1>2, <1>11, <1>12, <1>13, Zenon

-----------------------------------------------------------------------------
(* What the trace says of a child.                                         *)

\* The planned arrival of a child, brought down to its first dispatch in the trace T.
Arrival(T, p) ==
  LET fd == FirstTick(T, "DISPATCH", p)
  IN  IF fd # NULL /\ fd < Def(p).arrival THEN fd ELSE Def(p).arrival

\* T tells what the console shows: event k is the one of line b[k], base ticks
\* earlier, and every line of a child is there.
Told(T, c, base, b) ==
  /\ DOMAIN T = 1..c /\ b \in [1..c -> 3..Len(console)]
  /\ \A k, l \in 1..c : b[k] = b[l] => k = l
  /\ \A k \in 1..c :
       /\ T[k].event = console[b[k]].ev.event /\ T[k].pid = console[b[k]].ev.pid
       /\ T[k].event \in TIMED =>
            /\ T[k].tick = console[b[k]].ev.tick - base
            /\ T[k].tick \in Nat /\ console[b[k]].ev.tick \in Nat /\ T[k].tick <= tick
       /\ T[k].event \notin TIMED => T[k].tick = NULL /\ console[b[k]].ev.tick = NULL
       /\ T[k].pid \in Task \cup {NULL}
       /\ T[k].event = "PROC_DEF" => T[k].pid \in Child /\ T[k].arrival = Arrival(T, T[k].pid)
  /\ \A k, l \in 1..c : T[k].event \in TIMED /\ T[l].event \in TIMED => (k < l <=> b[k] < b[l])
  /\ \A i \in DOMAIN console :
       \/ console[i].ev.pid \in Child
       \/ console[i].ev.event \in TIMED /\ \E k \in 1..c : b[k] <= i
       => \E k \in 1..c : b[k] = i

\* The trace of a run that has ended tells what the console shows.
LEMMA TraceTells ==
  ASSUME ConsoleInv, at = "done"
  PROVE  \E c \in Nat, base \in Nat : \E b :
           Told(parse_xv6_log(console, job.algo), c, base, b)
<1> DEFINE n == Len(console)
           T == parse_xv6_log(console, job.algo)
<1>1z. PICK w \in 3..n, base \in Nat : \E b : 
           Before(console, w) /\ Copies(T, console, w, base, b) /\ Snaps(T, console, b)
  BY Copied, Zenon
<1>1. PICK b : 
           Before(console, w) /\ Copies(T, console, w, base, b) /\ Snaps(T, console, b)
  BY <1>1z, Zenon
<1>2. IsSeq(console) /\ LinesInv(console, tick)
  BY Zenon DEF ConsoleInv
<1>3. n \in Nat /\ DOMAIN console = 1..n
  BY <1>2, Lengths
<1> HIDE DEF T
<1>4. PICK c \in Nat : DOMAIN T = 1..c
  BY <1>1, Zenon DEF Copies
<1>5. /\ b \in [1..c -> w..n]
      /\ \A k, l \in 1..c : b[k] = b[l] => k = l
      /\ \A i \in w..n : console[i].ev # NoEvent => \E k \in 1..c : b[k] = i
      /\ \A k \in 1..c :
           /\ T[k].event = console[b[k]].ev.event /\ T[k].pid = console[b[k]].ev.pid
           /\ console[b[k]].ev.tick = NULL => T[k].tick = NULL
           /\ console[b[k]].ev.tick # NULL => T[k].tick = console[b[k]].ev.tick - base /\ T[k].tick \in Nat
      /\ \A k, l \in 1..c :
           console[b[k]].ev.tick # NULL /\ console[b[l]].ev.tick # NULL => (k < l <=> b[k] < b[l])
  BY <1>1, <1>4, Zenon DEF Copies, n
<1> HIDE DEF n
<1>6. \A i \in w..n : i \in 1..n /\ i >= 3 /\ i \in 3..n
  BY <1>3, SMT
<1>7. \A k \in 1..c : b[k] \in w..n /\ b[k] \in 3..n /\ Sound(console[b[k]].ev, tick)
  BY <1>2, <1>3, <1>5, <1>6, Zenon DEF LinesInv
<1>8. b \in [1..c -> 3..n]
  BY <1>5, <1>6, Zenon
<1>9. ASSUME NEW k \in 1..c
      PROVE  /\ T[k].event = console[b[k]].ev.event /\ T[k].pid = console[b[k]].ev.pid
             /\ T[k].event \in TIMED <=> console[b[k]].ev.tick # NULL
             /\ T[k].event \in TIMED =>
                  /\ T[k].tick = console[b[k]].ev.tick - base
                  /\ T[k].tick \in Nat /\ console[b[k]].ev.tick \in Nat /\ T[k].tick <= tick
             /\ T[k].event \notin TIMED => T[k].tick = NULL /\ console[b[k]].ev.tick = NULL
             /\ T[k].pid \in Task \cup {NULL}
             /\ T[k].event = "PROC_DEF" => T[k].pid \in Child /\ T[k].arrival = Arrival(T, T[k].pid)
  <2> DEFINE e == console[b[k]].ev
  <2>1. Sound(e, tick)
    BY <1>7, Zenon
  <2>2. /\ T[k].event = e.event /\ T[k].pid = e.pid
        /\ e.tick = NULL => T[k].tick = NULL
        /\ e.tick # NULL => T[k].tick = e.tick - base /\ T[k].tick \in Nat
    BY <1>5, Zenon
  <2>3. T[k].event = "PROC_DEF" => T[k].arrival = Snap(T, e)
    BY <1>1, <1>4, Zenon DEF Snaps
  <2> HIDE DEF e
  <2>4. /\ e.event \in TIMED <=> e.tick # NULL
        /\ e.pid \in Task \cup {NULL} /\ e.tick \in Nat \cup {NULL}
        /\ e.event = "PROC_DEF" => e.pid \in Child /\ e.arrival = Def(e.pid).arrival
    BY <2>1, Zenon DEF Sound, Event
  <2>5. ASSUME e.event = "PROC_DEF" PROVE T[k].arrival = Arrival(T, T[k].pid)
    <3>1. e.arrival = Def(e.pid).arrival /\ T[k].arrival = Snap(T, e)
      BY <2>2, <2>3, <2>4, <2>5, Zenon
    <3> DEFINE fd == FirstTick(T, "DISPATCH", e.pid)
    <3>2. /\ Snap(T, e) = IF fd # NULL /\ fd < e.arrival THEN fd ELSE e.arrival
          /\ Arrival(T, e.pid) =
               IF fd # NULL /\ fd < Def(e.pid).arrival THEN fd ELSE Def(e.pid).arrival
      BY Zenon DEF Snap, Arrival
    <3> HIDE DEF fd
    <3> QED  BY <2>2, <3>1, <3>2, Zenon
  <2>6. e.tick # NULL => e.tick \in Nat
    BY <2>4, Zenon
  <2>7. e.tick # NULL => T[k].tick <= tick
    <3>1. e.tick <= tick /\ tick \in Nat
      BY <2>1, Zenon DEF Sound, ConsoleInv, StateInv
    <3> QED  BY <2>2, <2>6, <3>1, SMT
  <2> QED  BY <2>2, <2>4, <2>5, <2>6, <2>7, Zenon DEF e
<1>10. \A k, l \in 1..c : T[k].event \in TIMED /\ T[l].event \in TIMED => (k < l <=> b[k] < b[l])
  <2> SUFFICES ASSUME NEW k \in 1..c, NEW l \in 1..c, T[k].event \in TIMED, T[l].event \in TIMED
               PROVE  k < l <=> b[k] < b[l]
    BY Zenon
  <2>1. console[b[k]].ev.tick # NULL /\ console[b[l]].ev.tick # NULL
    BY <1>9, Zenon
  <2> QED  BY <1>5, <2>1, Zenon
<1>11. ASSUME NEW i \in DOMAIN console,
              \/ console[i].ev.pid \in Child
              \/ console[i].ev.event \in TIMED /\ \E k \in 1..c : b[k] <= i
       PROVE  \E k \in 1..c : b[k] = i
  <2>1. console[i].ev # NoEvent
    <3>1. NoEvent.pid = NULL /\ NULL \notin Child /\ NoEvent.event \notin TIMED
      BY TaskNumbers DEF NoEvent, Ev, TIMED
    <3> QED  BY <1>11, <3>1, Zenon
  <2>2. i \in w..n
    <3>1. CASE console[i].ev.pid \in Child
      <4>1. ~(i \in 1..w - 1)
        BY <1>1, <3>1, Zenon DEF Before
      <4> QED  BY <1>3, <4>1, SMT
    <3>2. CASE \E k \in 1..c : b[k] <= i
      <4>1. PICK k \in 1..c : b[k] <= i
        BY <3>2
      <4>2. b[k] \in w..n
        BY <1>7, Zenon
      <4> QED  BY <1>3, <4>1, <4>2, SMT
    <3> QED  BY <1>11, <3>1, <3>2, Zenon
  <2> QED  BY <1>5, <2>1, <2>2, Zenon
<1>12. Told(T, c, base, b)
  BY <1>4, <1>5, <1>8, <1>9, <1>10, <1>11, Zenon DEF Told, n
<1> QED  BY <1>12, Zenon DEF T

\* At the end of a run every child has exited.
LEMMA AtTheEnd ==
  ASSUME ConsoleInv, at = "done", NEW p \in Child
  PROVE  /\ first[p] \in Nat /\ end[p] \in Nat /\ used[p] \in Nat /\ hidden[p] \in Nat
         /\ \E i \in DOMAIN console : /\ Is(console, i, "DISPATCH", p)
                                      /\ console[i].ev.tick = first[p]
                                      /\ \A j \in 1..i - 1 : ~Is(console, j, "DISPATCH", p)
         /\ \E i \in DOMAIN console : Is(console, i, "EXIT", p)
         /\ \A i \in DOMAIN console : Is(console, i, "EXIT", p) => console[i].ev.tick = end[p]
         /\ cpu_used(EvsOf(console), p) = used[p] - hidden[p]
         /\ used[p] - hidden[p] \in Nat /\ used[p] - hidden[p] <= end[p] - first[p]
<1> DEFINE u == used[p]
           h == hidden[p]
           f == first[p]
           e == end[p]
           z == (st[p] = "zombie")
           on == (cpu = p)
<1>1. LinesInv(console, tick) /\ StateInv /\ IsSeq(console)
  BY Zenon DEF ConsoleInv
<1>2. /\ u \in Nat /\ h \in Nat /\ f \in Nat \cup {NULL} /\ e \in Nat \cup {NULL}
      /\ z /\ cpu = Harness
  BY <1>1, Zenon DEF StateInv
<1>3. ChildInv(console, tick, p, on, ran, u, h, f, e, z)
  BY Zenon DEF ConsoleInv, ChildOf
<1>4. ~on
  BY <1>2, TaskNumbers, Zenon
<1> HIDE DEF u, h, f, e, z, on
<1>5. /\ f # NULL /\ \E i \in DOMAIN console : Is(console, i, "EXIT", p)
      /\ \E i \in DOMAIN console : /\ Is(console, i, "DISPATCH", p)
                                   /\ console[i].ev.tick = f
                                   /\ \A j \in 1..i - 1 : ~Is(console, j, "DISPATCH", p)
      /\ \A i \in DOMAIN console : Is(console, i, "EXIT", p) => console[i].ev.tick = e
      /\ cpu_used(EvsOf(console), p) = u - h - Open(on, ran)
      /\ u - h >= Open(on, ran) /\ u - h <= (IF z THEN e ELSE tick) - f
  BY <1>2, <1>3, Zenon DEF ChildInv
<1>6. e \in Nat
  <2>1. PICK i \in DOMAIN console : Is(console, i, "EXIT", p)
    BY <1>5, Zenon
  <2>2. console[i].ev.tick = e /\ console[i].ev.event = "EXIT"
    BY <1>5, <2>1, Zenon DEF Is
  <2>3. i >= 3
    <3>1. i \in Nat
      BY <1>1, <2>1, Lengths, SMT
    <3>2. ~(i <= 2)
      <4> SUFFICES ASSUME i <= 2 PROVE FALSE
        OBVIOUS
      <4>1. console[i].ev = Ev("DISPATCH", i, 0, NULL)
        BY <1>1, Zenon DEF LinesInv
      <4>2. Ev("DISPATCH", i, 0, NULL).event = "DISPATCH"
        BY DEF Ev
      <4> QED  BY <2>2, <4>1, <4>2
    <3> QED  BY <3>1, <3>2, SMT
  <2>4. Sound(console[i].ev, tick)
    BY <1>1, <2>3, Zenon DEF LinesInv
  <2>5. console[i].ev.tick # NULL
    <3>1. "EXIT" \in TIMED
      BY DEF TIMED
    <3> QED  BY <2>2, <2>4, <3>1, Zenon DEF Sound
  <2> QED  BY <1>2, <2>2, <2>5, Zenon
<1>7. Open(on, ran) = 0
  BY <1>4, Zenon DEF Open
<1>8. f \in Nat
  BY <1>2, <1>5, Zenon
<1>9. u - h \in Nat /\ u - h <= e - f /\ u - h - 0 = u - h
  <2>1. u - h >= 0 /\ u - h <= e - f
    BY <1>2, <1>5, <1>7, Zenon
  <2> QED  BY <1>2, <2>1, SMT
<1>10. cpu_used(EvsOf(console), p) = u - h
  BY <1>5, <1>7, <1>9, Zenon
<1> QED  BY <1>2, <1>5, <1>6, <1>8, <1>9, <1>10, Zenon DEF u, h, f, e

\* The first dispatch in the trace is the first dispatch.
LEMMA DispatchTold ==
  ASSUME ConsoleInv, at = "done", NEW T, NEW c \in Nat, NEW base \in Nat, NEW b,
         Told(T, c, base, b), NEW p \in Child
  PROVE  FirstTick(T, "DISPATCH", p) = first[p] - base /\ FirstTick(T, "DISPATCH", p) \in Nat
<1> DEFINE hits == {k \in DOMAIN T : T[k].event = "DISPATCH" /\ T[k].pid = p}
<1>1. PICK i \in DOMAIN console : /\ Is(console, i, "DISPATCH", p)
                                  /\ console[i].ev.tick = first[p]
                                  /\ \A j \in 1..i - 1 : ~Is(console, j, "DISPATCH", p)
  BY AtTheEnd, Zenon
<1>2. PICK k \in 1..c : b[k] = i
  BY <1>1, Zenon DEF Told, Is
<1>3. /\ DOMAIN T = 1..c /\ hits \subseteq 1..c
      /\ \A l \in 1..c : T[l].event = console[b[l]].ev.event /\ T[l].pid = console[b[l]].ev.pid
      /\ \A l \in 1..c : T[l].event \in TIMED => T[l].tick = console[b[l]].ev.tick - base /\ T[l].tick \in Nat
      /\ \A l, j \in 1..c : T[l].event \in TIMED /\ T[j].event \in TIMED => (l < j <=> b[l] < b[j])
  BY Zenon DEF Told
<1>4. FirstTick(T, "DISPATCH", p) = IF hits = {} THEN NULL ELSE T[Least(hits)].tick
  BY Zenon DEF FirstTick
<1>5. k \in hits
  BY <1>1, <1>2, <1>3, Zenon DEF Is
<1>6. \A l \in hits : l \in 1..c /\ T[l].event = "DISPATCH" /\ T[l].pid = p /\ T[l].event \in TIMED
  <2>1. "DISPATCH" \in TIMED
    BY DEF TIMED
  <2> QED  BY <1>3, <2>1, Zenon
<1> HIDE DEF hits
<1> DEFINE l == Least(hits)
<1>7. l \in hits /\ l <= k
  <2>1. hits \subseteq Nat
    BY <1>3, SMT
  <2> QED  BY <1>5, <2>1, LeastOf, Zenon
<1> HIDE DEF l
<1>8. b[l] \in 3..Len(console) /\ i \in 1..Len(console) /\ Len(console) \in Nat
  <2>1. IsSeq(console)
    BY Zenon DEF ConsoleInv
  <2>2. l \in 1..c
    BY <1>6, <1>7, Zenon
  <2> QED  BY <1>1, <2>1, <2>2, Lengths, Zenon DEF Told
<1>9. ~(l < k)
  <2> SUFFICES ASSUME l < k PROVE FALSE
    OBVIOUS
  <2>1. b[l] < i
    BY <1>2, <1>3, <1>5, <1>6, <1>7, Zenon
  <2>2. b[l] \in 1..i - 1
    BY <1>8, <2>1, SMT
  <2>3. Is(console, b[l], "DISPATCH", p)
    BY <1>3, <1>6, <1>7, Zenon DEF Is
  <2> QED  BY <1>1, <2>2, <2>3, Zenon
<1>10. l = k
  BY <1>3, <1>5, <1>7, <1>9, SMT
<1>11. T[k].tick = first[p] - base /\ T[k].tick \in Nat
  <2>1. T[k].event \in TIMED
    BY <1>5, <1>6, Zenon
  <2> QED  BY <1>1, <1>2, <1>3, <2>1, Zenon
<1>12. FirstTick(T, "DISPATCH", p) = T[k].tick
  BY <1>4, <1>5, <1>10, Zenon DEF l
<1> QED  BY <1>11, <1>12, Zenon

\* The finish in the trace is the exit.
LEMMA ExitTold ==
  ASSUME ConsoleInv, at = "done", NEW T, NEW c \in Nat, NEW base \in Nat, NEW b,
         Told(T, c, base, b), NEW p \in Child
  PROVE  FinishOf(T, p) = end[p] - base /\ FinishOf(T, p) \in Nat
<1> DEFINE exits == {k \in DOMAIN T : T[k].event = "EXIT" /\ T[k].pid = p}
<1>1. PICK i \in DOMAIN console : Is(console, i, "EXIT", p)
  BY AtTheEnd, Zenon
<1>2. PICK k \in 1..c : b[k] = i
  BY <1>1, Zenon DEF Told, Is
<1>3. /\ DOMAIN T = 1..c /\ exits \subseteq 1..c
      /\ \A l \in 1..c : T[l].event = console[b[l]].ev.event /\ T[l].pid = console[b[l]].ev.pid
      /\ \A l \in 1..c : T[l].event \in TIMED => T[l].tick = console[b[l]].ev.tick - base /\ T[l].tick \in Nat
  BY Zenon DEF Told
<1>4. FinishOf(T, p) = IF exits = {} THEN NULL ELSE T[Largest(exits)].tick
  BY Zenon DEF FinishOf
<1>5. k \in exits
  BY <1>1, <1>2, <1>3, Zenon DEF Is
<1>6. \A l \in exits : l \in 1..c /\ T[l].event = "EXIT" /\ T[l].pid = p /\ T[l].event \in TIMED
  <2>1. "EXIT" \in TIMED
    BY DEF TIMED
  <2> QED  BY <1>3, <2>1, Zenon
<1> HIDE DEF exits
<1> DEFINE l == Largest(exits)
<1>7. l \in exits
  <2>1. exits \subseteq 0..c
    BY <1>3, SMT
  <2> QED  BY <1>5, <2>1, LargestOf, Zenon
<1> HIDE DEF l
<1>8. b[l] \in DOMAIN console
  <2>1. b[l] \in 3..Len(console) /\ IsSeq(console)
    BY <1>6, <1>7, Zenon DEF Told, ConsoleInv
  <2>2. DOMAIN console = 1..Len(console) /\ Len(console) \in Nat
    BY <2>1, Lengths
  <2> QED  BY <2>1, <2>2, SMT
<1>9. Is(console, b[l], "EXIT", p)
  BY <1>3, <1>6, <1>7, Zenon DEF Is
<1>10. console[b[l]].ev.tick = end[p]
  BY <1>8, <1>9, AtTheEnd, Zenon
<1>11. T[l].tick = end[p] - base /\ T[l].tick \in Nat
  BY <1>3, <1>6, <1>7, <1>10, Zenon
<1>12. FinishOf(T, p) = T[l].tick
  BY <1>4, <1>5, Zenon DEF l
<1> QED  BY <1>11, <1>12, Zenon

\* A process has an arrival if its PROC_DEF line was not cut, and only a child has one.
LEMMA ArrivalTold ==
  ASSUME NEW T, NEW c \in Nat, NEW base, NEW b, Told(T, c, base, b), NEW p
  PROVE  /\ p \in Child => ArrivalOf(T, p) \in {NULL, Arrival(T, p)}
         /\ p \notin Child => ArrivalOf(T, p) = NULL
<1> DEFINE defs == {k \in DOMAIN T : T[k].event = "PROC_DEF" /\ T[k].pid = p}
<1>1. ArrivalOf(T, p) = IF defs = {} THEN NULL ELSE T[Least(defs)].arrival
  BY Zenon DEF ArrivalOf
<1>2. /\ defs \subseteq 1..c
      /\ \A k \in defs : p \in Child /\ T[k].arrival = Arrival(T, p)
  <2>1. DOMAIN T = 1..c /\ \A k \in 1..c : T[k].event = "PROC_DEF" =>
          T[k].pid \in Child /\ T[k].arrival = Arrival(T, T[k].pid)
    BY Zenon DEF Told
  <2>2. \A k \in defs : k \in 1..c /\ T[k].event = "PROC_DEF" /\ T[k].pid = p
    BY <2>1, Zenon
  <2> HIDE DEF defs
  <2> QED  BY <2>1, <2>2, Zenon
<1> HIDE DEF defs
<1>3. CASE defs = {}
  BY <1>1, <1>3, Zenon
<1>4. CASE defs # {}
  <2>1. defs \subseteq Nat
    BY <1>2, SMT
  <2>2. Least(defs) \in defs
    BY <1>4, <2>1, LeastOf, Zenon
  <2> QED  BY <1>1, <1>2, <1>4, <2>2, Zenon
<1> QED  BY <1>3, <1>4

\* The slices in the trace are those of the console, and the sum of their ticks is
\* the ticks charged but for the hidden ones.
LEMMA CpuTold ==
  ASSUME ConsoleInv, at = "done", NEW T, NEW c \in Nat, NEW base \in Nat, NEW b,
         Told(T, c, base, b), NEW p \in Child
  PROVE  cpu_used(T, p) = used[p] - hidden[p]
<1> DEFINE n == Len(console)
           E == EvsOf(console)
           S == SlicesOf(T, p)
           R == SlicesOf(E, p)
<1>1. n \in Nat /\ DOMAIN console = 1..n /\ IsSeq(console)
  <2>1. IsSeq(console)
    BY Zenon DEF ConsoleInv
  <2> QED  BY <2>1, Lengths
<1>2. DOMAIN E = 1..n /\ \A i \in 1..n : E[i] = console[i].ev
  BY <1>1, Zenon DEF EvsOf
<1>3. /\ DOMAIN T = 1..c /\ b \in [1..c -> 3..n]
      /\ \A k, l \in 1..c : b[k] = b[l] => k = l
      /\ \A k \in 1..c :
           /\ T[k].event = console[b[k]].ev.event /\ T[k].pid = console[b[k]].ev.pid
           /\ T[k].event \in TIMED =>
                /\ T[k].tick = console[b[k]].ev.tick - base
                /\ T[k].tick \in Nat /\ console[b[k]].ev.tick \in Nat
      /\ \A k, l \in 1..c : T[k].event \in TIMED /\ T[l].event \in TIMED => (k < l <=> b[k] < b[l])
      /\ \A i \in DOMAIN console :
           \/ console[i].ev.pid \in Child
           \/ console[i].ev.event \in TIMED /\ \E k \in 1..c : b[k] <= i
           => \E k \in 1..c : b[k] = i
  BY Zenon DEF Told
<1> HIDE DEF n, E, S, R
<1>4. \A i \in 3..n : i \in 1..n
  BY <1>1, SMT
<1>5. \A k \in 1..c : /\ b[k] \in 1..n /\ E[b[k]].event = T[k].event /\ E[b[k]].pid = T[k].pid
                      /\ T[k].event \in TIMED => /\ T[k].tick = E[b[k]].tick - base
                                                 /\ T[k].tick \in Nat /\ E[b[k]].tick \in Nat
  <2> SUFFICES ASSUME NEW k \in 1..c
               PROVE  /\ b[k] \in 1..n /\ E[b[k]].event = T[k].event /\ E[b[k]].pid = T[k].pid
                      /\ T[k].event \in TIMED => /\ T[k].tick = E[b[k]].tick - base
                                                 /\ T[k].tick \in Nat /\ E[b[k]].tick \in Nat
    OBVIOUS
  <2>1. b[k] \in 1..n
    BY <1>3, <1>4, Zenon
  <2>2. E[b[k]] = console[b[k]].ev
    BY <1>2, <2>1, Zenon
  <2> QED  BY <1>3, <2>1, <2>2, Zenon
\* What begins, ends or cuts a slice has a tick.
<1> DEFINE Cuts(e) == e.event = "DISPATCH" \/ Ends(e, p)
<1>6. \A e : Cuts(e) => e.event \in TIMED
  BY DEF Ends, TIMED
<1>7. \A e, f : e.event = f.event /\ e.pid = f.pid => (Cuts(e) <=> Cuts(f)) /\ (Ends(e, p) <=> Ends(f, p))
  BY Zenon DEF Ends
<1>8. \A s : s \in S <=>
        /\ s \in (1..c) \X (1..c) /\ s[1] < s[2]
        /\ T[s[1]].event = "DISPATCH" /\ T[s[1]].pid = p /\ Ends(T[s[2]], p)
        /\ \A k \in s[1] + 1..s[2] - 1 : ~Cuts(T[k])
  BY <1>3, Zenon DEF S, SlicesOf
<1>9. \A s : s \in R <=>
        /\ s \in (1..n) \X (1..n) /\ s[1] < s[2]
        /\ E[s[1]].event = "DISPATCH" /\ E[s[1]].pid = p /\ Ends(E[s[2]], p)
        /\ \A k \in s[1] + 1..s[2] - 1 : ~Cuts(E[k])
  BY <1>2, Zenon DEF R, SlicesOf
<1>10. \A e : (Ends(e, p) => Cuts(e) /\ e.pid = p) /\ (e.event = "DISPATCH" => Cuts(e))
  BY Zenon DEF Ends
<1> HIDE DEF Cuts
<1>11. \A j, k \in 1..c : Cuts(T[j]) /\ Cuts(T[k]) => (j < k <=> b[j] < b[k])
  BY <1>3, <1>6, Zenon
\* A slice of the trace is one of the console.
<1>12. ASSUME NEW k \in 1..c, NEW l \in 1..c, <<k, l>> \in S
       PROVE  <<b[k], b[l]>> \in R
  <2> DEFINE s == <<k, l>>
             r == <<b[k], b[l]>>
  <2>1. s[1] = k /\ s[2] = l /\ r[1] = b[k] /\ r[2] = b[l]
    OBVIOUS
  <2>2. r \in (1..n) \X (1..n)
    <3>1. b[k] \in 1..n /\ b[l] \in 1..n
      BY <1>5, Zenon
    <3> DEFINE I == 1..n
    <3> HIDE DEF I, E, S, R, Cuts
    <3>2. b[k] \in I /\ b[l] \in I
      BY <3>1, Zenon DEF I
    <3>3. <<b[k], b[l]>> \in I \X I
      BY <3>2
    <3> QED  BY <3>3, Zenon DEF I
  <2> HIDE DEF s, r
  <2>3. /\ k < l /\ T[k].event = "DISPATCH" /\ T[k].pid = p /\ Ends(T[l], p)
        /\ \A j \in k + 1..l - 1 : ~Cuts(T[j])
    <3>1. s \in S
      BY <1>12, Zenon DEF s
    <3> QED  BY <1>8, <2>1, <3>1, Zenon
  <2>4. E[b[k]].event = "DISPATCH" /\ E[b[k]].pid = p /\ Ends(E[b[l]], p) /\ b[k] < b[l]
    <3>1. Cuts(T[k]) /\ Cuts(T[l])
      BY <1>10, <2>3, Zenon
    <3> QED  BY <1>5, <1>7, <1>11, <2>3, <3>1, Zenon
  <2>5. ASSUME NEW i \in b[k] + 1..b[l] - 1, Cuts(E[i]) PROVE FALSE
    <3>1. i \in 1..n /\ b[k] <= i /\ b[k] < i /\ i < b[l]
      BY <1>1, <1>5, SMT
    <3>2. PICK j \in 1..c : b[j] = i
      <4>1. i \in DOMAIN console /\ console[i].ev.event \in TIMED
        BY <1>1, <1>2, <1>6, <2>5, <3>1, Zenon
      <4> QED  BY <1>3, <3>1, <4>1, Zenon
    <3>3. Cuts(T[j]) /\ Cuts(T[k]) /\ Cuts(T[l])
      BY <1>5, <1>7, <1>10, <2>3, <2>5, <3>2, Zenon
    <3>4. k < j /\ j < l
      BY <1>11, <3>1, <3>2, <3>3, Zenon
    <3>5. j \in k + 1..l - 1
      BY <3>4, SMT
    <3> QED  BY <2>3, <3>3, <3>5, Zenon
  <2>6. r \in R
    BY <1>9, <2>1, <2>2, <2>4, <2>5, Zenon
  <2> QED  BY <2>6, Zenon DEF r
\* A slice of the console is one of the trace.
<1>13. ASSUME NEW k \in 1..c, NEW l \in 1..c, <<b[k], b[l]>> \in R
       PROVE  <<k, l>> \in S
  <2> DEFINE s == <<k, l>>
             r == <<b[k], b[l]>>
  <2>1. s[1] = k /\ s[2] = l /\ r[1] = b[k] /\ r[2] = b[l]
    OBVIOUS
  <2>2. s \in (1..c) \X (1..c)
    <3> DEFINE I == 1..c
    <3>2. k \in I /\ l \in I
      BY Zenon
    <3> HIDE DEF I, E, S, R, Cuts
    <3>3. <<k, l>> \in I \X I
      BY <3>2
    <3> QED  BY <3>3, Zenon DEF I
  <2> HIDE DEF s, r
  <2>3. /\ b[k] < b[l] /\ E[b[k]].event = "DISPATCH" /\ E[b[k]].pid = p /\ Ends(E[b[l]], p)
        /\ \A j \in b[k] + 1..b[l] - 1 : ~Cuts(E[j])
    <3>1. r \in R
      BY <1>13, Zenon DEF r
    <3> QED  BY <1>9, <2>1, <3>1, Zenon
  <2>4. /\ T[k].event = "DISPATCH" /\ T[k].pid = p /\ Ends(T[l], p) /\ k < l
        /\ Cuts(T[k]) /\ Cuts(T[l])
    <3>1. T[k].event = "DISPATCH" /\ T[k].pid = p /\ Ends(T[l], p)
      BY <1>5, <1>7, <2>3, Zenon
    <3>2. Cuts(T[k]) /\ Cuts(T[l])
      BY <1>10, <3>1, Zenon
    <3> QED  BY <1>11, <2>3, <3>1, <3>2, Zenon
  <2>5. ASSUME NEW j \in k + 1..l - 1, Cuts(T[j]) PROVE FALSE
    <3>1. j \in 1..c /\ k < j /\ j < l
      BY SMT
    <3>2. b[k] < b[j] /\ b[j] < b[l] /\ Cuts(E[b[j]])
      BY <1>5, <1>7, <1>11, <2>4, <2>5, <3>1, Zenon
    <3>3. b[k] \in 1..n /\ b[l] \in 1..n /\ b[j] \in 1..n
      BY <1>5, <3>1, Zenon
    <3>4. b[j] \in b[k] + 1..b[l] - 1
      BY <1>1, <3>2, <3>3, SMT
    <3> QED  BY <2>3, <3>2, <3>4, Zenon
  <2>6. s \in S
    BY <1>8, <2>1, <2>2, <2>4, <2>5, Zenon
  <2> QED  BY <2>6, Zenon DEF s
<1> DEFINE f == [s \in S |-> T[s[2]].tick - T[s[1]].tick]
           g == [s \in R |-> E[s[2]].tick - E[s[1]].tick]
           B == [s \in S |-> <<b[s[1]], b[s[2]]>>]
<1>14. \A s \in S : /\ s[1] \in 1..c /\ s[2] \in 1..c /\ s = <<s[1], s[2]>>
                    /\ T[s[1]].event \in TIMED /\ T[s[2]].event \in TIMED
  <2> SUFFICES ASSUME NEW s \in S
               PROVE  /\ s[1] \in 1..c /\ s[2] \in 1..c /\ s = <<s[1], s[2]>>
                      /\ T[s[1]].event \in TIMED /\ T[s[2]].event \in TIMED
    OBVIOUS
  <2>1. s \in (1..c) \X (1..c) /\ Cuts(T[s[1]]) /\ Cuts(T[s[2]])
    BY <1>8, <1>10, Zenon
  <2> HIDE DEF f, g, B
  <2>2. s[1] \in 1..c /\ s[2] \in 1..c /\ s = <<s[1], s[2]>>
    BY <2>1
  <2> QED  BY <1>6, <2>1, <2>2, Zenon
<1>15. \A s \in S : B[s] = <<b[s[1]], b[s[2]]>> /\ B[s] \in R
  <2> SUFFICES ASSUME NEW s \in S PROVE B[s] = <<b[s[1]], b[s[2]]>> /\ B[s] \in R
    OBVIOUS
  <2>1. B[s] = <<b[s[1]], b[s[2]]>>
    BY Zenon
  <2> HIDE DEF B
  <2>2. s[1] \in 1..c /\ s[2] \in 1..c /\ <<s[1], s[2]>> \in S
    BY <1>14, Zenon
  <2>3. <<b[s[1]], b[s[2]]>> \in R
    BY <1>12, <2>2, Zenon
  <2> QED  BY <2>1, <2>3, Zenon
<1>16. B \in [S -> R]
  <2>1. DOMAIN B = S /\ B = [s \in S |-> B[s]]
    BY Zenon
  <2> HIDE DEF B
  <2> QED  BY <1>15, <2>1, Zenon
<1> HIDE DEF B
<1>17. \A x, y \in S : B[x] = B[y] => x = y
  <2> SUFFICES ASSUME NEW x \in S, NEW y \in S, B[x] = B[y] PROVE x = y
    OBVIOUS
  <2>1. <<b[x[1]], b[x[2]]>> = <<b[y[1]], b[y[2]]>>
    BY <1>15, Zenon
  <2>2. b[x[1]] = b[y[1]] /\ b[x[2]] = b[y[2]]
    BY <2>1
  <2>3. x[1] = y[1] /\ x[2] = y[2]
    <3>1. \A k, l \in 1..c : b[k] = b[l] => k = l
      BY <1>3, Zenon
    <3>2. x[1] \in 1..c /\ x[2] \in 1..c /\ y[1] \in 1..c /\ y[2] \in 1..c
      BY <1>14, Zenon
    <3> QED  BY <2>2, <3>1, <3>2, Zenon
  <2> QED  BY <1>14, <2>3, Zenon
<1>18. \A z \in R : \E x \in S : B[x] = z
  <2> SUFFICES ASSUME NEW z \in R PROVE \E x \in S : B[x] = z
    OBVIOUS
  <2>1. z \in (1..n) \X (1..n) /\ E[z[1]].pid = p /\ E[z[2]].pid = p
    BY <1>9, <1>10, Zenon
  <2>2. z[1] \in 1..n /\ z[2] \in 1..n /\ z = <<z[1], z[2]>>
    BY <2>1
  <2>3. PICK k \in 1..c : b[k] = z[1]
    <3>1. console[z[1]].ev.pid \in Child
      BY <1>2, <2>1, <2>2, Zenon
    <3> QED  BY <1>1, <1>3, <2>2, <3>1, Zenon
  <2>4. PICK l \in 1..c : b[l] = z[2]
    <3>1. console[z[2]].ev.pid \in Child
      BY <1>2, <2>1, <2>2, Zenon
    <3> QED  BY <1>1, <1>3, <2>2, <3>1, Zenon
  <2> DEFINE x == <<k, l>>
  <2>5. x[1] = k /\ x[2] = l
    OBVIOUS
  <2>6. x \in S
    BY <1>13, <2>2, <2>3, <2>4, Zenon
  <2> HIDE DEF x
  <2>7. B[x] = z
    BY <1>15, <2>2, <2>3, <2>4, <2>5, <2>6, Zenon
  <2> QED  BY <2>6, <2>7, Zenon
<1>19. \A x \in S : f[x] \in Int /\ g[B[x]] = f[x]
  <2> SUFFICES ASSUME NEW x \in S PROVE f[x] \in Int /\ g[B[x]] = f[x]
    OBVIOUS
  <2> DEFINE k == x[1]
             l == x[2]
             r == B[x]
             tk == T[k].tick
             tl == T[l].tick
             ek == E[b[k]].tick
             el == E[b[l]].tick
  <2>1. f[x] = tl - tk
    BY Zenon
  <2>2. r \in R /\ r = <<b[k], b[l]>> /\ k \in 1..c /\ l \in 1..c
        /\ T[k].event \in TIMED /\ T[l].event \in TIMED
    BY <1>14, <1>15, Zenon
  <2>3. tk = ek - base /\ tl = el - base /\ tk \in Nat /\ tl \in Nat /\ ek \in Nat /\ el \in Nat
    BY <1>5, <2>2, Zenon
  <2> HIDE DEF k, l
  <2>4. r[1] = b[k] /\ r[2] = b[l]
    <3> HIDE DEF r
    <3> QED  BY <2>2
  <2>5. g[r] = E[r[2]].tick - E[r[1]].tick
    <3> HIDE DEF r
    <3> QED  BY <2>2, Zenon
  <2>6. g[r] = el - ek
    <3> HIDE DEF g, r
    <3> QED  BY <2>4, <2>5, Zenon
  <2> HIDE DEF f, g, tk, tl, ek, el, r
  <2>7. tl - tk \in Int /\ tl - tk = el - ek
    BY <2>3, SMT
  <2> QED  BY <2>1, <2>6, <2>7, Zenon DEF r
<1>20. DOMAIN f = S /\ DOMAIN g = R
  OBVIOUS
<1>21. IsFiniteSet(S)
  <2>1. IsFiniteSet(1..c)
    BY FS_Interval, SMT
  <2>2. IsFiniteSet((1..c) \X (1..c))
    BY <2>1, FS_Product, Zenon
  <2>3. S \subseteq (1..c) \X (1..c)
    BY <1>8, Zenon
  <2> QED  BY <2>2, <2>3, FS_Subset, Zenon
<1>22. cpu_used(T, p) = Total(f) /\ cpu_used(E, p) = Total(g)
  BY Zenon DEF cpu_used, S, R
<1> HIDE DEF f, g
<1>23. Total(g) = Total(f)
  <2>1. IsFiniteSet(DOMAIN f) /\ B \in [DOMAIN f -> DOMAIN g]
    BY <1>16, <1>20, <1>21, Zenon
  <2>2. /\ \A x \in DOMAIN f : f[x] \in Int /\ g[B[x]] = f[x]
        /\ \A x, y \in DOMAIN f : B[x] = B[y] => x = y
        /\ \A z \in DOMAIN g : \E x \in DOMAIN f : B[x] = z
    BY <1>17, <1>18, <1>19, <1>20, Zenon
  <2> QED  BY <2>1, <2>2, TotalRenamed, Zenon
<1>24. cpu_used(E, p) = used[p] - hidden[p]
  BY AtTheEnd, Zenon DEF E
<1> QED  BY <1>22, <1>23, <1>24, Zenon

-----------------------------------------------------------------------------
(* The trace is the run.                                                   *)

\* Indices are ordered by size.
LEMMA IndicesOrder ==
  ASSUME NEW S, S \subseteq Nat
  PROVE  Orders({s \in S \X S : s[1] <= s[2]}, S)
<1> DEFINE R == {s \in S \X S : s[1] <= s[2]}
<1>1. \A x, y \in S : <<x, y>> \in R <=> x <= y
  <2> SUFFICES ASSUME NEW x \in S, NEW y \in S PROVE <<x, y>> \in R <=> x <= y
    OBVIOUS
  <2>1. <<x, y>> \in S \X S
    OBVIOUS
  <2> DEFINE s == <<x, y>>
  <2>2. s[1] = x /\ s[2] = y
    OBVIOUS
  <2> HIDE DEF s
  <2>3. s \in R <=> s[1] <= s[2]
    BY <2>1, Zenon DEF s
  <2> QED  BY <2>2, <2>3, Zenon DEF s
<1> HIDE DEF R
<1>2. \A x, y \in S : <<x, y>> \in R \/ <<y, x>> \in R
  <2> SUFFICES ASSUME NEW x \in S, NEW y \in S PROVE <<x, y>> \in R \/ <<y, x>> \in R
    OBVIOUS
  <2>1. x <= y \/ y <= x
    BY SMT
  <2> QED  BY <1>1, <2>1, Zenon
<1>3. \A x, y \in S : <<x, y>> \in R /\ <<y, x>> \in R => x = y
  <2> SUFFICES ASSUME NEW x \in S, NEW y \in S, <<x, y>> \in R, <<y, x>> \in R PROVE x = y
    BY Zenon
  <2>1. x <= y /\ y <= x
    BY <1>1, Zenon
  <2> QED  BY <2>1, SMT
<1>4. \A x, y, z \in S : <<x, y>> \in R /\ <<y, z>> \in R => <<x, z>> \in R
  <2> SUFFICES ASSUME NEW x \in S, NEW y \in S, NEW z \in S, <<x, y>> \in R, <<y, z>> \in R
               PROVE  <<x, z>> \in R
    BY Zenon
  <2>1. x <= y /\ y <= z
    BY <1>1, Zenon
  <2>2. x <= z
    BY <2>1, SMT
  <2> QED  BY <1>1, <2>2, Zenon
<1>5. \A x \in S : <<x, x>> \in R
  BY <1>2, Zenon
<1> QED  BY <1>2, <1>3, <1>4, <1>5, Zenon DEF Orders, R

\* b carries the indices S to the indices T and keeps their order.
Shifts(b, S, T) ==
  /\ IsFiniteSet(S) /\ S \subseteq Nat /\ T \subseteq Nat
  /\ b \in [S -> T] /\ \A z \in T : \E x \in S : b[x] = z
  /\ \A x, y \in S : (x < y <=> b[x] < b[y]) /\ (b[x] = b[y] => x = y)

\* Then the k-th of the one corresponds to the k-th of the other.
LEMMA IndicesAlike ==
  ASSUME NEW S, NEW T, NEW b, Shifts(b, S, T)
  PROVE  \E L \in [1..Cardinality(S) -> S] : \A q :
           /\ DOMAIN AtIndices(q, S) = 1..Cardinality(S) /\ DOMAIN AtIndices(q, T) = 1..Cardinality(S)
           /\ \A i \in 1..Cardinality(S) :
                AtIndices(q, S)[i] = q[L[i]] /\ AtIndices(q, T)[i] = q[b[L[i]]]
<1>a. /\ IsFiniteSet(S) /\ S \subseteq Nat /\ T \subseteq Nat
      /\ b \in [S -> T] /\ \A z \in T : \E x \in S : b[x] = z
      /\ \A x, y \in S : (x < y <=> b[x] < b[y]) /\ (b[x] = b[y] => x = y)
  BY Zenon DEF Shifts
<1> DEFINE R == {s \in S \X S : s[1] <= s[2]}
           Q == {s \in T \X T : s[1] <= s[2]}
           n == Cardinality(S)
           L == Listed(S, R)
           M == Listed(T, Q)
<1>1. Orders(R, S) /\ Orders(Q, T)
  BY <1>a, IndicesOrder
<1>2. \A x, y \in S : <<x, y>> \in R <=> x <= y
  <2> SUFFICES ASSUME NEW x \in S, NEW y \in S PROVE <<x, y>> \in R <=> x <= y
    OBVIOUS
  <2> DEFINE s == <<x, y>>
  <2>1. s \in S \X S /\ s[1] = x /\ s[2] = y
    OBVIOUS
  <2> HIDE DEF s
  <2>2. s \in R <=> s[1] <= s[2]
    BY <2>1, Zenon
  <2> QED  BY <2>1, <2>2, Zenon DEF s
<1>3. \A x, y \in T : <<x, y>> \in Q <=> x <= y
  <2> SUFFICES ASSUME NEW x \in T, NEW y \in T PROVE <<x, y>> \in Q <=> x <= y
    OBVIOUS
  <2> DEFINE s == <<x, y>>
  <2>1. s \in T \X T /\ s[1] = x /\ s[2] = y
    OBVIOUS
  <2> HIDE DEF s
  <2>2. s \in Q <=> s[1] <= s[2]
    BY <2>1, Zenon
  <2> QED  BY <2>1, <2>2, Zenon DEF s
<1> HIDE DEF R, Q
<1>4. \A x, y \in S : <<x, y>> \in R <=> <<b[x], b[y]>> \in Q
  <2> SUFFICES ASSUME NEW x \in S, NEW y \in S PROVE <<x, y>> \in R <=> <<b[x], b[y]>> \in Q
    OBVIOUS
  <2> DEFINE u == b[x]
             v == b[y]
  <2>1. u \in T /\ v \in T /\ (x < y <=> u < v) /\ (u = v => x = y) /\ (y < x <=> v < u)
    BY <1>a, Zenon
  <2>2. (<<x, y>> \in R <=> x <= y) /\ (<<u, v>> \in Q <=> u <= v)
    BY <1>2, <1>3, <2>1, Zenon
  <2> HIDE DEF u, v
  <2>3. x <= y <=> u <= v
    <3>1. x \in Int /\ y \in Int /\ u \in Int /\ v \in Int
      BY <1>a, <2>1
    <3> QED  BY <2>1, <3>1, SMT
  <2> QED  BY <2>2, <2>3, Zenon DEF u, v
<1>5. Lists(L, S, R) /\ Lists(M, T, Q) /\ Cardinality(T) = n /\ \A i \in 1..n : M[i] = b[L[i]]
  <2>1. IsFiniteSet(T) /\ Cardinality(T) = n /\ \A i \in 1..n : M[i] = b[L[i]]
    <3>1. Carries(b, S, R, T, Q)
      BY <1>a, <1>1, <1>4, Zenon DEF Carries
    <3>2. /\ IsFiniteSet(T) /\ Cardinality(T) = Cardinality(S)
          /\ \A i \in 1..Cardinality(S) : Listed(T, Q)[i] = b[Listed(S, R)[i]]
      <4> HIDE DEF L, M, n
      <4> QED  BY <3>1, ListedAlike, SMT
    <3> QED  BY <3>2
  <2> QED  BY <1>a, <1>1, <2>1, ListedLists, Zenon
<1>6. L \in [1..n -> S] /\ DOMAIN L = 1..n /\ DOMAIN M = 1..n
  BY <1>5, Zenon DEF Lists
<1>7. \A q : /\ AtIndices(q, S) = [i \in DOMAIN L |-> q[L[i]]]
             /\ AtIndices(q, T) = [i \in DOMAIN M |-> q[M[i]]]
  BY Zenon DEF AtIndices, R, Q
<1> HIDE DEF L, M, n
<1>8. ASSUME NEW q
      PROVE  /\ DOMAIN AtIndices(q, S) = 1..n /\ DOMAIN AtIndices(q, T) = 1..n
             /\ \A i \in 1..n : AtIndices(q, S)[i] = q[L[i]] /\ AtIndices(q, T)[i] = q[b[L[i]]]
  <2>1. DOMAIN AtIndices(q, S) = 1..n /\ \A i \in 1..n : AtIndices(q, S)[i] = q[L[i]]
    BY <1>6, <1>7, Zenon
  <2>2. DOMAIN AtIndices(q, T) = 1..n /\ \A i \in 1..n : AtIndices(q, T)[i] = q[M[i]]
    <3>1. AtIndices(q, T) = [i \in DOMAIN M |-> q[M[i]]]
      BY <1>7, Zenon
    <3>2. DOMAIN M = 1..n
      BY <1>6, Zenon
    <3> QED  BY <3>1, <3>2, Zenon
  <2>3. \A i \in 1..n : q[M[i]] = q[b[L[i]]]
    BY <1>5, Zenon
  <2> QED  BY <2>1, <2>2, <2>3, Zenon
<1> QED  BY <1>6, <1>8, Zenon DEF n

\* WindowIsTheRun, of the run that has ended.
LEMMA TheTraceIsTheRun ==
  ASSUME ConsoleInv, at = "done", evs = parse_xv6_log(console, job.algo)
  PROVE  WindowIsTheRun
<1>1z. PICK c \in Nat, base \in Nat : \E b : Told(evs, c, base, b)
  BY TraceTells, Zenon
<1>1. PICK b : Told(evs, c, base, b)
  BY <1>1z, Zenon
<1> DEFINE n == Len(console)
           E == [i \in DOMAIN console |-> console[i].ev]
           K == {i \in DOMAIN E : E[i].pid \in Child /\ E[i].tick # NULL}
           J == {i \in DOMAIN evs : evs[i].pid \in Child /\ evs[i].tick # NULL}
<1>2. n \in Nat /\ DOMAIN console = 1..n
  <2>1. IsSeq(console)
    BY Zenon DEF ConsoleInv
  <2> QED  BY <2>1, Lengths
<1>3. DOMAIN E = 1..n /\ \A i \in 1..n : E[i] = console[i].ev
  BY <1>2, Zenon
<1>4. /\ DOMAIN evs = 1..c /\ b \in [1..c -> 3..n]
      /\ \A k, l \in 1..c : b[k] = b[l] => k = l
      /\ \A k \in 1..c :
           /\ evs[k].event = console[b[k]].ev.event /\ evs[k].pid = console[b[k]].ev.pid
           /\ evs[k].event \in TIMED =>
                /\ evs[k].tick = console[b[k]].ev.tick - base
                /\ evs[k].tick \in Nat /\ console[b[k]].ev.tick \in Nat
           /\ evs[k].event \notin TIMED => evs[k].tick = NULL /\ console[b[k]].ev.tick = NULL
           /\ evs[k].pid \in Task \cup {NULL}
      /\ \A k, l \in 1..c : evs[k].event \in TIMED /\ evs[l].event \in TIMED => (k < l <=> b[k] < b[l])
      /\ \A i \in DOMAIN console : console[i].ev.pid \in Child => \E k \in 1..c : b[k] = i
  BY <1>1, Zenon DEF Told
<1> HIDE DEF n, E
<1>5. \A k \in 1..c : /\ b[k] \in 1..n /\ b[k] \in Nat
                      /\ evs[k].event = E[b[k]].event /\ evs[k].pid = E[b[k]].pid
                      /\ evs[k].event \in TIMED <=> E[b[k]].tick # NULL
                      /\ evs[k].event \in TIMED <=> evs[k].tick # NULL
                      /\ evs[k].event \in TIMED =>
                           /\ evs[k].tick = E[b[k]].tick - base
                           /\ evs[k].tick \in Nat /\ E[b[k]].tick \in Nat
  <2> SUFFICES ASSUME NEW k \in 1..c
               PROVE  /\ b[k] \in 1..n /\ b[k] \in Nat
                      /\ evs[k].event = E[b[k]].event /\ evs[k].pid = E[b[k]].pid
                      /\ evs[k].event \in TIMED <=> E[b[k]].tick # NULL
                      /\ evs[k].event \in TIMED <=> evs[k].tick # NULL
                      /\ evs[k].event \in TIMED =>
                           /\ evs[k].tick = E[b[k]].tick - base
                           /\ evs[k].tick \in Nat /\ E[b[k]].tick \in Nat
    OBVIOUS
  <2>1. b[k] \in 1..n /\ b[k] \in Nat
    <3>1. b[k] \in 3..n
      BY <1>4, Zenon
    <3> QED  BY <1>2, <3>1, SMT
  <2>2. E[b[k]] = console[b[k]].ev
    BY <1>3, <2>1, Zenon
  <2>3. NULL \notin Nat
    BY DEF NULL
  <2>4. /\ evs[k].event = E[b[k]].event /\ evs[k].pid = E[b[k]].pid
        /\ evs[k].event \in TIMED =>
                /\ evs[k].tick = E[b[k]].tick - base
                /\ evs[k].tick \in Nat /\ E[b[k]].tick \in Nat
        /\ evs[k].event \notin TIMED => evs[k].tick = NULL /\ E[b[k]].tick = NULL
    <3>1. /\ evs[k].event = console[b[k]].ev.event /\ evs[k].pid = console[b[k]].ev.pid
          /\ evs[k].event \in TIMED =>
                /\ evs[k].tick = console[b[k]].ev.tick - base
                /\ evs[k].tick \in Nat /\ console[b[k]].ev.tick \in Nat
          /\ evs[k].event \notin TIMED => evs[k].tick = NULL /\ console[b[k]].ev.tick = NULL
      BY <1>4
    <3> DEFINE e == console[b[k]].ev
    <3>2. e = E[b[k]]
      BY <2>2, Zenon
    <3> HIDE DEF e
    <3> QED  BY <3>1, <3>2, Zenon DEF e
  <2>5. CASE evs[k].event \in TIMED
    <3>1. evs[k].tick # NULL /\ E[b[k]].tick # NULL
      BY <2>3, <2>4, <2>5, Zenon
    <3> QED  BY <2>1, <2>4, <2>5, <3>1, Zenon
  <2>6. CASE evs[k].event \notin TIMED
    BY <2>1, <2>4, <2>6, Zenon
  <2> QED  BY <2>5, <2>6, Zenon
<1>6. /\ \A k \in J : k \in 1..c /\ evs[k].event \in TIMED /\ b[k] \in K
      /\ \A z \in K : \E k \in J : b[k] = z
      /\ J \subseteq 1..c /\ K \subseteq 1..n
  <2>1. \A k \in J : k \in 1..c /\ evs[k].event \in TIMED /\ b[k] \in K
    BY <1>3, <1>4, <1>5, Zenon
  <2>2. ASSUME NEW z \in K PROVE \E k \in J : b[k] = z
    <3>1. z \in 1..n /\ E[z].pid \in Child /\ E[z].tick # NULL
      BY <1>3, Zenon
    <3>2. PICK k \in 1..c : b[k] = z
      BY <1>2, <1>3, <1>4, <3>1, Zenon
    <3>3. evs[k].pid \in Child /\ evs[k].tick # NULL
      BY <1>5, <3>1, <3>2, Zenon
    <3>4. k \in J
      BY <1>4, <3>3, Zenon
    <3> QED  BY <3>2, <3>4
  <2>3. J \subseteq 1..c /\ K \subseteq 1..n
    BY <1>3, <1>4, Zenon
  <2> QED  BY <2>1, <2>2, <2>3
<1> HIDE DEF J, K
<1> DEFINE B == [k \in J |-> b[k]]
<1>7. Shifts(B, J, K) /\ \A k \in J : B[k] = b[k]
  <2>1. IsFiniteSet(J) /\ J \subseteq Nat /\ K \subseteq Nat
    <3>1. IsFiniteSet(1..c) /\ 1..c \subseteq Nat /\ 1..n \subseteq Nat
      BY FS_Interval, SMT
    <3> QED  BY <1>6, <3>1, FS_Subset, Zenon
  <2>2. B \in [J -> K] /\ \A k \in J : B[k] = b[k]
    BY <1>6, Zenon
  <2> HIDE DEF B
  <2>3. /\ \A z \in K : \E x \in J : B[x] = z
        /\ \A x, y \in J : x < y <=> B[x] < B[y]
        /\ \A x, y \in J : B[x] = B[y] => x = y
    <3>1. \A x, y \in J : x < y <=> b[x] < b[y]
      BY <1>4, <1>6, Zenon
    <3>2. \A x, y \in J : b[x] = b[y] => x = y
      BY <1>4, <1>6, Zenon
    <3> QED  BY <1>6, <2>2, <3>1, <3>2, Zenon
  <2> QED  BY <2>1, <2>2, <2>3, Zenon DEF Shifts
<1> DEFINE traced == AtIndices(evs, J)
           printed == AtIndices(E, K)
           m_ == Cardinality(J)
<1> HIDE DEF B
<1>a. PICK L \in [1..m_ -> J] : \A q :
           /\ DOMAIN AtIndices(q, J) = 1..m_ /\ DOMAIN AtIndices(q, K) = 1..m_
           /\ \A i \in 1..m_ : AtIndices(q, J)[i] = q[L[i]] /\ AtIndices(q, K)[i] = q[B[L[i]]]
  <2> HIDE DEF traced, printed
  <2>1. Shifts(B, J, K)
    BY <1>7, Zenon
  <2> QED  BY <2>1, IndicesAlike
<1>8. DOMAIN traced = 1..m_ /\ DOMAIN printed = 1..m_
  BY <1>a, Zenon
<1>9. ASSUME NEW i \in 1..m_
      PROVE  /\ traced[i].event = printed[i].event /\ traced[i].pid = printed[i].pid
             /\ printed[i].tick - traced[i].tick = base
  <2> DEFINE k == L[i]
  <2>1. k \in J
    BY <1>a, Zenon
  <2>2. traced[i] = evs[k] /\ printed[i] = E[b[k]]
    <3>1. traced[i] = evs[k] /\ printed[i] = E[B[k]]
      BY <1>a, Zenon
    <3> QED  BY <1>7, <2>1, <3>1, Zenon
  <2> HIDE DEF k, traced, printed
  <2>3. /\ evs[k].event = E[b[k]].event /\ evs[k].pid = E[b[k]].pid
        /\ evs[k].tick = E[b[k]].tick - base
        /\ evs[k].tick \in Nat /\ E[b[k]].tick \in Nat
    BY <1>5, <1>6, <2>1, Zenon
  <2>4. E[b[k]].tick - evs[k].tick = base
    BY <2>3, SMT
  <2> QED  BY <2>2, <2>3, <2>4, Zenon
<1>10. \A i \in 1..m_ : 1 \in 1..m_
  <2>1. m_ \in Nat \/ m_ \notin Nat
    OBVIOUS
  <2>2. IsFiniteSet(J)
    <3>1. IsFiniteSet(1..c)
      BY FS_Interval, SMT
    <3> QED  BY <1>6, <3>1, FS_Subset, Zenon
  <2>3. m_ \in Nat
    BY <2>2, FS_CardinalityType
  <2> HIDE DEF m_
  <2> QED  BY <2>3, SMT
<1> HIDE DEF traced, printed, m_
<1>11. \A i \in DOMAIN traced :
         printed[i].tick - traced[i].tick = printed[1].tick - traced[1].tick
  BY <1>8, <1>9, <1>10, Zenon
<1>12. /\ DOMAIN traced = DOMAIN printed
       /\ \A i \in DOMAIN traced :
            traced[i].event = printed[i].event /\ traced[i].pid = printed[i].pid
       /\ \A i \in DOMAIN evs : evs[i].pid \in Task \cup {NULL}
  BY <1>4, <1>8, <1>9, Zenon
<1> QED  BY <1>11, <1>12, Zenon DEF WindowIsTheRun, traced, printed, E, J, K

-----------------------------------------------------------------------------
(* The numbers are what happened.                                          *)

\* A profile has finitely many processes.
LEMMA TasksFinite == IsFiniteSet(Task)
<1> DEFINE n == Len(Workload)
<1>1. n \in Nat /\ DOMAIN Workload = 1..n
  <2>1. Workload \in Seq([arrival : Nat, burst : Nat])
    BY WorkloadAssumption
  <2> QED  BY <2>1
<1> HIDE DEF n
<1>2. Task \subseteq 3..3 + n
  <2>1. \A i \in DOMAIN Workload : Harness + i \in 3..3 + n
    BY <1>1, SMT DEF Harness
  <2>2. Harness \in 3..3 + n
    BY <1>1, SMT DEF Harness
  <2> QED  BY <2>1, <2>2, Zenon DEF Task, Child
<1>3. IsFiniteSet(3..3 + n)
  <2>1. 3 \in Int /\ 3 + n \in Int
    BY <1>1, SMT
  <2> QED  BY <2>1, FS_Interval
<1> QED  BY <1>2, <1>3, FS_Subset, Zenon

\* Late by the planned arrival, never below zero.
Response(p, base) ==
  LET late == first[p] - base - Def(p).arrival IN IF late > 0 THEN late ELSE 0

\* finalize_process, for a child of a run that has ended.
LEMMA ChildMeasured ==
  ASSUME ConsoleInv, at = "done", NEW T, NEW c \in Nat, NEW base \in Nat, NEW b,
         Told(T, c, base, b), NEW p \in Child
  PROVE  LET r == finalize_process(T, p)
         IN  /\ r.finish_time \in Nat /\ base = end[p] - r.finish_time
             /\ r.arrival_time # NULL =>
                  /\ r.response_time = Response(p, base)
                  /\ r.turnaround_time = end[p] - first[p] + Response(p, base)
                  /\ r.waiting_time = r.turnaround_time - used[p] + hidden[p]
                  /\ r.response_time \in Nat /\ r.turnaround_time \in Nat /\ r.waiting_time \in Nat
             /\ r.arrival_time = NULL =>
                  r.response_time = NULL /\ r.turnaround_time = NULL /\ r.waiting_time = NULL
<1> DEFINE r == finalize_process(T, p)
           arr == ArrivalOf(T, p)
           fin == FinishOf(T, p)
           fd == FirstTick(T, "DISPATCH", p)
           cpu_ == cpu_used(T, p)
           a == Def(p).arrival
           f == first[p]
           e == end[p]
           u == used[p]
           h == hidden[p]
           resp == Response(p, base)
           turn == Minus(fin, arr)
<1>1. /\ r.arrival_time = arr /\ r.finish_time = fin /\ r.response_time = Minus(fd, arr)
      /\ r.turnaround_time = turn /\ r.waiting_time = Minus(turn, cpu_)
  BY DEF finalize_process
<1>2. /\ f \in Nat /\ e \in Nat /\ u \in Nat /\ h \in Nat
      /\ u - h \in Nat /\ u - h <= e - f
  BY AtTheEnd, Zenon
<1>3. fd = f - base /\ fd \in Nat /\ fin = e - base /\ fin \in Nat
  BY DispatchTold, ExitTold, Zenon
<1>4. cpu_ = u - h
  BY CpuTold, Zenon
<1>5. a \in Nat
  BY TaskNumbers, Zenon
<1>6. arr \in {NULL, Arrival(T, p)}
  BY ArrivalTold, Zenon
<1>7. Arrival(T, p) = IF fd # NULL /\ fd < a THEN fd ELSE a
  BY Zenon DEF Arrival
<1>8. resp = IF f - base - a > 0 THEN f - base - a ELSE 0
  BY Zenon DEF Response
<1> HIDE DEF r, arr, fin, fd, cpu_, a, f, e, u, h, resp, turn
<1>9. base = e - fin
  BY <1>2, <1>3, SMT
<1>10. ASSUME arr # NULL
       PROVE  /\ Minus(fd, arr) = resp /\ turn = e - f + resp /\ Minus(turn, cpu_) = turn - u + h
              /\ resp \in Nat /\ turn \in Nat /\ Minus(turn, cpu_) \in Nat
  <2>1. arr = IF fd < a THEN fd ELSE a
    <3>1. fd # NULL
      BY <1>3, SMT DEF NULL
    <3> QED  BY <1>6, <1>7, <1>10, <3>1, Zenon
  <2>2. arr \in Nat /\ fd - arr = resp /\ resp \in Nat
    BY <1>2, <1>3, <1>5, <1>8, <2>1, SMT
  <2>3. fd # NULL /\ fin # NULL /\ cpu_ # NULL
    BY <1>2, <1>3, <1>4, SMT DEF NULL
  <2>4. Minus(fd, arr) = fd - arr /\ turn = fin - arr
    BY <1>10, <2>3, Zenon DEF Minus, turn
  <2>5. turn = e - f + resp /\ turn \in Nat /\ turn # NULL
    BY <1>2, <1>3, <2>2, <2>4, SMT DEF NULL
  <2>6. Minus(turn, cpu_) = turn - cpu_
    BY <2>3, <2>5, Zenon DEF Minus
  <2>7. turn - cpu_ = turn - u + h /\ turn - cpu_ \in Nat
    BY <1>2, <1>4, <2>2, <2>5, SMT
  <2> QED  BY <2>2, <2>4, <2>5, <2>6, <2>7, Zenon
<1>11. ASSUME arr = NULL PROVE Minus(fd, arr) = NULL /\ turn = NULL /\ Minus(turn, cpu_) = NULL
  <2>1. Minus(fd, arr) = NULL /\ turn = NULL
    BY <1>11, Zenon DEF Minus, turn
  <2> QED  BY <2>1, Zenon DEF Minus
<1>12. /\ r.finish_time \in Nat /\ base = e - r.finish_time
       /\ r.arrival_time # NULL =>
            /\ r.response_time = resp /\ r.turnaround_time = e - f + resp
            /\ r.waiting_time = r.turnaround_time - u + h
            /\ r.response_time \in Nat /\ r.turnaround_time \in Nat /\ r.waiting_time \in Nat
       /\ r.arrival_time = NULL =>
            r.response_time = NULL /\ r.turnaround_time = NULL /\ r.waiting_time = NULL
  BY <1>1, <1>3, <1>9, <1>10, <1>11, Zenon
<1> QED  BY <1>12, Zenon DEF r, e, f, u, h, resp

\* The rows of the metrics.
TIMES == {"response_time", "turnaround_time", "waiting_time"}

\* build_processes: only tasks have a row, and its times are None or not below zero.
LEMMA RowsMeasured ==
  ASSUME ConsoleInv, at = "done", NEW T, NEW c \in Nat, NEW base \in Nat, NEW b,
         Told(T, c, base, b)
  PROVE  /\ Pids(T) \subseteq Task /\ DOMAIN build_processes(T) = Pids(T)
         /\ \A p \in Pids(T) : build_processes(T)[p] = finalize_process(T, p)
         /\ \A p \in Pids(T), k \in TIMES : build_processes(T)[p][k] \in Nat \cup {NULL}
<1>1. Pids(T) \subseteq Task
  <2> DEFINE ps == {T[i].pid : i \in DOMAIN T} \ {NULL}
  <2>1. ps \subseteq Task
    <3>1. DOMAIN T = 1..c /\ \A k \in 1..c : T[k].pid \in Task \cup {NULL}
      BY Zenon DEF Told
    <3> QED  BY <3>1, Zenon
  <2>2. Pids(T) \subseteq ps
    BY Zenon DEF Pids
  <2> QED  BY <2>1, <2>2, Zenon
<1>2. /\ DOMAIN build_processes(T) = Pids(T)
      /\ \A p \in Pids(T) : build_processes(T)[p] = finalize_process(T, p)
  BY Zenon DEF build_processes
<1>3. ASSUME NEW p \in Task, NEW k \in TIMES PROVE finalize_process(T, p)[k] \in Nat \cup {NULL}
  <2> DEFINE r == finalize_process(T, p)
  <2>1. r[k] \in {r.response_time, r.turnaround_time, r.waiting_time}
    BY Zenon DEF TIMES
  <2>2. CASE p \in Child
    <3>1. /\ r.arrival_time # NULL =>
               r.response_time \in Nat /\ r.turnaround_time \in Nat /\ r.waiting_time \in Nat
          /\ r.arrival_time = NULL =>
               r.response_time = NULL /\ r.turnaround_time = NULL /\ r.waiting_time = NULL
      BY <2>2, ChildMeasured
    <3> HIDE DEF r
    <3>2. r[k] \in Nat \cup {NULL}
      BY <2>1, <3>1, Zenon
    <3> QED  BY <3>2, Zenon DEF r
  <2>3. CASE p \notin Child
    <3>1. ArrivalOf(T, p) = NULL
      BY <2>3, ArrivalTold, Zenon
    <3> DEFINE arr == ArrivalOf(T, p)
               turn == Minus(FinishOf(T, p), arr)
    <3>2. /\ r.response_time = Minus(FirstTick(T, "DISPATCH", p), arr)
          /\ r.turnaround_time = turn /\ r.waiting_time = Minus(turn, cpu_used(T, p))
      BY DEF finalize_process
    <3>3. turn = NULL
      BY <3>1, Zenon DEF Minus
    <3> HIDE DEF r, turn
    <3>4. r.response_time = NULL /\ r.turnaround_time = NULL /\ r.waiting_time = NULL
      BY <3>1, <3>2, <3>3, Zenon DEF Minus
    <3>5. r[k] \in Nat \cup {NULL}
      BY <2>1, <3>4, Zenon
    <3> QED  BY <3>5, Zenon DEF r
  <2> QED  BY <2>2, <2>3
<1> QED  BY <1>1, <1>2, <1>3, Zenon

\* MeasuredIsTrue, of the run that has ended.
LEMMA TheNumbersAreTrue ==
  ASSUME ConsoleInv, at = "done", evs = parse_xv6_log(console, job.algo), m = compute_metrics(evs)
  PROVE  MeasuredIsTrue
<1>1z. PICK c \in Nat, base \in Nat : \E b : Told(evs, c, base, b)
  BY TraceTells, Zenon
<1>1. PICK b : Told(evs, c, base, b)
  BY <1>1z, Zenon
<1>2. m.per_process = build_processes(evs)
  <2>1. compute_metrics(evs).per_process = build_processes(evs)
    BY DEF compute_metrics
  <2> QED  BY <2>1, Zenon
<1> SUFFICES ASSUME NEW p \in DOMAIN m.per_process \cap Child
             PROVE  LET r == m.per_process[p]
                        base_ == end[p] - r.finish_time
                        late == first[p] - base_ - Def(p).arrival
                        response == IF late > 0 THEN late ELSE 0
                    IN  r.arrival_time # NULL =>
                          /\ r.response_time = response
                          /\ r.turnaround_time = end[p] - first[p] + response
                          /\ r.waiting_time = r.turnaround_time - used[p] + hidden[p]
  BY Zenon DEF MeasuredIsTrue
<1> DEFINE r == m.per_process[p]
<1>3. r = finalize_process(evs, p)
  BY <1>1, <1>2, RowsMeasured, Zenon
<1>4. /\ base = end[p] - r.finish_time
      /\ r.arrival_time # NULL =>
           /\ r.response_time = Response(p, base)
           /\ r.turnaround_time = end[p] - first[p] + Response(p, base)
           /\ r.waiting_time = r.turnaround_time - used[p] + hidden[p]
  <2> DEFINE s == finalize_process(evs, p)
  <2>1. /\ base = end[p] - s.finish_time
        /\ s.arrival_time # NULL =>
             /\ s.response_time = Response(p, base)
             /\ s.turnaround_time = end[p] - first[p] + Response(p, base)
             /\ s.waiting_time = s.turnaround_time - used[p] + hidden[p]
    BY <1>1, ChildMeasured
  <2> HIDE DEF r, s
  <2> QED  BY <1>3, <2>1, Zenon DEF s
<1> HIDE DEF r
<1>5. ASSUME r.arrival_time # NULL
      PROVE  LET base_ == end[p] - r.finish_time
                 late == first[p] - base_ - Def(p).arrival
                 response == IF late > 0 THEN late ELSE 0
             IN  /\ r.response_time = response
                 /\ r.turnaround_time = end[p] - first[p] + response
                 /\ r.waiting_time = r.turnaround_time - used[p] + hidden[p]
  <2> DEFINE x == end[p] - r.finish_time
  <2>1. base = x
    BY <1>4, Zenon
  <2> HIDE DEF x
  <2>2. /\ r.response_time = Response(p, x)
        /\ r.turnaround_time = end[p] - first[p] + Response(p, x)
        /\ r.waiting_time = r.turnaround_time - used[p] + hidden[p]
    BY <1>4, <1>5, <2>1, Zenon
  <2> QED  BY <2>2, Zenon DEF Response, x
<1> QED  BY <1>5, Zenon DEF r

\* safe_mean of times that are None or not below zero.
LEMMA Averaged ==
  ASSUME NEW per, IsFiniteSet(DOMAIN per), NEW k,
         \A p \in DOMAIN per : per[p][k] \in Nat \cup {NULL}
  PROVE  safe_mean(per, k) \in Nat \cup {NULL}
<1> DEFINE known == {p \in Completed(per) : per[p][k] # NULL}
           f == [p \in known |-> per[p][k]]
           n == Cardinality(known)
<1>1. known \subseteq DOMAIN per /\ \A p \in known : per[p][k] \in Nat
  BY Zenon DEF Completed
<1>2. safe_mean(per, k) = IF known = {} THEN NULL ELSE Round(100 * Total(f), n)
  BY Zenon DEF safe_mean
<1>3. IsFiniteSet(known)
  BY <1>1, FS_Subset, Zenon
<1>4. CASE known = {}
  BY <1>2, <1>4, Zenon
<1>5. CASE known # {}
  <2>1. n \in Nat /\ n # 0
    BY <1>3, <1>5, FS_CardinalityType, FS_EmptySet, Zenon
  <2>2. Total(f) \in Nat
    <3>1. DOMAIN f = known /\ \A p \in known : f[p] \in Nat
      BY <1>1, Zenon
    <3> HIDE DEF f
    <3> QED  BY <1>3, <3>1, TotalIsNat, Zenon
  <2> HIDE DEF f, n, known
  <2>3. 100 * Total(f) \in Nat /\ n \in Nat \ {0}
    <3> DEFINE t == Total(f)
    <3>1. t \in Nat
      BY <2>2, Zenon
    <3> HIDE DEF t
    <3>2. 100 * t \in Nat /\ n \in Nat \ {0}
      BY <2>1, <3>1, SMT
    <3> QED  BY <3>2, Zenon DEF t
  <2>4. Round(100 * Total(f), n) \in Nat
    <3> DEFINE t == 100 * Total(f)
    <3> HIDE DEF t
    <3>1. t \in Nat /\ n \in Nat \ {0}
      BY <2>3, Zenon DEF t
    <3>2. Round(t, n) \in Nat
      BY <3>1, RoundIsNat, Zenon
    <3> QED  BY <3>2, Zenon DEF t
  <2> QED  BY <1>2, <1>5, <2>4, Zenon
<1> QED  BY <1>4, <1>5

\* What compute_metrics reports of a run that has ended are numbers.
LEMMA TheNumbersAreNumbers ==
  ASSUME ConsoleInv, at = "done"
  PROVE  MetricNumbers(compute_metrics(parse_xv6_log(console, job.algo)))
<1> DEFINE T == parse_xv6_log(console, job.algo)
           x == compute_metrics(T)
           per == build_processes(T)
           ticks == TicksOf(T)
           span == IF ticks = {} THEN 0 ELSE Largest(ticks) - Least(ticks)
           ended == Cardinality(Completed(per))
           starved == evaluate_starvation(T, per, span)
<1>1z. PICK c \in Nat, base \in Nat : \E b : Told(T, c, base, b)
  BY TraceTells, Zenon
<1>1. PICK b : Told(T, c, base, b)
  BY <1>1z, Zenon
<1>2. /\ x.avg_response_time = safe_mean(per, "response_time")
      /\ x.avg_turnaround_time = safe_mean(per, "turnaround_time")
      /\ x.avg_waiting_time = safe_mean(per, "waiting_time")
      /\ x.throughput = IF span = 0 THEN 0 ELSE Round(1000 * ended, span)
      /\ x.starvation_occurred = (starved # {})
  BY DEF compute_metrics
<1> HIDE DEF T
<1>3. /\ DOMAIN per \subseteq Task /\ IsFiniteSet(DOMAIN per)
      /\ \A k \in TIMES : \A p \in DOMAIN per : per[p][k] \in Nat \cup {NULL}
  <2>1. /\ Pids(T) \subseteq Task /\ DOMAIN per = Pids(T)
        /\ \A p \in Pids(T), k \in TIMES : per[p][k] \in Nat \cup {NULL}
    BY <1>1, RowsMeasured, Zenon
  <2> HIDE DEF per
  <2>2. IsFiniteSet(DOMAIN per)
    BY <2>1, TasksFinite, FS_Subset, Zenon
  <2> QED  BY <2>1, <2>2, Zenon
<1> HIDE DEF x, per, ended, starved, span
<1>4. \A k \in TIMES : safe_mean(per, k) \in Nat \cup {NULL}
  BY <1>3, Averaged, Zenon
<1>5. \A k \in {"avg_response_time", "avg_turnaround_time", "avg_waiting_time"} :
        x[k] \in Nat \cup {NULL}
  <2>1. /\ x.avg_response_time \in Nat \cup {NULL} /\ x.avg_turnaround_time \in Nat \cup {NULL}
        /\ x.avg_waiting_time \in Nat \cup {NULL}
    <3>1. /\ "response_time" \in TIMES /\ "turnaround_time" \in TIMES
          /\ "waiting_time" \in TIMES
      BY DEF TIMES
    <3>2. /\ safe_mean(per, "response_time") \in Nat \cup {NULL}
          /\ safe_mean(per, "turnaround_time") \in Nat \cup {NULL}
          /\ safe_mean(per, "waiting_time") \in Nat \cup {NULL}
      BY <1>4, <3>1, Zenon
    <3>3. /\ x.avg_response_time = safe_mean(per, "response_time")
          /\ x.avg_turnaround_time = safe_mean(per, "turnaround_time")
          /\ x.avg_waiting_time = safe_mean(per, "waiting_time")
      BY <1>2
    <3> QED  BY <3>2, <3>3, Zenon
  <2> QED  BY <2>1, Zenon
<1>6. span \in Nat
  <2>1. ticks \subseteq 0..tick /\ tick \in Nat
    <3>1. tick \in Nat
      BY Zenon DEF ConsoleInv, StateInv
    <3>2. /\ DOMAIN T = 1..c
          /\ \A k \in 1..c : T[k].tick = NULL \/ (T[k].tick \in Nat /\ T[k].tick <= tick)
      BY <1>1, Zenon DEF Told
    <3>3. ticks = {T[i].tick : i \in 1..c} \ {NULL}
      BY <3>2, Zenon DEF TicksOf
    <3>4. \A t : t \in Nat /\ t <= tick => t \in 0..tick
      BY <3>1, SMT
    <3> QED  BY <3>1, <3>2, <3>3, <3>4, Zenon
  <2> HIDE DEF ticks
  <2>2. CASE ticks = {}
    <3>1. span = 0
      BY <2>2, Zenon DEF span
    <3> QED  BY <3>1
  <2>3. CASE ticks # {}
    <3>1. ticks \subseteq Nat
      BY <2>1, SMT
    <3>2. Least(ticks) \in ticks /\ \A t \in ticks : Least(ticks) <= t
      BY <2>3, <3>1, LeastOf, Zenon
    <3>3. Largest(ticks) \in ticks
      BY <2>1, <2>3, LargestOf, Zenon
    <3> DEFINE y == Least(ticks)
               z == Largest(ticks)
    <3>4. y \in Nat /\ z \in Nat /\ y <= z
      BY <3>1, <3>2, <3>3, Zenon
    <3>5. span = z - y
      BY <2>3, Zenon DEF span
    <3> HIDE DEF y, z
    <3> QED  BY <3>4, <3>5, SMT
  <2> QED  BY <2>2, <2>3
<1>7. ended \in Nat
  <2>1. IsFiniteSet(Completed(per))
    <3>1. Completed(per) \subseteq DOMAIN per
      BY Zenon DEF Completed
    <3> QED  BY <1>3, <3>1, FS_Subset, Zenon
  <2> QED  BY <2>1, FS_CardinalityType, Zenon DEF ended
<1>8. x.throughput \in Nat
  <2>1. CASE span = 0
    BY <1>2, <2>1
  <2>2. CASE span # 0
    <3> DEFINE y == 1000 * ended
    <3>1. y \in Nat /\ span \in Nat \ {0}
      BY <1>6, <1>7, <2>2, SMT
    <3> HIDE DEF y
    <3>2. Round(y, span) \in Nat
      BY <3>1, RoundIsNat, Zenon
    <3> QED  BY <1>2, <2>2, <3>2, Zenon DEF y
  <2> QED  BY <2>1, <2>2
<1>9. x.starvation_occurred \in BOOLEAN
  BY <1>2, Zenon
<1> QED  BY <1>5, <1>8, <1>9, Zenon DEF MetricNumbers, x, T

-----------------------------------------------------------------------------
(* From the run to the verdict.                                            *)

\* The run is not looked at before it starts nor touched after it ends: the trace,
\* the metrics and the verdict are those of its console.
Judgement(other) ==
  LET own == [algo |-> normalize_algorithm_name(job.algo), m |-> m]
  IN  /\ other.algo # own.algo
      /\ verdict = [xv6 |-> build_xv6_metrics(<<own, other>>, own.algo, TargetOf(rec)),
                    tool |-> evaluate_run(<<own, other>>, own.algo, TargetOf(rec))]

MeasureInv ==
  /\ ConsoleInv
  /\ stage \in {"ask", "guard", "command", "typed"} => at = "begin"
  /\ stage \in {"judge", "done"} => /\ at = "done" /\ evs = parse_xv6_log(console, job.algo)
                                    /\ m = compute_metrics(evs)
  /\ stage = "done" => \E other \in Others : Judgement(other)

\* ConsoleInv reads the run's variables only.
LEMMA ConsoleKept ==
  ASSUME ConsoleInv, UNCHANGED consoleVars PROVE ConsoleInv'
<1>1. /\ job' = job /\ tick' = tick /\ cpu' = cpu /\ ran' = ran /\ st' = st /\ used' = used
      /\ at' = at /\ console' = console /\ first' = first /\ end' = end /\ hidden' = hidden
  BY DEF consoleVars, runVars
<1> QED  BY <1>1, Zenon DEF ConsoleInv, StateInv, ChildOf

\* Before RUN_BEGIN no line depends on the algorithm that was asked for.
LEMMA JobChosen ==
  ASSUME ConsoleInv, at = "begin", UNCHANGED runVars PROVE ConsoleInv'
<1>1. /\ tick' = tick /\ cpu' = cpu /\ ran' = ran /\ st' = st /\ used' = used
      /\ at' = at /\ console' = console /\ first' = first /\ end' = end /\ hidden' = hidden
  BY DEF runVars
<1>2. at # "done" /\ at # "tail" /\ at \in {"begin", "rest", "tail"}
  OBVIOUS
<1>3. \A x : WordsInv(console, x, at)
  BY <1>2, Zenon DEF ConsoleInv, WordsInv
<1>4. WordsInv(console, job.algo, at)'
  BY <1>1, <1>3, Zenon
<1> QED  BY <1>1, <1>4, Zenon DEF ConsoleInv, StateInv, ChildOf

\* MeasureInv holds at the start.
LEMMA MeasureStarts ==
  ASSUME Init PROVE MeasureInv
<1>1. ConsoleInit /\ stage = "ask" /\ at = "begin"
  BY DEF Init, ConsoleInit
<1>2. ConsoleInv
  BY <1>1, RunStarts, Zenon
<1> QED  BY <1>1, <1>2, SMT DEF MeasureInv

\* Every step keeps MeasureInv.
LEMMA MeasureKept ==
  ASSUME MeasureInv, [Next]_vars PROVE MeasureInv'
<1>1. ConsoleInv
  BY Zenon DEF MeasureInv
<1>2. CASE Advise \/ RunGuard \/ Type
  <2>1. /\ stage \in {"ask", "guard", "command"} /\ stage' \in {"guard", "command", "typed", "stopped"}
        /\ UNCHANGED consoleVars
    BY <1>2, SMT DEF Advise, RunGuard, Type, KeepRun
  <2>2. at' = at
    BY <2>1 DEF consoleVars, runVars
  <2>3. ConsoleInv'
    BY <1>1, <2>1, ConsoleKept, Zenon
  <2>4. stage \in {"ask", "guard", "command", "typed"}
    BY <2>1
  <2>5. at = "begin"
    BY <2>4, Zenon DEF MeasureInv
  <2>6. stage' \notin {"judge", "done"} /\ stage' # "done"
    BY <2>1
  <2> QED  BY <2>2, <2>3, <2>5, <2>6, Zenon DEF MeasureInv
<1>3. CASE Start
  <2>1. stage = "typed" /\ stage' = "run" /\ UNCHANGED runVars
    BY <1>3, Zenon DEF Start
  <2>2. stage \in {"ask", "guard", "command", "typed"}
    BY <2>1
  <2>3. at = "begin"
    BY <2>2, Zenon DEF MeasureInv
  <2>4. ConsoleInv'
    BY <1>1, <2>1, <2>3, JobChosen, Zenon
  <2>5. stage' \notin {"ask", "guard", "command", "typed"} /\ stage' \notin {"judge", "done"} /\ stage' # "done"
    BY <2>1
  <2> QED  BY <2>4, <2>5, Zenon DEF MeasureInv
<1>4. CASE Run
  <2>1. stage = "run" /\ ConsoleNext /\ stage' = stage
    BY <1>4, Zenon DEF Run, hostVars
  <2>2. ConsoleInv'
    BY <1>1, <2>1, RunKeeps, Zenon
  <2>3. stage' \notin {"ask", "guard", "command", "typed"} /\ stage' \notin {"judge", "done"} /\ stage' # "done"
    BY <2>1
  <2> QED  BY <2>2, <2>3, Zenon DEF MeasureInv
<1>5. CASE Capture
  <2>1. /\ stage' = "judge" /\ at = "done" /\ UNCHANGED consoleVars
        /\ evs' = parse_xv6_log(console, job.algo) /\ m' = compute_metrics(evs')
    BY <1>5, Zenon DEF Capture, KeepRun
  <2>2. at' = at /\ console' = console /\ job' = job
    BY <2>1 DEF consoleVars, runVars
  <2>3. ConsoleInv'
    BY <1>1, <2>1, ConsoleKept, Zenon
  <2>4. stage' \notin {"ask", "guard", "command", "typed"} /\ stage' # "done"
    BY <2>1
  <2>5. at' = "done" /\ evs' = parse_xv6_log(console', job'.algo)
    BY <2>1, <2>2, Zenon
  <2> QED  BY <2>1, <2>3, <2>4, <2>5, Zenon DEF MeasureInv
<1>6. CASE TimesOut
  <2>1. stage' = "stopped" /\ UNCHANGED consoleVars
    BY <1>6, Zenon DEF TimesOut, KeepRun
  <2>2. ConsoleInv'
    BY <1>1, <2>1, ConsoleKept, Zenon
  <2>3. stage' \notin {"ask", "guard", "command", "typed"} /\ stage' \notin {"judge", "done"} /\ stage' # "done"
    BY <2>1
  <2> QED  BY <2>2, <2>3, Zenon DEF MeasureInv
<1>7. CASE Judges
  <2> DEFINE own == [algo |-> normalize_algorithm_name(job.algo), m |-> m]
  <2>1. PICK other \in {o \in Others : o.algo # normalize_algorithm_name(job.algo)} :
          verdict' = [xv6 |-> build_xv6_metrics(<<own, other>>, <<own, other>>[1].algo, TargetOf(rec)),
                      tool |-> evaluate_run(<<own, other>>, <<own, other>>[1].algo, TargetOf(rec))]
    BY <1>7, Zenon DEF Judges
  <2>2. /\ stage = "judge" /\ stage' = "done" /\ rec' = rec /\ evs' = evs /\ m' = m
        /\ UNCHANGED consoleVars
    BY <1>7, Zenon DEF Judges, KeepRun
  <2>3. at' = at /\ console' = console /\ job' = job
    BY <2>2 DEF consoleVars, runVars
  <2>4. ConsoleInv'
    BY <1>1, <2>2, ConsoleKept, Zenon
  <2>5. <<own, other>>[1] = own /\ own.algo = normalize_algorithm_name(job.algo)
    OBVIOUS
  <2>6. other \in Others /\ other.algo # own.algo
    BY <2>1, <2>5, Zenon
  <2>7. verdict' = [xv6 |-> build_xv6_metrics(<<own, other>>, own.algo, TargetOf(rec)),
                    tool |-> evaluate_run(<<own, other>>, own.algo, TargetOf(rec))]
    BY <2>1, <2>5, Zenon
  <2>8. Judgement(other)'
    BY <2>2, <2>3, <2>6, <2>7, Zenon DEF Judgement
  <2>9. at = "done" /\ evs = parse_xv6_log(console, job.algo) /\ m = compute_metrics(evs)
    <3>1. stage \in {"judge", "done"}
      BY <2>2
    <3> QED  BY <3>1, Zenon DEF MeasureInv
  <2>10. at' = "done" /\ evs' = parse_xv6_log(console', job'.algo) /\ m' = compute_metrics(evs')
    BY <2>2, <2>3, <2>9, Zenon
  <2>11. stage' \notin {"ask", "guard", "command", "typed"}
    BY <2>2
  <2>12. (\E o \in Others : Judgement(o))'
    BY <2>6, <2>8, Zenon
  <2> QED  BY <2>4, <2>10, <2>11, <2>12, Zenon DEF MeasureInv
<1>8. CASE UNCHANGED vars
  <2>1. /\ stage' = stage /\ rec' = rec /\ evs' = evs /\ m' = m /\ verdict' = verdict
        /\ UNCHANGED consoleVars
    BY <1>8 DEF vars, hostVars
  <2>2. at' = at /\ console' = console /\ job' = job
    BY <2>1 DEF consoleVars, runVars
  <2>3. ConsoleInv'
    BY <1>1, <2>1, ConsoleKept, Zenon
  <2> QED  BY <2>1, <2>2, <2>3, Zenon DEF MeasureInv, Judgement
<1> QED  BY <1>2, <1>3, <1>4, <1>5, <1>6, <1>7, <1>8, Zenon DEF Next

\* Through every recommendation, the run and what follows it stay as MeasureInv says.
THEOREM MeasureInvariant == HostSpec => []MeasureInv
<1> QED  BY MeasureStarts, MeasureKept, PTL DEF HostSpec

\* Whatever reaches the console and wherever RUN_BEGIN and the definitions are cut, the trace of a run
\* that ended holds every kernel line of its children, each at its tick up to one
\* shift, and none of the boot.
THEOREM TraceIsTheRun == HostSpec => []WindowIsTheRun
<1>1. MeasureInv => WindowIsTheRun
  <2> SUFFICES ASSUME MeasureInv, stage = "judge" PROVE WindowIsTheRun
    BY Zenon DEF WindowIsTheRun
  <2>1. stage \in {"judge", "done"}
    OBVIOUS
  <2> QED  BY <2>1, TheTraceIsTheRun, Zenon DEF MeasureInv
<1> QED  BY <1>1, MeasureInvariant, PTL

\* The response, turnaround and waiting times of a process are what the run did to it.
THEOREM NumbersAreTrue == HostSpec => []MeasuredIsTrue
<1>1. MeasureInv => MeasuredIsTrue
  <2> SUFFICES ASSUME MeasureInv, stage = "judge" PROVE MeasuredIsTrue
    BY Zenon DEF MeasuredIsTrue
  <2>1. stage \in {"judge", "done"}
    OBVIOUS
  <2> QED  BY <2>1, TheNumbersAreTrue, Zenon DEF MeasureInv
<1> QED  BY <1>1, MeasureInvariant, PTL

\* What compute_metrics reports of a run is what OthersAssumption takes the metrics
\* of the other algorithms to be: averages that are None or not below zero.
MetricsAreNumbers == stage \in {"judge", "done"} => MetricNumbers(m)

\* MeasureInv gives it in each state.
LEMMA TheMetricsAreNumbers ==
  ASSUME MeasureInv PROVE MetricsAreNumbers
<1> SUFFICES ASSUME stage \in {"judge", "done"} PROVE MetricNumbers(m)
  BY Zenon DEF MetricsAreNumbers
<1>1. /\ ConsoleInv /\ at = "done" /\ evs = parse_xv6_log(console, job.algo)
      /\ m = compute_metrics(evs)
  BY Zenon DEF MeasureInv
<1> QED  BY <1>1, TheNumbersAreNumbers, Zenon

\* So it is in every run that was measured, whatever the trace lost.
THEOREM MetricsAlwaysNumbers == HostSpec => []MetricsAreNumbers
<1> QED  BY TheMetricsAreNumbers, MeasureInvariant, PTL

\* On the same runs the orchestrator is never harsher than tools/metrics.py, agrees with
\* it beyond the floor, and fails a run for its target only if another one is better.
THEOREM VerdictsAlwaysAgree == HostSpec => []VerdictsAgree
<1>1. MeasureInv => VerdictsAgree
  <2> SUFFICES ASSUME MeasureInv, stage = "done" PROVE VerdictsAgree
    BY Zenon DEF VerdictsAgree
  <2> DEFINE own == [algo |-> normalize_algorithm_name(job.algo), m |-> m]
  <2>1. PICK o \in Others : Judgement(o)
    BY Zenon DEF MeasureInv
  <2>2. o.algo # own.algo /\
        verdict = [xv6 |-> build_xv6_metrics(<<own, o>>, own.algo, TargetOf(rec)),
                   tool |-> evaluate_run(<<own, o>>, own.algo, TargetOf(rec))]
    BY <2>1, Zenon DEF Judgement
  <2>3. MetricNumbers(own.m) /\ MetricNumbers(o.m)
    <3>1. MetricNumbers(m) /\ own.m = m
      <4>1. stage \in {"judge", "done"}
        OBVIOUS
      <4> QED  BY <4>1, TheMetricsAreNumbers, Zenon DEF MetricsAreNumbers
    <3> QED  BY <2>1, <3>1, OthersAssumption, Zenon
  <2> HIDE DEF own
  <2>4. Agrees(build_xv6_metrics(<<own, o>>, own.algo, TargetOf(rec)),
               evaluate_run(<<own, o>>, own.algo, TargetOf(rec)), own.m.starvation_occurred)
    BY <2>2, <2>3, EvaluatorsAgree, Zenon
  <2>5. verdict.xv6 = build_xv6_metrics(<<own, o>>, own.algo, TargetOf(rec))
        /\ verdict.tool = evaluate_run(<<own, o>>, own.algo, TargetOf(rec))
    BY <2>2
  <2>6. own.m = m
    BY DEF own
  <2>7. Agrees(verdict.xv6, verdict.tool, m.starvation_occurred)
    BY <2>4, <2>5, <2>6, Zenon
  <2> QED  BY <2>7, Zenon DEF Agrees, VerdictsAgree
<1> QED  BY <1>1, MeasureInvariant, PTL
=============================================================================
