-------------------------------- MODULE Sums --------------------------------
(***************************************************************************)
(* Facts the proofs share: finite sums, that is what MapThenSumSet of the  *)
(* community modules returns for every finite set, and quotients.          *)
(***************************************************************************)
EXTENDS Integers, FiniteSetsExt, FiniteSetTheorems, WellFoundedInduction, TLAPS

(* The sum of f[x] over the elements x of S.                               *)
SumIn(f, S) == MapThenSumSet(LAMBDA x : f[x], S)

(* A set of naturals that is not empty has a smallest element.             *)
LEMMA SmallestNat ==
    ASSUME NEW T, T \subseteq Nat, T # {}
    PROVE  \E n \in T : \A m \in T : n <= m
<1>1. PICK n \in T : \A m \in T : ~(<<m, n>> \in OpToRel(<, Nat))
  BY NatLessThanWellFounded, WFMin
<1>2. \A m \in T : ~(m < n)
  BY <1>1 DEF OpToRel
<1> QED
  BY <1>2

(* Induction over the naturals, the property given as the set of those that *)
(* have it.                                                                *)
LEMMA NatSetInduction ==
    ASSUME NEW P, 0 \in P, \A n \in Nat : n \in P => n + 1 \in P
    PROVE  Nat \subseteq P
<1>1. SUFFICES ASSUME Nat \ P # {} PROVE FALSE
  OBVIOUS
<1>2. PICK n \in Nat \ P : \A m \in Nat \ P : n <= m
  BY <1>1, SmallestNat
<1>3. n # 0 /\ n - 1 \in Nat /\ n - 1 \in P
  BY <1>2
<1> QED
  BY <1>2, <1>3

(* Induction over the subsets of a finite set, in the same form.           *)
LEMMA SetInduction ==
    ASSUME NEW S, IsFiniteSet(S), NEW P, {} \in P,
           \A T \in SUBSET S : \A x \in S \ T : T \in P => T \cup {x} \in P
    PROVE  \A T \in SUBSET S : T \in P
<1> DEFINE N == {n \in Nat : \A T \in SUBSET S : Cardinality(T) = n => T \in P}
<1>1. \A T \in SUBSET S : IsFiniteSet(T) /\ Cardinality(T) \in Nat
  BY FS_Subset, FS_CardinalityType
<1>2. 0 \in N
  BY <1>1, FS_EmptySet
<1>3. ASSUME NEW n \in Nat, n \in N PROVE n + 1 \in N
  <2>1. SUFFICES ASSUME NEW T \in SUBSET S, Cardinality(T) = n + 1 PROVE T \in P
    OBVIOUS
  <2>2. PICK x \in T : TRUE
    <3>1. T # {}
      BY <1>1, <2>1, FS_EmptySet
    <3> QED
      BY <3>1
  <2>3. T \ {x} \in P
    <3>1. Cardinality(T \ {x}) = Cardinality(T) - 1
      BY <1>1, <2>2, FS_RemoveElement
    <3>2. Cardinality(T \ {x}) = n
      BY <1>3, <2>1, <3>1
    <3> QED
      BY <1>3, <3>2
  <2>4. T = (T \ {x}) \cup {x} /\ x \in S \ (T \ {x}) /\ T \ {x} \in SUBSET S
    BY <2>2
  <2> QED
    BY <2>3, <2>4
<1>4. Nat \subseteq N
  <2> HIDE DEF N
  <2> QED BY <1>2, <1>3, NatSetInduction
<1> QED
  BY <1>1, <1>4

(* The equation that the fold of a sum over the subsets of S satisfies.    *)
SumEquation(g, f, D) ==
    g = [s \in D |-> IF s = {} THEN 0
                     ELSE LET x == CHOOSE y \in s : TRUE IN f[x] + g[s \ {x}]]

(* What the recursive definition in the fold means: some function satisfies *)
(* it, so the one that it chooses does.                                    *)
LEMMA FoldExists ==
    ASSUME NEW S, IsFiniteSet(S), NEW f
    PROVE  \E g : SumEquation(g, f, SUBSET S)
<1> DEFINE Small(n) == {s \in SUBSET S : Cardinality(s) <= n}
           N == {n \in Nat : \E g : SumEquation(g, f, Small(n))}
<1>1. \A s \in SUBSET S : IsFiniteSet(s) /\ Cardinality(s) \in Nat /\ Cardinality(s) <= Cardinality(S)
  BY FS_Subset, FS_CardinalityType
<1>2. 0 \in N
  <2>1. Small(0) = {{}}
    BY <1>1, FS_EmptySet
  <2> DEFINE g == [s \in {{}} |-> 0]
  <2>2. SumEquation(g, f, Small(0))
    BY <2>1 DEF SumEquation
  <2> QED
    BY <2>2
<1>3. ASSUME NEW n \in Nat, n \in N PROVE n + 1 \in N
  <2>1. PICK g : SumEquation(g, f, Small(n))
    BY <1>3
  <2> DEFINE h == [s \in Small(n + 1) |->
                     IF s = {} THEN 0 ELSE LET x == CHOOSE y \in s : TRUE IN f[x] + g[s \ {x}]]
  <2>2. ASSUME NEW s \in Small(n) PROVE h[s] = g[s]
    <3>1. s \in Small(n + 1)
      BY <1>1, <1>3
    <3> QED
      BY <2>1, <3>1 DEF SumEquation
  <2>3. ASSUME NEW s \in Small(n + 1), s # {} PROVE s \ {CHOOSE y \in s : TRUE} \in Small(n)
    <3>1. PICK x \in s : x = CHOOSE y \in s : TRUE
      BY <2>3
    <3>2. Cardinality(s \ {x}) = Cardinality(s) - 1
      BY <1>1, <3>1, FS_RemoveElement
    <3>3. Cardinality(s \ {x}) <= n
      BY <1>1, <1>3, <3>2
    <3> QED
      BY <3>1, <3>3
  <2>4. SumEquation(h, f, Small(n + 1))
    <3>1. ASSUME NEW s \in Small(n + 1)
          PROVE  (IF s = {} THEN 0 ELSE LET x == CHOOSE y \in s : TRUE IN f[x] + g[s \ {x}])
                 = (IF s = {} THEN 0 ELSE LET x == CHOOSE y \in s : TRUE IN f[x] + h[s \ {x}])
      <4>1. CASE s = {}
        BY <4>1
      <4>2. CASE s # {}
        <5>1. h[s \ {CHOOSE y \in s : TRUE}] = g[s \ {CHOOSE y \in s : TRUE}]
          <6> HIDE DEF h, Small
          <6> QED BY <2>2, <2>3, <3>1, <4>2
        <5> QED
          BY <4>2, <5>1, Zenon
      <4> QED
        BY <4>1, <4>2
    <3> QED
      BY <3>1, Zenon DEF SumEquation
  <2>5. \E k : SumEquation(k, f, Small(n + 1))
    <3> HIDE DEF h, Small
    <3> QED BY <2>4
  <2> QED
    <3> HIDE DEF Small
    <3> QED BY <1>3, <2>5
<1>4. Nat \subseteq N
  <2> HIDE DEF N
  <2> QED BY <1>2, <1>3, NatSetInduction
<1>5. Cardinality(S) \in N
  BY <1>4, FS_CardinalityType
<1>6. Small(Cardinality(S)) = SUBSET S
  BY <1>1
<1> QED
  BY <1>5, <1>6

(* The functions that satisfy it agree on the sets that both are defined on. *)
LEMMA FoldUnique ==
    ASSUME NEW S, IsFiniteSet(S), NEW T \in SUBSET S, NEW f, NEW g, NEW h,
           SumEquation(g, f, SUBSET S), SumEquation(h, f, SUBSET T)
    PROVE  \A s \in SUBSET T : g[s] = h[s]
<1> DEFINE N == {n \in Nat : \A s \in SUBSET T : Cardinality(s) = n => g[s] = h[s]}
<1>1. \A s \in SUBSET T : IsFiniteSet(s) /\ Cardinality(s) \in Nat
  BY FS_Subset, FS_CardinalityType
<1>2. 0 \in N
  <2>1. ASSUME NEW s \in SUBSET T, Cardinality(s) = 0 PROVE g[s] = h[s]
    <3>1. s = {}
      BY <1>1, <2>1, FS_EmptySet
    <3> QED
      BY <3>1 DEF SumEquation
  <2> QED
    BY <2>1
<1>3. ASSUME NEW n \in Nat, n \in N PROVE n + 1 \in N
  <2>1. SUFFICES ASSUME NEW s \in SUBSET T, Cardinality(s) = n + 1 PROVE g[s] = h[s]
    OBVIOUS
  <2>2. s # {}
    <3>1. SUFFICES ASSUME s = {} PROVE FALSE
      OBVIOUS
    <3>2. Cardinality(s) = 0
      BY <3>1, FS_EmptySet
    <3> QED
      BY <1>3, <2>1, <3>2
  <2>3. PICK x \in s : x = CHOOSE y \in s : TRUE
    BY <2>2
  <2>4. Cardinality(s \ {x}) = Cardinality(s) - 1
    BY <1>1, <2>3, FS_RemoveElement
  <2>5. Cardinality(s \ {x}) = n
    BY <1>3, <2>1, <2>4
  <2>6. g[s \ {x}] = h[s \ {x}]
    BY <1>3, <2>5
  <2>7. g[s] = f[x] + g[s \ {x}] /\ h[s] = f[x] + h[s \ {x}]
    BY <2>2, <2>3, ZenonT(60) DEF SumEquation
  <2> QED
    BY <2>6, <2>7
<1>4. Nat \subseteq N
  <2> HIDE DEF N
  <2> QED BY <1>2, <1>3, NatSetInduction
<1> QED
  BY <1>1, <1>4

(* A sum is what any solution of the equation gives.                       *)
LEMMA SumIsFold ==
    ASSUME NEW S, IsFiniteSet(S), NEW T \in SUBSET S, NEW f, NEW g, SumEquation(g, f, SUBSET S)
    PROVE  SumIn(f, T) = g[T]
<1> DEFINE h == CHOOSE k : SumEquation(k, f, SUBSET T)
<1>1. IsFiniteSet(T)
  BY FS_Subset
<1>2. SumEquation(h, f, SUBSET T)
  BY <1>1, FoldExists
<1>3. SumIn(f, T) = h[T]
  BY Zenon DEF SumIn, MapThenSumSet, MapThenFoldSet, SumEquation
<1>4. g[T] = h[T]
  <2> HIDE DEF h
  <2> QED BY <1>2, FoldUnique, SMTT(60)
<1> QED
  BY <1>3, <1>4

(* The sum over no element.                                                *)
LEMMA SumEmpty ==
    ASSUME NEW f
    PROVE  SumIn(f, {}) = 0
<1>1. IsFiniteSet({})
  BY FS_EmptySet
<1>2. PICK g : SumEquation(g, f, SUBSET {})
  BY <1>1, FoldExists
<1>3. g[{}] = 0
  BY <1>2 DEF SumEquation
<1>4. SumIn(f, {}) = g[{}]
  BY <1>1, <1>2, SumIsFold
<1> QED
  BY <1>3, <1>4

(* The sum over some elements, in the order of the fold.                   *)
LEMMA SumChoose ==
    ASSUME NEW S, IsFiniteSet(S), S # {}, NEW f
    PROVE  \E x \in S : SumIn(f, S) = f[x] + SumIn(f, S \ {x})
<1>1. PICK g : SumEquation(g, f, SUBSET S)
  BY FoldExists
<1>2. PICK x \in S : x = CHOOSE y \in S : TRUE
  OBVIOUS
<1>3. S \in SUBSET S /\ S \ {x} \in SUBSET S
  OBVIOUS
<1>4. g[S] = f[x] + g[S \ {x}]
  BY <1>1, <1>2, <1>3, Zenon DEF SumEquation
<1>5. SumIn(f, S) = g[S] /\ SumIn(f, S \ {x}) = g[S \ {x}]
  BY <1>1, <1>3, SumIsFold
<1> QED
  BY <1>4, <1>5

(* A sum of integers is one, and does not depend on the order.             *)
LEMMA SumRemove ==
    ASSUME NEW S, IsFiniteSet(S), NEW f, \A x \in S : f[x] \in Int
    PROVE  /\ SumIn(f, S) \in Int
           /\ \A x \in S : SumIn(f, S) = f[x] + SumIn(f, S \ {x})
<1> DEFINE Good(T) == /\ SumIn(f, T) \in Int
                      /\ \A x \in T : SumIn(f, T) = f[x] + SumIn(f, T \ {x})
           N == {n \in Nat : \A T \in SUBSET S : Cardinality(T) <= n => Good(T)}
<1>1. \A T \in SUBSET S : IsFiniteSet(T) /\ Cardinality(T) \in Nat
  BY FS_Subset, FS_CardinalityType
<1>2. 0 \in N
  <2>1. ASSUME NEW T \in SUBSET S, Cardinality(T) <= 0 PROVE Good(T)
    <3>1. T = {}
      BY <1>1, <2>1, FS_EmptySet
    <3> QED
      BY <3>1, SumEmpty
  <2> QED
    BY <2>1
<1>3. ASSUME NEW n \in Nat, n \in N PROVE n + 1 \in N
  <2>1. ASSUME NEW T \in SUBSET S, NEW x \in T, Cardinality(T) <= n + 1
        PROVE  Good(T \ {x})
    <3>1. Cardinality(T \ {x}) = Cardinality(T) - 1
      BY <1>1, <2>1, FS_RemoveElement
    <3>2. Cardinality(T \ {x}) <= n
      BY <1>1, <1>3, <2>1, <3>1
    <3> QED
      BY <1>3, <3>2
  <2>2. SUFFICES ASSUME NEW T \in SUBSET S, Cardinality(T) <= n + 1, T # {} PROVE Good(T)
    <3>1. Good({})
      BY SumEmpty
    <3> QED
      <4> HIDE DEF Good
      <4> QED BY <1>3, <3>1
  <2>3. PICK z \in T : SumIn(f, T) = f[z] + SumIn(f, T \ {z})
    BY <1>1, <2>2, SumChoose
  <2>4. SumIn(f, T \ {z}) \in Int /\ f[z] \in Int
    BY <2>1, <2>2
  <2>5. ASSUME NEW x \in T, x # z PROVE SumIn(f, T) = f[x] + SumIn(f, T \ {x})
    <3>1. SumIn(f, T \ {z}) = f[x] + SumIn(f, (T \ {z}) \ {x})
      BY <2>1, <2>2, <2>5
    <3>2. SumIn(f, T \ {x}) = f[z] + SumIn(f, (T \ {x}) \ {z})
      BY <2>1, <2>2, <2>5
    <3>3. (T \ {z}) \ {x} = (T \ {x}) \ {z}
      OBVIOUS
    <3>4. SumIn(f, (T \ {x}) \ {z}) \in Int
      <4>1. T \ {x} \in SUBSET S /\ Cardinality(T \ {x}) <= n + 1 /\ z \in T \ {x}
        <5>1. Cardinality(T \ {x}) <= Cardinality(T)
          BY <1>1, FS_Subset
        <5> QED
          BY <1>1, <2>2, <2>5, <5>1
      <4> QED
        BY <2>1, <4>1
    <3>5. f[x] \in Int
      BY <2>2
    <3>6. \A a, b, c \in Int : a + (b + c) = b + (a + c)
      OBVIOUS
    <3>7. SumIn(f, T) = f[z] + (f[x] + SumIn(f, (T \ {x}) \ {z}))
      BY <2>3, <3>1, <3>3, Zenon
    <3>8. SumIn(f, T) = f[x] + (f[z] + SumIn(f, (T \ {x}) \ {z}))
      BY <2>4, <3>4, <3>5, <3>6, <3>7, Zenon
    <3> QED
      BY <3>2, <3>8, Zenon
  <2> QED
    BY <2>3, <2>4, <2>5
<1>4. Nat \subseteq N
  <2> HIDE DEF N
  <2> QED BY <1>2, <1>3, NatSetInduction
<1>5. S \in SUBSET S
  OBVIOUS
<1> QED
  BY <1>1, <1>4, <1>5

LEMMA SumInt ==
    ASSUME NEW S, IsFiniteSet(S), NEW f, \A x \in S : f[x] \in Int
    PROVE  \A T \in SUBSET S : SumIn(f, T) \in Int
BY SumRemove, FS_Subset

(* A sum takes in one more element.                                        *)
LEMMA SumAddElement ==
    ASSUME NEW S, IsFiniteSet(S), NEW f, \A x \in S : f[x] \in Int,
           NEW T \in SUBSET S, NEW x \in S \ T
    PROVE  SumIn(f, T \cup {x}) = f[x] + SumIn(f, T)
<1>1. T \cup {x} \in SUBSET S /\ x \in T \cup {x} /\ (T \cup {x}) \ {x} = T
  OBVIOUS
<1>2. IsFiniteSet(T \cup {x})
  BY <1>1, FS_Subset
<1>3. \A y \in T \cup {x} : f[y] \in Int
  BY <1>1
<1> QED
  BY <1>1, <1>2, <1>3, SumRemove

(* Sums compare as their terms do.                                         *)
LEMMA SumMonotone ==
    ASSUME NEW S, IsFiniteSet(S), NEW f, NEW g,
           \A x \in S : f[x] \in Int /\ g[x] \in Int /\ f[x] <= g[x]
    PROVE  SumIn(f, S) <= SumIn(g, S)
<1> DEFINE P == {T \in SUBSET S : SumIn(f, T) <= SumIn(g, T)}
<1>1. {} \in P
  BY SumEmpty
<1>2. ASSUME NEW T \in SUBSET S, NEW x \in S \ T, T \in P PROVE T \cup {x} \in P
  <2>1. SumIn(f, T \cup {x}) = f[x] + SumIn(f, T) /\ SumIn(g, T \cup {x}) = g[x] + SumIn(g, T)
    BY SumAddElement
  <2>2. SumIn(f, T) \in Int /\ SumIn(g, T) \in Int
    BY SumInt
  <2>3. f[x] \in Int /\ g[x] \in Int /\ f[x] <= g[x] /\ SumIn(f, T) <= SumIn(g, T)
    BY <1>2
  <2>4. \A a, b, c, d \in Int : a <= b /\ c <= d => a + c <= b + d
    OBVIOUS
  <2>5. SumIn(f, T \cup {x}) <= SumIn(g, T \cup {x})
    BY <2>1, <2>2, <2>3, <2>4, Zenon
  <2> QED
    BY <2>5
<1>3. \A T \in SUBSET S : T \in P
  <2> HIDE DEF P
  <2> QED BY <1>1, <1>2, SetInduction
<1> QED
  BY <1>3

(* Sums of the same terms are the same.                                    *)
LEMMA SumSame ==
    ASSUME NEW S, IsFiniteSet(S), NEW f, NEW g,
           \A x \in S : f[x] \in Int /\ f[x] = g[x]
    PROVE  SumIn(f, S) = SumIn(g, S)
<1>1. SumIn(f, S) \in Int /\ SumIn(g, S) \in Int
  BY SumInt
<1>2. SumIn(f, S) <= SumIn(g, S) /\ SumIn(g, S) <= SumIn(f, S)
  BY SumMonotone
<1> QED
  BY <1>1, <1>2

(* The sum of sums, term by term.                                          *)
LEMMA SumPlus ==
    ASSUME NEW S, IsFiniteSet(S), NEW f, NEW g, NEW h,
           \A x \in S : f[x] \in Int /\ g[x] \in Int /\ h[x] = f[x] + g[x]
    PROVE  SumIn(h, S) = SumIn(f, S) + SumIn(g, S)
<1> DEFINE P == {T \in SUBSET S : SumIn(h, T) = SumIn(f, T) + SumIn(g, T)}
<1>1. {} \in P
  BY SumEmpty
<1>2. ASSUME NEW T \in SUBSET S, NEW x \in S \ T, T \in P PROVE T \cup {x} \in P
  <2>1. /\ SumIn(f, T \cup {x}) = f[x] + SumIn(f, T)
        /\ SumIn(g, T \cup {x}) = g[x] + SumIn(g, T)
        /\ SumIn(h, T \cup {x}) = h[x] + SumIn(h, T)
    BY SumAddElement
  <2>2. SumIn(f, T) \in Int /\ SumIn(g, T) \in Int
    BY SumInt
  <2>3. f[x] \in Int /\ g[x] \in Int /\ h[x] = f[x] + g[x] /\ SumIn(h, T) = SumIn(f, T) + SumIn(g, T)
    BY <1>2
  <2>4. PICK a \in Int, b \in Int, c \in Int, d \in Int :
           a = f[x] /\ b = g[x] /\ c = SumIn(f, T) /\ d = SumIn(g, T)
    BY <2>2, <2>3
  <2>5. SumIn(h, T \cup {x}) = (f[x] + g[x]) + (SumIn(f, T) + SumIn(g, T))
    BY <2>1, <2>3, Zenon
  <2>6. (a + b) + (c + d) = (a + c) + (b + d)
    OBVIOUS
  <2>7. SumIn(h, T \cup {x}) = SumIn(f, T \cup {x}) + SumIn(g, T \cup {x})
    BY <2>1, <2>4, <2>5, <2>6, Zenon
  <2> QED
    BY <2>7
<1>3. \A T \in SUBSET S : T \in P
  <2> HIDE DEF P
  <2> QED BY <1>1, <1>2, SetInduction
<1> QED
  BY <1>3

(* A factor of every term is one of the sum.                               *)
LEMMA SumTimes ==
    ASSUME NEW S, IsFiniteSet(S), NEW c \in Int, NEW f, NEW h,
           \A x \in S : f[x] \in Int /\ h[x] = c * f[x]
    PROVE  SumIn(h, S) = c * SumIn(f, S)
<1> DEFINE P == {T \in SUBSET S : SumIn(h, T) = c * SumIn(f, T)}
<1>1. {} \in P
  BY SumEmpty
<1>2. ASSUME NEW T \in SUBSET S, NEW x \in S \ T, T \in P PROVE T \cup {x} \in P
  <2>1. /\ SumIn(f, T \cup {x}) = f[x] + SumIn(f, T)
        /\ SumIn(h, T \cup {x}) = h[x] + SumIn(h, T)
    BY SumAddElement
  <2>2. SumIn(f, T) \in Int /\ f[x] \in Int
    BY SumInt
  <2>3. h[x] = c * f[x] /\ SumIn(h, T) = c * SumIn(f, T)
    BY <1>2
  <2>4. \A a, b \in Int : c * a + c * b = c * (a + b)
    OBVIOUS
  <2>5. SumIn(h, T \cup {x}) = c * SumIn(f, T \cup {x})
    BY <2>1, <2>2, <2>3, <2>4, Zenon
  <2> QED
    BY <2>5
<1>3. \A T \in SUBSET S : T \in P
  <2> HIDE DEF P
  <2> QED BY <1>1, <1>2, SetInduction
<1> QED
  BY <1>3

(* A sum of nothing but zeros.                                             *)
LEMMA SumZero ==
    ASSUME NEW S, IsFiniteSet(S), NEW f, \A x \in S : f[x] = 0
    PROVE  SumIn(f, S) = 0
<1>1. SumIn(f, S) = 0 * SumIn(f, S)
  BY SumTimes
<1>2. SumIn(f, S) \in Int
  BY SumInt
<1> QED
  BY <1>1, <1>2

(* A sum of naturals is one, and no less than any of its terms.            *)
LEMMA SumNat ==
    ASSUME NEW S, IsFiniteSet(S), NEW f, \A x \in S : f[x] \in Nat
    PROVE  /\ \A T \in SUBSET S : SumIn(f, T) \in Nat
           /\ \A x \in S : f[x] <= SumIn(f, S)
<1>1. ASSUME NEW T \in SUBSET S PROVE SumIn(f, T) \in Nat
  <2> DEFINE zero == [x \in S |-> 0]
  <2>1. IsFiniteSet(T)
    BY FS_Subset
  <2>2. SumIn(zero, T) = 0
    BY <2>1, SumZero
  <2>3. SumIn(zero, T) <= SumIn(f, T)
    <3>1. \A x \in T : zero[x] \in Int /\ f[x] \in Int /\ zero[x] <= f[x]
      OBVIOUS
    <3> HIDE DEF zero
    <3> QED BY <2>1, <3>1, SumMonotone
  <2>4. SumIn(f, T) \in Int
    BY SumInt
  <2> HIDE DEF zero
  <2> QED
    BY <2>2, <2>3, <2>4
<1>2. ASSUME NEW x \in S PROVE f[x] <= SumIn(f, S)
  <2>1. SumIn(f, S) = f[x] + SumIn(f, S \ {x})
    BY SumRemove
  <2>2. SumIn(f, S \ {x}) \in Nat
    BY <1>1
  <2> QED
    BY <2>1, <2>2
<1> QED
  BY <1>1, <1>2

(* One term changes.                                                       *)
LEMMA SumChange ==
    ASSUME NEW S, IsFiniteSet(S), NEW f, NEW g, NEW x \in S,
           \A y \in S : f[y] \in Int, g[x] \in Int, \A y \in S \ {x} : g[y] = f[y]
    PROVE  SumIn(g, S) = SumIn(f, S) + (g[x] - f[x])
<1>1. IsFiniteSet(S \ {x})
  BY FS_Subset
<1>2. SumIn(g, S \ {x}) = SumIn(f, S \ {x})
  BY <1>1, SumSame
<1>3. SumIn(f, S) = f[x] + SumIn(f, S \ {x}) /\ SumIn(g, S) = g[x] + SumIn(g, S \ {x})
  BY SumRemove
<1>4. SumIn(f, S \ {x}) \in Int /\ f[x] \in Int
  BY SumInt
<1>5. PICK a \in Int, b \in Int, c \in Int : a = f[x] /\ b = g[x] /\ c = SumIn(f, S \ {x})
  BY <1>4
<1>6. b + c = (a + c) + (b - a)
  OBVIOUS
<1>7. SumIn(f, S) = a + c /\ SumIn(g, S) = b + c
  BY <1>2, <1>3, <1>5, Zenon
<1> QED
  BY <1>5, <1>6, <1>7, Zenon

(* Two terms change.                                                       *)
LEMMA SumChangeTwo ==
    ASSUME NEW S, IsFiniteSet(S), NEW f, NEW g, NEW x \in S, NEW y \in S, x # y,
           \A z \in S : f[z] \in Int, g[x] \in Int, g[y] \in Int,
           \A z \in S \ {x, y} : g[z] = f[z]
    PROVE  SumIn(g, S) = SumIn(f, S) + (g[x] - f[x]) + (g[y] - f[y])
<1> DEFINE h == [z \in S |-> IF z = x THEN g[x] ELSE f[z]]
<1>0. h[x] = g[x] /\ h[y] = f[y] /\ \A z \in S : h[z] \in Int
  OBVIOUS
<1>1. (\A z \in S \ {x} : h[z] = f[z]) /\ \A z \in S \ {y} : g[z] = h[z]
  OBVIOUS
<1> HIDE DEF h
<1>2. SumIn(h, S) = SumIn(f, S) + (h[x] - f[x])
  BY <1>0, <1>1, SumChange
<1>3. SumIn(g, S) = SumIn(h, S) + (g[y] - h[y])
  <2>1. PICK k : k = h
    OBVIOUS
  <2>2. g[y] \in Int /\ (\A z \in S : k[z] \in Int) /\ \A z \in S \ {y} : g[z] = k[z]
    BY <1>0, <1>1, <2>1
  <2>3. SumIn(g, S) = SumIn(k, S) + (g[y] - k[y])
    BY <2>2, SumChange
  <2> QED
    BY <2>1, <2>3
<1> QED
  BY <1>0, <1>2, <1>3, Zenon

(* What is added to one element, or taken from it, is added to the sum.    *)
LEMMA SumAdded ==
    ASSUME NEW S, IsFiniteSet(S), NEW f, f \in [S -> Int], NEW x \in S, NEW n \in Int,
           NEW g, g = [f EXCEPT ![x] = @ + n]
    PROVE  SumIn(g, S) = SumIn(f, S) + n
<1>1. f[x] \in Int /\ g[x] = f[x] + n
  OBVIOUS
<1>2. \A y \in S : f[y] \in Int
  OBVIOUS
<1>3. g[x] \in Int
  BY <1>1
<1>4. \A y \in S \ {x} : g[y] = f[y]
  OBVIOUS
<1>5. SumIn(g, S) = SumIn(f, S) + (g[x] - f[x])
  BY ONLY IsFiniteSet(S), x \in S, <1>2, <1>3, <1>4, SumChange
<1>6. (f[x] + n) - f[x] = n
  BY <1>1
<1> QED
  BY <1>1, <1>5, <1>6, Zenon

(* What moves from one element to another leaves the sum.                  *)
LEMMA SumMoved ==
    ASSUME NEW S, IsFiniteSet(S), NEW f, f \in [S -> Int], NEW x \in S, NEW y \in S, x # y,
           NEW n \in Int, NEW g, g[x] = f[x] - n, g[y] = f[y] + n,
           \A z \in S \ {x, y} : g[z] = f[z]
    PROVE  SumIn(g, S) = SumIn(f, S)
<1>1. f[x] \in Int /\ f[y] \in Int
  OBVIOUS
<1>2. g[x] \in Int /\ g[y] \in Int
  BY <1>1
<1>3. \A z \in S : f[z] \in Int
  OBVIOUS
<1>4. \A z \in S \ {x, y} : g[z] = f[z]
  OBVIOUS
<1>5. SumIn(f, S) \in Int
  BY <1>3, SumInt
<1>6. SumIn(g, S) = SumIn(f, S) + (g[x] - f[x]) + (g[y] - f[y])
  BY ONLY IsFiniteSet(S), x \in S, y \in S, x # y, <1>2, <1>3, <1>4, SumChangeTwo
<1> QED
  BY <1>1, <1>5, <1>6

(* Elements that add nothing can be left out.                              *)
LEMMA SumWiden ==
    ASSUME NEW S, IsFiniteSet(S), NEW T \in SUBSET S, NEW f, NEW g,
           \A x \in T : f[x] \in Int /\ g[x] = f[x], \A x \in S \ T : g[x] = 0
    PROVE  SumIn(g, S) = SumIn(f, T)
<1> DEFINE P == {U \in SUBSET S : SumIn(g, U) = SumIn(f, U \cap T)}
<1>0. (\A x \in S : g[x] \in Int) /\ IsFiniteSet(T)
  BY FS_Subset
<1>1. {} \in P
  BY {} \cap T = {}, SumEmpty
<1>2. ASSUME NEW U \in SUBSET S, NEW x \in S \ U, U \in P PROVE U \cup {x} \in P
  <2>1. SumIn(g, U \cup {x}) = g[x] + SumIn(g, U) /\ SumIn(g, U) \in Int
    BY <1>0, SumAddElement, SumInt
  <2>2. SumIn(g, U) = SumIn(f, U \cap T)
    BY <1>2
  <2>3. CASE x \in T
    <3>1. U \cap T \in SUBSET T /\ x \in T \ (U \cap T) /\ (U \cup {x}) \cap T = (U \cap T) \cup {x}
      BY <2>3
    <3>2. \A y \in T : f[y] \in Int
      OBVIOUS
    <3>3. SumIn(f, (U \cap T) \cup {x}) = f[x] + SumIn(f, U \cap T)
      <4>1. PICK V \in SUBSET T : V = U \cap T
        BY <3>1
      <4>2. IsFiniteSet(T) /\ x \in T \ V
        BY <1>0, <3>1, <4>1
      <4>3. SumIn(f, V \cup {x}) = f[x] + SumIn(f, V)
        BY ONLY V \in SUBSET T, <3>2, <4>2, SumAddElement
      <4> QED
        BY <4>1, <4>3
    <3>4. SumIn(g, U \cup {x}) = SumIn(f, (U \cup {x}) \cap T)
      BY <2>1, <2>2, <2>3, <3>1, <3>3, Zenon
    <3> QED
      BY <3>4
  <2>4. CASE x \notin T
    <3>1. (U \cup {x}) \cap T = U \cap T /\ g[x] = 0
      BY <2>4
    <3>2. SumIn(g, U \cup {x}) = SumIn(g, U)
      BY <2>1, <3>1
    <3>3. SumIn(g, U \cup {x}) = SumIn(f, (U \cup {x}) \cap T)
      BY <2>2, <3>1, <3>2, Zenon
    <3> QED
      BY <3>3
  <2> QED
    BY <2>3, <2>4
<1>3. \A U \in SUBSET S : U \in P
  <2> HIDE DEF P
  <2> QED BY <1>1, <1>2, SetInduction
<1>4. S \cap T = T
  OBVIOUS
<1> QED
  BY <1>3, <1>4

(* A table is summed row by row or column by column.                       *)
IsTable(table, A, B) == \A x \in A, y \in B : table[x][y] \in Int

RowSums(table, A, B) == [x \in A |-> SumIn(table[x], B)]

Column(table, A, y) == [x \in A |-> table[x][y]]

ColumnSums(table, A, B) == [y \in B |-> SumIn(Column(table, A, y), A)]

LEMMA SumSwap ==
    ASSUME NEW A, IsFiniteSet(A), NEW B, IsFiniteSet(B), NEW table, IsTable(table, A, B)
    PROVE  SumIn(RowSums(table, A, B), A) = SumIn(ColumnSums(table, A, B), B)
<1> SUFFICES ASSUME NEW row, NEW column, NEW f, NEW g,
                    \A x \in A, y \in B : row[x][y] \in Int /\ column[y][x] = row[x][y],
                    \A x \in A : f[x] = SumIn(row[x], B),
                    \A y \in B : g[y] = SumIn(column[y], A)
             PROVE  SumIn(f, A) = SumIn(g, B)
  <2> DEFINE column == [y \in B |-> Column(table, A, y)]
  <2> DEFINE f == RowSums(table, A, B)
  <2> DEFINE g == ColumnSums(table, A, B)
  <2>1. \A x \in A, y \in B : table[x][y] \in Int /\ column[y][x] = table[x][y]
    BY DEF IsTable, Column
  <2>2. (\A x \in A : f[x] = SumIn(table[x], B)) /\ \A y \in B : g[y] = SumIn(column[y], A)
    BY DEF RowSums, ColumnSums
  <2> HIDE DEF column, f, g
  <2>3. SumIn(f, A) = SumIn(g, B)
    BY <2>1, <2>2
  <2> QED
    BY <2>3 DEF f, g
<1> DEFINE part(T) == [y \in B |-> SumIn(column[y], T)]
<1> DEFINE P == {T \in SUBSET A : SumIn(f, T) = SumIn(part(T), B)}
<1>0. /\ \A y \in B : \A T \in SUBSET A : SumIn(column[y], T) \in Int
      /\ \A x \in A : f[x] \in Int
  <2>1. \A y \in B : \A x \in A : column[y][x] \in Int
    OBVIOUS
  <2>2. ASSUME NEW y \in B PROVE \A T \in SUBSET A : SumIn(column[y], T) \in Int
    <3>1. \A x \in A : column[y][x] \in Int
      BY <2>1
    <3> QED BY <3>1, SumInt
  <2>3. ASSUME NEW x \in A PROVE f[x] \in Int
    <3>1. \A y \in B : row[x][y] \in Int
      OBVIOUS
    <3>2. SumIn(row[x], B) \in Int
      BY <3>1, SumInt
    <3> QED BY <3>2
  <2> QED BY <2>2, <2>3
<1>1. {} \in P
  <2>1. \A y \in B : part({})[y] = 0
    BY SumEmpty
  <2> HIDE DEF part
  <2>2. SumIn(part({}), B) = 0
    BY <2>1, SumZero
  <2> QED BY <2>2, SumEmpty
<1>2. ASSUME NEW T \in SUBSET A, NEW x \in A \ T, T \in P PROVE T \cup {x} \in P
  <2>1. SumIn(f, T \cup {x}) = f[x] + SumIn(f, T) /\ SumIn(f, T) \in Int
    BY <1>0, SumAddElement, SumInt
  <2>2. \A y \in B : SumIn(column[y], T \cup {x}) = column[y][x] + SumIn(column[y], T)
    <3> TAKE y \in B
    <3>1. \A z \in A : column[y][z] \in Int
      OBVIOUS
    <3> QED BY <3>1, SumAddElement
  <2>3. PICK r, h, k : r = row[x] /\ h = part(T) /\ k = part(T \cup {x})
    OBVIOUS
  <2>4. \A y \in B : r[y] \in Int /\ h[y] \in Int /\ k[y] = r[y] + h[y]
    BY <1>0, <2>2, <2>3
  <2>5. SumIn(k, B) = SumIn(r, B) + SumIn(h, B)
    BY ONLY IsFiniteSet(B), <2>4, SumPlus
  <2>6. SumIn(f, T) = SumIn(h, B) /\ f[x] = SumIn(r, B)
    BY <1>2, <2>3
  <2>7. SumIn(f, T \cup {x}) = SumIn(k, B)
    BY <2>1, <2>5, <2>6, Zenon
  <2> QED
    BY <2>3, <2>7
<1>3. \A T \in SUBSET A : T \in P
  <2> HIDE DEF P
  <2> QED BY <1>1, <1>2, SetInduction
<1>4. SumIn(f, A) = SumIn(part(A), B)
  BY <1>3
<1>5. \A y \in B : part(A)[y] \in Int /\ part(A)[y] = g[y]
  BY <1>0
<1> HIDE DEF part
<1>6. SumIn(part(A), B) = SumIn(g, B)
  BY ONLY IsFiniteSet(B), <1>5, SumSame
<1> QED
  BY <1>4, <1>6

(* The same term for every element.                                        *)
LEMMA SumConstant ==
    ASSUME NEW S, IsFiniteSet(S), NEW n \in Int, NEW f, \A x \in S : f[x] = n
    PROVE  SumIn(f, S) = n * Cardinality(S)
<1> DEFINE P == {T \in SUBSET S : SumIn(f, T) = n * Cardinality(T)}
<1>1. {} \in P
  <2>1. SumIn(f, {}) = 0 /\ Cardinality({}) = 0 /\ n * 0 = 0
    BY SumEmpty, FS_EmptySet
  <2> QED BY <2>1
<1>2. ASSUME NEW T \in SUBSET S, NEW x \in S \ T, T \in P PROVE T \cup {x} \in P
  <2>1. SumIn(f, T \cup {x}) = n + SumIn(f, T)
    BY SumAddElement
  <2>2. IsFiniteSet(T) /\ Cardinality(T \cup {x}) = Cardinality(T) + 1 /\ Cardinality(T) \in Nat
    BY FS_Subset, FS_AddElement, FS_CardinalityType
  <2>3. PICK c \in Nat : c = Cardinality(T)
    BY <2>2
  <2>4. n + n * c = n * (c + 1)
    OBVIOUS
  <2>5. SumIn(f, T) = n * c
    BY <1>2, <2>3
  <2>6. SumIn(f, T \cup {x}) = n * Cardinality(T \cup {x})
    BY <2>1, <2>2, <2>3, <2>4, <2>5, Zenon
  <2> QED BY <2>6
<1>3. \A T \in SUBSET S : T \in P
  <2> HIDE DEF P
  <2> QED BY <1>1, <1>2, SetInduction
<1> QED
  BY <1>3

-----------------------------------------------------------------------------
(* Quotients of naturals.                                                  *)
LEMMA DivisionDef ==
    ASSUME NEW a \in Nat, NEW b \in Nat \ {0}
    PROVE  /\ a \div b \in Nat
           /\ b * (a \div b) <= a
           /\ a < b * (a \div b) + b
OBVIOUS

LEMMA DivisionMonotone ==
    ASSUME NEW a \in Nat, NEW c \in Nat, a <= c, NEW b \in Nat \ {0}
    PROVE  a \div b <= c \div b
<1> DEFINE p == a \div b
<1> DEFINE q == c \div b
<1>1. p \in Nat /\ b * p <= a /\ q \in Nat /\ c < b * q + b
  BY DivisionDef
<1> HIDE DEF p, q
<1>2. SUFFICES ASSUME q + 1 <= p PROVE FALSE
  BY <1>1 DEF p, q
<1>3. b * (q + 1) <= b * p /\ b * (q + 1) = b * q + b
  BY <1>1, <1>2
<1> QED BY <1>1, <1>3

LEMMA NatTimes == \A a, b \in Nat : a * b \in Nat
OBVIOUS

(* A factor can be cancelled.                                              *)
LEMMA CancelFactor ==
    ASSUME NEW a \in Int, NEW b \in Int, NEW c \in Nat \ {0}
    PROVE  /\ c * a <= c * b => a <= b
           /\ c * a < c * b => a < b
           /\ a <= b => c * a <= c * b
<1>1. b < a => c * b < c * a
  <2>1. SUFFICES ASSUME b < a PROVE c * b < c * a
    OBVIOUS
  <2>2. PICK e \in Nat : a = b + 1 + e
    <3>1. a - b - 1 \in Nat /\ a = b + 1 + (a - b - 1)
      BY <2>1
    <3> QED
      BY <3>1
  <2>3. c * a = c * b + c + c * e /\ c * e \in Nat /\ c * b \in Int
    BY <2>2
  <2> QED
    BY <2>3
<1>2. a < b => c * a < c * b
  <2>1. SUFFICES ASSUME a < b PROVE c * a < c * b
    OBVIOUS
  <2>2. PICK e \in Nat : b = a + 1 + e
    <3>1. b - a - 1 \in Nat /\ b = a + 1 + (b - a - 1)
      BY <2>1
    <3> QED
      BY <3>1
  <2>3. c * b = c * a + c + c * e /\ c * e \in Nat /\ c * a \in Int
    BY <2>2
  <2> QED
    BY <2>3
<1>3. c * a \in Int /\ c * b \in Int
  OBVIOUS
<1>4. a = b => c * a = c * b
  OBVIOUS
<1>5. a < b \/ a = b \/ b < a
  OBVIOUS
<1> QED
  BY <1>1, <1>2, <1>3, <1>4, <1>5

(* The quotient of a sum, within one. *)
LEMMA DivisionOfSum ==
    ASSUME NEW x \in Nat, NEW y \in Nat, NEW c \in Nat \ {0}
    PROVE  (x + y) \div c - x \div c \in (y \div c)..(y \div c + 1)
<1>1. PICK p \in Nat, q \in Nat, r \in Nat :
         p = x \div c /\ q = y \div c /\ r = (x + y) \div c
  <2>1. x + y \in Nat
    OBVIOUS
  <2>2. x \div c \in Nat /\ y \div c \in Nat /\ (x + y) \div c \in Nat
    BY <2>1, DivisionDef
  <2> QED
    BY <2>2
<1>2. /\ c * p <= x /\ x < c * p + c
      /\ c * q <= y /\ y < c * q + c
      /\ c * r <= x + y /\ x + y < c * r + c
  BY <1>1, DivisionDef
<1>3. c * (p + q) = c * p + c * q /\ c * (r + 1) = c * r + c /\ c * (p + q + 2) = c * p + c * q + c + c
      /\ c * p \in Nat /\ c * q \in Nat /\ c * r \in Nat
  OBVIOUS
<1>4. c * (p + q) < c * (r + 1) /\ c * r < c * (p + q + 2)
  BY <1>2, <1>3
<1>5. p + q < r + 1 /\ r < p + q + 2
  BY <1>4, CancelFactor
<1>6. r - p \in q..(q + 1)
  BY <1>5
<1> QED
  BY <1>1, <1>6

=============================================================================
