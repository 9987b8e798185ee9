------------------------------ MODULE SumProofs ------------------------------
(***************************************************************************)
(* Sums over finite sets.  The books of an account, the units it holds and *)
(* the money a user has spent are sums, written in the models with the     *)
(* community module's SumFunctionOnSet(f, S): the sum of f[x] for x in S.  *)
(* Here is what the proofs need of it.                                     *)
(*                                                                         *)
(* SumFunctionOnSet is a recursive function on the subsets of S that takes *)
(* an arbitrary element out at each step.  Every fact is therefore by      *)
(* induction on the subset: if it failed for some subset of S, it would    *)
(* fail for a smallest one, which has one element more than a subset for   *)
(* which it holds.  The greatest of a set of positions is found likewise.  *)
(***************************************************************************)
EXTENDS Functions, FiniteSetsExt, FiniteSetTheorems, TLAPS

\* The element the recursion takes out of a set.
AnyOf(s) == CHOOSE x \in s : TRUE

\* g sums f over each subset of S.
IsSummation(g, f, S) ==
  g = [s \in SUBSET S |->
         IF s = {} THEN 0 ELSE f[AnyOf(s)] + g[s \ {AnyOf(s)}]]

LEMMA AnyOfIsIn ==
  ASSUME NEW s, s # {}
  PROVE  AnyOf(s) \in s
  BY DEF AnyOf

LEMMA SumIsSummation ==
  ASSUME NEW f, NEW S
  PROVE  SumFunctionOnSet(f, S) = (CHOOSE g : IsSummation(g, f, S))[S]
  BY Zenon DEF SumFunctionOnSet, FoldFunctionOnSet, MapThenFoldSet, IsSummation, AnyOf

(* The induction principle, in the form of a smallest counterexample.      *)
LEMMA SmallestBad ==
  ASSUME NEW S, IsFiniteSet(S),
         NEW B \in SUBSET (SUBSET S), B # {}
  PROVE  \E s \in B : \A x \in s : s \ {x} \notin B
  <1> DEFINE N == {Cardinality(s) : s \in B}
  <1>1. \A s \in B : IsFiniteSet(s) /\ Cardinality(s) \in Nat
    BY FS_Subset, FS_CardinalityType
  <1>2. N \subseteq Nat /\ N # {}
    BY <1>1
  <1>3. PICK n \in N : \A m \in N : <<m, n>> \notin OpToRel(<, Nat)
    <2>1. IsWellFoundedOn(OpToRel(<, Nat), Nat)
      BY NatLessThanWellFounded
    <2> HIDE DEF N
    <2> QED
      BY <1>2, <2>1, WFMin
  <1>4. \A m \in N : ~(m < n)
    BY <1>2, <1>3 DEF OpToRel
  <1>5. PICK s \in B : Cardinality(s) = n
    OBVIOUS
  <1>6. ASSUME NEW x \in s, s \ {x} \in B
        PROVE  FALSE
    <2>1. Cardinality(s \ {x}) = Cardinality(s) - 1
      BY <1>1, FS_RemoveElement
    <2>2. Cardinality(s \ {x}) \in N
      BY <1>6
    <2>3. Cardinality(s) \in Nat
      BY <1>1
    <2> HIDE DEF N
    <2> QED
      BY <1>4, <1>5, <2>1, <2>2, <2>3
  <1> QED
    BY <1>6

(* A function that sums f over the subsets of S exists: one over those of  *)
(* at most n elements gives one over those of at most n + 1.               *)
UpTo(S, n) == {s \in SUBSET S : Cardinality(s) <= n}
SumsUpTo(g, f, S, n) ==
  g = [s \in UpTo(S, n) |->
         IF s = {} THEN 0 ELSE f[AnyOf(s)] + g[s \ {AnyOf(s)}]]

LEMMA LevelUp ==
  ASSUME NEW f, NEW S, IsFiniteSet(S), NEW n \in Nat,
         NEW g, SumsUpTo(g, f, S, n)
  PROVE  \E h : SumsUpTo(h, f, S, n + 1)
  <1> DEFINE h == [s \in UpTo(S, n + 1) |->
                     IF s = {} THEN 0 ELSE f[AnyOf(s)] + g[s \ {AnyOf(s)}]]
  <1>1. \A s \in SUBSET S : Cardinality(s) \in Nat
    BY FS_Subset, FS_CardinalityType
  <1>2. UpTo(S, n) \subseteq UpTo(S, n + 1)
    BY <1>1 DEF UpTo
  <1>3. \A s \in UpTo(S, n) : h[s] = g[s]
    BY <1>2 DEF SumsUpTo
  <1>4. ASSUME NEW s \in UpTo(S, n + 1), s # {}
        PROVE  s \ {AnyOf(s)} \in UpTo(S, n)
    <2>1. AnyOf(s) \in s
      BY <1>4, AnyOfIsIn
    <2>2. IsFiniteSet(s) /\ s \in SUBSET S /\ Cardinality(s) <= n + 1
      BY FS_Subset DEF UpTo
    <2>3. Cardinality(s \ {AnyOf(s)}) = Cardinality(s) - 1
      BY <2>1, <2>2, FS_RemoveElement
    <2>4. Cardinality(s) \in Nat
      BY <1>1, <2>2
    <2> QED
      BY <2>2, <2>3, <2>4 DEF UpTo
  <1>5. h = [s \in UpTo(S, n + 1) |->
               IF s = {} THEN 0 ELSE f[AnyOf(s)] + h[s \ {AnyOf(s)}]]
    <2> SUFFICES ASSUME NEW s \in UpTo(S, n + 1), s # {}
                 PROVE  h[s \ {AnyOf(s)}] = g[s \ {AnyOf(s)}]
      OBVIOUS
    <2> QED
      BY <1>3, <1>4
  <1> QED
    BY <1>5 DEF SumsUpTo

LEMMA SummationExists ==
  ASSUME NEW f, NEW S, IsFiniteSet(S)
  PROVE  \E g : IsSummation(g, f, S)
  <1> DEFINE Bad == {n \in Nat : ~ \E g : SumsUpTo(g, f, S, n)}
  <1>1. \A s \in SUBSET S : /\ IsFiniteSet(s)
                            /\ Cardinality(s) \in Nat
                            /\ Cardinality(s) <= Cardinality(S)
    BY FS_Subset, FS_CardinalityType
  <1>2. 0 \notin Bad
    <2> DEFINE g == [s \in UpTo(S, 0) |-> 0]
    <2>1. \A s \in UpTo(S, 0) : s = {}
      <3> SUFFICES ASSUME NEW s \in UpTo(S, 0) PROVE s = {}
        OBVIOUS
      <3>1. IsFiniteSet(s) /\ Cardinality(s) = 0
        BY <1>1 DEF UpTo
      <3> QED
        BY <3>1, FS_EmptySet
    <2>2. SumsUpTo(g, f, S, 0)
      BY <2>1 DEF SumsUpTo
    <2> QED
      BY <2>2
  <1>3. Bad = {}
    <2> SUFFICES ASSUME Bad # {} PROVE FALSE
      OBVIOUS
    <2>1. PICK n \in Bad : \A m \in Bad : <<m, n>> \notin OpToRel(<, Nat)
      <3>1. IsWellFoundedOn(OpToRel(<, Nat), Nat)
        BY NatLessThanWellFounded
      <3>2. Bad \subseteq Nat
        OBVIOUS
      <3> HIDE DEF Bad
      <3> QED
        BY <3>1, <3>2, WFMin
    <2>2. n \in Nat /\ n # 0
      BY <1>2
    <2>3. n - 1 \in Nat /\ n - 1 < n
      BY <2>2
    <2>4. n - 1 \notin Bad
      <3> HIDE DEF Bad
      <3> QED
        BY <2>1, <2>2, <2>3 DEF OpToRel
    <2>5. PICK g : SumsUpTo(g, f, S, n - 1)
      BY <2>3, <2>4
    <2>6. \E h : SumsUpTo(h, f, S, (n - 1) + 1)
      BY <2>3, <2>5, LevelUp
    <2>7. (n - 1) + 1 = n
      BY <2>2
    <2> QED
      BY <2>6, <2>7
  <1>4. PICK g : SumsUpTo(g, f, S, Cardinality(S))
    BY <1>1, <1>3
  <1>5. UpTo(S, Cardinality(S)) = SUBSET S
    BY <1>1 DEF UpTo
  <1> QED
    BY <1>4, <1>5 DEF SumsUpTo, IsSummation

LEMMA SummationStep ==
  ASSUME NEW f, NEW S, NEW g, IsSummation(g, f, S),
         NEW s \in SUBSET S
  PROVE  /\ s = {} => g[s] = 0
         /\ s # {} => g[s] = f[AnyOf(s)] + g[s \ {AnyOf(s)}]
  <1>1. g[s] = IF s = {} THEN 0 ELSE f[AnyOf(s)] + g[s \ {AnyOf(s)}]
    BY DEF IsSummation
  <1> QED
    BY <1>1

-----------------------------------------------------------------------------
(* The sum over a set does not depend on the larger set it is computed in. *)
LEMMA SumInside ==
  ASSUME NEW f, NEW S, IsFiniteSet(S),
         NEW g, IsSummation(g, f, S), NEW T \in SUBSET S
  PROVE  SumFunctionOnSet(f, T) = g[T]
  <1> DEFINE h == CHOOSE h : IsSummation(h, f, T)
  <1> DEFINE B == {s \in SUBSET T : h[s] # g[s]}
  <1>1. IsFiniteSet(T)
    BY FS_Subset
  <1>2. IsSummation(h, f, T)
    BY <1>1, SummationExists
  <1>3. SumFunctionOnSet(f, T) = h[T]
    BY SumIsSummation
  <1> HIDE DEF h
  <1>4. B = {}
    <2> SUFFICES ASSUME B # {} PROVE FALSE
      OBVIOUS
    <2>1. PICK s \in B : \A x \in s : s \ {x} \notin B
      <3> HIDE DEF B
      <3>1. B \in SUBSET (SUBSET T)
        BY DEF B
      <3> QED
        BY <1>1, <3>1, SmallestBad
    <2>2. s \in SUBSET T /\ s \in SUBSET S /\ h[s] # g[s]
      OBVIOUS
    <2>3. s # {}
      BY <1>2, <2>2, SummationStep
    <2>4. AnyOf(s) \in s
      BY <2>3, AnyOfIsIn
    <2>5. s \ {AnyOf(s)} \in SUBSET T /\ s \ {AnyOf(s)} \notin B
      BY <2>1, <2>2, <2>4
    <2>6. h[s \ {AnyOf(s)}] = g[s \ {AnyOf(s)}]
      BY <2>5
    <2>7. h[s] = f[AnyOf(s)] + h[s \ {AnyOf(s)}]
      BY <1>2, <2>2, <2>3, SummationStep
    <2>8. g[s] = f[AnyOf(s)] + g[s \ {AnyOf(s)}]
      BY <2>2, <2>3, SummationStep
    <2> QED
      BY <2>2, <2>6, <2>7, <2>8
  <1> QED
    BY <1>3, <1>4

(* The recursion: the empty sum, and one element taken out.                *)
LEMMA SumEmpty ==
  ASSUME NEW f
  PROVE  SumFunctionOnSet(f, {}) = 0
  <1>1. IsFiniteSet({})
    BY FS_EmptySet
  <1>2. PICK g : IsSummation(g, f, {})
    BY <1>1, SummationExists
  <1>3. g[{}] = 0
    BY <1>2, SummationStep
  <1> QED
    BY <1>1, <1>2, <1>3, SumInside

LEMMA SumAny ==
  ASSUME NEW f, NEW S, IsFiniteSet(S), S # {}
  PROVE  SumFunctionOnSet(f, S)
           = f[AnyOf(S)] + SumFunctionOnSet(f, S \ {AnyOf(S)})
  <1>1. PICK g : IsSummation(g, f, S)
    BY SummationExists
  <1>2. SumFunctionOnSet(f, S) = g[S]
    BY <1>1, SumInside
  <1>3. SumFunctionOnSet(f, S \ {AnyOf(S)}) = g[S \ {AnyOf(S)}]
    BY <1>1, SumInside
  <1>4. S \in SUBSET S
    OBVIOUS
  <1>5. g[S] = f[AnyOf(S)] + g[S \ {AnyOf(S)}]
    BY <1>1, <1>4, SummationStep
  <1> QED
    BY <1>2, <1>3, <1>5

(* Summands that are integers have an integer sum, natural ones a natural. *)
LEMMA SumInt ==
  ASSUME NEW f, NEW S, IsFiniteSet(S), \A x \in S : f[x] \in Int
  PROVE  SumFunctionOnSet(f, S) \in Int
  <1> DEFINE B == {s \in SUBSET S : SumFunctionOnSet(f, s) \notin Int}
  <1> SUFFICES ASSUME B # {} PROVE FALSE
    OBVIOUS
  <1>1. PICK s \in B : \A x \in s : s \ {x} \notin B
    <2> HIDE DEF B
    <2>1. B \in SUBSET (SUBSET S)
      BY DEF B
    <2> QED
      BY <2>1, SmallestBad
  <1>2. s \in SUBSET S /\ IsFiniteSet(s) /\ SumFunctionOnSet(f, s) \notin Int
    BY FS_Subset
  <1>3. s # {}
    BY <1>2, SumEmpty
  <1>4. AnyOf(s) \in s
    BY <1>3, AnyOfIsIn
  <1>5. SumFunctionOnSet(f, s \ {AnyOf(s)}) \in Int
    BY <1>1, <1>2, <1>4
  <1>6. f[AnyOf(s)] \in Int
    BY <1>2, <1>4
  <1> QED
    BY <1>2, <1>3, <1>5, <1>6, SumAny

LEMMA SumNat ==
  ASSUME NEW f, NEW S, IsFiniteSet(S), \A x \in S : f[x] \in Nat
  PROVE  SumFunctionOnSet(f, S) \in Nat
  <1> DEFINE B == {s \in SUBSET S : SumFunctionOnSet(f, s) \notin Nat}
  <1> SUFFICES ASSUME B # {} PROVE FALSE
    OBVIOUS
  <1>1. PICK s \in B : \A x \in s : s \ {x} \notin B
    <2> HIDE DEF B
    <2>1. B \in SUBSET (SUBSET S)
      BY DEF B
    <2> QED
      BY <2>1, SmallestBad
  <1>2. s \in SUBSET S /\ IsFiniteSet(s) /\ SumFunctionOnSet(f, s) \notin Nat
    BY FS_Subset
  <1>3. s # {}
    BY <1>2, SumEmpty
  <1>4. AnyOf(s) \in s
    BY <1>3, AnyOfIsIn
  <1>5. SumFunctionOnSet(f, s \ {AnyOf(s)}) \in Nat
    BY <1>1, <1>2, <1>4
  <1>6. f[AnyOf(s)] \in Nat
    BY <1>2, <1>4
  <1> QED
    BY <1>2, <1>3, <1>5, <1>6, SumAny

(* Any element may be taken out first.                                     *)
LEMMA SumRemove ==
  ASSUME NEW f, NEW S, IsFiniteSet(S), \A y \in S : f[y] \in Int,
         NEW x \in S
  PROVE  SumFunctionOnSet(f, S) = f[x] + SumFunctionOnSet(f, S \ {x})
  <1> DEFINE Splits(s, y) ==
        SumFunctionOnSet(f, s) = f[y] + SumFunctionOnSet(f, s \ {y})
  <1> DEFINE B == {s \in SUBSET S : \E y \in s : ~Splits(s, y)}
  <1> SUFFICES ASSUME B # {} PROVE FALSE
    OBVIOUS
  <1>1. PICK s \in B : \A y \in s : s \ {y} \notin B
    <2> HIDE DEF B
    <2>1. B \in SUBSET (SUBSET S)
      BY DEF B
    <2> QED
      BY <2>1, SmallestBad
  <1>2. PICK y \in s : ~Splits(s, y)
    OBVIOUS
  <1>3. s \in SUBSET S /\ s # {}
    OBVIOUS
  <1> DEFINE a == AnyOf(s)
  <1>4. a \in s
    BY <1>3, AnyOfIsIn
  <1>5. \A t \in SUBSET S : IsFiniteSet(t) /\ SumFunctionOnSet(f, t) \in Int
    BY FS_Subset, SumInt
  <1>6. Splits(s, a)
    BY <1>3, <1>5, SumAny
  <1>7. y # a
    BY <1>2, <1>6
  <1>8. Splits(s \ {a}, y) /\ Splits(s \ {y}, a)
    BY <1>1, <1>3, <1>4, <1>7
  <1> HIDE DEF a
  <1>9. (s \ {a}) \ {y} = (s \ {y}) \ {a}
    OBVIOUS
  <1> DEFINE rest == SumFunctionOnSet(f, (s \ {y}) \ {a})
  <1>10. rest \in Int /\ f[y] \in Int /\ f[a] \in Int
    BY <1>3, <1>4, <1>5
  <1>11. /\ SumFunctionOnSet(f, s) = f[a] + SumFunctionOnSet(f, s \ {a})
         /\ SumFunctionOnSet(f, s \ {a}) = f[y] + rest
         /\ SumFunctionOnSet(f, s \ {y}) = f[a] + rest
    BY <1>6, <1>8, <1>9
  <1> HIDE DEF rest
  <1>12. SumFunctionOnSet(f, s) = f[y] + SumFunctionOnSet(f, s \ {y})
    BY <1>10, <1>11
  <1> QED
    BY <1>2, <1>12

LEMMA SumAdd ==
  ASSUME NEW f, NEW S, IsFiniteSet(S), NEW x, x \notin S,
         f[x] \in Int, \A y \in S : f[y] \in Int
  PROVE  SumFunctionOnSet(f, S \cup {x}) = SumFunctionOnSet(f, S) + f[x]
  <1>1. IsFiniteSet(S \cup {x})
    BY FS_AddElement
  <1>2. (S \cup {x}) \ {x} = S
    OBVIOUS
  <1>3. SumFunctionOnSet(f, S \cup {x}) = f[x] + SumFunctionOnSet(f, S)
    BY <1>1, <1>2, SumRemove
  <1> QED
    BY <1>3, SumInt

(* Two functions that agree on S have the same sum over it.                *)
LEMMA SumSame ==
  ASSUME NEW f, NEW g, NEW S, IsFiniteSet(S), \A x \in S : f[x] = g[x]
  PROVE  SumFunctionOnSet(f, S) = SumFunctionOnSet(g, S)
  <1> DEFINE B == {s \in SUBSET S : SumFunctionOnSet(f, s) # SumFunctionOnSet(g, s)}
  <1> SUFFICES ASSUME B # {} PROVE FALSE
    OBVIOUS
  <1>1. PICK s \in B : \A x \in s : s \ {x} \notin B
    <2> HIDE DEF B
    <2>1. B \in SUBSET (SUBSET S)
      BY DEF B
    <2> QED
      BY <2>1, SmallestBad
  <1>2. /\ s \in SUBSET S /\ IsFiniteSet(s)
        /\ SumFunctionOnSet(f, s) # SumFunctionOnSet(g, s)
    BY FS_Subset
  <1>3. s # {}
    BY <1>2, SumEmpty
  <1>4. AnyOf(s) \in s
    BY <1>3, AnyOfIsIn
  <1>5. SumFunctionOnSet(f, s \ {AnyOf(s)}) = SumFunctionOnSet(g, s \ {AnyOf(s)})
    BY <1>1, <1>2, <1>4
  <1>6. f[AnyOf(s)] = g[AnyOf(s)]
    BY <1>2, <1>4
  <1> QED
    BY <1>2, <1>3, <1>5, <1>6, SumAny

(* Dropping summands that are not negative does not raise the sum.         *)
LEMMA SumOfPart ==
  ASSUME NEW f, NEW S, IsFiniteSet(S), NEW T \in SUBSET S,
         \A x \in S : f[x] \in Nat
  PROVE  SumFunctionOnSet(f, T) <= SumFunctionOnSet(f, S)
  <1> DEFINE B == {R \in SUBSET (S \ T) :
                     ~(SumFunctionOnSet(f, T) <= SumFunctionOnSet(f, T \cup R))}
  <1>0. \A R \in SUBSET S : IsFiniteSet(R) /\ SumFunctionOnSet(f, R) \in Nat
    BY FS_Subset, SumNat
  <1>1. B = {}
    <2> SUFFICES ASSUME B # {} PROVE FALSE
      OBVIOUS
    <2>1. PICK R \in B : \A x \in R : R \ {x} \notin B
      <3>1. B \in SUBSET (SUBSET (S \ T))
        OBVIOUS
      <3>2. IsFiniteSet(S \ T)
        BY <1>0
      <3> HIDE DEF B
      <3> QED
        BY <3>1, <3>2, SmallestBad
    <2>2. R # {}
      <3> SUFFICES ASSUME R = {} PROVE FALSE
        OBVIOUS
      <3>1. T \cup R = T
        OBVIOUS
      <3>2. SumFunctionOnSet(f, T) \in Nat
        BY <1>0
      <3> QED
        BY <3>1, <3>2
    <2>3. PICK x : x \in R
      BY <2>2
    <2>4. SumFunctionOnSet(f, T) <= SumFunctionOnSet(f, T \cup (R \ {x}))
      BY <2>1, <2>3
    <2>5. T \cup R \in SUBSET S /\ x \in T \cup R /\ (T \cup R) \ {x} = T \cup (R \ {x})
      BY <2>3
    <2>6. SumFunctionOnSet(f, T \cup R) = f[x] + SumFunctionOnSet(f, T \cup (R \ {x}))
      <3>1. \A y \in T \cup R : f[y] \in Int
        BY <2>5
      <3> QED
        BY <1>0, <2>5, <3>1, SumRemove
    <2>7. /\ f[x] \in Nat
          /\ SumFunctionOnSet(f, T) \in Nat
          /\ SumFunctionOnSet(f, T \cup (R \ {x})) \in Nat
      BY <1>0, <2>5
    <2>8. SumFunctionOnSet(f, T) <= SumFunctionOnSet(f, T \cup R)
      BY <2>4, <2>6, <2>7
    <2> QED
      BY <2>1, <2>8
  <1>2. S \ T \notin B /\ T \cup (S \ T) = S
    BY <1>1
  <1> QED
    BY <1>2

(* The sum of a function that changes at one point: the point joins or     *)
(* leaves the set summed over.                                             *)
LEMMA SumGain ==
  ASSUME NEW f, NEW g, NEW S, IsFiniteSet(S), NEW x, x \notin S,
         NEW T, T = S \cup {x},
         g[x] \in Int, \A y \in S : f[y] \in Int /\ g[y] = f[y]
  PROVE  SumFunctionOnSet(g, T) = SumFunctionOnSet(f, S) + g[x]
  <1>1. SumFunctionOnSet(g, S \cup {x}) = SumFunctionOnSet(g, S) + g[x]
    BY SumAdd
  <1>2. SumFunctionOnSet(g, S) = SumFunctionOnSet(f, S)
    BY SumSame
  <1> QED
    BY <1>1, <1>2

LEMMA SumLoss ==
  ASSUME NEW f, NEW g, NEW S, IsFiniteSet(S), NEW x, x \in S,
         NEW T, T = S \ {x},
         \A y \in S : f[y] \in Int /\ (y # x => g[y] = f[y])
  PROVE  SumFunctionOnSet(g, T) = SumFunctionOnSet(f, S) - f[x]
  <1>1. IsFiniteSet(S \ {x})
    BY FS_RemoveElement
  <1>2. SumFunctionOnSet(f, S) = f[x] + SumFunctionOnSet(f, S \ {x})
    BY SumRemove
  <1>3. SumFunctionOnSet(g, S \ {x}) = SumFunctionOnSet(f, S \ {x})
    BY <1>1, SumSame
  <1>4. SumFunctionOnSet(f, S \ {x}) \in Int /\ f[x] \in Int
    BY <1>1, SumInt
  <1> QED
    BY <1>2, <1>3, <1>4

(* The sum over two sets that share nothing is the two sums.               *)
LEMMA SumUnion ==
  ASSUME NEW f, NEW S, IsFiniteSet(S), NEW T, IsFiniteSet(T), S \cap T = {},
         \A x \in S \cup T : f[x] \in Int
  PROVE  SumFunctionOnSet(f, S \cup T) = SumFunctionOnSet(f, S) + SumFunctionOnSet(f, T)
  <1> DEFINE B == {R \in SUBSET T :
                     SumFunctionOnSet(f, S \cup R)
                       # SumFunctionOnSet(f, S) + SumFunctionOnSet(f, R)}
  <1>0. \A R \in SUBSET T : IsFiniteSet(R) /\ SumFunctionOnSet(f, R) \in Int
    BY FS_Subset, SumInt
  <1>1. SumFunctionOnSet(f, S) \in Int
    BY SumInt
  <1>2. B = {}
    <2> SUFFICES ASSUME B # {} PROVE FALSE
      OBVIOUS
    <2>1. PICK R \in B : \A x \in R : R \ {x} \notin B
      <3>1. B \in SUBSET (SUBSET T)
        OBVIOUS
      <3> HIDE DEF B
      <3> QED
        BY <3>1, SmallestBad
    <2>2. R \in SUBSET T /\ SumFunctionOnSet(f, S \cup R)
                              # SumFunctionOnSet(f, S) + SumFunctionOnSet(f, R)
      OBVIOUS
    <2>3. R # {}
      <3> SUFFICES ASSUME R = {} PROVE FALSE
        OBVIOUS
      <3>1. S \cup R = S /\ SumFunctionOnSet(f, R) = 0
        BY SumEmpty
      <3> QED
        BY <1>1, <2>2, <3>1
    <2>4. PICK x \in R : TRUE
      BY <2>3
    <2> DEFINE P == R \ {x}
    <2>5. P \in SUBSET T /\ P \notin B
      BY <2>1, <2>2, <2>4
    <2>6. SumFunctionOnSet(f, S \cup P) = SumFunctionOnSet(f, S) + SumFunctionOnSet(f, P)
      BY <2>5
    <2>7. SumFunctionOnSet(f, R) = f[x] + SumFunctionOnSet(f, P)
      BY <1>0, <2>2, <2>4, SumRemove
    <2>8. IsFiniteSet(S \cup R)
      BY <1>0, <2>2, FS_Union
    <2>9. (S \cup R) \ {x} = S \cup P /\ x \in S \cup R /\ S \cup R \subseteq S \cup T
      BY <2>2, <2>4
    <2>10. SumFunctionOnSet(f, S \cup R) = f[x] + SumFunctionOnSet(f, S \cup P)
      <3> DEFINE U == S \cup R
      <3>1. IsFiniteSet(U) /\ x \in U /\ \A y \in U : f[y] \in Int
        BY <2>8, <2>9
      <3> HIDE DEF U
      <3>2. SumFunctionOnSet(f, U) = f[x] + SumFunctionOnSet(f, U \ {x})
        BY <3>1, SumRemove
      <3> QED
        BY <2>9, <3>2 DEF U
    <2>11. f[x] \in Int /\ SumFunctionOnSet(f, P) \in Int
      BY <1>0, <2>2, <2>4, <2>5
    <2> QED
      BY <1>1, <2>2, <2>6, <2>7, <2>10, <2>11
  <1>3. T \notin B
    BY <1>2
  <1> QED
    BY <1>3

-----------------------------------------------------------------------------
(* A non-empty set of positions in a sequence has a last one.              *)
LEMMA LastPosition ==
  ASSUME NEW n \in Nat, NEW S \in SUBSET (1..n), S # {}
  PROVE  Max(S) \in S /\ \A i \in S : i <= Max(S)
  <1> DEFINE T == {n - i : i \in S}
  <1>1. T \subseteq Nat /\ T # {}
    <2>1. \A i \in S : i \in Int /\ 1 <= i /\ i <= n
      OBVIOUS
    <2>2. \A i \in S : n - i \in Nat
      BY <2>1
    <2> QED
      BY <2>2
  <1>2. PICK x \in T : \A y \in T : <<y, x>> \notin OpToRel(<, Nat)
    <2>1. IsWellFoundedOn(OpToRel(<, Nat), Nat)
      BY NatLessThanWellFounded
    <2> HIDE DEF T
    <2> QED
      BY <1>1, <2>1, WFMin
  <1>3. \A y \in T : ~(y < x)
    BY <1>1, <1>2 DEF OpToRel
  <1>4. PICK i \in S : x = n - i
    OBVIOUS
  <1>5. \A j \in S : i >= j
    <2> SUFFICES ASSUME NEW j \in S PROVE i >= j
      OBVIOUS
    <2>1. n - j \in T
      OBVIOUS
    <2>2. ~(n - j < n - i)
      BY <1>3, <1>4, <2>1
    <2>3. i \in Int /\ j \in Int
      OBVIOUS
    <2> QED
      BY <2>2, <2>3
  <1>6. Max(S) \in S /\ \A j \in S : Max(S) >= j
    BY <1>5 DEF Max
  <1> QED
    BY <1>6
(* A finite non-empty set of integers has a greatest element: so has every *)
(* one with an element less.                                               *)
LEMMA Greatest ==
  ASSUME NEW S \in SUBSET Int, IsFiniteSet(S), S # {}
  PROVE  Max(S) \in S /\ \A x \in S : x <= Max(S)
  <1> DEFINE HasMax(s) == \E m \in s : \A x \in s : m >= x
             B == {s \in SUBSET S : s # {} /\ ~HasMax(s)}
  <1>1. B = {}
    <2> SUFFICES ASSUME B # {} PROVE FALSE
      OBVIOUS
    <2>1. PICK s \in B : \A x \in s : s \ {x} \notin B
      <3> HIDE DEF B
      <3>1. B \in SUBSET (SUBSET S)
        BY DEF B
      <3> QED
        BY <3>1, SmallestBad
    <2>2. s \in SUBSET S /\ s # {} /\ ~HasMax(s)
      OBVIOUS
    <2>3. PICK x \in s : TRUE
      BY <2>2
    <2>4. x \in Int /\ \A y \in s : y \in Int
      BY <2>2, <2>3
    <2>5. CASE s \ {x} = {}
      <3>1. \A y \in s : x >= y
        BY <2>4, <2>5
      <3> QED
        BY <2>2, <2>3, <3>1
    <2>6. CASE s \ {x} # {}
      <3>1. s \ {x} \in SUBSET S /\ s \ {x} \notin B
        BY <2>1, <2>2, <2>3
      <3>2. PICK m \in s \ {x} : \A y \in s \ {x} : m >= y
        BY <2>6, <3>1
      <3>3. m \in s /\ m \in Int
        BY <2>4, <3>2
      <3>4. CASE m >= x
        <4>1. \A y \in s : m >= y
          BY <3>2, <3>4
        <4> QED
          BY <2>2, <3>3, <4>1
      <3>5. CASE ~(m >= x)
        <4>1. \A y \in s : x >= y
          BY <2>4, <3>2, <3>3, <3>5
        <4> QED
          BY <2>2, <2>3, <4>1
      <3> QED
        BY <3>4, <3>5
    <2> QED
      BY <2>5, <2>6
  <1>2. HasMax(S)
    BY <1>1
  <1>3. Max(S) \in S /\ \A y \in S : Max(S) >= y
    BY <1>2 DEF Max
  <1> QED
    BY <1>3

(* Renaming the summands, no two to the same name, keeps the sum.          *)
LEMMA SumRenamed ==
  ASSUME NEW f, NEW S, IsFiniteSet(S), \A x \in S : f[x] \in Int,
         NEW g, NEW h, \A x \in S : g[h[x]] = f[x],
         \A x, y \in S : h[x] = h[y] => x = y
  PROVE  /\ IsFiniteSet({h[x] : x \in S})
         /\ SumFunctionOnSet(g, {h[x] : x \in S}) = SumFunctionOnSet(f, S)
  <1> DEFINE Named(s) == {h[x] : x \in s}
             Right(s) == IsFiniteSet(Named(s))
                         /\ SumFunctionOnSet(g, Named(s)) = SumFunctionOnSet(f, s)
             B == {s \in SUBSET S : ~Right(s)}
  <1> SUFFICES ASSUME B # {} PROVE FALSE
    OBVIOUS
  <1>1. PICK s \in B : \A x \in s : s \ {x} \notin B
    <2> HIDE DEF B
    <2>1. B \in SUBSET (SUBSET S)
      BY DEF B
    <2> QED
      BY <2>1, SmallestBad
  <1>2. s \in SUBSET S /\ ~Right(s) /\ IsFiniteSet(s)
    BY FS_Subset
  <1>3. s # {}
    <2> SUFFICES ASSUME s = {} PROVE FALSE
      OBVIOUS
    <2>1. Named(s) = {}
      OBVIOUS
    <2>2. SumFunctionOnSet(g, {}) = 0 /\ SumFunctionOnSet(f, {}) = 0 /\ IsFiniteSet({})
      BY SumEmpty, FS_EmptySet
    <2> QED
      BY <1>2, <2>1, <2>2
  <1>4. PICK x \in s : TRUE
    BY <1>3
  <1> DEFINE r == s \ {x}
             T == Named(r)
  <1>5. Right(r)
    BY <1>1, <1>2, <1>4
  <1>6. Named(s) = T \cup {h[x]} /\ h[x] \notin T
    BY <1>2, <1>4
  <1>7. \A z \in T : g[z] \in Int
    BY <1>2
  <1>8. g[h[x]] = f[x] /\ f[x] \in Int
    BY <1>2, <1>4
  <1>9. IsFiniteSet(T) /\ SumFunctionOnSet(g, T) = SumFunctionOnSet(f, r)
    BY <1>5
  <1>10. SumFunctionOnSet(f, s) = f[x] + SumFunctionOnSet(f, r)
    BY <1>2, <1>4, SumRemove
  <1>11. SumFunctionOnSet(f, r) \in Int
    <2>1. IsFiniteSet(r) /\ \A y \in r : f[y] \in Int
      BY <1>2, FS_Subset
    <2> HIDE DEF r
    <2> QED
      BY <2>1, SumInt
  <1> DEFINE z == h[x]
  <1> HIDE DEF T, z, r
  <1>12. IsFiniteSet(T \cup {z})
    BY <1>9, FS_AddElement
  <1>13. SumFunctionOnSet(g, T \cup {z}) = SumFunctionOnSet(g, T) + g[z]
    <2>1. z \notin T /\ g[z] \in Int
      BY <1>6, <1>8 DEF z
    <2> QED
      BY <1>7, <1>9, <2>1, SumAdd
  <1>14. g[z] = f[x] /\ Named(s) = T \cup {z}
    BY <1>6, <1>8 DEF z
  <1> QED
    BY <1>2, <1>8, <1>9, <1>10, <1>11, <1>12, <1>13, <1>14

(* One value changes, and the sum with it.                                 *)
LEMMA SumChanged ==
  ASSUME NEW f, NEW g, NEW S, IsFiniteSet(S), NEW x \in S,
         \A y \in S : f[y] \in Int, \A y \in S : g[y] \in Int,
         \A y \in S : y # x => g[y] = f[y]
  PROVE  SumFunctionOnSet(g, S) = SumFunctionOnSet(f, S) - f[x] + g[x]
  <1>1. IsFiniteSet(S \ {x})
    BY FS_RemoveElement
  <1>2. SumFunctionOnSet(f, S) = f[x] + SumFunctionOnSet(f, S \ {x})
    BY SumRemove
  <1>3. SumFunctionOnSet(g, S) = g[x] + SumFunctionOnSet(g, S \ {x})
    BY SumRemove
  <1>4. SumFunctionOnSet(g, S \ {x}) = SumFunctionOnSet(f, S \ {x})
    BY <1>1, SumSame
  <1>5. SumFunctionOnSet(f, S \ {x}) \in Int /\ f[x] \in Int /\ g[x] \in Int
    BY <1>1, SumInt
  <1> QED
    BY <1>2, <1>3, <1>4, <1>5
=============================================================================
