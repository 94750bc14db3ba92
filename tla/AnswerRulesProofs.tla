--------------------------- MODULE AnswerRulesProofs ---------------------------
(***************************************************************************)
(* Proofs about OcrText and AnswerRules, for any number of grey levels,    *)
(* percentiles, files and decisions.                                       *)
(*                                                                         *)
(* The loops over histograms are recursions: over the levels, and over the *)
(* elements of a set in the fold of SumFunctionOnSet.  Induction over      *)
(* numbers is taken from the least number of a set (WFMin), so it is about *)
(* a set of numbers, not about a formula; a recursive function is shown to *)
(* exist by building it for ever larger arguments.                         *)
(*                                                                         *)
(* OtsuIsOptimal needs what the loop knows before each threshold, and that *)
(* the scatter within the classes and the gap between them add up to the   *)
(* scatter of the page.  NothingApprovedUnseen and CompletedIsSupported    *)
(* need that an item nobody decided about is still what the review rules   *)
(* made of the answer with its number.                                     *)
(***************************************************************************)
EXTENDS AnswerRules, FiniteSetTheorems, WellFoundedInduction, TLAPS

-----------------------------------------------------------------------------
(* Induction, and sums over finite sets *)

\* Every set of numbers that is not empty has a least one.
LEMMA LeastNumber ==
  ASSUME NEW T \in SUBSET Nat, T # {}
  PROVE  \E m \in T : \A n \in T : m <= n
<1> DEFINE R == {ss \in Nat \X Nat : ss[1] < ss[2]}
<1>1. IsWellFoundedOn(R, Nat)
  BY NatLessThanWellFounded DEF OpToRel
<1>2. PICK m \in T : \A n \in T : ~ (<<n, m>> \in R)
  <2> HIDE DEF R
  <2> QED
    BY <1>1, WFMin
<1>3. ASSUME NEW n \in T PROVE m <= n
  <2>1. ~ (n < m)
    BY <1>2
  <2> QED
    BY <2>1
<1> QED
  BY <1>3

\* Induction, for a set of numbers instead of a predicate.
LEMMA SetInduction ==
  ASSUME NEW T, 0 \in T, \A n \in Nat : n \in T => n + 1 \in T
  PROVE  Nat \subseteq T
<1>1. SUFFICES ASSUME Nat \ T # {} PROVE FALSE
  OBVIOUS
<1>2. PICK m \in Nat \ T : \A n \in Nat \ T : m <= n
  BY <1>1, LeastNumber
<1>3. m # 0 /\ m - 1 \in Nat
  BY <1>2
<1>4. m - 1 \in T
  BY <1>2, <1>3
<1> QED
  BY <1>2, <1>3, <1>4

\* The fold of SumFunctionOnSet, spelled out: which element it takes, and that g is
\* its recursive function over a family of sets.
First(s) == CHOOSE x \in s : TRUE
SumStep(f, g, s) == IF s = {} THEN 0 ELSE f[First(s)] + g[s \ {First(s)}]
IsSum(f, family, g) == g = [s \in family |-> SumStep(f, g, s)]

\* SumFunctionOnSet chooses such a function.
LEMMA SumIsChosen ==
  ASSUME NEW f, NEW D
  PROVE  SumFunctionOnSet(f, D) = (CHOOSE g : IsSum(f, SUBSET D, g))[D]
  BY DEF SumFunctionOnSet, FoldFunctionOnSet, MapThenFoldSet, IsSum, SumStep, First

LEMMA FirstIn ==
  ASSUME NEW s, s # {}
  PROVE  First(s) \in s
  BY DEF First

LEMMA RestSmaller ==
  ASSUME NEW s, IsFiniteSet(s), NEW x \in s
  PROVE  /\ IsFiniteSet(s \ {x}) /\ Cardinality(s) \in Nat \ {0}
         /\ Cardinality(s \ {x}) = Cardinality(s) - 1
  BY FS_RemoveElement, FS_CardinalityType, FS_EmptySet

Layer(D, n) == {s \in SUBSET D : Cardinality(s) <= n}

\* A sum of the sets with at most n elements exists, by induction over n.
LEMMA SumOnLayers ==
  ASSUME NEW f, NEW D, IsFiniteSet(D), NEW n \in Nat
  PROVE  \E g : IsSum(f, Layer(D, n), g)
<1> DEFINE T == {m \in Nat : \E g : IsSum(f, Layer(D, m), g)}
<1>1. \A s \in SUBSET D : IsFiniteSet(s) /\ Cardinality(s) \in Nat /\ (Cardinality(s) = 0 <=> s = {})
  BY FS_Subset, FS_CardinalityType, FS_EmptySet
<1>2. 0 \in T
  <2> DEFINE g == [s \in Layer(D, 0) |-> 0]
  <2>1. \A s \in Layer(D, 0) : s = {}
    BY <1>1 DEF Layer
  <2>2. IsSum(f, Layer(D, 0), g)
    BY <2>1 DEF SumStep, IsSum
  <2> QED
    BY <2>2
<1>3. ASSUME NEW m \in T PROVE m + 1 \in T
  <2>1. PICK g : IsSum(f, Layer(D, m), g)
    OBVIOUS
  <2> DEFINE h == [s \in Layer(D, m + 1) |-> SumStep(f, g, s)]
  <2>2. ASSUME NEW s \in Layer(D, m + 1), s # {}
        PROVE  s \ {First(s)} \in Layer(D, m)
    BY <2>2, <1>1, FirstIn, RestSmaller DEF Layer
  <2>3. Layer(D, m) \subseteq Layer(D, m + 1)
    BY <1>1 DEF Layer
  <2>4. ASSUME NEW s \in Layer(D, m) PROVE h[s] = g[s]
    BY <2>1, <2>3 DEF IsSum
  <2>5. ASSUME NEW s \in Layer(D, m + 1) PROVE SumStep(f, g, s) = SumStep(f, h, s)
    BY <2>2, <2>4 DEF SumStep
  <2>6. IsSum(f, Layer(D, m + 1), h)
    BY <2>5 DEF IsSum
  <2> QED
    BY <2>6
<1> HIDE DEF T
<1>4. Nat \subseteq T
  BY <1>2, <1>3, SetInduction
<1> QED
  BY <1>4 DEF T

\* The function the fold chooses exists.
LEMMA SumExists ==
  ASSUME NEW f, NEW D, IsFiniteSet(D)
  PROVE  \E g : IsSum(f, SUBSET D, g)
<1>1. Layer(D, Cardinality(D)) = SUBSET D
  BY FS_Subset, FS_CardinalityType DEF Layer
<1>2. \E g : IsSum(f, Layer(D, Cardinality(D)), g)
  BY SumOnLayers, FS_CardinalityType
<1> QED
  BY <1>1, <1>2

\* Of some subsets of a finite set one is smallest: induction over finite sets.
LEMMA SmallestSubset ==
  ASSUME NEW D, IsFiniteSet(D), NEW Bad \in SUBSET SUBSET D, Bad # {}
  PROVE  \E s \in Bad : \A u \in SUBSET s : u # s => u \notin Bad
<1> DEFINE Sizes == {Cardinality(s) : s \in Bad}
<1>1. \A s \in SUBSET D : IsFiniteSet(s) /\ Cardinality(s) \in Nat
  BY FS_Subset, FS_CardinalityType
<1>2. Sizes \in SUBSET Nat /\ Sizes # {}
  BY <1>1
<1>3. PICK n \in Sizes : \A m \in Sizes : n <= m
  BY <1>2, LeastNumber
<1>4. PICK s \in Bad : n = Cardinality(s)
  BY <1>3
<1>5. ASSUME NEW u \in SUBSET s, u # s PROVE u \notin Bad
  <2>1. Cardinality(u) < Cardinality(s)
    BY <1>1, <1>5, FS_Subset
  <2> QED
    BY <1>1, <1>3, <1>4, <2>1
<1> QED
  BY <1>5

\* Two of them agree on the subsets they share.
LEMMA SumUnique ==
  ASSUME NEW f, NEW D, IsFiniteSet(D), NEW E \in SUBSET D, NEW g, NEW h,
         IsSum(f, SUBSET D, g), IsSum(f, SUBSET E, h), NEW t \in SUBSET E
  PROVE  g[t] = h[t]
<1> DEFINE Differ == {s \in SUBSET E : g[s] # h[s]}
<1>1. SUFFICES ASSUME t \in Differ PROVE FALSE
  OBVIOUS
<1>2. PICK s \in Differ : \A u \in SUBSET s : u # s => u \notin Differ
  <2>1. Differ \in SUBSET SUBSET D
    OBVIOUS
  <2> HIDE DEF Differ
  <2> QED
    BY <1>1, <2>1, SmallestSubset
<1>3. s # {}
  BY DEF IsSum, SumStep
<1>4. s \ {First(s)} \notin Differ
  BY <1>2, <1>3, FirstIn
<1>5. g[s] = SumStep(f, g, s) /\ h[s] = SumStep(f, h, s)
  BY DEF IsSum
<1> QED
  BY <1>3, <1>4, <1>5 DEF SumStep

\* The recursion of SumFunctionOnSet.
LEMMA SumRecursion ==
  ASSUME NEW f, NEW D, IsFiniteSet(D)
  PROVE  SumFunctionOnSet(f, D) =
           IF D = {} THEN 0 ELSE f[First(D)] + SumFunctionOnSet(f, D \ {First(D)})
<1> DEFINE g == CHOOSE g : IsSum(f, SUBSET D, g)
           E == D \ {First(D)}
           h == CHOOSE h : IsSum(f, SUBSET E, h)
<1>1. IsSum(f, SUBSET D, g)
  BY SumExists
<1>2. IsSum(f, SUBSET E, h)
  BY FS_Subset, SumExists
<1>3. SumFunctionOnSet(f, D) = g[D] /\ SumFunctionOnSet(f, E) = h[E]
  BY SumIsChosen
<1> HIDE DEF g, h
<1>4. g[D] = SumStep(f, g, D)
  BY <1>1 DEF IsSum
<1>5. g[E] = h[E]
  <2>1. E \in SUBSET D /\ E \in SUBSET E
    OBVIOUS
  <2> HIDE DEF E
  <2> QED
    BY <1>1, <1>2, <2>1, SumUnique
<1> QED
  BY <1>3, <1>4, <1>5 DEF SumStep

\* A sum of numbers is a number.
LEMMA SumInt ==
  ASSUME NEW f, NEW D, IsFiniteSet(D), \A x \in D : f[x] \in Int
  PROVE  SumFunctionOnSet(f, D) \in Int
<1> DEFINE Sum(s) == SumFunctionOnSet(f, s)
           Bad == {s \in SUBSET D : Sum(s) \notin Int}
<1>1. SUFFICES ASSUME Bad # {} PROVE FALSE
  BY D \in SUBSET D
<1>2. PICK s \in Bad : \A u \in SUBSET s : u # s => u \notin Bad
  <2>1. Bad \in SUBSET SUBSET D
    OBVIOUS
  <2> HIDE DEF Bad
  <2> QED
    BY <1>1, <2>1, SmallestSubset
<1>3. Sum(s) = IF s = {} THEN 0 ELSE f[First(s)] + Sum(s \ {First(s)})
  BY SumRecursion, FS_Subset
<1>4. s # {} => s \ {First(s)} \notin Bad
  BY <1>2, FirstIn
<1> QED
  BY <1>3, <1>4, FirstIn

\* Whichever element is taken out, the rest is summed.
LEMMA SumRemove ==
  ASSUME NEW f, NEW D, IsFiniteSet(D), \A x \in D : f[x] \in Int, NEW x \in D
  PROVE  SumFunctionOnSet(f, D) = f[x] + SumFunctionOnSet(f, D \ {x})
<1> DEFINE Sum(s) == SumFunctionOnSet(f, s)
           Bad == {s \in SUBSET D : \E y \in s : Sum(s) # f[y] + Sum(s \ {y})}
<1>1. \A s \in SUBSET D : IsFiniteSet(s) /\ Sum(s) \in Int
  BY FS_Subset, SumInt
<1>2. \A s \in SUBSET D : s # {} => Sum(s) = f[First(s)] + Sum(s \ {First(s)})
  BY <1>1, SumRecursion
<1> HIDE DEF Sum
<1>3. SUFFICES ASSUME Bad # {} PROVE FALSE
  BY D \in SUBSET D DEF Sum
<1>4. PICK s \in Bad : \A u \in SUBSET s : u # s => u \notin Bad
  <2>1. Bad \in SUBSET SUBSET D
    OBVIOUS
  <2> HIDE DEF Bad
  <2> QED
    BY <1>3, <2>1, SmallestSubset
<1>5. PICK y \in s : Sum(s) # f[y] + Sum(s \ {y})
  OBVIOUS
<1> DEFINE c == First(s)
<1>6. c \in s /\ Sum(s) = f[c] + Sum(s \ {c})
  BY <1>2, FirstIn
<1> HIDE DEF c
<1>7. c # y
  BY <1>5, <1>6
<1> DEFINE rest == (s \ {c}) \ {y}
<1>8. Sum(s \ {c}) = f[y] + Sum(rest)
  <2>1. s \ {c} \notin Bad
    BY <1>4, <1>6
  <2> QED
    BY <2>1, <1>7
<1>9. Sum(s \ {y}) = f[c] + Sum(rest)
  <2>1. s \ {y} \notin Bad
    BY <1>4, <1>6
  <2>2. (s \ {y}) \ {c} = rest
    OBVIOUS
  <2> QED
    BY <2>1, <2>2, <1>6, <1>7
<1>10. f[c] \in Int /\ f[y] \in Int /\ Sum(rest) \in Int
  BY <1>1, <1>6
<1> HIDE DEF rest
<1> QED
  BY <1>5, <1>6, <1>8, <1>9, <1>10

\* Adding an element adds its number.
LEMMA SumAdd ==
  ASSUME NEW f, NEW D, IsFiniteSet(D), NEW x, x \notin D, \A y \in D \union {x} : f[y] \in Int
  PROVE  /\ IsFiniteSet(D \union {x})
         /\ SumFunctionOnSet(f, D \union {x}) = f[x] + SumFunctionOnSet(f, D)
<1> DEFINE E == D \union {x}
<1>1. IsFiniteSet(E) /\ E \ {x} = D /\ x \in E /\ \A y \in E : f[y] \in Int
  BY FS_AddElement
<1> HIDE DEF E
<1>2. SumFunctionOnSet(f, E) = f[x] + SumFunctionOnSet(f, E \ {x})
  BY <1>1, SumRemove
<1> QED
  BY <1>1, <1>2 DEF E

LEMMA SumEmpty == \A f : SumFunctionOnSet(f, {}) = 0
  BY SumRecursion, FS_EmptySet

\* What holds of the empty sum and is kept when an element is added holds of
\* every sum: the induction the following lemmas are instances of.
LEMMA SumGrows ==
  ASSUME NEW D, IsFiniteSet(D), NEW Good \in SUBSET SUBSET D, {} \in Good,
         \A s \in Good, x \in D : x \notin s => s \union {x} \in Good
  PROVE  D \in Good
<1> DEFINE Bad == (SUBSET D) \ Good
<1>1. SUFFICES ASSUME Bad # {} PROVE FALSE
  BY D \in SUBSET D
<1>2. PICK s \in Bad : \A u \in SUBSET s : u # s => u \notin Bad
  <2>1. Bad \in SUBSET SUBSET D
    OBVIOUS
  <2> HIDE DEF Bad
  <2> QED
    BY <1>1, <2>1, SmallestSubset
<1>3. PICK x \in s : TRUE
  OBVIOUS
<1>4. s \ {x} \in Good /\ x \in D /\ (s \ {x}) \union {x} = s
  BY <1>2
<1> QED
  BY <1>4

\* A sum of natural numbers is one, and is 0 only when all of them are.
LEMMA SumNat ==
  ASSUME NEW f, NEW D, IsFiniteSet(D), \A x \in D : f[x] \in Nat
  PROVE  /\ SumFunctionOnSet(f, D) \in Nat
         /\ SumFunctionOnSet(f, D) > 0 <=> \E x \in D : f[x] > 0
<1> DEFINE Sum(s) == SumFunctionOnSet(f, s)
           Good == {s \in SUBSET D : Sum(s) \in Nat /\ (Sum(s) > 0 <=> \E x \in s : f[x] > 0)}
<1>1. {} \in Good
  BY SumEmpty
<1>2. ASSUME NEW s \in Good, NEW x \in D, x \notin s PROVE s \union {x} \in Good
  <2>1. Sum(s \union {x}) = f[x] + Sum(s)
    BY <1>2, SumAdd, FS_Subset
  <2> QED
    BY <2>1
<1> HIDE DEF Good
<1>3. D \in Good
  BY <1>1, <1>2, SumGrows, Good \in SUBSET SUBSET D DEF Good
<1> QED
  BY <1>3 DEF Good

\* The sum of a class and of the rest is the sum of both.
LEMMA SumSplit ==
  ASSUME NEW f, NEW A, NEW D, IsFiniteSet(A), IsFiniteSet(D), A \intersect D = {},
         \A x \in A \union D : f[x] \in Int
  PROVE  SumFunctionOnSet(f, A \union D) = SumFunctionOnSet(f, A) + SumFunctionOnSet(f, D)
<1> DEFINE Sum(s) == SumFunctionOnSet(f, s)
           Good == {s \in SUBSET D : Sum(A \union s) = Sum(A) + Sum(s)}
<1>0. \A s \in SUBSET D : IsFiniteSet(s) /\ IsFiniteSet(A \union s) /\ Sum(s) \in Int
  BY FS_Subset, FS_Union, SumInt
<1>1. {} \in Good
  <2>1. A \union {} = A
    OBVIOUS
  <2> QED
    BY <2>1, SumEmpty, SumInt
<1>2. ASSUME NEW s \in Good, NEW x \in D, x \notin s PROVE s \union {x} \in Good
  <2> DEFINE more == s \union {x}
             all == A \union more
  <2>1. Sum(more) = f[x] + Sum(s)
    BY <1>2, <1>0, SumAdd
  <2>2. Sum(all) = f[x] + Sum(A \union s)
    <3>1. Sum((A \union s) \union {x}) = f[x] + Sum(A \union s)
      BY <1>2, <1>0, SumAdd
    <3>2. (A \union s) \union {x} = all
      OBVIOUS
    <3> QED
      BY <3>1, <3>2
  <2>3. Sum(A \union s) = Sum(A) + Sum(s)
    OBVIOUS
  <2>4. Sum(A) \in Int /\ Sum(s) \in Int /\ f[x] \in Int
    BY <1>0, SumInt
  <2>5. more \in SUBSET D
    OBVIOUS
  <2> HIDE DEF Sum, more
  <2>6. Sum(all) = Sum(A) + Sum(more)
    BY <2>1, <2>2, <2>3, <2>4
  <2> QED
    BY <2>5, <2>6 DEF more
<1> HIDE DEF Good
<1>3. D \in Good
  BY <1>1, <1>2, SumGrows, Good \in SUBSET SUBSET D DEF Good
<1> QED
  BY <1>3 DEF Good

\* Levels and ranges of levels.
LEMMA GreysFinite ==
  /\ IsFiniteSet(Greys) /\ 0 \in Greys /\ White \in Greys /\ Greys \subseteq Nat
  /\ \A S \in SUBSET Greys : IsFiniteSet(S)
  /\ \A t \in 0 .. Levels : 0 .. t - 1 \subseteq Greys /\ t .. White \subseteq Greys
  /\ \A t \in Greys : t \in 0 .. Levels /\ t + 1 \in 0 .. Levels
<1>1. Levels \in Nat /\ Levels - 1 \in Int
  BY OcrAssumption
<1>2. IsFiniteSet(Greys)
  BY <1>1, FS_Interval DEF Greys
<1>3. \A S \in SUBSET Greys : IsFiniteSet(S)
  BY <1>2, FS_Subset
<1>4. /\ \A t \in 0 .. Levels : 0 .. t - 1 \subseteq Greys /\ t .. White \subseteq Greys
      /\ \A t \in Greys : t \in 0 .. Levels /\ t + 1 \in 0 .. Levels
  BY <1>1 DEF Greys, White
<1>5. 0 \in Greys /\ White \in Greys /\ Greys \subseteq Nat
  BY OcrAssumption DEF Greys, White
<1> QED
  BY <1>2, <1>3, <1>4, <1>5

\* The loop, spelled out as a recursive function of the thresholds.
OtsuFrom(h, g, t) == IF t = 0 THEN OtsuStart ELSE OtsuRound(h, g[t - 1], t - 1)
IsOtsuLoop(h, n, g) == g = [t \in 0 .. n |-> OtsuFrom(h, g, t)]

LEMMA OtsuLoopExists ==
  ASSUME NEW h, NEW n \in Nat
  PROVE  \E g : IsOtsuLoop(h, n, g)
<1> DEFINE T == {m \in Nat : \E g : IsOtsuLoop(h, m, g)}
<1>1. 0 \in T
  <2>1. IsOtsuLoop(h, 0, [t \in 0 .. 0 |-> OtsuStart])
    BY DEF IsOtsuLoop, OtsuFrom
  <2> QED
    BY <2>1
<1>2. ASSUME NEW m \in T PROVE m + 1 \in T
  <2>1. PICK g : IsOtsuLoop(h, m, g)
    OBVIOUS
  <2> DEFINE k == [t \in 0 .. m + 1 |-> OtsuFrom(h, g, t)]
  <2>2. \A t \in 0 .. m : k[t] = g[t]
    BY <2>1 DEF IsOtsuLoop
  <2>3. \A t \in 0 .. m + 1 : t # 0 => t - 1 \in 0 .. m
    OBVIOUS
  <2>4. \A t \in 0 .. m + 1 : OtsuFrom(h, g, t) = OtsuFrom(h, k, t)
    BY <2>2, <2>3 DEF OtsuFrom
  <2>5. IsOtsuLoop(h, m + 1, k)
    BY <2>4 DEF IsOtsuLoop
  <2> QED
    BY <2>5
<1> HIDE DEF T
<1>3. Nat \subseteq T
  BY <1>1, <1>2, SetInduction
<1> QED
  BY <1>3 DEF T

\* Each round of the loop starts from what the round before it knew.
LEMMA OtsuLoopSteps ==
  ASSUME NEW h
  PROVE  /\ OtsuLoop(h)[0] = OtsuStart
         /\ \A t \in Greys : OtsuLoop(h)[t + 1] = OtsuRound(h, OtsuLoop(h)[t], t)
<1>1. OtsuLoop(h) = CHOOSE g : IsOtsuLoop(h, Levels, g)
  BY DEF OtsuLoop, IsOtsuLoop, OtsuFrom
<1>2. IsOtsuLoop(h, Levels, OtsuLoop(h))
  BY <1>1, OtsuLoopExists, OcrAssumption
<1>3. \A t \in 0 .. Levels : OtsuLoop(h)[t] = OtsuFrom(h, OtsuLoop(h), t)
  BY <1>2 DEF IsOtsuLoop
<1>4. \A t \in Greys : t + 1 \in 0 .. Levels /\ t + 1 # 0 /\ (t + 1) - 1 = t
  BY OcrAssumption DEF Greys
<1>5. 0 \in 0 .. Levels
  BY OcrAssumption
<1> QED
  BY <1>3, <1>4, <1>5 DEF OtsuFrom

\* Numbers of pixels by level; pixels weighted with their level, and counted below one.
Histograms == [Greys -> Nat]
Weighted(h) == [i \in Greys |-> i * h[i]]
Upto(f, t) == SumFunctionOnSet(f, 0 .. t - 1)

LEMMA WeightedType == \A h \in Histograms : Weighted(h) \in Histograms
  BY GreysFinite DEF Histograms, Weighted

LEMMA Totals == \A h : Total(h) = SumFunction(h) /\ Weight(h) = SumFunction(Weighted(h))
  BY DEF Total, Weight, Weighted

LEMMA PixelsAdd ==
  ASSUME NEW f \in Histograms, NEW S \in SUBSET Greys, NEW x \in Greys, x \notin S
  PROVE  /\ SumFunctionOnSet(f, S \union {x}) = f[x] + SumFunctionOnSet(f, S)
         /\ f[x] \in Nat /\ SumFunctionOnSet(f, S) \in Nat
<1>1. IsFiniteSet(S) /\ \A y \in S \union {x} : f[y] \in Nat /\ f[y] \in Int
  BY GreysFinite DEF Histograms
<1> QED
  BY <1>1, SumAdd, SumNat

\* Sums up to a level, as the loops compute them.
LEMMA UptoSteps ==
  ASSUME NEW f \in Histograms
  PROVE  /\ Upto(f, 0) = 0 /\ Upto(f, Levels) = SumFunction(f)
         /\ \A t \in Greys : Upto(f, t + 1) = Upto(f, t) + f[t]
<1>1. Upto(f, 0) = 0
  BY SumEmpty DEF Upto
<1>2. Upto(f, Levels) = SumFunction(f)
  BY DEF Upto, SumFunction, Histograms, Greys
<1>3. ASSUME NEW t \in Greys PROVE Upto(f, t + 1) = Upto(f, t) + f[t]
  <2>1. 0 .. (t + 1) - 1 = (0 .. t - 1) \union {t} /\ t \notin 0 .. t - 1
    BY GreysFinite
  <2>2. 0 .. t - 1 \in SUBSET Greys
    BY GreysFinite
  <2> DEFINE low == 0 .. t - 1
  <2>3. SumFunctionOnSet(f, low \union {t}) = f[t] + SumFunctionOnSet(f, low) /\ f[t] \in Nat /\ SumFunctionOnSet(f, low) \in Nat
    <3> HIDE DEF low
    <3> QED
      BY <2>1, <2>2, PixelsAdd DEF low
  <2>4. Upto(f, t + 1) = SumFunctionOnSet(f, low \union {t}) /\ Upto(f, t) = SumFunctionOnSet(f, low)
    BY <2>1 DEF Upto
  <2> HIDE DEF low
  <2> QED
    BY <2>3, <2>4
<1> QED
  BY <1>1, <1>2, <1>3

\* The classes below and above a threshold.
LEMMA UptoNat ==
  ASSUME NEW f \in Histograms, NEW t \in 0 .. Levels
  PROVE  /\ Upto(f, t) \in Nat /\ SumFunction(f) \in Nat /\ Upto(f, t) <= SumFunction(f)
         /\ SumFunctionOnSet(f, t .. White) = SumFunction(f) - Upto(f, t)
<1> DEFINE low == 0 .. t - 1
           high == t .. White
<1>1. low \in SUBSET Greys /\ high \in SUBSET Greys /\ low \intersect high = {} /\ low \union high = Greys
  BY OcrAssumption DEF Greys, White
<1>2. /\ IsFiniteSet(low) /\ IsFiniteSet(high) /\ IsFiniteSet(Greys)
      /\ \A x \in Greys : f[x] \in Nat /\ f[x] \in Int
  BY <1>1, GreysFinite DEF Histograms
<1> HIDE DEF low, high
<1>3. SumFunctionOnSet(f, Greys) = SumFunctionOnSet(f, low) + SumFunctionOnSet(f, high)
  BY <1>1, <1>2, SumSplit
<1>4. SumFunctionOnSet(f, low) \in Nat /\ SumFunctionOnSet(f, high) \in Nat
  BY <1>1, <1>2, SumNat
<1>5. SumFunction(f) = SumFunctionOnSet(f, Greys)
  BY DEF SumFunction, Histograms
<1>6. SumFunctionOnSet(f, low) = Upto(f, t)
  BY DEF Upto, low
<1> QED
  BY <1>3, <1>4, <1>5, <1>6 DEF high

\* The mean of a class lies between its levels.
LEMMA MeanBetween ==
  ASSUME NEW h \in Histograms, NEW S \in SUBSET Greys, NEW lo \in Nat, NEW hi \in Nat,
         \A i \in S : lo <= i /\ i <= hi
  PROVE  /\ lo * SumFunctionOnSet(h, S) <= SumFunctionOnSet(Weighted(h), S)
         /\ SumFunctionOnSet(Weighted(h), S) <= hi * SumFunctionOnSet(h, S)
<1> DEFINE W(s) == SumFunctionOnSet(Weighted(h), s)
           N(s) == SumFunctionOnSet(h, s)
           Good == {s \in SUBSET S : lo * N(s) <= W(s) /\ W(s) <= hi * N(s)}
<1>1. \A s \in SUBSET S : IsFiniteSet(s) /\ W(s) \in Nat /\ N(s) \in Nat
  BY GreysFinite, WeightedType, SumNat DEF Histograms
<1>2. ASSUME NEW s \in SUBSET S, NEW x \in S, x \notin s
      PROVE  W(s \union {x}) = x * h[x] + W(s) /\ N(s \union {x}) = h[x] + N(s)
  <2>1. s \in SUBSET Greys /\ x \in Greys /\ Weighted(h) \in Histograms /\ Weighted(h)[x] = x * h[x]
    BY WeightedType DEF Weighted
  <2> QED
    BY <1>2, <2>1, PixelsAdd
<1>3. {} \in Good
  BY SumEmpty
<1> HIDE DEF W, N
<1>4. ASSUME NEW s \in Good, NEW x \in S, x \notin s PROVE s \union {x} \in Good
  <2>1. x \in Nat /\ h[x] \in Nat /\ lo <= x /\ x <= hi
    BY GreysFinite DEF Histograms
  <2>2. lo * h[x] <= x * h[x] /\ x * h[x] <= hi * h[x]
    BY <2>1
  <2>3. lo * (h[x] + N(s)) = lo * h[x] + lo * N(s) /\ hi * (h[x] + N(s)) = hi * h[x] + hi * N(s)
    BY <2>1, <1>1
  <2>4. W(s \union {x}) = x * h[x] + W(s) /\ N(s \union {x}) = h[x] + N(s)
    BY <1>2, <1>4
  <2>5. /\ x * h[x] \in Nat /\ hi * h[x] \in Nat /\ hi * N(s) \in Nat /\ lo * h[x] \in Nat
        /\ lo * N(s) \in Nat /\ lo * N(s) <= W(s) /\ W(s) <= hi * N(s)
    BY <2>1, <1>1
  <2> QED
    BY <1>1, <2>2, <2>3, <2>4, <2>5
<1>5. S \in Good
  <2>1. Good \in SUBSET SUBSET S /\ IsFiniteSet(S)
    BY <1>1
  <2> HIDE DEF Good
  <2> QED
    BY <1>3, <1>4, <2>1, SumGrows
<1> QED
  BY <1>5 DEF W, N

-----------------------------------------------------------------------------
\* Both classes have pixels; the gap between their means and its fraction.
Split(h, t) == Upto(h, t + 1) > 0 /\ Upto(h, t + 1) < Total(h)
Gap(h, t) == Upto(Weighted(h), t + 1) * (Total(h) - Upto(h, t + 1)) - (Weight(h) - Upto(Weighted(h), t + 1)) * Upto(h, t + 1)
Num(h, t) == Gap(h, t) * Gap(h, t)
Den(h, t) == Upto(h, t + 1) * (Total(h) - Upto(h, t + 1))

LEMMA GapArithmetic ==
  ASSUME NEW t \in Nat, NEW a \in Nat \ {0}, NEW b \in Nat \ {0}, NEW x \in Nat, NEW y \in Nat,
         x <= t * a, (t + 1) * b <= y
  PROVE  x * b - y * a < 0
<1>1. x * b <= (t * a) * b
  OBVIOUS
<1>2. ((t + 1) * b) * a <= y * a
  OBVIOUS
<1>3. ((t + 1) * b) * a = (t * a) * b + a * b
  OBVIOUS
<1>4. a * b > 0
  OBVIOUS
<1>5. x * b \in Nat /\ y * a \in Nat /\ (t * a) * b \in Nat /\ ((t + 1) * b) * a \in Nat /\ a * b \in Nat
  OBVIOUS
<1> QED
  BY <1>1, <1>2, <1>3, <1>4, <1>5

LEMMA SquarePositive ==
  ASSUME NEW g \in Int, g < 0
  PROVE  g * g \in Nat \ {0}
  OBVIOUS

\* Two classes that both have pixels differ in their means.
LEMMA SplitPositive ==
  ASSUME NEW h \in Histograms, NEW t \in Greys
  PROVE  /\ Gap(h, t) \in Int /\ Num(h, t) \in Nat /\ Den(h, t) \in Nat
         /\ Split(h, t) <=> Den(h, t) # 0
         /\ Split(h, t) => Num(h, t) # 0
<1> DEFINE a == Upto(h, t + 1)
           b == Total(h) - a
           x == Upto(Weighted(h), t + 1)
           y == Weight(h) - x
<1>1. a \in Nat /\ b \in Nat /\ x \in Nat /\ y \in Nat /\ Total(h) \in Nat
  <2>1. t + 1 \in 0 .. Levels /\ Weighted(h) \in Histograms
    BY GreysFinite, WeightedType
  <2>2. a \in Nat /\ Total(h) \in Nat /\ a <= Total(h)
    BY <2>1, UptoNat, Totals
  <2>3. x \in Nat /\ Weight(h) \in Nat /\ x <= Weight(h)
    BY <2>1, UptoNat, Totals
  <2> QED
    BY <2>2, <2>3
<1>2. x <= t * a
  <2>1. 0 .. t \in SUBSET Greys /\ (t + 1) - 1 = t /\ t \in Nat
    BY GreysFinite
  <2> QED
    BY <2>1, MeanBetween DEF Upto
<1>3. (t + 1) * b <= y
  <2>1. (t + 1) .. White \in SUBSET Greys /\ White \in Nat /\ t + 1 \in Nat /\ t + 1 \in 0 .. Levels
    BY GreysFinite
  <2>2. \A i \in (t + 1) .. White : t + 1 <= i /\ i <= White
    BY <2>1
  <2>3. (t + 1) * SumFunctionOnSet(h, (t + 1) .. White) <= SumFunctionOnSet(Weighted(h), (t + 1) .. White)
    BY <2>1, <2>2, MeanBetween
  <2>4. SumFunctionOnSet(h, (t + 1) .. White) = b /\ SumFunctionOnSet(Weighted(h), (t + 1) .. White) = y
    BY <2>1, UptoNat, WeightedType, Totals
  <2> QED
    BY <2>3, <2>4
<1>4. Gap(h, t) = x * b - y * a /\ Den(h, t) = a * b /\ (Split(h, t) <=> a > 0 /\ a < Total(h))
  BY DEF Gap, Den, Split
<1>5. t \in Nat
  BY GreysFinite
<1> HIDE DEF x, y, a
<1>6. Gap(h, t) \in Int /\ Den(h, t) \in Nat
  BY <1>1, <1>4
<1>7. Split(h, t) <=> a # 0 /\ b # 0
  BY <1>1, <1>4
<1> HIDE DEF b
<1>8. Split(h, t) <=> Den(h, t) # 0
  BY <1>1, <1>4, <1>7
<1>9. ASSUME Split(h, t) PROVE Gap(h, t) < 0
  BY <1>9, <1>1, <1>2, <1>3, <1>4, <1>5, <1>7, GapArithmetic
<1>10. Gap(h, t) * Gap(h, t) \in Nat
  BY <1>6
<1> QED
  BY <1>6, <1>8, <1>9, <1>10, SquarePositive DEF Num

(* The loop *)

\* Fractions are ordered by their cross products.
LEMMA AtMostTransitive ==
  ASSUME NEW a \in Nat, NEW p \in Nat, NEW b \in Nat, NEW q \in Nat \ {0}, NEW c \in Nat, NEW r \in Nat,
         a * q <= b * p, b * r <= c * q
  PROVE  a * r <= c * p
<1>1. (a * q) * r <= (b * p) * r /\ (b * r) * p <= (c * q) * p
  OBVIOUS
<1>2. (b * p) * r = (b * r) * p /\ (a * q) * r = q * (a * r) /\ (c * q) * p = q * (c * p)
  OBVIOUS
<1>3. a * r \in Nat /\ c * p \in Nat /\ (b * p) * r \in Nat
  OBVIOUS
<1>4. q * (a * r) <= q * (c * p)
  BY <1>1, <1>2, <1>3
<1> QED
  BY <1>3, <1>4

\* The variables of the loop.
OtsuStates == [wb : Nat, sb : Nat, num : Nat, den : Nat \ {0}, best : Nat]

\* What the loop knows before threshold t: the weight and sum of the lower class,
\* the latter until the upper class is empty, and the best threshold so far.
OtsuInv(h, s, t) ==
  /\ s \in OtsuStates
  /\ s.wb = Upto(h, t)
  /\ Upto(h, t) < Total(h) => s.sb = Upto(Weighted(h), t)
  /\ \/ /\ s.num = 0 /\ s.den = 1 /\ s.best = Levels \div 2
        /\ \A u \in 0 .. t - 1 : ~Split(h, u)
     \/ /\ s.best \in 0 .. t - 1 /\ Split(h, s.best)
        /\ s.num = Num(h, s.best) /\ s.den = Den(h, s.best)
        /\ \A u \in 0 .. t - 1 : Split(h, u) => Num(h, u) * s.den <= s.num * Den(h, u)

LEMMA OtsuInvStart ==
  ASSUME NEW h \in Histograms
  PROVE  OtsuInv(h, OtsuStart, 0)
<1>1. Upto(h, 0) = 0 /\ Upto(Weighted(h), 0) = 0
  BY UptoSteps, WeightedType
<1>2. Levels \div 2 \in Nat
  BY OcrAssumption
<1> QED
  BY <1>1, <1>2 DEF OtsuInv, OtsuStart, OtsuStates

LEMMA PositiveBelow ==
  ASSUME NEW n \in Nat \ {0}, NEW d \in Nat \ {0}, NEW m \in Nat, NEW e \in Nat, n * d <= m * e
  PROVE  m # 0
<1>1. n * d > 0
  OBVIOUS
<1>2. ASSUME m = 0 PROVE m * e = 0
  BY <1>2
<1>3. n * d \in Nat /\ m * e \in Nat
  OBVIOUS
<1> QED
  BY <1>1, <1>2, <1>3

\* Every round keeps what the loop knows.
LEMMA OtsuInvStep ==
  ASSUME NEW h \in Histograms, NEW t \in Greys, NEW s, OtsuInv(h, s, t)
  PROVE  OtsuInv(h, OtsuRound(h, s, t), t + 1)
<1> DEFINE n == Upto(h, t + 1)
           w == Upto(Weighted(h), t + 1)
<1>1. /\ n = Upto(h, t) + h[t] /\ w = Upto(Weighted(h), t) + t * h[t]
      /\ h[t] \in Nat /\ t \in Nat /\ t * h[t] \in Nat
  BY UptoSteps, WeightedType, GreysFinite DEF Histograms, Weighted
<1>2. /\ Upto(h, t) \in Nat /\ n \in Nat /\ Total(h) \in Nat /\ n <= Total(h)
      /\ Upto(Weighted(h), t) \in Nat /\ w \in Nat /\ Weight(h) \in Nat /\ w <= Weight(h)
  BY UptoNat, WeightedType, GreysFinite, Totals
<1>3. s \in OtsuStates /\ s.wb = Upto(h, t) /\ (Upto(h, t) < Total(h) => s.sb = Upto(Weighted(h), t))
  BY DEF OtsuInv
<1>4. 0 .. (t + 1) - 1 = (0 .. t - 1) \union {t} /\ t \in 0 .. (t + 1) - 1 /\ 0 .. t - 1 \subseteq Greys
  BY <1>1, GreysFinite
<1>5. \A u \in Greys : Num(h, u) \in Nat /\ Den(h, u) \in Nat /\ (Split(h, u) => Num(h, u) # 0 /\ Den(h, u) # 0)
  BY SplitPositive
<1>6. CASE ~Split(h, t)
  <2>1. (s.wb + h[t]) * (Total(h) - (s.wb + h[t])) = 0
    BY <1>1, <1>2, <1>3, <1>6, SplitPositive DEF Den
  <2>2. OtsuRound(h, s, t) = [s EXCEPT !.wb = n]
    BY <1>1, <1>3, <2>1 DEF OtsuRound, OtsuStep
  <2>3. n < Total(h) => s.sb = w
    <3> SUFFICES ASSUME n < Total(h) PROVE s.sb = w
      OBVIOUS
    <3>1. n = 0
      BY <1>2, <1>6 DEF Split
    <3>2. Upto(h, t) = 0 /\ h[t] = 0
      BY <1>1, <1>2, <3>1
    <3> QED
      BY <1>1, <1>2, <1>3, <3>2
  <2>4. [s EXCEPT !.wb = n] \in OtsuStates
    BY <1>2, <1>3 DEF OtsuStates
  <2> QED
    BY <1>1, <1>3, <1>4, <1>6, <2>2, <2>3, <2>4 DEF OtsuInv, OtsuStates
<1>7. CASE Split(h, t)
  <2>1. Upto(h, t) < Total(h) /\ s.sb + t * h[t] = w /\ s.wb + h[t] = n
    BY <1>1, <1>2, <1>3, <1>7 DEF Split
  <2>2. Den(h, t) # 0 /\ n * (Total(h) - n) = Den(h, t)
    BY <1>7, SplitPositive DEF Den
  <2>3. Num(h, t) = (w * (Total(h) - n) - (Weight(h) - w) * n) * (w * (Total(h) - n) - (Weight(h) - w) * n)
    BY DEF Num, Gap
  <2> HIDE DEF n, w
  <2>4. OtsuRound(h, s, t) =
          IF Num(h, t) * s.den > s.num * Den(h, t)
          THEN [wb |-> n, sb |-> w, num |-> Num(h, t), den |-> Den(h, t), best |-> t]
          ELSE [s EXCEPT !.wb = n, !.sb = w]
    BY <2>1, <2>2, <2>3 DEF OtsuRound, OtsuStep
  <2>5. CASE Num(h, t) * s.den > s.num * Den(h, t)
    <3> DEFINE r == [wb |-> n, sb |-> w, num |-> Num(h, t), den |-> Den(h, t), best |-> t]
    <3>1. r \in OtsuStates
      BY <1>1, <1>2, <1>5, <2>2 DEF OtsuStates
    <3>2. ASSUME NEW u \in 0 .. (t + 1) - 1, Split(h, u) PROVE Num(h, u) * Den(h, t) <= Num(h, t) * Den(h, u)
      <4>1. CASE u = t
        BY <4>1, <1>5
      <4>2. CASE u \in 0 .. t - 1
        <5>1. Num(h, u) * s.den <= s.num * Den(h, u)
          BY <3>2, <4>2 DEF OtsuInv
        <5>2. u \in Greys /\ s.num \in Nat /\ s.den \in Nat \ {0}
          BY <1>3, <1>4, <4>2 DEF OtsuStates
        <5>3. s.num * Den(h, t) <= Num(h, t) * s.den
          BY <2>5, <5>2, <1>5
        <5> QED
          BY <1>5, <5>1, <5>2, <5>3, AtMostTransitive
      <4> QED
        BY <1>4, <4>1, <4>2
    <3>3. OtsuInv(h, r, t + 1)
      BY <1>4, <1>7, <3>1, <3>2 DEF OtsuInv, n, w
    <3> QED
      BY <2>4, <2>5, <3>3
  <2>6. CASE ~(Num(h, t) * s.den > s.num * Den(h, t))
    <3> DEFINE r == [s EXCEPT !.wb = n, !.sb = w]
    <3>1. r \in OtsuStates /\ r.wb = n /\ r.sb = w /\ r.num = s.num /\ r.den = s.den /\ r.best = s.best
      BY <1>2, <1>3 DEF OtsuStates
    <3>2. s.num \in Nat /\ s.den \in Nat \ {0} /\ Num(h, t) \in Nat \ {0} /\ Den(h, t) \in Nat
      BY <1>3, <1>5, <1>7 DEF OtsuStates
    <3>3. Num(h, t) * s.den <= s.num * Den(h, t)
      BY <2>6, <3>2
    <3>4. s.num # 0
      BY <3>2, <3>3, PositiveBelow
    <3>5. /\ s.best \in 0 .. t - 1 /\ Split(h, s.best)
          /\ s.num = Num(h, s.best) /\ s.den = Den(h, s.best)
          /\ \A u \in 0 .. t - 1 : Split(h, u) => Num(h, u) * s.den <= s.num * Den(h, u)
      BY <3>4 DEF OtsuInv
    <3>6. OtsuInv(h, r, t + 1)
      BY <1>4, <3>1, <3>3, <3>5 DEF OtsuInv, n, w
    <3> QED
      BY <2>4, <2>6, <3>6
  <2> QED
    BY <2>5, <2>6
<1> QED
  BY <1>6, <1>7

\* So the loop ends with the best of all thresholds.
LEMMA OtsuInvEnd ==
  ASSUME NEW h \in Histograms
  PROVE  OtsuInv(h, OtsuLoop(h)[Levels], Levels)
<1> DEFINE T == {t \in Nat : t <= Levels => OtsuInv(h, OtsuLoop(h)[t], t)}
<1>1. 0 \in T
  BY OtsuInvStart, OtsuLoopSteps
<1>2. ASSUME NEW t \in Nat, t \in T PROVE t + 1 \in T
  <2> SUFFICES ASSUME t + 1 <= Levels PROVE OtsuInv(h, OtsuLoop(h)[t + 1], t + 1)
    OBVIOUS
  <2>1. t \in Greys /\ t <= Levels
    BY OcrAssumption DEF Greys
  <2>2. OtsuInv(h, OtsuLoop(h)[t], t)
    BY <1>2, <2>1
  <2> QED
    BY <2>1, <2>2, OtsuInvStep, OtsuLoopSteps
<1> HIDE DEF T
<1>3. Nat \subseteq T
  BY <1>1, <1>2, SetInduction
<1> QED
  BY <1>3, OcrAssumption DEF T

-----------------------------------------------------------------------------
(* The threshold is Otsu's *)

Squared(h) == [i \in Greys |-> i * i * h[i]]

LEMMA SquaredType == \A h \in Histograms : Squared(h) \in Histograms
<1> SUFFICES ASSUME NEW h \in Histograms, NEW i \in Greys PROVE i * i * h[i] \in Nat
  BY DEF Squared, Histograms
<1>1. i \in Nat /\ h[i] \in Nat
  BY GreysFinite DEF Histograms
<1> QED
  BY <1>1

\* The scatter inside the two classes and the gap between them add up to the
\* scatter of the page.
LEMMA ScatterIdentity ==
  ASSUME NEW a \in Int, NEW b \in Int, NEW p \in Int, NEW q \in Int, NEW x \in Int, NEW y \in Int
  PROVE  (a + b) * ((a * p - x * x) * b + (b * q - y * y) * a)
           = (a * b) * ((a + b) * (p + q) - (x + y) * (x + y)) - (x * b - y * a) * (x * b - y * a)
  OBVIOUS

\* The scatter of the whole page.
Spread(h) == Total(h) * SumFunction(Squared(h)) - Weight(h) * Weight(h)

LEMMA WithinByGap ==
  ASSUME NEW h \in Histograms, NEW t \in Greys
  PROVE  /\ Within(h, t).num \in Int /\ Within(h, t).den = Den(h, t) /\ Spread(h) \in Int
         /\ Total(h) * Within(h, t).num = Den(h, t) * Spread(h) - Num(h, t)
<1> DEFINE a == Upto(h, t + 1)
           b == Total(h) - a
           x == Upto(Weighted(h), t + 1)
           y == Weight(h) - x
           p == Upto(Squared(h), t + 1)
           q == SumFunction(Squared(h)) - p
<1>1. t + 1 \in 0 .. Levels /\ Weighted(h) \in Histograms /\ Squared(h) \in Histograms /\ (t + 1) - 1 = t
  BY GreysFinite, WeightedType, SquaredType
<1>2. /\ a \in Nat /\ Total(h) \in Nat
      /\ SumFunctionOnSet(h, 0 .. t) = a /\ SumFunctionOnSet(h, t + 1 .. White) = b
  BY <1>1, UptoNat, Totals DEF Upto
<1>3. /\ x \in Nat /\ Weight(h) \in Nat
      /\ SumFunctionOnSet(Weighted(h), 0 .. t) = x /\ SumFunctionOnSet(Weighted(h), t + 1 .. White) = y
  BY <1>1, UptoNat, Totals DEF Upto
<1>4. /\ p \in Nat /\ SumFunction(Squared(h)) \in Nat
      /\ SumFunctionOnSet(Squared(h), 0 .. t) = p /\ SumFunctionOnSet(Squared(h), t + 1 .. White) = q
  BY <1>1, UptoNat DEF Upto
<1>5. Scatter(h, 0 .. t) = a * p - x * x /\ Scatter(h, t + 1 .. White) = b * q - y * y
  <2>1. \A S : Scatter(h, S) = SumFunctionOnSet(h, S) * SumFunctionOnSet(Squared(h), S)
                                 - SumFunctionOnSet(Weighted(h), S) * SumFunctionOnSet(Weighted(h), S)
    BY DEF Scatter, Squared, Weighted
  <2> HIDE DEF a, b, x, y, p, q
  <2> QED
    BY <2>1, <1>2, <1>3, <1>4
<1>6. Within(h, t).num = (a * p - x * x) * b + (b * q - y * y) * a /\ Within(h, t).den = a * b
  <2>1. /\ Within(h, t).num = Scatter(h, 0 .. t) * (Total(h) - SumFunctionOnSet(h, 0 .. t))
                                + Scatter(h, t + 1 .. White) * SumFunctionOnSet(h, 0 .. t)
        /\ Within(h, t).den = SumFunctionOnSet(h, 0 .. t) * (Total(h) - SumFunctionOnSet(h, 0 .. t))
    BY DEF Within
  <2> QED
    BY <2>1, <1>2, <1>5
<1>7. Gap(h, t) = x * b - y * a /\ Den(h, t) = a * b /\ Num(h, t) = Gap(h, t) * Gap(h, t)
  BY DEF Gap, Den, Num
<1>8. Total(h) = a + b /\ Weight(h) = x + y /\ SumFunction(Squared(h)) = p + q
  BY <1>2, <1>3, <1>4
<1>9. a \in Int /\ b \in Int /\ x \in Int /\ y \in Int /\ p \in Int /\ q \in Int
  BY <1>2, <1>3, <1>4
<1>10. Spread(h) = (a + b) * (p + q) - (x + y) * (x + y)
  BY <1>8 DEF Spread
<1> HIDE DEF a, b, x, y, p, q
<1>11. Spread(h) \in Int /\ (a * p - x * x) * b + (b * q - y * y) * a \in Int
  BY <1>9, <1>10
<1>12. (a + b) * ((a * p - x * x) * b + (b * q - y * y) * a)
         = (a * b) * ((a + b) * (p + q) - (x + y) * (x + y)) - (x * b - y * a) * (x * b - y * a)
  BY <1>9, ScatterIdentity
<1> QED
  BY <1>6, <1>7, <1>8, <1>10, <1>11, <1>12

\* The larger the gap, the smaller the scatter inside the classes.
LEMMA GapOrder ==
  ASSUME NEW n \in Nat \ {0}, NEW k \in Int, NEW v \in Int, NEW w \in Int,
         NEW d \in Nat, NEW e \in Nat, NEW c \in Nat, NEW f \in Nat,
         n * v = d * k - c, n * w = e * k - f, f * d <= c * e
  PROVE  v * e <= w * d
<1>1. (n * v) * e = (d * k) * e - c * e /\ (n * w) * d = (e * k) * d - f * d
  OBVIOUS
<1>2. (d * k) * e = (e * k) * d
  OBVIOUS
<1>3. (n * v) * e = n * (v * e) /\ (n * w) * d = n * (w * d)
  OBVIOUS
<1>4. /\ (d * k) * e \in Int /\ c * e \in Int /\ f * d \in Int /\ v * e \in Int /\ w * d \in Int
      /\ n * (v * e) \in Int /\ n * (w * d) \in Int
  OBVIOUS
<1>5. n * (v * e) <= n * (w * d)
  BY <1>1, <1>2, <1>3, <1>4
<1> QED
  BY <1>4, <1>5

LEMMA SplitsIsSplit == \A h \in Histograms, t \in Greys : Splits(h, t) <=> Split(h, t)
<1> SUFFICES ASSUME NEW h \in Histograms, NEW t \in Greys PROVE Splits(h, t) <=> Split(h, t)
  OBVIOUS
<1>1. t + 1 \in 0 .. Levels /\ (t + 1) - 1 = t
  BY GreysFinite
<1>2. Upto(h, t + 1) \in Nat /\ Total(h) \in Nat /\ Upto(h, t + 1) <= Total(h)
  BY <1>1, UptoNat, Totals
<1>3. Upto(h, t + 1) = SumFunctionOnSet(h, 0 .. t)
  BY <1>1 DEF Upto
<1> QED
  BY <1>2, <1>3 DEF Split, Splits

\* Two shades are parted by the lower of them.
LEMMA ShownIsSplit ==
  ASSUME NEW h \in Histograms, Shows(h)
  PROVE  \E u \in Greys : Split(h, u)
<1>1. PICK i \in Greys, j \in Greys : i < j /\ h[i] > 0 /\ h[j] > 0
  BY GreysFinite DEF Shows
<1>2. i + 1 \in 0 .. Levels /\ 0 .. i \in SUBSET Greys /\ i + 1 .. White \in SUBSET Greys /\ (i + 1) - 1 = i
  <2>1. i + 1 \in 0 .. Levels /\ (i + 1) - 1 = i
    BY GreysFinite
  <2> QED
    BY <2>1, GreysFinite
<1>3. i \in 0 .. i /\ j \in i + 1 .. White
  BY <1>1, GreysFinite DEF Greys, White
<1>4. \A S \in SUBSET Greys : IsFiniteSet(S) /\ \A x \in S : h[x] \in Nat
  BY GreysFinite DEF Histograms
<1>5. SumFunctionOnSet(h, 0 .. i) > 0 /\ SumFunctionOnSet(h, i + 1 .. White) > 0
  BY <1>1, <1>2, <1>3, <1>4, SumNat
<1>6. /\ Upto(h, i + 1) = SumFunctionOnSet(h, 0 .. i) /\ SumFunctionOnSet(h, i + 1 .. White) = Total(h) - Upto(h, i + 1)
      /\ Upto(h, i + 1) \in Nat /\ Total(h) \in Nat
  BY <1>2, UptoNat, Totals DEF Upto
<1> QED
  BY <1>5, <1>6 DEF Split

LEMMA OtsuThreshold ==
  ASSUME NEW h \in Histograms, Shows(h)
  PROVE  /\ otsu_threshold(h) \in Greys /\ Split(h, otsu_threshold(h))
         /\ \A u \in Greys : Split(h, u) =>
              Num(h, u) * Den(h, otsu_threshold(h)) <= Num(h, otsu_threshold(h)) * Den(h, u)
<1>1. OtsuInv(h, OtsuLoop(h)[Levels], Levels)
  BY OtsuInvEnd
<1>2. Greys = 0 .. Levels - 1
  BY DEF Greys
<1> QED
  BY <1>1, <1>2, ShownIsSplit DEF OtsuInv, otsu_threshold

\* For every histogram with two shades the loop returns Otsu's threshold.
THEOREM OtsuIsBest ==
  ASSUME NEW h \in Histograms, Shows(h)
  PROVE  IsOtsu(h, otsu_threshold(h))
<1> DEFINE t == otsu_threshold(h)
<1>1. t \in Greys /\ Split(h, t)
  BY OtsuThreshold
<1>2. ASSUME NEW u \in Greys, Split(h, u)
      PROVE  Within(h, t).num * Within(h, u).den <= Within(h, u).num * Within(h, t).den
  <2>1. Num(h, u) * Den(h, t) <= Num(h, t) * Den(h, u)
    BY <1>2, OtsuThreshold
  <2> HIDE DEF t
  <2>2. /\ Num(h, t) \in Nat /\ Den(h, t) \in Nat /\ Num(h, u) \in Nat /\ Den(h, u) \in Nat
    BY <1>1, SplitPositive
  <2>3. Total(h) \in Nat \ {0}
    <3>1. Upto(h, t + 1) \in Nat /\ Total(h) \in Nat
      BY <1>1, UptoNat, Totals, GreysFinite
    <3> QED
      BY <1>1, <3>1 DEF Split
  <2>4. /\ Within(h, t).num \in Int /\ Within(h, t).den = Den(h, t) /\ Spread(h) \in Int
        /\ Total(h) * Within(h, t).num = Den(h, t) * Spread(h) - Num(h, t)
    BY <1>1, WithinByGap
  <2>5. /\ Within(h, u).num \in Int /\ Within(h, u).den = Den(h, u)
        /\ Total(h) * Within(h, u).num = Den(h, u) * Spread(h) - Num(h, u)
    BY WithinByGap
  <2> QED
    BY <2>1, <2>2, <2>3, <2>4, <2>5, GapOrder
<1> HIDE DEF t
<1> QED
  BY <1>1, <1>2, SplitsIsSplit DEF IsOtsu, t

-----------------------------------------------------------------------------
(* What is read of a page and of a file *)

LEMMA LeastOf ==
  ASSUME NEW T \in SUBSET Nat, T # {}
  PROVE  Min(T) \in T /\ \A n \in T : Min(T) <= n
<1>1. \E m \in T : \A n \in T : m <= n
  BY LeastNumber
<1> QED
  BY <1>1 DEF Min

\* The darkest level with a share of the pixels at or below it.
LEMMA LevelReached ==
  ASSUME NEW h \in Histograms, Total(h) > 0, NEW i \in Greys
  PROVE  /\ Total(h) \in Nat /\ Upto(h, i) \in Nat /\ Upto(h, i + 1) = Upto(h, i) + h[i] /\ h[i] \in Nat
         /\ \A percent \in Nat : Reaches(h, i, percent) <=> 100 * Upto(h, i + 1) >= percent * Total(h)
<1>1. i \in 0 .. Levels /\ i + 1 \in 0 .. Levels /\ (i + 1) - 1 = i
  BY GreysFinite
<1>2. Total(h) \in Nat /\ Upto(h, i) \in Nat
  BY <1>1, UptoNat, Totals
<1>3. Upto(h, i + 1) = Upto(h, i) + h[i] /\ h[i] \in Nat
  BY UptoSteps DEF Histograms
<1> QED
  BY <1>1, <1>2, <1>3 DEF Reaches, Upto

\* The level found for white has pixels.
LEMMA HighLevelShown ==
  ASSUME NEW h \in Histograms, Total(h) > 0
  PROVE  /\ HighLevel(h) \in Greys /\ Reaches(h, HighLevel(h), HighPercent)
         /\ h[HighLevel(h)] > 0
<1> DEFINE T == {i \in Greys : Reaches(h, i, HighPercent)}
           hi == HighLevel(h)
<1>1. HighPercent \in 1 .. 99
  BY OcrAssumption
<1>2. White \in T
  <2>1. White \in Greys /\ White + 1 = Levels
    BY GreysFinite, OcrAssumption DEF White
  <2>2. Upto(h, White + 1) = Total(h) /\ Total(h) \in Nat
    BY <2>1, UptoSteps, LevelReached, Totals
  <2>3. 100 * Total(h) >= HighPercent * Total(h)
    BY <1>1, <2>2
  <2> QED
    BY <1>1, <2>1, <2>2, <2>3, LevelReached
<1>3. T \in SUBSET Nat
  BY GreysFinite
<1>4. hi \in T /\ \A n \in T : hi <= n
  BY <1>2, <1>3, LeastOf DEF HighLevel
<1>5. /\ Total(h) \in Nat \ {0} /\ Upto(h, hi) \in Nat /\ Upto(h, hi + 1) = Upto(h, hi) + h[hi] /\ h[hi] \in Nat
      /\ 100 * Upto(h, hi + 1) >= HighPercent * Total(h)
  BY <1>1, <1>4, LevelReached
<1>6. ~(100 * Upto(h, hi) >= HighPercent * Total(h))
  <2>1. CASE hi = 0
    <3>1. Upto(h, hi) = 0
      BY <2>1, UptoSteps
    <3> QED
      BY <1>1, <1>5, <3>1
  <2>2. CASE hi # 0
    <3>0. hi \in Greys /\ \A n \in Greys : Reaches(h, n, HighPercent) => hi <= n
      BY <1>4
    <3> HIDE DEF hi, T
    <3>1. hi - 1 \in Greys /\ (hi - 1) + 1 = hi /\ hi - 1 < hi
      BY <2>2, <3>0, OcrAssumption DEF Greys
    <3>2. ~Reaches(h, hi - 1, HighPercent)
      BY <3>0, <3>1, GreysFinite
    <3> QED
      BY <1>1, <3>1, <3>2, LevelReached
  <2> QED
    BY <2>1, <2>2
<1> HIDE DEF hi
<1>7. h[hi] # 0
  BY <1>5, <1>6
<1> QED
  BY <1>4, <1>5, <1>7 DEF hi

\* Where the levels have not met, a pixel is stretched to black and one to white.
LEMMA LowLevelShown ==
  ASSUME NEW h \in Histograms, Total(h) > 0, HighLevel(h) > LowLevel(h)
  PROVE  /\ LowLevel(h) \in Greys
         /\ \E i \in Greys : i <= LowLevel(h) /\ h[i] > 0
<1> DEFINE hi == HighLevel(h)
           T == {i \in 1 .. hi : Reaches(h, i, LowPercent)}
           lo == LowLevel(h)
<1>1. LowPercent \in 1 .. 99 /\ HighPercent \in 1 .. 99 /\ LowPercent < HighPercent
  BY OcrAssumption
<1>2. hi \in Greys /\ Reaches(h, hi, HighPercent)
  BY HighLevelShown
<1>3. lo = IF T = {} THEN 0 ELSE Min(T)
  BY DEF LowLevel
<1> HIDE DEF lo, hi
<1>4. hi # 0
  <2>1. CASE T = {}
    BY <1>2, <1>3, <2>1, GreysFinite DEF hi, lo
  <2>2. CASE T # {}
    BY <1>2, <2>2, GreysFinite
  <2> QED
    BY <2>1, <2>2
<1>5. hi \in T
  <2>1. Total(h) \in Nat /\ Upto(h, hi + 1) \in Nat /\ 100 * Upto(h, hi + 1) >= HighPercent * Total(h)
    BY <1>1, <1>2, LevelReached
  <2>2. HighPercent * Total(h) >= LowPercent * Total(h)
    BY <1>1, <2>1
  <2>3. 100 * Upto(h, hi + 1) >= LowPercent * Total(h)
    BY <1>1, <2>1, <2>2
  <2>4. Reaches(h, hi, LowPercent)
    BY <1>1, <1>2, <2>3, LevelReached
  <2> QED
    BY <1>2, <1>4, <2>4, GreysFinite
<1>6. T \in SUBSET Greys /\ T \in SUBSET Nat
  BY <1>2, OcrAssumption DEF Greys
<1>7. lo \in T
  BY <1>3, <1>5, <1>6, LeastOf
<1>8. lo \in Greys /\ lo \in Nat
  BY <1>6, <1>7
<1>9. SumFunctionOnSet(h, 0 .. lo) > 0
  <2>1. /\ 100 * Upto(h, lo + 1) >= LowPercent * Total(h) /\ Upto(h, lo + 1) \in Nat /\ Total(h) \in Nat \ {0}
    BY <1>1, <1>7, <1>8, LevelReached
  <2>2. LowPercent * Total(h) > 0
    BY <1>1, <2>1
  <2>3. Upto(h, lo + 1) > 0
    BY <1>1, <2>1, <2>2
  <2>4. (lo + 1) - 1 = lo
    BY <1>8
  <2> QED
    BY <2>3, <2>4 DEF Upto
<1>10. 0 .. lo \in SUBSET Greys
  BY <1>8, OcrAssumption DEF Greys
<1>11. IsFiniteSet(0 .. lo) /\ \A x \in 0 .. lo : h[x] \in Nat
  BY <1>10, GreysFinite DEF Histograms
<1>12. \E i \in 0 .. lo : h[i] > 0
  BY <1>9, <1>11, SumNat
<1> QED
  BY <1>8, <1>10, <1>12 DEF lo

\* The levels of a page after a table is applied are the images of its levels.
LEMMA EnhancedPixels ==
  ASSUME NEW h \in Histograms
  PROVE  /\ Enhanced(h) \in Histograms
         /\ \A g \in Greys : Enhanced(h)[g] > 0 <=>
              \E i \in Greys : build_contrast_stretch_lut(h)[i] = g /\ h[i] > 0
<1> DEFINE lut == build_contrast_stretch_lut(h)
           From(g) == {i \in Greys : lut[i] = g}
<1>1. Enhanced(h) = [g \in Greys |-> SumFunctionOnSet(h, From(g))]
  BY DEF Enhanced
<1> HIDE DEF lut
<1>2. \A g : IsFiniteSet(From(g)) /\ \A x \in From(g) : h[x] \in Nat
  BY GreysFinite DEF Histograms
<1>3. \A g : /\ SumFunctionOnSet(h, From(g)) \in Nat
             /\ SumFunctionOnSet(h, From(g)) > 0 <=> \E x \in From(g) : h[x] > 0
  BY <1>2, SumNat
<1> HIDE DEF From
<1>4. Enhanced(h) \in Histograms
  BY <1>1, <1>3 DEF Histograms
<1>5. \A g \in Greys : Enhanced(h)[g] > 0 <=> \E x \in From(g) : h[x] > 0
  BY <1>1, <1>3
<1> QED
  BY <1>4, <1>5 DEF lut, From

\* The stretch blanks no page that shows something, and invents nothing.
LEMMA EnhancedShows ==
  ASSUME NEW h \in Histograms
  PROVE  Shows(Enhanced(h)) <=> Shows(h)
<1> DEFINE lut == build_contrast_stretch_lut(h)
           e == Enhanced(h)
<1>1. \A g \in Greys : e[g] > 0 <=> \E i \in Greys : lut[i] = g /\ h[i] > 0
  BY EnhancedPixels
<1>2. ASSUME Shows(e) PROVE Shows(h)
  <2> HIDE DEF lut, e
  <2>1. PICK a \in Greys, b \in Greys : a # b /\ e[a] > 0 /\ e[b] > 0
    BY <1>2 DEF Shows
  <2>2. PICK i \in Greys : lut[i] = a /\ h[i] > 0
    BY <1>1, <2>1
  <2>3. PICK j \in Greys : lut[j] = b /\ h[j] > 0
    BY <1>1, <2>1
  <2> QED
    BY <2>1, <2>2, <2>3 DEF Shows
<1>3. ASSUME Shows(h) PROVE Shows(e)
  <2>1. CASE lut = Identity
    <3> HIDE DEF lut, e
    <3>1. PICK i \in Greys, j \in Greys : i # j /\ h[i] > 0 /\ h[j] > 0
      BY <1>3 DEF Shows
    <3>2. lut[i] = i /\ lut[j] = j
      BY <2>1 DEF Identity
    <3> QED
      BY <1>1, <3>1, <3>2 DEF Shows
  <2>2. CASE lut # Identity
    <3>1. Total(h) # 0 /\ ~(HighLevel(h) <= LowLevel(h)) /\ lut = Stretch(LowLevel(h), HighLevel(h))
      BY <2>2 DEF build_contrast_stretch_lut
    <3>2. Total(h) \in Nat
      BY UptoNat, Totals, GreysFinite
    <3>3. HighLevel(h) \in Greys /\ h[HighLevel(h)] > 0
      BY <3>1, <3>2, HighLevelShown
    <3>4. HighLevel(h) > LowLevel(h)
      <4>1. LowLevel(h) \in Nat
        <5> DEFINE T == {i \in 1 .. HighLevel(h) : Reaches(h, i, LowPercent)}
        <5>1. LowLevel(h) = IF T = {} THEN 0 ELSE Min(T)
          BY DEF LowLevel
        <5>2. T \in SUBSET Nat
          OBVIOUS
        <5> QED
          BY <5>1, <5>2, LeastOf
      <4>2. HighLevel(h) \in Nat
        BY <3>3, GreysFinite
      <4>3. ~(HighLevel(h) <= LowLevel(h))
        BY <3>1
      <4> HIDE DEF lut, e
      <4> QED
        BY <4>1, <4>2, <4>3
    <3>5. LowLevel(h) \in Greys /\ \E i \in Greys : i <= LowLevel(h) /\ h[i] > 0
      BY <3>1, <3>2, <3>4, LowLevelShown
    <3>6. PICK i \in Greys : i <= LowLevel(h) /\ h[i] > 0
      BY <3>5
    <3> DEFINE j == HighLevel(h)
    <3>7. lut[i] = 0
      BY <3>1, <3>6 DEF Stretch
    <3>8. lut[j] = White
      <4>1. j \in Greys /\ j \in Nat /\ LowLevel(h) \in Nat /\ j > LowLevel(h)
        BY <3>3, <3>4, <3>5, GreysFinite
      <4> HIDE DEF lut, e
      <4>2. lut[j] = IF j <= LowLevel(h) THEN 0 ELSE IF j >= HighLevel(h) THEN White
                     ELSE ((j - LowLevel(h)) * White) \div (HighLevel(h) - LowLevel(h))
        BY <3>1, <4>1 DEF Stretch
      <4>3. ~(j <= LowLevel(h)) /\ j >= HighLevel(h)
        BY <4>1
      <4> QED
        BY <4>2, <4>3
    <3>9. 0 \in Greys /\ White \in Greys /\ 0 # White
      BY GreysFinite, OcrAssumption DEF White
    <3> HIDE DEF lut, e, j
    <3>10. e[0] > 0 /\ e[White] > 0
      BY <1>1, <3>3, <3>6, <3>7, <3>8, <3>9 DEF j
    <3> QED
      BY <3>9, <3>10 DEF Shows
  <2> QED
    BY <2>1, <2>2
<1> QED
  BY <1>2, <1>3

LEMMA ColourCount ==
  /\ \A a, b : a # b => Cardinality({a, b}) = 2
  /\ \A c : Cardinality({c}) = 1
  /\ Cardinality({}) = 0
<1>1. ASSUME NEW a, NEW b, a # b PROVE Cardinality({a, b}) = 2
  <2>1. IsFiniteSet({a}) /\ Cardinality({a}) = 1 /\ b \notin {a} /\ {a} \union {b} = {a, b}
    BY <1>1, FS_Singleton
  <2>2. Cardinality({a} \union {b}) = Cardinality({a}) + 1
    BY <2>1, FS_AddElement
  <2> QED
    BY <2>1, <2>2
<1>2. \A c : Cardinality({c}) = 1
  BY FS_Singleton
<1>3. Cardinality({}) = 0
  BY FS_EmptySet
<1> QED
  BY <1>1, <1>2, <1>3

\* A page has both colours after preprocessing exactly when it shows something.
LEMMA TwoColours ==
  ASSUME NEW h \in Histograms
  PROVE  Cardinality(preprocess_image(h)) = 2 <=> Shows(h)
<1> DEFINE e == Enhanced(h)
           t == otsu_threshold(e)
           Grey == {i \in Greys : e[i] > 0}
           P == preprocess_image(h)
<1>1. P = {IF g > t THEN White ELSE 0 : g \in Grey}
  BY DEF preprocess_image
<1>2. e \in Histograms
  BY EnhancedPixels
<1> HIDE DEF P, t
<1>3. ASSUME Shows(h) PROVE Cardinality(P) = 2
  <2>1. Shows(e)
    BY <1>3, EnhancedShows
  <2> HIDE DEF e
  <2>2. t \in Greys /\ Split(e, t)
    BY <1>2, <2>1, OtsuThreshold DEF t
  <2>3. /\ 0 .. t \in SUBSET Greys /\ t + 1 .. White \in SUBSET Greys /\ (t + 1) - 1 = t /\ t \in Nat
        /\ t + 1 \in 0 .. Levels
    BY <2>2, OcrAssumption DEF Greys, White
  <2>4. \A S \in SUBSET Greys : IsFiniteSet(S) /\ \A x \in S : e[x] \in Nat
    BY <1>2, GreysFinite DEF Histograms
  <2>5. SumFunctionOnSet(e, 0 .. t) > 0 /\ SumFunctionOnSet(e, t + 1 .. White) > 0
    <3>1. SumFunctionOnSet(e, t + 1 .. White) = Total(e) - Upto(e, t + 1) /\ Upto(e, t + 1) \in Nat /\ Total(e) \in Nat
      BY <1>2, <2>3, UptoNat, Totals
    <3>2. Upto(e, t + 1) = SumFunctionOnSet(e, 0 .. t)
      BY <2>3 DEF Upto
    <3> QED
      BY <2>2, <3>1, <3>2 DEF Split
  <2>6. PICK a \in 0 .. t : e[a] > 0
    BY <2>3, <2>4, <2>5, SumNat
  <2>7. PICK b \in t + 1 .. White : e[b] > 0
    BY <2>3, <2>4, <2>5, SumNat
  <2>8. a \in Grey /\ b \in Grey
    BY <2>3, <2>6, <2>7
  <2>9. a \in Int /\ b \in Int /\ ~(a > t) /\ b > t
    BY <2>3
  <2>10. P = {White, 0}
    <3>1. White \in P /\ 0 \in P
      BY <1>1, <2>8, <2>9
    <3> QED
      BY <1>1, <3>1
  <2>11. White # 0
    BY OcrAssumption DEF White
  <2> QED
    BY <2>10, <2>11, ColourCount
<1>4. ASSUME ~Shows(h) PROVE Cardinality(P) # 2
  <2>1. ~Shows(e)
    BY <1>4, EnhancedShows
  <2> HIDE DEF e
  <2>2. \A a, b \in Grey : a = b
    BY <2>1 DEF Shows
  <2>3. CASE Grey = {}
    <3>1. P = {}
      BY <1>1, <2>3
    <3> QED
      BY <3>1, ColourCount
  <2>4. CASE Grey # {}
    <3>1. PICK a \in Grey : TRUE
      BY <2>4
    <3> DEFINE c == IF a > t THEN White ELSE 0
    <3>2. Grey = {a}
      BY <2>2, <3>1
    <3> HIDE DEF Grey, c
    <3>3. P = {c}
      BY <1>1, <3>2 DEF c
    <3>4. Cardinality({c}) = 1
      BY ColourCount
    <3> HIDE DEF P
    <3> QED
      BY <3>3, <3>4
  <2> QED
    BY <2>3, <2>4
<1> QED
  BY <1>3, <1>4 DEF P

\* A page of a file.
PageRecords == [words : SUBSET Vocabulary, grey : Histograms, raises : BOOLEAN]

LEMMA FilePages ==
  ASSUME NEW f \in Files
  PROVE  \A p \in DOMAIN f.pages : /\ f.pages[p] \in PageRecords
                                   /\ f.pages[p].words \in SUBSET Vocabulary /\ f.pages[p].grey \in Histograms
<1>1. f.pages \in Seq(PageRecords)
  BY FilesAssumption DEF PageRecords, Histograms
<1>2. \A p \in DOMAIN f.pages : f.pages[p] \in PageRecords
  BY <1>1
<1> QED
  BY <1>2 DEF PageRecords

LEMMA TextShown ==
  ASSUME NEW texts
  PROVE  full_text(texts) # {} <=> \E i \in DOMAIN texts : texts[i] # {}
BY DEF full_text

\* A readable scan: no page raises, and one that shows something has words.
LEMMA ScanRead ==
  ASSUME NEW f \in Files
  PROVE  /\ tesseract_extract(f) \in SUBSET Vocabulary
         /\ tesseract_extract(f) # {} <=>
              /\ f.content = "image" /\ ~Raises(f)
              /\ \E p \in DOMAIN f.pages : f.pages[p].words # {} /\ Shows(f.pages[p].grey)
<1> DEFINE texts == [p \in DOMAIN f.pages |-> ocr_page(f.pages[p])]
<1>1. \A p \in DOMAIN f.pages :
        /\ texts[p] \in SUBSET Vocabulary
        /\ texts[p] # {} <=> f.pages[p].words # {} /\ Shows(f.pages[p].grey)
  <2> TAKE p \in DOMAIN f.pages
  <2>1. f.pages[p].words \in SUBSET Vocabulary /\ f.pages[p].grey \in Histograms
    BY FilePages
  <2>2. Cardinality(preprocess_image(f.pages[p].grey)) = 2 <=> Shows(f.pages[p].grey)
    BY <2>1, TwoColours
  <2>3. texts[p] = IF Cardinality(preprocess_image(f.pages[p].grey)) = 2 THEN f.pages[p].words ELSE {}
    BY DEF ocr_page
  <2> HIDE DEF texts
  <2> QED
    BY <2>1, <2>2, <2>3
<1>2. DOMAIN texts = DOMAIN f.pages
  OBVIOUS
<1>3. tesseract_extract(f) = IF f.content # "image" \/ Raises(f) THEN {} ELSE full_text(texts)
  BY DEF tesseract_extract
<1> HIDE DEF texts
<1>4. full_text(texts) \in SUBSET Vocabulary
  BY <1>1, <1>2 DEF full_text
<1>5. full_text(texts) # {} <=> \E p \in DOMAIN f.pages : f.pages[p].words # {} /\ Shows(f.pages[p].grey)
  BY <1>1, <1>2, TextShown
<1> QED
  BY <1>3, <1>4, <1>5

LEMMA WordsShown ==
  ASSUME NEW f \in Files
  PROVE  /\ full_text(Words(f)) \in SUBSET Vocabulary
         /\ full_text(Words(f)) # {} <=> \E p \in DOMAIN f.pages : f.pages[p].words # {}
<1>1. DOMAIN Words(f) = DOMAIN f.pages /\ \A p \in DOMAIN f.pages : Words(f)[p] = f.pages[p].words
  BY DEF Words
<1>2. full_text(Words(f)) \in SUBSET Vocabulary
  BY <1>1, FilePages DEF full_text
<1> QED
  BY <1>1, <1>2, TextShown

\* The dispatch reads a file exactly when there is something to read in it.
THEOREM ReadIffReadable ==
  ASSUME NEW f \in Files
  PROVE  /\ extract_text(f) \in SUBSET Vocabulary
         /\ extract_text(f) # {} <=> Readable(f)
<1> DEFINE Typed == \E p \in DOMAIN f.pages : f.pages[p].words # {}
           Scanned == \E p \in DOMAIN f.pages : f.pages[p].words # {} /\ Shows(f.pages[p].grey)
<1>1. /\ full_text(Words(f)) \in SUBSET Vocabulary
      /\ full_text(Words(f)) # {} <=> Typed
  BY WordsShown
<1>2. /\ tesseract_extract(f) \in SUBSET Vocabulary
      /\ tesseract_extract(f) # {} <=> f.content = "image" /\ ~Raises(f) /\ Scanned
  BY ScanRead
<1>3. /\ pdfplumber_extract(f) \in SUBSET Vocabulary
      /\ pdfplumber_extract(f) # {} <=> f.content = "pdf" /\ ~Raises(f) /\ Typed
  BY <1>1 DEF pdfplumber_extract
<1>4. Readable(f) <=>
        \/ f.mime = "text" /\ (f.content = "text" => Typed)
        \/ /\ ~Raises(f)
           /\ f.mime = "pdf" => f.content \in {"pdf", "image"}
           /\ f.mime # "pdf" => f.mime # "text" /\ f.content = "image"
           /\ IF f.content = "image" THEN Scanned ELSE Typed
  BY DEF Readable
<1> HIDE DEF Typed, Scanned
<1>5. CASE f.mime = "text"
  <2>1. extract_text(f) = IF f.content = "text" THEN full_text(Words(f)) ELSE {"other"}
    BY <1>5 DEF extract_text
  <2>2. {"other"} \in SUBSET Vocabulary /\ {"other"} # {}
    BY DEF Vocabulary
  <2> QED
    BY <1>1, <1>4, <1>5, <2>1, <2>2
<1>6. CASE f.mime = "pdf"
  <2>1. extract_text(f) = IF pdfplumber_extract(f) # {} THEN pdfplumber_extract(f) ELSE tesseract_extract(f)
    BY <1>6 DEF extract_text
  <2> QED
    BY <1>2, <1>3, <1>4, <1>6, <2>1
<1>7. CASE f.mime \notin {"text", "pdf"}
  <2>1. extract_text(f) = tesseract_extract(f)
    BY <1>7 DEF extract_text
  <2> QED
    BY <1>2, <1>4, <1>7, <2>1
<1> QED
  BY <1>5, <1>6, <1>7

(***************************************************************************)
(* The answers of the providers                                            *)
(***************************************************************************)
\* What a provider may answer; a careful answer is flagged when a word is uncertain.
Results == [category : Categories, confidence : Nat, amount : BOOLEAN, needs_review : BOOLEAN]
Careful(words) ==
  {r \in Results : "maybe" \in words /\ r.confidence >= CONFIDENCE_REVIEW_THRESHOLD => r.needs_review}

\* With an uncertain word no confident answer of the offline provider is unflagged.
LEMMA TriggerIsCareful ==
  ASSUME NEW words, NEW r \in Results
  PROVE  apply_trigger(r, words) \in Careful(words)
BY DEF apply_trigger, Careful, Results, CONFIDENCE_REVIEW_THRESHOLD

LEMMA KeywordIsCareful ==
  ASSUME NEW words, NEW keyword \in Keywords
  PROVE  MockResult(keyword, words) \in Seq(Careful(words))
<1>1. MockResults[keyword] \in Results
  <2>1. /\ MockResults["salary"] = Result("salary_wages", 95, FALSE)
        /\ MockResults["tools"] = Result("tools_equipment", 70, TRUE)
        /\ MockResults["wfh"] = Result("work_from_home", 65, TRUE)
        /\ MockResults["bas"] = Result("out_of_scope", 85, TRUE)
        /\ MockResults["donation"] = Result("donation", 80, FALSE)
        /\ MockResults["union"] = Result("union_fee", 90, FALSE)
    BY DEF MockResults
  <2>2. Result("salary_wages", 95, FALSE) \in Results
    BY DEF Result, Results, Categories
  <2>3. Result("tools_equipment", 70, TRUE) \in Results
    BY DEF Result, Results, Categories
  <2>4. Result("work_from_home", 65, TRUE) \in Results
    BY DEF Result, Results, Categories
  <2>5. Result("out_of_scope", 85, TRUE) \in Results
    BY DEF Result, Results, Categories
  <2>6. Result("donation", 80, FALSE) \in Results
    BY DEF Result, Results, Categories
  <2>7. Result("union_fee", 90, FALSE) \in Results
    BY DEF Result, Results, Categories
  <2> QED
    BY <2>1, <2>2, <2>3, <2>4, <2>5, <2>6, <2>7 DEF Keywords
<1>2. apply_trigger(MockResults[keyword], words) \in Careful(words)
  BY <1>1, TriggerIsCareful
<1> HIDE DEF Careful
<1>3. \A x \in Careful(words) : <<x>> \in Seq(Careful(words))
  OBVIOUS
<1>4. << >> \in Seq(Careful(words))
  OBVIOUS
<1> QED
  BY <1>2, <1>3, <1>4 DEF MockResult

LEMMA MockIsCareful ==
  ASSUME NEW words
  PROVE  mock_classify(words) \in Seq(Careful(words)) /\ mock_classify(words) # <<>>
<1> DEFINE S == Seq(Careful(words))
           R(w) == MockResult(w, words)
<1>1. R("salary") \in S /\ R("tools") \in S /\ R("wfh") \in S /\ R("bas") \in S /\ R("donation") \in S /\ R("union") \in S
  BY KeywordIsCareful DEF Keywords
<1>2. <<Result("needs_review", 50, TRUE)>> \in S /\ <<Result("needs_review", 50, TRUE)>> # <<>>
  <2> DEFINE r == Result("needs_review", 50, TRUE)
  <2>1. r \in Careful(words)
    BY DEF Result, Careful, Results, Categories, CONFIDENCE_REVIEW_THRESHOLD
  <2> HIDE DEF r, Careful
  <2>2. <<r>> \in S /\ <<r>> # <<>>
    BY <2>1
  <2> QED
    BY <2>2 DEF r
<1> DEFINE found == R("salary") \o R("tools") \o R("wfh") \o R("bas") \o R("donation") \o R("union")
<1>3. mock_classify(words) = IF found = <<>> THEN <<Result("needs_review", 50, TRUE)>> ELSE found
  BY DEF mock_classify
<1> HIDE DEF R
<1>4. found \in S
  BY <1>1
<1> HIDE DEF found, S
<1> QED
  BY <1>2, <1>3, <1>4 DEF S

\* Whatever a cloud service sends, what is built from it is a result.
LEMMA CloudResult ==
  ASSUME NEW raw \in Raws, parse_json_response(raw) # None, parse_json_response(raw).confidence # Unreadable
  PROVE  build_classification_result(parse_json_response(raw)) \in Results
<1> DEFINE reply == parse_json_response(raw)
<1>1. reply \in Replies
  BY DEF parse_json_response, Raws
<1>2. reply.category \in {"work_from_home", "foreign_income", None} /\ reply.amount \in BOOLEAN
      /\ reply.confidence \in {None, Unreadable, 65, 70, 9500}
  BY <1>1 DEF Replies
<1> HIDE DEF reply
<1> QED
  BY <1>2 DEF build_classification_result, Results, Categories, reply

LEMMA UnparsedResult == Unparsed \in Results
BY DEF Unparsed, Result, Results, Categories

\* The item made of a result: of its category, unreviewed, and flagged when the
\* provider flagged it or was not sure of it.
LEMMA StoredItem ==
  ASSUME NEW r \in Results
  PROVE  /\ Stored(apply_review_rules(r)) \in ItemRecords /\ Stored(apply_review_rules(r)).reviewed_by = None
         /\ ~Stored(apply_review_rules(r)).needs_review =>
              ~r.needs_review /\ r.confidence >= CONFIDENCE_REVIEW_THRESHOLD
<1> DEFINE a == apply_review_rules(r)
<1>1. a \in Results /\ (~a.needs_review => ~r.needs_review /\ r.confidence >= CONFIDENCE_REVIEW_THRESHOLD)
  <2>1. r.confidence \in Nat /\ r.needs_review \in BOOLEAN
    BY DEF Results
  <2>2. CASE r.confidence < CONFIDENCE_REVIEW_THRESHOLD
    <3>1. a = [r EXCEPT !.needs_review = TRUE]
      BY <2>2 DEF apply_review_rules
    <3> QED
      BY <3>1 DEF Results
  <2>3. CASE ~(r.confidence < CONFIDENCE_REVIEW_THRESHOLD)
    <3>1. a = r
      BY <2>3 DEF apply_review_rules
    <3> QED
      BY <2>1, <2>3, <3>1 DEF CONFIDENCE_REVIEW_THRESHOLD
  <2> QED
    BY <2>2, <2>3
<1> HIDE DEF a
<1>2. /\ Stored(a) \in ItemRecords /\ Stored(a).reviewed_by = None
      /\ Stored(a).needs_review = a.needs_review
  BY <1>1 DEF Results, Stored, ItemRecords, ReviewStatuses
<1> QED
  BY <1>1, <1>2 DEF a

(***************************************************************************)
(* The inductive invariant                                                 *)
(***************************************************************************)
\* The task that reads and classifies the document is not over.
Open == {"uploaded", "items_detected"}

\* The bytes of a file are held only by the task that reads it, and until it is
\* over there are no items.
HeldWhileOpen == file # None => status \in Open /\ items = <<>> /\ answers = <<>>

\* An item is the work of the user or of the provider: then it is what the
\* review rules made of the answer with its number.
ItemsOfAnswers ==
  \A i \in DOMAIN items :
    \/ items[i].reviewed_by = "user" /\ items[i].needs_review = NeedsReview(items[i].review_status)
    \/ i \in DOMAIN answers /\ items[i] = Stored(apply_review_rules(answers[i]))

\* The offline provider has seen the uncertain words.
AnswersAreCareful ==
  \A i \in DOMAIN answers : provider.name = "mock" => answers[i] \in Careful(text)

\* The inductive invariant.
IInv ==
  /\ TypeOK
  /\ items \in Seq(ItemRecords) /\ answers \in Seq(Results)
  /\ HeldWhileOpen
  /\ ItemsOfAnswers
  /\ AnswersAreCareful

LEMMA InitHolds == Init => IInv
<1> SUFFICES ASSUME Init PROVE IInv
  OBVIOUS
<1> USE DEF Init
<1>1. file # None /\ items = <<>> /\ answers = <<>> /\ status = "uploaded" /\ text = None
  BY FilesAssumption
<1>2. TypeOK
  BY <1>1, DecisionsAssumption DEF TypeOK, DocStatuses
<1>3. HeldWhileOpen /\ ItemsOfAnswers /\ AnswersAreCareful
  BY <1>1 DEF HeldWhileOpen, ItemsOfAnswers, AnswersAreCareful, Open
<1> QED
  BY <1>1, <1>2, <1>3 DEF IInv

\* A step without items and answers keeps it when file, text and status agree.
LEMMA EmptyKeeps ==
  ASSUME IInv, items = <<>>, answers = <<>>, UNCHANGED <<provider, answers, items, decisions>>,
         file' = None \/ (file' \in Files /\ status' \in Open), text' = None \/ text' \in SUBSET Vocabulary,
         status' \in DocStatuses, text' = None <=> status' \in {"uploaded", "text_extracted"}
  PROVE  IInv'
<1>1. items' = <<>> /\ answers' = <<>>
  OBVIOUS
<1>2. TypeOK'
  BY <1>1 DEF IInv, TypeOK
<1>3. HeldWhileOpen'
  BY <1>1 DEF HeldWhileOpen
<1>4. (ItemsOfAnswers /\ AnswersAreCareful)'
  BY <1>1 DEF ItemsOfAnswers, AnswersAreCareful
<1> QED
  BY <1>1, <1>2, <1>3, <1>4 DEF IInv

\* What an open task holds.
LEMMA OpenTask ==
  ASSUME IInv, file # None
  PROVE  file \in Files /\ status \in Open /\ items = <<>> /\ answers = <<>>
BY DEF IInv, TypeOK, HeldWhileOpen

LEMMA ExtractKeeps ==
  ASSUME IInv, Extract
  PROVE  IInv'
<1>1. file \in Files /\ items = <<>> /\ answers = <<>> /\ UNCHANGED <<provider, answers, items, decisions>>
  BY OpenTask DEF Extract
<1>2. extract_text(file) \in SUBSET Vocabulary /\ extract_text(file) # None
  BY <1>1, ReadIffReadable, FilesAssumption
<1>3. \/ text' = extract_text(file) /\ status' = "items_detected" /\ file' = file
      \/ text' = extract_text(file) /\ status' = "needs_review" /\ file' = None
      \/ text' = None /\ status' = "text_extracted" /\ file' = None
  BY DEF Extract
<1> QED
  BY <1>1, <1>2, <1>3, EmptyKeeps DEF DocStatuses, Open

LEMMA InterruptedKeeps ==
  ASSUME IInv, Interrupted
  PROVE  IInv'
<1>1. items = <<>> /\ answers = <<>> /\ UNCHANGED <<provider, answers, items, decisions>> /\ file' = None
  BY OpenTask DEF Interrupted
<1>2. UNCHANGED <<text, status>> \/ (text' = None /\ status' = "uploaded")
  BY DEF Interrupted
<1>3. /\ text = None \/ text \in SUBSET Vocabulary
      /\ status \in DocStatuses /\ (text = None <=> status \in {"uploaded", "text_extracted"})
  BY DEF IInv, TypeOK
<1> QED
  BY <1>1, <1>2, <1>3, EmptyKeeps DEF DocStatuses

\* The items made of results fit their answers.
LEMMA AnswerKeeps ==
  ASSUME IInv, status = "items_detected", NEW results \in Seq(Results), Answer(results), results # <<>>,
         \A i \in DOMAIN results : provider.name = "mock" => results[i] \in Careful(text)
  PROVE  /\ items' \in Seq(ItemRecords) /\ answers' \in Seq(Results) /\ items' # <<>>
         /\ ItemsOfAnswers' /\ \A i \in DOMAIN answers' : provider.name = "mock" => answers'[i] \in Careful(text)
<1>1. \A i \in DOMAIN results : results[i] \in Results
  OBVIOUS
<1>2. answers' = results /\ items' = [i \in DOMAIN results |-> Stored(apply_review_rules(results[i]))]
  BY DEF Answer
<1>3. \A i \in DOMAIN results : Stored(apply_review_rules(results[i])) \in ItemRecords
  BY <1>1, StoredItem
<1>4. PICK n \in Nat : DOMAIN results = 1 .. n /\ Len(results) = n
  OBVIOUS
<1>5. n # 0
  BY <1>4
<1>6. items' \in [1 .. n -> ItemRecords]
  BY <1>2, <1>3, <1>4
<1>7. items' \in Seq(ItemRecords) /\ DOMAIN items' = 1 .. n
  BY <1>6
<1>8. items' # <<>>
  BY <1>5, <1>7
<1>9. ItemsOfAnswers'
  BY <1>2 DEF ItemsOfAnswers
<1> QED
  BY <1>2, <1>7, <1>8, <1>9

\* Every way through the classification keeps the invariant.
LEMMA ClassifyKeeps ==
  ASSUME IInv, Classify
  PROVE  IInv'
<1>1. /\ status = "items_detected" /\ file' = None /\ text' = text /\ provider' = provider /\ decisions' = decisions
      /\ text # None /\ items = <<>>
  BY OpenTask DEF Classify, IInv, TypeOK
<1>2. ASSUME status' \in {"needs_review", "classification_failed", "classified", "items_detected"},
             items' \in Seq(ItemRecords), answers' \in Seq(Results), ItemsOfAnswers', AnswersAreCareful'
      PROVE  IInv'
  <2>1. \A i \in DOMAIN items' : items'[i] \in ItemRecords
    BY <1>2
  <2>2. TypeOK'
    BY <1>1, <1>2, <2>1 DEF IInv, TypeOK, DocStatuses
  <2>3. HeldWhileOpen'
    BY <1>1 DEF HeldWhileOpen
  <2> QED
    BY <1>2, <2>2, <2>3 DEF IInv
<1>3. ASSUME UNCHANGED <<answers, items>>, status' \in {"needs_review", "classification_failed", "items_detected"}
      PROVE  IInv'
  <2>1. (ItemsOfAnswers /\ AnswersAreCareful)'
    BY <1>1, <1>3 DEF IInv, ItemsOfAnswers, AnswersAreCareful
  <2>2. items' \in Seq(ItemRecords) /\ answers' \in Seq(Results)
    BY <1>3 DEF IInv
  <2> QED
    BY <1>2, <1>3, <2>1, <2>2
<1>4. ASSUME NEW results \in Seq(Results), Answer(results), results # <<>>,
             \A i \in DOMAIN results : provider.name = "mock" => results[i] \in Careful(text),
             Verdict(IF items' = <<>> THEN "no_items" ELSE "classified")
      PROVE  IInv'
  <2>1. /\ items' \in Seq(ItemRecords) /\ answers' \in Seq(Results) /\ items' # <<>>
        /\ ItemsOfAnswers' /\ \A i \in DOMAIN answers' : provider.name = "mock" => answers'[i] \in Careful(text)
    BY <1>1, <1>4, AnswerKeeps
  <2>2. status' \in {"classified", "items_detected"}
    BY <1>1, <1>4, <2>1 DEF Verdict, StatusAfter
  <2>3. AnswersAreCareful'
    BY <1>1, <2>1 DEF AnswersAreCareful
  <2> QED
    BY <1>2, <2>1, <2>2, <2>3
<1>5. CASE NotConfigured
  BY <1>1, <1>3, <1>5 DEF NotConfigured, Verdict, StatusAfter
<1>6. CASE ProviderFails \/ KeyMissing
  BY <1>1, <1>3, <1>6 DEF ProviderFails, KeyMissing, Verdict, StatusAfter
<1>7. CASE ProviderAnswers
  <2>1. /\ Verdict(IF items' = <<>> THEN "no_items" ELSE "classified")
        /\ \/ provider.name = "mock" /\ Answer(mock_classify(text))
           \/ /\ provider.name # "mock"
              /\ \E raw \in Raws :
                    LET parsed == parse_json_response(raw)
                    IN  IF parsed = None THEN Answer(<<Unparsed>>)
                        ELSE parsed.confidence # Unreadable /\ Answer(<<build_classification_result(parsed)>>)
    BY <1>7 DEF ProviderAnswers
  <2>2. CASE provider.name = "mock" /\ Answer(mock_classify(text))
    <3> DEFINE results == mock_classify(text)
    <3>1. results \in Seq(Careful(text)) /\ results # <<>> /\ Careful(text) \subseteq Results
      BY MockIsCareful DEF Careful
    <3> HIDE DEF results
    <3>2. results \in Seq(Results) /\ \A i \in DOMAIN results : results[i] \in Careful(text)
      BY <3>1
    <3>3. Answer(results)
      BY <2>2 DEF results
    <3> QED
      BY <1>4, <2>1, <3>1, <3>2, <3>3
  <2>3. ASSUME provider.name # "mock", NEW r \in Results, Answer(<<r>>) PROVE IInv'
    <3>1. <<r>> \in Seq(Results) /\ <<r>> # <<>>
      BY <2>3
    <3> QED
      BY <1>4, <2>1, <2>3, <3>1
  <2>4. CASE provider.name # "mock"
    <3>1. PICK raw \in Raws :
            LET parsed == parse_json_response(raw)
            IN  IF parsed = None THEN Answer(<<Unparsed>>)
                ELSE parsed.confidence # Unreadable /\ Answer(<<build_classification_result(parsed)>>)
      BY <2>1, <2>4
    <3>2. CASE parse_json_response(raw) = None
      BY <2>3, <2>4, <3>1, <3>2, UnparsedResult
    <3>3. CASE parse_json_response(raw) # None
      BY <2>3, <2>4, <3>1, <3>3, CloudResult
    <3> QED
      BY <3>2, <3>3
  <2> QED
    BY <2>1, <2>2, <2>4
<1> QED
  BY <1>5, <1>6, <1>7 DEF Classify

\* A decision of the user keeps it when the items still fit their answers.
LEMMA DecideKeeps ==
  ASSUME IInv, Decide, UNCHANGED <<provider, file, text, answers>>,
         items' \in Seq(ItemRecords), ItemsOfAnswers',
         status' \in DocStatuses, text = None <=> status' \in {"uploaded", "text_extracted"}
  PROVE  IInv'
<1>1. file = None /\ decisions < MaxDecisions /\ decisions' = decisions + 1
  BY DEF Decide
<1>2. decisions' \in 0 .. MaxDecisions
  BY <1>1, DecisionsAssumption DEF IInv, TypeOK
<1>3. \A i \in DOMAIN items' : items'[i] \in ItemRecords
  OBVIOUS
<1>4. TypeOK'
  BY <1>1, <1>2, <1>3 DEF IInv, TypeOK
<1>5. HeldWhileOpen'
  BY <1>1 DEF HeldWhileOpen
<1>6. AnswersAreCareful'
  BY DEF IInv, AnswersAreCareful
<1> QED
  BY <1>4, <1>5, <1>6 DEF IInv

LEMMA ReviewKeeps ==
  ASSUME IInv, NEW i \in DOMAIN items, NEW s \in ReviewStatuses, set_workspace_item_review_status(i, s)
  PROVE  IInv'
<1> DEFINE r == [items[i] EXCEPT !.review_status = s, !.needs_review = NeedsReview(s), !.reviewed_by = "user"]
<1>1. items \in Seq(ItemRecords) /\ items[i] \in ItemRecords
  BY DEF IInv
<1>2. r \in ItemRecords /\ r.reviewed_by = "user" /\ r.needs_review = NeedsReview(r.review_status)
  <2>1. NeedsReview(s) \in BOOLEAN
    BY DEF NeedsReview
  <2> QED
    BY <1>1, <2>1 DEF ItemRecords
<1>3. items' = [items EXCEPT ![i] = r]
  BY DEF set_workspace_item_review_status
<1> HIDE DEF r
<1>4. items' \in Seq(ItemRecords) /\ DOMAIN items' = DOMAIN items /\ items' # <<>> /\ items'[i] = r
      /\ \A j \in DOMAIN items : j # i => items'[j] = items[j]
  BY <1>1, <1>2, <1>3
<1>5. ItemsOfAnswers'
  <2> SUFFICES ASSUME NEW j \in DOMAIN items
               PROVE  \/ items'[j].reviewed_by = "user" /\ items'[j].needs_review = NeedsReview(items'[j].review_status)
                      \/ j \in DOMAIN answers /\ items'[j] = Stored(apply_review_rules(answers[j]))
    BY <1>4 DEF set_workspace_item_review_status, ItemsOfAnswers
  <2>1. CASE j = i
    BY <1>2, <1>4, <2>1
  <2>2. CASE j # i
    BY <1>4, <2>2 DEF IInv, ItemsOfAnswers
  <2> QED
    BY <2>1, <2>2
<1>6. status' = status /\ status \in DocStatuses /\ (text = None <=> status \in {"uploaded", "text_extracted"})
  BY DEF set_workspace_item_review_status, IInv, TypeOK
<1> QED
  BY <1>4, <1>5, <1>6, DecideKeeps DEF set_workspace_item_review_status

LEMMA ManualKeeps ==
  ASSUME IInv, NEW c \in {"donation", "foreign_income"}, NEW a \in BOOLEAN, NEW s \in ReviewStatuses,
         create_workspace_manual_item(c, a, s)
  PROVE  IInv'
<1> DEFINE r == [category |-> c, confidence |-> 0, amount |-> a,
                 needs_review |-> NeedsReview(s), review_status |-> s, reviewed_by |-> "user"]
<1>1. items \in Seq(ItemRecords)
  BY DEF IInv
<1>2. r \in ItemRecords /\ r.reviewed_by = "user" /\ r.needs_review = NeedsReview(r.review_status)
  <2>1. NeedsReview(s) \in BOOLEAN /\ c \in Categories /\ 0 \in Nat
    BY DEF NeedsReview, Categories
  <2> QED
    BY <2>1 DEF ItemRecords
<1>3. items' = Append(items, r)
  BY DEF create_workspace_manual_item
<1> HIDE DEF r
<1>4. items' \in Seq(ItemRecords) /\ items' # <<>> /\ DOMAIN items' = DOMAIN items \union {Len(items) + 1}
      /\ items'[Len(items) + 1] = r /\ \A j \in DOMAIN items : items'[j] = items[j]
  BY <1>1, <1>2, <1>3
<1>5. ItemsOfAnswers'
  <2> SUFFICES ASSUME NEW j \in DOMAIN items'
               PROVE  \/ items'[j].reviewed_by = "user" /\ items'[j].needs_review = NeedsReview(items'[j].review_status)
                      \/ j \in DOMAIN answers /\ items'[j] = Stored(apply_review_rules(answers[j]))
    BY DEF create_workspace_manual_item, ItemsOfAnswers
  <2>1. CASE j = Len(items) + 1
    BY <1>2, <1>4, <2>1
  <2>2. CASE j \in DOMAIN items
    BY <1>4, <2>2 DEF IInv, ItemsOfAnswers
  <2> QED
    BY <1>4, <2>1, <2>2
<1>6. status' \in DocStatuses /\ (text = None <=> status' \in {"uploaded", "text_extracted"})
  BY DEF create_workspace_manual_item, IInv, TypeOK, DocStatuses, MANUAL_REVIEW_DOCUMENT_STATUSES
<1> QED
  BY <1>4, <1>5, <1>6, DecideKeeps DEF create_workspace_manual_item

LEMMA StepKeeps == IInv /\ [Next]_vars => IInv'
<1> SUFFICES ASSUME IInv, [Next]_vars PROVE IInv'
  OBVIOUS
<1>1. CASE Extract
  BY <1>1, ExtractKeeps
<1>2. CASE Classify
  BY <1>2, ClassifyKeeps
<1>6. CASE Interrupted
  BY <1>6, InterruptedKeeps
<1>3. ASSUME NEW i \in DOMAIN items, NEW s \in ReviewStatuses, set_workspace_item_review_status(i, s) PROVE IInv'
  BY <1>3, ReviewKeeps
<1>4. ASSUME NEW c \in {"donation", "foreign_income"}, NEW a \in BOOLEAN, NEW s \in ReviewStatuses,
             create_workspace_manual_item(c, a, s)
      PROVE  IInv'
  BY <1>4, ManualKeeps
<1>5. CASE UNCHANGED vars
  BY <1>5 DEF vars, IInv, TypeOK, HeldWhileOpen, ItemsOfAnswers, AnswersAreCareful
<1> QED
  BY <1>1, <1>2, <1>3, <1>4, <1>5, <1>6 DEF Next

LEMMA AlwaysIInv == Spec => []IInv
BY InitHolds, StepKeeps, PTL DEF Spec

\* For any files the records keep their shape, and nothing is stored about a text
\* that has not been read.
THEOREM TypeCorrect == Spec => []TypeOK
<1>1. IInv => TypeOK
  BY DEF IInv
<1> QED
  BY <1>1, AlwaysIInv, PTL

\* For any number of grey levels and any histogram, the threshold computed from
\* running sums separates the shades of the stretched page best.
THEOREM AlwaysOtsu == Spec => []OtsuIsOptimal
<1>1. IInv => OtsuIsOptimal
  <2> SUFFICES ASSUME IInv, file # None, NEW p \in DOMAIN file.pages, Shows(Enhanced(file.pages[p].grey))
               PROVE  IsOtsu(Enhanced(file.pages[p].grey), otsu_threshold(Enhanced(file.pages[p].grey)))
    BY DEF OtsuIsOptimal
  <2>1. file \in Files
    BY DEF IInv, TypeOK
  <2>2. Enhanced(file.pages[p].grey) \in Histograms
    BY <2>1, FilePages, EnhancedPixels
  <2> QED
    BY <2>2, OtsuIsBest
<1> QED
  BY <1>1, AlwaysIInv, PTL

\* What the invariant says of an item nobody has decided about.
LEMMA UndecidedItem ==
  ASSUME IInv, NEW i \in DOMAIN items, Undecided(i)
  PROVE  /\ i \in DOMAIN answers /\ answers[i] \in Results /\ items[i] = Stored(apply_review_rules(answers[i]))
         /\ ~items[i].needs_review =>
              ~answers[i].needs_review /\ answers[i].confidence >= CONFIDENCE_REVIEW_THRESHOLD
<1>1. i \in DOMAIN answers /\ items[i] = Stored(apply_review_rules(answers[i]))
  BY FilesAssumption DEF IInv, ItemsOfAnswers, Undecided
<1>2. answers[i] \in Results
  BY <1>1 DEF IInv
<1> QED
  BY <1>1, <1>2, StoredItem

\* Nothing is approved that neither the user nor an unflagged answer of at least 70
\* per cent has settled.
THEOREM AlwaysSeen == Spec => []NothingApprovedUnseen
<1>1. IInv => NothingApprovedUnseen
  <2> SUFFICES ASSUME IInv, NEW i \in DOMAIN items, Undecided(i), ~items[i].needs_review
               PROVE  /\ answers[i].confidence >= CONFIDENCE_REVIEW_THRESHOLD /\ ~answers[i].needs_review
                      /\ provider.name = "mock" => "maybe" \notin text
    BY DEF NothingApprovedUnseen
  <2>1. i \in DOMAIN answers /\ answers[i].confidence >= CONFIDENCE_REVIEW_THRESHOLD /\ ~answers[i].needs_review
    BY UndecidedItem
  <2>2. provider.name = "mock" => answers[i] \in Careful(text)
    BY <2>1 DEF IInv, AnswersAreCareful
  <2> QED
    BY <2>1, <2>2 DEF Careful
<1> QED
  BY <1>1, AlwaysIInv, PTL

\* The issues page calls the review completed only when every item is settled so.
THEOREM AlwaysSupported == Spec => []CompletedIsSupported
<1>1. IInv => CompletedIsSupported
  <2> SUFFICES ASSUME IInv, review_status = "completed", NEW i \in DOMAIN items
               PROVE  \/ Undecided(i) /\ answers[i].confidence >= CONFIDENCE_REVIEW_THRESHOLD /\ ~answers[i].needs_review
                      \/ items[i].reviewed_by = "user" /\ items[i].review_status \in {"confirmed", "excluded"}
    BY DEF CompletedIsSupported
  <2>1. Flagged = {}
    BY DEF review_status
  <2>2. ~items[i].needs_review
    BY <2>1 DEF Flagged
  <2>3. items[i] \in ItemRecords
    BY DEF IInv
  <2>4. items[i].reviewed_by \in {None, "user"} /\ items[i].review_status \in ReviewStatuses
    BY <2>3 DEF ItemRecords
  <2>5. CASE Undecided(i)
    BY <2>2, <2>5, UndecidedItem
  <2>6. CASE ~Undecided(i)
    <3>1. items[i].reviewed_by = "user"
      BY <2>4, <2>6 DEF Undecided
    <3>2. items[i].needs_review = NeedsReview(items[i].review_status)
      <4>1. \/ items[i].needs_review = NeedsReview(items[i].review_status)
            \/ i \in DOMAIN answers /\ answers[i] \in Results /\ items[i] = Stored(apply_review_rules(answers[i]))
        BY DEF IInv, ItemsOfAnswers
      <4> QED
        BY <3>1, <4>1, StoredItem, FilesAssumption
    <3> QED
      BY <2>2, <2>4, <3>1, <3>2 DEF NeedsReview, ReviewStatuses
  <2> QED
    BY <2>5, <2>6
<1> QED
  BY <1>1, AlwaysIInv, PTL

\* For any pages and percentiles the text is blank exactly when there is nothing to
\* read in the file.
THEOREM AlwaysReadable == Spec => ReadableIsRead
<1>1. IInv /\ [Next]_vars => [status = "uploaded" /\ text' # None => (text' # {} <=> Readable(file))]_vars
  <2> SUFFICES ASSUME IInv, Next, status = "uploaded", text' # None
               PROVE  text' # {} <=> Readable(file)
    OBVIOUS
  <2>1. text = None
    BY DEF IInv, TypeOK
  <2>2. Extract
    BY <2>1 DEF Next, Classify, Interrupted, set_workspace_item_review_status, create_workspace_manual_item
  <2>3. file \in Files /\ text' = extract_text(file)
    BY <2>2, OpenTask DEF Extract
  <2> QED
    BY <2>3, ReadIffReadable
<1> QED
  BY <1>1, AlwaysIInv, PTL DEF Spec, ReadableIsRead
=============================================================================
