-------------------------- MODULE FixedPointTheorems --------------------------
(***************************************************************************)
(* What the hub's fixed-point operators return and how their roundings     *)
(* fall, for every scale One and Frac; then what SumOf returns, whatever   *)
(* the order its fold takes the elements in.                               *)
(***************************************************************************)
EXTENDS FixedPoint, FiniteSetTheorems, TLAPS

(* Integer division rounds down.                                           *)
LEMMA DivBounds ==
  ASSUME NEW a \in Nat, NEW b \in Nat \ {0}
  PROVE  /\ a \div b \in Nat
         /\ (a \div b) * b <= a
         /\ a < (a \div b) * b + b
  OBVIOUS

(* A factor can be cancelled.                                              *)
LEMMA Cancel ==
  ASSUME NEW x \in Nat, NEW y \in Nat, NEW c \in Nat \ {0}
  PROVE  /\ x * c <= y * c => x <= y
         /\ x * c < y * c => x < y
OBVIOUS

(* Integer division is the greatest quotient.                              *)
LEMMA DivGreatest ==
  ASSUME NEW a \in Nat, NEW b \in Nat \ {0}, NEW q \in Nat, q * b <= a
  PROVE  q <= a \div b
<1> DEFINE d == a \div b
<1>1. d \in Nat /\ a < d * b + b  BY DivBounds
<1> HIDE DEF d
<1>2. SUFFICES ASSUME q > d PROVE FALSE  BY <1>1 DEF d
<1>3. q >= d + 1  BY <1>1, <1>2
<1>4. q * b >= (d + 1) * b  BY <1>1, <1>3
<1>5. (d + 1) * b = d * b + b  BY <1>1
<1> QED  BY <1>1, <1>4, <1>5

(* Multiplying an amount by a Decimal never rounds up.                     *)
LEMMA MulDecBounds ==
  ASSUME NEW u \in Nat, NEW d \in Nat
  PROVE  /\ MulDec(u, d) \in Nat
         /\ MulDec(u, d) * One <= u * d
<1>1. u * d \in Nat  OBVIOUS
<1> QED  BY <1>1, DivBounds, FixedPointAssumption DEF MulDec

(* Decimal::from_ratio never rounds up ...                                 *)
LEMMA FromRatioBounds ==
  ASSUME NEW n \in Nat, NEW d \in Nat \ {0}
  PROVE  /\ FromRatio(n, d) \in Nat
         /\ FromRatio(n, d) * d <= n * One
<1>1. n * One \in Nat  BY FixedPointAssumption
<1> QED  BY <1>1, DivBounds DEF FromRatio

(* ... and returns the greatest rate that does not exceed the ratio.       *)
LEMMA FromRatioGreatest ==
  ASSUME NEW n \in Nat, NEW d \in Nat \ {0}, NEW q \in Nat, q * d <= n * One
  PROVE  q <= FromRatio(n, d)
<1>1. n * One \in Nat  BY FixedPointAssumption
<1> QED  BY <1>1, DivGreatest DEF FromRatio

(* An amount times a Decimal loses less than a unit.                       *)
LEMMA MulDecClose ==
  ASSUME NEW x \in Nat, NEW d \in Nat
  PROVE  x * d < MulDec(x, d) * One + One
<1>1. One \in Nat \ {0}  BY FixedPointAssumption
<1>2. x * d \in Nat  OBVIOUS
<1> QED  BY <1>1, <1>2, DivBounds DEF MulDec

(* So does a ratio.                                                        *)
LEMMA FromRatioClose ==
  ASSUME NEW n \in Nat, NEW d \in Nat \ {0}
  PROVE  n * One < FromRatio(n, d) * d + d
<1>1. n * One \in Nat  BY FixedPointAssumption
<1> QED  BY <1>1, DivBounds DEF FromRatio

(* update_exchange_rate stores a rate the recorded stake covers, provided  *)
(* tokens are only left while some stake is.                               *)
LEMMA UpdatedRateBacked ==
  ASSUME NEW bond \in Nat, NEW issued \in Nat
  PROVE  /\ UpdatedRate(bond, issued) \in Nat
         /\ (bond = 0 => issued = 0)
              => UpdatedRate(bond, issued) * issued <= bond * One
<1>1. CASE bond = 0 \/ issued = 0
  <2>1. UpdatedRate(bond, issued) = One  BY <1>1 DEF UpdatedRate
  <2>2. One \in Nat  BY FixedPointAssumption
  <2>3. CASE issued = 0
    <3>1. One * issued = 0  BY <2>2, <2>3
    <3>2. bond * One >= 0  BY <2>2
    <3> QED  BY <2>1, <2>2, <3>1, <3>2
  <2> QED  BY <1>1, <2>1, <2>2, <2>3
<1>2. CASE bond # 0 /\ issued # 0
  <2>1. UpdatedRate(bond, issued) = FromRatio(bond, issued)
        BY <1>2 DEF UpdatedRate
  <2> QED  BY <1>2, <2>1, FromRatioBounds
<1> QED  BY <1>1, <1>2

(* decimal_division never returns more than the payment divided by the     *)
(* rate cut to Frac fractions.                                             *)
LEMMA DecimalDivisionBounds ==
  ASSUME NEW a \in Nat, NEW b \in Nat, MulDec(Frac, b) > 0
  PROVE  /\ DecimalDivision(a, b) \in Nat
         /\ DecimalDivision(a, b) * MulDec(Frac, b) <= a * Frac
<1> DEFINE t == MulDec(Frac, b)
           r == FromRatio(a, t)
           q == DecimalDivision(a, b)
<1>1. Frac \in Nat \ {0} /\ One \in Nat \ {0}  BY FixedPointAssumption
<1>2. t \in Nat \ {0}  BY <1>1, MulDecBounds
<1>3. r \in Nat /\ r * t <= a * One  BY <1>2, FromRatioBounds
<1>4. q = MulDec(Frac, r)  BY DEF DecimalDivision
<1>5. q \in Nat /\ q * One <= Frac * r  BY <1>1, <1>3, <1>4, MulDecBounds
<1> HIDE DEF t, r, q
<1>6. (q * One) * t <= (Frac * r) * t  BY <1>1, <1>2, <1>3, <1>5
<1>7. Frac * (r * t) <= Frac * (a * One)
  <2>1. r * t \in Nat /\ a * One \in Nat  BY <1>1, <1>2, <1>3
  <2> QED  BY <1>1, <1>3, <2>1
<1>8. (q * t) * One <= (a * Frac) * One
  <2>1. (q * One) * t = (q * t) * One  BY <1>1, <1>2, <1>5
  <2>2. (Frac * r) * t = Frac * (r * t)  BY <1>1, <1>2, <1>3
  <2>3. Frac * (a * One) = (a * Frac) * One  BY <1>1
  <2>4. q * t \in Nat /\ a * Frac \in Nat /\ r * t \in Nat
        BY <1>1, <1>2, <1>3, <1>5
  <2> QED  BY <1>1, <1>6, <1>7, <2>1, <2>2, <2>3, <2>4
<1>9. q * t <= a * Frac
  <2>1. q * t \in Nat /\ a * Frac \in Nat  BY <1>1, <1>2, <1>5
  <2>2. ASSUME NEW x \in Nat, NEW y \in Nat, x * One <= y * One PROVE x <= y
        BY <1>1, <2>2
  <2> QED  BY <1>8, <2>1, <2>2
<1> QED  BY <1>5, <1>9 DEF t, q

-----------------------------------------------------------------------------
(* Sums over finite sets.  SumOf folds a set in the order of CHOOSE; the   *)
(* lemmas say what does not depend on that order.  Induction over the      *)
(* subsets of a finite set is done by a minimal counterexample.            *)

(* Every nonempty set of naturals has a least element.                     *)
LEMMA LeastNatural ==
  ASSUME NEW B \in SUBSET Nat, B # {}
  PROVE  \E n \in B : \A k \in B : n <= k
<1> DEFINE R == OpToRel(<, Nat)
<1>1. IsWellFoundedOn(R, Nat)  BY NatLessThanWellFounded
<1>2. \A k, n \in Nat : k < n => <<k, n>> \in R  BY DEF OpToRel
<1> HIDE DEF R
<1>3. PICK n \in B : \A k \in B : ~(<<k, n>> \in R)  BY <1>1, WFMin
<1>4. ASSUME NEW k \in B PROVE n <= k
  <2>1. ~(k < n)  BY <1>2, <1>3
  <2> QED  BY <2>1
<1> QED  BY <1>4

(* The element a fold takes first.                                         *)
Pick(s) == CHOOSE x \in s : TRUE

(* Pick chooses an element.                                                *)
LEMMA PickInSet == ASSUME NEW s, s # {} PROVE Pick(s) \in s
BY DEF Pick

(* Induction over the subsets of S in the order of a fold: B is the set of *)
(* counterexamples.                                                        *)
LEMMA SubsetInduction ==
  ASSUME NEW S, IsFiniteSet(S), NEW B, B \subseteq SUBSET S,
         {} \notin B,
         \A s \in B : \E x \in s : s \ {x} \in B
  PROVE  B = {}
<1> SUFFICES ASSUME B # {} PROVE FALSE  OBVIOUS
<1>1. IsWellFoundedOn(StrictSubsetOrdering(S), FiniteSubsetsOf(S))
      BY FS_StrictSubsetOrderingWellFounded
<1>2. FiniteSubsetsOf(S) = SUBSET S  BY FS_FiniteSubsetsOfFinite
<1>3. PICK s \in B : \A t \in B : ~(<<t, s>> \in StrictSubsetOrdering(S))
      BY <1>1, <1>2, WFMin
<1>4. PICK x \in s : s \ {x} \in B  OBVIOUS
<1>5. <<s \ {x}, s>> \in StrictSubsetOrdering(S)
      BY DEF StrictSubsetOrdering
<1> QED  BY <1>3, <1>4, <1>5

-----------------------------------------------------------------------------
(* The fold of f over the subsets of S *)

Equation(g, f, S) ==
  g = [s \in SUBSET S |->
         IF s = {} THEN 0 ELSE f[Pick(s)] + g[s \ {Pick(s)}]]

Partial(f, S) == CHOOSE g : Equation(g, f, S)

(* The recursive definition has a solution: one for the subsets of at most *)
(* n elements extends to n + 1.                                            *)
LEMMA PartialExists ==
  ASSUME NEW S, IsFiniteSet(S), NEW f
  PROVE  \E g : Equation(g, f, S)
<1> DEFINE Small(n) == {s \in SUBSET S : Cardinality(s) <= n}
           Upto(g, n) == g = [s \in Small(n) |->
                               IF s = {} THEN 0 ELSE f[Pick(s)] + g[s \ {Pick(s)}]]
           B == {n \in Nat : ~ \E g : Upto(g, n)}
<1>1. \A s \in SUBSET S :
        IsFiniteSet(s) /\ Cardinality(s) \in Nat /\ Cardinality(s) <= Cardinality(S)
      BY FS_Subset, FS_CardinalityType
<1>2. B = {}
  <2> SUFFICES ASSUME B # {} PROVE FALSE  OBVIOUS
  <2>1. PICK n \in B : \A k \in B : n <= k  BY LeastNatural
  <2>2. n # 0
    <3> SUFFICES ASSUME n = 0 PROVE FALSE  OBVIOUS
    <3>1. Small(0) = {{}}  BY <1>1, FS_EmptySet
    <3> DEFINE g == [s \in Small(0) |-> 0]
    <3>2. Upto(g, 0)  BY <3>1
    <3> QED  BY <3>2
  <2> DEFINE m == n - 1
  <2>3. n \in Nat /\ m \in Nat /\ m < n  BY <2>2
  <2>4. m \notin B
    <3> HIDE DEF B, m
    <3> QED  BY <2>1, <2>3
  <2>5. PICK h : Upto(h, m)  BY <2>3, <2>4
  <2> DEFINE g == [s \in Small(n) |->
                     IF s = {} THEN 0 ELSE f[Pick(s)] + h[s \ {Pick(s)}]]
  <2>6. ASSUME NEW s \in Small(n), s # {} PROVE s \ {Pick(s)} \in Small(m)
    <3>1. Pick(s) \in s  BY <2>6, PickInSet
    <3>2. Cardinality(s \ {Pick(s)}) = Cardinality(s) - 1
          BY <1>1, <3>1, FS_RemoveElement
    <3> QED  BY <1>1, <2>3, <3>2
  <2>7. ASSUME NEW s \in Small(m) PROVE s \in Small(n) /\ h[s] = g[s]
    <3>1. s \in Small(n)  BY <1>1, <2>3
    <3>2. h[s] = IF s = {} THEN 0 ELSE f[Pick(s)] + h[s \ {Pick(s)}]
          BY <2>5
    <3> QED  BY <3>1, <3>2
  <2>8. \A s \in Small(n) : s # {} => h[s \ {Pick(s)}] = g[s \ {Pick(s)}]
        BY <2>6, <2>7
  <2>9. Upto(g, n)  BY <2>8
  <2> QED  BY <2>9
<1>3. Cardinality(S) \in Nat  BY FS_CardinalityType
<1>4. PICK g : Upto(g, Cardinality(S))  BY <1>2, <1>3
<1>5. Small(Cardinality(S)) = SUBSET S  BY <1>1
<1> QED  BY <1>4, <1>5 DEF Equation

(* So the chosen solution is one.                                          *)
LEMMA PartialEquation ==
  ASSUME NEW S, IsFiniteSet(S), NEW f
  PROVE  /\ Partial(f, S)[{}] = 0
         /\ \A s \in SUBSET S : s # {} =>
              Partial(f, S)[s] = f[Pick(s)] + Partial(f, S)[s \ {Pick(s)}]
<1>1. Equation(Partial(f, S), f, S)  BY PartialExists DEF Partial
<1> QED  BY <1>1 DEF Equation

(* The equation at one nonempty subset.                                    *)
LEMMA PartialPick ==
  ASSUME NEW S, IsFiniteSet(S), NEW f, NEW s \in SUBSET S, s # {}
  PROVE  /\ Pick(s) \in s
         /\ Partial(f, S)[s] = f[Pick(s)] + Partial(f, S)[s \ {Pick(s)}]
BY PickInSet, PartialEquation

(* A sum is the fold over the whole domain.                                *)
LEMMA SumIsPartial == ASSUME NEW f PROVE SumOf(f) = Partial(f, DOMAIN f)[DOMAIN f]
BY DEF SumOf, MapThenSumSet, MapThenFoldSet, Partial, Equation, Pick

(* The fold of integers is an integer.                                     *)
LEMMA PartialInt ==
  ASSUME NEW S, IsFiniteSet(S), NEW f \in [S -> Int]
  PROVE  \A s \in SUBSET S : Partial(f, S)[s] \in Int
<1> DEFINE P == Partial(f, S)
           B == {s \in SUBSET S : P[s] \notin Int}
<1>1. {} \notin B  BY PartialEquation
<1>2. ASSUME NEW s \in B PROVE \E x \in s : s \ {x} \in B
  <2>1. s # {}  BY <1>1, <1>2
  <2>2. Pick(s) \in s  BY <2>1, PickInSet
  <2>3. P[s] = f[Pick(s)] + P[s \ {Pick(s)}]
    <3>1. s \in SUBSET S /\ IsFiniteSet(S)  OBVIOUS
    <3> QED  BY ONLY <2>1, <3>1, PartialPick
  <2>4. f[Pick(s)] \in Int /\ P[s] \notin Int  BY <2>2
  <2>5. P[s \ {Pick(s)}] \notin Int  BY <2>3, <2>4
  <2> QED  BY <2>2, <2>5
<1>3. B = {}  BY <1>1, <1>2, SubsetInduction
<1> QED  BY <1>3

(* Any element can be taken out first, not only the chosen one.            *)
LEMMA PartialRemove ==
  ASSUME NEW S, IsFiniteSet(S), NEW f \in [S -> Int]
  PROVE  \A s \in SUBSET S : \A x \in s :
           Partial(f, S)[s] = f[x] + Partial(f, S)[s \ {x}]
<1> DEFINE P == Partial(f, S)
           B == {s \in SUBSET S : \E x \in s : P[s] # f[x] + P[s \ {x}]}
<1>1. {} \notin B  OBVIOUS
<1>2. ASSUME NEW s \in B PROVE \E x \in s : s \ {x} \in B
  <2>1. PICK x \in s : P[s] # f[x] + P[s \ {x}]  OBVIOUS
  <2> DEFINE y == Pick(s)
  <2>2. y \in s /\ P[s] = f[y] + P[s \ {y}]
    <3>1. s \in SUBSET S /\ s # {} /\ IsFiniteSet(S)  BY <2>1
    <3> QED  BY ONLY <3>1, PartialPick
  <2>3. x # y  BY <2>1, <2>2
  <2> SUFFICES ASSUME s \ {x} \notin B, s \ {y} \notin B PROVE FALSE
      BY <2>1, <2>2
  <2> HIDE DEF y
  <2>4. P[s \ {x}] = f[y] + P[(s \ {x}) \ {y}]  BY <2>2, <2>3
  <2>5. P[s \ {y}] = f[x] + P[(s \ {y}) \ {x}]  BY <2>2, <2>3
  <2>6. (s \ {x}) \ {y} = (s \ {y}) \ {x}  OBVIOUS
  <2>7. f[x] \in Int /\ f[y] \in Int /\ P[(s \ {x}) \ {y}] \in Int
        BY <2>2, PartialInt
  <2> HIDE DEF P
  <2>8. P[s] = f[y] + (f[x] + P[(s \ {x}) \ {y}])  BY <2>2, <2>5, <2>6
  <2>9. P[s] # f[x] + (f[y] + P[(s \ {x}) \ {y}])  BY <2>1, <2>4
  <2> QED  BY ONLY <2>7, <2>8, <2>9
<1>3. B = {}  BY <1>1, <1>2, SubsetInduction
<1> QED  BY <1>3

-----------------------------------------------------------------------------
(* Sums *)

(* The sum of integers is an integer.                                      *)
LEMMA SumInt ==
  ASSUME NEW S, IsFiniteSet(S), NEW f \in [S -> Int]
  PROVE  SumOf(f) \in Int
BY SumIsPartial, PartialInt

(* The sum of naturals is a natural.                                       *)
LEMMA SumNat ==
  ASSUME NEW S, IsFiniteSet(S), NEW f \in [S -> Nat]
  PROVE  SumOf(f) \in Nat
<1> DEFINE P == Partial(f, S)
           B == {s \in SUBSET S : P[s] \notin Nat}
<1>1. {} \notin B  BY PartialEquation
<1>2. ASSUME NEW s \in B PROVE \E x \in s : s \ {x} \in B
  <2>1. s # {}  BY <1>1, <1>2
  <2>2. Pick(s) \in s  BY <2>1, PickInSet
  <2>3. P[s] = f[Pick(s)] + P[s \ {Pick(s)}]
    <3>1. s \in SUBSET S /\ IsFiniteSet(S)  OBVIOUS
    <3> QED  BY ONLY <2>1, <3>1, PartialPick
  <2>4. f[Pick(s)] \in Nat /\ P[s] \notin Nat  BY <2>2
  <2>5. P[s \ {Pick(s)}] \notin Nat  BY <2>3, <2>4
  <2> QED  BY <2>2, <2>5
<1>3. B = {}  BY <1>1, <1>2, SubsetInduction
<1> QED  BY <1>3, SumIsPartial

(* Sums add up pointwise.                                                  *)
LEMMA SumAdd ==
  ASSUME NEW S, IsFiniteSet(S),
         NEW f \in [S -> Int], NEW g \in [S -> Int], NEW h \in [S -> Int],
         \A x \in S : h[x] = f[x] + g[x]
  PROVE  SumOf(h) = SumOf(f) + SumOf(g)
<1> DEFINE F == Partial(f, S)
           G == Partial(g, S)
           H == Partial(h, S)
           B == {s \in SUBSET S : H[s] # F[s] + G[s]}
<1>1. {} \notin B  BY PartialEquation
<1>2. ASSUME NEW s \in B PROVE \E x \in s : s \ {x} \in B
  <2>1. s # {}  BY <1>1, <1>2
  <2> DEFINE x == Pick(s)
             r == s \ {x}
  <2>2. x \in s /\ r \in SUBSET S  BY <2>1, PickInSet
  <2>3. /\ F[s] = f[x] + F[r]
        /\ G[s] = g[x] + G[r]
        /\ H[s] = h[x] + H[r]
    <3>1. s \in SUBSET S /\ IsFiniteSet(S)  OBVIOUS
    <3>2. F[s] = f[x] + F[r]  BY ONLY <2>1, <3>1, PartialPick
    <3>3. G[s] = g[x] + G[r]  BY ONLY <2>1, <3>1, PartialPick
    <3>4. H[s] = h[x] + H[r]  BY ONLY <2>1, <3>1, PartialPick
    <3> QED  BY ONLY <3>2, <3>3, <3>4
  <2>4. /\ F[r] \in Int /\ G[r] \in Int /\ H[r] \in Int
        /\ f[x] \in Int /\ g[x] \in Int /\ h[x] = f[x] + g[x]
        BY <2>2, PartialInt
  <2>5. H[s] # F[s] + G[s]  OBVIOUS
  <2>6. H[r] # F[r] + G[r]
    <3> HIDE DEF F, G, H, x, r
    <3> QED  BY <2>3, <2>4, <2>5
  <2> QED  BY <2>2, <2>6
<1>3. B = {}  BY <1>1, <1>2, SubsetInduction
<1>4. SumOf(f) = F[S] /\ SumOf(g) = G[S] /\ SumOf(h) = H[S]
      BY SumIsPartial
<1> QED  BY <1>3, <1>4

(* Only one value counts.                                                  *)
LEMMA SumSingle ==
  ASSUME NEW S, IsFiniteSet(S), NEW f \in [S -> Int], NEW a \in S,
         \A x \in S : x # a => f[x] = 0
  PROVE  SumOf(f) = f[a]
<1> DEFINE P == Partial(f, S)
           B == {s \in SUBSET S : a \notin s /\ P[s] # 0}
<1>1. {} \notin B  BY PartialEquation
<1>2. ASSUME NEW s \in B PROVE \E x \in s : s \ {x} \in B
  <2>1. s # {}  BY <1>1, <1>2
  <2> DEFINE x == Pick(s)
             r == s \ {x}
  <2>2. x \in s /\ x # a /\ r \in SUBSET S  BY <2>1, PickInSet
  <2>3. P[s] = f[x] + P[r] /\ f[x] = 0 /\ P[r] \in Int
    <3>1. s \in SUBSET S /\ IsFiniteSet(S)  OBVIOUS
    <3>2. P[s] = f[x] + P[r]  BY ONLY <2>1, <3>1, PartialPick
    <3>3. f[x] = 0  BY <2>2, <3>1
    <3>4. P[r] \in Int  BY <2>2, PartialInt
    <3> QED  BY <3>2, <3>3, <3>4
  <2>4. P[s] # 0  OBVIOUS
  <2>5. P[r] # 0
    <3> HIDE DEF P, x, r
    <3> QED  BY <2>3, <2>4
  <2> QED  BY <2>2, <2>5
<1>3. B = {}  BY <1>1, <1>2, SubsetInduction
<1>4. P[S] = f[a] + P[S \ {a}]  BY PartialRemove
<1>5. P[S \ {a}] = 0  BY <1>3
<1> HIDE DEF P
<1>6. P[S] = f[a]  BY <1>4, <1>5
<1> QED  BY <1>6, SumIsPartial DEF P

(* One value changes.                                                      *)
LEMMA SumUpdate ==
  ASSUME NEW S, IsFiniteSet(S), NEW f \in [S -> Int], NEW g \in [S -> Int],
         NEW a \in S, \A x \in S : x # a => g[x] = f[x]
  PROVE  SumOf(g) = SumOf(f) - f[a] + g[a]
<1> DEFINE d == [x \in S |-> g[x] - f[x]]
<1>1. d \in [S -> Int] /\ \A x \in S : g[x] = f[x] + d[x]  OBVIOUS
<1>2. SumOf(g) = SumOf(f) + SumOf(d)  BY <1>1, SumAdd
<1>3. SumOf(d) = d[a]
  <2>1. \A x \in S : x # a => d[x] = 0  OBVIOUS
  <2> HIDE DEF d
  <2> QED  BY <1>1, <2>1, SumSingle
<1>4. SumOf(f) \in Int /\ f[a] \in Int /\ g[a] \in Int  BY SumInt
<1>5. d[a] = g[a] - f[a]  OBVIOUS
<1> HIDE DEF d
<1> QED  BY <1>2, <1>3, <1>4, <1>5

(* Larger values have a larger sum.                                        *)
LEMMA SumMonotone ==
  ASSUME NEW S, IsFiniteSet(S), NEW f \in [S -> Int], NEW g \in [S -> Int],
         \A x \in S : f[x] <= g[x]
  PROVE  SumOf(f) <= SumOf(g)
<1> DEFINE d == [x \in S |-> g[x] - f[x]]
<1>1. d \in [S -> Nat] /\ d \in [S -> Int] /\ \A x \in S : g[x] = f[x] + d[x]
      OBVIOUS
<1> HIDE DEF d
<1>2. SumOf(g) = SumOf(f) + SumOf(d)  BY <1>1, SumAdd
<1>3. SumOf(f) \in Int /\ SumOf(d) \in Nat  BY <1>1, SumInt, SumNat
<1> QED  BY <1>2, <1>3

(* A sum of naturals bounds each of them, and is zero only if all are.     *)
LEMMA SumZero ==
  ASSUME NEW S, IsFiniteSet(S), NEW f \in [S -> Nat]
  PROVE  /\ \A a \in S : f[a] <= SumOf(f)
         /\ SumOf(f) = 0 <=> \A a \in S : f[a] = 0
<1>1. f \in [S -> Int]  OBVIOUS
<1>2. ASSUME NEW a \in S PROVE f[a] <= SumOf(f)
  <2> DEFINE e == [x \in S |-> IF x = a THEN f[x] ELSE 0]
  <2>1. /\ e \in [S -> Int] /\ e[a] = f[a]
        /\ \A x \in S : x # a => e[x] = 0
        /\ \A x \in S : e[x] <= f[x]
        OBVIOUS
  <2> HIDE DEF e
  <2>2. SumOf(e) = e[a]  BY <2>1, SumSingle
  <2>3. SumOf(e) <= SumOf(f)  BY <1>1, <2>1, SumMonotone
  <2> QED  BY <2>1, <2>2, <2>3
<1>3. ASSUME \A a \in S : f[a] = 0 PROVE SumOf(f) = 0
  <2>1. \A x \in S : f[x] = f[x] + f[x]  BY <1>3
  <2>2. SumOf(f) = SumOf(f) + SumOf(f)  BY <1>1, <2>1, SumAdd
  <2>3. SumOf(f) \in Int  BY <1>1, SumInt
  <2>4. \A n \in Int : n = n + n => n = 0  OBVIOUS
  <2> QED  BY <2>2, <2>3, <2>4
<1>4. SumOf(f) \in Nat  BY SumNat
<1>5. ASSUME SumOf(f) = 0, NEW a \in S PROVE f[a] = 0
      BY <1>2, <1>5
<1> QED  BY <1>2, <1>3, <1>5

(* Summing over a part of the domain is the same as summing zero outside.  *)
LEMMA SumPart ==
  ASSUME NEW S, IsFiniteSet(S), NEW T \in SUBSET S, NEW f \in [S -> Int]
  PROVE  SumOf([x \in T |-> f[x]]) = SumOf([x \in S |-> IF x \in T THEN f[x] ELSE 0])
<1> DEFINE g == [x \in T |-> f[x]]
           e == [x \in S |-> IF x \in T THEN f[x] ELSE 0]
           G == Partial(g, T)
           E == Partial(e, S)
           B == {s \in SUBSET S : E[s] # G[s \cap T]}
<1>1. IsFiniteSet(T)  BY FS_Subset
<1>2. g \in [T -> Int] /\ e \in [S -> Int] /\ DOMAIN g = T /\ DOMAIN e = S  OBVIOUS
<1>3. {} \notin B
  <2>1. {} \cap T = {}  OBVIOUS
  <2> QED  BY <1>1, <2>1, PartialEquation
<1>4. ASSUME NEW s \in B PROVE \E x \in s : s \ {x} \in B
  <2>1. s # {}  BY <1>3, <1>4
  <2> DEFINE x == Pick(s)
             r == s \ {x}
  <2>2. x \in s /\ r \in SUBSET S  BY <2>1, PickInSet
  <2> HIDE DEF x
  <2>3. E[s] = e[x] + E[r]  BY <1>2, <2>2, PartialRemove
  <2>4. E[s] # G[s \cap T]  OBVIOUS
  <2>5. E[r] \in Int /\ e[x] \in Int /\ G[r \cap T] \in Int
        BY <1>1, <1>2, <2>2, PartialInt
  <2>6. G[s \cap T] = e[x] + G[r \cap T]
    <3>1. CASE x \in T
      <4>1. (s \cap T) \ {x} = r \cap T /\ x \in s \cap T  BY <2>2, <3>1
      <4>2. G[s \cap T] = g[x] + G[(s \cap T) \ {x}]
            BY <1>1, <1>2, <4>1, PartialRemove
      <4>3. g[x] = e[x]  BY <2>2, <3>1
      <4> QED  BY <4>1, <4>2, <4>3
    <3>2. CASE x \notin T
      <4>1. s \cap T = r \cap T  BY <3>2
      <4>2. e[x] = 0  BY <2>2, <3>2
      <4>3. \A n \in Int : n = 0 + n  OBVIOUS
      <4> HIDE DEF e, G, r
      <4> QED  BY <2>5, <4>1, <4>2, <4>3
    <3> QED  BY <3>1, <3>2
  <2>7. E[r] # G[r \cap T]
    <3> HIDE DEF E, G, e, r
    <3> QED  BY <2>3, <2>4, <2>5, <2>6
  <2> QED  BY <2>2, <2>7
<1>5. B = {}  BY <1>3, <1>4, SubsetInduction
<1>6. S \cap T = T  OBVIOUS
<1>7. E[S] = G[T]  BY <1>5, <1>6
<1>8. SumOf(g) = G[T] /\ SumOf(e) = E[S]  BY <1>2, SumIsPartial
<1> QED  BY <1>7, <1>8
Affine(c, k, f) == [x \in DOMAIN f |-> c * f[x] + k]

(* Sums are linear.                                                        *)
LEMMA SumAffine ==
  ASSUME NEW S, IsFiniteSet(S), NEW f \in [S -> Int],
         NEW c \in Int, NEW k \in Int
  PROVE  /\ Affine(c, k, f) \in [S -> Int]
         /\ SumOf(Affine(c, k, f)) = c * SumOf(f) + Cardinality(S) * k
<1>1. PICK h \in [S -> Int] :
        h = Affine(c, k, f) /\ \A x \in S : h[x] = c * f[x] + k
  <2>1. \A x \in S : c * f[x] + k \in Int  OBVIOUS
  <2>2. /\ Affine(c, k, f) \in [S -> Int]
        /\ \A x \in S : Affine(c, k, f)[x] = c * f[x] + k
        BY <2>1 DEF Affine
  <2> QED  BY <2>2
<1> DEFINE F == Partial(f, S)
           H == Partial(h, S)
           B == {s \in SUBSET S : H[s] # c * F[s] + Cardinality(s) * k}
<1>2. {} \notin B
  <2>1. F[{}] = 0 /\ H[{}] = 0  BY PartialEquation
  <2>2. Cardinality({}) = 0  BY FS_EmptySet
  <2>3. c * 0 + 0 * k = 0  OBVIOUS
  <2> HIDE DEF F, H
  <2> QED  BY <2>1, <2>2, <2>3
<1>3. ASSUME NEW s \in B PROVE \E x \in s : s \ {x} \in B
  <2>1. s # {}  BY <1>2, <1>3
  <2> DEFINE x == Pick(s)
             r == s \ {x}
             n == Cardinality(r)
  <2>2. x \in s /\ r \in SUBSET S  BY <2>1, PickInSet
  <2>3. F[s] = f[x] + F[r] /\ H[s] = h[x] + H[r]
    <3>1. s \in SUBSET S /\ IsFiniteSet(S)  OBVIOUS
    <3>2. F[s] = f[x] + F[r]  BY ONLY <2>1, <3>1, PartialPick
    <3>3. H[s] = h[x] + H[r]  BY ONLY <2>1, <3>1, PartialPick
    <3> QED  BY ONLY <3>2, <3>3
  <2>4. /\ F[r] \in Int /\ H[r] \in Int /\ f[x] \in Int /\ h[x] = c * f[x] + k
        BY <1>1, <2>2, PartialInt
  <2>5. n \in Nat /\ Cardinality(s) = n + 1
    <3>1. IsFiniteSet(s)  BY FS_Subset
    <3>2. Cardinality(s) \in Nat /\ Cardinality(r) = Cardinality(s) - 1
          BY <2>2, <3>1, FS_RemoveElement, FS_CardinalityType
    <3>3. Cardinality(r) \in Nat
          BY <2>2, <3>1, FS_RemoveElement, FS_CardinalityType
    <3> QED  BY <3>2, <3>3
  <2>6. H[s] # c * F[s] + Cardinality(s) * k  OBVIOUS
  <2>7. H[r] # c * F[r] + n * k
    <3> SUFFICES ASSUME H[r] = c * F[r] + n * k PROVE FALSE  OBVIOUS
    <3> HIDE DEF F, H, x, r, n
    <3>1. c * (f[x] + F[r]) = c * f[x] + c * F[r]  BY <2>4
    <3>2. (n + 1) * k = n * k + k  BY <2>5
    <3>3. c * f[x] \in Int /\ c * F[r] \in Int /\ n * k \in Int  BY <2>4, <2>5
    <3> QED  BY <2>3, <2>4, <2>5, <2>6, <3>1, <3>2, <3>3
  <2> QED  BY <2>2, <2>7
<1>4. B = {}  BY <1>2, <1>3, SubsetInduction
<1>5. SumOf(f) = F[S] /\ SumOf(h) = H[S]  BY SumIsPartial
<1> QED  BY <1>1, <1>4, <1>5

Column(f, y) == [x \in DOMAIN f |-> f[x][y]]

(* A table adds up to the same by rows and by columns.                     *)
LEMMA SumSwap ==
  ASSUME NEW S, IsFiniteSet(S), NEW R, IsFiniteSet(R), NEW f \in [S -> [R -> Int]],
         NEW rows \in [S -> Int], NEW cols \in [R -> Int],
         \A x \in S : rows[x] = SumOf(f[x]),
         \A y \in R : cols[y] = SumOf(Column(f, y))
  PROVE  SumOf(rows) = SumOf(cols)
<1> DEFINE col(y) == [x \in S |-> f[x][y]]
           part(s) == [y \in R |-> Partial(col(y), S)[s]]
           L == Partial(rows, S)
           B == {s \in SUBSET S : L[s] # SumOf(part(s))}
<1>1. ASSUME NEW y \in R PROVE col(y) \in [S -> Int]  OBVIOUS
<1>2. ASSUME NEW s \in SUBSET S PROVE part(s) \in [R -> Int]
      BY <1>1, PartialInt
<1>3. {} \notin B
  <2>1. \A y \in R : Partial(col(y), S)[{}] = 0  BY PartialEquation
  <2>2. part({}) \in [R -> Nat] /\ \A y \in R : part({})[y] = 0  BY <2>1
  <2> HIDE DEF part
  <2>3. SumOf(part({})) = 0  BY <2>2, SumZero
  <2> QED  BY <2>3, PartialEquation
<1>4. ASSUME NEW s \in B PROVE \E x \in s : s \ {x} \in B
  <2>1. s # {}  BY <1>3, <1>4
  <2> DEFINE x == Pick(s)
             r == s \ {x}
  <2>2. x \in s /\ x \in S /\ r \in SUBSET S /\ s \in SUBSET S  BY <2>1, PickInSet
  <2> HIDE DEF x
  <2>3. L[s] = rows[x] + L[r] /\ L[r] \in Int
    <3>1. \A q \in SUBSET S : L[q] \in Int /\ \A z \in q : L[q] = rows[z] + L[q \ {z}]
      <4>1. rows \in [S -> Int] /\ IsFiniteSet(S)  OBVIOUS
      <4>2. \A q \in SUBSET S : L[q] \in Int  BY ONLY <4>1, PartialInt
      <4>3. \A q \in SUBSET S : \A z \in q : L[q] = rows[z] + L[q \ {z}]
            BY ONLY <4>1, PartialRemove
      <4> QED  BY ONLY <4>2, <4>3
    <3> HIDE DEF L, B
    <3> QED  BY <2>2, <3>1
  <2>4. \A y \in R : part(s)[y] = f[x][y] + part(r)[y]
    <3>1. ASSUME NEW y \in R
          PROVE  Partial(col(y), S)[s] = col(y)[x] + Partial(col(y), S)[r]
      <4>1. col(y) \in [S -> Int] /\ IsFiniteSet(S)  BY <1>1
      <4> HIDE DEF col
      <4>2. \A q \in SUBSET S : \A z \in q :
              Partial(col(y), S)[q] = col(y)[z] + Partial(col(y), S)[q \ {z}]
            BY ONLY <4>1, PartialRemove
      <4> HIDE DEF B
      <4> QED  BY <2>2, <4>2
    <3> HIDE DEF r
    <3> QED  BY <2>2, <3>1
  <2>5. SumOf(part(s)) = SumOf(f[x]) + SumOf(part(r))
    <3>1. part(s) \in [R -> Int] /\ part(r) \in [R -> Int] /\ f[x] \in [R -> Int]
          BY <1>2, <2>2
    <3> HIDE DEF part, r
    <3>2. IsFiniteSet(R)  OBVIOUS
    <3> QED  BY ONLY <2>4, <3>1, <3>2, SumAdd
  <2>6. SumOf(part(r)) \in Int /\ rows[x] \in Int /\ rows[x] = SumOf(f[x])
    <3>1. part(r) \in [R -> Int]  BY <1>2, <2>2
    <3> HIDE DEF part, r
    <3> QED  BY <2>2, <3>1, SumInt
  <2>7. L[s] # SumOf(part(s))  OBVIOUS
  <2>8. L[r] # SumOf(part(r))
    <3> HIDE DEF L, part, r
    <3> QED  BY <2>3, <2>5, <2>6, <2>7
  <2> QED  BY <2>2, <2>8
<1>5. B = {}  BY <1>3, <1>4, SubsetInduction
<1>6. \A y \in R : part(S)[y] = cols[y]
  <2>1. ASSUME NEW y \in R PROVE SumOf(col(y)) = Partial(col(y), S)[S]
    <3>1. DOMAIN col(y) = S  OBVIOUS
    <3> HIDE DEF col
    <3> QED  BY <3>1, SumIsPartial
  <2>2. \A y \in R : Column(f, y) = col(y)  BY DEF Column
  <2> QED  BY <2>1, <2>2
<1>7. part(S) = cols
  <2>1. part(S) \in [R -> Int]  BY <1>2
  <2> HIDE DEF part
  <2> QED  BY <1>6, <2>1
<1>8. SumOf(rows) = L[S]  BY SumIsPartial
<1> QED  BY <1>5, <1>7, <1>8

(* The pointwise sum of two functions.                                     *)
Plus(f, g) == [x \in DOMAIN f |-> f[x] + g[x]]

(* Its sum is the sum of theirs.                                           *)
LEMMA SumPlus ==
  ASSUME NEW S, IsFiniteSet(S), NEW f \in [S -> Int], NEW g \in [S -> Int]
  PROVE  /\ Plus(f, g) \in [S -> Int]
         /\ SumOf(Plus(f, g)) = SumOf(f) + SumOf(g)
<1>1. /\ Plus(f, g) \in [S -> Int]
      /\ \A x \in S : Plus(f, g)[x] = f[x] + g[x]
      BY DEF Plus
<1>2. PICK h \in [S -> Int] : h = Plus(f, g) /\ \A x \in S : h[x] = f[x] + g[x]
      BY <1>1
<1>3. SumOf(h) = SumOf(f) + SumOf(g)  BY <1>2, SumAdd
<1> QED  BY <1>2, <1>3

(* Two sums that differ only on a part differ by a sum over that part.     *)
LEMMA SumBounded ==
  ASSUME NEW S, IsFiniteSet(S), NEW T \in SUBSET S, NEW q \in [S -> Int],
         NEW p \in [S -> Int], NEW e \in [T -> Int],
         \A x \in T : q[x] <= p[x] + e[x],
         \A x \in S \ T : q[x] <= p[x]
  PROVE  SumOf(q) <= SumOf(p) + SumOf(e)
<1> DEFINE f == [x \in S |-> IF x \in T THEN e[x] ELSE 0]
<1>1. f \in [S -> Int]  OBVIOUS
<1>2. SumOf(e) = SumOf(f)
  <2>1. SumOf([x \in T |-> f[x]])
          = SumOf([x \in S |-> IF x \in T THEN f[x] ELSE 0])
    <3> HIDE DEF f
    <3> QED  BY <1>1, SumPart
  <2>2. [x \in T |-> f[x]] = e  OBVIOUS
  <2>3. [x \in S |-> IF x \in T THEN f[x] ELSE 0] = f  OBVIOUS
  <2> QED  BY <2>1, <2>2, <2>3
<1>3. \A x \in S : q[x] <= p[x] + f[x]
  <2>1. ASSUME NEW x \in S PROVE q[x] <= p[x] + f[x]
    <3>1. CASE x \in T  BY <3>1
    <3>2. CASE x \notin T
      <4>1. f[x] = 0 /\ p[x] \in Int /\ q[x] <= p[x]  BY <3>2
      <4> HIDE DEF f
      <4> QED  BY <4>1
    <3> QED  BY <3>1, <3>2
  <2> QED  BY <2>1
<1> HIDE DEF f
<1>4. /\ Plus(p, f) \in [S -> Int]
      /\ SumOf(Plus(p, f)) = SumOf(p) + SumOf(f)
      BY <1>1, SumPlus
<1>5. \A x \in S : q[x] <= Plus(p, f)[x]  BY <1>3 DEF Plus
<1>6. SumOf(q) <= SumOf(Plus(p, f))  BY <1>4, <1>5, SumMonotone
<1> QED  BY <1>2, <1>4, <1>6

Part(f, T) == [x \in T |-> f[x]]

(* A domain can be summed in two parts.                                    *)
LEMMA SumParts ==
  ASSUME NEW S, IsFiniteSet(S), NEW T \in SUBSET S, NEW f \in [S -> Int]
  PROVE  /\ Part(f, T) \in [T -> Int] /\ Part(f, S \ T) \in [S \ T -> Int]
         /\ SumOf(f) = SumOf(Part(f, T)) + SumOf(Part(f, S \ T))
<1> DEFINE U == S \ T
           d == [x \in S |-> IF x \in T THEN f[x] ELSE 0]
           e == [x \in S |-> IF x \in U THEN f[x] ELSE 0]
<1>1. U \in SUBSET S  OBVIOUS
<1>2. SumOf(Part(f, T)) = SumOf(d)  BY SumPart DEF Part
<1>3. SumOf(Part(f, U)) = SumOf(e)
  <2> HIDE DEF U
  <2> QED  BY <1>1, SumPart DEF Part
<1>4. d \in [S -> Int] /\ e \in [S -> Int] /\ \A x \in S : f[x] = d[x] + e[x]
      OBVIOUS
<1>5. SumOf(f) = SumOf(d) + SumOf(e)
  <2>1. IsFiniteSet(S) /\ f \in [S -> Int]  OBVIOUS
  <2> HIDE DEF d, e
  <2> QED  BY ONLY <1>4, <2>1, SumAdd
<1>6. Part(f, T) \in [T -> Int] /\ Part(f, U) \in [U -> Int]  BY DEF Part
<1> QED  BY <1>2, <1>3, <1>5, <1>6
=============================================================================
