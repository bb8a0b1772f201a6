-------------------------- MODULE HubSolvencyProofs --------------------------
(***************************************************************************)
(* What the hub owes for released batches and what it keeps to pay it,     *)
(* whatever was slashed, donated or not yet paid when a batch is released. *)
(* process_withdraw_rate gives every batch a part of the coins that        *)
(* arrived in proportion to its worth, rounded three times; the proof      *)
(* bounds each rounding, adds the parts of a release up, and swaps the sum *)
(* over users of what a wallet is owed for the sum over batches of what a  *)
(* batch owes.                                                             *)
(***************************************************************************)
EXTENDS HubClaimsProofs

(* The share of a loss s that process_withdraw_rate gives a batch worth u  *)
(* of t, rounded down twice.                                               *)
LEMMA ShareBounds ==
  ASSUME NEW u \in Nat, NEW t \in Nat \ {0}, NEW s \in Nat,
         NEW share, share = MulDec(s, FromRatio(u, t))
  PROVE  /\ share \in Nat
         /\ share * t <= s * u
         /\ One * (s * u) < One * (t * (share + 1)) + s * t
<1> DEFINE r == FromRatio(u, t)
<1>1. One \in Nat \ {0}  BY FixedPointAssumption
<1>2. r \in Nat /\ r * t <= u * One /\ u * One < r * t + t
  <2>1. u * One \in Nat  BY <1>1
  <2> QED  BY <2>1, DivBounds DEF FromRatio
<1>3. share \in Nat /\ share * One <= s * r /\ s * r < share * One + One
  <2> HIDE DEF r
  <2>1. s * r \in Nat  BY <1>2
  <2>2. share = (s * r) \div One  BY DEF MulDec, r
  <2> QED  BY <1>1, <2>1, <2>2, DivBounds
<1> HIDE DEF r
<1>4. share * t <= s * u
  <2>1. (share * t) * One <= (s * r) * t
    <3>1. (share * One) * t <= (s * r) * t
      <4>1. share * One \in Nat /\ s * r \in Nat  BY <1>1, <1>2, <1>3
      <4> QED  BY <1>3, <4>1
    <3>2. (share * One) * t = (share * t) * One  BY <1>1, <1>3
    <3> QED  BY <3>1, <3>2
  <2>2. (s * r) * t <= (s * u) * One
    <3>1. r * t \in Nat /\ u * One \in Nat  BY <1>1, <1>2
    <3>2. s * (r * t) <= s * (u * One)  BY <1>2, <3>1
    <3>3. (s * r) * t = s * (r * t) /\ (s * u) * One = s * (u * One)  BY <1>1, <1>2
    <3> QED  BY <3>2, <3>3
  <2>3. share * t \in Nat /\ s * u \in Nat  BY <1>3
  <2>4. (share * t) * One <= (s * u) * One
    <3>1. (share * t) * One \in Nat /\ (s * r) * t \in Nat /\ (s * u) * One \in Nat
          BY <1>1, <1>2, <2>3
    <3> QED  BY <2>1, <2>2, <3>1
  <2> QED  BY <1>1, <2>3, <2>4, Cancel
<1>5. One * (s * u) < One * (t * (share + 1)) + s * t
  <2>1. s * (u * One) <= s * (r * t + t)
    <3>1. u * One \in Nat /\ r * t + t \in Nat /\ u * One <= r * t + t
      <4>1. r * t \in Nat /\ u * One \in Nat  BY <1>1, <1>2
      <4> QED  BY <1>2, <4>1
    <3> QED  BY <3>1
  <2>2. s * (r * t + t) = (s * r) * t + s * t
    <3>1. PICK p \in Nat : p = r * t  BY <1>2
    <3>2. s * (p + t) = s * p + s * t  OBVIOUS
    <3>3. s * (r * t) = (s * r) * t  BY <1>2
    <3> QED  BY <3>1, <3>2, <3>3
  <2>3. (s * r) * t < ((share + 1) * One) * t
    <3>1. s * r \in Nat /\ (share + 1) * One \in Nat /\ s * r < (share + 1) * One
      <4>1. (share + 1) * One = share * One + One  BY <1>1, <1>3
      <4>2. s * r \in Nat /\ share * One \in Nat  BY <1>1, <1>2, <1>3
      <4> QED  BY <1>1, <1>3, <4>1, <4>2
    <3> QED  BY <3>1
  <2>4. ((share + 1) * One) * t = One * (t * (share + 1))  BY <1>1, <1>3
  <2>5. s * (u * One) = One * (s * u)  BY <1>1
  <2>6. /\ One * (s * u) \in Nat /\ s * t \in Nat /\ (s * r) * t \in Nat
        /\ One * (t * (share + 1)) \in Nat
        BY <1>1, <1>2, <1>3
  <2> QED  BY <2>1, <2>2, <2>3, <2>4, <2>5, <2>6
<1> QED  BY <1>3, <1>4, <1>5

(* SignedInt::from_subtraction.                                            *)
LEMMA SubtractionParts ==
  ASSUME NEW m \in Nat, NEW n \in Nat
  PROVE  /\ FromSubtraction(m, n).value = IF m >= n THEN m - n ELSE n - m
         /\ FromSubtraction(m, n).negative <=> m < n
<1>1. FromSubtraction(m, n).value = IF m >= n THEN m - n ELSE n - m
      BY DEF FromSubtraction
<1>2. FromSubtraction(m, n).negative = (m < n)  BY DEF FromSubtraction
<1> QED  BY <1>1, <1>2

(* What a batch worth u is released with, given its share of s.            *)
Released(u, share, s) ==
  IF s.negative THEN u + share - 1
  ELSE FromSubtraction(u, share + (IF s.value # 0 THEN 1 ELSE 0)).value

(* The error of the roundings when t is expected and x has arrived.        *)
RoundingError(t, x) == IF x < t THEN (t - x) * t - 1 ELSE 0

(* A value v is a fair part w of the x coins that arrived, but for the     *)
(* error, or one coin more when there is nothing to divide.                *)
FairPart(u, t, x, v, w) ==
  /\ One * (t * w) <= One * (x * u) + RoundingError(t, x)
  /\ v <= w + 1
  /\ x > 0 /\ u > 0 => v = w

(* Every batch is released with a fair part: the coin that appears when    *)
(* its share of a loss is all of it is the only exception.                 *)
LEMMA ReleaseValue ==
  ASSUME NEW u \in Nat, NEW t \in Nat \ {0}, NEW x \in Nat,
         NEW s, s = FromSubtraction(t, x),
         NEW share, share = MulDec(s.value, FromRatio(u, t)),
         s.negative => share >= 1
  PROVE  /\ Released(u, share, s) \in Nat
         /\ RoundingError(t, x) \in Nat
         /\ \E w \in Nat : FairPart(u, t, x, Released(u, share, s), w)
<1> DEFINE k == RoundingError(t, x)
           v == Released(u, share, s)
<1>1. SUFFICES /\ v \in Nat
               /\ k \in Nat
               /\ \E w \in Nat : /\ One * (t * w) <= One * (x * u) + k
                                 /\ v <= w + 1
                                 /\ x > 0 /\ u > 0 => v = w
      BY DEF FairPart
<1>2. /\ v = IF s.negative THEN u + share - 1
             ELSE FromSubtraction(u, share + (IF s.value # 0 THEN 1 ELSE 0)).value
      /\ k = IF x < t THEN (t - x) * t - 1 ELSE 0
      BY DEF Released, RoundingError
<1> HIDE DEF k, v
<1>3. One \in Nat \ {0}  BY FixedPointAssumption
<1>4. /\ s.value = IF t >= x THEN t - x ELSE x - t
      /\ s.negative <=> t < x
  <2>1. t \in Nat /\ x \in Nat /\ s = FromSubtraction(t, x)  OBVIOUS
  <2> QED  BY ONLY <2>1, SubtractionParts
<1>5. CASE x > t
  <2>1. PICK e \in Nat \ {0} : x = t + e
    <3>1. x - t \in Nat \ {0} /\ x = t + (x - t)  BY <1>5
    <3> QED  BY <3>1
  <2>2. s.value = e /\ s.negative  BY <1>4, <2>1
  <2>3. share \in Nat /\ share * t <= e * u /\ share >= 1
    <3>1. share = MulDec(e, FromRatio(u, t))  BY <2>2
    <3> QED  BY <2>2, <3>1, ShareBounds
  <2>4. v = u + share - 1 /\ v \in Nat  BY <1>2, <2>2, <2>3
  <2>5. k = 0  BY <1>2, <1>5
  <2>6. t * v <= x * u
    <3>1. v <= u + share  BY <2>3, <2>4
    <3>2. t * v <= t * (u + share)  BY <2>3, <2>4, <3>1
    <3>3. t * (u + share) = t * u + share * t /\ x * u = t * u + e * u  BY <2>1, <2>3
    <3>4. /\ t * u \in Nat /\ share * t \in Nat /\ e * u \in Nat /\ t * v \in Nat
          BY <2>3, <2>4
    <3> QED  BY <2>3, <3>2, <3>3, <3>4
  <2>7. One * (t * v) <= One * (x * u)
    <3>1. t * v \in Nat /\ x * u \in Nat  BY <2>4
    <3> QED  BY <1>3, <2>6, <3>1
  <2>8. One * (x * u) \in Nat  BY <1>3
  <2>9. One * (t * v) <= One * (x * u) + k  BY <2>5, <2>7, <2>8
  <2>10. v <= v + 1  BY <2>4
  <2> QED  BY <2>4, <2>5, <2>9, <2>10
<1>6. CASE x = t
  <2>1. s.value = 0 /\ ~s.negative  BY <1>6, <1>4
  <2>2. share = 0
    <3>1. share = MulDec(0, FromRatio(u, t))  BY <2>1
    <3>2. share \in Nat /\ share * t <= 0 * u  BY <3>1, ShareBounds
    <3> QED  BY <3>2
  <2>3. v = u  BY <1>2, <2>1, <2>2 DEF FromSubtraction
  <2>4. k = 0 /\ One * (t * u) \in Nat  BY <1>2, <1>3, <1>6
  <2>5. One * (t * u) <= One * (x * u) + k  BY <1>6, <2>4
  <2>6. u <= u + 1  OBVIOUS
  <2> QED  BY <2>3, <2>4, <2>5, <2>6
<1>7. CASE x < t
  <2>1. PICK e \in Nat \ {0} : t = x + e /\ e = t - x
    <3>1. t - x \in Nat \ {0} /\ t = x + (t - x)  BY <1>7
    <3> QED  BY <3>1
  <2>2. s.value = e /\ ~s.negative  BY <1>7, <1>4, <2>1
  <2>3. /\ share \in Nat /\ share * t <= e * u
        /\ One * (e * u) < One * (t * (share + 1)) + e * t
    <3>1. share = MulDec(e, FromRatio(u, t))  BY <2>2
    <3> QED  BY <3>1, ShareBounds
  <2>4. v = IF u >= share + 1 THEN u - (share + 1) ELSE (share + 1) - u
        BY <1>2, <2>2, <2>3 DEF FromSubtraction
  <2>5. k \in Nat /\ k = e * t - 1
    <3>1. e * t \in Nat \ {0}  OBVIOUS
    <3> QED  BY <1>2, <1>7, <2>1, <3>1
  <2>6. t * u = x * u + e * u  BY <2>1
  <2>7. CASE u >= share + 1
    <3>1. PICK w \in Nat : w = u - (share + 1) /\ u = w + (share + 1)
      <4>1. u - (share + 1) \in Nat /\ u = (u - (share + 1)) + (share + 1)
            BY <2>3, <2>7
      <4> QED  BY <4>1
    <3>2. v = w  BY <2>4, <2>7, <3>1
    <3>3. t * u = t * w + t * (share + 1)  BY <2>3, <3>1
    <3>4. One * (t * w) + One * (t * (share + 1)) = One * (x * u) + One * (e * u)
      <4>1. PICK p1 \in Nat, p2 \in Nat, p3 \in Nat, p4 \in Nat :
              /\ p1 = t * w /\ p2 = t * (share + 1) /\ p3 = x * u /\ p4 = e * u
        <5>1. /\ t * w \in Nat /\ t * (share + 1) \in Nat /\ x * u \in Nat
              /\ e * u \in Nat
              BY <2>3
        <5> QED  BY <5>1
      <4>2. p1 + p2 = p3 + p4  BY <2>6, <3>3, <4>1
      <4>3. One * p1 + One * p2 = One * p3 + One * p4
        <5>1. One * (p1 + p2) = One * p1 + One * p2  BY <1>3
        <5>2. One * (p3 + p4) = One * p3 + One * p4  BY <1>3
        <5> QED  BY <4>2, <5>1, <5>2
      <4> QED  BY <4>1, <4>3
    <3>5. /\ One * (t * w) \in Nat /\ One * (t * (share + 1)) \in Nat
          /\ One * (x * u) \in Nat /\ One * (e * u) \in Nat /\ e * t \in Nat
          BY <1>3, <2>3
    <3>6. One * (t * w) <= One * (x * u) + k  BY <2>3, <2>5, <3>4, <3>5
    <3>7. w <= w + 1  OBVIOUS
    <3> QED  BY <2>5, <3>2, <3>6, <3>7
  <2>8. CASE ~(u >= share + 1)
    <3>1. u <= share  BY <2>3, <2>8
    <3>2. share <= u
      <4>1. share * t <= u * t
        <5>1. share * t \in Nat /\ e * u \in Nat /\ x * u \in Nat /\ u * t \in Nat
              BY <2>3
        <5>2. u * t = x * u + e * u  BY <2>6
        <5> QED  BY <2>3, <5>1, <5>2
      <4> QED  BY <2>3, <4>1, Cancel
    <3>3. share = u /\ v = 1
      <4>1. share = u  BY <2>3, <3>1, <3>2
      <4>2. v = (share + 1) - u  BY <2>4, <2>8
      <4> QED  BY <4>1, <4>2
    <3>4. ~(x > 0 /\ u > 0)
      <4>1. SUFFICES ASSUME x > 0, u > 0 PROVE FALSE  OBVIOUS
      <4>2. u * t <= e * u /\ u * t = x * u + e * u  BY <2>3, <2>6, <3>3
      <4>3. x * u \in Nat \ {0} /\ e * u \in Nat  BY <4>1
      <4> QED  BY <4>2, <4>3
    <3>5. One * (t * 0) <= One * (x * u) + k
      <4>1. One * (t * 0) = 0 /\ One * (x * u) \in Nat  BY <1>3
      <4> QED  BY <2>5, <4>1
    <3>6. v <= 0 + 1  BY <3>3
    <3>7. /\ 0 \in Nat /\ One * (t * 0) <= One * (x * u) + k /\ v <= 0 + 1
          /\ (x > 0 /\ u > 0 => v = 0)
          BY <3>4, <3>5, <3>6
    <3>8. \E w \in Nat : /\ One * (t * w) <= One * (x * u) + k
                         /\ v <= w + 1
                         /\ x > 0 /\ u > 0 => v = w
          BY ONLY <3>7
    <3>9. v \in Nat  BY ONLY <3>3
    <3> QED  BY ONLY <2>5, <3>8, <3>9
  <2> QED  BY <2>7, <2>8
<1> QED  BY <1>5, <1>6, <1>7

-----------------------------------------------------------------------------

(* A batch worth u loses at most its share of the missing coins and one    *)
(* more, and wins at most its share of those in excess.                    *)
LEMMA ReleaseBetween ==
  ASSUME NEW u \in Nat, NEW t \in Nat \ {0}, NEW x \in Nat,
         NEW s, s = FromSubtraction(t, x),
         NEW share, share = MulDec(s.value, FromRatio(u, t)),
         s.negative => share >= 1
  PROVE  /\ share \in Nat /\ share * t <= s.value * u
         /\ Released(u, share, s) \in Nat
         /\ u <= Released(u, share, s) + (IF s.negative THEN 0 ELSE share) + 1
         /\ u > 0 =>
              Released(u, share, s) <= u + (IF s.negative THEN share ELSE 0)
<1>1. /\ s.value = IF t >= x THEN t - x ELSE x - t
      /\ s.negative <=> t < x
      /\ s.value \in Nat
  <2>1. t \in Nat /\ x \in Nat /\ s = FromSubtraction(t, x)  OBVIOUS
  <2>2. /\ s.value = IF t >= x THEN t - x ELSE x - t
        /\ s.negative <=> t < x
        BY ONLY <2>1, SubtractionParts
  <2>3. s.value \in Nat  BY <2>2
  <2> QED  BY <2>2, <2>3
<1>2. share \in Nat /\ share * t <= s.value * u
  <2>1. PICK d \in Nat : d = s.value  BY <1>1
  <2>2. share = MulDec(d, FromRatio(u, t))  BY <2>1
  <2>3. share \in Nat /\ share * t <= d * u  BY <2>2, ShareBounds
  <2> QED  BY <2>1, <2>3
<1>3. CASE s.negative
  <2>1. Released(u, share, s) = u + share - 1  BY <1>3 DEF Released
  <2> QED  BY <1>2, <1>3, <2>1
<1>4. CASE ~s.negative
  <2> DEFINE c == IF s.value # 0 THEN 1 ELSE 0
  <2>1. Released(u, share, s) = FromSubtraction(u, share + c).value
        BY <1>4 DEF Released
  <2>2. c \in 0..1 /\ share + c \in Nat  BY <1>2
  <2>3. share <= u
    <3>1. PICK d \in Nat : d = s.value /\ d <= t  BY <1>1, <1>4
    <3>2. d * u <= t * u /\ d * u \in Nat /\ t * u \in Nat /\ share * t \in Nat
          BY <1>2, <3>1
    <3>3. share * t <= u * t
      <4>1. t * u = u * t  OBVIOUS
      <4> QED  BY <1>2, <3>1, <3>2, <4>1
    <3> QED  BY <1>2, <3>3, Cancel
  <2> HIDE DEF c
  <2>4. Released(u, share, s)
          = IF u >= share + c THEN u - (share + c) ELSE (share + c) - u
        BY <2>1, <2>2, SubtractionParts
  <2> QED  BY <1>2, <1>4, <2>2, <2>3, <2>4
<1> QED  BY <1>2, <1>3, <1>4

(* The shares of the batches add up to no more than is shared.             *)
LEMMA SharesWithin ==
  ASSUME NEW M, IsFiniteSet(M), NEW u \in [M -> Nat], NEW h \in [M -> Nat],
         NEW t \in Nat \ {0}, t = SumOf(u), NEW d \in Nat,
         \A b \in M : h[b] * t <= d * u[b]
  PROVE  SumOf(h) <= d
<1> DEFINE f == Affine(t, 0, h)
           g == Affine(d, 0, u)
           n == Cardinality(M)
<1>1. n \in Nat /\ SumOf(h) \in Nat  BY FS_CardinalityType, SumNat
<1>2. /\ f \in [M -> Int] /\ SumOf(f) = t * SumOf(h) + n * 0
      /\ g \in [M -> Int] /\ SumOf(g) = d * SumOf(u) + n * 0
  <2>1. /\ h \in [M -> Int] /\ u \in [M -> Int] /\ t \in Int /\ d \in Int
        /\ 0 \in Int /\ IsFiniteSet(M)
        OBVIOUS
  <2> QED  BY ONLY <2>1, SumAffine
<1>3. ASSUME NEW b \in M PROVE f[b] <= g[b]
  <2>1. f[b] = t * h[b] + 0 /\ g[b] = d * u[b] + 0  BY DEF Affine
  <2>2. h[b] \in Nat /\ u[b] \in Nat /\ h[b] * t <= d * u[b]  OBVIOUS
  <2>3. t * h[b] = h[b] * t /\ t * h[b] \in Nat /\ d * u[b] \in Nat  BY <2>2
  <2> HIDE DEF f, g
  <2> QED  BY <2>1, <2>2, <2>3
<1> HIDE DEF f, g
<1>4. SumOf(f) <= SumOf(g)  BY <1>2, <1>3, SumMonotone
<1> HIDE DEF n
<1>5. SumOf(h) * t <= d * t
  <2>1. t * SumOf(h) = SumOf(h) * t /\ n * 0 = 0  BY <1>1
  <2>2. t * SumOf(h) \in Nat /\ d * t \in Nat  BY <1>1
  <2> QED  BY <1>2, <1>4, <2>1, <2>2
<1> QED  BY <1>1, <1>5, Cancel

(* The values w the batches of a release would have never add up to more   *)
(* than the x coins that arrived, if their errors k are small together.    *)
LEMMA SharesFit ==
  ASSUME NEW M, IsFiniteSet(M), NEW u \in [M -> Nat], NEW w \in [M -> Nat],
         NEW t \in Nat \ {0}, t = SumOf(u), NEW x \in Nat, NEW k \in Nat,
         Cardinality(M) * k < One * t,
         \A b \in M : One * (t * w[b]) <= One * (x * u[b]) + k
  PROVE  SumOf(w) <= x
<1> DEFINE n == Cardinality(M)
<1>1. One \in Nat \ {0} /\ n \in Nat /\ SumOf(w) \in Nat
      BY FixedPointAssumption, FS_CardinalityType, SumNat
<1>2. PICK c \in Nat \ {0}, d \in Nat : c = One * t /\ d = One * x  BY <1>1
<1> DEFINE f == Affine(c, 0, w)
           g == Affine(d, k, u)
<1>3. /\ f \in [M -> Int] /\ SumOf(f) = c * SumOf(w) + n * 0
      /\ g \in [M -> Int] /\ SumOf(g) = d * SumOf(u) + n * k
  <2>1. /\ w \in [M -> Int] /\ u \in [M -> Int] /\ c \in Int /\ d \in Int
        /\ k \in Int /\ 0 \in Int /\ IsFiniteSet(M)
        BY <1>2
  <2> QED  BY ONLY <2>1, SumAffine
<1>4. \A b \in M : f[b] <= g[b]
  <2>1. ASSUME NEW b \in M PROVE f[b] <= g[b]
    <3>1. w[b] \in Nat /\ u[b] \in Nat /\ f[b] = c * w[b] + 0 /\ g[b] = d * u[b] + k
          BY DEF Affine
    <3>2. (One * t) * w[b] = One * (t * w[b]) /\ (One * x) * u[b] = One * (x * u[b])
          BY <1>1, <3>1
    <3>3. c * w[b] \in Nat /\ d * u[b] \in Nat  BY <1>2, <3>1
    <3>4. c * w[b] <= d * u[b] + k  BY <1>2, <3>2
    <3> HIDE DEF f, g
    <3> QED  BY <3>1, <3>3, <3>4
  <2> QED  BY <2>1
<1> HIDE DEF f, g
<1>5. SumOf(f) <= SumOf(g)  BY <1>3, <1>4, SumMonotone
<1>6. n * k < c  BY <1>2
<1> HIDE DEF n
<1>7. c * SumOf(w) < c * (x + 1)
  <2>1. d * SumOf(u) = c * x
    <3>1. (One * x) * t = (One * t) * x  BY <1>1
    <3> QED  BY <1>2, <3>1
  <2>2. c * (x + 1) = c * x + c  BY <1>2
  <2>3. /\ c * SumOf(w) \in Nat /\ c * x \in Nat /\ n * k \in Nat /\ n * 0 = 0
        BY <1>1, <1>2
  <2> QED  BY <1>2, <1>3, <1>5, <1>6, <2>1, <2>2, <2>3
<1>8. SumOf(w) < x + 1
  <2>1. SumOf(w) * c < (x + 1) * c  BY <1>1, <1>2, <1>7
  <2>2. x + 1 \in Nat  OBVIOUS
  <2> QED  BY <1>1, <1>2, <2>1, <2>2, Cancel
<1> QED  BY <1>1, <1>8

(* The requests a of a batch, paid one by one at its rate, cost no more    *)
(* than the value v the batch is released with.                            *)
LEMMA PaymentsFit ==
  ASSUME NEW S, IsFiniteSet(S), NEW a \in [S -> Nat], NEW v \in Nat,
         SumOf(a) # 0, NEW m \in [S -> Nat],
         \A y \in S : m[y] = MulDec(a[y], FromRatio(v, SumOf(a)))
  PROVE  SumOf(m) <= v
<1>1. PICK n \in Nat \ {0} : n = SumOf(a)  BY SumNat
<1>2. PICK r \in Nat : r = FromRatio(v, n) /\ r * n <= v * One
      BY FromRatioBounds
<1>3. One \in Nat \ {0} /\ SumOf(m) \in Nat  BY FixedPointAssumption, SumNat
<1> DEFINE f == Affine(One, 0, m)
           g == Affine(r, 0, a)
<1>4. ASSUME NEW y \in S PROVE f[y] <= g[y]
  <2>1. a[y] \in Nat /\ m[y] \in Nat /\ m[y] = MulDec(a[y], r)  BY <1>1, <1>2
  <2>2. m[y] * One <= a[y] * r  BY <1>2, <2>1, MulDecBounds
  <2>3. /\ One * m[y] \in Int /\ r * a[y] \in Int
        /\ One * m[y] = m[y] * One /\ r * a[y] = a[y] * r
        BY ONLY <1>2, <1>3, <2>1
  <2>4. f[y] = One * m[y] + 0 /\ g[y] = r * a[y] + 0  BY DEF Affine
  <2> HIDE DEF f, g
  <2> QED  BY ONLY <2>2, <2>3, <2>4
<1>5. /\ f \in [S -> Int] /\ SumOf(f) = One * SumOf(m) + Cardinality(S) * 0
      /\ g \in [S -> Int] /\ SumOf(g) = r * SumOf(a) + Cardinality(S) * 0
  <2>1. /\ a \in [S -> Int] /\ m \in [S -> Int] /\ One \in Int /\ r \in Int
        /\ 0 \in Int /\ IsFiniteSet(S)
        BY <1>2, <1>3
  <2> QED  BY ONLY <2>1, SumAffine
<1> HIDE DEF f, g
<1>6. SumOf(f) <= SumOf(g)  BY <1>4, <1>5, SumMonotone
<1>7. Cardinality(S) * 0 = 0
  <2>1. Cardinality(S) \in Nat  BY FS_CardinalityType
  <2> QED  BY <2>1
<1>8. SumOf(m) * One <= v * One
  <2>1. /\ One * SumOf(m) = SumOf(m) * One
        /\ One * SumOf(m) \in Nat /\ r * n \in Nat /\ v * One \in Nat
        BY <1>2, <1>3
  <2> QED  BY <1>1, <1>2, <1>5, <1>6, <1>7, <2>1
<1> QED  BY <1>3, <1>8, Cancel

-----------------------------------------------------------------------------

(* What the released batches of a history h owe on a wait list.            *)
Row(list, h, u) ==
  [b \in DOMAIN h |->
     IF h[b].released THEN MulDec(list[u][b], h[b].withdraw_rate) ELSE 0]

Owes(list, h) == SumOf([u \in Users |-> SumOf(Row(list, h, u))])

BatchOwes(list, h, b) == SumOf([u \in Users |-> Row(list, h, u)[b]])

LedgerType(list, h) ==
  /\ list \in [Users -> [BatchIds -> Nat]]
  /\ DOMAIN h \subseteq BatchIds
  /\ \A b \in DOMAIN h : h[b] \in HistoryType

(* Obligations are what the current ledger owes.                           *)
LEMMA ObligationsOwed == Obligations = Owes(wait_list, history)
BY DEF Obligations, FinishedAmount, Owed, Owes, Row

(* Everything owed is a natural number.                                    *)
LEMMA OwesTypes ==
  ASSUME NEW list, NEW h, LedgerType(list, h)
  PROVE  /\ IsFiniteSet(DOMAIN h)
         /\ \A u \in Users : Row(list, h, u) \in [DOMAIN h -> Nat]
         /\ \A u \in Users : SumOf(Row(list, h, u)) \in Nat
         /\ [u \in Users |-> SumOf(Row(list, h, u))] \in [Users -> Nat]
         /\ \A b \in DOMAIN h : [u \in Users |-> Row(list, h, u)[b]] \in [Users -> Nat]
         /\ \A b \in DOMAIN h : BatchOwes(list, h, b) \in Nat
         /\ Owes(list, h) \in Nat
<1>1. IsFiniteSet(DOMAIN h)  BY BatchesFinite, FS_Subset DEF LedgerType
<1>2. ASSUME NEW u \in Users PROVE Row(list, h, u) \in [DOMAIN h -> Nat]
  <2>1. ASSUME NEW b \in DOMAIN h
        PROVE  (IF h[b].released THEN MulDec(list[u][b], h[b].withdraw_rate) ELSE 0)
                 \in Nat
    <3>1. list[u][b] \in Nat /\ h[b].withdraw_rate \in Nat
          BY DEF LedgerType, HistoryType
    <3> QED  BY <3>1, MulDecBounds
  <2> QED  BY <2>1 DEF Row
<1>3. ASSUME NEW u \in Users PROVE SumOf(Row(list, h, u)) \in Nat
      BY <1>1, <1>2, SumNat
<1>4. [u \in Users |-> SumOf(Row(list, h, u))] \in [Users -> Nat]  BY <1>3
<1>5. ASSUME NEW b \in DOMAIN h
      PROVE  /\ [u \in Users |-> Row(list, h, u)[b]] \in [Users -> Nat]
             /\ BatchOwes(list, h, b) \in Nat
  <2>1. [u \in Users |-> Row(list, h, u)[b]] \in [Users -> Nat]  BY <1>2
  <2> QED  BY <2>1, HubAssumption, SumNat DEF BatchOwes
<1>6. Owes(list, h) \in Nat  BY <1>4, HubAssumption, SumNat DEF Owes
<1> QED  BY <1>1, <1>2, <1>3, <1>4, <1>5, <1>6

(* What is owed can be counted by batch.                                   *)
LEMMA OwesByBatch ==
  ASSUME NEW list, NEW h, LedgerType(list, h)
  PROVE  Owes(list, h) = SumOf([b \in DOMAIN h |-> BatchOwes(list, h, b)])
<1> DEFINE D == DOMAIN h
           f == [u \in Users |-> Row(list, h, u)]
           rows == [u \in Users |-> SumOf(Row(list, h, u))]
           cols == [b \in D |-> BatchOwes(list, h, b)]
<1>1. IsFiniteSet(Users) /\ IsFiniteSet(D)  BY HubAssumption, OwesTypes
<1>2. \A u \in Users : Row(list, h, u) \in [D -> Int]  BY OwesTypes
<1>3. f \in [Users -> [D -> Int]]  BY <1>2
<1>4. rows \in [Users -> Int] /\ cols \in [D -> Int]  BY OwesTypes
<1>5. \A u \in Users : rows[u] = SumOf(f[u])  OBVIOUS
<1>6. \A b \in D : cols[b] = SumOf(Column(f, b))
  <2>1. ASSUME NEW b \in D
        PROVE  Column(f, b) = [u \in Users |-> Row(list, h, u)[b]]
        BY DEF Column
  <2> QED  BY <2>1 DEF BatchOwes
<1>7. Owes(list, h) = SumOf(rows)  BY DEF Owes
<1> HIDE DEF D, f, rows, cols
<1>8. SumOf(rows) = SumOf(cols)
      BY ONLY <1>1, <1>3, <1>4, <1>5, <1>6, SumSwap, SMTT(30)
<1> QED  BY <1>7, <1>8 DEF cols, D

(* A release of batches adds at most their values to what is owed.         *)
LEMMA ReleaseOwes ==
  ASSUME NEW list, NEW h, NEW g, LedgerType(list, h), LedgerType(list, g),
         DOMAIN g = DOMAIN h, NEW v \in [DOMAIN h -> Nat],
         \A b \in DOMAIN h : BatchOwes(list, g, b) <= BatchOwes(list, h, b) + v[b]
  PROVE  Owes(list, g) <= Owes(list, h) + SumOf(v)
<1> DEFINE D == DOMAIN h
           old == [b \in D |-> BatchOwes(list, h, b)]
           new == [b \in D |-> BatchOwes(list, g, b)]
           sum == [b \in D |-> BatchOwes(list, h, b) + v[b]]
<1>1. /\ IsFiniteSet(D)
      /\ \A b \in D : BatchOwes(list, h, b) \in Nat /\ BatchOwes(list, g, b) \in Nat
      BY OwesTypes
<1>2. /\ old \in [D -> Int] /\ new \in [D -> Int] /\ v \in [D -> Int]
      BY <1>1
<1>3. sum \in [D -> Int]
  <2>1. \A b \in D : BatchOwes(list, h, b) + v[b] \in Int  BY <1>1
  <2> QED  BY <2>1
<1>4. /\ \A b \in D : sum[b] = old[b] + v[b]
      /\ \A b \in D : new[b] <= sum[b]
      OBVIOUS
<1>5. Owes(list, h) = SumOf(old) /\ Owes(list, g) = SumOf(new)  BY OwesByBatch
<1> HIDE DEF D, old, new, sum
<1>6. SumOf(sum) = SumOf(old) + SumOf(v)  BY ONLY <1>1, <1>2, <1>3, <1>4, SumAdd
<1>7. SumOf(new) <= SumOf(sum)  BY ONLY <1>1, <1>2, <1>3, <1>4, SumMonotone
<1> QED  BY <1>5, <1>6, <1>7

(* Paying a user all of the released batches ends what is owed to them.    *)
LEMMA PaymentOwes ==
  ASSUME NEW list, NEW h, LedgerType(list, h), NEW user \in Users,
         NEW r \in [BatchIds -> Nat],
         \A b \in DOMAIN h : h[b].released => r[b] = 0,
         NEW rest, rest = [list EXCEPT ![user] = r]
  PROVE  Owes(rest, h) = Owes(list, h) - SumOf(Row(list, h, user))
<1> DEFINE old == [u \in Users |-> SumOf(Row(list, h, u))]
           new == [u \in Users |-> SumOf(Row(rest, h, u))]
<1>1. LedgerType(rest, h)
  <2>1. rest \in [Users -> [BatchIds -> Nat]]  BY DEF LedgerType
  <2> QED  BY <2>1 DEF LedgerType
<1>2. old \in [Users -> Int] /\ new \in [Users -> Int] /\ IsFiniteSet(Users)
      BY <1>1, OwesTypes, HubAssumption
<1>3. \A u \in Users : u # user => new[u] = old[u]
  <2>1. ASSUME NEW u \in Users, u # user PROVE Row(rest, h, u) = Row(list, h, u)
    <3>1. rest[u] = list[u]  BY <2>1 DEF LedgerType
    <3> QED  BY <3>1 DEF Row
  <2> QED  BY <2>1
<1>4. new[user] = 0
  <2>1. rest[user] = r  BY DEF LedgerType
  <2>2. \A b \in DOMAIN h : Row(rest, h, user)[b] = 0
    <3>1. ASSUME NEW b \in DOMAIN h, h[b].released
          PROVE  MulDec(rest[user][b], h[b].withdraw_rate) = 0
      <4>1. rest[user][b] = 0 /\ h[b].withdraw_rate \in Nat
            BY <2>1, <3>1 DEF LedgerType, HistoryType
      <4>2. One \in Nat \ {0}  BY FixedPointAssumption
      <4>3. 0 * h[b].withdraw_rate = 0 /\ 0 \div One = 0  BY <4>1, <4>2
      <4> QED  BY <4>1, <4>3 DEF MulDec
    <3> QED  BY <3>1 DEF Row
  <2>3. Row(rest, h, user) \in [DOMAIN h -> Nat] /\ IsFiniteSet(DOMAIN h)
        BY <1>1, OwesTypes
  <2>4. SumOf(Row(rest, h, user)) = 0  BY <2>2, <2>3, SumZero
  <2> QED  BY <2>4
<1>5. old[user] = SumOf(Row(list, h, user)) /\ old[user] \in Nat  BY OwesTypes
<1>6. Owes(list, h) = SumOf(old) /\ Owes(rest, h) = SumOf(new)  BY DEF Owes
<1>7. SumOf(old) \in Int  BY <1>2, SumInt
<1> HIDE DEF old, new
<1>8. SumOf(new) = SumOf(old) - old[user] + new[user]
      BY ONLY <1>2, <1>3, user \in Users, SumUpdate
<1> QED  BY <1>4, <1>5, <1>6, <1>7, <1>8

(* A new batch that is not released owes nothing.                          *)
LEMMA CloseOwes ==
  ASSUME NEW list, NEW h, LedgerType(list, h), NEW next, NEW g, LedgerType(next, g),
         NEW id, DOMAIN g = DOMAIN h \cup {id}, ~g[id].released,
         \A b \in DOMAIN h : b # id => g[b] = h[b],
         id \notin DOMAIN h,
         \A u \in Users, b \in DOMAIN h : next[u][b] = list[u][b]
  PROVE  Owes(next, g) = Owes(list, h)
<1>1. ASSUME NEW u \in Users PROVE SumOf(Row(next, g, u)) = SumOf(Row(list, h, u))
  <2> DEFINE D == DOMAIN h
             E == DOMAIN g
             f == Row(next, g, u)
  <2>1. f \in [E -> Nat] /\ IsFiniteSet(E)  BY OwesTypes
  <2>2. D \in SUBSET E  OBVIOUS
  <2>3. Row(list, h, u) = [b \in D |-> f[b]]
    <3>1. \A b \in D : b # id /\ b \in E /\ g[b] = h[b] /\ next[u][b] = list[u][b]
          OBVIOUS
    <3> QED  BY <3>1 DEF Row
  <2>4. f = [b \in E |-> IF b \in D THEN f[b] ELSE 0]
    <3>1. \A b \in E : b \notin D => f[b] = 0  BY DEF Row
    <3> HIDE DEF f, D, E
    <3> QED  BY <2>1, <3>1
  <2>5. f \in [E -> Int]  BY <2>1
  <2> HIDE DEF f, D, E
  <2>6. SumOf([b \in D |-> f[b]]) = SumOf([b \in E |-> IF b \in D THEN f[b] ELSE 0])
        BY ONLY <2>1, <2>2, <2>5, SumPart
  <2> QED  BY <2>3, <2>4, <2>6 DEF f
<1>2. [u \in Users |-> SumOf(Row(next, g, u))] = [u \in Users |-> SumOf(Row(list, h, u))]
      BY <1>1
<1> QED  BY <1>2 DEF Owes

-----------------------------------------------------------------------------

(* The coins that have arrived pay for all batches a withdrawal releases,  *)
(* but for one coin each, and for all of it if some have arrived and no    *)
(* batch is worth nothing.                                                 *)
LEMMA ReleaseCosts ==
  ASSUME Requests, SharesDistinct,
         NEW t, t = TotalUnbonded, NEW x \in Nat,
         NEW s, s = FromSubtraction(t, x), Processable(t, s),
         NEW g, g = ReleasedHistory(t, s)
  PROVE  /\ LedgerType(wait_list, g)
         /\ Owes(wait_list, g) <= Obligations + x + Cardinality(MaturedBatches)
         /\ (MaturedBatches # {} => x > 0)
              /\ (\A b \in MaturedBatches : UnbondedAmount(b) > 0)
              => Owes(wait_list, g) <= Obligations + x
<1> DEFINE M == MaturedBatches
           D == DOMAIN history
           n == Cardinality(M)
           u == [b \in M |-> UnbondedAmount(b)]
           val == [b \in M |-> ActualUnbondedOf(b, t, s)]
<1>1. /\ TypeOK /\ RequestsConserved /\ M \subseteq D /\ D \subseteq BatchIds
      /\ LedgerType(wait_list, history)
      /\ \A b \in D : history[b] \in HistoryType
      BY DEF Requests, Order, TypeOK, MaturedBatches, LedgerType
<1>2. IsFiniteSet(M) /\ IsFiniteSet(D) /\ n \in Nat /\ One \in Nat \ {0}
      BY <1>1, BatchesFinite, FS_Subset, FS_CardinalityType, FixedPointAssumption
<1>3. u \in [M -> Nat]
  <2>1. \A b \in M : UnbondedAmount(b) \in Nat
        BY <1>1, MulDecBounds DEF UnbondedAmount, HistoryType
  <2> QED  BY <2>1
<1>4. t = SumOf(u) /\ t \in Nat
  <2>1. t = SumOf(u)  BY DEF TotalUnbonded
  <2> HIDE DEF u, M
  <2> QED  BY <1>2, <1>3, <2>1, SumNat
<1>5. /\ s.value = IF t >= x THEN t - x ELSE x - t
      /\ s.negative <=> t < x
      /\ s \in [value : Nat, negative : BOOLEAN]
  <2>1. t \in Nat /\ x \in Nat /\ s = FromSubtraction(t, x)  BY <1>4
  <2>2. s \in [value : Nat, negative : BOOLEAN]  BY ONLY <2>1 DEF FromSubtraction
  <2> QED  BY ONLY <2>1, <2>2, SubtractionParts
<1>6. /\ DOMAIN g = D /\ \A b \in D : g[b] \in HistoryType
      /\ LedgerType(wait_list, g)
  <2>1. DOMAIN g = D /\ \A b \in D : g[b] \in HistoryType
        BY <1>1, <1>4, <1>5, ReleasedHistoryType
  <2> QED  BY <1>1, <2>1 DEF LedgerType
<1>7. Obligations \in Nat /\ Obligations = Owes(wait_list, history)
      BY <1>1, ObligationsOwed, OwesTypes
<1>8. CASE M = {}
  <2>1. \A b \in D : g[b] = history[b]  BY <1>8 DEF ReleasedHistory
  <2>2. \A w \in Users : Row(wait_list, g, w) = Row(wait_list, history, w)
        BY <1>6, <2>1 DEF Row
  <2>3. Owes(wait_list, g) = Owes(wait_list, history)
    <3>1. [w \in Users |-> SumOf(Row(wait_list, g, w))]
            = [w \in Users |-> SumOf(Row(wait_list, history, w))]
          BY <2>2
    <3> QED  BY <3>1 DEF Owes
  <2> HIDE DEF n
  <2> QED  BY <1>2, <1>6, <1>7, <2>3 DEF n
<1>9. CASE M # {}
  <2>1. t \in Nat \ {0}  BY <1>4, <1>9 DEF Processable
  <2>2. n \in Nat \ {0}  BY <1>2, <1>9, FS_EmptySet
  <2> DEFINE k == RoundingError(t, x)
             Fit(b, w) == FairPart(u[b], t, x, val[b], w)
  <2>3. ASSUME NEW b \in M
        PROVE  val[b] \in Nat /\ k \in Nat /\ \E w \in Nat : Fit(b, w)
    <3>1. u[b] \in Nat /\ u[b] = UnbondedAmount(b)  BY <1>3
    <3> DEFINE share == MulDec(s.value, FromRatio(u[b], t))
    <3>2. share = SlashedShare(b, t, s)  BY <3>1 DEF SlashedShare
    <3>3. s.negative => share >= 1  BY <3>2 DEF Processable
    <3>4. val[b] = Released(u[b], share, s)
          BY <3>1, <3>2 DEF ActualUnbondedOf, RoundedLoss, Released
    <3>5. s = FromSubtraction(t, x) /\ x \in Nat  OBVIOUS
    <3> HIDE DEF share, u, val, M
    <3>6. share = MulDec(s.value, FromRatio(u[b], t))  BY DEF share
    <3> QED  BY ONLY <2>1, <3>1, <3>3, <3>4, <3>5, <3>6, ReleaseValue
  <2>4. k \in Nat  BY <1>9, <2>3
  <2>5. val \in [M -> Nat]
    <3>1. \A b \in M : val[b] \in Nat  BY <2>3
    <3> QED  BY <3>1
  <2> DEFINE w == [b \in M |-> CHOOSE y \in Nat : Fit(b, y)]
  <2>6. \A b \in M : w[b] \in Nat /\ Fit(b, w[b])
    <3> HIDE DEF Fit, M
    <3> QED  BY <2>3
  <2>7. w \in [M -> Nat]
    <3>1. \A b \in M : w[b] \in Nat  BY <2>6
    <3> HIDE DEF Fit
    <3> QED  BY <3>1
  <2> HIDE DEF w
  <2>8. n * k < One * t
    <3>1. n * t <= One  BY DEF SharesDistinct
    <3> HIDE DEF n
    <3>2. CASE x < t
      <4>1. PICK e \in Nat : e = t - x /\ e <= t  BY <2>1, <3>2
      <4>2. n * e <= One
        <5>1. n * e <= n * t /\ n * e \in Nat /\ n * t \in Nat  BY <2>1, <2>2, <4>1
        <5> QED  BY <1>2, <3>1, <5>1
      <4>3. (n * e) * t <= One * t
        <5>1. n * e \in Nat  BY <2>2, <4>1
        <5> QED  BY <1>2, <2>1, <4>2, <5>1
      <4>4. n * k = (n * e) * t - n
        <5>1. k = e * t - 1  BY <3>2, <4>1 DEF RoundingError
        <5>2. PICK p \in Nat : p = e * t  BY <2>1, <4>1
        <5>3. n * (p - 1) = n * p - n  BY <2>2
        <5>4. n * (e * t) = (n * e) * t  BY <2>1, <2>2, <4>1
        <5> QED  BY <5>1, <5>2, <5>3, <5>4
      <4>5. (n * e) * t \in Nat /\ One * t \in Nat  BY <1>2, <2>1, <2>2, <4>1
      <4> HIDE DEF k
      <4> QED  BY <2>2, <4>3, <4>4, <4>5
    <3>3. CASE ~(x < t)
      <4>1. n * 0 = 0 /\ One * t \in Nat \ {0}  BY <1>2, <2>1, <2>2
      <4> QED  BY <3>3, <4>1 DEF RoundingError
    <3> QED  BY <3>2, <3>3
  <2>9. SumOf(w) <= x
    <3>1. \A b \in M : One * (t * w[b]) <= One * (x * u[b]) + k
          BY <2>6 DEF FairPart
    <3>2. x \in Nat /\ Cardinality(M) * k < One * t  BY <2>8
    <3> HIDE DEF M, u, k
    <3> QED  BY ONLY <1>2, <1>3, <1>4, <2>1, <2>4, <2>7, <3>1, <3>2, SharesFit
  <2>10. SumOf(w) \in Nat /\ SumOf(val) \in Nat
    <3> HIDE DEF M, val
    <3> QED  BY <1>2, <2>5, <2>7, SumNat
  <2>11. SumOf(val) <= x + n
    <3> DEFINE y == Affine(1, 1, w)
    <3>1. y \in [M -> Int] /\ SumOf(y) = 1 * SumOf(w) + Cardinality(M) * 1
      <4>1. w \in [M -> Int] /\ IsFiniteSet(M) /\ 1 \in Int  BY <1>2, <2>7
      <4> HIDE DEF M
      <4> QED  BY ONLY <4>1, SumAffine
    <3>2. \A b \in M : val[b] <= y[b]
      <4>1. \A b \in M : y[b] = 1 * w[b] + 1 /\ w[b] \in Nat /\ val[b] <= w[b] + 1
            BY <2>6, <2>7 DEF Affine, FairPart
      <4> HIDE DEF y, val, M
      <4> QED  BY <4>1
    <3>3. val \in [M -> Int]  BY <2>5
    <3> HIDE DEF y, val, M
    <3>4. SumOf(val) <= SumOf(y)  BY <1>2, <3>1, <3>2, <3>3, SumMonotone
    <3> HIDE DEF n
    <3>5. SumOf(y) = SumOf(w) + n  BY <1>2, <2>10, <3>1 DEF n
    <3> QED  BY <1>2, <2>9, <2>10, <3>4, <3>5
  <2>12. x > 0 /\ (\A b \in M : UnbondedAmount(b) > 0) => SumOf(val) <= x
    <3> SUFFICES ASSUME x > 0, \A b \in M : UnbondedAmount(b) > 0
                 PROVE  SumOf(val) <= x
        OBVIOUS
    <3>1. \A b \in M : u[b] > 0  OBVIOUS
    <3>2. \A b \in M : val[b] = w[b]  BY <2>6, <3>1 DEF FairPart
    <3>3. val = w
      <4> HIDE DEF val, M
      <4> QED  BY <2>5, <2>7, <3>2
    <3> QED  BY <2>9, <3>3
  <2> DEFINE vv == [b \in D |-> IF b \in M THEN val[b] ELSE 0]
  <2>13. vv \in [D -> Nat]  BY <2>5
  <2>14. SumOf(vv) = SumOf(val)
    <3>1. vv = [b \in D |-> IF b \in M THEN vv[b] ELSE 0]  OBVIOUS
    <3>2. val = [b \in M |-> vv[b]]  BY <1>1, <2>5
    <3>3. vv \in [D -> Int] /\ M \in SUBSET D /\ IsFiniteSet(D)  BY <1>1, <1>2, <2>13
    <3> HIDE DEF vv, val, M, D
    <3>4. SumOf([b \in M |-> vv[b]]) = SumOf([b \in D |-> IF b \in M THEN vv[b] ELSE 0])
          BY ONLY <3>3, SumPart
    <3> QED  BY <3>1, <3>2, <3>4
  <2>15. ASSUME NEW b \in D
         PROVE  BatchOwes(wait_list, g, b) <= BatchOwes(wait_list, history, b) + vv[b]
    <3>1. BatchOwes(wait_list, history, b) \in Nat /\ BatchOwes(wait_list, g, b) \in Nat
          BY <1>1, <1>6, OwesTypes
    <3>2. CASE b \notin M
      <4>1. g[b] = history[b] /\ vv[b] = 0  BY <3>2 DEF ReleasedHistory
      <4>2. \A y \in Users : Row(wait_list, g, y)[b] = Row(wait_list, history, y)[b]
            BY <1>6, <4>1 DEF Row
      <4>3. BatchOwes(wait_list, g, b) = BatchOwes(wait_list, history, b)
        <5>1. [y \in Users |-> Row(wait_list, g, y)[b]]
                = [y \in Users |-> Row(wait_list, history, y)[b]]
              BY <4>2
        <5> QED  BY <5>1 DEF BatchOwes
      <4> HIDE DEF vv
      <4> QED  BY <3>1, <4>1, <4>3
    <3>3. CASE b \in M
      <4> DEFINE a == [y \in Users |-> wait_list[y][b]]
                 m == [y \in Users |-> Row(wait_list, g, y)[b]]
      <4>1. b \in BatchIds /\ ~history[b].released /\ history[b].amount > 0
        <5>1. b \in Nat /\ b > state.last_processed_batch
              BY <1>1, <3>3, HubAssumption DEF BatchIds, MaturedBatches
        <5>2. b \in (state.last_processed_batch + 1)..b
              BY <1>1, <5>1 DEF TypeOK, StateType
        <5>3. Releasable(b)  BY <3>3, <5>2 DEF MaturedBatches
        <5> QED  BY <1>1, <3>3, <5>3 DEF Releasable, Processable
      <4>2. SumOf(a) = history[b].amount /\ SumOf(a) # 0
        <5>1. RequestsOf(b) = history[b].amount /\ history[b].amount \in Nat
              BY <1>1, <4>1 DEF RequestsConserved, HistoryType
        <5> QED  BY <4>1, <5>1 DEF RequestsOf
      <4>3. a \in [Users -> Nat] /\ IsFiniteSet(Users)
        <5>1. \A y \in Users : wait_list[y][b] \in Nat  BY <1>1, <4>1 DEF LedgerType
        <5> QED  BY <5>1, HubAssumption
      <4>4. m \in [Users -> Nat]  BY <1>6, OwesTypes
      <4>5. /\ g[b].released
            /\ g[b].withdraw_rate = FromRatio(val[b], history[b].amount)
        <5>1. g[b] = [history[b] EXCEPT
                        !.withdraw_rate = FromRatio(val[b], history[b].amount),
                        !.released = TRUE]
              BY <3>3 DEF ReleasedHistory
        <5>2. history[b] \in HistoryType  BY <1>1
        <5> QED  BY <5>1, <5>2 DEF HistoryType
      <4>6. \A y \in Users : m[y] = MulDec(a[y], FromRatio(val[b], SumOf(a)))
        <5>1. \A y \in Users :
                m[y] = MulDec(wait_list[y][b], FromRatio(val[b], history[b].amount))
              BY <1>6, <4>5 DEF Row
        <5> HIDE DEF m, val
        <5>2. \A y \in Users : a[y] = wait_list[y][b]  OBVIOUS
        <5> HIDE DEF a
        <5> QED  BY <4>2, <5>1, <5>2
      <4>7. SumOf(m) = BatchOwes(wait_list, g, b) /\ vv[b] = val[b] /\ val[b] \in Nat
            BY <2>5, <3>3 DEF BatchOwes
      <4> HIDE DEF a, m, val, vv, M, D
      <4>8. SumOf(m) <= val[b]
            BY ONLY <4>2, <4>3, <4>4, <4>6, <4>7, PaymentsFit
      <4> QED  BY <3>1, <4>7, <4>8
    <3> QED  BY <3>2, <3>3
  <2> HIDE DEF vv
  <2>16. Owes(wait_list, g) <= Owes(wait_list, history) + SumOf(vv)
         BY <1>1, <1>6, <2>13, <2>15, ReleaseOwes
  <2>17. Owes(wait_list, g) \in Nat  BY <1>6, OwesTypes
  <2> HIDE DEF val, n
  <2>18. Owes(wait_list, g) <= Obligations + x + n
         BY <1>2, <1>7, <2>10, <2>11, <2>14, <2>16, <2>17
  <2>19. SumOf(val) <= x => Owes(wait_list, g) <= Obligations + x
         BY <1>7, <2>10, <2>14, <2>16, <2>17
  <2> QED  BY <1>6, <1>9, <2>12, <2>18, <2>19 DEF n
<1> QED  BY <1>8, <1>9

-----------------------------------------------------------------------------

(* The balances process_withdraw_rate works with: nothing is carried in    *)
(* actual_unbonded_amount, and the hub spends only in a withdrawal.        *)
Balances ==
  /\ Requests
  /\ state.actual_unbonded_amount = 0
  /\ state.prev_hub_balance <= hub_balance

(* What is owed beyond the balance kept.                                   *)
Short == Obligations - state.prev_hub_balance

(* A withdrawal leaves the hub short by at most one coin more for every    *)
(* batch it releases, and by none if the release is funded.                *)
LEMMA WithdrawOwes ==
  ASSUME Balances, SharesDistinct, NEW user \in Users, WithdrawUnbonded(user)
  PROVE  /\ Balances'
         /\ Short \in Int /\ Short' \in Int
         /\ Short' <= Short + (state'.last_processed_batch - state.last_processed_batch)
         /\ /\ MaturedBatches # {} => ActualUnbonded > 0
            /\ \A b \in MaturedBatches : UnbondedAmount(b) > 0
            => Short' <= Short
<1> DEFINE x == ActualUnbonded
           H == hub_balance
           P == state.prev_hub_balance
           lp == state.last_processed_batch
<1>1. /\ Requests /\ Order /\ TypeOK /\ Requests' /\ state \in StateType /\ H \in Nat
      /\ P \in Nat /\ P <= H /\ state.actual_unbonded_amount = 0 /\ lp \in Nat
      /\ LedgerType(wait_list, history) /\ current_batch.id \in Nat
      BY WithdrawRequests DEF Balances, Requests, Order, TypeOK, StateType, LedgerType
<1>2. x = H - P /\ x \in Nat
  <2>1. FromSubtraction(H, P).value = H - P  BY <1>1, SubtractionParts
  <2>2. x = 0 + (H - P)  BY <1>1, <2>1 DEF ActualUnbonded
  <2> QED  BY <1>1, <2>2
<1>3. PICK last \in lp..(current_batch.id - 1) : WithdrawUpTo(user, last)
      BY DEF WithdrawUnbonded
<1>4. PICK t, s, g :
        /\ t = TotalUnbonded /\ s = FromSubtraction(t, x) /\ g = ReleasedHistory(t, s)
        /\ MaturedBatches = (lp + 1)..last
        /\ Processable(t, s)
        /\ PayOut(user, last, g, FinishedAmount(user, g))
      BY <1>3 DEF WithdrawUpTo
<1>5. PICK F : /\ F = SumOf(Row(wait_list, g, user))
               /\ PayOut(user, last, g, F)
      BY <1>4 DEF FinishedAmount, Owed, Row
<1>6. last \in Nat /\ lp <= last  BY <1>1, <1>3
<1>7. Cardinality(MaturedBatches) = last - lp
  <2>1. CASE lp < last
    <3>1. lp + 1 \in Int /\ last \in Int /\ ~(lp + 1 > last)  BY <1>1, <1>6, <2>1
    <3>2. Cardinality((lp + 1)..last) = last - (lp + 1) + 1  BY <3>1, FS_Interval
    <3> QED  BY <1>1, <1>4, <1>6, <3>2
  <2>2. CASE lp = last
    <3>1. MaturedBatches = {}  BY <1>1, <1>4, <2>2
    <3>2. Cardinality({}) = 0  BY FS_EmptySet
    <3> QED  BY <1>1, <2>2, <3>1, <3>2
  <2> QED  BY <1>1, <1>6, <2>1, <2>2
<1>8. /\ LedgerType(wait_list, g)
      /\ Owes(wait_list, g) <= Obligations + x + (last - lp)
      /\ (MaturedBatches # {} => x > 0)
           /\ (\A b \in MaturedBatches : UnbondedAmount(b) > 0)
           => Owes(wait_list, g) <= Obligations + x
  <2> HIDE DEF x
  <2> QED  BY <1>1, <1>2, <1>4, <1>7, ReleaseCosts
<1>9. /\ Obligations \in Nat /\ Obligations = Owes(wait_list, history)
      /\ Owes(wait_list, g) \in Nat /\ F \in Nat
      BY <1>1, <1>5, <1>8, ObligationsOwed, OwesTypes
<1>10. /\ history' = g /\ hub_balance' = H - F /\ F <= H
       /\ wait_list' = [wait_list EXCEPT ![user] = RemainingRequests(user, g)]
       /\ state'.prev_hub_balance = H - F /\ state'.last_processed_batch = last
       /\ state'.actual_unbonded_amount = 0
       BY <1>1, <1>5 DEF PayOut, StateType
<1>11. Obligations' = Owes(wait_list, g) - F
  <2>1. RemainingRequests(user, g) \in [BatchIds -> Nat]
        BY <1>1 DEF RemainingRequests, LedgerType
  <2>2. \A b \in DOMAIN g : g[b].released => RemainingRequests(user, g)[b] = 0
        BY <1>8 DEF RemainingRequests, LedgerType
  <2>3. Owes(wait_list', g) = Owes(wait_list, g) - F
        BY <1>5, <1>8, <1>10, <2>1, <2>2, PaymentOwes
  <2>4. Obligations' = Owes(wait_list', history')
        BY DEF Obligations, FinishedAmount, Owed, Owes, Row
  <2> QED  BY <1>10, <2>3, <2>4
<1>12. Balances'  BY <1>1, <1>9, <1>10 DEF Balances
<1>13. /\ Short' = Owes(wait_list, g) - F - (H - F) /\ Short = Obligations - P
       BY <1>10, <1>11 DEF Short
<1> HIDE DEF x, H, P, lp
<1>15. Short \in Int /\ Short' \in Int  BY <1>1, <1>9, <1>10, <1>13
<1>16. Short' <= Short + (last - lp)
       BY <1>1, <1>2, <1>6, <1>8, <1>9, <1>10, <1>13
<1>17. Owes(wait_list, g) <= Obligations + x => Short' <= Short
       BY <1>1, <1>2, <1>9, <1>10, <1>13
<1> QED  BY <1>8, <1>10, <1>12, <1>15, <1>16, <1>17 DEF lp, x

(* A burn owes nothing yet.                                                *)
LEMMA UnbondOwes ==
  ASSUME Requests, NEW user \in Users, NEW amount \in UnbondAmounts,
         Unbond(user, amount)
  PROVE  Obligations' = Obligations
<1> DEFINE id == current_batch.id
<1>1. /\ TypeOK /\ TypeOK' /\ id \in Nat \ {0} /\ DOMAIN history = 1..(id - 1)
      /\ LedgerType(wait_list, history) /\ LedgerType(wait_list', history')
      BY UnbondRequests DEF Requests, Order, TypeOK, BatchesInOrder, LedgerType
<1>2. id \notin DOMAIN history  BY <1>1
<1>3. \A u \in Users, b \in DOMAIN history : wait_list'[u][b] = wait_list[u][b]
  <2>1. wait_list' = [wait_list EXCEPT ![user] =
          [wait_list[user] EXCEPT ![id] = wait_list[user][id] + AmountWithFee(amount)]]
        BY DEF Unbond
  <2>2. \A b \in DOMAIN history : b # id /\ b \in BatchIds  BY <1>1, <1>2 DEF LedgerType
  <2>3. wait_list \in [Users -> [BatchIds -> Nat]]  BY <1>1 DEF LedgerType
  <2>4. wait_list[user] \in [BatchIds -> Nat]  BY <2>3
  <2> HIDE DEF id
  <2> QED  BY <2>1, <2>2, <2>3, <2>4
<1>4. Obligations' = Owes(wait_list', history')
      BY DEF Obligations, FinishedAmount, Owed, Owes, Row
<1>5. CASE JoinBatch(amount)
  <2>1. history' = history  BY <1>5 DEF JoinBatch
  <2>2. \A u \in Users : Row(wait_list', history, u) = Row(wait_list, history, u)
        BY <1>3 DEF Row
  <2>3. [u \in Users |-> SumOf(Row(wait_list', history, u))]
          = [u \in Users |-> SumOf(Row(wait_list, history, u))]
        BY <2>2
  <2>4. Owes(wait_list', history) = Owes(wait_list, history)  BY <2>3 DEF Owes
  <2> QED  BY <1>4, <2>1, <2>4, ObligationsOwed
<1>6. CASE CloseBatch(amount)
  <2>1. /\ DOMAIN history' = DOMAIN history \cup {id}
        /\ ~history'[id].released
        /\ \A b \in DOMAIN history : b # id => history'[b] = history[b]
        BY <1>6 DEF CloseBatch, Put
  <2> HIDE DEF id
  <2>2. Owes(wait_list', history') = Owes(wait_list, history)
        BY <1>1, <1>2, <1>3, <2>1, CloseOwes
  <2> QED  BY <1>4, <2>2, ObligationsOwed
<1> QED  BY <1>5, <1>6 DEF Unbond

(* No other step changes what is owed, or the record of the balance.       *)
LEMMA OtherOwes ==
  ASSUME Balances, [Next]_vars
  PROVE  \/ \E user \in Users : WithdrawUnbonded(user)
         \/ /\ Balances' /\ Obligations' = Obligations
            /\ state'.prev_hub_balance = state.prev_hub_balance
            /\ state'.last_processed_batch = state.last_processed_batch
<1> DEFINE Same == /\ state'.prev_hub_balance = state.prev_hub_balance
                   /\ state'.last_processed_batch = state.last_processed_batch
                   /\ state'.actual_unbonded_amount = state.actual_unbonded_amount
                   /\ hub_balance' >= hub_balance
<1>1. /\ TypeOK /\ state \in StateType /\ hub_balance \in Nat /\ Requests'
      /\ Requests /\ TypeOK' /\ hub_balance' \in Nat
      /\ hub_balance >= hub_balance
      BY NextRequests DEF Balances, Requests, Order, TypeOK
<1>2. /\ AfterSlashing \in StateType
      /\ AfterSlashing.prev_hub_balance = state.prev_hub_balance
      /\ AfterSlashing.last_processed_batch = state.last_processed_batch
      /\ AfterSlashing.actual_unbonded_amount = state.actual_unbonded_amount
      BY <1>1, AfterSlashingType DEF AfterSlashing, StateType
<1>3. Same => Balances'
      BY <1>1 DEF Balances, StateType
<1>4. UNCHANGED <<wait_list, history>> => Obligations' = Obligations
      BY DEF Obligations, FinishedAmount, Owed
<1>5. CASE CheckSlashing
  <2>1. Same /\ UNCHANGED <<wait_list, history>>
        BY <1>1, <1>2, <1>5 DEF CheckSlashing, chainVars
  <2> QED  BY <1>3, <1>4, <2>1
<1>6. ASSUME NEW payment \in BondAmounts, Bond(payment)
      PROVE  Same /\ UNCHANGED <<wait_list, history>>
      BY <1>1, <1>2, <1>6 DEF Bond, StateType
<1>7. ASSUME NEW user \in Users, NEW amount \in UnbondAmounts, Unbond(user, amount)
      PROVE  Same /\ Obligations' = Obligations
  <2>1. Obligations' = Obligations  BY <1>1, <1>7, UnbondOwes
  <2>2. hub_balance' = hub_balance  BY <1>7 DEF Unbond
  <2>3. CASE JoinBatch(amount)
        BY <1>1, <1>2, <2>1, <2>2, <2>3 DEF JoinBatch, StateType
  <2>4. CASE CloseBatch(amount)
        BY <1>1, <1>2, <2>1, <2>2, <2>4 DEF CloseBatch, StateType
  <2> QED  BY <1>7, <2>3, <2>4 DEF Unbond
<1>8. ASSUME NEW reward \in RewardAmounts, UpdateGlobalIndex(reward)
      PROVE  Same /\ UNCHANGED <<wait_list, history>>
      BY <1>1, <1>8 DEF UpdateGlobalIndex, StateType
<1>9. CASE Administer \/ UNCHANGED vars
  <2>1. Same /\ UNCHANGED <<wait_list, history>>
        BY <1>1, <1>9 DEF Administer, vars, ledgerVars, chainVars
  <2> QED  BY <1>3, <1>4, <2>1
<1>10. CASE Chain
  <2>1. UNCHANGED <<state, wait_list, history>>
        BY <1>10 DEF Chain, EndBlock, SlashStake, SlashUnbonding, Donate, ledgerVars
  <2>2. hub_balance' >= hub_balance
    <3>1. ASSUME NEW interval \in BlockIntervals, EndBlock(interval)
          PROVE  hub_balance' >= hub_balance
      <4>1. PICK n \in Nat : hub_balance' = hub_balance + n
            BY <1>1, <3>1, ArrivedNat DEF EndBlock
      <4> QED  BY <1>1, <4>1
    <3>2. ASSUME NEW amount \in Donations, Donate(amount)
          PROVE  hub_balance' >= hub_balance
      <4>1. amount \in Nat  BY HubAssumption
      <4> QED  BY <1>1, <3>2, <4>1 DEF Donate
    <3>3. (\E loss \in StakeSlashes : SlashStake(loss))
            \/ (\E b \in DOMAIN unbonding, loss \in UnbondingSlashes :
                  SlashUnbonding(b, loss))
            => hub_balance' >= hub_balance
          BY <1>1 DEF SlashStake, SlashUnbonding
    <3> QED  BY <1>10, <3>1, <3>2, <3>3 DEF Chain
  <2> QED  BY <1>3, <1>4, <2>1, <2>2
<1> HIDE DEF Same
<1>11. CASE \/ \E payment \in BondAmounts : Bond(payment)
            \/ \E user \in Users, amount \in UnbondAmounts : Unbond(user, amount)
            \/ \E reward \in RewardAmounts : UpdateGlobalIndex(reward)
  <2>1. Same /\ Obligations' = Obligations  BY <1>4, <1>6, <1>7, <1>8, <1>11
  <2> QED  BY <1>3, <2>1 DEF Same
<1> QED  BY <1>5, <1>9, <1>10, <1>11 DEF Next, Message

-----------------------------------------------------------------------------

(* Batches are closed one after the other.                                 *)
LEMMA TimesOrdered ==
  ASSUME Order, NEW b \in DOMAIN history, NEW k \in 1..b
  PROVE  k \in DOMAIN history /\ history[k].time <= history[b].time
<1>1. /\ current_batch.id \in Nat /\ DOMAIN history = 1..(current_batch.id - 1)
      /\ \A c \in DOMAIN history : history[c].time \in Nat
      /\ \A c \in DOMAIN history :
           c + 1 \in DOMAIN history => history[c].time < history[c + 1].time
      BY DEF Order, TypeOK, BatchesInOrder, HistoryType
<1>2. /\ b \in Nat /\ \A c \in 1..b : c \in DOMAIN history  BY <1>1
<1> DEFINE T(c) == history[c].time
           B == {j \in Nat : j < b /\ T(b) < T(b - j)}
<1>3. B = {}
  <2>1. SUFFICES ASSUME B # {} PROVE FALSE  OBVIOUS
  <2>2. PICK j \in B : \A i \in B : j <= i
    <3>1. B \in SUBSET Nat  OBVIOUS
    <3> QED  BY <2>1, <3>1, LeastNatural
  <2>3. j \in Nat /\ j < b /\ T(b) < T(b - j)  OBVIOUS
  <2>4. j # 0
    <3>1. SUFFICES ASSUME j = 0 PROVE FALSE  OBVIOUS
    <3>2. b - j = b  BY <1>2, <3>1
    <3>3. T(b) \in Nat  BY <1>1
    <3>4. T(b) < T(b)  BY <2>3, <3>2
    <3> HIDE DEF T
    <3> QED  BY <3>3, <3>4
  <2>5. /\ j - 1 \in Nat /\ j - 1 < b /\ b - j \in 1..b /\ b - (j - 1) \in 1..b
        /\ b - (j - 1) = (b - j) + 1 /\ ~(j <= j - 1)
        BY <1>2, <2>3, <2>4
  <2>6. ~(T(b) < T(b - (j - 1)))  BY <2>2, <2>5
  <2>7. T(b - j) < T(b - (j - 1))  BY <1>1, <1>2, <2>5
  <2>8. T(b) \in Nat /\ T(b - j) \in Nat /\ T(b - (j - 1)) \in Nat
        BY <1>1, <1>2, <2>5
  <2> HIDE DEF T
  <2> QED  BY <2>3, <2>6, <2>7, <2>8
<1>4. b - k \in Nat /\ b - k < b /\ b - (b - k) = k  BY <1>2
<1>5. ~(T(b) < T(k))  BY <1>3, <1>4
<1>6. T(b) \in Nat /\ T(k) \in Nat  BY <1>1, <1>2
<1> HIDE DEF T
<1>7. T(k) <= T(b)  BY <1>5, <1>6
<1> QED  BY <1>2, <1>7 DEF T

(* A batch that is ripe and not released would be released now.            *)
LEMMA RipeMatured ==
  ASSUME Order, NEW b \in DOMAIN history, ~history[b].released,
         history[b].time <= now - params.unbonding_period
  PROVE  b \in MaturedBatches
<1> DEFINE last == state.last_processed_batch
           ripe == now - params.unbonding_period
<1>1. /\ b \in Nat /\ last \in Nat
      /\ \A k \in DOMAIN history : history[k].time \in Nat
      /\ \A k \in DOMAIN history : history[k].released <=> k <= last
  <2>1. /\ b \in BatchIds /\ state \in StateType
        /\ \A k \in DOMAIN history : history[k] \in HistoryType
        BY DEF Order, TypeOK
  <2>2. b \in Nat /\ last \in Nat  BY <2>1, HubAssumption DEF StateType, BatchIds
  <2>3. \A k \in DOMAIN history : history[k].time \in Nat  BY <2>1 DEF HistoryType
  <2>4. \A k \in DOMAIN history : history[k].released <=> k <= last
        BY DEF Order, BatchesInOrder
  <2> QED  BY <2>2, <2>3, <2>4
<1>2. b > last /\ ripe \in Int
  <2>1. now \in Nat /\ params.unbonding_period \in Nat
        BY DEF Order, TypeOK, ConfigTypeOK, ParamFields
  <2> QED  BY <1>1, <2>1
<1>3. ASSUME NEW k \in (last + 1)..b PROVE Releasable(k)
  <2>1. k \in 1..b /\ k > last  BY <1>1
  <2>2. k \in DOMAIN history /\ history[k].time <= history[b].time
        BY <2>1, TimesOrdered
  <2>3. ~history[k].released  BY <1>1, <2>1, <2>2
  <2>4. history[k].time <= ripe
    <3>1. history[k].time \in Nat /\ history[b].time \in Nat  BY <1>1, <2>2
    <3>2. history[b].time <= ripe  OBVIOUS
    <3> HIDE DEF ripe
    <3> QED  BY <1>2, <2>2, <3>1, <3>2
  <2> QED  BY <2>2, <2>3, <2>4 DEF Releasable
<1> QED  BY <1>2, <1>3 DEF MaturedBatches

(* A withdrawal changes only the batches it releases.                      *)
LEMMA UnreleasedKept ==
  ASSUME TypeOK, NEW user \in Users, WithdrawUnbonded(user)
  PROVE  /\ DOMAIN history' = DOMAIN history
         /\ \A b \in DOMAIN history : ~history'[b].released => history'[b] = history[b]
<1>1. PICK t, s : history' = ReleasedHistory(t, s)
      BY DEF WithdrawUnbonded, WithdrawUpTo, PayOut
<1>2. DOMAIN history' = DOMAIN history  BY <1>1 DEF ReleasedHistory
<1>3. ASSUME NEW b \in DOMAIN history, ~history'[b].released
      PROVE  history'[b] = history[b]
  <2>1. b \notin MaturedBatches
    <3>1. SUFFICES ASSUME b \in MaturedBatches PROVE FALSE  OBVIOUS
    <3>2. history[b] \in HistoryType  BY DEF TypeOK
    <3>3. history'[b] = [history[b] EXCEPT
             !.withdraw_rate = FromRatio(ActualUnbondedOf(b, t, s), history[b].amount),
             !.released = TRUE]
          BY <1>1, <3>1 DEF ReleasedHistory
    <3> QED  BY <1>3, <3>2, <3>3 DEF HistoryType
  <2> QED  BY <1>1, <2>1 DEF ReleasedHistory
<1> QED  BY <1>2, <1>3

(* No batch is worth more than the largest stake.                          *)
Small ==
  /\ Order
  /\ state.total_bond_amount <= MaxStake
  /\ \A b \in DOMAIN history : ~history[b].released => UnbondedAmount(b) <= MaxStake

(* Small is inductive.                                                     *)
LEMMA NextSmall == Small /\ [Next]_vars => Small'
<1> SUFFICES ASSUME Small, [Next]_vars PROVE Small'  OBVIOUS
<1>1. /\ TypeOK /\ Order /\ Order' /\ state \in StateType /\ staked \in Nat
      /\ state.total_bond_amount \in Nat /\ state.total_bond_amount <= MaxStake
      /\ MaxStake \in Nat /\ current_batch.id \in Nat \ {0}
      /\ DOMAIN history = 1..(current_batch.id - 1)
      BY NextOrder, HubAssumption DEF Small, Order, TypeOK, StateType, BatchesInOrder
<1>2. /\ AfterSlashing \in StateType
      /\ AfterSlashing.total_bond_amount \in Nat
      /\ AfterSlashing.total_bond_amount <= state.total_bond_amount
  <2>1. AfterSlashing \in StateType /\ AfterSlashing.total_bond_amount \in Nat
        BY <1>1, AfterSlashingType DEF StateType
  <2>2. AfterSlashing.total_bond_amount <= state.total_bond_amount
        BY <1>1 DEF AfterSlashing, StateType
  <2> QED  BY ONLY <2>1, <2>2
<1>3. ASSUME history' = history, state'.total_bond_amount <= MaxStake PROVE Small'
      BY <1>1, <1>3 DEF Small, UnbondedAmount
<1>4. CASE CheckSlashing
  <2>1. AfterSlashing.total_bond_amount <= MaxStake  BY <1>1, <1>2
  <2> QED  BY <1>3, <1>4, <2>1 DEF CheckSlashing
<1>5. ASSUME NEW payment \in BondAmounts, Bond(payment) PROVE Small'
  <2>1. state'.total_bond_amount = AfterSlashing.total_bond_amount + payment
        BY <1>2, <1>5 DEF Bond, StateType
  <2> QED  BY <1>3, <1>5, <2>1 DEF Bond
<1>6. ASSUME NEW reward \in RewardAmounts, UpdateGlobalIndex(reward) PROVE Small'
  <2>1. state'.total_bond_amount
          = state.total_bond_amount + (reward - ProtocolFee(reward))
        BY <1>1, <1>6 DEF UpdateGlobalIndex, StateType
  <2> QED  BY <1>3, <1>6, <2>1 DEF UpdateGlobalIndex
<1>7. ASSUME NEW user \in Users, NEW amount \in UnbondAmounts, Unbond(user, amount)
      PROVE  Small'
  <2>1. CASE JoinBatch(amount)
    <3>1. /\ history' = history
          /\ state'.total_bond_amount = AfterSlashing.total_bond_amount
          BY <1>2, <2>1 DEF JoinBatch, StateType
    <3>2. AfterSlashing.total_bond_amount <= MaxStake  BY <1>1, <1>2
    <3> QED  BY <1>3, <3>1, <3>2
  <2>2. CASE CloseBatch(amount)
    <3>1. PICK id, claim : /\ id = current_batch.id
                           /\ claim = UndelegationAmount(amount)
          OBVIOUS
    <3>2. claim \in Nat /\ claim <= AfterSlashing.total_bond_amount
      <4>1. amount \in Nat /\ amount <= supply /\ AmountWithFee(amount) >= 0
            BY <1>7, HubAssumption DEF Unbond, WithinSupply
      <4> QED  BY <1>1, <2>2, <3>1, <4>1, UnbondTypes DEF CloseBatch
    <3>3. state'.total_bond_amount = AfterSlashing.total_bond_amount - claim
          BY <1>2, <2>2, <3>1 DEF CloseBatch, StateType
    <3>4. state'.total_bond_amount <= MaxStake /\ claim <= MaxStake
          BY <1>1, <1>2, <3>2, <3>3
    <3>5. /\ DOMAIN history' = DOMAIN history \cup {id}
          /\ \A b \in DOMAIN history : b # id => history'[b] = history[b]
          /\ history'[id].amount = Requested(amount)
          /\ history'[id].withdraw_rate = UnbondRate(amount)
          BY <2>2, <3>1 DEF CloseBatch, Put
    <3>6. MulDec(history'[id].amount, history'[id].withdraw_rate) = claim
          BY <3>1, <3>5 DEF UndelegationAmount
    <3>7. ASSUME NEW b \in DOMAIN history', ~history'[b].released
          PROVE  MulDec(history'[b].amount, history'[b].withdraw_rate) <= MaxStake
      <4>1. CASE b = id  BY <3>4, <3>6, <4>1
      <4>2. CASE b # id  BY <3>5, <3>7, <4>2 DEF Small, UnbondedAmount
      <4> QED  BY <4>1, <4>2
    <3> QED  BY <1>1, <3>4, <3>7 DEF Small, UnbondedAmount
  <2> QED  BY <1>7, <2>1, <2>2 DEF Unbond
<1>8. ASSUME NEW user \in Users, WithdrawUnbonded(user) PROVE Small'
  <2>1. /\ DOMAIN history' = DOMAIN history
        /\ \A b \in DOMAIN history : ~history'[b].released => history'[b] = history[b]
        BY <1>1, <1>8, UnreleasedKept
  <2>2. state'.total_bond_amount = state.total_bond_amount
        BY <1>1, <1>8 DEF WithdrawUnbonded, WithdrawUpTo, PayOut, StateType
  <2> QED  BY <1>1, <2>1, <2>2 DEF Small, UnbondedAmount
<1>9. CASE Administer \/ Chain \/ UNCHANGED vars
  <2>1. state' = state /\ history' = history
        BY <1>9 DEF Administer, Chain, EndBlock, SlashStake, SlashUnbonding, Donate,
                    vars, ledgerVars
  <2> QED  BY <1>1, <1>3, <2>1
<1> QED  BY <1>4, <1>5, <1>6, <1>7, <1>8, <1>9 DEF Next, Message

(* 10^18 tells the coins of a release apart if it exceeds the largest      *)
(* stake times the square of the number of batches.                        *)
LEMMA SmallDistinct ==
  ASSUME Small, MaxBatch * (MaxBatch * MaxStake) <= One
  PROVE  SharesDistinct
<1> DEFINE M == MaturedBatches
           n == Cardinality(M)
           u == [b \in M |-> UnbondedAmount(b)]
           c == Affine(0, MaxStake, u)
<1>1. /\ TypeOK /\ M \subseteq DOMAIN history /\ M \subseteq BatchIds
      /\ MaxStake \in Nat /\ MaxBatch \in Nat /\ One \in Nat
      BY HubAssumption, FixedPointAssumption DEF Small, Order, TypeOK, MaturedBatches
<1>2. IsFiniteSet(M) /\ n \in Nat /\ n <= MaxBatch
  <2>1. Cardinality(BatchIds) = MaxBatch
    <3>1. CASE MaxBatch = 0
      <4>1. BatchIds = {}  BY <3>1 DEF BatchIds
      <4> QED  BY <3>1, <4>1, FS_EmptySet
    <3>2. CASE MaxBatch > 0
      <4>1. 1 \in Int /\ MaxBatch \in Int /\ ~(1 > MaxBatch)  BY <1>1, <3>2
      <4>2. Cardinality(1..MaxBatch) = MaxBatch - 1 + 1  BY <4>1, FS_Interval
      <4> QED  BY <1>1, <4>2 DEF BatchIds
    <3> QED  BY <1>1, <3>1, <3>2
  <2> QED  BY <1>1, <2>1, BatchesFinite, FS_Subset, FS_CardinalityType
<1>3. \A b \in M : UnbondedAmount(b) \in Nat /\ UnbondedAmount(b) <= MaxStake
  <2>1. ASSUME NEW b \in M PROVE UnbondedAmount(b) \in Nat /\ UnbondedAmount(b) <= MaxStake
    <3>1. b \in DOMAIN history /\ b > state.last_processed_batch
          BY DEF MaturedBatches
    <3>2. b \in Nat /\ state.last_processed_batch \in Nat
          BY <1>1 DEF BatchIds, TypeOK, StateType
    <3>3. ~(b <= state.last_processed_batch)  BY <3>1, <3>2
    <3>4. ~history[b].released  BY <3>1, <3>3 DEF Small, Order, BatchesInOrder
    <3>5. history[b].amount \in Nat /\ history[b].withdraw_rate \in Nat
          BY <1>1, <3>1 DEF TypeOK, HistoryType
    <3> QED  BY <3>1, <3>4, <3>5, MulDecBounds DEF Small, UnbondedAmount
  <2> QED  BY <2>1
<1>4. u \in [M -> Nat] /\ u \in [M -> Int]  BY <1>3
<1>5. c \in [M -> Int] /\ SumOf(c) = 0 * SumOf(u) + n * MaxStake
  <2>1. MaxStake \in Int /\ 0 \in Int  BY <1>1
  <2> HIDE DEF u, M
  <2> QED  BY ONLY <1>2, <1>4, <2>1, SumAffine
<1>6. \A b \in M : u[b] <= c[b]
  <2>1. \A b \in M : c[b] = 0 * u[b] + MaxStake /\ u[b] \in Nat /\ u[b] <= MaxStake
        BY <1>3, <1>4 DEF Affine
  <2> HIDE DEF c, u, M
  <2> QED  BY <1>1, <2>1
<1>7. TotalUnbonded = SumOf(u)  BY DEF TotalUnbonded
<1> HIDE DEF c, u, M
<1>8. SumOf(u) <= SumOf(c) /\ SumOf(u) \in Nat
      BY <1>2, <1>4, <1>5, <1>6, SumMonotone, SumNat
<1> HIDE DEF n
<1>9. SumOf(u) <= n * MaxStake
  <2>1. 0 * SumOf(u) = 0 /\ n * MaxStake \in Nat  BY <1>1, <1>2, <1>8
  <2> QED  BY <1>5, <1>8, <2>1
<1>10. n * SumOf(u) <= One
  <2>1. n * SumOf(u) <= n * (n * MaxStake)
    <3>1. n * MaxStake \in Nat  BY <1>1, <1>2
    <3> QED  BY <1>2, <1>8, <1>9, <3>1
  <2>2. n * MaxStake <= MaxBatch * MaxStake  BY <1>1, <1>2
  <2>3. n * MaxStake \in Nat /\ MaxBatch * MaxStake \in Nat  BY <1>1, <1>2
  <2>4. n * (n * MaxStake) <= n * (MaxBatch * MaxStake)  BY <1>2, <2>2, <2>3
  <2>5. n * (MaxBatch * MaxStake) <= MaxBatch * (MaxBatch * MaxStake)
        BY <1>1, <1>2, <2>3
  <2>6. /\ n * SumOf(u) \in Nat /\ n * (n * MaxStake) \in Nat
        /\ n * (MaxBatch * MaxStake) \in Nat /\ MaxBatch * (MaxBatch * MaxStake) \in Nat
        BY <1>1, <1>2, <1>8, <2>3
  <2> QED  BY <1>1, <2>1, <2>4, <2>5, <2>6
<1> QED  BY <1>7, <1>10 DEF SharesDistinct, n, M

(* SharesDistinct, from the bounds on what the hub can hold: a scale of    *)
(* 10^18 has room for a hundred batches in a stake of a hundred million    *)
(* coins of a million units each.                                          *)
THEOREM SharesAlwaysDistinct ==
  ASSUME InitialBond <= MaxStake, MaxBatch * (MaxBatch * MaxStake) <= One
  PROVE  Spec => []SharesDistinct
<1>1. Init => Small
  <2> SUFFICES ASSUME Init PROVE Small  OBVIOUS
  <2>1. Order  BY InitOrder
  <2> QED  BY <2>1 DEF Init, Small
<1>2. Small /\ [Next]_vars => Small'  BY NextSmall
<1>3. Small => SharesDistinct  BY SmallDistinct
<1> QED  BY <1>1, <1>2, <1>3, PTL DEF Spec

-----------------------------------------------------------------------------

(* At the start the hub owes nothing.                                      *)
LEMMA InitOwes == Init => Balances /\ Obligations = 0
<1> SUFFICES ASSUME Init PROVE Balances /\ Obligations = 0  OBVIOUS
<1>1. Requests  BY InitRequests
<1>2. Balances  BY <1>1 DEF Init, Balances
<1>3. LedgerType(wait_list, history)
      BY <1>1 DEF Requests, Order, TypeOK, LedgerType
<1> DEFINE f == [u \in Users |-> SumOf(Row(wait_list, history, u))]
<1>4. \A u \in Users : f[u] = 0
  <2>1. ASSUME NEW u \in Users PROVE SumOf(Row(wait_list, history, u)) = 0
    <3>1. /\ Row(wait_list, history, u) \in [DOMAIN history -> Nat]
          /\ IsFiniteSet(DOMAIN history) /\ DOMAIN history = {}
          BY <1>3, OwesTypes DEF Init
    <3> QED  BY <3>1, SumZero
  <2> QED  BY <2>1
<1>5. f \in [Users -> Nat] /\ IsFiniteSet(Users)  BY <1>3, OwesTypes, HubAssumption
<1>6. Owes(wait_list, history) = SumOf(f)  BY DEF Owes
<1> HIDE DEF f
<1>7. SumOf(f) = 0  BY <1>4, <1>5, SumZero
<1> QED  BY <1>2, <1>6, <1>7, ObligationsOwed

(* The inductive invariant of ShortfallFollows.                            *)
Shortfall == Balances /\ ShortfallBounded

(* ShortfallBounded, as long as the scale tells apart the coins released   *)
(* at once, for each of their batches.                                     *)
LEMMA ShortfallFollows == Spec /\ []SharesDistinct => []ShortfallBounded
<1>1. Init => Shortfall
  <2> SUFFICES ASSUME Init PROVE Shortfall  OBVIOUS
  <2>1. state.prev_hub_balance + state.last_processed_batch = 0
        BY DEF Init
  <2>2. state.prev_hub_balance <= hub_balance  BY InitOwes DEF Balances
  <2> QED  BY <2>1, <2>2, InitOwes DEF Shortfall, ShortfallBounded
<1>2. Shortfall /\ SharesDistinct /\ [Next]_vars => Shortfall'
  <2> SUFFICES ASSUME Shortfall, SharesDistinct, [Next]_vars PROVE Shortfall'  OBVIOUS
  <2>1. /\ Balances /\ state \in StateType
        /\ state.prev_hub_balance \in Nat /\ state.last_processed_batch \in Nat
        BY DEF Shortfall, Balances, Requests, Order, TypeOK, StateType
  <2>2. CASE \E user \in Users : WithdrawUnbonded(user)
    <3>1. /\ Balances' /\ Short \in Int /\ Short' \in Int
          /\ Short' <= Short
               + (state'.last_processed_batch - state.last_processed_batch)
          BY <2>1, <2>2, WithdrawOwes
    <3>2. /\ state'.prev_hub_balance \in Nat /\ state'.last_processed_batch \in Nat
          /\ state'.prev_hub_balance <= hub_balance'
          BY <3>1 DEF Balances, Requests, Order, TypeOK, StateType
    <3>3. Obligations \in Nat /\ Obligations' \in Nat
      <4>1. Obligations \in Nat
        <5>1. LedgerType(wait_list, history)
              BY <2>1 DEF Balances, Requests, Order, TypeOK, LedgerType
        <5> QED  BY <5>1, ObligationsOwed, OwesTypes
      <4>2. Obligations' \in Nat
        <5>1. LedgerType(wait_list', history')
              BY <3>1 DEF Balances, Requests, Order, TypeOK, LedgerType
        <5>2. Obligations' = Owes(wait_list', history')
              BY DEF Obligations, FinishedAmount, Owed, Owes, Row
        <5> QED  BY <5>1, <5>2, OwesTypes
      <4> QED  BY <4>1, <4>2
    <3>4. Obligations <= state.prev_hub_balance + state.last_processed_batch
          BY DEF Shortfall, ShortfallBounded
    <3>5. Obligations' - state'.prev_hub_balance <=
            (Obligations - state.prev_hub_balance)
               + (state'.last_processed_batch - state.last_processed_batch)
          BY <3>1 DEF Short
    <3>6. Obligations' <= state'.prev_hub_balance + state'.last_processed_batch
          BY <2>1, <3>2, <3>3, <3>4, <3>5
    <3> QED  BY <3>1, <3>2, <3>6 DEF Shortfall, ShortfallBounded
  <2>3. CASE /\ Balances' /\ Obligations' = Obligations
             /\ state'.prev_hub_balance = state.prev_hub_balance
             /\ state'.last_processed_batch = state.last_processed_batch
        BY <2>3 DEF Shortfall, ShortfallBounded, Balances
  <2> QED  BY <2>1, <2>2, <2>3, OtherOwes
<1>3. Shortfall => ShortfallBounded  BY DEF Shortfall
<1> QED  BY <1>1, <1>2, <1>3, PTL DEF Spec

(* Whatever was slashed while unbonding, donated or not yet paid, and      *)
(* whatever order users withdraw in, the released batches owe at most one  *)
(* coin each more than the hub kept for them: process_withdraw_rate's      *)
(* roundings do not add up further.                                        *)
THEOREM ShortfallAlwaysBounded ==
  ASSUME InitialBond <= MaxStake, MaxBatch * (MaxBatch * MaxStake) <= One
  PROVE  Spec => []ShortfallBounded
BY SharesAlwaysDistinct, ShortfallFollows, PTL

-----------------------------------------------------------------------------

(* A batch is undelegated with at least a coin until it is released.       *)
Undelegated ==
  /\ DOMAIN unbonding \subseteq DOMAIN history
  /\ \A b \in DOMAIN unbonding : ~history[b].released => UnbondedAmount(b) > 0

(* Undelegated is inductive, and once a batch was closed without           *)
(* undelegation, not every batch is undelegated any more.                  *)
LEMMA StepUndelegates ==
  ASSUME Order, Undelegated, [Next]_vars
  PROVE  Undelegated' /\ (EveryBatchUndelegated' => EveryBatchUndelegated)
<1>1. /\ TypeOK /\ current_batch.id \in Nat \ {0}
      /\ DOMAIN history = 1..(current_batch.id - 1)
      /\ \A b \in DOMAIN history : history[b] \in HistoryType
      BY DEF Order, TypeOK, BatchesInOrder
<1>2. ASSUME DOMAIN unbonding' = DOMAIN unbonding, history' = history
      PROVE  Undelegated' /\ (EveryBatchUndelegated' => EveryBatchUndelegated)
      BY <1>2 DEF Undelegated, UnbondedAmount, EveryBatchUndelegated
<1>3. ASSUME NEW user \in Users, WithdrawUnbonded(user)
      PROVE  Undelegated' /\ (EveryBatchUndelegated' => EveryBatchUndelegated)
  <2>1. /\ DOMAIN history' = DOMAIN history
        /\ \A b \in DOMAIN history : ~history'[b].released => history'[b] = history[b]
        BY <1>1, <1>3, UnreleasedKept
  <2>2. unbonding' = unbonding  BY <1>3 DEF WithdrawUnbonded, WithdrawUpTo, PayOut
  <2> QED  BY <2>1, <2>2 DEF Undelegated, UnbondedAmount, EveryBatchUndelegated
<1>4. ASSUME NEW user \in Users, NEW amount \in UnbondAmounts, Unbond(user, amount)
      PROVE  Undelegated' /\ (EveryBatchUndelegated' => EveryBatchUndelegated)
  <2>1. CASE JoinBatch(amount)  BY <1>2, <2>1 DEF JoinBatch
  <2>2. CASE CloseBatch(amount)
    <3>1. PICK id, claim : /\ id = current_batch.id
                           /\ claim = UndelegationAmount(amount)
          OBVIOUS
    <3>2. id \notin DOMAIN history  BY <1>1, <3>1
    <3>3. claim \in Nat
      <4>1. amount \in Nat /\ amount <= supply /\ AmountWithFee(amount) >= 0
            BY <1>4, HubAssumption DEF Unbond, WithinSupply
      <4> QED  BY <1>1, <3>1, <4>1, UnbondTypes
    <3>4. /\ DOMAIN history' = DOMAIN history \cup {id}
          /\ \A b \in DOMAIN history : b # id => history'[b] = history[b]
          /\ history'[id].amount = Requested(amount)
          /\ history'[id].withdraw_rate = UnbondRate(amount)
          /\ DOMAIN unbonding' = IF claim = 0 THEN DOMAIN unbonding
                                 ELSE DOMAIN unbonding \cup {id}
          BY <2>2, <3>1 DEF CloseBatch, Put
    <3>5. MulDec(history'[id].amount, history'[id].withdraw_rate) = claim
          BY <3>1, <3>4 DEF UndelegationAmount
    <3>6. ASSUME NEW b \in DOMAIN unbonding', ~history'[b].released
          PROVE  MulDec(history'[b].amount, history'[b].withdraw_rate) > 0
      <4>1. CASE b = id
        <5>1. claim # 0  BY <3>2, <3>4, <4>1 DEF Undelegated
        <5> QED  BY <3>3, <3>5, <4>1, <5>1
      <4>2. CASE b # id
        <5>1. b \in DOMAIN unbonding /\ b \in DOMAIN history /\ history'[b] = history[b]
              BY <3>4, <4>2 DEF Undelegated
        <5> QED  BY <3>6, <5>1 DEF Undelegated, UnbondedAmount
      <4> QED  BY <4>1, <4>2
    <3>7. Undelegated'
      <4>1. DOMAIN unbonding' \subseteq DOMAIN history'  BY <3>4 DEF Undelegated
      <4> QED  BY <3>6, <4>1 DEF Undelegated, UnbondedAmount
    <3>8. EveryBatchUndelegated' => EveryBatchUndelegated
          BY <3>2, <3>4 DEF Undelegated, EveryBatchUndelegated
    <3> QED  BY <3>7, <3>8
  <2> QED  BY <1>4, <2>1, <2>2 DEF Unbond
<1>5. CASE \/ CheckSlashing
           \/ \E payment \in BondAmounts : Bond(payment)
           \/ \E reward \in RewardAmounts : UpdateGlobalIndex(reward)
           \/ Administer \/ Chain \/ UNCHANGED vars
  <2>1. DOMAIN unbonding' = DOMAIN unbonding /\ history' = history
        BY <1>5 DEF CheckSlashing, Bond, UpdateGlobalIndex, Administer, Chain,
                    EndBlock, SlashStake, SlashUnbonding, Donate, vars, ledgerVars,
                    chainVars
  <2> QED  BY <1>2, <2>1
<1> QED  BY <1>3, <1>4, <1>5 DEF Next, Message

(* A withdrawal pays coins out: it is never a stuttering step.             *)
LEMMA WithdrawMoves ==
  ASSUME TypeOK, NEW user \in Users, WithdrawUnbonded(user) PROVE ~UNCHANGED vars
<1>1. PICK finished : /\ Fits(finished) /\ finished > 0
                      /\ hub_balance' = hub_balance - finished
      BY DEF WithdrawUnbonded, WithdrawUpTo, PayOut
<1>2. hub_balance \in Nat /\ finished \in Int
      BY <1>1, FixedPointAssumption DEF TypeOK, Fits
<1>3. hub_balance' # hub_balance  BY <1>1, <1>2
<1> QED  BY <1>3 DEF vars, chainVars

(* A withdrawal finds coins for the batches it releases.                   *)
WithdrawsFunded == (\E user \in Users : WithdrawUnbonded(user)) => ReleaseFunded

(* The inductive invariant of SolventFollows.                              *)
SolventInv == Balances /\ Undelegated /\ Solvent

(* Solvent, as long as the scale tells apart the coins released at once,   *)
(* for each of their batches, and every withdrawal finds coins.            *)
LEMMA SolventFollows ==
  Spec /\ []SharesDistinct /\ [][WithdrawsFunded]_vars => []Solvent
<1>1. Init => SolventInv
  <2> SUFFICES ASSUME Init PROVE SolventInv  OBVIOUS
  <2>1. state.prev_hub_balance = 0 /\ DOMAIN unbonding = {}  BY DEF Init
  <2>2. state.prev_hub_balance <= hub_balance  BY InitOwes DEF Balances
  <2> QED  BY <2>1, <2>2, InitOwes DEF SolventInv, Solvent, Undelegated
<1>2. SolventInv /\ SharesDistinct /\ [WithdrawsFunded]_vars /\ [Next]_vars
        => SolventInv'
  <2> SUFFICES ASSUME SolventInv, SharesDistinct, [WithdrawsFunded]_vars, [Next]_vars
               PROVE  SolventInv'
      OBVIOUS
  <2>1. /\ Balances /\ Undelegated /\ Undelegated'
        /\ (EveryBatchUndelegated' => EveryBatchUndelegated)
        /\ state.prev_hub_balance \in Nat
        BY StepUndelegates
        DEF SolventInv, Balances, Requests, Order, TypeOK, StateType
  <2>2. ASSUME Balances', EveryBatchUndelegated => Short' <= Short,
               Obligations' \in Nat
        PROVE  SolventInv'
    <3>1. state'.prev_hub_balance \in Nat /\ state'.prev_hub_balance <= hub_balance'
          BY <2>2 DEF Balances, Requests, Order, TypeOK, StateType
    <3>2. Obligations \in Nat
      <4>1. LedgerType(wait_list, history)
            BY <2>1 DEF Balances, Requests, Order, TypeOK, LedgerType
      <4> QED  BY <4>1, ObligationsOwed, OwesTypes
    <3>3. EveryBatchUndelegated => Obligations' <= state'.prev_hub_balance
      <4> SUFFICES ASSUME EveryBatchUndelegated
                   PROVE  Obligations' <= state'.prev_hub_balance
          OBVIOUS
      <4>1. Obligations <= state.prev_hub_balance  BY DEF SolventInv, Solvent
      <4>2. Obligations' - state'.prev_hub_balance
              <= Obligations - state.prev_hub_balance
            BY <2>2 DEF Short
      <4> QED  BY <2>1, <2>2, <3>1, <3>2, <4>1, <4>2
    <3> QED  BY <2>1, <2>2, <3>1, <3>3 DEF SolventInv, Solvent
  <2>3. ASSUME Balances' PROVE Obligations' \in Nat
    <3>1. LedgerType(wait_list', history')
          BY <2>3 DEF Balances, Requests, Order, TypeOK, LedgerType
    <3>2. Obligations' = Owes(wait_list', history')
          BY DEF Obligations, FinishedAmount, Owed, Owes, Row
    <3> QED  BY <3>1, <3>2, OwesTypes
  <2>4. CASE \E user \in Users : WithdrawUnbonded(user)
    <3>3. ReleaseFunded
          BY <2>1, <2>4, WithdrawMoves
          DEF WithdrawsFunded, Balances, Requests, Order
    <3>1. /\ Balances'
          /\ EveryBatchUndelegated /\ (\A b \in MaturedBatches : UnbondedAmount(b) > 0)
               => Short' <= Short
          BY <2>1, <2>4, <3>3, WithdrawOwes DEF ReleaseFunded
    <3>2. ASSUME EveryBatchUndelegated, NEW b \in MaturedBatches
          PROVE  UnbondedAmount(b) > 0
      <4>1. b \in DOMAIN history /\ b > state.last_processed_batch
            BY DEF MaturedBatches
      <4>2. ~history[b].released
        <5>1. b \in Nat /\ state.last_processed_batch \in Nat
              BY <2>1, <4>1, HubAssumption
              DEF Balances, Requests, Order, TypeOK, StateType, BatchIds
        <5>2. ~(b <= state.last_processed_batch)  BY <4>1, <5>1
        <5> QED  BY <2>1, <4>1, <5>2 DEF Balances, Requests, Order, BatchesInOrder
      <4> QED  BY <2>1, <3>2, <4>1, <4>2 DEF EveryBatchUndelegated, Undelegated
    <3> QED  BY <2>2, <2>3, <3>1, <3>2
  <2>5. CASE /\ Balances' /\ Obligations' = Obligations
             /\ state'.prev_hub_balance = state.prev_hub_balance
             /\ state'.last_processed_batch = state.last_processed_batch
    <3>1. Short' = Short /\ Short \in Int
      <4>1. Obligations \in Nat  BY <2>3, <2>5
      <4> QED  BY <2>1, <2>5, <4>1 DEF Short
    <3>2. Short' <= Short  BY <3>1
    <3> QED  BY <2>2, <2>3, <2>5, <3>2
  <2> QED  BY <2>1, <2>4, <2>5, OtherOwes
<1>3. SolventInv => Solvent  BY DEF SolventInv
<1> QED  BY <1>1, <1>2, <1>3, PTL DEF Spec

(* If coins have arrived whenever a batch is released, the balance kept    *)
(* from the last withdrawal covers all that released batches still owe, to *)
(* the last coin: the coin process_withdraw_rate takes off every loss      *)
(* makes up for all its roundings.                                         *)
THEOREM AlwaysSolvent ==
  ASSUME InitialBond <= MaxStake, MaxBatch * (MaxBatch * MaxStake) <= One
  PROVE  Spec /\ []ReleaseFunded => []Solvent
<1>1. ReleaseFunded => [WithdrawsFunded]_vars  BY DEF WithdrawsFunded
<1> QED  BY <1>1, SharesAlwaysDistinct, SolventFollows, PTL
=============================================================================
