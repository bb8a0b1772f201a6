---------------------------- MODULE NumbersProofs ----------------------------
(***************************************************************************)
(* The arithmetic for every scale and every width: what TLC checks for     *)
(* eight bits and two fractional digits holds for 128 bits and eighteen.   *)
(* The string conversions rest on the powers of ten and on the digits of a *)
(* number, whose recursive equation and sums are proved by the least       *)
(* counterexample.                                                         *)
(***************************************************************************)
EXTENDS MCNumbers, FixedPointTheorems, SequenceTheorems

Numbers == a \in 0..MaxUint /\ b \in 0..MaxUint

(* The two numbers stay Decimals.                                          *)
LEMMA NumbersCorrect == Spec => []Numbers
<1>1. Init => Numbers  BY DEF Init, Numbers
<1>2. Numbers /\ [Next]_<<a, b>> => Numbers'  BY DEF Next, Numbers
<1> QED  BY <1>1, <1>2, PTL DEF Spec

(* Rounding does not depend on a common factor.                            *)
LEMMA DivCommonFactor ==
  ASSUME NEW x \in Nat, NEW c \in Nat \ {0}, NEW k \in Nat \ {0}
  PROVE  (c * x) \div (k * c) = x \div k
<1> DEFINE q == x \div k
           r == (c * x) \div (k * c)
<1>1. /\ q \in Nat /\ q * k <= x /\ x < q * k + k  BY DivBounds
<1>2. /\ c * x \in Nat /\ k * c \in Nat \ {0}  OBVIOUS
<1>3. r \in Nat /\ r * (k * c) <= c * x /\ c * x < r * (k * c) + k * c
      BY <1>2, DivBounds
<1> HIDE DEF q, r
<1>4. r <= q
  <2>1. (r * k) * c <= x * c  BY <1>3
  <2>2. r * k \in Nat  BY <1>3
  <2>3. r * k <= x  BY <2>1, <2>2, Cancel
  <2>4. r * k < (q + 1) * k  BY <1>1, <2>2, <2>3
  <2>5. q + 1 \in Nat  BY <1>1
  <2>6. r < q + 1  BY <1>3, <2>4, <2>5, Cancel
  <2> QED  BY <1>1, <1>3, <2>6
<1>5. q <= r
  <2>1. (q * k) * c <= x * c
    <3>1. q * k \in Nat  BY <1>1
    <3> QED  BY <1>1, <3>1
  <2>2. x * c < ((r + 1) * k) * c
    <3>1. r * (k * c) + k * c = ((r + 1) * k) * c  BY <1>3
    <3> QED  BY <1>3, <3>1
  <2>3. q * k \in Nat /\ (r + 1) * k \in Nat /\ x * c \in Nat  BY <1>1, <1>3
  <2>4. (q * k) * c < ((r + 1) * k) * c
    <3>1. (q * k) * c \in Nat /\ ((r + 1) * k) * c \in Nat  BY <2>3
    <3> QED  BY <2>1, <2>2, <2>3, <3>1
  <2>5. q * k < (r + 1) * k  BY <2>3, <2>4, Cancel
  <2>6. r + 1 \in Nat  BY <1>3
  <2>7. q < r + 1  BY <1>1, <2>5, <2>6, Cancel
  <2> QED  BY <1>1, <1>3, <2>7
<1> QED  BY <1>1, <1>3, <1>4, <1>5 DEF q, r

(* decimal_division rounds in the payer's favour at most by cutting the    *)
(* rate: its result is at least the exact quotient rounded down.           *)
LEMMA DecimalDivisionAbove ==
  ASSUME NEW x \in Nat, NEW y \in Nat, MulDec(Frac, y) > 0
  PROVE  (x * One) \div y <= DecimalDivision(x, y)
<1> DEFINE k == One \div Frac
           t == MulDec(Frac, y)
           r == FromRatio(x, t)
           q == DecimalDivision(x, y)
           e == (x * One) \div y
<1>1. /\ Frac \in Nat \ {0} /\ One \in Nat \ {0} /\ One = k * Frac
      BY FixedPointAssumption
<1>2. k \in Nat \ {0}
  <2>1. k \in Nat  BY <1>1, DivBounds
  <2> QED  BY <1>1, <2>1
<1>3. t = y \div k
  <2>1. t = (Frac * y) \div One  BY DEF MulDec
  <2> HIDE DEF k, t
  <2> QED  BY <1>1, <1>2, <2>1, DivCommonFactor
<1>4. t \in Nat \ {0} /\ t * k <= y
  <2>1. y \div k \in Nat /\ (y \div k) * k <= y  BY <1>2, DivBounds
  <2> QED  BY <1>3, <2>1
<1>5. r \in Nat /\ x * One < r * t + t
  <2>1. x * One \in Nat  BY <1>1
  <2> QED  BY <1>4, <2>1, DivBounds DEF FromRatio
<1>6. q \in Nat /\ r < q * k + k
  <2>1. q = (Frac * r) \div One  BY DEF DecimalDivision, MulDec
  <2>2. q = r \div k
    <3> HIDE DEF k, q, r, t
    <3> QED  BY <1>1, <1>2, <1>5, <2>1, DivCommonFactor
  <2> HIDE DEF k, q, r, t
  <2> QED  BY <1>2, <1>5, <2>2, DivBounds
<1>7. y \in Nat \ {0}
  <2>1. t * k \in Nat \ {0}
    <3> HIDE DEF k, t
    <3> QED  BY <1>2, <1>4
  <2> QED  BY <1>4, <2>1
<1>8. e \in Nat /\ e * y <= x * One
  <2>1. x * One \in Nat  BY <1>1
  <2> QED  BY <1>7, <2>1, DivBounds
<1> HIDE DEF k, t, r, q, e
<1>9. e * (t * k) <= x * One
  <2>1. t * k \in Nat /\ x * One \in Nat /\ e * y \in Nat /\ e * (t * k) \in Nat
        BY <1>1, <1>2, <1>4, <1>8
  <2>2. e * (t * k) <= e * y  BY <1>4, <1>8, <2>1
  <2> QED  BY <1>8, <2>1, <2>2
<1>10. x * One < (q + 1) * (t * k)
  <2>1. r + 1 <= (q + 1) * k
    <3>1. (q + 1) * k = q * k + k  BY <1>2, <1>6
    <3>2. q * k \in Nat  BY <1>2, <1>6
    <3> QED  BY <1>2, <1>5, <1>6, <3>1, <3>2
  <2>2. (q + 1) * k \in Nat  BY <1>2, <1>6
  <2>3. (r + 1) * t <= ((q + 1) * k) * t  BY <1>4, <1>5, <2>1, <2>2
  <2>4. (r + 1) * t = r * t + t  BY <1>4, <1>5
  <2>5. ((q + 1) * k) * t = (q + 1) * (t * k)  BY <1>2, <1>4, <1>6
  <2>6. r * t + t \in Nat /\ (q + 1) * (t * k) \in Nat /\ x * One \in Nat
        BY <1>1, <1>2, <1>4, <1>5, <1>6
  <2> QED  BY <1>5, <2>3, <2>4, <2>5, <2>6
<1>11. e * (t * k) < (q + 1) * (t * k)
  <2>1. e * (t * k) \in Nat /\ (q + 1) * (t * k) \in Nat /\ x * One \in Nat
        BY <1>1, <1>2, <1>4, <1>6, <1>8
  <2> QED  BY <1>9, <1>10, <2>1
<1>12. e < q + 1
  <2>1. t * k \in Nat \ {0} /\ q + 1 \in Nat  BY <1>2, <1>4, <1>6
  <2> QED  BY <1>8, <1>11, <2>1, Cancel
<1> QED  BY <1>6, <1>8, <1>12 DEF e, q

(* decimal_division of any Decimals is between the exact quotient rounded  *)
(* down and the quotient by the truncated rate.                            *)
THEOREM DivisionAlwaysClose == Spec => []DivisionClose
<1>1. Numbers => DivisionClose
  <2> SUFFICES ASSUME Numbers, MulDec(Frac, b) > 0
               PROVE  /\ DecimalDivision(a, b) * MulDec(Frac, b) <= a * Frac
                      /\ (a * One) \div b <= DecimalDivision(a, b)
      BY DEF DivisionClose
  <2>1. a \in Nat /\ b \in Nat  BY FixedPointAssumption DEF Numbers
  <2> QED  BY <2>1, DecimalDivisionBounds, DecimalDivisionAbove
<1> QED  BY <1>1, NumbersCorrect, PTL

(* A U256 holds any product of two Uint128.                                *)
LEMMA Widths ==
  /\ LimbBase \in Nat \ {0}
  /\ MaxUint \in Nat /\ MaxU256 \in Nat
  /\ \A x, y \in 0..MaxUint : x * y \in 0..MaxU256
  /\ \A x \in 0..MaxU256 : U256(x) = x /\ x # None
  /\ \A x \in 0..MaxUint : x \in 0..MaxU256
<1> DEFINE W == LimbBase * LimbBase
<1>1. /\ LimbBase \in Nat /\ MaxUint \in Nat /\ MaxUint = W - 1
      /\ MaxU256 = W * W - 1 /\ None \notin Nat
      BY FixedPointAssumption, BigNumberAssumption
<1>2. LimbBase # 0  BY <1>1
<1>3. W \in Nat \ {0}  BY <1>1, <1>2
<1> HIDE DEF W
<1>4. W * W \in Nat /\ W <= W * W  BY <1>3
<1>5. MaxU256 \in Nat /\ MaxUint <= MaxU256  BY <1>1, <1>3, <1>4
<1>6. ASSUME NEW x \in 0..MaxUint, NEW y \in 0..MaxUint PROVE x * y \in 0..MaxU256
  <2>1. x \in Nat /\ y \in Nat /\ x <= MaxUint /\ y <= MaxUint  BY <1>1
  <2>2. x * y \in Nat /\ x * MaxUint \in Nat /\ MaxUint * MaxUint \in Nat
        BY <1>1, <2>1
  <2>3. x * y <= x * MaxUint  BY <1>1, <2>1
  <2>4. x * MaxUint <= MaxUint * MaxUint  BY <1>1, <2>1
  <2>5. MaxUint * MaxUint = W * W - 2 * W + 1  BY <1>1, <1>3
  <2> QED  BY <1>1, <1>3, <1>4, <2>2, <2>3, <2>4, <2>5
<1>7. \A x \in 0..MaxU256 : x \in Nat  BY <1>5
<1>8. \A x \in 0..MaxU256 : U256(x) = x /\ x # None  BY <1>1, <1>7 DEF U256
<1>9. \A x \in 0..MaxUint : x \in 0..MaxU256  BY <1>1, <1>5
<1> QED  BY <1>1, <1>2, <1>5, <1>6, <1>8, <1>9

(* Converting at a rate d, rounded, and back never gains, and loses less   *)
(* than one unit of each rounding.                                         *)
LEMMA RoundTrip ==
  ASSUME NEW x \in Nat, NEW c \in Nat \ {0}, NEW d \in Nat \ {0},
         NEW m, NEW n, m = (x * c) \div d, n = (m * d) \div c
  PROVE  /\ m \in Nat /\ n \in Nat /\ n <= x
         /\ m * d <= x * c
         /\ (x - n) * c < d + c
<1>1. x * c \in Nat  OBVIOUS
<1>2. m \in Nat /\ m * d <= x * c /\ x * c < m * d + d  BY <1>1, DivBounds
<1>3. m * d \in Nat  BY <1>2
<1>4. n \in Nat /\ n * c <= m * d /\ m * d < n * c + c  BY <1>3, DivBounds
<1>5. n * c \in Nat  BY <1>4
<1>6. n * c <= x * c  BY <1>1, <1>2, <1>3, <1>4, <1>5
<1>7. n <= x  BY <1>4, <1>6, Cancel
<1>8. (x - n) * c = x * c - n * c
  <2>1. PICK k \in Nat : x = n + k
    <3>1. x - n \in Nat /\ x = n + (x - n)  BY <1>4, <1>7
    <3> QED  BY <3>1
  <2>2. (n + k) * c = n * c + k * c /\ k * c \in Nat  BY <1>4
  <2>3. x - n = k  BY <1>4, <2>1
  <2>4. x * c = n * c + k * c  BY <2>1, <2>2
  <2> QED  BY <1>5, <2>2, <2>3, <2>4
<1> QED  BY <1>1, <1>2, <1>3, <1>4, <1>5, <1>7, <1>8

(* An amount converted at a rate and back never grows and loses a bounded  *)
(* amount, for all Decimals: no intermediate product is too wide.          *)
THEOREM RatiosAlwaysRoundTrip == Spec => []RatioRoundTrip
<1>1. Numbers => RatioRoundTrip
  <2> SUFFICES ASSUME Numbers, b > 0 PROVE RatioRoundTrip  BY DEF RatioRoundTrip
  <2> DEFINE m == (a * b) \div One
             back == (m * One) \div b
             d == (a * One) \div b
             forth == (d * b) \div One
  <2>1. /\ a \in Nat /\ b \in Nat \ {0} /\ One \in Nat \ {0} /\ One \in 0..MaxUint
        /\ a \in 0..MaxUint /\ b \in 0..MaxUint
        BY FixedPointAssumption, BigNumberAssumption DEF Numbers
  <2>2. /\ m \in Nat /\ back \in Nat /\ back <= a /\ m * One <= a * b
        /\ (a - back) * b < One + b
        BY <2>1, RoundTrip
  <2>3. /\ d \in Nat /\ forth \in Nat /\ forth <= a /\ d * b <= a * One
        /\ (a - forth) * One < b + One
        BY <2>1, RoundTrip
  <2>4. UintMul(a, b) = m
    <3>1. U256(a * b) # None /\ One # 0  BY <2>1, Widths
    <3> QED  BY <3>1 DEF UintMul, MultiplyRatio, Quotient
  <2> HIDE DEF m
  <2>5. UintDiv(m, b) = back
    <3>1. m * One \in Nat /\ a * b \in 0..MaxU256  BY <2>1, <2>2, Widths
    <3>2. m * One \in 0..MaxU256  BY <2>2, <3>1, Widths
    <3>3. U256(m * One) # None /\ b # 0  BY <2>1, <3>2, Widths
    <3> QED  BY <3>3 DEF UintDiv, MultiplyRatio, Quotient
  <2>6. DecimalDiv(a, b) = d
    <3>1. U256(a * One) # None /\ b # 0  BY <2>1, Widths
    <3> QED  BY <3>1 DEF DecimalDiv, DecimalFromRatio
  <2> HIDE DEF d
  <2>7. DecimalMul(d, b) = forth
    <3>1. d * b \in Nat /\ a * One \in 0..MaxU256  BY <2>1, <2>3, Widths
    <3>2. d * b \in 0..MaxU256  BY <2>3, <3>1, Widths
    <3>3. U256(d * b) # None  BY <3>2, Widths
    <3> QED  BY <3>3 DEF DecimalMul
  <2> HIDE DEF back, forth
  <2>8. One + b = b + One  BY <2>1
  <2> QED  BY <2>2, <2>3, <2>4, <2>5, <2>6, <2>7, <2>8 DEF RatioRoundTrip
<1> QED  BY <1>1, NumbersCorrect, PTL

(* A quotient divided again.                                               *)
LEMMA DivDiv ==
  ASSUME NEW x \in Nat, NEW c \in Nat \ {0}, NEW d \in Nat \ {0}
  PROVE  x \div (c * d) = (x \div c) \div d
<1> DEFINE p == x \div c
           q == p \div d
           r == x \div (c * d)
<1>1. p \in Nat /\ p * c <= x /\ x < p * c + c  BY DivBounds
<1>2. q \in Nat /\ q * d <= p /\ p < q * d + d
  <2> HIDE DEF p
  <2> QED  BY <1>1, DivBounds
<1>3. c * d \in Nat \ {0}  OBVIOUS
<1>4. r \in Nat /\ r * (c * d) <= x /\ x < r * (c * d) + c * d
      BY <1>3, DivBounds
<1> HIDE DEF p, q, r
<1>5. r <= q
  <2>1. (r * d) * c <= x  BY <1>4
  <2>2. r * d \in Nat  BY <1>4
  <2>3. (r * d) * c < (p + 1) * c
    <3>1. (p + 1) * c = p * c + c /\ p * c \in Nat /\ (r * d) * c \in Nat
          BY <1>1, <2>2
    <3> QED  BY <1>1, <2>1, <3>1
  <2>4. r * d < p + 1  BY <1>1, <2>2, <2>3, Cancel
  <2>5. r * d < (q + 1) * d
    <3>1. (q + 1) * d = q * d + d /\ q * d \in Nat  BY <1>2
    <3> QED  BY <1>1, <1>2, <2>2, <2>4, <3>1
  <2>6. r < q + 1  BY <1>2, <1>4, <2>5, Cancel
  <2> QED  BY <1>2, <1>4, <2>6
<1>6. q <= r
  <2>1. (q * d) * c <= p * c
    <3>1. q * d \in Nat  BY <1>2
    <3> QED  BY <1>1, <1>2, <3>1
  <2>2. q * (c * d) = (q * d) * c  BY <1>2
  <2>3. r * (c * d) + c * d = (r + 1) * (c * d)  BY <1>4
  <2>4. q * (c * d) < (r + 1) * (c * d)
    <3>1. q * (c * d) \in Nat /\ p * c \in Nat /\ (r + 1) * (c * d) \in Nat
          BY <1>1, <1>2, <1>4
    <3> QED  BY <1>1, <1>4, <2>1, <2>2, <2>3, <3>1
  <2>5. q < r + 1  BY <1>2, <1>3, <1>4, <2>4, Cancel
  <2> QED  BY <1>2, <1>4, <2>5
<1>7. r = q  BY <1>2, <1>4, <1>5, <1>6
<1> QED  BY <1>7 DEF p, q, r

(* Narrowing a U256 result to 128 bits gives it back, or fails when it     *)
(* does not fit: the upper limbs tell every number too wide from the rest. *)
LEMMA NarrowingExact ==
  ASSUME NEW x \in Int
  PROVE  U128FromUint(U256(x)) = Exactly(x)
<1> DEFINE L == LimbBase
           W == L * L
<1>1. /\ L \in Nat \ {0} /\ MaxUint \in Nat /\ MaxUint = W - 1
      /\ MaxU256 \in Nat /\ MaxU256 = W * W - 1 /\ None \notin Nat
      /\ MaxUint <= MaxU256
  <2>1. MaxUint \in 0..MaxUint  BY Widths
  <2>2. MaxUint \in 0..MaxU256  BY <2>1, Widths
  <2> QED  BY <2>2, Widths, BigNumberAssumption
<1>2. W \in Nat \ {0}  BY <1>1
<1>3. CASE x \notin 0..MaxU256
  <2>1. U256(x) = None  BY <1>3 DEF U256
  <2>2. ~Fits(x)  BY <1>1, <1>3 DEF Fits
  <2> QED  BY <2>1, <2>2 DEF U128FromUint, Exactly
<1>4. CASE x \in 0..MaxU256
  <2>1. x \in Nat /\ x <= MaxU256 /\ U256(x) = x /\ x # None  BY <1>1, <1>4, Widths
  <2> DEFINE p == x \div L
             q == x \div W
             s == x \div (W * L)
  <2>2. p \in Nat /\ p * L <= x /\ x < p * L + L  BY <1>1, <2>1, DivBounds
  <2>3. q \in Nat /\ q * W <= x /\ x < q * W + W
    <3> HIDE DEF W
    <3> QED  BY <1>2, <2>1, DivBounds
  <2>4. s = q \div L
    <3> HIDE DEF W
    <3> QED  BY <1>1, <1>2, <2>1, DivDiv
  <2>5. q = p \div L  BY <1>1, <2>1, DivDiv
  <2>6. /\ Limbs(x)[1] = x % L /\ Limbs(x)[2] = p % L
        /\ Limbs(x)[3] = q % L /\ Limbs(x)[4] = s % L
        BY DEF Limbs
  <2> HIDE DEF L, W, p, q, s
  <2>7. CASE x <= MaxUint
    <3>1. q = 0
      <4>1. q * W < W /\ q * W \in Nat  BY <1>1, <1>2, <2>1, <2>3, <2>7
      <4>2. q < 1  BY <1>2, <2>3, <4>1, Cancel
      <4> QED  BY <2>3, <4>2
    <3>2. q % L = 0 /\ s % L = 0
      <4>1. 0 \div L = 0 /\ 0 % L = 0  BY <1>1
      <4>2. s = 0  BY <2>4, <3>1, <4>1
      <4> QED  BY <3>1, <4>1, <4>2
    <3>3. p % L = p
      <4>1. p < 0 * L + L  BY <1>1, <2>2, <2>5, <3>1, DivBounds
      <4>2. p < L  BY <1>1, <2>2, <4>1
      <4> QED  BY <1>1, <2>2, <4>2
    <3>4. p * L + (x % L) = x
      <4>1. x = L * (x \div L) + (x % L)  BY <1>1, <2>1
      <4>2. x = L * p + (x % L)  BY <4>1 DEF p
      <4>3. L * p = p * L  BY <1>1, <2>2
      <4> QED  BY <4>2, <4>3
    <3>5. UpperHalfZero(x)  BY <2>6, <3>2 DEF UpperHalfZero
    <3>6. U128FromUint(x) = p * L + (x % L)
          BY <2>1, <2>6, <3>3, <3>5 DEF U128FromUint, L
    <3>7. Fits(x)  BY <1>1, <2>1, <2>7 DEF Fits
    <3> QED  BY <2>1, <3>4, <3>6, <3>7 DEF Exactly
  <2>8. CASE x > MaxUint
    <3>1. q # 0
      <4>1. SUFFICES ASSUME q = 0 PROVE FALSE  OBVIOUS
      <4>2. x < 0 * W + W  BY <2>3, <4>1
      <4> QED  BY <1>1, <1>2, <2>1, <2>8, <4>2
    <3>2. s < L /\ s \in Nat
      <4>1. q * W < W * W
        <5>1. q * W \in Nat /\ W * W \in Nat  BY <1>2, <2>3
        <5> QED  BY <1>1, <2>1, <2>3, <5>1
      <4>2. q < W  BY <1>2, <2>3, <4>1, Cancel
      <4>3. s \in Nat /\ s * L <= q  BY <1>1, <2>3, <2>4, DivBounds
      <4>4. s * L < L * L
        <5>1. s * L \in Nat  BY <1>1, <4>3
        <5>2. s * L < W  BY <1>2, <2>3, <4>2, <4>3, <5>1
        <5> QED  BY <5>2 DEF W
      <4> QED  BY <1>1, <4>3, <4>4, Cancel
    <3>3. ~UpperHalfZero(x)
      <4>1. SUFFICES ASSUME q % L = 0, s % L = 0 PROVE FALSE
            BY <2>6 DEF UpperHalfZero
      <4>2. s = 0
        <5>1. s % L = s  BY <1>1, <3>2
        <5> QED  BY <4>1, <5>1
      <4>3. q < 0 * L + L  BY <1>1, <2>3, <2>4, <4>2, DivBounds
      <4>4. q < L  BY <1>1, <2>3, <4>3
      <4>5. q % L = q  BY <1>1, <2>3, <4>4
      <4> QED  BY <3>1, <4>1, <4>5
    <3>4. ~Fits(x)  BY <1>1, <2>1, <2>8 DEF Fits
    <3> QED  BY <2>1, <3>3, <3>4 DEF U128FromUint, Exactly
  <2> QED  BY <1>1, <2>1, <2>7, <2>8
<1> QED  BY <1>3, <1>4

(* Widening a Uint128 limb by limb keeps it.                               *)
LEMMA WideningExact ==
  ASSUME NEW x \in Nat
  PROVE  UintFromU128(x) = x
<1>1. LimbBase \in Nat \ {0}  BY Widths
<1>2. x = LimbBase * (x \div LimbBase) + (x % LimbBase)  BY <1>1
<1>3. x \div LimbBase \in Nat /\ x % LimbBase \in Nat  BY <1>1
<1>4. UintFromU128(x) = (x % LimbBase) + (x \div LimbBase) * LimbBase
      BY DEF UintFromU128, SplitU128
<1> DEFINE p == x \div LimbBase
           r == x % LimbBase
<1>5. /\ x = LimbBase * p + r /\ p \in Nat /\ r \in Nat
      /\ UintFromU128(x) = r + p * LimbBase
      BY <1>2, <1>3, <1>4
<1> HIDE DEF p, r
<1>6. LimbBase * p = p * LimbBase /\ p * LimbBase \in Nat  BY <1>1, <1>5
<1> QED  BY <1>5, <1>6

(* Sums, differences, products and converted amounts of any two Uint128,   *)
(* computed in 256 bits and narrowed, are exact or fail.                   *)
THEOREM WideAlwaysExact == Spec => []WideExact
<1>1. Numbers => WideExact
  <2> SUFFICES ASSUME Numbers PROVE WideExact  OBVIOUS
  <2>1. /\ a \in Nat /\ b \in Nat /\ a \in 0..MaxUint /\ b \in 0..MaxUint
        /\ One \in Nat \ {0}
        BY FixedPointAssumption DEF Numbers
  <2>2. UintFromU128(a) = a /\ UintFromU128(b) = b  BY <2>1, WideningExact
  <2>3. /\ a + b \in Int /\ a - b \in Int /\ a * b \in Int /\ a * b \in Nat
        /\ a * b \in 0..MaxU256
        BY <2>1, Widths
  <2>4. /\ U128FromUint(UintAdd(a, b)) = Exactly(a + b)
        /\ U128FromUint(UintSub(a, b)) = Exactly(a - b)
        /\ U128FromUint(UintTimes(a, b)) = Exactly(a * b)
        BY <2>3, NarrowingExact DEF UintAdd, UintSub, UintTimes
  <2>5. U128FromUint(UintMul(a, b)) = Exactly((a * b) \div One)
    <3> DEFINE z == a * b
               m == z \div One
    <3>1. UintMul(a, b) = m
      <4>1. U256(a * b) # None /\ One # 0  BY <2>1, <2>3, Widths
      <4> QED  BY <4>1 DEF UintMul, MultiplyRatio, Quotient
    <3>2. z \in Nat /\ z <= MaxU256 /\ MaxU256 \in Nat  BY <2>3, Widths
    <3> HIDE DEF z
    <3>3. m \in Nat /\ m * One <= z  BY <2>1, <3>2, DivBounds
    <3>4. m <= z
      <4> HIDE DEF m
      <4>1. m <= m * One /\ m * One \in Nat  BY <2>1, <3>3
      <4> QED  BY <3>2, <3>3, <4>1
    <3> HIDE DEF m
    <3>5. m \in 0..MaxU256 /\ m \in Int  BY <3>2, <3>3, <3>4
    <3>6. U256(m) = m  BY <3>5, Widths
    <3>7. U128FromUint(m) = Exactly(m)  BY <3>5, <3>6, NarrowingExact
    <3> QED  BY <3>1, <3>7 DEF m, z
  <2> QED  BY <2>2, <2>4, <2>5 DEF WideExact
<1> QED  BY <1>1, NumbersCorrect, PTL

-----------------------------------------------------------------------------
(* Powers of ten *)

(* A solution of the recursive equation up to n.                           *)
PowersUpTo(g, n) == g = [k \in 0..n |-> IF k = 0 THEN 1 ELSE 10 * g[k - 1]]

LEMMA PowersExist == \A n \in Nat : \E g : PowersUpTo(g, n)
<1> DEFINE B == {n \in Nat : ~ \E g : PowersUpTo(g, n)}
<1> SUFFICES ASSUME B # {} PROVE FALSE  OBVIOUS
<1>1. PICK n \in B : \A k \in B : n <= k  BY LeastNatural
<1>2. n # 0
  <2> SUFFICES ASSUME n = 0 PROVE FALSE  OBVIOUS
  <2> DEFINE g == [k \in 0..0 |-> 1]
  <2>1. PowersUpTo(g, 0)  BY DEF PowersUpTo
  <2> QED  BY <2>1
<1>3. n \in Nat /\ n - 1 \in Nat /\ n - 1 < n  BY <1>2
<1>4. n - 1 \notin B
  <2> HIDE DEF B
  <2> QED  BY <1>1, <1>3
<1>5. PICK h : PowersUpTo(h, n - 1)  BY <1>3, <1>4
<1> DEFINE g == [k \in 0..n |-> IF k = 0 THEN 1 ELSE 10 * h[k - 1]]
<1>6. ASSUME NEW k \in 0..n, k # 0 PROVE h[k - 1] = g[k - 1]
  <2>1. k - 1 \in 0..(n - 1) /\ k - 1 \in 0..n  BY <1>3, <1>6
  <2>2. h[k - 1] = IF k - 1 = 0 THEN 1 ELSE 10 * h[(k - 1) - 1]
        BY <1>5, <2>1 DEF PowersUpTo
  <2> QED  BY <2>1, <2>2
<1>7. PowersUpTo(g, n)  BY <1>6 DEF PowersUpTo
<1> QED  BY <1>7

(* Two solutions agree where both are defined.                             *)
LEMMA PowersUnique ==
  ASSUME NEW m \in Nat, NEW n \in Nat, NEW g, PowersUpTo(g, m),
         NEW h, PowersUpTo(h, n)
  PROVE  \A k \in Nat : k <= m /\ k <= n => g[k] = h[k]
<1> DEFINE B == {k \in Nat : k <= m /\ k <= n /\ g[k] # h[k]}
<1> SUFFICES ASSUME B # {} PROVE FALSE  OBVIOUS
<1>1. PICK k \in B : \A j \in B : k <= j  BY LeastNatural
<1>2. /\ g[k] = IF k = 0 THEN 1 ELSE 10 * g[k - 1]
      /\ h[k] = IF k = 0 THEN 1 ELSE 10 * h[k - 1]
  <2>1. k \in 0..m /\ k \in 0..n  OBVIOUS
  <2> QED  BY <2>1 DEF PowersUpTo
<1>3. k # 0 /\ g[k - 1] # h[k - 1]  BY <1>2
<1>4. /\ k \in Nat /\ k - 1 \in Nat /\ k - 1 < k
      /\ k - 1 <= m /\ k - 1 <= n
      BY <1>3
<1>5. k - 1 \in B  BY <1>3, <1>4
<1> HIDE DEF B
<1> QED  BY <1>1, <1>4, <1>5

(* So the recursive definition of PowerOfTen has a solution.               *)
LEMMA PowerEquation ==
  \A k \in Nat : PowerOfTen[k] = IF k = 0 THEN 1 ELSE 10 * PowerOfTen[k - 1]
<1> DEFINE Power(k) == CHOOSE g : PowersUpTo(g, k)
           F == [k \in Nat |-> Power(k)[k]]
<1>1. \A k \in Nat : PowersUpTo(Power(k), k)  BY PowersExist
<1> HIDE DEF Power
<1>2. ASSUME NEW k \in Nat PROVE F[k] = IF k = 0 THEN 1 ELSE 10 * F[k - 1]
  <2>1. F[k] = IF k = 0 THEN 1 ELSE 10 * Power(k)[k - 1]
    <3>1. k \in 0..k  OBVIOUS
    <3> QED  BY <1>1, <3>1 DEF PowersUpTo
  <2>2. CASE k = 0  BY <2>1, <2>2
  <2>3. CASE k # 0
    <3>1. k - 1 \in Nat /\ k - 1 <= k /\ k - 1 <= k - 1  BY <2>3
    <3>2. Power(k)[k - 1] = Power(k - 1)[k - 1]  BY <1>1, <3>1, PowersUnique
    <3>3. F[k - 1] = Power(k - 1)[k - 1]  BY <3>1
    <3> QED  BY <2>1, <2>3, <3>2, <3>3
  <2> QED  BY <2>2, <2>3
<1>3. F = [k \in Nat |-> IF k = 0 THEN 1 ELSE 10 * F[k - 1]]
  <2>1. F = [k \in Nat |-> F[k]]  OBVIOUS
  <2> HIDE DEF F
  <2> QED  BY <1>2, <2>1
<1> HIDE DEF F
<1>4. PowerOfTen = [k \in Nat |-> IF k = 0 THEN 1 ELSE 10 * PowerOfTen[k - 1]]
      BY <1>3 DEF PowerOfTen
<1> QED  BY <1>4

LEMMA PowerStep ==
  /\ PowerOfTen[0] = 1
  /\ \A k \in Nat : PowerOfTen[k + 1] = 10 * PowerOfTen[k]
<1>1. PowerOfTen[0] = 1  BY PowerEquation
<1>2. ASSUME NEW k \in Nat PROVE PowerOfTen[k + 1] = 10 * PowerOfTen[k]
  <2>1. k + 1 \in Nat /\ k + 1 # 0 /\ (k + 1) - 1 = k  OBVIOUS
  <2> QED  BY <2>1, PowerEquation
<1> QED  BY <1>1, <1>2

(* A power of ten is positive and exceeds its exponent.                    *)
LEMMA PowerLarge == \A k \in Nat : PowerOfTen[k] \in Nat /\ PowerOfTen[k] > k
<1> DEFINE B == {k \in Nat : ~(PowerOfTen[k] \in Nat /\ PowerOfTen[k] > k)}
<1> SUFFICES ASSUME B # {} PROVE FALSE  OBVIOUS
<1>1. PICK k \in B : \A j \in B : k <= j  BY LeastNatural
<1>2. k # 0  BY PowerStep
<1>3. PICK j \in Nat : k = j + 1
  <2>1. k - 1 \in Nat /\ k = (k - 1) + 1  BY <1>2
  <2> QED  BY <2>1
<1>4. j \notin B
  <2> HIDE DEF B
  <2> QED  BY <1>1, <1>3
<1>5. PowerOfTen[j] \in Nat /\ PowerOfTen[j] > j /\ PowerOfTen[k] = 10 * PowerOfTen[j]
      BY <1>3, <1>4, PowerStep
<1>6. PICK p \in Nat : p = PowerOfTen[j]  BY <1>5
<1>7. 10 * p \in Nat /\ 10 * p > j + 1  BY <1>5, <1>6
<1> QED  BY <1>3, <1>5, <1>6, <1>7

(* Exponents add.                                                          *)
LEMMA PowerSum ==
  ASSUME NEW i \in Nat
  PROVE  \A k \in Nat : PowerOfTen[i + k] = PowerOfTen[i] * PowerOfTen[k]
<1> DEFINE B == {k \in Nat : PowerOfTen[i + k] # PowerOfTen[i] * PowerOfTen[k]}
<1> SUFFICES ASSUME B # {} PROVE FALSE  OBVIOUS
<1>1. PICK k \in B : \A j \in B : k <= j  BY LeastNatural
<1>2. k # 0
  <2> SUFFICES ASSUME k = 0 PROVE FALSE  OBVIOUS
  <2>1. PowerOfTen[i] * 1 = PowerOfTen[i] /\ i + 0 = i  BY PowerLarge
  <2>2. PowerOfTen[i + 0] = PowerOfTen[i] * PowerOfTen[0]  BY <2>1, PowerStep
  <2> QED  BY <2>2
<1>3. PICK j \in Nat : k = j + 1
  <2>1. k - 1 \in Nat /\ k = (k - 1) + 1  BY <1>2
  <2> QED  BY <2>1
<1>4. j \notin B
  <2> HIDE DEF B
  <2> QED  BY <1>1, <1>3
<1>5. /\ PowerOfTen[i + j] = PowerOfTen[i] * PowerOfTen[j]
      /\ PowerOfTen[k] = 10 * PowerOfTen[j]
      BY <1>3, <1>4, PowerStep
<1>6. PowerOfTen[i + k] = 10 * PowerOfTen[i + j]
  <2>1. i + k = (i + j) + 1 /\ i + j \in Nat  BY <1>3
  <2> QED  BY <2>1, PowerStep
<1>7. PICK p \in Nat, q \in Nat : p = PowerOfTen[i] /\ q = PowerOfTen[j]  BY PowerLarge
<1>8. 10 * (p * q) = p * (10 * q)  OBVIOUS
<1> QED  BY <1>5, <1>6, <1>7, <1>8

(* Larger exponents, larger powers.                                        *)
LEMMA PowerMonotone ==
  ASSUME NEW i \in Nat, NEW k \in Nat, i <= k
  PROVE  PowerOfTen[i] <= PowerOfTen[k]
<1>1. PICK j \in Nat : k = i + j
  <2>1. k - i \in Nat /\ k = i + (k - i)  OBVIOUS
  <2> QED  BY <2>1
<1>2. PICK p \in Nat, q \in Nat \ {0} : p = PowerOfTen[i] /\ q = PowerOfTen[j]
      BY PowerLarge
<1>3. PowerOfTen[k] = p * q  BY <1>1, <1>2, PowerSum
<1>4. p <= p * q  OBVIOUS
<1> QED  BY <1>2, <1>3, <1>4

-----------------------------------------------------------------------------
(* Digits *)

(* The digit of n at the power 10^k.                                       *)
Digit(n, k) == (n \div PowerOfTen[k]) % 10

(* A quotient is ten times the next one and a digit.                       *)
LEMMA DigitStep ==
  ASSUME NEW n \in Nat, NEW k \in Nat
  PROVE  /\ n \div PowerOfTen[k] \in Nat /\ Digit(n, k) \in Nat
         /\ n \div PowerOfTen[k] = 10 * (n \div PowerOfTen[k + 1]) + Digit(n, k)
<1>1. PICK p \in Nat \ {0} : p = PowerOfTen[k]  BY PowerLarge
<1>2. PowerOfTen[k + 1] = p * 10  BY <1>1, PowerStep
<1>3. n \div (p * 10) = (n \div p) \div 10  BY DivDiv
<1>4. PICK q \in Nat : q = n \div p  BY DivBounds
<1>5. q = 10 * (q \div 10) + (q % 10) /\ q % 10 \in Nat  OBVIOUS
<1> QED  BY <1>1, <1>2, <1>3, <1>4, <1>5 DEF Digit

(* What the digits of n from the power 10^m down stand for, at position i. *)
Places(n, m) == [i \in 1..m |-> Digit(n, m - i) * PowerOfTen[m - i]]

LEMMA DivSmall == ASSUME NEW n \in Nat, NEW p \in Nat, n < p PROVE n \div p = 0
OBVIOUS

(* The digits of a number add up to it.                                    *)
LEMMA DigitsSum ==
  ASSUME NEW n \in Nat, NEW m \in Nat, n < PowerOfTen[m]
  PROVE  SumOf(Places(n, m)) = n
<1> DEFINE f == Places(n, m)
           P == Partial(f, 1..m)
           Value(j) == (n \div PowerOfTen[m - j]) * PowerOfTen[m - j]
           B == {j \in Nat : j <= m /\ P[1..j] # Value(j)}
<1>1. /\ f \in [1..m -> Int] /\ IsFiniteSet(1..m)
      /\ \A i \in 1..m : f[i] = Digit(n, m - i) * PowerOfTen[m - i]
  <2>1. ASSUME NEW i \in 1..m PROVE Digit(n, m - i) * PowerOfTen[m - i] \in Int
    <3>1. m - i \in Nat  OBVIOUS
    <3>2. Digit(n, m - i) \in Nat /\ PowerOfTen[m - i] \in Nat
          BY <3>1, DigitStep, PowerLarge
    <3> QED  BY <3>2
  <2> QED  BY <2>1, FS_Interval DEF Places
<1> HIDE DEF f
<1>2. B = {}
  <2> SUFFICES ASSUME B # {} PROVE FALSE  OBVIOUS
  <2>1. PICK j \in B : \A i \in B : j <= i  BY LeastNatural
  <2>2. j # 0
    <3> SUFFICES ASSUME j = 0 PROVE FALSE  OBVIOUS
    <3>1. P[1..0] = 0
      <4>1. 1..0 = {}  OBVIOUS
      <4> QED  BY <1>1, <4>1, PartialEquation
    <3>2. PICK p \in Nat \ {0} : p = PowerOfTen[m]  BY PowerLarge
    <3>3. n \div p = 0  BY <3>2, DivSmall
    <3>4. Value(0) = 0  BY <3>2, <3>3
    <3> QED  BY <3>1, <3>4
  <2>3. PICK i \in Nat : j = i + 1
    <3>1. j - 1 \in Nat /\ j = (j - 1) + 1  BY <2>2
    <3> QED  BY <3>1
  <2>4. j \in Nat /\ j <= m /\ P[1..j] # Value(j)  OBVIOUS
  <2>5. i \notin B
    <3> HIDE DEF B
    <3> QED  BY <2>1, <2>3
  <2>6. P[1..i] = Value(i)  BY <2>3, <2>4, <2>5
  <2>7. P[1..j] = f[j] + P[1..i]
    <3>1. /\ 1..j \in SUBSET (1..m) /\ j \in 1..j /\ (1..j) \ {j} = 1..i
          BY <2>3, <2>4
    <3>2. PICK S, T : S = 1..m /\ T = 1..j  OBVIOUS
    <3>3. /\ IsFiniteSet(S) /\ f \in [S -> Int] /\ T \in SUBSET S /\ j \in T
          BY <1>1, <3>1, <3>2
    <3>4. \A s \in SUBSET S : \A x \in s :
             Partial(f, S)[s] = f[x] + Partial(f, S)[s \ {x}]
          BY ONLY <3>3, PartialRemove
    <3>5. Partial(f, S)[T] = f[j] + Partial(f, S)[T \ {j}]  BY ONLY <3>3, <3>4
    <3> QED  BY <3>1, <3>2, <3>5
  <2>8. PICK k \in Nat : k = m - j /\ k + 1 = m - i
    <3>1. m - j \in Nat /\ (m - j) + 1 = m - i  BY <2>3, <2>4
    <3> QED  BY <3>1
  <2>9. PICK p \in Nat, q \in Nat, d \in Nat :
          /\ p = PowerOfTen[k] /\ q = n \div PowerOfTen[k + 1] /\ d = Digit(n, k)
    <3>1. k + 1 \in Nat  OBVIOUS
    <3>2. /\ PowerOfTen[k] \in Nat /\ Digit(n, k) \in Nat
          /\ n \div PowerOfTen[k + 1] \in Nat
          BY <3>1, PowerLarge, DigitStep
    <3> QED  BY <3>2
  <2>10. f[j] = d * p /\ Value(j) = (10 * q + d) * p
    <3>1. j \in 1..m  BY <2>2, <2>4
    <3> QED  BY <1>1, <2>8, <2>9, <3>1, DigitStep
  <2>11. Value(i) = q * (10 * p)  BY <2>8, <2>9, PowerStep
  <2>12. (10 * q + d) * p = d * p + q * (10 * p)  OBVIOUS
  <2> QED  BY <2>4, <2>6, <2>7, <2>10, <2>11, <2>12
<1>3. P[1..m] = Value(m)
  <2>1. m \notin B /\ m <= m  BY <1>2
  <2> QED  BY <2>1
<1>4. Value(m) = n
  <2>1. m - m = 0 /\ n \div 1 = n /\ n * 1 = n  OBVIOUS
  <2> QED  BY <2>1, PowerStep
<1>5. SumOf(f) = P[1..m]
  <2>1. DOMAIN f = 1..m  BY <1>1
  <2> QED  BY <2>1, SumIsPartial
<1> QED  BY <1>3, <1>4, <1>5 DEF f

(* from_dec_str reads any such sequence of digits.                         *)
LEMMA DigitsRead ==
  ASSUME NEW n \in 0..MaxU256, NEW m \in Nat, n < PowerOfTen[m],
         NEW digits, Len(digits) = m, DOMAIN digits = 1..m,
         \A i \in 1..m : digits[i] = Digit(n, m - i)
  PROVE  FromDecStr(digits) = n
<1>1. [i \in DOMAIN digits |-> digits[i] * PowerOfTen[Len(digits) - i]] = Places(n, m)
      BY DEF Places
<1>2. n \in Nat /\ U256(n) = n  BY Widths
<1> QED  BY <1>1, <1>2, DigitsSum DEF FromDecStr

(* to_string writes such digits, as many as are needed.                    *)
LEMMA DigitsWritten ==
  ASSUME NEW n \in Nat
  PROVE  \E w \in Nat \ {0} :
           /\ n < PowerOfTen[w]
           /\ w = 1 \/ n >= PowerOfTen[w - 1]
           /\ ToDigits(n) = [i \in 1..w |-> Digit(n, w - i)]
<1> DEFINE Enough(k) == n < PowerOfTen[k] /\ (k = 1 \/ n >= PowerOfTen[k - 1])
           w == CHOOSE k \in 1..(n + 1) : Enough(k)
           B == {k \in Nat : k > 0 /\ n < PowerOfTen[k]}
<1>1. \E k \in 1..(n + 1) : Enough(k)
  <2>1. n + 1 \in Nat /\ n + 1 > 0 /\ n < PowerOfTen[n + 1]
    <3>1. n + 1 \in Nat  OBVIOUS
    <3>2. PowerOfTen[n + 1] \in Nat /\ PowerOfTen[n + 1] > n + 1  BY <3>1, PowerLarge
    <3> QED  BY <3>1, <3>2
  <2>2. n + 1 \in B /\ B \in SUBSET Nat  BY <2>1
  <2>3. PICK k \in B : \A j \in B : k <= j
    <3> HIDE DEF B
    <3> QED  BY <2>2, LeastNatural
  <2>4. k \in Nat /\ k > 0 /\ n < PowerOfTen[k] /\ k <= n + 1  BY <2>2, <2>3
  <2>5. ASSUME k # 1 PROVE n >= PowerOfTen[k - 1]
    <3>1. k - 1 \in Nat /\ k - 1 > 0 /\ ~(k <= k - 1)  BY <2>4, <2>5
    <3>2. k - 1 \notin B
      <4> HIDE DEF B
      <4> QED  BY <2>3, <3>1
    <3>3. ~(n < PowerOfTen[k - 1])  BY <3>1, <3>2
    <3>4. PowerOfTen[k - 1] \in Nat  BY <3>1, PowerLarge
    <3> QED  BY <3>3, <3>4
  <2> QED  BY <2>4, <2>5
<1>2. w \in 1..(n + 1) /\ Enough(w)  BY <1>1
<1>3. ToDigits(n) = [i \in 1..w |-> Digit(n, w - i)]  BY DEF ToDigits, Digit
<1> HIDE DEF w
<1>4. w \in Nat \ {0}  BY <1>2
<1> QED  BY <1>2, <1>3, <1>4

(* A number printed and parsed is the same number.                         *)
LEMMA DigitsExact ==
  ASSUME NEW n \in 0..MaxU256
  PROVE  /\ FromDecStr(ToDigits(n)) = n
         /\ ToDigits(n) \in Seq(Nat)
<1>1. n \in Nat  BY Widths
<1>2. PICK w \in Nat \ {0} : /\ n < PowerOfTen[w]
                             /\ ToDigits(n) = [i \in 1..w |-> Digit(n, w - i)]
      BY <1>1, DigitsWritten
<1>3. \A i \in 1..w : Digit(n, w - i) \in Nat
  <2>1. ASSUME NEW i \in 1..w PROVE Digit(n, w - i) \in Nat
    <3>1. w - i \in Nat  OBVIOUS
    <3> QED  BY <1>1, <3>1, DigitStep
  <2> QED  BY <2>1
<1>4. ToDigits(n) \in [1..w -> Nat]  BY <1>2, <1>3
<1>5. ToDigits(n) \in Seq(Nat) /\ Len(ToDigits(n)) = w /\ DOMAIN ToDigits(n) = 1..w
      BY <1>4
<1>6. \A i \in 1..w : ToDigits(n)[i] = Digit(n, w - i)  BY <1>2
<1>7. w \in Nat  OBVIOUS
<1> QED  BY <1>2, <1>5, <1>6, <1>7, DigitsRead

(* Padding with zeros gives the digits from the first fractional one on.   *)
LEMMA Padding ==
  ASSUME NEW n \in Nat \ {0}, n < PowerOfTen[Digits], Digits \in Nat,
         NEW padded,
         padded = [i \in 1..(Digits - Len(ToDigits(n))) |-> 0] \o ToDigits(n)
  PROVE  /\ padded \in Seq(Nat) /\ Len(padded) = Digits
         /\ \A i \in 1..Digits : padded[i] = Digit(n, Digits - i)
<1>1. PICK w \in Nat \ {0} : /\ n < PowerOfTen[w]
                             /\ w = 1 \/ n >= PowerOfTen[w - 1]
                             /\ ToDigits(n) = [i \in 1..w |-> Digit(n, w - i)]
      BY DigitsWritten
<1>2. \A i \in 1..w : Digit(n, w - i) \in Nat
  <2>1. ASSUME NEW i \in 1..w PROVE Digit(n, w - i) \in Nat
    <3>1. w - i \in Nat  OBVIOUS
    <3> QED  BY <3>1, DigitStep
  <2> QED  BY <2>1
<1>3. ToDigits(n) \in [1..w -> Nat]  BY <1>1, <1>2
<1>4. ToDigits(n) \in Seq(Nat) /\ Len(ToDigits(n)) = w  BY <1>3
<1>5. w <= Digits
  <2>1. CASE w = 1
    <3>1. Digits = 0 => n < 1  BY PowerStep
    <3>2. Digits # 0  BY <3>1
    <3> QED  BY <2>1, <3>2
  <2>2. CASE w # 1
    <3>1. w - 1 \in Nat /\ n >= PowerOfTen[w - 1]  BY <1>1, <2>2
    <3>2. SUFFICES ASSUME Digits <= w - 1 PROVE FALSE  BY <3>1
    <3>3. PowerOfTen[Digits] <= PowerOfTen[w - 1]  BY <3>1, <3>2, PowerMonotone
    <3>4. PowerOfTen[Digits] \in Nat /\ PowerOfTen[w - 1] \in Nat  BY <3>1, PowerLarge
    <3> QED  BY <3>1, <3>3, <3>4
  <2> QED  BY <2>1, <2>2
<1>6. PICK z \in Nat : z = Digits - w /\ Digits = z + w
  <2>1. Digits - w \in Nat /\ Digits = (Digits - w) + w  BY <1>5
  <2> QED  BY <2>1
<1> DEFINE zeros == [i \in 1..z |-> 0]
<1>7. zeros \in Seq(Nat) /\ Len(zeros) = z /\ padded = zeros \o ToDigits(n)
  <2>1. zeros \in [1..z -> Nat]  OBVIOUS
  <2> QED  BY <1>4, <1>6, <2>1
<1>8. \A i \in 1..z : zeros[i] = 0  OBVIOUS
<1> HIDE DEF zeros
<1>9. /\ padded \in Seq(Nat) /\ Len(padded) = z + w
      /\ \A i \in 1..(z + w) : padded[i] = IF i <= z THEN zeros[i] ELSE ToDigits(n)[i - z]
  <2>1. PICK d : d = ToDigits(n)  OBVIOUS
  <2>2. d \in Seq(Nat) /\ zeros \in Seq(Nat) /\ Len(d) = w /\ Len(zeros) = z
        BY <1>4, <1>7, <2>1
  <2>3. /\ zeros \o d \in Seq(Nat) /\ Len(zeros \o d) = Len(zeros) + Len(d)
        /\ \A i \in 1..(Len(zeros) + Len(d)) :
             (zeros \o d)[i] = IF i <= Len(zeros) THEN zeros[i] ELSE d[i - Len(zeros)]
        BY ONLY <2>2, ConcatProperties
  <2>4. padded = zeros \o d  BY <1>7, <2>1
  <2> QED  BY ONLY <2>1, <2>2, <2>3, <2>4
<1>10. ASSUME NEW i \in 1..Digits PROVE padded[i] = Digit(n, Digits - i)
  <2>1. CASE i <= z
    <3>1. i \in 1..z /\ Digits - i \in Nat /\ w <= Digits - i  BY <1>6, <2>1
    <3>2. padded[i] = 0  BY <1>6, <1>8, <1>9, <2>1, <3>1
    <3>3. PowerOfTen[w] <= PowerOfTen[Digits - i]  BY <3>1, PowerMonotone
    <3>4. PICK p \in Nat : p = PowerOfTen[Digits - i]  BY <3>1, PowerLarge
    <3>5. PowerOfTen[w] \in Nat  BY PowerLarge
    <3>6. n < p  BY <1>1, <3>3, <3>4, <3>5
    <3>8. n \div p = 0  BY <3>6, DivSmall
    <3>9. 0 % 10 = 0  OBVIOUS
    <3> QED  BY <3>2, <3>4, <3>8, <3>9 DEF Digit
  <2>2. CASE i > z
    <3>1. i - z \in 1..w /\ w - (i - z) = Digits - i /\ ~(i <= z) /\ i \in 1..(z + w)
          BY <1>6, <2>2
    <3>2. padded[i] = ToDigits(n)[i - z]  BY <1>9, <3>1
    <3>3. ToDigits(n)[i - z] = Digit(n, w - (i - z))  BY <1>1, <3>1
    <3> QED  BY <3>1, <3>2, <3>3
  <2>3. i <= z \/ i > z  BY <1>6
  <2> QED  BY <2>1, <2>2, <2>3
<1> QED  BY <1>6, <1>9, <1>10

(* A number whose last digits are zero is a multiple of a power of ten.    *)
LEMMA TrailingZeros ==
  ASSUME NEW n \in Nat, NEW c \in Nat, \A k \in Nat : k < c => Digit(n, k) = 0
  PROVE  (n \div PowerOfTen[c]) * PowerOfTen[c] = n
<1> DEFINE Cut(k) == (n \div PowerOfTen[k]) * PowerOfTen[k]
           B == {k \in Nat : k <= c /\ Cut(k) # n}
<1>1. B = {}
  <2> SUFFICES ASSUME B # {} PROVE FALSE  OBVIOUS
  <2>1. PICK k \in B : \A j \in B : k <= j  BY LeastNatural
  <2>2. k # 0
    <3>1. n \div 1 = n /\ n * 1 = n  OBVIOUS
    <3>2. Cut(0) = n  BY <3>1, PowerStep
    <3> QED  BY <3>2
  <2>3. PICK j \in Nat : k = j + 1
    <3>1. k - 1 \in Nat /\ k = (k - 1) + 1  BY <2>2
    <3> QED  BY <3>1
  <2>4. k <= c /\ Cut(k) # n /\ j < c /\ j <= c  BY <2>3
  <2>5. j \notin B
    <3> HIDE DEF B
    <3> QED  BY <2>1, <2>3
  <2>6. Cut(j) = n /\ Digit(n, j) = 0  BY <2>3, <2>4, <2>5
  <2>7. PICK p \in Nat, q \in Nat :
          p = PowerOfTen[j] /\ q = n \div PowerOfTen[j + 1]
    <3>1. j + 1 \in Nat  OBVIOUS
    <3>2. PowerOfTen[j] \in Nat /\ n \div PowerOfTen[j + 1] \in Nat
          BY <3>1, PowerLarge, DigitStep
    <3> QED  BY <3>2
  <2>8. n \div PowerOfTen[j] = 10 * q + 0  BY <2>6, <2>7, DigitStep
  <2>9. Cut(j) = (10 * q + 0) * p /\ Cut(k) = q * (10 * p)
        BY <2>3, <2>7, <2>8, PowerStep
  <2>10. (10 * q + 0) * p = q * (10 * p)  OBVIOUS
  <2> QED  BY <2>4, <2>6, <2>9, <2>10
<1>2. c \notin B /\ c <= c  BY <1>1
<1> QED  BY <1>2

(* A fraction is read exactly, however many of its last zeros are written. *)
LEMMA FractionRead ==
  ASSUME Digits \in Nat, NEW n \in 0..MaxU256, n < PowerOfTen[Digits],
         NEW l \in 0..Digits, NEW f \in Seq(Nat), Len(f) = l,
         \A i \in 1..l : f[i] = Digit(n, Digits - i),
         \A i \in (l + 1)..Digits : Digit(n, Digits - i) = 0
  PROVE  \E m \in 0..MaxU256 : FromDecStr(f) = m /\ m * FractionalFactor(f) = n
<1>1. n \in Nat /\ l \in Nat /\ MaxU256 \in Nat  BY Widths
<1>2. PICK c \in Nat : c = Digits - l /\ Digits = c + l
  <2>1. Digits - l \in Nat /\ Digits = (Digits - l) + l  BY <1>1
  <2> QED  BY <2>1
<1>3. PICK q \in Nat \ {0} : q = PowerOfTen[c] /\ q = FractionalFactor(f)
      BY <1>2, PowerLarge DEF FractionalFactor
<1>4. PICK m \in Nat : m = n \div q  BY <1>1, DivBounds
<1>5. m * q = n
  <2>1. ASSUME NEW k \in Nat, k < c PROVE Digit(n, k) = 0
    <3>1. Digits - k \in (l + 1)..Digits /\ Digits - (Digits - k) = k
          BY <1>1, <1>2, <2>1
    <3> QED  BY <3>1
  <2>2. (n \div PowerOfTen[c]) * PowerOfTen[c] = n  BY <1>1, <2>1, TrailingZeros
  <2> QED  BY <1>3, <1>4, <2>2
<1>6. m \in 0..MaxU256
  <2>1. m <= m * q  OBVIOUS
  <2> QED  BY <1>1, <1>5, <2>1
<1>7. m < PowerOfTen[l]
  <2>1. PICK p \in Nat : p = PowerOfTen[l]  BY <1>1, PowerLarge
  <2>2. PowerOfTen[c + l] = PowerOfTen[c] * PowerOfTen[l]  BY <1>1, PowerSum
  <2>3. m * q < p * q
    <3>1. PowerOfTen[Digits] = q * p  BY <1>2, <1>3, <2>1, <2>2
    <3>2. q * p = p * q  OBVIOUS
    <3> QED  BY <1>5, <3>1, <3>2
  <2> QED  BY <2>1, <2>3, Cancel
<1>8. ASSUME NEW i \in 1..l PROVE f[i] = Digit(m, l - i)
  <2>1. l - i \in Nat /\ Digits - i = c + (l - i)  BY <1>1, <1>2
  <2>2. PICK k \in Nat : k = l - i /\ Digits - i = c + k  BY <2>1
  <2>3. PICK p \in Nat \ {0} : p = PowerOfTen[l - i] /\ PowerOfTen[Digits - i] = q * p
    <3>1. c \in Nat /\ k \in Nat  OBVIOUS
    <3>2. PowerOfTen[k] \in Nat \ {0}  BY ONLY <3>1, PowerLarge
    <3>3. PowerOfTen[c + k] = PowerOfTen[c] * PowerOfTen[k]  BY ONLY <3>1, PowerSum
    <3> QED  BY ONLY <1>3, <2>2, <3>2, <3>3
  <2>4. n \div (q * p) = (n \div q) \div p
    <3>1. n \in Nat /\ q \in Nat \ {0} /\ p \in Nat \ {0}  BY <1>1
    <3> QED  BY ONLY <3>1, DivDiv
  <2>5. Digit(n, Digits - i) = Digit(m, l - i)  BY <1>4, <2>3, <2>4 DEF Digit
  <2> QED  BY <2>5
<1>9. DOMAIN f = 1..l  BY LenProperties
<1>10. FromDecStr(f) = m  BY <1>1, <1>6, <1>7, <1>8, <1>9, DigitsRead
<1> QED  BY <1>3, <1>5, <1>6, <1>10

(* The parts of a Decimal.                                                 *)
LEMMA DecimalParts ==
  ASSUME NEW x \in 0..MaxUint
  PROVE  /\ x \in Nat /\ Digits \in Nat
         /\ x \div One \in 0..MaxU256
         /\ x % One \in 0..MaxU256 /\ x % One \in Nat /\ x % One < PowerOfTen[Digits]
         /\ (x \div One) * One + (x % One) = x
<1>1. /\ One \in Nat \ {0} /\ Digits \in Nat /\ One = PowerOfTen[Digits]
      /\ MaxUint \in Nat /\ MaxU256 \in Nat /\ x \in Nat /\ x \in 0..MaxU256
      BY FixedPointAssumption, BigNumberAssumption, Widths
<1>2. PICK q \in Nat, r \in Nat : q = x \div One /\ r = x % One /\ r < One
                                   /\ x = q * One + r
  <2>1. x \div One \in Nat  BY <1>1, DivBounds
  <2>2. x % One \in Nat /\ x % One < One  BY <1>1
  <2>3. x = (x \div One) * One + (x % One)  BY <1>1
  <2> QED  BY <2>1, <2>2, <2>3
<1>3. PICK k \in Nat : k = q * One /\ q <= k  BY <1>1
<1>4. x = k + r  BY <1>2, <1>3
<1>5. q \in 0..MaxU256 /\ r \in 0..MaxU256  BY <1>1, <1>3, <1>4
<1>6. q * One + r = x /\ r < PowerOfTen[Digits]  BY <1>1, <1>2
<1> QED  BY <1>1, <1>2, <1>5, <1>6

(* A whole part and a fraction are parsed as what they stand for.          *)
LEMMA PartsRead ==
  ASSUME NEW x \in 0..MaxUint, NEW l \in 0..Digits, NEW f \in Seq(Nat), Len(f) = l,
         \A i \in 1..l : f[i] = Digit(x % One, Digits - i),
         \A i \in (l + 1)..Digits : Digit(x % One, Digits - i) = 0
  PROVE  DecimalFromStr(<<ToDigits(x \div One), f>>) = x
<1> DEFINE parts == <<ToDigits(x \div One), f>>
           numbers == [i \in DOMAIN parts |-> FromDecStr(parts[i])]
<1>1. PICK w \in 0..MaxU256, n \in 0..MaxU256 :
        w = x \div One /\ n = x % One /\ n < PowerOfTen[Digits] /\ w * One + n = x
      BY DecimalParts
<1>2. x \in Nat /\ Digits \in Nat /\ x \in 0..MaxU256 /\ None \notin 0..MaxU256
      BY DecimalParts, Widths
<1>3. FromDecStr(ToDigits(w)) = w  BY DigitsExact
<1>4. PICK m \in 0..MaxU256 : FromDecStr(f) = m /\ m * FractionalFactor(f) = n
      BY <1>1, <1>2, FractionRead
<1>5. Len(parts) = 2 /\ DOMAIN parts = 1..2 /\ parts[1] = ToDigits(w) /\ parts[2] = f
      BY <1>1
<1> HIDE DEF parts
<1>6. DOMAIN numbers = 1..2 /\ numbers[1] = w /\ numbers[2] = m
      BY <1>3, <1>4, <1>5
<1>7. None \notin Range(numbers)
  <2> HIDE DEF numbers
  <2> QED  BY <1>2, <1>6 DEF Range
<1>8. DecimalFromStr(parts) =
        IF Len(parts) \notin 1..2 \/ None \in Range(numbers) THEN None
        ELSE IF Len(parts) = 1 THEN U256(numbers[1] * One)
        ELSE IF Len(parts[2]) > Digits THEN None
        ELSE U256(numbers[1] * One + numbers[2] * FractionalFactor(parts[2]))
      BY DEF DecimalFromStr
<1> HIDE DEF numbers
<1>9. Len(f) <= Digits /\ ~(Len(f) > Digits)  BY <1>2
<1>10. DecimalFromStr(parts) = U256(w * One + m * FractionalFactor(f))
       BY <1>5, <1>6, <1>7, <1>8, <1>9
<1>11. U256(x) = x  BY <1>2, Widths
<1> QED  BY <1>1, <1>4, <1>10, <1>11 DEF parts

(* The digits f written after the dot are those of x, but for zeros at     *)
(* the end.                                                                *)
Fraction(x, f) ==
  /\ f \in Seq(Nat) /\ Len(f) \in 0..Digits
  /\ \A i \in 1..Len(f) : f[i] = Digit(x % One, Digits - i)
  /\ \A i \in (Len(f) + 1)..Digits : Digit(x % One, Digits - i) = 0

(* A nonempty set of positions has a last one.                             *)
LEMMA LastPosition ==
  ASSUME NEW D \in Nat, NEW S \in SUBSET (1..D), S # {}
  PROVE  Max(S) \in S /\ \A i \in S : i <= Max(S)
<1> DEFINE B == {k \in Nat : D - k \in S}
<1>1. \A i \in S : i \in 1..D /\ D - i \in Nat /\ D - (D - i) = i  OBVIOUS
<1>2. B \in SUBSET Nat /\ B # {}
  <2>1. PICK i \in S : TRUE  OBVIOUS
  <2>2. D - i \in B  BY <1>1, <2>1
  <2> QED  BY <2>2
<1>3. PICK k \in B : \A j \in B : k <= j
  <2> HIDE DEF B
  <2> QED  BY <1>2, LeastNatural
<1>4. k \in Nat /\ D - k \in S  BY <1>3
<1>5. ASSUME NEW i \in S PROVE D - k >= i
  <2>1. D - i \in B /\ i \in 1..D  BY <1>1
  <2>2. k <= D - i
    <3> HIDE DEF B
    <3> QED  BY <1>3, <2>1
  <2> QED  BY <1>4, <2>1, <2>2
<1>6. \E m \in S : \A i \in S : m >= i  BY <1>4, <1>5
<1>7. Max(S) \in S /\ \A i \in S : Max(S) >= i  BY <1>6 DEF Max
<1> QED  BY <1>1, <1>7

(* Display writes the whole part and, unless it is zero, the fraction.     *)
LEMMA StringWritten ==
  ASSUME NEW x \in 0..MaxUint
  PROVE  \E f : /\ Fraction(x, f)
                /\ IF x % One = 0
                   THEN f = <<>> /\ DecimalToString(x) = <<ToDigits(x \div One)>>
                   ELSE DecimalToString(x) = <<ToDigits(x \div One), f>>
<1>1. PICK n \in Nat : n = x % One /\ n < PowerOfTen[Digits] /\ Digits \in Nat
      BY DecimalParts
<1>2. CASE n = 0
  <2>1. DecimalToString(x) = <<ToDigits(x \div One)>>
        BY <1>1, <1>2 DEF DecimalToString
  <2>2. ASSUME NEW i \in 1..Digits PROVE Digit(n, Digits - i) = 0
    <3>1. PICK k \in Nat : k = Digits - i  BY <1>1
    <3>2. PICK p \in Nat \ {0} : p = PowerOfTen[k]  BY PowerLarge
    <3>3. 0 \div p = 0 /\ 0 % 10 = 0  BY DivSmall
    <3> QED  BY <1>2, <3>1, <3>2, <3>3 DEF Digit
  <2>3. <<>> \in Seq(Nat) /\ Len(<<>>) = 0 /\ 0 + 1 = 1 /\ 0 \in 0..Digits /\ 1..0 = {}
        BY <1>1
  <2>4. Fraction(x, <<>>)  BY <1>1, <2>2, <2>3 DEF Fraction
  <2> QED  BY <1>1, <1>2, <2>1, <2>4
<1>3. CASE n # 0
  <2> DEFINE digits == ToDigits(n)
             padded == [i \in 1..(Digits - Len(digits)) |-> 0] \o digits
             S == {i \in 1..Digits : padded[i] # 0}
             f == SubSeq(padded, 1, Max(S))
  <2>1. DecimalToString(x) = <<ToDigits(x \div One), f>>
        BY <1>1, <1>3 DEF DecimalToString
  <2>2. /\ padded \in Seq(Nat) /\ Len(padded) = Digits
        /\ \A i \in 1..Digits : padded[i] = Digit(n, Digits - i)
        BY <1>1, <1>3, Padding
  <2> HIDE DEF padded
  <2>3. S # {}
    <3> SUFFICES ASSUME S = {} PROVE FALSE  OBVIOUS
    <3>1. \A i \in 1..Digits : Digit(n, Digits - i) = 0  BY <2>2
    <3>2. ASSUME NEW k \in Nat, k < Digits PROVE Digit(n, k) = 0
      <4>1. Digits - k \in 1..Digits /\ Digits - (Digits - k) = k  BY <1>1, <3>2
      <4> QED  BY <3>1, <4>1
    <3>3. (n \div PowerOfTen[Digits]) * PowerOfTen[Digits] = n
          BY <1>1, <3>2, TrailingZeros
    <3>4. PICK p \in Nat \ {0} : p = PowerOfTen[Digits]  BY <1>1, PowerLarge
    <3>5. n \div p = 0  BY <1>1, <3>4, DivSmall
    <3>6. 0 * p = 0  OBVIOUS
    <3> QED  BY <1>3, <3>3, <3>4, <3>5, <3>6
  <2>4. PICK l : l = Max(S)  OBVIOUS
  <2>5. l \in S /\ \A i \in S : i <= l
    <3>1. S \in SUBSET (1..Digits)  OBVIOUS
    <3> HIDE DEF S
    <3> QED  BY <1>1, <2>3, <2>4, <3>1, LastPosition
  <2>6. l \in 1..Digits /\ l \in Nat /\ l <= Digits /\ l >= 1  BY <1>1, <2>5
  <2>7. f = SubSeq(padded, 1, l)  BY <2>4
  <2> HIDE DEF S, f
  <2>8. /\ f \in Seq(Nat) /\ Len(f) = l
        /\ \A i \in 1..l : f[i] = padded[i]
    <3>1. PICK s \in Seq(Nat) : s = padded  BY <2>2
    <3>2. Len(s) = Digits  BY <2>2, <3>1
    <3>3. 1 \in 1..(Len(s) + 1) /\ l \in 0..Len(s) /\ 1 <= l + 1 /\ l - 1 + 1 = l
          BY <1>1, <2>6, <3>2
    <3>4. /\ SubSeq(s, 1, l) \in Seq(Nat) /\ Len(SubSeq(s, 1, l)) = l
          /\ \A i \in 1..l : SubSeq(s, 1, l)[i] = s[1 + i - 1]
          BY ONLY <3>3, SubSeqProperties, s \in Seq(Nat)
    <3>5. \A i \in 1..l : 1 + i - 1 = i  OBVIOUS
    <3>6. \A i \in 1..l : SubSeq(s, 1, l)[i] = s[i]  BY ONLY <3>4, <3>5
    <3> QED  BY ONLY <2>7, <3>1, <3>4, <3>6
  <2>9. \A i \in 1..l : f[i] = Digit(n, Digits - i)  BY <1>1, <2>2, <2>6, <2>8
  <2>10. ASSUME NEW i \in (l + 1)..Digits PROVE Digit(n, Digits - i) = 0
    <3>1. i \in 1..Digits /\ ~(i <= l)  BY <1>1, <2>6
    <3>2. i \notin S  BY <2>5, <3>1
    <3>3. padded[i] = 0  BY <3>1, <3>2 DEF S
    <3> QED  BY <2>2, <3>1, <3>3
  <2>11. l \in 0..Digits  BY <1>1, <2>6
  <2>12. Fraction(x, f)  BY <1>1, <2>8, <2>9, <2>10, <2>11 DEF Fraction
  <2> QED  BY <1>1, <1>3, <2>1, <2>12
<1> QED  BY <1>2, <1>3

(* g is f with k zeros appended.                                           *)
Appends(f, k, g) == g = f \o [i \in 1..k |-> 0]

(* Zeros appended within the digits allowed are still such a fraction.     *)
LEMMA ZerosAppended ==
  ASSUME NEW x \in 0..MaxUint, NEW f, Fraction(x, f), NEW k \in Nat,
         NEW g, Appends(f, k, g)
  PROVE  /\ g \in Seq(Nat) /\ Len(g) = Len(f) + k
         /\ Len(f) + k <= Digits => Fraction(x, g)
<1>1. PICK s \in Seq(Nat), l \in Nat : s = f /\ l = Len(s) /\ Digits \in Nat /\ l <= Digits
  <2>1. Digits \in Nat  BY DecimalParts
  <2> QED  BY <2>1 DEF Fraction
<1>2. PICK z \in Seq(Nat) : /\ z = [i \in 1..k |-> 0] /\ Len(z) = k
                            /\ \A i \in 1..k : z[i] = 0
  <2>1. [i \in 1..k |-> 0] \in [1..k -> Nat]  OBVIOUS
  <2>2. [i \in 1..k |-> 0] \in Seq(Nat) /\ Len([i \in 1..k |-> 0]) = k  BY <2>1
  <2> QED  BY <2>2
<1>3. /\ s \o z \in Seq(Nat) /\ Len(s \o z) = Len(s) + Len(z)
      /\ \A i \in 1..(Len(s) + Len(z)) :
           (s \o z)[i] = IF i <= Len(s) THEN s[i] ELSE z[i - Len(s)]
      BY ONLY s \in Seq(Nat), z \in Seq(Nat), ConcatProperties
<1>4. g = s \o z  BY <1>1, <1>2 DEF Appends
<1>5. /\ g \in Seq(Nat) /\ Len(g) = l + k
      /\ \A i \in 1..(l + k) : g[i] = IF i <= l THEN s[i] ELSE z[i - l]
      BY ONLY <1>1, <1>2, <1>3, <1>4
<1>6. ASSUME l + k <= Digits PROVE Fraction(x, g)
  <2>1. /\ \A i \in 1..l : s[i] = Digit(x % One, Digits - i)
        /\ \A i \in (l + 1)..Digits : Digit(x % One, Digits - i) = 0
        BY <1>1 DEF Fraction
  <2>2. ASSUME NEW i \in 1..(l + k) PROVE g[i] = Digit(x % One, Digits - i)
    <3>1. CASE i <= l
      <4>1. i \in 1..l  BY <3>1
      <4> QED  BY <1>5, <2>1, <3>1, <4>1
    <3>2. CASE ~(i <= l)
      <4>1. i - l \in 1..k /\ i \in (l + 1)..Digits  BY <1>1, <1>6, <3>2
      <4> QED  BY <1>2, <1>5, <2>1, <3>2, <4>1
    <3> QED  BY <3>1, <3>2
  <2>3. \A i \in (l + k + 1)..Digits : i \in (l + 1)..Digits  BY <1>1
  <2>4. l + k \in 0..Digits  BY <1>1, <1>6
  <2> QED  BY <1>5, <2>1, <2>2, <2>3, <2>4 DEF Fraction
<1> QED  BY <1>1, <1>5, <1>6

(* A whole part alone is parsed as a whole number.                         *)
LEMMA WholeRead ==
  ASSUME NEW x \in 0..MaxUint, x % One = 0
  PROVE  DecimalFromStr(<<ToDigits(x \div One)>>) = x
<1> DEFINE parts == <<ToDigits(x \div One)>>
           numbers == [i \in DOMAIN parts |-> FromDecStr(parts[i])]
<1>1. PICK w \in 0..MaxU256 : w = x \div One /\ w * One + 0 = x  BY DecimalParts
<1>2. x \in Nat /\ x \in 0..MaxU256 /\ None \notin 0..MaxU256 /\ U256(x) = x
      BY DecimalParts, Widths
<1>3. w * One = x
  <2>1. w \in Nat /\ One \in Nat  BY Widths, FixedPointAssumption
  <2> QED  BY <1>1, <2>1
<1>4. FromDecStr(ToDigits(w)) = w  BY DigitsExact
<1>5. Len(parts) = 1 /\ DOMAIN parts = 1..1 /\ parts[1] = ToDigits(w)  BY <1>1
<1> HIDE DEF parts
<1>6. DOMAIN numbers = {1} /\ numbers[1] = w  BY <1>4, <1>5
<1>7. None \notin Range(numbers)
  <2> HIDE DEF numbers
  <2> QED  BY <1>2, <1>6 DEF Range
<1>8. DecimalFromStr(parts) =
        IF Len(parts) \notin 1..2 \/ None \in Range(numbers) THEN None
        ELSE IF Len(parts) = 1 THEN U256(numbers[1] * One)
        ELSE IF Len(parts[2]) > Digits THEN None
        ELSE U256(numbers[1] * One + numbers[2] * FractionalFactor(parts[2]))
      BY DEF DecimalFromStr
<1> HIDE DEF numbers
<1> QED  BY <1>2, <1>3, <1>5, <1>6, <1>7, <1>8 DEF parts

(* A Decimal printed and parsed is the same Decimal.                       *)
LEMMA DecimalExact ==
  ASSUME NEW x \in 0..MaxUint
  PROVE  DecimalFromStr(DecimalToString(x)) = x
<1>1. PICK f : /\ Fraction(x, f)
               /\ IF x % One = 0
                  THEN f = <<>> /\ DecimalToString(x) = <<ToDigits(x \div One)>>
                  ELSE DecimalToString(x) = <<ToDigits(x \div One), f>>
      BY StringWritten
<1>2. DecimalFromStr(<<ToDigits(x \div One), f>>) = x  BY <1>1, PartsRead DEF Fraction
<1> QED  BY <1>1, <1>2, WholeRead

(* More digits after the dot than allowed are an error, even zeros.        *)
LEMMA TooManyDigits ==
  ASSUME NEW whole, NEW f, Len(f) > Digits
  PROVE  DecimalFromStr(<<whole, f>>) = None
<1>1. PICK parts : parts = <<whole, f>>  OBVIOUS
<1>2. Len(parts) = 2 /\ parts[2] = f  BY <1>1
<1> QED  BY <1>1, <1>2 DEF DecimalFromStr

(* A Decimal256 printed and parsed is the same number, with zeros appended *)
(* to its fraction too until there are more than Digits, for every         *)
(* Decimal.                                                                *)
THEOREM StringsAlwaysExact == Spec => []StringsExact
<1> DEFINE Exact(x, parts, fraction) ==
             /\ DecimalFromStr(parts) = x
             /\ \A k \in 0..(Digits + 1) :
                  DecimalFromStr(<<parts[1], fraction \o [i \in 1..k |-> 0]>>) =
                    IF Len(fraction) + k <= Digits THEN x ELSE None
           Written(x, parts, fraction) ==
             /\ parts = DecimalToString(x)
             /\ fraction = IF Len(parts) = 2 THEN parts[2] ELSE <<>>
<1>1. ASSUME NEW x \in 0..MaxUint, NEW parts, NEW fraction, Written(x, parts, fraction)
      PROVE  Exact(x, parts, fraction)
  <2>1. PICK f : /\ Fraction(x, f)
                 /\ IF x % One = 0
                    THEN f = <<>> /\ parts = <<ToDigits(x \div One)>>
                    ELSE parts = <<ToDigits(x \div One), f>>
        BY <1>1, StringWritten
  <2>2. parts[1] = ToDigits(x \div One) /\ fraction = f
    <3>1. CASE x % One = 0
      <4>1. parts = <<ToDigits(x \div One)>> /\ f = <<>>  BY <2>1, <3>1
      <4>2. Len(parts) = 1  BY <4>1
      <4> QED  BY <1>1, <4>1, <4>2
    <3>2. CASE x % One # 0
      <4>1. parts = <<ToDigits(x \div One), f>>  BY <2>1, <3>2
      <4>2. Len(parts) = 2 /\ parts[2] = f  BY <4>1
      <4> QED  BY <1>1, <4>1, <4>2
    <3> QED  BY <3>1, <3>2
  <2>3. ASSUME NEW k \in 0..(Digits + 1),
               NEW g, g = f \o [i \in 1..k |-> 0]
        PROVE  DecimalFromStr(<<ToDigits(x \div One), g>>) =
                 IF Len(f) + k <= Digits THEN x ELSE None
    <3>0. Appends(f, k, g)  BY <2>3 DEF Appends
    <3>1. k \in Nat /\ Digits \in Nat  BY DecimalParts
    <3>2. /\ g \in Seq(Nat) /\ Len(g) = Len(f) + k
          /\ Len(f) + k <= Digits => Fraction(x, g)
          BY ONLY x \in 0..MaxUint, <2>1, <3>0, <3>1, ZerosAppended
    <3>3. CASE Len(f) + k <= Digits
      <4>1. Fraction(x, g)  BY <3>2, <3>3
      <4>2. DecimalFromStr(<<ToDigits(x \div One), g>>) = x
            BY <4>1, PartsRead DEF Fraction
      <4> QED  BY <3>3, <4>2
    <3>4. CASE ~(Len(f) + k <= Digits)
      <4>1. Len(f) \in Nat  BY <2>1, <3>1 DEF Fraction
      <4>2. Len(g) > Digits  BY <3>1, <3>2, <3>4, <4>1
      <4> QED  BY <3>4, <4>2, TooManyDigits
    <3> QED  BY <3>3, <3>4
  <2>4. DecimalFromStr(parts) = x  BY <1>1, DecimalExact
  <2> QED  BY <2>2, <2>3, <2>4
<1>2. Numbers => StringsExact
  <2> SUFFICES ASSUME Numbers PROVE StringsExact  OBVIOUS
  <2> DEFINE parts == DecimalToString(a)
             fraction == IF Len(parts) = 2 THEN parts[2] ELSE <<>>
  <2>1. a \in 0..MaxUint /\ Written(a, parts, fraction)  BY DEF Numbers
  <2>2. Exact(a, parts, fraction)
    <3> HIDE DEF parts, fraction, Exact, Written
    <3> QED  BY <1>1, <2>1
  <2> QED  BY <2>2, Zenon DEF StringsExact
<1> QED  BY <1>2, NumbersCorrect, PTL

(* Narrowing a Decimal256 through its string gives it back, or fails when  *)
(* it does not fit.                                                        *)
LEMMA NarrowExact ==
  ASSUME NEW x \in Int
  PROVE  Narrow(U256(x)) = Exactly(x)
<1>1. /\ MaxUint \in Nat /\ MaxU256 \in Nat /\ None \notin Nat
      BY Widths, BigNumberAssumption
<1>2. CASE x \notin 0..MaxU256
  <2>1. U256(x) = None  BY <1>2 DEF U256
  <2>2. ~Fits(x)
    <3>1. x \notin 0..MaxUint  BY <1>2, Widths
    <3> QED  BY <1>1, <3>1 DEF Fits
  <2> QED  BY <2>1, <2>2 DEF Narrow, Exactly
<1>3. CASE x \in 0..MaxU256
  <2>1. x \in Nat /\ U256(x) = x /\ x # None  BY <1>1, <1>3, Widths
  <2>2. U128FromUint(x) = Exactly(x)  BY <2>1, NarrowingExact
  <2>3. CASE Fits(x)
    <3>1. x \in 0..MaxUint  BY <1>1, <2>1, <2>3 DEF Fits
    <3>2. DecimalFromStr(DecimalToString(x)) = x  BY <3>1, DecimalExact
    <3>3. UpperHalfZero(x)  BY <2>1, <2>2, <2>3 DEF U128FromUint, Exactly
    <3> QED  BY <2>1, <2>3, <3>2, <3>3 DEF Narrow, Exactly
  <2>4. CASE ~Fits(x)
    <3>1. U128FromUint(x) = None  BY <2>2, <2>4 DEF Exactly
    <3>2. ~UpperHalfZero(x)
      <4> SUFFICES ASSUME UpperHalfZero(x) PROVE FALSE  OBVIOUS
      <4>1. U128FromUint(x) = Limbs(x)[2] * LimbBase + Limbs(x)[1]
            BY <2>1 DEF U128FromUint
      <4>2. Limbs(x)[1] \in Nat /\ Limbs(x)[2] \in Nat
        <5>1. LimbBase \in Nat \ {0}  BY Widths
        <5>2. PICK q \in Nat : q = x \div LimbBase  BY <2>1, <5>1, DivBounds
        <5>3. x % LimbBase \in Nat /\ q % LimbBase \in Nat  BY <2>1, <5>1
        <5> QED  BY <5>2, <5>3 DEF Limbs
      <4>3. Limbs(x)[2] * LimbBase + Limbs(x)[1] \in Nat
        <5>1. PICK p \in Nat, q \in Nat : p = Limbs(x)[1] /\ q = Limbs(x)[2]  BY <4>2
        <5>2. LimbBase \in Nat  BY Widths
        <5>3. q * LimbBase + p \in Nat  BY <5>2
        <5> QED  BY <5>1, <5>3
      <4> QED  BY <1>1, <3>1, <4>1, <4>3
    <3> QED  BY <2>1, <2>4, <3>2 DEF Narrow, Exactly
  <2> QED  BY <2>3, <2>4
<1> QED  BY <1>2, <1>3

(* The helpers of math.rs are exact for every two Decimals: going through  *)
(* strings and 256 bits loses nothing.                                     *)
THEOREM HelpersAlwaysExact == Spec => []HelpersExact
<1>1. ASSUME NEW x \in 0..MaxUint, NEW y \in 0..MaxUint
      PROVE  /\ DecimalMultiplicationIn256(x, y) = Exactly((x * y) \div One)
             /\ DecimalSummationIn256(x, y) = Exactly(x + y)
             /\ DecimalSubtractionIn256(x, y) = Exactly(x - y)
  <2>1. x \in Nat /\ y \in Nat /\ One \in Nat \ {0} /\ MaxU256 \in Nat
        BY Widths, FixedPointAssumption
  <2>2. Widen(x) = x /\ Widen(y) = y  BY DecimalExact DEF Widen
  <2>3. DecimalSummationIn256(x, y) = Exactly(x + y)
    <3>1. y + x = x + y /\ x + y \in Int  BY <2>1
    <3> QED  BY <2>2, <3>1, NarrowExact DEF DecimalSummationIn256, DecimalAdd
  <2>4. DecimalSubtractionIn256(x, y) = Exactly(x - y)
    <3>1. x - y \in Int  BY <2>1
    <3> QED  BY <2>2, <3>1, NarrowExact DEF DecimalSubtractionIn256, DecimalSub
  <2>5. DecimalMultiplicationIn256(x, y) = Exactly((x * y) \div One)
    <3>1. PICK p \in Nat : p = x * y /\ p = y * x  BY <2>1
    <3>2. p \in 0..MaxU256  BY <3>1, Widths
    <3>3. PICK q \in Nat : q = p \div One /\ q * One <= p  BY <2>1, DivBounds
    <3>4. q \in 0..MaxU256
      <4>1. q <= q * One /\ q * One \in Nat  BY <2>1
      <4> QED  BY <2>1, <3>2, <3>3, <4>1
    <3>5. U256(p) # None /\ U256(q) = q  BY <3>2, <3>4, Widths
    <3>6. DecimalMul(y, x) = q  BY <3>1, <3>3, <3>5 DEF DecimalMul
    <3>7. Narrow(q) = Exactly(q)
      <4>1. q \in Int  OBVIOUS
      <4> QED  BY <3>5, <4>1, NarrowExact
    <3> QED  BY <2>2, <3>1, <3>3, <3>6, <3>7 DEF DecimalMultiplicationIn256
  <2> QED  BY <2>3, <2>4, <2>5
<1>2. Numbers => HelpersExact
  <2> SUFFICES ASSUME Numbers PROVE HelpersExact  OBVIOUS
  <2>1. a \in 0..MaxUint /\ b \in 0..MaxUint  BY DEF Numbers
  <2> QED  BY <1>1, <2>1 DEF HelpersExact
<1> QED  BY <1>2, NumbersCorrect, PTL
=============================================================================
