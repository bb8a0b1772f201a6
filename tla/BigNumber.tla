------------------------------ MODULE BigNumber ------------------------------
(***************************************************************************)
(* The bignumber package, Decimal256 and Uint256 over U256, and the hub's  *)
(* three helpers that compute with Decimals through them.  A Decimal256 is *)
(* its number of atomics.  Every U256 operation that overflows panics, as  *)
(* do the assertions; a panic or an error is the result None.  A string is *)
(* the sequence of its parts between dots, a part the sequence of its      *)
(* digits.                                                                 *)
(***************************************************************************)
EXTENDS FixedPoint, Sequences, FiniteSetsExt, Functions

CONSTANTS
  Digits,   \* fractional digits: 18 in the code, One = 10^Digits
  MaxU256,  \* U256::MAX
  LimbBase, \* a U256 is four limbs: 2^64 in the code
  None      \* a panic or an error

(* U256::pow, of ten.                                                      *)
PowerOfTen[k \in Nat] == IF k = 0 THEN 1 ELSE 10 * PowerOfTen[k - 1]

ASSUME BigNumberAssumption ==
  /\ Digits \in Nat
  /\ One = PowerOfTen[Digits]
  /\ One <= MaxUint    \* Decimal::one() is a Uint128
  /\ LimbBase \in Nat
  /\ MaxUint = LimbBase * LimbBase - 1
  /\ MaxU256 = (LimbBase * LimbBase) * (LimbBase * LimbBase) - 1
  /\ None \notin Nat

(* U256([low, .., high]), the lowest limb first.                           *)
Limbs(x) ==
  <<x % LimbBase,
    (x \div LimbBase) % LimbBase,
    (x \div (LimbBase * LimbBase)) % LimbBase,
    (x \div (LimbBase * LimbBase * LimbBase)) % LimbBase>>

-----------------------------------------------------------------------------
(* Faulty variants of the definitions below, which the properties must     *)
(* tell from the real ones.                                                *)
FractionUnscaled(f) == 1
LowestOnly(x) == Limbs(x)[4] = 0
RoundedUp(u, nom, denom) == (u * nom + denom - 1) \div denom
-----------------------------------------------------------------------------
(* U256 *)

(* The result of a U256 operation.                                         *)
U256(x) == IF x \in 0..MaxU256 THEN x ELSE None

(* The assertions of the conversions to 128 bits.                          *)
UpperHalfZero(x) == Limbs(x)[3] = 0 /\ Limbs(x)[4] = 0

(* U256::from_dec_str; a part without digits is zero.                      *)
FromDecStr(digits) ==
  U256(SumOf([i \in DOMAIN digits |-> digits[i] * PowerOfTen[Len(digits) - i]]))

(* U256::to_string: no leading zeros.                                      *)
ToDigits(n) ==
  LET width == CHOOSE k \in 1..(n + 1) :
                 n < PowerOfTen[k] /\ (k = 1 \/ n >= PowerOfTen[k - 1])
  IN [i \in 1..width |-> (n \div PowerOfTen[width - i]) % 10]

-----------------------------------------------------------------------------
(* Decimal256 *)

FractionalFactor(f) == PowerOfTen[Digits - Len(f)]

(* Decimal256::from_str: at most one dot, at most Digits digits after it.  *)
DecimalFromStr(parts) ==
  LET numbers == [i \in DOMAIN parts |-> FromDecStr(parts[i])] IN
  IF Len(parts) \notin 1..2 \/ None \in Range(numbers) THEN None
  ELSE IF Len(parts) = 1 THEN U256(numbers[1] * One)
  ELSE IF Len(parts[2]) > Digits THEN None
  ELSE U256(numbers[1] * One + numbers[2] * FractionalFactor(parts[2]))

(* Decimal256's Display: the fraction padded to Digits digits and without  *)
(* its trailing zeros.                                                     *)
DecimalToString(d) ==
  LET whole == d \div One
      fractional == d % One
      digits == ToDigits(fractional)
      padded == [i \in 1..(Digits - Len(digits)) |-> 0] \o digits
      last == Max({i \in 1..Digits : padded[i] # 0})
  IN IF fractional = 0 THEN <<ToDigits(whole)>>
     ELSE <<ToDigits(whole), SubSeq(padded, 1, last)>>

DecimalFromRatio(n, d) ==
  IF d = 0 \/ U256(n * One) = None THEN None ELSE (n * One) \div d

DecimalAdd(a, b) == U256(a + b)
DecimalSub(a, b) == U256(a - b)

(* The product is divided after it is computed.                            *)
DecimalMul(a, b) == IF U256(a * b) = None THEN None ELSE (a * b) \div One

DecimalDiv(a, b) == DecimalFromRatio(a, b)

-----------------------------------------------------------------------------
(* Uint256 *)

SplitU128(a) == <<a \div LimbBase, a % LimbBase>>

UintFromU128(a) == SplitU128(a)[2] + SplitU128(a)[1] * LimbBase

U128FromUint(x) ==
  IF x = None \/ ~UpperHalfZero(x) THEN None
  ELSE Limbs(x)[2] * LimbBase + Limbs(x)[1]

UintAdd(a, b) == U256(a + b)
UintSub(a, b) == U256(a - b)
UintTimes(a, b) == U256(a * b)

Quotient(u, nom, denom) == (u * nom) \div denom

MultiplyRatio(u, nom, denom) ==
  IF denom = 0 \/ U256(u * nom) = None THEN None ELSE Quotient(u, nom, denom)

(* Uint256 * Decimal256 and Uint256 / Decimal256 *)
UintMul(u, d) == MultiplyRatio(u, d, One)
UintDiv(u, d) == MultiplyRatio(u, One, d)

-----------------------------------------------------------------------------
(* The hub's helpers *)

(* Decimal to Decimal256 and back, through strings.                        *)
Widen(a) == DecimalFromStr(DecimalToString(a))
Narrow(x) ==
  IF x = None \/ ~UpperHalfZero(x) THEN None
  ELSE LET d == DecimalFromStr(DecimalToString(x)) IN IF Fits(d) THEN d ELSE None

DecimalMultiplicationIn256(a, b) == Narrow(DecimalMul(Widen(b), Widen(a)))
DecimalSummationIn256(a, b) == Narrow(DecimalAdd(Widen(b), Widen(a)))
DecimalSubtractionIn256(a, b) == Narrow(DecimalSub(Widen(a), Widen(b)))
=============================================================================
