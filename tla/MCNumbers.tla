------------------------------ MODULE MCNumbers ------------------------------
(* The arithmetic over all pairs of Decimals of a Uint128 cut to eight     *)
(* bits, each compared with exact arithmetic on the integers.              *)
EXTENDS BigNumber

VARIABLES a, b

Init == a \in 0..MaxUint /\ b \in 0..MaxUint

Next == UNCHANGED <<a, b>>

Spec == Init /\ [][Next]_<<a, b>>

(* decimal_division never returns more than the payment divided by the     *)
(* truncated rate, nor less than the exact quotient rounded down: the      *)
(* roundings of its three steps do not add up.                             *)
DivisionClose ==
  MulDec(Frac, b) > 0 =>
    LET result == DecimalDivision(a, b) IN
    /\ result * MulDec(Frac, b) <= a * Frac
    /\ (a * One) \div b <= result

(* A Decimal256 printed and parsed is the same number, also with zeros     *)
(* appended to its fraction, unless these are more than the digits allowed:*)
(* "More than 18 fractional digits, even zeros, result in an error".       *)
StringsExact ==
  LET parts == DecimalToString(a)
      fraction == IF Len(parts) = 2 THEN parts[2] ELSE <<>>
  IN /\ DecimalFromStr(parts) = a
     /\ \A k \in 0..(Digits + 1) :
          DecimalFromStr(<<parts[1], fraction \o [i \in 1..k |-> 0]>>) =
            IF Len(fraction) + k <= Digits THEN a ELSE None

Exactly(x) == IF Fits(x) THEN x ELSE None

(* The helpers of math.rs, which go through strings and 256 bits, give the *)
(* exact product rounded down, sum and difference of two Decimals whenever *)
(* the result is a Decimal, and fail otherwise: no intermediate result is  *)
(* lost or too wide.                                                       *)
HelpersExact ==
  /\ DecimalMultiplicationIn256(a, b) = Exactly((a * b) \div One)
  /\ DecimalSummationIn256(a, b) = Exactly(a + b)
  /\ DecimalSubtractionIn256(a, b) = Exactly(a - b)

(* The same of Uint128 amounts widened limb by limb, computed with and     *)
(* narrowed again.                                                         *)
WideExact ==
  LET wide == UintFromU128(a)
      other == UintFromU128(b)
  IN /\ U128FromUint(UintAdd(wide, other)) = Exactly(a + b)
     /\ U128FromUint(UintSub(wide, other)) = Exactly(a - b)
     /\ U128FromUint(UintTimes(wide, other)) = Exactly(a * b)
     /\ U128FromUint(UintMul(wide, b)) = Exactly((a * b) \div One)

(* An amount converted at a rate and back at the same rate never grows,   *)
(* and what it loses to the two roundings is bounded, in both orders.      *)
RatioRoundTrip ==
  b > 0 => LET back == UintDiv(UintMul(a, b), b)
               forth == DecimalMul(DecimalDiv(a, b), b)
           IN /\ back <= a /\ forth <= a
              /\ (a - back) * b < One + b
              /\ (a - forth) * One < One + b
=============================================================================
