----------------------------- MODULE FixedPoint -----------------------------
(***************************************************************************)
(* The arithmetic the hub is written in: Uint128 amounts and cosmwasm_std's*)
(* fixed-point Decimal.  A Decimal is represented by its number of atomics,*)
(* so 1.0 is One; in the code One = 10^18 and Frac = 10^9.  Every rounding *)
(* of the code is a floor and is kept.                                     *)
(***************************************************************************)
EXTENDS Integers, FiniteSetsExt

CONSTANTS
  One,      \* atomics of Decimal::one(): 10^18 in the code
  Frac,     \* DECIMAL_FRACTIONAL of math.rs: 10^9 in the code
  MaxUint   \* Uint128::MAX: a sum that exceeds it aborts the transaction

ASSUME FixedPointAssumption ==
  /\ One \in Nat \ {0}
  /\ Frac \in Nat \ {0}
  /\ MaxUint \in Nat
  /\ One = (One \div Frac) * Frac   \* 10^18 is a multiple of 10^9

Fits(x) == x \in 0..MaxUint

Lesser(a, b) == IF a <= b THEN a ELSE b

(* The sum of a function's values.                                         *)
SumOf(f) == MapThenSumSet(LAMBDA x : f[x], DOMAIN f)

-----------------------------------------------------------------------------
(* A faulty variant of a definition below, which the properties must tell  *)
(* from the real one.                                                      *)
DivisionUnscaled(a, b) == (Frac * ((a * One) \div b)) \div One
-----------------------------------------------------------------------------

(* Uint128 * Decimal *)
MulDec(u, d) == (u * d) \div One

(* Decimal::from_ratio; callers guard against a zero denominator, on which *)
(* the code panics.                                                        *)
FromRatio(n, d) == (n * One) \div d

(* decimal_division(a, b): the divisor is first cut to Frac fractions, so  *)
(* the code panics when b has none.                                        *)
DecimalDivision(a, b) == MulDec(Frac, FromRatio(a, MulDec(Frac, b)))

(* SignedInt::from_subtraction: magnitude and sign of a difference.        *)
FromSubtraction(minuend, subtrahend) ==
  [value |-> IF minuend >= subtrahend THEN minuend - subtrahend
                                      ELSE subtrahend - minuend,
   negative |-> minuend < subtrahend]

(* State::update_exchange_rate: the rate it stores for a recorded stake and*)
(* an actual supply (tokens issued plus tokens burnt in the open batch).   *)
UpdatedRate(bond, issued) ==
  IF bond = 0 \/ issued = 0 THEN One ELSE FromRatio(bond, issued)
=============================================================================
