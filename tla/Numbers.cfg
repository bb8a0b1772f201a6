SPECIFICATION Spec
CONSTANTS
  None = None
  One = 100
  Frac = 10
  Digits = 2
  MaxUint = 255
  MaxU256 = 65535
  LimbBase = 16
INVARIANTS DivisionClose StringsExact HelpersExact WideExact RatioRoundTrip
