CONSTANTS
  a = a  b = b
  Account = {a, b}
  Nobody = Nobody
  PowerMayFail = FALSE
  MaxBackups = 1
  MaxStamp = 3
  MaxCrashes = 1
SPECIFICATION MCSpec
INVARIANT NeverHalfApplied
