CONSTANTS
  a = a  b = b
  Account = {a, b}
  Nobody = Nobody
  PowerMayFail = TRUE
  MaxBackups = 2
  MaxStamp = 3
  MaxCrashes = 1
SPECIFICATION MCFairSpec
INVARIANTS HalfAppliedIsJournaled
PROPERTIES ReplacedIsBackedUp SwitchIsAtomic InterruptedIsRecovered
