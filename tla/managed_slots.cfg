CONSTANTS
  Account = {a1, a2}
  Worker = {w1}
  Login = {l1}
  Credential = {p, q}
  None = None  Torn = Torn
  NoAccount = NoAccount  NoLogin = NoLogin  NoCredential = NoCredential
  MaxCrashes = 1
SYMMETRY Interchangeable
SPECIFICATION Spec
INVARIANTS KeepsStored PairOfOneSignIn LiveIsWhole
PROPERTIES SwitchedStays RefusedChangesNothing ReplacedIsBackedUp
