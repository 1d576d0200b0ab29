CONSTANTS
  gemini = gemini  grok = grok
  g1 = g1  g2 = g2  x1 = x1  x2 = x2
  Key = {g1, g2}
  NoKey = NoKey
  Provider = {gemini, grok}
  ProviderOf <- MCProviderOf
  Kinds <- MCKinds
  Guarded = {grok}
  Worker = {w1}
  ReloadAllowed = FALSE
  RecoverAtStart = TRUE
  MaxCrashes = 2
SPECIFICATION Spec
INVARIANTS UsableHasMaterial NoOrphanSecret
PROPERTIES KeepsPromise
