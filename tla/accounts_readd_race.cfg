CONSTANTS
  gemini = gemini  grok = grok
  g1 = g1  g2 = g2  x1 = x1  x2 = x2
  Key = {g1}
  NoKey = NoKey
  Provider = {gemini, grok}
  ProviderOf <- MCProviderOf
  Kinds <- MCKinds
  Guarded = {grok}
  Worker = {w1, w2}
  ReloadAllowed = TRUE
  RecoverAtStart = FALSE
  MaxCrashes = 0
SPECIFICATION Spec
INVARIANT UsableHasMaterial
