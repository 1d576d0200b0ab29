CONSTANTS
  gemini = gemini  grok = grok
  g1 = g1  g2 = g2  x1 = x1  x2 = x2
  Key = {g1, x1}
  NoKey = NoKey
  Provider = {gemini, grok}
  ProviderOf <- MCProviderOf
  Kinds <- MCApiKeyOnly
  Guarded = {grok}
  Worker = {w1}
  ReloadAllowed = TRUE
  RecoverAtStart = FALSE
  MaxCrashes = 1
SPECIFICATION PersistentSpec
PROPERTIES InterfaceIsReleased DeletionFinishes
