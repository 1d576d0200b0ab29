CONSTANTS
  Page = {p1, p2}
  Rules = {r1, r2, r3}
  Startable = {r1, r2}
  Unreadable = Unreadable
  Server = {s1, s2}
  NoServer = NoServer
  NoRules = NoRules  NoPage = NoPage
SPECIFICATION FairSpec
INVARIANTS CanBeStopped PageTellsTruth
PROPERTIES RulesInForce PortIsFreed CommandEnds SwitchesOnAndOff
