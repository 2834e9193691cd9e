SPECIFICATION SettingsSpec
CONSTANTS
  Brokers = {b1, b2}
  ManagedRealms = {r1, r2}
  Writers = {b1, b2}
  Crashable = {}
  ColdStart = TRUE
  SlowReads = FALSE
  MaxCommands = 2
  MaxStops = 1
  NoDocument = NoDocument
CHECK_DEADLOCK FALSE
INVARIANT SettingsAgree
