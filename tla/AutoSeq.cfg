SPECIFICATION FairSpec
CONSTANTS
  a = a
  b = b
  c = c
  Stations = {a, b}
  Everyone = Everyone
  NoCall = NoCall
  Settings <- MixedSettings
  TxFirst = {0, 1}
  Patience = 3
  MaxActs <- TwoAndOne
INVARIANTS TypeOK
PROPERTIES ImplementsQso NoConsecutiveQsos NoEndlessQso PartnerLogs
