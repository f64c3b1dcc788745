SPECIFICATION Spec
CONSTANTS
  a = a
  b = b
  c = c
  Stations = {a, b, c}
  Everyone = Everyone
  NoCall = NoCall
  Settings <- UsualSettings
  TxFirst = {0}
  Patience = 4
  MaxActs <- ThreeForOne
SYMMETRY Callers
PROPERTIES SigningOffLogs
