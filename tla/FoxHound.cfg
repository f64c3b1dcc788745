SPECIFICATION Spec
CONSTANTS
  NHounds = 2
  BlankLines = {0}
  Slots = 1
  SuperSlots = 2
  SuperSlotsMsg = 1
  SuperReportsMsg = 1
  QueueLimit = 2
  MaxStrikes = 2
  MaxFoxWait = 1
  MaxTx = 4
  MaxInterventions = 1
INVARIANTS TypeOK InOnePlace FitsSlots UnansweredIsCalled
PROPERTIES LogsOnlyWorked
