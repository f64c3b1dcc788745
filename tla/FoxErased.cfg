SPECIFICATION Spec
CONSTANTS
  NHounds = 1
  BlankLines = {}
  Slots = 1
  SuperSlots = 2
  SuperSlotsMsg = 1
  SuperReportsMsg = 2
  QueueLimit = 2
  MaxStrikes = 2
  MaxFoxWait = 2
  MaxTx = 4
  MaxInterventions = 1
PROPERTIES RR73AfterReport
