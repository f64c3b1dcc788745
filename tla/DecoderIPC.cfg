SPECIFICATION FairSpec
CONSTANTS
  Schedules <- EveryMode
  MaxActs = 3
  MaxLate = 3
INVARIANTS TypeOK BusyIsTrue SamplesStay
PROPERTIES DecodeEnds RequestTaken
