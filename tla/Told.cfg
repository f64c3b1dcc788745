SPECIFICATION FairSpec
CONSTANTS
  Schedules <- NotFT8
  MaxActs = 0
  MaxLate = 0
PROPERTIES ToldGoesOn
