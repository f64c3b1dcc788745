SPECIFICATION FairSpec
CONSTANTS
  Messages = {"", "73", "CQ"}
  Watchdog = 1
  MaxActs = 2
  MaxIncidents = 0
  MaxBacklog = 2
PROPERTIES AudioOnlyInTransmission
