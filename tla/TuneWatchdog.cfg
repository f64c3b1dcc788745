SPECIFICATION FairSpec
CONSTANTS
  Messages = {"", "73", "CQ"}
  Watchdog = 1
  MaxActs = 1
  MaxIncidents = 1
  MaxBacklog = 2
PROPERTIES TuneWatchdogEndsTune
