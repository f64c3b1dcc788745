SPECIFICATION FairSpec
CONSTANTS
  Messages = {"", "73", "CQ"}
  Watchdog = 2
  MaxActs = 2
  MaxIncidents = 1
  MaxBacklog = 2
INVARIANTS TypeOK StopIsArmed NoStuckPtt TuneExcludesAuto CarrierOnlyInTune
PROPERTIES WatchdogStops TransmissionEnds TuneEnds FallsSilent
