SPECIFICATION FairSpec
CONSTANTS
  Freqs = {f1, f2}
  NoFreq = NoFreq
  PollsToStabilize = 2
  Modes = {"none", "rig", "emulate"}
  MaxObjects = 2
  MaxCommand = 2
  MaxBacklog = 2
  MaxResets = 0
  MaxTunes = 0
  MaxFaults = 1
  MaxTurns = 1
  MaxMisreads = 1
INVARIANTS HoldOffHidesMisreads
PROPERTIES CommandAnswered DialFollowed ClosedIsUnkeyed
CHECK_DEADLOCK FALSE
