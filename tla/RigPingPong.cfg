SPECIFICATION Spec
CONSTANTS
  Freqs = {f1, f2}
  NoFreq = NoFreq
  PollsToStabilize = 2
  Modes = {"none"}
  MaxObjects = 2
  MaxCommand = 3
  MaxBacklog = 2
  MaxResets = 0
  MaxTunes = 0
  MaxFaults = 0
  MaxTurns = 0
  MaxMisreads = 0
INVARIANT NoPingPong
CHECK_DEADLOCK FALSE
