SPECIFICATION Spec
CONSTANTS
  Freqs = {f1, f2}
  NoFreq = NoFreq
  PollsToStabilize = 2
  Modes = {"none", "rig", "emulate"}
  MaxObjects = 2
  MaxCommand = 3
  MaxBacklog = 1
  MaxResets = 1
  MaxTunes = 1
  MaxFaults = 1
  MaxTurns = 0
  MaxMisreads = 0
SYMMETRY FreqSymmetry
INVARIANTS TypeOK AnswerIsCurrent NoOrphanPtt EventsReachLiveObjects NothingStaleAfterRetry
PROPERTIES ImplementsRigLink
CHECK_DEADLOCK FALSE
