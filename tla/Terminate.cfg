CONSTANTS
  N = 2
  Modes <- GenerateOrStart
  Policy <- Mixed
  Signals = {"SIGINT", "SIGSEGV"}
  Earlier = {"dead", "running"}
  Deadline = 0
  MaxSignals = 2
SPECIFICATION FairSpec
INVARIANTS TypeOK LeftToStop OnlyLateSignalsFault
PROPERTIES SignalEnds
