CONSTANTS
  N = 2
  Modes <- GenerateOrStart
  Policy <- Mixed
  Signals = {"SIGINT"}
  Earlier = {"dead"}
  Deadline = 0
  MaxSignals = 1
SPECIFICATION Spec
INVARIANTS TornDownOnce
