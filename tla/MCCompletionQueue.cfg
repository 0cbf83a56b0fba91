CONSTANTS
  Setups <- PairsAndShared
  NrIoWorkers = 2
SPECIFICATION CqSpec
CHECK_DEADLOCK FALSE
INVARIANTS CompletionsExact InFlightUpToRounds
PROPERTIES EveryCommandIsSeen
