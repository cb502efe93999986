SPECIFICATION FairSpec
CONSTANTS
  Handlers = {h1, h2}
  MaxTimers = 1
  MaxSockets = 2
  Faults <- MCFaults
CHECK_DEADLOCK FALSE
INVARIANT TypeOK OneCycle CycleIsAnnounced PauseHeld
PROPERTY ExitHappens
