SPECIFICATION Spec
CONSTANTS
  Handlers = {h1, h2}
  MaxTimers = 2
  MaxSockets = 2
  Faults = {{}}
PROPERTY ExitsBetweenCycles
