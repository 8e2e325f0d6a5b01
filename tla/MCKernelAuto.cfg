CONSTANTS
  MaxRuns = 1
  Waits = {"idle", "irq", "done"}
  AutoRestart = TRUE
SPECIFICATION Spec
PROPERTY AutoRestarts
