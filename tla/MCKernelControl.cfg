CONSTANTS
  MaxRuns = 3
  Waits = {"idle", "irq"}
  AutoRestart = FALSE
SPECIFICATION Spec
INVARIANTS TypeOK IdleIsIdle InterruptNotLost
PROPERTIES ImplementsCommand
