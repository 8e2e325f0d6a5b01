CONSTANTS
  MaxRuns = 2
  Waits = {"done"}
  AutoRestart = FALSE
SPECIFICATION Spec
INVARIANT DoneClearsOnRead
