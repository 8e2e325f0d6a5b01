SPECIFICATION Spec
CONSTANTS
  L = 5
  FIFO_M = 2
  Builds = {TRUE, FALSE}
  MaxStarts = 1
INVARIANTS
  TypeOK
  ModuliAligned
  PortsAligned
  RoundStartsClean
  RequestsHeard
  PulsesHeard
  OperandsMatch
PROPERTIES
  ReadUndisturbed
  ModulusHeld
  ImplementsService
  RunFinishes
CHECK_DEADLOCK FALSE
