CONSTANTS
  K = 4
  LAT_ADD = 2
  LAT_SUB0 = 2
  LAT_SUB1 = 1
  LAT_MUL = 2
  Gap = 1
  MaxPolys = 6
SPECIFICATION Spec
INVARIANTS OutputRight KeptWhole
PROPERTY EachDelivered
