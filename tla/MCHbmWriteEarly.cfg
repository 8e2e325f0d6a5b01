CONSTANTS
  Chan = {c1, c2}
  c1 = c1
  c2 = c2
  K = 4
  Lens = {2}
  DEPTH = 4
  DoneLat = 2
  EarlyData = TRUE
  MaxWrites = 1
SPECIFICATION Spec
PROPERTY SentInWrData
