CONSTANTS
  L = 3
  K = 4
  ADD_LAT = 1
  START_DELAY = 2
  READ_DELAY = 2
  Gap = 2
  MaxRounds = 2
SPECIFICATION Spec
INVARIANTS CountsProducts SumsRight
PROPERTY SumsDelivered
