CONSTANTS
  Chan = {c1, c2}
  c1 = c1
  c2 = c2
  K = 8
  Lens = {2, 8}
  PREFILL = 8
  DEPTH = 8
  DoneLat = 2
  MaxReads = 2
SPECIFICATION Spec
INVARIANTS TypeOK StreamRight StreamExact
PROPERTIES AddressHeld ImplementsReadPort
