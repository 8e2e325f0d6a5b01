SPECIFICATION Spec
CONSTANTS
  L = 3
  PC = 3
  B = 2
  POLY_CC = 4
  Texts <- TextsValue
  Clients <- ClientsValue
  Argvs <- ArgvsValue
  DeviceIds = {"0", "1"}
  Devices = {"0"}
  Packages = {"kernel"}
  Disks <- DisksValue
INVARIANTS
  TypeOK
  ParseRight
  ReadsRight
  InBuffers
  HostReadsRight
  SuccessIsWhole
PROPERTY NothingOverwritten
CHECK_DEADLOCK FALSE
