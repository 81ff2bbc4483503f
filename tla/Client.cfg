SPECIFICATION FairSpec
CONSTANTS
  Conn = {c1}
  Side = {"local", "remote"}
  PASS_LENGTH = 3
  password <- MCPassword
  Stream <- TwoEach
  MaxFds = 2
CHECK_DEADLOCK FALSE
INVARIANTS
  TypeOK
  Lifecycle
  NoUseAfterFree
  ReadOwedIffInput
  NoStalledOutput
  StreamIntegrity
  NothingLostWhileUp
PROPERTIES
  SetUpClientIsFreed
  ImplementsRelay
  LocalEndReleases
  Delivery
