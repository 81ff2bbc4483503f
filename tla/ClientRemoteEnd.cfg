SPECIFICATION FairSpec
CONSTANTS
  Conn = {c1}
  Side = {"local", "remote"}
  PASS_LENGTH = 3
  password <- MCPassword
  Stream <- OneOut
  MaxFds = 2
CHECK_DEADLOCK FALSE
PROPERTIES
  RemoteEndReleases
