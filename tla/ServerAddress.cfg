SPECIFICATION Spec
CONSTANTS
  Conn = {c1}
  Side = {"local", "remote", "again"}
  PASS_LENGTH = 11
  SOCKS_BUF = 11
  password <- MCPassword
  Stream <- Ahead
  Await <- AheadAwait
  MaxFds = 2
CHECK_DEADLOCK FALSE
INVARIANTS
  DialsWhatIsAsked
