SPECIFICATION Spec
CONSTANTS
  Conn = {c1}
  Side = {"local", "remote", "again"}
  PASS_LENGTH = 11
  SOCKS_BUF = 11
  password <- MCPassword
  Stream <- Twice
  Await <- TwiceAwait
  MaxFds = 3
CHECK_DEADLOCK FALSE
PROPERTY OneExchange
