SPECIFICATION TalkingSpec
CONSTANTS
  Conn = {c1}
  Side = {"local", "remote", "again"}
  PASS_LENGTH = 11
  SOCKS_BUF = 11
  password <- MCPassword
  Stream <- Waiting
  Await <- AwaitAnswers
  MaxFds = 3
CHECK_DEADLOCK FALSE
PROPERTY ExchangeIsServed
