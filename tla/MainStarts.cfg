SPECIFICATION Spec
CONSTANTS
  Files <- MCFiles
  PORTS = 4
  INT_MAX = 7
  Numeric <- MCNumeric
  INADDR_NONE = 7
  Passwords = {"good"}
  LonePasswords = {"lone"}
  MAX_NESTING = 1
  Parsed <- json_parse_string
  Validates <- json_validate
CHECK_DEADLOCK FALSE
INVARIANTS
  ClientTypeOK
  ParsesAllAndOnlyValues
  StartsAsConfigured
  ExitReleases
  WrittenIsReadBack
  OnlyTheseFailuresCrash
  ServerPasswordDecodes
PROPERTIES
  ChecksConfig
