SPECIFICATION Spec
CONSTANTS
  PASS_LENGTH = 3
  Tables <- AllTables
  Messages <- UpToTwoBytes
CHECK_DEADLOCK FALSE
INVARIANTS
  LoopsComputeOperators
  SurvivesIfLast
  RoundTrip
