SPECIFICATION CopySpec
CONSTANTS
  PASS_LENGTH = 3
  BUFFER_SIZE = 2
  table <- MCTable
  Inputs <- MCInputs
  Outputs <- MCOutputs
CHECK_DEADLOCK FALSE
INVARIANTS
  CopiesAll
