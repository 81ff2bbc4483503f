SPECIFICATION Spec
CONSTANTS
  Value = {v1, v2, v3, v4}
  Name = {a, b, c}
  NULL = NULL
  STARTING_CAPACITY = 2
SYMMETRY Symmetry
CHECK_DEADLOCK FALSE
INVARIANTS
  TypeOK
  Ownership
  SetIsGot
PROPERTIES
  ImplementsDocuments
