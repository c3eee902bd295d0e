SPECIFICATION Spec
CONSTANTS
  SchemaOf <- MCSchemaOf
  Scenarios <- DirectiveScenarios
  MemoryIsReused = TRUE
INVARIANT MemoIsTransparent
CHECK_DEADLOCK FALSE
