SPECIFICATION Spec
CONSTANTS
  SchemaOf <- MCSchemaOf
  Scenarios <- DirectiveScenarios
  MemoryIsReused = FALSE
INVARIANT ImmediateFieldsAreImmediate
CHECK_DEADLOCK FALSE
