SPECIFICATION Spec
CONSTANTS
  SchemaOf <- MCSchemaOf
  Scenarios <- MCScenarios
  MemoryIsReused = FALSE
INVARIANTS RequestTypeOK OverlapIsPairwise CoercionMatchesValidation MergedFieldsAgree ArgumentsCoerce UsagesAreGrouped DeferChangesNothing CyclesAreFound UpgradeKeepsRequests
PROPERTY ImplementsDeferral
CHECK_DEADLOCK FALSE
