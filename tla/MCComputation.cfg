SPECIFICATION Spec
CONSTANTS
  Values = {v1, v2}
  Reasons = {e1, e2}
  NoReason = NoReason
  Cancelled = Cancelled
  NoOutcome = NoOutcome
INVARIANTS TypeOK HookOnlyForStarted
PROPERTIES DoneSettles ImplementsCell
