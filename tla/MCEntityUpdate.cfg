CONSTANTS
  Callers = {c1, c2}
  Attributes = {phase, nodes}
  Values = {v0, v1}
  Keep = Keep
  Gone = Gone
  MaxAttempts = 2
  MaxCalls = 4
SYMMETRY Symmetry
SPECIFICATION Spec
INVARIANTS TypeOK FreshCopy ExhaustedByOthers
PROPERTIES AtomicUpdates
CHECK_DEADLOCK FALSE
