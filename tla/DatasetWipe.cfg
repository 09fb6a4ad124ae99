\* The process stops while the artifacts of an edited code draft are removed.
SPECIFICATION Spec
CONSTANTS
  None = None
  Plan <- TwoSubtasks
  BatchSize = 1
  Slots = 2
  Interval = 1
  Wiping = TRUE
  MaxStrays = 0
  MaxRev = 2
  MaxCodes = 2
INVARIANTS ExportChecked

