\* A call fails while others of the same task, or its own container, go on.
SPECIFICATION Spec
CONSTANTS
  None = None
  Plan <- TwoSubtasks
  BatchSize = 1
  Slots = 2
  Interval = 1
  Wiping = FALSE
  MaxStrays = 1
  MaxRev = 1
  MaxCodes = 1
INVARIANTS PackSound

