\* Stage 7 is started on a batch whose generation never ended.
SPECIFICATION Spec
CONSTANTS
  None = None
  Plan <- TwoSubtasks
  BatchSize = 1
  Slots = 2
  Interval = 1
  Wiping = FALSE
  MaxStrays = 0
  MaxRev = 1
  MaxCodes = 1

PROPERTIES ValidatesGenerated
