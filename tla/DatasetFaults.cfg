\* Containers that outlive their calls, and a process that stops anywhere.
SPECIFICATION Spec
CONSTANTS
  None = None
  Plan <- TwoCases
  BatchSize = 1
  Slots = 1
  Interval = 1
  Wiping = TRUE
  MaxStrays = 1
  MaxRev = 2
  MaxCodes = 1
INVARIANTS CompletedIsListed

