\* Stages 6 to 8 with edits at any time, lost sandboxes and restarts.
SPECIFICATION FairSpec
CONSTANTS
  None = None
  Plan <- TwoSubtasks
  BatchSize = 1
  Slots = 2
  Interval = 1
  Wiping = FALSE
  MaxStrays = 0
  MaxRev = 3
  MaxCodes = 2
INVARIANTS TypeOK CompletedIsWhole PackSound
PROPERTIES TasksEnd

