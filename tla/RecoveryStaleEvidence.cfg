\* Evidence of a failed stage 6 or 7 outlives the candidate it was observed on.
SPECIFICATION Spec
CONSTANTS
  None = None
  a = a
  b = b
  c = c
  Codes <- Contents
  FixOf <- UndoingFixes
  Stage = 5
  MaxRounds = 3
  MaxRepairs = 5
INVARIANTS EvidenceIsCurrent
