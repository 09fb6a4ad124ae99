\* Agent 3, whose fixes may undo each other.
SPECIFICATION Spec
CONSTANTS
  None = None
  a = a
  b = b
  c = c
  Codes <- Contents
  FixOf <- UndoingFixes
  Stage = 4
  MaxRounds = 3
  MaxRepairs = 5
INVARIANTS EvidenceIsCurrent
PROPERTIES ExhaustedWhenSpent
