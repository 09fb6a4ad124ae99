\* A resumed round starts with the repairs of the rounds before it.
SPECIFICATION Spec
CONSTANTS
  None = None
  a = a
  b = b
  c = c
  Codes <- Contents
  FixOf <- UndoingFixes
  Stage = 5
  MaxRounds = 3
  MaxRepairs = 5
PROPERTIES ExhaustedWhenSpent
