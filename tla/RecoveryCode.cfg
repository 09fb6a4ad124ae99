\* Agent 4 with the bounds of the code, resumed by failures of stages 6 and 7.
SPECIFICATION Spec
CONSTANTS
  None = None
  a = a
  b = b
  c = c
  Codes <- Contents
  FixOf <- UndoingFixes
  Stage = 5
  MaxRounds = 3
  MaxRepairs = 5
INVARIANTS RepairsBounded BooksAgree PassedIsVerified ExhaustedClears
PROPERTIES Terminates PromiseKept
