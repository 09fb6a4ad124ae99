SPECIFICATION Spec
CONSTANTS
  None = None
  Raised = Raised
  Plan <- OneCase
  Trials = 1
  BatchSize = 2
  Slots = 1
  Inputs <- LongInputs
  Candidates <- Faultless
  Verifications = 1
INVARIANT SameInputsOnly
