\* Two subtasks of three cases, two verifications, calls that outlive the first.
SPECIFICATION FairSpec
CONSTANTS
  None = None
  Raised = Raised
  Plan <- TwoSubtasks
  Trials = 1
  BatchSize = 1
  Slots = 2
  Inputs <- ShortInputs
  Candidates <- Faulty
  Verifications = 2
INVARIANTS AcceptSound BlameFits RefusedForCause OwnInputs
PROPERTIES VerificationEnds
