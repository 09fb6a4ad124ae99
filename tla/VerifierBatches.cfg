\* Two subtasks, chunks of two jobs, two slots; one verification, any candidate
\* with at most two faults.
SPECIFICATION Spec
CONSTANTS
  None = None
  Raised = Raised
  Plan <- TwoSubtasks
  Trials = 1
  BatchSize = 2
  Slots = 2
  Inputs <- ShortInputs
  Candidates <- Faulty
  Verifications = 1
INVARIANTS TypeOK AcceptSound BlameFits RefusedForCause
