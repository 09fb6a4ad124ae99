\* A stop in any method but the two edits of a user.
SPECIFICATION Spec
CONSTANTS
  None = None
  Sources = {s1, s2}
  GoodSources = {s1}
  Contents = {a, b, o}
  Outlines = {o}
  SoundPlans = {a, b}
  MaxInRev = 2
  MaxSubRev = 2
  MaxWfRev = 2
  MaxFixes = 0
  MaxDownstream = 0
  EditsDuringTasks = FALSE
  Tests = {1, 2}
  Crashing <- Tasks
  MaxCrashes = 1
INVARIANTS CurrentWhole PackSound ConfirmedKept AgreesWithWorkflow
PROPERTY ReleaseTraced
SYMMETRY ContentSymmetry
