\* The shipped page: no edit of the solution while a task runs.
SPECIFICATION Spec
CONSTANTS
  None = None
  Sources = {sGood, sBad}
  GoodSources = {sGood}
  Contents = {c1, c2, c3}
  SoundPlans = {c1, c2}
  MaxInRev = 2
  MaxSubRev = 3
  MaxWfRev = 4
  MaxFixes = 1
  MaxDownstream = 1
  EditsDuringTasks = FALSE
SYMMETRY ContentSymmetry
INVARIANTS TypeOK StageOrder CompiledIsCurrent ConfirmedIsCurrent ReleaseFits ExportSound
PROPERTIES ReleaseKept RevisionsGrow
