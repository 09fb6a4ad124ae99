\* The HTTP interface: the solution may be replaced while a task waits.
SPECIFICATION Spec
CONSTANTS
  None = None
  Sources = {sGood, sOther}
  GoodSources = {sGood, sOther}
  Contents = {c1, c2}
  SoundPlans = {c1}
  MaxInRev = 3
  MaxSubRev = 2
  MaxWfRev = 4
  MaxFixes = 1
  MaxDownstream = 0
  EditsDuringTasks = TRUE
INVARIANTS ExportSound
PROPERTIES ReleaseKept
