\* The HTTP interface, under fairness: the solution may be replaced while a task waits.
SPECIFICATION FairSpec
CONSTANTS
  None = None
  Sources = {sGood, sOther}
  GoodSources = {sGood}
  Contents = {c1, c2}
  SoundPlans = {c1}
  MaxInRev = 3
  MaxSubRev = 2
  MaxWfRev = 3
  MaxFixes = 2
  MaxDownstream = 3
  EditsDuringTasks = TRUE
INVARIANTS ExportSound
PROPERTIES LockReleased
