\* An edit during the agent call of a stage.
SPECIFICATION Spec
CONSTANTS
  None = None
  Sources = {sGood, sOther}
  GoodSources = {sGood, sOther}
  Contents = {c1, c2}
  SoundPlans = {c1}
  MaxInRev = 2
  MaxSubRev = 2
  MaxWfRev = 2
  MaxFixes = 1
  MaxDownstream = 2
  EditsDuringTasks = TRUE
INVARIANTS EditResetsStages
