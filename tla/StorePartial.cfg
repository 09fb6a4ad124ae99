\* A stop while a draft is saved: what may be exported then.
SPECIFICATION Spec
CONSTANTS
  None = None
  Sources = {s1, s2}
  GoodSources = {s1}
  Contents = {a, b, o}
  Outlines = {o}
  SoundPlans = {a, b}
  MaxInRev = 2
  MaxSubRev = 2
  MaxWfRev = 2
  MaxFixes = 0
  MaxDownstream = 0
  EditsDuringTasks = FALSE
  Tests = {1, 2}
  Crashing = {"draft"}
  MaxCrashes = 1
INVARIANT PackWhole
