\* A stop while the solution is replaced.  The model may come to its bound on workflow
\* revisions and have no step left: deadlock is not checked.
SPECIFICATION Spec
CONSTANTS
  None = None
  Sources = {s1, s2}
  GoodSources = {s1}
  Contents = {a, b, o}
  Outlines = {o}
  SoundPlans = {a, b}
  MaxInRev = 2
  MaxSubRev = 2
  MaxWfRev = 2
  MaxFixes = 0
  MaxDownstream = 0
  EditsDuringTasks = FALSE
  Tests = {1, 2}
  Crashing = {"solution"}
  MaxCrashes = 1
INVARIANTS TypeOK ConfirmedKept
CHECK_DEADLOCK FALSE
SYMMETRY ContentSymmetry
