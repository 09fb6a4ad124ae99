\* Saves and tests wait for the lock behind each other; tasks start and call at any moment.
SPECIFICATION FairSpec
CONSTANTS
  None = None
  Tasks = {t1, t2}
  Requests = {r1, r2}
  Names = {n1, n2}
  Keys = {k1}
  MaxModels = 3
INVARIANTS SettingsWait NoneBroken CurrentServes
PROPERTIES RequestsServed
