\* A request that was let in while nothing ran, and served when something does.
SPECIFICATION Spec
CONSTANTS
  None = None
  Tasks = {t1, t2}
  Requests = {r1, r2}
  Names = {n1, n2}
  Keys = {k1}
  MaxModels = 3
INVARIANTS SettingsFixed
