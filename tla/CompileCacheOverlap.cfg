\* A project: the solution is replaced, or a lost container ends, during a call.
SPECIFICATION Spec
CONSTANTS
  None = None
  a = a
  b = b
  s1 = s1
  s2 = s2
  bad = bad
  Callers <- TwoCallers
  Sources <- ThreeSources
  Compilable <- TwoCompile
  EditsClear = TRUE
PROPERTIES HitFresh
