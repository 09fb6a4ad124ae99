\* The verification workspace: edits leave the binaries; edits and left-over
\* containers fall between the calls and into them.
SPECIFICATION FairSpec
CONSTANTS
  None = None
  a = a
  b = b
  s1 = s1
  s2 = s2
  bad = bad
  Callers <- TwoCallers
  Sources <- ThreeSources
  Compilable <- TwoCompile
  EditsClear = FALSE
INVARIANTS EntrySound
PROPERTIES AnswersFresh CallsEnd
