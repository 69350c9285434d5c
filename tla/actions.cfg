SPECIFICATION LiveSpec
CONSTANTS
  None = None
  Root = Root
  Objects = {1, 2}
  Dirs = {}
  Names = {a, b, q1, q2}
  Workers = {w1, w2}
  MaxLinks = 4
  Osts <- MCOsts
  Asides = {q1, q2}
  Worlds <- MCWorlds
INVARIANTS NothingElseLost HiddenIsReported ConvergedWhenQuiet
PROPERTIES HsmSettles
CHECK_DEADLOCK FALSE
