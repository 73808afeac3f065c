CONSTANTS
  f1 = f1
  t1 = t1
  t2 = t2
  bad = bad
  Names = {n1, n2}
  Files = {f1}
  Texts = {t1, t2, bad}
  Good = {t1, t2}
  None = none
  Size <- MCSize
SPECIFICATION Spec
INVARIANTS ServesPlayersFile
PROPERTIES SameAnswer
