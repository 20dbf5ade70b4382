SPECIFICATION Spec
CONSTANTS
  Tasks = {t1, t2}
  Keys = {k1, k2}
  Malformed = Malformed
  MaxLines = 4
  CanFail = FALSE
INVARIANT
  AckedKeyHasLine
