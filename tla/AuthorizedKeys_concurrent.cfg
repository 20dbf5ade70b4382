SPECIFICATION Spec
CONSTANTS
  Tasks = {t1, t2, t3}
  Keys = {k1, k2}
  Malformed = Malformed
  MaxLines = 3
  CanFail = TRUE
SYMMETRY CallsAndKeys
INVARIANTS
  TypeOK
  QuietFileIsTerminated
  DuplicatesAreBounded
PROPERTIES
  LoneCallLands
  ImplementsTextStore
