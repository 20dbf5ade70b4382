SPECIFICATION Spec
CONSTANTS
  Own = own
  OtherOrgs = {other}
  Repos = {r1}
  Branches = {main, dev}
  Texts = {x, y}
  Tasks = {t1}
SYMMETRY Interchangeable
INVARIANTS
  AnswersAreHonest
  DefaultIsFresh
  IInv
