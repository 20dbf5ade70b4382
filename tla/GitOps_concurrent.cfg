SPECIFICATION Spec
CONSTANTS
  Repos = {r1}
  Names <- MCNames
  Tasks = {t1, t2}
  MaxCommits = 2
SYMMETRY Operations
INVARIANTS
  OwnProjectOwnCap
  OnlyForgottenCapsShow
  AnsweredShaIsPushed
  IInv
