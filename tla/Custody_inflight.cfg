SPECIFICATION Spec
CONSTANTS
  Repos = {r1}
  CapUrls = {u1}
  AuthCaps = {}
  AdminTokens = {}
  OwnerBlobs = {o1}
  None = None
  Blank = Blank
  Zeroed = Zeroed
  Tasks = {t1, t2}
  Workers = 2
  IoFails = FALSE
  ForgeConfigured = TRUE
INVARIANT
  FrozenHoldsNothing
