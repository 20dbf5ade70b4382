SPECIFICATION SpecR
CONSTANTS
  Repos = {r1}
  CapUrls = {u1}
  AuthCaps = {}
  AdminTokens = {}
  OwnerBlobs = {}
  None = None
  Blank = Blank
  Zeroed = Zeroed
  Tasks = {t1}
  Workers = 1
  IoFails = FALSE
  ForgeConfigured = TRUE
PROPERTY
  NextOpReloads
