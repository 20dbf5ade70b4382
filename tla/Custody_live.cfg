SPECIFICATION FairSpecF
CONSTANTS
  Repos = {r1}
  CapUrls = {}
  AuthCaps = {}
  AdminTokens = {}
  OwnerBlobs = {o1}
  None = None
  Blank = Blank
  Zeroed = Zeroed
  Tasks = {t1, t2}
  Workers = 1
  IoFails = TRUE
  ForgeConfigured = TRUE
INVARIANTS
  NobodyWaitsInVain
  
PROPERTIES
  RequestServed
  HandlersAdvance
  BootLoadsWhatIsThere
