SPECIFICATION SpecH
CONSTANTS
  Repos = {r1}
  CapUrls = {u1}
  AuthCaps = {k1}
  AdminTokens = {}
  OwnerBlobs = {}
  None = None
  Blank = Blank
  Zeroed = Zeroed
  Tasks = {t1, t2}
  Workers = 2
  IoFails = FALSE
  ForgeConfigured = TRUE
SYMMETRY Connections
INVARIANTS
  AtomicView
  GrantedMeansGone
  HInv
  ScrubIsProcessWide
  FailsClosedAfterHttpScrub
PROPERTIES
  NothingNewOnceGranted
  ImplementsContract
  ImplementsAtomicCell
