SPECIFICATION Spec
CONSTANTS
  Managers = {m1, m2, m3, m4, m5}
  Callers = {c1, c2}
  Versions = {1, 2}
  Requests <- MCRequests
  URIs <- MCURIs
  None = None
SYMMETRY Symmetry
INVARIANTS TypeOK ConnectedIsInPool SessionsFollowConfig
PROPERTIES ForwardsOnItsKind ImplementsTables
