SPECIFICATION FairSpec
CONSTANTS
  g1 = g1
  g2 = g2
  l1 = l1
  l2 = l2
  None = None
  Gateways = {g1}
  Listeners = {l1}
  Routes = {r1}
  Backends = {a, b}
  GatewayOf <- OneGw
  ConfigsOf <- Protocol
  URIs <- DevURI
  Edits = {"create", "delete"}
  MaxEdits = 2
  Faults = {"session"}
  MaxFaults = 1
PROPERTIES
  DeletionCompletes
\* Once all edits and failures are spent and everything is deleted, nothing is left to do.
CHECK_DEADLOCK FALSE
