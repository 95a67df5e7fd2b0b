SPECIFICATION FairSpec
CONSTANTS
  g1 = g1
  g2 = g2
  l1 = l1
  l2 = l2
  None = None
  Gateways = {g1}
  Listeners = {l1, l2}
  Routes = {r1}
  Backends = {a, b}
  GatewayOf <- OneGw
  ConfigsOf <- Apart
  URIs <- DevURI
  Edits = {"create", "move", "listeners"}
  MaxEdits = 3
  Faults = {"session", "server", "process"}
  MaxFaults = 3
PROPERTIES
  RoutesGetAttached
\* Once all edits and failures are spent and everything is deleted, nothing is left to do.
CHECK_DEADLOCK FALSE
