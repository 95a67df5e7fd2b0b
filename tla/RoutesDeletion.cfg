SPECIFICATION FairSpec
CONSTANTS
  g1 = g1
  g2 = g2
  l1 = l1
  l2 = l2
  None = None
  Gateways = {g1}
  Listeners = {l1}
  Routes = {r1, r2}
  Backends = {a}
  GatewayOf <- OneGw
  ConfigsOf <- Rekeyed
  URIs <- DevURI
  Edits = {"create", "delete", "listeners", "undeploy"}
  MaxEdits = 4
  Faults = {"session", "server", "process"}
  MaxFaults = 2
PROPERTIES
  DeletionSettles
\* Once all edits and failures are spent and everything is deleted, nothing is left to do.
CHECK_DEADLOCK FALSE
