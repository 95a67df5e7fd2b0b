SPECIFICATION FairSpec
CONSTANTS
  tcp = tcp
  tls = tls
  a = a
  b = b
  c = c
  x = x
  y = y
  tcpWorker = tcpWorker
  tlsWorker = tlsWorker
  Listeners = {tcp, tls}
  Routes = {a, b, c}
  Backends = {x, y}
  WishesOf <- MCWishesOf
  Workers = {tcpWorker}
  WorkerOf <- AllByOne
  ConfigsOf <- KindsChange
  Classes <- SniOrNot
  Deployed <- Passthrough
  None = None
  MaxEdits = 2
  MaxFaults = 1
INVARIANTS TypeOK NeverDowngraded
PROPERTIES AddressesSettle ProgrammedSettles
