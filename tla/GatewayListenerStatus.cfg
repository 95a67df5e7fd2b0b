SPECIFICATION FairSpec
CONSTANTS
  tcp = tcp
  tls = tls
  a = a
  b = b
  c = c
  x = x
  y = y
  tcpWorker = tcpWorker
  tlsWorker = tlsWorker
  Listeners = {tcp, tls}
  Routes = {a, b, c}
  Backends = {x, y}
  WishesOf <- MCWishesOf
  Workers = {tcpWorker, tlsWorker}
  WorkerOf <- ByKind
  ConfigsOf <- SomeRejected
  Classes <- ProxyClass
  Deployed <- Https
  None = None
  MaxEdits = 0
  MaxFaults = 1
PROPERTIES ListenerStatusesSettle
