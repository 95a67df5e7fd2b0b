SPECIFICATION Spec
CONSTANTS
  Requests <- DbDbAny
  NoFwd = NoFwd
  NoChan = NoChan
  Announce <- MCAnnounce
  Readers = {r1}
  VisitedKeys <- NoKeys
  MuteDuringCapture = TRUE
  NotifSize = 1
  MaxOut = 1
  MaxPending = 0
INVARIANTS RegisteredIsVerified AddressesAreRegistered RegisteredIsBound StoredStaysValid
PROPERTY ImplementsTable
