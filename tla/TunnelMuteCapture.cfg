SPECIFICATION FairSpec
CONSTANTS
  Requests <- AnyOnly
  NoFwd = NoFwd
  NoChan = NoChan
  Announce <- MCAnnounce
  Readers = {r1}
  VisitedKeys <- NoKeys
  MuteDuringCapture = TRUE
  NotifSize = 1
  MaxOut = 1
  MaxPending = 0
PROPERTY FailureIsDetected
