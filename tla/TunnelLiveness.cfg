SPECIFICATION FairSpec
CONSTANTS
  Requests <- WebOnly
  NoFwd = NoFwd
  NoChan = NoChan
  Announce <- MCAnnounce
  Readers = {r1}
  VisitedKeys <- WebKey
  MuteDuringCapture = FALSE
  NotifSize = 1
  MaxOut = 1
  MaxPending = 1
INVARIANTS TypeOK NothingOutlivesConnection ChannelHasItsCall
PROPERTIES CallsReturn FailureIsDetected
