SPECIFICATION FairSpec
CONSTANTS
  Parents = {p, q}
  Theirs = {t, u}
  None = None
  MaxEdits = 3
  MaxFaults = 1
  Steps = 2
INVARIANTS TypeOK AttachesOnlyOwned OwnedIsWatched
PROPERTIES OthersKept StatusSettles
CHECK_DEADLOCK FALSE
