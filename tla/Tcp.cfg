CONSTANTS
  TCP_MAX_CONNS = 1
  TCP_RX_BUF_SIZE = 2
  TCP_WINDOW = 2
  SEQ = 16
  ISS = 14
  IRS = 13
  Attempts = 2
  FirstPort = 1
  LastPort = 2
  StreamLen = 2
  MaxSegment = 2
  MaxSends = 1
  MaxQueue = 2
SPECIFICATION FairSpec
INVARIANTS  SlotsReleased
PROPERTIES ConnectsLive CallsReturn
CHECK_DEADLOCK FALSE
