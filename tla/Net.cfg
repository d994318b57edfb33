SPECIFICATION FairSpec
CONSTANTS
  RX_FRAMES = 2
  TX_SLOTS = 2
  Hosts = {gw, peer}
  Far = {far}
  Gateway = gw
  Server = gw
  ARP_TABLE_SIZE = 2
  ARP_TRIES = 1
  ARP_TICKS = 1
  WAIT_TICKS = 1
  PINGS = 2
  ID_MOD = 3
  Nothing = none
  Targets = {far}
  Callers = {peer}
  MaxCommands = 2
  MaxEvents = 2
  MaxQueue = 1
INVARIANTS  RingWatched
PROPERTIES PacketRight DnsRight CommandsReturn
CHECK_DEADLOCK FALSE
