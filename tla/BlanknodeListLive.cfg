SPECIFICATION FairSpec
CONSTANTS
  host = host
  relay = relay
  far = far
  Nodes = {host, relay, far}
  Host = host
  Peers <- Line
  NoEntry = NoEntry
  MinSsee = 1
  MinSseep = 2
  PingWindow = 3
  Expiration = 4
  Removal = 5
  ErrorThreshold = 1
  MaxSigned = 1
  Spendable = FALSE
  MaxFaults = 1
INVARIANTS SilentIsNotEnabled
PROPERTIES AliveIsListed
CHECK_DEADLOCK FALSE
