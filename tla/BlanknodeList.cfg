SPECIFICATION Spec
CONSTANTS
  host = host
  relay = relay
  far = far
  Nodes = {host, relay}
  Host = host
  Peers <- Pair
  NoEntry = NoEntry
  MinSsee = 1
  MinSseep = 2
  PingWindow = 3
  Expiration = 4
  Removal = 5
  ErrorThreshold = 1
  MaxSigned = 2
  Spendable = TRUE
  MaxFaults = 1
PROPERTIES SpentStaysOut
CHECK_DEADLOCK FALSE
