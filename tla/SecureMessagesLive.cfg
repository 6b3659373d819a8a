SPECIFICATION FairSpec
CONSTANTS
  alice = alice
  bob = bob
  Nodes = {alice, bob}
  Messages <- MCMessages
  Buckets <- MCBuckets
  BucketOf <- MCBucketOf
  LockTicks = 1
  MaxBunch = 1
  NoNode = NoNode
  NoMessage = NoMessage
  MaxInFlight = 1
  Faults = {"crash", "pow"}
  MaxFaults = 1
  Unsent = {2}
  Greeted = TRUE
  Stored <- MCStored
PROPERTIES Converges QueuedIsStored
CHECK_DEADLOCK FALSE
