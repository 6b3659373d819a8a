SPECIFICATION Spec
CONSTANTS
  alice = alice
  bob = bob
  Nodes = {alice, bob}
  Messages <- MCMessages
  Buckets <- MCBuckets
  BucketOf <- MCBucketOf
  LockTicks = 1
  MaxBunch = 1
  NoNode = NoNode
  NoMessage = NoMessage
  MaxInFlight = 2
  Faults = {"crash", "disconnect", "pow", "disable", "scan"}
  MaxFaults = 1
  Unsent = {2}
  Greeted = TRUE
  Stored <- MCStored
INVARIANTS TokensDescribeFiles OneRequestPerBucket
PROPERTIES ExpiredStaysOut
CHECK_DEADLOCK FALSE
