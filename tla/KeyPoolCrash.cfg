SPECIFICATION Spec
CONSTANTS
  Users = {sender, miner, mixer}
  TargetSize = 1
  NewSizes = {2}
  NoKey = NoKey
  MaxKeys = 7
  MaxRestarts = 1
INVARIANTS EncryptedPoolIsNew
CHECK_DEADLOCK FALSE
SYMMETRY Symmetric
