SPECIFICATION Spec
CONSTANTS
  authority = authority  ownedSet = ownedSet  v1 = v1  v2 = v2
  NoAddress = NoAddress
  NoHash = NoHash
  Account <- Accounts
  Deployer = authority
  OwnedSetAddress = ownedSet
  Initial <- InitialOne
  Hash <- NoHashes
  LeadingZero <- NoHashes
  Slots = 0
  MaxTransfers = 1
SYMMETRY Candidates
CHECK_DEADLOCK FALSE
INVARIANTS
  TypeOK
  StatusIndexesPending
  FinalizedAgrees
  ValidatorsDistinct
  FinalizedValidatorsPass
