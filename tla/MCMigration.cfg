SPECIFICATION mFairSpec
CONSTANTS
  authority = authority  ownedSet = ownedSet  v1 = v1  fake = fake
  NoAddress = NoAddress
  NoHash = NoHash
  Account <- Accounts
  Deployer = authority
  OwnedSetAddress = ownedSet
  Initial <- InitialOne
  Hash <- NoHashes
  LeadingZero <- NoHashes
  Slots = 0
  MaxTransfers = 1
  Verifier = ownedSet
  Others <- OneOther
  Fake = fake
  MaxCrashes = 2
  MaxByHand = 1
CHECK_DEADLOCK FALSE
INVARIANTS
  RegistriesAgree
  ValidatorsRemovable
PROPERTIES
  DeployedAsPlanned
  HandoverIsFinal
  UndisturbedDeploys
  RerunNeverFinishes
