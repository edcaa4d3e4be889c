SPECIFICATION duSpec
CONSTANTS
  authority = authority  hh1 = hh1  hh2 = hh2  h1 = h1  h2 = h2
  NoAddress = NoAddress
  NoHash = NoHash
  Account <- Accounts
  Deployer = authority
  Hash <- Hashes
  LeadingZero <- Skipped
  Slots = 2
  MaxTransfers = 1
CHECK_DEADLOCK FALSE
INVARIANTS
  duTypeOK
  CleanSlate
PROPERTIES
  DisownedIsFrozen
  ResultNeedsReading
