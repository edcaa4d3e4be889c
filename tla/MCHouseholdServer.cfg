SPECIFICATION MCSpec
CONSTANTS
  lower = lower  mixed = mixed  peer = peer  r1 = r1  r2 = r2
  Undefined = Undefined
  Absent = Absent
  Address <- Three
  Checksum <- ChecksumOf
  Validators <- Checksums
  Reports <- OneAgainstTwo
  MaxReports = 3
  MaxNettings = 2
  MaxEvents = 1
  MaxNedRestarts = 1
  MaxClock = 3
  Reading <- Two
  Value <- ThreeAndOne
  Spellings <- OwnLower
  Skews <- Early
  MaxCollections = 2
  MaxCrashes = 1
CHECK_DEADLOCK FALSE
INVARIANTS
  TypeOK
  NetworkCounts
  MeterAccounts
  DuplicatesOverlap
  MissedSinceAnswer
