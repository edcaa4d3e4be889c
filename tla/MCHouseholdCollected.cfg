SPECIFICATION MCSpec
CONSTANTS
  lower = lower  mixed = mixed  peer = peer  r1 = r1  r2 = r2
  Undefined = Undefined
  Absent = Absent
  Address <- Three
  Checksum <- ChecksumOf
  Validators <- Checksums
  Reports <- OneAgainstTwo
  MaxReports = 2
  MaxNettings = 1
  MaxEvents = 1
  MaxNedRestarts = 1
  MaxClock = 2
  Reading <- Two
  Value <- ThreeAndOne
  Spellings <- OwnLower
  Skews <- Early
  MaxCollections = 1
  MaxCrashes = 1
CHECK_DEADLOCK FALSE
INVARIANT AnswerComplete
