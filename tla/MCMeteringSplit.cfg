SPECIFICATION Spec
CONSTANTS
  h1 = h1  r1 = r1  r2 = r2  k1 = k1  k2 = k2
  NoChannel = NoChannel
  Household <- One
  Order <- OrderOne
  Reading <- Two
  Invoice <- PartsOfTwo
  HouseholdOf <- OfOne
  MeterDelta <- UpDown
  Channel <- TwoChannels
  Push = 2
  Balances <- Small
  MaxDisturbances = 1
CHECK_DEADLOCK FALSE
INVARIANTS
  SplitMeteredWhole
