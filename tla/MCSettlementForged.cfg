SPECIFICATION OnceSpec
CONSTANTS
  hh1 = hh1  hh2 = hh2  hh3 = hh3  hh4 = hh4  hh5 = hh5  hh6 = hh6  hh7 = hh7
  zero = zero
  Zero = zero
  Household <- Three
  Deltas <- Mixed
  MaxNettings = 1
  Prime = 997
  MaxClaim = 6
INVARIANTS
  AcceptedConserves
CHECK_DEADLOCK FALSE
