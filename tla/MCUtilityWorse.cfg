SPECIFICATION OnceSpec
CONSTANTS
  hh1 = hh1  hh2 = hh2  hh3 = hh3  hh4 = hh4  hh5 = hh5  hh6 = hh6  hh7 = hh7
  zero = zero
  Zero = zero
  Household <- Seven
  Deltas <- Third
  MaxNettings = 1
INVARIANTS
  NeverWorse
CHECK_DEADLOCK FALSE
