SPECIFICATION PoolSpec
CONSTANTS
  Investors = {alice, bob}
  alice = alice
  bob = bob
  SCALE = 4
  Amounts = {1, 2, 3}
  MaxShares = 4
  MaxInterest = 4
SYMMETRY Symmetry
INVARIANT PoolCoversWhatItOwes
CHECK_DEADLOCK FALSE
