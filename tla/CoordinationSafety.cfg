SPECIFICATION Spec
CONSTANTS
  home = home
  away = away
  Deltas = {d1, d2}
  Geohashes = {home, away}
  Shard <- TwoShards
  Home = home
  Workers = {w1, w2}
  Page = 1
  Ttls = {2}
  MaxClock = 3
  MaxTries = 2
  None = None
SYMMETRY Symmetry
INVARIANTS
  Inv
  NothingIsSkipped
  PublishedIsHeld
CHECK_DEADLOCK FALSE
