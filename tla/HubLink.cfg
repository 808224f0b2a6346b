\* The hub is away or there at boot; then it moves, the link is lost or 'w' is pressed.
SPECIFICATION FairSpec
CONSTANTS
  Addrs = {a1, a2}
  Gateway = gw
  Bench = laptop
  Nvs = a1
  Wrap = 8
  MinGap = 1
  BackoffBase = 1
  BackoffMax = 2
  Silent = 2
  MaxRefusals = 1
  LongUp = FALSE
  Channels = {1, 2}
  Fast = 1
  Slow = 2
  SlowAfter = 2
  FullEvery = 2
  MaxTroubles = 1
INVARIANT SearchOwned
PROPERTIES ServesAgain FindsHub
