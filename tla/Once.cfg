SPECIFICATION FairSpec
CONSTANTS
  order = order
  retry = retry
  other = other
  alone = alone
  k1 = k1
  k2 = k2
  p1 = p1
  p2 = p2
  Nobody = Nobody
  Requests <- MCRequests
  Keys <- MCKeys
  Key <- MCKey
  Body <- MCBody
  Slippery <- MCSlippery
  MaxFaults = 2
CHECK_DEADLOCK FALSE
INVARIANT AtMostOnce
PROPERTIES KeepsPromise KeySettles
