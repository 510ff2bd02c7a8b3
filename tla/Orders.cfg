SPECIFICATION Spec
CONSTANTS
  first = first
  second = second
  a = a
  b = b
  c = c
  ann = ann
  bob = bob
  None = None
  Orders <- TwoOrders
  Lines <- ThreeLines
  OrderOf <- Belongs
  Qty <- Quantity
  CustPo <- Numbers
  Limit = 3
  Stock = 4
  Clerks <- Pair
  Amounts = {1, 2}
  MaxCalls = 7
SYMMETRY Same
CHECK_DEADLOCK FALSE
INVARIANTS DeliveredHasLeft StatusFollowsGoods SettledIsPaid
PROPERTY GateHolds
