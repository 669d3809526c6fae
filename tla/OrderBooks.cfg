SPECIFICATION BooksSpec
CONSTANTS
  o1 = o1
  p1 = p1
  k1 = k1
  s1 = s1
  a1 = a1
  a2 = a2
  NoCoupon = NoCoupon
  Orders <- MCOrders
  Products <- MCProducts
  Customers <- MCCustomers
  Coupons = {}
  Sessions <- MCSessions
  Clerks <- MCClerks
  Method <- CashOrder
  CustomerOf <- MCCustomerOf
  CouponOf <- MCCouponOf
  Qty <- MCQty
  Backorder = {}
  Untracked = {}
  OpeningStock <- MCOpening
  UsageLimit <- NoLimit
  PerCustomerLimit <- NoLimit
  MaxVersion = 3
  MaxOnHand = 1
  MaxRestarts = 1
  MaxByHand = 2
CHECK_DEADLOCK FALSE
INVARIANTS NoDuplicates PapersFollowOrder
PROPERTIES PapersSettle
