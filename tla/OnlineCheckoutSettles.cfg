SPECIFICATION FairCheckoutSpec
CONSTANTS
  o1 = o1
  p1 = p1
  k1 = k1
  c1 = c1
  s1 = s1
  h1 = h1
  h2 = h2
  w1 = w1
  w2 = w2
  NoCoupon = NoCoupon
  Orders <- MCOrders
  Products <- MCProducts
  Customers <- MCCustomers
  Coupons <- MCCoupons
  Sessions <- MCSessions
  Method <- MCMethod
  CustomerOf <- MCCustomerOf
  CouponOf <- MCCouponOf
  Qty <- MCQty
  Backorder = {}
  Untracked = {}
  OpeningStock <- MCOpening
  UsageLimit <- MCLimit
  PerCustomerLimit <- MCLimit
  MaxVersion = 1
  MaxOnHand = 1
  MaxRestarts = 1
  Shoppers <- OneShopper
  Workers <- OneWorker
  MaxAttempts = 1
PROPERTIES AttemptsSettle
CHECK_DEADLOCK FALSE
