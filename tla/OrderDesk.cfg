SPECIFICATION Spec
CONSTANTS
  o1 = o1
  o2 = o2
  p1 = p1
  k1 = k1
  c1 = c1
  s1 = s1
  s2 = s2
  NoCoupon = NoCoupon
  Orders <- MCOrders
  Products <- MCProducts
  Customers <- MCCustomers
  Coupons <- MCCoupons
  Sessions <- MCSessions
  Method <- MCMethod
  CustomerOf <- MCCustomerOf
  CouponOf <- MCCouponOf
  Qty <- MCQty
  Backorder = {}
  Untracked = {}
  OpeningStock <- MCOpening
  UsageLimit <- MCLimit
  PerCustomerLimit <- MCPerCustomer
  MaxVersion = 3
  MaxOnHand = 2
INVARIANTS TypeOK StockAccounted StageAgrees PlansFresh PaidInTime CouponCounted
PROPERTIES FollowsLifecycle ImplementsPromise
