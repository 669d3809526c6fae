SPECIFICATION FiguresSpec
CONSTANTS
  o1 = o1
  o2 = o2
  p1 = p1
  k1 = k1
  s1 = s1
  h1 = h1
  h2 = h2
  NoCoupon = NoCoupon
  Orders <- MCOrders
  Products <- MCProducts
  Customers <- MCCustomers
  Coupons = {}
  Sessions <- MCSessions
  Handlers <- MCHandlers
  Method <- MCMethod
  CustomerOf <- MCCustomerOf
  CouponOf <- MCCouponOf
  Qty <- MCQty
  Total <- MCTotal
  Backorder = {}
  Untracked = {}
  OpeningStock <- MCOpening
  UsageLimit <- NoLimit
  PerCustomerLimit <- NoLimit
  MaxVersion = 2
  MaxOnHand = 2
  MaxRestarts = 1
  MaxAsked = 1
INVARIANTS FiguresConverge
PROPERTIES FiguresSettle
CHECK_DEADLOCK FALSE
