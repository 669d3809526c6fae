SPECIFICATION AccountsSpec
CONSTANTS
  b1 = b1
  b2 = b2
  ta = ta
  tb = tb
  tc = tc
  q1 = q1
  q2 = q2
  s1 = s1
  s2 = s2
  s3 = s3
  v1 = v1
  v2 = v2
  g1 = g1
  g2 = g2
  y1 = y1
  y2 = y2
  l1 = l1
  l2 = l2
  j1 = j1
  j2 = j2
  e1 = e1
  e2 = e2
  r1 = r1
  r2 = r2
  r3 = r3
  x1 = x1
  m1 = m1
  m2 = m2
  z1 = z1
  z2 = z2
  Browsers <- MCBrowsers
  Tabs <- MCTabs
  BrowserOf <- MCBrowserOf
  Calls <- MCCalls
  MaxSessions = 3
  Staff <- MCStaff
  Threads <- MCThreads
  ChatTabs <- MCChatTabs
  Agents <- OneAgent
  MaxMessages = 3
  Buyers <- MCBuyers
  Lines <- MCLines
  LineOf <- MCLineOf
  Stars <- MCStars
  Requests <- MCRequests
  MaxReviews = 2
  Sections <- MCSections
  Categories <- MCCategories
  SectionFor <- MCSectionFor
  ParentOf <- MCParentOf
  Products <- MCProducts
  Managers <- MCManagers
  Articles <- MCProducts
  Editors <- MCManagers
  MaxPrice = 2
  MaxVersion = 3
  Couriers <- MCCouriers
  Dispatchers <- MCManagers
  Charges <- MCCharges
  Due = 1
  MaxParcels = 2
  MaxDispatches = 3
SYMMETRY Alike
INVARIANTS ReuseHasACause CookieStaysGood OwnerSurvivesTurns BadgeNotOverstated
INVARIANTS SectionsKept ParcelsAndBill
PROPERTIES RecomputeRepairs EditsSeen
CHECK_DEADLOCK FALSE
