SPECIFICATION FrontSpec
CONSTANTS
  k1 = k1
  k2 = k2
  b1 = b1
  b2 = b2
  t1 = t1
  t2 = t2
  p1 = p1
  m1 = m1
  w1 = w1
  w2 = w2
  s1 = s1
  s2 = s2
  u1 = u1
  u2 = u2
  g1 = g1
  Keys <- MCKeys
  Bodies <- MCBodies
  Submissions <- MCSubmissions
  Attempts = 3
  MaxExpiries = 1
  MaxChanges = 2
  Tabs <- MCTabs
  Carts <- MCCarts
  Goods <- MCGoods
  MaxLineQty = 2
  MaxAsked = 3
  Messages <- OneMessage
  Workers <- MCWorkers
  Staff <- TwoStaff
  Batch = 1
  MaxAttempts = 2
  MaxCrashes = 2
  MaxRetries = 2
  Titles <- MCTitles
  Bundles <- MCBundles
  Price <- MCPrice
  ListPrice <- MCListPrice
  TaxRate <- MCTaxRate
  Parts <- MCParts
  SectionOf <- MCSectionOf
  FreeItems <- MCFreeItems
  QuoteInputs <- MCQuoteInputs
INVARIANTS QuoteAddsUp OneOrderPerKey NumbersGapless AnswersOwnOrder NothingMadeUp
PROPERTIES SentForGood MessagesSettle EverySubmissionAnswered
CHECK_DEADLOCK FALSE
