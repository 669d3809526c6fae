SPECIFICATION OfficeSpec
CONSTANTS
  o1 = o1
  o2 = o2
  a1 = a1
  a2 = a2
  r1 = r1
  r2 = r2
  r3 = r3
  h1 = h1
  h2 = h2
  v1 = v1
  c1 = c1
  c2 = c2
  x1 = x1
  x2 = x2
  d1 = d1
  d2 = d2
  n1 = n1
  n2 = n2
  n3 = n3
  Admins <- MCAdmins
  Ids <- MCIds
  Paid = 2
  Accounts <- MCAccounts
  Suppliers <- MCSuppliers
  Clerks <- MCClerks
  Amounts <- MCAmounts
  Totals <- MCTotals
  MaxEntries = 4
  MaxBills = 1
  Parcels <- MCParcels
  Lots <- MCLots
  CopiesOf <- MCCopies
  Costs <- MCCosts
  Receipts <- MCReceipts
  OldShelf = 1
  Nobody = Nobody
  Replicas <- MCReplicas
  Connections <- MCConnections
  Runs <- MCRuns
  MaxHeld = 4
SYMMETRY Alike
INVARIANTS RefundsAgree BillsMatchBook CorrectionsBalance
INVARIANTS CopiesTraced StampedCostIsReal OneReplicaRuns
PROPERTIES OldStockOnlyShrinks
CHECK_DEADLOCK FALSE
