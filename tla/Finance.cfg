\* Two requests at every desk; one account, two files and two typed entries; three categories,
\* two counterparts; three transactions and an invoice to match.
SPECIFICATION FinanceSpec
CONSTANTS
  Requests = {r1, r2}
  Accounts = {"a1"}
  Files <- MCFiles
  Manual <- MCManual
  ChunkSize = 1
  Today = 2
  MaxRequests = 3
  Clerks = {r1, r2}
  Categories = {"c1", "c2", "c3"}
  Parties = {"p1", "p2"}
  Names = {"n1", "n2"}
  Entries = {"e1"}
  MaxCalls = 4
  w1 = w1
  d1 = d1
  d2 = d2
  i1 = i1
  Info <- MCInfo
  Bill <- MCBill
  Request = {r1, r2}
  Tolerance = 3
  BillTolerance = 1
  None = None
SYMMETRY FinanceSymmetry
INVARIANTS
  
  UploadsAreComplete
  CatalogIsSound
  LinksAgree
  PairsFit
PROPERTIES
  MergeIsBalanceAt
  RunIsComplete
CHECK_DEADLOCK FALSE
