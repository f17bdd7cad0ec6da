\* Two requests at every desk; the other bounds are named in the modules.
SPECIFICATION OfficeSpec
CONSTANTS
  Collectors = {r1, r2}
  Media <- MCMedia
  Newest = 1
  MaxPosts = 2
  MaxRuns = 3
  Channels <- MCChannels
  Years = {2025, 2026}
  Months = {1}
  Days = {7, 8, 26, 31}
  DefaultYear = 2026
  Counts = {3, 5}
  MaxFacts = 2
  Makers = {r1, r2}
  RoleOf <- MCRoleOf
  Whitelist = {1, 3}
  Picks <- MCPicks
  RetryMax = 2
  MinuteMax = 1
  MinuteWindow = 0
  DayMax = 2
  DayWindow = 2
  MaxNow = 2
  MaxChanges = 1
  Admins = {r1, r2}
  MaxLogins = 2
  MaxPhones = 2
  Chatters = {r1, r2}
  OwnerOf <- MCOwnerOf
  MediaCost <- MCMediaCost
  Uploads = {1}
  Price = 1
  ChatQuota = 1
  MaxChats = 3
  Importers = {r1, r2}
  Workbooks <- MCWorkbooks
  DeclarationFiles <- MCDeclarationFiles
  KnownCompanies = {"A", "B"}
  DefaultCompany = "A"
  ThisYear = 2026
  MaxUploads = 3
  Authors = {r1, r2}
  Drafts <- MCDrafts
  Verdicts <- MCVerdicts
  Finds <- MCFinds
  Cap = 2
  MaxDedup = 2
  MaxDocuments = 1
  MaxCopies = 3
  Searchers = {s1}
  Corpora <- MCCorpora
  Variants = 2
  Words = {"k", "m"}
  Terms = {"k", "m", "x9"}
  Rare = {"x9"}
  Scopes <- MCScopes
  PageSize = 2
  Overfetch = 2
  RerankPool = 4
  RerankTop = 3
  KeywordScan = 3
  PerVariable = 2
  PerFile = 1
  PerChat = 1
  ScrollFloor = 5
  MinRelevance = 5
  MinRerank = 3
  Boost = 2
  Strong = 8
  RrfK = 3
  Scale = 420
  MaxReindex = 2
  Editors = {r1, r2}
  People = {p1, p2}
  Founders = {p1}
  Departments = {"D", "E"}
  Home = "D"
  Modules = {"m", "dashboard"}
  Dashboard = "dashboard"
  GrantSets <- MCGrantSets
  Approvals <- MCApprovals
  Patches <- MCPatches
  MaxEdits = 3
SYMMETRY OfficeSymmetry
INVARIANTS
  CommentsOnTheirPost
  FiguresAgree
  WindowHolds
  SessionIsThePersonas
  ChatIsKept
  
  FoundFits
  AccessAgrees
PROPERTIES
  CollectedOnce
  BatchIsTold
  
CHECK_DEADLOCK FALSE
