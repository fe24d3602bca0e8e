SPECIFICATION Spec
CONSTANTS
  None = None
  Wrong = Wrong
  CategoriesOf <- MCCategories
  Drafts <- MCDrafts
  Expense = {"food", "etc"}
  Limits = {4}
  FirstMonth = 1
  LastMonth = 2
  DaysInMonth = 3
  TrendMonths = 2
  BaselineMonths = 1
  MinBaseline = 2
  OutlierLimit = 1
  Id = {1, 2, 3}
  Moment = {1, 2}
  Asked = {0, 1, 2}
  MaxLimit = 2
  MaxShifts = 1
  PerMinute = 2
  WindowSeconds = 2
  TicksPerSecond = 2
  MaxTick = 5
  CallId = {1, 2, 3}
  Request <- MCRequest
  Meetings <- MCMeetings
  RuleFor <- MCRules
  Article <- MCArticle
  Text = {"a", "b"}
  Entry = {1, 2}
  Choosable = {"food"}
  Batch = 2
  MaxPending = 2
  Rounds = 2
  HistoryWindow = 2
  HistoryAgree = 2
  VectorId = {1, 2}
  MaxSaves = 1
  Ledgers <- MCLedgers
  FirstYear = 2023
  LastYear = 2028
  SaidMonths = {1, 2, 12}
  SaidDates = {1, 29, 31}
  MaxDays = 365
  Minutes = {540, 1200}
  Category = {"food"}
  Ghost = Ghost
  Word = Word
  AskedDays <- MCAskedDays
  AskedCounts = {0, 7, 400}
  DefaultRows = 2
  MaxRows = 5
  MaxChanges = 2
  Lines = {0, 1, 3}
  Fits = 2
  Merchant = {"cafe"}
  Extractions <- MCExtractions
  SaidOn <- MCDays
  Attempts = 2
  Ceiling = 3
  Held = {1, 2, 3, 4}
  Typeable <- MCTypeable
  Readings <- MCReadings
  MaxForms = 1
  MaxSent = 3
  MaxTyped = 1
  KeyLife = 1
  LastTick = 2
  Sums = {"sum", "cmp"}
  Arg = {"p", "q"}
  NumbersOf <- MCNumbersOf
  Chunk = {"x", "y"}
  NumbersIn <- MCNumbersIn
  TodayNumbers = {4}
  Numbers = {1, 2, 3, 4}
  Answers <- MCAnswers
  Fixed <- MCFixed
  PerPlan = 2
  MaxCharts = 1
  MaxHighlights = 2
  MaxSteps = 2
  Plans <- MCPlans
  Layouts <- MCLayouts
  Sentences <- MCSentences
  RunId = {1, 2}
  Chats <- MCChats
  PlanSizes = {2}
  FixedCalls = 1
  FitTools = {"sum", "suggest_category", "search_documents", "create_transaction"}
  MaxCalls = 5
  RunMoment = {1}
  RunLimit = 1
  RunFilters <- MCFilters
  EntryId = {1, 2}
  ShopName <- MCNames
  BudgetMonth = {1}
  RunKind <- MCKinds
  MaxWritten = 3
  Folders <- MCFolders
  Law <- MCLaw
  FixedSize = 2
  SplitOver = 2
  AgentK = 2
  UiK = 1
  Pool = 3
  MaxLoads = 2
  Sayings <- MCSayings
  Messages <- MCMessages
  Typed <- MCTyped
  Earned = {"salary", "other_income"}
  Demo <- MCDemo
  SeedMonths = 1
  DemoLimits <- MCDemoLimits
  MaxAmount = 10
  PageSize = 1
  FormKeys = {1}
  MaxProposals = 1
  MaxSequence = 2
INVARIANT ReportsAgree
INVARIANT CrossingIsTrue
INVARIANT OutliersStandOut
INVARIANT PeriodsFit
INVARIANT SaidIsPast
INVARIANT UnchangedSeenOnce
INVARIANT MinuteHolds
INVARIANT IndexServes
INVARIANT SharedToolsAgree
INVARIANT OneEntryPerForm
INVARIANT ShownIsGrounded
INVARIANT ReadingIsGrounded
INVARIANT RunsAreKept
INVARIANT SchemaIsWhole
INVARIANT DocumentsAreWhole
INVARIANT StandInsAgree
PROPERTY PastBudgetsStand
CHECK_DEADLOCK FALSE
