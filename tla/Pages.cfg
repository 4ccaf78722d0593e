SPECIFICATION MCPagesSpec
CONSTANTS
  Rows = {r1, r2}
  Depots = {1, 2}
  CoverageOnly = 2
  BookDates = {d1, d2}
  Trucks = TRUE
  Numbered = FALSE
  Careful = TRUE
  MaxCopies = 2
  RvJobs = {"a", "b"}
  RvRuns <- MCRuns
  RunDay <- MCRunDay
  RvDays = {1, 2}
  BulkIdOf <- MCBulkIdOf
  LegOf <- MCLegOf
  Linked = {"a"}
  MaxLoops = 1
  Polygons = {1, 2}
  MaxUndo = 2
  MaxSteps = 1
  MaxDrawings = 2
  MaxCalls = 2
  ChDepots = {d1, d2}
  Nil = Nil
  MaxLegs = 4
  MaxEdits = 3
  SmClients = {k1}
  Texts = {t1, t2}
  Addresses = {a1, a2}
  NoValue = NoValue
  MaxWrites = 2
  ScJobs = {1, 2, 3}
  ScChildren = {3}
  ScDays = {1, 2}
  ScFilters <- MCScFilters
  Searches <- MCSearches
  BulkPage = 1
  SlIds = {1, 2}
  SlFilters <- MCSlFilters
  SlDepot = {2}
  PerPage = 1
  RouteRows = {g1, g2, g3}
  MaxSlCalls = 2
  BuSchedules = {s1, s2}
  BuClients = {k1, k2}
  MaxRequests = 2
  SrIds = {1, 2}
  SrBookings = {7}
  SrSlots = {"mon"}
  MaxSrCalls = 2
  MpZips = {z1, z2}
  MpCoverage = {p1}
  ShSchedules = {1, 2, 3}
  ShSlots = {11}
  ShDayOf <- MCShDay
  ShPlaceOf <- MCShPlace
  MaxSh = 2
  IlJobs <- MCIlJobs
  MaxIl = 2
  SiRowsOf <- MCSiRows
  SiSuburbOf <- MCSiSuburb
  SiAddressOf <- MCSiAddress
  SiKnown = {1}
  MaxSi = 2
  BdJobs = {1, 2, 3, 4}
  BdOf <- MCBdOf
  BdConfigs <- MCBdConfigs
  BdLegs = {1}
  BdDay = 24
  HereLimit = 2
  MaxBuilds = 1
  HaFiles <- MCHaFiles
  HaFloor = 10
  HaTop = 100
  HaLive = {3}
  HaPage = 1
  MaxHa = 2
CONSTRAINT Bounded
INVARIANTS PagesTypeOK RunsFitTheirLimits BatchHoldsItsRows NoRowTwice TallyIsWhatLanded ActsOnShown ShapesKeptApart DraftLeavesNothing ChainShape RestsOnServer GridIsOfItsFilters OriginFitsDirection MapTellsBound ActsOnItsDate
PROPERTIES SummaryListsTheRest UntouchedChainKept UntouchedKept
CHECK_DEADLOCK FALSE
