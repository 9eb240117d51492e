\* Two checks of lists of up to three of two URLs in up to two tabs, progress saved
\* every second result; checks that share the smallest URL share a progress file.
\* Two request threads, two values of a field, two profiles; two reports, one PDF
\* permit, a list of one report.  Two checks at once on a cache of one entry that
\* lives two ticks; audits of two domains in two threads.  Pages of up to four links,
\* of which three are probed, by two threads; sites of four pages and three sitemaps
\* that link at will to up to two; a bucket of two and a third tokens.
CONSTANTS
  t1 = t1
  t2 = t2
  v1 = v1
  v2 = v2
  n1 = n1
  n2 = n2
  Urls = {1, 2}
  Lists <- MCLists
  HasXlsx = TRUE
  MaxListed = 1
  MaxTabs = 2
  SaveEvery = 2
  KeyLength = 1
  HistoryLength = 1
  MaxChecks = 2
  Absent = Absent
  Mask = Mask
  Empty = Empty
  Mixed = Mixed
  None = None
  Savers = {t1, t2}
  Threads = {t1, t2}
  Values = {v1, v2}
  Names = {n1, n2}
  Stems = {n1, n2}
  MaxPdf = 1
  CheckThreads = {t1, t2}
  Sites = {n1, n2}
  NotCached = NotCached
  PageTtl = 2
  RobotsTtl = 2
  CacheMax = 1
  MaxCheckTime = 1
  MaxClock = 5
  Rankers = {t1, t2}
  Domains = {n1, n2}
  Broken = Broken
  MaxTries = 3
  MaxHreflang = 3
  MaxHreflangAsked = 2
  MaxRedirects = 2
  MaxHops = 3
  MaxLinks = 4
  Ladder <- MCLadder
  LadderChecks <- MCLadderChecks
  Rungs <- MCRungs
  CanonPages = {"a", "b", "c", "d"}
  Urls301 = {"u1", "u2"}
  ScoredTools = {"http_status", "mx_records", "domain_rank"}
  UseCaseSets <- MCUseCaseSets
  Filters <- MCFilters
  PageLinks = {1, 2, 3, 4}
  MaxProbed = 3
  PoolSize = 2
  Pythons = {310, 311}
  Replies <- MCReplies
  SitePages <- MCSitePages
  SiteNets <- MCSiteNets
  StartPages = {"a"}
  CrawlLimits <- MCCrawlLimits
  Maps <- MCMaps
  MapNets <- MCMapNets
  FirstMaps = {"m1"}
  UsualMaps <- MCUsualMaps
  MaxMapDepth = 2
  Callers = {t1, t2}
  Unit = 3
  Rate = 2
  Burst = 7
  MaxTicks = 8
SYMMETRY Symmetry
SPECIFICATION MCSpec
INVARIANTS
  ReportsWhole
  LossBounded
  SecretKept
  ReadableUnlessCrossed
  ReportsManaged
  WorseIsNotBetter
  CyclesFound
  AuditsFair
  StaleBound
  HistoryKept
  LinksReported
  SourcesComplete
  QuotaKept
PROPERTIES
  VerdictsAreFinal
  OthersProgressKept
CHECK_DEADLOCK FALSE
