\* Networks of two URLs, each a page, a redirect, down or not public.
CONSTANTS
  MaxTries = 3
  MaxHreflang = 3
  MaxHreflangAsked = 2
  MaxRedirects = 2
  MaxHops = 1
  MaxLinks = 4
  Ladder <- MCLadder
  LadderChecks = {}
  Rungs = {}
  CanonPages = {"a"}
  Urls301 = {"u1", "u2"}
  ScoredTools = {}
  UseCaseSets <- MCUseCaseSets
  Filters <- MCFilters
SPECIFICATION CaseSpec
INVARIANT
  RedirectsSeen
