\* One audit at a time, of few tools; audits asked for each use case and key.
CONSTANTS
  MaxTries = 3
  MaxHreflang = 3
  MaxHreflangAsked = 2
  MaxRedirects = 2
  MaxHops = 1
  MaxLinks = 4
  Ladder <- MCLadder
  LadderChecks = {}
  Rungs = {}
  CanonPages = {"a"}
  Urls301 = {"u1", "u2"}
  ScoredTools = {}
  UseCaseSets <- MCUseCaseSets
  Filters <- MCFilters
SPECIFICATION CaseSpec
INVARIANT
  NoSilentSection
