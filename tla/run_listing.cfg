SPECIFICATION LookSpec
CONSTANTS
  None = None
  Runs <- MCRuns
  Times <- MCTimes
  Limit = 2
  Readers = {c1}
  Attr <- MCAttr
  Filters <- MCFilters
  MaxRows = 1
CHECK_DEADLOCK FALSE
INVARIANTS IInv NoneSkipped PagesContinue PagesAreFull FacetsCoverRows RowsSummariseTheirRuns LinkListsEveryRun
