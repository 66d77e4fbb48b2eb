SPECIFICATION WriterSpec
CONSTANTS
  a = a
  b = b
  old = old
  Prompt = Prompt
  Imports = {i1, i2, i3}
  Tags = {a, b, old}
  Log <- MCLog
  SkipTags = {old}
  Silent = {4}
  MayOverlap = FALSE
  keeper = keeper
  one = one
  two = two
  i1 = i1
  i2 = i2
  i3 = i3
  m1 = m1
  a1 = a1
  Collectors = {keeper, one, two}
  References = {m1, a1}
  Draws <- MCDraws
  Requests <- MCRequests
  PreviewLength = 3
  MaxFaults = 1
  None = None
  Absent = Absent
CHECK_DEADLOCK FALSE
INVARIANTS IInv OncePerRepetition DoneIsComplete NothingLeftOver
  RecordingInv ValidatedRunsAreInserted DoneIsRecorded AnnouncedOnce
PROPERTIES EventuallyRecorded ImplementsLedger ImplementsRepetitionLedger
