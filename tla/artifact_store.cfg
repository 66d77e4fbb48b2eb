SPECIFICATION StoreSpec
CONSTANTS
  c1 = c1
  c2 = c2
  None = None
  Requests = {r1, r2, r3}
  Contents = {c1, c2}
  Kinds = {"stdout", "logcat", "output"}
  LogKinds = {"stdout", "logcat"}
  Uploads <- MCUploads
  Slots = {"input_artifact", "stdout_artifact"}
SYMMETRY Sym
CHECK_DEADLOCK FALSE
INVARIANTS IInv PathHoldsItsContent RowHasItsFile OneRowPerContent AnswersNameRows RowOpens
  LeftoversReported PageCanBeFetched
PROPERTIES NothingFalseReported ImplementsContentStore
