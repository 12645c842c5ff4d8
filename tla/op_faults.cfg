SPECIFICATION Spec
CONSTANTS
  p1 = p1
  p2 = p2
  NoProc = NoProc
  NoSpec = NoSpec
  Procs <- TwoProcs
  Specs <- BothPolicies
  Faults = {"readFail", "writeFail", "writeLost", "crash"}
  LeaderElection = TRUE
  Drift = {"subscription", "withdraw", "relist"}
  MaxVersion = 2
INVARIANTS
  TypeOK
  IInv
PROPERTIES
  SubscribesOnRequest
  CSVKept
