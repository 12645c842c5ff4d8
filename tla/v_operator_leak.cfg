SPECIFICATION Spec
CONSTANTS
  p1 = p1
  p2 = p2
  NoProc = NoProc
  NoSpec = NoSpec
  Procs <- OneProc
  Specs <- DeletePolicy
  Faults = {}
  LeaderElection = FALSE
  Drift = {}
  MaxVersion = 1
PROPERTIES
  NothingLeftBehind
