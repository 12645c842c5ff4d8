SPECIFICATION Spec
CONSTANTS
  p1 = p1
  p2 = p2
  key = key
  ctx = ctx
  cluster = cluster
  user = user
  NoProc = NoProc
  NoSpec = NoSpec
  NoKey = NoKey
  InPod = FALSE
  NoName = NoName
  Unparsable = Unparsable
  Procs <- OneProc
  Specs <- AllSpecs
  Credentials <- AllCredentials
  Secrets <- AllSecrets
  Faults = {}
  LeaderElection = FALSE
  MaxVersion = 2
PROPERTIES
  ConnectReturns
