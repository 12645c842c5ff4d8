SPECIFICATION FairSpec
CONSTANTS
  p1 = p1
  p2 = p2
  key = key
  ctx = ctx
  cluster = cluster
  user = user
  NoProc = NoProc
  NoSpec = NoSpec
  NoKey = NoKey
  InPod = TRUE
  NoName = NoName
  Unparsable = Unparsable
  Procs <- OneProc
  Specs <- Referring
  Credentials <- KeyedOrNone
  Secrets <- FewSecrets
  Faults = {}
  LeaderElection = TRUE
  MaxVersion = 2
INVARIANTS
  TypeOK
PROPERTIES
  ImplementsOperator
  EventuallyReady
  DeletionCompletes
  ConfigDeletionCompletes
