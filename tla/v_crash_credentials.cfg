SPECIFICATION Spec
CONSTANTS
  p1 = p1
  p2 = p2
  g1 = g1
  g2 = g2
  g3 = g3
  g4 = g4
  NoProc = NoProc
  NoSpec = NoSpec
  NoPw = NoPw
  DefaultPostgresPort = 2
  MaxPort = 3
  Modulus = 8
  NoPort = NoPort
  Port <- MCPort
  UserPw = UserPw
  Procs <- OneProc
  Specs <- PlainSpecs
  Generated <- MCGenerated
  Faults = {"crash"}
  LeaderElection = FALSE
  Drift = {}
INVARIANTS
  ReadyHasCredentials
