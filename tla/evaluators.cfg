SPECIFICATION Spec
CONSTANTS
  init = init
  null = null
  bob = bob
  eve = eve
  dan = dan
  tom = tom
  Names = {init, null, bob, eve, dan, tom}
  InitMiner = init
  Null = null
  Existing = {init, null, bob, eve}
  InitSupply = 3
  Amounts = {1, 2}
  Fees = {1}
  EscrowIds = {1}
  Times = {0, 1, 2}
  Deadlines <- EscrowDeadlines
  FirstBlock = 2
  LastBlock = 4
  LibDepth = 2
  PowChange = 3
  HalvingInterval = 4
  MiningReward = 2
  RecalcEvery = 2
  Expected = 2
  TargetStart = 8
  TargetMax = 16
  PeriodStart = 1
  MaxOps <- Ops
  Posts = {p1, p2, p3}
  p1=p1
  p2=p2
  p3=p3
  Author <- Authors
  MaxDepth = 2
  RootInterval = 0
  ReplyInterval = 0
  EditInterval = 0
  None = None
  Offered <- Named
  Orders <- Sorted
  SigDepth = 2
  MaxMembership = 3
  MaxWalletAuths = 4
  RecoveryLimit = 0
SYMMETRY Symmetry
VIEW View
CONSTRAINT Bounds
INVARIANTS StateSound OneReward ThreadsSound VerdictsRight KeyLookupsRight
PROPERTIES MovesPermitted Retargets
CHECK_DEADLOCK FALSE
