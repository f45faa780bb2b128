CONSTANTS
  Fresh = {1}
  Resumes = {2, 3}
  Policy = "relax"
  Climb = TRUE
  Interval = 2
  StageSteps = 1
  MaxRaises = 1
  MaxCrashes = 1
  Writers = {1, 2}
  MaxWrites = 4
  MaxFails = 1
  MaxKills = 1
  MaxLosses = 2
  a1 = a1
  a2 = a2
  a3 = a3
  Analyst = {a1, a2, a3}
  Version = {0, 1}
  MaxAbends = 1
  MaxDeclared = 3
  MaxDraft = 3
  TierOf <- EvidenceTier
  MaxChanges = 3
  MaxRenders = 1
  Cell = 7
  SaveInterval = 2
  StartStep = {0, 2}
  Moves <- AtomMoves
  LagGrid <- LagGrids
  Groups = {1, 2}
  MaxFrames = 5
  Calculator <- AllCalculators
  Isolated = "dpa"
  Requests <- SuiteRequests
  Particle = {1, 2}
  Axis = {"x", "y"}
  Restraints <- PairRestraints
  Momentum <- PairMomenta
  Number = {1, 2}
  Work = {"a", "b"}
  Stranger = "stranger"
  MaxForks = 3
  Gpus <- TwoGpus
  Visibilities <- VisibilityLists
  MaxLost = 1
SPECIFICATION PartsSpec
INVARIANTS
  PartsTypeOK
  NoFalseSuccess
  NothingResurrected
  DeclaredTakesEffect
  QueuedIsDeclared ClaimIsBacked DisplacementsAreTrue SuitesTellTheTruth StartsAsAsked
  WorkersAreNotMistaken DevicesAreTrue
PROPERTIES ProgressIsKept KeepsPromise
CHECK_DEADLOCK FALSE
