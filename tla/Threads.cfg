CONSTANTS
  TotalSteps = 4
  SaveInterval = 2
  QueueMax = 1
  MaxUpsets = 2
  MaxSteps = 2
  MaxMishaps = 1
  MaxOpened = 3
  Inputs <- ThreeFiles
  Stem <- FileStem
  Flat <- FileFlat
  MaxTrouble = 2
  MaxEdits = 3
  MaxVisits = 2
  Site = {1, 2}
  Element = {"Na", "S"}
  Cutoff <- PairCutoff
  MaxCutoff = 3
  Skin = 2
  Length = {4, 5}
  Coordinate <- LineOfSites
  NoCache = NoCache
  Proc = {1, 2, 3, 4}
  NoProc = 0
  MaxFaults = 1
SPECIFICATION FairThreadsSpec
INVARIANTS
  ThreadsTypeOK
  NothingDropped CompletedIsComplete ManifestCountsFrames
  ExitTellsTheTruth
  LastWordIsTrue CommandIsTheForm
  SummaryIsTrue PairsAreFresh
  SingleScheduler FailedStartIsGone
PROPERTIES
  ThreadsEnd RunsEnd ScreenSettles
  AnswersAreAlive StopStops
CHECK_DEADLOCK FALSE
