SPECIFICATION FiguresSpec
CONSTANTS
  u1 = u1
  u2 = u2
  Missing = Missing
  Providers = {"aws", "gcp"}
  Sources <- MCSources
  Connections <- MCConnections
  ObjectKeys <- MCKeys
  Deliveries <- MCDeliveries
  MaxDeliveries = 3
  Groups <- MCGroups
  Tags <- MCTags
  Dimensions <- MCDimensions
  Scopes <- MCScopes
  Queries <- MCQueries
  Views <- MCViews
  FirstDay = 3
  PeriodDays = 3
  RateUnit = 2000
  UsageUnit = 2
  ListLimit = 2
  MaxRows = 2
  PageLimit = 5
  PageSize = 2
  TopMovers = 2
  UnitPriceChangePercent = 20
  UsageWindowDays = 28
  UsageMadThreshold = 3
  NewSpendFloor = 100
  CommitmentCoverageFloor = 50
  LittleUsage = 2
  LittleCost = 60
  CostFloor = 125
INVARIANTS GenerationSucceeds ScanSucceeds
CHECK_DEADLOCK FALSE
