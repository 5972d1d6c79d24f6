SPECIFICATION PartsSpec
CONSTANTS
  part_names = {"lifecycle", "timer", "tree", "pool", "netints", "log", "results"}
  None = None
  l1 = l1
  Libraries = {l1, l2, l3}
  MODULE_ARRAY_SIZE = 4
  Wrap = 8
  MaxPassed = 12
  Values = {1, 2, 3, 4, 5, 6, 7}
  head = head
  Threads = {t1, t2}
  Pools = {p1, p2}
  pool_size = 2
  MaxNetints = 2
  Networks <- MCNetworks
  FullLength = 2
  Indexes = {0, 1, 2, 3}
  MaxRoom = 3
  RawParams <- LogParams
  Priorities = {3, 7}
  Lengths = {1, 600}
  v1 = v1
  v2 = v2
  Ts = {x1, x2}
  Us = {x3}
  ResultValues = {v1, v2}
  Converted <- ConvertedValue
  Codes = {"Ok", "Sys"}
  MovedFrom = "moved"
SYMMETRY LibrarySymmetry
INVARIANTS
  CountsMatchClaims RunsWhileClaimed
  TimerTellsTime
  IsRedBlack
  EveryElementAccounted
  AnswersAreOfOneSystem
  HandlerSeesItsMessage
  ValueOrError
PROPERTIES
  LoggingCoversInit
  DoesAsAsked
