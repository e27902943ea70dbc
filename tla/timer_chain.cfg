\* Two servers, one instance whose timers follow each other and share an advisory lock.
SPECIFICATION FairSpec
CONSTANTS
  t1 = t1
  t2 = t2
  t3 = t3
  t4 = t4
  i1 = i1
  i2 = i2
  a = a
  b = b
  NoInstance = NoInstance
  NoId = NoId
  NoServer = NoServer
  NoWorker = NoWorker
  Worker = timer_service
  Workers = {timer_service}
  Nodes = {a, b}
  Ids = {t1, t2}
  Keys = {t1}
  Instances = {i1}
  Servers = {s1, s2}
  Procs = {s1, s2}
  Flow <- ChainFlow
  First = {a}
  Timers = {a, b}
  Stuck = {}
  Retries = 2
  HashText <- SameKey
  BatchLimit = 20
  MaxFaults = 2
  Parked <- ChainParked
INVARIANTS
  TypeOK
  RowsConsistent
  OneAdvancer
  IndInv
  FiredAtMostOnce
  AdvancedMeansMoved
  WaitingTokenHasTask
  RetriesAccounted
PROPERTIES
  SettledRowsStay
  CompletedIsAdvanced
  TimerResolves
  KeepsAlarms
