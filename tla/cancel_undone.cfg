\* An advance and a cancel of the same instance, no timers.
SPECIFICATION RoutesFairSpec
CONSTANTS
  t1 = t1
  t2 = t2
  t3 = t3
  t4 = t4
  i1 = i1
  i2 = i2
  a = a
  b = b
  NoInstance = NoInstance
  NoId = NoId
  NoServer = NoServer
  NoWorker = NoWorker
  Worker = timer_service
  Workers = {timer_service}
  Nodes = {a, b}
  Ids = {t1, t2}
  Keys = {t1, t2}
  Instances = {i1}
  Servers = {}
  Procs = {r1, r2}
  Flow <- EndFlow
  First = {a}
  Timers = {}
  Stuck = {}
  Retries = 2
  HashText <- OwnKey
  BatchLimit = 20
  MaxFaults = 0
  Parked <- ChainParked
  Requests = {r1, r2}
  MaxRequests = 2
PROPERTIES
  CancelledStaysCancelled
CHECK_DEADLOCK FALSE
