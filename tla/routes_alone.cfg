\* The timer loop is disabled; one request after the other.
SPECIFICATION RoutesSpec
CONSTANTS
  t1 = t1
  t2 = t2
  t3 = t3
  t4 = t4
  i1 = i1
  i2 = i2
  a = a
  b = b
  NoInstance = NoInstance
  NoId = NoId
  NoServer = NoServer
  NoWorker = NoWorker
  Worker = timer_service
  Workers = {timer_service}
  Nodes = {a, b}
  Ids = {t1, t2, t3, t4}
  Keys = {t1}
  Instances = {i1, i2}
  Servers = {}
  Procs = {r1}
  Flow <- ChainFlow
  First = {a}
  Timers = {a, b}
  Stuck = {}
  Retries = 2
  HashText <- OneKey
  BatchLimit = 20
  MaxFaults = 1
  Parked <- NoneParked
  Requests = {r1}
  MaxRequests = 4
SYMMETRY Symmetric
INVARIANTS
  CancelledHasNoOpenTask
  WaitingTokenHasTask
CHECK_DEADLOCK FALSE
