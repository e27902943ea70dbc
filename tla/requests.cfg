\* Three requests, up to two at a time, on a server that is started twice.
SPECIFICATION Spec
CONSTANTS
  Clients = {c1, c2}
  Emails = {e1}
  UserIds = {u1, u2}
  SessionIds = {s1, s2, s3}
  NoUser = NoUser
  NoSession = NoSession
  NoClient = NoClient
  NoEmail = NoEmail
  MaxStarts = 2
  TimerEnabled = TRUE
  MaxRequests = 3
  Requests = {r1, r2}
  Targets <- Plan
SYMMETRY Symmetric
INVARIANTS
  PipelineTypeOK
  SignedInAsOwn
  AnswersTrue
  NothingBeforeCheckIn
  DispatchExact
  TablesReady
PROPERTIES
  KeepsMembership
CHECK_DEADLOCK FALSE
