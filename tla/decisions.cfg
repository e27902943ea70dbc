\* Every small diagram, one instance after the other.
SPECIFICATION Spec
CONSTANTS
  s = s
  g = g
  h = h
  w = w
  e = e
  k = k
  l = l
  x = x
  y = y
  Names = {s, g, h, w, e}
  Keys = {k, l}
  Values = {x, y}
  Unconditional = Unconditional
  Default = Default
  Malformed = Malformed
  NoDefinition = NoDefinition
  NoNode = NoNode
  NoTask = NoTask
  Unset = Unset
  U64Max = 100000
  F64Exact = 90000
  MaxDelay = 87000
  AsF64 <- NearestEight
  Candidates <- AllCandidates
INVARIANTS
  DecisionsTypeOK
  EnteredByDecision
  AnsweredDecision
  AsksItsOwnGateway
  MarkerFits
  TaskDueAsDrawn
PROPERTIES
  FollowsDiagram
