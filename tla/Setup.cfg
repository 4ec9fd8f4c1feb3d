\* Documents, files, routes, start-up and messages, one of them in
\* each behaviour.
CONSTANTS
  Doc <- MCDoc
  Node <- MCNode
  Line <- MCLine
  EndTimes <- MCEndTimes
  Actual <- MCActual
  Neighbors <- MCNeighbors
  MaxRuns = 3
  Undashed <- MCUndashed
  Dashed <- MCDashed
  Letters <- MCLetters
  Assigned <- MCAssigned
  NumParts = 2
  Edges <- MCEdges
  Route <- MCRoute
  Id <- MCId
  LaneIndex <- MCLaneIndex
  Real <- MCReal
  Found <- MCFound
SPECIFICATION MCSpec
INVARIANTS
  WellLinked
  RoundTrip
  CutShortNoticed
  NothingLeftOver
  FewPiecesFound
  CutTogether
  LineUnderstood
  Understood
PROPERTY
  ImplementsForest
