\* A route that comes back to a partition ten times, among the instances
\* of Setup.
CONSTANTS
  Doc <- MCDoc
  Node <- MCNode
  Line <- MCLine
  EndTimes <- MCEndTimes
  Actual <- MCActual
  Neighbors <- MCNeighbors
  MaxRuns = 3
  Undashed <- MCUndashed
  Dashed <- MCDashed
  Letters <- MCLetters
  Assigned <- MCAssigned
  NumParts = 2
  Edges <- MCEdges
  Route <- MCRoute
  Id <- MCId
  LaneIndex <- MCLaneIndex
  Real <- MCReal
  Found <- MCFound
SPECIFICATION MCSpec
INVARIANT
  PiecesFound
