\* One vehicle returns to partition 0 one edge behind the border.
CONSTANTS
  Part <- MCPart
  EdgeParts <- MCEdgeParts
  Route <- MCReturn
  Depart <- MCReturnDepart
  JamUntil <- MCReturnJam
SPECIFICATION FairSpec
INVARIANT
  NoneLost
