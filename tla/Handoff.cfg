\* Two partitions; one vehicle crosses, one goes round twice.
CONSTANTS
  Part <- MCPart
  EdgeParts <- MCEdgeParts
  Route <- MCRoute
  Depart <- MCDepart
  JamUntil <- MCJam
SPECIFICATION FairSpec
INVARIANTS
  TypeOK
  ResumesWhereItLeft
  NeverDoubled
  ShadowsEndAtTheBorder
  EndsEmpty
  NoneLost
PROPERTY
  AllArrive
