SPECIFICATION FairSpec
CONSTANTS
  LayerKeys <- MCLayerKeys
  Issues <- MCIssues
  Items <- MCItems
  FollowUpIds <- MCFollowUpIds
  MaxRetries = 1
  MaxChunks = 1
  MaxCrashes = 1
INVARIANTS
  TypeOK
  OwnText
  NothingLeftRunning
  CoverageIsExact
PROPERTIES
  ChildEnds
CHECK_DEADLOCK FALSE
