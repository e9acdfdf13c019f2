SPECIFICATION FairSpec
CONSTANTS
  w1 = w1
  w2 = w2
  Writers <- MCWriters
  Kinds <- MCKinds
  PageLimit = 1
  BatchLimit = 2
  MaxFollowers = 1
  MaxEvents = 3
  MaxDrops = 1
  MaxReloads = 2
INVARIANTS
  TypeOK
  FollowedOnce
  BoardExact
PROPERTIES
  CatchesUp
CHECK_DEADLOCK FALSE
