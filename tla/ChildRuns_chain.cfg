SPECIFICATION FairSpec
CONSTANTS
  s1 = s1
  s2 = s2
  Starters <- MCStarters
  Depth = 3
  MaxControls = 3
INVARIANTS
  TypeOK
  AnsweredOnce
  StartsAgree
PROPERTIES
  EndedUnlessStale
  AnswerWakesParent
CHECK_DEADLOCK FALSE
