SPECIFICATION Spec
CONSTANTS
  Completion = 2
  Questions <- MCQuestions
  FollowUps <- MCFollowUps
  QuestionTexts <- MCQuestionTexts
  MaxQuestions = 2
  MaxChecks = 2
  MaxAttempts = 2
  MaxDetours = 2
  MaxAnswers = 4
INVARIANTS
  TypeOK
  AnswersAreTheHumans
  NothingSkipped
PROPERTIES
  ItemsReachTheSpec
  DetourFirst
  LostOnlyToStaleItems
CHECK_DEADLOCK FALSE
