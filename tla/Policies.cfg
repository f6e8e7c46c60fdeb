SPECIFICATION FairSpec
CONSTANTS
  r1 = r1
  r2 = r2
  r3 = r3
  p = p
  Requests = {r1, r2, r3}
  Policies = {p}
  Asked <- SomeAsked
INVARIANTS
  SavedAnswerSurvives
PROPERTIES
  Answered
CHECK_DEADLOCK FALSE
