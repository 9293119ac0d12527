SPECIFICATION FairSpec
CONSTANTS
  engine1 = engine1
  engine2 = engine2
  direct1 = direct1
  Submissions = {engine1, engine2, direct1}
  Direct = {direct1}
  NoSubmission = NoSubmission
  MaxAttempts = 2
CHECK_DEADLOCK FALSE
INVARIANTS
  TypeOK
  SuccessLanded
  OneAtATime
PROPERTIES
  OutcomeFinal
  SubmissionsEnd
