SPECIFICATION FairSpec
CONSTANTS
  Signer = {1, 2, 3}
  Quorum = 2
  Request = {1}
  Steps <- LastSteps
  Cap = 2
  Budgets <- Device
CHECK_DEADLOCK FALSE
PROPERTY RecoveryGivesQueueBack
