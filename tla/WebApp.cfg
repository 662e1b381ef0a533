SPECIFICATION FairSpec
CONSTANTS
  Signer = {1, 2, 3}
  Quorum = 2
  Request = {1}
  Steps <- LastSteps
  Cap = 2
  Budgets <- Mixed
INVARIANTS TypeOK OfferedIsAllowed
CHECK_DEADLOCK FALSE
PROPERTIES ScreenCatchesUp
