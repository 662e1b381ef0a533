SPECIFICATION FairSpec
CONSTANTS
  Signer = {1, 2, 3}
  Quorum = 2
  Request = {1}
  Steps <- LastSteps
  Cap = 2
  Budgets <- Mixed
INVARIANTS TypeOK AnswersAreRecorded OneCallPerCard StripIsTrue PortFollows
CHECK_DEADLOCK FALSE
PROPERTIES StripNeverRewinds FeedSettles StripCatchesUp LossIsShown
