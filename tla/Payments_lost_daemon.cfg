\* A signer is lost between their approval and the gather.
SPECIFICATION FairSpec
CONSTANTS
  Signer = {alice, bob, carol}
  Request = {r1}
  Quorum = 2
  Configured = TRUE
  DbErrors = FALSE
  MaxClock = 0
  MaxCrash = 0
PROPERTY LostDaemonIsOut
