\* One request, three signers, three distinct seconds, one crash.
SPECIFICATION FairSpec
CONSTANTS
  Signer = {alice, bob, carol}
  Request = {r1}
  Quorum = 2
  Configured = TRUE
  DbErrors = FALSE
  MaxClock = 2
  MaxCrash = 1
INVARIANTS TypeOK FundsMoveOnce BroadcastIsPaid NotStranded PendingIsUndecided
PROPERTIES FinalStays ImplementsLifecycle CeremonyEnds
