\* Two requests at once, within one second, no crash; any statement of decide,
\* and the task's last UPDATE, may fail.
SPECIFICATION Spec
CONSTANTS
  Signer = {alice, bob, carol}
  Request = {r1, r2}
  Quorum = 2
  Configured = TRUE
  DbErrors = TRUE
  MaxClock = 0
  MaxCrash = 0
SYMMETRY Symmetric
INVARIANTS SingleFire FundsMoveOnce ThresholdKept
PROPERTIES FinalStays ImplementsLifecycle
