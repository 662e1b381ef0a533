\* One recovery at a time, two in all; tools may be killed, the server crash.
SPECIFICATION FairSpec
CONSTANTS
  Signer = {1, 2, 3}
  Quorum = 2
  Job = {j1, j2}
  Overlap = FALSE
  Faults = TRUE
INVARIANTS TypeOK SecretOnFile NoHalfWrittenConfig OldSharesAreDead
INVARIANTS RotatedTogether AnyQuorumSigns
PROPERTIES RefreshStartsAgreed RecoveryEnds KeepsRegistry
