\* One recovery at a time, two in all; the refresh of the first is killed.
SPECIFICATION Spec
CONSTANTS
  Signer = {1, 2, 3}
  Quorum = 2
  Job = {j1, j2}
  Overlap = FALSE
  Faults = TRUE
SYMMETRY Jobs
INVARIANT NotFrozen
