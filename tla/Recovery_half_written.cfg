\* Two rime-repair processes write the same config; none is killed.
SPECIFICATION Spec
CONSTANTS
  Signer = {1, 2, 3}
  Quorum = 2
  Job = {j1, j2}
  Overlap = TRUE
  Faults = FALSE
SYMMETRY Jobs
INVARIANT NoHalfWrittenConfig
