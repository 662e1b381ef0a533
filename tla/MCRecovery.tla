----------------------------- MODULE MCRecovery -----------------------------
\* Constants for the runs of Recovery: jobs are interchangeable, signers are
\* not (the tools go through the configs in order).
EXTENDS Recovery, TLC

Jobs == Permutations(Job)
=============================================================================
