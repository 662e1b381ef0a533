------------------------------- MODULE Group -------------------------------
\* The FROST group the server runs for: the signers of rime-server.toml and
\* the threshold they sign with (2 of 3 in the deployment).
EXTENDS Naturals, FiniteSets

CONSTANTS
  Signer,  \* the signers of the configuration
  Quorum   \* const QUORUM, the gather's LIMIT 2 and the group's min_signers

ASSUME GroupAssumption ==
  /\ IsFiniteSet(Signer)
  /\ Quorum \in Nat \ {0}
  /\ Cardinality(Signer) >= Quorum
=============================================================================
