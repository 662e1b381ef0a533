--------------------------- MODULE SignerRegistry ---------------------------
(***************************************************************************)
(* The `signers` table of rime-server: who may act (signer_by_token), the  *)
(* mark_lost handler, and the return of a repaired signer.  Every handler  *)
(* reads and writes the table under the one database lock, so each action  *)
(* is a whole lock section.  The payment and the recovery modules extend   *)
(* this one; on its own it is what recovery promises about the table.      *)
(***************************************************************************)
EXTENDS Group

VARIABLE signers  \* signers.status per row

SignerStatus == {"active", "lost"}

RegistryTypeOK == signers \in [Signer -> SignerStatus]

RegistryInit == signers = [s \in Signer |-> "active"]

\* signer_by_token finds a row for s: the token is known and s is not lost.
SignerByToken(s) == signers[s] # "lost"

NotLost == {s \in Signer : SignerByToken(s)}

\* Mutant of MarkLost: counts the signers before the loss, not after it.
MarkLostCountsBefore(actor, id) ==
  /\ SignerByToken(actor)
  /\ Cardinality(NotLost) >= Quorum
  /\ signers[id] # "lost"
  /\ signers' = [signers EXCEPT ![id] = "lost"]

\* mark_lost(id) authenticated as actor, past both 409 answers.  Nothing
\* stops actor = id.
MarkLost(actor, id) ==
  /\ SignerByToken(actor)
  /\ Cardinality(NotLost) - 1 >= Quorum
  /\ signers[id] # "lost"
  /\ signers' = [signers EXCEPT ![id] = "lost"]

\* Mutant of Restore: writes the word of the audit event.
RestoreWritesEvent(id) == signers' = [signers EXCEPT ![id] = "restored"]

\* The last write of a repair task.  The UPDATE does not look at the status.
Restore(id) == signers' = [signers EXCEPT ![id] = "active"]

RegistryNext ==
  \/ \E actor, id \in Signer : MarkLost(actor, id)
  \/ \E id \in Signer : signers[id] = "lost" /\ Restore(id)

RegistrySpec == RegistryInit /\ [][RegistryNext]_signers

-----------------------------------------------------------------------------
\* THREAT_MODEL.md: mark-lost "refuse[s] to drop the group below the signing
\* threshold".  Whatever sequence of losses and repairs is driven through the
\* API, enough signers stay able to authenticate to approve a payment.
ThresholdKept == Cardinality(NotLost) >= Quorum
=============================================================================
