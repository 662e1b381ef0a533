------------------------ MODULE SignerRegistry_proofs ------------------------
(***************************************************************************)
(* The signers table keeps the signing threshold, for every group and      *)
(* threshold.  The two lemmas are cited wherever the table is composed.    *)
(***************************************************************************)
EXTENDS SignerRegistry, FiniteSetTheorems, TLAPS

\* mark_lost counts before it writes: the signers left are still a threshold.
LEMMA MarkLostKeepsThreshold ==
  ASSUME RegistryTypeOK, NEW actor \in Signer, NEW id \in Signer, MarkLost(actor, id)
  PROVE  RegistryTypeOK' /\ ThresholdKept'
<1>1. RegistryTypeOK'
  BY DEF RegistryTypeOK, MarkLost, SignerStatus
<1>2. NotLost' = NotLost \ {id} /\ id \in NotLost
  BY DEF NotLost, SignerByToken, MarkLost, RegistryTypeOK, SignerStatus
<1>3. IsFiniteSet(NotLost)
  BY FS_Subset, GroupAssumption DEF GroupAssumption, NotLost
<1>4. Cardinality(NotLost') = Cardinality(NotLost) - 1
  BY <1>2, <1>3, FS_RemoveElement
<1>5. QED
  BY <1>1, <1>4 DEF MarkLost, ThresholdKept

\* A restored signer can only add to those who may act.
LEMMA RestoreKeepsThreshold ==
  ASSUME RegistryTypeOK, ThresholdKept, NEW id \in Signer, Restore(id)
  PROVE  RegistryTypeOK' /\ ThresholdKept'
<1>1. RegistryTypeOK'
  BY DEF RegistryTypeOK, Restore, SignerStatus
<1>2. NotLost \subseteq NotLost'
  BY DEF NotLost, SignerByToken, Restore, RegistryTypeOK
<1>3. IsFiniteSet(NotLost') /\ IsFiniteSet(NotLost)
  BY FS_Subset, GroupAssumption DEF GroupAssumption, NotLost
<1>4. Cardinality(NotLost) <= Cardinality(NotLost')
  BY <1>2, <1>3, FS_Subset
<1>5. Cardinality(NotLost) \in Nat /\ Cardinality(NotLost') \in Nat
  BY <1>3, FS_CardinalityType
<1>6. QED
  BY <1>1, <1>4, <1>5, GroupAssumption DEF GroupAssumption, ThresholdKept

\* At the start every signer is active, and there are enough of them.
LEMMA InitKeepsThreshold ==
  ASSUME RegistryInit
  PROVE  RegistryTypeOK /\ ThresholdKept
<1>1. NotLost = Signer
  BY DEF RegistryInit, NotLost, SignerByToken
<1>2. QED
  BY <1>1, GroupAssumption
  DEF GroupAssumption, RegistryInit, RegistryTypeOK, SignerStatus, ThresholdKept

\* The table, driven by any sequence of losses and repairs, has its type and
\* keeps at least a threshold of signers able to authenticate.
THEOREM RegistryThreshold == RegistrySpec => [](RegistryTypeOK /\ ThresholdKept)
<1>1. RegistryInit => RegistryTypeOK /\ ThresholdKept
  BY InitKeepsThreshold
<1>2. RegistryTypeOK /\ ThresholdKept /\ [RegistryNext]_signers
        => (RegistryTypeOK /\ ThresholdKept)'
  <2> SUFFICES ASSUME RegistryTypeOK, ThresholdKept, [RegistryNext]_signers
               PROVE  RegistryTypeOK' /\ ThresholdKept'
    OBVIOUS
  <2>1. CASE \E actor, id \in Signer : MarkLost(actor, id)
    BY <2>1, MarkLostKeepsThreshold
  <2>2. CASE \E id \in Signer : signers[id] = "lost" /\ Restore(id)
    BY <2>2, RestoreKeepsThreshold
  <2>3. CASE UNCHANGED signers
    BY <2>3 DEF RegistryTypeOK, ThresholdKept, NotLost, SignerByToken
  <2>4. QED
    BY <2>1, <2>2, <2>3 DEF RegistryNext
<1>3. QED
  BY <1>1, <1>2, PTL DEF RegistrySpec
=============================================================================
