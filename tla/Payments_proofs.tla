--------------------------- MODULE Payments_proofs ---------------------------
(***************************************************************************)
(* What Payments satisfies for every set of signers and requests, every    *)
(* threshold and every bound.  TypeOK is inductive as it stands; the       *)
(* safety properties follow from IInv, which ties the status of a request  *)
(* to the phase of its ceremony task and to the network's count.           *)
(***************************************************************************)
EXTENDS Payments, SignerRegistry_proofs

\* The phase of a task fixes the status of its request and what moved so far.
PhaseFits(r, s) ==
  /\ ceremony[r][s] # "none" => requests[r] \in {"quorum", "signing"}
  /\ ceremony[r][s] = "spawned" => requests[r] = "quorum"
  /\ ceremony[r][s] \in {"running", "sending", "ok", "orphan"} =>
       requests[r] = "signing" /\ Cardinality(approvers[r]) = Quorum
  /\ ceremony[r][s] \in {"spawned", "running", "sending", "orphan"} => moved[r] = 0
  /\ ceremony[r][s] = "ok" => moved[r] = 1
  /\ ceremony[r][s] = "orphan" => crashes # 0

\* Before its quorum a request has no task, no quorum event and no payment; a
\* row that does not exist has no decisions.
Idle(r) ==
  /\ requests[r] \in {"absent", "pending", "rejected"} =>
       /\ quorumLog[r] = 0
       /\ moved[r] = 0
       /\ \A s \in Signer : ceremony[r][s] = "none"
  /\ requests[r] = "absent" => \A s \in Signer : approvals[r][s] = "none"

\* The checked properties, for one request.
FiresOnce(r) ==
  /\ quorumLog[r] <= 1
  /\ \A s, t \in Signer : ceremony[r][s] # "none" /\ ceremony[r][t] # "none" => s = t

PaidOnce(r) ==
  /\ moved[r] <= 1
  /\ moved[r] = 1 => /\ requests[r] \in {"signing", "broadcast", "failed"}
                     /\ Cardinality(approvers[r]) = Quorum
  /\ requests[r] = "broadcast" => moved[r] = 1

Served(r) ==
  crashes = 0 /\ ~DbErrors /\ Configured /\ requests[r] \in {"quorum", "signing"} =>
    \E s \in Signer : ceremony[r][s] \in {"spawned", "running", "sending", "ok", "err"}

Undecided(r) ==
  crashes = 0 /\ ~DbErrors /\ requests[r] = "pending" =>
    /\ Cardinality(Approved(r)) < Quorum
    /\ \A s \in Signer : approvals[r][s] # "reject"

RowInv(r) ==
  /\ Idle(r)
  /\ \A s \in Signer : PhaseFits(r, s)
  /\ FiresOnce(r)
  /\ PaidOnce(r)
  /\ Served(r)
  /\ Undecided(r)

IInv == TypeOK /\ ThresholdKept /\ \A r \in Request : RowInv(r)

-----------------------------------------------------------------------------
\* Every variable keeps its type.
LEMMA TypeStep == TypeOK /\ [Next]_vars => TypeOK'
<1> SUFFICES ASSUME TypeOK, [Next]_vars PROVE TypeOK'
  OBVIOUS
<1>1. ASSUME NEW r \in Request, NEW s \in Signer, CreateRequest(r, s)
      PROVE  TypeOK'
  BY <1>1 DEF TypeOK, CreateRequest, RegistryTypeOK, Status
<1>2. ASSUME NEW r \in Request, NEW s \in Signer, DecideApprove(r, s)
      PROVE  TypeOK'
  <2>1. approvals' \in [Request -> [Signer -> Decision]]
    BY <1>2 DEF TypeOK, DecideApprove, RecordDecision, Decision
  <2>2. created_at' \in [Request -> [Signer -> Nat]]
    BY <1>2 DEF TypeOK, DecideApprove, RecordDecision
  <2>3. requests' \in [Request -> Status]
    BY <1>2 DEF TypeOK, DecideApprove, Status
  <2>4. quorumLog' \in [Request -> Nat]
    BY <1>2 DEF TypeOK, DecideApprove
  <2>5. ceremony' \in [Request -> [Signer -> Phase]]
    <3>1. CASE ReachesQuorum(r, s)
      <4>1. PICK phase \in Phase : ceremony' = [ceremony EXCEPT ![r][s] = phase]
        BY <1>2, <3>1 DEF TypeOK, DecideApprove, SpawnCeremony, Phase
      <4>2. QED
        BY <4>1 DEF TypeOK
    <3>2. CASE ~ReachesQuorum(r, s)
      BY <1>2, <3>2 DEF TypeOK, DecideApprove
    <3>3. QED
      BY <3>1, <3>2
  <2>6. QED
    BY <1>2, <2>1, <2>2, <2>3, <2>4, <2>5 DEF TypeOK, DecideApprove, RegistryTypeOK
<1>3. ASSUME NEW r \in Request, NEW s \in Signer, DecideReject(r, s)
      PROVE  TypeOK'
  <2>1. approvals' \in [Request -> [Signer -> Decision]]
    BY <1>3 DEF TypeOK, DecideReject, RecordDecision, Decision
  <2>2. created_at' \in [Request -> [Signer -> Nat]]
    BY <1>3 DEF TypeOK, DecideReject, RecordDecision
  <2>3. requests' \in [Request -> Status]
    BY <1>3 DEF TypeOK, DecideReject, Status
  <2>4. QED
    BY <1>3, <2>1, <2>2, <2>3 DEF TypeOK, DecideReject, RegistryTypeOK
<1>4. ASSUME NEW r \in Request, NEW s \in Signer, Gather(r, s)
      PROVE  TypeOK'
  <2>1. PICK c \in FirstApprovers(r) : approvers' = [approvers EXCEPT ![r] = c]
    BY <1>4 DEF Gather
  <2>2. approvers' \in [Request -> SUBSET Signer]
    BY <2>1 DEF TypeOK, FirstApprovers, Approved
  <2>3. requests' \in [Request -> Status]
    BY <1>4 DEF TypeOK, Gather, Status
  <2>4. ceremony' \in [Request -> [Signer -> Phase]]
    BY <1>4 DEF TypeOK, Gather, Phase
  <2>5. QED
    BY <1>4, <2>2, <2>3, <2>4 DEF TypeOK, Gather, RegistryTypeOK
<1>5. ASSUME NEW r \in Request, NEW s \in Signer, GatherFails(r, s)
      PROVE  TypeOK'
  BY <1>5 DEF TypeOK, GatherFails, Phase, rows, RegistryTypeOK
<1>6. ASSUME NEW r \in Request, NEW s \in Signer, PipelineFails(r, s)
      PROVE  TypeOK'
  BY <1>6 DEF TypeOK, PipelineFails, Phase, rows, RegistryTypeOK
<1>7. ASSUME NEW r \in Request, NEW s \in Signer, StartSend(r, s)
      PROVE  TypeOK'
  BY <1>7 DEF TypeOK, StartSend, Phase, rows, RegistryTypeOK
<1>8. ASSUME NEW r \in Request, NEW s \in Signer, SendAccepted(r, s)
      PROVE  TypeOK'
  <2>1. ceremony' \in [Request -> [Signer -> Phase]]
    BY <1>8 DEF TypeOK, SendAccepted, Phase
  <2>2. QED
    BY <1>8, <2>1 DEF TypeOK, SendAccepted, rows, RegistryTypeOK
<1>9. ASSUME NEW r \in Request, NEW s \in Signer, SendRefused(r, s)
      PROVE  TypeOK'
  <2>1. ceremony' \in [Request -> [Signer -> Phase]]
    BY <1>9 DEF TypeOK, SendRefused, Phase
  <2>2. QED
    BY <1>9, <2>1 DEF TypeOK, SendRefused, rows, RegistryTypeOK
<1>10. ASSUME NEW r \in Request, NEW s \in Signer, Settle(r, s)
       PROVE  TypeOK'
  <2>1. requests' \in [Request -> Status]
    BY <1>10 DEF TypeOK, Settle, Status
  <2>2. ceremony' \in [Request -> [Signer -> Phase]]
    BY <1>10 DEF TypeOK, Settle, Phase
  <2>3. QED
    BY <1>10, <2>1, <2>2 DEF TypeOK, Settle, RegistryTypeOK
<1>11. ASSUME Die
       PROVE  /\ crashes' \in Nat
              /\ up' \in BOOLEAN
              /\ ceremony' \in [Request -> [Signer -> Phase]]
  <2>1. crashes \in Nat /\ crashes' = crashes + 1
    BY <1>11 DEF TypeOK, Die
  <2>2. crashes' \in Nat
    BY <2>1
  <2>3. up' \in BOOLEAN
    BY <1>11 DEF Die
  <2>4. ceremony' \in [Request -> [Signer -> Phase]]
    BY <1>11 DEF Die, Phase
  <2>5. QED
    BY <2>2, <2>3, <2>4
<1>12. ASSUME NEW r \in Request, NEW s \in Signer, NEW d \in {"approve", "reject"},
              CrashInDecide(r, s, d)
       PROVE  TypeOK'
  <2>1. approvals' \in [Request -> [Signer -> Decision]]
    BY <1>12 DEF TypeOK, CrashInDecide, RecordDecision, Decision
  <2>2. created_at' \in [Request -> [Signer -> Nat]]
    BY <1>12 DEF TypeOK, CrashInDecide, RecordDecision
  <2>3. QED
    BY <1>11, <1>12, <2>1, <2>2 DEF TypeOK, CrashInDecide, rows, RegistryTypeOK
<1>13. CASE Crash
  BY <1>11, <1>13 DEF TypeOK, Crash, rows, RegistryTypeOK
<1>14. ASSUME NEW s \in Signer, NEW t \in Signer, LoseSigner(s, t)
       PROVE  TypeOK'
  BY <1>14, MarkLostKeepsThreshold DEF TypeOK, LoseSigner, rows
<1>15. ASSUME NEW s \in Signer, RestoreSigner(s)
       PROVE  TypeOK'
  BY <1>15 DEF TypeOK, RestoreSigner, Restore, rows, RegistryTypeOK, SignerStatus
<1>16. CASE Tick
  BY <1>16 DEF TypeOK, Tick, rows, RegistryTypeOK
<1>17. CASE Boot
  BY <1>17 DEF TypeOK, Boot, rows, RegistryTypeOK
<1>18. CASE UNCHANGED vars
  BY <1>18 DEF TypeOK, vars, RegistryTypeOK
<1>19. ASSUME NEW r \in Request, NEW s \in Signer, NEW d \in {"approve", "reject"},
              DecideErrs(r, s, d)
       PROVE  TypeOK'
  <2>1. approvals' \in [Request -> [Signer -> Decision]]
    BY <1>19 DEF TypeOK, DecideErrs, RecordDecision, Decision
  <2>2. created_at' \in [Request -> [Signer -> Nat]]
    BY <1>19 DEF TypeOK, DecideErrs, RecordDecision
  <2>3. requests' \in [Request -> Status]
    BY <1>19 DEF TypeOK, DecideErrs, Status
  <2>4. quorumLog' \in [Request -> Nat]
    BY <1>19 DEF TypeOK, DecideErrs
  <2>5. QED
    BY <1>19, <2>1, <2>2, <2>3, <2>4 DEF TypeOK, DecideErrs, RegistryTypeOK
<1>20. ASSUME NEW r \in Request, NEW s \in Signer, SettleUnwritten(r, s)
       PROVE  TypeOK'
  BY <1>20 DEF TypeOK, SettleUnwritten, Phase, rows, RegistryTypeOK
<1>21. QED
  BY <1>1, <1>2, <1>3, <1>4, <1>5, <1>6, <1>7, <1>8, <1>9, <1>10, <1>12, <1>13,
     <1>14, <1>15, <1>16, <1>17, <1>18, <1>19, <1>20 DEF Next, Ceremony

\* The model's variables have their types in every behaviour.
THEOREM TypeCorrect == Spec => []TypeOK
<1>1. Init => TypeOK
  BY DEF Init, TypeOK, RegistryInit, RegistryTypeOK, SignerStatus, Status, Decision, Phase
<1>2. QED
  BY <1>1, TypeStep, PTL DEF Spec

-----------------------------------------------------------------------------
\* Everything RowInv(r) reads of request r is as it was.
SameRow(r) ==
  /\ requests'[r] = requests[r]
  /\ approvals'[r] = approvals[r]
  /\ ceremony'[r] = ceremony[r]
  /\ approvers'[r] = approvers[r]
  /\ quorumLog'[r] = quorumLog[r]
  /\ moved'[r] = moved[r]

\* A step that is not about request r keeps its invariant.
LEMMA SameRowKeeps ==
  ASSUME NEW r \in Request, RowInv(r), SameRow(r), crashes' = crashes
  PROVE  RowInv(r)'
<1>1. Approved(r)' = Approved(r)
  BY DEF Approved, SameRow
<1>2. Idle(r)' /\ FiresOnce(r)' /\ PaidOnce(r)' /\ Served(r)'
  BY DEF RowInv, SameRow, Idle, FiresOnce, PaidOnce, Served
<1>3. \A s \in Signer : PhaseFits(r, s)'
  BY DEF RowInv, SameRow, PhaseFits
<1>4. Undecided(r)'
  BY <1>1 DEF RowInv, SameRow, Undecided
<1>5. QED
  BY <1>2, <1>3, <1>4 DEF RowInv

\* The count of approvals is a number.
LEMMA ApprovedCount ==
  ASSUME NEW r \in Request, NEW s \in Signer
  PROVE  /\ IsFiniteSet(Approved(r) \cup {s})
         /\ Cardinality(Approved(r)) \in Nat
         /\ Cardinality(Approved(r) \cup {s}) \in Nat
<1>1. IsFiniteSet(Approved(r)) /\ IsFiniteSet(Approved(r) \cup {s})
  BY FS_Subset, GroupAssumption DEF GroupAssumption, Approved
<1>2. QED
  BY <1>1, FS_CardinalityType

\* Creating a request: the row is pending and nothing is decided.
LEMMA CreateRow ==
  ASSUME TypeOK, NEW r \in Request, NEW s \in Signer, RowInv(r), CreateRequest(r, s)
  PROVE  RowInv(r)'
<1>1. requests[r] = "absent" /\ requests'[r] = "pending"
  BY DEF CreateRequest, TypeOK
<1>2. Approved(r)' = {} /\ \A t \in Signer : approvals'[r][t] = "none"
  BY <1>1 DEF CreateRequest, RowInv, Idle, Approved
<1>3. Cardinality(Approved(r)') < Quorum
  BY <1>2, FS_EmptySet, GroupAssumption DEF GroupAssumption
<1>4. Undecided(r)'
  BY <1>2, <1>3 DEF Undecided
<1>5. Idle(r)' /\ FiresOnce(r)' /\ PaidOnce(r)' /\ Served(r)'
  BY <1>1 DEF CreateRequest, RowInv, Idle, FiresOnce, PaidOnce, Served
<1>6. \A t \in Signer : PhaseFits(r, t)'
  BY <1>1 DEF CreateRequest, RowInv, Idle, PhaseFits
<1>7. QED
  BY <1>4, <1>5, <1>6 DEF RowInv

\* decide(approve): either this decision makes the transition and its task is
\* the only one, or the request stays what it was, short of its quorum.
LEMMA ApproveRow ==
  ASSUME TypeOK, NEW r \in Request, NEW s \in Signer, RowInv(r), DecideApprove(r, s)
  PROVE  RowInv(r)'
<1>1. /\ approvals' = [approvals EXCEPT ![r][s] = "approve"]
      /\ requests[r] # "absent"
      /\ UNCHANGED <<crashes, approvers, moved>>
  BY DEF DecideApprove, RecordDecision
<1>2. Approved(r)' = Approved(r) \cup {s}
  BY <1>1 DEF TypeOK, Approved
<1>3. \A t \in Signer : approvals'[r][t] = "reject" => approvals[r][t] = "reject"
  BY <1>1 DEF TypeOK
<1>4. CASE ReachesQuorum(r, s)
  <2>1. /\ requests[r] = "pending" /\ requests'[r] = "quorum"
        /\ quorumLog[r] = 0 /\ quorumLog'[r] = 1
        /\ moved'[r] = 0
        /\ \A t \in Signer : ceremony[r][t] = "none"
    BY <1>1, <1>4 DEF TypeOK, DecideApprove, ReachesQuorum, RowInv, Idle
  <2>2. \A t \in Signer : t # s => ceremony'[r][t] = "none"
    BY <1>4, <2>1 DEF TypeOK, DecideApprove, SpawnCeremony
  <2>3. ceremony'[r][s] = IF Configured THEN "spawned" ELSE "none"
    BY <1>4, <2>1 DEF TypeOK, DecideApprove, SpawnCeremony
  <2>4. Idle(r)' /\ PaidOnce(r)' /\ Undecided(r)'
    BY <2>1 DEF Idle, PaidOnce, Undecided
  <2>5. FiresOnce(r)' /\ Served(r)'
    BY <2>1, <2>2, <2>3, PaymentsAssumption DEF FiresOnce, Served, PaymentsAssumption
  <2>6. \A t \in Signer : PhaseFits(r, t)'
    BY <2>1, <2>2, <2>3 DEF PhaseFits
  <2>7. QED
    BY <2>4, <2>5, <2>6 DEF RowInv
<1>5. CASE ~ReachesQuorum(r, s)
  <2>1. UNCHANGED <<requests, quorumLog, ceremony>>
    BY <1>5 DEF DecideApprove
  <2>2. Idle(r)' /\ FiresOnce(r)' /\ PaidOnce(r)' /\ Served(r)'
    BY <1>1, <2>1 DEF RowInv, Idle, FiresOnce, PaidOnce, Served
  <2>3. \A t \in Signer : PhaseFits(r, t)'
    BY <1>1, <2>1 DEF RowInv, PhaseFits
  <2>4. requests[r] = "pending" => Cardinality(Approved(r)') < Quorum
    BY <1>2, <1>5, ApprovedCount, GroupAssumption DEF ReachesQuorum, GroupAssumption
  <2>5. Undecided(r)'
    BY <1>1, <1>3, <2>1, <2>4 DEF RowInv, Undecided
  <2>6. QED
    BY <2>2, <2>3, <2>5 DEF RowInv
<1>6. QED
  BY <1>4, <1>5

\* decide(reject): a pending request ends here; any other keeps its status.
LEMMA RejectRow ==
  ASSUME TypeOK, NEW r \in Request, NEW s \in Signer, RowInv(r), DecideReject(r, s)
  PROVE  RowInv(r)'
<1>1. /\ requests[r] # "absent"
      /\ requests'[r] = IF requests[r] = "pending" THEN "rejected" ELSE requests[r]
      /\ UNCHANGED <<crashes, ceremony, approvers, quorumLog, moved>>
  BY DEF TypeOK, DecideReject, RecordDecision
<1>2. Idle(r)' /\ FiresOnce(r)' /\ PaidOnce(r)' /\ Served(r)' /\ Undecided(r)'
  BY <1>1 DEF RowInv, Idle, FiresOnce, PaidOnce, Served, Undecided
<1>3. \A t \in Signer : PhaseFits(r, t)'
  BY <1>1 DEF RowInv, Idle, PhaseFits
<1>4. QED
  BY <1>2, <1>3 DEF RowInv

\* A step of one task: only its phase, and perhaps the payment count, changes.
\* No other task of the request exists, so the new phase decides everything.
LEMMA PhaseStep ==
  ASSUME TypeOK, NEW r \in Request, NEW s \in Signer, RowInv(r),
         ceremony[r][s] # "none",
         NEW phase \in Phase, ceremony' = [ceremony EXCEPT ![r][s] = phase],
         UNCHANGED <<crashes, requests, approvals, approvers, quorumLog>>,
         moved'[r] \in {0, 1},
         moved'[r] = 1 => requests[r] = "signing" /\ Cardinality(approvers[r]) = Quorum,
         PhaseFits(r, s)',
         phase = "none" \/ phase = "orphan" => crashes # 0
  PROVE  RowInv(r)'
<1>1. /\ requests[r] \in {"quorum", "signing"}
      /\ ceremony'[r][s] = phase
      /\ \A t \in Signer : t # s => ceremony[r][t] = "none" /\ ceremony'[r][t] = "none"
  BY DEF TypeOK, RowInv, PhaseFits, FiresOnce
<1>2. Approved(r)' = Approved(r)
  BY DEF Approved
<1>3. Idle(r)' /\ PaidOnce(r)' /\ Undecided(r)'
  BY <1>1, <1>2 DEF RowInv, Idle, PaidOnce, Undecided
<1>4. FiresOnce(r)'
  BY <1>1 DEF RowInv, FiresOnce
<1>5. Served(r)'
  BY <1>1 DEF Served, Phase
<1>6. \A t \in Signer : PhaseFits(r, t)'
  BY <1>1 DEF PhaseFits
<1>7. QED
  BY <1>3, <1>4, <1>5, <1>6 DEF RowInv

\* The gather: a task that goes on holds a full quorum of approvers.
LEMMA GatherRow ==
  ASSUME TypeOK, NEW r \in Request, NEW s \in Signer, RowInv(r), Gather(r, s)
  PROVE  RowInv(r)'
<1>1. PICK c \in FirstApprovers(r) : approvers' = [approvers EXCEPT ![r] = c]
  BY DEF Gather
<1>2. c \in SUBSET Approved(r) /\ approvers'[r] = c
  BY <1>1 DEF TypeOK, FirstApprovers
<1>3. Cardinality(c) \in Nat /\ Cardinality(c) <= Quorum
  <2>1. IsFiniteSet(Approved(r))
    BY FS_Subset, GroupAssumption DEF GroupAssumption, Approved
  <2>2. Cardinality(c) = Cardinality(Approved(r)) \/ Cardinality(c) = Quorum
    BY <1>1 DEF FirstApprovers
  <2>3. Cardinality(c) = IF Cardinality(Approved(r)) < Quorum
                         THEN Cardinality(Approved(r)) ELSE Quorum
    BY <1>1 DEF FirstApprovers
  <2>4. QED
    BY <2>1, <2>3, FS_CardinalityType, GroupAssumption DEF GroupAssumption
<1>4. /\ ceremony[r][s] = "spawned" /\ requests[r] = "quorum"
      /\ moved[r] = 0 /\ moved'[r] = 0
      /\ requests'[r] = "signing"
      /\ UNCHANGED <<crashes, approvals, quorumLog>>
  BY DEF TypeOK, Gather, RowInv, PhaseFits
<1>5. ceremony'[r][s] = IF Cardinality(c) < Quorum THEN "err" ELSE "running"
  BY <1>2 DEF TypeOK, Gather
<1>6. \A t \in Signer : t # s => ceremony[r][t] = "none" /\ ceremony'[r][t] = "none"
  BY <1>4 DEF TypeOK, Gather, RowInv, FiresOnce
<1>7. PhaseFits(r, s)'
  BY <1>2, <1>3, <1>4, <1>5, GroupAssumption DEF PhaseFits, GroupAssumption
<1>8. \A t \in Signer : PhaseFits(r, t)'
  BY <1>6, <1>7 DEF PhaseFits
<1>9. Idle(r)' /\ PaidOnce(r)' /\ Undecided(r)'
  BY <1>4 DEF Idle, PaidOnce, Undecided
<1>10. FiresOnce(r)' /\ Served(r)'
  BY <1>4, <1>5, <1>6 DEF RowInv, FiresOnce, Served
<1>11. QED
  BY <1>8, <1>9, <1>10 DEF RowInv

\* Between the gather and the last lock section the task keeps the invariant,
\* the payment included.
LEMMA TaskRow ==
  ASSUME TypeOK, NEW r \in Request, NEW s \in Signer, RowInv(r),
         \/ GatherFails(r, s) \/ PipelineFails(r, s) \/ StartSend(r, s)
         \/ SendAccepted(r, s) \/ SendRefused(r, s)
  PROVE  RowInv(r)'
<1>1. PhaseFits(r, s)
  BY DEF RowInv
<1>2. CASE GatherFails(r, s)
  <2>1. /\ ceremony[r][s] = "spawned"
        /\ ceremony' = [ceremony EXCEPT ![r][s] = "err"]
        /\ UNCHANGED <<crashes, requests, approvals, approvers, quorumLog>>
    BY <1>2 DEF GatherFails, rows
  <2>2. /\ requests[r] = "quorum" /\ moved[r] = 0 /\ moved' = moved
        /\ ceremony'[r][s] = "err"
    BY <1>1, <1>2, <2>1 DEF TypeOK, PhaseFits, GatherFails
  <2>3. PhaseFits(r, s)'
    BY <2>1, <2>2 DEF PhaseFits
  <2>4. /\ moved'[r] \in {0, 1}
        /\ moved'[r] = 1 => requests[r] = "signing" /\ Cardinality(approvers[r]) = Quorum
    BY <2>2
  <2>5. "err" \in Phase /\ ceremony[r][s] # "none"
    BY <2>1 DEF Phase
  <2>6. QED
    BY <2>1, <2>3, <2>4, <2>5, PhaseStep
<1>3. CASE PipelineFails(r, s) \/ StartSend(r, s)
  <2>1. PICK phase \in {"err", "sending"} :
          /\ ceremony[r][s] = "running"
          /\ ceremony' = [ceremony EXCEPT ![r][s] = phase]
          /\ UNCHANGED <<crashes, requests, approvals, approvers, quorumLog>>
    BY <1>3 DEF PipelineFails, StartSend, rows
  <2>2. /\ requests[r] = "signing" /\ Cardinality(approvers[r]) = Quorum
        /\ moved[r] = 0 /\ moved' = moved /\ ceremony'[r][s] = phase
    BY <1>1, <1>3, <2>1 DEF TypeOK, PhaseFits, PipelineFails, StartSend
  <2>3. PhaseFits(r, s)'
    BY <2>1, <2>2 DEF PhaseFits
  <2>4. phase \in Phase /\ phase # "none" /\ phase # "orphan"
    BY DEF Phase
  <2>5. /\ moved'[r] \in {0, 1}
        /\ moved'[r] = 1 => requests[r] = "signing" /\ Cardinality(approvers[r]) = Quorum
    BY <2>2
  <2>6. QED
    BY <2>1, <2>3, <2>4, <2>5, PhaseStep
<1>4. CASE SendAccepted(r, s)
  <2>1. PICK outcome \in {"ok", "err"} :
          ceremony' = [ceremony EXCEPT ![r][s] = IF @ = "orphan" THEN "none" ELSE outcome]
    BY <1>4 DEF SendAccepted
  <2>2. /\ ceremony[r][s] \in {"sending", "orphan"}
        /\ moved' = [moved EXCEPT ![r] = @ + 1]
        /\ UNCHANGED <<crashes, requests, approvals, approvers, quorumLog>>
    BY <1>4 DEF SendAccepted, rows
  <2>3. /\ requests[r] = "signing" /\ Cardinality(approvers[r]) = Quorum
        /\ moved[r] = 0 /\ moved'[r] = 1
    BY <1>1, <2>2 DEF TypeOK, PhaseFits
  <2> DEFINE phase == IF ceremony[r][s] = "orphan" THEN "none" ELSE outcome
  <2>4. ceremony' = [ceremony EXCEPT ![r][s] = phase] /\ ceremony'[r][s] = phase
    BY <2>1 DEF TypeOK
  <2>5. phase = "none" => crashes # 0
    BY <1>1 DEF PhaseFits
  <2>6. phase \in {"none", "ok", "err"}
    OBVIOUS
  <2> HIDE DEF phase
  <2>7. PhaseFits(r, s)'
    BY <2>2, <2>3, <2>4, <2>6 DEF PhaseFits
  <2>8. QED
    BY <2>2, <2>3, <2>4, <2>5, <2>6, <2>7, PhaseStep DEF Phase
<1>5. CASE SendRefused(r, s)
  <2> DEFINE phase == IF ceremony[r][s] = "orphan" THEN "none" ELSE "err"
  <2>1. /\ ceremony[r][s] \in {"sending", "orphan"}
        /\ ceremony' = [ceremony EXCEPT ![r][s] = phase]
        /\ UNCHANGED <<crashes, requests, approvals, approvers, quorumLog>>
    BY <1>5 DEF SendRefused, rows
  <2>2. /\ requests[r] = "signing" /\ Cardinality(approvers[r]) = Quorum
        /\ moved[r] = 0 /\ moved' = moved /\ ceremony'[r][s] = phase
    BY <1>1, <1>5, <2>1 DEF TypeOK, PhaseFits, SendRefused
  <2>3. phase = "none" => crashes # 0
    BY <1>1 DEF PhaseFits
  <2>4. phase \in {"none", "err"}
    OBVIOUS
  <2> HIDE DEF phase
  <2>5. PhaseFits(r, s)'
    BY <2>1, <2>2, <2>4 DEF PhaseFits
  <2>6. phase \in Phase /\ phase # "orphan"
    BY <2>4 DEF Phase
  <2>7. /\ moved'[r] \in {0, 1}
        /\ moved'[r] = 1 => requests[r] = "signing" /\ Cardinality(approvers[r]) = Quorum
    BY <2>2
  <2>8. QED
    BY <2>1, <2>3, <2>5, <2>6, <2>7, PhaseStep
<1>6. QED
  BY <1>2, <1>3, <1>4, <1>5

\* The last lock section: broadcast only after the network took the payment.
LEMMA SettleRow ==
  ASSUME TypeOK, NEW r \in Request, NEW s \in Signer, RowInv(r), Settle(r, s)
  PROVE  RowInv(r)'
<1>1. /\ ceremony[r][s] \in {"ok", "err"}
      /\ requests'[r] = IF ceremony[r][s] = "ok" THEN "broadcast" ELSE "failed"
      /\ UNCHANGED <<crashes, approvals, approvers, quorumLog, moved>>
  BY DEF TypeOK, Settle
<1>2. \A t \in Signer : ceremony'[r][t] = "none"
  BY <1>1 DEF TypeOK, Settle, RowInv, FiresOnce
<1>3. moved'[r] = 1 => Cardinality(approvers'[r]) = Quorum
  BY <1>1 DEF RowInv, PaidOnce
<1>4. ceremony[r][s] = "ok" => moved'[r] = 1
  BY <1>1 DEF RowInv, PhaseFits
<1>5. Idle(r)' /\ FiresOnce(r)' /\ Served(r)' /\ Undecided(r)'
  BY <1>1, <1>2 DEF RowInv, Idle, FiresOnce, Served, Undecided
<1>6. PaidOnce(r)'
  BY <1>1, <1>3, <1>4 DEF RowInv, PaidOnce
<1>7. \A t \in Signer : PhaseFits(r, t)'
  BY <1>2 DEF PhaseFits
<1>8. QED
  BY <1>5, <1>6, <1>7 DEF RowInv

\* The database fails under decide: a transition without a task, or none.
LEMMA DecideErrsRow ==
  ASSUME TypeOK, NEW r \in Request, NEW s \in Signer, NEW d \in {"approve", "reject"},
         RowInv(r), DecideErrs(r, s, d)
  PROVE  RowInv(r)'
<1>1. DbErrors /\ requests[r] # "absent" /\ UNCHANGED <<crashes, ceremony, approvers, moved>>
  BY DEF DecideErrs, RecordDecision
<1>2. Served(r)' /\ Undecided(r)'
  BY <1>1 DEF Served, Undecided
<1>3. CASE UNCHANGED <<requests, quorumLog>>
  <2>1. Idle(r)' /\ FiresOnce(r)' /\ PaidOnce(r)'
    BY <1>1, <1>3 DEF RowInv, Idle, FiresOnce, PaidOnce
  <2>2. \A t \in Signer : PhaseFits(r, t)'
    BY <1>1, <1>3 DEF RowInv, PhaseFits
  <2>3. QED
    BY <1>2, <2>1, <2>2 DEF RowInv
<1>4. CASE ~UNCHANGED <<requests, quorumLog>>
  <2>1. /\ requests[r] = "pending" /\ requests' = [requests EXCEPT ![r] = "quorum"]
        /\ quorumLog' = [quorumLog EXCEPT ![r] = @ + 1]
    BY <1>4 DEF DecideErrs, ReachesQuorum
  <2>2. /\ requests'[r] = "quorum" /\ quorumLog'[r] = 1 /\ moved'[r] = 0
        /\ \A t \in Signer : ceremony'[r][t] = "none"
    BY <1>1, <2>1 DEF TypeOK, RowInv, Idle
  <2>3. Idle(r)' /\ FiresOnce(r)' /\ PaidOnce(r)'
    BY <2>2 DEF Idle, FiresOnce, PaidOnce
  <2>4. \A t \in Signer : PhaseFits(r, t)'
    BY <2>2 DEF PhaseFits
  <2>5. QED
    BY <1>2, <2>3, <2>4 DEF RowInv
<1>5. QED
  BY <1>3, <1>4

\* The task's last UPDATE fails unnoticed: the task ends, the row stays.
LEMMA SettleUnwrittenRow ==
  ASSUME TypeOK, NEW r \in Request, NEW s \in Signer, RowInv(r), SettleUnwritten(r, s)
  PROVE  RowInv(r)'
<1>1. /\ DbErrors /\ ceremony[r][s] \in {"ok", "err"}
      /\ UNCHANGED <<crashes, requests, approvals, approvers, quorumLog, moved>>
  BY DEF SettleUnwritten, rows
<1>2. \A t \in Signer : ceremony'[r][t] = "none"
  BY <1>1 DEF TypeOK, SettleUnwritten, RowInv, FiresOnce
<1>3. Idle(r)' /\ FiresOnce(r)' /\ PaidOnce(r)' /\ Served(r)' /\ Undecided(r)'
  BY <1>1, <1>2 DEF RowInv, Idle, FiresOnce, PaidOnce, Served, Undecided
<1>4. \A t \in Signer : PhaseFits(r, t)'
  BY <1>2 DEF PhaseFits
<1>5. QED
  BY <1>3, <1>4 DEF RowInv

\* A crash: the tasks end, a running send is on its own.
LEMMA DieRow ==
  ASSUME TypeOK, NEW r \in Request, RowInv(r), Die,
         UNCHANGED <<requests, approvers, quorumLog, moved>>,
         approvals'[r] = approvals[r] \/ requests[r] # "absent"
  PROVE  RowInv(r)'
<1>1. crashes' # 0
  BY DEF Die, TypeOK
<1>2. \A t \in Signer : ceremony'[r][t] =
        IF ceremony[r][t] \in {"sending", "orphan"} THEN "orphan" ELSE "none"
  BY DEF Die
<1>3. Idle(r)' /\ FiresOnce(r)'
  BY <1>2 DEF RowInv, Idle, FiresOnce
<1>4. PaidOnce(r)'
  BY DEF RowInv, PaidOnce
<1>5. Served(r)' /\ Undecided(r)'
  BY <1>1 DEF Served, Undecided
<1>6. \A t \in Signer : PhaseFits(r, t)'
  BY <1>1, <1>2 DEF RowInv, PhaseFits
<1>7. QED
  BY <1>3, <1>4, <1>5, <1>6 DEF RowInv
-----------------------------------------------------------------------------
\* An action on request r that keeps the crash count leaves every other row
\* alone, so its row lemma is all there is to show.
LEMMA OtherRows ==
  ASSUME NEW r \in Request, \A q \in Request : RowInv(q),
         RowInv(r)', crashes' = crashes,
         \A q \in Request : q # r => SameRow(q)
  PROVE  \A q \in Request : RowInv(q)'
<1> TAKE q \in Request
<1>1. CASE q = r
  BY <1>1
<1>2. CASE q # r
  BY <1>2, SameRowKeeps
<1>3. QED
  BY <1>1, <1>2

\* Every step keeps the row invariant of every request.
LEMMA RowsStep ==
  ASSUME TypeOK, \A r \in Request : RowInv(r), [Next]_vars
  PROVE  \A r \in Request : RowInv(r)'
<1>1. ASSUME NEW r \in Request, NEW s \in Signer, CreateRequest(r, s)
      PROVE  \A q \in Request : RowInv(q)'
  <2>1. RowInv(r)'
    BY <1>1, CreateRow
  <2>2. \A q \in Request : q # r => SameRow(q)
    BY <1>1 DEF TypeOK, CreateRequest, SameRow
  <2>3. QED
    BY <1>1, <2>1, <2>2, OtherRows DEF CreateRequest
<1>2. ASSUME NEW r \in Request, NEW s \in Signer, DecideApprove(r, s)
      PROVE  \A q \in Request : RowInv(q)'
  <2>1. RowInv(r)'
    BY <1>2, ApproveRow
  <2>2. \A q \in Request : q # r => ceremony'[q] = ceremony[q]
    <3>1. CASE ReachesQuorum(r, s)
      <4>1. PICK phase : ceremony' = [ceremony EXCEPT ![r][s] = phase]
        BY <1>2, <3>1 DEF DecideApprove, SpawnCeremony
      <4>2. QED
        BY <4>1 DEF TypeOK
    <3>2. CASE ~ReachesQuorum(r, s)
      BY <1>2, <3>2 DEF DecideApprove
    <3>3. QED
      BY <3>1, <3>2
  <2>3. \A q \in Request : q # r =>
          requests'[q] = requests[q] /\ quorumLog'[q] = quorumLog[q]
    BY <1>2 DEF TypeOK, DecideApprove
  <2>4. \A q \in Request : q # r => SameRow(q)
    BY <1>2, <2>2, <2>3 DEF TypeOK, DecideApprove, RecordDecision, SameRow
  <2>5. QED
    BY <1>2, <2>1, <2>4, OtherRows DEF DecideApprove
<1>3. ASSUME NEW r \in Request, NEW s \in Signer, DecideReject(r, s)
      PROVE  \A q \in Request : RowInv(q)'
  <2>1. RowInv(r)'
    BY <1>3, RejectRow
  <2>2. \A q \in Request : q # r => SameRow(q)
    BY <1>3 DEF TypeOK, DecideReject, RecordDecision, SameRow
  <2>3. QED
    BY <1>3, <2>1, <2>2, OtherRows DEF DecideReject
<1>4. ASSUME NEW r \in Request, NEW s \in Signer, Gather(r, s)
      PROVE  \A q \in Request : RowInv(q)'
  <2>1. RowInv(r)'
    BY <1>4, GatherRow
  <2>2. PICK c : approvers' = [approvers EXCEPT ![r] = c]
    BY <1>4 DEF Gather
  <2>3. \A q \in Request : q # r => SameRow(q)
    BY <1>4, <2>2 DEF TypeOK, Gather, SameRow
  <2>4. QED
    BY <1>4, <2>1, <2>3, OtherRows DEF Gather
<1>5. ASSUME NEW r \in Request, NEW s \in Signer,
             \/ GatherFails(r, s) \/ PipelineFails(r, s) \/ StartSend(r, s)
             \/ SendAccepted(r, s) \/ SendRefused(r, s)
      PROVE  \A q \in Request : RowInv(q)'
  <2>1. RowInv(r)'
    BY <1>5, TaskRow
  <2>2. \A q \in Request : q # r => ceremony'[q] = ceremony[q]
    BY <1>5 DEF TypeOK, GatherFails, PipelineFails, StartSend, SendAccepted, SendRefused
  <2>3. \A q \in Request : q # r => moved'[q] = moved[q]
    BY <1>5 DEF TypeOK, GatherFails, PipelineFails, StartSend, SendAccepted, SendRefused
  <2>4. UNCHANGED <<requests, approvals, approvers, quorumLog, crashes>>
    BY <1>5 DEF GatherFails, PipelineFails, StartSend, SendAccepted, SendRefused, rows
  <2>5. \A q \in Request : q # r => SameRow(q)
    BY <2>2, <2>3, <2>4 DEF SameRow
  <2>6. QED
    BY <2>1, <2>4, <2>5, OtherRows
<1>6. ASSUME NEW r \in Request, NEW s \in Signer, Settle(r, s)
      PROVE  \A q \in Request : RowInv(q)'
  <2>1. RowInv(r)'
    BY <1>6, SettleRow
  <2>2. \A q \in Request : q # r => SameRow(q)
    BY <1>6 DEF TypeOK, Settle, SameRow
  <2>3. QED
    BY <1>6, <2>1, <2>2, OtherRows DEF Settle
<1>7. ASSUME NEW r \in Request, NEW s \in Signer, NEW d \in {"approve", "reject"},
             CrashInDecide(r, s, d)
      PROVE  \A q \in Request : RowInv(q)'
  <2>1. \A q \in Request : approvals'[q] = approvals[q] \/ requests[q] # "absent"
    BY <1>7 DEF TypeOK, CrashInDecide, RecordDecision
  <2>2. QED
    BY <1>7, <2>1, DieRow DEF CrashInDecide
<1>8. CASE Crash
  BY <1>8, DieRow DEF Crash, rows
<1>9. CASE \/ \E s, t \in Signer : LoseSigner(s, t)
           \/ \E s \in Signer : RestoreSigner(s)
           \/ Tick
           \/ Boot
           \/ UNCHANGED vars
  <2>1. UNCHANGED <<crashes, rows, ceremony, approvers, moved>>
    BY <1>9 DEF LoseSigner, RestoreSigner, Tick, Boot, vars, rows
  <2>2. \A q \in Request : SameRow(q)
    BY <2>1 DEF SameRow, rows
  <2>3. QED
    BY <2>1, <2>2, SameRowKeeps
<1>10. ASSUME NEW r \in Request, NEW s \in Signer, NEW d \in {"approve", "reject"},
              DecideErrs(r, s, d)
       PROVE  \A q \in Request : RowInv(q)'
  <2>1. RowInv(r)'
    BY <1>10, DecideErrsRow
  <2>2. \A q \in Request : q # r =>
          requests'[q] = requests[q] /\ quorumLog'[q] = quorumLog[q]
    BY <1>10 DEF TypeOK, DecideErrs
  <2>3. \A q \in Request : q # r => SameRow(q)
    BY <1>10, <2>2 DEF TypeOK, DecideErrs, RecordDecision, SameRow
  <2>4. QED
    BY <1>10, <2>1, <2>3, OtherRows DEF DecideErrs
<1>11. ASSUME NEW r \in Request, NEW s \in Signer, SettleUnwritten(r, s)
       PROVE  \A q \in Request : RowInv(q)'
  <2>1. RowInv(r)'
    BY <1>11, SettleUnwrittenRow
  <2>2. \A q \in Request : q # r => SameRow(q)
    BY <1>11 DEF TypeOK, SettleUnwritten, SameRow, rows
  <2>3. QED
    BY <1>11, <2>1, <2>2, OtherRows DEF SettleUnwritten
<1>12. QED
  BY <1>1, <1>2, <1>3, <1>4, <1>5, <1>6, <1>7, <1>8, <1>9, <1>10, <1>11
  DEF Next, Ceremony

\* Only mark_lost and a finished repair touch the signers table.
LEMMA ThresholdStep ==
  ASSUME TypeOK, ThresholdKept, [Next]_vars
  PROVE  ThresholdKept'
<1>1. ASSUME NEW s \in Signer, NEW t \in Signer, LoseSigner(s, t)
      PROVE  ThresholdKept'
  BY <1>1, MarkLostKeepsThreshold DEF TypeOK, LoseSigner
<1>2. ASSUME NEW s \in Signer, RestoreSigner(s)
      PROVE  ThresholdKept'
  BY <1>2, RestoreKeepsThreshold DEF TypeOK, RestoreSigner
<1>3. ASSUME UNCHANGED signers
      PROVE  ThresholdKept'
  BY <1>3 DEF ThresholdKept, NotLost, SignerByToken
<1>4. QED
  <2>1. ASSUME NEW r \in Request, NEW s \in Signer,
               \/ CreateRequest(r, s) \/ DecideApprove(r, s) \/ DecideReject(r, s)
               \/ \E d \in {"approve", "reject"} :
                    DecideErrs(r, s, d) \/ CrashInDecide(r, s, d)
        PROVE  UNCHANGED signers
    BY <2>1 DEF CreateRequest, DecideApprove, DecideReject, DecideErrs, CrashInDecide
  <2>2. ASSUME NEW r \in Request, NEW s \in Signer, Ceremony(r, s)
        PROVE  UNCHANGED signers
    BY <2>2 DEF Ceremony, Gather, GatherFails, PipelineFails, StartSend, SendAccepted,
                SendRefused, Settle, SettleUnwritten
  <2>3. ASSUME Tick \/ Crash \/ Boot \/ UNCHANGED vars
        PROVE  UNCHANGED signers
    BY <2>3 DEF Tick, Crash, Boot, vars
  <2>4. QED
    BY <1>1, <1>2, <1>3, <2>1, <2>2, <2>3 DEF Next

\* The inductive invariant holds initially ...
LEMMA InvInit == Init => IInv
<1> SUFFICES ASSUME Init PROVE IInv
  OBVIOUS
<1>1. TypeOK
  BY DEF Init, TypeOK, RegistryInit, RegistryTypeOK, SignerStatus, Status, Decision, Phase
<1>2. ThresholdKept
  BY InitKeepsThreshold DEF Init
<1>3. ASSUME NEW r \in Request
      PROVE  RowInv(r)
  <2>1. /\ requests[r] = "absent" /\ quorumLog[r] = 0 /\ moved[r] = 0
        /\ \A s \in Signer : ceremony[r][s] = "none" /\ approvals[r][s] = "none"
    BY DEF Init
  <2>2. Idle(r) /\ FiresOnce(r) /\ PaidOnce(r) /\ Served(r) /\ Undecided(r)
    BY <2>1 DEF Idle, FiresOnce, PaidOnce, Served, Undecided
  <2>3. \A s \in Signer : PhaseFits(r, s)
    BY <2>1 DEF PhaseFits
  <2>4. QED
    BY <2>2, <2>3 DEF RowInv
<1>4. QED
  BY <1>1, <1>2, <1>3 DEF IInv

\* ... and every step preserves it.
LEMMA InvStep == IInv /\ [Next]_vars => IInv'
<1> SUFFICES ASSUME IInv, [Next]_vars PROVE IInv'
  OBVIOUS
<1>1. TypeOK'
  BY TypeStep DEF IInv
<1>2. ThresholdKept'
  BY ThresholdStep DEF IInv
<1>3. \A r \in Request : RowInv(r)'
  BY RowsStep DEF IInv
<1>4. QED
  BY <1>1, <1>2, <1>3 DEF IInv

\* Every reachable state satisfies the inductive invariant.
THEOREM InvariantHolds == Spec => []IInv
<1>1. QED
  BY InvInit, InvStep, PTL DEF Spec
-----------------------------------------------------------------------------
\* decide makes the pending -> quorum transition of a request once, and at most
\* one task serves it, however many signers, requests and crashes there are.
THEOREM FiresOnceAlways == Spec => []SingleFire
<1>1. IInv => SingleFire
  BY DEF IInv, RowInv, FiresOnce, SingleFire
<1>2. QED
  BY <1>1, InvariantHolds, PTL

\* The network takes a request's transaction at most once, and only after a
\* gather that found a full quorum.
THEOREM MovesOnceAlways == Spec => []FundsMoveOnce
<1>1. IInv => FundsMoveOnce
  BY DEF IInv, RowInv, PaidOnce, FundsMoveOnce
<1>2. QED
  BY <1>1, InvariantHolds, PTL

\* A request that reads broadcast was paid.
THEOREM BroadcastIsPaidAlways == Spec => []BroadcastIsPaid
<1>1. IInv => BroadcastIsPaid
  BY DEF IInv, RowInv, PaidOnce, BroadcastIsPaid
<1>2. QED
  BY <1>1, InvariantHolds, PTL

\* While the process lives a request past its quorum has a task.
THEOREM NeverStranded == Spec => []NotStranded
<1>1. IInv => NotStranded
  BY DEF IInv, RowInv, Served, NotStranded
<1>2. QED
  BY <1>1, InvariantHolds, PTL

\* A pending request is one its decisions do not decide.
THEOREM PendingIsUndecidedAlways == Spec => []PendingIsUndecided
<1>1. IInv => PendingIsUndecided
  BY DEF IInv, RowInv, Undecided, PendingIsUndecided
<1>2. QED
  BY <1>1, InvariantHolds, PTL

\* The workflow never leaves fewer than a threshold of signers who can act.
THEOREM ThresholdAlways == Spec => []ThresholdKept
<1>1. IInv => ThresholdKept
  BY DEF IInv
<1>2. QED
  BY <1>1, InvariantHolds, PTL

\* The status of a request changes only along the workflow: by its creation, by
\* a decision while it is pending, or by its own task while that task lives.
StatusMoves(r) ==
  \/ requests'[r] = requests[r]
  \/ requests[r] = "absent" /\ requests'[r] = "pending"
  \/ requests[r] = "pending" /\ requests'[r] \in {"quorum", "rejected"}
  \/ requests[r] = "quorum" /\ requests'[r] = "signing"
  \/ requests[r] \in {"quorum", "signing"} /\ requests'[r] \in {"broadcast", "failed"}

LEMMA StatusStep ==
  ASSUME IInv, [Next]_vars
  PROVE  \A r \in Request : StatusMoves(r)
<1> USE DEF StatusMoves
<1>1. TypeOK /\ \A r \in Request : RowInv(r)
  BY DEF IInv
<1>2. ASSUME NEW r \in Request, NEW s \in Signer, CreateRequest(r, s)
      PROVE  \A q \in Request : StatusMoves(q)
  BY <1>1, <1>2 DEF TypeOK, CreateRequest
<1>3. ASSUME NEW r \in Request, NEW s \in Signer, DecideApprove(r, s)
      PROVE  \A q \in Request : StatusMoves(q)
  BY <1>1, <1>3 DEF TypeOK, DecideApprove, ReachesQuorum
<1>4. ASSUME NEW r \in Request, NEW s \in Signer, DecideReject(r, s)
      PROVE  \A q \in Request : StatusMoves(q)
  BY <1>1, <1>4 DEF TypeOK, DecideReject
<1>5. ASSUME NEW r \in Request, NEW s \in Signer, Gather(r, s)
      PROVE  \A q \in Request : StatusMoves(q)
  <2>1. requests[r] = "quorum"
    BY <1>1, <1>5 DEF Gather, RowInv, PhaseFits
  <2>2. QED
    BY <1>1, <1>5, <2>1 DEF TypeOK, Gather
<1>6. ASSUME NEW r \in Request, NEW s \in Signer, Settle(r, s)
      PROVE  \A q \in Request : StatusMoves(q)
  <2>1. requests[r] \in {"quorum", "signing"}
    BY <1>1, <1>6 DEF Settle, RowInv, PhaseFits
  <2>2. QED
    BY <1>1, <1>6, <2>1 DEF TypeOK, Settle
<1>7. ASSUME NEW r \in Request, NEW s \in Signer,
             \/ GatherFails(r, s) \/ PipelineFails(r, s) \/ StartSend(r, s)
             \/ SendAccepted(r, s) \/ SendRefused(r, s) \/ SettleUnwritten(r, s)
             \/ \E d \in {"approve", "reject"} : CrashInDecide(r, s, d)
      PROVE  UNCHANGED requests
  BY <1>7 DEF GatherFails, PipelineFails, StartSend, SendAccepted, SendRefused,
              SettleUnwritten, CrashInDecide, rows
<1>8. ASSUME \/ \E s, t \in Signer : LoseSigner(s, t)
             \/ \E s \in Signer : RestoreSigner(s)
             \/ Tick \/ Crash \/ Boot
             \/ UNCHANGED vars
      PROVE  UNCHANGED requests
  BY <1>8 DEF LoseSigner, RestoreSigner, Tick, Crash, Boot, vars, rows
<1>9. ASSUME NEW r \in Request, NEW s \in Signer, NEW d \in {"approve", "reject"},
             DecideErrs(r, s, d)
      PROVE  \A q \in Request : StatusMoves(q)
  BY <1>1, <1>9 DEF TypeOK, DecideErrs, ReachesQuorum
<1>10. QED
  BY <1>2, <1>3, <1>4, <1>5, <1>6, <1>7, <1>8, <1>9 DEF Next, Ceremony

\* A request that ended keeps its status, though the late UPDATEs of its task
\* do not look at it: no task outlives the end of its request.
THEOREM FinalStaysAlways == Spec => FinalStays
<1>1. ASSUME IInv, [Next]_vars, NEW r \in Request, requests[r] \in Final
      PROVE  requests'[r] = requests[r]
  BY <1>1, StatusStep DEF StatusMoves, Final
<1>2. IInv /\ [Next]_vars
        => [\A r \in Request : requests[r] \in Final => requests'[r] = requests[r]]_vars
  BY <1>1
<1>3. QED
  BY <1>2, InvariantHolds, PTL DEF Spec, FinalStays
-----------------------------------------------------------------------------
\* What Payments substitutes for the variables of PaymentLifecycle.
stages == [r \in Request |-> StageOf(requests[r])]
supporters == [r \in Request |-> Approved(r)]

\* The stage of every status.
LEMMA Stages ==
  /\ StageOf("absent") = "absent"
  /\ StageOf("pending") = "open"
  /\ StageOf("quorum") = "authorised"
  /\ StageOf("signing") = "authorised"
  /\ StageOf("rejected") = "refused"
  /\ StageOf("broadcast") = "closed"
  /\ StageOf("failed") = "closed"
BY DEF StageOf

\* A change of one request's status is a change of its stage alone.
LEMMA StageChange ==
  ASSUME requests \in [Request -> Status], NEW r \in Request, NEW status,
         requests' = [requests EXCEPT ![r] = status]
  PROVE  stages' = [stages EXCEPT ![r] = StageOf(status)]
<1>1. \A q \in Request : requests'[q] = IF q = r THEN status ELSE requests[q]
  OBVIOUS
<1>2. QED
  BY <1>1 DEF stages

\* A recorded decision changes one signer's support of one request.
LEMMA SupportChange ==
  ASSUME approvals \in [Request -> [Signer -> Decision]],
         NEW r \in Request, NEW s \in Signer, NEW d \in {"approve", "reject"},
         approvals' = [approvals EXCEPT ![r][s] = d]
  PROVE  supporters' = [supporters EXCEPT ![r] =
                          IF d = "approve" THEN @ \cup {s} ELSE @ \ {s}]
<1>1. \A q \in Request : q # r => Approved(q)' = Approved(q)
  BY DEF Approved
<1>2. d = "approve" => Approved(r)' = Approved(r) \cup {s}
  BY DEF Approved
<1>3. d = "reject" => Approved(r)' = Approved(r) \ {s}
  BY DEF Approved
<1>4. Approved(r)' = IF d = "approve" THEN Approved(r) \cup {s} ELSE Approved(r) \ {s}
  BY <1>2, <1>3
<1>5. QED
  BY <1>1, <1>4 DEF supporters

\* The instance of PaymentLifecycle counts as this module does.
LEMMA SameCardinality == \A S : Lifecycle!Cardinality(S) = Cardinality(S)
BY DEF Lifecycle!Cardinality, Cardinality

\* Every step of the server is a step of the abstract specification, or none.
LEMMA LifecycleStep ==
  ASSUME IInv, [Next]_vars
  PROVE  Lifecycle!LifecycleNext \/ UNCHANGED <<stages, supporters, moved>>
<1>1. TypeOK /\ \A r \in Request : RowInv(r)
  BY DEF IInv
<1>2. /\ requests \in [Request -> Status]
      /\ approvals \in [Request -> [Signer -> Decision]]
      /\ moved \in [Request -> Nat]
  BY <1>1 DEF TypeOK
<1>3. \A r \in Request : stages[r] = StageOf(requests[r]) /\ supporters[r] = Approved(r)
  BY DEF stages, supporters
<1>4. UNCHANGED requests => UNCHANGED stages
  BY DEF stages
<1>5. UNCHANGED approvals => UNCHANGED supporters
  BY DEF supporters, Approved
<1>6. ASSUME NEW r \in Request, requests[r] # "absent"
      PROVE  stages[r] # "absent"
  BY <1>2, <1>3, <1>6, Stages DEF Status
<1>7. ASSUME NEW r \in Request, NEW s \in Signer, CreateRequest(r, s)
      PROVE  Lifecycle!Propose(r)
  <2>1. stages' = [stages EXCEPT ![r] = StageOf("pending")]
    BY <1>2, <1>7, StageChange DEF CreateRequest
  <2>2. stages[r] = "absent" /\ stages' = [stages EXCEPT ![r] = "open"]
    BY <1>3, <1>7, <2>1, Stages DEF CreateRequest
  <2>3. UNCHANGED <<supporters, moved>>
    BY <1>5, <1>7 DEF CreateRequest
  <2>4. QED
    BY <2>2, <2>3 DEF Lifecycle!Propose, stages, supporters
<1>8. ASSUME NEW r \in Request, NEW s \in Signer, DecideApprove(r, s)
      PROVE  Lifecycle!Back(r, s)
  <2>1. stages[r] # "absent" /\ supporters' = [supporters EXCEPT ![r] = @ \cup {s}]
    BY <1>2, <1>6, <1>8, SupportChange DEF DecideApprove, RecordDecision
  <2>2. CASE ReachesQuorum(r, s)
    <3>1. stages' = [stages EXCEPT ![r] = StageOf("quorum")]
      BY <1>2, <1>8, <2>2, StageChange DEF DecideApprove
    <3>2. stages[r] = "open" /\ stages' = [stages EXCEPT ![r] = "authorised"]
      BY <1>3, <2>2, <3>1, Stages DEF ReachesQuorum
    <3>3. Cardinality(supporters[r] \cup {s}) >= Quorum
      BY <1>3, <2>2 DEF ReachesQuorum
    <3>4. UNCHANGED moved
      BY <1>8 DEF DecideApprove
    <3>5. QED
      BY <2>1, <3>2, <3>3, <3>4, SameCardinality DEF Lifecycle!Back, stages, supporters
  <2>3. CASE ~ReachesQuorum(r, s)
    BY <1>4, <1>8, <2>1, <2>3 DEF DecideApprove, Lifecycle!Back, stages, supporters
  <2>4. QED
    BY <2>2, <2>3
<1>9. ASSUME NEW r \in Request, NEW s \in Signer, DecideReject(r, s)
      PROVE  Lifecycle!Oppose(r, s)
  <2>1. stages[r] # "absent" /\ supporters' = [supporters EXCEPT ![r] = @ \ {s}]
    BY <1>2, <1>6, <1>9, SupportChange DEF DecideReject, RecordDecision
  <2>2. CASE requests[r] = "pending"
    <3>1. stages' = [stages EXCEPT ![r] = StageOf("rejected")]
      <4>1. requests' = [requests EXCEPT ![r] = "rejected"]
        BY <1>2, <1>9, <2>2 DEF DecideReject
      <4>2. QED
        BY <1>2, <4>1, StageChange
    <3>2. stages[r] = "open" /\ stages' = [stages EXCEPT ![r] = "refused"]
      BY <1>3, <2>2, <3>1, Stages
    <3>3. QED
      BY <1>9, <2>1, <3>2 DEF DecideReject, Lifecycle!Oppose, stages, supporters
  <2>3. CASE requests[r] # "pending"
    <3>1. UNCHANGED requests
      BY <1>2, <1>9, <2>3 DEF DecideReject
    <3>2. QED
      BY <1>4, <1>9, <2>1, <3>1 DEF DecideReject, Lifecycle!Oppose, stages, supporters
  <2>4. QED
    BY <2>2, <2>3
<1>10. ASSUME NEW r \in Request, NEW s \in Signer, Gather(r, s)
       PROVE  UNCHANGED <<stages, supporters, moved>>
  <2>1. requests[r] = "quorum"
    BY <1>1, <1>10 DEF Gather, RowInv, PhaseFits
  <2>2. stages' = [stages EXCEPT ![r] = StageOf("signing")]
    BY <1>2, <1>10, StageChange DEF Gather
  <2>3. stages' = [stages EXCEPT ![r] = "authorised"] /\ stages[r] = "authorised"
    BY <1>3, <2>1, <2>2, Stages
  <2>4. UNCHANGED stages
    BY <2>3 DEF stages
  <2>5. QED
    BY <1>5, <1>10, <2>4 DEF Gather
<1>11. ASSUME NEW r \in Request, NEW s \in Signer, SendAccepted(r, s)
       PROVE  Lifecycle!MoveFunds(r)
  <2>1. requests[r] = "signing" /\ moved[r] = 0
    BY <1>1, <1>11 DEF SendAccepted, RowInv, PhaseFits
  <2>2. stages[r] = "authorised" /\ moved' = [moved EXCEPT ![r] = 1]
    BY <1>3, <1>11, <2>1, Stages DEF SendAccepted
  <2>3. UNCHANGED <<stages, supporters>>
    BY <1>4, <1>5, <1>11 DEF SendAccepted, rows
  <2>4. QED
    BY <2>1, <2>2, <2>3 DEF Lifecycle!MoveFunds, stages, supporters
<1>12. ASSUME NEW r \in Request, NEW s \in Signer, Settle(r, s)
       PROVE  Lifecycle!Close(r)
  <2>1. requests[r] \in {"quorum", "signing"}
    BY <1>1, <1>12 DEF Settle, RowInv, PhaseFits
  <2>2. PICK status \in {"broadcast", "failed"} :
          requests' = [requests EXCEPT ![r] = status]
    BY <1>12 DEF Settle
  <2>3. stages' = [stages EXCEPT ![r] = StageOf(status)]
    BY <1>2, <2>2, StageChange
  <2>4. stages[r] = "authorised" /\ stages' = [stages EXCEPT ![r] = "closed"]
    BY <1>3, <2>1, <2>2, <2>3, Stages
  <2>5. UNCHANGED <<supporters, moved>>
    BY <1>5, <1>12 DEF Settle
  <2>6. QED
    BY <2>4, <2>5 DEF Lifecycle!Close, stages, supporters
<1>13. ASSUME NEW r \in Request, NEW s \in Signer,
              \/ GatherFails(r, s) \/ PipelineFails(r, s) \/ StartSend(r, s)
              \/ SendRefused(r, s) \/ SettleUnwritten(r, s)
       PROVE  UNCHANGED <<stages, supporters, moved>>
  BY <1>4, <1>5, <1>13 DEF GatherFails, PipelineFails, StartSend, SendRefused,
                           SettleUnwritten, rows
<1>14. ASSUME NEW r \in Request, NEW s \in Signer, NEW d \in {"approve", "reject"},
              CrashInDecide(r, s, d)
       PROVE  Lifecycle!Back(r, s) \/ Lifecycle!Oppose(r, s)
  <2>1. stages[r] # "absent" /\ UNCHANGED <<stages, moved>>
    BY <1>4, <1>6, <1>14 DEF CrashInDecide, RecordDecision
  <2>2. supporters' = [supporters EXCEPT ![r] =
                         IF d = "approve" THEN @ \cup {s} ELSE @ \ {s}]
    BY <1>2, <1>14, SupportChange DEF CrashInDecide, RecordDecision
  <2>3. QED
    BY <2>1, <2>2 DEF Lifecycle!Back, Lifecycle!Oppose, stages, supporters
<1>15. ASSUME \/ \E s, t \in Signer : LoseSigner(s, t)
              \/ \E s \in Signer : RestoreSigner(s)
              \/ Tick \/ Crash \/ Boot
              \/ UNCHANGED vars
       PROVE  UNCHANGED <<stages, supporters, moved>>
  BY <1>4, <1>5, <1>15 DEF LoseSigner, RestoreSigner, Tick, Crash, Boot, vars, rows
<1>16. ASSUME NEW r \in Request, NEW s \in Signer, NEW d \in {"approve", "reject"},
              DecideErrs(r, s, d)
       PROVE  Lifecycle!Back(r, s) \/ Lifecycle!Oppose(r, s)
  <2>1. stages[r] # "absent" /\ UNCHANGED moved
    BY <1>6, <1>16 DEF DecideErrs, RecordDecision
  <2>2. supporters' = [supporters EXCEPT ![r] =
                         IF d = "approve" THEN @ \cup {s} ELSE @ \ {s}]
    BY <1>2, <1>16, SupportChange DEF DecideErrs, RecordDecision
  <2>3. CASE UNCHANGED requests
    BY <1>4, <2>1, <2>2, <2>3 DEF Lifecycle!Back, Lifecycle!Oppose, stages, supporters
  <2>4. CASE ~UNCHANGED requests
    <3>1. /\ d = "approve" /\ ReachesQuorum(r, s)
          /\ requests' = [requests EXCEPT ![r] = "quorum"]
      BY <1>16, <2>4 DEF DecideErrs
    <3>2. stages' = [stages EXCEPT ![r] = StageOf("quorum")]
      BY <1>2, <3>1, StageChange
    <3>3. stages[r] = "open" /\ stages' = [stages EXCEPT ![r] = "authorised"]
      BY <1>3, <3>1, <3>2, Stages DEF ReachesQuorum
    <3>4. Cardinality(supporters[r] \cup {s}) >= Quorum
      BY <1>3, <3>1 DEF ReachesQuorum
    <3>5. supporters' = [supporters EXCEPT ![r] = @ \cup {s}]
      BY <2>2, <3>1
    <3>6. QED
      BY <2>1, <3>3, <3>4, <3>5, SameCardinality DEF Lifecycle!Back, stages, supporters
  <2>5. QED
    BY <2>3, <2>4
<1>17. QED
  BY <1>7, <1>8, <1>9, <1>10, <1>11, <1>12, <1>13, <1>14, <1>15, <1>16
  DEF Next, Ceremony, Lifecycle!LifecycleNext

\* The workflow server, for every group, threshold, set of requests and bound on
\* crashes, implements the abstract payment lifecycle.
THEOREM LifecycleImplemented == Spec => ImplementsLifecycle
<1>1. Init => Lifecycle!LifecycleInit
  BY Stages DEF Init, Approved, Lifecycle!LifecycleInit
<1>2. IInv /\ [Next]_vars => [Lifecycle!LifecycleNext]_(Lifecycle!lifecycleVars)
  BY LifecycleStep DEF Lifecycle!lifecycleVars, stages, supporters
<1>3. QED
  BY <1>1, <1>2, InvariantHolds, PTL DEF Spec, ImplementsLifecycle, Lifecycle!LifecycleSpec
=============================================================================
