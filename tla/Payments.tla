------------------------------ MODULE Payments ------------------------------
(***************************************************************************)
(* rime-server's payment workflow: create_request, decide, spawn_ceremony  *)
(* and the ceremony task it spawns, over the requests and approvals tables *)
(* in SQLite, with the process able to die between any two steps.          *)
(*                                                                         *)
(* One lock section of a handler or of a task is one action.  The rows     *)
(* survive a crash; the spawned tasks do not, but a subprocess that is     *)
(* already sending the transaction does.                                   *)
(***************************************************************************)
EXTENDS SignerRegistry

CONSTANTS
  Request,     \* the ids AUTOINCREMENT will hand out
  Configured,  \* a signing config was loaded: st.cfg is Some
  DbErrors,    \* may an SQLite statement fail (a full disk, an I/O error)?
  MaxClock,    \* bound: the last second datetime('now') can return
  MaxCrash     \* bound: how often the process dies

ASSUME PaymentsAssumption ==
  /\ Configured \in BOOLEAN
  /\ DbErrors \in BOOLEAN
  /\ MaxClock \in Nat
  /\ MaxCrash \in Nat

VARIABLES
  up,          \* the process is running
  clock,       \* what datetime('now') returns, in seconds
  crashes,     \* how often the process died so far
  requests,    \* requests.status
  approvals,   \* approvals.decision per (request_id, signer_id)
  created_at,  \* approvals.created_at, with the resolution of a second
  ceremony,    \* phase of the ceremony task fired by a signer's decision
  approvers,   \* the approver_ids the ceremony gathered
  quorumLog,   \* audit rows "request.quorum" per request
  moved        \* how often the network accepted the request's transaction

rows == <<requests, approvals, created_at, quorumLog>>
vars == <<signers, up, clock, crashes, requests, approvals, created_at,
          ceremony, approvers, quorumLog, moved>>

Status == {"absent", "pending", "quorum", "signing", "broadcast", "failed", "rejected"}
Decision == {"none", "approve", "reject"}
\* spawned: before the gather.  running: pipeline::run up to `pczt send`.
\* sending: `pczt send` is running.  ok, err: its result waits for the lock.
\* orphan: the server died, `pczt send` did not.
Phase == {"none", "spawned", "running", "sending", "ok", "err", "orphan"}

TypeOK ==
  /\ RegistryTypeOK
  /\ up \in BOOLEAN
  /\ clock \in Nat
  /\ crashes \in Nat
  /\ requests \in [Request -> Status]
  /\ approvals \in [Request -> [Signer -> Decision]]
  /\ created_at \in [Request -> [Signer -> Nat]]
  /\ ceremony \in [Request -> [Signer -> Phase]]
  /\ approvers \in [Request -> SUBSET Signer]
  /\ quorumLog \in [Request -> Nat]
  /\ moved \in [Request -> Nat]

Init ==
  /\ RegistryInit
  /\ up = TRUE
  /\ clock = 0
  /\ crashes = 0
  /\ requests = [r \in Request |-> "absent"]
  /\ approvals = [r \in Request |-> [s \in Signer |-> "none"]]
  /\ created_at = [r \in Request |-> [s \in Signer |-> 0]]
  /\ ceremony = [r \in Request |-> [s \in Signer |-> "none"]]
  /\ approvers = [r \in Request |-> {}]
  /\ quorumLog = [r \in Request |-> 0]
  /\ moved = [r \in Request |-> 0]

-----------------------------------------------------------------------------
\* The approvals rows of r with decision = 'approve'.
Approved(r) == {s \in Signer : approvals[r][s] = "approve"}

CreateRequest(r, s) ==
  /\ up /\ SignerByToken(s)
  /\ requests[r] = "absent"
  /\ requests' = [requests EXCEPT ![r] = "pending"]
  /\ UNCHANGED <<signers, up, clock, crashes, approvals, created_at,
                 ceremony, approvers, quorumLog, moved>>

\* INSERT OR REPLACE INTO approvals: a second decision replaces the first and
\* is stamped anew.  An unknown request violates the foreign key: no row.
RecordDecision(r, s, d) ==
  /\ up /\ SignerByToken(s)
  /\ requests[r] # "absent"
  /\ approvals' = [approvals EXCEPT ![r][s] = d]
  /\ created_at' = [created_at EXCEPT ![r][s] = clock]

\* Mutants of ReachesQuorum: the UPDATE without its guard on the status, and the
\* count compared with > for >=.
ReachesQuorumAgain(r, s) == Cardinality(Approved(r) \cup {s}) >= Quorum
ReachesQuorumLate(r, s) ==
  /\ requests[r] = "pending"
  /\ Cardinality(Approved(r) \cup {s}) > Quorum

\* UPDATE ... SET status = 'quorum' WHERE status = 'pending' changed a row.
ReachesQuorum(r, s) ==
  /\ requests[r] = "pending"
  /\ Cardinality(Approved(r) \cup {s}) >= Quorum

\* The decision that made the transition spawns the ceremony task.  Without a
\* signing config the server logs ceremony.skipped instead.
SpawnCeremony(r, s) ==
  ceremony' = [ceremony EXCEPT ![r][s] = IF Configured THEN "spawned" ELSE @]

DecideApprove(r, s) ==
  /\ RecordDecision(r, s, "approve")
  /\ IF ReachesQuorum(r, s)
     THEN /\ requests' = [requests EXCEPT ![r] = "quorum"]
          /\ quorumLog' = [quorumLog EXCEPT ![r] = @ + 1]
          /\ SpawnCeremony(r, s)
     ELSE UNCHANGED <<requests, quorumLog, ceremony>>
  /\ UNCHANGED <<signers, up, clock, crashes, approvers, moved>>

\* Mutants of DecideReject: the decision's own word as the status, and the UPDATE
\* without its guard on the status.
RejectWritesDecision(r, s) ==
  /\ RecordDecision(r, s, "reject")
  /\ requests' = [requests EXCEPT ![r] = IF @ = "pending" THEN "reject" ELSE @]
  /\ UNCHANGED <<signers, up, clock, crashes, ceremony, approvers, quorumLog, moved>>

RejectAnyStatus(r, s) ==
  /\ RecordDecision(r, s, "reject")
  /\ requests' = [requests EXCEPT ![r] = "rejected"]
  /\ UNCHANGED <<signers, up, clock, crashes, ceremony, approvers, quorumLog, moved>>

DecideReject(r, s) ==
  /\ RecordDecision(r, s, "reject")
  /\ requests' = [requests EXCEPT ![r] = IF @ = "pending" THEN "rejected" ELSE @]
  /\ UNCHANGED <<signers, up, clock, crashes, ceremony, approvers, quorumLog, moved>>

\* A statement after the INSERT fails and `?` answers 500.  What was executed
\* before it stays, the transition to quorum included; nothing is spawned.
DecideErrs(r, s, d) ==
  /\ DbErrors
  /\ RecordDecision(r, s, d)
  /\ \/ UNCHANGED <<requests, quorumLog>>
     \/ /\ d = "approve" /\ ReachesQuorum(r, s)
        /\ requests' = [requests EXCEPT ![r] = "quorum"]
        /\ quorumLog' = [quorumLog EXCEPT ![r] = @ + 1]
  /\ UNCHANGED <<signers, up, clock, crashes, ceremony, approvers, moved>>

-----------------------------------------------------------------------------
\* SELECT ... WHERE decision = 'approve' ORDER BY created_at LIMIT 2.  SQL
\* leaves the order of rows with the same second open.
FirstApprovers(r) ==
  {c \in SUBSET Approved(r) :
     /\ Cardinality(c) = IF Cardinality(Approved(r)) < Quorum
                         THEN Cardinality(Approved(r)) ELSE Quorum
     /\ \A s \in c, t \in Approved(r) \ c : created_at[r][s] <= created_at[r][t]}

\* Mutant of Gather: pipeline::run without its count of the approvers.
GatherUncounted(r, s) ==
  /\ up
  /\ ceremony[r][s] = "spawned"
  /\ requests' = [requests EXCEPT ![r] = "signing"]
  /\ approvers' \in {[approvers EXCEPT ![r] = c] : c \in FirstApprovers(r)}
  /\ ceremony' = [ceremony EXCEPT ![r][s] = "running"]
  /\ UNCHANGED <<signers, up, clock, crashes, approvals, created_at, quorumLog, moved>>

\* The gather, and pipeline::run's first check: fewer approvers than the
\* threshold end the ceremony before any tool is started.
Gather(r, s) ==
  /\ up
  /\ ceremony[r][s] = "spawned"
  /\ requests' = [requests EXCEPT ![r] = "signing"]
  /\ approvers' \in {[approvers EXCEPT ![r] = c] : c \in FirstApprovers(r)}
  /\ ceremony' = [ceremony EXCEPT ![r][s] =
                    IF Cardinality(approvers'[r]) < Quorum THEN "err" ELSE "running"]
  /\ UNCHANGED <<signers, up, clock, crashes, approvals, created_at, quorumLog, moved>>

\* Mutant of GatherFails: `?` leaves the task instead of its inner block.
GatherReturns(r, s) ==
  /\ up
  /\ ceremony[r][s] = "spawned"
  /\ ceremony' = [ceremony EXCEPT ![r][s] = "none"]
  /\ UNCHANGED <<signers, up, clock, crashes, rows, approvers, moved>>

\* The gather's row or write is an error: no status is written, the task goes on
\* to its failure branch.
GatherFails(r, s) ==
  /\ up
  /\ ceremony[r][s] = "spawned"
  /\ ceremony' = [ceremony EXCEPT ![r][s] = "err"]
  /\ UNCHANGED <<signers, up, clock, crashes, rows, approvers, moved>>

\* A tool before `pczt send` fails or times out: run returns Err.
PipelineFails(r, s) ==
  /\ up
  /\ ceremony[r][s] = "running"
  /\ ceremony' = [ceremony EXCEPT ![r][s] = "err"]
  /\ UNCHANGED <<signers, up, clock, crashes, rows, approvers, moved>>

\* Signed, proven and combined: `zcash-devtool pczt send` is spawned.
StartSend(r, s) ==
  /\ up
  /\ ceremony[r][s] = "running"
  /\ ceremony' = [ceremony EXCEPT ![r][s] = "sending"]
  /\ UNCHANGED <<signers, up, clock, crashes, rows, approvers, moved>>

\* Mutant of SendAccepted: an error after the acceptance is retried.
SendRetried(r, s) ==
  /\ ceremony[r][s] \in {"sending", "orphan"}
  /\ moved' = [moved EXCEPT ![r] = @ + 1]
  /\ \E outcome \in {"ok", "sending"} :
       ceremony' = [ceremony EXCEPT ![r][s] = IF @ = "orphan" THEN "none" ELSE outcome]
  /\ UNCHANGED <<signers, up, clock, crashes, rows, approvers>>

\* The network takes the transaction.  run still returns Err when send exits
\* with an error afterwards or prints no txid.  An orphan reports to nobody.
SendAccepted(r, s) ==
  /\ ceremony[r][s] \in {"sending", "orphan"}
  /\ moved' = [moved EXCEPT ![r] = @ + 1]
  /\ \E outcome \in {"ok", "err"} :
       ceremony' = [ceremony EXCEPT ![r][s] = IF @ = "orphan" THEN "none" ELSE outcome]
  /\ UNCHANGED <<signers, up, clock, crashes, rows, approvers>>

\* Mutant of SendRefused: the exit status of `pczt send` is not looked at.
SendStatusIgnored(r, s) ==
  /\ ceremony[r][s] \in {"sending", "orphan"}
  /\ ceremony' = [ceremony EXCEPT ![r][s] = IF @ = "orphan" THEN "none" ELSE "ok"]
  /\ UNCHANGED <<signers, up, clock, crashes, rows, approvers, moved>>

\* The network refuses the transaction, or send dies before reaching it.
SendRefused(r, s) ==
  /\ ceremony[r][s] \in {"sending", "orphan"}
  /\ ceremony' = [ceremony EXCEPT ![r][s] = IF @ = "orphan" THEN "none" ELSE "err"]
  /\ UNCHANGED <<signers, up, clock, crashes, rows, approvers, moved>>

\* Mutant of Settle: the UPDATE guarded by the status before the gather.
SettleIfQuorum(r, s) ==
  /\ up
  /\ ceremony[r][s] \in {"ok", "err"}
  /\ requests' = [requests EXCEPT ![r] =
                    CASE @ # "quorum" -> @
                      [] @ = "quorum" /\ ceremony[r][s] = "ok" -> "broadcast"
                      [] @ = "quorum" /\ ceremony[r][s] = "err" -> "failed"]
  /\ ceremony' = [ceremony EXCEPT ![r][s] = "none"]
  /\ UNCHANGED <<signers, up, clock, crashes, approvals, created_at,
                 approvers, quorumLog, moved>>

\* The last lock section of the task; it does not look at the status.
Settle(r, s) ==
  /\ up
  /\ ceremony[r][s] \in {"ok", "err"}
  /\ requests' = [requests EXCEPT ![r] =
                    IF ceremony[r][s] = "ok" THEN "broadcast" ELSE "failed"]
  /\ ceremony' = [ceremony EXCEPT ![r][s] = "none"]
  /\ UNCHANGED <<signers, up, clock, crashes, approvals, created_at,
                 approvers, quorumLog, moved>>

\* `.ok()` drops the error of that UPDATE: the task ends, the status stays.
SettleUnwritten(r, s) ==
  /\ DbErrors
  /\ up
  /\ ceremony[r][s] \in {"ok", "err"}
  /\ ceremony' = [ceremony EXCEPT ![r][s] = "none"]
  /\ UNCHANGED <<signers, up, clock, crashes, rows, approvers, moved>>

-----------------------------------------------------------------------------
LoseSigner(actor, id) ==
  /\ up
  /\ MarkLost(actor, id)
  /\ UNCHANGED <<up, clock, crashes, rows, ceremony, approvers, moved>>

\* A repair task finishes (module Recovery says how it gets there).  Without a
\* signing config repair_signer answers 412.
RestoreSigner(id) ==
  /\ up /\ Configured
  /\ signers[id] = "lost"
  /\ Restore(id)
  /\ UNCHANGED <<up, clock, crashes, rows, ceremony, approvers, moved>>

Tick ==
  /\ clock < MaxClock
  /\ clock' = clock + 1
  /\ UNCHANGED <<signers, up, crashes, rows, ceremony, approvers, moved>>

\* Every task is gone with the process; a running `pczt send` is not.
Die ==
  /\ up
  /\ crashes < MaxCrash
  /\ crashes' = crashes + 1
  /\ up' = FALSE
  /\ ceremony' = [r \in Request |-> [s \in Signer |->
                    IF ceremony[r][s] \in {"sending", "orphan"} THEN "orphan" ELSE "none"]]

Crash ==
  /\ Die
  /\ UNCHANGED <<signers, clock, rows, approvers, moved>>

\* Each statement of decide commits by itself: the process can die with the
\* decision recorded and the status not yet updated.
CrashInDecide(r, s, d) ==
  /\ RecordDecision(r, s, d)
  /\ Die
  /\ UNCHANGED <<signers, clock, requests, quorumLog, approvers, moved>>

\* main opens the database and serves; nothing looks for unfinished requests.
Boot ==
  /\ ~up
  /\ up' = TRUE
  /\ UNCHANGED <<signers, clock, crashes, rows, ceremony, approvers, moved>>

Ceremony(r, s) ==
  \/ Gather(r, s)
  \/ GatherFails(r, s)
  \/ PipelineFails(r, s)
  \/ StartSend(r, s)
  \/ SendAccepted(r, s)
  \/ SendRefused(r, s)
  \/ Settle(r, s)
  \/ SettleUnwritten(r, s)

Next ==
  \/ \E r \in Request, s \in Signer :
       \/ CreateRequest(r, s)
       \/ DecideApprove(r, s)
       \/ DecideReject(r, s)
       \/ Ceremony(r, s)
       \/ \E d \in {"approve", "reject"} : DecideErrs(r, s, d) \/ CrashInDecide(r, s, d)
  \/ \E s, t \in Signer : LoseSigner(s, t)
  \/ \E s \in Signer : RestoreSigner(s)
  \/ Tick
  \/ Crash
  \/ Boot

Spec == Init /\ [][Next]_vars

\* The runtime runs the tasks it spawned, and every tool the pipeline starts
\* ends: pipeline.rs has a timeout for zcash-sign only, the rest is assumed.
FairSpec ==
  /\ Spec
  /\ \A r \in Request, s \in Signer : WF_vars(Ceremony(r, s))
  /\ WF_vars(Boot)

-----------------------------------------------------------------------------
\* "Single-fire quorum" (THREAT_MODEL.md, README.md): however approvals race,
\* flip or arrive late, and wherever the process dies, decide makes the
\* pending -> quorum transition of a request once, and one task serves it.
SingleFire ==
  \A r \in Request :
    /\ quorumLog[r] <= 1
    /\ \A s, t \in Signer :
         ceremony[r][s] # "none" /\ ceremony[r][t] # "none" => s = t

\* The network is handed a request's transaction at most once, and only for a
\* request whose ceremony gathered a full quorum: not for one that was
\* rejected, nor for one whose approvals were withdrawn before the gather.
FundsMoveOnce ==
  \A r \in Request :
    /\ moved[r] <= 1
    /\ moved[r] = 1 => /\ requests[r] \in {"signing", "broadcast", "failed"}
                       /\ Cardinality(approvers[r]) = Quorum

\* A request shown as broadcast was taken by the network.  The converse is not
\* claimed: a send that reports an error after the network took it is "failed".
BroadcastIsPaid ==
  \A r \in Request : requests[r] = "broadcast" => moved[r] = 1

\* spawn_ceremony's comment: a ceremony is never stranded.  While the process
\* lives and its database works, a request past its quorum has a task that will
\* settle it.
NotStranded ==
  crashes = 0 /\ ~DbErrors /\ Configured =>
    \A r \in Request : requests[r] \in {"quorum", "signing"} =>
      \E s \in Signer : ceremony[r][s] \in {"spawned", "running", "sending", "ok", "err"}

\* decide reads the count and writes the status under one lock: a request is
\* seen pending only while its recorded decisions do not decide it.  A crash or
\* a failing statement inside decide is the one way to break this.
PendingIsUndecided ==
  crashes = 0 /\ ~DbErrors =>
    \A r \in Request : requests[r] = "pending" =>
      /\ Cardinality(Approved(r)) < Quorum
      /\ \A s \in Signer : approvals[r][s] # "reject"

Final == {"broadcast", "failed", "rejected"}

\* Late decisions, late tasks and reboots never reopen or overwrite a request
\* that ended, though the task's UPDATEs carry no guard on the status.
FinalStays ==
  [][\A r \in Request : requests[r] \in Final => requests'[r] = requests[r]]_vars

\* Without a crash or a failing database every request that reached its quorum
\* ends as broadcast or failed, given that the runtime runs the task and the
\* tools end.
CeremonyEnds ==
  \A r \in Request :
    requests[r] = "quorum" /\ crashes = 0 /\ ~DbErrors
      ~> requests[r] \in {"broadcast", "failed"} \/ crashes > 0

\* recovery.rs:4 says a lost signer's "daemon is out of the group".  The
\* ceremony that starts now would then run no lost signer's participant.
LostDaemonIsOut ==
  [][\A r \in Request, s \in Signer :
       ceremony[r][s] = "spawned" /\ ceremony'[r][s] = "running" =>
         approvers'[r] \subseteq NotLost]_vars

-----------------------------------------------------------------------------
\* The stage PaymentLifecycle gives a status.
StageOf(status) ==
  CASE status = "absent" -> "absent"
    [] status = "pending" -> "open"
    [] status \in {"quorum", "signing"} -> "authorised"
    [] status = "rejected" -> "refused"
    [] status \in {"broadcast", "failed"} -> "closed"

Lifecycle == INSTANCE PaymentLifecycle WITH
  stage <- [r \in Request |-> StageOf(requests[r])],
  backers <- [r \in Request |-> Approved(r)],
  moved <- moved

\* The workflow server, crashes included, keeps the promise of the abstract
\* specification: authorised by a standing quorum, paid at most once.
ImplementsLifecycle == Lifecycle!LifecycleSpec
=============================================================================
