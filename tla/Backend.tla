------------------------------- MODULE Backend -------------------------------
(***************************************************************************)
(* The server as a dashboard meets it: the statuses and votes its polls    *)
(* read, the calls it answers, and the events it publishes on the way.     *)
(* Payments, SignerRegistry and Recovery have the same handlers in detail; *)
(* here one recovery runs at a time, the server does not crash and its     *)
(* database takes every write.                                             *)
(***************************************************************************)
EXTENDS Group, Feed

CONSTANTS
  Request,  \* the ids the requests table gives out, 1, 2, ...
  Steps     \* the progress steps a ceremony reports, in order

\* Ids are numbers from 1; 0 stands for a null id.
ASSUME BackendAssumption == Signer \subseteq Nat \ {0} /\ Request \subseteq Nat \ {0}

VARIABLES
  status,    \* requests.status, "none" for a row not yet inserted
  votes,     \* approvals.decision, per request and signer
  progress,  \* how many of Steps the ceremony of a request has reported
  registry,  \* signers.status
  task       \* the recovery task: which signer, and how far it is

serverVars == <<status, votes, progress, registry, task>>

Status == {"none", "pending", "quorum", "signing", "broadcast", "failed", "rejected"}
Final == {"broadcast", "failed", "rejected"}
Vote == {"none", "approve", "reject"}
Phase == {"idle", "asked", "repair", "refresh", "updated"}
NoTask == [signer |-> 0, phase |-> "idle"]

BackendTypeOK ==
  /\ status \in [Request -> Status]
  /\ votes \in [Request -> [Signer -> Vote]]
  /\ progress \in [Request -> 0..Len(Steps)]
  /\ registry \in [Signer -> {"active", "lost"}]
  /\ task \in [signer : Signer \cup {0}, phase : Phase]

\* A server that has been running: some requests are there already, and the
\* first signers have approved the ones at quorum.
BackendInit(rows) ==
  /\ status = rows
  /\ votes = [r \in Request |-> [s \in Signer |->
       IF rows[r] = "quorum" /\ Cardinality({t \in Signer : t < s}) < Quorum
       THEN "approve" ELSE "none"]]
  /\ progress = [r \in Request |-> 0]
  /\ registry = [s \in Signer |-> "active"]
  /\ task = NoTask

Event(r, step) == [request |-> r, step |-> step]

Approvals(r) == Cardinality({s \in Signer : votes[r][s] = "approve"})

\* signer_by_token and require_signer: a lost signer's token is refused.
TokenWorks(s) == registry[s] # "lost"

\* One row as list_requests returns it.
Row(r) == [status |-> status[r], approvals |-> Approvals(r)]

-----------------------------------------------------------------------------
\* create_request: the next id, pending.
InsertRequest(r) ==
  /\ status[r] = "none" /\ \A q \in Request : q < r => status[q] # "none"
  /\ status' = [status EXCEPT ![r] = "pending"]
  /\ Publish(Event(r, "created"))
  /\ UNCHANGED <<votes, progress, registry, task>>

\* decide: the vote replaces the signer's earlier one whatever the status, and
\* moves a request that is still pending.
RecordVote(s, r, d) ==
  LET approvals == Cardinality({t \in Signer : votes'[r][t] = "approve"}) IN
  /\ status[r] # "none"
  /\ votes' = [votes EXCEPT ![r][s] = d]
  /\ status' = [status EXCEPT ![r] =
       CASE @ = "pending" /\ d = "reject" -> "rejected"
         [] @ = "pending" /\ d = "approve" /\ approvals >= Quorum -> "quorum"
         [] OTHER -> @]
  /\ Publish(Event(r, "decision"))
  /\ UNCHANGED <<progress, registry, task>>

\* The ceremony's task takes the request up; nothing is published.
Gather(r) ==
  /\ status[r] = "quorum"
  /\ status' = [status EXCEPT ![r] = "signing"]
  /\ UNCHANGED <<votes, progress, registry, task, feedVars>>

\* Mutant of ReportStep: the pipeline is started before the status is written.
ReportStepEarly(r) ==
  /\ status[r] \in {"quorum", "signing"} /\ progress[r] < Len(Steps)
  /\ progress' = [progress EXCEPT ![r] = @ + 1]
  /\ Publish(Event(r, Steps[progress[r] + 1]))
  /\ UNCHANGED <<status, votes, registry, task>>

\* pipeline::run reports its next step.
ReportStep(r) ==
  /\ status[r] = "signing" /\ progress[r] < Len(Steps)
  /\ progress' = [progress EXCEPT ![r] = @ + 1]
  /\ Publish(Event(r, Steps[progress[r] + 1]))
  /\ UNCHANGED <<status, votes, registry, task>>

\* pipeline::run returned a txid: "broadcast" is published a second time.
CeremonyOk(r) ==
  /\ status[r] = "signing" /\ progress[r] = Len(Steps)
  /\ status' = [status EXCEPT ![r] = "broadcast"]
  /\ Publish(Event(r, "broadcast"))
  /\ UNCHANGED <<votes, progress, registry, task>>

\* pipeline::run failed, at whatever step.
CeremonyFailed(r) ==
  /\ status[r] = "signing"
  /\ status' = [status EXCEPT ![r] = "failed"]
  /\ Publish(Event(r, "failed"))
  /\ UNCHANGED <<votes, progress, registry, task>>

-----------------------------------------------------------------------------
\* mark_lost's two 409 answers.
CanLose(id) ==
  /\ Cardinality({s \in Signer : registry[s] # "lost"}) - 1 >= Quorum
  /\ registry[id] # "lost"

SetLost(id) ==
  /\ CanLose(id)
  /\ registry' = [registry EXCEPT ![id] = "lost"]
  /\ Publish(Event(0, "recovery.lost"))
  /\ UNCHANGED <<status, votes, progress, task>>

\* repair_signer: the task is spawned, its first event still to come.
StartRecovery(id) ==
  /\ registry[id] = "lost" /\ task.phase = "idle"
  /\ task' = [signer |-> id, phase |-> "asked"]
  /\ UNCHANGED <<status, votes, progress, registry, feedVars>>

\* The task reports the tool it starts next.
ReportRecovery ==
  \E p \in {<<"asked", "repair">>, <<"repair", "refresh">>} :
    /\ task.phase = p[1]
    /\ task' = [task EXCEPT !.phase = p[2]]
    /\ Publish(Event(0, IF p[2] = "repair" THEN "recovery.repair" ELSE "recovery.refresh"))
    /\ UNCHANGED <<status, votes, progress, registry>>

\* Both tools are done: the row is updated first, the event follows.
ReactivateSigner ==
  /\ task.phase = "refresh"
  /\ registry' = [registry EXCEPT ![task.signer] = "active"]
  /\ task' = [task EXCEPT !.phase = "updated"]
  /\ UNCHANGED <<status, votes, progress, feedVars>>

RecoveryDone ==
  /\ task.phase = "updated"
  /\ task' = NoTask
  /\ Publish(Event(0, "recovery.done"))
  /\ UNCHANGED <<status, votes, progress, registry>>

RecoveryFailed ==
  /\ task.phase \in {"repair", "refresh"}
  /\ task' = NoTask
  /\ Publish(Event(0, "recovery.failed"))
  /\ UNCHANGED <<status, votes, progress, registry>>

Ceremony(r) == Gather(r) \/ ReportStep(r) \/ CeremonyOk(r) \/ CeremonyFailed(r)

RecoveryTask == ReportRecovery \/ ReactivateSigner \/ RecoveryDone \/ RecoveryFailed
=============================================================================
