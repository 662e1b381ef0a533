------------------------------ MODULE Recovery ------------------------------
(***************************************************************************)
(* Signer recovery as the server runs it: mark_lost, repair_signer and the *)
(* task it spawns (rime-repair repair, then rime-repair refresh, then the  *)
(* signer is active again), over the signers table and the share files.    *)
(* A crash of the server ends its tasks but not the tools they started.    *)
(***************************************************************************)
EXTENDS SignerRegistry, ShareStore

CONSTANTS
  Overlap,  \* may a repair be asked for while another recovery runs?  The
            \* server lets it; FALSE is a caller who waits
  Faults    \* may a tool be killed or hit an I/O error, or the UPDATE of a
            \* recovery's end fail?

VARIABLES
  up,         \* the server is running
  task,       \* the state of the task spawned for each job
  lostShares  \* the key packages on devices reported lost, per signer

vars == <<signers, config, tmp, mode, pc, lost, at, field, read, pub, doc, fd,
          up, task, lostShares>>

Task == {"none", "repair", "refresh", "done", "failed", "gone"}

TypeOK ==
  /\ RegistryTypeOK
  /\ StoreTypeOK
  /\ up \in BOOLEAN
  /\ task \in [Job -> Task]
  /\ lostShares \in [Signer -> SUBSET Generation]

Init ==
  /\ RegistryInit
  /\ StoreInit
  /\ up = TRUE
  /\ task = [j \in Job |-> "none"]
  /\ lostShares = [s \in Signer |-> {}]

Busy(j) == task[j] \in {"repair", "refresh"} \/ Running(j)

-----------------------------------------------------------------------------
\* Mutant of LoseSigner: mark_lost without its answer 409 to a group at its
\* threshold.
LoseAnySigner(actor, id) ==
  /\ up
  /\ SignerByToken(actor)
  /\ signers[id] # "lost"
  /\ signers' = [signers EXCEPT ![id] = "lost"]
  /\ lostShares' = [lostShares EXCEPT ![id] = @ \cup
                   {config[id].key_package : k \in {config[id].state} \cap {"whole"}}]
  /\ UNCHANGED <<storeVars, up, task>>

\* mark_lost; the device goes with a copy of the share its config holds.
LoseSigner(actor, id) ==
  /\ up
  /\ MarkLost(actor, id)
  /\ lostShares' = [lostShares EXCEPT ![id] = @ \cup
                   {config[id].key_package : k \in {config[id].state} \cap {"whole"}}]
  /\ UNCHANGED <<storeVars, up, task>>

\* repair_signer past its 401, 403, 404 and 409 answers.  Nothing records that
\* a repair of id is already under way.
RepairSigner(actor, id, j) ==
  /\ up
  /\ SignerByToken(actor) /\ actor # id
  /\ signers[id] = "lost"
  /\ task[j] = "none"
  /\ Overlap \/ \A k \in Job : ~Busy(k)
  /\ task' = [task EXCEPT ![j] = "repair"]
  /\ Start(j, "repair", id)
  /\ UNCHANGED <<signers, up, lostShares>>

\* Mutant of RepairDone: the signer is active before the shares are refreshed.
RestoredBeforeRefresh(j) ==
  /\ task[j] = "repair" /\ pc[j] = "exit0"
  /\ task' = [task EXCEPT ![j] = "refresh"]
  /\ Start(j, "refresh", lost[j])
  /\ Restore(lost[j])
  /\ UNCHANGED <<up, lostShares>>

\* recovery::repair returned Ok: the task starts recovery::refresh.
RepairDone(j) ==
  /\ task[j] = "repair" /\ pc[j] = "exit0"
  /\ task' = [task EXCEPT ![j] = "refresh"]
  /\ Start(j, "refresh", lost[j])
  /\ UNCHANGED <<signers, up, lostShares>>

\* Mutant of RecoveryFailed: the result of the first tool is dropped.
RefreshFailed(j) ==
  /\ task[j] = "refresh" /\ pc[j] = "exit1"
  /\ task' = [task EXCEPT ![j] = "failed"]
  /\ UNCHANGED <<signers, storeVars, up, lostShares>>

\* Either tool failed: recovery.failed, and the signer stays lost.
RecoveryFailed(j) ==
  /\ task[j] \in {"repair", "refresh"} /\ pc[j] = "exit1"
  /\ task' = [task EXCEPT ![j] = "failed"]
  /\ UNCHANGED <<signers, storeVars, up, lostShares>>

\* Both tools succeeded: the signer is active, whatever its status was.  The
\* UPDATE's error is dropped, and recovery.done is reported all the same; the
\* lock section that reports it changes nothing modelled here.
RecoveryDone(j) ==
  /\ task[j] = "refresh" /\ pc[j] = "exit0"
  /\ Restore(lost[j]) \/ (Faults /\ UNCHANGED signers)
  /\ task' = [task EXCEPT ![j] = "done"]
  /\ UNCHANGED <<storeVars, up, lostShares>>

Tool(j) == ToolStep(j) /\ UNCHANGED <<signers, up, task, lostShares>>

ToolFault(j) == Faults /\ ToolDies(j) /\ UNCHANGED <<signers, up, task, lostShares>>

Crash ==
  /\ up
  /\ up' = FALSE
  /\ task' = [j \in Job |-> IF task[j] \in {"repair", "refresh"} THEN "gone" ELSE task[j]]
  /\ UNCHANGED <<signers, storeVars, lostShares>>

Boot == ~up /\ up' = TRUE /\ UNCHANGED <<signers, storeVars, task, lostShares>>

Next ==
  \/ \E actor, id \in Signer :
       \/ LoseSigner(actor, id)
       \/ \E j \in Job : RepairSigner(actor, id, j)
  \/ \E j \in Job :
       \/ RepairDone(j) \/ RecoveryFailed(j) \/ RecoveryDone(j)
       \/ Tool(j) \/ ToolFault(j)
  \/ Crash
  \/ Boot

Spec == Init /\ [][Next]_vars

\* The runtime schedules its tasks, and the operating system the tools.
FairSpec ==
  /\ Spec
  /\ \A j \in Job :
       WF_vars(RepairDone(j) \/ RecoveryFailed(j) \/ RecoveryDone(j) \/ Tool(j))

-----------------------------------------------------------------------------
\* "the old share is now dead" (main.rs:707): once a signer is active again, no
\* share lost with one of its devices signs with any other signer's share.
OldSharesAreDead ==
  \A s \in Signer : signers[s] = "active" =>
    \A t \in Signer \ {s} :
      config[t].state = "whole" => config[t].key_package \notin lostShares[s]

\* A threshold of signers who can authenticate hold shares that sign together.
ActiveCanSign ==
  \E S \in SUBSET NotLost : Cardinality(S) = Quorum /\ SignsTogether(S)

\* "{name}'s signer was recovered from the other signers. Treasury address
\* unchanged" (main.rs:707): when every recovery asked for has reported
\* recovery.done, some signers who may approve a payment can also sign it.
DoneKeepsTreasury ==
  (\A j \in Job : task[j] \in {"none", "done"}) => ActiveCanSign

\* "Any two of three signers can authorize a payment" (README.md:30-31): unless
\* a refresh is under way or broke off, every threshold of the signers who can
\* authenticate signs together, whatever repairs failed, tools died or servers
\* crashed.  A refresh that broke off is what NotFrozen is about.
AnyQuorumSigns ==
  (\A j \in Job : mode[j] = "refresh" => pc[j] = "exit0") =>
    \A S \in SUBSET NotLost : Cardinality(S) = Quorum => SignsTogether(S)

\* A repair of id would pass its verification: the helpers' configs can be read
\* and their shares add up to the one recorded in the first of them.
Repairable(id) ==
  LET helpers == Configs("repair", id)
      package == config[FirstOf(helpers)].public_key_package IN
  \A s \in helpers : config[s].state = "whole" /\ config[s].key_package = package

\* "Lose a device and the remaining signers regenerate its share" (README.md:
\* 38-39): when no recovery runs, signers who can authenticate can sign, or some
\* lost signer can be repaired.
NotFrozen ==
  (\A j \in Job : ~Busy(j)) =>
    ActiveCanSign \/ \E id \in Signer : signers[id] = "lost" /\ Repairable(id)

\* "all shares must rotate together" (rime-repair/src/main.rs:182): when no
\* recovery runs and none broke off, every pair of signers signs together and
\* every config holds the public data the next repair verifies against.
RotatedTogether ==
  (\A j \in Job : task[j] \in {"none", "done"}) =>
    \A s, t \in Signer :
      config[s].state = "whole" /\ config[s].key_package = config[t].public_key_package

\* A repair only writes what its helpers can prove: when recovery.refresh
\* starts, the configs are whole and hold shares of one polynomial, so that
\* wherever the refresh stops, some threshold of configs still agrees.
RefreshStartsAgreed ==
  [][\A j \in Job : task[j] = "repair" /\ task'[j] = "refresh" =>
       SignsTogether(Signer)]_vars

\* A recovery that is under way ends: done, failed, or gone with the server.
RecoveryEnds ==
  \A j \in Job : task[j] = "repair" ~> task[j] \in {"done", "failed", "gone"}

\* Recovery drives the signers table within what SignerRegistry allows.
KeepsRegistry == RegistrySpec
=============================================================================
