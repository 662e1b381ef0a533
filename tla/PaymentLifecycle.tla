-------------------------- MODULE PaymentLifecycle --------------------------
(***************************************************************************)
(* What rime-server promises about a payment request, without handlers,    *)
(* tasks, locks or crashes: a request is authorised only while a quorum of *)
(* distinct signers backs it, at most once, and the network is asked to    *)
(* move its funds at most once and only after it was authorised.           *)
(***************************************************************************)
EXTENDS Naturals, FiniteSets

CONSTANTS Request, Signer, Quorum

VARIABLES
  stage,    \* the request's stage in its life
  backers,  \* the signers whose decision on record is approve
  moved     \* how often the network accepted the request's transaction

lifecycleVars == <<stage, backers, moved>>

Stage == {"absent", "open", "authorised", "refused", "closed"}

LifecycleInit ==
  /\ stage = [r \in Request |-> "absent"]
  /\ backers = [r \in Request |-> {}]
  /\ moved = [r \in Request |-> 0]

Propose(r) ==
  /\ stage[r] = "absent"
  /\ stage' = [stage EXCEPT ![r] = "open"]
  /\ UNCHANGED <<backers, moved>>

\* A signer approves; the request may become authorised with a full quorum.
Back(r, s) ==
  /\ stage[r] # "absent"
  /\ backers' = [backers EXCEPT ![r] = @ \cup {s}]
  /\ \/ UNCHANGED stage
     \/ /\ stage[r] = "open"
        /\ Cardinality(backers[r] \cup {s}) >= Quorum
        /\ stage' = [stage EXCEPT ![r] = "authorised"]
  /\ UNCHANGED moved

\* A signer rejects; an open request may be refused for good.
Oppose(r, s) ==
  /\ stage[r] # "absent"
  /\ backers' = [backers EXCEPT ![r] = @ \ {s}]
  /\ \/ UNCHANGED stage
     \/ /\ stage[r] = "open"
        /\ stage' = [stage EXCEPT ![r] = "refused"]
  /\ UNCHANGED moved

\* The one step that moves money.
MoveFunds(r) ==
  /\ stage[r] = "authorised"
  /\ moved[r] = 0
  /\ moved' = [moved EXCEPT ![r] = 1]
  /\ UNCHANGED <<stage, backers>>

Close(r) ==
  /\ stage[r] = "authorised"
  /\ stage' = [stage EXCEPT ![r] = "closed"]
  /\ UNCHANGED <<backers, moved>>

LifecycleNext ==
  \E r \in Request :
    \/ Propose(r)
    \/ \E s \in Signer : Back(r, s) \/ Oppose(r, s)
    \/ MoveFunds(r)
    \/ Close(r)

LifecycleSpec == LifecycleInit /\ [][LifecycleNext]_lifecycleVars
=============================================================================
