------------------------------- MODULE Session -------------------------------
(***************************************************************************)
(* What the two dashboards do alike: the engine behind the screen (lists   *)
(* polled from the server, decisions taken optimistically, overlays driven *)
(* by live events), its calls in flight, and the server it talks to.       *)
(* Dashboard and WebApp add when and what the React and the plain          *)
(* JavaScript front end render, and which buttons that offers.             *)
(***************************************************************************)
EXTENDS Backend

CONSTANT
  Budgets  \* how a run starts: on which screen, with which requests there, with
           \* how many operations and failures to come, and with how many
           \* answers to polls of one list on their way at once

ASSUME BudgetsAssumption ==
  \A b \in Budgets :
    /\ b.me \in Signer \cup {0}
    /\ b.rows \in [Request -> Status]
    /\ b.ops \in Nat /\ b.faults \in Nat /\ b.polls \in Nat

\* A repair is asked for with another signer's token.
ASSUME OthersAssumption == Cardinality(Signer) >= 2

VARIABLES
  me,                \* the signer of a device, 0 on the desktop
  requests,          \* the polled rows, status "none" for a row not listed
  signers,           \* the polled signers, "none" for one not listed
  decisions,         \* this session's answers, per signer and request
  ceremonies,        \* the overlay of the ceremonies' events
  activeCeremonyId,  \* the request shown on the strip, 0 for null
  recovery,          \* the overlay of the recovery's events
  timers,            \* the revival windows running, each for the signer it closed over
  calls,             \* POSTs under way
  answers,           \* lists the server has read and the dashboard not yet
  budget             \* operations and network failures left to this run, and its polls

engineVars == <<requests, signers, decisions, ceremonies, activeCeremonyId, recovery, timers>>
sessionVars == <<me, engineVars, calls, answers, budget>>

CEREMONY_ORDER == <<"pczt.create", "sighash.extract", "sighash.ready", "ceremony.start",
  "ceremony.join", "ceremony.signed", "pczt.signed", "pczt.prove", "pczt.combine",
  "broadcast", "confirmed">>

RECOVERY_ORDER == <<"recovery.repair", "recovery.refresh", "recovery.done">>

\* indexOf, counted from 1, and 0 for a step that is not in the order.
IndexOf(order, step) ==
  LET at == {i \in DOMAIN order : order[i] = step}
  IN  IF at = {} THEN 0 ELSE CHOOSE i \in at : \A j \in at : i <= j

BROADCAST_IDX == IndexOf(CEREMONY_ORDER, "broadcast")

Greater(a, b) == IF a < b THEN b ELSE a
First(S) == CHOOSE s \in S : \A t \in S : s <= t

NoRow == [status |-> "none", approvals |-> 0]
NoCeremony == [reached |-> 0, latest |-> "none", failed |-> FALSE]
NoRecovery == [on |-> FALSE, signer |-> 0, reached |-> 0, failed |-> FALSE,
               done |-> FALSE, reviving |-> FALSE]

\* The steps of a ceremony that the pipeline reports and the dashboards know.
CeremonyStep == {CEREMONY_ORDER[i] : i \in DOMAIN CEREMONY_ORDER}

ASSUME StepsAssumption == Steps \in Seq(CeremonyStep)

\* The texts a failure or a step carries are left out: whether there is one is
\* kept.
Latest == CeremonyStep \cup {"none", "created", "decision", "failed"}

ListedSigner == {"none", "active", "lost", "repairing"}

CallPhase == {"sent", "ok", "refused"}
Call ==
  [op : {"decide"}, signer : Signer, by : Signer, request : Request,
   vote : {"approve", "reject"}, phase : CallPhase]
  \cup [op : {"lost", "repair"}, signer : Signer, by : Signer, request : {0}, vote : {"none"},
        phase : CallPhase]
  \cup [op : {"create"}, signer : {0}, by : Signer, request : {0}, vote : {"none"},
        phase : CallPhase]

RowList == [Request -> [status : Status, approvals : 0..Cardinality(Signer)]]
SignerList == [Signer -> {"active", "lost"}]

SessionTypeOK ==
  /\ BackendTypeOK
  /\ live \in BOOLEAN /\ Len(inbox) <= Cap
  /\ me \in Signer \cup {0}
  /\ requests \in [Request -> [status : Status, approvals : Nat]]
  /\ signers \in [Signer -> ListedSigner]
  /\ decisions \in [Signer -> [Request -> Vote]]
  /\ ceremonies \in [Request -> [reached : 0..Len(CEREMONY_ORDER), latest : Latest,
                                 failed : BOOLEAN]]
  /\ activeCeremonyId \in Request \cup {0}
  /\ recovery \in [on : BOOLEAN, signer : Signer \cup {0}, reached : 0..3, failed : BOOLEAN,
                   done : BOOLEAN, reviving : BOOLEAN]
  /\ timers \subseteq Signer \cup {0}
  /\ calls \subseteq Call
  /\ \A a \in answers : \/ a.list = "requests" /\ a.rows \in RowList
                        \/ a.list = "signers" /\ a.rows \in SignerList
  /\ budget \in [ops : Nat, faults : Nat, polls : Nat]

SessionInit ==
  /\ \E b \in Budgets : /\ BackendInit(b.rows)
                        /\ me = b.me
                        /\ budget = [ops |-> b.ops, faults |-> b.faults, polls |-> b.polls]
  /\ FeedInit
  /\ requests = [r \in Request |-> NoRow]
  /\ signers = [s \in Signer |-> "none"]
  /\ decisions = [s \in Signer |-> [r \in Request |-> "none"]]
  /\ ceremonies = [r \in Request |-> NoCeremony]
  /\ activeCeremonyId = 0
  /\ recovery = NoRecovery
  /\ timers = {}
  /\ calls = {}
  /\ answers = {}

\* Every operation of a user, here or elsewhere, and every network failure
\* comes out of the run's budget.
Spend(what) == budget[what] > 0 /\ budget' = [budget EXCEPT ![what] = @ - 1]

-----------------------------------------------------------------------------
\* Selectors.

RawStatus(id) == IF signers[id] = "none" THEN "active" ELSE signers[id]

IsRepairing(id) ==
  \/ RawStatus(id) = "repairing"
  \/ recovery.on /\ recovery.signer = id /\ ~recovery.done

\* Date.now() < reviveUntil until the window's timer fires.
IsReviving(id) ==
  recovery.on /\ recovery.signer = id /\ recovery.done /\ recovery.reviving

StatusOf(id) ==
  IF IsReviving(id) THEN "active" ELSE IF IsRepairing(id) THEN "repairing" ELSE RawStatus(id)

Down(id) == StatusOf(id) \in {"lost", "repairing"}

\* The few newest of a set of requests; ids grow with created_at.
Newest(S) == {r \in S : Cardinality({q \in S : q > r}) < 4}

\* Mutant of PhoneQueueOf: a request stays open after this signer's answer.
PhoneQueueForgetsMine(s) ==
  LET mine == {r \in Request : decisions[s][r] # "none"} IN
  [open    |-> {r \in Request : requests[r].status = "pending"},
   others  |-> {r \in Request \ mine : requests[r].status \in {"quorum", "signing"}},
   decided |-> Newest({r \in mine : requests[r].status # "none"})]

PhoneQueueOf(s) ==
  LET mine == {r \in Request : decisions[s][r] # "none"} IN
  [open    |-> {r \in Request \ mine : requests[r].status = "pending"},
   others  |-> {r \in Request \ mine : requests[r].status \in {"quorum", "signing"}},
   decided |-> Newest({r \in mine : requests[r].status # "none"})]

\* The token of the polls and of the ticket: the device's own, else Alice's.
ReadToken == IF me = 0 THEN First(Signer) ELSE me

-----------------------------------------------------------------------------
\* Polling.  Every list is asked for on a timer and after events and calls: at
\* any time.  The server reads it at once and the answer arrives whenever, in
\* any order; a lost signer's token gets 401 and the list stays as it was.

Poll(list, rows) ==
  /\ TokenWorks(ReadToken)
  /\ Cardinality({a \in answers : a.list = list}) < budget.polls
  /\ answers' = answers \cup {[list |-> list, rows |-> rows]}
  /\ UNCHANGED <<serverVars, feedVars, me, engineVars, calls, budget>>

PollRequests == Poll("requests", [r \in Request |-> Row(r)])
PollSigners == Poll("signers", registry)

\* Mutant of TakeRequests: an optimistic quorum is kept over the server's row.
TakeRequestsKeepingQuorum(a) ==
  /\ a \in answers /\ a.list = "requests"
  /\ requests' = [r \in Request |->
       IF requests[r].status = "quorum" THEN requests[r] ELSE a.rows[r]]
  /\ answers' = answers \ {a}
  /\ UNCHANGED <<serverVars, feedVars, me, signers, decisions, ceremonies, activeCeremonyId,
                 recovery, timers, calls, budget>>

\* refreshRequests past its await: the list is replaced by the answer, however
\* old it is.
TakeRequests(a) ==
  /\ a \in answers /\ a.list = "requests"
  /\ requests' = a.rows
  /\ answers' = answers \ {a}
  /\ UNCHANGED <<serverVars, feedVars, me, signers, decisions, ceremonies, activeCeremonyId,
                 recovery, timers, calls, budget>>

\* Mutant of TakeSigners: a status set locally is kept over the server's.
TakeSignersOnce(a) ==
  /\ a \in answers /\ a.list = "signers"
  /\ signers' = [s \in Signer |-> IF signers[s] = "none" THEN a.rows[s] ELSE signers[s]]
  /\ answers' = answers \ {a}
  /\ UNCHANGED <<serverVars, feedVars, me, requests, decisions, ceremonies, activeCeremonyId,
                 recovery, timers, calls, budget>>

\* refreshSigners past its await.
TakeSigners(a) ==
  /\ a \in answers /\ a.list = "signers"
  /\ signers' = a.rows
  /\ answers' = answers \ {a}
  /\ UNCHANGED <<serverVars, feedVars, me, requests, decisions, ceremonies, activeCeremonyId,
                 recovery, timers, calls, budget>>

\* A poll fails on its way: the catch keeps the last known list.
LosePoll(a) ==
  /\ a \in answers
  /\ Spend("faults")
  /\ answers' = answers \ {a}
  /\ UNCHANGED <<serverVars, feedVars, me, engineVars, calls>>

-----------------------------------------------------------------------------
\* Live events.

\* Mutant of ShowCeremony: the overlay goes to the step of the last event.
ShowLastStep(e) ==
  LET idx == IndexOf(CEREMONY_ORDER, e.step) IN
  /\ ceremonies' = [ceremonies EXCEPT ![e.request] =
       [reached |-> idx, latest |-> e.step, failed |-> @.failed \/ e.step = "failed"]]
  /\ activeCeremonyId' = IF idx > 0 \/ e.step = "failed" THEN e.request ELSE activeCeremonyId
  /\ UNCHANGED <<requests, signers, decisions, recovery, timers>>

\* onCeremonyEvent: the overlay of the event's request moves, and a step of the
\* pipeline or a failure brings it to the strip.  (scheduleRefresh asks for
\* polls that may come at any time anyway.)
ShowCeremony(e) ==
  LET idx == IndexOf(CEREMONY_ORDER, e.step) IN
  /\ ceremonies' = [ceremonies EXCEPT ![e.request] =
       [reached |-> Greater(@.reached, idx), latest |-> e.step,
        failed |-> @.failed \/ e.step = "failed"]]
  /\ activeCeremonyId' = IF idx > 0 \/ e.step = "failed" THEN e.request ELSE activeCeremonyId
  /\ UNCHANGED <<requests, signers, decisions, recovery, timers>>

\* The signer a recovery is taken to be about, for the events do not say: the
\* first one listed as lost or repairing, else this device's, else nobody's.
Candidate ==
  LET lost == {s \in Signer : signers[s] \in {"lost", "repairing"}}
  IN  IF lost # {} THEN First(lost) ELSE me

\* onRecoveryEvent, any step but recovery.lost (which asks for polls only).
ShowRecovery(e) ==
  LET prev == IF recovery.on THEN recovery ELSE [NoRecovery EXCEPT !.on = TRUE]
      id == IF prev.signer = 0 THEN Candidate ELSE prev.signer
      done == e.step = "recovery.done"
  IN
  /\ recovery' = [prev EXCEPT !.signer = id,
                              !.reached = Greater(@, IndexOf(RECOVERY_ORDER, e.step)),
                              !.failed = @ \/ e.step = "recovery.failed",
                              !.done = @ \/ done,
                              !.reviving = @ \/ done]
  /\ signers' = [s \in Signer |-> IF done /\ s = id THEN "active" ELSE signers[s]]
  /\ timers' = IF done THEN timers \cup {id} ELSE timers
  /\ UNCHANGED <<requests, decisions, ceremonies, activeCeremonyId>>

\* onmessage: the event is handed to the handler of its kind.
HandleEvent ==
  /\ Receive
  /\ LET e == Head(inbox) IN
       \/ e.request # 0 /\ ShowCeremony(e)
       \/ e.request = 0 /\ e.step = "recovery.lost" /\ UNCHANGED engineVars
       \/ e.request = 0 /\ e.step # "recovery.lost" /\ ShowRecovery(e)
  /\ UNCHANGED <<serverVars, me, calls, answers, budget>>

\* The revival window ends; the overlay goes if it is still the finished one, and
\* one that stays revives no longer than the last window.
EndRevival(f) ==
  /\ f \in timers
  /\ timers' = timers \ {f}
  /\ recovery' = IF recovery.on /\ recovery.signer = f /\ recovery.done
                 THEN NoRecovery ELSE [recovery EXCEPT !.reviving = @ /\ timers' # {}]
  /\ UNCHANGED <<serverVars, feedVars, me, requests, signers, decisions, ceremonies,
                 activeCeremonyId, calls, answers, budget>>

\* subscribeEvents comes up, with a ticket for the reader's token, and down.
StreamUp ==
  /\ TokenWorks(ReadToken) /\ Subscribe
  /\ UNCHANGED <<serverVars, sessionVars>>

StreamDown ==
  /\ HangUp /\ Spend("faults")
  /\ UNCHANGED <<serverVars, me, engineVars, calls, answers>>

-----------------------------------------------------------------------------
\* Calls.  A call is sent, the server answers it, the answer is taken; on the
\* network either way may fail, and the caller cannot tell which.

NewCall(op, id, by, r, d) ==
  calls' = calls \cup {[op |-> op, signer |-> id, by |-> by, request |-> r, vote |-> d,
                        phase |-> "sent"]}

Answer(c, p) == calls' = (calls \ {c}) \cup {[c EXCEPT !.phase = p]}

Sent(c, op) == c \in calls /\ c.op = op /\ c.phase = "sent"

\* Whether the server does what the call asks.
Accepts(c) ==
  /\ TokenWorks(c.by)
  /\ c.op = "lost" => CanLose(c.signer)
  /\ c.op = "repair" => c.by # c.signer /\ registry[c.signer] = "lost"

ServeDecide(c) ==
  /\ Sent(c, "decide") /\ Accepts(c)
  /\ RecordVote(c.signer, c.request, c.vote)
  /\ Answer(c, "ok")
  /\ UNCHANGED <<me, engineVars, answers, budget>>

ServeCreate(c) ==
  /\ Sent(c, "create") /\ Accepts(c)
  /\ \E r \in Request : InsertRequest(r)
  /\ Answer(c, "ok")
  /\ UNCHANGED <<me, engineVars, answers, budget>>

ServeLost(c) ==
  /\ Sent(c, "lost") /\ Accepts(c)
  /\ SetLost(c.signer)
  /\ Answer(c, "ok")
  /\ UNCHANGED <<me, engineVars, answers, budget>>

ServeRepair(c) ==
  /\ Sent(c, "repair") /\ Accepts(c)
  /\ StartRecovery(c.signer)
  /\ Answer(c, "ok")
  /\ UNCHANGED <<me, engineVars, answers, budget>>

\* 401, 403 or 409.
RefuseCall(c) ==
  /\ c \in calls /\ c.phase = "sent" /\ ~Accepts(c)
  /\ Answer(c, "refused")
  /\ UNCHANGED <<serverVars, feedVars, me, engineVars, answers, budget>>

\* The request or its answer is lost: fetch rejects in both cases.
LoseCall(c) ==
  /\ c \in calls /\ c.phase \in {"sent", "ok"}
  /\ Spend("faults")
  /\ Answer(c, "refused")
  /\ UNCHANGED <<serverVars, feedVars, me, engineVars, answers>>

-----------------------------------------------------------------------------
\* What the handlers do to the engine; the front ends add their rendering.

\* decide up to its await: the answer and its effect are shown at once.
EnterDecision(s, r, d) ==
  LET n == requests[r].approvals + 1 IN
  /\ Spend("ops")
  /\ decisions' = [decisions EXCEPT ![s][r] = d]
  /\ requests' = IF requests[r].status = "none" \/ d # "approve" THEN requests
                 ELSE [requests EXCEPT ![r] =
                        [status |-> IF n >= Quorum /\ @.status = "pending"
                                    THEN "quorum" ELSE @.status,
                         approvals |-> n]]
  /\ NewCall("decide", s, s, r, d)
  /\ UNCHANGED <<serverVars, feedVars, me, signers, ceremonies, activeCeremonyId, recovery,
                 timers, answers>>

Finish(c, op, p) == c \in calls /\ c.op = op /\ c.phase = p /\ calls' = calls \ {c}

DecisionTaken(c) ==
  /\ Finish(c, "decide", "ok")
  /\ UNCHANGED <<serverVars, feedVars, me, engineVars, answers, budget>>

\* Mutant of DecisionFailed: the answer is not taken back.
DecisionStands(c) ==
  /\ Finish(c, "decide", "refused")
  /\ UNCHANGED <<serverVars, feedVars, me, engineVars, answers, budget>>

\* decide's catch: the answer is taken back, its effect on the row is not.
DecisionFailed(c) ==
  /\ Finish(c, "decide", "refused")
  /\ decisions' = [decisions EXCEPT ![c.signer][c.request] = "none"]
  /\ UNCHANGED <<serverVars, feedVars, me, requests, signers, ceremonies, activeCeremonyId,
                 recovery, timers, answers, budget>>

\* markLost posts with the signer's own token.
ReportLost(s) ==
  /\ Spend("ops")
  /\ NewCall("lost", s, s, 0, "none")
  /\ UNCHANGED <<serverVars, feedVars, me, engineVars, answers>>

LostTaken(c) ==
  /\ Finish(c, "lost", "ok")
  /\ signers' = [signers EXCEPT ![c.signer] = "lost"]
  /\ UNCHANGED <<serverVars, feedVars, me, requests, decisions, ceremonies, activeCeremonyId,
                 recovery, timers, answers, budget>>

LostFailed(c) ==
  /\ Finish(c, "lost", "refused")
  /\ UNCHANGED <<serverVars, feedVars, me, engineVars, answers, budget>>

\* The signer whose token asks for a repair: the first other one listed active.
Helper(s) ==
  LET others == Signer \ {s}
      active == {t \in others : RawStatus(t) = "active"}
  IN  First(IF active # {} THEN active ELSE others)

\* repair up to its await.  The runs ask for one recovery at a time: Recovery
\* shows what two at once do.
AskRepair(s) ==
  /\ task.phase = "idle" /\ \A c \in calls : c.op # "repair"
  /\ Spend("ops")
  /\ recovery' = [NoRecovery EXCEPT !.on = TRUE, !.signer = s]
  /\ signers' = [signers EXCEPT ![s] = "repairing"]
  /\ NewCall("repair", s, Helper(s), 0, "none")
  /\ UNCHANGED <<serverVars, feedVars, me, requests, decisions, ceremonies,
                 activeCeremonyId, timers, answers>>

RepairTaken(c) ==
  /\ Finish(c, "repair", "ok")
  /\ UNCHANGED <<serverVars, feedVars, me, engineVars, answers, budget>>

RepairFailed(c) ==
  /\ Finish(c, "repair", "refused")
  /\ recovery' = IF recovery.on /\ recovery.signer = c.signer
                 THEN [recovery EXCEPT !.failed = TRUE] ELSE recovery
  /\ UNCHANGED <<serverVars, feedVars, me, requests, signers, decisions, ceremonies,
                 activeCeremonyId, timers, answers, budget>>

\* A valid form is submitted, for the signer whose token the front end uses; its
\* button is disabled until the answer.
SubmitRequest(by) ==
  /\ me = 0 /\ \A c \in calls : c.op # "create"
  /\ \E r \in Request : status[r] = "none"
  /\ Spend("ops")
  /\ NewCall("create", 0, by, 0, "none")
  /\ UNCHANGED <<serverVars, feedVars, me, engineVars, answers>>

\* The form is cleared on success and kept on failure.
RequestCreated(c) ==
  /\ Finish(c, "create", "ok")
  /\ UNCHANGED <<serverVars, feedVars, me, engineVars, answers, budget>>

RequestRefused(c) ==
  /\ Finish(c, "create", "refused")
  /\ UNCHANGED <<serverVars, feedVars, me, engineVars, answers, budget>>

-----------------------------------------------------------------------------
\* The rest of the world: other devices and command-line clients.  A signer
\* answers on one screen only; a loss or a repair is reported from anywhere.

Elsewhere ==
  /\ Spend("ops")
  /\ \/ me # 0 /\ \E s \in Signer \ {me}, r \in Request, d \in {"approve", "reject"} :
          TokenWorks(s) /\ status[r] = "pending" /\ RecordVote(s, r, d)
     \/ me # 0 /\ \E r \in Request : InsertRequest(r)
     \/ \E s \in Signer : SetLost(s)
     \/ /\ \A c \in calls : c.op # "repair"
        /\ \E s \in Signer : StartRecovery(s)
  /\ UNCHANGED <<me, engineVars, calls, answers>>

Server ==
  /\ RecoveryTask \/ \E r \in Request : Ceremony(r)
  /\ UNCHANGED sessionVars

\* What the server does about a call that reaches it.
AnswerCall(c) ==
  ServeDecide(c) \/ ServeCreate(c) \/ ServeLost(c) \/ ServeRepair(c) \/ RefuseCall(c)

\* What happens on the network and the server, and shows nothing yet.
Network ==
  \/ PollRequests \/ PollSigners \/ StreamUp \/ StreamDown
  \/ \E a \in answers : LosePoll(a)
  \/ \E c \in calls : AnswerCall(c) \/ LoseCall(c)
  \/ Elsewhere \/ Server
=============================================================================
