------------------------------- MODULE Screens -------------------------------
(***************************************************************************)
(* The React components as functions of the engine: what each shows and    *)
(* which buttons it offers.  Colours, layout, amounts and texts are left   *)
(* out; what tells two situations apart on the screen is kept.             *)
(***************************************************************************)
EXTENDS Session

\* useRimeState's activeCeremony when it is computed now; id 0 is null.
NoActive == [id |-> 0, reached |-> 0, failed |-> FALSE, finished |-> FALSE, latest |-> "none"]

ActiveCeremony ==
  IF activeCeremonyId = 0 THEN NoActive
  ELSE LET c == ceremonies[activeCeremonyId] IN
       [id |-> activeCeremonyId, reached |-> c.reached, failed |-> c.failed,
        finished |-> ~c.failed /\ c.reached >= BROADCAST_IDX, latest |-> c.latest]

Least(a, b) == IF a < b THEN a ELSE b

\* Approvals as shown: a quorum once reached stays full.
QuorumMeter(req) ==
  IF req.status \in {"quorum", "signing", "broadcast"} THEN Quorum
  ELSE Least(req.approvals, Quorum)

\* The state of each node: done up to reached, the next one live or failed.
StepCascade(length, reached, active, failed, finished) ==
  [i \in 1..length |->
     IF failed /\ i = Least(reached + 1, length) THEN "failed"
     ELSE IF i <= reached THEN "done"
     ELSE IF ~failed /\ ~finished /\ active /\ i = reached + 1 THEN "active" ELSE "idle"]

\* One card of a signer's queue: open ones carry the buttons.
ApprovalCard(r, kind, decision) ==
  [request |-> r, meter |-> QuorumMeter(requests[r]),
   footer |-> CASE kind = "open" -> "approve or reject"
                [] kind = "others" -> "quorum reached"
                [] OTHER -> IF decision = "approve" THEN "you approved" ELSE "you rejected"]

\* A ceremony without an event has no overlay, so there is a latest step.
CeremonyPanel(a) ==
  [title |-> IF a.failed THEN "Ceremony failed"
             ELSE IF a.finished THEN "Funds moved" ELSE "Ceremony live",
   line |-> IF a.failed THEN "failed" ELSE a.latest,
   filled |-> IF a.failed THEN Len(CEREMONY_ORDER) ELSE a.reached]

CeremonyPanels(a) == IF a.id = 0 THEN {} ELSE {CeremonyPanel(a)}

CeremonyStrip(a) ==
  [tag |-> IF a.id = 0 THEN "Ceremony pipeline"
           ELSE IF a.failed THEN "Failed" ELSE IF a.finished THEN "Complete" ELSE "Live",
   id |-> a.id,
   detail |-> IF a.failed THEN "failed" ELSE a.latest,
   steps |-> StepCascade(Len(CEREMONY_ORDER), a.reached, a.id # 0 /\ ~a.failed /\ ~a.finished,
                         a.failed, a.finished)]

\* recoveryFor: the overlay, if it is this signer's.
RecoveryFor(s) == IF recovery.on /\ recovery.signer = s THEN recovery ELSE NoRecovery

RecoveryPanel(rec) ==
  [title |-> IF rec.failed THEN "Recovery failed"
             ELSE IF rec.done THEN "Signer restored" ELSE "Recovery in progress",
   steps |-> StepCascade(Len(RECOVERY_ORDER), rec.reached, rec.on /\ ~rec.done /\ ~rec.failed,
                         rec.failed, rec.done)]

\* One row of the request feed; a failure known from its event has a detail.
FeedRow(r) ==
  [chip |-> requests[r].status, meter |-> QuorumMeter(requests[r]),
   fail |-> IF ceremonies[r].failed THEN "detail"
            ELSE IF requests[r].status = "failed" THEN "see audit log" ELSE "none"]

RequestFeed == [r \in {q \in Request : requests[q].status # "none"} |-> FeedRow(r)]

-----------------------------------------------------------------------------
\* Screens of one signer: a phone of the desktop, or the whole device.

QueueScreen(s, a, chip) ==
  LET q == PhoneQueueOf(s) IN
  [screen |-> "queue", chip |-> chip, pending |-> Cardinality(q.open),
   ceremony |-> CeremonyPanels(a), recovery |-> {},
   cards |-> {ApprovalCard(r, "open", "none") : r \in q.open}
             \cup {ApprovalCard(r, "others", "none") : r \in q.others}
             \cup {ApprovalCard(r, "decided", decisions[s][r]) : r \in q.decided},
   offers |-> ({"approve", "reject"} \X q.open) \cup {<<"lost", 0>>}]

\* What stands in for the queue of a signer that is down or just restored.
OverScreen(screen, chip, panels, offers) ==
  [screen |-> screen, chip |-> chip, pending |-> 0, ceremony |-> {}, recovery |-> panels,
   cards |-> {}, offers |-> offers]

LostScreen(s, chip, reviving, repairing) ==
  IF reviving THEN OverScreen("restored", chip, {}, {})
  ELSE IF repairing THEN OverScreen("lost", chip, {RecoveryPanel(RecoveryFor(s))}, {})
  ELSE OverScreen("lost", chip, {}, {<<"repair", 0>>})

SignerPhone(s, a) ==
  LET st == StatusOf(s)
      reviving == IsReviving(s)
      down == st \in {"lost", "repairing"} /\ ~reviving
  IN
  IF down \/ reviving THEN LostScreen(s, st, reviving, st = "repairing")
  ELSE QueueScreen(s, a, st)

\* The device has no chip, and no button to repair itself with.
DeviceView(a) ==
  LET down == StatusOf(me) \in {"lost", "repairing"} /\ ~IsReviving(me) IN
  IF IsReviving(me) THEN OverScreen("restored", "none", {}, {})
  ELSE IF down THEN OverScreen("lost", "none", {RecoveryPanel(RecoveryFor(me))}, {})
  ELSE QueueScreen(me, a, "none")

\* The signers with a screen: all on the desktop, one on a device.
OnScreen == IF me = 0 THEN Signer ELSE {me}

Screen(s, a) == IF me = 0 THEN SignerPhone(s, a) ELSE DeviceView(a)
=============================================================================
