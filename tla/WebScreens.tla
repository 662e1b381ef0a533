----------------------------- MODULE WebScreens -----------------------------
(***************************************************************************)
(* What the plain JavaScript front end, web/app.js, draws from its state:  *)
(* the functions that return markup, in the terms Screens describes React  *)
(* in.  When they are called is WebApp's matter.                           *)
(***************************************************************************)
EXTENDS Screens

\* signerStatus: active until the list lands.
signerStatus(id) == IF signers[id] = "none" THEN "active" ELSE signers[id]

isRepairing(id) ==
  signerStatus(id) = "repairing" \/ (recovery.on /\ recovery.signer = id /\ ~recovery.done)

isReviving(id) == recovery.on /\ recovery.signer = id /\ recovery.done /\ recovery.reviving

quorumBar(req) ==
  LET need == Quorum
      got == IF req.status \in {"quorum", "signing", "broadcast"} THEN need
             ELSE IF req.approvals < need THEN req.approvals ELSE need
  IN  got

\* Requests with a row, newest first; the newest of the decided ones are shown.
sortedRequests == {r \in Request : requests[r].status # "none"}

phoneQueue(s) ==
  [open    |-> {r \in sortedRequests : requests[r].status = "pending"
                                         /\ decisions[s][r] = "none"},
   others  |-> {r \in sortedRequests : requests[r].status \in {"quorum", "signing"}
                                         /\ decisions[s][r] = "none"},
   decided |-> Newest({r \in sortedRequests : decisions[s][r] # "none"})]

\* The cascade's nodes, drawn alike by renderStrip and recoveryPanel.
nodes(length, reached, active, failed, done) ==
  LET failAt == IF reached + 1 < length THEN reached + 1 ELSE length IN
  [i \in 1..length |->
     IF failed /\ i = failAt THEN "failed"
     ELSE IF i <= reached THEN "done"
     ELSE IF ~failed /\ ~done /\ active /\ i = reached + 1 THEN "active" ELSE "idle"]

ceremonyPanel ==
  IF activeCeremonyId = 0 THEN {}
  ELSE LET c == ceremonies[activeCeremonyId]
           finished == ~c.failed /\ c.reached >= BROADCAST_IDX
       IN {[title |-> IF c.failed THEN "Ceremony failed"
                      ELSE IF finished THEN "Funds moved" ELSE "Ceremony live",
            line |-> IF c.failed THEN "failed" ELSE c.latest,
            filled |-> IF c.failed THEN Len(CEREMONY_ORDER) ELSE c.reached]}

pcard(r, s, kind) ==
  [request |-> r, meter |-> quorumBar(requests[r]),
   footer |-> CASE kind = "open" -> "approve or reject"
                [] kind = "others" -> "quorum reached"
                [] OTHER -> IF decisions[s][r] = "approve" THEN "you approved" ELSE "you rejected"]

recoveryPanel(s) ==
  LET active == recovery.on /\ recovery.signer = s
      failed == active /\ recovery.failed
      done == active /\ recovery.done
  IN [title |-> IF failed THEN "Recovery failed"
                ELSE IF done THEN "Signer restored" ELSE "Recovery in progress",
      steps |-> nodes(Len(RECOVERY_ORDER), IF active THEN recovery.reached ELSE 0,
                      active, failed, done)]

\* phoneLostScreen, in the frame renderPhone gives it.
phoneLostScreen(s, statusChip) ==
  IF isReviving(s) THEN OverScreen("restored", statusChip, {}, {})
  ELSE IF isRepairing(s) THEN OverScreen("lost", statusChip, {recoveryPanel(s)}, {})
  ELSE OverScreen("lost", statusChip, {}, {<<"repair", 0>>})

\* The normal screen: the ceremony, the cards, and the link to report a loss.
normalScreen(s, statusChip) ==
  LET q == phoneQueue(s) IN
  [screen |-> "queue", chip |-> statusChip, pending |-> Cardinality(q.open),
   ceremony |-> ceremonyPanel, recovery |-> {},
   cards |-> {pcard(r, s, "open") : r \in q.open} \cup {pcard(r, s, "others") : r \in q.others}
             \cup {pcard(r, s, "decided") : r \in q.decided},
   offers |-> {<<action, r>> : action \in {"approve", "reject"}, r \in q.open}
              \cup {<<"lost", 0>>}]

renderPhone(s) ==
  LET lost == signerStatus(s) = "lost"
      repairing == isRepairing(s)
      reviving == isReviving(s)
      down == (lost \/ repairing) /\ ~reviving
      statusChip == IF repairing /\ ~reviving THEN "repairing"
                    ELSE IF lost /\ ~reviving THEN "lost" ELSE "active"
  IN
  IF down \/ reviving THEN phoneLostScreen(s, statusChip) ELSE normalScreen(s, statusChip)

renderSignerApp ==
  IF isReviving(me) THEN OverScreen("restored", "none", {}, {})
  ELSE IF signerStatus(me) = "lost" \/ isRepairing(me)
       THEN OverScreen("lost", "none", {recoveryPanel(me)}, {})
       ELSE normalScreen(me, "none")

\* renderPhones, as a value: the desktop's phones or the device's one screen.
renderPhones == [s \in OnScreen |-> IF me # 0 THEN renderSignerApp ELSE renderPhone(s)]

renderStrip ==
  LET on == activeCeremonyId # 0
      c == IF on THEN ceremonies[activeCeremonyId] ELSE NoCeremony
      finished == ~c.failed /\ c.reached >= BROADCAST_IDX
  IN [tag |-> IF ~on THEN "Ceremony pipeline"
              ELSE IF c.failed THEN "Failed" ELSE IF finished THEN "Complete" ELSE "Live",
      id |-> activeCeremonyId,
      detail |-> IF c.failed THEN "failed" ELSE c.latest,
      steps |-> nodes(Len(CEREMONY_ORDER), c.reached, on, c.failed, finished)]

renderFeed ==
  [r \in sortedRequests |->
     LET failed == ceremonies[r].failed IN
     [chip |-> requests[r].status, meter |-> quorumBar(requests[r]),
      fail |-> IF requests[r].status = "failed"
               THEN IF failed THEN "detail" ELSE "see audit log"
               ELSE IF failed THEN "detail" ELSE "none"]]
=============================================================================
