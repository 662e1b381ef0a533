----------------------------- MODULE Port_proofs -----------------------------
(***************************************************************************)
(* For any group, any requests and any budget: React shows what app.js     *)
(* would draw from the same state, and of a ceremony, which React          *)
(* memoises, no more than app.js would.                                    *)
(***************************************************************************)
EXTENDS Port, Dashboard_proofs

-----------------------------------------------------------------------------
\* The statuses a dashboard holds for its signers: the chips of the two front
\* ends agree on these.
Listed == me \in Signer \cup {0} /\ signers \in [Signer -> ListedSigner]

-----------------------------------------------------------------------------
\* The pieces of the screens agree.

\* Also where React says that a cascade is not live any more and app.js leaves that
\* to its nodes.
LEMMA NodesAgree ==
  ASSUME NEW length, NEW reached, NEW active \in BOOLEAN, NEW failed, NEW finished
  PROVE  /\ nodes(length, reached, active, failed, finished)
              = StepCascade(length, reached, active /\ ~failed /\ ~finished, failed, finished)
         /\ nodes(length, reached, active, failed, finished)
              = StepCascade(length, reached, active /\ ~finished /\ ~failed, failed, finished)
BY DEF nodes, StepCascade, Least

LEMMA StatusAgrees ==
  ASSUME Listed, NEW s \in Signer
  PROVE  /\ isReviving(s) <=> IsReviving(s)
         /\ isRepairing(s) <=> IsRepairing(s)
         /\ signerStatus(s) = RawStatus(s) /\ RawStatus(s) \in {"active", "lost", "repairing"}
         /\ IsReviving(s) => ~(recovery.on /\ recovery.signer = s /\ ~recovery.done)
<1>1. signers[s] \in ListedSigner
  BY DEF Listed
<1> QED
  BY <1>1 DEF ListedSigner, isReviving, IsReviving, isRepairing, IsRepairing, signerStatus,
              RawStatus

LEMMA MeterAgrees ==
  ASSUME NEW req
  PROVE  quorumBar(req) = QuorumMeter(req)
BY DEF quorumBar, QuorumMeter, Least

LEMMA QueueAgrees ==
  ASSUME NEW s \in Signer
  PROVE  /\ phoneQueue(s).open = PhoneQueueOf(s).open
         /\ phoneQueue(s).others = PhoneQueueOf(s).others
         /\ phoneQueue(s).decided = PhoneQueueOf(s).decided
<1> DEFINE mine == {r \in Request : decisions[s][r] # "none"}
<1>1. {r \in sortedRequests : decisions[s][r] # "none"} = {r \in mine : requests[r].status # "none"}
  BY DEF sortedRequests
<1>2. phoneQueue(s).decided = PhoneQueueOf(s).decided
  BY <1>1 DEF phoneQueue, PhoneQueueOf
<1>3. phoneQueue(s).open = PhoneQueueOf(s).open
  BY DEF phoneQueue, PhoneQueueOf, sortedRequests
<1>4. phoneQueue(s).others = PhoneQueueOf(s).others
  BY DEF phoneQueue, PhoneQueueOf, sortedRequests
<1> QED
  BY <1>2, <1>3, <1>4

LEMMA CeremonyAgrees == ceremonyPanel = CeremonyPanels(ActiveCeremony)
<1>1. CASE activeCeremonyId = 0
  BY <1>1 DEF ceremonyPanel, CeremonyPanels, ActiveCeremony, NoActive
<1>2. CASE activeCeremonyId # 0
  BY <1>2 DEF ceremonyPanel, CeremonyPanels, CeremonyPanel, ActiveCeremony
<1> QED
  BY <1>1, <1>2

LEMMA RecoveryAgrees ==
  ASSUME NEW s \in Signer
  PROVE  recoveryPanel(s) = RecoveryPanel(RecoveryFor(s))
<1> DEFINE rec == RecoveryFor(s)
           active == recovery.on /\ recovery.signer = s
           failed == active /\ recovery.failed
           done == active /\ recovery.done
           reached == IF active THEN recovery.reached ELSE 0
           length == Len(RECOVERY_ORDER)
<1> HIDE DEF length
<1>1. /\ active <=> rec.on
      /\ failed <=> rec.failed
      /\ done <=> rec.done
      /\ reached = rec.reached
  BY DEF RecoveryFor, NoRecovery
<1>2. nodes(length, reached, active, failed, done)
        = StepCascade(length, rec.reached, rec.on /\ ~rec.done /\ ~rec.failed, rec.failed, rec.done)
  BY <1>1 DEF nodes, StepCascade, Least
<1>3. recoveryPanel(s) =
        [title |-> IF failed THEN "Recovery failed"
                   ELSE IF done THEN "Signer restored" ELSE "Recovery in progress",
         steps |-> nodes(length, reached, active, failed, done)]
  BY DEF recoveryPanel, length
<1> HIDE DEF active, failed, done, reached, rec
<1> QED
  BY <1>1, <1>2, <1>3 DEF RecoveryPanel, rec, length

LEMMA CardsAgree ==
  ASSUME NEW s \in Signer, NEW r \in Request
  PROVE  /\ pcard(r, s, "open") = ApprovalCard(r, "open", "none")
         /\ pcard(r, s, "others") = ApprovalCard(r, "others", "none")
         /\ pcard(r, s, "decided") = ApprovalCard(r, "decided", decisions[s][r])
BY MeterAgrees DEF pcard, ApprovalCard

LEMMA NormalAgrees ==
  ASSUME NEW s \in Signer, NEW chip
  PROVE  normalScreen(s, chip) = QueueScreen(s, ActiveCeremony, chip)
<1> DEFINE q == PhoneQueueOf(s)
           p == phoneQueue(s)
<1>1. /\ q.open \subseteq Request /\ q.others \subseteq Request /\ q.decided \subseteq Request
      /\ p.open = q.open /\ p.others = q.others /\ p.decided = q.decided
  BY QueueAgrees DEF PhoneQueueOf, Newest
<1> DEFINE open == {ApprovalCard(r, "open", "none") : r \in q.open}
           others == {ApprovalCard(r, "others", "none") : r \in q.others}
           over == {ApprovalCard(r, "decided", decisions[s][r]) : r \in q.decided}
           buttons == {"approve", "reject"} \X q.open
           popen == {pcard(r, s, "open") : r \in p.open}
           pothers == {pcard(r, s, "others") : r \in p.others}
           pover == {pcard(r, s, "decided") : r \in p.decided}
           pbuttons == {<<action, r>> : action \in {"approve", "reject"}, r \in p.open}
<1> HIDE DEF p, q
<1>2. popen = open /\ pothers = others /\ pover = over
  BY <1>1, CardsAgree
<1>3. pbuttons = buttons
  BY <1>1
<1>4. QueueScreen(s, ActiveCeremony, chip) =
        [screen |-> "queue", chip |-> chip, pending |-> Cardinality(q.open),
         ceremony |-> CeremonyPanels(ActiveCeremony), recovery |-> {},
         cards |-> open \cup others \cup over, offers |-> buttons \cup {<<"lost", 0>>}]
  BY DEF QueueScreen, q
<1>5. normalScreen(s, chip) =
        [screen |-> "queue", chip |-> chip, pending |-> Cardinality(p.open),
         ceremony |-> ceremonyPanel, recovery |-> {},
         cards |-> popen \cup pothers \cup pover, offers |-> pbuttons \cup {<<"lost", 0>>}]
  BY DEF normalScreen, p
<1> HIDE DEF open, others, over, buttons, popen, pothers, pover, pbuttons
<1> QED
  BY <1>1, <1>2, <1>3, <1>4, <1>5, CeremonyAgrees

-----------------------------------------------------------------------------
LEMMA PhoneAgrees ==
  ASSUME Listed, NEW s \in Signer
  PROVE  renderPhone(s) = SignerPhone(s, ActiveCeremony)
<1>1. CASE IsReviving(s)
  BY <1>1, StatusAgrees
     DEF renderPhone, SignerPhone, StatusOf, phoneLostScreen, LostScreen
<1>2. CASE ~IsReviving(s) /\ IsRepairing(s)
  BY <1>2, StatusAgrees, RecoveryAgrees
     DEF renderPhone, SignerPhone, StatusOf, phoneLostScreen, LostScreen
<1>3. CASE ~IsReviving(s) /\ ~IsRepairing(s) /\ RawStatus(s) = "lost"
  BY <1>3, StatusAgrees
     DEF renderPhone, SignerPhone, StatusOf, phoneLostScreen, LostScreen
<1>4. CASE ~IsReviving(s) /\ ~IsRepairing(s) /\ RawStatus(s) = "active"
  BY <1>4, StatusAgrees, NormalAgrees
     DEF renderPhone, SignerPhone, StatusOf
<1>5. RawStatus(s) = "repairing" => IsRepairing(s)
  BY DEF IsRepairing
<1> QED
  BY <1>1, <1>2, <1>3, <1>4, <1>5, StatusAgrees

LEMMA DeviceAgrees ==
  ASSUME Listed, me # 0
  PROVE  renderSignerApp = DeviceView(ActiveCeremony)
<1>s. me \in Signer
  BY DEF Listed
<1>1. CASE IsReviving(me)
  BY <1>s, <1>1, StatusAgrees DEF renderSignerApp, DeviceView
<1>2. CASE ~IsReviving(me) /\ (IsRepairing(me) \/ RawStatus(me) = "lost")
  BY <1>s, <1>2, StatusAgrees, RecoveryAgrees DEF renderSignerApp, DeviceView, StatusOf
<1>3. CASE ~IsReviving(me) /\ ~IsRepairing(me) /\ RawStatus(me) # "lost"
  <2>1. RawStatus(me) = "active"
    BY <1>s, <1>3, StatusAgrees DEF IsRepairing
  <2> QED
    BY <1>s, <1>3, <2>1, StatusAgrees, NormalAgrees DEF renderSignerApp, DeviceView, StatusOf
<1> QED
  BY <1>1, <1>2, <1>3

LEMMA StripAgrees == renderStrip = CeremonyStrip(ActiveCeremony)
<1> DEFINE on == activeCeremonyId # 0
           c == IF on THEN ceremonies[activeCeremonyId] ELSE NoCeremony
           finished == ~c.failed /\ c.reached >= BROADCAST_IDX
           length == Len(CEREMONY_ORDER)
           a == ActiveCeremony
<1>0. BROADCAST_IDX \in Nat /\ BROADCAST_IDX >= 1
  <2> DEFINE at == {i \in DOMAIN CEREMONY_ORDER : CEREMONY_ORDER[i] = "broadcast"}
  <2>1. 10 \in at /\ at \in SUBSET Nat /\ \A i \in at : i >= 1
    BY DEF CEREMONY_ORDER
  <2>2. BROADCAST_IDX = First(at)
    BY <2>1 DEF BROADCAST_IDX, IndexOf, First
  <2> HIDE DEF at
  <2> QED
    BY <2>1, <2>2, FirstIsLeast
<1>1. /\ a.id = activeCeremonyId /\ a.reached = c.reached /\ a.latest = c.latest
      /\ a.failed <=> c.failed
      /\ a.finished <=> finished
  <2>1. CASE on
    BY <2>1 DEF ActiveCeremony
  <2>2. CASE ~on
    <3>1. c = NoCeremony /\ a = NoActive
      BY <2>2 DEF ActiveCeremony
    <3> HIDE DEF c, a
    <3> QED
      BY <1>0, <2>2, <3>1 DEF NoActive, NoCeremony
  <2> QED
    BY <2>1, <2>2
<1> HIDE DEF length
<1>2. nodes(length, c.reached, on, c.failed, finished)
        = StepCascade(length, a.reached, a.id # 0 /\ ~a.failed /\ ~a.finished, a.failed,
                      a.finished)
  BY <1>1 DEF nodes, StepCascade, Least
<1>3. renderStrip =
        [tag |-> IF ~on THEN "Ceremony pipeline"
                 ELSE IF c.failed THEN "Failed" ELSE IF finished THEN "Complete" ELSE "Live",
         id |-> activeCeremonyId,
         detail |-> IF c.failed THEN "failed" ELSE c.latest,
         steps |-> nodes(length, c.reached, on, c.failed, finished)]
  BY DEF renderStrip, length
<1> HIDE DEF c, finished, a
<1> QED
  BY <1>1, <1>2, <1>3 DEF CeremonyStrip, a, length

LEMMA FeedAgrees == renderFeed = RequestFeed
BY MeterAgrees DEF renderFeed, RequestFeed, FeedRow, sortedRequests

-----------------------------------------------------------------------------
\* What the memoised ceremony changes: the strip and the panels of the phones.

LEMMA PanelOnly ==
  ASSUME NEW s, NEW a, NEW b
  PROVE  Screen(s, a) = [Screen(s, b) EXCEPT !.ceremony = Screen(s, a).ceremony]
<1>1. ASSUME NEW t, NEW chip
      PROVE  QueueScreen(t, a, chip)
               = [QueueScreen(t, b, chip) EXCEPT !.ceremony = QueueScreen(t, a, chip).ceremony]
  <2> DEFINE q == PhoneQueueOf(t)
             n == Cardinality(q.open)
             cards == {ApprovalCard(r, "open", "none") : r \in q.open}
                      \cup {ApprovalCard(r, "others", "none") : r \in q.others}
                      \cup {ApprovalCard(r, "decided", decisions[t][r]) : r \in q.decided}
             offers == ({"approve", "reject"} \X q.open) \cup {<<"lost", 0>>}
  <2>1. \A c : QueueScreen(t, c, chip) =
          [screen |-> "queue", chip |-> chip, pending |-> n, ceremony |-> CeremonyPanels(c),
           recovery |-> {}, cards |-> cards, offers |-> offers]
    BY DEF QueueScreen
  <2> HIDE DEF q, n, cards, offers
  <2> QED
    BY <2>1
<1>2. ASSUME NEW screen, NEW chip, NEW panels, NEW offers
      PROVE  OverScreen(screen, chip, panels, offers)
               = [OverScreen(screen, chip, panels, offers) EXCEPT
                    !.ceremony = OverScreen(screen, chip, panels, offers).ceremony]
  BY DEF OverScreen
<1>3. SignerPhone(s, a) = [SignerPhone(s, b) EXCEPT !.ceremony = SignerPhone(s, a).ceremony]
  <2> DEFINE st == StatusOf(s)
             over == LostScreen(s, st, IsReviving(s), st = "repairing")
             down == st \in {"lost", "repairing"} /\ ~IsReviving(s)
  <2>1. over = [over EXCEPT !.ceremony = over.ceremony]
    BY <1>2 DEF LostScreen
  <2>2. /\ SignerPhone(s, a) = IF down \/ IsReviving(s) THEN over ELSE QueueScreen(s, a, st)
        /\ SignerPhone(s, b) = IF down \/ IsReviving(s) THEN over ELSE QueueScreen(s, b, st)
    BY DEF SignerPhone
  <2> HIDE DEF over, down, st
  <2> QED
    BY <1>1, <2>1, <2>2
<1>4. DeviceView(a) = [DeviceView(b) EXCEPT !.ceremony = DeviceView(a).ceremony]
  <2> DEFINE restored == OverScreen("restored", "none", {}, {})
             over == OverScreen("lost", "none", {RecoveryPanel(RecoveryFor(me))}, {})
             down == StatusOf(me) \in {"lost", "repairing"} /\ ~IsReviving(me)
  <2>1. /\ restored = [restored EXCEPT !.ceremony = restored.ceremony]
        /\ over = [over EXCEPT !.ceremony = over.ceremony]
    BY <1>2
  <2>2. /\ DeviceView(a) = IF IsReviving(me) THEN restored
                           ELSE IF down THEN over ELSE QueueScreen(me, a, "none")
        /\ DeviceView(b) = IF IsReviving(me) THEN restored
                           ELSE IF down THEN over ELSE QueueScreen(me, b, "none")
    BY DEF DeviceView
  <2> HIDE DEF restored, over, down
  <2> QED
    BY <1>1, <2>1, <2>2
<1> QED
  BY <1>3, <1>4 DEF Screen

\* Before the first ceremony event there is nothing to lag behind.
NoStrip == activeCeremonyId = 0 => activeCeremony = NoActive

LEMMA NoStripInit == Init => NoStrip
BY DEF Init, NoStrip

LEMMA NoStripNext == NoStrip /\ [Next]_vars => NoStrip'
<1>1. activeCeremony' = ActiveCeremony' => NoStrip'
  <2>1. (activeCeremony = ActiveCeremony => NoStrip)'
    <3>1. activeCeremony = ActiveCeremony => NoStrip
      BY DEF NoStrip, ActiveCeremony
    <3> QED
      BY <3>1, PTL
  <2> QED
    BY <2>1
<1>2. NoStrip /\ UNCHANGED <<activeCeremony, activeCeremonyId>> => NoStrip'
  BY DEF NoStrip
<1> QED
  BY <1>1, <1>2, StripRendered

\* The strip of a value behind the overlay is behind the strip of the overlay.
LEMMA StripBehind ==
  EngineTypes /\ StripInv /\ NoStrip => Behind(CeremonyStrip(activeCeremony), renderStrip)
<1> SUFFICES ASSUME EngineTypes, StripInv, NoStrip
             PROVE  Behind(CeremonyStrip(activeCeremony), renderStrip)
  OBVIOUS
<1> DEFINE a == activeCeremony
           b == ActiveCeremony
           length == Len(CEREMONY_ORDER)
           aLive == a.id # 0 /\ ~a.failed /\ ~a.finished
           bLive == b.id # 0 /\ ~b.failed /\ ~b.finished
           react == StepCascade(length, a.reached, aLive, a.failed, a.finished)
           plain == StepCascade(length, b.reached, bLive, b.failed, b.finished)
<1>0. length = 11
  BY DEF CEREMONY_ORDER
<1>1. CASE activeCeremonyId = 0
  <2>1. a = b
    BY <1>1 DEF NoStrip, ActiveCeremony
  <2>2. CeremonyStrip(activeCeremony) = renderStrip
    BY <2>1, StripAgrees
  <2>3. a.id = 0 /\ ~a.failed
    BY <1>1 DEF NoStrip, NoActive
  <2>4. CeremonyStrip(a).tag = "Ceremony pipeline"
    BY <2>3 DEF CeremonyStrip
  <2> HIDE DEF a
  <2> QED
    BY <2>2, <2>4 DEF Behind, a
<1>2. CASE activeCeremonyId # 0
  <2>1. /\ activeCeremonyId \in Request
        /\ ceremonies[activeCeremonyId].reached \in 0..11
        /\ ceremonies[activeCeremonyId].failed \in BOOLEAN
        /\ a.reached \in 0..11 /\ a.failed \in BOOLEAN /\ a.finished \in BOOLEAN
    BY <1>0, <1>2 DEF EngineTypes, StripInv, Shown
  <2>2. /\ a.id = activeCeremonyId /\ b.id = activeCeremonyId
        /\ b.reached = ceremonies[activeCeremonyId].reached
        /\ b.failed = ceremonies[activeCeremonyId].failed
        /\ b.finished <=> ~b.failed /\ b.reached >= BROADCAST_IDX
    BY <1>2 DEF StripInv, ActiveCeremony
  <2>3. /\ a.id # 0 /\ b.id = a.id
        /\ a.reached \in 0..11 /\ b.reached \in 0..11 /\ a.reached <= b.reached
        /\ a.failed => b.failed
        /\ a.finished => b.failed \/ b.finished
    BY <1>2, <2>1, <2>2, BroadcastIndex DEF StripInv
  <2> HIDE DEF a, b, length
  <2>4. ASSUME NEW i \in 1..length, react[i] = "done"
        PROVE  plain[i] \in {"done", "failed"}
    <3>1. react[i] = IF a.failed /\ i = Least(a.reached + 1, length) THEN "failed"
                     ELSE IF i <= a.reached THEN "done"
                     ELSE IF ~a.failed /\ ~a.finished /\ aLive /\ i = a.reached + 1
                          THEN "active" ELSE "idle"
      BY DEF StepCascade
    <3>2. i <= a.reached
      BY <2>4, <3>1
    <3>3. i <= b.reached
      BY <1>0, <2>3, <3>2
    <3>4. plain[i] = IF b.failed /\ i = Least(b.reached + 1, length) THEN "failed"
                     ELSE IF i <= b.reached THEN "done"
                     ELSE IF ~b.failed /\ ~b.finished /\ bLive /\ i = b.reached + 1
                          THEN "active" ELSE "idle"
      BY DEF StepCascade
    <3> QED
      BY <3>3, <3>4
  <2>5. DOMAIN react = 1..length
    BY DEF StepCascade
  <2>6. /\ CeremonyStrip(a).id = a.id /\ CeremonyStrip(b).id = b.id
        /\ CeremonyStrip(a).steps = react /\ CeremonyStrip(b).steps = plain
        /\ CeremonyStrip(a).tag = IF a.failed THEN "Failed"
                                  ELSE IF a.finished THEN "Complete" ELSE "Live"
        /\ CeremonyStrip(b).tag = IF b.failed THEN "Failed"
                                  ELSE IF b.finished THEN "Complete" ELSE "Live"
    BY <2>3 DEF CeremonyStrip, length
  <2> HIDE DEF react, plain
  <2>7. Behind(CeremonyStrip(a), CeremonyStrip(b))
    BY <2>3, <2>4, <2>5, <2>6 DEF Behind
  <2> QED
    BY <2>7, StripAgrees DEF a, b
<1> QED
  BY <1>1, <1>2

\* The phones of app.js are React's, but for the memoised ceremony.
LEMMA PhonesAgree ==
  ASSUME Listed, NEW s \in OnScreen
  PROVE  renderPhones[s] = Screen(s, ActiveCeremony)
BY PhoneAgrees, DeviceAgrees DEF renderPhones, Screen, OnScreen

LEMMA Following == Listed /\ EngineTypes /\ StripInv /\ NoStrip => PortFollows
<1> SUFFICES ASSUME Listed, EngineTypes, StripInv, NoStrip PROVE PortFollows
  OBVIOUS
<1>1. ASSUME NEW s \in OnScreen
      PROVE  LET react == Screen(s, activeCeremony) IN
             react = [renderPhones[s] EXCEPT !.ceremony = react.ceremony]
  BY PanelOnly, PhonesAgree
<1>2. activeCeremony = ActiveCeremony =>
        /\ CeremonyStrip(activeCeremony) = renderStrip
        /\ \A s \in OnScreen : Screen(s, activeCeremony) = renderPhones[s]
  BY StripAgrees, PhonesAgree
<1> QED
  BY <1>1, <1>2, StripBehind, FeedAgrees DEF PortFollows

\* Whatever happens, React shows what app.js would draw from its state, the feed
\* and the phones with their buttons exactly, the ceremony no further than it is.
THEOREM PortFollowsAlways == Spec => []PortFollows
<1>1. SessionTypes => Listed /\ EngineTypes
  BY TypesSplit DEF SessionTypes, SessionTypeOK, Listed
<1>2. Spec => []NoStrip
  BY NoStripInit, NoStripNext, PTL DEF Spec
<1> QED
  BY <1>1, <1>2, DashboardIsSession, SessionTyped, StripInvHolds, Following, PTL
=============================================================================
