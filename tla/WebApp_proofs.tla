---------------------------- MODULE WebApp_proofs ----------------------------
(***************************************************************************)
(* For any group, any requests and any budget: the hand-made rendering of  *)
(* app.js never leaves a button of a state that is gone, so it is a        *)
(* session as the React front end is, and its strip tells the truth.       *)
(***************************************************************************)
EXTENDS WebApp, Session_proofs

-----------------------------------------------------------------------------
\* Buttons.  Only open cards have the two, and a screen that is rendered again
\* because an answer was taken back offers at least what it did.

LEMMA RenderedOpen ==
  ASSUME NEW s \in Signer, NEW r \in Request, NEW d \in {"approve", "reject"},
         s \in OnScreen, <<d, r>> \in renderPhones[s].offers
  PROVE  decisions[s][r] = "none"
<1>1. ASSUME NEW t, NEW chip, <<d, r>> \in normalScreen(t, chip).offers
      PROVE  decisions[t][r] = "none"
  <2>1. r \in phoneQueue(t).open
    BY <1>1 DEF normalScreen
  <2> QED
    BY <2>1 DEF phoneQueue
<1>2. ASSUME NEW screen, NEW chip, NEW panels, NEW offers,
             <<d, r>> \in OverScreen(screen, chip, panels, offers).offers
      PROVE  <<d, r>> \in offers
  BY <1>2 DEF OverScreen
<1>3. ASSUME <<d, r>> \in renderPhone(s).offers PROVE decisions[s][r] = "none"
  BY <1>1, <1>2, <1>3 DEF renderPhone, phoneLostScreen
<1>4. ASSUME <<d, r>> \in renderSignerApp.offers PROVE decisions[me][r] = "none"
  BY <1>1, <1>2, <1>4 DEF renderSignerApp
<1> QED
  BY <1>3, <1>4 DEF renderPhones, OnScreen

LEMMA OffersGrow ==
  ASSUME NEW s \in Signer, s \in OnScreen, UNCHANGED <<me, requests, signers, recovery>>,
         \A t \in Signer, r \in Request : decisions[t][r] = "none" => decisions'[t][r] = "none",
         me \in Signer \cup {0}
  PROVE  s \in OnScreen' /\ renderPhones[s].offers \subseteq renderPhones'[s].offers
<1>1. \A t \in Signer : phoneQueue(t).open \subseteq phoneQueue(t)'.open
  BY DEF phoneQueue, sortedRequests
<1>2. ASSUME NEW t \in Signer, NEW chip
      PROVE  normalScreen(t, chip).offers \subseteq normalScreen(t, chip)'.offers
  BY <1>1 DEF normalScreen
<1>3. ASSUME NEW t \in Signer, NEW chip
      PROVE  phoneLostScreen(t, chip).offers = phoneLostScreen(t, chip)'.offers
  BY DEF phoneLostScreen, OverScreen, isReviving, isRepairing, signerStatus
<1>4. ASSUME NEW t \in Signer
      PROVE  renderPhone(t).offers \subseteq renderPhone(t)'.offers
  BY <1>2, <1>3 DEF renderPhone, isReviving, isRepairing, signerStatus
<1>5. me # 0 => renderSignerApp.offers \subseteq renderSignerApp'.offers
  BY <1>2 DEF renderSignerApp, OverScreen, isReviving, isRepairing, signerStatus
<1> QED
  BY <1>4, <1>5 DEF renderPhones, OnScreen

\* The buttons on the screen are ones an answer may be given with.
LEMMA ClickIsOpen ==
  ASSUME OfferedIsAllowed, NEW s \in Signer, NEW r \in Request,
         NEW d \in {"approve", "reject"}, clicked(s, <<d, r>>)
  PROVE  s \in OnScreen /\ decisions[s][r] = "none"
BY RenderedOpen DEF clicked, OfferedIsAllowed

-----------------------------------------------------------------------------
\* The handlers of app.js make no step that a session does not have.

LEMMA ReaderType ==
  ASSUME me \in Signer \cup {0}
  PROVE  ReadToken \in Signer
BY SignersAreIds, FirstIsLeast DEF ReadToken

LEMMA WebAppStep == AnswerInv /\ OfferedIsAllowed /\ [Next]_vars => [SessionNext]_sessionState
<1> SUFFICES ASSUME AnswerInv, OfferedIsAllowed, [Next]_vars
             PROVE  [SessionNext]_sessionState
  OBVIOUS
<1>1. CASE UNCHANGED vars
  BY <1>1 DEF vars, sessionState
<1>2. CASE onEvent
  BY <1>2 DEF onEvent, SessionNext
<1>3. ASSUME NEW a \in answers, refreshRequests(a) \/ refreshSigners(a) PROVE SessionNext
  BY <1>3 DEF refreshRequests, refreshSigners, SessionNext
<1>4. ASSUME NEW f \in timers, revivalEnds(f) PROVE SessionNext
  BY <1>4 DEF revivalEnds, SessionNext
<1>5. ASSUME NEW c \in calls, Answered(c) PROVE SessionNext
  BY <1>5 DEF Answered, decided, markedLost, repairAnswered, submitted, SessionNext
<1>6. ASSUME NEW s \in Signer, NEW r \in Request, NEW d \in {"approve", "reject"},
             decide(s, r, d)
      PROVE  SessionNext
  BY <1>6, ClickIsOpen DEF decide, SessionNext
<1>7. ASSUME NEW s \in Signer, markLost(s) \/ repairSigner(s) PROVE SessionNext
  BY <1>7 DEF markLost, repairSigner, SessionNext
<1>8. CASE submitRequest
  BY <1>8, ReaderType DEF submitRequest, AnswerInv, AnswerTypes, SessionNext
<1>9. CASE Network /\ Keep
  BY <1>9 DEF SessionNext
<1> QED
  BY <1>1, <1>2, <1>3, <1>4, <1>5, <1>6, <1>7, <1>8, <1>9 DEF Next, onPhoneClick

-----------------------------------------------------------------------------
\* A step that renders shows the present; one that does not may enlarge what an
\* up to date screen would offer, and no more.

LEMMA Rendered == Render => OfferedIsAllowed'
BY DEF Render, OfferedIsAllowed

LEMMA Kept ==
  ASSUME OfferedIsAllowed, Keep, UNCHANGED <<me, requests, signers, recovery>>,
         \A t \in Signer, r \in Request : decisions[t][r] = "none" => decisions'[t][r] = "none",
         me \in Signer \cup {0}
  PROVE  OfferedIsAllowed'
<1> SUFFICES ASSUME NEW s \in OnScreen' PROVE phones'[s].offers \subseteq renderPhones'[s].offers
  BY DEF OfferedIsAllowed
<1>1. s \in Signer /\ s \in OnScreen /\ phones'[s] = phones[s]
  BY DEF OnScreen, Keep
<1>2. phones[s].offers \subseteq renderPhones[s].offers
  BY <1>1 DEF OfferedIsAllowed
<1> QED
  BY <1>1, <1>2, OffersGrow

LEMMA OfferedNext == AnswerInv /\ OfferedIsAllowed /\ [Next]_vars => OfferedIsAllowed'
<1> SUFFICES ASSUME AnswerInv, OfferedIsAllowed, [Next]_vars PROVE OfferedIsAllowed'
  OBVIOUS
<1>t. me \in Signer \cup {0} /\ decisions \in [Signer -> [Request -> Vote]]
  BY DEF AnswerInv, AnswerTypes
<1>1. ASSUME Keep, UNCHANGED <<me, engineVars>> PROVE OfferedIsAllowed'
  BY <1>1, <1>t, Kept DEF engineVars
<1>2. CASE UNCHANGED vars
  BY <1>1, <1>2 DEF vars, sessionVars, Keep
<1>3. ASSUME NEW c \in calls, Answered(c) PROVE OfferedIsAllowed'
  <2>1. CASE DecisionFailed(c) /\ Keep
    <3>1. UNCHANGED <<me, requests, signers, recovery>>
            /\ decisions' = [decisions EXCEPT ![c.signer][c.request] = "none"]
      BY <2>1 DEF DecisionFailed
    <3>2. \A t \in Signer, r \in Request : decisions[t][r] = "none" => decisions'[t][r] = "none"
      BY <1>t, <3>1
    <3> QED
      BY <1>t, <2>1, <3>1, <3>2, Kept
  <2>2. CASE Keep /\ \/ DecisionTaken(c) \/ LostFailed(c) \/ RepairTaken(c)
                     \/ RequestCreated(c) \/ RequestRefused(c)
    BY <1>1, <2>2 DEF DecisionTaken, LostFailed, RepairTaken, RequestCreated, RequestRefused
  <2> QED
    BY <1>3, <2>1, <2>2, Rendered DEF Answered, decided, markedLost, repairAnswered, submitted
<1>4. CASE onPhoneClick
  <2>1. ASSUME NEW s \in Signer, markLost(s) PROVE OfferedIsAllowed'
    BY <1>1, <2>1 DEF markLost, ReportLost
  <2> QED
    BY <1>4, <2>1, Rendered DEF onPhoneClick, decide, repairSigner
<1>5. CASE submitRequest
  BY <1>1, <1>5 DEF submitRequest, SubmitRequest
<1>6. CASE Network /\ Keep
  BY <1>1, <1>6, NetworkShowsNothing
<1>7. CASE onEvent
  BY <1>7, Rendered DEF onEvent
<1>8. ASSUME NEW a \in answers, refreshRequests(a) \/ refreshSigners(a) PROVE OfferedIsAllowed'
  BY <1>8, Rendered DEF refreshRequests, refreshSigners
<1>9. ASSUME NEW f \in timers, revivalEnds(f) PROVE OfferedIsAllowed'
  BY <1>9, Rendered DEF revivalEnds
<1> QED
  BY <1>2, <1>3, <1>4, <1>5, <1>6, <1>7, <1>8, <1>9 DEF Next

LEMMA ScreenInvHolds == Spec => [](AnswerInv /\ OfferedIsAllowed)
<1>1. Init => AnswerInv /\ OfferedIsAllowed
  BY AnswerInit DEF Init, OfferedIsAllowed
<1>2. (AnswerInv /\ OfferedIsAllowed) /\ [Next]_vars => (AnswerInv /\ OfferedIsAllowed)'
  BY WebAppStep, AnswerNext, OfferedNext
<1> QED
  BY <1>1, <1>2, PTL DEF Spec

\* A button on the screen is one that an up to date screen has as well, though
\* most handlers of app.js render nothing past their await.
THEOREM OfferedAlways == Spec => []OfferedIsAllowed
BY ScreenInvHolds, PTL

\* app.js is a session, as the React front end is: its buttons act on what was
\* rendered last, yet none makes a step the session would not allow by then.
THEOREM WebAppIsSession == Spec => SessionSpec
<1>1. Init => SessionInit
  BY DEF Init
<1> QED
  BY <1>1, WebAppStep, ScreenInvHolds, PTL DEF Spec, SessionSpec

\* A card of app.js that says this signer answered shows the vote the server has,
\* or its call is still under way, as in the React front end.
THEOREM WebAnswersRecorded == Spec => []Recorded
<1>1. AnswerInv => Recorded
  BY DEF AnswerInv
<1> QED
  BY <1>1, ScreenInvHolds, PTL

-----------------------------------------------------------------------------
\* Types, and the strip.

LEMMA PhonesKept == DOMAIN phones = OnScreen /\ [Next]_vars => (DOMAIN phones = OnScreen)'
<1> SUFFICES ASSUME DOMAIN phones = OnScreen, [Next]_vars PROVE DOMAIN phones' = OnScreen'
  OBVIOUS
<1>1. CASE Render
  BY <1>1 DEF Render, renderPhones
<1>2. ASSUME Keep, me' = me PROVE DOMAIN phones' = OnScreen'
  BY <1>2 DEF Keep, OnScreen
<1>3. CASE UNCHANGED vars
  BY <1>2, <1>3 DEF vars, sessionVars, Keep
<1>4. ASSUME NEW s \in Signer, markLost(s) PROVE Keep /\ me' = me
  BY <1>4 DEF markLost, ReportLost
<1>5. CASE submitRequest
  BY <1>2, <1>5 DEF submitRequest, SubmitRequest
<1>6. ASSUME NEW c \in calls, Answered(c), ~Render PROVE Keep /\ me' = me
  BY <1>6 DEF Answered, decided, markedLost, repairAnswered, submitted, DecisionTaken,
              DecisionFailed, LostFailed, RepairTaken, RequestCreated, RequestRefused
<1>7. CASE Network /\ Keep
  BY <1>2, <1>7, NetworkShowsNothing
<1>8. \/ Render \/ submitRequest \/ (Network /\ Keep) \/ UNCHANGED vars
      \/ \E s \in Signer : markLost(s)
      \/ \E c \in calls : Answered(c)
  BY DEF Next, onEvent, refreshRequests, refreshSigners, revivalEnds, onPhoneClick, decide,
         repairSigner
<1> QED
  BY <1>1, <1>2, <1>3, <1>4, <1>5, <1>6, <1>7, <1>8

\* The state of app.js has its type, and a phone is on the screen for exactly the
\* signers it is for.
THEOREM WebAppTypes == Spec => []TypeOK
<1>1. Init => DOMAIN phones = OnScreen
  BY DEF Init, renderPhones
<1>2. SessionTypes /\ DOMAIN phones = OnScreen => TypeOK
  BY DEF SessionTypes, TypeOK
<1>3. Spec => [](DOMAIN phones = OnScreen)
  BY <1>1, PhonesKept, PTL DEF Spec
<1> QED
  BY <1>2, <1>3, WebAppIsSession, SessionTyped, PTL

\* What the strip of app.js says has happened on the server.
StripTruth ==
  LET strip == renderStrip IN
  strip.id # 0 =>
    /\ Begun(strip.id)
    /\ strip.tag = "Failed" => status[strip.id] = "failed"
    /\ strip.tag = "Complete" => AtBroadcast(strip.id)

\* app.js draws its strip anew from the overlay, and calls no payment live before
\* its ceremony, failed that did not fail, or complete whose send had not begun.
THEOREM WebStripTellsTruth == Spec => []StripTruth
<1>1. SessionTypes /\ TruthInv => StripTruth
  <2> SUFFICES ASSUME SessionTypes, TruthInv, renderStrip.id # 0 PROVE
                 /\ Begun(renderStrip.id)
                 /\ renderStrip.tag = "Failed" => status[renderStrip.id] = "failed"
                 /\ renderStrip.tag = "Complete" => AtBroadcast(renderStrip.id)
    BY DEF StripTruth
  <2> DEFINE r == activeCeremonyId
             c == ceremonies[r]
             finished == ~c.failed /\ c.reached >= BROADCAST_IDX
  <2>1. r # 0 /\ renderStrip.id = r
    BY DEF renderStrip
  <2>2. r \in Request
    BY <2>1, TypesSplit DEF EngineTypes
  <2>3. renderStrip.tag = IF c.failed THEN "Failed" ELSE IF finished THEN "Complete" ELSE "Live"
    BY <2>1 DEF renderStrip
  <2>4. Begun(r) /\ OverlayIsTrue(r)
    BY <2>1, <2>2 DEF TruthInv
  <2>5. renderStrip.tag = "Failed" => c.failed
    BY <2>3
  <2>6. renderStrip.tag = "Complete" => finished
    BY <2>3
  <2> QED
    BY <2>1, <2>4, <2>5, <2>6 DEF OverlayIsTrue
<1> QED
  BY <1>1, WebAppIsSession, SessionTyped, SessionTellsTruth, PTL
=============================================================================
