--------------------------- MODULE Dashboard_proofs ---------------------------
(***************************************************************************)
(* For any group, any requests and any budget of operations and failures:  *)
(* the React front end only does what Session allows, so its answers and   *)
(* types are Session's; the strip never goes back, and what it says has    *)
(* happened on the server.                                                 *)
(***************************************************************************)
EXTENDS Dashboard, Session_proofs

\* Approve and reject are offered on cards this signer has not answered.
LEMMA OfferIsOpen ==
  ASSUME NEW s \in Signer, NEW r \in Request, NEW d \in {"approve", "reject"},
         Offered(s, <<d, r>>)
  PROVE  s \in OnScreen /\ decisions[s][r] = "none"
<1>1. s \in OnScreen /\ <<d, r>> \in Screen(s, activeCeremony).offers
  BY DEF Offered
<1>2. ASSUME NEW t, NEW chip, <<d, r>> \in QueueScreen(t, activeCeremony, chip).offers
      PROVE  decisions[t][r] = "none"
  <2>1. r \in PhoneQueueOf(t).open
    BY <1>2 DEF QueueScreen
  <2> QED
    BY <2>1 DEF PhoneQueueOf
<1>3. ASSUME NEW screen, NEW chip, NEW panels, NEW offers,
             <<d, r>> \in OverScreen(screen, chip, panels, offers).offers
      PROVE  <<d, r>> \in offers
  BY <1>3 DEF OverScreen
<1>4. ASSUME NEW t, NEW chip, NEW reviving, NEW repairing,
             <<d, r>> \in LostScreen(t, chip, reviving, repairing).offers
      PROVE  FALSE
  BY <1>3, <1>4 DEF LostScreen
<1>5. ASSUME <<d, r>> \in SignerPhone(s, activeCeremony).offers
      PROVE  decisions[s][r] = "none"
  BY <1>2, <1>4, <1>5 DEF SignerPhone
<1>6. ASSUME <<d, r>> \in DeviceView(activeCeremony).offers
      PROVE  decisions[me][r] = "none"
  BY <1>2, <1>3, <1>6 DEF DeviceView
<1> QED
  BY <1>1, <1>5, <1>6 DEF Screen, OnScreen

LEMMA ProposerType == Proposer \in Signer
<1>1. First(Signer) \in Signer
  BY SignersAreIds, FirstIsLeast
<1>2. Signer \ {First(Signer)} \in SUBSET Nat /\ Signer \ {First(Signer)} # {}
  BY <1>1, SignersAreIds, OthersExist
<1> QED
  BY <1>2, FirstIsLeast DEF Proposer

\* The components offer no step that a session does not have.
LEMMA DashboardStep == [Next]_vars => [SessionNext]_sessionState
<1> SUFFICES ASSUME [Next]_vars PROVE [SessionNext]_sessionState
  OBVIOUS
<1>1. CASE UNCHANGED vars
  BY <1>1 DEF vars, sessionState
<1>2. CASE OnEvent
  BY <1>2 DEF OnEvent, SessionNext
<1>3. ASSUME NEW a \in answers, RefreshRequests(a) \/ RefreshSigners(a) PROVE SessionNext
  BY <1>3 DEF RefreshRequests, RefreshSigners, SessionNext
<1>4. ASSUME NEW f \in timers, RevivalEnds(f) PROVE SessionNext
  BY <1>4 DEF RevivalEnds, SessionNext
<1>5. ASSUME NEW s \in Signer, NEW r \in Request, NEW d \in {"approve", "reject"},
             Decide(s, r, d)
      PROVE  SessionNext
  BY <1>5, OfferIsOpen DEF Decide, SessionNext
<1>6. ASSUME NEW s \in Signer, MarkLost(s) \/ Repair(s) PROVE SessionNext
  BY <1>6 DEF MarkLost, Repair, SessionNext
<1>7. CASE CreateRequest
  BY <1>7, ProposerType DEF CreateRequest, SessionNext
<1>8. ASSUME NEW c \in calls, CallAnswered(c) PROVE SessionNext
  BY <1>8 DEF CallAnswered, SessionNext
<1>9. CASE Network /\ Render
  BY <1>9 DEF SessionNext
<1> QED
  BY <1>1, <1>2, <1>3, <1>4, <1>5, <1>6, <1>7, <1>8, <1>9 DEF Next, Click

\* The React front end is a session: what it renders adds no step, and every
\* button it offers is one the session allows at that moment.
THEOREM DashboardIsSession == Spec => SessionSpec
<1>1. Init => SessionInit
  BY DEF Init
<1> QED
  BY <1>1, DashboardStep, PTL DEF Spec, SessionSpec

\* An answer a card shows is the vote the server has, or its call is still under
\* way: through refusals, failures on the network either way, and rollbacks.
THEOREM AnswersRecordedAlways == Spec => []AnswersAreRecorded
<1>1. AnswerInv => AnswersAreRecorded
  BY DEF AnswerInv, Recorded, Asks, AnswersAreRecorded
<1> QED
  BY <1>1, DashboardIsSession, SessionAnswers, PTL

\* No card has two answers under way.
THEOREM OneCallAlways == Spec => []OneCallPerCard
<1>1. AnswerInv => OneCallPerCard
  BY DEF AnswerInv, OneCall, OneCallPerCard
<1> QED
  BY <1>1, DashboardIsSession, SessionAnswers, PTL

-----------------------------------------------------------------------------
\* The strip.  The memoised ceremony is about the request the strip is on, and may
\* be behind its overlay, never ahead.

Shown ==
  [id : Request \cup {0}, reached : 0..Len(CEREMONY_ORDER), failed : BOOLEAN,
   finished : BOOLEAN, latest : Latest]

StripInv ==
  /\ activeCeremony \in Shown
  /\ activeCeremony.id = activeCeremonyId
  /\ activeCeremonyId # 0 =>
       /\ activeCeremony.reached <= ceremonies[activeCeremonyId].reached
       /\ activeCeremony.failed => ceremonies[activeCeremonyId].failed
  /\ activeCeremony.finished => activeCeremony.reached >= 10

\* What StripNeverRewinds says of one step.
Forward ==
  activeCeremony.id # 0 /\ activeCeremony'.id = activeCeremony.id =>
    /\ activeCeremony'.reached >= activeCeremony.reached
    /\ activeCeremony.failed => activeCeremony'.failed

\* The strip as computed now is what the overlay says.
UpToDate ==
  activeCeremonyId # 0 =>
    /\ activeCeremony.reached = ceremonies[activeCeremonyId].reached
    /\ activeCeremony.failed = ceremonies[activeCeremonyId].failed

LEMMA StripComputed ==
  EngineTypes /\ activeCeremony = ActiveCeremony => StripInv /\ UpToDate
<1> SUFFICES ASSUME EngineTypes, activeCeremony = ActiveCeremony PROVE StripInv /\ UpToDate
  OBVIOUS
<1>t. Len(CEREMONY_ORDER) = 11
  BY DEF CEREMONY_ORDER
<1>1. CASE activeCeremonyId = 0
  <2>1. activeCeremony = NoActive
    BY <1>1 DEF ActiveCeremony
  <2>2. NoActive \in Shown /\ NoActive.id = 0 /\ ~NoActive.finished
    BY <1>t, StepsKnown DEF NoActive, Shown
  <2> QED
    BY <1>1, <2>1, <2>2 DEF StripInv, UpToDate
<1>2. CASE activeCeremonyId # 0
  <2> DEFINE c == ceremonies[activeCeremonyId]
             finished == ~c.failed /\ c.reached >= BROADCAST_IDX
  <2>1. activeCeremony = [id |-> activeCeremonyId, reached |-> c.reached, failed |-> c.failed,
                          finished |-> finished, latest |-> c.latest]
    BY <1>2 DEF ActiveCeremony
  <2>2. activeCeremonyId \in Request
          /\ c \in [reached : 0..11, latest : Latest, failed : BOOLEAN]
    BY <1>2, <1>t DEF EngineTypes
  <2>3. finished \in BOOLEAN /\ (finished => c.reached >= 10)
    BY BroadcastIndex
  <2> HIDE DEF c, finished
  <2>4. /\ activeCeremony \in Shown
        /\ activeCeremony.id = activeCeremonyId /\ activeCeremony.reached = c.reached
        /\ activeCeremony.failed = c.failed /\ activeCeremony.finished = finished
    BY <1>t, <2>1, <2>2, <2>3 DEF Shown
  <2> QED
    BY <2>2, <2>3, <2>4 DEF StripInv, UpToDate, c
<1> QED
  BY <1>1, <1>2

LEMMA StripInit == Init => StripInv
<1> SUFFICES ASSUME Init PROVE StripInv
  OBVIOUS
<1>1. EngineTypes
  BY TypesInit, TypesSplit DEF Init
<1>2. activeCeremony = ActiveCeremony
  BY DEF Init, SessionInit, ActiveCeremony
<1> QED
  BY <1>1, <1>2, StripComputed

\* After every step the strip is the one of before, on the same request, or it was
\* computed again.
LEMMA StripRendered ==
  [Next]_vars => \/ UNCHANGED <<activeCeremony, activeCeremonyId>>
                 \/ activeCeremony' = ActiveCeremony'
<1> SUFFICES ASSUME [Next]_vars
             PROVE  \/ UNCHANGED <<activeCeremony, activeCeremonyId>>
                    \/ activeCeremony' = ActiveCeremony'
  OBVIOUS
<1>1. CASE UNCHANGED vars
  BY <1>1 DEF vars, sessionVars, engineVars
<1>2. CASE Render
  BY <1>2 DEF Render
<1>3. ASSUME NEW a, RefreshRequests(a) PROVE activeCeremony' = ActiveCeremony'
  BY <1>3 DEF RefreshRequests
<1>4. Next => Render \/ \E a \in answers : RefreshRequests(a)
  BY DEF Next, OnEvent, RefreshSigners, RevivalEnds, Click, Decide, MarkLost, Repair,
         CreateRequest, CallAnswered
<1> QED
  BY <1>1, <1>2, <1>3, <1>4

LEMMA ReachedType == EngineTypes => \A r \in Request : ceremonies[r].reached \in Nat
<1>1. Len(CEREMONY_ORDER) = 11
  BY DEF CEREMONY_ORDER
<1> QED
  BY <1>1 DEF EngineTypes

LEMMA StripNext ==
  SessionTypes /\ SessionTypes' /\ StripInv /\ [Next]_vars => StripInv' /\ [Forward]_vars
<1> SUFFICES ASSUME SessionTypes, SessionTypes', StripInv, [Next]_vars
             PROVE  StripInv' /\ Forward
  OBVIOUS
<1>1. EngineTypes /\ FeedTypes /\ activeCeremony \in Shown
  BY TypesSplit DEF StripInv
<1>2. EngineTypes'
  BY TypesSplit, PTL
<1>3. Forwards
  BY <1>1, DashboardStep, GoesForward
<1>4. /\ activeCeremonyId \in Request \cup {0} /\ Len(CEREMONY_ORDER) = 11
      /\ \A r \in Request : /\ ceremonies[r].reached \in Nat /\ ceremonies'[r].reached \in Nat
                            /\ ceremonies'[r].reached >= ceremonies[r].reached
                            /\ ceremonies[r].failed => ceremonies'[r].failed
  <2>1. Len(CEREMONY_ORDER) = 11
    BY DEF CEREMONY_ORDER
  <2>2. (\A r \in Request : ceremonies[r].reached \in Nat)'
    <3>1. (EngineTypes => \A r \in Request : ceremonies[r].reached \in Nat)'
      BY ReachedType, PTL
    <3> QED
      BY <1>2, <3>1
  <2>3. activeCeremonyId \in Request \cup {0}
    BY <1>1 DEF EngineTypes
  <2> QED
    BY <1>1, <1>3, <2>1, <2>2, <2>3, ReachedType DEF Forwards
<1>5. activeCeremony.reached \in Nat
  BY <1>1, <1>4 DEF Shown
<1>6. CASE UNCHANGED <<activeCeremony, activeCeremonyId>>
  BY <1>4, <1>5, <1>6 DEF StripInv, Forward, Shown
<1>7. CASE activeCeremony' = ActiveCeremony'
  <2>1. StripInv' /\ UpToDate'
    <3>1. (EngineTypes /\ activeCeremony = ActiveCeremony => StripInv /\ UpToDate)'
      BY StripComputed, PTL
    <3> QED
      BY <1>2, <1>7, <3>1
  <2>2. activeCeremony'.id = activeCeremonyId' /\ activeCeremony.id = activeCeremonyId
    BY <2>1 DEF StripInv
  <2>3. Forward
    BY <1>4, <1>5, <2>1, <2>2 DEF StripInv, UpToDate, Forward
  <2> QED
    BY <2>1, <2>3
<1> QED
  BY <1>6, <1>7, StripRendered

LEMMA StripInvHolds == Spec => []StripInv
<1>1. Spec => []SessionTypes
  BY DashboardIsSession, SessionTyped, PTL
<1> QED
  BY <1>1, StripInit, StripNext, PTL DEF Spec

\* The strip never goes back while it is on one request, and a failure stays on
\* it: though "broadcast" comes twice, events are missed or come late, and the
\* strip is computed from a map that changes behind it.
THEOREM StripNeverGoesBack == Spec => StripNeverRewinds
<1>1. Spec => []SessionTypes
  BY DashboardIsSession, SessionTyped, PTL
<1>2. Spec => [][Forward]_vars
  BY <1>1, StripInvHolds, StripNext, PTL DEF Spec
<1> QED
  BY <1>2 DEF StripNeverRewinds, Forward

\* The dashboard's state has its type whatever lists, events and answers reach it.
THEOREM DashboardTypes == Spec => []TypeOK
<1>1. SessionTypes /\ StripInv => TypeOK
  BY DEF SessionTypes, StripInv, Shown, TypeOK
<1> QED
  BY <1>1, DashboardIsSession, SessionTyped, StripInvHolds, PTL

\* What the strip says of a payment has happened on the server: it speaks of none
\* before its ceremony, calls none failed that was broadcast, and none complete
\* whose pipeline had not come to the send.
THEOREM StripTellsTruth == Spec => []StripIsTrue
<1>1. SessionTypes /\ TruthInv /\ StripInv => StripIsTrue
  <2> SUFFICES ASSUME SessionTypes, TruthInv, StripInv, activeCeremonyId # 0
               PROVE  LET r == activeCeremonyId IN
                      /\ status[r] \in {"signing", "broadcast", "failed"}
                      /\ activeCeremony.failed => status[r] # "broadcast"
                      /\ activeCeremony.finished =>
                           \/ status[r] = "broadcast"
                           \/ \E i \in 1..progress[r] : Steps[i] \in {"broadcast", "confirmed"}
    BY DEF StripIsTrue, StripInv
  <2> DEFINE r == activeCeremonyId
  <2>1. r \in Request /\ ceremonies[r].reached \in Nat /\ activeCeremony.reached \in Nat
    <3>1. EngineTypes /\ Len(CEREMONY_ORDER) = 11
      BY TypesSplit DEF CEREMONY_ORDER
    <3> QED
      BY <3>1 DEF EngineTypes, StripInv, Shown
  <2>2. Begun(r) /\ OverlayIsTrue(r)
    BY <2>1 DEF TruthInv
  <2>3. activeCeremony.failed => status[r] = "failed"
    BY <2>2 DEF StripInv, OverlayIsTrue
  <2>4. activeCeremony.finished => ceremonies[r].reached >= BROADCAST_IDX
    BY <2>1, BroadcastIndex DEF StripInv
  <2> QED
    BY <2>2, <2>3, <2>4 DEF OverlayIsTrue, Begun, AtBroadcast
<1> QED
  BY <1>1, DashboardIsSession, SessionTyped, SessionTellsTruth, StripInvHolds, PTL
=============================================================================
