--------------------------- MODULE Session_proofs ---------------------------
(***************************************************************************)
(* What a session of either front end preserves, for every group, every    *)
(* set of requests and any budget: its answers, types and feed, the signers*)
(* table and the payments behind it, and the truth of what it shows.       *)
(* Dashboard_proofs and WebApp_proofs show that their front ends are such  *)
(* sessions.                                                               *)
(***************************************************************************)
EXTENDS Screens, FiniteSetTheorems, WellFoundedInduction, TLAPS

\* Decide calls of one card.
Asks(c, s, r) == c.op = "decide" /\ c.signer = s /\ c.request = r

AnswerTypes ==
  /\ me \in Signer \cup {0}
  /\ votes \in [Request -> [Signer -> Vote]]
  /\ decisions \in [Signer -> [Request -> Vote]]
  /\ calls \subseteq Call

\* A decide call stands for the answer its card shows, and one the server has
\* answered is recorded.
CallStands(c) ==
  c.op = "decide" =>
    /\ c.signer \in OnScreen /\ c.request \in Request
    /\ c.vote # "none" /\ decisions[c.signer][c.request] = c.vote
    /\ c.phase = "ok" => votes[c.request][c.signer] = c.vote

OneCall ==
  \A c, d \in calls :
    c.op = "decide" /\ d.op = "decide" /\ c.signer = d.signer /\ c.request = d.request => c = d

Recorded ==
  \A s \in Signer, r \in Request :
    \/ votes[r][s] = decisions[s][r]
    \/ decisions[s][r] = "none"
    \/ \E c \in calls : Asks(c, s, r)

\* The dashboard answers for the signers it shows only: the others' votes are
\* not its own.
OnlyShown == \A s \in Signer, r \in Request : s \in OnScreen \/ decisions[s][r] = "none"

AnswerInv ==
  /\ AnswerTypes
  /\ \A c \in calls : CallStands(c)
  /\ OneCall /\ Recorded /\ OnlyShown

LEMMA AnswerInit == SessionInit => AnswerInv
<1> SUFFICES ASSUME SessionInit PROVE AnswerInv
  OBVIOUS
<1>1. decisions = [s \in Signer |-> [r \in Request |-> "none"]] /\ calls = {}
  BY DEF SessionInit
<1>2. PICK b \in Budgets : BackendInit(b.rows) /\ me = b.me
  BY DEF SessionInit
<1>3. votes \in [Request -> [Signer -> Vote]] /\ me \in Signer \cup {0}
  BY <1>2, BudgetsAssumption DEF BackendInit, Vote
<1>4. AnswerTypes
  BY <1>1, <1>3 DEF AnswerTypes, Vote
<1> QED
  BY <1>1, <1>4 DEF AnswerInv, OneCall, Recorded, OnlyShown

\* A call that moves on is the same call in another phase.
LEMMA Rephase ==
  ASSUME NEW c \in Call, NEW p \in {"sent", "ok", "refused"}
  PROVE  LET e == [c EXCEPT !.phase = p] IN
         /\ e \in Call /\ e.phase = p
         /\ e.op = c.op /\ e.signer = c.signer /\ e.request = c.request /\ e.vote = c.vote
BY DEF Call, CallPhase

\* Steps that leave votes, answers and decide calls alone.
LEMMA Steady ==
  ASSUME AnswerInv, UNCHANGED <<me, votes, decisions>>, calls' \subseteq Call,
         \A c \in calls' : c.op = "decide" => c \in calls,
         \A c \in calls : c.op = "decide" => c \in calls'
  PROVE  AnswerInv'
<1>1. AnswerTypes'
  BY DEF AnswerInv, AnswerTypes
<1>2. \A c \in calls' : CallStands(c)'
  BY DEF AnswerInv, CallStands, OnScreen
<1>3. OneCall'
  BY DEF AnswerInv, OneCall
<1>4. Recorded'
  BY DEF AnswerInv, Recorded, Asks
<1>5. OnlyShown'
  BY DEF AnswerInv, OnlyShown, OnScreen
<1> QED
  BY <1>1, <1>2, <1>3, <1>4, <1>5 DEF AnswerInv

LEMMA Untouched ==
  ASSUME AnswerInv, UNCHANGED <<me, votes, decisions, calls>>
  PROVE  AnswerInv'
BY Steady DEF AnswerInv, AnswerTypes

\* A call is answered without a vote.
LEMMA Refused ==
  ASSUME AnswerInv, NEW c \in calls, Answer(c, "refused"), UNCHANGED <<me, votes, decisions>>
  PROVE  AnswerInv'
<1> DEFINE e == [c EXCEPT !.phase = "refused"]
<1>1. /\ e \in Call /\ e.phase = "refused" /\ e.op = c.op /\ e.signer = c.signer
      /\ e.request = c.request /\ e.vote = c.vote
  BY Rephase DEF AnswerInv, AnswerTypes
<1>2. calls' = (calls \ {c}) \cup {e}
  BY DEF Answer
<1> HIDE DEF e
<1>3. AnswerTypes'
  BY <1>1, <1>2 DEF AnswerInv, AnswerTypes
<1>4. \A d \in calls' : CallStands(d)'
  BY <1>1, <1>2 DEF AnswerInv, CallStands, OnScreen
<1>5. OneCall'
  BY <1>1, <1>2 DEF AnswerInv, OneCall
<1>6. Recorded'
  BY <1>1, <1>2 DEF AnswerInv, Recorded, Asks
<1>7. OnlyShown'
  BY DEF AnswerInv, OnlyShown, OnScreen
<1> QED
  BY <1>3, <1>4, <1>5, <1>6, <1>7 DEF AnswerInv

\* A card that shows no answer is answered.
LEMMA Entered ==
  ASSUME AnswerInv, NEW s \in Signer, NEW r \in Request, NEW d \in {"approve", "reject"},
         s \in OnScreen, decisions[s][r] = "none", EnterDecision(s, r, d)
  PROVE  AnswerInv'
<1> DEFINE e == [op |-> "decide", signer |-> s, by |-> s, request |-> r, vote |-> d,
                 phase |-> "sent"]
<1>1. calls' = calls \cup {e} /\ decisions' = [decisions EXCEPT ![s][r] = d]
        /\ UNCHANGED <<me, votes>>
  BY DEF EnterDecision, NewCall, serverVars
<1>2. e \in Call /\ e.op = "decide" /\ e.signer = s /\ e.request = r /\ e.vote = d
        /\ e.phase = "sent"
  BY DEF Call, CallPhase
<1> HIDE DEF e
<1>3. /\ decisions' \in [Signer -> [Request -> Vote]] /\ decisions'[s][r] = d
      /\ \A t \in Signer, q \in Request :
           t # s \/ q # r => decisions'[t][q] = decisions[t][q]
  BY <1>1 DEF AnswerInv, AnswerTypes, Vote
<1>4. \A c \in calls : ~Asks(c, s, r)
  BY DEF AnswerInv, CallStands, Asks
<1>5. AnswerTypes'
  BY <1>1, <1>2, <1>3 DEF AnswerInv, AnswerTypes
<1>6. ASSUME NEW c \in calls' PROVE CallStands(c)'
  <2>1. CASE c = e
    BY <1>1, <1>2, <1>3, <2>1 DEF CallStands, OnScreen
  <2>2. CASE c \in calls
    <3>1. SUFFICES ASSUME c.op = "decide" PROVE CallStands(c)'
      BY DEF CallStands
    <3>2. CallStands(c) /\ ~Asks(c, s, r) /\ c.signer \in Signer
      BY <1>4, <2>2, <3>1 DEF AnswerInv, CallStands, OnScreen, AnswerTypes
    <3>3. c.signer # s \/ c.request # r
      BY <3>1, <3>2 DEF Asks
    <3>4. decisions'[c.signer][c.request] = decisions[c.signer][c.request]
      BY <1>3, <3>1, <3>2, <3>3 DEF CallStands
    <3> QED
      BY <1>1, <3>1, <3>2, <3>4 DEF CallStands, OnScreen
  <2> QED
    BY <1>1, <2>1, <2>2
<1>7. OneCall'
  BY <1>1, <1>2, <1>4 DEF AnswerInv, OneCall, Asks
<1>8. Recorded'
  BY <1>1, <1>2, <1>3 DEF AnswerInv, Recorded, Asks
<1>9. OnlyShown'
  BY <1>1, <1>3 DEF AnswerInv, OnlyShown, OnScreen
<1> QED
  BY <1>5, <1>6, <1>7, <1>8, <1>9 DEF AnswerInv

\* The server records the vote of a decide call and answers it.
LEMMA Served ==
  ASSUME AnswerInv, NEW c \in calls, c.op = "decide", Answer(c, "ok"),
         votes' = [votes EXCEPT ![c.request][c.signer] = c.vote], UNCHANGED <<me, decisions>>
  PROVE  AnswerInv'
<1> DEFINE e == [c EXCEPT !.phase = "ok"]
<1>1. /\ e \in Call /\ e.phase = "ok" /\ e.op = c.op /\ e.signer = c.signer
      /\ e.request = c.request /\ e.vote = c.vote
  BY Rephase DEF AnswerInv, AnswerTypes
<1>2. calls' = (calls \ {c}) \cup {e}
  BY DEF Answer
<1> HIDE DEF e
<1>3. c.signer \in Signer /\ c.request \in Request /\ c.vote \in Vote /\ CallStands(c)
  BY DEF AnswerInv, AnswerTypes, CallStands, OnScreen, Call
<1>4. /\ votes' \in [Request -> [Signer -> Vote]] /\ votes'[c.request][c.signer] = c.vote
      /\ \A s \in Signer, r \in Request :
           s # c.signer \/ r # c.request => votes'[r][s] = votes[r][s]
  BY <1>3 DEF AnswerInv, AnswerTypes
<1>5. AnswerTypes'
  BY <1>1, <1>2, <1>4 DEF AnswerInv, AnswerTypes
<1>6. ASSUME NEW d \in calls', d.op = "decide" PROVE CallStands(d)'
  <2>1. CASE d = e
    BY <1>1, <1>3, <1>4, <2>1 DEF CallStands, OnScreen
  <2>2. CASE d \in calls /\ d # c
    <3>1. CallStands(d) /\ (d.signer # c.signer \/ d.request # c.request)
      BY <1>6, <2>2 DEF AnswerInv, OneCall
    <3>2. d.signer \in Signer /\ d.request \in Request
      BY <1>6, <3>1 DEF AnswerInv, AnswerTypes, CallStands, OnScreen
    <3>3. votes'[d.request][d.signer] = votes[d.request][d.signer]
      BY <1>4, <3>1, <3>2
    <3> QED
      BY <1>6, <3>1, <3>3 DEF CallStands, OnScreen
  <2> QED
    BY <1>2, <2>1, <2>2
<1>7. \A d \in calls' : CallStands(d)'
  BY <1>6 DEF CallStands
<1>8. OneCall'
  BY <1>1, <1>2 DEF AnswerInv, OneCall
<1>9. Recorded'
  <2> SUFFICES ASSUME NEW s \in Signer, NEW r \in Request,
                      votes'[r][s] # decisions[s][r], decisions[s][r] # "none"
               PROVE  \E d \in calls' : Asks(d, s, r)
    BY DEF Recorded
  <2>1. CASE s = c.signer /\ r = c.request
    BY <1>1, <1>2, <2>1 DEF Asks
  <2>2. CASE s # c.signer \/ r # c.request
    <3>1. PICK d \in calls : Asks(d, s, r)
      BY <1>4, <2>2 DEF AnswerInv, Recorded
    <3>2. d # c
      BY <2>2, <3>1 DEF Asks
    <3> QED
      BY <1>2, <3>1, <3>2
  <2> QED
    BY <2>1, <2>2
<1>10. OnlyShown'
  BY DEF AnswerInv, OnlyShown, OnScreen
<1> QED
  BY <1>5, <1>7, <1>8, <1>9, <1>10 DEF AnswerInv

\* The answer of a recorded decision is taken.
LEMMA Taken ==
  ASSUME AnswerInv, NEW c \in calls, c.op = "decide", c.phase = "ok", calls' = calls \ {c},
         UNCHANGED <<me, votes, decisions>>
  PROVE  AnswerInv'
<1>1. CallStands(c)
  BY DEF AnswerInv
<1>2. AnswerTypes' /\ OneCall' /\ OnlyShown'
  BY DEF AnswerInv, AnswerTypes, OneCall, OnlyShown, OnScreen
<1>3. \A d \in calls' : CallStands(d)'
  BY DEF AnswerInv, CallStands, OnScreen
<1>4. Recorded'
  <2> SUFFICES ASSUME NEW s \in Signer, NEW r \in Request,
                      votes[r][s] # decisions[s][r], decisions[s][r] # "none"
               PROVE  \E d \in calls' : Asks(d, s, r)
    BY DEF Recorded
  <2>1. PICK d \in calls : Asks(d, s, r)
    BY DEF AnswerInv, Recorded
  <2>2. d # c
    BY <1>1, <2>1 DEF Asks, CallStands
  <2> QED
    BY <2>1, <2>2
<1> QED
  BY <1>2, <1>3, <1>4 DEF AnswerInv

\* A refused decision is taken back.
LEMMA TakenBack ==
  ASSUME AnswerInv, NEW c \in calls, c.op = "decide", calls' = calls \ {c},
         decisions' = [decisions EXCEPT ![c.signer][c.request] = "none"],
         UNCHANGED <<me, votes>>
  PROVE  AnswerInv'
<1>1. c.signer \in Signer /\ c.request \in Request
  BY DEF AnswerInv, AnswerTypes, CallStands, OnScreen
<1>2. /\ decisions' \in [Signer -> [Request -> Vote]]
      /\ decisions'[c.signer][c.request] = "none"
      /\ \A s \in Signer, r \in Request :
           s # c.signer \/ r # c.request => decisions'[s][r] = decisions[s][r]
  BY <1>1 DEF AnswerInv, AnswerTypes, Vote
<1>3. AnswerTypes' /\ OneCall'
  BY <1>2 DEF AnswerInv, AnswerTypes, OneCall
<1>4. ASSUME NEW d \in calls', d.op = "decide" PROVE CallStands(d)'
  <2>1. CallStands(d) /\ (d.signer # c.signer \/ d.request # c.request)
    BY <1>4 DEF AnswerInv, OneCall
  <2>2. d.signer \in Signer /\ d.request \in Request
    BY <1>4, <2>1 DEF AnswerInv, AnswerTypes, CallStands, OnScreen
  <2>3. decisions'[d.signer][d.request] = decisions[d.signer][d.request]
    BY <1>2, <2>1, <2>2
  <2> QED
    BY <1>4, <2>1, <2>3 DEF CallStands, OnScreen
<1>5. \A d \in calls' : CallStands(d)'
  BY <1>4 DEF CallStands
<1>6. Recorded'
  <2> SUFFICES ASSUME NEW s \in Signer, NEW r \in Request,
                      votes[r][s] # decisions'[s][r], decisions'[s][r] # "none"
               PROVE  \E d \in calls' : Asks(d, s, r)
    BY DEF Recorded
  <2>1. s # c.signer \/ r # c.request
    BY <1>2
  <2>2. PICK d \in calls : Asks(d, s, r)
    BY <1>2, <2>1 DEF AnswerInv, Recorded
  <2>3. d # c
    BY <2>1, <2>2 DEF Asks
  <2> QED
    BY <2>2, <2>3
<1>7. OnlyShown'
  BY <1>2 DEF AnswerInv, OnlyShown, OnScreen
<1> QED
  BY <1>3, <1>5, <1>6, <1>7 DEF AnswerInv

\* A signer who is not on this screen votes on another.
LEMMA VotedElsewhere ==
  ASSUME AnswerInv, NEW s \in Signer, NEW r \in Request, NEW d \in Vote, s \notin OnScreen,
         votes' = [votes EXCEPT ![r][s] = d], UNCHANGED <<me, decisions, calls>>
  PROVE  AnswerInv'
<1>1. /\ votes' \in [Request -> [Signer -> Vote]]
      /\ \A t \in Signer, q \in Request : t # s => votes'[q][t] = votes[q][t]
  BY DEF AnswerInv, AnswerTypes
<1>2. AnswerTypes' /\ OneCall' /\ OnlyShown'
  BY <1>1 DEF AnswerInv, AnswerTypes, OneCall, OnlyShown, OnScreen
<1>3. ASSUME NEW c \in calls, c.op = "decide" PROVE CallStands(c)'
  <2>1. CallStands(c) /\ c.signer \in Signer /\ c.signer # s /\ c.request \in Request
    BY <1>3 DEF AnswerInv, AnswerTypes, CallStands, OnScreen
  <2>2. votes'[c.request][c.signer] = votes[c.request][c.signer]
    BY <1>1, <2>1
  <2> QED
    BY <1>3, <2>1, <2>2 DEF CallStands, OnScreen
<1>4. \A c \in calls' : CallStands(c)'
  BY <1>3 DEF CallStands
<1>5. Recorded'
  BY <1>1 DEF AnswerInv, Recorded, OnlyShown, Asks
<1> QED
  BY <1>2, <1>4, <1>5 DEF AnswerInv

-----------------------------------------------------------------------------
\* Steps of the server and the network.

LEMMA ServeStep ==
  ASSUME AnswerInv, NEW c \in calls, AnswerCall(c)
  PROVE  AnswerInv'
<1>t. c \in Call
  BY DEF AnswerInv, AnswerTypes
<1>1. CASE ServeDecide(c)
  <2>1. c.op = "decide" /\ Answer(c, "ok") /\ UNCHANGED <<me, decisions>>
          /\ votes' = [votes EXCEPT ![c.request][c.signer] = c.vote]
    BY <1>1 DEF ServeDecide, Sent, RecordVote, engineVars
  <2> QED
    BY <2>1, Served
<1>2. CASE ServeCreate(c) \/ ServeLost(c) \/ ServeRepair(c)
  <2> DEFINE e == [c EXCEPT !.phase = "ok"]
  <2>1. c.op # "decide" /\ UNCHANGED <<me, votes, decisions>> /\ calls' = (calls \ {c}) \cup {e}
    BY <1>2 DEF ServeCreate, ServeLost, ServeRepair, Sent, InsertRequest, SetLost,
                StartRecovery, engineVars, Answer
  <2>2. e \in Call /\ e.op = c.op
    BY <1>t, Rephase
  <2> HIDE DEF e
  <2>3. calls' \subseteq Call
    BY <2>1, <2>2 DEF AnswerInv, AnswerTypes
  <2> QED
    BY <2>1, <2>2, <2>3, Steady
<1>3. CASE RefuseCall(c)
  <2>1. Answer(c, "refused") /\ UNCHANGED <<me, votes, decisions>>
    BY <1>3 DEF RefuseCall, serverVars, engineVars
  <2> QED
    BY <2>1, Refused
<1> QED
  BY <1>1, <1>2, <1>3 DEF AnswerCall

LEMMA ElsewhereStep ==
  ASSUME AnswerInv, Elsewhere
  PROVE  AnswerInv'
<1>1. UNCHANGED <<me, decisions, calls>>
  BY DEF Elsewhere, engineVars
<1>2. ASSUME me # 0, NEW s \in Signer \ {me}, NEW r \in Request,
             NEW d \in {"approve", "reject"}, RecordVote(s, r, d)
      PROVE  AnswerInv'
  <2>1. votes' = [votes EXCEPT ![r][s] = d] /\ s \notin OnScreen /\ d \in Vote
    BY <1>2 DEF RecordVote, OnScreen, Vote
  <2> QED
    BY <1>1, <2>1, VotedElsewhere
<1>3. ASSUME NEW r \in Request, InsertRequest(r) PROVE AnswerInv'
  BY <1>1, <1>3, Untouched DEF InsertRequest
<1>4. ASSUME NEW s \in Signer, SetLost(s) \/ StartRecovery(s) PROVE AnswerInv'
  BY <1>1, <1>4, Untouched DEF SetLost, StartRecovery
<1> QED
  BY <1>2, <1>3, <1>4 DEF Elsewhere

LEMMA ServerStep ==
  ASSUME AnswerInv, Server
  PROVE  AnswerInv'
<1>1. UNCHANGED <<me, decisions, calls>>
  BY DEF Server, sessionVars, engineVars
<1>2. votes' = votes
  BY DEF Server, RecoveryTask, ReportRecovery, ReactivateSigner, RecoveryDone, RecoveryFailed,
         Ceremony, Gather, ReportStep, CeremonyOk, CeremonyFailed
<1> QED
  BY <1>1, <1>2, Untouched

LEMMA NetworkStep ==
  ASSUME AnswerInv, Network
  PROVE  AnswerInv'
<1>1. CASE PollRequests \/ PollSigners \/ StreamUp \/ StreamDown
  <2>1. UNCHANGED <<me, votes, decisions, calls>>
    BY <1>1 DEF PollRequests, PollSigners, Poll, StreamUp, StreamDown, serverVars, engineVars,
                sessionVars
  <2> QED
    BY <2>1, Untouched
<1>2. ASSUME NEW a \in answers, LosePoll(a) PROVE AnswerInv'
  BY <1>2, Untouched DEF LosePoll, serverVars, engineVars
<1>3. ASSUME NEW c \in calls, LoseCall(c) PROVE AnswerInv'
  BY <1>3, Refused DEF LoseCall, serverVars, engineVars
<1> QED
  BY <1>1, <1>2, <1>3, ServeStep, ElsewhereStep, ServerStep DEF Network

-----------------------------------------------------------------------------
\* Steps of the dashboard.

LEMMA PollTaken ==
  ASSUME AnswerInv, NEW a, TakeRequests(a) \/ TakeSigners(a)
  PROVE  AnswerInv'
BY Untouched DEF TakeRequests, TakeSigners, serverVars

LEMMA EventHandled ==
  ASSUME AnswerInv, HandleEvent
  PROVE  AnswerInv'
<1>1. UNCHANGED <<me, votes, calls>>
  BY DEF HandleEvent, serverVars
<1>2. decisions' = decisions
  BY DEF HandleEvent, ShowCeremony, ShowRecovery, engineVars
<1> QED
  BY <1>1, <1>2, Untouched

LEMMA RevivalEnded ==
  ASSUME AnswerInv, NEW f, EndRevival(f)
  PROVE  AnswerInv'
BY Untouched DEF EndRevival, serverVars

\* Calls that are no decisions come and go.
LEMMA OtherCallTaken ==
  ASSUME AnswerInv, NEW c \in calls,
         \/ LostTaken(c) \/ LostFailed(c) \/ RepairTaken(c) \/ RepairFailed(c)
         \/ RequestCreated(c) \/ RequestRefused(c)
  PROVE  AnswerInv'
<1>1. c.op # "decide" /\ calls' = calls \ {c} /\ UNCHANGED <<me, votes, decisions>>
  BY DEF LostTaken, LostFailed, RepairTaken, RepairFailed, RequestCreated, RequestRefused,
         Finish, serverVars, engineVars
<1>2. calls' \subseteq Call
  BY <1>1 DEF AnswerInv, AnswerTypes
<1> QED
  BY <1>1, <1>2, Steady

LEMMA DecisionEnds ==
  ASSUME AnswerInv, NEW c \in calls, DecisionTaken(c) \/ DecisionFailed(c)
  PROVE  AnswerInv'
<1>1. CASE DecisionTaken(c)
  BY <1>1, Taken DEF DecisionTaken, Finish, serverVars, engineVars
<1>2. CASE DecisionFailed(c)
  BY <1>2, TakenBack DEF DecisionFailed, Finish, serverVars
<1> QED
  BY <1>1, <1>2

-----------------------------------------------------------------------------
\* Which signer's token a front end uses.

\* First is the least of a set of ids.
LEMMA FirstIsLeast ==
  ASSUME NEW S \in SUBSET Nat, S # {}
  PROVE  First(S) \in S /\ \A t \in S : First(S) <= t
<1> DEFINE less == {p \in Nat \X Nat : p[1] < p[2]}
<1>1. IsWellFoundedOn(less, Nat)
  BY NatLessThanWellFounded DEF OpToRel
<1>2. \A x, y \in Nat : x < y => <<x, y>> \in less
  OBVIOUS
<1> HIDE DEF less
<1>3. PICK x \in S : \A y \in S : <<y, x>> \notin less
  BY <1>1, WFMin, Zenon
<1>4. \A y \in S : x <= y
  <2> TAKE y \in S
  <2>1. x \in Nat /\ y \in Nat /\ ~(y < x)
    BY <1>2, <1>3
  <2> QED
    BY <2>1
<1> QED
  BY <1>4 DEF First

LEMMA SignersAreIds == Signer \in SUBSET Nat /\ Signer # {}
<1>1. Signer # {}
  BY OthersAssumption, FS_EmptySet
<1> QED
  BY <1>1, BackendAssumption

LEMMA OthersExist ==
  ASSUME NEW s \in Signer
  PROVE  Signer \ {s} # {}
<1> SUFFICES ASSUME Signer \ {s} = {} PROVE FALSE
  OBVIOUS
<1>1. Signer = {s}
  OBVIOUS
<1>2. Cardinality(Signer) = 1
  BY <1>1, FS_Singleton
<1> QED
  BY <1>2, OthersAssumption

LEMMA HelperType ==
  ASSUME NEW s \in Signer
  PROVE  Helper(s) \in Signer
<1> DEFINE others == Signer \ {s}
           active == {t \in others : RawStatus(t) = "active"}
           asked == IF active # {} THEN active ELSE others
<1>1. asked \in SUBSET Nat /\ asked # {} /\ asked \subseteq Signer
  BY SignersAreIds, OthersExist
<1>2. Helper(s) = First(asked)
  BY DEF Helper
<1> HIDE DEF asked
<1> QED
  BY <1>1, <1>2, FirstIsLeast

\* A call that is no decision is made.
LEMMA OtherCallMade ==
  ASSUME AnswerInv, NEW op \in {"lost", "repair", "create"}, NEW id \in Signer \cup {0},
         NEW by \in Signer, id = 0 <=> op = "create",
         NewCall(op, id, by, 0, "none"), UNCHANGED <<me, votes, decisions>>
  PROVE  AnswerInv'
<1> DEFINE e == [op |-> op, signer |-> id, by |-> by, request |-> 0, vote |-> "none",
                 phase |-> "sent"]
<1>1. e \in Call /\ e.op # "decide"
  BY BackendAssumption DEF Call, CallPhase
<1>2. calls' = calls \cup {e}
  BY DEF NewCall
<1> HIDE DEF e
<1> QED
  BY <1>1, <1>2, Steady DEF AnswerInv, AnswerTypes

LEMMA OtherCallSent ==
  ASSUME AnswerInv, NEW s \in Signer, ReportLost(s) \/ AskRepair(s) \/ SubmitRequest(s)
  PROVE  AnswerInv'
<1>0. s # 0
  BY BackendAssumption
<1>1. CASE ReportLost(s)
  BY <1>0, <1>1, OtherCallMade DEF ReportLost, serverVars, engineVars
<1>2. CASE AskRepair(s)
  BY <1>0, <1>2, HelperType, OtherCallMade DEF AskRepair, serverVars
<1>3. CASE SubmitRequest(s)
  BY <1>3, OtherCallMade DEF SubmitRequest, serverVars, engineVars
<1> QED
  BY <1>1, <1>2, <1>3

-----------------------------------------------------------------------------
\* What both front ends do, without what they render: answers are given on cards
\* that are shown and open.  Each front end implements it.

sessionState == <<serverVars, feedVars, sessionVars>>

SessionNext ==
  \/ HandleEvent
  \/ \E a \in answers : TakeRequests(a) \/ TakeSigners(a)
  \/ \E f \in timers : EndRevival(f)
  \/ \E s \in Signer, r \in Request, d \in {"approve", "reject"} :
       s \in OnScreen /\ decisions[s][r] = "none" /\ EnterDecision(s, r, d)
  \/ \E s \in Signer : ReportLost(s) \/ AskRepair(s) \/ SubmitRequest(s)
  \/ \E c \in calls : \/ DecisionTaken(c) \/ DecisionFailed(c)
                      \/ LostTaken(c) \/ LostFailed(c)
                      \/ RepairTaken(c) \/ RepairFailed(c)
                      \/ RequestCreated(c) \/ RequestRefused(c)
  \/ Network

SessionSpec == SessionInit /\ [][SessionNext]_sessionState

LEMMA AnswerNext == AnswerInv /\ [SessionNext]_sessionState => AnswerInv'
<1> SUFFICES ASSUME AnswerInv, [SessionNext]_sessionState PROVE AnswerInv'
  OBVIOUS
<1>1. CASE UNCHANGED sessionState
  BY <1>1, Untouched DEF sessionState, serverVars, sessionVars, engineVars
<1>2. ASSUME NEW s \in Signer, NEW r \in Request, NEW d \in {"approve", "reject"},
             s \in OnScreen, decisions[s][r] = "none", EnterDecision(s, r, d)
      PROVE  AnswerInv'
  BY <1>2, Entered
<1>3. ASSUME NEW c \in calls,
             \/ DecisionTaken(c) \/ DecisionFailed(c) \/ LostTaken(c) \/ LostFailed(c)
             \/ RepairTaken(c) \/ RepairFailed(c) \/ RequestCreated(c) \/ RequestRefused(c)
      PROVE  AnswerInv'
  BY <1>3, DecisionEnds, OtherCallTaken
<1> QED
  BY <1>1, <1>2, <1>3, EventHandled, PollTaken, RevivalEnded, OtherCallSent, NetworkStep
     DEF SessionNext

\* Whatever a session does: a shown answer is recorded or its call is under way,
\* and a card has one call at most.
THEOREM SessionAnswers == SessionSpec => []AnswerInv
BY AnswerInit, AnswerNext, PTL DEF SessionSpec

-----------------------------------------------------------------------------
\* What a session's steps do to the server and to the feed: one action of
\* Backend, or a step of the feed alone.

ServerAction ==
  \/ \E s \in Signer, r \in Request, d \in {"approve", "reject"} : RecordVote(s, r, d)
  \/ \E r \in Request : InsertRequest(r) \/ Ceremony(r)
  \/ \E s \in Signer : SetLost(s) \/ StartRecovery(s)
  \/ RecoveryTask

FeedMove == UNCHANGED serverVars /\ (Subscribe \/ Receive \/ HangUp \/ UNCHANGED feedVars)

LEMMA CallServed ==
  ASSUME AnswerInv, NEW c \in calls, AnswerCall(c)
  PROVE  ServerAction \/ FeedMove
<1>c. c \in Call
  BY DEF AnswerInv, AnswerTypes
<1>1. CASE ServeDecide(c)
  <2>1. c.op = "decide" /\ RecordVote(c.signer, c.request, c.vote)
    BY <1>1 DEF ServeDecide, Sent
  <2>2. c.signer \in Signer /\ c.request \in Request /\ c.vote \in {"approve", "reject"}
    BY <1>c, <2>1 DEF Call
  <2> QED
    BY <2>1, <2>2 DEF ServerAction
<1>2. CASE ServeCreate(c)
  BY <1>2 DEF ServeCreate, ServerAction
<1>3. CASE ServeLost(c)
  <2>1. c.signer \in Signer /\ SetLost(c.signer)
    BY <1>c, <1>3 DEF ServeLost, Sent, Call
  <2> QED
    BY <2>1 DEF ServerAction
<1>4. CASE ServeRepair(c)
  <2>1. c.signer \in Signer /\ StartRecovery(c.signer)
    BY <1>c, <1>4 DEF ServeRepair, Sent, Call
  <2> QED
    BY <2>1 DEF ServerAction
<1>5. CASE RefuseCall(c)
  BY <1>5 DEF RefuseCall, FeedMove
<1> QED
  BY <1>1, <1>2, <1>3, <1>4, <1>5 DEF AnswerCall

LEMMA NetworkServed ==
  ASSUME AnswerInv, Network
  PROVE  ServerAction \/ FeedMove
<1>1. CASE PollRequests \/ PollSigners
  BY <1>1 DEF PollRequests, PollSigners, Poll, FeedMove
<1>2. CASE StreamUp \/ StreamDown
  BY <1>2 DEF StreamUp, StreamDown, FeedMove
<1>3. ASSUME NEW a \in answers, LosePoll(a) PROVE FeedMove
  BY <1>3 DEF LosePoll, FeedMove
<1>4. ASSUME NEW c \in calls, LoseCall(c) PROVE FeedMove
  BY <1>4 DEF LoseCall, FeedMove
<1>5. CASE Elsewhere
  BY <1>5 DEF Elsewhere, ServerAction
<1>6. CASE Server
  BY <1>6 DEF Server, ServerAction
<1> QED
  BY <1>1, <1>2, <1>3, <1>4, <1>5, <1>6, CallServed DEF Network

LEMMA SessionServed ==
  AnswerInv /\ [SessionNext]_sessionState => ServerAction \/ FeedMove
<1> SUFFICES ASSUME AnswerInv, [SessionNext]_sessionState PROVE ServerAction \/ FeedMove
  OBVIOUS
<1>1. CASE UNCHANGED sessionState
  BY <1>1 DEF sessionState, FeedMove
<1>2. CASE HandleEvent
  BY <1>2 DEF HandleEvent, FeedMove
<1>3. ASSUME NEW a \in answers, TakeRequests(a) \/ TakeSigners(a) PROVE FeedMove
  BY <1>3 DEF TakeRequests, TakeSigners, FeedMove
<1>4. ASSUME NEW f \in timers, EndRevival(f) PROVE FeedMove
  BY <1>4 DEF EndRevival, FeedMove
<1>5. ASSUME NEW s, NEW r, NEW d, EnterDecision(s, r, d) PROVE FeedMove
  BY <1>5 DEF EnterDecision, FeedMove
<1>6. ASSUME NEW s, ReportLost(s) \/ AskRepair(s) \/ SubmitRequest(s) PROVE FeedMove
  BY <1>6 DEF ReportLost, AskRepair, SubmitRequest, FeedMove
<1>7. ASSUME NEW c,
             \/ DecisionTaken(c) \/ DecisionFailed(c) \/ LostTaken(c) \/ LostFailed(c)
             \/ RepairTaken(c) \/ RepairFailed(c) \/ RequestCreated(c) \/ RequestRefused(c)
      PROVE  FeedMove
  BY <1>7 DEF DecisionTaken, DecisionFailed, LostTaken, LostFailed, RepairTaken, RepairFailed,
              RequestCreated, RequestRefused, FeedMove
<1> QED
  BY <1>1, <1>2, <1>3, <1>4, <1>5, <1>6, <1>7, NetworkServed DEF SessionNext

-----------------------------------------------------------------------------
\* The feed.  Whatever happens, the stream is used as Feed has it, and what is
\* sent on it is about a request or about a recovery.

RecoveryStep ==
  {"recovery.lost", "recovery.repair", "recovery.refresh", "recovery.done", "recovery.failed"}

FeedEvent == [request : Request, step : Latest] \cup [request : {0}, step : RecoveryStep]

FeedTypes == live \in BOOLEAN /\ inbox \in Seq(FeedEvent) /\ Len(inbox) <= Cap

\* A reader that lags loses an event; its queue stays what it was, and bounded.
LEMMA PushFits ==
  ASSUME NEW S, NEW q \in Seq(S), NEW e \in S, Len(q) <= Cap
  PROVE  Push(q, e) \in Seq(S) /\ Len(Push(q, e)) <= Cap
<1>1. CASE Len(q) < Cap
  BY <1>1, CapAssumption DEF Push
<1>2. CASE ~(Len(q) < Cap)
  <2>1. q # <<>> /\ Len(q) = Cap
    BY <1>2, CapAssumption
  <2>2. Tail(q) \in Seq(S) /\ Len(Tail(q)) = Len(q) - 1
    BY <2>1
  <2>3. Push(q, e) = Append(Tail(q), e)
    BY <1>2 DEF Push
  <2>4. Append(Tail(q), e) \in Seq(S) /\ Len(Append(Tail(q), e)) = Len(Tail(q)) + 1
    BY <2>2
  <2> QED
    BY <2>1, <2>2, <2>3, <2>4, CapAssumption
<1> QED
  BY <1>1, <1>2

LEMMA FeedTypesNext == FeedTypes /\ [FeedNext(FeedEvent)]_feedVars => FeedTypes'
<1> SUFFICES ASSUME FeedTypes, [FeedNext(FeedEvent)]_feedVars PROVE FeedTypes'
  OBVIOUS
<1>1. CASE UNCHANGED feedVars
  BY <1>1 DEF feedVars, FeedTypes
<1>2. CASE Subscribe \/ HangUp
  <2>1. live' \in BOOLEAN /\ inbox' = <<>>
    BY <1>2 DEF Subscribe, HangUp
  <2>2. <<>> \in Seq(FeedEvent) /\ Len(<<>>) <= Cap
    BY CapAssumption
  <2> QED
    BY <2>1, <2>2 DEF FeedTypes
<1>3. CASE Receive
  <2>1. inbox' = Tail(inbox) /\ inbox # <<>> /\ live' = live
    BY <1>3 DEF Receive
  <2>2. Tail(inbox) \in Seq(FeedEvent) /\ Len(Tail(inbox)) = Len(inbox) - 1
    BY <2>1 DEF FeedTypes
  <2> QED
    BY <2>1, <2>2, CapAssumption DEF FeedTypes
<1>4. ASSUME NEW e \in FeedEvent, Publish(e) PROVE FeedTypes'
  BY <1>4, PushFits DEF Publish, FeedTypes
<1> QED
  BY <1>1, <1>2, <1>3, <1>4 DEF FeedNext

LEMMA StepsKnown ==
  /\ CeremonyStep \subseteq Latest
  /\ {"none", "created", "decision", "failed", "broadcast", "confirmed"} \subseteq Latest
  /\ {"broadcast", "confirmed"} \subseteq CeremonyStep
<1>1. DOMAIN CEREMONY_ORDER = 1..11 /\ CEREMONY_ORDER[10] = "broadcast"
        /\ CEREMONY_ORDER[11] = "confirmed"
  BY DEF CEREMONY_ORDER
<1> QED
  BY <1>1 DEF Latest, CeremonyStep

LEMMA RequestEvent ==
  ASSUME NEW r \in Request, NEW step \in Latest, Publish(Event(r, step))
  PROVE  FeedNext(FeedEvent)
<1>1. Event(r, step) \in FeedEvent
  BY DEF Event, FeedEvent
<1> QED
  BY <1>1 DEF FeedNext

LEMMA RecoveryEvent ==
  ASSUME NEW step \in RecoveryStep, Publish(Event(0, step))
  PROVE  FeedNext(FeedEvent)
<1>1. Event(0, step) \in FeedEvent
  BY DEF Event, FeedEvent
<1> QED
  BY <1>1 DEF FeedNext

\* The steps the pipeline reports are ones the dashboards know.
LEMMA StepReported ==
  ASSUME NEW r \in Request, ReportStep(r), progress[r] \in Nat
  PROVE  Steps[progress[r] + 1] \in CeremonyStep
<1>1. progress[r] + 1 \in 1..Len(Steps)
  BY StepsAssumption DEF ReportStep
<1> QED
  BY <1>1, StepsAssumption

LEMMA ServerFeeds ==
  ASSUME ServerAction, progress \in [Request -> Nat]
  PROVE  [FeedNext(FeedEvent)]_feedVars
<1>1. ASSUME NEW s \in Signer, NEW r \in Request, NEW d, RecordVote(s, r, d)
      PROVE  FeedNext(FeedEvent)
  BY <1>1, RequestEvent, StepsKnown DEF RecordVote
<1>2. ASSUME NEW r \in Request, InsertRequest(r) PROVE FeedNext(FeedEvent)
  BY <1>2, RequestEvent, StepsKnown DEF InsertRequest
<1>3. ASSUME NEW r \in Request, Ceremony(r) PROVE [FeedNext(FeedEvent)]_feedVars
  <2>1. CASE Gather(r)
    BY <2>1 DEF Gather
  <2>2. CASE ReportStep(r)
    <3>1. Steps[progress[r] + 1] \in Latest /\ Publish(Event(r, Steps[progress[r] + 1]))
      BY <2>2, StepReported, StepsKnown DEF ReportStep
    <3> QED
      BY <3>1, RequestEvent
  <2>3. CASE CeremonyOk(r) \/ CeremonyFailed(r)
    BY <2>3, RequestEvent, StepsKnown DEF CeremonyOk, CeremonyFailed
  <2> QED
    BY <1>3, <2>1, <2>2, <2>3 DEF Ceremony
<1>4. ASSUME NEW s, SetLost(s) PROVE FeedNext(FeedEvent)
  BY <1>4, RecoveryEvent DEF SetLost, RecoveryStep
<1>5. ASSUME NEW s, StartRecovery(s) PROVE UNCHANGED feedVars
  BY <1>5 DEF StartRecovery
<1>6. CASE RecoveryTask
  <2>1. CASE ReportRecovery
    <3>1. \E step \in {"recovery.repair", "recovery.refresh"} : Publish(Event(0, step))
      BY <2>1 DEF ReportRecovery
    <3> QED
      BY <3>1, RecoveryEvent DEF RecoveryStep
  <2>2. CASE ReactivateSigner
    BY <2>2 DEF ReactivateSigner
  <2>3. CASE RecoveryDone \/ RecoveryFailed
    BY <2>3, RecoveryEvent DEF RecoveryDone, RecoveryFailed, RecoveryStep
  <2> QED
    BY <1>6, <2>1, <2>2, <2>3 DEF RecoveryTask
<1> QED
  BY <1>1, <1>2, <1>3, <1>4, <1>5, <1>6 DEF ServerAction

LEMMA SessionFeeds ==
  AnswerInv /\ progress \in [Request -> Nat] /\ [SessionNext]_sessionState
    => [FeedNext(FeedEvent)]_feedVars
<1>1. FeedMove => [FeedNext(FeedEvent)]_feedVars
  BY DEF FeedMove, FeedNext
<1> QED
  BY <1>1, SessionServed, ServerFeeds

-----------------------------------------------------------------------------
\* Types.

LEMMA BackendTypesInit ==
  ASSUME NEW rows \in [Request -> Status], BackendInit(rows)
  PROVE  BackendTypeOK
<1>1. Len(Steps) \in Nat
  BY StepsAssumption
<1>2. votes \in [Request -> [Signer -> Vote]]
  BY DEF BackendInit, Vote
<1>3. progress \in [Request -> 0..Len(Steps)]
  BY <1>1 DEF BackendInit
<1>4. task \in [signer : Signer \cup {0}, phase : Phase]
  BY DEF BackendInit, NoTask, Phase
<1> QED
  BY <1>2, <1>3, <1>4 DEF BackendInit, BackendTypeOK

LEMMA VoteTyped ==
  ASSUME BackendTypeOK, NEW s \in Signer, NEW r \in Request, NEW d \in {"approve", "reject"},
         RecordVote(s, r, d)
  PROVE  BackendTypeOK'
<1>1. votes' \in [Request -> [Signer -> Vote]]
  <2>1. votes' = [votes EXCEPT ![r][s] = d] /\ d \in Vote
    BY DEF RecordVote, Vote
  <2> QED
    BY <2>1 DEF BackendTypeOK
<1>2. status' \in [Request -> Status]
  <2> DEFINE enough == Cardinality({t \in Signer : votes'[r][t] = "approve"}) >= Quorum
             new == CASE status[r] = "pending" /\ d = "reject" -> "rejected"
                      [] status[r] = "pending" /\ d = "approve" /\ enough -> "quorum"
                      [] OTHER -> status[r]
  <2>1. status' = [status EXCEPT ![r] = new]
    BY DEF RecordVote
  <2> HIDE DEF enough
  <2>2. new \in Status
    <3>1. status[r] \in Status
      BY DEF BackendTypeOK
    <3>2. CASE status[r] = "pending" /\ d = "reject"
      BY <3>2 DEF Status
    <3>3. CASE status[r] = "pending" /\ d = "approve" /\ enough
      BY <3>3 DEF Status
    <3>4. CASE ~(status[r] = "pending" /\ d = "reject")
                 /\ ~(status[r] = "pending" /\ d = "approve" /\ enough)
      BY <3>1, <3>4
    <3> QED
      BY <3>2, <3>3, <3>4
  <2> HIDE DEF new
  <2> QED
    BY <2>1, <2>2 DEF BackendTypeOK
<1> QED
  BY <1>1, <1>2 DEF RecordVote, BackendTypeOK

LEMMA CeremonyTyped ==
  ASSUME BackendTypeOK, NEW r \in Request, InsertRequest(r) \/ Ceremony(r)
  PROVE  BackendTypeOK'
<1>1. CASE ReportStep(r)
  <2>1. progress[r] + 1 \in 0..Len(Steps) /\ progress' = [progress EXCEPT ![r] = @ + 1]
    BY <1>1, StepsAssumption DEF ReportStep, BackendTypeOK
  <2> QED
    BY <1>1, <2>1 DEF ReportStep, BackendTypeOK
<1>2. CASE InsertRequest(r) \/ Gather(r) \/ CeremonyOk(r) \/ CeremonyFailed(r)
  BY <1>2 DEF InsertRequest, Gather, CeremonyOk, CeremonyFailed, BackendTypeOK, Status
<1> QED
  BY <1>1, <1>2 DEF Ceremony

LEMMA SignersTyped ==
  ASSUME BackendTypeOK,
         \/ \E s \in Signer : SetLost(s) \/ StartRecovery(s)
         \/ RecoveryTask
  PROVE  BackendTypeOK'
<1>1. ASSUME NEW s \in Signer, SetLost(s) PROVE BackendTypeOK'
  BY <1>1 DEF SetLost, BackendTypeOK
<1>2. ASSUME NEW s \in Signer, StartRecovery(s) PROVE BackendTypeOK'
  BY <1>2 DEF StartRecovery, BackendTypeOK, Phase
<1>3. CASE ReportRecovery
  <2>1. \E phase \in Phase : task' = [task EXCEPT !.phase = phase]
    BY <1>3 DEF ReportRecovery, Phase
  <2> QED
    BY <1>3, <2>1 DEF ReportRecovery, BackendTypeOK
<1>4. CASE ReactivateSigner
  BY <1>4 DEF ReactivateSigner, BackendTypeOK, Phase
<1>5. CASE RecoveryDone \/ RecoveryFailed
  BY <1>5 DEF RecoveryDone, RecoveryFailed, NoTask, BackendTypeOK, Phase
<1> QED
  BY <1>1, <1>2, <1>3, <1>4, <1>5 DEF RecoveryTask

LEMMA ServerTyped ==
  ASSUME BackendTypeOK, ServerAction \/ FeedMove
  PROVE  BackendTypeOK'
<1>1. CASE FeedMove
  BY <1>1 DEF FeedMove, serverVars, BackendTypeOK
<1> QED
  BY <1>1, VoteTyped, CeremonyTyped, SignersTyped DEF ServerAction

\* A session's state with the events on their way typed as well.
SessionTypes == SessionTypeOK /\ inbox \in Seq(FeedEvent)

EngineTypes ==
  /\ requests \in [Request -> [status : Status, approvals : Nat]]
  /\ signers \in [Signer -> ListedSigner]
  /\ decisions \in [Signer -> [Request -> Vote]]
  /\ ceremonies \in [Request -> [reached : 0..Len(CEREMONY_ORDER), latest : Latest,
                                 failed : BOOLEAN]]
  /\ activeCeremonyId \in Request \cup {0}
  /\ recovery \in [on : BOOLEAN, signer : Signer \cup {0}, reached : 0..3, failed : BOOLEAN,
                   done : BOOLEAN, reviving : BOOLEAN]
  /\ timers \subseteq Signer \cup {0}

ListTypes ==
  \A a \in answers : \/ a.list = "requests" /\ a.rows \in RowList
                     \/ a.list = "signers" /\ a.rows \in SignerList

BudgetType == budget \in [ops : Nat, faults : Nat, polls : Nat]

LEMMA TypesSplit ==
  SessionTypes <=> /\ BackendTypeOK /\ FeedTypes /\ EngineTypes
                   /\ me \in Signer \cup {0} /\ calls \subseteq Call
                   /\ ListTypes /\ BudgetType
BY DEF SessionTypes, SessionTypeOK, FeedTypes, EngineTypes, ListTypes, BudgetType

\* Where a step stands in an order.
LEMMA IndexBound ==
  ASSUME NEW n \in Nat, NEW order, DOMAIN order = 1..n, NEW step
  PROVE  /\ IndexOf(order, step) \in 0..n
         /\ IndexOf(order, step) # 0 => order[IndexOf(order, step)] = step
<1> DEFINE at == {i \in DOMAIN order : order[i] = step}
<1>1. at \in SUBSET Nat /\ at \subseteq 1..n
  OBVIOUS
<1>2. at # {} => IndexOf(order, step) = First(at)
  BY DEF IndexOf, First
<1>3. at = {} => IndexOf(order, step) = 0
  BY DEF IndexOf
<1>4. at # {} => First(at) \in at
  BY <1>1, FirstIsLeast
<1> QED
  BY <1>1, <1>2, <1>3, <1>4

LEMMA IndexFound ==
  ASSUME NEW order, DOMAIN order \in SUBSET (Nat \ {0}), NEW i \in DOMAIN order
  PROVE  IndexOf(order, order[i]) # 0
<1> DEFINE at == {j \in DOMAIN order : order[j] = order[i]}
<1>1. at \in SUBSET Nat /\ i \in at
  OBVIOUS
<1>2. IndexOf(order, order[i]) = First(at)
  BY <1>1 DEF IndexOf, First
<1>3. First(at) \in at
  BY <1>1, FirstIsLeast
<1> QED
  BY <1>2, <1>3

LEMMA CeremonyIndex ==
  ASSUME NEW step
  PROVE  /\ IndexOf(CEREMONY_ORDER, step) \in 0..11
         /\ IndexOf(CEREMONY_ORDER, step) # 0 => CEREMONY_ORDER[IndexOf(CEREMONY_ORDER, step)] = step
         /\ IndexOf(CEREMONY_ORDER, step) # 0 <=> step \in CeremonyStep
<1> DEFINE order == CEREMONY_ORDER
           idx == IndexOf(order, step)
<1>1. DOMAIN order = 1..11
  BY DEF CEREMONY_ORDER
<1>2. step \in CeremonyStep <=> \E i \in DOMAIN order : order[i] = step
  BY DEF CeremonyStep
<1> HIDE DEF order
<1>3. idx \in 0..11
  BY <1>1, IndexBound
<1>4. idx # 0 => order[idx] = step
  BY <1>1, IndexBound
<1>5. (\E i \in DOMAIN order : order[i] = step) => idx # 0
  BY <1>1, IndexFound
<1>6. idx # 0 => \E i \in DOMAIN order : order[i] = step
  BY <1>1, <1>3, <1>4
<1> QED
  BY <1>2, <1>3, <1>4, <1>5, <1>6 DEF order

LEMMA RecoveryIndex ==
  ASSUME NEW step
  PROVE  IndexOf(RECOVERY_ORDER, step) \in 0..3
<1>1. DOMAIN RECOVERY_ORDER = 1..3
  BY DEF RECOVERY_ORDER
<1> QED
  BY <1>1, IndexBound

LEMMA TypesInit == SessionInit => SessionTypes
<1> SUFFICES ASSUME SessionInit PROVE SessionTypes
  OBVIOUS
<1>1. PICK b \in Budgets :
        /\ BackendInit(b.rows) /\ me = b.me
        /\ budget = [ops |-> b.ops, faults |-> b.faults, polls |-> b.polls]
  BY DEF SessionInit
<1>2. BackendTypeOK /\ me \in Signer \cup {0} /\ BudgetType
  BY <1>1, BudgetsAssumption, BackendTypesInit DEF BudgetType
<1>3. FeedTypes
  <2>1. live = FALSE /\ inbox = <<>>
    BY DEF SessionInit, FeedInit
  <2>2. <<>> \in Seq(FeedEvent) /\ Len(<<>>) <= Cap
    BY CapAssumption
  <2> QED
    BY <2>1, <2>2 DEF FeedTypes
<1>4. NoRow \in [status : Status, approvals : Nat] /\ "none" \in Vote
        /\ NoCeremony \in [reached : 0..Len(CEREMONY_ORDER), latest : Latest, failed : BOOLEAN]
  BY StepsKnown DEF NoRow, Status, Vote, NoCeremony, CEREMONY_ORDER
<1>5. EngineTypes
  BY <1>4 DEF SessionInit, EngineTypes, NoRecovery, ListedSigner
<1> QED
  BY <1>2, <1>3, <1>5, TypesSplit DEF SessionInit, ListTypes

LEMMA NoRecoveryType ==
  NoRecovery \in [on : BOOLEAN, signer : Signer \cup {0}, reached : 0..3, failed : BOOLEAN,
                  done : BOOLEAN, reviving : BOOLEAN]
BY DEF NoRecovery

\* The engine when a step changes one part of it.
LEMMA EngineKept ==
  ASSUME EngineTypes, UNCHANGED engineVars
  PROVE  EngineTypes'
BY DEF EngineTypes, engineVars

LEMMA CeremonyShown ==
  ASSUME EngineTypes, NEW e, e.request \in Request, e.step \in Latest, ShowCeremony(e)
  PROVE  EngineTypes'
<1> DEFINE r == e.request
           idx == IndexOf(CEREMONY_ORDER, e.step)
           failed == ceremonies[r].failed \/ e.step = "failed"
           new == [reached |-> Greater(ceremonies[r].reached, idx), latest |-> e.step,
                   failed |-> failed]
<1>1. /\ ceremonies' = [ceremonies EXCEPT ![r] = new]
      /\ activeCeremonyId' = IF idx > 0 \/ e.step = "failed" THEN r ELSE activeCeremonyId
      /\ UNCHANGED <<requests, signers, decisions, recovery, timers>>
  BY DEF ShowCeremony
<1>2. Len(CEREMONY_ORDER) = 11
  BY DEF CEREMONY_ORDER
<1>3. idx \in 0..11 /\ ceremonies[r].reached \in 0..11
  BY <1>2, CeremonyIndex DEF EngineTypes
<1>4. Greater(ceremonies[r].reached, idx) \in 0..11
  BY <1>3 DEF Greater
<1>5. failed \in BOOLEAN
  OBVIOUS
<1> HIDE DEF failed, idx
<1>6. new \in [reached : 0..Len(CEREMONY_ORDER), latest : Latest, failed : BOOLEAN]
  BY <1>2, <1>4, <1>5
<1> HIDE DEF new
<1>7. /\ ceremonies' \in [Request -> [reached : 0..Len(CEREMONY_ORDER), latest : Latest,
                                      failed : BOOLEAN]]
      /\ activeCeremonyId' \in Request \cup {0}
  BY <1>1, <1>6 DEF EngineTypes
<1> QED
  BY <1>1, <1>7 DEF EngineTypes

LEMMA CandidateType ==
  ASSUME me \in Signer \cup {0}
  PROVE  Candidate \in Signer \cup {0}
<1> DEFINE lost == {s \in Signer : signers[s] \in {"lost", "repairing"}}
<1>1. lost \in SUBSET Nat /\ lost \subseteq Signer
  BY SignersAreIds
<1>2. Candidate = IF lost # {} THEN First(lost) ELSE me
  BY DEF Candidate
<1> HIDE DEF lost
<1> QED
  BY <1>1, <1>2, FirstIsLeast

LEMMA RecoveryShown ==
  ASSUME EngineTypes, me \in Signer \cup {0}, NEW e, ShowRecovery(e)
  PROVE  EngineTypes'
<1> DEFINE prev == IF recovery.on THEN recovery ELSE [NoRecovery EXCEPT !.on = TRUE]
           id == IF prev.signer = 0 THEN Candidate ELSE prev.signer
           done == e.step = "recovery.done"
           failed == prev.failed \/ e.step = "recovery.failed"
           over == prev.done \/ done
           reviving == prev.reviving \/ done
           reached == Greater(prev.reached, IndexOf(RECOVERY_ORDER, e.step))
           Overlay == [on : BOOLEAN, signer : Signer \cup {0}, reached : 0..3,
                       failed : BOOLEAN, done : BOOLEAN, reviving : BOOLEAN]
<1>1. prev \in Overlay
  BY NoRecoveryType DEF EngineTypes
<1>2. /\ recovery' = [prev EXCEPT !.signer = id, !.reached = reached, !.failed = failed,
                                  !.done = over, !.reviving = reviving]
      /\ signers' = [s \in Signer |-> IF done /\ s = id THEN "active" ELSE signers[s]]
      /\ timers' = IF done THEN timers \cup {id} ELSE timers
      /\ UNCHANGED <<requests, decisions, ceremonies, activeCeremonyId>>
  BY DEF ShowRecovery
<1> HIDE DEF prev
<1>3. id \in Signer \cup {0}
  BY <1>1, CandidateType
<1>4. reached \in 0..3
  <2>1. prev.reached \in 0..3
    BY <1>1
  <2> QED
    BY <2>1, RecoveryIndex DEF Greater
<1>5. failed \in BOOLEAN /\ over \in BOOLEAN /\ reviving \in BOOLEAN /\ done \in BOOLEAN
  BY <1>1
<1> HIDE DEF id, reached, failed, over, reviving, done
<1>6. recovery' \in Overlay
  BY <1>1, <1>2, <1>3, <1>4, <1>5
<1>7. timers' \subseteq Signer \cup {0}
  BY <1>2, <1>3 DEF EngineTypes
<1>8. signers' \in [Signer -> ListedSigner]
  BY <1>2 DEF EngineTypes, ListedSigner
<1> QED
  BY <1>2, <1>6, <1>7, <1>8 DEF EngineTypes

LEMMA EventTyped ==
  ASSUME EngineTypes, FeedTypes, me \in Signer \cup {0}, HandleEvent
  PROVE  EngineTypes'
<1> DEFINE e == Head(inbox)
<1>1. inbox # <<>>
  BY DEF HandleEvent, Receive
<1>2. e \in FeedEvent
  BY <1>1 DEF FeedTypes
<1>3. \/ e.request # 0 /\ ShowCeremony(e)
      \/ UNCHANGED engineVars
      \/ ShowRecovery(e)
  BY DEF HandleEvent
<1>4. e.request # 0 => e.request \in Request /\ e.step \in Latest
  BY <1>2 DEF FeedEvent
<1> HIDE DEF e
<1> QED
  BY <1>3, <1>4, CeremonyShown, RecoveryShown, EngineKept

LEMMA ListTyped ==
  ASSUME EngineTypes, ListTypes, NEW a \in answers, TakeRequests(a) \/ TakeSigners(a)
  PROVE  EngineTypes'
<1>1. CASE TakeRequests(a)
  <2>1. Cardinality(Signer) \in Nat
    BY GroupAssumption, FS_CardinalityType DEF GroupAssumption
  <2>2. requests' \in RowList
    BY <1>1 DEF TakeRequests, ListTypes
  <2>3. requests' \in [Request -> [status : Status, approvals : Nat]]
    BY <2>1, <2>2 DEF RowList
  <2> QED
    BY <1>1, <2>3 DEF TakeRequests, EngineTypes
<1>2. CASE TakeSigners(a)
  <2>1. signers' \in SignerList
    BY <1>2 DEF TakeSigners, ListTypes
  <2>2. signers' \in [Signer -> ListedSigner]
    BY <2>1 DEF SignerList, ListedSigner
  <2> QED
    BY <1>2, <2>2 DEF TakeSigners, EngineTypes
<1> QED
  BY <1>1, <1>2

LEMMA RevivalTyped ==
  ASSUME EngineTypes, NEW f \in timers, EndRevival(f)
  PROVE  EngineTypes'
<1> DEFINE reviving == recovery.reviving /\ timers' # {}
<1>1. recovery' \in {NoRecovery, [recovery EXCEPT !.reviving = reviving]}
        /\ timers' \subseteq timers
        /\ UNCHANGED <<requests, signers, decisions, ceremonies, activeCeremonyId>>
  BY DEF EndRevival
<1>2. reviving \in BOOLEAN
  BY DEF EngineTypes
<1> HIDE DEF reviving
<1> QED
  BY <1>1, <1>2, NoRecoveryType DEF EngineTypes

LEMMA DecisionTyped ==
  ASSUME EngineTypes, NEW s \in Signer, NEW r \in Request, NEW d \in {"approve", "reject"},
         EnterDecision(s, r, d)
  PROVE  EngineTypes'
<1> DEFINE n == requests[r].approvals + 1
           st == IF n >= Quorum /\ requests[r].status = "pending" THEN "quorum"
                 ELSE requests[r].status
           new == [status |-> st, approvals |-> n]
<1>1. /\ decisions' = [decisions EXCEPT ![s][r] = d]
      /\ \/ requests' = requests
         \/ requests' = [requests EXCEPT ![r] = new]
      /\ UNCHANGED <<signers, ceremonies, activeCeremonyId, recovery, timers>>
  BY DEF EnterDecision
<1>2. n \in Nat /\ st \in Status
  BY DEF EngineTypes, Status
<1> HIDE DEF n, st
<1>3. new \in [status : Status, approvals : Nat]
  BY <1>2
<1> HIDE DEF new
<1>4. requests' \in [Request -> [status : Status, approvals : Nat]]
  BY <1>1, <1>3 DEF EngineTypes
<1>5. decisions' \in [Signer -> [Request -> Vote]]
  BY <1>1 DEF EngineTypes, Vote
<1> QED
  BY <1>1, <1>4, <1>5 DEF EngineTypes

LEMMA RepairTyped ==
  ASSUME EngineTypes, NEW s \in Signer, AskRepair(s)
  PROVE  EngineTypes'
<1>1. recovery' = [NoRecovery EXCEPT !.on = TRUE, !.signer = s]
        /\ signers' = [signers EXCEPT ![s] = "repairing"]
        /\ UNCHANGED <<requests, decisions, ceremonies, activeCeremonyId, timers>>
  BY DEF AskRepair
<1> QED
  BY <1>1, NoRecoveryType DEF EngineTypes, ListedSigner

LEMMA CallTyped ==
  ASSUME EngineTypes, NEW c \in calls,
         \/ DecisionTaken(c) \/ DecisionFailed(c) \/ LostTaken(c) \/ LostFailed(c)
         \/ RepairTaken(c) \/ RepairFailed(c) \/ RequestCreated(c) \/ RequestRefused(c)
  PROVE  EngineTypes'
<1>1. CASE DecisionFailed(c)
  <2>1. decisions' = [decisions EXCEPT ![c.signer][c.request] = "none"]
          /\ UNCHANGED <<requests, signers, ceremonies, activeCeremonyId, recovery, timers>>
    BY <1>1 DEF DecisionFailed
  <2>2. decisions' \in [Signer -> [Request -> Vote]]
    BY <2>1 DEF EngineTypes, Vote
  <2> QED
    BY <2>1, <2>2 DEF EngineTypes
<1>2. CASE LostTaken(c)
  BY <1>2 DEF LostTaken, EngineTypes, ListedSigner
<1>3. CASE RepairFailed(c)
  BY <1>3 DEF RepairFailed, EngineTypes
<1>4. CASE \/ DecisionTaken(c) \/ LostFailed(c) \/ RepairTaken(c)
           \/ RequestCreated(c) \/ RequestRefused(c)
  BY <1>4, EngineKept DEF DecisionTaken, LostFailed, RepairTaken, RequestCreated, RequestRefused
<1> QED
  BY <1>1, <1>2, <1>3, <1>4

LEMMA NetworkShowsNothing == Network => UNCHANGED <<me, engineVars>>
<1> SUFFICES ASSUME Network PROVE UNCHANGED <<me, engineVars>>
  OBVIOUS
<1>1. CASE PollRequests \/ PollSigners \/ StreamUp \/ StreamDown
  BY <1>1 DEF PollRequests, PollSigners, Poll, StreamUp, StreamDown, sessionVars
<1>2. ASSUME NEW a \in answers, LosePoll(a) PROVE UNCHANGED <<me, engineVars>>
  BY <1>2 DEF LosePoll
<1>3. ASSUME NEW c \in calls, AnswerCall(c) \/ LoseCall(c) PROVE UNCHANGED <<me, engineVars>>
  BY <1>3 DEF AnswerCall, ServeDecide, ServeCreate, ServeLost, ServeRepair, RefuseCall, LoseCall
<1>4. CASE Elsewhere \/ Server
  BY <1>4 DEF Elsewhere, Server, sessionVars
<1> QED
  BY <1>1, <1>2, <1>3, <1>4 DEF Network

\* What a poll reads is a list of its kind, and what is answered was asked for.
LEMMA PollTyped ==
  ASSUME BackendTypeOK, ListTypes, PollRequests \/ PollSigners
  PROVE  ListTypes'
<1>1. CASE PollRequests
  <2> DEFINE rows == [r \in Request |-> Row(r)]
  <2>1. ASSUME NEW r \in Request
        PROVE  Row(r) \in [status : Status, approvals : 0..Cardinality(Signer)]
    <3>1. {s \in Signer : votes[r][s] = "approve"} \subseteq Signer /\ IsFiniteSet(Signer)
      BY GroupAssumption DEF GroupAssumption
    <3>2. Approvals(r) \in 0..Cardinality(Signer)
      BY <3>1, FS_Subset, FS_CardinalityType DEF Approvals
    <3> QED
      BY <2>1, <3>2 DEF Row, BackendTypeOK
  <2>2. rows \in RowList
    BY <2>1 DEF RowList
  <2>3. answers' = answers \cup {[list |-> "requests", rows |-> rows]}
    BY <1>1 DEF PollRequests, Poll
  <2> HIDE DEF rows
  <2> QED
    BY <2>2, <2>3 DEF ListTypes
<1>2. CASE PollSigners
  <2>1. answers' = answers \cup {[list |-> "signers", rows |-> registry]}
    BY <1>2 DEF PollSigners, Poll
  <2>2. registry \in SignerList
    BY DEF BackendTypeOK, SignerList
  <2> QED
    BY <2>1, <2>2 DEF ListTypes
<1> QED
  BY <1>1, <1>2

LEMMA AnswersAsked ==
  [SessionNext]_sessionState => \/ answers' \subseteq answers
                                \/ PollRequests \/ PollSigners
<1> SUFFICES ASSUME [SessionNext]_sessionState, ~PollRequests, ~PollSigners
             PROVE  answers' \subseteq answers
  OBVIOUS
<1>1. CASE UNCHANGED sessionState
  BY <1>1 DEF sessionState, sessionVars
<1>2. CASE HandleEvent
  BY <1>2 DEF HandleEvent
<1>3. ASSUME NEW a \in answers, TakeRequests(a) \/ TakeSigners(a) \/ LosePoll(a)
      PROVE  answers' \subseteq answers
  BY <1>3 DEF TakeRequests, TakeSigners, LosePoll
<1>4. ASSUME NEW f \in timers, EndRevival(f) PROVE answers' \subseteq answers
  BY <1>4 DEF EndRevival
<1>5. ASSUME NEW s, NEW r, NEW d, EnterDecision(s, r, d) PROVE answers' \subseteq answers
  BY <1>5 DEF EnterDecision
<1>6. ASSUME NEW s, ReportLost(s) \/ AskRepair(s) \/ SubmitRequest(s)
      PROVE  answers' \subseteq answers
  BY <1>6 DEF ReportLost, AskRepair, SubmitRequest
<1>7. ASSUME NEW c,
             \/ DecisionTaken(c) \/ DecisionFailed(c) \/ LostTaken(c) \/ LostFailed(c)
             \/ RepairTaken(c) \/ RepairFailed(c) \/ RequestCreated(c) \/ RequestRefused(c)
      PROVE  answers' \subseteq answers
  BY <1>7 DEF DecisionTaken, DecisionFailed, LostTaken, LostFailed, RepairTaken, RepairFailed,
              RequestCreated, RequestRefused
<1>8. ASSUME NEW c, AnswerCall(c) \/ LoseCall(c) PROVE answers' \subseteq answers
  BY <1>8 DEF AnswerCall, ServeDecide, ServeCreate, ServeLost, ServeRepair, RefuseCall, LoseCall
<1>9. CASE StreamUp \/ StreamDown \/ Elsewhere \/ Server
  BY <1>9 DEF StreamUp, StreamDown, Elsewhere, Server, sessionVars
<1> QED
  BY <1>1, <1>2, <1>3, <1>4, <1>5, <1>6, <1>7, <1>8, <1>9 DEF SessionNext, Network

LEMMA ListTypesNext ==
  BackendTypeOK /\ ListTypes /\ [SessionNext]_sessionState => ListTypes'
<1>1. ListTypes /\ answers' \subseteq answers => ListTypes'
  BY DEF ListTypes
<1> QED
  BY <1>1, PollTyped, AnswersAsked

\* Operations and failures come out of the budget, which holds natural numbers.
LEMMA Spent ==
  ASSUME BudgetType, Spend("ops") \/ Spend("faults") \/ UNCHANGED budget
  PROVE  BudgetType'
BY DEF BudgetType, Spend

LEMMA BudgetTypeNext == BudgetType /\ [SessionNext]_sessionState => BudgetType'
<1> SUFFICES ASSUME [SessionNext]_sessionState
             PROVE  Spend("ops") \/ Spend("faults") \/ UNCHANGED budget
  BY Spent
<1>1. CASE UNCHANGED sessionState
  BY <1>1 DEF sessionState, sessionVars
<1>2. CASE HandleEvent
  BY <1>2 DEF HandleEvent
<1>3. ASSUME NEW a, TakeRequests(a) \/ TakeSigners(a) PROVE UNCHANGED budget
  BY <1>3 DEF TakeRequests, TakeSigners
<1>4. ASSUME NEW f, EndRevival(f) PROVE UNCHANGED budget
  BY <1>4 DEF EndRevival
<1>5. ASSUME NEW s, NEW r, NEW d, EnterDecision(s, r, d) PROVE Spend("ops")
  BY <1>5 DEF EnterDecision
<1>6. ASSUME NEW s, ReportLost(s) \/ AskRepair(s) \/ SubmitRequest(s) PROVE Spend("ops")
  BY <1>6 DEF ReportLost, AskRepair, SubmitRequest
<1>7. ASSUME NEW c,
             \/ DecisionTaken(c) \/ DecisionFailed(c) \/ LostTaken(c) \/ LostFailed(c)
             \/ RepairTaken(c) \/ RepairFailed(c) \/ RequestCreated(c) \/ RequestRefused(c)
      PROVE  UNCHANGED budget
  BY <1>7 DEF DecisionTaken, DecisionFailed, LostTaken, LostFailed, RepairTaken, RepairFailed,
              RequestCreated, RequestRefused
<1>8. ASSUME NEW c, AnswerCall(c) PROVE UNCHANGED budget
  BY <1>8 DEF AnswerCall, ServeDecide, ServeCreate, ServeLost, ServeRepair, RefuseCall
<1>9. ASSUME NEW a, NEW c, LosePoll(a) \/ LoseCall(c) \/ StreamDown PROVE Spend("faults")
  BY <1>9 DEF LosePoll, LoseCall, StreamDown
<1>10. CASE PollRequests \/ PollSigners \/ StreamUp \/ Server
  BY <1>10 DEF PollRequests, PollSigners, Poll, StreamUp, Server, sessionVars
<1>11. CASE Elsewhere
  BY <1>11 DEF Elsewhere
<1> QED
  BY <1>1, <1>2, <1>3, <1>4, <1>5, <1>6, <1>7, <1>8, <1>9, <1>10, <1>11 DEF SessionNext, Network

LEMMA EngineTypesNext ==
  AnswerInv /\ FeedTypes /\ EngineTypes /\ ListTypes /\ [SessionNext]_sessionState
    => EngineTypes'
<1> SUFFICES ASSUME AnswerInv, FeedTypes, EngineTypes, ListTypes, [SessionNext]_sessionState
             PROVE  EngineTypes'
  OBVIOUS
<1>t. me \in Signer \cup {0}
  BY DEF AnswerInv, AnswerTypes
<1>1. CASE UNCHANGED sessionState
  BY <1>1, EngineKept DEF sessionState, sessionVars
<1>2. CASE HandleEvent
  BY <1>2, <1>t, EventTyped
<1>3. ASSUME NEW s \in Signer, ReportLost(s) \/ SubmitRequest(s) PROVE EngineTypes'
  BY <1>3, EngineKept DEF ReportLost, SubmitRequest
<1>4. CASE Network
  BY <1>4, EngineKept, NetworkShowsNothing
<1> QED
  BY <1>1, <1>2, <1>3, <1>4, ListTyped, RevivalTyped, DecisionTyped, RepairTyped, CallTyped
     DEF SessionNext

LEMMA TypesNext ==
  AnswerInv /\ SessionTypes /\ [SessionNext]_sessionState => SessionTypes'
<1> SUFFICES ASSUME AnswerInv, SessionTypes, [SessionNext]_sessionState PROVE SessionTypes'
  OBVIOUS
<1>1. BackendTypeOK /\ FeedTypes /\ EngineTypes /\ ListTypes /\ BudgetType
  BY TypesSplit
<1>2. progress \in [Request -> Nat]
  <2>1. progress \in [Request -> 0..Len(Steps)] /\ Len(Steps) \in Nat
    BY <1>1, StepsAssumption DEF BackendTypeOK
  <2> QED
    BY <2>1
<1>3. BackendTypeOK'
  BY <1>1, SessionServed, ServerTyped
<1>4. FeedTypes'
  BY <1>1, <1>2, SessionFeeds, FeedTypesNext
<1>5. EngineTypes' /\ ListTypes' /\ BudgetType'
  BY <1>1, EngineTypesNext, ListTypesNext, BudgetTypeNext
<1>6. (me \in Signer \cup {0} /\ calls \subseteq Call)'
  BY AnswerNext DEF AnswerInv, AnswerTypes
<1>7. (/\ BackendTypeOK /\ FeedTypes /\ EngineTypes
       /\ me \in Signer \cup {0} /\ calls \subseteq Call
       /\ ListTypes /\ BudgetType)'
  BY <1>3, <1>4, <1>5, <1>6
<1>8. (SessionTypes <=> /\ BackendTypeOK /\ FeedTypes /\ EngineTypes
                        /\ me \in Signer \cup {0} /\ calls \subseteq Call
                        /\ ListTypes /\ BudgetType)'
  BY TypesSplit, PTL
<1> QED
  BY <1>7, <1>8

\* A session's state has its type, down to the events on their way: each is about
\* a request, with a step its overlay knows, or about a recovery.
THEOREM SessionTyped == SessionSpec => []SessionTypes
BY TypesInit, TypesNext, SessionAnswers, PTL DEF SessionSpec

\* The session uses its stream as Feed has it, the interface that EventStream
\* implements: a step is one move of the feed at most, with an event of a known
\* kind, and what is published while no stream is up is lost.
THEOREM SessionUsesFeed == SessionSpec => FeedInit /\ [][FeedNext(FeedEvent)]_feedVars
<1>1. SessionInit => FeedInit
  BY DEF SessionInit
<1>2. SessionTypes => progress \in [Request -> Nat]
  <2> SUFFICES ASSUME SessionTypes PROVE progress \in [Request -> Nat]
    OBVIOUS
  <2>1. progress \in [Request -> 0..Len(Steps)] /\ Len(Steps) \in Nat
    BY StepsAssumption DEF SessionTypes, SessionTypeOK, BackendTypeOK
  <2> QED
    BY <2>1
<1> QED
  BY <1>1, <1>2, SessionFeeds, SessionAnswers, SessionTyped, PTL DEF SessionSpec

-----------------------------------------------------------------------------
\* The signers table.  The coarse server loses and restores signers as the table
\* of SignerRegistry does.

Registry == INSTANCE SignerRegistry_proofs WITH signers <- registry

\* Until it is done, a recovery is for a signer who is lost.
TaskInv ==
  task.phase \in {"asked", "repair", "refresh"} =>
    task.signer \in Signer /\ registry[task.signer] = "lost"

LEMMA SameCardinality == \A S : Registry!Cardinality(S) = Cardinality(S)
BY DEF Registry!Cardinality, Cardinality

\* What SignerRegistry assumes of the group, as its instance names it.
LEMMA RegistryAssumption ==
  /\ Registry!IsFiniteSet(Signer)
  /\ Quorum \in Nat \ {0}
  /\ Registry!Cardinality(Signer) >= Quorum
BY SameCardinality, GroupAssumption DEF GroupAssumption, Registry!IsFiniteSet, IsFiniteSet

LEMMA RegistryStep ==
  ASSUME BackendTypeOK, TaskInv, ServerAction \/ FeedMove
  PROVE  TaskInv' /\ [Registry!RegistryNext]_registry
<1>1. ASSUME NEW id \in Signer, SetLost(id)
      PROVE  TaskInv' /\ Registry!MarkLost(id, id)
  <2>1. registry' = [registry EXCEPT ![id] = "lost"] /\ task' = task /\ CanLose(id)
    BY <1>1 DEF SetLost
  <2>2. Registry!MarkLost(id, id)
    BY <2>1, SameCardinality
       DEF CanLose, Registry!MarkLost, Registry!SignerByToken, Registry!NotLost
  <2>3. TaskInv'
    BY <2>1 DEF TaskInv, BackendTypeOK
  <2> QED
    BY <2>2, <2>3
<1>2. ASSUME NEW id \in Signer, StartRecovery(id)
      PROVE  TaskInv' /\ UNCHANGED registry
  BY <1>2 DEF StartRecovery, TaskInv
<1>3. CASE ReportRecovery
  <2>1. task.phase \in {"asked", "repair"} /\ task' \in [signer : {task.signer}, phase : Phase]
          /\ UNCHANGED registry
    BY <1>3 DEF ReportRecovery, BackendTypeOK, Phase
  <2> QED
    BY <2>1 DEF TaskInv
<1>4. CASE ReactivateSigner
  <2>1. /\ task.phase = "refresh" /\ task' = [task EXCEPT !.phase = "updated"]
        /\ registry' = [registry EXCEPT ![task.signer] = "active"]
    BY <1>4 DEF ReactivateSigner
  <2>2. TaskInv'
    BY <2>1 DEF TaskInv, BackendTypeOK
  <2>3. Registry!RegistryNext
    BY <2>1 DEF TaskInv, Registry!RegistryNext, Registry!Restore
  <2> QED
    BY <2>2, <2>3
<1>5. CASE RecoveryDone \/ RecoveryFailed
  BY <1>5 DEF RecoveryDone, RecoveryFailed, NoTask, TaskInv
<1>6. CASE FeedMove
  BY <1>6 DEF FeedMove, serverVars, TaskInv
<1>7. CASE \/ \E s \in Signer, r \in Request, d \in {"approve", "reject"} : RecordVote(s, r, d)
           \/ \E r \in Request : InsertRequest(r) \/ Ceremony(r)
  BY <1>7 DEF RecordVote, InsertRequest, Ceremony, Gather, ReportStep, CeremonyOk,
              CeremonyFailed, TaskInv
<1> QED
  BY <1>1, <1>2, <1>3, <1>4, <1>5, <1>6, <1>7
     DEF ServerAction, RecoveryTask, Registry!RegistryNext

\* Whatever devices, calls and recoveries do, the server's signers table moves as
\* SignerRegistry allows.
THEOREM SessionKeepsRegistry == SessionSpec => Registry!RegistrySpec
<1>1. SessionInit => Registry!RegistryInit /\ TaskInv
  BY DEF SessionInit, BackendInit, NoTask, Registry!RegistryInit, TaskInv
<1>2. SessionTypes => BackendTypeOK
  BY DEF SessionTypes, SessionTypeOK
<1>3. AnswerInv /\ BackendTypeOK /\ TaskInv /\ [SessionNext]_sessionState
        => TaskInv' /\ [Registry!RegistryNext]_registry
  BY SessionServed, RegistryStep
<1> QED
  BY <1>1, <1>2, <1>3, SessionAnswers, SessionTyped, PTL
     DEF SessionSpec, Registry!RegistrySpec

\* So enough signers stay able to authenticate to approve a payment, however many
\* losses are reported from however many screens at once.
THEOREM SessionKeepsThreshold == SessionSpec => []Registry!ThresholdKept
<1>1. Registry!RegistrySpec => [](Registry!RegistryTypeOK /\ Registry!ThresholdKept)
  BY Registry!RegistryThreshold, RegistryAssumption, PTL
<1> QED
  BY <1>1, SessionKeepsRegistry, PTL

-----------------------------------------------------------------------------
\* A payment's life.  The coarse server moves the requests table as
\* PaymentLifecycle does, which Payments implements in detail.

StageOf(st) ==
  CASE st = "none" -> "absent"
    [] st = "pending" -> "open"
    [] st \in {"quorum", "signing"} -> "authorised"
    [] st = "rejected" -> "refused"
    [] st \in {"broadcast", "failed"} -> "closed"

\* The steps the ceremony of a request has reported.
Reported(r) == {Steps[i] : i \in 1..progress[r]}

stages == [r \in Request |-> StageOf(status[r])]
supporters == [r \in Request |-> {s \in Signer : votes[r][s] = "approve"}]
sends == [r \in Request |-> IF "confirmed" \in Reported(r) THEN 1 ELSE 0]

Lifecycle == INSTANCE PaymentLifecycle
             WITH stage <- stages, backers <- supporters, moved <- sends

LEMMA LifecycleCounts == \A S : Lifecycle!Cardinality(S) = Cardinality(S)
BY DEF Lifecycle!Cardinality, Cardinality

LEMMA Stages ==
  /\ StageOf("none") = "absent" /\ StageOf("pending") = "open"
  /\ StageOf("quorum") = "authorised" /\ StageOf("signing") = "authorised"
  /\ StageOf("rejected") = "refused"
  /\ StageOf("broadcast") = "closed" /\ StageOf("failed") = "closed"
  /\ \A st \in Status : st # "none" => StageOf(st) # "absent"
BY DEF StageOf, Status

LEMMA StageChange ==
  ASSUME NEW r \in Request, NEW st, status \in [Request -> Status],
         status' = [status EXCEPT ![r] = st]
  PROVE  stages' = [stages EXCEPT ![r] = StageOf(st)]
BY DEF stages

LEMMA SupportChange ==
  ASSUME NEW r \in Request, NEW s \in Signer, NEW d \in {"approve", "reject"},
         votes \in [Request -> [Signer -> Vote]], votes' = [votes EXCEPT ![r][s] = d]
  PROVE  supporters' = [supporters EXCEPT ![r] = IF d = "approve" THEN @ \cup {s} ELSE @ \ {s}]
<1> DEFINE backing(q) == {t \in Signer : votes[q][t] = "approve"}
           backingThen(q) == {t \in Signer : votes'[q][t] = "approve"}
<1>1. \A q \in Request : q # r => backingThen(q) = backing(q)
  OBVIOUS
<1>2. d = "approve" => backingThen(r) = backing(r) \cup {s}
  OBVIOUS
<1>3. d = "reject" => backingThen(r) = backing(r) \ {s}
  OBVIOUS
<1>4. supporters = [q \in Request |-> backing(q)]
        /\ supporters' = [q \in Request |-> backingThen(q)]
  BY DEF supporters
<1> HIDE DEF backing, backingThen
<1>5. CASE d = "approve"
  BY <1>1, <1>2, <1>4, <1>5
<1>6. CASE d = "reject"
  BY <1>1, <1>3, <1>4, <1>6
<1> QED
  BY <1>5, <1>6

\* A reported step adds itself to those reported before.
LEMMA ReportGrows ==
  ASSUME NEW r \in Request, progress \in [Request -> Nat], ReportStep(r)
  PROVE  /\ Reported(r)' = Reported(r) \cup {Steps[progress[r] + 1]}
         /\ \A q \in Request : q # r => Reported(q)' = Reported(q)
<1>1. progress' = [progress EXCEPT ![r] = @ + 1]
  BY DEF ReportStep
<1>2. progress'[r] = progress[r] + 1 /\ \A q \in Request : q # r => progress'[q] = progress[q]
  BY <1>1
<1>3. 1..(progress[r] + 1) = (1..progress[r]) \cup {progress[r] + 1}
  OBVIOUS
<1> QED
  BY <1>2, <1>3 DEF Reported

LEMMA LifecycleStep ==
  ASSUME BackendTypeOK, ServerAction \/ FeedMove
  PROVE  Lifecycle!LifecycleNext \/ UNCHANGED <<stages, supporters, sends>>
<1>1. /\ status \in [Request -> Status]
      /\ votes \in [Request -> [Signer -> Vote]]
      /\ progress \in [Request -> Nat]
  <2>1. progress \in [Request -> 0..Len(Steps)] /\ Len(Steps) \in Nat
    BY StepsAssumption DEF BackendTypeOK
  <2> QED
    BY <2>1 DEF BackendTypeOK
<1>2. \A r \in Request : stages[r] = StageOf(status[r])
        /\ supporters[r] = {s \in Signer : votes[r][s] = "approve"}
  BY DEF stages, supporters
<1>3. /\ UNCHANGED status => UNCHANGED stages
      /\ UNCHANGED votes => UNCHANGED supporters
      /\ UNCHANGED progress => UNCHANGED sends
  BY DEF stages, supporters, sends, Reported
<1>4. ASSUME NEW s \in Signer, NEW r \in Request, NEW d \in {"approve", "reject"},
             RecordVote(s, r, d)
      PROVE  Lifecycle!LifecycleNext
  <2> DEFINE enough == Cardinality({t \in Signer : votes'[r][t] = "approve"}) >= Quorum
  <2>1. stages[r] # "absent"
    BY <1>1, <1>2, <1>4, Stages DEF RecordVote
  <2>2. supporters' = [supporters EXCEPT ![r] = IF d = "approve" THEN @ \cup {s} ELSE @ \ {s}]
    BY <1>1, <1>4, SupportChange DEF RecordVote
  <2>3. UNCHANGED sends
    BY <1>3, <1>4 DEF RecordVote
  <2>4. /\ status[r] = "pending" /\ d = "reject" => status' = [status EXCEPT ![r] = "rejected"]
        /\ status[r] = "pending" /\ d = "approve" /\ enough
             => status' = [status EXCEPT ![r] = "quorum"]
        /\ ~(status[r] = "pending" /\ d = "reject")
             /\ ~(status[r] = "pending" /\ d = "approve" /\ enough)
             => status' = [status EXCEPT ![r] = status[r]]
    BY <1>4 DEF RecordVote
  <2>5. CASE status[r] = "pending" /\ d = "reject"
    <3>1. stages[r] = "open" /\ stages' = [stages EXCEPT ![r] = "refused"]
      BY <1>1, <1>2, <2>4, <2>5, StageChange, Stages
    <3>2. supporters' = [supporters EXCEPT ![r] = @ \ {s}]
      BY <2>2, <2>5
    <3> QED
      BY <2>3, <3>1, <3>2 DEF Lifecycle!Oppose, Lifecycle!LifecycleNext, stages, supporters
  <2>6. CASE status[r] = "pending" /\ d = "approve" /\ enough
    <3>1. stages[r] = "open" /\ stages' = [stages EXCEPT ![r] = "authorised"]
      BY <1>1, <1>2, <2>4, <2>6, StageChange, Stages
    <3>2. supporters' = [supporters EXCEPT ![r] = @ \cup {s}]
      BY <2>2, <2>6
    <3>3. {t \in Signer : votes'[r][t] = "approve"} = supporters[r] \cup {s}
      BY <3>2 DEF supporters
    <3>4. Lifecycle!Cardinality(supporters[r] \cup {s}) >= Quorum
      BY <2>6, <3>3, LifecycleCounts
    <3>5. Lifecycle!Back(r, s)
      BY <2>1, <2>3, <3>1, <3>2, <3>4 DEF Lifecycle!Back
    <3> QED
      BY <3>5 DEF Lifecycle!LifecycleNext
  <2>7. CASE ~(status[r] = "pending" /\ d = "reject")
               /\ ~(status[r] = "pending" /\ d = "approve" /\ enough)
    <3>1. UNCHANGED stages
      BY <1>1, <1>3, <2>4, <2>7
    <3>2. Lifecycle!Back(r, s) \/ Lifecycle!Oppose(r, s)
      BY <2>1, <2>2, <2>3, <3>1 DEF Lifecycle!Back, Lifecycle!Oppose
    <3> QED
      BY <3>2 DEF Lifecycle!LifecycleNext
  <2> HIDE DEF enough
  <2> QED
    BY <2>5, <2>6, <2>7
<1>5. ASSUME NEW r \in Request, InsertRequest(r) PROVE Lifecycle!LifecycleNext
  <2>1. stages[r] = "absent" /\ stages' = [stages EXCEPT ![r] = "open"]
    <3>1. status[r] = "none" /\ status' = [status EXCEPT ![r] = "pending"]
      BY <1>5 DEF InsertRequest
    <3>2. stages' = [stages EXCEPT ![r] = StageOf("pending")]
      BY <1>1, <3>1, StageChange
    <3> QED
      BY <1>2, <3>1, <3>2, Stages
  <2>2. UNCHANGED <<supporters, sends>>
    BY <1>3, <1>5 DEF InsertRequest
  <2> QED
    BY <2>1, <2>2 DEF Lifecycle!Propose, Lifecycle!LifecycleNext
<1>6. ASSUME NEW r \in Request, Gather(r) PROVE UNCHANGED <<stages, supporters, sends>>
  <2>1. stages[r] = "authorised" /\ stages' = [stages EXCEPT ![r] = "authorised"]
    <3>1. status[r] = "quorum" /\ status' = [status EXCEPT ![r] = "signing"]
      BY <1>6 DEF Gather
    <3>2. stages' = [stages EXCEPT ![r] = StageOf("signing")]
      BY <1>1, <3>1, StageChange
    <3> QED
      BY <1>2, <3>1, <3>2, Stages
  <2>2. UNCHANGED stages
    BY <2>1 DEF stages
  <2> QED
    BY <1>3, <1>6, <2>2 DEF Gather
<1>7. ASSUME NEW r \in Request, ReportStep(r)
      PROVE  Lifecycle!LifecycleNext \/ UNCHANGED <<stages, supporters, sends>>
  <2>1. UNCHANGED <<stages, supporters>> /\ stages[r] = "authorised"
    BY <1>2, <1>3, <1>7, Stages DEF ReportStep
  <2>2. Reported(r)' = Reported(r) \cup {Steps[progress[r] + 1]}
          /\ \A q \in Request : q # r => Reported(q)' = Reported(q)
    BY <1>1, <1>7, ReportGrows
  <2>3. sends = [q \in Request |-> IF "confirmed" \in Reported(q) THEN 1 ELSE 0]
          /\ sends' = [q \in Request |-> IF "confirmed" \in Reported(q)' THEN 1 ELSE 0]
    BY DEF sends
  <2>4. CASE "confirmed" \in Reported(r) \/ Steps[progress[r] + 1] # "confirmed"
    <3>1. \A q \in Request : "confirmed" \in Reported(q)' <=> "confirmed" \in Reported(q)
      BY <2>2, <2>4
    <3>2. UNCHANGED sends
      BY <2>3, <3>1
    <3> QED
      BY <2>1, <3>2
  <2>5. CASE "confirmed" \notin Reported(r) /\ Steps[progress[r] + 1] = "confirmed"
    <3>1. sends[r] = 0 /\ sends' = [sends EXCEPT ![r] = 1]
      BY <2>2, <2>3, <2>5
    <3> QED
      BY <2>1, <3>1 DEF Lifecycle!MoveFunds, Lifecycle!LifecycleNext
  <2> QED
    BY <2>4, <2>5
<1>8. ASSUME NEW r \in Request, CeremonyOk(r) \/ CeremonyFailed(r) PROVE Lifecycle!LifecycleNext
  <2>1. PICK st \in {"broadcast", "failed"} :
          status[r] = "signing" /\ status' = [status EXCEPT ![r] = st]
    BY <1>8 DEF CeremonyOk, CeremonyFailed
  <2>2. stages[r] = "authorised" /\ stages' = [stages EXCEPT ![r] = "closed"]
    <3>1. stages' = [stages EXCEPT ![r] = StageOf(st)]
      BY <1>1, <2>1, StageChange
    <3> QED
      BY <1>2, <2>1, <3>1, Stages
  <2>3. UNCHANGED <<supporters, sends>>
    BY <1>3, <1>8 DEF CeremonyOk, CeremonyFailed
  <2> QED
    BY <2>2, <2>3 DEF Lifecycle!Close, Lifecycle!LifecycleNext
<1>9. ASSUME \/ \E s \in Signer : SetLost(s) \/ StartRecovery(s)
             \/ RecoveryTask \/ FeedMove
      PROVE  UNCHANGED <<stages, supporters, sends>>
  <2>1. UNCHANGED <<status, votes, progress>>
    BY <1>9 DEF SetLost, StartRecovery, RecoveryTask, ReportRecovery, ReactivateSigner,
                RecoveryDone, RecoveryFailed, FeedMove, serverVars
  <2> QED
    BY <1>3, <2>1
<1> QED
  BY <1>4, <1>5, <1>6, <1>7, <1>8, <1>9 DEF ServerAction, Ceremony

\* Whatever the dashboards, the other devices and the network do, a payment lives
\* as PaymentLifecycle allows: it is authorised once, by a quorum of signers, and
\* is sent once at most and only then.
THEOREM SessionKeepsLifecycle ==
  SessionSpec => [][Lifecycle!LifecycleNext]_(Lifecycle!lifecycleVars)
<1>1. SessionTypes => BackendTypeOK
  BY DEF SessionTypes, SessionTypeOK
<1>2. AnswerInv /\ BackendTypeOK /\ [SessionNext]_sessionState
        => [Lifecycle!LifecycleNext]_(Lifecycle!lifecycleVars)
  BY SessionServed, LifecycleStep DEF Lifecycle!lifecycleVars
<1> QED
  BY <1>1, <1>2, SessionAnswers, SessionTyped, PTL DEF SessionSpec

\* A session that finds no payment at its start implements the abstract lifecycle.
THEOREM SessionImplementsLifecycle ==
  SessionSpec /\ (\A r \in Request : status[r] = "none") => Lifecycle!LifecycleSpec
<1>1. SessionInit /\ (\A r \in Request : status[r] = "none") => Lifecycle!LifecycleInit
  <2> SUFFICES ASSUME SessionInit, \A r \in Request : status[r] = "none"
               PROVE  Lifecycle!LifecycleInit
    OBVIOUS
  <2>1. PICK b \in Budgets : BackendInit(b.rows)
    BY DEF SessionInit
  <2>2. status = b.rows /\ progress = [r \in Request |-> 0]
          /\ \A r \in Request, s \in Signer : votes[r][s] = "none"
    BY <2>1 DEF BackendInit
  <2>3. stages = [r \in Request |-> "absent"]
    BY Stages DEF stages
  <2>4. supporters = [r \in Request |-> {}]
    BY <2>2 DEF supporters
  <2>5. sends = [r \in Request |-> 0]
    <3>1. \A r \in Request : Reported(r) = {}
      BY <2>2 DEF Reported
    <3> QED
      BY <3>1 DEF sends
  <2> QED
    BY <2>3, <2>4, <2>5 DEF Lifecycle!LifecycleInit
<1> QED
  BY <1>1, SessionKeepsLifecycle, PTL DEF SessionSpec, Lifecycle!LifecycleSpec

-----------------------------------------------------------------------------
\* What the overlays say happened on the server: the events on their way, however
\* late, tell the truth, and the server takes nothing back.

Begun(r) == status[r] \in {"signing", "broadcast", "failed"}

\* The pipeline had come to the send of the transaction, or it is done.
AtBroadcast(r) ==
  status[r] = "broadcast" \/ \E i \in 1..progress[r] : Steps[i] \in {"broadcast", "confirmed"}

Happened(r, step) ==
  /\ step \in CeremonyStep => Begun(r)
  /\ step \in {"broadcast", "confirmed"} => AtBroadcast(r)
  /\ step = "failed" => status[r] = "failed"

TrueEvent == {e \in FeedEvent : e.request # 0 => Happened(e.request, e.step)}

OverlayIsTrue(r) ==
  /\ ceremonies[r].reached # 0 => Begun(r)
  /\ ceremonies[r].reached >= BROADCAST_IDX => AtBroadcast(r)
  /\ ceremonies[r].failed => status[r] = "failed"

TruthInv ==
  /\ inbox \in Seq(TrueEvent)
  /\ \A r \in Request : OverlayIsTrue(r)
  /\ activeCeremonyId # 0 => Begun(activeCeremonyId)

\* What happened to a request stays so.
LEMMA NothingUndone ==
  ASSUME BackendTypeOK, ServerAction \/ FeedMove, NEW r \in Request
  PROVE  /\ Begun(r) => Begun(r)'
         /\ AtBroadcast(r) => AtBroadcast(r)'
         /\ status[r] = "failed" => status'[r] = "failed"
<1> DEFINE Kept == /\ Begun(r) => status'[r] \in {"signing", "broadcast", "failed"}
                   /\ status[r] \in {"broadcast", "failed"} => status'[r] = status[r]
                   /\ progress[r] \in Nat /\ progress'[r] \in Nat
                   /\ progress'[r] >= progress[r]
<1>1. status \in [Request -> Status] /\ progress \in [Request -> Nat]
  <2>1. progress \in [Request -> 0..Len(Steps)] /\ Len(Steps) \in Nat
    BY StepsAssumption DEF BackendTypeOK
  <2> QED
    BY <2>1 DEF BackendTypeOK
<1>2. Kept
  <2>1. ASSUME NEW s \in Signer, NEW q \in Request, NEW d \in {"approve", "reject"},
               RecordVote(s, q, d)
        PROVE  Kept
    <3>1. \/ status[q] = "pending" /\ status' = [status EXCEPT ![q] = status'[q]]
          \/ status' = status
      <4> DEFINE enough == Cardinality({t \in Signer : votes'[q][t] = "approve"}) >= Quorum
      <4>1. /\ status[q] = "pending" /\ d = "reject" => status' = [status EXCEPT ![q] = "rejected"]
            /\ status[q] = "pending" /\ d = "approve" /\ enough
                 => status' = [status EXCEPT ![q] = "quorum"]
            /\ ~(status[q] = "pending" /\ d = "reject")
                 /\ ~(status[q] = "pending" /\ d = "approve" /\ enough)
                 => status' = [status EXCEPT ![q] = status[q]]
        BY <2>1 DEF RecordVote
      <4> HIDE DEF enough
      <4> QED
        BY <1>1, <4>1
    <3> QED
      BY <1>1, <2>1, <3>1 DEF RecordVote, Begun
  <2>2. ASSUME NEW q \in Request, InsertRequest(q) PROVE Kept
    BY <1>1, <2>2 DEF InsertRequest, Begun
  <2>3. ASSUME NEW q \in Request, Gather(q) PROVE Kept
    BY <1>1, <2>3 DEF Gather, Begun
  <2>4. ASSUME NEW q \in Request, ReportStep(q) PROVE Kept
    <3>1. UNCHANGED status /\ progress' = [progress EXCEPT ![q] = @ + 1]
      BY <2>4 DEF ReportStep
    <3> QED
      BY <1>1, <3>1 DEF Begun
  <2>5. ASSUME NEW q \in Request, CeremonyOk(q) \/ CeremonyFailed(q) PROVE Kept
    BY <1>1, <2>5 DEF CeremonyOk, CeremonyFailed, Begun
  <2>6. ASSUME \/ \E s \in Signer : SetLost(s) \/ StartRecovery(s)
               \/ RecoveryTask \/ FeedMove
        PROVE  Kept
    <3>1. UNCHANGED <<status, progress>>
      BY <2>6 DEF SetLost, StartRecovery, RecoveryTask, ReportRecovery, ReactivateSigner,
                  RecoveryDone, RecoveryFailed, FeedMove, serverVars
    <3> QED
      BY <1>1, <3>1 DEF Begun
  <2> QED
    BY <2>1, <2>2, <2>3, <2>4, <2>5, <2>6 DEF ServerAction, Ceremony
<1>3. 1..progress[r] \subseteq 1..progress'[r]
  BY <1>2
<1> HIDE DEF Kept
<1>4. /\ Begun(r) => status'[r] \in {"signing", "broadcast", "failed"}
      /\ status[r] \in {"broadcast", "failed"} => status'[r] = status[r]
  BY <1>2 DEF Kept
<1> QED
  BY <1>3, <1>4 DEF Begun, AtBroadcast

LEMMA TruthStays ==
  ASSUME BackendTypeOK, ServerAction \/ FeedMove
  PROVE  TrueEvent \subseteq TrueEvent'
<1> SUFFICES ASSUME NEW e \in TrueEvent PROVE e \in TrueEvent'
  OBVIOUS
<1>1. e \in FeedEvent /\ (e.request # 0 => e.request \in Request /\ Happened(e.request, e.step))
  BY DEF TrueEvent, FeedEvent
<1>2. e.request # 0 => Happened(e.request, e.step)'
  BY <1>1, NothingUndone DEF Happened
<1> QED
  BY <1>1, <1>2 DEF TrueEvent

LEMMA TrueRequestEvent ==
  ASSUME NEW r \in Request, NEW step \in Latest, Publish(Event(r, step)), Happened(r, step)'
  PROVE  FeedNext(TrueEvent')
<1>1. Event(r, step) \in FeedEvent /\ Event(r, step).request = r /\ Event(r, step).step = step
  BY DEF Event, FeedEvent
<1>2. Event(r, step) \in TrueEvent'
  BY <1>1 DEF TrueEvent
<1> QED
  BY <1>2 DEF FeedNext

LEMMA TrueRecoveryEvent ==
  ASSUME NEW step \in RecoveryStep, Publish(Event(0, step))
  PROVE  FeedNext(TrueEvent')
<1>1. Event(0, step) \in FeedEvent /\ Event(0, step).request = 0
  BY DEF Event, FeedEvent
<1>2. Event(0, step) \in TrueEvent'
  BY <1>1 DEF TrueEvent
<1> QED
  BY <1>2 DEF FeedNext

LEMMA FailedIsNoStep == {"created", "decision", "failed"} \cap CeremonyStep = {}
<1>1. DOMAIN CEREMONY_ORDER = 1..11
  BY DEF CEREMONY_ORDER
<1>2. ASSUME NEW i \in 1..11 PROVE CEREMONY_ORDER[i] \notin {"created", "decision", "failed"}
  BY DEF CEREMONY_ORDER
<1> QED
  BY <1>1, <1>2 DEF CeremonyStep

\* What the server publishes has happened: the row is written first.
LEMMA ServerTellsTruth ==
  ASSUME BackendTypeOK, ServerAction
  PROVE  FeedNext(TrueEvent') \/ UNCHANGED feedVars
<1>1. /\ status \in [Request -> Status] /\ progress \in [Request -> Nat]
  <2>1. progress \in [Request -> 0..Len(Steps)] /\ Len(Steps) \in Nat
    BY StepsAssumption DEF BackendTypeOK
  <2> QED
    BY <2>1 DEF BackendTypeOK
<1>2. ASSUME NEW r \in Request, NEW step \in {"created", "decision"}
      PROVE  Happened(r, step)' /\ step \in Latest
  BY FailedIsNoStep, StepsKnown DEF Happened
<1>3. ASSUME NEW s \in Signer, NEW r \in Request, NEW d, RecordVote(s, r, d)
      PROVE  FeedNext(TrueEvent')
  BY <1>2, <1>3, TrueRequestEvent DEF RecordVote
<1>4. ASSUME NEW r \in Request, InsertRequest(r) PROVE FeedNext(TrueEvent')
  BY <1>2, <1>4, TrueRequestEvent DEF InsertRequest
<1>5. ASSUME NEW r \in Request, ReportStep(r) PROVE FeedNext(TrueEvent')
  <2>0. PICK step \in CeremonyStep : step = Steps[progress[r] + 1]
    BY <1>1, <1>5, StepReported
  <2>1. step \in Latest /\ step # "failed"
    BY StepsKnown, FailedIsNoStep
  <2>2. status'[r] = "signing" /\ progress'[r] = progress[r] + 1
    BY <1>1, <1>5 DEF ReportStep
  <2>3. progress'[r] \in 1..progress'[r] /\ step = Steps[progress'[r]]
    BY <1>1, <2>0, <2>2
  <2>4. Publish(Event(r, step))
    BY <1>5, <2>0 DEF ReportStep
  <2>5. Happened(r, step)'
    BY <2>1, <2>2, <2>3 DEF Happened, Begun, AtBroadcast
  <2> QED
    BY <2>1, <2>4, <2>5, TrueRequestEvent
<1>6. ASSUME NEW r \in Request, CeremonyOk(r) PROVE FeedNext(TrueEvent')
  <2>1. status'[r] = "broadcast" /\ Publish(Event(r, "broadcast"))
    BY <1>1, <1>6 DEF CeremonyOk
  <2>2. Happened(r, "broadcast")'
    BY <2>1 DEF Happened, Begun, AtBroadcast
  <2> QED
    BY <2>1, <2>2, StepsKnown, TrueRequestEvent
<1>7. ASSUME NEW r \in Request, CeremonyFailed(r) PROVE FeedNext(TrueEvent')
  <2>1. status'[r] = "failed" /\ Publish(Event(r, "failed"))
    BY <1>1, <1>7 DEF CeremonyFailed
  <2>2. Happened(r, "failed")'
    BY <2>1, FailedIsNoStep DEF Happened
  <2> QED
    BY <2>1, <2>2, StepsKnown, TrueRequestEvent
<1>8. ASSUME NEW s, SetLost(s) PROVE FeedNext(TrueEvent')
  BY <1>8, TrueRecoveryEvent DEF SetLost, RecoveryStep
<1>9. CASE ReportRecovery
  <2>1. \E step \in {"recovery.repair", "recovery.refresh"} : Publish(Event(0, step))
    BY <1>9 DEF ReportRecovery
  <2> QED
    BY <2>1, TrueRecoveryEvent DEF RecoveryStep
<1>10. CASE RecoveryDone \/ RecoveryFailed
  BY <1>10, TrueRecoveryEvent DEF RecoveryDone, RecoveryFailed, RecoveryStep
<1>11. ASSUME NEW r, NEW s, Gather(r) \/ StartRecovery(s) \/ ReactivateSigner
       PROVE  UNCHANGED feedVars
  BY <1>11 DEF Gather, StartRecovery, ReactivateSigner
<1> QED
  BY <1>3, <1>4, <1>5, <1>6, <1>7, <1>8, <1>9, <1>10, <1>11
     DEF ServerAction, Ceremony, RecoveryTask

\* A queue of events of one kind stays one.
LEMMA QueueNext ==
  ASSUME NEW S, inbox \in Seq(S), Len(inbox) <= Cap, FeedNext(S) \/ UNCHANGED feedVars
  PROVE  inbox' \in Seq(S)
<1>1. CASE UNCHANGED feedVars
  BY <1>1 DEF feedVars
<1>2. CASE Subscribe \/ HangUp
  <2>1. inbox' = <<>> /\ <<>> \in Seq(S)
    BY <1>2 DEF Subscribe, HangUp
  <2> QED
    BY <2>1
<1>3. CASE Receive
  BY <1>3 DEF Receive
<1>4. ASSUME NEW e \in S, Publish(e) PROVE inbox' \in Seq(S)
  BY <1>4, PushFits DEF Publish
<1> QED
  BY <1>1, <1>2, <1>3, <1>4 DEF FeedNext

LEMMA SubsetSeq ==
  ASSUME NEW S, NEW T, S \subseteq T, NEW q \in Seq(S)
  PROVE  q \in Seq(T)
OBVIOUS

LEMMA FeedIsTrue ==
  ASSUME BackendTypeOK, FeedTypes, inbox \in Seq(TrueEvent), ServerAction \/ FeedMove
  PROVE  inbox' \in Seq(TrueEvent)'
<1>1. inbox \in Seq(TrueEvent') /\ Len(inbox) <= Cap
  BY TruthStays, SubsetSeq DEF FeedTypes
<1>2. FeedNext(TrueEvent') \/ UNCHANGED feedVars
  BY ServerTellsTruth DEF FeedMove, FeedNext
<1>3. inbox' \in Seq(TrueEvent')
  BY <1>1, <1>2, QueueNext
<1> QED
  BY <1>3

-----------------------------------------------------------------------------
\* Overlays move with events only, and forward.

Forwards ==
  \A r \in Request : /\ ceremonies'[r].reached >= ceremonies[r].reached
                     /\ ceremonies[r].failed => ceremonies'[r].failed

LEMMA OverlayMoves ==
  [SessionNext]_sessionState => HandleEvent \/ UNCHANGED <<ceremonies, activeCeremonyId>>
<1> SUFFICES ASSUME [SessionNext]_sessionState, ~HandleEvent
             PROVE  UNCHANGED <<ceremonies, activeCeremonyId>>
  OBVIOUS
<1>1. CASE UNCHANGED sessionState
  BY <1>1 DEF sessionState, sessionVars, engineVars
<1>2. ASSUME NEW a, TakeRequests(a) \/ TakeSigners(a)
      PROVE  UNCHANGED <<ceremonies, activeCeremonyId>>
  BY <1>2 DEF TakeRequests, TakeSigners
<1>3. ASSUME NEW f, EndRevival(f) PROVE UNCHANGED <<ceremonies, activeCeremonyId>>
  BY <1>3 DEF EndRevival
<1>4. ASSUME NEW s, NEW r, NEW d, EnterDecision(s, r, d)
      PROVE  UNCHANGED <<ceremonies, activeCeremonyId>>
  BY <1>4 DEF EnterDecision
<1>5. ASSUME NEW s, ReportLost(s) \/ AskRepair(s) \/ SubmitRequest(s)
      PROVE  UNCHANGED <<ceremonies, activeCeremonyId>>
  BY <1>5 DEF ReportLost, AskRepair, SubmitRequest, engineVars
<1>6. ASSUME NEW c,
             \/ DecisionTaken(c) \/ DecisionFailed(c) \/ LostTaken(c) \/ LostFailed(c)
             \/ RepairTaken(c) \/ RepairFailed(c) \/ RequestCreated(c) \/ RequestRefused(c)
      PROVE  UNCHANGED <<ceremonies, activeCeremonyId>>
  BY <1>6 DEF DecisionTaken, DecisionFailed, LostTaken, LostFailed, RepairTaken, RepairFailed,
              RequestCreated, RequestRefused, engineVars
<1>7. CASE Network
  BY <1>7, NetworkShowsNothing DEF engineVars
<1> QED
  BY <1>1, <1>2, <1>3, <1>4, <1>5, <1>6, <1>7 DEF SessionNext

\* What an event does to the overlay of its request.
LEMMA OverlayChange ==
  ASSUME EngineTypes, NEW e, e.request \in Request, ShowCeremony(e)
  PROVE  LET idx == IndexOf(CEREMONY_ORDER, e.step) IN
         /\ ceremonies'[e.request].reached = Greater(ceremonies[e.request].reached, idx)
         /\ ceremonies'[e.request].failed
              <=> ceremonies[e.request].failed \/ e.step = "failed"
         /\ \A q \in Request : q # e.request => ceremonies'[q] = ceremonies[q]
         /\ activeCeremonyId' \in {activeCeremonyId, e.request}
         /\ activeCeremonyId' # activeCeremonyId => idx # 0 \/ e.step = "failed"
<1> DEFINE r == e.request
           idx == IndexOf(CEREMONY_ORDER, e.step)
           failed == ceremonies[r].failed \/ e.step = "failed"
           new == [reached |-> Greater(ceremonies[r].reached, idx), latest |-> e.step,
                   failed |-> failed]
<1>1. /\ ceremonies' = [ceremonies EXCEPT ![r] = new]
      /\ activeCeremonyId' = IF idx > 0 \/ e.step = "failed" THEN r ELSE activeCeremonyId
  BY DEF ShowCeremony
<1>2. idx \in 0..11
  BY CeremonyIndex
<1>3. new.reached = Greater(ceremonies[r].reached, idx) /\ new.failed = failed
  OBVIOUS
<1> HIDE DEF new, idx, failed
<1>4. ceremonies'[r] = new /\ \A q \in Request : q # r => ceremonies'[q] = ceremonies[q]
  BY <1>1 DEF EngineTypes
<1>5. activeCeremonyId' \in {activeCeremonyId, r}
  BY <1>1
<1>6. activeCeremonyId' # activeCeremonyId => idx # 0 \/ e.step = "failed"
  BY <1>1, <1>2
<1> QED
  BY <1>3, <1>4, <1>5, <1>6 DEF idx, failed

LEMMA GoesForward ==
  EngineTypes /\ FeedTypes /\ [SessionNext]_sessionState => Forwards
<1> SUFFICES ASSUME EngineTypes, FeedTypes, [SessionNext]_sessionState PROVE Forwards
  OBVIOUS
<1>t. Len(CEREMONY_ORDER) = 11 /\ \A r \in Request : ceremonies[r].reached \in 0..11
  <2>1. Len(CEREMONY_ORDER) = 11
    BY DEF CEREMONY_ORDER
  <2> QED
    BY <2>1 DEF EngineTypes
<1>1. CASE UNCHANGED ceremonies
  BY <1>1, <1>t DEF Forwards
<1>2. CASE HandleEvent
  <2> DEFINE e == Head(inbox)
  <2>1. e \in FeedEvent
    BY <1>2 DEF HandleEvent, Receive, FeedTypes
  <2>2. (e.request \in Request /\ ShowCeremony(e)) \/ UNCHANGED ceremonies
    BY <1>2, <2>1 DEF HandleEvent, ShowRecovery, engineVars, FeedEvent
  <2> HIDE DEF e
  <2>3. CASE e.request \in Request /\ ShowCeremony(e)
    <3> DEFINE idx == IndexOf(CEREMONY_ORDER, e.step)
    <3>1. idx \in 0..11
      BY CeremonyIndex
    <3>2. /\ ceremonies'[e.request].reached = Greater(ceremonies[e.request].reached, idx)
          /\ ceremonies[e.request].failed => ceremonies'[e.request].failed
          /\ \A q \in Request : q # e.request => ceremonies'[q] = ceremonies[q]
      BY <2>3, OverlayChange
    <3> HIDE DEF idx
    <3>3. ceremonies'[e.request].reached >= ceremonies[e.request].reached
      BY <1>t, <2>3, <3>1, <3>2 DEF Greater
    <3> QED
      BY <1>t, <3>2, <3>3 DEF Forwards
  <2> QED
    BY <1>1, <2>2, <2>3
<1> QED
  BY <1>1, <1>2, OverlayMoves

LEMMA BroadcastIndex ==
  /\ BROADCAST_IDX = 10
  /\ \A step : IndexOf(CEREMONY_ORDER, step) >= 10 => step \in {"broadcast", "confirmed"}
<1>1. DOMAIN CEREMONY_ORDER = 1..11 /\ CEREMONY_ORDER[10] = "broadcast"
        /\ CEREMONY_ORDER[11] = "confirmed"
  BY DEF CEREMONY_ORDER
<1>2. \A i \in 1..11 : CEREMONY_ORDER[i] = "broadcast" => i = 10
  BY DEF CEREMONY_ORDER
<1>3. BROADCAST_IDX \in 0..11 /\ BROADCAST_IDX # 0
        /\ CEREMONY_ORDER[BROADCAST_IDX] = "broadcast"
  BY CeremonyIndex, StepsKnown DEF BROADCAST_IDX
<1>4. BROADCAST_IDX = 10
  BY <1>2, <1>3
<1>5. ASSUME NEW step, IndexOf(CEREMONY_ORDER, step) >= 10
      PROVE  step \in {"broadcast", "confirmed"}
  <2> DEFINE idx == IndexOf(CEREMONY_ORDER, step)
  <2>1. idx \in 0..11 /\ (idx # 0 => CEREMONY_ORDER[idx] = step)
    BY CeremonyIndex
  <2> HIDE DEF idx
  <2>2. idx >= 10
    BY <1>5 DEF idx
  <2>3. idx = 10 \/ idx = 11
    BY <2>1, <2>2
  <2> QED
    BY <1>1, <2>1, <2>3
<1> QED
  BY <1>4, <1>5

\* An event that is handled brings its overlay to what happened.
LEMMA TruthShown ==
  ASSUME TruthInv, BackendTypeOK, EngineTypes, HandleEvent
  PROVE  /\ \A r \in Request : OverlayIsTrue(r)'
         /\ activeCeremonyId' # 0 => Begun(activeCeremonyId)'
<1> DEFINE e == Head(inbox)
<1>1. e \in TrueEvent
  BY DEF HandleEvent, Receive, TruthInv
<1>2. UNCHANGED <<status, progress>>
  BY DEF HandleEvent, serverVars
<1>3. CASE UNCHANGED <<ceremonies, activeCeremonyId>>
  BY <1>2, <1>3 DEF TruthInv, OverlayIsTrue, Begun, AtBroadcast
<1>4. CASE e.request \in Request /\ ShowCeremony(e)
  <2>0. PICK r \in Request : r = e.request
    BY <1>4
  <2> DEFINE idx == IndexOf(CEREMONY_ORDER, e.step)
  <2>1. Happened(r, e.step)
    BY <1>1, <2>0, BackendAssumption DEF TrueEvent
  <2>2. /\ ceremonies'[r].reached = Greater(ceremonies[r].reached, idx)
        /\ ceremonies'[r].failed <=> ceremonies[r].failed \/ e.step = "failed"
        /\ \A q \in Request : q # r => ceremonies'[q] = ceremonies[q]
        /\ activeCeremonyId' \in {activeCeremonyId, r}
        /\ activeCeremonyId' # activeCeremonyId => idx # 0 \/ e.step = "failed"
    BY <1>4, <2>0, OverlayChange
  <2>3. idx # 0 => Begun(r)
    BY <2>1, CeremonyIndex DEF Happened
  <2>4. idx >= 10 => AtBroadcast(r)
    BY <2>1, BroadcastIndex DEF Happened
  <2>5. e.step = "failed" => status[r] = "failed"
    BY <2>1 DEF Happened
  <2>6. idx \in 0..11 /\ ceremonies[r].reached \in Nat /\ BROADCAST_IDX = 10
    <3>1. Len(CEREMONY_ORDER) \in Nat
      BY DEF CEREMONY_ORDER
    <3> QED
      BY <1>4, <3>1, CeremonyIndex, BroadcastIndex DEF EngineTypes
  <2>7. OverlayIsTrue(r)
    BY DEF TruthInv
  <2> HIDE DEF idx
  <2>8. ceremonies'[r].reached \in {idx, ceremonies[r].reached}
    BY <2>2 DEF Greater
  <2>9. /\ ceremonies'[r].reached # 0 => Begun(r)
        /\ ceremonies'[r].reached >= BROADCAST_IDX => AtBroadcast(r)
        /\ ceremonies'[r].failed => status[r] = "failed"
    BY <2>2, <2>3, <2>4, <2>5, <2>6, <2>7, <2>8 DEF OverlayIsTrue
  <2>10. Begun(r)' = Begun(r) /\ AtBroadcast(r)' = AtBroadcast(r)
    BY <1>2 DEF Begun, AtBroadcast
  <2>11. OverlayIsTrue(r)'
    BY <1>2, <2>9, <2>10 DEF OverlayIsTrue, BROADCAST_IDX
  <2>12. ASSUME NEW q \in Request, q # r PROVE OverlayIsTrue(q)'
    BY <1>2, <2>2, <2>12 DEF TruthInv, OverlayIsTrue, Begun, AtBroadcast
  <2>13. activeCeremonyId' # 0 => Begun(activeCeremonyId)'
    BY <1>2, <2>2, <2>3, <2>5 DEF TruthInv, Begun
  <2> QED
    BY <2>11, <2>12, <2>13
<1>5. UNCHANGED <<ceremonies, activeCeremonyId>> \/ (e.request \in Request /\ ShowCeremony(e))
  BY <1>1 DEF HandleEvent, ShowRecovery, engineVars, TrueEvent, FeedEvent
<1> QED
  BY <1>3, <1>4, <1>5

LEMMA TruthInit == SessionInit => TruthInv
<1> SUFFICES ASSUME SessionInit PROVE TruthInv
  OBVIOUS
<1>1. inbox = <<>> /\ activeCeremonyId = 0 /\ ceremonies = [r \in Request |-> NoCeremony]
  BY DEF SessionInit, FeedInit
<1>2. inbox \in Seq(TrueEvent)
  BY <1>1
<1>3. \A r \in Request : OverlayIsTrue(r)
  BY <1>1, BroadcastIndex DEF OverlayIsTrue, NoCeremony
<1> QED
  BY <1>1, <1>2, <1>3 DEF TruthInv

LEMMA TruthNext ==
  AnswerInv /\ SessionTypes /\ TruthInv /\ [SessionNext]_sessionState => TruthInv'
<1> SUFFICES ASSUME AnswerInv, SessionTypes, TruthInv, [SessionNext]_sessionState
             PROVE  TruthInv'
  OBVIOUS
<1>1. BackendTypeOK /\ FeedTypes /\ EngineTypes
  BY TypesSplit
<1>2. ServerAction \/ FeedMove
  BY SessionServed
<1>3. inbox' \in Seq(TrueEvent)'
  BY <1>1, <1>2, FeedIsTrue DEF TruthInv
<1>4. CASE HandleEvent
  BY <1>1, <1>3, <1>4, TruthShown DEF TruthInv
<1>5. CASE UNCHANGED <<ceremonies, activeCeremonyId>>
  <2>1. ASSUME NEW r \in Request PROVE OverlayIsTrue(r)'
    BY <1>1, <1>2, <1>5, NothingUndone DEF TruthInv, OverlayIsTrue
  <2>2. activeCeremonyId' # 0 => Begun(activeCeremonyId)'
    <3>1. activeCeremonyId # 0 => activeCeremonyId \in Request /\ Begun(activeCeremonyId)
      BY <1>1 DEF TruthInv, EngineTypes
    <3>2. activeCeremonyId # 0 => status'[activeCeremonyId] \in {"signing", "broadcast", "failed"}
      BY <1>1, <1>2, <3>1, NothingUndone DEF Begun
    <3> QED
      BY <1>5, <3>2 DEF Begun
  <2> QED
    BY <1>3, <2>1, <2>2 DEF TruthInv
<1> QED
  BY <1>4, <1>5, OverlayMoves

\* Whatever is lost, late or sent again, an event on its way tells what happened
\* on the server, and so does every overlay that events have made.
THEOREM SessionTellsTruth == SessionSpec => []TruthInv
BY TruthInit, TruthNext, SessionAnswers, SessionTyped, PTL DEF SessionSpec
=============================================================================
