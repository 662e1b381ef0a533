------------------------------ MODULE Dashboard ------------------------------
(***************************************************************************)
(* The React front end.  commit() publishes the engine after every change, *)
(* so the screen shows the engine, with one exception: activeCeremony is   *)
(* memoised on the id it is about, on the request list and on the map of   *)
(* the overlays, and the map is one object changed in place.               *)
(***************************************************************************)
EXTENDS Screens

VARIABLE activeCeremony  \* the memoised value, as the strip and the panels get it

vars == <<serverVars, feedVars, sessionVars, activeCeremony>>

TypeOK ==
  /\ SessionTypeOK
  /\ activeCeremony \in [id : Request \cup {0}, reached : 0..Len(CEREMONY_ORDER),
                         failed : BOOLEAN, finished : BOOLEAN, latest : Latest]

Init == SessionInit /\ activeCeremony = NoActive

\* Mutant of Render: the memo depends on the request list only.
RenderOnListOnly == activeCeremony' = activeCeremony

\* The render after a commit that left the request list alone.
Render ==
  activeCeremony' = IF activeCeremonyId' # activeCeremonyId THEN ActiveCeremony'
                    ELSE activeCeremony

OnEvent == HandleEvent /\ Render

\* Mutant of RefreshRequests: the memo does not depend on the request list.
RefreshRequestsForgotten(a) == TakeRequests(a) /\ Render

\* A new list is a new array, and the memo is computed again.
RefreshRequests(a) == TakeRequests(a) /\ activeCeremony' = ActiveCeremony'

RefreshSigners(a) == TakeSigners(a) /\ Render

RevivalEnds(f) == EndRevival(f) /\ Render

Offered(s, button) == s \in OnScreen /\ button \in Screen(s, activeCeremony).offers

Decide(s, r, d) == Offered(s, <<d, r>>) /\ EnterDecision(s, r, d) /\ Render

\* The dialog that asks for confirmation goes with the button it belongs to.
MarkLost(s) == Offered(s, <<"lost", 0>>) /\ ReportLost(s) /\ Render

Repair(s) == Offered(s, <<"repair", 0>>) /\ AskRepair(s) /\ Render

\* Requests are created with Bob's token.
Proposer == First(Signer \ {First(Signer)})

CreateRequest == SubmitRequest(Proposer) /\ Render

CallAnswered(c) ==
  /\ \/ DecisionTaken(c) \/ DecisionFailed(c)
     \/ LostTaken(c) \/ LostFailed(c)
     \/ RepairTaken(c) \/ RepairFailed(c)
     \/ RequestCreated(c) \/ RequestRefused(c)
  /\ Render

Click ==
  \/ \E s \in Signer : \/ \E r \in Request, d \in {"approve", "reject"} : Decide(s, r, d)
                       \/ MarkLost(s)
                       \/ Repair(s)
  \/ CreateRequest

Next ==
  \/ OnEvent
  \/ \E a \in answers : RefreshRequests(a) \/ RefreshSigners(a)
  \/ \E f \in timers : RevivalEnds(f)
  \/ Click
  \/ \E c \in calls : CallAnswered(c)
  \/ Network /\ Render

Spec == Init /\ [][Next]_vars

\* The browser's timers, promises and events come up, polls and calls are
\* answered unless one of the run's failures hits them, and the server's tasks
\* run.  Nobody has to click.
FairSpec ==
  /\ Spec
  /\ WF_vars((PollRequests /\ Render) \/ \E a \in answers : RefreshRequests(a))
  /\ WF_vars((PollSigners /\ Render) \/ \E a \in answers : RefreshSigners(a))
  /\ WF_vars(StreamUp /\ Render)
  /\ WF_vars(OnEvent)
  /\ WF_vars(\E f \in timers : RevivalEnds(f))
  /\ WF_vars(\E c \in calls : (AnswerCall(c) /\ Render) \/ CallAnswered(c))
  /\ WF_vars(Server /\ Render)

-----------------------------------------------------------------------------
\* An answer a card shows ("you approved", "you rejected") is the server's: once
\* the call is over, whether answered, refused or lost on the way, the signer's
\* vote is the one shown.
AnswersAreRecorded ==
  \A s \in Signer, r \in Request :
    \/ votes[r][s] = decisions[s][r]
    \/ decisions[s][r] = "none"
    \/ \E c \in calls : c.op = "decide" /\ c.signer = s /\ c.request = r

\* A card never has two answers under way: the optimistic answer takes the
\* buttons away until the call is over.
OneCallPerCard ==
  \A c, d \in calls :
    c.op = "decide" /\ d.op = "decide" /\ c.signer = d.signer /\ c.request = d.request => c = d

\* The strip follows a ceremony forward: the server says "broadcast" again after
\* "confirmed", and streams reconnect, yet no node goes back and a failure stays.
StripNeverRewinds ==
  [][activeCeremony.id # 0 /\ activeCeremony'.id = activeCeremony.id =>
       /\ activeCeremony'.reached >= activeCeremony.reached
       /\ activeCeremony.failed => activeCeremony'.failed]_vars

\* What the strip says happened on the server, though its events come late, in
\* part, or from an earlier stream: the request is in its ceremony or past it, one
\* that is said to have failed was not broadcast, and "Complete" is said of one
\* whose broadcast was reported or done. (A database that refuses the task's UPDATE
\* of the status, an error main.rs:461 drops, would leave it behind the strip: see
\* Payments!SettleUnwritten.)
StripIsTrue ==
  LET r == activeCeremony.id IN
  r # 0 =>
    /\ status[r] \in {"signing", "broadcast", "failed"}
    /\ activeCeremony.failed => status[r] # "broadcast"
    /\ activeCeremony.finished =>
         \/ status[r] = "broadcast"
         \/ \E i \in 1..progress[r] : Steps[i] \in {"broadcast", "confirmed"}

\* While the reader's token goes on working, a request that is over on the
\* server is over on the screen, for good: whatever polls are lost or overtake
\* each other, and whatever was shown optimistically meanwhile.
FeedSettles ==
  \A r \in Request :
    <>[]TokenWorks(ReadToken) =>
      [](status[r] \in Final => <>[](requests[r].status = status[r]))

\* The memoised strip lags behind the overlay it shows, but never for good: the
\* polls bring it up to date.
StripCatchesUp ==
  <>[]TokenWorks(ReadToken) => []<>(activeCeremony = ActiveCeremony)

\* A signer who stays lost is shown as down, for good, by a dashboard that reads
\* with another signer's token, whoever reported the loss and wherever.
LossIsShown ==
  \A s \in Signer :
    <>[]TokenWorks(ReadToken) /\ <>[](registry[s] = "lost") =>
      <>[](s \in OnScreen => Down(s))

\* "When recovery finishes you'll be able to approve again"
\* (device-view.tsx:114-116): a signer whose recovery is done gets the queue back,
\* or is lost again.
RecoveryGivesQueueBack ==
  \A s \in Signer :
    task = [signer |-> s, phase |-> "updated"] ~>
      (s \in OnScreen => ~Down(s)) \/ registry[s] = "lost"
=============================================================================
