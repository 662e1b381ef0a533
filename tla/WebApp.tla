------------------------------- MODULE WebApp -------------------------------
(***************************************************************************)
(* The plain JavaScript front end, web/app.js.  Nothing renders by itself: *)
(* each handler calls the render functions it needs, and the buttons act   *)
(* on what was rendered last.                                              *)
(***************************************************************************)
EXTENDS WebScreens

VARIABLE
  phones  \* the innerHTML of #phones or #signer-app, per signer shown

vars == <<serverVars, feedVars, sessionVars, phones>>

-----------------------------------------------------------------------------
TypeOK ==
  /\ SessionTypeOK
  /\ DOMAIN phones = OnScreen

\* boot renders the empty state.
Init == SessionInit /\ phones = renderPhones

\* Mutant of Render: nothing is done while the lists are the same.
RenderNewLists ==
  phones' = IF requests' = requests /\ signers' = signers THEN phones ELSE renderPhones'

Render == phones' = renderPhones'
Keep == UNCHANGED phones

\* onmessage: both kinds of handler render the phones.
onEvent == HandleEvent /\ Render

refreshRequests(a) == TakeRequests(a) /\ Render

refreshSigners(a) == TakeSigners(a) /\ Render

revivalEnds(f) == EndRevival(f) /\ Render

\* onPhoneClick: the button that is on the screen.
clicked(s, button) == s \in OnScreen /\ button \in phones[s].offers

decide(s, r, d) == clicked(s, <<d, r>>) /\ EnterDecision(s, r, d) /\ Render

\* Past the await nothing is rendered, not even after the rollback.
decided(c) == (DecisionTaken(c) \/ DecisionFailed(c)) /\ Keep

markLost(s) == clicked(s, <<"lost", 0>>) /\ ReportLost(s) /\ Keep

markedLost(c) == (LostTaken(c) /\ Render) \/ (LostFailed(c) /\ Keep)

\* Mutant of repairSigner: the phones are rendered after the call only.
repairSignerLate(s) == clicked(s, <<"repair", 0>>) /\ AskRepair(s) /\ Keep

repairSigner(s) == clicked(s, <<"repair", 0>>) /\ AskRepair(s) /\ Render

repairAnswered(c) == (RepairTaken(c) /\ Keep) \/ (RepairFailed(c) /\ Render)

\* submitRequest: with the reader's token, Alice's on the desktop.
submitRequest == SubmitRequest(ReadToken) /\ Keep

submitted(c) == (RequestCreated(c) \/ RequestRefused(c)) /\ Keep

Answered(c) == decided(c) \/ markedLost(c) \/ repairAnswered(c) \/ submitted(c)

onPhoneClick ==
  \E s \in Signer : \/ \E r \in Request, d \in {"approve", "reject"} : decide(s, r, d)
                    \/ markLost(s)
                    \/ repairSigner(s)

Next ==
  \/ onEvent
  \/ \E a \in answers : refreshRequests(a) \/ refreshSigners(a)
  \/ \E f \in timers : revivalEnds(f)
  \/ onPhoneClick
  \/ submitRequest
  \/ \E c \in calls : Answered(c)
  \/ Network /\ Keep

Spec == Init /\ [][Next]_vars

\* As for Dashboard: the browser and the server go on, nobody has to click.
FairSpec ==
  /\ Spec
  /\ WF_vars((PollRequests /\ Keep) \/ \E a \in answers : refreshRequests(a))
  /\ WF_vars((PollSigners /\ Keep) \/ \E a \in answers : refreshSigners(a))
  /\ WF_vars(StreamUp /\ Keep)
  /\ WF_vars(onEvent)
  /\ WF_vars(\E f \in timers : revivalEnds(f))
  /\ WF_vars(\E c \in calls : (AnswerCall(c) /\ Keep) \/ Answered(c))
  /\ WF_vars(Server /\ Keep)

-----------------------------------------------------------------------------
\* A button on a screen that is out of date is one that an up to date screen
\* would show as well: a click never acts on a state that is gone.
OfferedIsAllowed == \A s \in OnScreen : phones[s].offers \subseteq renderPhones[s].offers

\* The screen is out of date after a rollback, but not for good while the
\* reader's token works: the polls render it again.
ScreenCatchesUp == <>[]TokenWorks(ReadToken) => []<>(phones = renderPhones)

\* "recovery.lost just flags the loss (poll shows it)" (app.js:337-338): a signer
\* who stays lost is shown as down by whatever screen shows that signer.
PollShowsLoss ==
  \A s \in Signer :
    <>[](registry[s] = "lost") => <>(s \in OnScreen => phones[s].screen # "queue")
=============================================================================
