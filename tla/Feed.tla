-------------------------------- MODULE Feed --------------------------------
(***************************************************************************)
(* The live event feed as one dashboard gets it: a stream that is up or    *)
(* not, and the events sent on it that the dashboard has not handled.      *)
(* EventStream implements it with tickets, EventSources and retries.       *)
(***************************************************************************)
EXTENDS Naturals, Sequences

CONSTANT Cap  \* what the broadcast channel holds for a slow reader (256)

ASSUME CapAssumption == Cap \in Nat \ {0}

VARIABLES
  live,  \* a stream is subscribed to the server's broadcast channel
  inbox  \* its events not handled yet, the oldest first

feedVars == <<live, inbox>>

FeedInit == live = FALSE /\ inbox = <<>>

\* Mutant of Push: nothing is ever dropped.
PushAlways(q, e) == Append(q, e)

\* A reader that lags loses the oldest event; BroadcastStream reports the loss
\* and filter_map(|msg| msg.ok()) drops the report.
Push(q, e) == IF Len(q) < Cap THEN Append(q, e) ELSE Append(Tail(q), e)

\* st.events.send: events reach the stream that is up, and are kept for no other.
Publish(e) ==
  /\ inbox' = IF live THEN Push(inbox, e) ELSE inbox
  /\ UNCHANGED live

\* sse_events past its checks: the stream starts with what is sent from now on.
Subscribe == ~live /\ live' = TRUE /\ inbox' = <<>>

Receive == live /\ inbox # <<>> /\ inbox' = Tail(inbox) /\ UNCHANGED live

\* The connection is lost or closed, with what was still on its way.
HangUp == live /\ live' = FALSE /\ inbox' = <<>>

FeedNext(Event) == Subscribe \/ Receive \/ HangUp \/ \E e \in Event : Publish(e)
=============================================================================
