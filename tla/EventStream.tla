----------------------------- MODULE EventStream -----------------------------
(***************************************************************************)
(* How a dashboard keeps its live event feed: single-use tickets, one      *)
(* EventSource after another, retries, and an effect that may unsubscribe  *)
(* and subscribe anew at any time.  A subscription is one call of          *)
(* subscribeEvents; app.js's connectSSE is one that is never closed.       *)
(* Left out: how long the retries wait, and the connection's indicator.    *)
(***************************************************************************)
EXTENDS Naturals, Sequences

CONSTANTS
  Cap,     \* what the broadcast channel holds for a slow reader
  Mounts,  \* times the effect runs
  Events,  \* events the server publishes
  Faults   \* connections lost, tickets expired and readers marked lost, together

ASSUME EventStreamAssumption ==
  /\ Cap \in Nat \ {0} /\ Mounts \in Nat \ {0} /\ Events \in Nat /\ Faults \in Nat

VARIABLES
  mounts,     \* the latest subscription; the earlier ones are closed
  pc,         \* where each subscription's connect() is
  ticket,     \* the ticket it was given last
  queue,      \* events on its stream that are not handled yet
  published,  \* events sent so far; the events are numbered
  handled,    \* the last event handed to onEvent, 0 for none
  since,      \* what had been published when the latest stream was subscribed
  reader,     \* the reader's token works
  faults      \* failures left to this run

vars == <<mounts, pc, ticket, queue, published, handled, since, reader, faults>>

Sub == 1..Mounts

closed(s) == s < mounts

TypeOK ==
  /\ mounts \in Sub
  /\ pc \in [Sub -> {"none", "asking", "answered", "refused", "opening", "open", "broken",
                     "waiting", "ended"}]
  /\ ticket \in [Sub -> {"none", "valid", "gone"}]
  /\ queue \in [Sub -> Seq(1..Events)] /\ \A s \in Sub : Len(queue[s]) <= Cap
  /\ published \in 0..Events /\ handled \in 0..Events /\ since \in 0..Events
  /\ reader \in BOOLEAN
  /\ faults \in 0..Faults

\* subscribeEvents calls connect at once, which asks for a ticket.
Init ==
  /\ mounts = 1
  /\ pc = [s \in Sub |-> IF s = 1 THEN "asking" ELSE "none"]
  /\ ticket = [s \in Sub |-> "none"]
  /\ queue = [s \in Sub |-> <<>>]
  /\ published = 0 /\ handled = 0 /\ since = 0
  /\ reader = TRUE
  /\ faults = Faults

Goto(s, from, to) == pc[s] = from /\ pc' = [pc EXCEPT ![s] = to]

Fault == faults > 0 /\ faults' = faults - 1

-----------------------------------------------------------------------------
\* connect, up to the EventSource.

\* sse_ticket: for a signer who is not lost, valid for a minute.
IssueTicket(s) ==
  /\ reader
  /\ Goto(s, "asking", "answered")
  /\ ticket' = [ticket EXCEPT ![s] = "valid"]
  /\ UNCHANGED <<mounts, queue, published, handled, since, reader, faults>>

RefuseTicket(s) ==
  /\ ~reader
  /\ Goto(s, "asking", "refused")
  /\ UNCHANGED <<mounts, ticket, queue, published, handled, since, reader, faults>>

\* The call fails, before or after the server made a ticket nobody will use.
LoseTicket(s) ==
  /\ Fault
  /\ Goto(s, "asking", "refused") \/ Goto(s, "answered", "refused")
  /\ UNCHANGED <<mounts, ticket, queue, published, handled, since, reader>>

\* Mutant of OpenSource: closed is not looked at again after the await.
OpenSourceAnyway(s) ==
  /\ Goto(s, "answered", "opening")
  /\ UNCHANGED <<mounts, ticket, queue, published, handled, since, reader, faults>>

\* Past the await, unless the subscription was closed meanwhile.
OpenSource(s) ==
  /\ Goto(s, "answered", IF closed(s) THEN "ended" ELSE "opening")
  /\ UNCHANGED <<mounts, ticket, queue, published, handled, since, reader, faults>>

\* The catch: try again later.
RetryTicket(s) ==
  /\ Goto(s, "refused", IF closed(s) THEN "ended" ELSE "waiting")
  /\ UNCHANGED <<mounts, ticket, queue, published, handled, since, reader, faults>>

Reconnect(s) ==
  /\ Goto(s, "waiting", IF closed(s) THEN "ended" ELSE "asking")
  /\ UNCHANGED <<mounts, ticket, queue, published, handled, since, reader, faults>>

-----------------------------------------------------------------------------
\* The EventSource.

\* Mutant of Redeem: the stream begins with the last event that was sent.
RedeemWithBacklog(s) ==
  /\ ticket[s] = "valid"
  /\ Goto(s, "opening", "open")
  /\ ticket' = [ticket EXCEPT ![s] = "gone"]
  /\ queue' = [queue EXCEPT ![s] = IF published > 0 THEN <<published>> ELSE <<>>]
  /\ since' = published
  /\ UNCHANGED <<mounts, published, handled, reader, faults>>

\* sse_events: the ticket is deleted, and the stream has what is sent from now
\* on.  Whether its signer is still active is not asked again.
Redeem(s) ==
  /\ ticket[s] = "valid"
  /\ Goto(s, "opening", "open")
  /\ ticket' = [ticket EXCEPT ![s] = "gone"]
  /\ queue' = [queue EXCEPT ![s] = <<>>]
  /\ since' = published
  /\ UNCHANGED <<mounts, published, handled, reader, faults>>

RedeemRefused(s) ==
  /\ ticket[s] # "valid"
  /\ Goto(s, "opening", "broken")
  /\ UNCHANGED <<mounts, ticket, queue, published, handled, since, reader, faults>>

\* A minute passes before the ticket is used.
Expire(s) ==
  /\ Fault
  /\ ticket[s] = "valid" /\ ticket' = [ticket EXCEPT ![s] = "gone"]
  /\ UNCHANGED <<mounts, pc, queue, published, handled, since, reader>>

\* The connection is lost with the events on it.
Drop(s) ==
  /\ Fault
  /\ Goto(s, "opening", "broken") \/ Goto(s, "open", "broken")
  /\ queue' = [queue EXCEPT ![s] = <<>>]
  /\ UNCHANGED <<mounts, ticket, published, handled, since, reader>>

\* Mutant of OnError: the source is closed and nothing is scheduled.
OnErrorGivesUp(s) ==
  /\ Goto(s, "broken", "ended")
  /\ UNCHANGED <<mounts, ticket, queue, published, handled, since, reader, faults>>

\* onerror: the source is closed, so that the browser does not use the spent
\* ticket again, and connect is called later.
OnError(s) ==
  /\ Goto(s, "broken", IF closed(s) THEN "ended" ELSE "waiting")
  /\ UNCHANGED <<mounts, ticket, queue, published, handled, since, reader, faults>>

OnMessage(s) ==
  /\ pc[s] = "open" /\ queue[s] # <<>>
  /\ handled' = Head(queue[s])
  /\ queue' = [queue EXCEPT ![s] = Tail(@)]
  /\ UNCHANGED <<mounts, pc, ticket, published, since, reader, faults>>

\* Mutant of Push: a reader that lags gets no more until it has caught up.
PushIfRoom(q, e) == IF Len(q) < Cap THEN Append(q, e) ELSE q

\* Mutant of Push: nothing is ever dropped.
PushAlways(q, e) == Append(q, e)

\* The broadcast channel overwrites its oldest event for a reader that lags,
\* and filter_map drops the report of it.
Push(q, e) == IF Len(q) < Cap THEN Append(q, e) ELSE Append(Tail(q), e)

\* st.events.send: to every stream that is subscribed.
Publish ==
  /\ published < Events
  /\ published' = published + 1
  /\ queue' = [s \in Sub |-> IF pc[s] = "open" THEN Push(queue[s], published + 1) ELSE queue[s]]
  /\ UNCHANGED <<mounts, pc, ticket, handled, since, reader, faults>>

-----------------------------------------------------------------------------
\* Mutant of Remount: the cleanup sets closed and leaves the source open.
RemountLeaks ==
  /\ mounts < Mounts
  /\ mounts' = mounts + 1
  /\ pc' = [pc EXCEPT ![mounts + 1] = "asking"]
  /\ UNCHANGED <<ticket, queue, published, handled, since, reader, faults>>

\* The effect runs again, for another reader's token: the cleanup sets closed
\* and closes the source if there is one; what connect awaits goes on.
Remount ==
  /\ mounts < Mounts
  /\ mounts' = mounts + 1
  /\ pc' = [pc EXCEPT ![mounts] = IF @ \in {"opening", "open", "broken"} THEN "ended" ELSE @,
                      ![mounts + 1] = "asking"]
  /\ queue' = [queue EXCEPT ![mounts] = <<>>]
  /\ UNCHANGED <<ticket, published, handled, since, reader, faults>>

\* The reader's signer is marked lost, and recovered.
LoseReader ==
  /\ Fault
  /\ reader /\ reader' = FALSE
  /\ UNCHANGED <<mounts, pc, ticket, queue, published, handled, since>>

RestoreReader ==
  /\ ~reader /\ reader' = TRUE
  /\ UNCHANGED <<mounts, pc, ticket, queue, published, handled, since, faults>>

Connect(s) == IssueTicket(s) \/ RefuseTicket(s) \/ OpenSource(s) \/ RetryTicket(s) \/ Reconnect(s)
Source(s) == Redeem(s) \/ RedeemRefused(s) \/ OnError(s)

Next ==
  \/ \E s \in Sub :
       \/ Connect(s) \/ Source(s) \/ OnMessage(s)
       \/ LoseTicket(s) \/ Expire(s) \/ Drop(s)
  \/ Publish \/ Remount \/ LoseReader \/ RestoreReader

Spec == Init /\ [][Next]_vars

\* The browser runs its timers, promises and events, and the server answers.
FairSpec ==
  Spec /\ \A s \in Sub : WF_vars(Connect(s) \/ Source(s)) /\ WF_vars(OnMessage(s))

-----------------------------------------------------------------------------
\* However subscriptions follow each other, at most one has an EventSource, and
\* only the latest: a subscription closed while it awaits its ticket opens none.
OneStream == \A s \in Sub : pc[s] \in {"opening", "open", "broken"} => s = mounts

\* Every event is handled at most once and after the ones before it, across
\* reconnections and subscriptions.
HandledInOrder == [][\A s \in Sub : OnMessage(s) => handled' > handled]_vars

\* A reader that lags misses old events, never the last one: it is handled, or
\* the stream it was sent on is gone.
NewestIsHandled ==
  \A n \in 1..Events :
    published = n /\ since < n /\ pc[mounts] = "open" ~>
      handled = n \/ published # n \/ pc[mounts] # "open"

\* Whatever failed, a reader whose token works gets a stream in the end and
\* keeps it.
StreamComesBack == <>[]reader => <>[](pc[mounts] = "open")

\* To the engine it is one feed that goes up and down.
TheFeed == INSTANCE Feed WITH live <- pc[mounts] = "open", inbox <- queue[mounts]
ImplementsFeed ==
  TheFeed!FeedInit /\ [][TheFeed!FeedNext(1..Events)]_(TheFeed!feedVars)
=============================================================================
