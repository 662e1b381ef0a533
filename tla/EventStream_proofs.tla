------------------------- MODULE EventStream_proofs -------------------------
(***************************************************************************)
(* For any number of subscriptions, events and faults and any capacity:    *)
(* one stream at a time, events handled in order and once, and the whole   *)
(* an implementation of Feed.                                              *)
(***************************************************************************)
EXTENDS EventStream, TLAPS

USE EventStreamAssumption

\* The types again, without the bound on the queues.
Types ==
  /\ mounts \in Sub
  /\ pc \in [Sub -> {"none", "asking", "answered", "refused", "opening", "open", "broken",
                     "waiting", "ended"}]
  /\ queue \in [Sub -> Seq(1..Events)]
  /\ published \in 0..Events /\ handled \in 0..Events

\* Subscriptions to come have not begun, and only an open stream, the latest
\* subscription's, has events.
StreamInv ==
  /\ Types
  /\ OneStream
  /\ \A s \in Sub : s > mounts => pc[s] = "none"
  /\ \A s \in Sub : pc[s] # "open" => queue[s] = <<>>

LEMMA StreamInit == Init => StreamInv
BY DEF Init, StreamInv, Types, OneStream, Sub

LEMMA PushType ==
  ASSUME NEW q \in Seq(1..Events), NEW e \in 1..Events
  PROVE  Push(q, e) \in Seq(1..Events)
<1>1. CASE Len(q) < Cap
  BY <1>1 DEF Push
<1>2. CASE ~(Len(q) < Cap)
  <2>1. q # <<>>
    BY <1>2
  <2>2. Tail(q) \in Seq(1..Events)
    BY <2>1
  <2> QED
    BY <1>2, <2>2 DEF Push
<1> QED
  BY <1>1, <1>2

LEMMA StreamNext == StreamInv /\ [Next]_vars => StreamInv'
<1> SUFFICES ASSUME StreamInv, [Next]_vars PROVE StreamInv'
  OBVIOUS
<1> USE DEF StreamInv, Types, OneStream, Sub, Goto, closed
<1>1. CASE UNCHANGED vars
  BY <1>1 DEF vars
<1>2. ASSUME NEW s \in Sub, IssueTicket(s) PROVE StreamInv'
  BY <1>2 DEF IssueTicket
<1>3. ASSUME NEW s \in Sub, RefuseTicket(s) PROVE StreamInv'
  BY <1>3 DEF RefuseTicket
<1>4. ASSUME NEW s \in Sub, OpenSource(s) PROVE StreamInv'
  BY <1>4 DEF OpenSource
<1>5. ASSUME NEW s \in Sub, RetryTicket(s) PROVE StreamInv'
  BY <1>5 DEF RetryTicket
<1>6. ASSUME NEW s \in Sub, Reconnect(s) PROVE StreamInv'
  BY <1>6 DEF Reconnect
<1>7. ASSUME NEW s \in Sub, Redeem(s) PROVE StreamInv'
  BY <1>7 DEF Redeem
<1>8. ASSUME NEW s \in Sub, RedeemRefused(s) PROVE StreamInv'
  BY <1>8 DEF RedeemRefused
<1>9. ASSUME NEW s \in Sub, OnError(s) PROVE StreamInv'
  BY <1>9 DEF OnError
<1>10. ASSUME NEW s \in Sub, OnMessage(s) PROVE StreamInv'
  <2>1. Head(queue[s]) \in 1..Events /\ Tail(queue[s]) \in Seq(1..Events)
    BY <1>10 DEF OnMessage
  <2> QED
    BY <1>10, <2>1 DEF OnMessage
<1>11. ASSUME NEW s \in Sub, LoseTicket(s) PROVE StreamInv'
  BY <1>11 DEF LoseTicket
<1>12. ASSUME NEW s \in Sub, Expire(s) PROVE StreamInv'
  BY <1>12 DEF Expire
<1>13. ASSUME NEW s \in Sub, Drop(s) PROVE StreamInv'
  <2>1. s = mounts /\ pc' = [pc EXCEPT ![s] = "broken"]
    BY <1>13 DEF Drop
  <2>2. queue' = [queue EXCEPT ![s] = <<>>]
          /\ UNCHANGED <<mounts, published, handled>>
    BY <1>13 DEF Drop
  <2> QED
    BY <2>1, <2>2
<1>14. CASE Publish
  <2>1. \A s \in Sub : Push(queue[s], published + 1) \in Seq(1..Events)
    BY <1>14, PushType DEF Publish
  <2>2. queue' \in [Sub -> Seq(1..Events)]
    BY <1>14, <2>1 DEF Publish
  <2>3. \A s \in Sub : pc[s] # "open" => queue'[s] = <<>>
    BY <1>14 DEF Publish
  <2>4. published' \in 0..Events /\ UNCHANGED <<mounts, pc, handled>>
    BY <1>14 DEF Publish
  <2> QED
    BY <2>2, <2>3, <2>4
<1>15. CASE Remount
  <2>1. mounts \in Nat /\ mounts + 1 \in Sub /\ mounts' = mounts + 1
    BY <1>15 DEF Remount
  <2>2. pc' \in [Sub -> {"none", "asking", "answered", "refused", "opening", "open", "broken",
                         "waiting", "ended"}]
    BY <1>15 DEF Remount
  <2>3. pc'[mounts] \notin {"opening", "open", "broken"} /\ pc'[mounts + 1] = "asking"
    BY <1>15, <2>1 DEF Remount
  <2>4. \A s \in Sub : s # mounts /\ s # mounts + 1 => pc'[s] = pc[s]
    BY <1>15, <2>1 DEF Remount
  <2>5. OneStream'
    BY <2>1, <2>3, <2>4
  <2>6. \A s \in Sub : s > mounts' => pc'[s] = "none"
    BY <2>1, <2>4
  <2>7. queue' = [queue EXCEPT ![mounts] = <<>>] /\ UNCHANGED <<published, handled>>
    BY <1>15 DEF Remount
  <2>8. \A s \in Sub : pc'[s] # "open" => queue'[s] = <<>>
    BY <2>1, <2>4, <2>7
  <2>9. queue' \in [Sub -> Seq(1..Events)]
    BY <2>7
  <2>10. Types'
    BY <2>1, <2>2, <2>7, <2>9
  <2> HIDE DEF Types, OneStream
  <2> QED
    BY <2>5, <2>6, <2>8, <2>10
<1>16. CASE LoseReader \/ RestoreReader
  BY <1>16 DEF LoseReader, RestoreReader
<1> HIDE DEF StreamInv, Types, OneStream, Sub, Goto, closed
<1> QED
  BY <1>1, <1>2, <1>3, <1>4, <1>5, <1>6, <1>7, <1>8, <1>9, <1>10, <1>11, <1>12, <1>13,
     <1>14, <1>15, <1>16 DEF Next, Connect, Source

\* At most one subscription has an EventSource, the latest, however often the
\* effect runs and whatever its connections meet.
THEOREM OneStreamAlways == Spec => []OneStream
<1>1. StreamInv => OneStream
  BY DEF StreamInv
<1> QED
  BY StreamInit, StreamNext, <1>1, PTL DEF Spec

-----------------------------------------------------------------------------
\* What TypeOK says beyond Types.
RestOK ==
  /\ ticket \in [Sub -> {"none", "valid", "gone"}]
  /\ \A s \in Sub : Len(queue[s]) <= Cap
  /\ since \in 0..Events
  /\ reader \in BOOLEAN
  /\ faults \in 0..Faults

LEMMA PushBounded ==
  ASSUME NEW q \in Seq(1..Events), NEW e, Len(q) <= Cap
  PROVE  Len(Push(q, e)) <= Cap
<1>1. CASE Len(q) < Cap
  BY <1>1 DEF Push
<1>2. CASE ~(Len(q) < Cap)
  <2>1. q # <<>> /\ Len(q) = Cap
    BY <1>2
  <2>2. Tail(q) \in Seq(1..Events) /\ Len(Tail(q)) = Cap - 1
    BY <2>1
  <2>3. Len(Append(Tail(q), e)) = Cap
    BY <2>2
  <2> QED
    BY <1>2, <2>3 DEF Push
<1> QED
  BY <1>1, <1>2

LEMMA RestInit == Init => RestOK
BY DEF Init, RestOK, Sub

LEMMA RestNext == StreamInv /\ RestOK /\ [Next]_vars => RestOK'
<1> SUFFICES ASSUME StreamInv, RestOK, [Next]_vars PROVE RestOK'
  OBVIOUS
<1>t. /\ mounts \in Sub /\ published \in 0..Events
      /\ queue \in [Sub -> Seq(1..Events)]
  BY DEF StreamInv, Types
<1>e. Len(<<>>) <= Cap
  OBVIOUS
<1>1. ASSUME NEW s \in Sub, Connect(s) \/ RedeemRefused(s) \/ OnError(s) PROVE RestOK'
  BY <1>1 DEF Connect, IssueTicket, RefuseTicket, OpenSource, RetryTicket, Reconnect,
              RedeemRefused, OnError, RestOK
<1>2. ASSUME NEW s \in Sub, Redeem(s) PROVE RestOK'
  BY <1>2, <1>t, <1>e DEF Redeem, RestOK
<1>3. ASSUME NEW s \in Sub, LoseTicket(s) \/ Expire(s) PROVE RestOK'
  BY <1>3 DEF LoseTicket, Expire, Fault, RestOK
<1>4. ASSUME NEW s \in Sub, Drop(s) PROVE RestOK'
  BY <1>4, <1>t, <1>e DEF Drop, Fault, RestOK
<1>5. ASSUME NEW s \in Sub, OnMessage(s) PROVE RestOK'
  <2>1. queue[s] # <<>> /\ queue[s] \in Seq(1..Events) /\ Len(queue[s]) <= Cap
    BY <1>5, <1>t DEF OnMessage, RestOK
  <2>2. Len(Tail(queue[s])) <= Cap
    BY <2>1
  <2> QED
    BY <1>5, <1>t, <2>2 DEF OnMessage, RestOK
<1>6. CASE Publish
  <2>1. \A s \in Sub : Len(Push(queue[s], published + 1)) <= Cap
    BY <1>t, PushBounded DEF RestOK
  <2> QED
    BY <1>6, <2>1 DEF Publish, RestOK
<1>7. CASE Remount
  <2>1. queue' = [queue EXCEPT ![mounts] = <<>>]
    BY <1>7 DEF Remount
  <2>2. \A s \in Sub : Len(queue'[s]) <= Cap
    BY <1>t, <1>e, <2>1 DEF RestOK
  <2> QED
    BY <1>7, <2>2 DEF Remount, RestOK
<1>8. CASE LoseReader
  <2>1. faults > 0 /\ faults' = faults - 1 /\ reader' = FALSE
          /\ UNCHANGED <<ticket, queue, since>>
    BY <1>8, Zenon DEF LoseReader, Fault
  <2>2. faults' \in 0..Faults
    BY <2>1 DEF RestOK
  <2>3. reader' \in BOOLEAN
    BY <2>1, Zenon
  <2> QED
    BY <2>1, <2>2, <2>3 DEF RestOK
<1>9. CASE RestoreReader
  <2>1. reader' \in BOOLEAN
    BY <1>9 DEF RestoreReader
  <2> QED
    BY <1>9, <2>1 DEF RestoreReader, RestOK
<1>10. CASE UNCHANGED vars
  BY <1>10 DEF vars, RestOK
<1> QED
  BY <1>1, <1>2, <1>3, <1>4, <1>5, <1>6, <1>7, <1>8, <1>9, <1>10 DEF Next, Source

\* Every variable keeps its type, and no stream holds more than the channel does.
THEOREM TypesHold == Spec => []TypeOK
<1>1. StreamInv /\ RestOK => TypeOK
  BY DEF StreamInv, Types, RestOK, TypeOK
<1> QED
  BY StreamInit, StreamNext, RestInit, RestNext, <1>1, PTL DEF Spec

-----------------------------------------------------------------------------
\* The events of q are after h, in order, and n is the last of them at most.
Ordered(q, h, n) ==
  /\ h <= n
  /\ \A i \in 1..Len(q) : h < q[i] /\ q[i] <= n
  /\ \A i, j \in 1..Len(q) : i < j => q[i] < q[j]

\* What is on the latest stream came after what was handled, in order.
OrderInv == Ordered(queue[mounts], handled, published)

LEMMA OrderedEmpty ==
  ASSUME NEW h, NEW n, h <= n
  PROVE  Ordered(<<>>, h, n)
BY DEF Ordered

LEMMA OrderedTail ==
  ASSUME NEW q \in Seq(Nat), NEW h \in Nat, NEW n \in Nat, Ordered(q, h, n), q # <<>>
  PROVE  /\ Tail(q) \in Seq(Nat)
         /\ h < Head(q) /\ Head(q) \in Nat
         /\ Ordered(Tail(q), h, n) /\ Ordered(Tail(q), Head(q), n)
<1> DEFINE t == Tail(q)
<1>1. t \in Seq(Nat) /\ Len(t) = Len(q) - 1 /\ Len(q) \in Nat /\ Len(q) >= 1
  BY SMT
<1>2. \A i \in 1..Len(t) : t[i] = q[i + 1] /\ i + 1 \in 1..Len(q) /\ i \in Nat
  BY <1>1
<1>3. Head(q) = q[1] /\ 1 \in 1..Len(q) /\ \A i \in 1..Len(q) : q[i] \in Nat
  BY <1>1
<1>4. \A i \in 1..Len(t) : h < t[i] /\ t[i] <= n /\ q[1] < t[i]
  BY <1>2, <1>3 DEF Ordered
<1>5. ASSUME NEW i \in 1..Len(t), NEW j \in 1..Len(t), i < j PROVE t[i] < t[j]
  <2>1. i + 1 < j + 1
    BY <1>2, <1>5
  <2> QED
    BY <1>2, <2>1 DEF Ordered
<1>6. q[1] <= n /\ h < q[1] /\ h <= n
  BY <1>3 DEF Ordered
<1> HIDE DEF t
<1>7. Ordered(t, h, n) /\ Ordered(t, q[1], n)
  BY <1>4, <1>5, <1>6 DEF Ordered
<1> QED
  BY <1>1, <1>3, <1>6, <1>7 DEF t

LEMMA OrderedAppend ==
  ASSUME NEW q \in Seq(Nat), NEW h \in Nat, NEW n \in Nat, Ordered(q, h, n)
  PROVE  Ordered(Append(q, n + 1), h, n + 1)
<1> DEFINE p == Append(q, n + 1)
<1>1. Len(p) = Len(q) + 1 /\ Len(q) \in Nat /\ p[Len(q) + 1] = n + 1
  OBVIOUS
<1>2. \A i \in 1..Len(q) : p[i] = q[i] /\ q[i] \in Nat
  OBVIOUS
<1> HIDE DEF p
<1>3. \A i \in 1..Len(p) : i \in Nat /\ (i \in 1..Len(q) \/ i = Len(q) + 1)
  BY <1>1
<1>4. \A i \in 1..Len(p) : h < p[i] /\ p[i] <= n + 1
  BY <1>1, <1>2, <1>3 DEF Ordered
<1>5. ASSUME NEW i \in 1..Len(p), NEW j \in 1..Len(p), i < j PROVE p[i] < p[j]
  <2>1. i \in 1..Len(q)
    BY <1>1, <1>5
  <2>2. CASE j \in 1..Len(q)
    BY <1>2, <1>5, <2>1, <2>2 DEF Ordered
  <2>3. CASE j = Len(q) + 1
    BY <1>1, <1>2, <2>1, <2>3 DEF Ordered
  <2> QED
    BY <1>3, <2>2, <2>3
<1>6. h <= n + 1
  BY DEF Ordered
<1>7. Ordered(p, h, n + 1)
  BY <1>4, <1>5, <1>6 DEF Ordered
<1> QED
  BY <1>7 DEF p

\* An event more than the last keeps the order, whether the oldest goes or not.
LEMMA OrderedPush ==
  ASSUME NEW q \in Seq(Nat), NEW h \in Nat, NEW n \in Nat, Ordered(q, h, n)
  PROVE  Ordered(Push(q, n + 1), h, n + 1)
<1>1. CASE Len(q) < Cap
  BY <1>1, OrderedAppend DEF Push
<1>2. CASE ~(Len(q) < Cap)
  <2>1. q # <<>>
    BY <1>2
  <2>2. Tail(q) \in Seq(Nat) /\ Ordered(Tail(q), h, n)
    BY <2>1, OrderedTail
  <2>3. Ordered(Append(Tail(q), n + 1), h, n + 1)
    BY <2>2, OrderedAppend
  <2> QED
    BY <1>2, <2>3 DEF Push
<1> QED
  BY <1>1, <1>2

LEMMA OrderInit == Init => OrderInv
<1> SUFFICES ASSUME Init PROVE OrderInv
  OBVIOUS
<1>1. queue[mounts] = <<>> /\ handled = 0 /\ published = 0
  BY DEF Init, Sub
<1> QED
  BY <1>1, OrderedEmpty DEF OrderInv

LEMMA OrderNext == StreamInv /\ OrderInv /\ [Next]_vars => OrderInv'
<1> SUFFICES ASSUME StreamInv, OrderInv, [Next]_vars PROVE OrderInv'
  OBVIOUS
<1>t. mounts \in Nat /\ queue \in [Sub -> Seq(1..Events)] /\ mounts \in Sub
        /\ published \in Nat /\ handled \in Nat
  BY DEF StreamInv, Types, Sub
<1>q. queue[mounts] \in Seq(1..Events) /\ queue[mounts] \in Seq(Nat)
  BY <1>t
<1>o. Ordered(queue[mounts], handled, published) /\ handled <= published
  BY DEF OrderInv, Ordered
<1>1. CASE UNCHANGED <<mounts, queue, published, handled>>
  BY <1>1, <1>o DEF OrderInv
<1>2. CASE queue'[mounts'] = <<>> /\ UNCHANGED <<published, handled>>
  BY <1>2, <1>o, OrderedEmpty DEF OrderInv
<1>3. ASSUME NEW s \in Sub, OnMessage(s) PROVE OrderInv'
  <2>1. s = mounts
    BY <1>3 DEF OnMessage, StreamInv, OneStream
  <2>2. queue[mounts] # <<>> /\ handled' = Head(queue[mounts])
          /\ queue'[mounts'] = Tail(queue[mounts]) /\ published' = published
    BY <1>3, <1>t, <2>1 DEF OnMessage
  <2>3. Ordered(Tail(queue[mounts]), Head(queue[mounts]), published)
    BY <1>t, <1>q, <1>o, <2>2, OrderedTail
  <2> QED
    BY <2>2, <2>3 DEF OrderInv
<1>4. CASE Publish
  <2>1. published' = published + 1 /\ handled' = handled /\ mounts' = mounts
    BY <1>4 DEF Publish
  <2>2. CASE pc[mounts] # "open"
    <3>1. queue'[mounts'] = <<>>
      BY <1>4, <1>t, <2>1, <2>2 DEF Publish, StreamInv
    <3>2. handled <= published + 1
      BY <1>t, <1>o
    <3> QED
      BY <2>1, <3>1, <3>2, OrderedEmpty DEF OrderInv
  <2>3. CASE pc[mounts] = "open"
    <3>1. queue'[mounts'] = Push(queue[mounts], published + 1)
      BY <1>4, <1>t, <2>1, <2>3 DEF Publish
    <3>2. Ordered(Push(queue[mounts], published + 1), handled, published + 1)
      BY <1>t, <1>q, <1>o, OrderedPush
    <3> QED
      BY <2>1, <3>1, <3>2 DEF OrderInv
  <2> QED
    BY <2>2, <2>3
<1>5. ASSUME NEW s \in Sub, Redeem(s) \/ Drop(s) PROVE OrderInv'
  <2>1. s = mounts
    BY <1>5 DEF Redeem, Drop, Goto, StreamInv, OneStream
  <2> QED
    BY <1>2, <1>5, <1>t, <2>1 DEF Redeem, Drop
<1>6. CASE Remount
  <2>1. mounts + 1 \in Sub /\ pc[mounts + 1] = "none"
    BY <1>6, <1>t DEF Remount, StreamInv, Sub
  <2>2. queue[mounts + 1] = <<>>
    BY <2>1 DEF StreamInv
  <2> QED
    BY <1>2, <1>6, <1>t, <2>1, <2>2 DEF Remount
<1>7. ASSUME NEW s \in Sub,
             \/ Connect(s) \/ RedeemRefused(s) \/ OnError(s) \/ LoseTicket(s) \/ Expire(s)
      PROVE  OrderInv'
  BY <1>1, <1>7 DEF Connect, IssueTicket, RefuseTicket, OpenSource, RetryTicket, Reconnect,
                    RedeemRefused, OnError, LoseTicket, Expire
<1>8. CASE LoseReader \/ RestoreReader \/ UNCHANGED vars
  BY <1>1, <1>8 DEF LoseReader, RestoreReader, vars
<1> QED
  BY <1>3, <1>4, <1>5, <1>6, <1>7, <1>8 DEF Next, Source

\* Each event is handled at most once and in the order they were sent, through
\* lag, reconnections and new subscriptions.
THEOREM EventsInOrder == Spec => HandledInOrder
<1>1. StreamInv /\ OrderInv /\ [Next]_vars
        => [\A s \in Sub : OnMessage(s) => handled' > handled]_vars
  <2> SUFFICES ASSUME StreamInv, OrderInv, NEW s \in Sub, OnMessage(s)
               PROVE  handled' > handled
    OBVIOUS
  <2>1. s = mounts /\ queue[s] # <<>> /\ handled' = Head(queue[s])
    BY DEF OnMessage, StreamInv, OneStream
  <2>2. queue[s] \in Seq(Nat) /\ handled \in Nat /\ published \in Nat
    BY DEF StreamInv, Types
  <2>3. handled < Head(queue[s])
    BY <2>1, <2>2, OrderedTail DEF OrderInv
  <2> QED
    BY <2>1, <2>3
<1> QED
  BY StreamInit, StreamNext, OrderInit, OrderNext, <1>1, PTL DEF Spec, HandledInOrder

-----------------------------------------------------------------------------
\* Steps that the feed does not see: neither the stream of the latest
\* subscription nor what is on it changes.
LEMMA Unseen ==
  ASSUME pc'[mounts'] = "open" <=> pc[mounts] = "open",
         queue'[mounts'] = queue[mounts]
  PROVE  UNCHANGED TheFeed!feedVars
BY DEF TheFeed!feedVars

\* The stream of the latest subscription ends, if it was open.
LEMMA Ends ==
  ASSUME StreamInv, pc'[mounts'] # "open", queue'[mounts'] = <<>>
  PROVE  TheFeed!HangUp \/ UNCHANGED TheFeed!feedVars
<1>1. CASE pc[mounts] = "open"
  BY <1>1 DEF TheFeed!HangUp
<1>2. CASE pc[mounts] # "open"
  <2>1. queue[mounts] = <<>>
    BY <1>2 DEF StreamInv, Types
  <2> QED
    BY <1>2, <2>1, Unseen
<1> QED
  BY <1>1, <1>2

\* Each step is one of the feed or none.
LEMMA FeedStep ==
  StreamInv /\ [Next]_vars => [TheFeed!FeedNext(1..Events)]_(TheFeed!feedVars)
<1> SUFFICES ASSUME StreamInv, [Next]_vars
             PROVE  TheFeed!FeedNext(1..Events) \/ UNCHANGED TheFeed!feedVars
  OBVIOUS
<1>t. /\ mounts \in Nat /\ mounts \in Sub /\ published \in Nat
      /\ queue \in [Sub -> Seq(1..Events)]
      /\ pc \in [Sub -> {"none", "asking", "answered", "refused", "opening", "open", "broken",
                         "waiting", "ended"}]
  BY DEF StreamInv, Types, Sub
<1>1. ASSUME NEW s \in Sub, NEW from, NEW to, Goto(s, from, to), from # "open", to # "open",
             UNCHANGED <<mounts, queue>>
      PROVE  UNCHANGED TheFeed!feedVars
  <2>1. pc'[mounts] = "open" <=> pc[mounts] = "open"
    BY <1>1, <1>t DEF Goto
  <2> QED
    BY <1>1, <2>1, Unseen
<1>2. ASSUME NEW s \in Sub, Connect(s) PROVE UNCHANGED TheFeed!feedVars
  BY <1>1, <1>2 DEF Connect, IssueTicket, RefuseTicket, OpenSource, RetryTicket, Reconnect
<1>3. ASSUME NEW s \in Sub, RedeemRefused(s) \/ OnError(s) \/ LoseTicket(s)
      PROVE  UNCHANGED TheFeed!feedVars
  BY <1>1, <1>3 DEF RedeemRefused, OnError, LoseTicket
<1>4. ASSUME NEW s \in Sub, Redeem(s) PROVE TheFeed!Subscribe
  <2>1. s = mounts /\ pc[s] = "opening"
    BY <1>4 DEF Redeem, Goto, StreamInv, OneStream
  <2>2. pc'[mounts'] = "open" /\ queue'[mounts'] = <<>>
    BY <1>4, <1>t, <2>1 DEF Redeem, Goto
  <2> QED
    BY <2>1, <2>2 DEF TheFeed!Subscribe
<1>5. ASSUME NEW s \in Sub, OnMessage(s) PROVE TheFeed!Receive
  <2>1. s = mounts
    BY <1>5 DEF OnMessage, StreamInv, OneStream
  <2>2. pc[mounts] = "open" /\ queue[mounts] # <<>> /\ pc'[mounts'] = pc[mounts]
          /\ queue'[mounts'] = Tail(queue[mounts])
    BY <1>5, <1>t, <2>1 DEF OnMessage
  <2> QED
    BY <2>2 DEF TheFeed!Receive
<1>6. ASSUME NEW s \in Sub, Drop(s) PROVE TheFeed!HangUp \/ UNCHANGED TheFeed!feedVars
  <2>1. s = mounts
    BY <1>6 DEF Drop, Goto, StreamInv, OneStream
  <2>2. pc'[mounts'] # "open" /\ queue'[mounts'] = <<>>
    BY <1>6, <1>t, <2>1 DEF Drop, Goto
  <2> QED
    BY <2>2, Ends
<1>7. CASE Publish
  <2>1. mounts' = mounts /\ pc' = pc /\ published + 1 \in 1..Events
    BY <1>7, <1>t DEF Publish
  <2>2. CASE pc[mounts] = "open"
    <3>1. queue'[mounts] = Push(queue[mounts], published + 1)
      BY <1>7, <1>t, <2>2 DEF Publish
    <3>2. queue'[mounts'] = TheFeed!Push(queue[mounts], published + 1)
      BY <2>1, <3>1 DEF Push, TheFeed!Push
    <3>3. TheFeed!Publish(published + 1)
      BY <2>1, <2>2, <3>2 DEF TheFeed!Publish
    <3> QED
      BY <2>1, <3>3 DEF TheFeed!FeedNext
  <2>3. CASE pc[mounts] # "open"
    <3>1. queue'[mounts] = queue[mounts]
      BY <1>7, <1>t, <2>3 DEF Publish
    <3> QED
      BY <2>1, <3>1, Unseen
  <2> QED
    BY <2>2, <2>3
<1>8. CASE Remount
  <2>1. mounts + 1 \in Sub /\ mounts' = mounts + 1 /\ pc[mounts + 1] = "none"
    BY <1>8, <1>t DEF Remount, StreamInv, Sub
  <2>2. pc'[mounts'] = "asking" /\ queue'[mounts'] = queue[mounts + 1]
    BY <1>8, <1>t, <2>1 DEF Remount
  <2>3. queue[mounts + 1] = <<>>
    BY <2>1 DEF StreamInv
  <2>4. pc'[mounts'] # "open"
    BY <2>2
  <2>5. queue'[mounts'] = <<>>
    BY <2>2, <2>3
  <2>6. TheFeed!HangUp \/ UNCHANGED TheFeed!feedVars
    BY <2>4, <2>5, Ends
  <2> QED
    BY <2>6 DEF TheFeed!FeedNext
<1>9. ASSUME NEW s \in Sub, Expire(s) PROVE UNCHANGED TheFeed!feedVars
  BY <1>9, Unseen DEF Expire
<1>10. CASE LoseReader \/ RestoreReader \/ UNCHANGED vars
  BY <1>10, Unseen DEF LoseReader, RestoreReader, vars
<1> QED
  BY <1>2, <1>3, <1>4, <1>5, <1>6, <1>7, <1>8, <1>9, <1>10
     DEF Next, Source, TheFeed!FeedNext

\* Tickets, retries and new subscriptions are, to the engine, one feed that goes
\* up and down and loses old events: what Backend and Session assume of it.
THEOREM StreamImplementsFeed == Spec => ImplementsFeed
<1>1. Init => TheFeed!FeedInit
  BY DEF Init, TheFeed!FeedInit, Sub
<1> QED
  BY StreamInit, StreamNext, FeedStep, <1>1, PTL DEF Spec, ImplementsFeed
=============================================================================
