---------------------------- MODULE PollerProofs ----------------------------
(***************************************************************************)
(* The live stream's safety for any table, any callers, any page size and  *)
(* any number of restarts.                                                 *)
(***************************************************************************)
EXTENDS Poller, HubProofs

\* Where the poller goroutine is, what it holds, and what it broadcasts.  It
\* is the only caller of broadcast: the hub is busy exactly in the two phases
\* in which poll waits for broadcast to return.
LoopInv ==
    /\ phase \in {"wait", "query"} => pending = {}
    /\ phase \in {"global", "between", "comp"} =>
           cur \in Rows /\ cur.ts = maxTs /\ cur \notin pending
    /\ phase \in {"between", "comp"} => cur.comp # NoComposition
    /\ msg # NoMsg <=> phase \in {"global", "comp"}
    /\ phase = "global" => msg = MessageOf(cur, GlobalTopic)
    /\ phase = "comp" => msg = MessageOf(cur, cur.comp)

\* The rows of a page that are still to come are ahead of the cursor and not
\* before what was published.
CursorInv ==
    /\ phase \notin {"wait", "query"} => lastSeenUnix <= maxTs
    /\ \A r \in pending : lastSeenUnix < r.ts /\ maxTs <= r.ts

\* How far the stream has got: the cursor, or within a poll the newest row
\* its loop has reached.
Front == IF phase \in {"wait", "query"} THEN lastSeenUnix ELSE maxTs

\* Row r may be on the channel of c: c is entitled to it, the stream is past
\* it, poll will not reach it again, and if it is the row that is being
\* published, the broadcast that could send it a second time has passed c or
\* is not on the topic of c.
SentOK(c, r) ==
    /\ r \in Rows
    /\ Entitled(c, r)
    /\ r.ts <= Front
    /\ r \notin pending
    /\ r = cur => /\ phase = "global" => c \notin todo /\ Subscribed(c) = GlobalTopic
                  /\ phase = "between" => Subscribed(c) = GlobalTopic
                  /\ phase = "comp" => c \notin todo \/ Subscribed(c) = GlobalTopic

\* The channel of c holds distinct rows in the order of their timestamps.
ChannelOK(c) ==
    /\ \A i \in 1 .. Len(queue[c]) : SentOK(c, SentRow(c, i))
    /\ \A i, j \in 1 .. Len(queue[c]) :
           i # j => SentRow(c, i) # SentRow(c, j)
    /\ \A i, j \in 1 .. Len(queue[c]) :
           i < j => SentRow(c, i).ts <= SentRow(c, j).ts

StreamInv ==
    \A c \in Conns : /\ pc[c] \in {"off", "connecting"} => queue[c] = <<>>
                     /\ ChannelOK(c)

\* What the query could see and poll has not published is still on the page,
\* or behind everything on a page that LIMIT has cut.
LeftInv ==
    \A r \in left : r.ok =>
        \/ r \in pending
        \/ cut /\ maxTs <= r.ts /\ \A p \in pending : p.ts <= r.ts

PollerInv ==
    /\ HubInv
    /\ PollerTypeOK
    /\ LoopInv
    /\ CursorInv

FullInv ==
    /\ PollerInv
    /\ StreamInv
    /\ LeftInv

-----------------------------------------------------------------------------
\* What poll hands to broadcast is a message of the hub, on either topic.
LEMMA MessageOfIsMessage ==
    ASSUME NEW row \in Rows, NEW t \in Topics
    PROVE  MessageOf(row, t) \in Message
  <1>1. ToSSEK8sEvent(row) \in Payloads
    BY PollerAssumption
  <1>2. row.ns \in Namespaces \cup {NoNamespace}
    BY PollerAssumption DEF ChRow
  <1> QED
    BY <1>1, <1>2 DEF MessageOf, Message

\* The id of a composition is a topic, and not the global one.
LEMMA CompositionIsTopic ==
    ASSUME NEW row \in Rows, row.comp # NoComposition
    PROVE  row.comp \in Topics /\ row.comp # GlobalTopic
  BY PollerAssumption DEF ChRow

\* Every step of the composed system is a step of the hub or leaves the hub
\* alone.
LEMMA StepsOfHub == PollerInv /\ [Next]_vars => [HubNext]_hubVars
  <1> SUFFICES ASSUME PollerInv, [Next]_vars PROVE [HubNext]_hubVars
    OBVIOUS
  <1>1. CASE UNCHANGED vars
    BY <1>1 DEF vars
  <1>2. CASE Clock
    BY <1>2 DEF Clock
  <1>3. ASSUME NEW b \in Batches, Insert(b) PROVE UNCHANGED hubVars
    BY <1>3 DEF Insert
  <1>4. CASE TickerFire
    BY <1>4 DEF TickerFire
  <1>5. ASSUME NEW c \in Conns, Handler(c) PROVE HubNext
    BY <1>5 DEF Handler, HandlerFrame, HubNext
  <1>6. CASE IdleTick \/ PollTick \/ QueryOk \/ QueryFail \/ PollDone
    BY <1>6 DEF IdleTick, PollTick, QueryOk, QueryFail, PollDone
  <1>7. ASSUME NEW r \in Rows, PublishGlobal(r) PROVE HubNext
    <2>1. MessageOf(r, GlobalTopic) \in Message
      BY MessageOfIsMessage, HubAssumption
    <2> QED
      BY <1>7, <2>1 DEF PublishGlobal, HubNext
  <1>8. CASE PublishComp
    <2>1. MessageOf(cur, cur.comp) \in Message
      BY <1>8, MessageOfIsMessage, CompositionIsTopic DEF PublishComp, PollerInv, LoopInv
    <2> QED
      BY <1>8, <2>1 DEF PublishComp, HubNext
  <1>9. ASSUME NEW c \in Conns, BroadcastStep(c) PROVE HubNext
    BY <1>9 DEF BroadcastStep, HubNext
  <1>10. CASE BroadcastReturn
    BY <1>10 DEF BroadcastReturn, HubNext
  <1>11. CASE Restart
    BY <1>11 DEF Restart, HubNext
  <1> QED
    BY <1>1, <1>2, <1>3, <1>4, <1>5, <1>6, <1>7, <1>8, <1>9, <1>10, <1>11
       DEF Next, PollerStep, OwnStep, Answer

-----------------------------------------------------------------------------
\* The type of a timestamp.
LEMMA RowTypes == \A r \in Rows : r.ts \in Nat
  BY PollerAssumption DEF ChRow

\* The type of a cursor set from a tick.
LEMMA LiveCursorIsInt == \A t \in Int : LiveCursor(t) \in Int
  BY PollerAssumption DEF LiveCursor

\* The answer to the query: rows of the table after the cursor.
LEMMA PageRows ==
    ASSUME PollerTypeOK, NEW page \in OldestFirst(Eligible, PollLimit)
    PROVE  /\ page \subseteq Eligible
           /\ Eligible \subseteq Rows
           /\ \A r \in Eligible : lastSeenUnix < r.ts
           /\ \A p \in page, q \in Eligible \ page : p.ts <= q.ts
  <1>1. page \subseteq Eligible /\ \A p \in page, q \in Eligible \ page : p.ts <= q.ts
    BY DEF OldestFirst, Pages
  <1>2. Eligible \subseteq Rows
    BY DEF PollerTypeOK, Eligible
  <1>3. \A r \in Eligible : lastSeenUnix < r.ts
    BY <1>2, RowTypes DEF PollerTypeOK, Eligible
  <1> QED
    BY <1>1, <1>2, <1>3

\* The initial states have the invariant.
LEMMA PollerInvInit == Init => PollerInv
  <1> SUFFICES ASSUME Init PROVE PollerInv
    OBVIOUS
  <1>1. HubInv
    BY HubInvInit DEF Init
  <1>2. LiveCursor(StartTime) \in Int
    BY LiveCursorIsInt, PollerAssumption
  <1>3. NewMetrics \in [eventsDelivered : Nat, eventsDropped : Nat,
                        pollErrors : Nat, boots : Nat]
    BY DEF NewMetrics
  <1>4. PollerTypeOK
    BY <1>1, <1>2, <1>3, PollerAssumption DEF Init, HubInv, PollerTypeOK, Phases
  <1>5. LoopInv /\ CursorInv
    BY DEF Init, HubInit, LoopInv, CursorInv
  <1> QED
    BY <1>1, <1>4, <1>5 DEF PollerInv

\* Clock, collector and ticker keep the invariant.
LEMMA EnvironmentKeepsPollerInv ==
    ASSUME PollerInv, HubInv',
           Clock \/ (\E b \in Batches : Insert(b)) \/ TickerFire
    PROVE  PollerInv'
  <1> USE DEF PollerInv
  <1>1. CASE Clock
    BY <1>1 DEF Clock, HubInv, hubVars, pollVars, histVars, PollerTypeOK, LoopInv, CursorInv
  <1>2. ASSUME NEW b \in Batches, Insert(b) PROVE PollerInv'
    BY <1>2, PollerAssumption
       DEF Insert, HubInv, hubVars, pollVars, histVars, PollerTypeOK, LoopInv, CursorInv
  <1>3. CASE TickerFire
    BY <1>3 DEF TickerFire, HubInv, hubVars, envVars, histVars, PollerTypeOK,
       LoopInv, CursorInv
  <1> QED
    BY <1>1, <1>2, <1>3

\* The handlers leave the poller's state and the broadcast in progress alone.
LEMMA HandlersKeepPollerInv ==
    ASSUME PollerInv, HubInv', NEW c \in Conns, Handler(c)
    PROVE  PollerInv'
  <1> USE DEF PollerInv
  <1>1. UNCHANGED <<msg, todo, tally>>
    BY DEF Handler, HandlerFrame, Connect, Register, HandlerStep, Take, Leave,
       Unregister, CloseChan
  <1>2. UNCHANGED <<pollVars, envVars, left, cut>>
    BY DEF Handler, HandlerFrame, ForgetClosed
  <1>3. published' \subseteq Rows /\ behind' \subseteq Conns
        /\ owed' \in [Conns -> SUBSET Rows]
    BY DEF Handler, HandlerFrame, ForgetClosed, PollerTypeOK
  <1>4. PollerTypeOK'
    BY <1>1, <1>2, <1>3 DEF HubInv, pollVars, envVars, PollerTypeOK
  <1>5. (LoopInv /\ CursorInv)'
    BY <1>1, <1>2 DEF pollVars, LoopInv, CursorInv
  <1> QED
    BY <1>4, <1>5

\* tick, and the query that poll sends.
LEMMA QueryKeepsPollerInv ==
    ASSUME PollerInv, HubInv',
           IdleTick \/ PollTick \/ QueryOk \/ QueryFail
    PROVE  PollerInv'
  <1> USE DEF PollerInv
  <1>1. CASE IdleTick
    <2>1. lastSeenUnix' \in Int
      BY <1>1, LiveCursorIsInt DEF IdleTick, IdleCursor, PollerTypeOK
    <2>2. PollerTypeOK'
      BY <1>1, <2>1 DEF IdleTick, HubInv, envVars, histVars, PollerTypeOK
    <2>3. (LoopInv /\ CursorInv)'
      BY <1>1 DEF IdleTick, hubVars, LoopInv, CursorInv
    <2> QED
      BY <2>2, <2>3
  <1>2. CASE PollTick
    <2>1. PollerTypeOK'
      BY <1>2 DEF PollTick, HubInv, envVars, histVars, PollerTypeOK, Phases
    <2>2. (LoopInv /\ CursorInv)'
      BY <1>2 DEF PollTick, hubVars, LoopInv, CursorInv
    <2> QED
      BY <2>1, <2>2
  <1>3. CASE QueryOk
    <2> PICK page \in OldestFirst(Eligible, PollLimit) :
               pending' = Decoded(page) /\ cut' = (page # Eligible)
      BY <1>3 DEF QueryOk
    <2>1. pending' \subseteq Eligible /\ Eligible \subseteq Rows
      BY PageRows DEF Decoded
    <2>2. cut' \in BOOLEAN /\ behind' \subseteq Conns
      BY <1>3 DEF QueryOk
    <2>3. PollerTypeOK'
      BY <1>3, <2>1, <2>2 DEF QueryOk, HubInv, envVars, PollerTypeOK, Phases
    <2>4. \A r \in pending' : lastSeenUnix < r.ts /\ lastSeenUnix <= r.ts
      BY <2>1, PageRows, RowTypes DEF PollerTypeOK
    <2>5. LoopInv'
      BY <1>3 DEF QueryOk, hubVars, LoopInv
    <2>6. CursorInv'
      BY <1>3, <2>4 DEF QueryOk, CursorInv, PollerTypeOK
    <2> QED
      BY <2>3, <2>5, <2>6
  <1>4. CASE QueryFail
    <2>1. metrics' \in [eventsDelivered : Nat, eventsDropped : Nat,
                        pollErrors : Nat, boots : Nat]
      BY <1>4 DEF QueryFail, PollerTypeOK
    <2>2. PollerTypeOK'
      BY <1>4, <2>1 DEF QueryFail, HubInv, envVars, histVars, PollerTypeOK, Phases
    <2>3. (LoopInv /\ CursorInv)'
      BY <1>4 DEF QueryFail, hubVars, LoopInv, CursorInv
    <2> QED
      BY <2>2, <2>3
  <1> QED
    BY <1>1, <1>2, <1>3, <1>4

\* The loop over the page, with the two broadcasts of each row.
LEMMA PublishKeepsPollerInv ==
    ASSUME PollerInv, HubInv',
           \/ \E r \in Rows : PublishGlobal(r)
           \/ PublishComp
           \/ \E c \in Conns : BroadcastStep(c)
    PROVE  PollerInv'
  <1> USE DEF PollerInv
  <1>1. ASSUME NEW r \in Rows, PublishGlobal(r) PROVE PollerInv'
    <2>1. r.ts \in Nat /\ maxTs <= r.ts /\ maxTs' = r.ts
      BY <1>1, RowTypes DEF PublishGlobal, CursorInv, PollerTypeOK
    <2>2. owed' \in [Conns -> SUBSET Rows]
      BY <1>1 DEF PublishGlobal, PollerTypeOK
    <2>3. PollerTypeOK'
      BY <1>1, <2>1, <2>2 DEF PublishGlobal, HubInv, envVars, PollerTypeOK, Phases
    <2>4. MessageOf(r, GlobalTopic) \in Message
      BY MessageOfIsMessage, HubAssumption
    <2>5. LoopInv'
      BY <1>1, <2>1, <2>4, HubAssumption DEF PublishGlobal, BroadcastBegin, LoopInv, MessageOf
    <2>6. lastSeenUnix <= maxTs'
      BY <1>1, <2>1 DEF PublishGlobal, CursorInv, PollerTypeOK
    <2>7. CursorInv'
      BY <1>1, <2>1, <2>6 DEF PublishGlobal, CursorInv
    <2> QED
      BY <2>3, <2>5, <2>7
  <1>2. CASE PublishComp
    <2>1. MessageOf(cur, cur.comp) \in Message
      BY <1>2, MessageOfIsMessage, CompositionIsTopic DEF PublishComp, LoopInv
    <2>2. PollerTypeOK'
      BY <1>2 DEF PublishComp, HubInv, envVars, histVars, PollerTypeOK, Phases
    <2>3. LoopInv'
      BY <1>2, <2>1, HubAssumption DEF PublishComp, BroadcastBegin, LoopInv, MessageOf
    <2>4. CursorInv'
      BY <1>2 DEF PublishComp, CursorInv
    <2> QED
      BY <2>2, <2>3, <2>4
  <1>3. ASSUME NEW c \in Conns, BroadcastStep(c) PROVE PollerInv'
    <2>1. PollerTypeOK'
      BY <1>3 DEF BroadcastStep, HubInv, pollVars, envVars, histVars, PollerTypeOK
    <2>2. (LoopInv /\ CursorInv)'
      BY <1>3 DEF BroadcastStep, Visit, pollVars, LoopInv, CursorInv, MessageOf
    <2> QED
      BY <2>1, <2>2
  <1> QED
    BY <1>1, <1>2, <1>3

\* broadcast returns, poll returns, the process dies.
LEMMA ReturnsKeepPollerInv ==
    ASSUME PollerInv, HubInv',
           BroadcastReturn \/ PollDone \/ Restart
    PROVE  PollerInv'
  <1> USE DEF PollerInv
  <1>1. CASE BroadcastReturn
    <2>1. delivered' \in Nat /\ dropped' \in Nat
      BY <1>1 DEF BroadcastReturn, AddCounts, HubInv, HubTypeOK, PollerTypeOK
    <2>2. PollerTypeOK'
      BY <1>1, <2>1 DEF BroadcastReturn, AfterBroadcast, HubInv, envVars, histVars,
         PollerTypeOK, Phases
    <2>3. phase \in {"global", "comp"}
      BY <1>1 DEF BroadcastReturn, AfterBroadcast, BroadcastEnd, LoopInv
    <2>4. LoopInv'
      BY <1>1, <2>3 DEF BroadcastReturn, AfterBroadcast, BroadcastEnd, LoopInv
    <2>5. CursorInv'
      BY <1>1, <2>3 DEF BroadcastReturn, AfterBroadcast, CursorInv
    <2> QED
      BY <2>2, <2>4, <2>5
  <1>2. CASE PollDone
    <2>1. metrics' \in [eventsDelivered : Nat, eventsDropped : Nat,
                        pollErrors : Nat, boots : Nat]
      <3>1. /\ metrics \in [eventsDelivered : Nat, eventsDropped : Nat,
                            pollErrors : Nat, boots : Nat]
            /\ delivered \in Nat
            /\ dropped \in Nat
        BY DEF PollerTypeOK
      <3>2. metrics.eventsDelivered + delivered \in Nat
            /\ metrics.eventsDropped + dropped \in Nat
        BY <3>1
      <3>3. metrics' = [metrics EXCEPT !.eventsDelivered = @ + delivered,
                                       !.eventsDropped = @ + dropped]
        BY <1>2 DEF PollDone, NextCursor
      <3> HIDE DEF PollerInv
      <3> QED
        BY <3>1, <3>2, <3>3
    <2>2. lastSeenUnix' \in Int
      BY <1>2 DEF PollDone, NextCursor, PollerTypeOK
    <2>3. PollerTypeOK'
      BY <1>2, <2>1, <2>2 DEF PollDone, NextCursor, HubInv, envVars, PollerTypeOK, Phases
    <2>4. (LoopInv /\ CursorInv)'
      BY <1>2 DEF PollDone, NextCursor, hubVars, LoopInv, CursorInv
    <2> QED
      BY <2>3, <2>4
  <1>3. CASE Restart
    <2>1. metrics' \in [eventsDelivered : Nat, eventsDropped : Nat,
                        pollErrors : Nat, boots : Nat]
      BY <1>3 DEF Restart, NewMetrics, PollerTypeOK
    <2>2. LiveCursor(now) \in Int
      BY LiveCursorIsInt DEF PollerTypeOK
    <2>3. PollerTypeOK'
      BY <1>3, <2>1, <2>2 DEF Restart, HubInv, envVars, PollerTypeOK, Phases
    <2>4. (LoopInv /\ CursorInv)'
      BY <1>3 DEF Restart, HubCrash, LoopInv, CursorInv
    <2> QED
      BY <2>3, <2>4
  <1> QED
    BY <1>1, <1>2, <1>3

\* Every step keeps the types and the shape of poll's loop.
LEMMA PollerInvNext == PollerInv /\ [Next]_vars => PollerInv'
  <1> SUFFICES ASSUME PollerInv, [Next]_vars PROVE PollerInv'
    OBVIOUS
  <1>1. HubInv'
    BY StepsOfHub, HubInvNext DEF PollerInv
  <1>2. CASE UNCHANGED vars
    BY <1>1, <1>2 DEF vars, hubVars, pollVars, envVars, histVars, PollerInv, HubInv,
                      PollerTypeOK, LoopInv, CursorInv
  <1>3. CASE Clock \/ (\E b \in Batches : Insert(b)) \/ TickerFire
    BY <1>1, <1>3, EnvironmentKeepsPollerInv
  <1>4. ASSUME NEW c \in Conns, Handler(c) PROVE PollerInv'
    BY <1>1, <1>4, HandlersKeepPollerInv
  <1>5. CASE IdleTick \/ PollTick \/ QueryOk \/ QueryFail
    BY <1>1, <1>5, QueryKeepsPollerInv
  <1>6. CASE \/ \E r \in Rows : PublishGlobal(r)
             \/ PublishComp
             \/ \E c \in Conns : BroadcastStep(c)
    BY <1>1, <1>6, PublishKeepsPollerInv
  <1>7. CASE BroadcastReturn \/ PollDone \/ Restart
    BY <1>1, <1>7, ReturnsKeepPollerInv
  <1> QED
    BY <1>2, <1>3, <1>4, <1>5, <1>6, <1>7 DEF Next, PollerStep, OwnStep, Answer

-----------------------------------------------------------------------------
\* The types of the whole live path hold in every run, with the bound on
\* every client's channel.
THEOREM PollerTypeCorrect == Spec => []PollerTypeOK
  <1>1. PollerInv => PollerTypeOK
    BY DEF PollerInv
  <1> QED
    BY <1>1, PollerInvInit, PollerInvNext, PTL DEF Spec

\* The poller and the handlers use the hub only through its operations: the
\* composed system implements the hub on which anything may be broadcast, so
\* that what holds of every hub holds of this one.
THEOREM PollerImplementsHub == Spec => HubSpec
  <1>1. Init => HubInit
    BY DEF Init
  <1> QED
    BY <1>1, StepsOfHub, PollerInvInit, PollerInvNext, PTL DEF Spec, HubSpec

\* The poller never sends on a closed channel.
THEOREM PollerNeverSendsOnClosed == Spec => []NoSendOnClosed
  BY PollerImplementsHub, HubNeverSendsOnClosed, PTL

\* What the poller's broadcasts count is what they did.
THEOREM PollerFanOutAccounted == Spec => []FanOutAccounted
  BY PollerImplementsHub, HubFanOutAccounted, PTL

\* Within one process the cursor never moves back.
THEOREM CursorMonotone == Spec => CursorNeverBack
  <1>1. ASSUME PollerInv, [Next]_vars
        PROVE  [metrics'.boots = metrics.boots => lastSeenUnix' >= lastSeenUnix]_vars
    <2>1. CASE IdleTick \/ PollDone
      BY <2>1, <1>1, LiveCursorIsInt DEF IdleTick, IdleCursor, PollDone, NextCursor,
         PollerInv, PollerTypeOK
    <2>2. CASE Restart
      <3>1. metrics'.boots = metrics.boots + 1
        BY <2>2 DEF Restart, NewMetrics
      <3>2. metrics.boots \in Nat
        BY <1>1 DEF PollerInv, PollerTypeOK
      <3> QED
        BY <3>1, <3>2
    <2>3. CASE lastSeenUnix' = lastSeenUnix
      BY <1>1, <2>3 DEF PollerInv, PollerTypeOK
    <2>4. CASE Next
      <3>1. CASE \/ Clock \/ (\E b \in Batches : Insert(b)) \/ TickerFire
                 \/ (\E c \in Conns : Handler(c))
        BY <2>3, <3>1 DEF Clock, Insert, TickerFire, Handler, HandlerFrame, pollVars
      <3>2. CASE \/ PollTick \/ QueryOk \/ QueryFail
                 \/ (\E r \in Rows : PublishGlobal(r)) \/ PublishComp
                 \/ (\E c \in Conns : BroadcastStep(c)) \/ BroadcastReturn
        BY <2>3, <3>2 DEF PollTick, QueryOk, QueryFail, PublishGlobal, PublishComp,
                          BroadcastStep, BroadcastReturn, pollVars
      <3> QED
        BY <2>1, <2>2, <2>4, <3>1, <3>2 DEF Next, PollerStep, OwnStep, Answer
    <2> QED
      BY <1>1, <2>4
  <1> QED
    BY <1>1, PollerInvInit, PollerInvNext, PTL DEF Spec, CursorNeverBack

-----------------------------------------------------------------------------
\* A channel stays in order if nothing is sent on it and its rows stay where
\* they belong; an empty channel is in order.
LEMMA ChannelUnchanged ==
    ASSUME NEW c \in Conns, ChannelOK(c), queue'[c] = queue[c],
           \A r \in Rows : SentOK(c, r) => SentOK(c, r)'
    PROVE  ChannelOK(c)'
  <1>1. \A i : SentRow(c, i)' = SentRow(c, i)
    BY DEF SentRow
  <1>2. \A i \in 1 .. Len(queue[c]) : SentRow(c, i) \in Rows
    BY DEF ChannelOK, SentOK
  <1>3. \A i \in 1 .. Len(queue[c]) : SentOK(c, SentRow(c, i))'
    BY <1>1, <1>2 DEF ChannelOK, SentOK, Entitled, Subscribed, Front
  <1> QED
    BY <1>1, <1>3 DEF ChannelOK

\* A channel on which nothing was sent is right.
LEMMA ChannelEmpty ==
    ASSUME NEW c \in Conns, queue'[c] = <<>>
    PROVE  ChannelOK(c)'
  BY DEF ChannelOK

\* A step that leaves the channels, the subscriptions and the handlers alone
\* keeps StreamInv if it keeps every row where it belongs.
LEMMA StreamUnchanged ==
    ASSUME StreamInv, UNCHANGED <<pc, sub, queue>>,
           \A c \in Conns, r \in Rows : SentOK(c, r) => SentOK(c, r)'
    PROVE  StreamInv'
  <1> SUFFICES ASSUME NEW c \in Conns
               PROVE  /\ pc'[c] \in {"off", "connecting"} => queue'[c] = <<>>
                      /\ ChannelOK(c)'
    BY DEF StreamInv
  <1>1. ChannelOK(c)'
    BY ChannelUnchanged DEF StreamInv
  <1> QED
    BY <1>1 DEF StreamInv

\* The environment and the poller's steps outside a broadcast.
LEMMA QuietStepsKeepStreamInv ==
    ASSUME PollerInv, PollerInv', StreamInv,
           \/ Clock \/ (\E b \in Batches : Insert(b)) \/ TickerFire
           \/ IdleTick \/ PollTick \/ QueryOk \/ QueryFail
           \/ (\E r \in Rows : PublishGlobal(r)) \/ PublishComp
           \/ BroadcastReturn \/ PollDone
    PROVE  StreamInv'
  <1> USE RowTypes DEF PollerInv
  <1>1. UNCHANGED <<pc, sub, queue>>
    BY DEF Clock, Insert, TickerFire, IdleTick, PollTick, QueryOk, QueryFail,
           PublishGlobal, PublishComp, BroadcastReturn, PollDone,
           BroadcastBegin, BroadcastEnd, connVars, hubVars
  <1> SUFFICES ASSUME NEW c \in Conns, NEW r \in Rows, SentOK(c, r)
               PROVE  SentOK(c, r)'
    BY <1>1, StreamUnchanged
  <1>2. Entitled(c, r)' /\ Subscribed(c)' = Subscribed(c)
    BY <1>1 DEF SentOK, Entitled, Subscribed, Allows
  <1>3. CASE Clock \/ (\E b \in Batches : Insert(b)) \/ TickerFire
    BY <1>2, <1>3 DEF Clock, Insert, TickerFire, hubVars, pollVars, SentOK, Front
  <1>4. CASE IdleTick
    <2>1. lastSeenUnix <= lastSeenUnix'
      BY <1>4, LiveCursorIsInt DEF IdleTick, IdleCursor, PollerTypeOK
    <2> QED
      BY <1>2, <1>4, <2>1 DEF IdleTick, IdleCursor, hubVars, PollerTypeOK, SentOK, Front
  <1>5. CASE PollTick \/ QueryFail
    BY <1>2, <1>5 DEF PollTick, QueryFail, hubVars, SentOK, Front
  <1>6. CASE QueryOk
    <2>1. r \notin pending'
      BY <1>6 DEF QueryOk, CursorInv, PollerTypeOK, SentOK, Front
    <2> QED
      BY <1>2, <1>6, <2>1 DEF QueryOk, SentOK, Front
  <1>7. ASSUME NEW row \in Rows, PublishGlobal(row)
        PROVE  SentOK(c, r)'
    <2>1. r # row /\ r \notin pending'
      BY <1>7 DEF PublishGlobal, SentOK
    <2>2. r.ts <= maxTs'
      BY <1>7 DEF PublishGlobal, PollerTypeOK, SentOK, Front
    <2> QED
      BY <1>2, <1>7, <2>1, <2>2 DEF PublishGlobal, SentOK, Front
  <1>8. CASE PublishComp
    BY <1>2, <1>8 DEF PublishComp, SentOK, Front
  <1>9. CASE BroadcastReturn
    <2>1. phase \in {"global", "comp"}
      BY <1>9 DEF BroadcastReturn, AfterBroadcast, BroadcastEnd, LoopInv
    <2> QED
      BY <1>2, <1>9, <2>1 DEF BroadcastReturn, AfterBroadcast, SentOK, Front
  <1>10. CASE PollDone
    <2>1. r.ts <= lastSeenUnix'
      BY <1>10 DEF PollDone, NextCursor, PollerTypeOK, SentOK, Front
    <2> QED
      BY <1>2, <1>10, <2>1 DEF PollDone, NextCursor, SentOK, Front
  <1> QED
    BY <1>3, <1>4, <1>5, <1>6, <1>7, <1>8, <1>9, <1>10

\* The handlers: a subscription changes only while the channel is empty.
LEMMA HandlersKeepStreamInv ==
    ASSUME PollerInv, StreamInv, NEW h \in Conns, Handler(h)
    PROVE  StreamInv'
  <1>1. UNCHANGED <<lastSeenUnix, phase, pending, cur, maxTs, todo>>
    BY DEF Handler, HandlerFrame, pollVars, Connect, Register, HandlerStep, Take,
       Leave, Unregister, CloseChan
  <1>2. ASSUME NEW c \in Conns, sub'[c] = sub[c], queue'[c] = queue[c]
        PROVE  ChannelOK(c)'
    <2>1. ASSUME NEW r \in Rows, SentOK(c, r) PROVE SentOK(c, r)'
      BY <1>1, <1>2, <2>1 DEF SentOK, Front, Entitled, Subscribed, Allows
    <2> QED
      BY <1>2, <2>1, ChannelUnchanged DEF StreamInv
  <1>3. ASSUME NEW s \in Subscriptions, Connect(h, s) PROVE StreamInv'
    <2>1. queue' = queue /\ queue[h] = <<>>
      BY <1>3 DEF Connect, StreamInv
    <2>2. \A c \in Conns : c # h => sub'[c] = sub[c] /\ pc'[c] = pc[c]
      BY <1>3 DEF Connect, PollerInv, HubInv, HubTypeOK
    <2> QED
      BY <1>2, <2>1, <2>2, ChannelEmpty DEF StreamInv
  <1>4. CASE Register(h) \/ Take(h) \/ Leave(h) \/ Unregister(h)
    <2>1. UNCHANGED <<sub, queue>>
      BY <1>4 DEF Register, Take, Leave, Unregister
    <2>2. \A c \in Conns : pc'[c] \in {"off", "connecting"} => pc'[c] = pc[c]
      BY <1>4 DEF Register, Take, Leave, Unregister, PollerInv, HubInv, HubTypeOK
    <2> QED
      BY <1>2, <2>1, <2>2 DEF StreamInv
  <1>5. CASE CloseChan(h)
    <2>1. queue'[h] = <<>>
      BY <1>5 DEF CloseChan, PollerInv, HubInv, HubTypeOK
    <2>2. \A c \in Conns : c # h => /\ sub'[c] = sub[c]
                                    /\ pc'[c] = pc[c]
                                    /\ queue'[c] = queue[c]
      BY <1>5 DEF CloseChan, PollerInv, HubInv, HubTypeOK
    <2> QED
      BY <1>2, <2>1, <2>2, ChannelEmpty DEF StreamInv
  <1> QED
    BY <1>3, <1>4, <1>5 DEF Handler, HandlerFrame, HandlerStep

\* The row being published belongs on the channel of a client that wants the
\* message and that the broadcast has just passed; it was not there before.
LEMMA SendIsNew ==
    ASSUME PollerInv, NEW c \in Conns, BroadcastStep(c), Wants(c, msg)
    PROVE  /\ msg.data.object = cur
           /\ cur \in Rows
           /\ cur.ts = Front
           /\ SentOK(c, cur)'
           /\ \A r \in Rows : SentOK(c, r) => r # cur
  <1>1. phase \in {"global", "comp"} /\ c \in todo
    BY HubAssumption DEF BroadcastStep, Visit, PollerInv, LoopInv, HubInv, LoopWithinMap
  <1>2. cur \in Rows /\ cur.ts = maxTs /\ cur \notin pending
    BY <1>1 DEF PollerInv, LoopInv
  <1>3. /\ phase = "global" => msg = MessageOf(cur, GlobalTopic)
        /\ phase = "comp" => /\ msg = MessageOf(cur, cur.comp)
                             /\ cur.comp # GlobalTopic
    BY <1>2, CompositionIsTopic DEF PollerInv, LoopInv
  <1>4. msg.data.object = cur /\ msg.namespace = cur.ns
    BY <1>1, <1>3 DEF MessageOf, ToSSEK8sEvent
  <1>5. /\ phase = "global" => Subscribed(c) = GlobalTopic
        /\ phase = "comp" => Subscribed(c) = cur.comp /\ cur.comp # GlobalTopic
    BY <1>3 DEF MessageOf, Wants
  <1>6. Entitled(c, cur)
    BY <1>1, <1>4, <1>5 DEF Entitled, Wants, Subscribed
  <1>7. UNCHANGED <<sub, lastSeenUnix, phase, pending, cur, maxTs>> /\ c \notin todo'
    BY DEF BroadcastStep, Visit, pollVars
  <1>8. SentOK(c, cur)'
    <2>1. Entitled(c, cur)'
      BY <1>6, <1>7 DEF Entitled, Allows
    <2>2. (cur.ts <= Front)'
      BY <1>1, <1>2, <1>7, RowTypes DEF Front
    <2> QED
      BY <1>1, <1>2, <1>5, <1>7, <2>1, <2>2 DEF SentOK, Subscribed
  <1>9. \A r \in Rows : SentOK(c, r) => r # cur
    BY <1>1, <1>5 DEF SentOK
  <1> QED
    BY <1>1, <1>2, <1>4, <1>8, <1>9 DEF Front

\* A broadcast keeps what is known of the rows sent.
LEMMA BroadcastKeepsStreamInv ==
    ASSUME PollerInv, StreamInv, NEW c \in Conns, BroadcastStep(c)
    PROVE  StreamInv'
  <1>1. UNCHANGED <<pc, sub, lastSeenUnix, phase, pending, cur, maxTs>>
        /\ todo' \subseteq todo
    BY DEF BroadcastStep, Visit, pollVars
  <1>2. ASSUME NEW d \in Conns, NEW r \in Rows, SentOK(d, r)
        PROVE  SentOK(d, r)'
    BY <1>1, <1>2 DEF SentOK, Front, Entitled, Subscribed, Allows
  <1>3. CASE queue' = queue
    BY <1>1, <1>2, <1>3, StreamUnchanged
  <1>4. CASE Wants(c, msg) /\ queue' = [queue EXCEPT ![c] = Append(@, msg)]
    <2>1. queue[c] \in Seq(Message) /\ Len(queue[c]) \in Nat /\ msg \in Message
      <3>1. queue[c] \in Seq(Message)
        BY DEF PollerInv, HubInv, HubTypeOK
      <3>2. msg \in Message
        BY DEF PollerInv, HubInv, HubTypeOK, LoopWithinMap, BroadcastStep, Visit
      <3> QED
        BY <3>1, <3>2
    <2> PICK n \in Nat : n = Len(queue[c])
      BY <2>1
    <2>2. /\ queue'[c] = Append(queue[c], msg)
          /\ \A d \in Conns : d # c => queue'[d] = queue[d]
      BY <1>4 DEF PollerInv, HubInv, HubTypeOK
    <2>3. /\ Len(queue'[c]) = n + 1
          /\ SentRow(c, n + 1)' = cur
          /\ \A i \in 1 .. n : SentRow(c, i)' = SentRow(c, i)
      <3>1. /\ Len(queue'[c]) = n + 1
            /\ queue'[c][n + 1] = msg
            /\ \A i \in 1 .. n : queue'[c][i] = queue[c][i]
        BY <2>1, <2>2
      <3>2. msg.data.object = cur
        BY <1>4, SendIsNew
      <3> QED
        BY <3>1, <3>2 DEF SentRow
    <2>4. ChannelOK(c)
      BY DEF StreamInv
    <2>5. \A i \in 1 .. n : /\ SentRow(c, i) \in Rows
                            /\ SentRow(c, i) # cur
                            /\ SentRow(c, i).ts <= cur.ts
      BY <1>4, <2>4, SendIsNew DEF ChannelOK, SentOK
    <2>6. \A i \in 1 .. n + 1 : SentOK(c, SentRow(c, i))'
      <3>1. ASSUME NEW i \in 1 .. n PROVE SentOK(c, SentRow(c, i))'
        <4>1. SentOK(c, SentRow(c, i))
          BY <2>4 DEF ChannelOK
        <4> DEFINE r == SentRow(c, i)
        <4>2. r \in Rows /\ SentRow(c, i)' = r
          BY <2>3, <2>5
        <4>3. SentOK(c, r)
          BY <4>1
        <4> QED
          BY <1>1, <4>2, <4>3 DEF SentOK, Front, Entitled, Subscribed, Allows
      <3>2. SentOK(c, SentRow(c, n + 1))'
        BY <1>1, <1>4, <2>3, SendIsNew DEF SentOK, Front, Entitled, Subscribed
      <3> QED
        BY <2>1, <3>1, <3>2
    <2>7. ChannelOK(c)'
      <3>1. ASSUME NEW i \in 1 .. n + 1, NEW j \in 1 .. n + 1
            PROVE  /\ i # j => SentRow(c, i)' # SentRow(c, j)'
                   /\ i < j => SentRow(c, i)'.ts <= SentRow(c, j)'.ts
        BY <2>1, <2>3, <2>4, <2>5 DEF ChannelOK
      <3> QED
        BY <2>3, <2>6, <3>1 DEF ChannelOK
    <2>8. ASSUME NEW d \in Conns, d # c PROVE ChannelOK(d)'
      BY <1>2, <2>2, <2>8, ChannelUnchanged DEF StreamInv
    <2>9. pc[c] \notin {"off", "connecting"}
      BY DEF BroadcastStep, Visit, PollerInv, HubInv, LoopWithinMap, MapMatchesHandlers
    <2> QED
      BY <1>1, <2>2, <2>7, <2>8, <2>9 DEF StreamInv
  <1> QED
    BY <1>3, <1>4 DEF BroadcastStep, Visit, Send, Drop

\* The page is the oldest rows of what the query could see, and the loop
\* takes them oldest first.
LEMMA PollKeepsLeftInv ==
    ASSUME PollerInv, LeftInv, [Next]_vars
    PROVE  LeftInv'
  <1> USE RowTypes DEF LeftInv
  <1>1. CASE UNCHANGED <<left, cut, pending, maxTs>>
    BY <1>1
  <1>2. CASE PollDone \/ Restart
    BY <1>2 DEF PollDone, NextCursor, Restart
  <1>3. CASE QueryOk
    <2> PICK page \in OldestFirst(Eligible, PollLimit) :
               pending' = Decoded(page) /\ cut' = (page # Eligible)
      BY <1>3 DEF QueryOk
    <2> SUFFICES ASSUME NEW r \in Eligible, r.ok, r \notin pending'
                 PROVE  cut' /\ maxTs' <= r.ts /\ \A p \in pending' : p.ts <= r.ts
      BY <1>3 DEF QueryOk
    <2>1. r \in Eligible \ page
      BY DEF Decoded
    <2>2. \A p \in pending' : p.ts <= r.ts
      BY <2>1, PageRows DEF PollerInv, Decoded
    <2>3. maxTs' <= r.ts
      BY <1>3, PageRows DEF QueryOk, PollerInv, PollerTypeOK
    <2> QED
      BY <2>1, <2>2, <2>3
  <1>4. ASSUME NEW row \in Rows, PublishGlobal(row) PROVE LeftInv'
    <2> SUFFICES ASSUME NEW r \in left, r # row, r.ok, r \notin pending
                 PROVE  cut' /\ maxTs' <= r.ts /\ \A p \in pending' : p.ts <= r.ts
      BY <1>4 DEF PublishGlobal
    <2>1. cut /\ maxTs <= r.ts /\ \A p \in pending : p.ts <= r.ts
      OBVIOUS
    <2> QED
      BY <1>4, <2>1 DEF PublishGlobal
  <1>5. CASE \/ Clock \/ (\E b \in Batches : Insert(b)) \/ TickerFire
             \/ (\E c \in Conns : Handler(c))
    BY <1>1, <1>5 DEF Clock, Insert, TickerFire, Handler, HandlerFrame, ForgetClosed,
       pollVars, histVars
  <1>6. CASE \/ IdleTick \/ PollTick \/ QueryFail \/ PublishComp
             \/ (\E c \in Conns : BroadcastStep(c)) \/ BroadcastReturn
    BY <1>1, <1>6 DEF IdleTick, PollTick, QueryFail, PublishComp,
                      BroadcastStep, BroadcastReturn, pollVars, histVars
  <1>7. CASE UNCHANGED vars
    BY <1>1, <1>7 DEF vars, pollVars, histVars
  <1> QED
    BY <1>2, <1>3, <1>4, <1>5, <1>6, <1>7 DEF Next, PollerStep, OwnStep, Answer

\* The initial states have the whole invariant.
LEMMA FullInvInit == Init => FullInv
  <1> SUFFICES ASSUME Init PROVE FullInv
    OBVIOUS
  <1>1. StreamInv /\ LeftInv
    BY DEF Init, HubInit, StreamInv, ChannelOK, LeftInv
  <1> QED
    BY <1>1, PollerInvInit DEF FullInv

\* Every step keeps the whole invariant.
LEMMA FullInvNext == FullInv /\ [Next]_vars => FullInv'
  <1> SUFFICES ASSUME FullInv, [Next]_vars PROVE FullInv'
    OBVIOUS
  <1> USE DEF FullInv
  <1>1. PollerInv' /\ LeftInv'
    BY PollerInvNext, PollKeepsLeftInv
  <1>2. CASE UNCHANGED vars
    <2>1. UNCHANGED <<pc, sub, queue, todo, lastSeenUnix, phase, pending, cur, maxTs>>
      BY <1>2 DEF vars, hubVars, pollVars
    <2>2. \A c \in Conns, r \in Rows : SentOK(c, r) => SentOK(c, r)'
      BY <2>1 DEF SentOK, Front, Entitled, Subscribed, Allows
    <2> QED
      BY <1>1, <2>1, <2>2, StreamUnchanged
  <1>3. CASE \/ Clock \/ (\E b \in Batches : Insert(b)) \/ TickerFire
             \/ IdleTick \/ PollTick \/ QueryOk \/ QueryFail
             \/ (\E r \in Rows : PublishGlobal(r)) \/ PublishComp
             \/ BroadcastReturn \/ PollDone
    BY <1>1, <1>3, QuietStepsKeepStreamInv
  <1>4. ASSUME NEW c \in Conns, Handler(c) PROVE StreamInv'
    BY <1>4, HandlersKeepStreamInv
  <1>5. ASSUME NEW c \in Conns, BroadcastStep(c) PROVE StreamInv'
    BY <1>5, BroadcastKeepsStreamInv
  <1>6. CASE Restart
    <2>1. \A c \in Conns : queue'[c] = <<>>
      BY <1>6 DEF Restart, HubCrash
    <2> QED
      BY <1>1, <2>1, ChannelEmpty DEF StreamInv
  <1> QED
    BY <1>1, <1>2, <1>3, <1>4, <1>5, <1>6 DEF Next, PollerStep, OwnStep, Answer

-----------------------------------------------------------------------------
\* No connection is sent a row twice.
THEOREM StreamAtMostOnce == Spec => []AtMostOnce
  <1>1. FullInv => AtMostOnce
    BY DEF FullInv, StreamInv, ChannelOK, AtMostOnce
  <1> QED
    BY <1>1, FullInvInit, FullInvNext, PTL DEF Spec

\* Every connection gets its rows in the order of their timestamps.
THEOREM StreamInOrder == Spec => []InOrder
  <1>1. FullInv => InOrder
    BY DEF FullInv, StreamInv, ChannelOK, InOrder
  <1> QED
    BY <1>1, FullInvInit, FullInvNext, PTL DEF Spec

\* No connection is sent a row that its caller may not see or did not ask
\* for: tenants stay isolated on the live stream.
THEOREM StreamOnlyEntitled == Spec => []OnlyEntitled
  <1>1. FullInv => OnlyEntitled
    BY DEF FullInv, StreamInv, ChannelOK, SentOK, OnlyEntitled
  <1> QED
    BY <1>1, FullInvInit, FullInvNext, PTL DEF Spec

\* poll moves the cursor past no row that it could see and did not publish,
\* except in the last second of a page that LIMIT has cut.
THEOREM CursorPassesOnlyPublished == Spec => CursorPassesPublished
  <1>1. ASSUME FullInv, [Next]_vars
        PROVE  [(phase = "rows" /\ phase' = "wait" /\ metrics'.boots = metrics.boots) =>
                  \A r \in left : r.ok /\ r.ts <= lastSeenUnix' =>
                                     cut /\ r.ts = lastSeenUnix']_vars
    <2> SUFFICES ASSUME Next, phase = "rows", phase' = "wait",
                        metrics'.boots = metrics.boots,
                        NEW r \in left, r.ok, r.ts <= lastSeenUnix'
                 PROVE  cut /\ r.ts = lastSeenUnix'
      BY <1>1
    <2>1. ~Restart
      <3>1. Restart => metrics'.boots = metrics.boots + 1
        BY DEF Restart, NewMetrics
      <3>2. metrics.boots \in Nat
        BY <1>1 DEF FullInv, PollerInv, PollerTypeOK
      <3> QED
        BY <3>1, <3>2
    <2>2. PollDone
      BY <2>1 DEF Next, PollerStep, OwnStep, Answer, Clock, Insert, TickerFire,
                  Handler, HandlerFrame, IdleTick, PollTick, QueryOk, QueryFail,
                  PublishGlobal, PublishComp, BroadcastStep, BroadcastReturn,
                  AfterBroadcast, pollVars
    <2>3. pending = {} /\ lastSeenUnix' = maxTs
      BY <1>1, <2>2 DEF PollDone, NextCursor, FullInv, PollerInv, PollerTypeOK, CursorInv
    <2>4. cut /\ maxTs <= r.ts
      BY <1>1, <2>3 DEF FullInv, LeftInv
    <2>5. r.ts \in Nat /\ maxTs \in Int
      BY <1>1, RowTypes DEF FullInv, PollerInv, PollerTypeOK
    <2> QED
      BY <2>3, <2>4, <2>5
  <1> QED
    BY <1>1, FullInvInit, FullInvNext, PTL DEF Spec, CursorPassesPublished

=============================================================================
