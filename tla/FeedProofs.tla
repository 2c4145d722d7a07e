----------------------------- MODULE FeedProofs -----------------------------
(***************************************************************************)
(* Poller, hub and handlers together implement the live feed of            *)
(* LiveFeed.tla, for any table, any callers, any page size and any number  *)
(* of restarts.                                                            *)
(***************************************************************************)
EXTENDS PollerProofs

\* The values of the feed's variables under the refinement mapping.
FeedOf(c) == [i \in 1 .. Len(queue[c]) |-> SentRow(c, i)]
EntitledRows(c) == IF open[c] THEN {r \in Rows : Entitled(c, r)} ELSE {}
SentTotal == metrics.eventsDelivered + delivered + tally.sent
LostTotal == metrics.eventsDropped + dropped + tally.dropped

\* The counts of a broadcast and of a poll are zero outside of it, so that
\* no total jumps when they are added up or reset.
CountInv ==
    /\ msg = NoMsg => tally = NoTally
    /\ phase \in {"wait", "query"} => delivered = 0 /\ dropped = 0

FeedInv == FullInv /\ CountInv

-----------------------------------------------------------------------------
\* The counters start at zero.
LEMMA FeedInvInit == Init => FeedInv
  <1>1. Init => CountInv
    BY DEF Init, HubInit, CountInv
  <1> QED
    BY <1>1, FullInvInit DEF FeedInv

\* Every step keeps what poll and broadcast have counted in its place.
LEMMA FeedInvNext == FeedInv /\ [Next]_vars => FeedInv'
  <1> SUFFICES ASSUME FeedInv, [Next]_vars PROVE CountInv'
    BY FullInvNext DEF FeedInv
  <1> USE DEF CountInv
  <1>1. CountInv /\ PollerInv /\ LoopInv
    BY DEF FeedInv, FullInv, PollerInv
  <1>2. CASE \/ UNCHANGED vars \/ Clock \/ (\E b \in Batches : Insert(b)) \/ TickerFire
             \/ IdleTick \/ PollTick \/ QueryOk \/ QueryFail
    BY <1>1, <1>2 DEF vars, Clock, Insert, TickerFire, IdleTick, PollTick, QueryOk,
       QueryFail, hubVars, pollVars
  <1>3. ASSUME NEW c \in Conns, Handler(c) PROVE CountInv'
    BY <1>1, <1>3 DEF Handler, HandlerFrame, pollVars, Connect, Register, HandlerStep,
       Take, Leave, Unregister, CloseChan
  <1>4. ASSUME NEW r \in Rows, PublishGlobal(r) PROVE CountInv'
    BY <1>4 DEF PublishGlobal, BroadcastBegin
  <1>5. CASE PublishComp
    BY <1>5 DEF PublishComp, BroadcastBegin
  <1>6. ASSUME NEW c \in Conns, BroadcastStep(c) PROVE CountInv'
    BY <1>1, <1>6 DEF BroadcastStep, Visit, pollVars, PollerInv, HubInv, LoopWithinMap
  <1>7. CASE BroadcastReturn
    BY <1>7 DEF BroadcastReturn, BroadcastEnd, AfterBroadcast
  <1>8. CASE PollDone
    BY <1>1, <1>8 DEF PollDone, NextCursor, hubVars
  <1>9. CASE Restart
    BY <1>9 DEF Restart, HubCrash
  <1> QED
    BY <1>2, <1>3, <1>4, <1>5, <1>6, <1>7, <1>8, <1>9
       DEF Next, PollerStep, OwnStep, Answer

-----------------------------------------------------------------------------
\* The counters are numbers.
LEMMA TotalsAreNat ==
    ASSUME PollerInv
    PROVE  /\ SentTotal \in Nat /\ LostTotal \in Nat
           /\ metrics.eventsDelivered \in Nat /\ metrics.eventsDropped \in Nat
           /\ delivered \in Nat /\ dropped \in Nat
           /\ tally.sent \in Nat /\ tally.dropped \in Nat
  <1>1. /\ metrics.eventsDelivered \in Nat /\ metrics.eventsDropped \in Nat
        /\ delivered \in Nat /\ dropped \in Nat
    BY DEF PollerInv, PollerTypeOK
  <1>2. tally.sent \in Nat /\ tally.dropped \in Nat
    BY DEF PollerInv, HubInv, HubTypeOK
  <1> QED
    BY <1>1, <1>2 DEF SentTotal, LostTotal

\* The feed of a client is a sequence of rows, as long as what was sent on
\* its channel.
LEMMA FeedIsSeq ==
    ASSUME PollerInv, StreamInv, NEW c \in Conns
    PROVE  /\ Len(queue[c]) \in Nat
           /\ FeedOf(c) \in Seq(Rows)
           /\ Len(FeedOf(c)) = Len(queue[c])
           /\ \A i \in 1 .. Len(queue[c]) : FeedOf(c)[i] = SentRow(c, i)
  <1>1. queue[c] \in Seq(Message)
    BY DEF PollerInv, HubInv, HubTypeOK
  <1>2. Len(queue[c]) \in Nat
    BY <1>1
  <1>3. \A i \in 1 .. Len(queue[c]) : SentRow(c, i) \in Rows
    BY DEF StreamInv, ChannelOK, SentOK
  <1> QED
    BY <1>2, <1>3 DEF FeedOf

\* A step that leaves the channels, the subscriptions and the totals alone
\* is a stutter of the feed.
LEMMA FeedUnchanged ==
    ASSUME UNCHANGED <<open, sub, queue, taken>>,
           SentTotal' = SentTotal, LostTotal' = LostTotal
    PROVE  UNCHANGED Feed!feedVars
  <1>1. \A c \in Conns : FeedOf(c)' = FeedOf(c)
    BY DEF FeedOf, SentRow
  <1>2. \A c \in Conns : EntitledRows(c)' = EntitledRows(c)
    BY DEF EntitledRows, Entitled, Allows
  <1>3. [c \in Conns |-> FeedOf(c)]' = [c \in Conns |-> FeedOf(c)]
    BY <1>1
  <1>4. [c \in Conns |-> EntitledRows(c)]' = [c \in Conns |-> EntitledRows(c)]
    BY <1>2
  <1> QED
    BY <1>3, <1>4 DEF Feed!feedVars, FeedOf, EntitledRows, SentTotal, LostTotal

-----------------------------------------------------------------------------
\* newHub and newPoller make an empty feed.
LEMMA NoRowsIsEmptyFeed ==
    ASSUME NEW c \in Conns, queue[c] = <<>>
    PROVE  FeedOf(c) = <<>>
  BY DEF FeedOf

\* A new process has nobody subscribed: the initial states map to LiveFeed's.
LEMMA FeedInit == Init => Feed!Empty
  <1> SUFFICES ASSUME Init PROVE Feed!Empty
    OBVIOUS
  <1>1. \A c \in Conns : FeedOf(c) = <<>> /\ EntitledRows(c) = {}
    BY NoRowsIsEmptyFeed DEF Init, HubInit, EntitledRows
  <1>2. SentTotal = 0 /\ LostTotal = 0
    BY DEF Init, HubInit, NewMetrics, NoTally, SentTotal, LostTotal
  <1>3. open = [c \in Conns |-> FALSE] /\ taken = [c \in Conns |-> 0]
    BY DEF Init, HubInit
  <1>4. /\ [c \in Conns |-> FeedOf(c)] = [c \in Conns |-> <<>>]
        /\ [c \in Conns |-> EntitledRows(c)] = [c \in Conns |-> {}]
    BY <1>1
  <1> QED
    BY <1>2, <1>3, <1>4 DEF Feed!Empty, FeedOf, EntitledRows, SentTotal, LostTotal

\* A new process is a new feed.
LEMMA RestartIsNewProcess == FeedInv /\ Restart => Feed!NewProcess
  <1> SUFFICES ASSUME FeedInv, Restart PROVE Feed!NewProcess
    OBVIOUS
  <1>1. \A c \in Conns : FeedOf(c)' = <<>> /\ EntitledRows(c)' = {}
    BY DEF Restart, HubCrash, FeedOf, EntitledRows
  <1>2. SentTotal' = 0 /\ LostTotal' = 0
    <2>1. metrics'.eventsDelivered = 0 /\ metrics'.eventsDropped = 0
      BY DEF Restart, NewMetrics
    <2> QED
      BY <2>1 DEF Restart, HubCrash, NoTally, SentTotal, LostTotal
  <1>3. open' = [c \in Conns |-> FALSE] /\ taken' = [c \in Conns |-> 0]
    BY DEF Restart, HubCrash
  <1>4. /\ [c \in Conns |-> FeedOf(c)]' = [c \in Conns |-> <<>>]
        /\ [c \in Conns |-> EntitledRows(c)]' = [c \in Conns |-> {}]
    BY <1>1
  <1> QED
    BY <1>2, <1>3, <1>4 DEF Feed!NewProcess, Feed!Empty, FeedOf, EntitledRows,
       SentTotal, LostTotal

\* The steps of the poller outside the range loop move counts from broadcast
\* to poll and from poll to proxyMetrics, and change no total; nor do the
\* handlers.
LEMMA QuietStepsKeepTotals ==
    ASSUME FeedInv,
           \/ Clock \/ (\E b \in Batches : Insert(b)) \/ TickerFire
           \/ (\E c \in Conns : Handler(c))
           \/ IdleTick \/ PollTick \/ QueryOk \/ QueryFail
           \/ (\E r \in Rows : PublishGlobal(r)) \/ PublishComp
           \/ BroadcastReturn \/ PollDone
    PROVE  SentTotal' = SentTotal /\ LostTotal' = LostTotal
  <1>1. PollerInv /\ CountInv
    BY DEF FeedInv, FullInv
  <1>2. CASE \/ Clock \/ (\E b \in Batches : Insert(b)) \/ TickerFire
             \/ IdleTick \/ PollTick \/ QueryOk
    <2>1. UNCHANGED <<metrics, delivered, dropped, tally>>
      BY <1>2 DEF Clock, Insert, TickerFire, IdleTick, PollTick, QueryOk, hubVars, pollVars
    <2> QED
      BY <2>1 DEF SentTotal, LostTotal
  <1>3. ASSUME NEW c \in Conns, Handler(c)
        PROVE  SentTotal' = SentTotal /\ LostTotal' = LostTotal
    <2>1. UNCHANGED <<metrics, delivered, dropped, tally>>
      BY <1>3 DEF Handler, HandlerFrame, pollVars, Connect, Register, HandlerStep, Take,
         Leave, Unregister, CloseChan
    <2> QED
      BY <2>1 DEF SentTotal, LostTotal
  <1>4. CASE QueryFail
    <2>1. UNCHANGED <<delivered, dropped, tally>>
      BY <1>4 DEF QueryFail, hubVars
    <2>2. metrics \in [eventsDelivered : Nat, eventsDropped : Nat,
                       pollErrors : Nat, boots : Nat]
      BY <1>1 DEF PollerInv, PollerTypeOK
    <2>3. UNCHANGED <<metrics.eventsDelivered, metrics.eventsDropped>>
      BY <1>4, <2>2 DEF QueryFail
    <2> QED
      BY <2>1, <2>3 DEF SentTotal, LostTotal
  <1>5. CASE (\E r \in Rows : PublishGlobal(r)) \/ PublishComp
    <2>1. UNCHANGED <<metrics, delivered, dropped>>
      BY <1>5 DEF PublishGlobal, PublishComp
    <2>2. tally = NoTally /\ tally' = NoTally
      BY <1>1, <1>5 DEF CountInv, PublishGlobal, PublishComp, BroadcastBegin
    <2> QED
      BY <2>1, <2>2 DEF SentTotal, LostTotal
  <1>6. CASE BroadcastReturn
    <2>1. /\ metrics' = metrics
          /\ delivered' = delivered + tally.sent
          /\ dropped' = dropped + tally.dropped
          /\ tally' = NoTally
      BY <1>6 DEF BroadcastReturn, AddCounts, BroadcastEnd
    <2>2. tally'.sent = 0 /\ tally'.dropped = 0
      BY <2>1 DEF NoTally
    <2> QED
      BY <1>1, <2>1, <2>2, TotalsAreNat DEF SentTotal, LostTotal
  <1>7. CASE PollDone
    <2>1. delivered' = 0 /\ dropped' = 0 /\ tally' = tally
      BY <1>7 DEF PollDone, hubVars
    <2>2. metrics \in [eventsDelivered : Nat, eventsDropped : Nat,
                       pollErrors : Nat, boots : Nat]
      BY <1>1 DEF PollerInv, PollerTypeOK
    <2>3. /\ metrics'.eventsDelivered = metrics.eventsDelivered + delivered
          /\ metrics'.eventsDropped = metrics.eventsDropped + dropped
      BY <1>7, <2>2 DEF PollDone
    <2> QED
      BY <1>1, <2>1, <2>3, TotalsAreNat DEF SentTotal, LostTotal
  <1> QED
    BY <1>2, <1>3, <1>4, <1>5, <1>6, <1>7

\* The feed does not see them.
LEMMA QuietStepsAreStutters ==
    ASSUME FeedInv,
           \/ Clock \/ (\E b \in Batches : Insert(b)) \/ TickerFire
           \/ IdleTick \/ PollTick \/ QueryOk \/ QueryFail
           \/ (\E r \in Rows : PublishGlobal(r)) \/ PublishComp
           \/ BroadcastReturn \/ PollDone
    PROVE  UNCHANGED Feed!feedVars
  <1>1. UNCHANGED <<open, sub, queue, taken>>
    BY DEF Clock, Insert, TickerFire, IdleTick, PollTick, QueryOk, QueryFail,
           PublishGlobal, PublishComp, BroadcastReturn, PollDone,
           BroadcastBegin, BroadcastEnd, connVars, hubVars
  <1> QED
    BY <1>1, QuietStepsKeepTotals, FeedUnchanged

-----------------------------------------------------------------------------
\* The handlers: connecting subscribes, a receive from the channel receives
\* from the feed, closing the channel unsubscribes; the rest the feed does
\* not see.
LEMMA HandlersRefineFeed ==
    ASSUME FeedInv, NEW c \in Conns, Handler(c)
    PROVE  [Feed!FeedNext]_(Feed!feedVars)
  <1>1. PollerInv /\ StreamInv /\ HubInv /\ HubTypeOK
    BY DEF FeedInv, FullInv, PollerInv, HubInv
  <1>2. SentTotal' = SentTotal /\ LostTotal' = LostTotal
    BY QuietStepsKeepTotals
  <1>3. ASSUME NEW s \in Subscriptions, Connect(c, s) PROVE Feed!Subscribe(c)
    <2>1. ~open[c] /\ open' = [open EXCEPT ![c] = TRUE]
      BY <1>1, <1>3 DEF Connect, HubInv, OpenUntilClosed
    <2>2. [d \in Conns |-> FeedOf(d)]' = [d \in Conns |-> FeedOf(d)]
      BY <1>3 DEF Connect, FeedOf, SentRow
    <2>3. taken' = taken
      BY <1>3 DEF Connect
    <2>4. \A d \in Conns : d # c => EntitledRows(d)' = EntitledRows(d)
      BY <1>1, <1>3 DEF Connect, HubTypeOK, EntitledRows, Entitled, Allows
    <2>5. EntitledRows(c)' \in SUBSET Rows
      BY DEF EntitledRows
    <2>6. [d \in Conns |-> EntitledRows(d)]' =
              [[d \in Conns |-> EntitledRows(d)] EXCEPT ![c] = EntitledRows(c)']
      BY <2>4
    <2>7. \E S \in SUBSET Rows : [d \in Conns |-> EntitledRows(d)]' =
              [[d \in Conns |-> EntitledRows(d)] EXCEPT ![c] = S]
      BY <2>5, <2>6
    <2> QED
      BY <1>2, <2>1, <2>2, <2>3, <2>7
         DEF Feed!Subscribe, FeedOf, EntitledRows, SentTotal, LostTotal
  <1>4. CASE Take(c)
    <2>1. UNCHANGED <<open, sub, queue>> /\ taken' = [taken EXCEPT ![c] = @ + 1]
      BY <1>4 DEF Take
    <2>2. [d \in Conns |-> FeedOf(d)]' = [d \in Conns |-> FeedOf(d)]
      BY <2>1 DEF FeedOf, SentRow
    <2>3. [d \in Conns |-> EntitledRows(d)]' = [d \in Conns |-> EntitledRows(d)]
      BY <2>1 DEF EntitledRows, Entitled, Allows
    <2>4. Len(FeedOf(c)) - taken[c] > 0
      BY <1>1, <1>4, FeedIsSeq DEF Take, HasMessage, Backlog
    <2>5. Feed!Receive(c)
      BY <1>2, <2>1, <2>2, <2>3, <2>4
         DEF Feed!Receive, Feed!Waiting, FeedOf, EntitledRows, SentTotal, LostTotal
    <2> QED
      BY <2>5 DEF Feed!FeedNext
  <1>5. CASE CloseChan(c)
    <2>1. open[c] /\ open' = [open EXCEPT ![c] = FALSE]
      BY <1>1, <1>5 DEF CloseChan, HubInv, OpenUntilClosed
    <2>2. taken' = [taken EXCEPT ![c] = 0]
      BY <1>5 DEF CloseChan
    <2>3. /\ queue'[c] = <<>>
          /\ open'[c] = FALSE
          /\ \A d \in Conns : d # c => /\ queue'[d] = queue[d]
                                       /\ sub'[d] = sub[d]
                                       /\ open'[d] = open[d]
      BY <1>1, <1>5 DEF CloseChan, HubTypeOK
    <2>4. /\ FeedOf(c)' = <<>>
          /\ \A d \in Conns : d # c => FeedOf(d)' = FeedOf(d)
      BY <2>3 DEF FeedOf, SentRow
    <2>5. /\ EntitledRows(c)' = {}
          /\ \A d \in Conns : d # c => EntitledRows(d)' = EntitledRows(d)
      BY <2>3 DEF EntitledRows, Entitled, Allows
    <2>6. [d \in Conns |-> FeedOf(d)]' = [[d \in Conns |-> FeedOf(d)] EXCEPT ![c] = <<>>]
      BY <2>4
    <2>7. [d \in Conns |-> EntitledRows(d)]' =
              [[d \in Conns |-> EntitledRows(d)] EXCEPT ![c] = {}]
      BY <2>5
    <2>8. Feed!Unsubscribe(c)
      BY <1>2, <2>1, <2>2, <2>6, <2>7
         DEF Feed!Unsubscribe, FeedOf, EntitledRows, SentTotal, LostTotal
    <2> QED
      BY <2>8 DEF Feed!FeedNext
  <1>6. CASE Register(c) \/ Leave(c) \/ Unregister(c)
    <2>1. UNCHANGED <<open, sub, queue, taken>>
      BY <1>6 DEF Register, Leave, Unregister
    <2> QED
      BY <1>2, <2>1, FeedUnchanged
  <1> QED
    BY <1>3, <1>4, <1>5, <1>6 DEF Handler, HandlerStep, Feed!FeedNext

\* One turn of broadcast's range loop adds one to the total of its outcome.
LEMMA VisitCounts ==
    ASSUME PollerInv, NEW c \in Conns, BroadcastStep(c)
    PROVE  /\ Send(c) => SentTotal' = SentTotal + 1 /\ LostTotal' = LostTotal
           /\ Drop(c) => SentTotal' = SentTotal /\ LostTotal' = LostTotal + 1
  <1>1. UNCHANGED <<metrics, delivered, dropped>>
    BY DEF BroadcastStep, pollVars
  <1>2. tally \in [sent : Nat, dropped : Nat]
    BY DEF PollerInv, HubInv, HubTypeOK
  <1>3. /\ metrics.eventsDelivered \in Nat /\ metrics.eventsDropped \in Nat
        /\ delivered \in Nat /\ dropped \in Nat
        /\ tally.sent \in Nat /\ tally.dropped \in Nat
    BY TotalsAreNat
  <1>4. CASE Send(c)
    <2>1. tally'.sent = tally.sent + 1 /\ tally'.dropped = tally.dropped
      BY <1>2, <1>4 DEF Send
    <2>2. SentTotal' = SentTotal + 1 /\ LostTotal' = LostTotal
      BY <1>1, <1>3, <2>1, SMT DEF SentTotal, LostTotal
    <2> QED
      BY <1>4, <2>2 DEF Send, Drop
  <1>5. CASE Drop(c)
    <2>1. tally'.dropped = tally.dropped + 1 /\ tally'.sent = tally.sent
      BY <1>2, <1>5 DEF Drop
    <2>2. SentTotal' = SentTotal /\ LostTotal' = LostTotal + 1
      BY <1>1, <1>3, <2>1, SMT DEF SentTotal, LostTotal
    <2> QED
      BY <1>5, <2>2 DEF Send, Drop
  <1> QED
    BY <1>4, <1>5

\* One turn of broadcast's range loop delivers the row, loses it for a full
\* channel, or passes a client that does not want it.
LEMMA BroadcastRefinesFeed ==
    ASSUME FeedInv, NEW c \in Conns, BroadcastStep(c)
    PROVE  [Feed!FeedNext]_(Feed!feedVars)
  <1>1. PollerInv /\ StreamInv /\ HubInv /\ HubTypeOK
    BY DEF FeedInv, FullInv, PollerInv, HubInv
  <1>2. UNCHANGED <<open, sub, taken, metrics, delivered, dropped, cur>>
    BY DEF BroadcastStep, Visit, pollVars
  <1>3. [d \in Conns |-> EntitledRows(d)]' = [d \in Conns |-> EntitledRows(d)]
    BY <1>2 DEF EntitledRows, Entitled, Allows
  <1>4. CASE UNCHANGED <<queue, tally>>
    BY <1>2, <1>4, FeedUnchanged DEF SentTotal, LostTotal
  <1>5. ASSUME Wants(c, msg)
        PROVE  /\ cur \in Rows
               /\ cur \in EntitledRows(c)
               /\ \A i \in 1 .. Len(FeedOf(c)) :
                      FeedOf(c)[i] # cur /\ FeedOf(c)[i].ts <= cur.ts
               /\ Len(FeedOf(c)) - taken[c] = Backlog(c)
    <2>1. open[c]
      BY <1>1 DEF BroadcastStep, Visit, HubInv, LoopWithinMap, MapMatchesHandlers,
         OpenUntilClosed
    <2>2. cur \in Rows /\ cur.ts = Front /\ SentOK(c, cur)'
      BY <1>1, <1>5, SendIsNew
    <2>3. Entitled(c, cur)
      BY <1>2, <2>2 DEF SentOK, Entitled, Allows
    <2>4. \A i \in 1 .. Len(queue[c]) :
              SentRow(c, i) # cur /\ SentRow(c, i).ts <= cur.ts
      BY <1>1, <1>5, <2>2, SendIsNew DEF StreamInv, ChannelOK, SentOK
    <2> QED
      BY <1>1, <2>1, <2>2, <2>3, <2>4, FeedIsSeq DEF EntitledRows, Backlog
  <1>6. CASE Wants(c, msg) /\ Send(c)
    <2>1. SentTotal' = SentTotal + 1 /\ LostTotal' = LostTotal
      BY <1>1, <1>6, VisitCounts
    <2>2. Len(FeedOf(c)) - taken[c] < ClientBuffer
      BY <1>5, <1>6 DEF Send, HasRoom
    <2>3. FeedOf(c)' = Append(FeedOf(c), cur)
      <3> PICK n \in Nat : n = Len(queue[c])
        BY <1>1, FeedIsSeq
      <3>1. queue[c] \in Seq(Message) /\ msg \in Message
        BY <1>1 DEF HubTypeOK, HubInv, LoopWithinMap, BroadcastStep, Visit
      <3>2. queue'[c] = Append(queue[c], msg)
        BY <1>1, <1>6 DEF Send, HubTypeOK
      <3>3. /\ Len(queue'[c]) = n + 1
            /\ queue'[c][n + 1] = msg
            /\ \A i \in 1 .. n : queue'[c][i] = queue[c][i]
        BY <3>1, <3>2
      <3>4. msg.data.object = cur
        BY <1>1, <1>6, SendIsNew
      <3>5. /\ SentRow(c, n + 1)' = cur
            /\ \A i \in 1 .. n : SentRow(c, i)' = SentRow(c, i)
        BY <3>3, <3>4 DEF SentRow
      <3>6. FeedOf(c)' = [i \in 1 .. n + 1 |-> SentRow(c, i)']
        BY <3>3 DEF FeedOf
      <3>7. FeedOf(c) = [i \in 1 .. n |-> SentRow(c, i)] /\ FeedOf(c) \in Seq(Rows)
        BY <1>1, FeedIsSeq DEF FeedOf
      <3> QED
        BY <1>5, <1>6, <3>5, <3>6, <3>7
    <2>4. \A d \in Conns : d # c => FeedOf(d)' = FeedOf(d)
      <3>1. \A d \in Conns : d # c => queue'[d] = queue[d]
        BY <1>1, <1>6 DEF Send, HubTypeOK
      <3> QED
        BY <3>1 DEF FeedOf, SentRow
    <2>5. [d \in Conns |-> FeedOf(d)]' =
              [[d \in Conns |-> FeedOf(d)] EXCEPT ![c] = Append(@, cur)]
      BY <2>3, <2>4
    <2> PICK r \in Rows : r = cur
      BY <1>5, <1>6
    <2>6. Feed!Deliver(c, r)
      BY <1>2, <1>3, <1>5, <1>6, <2>1, <2>2, <2>5
         DEF Feed!Deliver, Feed!CanFollow, Feed!Waiting, FeedOf, EntitledRows,
             SentTotal, LostTotal
    <2> QED
      BY <2>6 DEF Feed!FeedNext
  <1>7. CASE Wants(c, msg) /\ Drop(c)
    <2>1. LostTotal' = LostTotal + 1 /\ SentTotal' = SentTotal
      BY <1>1, <1>7, VisitCounts
    <2>2. Len(FeedOf(c)) - taken[c] = ClientBuffer
      <3>1. Backlog(c) \in 0 .. ClientBuffer
        BY <1>1 DEF HubTypeOK, Backlog
      <3> QED
        BY <1>5, <1>7, <3>1, HubAssumption DEF Drop, HasRoom
    <2>3. [d \in Conns |-> FeedOf(d)]' = [d \in Conns |-> FeedOf(d)]
      BY <1>7 DEF Drop, FeedOf, SentRow
    <2> PICK r \in Rows : r = cur
      BY <1>5, <1>7
    <2>4. Feed!Lose(c, r)
      BY <1>2, <1>3, <1>5, <1>7, <2>1, <2>2, <2>3
         DEF Feed!Lose, Feed!CanFollow, Feed!Waiting, FeedOf, EntitledRows,
             SentTotal, LostTotal
    <2> QED
      BY <2>4 DEF Feed!FeedNext
  <1> QED
    BY <1>4, <1>6, <1>7 DEF BroadcastStep, Visit

-----------------------------------------------------------------------------
\* Every step of the composed system is a step of the live feed or one that
\* the feed does not see.
LEMMA StepsOfFeed == FeedInv /\ [Next]_vars => [Feed!FeedNext]_(Feed!feedVars)
  <1> SUFFICES ASSUME FeedInv, [Next]_vars PROVE [Feed!FeedNext]_(Feed!feedVars)
    OBVIOUS
  <1>1. CASE UNCHANGED vars
    <2>1. UNCHANGED <<open, sub, queue, taken, metrics, delivered, dropped, tally>>
      BY <1>1 DEF vars, hubVars, pollVars
    <2> QED
      BY <2>1, FeedUnchanged DEF SentTotal, LostTotal
  <1>2. CASE \/ Clock \/ (\E b \in Batches : Insert(b)) \/ TickerFire
             \/ IdleTick \/ PollTick \/ QueryOk \/ QueryFail
             \/ (\E r \in Rows : PublishGlobal(r)) \/ PublishComp
             \/ BroadcastReturn \/ PollDone
    BY <1>2, QuietStepsAreStutters
  <1>3. ASSUME NEW c \in Conns, Handler(c) PROVE [Feed!FeedNext]_(Feed!feedVars)
    BY <1>3, HandlersRefineFeed
  <1>4. ASSUME NEW c \in Conns, BroadcastStep(c) PROVE [Feed!FeedNext]_(Feed!feedVars)
    BY <1>4, BroadcastRefinesFeed
  <1>5. CASE Restart
    BY <1>5, RestartIsNewProcess DEF Feed!FeedNext
  <1> QED
    BY <1>1, <1>2, <1>3, <1>4, <1>5 DEF Next, PollerStep, OwnStep, Answer

\* The live path implements the live feed: whatever the poller, the
\* broadcasts, the handlers, the collector and the clock do in between, every
\* subscriber gets rows it may see, in order and once, a row is lost only for
\* a full buffer, and the counters are exact.
THEOREM PollerImplementsFeed == Spec => ImplementsFeed
  BY FeedInit, FeedInvInit, FeedInvNext, StepsOfFeed, PTL
     DEF Spec, ImplementsFeed, Feed!FeedSpec

=============================================================================
