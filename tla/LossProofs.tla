----------------------------- MODULE LossProofs -----------------------------
(***************************************************************************)
(* When the live stream may lose a row, for any table, any callers, any    *)
(* page size and any number of restarts: only for a client that was behind *)
(* when the page arrived, and never without counting it.                   *)
(***************************************************************************)
EXTENDS FeedProofs

\* The row the loop is at may still be sent to c.
Due(c) ==
    \/ phase = "global" /\ (c \in todo \/ Subscribed(c) # GlobalTopic)
    \/ phase = "between" /\ Subscribed(c) # GlobalTopic
    \/ phase = "comp" /\ c \in todo /\ Subscribed(c) # GlobalTopic

\* The rows of the page that may still be sent to c.
StillToCome(c) == Cardinality(pending) + (IF Due(c) THEN 1 ELSE 0)

\* A channel has room for what is left of the page: the page fits into an
\* empty one (clientBuffer is pollLimit), and no row is sent on it twice.
RoomInv ==
    /\ Cardinality(pending) + (IF phase \in {"global", "between", "comp"} THEN 1 ELSE 0)
           <= ClientBuffer
    /\ phase \notin {"wait", "query"} =>
           \A c \in Conns \ behind : Backlog(c) + StillToCome(c) <= ClientBuffer

DropInv == FullInv /\ RoomInv

-----------------------------------------------------------------------------
\* What is waiting in a channel: never more than it holds.
LEMMA BacklogIsNat ==
    ASSUME HubTypeOK, NEW c \in Conns
    PROVE  Backlog(c) \in Nat /\ Backlog(c) <= ClientBuffer
  <1>1. Len(queue[c]) - taken[c] \in 0 .. ClientBuffer
    BY DEF HubTypeOK
  <1> QED
    BY <1>1, HubAssumption DEF Backlog

\* Sets of rows are finite.
LEMMA RowsAreFinite ==
    ASSUME NEW S \in SUBSET Rows
    PROVE  IsFiniteSet(S) /\ Cardinality(S) \in Nat
  BY PollerAssumption, FS_Subset, FS_CardinalityType

\* A channel whose messages are unchanged, or fewer, keeps room for a page of
\* which no more is to come.
LEMMA RoomKept ==
    ASSUME PollerInv, PollerInv', RoomInv, NEW c \in Conns \ behind,
           phase \notin {"wait", "query"},
           Backlog(c)' <= Backlog(c), pending' = pending, Due(c)' => Due(c)
    PROVE  (Backlog(c) + StillToCome(c) <= ClientBuffer)'
  <1>1. Backlog(c) \in Nat /\ Backlog(c)' \in Nat /\ ClientBuffer \in Nat
    <2>1. /\ Len(queue[c]) - taken[c] \in 0 .. ClientBuffer
          /\ Len(queue'[c]) - taken'[c] \in 0 .. ClientBuffer
      BY DEF PollerInv, HubInv, HubTypeOK
    <2> QED
      BY <2>1, HubAssumption DEF Backlog
  <1>2. Cardinality(pending) \in Nat
    BY RowsAreFinite DEF PollerInv, PollerTypeOK
  <1>3. Backlog(c) + StillToCome(c) <= ClientBuffer
    BY DEF RoomInv
  <1>4. StillToCome(c)' <= StillToCome(c) /\ StillToCome(c) \in Nat /\ StillToCome(c)' \in Nat
    BY <1>2 DEF StillToCome
  <1> QED
    BY <1>1, <1>3, <1>4

\* The handlers only take from a channel, and one that is new is empty.
LEMMA HandlersKeepRoom ==
    ASSUME PollerInv, PollerInv', StreamInv, StreamInv', RoomInv,
           NEW h \in Conns, Handler(h)
    PROVE  RoomInv'
  <1>1. UNCHANGED <<phase, pending, todo>> /\ behind' = {c \in behind : open'[c]}
    BY DEF Handler, HandlerFrame, ForgetClosed, pollVars, Connect, Register, HandlerStep,
       Take, Leave, Unregister, CloseChan
  <1>2. (Cardinality(pending)
           + (IF phase \in {"global", "between", "comp"} THEN 1 ELSE 0) <= ClientBuffer)'
    BY <1>1 DEF RoomInv
  <1> SUFFICES ASSUME phase \notin {"wait", "query"}, NEW c \in Conns, c \notin behind'
               PROVE  (Backlog(c) + StillToCome(c) <= ClientBuffer)'
    BY <1>1, <1>2 DEF RoomInv
  <1>3. CASE pc'[c] \in {"off", "connecting"}
    <2>1. queue'[c] = <<>>
      BY <1>3 DEF StreamInv
    <2>2. Backlog(c)' = 0
      <3>1. taken'[c] \in Nat /\ Len(queue'[c]) - taken'[c] \in 0 .. ClientBuffer
        BY DEF PollerInv, HubInv, HubTypeOK
      <3> QED
        BY <2>1, <3>1 DEF Backlog
    <2>3. Cardinality(pending) \in Nat /\ ClientBuffer \in Nat
      BY RowsAreFinite, HubAssumption DEF PollerInv, PollerTypeOK
    <2>4. Due(c)' => phase' \in {"global", "between", "comp"}
      BY DEF Due
    <2> QED
      BY <1>1, <1>2, <2>2, <2>3, <2>4 DEF StillToCome
  <1>4. CASE pc'[c] \notin {"off", "connecting"}
    <2>1. c \notin behind
      BY <1>1, <1>4 DEF PollerInv, HubInv, OpenUntilClosed
    <2>2. sub'[c] = sub[c] /\ queue'[c] = queue[c] /\ taken'[c] \in {taken[c], taken[c] + 1}
      BY <1>4 DEF PollerInv, HubInv, HubTypeOK, Handler, Connect, Register, HandlerStep,
         Take, Leave, Unregister, CloseChan
    <2>3. Backlog(c)' <= Backlog(c)
      <3>1. queue[c] \in Seq(Message) /\ taken[c] \in Nat
        BY DEF PollerInv, HubInv, HubTypeOK
      <3>2. Len(queue[c]) \in Nat
        BY <3>1
      <3> QED
        BY <2>2, <3>1, <3>2 DEF Backlog
    <2>4. Due(c)' => Due(c)
      BY <1>1, <2>2 DEF Due, Subscribed
    <2> QED
      BY <1>1, <2>1, <2>3, <2>4, RoomKept
  <1> QED
    BY <1>3, <1>4

\* One turn of the range loop: a row that is sent was still to come, and is
\* not to come again.
LEMMA BroadcastKeepsRoom ==
    ASSUME PollerInv, PollerInv', RoomInv, NEW h \in Conns, BroadcastStep(h)
    PROVE  RoomInv'
  <1>1. UNCHANGED <<phase, pending, behind, sub, taken, cur, msg>>
        /\ h \in todo /\ todo' = todo \ {h}
    BY DEF BroadcastStep, Visit, pollVars, histVars
  <1>2. phase \in {"global", "comp"}
    BY <1>1 DEF PollerInv, LoopInv, HubInv, LoopWithinMap
  <1> SUFFICES ASSUME NEW c \in Conns, c \notin behind
               PROVE  (Backlog(c) + StillToCome(c) <= ClientBuffer)'
    BY <1>1 DEF RoomInv
  <1>3. Due(c)' => Due(c)
    BY <1>1 DEF Due, Subscribed
  <1>4. CASE queue'[c] = queue[c]
    <2>1. Backlog(c)' = Backlog(c)
      BY <1>1, <1>4 DEF Backlog
    <2>2. Backlog(c) \in Nat
      BY BacklogIsNat DEF PollerInv, HubInv
    <2> QED
      BY <1>1, <1>2, <1>3, <2>1, <2>2, RoomKept
  <1>5. CASE queue'[c] # queue[c]
    <2>1. c = h /\ Wants(h, msg) /\ Send(h)
      BY <1>5 DEF BroadcastStep, Visit, Send, Drop, PollerInv, HubInv, HubTypeOK
    <2>2. /\ phase = "global" => Subscribed(h) = GlobalTopic
          /\ phase = "comp" => Subscribed(h) # GlobalTopic
      <3>1. phase = "comp" => cur.comp # GlobalTopic
        BY CompositionIsTopic DEF PollerInv, LoopInv
      <3> QED
        BY <2>1, <3>1 DEF PollerInv, LoopInv, Wants, MessageOf
    <2>3. Due(c) /\ ~Due(c)'
      BY <1>1, <1>2, <2>1, <2>2 DEF Due, Subscribed
    <2>4. Backlog(c)' = Backlog(c) + 1
      <3>1. queue[c] \in Seq(Message) /\ taken[c] \in Nat /\ msg \in Message
        BY <1>1 DEF PollerInv, HubInv, HubTypeOK, LoopWithinMap
      <3>2. queue'[c] = Append(queue[c], msg)
        BY <2>1 DEF Send, PollerInv, HubInv, HubTypeOK
      <3>3. Len(queue'[c]) = Len(queue[c]) + 1 /\ Len(queue[c]) \in Nat
        BY <3>1, <3>2
      <3> QED
        BY <1>1, <3>1, <3>3 DEF Backlog
    <2>5. Cardinality(pending) \in Nat /\ ClientBuffer \in Nat /\ Backlog(c) \in Nat
      BY RowsAreFinite, BacklogIsNat, HubAssumption DEF PollerInv, PollerTypeOK, HubInv
    <2>6. Backlog(c) + StillToCome(c) <= ClientBuffer
      BY <1>2 DEF RoomInv
    <2> QED
      BY <1>1, <2>3, <2>4, <2>5, <2>6 DEF StillToCome
  <1> QED
    BY <1>4, <1>5

\* Every step leaves room for the rest of the page.
LEMMA DropInvNext == DropInv /\ [Next]_vars => DropInv'
  <1> SUFFICES ASSUME DropInv, [Next]_vars PROVE RoomInv'
    BY FullInvNext DEF DropInv
  <1>1. PollerInv /\ PollerInv' /\ StreamInv /\ StreamInv' /\ RoomInv
    BY FullInvNext DEF DropInv, FullInv
  <1>2. Cardinality(pending) \in Nat /\ ClientBuffer \in Nat
    BY <1>1, RowsAreFinite, HubAssumption DEF PollerInv, PollerTypeOK
  <1>3. \A c \in Conns : Backlog(c) \in Nat
    BY <1>1, BacklogIsNat DEF PollerInv, HubInv
  <1>4. CASE UNCHANGED vars \/ Clock \/ (\E b \in Batches : Insert(b)) \/ TickerFire
             \/ IdleTick \/ PollTick \/ QueryFail
    <2>1. UNCHANGED <<queue, taken, todo, sub, pending, behind>>
          /\ (phase' = phase \/ phase' \in {"wait", "query"})
      BY <1>4 DEF vars, Clock, Insert, TickerFire, IdleTick, PollTick, QueryFail,
         hubVars, pollVars, histVars
    <2>2. \A c \in Conns : Backlog(c)' = Backlog(c)
      BY <2>1 DEF Backlog
    <2>3. phase' = phase => \A c \in Conns : Due(c)' = Due(c)
      BY <2>1 DEF Due, Subscribed
    <2> QED
      BY <1>1, <1>2, <2>1, <2>2, <2>3 DEF RoomInv, StillToCome
  <1>5. ASSUME NEW h \in Conns, Handler(h) PROVE RoomInv'
    BY <1>1, <1>5, HandlersKeepRoom
  <1>6. CASE QueryOk
    <2> PICK page \in OldestFirst(Eligible, PollLimit) : pending' = Decoded(page)
      BY <1>6 DEF QueryOk
    <2>1. page \subseteq Rows /\ pending' \subseteq page
      BY <1>1, PageRows DEF PollerInv, Decoded
    <2>2. Cardinality(page) <= PollLimit
      <3>1. Eligible \subseteq Rows
        BY <1>1, PageRows DEF PollerInv
      <3>2. Cardinality(Eligible) \in Nat
        BY <3>1, RowsAreFinite
      <3>3. Cardinality(page) =
                IF Cardinality(Eligible) < PollLimit THEN Cardinality(Eligible) ELSE PollLimit
        BY DEF OldestFirst, Pages
      <3> QED
        BY <3>2, <3>3, PollerAssumption
    <2>3. Cardinality(pending') <= PollLimit /\ Cardinality(pending') \in Nat
      <3>1. IsFiniteSet(page) /\ Cardinality(page) \in Nat
        BY <2>1, RowsAreFinite
      <3>2. Cardinality(pending') <= Cardinality(page)
        BY <2>1, <3>1, FS_Subset
      <3>3. Cardinality(pending') \in Nat
        BY <2>1, <3>1, FS_Subset, FS_CardinalityType
      <3> QED
        BY <2>2, <3>1, <3>2, <3>3, PollerAssumption
    <2>4. phase' = "rows" /\ UNCHANGED <<queue, taken>>
          /\ behind' = {c \in Conns : Backlog(c) > 0}
      BY <1>6 DEF QueryOk, hubVars
    <2>5. \A c \in Conns : Backlog(c)' = Backlog(c) /\ ~Due(c)'
      BY <2>4 DEF Backlog, Due
    <2>6. \A c \in Conns \ behind' : Backlog(c)' = 0
      BY <1>3, <2>4, <2>5
    <2> QED
      BY <2>3, <2>4, <2>5, <2>6, PollerAssumption DEF RoomInv, StillToCome
  <1>7. ASSUME NEW row \in Rows, PublishGlobal(row) PROVE RoomInv'
    <2>1. /\ phase = "rows" /\ phase' = "global" /\ row \in pending
          /\ pending' = pending \ {row} /\ UNCHANGED <<queue, taken, behind>>
      BY <1>7 DEF PublishGlobal, BroadcastBegin, connVars
    <2>2. Cardinality(pending') = Cardinality(pending) - 1
      <3>1. IsFiniteSet(pending)
        BY <1>1, RowsAreFinite DEF PollerInv, PollerTypeOK
      <3> QED
        BY <2>1, <3>1, FS_RemoveElement
    <2>3. \A c \in Conns : Backlog(c)' = Backlog(c) /\ ~Due(c)
      BY <2>1 DEF Backlog, Due
    <2>4. \A c \in Conns \ behind : Backlog(c) + Cardinality(pending) <= ClientBuffer
      BY <1>1, <1>2, <1>3, <2>1, <2>3 DEF RoomInv, StillToCome
    <2>5. Cardinality(pending) <= ClientBuffer
      BY <1>1, <1>2, <2>1 DEF RoomInv
    <2>6. ASSUME NEW c \in Conns \ behind
          PROVE  (Backlog(c) + StillToCome(c) <= ClientBuffer)'
      <3>1. Backlog(c)' + Cardinality(pending') + 1 <= ClientBuffer
        BY <1>2, <1>3, <2>2, <2>3, <2>4
      <3>2. StillToCome(c)' \in {Cardinality(pending'), Cardinality(pending') + 1}
        BY <1>2, <2>2 DEF StillToCome
      <3> QED
        BY <1>2, <1>3, <2>2, <2>3, <3>1, <3>2
    <2>7. (Cardinality(pending)
             + (IF phase \in {"global", "between", "comp"} THEN 1 ELSE 0) <= ClientBuffer)'
      BY <1>2, <2>1, <2>2, <2>5
    <2> QED
      BY <2>1, <2>6, <2>7 DEF RoomInv
  <1>8. CASE PublishComp \/ BroadcastReturn
    <2>1. /\ UNCHANGED <<queue, taken, sub, pending, behind>>
          /\ phase \in {"global", "between", "comp"}
          /\ phase = "between" => phase' = "comp"
          /\ phase # "between" => todo = {} /\ phase' \in {"between", "rows"}
          /\ phase = "comp" => phase' = "rows"
      BY <1>1, <1>8 DEF PublishComp, BroadcastReturn, BroadcastBegin, BroadcastEnd,
         AfterBroadcast, connVars, histVars, PollerInv, LoopInv
    <2>2. \A c \in Conns : Backlog(c)' = Backlog(c) /\ (Due(c)' => Due(c))
      BY <2>1 DEF Backlog, Due, Subscribed
    <2>3. \A c \in Conns \ behind : (Backlog(c) + StillToCome(c) <= ClientBuffer)'
      BY <1>1, <1>3, <2>1, <2>2, RoomKept
    <2>4. (Cardinality(pending)
             + (IF phase \in {"global", "between", "comp"} THEN 1 ELSE 0) <= ClientBuffer)'
      BY <1>1, <1>2, <2>1 DEF RoomInv
    <2> QED
      BY <2>1, <2>3, <2>4 DEF RoomInv
  <1>9. ASSUME NEW h \in Conns, BroadcastStep(h) PROVE RoomInv'
    BY <1>1, <1>9, BroadcastKeepsRoom
  <1>10. CASE PollDone \/ Restart
    <2>1. pending' = {} /\ phase' = "wait"
      BY <1>10 DEF PollDone, Restart
    <2> QED
      BY <2>1, FS_EmptySet, HubAssumption DEF RoomInv
  <1> QED
    BY <1>4, <1>5, <1>6, <1>7, <1>8, <1>9, <1>10 DEF Next, PollerStep, OwnStep, Answer

\* A poll drops only for a client that was behind when its page arrived: the
\* buffer of any other has room for the whole page, even if it never reads.
THEOREM DropsOnlyBehind == Spec => []OnlyBehindDrops
  <1>1. Init => DropInv
    <2>1. Init => RoomInv
      BY FS_EmptySet, HubAssumption DEF Init, RoomInv
    <2> QED
      BY <2>1, FullInvInit DEF DropInv
  <1>2. DropInv => OnlyBehindDrops
    <2> SUFFICES ASSUME DropInv, NEW c \in todo \ behind, Wants(c, msg)
                 PROVE  Backlog(c) < ClientBuffer
      BY DEF OnlyBehindDrops
    <2>1. c \in Conns /\ phase \in {"global", "comp"}
      BY DEF DropInv, FullInv, PollerInv, LoopInv, HubInv, HubTypeOK, LoopWithinMap
    <2>2. phase = "comp" => Subscribed(c) # GlobalTopic
      BY CompositionIsTopic DEF DropInv, FullInv, PollerInv, LoopInv, Wants, MessageOf
    <2>3. Due(c)
      BY <2>1, <2>2 DEF Due
    <2>4. Backlog(c) + StillToCome(c) <= ClientBuffer
      BY <2>1 DEF DropInv, RoomInv
    <2>5. Cardinality(pending) \in Nat /\ ClientBuffer \in Nat /\ Backlog(c) \in Nat
      BY <2>1, RowsAreFinite, BacklogIsNat, HubAssumption
         DEF DropInv, FullInv, PollerInv, PollerTypeOK, HubInv
    <2> QED
      BY <2>3, <2>4, <2>5 DEF StillToCome
  <1> QED
    BY <1>1, <1>2, DropInvNext, PTL DEF Spec

-----------------------------------------------------------------------------
\* Row r was sent to c.
Has(c, r) == \E i \in 1 .. Len(queue[c]) : SentRow(c, i) = r

\* A client is owed only rows it may see, and only while its handler runs;
\* as long as nothing was dropped it has been sent them all, but for the one
\* that is being published.
OwedInv ==
    /\ \A c \in Conns : pc[c] \in {"off", "connecting"} => owed[c] = {}
    /\ \A c \in Conns : \A r \in owed[c] : Entitled(c, r)
    /\ LostTotal = 0 =>
           \A c \in clients : \A r \in owed[c] : Has(c, r) \/ (r = cur /\ Due(c))

LossInv == FeedInv /\ OwedInv

\* A client that may see a row listens on one of the topics poll publishes
\* it on.
LEMMA EntitledListens ==
    ASSUME HubTypeOK, NEW c \in Conns, NEW r, Entitled(c, r)
    PROVE  /\ Allows(sub[c].scope, r.ns)
           /\ Subscribed(c) # GlobalTopic => Subscribed(c) = r.comp
           /\ r.comp = NoComposition => Subscribed(c) = GlobalTopic
  BY DEF Entitled, Subscribed, NoTopic, NoComposition

\* What was sent stays sent.
LEMMA HasKept ==
    ASSUME NEW c \in Conns, NEW r, Has(c, r),
           queue[c] \in Seq(Message),
           queue'[c] = queue[c] \/ \E m \in Message : queue'[c] = Append(queue[c], m)
    PROVE  Has(c, r)'
  <1> PICK i \in 1 .. Len(queue[c]) : SentRow(c, i) = r
    BY DEF Has
  <1>1. CASE queue'[c] = queue[c]
    BY <1>1 DEF Has, SentRow
  <1>2. ASSUME NEW m \in Message, queue'[c] = Append(queue[c], m) PROVE Has(c, r)'
    <2>1. i \in 1 .. Len(queue'[c]) /\ queue'[c][i] = queue[c][i]
      BY <1>2
    <2> QED
      BY <2>1 DEF Has, SentRow
  <1> QED
    BY <1>1, <1>2

\* Handlers come, read and go: a client that joins is owed nothing yet.
LEMMA HandlersKeepOwedInv ==
    ASSUME LossInv, FeedInv', NEW h \in Conns, Handler(h)
    PROVE  OwedInv'
  <1>1. HubInv /\ HubTypeOK /\ HubInv'
    BY DEF LossInv, FeedInv, FullInv, PollerInv, HubInv
  <1>2. UNCHANGED <<phase, cur, todo>>
        /\ owed' = [c \in Conns |-> IF open'[c] THEN owed[c] ELSE {}]
    BY DEF Handler, HandlerFrame, ForgetClosed, pollVars, Connect, Register, HandlerStep,
       Take, Leave, Unregister, CloseChan
  <1>3. LostTotal' = LostTotal
    BY QuietStepsKeepTotals DEF LossInv
  <1>4. ASSUME NEW c \in Conns
        PROVE  \/ owed'[c] = {}
               \/ /\ pc[c] \notin {"off", "connecting"}
                  /\ pc'[c] \notin {"off", "connecting"}
                  /\ owed'[c] = owed[c]
                  /\ sub'[c] = sub[c]
                  /\ queue'[c] = queue[c]
                  /\ c \in clients' => c \in clients
    <2>1. CASE pc[c] \in {"off", "connecting"} \/ ~open'[c]
      BY <1>2, <2>1 DEF LossInv, OwedInv
    <2>2. CASE pc[c] \notin {"off", "connecting"} /\ open'[c]
      <3>1. pc'[c] \notin {"off"}
        BY <1>1, <2>2 DEF HubInv, OpenUntilClosed
      <3> QED
        BY <1>1, <1>2, <2>2, <3>1 DEF HubTypeOK, Handler, Connect, Register, HandlerStep,
           Take, Leave, Unregister, Delete, CloseChan
    <2> QED
      BY <2>1, <2>2
  <1>5. ASSUME NEW c \in Conns, NEW r \in owed'[c] PROVE Entitled(c, r)'
    BY <1>4 DEF LossInv, OwedInv, Entitled, Allows
  <1>6. ASSUME LostTotal' = 0, NEW c \in clients', NEW r \in owed'[c]
        PROVE  Has(c, r)' \/ (r = cur /\ Due(c))'
    <2>1. c \in Conns
      BY <1>1 DEF HubInv, HubTypeOK
    <2>2. /\ r \in owed[c] /\ c \in clients
          /\ sub'[c] = sub[c] /\ queue'[c] = queue[c]
      BY <1>4, <2>1
    <2>3. Has(c, r) \/ (r = cur /\ Due(c))
      BY <1>3, <1>6, <2>2 DEF LossInv, OwedInv
    <2>4. Has(c, r) => Has(c, r)'
      BY <2>2 DEF Has, SentRow
    <2>5. Due(c) => Due(c)'
      BY <1>2, <2>2 DEF Due, Subscribed
    <2> QED
      BY <1>2, <2>3, <2>4, <2>5
  <1>7. \A c \in Conns : pc'[c] \in {"off", "connecting"} => owed'[c] = {}
    BY <1>4
  <1> QED
    BY <1>5, <1>6, <1>7 DEF OwedInv

\* One turn of the range loop: a client that is owed the row and is reached
\* on the topic it listens to is sent the row, or the drop is counted.
LEMMA BroadcastKeepsOwedInv ==
    ASSUME LossInv, NEW h \in Conns, BroadcastStep(h)
    PROVE  OwedInv'
  <1>1. PollerInv /\ HubInv /\ HubTypeOK /\ LoopInv /\ OwedInv
    BY DEF LossInv, FeedInv, FullInv, PollerInv, HubInv
  <1>2. UNCHANGED <<clients, pc, sub, msg, phase, cur, owed>>
        /\ h \in todo /\ todo' = todo \ {h}
    BY DEF BroadcastStep, Visit, pollVars, histVars
  <1>3. phase \in {"global", "comp"} /\ msg \in Message
    BY <1>1, <1>2 DEF LoopInv, HubInv, HubTypeOK, LoopWithinMap
  <1>4. \A c \in Conns, r \in Rows : Entitled(c, r)' = Entitled(c, r)
    BY <1>2 DEF Entitled, Allows
  <1>5. \A c \in Conns : owed[c] \subseteq Rows
    BY <1>1 DEF PollerInv, PollerTypeOK
  <1>6. ASSUME LostTotal' = 0, NEW c \in clients, NEW r \in owed[c]
        PROVE  Has(c, r)' \/ (r = cur' /\ Due(c)')
    <2>1. c \in Conns /\ queue[c] \in Seq(Message)
      BY <1>1 DEF HubTypeOK
    <2>2. ~Drop(h) /\ LostTotal = 0
      <3>1. LostTotal \in Nat
        BY <1>1, TotalsAreNat
      <3>2. CASE Send(h) \/ Drop(h)
        BY <1>1, <1>6, <3>1, <3>2, VisitCounts
      <3>3. CASE ~Wants(h, msg) /\ UNCHANGED <<queue, tally>>
        <4>1. LostTotal' = LostTotal
          BY <3>3 DEF BroadcastStep, pollVars, LostTotal
        <4>2. ~Drop(h)
          <5>1. tally \in [sent : Nat, dropped : Nat]
            BY <1>1 DEF HubTypeOK
          <5>2. Drop(h) => tally'.dropped = tally.dropped + 1
            BY <5>1 DEF Drop
          <5>3. tally.dropped \in Nat
            BY <5>1
          <5> QED
            BY <3>3, <5>2, <5>3
        <4> QED
          BY <1>6, <4>1, <4>2
      <3> QED
        BY <3>2, <3>3 DEF BroadcastStep, Visit
    <2>3. queue'[c] = queue[c] \/ \E m \in Message : queue'[c] = Append(queue[c], m)
      BY <1>1, <1>3 DEF BroadcastStep, Visit, Send, Drop, HubTypeOK
    <2>4. CASE Has(c, r)
      BY <2>1, <2>3, <2>4, HasKept
    <2>5. CASE r = cur /\ Due(c) /\ (c # h \/ ~Wants(h, msg))
      <3>1. Entitled(c, cur)
        BY <1>1, <2>1, <2>5 DEF OwedInv
      <3>2. phase = "comp" => c # h
        <4>1. CASE phase = "comp" /\ c = h
          <5>1. Subscribed(c) = cur.comp /\ Allows(sub[c].scope, cur.ns)
            BY <1>1, <2>1, <2>5, <3>1, <4>1, EntitledListens DEF Due
          <5> QED
            BY <1>1, <2>5, <4>1, <5>1 DEF LoopInv, Wants, MessageOf
        <4> QED
          BY <4>1
      <3>3. phase = "global" /\ c = h => Subscribed(c) # GlobalTopic
        <4>1. Allows(sub[c].scope, cur.ns)
          BY <1>1, <2>1, <3>1, EntitledListens
        <4> QED
          BY <1>1, <2>5, <4>1 DEF LoopInv, Wants, MessageOf
      <3> QED
        BY <1>2, <1>3, <2>5, <3>2, <3>3 DEF Due, Subscribed
    <2>6. CASE r = cur /\ c = h /\ Wants(h, msg)
      <3>1. queue'[c] = Append(queue[c], msg)
        BY <1>1, <2>2, <2>6 DEF BroadcastStep, Visit, Send, HubTypeOK
      <3>2. msg.data.object = cur
        BY <1>1, <2>6, SendIsNew
      <3>3. Len(queue[c]) + 1 \in 1 .. Len(queue'[c])
            /\ queue'[c][Len(queue[c]) + 1] = msg
        BY <1>3, <2>1, <3>1
      <3> QED
        BY <2>6, <3>2, <3>3 DEF Has, SentRow
    <2> QED
      BY <1>1, <1>6, <2>2, <2>4, <2>5, <2>6 DEF OwedInv
  <1> QED
    BY <1>1, <1>2, <1>4, <1>5, <1>6 DEF OwedInv

\* The poller's steps outside the range loop.
LEMMA QuietStepsKeepOwedInv ==
    ASSUME LossInv,
           \/ Clock \/ (\E b \in Batches : Insert(b)) \/ TickerFire
           \/ IdleTick \/ PollTick \/ QueryOk \/ QueryFail
           \/ (\E r \in Rows : PublishGlobal(r)) \/ PublishComp
           \/ BroadcastReturn \/ PollDone
    PROVE  OwedInv'
  <1>1. PollerInv /\ HubInv /\ HubTypeOK /\ LoopInv /\ OwedInv /\ FeedInv
    BY DEF LossInv, FeedInv, FullInv, PollerInv, HubInv
  <1>2. UNCHANGED <<clients, pc, sub, queue>>
    BY DEF Clock, Insert, TickerFire, IdleTick, PollTick, QueryOk, QueryFail,
           PublishGlobal, PublishComp, BroadcastReturn, PollDone,
           BroadcastBegin, BroadcastEnd, connVars, hubVars
  <1>3. LostTotal' = LostTotal
    BY <1>1, QuietStepsKeepTotals
  <1>4. clients \subseteq Conns
    BY <1>1 DEF HubTypeOK
  <1>5. ASSUME \A c \in Conns : pc[c] \in {"off", "connecting"} => owed'[c] = {},
               \A c \in Conns : \A r \in owed'[c] : Entitled(c, r),
               LostTotal = 0 => \A c \in clients : \A r \in owed'[c] :
                                    Has(c, r) \/ (r = cur' /\ Due(c)')
        PROVE  OwedInv'
    <2>1. \A c, r : Entitled(c, r)' = Entitled(c, r)
      BY <1>2 DEF Entitled, Allows
    <2>2. \A c, r : Has(c, r)' = Has(c, r)
      BY <1>2 DEF Has, SentRow
    <2>3. (\A c \in Conns : \A r \in owed[c] : Entitled(c, r))'
      BY <1>5, <2>1
    <2>4. (LostTotal = 0 => \A c \in clients : \A r \in owed[c] :
                                Has(c, r) \/ (r = cur /\ Due(c)))'
      BY <1>2, <1>3, <1>5, <2>2
    <2> QED
      BY <1>2, <1>5, <2>3, <2>4 DEF OwedInv
  <1>6. \A c \in Conns : phase \in {"wait", "query", "rows"} => ~Due(c)
    BY DEF Due
  <1>7. ASSUME UNCHANGED <<cur, owed>>,
               \A c \in clients : cur \in owed[c] /\ Due(c) => Due(c)'
        PROVE  OwedInv'
    <2>1. \A c \in Conns : \A r \in owed'[c] : Entitled(c, r)
      BY <1>1, <1>7 DEF OwedInv
    <2>2. LostTotal = 0 => \A c \in clients : \A r \in owed'[c] :
                               Has(c, r) \/ (r = cur' /\ Due(c)')
      BY <1>1, <1>7 DEF OwedInv
    <2>3. \A c \in Conns : pc[c] \in {"off", "connecting"} => owed'[c] = {}
      BY <1>1, <1>7 DEF OwedInv
    <2> QED
      BY <1>5, <2>1, <2>2, <2>3
  <1>8. CASE \/ Clock \/ (\E b \in Batches : Insert(b)) \/ TickerFire
             \/ IdleTick \/ PollTick \/ QueryOk \/ QueryFail
    <2>1. UNCHANGED <<todo, cur, owed>>
          /\ (phase' = phase \/ phase \in {"wait", "query", "rows"})
      BY <1>8 DEF Clock, Insert, TickerFire, IdleTick, PollTick, QueryOk, QueryFail,
         hubVars, pollVars, histVars
    <2>2. \A c \in clients : Due(c) => Due(c)'
      BY <1>2, <1>4, <1>6, <2>1 DEF Due, Subscribed
    <2> QED
      BY <1>7, <2>1, <2>2
  <1>9. ASSUME NEW row \in Rows, PublishGlobal(row) PROVE OwedInv'
    <2>1. /\ phase = "rows" /\ phase' = "global" /\ cur' = row /\ todo' = clients
          /\ owed' = [c \in Conns |-> IF c \in clients /\ Entitled(c, row)
                                        THEN owed[c] \cup {row} ELSE owed[c]]
      BY <1>9 DEF PublishGlobal, BroadcastBegin
    <2>2. \A c \in Conns : pc[c] \in {"off", "connecting"} => c \notin clients
      BY <1>1 DEF HubInv, MapMatchesHandlers
    <2>3. \A c \in clients : Due(c)'
      BY <2>1 DEF Due
    <2>4. \A c \in Conns : pc[c] \in {"off", "connecting"} => owed'[c] = {}
      BY <1>1, <2>1, <2>2 DEF OwedInv
    <2>5. \A c \in Conns : \A r \in owed'[c] : Entitled(c, r)
      BY <1>1, <2>1 DEF OwedInv
    <2>6. ASSUME LostTotal = 0, NEW c \in clients, NEW r \in owed'[c]
          PROVE  Has(c, r) \/ (r = cur' /\ Due(c)')
      <3>1. c \in Conns /\ ~Due(c)
        BY <1>1, <1>6, <2>1 DEF HubTypeOK
      <3>2. r \in owed[c] \/ r = row
        BY <2>1, <3>1
      <3> QED
        BY <1>1, <2>1, <2>3, <2>6, <3>1, <3>2 DEF OwedInv
    <2> QED
      BY <1>5, <2>4, <2>5, <2>6
  <1>10. CASE PublishComp
    <2>1. UNCHANGED <<cur, owed>> /\ phase = "between" /\ phase' = "comp" /\ todo' = clients
      BY <1>10 DEF PublishComp, BroadcastBegin, histVars
    <2>2. \A c \in clients : Due(c) => Due(c)'
      BY <1>2, <2>1 DEF Due, Subscribed
    <2> QED
      BY <1>7, <2>1, <2>2
  <1>11. CASE BroadcastReturn
    <2>1. UNCHANGED <<cur, owed>> /\ todo = {} /\ phase \in {"global", "comp"}
          /\ phase' = AfterBroadcast
      BY <1>1, <1>11 DEF BroadcastReturn, BroadcastEnd, histVars, LoopInv
    <2>2. ASSUME NEW c \in clients, cur \in owed[c], Due(c) PROVE Due(c)'
      <3>1. c \in Conns /\ Entitled(c, cur)
        BY <1>1, <1>4, <2>2 DEF HubTypeOK, OwedInv
      <3>2. phase = "global" /\ Subscribed(c) # GlobalTopic
        BY <2>1, <2>2 DEF Due
      <3>3. cur.comp # NoComposition
        BY <1>1, <3>1, <3>2, EntitledListens
      <3> QED
        BY <1>2, <2>1, <3>2, <3>3 DEF AfterBroadcast, Due, Subscribed
    <2> QED
      BY <1>7, <2>1, <2>2
  <1>12. CASE PollDone
    <2>1. owed' = owed /\ phase = "rows"
      BY <1>12 DEF PollDone
    <2>2. ASSUME LostTotal = 0, NEW c \in clients, NEW r \in owed'[c]
          PROVE  Has(c, r)
      <3>1. c \in Conns /\ ~Due(c)
        BY <1>1, <1>6, <2>1 DEF HubTypeOK
      <3> QED
        BY <1>1, <2>1, <2>2, <3>1 DEF OwedInv
    <2>3. \A c \in Conns : \A r \in owed'[c] : Entitled(c, r)
      BY <1>1, <2>1 DEF OwedInv
    <2>4. \A c \in Conns : pc[c] \in {"off", "connecting"} => owed'[c] = {}
      BY <1>1, <2>1 DEF OwedInv
    <2> QED
      BY <1>5, <2>2, <2>3, <2>4
  <1> QED
    BY <1>8, <1>9, <1>10, <1>11, <1>12

\* Every step keeps the promise to the clients, or counts the loss.
LEMMA LossInvNext == LossInv /\ [Next]_vars => LossInv'
  <1> SUFFICES ASSUME LossInv, [Next]_vars PROVE OwedInv'
    BY FeedInvNext DEF LossInv
  <1>1. FeedInv'
    BY FeedInvNext DEF LossInv
  <1>2. CASE UNCHANGED vars
    <2>1. UNCHANGED <<clients, pc, sub, queue, todo, tally, phase, cur, metrics, dropped, owed>>
      BY <1>2 DEF vars, hubVars, pollVars, histVars
    <2> QED
      BY <2>1 DEF LossInv, OwedInv, Entitled, Allows, Has, SentRow, Due, Subscribed, LostTotal
  <1>3. CASE \/ Clock \/ (\E b \in Batches : Insert(b)) \/ TickerFire
             \/ IdleTick \/ PollTick \/ QueryOk \/ QueryFail
             \/ (\E r \in Rows : PublishGlobal(r)) \/ PublishComp
             \/ BroadcastReturn \/ PollDone
    BY <1>3, QuietStepsKeepOwedInv
  <1>4. ASSUME NEW c \in Conns, Handler(c) PROVE OwedInv'
    BY <1>1, <1>4, HandlersKeepOwedInv
  <1>5. ASSUME NEW c \in Conns, BroadcastStep(c) PROVE OwedInv'
    BY <1>5, BroadcastKeepsOwedInv
  <1>6. CASE Restart
    BY <1>6 DEF Restart, HubCrash, OwedInv
  <1> QED
    BY <1>2, <1>3, <1>4, <1>5, <1>6 DEF Next, PollerStep, OwnStep, Answer

\* Nothing is lost silently: while the process has counted no drop, every
\* client has been sent every row that came up while it was registered and
\* that it may see, on whichever of the two topics it listens.
THEOREM StreamLosesNothingSilently == Spec => []NoSilentLoss
  <1>1. Init => LossInv
    <2>1. Init => OwedInv
      BY DEF Init, HubInit, OwedInv
    <2> QED
      BY <2>1, FeedInvInit DEF LossInv
  <1>2. LossInv => NoSilentLoss
    BY DEF LossInv, OwedInv, LostTotal, Has, NoSilentLoss
  <1> QED
    BY <1>1, <1>2, LossInvNext, PTL DEF Spec

=============================================================================
