----------------------------- MODULE HubProofs -----------------------------
(***************************************************************************)
(* The hub's safety for any set of connections, topics and messages and    *)
(* any buffer size.                                                        *)
(***************************************************************************)
EXTENDS Hub, FiniteSetTheorems, TLAPS

\* The map has exactly the clients whose handlers are between register and
\* unregister; their channels are open, and a broadcast's range loop is over
\* a part of the map.  The last two are what the lock buys: nothing can leave
\* the map while a broadcast is under way.
MapMatchesHandlers ==
    \A c \in Conns : c \in clients <=> pc[c] \in {"streaming", "leaving"}

OpenUntilClosed == \A c \in Conns : open[c] <=> pc[c] # "off"

LoopWithinMap ==
    /\ todo \subseteq clients
    /\ msg = NoMsg => todo = {}

HubInv ==
    /\ HubTypeOK
    /\ MapMatchesHandlers
    /\ OpenUntilClosed
    /\ LoopWithinMap

\* A new hub satisfies the inductive invariant (newHub).
LEMMA HubInvInit == HubInit => HubInv
  <1> SUFFICES ASSUME HubInit PROVE HubInv
    OBVIOUS
  <1>1. HubTypeOK
    BY HubAssumption DEF HubInit, HubTypeOK, PCs, NoSub, NoTally, Scopes, NilScope
  <1>2. MapMatchesHandlers /\ OpenUntilClosed /\ LoopWithinMap
    BY DEF HubInit, MapMatchesHandlers, OpenUntilClosed, LoopWithinMap
  <1> QED
    BY <1>1, <1>2 DEF HubInv

\* The handlers' steps (handleSSE, register, unregister).
LEMMA HandlersKeepHubInv ==
    ASSUME HubInv, NEW c \in Conns,
           \/ \E s \in Subscriptions : Connect(c, s)
           \/ Register(c)
           \/ HandlerStep(c)
    PROVE  HubInv'
  <1> USE HubAssumption DEF HubInv
  <1>1. CASE \E s \in Subscriptions : Connect(c, s)
    <2> PICK s \in Subscriptions : Connect(c, s)
      BY <1>1
    <2>1. HubTypeOK'
      BY DEF Connect, HubTypeOK, PCs
    <2>2. (MapMatchesHandlers /\ OpenUntilClosed /\ LoopWithinMap)'
      BY DEF Connect, HubTypeOK, MapMatchesHandlers, OpenUntilClosed, LoopWithinMap
    <2> QED
      BY <2>1, <2>2
  <1>2. CASE Register(c)
    <2>1. HubTypeOK'
      BY <1>2 DEF Register, CanLock, HubTypeOK, PCs
    <2>2. (MapMatchesHandlers /\ OpenUntilClosed /\ LoopWithinMap)'
      BY <1>2 DEF Register, CanLock, HubTypeOK, MapMatchesHandlers, OpenUntilClosed,
         LoopWithinMap
    <2> QED
      BY <2>1, <2>2
  <1>3. CASE Take(c)
    <2>1. HubTypeOK'
      BY <1>3 DEF Take, HasMessage, Backlog, HubTypeOK, PCs
    <2>2. (MapMatchesHandlers /\ OpenUntilClosed /\ LoopWithinMap)'
      BY <1>3 DEF Take, MapMatchesHandlers, OpenUntilClosed, LoopWithinMap
    <2> QED
      BY <2>1, <2>2
  <1>4. CASE Leave(c)
    <2>1. HubTypeOK'
      BY <1>4 DEF Leave, HubTypeOK, PCs
    <2>2. (MapMatchesHandlers /\ OpenUntilClosed /\ LoopWithinMap)'
      BY <1>4 DEF Leave, HubTypeOK, MapMatchesHandlers, OpenUntilClosed, LoopWithinMap
    <2> QED
      BY <2>1, <2>2
  <1>5. CASE Unregister(c)
    <2>1. HubTypeOK'
      BY <1>5 DEF Unregister, CanLock, Delete, HubTypeOK, PCs
    <2>2. (MapMatchesHandlers /\ OpenUntilClosed /\ LoopWithinMap)'
      BY <1>5 DEF Unregister, CanLock, Delete, HubTypeOK, MapMatchesHandlers,
         OpenUntilClosed, LoopWithinMap
    <2> QED
      BY <2>1, <2>2
  <1>6. CASE CloseChan(c)
    <2>1. HubTypeOK'
      BY <1>6 DEF CloseChan, HubTypeOK, PCs, NoSub, Scopes, NilScope
    <2>2. (MapMatchesHandlers /\ OpenUntilClosed /\ LoopWithinMap)'
      BY <1>6 DEF CloseChan, HubTypeOK, MapMatchesHandlers, OpenUntilClosed, LoopWithinMap
    <2> QED
      BY <2>1, <2>2
  <1> QED
    BY <1>1, <1>2, <1>3, <1>4, <1>5, <1>6 DEF HandlerStep

\* One turn of broadcast's range loop: a non-blocking send.
LEMMA VisitKeepsHubInv ==
    ASSUME HubInv, NEW c \in Conns, Visit(c)
    PROVE  HubInv'
  <1> USE HubAssumption DEF HubInv
  <1>1. msg \in Message
    BY DEF Visit, LoopWithinMap, HubTypeOK
  <1>2. /\ queue' \in [Conns -> Seq(Message)]
        /\ tally' \in [sent : Nat, dropped : Nat]
        /\ \A d \in Conns : Len(queue'[d]) - taken'[d] \in 0 .. ClientBuffer
    <2>1. CASE UNCHANGED <<queue, tally>>
      BY <2>1 DEF Visit, HubTypeOK
    <2>2. CASE Drop(c)
      <3>1. queue' = queue /\ taken' = taken
        BY <2>2 DEF Visit, Drop
      <3>2. tally' \in [sent : Nat, dropped : Nat]
        <4> HIDE DEF HubInv
        <4>1. tally \in [sent : Nat, dropped : Nat]
          BY DEF HubInv, HubTypeOK
        <4> QED
          BY <2>2, <4>1 DEF Drop
      <3> QED
        BY <3>1, <3>2 DEF HubTypeOK
    <2>3. CASE Send(c)
      <3>1. queue[c] \in Seq(Message) /\ Append(queue[c], msg) \in Seq(Message)
        BY <1>1 DEF HubTypeOK
      <3>2. Len(Append(queue[c], msg)) = Len(queue[c]) + 1
        BY <1>1, <3>1
      <3>3. queue' \in [Conns -> Seq(Message)]
        BY <2>3, <3>1 DEF Send, HubTypeOK
      <3>4. tally' \in [sent : Nat, dropped : Nat]
        <4> HIDE DEF HubInv
        <4>1. tally \in [sent : Nat, dropped : Nat]
          BY DEF HubInv, HubTypeOK
        <4> QED
          BY <2>3, <4>1 DEF Send
      <3>5. Len(queue'[c]) - taken'[c] \in 0 .. ClientBuffer
        <4>1. queue'[c] = Append(queue[c], msg)
          BY <2>3 DEF Send, HubTypeOK
        <4>2. taken' = taken /\ taken[c] \in Nat
          BY DEF Visit, HubTypeOK
        <4>3. Len(queue[c]) \in Nat /\ Len(queue[c]) - taken[c] \in 0 .. ClientBuffer
          BY <3>1 DEF HubTypeOK
        <4> QED
          BY <2>3, <3>2, <4>1, <4>2, <4>3 DEF Send, HasRoom, Backlog
      <3>6. ASSUME NEW d \in Conns, d # c
            PROVE  Len(queue'[d]) - taken'[d] \in 0 .. ClientBuffer
        <4>1. queue'[d] = queue[d] /\ taken' = taken
          BY <2>3, <3>6 DEF Visit, Send, HubTypeOK
        <4> QED
          BY <4>1 DEF HubTypeOK
      <3> QED
        BY <3>3, <3>4, <3>5, <3>6
    <2> QED
      BY <2>1, <2>2, <2>3 DEF Visit
  <1>3. HubTypeOK'
    BY <1>2 DEF Visit, HubTypeOK
  <1>4. (MapMatchesHandlers /\ OpenUntilClosed /\ LoopWithinMap)'
    BY DEF Visit, MapMatchesHandlers, OpenUntilClosed, LoopWithinMap
  <1> QED
    BY <1>3, <1>4

\* Every step of the hub keeps the inductive invariant.
LEMMA HubInvNext == HubInv /\ [HubNext]_hubVars => HubInv'
  <1> SUFFICES ASSUME HubInv, [HubNext]_hubVars PROVE HubInv'
    OBVIOUS
  <1> USE HubAssumption
  <1>1. ASSUME NEW c \in Conns,
               \/ \E s \in Subscriptions : Connect(c, s)
               \/ Register(c)
               \/ HandlerStep(c)
        PROVE  HubInv'
    BY <1>1, HandlersKeepHubInv
  <1>2. ASSUME NEW m \in Message, BroadcastBegin(m)
        PROVE  HubInv'
    BY <1>2 DEF HubInv, BroadcastBegin, connVars, NoTally, HubTypeOK,
                MapMatchesHandlers, OpenUntilClosed, LoopWithinMap
  <1>3. ASSUME NEW c \in Conns, Visit(c)
        PROVE  HubInv'
    BY <1>3, VisitKeepsHubInv
  <1>4. CASE BroadcastEnd
    BY <1>4 DEF HubInv, BroadcastEnd, NoTally, HubTypeOK,
                MapMatchesHandlers, OpenUntilClosed, LoopWithinMap
  <1>5. CASE HubCrash
    <2>1. HubTypeOK'
      BY <1>5 DEF HubCrash, HubTypeOK, PCs, NoSub, NoTally, Scopes, NilScope
    <2>2. (MapMatchesHandlers /\ OpenUntilClosed /\ LoopWithinMap)'
      BY <1>5 DEF HubCrash, MapMatchesHandlers, OpenUntilClosed, LoopWithinMap
    <2> QED
      BY <2>1, <2>2 DEF HubInv
  <1>6. CASE UNCHANGED hubVars
    BY <1>6 DEF hubVars, HubInv, HubTypeOK, MapMatchesHandlers, OpenUntilClosed, LoopWithinMap
  <1> QED
    BY <1>1, <1>2, <1>3, <1>4, <1>5, <1>6 DEF HubNext

\* The types of the hub's state hold in every run, and with them the bound on
\* every client's channel.
THEOREM HubTypeCorrect == HubSpec => []HubTypeOK
  <1>1. HubInv => HubTypeOK
    BY DEF HubInv
  <1> QED
    BY <1>1, HubInvInit, HubInvNext, PTL DEF HubSpec

\* No broadcast ever sends on a closed channel, whatever the number of
\* clients and however they come and go.
THEOREM HubNeverSendsOnClosed == HubSpec => []NoSendOnClosed
  <1>1. HubInv => NoSendOnClosed
    BY DEF HubInv, HubTypeOK, MapMatchesHandlers, OpenUntilClosed, LoopWithinMap,
           NoSendOnClosed
  <1> QED
    BY <1>1, HubInvInit, HubInvNext, PTL DEF HubSpec

-----------------------------------------------------------------------------
\* The clients that the broadcast in progress has passed and that want its
\* message.
Served == {c \in clients \ todo : Wants(c, msg)}

\* Only so many handlers have registered, and the counts of broadcast are the
\* clients it has served.
FanOutInv ==
    /\ HubInv
    /\ IsFiniteSet(clients)
    /\ msg # NoMsg => tally.sent + tally.dropped = Cardinality(Served)

\* What a handler does between two turns of the range loop concerns no client
\* of the map: it cannot enter or leave the map, and only a client outside it
\* connects or is closed.
LEMMA HandlersKeepServed ==
    ASSUME HubInv, msg # NoMsg, NEW c \in Conns,
           \/ \E s \in Subscriptions : Connect(c, s)
           \/ Register(c)
           \/ HandlerStep(c)
    PROVE  Served' = Served /\ UNCHANGED <<clients, msg, tally>>
  <1>1. UNCHANGED <<clients, msg, todo, tally>>
    BY DEF Connect, Register, HandlerStep, Take, Leave, Unregister, CloseChan, CanLock
  <1>2. \A d \in clients : sub'[d] = sub[d]
    <2>1. CASE pc[c] \in {"off", "closing"}
      <3>1. c \notin clients /\ clients \subseteq Conns
        BY <2>1 DEF HubInv, HubTypeOK, MapMatchesHandlers
      <3> QED
        BY <3>1 DEF HubInv, HubTypeOK, Connect, Register, HandlerStep, Take, Leave,
           Unregister, CloseChan
    <2>2. CASE pc[c] \notin {"off", "closing"}
      BY <2>2 DEF Connect, Register, HandlerStep, Take, Leave, Unregister, CloseChan
    <2> QED
      BY <2>1, <2>2
  <1>3. \A d \in clients : Wants(d, msg)' = Wants(d, msg)
    BY <1>1, <1>2 DEF Wants, Subscribed, Allows
  <1> QED
    BY <1>1, <1>3 DEF Served

\* A turn of the loop serves the client it visits if that one wants the
\* message, and nobody else.
LEMMA VisitServes ==
    ASSUME FanOutInv, NEW c \in Conns, Visit(c)
    PROVE  FanOutInv'
  <1>1. HubInv'
    BY VisitKeepsHubInv DEF FanOutInv
  <1>2. msg # NoMsg /\ UNCHANGED <<clients, sub, msg>>
    BY DEF Visit, FanOutInv, HubInv, LoopWithinMap
  <1>3. \A d \in Conns : Wants(d, msg)' = Wants(d, msg)
    BY <1>2 DEF Wants, Subscribed, Allows
  <1>4. c \in clients /\ c \in todo /\ todo' = todo \ {c} /\ clients \subseteq Conns
    BY DEF Visit, FanOutInv, HubInv, HubTypeOK, LoopWithinMap
  <1>5. IsFiniteSet(Served) /\ c \notin Served
    BY <1>4, FS_Subset DEF FanOutInv, Served
  <1>6. tally.sent \in Nat /\ tally.dropped \in Nat
    BY DEF FanOutInv, HubInv, HubTypeOK
  <1>7. CASE ~Wants(c, msg) /\ UNCHANGED tally
    <2>1. Served' = Served
      BY <1>2, <1>3, <1>4, <1>7 DEF Served
    <2> QED
      BY <1>1, <1>2, <1>7, <2>1 DEF FanOutInv
  <1>8. CASE Wants(c, msg) /\ (Send(c) \/ Drop(c))
    <2>1. Served' = Served \cup {c}
      BY <1>2, <1>3, <1>4, <1>8 DEF Served
    <2>2. Cardinality(Served') = Cardinality(Served) + 1
      BY <1>5, <2>1, FS_AddElement
    <2>3. tally'.sent + tally'.dropped = tally.sent + tally.dropped + 1
      <3>1. tally \in [sent : Nat, dropped : Nat]
        BY DEF FanOutInv, HubInv, HubTypeOK
      <3>2. CASE Send(c)
        <4>1. tally'.sent = tally.sent + 1 /\ tally'.dropped = tally.dropped
          BY <3>1, <3>2 DEF Send
        <4> QED
          BY <1>6, <4>1
      <3>3. CASE Drop(c)
        <4>1. tally'.sent = tally.sent /\ tally'.dropped = tally.dropped + 1
          BY <3>1, <3>3 DEF Drop
        <4> QED
          BY <1>6, <4>1
      <3> QED
        BY <1>8, <3>2, <3>3
    <2> QED
      BY <1>1, <1>2, <2>2, <2>3 DEF FanOutInv
  <1> QED
    BY <1>7, <1>8 DEF Visit

\* Every operation of the hub keeps the account.
LEMMA FanOutInvNext == FanOutInv /\ [HubNext]_hubVars => FanOutInv'
  <1> SUFFICES ASSUME FanOutInv, [HubNext]_hubVars PROVE FanOutInv'
    OBVIOUS
  <1>1. HubInv /\ HubInv'
    BY HubInvNext DEF FanOutInv
  <1>2. ASSUME NEW c \in Conns,
               \/ \E s \in Subscriptions : Connect(c, s)
               \/ Register(c)
               \/ HandlerStep(c)
        PROVE  FanOutInv'
    <2>1. IsFiniteSet(clients')
      <3>1. clients' \in SUBSET (clients \cup {c})
        BY <1>2 DEF Connect, Register, HandlerStep, Take, Leave, Unregister, Delete, CloseChan
      <3> QED
        BY <3>1, FS_AddElement, FS_Subset DEF FanOutInv
    <2>2. msg' = msg
      BY <1>2 DEF Connect, Register, HandlerStep, Take, Leave, Unregister, CloseChan
    <2> QED
      BY <1>1, <1>2, <2>1, <2>2, HandlersKeepServed DEF FanOutInv
  <1>3. ASSUME NEW m \in Message, BroadcastBegin(m)
        PROVE  FanOutInv'
    <2>1. Served' = {}
      BY <1>3 DEF BroadcastBegin, connVars, Served
    <2>2. tally'.sent + tally'.dropped = 0
      BY <1>3 DEF BroadcastBegin, NoTally
    <2>3. clients' = clients
      BY <1>3 DEF BroadcastBegin, connVars
    <2> QED
      BY <1>1, <2>1, <2>2, <2>3, FS_EmptySet DEF FanOutInv
  <1>4. ASSUME NEW c \in Conns, Visit(c) PROVE FanOutInv'
    BY <1>4, VisitServes
  <1>5. CASE BroadcastEnd \/ HubCrash
    BY <1>1, <1>5, FS_EmptySet DEF BroadcastEnd, HubCrash, FanOutInv
  <1>6. CASE UNCHANGED hubVars
    <2>1. Served' = Served
      BY <1>6 DEF hubVars, Served, Wants, Subscribed, Allows
    <2> QED
      BY <1>1, <1>6, <2>1 DEF hubVars, FanOutInv
  <1> QED
    BY <1>2, <1>3, <1>4, <1>5, <1>6 DEF HubNext

\* A broadcast counts every client that was in the map when it took the lock
\* and that wants the message exactly once, as sent or as dropped, for any
\* number of clients.
THEOREM HubFanOutAccounted == HubSpec => []FanOutAccounted
  <1>1. HubInit => FanOutInv
    BY HubInvInit, FS_EmptySet DEF HubInit, FanOutInv
  <1>2. FanOutInv => FanOutAccounted
    BY DEF FanOutInv, HubInv, LoopWithinMap, Served, FanOutAccounted
  <1> QED
    BY <1>1, <1>2, FanOutInvNext, PTL DEF HubSpec

=============================================================================
