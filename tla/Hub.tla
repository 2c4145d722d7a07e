-------------------------------- MODULE Hub --------------------------------
(***************************************************************************)
(* The in-memory fan-out hub of main.go and the SSE handlers that serve    *)
(* one connection each.  Processes: the broadcasting goroutine (in the     *)
(* composed system that is the poller, see Poller.tla) and one handler per *)
(* connection.  They share h.clients under the RWMutex h.mu, and one       *)
(* buffered channel per client.                                            *)
(*                                                                         *)
(* h.mu: register, the map update of unregister, and count are critical    *)
(* sections without a step in between, so each is one action; broadcast    *)
(* holds the read lock over many channel sends, and msg # NoMsg says that  *)
(* it does.  A writer can take the lock only while msg = NoMsg.            *)
(*                                                                         *)
(* c.ch: queue[c] is everything ever sent on the channel of connection c   *)
(* and taken[c] how much of it the handler has received, so the channel    *)
(* buffers queue[c][taken[c]+1 ..].                                        *)
(***************************************************************************)
EXTENDS Scope, Integers, Sequences, FiniteSets

CONSTANTS
    Conns,          \* connection slots; a slot is reused once it is free
    Topics,         \* the topics messages are published under
    Payloads,       \* sseMessage.data: opaque bytes to the hub
    Subscriptions,  \* what a caller may connect with: [topic, scope]
    ClientBuffer,   \* clientBuffer, the capacity of a client's channel
    NoMsg           \* "no broadcast in progress"

\* client.topic of a caller that gave no composition_id, and the topic that
\* such a caller is served from.
NoTopic     == ""
GlobalTopic == "krateo"

Message == [topic     : Topics,
            data      : Payloads,
            namespace : Namespaces \cup {NoNamespace}]

ASSUME HubAssumption ==
    /\ GlobalTopic \in Topics
    /\ NoTopic \notin Topics
    /\ Subscriptions \subseteq [topic : Topics \cup {NoTopic}, scope : Scopes]
    /\ ClientBuffer \in Nat \ {0}
    /\ NoMsg \notin Message

VARIABLES
    clients,   \* h.clients
    pc,        \* where the handler of each connection is
    sub,       \* client.topic and client.scope, fixed at connect time
    queue,     \* everything sent on c.ch
    taken,     \* how much of queue the handler has received
    open,      \* c.ch exists and is not closed
    msg,       \* the argument of the broadcast in progress, or NoMsg
    todo,      \* clients its range loop has not reached
    tally      \* its named results (sent, dropped)

connVars == <<clients, pc, sub, queue, taken, open>>
hubVars  == <<clients, pc, sub, queue, taken, open, msg, todo, tally>>

PCs == {"off", "connecting", "streaming", "leaving", "closing"}

NoSub   == [topic |-> NoTopic, scope |-> NilScope]
NoTally == [sent |-> 0, dropped |-> 0]

\* The types of the state; the channel of a client never holds more than
\* clientBuffer messages and is never received from when it is empty.
HubTypeOK ==
    /\ clients \subseteq Conns
    /\ pc \in [Conns -> PCs]
    /\ sub \in [Conns -> [topic : Topics \cup {NoTopic}, scope : Scopes]]
    /\ queue \in [Conns -> Seq(Message)]
    /\ taken \in [Conns -> Nat]
    /\ \A c \in Conns : Len(queue[c]) - taken[c] \in 0 .. ClientBuffer
    /\ open \in [Conns -> BOOLEAN]
    /\ msg \in Message \cup {NoMsg}
    /\ todo \subseteq Conns
    /\ tally \in [sent : Nat, dropped : Nat]

-----------------------------------------------------------------------------
\* newHub; no request has been served.
HubInit ==
    /\ clients = {}
    /\ pc = [c \in Conns |-> "off"]
    /\ sub = [c \in Conns |-> NoSub]
    /\ queue = [c \in Conns |-> <<>>]
    /\ taken = [c \in Conns |-> 0]
    /\ open = [c \in Conns |-> FALSE]
    /\ msg = NoMsg
    /\ todo = {}
    /\ tally = NoTally

\* The topic a client is served from: a client with no topic takes the
\* global topic only.
Subscribed(c) == IF sub[c].topic = NoTopic THEN GlobalTopic ELSE sub[c].topic

\* Mutants: a client with no topic matches every topic; the topics, or the
\* scope, are not looked at.
Wants_AllTopics(c, m) ==
    /\ sub[c].topic \in {NoTopic, m.topic}
    /\ Allows(sub[c].scope, m.namespace)

Wants_ScopeOnly(c, m) == Allows(sub[c].scope, m.namespace)

Wants_TopicOnly(c, m) == m.topic = Subscribed(c)

\* (c *client) wants(msg)
Wants(c, m) ==
    /\ m.topic = Subscribed(c)
    /\ Allows(sub[c].scope, m.namespace)

\* len(c.ch)
Backlog(c) == Len(queue[c]) - taken[c]

\* Mutant: room for one message more than the channel has.
HasRoom_OffByOne(c) == Backlog(c) <= ClientBuffer

\* The send of broadcast's select can proceed.
HasRoom(c) == Backlog(c) < ClientBuffer

\* The receive of the handler's select can proceed.
HasMessage(c) == Backlog(c) > 0

\* Mutant: the map is updated without the lock.
CanLock_Always == TRUE

\* h.mu.Lock() returns only while no broadcast holds the read lock.
CanLock == msg = NoMsg

\* hub.count()
HubCount == Cardinality(clients)

-----------------------------------------------------------------------------
(***************************************************************************)
(* handleSSE.                                                              *)
(***************************************************************************)

\* The scope is resolved, the headers are set, newClient has run: the handler
\* is about to call register.
Connect(c, s) ==
    /\ pc[c] = "off"
    /\ pc' = [pc EXCEPT ![c] = "connecting"]
    /\ sub' = [sub EXCEPT ![c] = s]
    /\ open' = [open EXCEPT ![c] = TRUE]
    /\ UNCHANGED <<clients, queue, taken, msg, todo, tally>>

\* h.register(c), then the ": connected" comment.
Register(c) ==
    /\ pc[c] = "connecting"
    /\ CanLock
    /\ clients' = clients \cup {c}
    /\ pc' = [pc EXCEPT ![c] = "streaming"]
    /\ UNCHANGED <<sub, queue, taken, open, msg, todo, tally>>

\* case msg := <-c.ch: receive one message and write its frame.
Take(c) ==
    /\ pc[c] = "streaming"
    /\ HasMessage(c)
    /\ taken' = [taken EXCEPT ![c] = @ + 1]
    /\ UNCHANGED <<clients, pc, sub, queue, open, msg, todo, tally>>

\* case <-r.Context().Done(): the handler returns, whatever is buffered.
Leave(c) ==
    /\ pc[c] = "streaming"
    /\ pc' = [pc EXCEPT ![c] = "leaving"]
    /\ UNCHANGED <<clients, sub, queue, taken, open, msg, todo, tally>>

\* Mutant: a client with something in its buffer stays in the map.
Delete_Drained(c) == Backlog(c) = 0 /\ clients' = clients \ {c}

\* delete(h.clients, c)
Delete(c) == clients' = clients \ {c}

\* The deferred h.unregister(c) up to its Unlock.
Unregister(c) ==
    /\ pc[c] = "leaving"
    /\ CanLock
    /\ Delete(c)
    /\ pc' = [pc EXCEPT ![c] = "closing"]
    /\ UNCHANGED <<sub, queue, taken, open, msg, todo, tally>>

\* close(c.ch), outside the lock.  The client is garbage from here on.
CloseChan(c) ==
    /\ pc[c] = "closing"
    /\ pc' = [pc EXCEPT ![c] = "off"]
    /\ open' = [open EXCEPT ![c] = FALSE]
    /\ sub' = [sub EXCEPT ![c] = NoSub]
    /\ queue' = [queue EXCEPT ![c] = <<>>]
    /\ taken' = [taken EXCEPT ![c] = 0]
    /\ UNCHANGED <<clients, msg, todo, tally>>

HandlerStep(c) ==
    \/ Take(c)
    \/ Leave(c)
    \/ Unregister(c)
    \/ CloseChan(c)

-----------------------------------------------------------------------------
(***************************************************************************)
(* (h *hub) broadcast(msg).                                                *)
(***************************************************************************)

\* h.mu.RLock(); the range loop is about to start.
BroadcastBegin(m) ==
    /\ msg = NoMsg
    /\ msg' = m
    /\ todo' = clients
    /\ tally' = NoTally
    /\ UNCHANGED connVars

\* case c.ch <- msg: sent++
Send(c) ==
    /\ HasRoom(c)
    /\ queue' = [queue EXCEPT ![c] = Append(@, msg)]
    /\ tally' = [tally EXCEPT !.sent = @ + 1]

\* Mutant: a send that waits for room.
Drop_Never(c) == FALSE

\* default: dropped++, without blocking.
Drop(c) ==
    /\ ~HasRoom(c)
    /\ tally' = [tally EXCEPT !.dropped = @ + 1]
    /\ UNCHANGED queue

\* One iteration of the range loop.
Visit(c) ==
    /\ c \in todo
    /\ todo' = todo \ {c}
    /\ \/ ~Wants(c, msg) /\ UNCHANGED <<queue, tally>>
       \/ Wants(c, msg) /\ (Send(c) \/ Drop(c))
    /\ UNCHANGED <<clients, pc, sub, taken, open, msg>>

\* The deferred h.mu.RUnlock(); the caller gets tally.
BroadcastEnd ==
    /\ msg # NoMsg
    /\ todo = {}
    /\ msg' = NoMsg
    /\ tally' = NoTally
    /\ UNCHANGED <<clients, pc, sub, queue, taken, open, todo>>

\* The process dies: everything here is in memory.
HubCrash ==
    /\ clients' = {}
    /\ pc' = [c \in Conns |-> "off"]
    /\ sub' = [c \in Conns |-> NoSub]
    /\ queue' = [c \in Conns |-> <<>>]
    /\ taken' = [c \in Conns |-> 0]
    /\ open' = [c \in Conns |-> FALSE]
    /\ msg' = NoMsg
    /\ todo' = {}
    /\ tally' = NoTally

-----------------------------------------------------------------------------
\* A hub on which anything may be broadcast at any time.
HubNext ==
    \/ \E c \in Conns, s \in Subscriptions : Connect(c, s)
    \/ \E c \in Conns : Register(c)
    \/ \E c \in Conns : HandlerStep(c)
    \/ \E m \in Message : BroadcastBegin(m)
    \/ \E c \in Conns : Visit(c)
    \/ BroadcastEnd
    \/ HubCrash

HubSpec == HubInit /\ [][HubNext]_hubVars

-----------------------------------------------------------------------------
\* unregister deletes the client under the write lock and closes its channel
\* after that, so a broadcast, which ranges over the map under the read lock,
\* never reaches a closed channel: a send on one panics, and the poller's
\* panic would take the process down.
NoSendOnClosed == \A c \in todo : open[c]

\* While a broadcast runs, every client it has passed that wants the message
\* is counted once, as sent or as dropped, and it passes every client that
\* was registered when it took the lock: nobody is skipped or added midway.
FanOutAccounted ==
    msg # NoMsg =>
        /\ todo \subseteq clients
        /\ tally.sent + tally.dropped =
               Cardinality({c \in clients \ todo : Wants(c, msg)})

-----------------------------------------------------------------------------
(***************************************************************************)
(* Fairness.  The broadcasting goroutine and a handler that has work are   *)
(* scheduled.  A writer that waits for h.mu gets it: Go's RWMutex lets no  *)
(* new reader in front of a waiting writer, hence strong fairness.         *)
(* Nothing is assumed of the network: a client need not read, and then the *)
(* Fprintf of its handler may block for ever.                              *)
(***************************************************************************)
HubFairness ==
    /\ \A c \in Conns : /\ SF_hubVars(Register(c))
                        /\ SF_hubVars(Unregister(c))
                        /\ WF_hubVars(CloseChan(c))
                        /\ WF_hubVars(Visit(c))
    /\ WF_hubVars(BroadcastEnd)

\* "A slow client must not stall the fan-out": a broadcast ends even if some
\* clients never read.
BroadcastEnds == [](msg # NoMsg => <>(msg = NoMsg))

\* A client whose request is done leaves the map and its channel is closed,
\* however busy the broadcasts keep the lock.
DepartedIsFreed == \A c \in Conns : pc[c] = "leaving" ~> pc[c] = "off"

\* The stream reaches whoever connects and reads, unless its request ends
\* first, if a message that it wants keeps being published: broadcasts that
\* take the lock again and again do not keep it out of the map, and another
\* client that never reads, with its buffer full, does not hold up the next
\* broadcast.
StreamReachesReaders ==
    \A c \in Conns, m \in Message :
        WF_hubVars(Take(c)) /\ SF_hubVars(BroadcastBegin(m)) =>
            (pc[c] = "connecting" /\ Wants(c, m))
                ~> (taken[c] > 0 \/ pc[c] \notin {"connecting", "streaming"})

=============================================================================
