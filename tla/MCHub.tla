------------------------------- MODULE MCHub -------------------------------
(***************************************************************************)
(* A small hub on which every message may be broadcast at any time.  The   *)
(* history of a channel is cut off at MaxSent messages per connection, and *)
(* a slot that is reused starts again; for a client that never reads, with *)
(* its buffer full, broadcasts go on for ever.                             *)
(***************************************************************************)
EXTENDS Hub

CONSTANT MaxSent

MCSubscriptions ==
    {[topic |-> NoTopic, scope |-> NilScope],
     [topic |-> "x1",    scope |-> SetScope({"n1"})]}

MCNext ==
    \/ \E c \in Conns, s \in Subscriptions : Connect(c, s)
    \/ \E c \in Conns : Register(c)
    \/ \E c \in Conns : HandlerStep(c)
    \/ /\ \A c \in Conns : Len(queue[c]) < MaxSent
       /\ \E m \in Message : BroadcastBegin(m)
    \/ \E c \in Conns : Visit(c)
    \/ BroadcastEnd
    \/ HubCrash

MCSpec     == HubInit /\ [][MCNext]_hubVars
MCLiveSpec == MCSpec /\ HubFairness

=============================================================================
