------------------------------ MODULE LiveFeed ------------------------------
(***************************************************************************)
(* What GET /notifications promises, without hub, topics, polls or locks:  *)
(* each subscriber has a bounded feed of rows it is entitled to, each row  *)
(* at most once and in the order of their timestamps; a row may be lost    *)
(* for a subscriber only while its feed is full, and the process counts    *)
(* what it sent and what it lost.  Poller.tla implements this.             *)
(***************************************************************************)
EXTENDS Integers, Sequences

CONSTANTS Conns, Rows, Buffer

VARIABLES
    open,      \* who is subscribed
    entitled,  \* the rows each subscriber may see, fixed when it subscribes
    feed,      \* the rows sent to it, oldest first
    taken,     \* how many of them it has received
    sent,      \* rows sent by this process, over all subscribers
    lost       \* rows lost by this process, over all subscribers

feedVars == <<open, entitled, feed, taken, sent, lost>>

Empty ==
    /\ open = [c \in Conns |-> FALSE]
    /\ entitled = [c \in Conns |-> {}]
    /\ feed = [c \in Conns |-> <<>>]
    /\ taken = [c \in Conns |-> 0]
    /\ sent = 0
    /\ lost = 0

Waiting(c) == Len(feed[c]) - taken[c]

\* Row r can come next in the feed of c.
CanFollow(c, r) ==
    \A i \in 1 .. Len(feed[c]) : feed[c][i] # r /\ feed[c][i].ts <= r.ts

Subscribe(c) ==
    /\ ~open[c]
    /\ open' = [open EXCEPT ![c] = TRUE]
    /\ \E S \in SUBSET Rows : entitled' = [entitled EXCEPT ![c] = S]
    /\ UNCHANGED <<feed, taken, sent, lost>>

Deliver(c, r) ==
    /\ sent' = sent + 1
    /\ feed' = [feed EXCEPT ![c] = Append(@, r)]
    /\ r \in entitled[c]
    /\ CanFollow(c, r)
    /\ Waiting(c) < Buffer
    /\ UNCHANGED <<open, entitled, taken, lost>>

Lose(c, r) ==
    /\ lost' = lost + 1
    /\ r \in entitled[c]
    /\ CanFollow(c, r)
    /\ Waiting(c) = Buffer
    /\ UNCHANGED <<open, entitled, feed, taken, sent>>

Receive(c) ==
    /\ taken' = [taken EXCEPT ![c] = @ + 1]
    /\ Waiting(c) > 0
    /\ UNCHANGED <<open, entitled, feed, sent, lost>>

Unsubscribe(c) ==
    /\ open[c]
    /\ open' = [open EXCEPT ![c] = FALSE]
    /\ entitled' = [entitled EXCEPT ![c] = {}]
    /\ feed' = [feed EXCEPT ![c] = <<>>]
    /\ taken' = [taken EXCEPT ![c] = 0]
    /\ UNCHANGED <<sent, lost>>

\* A new process knows of no subscriber and counts from zero.
NewProcess == Empty'

FeedNext ==
    \/ \E c \in Conns : Subscribe(c) \/ Receive(c) \/ Unsubscribe(c)
    \/ \E c \in Conns, r \in Rows : Deliver(c, r) \/ Lose(c, r)
    \/ NewProcess

FeedSpec == Empty /\ [][FeedNext]_feedVars

=============================================================================
