------------------------------- MODULE Poller -------------------------------
(***************************************************************************)
(* The poller of main.go composed with the hub and the SSE handlers, and   *)
(* with what they run against: the otel_logs table that the collector      *)
(* fills, the wall clock (in seconds) and the ticker.                      *)
(*                                                                         *)
(* One poller goroutine runs tick, poll and broadcast in sequence; "phase" *)
(* says where in them it is.  Handlers, the collector and the clock take   *)
(* steps in between wherever the code holds no lock.                       *)
(***************************************************************************)
EXTENDS Hub, OtelLogs

CONSTANTS
    Rows,           \* k8s-events rows the collector may write (see ChRow)
    Batches,        \* the sets of rows that one INSERT may carry
    PollLimit,      \* pollLimit
    Lookback,       \* liveLookback, in seconds
    StartTime, MaxTime,  \* the wall clock runs from StartTime to MaxTime
    MaxBoots,       \* bound on restarts of the process
    MaxPollErrors,  \* bound on failed polls
    NoTick, NoRow   \* "nothing in ticker.C", "no row in the loop"

ASSUME PollerAssumption ==
    /\ Rows \subseteq ChRow
    /\ IsFiniteSet(Rows)
    /\ IsFiniteSet(Conns)
    /\ Batches \subseteq SUBSET Rows
    /\ GlobalTopic \notin Compositions
    /\ Topics = Compositions \cup {GlobalTopic}
    /\ Payloads = {ToSSEK8sEvent(r) : r \in Rows}
    /\ PollLimit \in Nat
    /\ ClientBuffer = PollLimit
    /\ Lookback \in Nat
    /\ StartTime \in Nat
    /\ MaxTime \in Nat
    /\ NoTick \notin Int
    /\ NoRow \notin ChRow

VARIABLES
    now,           \* the wall clock
    table,         \* the k8s-events rows of otel_logs
    tick,          \* what ticker.C holds: a time, or NoTick
    lastSeenUnix,  \* p.lastSeenUnix, the cursor
    phase,         \* where the poller goroutine is
    pending,       \* rows of the page that poll's loop has not reached
    cur,           \* the row the loop is at
    maxTs, delivered, dropped,  \* locals of poll
    metrics,       \* the counters of proxyMetrics, and the number of boots
    \* history
    published,     \* rows put on the global topic since the hub was last empty
    left,          \* rows this poll's query could see and has not published
    cut,           \* whether LIMIT cut this poll's page
    behind,        \* connections with a backlog when the poll got its rows
    owed           \* rows that came up while c was registered and entitled

pollVars == <<tick, lastSeenUnix, phase, pending, cur, maxTs, delivered,
              dropped, metrics>>
envVars  == <<now, table>>
histVars == <<published, left, cut, behind, owed>>
vars     == <<hubVars, pollVars, envVars, histVars>>

Phases == {"wait", "query", "rows", "global", "between", "comp"}

\* The types of the poller's state.
PollerTypeOK ==
    /\ HubTypeOK
    /\ now \in Nat
    /\ table \subseteq Rows
    /\ tick \in Int \cup {NoTick}
    /\ lastSeenUnix \in Int
    /\ phase \in Phases
    /\ pending \subseteq Rows
    /\ cur \in Rows \cup {NoRow}
    /\ maxTs \in Int
    /\ delivered \in Nat
    /\ dropped \in Nat
    /\ metrics \in [eventsDelivered : Nat, eventsDropped : Nat,
                    pollErrors : Nat, boots : Nat]
    /\ published \subseteq Rows
    /\ left \subseteq Rows
    /\ cut \in BOOLEAN
    /\ behind \subseteq Conns
    /\ owed \in [Conns -> SUBSET Rows]

-----------------------------------------------------------------------------
\* liveCursor(now)
LiveCursor(t) == t - Lookback

NewMetrics == [eventsDelivered |-> 0, eventsDropped |-> 0,
               pollErrors |-> 0, boots |-> 1]

\* main makes the hub and the poller (newPoller), and run is about to wait
\* for its first tick.
Init ==
    /\ HubInit
    /\ tick = NoTick
    /\ lastSeenUnix = LiveCursor(StartTime)
    /\ phase = "wait"
    /\ pending = {}
    /\ cur = NoRow
    /\ maxTs = LiveCursor(StartTime)
    /\ delivered = 0
    /\ dropped = 0
    /\ metrics = NewMetrics
    /\ now = StartTime
    /\ table = {}
    /\ published = {}
    /\ left = {}
    /\ cut = FALSE
    /\ behind = {}
    /\ owed = [c \in Conns |-> {}]

-----------------------------------------------------------------------------
(***************************************************************************)
(* The environment.                                                        *)
(***************************************************************************)

Clock ==
    /\ now < MaxTime
    /\ now' = now + 1
    /\ UNCHANGED <<hubVars, pollVars, table, histVars>>

\* The collector inserts a batch of rows, at any time after the last of them
\* was stamped.
Insert(b) ==
    /\ b \cap table = {}
    /\ \A r \in b : r.ts <= now
    /\ table' = table \cup b
    /\ UNCHANGED <<hubVars, pollVars, now, histVars>>

\* time.Ticker: a channel of capacity one.  A tick that finds it full is
\* lost, and the one in it grows stale.
TickerFire ==
    /\ tick = NoTick
    /\ tick' = now
    /\ UNCHANGED <<hubVars, envVars, histVars, lastSeenUnix, phase, pending, cur,
                   maxTs, delivered, dropped, metrics>>

-----------------------------------------------------------------------------
(***************************************************************************)
(* Handlers: the steps of Hub.tla.  They share only the hub's state with   *)
(* the poller.                                                             *)
(***************************************************************************)
ForgetClosed ==
    /\ published' = IF clients' = {} THEN {} ELSE published
    /\ behind' = {c \in behind : open'[c]}
    /\ owed' = [c \in Conns |-> IF open'[c] THEN owed[c] ELSE {}]
    /\ UNCHANGED <<left, cut>>

\* Mutant: poll holds h.mu while it waits for ClickHouse.
HandlerFrame_WaitsForPoll ==
    /\ phase # "query"
    /\ ForgetClosed
    /\ UNCHANGED <<pollVars, envVars>>

\* A handler waits for nothing of the poller's but the lock of a broadcast.
HandlerFrame ==
    /\ ForgetClosed
    /\ UNCHANGED <<pollVars, envVars>>

Joins(c)   == Register(c) /\ HandlerFrame
Departs(c) == (Unregister(c) \/ CloseChan(c)) /\ HandlerFrame

Handler(c) ==
    /\ \/ \E s \in Subscriptions : Connect(c, s)
       \/ Register(c)
       \/ HandlerStep(c)
    /\ HandlerFrame

-----------------------------------------------------------------------------
(***************************************************************************)
(* tick and poll.                                                          *)
(***************************************************************************)

\* Mutants: the cursor is set to the tick's time without a look at where it
\* is; an idle tick leaves it.
IdleCursor_Unconditional == LiveCursor(tick)

IdleCursor_Stays == lastSeenUnix

\* The cursor after an idle tick: forward to the live edge, never back.
IdleCursor == IF LiveCursor(tick) > lastSeenUnix THEN LiveCursor(tick) ELSE lastSeenUnix

\* tick with nobody connected.
IdleTick ==
    /\ phase = "wait"
    /\ tick # NoTick
    /\ HubCount = 0
    /\ tick' = NoTick
    /\ lastSeenUnix' = IdleCursor
    /\ UNCHANGED <<hubVars, envVars, histVars, phase, pending, cur, maxTs,
                   delivered, dropped, metrics>>

\* tick with clients: poll sends its query.
PollTick ==
    /\ phase = "wait"
    /\ tick # NoTick
    /\ HubCount # 0
    /\ tick' = NoTick
    /\ phase' = "query"
    /\ UNCHANGED <<hubVars, envVars, histVars, lastSeenUnix, pending, cur, maxTs,
                   delivered, dropped, metrics>>

\* Mutant: every poll looks back, for the sake of late rows.
Eligible_Lookback == {r \in table : r.ts >= LiveCursor(lastSeenUnix)}

\* WHERE Timestamp >= lastSeenUnix + 1
Eligible == {r \in table : r.ts >= lastSeenUnix + 1}

\* The query is answered from the table as it is now; rows that cannot be
\* decoded are left out.
QueryOk ==
    /\ phase = "query"
    /\ \E page \in OldestFirst(Eligible, PollLimit) :
           /\ pending' = Decoded(page)
           /\ cut' = (page # Eligible)
    /\ left' = Eligible
    /\ behind' = {c \in Conns : Backlog(c) > 0}
    /\ phase' = "rows"
    /\ maxTs' = lastSeenUnix
    /\ UNCHANGED <<hubVars, envVars, tick, lastSeenUnix, cur, delivered, dropped,
                   metrics, published, owed>>

\* queryClickHouse returns an error: poll returns, the cursor stays.
QueryFail ==
    /\ phase = "query"
    /\ metrics.pollErrors < MaxPollErrors
    /\ metrics' = [metrics EXCEPT !.pollErrors = @ + 1]
    /\ phase' = "wait"
    /\ UNCHANGED <<hubVars, envVars, histVars, tick, lastSeenUnix, pending, cur,
                   maxTs, delivered, dropped>>

\* What poll hands to hub.broadcast for a row.
MessageOf(row, t) ==
    [topic |-> t, data |-> ToSSEK8sEvent(row), namespace |-> row.ns]

\* Who is to see a row: the caller's scope covers its namespace, and the
\* caller asked for everything or for the row's composition.
Entitled(c, row) ==
    /\ Allows(sub[c].scope, row.ns)
    /\ sub[c].topic \in {NoTopic, GlobalTopic, row.comp}

\* The head of the loop for the next row, up to the call of broadcast for
\* the global topic.  (json.Marshal of a struct of strings cannot fail.)
PublishGlobal(row) ==
    /\ phase = "rows"
    /\ row \in pending
    /\ \A r \in pending : row.ts <= r.ts
    /\ pending' = pending \ {row}
    /\ cur' = row
    /\ maxTs' = IF row.ts > maxTs THEN row.ts ELSE maxTs
    /\ BroadcastBegin(MessageOf(row, GlobalTopic))
    /\ phase' = "global"
    /\ published' = IF clients = {} THEN {} ELSE published \cup {row}
    /\ left' = left \ {row}
    /\ owed' = [c \in Conns |-> IF c \in clients /\ Entitled(c, row)
                                  THEN owed[c] \cup {row} ELSE owed[c]]
    /\ UNCHANGED <<envVars, tick, lastSeenUnix, delivered, dropped, metrics,
                   cut, behind>>

\* The second broadcast, for a row with a composition id.  The lock was
\* released in between.
PublishComp ==
    /\ phase = "between"
    /\ BroadcastBegin(MessageOf(cur, cur.comp))
    /\ phase' = "comp"
    /\ UNCHANGED <<envVars, histVars, tick, lastSeenUnix, pending, cur, maxTs,
                   delivered, dropped, metrics>>

BroadcastStep(c) ==
    /\ Visit(c)
    /\ UNCHANGED <<pollVars, envVars, histVars>>

\* Mutant: the counts of the second broadcast replace those of the first.
AddCounts_Overwrites == delivered' = tally.sent /\ dropped' = tally.dropped

\* delivered += sent; dropped += drop
AddCounts ==
    /\ delivered' = delivered + tally.sent
    /\ dropped' = dropped + tally.dropped

\* Mutant: the composition topic gets nothing if the global topic had no taker.
AfterBroadcast_SkipsComp ==
    IF phase = "global" /\ cur.comp # NoComposition /\ tally.sent > 0
      THEN "between" ELSE "rows"

\* if row.CompositionId != ""
AfterBroadcast ==
    IF phase = "global" /\ cur.comp # NoComposition THEN "between" ELSE "rows"

\* broadcast returns its counts.
BroadcastReturn ==
    /\ BroadcastEnd
    /\ AddCounts
    /\ phase' = AfterBroadcast
    /\ UNCHANGED <<envVars, histVars, tick, lastSeenUnix, pending, cur, maxTs,
                   metrics>>

\* The cursor after the loop.
NextCursor == IF maxTs > lastSeenUnix THEN maxTs ELSE lastSeenUnix

\* After the loop.  poll's locals go out of scope.
PollDone ==
    /\ phase = "rows"
    /\ pending = {}
    /\ lastSeenUnix' = NextCursor
    /\ metrics' = [metrics EXCEPT !.eventsDelivered = @ + delivered,
                                  !.eventsDropped = @ + dropped]
    /\ phase' = "wait"
    /\ cur' = NoRow
    /\ maxTs' = lastSeenUnix'
    /\ delivered' = 0
    /\ dropped' = 0
    /\ left' = {}
    /\ cut' = FALSE
    /\ behind' = {}
    /\ UNCHANGED <<hubVars, envVars, tick, pending, published, owed>>

\* The process dies at any point and a new one starts: main makes a new hub
\* and a new poller, whose cursor is taken from the clock.
Restart ==
    /\ metrics.boots < MaxBoots
    /\ metrics' = [NewMetrics EXCEPT !.boots = metrics.boots + 1]
    /\ HubCrash
    /\ tick' = NoTick
    /\ lastSeenUnix' = LiveCursor(now)
    /\ phase' = "wait"
    /\ pending' = {}
    /\ cur' = NoRow
    /\ maxTs' = LiveCursor(now)
    /\ delivered' = 0
    /\ dropped' = 0
    /\ published' = {}
    /\ left' = {}
    /\ cut' = FALSE
    /\ behind' = {}
    /\ owed' = [c \in Conns |-> {}]
    /\ UNCHANGED envVars

-----------------------------------------------------------------------------
\* What the poller goroutine does by itself, and what it waits for: an answer
\* of ClickHouse.
OwnStep ==
    \/ IdleTick
    \/ PollTick
    \/ \E r \in Rows : PublishGlobal(r)
    \/ PublishComp
    \/ \E c \in Conns : BroadcastStep(c)
    \/ BroadcastReturn
    \/ PollDone

Answer == QueryOk \/ QueryFail

PollerStep == OwnStep \/ Answer

Next ==
    \/ Clock
    \/ \E b \in Batches : Insert(b)
    \/ TickerFire
    \/ \E c \in Conns : Handler(c)
    \/ PollerStep
    \/ Restart

Spec == Init /\ [][Next]_vars

-----------------------------------------------------------------------------
\* The rows of the messages sent to c, oldest first.
SentRow(c, i) == queue[c][i].data.object

\* A connection is sent no row twice, although poll publishes a row of a
\* composition on two topics, and although a page may be fetched again after
\* a failed poll: nothing is behind the cursor and on its way as well.
AtMostOnce ==
    \A c \in Conns : \A i, j \in 1 .. Len(queue[c]) :
        i # j => SentRow(c, i) # SentRow(c, j)

\* A connection gets its rows in the order of their timestamps, across polls
\* too, however late the collector writes some of them.
InOrder ==
    \A c \in Conns : \A i, j \in 1 .. Len(queue[c]) :
        i < j => SentRow(c, i).ts <= SentRow(c, j).ts

\* No connection is ever sent a row outside its caller's namespaces, or of a
\* composition the caller did not subscribe to.
OnlyEntitled ==
    \A c \in Conns : \A i \in 1 .. Len(queue[c]) : Entitled(c, SentRow(c, i))

\* "Each client's buffer holds a full poll, so a poll can only drop for a
\* client that is still behind on the previous one" (pollLimit): a client
\* with an empty buffer when the page arrived has room for all of it, even
\* if it never reads, and so has one that connects while the page goes out.
OnlyBehindDrops ==
    \A c \in todo \ behind : Wants(c, msg) => Backlog(c) < ClientBuffer

\* A drop is never silent: while the dropped counters of this process are
\* zero, every client has been sent every row that came up while it was
\* registered and that it may see, on whichever topic it listens.
NoSilentLoss ==
    metrics.eventsDropped + dropped + tally.dropped = 0 =>
        \A c \in clients : \A r \in owed[c] \ {cur} :
            \E i \in 1 .. Len(queue[c]) : SentRow(c, i) = r

\* The cursor of one process never moves back, whatever stale tick it is
\* set from: a row behind it would be sent again.
CursorNeverBack ==
    [][metrics'.boots = metrics.boots => lastSeenUnix' >= lastSeenUnix]_vars

\* The cursor passes no row that its poll could see and did not publish,
\* except in the last second of a page that LIMIT has cut.
CursorPassesPublished ==
    [][(phase = "rows" /\ phase' = "wait" /\ metrics'.boots = metrics.boots) =>
          \A r \in left : r.ok /\ r.ts <= lastSeenUnix' =>
                             cut /\ r.ts = lastSeenUnix']_vars

-----------------------------------------------------------------------------
(***************************************************************************)
(* What the repository says and the code does not do.                      *)
(***************************************************************************)

\* "globalTopic carries every event": from the first row the hub carries
\* while it has clients, the global topic has every row of the table up to
\* the cursor.  It does not hold: the cursor is a whole second, and a row of
\* that second that is not on the page (it was written later, or LIMIT cut
\* it off) is skipped for good.
StreamHasNoGaps ==
    phase = "wait" =>
        \A p \in published, r \in table :
            r.ok /\ p.ts <= r.ts /\ r.ts <= lastSeenUnix => r \in published

\* "The poller resumes from its watermark on restart."  The cursor is in
\* memory only; a new process starts from the clock.
ResumesFromWatermark ==
    [][metrics'.boots # metrics.boots => lastSeenUnix' = lastSeenUnix]_vars

-----------------------------------------------------------------------------
(***************************************************************************)
(* The abstract feed.                                                      *)
(***************************************************************************)
Feed == INSTANCE LiveFeed WITH
    Buffer   <- ClientBuffer,
    entitled <- [c \in Conns |-> IF open[c] THEN {r \in Rows : Entitled(c, r)} ELSE {}],
    feed     <- [c \in Conns |-> [i \in 1 .. Len(queue[c]) |-> SentRow(c, i)]],
    sent     <- metrics.eventsDelivered + delivered + tally.sent,
    lost     <- metrics.eventsDropped + dropped + tally.dropped

\* Poller, hub and handlers together are a live feed: a row reaches a channel
\* in order, once, and only for who may see it, it is lost only for a client
\* whose buffer is full, and in whatever order polls, broadcasts, departures
\* and restarts interleave, the counters of proxyMetrics with what poll and
\* broadcast have not yet added to them are exactly what was sent and lost.
ImplementsFeed == Feed!FeedSpec

-----------------------------------------------------------------------------
(***************************************************************************)
(* Liveness.  The ticker fires, the poller goroutine is scheduled, and a   *)
(* handler that waits for h.mu gets it (see HubFairness).  Nothing is      *)
(* assumed of the clients: they may never read, never leave, or come and   *)
(* go.  Nothing is assumed of ClickHouse either: outboundClient has no     *)
(* timeout, so a query may stay without an answer for ever.                *)
(***************************************************************************)
Fairness ==
    /\ WF_vars(TickerFire)
    /\ WF_vars(OwnStep)
    /\ \A c \in Conns : SF_vars(Joins(c)) /\ SF_vars(Departs(c))

LiveSpec == Spec /\ Fairness

\* What outlives a ClickHouse that accepts the query and never answers: a
\* caller can still connect, and one that has gone is still freed.
HandlersNotHeldUp ==
    \A c \in Conns :
        /\ pc[c] = "connecting" ~> pc[c] # "connecting"
        /\ pc[c] = "leaving" ~> pc[c] = "off"

\* ClickHouse does not leave every query without an answer, nor fail them all.
ClickHouseAnswers == SF_vars(QueryOk)

\* If ClickHouse answers, a row that is ahead of the cursor is reached while
\* clients are connected, even if none of them reads: a slow client cannot
\* stall the stream, nor can failed polls or rows that do not decode (fewer
\* than a page of them).
VisibleRowsAreReached ==
    ClickHouseAnswers =>
        \A r \in Rows :
            (r \in table /\ r.ok /\ clients # {} /\ lastSeenUnix < r.ts)
                ~> (clients = {} \/ r.ts <= lastSeenUnix)

\* If ClickHouse answers, the cursor keeps up with the clock while nobody is
\* connected, so that "the next client starts from now and not from when the
\* last one left".
IdleCursorStaysLive ==
    ClickHouseAnswers =>
        \A t \in StartTime .. MaxTime :
            (clients = {} /\ now >= t)
                ~> (clients # {} \/ lastSeenUnix >= LiveCursor(t))

=============================================================================
