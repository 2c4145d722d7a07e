-------------------------------- MODULE Rest --------------------------------
(***************************************************************************)
(* One HTTP request through the router (newRouter, withCORS), the token    *)
(* check (auth.go) and the handlers of /events (main.go) and /audit        *)
(* (audit.go), while the collector goes on writing rows.                   *)
(*                                                                         *)
(* Resolving the scope is RBACScoper.tla; here it is any scope of the      *)
(* caller, or an error.  A request for /notifications ends here with a     *)
(* stream; Hub.tla goes on from there.                                     *)
(***************************************************************************)
EXTENDS OtelLogs, Sequences

CONSTANTS
    Rows,            \* the rows that may be written to otel_logs
    AuditRows,       \* the rows of krateo_audit, which have the same columns here
    EventsWindows,   \* eventsWindows, in seconds; 0 is no bound
    DefaultLimit,    \* defaultEventsLimit, defaultAuditLimit
    CallerScopes,    \* what scopeFor may return
    RequestShapes,   \* the requests to consider: see Request
    StartTime, MaxTime

Tokens == {"valid", "invalid", "unknownKid"}

\* limit: the number that the parameter holds, none if it is absent or not a
\* number.  compositionId: "" when it is absent, "malformed" when it is not a
\* UUID.
Request == [path          : {"/events", "/audit", "/notifications", "/health", "/other"},
            preflight     : BOOLEAN,
            queryToken    : BOOLEAN,
            header        : Tokens \cup {"none", "malformed"},
            cookie        : Tokens \cup {"none"},
            limit         : {L \in SUBSET Int : \A m, n \in L : m = n},
            compositionId : Compositions \cup {"", "malformed"}]

ASSUME RestAssumption ==
    /\ Rows \cup AuditRows \subseteq ChRow
    /\ IsFiniteSet(Rows)
    /\ IsFiniteSet(AuditRows)
    /\ DefaultLimit \in Nat \ {0}
    /\ EventsWindows \in Seq(Nat)
    /\ EventsWindows # <<>>
    /\ EventsWindows[Len(EventsWindows)] = 0
    /\ CallerScopes \subseteq Scopes \ {NilScope}
    /\ RequestShapes \subseteq Request
    /\ StartTime \in Nat
    /\ MaxTime \in Nat
    /\ StartTime <= MaxTime
    /\ "malformed" \notin Compositions

VARIABLES
    scopingEnabled,     \* RBAC_SCOPING_ENABLED, fixed when the process starts
    now, table, audit,  \* the clock and the two tables
    pc,       \* where the request is
    r,        \* the request
    scope,    \* its scope
    t0,       \* the now that handleEvents passes to queryEventsWindowed
    window,   \* index of the window to query next
    reply,    \* its status, the rows in its body, its X-Krateo-Event-Scope
    seen,     \* history: the table when the request was let in
    last      \* history: the table when it was last queried

vars == <<scopingEnabled, now, table, audit, pc, r, scope, t0, window, reply, seen, last>>

NoReply == [status |-> 0, rows |-> {}, header |-> {}]

\* The types of the state.
RestTypeOK ==
    /\ scopingEnabled \in BOOLEAN
    /\ now \in StartTime .. MaxTime
    /\ table \subseteq Rows
    /\ audit \subseteq AuditRows
    /\ pc \in {"auth", "handler", "windows", "auditQuery", "replied"}
    /\ r \in RequestShapes
    /\ scope \in Scopes
    /\ t0 \in StartTime .. MaxTime
    /\ window \in 1 .. Len(EventsWindows)
    /\ reply \in [status : {0, 200, 204, 400, 401, 404, 500, 503},
                  rows   : SUBSET (Rows \cup AuditRows),
                  header : SUBSET (Namespaces \cup {"*", "none"})]
    /\ seen \subseteq Rows
    /\ last \subseteq Rows

Init ==
    /\ scopingEnabled \in BOOLEAN
    /\ now = StartTime
    /\ table = {}
    /\ audit = AuditRows
    /\ pc = "auth"
    /\ r \in RequestShapes
    /\ scope = NilScope
    /\ t0 = StartTime
    /\ window = 1
    /\ reply = NoReply
    /\ seen = {}
    /\ last = {}

-----------------------------------------------------------------------------
Clock ==
    /\ now < MaxTime
    /\ now' = now + 1
    /\ UNCHANGED <<scopingEnabled, table, audit, pc, r, scope, t0, window, reply, seen, last>>

\* The collector writes a row, stamped now or earlier.
Insert(x) ==
    /\ x \in Rows \ table
    /\ x.ts <= now
    /\ table' = table \cup {x}
    /\ UNCHANGED <<scopingEnabled, now, audit, pc, r, scope, t0, window, reply, seen, last>>

\* The handler writes status and rows and returns.
ReplyWith(h, s, body) ==
    /\ reply' = [status |-> s, rows |-> body, header |-> h]
    /\ pc' = "replied"

Reply(s, body) == ReplyWith({}, s, body)

\* tokenFromRequestHeaderOrCookie: the header first, then the cookie.
Token == IF r.header \in Tokens THEN r.header ELSE r.cookie

\* The paths behind requireBearer.
Protected == {"/events", "/audit", "/notifications"}

\* withCORS and the mux: what is answered without a token.
Unprotected ==
    /\ pc = "auth"
    /\ \/ r.preflight /\ Reply(204, {})
       \/ ~r.preflight /\ r.path = "/health" /\ Reply(200, {})
       \/ ~r.preflight /\ r.path = "/other" /\ Reply(404, {})
    /\ UNCHANGED <<scopingEnabled, now, table, audit, r, scope, t0, window, seen, last>>

\* Mutant: a token in the URL matters only if there is no other.
QueryTokenParam_IfAlone == r.queryToken /\ Token = "none"

\* queryTokenParam: a token in the URL, whatever else the request carries.
QueryTokenParam == r.queryToken

\* requireBearer
RequireBearer ==
    /\ pc = "auth"
    /\ ~r.preflight
    /\ r.path \in Protected
    /\ \/ QueryTokenParam /\ Reply(401, {}) /\ UNCHANGED seen
       \/ /\ ~QueryTokenParam
          /\ \/ Token \in {"none", "invalid"} /\ Reply(401, {}) /\ UNCHANGED seen
             \/ Token = "unknownKid" /\ Reply(503, {}) /\ UNCHANGED seen
             \/ Token = "valid" /\ pc' = "handler" /\ seen' = table /\ UNCHANGED reply
    /\ UNCHANGED <<scopingEnabled, now, table, audit, r, scope, t0, window, last>>

-----------------------------------------------------------------------------
(***************************************************************************)
(* handleEvents and handleAudit.                                           *)
(***************************************************************************)

\* resolveRequestScope fails: no scope, no data.  (/audit refuses before it
\* asks when scoping is off.)
ScopeFails ==
    /\ pc = "handler"
    /\ scopingEnabled
    /\ Reply(500, {})
    /\ UNCHANGED <<scopingEnabled, now, table, audit, r, scope, t0, window, seen, last>>

\* What resolveRequestScope may return.
ResolvedScopes == IF scopingEnabled THEN CallerScopes ELSE {NilScope}

\* A caller with no namespace at all.
NothingToSee(s) == Restricted(s) /\ s.namespaces = {}

HandleEvents ==
    /\ pc = "handler"
    /\ r.path = "/events"
    /\ scope' \in ResolvedScopes
    /\ \/ NothingToSee(scope') /\ Reply(200, {}) /\ UNCHANGED t0
       \/ /\ ~NothingToSee(scope')
          /\ \/ r.compositionId = "malformed" /\ Reply(400, {}) /\ UNCHANGED t0
             \/ /\ r.compositionId # "malformed"
                /\ pc' = "windows"
                /\ t0' = now
                /\ UNCHANGED reply
    /\ UNCHANGED <<scopingEnabled, now, table, audit, r, window, seen, last>>

\* Mutant: no scoper, no scope, go on.
AuditRefuses_Never == FALSE

\* if scoper == nil
AuditRefuses == ~scopingEnabled

HandleAudit ==
    /\ pc = "handler"
    /\ r.path = "/audit"
    /\ scope' \in ResolvedScopes
    /\ \/ AuditRefuses /\ Reply(503, {})
       \/ /\ ~AuditRefuses
          /\ \/ NothingToSee(scope') /\ ReplyWith(ScopeHeaderValue(scope'), 200, {})
             \/ ~NothingToSee(scope') /\ pc' = "auditQuery" /\ UNCHANGED reply
    /\ UNCHANGED <<scopingEnabled, now, table, audit, r, t0, window, seen, last>>

\* handleSSE: the scope is announced and the stream opens (see Connect in
\* Hub.tla), if the ResponseWriter is one that can stream.
HandleSSE ==
    /\ pc = "handler"
    /\ r.path = "/notifications"
    /\ \/ Reply(500, {}) /\ UNCHANGED scope
       \/ /\ scope' \in ResolvedScopes
          /\ ReplyWith(ScopeHeaderValue(scope'), 200, {})
    /\ UNCHANGED <<scopingEnabled, now, table, audit, r, t0, window, seen, last>>

\* parseLimit; parseAuditLimit maps every value to the same limit.
ParseLimit(raw) ==
    IF \E n \in raw : n > 0 /\ n <= DefaultLimit
      THEN CHOOSE n \in raw : TRUE
      ELSE DefaultLimit

Limit == ParseLimit(r.limit)

\* Mutant: the namespace predicate is left out for a composition's events.
Matches_CompositionOnly(x) ==
    \/ r.compositionId # "" /\ x.comp = r.compositionId
    \/ r.compositionId = "" /\ Allows(scope, x.ns)

\* buildEventsQueryWindow: the composition and the namespace predicate.
Matches(x) ==
    /\ r.compositionId # "" => x.comp = r.compositionId
    /\ Restricted(scope) => x.ns \in scope.namespaces

\* Mutant: the last resort is the widest window.
Since_NeverUnbounded ==
    t0 - (IF EventsWindows[window] > 0 THEN EventsWindows[window]
                                       ELSE EventsWindows[window - 1])

\* The window predicate: Timestamp >= since, if since > 0.
Since == IF EventsWindows[window] > 0 THEN t0 - EventsWindows[window] ELSE 0

InWindow(x) == Since > 0 => x.ts >= Since

\* Mutants: the first window with a row in it answers; the loop goes on
\* after the unbounded query.
Enough_NonEmpty(rows) == EventsWindows[window] = 0 \/ rows # {}

Enough_GoesOn(rows) == Cardinality(rows) >= Limit

\* w == 0 || len(rows) >= limit
Enough(rows) == EventsWindows[window] = 0 \/ Cardinality(rows) >= Limit

\* One turn of the loop of queryEventsWindowed.
QueryWindow ==
    /\ pc = "windows"
    /\ \E page \in NewestFirst({x \in table : Matches(x) /\ InWindow(x)}, Limit) :
           IF Enough(Decoded(page))
             THEN Reply(200, Decoded(page)) /\ UNCHANGED window
             ELSE window' = window + 1 /\ UNCHANGED <<pc, reply>>
    /\ last' = table
    /\ UNCHANGED <<scopingEnabled, now, table, audit, r, scope, t0, seen>>

\* queryAuditRecords
QueryAudit ==
    /\ pc = "auditQuery"
    /\ \E page \in NewestFirst({x \in audit : Restricted(scope) =>
                                                  x.ns \in scope.namespaces}, Limit) :
           ReplyWith(ScopeHeaderValue(scope), 200, Decoded(page))
    /\ UNCHANGED <<scopingEnabled, now, table, audit, r, scope, t0, window, seen, last>>

\* The query fails.  handleAudit has set the header by then.
QueryFails ==
    /\ \/ pc = "windows" /\ Reply(500, {})
       \/ pc = "auditQuery" /\ ReplyWith(ScopeHeaderValue(scope), 500, {})
    /\ UNCHANGED <<scopingEnabled, now, table, audit, r, scope, t0, window, seen, last>>

\* The request has been answered.
Replied ==
    /\ pc = "replied"
    /\ UNCHANGED vars

-----------------------------------------------------------------------------
RequestStep ==
    \/ Unprotected
    \/ RequireBearer
    \/ ScopeFails
    \/ HandleEvents
    \/ HandleAudit
    \/ HandleSSE
    \/ QueryWindow
    \/ QueryAudit
    \/ QueryFails

Next ==
    \/ Clock
    \/ \E x \in Rows : Insert(x)
    \/ RequestStep
    \/ Replied

Spec == Init /\ [][Next]_vars

-----------------------------------------------------------------------------
\* Whoever gets a row has shown a valid token outside the URL, may observe
\* the row's namespace and asked for the row's composition or for all; and a
\* record of the audit trail goes to nobody whom RBAC was not asked about.
OnlyEntitledRows ==
    \A x \in reply.rows :
        /\ ~r.queryToken
        /\ "valid" \in {r.header, r.cookie}
        /\ Allows(scope, x.ns)
        /\ r.path = "/events" /\ r.compositionId # "" => x.comp = r.compositionId
        /\ r.path = "/audit" => ~scope.nil

\* What a consumer makes of the header, after a proxy in between may have
\* removed one with an empty value: no header, no scoping.
ReadHeader(h) ==
    CASE h \subseteq {""} -> NilScope
      [] h = {"*"}        -> AllScope
      [] h = {"none"}     -> SetScope({})
      [] OTHER            -> SetScope(h)

\* "A browser can tell a legitimately-narrow bell from a broken one": the
\* scope that a consumer reads off the header of a stream or an audit answer
\* is the one that was resolved and that its rows are limited to.  It holds
\* as long as no namespace has the name "none".
AnnouncedScope ==
    r.path \in {"/audit", "/notifications"} /\ reply.status = 200 /\ ~r.preflight =>
        /\ ReadHeader(reply.header) = scope
        /\ \A x \in reply.rows : Allows(ReadHeader(reply.header), x.ns)

\* "No event a caller would have received is ever dropped": the answer of
\* the windowed query is one that the unbounded query could have given on
\* the table as it was at the last of the windows' queries, although rows
\* arrived in between and windows were tried on older states of the table.
WindowedIsUnbounded ==
    r.path = "/events" /\ reply.status = 200 /\ ~NothingToSee(scope) =>
        reply.rows \in {Decoded(P) : P \in NewestFirst({x \in last : Matches(x)}, Limit)}

\* A row that was there when the request came in and that matches it is in
\* the answer, unless the limit is used up by rows at least as new.
EarlierRowsAnswered ==
    r.path = "/events" /\ reply.status = 200 /\ ~NothingToSee(scope) =>
        \A x \in seen \ reply.rows :
            Matches(x) /\ x.ok =>
                Cardinality({y \in last : Matches(y) /\ y # x /\ y.ts >= x.ts}) >= Limit

=============================================================================
