----------------------------- MODULE RestProofs -----------------------------
(***************************************************************************)
(* The safety of GET /events and GET /audit for any rows, windows, limit,  *)
(* scopes and requests, whatever is written while a request is answered.   *)
(***************************************************************************)
EXTENDS Rest, FiniteSetTheorems, TLAPS

-----------------------------------------------------------------------------
(***************************************************************************)
(* The operators.                                                          *)
(***************************************************************************)

\* parseLimit never returns a limit below one.
LEMMA LimitIsPositive ==
    ASSUME r \in RequestShapes
    PROVE  Limit \in Nat /\ Limit >= 1
  <1>1. r.limit \in SUBSET Int /\ (\A m, n \in r.limit : m = n)
    BY RestAssumption DEF Request
  <1>2. CASE \E n \in r.limit : n > 0 /\ n <= DefaultLimit
    <2>1. PICK n \in r.limit : n > 0 /\ n <= DefaultLimit
      BY <1>2
    <2>2. Limit = CHOOSE m \in r.limit : TRUE
      BY <1>2 DEF Limit, ParseLimit
    <2>3. (CHOOSE m \in r.limit : TRUE) \in r.limit
      BY <2>1
    <2>4. Limit = n
      BY <1>1, <2>1, <2>2, <2>3
    <2>5. n \in Int /\ DefaultLimit \in Nat
      BY <1>1, <2>1, RestAssumption
    <2> QED
      BY <2>1, <2>4, <2>5
  <1>3. CASE ~(\E n \in r.limit : n > 0 /\ n <= DefaultLimit)
    <2>1. Limit = DefaultLimit
      BY <1>3 DEF Limit, ParseLimit
    <2> QED
      BY <2>1, RestAssumption
  <1> QED
    BY <1>2, <1>3

\* A page is never longer than its limit, and only one that has everything is
\* shorter.
LEMMA PageSize ==
    ASSUME NEW S, IsFiniteSet(S), NEW n \in Nat, NEW P \in NewestFirst(S, n)
    PROVE  /\ P \subseteq S /\ IsFiniteSet(P) /\ Cardinality(P) \in Nat
           /\ Cardinality(P) <= n
           /\ P # S => Cardinality(P) = n
           /\ \A p \in P, q \in S \ P : p.ts >= q.ts
  <1>1. /\ P \subseteq S
        /\ Cardinality(P) = IF Cardinality(S) < n THEN Cardinality(S) ELSE n
        /\ \A p \in P, q \in S \ P : p.ts >= q.ts
    BY DEF NewestFirst, Pages
  <1>2. /\ IsFiniteSet(P) /\ Cardinality(P) \in Nat /\ Cardinality(S) \in Nat
        /\ Cardinality(P) = Cardinality(S) => P = S
    BY <1>1, FS_Subset, FS_CardinalityType
  <1> QED
    BY <1>1, <1>2

\* Where the page of a window is full, it is a page of the unbounded query:
\* what lies before the window is older than everything in it.
LEMMA FullPageIsUnbounded ==
    ASSUME NEW S \in SUBSET ChRow, IsFiniteSet(S), NEW n \in Nat, NEW since \in Int,
           NEW P \in NewestFirst({x \in S : x.ts >= since}, n), Cardinality(P) >= n
    PROVE  P \in NewestFirst(S, n)
  <1> DEFINE W == {x \in S : x.ts >= since}
  <1>1. W \subseteq S /\ IsFiniteSet(W)
    BY FS_Subset
  <1>2. /\ P \subseteq W /\ IsFiniteSet(P) /\ Cardinality(P) \in Nat /\ Cardinality(P) <= n
        /\ \A p \in P, q \in W \ P : p.ts >= q.ts
    BY <1>1, PageSize
  <1>3. Cardinality(P) = n
    BY <1>2
  <1>4. /\ Cardinality(S) \in Nat /\ Cardinality(P) <= Cardinality(S)
    BY <1>1, <1>2, FS_Subset, FS_CardinalityType
  <1>5. P \in Pages(S, n)
    BY <1>1, <1>2, <1>3, <1>4 DEF Pages
  <1>6. ASSUME NEW p \in P, NEW q \in S \ P
        PROVE  p.ts >= q.ts
    <2>1. p \in W /\ p.ts \in Int /\ q.ts \in Int /\ p.ts >= since
      BY <1>1, <1>2, <1>6 DEF ChRow
    <2>2. CASE q \in W
      BY <1>2, <1>6, <2>2
    <2>3. CASE q \notin W
      BY <1>6, <2>1, <2>3
    <2> QED
      BY <2>2, <2>3
  <1> QED
    BY <1>5, <1>6 DEF NewestFirst

\* What is not on a page of a query has a page full of rows at least as new
\* before it.
LEMMA PushedOut ==
    ASSUME NEW S, IsFiniteSet(S), NEW n \in Nat, NEW P \in NewestFirst(S, n),
           NEW x \in S \ P
    PROVE  Cardinality({y \in S : y # x /\ y.ts >= x.ts}) >= n
  <1> DEFINE Y == {y \in S : y # x /\ y.ts >= x.ts}
  <1>1. P # S /\ P \subseteq S /\ Cardinality(P) = n /\ \A p \in P : p.ts >= x.ts
    BY PageSize
  <1>2. P \subseteq Y /\ Y \subseteq S
    BY <1>1
  <1>3. Cardinality(P) <= Cardinality(Y) /\ Cardinality(Y) \in Nat
    BY <1>2, FS_Subset, FS_CardinalityType
  <1> QED
    BY <1>1, <1>3

\* The three kinds of scope.
LEMMA ScopeTypes ==
    ASSUME NEW s \in Scopes
    PROVE  /\ s.nil \in BOOLEAN /\ s.allowAll \in BOOLEAN /\ s.namespaces \subseteq Namespaces
           /\ s # NilScope => ~s.nil
           /\ Restricted(s) => s = SetScope(s.namespaces)
           /\ ScopeHeaderValue(s) \in SUBSET (Namespaces \cup {"*", "none"})
  <1>1. CASE s = NilScope
    <2>1. s.nil = TRUE /\ s.allowAll = FALSE /\ s.namespaces = {} /\ ScopeHeaderValue(s) = {}
      BY <1>1 DEF NilScope, ScopeHeaderValue
    <2> QED
      BY <1>1, <2>1 DEF Restricted
  <1>3. CASE s = AllScope
    <2>1. /\ s.nil = FALSE /\ s.allowAll = TRUE /\ s.namespaces = {}
          /\ ScopeHeaderValue(s) = {"*"}
      BY <1>3 DEF AllScope, ScopeHeaderValue
    <2> QED
      BY <1>3, <2>1 DEF Restricted
  <1>2. ASSUME NEW S \in SUBSET Namespaces, s = SetScope(S)
        PROVE  /\ s.nil = FALSE /\ s.allowAll = FALSE /\ s.namespaces = S
               /\ ScopeHeaderValue(s) \in SUBSET (Namespaces \cup {"*", "none"})
    BY <1>2 DEF SetScope, ScopeHeaderValue
  <1> QED
    BY <1>1, <1>2, <1>3 DEF Scopes

\* The predicate of the queries lets through only what the scope allows.
LEMMA PredicateIsScope ==
    ASSUME NEW s \in Scopes, NEW n, Restricted(s) => n \in s.namespaces
    PROVE  Allows(s, n)
  BY ScopeTypes DEF Restricted, Allows

\* A consumer who reads the header gets the scope back, if no namespace is
\* called like one of the two words that it uses.
LEMMA HeaderIsReadBack ==
    ASSUME NEW s \in Scopes, "none" \notin Namespaces, "*" \notin Namespaces
    PROVE  ReadHeader(ScopeHeaderValue(s)) = s
  <1>1. CASE s = NilScope
    <2>1. ScopeHeaderValue(s) = {}
      BY <1>1 DEF ScopeHeaderValue, NilScope
    <2> QED
      BY <1>1, <2>1 DEF ReadHeader
  <1>2. CASE s = AllScope
    <2>1. ScopeHeaderValue(s) = {"*"}
      BY <1>2 DEF ScopeHeaderValue, AllScope
    <2>2. ~({"*"} \subseteq {""}) /\ {"*"} # {"none"}
      OBVIOUS
    <2> QED
      BY <1>2, <2>1, <2>2 DEF ReadHeader
  <1>3. ASSUME NEW S \in SUBSET Namespaces, s = SetScope(S), S = {}
        PROVE  ReadHeader(ScopeHeaderValue(s)) = s
    <2>1. ScopeHeaderValue(s) = {"none"}
      BY <1>3 DEF ScopeHeaderValue, SetScope
    <2>2. ~({"none"} \subseteq {""}) /\ {"*"} # {"none"}
      OBVIOUS
    <2> QED
      BY <1>3, <2>1, <2>2 DEF ReadHeader
  <1>4. ASSUME NEW S \in SUBSET Namespaces, s = SetScope(S), S # {}
        PROVE  ReadHeader(ScopeHeaderValue(s)) = s
    <2>1. ScopeHeaderValue(s) = S
      BY <1>4 DEF ScopeHeaderValue, SetScope
    <2>2. ~(S \subseteq {""}) /\ S # {"*"} /\ S # {"none"}
      BY <1>4, NamespacesAssumption DEF NoNamespace
    <2> QED
      BY <1>4, <2>1, <2>2 DEF ReadHeader
  <1> QED
    BY <1>1, <1>2, <1>3, <1>4 DEF Scopes

-----------------------------------------------------------------------------
(***************************************************************************)
(* The inductive invariant.                                                *)
(***************************************************************************)

\* requireBearer has let the request through.
Admitted ==
    /\ ~r.preflight
    /\ r.path \in Protected
    /\ ~r.queryToken
    /\ "valid" \in {r.header, r.cookie}

\* How far a request without an answer has got.
ProgressInv ==
    /\ seen \subseteq table
    /\ pc # "replied" => reply = NoReply
    /\ pc \in {"handler", "windows", "auditQuery"} => Admitted
    /\ pc = "windows" => r.path = "/events"
    /\ pc = "auditQuery" => r.path = "/audit" /\ ~scope.nil

HeaderIsScope ==
    r.path \in {"/audit", "/notifications"} /\ reply.status = 200 /\ ~r.preflight =>
        reply.header = ScopeHeaderValue(scope)

LastHasSeen ==
    r.path = "/events" /\ reply.status = 200 /\ ~NothingToSee(scope) => seen \subseteq last

\* What is true of an answer once it is given.
ReplyInv ==
    /\ OnlyEntitledRows
    /\ WindowedIsUnbounded
    /\ HeaderIsScope
    /\ LastHasSeen

RestInv == RestTypeOK /\ ProgressInv /\ ReplyInv

\* Before a reply there is nothing to show.
LEMMA NoReplyIsFine ==
    ASSUME reply = NoReply
    PROVE  ReplyInv
  BY DEF NoReply, ReplyInv, OnlyEntitledRows, WindowedIsUnbounded,
     HeaderIsScope, LastHasSeen

\* The initial states have the invariant.
LEMMA RestInvInit == Init => RestInv
  <1> SUFFICES ASSUME Init PROVE RestInv
    OBVIOUS
  <1>1. now \in StartTime .. MaxTime /\ t0 \in StartTime .. MaxTime
    BY RestAssumption DEF Init
  <1>2. window \in 1 .. Len(EventsWindows)
    <2>1. Len(EventsWindows) \in Nat /\ Len(EventsWindows) >= 1
      BY RestAssumption
    <2> QED
      BY <2>1 DEF Init
  <1>3. reply \in [status : {0, 200, 204, 400, 401, 404, 500, 503},
                   rows   : SUBSET (Rows \cup AuditRows),
                   header : SUBSET (Namespaces \cup {"*", "none"})]
    BY DEF Init, NoReply
  <1>4. scope \in Scopes
    BY DEF Init, Scopes
  <1>5. RestTypeOK
    BY <1>1, <1>2, <1>3, <1>4 DEF Init, RestTypeOK
  <1>6. ProgressInv
    BY DEF Init, ProgressInv
  <1>7. ReplyInv
    BY NoReplyIsFine DEF Init
  <1> QED
    BY <1>5, <1>6, <1>7 DEF RestInv

\* Clock and collector do not touch the request.
LEMMA EnvironmentKeepsInv ==
    ASSUME RestInv, UNCHANGED vars \/ Replied \/ Clock \/ \E x \in Rows : Insert(x)
    PROVE  RestInv'
  <1>1. /\ UNCHANGED <<scopingEnabled, audit, pc, r, scope, t0, window, reply, seen, last>>
        /\ table \subseteq table' /\ table' \subseteq Rows
        /\ now' \in StartTime .. MaxTime
    <2>1. CASE UNCHANGED vars \/ Replied
      BY <2>1 DEF vars, Replied, RestInv, RestTypeOK
    <2>2. CASE Clock
      BY <2>2, RestAssumption DEF Clock, RestInv, RestTypeOK
    <2>3. ASSUME NEW x \in Rows, Insert(x)
          PROVE  /\ UNCHANGED <<scopingEnabled, audit, pc, r, scope, t0, window, reply, seen, last>>
                 /\ table \subseteq table' /\ table' \subseteq Rows
                 /\ now' \in StartTime .. MaxTime
      BY <2>3 DEF Insert, RestInv, RestTypeOK
    <2> QED
      BY <2>1, <2>2, <2>3
  <1>2. RestTypeOK'
    BY <1>1 DEF RestInv, RestTypeOK
  <1>3. ProgressInv'
    BY <1>1 DEF RestInv, ProgressInv, Admitted
  <1>4. ReplyInv'
    <2>1. (OnlyEntitledRows /\ HeaderIsScope /\ LastHasSeen)'
      BY <1>1 DEF RestInv, ReplyInv, OnlyEntitledRows, HeaderIsScope, LastHasSeen
    <2>2. WindowedIsUnbounded'
      <3>1. Limit' = Limit /\ {x \in last : Matches(x)}' = {x \in last : Matches(x)}
        BY <1>1 DEF Limit, Matches
      <3> QED
        BY <1>1, <3>1 DEF RestInv, ReplyInv, WindowedIsUnbounded
    <2> QED
      BY <2>1, <2>2 DEF ReplyInv
  <1> QED
    BY <1>2, <1>3, <1>4 DEF RestInv

ReplyType == [status : {0, 200, 204, 400, 401, 404, 500, 503},
              rows   : SUBSET (Rows \cup AuditRows),
              header : SUBSET (Namespaces \cup {"*", "none"})]

\* An answer without rows, of any of the handlers.
LEMMA EmptyReplyIsFine ==
    ASSUME NEW h \in SUBSET (Namespaces \cup {"*", "none"}),
           NEW s \in {200, 204, 400, 401, 404, 500, 503},
           ReplyWith(h, s, {}),
           r' = r,
           s = 200 =>
               \/ r.path \notin {"/events", "/audit", "/notifications"}
               \/ r.path = "/events" /\ NothingToSee(scope)'
               \/ r.path \in {"/audit", "/notifications"} /\ h = ScopeHeaderValue(scope')
    PROVE  reply' \in ReplyType /\ pc' = "replied" /\ ReplyInv'
  <1>1. /\ reply' = [status |-> s, rows |-> {}, header |-> h] /\ pc' = "replied"
    BY DEF ReplyWith
  <1>2. reply'.status = s /\ reply'.rows = {} /\ reply'.header = h
    BY <1>1
  <1>3. reply' \in ReplyType
    BY <1>1 DEF ReplyType
  <1>4. OnlyEntitledRows'
    BY <1>2 DEF OnlyEntitledRows
  <1>5. (r.path = "/events" /\ reply.status = 200 => NothingToSee(scope))'
    BY <1>2
  <1>7. HeaderIsScope'
    BY <1>2 DEF HeaderIsScope
  <1>8. WindowedIsUnbounded' /\ LastHasSeen'
    BY <1>5 DEF WindowedIsUnbounded, LastHasSeen
  <1> QED
    BY <1>1, <1>3, <1>4, <1>7, <1>8 DEF ReplyInv

\* The router and the token check.
LEMMA RouterKeepsInv ==
    ASSUME RestInv, Unprotected \/ RequireBearer
    PROVE  RestInv'
  <1>1. /\ UNCHANGED <<scopingEnabled, now, table, audit, r, scope, t0, window, last>>
        /\ pc = "auth"
        /\ seen' = seen \/ seen' = table
    BY DEF Unprotected, RequireBearer
  <1>2. {} \in SUBSET (Namespaces \cup {"*", "none"})
    OBVIOUS
  <1>3. /\ seen' \subseteq table' /\ seen' \subseteq Rows
    BY <1>1 DEF RestInv, RestTypeOK, ProgressInv
  <1>4. CASE pc' = "replied"
    <2>1. reply' \in ReplyType /\ ReplyInv'
      <3>1. CASE Reply(204, {}) \/ Reply(404, {}) \/ Reply(401, {}) \/ Reply(503, {})
        <4>1. PICK s \in {204, 404, 401, 503} : ReplyWith({}, s, {})
          BY <3>1 DEF Reply
        <4>2. s \in {200, 204, 400, 401, 404, 500, 503} /\ s # 200
          OBVIOUS
        <4> QED
          BY <1>1, <1>2, <4>1, <4>2, EmptyReplyIsFine
      <3>2. CASE r.path = "/health" /\ Reply(200, {})
        BY <1>1, <1>2, <3>2, EmptyReplyIsFine DEF Reply
      <3> QED
        BY <1>4, <3>1, <3>2 DEF Unprotected, RequireBearer
    <2>2. RestTypeOK'
      BY <1>1, <1>3, <1>4, <2>1 DEF RestInv, RestTypeOK, ReplyType
    <2>3. ProgressInv'
      BY <1>3, <1>4 DEF ProgressInv
    <2> QED
      BY <2>1, <2>2, <2>3 DEF RestInv
  <1>5. CASE pc' # "replied"
    <2>1. /\ RequireBearer /\ ~QueryTokenParam /\ Token = "valid" /\ pc' = "handler"
          /\ UNCHANGED reply
      BY <1>5 DEF Unprotected, RequireBearer, Reply, ReplyWith
    <2>2. Admitted'
      BY <1>1, <2>1 DEF RequireBearer, Token, QueryTokenParam, Admitted
    <2>3. reply' = NoReply
      BY <1>1, <2>1 DEF RestInv, ProgressInv
    <2>4. RestTypeOK'
      BY <1>1, <1>3, <2>1 DEF RestInv, RestTypeOK
    <2>5. ProgressInv'
      BY <1>3, <2>1, <2>2, <2>3 DEF ProgressInv
    <2>6. ReplyInv'
      BY <2>3 DEF NoReply, ReplyInv, OnlyEntitledRows, WindowedIsUnbounded,
         HeaderIsScope, LastHasSeen
    <2> QED
      BY <2>4, <2>5, <2>6 DEF RestInv
  <1> QED
    BY <1>4, <1>5

\* The handlers up to their queries.
LEMMA HandlersKeepInv ==
    ASSUME RestInv, ScopeFails \/ HandleEvents \/ HandleAudit \/ HandleSSE
    PROVE  RestInv'
  <1>1. /\ UNCHANGED <<scopingEnabled, now, table, audit, r, window, seen, last>>
        /\ pc = "handler"
        /\ t0' = t0 \/ t0' = now
    BY DEF ScopeFails, HandleEvents, HandleAudit, HandleSSE
  <1>2. /\ scope' \in Scopes
        /\ HandleAudit /\ scopingEnabled => ~scope'.nil
    <2>1. /\ scope' = scope \/ scope' \in ResolvedScopes
          /\ HandleAudit => scope' \in ResolvedScopes
      BY DEF ScopeFails, HandleEvents, HandleAudit, HandleSSE
    <2>2. ResolvedScopes \subseteq Scopes
      BY RestAssumption DEF ResolvedScopes, Scopes
    <2>3. scopingEnabled => \A s \in ResolvedScopes : ~s.nil
      BY RestAssumption, ScopeTypes DEF ResolvedScopes
    <2> QED
      BY <2>1, <2>2, <2>3 DEF RestInv, RestTypeOK
  <1>3. /\ {} \in SUBSET (Namespaces \cup {"*", "none"})
        /\ ScopeHeaderValue(scope') \in SUBSET (Namespaces \cup {"*", "none"})
    BY <1>2, ScopeTypes
  <1>4. Admitted' /\ seen' \subseteq table'
    BY <1>1 DEF RestInv, ProgressInv, Admitted
  <1>5. t0' \in StartTime .. MaxTime
    BY <1>1 DEF RestInv, RestTypeOK
  <1>6. CASE pc' = "replied"
    <2>1. reply' \in ReplyType /\ ReplyInv'
      <3>1. CASE Reply(500, {}) \/ Reply(400, {}) \/ Reply(503, {})
        <4>1. PICK s \in {500, 400, 503} : ReplyWith({}, s, {})
          BY <3>1 DEF Reply
        <4>2. s \in {200, 204, 400, 401, 404, 500, 503} /\ s # 200
          OBVIOUS
        <4> QED
          BY <1>1, <1>3, <4>1, <4>2, EmptyReplyIsFine
      <3>2. CASE r.path = "/events" /\ NothingToSee(scope') /\ Reply(200, {})
        <4>1. NothingToSee(scope)'
          BY <3>2 DEF NothingToSee, Restricted
        <4> QED
          BY <1>1, <1>3, <3>2, <4>1, EmptyReplyIsFine DEF Reply
      <3>3. CASE /\ r.path \in {"/audit", "/notifications"}
                 /\ ReplyWith(ScopeHeaderValue(scope'), 200, {})
        BY <1>1, <1>3, <3>3, EmptyReplyIsFine
      <3>5. CASE ScopeFails
        BY <3>1, <3>5 DEF ScopeFails
      <3>6. CASE HandleEvents
        BY <1>6, <3>1, <3>2, <3>6 DEF HandleEvents
      <3>7. CASE HandleAudit
        BY <1>2, <1>6, <3>1, <3>3, <3>7 DEF HandleAudit, AuditRefuses
      <3>8. CASE HandleSSE
        BY <3>1, <3>3, <3>8 DEF HandleSSE
      <3> QED
        BY <3>5, <3>6, <3>7, <3>8
    <2>2. RestTypeOK'
      BY <1>1, <1>2, <1>5, <1>6, <2>1 DEF RestInv, RestTypeOK, ReplyType
    <2>3. ProgressInv'
      BY <1>4, <1>6 DEF ProgressInv
    <2> QED
      BY <2>1, <2>2, <2>3 DEF RestInv
  <1>7. CASE pc' # "replied"
    <2>1. /\ UNCHANGED reply
          /\ \/ pc' = "windows" /\ r.path = "/events"
             \/ pc' = "auditQuery" /\ r.path = "/audit" /\ ~scope'.nil
      <3>1. ~ScopeFails
        BY <1>7 DEF ScopeFails, Reply, ReplyWith
      <3>2. CASE HandleEvents
        BY <1>7, <3>2 DEF HandleEvents, Reply, ReplyWith
      <3>3. CASE HandleAudit
        BY <1>2, <1>7, <3>1, <3>3 DEF HandleAudit, AuditRefuses, Reply, ReplyWith
      <3>4. ~HandleSSE
        BY <1>7 DEF HandleSSE, Reply, ReplyWith
      <3> QED
        BY <3>1, <3>2, <3>3, <3>4
    <2>2. reply' = NoReply
      BY <1>1, <2>1 DEF RestInv, ProgressInv
    <2>3. RestTypeOK'
      BY <1>1, <1>2, <1>5, <2>1 DEF RestInv, RestTypeOK
    <2>4. ProgressInv'
      BY <1>1, <1>4, <2>1, <2>2 DEF ProgressInv
    <2>5. ReplyInv'
      BY <2>2 DEF NoReply, ReplyInv, OnlyEntitledRows, WindowedIsUnbounded,
         HeaderIsScope, LastHasSeen
    <2> QED
      BY <2>3, <2>4, <2>5 DEF RestInv
  <1> QED
    BY <1>6, <1>7

\* The unbounded query is the last one of the loop.
LEMMA MoreWindows ==
    ASSUME RestTypeOK, EventsWindows[window] # 0
    PROVE  window + 1 \in 1 .. Len(EventsWindows)
  <1>1. /\ Len(EventsWindows) \in Nat /\ window \in 1 .. Len(EventsWindows)
        /\ EventsWindows[Len(EventsWindows)] = 0
    BY RestAssumption DEF RestTypeOK
  <1> QED
    BY <1>1

\* The page that ends the loop could have been that of the unbounded query.
LEMMA LastWindowIsUnbounded ==
    ASSUME RestTypeOK,
           NEW page \in NewestFirst({x \in table : Matches(x) /\ InWindow(x)}, Limit),
           Enough(Decoded(page))
    PROVE  page \in NewestFirst({x \in table : Matches(x)}, Limit)
  <1> DEFINE M == {x \in table : Matches(x)}
             W == {x \in table : Matches(x) /\ InWindow(x)}
  <1>1. /\ M \in SUBSET ChRow /\ IsFiniteSet(M) /\ W \subseteq M /\ IsFiniteSet(W)
    <2>1. IsFiniteSet(table) /\ table \subseteq ChRow
      BY RestAssumption, FS_Subset DEF RestTypeOK
    <2>2. M \subseteq table /\ W \subseteq table
      OBVIOUS
    <2> QED
      BY <2>1, <2>2, FS_Subset
  <1>2. Limit \in Nat
    BY LimitIsPositive DEF RestTypeOK
  <1>3. Since \in Int
    <2>1. window \in 1 .. Len(EventsWindows) /\ t0 \in Int /\ EventsWindows \in Seq(Nat)
      BY RestAssumption DEF RestTypeOK
    <2>2. EventsWindows[window] \in Nat
      BY <2>1
    <2> QED
      BY <2>1, <2>2 DEF Since
  <1>4. CASE ~(Since > 0)
    <2>1. W = M
      BY <1>4 DEF InWindow
    <2> QED
      BY <2>1
  <1>5. CASE Since > 0
    <2>1. EventsWindows[window] # 0
      BY <1>5 DEF Since
    <2>2. Cardinality(Decoded(page)) >= Limit
      BY <2>1 DEF Enough
    <2>3. Cardinality(page) >= Limit
      <3>1. IsFiniteSet(page) /\ Decoded(page) \subseteq page
        BY <1>1, <1>2, PageSize DEF Decoded
      <3>2. /\ Cardinality(Decoded(page)) <= Cardinality(page)
            /\ Cardinality(page) \in Nat /\ Cardinality(Decoded(page)) \in Nat
        BY <3>1, FS_Subset, FS_CardinalityType
      <3> QED
        BY <1>2, <2>2, <3>2
    <2>4. W = {x \in M : x.ts >= Since}
      BY <1>5 DEF InWindow
    <2> HIDE DEF M
    <2>5. page \in NewestFirst({x \in M : x.ts >= Since}, Limit)
      BY <2>4
    <2> QED
      BY <1>1, <1>2, <1>3, <2>3, <2>5, FullPageIsUnbounded DEF M
  <1> QED
    BY <1>4, <1>5

\* A turn of the loop of queryEventsWindowed.
LEMMA WindowKeepsInv ==
    ASSUME RestInv, QueryWindow
    PROVE  RestInv'
  <1>1. /\ UNCHANGED <<scopingEnabled, now, table, audit, r, scope, t0, seen>>
        /\ pc = "windows" /\ last' = table
    BY DEF QueryWindow
  <1>2. /\ RestTypeOK /\ Admitted /\ r.path = "/events" /\ reply = NoReply
        /\ seen \subseteq table /\ table \subseteq Rows
    BY <1>1 DEF RestInv, ProgressInv, RestTypeOK
  <1>3. PICK page \in NewestFirst({x \in table : Matches(x) /\ InWindow(x)}, Limit) :
               IF Enough(Decoded(page))
                 THEN Reply(200, Decoded(page)) /\ UNCHANGED window
                 ELSE window' = window + 1 /\ UNCHANGED <<pc, reply>>
    BY DEF QueryWindow
  <1>4. /\ Decoded(page) \subseteq Rows
        /\ \A x \in Decoded(page) : Matches(x)
    BY <1>2 DEF NewestFirst, Pages, Decoded
  <1>5. CASE Enough(Decoded(page))
    <2>1. /\ reply' = [status |-> 200, rows |-> Decoded(page), header |-> {}]
          /\ pc' = "replied" /\ UNCHANGED window
      BY <1>3, <1>5 DEF Reply, ReplyWith
    <2>2. reply'.status = 200 /\ reply'.rows = Decoded(page)
      BY <2>1
    <2>3. reply' \in ReplyType
      BY <1>4, <2>1 DEF ReplyType
    <2>4. RestTypeOK'
      BY <1>1, <1>2, <2>1, <2>3 DEF RestTypeOK, ReplyType
    <2>5. ProgressInv'
      BY <1>1, <1>2, <2>1 DEF ProgressInv
    <2>6. OnlyEntitledRows'
      <3>1. ASSUME NEW x \in Decoded(page)
            PROVE  /\ Allows(scope, x.ns)
                   /\ r.compositionId # "" => x.comp = r.compositionId
        <4>1. /\ Restricted(scope) => x.ns \in scope.namespaces
              /\ r.compositionId # "" => x.comp = r.compositionId
          BY <1>4, <3>1 DEF Matches
        <4>2. scope \in Scopes
          BY <1>2 DEF RestTypeOK
        <4> QED
          BY <4>1, <4>2, PredicateIsScope
      <3> QED
        BY <1>1, <1>2, <2>2, <3>1 DEF OnlyEntitledRows, Admitted
    <2>7. WindowedIsUnbounded'
      <3>1. page \in NewestFirst({x \in table : Matches(x)}, Limit)
        BY <1>2, <1>5, LastWindowIsUnbounded
      <3>2. /\ Limit' = Limit
            /\ {x \in last : Matches(x)}' = {x \in table : Matches(x)}
        BY <1>1 DEF Limit, Matches
      <3> QED
        BY <2>2, <3>1, <3>2 DEF WindowedIsUnbounded
    <2>8. HeaderIsScope' /\ LastHasSeen'
      BY <1>1, <1>2 DEF HeaderIsScope, LastHasSeen
    <2> QED
      BY <2>4, <2>5, <2>6, <2>7, <2>8 DEF RestInv, ReplyInv
  <1>6. CASE ~Enough(Decoded(page))
    <2>1. window' = window + 1 /\ UNCHANGED <<pc, reply>>
      BY <1>3, <1>6
    <2>2. window' \in 1 .. Len(EventsWindows)
      BY <1>2, <1>6, <2>1, MoreWindows DEF Enough
    <2>3. RestTypeOK'
      BY <1>1, <1>2, <2>1, <2>2 DEF RestTypeOK
    <2>4. ProgressInv'
      BY <1>1, <1>2, <2>1 DEF ProgressInv, Admitted
    <2>5. ReplyInv'
      BY <1>2, <2>1 DEF NoReply, ReplyInv, OnlyEntitledRows,
         WindowedIsUnbounded, HeaderIsScope, LastHasSeen
    <2> QED
      BY <2>3, <2>4, <2>5 DEF RestInv
  <1> QED
    BY <1>5, <1>6

\* The query of /audit, and queries that fail.
LEMMA QueryKeepsInv ==
    ASSUME RestInv, QueryAudit \/ QueryFails
    PROVE  RestInv'
  <1>1. /\ UNCHANGED <<scopingEnabled, now, table, audit, r, scope, t0, window, seen, last>>
        /\ pc \in {"windows", "auditQuery"} /\ pc' = "replied"
    BY DEF QueryAudit, QueryFails, Reply, ReplyWith
  <1>2. /\ RestTypeOK /\ Admitted /\ scope \in Scopes
        /\ seen \subseteq table
    BY <1>1 DEF RestInv, ProgressInv, RestTypeOK
  <1>3. ScopeHeaderValue(scope) \in SUBSET (Namespaces \cup {"*", "none"})
    BY <1>2, ScopeTypes
  <1>4. reply' \in ReplyType /\ ReplyInv'
    <2>1. CASE QueryFails
      <3>1. ReplyWith({}, 500, {}) \/ ReplyWith(ScopeHeaderValue(scope), 500, {})
        BY <2>1 DEF QueryFails, Reply
      <3>2. PICK h \in SUBSET (Namespaces \cup {"*", "none"}) : ReplyWith(h, 500, {})
        BY <1>3, <3>1
      <3> QED
        BY <1>1, <3>2, EmptyReplyIsFine
    <2>2. CASE QueryAudit
      <3>1. PICK page \in NewestFirst({x \in audit : Restricted(scope) =>
                                             x.ns \in scope.namespaces}, Limit) :
                   ReplyWith(ScopeHeaderValue(scope), 200, Decoded(page))
        BY <2>2 DEF QueryAudit
      <3>2. /\ Decoded(page) \subseteq AuditRows
            /\ \A x \in Decoded(page) : Restricted(scope) => x.ns \in scope.namespaces
        BY <1>2 DEF NewestFirst, Pages, Decoded, RestTypeOK
      <3>3. reply' = [status |-> 200, rows |-> Decoded(page),
                      header |-> ScopeHeaderValue(scope)]
        BY <3>1 DEF ReplyWith
      <3>4. reply'.rows = Decoded(page) /\ reply'.header = ScopeHeaderValue(scope)
        BY <3>3
      <3>5. r.path = "/audit" /\ ~scope.nil
        BY <2>2 DEF QueryAudit, RestInv, ProgressInv
      <3>6. reply' \in ReplyType
        BY <1>3, <3>2, <3>3 DEF ReplyType
      <3>7. OnlyEntitledRows'
        <4>1. \A x \in Decoded(page) : Allows(scope, x.ns)
          BY <1>2, <3>2, PredicateIsScope
        <4> QED
          BY <1>1, <1>2, <3>4, <3>5, <4>1 DEF OnlyEntitledRows, Admitted
      <3>8. HeaderIsScope' /\ WindowedIsUnbounded' /\ LastHasSeen'
        BY <1>1, <3>4, <3>5 DEF HeaderIsScope, WindowedIsUnbounded, LastHasSeen
      <3> QED
        BY <3>6, <3>7, <3>8 DEF ReplyInv
    <2> QED
      BY <2>1, <2>2
  <1>5. RestTypeOK'
    BY <1>1, <1>2, <1>4 DEF RestTypeOK, ReplyType
  <1>6. ProgressInv'
    BY <1>1, <1>2 DEF ProgressInv
  <1> QED
    BY <1>4, <1>5, <1>6 DEF RestInv

\* Every step keeps the invariant.
LEMMA RestInvNext == RestInv /\ [Next]_vars => RestInv'
  BY EnvironmentKeepsInv, RouterKeepsInv, HandlersKeepInv, WindowKeepsInv, QueryKeepsInv
     DEF Next, RequestStep

-----------------------------------------------------------------------------
\* The types of a request's state; the loop over the windows never runs past
\* the unbounded one.
THEOREM RestTypeCorrect == Spec => []RestTypeOK
  <1>1. RestInv => RestTypeOK
    BY DEF RestInv
  <1> QED
    BY <1>1, RestInvInit, RestInvNext, PTL DEF Spec

\* However a request presents its credentials and whatever is written while
\* it is answered, it gets rows only with a valid token outside the URL, of
\* namespaces its caller may observe and of the composition it asked for, and
\* audit records only under a scope that RBAC gave.
THEOREM RestOnlyEntitledRows == Spec => []OnlyEntitledRows
  <1>1. RestInv => OnlyEntitledRows
    BY DEF RestInv, ReplyInv
  <1> QED
    BY <1>1, RestInvInit, RestInvNext, PTL DEF Spec

\* For any list of windows that ends with the unbounded one, any limit and
\* any rows, queryEventsWindowed answers what the unbounded query could have
\* answered on the table it saw last.
THEOREM RestWindowedIsUnbounded == Spec => []WindowedIsUnbounded
  <1>1. RestInv => WindowedIsUnbounded
    BY DEF RestInv, ReplyInv
  <1> QED
    BY <1>1, RestInvInit, RestInvNext, PTL DEF Spec

\* A row that was there when the request came in is answered, or a full page
\* of rows at least as new is in front of it.
THEOREM RestEarlierRowsAnswered == Spec => []EarlierRowsAnswered
  <1>1. RestInv => EarlierRowsAnswered
    <2> SUFFICES ASSUME RestInv, r.path = "/events", reply.status = 200,
                        ~NothingToSee(scope), NEW x \in seen \ reply.rows,
                        Matches(x), x.ok
                 PROVE  Cardinality({y \in last : Matches(y) /\ y # x /\ y.ts >= x.ts}) >= Limit
      BY DEF EarlierRowsAnswered
    <2> DEFINE M == {y \in last : Matches(y)}
    <2>1. PICK P \in NewestFirst(M, Limit) : reply.rows = Decoded(P)
      BY DEF RestInv, ReplyInv, WindowedIsUnbounded
    <2>2. x \in M \ P
      BY <2>1 DEF RestInv, ReplyInv, LastHasSeen, Decoded
    <2>3. IsFiniteSet(M) /\ Limit \in Nat
      <3>1. M \subseteq Rows
        BY DEF RestInv, RestTypeOK
      <3> QED
        BY <3>1, RestAssumption, FS_Subset, LimitIsPositive DEF RestInv, RestTypeOK
    <2>4. {y \in last : Matches(y) /\ y # x /\ y.ts >= x.ts}
            = {y \in M : y # x /\ y.ts >= x.ts}
      OBVIOUS
    <2> HIDE DEF M
    <2>5. Cardinality({y \in M : y # x /\ y.ts >= x.ts}) >= Limit
      BY <2>1, <2>2, <2>3, PushedOut
    <2> QED
      BY <2>4, <2>5
  <1> QED
    BY <1>1, RestInvInit, RestInvNext, PTL DEF Spec

\* The scope that a consumer reads off X-Krateo-Event-Scope is the scope that
\* was resolved, and its rows are within it, unless a namespace is called
\* "none" (or "*", which Kubernetes does not admit).
THEOREM ScopeIsAnnounced ==
    ASSUME "none" \notin Namespaces, "*" \notin Namespaces
    PROVE  Spec => []AnnouncedScope
  <1>1. RestInv => AnnouncedScope
    <2> SUFFICES ASSUME RestInv, r.path \in {"/audit", "/notifications"},
                        reply.status = 200, ~r.preflight
                 PROVE  /\ ReadHeader(reply.header) = scope
                        /\ \A x \in reply.rows : Allows(ReadHeader(reply.header), x.ns)
      BY DEF AnnouncedScope
    <2>1. reply.header = ScopeHeaderValue(scope) /\ scope \in Scopes
      BY DEF RestInv, ReplyInv, HeaderIsScope, RestTypeOK
    <2>2. ReadHeader(reply.header) = scope
      BY <2>1, HeaderIsReadBack
    <2>3. \A x \in reply.rows : Allows(scope, x.ns)
      BY DEF RestInv, ReplyInv, OnlyEntitledRows
    <2> QED
      BY <2>2, <2>3
  <1> QED
    BY <1>1, RestInvInit, RestInvNext, PTL DEF Spec

=============================================================================
