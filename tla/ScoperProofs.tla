---------------------------- MODULE ScoperProofs ----------------------------
(***************************************************************************)
(* The RBAC scoper's safety for any namespaces, callers, rules and number  *)
(* of concurrent requests, any time to live, page size and number of SAR   *)
(* slots, and whatever the cluster's administrators do.                    *)
(***************************************************************************)
EXTENDS RBACScoper, FiniteSetTheorems, TLAPS

\* A change of the cluster is dated: where the history does not say "now",
\* nothing has changed.
Dated ==
    /\ now <= now'
    /\ \A s \in Rules, u \in Callers, x \in Targets :
           \/ changed'[s][u][x] = now
           \/ /\ changed'[s][u][x] = changed[s][u][x]
              /\ x \in acl'[s][u] <=> x \in acl[s][u]

ClusterTypeOK ==
    /\ existing \subseteq Namespaces
    /\ acl \in [Rules -> [Callers -> SUBSET Targets]]
    /\ changed \in [Rules -> [Callers -> [Targets -> Int]]]

\* Bindings are in namespaces that exist, or for the whole cluster.
AclInv == \A s \in Rules, u \in Callers : acl[s][u] \subseteq existing \cup {NoNamespace}

ClusterStep ==
    \/ \E r \in Rules, u \in Callers, x \in Targets : Change(r, u, x)
    \/ \E x \in Namespaces : CreateNamespace(x) \/ DeleteNamespace(x)

-----------------------------------------------------------------------------
\* An administrator's step: it keeps the types, it is dated, and it leaves no
\* binding behind in a namespace that is gone.
LEMMA ClusterStepIsDated ==
    ASSUME ScoperTypeOK, AclInv, ClusterStep
    PROVE  ClusterTypeOK' /\ AclInv' /\ Dated
  <1>1. ClusterTypeOK /\ now \in Nat
    BY ScoperAssumption DEF ScoperTypeOK, ClusterTypeOK
  <1>2. ASSUME NEW r \in Rules, NEW u \in Callers, NEW x \in Targets, Change(r, u, x)
        PROVE  ClusterTypeOK' /\ AclInv' /\ Dated
    <2>1. /\ acl' = [acl EXCEPT ![r][u] = IF x \in @ THEN @ \ {x} ELSE @ \cup {x}]
          /\ changed' = [changed EXCEPT ![r][u][x] = now]
          /\ UNCHANGED <<existing, now>>
          /\ x \in existing \cup {NoNamespace}
      BY <1>2 DEF Change, ClusterChanges
    <2>2. /\ acl' \in [Rules -> [Callers -> SUBSET Targets]]
          /\ changed' \in [Rules -> [Callers -> [Targets -> Int]]]
      BY <1>1, <2>1 DEF ClusterTypeOK
    <2>3. ASSUME NEW s \in Rules, NEW v \in Callers, s # r \/ v # u
          PROVE  acl'[s][v] = acl[s][v] /\ changed'[s][v] = changed[s][v]
      BY <1>1, <2>1, <2>3 DEF ClusterTypeOK
    <2>4. /\ acl'[r][u] = IF x \in acl[r][u] THEN acl[r][u] \ {x} ELSE acl[r][u] \cup {x}
          /\ changed'[r][u] = [changed[r][u] EXCEPT ![x] = now]
      BY <1>1, <2>1 DEF ClusterTypeOK
    <2>5. changed'[r][u][x] = now
          /\ \A y \in Targets : y # x => changed'[r][u][y] = changed[r][u][y]
      BY <1>1, <2>4 DEF ClusterTypeOK
    <2>6. Dated
      BY <1>1, <2>1, <2>3, <2>4, <2>5 DEF Dated
    <2>7. AclInv'
      BY <2>1, <2>3, <2>4 DEF AclInv
    <2> QED
      BY <1>1, <2>1, <2>2, <2>6, <2>7 DEF ClusterTypeOK
  <1>3. ASSUME NEW x \in Namespaces, CreateNamespace(x)
        PROVE  ClusterTypeOK' /\ AclInv' /\ Dated
    BY <1>1, <1>3 DEF CreateNamespace, ClusterChanges, ClusterTypeOK, AclInv, Dated
  <1>4. ASSUME NEW x \in Namespaces, DeleteNamespace(x)
        PROVE  ClusterTypeOK' /\ AclInv' /\ Dated
    <2>1. /\ acl' = [r \in Rules |-> [u \in Callers |-> acl[r][u] \ {x}]]
          /\ changed' = [r \in Rules |-> [u \in Callers |->
                [changed[r][u] EXCEPT ![x] = IF x \in acl[r][u] THEN now ELSE @]]]
          /\ existing' = existing \ {x}
          /\ now' = now
      BY <1>4 DEF DeleteNamespace, ClusterChanges
    <2>2. x \in Targets /\ x # NoNamespace
      BY NamespacesAssumption DEF Targets
    <2>3. ASSUME NEW s \in Rules, NEW v \in Callers
          PROVE  /\ acl'[s][v] = acl[s][v] \ {x}
                 /\ changed'[s][v] \in [Targets -> Int]
                 /\ changed'[s][v][x] = IF x \in acl[s][v] THEN now ELSE changed[s][v][x]
                 /\ \A y \in Targets : y # x => changed'[s][v][y] = changed[s][v][y]
      <3>1. changed[s][v] \in [Targets -> Int]
        BY <1>1 DEF ClusterTypeOK
      <3> QED
        BY <1>1, <2>1, <2>2, <3>1
    <2>4. /\ acl' \in [Rules -> [Callers -> SUBSET Targets]]
          /\ changed' \in [Rules -> [Callers -> [Targets -> Int]]]
      <3>1. acl' \in [Rules -> [Callers -> SUBSET Targets]]
        BY <1>1, <2>1 DEF ClusterTypeOK
      <3>2. changed' = [r \in Rules |-> [u \in Callers |-> changed'[r][u]]]
        BY <2>1
      <3>3. \A r \in Rules, u \in Callers : changed'[r][u] \in [Targets -> Int]
        BY <2>3
      <3> QED
        BY <3>1, <3>2, <3>3
    <2>5. Dated
      BY <1>1, <2>1, <2>3 DEF Dated
    <2>6. AclInv'
      BY <2>1, <2>3 DEF AclInv
    <2> QED
      BY <1>1, <2>1, <2>4, <2>5, <2>6 DEF ClusterTypeOK
  <1> QED
    BY <1>2, <1>3, <1>4 DEF ClusterStep

-----------------------------------------------------------------------------
\* The types, first for a new process, then for each step.
LEMMA TypeInit == Init => ScoperTypeOK
  <1> SUFFICES ASSUME Init PROVE ScoperTypeOK
    OBVIOUS
  <1>1. /\ acl \in [Rules -> [Callers -> SUBSET Targets]]
        /\ changed \in [Rules -> [Callers -> [Targets -> Int]]]
    BY ScoperAssumption DEF Init
  <1>2. NoRequest \in [user : Callers, endpoint : Endpoints]
    <2>1. (CHOOSE u \in Callers : TRUE) \in Callers
      BY ScoperAssumption
    <2> QED
      BY <2>1 DEF NoRequest, Endpoints
  <1>3. SetScope({}) \in Scopes
    BY DEF Scopes
  <1>4. 0 \in 0 .. MaxTime
    BY ScoperAssumption
  <1>5. \A q \in Requests : Cardinality(running[q]) <= SarConcurrency
    BY ScoperAssumption, FS_EmptySet DEF Init
  <1>6. budget \in [changes : Nat, errors : Nat]
    BY ScoperAssumption DEF Init
  <1> QED
    BY <1>1, <1>2, <1>3, <1>4, <1>5, <1>6 DEF Init, ScoperTypeOK, PCs

\* A failing call uses up one of the errors that are left.
LEMMA CallFailsType ==
    ASSUME ScoperTypeOK, CallFails
    PROVE  budget' \in [changes : Nat, errors : Nat]
  <1>1. budget \in [changes : Nat, errors : Nat]
    BY DEF ScoperTypeOK
  <1>2. budget.errors - 1 \in Nat
    BY <1>1 DEF CallFails
  <1> QED
    BY <1>1, <1>2 DEF CallFails

\* Every step keeps the types and the bound on the reviews under way.
LEMMA TypeNext == ScoperTypeOK /\ AclInv /\ [Next]_vars => ScoperTypeOK'
  <1> SUFFICES ASSUME ScoperTypeOK, AclInv, [Next]_vars PROVE ScoperTypeOK'
    OBVIOUS
  <1>1. CASE UNCHANGED vars \/ Quiet
    BY <1>1 DEF Quiet, vars, clusterVars, localVars, ScoperTypeOK
  <1>2. CASE Clock
    <2>1. now' \in 0 .. MaxTime
      BY <1>2, ScoperAssumption DEF Clock, ScoperTypeOK
    <2> QED
      BY <1>2, <2>1 DEF Clock, clusterVars, localVars, ScoperTypeOK
  <1>3. CASE ClusterStep
    <2>1. ClusterTypeOK'
      BY <1>3, ClusterStepIsDated
    <2>2. ClusterChanges
      BY <1>3 DEF ClusterStep, Change, CreateNamespace, DeleteNamespace
    <2>3. budget' \in [changes : Nat, errors : Nat]
      <3>1. budget \in [changes : Nat, errors : Nat]
        BY DEF ScoperTypeOK
      <3>2. budget.changes - 1 \in Nat
        BY <2>2, <3>1 DEF ClusterChanges
      <3> QED
        BY <2>2, <3>1, <3>2 DEF ClusterChanges
    <2> QED
      BY <2>1, <2>2, <2>3 DEF ClusterTypeOK, ClusterChanges, localVars, ScoperTypeOK
  <1>4. ASSUME NEW q \in Requests, NEW u \in Callers, NEW e \in Endpoints, Begin(q, u, e)
        PROVE  ScoperTypeOK'
    <2>1. req' \in [Requests -> [user : Callers, endpoint : Endpoints]]
      BY <1>4 DEF Begin, ScoperTypeOK
    <2>2. pc' \in [Requests -> PCs] /\ start' \in [Requests -> 0 .. MaxTime]
      BY <1>4 DEF Begin, ScoperTypeOK, PCs
    <2> QED
      BY <1>4, <2>1, <2>2 DEF Begin, clusterVars, localVars, ScoperTypeOK
  <1>5. ASSUME NEW q \in Requests, Hit(q) \/ Miss(q) \/ ClusterReview(q)
        PROVE  ScoperTypeOK'
    <2>1. Scoper(q) \in Rules /\ Key(q) \in Keys
      BY DEF ScoperTypeOK, Scoper, Rules, Key, Keys
    <2>2. result' \in [Requests -> Scopes]
      <3>1. CASE Hit(q)
        <4>1. cache[Key(q)] \in Entry
          BY <2>1, <3>1 DEF Hit, Fresh, ScoperTypeOK
        <4> QED
          BY <3>1, <4>1 DEF Hit, Entry, ScoperTypeOK
      <3>2. CASE ClusterReview(q)
        BY <3>2 DEF ClusterReview, ScoperTypeOK, Scopes
      <3>3. CASE Miss(q)
        BY <3>3 DEF Miss, ScoperTypeOK
      <3> QED
        BY <1>5, <3>1, <3>2, <3>3
    <2>3. pc' \in [Requests -> PCs]
      <3>1. \E v \in PCs : pc' = [pc EXCEPT ![q] = v]
        BY <1>5 DEF Hit, Miss, ClusterReview, PCs
      <3> QED
        BY <3>1 DEF ScoperTypeOK
    <2> QED
      BY <1>5, <2>2, <2>3 DEF Hit, Miss, ClusterReview, clusterVars, localVars, ScoperTypeOK
  <1>6. ASSUME NEW q \in Requests, ListPage(q) PROVE ScoperTypeOK'
    <2> PICK P \in SUBSET Remaining(q) :
               /\ toCheck' = [toCheck EXCEPT ![q] = @ \cup P]
               /\ IF LastPage(Remaining(q) \ P)
                    THEN /\ pc' = [pc EXCEPT ![q] = "sars"]
                         /\ unlisted' = [unlisted EXCEPT ![q] = {}]
                    ELSE /\ pc' = [pc EXCEPT ![q] = "listMore"]
                         /\ unlisted' = [unlisted EXCEPT ![q] = Remaining(q) \ P]
      BY <1>6 DEF ListPage
    <2>1. Remaining(q) \subseteq Namespaces
      BY DEF Remaining, ScoperTypeOK
    <2>2. /\ toCheck' \in [Requests -> SUBSET Namespaces]
          /\ unlisted' \in [Requests -> SUBSET Namespaces]
      <3>1. /\ toCheck \in [Requests -> SUBSET Namespaces]
            /\ unlisted \in [Requests -> SUBSET Namespaces]
        BY DEF ScoperTypeOK
      <3>2. \E R \in SUBSET Namespaces : unlisted' = [unlisted EXCEPT ![q] = R]
        BY <2>1
      <3>3. toCheck[q] \cup P \in SUBSET Namespaces
        BY <2>1, <3>1
      <3> QED
        BY <3>1, <3>2, <3>3
    <2>3. pc' \in [Requests -> PCs]
      <3>1. \E v \in PCs : pc' = [pc EXCEPT ![q] = v]
        BY DEF PCs
      <3> QED
        BY <3>1 DEF ScoperTypeOK
    <2> QED
      BY <1>6, <2>2, <2>3 DEF ListPage, clusterVars, ScoperTypeOK
  <1>7. ASSUME NEW q \in Requests, EarlyFail(q) PROVE ScoperTypeOK'
    <2>1. budget' \in [changes : Nat, errors : Nat]
      BY <1>7, CallFailsType DEF EarlyFail
    <2> QED
      BY <1>7, <2>1 DEF EarlyFail, clusterVars, ScoperTypeOK, PCs
  <1>8. ASSUME NEW q \in Requests, NEW ns \in Namespaces, Spawn(q, ns)
        PROVE  ScoperTypeOK'
    <2>1. /\ toCheck' \in [Requests -> SUBSET Namespaces]
          /\ running' \in [Requests -> SUBSET Namespaces]
          /\ running'[q] = running[q] \cup {ns}
          /\ \A p \in Requests : p # q => running'[p] = running[p]
      BY <1>8 DEF Spawn, ScoperTypeOK
    <2>2. Cardinality(running'[q]) <= SarConcurrency
      <3>1. IsFiniteSet(running[q])
        BY ScoperAssumption, FS_Subset DEF ScoperTypeOK
      <3>2. Cardinality(running[q]) \in Nat /\ Cardinality(running[q]) < SarConcurrency
        BY <1>8, <3>1, FS_CardinalityType DEF Spawn, SlotFree
      <3>3. Cardinality(running'[q]) \in {Cardinality(running[q]), Cardinality(running[q]) + 1}
        BY <2>1, <3>1, FS_AddElement
      <3> QED
        BY <3>2, <3>3, ScoperAssumption
    <2> QED
      BY <1>8, <2>1, <2>2 DEF Spawn, clusterVars, ScoperTypeOK
  <1>9. ASSUME NEW q \in Requests, NEW ns \in Namespaces, Review(q, ns) \/ ReviewFails(q, ns)
        PROVE  ScoperTypeOK'
    <2>1. /\ running' \in [Requests -> SUBSET Namespaces]
          /\ running'[q] = running[q] \ {ns}
          /\ \A p \in Requests : p # q => running'[p] = running[p]
      <3>1. running' = [running EXCEPT ![q] = @ \ {ns}]
        BY <1>9 DEF Review, ReviewFails
      <3> QED
        BY <3>1 DEF ScoperTypeOK
    <2>2. Cardinality(running'[q]) <= SarConcurrency
      <3>1. IsFiniteSet(running[q])
        BY ScoperAssumption, FS_Subset DEF ScoperTypeOK
      <3>2. running'[q] \in SUBSET running[q]
        BY <2>1
      <3>3. Cardinality(running'[q]) <= Cardinality(running[q]) /\ IsFiniteSet(running'[q])
        BY <3>1, <3>2, FS_Subset
      <3>4. Cardinality(running'[q]) \in Nat /\ Cardinality(running[q]) \in Nat
        BY <3>1, <3>3, FS_CardinalityType
      <3>5. Cardinality(running[q]) <= SarConcurrency
        BY DEF ScoperTypeOK
      <3> QED
        BY <3>3, <3>4, <3>5, ScoperAssumption
    <2>3. budget' \in [changes : Nat, errors : Nat]
      BY <1>9, CallFailsType DEF Review, ReviewFails, ScoperTypeOK
    <2>4. /\ allowed' \in [Requests -> SUBSET Namespaces]
          /\ firstErr' \in [Requests -> BOOLEAN]
      <3>1. /\ allowed \in [Requests -> SUBSET Namespaces]
            /\ firstErr \in [Requests -> BOOLEAN]
        BY DEF ScoperTypeOK
      <3>2. CASE Review(q, ns)
        BY <3>1, <3>2 DEF Review
      <3>3. CASE ReviewFails(q, ns)
        BY <3>1, <3>3 DEF ReviewFails
      <3> QED
        BY <1>9, <3>2, <3>3
    <2> QED
      BY <1>9, <2>1, <2>2, <2>3, <2>4 DEF Review, ReviewFails, clusterVars, ScoperTypeOK
  <1>10. ASSUME NEW q \in Requests, Collect(q) PROVE ScoperTypeOK'
    <2>1. SetScope(allowed[q]) \in Scopes
      BY DEF Scopes, ScoperTypeOK
    <2>2. /\ result' \in [Requests -> Scopes]
          /\ pc' \in [Requests -> PCs]
          /\ allowed' \in [Requests -> SUBSET Namespaces]
          /\ firstErr' \in [Requests -> BOOLEAN]
      <3>1. /\ result \in [Requests -> Scopes]
            /\ pc \in [Requests -> PCs]
            /\ allowed \in [Requests -> SUBSET Namespaces]
            /\ firstErr \in [Requests -> BOOLEAN]
        BY DEF ScoperTypeOK
      <3>2. \E v \in PCs : pc' = [pc EXCEPT ![q] = v]
        BY <1>10 DEF Collect, PCs
      <3>3. result' = result \/ result' = [result EXCEPT ![q] = SetScope(allowed[q])]
        BY <1>10 DEF Collect
      <3>4. /\ allowed' = [allowed EXCEPT ![q] = {}]
            /\ firstErr' = [firstErr EXCEPT ![q] = FALSE]
        BY <1>10 DEF Collect
      <3> QED
        BY <2>1, <3>1, <3>2, <3>3, <3>4
    <2> QED
      BY <1>10, <2>2 DEF Collect, clusterVars, ScoperTypeOK
  <1>11. ASSUME NEW q \in Requests, Store(q) PROVE ScoperTypeOK'
    <2>1. [scope |-> result[q], expires |-> Expiry(q)] \in Entry
      <3>1. start[q] \in Int /\ TTL \in Int /\ result[q] \in Scopes
        BY ScoperAssumption DEF ScoperTypeOK
      <3> QED
        BY <3>1 DEF Expiry, Entry
    <2>2. cache' \in [Keys -> Entry \cup {NoEntry}]
      BY <1>11, <2>1 DEF Store, ScoperTypeOK
    <2>3. pc' \in [Requests -> PCs]
      BY <1>11 DEF Store, ScoperTypeOK, PCs
    <2> QED
      BY <1>11, <2>2, <2>3 DEF Store, clusterVars, localVars, ScoperTypeOK
  <1> QED
    BY <1>1, <1>2, <1>3, <1>4, <1>5, <1>6, <1>7, <1>8, <1>9, <1>10, <1>11
       DEF Next, ResolveStep, AnsweredStep, ClusterStep

-----------------------------------------------------------------------------
\* A scope that was right for caller u under rule s at some moment after t
\* can be wrong now only where the cluster's answer has changed since t.
ScopeOK(S, s, u, t) ==
    /\ t <= now
    /\ \A x \in Targets : Allows(S, x) =>
           \/ x \in acl[s][u]
           \/ NoNamespace \in acl[s][u]
           \/ changed[s][u][x] >= t
           \/ changed[s][u][NoNamespace] >= t
    /\ \A x \in acl[s][u] : Allows(S, x) \/ changed[s][u][x] >= t

\* An entry is as good as the moment at which its request started.
CacheInv ==
    \A s \in Rules, u \in Callers :
        cache[CacheKey(s, u)] # NoEntry =>
            ScopeOK(cache[CacheKey(s, u)].scope, s, u, cache[CacheKey(s, u)].expires - TTL)

Since(q, x) == changed[Scoper(q)][req[q].user][x] >= start[q]

\* The locals of resolve are empty outside its loop.
LocalInv(q) ==
    /\ pc[q] = "sars" => unlisted[q] = {}
    /\ pc[q] # "sars" => running[q] = {} /\ allowed[q] = {} /\ firstErr[q] = FALSE

\* What resolve has found out so far is right, but for what has changed since
\* the request started: there is no grant for the whole cluster, each
\* namespace in allowed is granted, and each that is granted is in allowed,
\* yet to be asked about, or lost to an error.
ResolveInv(q) ==
    /\ pc[q] \in {"list", "listMore", "sars"} =>
           NoNamespace \notin Acl(q) \/ Since(q, NoNamespace)
    /\ \A x \in allowed[q] :
           x \in Acl(q) \/ NoNamespace \in Acl(q) \/ Since(q, x) \/ Since(q, NoNamespace)
    /\ pc[q] \in {"listMore", "sars"} =>
           \A x \in Acl(q) \ {NoNamespace} :
               \/ x \in unlisted[q] \cup toCheck[q] \cup running[q] \cup allowed[q]
               \/ firstErr[q]
               \/ Since(q, x)

\* A scope that was resolved is as good as the start of the request, one from
\* the cache less than a TTL older.
ResultInv(q) ==
    /\ pc[q] = "store" => ScopeOK(result[q], Scoper(q), req[q].user, start[q])
    /\ pc[q] = "done" => ScopeOK(result[q], Scoper(q), req[q].user, start[q] - TTL + 1)

RequestInv(q) ==
    /\ start[q] <= now
    /\ LocalInv(q)
    /\ ResolveInv(q)
    /\ ResultInv(q)

ScoperInv ==
    /\ ScoperTypeOK
    /\ AclInv
    /\ CacheInv
    /\ \A q \in Requests : RequestInv(q)

-----------------------------------------------------------------------------
\* Only the administrators change the cluster.
LEMMA StepsAreDated ==
    ASSUME ScoperTypeOK, AclInv, [Next]_vars
    PROVE  Dated /\ AclInv'
  <1>1. CASE ClusterStep
    BY <1>1, ClusterStepIsDated
  <1>2. CASE UNCHANGED clusterVars /\ now' \in {now, now + 1}
    BY <1>2, ScoperAssumption DEF clusterVars, ScoperTypeOK, AclInv, Dated
  <1>3. CASE UNCHANGED vars \/ Quiet \/ Clock
    BY <1>2, <1>3 DEF vars, Quiet, Clock
  <1>4. ASSUME NEW q \in Requests, NEW u \in Callers, NEW e \in Endpoints, Begin(q, u, e)
        PROVE  UNCHANGED <<clusterVars, now>>
    BY <1>4 DEF Begin
  <1>5. ASSUME NEW q \in Requests, ResolveStep(q)
        PROVE  UNCHANGED <<clusterVars, now>>
    BY <1>5 DEF ResolveStep, AnsweredStep, Hit, Miss, ClusterReview, ListPage, Spawn,
       Review, Collect, Store, EarlyFail, ReviewFails
  <1> QED
    BY <1>1, <1>2, <1>3, <1>4, <1>5 DEF Next, ClusterStep

\* A scope stays right in this sense, whatever the administrators do.
LEMMA ScopeKept ==
    ASSUME ScoperTypeOK, Dated, ScoperTypeOK',
           NEW S, NEW s \in Rules, NEW u \in Callers, NEW t \in Int, ScopeOK(S, s, u, t)
    PROVE  ScopeOK(S, s, u, t)'
  <1>1. /\ now \in Int /\ now' \in Int /\ t <= now'
        /\ NoNamespace \in Targets
        /\ acl[s][u] \subseteq Targets /\ acl'[s][u] \subseteq Targets
        /\ \A x \in Targets : changed[s][u][x] \in Int /\ changed'[s][u][x] \in Int
    BY DEF ScoperTypeOK, Dated, ScopeOK, Targets
  <1>2. ASSUME NEW x \in Targets
        PROVE  \/ changed'[s][u][x] >= t
               \/ /\ changed'[s][u][x] = changed[s][u][x]
                  /\ x \in acl'[s][u] <=> x \in acl[s][u]
    BY <1>1 DEF Dated, ScopeOK
  <1>3. ASSUME NEW x \in Targets, Allows(S, x)
        PROVE  \/ x \in acl'[s][u]
               \/ NoNamespace \in acl'[s][u]
               \/ changed'[s][u][x] >= t
               \/ changed'[s][u][NoNamespace] >= t
    BY <1>1, <1>2, <1>3 DEF ScopeOK
  <1>4. ASSUME NEW x \in acl'[s][u] PROVE Allows(S, x) \/ changed'[s][u][x] >= t
    BY <1>1, <1>2, <1>4 DEF ScopeOK
  <1> QED
    BY <1>1, <1>3, <1>4 DEF ScopeOK, Allows

\* Older is weaker.
LEMMA ScopeOlder ==
    ASSUME ScoperTypeOK, NEW S, NEW s \in Rules, NEW u \in Callers,
           NEW t \in Int, NEW a \in Int, a <= t, ScopeOK(S, s, u, t)
    PROVE  ScopeOK(S, s, u, a)
  <1>1. /\ now \in Int
        /\ NoNamespace \in Targets
        /\ acl[s][u] \subseteq Targets
        /\ \A x \in Targets : changed[s][u][x] \in Int
    BY DEF ScoperTypeOK, Targets
  <1>2. \A x \in Targets : changed[s][u][x] >= t => changed[s][u][x] >= a
    BY <1>1
  <1> QED
    BY <1>1, <1>2 DEF ScopeOK

\* Different scopers, users or groups have different keys.
LEMMA KeysDiffer ==
    ASSUME NEW s \in Rules, NEW u \in Callers, NEW r \in Rules, NEW v \in Callers,
           CacheKey(s, u) = CacheKey(r, v)
    PROVE  s = r /\ u = v
  BY ScoperAssumption DEF CacheKey

\* The types of a request's caller, rule and start.
LEMMA RequestTypes ==
    ASSUME ScoperTypeOK, NEW q \in Requests
    PROVE  /\ Scoper(q) \in Rules
           /\ req[q].user \in Callers
           /\ Key(q) \in Keys
           /\ start[q] \in Int
           /\ now \in Int
           /\ Acl(q) \subseteq Targets
           /\ NoNamespace \in Targets
           /\ TTL \in Nat /\ TTL >= 1
           /\ \A x \in Targets : changed[Scoper(q)][req[q].user][x] \in Int
  <1>1. Scoper(q) \in Rules /\ req[q].user \in Callers
    BY DEF ScoperTypeOK, Scoper, Rules
  <1>2. Key(q) \in Keys
    BY <1>1 DEF Key, Keys
  <1> QED
    BY <1>1, <1>2, ScoperAssumption DEF ScoperTypeOK, Acl, Targets

\* The step is none of request q's.
Idle(q) ==
    /\ pc'[q] = pc[q]
    /\ req'[q] = req[q]
    /\ start'[q] = start[q]
    /\ unlisted'[q] = unlisted[q]
    /\ toCheck'[q] = toCheck[q]
    /\ running'[q] = running[q]
    /\ allowed'[q] = allowed[q]
    /\ firstErr'[q] = firstErr[q]
    /\ result'[q] = result[q]

\* Clock, administrators and other requests leave a request right.
LEMMA RequestKept ==
    ASSUME ScoperTypeOK, ScoperTypeOK', Dated, NEW q \in Requests, RequestInv(q), Idle(q)
    PROVE  RequestInv(q)'
  <1>1. Scoper(q)' = Scoper(q) /\ req'[q].user = req[q].user /\ start'[q] = start[q]
    BY DEF Idle, Scoper
  <1>2. /\ Scoper(q) \in Rules /\ req[q].user \in Callers /\ start[q] \in Int
        /\ TTL \in Nat /\ NoNamespace \in Targets /\ now \in Int
    BY RequestTypes
  <1>3. now' \in Int /\ start'[q] <= now'
    BY <1>1, <1>2 DEF ScoperTypeOK, Dated, RequestInv
  <1>4. LocalInv(q)'
    BY DEF RequestInv, LocalInv, Idle
  <1>5. ResultInv(q)'
    <2>1. ASSUME pc[q] = "store"
          PROVE  ScopeOK(result[q], Scoper(q), req[q].user, start[q])'
      <3> PICK S \in Scopes, s \in Rules, u \in Callers, t \in Int :
                 S = result[q] /\ s = Scoper(q) /\ u = req[q].user /\ t = start[q]
        BY <1>2 DEF ScoperTypeOK
      <3>1. ScopeOK(S, s, u, t)
        BY <2>1 DEF RequestInv, ResultInv
      <3>2. ScopeOK(S, s, u, t)'
        BY <3>1, ScopeKept
      <3>3. result'[q] = S /\ Scoper(q)' = s /\ req'[q].user = u /\ start'[q] = t
        BY <1>1 DEF Idle
      <3> QED
        BY <3>2, <3>3, Zenon DEF ScopeOK
    <2>2. ASSUME pc[q] = "done"
          PROVE  ScopeOK(result[q], Scoper(q), req[q].user, start[q] - TTL + 1)'
      <3> PICK S \in Scopes, s \in Rules, u \in Callers, t \in Int :
                 S = result[q] /\ s = Scoper(q) /\ u = req[q].user /\ t = start[q] - TTL + 1
        <4>1. start[q] - TTL + 1 \in Int /\ result[q] \in Scopes
          BY <1>2 DEF ScoperTypeOK
        <4> QED
          BY <1>2, <4>1
      <3>1. ScopeOK(S, s, u, t)
        BY <2>2 DEF RequestInv, ResultInv
      <3>2. ScopeOK(S, s, u, t)'
        BY <3>1, ScopeKept
      <3>3. result'[q] = S /\ Scoper(q)' = s /\ req'[q].user = u
            /\ start'[q] - TTL + 1 = t
        BY <1>1 DEF Idle
      <3> QED
        BY <3>2, <3>3, Zenon DEF ScopeOK
    <2> QED
      BY <2>1, <2>2 DEF Idle, ResultInv
  <1>6. ResolveInv(q)'
    <2>1. ASSUME NEW x \in Targets
          PROVE  Since(q, x)' \/ ((Since(q, x)' <=> Since(q, x)) /\ (x \in Acl(q)' <=> x \in Acl(q)))
      <3>1. start[q] <= now
        BY DEF RequestInv
      <3>2. \/ changed'[Scoper(q)][req[q].user][x] = now
            \/ /\ changed'[Scoper(q)][req[q].user][x] = changed[Scoper(q)][req[q].user][x]
               /\ x \in acl'[Scoper(q)][req[q].user] <=> x \in acl[Scoper(q)][req[q].user]
        BY <1>2 DEF Dated
      <3> QED
        BY <1>1, <1>2, <3>1, <3>2 DEF Since, Acl
    <2>2. /\ allowed[q] \subseteq Targets
          /\ Acl(q) \subseteq Targets /\ Acl(q)' \subseteq Targets
      BY <1>1, <1>2 DEF ScoperTypeOK, Targets, Acl
    <2>3. ResolveInv(q)
      BY DEF RequestInv
    <2>4. (pc[q] \in {"list", "listMore", "sars"} =>
             NoNamespace \notin Acl(q) \/ Since(q, NoNamespace))'
      BY <1>2, <2>1, <2>3 DEF Idle, ResolveInv
    <2>5. (\A x \in allowed[q] : x \in Acl(q) \/ NoNamespace \in Acl(q)
                                 \/ Since(q, x) \/ Since(q, NoNamespace))'
      BY <1>2, <2>1, <2>2, <2>3 DEF Idle, ResolveInv
    <2>6. (pc[q] \in {"listMore", "sars"} =>
             \A x \in Acl(q) \ {NoNamespace} :
               \/ x \in unlisted[q] \cup toCheck[q] \cup running[q] \cup allowed[q]
               \/ firstErr[q]
               \/ Since(q, x))'
      BY <2>1, <2>2, <2>3 DEF Idle, ResolveInv
    <2> QED
      BY <2>4, <2>5, <2>6 DEF ResolveInv
  <1> QED
    BY <1>1, <1>3, <1>4, <1>5, <1>6 DEF RequestInv

\* The requests other than the one that takes a step are idle in it.
LEMMA OthersIdle ==
    ASSUME ScoperTypeOK, NEW q \in Requests, NEW p \in Requests, p # q,
           \/ \E u \in Callers, e \in Endpoints : Begin(q, u, e)
           \/ ResolveStep(q)
    PROVE  Idle(p)
  <1>1. CASE \E u \in Callers, e \in Endpoints : Begin(q, u, e)
    BY <1>1 DEF Begin, localVars, ScoperTypeOK, Idle
  <1>2. CASE Hit(q) \/ Miss(q) \/ ClusterReview(q) \/ Store(q)
    BY <1>2 DEF Hit, Miss, ClusterReview, Store, localVars, ScoperTypeOK, Idle
  <1>3. CASE ListPage(q)
    BY <1>3 DEF ListPage, ScoperTypeOK, Idle
  <1>4. ASSUME NEW ns \in Namespaces, Spawn(q, ns) \/ Review(q, ns) \/ ReviewFails(q, ns)
        PROVE  Idle(p)
    BY <1>4 DEF Spawn, Review, ReviewFails, ScoperTypeOK, Idle
  <1>5. CASE Collect(q) \/ EarlyFail(q)
    BY <1>5 DEF Collect, EarlyFail, ScoperTypeOK, Idle
  <1> QED
    BY <1>1, <1>2, <1>3, <1>4, <1>5 DEF ResolveStep, AnsweredStep

\* What a request's own steps leave alone: the cluster, the clock, who asks
\* and when it started.
LEMMA OwnStepFrame ==
    ASSUME ScoperTypeOK, NEW q \in Requests, ResolveStep(q)
    PROVE  /\ UNCHANGED <<now, clusterVars, req, start>>
           /\ Scoper(q)' = Scoper(q)
           /\ Acl(q)' = Acl(q)
           /\ \A x : Since(q, x)' <=> Since(q, x)
  <1>1. UNCHANGED <<now, clusterVars, req, start>>
    BY DEF ResolveStep, AnsweredStep, Hit, Miss, ClusterReview, ListPage, Spawn,
       Review, Collect, Store, EarlyFail, ReviewFails
  <1> QED
    BY <1>1 DEF clusterVars, Scoper, Acl, Since

\* A request starts.
LEMMA BeginKeepsRequest ==
    ASSUME ScoperTypeOK, NEW q \in Requests, RequestInv(q),
           NEW u \in Callers, NEW e \in Endpoints, Begin(q, u, e)
    PROVE  RequestInv(q)'
  <1>1. /\ pc[q] = "idle" /\ pc'[q] = "lookup" /\ start'[q] = now /\ now' = now
        /\ UNCHANGED <<unlisted, toCheck, running, allowed, firstErr>>
    BY DEF Begin, localVars, ScoperTypeOK
  <1>2. running'[q] = {} /\ allowed'[q] = {} /\ firstErr'[q] = FALSE
    BY <1>1 DEF RequestInv, LocalInv
  <1>3. start'[q] <= now'
    BY <1>1 DEF ScoperTypeOK
  <1> QED
    BY <1>1, <1>2, <1>3 DEF RequestInv, LocalInv, ResolveInv, ResultInv

\* The look-up: an entry that has not expired comes from a request that
\* started less than a TTL before this one.
LEMMA LookupKeepsRequest ==
    ASSUME ScoperTypeOK, CacheInv, NEW q \in Requests, RequestInv(q), Hit(q) \/ Miss(q)
    PROVE  RequestInv(q)'
  <1>1. /\ pc[q] = "lookup" /\ UNCHANGED <<now, clusterVars, req, start, localVars>>
        /\ Hit(q) => pc'[q] = "done"
        /\ Miss(q) => pc'[q] = "cluster"
    BY DEF Hit, Miss, ScoperTypeOK
  <1>2. start'[q] <= now' /\ LocalInv(q)' /\ ResolveInv(q)'
    BY <1>1 DEF RequestInv, LocalInv, ResolveInv, localVars
  <1>3. ResultInv(q)'
    <2>1. CASE Miss(q)
      BY <1>1, <2>1 DEF ResultInv
    <2>2. CASE Hit(q)
      <3> DEFINE e == cache[Key(q)]
      <3>1. /\ Scoper(q) \in Rules /\ req[q].user \in Callers /\ Key(q) \in Keys
            /\ start[q] \in Int /\ TTL \in Nat
        BY RequestTypes
      <3>2. e # NoEntry /\ e \in Entry /\ start[q] < e.expires
        BY <2>2, <3>1 DEF Hit, Fresh, ScoperTypeOK
      <3>3. e.expires \in Int /\ e.scope \in Scopes
        BY <3>2 DEF Entry
      <3>4. ScopeOK(e.scope, Scoper(q), req[q].user, e.expires - TTL)
        BY <3>1, <3>2 DEF CacheInv, Key
      <3>5. /\ e.expires - TTL \in Int /\ start[q] - TTL + 1 \in Int
            /\ start[q] - TTL + 1 <= e.expires - TTL
        BY <3>1, <3>2, <3>3
      <3>6. ScopeOK(e.scope, Scoper(q), req[q].user, start[q] - TTL + 1)
        BY <3>1, <3>4, <3>5, ScopeOlder
      <3>7. result'[q] = e.scope
        BY <2>2 DEF Hit, ScoperTypeOK
      <3> HIDE DEF e
      <3>8. ScopeOK(result[q], Scoper(q), req[q].user, start[q] - TTL + 1)'
        BY <1>1, <3>6, <3>7 DEF ScopeOK, Scoper, clusterVars
      <3> QED
        BY <1>1, <2>2, <3>8 DEF ResultInv
    <2> QED
      BY <2>1, <2>2
  <1> QED
    BY <1>2, <1>3 DEF RequestInv

\* The cluster-wide review and the pages of the namespace list.
LEMMA ListKeepsRequest ==
    ASSUME ScoperTypeOK, AclInv, NEW q \in Requests, RequestInv(q),
           ClusterReview(q) \/ ListPage(q) \/ EarlyFail(q)
    PROVE  RequestInv(q)'
  <1>1. /\ UNCHANGED <<now, clusterVars, req, start>>
        /\ Scoper(q)' = Scoper(q) /\ Acl(q)' = Acl(q)
        /\ \A x : Since(q, x)' <=> Since(q, x)
    BY OwnStepFrame DEF ResolveStep, AnsweredStep
  <1>2. pc[q] # "sars" /\ running[q] = {} /\ allowed[q] = {} /\ firstErr[q] = FALSE
    BY DEF ClusterReview, ListPage, EarlyFail, RequestInv, LocalInv
  <1>3. UNCHANGED <<running, allowed, firstErr>> /\ start'[q] <= now'
    BY <1>1 DEF ClusterReview, ListPage, EarlyFail, localVars, RequestInv
  <1>4. CASE ClusterReview(q)
    <2>1. CASE SubjectAccessReview(q, NoNamespace)
      <3>1. pc'[q] = "store" /\ result'[q] = AllScope
        BY <1>4, <2>1 DEF ClusterReview, ScoperTypeOK
      <3>2. NoNamespace \in acl[Scoper(q)][req[q].user]
        BY <2>1 DEF SubjectAccessReview
      <3>3. ScopeOK(AllScope, Scoper(q), req[q].user, start[q])
        BY <3>2 DEF ScopeOK, AllScope, Allows, RequestInv
      <3>4. ScopeOK(result[q], Scoper(q), req[q].user, start[q])'
        BY <1>1, <3>1, <3>3 DEF ScopeOK, clusterVars
      <3> QED
        BY <1>2, <1>3, <3>1, <3>4 DEF RequestInv, LocalInv, ResolveInv, ResultInv
    <2>2. CASE ~SubjectAccessReview(q, NoNamespace)
      <3>1. pc'[q] = "list"
        BY <1>4, <2>2 DEF ClusterReview, ScoperTypeOK
      <3>2. NoNamespace \notin Acl(q)
        BY <2>2 DEF SubjectAccessReview, Acl
      <3> QED
        BY <1>1, <1>2, <1>3, <3>1, <3>2 DEF RequestInv, LocalInv, ResolveInv, ResultInv
    <2> QED
      BY <2>1, <2>2
  <1>5. CASE ListPage(q)
    <2> PICK P \in SUBSET Remaining(q) :
               /\ toCheck' = [toCheck EXCEPT ![q] = @ \cup P]
               /\ IF LastPage(Remaining(q) \ P)
                    THEN /\ pc' = [pc EXCEPT ![q] = "sars"]
                         /\ unlisted' = [unlisted EXCEPT ![q] = {}]
                    ELSE /\ pc' = [pc EXCEPT ![q] = "listMore"]
                         /\ unlisted' = [unlisted EXCEPT ![q] = Remaining(q) \ P]
      BY <1>5 DEF ListPage
    <2>1. /\ toCheck'[q] = toCheck[q] \cup P
          /\ pc'[q] \in {"sars", "listMore"}
          /\ unlisted'[q] = Remaining(q) \ P
          /\ pc'[q] = "sars" => unlisted'[q] = {}
      <3>1. toCheck'[q] = toCheck[q] \cup P
        BY DEF ScoperTypeOK
      <3>2. CASE LastPage(Remaining(q) \ P)
        <4>1. pc'[q] = "sars" /\ unlisted'[q] = {}
          BY <3>2 DEF ScoperTypeOK
        <4>2. Remaining(q) \ P = {}
          BY <3>2 DEF LastPage
        <4> QED
          BY <3>1, <4>1, <4>2
      <3>3. CASE ~LastPage(Remaining(q) \ P)
        <4>1. pc'[q] = "listMore" /\ unlisted'[q] = Remaining(q) \ P
          BY <3>3 DEF ScoperTypeOK
        <4> QED
          BY <3>1, <4>1
      <3> QED
        BY <3>2, <3>3
    <2>2. \A x \in Acl(q) \ {NoNamespace} :
              x \in Remaining(q) \cup toCheck[q] \/ Since(q, x)
      <3>1. CASE pc[q] = "list"
        <4>1. Acl(q) \subseteq existing \cup {NoNamespace}
          BY RequestTypes DEF AclInv, Acl
        <4> QED
          BY <3>1, <4>1 DEF Remaining
      <3>2. CASE pc[q] = "listMore"
        BY <1>2, <3>2 DEF Remaining, RequestInv, ResolveInv
      <3> QED
        BY <1>5, <3>1, <3>2 DEF ListPage
    <2>3. NoNamespace \notin Acl(q) \/ Since(q, NoNamespace)
      BY <1>5 DEF ListPage, RequestInv, ResolveInv
    <2>4. ResolveInv(q)'
      BY <1>1, <1>2, <1>3, <2>1, <2>2, <2>3 DEF ResolveInv
    <2> QED
      BY <1>2, <1>3, <2>1, <2>4 DEF RequestInv, LocalInv, ResultInv
  <1>6. CASE EarlyFail(q)
    <2>1. pc'[q] = "failed"
      BY <1>6 DEF EarlyFail, ScoperTypeOK
    <2> QED
      BY <1>2, <1>3, <2>1 DEF RequestInv, LocalInv, ResolveInv, ResultInv
  <1> QED
    BY <1>4, <1>5, <1>6

\* The loop of resolve: each namespace goes from toCheck through a goroutine
\* into allowed, into the refused or, once, into firstErr.
LEMMA ReviewsKeepRequest ==
    ASSUME ScoperTypeOK, NEW q \in Requests, RequestInv(q), NEW ns \in Namespaces,
           Spawn(q, ns) \/ Review(q, ns) \/ ReviewFails(q, ns)
    PROVE  RequestInv(q)'
  <1>1. /\ UNCHANGED <<now, clusterVars, req, start>>
        /\ Acl(q)' = Acl(q)
        /\ \A x : Since(q, x)' <=> Since(q, x)
    BY OwnStepFrame DEF ResolveStep, AnsweredStep
  <1>2. pc[q] = "sars" /\ unlisted[q] = {}
    BY DEF Spawn, Review, ReviewFails, RequestInv, LocalInv
  <1>3. UNCHANGED <<pc, unlisted>> /\ start'[q] <= now'
    BY <1>1 DEF Spawn, Review, ReviewFails, RequestInv
  <1>4. NoNamespace \notin Acl(q) \/ Since(q, NoNamespace)
    BY <1>2 DEF RequestInv, ResolveInv
  <1>5. \A x \in allowed[q] :
            x \in Acl(q) \/ NoNamespace \in Acl(q) \/ Since(q, x) \/ Since(q, NoNamespace)
    BY DEF RequestInv, ResolveInv
  <1>6. \A x \in Acl(q) \ {NoNamespace} :
            \/ x \in toCheck[q] \cup running[q] \cup allowed[q]
            \/ firstErr[q]
            \/ Since(q, x)
    BY <1>2 DEF RequestInv, ResolveInv
  <1>7. CASE Spawn(q, ns)
    <2>1. /\ toCheck'[q] = toCheck[q] \ {ns}
          /\ running'[q] = running[q] \cup {ns}
          /\ UNCHANGED <<allowed, firstErr>>
      BY <1>7 DEF Spawn, ScoperTypeOK
    <2>2. ResolveInv(q)'
      BY <1>1, <1>2, <1>3, <1>4, <1>5, <1>6, <2>1 DEF ResolveInv
    <2> QED
      BY <1>2, <1>3, <2>2 DEF RequestInv, LocalInv, ResultInv
  <1>8. CASE Review(q, ns)
    <2>1. /\ running'[q] = running[q] \ {ns}
          /\ allowed'[q] = IF SubjectAccessReview(q, ns) THEN allowed[q] \cup {ns}
                                                         ELSE allowed[q]
          /\ UNCHANGED <<toCheck, firstErr>>
      BY <1>8 DEF Review, ScoperTypeOK
    <2>2. SubjectAccessReview(q, ns) <=> ns \in Acl(q) \/ NoNamespace \in Acl(q)
      BY DEF SubjectAccessReview, Acl
    <2>3. ResolveInv(q)'
      BY <1>1, <1>2, <1>3, <1>4, <1>5, <1>6, <2>1, <2>2 DEF ResolveInv
    <2> QED
      BY <1>2, <1>3, <2>3 DEF RequestInv, LocalInv, ResultInv
  <1>9. CASE ReviewFails(q, ns)
    <2>1. /\ running'[q] = running[q] \ {ns}
          /\ firstErr'[q] = TRUE
          /\ UNCHANGED <<toCheck, allowed>>
      BY <1>9 DEF ReviewFails, ScoperTypeOK
    <2>2. ResolveInv(q)'
      BY <1>1, <1>2, <1>3, <1>4, <1>5, <2>1 DEF ResolveInv
    <2> QED
      BY <1>2, <1>3, <2>2 DEF RequestInv, LocalInv, ResultInv
  <1> QED
    BY <1>7, <1>8, <1>9

\* The end of resolve: without an error nothing is missing from allowed.
LEMMA CollectKeepsRequest ==
    ASSUME ScoperTypeOK, NEW q \in Requests, RequestInv(q), Collect(q)
    PROVE  RequestInv(q)'
  <1>1. /\ UNCHANGED <<now, clusterVars, req, start>>
        /\ Scoper(q)' = Scoper(q)
    BY OwnStepFrame DEF ResolveStep, AnsweredStep
  <1>2. /\ pc[q] = "sars" /\ unlisted[q] = {} /\ toCheck[q] = {} /\ running[q] = {}
    BY DEF Collect, RequestInv, LocalInv
  <1>3. /\ running'[q] = {} /\ allowed'[q] = {} /\ firstErr'[q] = FALSE
        /\ start'[q] <= now'
    BY <1>1, <1>2 DEF Collect, ScoperTypeOK, RequestInv
  <1>4. CASE Partial(q)
    <2>1. pc'[q] = "failed"
      BY <1>4 DEF Collect, ScoperTypeOK
    <2> QED
      BY <1>3, <2>1 DEF RequestInv, LocalInv, ResolveInv, ResultInv
  <1>5. CASE ~Partial(q)
    <2>1. pc'[q] = "store" /\ result'[q] = SetScope(allowed[q])
      BY <1>5 DEF Collect, ScoperTypeOK
    <2>2. \A x : Allows(SetScope(allowed[q]), x) <=> x \in allowed[q]
      BY DEF Allows, SetScope
    <2>3. ScopeOK(SetScope(allowed[q]), Scoper(q), req[q].user, start[q])
      <3>1. start[q] <= now
        BY DEF RequestInv
      <3>2. \A x \in allowed[q] :
              x \in Acl(q) \/ NoNamespace \in Acl(q) \/ Since(q, x) \/ Since(q, NoNamespace)
        BY DEF RequestInv, ResolveInv
      <3>3. NoNamespace \notin Acl(q) \/ Since(q, NoNamespace)
        BY <1>2 DEF RequestInv, ResolveInv
      <3>4. \A x \in Acl(q) \ {NoNamespace} : x \in allowed[q] \/ Since(q, x)
        BY <1>2, <1>5 DEF RequestInv, ResolveInv, Partial
      <3>5. \A x \in Acl(q) : x \in allowed[q] \/ Since(q, x)
        BY <3>3, <3>4
      <3> QED
        BY <2>2, <3>1, <3>2, <3>5 DEF ScopeOK, Since, Acl
    <2>4. ScopeOK(result[q], Scoper(q), req[q].user, start[q])'
      BY <1>1, <2>1, <2>3 DEF ScopeOK, clusterVars
    <2> QED
      BY <1>3, <2>1, <2>4 DEF RequestInv, LocalInv, ResolveInv, ResultInv
  <1> QED
    BY <1>4, <1>5

\* The request that stores a scope returns it.
LEMMA StoreKeepsRequest ==
    ASSUME ScoperTypeOK, NEW q \in Requests, RequestInv(q), Store(q)
    PROVE  RequestInv(q)'
  <1>1. /\ UNCHANGED <<now, clusterVars, req, start>>
        /\ Scoper(q)' = Scoper(q)
    BY OwnStepFrame DEF ResolveStep, AnsweredStep
  <1>2. /\ pc[q] = "store" /\ pc'[q] = "done" /\ UNCHANGED <<localVars, result>>
    BY DEF Store, ScoperTypeOK
  <1>3. start'[q] <= now' /\ LocalInv(q)' /\ ResolveInv(q)'
    BY <1>1, <1>2 DEF RequestInv, LocalInv, ResolveInv, localVars
  <1>4. ScopeOK(result[q], Scoper(q), req[q].user, start[q])
    BY <1>2 DEF RequestInv, ResultInv
  <1>5. /\ Scoper(q) \in Rules /\ req[q].user \in Callers
        /\ start[q] \in Int /\ TTL \in Nat /\ TTL >= 1
    BY RequestTypes
  <1>6. start[q] - TTL + 1 \in Int /\ start[q] - TTL + 1 <= start[q]
    BY <1>5
  <1>7. ScopeOK(result[q], Scoper(q), req[q].user, start[q] - TTL + 1)
    BY <1>4, <1>5, <1>6, ScopeOlder
  <1>8. ScopeOK(result[q], Scoper(q), req[q].user, start[q] - TTL + 1)'
    BY <1>1, <1>2, <1>7 DEF ScopeOK, clusterVars
  <1> QED
    BY <1>2, <1>3, <1>8 DEF RequestInv, ResultInv

\* Every entry stays as good as the start of the request that stored it: the
\* time to live counts from there.
LEMMA CacheKept ==
    ASSUME ScoperInv, ScoperTypeOK', Dated, [Next]_vars
    PROVE  CacheInv'
  <1>1. ASSUME NEW s \in Rules, NEW u \in Callers,
               cache'[CacheKey(s, u)] # NoEntry,
               cache'[CacheKey(s, u)] = cache[CacheKey(s, u)]
        PROVE  ScopeOK(cache[CacheKey(s, u)].scope, s, u,
                       cache[CacheKey(s, u)].expires - TTL)'
    <2>1. CacheKey(s, u) \in Keys
      BY DEF Keys
    <2>2. cache[CacheKey(s, u)] \in Entry
      BY <1>1, <2>1 DEF ScoperInv, ScoperTypeOK
    <2>3. cache[CacheKey(s, u)].expires - TTL \in Int
      BY <2>2, ScoperAssumption DEF Entry
    <2> PICK S \in Scopes, t \in Int :
               S = cache[CacheKey(s, u)].scope /\ t = cache[CacheKey(s, u)].expires - TTL
      BY <2>2, <2>3 DEF Entry
    <2>4. ScopeOK(S, s, u, t)
      BY <1>1 DEF ScoperInv, CacheInv
    <2>5. ScopeOK(S, s, u, t)'
      BY <2>4, ScopeKept DEF ScoperInv
    <2>6. cache'[CacheKey(s, u)].scope = S /\ cache'[CacheKey(s, u)].expires - TTL = t
      BY <1>1
    <2> QED
      BY <2>5, <2>6, Zenon DEF ScopeOK
  <1>2. CASE UNCHANGED cache
    BY <1>1, <1>2 DEF CacheInv, CacheKey
  <1>3. ASSUME NEW q \in Requests, Store(q)
        PROVE  CacheInv'
    <2>1. ASSUME NEW s \in Rules, NEW u \in Callers, cache'[CacheKey(s, u)] # NoEntry
          PROVE  ScopeOK(cache[CacheKey(s, u)].scope, s, u,
                         cache[CacheKey(s, u)].expires - TTL)'
      <3>1. CacheKey(s, u) \in Keys /\ cache \in [Keys -> Entry \cup {NoEntry}]
        BY DEF Keys, ScoperInv, ScoperTypeOK
      <3>2. /\ Scoper(q) \in Rules /\ req[q].user \in Callers /\ Key(q) \in Keys
            /\ start[q] \in Int /\ TTL \in Nat
        BY RequestTypes DEF ScoperInv
      <3>3. cache' = [cache EXCEPT ![Key(q)] = [scope |-> result[q], expires |-> start[q] + TTL]]
        BY <1>3 DEF Store, Expiry
      <3>4. CASE CacheKey(s, u) # Key(q)
        <4>1. cache'[CacheKey(s, u)] = cache[CacheKey(s, u)]
          BY <3>1, <3>2, <3>3, <3>4
        <4> QED
          BY <1>1, <2>1, <4>1
      <3>5. CASE CacheKey(s, u) = Key(q)
        <4>1. s = Scoper(q) /\ u = req[q].user
          BY <3>2, <3>5, KeysDiffer DEF Key
        <4>2. cache'[CacheKey(s, u)] = [scope |-> result[q], expires |-> start[q] + TTL]
          BY <3>1, <3>3, <3>5
        <4>3. /\ cache'[CacheKey(s, u)].scope = result[q]
              /\ cache'[CacheKey(s, u)].expires - TTL = start[q]
          <5>1. /\ cache'[CacheKey(s, u)].scope = result[q]
                /\ cache'[CacheKey(s, u)].expires = start[q] + TTL
            BY <4>2
          <5> QED
            BY <3>2, <5>1
        <4>4. ScopeOK(result[q], s, u, start[q])
          BY <1>3, <4>1 DEF Store, ScoperInv, RequestInv, ResultInv
        <4>5. UNCHANGED <<now, acl, changed>>
          BY <1>3 DEF Store, clusterVars
        <4> QED
          BY <4>3, <4>4, <4>5 DEF ScopeOK
      <3> QED
        BY <3>4, <3>5
    <2> QED
      BY <2>1 DEF CacheInv, CacheKey
  <1>4. CASE UNCHANGED vars \/ Quiet \/ Clock \/ ClusterStep
    BY <1>2, <1>4 DEF vars, Quiet, Clock, ClusterStep, Change, CreateNamespace,
       DeleteNamespace, ClusterChanges
  <1>5. ASSUME NEW q \in Requests, NEW u \in Callers, NEW e \in Endpoints, Begin(q, u, e)
        PROVE  CacheInv'
    BY <1>2, <1>5 DEF Begin
  <1>6. ASSUME NEW q \in Requests, ResolveStep(q)
        PROVE  CacheInv'
    <2>1. Store(q) \/ UNCHANGED cache
      BY <1>6 DEF ResolveStep, AnsweredStep, Hit, Miss, ClusterReview, ListPage, Spawn,
         Review, Collect, EarlyFail, ReviewFails
    <2> QED
      BY <1>2, <1>3, <2>1
  <1> QED
    BY <1>4, <1>5, <1>6 DEF Next, ClusterStep

\* The initial states have the invariant.
LEMMA ScoperInvInit == Init => ScoperInv
  <1> SUFFICES ASSUME Init PROVE ScoperInv
    OBVIOUS
  <1>1. ScoperTypeOK
    BY TypeInit
  <1>2. AclInv
    BY DEF Init, AclInv
  <1>3. CacheInv
    BY DEF Init, CacheInv, Keys
  <1>4. ASSUME NEW q \in Requests
        PROVE  RequestInv(q)
    <2>1. /\ pc[q] = "idle" /\ start[q] = 0 /\ now = 0
          /\ running[q] = {} /\ allowed[q] = {} /\ firstErr[q] = FALSE
      BY DEF Init
    <2> QED
      BY <2>1 DEF RequestInv, LocalInv, ResolveInv, ResultInv
  <1> QED
    BY <1>1, <1>2, <1>3, <1>4 DEF ScoperInv

\* Every step keeps the invariant.
LEMMA ScoperInvNext == ScoperInv /\ [Next]_vars => ScoperInv'
  <1> SUFFICES ASSUME ScoperInv, [Next]_vars PROVE ScoperInv'
    OBVIOUS
  <1>1. ScoperTypeOK /\ AclInv /\ CacheInv /\ \A q \in Requests : RequestInv(q)
    BY DEF ScoperInv
  <1>2. ScoperTypeOK'
    BY <1>1, TypeNext
  <1>3. Dated /\ AclInv'
    BY <1>1, StepsAreDated
  <1>4. CacheInv'
    BY <1>2, <1>3, CacheKept
  <1>5. ASSUME NEW p \in Requests
        PROVE  RequestInv(p)'
    <2>1. CASE Idle(p)
      BY <1>1, <1>2, <1>3, <2>1, RequestKept
    <2>2. CASE UNCHANGED vars \/ Quiet \/ Clock \/ ClusterStep
      <3>1. Idle(p)
        BY <2>2 DEF vars, Quiet, Clock, ClusterStep, Change, CreateNamespace,
           DeleteNamespace, ClusterChanges, localVars, Idle
      <3> QED
        BY <2>1, <3>1
    <2>3. ASSUME NEW q \in Requests, NEW u \in Callers, NEW e \in Endpoints, Begin(q, u, e)
          PROVE  RequestInv(p)'
      BY <1>1, <2>1, <2>3, OthersIdle, BeginKeepsRequest
    <2>4. ASSUME NEW q \in Requests, ResolveStep(q)
          PROVE  RequestInv(p)'
      <3>1. CASE p # q
        BY <1>1, <2>1, <2>4, <3>1, OthersIdle
      <3>2. ASSUME NEW ns \in Namespaces, Spawn(q, ns) \/ Review(q, ns) \/ ReviewFails(q, ns)
            PROVE  RequestInv(q)'
        BY <1>1, <3>2, ReviewsKeepRequest
      <3>3. CASE Hit(q) \/ Miss(q)
        BY <1>1, <3>1, <3>3, LookupKeepsRequest
      <3>4. CASE ClusterReview(q) \/ ListPage(q) \/ EarlyFail(q)
        BY <1>1, <3>1, <3>4, ListKeepsRequest
      <3>5. CASE Collect(q) \/ Store(q)
        BY <1>1, <3>1, <3>5, CollectKeepsRequest, StoreKeepsRequest
      <3> QED
        BY <2>4, <3>1, <3>2, <3>3, <3>4, <3>5 DEF ResolveStep, AnsweredStep
    <2> QED
      BY <2>2, <2>3, <2>4 DEF Next, ClusterStep
  <1> QED
    BY <1>2, <1>3, <1>4, <1>5 DEF ScoperInv

-----------------------------------------------------------------------------
\* The types of the scoper's state; at most sarConcurrency SARs of a request
\* are under way (sem).
THEOREM ScoperTypeCorrect == Spec => []ScoperTypeOK
  <1>1. ScoperInv => ScoperTypeOK
    BY DEF ScoperInv
  <1> QED
    BY <1>1, ScoperInvInit, ScoperInvNext, PTL DEF Spec

\* Whoever resolves, reads or overwrites the cache at the same time, and
\* whatever the administrators do meanwhile: what scopeFor grants and the
\* cluster does not was revoked less than the TTL before the request.
THEOREM ScopeNeverStaleGrant == Spec => []NoStaleGrant
  <1>1. ScoperInv => NoStaleGrant
    <2> SUFFICES ASSUME ScoperInv, NEW q \in Requests, pc[q] = "done",
                        NEW x \in Targets, Allows(result[q], x)
                 PROVE  \/ {x, NoNamespace} \cap Acl(q) # {}
                        \/ ChangedLately(q, x)
                        \/ ChangedLately(q, NoNamespace)
      BY DEF NoStaleGrant
    <2>1. ScopeOK(result[q], Scoper(q), req[q].user, start[q] - TTL + 1)
      BY DEF ScoperInv, RequestInv, ResultInv
    <2>2. /\ start[q] \in Int /\ TTL \in Nat /\ NoNamespace \in Targets
          /\ \A y \in Targets : changed[Scoper(q)][req[q].user][y] \in Int
      BY RequestTypes DEF ScoperInv
    <2>3. ASSUME NEW y \in Targets,
                 changed[Scoper(q)][req[q].user][y] >= start[q] - TTL + 1
          PROVE  ChangedLately(q, y)
      BY <2>2, <2>3 DEF ChangedLately
    <2>4. \/ x \in Acl(q) \/ NoNamespace \in Acl(q)
          \/ changed[Scoper(q)][req[q].user][x] >= start[q] - TTL + 1
          \/ changed[Scoper(q)][req[q].user][NoNamespace] >= start[q] - TTL + 1
      BY <2>1 DEF ScopeOK, Acl
    <2> QED
      BY <2>2, <2>3, <2>4
  <1> QED
    BY <1>1, ScoperInvInit, ScoperInvNext, PTL DEF Spec

\* Nor does scopeFor refuse, from a page, a failed review or an old entry,
\* what the cluster has granted for a TTL.
THEOREM ScopeNeverStaleDenial == Spec => []NoStaleDenial
  <1>1. ScoperInv => NoStaleDenial
    <2> SUFFICES ASSUME ScoperInv, NEW q \in Requests, pc[q] = "done",
                        NEW x \in Acl(q)
                 PROVE  Allows(result[q], x) \/ ChangedLately(q, x)
      BY DEF NoStaleDenial
    <2>1. ScopeOK(result[q], Scoper(q), req[q].user, start[q] - TTL + 1)
      BY DEF ScoperInv, RequestInv, ResultInv
    <2>2. /\ start[q] \in Int /\ TTL \in Nat /\ x \in Targets
          /\ \A y \in Targets : changed[Scoper(q)][req[q].user][y] \in Int
      BY RequestTypes DEF ScoperInv
    <2>3. \/ Allows(result[q], x)
          \/ changed[Scoper(q)][req[q].user][x] >= start[q] - TTL + 1
      BY <2>1 DEF ScopeOK, Acl
    <2> QED
      BY <2>2, <2>3 DEF ChangedLately
  <1> QED
    BY <1>1, ScoperInvInit, ScoperInvNext, PTL DEF Spec

=============================================================================
