----------------------------- MODULE RBACScoper -----------------------------
(***************************************************************************)
(* rbac.go: how a request's namespace scope is resolved with               *)
(* SubjectAccessReviews (SARs) and cached.  Processes: the requests that   *)
(* are in scopeFor at the same time, the per-namespace goroutines of       *)
(* resolve, and the cluster's administrators, who change the RBAC rules    *)
(* and create and delete namespaces while all that goes on.                *)
(***************************************************************************)
EXTENDS Scope, Integers, Sequences, FiniteSets

CONSTANTS
    Requests,         \* the requests of a run; each makes one call of scopeFor
    Callers,          \* jwtutil.UserInfo: [username, groups]
    AuditConfigured,  \* whether an AUDIT_SCOPING_* variable is set
    SarConcurrency,   \* sarConcurrency
    PageLimit,        \* the limit of a page of the namespace list
    TTL,              \* s.ttl
    InitialAcls,      \* what the cluster may allow at the start
    MaxTime,          \* the clock runs from 0 to MaxTime
    MaxChanges,       \* bound on changes of permissions and namespaces
    MaxErrors,        \* bound on failed calls of the Kubernetes API
    NoEntry           \* a key that is not in a cache

\* /notifications has the scoper of /events: for scopeFor they are the same.
Endpoints == {"events", "audit"}

\* newRouter and loadAuditScoper: /audit has the scoper of /events unless it
\* is configured apart, and then its own rule and its own cache.
ScoperOf(e) == IF AuditConfigured THEN e ELSE "events"

\* The scopers there are, each with the rule (verb, group, resource) that its
\* SARs are about.
Rules == {ScoperOf(e) : e \in Endpoints}

\* What a SAR is about: a namespace, or "" for the whole cluster.
Targets == Namespaces \cup {NoNamespace}

ASSUME ScoperAssumption ==
    /\ IsFiniteSet(Namespaces)
    /\ Callers # {}
    /\ \A u, v \in Callers : u.username = v.username /\ u.groups = v.groups => u = v
    /\ AuditConfigured \in BOOLEAN
    /\ SarConcurrency \in Nat \ {0}
    /\ PageLimit \in Nat \ {0}
    /\ TTL \in Nat \ {0}
    /\ MaxTime \in Nat
    /\ MaxChanges \in Nat
    /\ MaxErrors \in Nat
    /\ InitialAcls \subseteq [Rules -> [Callers -> SUBSET Targets]]

VARIABLES
    now,      \* the clock
    existing, \* the namespaces of the cluster
    acl,      \* what the cluster's bindings grant: [rule -> [caller -> set]]
    changed,  \* history: when each of these grants last changed
    cache,    \* s.cache of each scoper
    pc,       \* where each request is
    req,      \* its caller and endpoint
    start,    \* its time.Now() in scopeFor
    unlisted, \* namespaces after the continue token of its list
    toCheck,  \* names, then those its resolve loop has not reached
    running,  \* namespaces with a SAR goroutine
    allowed, firstErr,  \* locals of resolve
    result,   \* the scope it got
    budget    \* what is left of MaxChanges and MaxErrors

clusterVars == <<existing, acl, changed>>
localVars   == <<unlisted, toCheck, running, allowed, firstErr>>
vars        == <<now, clusterVars, cache, pc, req, start, localVars, result, budget>>

\* Mutants: the key without the groups; one cache for both scopers.
CacheKey_NoGroups(s, u) == <<s, u.username>>

CacheKey_OneCache(s, u) == <<u.username, u.groups>>

\* The scoper's own cache, and cacheKey(u) in it.  The strings are joined with
\* a NUL, which is in none of them, so that different callers have different
\* keys, but for one with no group and one whose only group is the empty
\* string, a group that no RBAC binding can name.
CacheKey(s, u) == <<s, u.username, u.groups>>

Keys == {CacheKey(s, u) : s \in Rules, u \in Callers}

Entry == [scope : Scopes, expires : Int]

PCs == {"idle", "lookup", "cluster", "list", "listMore", "sars", "store", "done", "failed"}

NoRequest == [user |-> CHOOSE u \in Callers : TRUE, endpoint |-> "events"]

\* The types of the state.
ScoperTypeOK ==
    /\ now \in 0 .. MaxTime
    /\ existing \subseteq Namespaces
    /\ acl \in [Rules -> [Callers -> SUBSET Targets]]
    /\ changed \in [Rules -> [Callers -> [Targets -> Int]]]
    /\ cache \in [Keys -> Entry \cup {NoEntry}]
    /\ pc \in [Requests -> PCs]
    /\ req \in [Requests -> [user : Callers, endpoint : Endpoints]]
    /\ start \in [Requests -> 0 .. MaxTime]
    /\ unlisted \in [Requests -> SUBSET Namespaces]
    /\ toCheck \in [Requests -> SUBSET Namespaces]
    /\ running \in [Requests -> SUBSET Namespaces]
    /\ \A q \in Requests : Cardinality(running[q]) <= SarConcurrency
    /\ allowed \in [Requests -> SUBSET Namespaces]
    /\ firstErr \in [Requests -> BOOLEAN]
    /\ result \in [Requests -> Scopes]
    /\ budget \in [changes : Nat, errors : Nat]

-----------------------------------------------------------------------------
Init ==
    /\ now = 0
    /\ acl \in InitialAcls
    /\ existing \in SUBSET Namespaces
    /\ \A r \in Rules, u \in Callers : acl[r][u] \subseteq existing \cup {NoNamespace}
    /\ changed = [r \in Rules |-> [u \in Callers |-> [x \in Targets |-> -TTL]]]
    /\ cache = [k \in Keys |-> NoEntry]
    /\ pc = [q \in Requests |-> "idle"]
    /\ req = [q \in Requests |-> NoRequest]
    /\ start = [q \in Requests |-> 0]
    /\ unlisted = [q \in Requests |-> {}]
    /\ toCheck = [q \in Requests |-> {}]
    /\ running = [q \in Requests |-> {}]
    /\ allowed = [q \in Requests |-> {}]
    /\ firstErr = [q \in Requests |-> FALSE]
    /\ result = [q \in Requests |-> SetScope({})]
    /\ budget = [changes |-> MaxChanges, errors |-> MaxErrors]

Scoper(q) == ScoperOf(req[q].endpoint)
Key(q)    == CacheKey(Scoper(q), req[q].user)

\* What the API server answers: a binding for the whole cluster covers each
\* namespace.
SubjectAccessReview(q, x) ==
    {x, NoNamespace} \cap acl[Scoper(q)][req[q].user] # {}

\* A call of the Kubernetes API may fail (k.do returns an error).
CallFails ==
    /\ budget.errors > 0
    /\ budget' = [budget EXCEPT !.errors = @ - 1]

-----------------------------------------------------------------------------
(***************************************************************************)
(* The environment.                                                        *)
(***************************************************************************)
Clock ==
    /\ now < MaxTime
    /\ now' = now + 1
    /\ UNCHANGED <<clusterVars, cache, pc, req, start, localVars, result, budget>>

ClusterChanges ==
    /\ budget.changes > 0
    /\ budget' = [budget EXCEPT !.changes = @ - 1]
    /\ UNCHANGED <<now, cache, pc, req, start, localVars, result>>

\* An administrator grants or revokes a permission.
Change(r, u, x) ==
    /\ ClusterChanges
    /\ x \in existing \cup {NoNamespace}
    /\ acl' = [acl EXCEPT ![r][u] = IF x \in @ THEN @ \ {x} ELSE @ \cup {x}]
    /\ changed' = [changed EXCEPT ![r][u][x] = now]
    /\ UNCHANGED existing

\* A namespace comes into being, with nobody's bindings in it.
CreateNamespace(x) ==
    /\ ClusterChanges
    /\ x \notin existing
    /\ existing' = existing \cup {x}
    /\ UNCHANGED <<acl, changed>>

\* A namespace is deleted, and the bindings in it with it.
DeleteNamespace(x) ==
    /\ ClusterChanges
    /\ x \in existing
    /\ existing' = existing \ {x}
    /\ acl' = [r \in Rules |-> [u \in Callers |-> acl[r][u] \ {x}]]
    /\ changed' = [r \in Rules |-> [u \in Callers |->
                      [changed[r][u] EXCEPT ![x] = IF x \in acl[r][u] THEN now ELSE @]]]

-----------------------------------------------------------------------------
(***************************************************************************)
(* scopeFor.                                                               *)
(***************************************************************************)

\* A verified request of caller u reaches endpoint e: now := time.Now().
Begin(q, u, e) ==
    /\ pc[q] = "idle"
    /\ pc' = [pc EXCEPT ![q] = "lookup"]
    /\ req' = [req EXCEPT ![q] = [user |-> u, endpoint |-> e]]
    /\ start' = [start EXCEPT ![q] = now]
    /\ UNCHANGED <<now, clusterVars, cache, localVars, result, budget>>

\* s.cache[key] is there and has not expired.
Fresh(q) ==
    /\ cache[Key(q)] # NoEntry
    /\ start[q] < cache[Key(q)].expires

\* A fresh entry answers the request.
Hit(q) ==
    /\ pc[q] = "lookup"
    /\ Fresh(q)
    /\ result' = [result EXCEPT ![q] = cache[Key(q)].scope]
    /\ pc' = [pc EXCEPT ![q] = "done"]
    /\ UNCHANGED <<now, clusterVars, cache, req, start, localVars, budget>>

\* No entry, or an old one: resolve.
Miss(q) ==
    /\ pc[q] = "lookup"
    /\ ~Fresh(q)
    /\ pc' = [pc EXCEPT ![q] = "cluster"]
    /\ UNCHANGED <<now, clusterVars, cache, req, start, localVars, result, budget>>

\* Mutant: the time to live counts from the end of the reviews.
Expiry_FromNow(q) == now + TTL

\* now.Add(s.ttl), with the now of the request's start.
Expiry(q) == start[q] + TTL

\* The scope goes into the cache, over whatever a request that resolved it
\* in the meantime has put there, and is returned.
Store(q) ==
    /\ pc[q] = "store"
    /\ cache' = [cache EXCEPT ![Key(q)] =
                    [scope |-> result[q], expires |-> Expiry(q)]]
    /\ pc' = [pc EXCEPT ![q] = "done"]
    /\ UNCHANGED <<now, clusterVars, req, start, localVars, result, budget>>

-----------------------------------------------------------------------------
(***************************************************************************)
(* resolve.                                                                *)
(***************************************************************************)

\* The cluster-wide SAR.
ClusterReview(q) ==
    /\ pc[q] = "cluster"
    /\ IF SubjectAccessReview(q, NoNamespace)
         THEN /\ pc' = [pc EXCEPT ![q] = "store"]
              /\ result' = [result EXCEPT ![q] = AllScope]
         ELSE /\ pc' = [pc EXCEPT ![q] = "list"]
              /\ UNCHANGED result
    /\ UNCHANGED <<now, clusterVars, cache, req, start, localVars, budget>>

\* What is left to list: all namespaces for the first call; for the others,
\* what the first call's state of the cluster has after the continue token.
Remaining(q) == IF pc[q] = "list" THEN existing ELSE unlisted[q]

\* A page: limit namespaces, or all that are left.
IsPage(P, S) ==
    \/ P = S /\ Cardinality(P) <= PageLimit
    \/ P \subseteq S /\ Cardinality(P) = PageLimit

\* Mutants: only one page is read; the continue token is never cleared.
LastPage_First(rest) == TRUE

LastPage_Never(rest) == FALSE

\* cont == ""
LastPage(rest) == rest = {}

\* One turn of the loop of listNamespaces; after the last one, resolve's loop
\* is about to start.
ListPage(q) ==
    /\ pc[q] \in {"list", "listMore"}
    /\ \E P \in SUBSET Remaining(q) :
           /\ IsPage(P, Remaining(q))
           /\ toCheck' = [toCheck EXCEPT ![q] = @ \cup P]
           /\ IF LastPage(Remaining(q) \ P)
                THEN /\ pc' = [pc EXCEPT ![q] = "sars"]
                     /\ unlisted' = [unlisted EXCEPT ![q] = {}]
                ELSE /\ pc' = [pc EXCEPT ![q] = "listMore"]
                     /\ unlisted' = [unlisted EXCEPT ![q] = Remaining(q) \ P]
    /\ UNCHANGED <<now, clusterVars, cache, req, start, running, allowed, firstErr,
                   result, budget>>

\* One of these calls fails (for a later page also because the token has
\* expired): no scope.
EarlyFail(q) ==
    /\ pc[q] \in {"cluster", "list", "listMore"}
    /\ CallFails
    /\ pc' = [pc EXCEPT ![q] = "failed"]
    /\ unlisted' = [unlisted EXCEPT ![q] = {}]
    /\ toCheck' = [toCheck EXCEPT ![q] = {}]
    /\ UNCHANGED <<now, clusterVars, cache, req, start, running, allowed, firstErr,
                   result>>

\* Mutant: no semaphore.
SlotFree_Always(q) == TRUE

SlotFree(q) == Cardinality(running[q]) < SarConcurrency

\* sem <- struct{}{}, then go func(ns).
Spawn(q, ns) ==
    /\ pc[q] = "sars"
    /\ ns \in toCheck[q]
    /\ SlotFree(q)
    /\ toCheck' = [toCheck EXCEPT ![q] = @ \ {ns}]
    /\ running' = [running EXCEPT ![q] = @ \cup {ns}]
    /\ UNCHANGED <<now, clusterVars, cache, pc, req, start, unlisted, allowed,
                   firstErr, result, budget>>

\* A goroutine's SAR is answered; it releases sem and the wait group.
Review(q, ns) ==
    /\ ns \in running[q]
    /\ running' = [running EXCEPT ![q] = @ \ {ns}]
    /\ allowed' = [allowed EXCEPT ![q] = IF SubjectAccessReview(q, ns)
                                           THEN @ \cup {ns} ELSE @]
    /\ UNCHANGED <<now, clusterVars, cache, pc, req, start, unlisted, toCheck,
                   firstErr, result, budget>>

\* A goroutine's SAR fails: firstErr is set.
ReviewFails(q, ns) ==
    /\ ns \in running[q]
    /\ CallFails
    /\ running' = [running EXCEPT ![q] = @ \ {ns}]
    /\ firstErr' = [firstErr EXCEPT ![q] = TRUE]
    /\ UNCHANGED <<now, clusterVars, cache, pc, req, start, unlisted, toCheck,
                   allowed, result>>

\* Mutant: the errors are logged and forgotten.
Partial_Ignored(q) == FALSE

\* if firstErr != nil
Partial(q) == firstErr[q]

\* wg.Wait() returns: one failed SAR and there is no scope.  The locals of
\* resolve go out of scope.
Collect(q) ==
    /\ pc[q] = "sars"
    /\ toCheck[q] = {}
    /\ running[q] = {}
    /\ IF Partial(q)
         THEN /\ pc' = [pc EXCEPT ![q] = "failed"]
              /\ UNCHANGED result
         ELSE /\ pc' = [pc EXCEPT ![q] = "store"]
              /\ result' = [result EXCEPT ![q] = SetScope(allowed[q])]
    /\ allowed' = [allowed EXCEPT ![q] = {}]
    /\ firstErr' = [firstErr EXCEPT ![q] = FALSE]
    /\ UNCHANGED <<now, clusterVars, cache, req, start, unlisted, toCheck, running, budget>>

-----------------------------------------------------------------------------
\* The steps of a request whose calls are answered.
AnsweredStep(q) ==
    \/ Hit(q)
    \/ Miss(q)
    \/ ClusterReview(q)
    \/ ListPage(q)
    \/ \E ns \in Namespaces : Spawn(q, ns) \/ Review(q, ns)
    \/ Collect(q)
    \/ Store(q)

ResolveStep(q) ==
    \/ AnsweredStep(q)
    \/ EarlyFail(q)
    \/ \E ns \in Namespaces : ReviewFails(q, ns)

\* All requests of the run have been answered; the server waits for more.
Quiet ==
    /\ \A q \in Requests : pc[q] \in {"done", "failed"}
    /\ UNCHANGED vars

Next ==
    \/ Clock
    \/ \E r \in Rules, u \in Callers, x \in Targets : Change(r, u, x)
    \/ \E x \in Namespaces : CreateNamespace(x) \/ DeleteNamespace(x)
    \/ \E q \in Requests, u \in Callers, e \in Endpoints : Begin(q, u, e)
    \/ \E q \in Requests : ResolveStep(q)
    \/ Quiet

Spec == Init /\ [][Next]_vars

-----------------------------------------------------------------------------
Acl(q) == acl[Scoper(q)][req[q].user]

\* Whether the cluster's answer about x changed less than a TTL before the
\* request, or since.
ChangedLately(q, x) ==
    changed[Scoper(q)][req[q].user][x] > start[q] - TTL

\* No scope outlives its permissions by more than the TTL: what a request is
\* granted and the cluster does not grant (any more) was revoked less than a
\* TTL before the request.  It holds for answers from the cache, for answers
\* that took long to resolve, for entries that concurrent requests have
\* overwritten, and for each endpoint's own rule.
NoStaleGrant ==
    \A q \in Requests : pc[q] = "done" =>
        \A x \in Targets :
            Allows(result[q], x) =>
                \/ {x, NoNamespace} \cap Acl(q) # {}
                \/ ChangedLately(q, x)
                \/ ChangedLately(q, NoNamespace)

\* Nor is a scope too narrow: what the cluster grants and the request is
\* refused was granted less than a TTL before.  In particular a scope is
\* never made from the SARs that happened to succeed ("a partial answer") or
\* from some pages of the namespace list.
NoStaleDenial ==
    \A q \in Requests : pc[q] = "done" =>
        \A x \in Acl(q) : Allows(result[q], x) \/ ChangedLately(q, x)

\* Every call of the Kubernetes API ends, with an answer or (the client has a
\* timeout of 10 s) an error, and the goroutines of a request are scheduled.
\* No call has to fail.
Fairness == \A q \in Requests : WF_vars(AnsweredStep(q))

LiveSpec == Spec /\ Fairness

\* Every request gets a scope or an error, also if there are more namespaces
\* than sem has slots or a page has room for, and some calls fail.
EveryRequestEnds ==
    \A q \in Requests : pc[q] = "lookup" ~> pc[q] \in {"done", "failed"}

=============================================================================
