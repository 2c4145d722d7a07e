----------------------------- MODULE Lifecycle -----------------------------
(***************************************************************************)
(* main(): start-up from the environment variables, the poller goroutine,  *)
(* the goroutine that waits for a signal, and the end of the process.      *)
(* When main returns, the Go runtime ends the process whatever the other   *)
(* goroutines are doing; os.Exit ends it without the deferred calls.       *)
(***************************************************************************)
EXTENDS Naturals, Sequences

CONSTANTS
    Requests,     \* the HTTP requests of a run
    Environments  \* the environments to start the process in: see Environment

Attributes == {"verb", "resource", "apiGroup"}

\* The variables that start-up looks at.  "unset" and "empty" are told apart
\* because the documentation does; "blank" is white space only.  kube: what
\* newInClusterKubeClient finds.  auditVars: the AUDIT_SCOPING_* variables
\* that are set.  OTEL_*: "" is unset or empty, "other" not a true value.
Environment == [jwksURL     : {"unset", "empty", "blank", "url"},
                urlAuthn    : {"unset", "empty", "blank", "url"},
                scoping     : BOOLEAN,
                kube        : {"override", "inCluster", "noHost", "noCA", "badCA"},
                ttl         : {"unset", "good", "bad"},
                auditVars   : SUBSET Attributes,
                otelEnabled : {"", "true", "other"},
                otelTracing : {"", "true", "other"},
                otelMetrics : {"", "true", "other"}]

ASSUME LifecycleAssumption == Environments \subseteq Environment

VARIABLES
    env,       \* the environment
    main,      \* where main is
    jwks,      \* auth.jwksURL, "" until it is resolved
    events,    \* scoper
    audit,     \* auditScoper
    providers, \* the telemetry providers installed, in order
    flushed,   \* how many of them the deferred shutdownTel has shut down
    signalled, \* SIGTERM or SIGINT was sent
    sig,       \* where the signal goroutine is
    ctxDone,   \* cancel() was called
    closing,   \* srv.Shutdown was called: srv.shuttingDown(), listener closed
    timedOut,  \* shutdownCtx has expired
    poller,    \* where the poller goroutine is
    req        \* the requests

loadVars == <<env, jwks, events, audit, providers>>
stopVars == <<signalled, ctxDone, closing, timedOut>>
goVars   == <<sig, poller, req>>
vars     == <<loadVars, main, flushed, stopVars, goVars>>

\* An rbacScoper: where each attribute of its reviews comes from, and its
\* cache.
Scoper == [rule : [Attributes -> {"RBAC_SCOPING", "AUDIT_SCOPING"}],
           cache : {"nil", "first", "second"}]

EventsScoper == [rule |-> [a \in Attributes |-> "RBAC_SCOPING"], cache |-> "first"]
NilScoper    == [EventsScoper EXCEPT !.cache = "nil"]

MainPCs == {"auth", "scoper", "audit", "telemetry", "meter", "wire", "notify", "listen",
            "serve", "defers", "exited", "fatal", "killed"}

\* The types of the state; the poller's context is cancelled before the
\* server is closed.
LifecycleTypeOK ==
    /\ env \in Environment
    /\ main \in MainPCs
    /\ jwks \in {"", "url", "derived", "default"}
    /\ {events, audit} \subseteq Scoper
    /\ providers \in {<<>>, <<"tracer">>, <<"meter">>, <<"tracer", "meter">>}
    /\ flushed \in 0 .. Len(providers)
    /\ sig \in {"off", "wait", "cancel", "draining", "returned"}
    /\ poller \in {"off", "idle", "polling", "stopped"}
    /\ req \in [Requests -> {"none", "active", "done", "cut"}]
    /\ {signalled, ctxDone, closing, timedOut} \subseteq BOOLEAN
    /\ closing => ctxDone

Init ==
    /\ env \in Environments
    /\ main = "auth"
    /\ jwks = ""
    /\ events = NilScoper
    /\ audit = NilScoper
    /\ providers = <<>>
    /\ flushed = 0
    /\ signalled = FALSE
    /\ sig = "off"
    /\ ctxDone = FALSE
    /\ closing = FALSE
    /\ timedOut = FALSE
    /\ poller = "off"
    /\ req = [q \in Requests |-> "none"]

Running == main \notin {"exited", "fatal", "killed"}

\* The process ends: open requests are cut off, goroutines vanish.
Exit(how) ==
    /\ main' = how
    /\ req' = [q \in Requests |-> IF req[q] = "active" THEN "cut" ELSE req[q]]
    /\ poller' = IF poller = "off" THEN "off" ELSE "stopped"
    /\ sig' = "off"

Proceed(to) == main' = to /\ UNCHANGED goVars

-----------------------------------------------------------------------------
(***************************************************************************)
(* What start-up makes of the environment.                                 *)
(***************************************************************************)

\* getEnv
GetEnv(v, fallback) == IF v \in {"unset", "empty"} THEN fallback ELSE v

\* strings.TrimSpace
TrimSpace(v) == IF v = "blank" THEN "" ELSE v

\* loadAuthConfig: the JWKS URL, "" for an error.
LoadAuthConfig ==
    LET base == TrimSpace(GetEnv(env.urlAuthn, "default"))
    IN  IF TrimSpace(GetEnv(env.jwksURL, "")) # "" THEN "url"
        ELSE IF base = "url" THEN "derived" ELSE base

\* newInClusterKubeClient and the parsing of RBAC_SCOPING_CACHE_TTL.
ScoperFails == env.kube \in {"noHost", "noCA", "badCA"} \/ env.ttl = "bad"

\* Mutant: no scoper if it cannot be built.
LoadRBACScoper_FailOpen ==
    IF ~env.scoping \/ ScoperFails THEN {NilScoper} ELSE {EventsScoper}

\* loadRBACScoper: the scoper, or none for an error.
LoadRBACScoper ==
    IF ~env.scoping THEN {NilScoper}
    ELSE IF ScoperFails THEN {} ELSE {EventsScoper}

\* Mutant: the scopers share a cache.
LoadAuditScoper_OneCache ==
    IF events = NilScoper \/ env.auditVars = {}
      THEN events
      ELSE [rule  |-> [a \in Attributes |-> IF a \in env.auditVars THEN "AUDIT_SCOPING"
                                                                   ELSE events.rule[a]],
            cache |-> events.cache]

\* loadAuditScoper
LoadAuditScoper ==
    IF events = NilScoper \/ env.auditVars = {}
      THEN events
      ELSE [rule  |-> [a \in Attributes |-> IF a \in env.auditVars THEN "AUDIT_SCOPING"
                                                                   ELSE events.rule[a]],
            cache |-> "second"]

\* envEnabled of the master gate, envEnabledOr of the two signals.
EnvEnabledOr(v, fallback) == IF v = "" THEN fallback ELSE v = "true"

TracingEnabled == EnvEnabledOr(env.otelTracing, env.otelEnabled = "true")
MetricsEnabled == EnvEnabledOr(env.otelMetrics, env.otelEnabled = "true")

-----------------------------------------------------------------------------
(***************************************************************************)
(* main.                                                                   *)
(***************************************************************************)

\* os.Exit(1) without a JWKS source.
LoadAuth ==
    /\ main = "auth"
    /\ jwks' = LoadAuthConfig
    /\ IF jwks' # "" THEN Proceed("scoper") ELSE Exit("fatal")
    /\ UNCHANGED <<env, events, audit, providers, flushed, stopVars>>

\* os.Exit(1) if scoping is asked for and misconfigured.
LoadScoper ==
    /\ main = "scoper"
    /\ \/ LoadRBACScoper = {} /\ Exit("fatal") /\ UNCHANGED events
       \/ events' \in LoadRBACScoper /\ Proceed("audit")
    /\ UNCHANGED <<env, jwks, audit, providers, flushed, stopVars>>

SetAuditScoper ==
    /\ main = "audit"
    /\ audit' = LoadAuditScoper
    /\ Proceed("telemetry")
    /\ UNCHANGED <<env, jwks, events, providers, flushed, stopVars>>

\* Mutant: an exporter that cannot be made is fatal.
ExporterFails_Fatal(next) == Exit("fatal")

\* An exporter that cannot be made turns its signal off.
ExporterFails(next) == Proceed(next)

\* setupTelemetry, one signal: not enabled, installed, or not to be had.
Install(p, enabled, next) ==
    /\ \/ ~enabled /\ Proceed(next) /\ UNCHANGED providers
       \/ enabled /\ Proceed(next) /\ providers' = Append(providers, p)
       \/ enabled /\ ExporterFails(next) /\ UNCHANGED providers
    /\ UNCHANGED <<env, jwks, events, audit, flushed, stopVars>>

SetupTracing == main = "telemetry" /\ Install("tracer", TracingEnabled, "meter")
SetupMetrics == main = "meter" /\ Install("meter", MetricsEnabled, "wire")

\* initMetrics (an error leaves metrics nil), newPoller, go p.run(ctx),
\* newRouter.
Wire ==
    /\ main = "wire"
    /\ main' = "notify"
    /\ poller' = "idle"
    /\ UNCHANGED <<loadVars, flushed, stopVars, sig, req>>

\* signal.Notify and the goroutine that waits on sigCh.
Notify ==
    /\ main = "notify"
    /\ main' = "listen"
    /\ sig' = "wait"
    /\ UNCHANGED <<loadVars, flushed, stopVars, poller, req>>

\* srv.ListenAndServe: it returns at once if Shutdown has been called, fails
\* if the address cannot be bound (os.Exit(1)), and serves otherwise.
Listen ==
    /\ main = "listen"
    /\ \/ closing /\ Proceed("defers")
       \/ ~closing /\ Proceed("serve")
       \/ ~closing /\ Exit("fatal")
    /\ UNCHANGED <<loadVars, flushed, stopVars>>

\* Shutdown closes the listener, so ListenAndServe returns ErrServerClosed.
\* It does so when Shutdown starts, not when it is done.
ServeReturns ==
    /\ main = "serve"
    /\ closing
    /\ Proceed("defers")
    /\ UNCHANGED <<loadVars, flushed, stopVars>>

\* Accept fails while the server is up: os.Exit(1), without the deferred calls.
ServeFails ==
    /\ main = "serve"
    /\ ~closing
    /\ Exit("fatal")
    /\ UNCHANGED <<loadVars, flushed, stopVars>>

\* The deferred shutdownTel: the next provider's Shutdown returns, at the
\* latest when the 5 seconds that they share are over.  Its error is joined
\* to the others' and only logged.
Flush ==
    /\ main = "defers"
    /\ flushed < Len(providers)
    /\ flushed' = flushed + 1
    /\ UNCHANGED <<loadVars, main, stopVars, goVars>>

\* The loop of shutdownTel is over.
FlushDone == flushed = Len(providers)

\* Mutant: cancel() is left out.
Cancel_Not == UNCHANGED ctxDone

Cancel == ctxDone' = TRUE

\* The deferred cancel(), and main returns.
MainReturns ==
    /\ main = "defers"
    /\ FlushDone
    /\ Exit("exited")
    /\ Cancel
    /\ UNCHANGED <<loadVars, flushed, signalled, closing, timedOut>>

-----------------------------------------------------------------------------
(***************************************************************************)
(* Signals.                                                                *)
(***************************************************************************)

\* Before Notify a signal kills the process; after it, sigCh gets it.  One
\* more after that is ignored.
Signal ==
    /\ Running
    /\ ~signalled
    /\ signalled' = TRUE
    /\ IF main \in {"listen", "serve", "defers"} THEN Proceed(main) ELSE Exit("killed")
    /\ UNCHANGED <<loadVars, flushed, ctxDone, closing, timedOut>>

\* sig := <-sigCh; cancel()
SigCancel ==
    /\ sig = "wait"
    /\ signalled
    /\ Cancel
    /\ sig' = "cancel"
    /\ UNCHANGED <<loadVars, main, flushed, signalled, closing, timedOut,
                   poller, req>>

\* Mutant: the server is left as it is.
CloseListener_Not == UNCHANGED closing

CloseListener == closing' = TRUE

\* srv.Shutdown(shutdownCtx): the listener is closed, then it waits.
SigShutdown ==
    /\ sig = "cancel"
    /\ CloseListener
    /\ sig' = "draining"
    /\ UNCHANGED <<loadVars, main, flushed, signalled, ctxDone, timedOut,
                   poller, req>>

\* The 10 seconds of shutdownCtx are over.
Deadline ==
    /\ sig = "draining"
    /\ ~timedOut
    /\ timedOut' = TRUE
    /\ UNCHANGED <<loadVars, main, flushed, signalled, ctxDone, closing, goVars>>

\* Shutdown returns: nothing is active any more, or the deadline has passed.
ShutdownReturns ==
    /\ sig = "draining"
    /\ timedOut \/ \A q \in Requests : req[q] # "active"
    /\ sig' = "returned"
    /\ UNCHANGED <<loadVars, main, flushed, stopVars, poller, req>>

-----------------------------------------------------------------------------
(***************************************************************************)
(* Requests and the poller's loop.                                         *)
(***************************************************************************)
Accept(q) ==
    /\ main = "serve"
    /\ ~closing
    /\ req[q] = "none"
    /\ req' = [req EXCEPT ![q] = "active"]
    /\ UNCHANGED <<loadVars, main, flushed, stopVars, sig, poller>>

Finish(q) ==
    /\ req[q] = "active"
    /\ req' = [req EXCEPT ![q] = "done"]
    /\ UNCHANGED <<loadVars, main, flushed, stopVars, sig, poller>>

\* run: a tick or ctx.Done(), whichever select takes; a query under a
\* cancelled context fails and brings the poller back to the select.
PollerRun ==
    /\ Running
    /\ \/ poller = "idle" /\ poller' = "polling"
       \/ poller = "polling" /\ poller' = "idle"
       \/ poller = "idle" /\ ctxDone /\ poller' = "stopped"
    /\ UNCHANGED <<loadVars, main, flushed, stopVars, sig, req>>

\* The process is gone.
Ended ==
    /\ ~Running
    /\ UNCHANGED vars

-----------------------------------------------------------------------------
StartStep == LoadAuth \/ LoadScoper \/ SetAuditScoper \/ SetupTracing \/ SetupMetrics

MainStep ==
    \/ StartStep \/ Wire \/ Notify \/ Listen
    \/ ServeReturns \/ Flush \/ MainReturns

SigStep == SigCancel \/ SigShutdown \/ Deadline \/ ShutdownReturns

Next ==
    \/ MainStep
    \/ ServeFails
    \/ Signal
    \/ SigStep
    \/ \E q \in Requests : Accept(q) \/ Finish(q)
    \/ PollerRun
    \/ Ended

\* The goroutines are scheduled and the shutdown timer runs.  Requests need
\* not end: an SSE stream lasts until its client leaves.  Nor need the
\* poller's query, and the listener need not fail.
Fairness == WF_vars(MainStep) /\ WF_vars(SigStep)

Spec == Init /\ [][Next]_vars /\ Fairness

-----------------------------------------------------------------------------
Served == \E q \in Requests : req[q] # "none"

\* "The proxy must never start half-scoped": a request is accepted only by a
\* process that has a JWKS source, that has a scoper for each endpoint if and
\* only if it was asked to scope, and whose two scopers, if they ask the
\* cluster different questions, do not keep the answers in one cache.
NeverHalfScoped ==
    Served =>
        /\ jwks # ""
        /\ events.cache = "nil" <=> ~env.scoping
        /\ audit.cache = "nil" <=> ~env.scoping
        /\ audit.rule # events.rule => audit.cache # events.cache

\* With a JWKS source and sound scoping variables the process gets as far as
\* listening, unless it is told to stop: telemetry that cannot be set up is
\* no reason not to serve.
StartsIfConfigured ==
    main = "auth" /\ LoadAuthConfig # "" /\ ~(env.scoping /\ ScoperFails)
        ~> main = "listen" \/ signalled

\* A signal ends the process, also while clients keep their streams open, a
\* query hangs, or the telemetry endpoint is gone, and also if it arrives
\* before the server listens.
SignalEndsProcess == signalled ~> ~Running

-----------------------------------------------------------------------------
(***************************************************************************)
(* What the repository says and the code does not do.                      *)
(***************************************************************************)

\* "Graceful shutdown on SIGTERM/SIGINT": a request that is being served is
\* cut off only if it has not ended within the 10 seconds.  It does not hold:
\* main returns as soon as ListenAndServe does, and nothing waits for
\* Shutdown to return.
GracefulShutdown ==
    main = "exited" /\ (\E q \in Requests : req[q] = "cut") => timedOut

\* "If URL_AUTHN and JWT_JWKS_URL are both empty the proxy refuses to start":
\* getEnv takes an empty variable for an unset one, and URL_AUTHN then has a
\* default.
RefusesWithoutSource ==
    env.urlAuthn = "empty" /\ env.jwksURL = "empty" => main # "serve"

=============================================================================
