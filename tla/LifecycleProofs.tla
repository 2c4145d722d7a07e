-------------------------- MODULE LifecycleProofs --------------------------
(***************************************************************************)
(* The safety of start-up and shutdown, for every environment the process  *)
(* can be started in and any number of requests, and wherever in main a    *)
(* signal arrives.                                                         *)
(***************************************************************************)
EXTENDS Lifecycle, SequenceTheorems, TLAPS

\* What loadRBACScoper has made of the environment when it has not failed.
EventsConfigured == events = IF env.scoping THEN EventsScoper ELSE NilScoper

Configured ==
    /\ jwks # ""
    /\ EventsConfigured
    /\ audit = LoadAuditScoper

\* Where main is when start-up is over.
StartedPCs == {"telemetry", "meter", "wire", "notify", "listen", "serve", "defers", "exited"}

\* What has been configured by the time main is where it is.  A process that
\* has accepted a request was configured and ends by returning from main or
\* by a failing listener, if at all.
StartInv ==
    /\ main \in {"scoper", "audit"} => jwks # ""
    /\ main = "audit" => EventsConfigured
    /\ main \in StartedPCs => Configured
    /\ Served => Configured
    /\ Served => main \in {"serve", "defers", "exited", "fatal"}
    /\ main \in {"auth", "scoper", "audit", "telemetry"} => providers = <<>>
    /\ main = "meter" => providers \in {<<>>, <<"tracer">>}

\* The signal goroutine closes the server after it has cancelled the context.
StopInv == sig \in {"cancel", "draining", "returned"} => ctxDone

LifecycleInv == LifecycleTypeOK /\ StartInv /\ StopInv

-----------------------------------------------------------------------------
\* The two scopers that loadRBACScoper may return.
LEMMA ScopersTyped ==
    /\ EventsScoper \in Scoper
    /\ NilScoper \in Scoper
    /\ EventsScoper.cache = "first"
    /\ NilScoper.cache = "nil"
    /\ NilScoper.rule = EventsScoper.rule
  <1>1. EventsScoper \in Scoper
    BY DEF EventsScoper, Scoper
  <1>2. NilScoper = [rule |-> EventsScoper.rule, cache |-> "nil"]
    BY DEF NilScoper, EventsScoper
  <1> QED
    BY <1>1, <1>2 DEF EventsScoper, Scoper

\* loadAuditScoper returns a scoper.
LEMMA AuditTyped ==
    ASSUME events \in Scoper
    PROVE  LoadAuditScoper \in Scoper
  BY DEF LoadAuditScoper, Scoper

\* Nothing is configured, served or installed when main starts.
LEMMA LifecycleInvInit == Init => LifecycleInv
  <1> SUFFICES ASSUME Init PROVE LifecycleInv
    OBVIOUS
  <1>1. LifecycleTypeOK
    <2>1. env \in Environment /\ {events, audit} \subseteq Scoper
      BY ScopersTyped, LifecycleAssumption DEF Init
    <2>2. flushed \in 0 .. Len(providers)
      <3>1. flushed = 0 /\ Len(providers) = 0
        BY DEF Init
      <3> QED
        BY <3>1
    <2>3. {signalled, ctxDone, closing, timedOut} \subseteq BOOLEAN
      BY DEF Init
    <2> QED
      BY <2>1, <2>2, <2>3 DEF Init, LifecycleTypeOK, MainPCs
  <1>2. ~Served
    BY DEF Init, Served
  <1> QED
    BY <1>1, <1>2 DEF Init, LifecycleInv, StartInv, StopInv, StartedPCs

\* The process ends, wherever it is: the types and what is known of the
\* signal goroutine stay.
LEMMA ExitKeeps ==
    ASSUME LifecycleTypeOK, NEW how \in {"exited", "fatal", "killed"}, Exit(how)
    PROVE  /\ main' = how /\ main' \in MainPCs
           /\ req' \in [Requests -> {"none", "active", "done", "cut"}]
           /\ poller' \in {"off", "idle", "polling", "stopped"}
           /\ sig' = "off"
           /\ Served' => Served
  BY DEF LifecycleTypeOK, Exit, Served, MainPCs

\* The types of the start-up's variables.
LoadTypeOK ==
    /\ env \in Environment
    /\ jwks \in {"", "url", "derived", "default"}
    /\ {events, audit} \subseteq Scoper

\* Start-up, up to the telemetry: each step leaves what it has configured, or
\* ends the process before anything is served.
LEMMA LoadingKeepsInv ==
    ASSUME LifecycleInv, LoadAuth \/ LoadScoper \/ SetAuditScoper
    PROVE  LifecycleInv'
  <1>1. LifecycleTypeOK /\ StartInv /\ StopInv
    BY DEF LifecycleInv
  <1>2. /\ UNCHANGED <<env, providers, flushed, stopVars>>
        /\ main \in {"auth", "scoper", "audit"} /\ providers = <<>>
    BY <1>1 DEF LoadAuth, LoadScoper, SetAuditScoper, StartInv
  <1>3. LoadTypeOK'
    <2>1. {events, audit}' \subseteq Scoper
      <3>1. CASE LoadAuth
        BY <1>1, <3>1 DEF LoadAuth, LifecycleTypeOK
      <3>2. CASE LoadScoper
        BY <1>1, <3>2, ScopersTyped DEF LoadScoper, LoadRBACScoper, LifecycleTypeOK
      <3>3. CASE SetAuditScoper
        BY <1>1, <3>3, AuditTyped DEF SetAuditScoper, LifecycleTypeOK
      <3> QED
        BY <3>1, <3>2, <3>3
    <2>2. jwks' \in {"", "url", "derived", "default"}
      <3>1. CASE LoadAuth
        BY <1>1, <3>1 DEF LoadAuth, LoadAuthConfig, TrimSpace, GetEnv, LifecycleTypeOK,
           Environment
      <3>2. CASE LoadScoper \/ SetAuditScoper
        BY <1>1, <3>2 DEF LoadScoper, SetAuditScoper, LifecycleTypeOK
      <3> QED
        BY <3>1, <3>2
    <2> QED
      BY <1>1, <1>2, <2>1, <2>2 DEF LoadTypeOK, LifecycleTypeOK
  <1>4. \/ Exit("fatal")
        \/ Proceed("scoper") /\ LoadAuth
        \/ Proceed("audit") /\ LoadScoper
        \/ Proceed("telemetry") /\ SetAuditScoper
    BY DEF LoadAuth, LoadScoper, SetAuditScoper
  <1>5. /\ main' \in MainPCs
        /\ req' \in [Requests -> {"none", "active", "done", "cut"}]
        /\ poller' \in {"off", "idle", "polling", "stopped"}
        /\ sig' \in {"off", sig}
        /\ Served' => Served
    <2>1. CASE Exit("fatal")
      BY <1>1, <2>1, ExitKeeps
    <2>2. CASE UNCHANGED goVars /\ main' \in {"scoper", "audit", "telemetry"}
      BY <1>1, <2>2 DEF goVars, LifecycleTypeOK, MainPCs, Served
    <2> QED
      BY <1>4, <2>1, <2>2 DEF Proceed
  <1>6. LifecycleTypeOK'
    BY <1>1, <1>2, <1>3, <1>5 DEF LifecycleTypeOK, LoadTypeOK, stopVars
  <1>7. StopInv'
    BY <1>1, <1>2, <1>5 DEF StopInv, stopVars
  <1>8. StartInv'
    <2>1. ~Served'
      BY <1>1, <1>2, <1>5 DEF StartInv
    <2>2. CASE Exit("fatal")
      BY <2>1, <2>2 DEF Exit, StartInv, StartedPCs
    <2>3. CASE Proceed("scoper") /\ LoadAuth
      BY <1>2, <2>1, <2>3 DEF LoadAuth, Proceed, Exit, StartInv, StartedPCs
    <2>4. CASE Proceed("audit") /\ LoadScoper
      <3>1. events' \in LoadRBACScoper /\ UNCHANGED <<env, jwks>> /\ main' = "audit"
        BY <2>4 DEF LoadScoper, Proceed, Exit
      <3>2. EventsConfigured'
        BY <3>1 DEF LoadRBACScoper, EventsConfigured
      <3>3. jwks' # ""
        BY <1>1, <2>4, <3>1 DEF LoadScoper, StartInv
      <3> QED
        BY <1>2, <2>1, <3>1, <3>2, <3>3 DEF StartInv, StartedPCs
    <2>5. CASE Proceed("telemetry") /\ SetAuditScoper
      <3>1. /\ audit' = LoadAuditScoper /\ UNCHANGED <<env, jwks, events>>
            /\ main = "audit" /\ main' = "telemetry"
        BY <2>5 DEF SetAuditScoper, Proceed
      <3>2. jwks # "" /\ EventsConfigured
        BY <1>1, <3>1 DEF StartInv
      <3>3. Configured'
        BY <3>1, <3>2 DEF Configured, EventsConfigured, LoadAuditScoper
      <3> QED
        BY <1>2, <2>1, <3>1, <3>3 DEF StartInv, StartedPCs
    <2> QED
      BY <1>4, <2>2, <2>3, <2>4, <2>5
  <1> QED
    BY <1>6, <1>7, <1>8 DEF LifecycleInv

\* After start-up nothing changes what was loaded: a step that leaves the
\* loaded variables alone keeps StartInv if main goes on from where it was or
\* ends, and nothing is served before main serves.
LEMMA LoadedKept ==
    ASSUME StartInv, UNCHANGED <<env, jwks, events, audit>>,
           \/ main' = main /\ UNCHANGED providers
           \/ main' \in {"fatal", "killed"}
           \/ main \in StartedPCs /\ main' \in StartedPCs \ {"telemetry", "meter"},
           Served' => main' \in {"serve", "defers", "exited", "fatal"},
           Served' => Served \/ main \in StartedPCs
    PROVE  StartInv'
  <1>1. Configured => Configured'
    BY DEF Configured, EventsConfigured, LoadAuditScoper
  <1>2. EventsConfigured => EventsConfigured'
    BY DEF EventsConfigured
  <1> QED
    BY <1>1, <1>2 DEF StartInv, StartedPCs

\* What the library's Append makes of a sequence of one element.
LEMMA AppendToOne ==
    ASSUME NEW S, NEW a \in S, NEW b \in S
    PROVE  Append(<<a>>, b) = <<a, b>>
  <1>1. ASSUME NEW s \in Seq(S), s = <<a>>
        PROVE  /\ Append(s, b) \in Seq(S) /\ Len(Append(s, b)) = 2
               /\ Append(s, b)[1] = a /\ Append(s, b)[2] = b
    BY <1>1, AppendProperties
  <1>2. ASSUME NEW t \in Seq(S), Len(t) = 2, t[1] = a, t[2] = b
        PROVE  t = <<a, b>>
    BY <1>2
  <1>3. <<a>> \in Seq(S)
    OBVIOUS
  <1> QED
    BY <1>1, <1>2, <1>3, Zenon

\* The providers there may be.
LEMMA ProviderSeqs ==
    /\ Len(<<>>) = 0
    /\ Len(<<"tracer">>) = 1
    /\ Len(<<"meter">>) = 1
    /\ Len(<<"tracer", "meter">>) = 2
    /\ Append(<<>>, "tracer") = <<"tracer">>
    /\ Append(<<>>, "meter") = <<"meter">>
    /\ Append(<<"tracer">>, "meter") = <<"tracer", "meter">>
  <1>1. Len(<<>>) = 0
    OBVIOUS
  <1>2. Len(<<"tracer">>) = 1
    OBVIOUS
  <1>3. Len(<<"meter">>) = 1
    OBVIOUS
  <1>4. Len(<<"tracer", "meter">>) = 2
    OBVIOUS
  <1>5. Append(<<>>, "tracer") = <<"tracer">>
    OBVIOUS
  <1>6. Append(<<>>, "meter") = <<"meter">>
    OBVIOUS
  <1>7. Append(<<"tracer">>, "meter") = <<"tracer", "meter">>
    <2>1. "tracer" \in {"tracer", "meter"} /\ "meter" \in {"tracer", "meter"}
      OBVIOUS
    <2> QED
      BY <2>1, AppendToOne, Zenon
  <1> QED
    BY <1>1, <1>2, <1>3, <1>4, <1>5, <1>6, <1>7

\* The number of providers.
LEMMA ProviderLen ==
    ASSUME NEW p \in {<<>>, <<"tracer">>, <<"meter">>, <<"tracer", "meter">>}
    PROVE  Len(p) \in Nat
  <1>1. 0 \in Nat /\ 1 \in Nat /\ 2 \in Nat
    OBVIOUS
  <1> QED
    BY <1>1, ProviderSeqs, Zenon

\* Telemetry: whatever becomes of the exporters, the providers are those of
\* the signals that are enabled, and main goes on.
LEMMA TelemetryKeepsInv ==
    ASSUME LifecycleInv, SetupTracing \/ SetupMetrics
    PROVE  LifecycleInv'
  <1>1. LifecycleTypeOK /\ StartInv /\ StopInv
    BY DEF LifecycleInv
  <1>2. /\ UNCHANGED <<env, jwks, events, audit, flushed, stopVars, goVars>>
        /\ \/ main = "telemetry" /\ main' = "meter"
           \/ main = "meter" /\ main' = "wire"
    BY DEF SetupTracing, SetupMetrics, Install, ExporterFails, Proceed
  <1>3. /\ providers' \in {<<>>, <<"tracer">>, <<"meter">>, <<"tracer", "meter">>}
        /\ main' = "meter" => providers' \in {<<>>, <<"tracer">>}
        /\ Len(providers) <= Len(providers')
    <2>1. CASE UNCHANGED providers
      <3>1. main' = "meter" => providers = <<>>
        BY <1>1, <1>2 DEF StartInv
      <3>2. Len(providers) \in Nat /\ Len(providers') = Len(providers)
        BY <1>1, <2>1, ProviderLen DEF LifecycleTypeOK
      <3>3. Len(providers) <= Len(providers')
        BY <3>2
      <3>4. providers \in {<<>>, <<"tracer">>, <<"meter">>, <<"tracer", "meter">>}
        BY <1>1 DEF LifecycleTypeOK
      <3> QED
        BY <2>1, <3>1, <3>3, <3>4, Zenon
    <2>2. CASE main = "telemetry" /\ providers' = Append(providers, "tracer")
      <3>1. providers = <<>>
        BY <1>1, <2>2 DEF StartInv
      <3>2. providers' = <<"tracer">>
        BY <2>2, <3>1
      <3> QED
        BY <1>2, <2>2, <3>1, <3>2
    <2>3. CASE main = "meter" /\ providers' = Append(providers, "meter")
      <3>1. providers = <<>> \/ providers = <<"tracer">>
        BY <1>1, <2>3 DEF StartInv
      <3>2. CASE providers = <<>>
        <4>1. providers' = <<"meter">>
          BY <2>3, <3>2
        <4> QED
          BY <1>2, <2>3, <3>2, <4>1
      <3>3. CASE providers = <<"tracer">>
        <4>1. providers' = <<"tracer", "meter">>
          BY <2>3, <3>3, ProviderSeqs
        <4>2. Len(providers) = 1 /\ Len(providers') = 2
          BY <3>3, <4>1, ProviderSeqs
        <4>3. main' # "meter" /\ Len(providers) <= Len(providers')
          BY <1>2, <2>3, <4>2
        <4> QED
          BY <4>1, <4>3, Zenon
      <3> QED
        BY <3>1, <3>2, <3>3
    <2> QED
      BY <1>2, <2>1, <2>2, <2>3 DEF SetupTracing, SetupMetrics, Install
  <1>4. flushed' \in 0 .. Len(providers')
    <2>1. Len(providers) \in Nat /\ Len(providers') \in Nat /\ flushed \in 0 .. Len(providers)
      <3>1. \A p \in {<<>>, <<"tracer">>, <<"meter">>, <<"tracer", "meter">>} : Len(p) \in Nat
        OBVIOUS
      <3> QED
        BY <1>1, <1>3, <3>1 DEF LifecycleTypeOK
    <2> QED
      BY <1>2, <1>3, <2>1
  <1>5. main' \in MainPCs
    BY <1>2 DEF MainPCs
  <1>6. LifecycleTypeOK'
    BY <1>1, <1>2, <1>3, <1>4, <1>5 DEF LifecycleTypeOK, stopVars, goVars
  <1>7. StopInv'
    BY <1>1, <1>2 DEF StopInv, stopVars, goVars
  <1>8. StartInv'
    <2>1. ~Served'
      BY <1>1, <1>2 DEF StartInv, Served, goVars
    <2>2. Configured'
      <3>1. Configured
        BY <1>1, <1>2 DEF StartInv, StartedPCs
      <3> QED
        BY <1>2, <3>1 DEF Configured, EventsConfigured, LoadAuditScoper
    <2> QED
      BY <1>2, <1>3, <2>1, <2>2 DEF StartInv, StartedPCs
  <1> QED
    BY <1>6, <1>7, <1>8 DEF LifecycleInv

\* The goroutines of the running process: nothing that was loaded changes.
LEMMA RunningKeepsInv ==
    ASSUME LifecycleInv,
           \/ Wire \/ Notify \/ SigStep \/ PollerRun
           \/ \E q \in Requests : Accept(q) \/ Finish(q)
    PROVE  LifecycleInv'
  <1>1. LifecycleTypeOK /\ StartInv /\ StopInv
    BY DEF LifecycleInv
  <1>2. /\ UNCHANGED <<loadVars, flushed>>
        /\ \/ main' = main
           \/ main = "wire" /\ main' = "notify"
           \/ main = "notify" /\ main' = "listen"
    BY DEF Wire, Notify, SigStep, SigCancel, SigShutdown, Deadline, ShutdownReturns,
       PollerRun, Accept, Finish, stopVars
  <1>3. main' \in MainPCs
    BY <1>1, <1>2 DEF LifecycleTypeOK, MainPCs
  <1>4. /\ sig' \in {"off", "wait", "cancel", "draining", "returned"}
        /\ poller' \in {"off", "idle", "polling", "stopped"}
    BY <1>1 DEF Wire, Notify, SigStep, SigCancel, SigShutdown, Deadline, ShutdownReturns,
       PollerRun, Accept, Finish, LifecycleTypeOK, goVars
  <1>5. req' \in [Requests -> {"none", "active", "done", "cut"}]
    <2>1. CASE UNCHANGED req
      BY <1>1, <2>1 DEF LifecycleTypeOK
    <2>2. ASSUME NEW q \in Requests, Accept(q) \/ Finish(q)
          PROVE  req' \in [Requests -> {"none", "active", "done", "cut"}]
      BY <1>1, <2>2 DEF Accept, Finish, LifecycleTypeOK
    <2> QED
      BY <2>1, <2>2 DEF Wire, Notify, SigStep, SigCancel, SigShutdown, Deadline,
         ShutdownReturns, PollerRun, goVars
  <1>6. /\ UNCHANGED signalled
        /\ UNCHANGED ctxDone \/ ctxDone' = TRUE
        /\ UNCHANGED timedOut \/ timedOut' = TRUE
        /\ UNCHANGED closing \/ (closing' = TRUE /\ sig = "cancel" /\ UNCHANGED ctxDone)
        /\ \/ ctxDone' = TRUE
           \/ UNCHANGED ctxDone /\ sig \in {"cancel", "draining", "returned"}
           \/ UNCHANGED ctxDone /\ sig' \in {sig, "wait"}
    BY DEF Wire, Notify, SigStep, SigCancel, SigShutdown, Deadline, ShutdownReturns,
       PollerRun, Accept, Finish, stopVars, goVars, Cancel, CloseListener
  <1>7. closing' => ctxDone'
    <2>1. closing => ctxDone
      BY <1>1 DEF LifecycleTypeOK
    <2>2. sig = "cancel" => ctxDone
      BY <1>1 DEF StopInv
    <2>3. CASE ctxDone' = TRUE
      BY <2>3
    <2>4. CASE ctxDone' = ctxDone /\ closing' = closing
      BY <2>1, <2>4
    <2>5. CASE ctxDone' = ctxDone /\ sig = "cancel"
      BY <2>2, <2>5
    <2> QED
      BY <1>6, <2>3, <2>4, <2>5
  <1>8. {signalled, ctxDone, closing, timedOut}' \subseteq BOOLEAN
    BY <1>1, <1>2, <1>6 DEF LifecycleTypeOK
  <1>9. LifecycleTypeOK'
    BY <1>1, <1>2, <1>3, <1>4, <1>5, <1>7, <1>8 DEF LifecycleTypeOK, loadVars
  <1>10. StopInv'
    BY <1>1, <1>2, <1>6 DEF StopInv, loadVars
  <1>11. /\ Served' => main' \in {"serve", "defers", "exited", "fatal"}
         /\ Served' => Served \/ main \in StartedPCs
    <2>1. ASSUME NEW q \in Requests, Accept(q)
          PROVE  main = "serve" /\ main' = "serve"
      BY <2>1 DEF Accept
    <2>2. ASSUME NEW q \in Requests, Finish(q)
          PROVE  Served /\ UNCHANGED main
      BY <2>2 DEF Finish, Served
    <2>3. CASE UNCHANGED req
      BY <1>1, <1>2, <2>3 DEF Served, StartInv
    <2> QED
      BY <1>1, <2>1, <2>2, <2>3 DEF Wire, Notify, SigStep, SigCancel, SigShutdown, Deadline,
         ShutdownReturns, PollerRun, goVars, StartInv, StartedPCs
  <1>12. StartInv'
    BY <1>1, <1>2, <1>11, LoadedKept DEF loadVars, StartedPCs
  <1> QED
    BY <1>9, <1>10, <1>12 DEF LifecycleInv

\* The way out: ListenAndServe returns or fails, the deferred calls, a signal
\* before there is a handler for it.
LEMMA EndingKeepsInv ==
    ASSUME LifecycleInv, Listen \/ ServeReturns \/ ServeFails \/ Flush \/ MainReturns \/ Signal
    PROVE  LifecycleInv'
  <1>1. LifecycleTypeOK /\ StartInv /\ StopInv
    BY DEF LifecycleInv
  <1>2. /\ UNCHANGED loadVars
        /\ \/ Exit("fatal") /\ main \in {"listen", "serve"}
           \/ Exit("killed") /\ main \notin {"listen", "serve", "defers", "exited", "fatal"}
           \/ Exit("exited") /\ main = "defers"
           \/ /\ UNCHANGED goVars
              /\ \/ main' = main
                 \/ main \in {"listen", "serve"} /\ main' \in {"serve", "defers"}
    BY DEF Listen, ServeReturns, ServeFails, Flush, MainReturns, Signal, Running, Proceed
  <1>3. /\ main' \in MainPCs
        /\ req' \in [Requests -> {"none", "active", "done", "cut"}]
        /\ poller' \in {"off", "idle", "polling", "stopped"}
        /\ sig' \in {"off", sig}
        /\ Served' => Served
    <2>1. ASSUME NEW how \in {"exited", "fatal", "killed"}, Exit(how)
          PROVE  /\ main' \in MainPCs
                 /\ req' \in [Requests -> {"none", "active", "done", "cut"}]
                 /\ poller' \in {"off", "idle", "polling", "stopped"}
                 /\ sig' \in {"off", sig}
                 /\ Served' => Served
      BY <1>1, <2>1, ExitKeeps
    <2>2. CASE UNCHANGED goVars
      BY <1>1, <1>2, <2>2 DEF goVars, LifecycleTypeOK, MainPCs, Served, Exit
    <2> QED
      BY <1>2, <2>1, <2>2
  <1>4. flushed' \in 0 .. Len(providers)
    <2>1. flushed \in 0 .. Len(providers) /\ Len(providers) \in Nat
      BY <1>1, ProviderLen DEF LifecycleTypeOK
    <2>2. CASE Flush
      BY <2>1, <2>2 DEF Flush
    <2>3. CASE Listen \/ ServeReturns \/ ServeFails \/ MainReturns \/ Signal
      BY <2>1, <2>3 DEF Listen, ServeReturns, ServeFails, MainReturns, Signal
    <2> QED
      BY <2>2, <2>3
  <1>5. /\ UNCHANGED signalled \/ signalled' = TRUE
        /\ UNCHANGED ctxDone \/ ctxDone' = TRUE
        /\ UNCHANGED <<closing, timedOut>>
    BY DEF Listen, ServeReturns, ServeFails, Flush, MainReturns, Signal, stopVars, Cancel
  <1>6. {signalled, ctxDone, closing, timedOut}' \subseteq BOOLEAN
    BY <1>1, <1>5 DEF LifecycleTypeOK
  <1>7. closing' => ctxDone'
    <2>1. closing => ctxDone
      BY <1>1 DEF LifecycleTypeOK
    <2>2. CASE ctxDone' = TRUE
      BY <2>2
    <2>3. CASE ctxDone' = ctxDone /\ closing' = closing
      BY <2>1, <2>3
    <2> QED
      BY <1>5, <2>2, <2>3
  <1>8. LifecycleTypeOK'
    BY <1>1, <1>2, <1>3, <1>4, <1>6, <1>7 DEF LifecycleTypeOK, loadVars
  <1>9. StopInv'
    BY <1>1, <1>2, <1>3, <1>4, <1>5 DEF StopInv, loadVars
  <1>10. StartInv'
    <2>1. Served' => main' \in {"serve", "defers", "exited", "fatal"}
      BY <1>1, <1>2, <1>3 DEF StartInv, Exit
    <2>2. \/ main' = main /\ UNCHANGED providers
          \/ main' \in {"fatal", "killed"}
          \/ main \in StartedPCs /\ main' \in StartedPCs \ {"telemetry", "meter"}
      BY <1>2 DEF Exit, StartedPCs, loadVars
    <2> QED
      BY <1>1, <1>2, <1>3, <2>1, <2>2, LoadedKept DEF loadVars
  <1> QED
    BY <1>8, <1>9, <1>10 DEF LifecycleInv

\* Every step of main, of the goroutines and of the signals keeps the invariant.
LEMMA LifecycleInvNext == LifecycleInv /\ [Next]_vars => LifecycleInv'
  <1> SUFFICES ASSUME LifecycleInv, [Next]_vars PROVE LifecycleInv'
    OBVIOUS
  <1>1. CASE LoadAuth \/ LoadScoper \/ SetAuditScoper
    BY <1>1, LoadingKeepsInv
  <1>2. CASE SetupTracing \/ SetupMetrics
    BY <1>2, TelemetryKeepsInv
  <1>3. CASE \/ Wire \/ Notify \/ SigStep \/ PollerRun
             \/ \E q \in Requests : Accept(q) \/ Finish(q)
    BY <1>3, RunningKeepsInv
  <1>4. CASE Listen \/ ServeReturns \/ ServeFails \/ Flush \/ MainReturns \/ Signal
    BY <1>4, EndingKeepsInv
  <1>5. CASE UNCHANGED vars \/ Ended
    <2>1. UNCHANGED vars
      BY <1>5 DEF Ended
    <2>2. LifecycleTypeOK'
      BY <2>1 DEF vars, loadVars, stopVars, goVars, LifecycleInv, LifecycleTypeOK
    <2>3. StartInv'
      BY <2>1 DEF vars, loadVars, goVars, LifecycleInv, StartInv, Served, Configured,
         EventsConfigured, LoadAuditScoper
    <2>4. StopInv'
      BY <2>1 DEF vars, loadVars, stopVars, goVars, LifecycleInv, StopInv
    <2> QED
      BY <2>2, <2>3, <2>4 DEF LifecycleInv
  <1> QED
    BY <1>1, <1>2, <1>3, <1>4, <1>5 DEF Next, MainStep, StartStep

-----------------------------------------------------------------------------
\* The types of main's state; the poller's context is cancelled before the
\* server is closed.
THEOREM LifecycleTypeCorrect == Spec => []LifecycleTypeOK
  <1>1. LifecycleInv => LifecycleTypeOK
    BY DEF LifecycleInv
  <1> QED
    BY <1>1, LifecycleInvInit, LifecycleInvNext, PTL DEF Spec

\* Whatever the environment says and whatever fails in start-up, a process
\* that accepts a request has a JWKS source, scopes both endpoints or neither
\* as it was asked to, and never mixes the answers of two rules in one cache.
THEOREM ProcessNeverHalfScoped == Spec => []NeverHalfScoped
  <1>1. LifecycleInv => NeverHalfScoped
    <2> SUFFICES ASSUME LifecycleInv, Served
                 PROVE  /\ jwks # ""
                        /\ events.cache = "nil" <=> ~env.scoping
                        /\ audit.cache = "nil" <=> ~env.scoping
                        /\ audit.rule # events.rule => audit.cache # events.cache
      BY DEF NeverHalfScoped
    <2>1. Configured
      BY DEF LifecycleInv, StartInv
    <2>2. env.scoping \in BOOLEAN
      BY DEF LifecycleInv, LifecycleTypeOK, Environment
    <2>3. events.cache = IF env.scoping THEN "first" ELSE "nil"
      BY <2>1, ScopersTyped DEF Configured, EventsConfigured
    <2>4. events = NilScoper <=> ~env.scoping
      BY <2>1, <2>2, ScopersTyped DEF Configured, EventsConfigured
    <2>5. CASE events = NilScoper \/ env.auditVars = {}
      <3>1. audit = events
        BY <2>1, <2>5 DEF Configured, LoadAuditScoper
      <3> QED
        BY <2>1, <2>2, <2>3, <3>1 DEF Configured
    <2>6. CASE ~(events = NilScoper \/ env.auditVars = {})
      <3>1. audit.cache = "second"
        BY <2>1, <2>6 DEF Configured, LoadAuditScoper
      <3> QED
        BY <2>1, <2>2, <2>3, <2>4, <2>6, <3>1 DEF Configured
    <2> QED
      BY <2>5, <2>6
  <1> QED
    BY <1>1, LifecycleInvInit, LifecycleInvNext, PTL DEF Spec

=============================================================================
