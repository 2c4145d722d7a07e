---------------------------- MODULE MCLifecycle ----------------------------
(***************************************************************************)
(* Environments that vary one group of variables at a time.                *)
(***************************************************************************)
EXTENDS Lifecycle

Plain ==
    [jwksURL |-> "unset", urlAuthn |-> "unset", scoping |-> FALSE, kube |-> "inCluster",
     ttl |-> "unset", auditVars |-> {}, otelEnabled |-> "", otelTracing |-> "",
     otelMetrics |-> ""]

Sources == {"unset", "empty", "blank", "url"}

Auths ==
    {[Plain EXCEPT !.jwksURL = j, !.urlAuthn = a] : j \in Sources, a \in Sources}

Scopings ==
    {[Plain EXCEPT !.scoping = s, !.kube = k, !.ttl = t, !.auditVars = v] :
        s \in BOOLEAN, k \in {"override", "inCluster", "noHost", "noCA", "badCA"},
        t \in {"unset", "good", "bad"}, v \in {{}, {"resource"}, Attributes}}

Flags == {"", "true", "other"}

Telemetries ==
    {[Plain EXCEPT !.otelEnabled = e, !.otelTracing = t, !.otelMetrics = m] :
        e \in Flags, t \in Flags, m \in Flags}

MCEnvironments == Auths \cup Scopings \cup Telemetries
OnePlain       == {Plain}

=============================================================================
