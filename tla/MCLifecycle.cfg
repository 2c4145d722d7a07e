SPECIFICATION Spec
CONSTANTS
    Requests = {q1, q2}
    Environments <- MCEnvironments
    q1 = q1
    q2 = q2
INVARIANTS
    LifecycleTypeOK
    NeverHalfScoped
PROPERTIES
    StartsIfConfigured
    SignalEndsProcess
