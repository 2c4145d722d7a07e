SPECIFICATION Spec
CONSTANTS
    Requests = {q1}
    Environments <- OnePlain
    q1 = q1
INVARIANTS
    GracefulShutdown
