SPECIFICATION Spec
CONSTANTS
    Requests = {q1}
    Environments <- Auths
    q1 = q1
INVARIANTS
    RefusesWithoutSource
