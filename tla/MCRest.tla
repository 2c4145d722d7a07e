------------------------------- MODULE MCRest -------------------------------
(***************************************************************************)
(* Small instances of Rest: two windows and the unbounded query over rows  *)
(* of each of them.                                                        *)
(***************************************************************************)
EXTENDS Rest

Row(i, t, n, x, k) == [id |-> i, ts |-> t, ns |-> n, comp |-> x, ok |-> k]

\* Windows of 1 and 3 seconds; the request comes in at 5 or 6.
MCWindows == <<1, 3, 0>>

MCRows == {Row(1, 1, "n1", "x1", TRUE),
           Row(2, 3, "n1", "",   TRUE),
           Row(3, 4, "n2", "x1", TRUE),
           Row(4, 5, "",   "",   TRUE),
           Row(5, 5, "n1", "x1", FALSE)}

MCAuditRows == {Row(6, 2, "n1", "", TRUE),
                Row(7, 3, "n2", "", TRUE),
                Row(8, 4, "",   "", TRUE)}

MCScopes == {AllScope, SetScope({}), SetScope({"n1"})}

\* A namespace may be called "none".
NoneScopes == {AllScope, SetScope({}), SetScope({"none"})}

\* A valid GET of a path.
Get(p, l, x) ==
    [path |-> p, preflight |-> FALSE, queryToken |-> FALSE, header |-> "valid",
     cookie |-> "none", limit |-> {l}, compositionId |-> x]

\* What a caller may ask for, with credentials that pass.
Questions ==
    {Get("/events", l, x) : l \in {1, 2, 9}, x \in {"", "x1"}}

\* Every way to present credentials, and every path.
AllRequests ==
    {q \in [path          : {"/events", "/audit", "/notifications", "/health", "/other"},
            preflight     : BOOLEAN,
            queryToken    : BOOLEAN,
            header        : Tokens \cup {"none", "malformed"},
            cookie        : Tokens \cup {"none"},
            limit         : {{}, {0}, {1}},
            compositionId : {"", "malformed", "x1"}] :
        /\ q.path # "/events" => q.compositionId = ""
        /\ q.preflight \/ q.path \in {"/health", "/other"} =>
               q.header = "none" /\ q.cookie \in {"none", "valid"}
        /\ \/ q.limit = {} /\ q.compositionId = ""
           \/ q.header = "valid" /\ ~q.queryToken /\ q.cookie = "none"}

OneStream == {Get("/notifications", 1, "")}

MCRequests == Questions \cup AllRequests

=============================================================================
