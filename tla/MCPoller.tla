------------------------------ MODULE MCPoller ------------------------------
(***************************************************************************)
(* Small instances of Poller: rows that share a second, rows with and      *)
(* without a composition, a cluster-scoped row, a row of another tenant    *)
(* that cannot be decoded; callers with and without a topic and a scope.   *)
(***************************************************************************)
EXTENDS Poller, TLC

Row(i, t, n, x, k) == [id |-> i, ts |-> t, ns |-> n, comp |-> x, ok |-> k]

R1 == Row(1, 1, "n1", "",   TRUE)
R2 == Row(2, 1, "",   "x1", TRUE)
R3 == Row(3, 2, "n1", "x1", TRUE)
R4 == Row(4, 2, "n2", "",   FALSE)

WithBadLine == {R1, R2, R3, R4}
Decodable   == {R1, R2, R3}
OneSecond   == {R1, R2}

\* A single row, then rows of both seconds in one INSERT.
TwoBatches == {{R1}, {R2, R3}}

\* One INSERT for each second.
BySecond   == {{R1, R2}, {R3, R4}}

SingleRows == {{r} : r \in Rows}

MCPayloads == {ToSSEK8sEvent(r) : r \in Rows}

Everything   == [topic |-> NoTopic, scope |-> NilScope]
Composition1 == [topic |-> "x1",    scope |-> SetScope({"n1"})]

TwoTenants == {Everything, Composition1}
OneTenant  == {Everything}

ConnSymmetry == Permutations(Conns)

=============================================================================
