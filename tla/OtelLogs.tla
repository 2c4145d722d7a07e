------------------------------ MODULE OtelLogs ------------------------------
(***************************************************************************)
(* The k8s-events rows of the otel_logs table and what the queries of      *)
(* main.go make of them.  ClickHouse itself is outside the repository; it  *)
(* is modelled by what the SQL of the queries says.                        *)
(***************************************************************************)
EXTENDS Scope, Integers, FiniteSets

CONSTANT Compositions   \* the values of krateo.io/composition-id

\* composition_id of a row that belongs to no composition.
NoComposition == ""

ASSUME CompositionsAssumption == NoComposition \notin Compositions

\* chRow.  ts is TsUnix, "id" stands for the columns that only go into the
\* payload, and ok says whether queryClickHouse can decode the row's line.
ChRow == [id   : Nat,
          ts   : Nat,
          ns   : Namespaces \cup {NoNamespace},
          comp : Compositions \cup {NoComposition},
          ok   : BOOLEAN]

\* (row chRow) toSSEK8sEvent(): the columns that only go into the payload
\* are kept together in "object".
ToSSEK8sEvent(row) == [object        |-> row,
                       namespace     |-> row.ns,
                       compositionId |-> row.comp]

\* The subsets of S that LIMIT n may leave of it.
Pages(S, n) ==
    {P \in SUBSET S : Cardinality(P) = IF Cardinality(S) < n THEN Cardinality(S) ELSE n}

\* Mutants: ORDER BY Timestamp DESC; one row more than LIMIT.
OldestFirst_Desc(S, n) ==
    {P \in Pages(S, n) : \A p \in P, q \in S \ P : p.ts >= q.ts}

OldestFirst_OneMore(S, n) ==
    {P \in Pages(S, n + 1) : \A p \in P, q \in S \ P : p.ts <= q.ts}

\* What ORDER BY Timestamp ASC LIMIT n may return of a set of rows: within a
\* second the order is that of fractions of it, which the model leaves open.
OldestFirst(S, n) ==
    {P \in Pages(S, n) : \A p \in P, q \in S \ P : p.ts <= q.ts}

\* ORDER BY Timestamp DESC LIMIT n
NewestFirst(S, n) ==
    {P \in Pages(S, n) : \A p \in P, q \in S \ P : p.ts >= q.ts}

\* Mutant: a line that cannot be decoded voids the page.
Decoded_OrNothing(P) == IF \A r \in P : r.ok THEN P ELSE {}

\* The loop over the lines of the response: a line that cannot be decoded is
\* logged and skipped.
Decoded(P) == {r \in P : r.ok}

=============================================================================
