------------------------------- MODULE Scope -------------------------------
(***************************************************************************)
(* nsScope (rbac.go): the namespaces one caller may observe.  In the code  *)
(* it is a pointer to {allowAll, namespaces}; a nil pointer means that     *)
(* scoping is disabled.  Here it is a record with the flag "nil".          *)
(***************************************************************************)

CONSTANT Namespaces     \* the names a Kubernetes namespace can have

\* The namespace column of a cluster-scoped object is the empty string,
\* which is not the name of any namespace (RFC 1123 labels are not empty).
NoNamespace == ""

ASSUME NamespacesAssumption == NoNamespace \notin Namespaces

NilScope    == [nil |-> TRUE,  allowAll |-> FALSE, namespaces |-> {}]
AllScope    == [nil |-> FALSE, allowAll |-> TRUE,  namespaces |-> {}]
SetScope(S) == [nil |-> FALSE, allowAll |-> FALSE, namespaces |-> S]

Scopes == {NilScope, AllScope} \cup {SetScope(S) : S \in SUBSET Namespaces}

\* (s *nsScope) allows(ns)
Allows(s, ns) == s.nil \/ s.allowAll \/ ns \in s.namespaces

\* (s *nsScope) restricted()
Restricted(s) == ~s.nil /\ ~s.allowAll

\* Mutant: the empty list is joined like any other, to an empty value.
ScopeHeaderValue_Joined(s) ==
    IF s.nil THEN {} ELSE
    IF s.allowAll THEN {"*"} ELSE
    IF s.namespaces = {} THEN {""} ELSE s.namespaces

\* (s *nsScope) scopeHeaderValue(): the elements of the comma-separated value
\* (no namespace has a comma in its name), {} for no header.
ScopeHeaderValue(s) ==
    IF s.nil THEN {} ELSE
    IF s.allowAll THEN {"*"} ELSE
    IF s.namespaces = {} THEN {"none"} ELSE s.namespaces

=============================================================================
