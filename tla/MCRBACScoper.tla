---------------------------- MODULE MCRBACScoper ----------------------------
(***************************************************************************)
(* Small instances of RBACScoper.  The two callers have one username and   *)
(* differ in their groups.                                                 *)
(***************************************************************************)
EXTENDS RBACScoper, TLC

Dev == [username |-> "ann", groups |-> <<"dev">>]
Ops == [username |-> "ann", groups |-> <<"dev", "ops">>]

OneCaller  == {Dev}
TwoCallers == {Dev, Ops}

\* At the start, n1 is open to nobody, to everybody, or to the events rule
\* of one caller only.
SomeAcls ==
    {[s \in Rules |-> [u \in Callers |-> IF <<s, u>> \in G THEN {"n1"} ELSE {}]] :
        G \in {{}, Rules \X Callers, {<<"events", Ops>>}}}

AllAcls  == [Rules -> [Callers -> SUBSET Targets]]

RequestSymmetry == Permutations(Requests)

=============================================================================
