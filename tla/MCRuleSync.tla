----------------------------- MODULE MCRuleSync -----------------------------
(* Small instances of RuleSync: what the routes may want, and what is read  *)
(* back of it.                                                              *)
EXTENDS RuleSync

CONSTANTS r1, r2, \* routes
          A1, A2, \* rules for r1, by way of two targets
          B1,     \* a rule for r2
          X1      \* contents nobody wants

\* Two routes, one of which may move from a target to another.
RoutesWant == (r1 :> {A1, A2}) @@ (r2 :> {B1})

OneRouteWants == r1 :> {A1, A2}

AsWritten == [tcr \in AnyTcr |-> tcr]

\* r1 asks for A1, which comes back as it was, or for A2, which does not: as it does
\* without --skip-hw, and with it.
SomeUnlike == [tcr \in AnyTcr |-> IF tcr = A2 THEN X1 ELSE tcr]
=============================================================================
