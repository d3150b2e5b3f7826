-------------------------- MODULE MCPlanExecution --------------------------
(***************************************************************************)
(* Plans for the instances of PlanExecution.                                *)
(***************************************************************************)
EXTENDS PlanExecution, TLC

CONSTANTS a, b, c, d, e

Uniform == [s \in Stages |-> 100]
\* c goes first, then b; the others as they come
Ranked  == [s \in Stages |-> CASE s = c -> 10 [] s = b -> 50 [] OTHER -> 100]

\* a, then b and c side by side, then d, which reads what all of them wrote
Diamond == a :> {} @@ b :> {a} @@ c :> {a} @@ d :> {a, b, c}
\* a, c and e side by side, then a cycle of b and d
Cyclic  == a :> {} @@ b :> {a, d} @@ c :> {} @@ d :> {a, b, c} @@ e :> {}
\* the compiler finds none
Acyclic == [Cyclic EXCEPT ![b] = {a}]
\* three stages, c after the others
Join    == a :> {} @@ b :> {} @@ c :> {a, b}
Nothing == [s \in Stages |-> "none"]
\* earlier plans left an artifact for a that no longer validates and one for e that does
Mixed   == [s \in Stages |-> CASE s = a -> "invalid" [] s = e -> "valid" [] OTHER -> "none"]
=============================================================================
