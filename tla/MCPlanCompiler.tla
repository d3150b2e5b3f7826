--------------------------- MODULE MCPlanCompiler ---------------------------
(***************************************************************************)
(* Values for the constants of PlanCompiler.                                *)
(***************************************************************************)
EXTENDS PlanCompiler

CONSTANTS a, b, c, ghost, x, y, z

\* declared in another order than the ids sort
Keys  == <<c, a, b>>
ById  == <<a, b, c, ghost>>

\* chains, cycles and self-consumption; a and b may both produce x, and c may
\* produce nothing
Maps == {[n \in {a, b, c} |-> CASE n = a -> [inputs |-> ia, output |-> x]
                               [] n = b -> [inputs |-> ib, output |-> ob]
                               [] n = c -> [inputs |-> ic, output |-> oc]] :
            ia \in {{}, {x}, {y}, {z}}, ib \in {{}, {x}}, ic \in {{}, {x, y}},
            ob \in {x, y}, oc \in {z, None}}

Orders == {<<a, b, c, ghost>>, <<c, b, a, ghost>>}

Ask(p, s, co, cl) == [preset |-> p, stages |-> s, core |-> co, closure |-> cl]
Asked == {Ask({a}, {}, TRUE, TRUE), Ask({}, {b}, TRUE, TRUE), Ask({}, {a, c}, FALSE, FALSE),
          Ask({b, ghost}, {}, FALSE, TRUE), Ask({b}, {ghost}, TRUE, TRUE), Ask({}, {}, FALSE, FALSE)}

Use(e, f, s, aw) == [enabled |-> e, forbidden |-> f, sick |-> s, aware |-> aw]
\* ghost is a core agent without a declaration: a plan that keeps it is not recovered, so
\* most configurations forbid it
Uses == {Use({}, {}, {}, TRUE), Use({}, {ghost}, {}, TRUE), Use({}, {ghost}, {a}, TRUE),
         Use({a, c}, {}, {}, TRUE), Use({}, {a, ghost}, {}, TRUE), Use({}, {ghost}, {}, FALSE)}
=============================================================================
