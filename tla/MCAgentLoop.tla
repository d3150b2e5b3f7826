----------------------------- MODULE MCAgentLoop -----------------------------
(* A small agent loop: w needs what s makes, r stands alone.               *)
EXTENDS AgentLoop

CONSTANTS s, w, r

MCAgents == {s, w, r}
MCNeeds  == [a \in MCAgents |-> IF a = w THEN {s} ELSE {}]
MCRoutes == {{w}, {r}}
MCCore   == {s}
=============================================================================
