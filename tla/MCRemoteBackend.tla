--------------------------- MODULE MCRemoteBackend ---------------------------
(* Three replicas submit four runs to a session of three slots; big takes    *)
(* two, and two runs share an idempotency key.                               *)
EXTENDS RemoteBackend

CONSTANTS a, b, c, big, k

MCRuns  == {a, b, c, big}
MCSlots == [r \in MCRuns |-> IF r = big THEN 2 ELSE 1]
MCKeys  == [r \in MCRuns |-> IF r \in {a, b} THEN k ELSE NoKey]
=============================================================================
