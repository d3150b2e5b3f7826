-------------------------- MODULE MCArtifactStore --------------------------
(***************************************************************************)
(* Values for the constants of ArtifactStore.                               *)
(***************************************************************************)
EXTENDS ArtifactStore, TLC

CONSTANTS t1, bare, draft, final, w1, w2, w3

\* w3 wrote the plan without a tenant, the others write that of tenant t1
Place == [w \in Writers |-> IF w = w3 THEN bare ELSE t1]
\* w2 writes a durable kind, the others an ephemeral one
Kind  == [w \in Writers |-> IF w = w2 THEN final ELSE draft]
=============================================================================
