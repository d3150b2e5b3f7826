---------------------------- MODULE MCScheduler ----------------------------
(***************************************************************************)
(* Values for the constants of Scheduler that a configuration file cannot   *)
(* write: the submissions of each instance.                                 *)
(***************************************************************************)
EXTENDS Scheduler, TLC

CONSTANTS r1, r2, r3, r4, s1, s2, te1, te2, k1

AllIn(S, v) == [x \in S |-> v]

\* every submission takes one slot of one session, without tenant or key
PlainSession == AllIn(Runs, s1)
PlainTenant  == AllIn(Runs, NoTenant)
PlainSlots   == AllIn(Runs, 1)
PlainKey     == AllIn(Runs, NoKey)
NoLimits     == AllIn(Tenants, {})
NoQuota      == AllIn(Tenants, AllIn(Resources, 0))

\* r3 needs the whole session when Cap = 2
WideSlots == [r \in Runs |-> IF r = r3 THEN 2 ELSE 1]

\* r4 is alone in a second session
TwoSessions == [r \in Runs |-> IF r = r4 THEN s2 ELSE s1]

\* r1 and r2 repeat one submission
SharedKey == [r \in Runs |-> IF r \in {r1, r2} THEN k1 ELSE NoKey]

\* r1 has no tenant, the others are te1's
OneTenant   == [r \in Runs |-> IF r = r1 THEN NoTenant ELSE te1]
AllTenant   == AllIn(Runs, te1)
HardLimits  == AllIn(Tenants, Resources)
\* r2 alone has a tenant
LateTenant  == [r \in Runs |-> IF r = r2 THEN te1 ELSE NoTenant]
RoomyQuota  == AllIn(Tenants, AllIn(Resources, 2))
TightQuota  == AllIn(Tenants, [res \in Resources |-> IF res = "max_parallel" THEN 1 ELSE 2])

OneQuota == AllIn(Tenants, AllIn(Resources, 1))
=============================================================================
