---------------------------- MODULE RemoteBackend ----------------------------
(***************************************************************************)
(* casa/scheduler/backends_remote.py: the backends that several replicas of  *)
(* a service share, Redis or PostgreSQL, as SessionScheduler.submit uses     *)
(* them for one session.  A step is one Redis command or script, or one      *)
(* statement of a transaction; what a transaction writes is seen when it     *)
(* commits, and is gone when its replica crashes before.                     *)
(*                                                                          *)
(* backends_remote.py does not import RunRecord, so whatever has to build    *)
(* one from a saved run raises NameError.  That includes get_run, with which *)
(* release, mark_failed and the sweep of zombies begin: on these backends    *)
(* they change nothing, and submit is the one operation with an effect.      *)
(*                                                                          *)
(* Deployment: tenants without quotas.                                       *)
(***************************************************************************)
EXTENDS Integers, FiniteSets

CONSTANTS
    Replicas,
    Runs,        \* run ids, one per call of submit
    Slots,       \* slots_used
    KeyOf,       \* idempotency_key
    NoKey,       \* the empty key
    Cap,         \* max_parallel_per_session
    Policies,    \* what the configuration, read at that moment, may say: "fifo", "reject"
    MaxCrashes,  \* bound: crashes of a replica
    Nobody

ASSUME RemoteAssumption ==
    /\ IsFiniteSet(Runs) /\ Runs # {} /\ Slots \in [Runs -> Nat \ {0}] /\ Cap \in Nat
    /\ Policies \subseteq {"fifo", "reject"} /\ MaxCrashes \in Nat /\ Nobody \notin Replicas

VARIABLES
    kind,     \* "redis" or "pg"
    old,      \* runs of the session that were accepted before
    row,      \* active slots of the session; NoRow if there is no row of it
    status,   \* the saved runs
    lock,     \* pg: the transaction that holds the session's row
    pc,       \* where submit is, in each replica
    mine,     \* the run it submits
    seen,     \* active_slots as its transaction read it
    answer,   \* what submit answered
    crashes

NoRow == -1
vars == <<kind, old, row, status, lock, pc, mine, seen, answer, crashes>>

\* the slots that the runs of S take, counted one by one
Sum(S)    == Cardinality(UNION {{r} \X (1..Slots[r]) : r \in S})
Active    == IF row = NoRow THEN 0 ELSE row
Saved     == {r \in Runs : status[r] # "none"}
Accepted  == {r \in Runs : status[r] = "accepted"}
Live      == {r \in Runs : status[r] \in {"accepted", "queued"}}

TypeOK ==
    /\ kind \in {"redis", "pg"} /\ old \subseteq Runs
    /\ row \in Nat \cup {NoRow} /\ status \in [Runs -> {"none", "accepted", "queued"}]
    /\ lock \in Replicas \cup {Nobody}
    /\ pc \in [Replicas -> {"idle", "accept", "upsert", "insert", "full", "dequeue"}]
    /\ mine \in [Replicas -> Runs] /\ seen \in [Replicas -> Nat]
    /\ answer \in [Runs -> {"none", "accepted", "rejected", "raised"}]
    /\ crashes \in 0..MaxCrashes

Init ==
    /\ kind \in {"redis", "pg"}
    /\ old \in {S \in SUBSET Runs : Sum(S) <= Cap}
    /\ status = [r \in Runs |-> IF r \in old THEN "accepted" ELSE "none"]
    /\ row = IF old = {} THEN NoRow ELSE Sum(old)
    /\ lock = Nobody
    /\ pc = [p \in Replicas |-> "idle"] /\ mine = [p \in Replicas |-> CHOOSE r \in Runs : TRUE]
    /\ seen = [p \in Replicas |-> 0]
    /\ answer = [r \in Runs |-> IF r \in old THEN "accepted" ELSE "none"]
    /\ crashes = 0

Become(p, where) == pc' = [pc EXCEPT ![p] = where]
Answer(p, what)  == /\ answer' = [answer EXCEPT ![mine[p]] = what]
                    /\ Become(p, "idle")

-----------------------------------------------------------------------------
(* submit, up to the accept                                                  *)

\* _all_runs builds every saved run; PostgreSQL selects first
RedisFindRaises(r) == KeyOf[r] # NoKey /\ Saved # {}
PgFindRaises(r)    == KeyOf[r] # NoKey /\ \E u \in Live : KeyOf[u] = KeyOf[r]

Submit(p, r) ==
    /\ pc[p] = "idle" /\ answer[r] = "none" /\ status[r] = "none"
    /\ \A q \in Replicas : pc[q] # "idle" => mine[q] # r
    /\ mine' = [mine EXCEPT ![p] = r]
    /\ \/ /\ IF kind = "redis" THEN RedisFindRaises(r) ELSE PgFindRaises(r)
          /\ answer' = [answer EXCEPT ![r] = "raised"]
          /\ UNCHANGED pc
       \/ /\ ~(IF kind = "redis" THEN RedisFindRaises(r) ELSE PgFindRaises(r))
          /\ Become(p, "accept")
          /\ UNCHANGED answer
    /\ UNCHANGED <<kind, old, row, status, lock, seen, crashes>>

Fits(p, current) == current + Slots[mine[p]] <= Cap

\* faulty: the run is left to a later save_run
RedisTakeSlots(p) ==
    /\ kind = "redis" /\ pc[p] = "accept"
    /\ \/ /\ Fits(p, Active)
          /\ row' = Active + Slots[mine[p]]
          /\ Become(p, "dequeue")
       \/ /\ ~Fits(p, Active)
          /\ Become(p, "full")
          /\ UNCHANGED row
    /\ UNCHANGED <<kind, old, status, lock, mine, seen, answer, crashes>>

\* the Lua script: slots, run and heartbeat at once
RedisAccept(p) ==
    /\ kind = "redis" /\ pc[p] = "accept"
    /\ \/ /\ Fits(p, Active)
          /\ row' = Active + Slots[mine[p]]
          /\ status' = [status EXCEPT ![mine[p]] = "accepted"]
          /\ Become(p, "dequeue")
       \/ /\ ~Fits(p, Active)
          /\ Become(p, "full")
          /\ UNCHANGED <<row, status>>
    /\ UNCHANGED <<kind, old, lock, mine, seen, answer, crashes>>

\* SELECT ... FOR UPDATE waits for the lock of the row; without a row there is none
PgSelect(p) ==
    /\ kind = "pg" /\ pc[p] = "accept"
    /\ row # NoRow => lock = Nobody
    /\ seen' = [seen EXCEPT ![p] = Active]
    /\ Become(p, IF Fits(p, Active) THEN "upsert" ELSE "full")
    /\ lock' = IF row # NoRow /\ Fits(p, Active) THEN p ELSE lock
    /\ UNCHANGED <<kind, old, row, status, mine, answer, crashes>>

\* INSERT ... ON CONFLICT DO UPDATE waits for who has the row, or is inserting it
PgUpsert(p) ==
    /\ pc[p] = "upsert" /\ lock \in {Nobody, p}
    /\ lock' = p
    /\ Become(p, "insert")
    /\ UNCHANGED <<kind, old, row, status, mine, seen, answer, crashes>>

\* the row of the run is inserted and the transaction commits
PgCommit(p) ==
    /\ pc[p] = "insert"
    /\ row' = seen[p] + Slots[mine[p]]
    /\ status' = [status EXCEPT ![mine[p]] = "accepted"]
    /\ lock' = Nobody
    /\ Become(p, "dequeue")
    /\ UNCHANGED <<kind, old, mine, seen, answer, crashes>>

-----------------------------------------------------------------------------
(* submit, after the accept                                                  *)

\* no slots: the run is saved as queued, or refused
Full(p) ==
    /\ pc[p] = "full"
    /\ \/ /\ "fifo" \in Policies
          /\ status' = [status EXCEPT ![mine[p]] = "queued"]
          /\ Become(p, "dequeue")
          /\ UNCHANGED answer
       \/ /\ "reject" \in Policies
          /\ Answer(p, "rejected")
          /\ UNCHANGED status
    /\ UNCHANGED <<kind, old, row, lock, mine, seen, crashes>>

\* list_queued_runs builds every run of the hash on Redis, none on PostgreSQL, where
\* get_run builds the first of those it selects
RedisListRaises == Saved # {}
PgGetRaises     == \E r \in Runs : status[r] = "queued"

DequeueRaises   == IF kind = "redis" THEN RedisListRaises ELSE PgGetRaises

\* _try_dequeue
Dequeue(p) ==
    /\ pc[p] = "dequeue"
    /\ Answer(p, IF DequeueRaises THEN "raised" ELSE "accepted")
    /\ UNCHANGED <<kind, old, row, status, lock, mine, seen, crashes>>

\* the process dies; the server rolls its transaction back
Crash(p) ==
    /\ pc[p] # "idle" /\ crashes < MaxCrashes
    /\ crashes' = crashes + 1
    /\ Answer(p, "raised")
    /\ lock' = IF lock = p THEN Nobody ELSE lock
    /\ UNCHANGED <<kind, old, row, status, mine, seen>>

Next ==
    \E p \in Replicas :
       \/ \E r \in Runs : Submit(p, r)
       \/ RedisAccept(p) \/ PgSelect(p) \/ PgUpsert(p) \/ PgCommit(p)
       \/ Full(p) \/ Dequeue(p) \/ Crash(p)

Spec == Init /\ [][Next]_vars

-----------------------------------------------------------------------------
\* Replicas may crash anywhere: a session's slots are never taken without a saved run that
\* accounts for them (backend.py:29 "avoid leaking slots when the process crashes").
SlotsHaveRuns == Active <= Sum(Accepted)

\* Where there is something to lock, on Redis always and on PostgreSQL once the session has its
\* row, replicas that accept at the same moment, and crash, leave the counter exact and within the
\* cap: a script, or a transaction behind FOR UPDATE, is as good as one step.
LockedRowIsExact == kind = "redis" \/ old # {} => Active = Sum(Accepted) /\ Active <= Cap

=============================================================================
