------------------------------ MODULE Scheduler ------------------------------
(***************************************************************************)
(* casa/scheduler: SessionScheduler over InMemorySchedulerBackend, with the *)
(* tenant quotas of casa/tenant.py.                                         *)
(*                                                                          *)
(* Submit, release, mark_failed and find_and_release_zombies are plain       *)
(* (synchronous, lock-free) methods: all the mutual exclusion is inside the  *)
(* backend and the tenant manager, one lock section per call.  So a step of  *)
(* a thread is one such call together with the local computation up to the   *)
(* next one, and threads interleave between them.  A single-threaded         *)
(* deployment is the instance with one thread.                               *)
(*                                                                          *)
(* Every run is one future submit() call: its session, tenant, slots and     *)
(* idempotency key are constants, its record exists once it is saved.        *)
(***************************************************************************)
EXTENDS Integers, FiniteSets

CONSTANTS
    Threads,      \* threads that call the scheduler
    Sweepers,     \* the threads among them that run the zombie sweep
    Runs,         \* the submissions
    Sessions,     \* session ids
    Tenants,      \* tenants registered with the tenant manager
    SessionOf,    \* the session, tenant, slots and key a run is submitted with
    TenantOf,
    SlotsOf,
    KeyOf,
    Cap,          \* CASAConfig.max_parallel_per_session
    Policy,       \* CASAConfig.concurrency_policy: "reject" or "fifo"
    Limited,      \* Limited[te]: the hard resources listed in te's quotas
    Quota,        \* Quota[te][res]: the limit, for res \in Limited[te]
    SoftTenants,  \* tenants with a daily_tokens or daily_cost_cents quota
    NoRun, NoTenant, NoKey,
    MaxEnds,      \* bound: end calls (release, mark_failed) made per run
    MaxLapses,    \* bound: how often a heartbeat may go stale
    MaxRollovers  \* bound: how often the UTC day changes

Resources == {"max_parallel", "daily_runs"}

ASSUME RunsAssumption ==
    /\ NoRun \notin Runs
    /\ NoTenant \notin Tenants
    /\ Sweepers \subseteq Threads
    /\ SessionOf \in [Runs -> Sessions]
    /\ TenantOf \in [Runs -> Tenants \cup {NoTenant}]
    /\ SlotsOf \in [Runs -> Nat \ {0}]
ASSUME CapAssumption == Cap \in Nat \ {0} /\ Policy \in {"reject", "fifo"}
ASSUME QuotaAssumption ==
    /\ Limited \in [Tenants -> SUBSET Resources]
    /\ Quota \in [Tenants -> [Resources -> Nat]]
    /\ SoftTenants \subseteq Tenants
ASSUME BoundAssumption ==
    MaxEnds \in Nat /\ MaxLapses \in Nat /\ MaxRollovers \in Nat

VARIABLES
    status,      \* RunRecord.status; "none" before the record is saved
    created,     \* RunRecord.created_at, as a position in creation order
    clock,       \* the next creation position
    active,      \* backend._active
    beat,        \* backend._heartbeats: "none", "fresh" or "stale"
    usage,       \* tenant manager: reserved amount of each hard resource today
    soft,        \* tenant manager: tokens and cost are still below their limits
    pc,          \* where each thread is
    op,          \* the scheduler method it executes
    run,         \* the run that call is about
    cur,         \* the queued run _try_dequeue works on
    after,       \* active_after, as returned by the last accept
    held,        \* reserved_quotas
    queue,       \* the run ids list_queued_runs returned, minus those popped
    zombies,     \* the run ids find_zombies returned, minus those handled
    reply,       \* what submit answered to each submission
    known,       \* the runs whose id some client was given
    dispatches,  \* calls of dispatch_callback for each run
    ends,        \* end calls the clients of each run have made
    lapses, rollovers

recordVars == <<status, created, clock, active, beat>>
tenantVars == <<usage, soft>>
localVars  == <<cur, after, held, queue, zombies>>
clientVars == <<reply, known, dispatches, ends>>
envVars    == <<lapses, rollovers>>
vars == <<recordVars, tenantVars, pc, op, run, localVars, clientVars, envVars>>

Statuses == {"none", "queued", "accepted", "done", "failed"}
Replies  == {"none", "accepted", "queued", "rejected", "replay"}
Ops      == {"none", "submit", "enqueue", "release", "fail", "sweep"}
Labels   == {"idle", "accept", "reserve", "soft", "rollback_slot", "rollback_mark",
             "rollback_quota", "save", "confirm", "list", "get", "take", "clobber",
             "dq_reserve", "dq_undo", "dq_soft", "restore_slot", "restore_mark",
             "restore_quota", "dq_mark", "dispatch", "release_slot", "release_mark",
             "release_quota", "fail_get", "fail_slot", "fail_mark", "cancel_mark",
             "fail_quota", "sweep"}

\* the labels at which _try_dequeue holds a run it took from the queue
DequeueLabels == {"take", "clobber", "dq_reserve", "dq_undo", "dq_soft", "restore_slot",
                  "restore_mark", "restore_quota", "dq_mark", "dispatch"}

RecordsOK ==
    /\ status \in [Runs -> Statuses]
    /\ created \in [Runs -> Nat] /\ clock \in Nat
    /\ active \in [Sessions -> Nat]
    /\ beat \in [Runs -> {"none", "fresh", "stale"}]

TenantsOK == usage \in [Tenants -> [Resources -> Nat]] /\ soft \in [Tenants -> BOOLEAN]

ControlOK ==
    /\ pc \in [Threads -> Labels] /\ op \in [Threads -> Ops]
    /\ run \in [Threads -> Runs \cup {NoRun}] /\ cur \in [Threads -> Runs \cup {NoRun}]
    /\ \A t \in Threads : /\ pc[t] \notin {"idle", "sweep"} => run[t] \in Runs
                          /\ pc[t] \in DequeueLabels => cur[t] \in Runs

LocalsOK ==
    /\ after \in [Threads -> Nat] /\ held \in [Threads -> SUBSET Resources]
    /\ queue \in [Threads -> SUBSET Runs] /\ zombies \in [Threads -> SUBSET Runs]

ClientsOK ==
    /\ reply \in [Runs -> Replies] /\ known \subseteq Runs
    /\ dispatches \in [Runs -> Nat] /\ ends \in [Runs -> Nat]
    /\ lapses \in Nat /\ rollovers \in Nat

TypeOK == RecordsOK /\ TenantsOK /\ ControlOK /\ LocalsOK /\ ClientsOK

Init ==
    /\ status = [r \in Runs |-> "none"] /\ created = [r \in Runs |-> 0] /\ clock = 1
    /\ active = [s \in Sessions |-> 0] /\ beat = [r \in Runs |-> "none"]
    /\ usage = [te \in Tenants |-> [res \in Resources |-> 0]]
    /\ soft = [te \in Tenants |-> TRUE]
    /\ pc = [t \in Threads |-> "idle"] /\ op = [t \in Threads |-> "none"]
    /\ run = [t \in Threads |-> NoRun] /\ cur = [t \in Threads |-> NoRun]
    /\ after = [t \in Threads |-> 0] /\ held = [t \in Threads |-> {}]
    /\ queue = [t \in Threads |-> {}] /\ zombies = [t \in Threads |-> {}]
    /\ reply = [r \in Runs |-> "none"] /\ known = {}
    /\ dispatches = [r \in Runs |-> 0]
    /\ ends = [r \in Runs |-> 0] /\ lapses = 0 /\ rollovers = 0

-----------------------------------------------------------------------------
(* Backend and tenant-manager calls.                                        *)

Goto(t, label) == pc' = [pc EXCEPT ![t] = label]

\* a scheduler method returns to its caller
Leave(t) ==
    /\ Goto(t, "idle")
    /\ op' = [op EXCEPT ![t] = "none"]
    /\ run' = [run EXCEPT ![t] = NoRun]

NonNegative(n) == IF n < 0 THEN 0 ELSE n

\* set_active: a non-positive count drops the entry, which reads as 0
SetActive(s, n) == active' = [active EXCEPT ![s] = NonNegative(n)]

\* faulty: every run is taken to hold one slot
FreeOneSlot(r) == SetActive(SessionOf[r], active[SessionOf[r]] - 1)

\* adjust_active by -slots, in one lock section
FreeSlots(r) == SetActive(SessionOf[r], active[SessionOf[r]] - SlotsOf[r])

\* faulty: off by one
LooseFits(r) == active[SessionOf[r]] + SlotsOf[r] <= Cap + 1

Fits(r) == active[SessionOf[r]] + SlotsOf[r] <= Cap

\* atomic_accept_run's effect on the counter, the heartbeat and active_after
TakeSlots(t, r) ==
    LET n == active[SessionOf[r]] + SlotsOf[r]
    IN  /\ SetActive(SessionOf[r], n)
        /\ after' = [after EXCEPT ![t] = n]
        /\ beat' = [beat EXCEPT ![r] = "fresh"]

MarkStatus(r, st) ==
    /\ status' = [status EXCEPT ![r] = st]
    /\ beat' = [beat EXCEPT ![r] = IF st \in {"done", "failed"} THEN "none" ELSE @]

\* faulty: a queued run does not answer to its idempotency key
LiveIfAccepted(r) == status[r] = "accepted"

Live(r) == status[r] \in {"accepted", "queued"}

SameKey(r, q) == KeyOf[r] # NoKey /\ KeyOf[q] = KeyOf[r] /\ SessionOf[q] = SessionOf[r]

Amount(r, res) == IF res = "max_parallel" THEN SlotsOf[r] ELSE 1

Reserve(te, res, n) == usage' = [usage EXCEPT ![te][res] = @ + n]
Unreserve(te, res, n) == usage' = [usage EXCEPT ![te][res] = NonNegative(@ - n)]

\* max_parallel comes before daily_runs, both when reserving and when releasing
FirstOf(S) == IF "max_parallel" \in S THEN "max_parallel" ELSE "daily_runs"

QuotaAllows(te, res, n) == usage[te][res] + n <= Quota[te][res]

\* One try_reserve_quota call for run r, or the end of the loop over the resources.
TryReserve(t, r, reserved, refused) ==
    LET te == TenantOf[r]
        todo == Limited[te] \ held[t]
        res == FirstOf(todo)
        fits == QuotaAllows(te, res, Amount(r, res))
    IN  \/ /\ todo = {}
           /\ Goto(t, reserved)
           /\ UNCHANGED <<usage, held>>
        \/ /\ todo # {} /\ fits
           /\ Reserve(te, res, Amount(r, res))
           /\ held' = [held EXCEPT ![t] = @ \cup {res}]
           /\ UNCHANGED pc
        \/ /\ todo # {} /\ ~fits
           /\ Goto(t, refused)
           /\ UNCHANGED <<usage, held>>

\* One release_quota call of the loop over reserved_quotas.
ReleaseOne(t, r) ==
    LET res == FirstOf(held[t])
    IN  /\ Unreserve(TenantOf[r], res, Amount(r, res))
        /\ held' = [held EXCEPT ![t] = @ \ {res}]

SoftQuotaLeft(r) == TenantOf[r] \in SoftTenants => soft[TenantOf[r]]

-----------------------------------------------------------------------------
(* submit                                                                   *)

\* The idempotency lookup.  A live run with the same key is handed back as it is.
Submit(t, r) ==
    /\ pc[t] = "idle"
    /\ reply[r] = "none" /\ \A u \in Threads : run[u] # r
    /\ \/ \E q \in Runs : /\ SameKey(r, q) /\ Live(q)
                         /\ reply' = [reply EXCEPT ![r] = "replay"]
                         /\ known' = known \cup {q}
                         /\ UNCHANGED <<pc, op, run>>
       \/ /\ \A q \in Runs : SameKey(r, q) => ~Live(q)
          /\ Goto(t, "accept")
          /\ op' = [op EXCEPT ![t] = "submit"]
          /\ run' = [run EXCEPT ![t] = r]
          /\ UNCHANGED <<reply, known>>
    /\ UNCHANGED <<recordVars, tenantVars, localVars, dispatches, ends, envVars>>

\* submit answers: the client learns the run's id unless it is rejected
Answer(t, answer) ==
    /\ reply' = [reply EXCEPT ![run[t]] = answer]
    /\ known' = IF answer = "rejected" THEN known ELSE known \cup {run[t]}
    /\ UNCHANGED <<dispatches, ends>>

\* atomic_accept_run; when there is no room, the policy decides
Accept(t) ==
    LET r == run[t]
    IN  /\ pc[t] = "accept"
        /\ \/ /\ Fits(r)
              /\ TakeSlots(t, r)
              /\ status' = [status EXCEPT ![r] = "accepted"]
              /\ Goto(t, IF TenantOf[r] = NoTenant THEN "list" ELSE "reserve")
              /\ UNCHANGED <<created, clock, op, run, clientVars>>
           \/ /\ ~Fits(r) /\ Policy = "reject"
              /\ Answer(t, "rejected")
              /\ Leave(t)
              /\ UNCHANGED <<recordVars, after>>
           \/ /\ ~Fits(r) /\ Policy = "fifo"
              /\ created' = [created EXCEPT ![r] = clock] /\ clock' = clock + 1
              /\ op' = [op EXCEPT ![t] = "enqueue"]
              /\ Goto(t, "save")
              /\ UNCHANGED <<status, active, beat, run, after, clientVars>>
        /\ UNCHANGED <<tenantVars, cur, held, queue, zombies, envVars>>

ReserveQuotas(t) ==
    /\ pc[t] = "reserve"
    /\ TryReserve(t, run[t], "soft", "rollback_slot")
    /\ UNCHANGED <<recordVars, soft, op, run, cur, after, queue, zombies, clientVars, envVars>>

\* check_quota_sync on daily_tokens and daily_cost_cents
CheckSoftQuotas(t) ==
    /\ pc[t] = "soft"
    /\ Goto(t, IF SoftQuotaLeft(run[t]) THEN "list" ELSE "rollback_slot")
    /\ UNCHANGED <<recordVars, tenantVars, op, run, localVars, clientVars, envVars>>

\* _rollback_accept writes back the count its accept returned, less the slots: an
\* absolute value, however the counter moved since.  _restore_dequeued_run likewise.
WriteBack(t, r) == SetActive(SessionOf[r], after[t] - SlotsOf[r])

RollbackSlot(t) ==
    /\ pc[t] = "rollback_slot"
    /\ WriteBack(t, run[t])
    /\ Goto(t, "rollback_mark")
    /\ UNCHANGED <<status, created, clock, beat, tenantVars, op, run, localVars, clientVars, envVars>>

\* faulty: the rolled back run stays accepted
ForgetfulRollbackMark(t) ==
    /\ pc[t] = "rollback_mark"
    /\ Goto(t, "rollback_quota")
    /\ UNCHANGED <<recordVars, tenantVars, op, run, localVars, clientVars, envVars>>

RollbackMark(t) ==
    /\ pc[t] = "rollback_mark"
    /\ MarkStatus(run[t], "failed")
    /\ Goto(t, "rollback_quota")
    /\ UNCHANGED <<created, clock, active, tenantVars, op, run, localVars, clientVars, envVars>>

RollbackQuota(t) ==
    /\ pc[t] = "rollback_quota"
    /\ \/ /\ held[t] # {}
          /\ ReleaseOne(t, run[t])
          /\ UNCHANGED <<pc, op, run, after, clientVars>>
       \/ /\ held[t] = {}
          /\ Answer(t, "rejected")
          /\ Leave(t)
          /\ after' = [after EXCEPT ![t] = 0]
          /\ UNCHANGED <<usage, held>>
    /\ UNCHANGED <<recordVars, soft, cur, queue, zombies, envVars>>

SaveQueued(t) ==
    /\ pc[t] = "save"
    /\ status' = [status EXCEPT ![run[t]] = "queued"]
    /\ Goto(t, "list")
    /\ UNCHANGED <<created, clock, active, beat, tenantVars, op, run, localVars, clientVars, envVars>>

\* the get_run after the dequeue tells whether the run was promoted meanwhile
Confirm(t) ==
    /\ pc[t] = "confirm"
    /\ Answer(t, IF status[run[t]] = "accepted" THEN "accepted" ELSE "queued")
    /\ Leave(t)
    /\ UNCHANGED <<recordVars, tenantVars, localVars, envVars>>

-----------------------------------------------------------------------------
(* _try_dequeue                                                             *)

\* It returns to the method that called it.  A submit answers "accepted" at once and
\* its client learns the run's id; told are the ids a dispatch_callback handed out.
DequeueReturns(t, told) ==
    LET next == CASE op[t] = "enqueue" -> "confirm"
                  [] op[t] = "release" /\ TenantOf[run[t]] # NoTenant -> "release_quota"
                  [] op[t] = "sweep" -> "sweep"
                  [] OTHER -> "idle"
    IN  /\ Goto(t, next)
        /\ op' = [op EXCEPT ![t] = IF next = "idle" THEN "none" ELSE @]
        /\ run' = [run EXCEPT ![t] = IF next \in {"idle", "sweep"} THEN NoRun ELSE @]
        /\ reply' = IF op[t] = "submit" THEN [reply EXCEPT ![run[t]] = "accepted"] ELSE reply
        /\ known' = known \cup told \cup (IF op[t] = "submit" THEN {run[t]} ELSE {})
        /\ cur' = [cur EXCEPT ![t] = NoRun]
        /\ after' = [after EXCEPT ![t] = 0]
        /\ held' = [held EXCEPT ![t] = {}]
        /\ queue' = [queue EXCEPT ![t] = {}]

\* list_queued_runs: of the session, and of the tenant only if there is one
QueuedFor(r) ==
    {q \in Runs : /\ status[q] = "queued" /\ SessionOf[q] = SessionOf[r]
                  /\ TenantOf[r] # NoTenant => TenantOf[q] = TenantOf[r]}

ListQueued(t) ==
    /\ pc[t] = "list"
    /\ \/ /\ QueuedFor(run[t]) # {}
          /\ queue' = [queue EXCEPT ![t] = QueuedFor(run[t])]
          /\ held' = [held EXCEPT ![t] = {}]
          /\ Goto(t, "get")
          /\ UNCHANGED <<op, run, cur, after, reply, known>>
       \/ /\ QueuedFor(run[t]) = {}
          /\ DequeueReturns(t, {})
    /\ UNCHANGED <<recordVars, tenantVars, zombies, dispatches, ends, envVars>>

\* faulty: the list is sorted the other way round
NewestGetHead(t) ==
    /\ pc[t] = "get"
    /\ \E q \in queue[t] :
         /\ \A p \in queue[t] : created[q] >= created[p]
         /\ cur' = [cur EXCEPT ![t] = q]
    /\ Goto(t, "take")
    /\ UNCHANGED <<recordVars, tenantVars, op, run, after, held, queue, zombies, clientVars, envVars>>

\* The head of the list: dropped if no longer queued, when the list was read long ago.
GetHead(t) ==
    /\ pc[t] = "get"
    /\ \E q \in queue[t] :
         /\ \A p \in queue[t] : created[q] <= created[p]
         /\ \/ /\ status[q] = "queued"
               /\ cur' = [cur EXCEPT ![t] = q]
               /\ Goto(t, "take")
               /\ UNCHANGED <<op, run, after, held, queue, reply, known>>
            \/ /\ status[q] # "queued" /\ queue[t] # {q}
               /\ queue' = [queue EXCEPT ![t] = @ \ {q}]
               /\ UNCHANGED <<pc, op, run, cur, after, held, reply, known>>
            \/ /\ status[q] # "queued" /\ queue[t] = {q}
               /\ DequeueReturns(t, {})
    /\ UNCHANGED <<recordVars, tenantVars, zombies, dispatches, ends, envVars>>

\* faulty: the cap is checked by submit only
UncheckedTake(t) ==
    /\ pc[t] = "take"
    /\ TakeSlots(t, cur[t])
    /\ Goto(t, IF TenantOf[cur[t]] = NoTenant THEN "dq_mark" ELSE "dq_reserve")
    /\ UNCHANGED <<status, created, clock, tenantVars, op, run, cur, held, queue, zombies,
                   clientVars, envVars>>

\* atomic_accept_run on a run that is already saved: its status stays "queued"
Take(t) ==
    LET q == cur[t]
    IN  /\ pc[t] = "take"
        /\ \/ /\ Fits(q)
              /\ TakeSlots(t, q)
              /\ Goto(t, IF TenantOf[q] = NoTenant THEN "dq_mark" ELSE "dq_reserve")
           \/ /\ ~Fits(q)
              /\ Goto(t, "clobber")
              /\ UNCHANGED <<active, after, beat>>
        /\ UNCHANGED <<status, created, clock, tenantVars, op, run, cur, held, queue, zombies,
                       clientVars, envVars>>

\* run.status = "queued" on the shared record, outside any lock
Clobber(t) ==
    /\ pc[t] = "clobber"
    /\ status' = [status EXCEPT ![cur[t]] = "queued"]
    /\ DequeueReturns(t, {})
    /\ UNCHANGED <<created, clock, active, beat, tenantVars, zombies, dispatches, ends, envVars>>

\* _reserve_tenant_quotas; the locals start with no reservation
DequeueReserve(t) ==
    /\ pc[t] = "dq_reserve"
    /\ TryReserve(t, cur[t], "dq_soft", "dq_undo")
    /\ UNCHANGED <<recordVars, soft, op, run, cur, after, queue, zombies, clientVars, envVars>>

\* a refused resource: those reserved before it are given back, then the slots
DequeueUndo(t) ==
    /\ pc[t] = "dq_undo"
    /\ \/ /\ held[t] # {}
          /\ ReleaseOne(t, cur[t])
          /\ UNCHANGED pc
       \/ /\ held[t] = {}
          /\ Goto(t, "restore_slot")
          /\ UNCHANGED <<usage, held>>
    /\ UNCHANGED <<recordVars, soft, op, run, cur, after, queue, zombies, clientVars, envVars>>

DequeueSoft(t) ==
    /\ pc[t] = "dq_soft"
    /\ Goto(t, IF SoftQuotaLeft(cur[t]) THEN "dq_mark" ELSE "restore_slot")
    /\ UNCHANGED <<recordVars, tenantVars, op, run, localVars, clientVars, envVars>>

RestoreSlot(t) ==
    /\ pc[t] = "restore_slot"
    /\ WriteBack(t, cur[t])
    /\ Goto(t, "restore_mark")
    /\ UNCHANGED <<status, created, clock, beat, tenantVars, op, run, localVars, clientVars, envVars>>

RestoreMark(t) ==
    /\ pc[t] = "restore_mark"
    /\ MarkStatus(cur[t], "queued")
    /\ Goto(t, "restore_quota")
    /\ UNCHANGED <<created, clock, active, tenantVars, op, run, localVars, clientVars, envVars>>

RestoreQuota(t) ==
    /\ pc[t] = "restore_quota"
    /\ \/ /\ held[t] # {}
          /\ ReleaseOne(t, cur[t])
          /\ UNCHANGED <<pc, op, run, cur, after, queue, reply, known>>
       \/ /\ held[t] = {}
          /\ DequeueReturns(t, {})
          /\ UNCHANGED usage
    /\ UNCHANGED <<recordVars, soft, zombies, dispatches, ends, envVars>>

DequeueMark(t) ==
    /\ pc[t] = "dq_mark"
    /\ MarkStatus(cur[t], "accepted")
    /\ Goto(t, "dispatch")
    /\ UNCHANGED <<created, clock, active, tenantVars, op, run, localVars, clientVars, envVars>>

\* record_heartbeat, then dispatch_callback tells a client to execute the run
Dispatch(t) ==
    /\ pc[t] = "dispatch"
    /\ beat' = [beat EXCEPT ![cur[t]] = "fresh"]
    /\ dispatches' = [dispatches EXCEPT ![cur[t]] = @ + 1]
    /\ DequeueReturns(t, {cur[t]})
    /\ UNCHANGED <<status, created, clock, active, tenantVars, zombies, ends, envVars>>

-----------------------------------------------------------------------------
(* release, mark_failed and the zombie sweep.  Calls that return early       *)
(* (unknown run, another session, nothing to end) change nothing.           *)

Call(t, method, r, label) ==
    /\ Goto(t, label)
    /\ op' = [op EXCEPT ![t] = method]
    /\ run' = [run EXCEPT ![t] = r]

\* a client that was given r's id ends it; two ends of one run may overlap
ClientEnds(t, r) ==
    /\ pc[t] = "idle"
    /\ r \in known /\ ends[r] < MaxEnds
    /\ ends' = [ends EXCEPT ![r] = @ + 1]
    /\ UNCHANGED <<recordVars, tenantVars, localVars, reply, known, dispatches, envVars>>

\* faulty: no status check
EagerRelease(t, r) == ClientEnds(t, r) /\ Call(t, "release", r, "release_slot")

Release(t, r) ==
    /\ ClientEnds(t, r)
    /\ status[r] = "accepted"
    /\ Call(t, "release", r, "release_slot")

ReleaseSlot(t) ==
    /\ pc[t] = "release_slot"
    /\ FreeSlots(run[t])
    /\ Goto(t, "release_mark")
    /\ UNCHANGED <<status, created, clock, beat, tenantVars, op, run, localVars, clientVars, envVars>>

\* faulty: no dequeue after a release
LazyReleaseMark(t) ==
    /\ pc[t] = "release_mark"
    /\ MarkStatus(run[t], "done")
    /\ Leave(t)
    /\ UNCHANGED <<created, clock, active, tenantVars, localVars, clientVars, envVars>>

ReleaseMark(t) ==
    /\ pc[t] = "release_mark"
    /\ MarkStatus(run[t], "done")
    /\ Goto(t, "list")
    /\ UNCHANGED <<created, clock, active, tenantVars, op, run, localVars, clientVars, envVars>>

\* only after the dequeue has returned
ReleaseQuota(t) ==
    /\ pc[t] = "release_quota"
    /\ Unreserve(TenantOf[run[t]], "max_parallel", SlotsOf[run[t]])
    /\ Leave(t)
    /\ UNCHANGED <<recordVars, soft, localVars, clientVars, envVars>>

\* mark_failed reads the status once and acts on it later
FailLabel(r) == IF status[r] = "accepted" THEN "fail_slot" ELSE "cancel_mark"

MarkFailed(t, r) ==
    /\ ClientEnds(t, r)
    /\ Live(r)
    /\ Call(t, "fail", r, FailLabel(r))

FailSlot(t) ==
    /\ pc[t] = "fail_slot"
    /\ FreeSlots(run[t])
    /\ Goto(t, "fail_mark")
    /\ UNCHANGED <<status, created, clock, beat, tenantVars, op, run, localVars, clientVars, envVars>>

\* faulty: the quota of a cancelled run is released too, although it has none
GenerousFailMark(t) ==
    /\ pc[t] \in {"fail_mark", "cancel_mark"}
    /\ MarkStatus(run[t], "failed")
    /\ Goto(t, IF TenantOf[run[t]] # NoTenant THEN "fail_quota" ELSE "list")
    /\ UNCHANGED <<created, clock, active, tenantVars, op, run, localVars, clientVars, envVars>>

\* faulty: no dequeue after a failure
LazyFailMark(t) ==
    /\ pc[t] \in {"fail_mark", "cancel_mark"}
    /\ MarkStatus(run[t], "failed")
    /\ Leave(t)
    /\ UNCHANGED <<created, clock, active, tenantVars, localVars, clientVars, envVars>>

FailMark(t) ==
    /\ pc[t] \in {"fail_mark", "cancel_mark"}
    /\ MarkStatus(run[t], "failed")
    /\ Goto(t, IF pc[t] = "fail_mark" /\ TenantOf[run[t]] # NoTenant THEN "fail_quota" ELSE "list")
    /\ UNCHANGED <<created, clock, active, tenantVars, op, run, localVars, clientVars, envVars>>

FailQuota(t) ==
    /\ pc[t] = "fail_quota"
    /\ Unreserve(TenantOf[run[t]], "max_parallel", SlotsOf[run[t]])
    /\ Goto(t, "list")
    /\ UNCHANGED <<recordVars, soft, op, run, localVars, clientVars, envVars>>

\* find_zombies
Zombies == {r \in Runs : status[r] = "accepted" /\ beat[r] = "stale"}

Sweep(t) ==
    /\ pc[t] = "idle" /\ Zombies # {}
    /\ zombies' = [zombies EXCEPT ![t] = Zombies]
    /\ Call(t, "sweep", NoRun, "sweep")
    /\ UNCHANGED <<recordVars, tenantVars, cur, after, held, queue, clientVars, envVars>>

\* faulty: releases only running zombies, and nothing ever marks a run running
RunningSweepNext(t) ==
    /\ pc[t] = "sweep"
    /\ zombies' = [zombies EXCEPT ![t] = {}]
    /\ Leave(t)
    /\ UNCHANGED <<recordVars, tenantVars, cur, after, held, queue, clientVars, envVars>>

\* one id of the list, if its run is still accepted, or the end of the sweep
SweepNext(t) ==
    /\ pc[t] = "sweep"
    /\ \/ \E r \in zombies[t] :
            /\ zombies' = [zombies EXCEPT ![t] = @ \ {r}]
            /\ \/ status[r] = "accepted" /\ Call(t, "sweep", r, "fail_get")
               \/ status[r] # "accepted" /\ UNCHANGED <<pc, op, run>>
       \/ zombies[t] = {} /\ Leave(t) /\ UNCHANGED zombies
    /\ UNCHANGED <<recordVars, tenantVars, cur, after, held, queue, clientVars, envVars>>

\* mark_failed, called by the sweep, reads the run again
SweepFails(t) ==
    /\ pc[t] = "fail_get"
    /\ \/ Live(run[t]) /\ Goto(t, FailLabel(run[t])) /\ UNCHANGED run
       \/ ~Live(run[t]) /\ Goto(t, "sweep") /\ run' = [run EXCEPT ![t] = NoRun]
    /\ UNCHANGED <<recordVars, tenantVars, op, localVars, clientVars, envVars>>

-----------------------------------------------------------------------------
(* Clients and the world around the scheduler.                              *)

\* the client executing a run calls heartbeat now and then, until it ends the run
Heartbeat(r) ==
    /\ r \in known /\ ends[r] = 0 /\ beat[r] # "fresh" /\ status[r] # "queued"
    /\ beat' = [beat EXCEPT ![r] = "fresh"]
    /\ UNCHANGED <<status, created, clock, active, tenantVars, pc, op, run, localVars,
                   clientVars, envVars>>

\* zombie_timeout_seconds pass without a heartbeat
BeatLapses(r) ==
    /\ beat[r] = "fresh" /\ lapses < MaxLapses
    /\ beat' = [beat EXCEPT ![r] = "stale"]
    /\ lapses' = lapses + 1
    /\ UNCHANGED <<status, created, clock, active, tenantVars, pc, op, run, localVars,
                   clientVars, rollovers>>

\* record_token_usage or record_cost_usage of an executing run reaches the limit
SpendTokens(r) ==
    /\ status[r] = "accepted" /\ r \in known /\ TenantOf[r] \in SoftTenants
    /\ soft[TenantOf[r]]
    /\ soft' = [soft EXCEPT ![TenantOf[r]] = FALSE]
    /\ UNCHANGED <<recordVars, usage, pc, op, run, localVars, clientVars, envVars>>

\* the UTC date changes, and with it the usage keys of every daily resource
Rollover ==
    /\ rollovers < MaxRollovers
    /\ rollovers' = rollovers + 1
    /\ usage' = [te \in Tenants |-> [usage[te] EXCEPT !["daily_runs"] = 0]]
    /\ soft' = [te \in Tenants |-> TRUE]
    /\ UNCHANGED <<recordVars, pc, op, run, localVars, clientVars, lapses>>

-----------------------------------------------------------------------------

\* the next step of the scheduler method that thread t executes
Continue(t) ==
    \/ Accept(t) \/ ReserveQuotas(t) \/ CheckSoftQuotas(t)
    \/ RollbackSlot(t) \/ RollbackMark(t) \/ RollbackQuota(t)
    \/ SaveQueued(t) \/ Confirm(t)
    \/ ListQueued(t) \/ GetHead(t) \/ Take(t) \/ Clobber(t)
    \/ DequeueReserve(t) \/ DequeueUndo(t) \/ DequeueSoft(t)
    \/ RestoreSlot(t) \/ RestoreMark(t) \/ RestoreQuota(t)
    \/ DequeueMark(t) \/ Dispatch(t)
    \/ ReleaseSlot(t) \/ ReleaseMark(t) \/ ReleaseQuota(t)
    \/ FailSlot(t) \/ FailMark(t) \/ FailQuota(t)
    \/ SweepNext(t) \/ SweepFails(t)

Start(t) ==
    \/ \E r \in Runs : Submit(t, r) \/ Release(t, r) \/ MarkFailed(t, r)
    \/ t \in Sweepers /\ Sweep(t)

World == Rollover \/ \E r \in Runs : Heartbeat(r) \/ BeatLapses(r) \/ SpendTokens(r)

Next == (\E t \in Threads : Start(t) \/ Continue(t)) \/ World

Spec == Init /\ [][Next]_vars

\* Threads keep executing the method they are in, a client ends the run it executes,
\* and the application calls the zombie sweep again and again.
FairSpec ==
    /\ Spec
    /\ \A t \in Threads : WF_vars(Continue(t))
    /\ \A r \in Runs : WF_vars(\E t \in Threads : Release(t, r))
    /\ WF_vars(\E t \in Sweepers : Sweep(t))

-----------------------------------------------------------------------------
(* Properties.                                                              *)

At(r, ops, labels) == \E t \in Threads : run[t] = r /\ op[t] \in ops /\ pc[t] \in labels
Taking(r, labels)  == \E t \in Threads : cur[t] = r /\ pc[t] \in labels

\* submit has taken r's slots but not yet decided on its quotas
Pending(r) == At(r, {"submit"}, {"reserve", "soft", "rollback_slot", "rollback_mark",
                                 "rollback_quota"})

\* the slots of an accepted run have been given back, its status not yet written
SlotsFreed(r) == At(r, Ops, {"release_mark", "fail_mark", "rollback_mark"})

\* a dequeue has taken the slots of a run that is still marked queued
SlotsTaken(r) == Taking(r, {"dq_reserve", "dq_undo", "dq_soft", "restore_slot", "dq_mark"})

Occupies(r) == (status[r] = "accepted" /\ ~SlotsFreed(r)) \/ SlotsTaken(r)

SlotsOfAll(S) == UNION {{r} \X (1..SlotsOf[r]) : r \in S}

OccupiedSlots(s) == Cardinality(SlotsOfAll({r \in Runs : SessionOf[r] = s /\ Occupies(r)}))

\* The counter of a session is the number of slots its runs occupy: through rollbacks,
\* restores, repeated ends and sweeps, no method leaks a slot or frees one twice, which
\* adjust_active would hide by its clamp at 0.  It is a property of one thread, or of threads
\* under the reject policy that end each run once: two ends of one run that overlap both pass
\* the status check of release or mark_failed and free the slots twice.
Accounting == \A s \in Sessions : active[s] = OccupiedSlots(s)

\* The half of Accounting that overlapping dequeues leave standing: they may count a run
\* twice and leak its slots, but a slot in use is never counted as free.
NeverUndercounted == \A s \in Sessions : active[s] >= OccupiedSlots(s)

\* what clients may be executing: accepted runs, all the way to their end
Executing(s) == {r \in Runs : SessionOf[r] = s /\ status[r] = "accepted" /\ ~SlotsFreed(r)}

\* The accepted runs of a session never need more slots than max_parallel_per_session,
\* whatever the counter says.
LoadWithinCap == \A s \in Sessions : Cardinality(SlotsOfAll(Executing(s))) <= Cap

\* The check inside atomic_accept_run and the absolute write-backs of the rollback paths
\* keep the counter itself within the cap, under every interleaving.
ActiveWithinCap == \A s \in Sessions : active[s] <= Cap

\* the limit of a resource; of one without a limit nothing is ever reserved
Ceiling(te, res) == IF res \in Limited[te] THEN Quota[te][res] ELSE 0

\* try_reserve_quota never lets the reserved amount of a resource pass its limit.
QuotaWithinLimit ==
    \A te \in Tenants : \A res \in Resources : usage[te][res] <= Ceiling(te, res)

\* r holds a max_parallel reservation: from the accept that reserved it to the
\* release_quota of whichever call ends it, or of a rollback
HoldsQuota(r) ==
    \/ status[r] = "accepted" /\ ~Pending(r)
    \/ At(r, {"fail", "sweep"}, {"fail_quota"})
    \/ At(r, {"release"}, Labels \ {"idle", "release_slot", "release_mark"})
    \/ \E t \in Threads : /\ "max_parallel" \in held[t]
                          /\ \/ run[t] = r /\ Pending(r)
                             \/ cur[t] = r /\ pc[t] \in DequeueLabels \ {"dispatch"}

\* What a tenant has reserved of max_parallel is what its runs hold: the release of a run,
\* its failure, a sweep, a rollback and an undone dequeue each give it back exactly once.
QuotaAccounting ==
    \A te \in Tenants : "max_parallel" \in Limited[te] =>
        usage[te]["max_parallel"] =
            Cardinality(SlotsOfAll({r \in Runs : TenantOf[r] = te /\ HoldsQuota(r)}))

\* A rejected submission leaves no run behind that is live, holds a slot or was ever handed
\* to a client (the docstring of _rollback_accept: no ghost run).
RejectedLeavesNothing ==
    \A r \in Runs : reply[r] = "rejected" =>
        status[r] \in {"none", "failed"} /\ r \notin known /\ dispatches[r] = 0

\* An idempotency key has one live run in its session, so a retried submit cannot run the
\* same work twice.
OneLiveRunPerKey == \A r, q \in Runs : r # q /\ SameKey(r, q) => ~(Live(r) /\ Live(q))

\* done and failed are final: no dequeue, rollback or write of a run brings it back.  It is a
\* property of one thread; with more, _try_dequeue may write its copy of a run that another
\* thread has ended since.
TerminalIsFinal ==
    [][\A r \in Runs : status[r] \in {"done", "failed"} => status'[r] = status[r]]_vars

\* No run is accepted while an older one of its session waits in the queue.  It is a property
\* of one thread; with more, a submit between the release of the slots and the dequeue that
\* follows it takes them, since submit does not look at the queue.
NoOvertaking ==
    [][\A r, q \in Runs :
           /\ status[r] \in {"none", "queued"} /\ status'[r] = "accepted"
           /\ status[q] = "queued" /\ q # r /\ SessionOf[q] = SessionOf[r]
           => status[r] = "queued" /\ created[r] < created[q]]_vars

Quiet == \A t \in Threads : pc[t] = "idle"

\* Between calls, a run waits only while some other run of its session holds a slot, so there
\* is an end to come that will look at the queue again.
SomeoneWillDequeue ==
    Quiet => \A r \in Runs : status[r] = "queued" => active[SessionOf[r]] > 0

\* Every queued run is eventually accepted (or cancelled).
QueuedRunsLeave == \A r \in Runs : status[r] = "queued" ~> status[r] # "queued"

\* A run whose client stopped sending heartbeats does not keep its slots for good.
ZombiesLeave == \A r \in Runs : r \in Zombies ~> r \notin Zombies

\* What has become of a submission, seen from outside
Outcome(r) ==
    CASE reply[r] \in {"rejected", "replay"}               -> "refused"
      [] reply[r] \notin {"rejected", "replay"} /\ Pending(r) -> "new"
      [] OTHER -> CASE status[r] = "none"   -> "new"
                    [] status[r] = "queued" -> "queued"
                    [] status[r] = "accepted" /\ ~SlotsFreed(r) -> "running"
                    [] OTHER -> "ended"

Pool == INSTANCE Admission WITH
    outcome  <- [r \in Runs |-> Outcome(r)],
    position <- [r \in Runs |-> IF status[r] = "none" THEN 0 ELSE created[r]]

\* Counters, locks and rollbacks included, the scheduler admits, queues and ends runs the
\* way Admission allows.
ImplementsAdmission == Pool!Spec
=============================================================================
