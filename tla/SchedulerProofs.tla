--------------------------- MODULE SchedulerProofs ---------------------------
(***************************************************************************)
(* Theorems about Scheduler, for every value of its constants.  The first    *)
(* part needs nothing else.  The second is about slots, under Simple, the    *)
(* third about concurrency_policy "reject", under Rejecting; both for any     *)
(* number of threads.  For one thread see SchedulerLoneProofs.               *)
(***************************************************************************)
EXTENDS Scheduler, FiniteSetTheorems, TLAPS

-----------------------------------------------------------------------------
(* The effects of the backend calls on the types of what they write.        *)

LEMMA RunConstants ==
  ASSUME NEW r \in Runs
  PROVE  SessionOf[r] \in Sessions /\ SlotsOf[r] \in Nat \ {0} /\ TenantOf[r] \in Tenants \cup {NoTenant}
  BY RunsAssumption DEF RunsAssumption

LEMMA SetActiveType ==
  ASSUME active \in [Sessions -> Nat], NEW s, NEW n \in Int, SetActive(s, n)
  PROVE  active' \in [Sessions -> Nat]
<1>1. NonNegative(n) \in Nat BY DEF NonNegative
<1> QED BY <1>1 DEF SetActive

LEMMA FreeSlotsType ==
  ASSUME RecordsOK, NEW r \in Runs, FreeSlots(r)
  PROVE  active' \in [Sessions -> Nat]
<1>1. active[SessionOf[r]] - SlotsOf[r] \in Int BY RunConstants DEF RecordsOK
<1> QED BY <1>1, SetActiveType DEF FreeSlots, RecordsOK

LEMMA WriteBackType ==
  ASSUME RecordsOK, LocalsOK, NEW t \in Threads, NEW r \in Runs, WriteBack(t, r)
  PROVE  active' \in [Sessions -> Nat]
<1>1. after[t] - SlotsOf[r] \in Int BY RunConstants DEF LocalsOK
<1> QED BY <1>1, SetActiveType DEF WriteBack, RecordsOK

LEMMA TakeSlotsType ==
  ASSUME RecordsOK, LocalsOK, NEW t \in Threads, NEW r \in Runs, TakeSlots(t, r)
  PROVE  /\ active' \in [Sessions -> Nat]
         /\ after' \in [Threads -> Nat]
         /\ beat' \in [Runs -> {"none", "fresh", "stale"}]
<1>1. active[SessionOf[r]] + SlotsOf[r] \in Nat BY RunConstants DEF RecordsOK
<1>2. active' \in [Sessions -> Nat] BY <1>1, SetActiveType DEF TakeSlots, RecordsOK
<1> QED BY <1>1, <1>2 DEF TakeSlots, RecordsOK, LocalsOK

LEMMA MarkStatusType ==
  ASSUME RecordsOK, NEW r \in Runs, NEW st \in Statuses, MarkStatus(r, st)
  PROVE  /\ status' \in [Runs -> Statuses]
         /\ beat' \in [Runs -> {"none", "fresh", "stale"}]
  BY DEF MarkStatus, RecordsOK

LEMMA AmountType ==
  ASSUME NEW r \in Runs, NEW res \in Resources
  PROVE  Amount(r, res) \in Nat
  BY RunConstants DEF Amount

\* what an update of one counter of one tenant does; a tenant that is not registered
\* has no counter to update
LEMMA UsageType ==
  ASSUME TenantsOK, NEW te, NEW res \in Resources, NEW n,
         te \in Tenants => n \in Nat, usage' = [usage EXCEPT ![te][res] = n]
  PROVE  usage' \in [Tenants -> [Resources -> Nat]]
<1>1. usage \in [Tenants -> [Resources -> Nat]] BY DEF TenantsOK
<1>2. CASE te \in Tenants
  <2>1. [usage[te] EXCEPT ![res] = n] \in [Resources -> Nat] BY <1>1, <1>2
  <2> QED BY <1>1, <1>2, <2>1
<1>3. CASE te \notin Tenants
  BY <1>1, <1>3
<1> QED BY <1>2, <1>3

LEMMA ReserveType ==
  ASSUME TenantsOK, NEW te, NEW res \in Resources, NEW n \in Nat, Reserve(te, res, n)
  PROVE  usage' \in [Tenants -> [Resources -> Nat]]
<1>1. te \in Tenants => usage[te][res] + n \in Nat BY DEF TenantsOK
<1> QED BY <1>1, UsageType DEF Reserve

LEMMA UnreserveType ==
  ASSUME TenantsOK, NEW te, NEW res \in Resources, NEW n \in Nat, Unreserve(te, res, n)
  PROVE  usage' \in [Tenants -> [Resources -> Nat]]
<1>1. te \in Tenants => NonNegative(usage[te][res] - n) \in Nat BY DEF TenantsOK, NonNegative
<1> QED BY <1>1, UsageType DEF Unreserve

LEMMA FirstOfType == ASSUME NEW S PROVE FirstOf(S) \in Resources
  BY DEF FirstOf, Resources

LEMMA TryReserveType ==
  ASSUME TenantsOK, LocalsOK, ControlOK, NEW t \in Threads, NEW r \in Runs,
         NEW reserved \in Labels, NEW refused \in Labels, TryReserve(t, r, reserved, refused)
  PROVE  /\ usage' \in [Tenants -> [Resources -> Nat]]
         /\ held' \in [Threads -> SUBSET Resources]
         /\ pc' = pc \/ pc' = [pc EXCEPT ![t] = reserved] \/ pc' = [pc EXCEPT ![t] = refused]
<1> DEFINE res == FirstOf(Limited[TenantOf[r]] \ held[t])
<1>1. res \in Resources BY FirstOfType
<1>2. Amount(r, res) \in Nat BY <1>1, AmountType
<1>3. CASE /\ Reserve(TenantOf[r], res, Amount(r, res))
           /\ held' = [held EXCEPT ![t] = @ \cup {res}] /\ UNCHANGED pc
  <2>1. usage' \in [Tenants -> [Resources -> Nat]]
    <3> HIDE DEF res
    <3> QED BY <1>1, <1>2, <1>3, ReserveType
  <2> QED BY <2>1, <1>1, <1>3 DEF LocalsOK
<1>4. CASE /\ UNCHANGED <<usage, held>>
           /\ Goto(t, reserved) \/ Goto(t, refused)
  BY <1>4 DEF Goto, TenantsOK, LocalsOK
<1> QED BY <1>3, <1>4 DEF TryReserve

LEMMA ReleaseOneType ==
  ASSUME TenantsOK, LocalsOK, NEW t \in Threads, NEW r \in Runs, ReleaseOne(t, r)
  PROVE  /\ usage' \in [Tenants -> [Resources -> Nat]]
         /\ held' \in [Threads -> SUBSET Resources]
<1> DEFINE res == FirstOf(held[t])
<1>1. res \in Resources BY FirstOfType
<1>2. Amount(r, res) \in Nat BY <1>1, AmountType
<1>3. Unreserve(TenantOf[r], res, Amount(r, res)) BY DEF ReleaseOne
<1>4. usage' \in [Tenants -> [Resources -> Nat]]
  <2> HIDE DEF res
  <2> QED BY <1>1, <1>2, <1>3, UnreserveType
<1> QED BY <1>4 DEF ReleaseOne, LocalsOK

LEMMA TypeInit == Init => TypeOK
<1> SUFFICES ASSUME Init PROVE TypeOK
  OBVIOUS
<1> USE DEF Init
<1>1. RecordsOK BY DEF RecordsOK, Statuses
<1>2. TenantsOK BY DEF TenantsOK
<1>3. ControlOK BY DEF ControlOK, Labels, Ops, DequeueLabels
<1>4. LocalsOK BY DEF LocalsOK
<1>5. ClientsOK BY DEF ClientsOK, Replies
<1> QED BY <1>1, <1>2, <1>3, <1>4, <1>5 DEF TypeOK

\* the runs a thread works on
LEMMA RunAt ==
  ASSUME ControlOK, NEW t \in Threads
  PROVE  /\ pc[t] \notin {"idle", "sweep"} => run[t] \in Runs
         /\ pc[t] \in DequeueLabels => cur[t] \in Runs
  BY DEF ControlOK

LEMMA RecordsStep ==
  ASSUME TypeOK, [Next]_vars
  PROVE  RecordsOK'
<1> USE DEF TypeOK
<1>1. CASE UNCHANGED vars
  BY <1>1 DEF vars, recordVars, RecordsOK
<1>2. CASE World
  BY <1>2 DEF World, Rollover, Heartbeat, BeatLapses, SpendTokens, recordVars, RecordsOK
<1>3. ASSUME NEW t \in Threads, Start(t) PROVE RecordsOK'
  <2>1. UNCHANGED recordVars
    BY <1>3 DEF Start, Submit, Release, MarkFailed, ClientEnds, Sweep
  <2> QED BY <2>1 DEF recordVars, RecordsOK
<1>4. ASSUME NEW t \in Threads, Continue(t) PROVE RecordsOK'
  <2> USE RunAt DEF DequeueLabels
  <2>1. CASE Accept(t)
    <3>1. run[t] \in Runs BY <2>1 DEF Accept
    <3>2. CASE Fits(run[t])
      BY <2>1, <3>1, <3>2, TakeSlotsType DEF Accept, RecordsOK, Statuses
    <3>3. CASE ~Fits(run[t])
      BY <2>1, <3>1, <3>3 DEF Accept, RecordsOK, recordVars
    <3> QED BY <3>2, <3>3
  <2>2. CASE SaveQueued(t)
    BY <2>2 DEF SaveQueued, RecordsOK, Statuses
  <2>3. CASE RollbackSlot(t) \/ RestoreSlot(t)
    BY <2>3, WriteBackType DEF RollbackSlot, RestoreSlot, RecordsOK
  <2>4. CASE ReleaseSlot(t) \/ FailSlot(t)
    BY <2>4, FreeSlotsType DEF ReleaseSlot, FailSlot, RecordsOK
  <2>5. CASE RollbackMark(t) \/ RestoreMark(t) \/ DequeueMark(t) \/ ReleaseMark(t) \/ FailMark(t)
    BY <2>5, MarkStatusType DEF RollbackMark, RestoreMark, DequeueMark, ReleaseMark, FailMark,
         RecordsOK, Statuses
  <2>6. CASE Take(t)
    BY <2>6, TakeSlotsType DEF Take, RecordsOK
  <2>7. CASE Clobber(t)
    BY <2>7 DEF Clobber, RecordsOK, Statuses
  <2>8. CASE Dispatch(t)
    BY <2>8 DEF Dispatch, RecordsOK
  <2>9. CASE UNCHANGED recordVars
    BY <2>9 DEF recordVars, RecordsOK
  <2> QED
    BY <1>4, <2>1, <2>2, <2>3, <2>4, <2>5, <2>6, <2>7, <2>8, <2>9
       DEF Continue, ReserveQuotas, CheckSoftQuotas, RollbackQuota, Confirm, ListQueued, GetHead,
           DequeueReserve, DequeueUndo, DequeueSoft, RestoreQuota, ReleaseQuota, FailQuota,
           SweepNext, SweepFails
<1> QED BY <1>1, <1>2, <1>3, <1>4 DEF Next

LEMMA TenantsStep ==
  ASSUME TypeOK, [Next]_vars
  PROVE  TenantsOK'
<1> USE DEF TypeOK
<1>1. CASE UNCHANGED vars
  BY <1>1 DEF vars, tenantVars, TenantsOK
<1>2. CASE World
  <2>1. CASE Rollover
    BY <2>1 DEF Rollover, TenantsOK, Resources
  <2> QED BY <1>2, <2>1 DEF World, Heartbeat, BeatLapses, SpendTokens, tenantVars, TenantsOK
<1>3. ASSUME NEW t \in Threads, Start(t) PROVE TenantsOK'
  <2>1. UNCHANGED tenantVars
    BY <1>3 DEF Start, Submit, Release, MarkFailed, ClientEnds, Sweep
  <2> QED BY <2>1 DEF tenantVars, TenantsOK
<1>4. ASSUME NEW t \in Threads, Continue(t) PROVE TenantsOK'
  <2>1. CASE ReserveQuotas(t) \/ DequeueReserve(t)
    <3>1. PICK r \in Runs, reserved \in Labels, refused \in Labels : TryReserve(t, r, reserved, refused)
      BY <2>1, RunAt DEF ReserveQuotas, DequeueReserve, DequeueLabels, Labels
    <3> QED BY <2>1, <3>1, TryReserveType DEF ReserveQuotas, DequeueReserve, TenantsOK
  <2>2. CASE RollbackQuota(t) \/ DequeueUndo(t) \/ RestoreQuota(t)
    BY <2>2, RunAt, ReleaseOneType DEF RollbackQuota, DequeueUndo, RestoreQuota, DequeueLabels, TenantsOK
  <2>3. CASE ReleaseQuota(t) \/ FailQuota(t)
    BY <2>3, RunAt, RunConstants, UnreserveType DEF ReleaseQuota, FailQuota, TenantsOK, Resources
  <2>4. CASE UNCHANGED tenantVars
    BY <2>4 DEF tenantVars, TenantsOK
  <2> QED
    BY <1>4, <2>1, <2>2, <2>3, <2>4
       DEF Continue, Accept, CheckSoftQuotas, RollbackSlot, RollbackMark, SaveQueued, Confirm,
           ListQueued, GetHead, Take, Clobber, DequeueSoft, RestoreSlot, RestoreMark, DequeueMark,
           Dispatch, ReleaseSlot, ReleaseMark, FailSlot, FailMark, SweepNext, SweepFails
<1> QED BY <1>1, <1>2, <1>3, <1>4 DEF Next

\* Control moves of one thread: where it goes, it has the runs that it needs there.
LEMMA ControlUpdate ==
  ASSUME ControlOK, NEW t \in Threads, NEW l \in Labels, NEW o \in Ops,
         NEW r \in Runs \cup {NoRun}, NEW q \in Runs \cup {NoRun},
         l \notin {"idle", "sweep"} => r \in Runs,
         l \in DequeueLabels => q \in Runs,
         pc' = [pc EXCEPT ![t] = l], op' = [op EXCEPT ![t] = o],
         run' = [run EXCEPT ![t] = r], cur' = [cur EXCEPT ![t] = q]
  PROVE  ControlOK'
<1>1. pc' \in [Threads -> Labels] /\ op' \in [Threads -> Ops]
  BY DEF ControlOK
<1>2. run' \in [Threads -> Runs \cup {NoRun}] /\ cur' \in [Threads -> Runs \cup {NoRun}]
  BY DEF ControlOK
<1>3. ASSUME NEW u \in Threads
      PROVE  /\ pc'[u] \notin {"idle", "sweep"} => run'[u] \in Runs
             /\ pc'[u] \in DequeueLabels => cur'[u] \in Runs
  BY RunAt DEF ControlOK
<1> QED BY <1>1, <1>2, <1>3 DEF ControlOK

LEMMA GotoControl ==
  ASSUME ControlOK, NEW t \in Threads, NEW l \in Labels, Goto(t, l), UNCHANGED <<op, run, cur>>,
         l \notin {"idle", "sweep"} => run[t] \in Runs,
         l \in DequeueLabels => cur[t] \in Runs
  PROVE  ControlOK'
<1>1. ASSUME NEW u \in Threads
      PROVE  /\ pc'[u] \notin {"idle", "sweep"} => run'[u] \in Runs
             /\ pc'[u] \in DequeueLabels => cur'[u] \in Runs
  BY RunAt DEF ControlOK, Goto
<1> QED BY <1>1 DEF ControlOK, Goto

LEMMA CallControl ==
  ASSUME ControlOK, NEW t \in Threads, NEW o \in Ops, NEW r \in Runs \cup {NoRun}, NEW l \in Labels,
         Call(t, o, r, l), UNCHANGED cur,
         l \notin {"idle", "sweep"} => r \in Runs, l \notin DequeueLabels
  PROVE  ControlOK'
<1>1. cur[t] \in Runs \cup {NoRun} /\ cur' = [cur EXCEPT ![t] = cur[t]]
  BY DEF ControlOK
<1> QED BY <1>1, ControlUpdate DEF Call, Goto

LEMMA LeaveControl ==
  ASSUME ControlOK, NEW t \in Threads, Leave(t), UNCHANGED cur
  PROVE  ControlOK'
<1>1. Call(t, "none", NoRun, "idle") BY DEF Leave, Call
<1> QED BY <1>1, CallControl DEF Ops, Labels, DequeueLabels

LEMMA DequeueReturnsType ==
  ASSUME TypeOK, NEW t \in Threads, run[t] \in Runs, NEW told \in SUBSET Runs, DequeueReturns(t, told)
  PROVE  /\ ControlOK'
         /\ after' \in [Threads -> Nat] /\ held' \in [Threads -> SUBSET Resources]
         /\ queue' \in [Threads -> SUBSET Runs]
         /\ reply' \in [Runs -> Replies] /\ known' \subseteq Runs
<1> DEFINE next == CASE op[t] = "enqueue" -> "confirm"
                     [] op[t] = "release" /\ TenantOf[run[t]] # NoTenant -> "release_quota"
                     [] op[t] = "sweep" -> "sweep"
                     [] OTHER -> "idle"
<1>0. next \in {"confirm", "release_quota", "sweep", "idle"}
  OBVIOUS
<1>1. /\ Goto(t, next)
      /\ op' = [op EXCEPT ![t] = IF next = "idle" THEN "none" ELSE @]
      /\ run' = [run EXCEPT ![t] = IF next \in {"idle", "sweep"} THEN NoRun ELSE @]
  BY DEF DequeueReturns
<1> HIDE DEF next
<1>2. cur' = [cur EXCEPT ![t] = NoRun] BY DEF DequeueReturns
<1>3. ControlOK'
  <2> DEFINE o == IF next = "idle" THEN "none" ELSE op[t]
             r == IF next \in {"idle", "sweep"} THEN NoRun ELSE run[t]
  <2>1. /\ o \in Ops /\ r \in Runs \cup {NoRun}
        /\ op' = [op EXCEPT ![t] = o] /\ run' = [run EXCEPT ![t] = r]
        /\ next \notin {"idle", "sweep"} => r \in Runs
    BY <1>1 DEF TypeOK, ControlOK, Ops
  <2>2. next \in Labels /\ next \notin DequeueLabels BY <1>0 DEF Labels, DequeueLabels
  <2> HIDE DEF o, r
  <2> QED BY <1>1, <1>2, <2>1, <2>2, ControlUpdate DEF TypeOK, Goto
<1>4. /\ after' \in [Threads -> Nat] /\ held' \in [Threads -> SUBSET Resources]
      /\ queue' \in [Threads -> SUBSET Runs]
  BY DEF DequeueReturns, TypeOK, LocalsOK
<1>5. reply' \in [Runs -> Replies] /\ known' \subseteq Runs
  BY DEF DequeueReturns, TypeOK, ClientsOK, Replies
<1> QED BY <1>3, <1>4, <1>5

LEMMA ControlStep ==
  ASSUME TypeOK, [Next]_vars
  PROVE  ControlOK'
<1> USE DEF TypeOK
<1>1. CASE UNCHANGED vars
  BY <1>1 DEF vars, localVars, ControlOK
<1>2. CASE World
  BY <1>2 DEF World, Rollover, Heartbeat, BeatLapses, SpendTokens, localVars, ControlOK
<1>3. ASSUME NEW t \in Threads, Start(t) PROVE ControlOK'
  <2> USE DEF Ops, Labels, DequeueLabels
  <2>1. ASSUME NEW r \in Runs, Submit(t, r) PROVE ControlOK'
    <3>1. CASE Call(t, "submit", r, "accept")
      BY <2>1, <3>1, CallControl DEF Submit, localVars
    <3>2. CASE UNCHANGED <<pc, op, run>>
      BY <2>1, <3>2 DEF Submit, localVars, ControlOK
    <3> QED BY <2>1, <3>1, <3>2 DEF Submit, Call
  <2>2. ASSUME NEW r \in Runs, Release(t, r) PROVE ControlOK'
    BY <2>2, CallControl DEF Release, ClientEnds, localVars
  <2>3. ASSUME NEW r \in Runs, MarkFailed(t, r) PROVE ControlOK'
    <3>1. FailLabel(r) \in {"fail_slot", "cancel_mark"} BY DEF FailLabel
    <3> QED BY <2>3, <3>1, CallControl DEF MarkFailed, ClientEnds, localVars
  <2>4. ASSUME Sweep(t) PROVE ControlOK'
    BY <2>4, CallControl DEF Sweep
  <2> QED BY <1>3, <2>1, <2>2, <2>3, <2>4 DEF Start
<1>4. ASSUME NEW t \in Threads, Continue(t) PROVE ControlOK'
  <2>1. CASE Accept(t)
    <3>1. run[t] \in Runs BY <2>1, RunAt DEF Accept
    <3>2. CASE Leave(t) BY <2>1, <3>2, LeaveControl DEF Accept
    <3>3. CASE Goto(t, "save") /\ op' = [op EXCEPT ![t] = "enqueue"] /\ UNCHANGED run
      <4>1. Call(t, "enqueue", run[t], "save") BY <3>3 DEF Call, ControlOK
      <4> QED BY <2>1, <3>1, <4>1, CallControl DEF Accept, Ops, Labels, DequeueLabels
    <3>4. ASSUME NEW l \in {"list", "reserve"}, Goto(t, l), UNCHANGED <<op, run>> PROVE ControlOK'
      BY <2>1, <3>1, <3>4, GotoControl DEF Accept, Labels, DequeueLabels
    <3> QED BY <2>1, <3>2, <3>3, <3>4 DEF Accept
  <2>2. CASE ReserveQuotas(t) \/ DequeueReserve(t)
    <3>1. /\ run[t] \in Runs /\ UNCHANGED <<op, run, cur>>
          /\ pc[t] = "dq_reserve" => cur[t] \in Runs
      BY <2>2, RunAt DEF ReserveQuotas, DequeueReserve, DequeueLabels
    <3>2. \/ UNCHANGED pc
          \/ \E l \in Labels : Goto(t, l) /\ l \notin DequeueLabels
          \/ \E l \in Labels : Goto(t, l) /\ pc[t] = "dq_reserve"
      BY <2>2 DEF ReserveQuotas, DequeueReserve, TryReserve, Labels, DequeueLabels
    <3> QED BY <3>1, <3>2, GotoControl DEF ControlOK
  <2>3. CASE RollbackQuota(t) \/ Confirm(t) \/ ReleaseQuota(t)
    <3>1. CASE Leave(t) /\ UNCHANGED cur BY <3>1, LeaveControl
    <3>2. CASE UNCHANGED <<pc, op, run, cur>> BY <3>2 DEF ControlOK
    <3> QED BY <2>3, <3>1, <3>2 DEF RollbackQuota, Confirm, ReleaseQuota, localVars
  <2>4. CASE CheckSoftQuotas(t) \/ RollbackSlot(t) \/ RollbackMark(t) \/ SaveQueued(t) \/ ReleaseSlot(t)
             \/ ReleaseMark(t) \/ FailSlot(t) \/ FailMark(t) \/ FailQuota(t)
    <3>1. /\ run[t] \in Runs /\ UNCHANGED <<op, run, cur>>
          /\ \E l \in Labels \ DequeueLabels : Goto(t, l)
      BY <2>4, RunAt DEF CheckSoftQuotas, RollbackSlot, RollbackMark, SaveQueued, ReleaseSlot,
           ReleaseMark, FailSlot, FailMark, FailQuota, Labels, DequeueLabels, localVars
    <3> QED BY <3>1, GotoControl
  <2>5. CASE ListQueued(t)
    <3>1. run[t] \in Runs BY <2>5, RunAt DEF ListQueued
    <3>2. CASE DequeueReturns(t, {}) BY <3>1, <3>2, DequeueReturnsType
    <3>3. CASE Goto(t, "get") /\ UNCHANGED <<op, run, cur>>
      BY <3>1, <3>3, GotoControl DEF Labels, DequeueLabels
    <3> QED BY <2>5, <3>2, <3>3 DEF ListQueued
  <2>6. CASE GetHead(t)
    <3>1. run[t] \in Runs BY <2>6, RunAt DEF GetHead
    <3>2. CASE DequeueReturns(t, {}) BY <3>1, <3>2, DequeueReturnsType
    <3>3. CASE UNCHANGED <<pc, op, run, cur>> BY <3>3 DEF ControlOK
    <3>4. ASSUME NEW q \in Runs, cur' = [cur EXCEPT ![t] = q], Goto(t, "take"), UNCHANGED <<op, run>>
          PROVE  ControlOK'
      <4>1. /\ op[t] \in Ops /\ run[t] \in Runs \cup {NoRun}
            /\ op' = [op EXCEPT ![t] = op[t]] /\ run' = [run EXCEPT ![t] = run[t]]
        BY <3>4 DEF ControlOK
      <4> QED BY <3>1, <3>4, <4>1, ControlUpdate DEF Goto, Labels
    <3>5. queue[t] \in SUBSET Runs BY DEF LocalsOK
    <3> QED BY <2>6, <3>2, <3>3, <3>4, <3>5 DEF GetHead
  <2>7. CASE \/ Take(t) \/ DequeueUndo(t) \/ DequeueSoft(t)
             \/ RestoreSlot(t) \/ RestoreMark(t) \/ DequeueMark(t)
    <3>1. /\ run[t] \in Runs /\ cur[t] \in Runs /\ UNCHANGED <<op, run, cur>>
          /\ UNCHANGED pc \/ \E l \in Labels : Goto(t, l)
      BY <2>7, RunAt DEF Take, DequeueUndo, DequeueSoft, RestoreSlot, RestoreMark, DequeueMark,
           Labels, DequeueLabels, localVars
    <3> QED BY <3>1, GotoControl DEF ControlOK
  <2>8. CASE Clobber(t) \/ RestoreQuota(t) \/ Dispatch(t)
    <3>1. run[t] \in Runs /\ cur[t] \in Runs
      BY <2>8, RunAt DEF Clobber, RestoreQuota, Dispatch, DequeueLabels
    <3>2. ASSUME NEW told \in SUBSET Runs, DequeueReturns(t, told) PROVE ControlOK'
      BY <3>1, <3>2, DequeueReturnsType
    <3>3. CASE UNCHANGED <<pc, op, run, cur>> BY <3>3 DEF ControlOK
    <3> QED BY <2>8, <3>1, <3>2, <3>3 DEF Clobber, RestoreQuota, Dispatch
  <2>9. CASE SweepNext(t)
    <3>1. ASSUME NEW r \in Runs, Call(t, "sweep", r, "fail_get"), UNCHANGED cur PROVE ControlOK'
      BY <3>1, CallControl DEF Ops, Labels, DequeueLabels
    <3>2. CASE Leave(t) /\ UNCHANGED cur BY <3>2, LeaveControl
    <3>3. CASE UNCHANGED <<pc, op, run, cur>> BY <3>3 DEF ControlOK
    <3>4. zombies[t] \in SUBSET Runs BY DEF LocalsOK
    <3> QED BY <2>9, <3>1, <3>2, <3>3, <3>4 DEF SweepNext
  <2>10. CASE SweepFails(t)
    <3>1. run[t] \in Runs BY <2>10, RunAt DEF SweepFails
    <3>2. FailLabel(run[t]) \in Labels \ DequeueLabels BY DEF FailLabel, Labels, DequeueLabels
    <3>3. CASE Goto(t, "sweep") /\ run' = [run EXCEPT ![t] = NoRun] /\ UNCHANGED <<op, cur>>
      <4>1. Call(t, op[t], NoRun, "sweep") BY <3>3 DEF Call, ControlOK
      <4>2. op[t] \in Ops BY DEF ControlOK
      <4> QED BY <3>3, <4>1, <4>2, CallControl DEF Labels, DequeueLabels
    <3>4. CASE Goto(t, FailLabel(run[t])) /\ UNCHANGED <<op, run, cur>>
      BY <3>1, <3>2, <3>4, GotoControl
    <3> QED BY <2>10, <3>3, <3>4 DEF SweepFails, localVars
  <2> QED
    BY <1>4, <2>1, <2>2, <2>3, <2>4, <2>5, <2>6, <2>7, <2>8, <2>9, <2>10 DEF Continue
<1> QED BY <1>1, <1>2, <1>3, <1>4 DEF Next

LEMMA LocalsStep ==
  ASSUME TypeOK, [Next]_vars
  PROVE  LocalsOK'
<1> USE DEF TypeOK
<1>1. CASE UNCHANGED vars
  BY <1>1 DEF vars, localVars, LocalsOK
<1>2. CASE World
  BY <1>2 DEF World, Rollover, Heartbeat, BeatLapses, SpendTokens, localVars, LocalsOK
<1>3. ASSUME NEW t \in Threads, Start(t) PROVE LocalsOK'
  <2>1. CASE UNCHANGED localVars
    BY <2>1 DEF localVars, LocalsOK
  <2>2. CASE Sweep(t)
    <3>1. Zombies \in SUBSET Runs BY DEF Zombies
    <3> QED BY <2>2, <3>1 DEF Sweep, LocalsOK
  <2> QED BY <1>3, <2>1, <2>2 DEF Start, Submit, Release, MarkFailed, ClientEnds
<1>4. ASSUME NEW t \in Threads, Continue(t) PROVE LocalsOK'
  <2>1. CASE Accept(t)
    <3>1. run[t] \in Runs BY <2>1, RunAt DEF Accept
    <3>2. after' \in [Threads -> Nat]
      BY <2>1, <3>1, TakeSlotsType DEF Accept, LocalsOK
    <3> QED BY <2>1, <3>2 DEF Accept, LocalsOK
  <2>2. CASE ReserveQuotas(t) \/ DequeueReserve(t)
    <3>1. PICK r \in Runs, reserved \in Labels, refused \in Labels : TryReserve(t, r, reserved, refused)
      BY <2>2, RunAt DEF ReserveQuotas, DequeueReserve, DequeueLabels, Labels
    <3>2. held' \in [Threads -> SUBSET Resources] BY <3>1, TryReserveType
    <3> QED BY <2>2, <3>2 DEF ReserveQuotas, DequeueReserve, LocalsOK
  <2>3. CASE RollbackQuota(t) \/ DequeueUndo(t)
    <3>1. PICK r \in Runs : ReleaseOne(t, r) \/ UNCHANGED held
      BY <2>3, RunAt DEF RollbackQuota, DequeueUndo, DequeueLabels
    <3>2. held' \in [Threads -> SUBSET Resources] BY <3>1, ReleaseOneType DEF LocalsOK
    <3>3. after' \in [Threads -> Nat] BY <2>3 DEF RollbackQuota, DequeueUndo, LocalsOK
    <3> QED BY <2>3, <3>2, <3>3 DEF RollbackQuota, DequeueUndo, LocalsOK
  <2>4. CASE Take(t)
    <3>1. cur[t] \in Runs BY <2>4, RunAt DEF Take, DequeueLabels
    <3>2. after' \in [Threads -> Nat] BY <2>4, <3>1, TakeSlotsType DEF Take, LocalsOK
    <3> QED BY <2>4, <3>2 DEF Take, LocalsOK
  <2>5. CASE ListQueued(t)
    <3>1. run[t] \in Runs BY <2>5, RunAt DEF ListQueued
    <3>2. CASE DequeueReturns(t, {})
      BY <2>5, <3>1, <3>2, DequeueReturnsType DEF ListQueued, LocalsOK
    <3>3. QueuedFor(run[t]) \in SUBSET Runs BY DEF QueuedFor
    <3> QED BY <2>5, <3>2, <3>3 DEF ListQueued, LocalsOK
  <2>6. CASE GetHead(t)
    <3>1. run[t] \in Runs BY <2>6, RunAt DEF GetHead
    <3>2. CASE DequeueReturns(t, {})
      BY <2>6, <3>1, <3>2, DequeueReturnsType DEF GetHead, LocalsOK
    <3>3. CASE /\ UNCHANGED <<after, held>>
               /\ \E q \in Runs : queue' = [queue EXCEPT ![t] = @ \ {q}] \/ UNCHANGED queue
      BY <2>6, <3>3 DEF GetHead, LocalsOK
    <3>4. queue[t] \in SUBSET Runs BY DEF LocalsOK
    <3> QED BY <2>6, <3>2, <3>3, <3>4 DEF GetHead
  <2>7. CASE Clobber(t) \/ RestoreQuota(t) \/ Dispatch(t)
    <3>1. run[t] \in Runs /\ cur[t] \in Runs
      BY <2>7, RunAt DEF Clobber, RestoreQuota, Dispatch, DequeueLabels
    <3>2. UNCHANGED zombies BY <2>7 DEF Clobber, RestoreQuota, Dispatch
    <3>3. ASSUME NEW told \in SUBSET Runs, DequeueReturns(t, told) PROVE LocalsOK'
      BY <3>1, <3>2, <3>3, DequeueReturnsType DEF LocalsOK
    <3>4. CASE ReleaseOne(t, cur[t]) /\ UNCHANGED <<after, queue>>
      BY <3>1, <3>2, <3>4, ReleaseOneType DEF LocalsOK
    <3> QED BY <2>7, <3>1, <3>3, <3>4 DEF Clobber, RestoreQuota, Dispatch
  <2>8. CASE SweepNext(t)
    BY <2>8 DEF SweepNext, LocalsOK
  <2>9. CASE UNCHANGED localVars
    BY <2>9 DEF localVars, LocalsOK
  <2> QED
    BY <1>4, <2>1, <2>2, <2>3, <2>4, <2>5, <2>6, <2>7, <2>8, <2>9
       DEF Continue, CheckSoftQuotas, RollbackSlot, RollbackMark, SaveQueued, Confirm, DequeueSoft,
           RestoreSlot, RestoreMark, DequeueMark, ReleaseSlot, ReleaseMark, ReleaseQuota, FailSlot,
           FailMark, FailQuota, SweepFails
<1> QED BY <1>1, <1>2, <1>3, <1>4 DEF Next

LEMMA ClientsStep ==
  ASSUME TypeOK, [Next]_vars
  PROVE  ClientsOK'
<1> USE DEF TypeOK
<1>1. CASE UNCHANGED vars
  BY <1>1 DEF vars, clientVars, envVars, ClientsOK
<1>2. CASE World
  BY <1>2 DEF World, Rollover, Heartbeat, BeatLapses, SpendTokens, clientVars, envVars, ClientsOK
<1>3. ASSUME NEW t \in Threads, Start(t) PROVE ClientsOK'
  <2>1. ASSUME NEW r \in Runs, Submit(t, r) PROVE ClientsOK'
    BY <2>1 DEF Submit, envVars, ClientsOK, Replies
  <2>2. ASSUME NEW r \in Runs, ClientEnds(t, r) PROVE ClientsOK'
    BY <2>2 DEF ClientEnds, envVars, ClientsOK
  <2>3. CASE UNCHANGED <<clientVars, envVars>>
    BY <2>3 DEF clientVars, envVars, ClientsOK
  <2> QED BY <1>3, <2>1, <2>2, <2>3 DEF Start, Release, MarkFailed, Sweep
<1>4. ASSUME NEW t \in Threads, Continue(t) PROVE ClientsOK'
  <2>0. ASSUME NEW answer \in Replies, Answer(t, answer), run[t] \in Runs, UNCHANGED envVars
        PROVE  ClientsOK'
    BY <2>0 DEF Answer, envVars, ClientsOK
  <2>1. CASE UNCHANGED <<clientVars, envVars>>
    BY <2>1 DEF clientVars, envVars, ClientsOK
  <2>2. CASE Accept(t)
    BY <2>0, <2>1, <2>2, RunAt DEF Accept, Replies
  <2>3. CASE RollbackQuota(t)
    BY <2>0, <2>1, <2>3, RunAt DEF RollbackQuota, Replies
  <2>4. CASE Confirm(t)
    BY <2>0, <2>4, RunAt DEF Confirm, Replies
  <2>5. ASSUME NEW told \in SUBSET Runs, DequeueReturns(t, told), run[t] \in Runs,
               UNCHANGED <<ends, envVars>>, dispatches' \in [Runs -> Nat]
        PROVE  ClientsOK'
    BY <2>5, DequeueReturnsType DEF envVars, ClientsOK
  <2>6. CASE ListQueued(t)
    BY <2>5, <2>6, RunAt DEF ListQueued, envVars, ClientsOK
  <2>7. CASE GetHead(t)
    BY <2>5, <2>7, RunAt DEF GetHead, envVars, ClientsOK
  <2>8. CASE Clobber(t) \/ RestoreQuota(t)
    BY <2>5, <2>8, RunAt DEF Clobber, RestoreQuota, envVars, ClientsOK
  <2>9. CASE Dispatch(t)
    <3>1. run[t] \in Runs /\ cur[t] \in Runs BY <2>9, RunAt DEF Dispatch, DequeueLabels
    <3>2. dispatches' \in [Runs -> Nat] BY <2>9, <3>1 DEF Dispatch, ClientsOK
    <3> QED BY <2>5, <2>9, <3>1, <3>2 DEF Dispatch
  <2> QED
    BY <1>4, <2>1, <2>2, <2>3, <2>4, <2>6, <2>7, <2>8, <2>9
       DEF Continue, ReserveQuotas, CheckSoftQuotas, RollbackSlot, RollbackMark, SaveQueued, Take,
           DequeueReserve, DequeueUndo, DequeueSoft, RestoreSlot, RestoreMark, DequeueMark, ReleaseSlot,
           ReleaseMark, ReleaseQuota, FailSlot, FailMark, FailQuota, SweepNext, SweepFails
<1> QED BY <1>1, <1>2, <1>3, <1>4 DEF Next

\* Every reachable state is well typed, and a thread inside a method always has the run
\* that the method is about and, while it dequeues, the run it took from the queue.
THEOREM TypeCorrect == Spec => []TypeOK
<1>1. ASSUME TypeOK, [Next]_vars PROVE TypeOK'
  BY <1>1, RecordsStep, TenantsStep, ControlStep, LocalsStep, ClientsStep DEF TypeOK
<1> QED BY TypeInit, <1>1, PTL DEF Spec

-----------------------------------------------------------------------------
(* The counter stays within the cap.  The rollback paths write it back from   *)
(* what an accept returned, so that must be within the cap as well.          *)

CounterInv == ActiveWithinCap /\ \A t \in Threads : after[t] <= Cap

LEMMA SetActiveCap ==
  ASSUME active \in [Sessions -> Nat], ActiveWithinCap, NEW s, NEW n \in Int, n <= Cap, SetActive(s, n)
  PROVE  ActiveWithinCap'
<1>1. NonNegative(n) <= Cap BY CapAssumption DEF NonNegative, CapAssumption
<1>2. active' = [active EXCEPT ![s] = NonNegative(n)] BY DEF SetActive
<1>3. \A z \in Sessions : active'[z] = active[z] \/ active'[z] = NonNegative(n)
  BY <1>2
<1> QED BY <1>1, <1>3 DEF ActiveWithinCap

LEMMA TakeSlotsCap ==
  ASSUME TypeOK, CounterInv, NEW t \in Threads, NEW r \in Runs, Fits(r), TakeSlots(t, r)
  PROVE  CounterInv'
<1> DEFINE n == active[SessionOf[r]] + SlotsOf[r]
<1>1. n \in Nat /\ n <= Cap
  BY RunConstants DEF Fits, TypeOK, RecordsOK
<1>2. SetActive(SessionOf[r], n) /\ after' = [after EXCEPT ![t] = n] BY DEF TakeSlots
<1> HIDE DEF n
<1>3. ActiveWithinCap' BY <1>1, <1>2, SetActiveCap DEF CounterInv, TypeOK, RecordsOK
<1>4. \A u \in Threads : after'[u] <= Cap BY <1>1, <1>2 DEF CounterInv, TypeOK, LocalsOK
<1> QED BY <1>3, <1>4 DEF CounterInv

LEMMA CounterStep ==
  ASSUME TypeOK, CounterInv, [Next]_vars
  PROVE  CounterInv'
<1> USE DEF TypeOK
<1>0. Cap \in Nat BY CapAssumption DEF CapAssumption
<1>1. CASE UNCHANGED <<active, after>>
  BY <1>1 DEF CounterInv, ActiveWithinCap
<1>2. ASSUME NEW t \in Threads, UNCHANGED active, after' = [after EXCEPT ![t] = 0]
      PROVE  CounterInv'
  BY <1>0, <1>2 DEF CounterInv, ActiveWithinCap, LocalsOK
<1>3. ASSUME NEW t \in Threads, Continue(t) PROVE CounterInv'
  <2>1. CASE Accept(t) \/ Take(t)
    <3>1. PICK r \in Runs : \/ Fits(r) /\ TakeSlots(t, r)
                            \/ UNCHANGED <<active, after>>
      BY <2>1, RunAt DEF Accept, Take, DequeueLabels, recordVars
    <3> QED BY <3>1, <1>1, TakeSlotsCap
  <2>2. CASE RollbackSlot(t) \/ RestoreSlot(t)
    <3>1. PICK r \in Runs : WriteBack(t, r)
      BY <2>2, RunAt DEF RollbackSlot, RestoreSlot, DequeueLabels
    <3>2. after[t] - SlotsOf[r] \in Int /\ after[t] - SlotsOf[r] <= Cap
      BY <1>0, RunConstants DEF CounterInv, LocalsOK
    <3>3. ActiveWithinCap' BY <3>1, <3>2, SetActiveCap DEF WriteBack, CounterInv, RecordsOK
    <3> QED BY <2>2, <3>3 DEF RollbackSlot, RestoreSlot, localVars, CounterInv
  <2>3. CASE ReleaseSlot(t) \/ FailSlot(t)
    <3>1. PICK r \in Runs : FreeSlots(r)
      BY <2>3, RunAt DEF ReleaseSlot, FailSlot
    <3>2. /\ active[SessionOf[r]] - SlotsOf[r] \in Int
          /\ active[SessionOf[r]] - SlotsOf[r] <= Cap
      BY <1>0, RunConstants DEF CounterInv, ActiveWithinCap, RecordsOK
    <3>3. ActiveWithinCap' BY <3>1, <3>2, SetActiveCap DEF FreeSlots, CounterInv, RecordsOK
    <3> QED BY <2>3, <3>3 DEF ReleaseSlot, FailSlot, localVars, CounterInv
  <2>4. CASE RollbackQuota(t)
    BY <2>4, <1>1, <1>2 DEF RollbackQuota, recordVars
  <2>5. CASE ListQueued(t) \/ GetHead(t) \/ Clobber(t) \/ RestoreQuota(t) \/ Dispatch(t)
    <3>1. UNCHANGED active /\ (UNCHANGED after \/ after' = [after EXCEPT ![t] = 0])
      BY <2>5 DEF ListQueued, GetHead, Clobber, RestoreQuota, Dispatch, DequeueReturns, recordVars
    <3> QED BY <3>1, <1>1, <1>2
  <2> QED
    BY <1>1, <1>3, <2>1, <2>2, <2>3, <2>4, <2>5
       DEF Continue, ReserveQuotas, CheckSoftQuotas, RollbackMark, SaveQueued, Confirm,
           DequeueReserve, DequeueUndo, DequeueSoft, RestoreMark, DequeueMark, ReleaseMark,
           ReleaseQuota, FailMark, FailQuota, SweepNext, SweepFails, recordVars, localVars
<1>4. ASSUME NEW t \in Threads, Start(t) PROVE UNCHANGED <<active, after>>
  BY <1>4 DEF Start, Submit, Release, MarkFailed, ClientEnds, Sweep, recordVars, localVars
<1>5. CASE World
  BY <1>1, <1>5 DEF World, Rollover, Heartbeat, BeatLapses, SpendTokens, recordVars, localVars
<1> QED BY <1>1, <1>3, <1>4, <1>5 DEF Next, vars, recordVars, localVars

\* Under every interleaving of every number of threads, sweeps and rollbacks included, the
\* slot counter of a session stays within max_parallel_per_session.
THEOREM CounterWithinCap == Spec => []ActiveWithinCap
<1>1. Init => CounterInv
  BY CapAssumption DEF Init, CounterInv, ActiveWithinCap, CapAssumption
<1>2. TypeOK /\ CounterInv /\ [Next]_vars => CounterInv'
  BY CounterStep
<1>3. CounterInv => ActiveWithinCap BY DEF CounterInv
<1> QED BY TypeCorrect, <1>1, <1>2, <1>3, PTL DEF Spec

-----------------------------------------------------------------------------
(* Reserved quota stays within its limit.                                    *)

\* what TryReserve reserves is one of the tenant's own resources
LEMMA FirstOfMember ==
  ASSUME NEW S \in SUBSET Resources, S # {}
  PROVE  FirstOf(S) \in S
  BY DEF FirstOf, Resources

\* a counter of one tenant moved to n, all others are as they were
LEMMA UsageMoves ==
  ASSUME TenantsOK, QuotaWithinLimit, NEW te, NEW res \in Resources, NEW n,
         te \in Tenants => n <= Ceiling(te, res), usage' = [usage EXCEPT ![te][res] = n]
  PROVE  QuotaWithinLimit'
<1>1. usage \in [Tenants -> [Resources -> Nat]] BY DEF TenantsOK
<1>2. ASSUME NEW te2 \in Tenants, NEW res2 \in Resources
      PROVE  usage'[te2][res2] <= Ceiling(te2, res2)
  <2>1. CASE te2 = te /\ res2 = res BY <1>1, <2>1
  <2>2. CASE te2 # te \/ res2 # res
    <3>1. usage'[te2][res2] = usage[te2][res2] BY <1>1, <2>2
    <3> QED BY <3>1 DEF QuotaWithinLimit, Ceiling
  <2> QED BY <2>1, <2>2
<1> QED BY <1>2 DEF QuotaWithinLimit, Ceiling

LEMMA UnreserveWithinLimit ==
  ASSUME TenantsOK, QuotaWithinLimit, NEW te, NEW res \in Resources, NEW n \in Nat, Unreserve(te, res, n)
  PROVE  QuotaWithinLimit'
<1>1. ASSUME te \in Tenants PROVE NonNegative(usage[te][res] - n) <= Ceiling(te, res)
  <2>1. Ceiling(te, res) \in Nat BY <1>1, QuotaAssumption DEF QuotaAssumption, Ceiling
  <2>2. usage[te][res] \in Nat /\ usage[te][res] <= Ceiling(te, res)
    BY <1>1 DEF TenantsOK, QuotaWithinLimit, Ceiling
  <2> QED BY <2>1, <2>2 DEF NonNegative
<1> QED BY <1>1, UsageMoves DEF Unreserve

LEMMA TryReserveWithinLimit ==
  ASSUME TypeOK, QuotaWithinLimit, NEW t \in Threads, NEW r \in Runs, NEW reserved, NEW refused,
         TryReserve(t, r, reserved, refused)
  PROVE  QuotaWithinLimit'
<1> DEFINE te == TenantOf[r]
           todo == Limited[te] \ held[t]
           res == FirstOf(todo)
           n == Amount(r, res)
<1>1. CASE UNCHANGED usage BY <1>1 DEF QuotaWithinLimit
<1>2. CASE todo # {} /\ QuotaAllows(te, res, n) /\ Reserve(te, res, n)
  <2>1. res \in Resources BY FirstOfType
  <2>2. ASSUME te \in Tenants PROVE usage[te][res] + n <= Ceiling(te, res)
    <3>1. todo \in SUBSET Resources BY <2>2, QuotaAssumption DEF QuotaAssumption
    <3>2. res \in Limited[te] BY <1>2, <3>1, FirstOfMember
    <3> QED BY <1>2, <3>2 DEF QuotaAllows, Ceiling
  <2> HIDE DEF te, todo, res, n
  <2>3. usage' = [usage EXCEPT ![te][res] = @ + n] BY <1>2 DEF Reserve
  <2>4. usage' = [usage EXCEPT ![te][res] = usage[te][res] + n] BY <2>3
  <2> QED BY <2>1, <2>2, <2>4, UsageMoves DEF TypeOK
<1> QED BY <1>1, <1>2 DEF TryReserve

LEMMA ReleaseOneWithinLimit ==
  ASSUME TypeOK, QuotaWithinLimit, NEW t \in Threads, NEW r \in Runs, ReleaseOne(t, r)
  PROVE  QuotaWithinLimit'
  BY FirstOfType, AmountType, UnreserveWithinLimit DEF ReleaseOne, TypeOK

LEMMA QuotaStep ==
  ASSUME TypeOK, QuotaWithinLimit, [Next]_vars
  PROVE  QuotaWithinLimit'
<1>1. CASE UNCHANGED usage
  BY <1>1 DEF QuotaWithinLimit
<1>2. CASE Rollover
  <2>1. ASSUME NEW te \in Tenants, NEW res \in Resources
        PROVE  usage'[te][res] <= Ceiling(te, res)
    <3>1. usage'[te][res] = usage[te][res] \/ usage'[te][res] = 0
      BY <1>2 DEF Rollover, TypeOK, TenantsOK
    <3>2. Ceiling(te, res) \in Nat BY QuotaAssumption DEF QuotaAssumption, Ceiling
    <3> QED BY <3>1, <3>2 DEF QuotaWithinLimit, Ceiling
  <2> QED BY <2>1 DEF QuotaWithinLimit, Ceiling
<1>3. ASSUME NEW t \in Threads, Continue(t) PROVE QuotaWithinLimit'
  <2> USE RunAt DEF TypeOK, DequeueLabels
  <2>1. CASE ReserveQuotas(t) \/ DequeueReserve(t)
    BY <2>1, TryReserveWithinLimit DEF ReserveQuotas, DequeueReserve
  <2>2. CASE RollbackQuota(t) \/ DequeueUndo(t) \/ RestoreQuota(t)
    BY <2>2, <1>1, ReleaseOneWithinLimit DEF RollbackQuota, DequeueUndo, RestoreQuota
  <2>3. CASE ReleaseQuota(t) \/ FailQuota(t)
    BY <2>3, RunConstants, UnreserveWithinLimit DEF ReleaseQuota, FailQuota, Resources
  <2> QED
    BY <1>1, <1>3, <2>1, <2>2, <2>3
       DEF Continue, Accept, CheckSoftQuotas, RollbackSlot, RollbackMark, SaveQueued, Confirm,
           ListQueued, GetHead, Take, Clobber, DequeueSoft, RestoreSlot, RestoreMark, DequeueMark,
           Dispatch, ReleaseSlot, ReleaseMark, FailSlot, FailMark, SweepNext, SweepFails, tenantVars
<1>4. ASSUME NEW t \in Threads, Start(t) PROVE UNCHANGED usage
  BY <1>4 DEF Start, Submit, Release, MarkFailed, ClientEnds, Sweep, tenantVars
<1> QED
  BY <1>1, <1>2, <1>3, <1>4
     DEF Next, World, Heartbeat, BeatLapses, SpendTokens, vars, tenantVars

\* However threads interleave between try_reserve_quota and release_quota, and whenever the
\* day changes, what a tenant has reserved of a resource stays within its limit, and of a
\* resource without limit nothing is reserved.
THEOREM ReservedWithinLimit == Spec => []QuotaWithinLimit
<1>1. Init => QuotaWithinLimit
  BY QuotaAssumption DEF Init, QuotaWithinLimit, Ceiling, QuotaAssumption
<1>2. TypeOK /\ QuotaWithinLimit /\ [Next]_vars => QuotaWithinLimit'
  BY QuotaStep
<1> QED BY TypeCorrect, <1>1, <1>2, PTL DEF Spec

-----------------------------------------------------------------------------
(* Slots: as long as each client ends its runs once (MaxEnds), no sweep ends  *)
(* them besides, and no tenant has quotas.                                   *)

Simple == MaxEnds <= 1 /\ Sweepers = {} /\ \A r \in Runs : TenantOf[r] = NoTenant

-----------------------------------------------------------------------------
(* Counting slots: O owns slots, w[o] of them each.                         *)

Blocks(O, w) == UNION {{o} \X (1..w[o]) : o \in O}

LEMMA BlockSize ==
  ASSUME NEW o, NEW w, w[o] \in Nat \ {0}
  PROVE  /\ IsFiniteSet({o} \X (1..w[o]))
         /\ Cardinality({o} \X (1..w[o])) = w[o]
<1> DEFINE n == w[o]
<1>1. IsFiniteSet({o}) /\ Cardinality({o}) = 1
  BY FS_Singleton
<1>2. IsFiniteSet(1..n) /\ Cardinality(1..n) = n
  BY FS_Interval
<1> HIDE DEF n
<1>3. IsFiniteSet({o} \X (1..n)) /\ Cardinality({o} \X (1..n)) = 1 * Cardinality(1..n)
  BY <1>1, <1>2, FS_Product
<1> QED BY <1>2, <1>3 DEF n

LEMMA AddBlock ==
  ASSUME NEW O, NEW w, NEW o, o \notin O, w[o] \in Nat \ {0}, IsFiniteSet(Blocks(O, w))
  PROVE  /\ IsFiniteSet(Blocks(O \cup {o}, w))
         /\ Cardinality(Blocks(O \cup {o}, w)) = Cardinality(Blocks(O, w)) + w[o]
<1> DEFINE B == {o} \X (1..w[o])
<1>1. IsFiniteSet(B) /\ Cardinality(B) = w[o]
  BY BlockSize
<1>2. Blocks(O \cup {o}, w) = Blocks(O, w) \cup B
  BY DEF Blocks
<1>3. Blocks(O, w) \cap B = {}
  BY DEF Blocks
<1> HIDE DEF B
<1>4. Cardinality(Blocks(O, w) \cap B) = 0
  BY <1>3, FS_EmptySet
<1>5. Cardinality(Blocks(O, w)) \in Nat
  BY FS_CardinalityType
<1> QED BY <1>1, <1>2, <1>4, <1>5, FS_Union

LEMMA RemoveBlock ==
  ASSUME NEW O, NEW w, NEW o \in O, w[o] \in Nat \ {0}, IsFiniteSet(Blocks(O, w))
  PROVE  /\ IsFiniteSet(Blocks(O \ {o}, w))
         /\ Cardinality(Blocks(O \ {o}, w)) = Cardinality(Blocks(O, w)) - w[o]
<1> DEFINE B == {o} \X (1..w[o])
<1>1. IsFiniteSet(B) /\ Cardinality(B) = w[o]
  BY BlockSize
<1>2. Blocks(O \ {o}, w) = Blocks(O, w) \ B
  BY DEF Blocks
<1>3. Blocks(O, w) \cap B = B
  BY DEF Blocks
<1> HIDE DEF B
<1>4. IsFiniteSet(Blocks(O, w) \ B)
  BY FS_Difference
<1>5. Cardinality(Blocks(O, w) \ B) = Cardinality(Blocks(O, w)) - Cardinality(Blocks(O, w) \cap B)
  BY FS_Difference
<1> QED BY <1>1, <1>2, <1>3, <1>4, <1>5

LEMMA FewerBlocks ==
  ASSUME NEW O, NEW P, P \subseteq O, NEW w, IsFiniteSet(Blocks(O, w))
  PROVE  /\ IsFiniteSet(Blocks(P, w))
         /\ Cardinality(Blocks(P, w)) <= Cardinality(Blocks(O, w))
<1>1. Blocks(P, w) \in SUBSET Blocks(O, w)
  BY DEF Blocks
<1> QED BY <1>1, FS_Subset

-----------------------------------------------------------------------------
(* Who owns slots: the record of an accepted run, until a call begins to end *)
(* it; that call, until it frees them; a dequeue, until it marks the record. *)
(* An owner is a pair of a run and the thread, if any, that holds its slots. *)

EndLabels == {"release_slot", "release_mark", "fail_slot", "fail_mark"}
Ending(r) == \E t \in Threads : run[t] = r /\ pc[t] \in EndLabels

Claiming  == {t \in Threads : pc[t] \in {"dq_mark", "release_slot", "fail_slot"}}
Claim(t)  == IF pc[t] = "dq_mark" THEN cur[t] ELSE run[t]

Owners(s) ==
         {<<{}, r>> : r \in {q \in Runs : SessionOf[q] = s /\ status[q] = "accepted" /\ ~Ending(q)}}
    \cup {<<{t}, Claim(t)>> : t \in {u \in Claiming : SessionOf[Claim(u)] = s}}
Owner == (SUBSET Threads) \X Runs
Width == [o \in Owner |-> SlotsOf[o[2]]]

\* n slots are enough for the owners O
Covers(n, O) == IsFiniteSet(Blocks(O, Width)) /\ Cardinality(Blocks(O, Width)) <= n

\* without quotas and sweeps, calls do not get further than this
LabelInv ==
    \A t \in Threads :
        /\ op[t] # "sweep"
        /\ pc[t] \in {"idle", "accept", "save", "confirm", "list", "get", "take", "clobber",
                      "dq_mark", "dispatch", "cancel_mark"} \cup EndLabels

\* a run that a call is ending has been ended by its client
EndInv == \A t \in Threads : pc[t] \in EndLabels => ends[run[t]] >= 1

\* the counter covers the slots of all owners
CountInv == \A s \in Sessions : Covers(active[s], Owners(s))

SlotInv == TypeOK /\ LabelInv /\ EndInv /\ CountInv

LEMMA OwnerIs ==
  ASSUME TypeOK, NEW s
  PROVE  /\ Owners(s) \subseteq Owner
         /\ \A r : <<{}, r>> \in Owners(s) <=>
                      r \in Runs /\ SessionOf[r] = s /\ status[r] = "accepted" /\ ~Ending(r)
         /\ \A t, r : <<{t}, r>> \in Owners(s) <=> t \in Claiming /\ r = Claim(t) /\ SessionOf[r] = s
<1>1. \A t \in Claiming : Claim(t) \in Runs
  BY RunAt DEF Claiming, Claim, TypeOK, DequeueLabels
<1>2. \A t : {t} # {}
  OBVIOUS
<1> QED BY <1>1, <1>2 DEF Owners, Owner, Claiming

LEMMA WidthIs == \A o \in Owner : Width[o] = SlotsOf[o[2]] /\ Width[o] \in Nat \ {0} /\ o[2] \in Runs /\ SessionOf[o[2]] \in Sessions
  BY RunConstants DEF Width, Owner

\* owners that go, come and change places
LEMMA CoverKept ==
  ASSUME NEW n \in Int, NEW O, NEW P, P \subseteq O, Covers(n, O)
  PROVE  Covers(n, P)
  BY FewerBlocks, FS_CardinalityType DEF Covers

LEMMA CoverAdded ==
  ASSUME NEW n \in Int, NEW O, NEW o \in Owner, Covers(n, O)
  PROVE  Covers(n + SlotsOf[o[2]], O \cup {o})
<1>1. Width[o] = SlotsOf[o[2]] /\ Width[o] \in Nat \ {0}
  BY WidthIs
<1>2. IsFiniteSet(Blocks(O, Width)) /\ Cardinality(Blocks(O, Width)) \in Nat /\ Cardinality(Blocks(O, Width)) <= n
  BY FS_CardinalityType DEF Covers
<1>3. CASE o \in O
  <2>1. O \cup {o} = O
    BY <1>3
  <2>2. Covers(n + SlotsOf[o[2]], O)
    BY <1>1, <1>2 DEF Covers
  <2> QED BY <2>1, <2>2, Zenon
<1>4. CASE o \notin O
  <2>1. /\ IsFiniteSet(Blocks(O \cup {o}, Width))
        /\ Cardinality(Blocks(O \cup {o}, Width)) = Cardinality(Blocks(O, Width)) + Width[o]
    BY <1>1, <1>2, <1>4, AddBlock
  <2> QED BY <1>1, <1>2, <2>1 DEF Covers
<1> QED BY <1>3, <1>4

LEMMA CoverRemoved ==
  ASSUME NEW n \in Int, NEW O, NEW o \in Owner, o \in O, Covers(n, O)
  PROVE  Covers(n - SlotsOf[o[2]], O \ {o}) /\ SlotsOf[o[2]] <= n
<1>1. Width[o] = SlotsOf[o[2]] /\ Width[o] \in Nat \ {0}
  BY WidthIs
<1>2. IsFiniteSet(Blocks(O, Width)) /\ Cardinality(Blocks(O, Width)) \in Nat /\ Cardinality(Blocks(O, Width)) <= n
  BY FS_CardinalityType DEF Covers
<1>3. /\ IsFiniteSet(Blocks(O \ {o}, Width))
      /\ Cardinality(Blocks(O \ {o}, Width)) = Cardinality(Blocks(O, Width)) - Width[o]
  BY <1>1, <1>2, RemoveBlock
<1>4. Cardinality(Blocks(O \ {o}, Width)) \in Nat
  BY <1>3, FS_CardinalityType
<1> QED BY <1>1, <1>2, <1>3, <1>4 DEF Covers

LEMMA CoverMoved ==
  ASSUME NEW n \in Int, NEW O, NEW o \in Owner, NEW p \in Owner, o \in O, p[2] = o[2], Covers(n, O)
  PROVE  Covers(n, (O \ {o}) \cup {p})
<1>1. Covers(n - SlotsOf[o[2]], O \ {o})
  BY CoverRemoved
<1>2. SlotsOf[o[2]] \in Nat
  BY WidthIs
<1> DEFINE m == n - SlotsOf[o[2]]
<1>3. m \in Int /\ m + SlotsOf[p[2]] = n
  BY <1>2
<1> HIDE DEF m
<1>4. Covers(m + SlotsOf[p[2]], (O \ {o}) \cup {p})
  BY <1>1, <1>3, CoverAdded DEF m
<1> QED BY <1>3, <1>4

-----------------------------------------------------------------------------
(* Steps.                                                                   *)

Elsewhere(t) ==
    \A u \in Threads \ {t} : pc'[u] = pc[u] /\ op'[u] = op[u] /\ run'[u] = run[u] /\ cur'[u] = cur[u]

LEMMA OneMoves ==
  ASSUME TypeOK, NEW t \in Threads, Start(t) \/ Continue(t)
  PROVE  Elsewhere(t)
<1> USE DEF TypeOK, ControlOK, Elsewhere, Goto, Leave, Call
<1>1. CASE Start(t)
  BY <1>1 DEF Start, Submit, Release, MarkFailed, ClientEnds, Sweep, localVars
<1>2. CASE Continue(t)
  BY <1>2 DEF Continue, Accept, ReserveQuotas, CheckSoftQuotas, RollbackSlot, RollbackMark, RollbackQuota,
     SaveQueued, Confirm, ListQueued, GetHead, Take, Clobber, DequeueReserve, DequeueUndo, DequeueSoft,
     RestoreSlot, RestoreMark, RestoreQuota, DequeueMark, Dispatch, ReleaseSlot, ReleaseMark, ReleaseQuota,
     FailSlot, FailMark, FailQuota, SweepNext, SweepFails, DequeueReturns, TryReserve, localVars
<1> QED BY <1>1, <1>2

LEMMA OwnersMove ==
  ASSUME TypeOK, TypeOK', NEW t \in Threads, Elsewhere(t), NEW s, NEW o \in Owners(s)'
  PROVE  \/ o \in Owners(s) /\ o[1] # {t}
         \/ \E r \in Runs : /\ o = <<{}, r>> /\ SessionOf[r] = s /\ status'[r] = "accepted" /\ ~Ending(r)'
                            /\ ~(status[r] = "accepted" /\ ~Ending(r))
         \/ pc'[t] \in {"dq_mark", "release_slot", "fail_slot"} /\ o = <<{t}, Claim(t)'>>
            /\ SessionOf[Claim(t)'] = s
<1>1. CASE \E r : o = <<{}, r>> /\ r \in Runs /\ SessionOf[r] = s /\ status'[r] = "accepted" /\ ~Ending(r)'
  BY <1>1, OwnerIs
<1>2. CASE \E u \in Claiming' : SessionOf[Claim(u)'] = s /\ o = <<{u}, Claim(u)'>>
  <2>1. PICK u \in Claiming' : SessionOf[Claim(u)'] = s /\ o = <<{u}, Claim(u)'>>
    BY <1>2
  <2>2. CASE u = t
    BY <2>1, <2>2 DEF Claiming
  <2>3. CASE u # t
    <3>1. u \in Claiming /\ Claim(u)' = Claim(u)
      BY <2>3 DEF Elsewhere, Claiming, Claim
    <3>2. o \in Owners(s)
      BY <2>1, <3>1, OwnerIs
    <3> QED BY <2>1, <2>3, <3>2
  <2> QED BY <2>2, <2>3
<1> QED BY <1>1, <1>2 DEF Owners

\* OwnersMove when no record, or one, may come to own slots
LEMMA NoneJoins ==
  ASSUME TypeOK, TypeOK', NEW t \in Threads, Elsewhere(t),
         \A r \in Runs : status'[r] = "accepted" /\ ~Ending(r)' => status[r] = "accepted" /\ ~Ending(r),
         NEW s, NEW o \in Owners(s)'
  PROVE  \/ o \in Owners(s) /\ o[1] # {t}
         \/ pc'[t] \in {"dq_mark", "release_slot", "fail_slot"} /\ o = <<{t}, Claim(t)'>>
            /\ SessionOf[Claim(t)'] = s
  BY OwnersMove

LEMMA OneJoins ==
  ASSUME TypeOK, TypeOK', NEW t \in Threads, Elsewhere(t), NEW q,
         \A r \in Runs : status'[r] = "accepted" /\ ~Ending(r)' =>
             r = q \/ (status[r] = "accepted" /\ ~Ending(r)),
         pc'[t] \notin {"dq_mark", "release_slot", "fail_slot"}, NEW s, NEW o \in Owners(s)'
  PROVE  (o \in Owners(s) /\ o[1] # {t}) \/ (o = <<{}, q>> /\ SessionOf[q] = s)
  BY OwnersMove

\* a call that stays in the labels that end a run, or was not there, ends what it ended
LEMMA EndingKept ==
  ASSUME TypeOK, NEW t \in Threads, Elsewhere(t), NEW r,
         pc[t] \notin EndLabels \/ (pc'[t] \in EndLabels /\ run'[t] = run[t]), Ending(r)
  PROVE  Ending(r)'
  BY DEF Ending, Elsewhere

\* a step that no owner sees, except to go
LEMMA QuietStep ==
  ASSUME TypeOK, TypeOK', CountInv, NEW t \in Threads, Elsewhere(t), UNCHANGED active,
         pc'[t] \notin {"dq_mark", "release_slot", "fail_slot"},
         \A r \in Runs : status'[r] = "accepted" => status[r] = "accepted" /\ (Ending(r) => Ending(r)')
  PROVE  CountInv'
<1> SUFFICES ASSUME NEW s \in Sessions PROVE Covers(active[s], Owners(s)')
  BY DEF CountInv, Covers, Width
<1>1. Owners(s)' \subseteq Owners(s)
  <2> SUFFICES ASSUME NEW o \in Owners(s)' PROVE o \in Owners(s)
    OBVIOUS
  <2> QED BY NoneJoins
<1>2. active[s] \in Int /\ Covers(active[s], Owners(s))
  BY DEF TypeOK, RecordsOK, CountInv
<1> QED BY <1>1, <1>2, CoverKept

\* a run that gets slots
LEMMA TakeStep ==
  ASSUME TypeOK, TypeOK', CountInv, NEW t \in Threads, Elsewhere(t), NEW r \in Runs, NEW o \in Owner,
         o[2] = r, TakeSlots(t, r),
         \A s \in Sessions : \A p \in Owners(s)' : p \in Owners(s) \/ (p = o /\ SessionOf[r] = s)
  PROVE  CountInv'
<1> SUFFICES ASSUME NEW s \in Sessions PROVE Covers(active'[s], Owners(s)')
  BY DEF CountInv, Covers, Width
<1>1. active \in [Sessions -> Nat] /\ SlotsOf[r] \in Nat /\ SessionOf[r] \in Sessions
  BY RunConstants DEF TypeOK, RecordsOK
<1>2. active' = [active EXCEPT ![SessionOf[r]] = active[SessionOf[r]] + SlotsOf[r]]
  <2> DEFINE n == active[SessionOf[r]] + SlotsOf[r]
  <2>1. NonNegative(n) = n
    BY <1>1 DEF NonNegative
  <2>2. active' = [active EXCEPT ![SessionOf[r]] = NonNegative(n)]
    BY DEF TakeSlots, SetActive
  <2> QED BY <2>1, <2>2
<1>3. active[s] \in Int /\ Covers(active[s], Owners(s))
  BY <1>1 DEF CountInv
<1>4. CASE s = SessionOf[r]
  <2>1. Covers(active[s] + SlotsOf[r], Owners(s) \cup {o})
    BY <1>3, CoverAdded
  <2>2. active'[s] = active[s] + SlotsOf[r] /\ active'[s] \in Int
    BY <1>1, <1>2, <1>4
  <2> QED BY <2>1, <2>2, CoverKept
<1>5. CASE s # SessionOf[r]
  <2>1. active'[s] = active[s] /\ Owners(s)' \subseteq Owners(s)
    BY <1>1, <1>2, <1>5
  <2> QED BY <1>3, <2>1, CoverKept
<1> QED BY <1>4, <1>5

\* slots that are freed
LEMMA FreeStep ==
  ASSUME TypeOK, CountInv, NEW r \in Runs, NEW o \in Owner, o[2] = r, FreeSlots(r),
         o \in Owners(SessionOf[r]),
         \A s \in Sessions : \A p \in Owners(s)' : p \in Owners(s) /\ p # o
  PROVE  CountInv'
<1> SUFFICES ASSUME NEW s \in Sessions PROVE Covers(active'[s], Owners(s)')
  BY DEF CountInv, Covers, Width
<1>1. active \in [Sessions -> Nat] /\ SlotsOf[r] \in Nat /\ SessionOf[r] \in Sessions
  BY RunConstants DEF TypeOK, RecordsOK
<1>2. active[s] \in Int /\ Covers(active[s], Owners(s))
  BY <1>1 DEF CountInv
<1>4. CASE s = SessionOf[r]
  <2>1. Covers(active[s] - SlotsOf[r], Owners(s) \ {o}) /\ SlotsOf[r] <= active[s]
    BY <1>2, <1>4, CoverRemoved
  <2>2. active'[s] = active[s] - SlotsOf[r] /\ active'[s] \in Int
    BY <1>1, <1>4, <2>1 DEF FreeSlots, SetActive, NonNegative
  <2> QED BY <2>1, <2>2, CoverKept
<1>5. CASE s # SessionOf[r]
  <2>1. active'[s] = active[s] /\ Owners(s)' \subseteq Owners(s)
    BY <1>1, <1>5 DEF FreeSlots, SetActive
  <2> QED BY <1>2, <2>1, CoverKept
<1> QED BY <1>4, <1>5

\* slots that change hands
LEMMA PassStep ==
  ASSUME TypeOK, CountInv, UNCHANGED active, NEW r \in Runs, NEW o \in Owner, NEW q \in Owner,
         o[2] = r, q[2] = r, o \in Owners(SessionOf[r]),
         \A s \in Sessions : \A p \in Owners(s)' :
             (p \in Owners(s) /\ p # o) \/ (p = q /\ SessionOf[r] = s)
  PROVE  CountInv'
<1> SUFFICES ASSUME NEW s \in Sessions PROVE Covers(active[s], Owners(s)')
  BY DEF CountInv, Covers, Width
<1>1. active[s] \in Int /\ Covers(active[s], Owners(s))
  BY DEF CountInv, TypeOK, RecordsOK
<1>2. CASE s = SessionOf[r]
  <2>1. Covers(active[s], (Owners(s) \ {o}) \cup {q})
    BY <1>1, <1>2, CoverMoved
  <2> QED BY <1>1, <2>1, CoverKept
<1>3. CASE s # SessionOf[r]
  <2>1. Owners(s)' \subseteq Owners(s)
    BY <1>3
  <2> QED BY <1>1, <2>1, CoverKept
<1> QED BY <1>2, <1>3

-----------------------------------------------------------------------------
(* The invariant.                                                           *)

LEMMA TypeKept == ASSUME TypeOK, [Next]_vars PROVE TypeOK'
  BY RecordsStep, TenantsStep, ControlStep, LocalsStep, ClientsStep DEF TypeOK

\* where a dequeue returns to
LEMMA SimpleReturn ==
  ASSUME Simple, TypeOK, NEW t \in Threads, op[t] # "sweep", run[t] \in Runs, NEW told, DequeueReturns(t, told)
  PROVE  /\ pc'[t] \in {"idle", "confirm"}
         /\ op'[t] # "sweep"
  BY DEF Simple, DequeueReturns, Goto, TypeOK, ControlOK

LEMMA LabelStep ==
  ASSUME Simple, TypeOK, LabelInv, [Next]_vars
  PROVE  LabelInv'
<1>1. CASE UNCHANGED <<pc, op>>
  BY <1>1 DEF LabelInv, EndLabels
<1>2. ASSUME NEW t \in Threads, Start(t) \/ Continue(t) PROVE LabelInv'
  <2>1. Elsewhere(t)
    BY <1>2, OneMoves
  <2>c. pc \in [Threads -> Labels] /\ op \in [Threads -> Ops]
    BY DEF TypeOK, ControlOK
  <2>l. op[t] # "sweep" /\ pc[t] \in {"idle", "accept", "save", "confirm", "list", "get", "take",
                      "clobber", "dq_mark", "dispatch", "cancel_mark"} \cup EndLabels
    BY DEF LabelInv
  <2>n. (pc[t] # "idle" => run[t] \in Runs /\ TenantOf[run[t]] = NoTenant)
        /\ (pc[t] \in {"take", "dq_mark"} => cur[t] \in Runs /\ TenantOf[cur[t]] = NoTenant)
    BY <2>l, RunAt DEF Simple, TypeOK, EndLabels, DequeueLabels
  <2>2. op'[t] # "sweep" /\ pc'[t] \in {"idle", "accept", "save", "confirm", "list", "get", "take",
                      "clobber", "dq_mark", "dispatch", "cancel_mark"} \cup EndLabels
    <3>1. CASE Start(t)
      BY <3>1, <2>c, <2>l DEF Simple, Start, Submit, Release, MarkFailed, ClientEnds, Call, Goto, FailLabel, EndLabels
    <3>2. CASE Accept(t)
      BY <3>2, <2>c, <2>l, <2>n DEF Accept, Goto, Leave
    <3>3. CASE Take(t)
      BY <3>3, <2>c, <2>l, <2>n DEF Take, Goto
    <3>4. CASE ListQueued(t) \/ GetHead(t) \/ Clobber(t) \/ Dispatch(t)
      <4>1. \/ \E told : DequeueReturns(t, told)
            \/ UNCHANGED op /\ (UNCHANGED pc \/ Goto(t, "get") \/ Goto(t, "take"))
        BY <3>4 DEF ListQueued, GetHead, Clobber, Dispatch
      <4>2. run[t] \in Runs
        BY <3>4, <2>n DEF ListQueued, GetHead, Clobber, Dispatch
      <4> QED BY <4>1, <4>2, <2>c, <2>l, SimpleReturn DEF Goto
    <3>5. CASE SaveQueued(t) \/ Confirm(t) \/ DequeueMark(t) \/ ReleaseSlot(t) \/ ReleaseMark(t) \/ FailSlot(t)
      BY <3>5, <2>c, <2>l DEF SaveQueued, Confirm, DequeueMark, ReleaseSlot, ReleaseMark, FailSlot, Goto, Leave, EndLabels
    <3>6. CASE FailMark(t)
      BY <3>6, <2>c, <2>l, <2>n DEF FailMark, Goto
    <3> QED
      BY <1>2, <2>l, <3>1, <3>2, <3>3, <3>4, <3>5, <3>6
         DEF Continue, ReserveQuotas, CheckSoftQuotas, RollbackSlot, RollbackMark, RollbackQuota, DequeueReserve,
             DequeueUndo, DequeueSoft, RestoreSlot, RestoreMark, RestoreQuota, ReleaseQuota, FailQuota,
             SweepNext, SweepFails, EndLabels
  <2> QED BY <2>1, <2>2 DEF LabelInv, Elsewhere, EndLabels
<1>3. CASE World
  BY <1>1, <1>3 DEF World, Rollover, Heartbeat, BeatLapses, SpendTokens
<1> QED BY <1>1, <1>2, <1>3 DEF Next, vars

LEMMA EndStep ==
  ASSUME TypeOK, LabelInv, EndInv, [Next]_vars
  PROVE  EndInv'
<1>1. CASE UNCHANGED <<pc, run, ends>>
  BY <1>1 DEF EndInv
<1>t. ends \in [Runs -> Nat]
  BY DEF TypeOK, ClientsOK
<1>2. ASSUME NEW t \in Threads, Start(t) \/ Continue(t) PROVE EndInv'
  <2>1. Elsewhere(t)
    BY <1>2, OneMoves
  <2>2. \A r \in Runs : ends'[r] >= ends[r]
    <3>1. CASE \E r \in Runs : ends' = [ends EXCEPT ![r] = @ + 1]
      BY <1>t, <3>1
    <3>2. CASE UNCHANGED ends
      BY <1>t, <3>2
    <3> QED
      BY <1>2, <3>1, <3>2
         DEF Start, Submit, Release, MarkFailed, ClientEnds, Sweep, Continue, Accept, ReserveQuotas, CheckSoftQuotas,
             RollbackSlot, RollbackMark, RollbackQuota, SaveQueued, Confirm, ListQueued, GetHead, Take, Clobber,
             DequeueReserve, DequeueUndo, DequeueSoft, RestoreSlot, RestoreMark, RestoreQuota, DequeueMark,
             Dispatch, ReleaseSlot, ReleaseMark, ReleaseQuota, FailSlot, FailMark, FailQuota, SweepNext,
             SweepFails, clientVars, Answer
  <2>3. \A u \in Threads : pc[u] \in EndLabels => run[u] \in Runs
    BY RunAt DEF TypeOK, EndLabels
  <2>4. pc'[t] \in EndLabels => ends'[run'[t]] >= 1
    <3>1. CASE \E r \in Runs : Release(t, r) \/ MarkFailed(t, r)
      <4>1. PICK r \in Runs : ends' = [ends EXCEPT ![r] = @ + 1] /\ run' = [run EXCEPT ![t] = r]
        BY <3>1 DEF Release, MarkFailed, ClientEnds, Call
      <4> QED BY <1>t, <4>1 DEF TypeOK, ControlOK
    <3>2. CASE ReleaseSlot(t) \/ FailSlot(t)
      <4>1. pc[t] \in EndLabels /\ run' = run /\ ends' = ends
        BY <3>2 DEF ReleaseSlot, FailSlot, EndLabels, clientVars
      <4> QED BY <4>1 DEF EndInv
    <3>3. CASE ~(\E r \in Runs : Release(t, r) \/ MarkFailed(t, r)) /\ ~ReleaseSlot(t) /\ ~FailSlot(t)
      <4>1. pc'[t] \notin EndLabels
        <5> USE DEF TypeOK, ControlOK, EndLabels, Goto, Leave, Call
        <5>1. CASE Start(t)
          BY <3>3, <5>1 DEF Start, Submit, Sweep, LabelInv
        <5>2. CASE Accept(t) \/ ListQueued(t) \/ GetHead(t) \/ Take(t) \/ Clobber(t) \/ Dispatch(t)
          BY <5>2 DEF Accept, ListQueued, GetHead, Take, Clobber, Dispatch, DequeueReturns
        <5> QED
          BY <1>2, <3>3, <5>1, <5>2
             DEF LabelInv, Continue, ReserveQuotas, CheckSoftQuotas,
             RollbackSlot, RollbackMark, RollbackQuota, SaveQueued, Confirm,
             DequeueReserve, DequeueUndo, DequeueSoft, RestoreSlot, RestoreMark, RestoreQuota, DequeueMark,
             ReleaseMark, ReleaseQuota, FailMark, FailQuota, SweepNext, SweepFails
      <4> QED BY <4>1
    <3> QED BY <3>1, <3>2, <3>3
  <2>5. \A r \in Runs : ends[r] \in Nat /\ ends'[r] \in Nat
    BY TypeKept DEF TypeOK, ClientsOK
  <2>6. ASSUME NEW u \in Threads, u # t, pc'[u] \in EndLabels PROVE ends'[run'[u]] >= 1
    <3>1. pc[u] \in EndLabels /\ run'[u] = run[u]
      BY <2>1, <2>6 DEF Elsewhere
    <3>2. run[u] \in Runs /\ ends[run[u]] >= 1
      BY <2>3, <3>1 DEF EndInv
    <3>3. ends'[run[u]] >= 1
      BY <2>2, <2>5, <3>2
    <3> QED BY <3>1, <3>3
  <2> QED BY <2>4, <2>6 DEF EndInv
<1>3. CASE World
  BY <1>1, <1>3 DEF World, Rollover, Heartbeat, BeatLapses, SpendTokens, clientVars
<1> QED BY <1>1, <1>2, <1>3 DEF Next, vars, clientVars

\* the record of a run that is being ended owns nothing
LEMMA EndingOwnsNothing ==
  ASSUME NEW s, NEW r, <<{}, r>> \in Owners(s)'
  PROVE  ~Ending(r)'
<1>1. \A t : {t} # {}
  OBVIOUS
<1> QED BY <1>1 DEF Owners

\* a call that begins to end an accepted run takes over its slots
LEMMA BeginStep ==
  ASSUME Simple, SlotInv, TypeOK', NEW t \in Threads, Elsewhere(t), NEW r \in Runs, ClientEnds(t, r),
         status[r] = "accepted", NEW m, NEW l \in {"release_slot", "fail_slot"}, Call(t, m, r, l)
  PROVE  CountInv'
<1> USE DEF SlotInv
<1>1. ~Ending(r)
  <2>1. ends[r] \in Nat /\ ends[r] < 1
    BY BoundAssumption DEF TypeOK, ClientsOK, Simple, ClientEnds, BoundAssumption
  <2> QED BY <2>1 DEF Ending, EndInv
<1>2. pc[t] = "idle" /\ pc'[t] = l /\ run'[t] = r /\ UNCHANGED <<active, status>>
  BY DEF ClientEnds, Call, Goto, TypeOK, ControlOK, recordVars
<1>3. Ending(r)'
  BY <1>2 DEF Ending, EndLabels
<1>4. Claim(t)' = r
  BY <1>2 DEF Claim
<1>5. <<{}, r>> \in Owners(SessionOf[r])
  BY <1>1, OwnerIs
<1>6. <<{}, r>> \in Owner /\ <<{t}, r>> \in Owner
  BY DEF Owner
<1>7. ASSUME NEW s \in Sessions, NEW p \in Owners(s)'
      PROVE  (p \in Owners(s) /\ p # <<{}, r>>) \/ (p = <<{t}, r>> /\ SessionOf[r] = s)
  <2>1. \A q \in Runs : status'[q] = "accepted" /\ ~Ending(q)' => status[q] = "accepted" /\ ~Ending(q)
    BY <1>2, EndingKept DEF EndLabels
  <2>2. \/ p \in Owners(s) /\ p[1] # {t}
        \/ p = <<{t}, Claim(t)'>> /\ SessionOf[Claim(t)'] = s
    BY <2>1, NoneJoins
  <2>3. p # <<{}, r>>
    BY <1>3, EndingOwnsNothing
  <2> QED BY <1>4, <2>2, <2>3
<1> QED BY <1>2, <1>5, <1>6, <1>7, PassStep

LEMMA CountStep ==
  ASSUME Simple, SlotInv, TypeOK', NEW t \in Threads, Elsewhere(t), Start(t) \/ Continue(t)
  PROVE  CountInv'
<1> USE DEF SlotInv
<1>t. /\ pc \in [Threads -> Labels] /\ status \in [Runs -> Statuses]
      /\ pc[t] \notin {"idle", "sweep"} => run[t] \in Runs
      /\ pc[t] \in {"take", "clobber", "dq_mark", "dispatch"} => cur[t] \in Runs
  BY RunAt DEF TypeOK, ControlOK, RecordsOK, DequeueLabels
<1>l. \A r \in Runs : TenantOf[r] = NoTenant
  BY DEF Simple
\* steps no owner sees
<1>q. ASSUME UNCHANGED active, pc[t] \notin EndLabels, pc'[t] \notin {"dq_mark", "release_slot", "fail_slot"},
             \A r \in Runs : status'[r] = "accepted" => status[r] = "accepted"
      PROVE  CountInv'
  BY <1>q, QuietStep, EndingKept
<1>1. CASE \E r \in Runs : Submit(t, r)
  BY <1>1, <1>q, <1>t DEF Submit, Goto, EndLabels, recordVars
<1>2. ASSUME NEW r \in Runs, Release(t, r) \/ MarkFailed(t, r) PROVE CountInv'
  <2>1. CASE status[r] = "accepted"
    BY <1>2, <2>1, BeginStep DEF Release, MarkFailed, FailLabel
  <2>2. CASE status[r] # "accepted"
    <3>1. pc[t] = "idle" /\ pc'[t] = "cancel_mark" /\ UNCHANGED <<active, status>>
      BY <1>2, <2>2, <1>t DEF Release, MarkFailed, FailLabel, ClientEnds, Call, Goto, recordVars
    <3> QED BY <3>1, <1>q DEF EndLabels
  <2> QED BY <2>1, <2>2
<1>3. CASE Accept(t)
  <2>1. CASE Fits(run[t])
    <3> DEFINE r == run[t]
    <3>1. /\ r \in Runs /\ TakeSlots(t, r) /\ status' = [status EXCEPT ![r] = "accepted"]
          /\ pc[t] = "accept" /\ pc'[t] = "list"
      BY <1>3, <1>t, <1>l, <2>1 DEF Accept, Goto
    <3>2. <<{}, r>> \in Owner
      BY <3>1 DEF Owner
    <3>3. \A q \in Runs : status'[q] = "accepted" /\ ~Ending(q)' =>
             q = r \/ (status[q] = "accepted" /\ ~Ending(q))
      BY <3>1, <1>t, EndingKept DEF EndLabels
    <3> HIDE DEF r
    <3>4. ASSUME NEW s \in Sessions, NEW p \in Owners(s)'
          PROVE  p \in Owners(s) \/ (p = <<{}, r>> /\ SessionOf[r] = s)
      BY <3>1, <3>3, OneJoins
    <3> QED BY <3>1, <3>2, <3>4, TakeStep
  <2>2. CASE ~Fits(run[t])
    <3>1. pc[t] = "accept" /\ pc'[t] \in {"idle", "save"} /\ UNCHANGED <<active, status>>
      BY <1>3, <2>2, <1>t DEF Accept, Leave, Goto, recordVars
    <3> QED BY <3>1, <1>q DEF EndLabels
  <2> QED BY <2>1, <2>2
<1>4. CASE Take(t)
  <2>1. CASE Fits(cur[t])
    <3> DEFINE r == cur[t]
    <3>1. /\ r \in Runs /\ TakeSlots(t, r) /\ UNCHANGED <<status, cur>>
          /\ pc[t] = "take" /\ pc'[t] = "dq_mark"
      BY <1>4, <1>t, <1>l, <2>1 DEF Take, Goto
    <3>2. <<{t}, r>> \in Owner /\ Claim(t)' = r
      BY <3>1 DEF Owner, Claim
    <3>3. \A q \in Runs : status'[q] = "accepted" /\ ~Ending(q)' => status[q] = "accepted" /\ ~Ending(q)
      BY <3>1, EndingKept DEF EndLabels
    <3> HIDE DEF r
    <3>4. ASSUME NEW s \in Sessions, NEW p \in Owners(s)'
          PROVE  p \in Owners(s) \/ (p = <<{t}, r>> /\ SessionOf[r] = s)
      BY <3>2, <3>3, NoneJoins
    <3> QED BY <3>1, <3>2, <3>4, TakeStep
  <2>2. CASE ~Fits(cur[t])
    <3>1. pc[t] = "take" /\ pc'[t] = "clobber" /\ UNCHANGED <<active, status>>
      BY <1>4, <2>2, <1>t DEF Take, Goto
    <3> QED BY <3>1, <1>q DEF EndLabels
  <2> QED BY <2>1, <2>2
<1>5. CASE DequeueMark(t)
  <2> DEFINE r == cur[t]
  <2>1. /\ r \in Runs /\ status' = [status EXCEPT ![r] = "accepted"] /\ UNCHANGED active
        /\ pc[t] = "dq_mark" /\ pc'[t] = "dispatch"
    BY <1>5, <1>t DEF DequeueMark, Goto, MarkStatus
  <2>2. <<{t}, r>> \in Owner /\ <<{}, r>> \in Owner
    BY <2>1 DEF Owner
  <2>3. <<{t}, r>> \in Owners(SessionOf[r])
    BY <2>1, OwnerIs DEF Claiming, Claim
  <2>4. \A q \in Runs : status'[q] = "accepted" /\ ~Ending(q)' =>
             q = r \/ (status[q] = "accepted" /\ ~Ending(q))
    BY <2>1, <1>t, EndingKept DEF EndLabels
  <2> HIDE DEF r
  <2>5. ASSUME NEW s \in Sessions, NEW p \in Owners(s)'
        PROVE  (p \in Owners(s) /\ p # <<{t}, r>>) \/ (p = <<{}, r>> /\ SessionOf[r] = s)
    <3>1. (p \in Owners(s) /\ p[1] # {t}) \/ (p = <<{}, r>> /\ SessionOf[r] = s)
      BY <2>1, <2>4, OneJoins
    <3> QED BY <3>1
  <2> QED BY <2>1, <2>2, <2>3, <2>5, PassStep
<1>6. CASE ReleaseSlot(t) \/ FailSlot(t)
  <2> DEFINE r == run[t]
  <2>1. /\ r \in Runs /\ FreeSlots(r) /\ UNCHANGED <<status, run>>
        /\ pc[t] \in {"release_slot", "fail_slot"} /\ pc'[t] \in {"release_mark", "fail_mark"}
    BY <1>6, <1>t DEF ReleaseSlot, FailSlot, Goto
  <2>2. <<{t}, r>> \in Owner
    BY <2>1 DEF Owner
  <2>3. <<{t}, r>> \in Owners(SessionOf[r])
    BY <2>1, OwnerIs DEF Claiming, Claim
  <2>4. \A q \in Runs : status'[q] = "accepted" /\ ~Ending(q)' => status[q] = "accepted" /\ ~Ending(q)
    BY <2>1, EndingKept DEF EndLabels
  <2> HIDE DEF r
  <2>5. ASSUME NEW s \in Sessions, NEW p \in Owners(s)'
        PROVE  p \in Owners(s) /\ p # <<{t}, r>>
    <3>1. p \in Owners(s) /\ p[1] # {t}
      BY <2>1, <2>4, NoneJoins
    <3> QED BY <3>1
  <2> QED BY <2>1, <2>2, <2>3, <2>5, FreeStep
<1>7. CASE ReleaseMark(t) \/ FailMark(t)
  <2>1. /\ run[t] \in Runs /\ UNCHANGED active /\ pc'[t] \notin {"dq_mark", "release_slot", "fail_slot"}
        /\ \E st \in {"done", "failed"} : status' = [status EXCEPT ![run[t]] = st]
    BY <1>7, <1>t, <1>l DEF ReleaseMark, FailMark, Goto, MarkStatus
  <2>2. ASSUME NEW r \in Runs, status'[r] = "accepted"
        PROVE  status[r] = "accepted" /\ (Ending(r) => Ending(r)')
    <3>1. r # run[t] /\ status[r] = "accepted"
      BY <1>t, <2>1, <2>2
    <3>2. ASSUME Ending(r) PROVE Ending(r)'
      <4>1. PICK u \in Threads : run[u] = r /\ pc[u] \in EndLabels
        BY <3>2 DEF Ending
      <4> QED BY <3>1, <4>1 DEF Ending, Elsewhere
    <3> QED BY <3>1, <3>2
  <2> QED BY <2>1, <2>2, QuietStep
<1>8. CASE SaveQueued(t) \/ Confirm(t) \/ ListQueued(t) \/ GetHead(t) \/ Clobber(t) \/ Dispatch(t)
  <2>1. UNCHANGED active /\ pc[t] \notin EndLabels
    BY <1>8 DEF SaveQueued, Confirm, ListQueued, GetHead, Clobber, Dispatch, recordVars, EndLabels
  <2>2. pc'[t] \notin {"dq_mark", "release_slot", "fail_slot"}
    BY <1>8, <1>t DEF SaveQueued, Confirm, ListQueued, GetHead, Clobber, Dispatch, Goto, Leave, DequeueReturns
  <2>3. UNCHANGED status \/ \E r \in Runs : status' = [status EXCEPT ![r] = "queued"]
    BY <1>8, <1>t DEF SaveQueued, Confirm, ListQueued, GetHead, Clobber, Dispatch, recordVars
  <2>4. \A r \in Runs : status'[r] = "accepted" => status[r] = "accepted"
    BY <1>t, <2>3
  <2> QED BY <2>1, <2>2, <2>4, <1>q
<1> QED
  BY <1>1, <1>2, <1>3, <1>4, <1>5, <1>6, <1>7, <1>8
     DEF LabelInv, EndLabels, Simple, Start, Continue, ReserveQuotas, CheckSoftQuotas, RollbackSlot, RollbackMark,
         RollbackQuota, DequeueReserve, DequeueUndo, DequeueSoft, RestoreSlot, RestoreMark, RestoreQuota,
         ReleaseQuota, FailQuota, SweepNext, SweepFails

LEMMA SlotInit == Init => SlotInv
<1> SUFFICES ASSUME Init PROVE SlotInv
  OBVIOUS
<1>1. TypeOK
  BY TypeInit
<1>2. LabelInv /\ EndInv
  BY DEF Init, LabelInv, EndInv, EndLabels
<1>3. ASSUME NEW s \in Sessions PROVE Covers(active[s], Owners(s))
  <2>1. Owners(s) = {}
    BY DEF Init, Owners, Claiming
  <2>2. Blocks({}, Width) = {}
    BY DEF Blocks
  <2>3. active[s] = 0
    BY DEF Init
  <2> QED BY <2>1, <2>2, <2>3, FS_EmptySet DEF Covers
<1> QED BY <1>1, <1>2, <1>3 DEF SlotInv, CountInv

LEMMA SlotStep ==
  ASSUME Simple, SlotInv, [Next]_vars
  PROVE  SlotInv'
<1>1. TypeOK' /\ LabelInv' /\ EndInv'
  BY TypeKept, LabelStep, EndStep DEF SlotInv
<1>2. CASE UNCHANGED <<pc, run, cur, status, active>>
  <2>1. \A s : Owners(s)' = Owners(s)
    BY <1>2 DEF Owners, Ending, Claiming, Claim
  <2>2. CountInv'
    BY <1>2, <2>1 DEF SlotInv, CountInv, Covers, Width
  <2> QED BY <1>1, <2>2 DEF SlotInv
<1>3. ASSUME NEW t \in Threads, Start(t) \/ Continue(t) PROVE CountInv'
  <2>1. Elsewhere(t)
    BY <1>3, OneMoves DEF SlotInv
  <2> QED BY <1>1, <1>3, <2>1, CountStep
<1>4. CASE World
  BY <1>2, <1>4 DEF World, Rollover, Heartbeat, BeatLapses, SpendTokens, localVars, recordVars
<1> QED BY <1>1, <1>2, <1>3, <1>4 DEF SlotInv, Next, vars, recordVars, localVars

-----------------------------------------------------------------------------
(* What the clients see.                                                    *)

Occupying(s) == {r \in Runs : SessionOf[r] = s /\ Occupies(r)}

\* a run that occupies slots has an owner
LEMMA OccupiedIsOwned ==
  ASSUME SlotInv, NEW s, NEW r \in Occupying(s)
  PROVE  \E o \in Owners(s) : o[2] = r
<1> USE DEF SlotInv
<1>1. CASE status[r] = "accepted" /\ ~Ending(r)
  <2>1. <<{}, r>> \in Owners(s)
    BY <1>1, OwnerIs DEF Occupying
  <2> QED BY <2>1
<1>2. CASE ~SlotsFreed(r) /\ Ending(r)
  <2>1. PICK t \in Threads : run[t] = r /\ pc[t] \in EndLabels
    BY <1>2 DEF Ending
  <2>2. pc[t] \in {"release_slot", "fail_slot"}
    BY <1>2, <2>1 DEF SlotsFreed, At, EndLabels, TypeOK, ControlOK
  <2>3. <<{t}, r>> \in Owners(s)
    BY <2>1, <2>2, OwnerIs DEF Occupying, Claiming, Claim
  <2> QED BY <2>3
<1>3. CASE SlotsTaken(r)
  <2>1. PICK t \in Threads : cur[t] = r /\ pc[t] \in {"dq_reserve", "dq_undo", "dq_soft", "restore_slot", "dq_mark"}
    BY <1>3 DEF SlotsTaken, Taking
  <2>2. pc[t] = "dq_mark"
    BY <2>1 DEF LabelInv, EndLabels
  <2>3. <<{t}, r>> \in Owners(s)
    BY <2>1, <2>2, OwnerIs DEF Occupying, Claiming, Claim
  <2> QED BY <2>3
<1> QED BY <1>1, <1>2, <1>3 DEF Occupying, Occupies

LEMMA CoversOccupied ==
  ASSUME SlotInv, NEW s \in Sessions
  PROVE  /\ IsFiniteSet(SlotsOfAll(Occupying(s)))
         /\ Cardinality(SlotsOfAll(Occupying(s))) <= active[s]
<1> DEFINE B == Blocks(Owners(s), Width)
           place == [z \in B |-> <<z[1][2], z[2]>>]
           T == {place[z] : z \in B}
<1>1. IsFiniteSet(B) /\ Cardinality(B) <= active[s] /\ active[s] \in Nat
  BY DEF SlotInv, CountInv, Covers, TypeOK, RecordsOK
<1>2. ASSUME NEW y \in SlotsOfAll(Occupying(s)) PROVE y \in T
  <2>1. PICK r \in Occupying(s) : \E i \in 1..SlotsOf[r] : y = <<r, i>>
    BY DEF SlotsOfAll
  <2>i. PICK i \in 1..SlotsOf[r] : y = <<r, i>>
    BY <2>1
  <2>2. PICK o \in Owners(s) : o[2] = r
    BY OccupiedIsOwned
  <2>3. o \in Owner
    BY OwnerIs DEF SlotInv
  <2>4. <<o, i>> \in B
    BY <2>i, <2>2, <2>3, WidthIs DEF Blocks
  <2>5. place[<<o, i>>] = y
    BY <2>i, <2>2, <2>4
  <2> QED BY <2>4, <2>5
<1> HIDE DEF B
<1>3. place \in Surjection(B, T)
  BY DEF Surjection
<1> HIDE DEF place, T
<1>4. IsFiniteSet(T) /\ Cardinality(T) <= Cardinality(B)
  BY <1>1, <1>3, FS_Surjection
<1>5. SlotsOfAll(Occupying(s)) \in SUBSET T
  BY <1>2
<1>6. IsFiniteSet(SlotsOfAll(Occupying(s))) /\ Cardinality(SlotsOfAll(Occupying(s))) <= Cardinality(T)
  BY <1>4, <1>5, FS_Subset
<1>7. Cardinality(SlotsOfAll(Occupying(s))) \in Nat /\ Cardinality(T) \in Nat /\ Cardinality(B) \in Nat
  BY <1>1, <1>4, <1>6, FS_CardinalityType
<1> QED BY <1>1, <1>4, <1>6, <1>7

\* the clients of a session execute only runs that occupy slots
LEMMA LoadIsOccupied ==
  ASSUME SlotInv, NEW s \in Sessions
  PROVE  Cardinality(SlotsOfAll(Executing(s))) \in Nat /\ Cardinality(SlotsOfAll(Executing(s))) <= active[s]
<1>1. SlotsOfAll(Executing(s)) \in SUBSET SlotsOfAll(Occupying(s))
  BY DEF SlotsOfAll, Executing, Occupying, Occupies
<1>2. /\ IsFiniteSet(SlotsOfAll(Occupying(s)))
      /\ Cardinality(SlotsOfAll(Occupying(s))) <= active[s] /\ active[s] \in Nat
  BY CoversOccupied DEF SlotInv, TypeOK, RecordsOK
<1>3. IsFiniteSet(SlotsOfAll(Executing(s)))
      /\ Cardinality(SlotsOfAll(Executing(s))) <= Cardinality(SlotsOfAll(Occupying(s)))
  BY <1>1, <1>2, FS_Subset
<1>4. Cardinality(SlotsOfAll(Executing(s))) \in Nat /\ Cardinality(SlotsOfAll(Occupying(s))) \in Nat
  BY <1>2, <1>3, FS_CardinalityType
<1> QED BY <1>2, <1>3, <1>4

\* Overlapping dequeues may count a run twice and leak its slots, but atomic_accept_run,
\* adjust_active and the order of the writes in release and mark_failed never let a slot in use
\* be counted as free, however many threads submit, end and dequeue at once.
THEOREM NoSlotIsCountedFree == Simple => (Spec => []NeverUndercounted)
<1> SUFFICES ASSUME Simple PROVE Spec => []NeverUndercounted
  OBVIOUS
<1>1. Init => SlotInv
  BY SlotInit
<1>2. SlotInv /\ [Next]_vars => SlotInv'
  BY SlotStep
<1>3. SlotInv => NeverUndercounted
  <2> SUFFICES ASSUME SlotInv, NEW s \in Sessions PROVE active[s] >= OccupiedSlots(s)
    BY DEF NeverUndercounted
  <2>1. IsFiniteSet(SlotsOfAll(Occupying(s))) /\ Cardinality(SlotsOfAll(Occupying(s))) <= active[s]
    BY CoversOccupied
  <2>2. Cardinality(SlotsOfAll(Occupying(s))) \in Nat /\ active[s] \in Nat
    BY <2>1, FS_CardinalityType DEF SlotInv, TypeOK, RecordsOK
  <2>3. OccupiedSlots(s) = Cardinality(SlotsOfAll(Occupying(s)))
    BY DEF OccupiedSlots, Occupying
  <2> QED BY <2>1, <2>2, <2>3
<1> QED BY <1>1, <1>2, <1>3, PTL DEF Spec

\* Unless runs are ended twice, the accepted ones never need more than max_parallel_per_session slots, with
\* any number of threads and under either policy.
THEOREM LoadStaysWithinCap == Simple => (Spec => []LoadWithinCap)
<1> SUFFICES ASSUME Simple PROVE Spec => []LoadWithinCap
  OBVIOUS
<1>1. Init => SlotInv
  BY SlotInit
<1>2. SlotInv /\ [Next]_vars => SlotInv'
  BY SlotStep
<1>3. SlotInv /\ ActiveWithinCap => LoadWithinCap
  <2> SUFFICES ASSUME SlotInv, ActiveWithinCap, NEW s \in Sessions
               PROVE  Cardinality(SlotsOfAll(Executing(s))) <= Cap
    BY DEF LoadWithinCap
  <2>1. Cardinality(SlotsOfAll(Executing(s))) \in Nat /\ Cardinality(SlotsOfAll(Executing(s))) <= active[s]
    BY LoadIsOccupied
  <2>2. active[s] \in Nat /\ active[s] <= Cap /\ Cap \in Nat
    BY CapAssumption DEF ActiveWithinCap, SlotInv, TypeOK, RecordsOK, CapAssumption
  <2> QED BY <2>1, <2>2
<1> QED BY <1>1, <1>2, <1>3, CounterWithinCap, PTL DEF Spec

-----------------------------------------------------------------------------
(* The same with concurrency_policy "reject": the counters are exact and the  *)
(* scheduler implements Admission.                                          *)

Rejecting == Simple /\ Policy = "reject"

-----------------------------------------------------------------------------
(* What the runs and threads look like when nothing ever waits in line.      *)

PlaceInv ==
    \A t \in Threads :
        /\ pc[t] \in {"idle", "accept", "list"} \cup EndLabels
        /\ pc[t] = "accept" => op[t] = "submit"
        /\ op[t] = "submit" => pc[t] \in {"accept", "list"}
        /\ op[t] \notin {"sweep", "enqueue"}

\* a submission in progress has no answer and no other thread; before its accept it has no record
SubmitInv ==
    /\ \A t \in Threads : op[t] = "submit" => reply[run[t]] = "none"
    /\ \A t, u \in Threads : op[t] = "submit" /\ op[u] = "submit" /\ run[t] = run[u] => t = u
    /\ \A t \in Threads : pc[t] = "accept" => status[run[t]] = "none"

\* a run with a record was accepted, or is about to be answered so
RecordInv ==
    \A r \in Runs :
        /\ status[r] # "queued" /\ created[r] = 0
        /\ status[r] # "none" =>
             \/ reply[r] = "accepted"
             \/ reply[r] = "none" /\ \E t \in Threads : run[t] = r /\ op[t] = "submit"

\* one call at a time ends a run, and the run is still accepted
EnderInv ==
    \A t \in Threads : pc[t] \in EndLabels =>
        /\ status[run[t]] = "accepted" /\ ends[run[t]] >= 1
        /\ \A u \in Threads : pc[u] \in EndLabels /\ run[u] = run[t] => u = t

RejectInv == TypeOK /\ PlaceInv /\ SubmitInv /\ RecordInv /\ EnderInv

-----------------------------------------------------------------------------
(* The steps of a thread, in what they do to the variables above.            *)

Moves(t, l, o, r) ==
    /\ pc' = [pc EXCEPT ![t] = l]
    /\ op' = [op EXCEPT ![t] = o]
    /\ run' = [run EXCEPT ![t] = r]

\* a new submission: no call is about it
Unseen(r) == reply[r] = "none" /\ \A u \in Threads : run[u] # r

Replays(r) ==
    /\ Unseen(r)
    /\ reply' = [reply EXCEPT ![r] = "replay"]
    /\ UNCHANGED <<status, created, active, pc, op, run, ends>>

Submits(t, r) ==
    /\ pc[t] = "idle" /\ Unseen(r)
    /\ Moves(t, "accept", "submit", r)
    /\ UNCHANGED <<status, created, active, reply, ends>>

BeginsEnd(t, r) ==
    /\ pc[t] = "idle" /\ status[r] = "accepted" /\ ends[r] = 0
    /\ ends' = [ends EXCEPT ![r] = 1]
    /\ \E l \in {"release_slot", "fail_slot"}, o \in {"release", "fail"} : Moves(t, l, o, r)
    /\ UNCHANGED <<status, created, active, reply>>

Admits(t, r) ==
    /\ pc[t] = "accept" /\ run[t] = r
    /\ active[SessionOf[r]] + SlotsOf[r] <= Cap
    /\ active' = [active EXCEPT ![SessionOf[r]] = active[SessionOf[r]] + SlotsOf[r]]
    /\ status' = [status EXCEPT ![r] = "accepted"]
    /\ pc' = [pc EXCEPT ![t] = "list"]
    /\ UNCHANGED <<created, op, run, reply, ends>>

Refuses(t, r) ==
    /\ pc[t] = "accept" /\ run[t] = r
    /\ reply' = [reply EXCEPT ![r] = "rejected"]
    /\ Moves(t, "idle", "none", NoRun)
    /\ UNCHANGED <<status, created, active, ends>>

Returns(t, r) ==
    /\ pc[t] = "list" /\ run[t] = r
    /\ reply' = IF op[t] = "submit" THEN [reply EXCEPT ![r] = "accepted"] ELSE reply
    /\ Moves(t, "idle", "none", NoRun)
    /\ UNCHANGED <<status, created, active, ends>>

Frees(t, r) ==
    /\ pc[t] \in {"release_slot", "fail_slot"} /\ run[t] = r
    /\ FreeSlots(r)
    /\ \E l \in {"release_mark", "fail_mark"} : pc' = [pc EXCEPT ![t] = l]
    /\ UNCHANGED <<status, created, op, run, reply, ends>>

Marks(t, r) ==
    /\ pc[t] \in {"release_mark", "fail_mark"} /\ run[t] = r
    /\ \E st \in {"done", "failed"} : status' = [status EXCEPT ![r] = st]
    /\ pc' = [pc EXCEPT ![t] = "list"]
    /\ UNCHANGED <<created, active, op, run, reply, ends>>

LEMMA EightSteps ==
  ASSUME Rejecting, RejectInv, NEW t \in Threads, Start(t) \/ Continue(t)
  PROVE  \E r \in Runs : \/ Replays(r) \/ Submits(t, r) \/ BeginsEnd(t, r) \/ Admits(t, r)
                         \/ Refuses(t, r) \/ Returns(t, r) \/ Frees(t, r) \/ Marks(t, r)
<1> USE DEF RejectInv
<1>t. /\ pc[t] \notin {"idle", "sweep"} => run[t] \in Runs
      /\ \A r \in Runs : TenantOf[r] = NoTenant /\ ends[r] \in Nat
      /\ Policy = "reject" /\ t \notin Sweepers
  BY RunAt DEF TypeOK, ClientsOK, Rejecting, Simple
<1>p. /\ pc[t] \in {"idle", "accept", "list"} \cup EndLabels
      /\ pc[t] = "accept" => op[t] = "submit"
      /\ op[t] \notin {"sweep", "enqueue"}
  BY DEF PlaceInv
<1>1. ASSUME NEW r \in Runs, Submit(t, r) PROVE Replays(r) \/ Submits(t, r)
  BY <1>1 DEF Submit, Replays, Submits, Unseen, Moves, Goto, recordVars
<1>2. ASSUME NEW r \in Runs, Release(t, r) \/ MarkFailed(t, r) PROVE BeginsEnd(t, r)
  <2>1. status[r] = "accepted"
    BY <1>2 DEF Release, MarkFailed, Live, RecordInv
  <2>2. \E l \in {"release_slot", "fail_slot"}, o \in {"release", "fail"} : Moves(t, l, o, r)
    BY <1>2, <2>1 DEF Release, MarkFailed, FailLabel, Call, Goto, Moves
  <2>3. ClientEnds(t, r)
    BY <1>2 DEF Release, MarkFailed
  <2>4. ends[r] = 0 /\ ends' = [ends EXCEPT ![r] = 1]
    <3>1. ends[r] = 0
      BY <2>3, <1>t, BoundAssumption DEF ClientEnds, Rejecting, Simple, BoundAssumption
    <3>2. ends' = [ends EXCEPT ![r] = ends[r] + 1] /\ ends[r] + 1 = 1
      BY <2>3, <3>1 DEF ClientEnds
    <3> QED BY <3>1, <3>2
  <2> QED BY <2>1, <2>2, <2>3, <2>4 DEF ClientEnds, BeginsEnd, recordVars
<1>3. CASE Accept(t)
  <2> DEFINE r == run[t]
  <2>1. pc[t] = "accept" /\ r \in Runs
    BY <1>3, <1>t DEF Accept
  <2>2. CASE Fits(r)
    <3>1. active[SessionOf[r]] + SlotsOf[r] \in Nat
      BY <2>1, RunConstants DEF TypeOK, RecordsOK
    <3>2. NonNegative(active[SessionOf[r]] + SlotsOf[r]) = active[SessionOf[r]] + SlotsOf[r]
      BY <3>1 DEF NonNegative
    <3>3. active' = [active EXCEPT ![SessionOf[r]] = NonNegative(active[SessionOf[r]] + SlotsOf[r])]
      BY <1>3, <2>2 DEF Accept, TakeSlots, SetActive
    <3>4. active' = [active EXCEPT ![SessionOf[r]] = active[SessionOf[r]] + SlotsOf[r]]
      BY <3>2, <3>3
    <3> QED BY <1>3, <1>t, <2>1, <2>2, <3>4 DEF Accept, Admits, Fits, Goto, clientVars
  <2>3. CASE ~Fits(r)
    BY <1>3, <1>t, <2>1, <2>3 DEF Accept, Refuses, Answer, Leave, Goto, Moves, recordVars
  <2> QED BY <2>1, <2>2, <2>3
<1>4. CASE ListQueued(t)
  <2>1. pc[t] = "list" /\ run[t] \in Runs
    BY <1>4, <1>t DEF ListQueued
  <2>2. QueuedFor(run[t]) = {}
    BY DEF QueuedFor, RecordInv
  <2>3. DequeueReturns(t, {}) /\ UNCHANGED <<recordVars, ends>>
    BY <1>4, <2>2 DEF ListQueued
  <2>4. Moves(t, "idle", "none", NoRun)
    BY <2>1, <2>3, <1>t, <1>p DEF DequeueReturns, Goto, Moves
  <2>5. reply' = IF op[t] = "submit" THEN [reply EXCEPT ![run[t]] = "accepted"] ELSE reply
    BY <2>3 DEF DequeueReturns
  <2> QED BY <2>1, <2>3, <2>4, <2>5 DEF Returns, recordVars
<1>5. CASE ReleaseSlot(t) \/ FailSlot(t)
  BY <1>5, <1>t DEF ReleaseSlot, FailSlot, Frees, Goto, clientVars
<1>6. CASE ReleaseMark(t) \/ FailMark(t)
  BY <1>6, <1>t, <1>p DEF ReleaseMark, FailMark, Marks, MarkStatus, Goto, clientVars, EndLabels
<1> QED
  BY <1>1, <1>2, <1>3, <1>4, <1>5, <1>6, <1>t, <1>p
     DEF EndLabels, Start, Continue, ReserveQuotas, CheckSoftQuotas, RollbackSlot, RollbackMark,
         RollbackQuota, SaveQueued, Confirm, GetHead, Take, Clobber, DequeueMark, Dispatch, DequeueReserve,
         DequeueUndo, DequeueSoft, RestoreSlot, RestoreMark, RestoreQuota, ReleaseQuota, FailQuota, SweepNext,
         SweepFails

\* what a step does to one thread, and to the others
LEMMA MovesAt ==
  ASSUME ControlOK, NEW t \in Threads
  PROVE  /\ \A l : pc' = [pc EXCEPT ![t] = l] => pc'[t] = l /\ \A u \in Threads \ {t} : pc'[u] = pc[u]
         /\ \A l, o, r : Moves(t, l, o, r) =>
              /\ pc'[t] = l /\ op'[t] = o /\ run'[t] = r
              /\ \A u \in Threads \ {t} : pc'[u] = pc[u] /\ op'[u] = op[u] /\ run'[u] = run[u]
  BY DEF ControlOK, Moves

LEMMA PlaceStep ==
  ASSUME Rejecting, RejectInv, NEW t \in Threads, Start(t) \/ Continue(t)
  PROVE  PlaceInv'
<1> USE DEF RejectInv, TypeOK
<1>1. Elsewhere(t)
  BY OneMoves
<1>p. \A u \in Threads :
          /\ pc[u] \in {"idle", "accept", "list"} \cup EndLabels
          /\ pc[u] = "accept" => op[u] = "submit"
          /\ op[u] = "submit" => pc[u] \in {"accept", "list"}
          /\ op[u] \notin {"sweep", "enqueue"}
  BY DEF PlaceInv
<1>2. /\ pc'[t] \in {"idle", "accept", "list"} \cup EndLabels
      /\ pc'[t] = "accept" => op'[t] = "submit"
      /\ op'[t] = "submit" => pc'[t] \in {"accept", "list"}
      /\ op'[t] \notin {"sweep", "enqueue"}
  <2>1. PICK r \in Runs : \/ Replays(r) \/ Submits(t, r) \/ BeginsEnd(t, r) \/ Admits(t, r)
                          \/ Refuses(t, r) \/ Returns(t, r) \/ Frees(t, r) \/ Marks(t, r)
    BY EightSteps
  <2>2. CASE Replays(r)
    BY <1>p, <2>2 DEF Replays
  <2>3. CASE Submits(t, r)
    BY <2>3, MovesAt DEF Submits
  <2>4. CASE BeginsEnd(t, r)
    BY <2>4, MovesAt DEF BeginsEnd, EndLabels
  <2>5. CASE Admits(t, r)
    BY <1>p, <2>5, MovesAt DEF Admits
  <2>6. CASE Refuses(t, r) \/ Returns(t, r)
    BY <2>6, MovesAt DEF Refuses, Returns
  <2>7. CASE Frees(t, r)
    BY <1>p, <2>7, MovesAt DEF Frees, EndLabels
  <2>8. CASE Marks(t, r)
    BY <1>p, <2>8, MovesAt DEF Marks, EndLabels
  <2> QED BY <2>1, <2>2, <2>3, <2>4, <2>5, <2>6, <2>7, <2>8
<1> QED BY <1>1, <1>p, <1>2 DEF PlaceInv, Elsewhere, EndLabels

LEMMA SubmitStep ==
  ASSUME Rejecting, RejectInv, NEW t \in Threads, NEW r \in Runs,
         \/ Replays(r) \/ Submits(t, r) \/ BeginsEnd(t, r) \/ Admits(t, r)
         \/ Refuses(t, r) \/ Returns(t, r) \/ Frees(t, r) \/ Marks(t, r)
  PROVE  SubmitInv'
<1> USE DEF RejectInv, TypeOK, SubmitInv
<1>t. /\ reply \in [Runs -> Replies] /\ status \in [Runs -> Statuses]
      /\ \A u \in Threads : pc[u] \notin {"idle", "sweep"} => run[u] \in Runs
  BY RunAt DEF ClientsOK, RecordsOK
<1>p. \A u \in Threads :
          /\ op[u] = "submit" => pc[u] \in {"accept", "list"} /\ run[u] \in Runs
          /\ pc[u] = "accept" => op[u] = "submit"
  BY <1>t DEF PlaceInv
<1>1. CASE Replays(r)
  BY <1>1, <1>t, <1>p DEF Replays, Unseen
<1>2. CASE Submits(t, r)
  <2>1. status[r] = "none"
    BY <1>2 DEF Submits, Unseen, RecordInv
  <2>2. /\ pc'[t] = "accept" /\ op'[t] = "submit" /\ run'[t] = r
        /\ \A u \in Threads \ {t} : pc'[u] = pc[u] /\ op'[u] = op[u] /\ run'[u] = run[u] /\ run[u] # r
    BY <1>2, MovesAt DEF Submits, Unseen
  <2> QED BY <1>2, <2>1, <2>2 DEF Submits, Unseen
<1>3. CASE BeginsEnd(t, r)
  <2>1. /\ op'[t] # "submit" /\ pc'[t] # "accept"
        /\ \A u \in Threads \ {t} : pc'[u] = pc[u] /\ op'[u] = op[u] /\ run'[u] = run[u]
    BY <1>3, MovesAt DEF BeginsEnd
  <2> QED BY <1>3, <2>1 DEF BeginsEnd
<1>4. CASE Admits(t, r)
  <2>1. /\ pc'[t] = "list" /\ op[t] = "submit" /\ run[t] = r
        /\ \A u \in Threads \ {t} : pc'[u] = pc[u]
    <3>1. pc[t] = "accept" /\ run[t] = r /\ pc' = [pc EXCEPT ![t] = "list"]
      BY <1>4 DEF Admits
    <3>2. pc'[t] = "list" /\ \A u \in Threads \ {t} : pc'[u] = pc[u]
      BY <3>1, MovesAt
    <3> QED BY <1>p, <3>1, <3>2
  <2>2. ASSUME NEW u \in Threads, pc'[u] = "accept" PROVE status'[run'[u]] = "none"
    <3>1. u # t /\ pc[u] = "accept" /\ run[u] # r
      BY <2>1, <2>2, <1>p
    <3> QED BY <1>4, <1>t, <3>1 DEF Admits
  <2> QED BY <1>4, <2>2 DEF Admits
<1>5. CASE Refuses(t, r) \/ (Returns(t, r) /\ op[t] = "submit")
  <2>1. /\ pc'[t] = "idle" /\ op'[t] = "none" /\ op[t] = "submit" /\ run[t] = r
        /\ \A u \in Threads \ {t} : pc'[u] = pc[u] /\ op'[u] = op[u] /\ run'[u] = run[u]
    BY <1>5, <1>p, MovesAt DEF Refuses, Returns
  <2>2. \A q \in Runs \ {r} : reply'[q] = reply[q]
    BY <1>5, <1>t DEF Refuses, Returns
  <2>3. \A u \in Threads : op'[u] = "submit" => reply'[run'[u]] = "none"
    BY <1>p, <2>1, <2>2
  <2> QED BY <1>5, <2>1, <2>3 DEF Refuses, Returns
<1>6. CASE Returns(t, r) /\ op[t] # "submit"
  <2>1. /\ pc'[t] = "idle" /\ op'[t] = "none"
        /\ \A u \in Threads \ {t} : pc'[u] = pc[u] /\ op'[u] = op[u] /\ run'[u] = run[u]
    BY <1>6, MovesAt DEF Returns
  <2> QED BY <1>6, <2>1 DEF Returns
<1>7. CASE Frees(t, r)
  <2>1. pc'[t] # "accept" /\ \A u \in Threads \ {t} : pc'[u] = pc[u]
    BY <1>7, MovesAt DEF Frees
  <2> QED BY <1>7, <2>1 DEF Frees
<1>8. CASE Marks(t, r)
  <2>1. pc'[t] # "accept" /\ \A u \in Threads \ {t} : pc'[u] = pc[u]
    BY <1>8, MovesAt DEF Marks
  <2>2. status[r] = "accepted" /\ \A q \in Runs \ {r} : status'[q] = status[q]
    BY <1>8, <1>t DEF Marks, EnderInv, EndLabels
  <2>3. \A u \in Threads : pc'[u] = "accept" => status'[run'[u]] = "none"
    BY <1>8, <1>t, <2>1, <2>2 DEF Marks
  <2> QED BY <1>8, <2>3 DEF Marks
<1> QED BY <1>1, <1>2, <1>3, <1>4, <1>5, <1>6, <1>7, <1>8

LEMMA RecordStep ==
  ASSUME Rejecting, RejectInv, NEW t \in Threads, NEW r \in Runs,
         \/ Replays(r) \/ Submits(t, r) \/ BeginsEnd(t, r) \/ Admits(t, r)
         \/ Refuses(t, r) \/ Returns(t, r) \/ Frees(t, r) \/ Marks(t, r)
  PROVE  RecordInv'
<1> USE DEF RejectInv, TypeOK, RecordInv
<1>t. /\ reply \in [Runs -> Replies] /\ status \in [Runs -> Statuses]
      /\ \A u \in Threads : pc[u] \notin {"idle", "sweep"} => run[u] \in Runs
  BY RunAt DEF ClientsOK, RecordsOK
<1>p. \A u \in Threads :
          /\ op[u] = "submit" => pc[u] \in {"accept", "list"} /\ reply[run[u]] = "none"
          /\ pc[u] = "accept" => op[u] = "submit" /\ status[run[u]] = "none"
  BY DEF PlaceInv, SubmitInv
<1>1. CASE Replays(r)
  <2>1. status[r] = "none"
    BY <1>1 DEF Replays, Unseen
  <2> QED BY <1>1, <1>t, <2>1 DEF Replays
<1>2. CASE Submits(t, r) \/ BeginsEnd(t, r)
  <2>1. /\ op[t] # "submit" /\ UNCHANGED <<status, created, reply>>
        /\ \A u \in Threads \ {t} : op'[u] = op[u] /\ run'[u] = run[u]
    BY <1>2, <1>p, MovesAt DEF Submits, BeginsEnd
  <2> QED BY <2>1
<1>3. CASE Admits(t, r)
  <2>1. op[t] = "submit" /\ run[t] = r /\ reply[r] = "none"
    BY <1>3, <1>p DEF Admits
  <2> QED BY <1>3, <1>t, <2>1 DEF Admits
<1>4. CASE Refuses(t, r)
  <2>1. /\ status[r] = "none" /\ run[t] = r /\ UNCHANGED <<status, created>>
        /\ \A q \in Runs \ {r} : reply'[q] = reply[q]
        /\ \A u \in Threads \ {t} : op'[u] = op[u] /\ run'[u] = run[u]
    BY <1>4, <1>t, <1>p, MovesAt DEF Refuses
  <2> QED BY <2>1
<1>5. CASE Returns(t, r)
  <2>1. /\ run[t] = r /\ UNCHANGED <<status, created>>
        /\ \A q \in Runs \ {r} : reply'[q] = reply[q]
        /\ IF op[t] = "submit" THEN reply'[r] = "accepted" ELSE reply'[r] = reply[r]
        /\ \A u \in Threads \ {t} : op'[u] = op[u] /\ run'[u] = run[u]
    BY <1>5, <1>t, MovesAt DEF Returns
  <2> QED BY <2>1
<1>6. CASE Frees(t, r)
  BY <1>6 DEF Frees
<1>7. CASE Marks(t, r)
  <2>1. /\ status[r] = "accepted" /\ UNCHANGED <<created, op, run, reply>>
        /\ status'[r] # "queued" /\ \A q \in Runs \ {r} : status'[q] = status[q]
    BY <1>7, <1>t DEF Marks, EnderInv, EndLabels
  <2> QED BY <2>1
<1> QED BY <1>1, <1>2, <1>3, <1>4, <1>5, <1>6, <1>7

LEMMA EnderStep ==
  ASSUME Rejecting, RejectInv, NEW t \in Threads, NEW r \in Runs,
         \/ Replays(r) \/ Submits(t, r) \/ BeginsEnd(t, r) \/ Admits(t, r)
         \/ Refuses(t, r) \/ Returns(t, r) \/ Frees(t, r) \/ Marks(t, r)
  PROVE  EnderInv'
<1> USE DEF RejectInv, TypeOK, EnderInv
<1>t. /\ status \in [Runs -> Statuses] /\ ends \in [Runs -> Nat]
      /\ \A u \in Threads : pc[u] \notin {"idle", "sweep"} => run[u] \in Runs
  BY RunAt DEF ClientsOK, RecordsOK
<1>1. CASE Replays(r)
  BY <1>1 DEF Replays
<1>2. CASE Submits(t, r) \/ Refuses(t, r) \/ Returns(t, r)
  <2>1. /\ pc'[t] \notin EndLabels /\ UNCHANGED <<status, ends>>
        /\ \A u \in Threads \ {t} : pc'[u] = pc[u] /\ run'[u] = run[u]
    BY <1>2, MovesAt DEF Submits, Refuses, Returns, EndLabels
  <2> QED BY <2>1
<1>3. CASE BeginsEnd(t, r)
  <2>1. /\ run'[t] = r /\ status[r] = "accepted" /\ ends[r] = 0 /\ ends'[r] = 1 /\ UNCHANGED status
        /\ \A u \in Threads \ {t} : pc'[u] = pc[u] /\ run'[u] = run[u]
        /\ \A q \in Runs \ {r} : ends'[q] = ends[q]
    BY <1>3, <1>t, MovesAt DEF BeginsEnd
  <2>2. \A u \in Threads : pc[u] \in EndLabels => run[u] \in Runs /\ run[u] # r
    BY <1>t, <2>1 DEF EndLabels
  <2> QED BY <2>1, <2>2
<1>4. CASE Admits(t, r)
  <2>1. /\ pc'[t] \notin EndLabels /\ UNCHANGED <<run, ends>>
        /\ \A u \in Threads \ {t} : pc'[u] = pc[u]
        /\ status'[r] = "accepted" /\ \A q \in Runs \ {r} : status'[q] = status[q]
    BY <1>4, <1>t, MovesAt DEF Admits, EndLabels
  <2>2. \A u \in Threads : pc[u] \in EndLabels => run[u] \in Runs
    BY <1>t DEF EndLabels
  <2> QED BY <2>1, <2>2
<1>5. CASE Frees(t, r)
  <2>1. /\ pc[t] \in EndLabels /\ UNCHANGED <<status, run, ends>>
        /\ \A u \in Threads \ {t} : pc'[u] = pc[u]
    BY <1>5, MovesAt DEF Frees, EndLabels
  <2> QED BY <2>1
<1>6. CASE Marks(t, r)
  <2>1. /\ pc[t] \in EndLabels /\ run[t] = r /\ pc'[t] \notin EndLabels /\ UNCHANGED <<run, ends>>
        /\ \A u \in Threads \ {t} : pc'[u] = pc[u]
        /\ \A q \in Runs \ {r} : status'[q] = status[q]
    <3>1. pc[t] \in EndLabels /\ run[t] = r /\ UNCHANGED <<run, ends>> /\ pc' = [pc EXCEPT ![t] = "list"]
      BY <1>6 DEF Marks, EndLabels
    <3>2. pc'[t] = "list" /\ \A u \in Threads \ {t} : pc'[u] = pc[u]
      BY <3>1, MovesAt
    <3>3. \A q \in Runs \ {r} : status'[q] = status[q]
      BY <1>6, <1>t DEF Marks
    <3> QED BY <3>1, <3>2, <3>3 DEF EndLabels
  <2>2. \A u \in Threads : pc[u] \in EndLabels => run[u] \in Runs
    BY <1>t DEF EndLabels
  <2> QED BY <2>1, <2>2
<1> QED BY <1>1, <1>2, <1>3, <1>4, <1>5, <1>6

-----------------------------------------------------------------------------
(* Which runs use slots, and how a step changes that.                        *)

Freed(r) == \E t \in Threads : run[t] = r /\ pc[t] \in {"release_mark", "fail_mark"}
Uses(r)  == status[r] = "accepted" /\ ~Freed(r)
Users(s) == {r \in Runs : SessionOf[r] = s /\ Uses(r)}

\* the counter is the number of slots of the runs that use some
ExactInv ==
    \A s \in Sessions : /\ IsFiniteSet(Blocks(Users(s), SlotsOf))
                        /\ Cardinality(Blocks(Users(s), SlotsOf)) = active[s]

LEMMA FreedKept ==
  ASSUME NEW t \in Threads, Elsewhere(t), NEW r,
         \/ run[t] # r /\ run'[t] # r
         \/ pc[t] \notin {"release_mark", "fail_mark"} /\ pc'[t] \notin {"release_mark", "fail_mark"}
  PROVE  Freed(r)' = Freed(r)
<1>1. Freed(r) => Freed(r)'
  BY DEF Freed, Elsewhere
<1>2. Freed(r)' => Freed(r)
  BY DEF Freed, Elsewhere
<1> QED BY <1>1, <1>2 DEF Freed

LEMMA UsesMove ==
  ASSUME RejectInv, NEW t \in Threads, Elsewhere(t), NEW r \in Runs
  PROVE  /\ Replays(r) \/ Submits(t, r) \/ BeginsEnd(t, r) \/ Refuses(t, r) \/ Returns(t, r) \/ Marks(t, r)
            => \A q \in Runs : Uses(q)' = Uses(q)
         /\ Admits(t, r) => ~Uses(r) /\ Uses(r)' /\ \A q \in Runs \ {r} : Uses(q)' = Uses(q)
         /\ Frees(t, r) => Uses(r) /\ ~Uses(r)' /\ \A q \in Runs \ {r} : Uses(q)' = Uses(q)
<1> USE DEF RejectInv, TypeOK
<1>t. /\ status \in [Runs -> Statuses] /\ pc \in [Threads -> Labels] /\ run \in [Threads -> Runs \cup {NoRun}]
  BY DEF RecordsOK, ControlOK
<1>e. /\ pc[t] = "accept" => status[run[t]] = "none"
      /\ \A u \in Threads : pc[u] \in EndLabels =>
           /\ status[run[u]] = "accepted"
           /\ \A v \in Threads : pc[v] \in EndLabels /\ run[v] = run[u] => v = u
  BY DEF SubmitInv, EnderInv
<1>1. ASSUME Replays(r) PROVE \A q \in Runs : Uses(q)' = Uses(q)
  BY <1>1 DEF Replays, Uses, Freed
<1>2. ASSUME Submits(t, r) \/ BeginsEnd(t, r) \/ Refuses(t, r) \/ Returns(t, r)
      PROVE  \A q \in Runs : Uses(q)' = Uses(q)
  <2>1. /\ pc[t] \notin {"release_mark", "fail_mark"} /\ pc'[t] \notin {"release_mark", "fail_mark"}
        /\ UNCHANGED status
    BY <1>2, MovesAt DEF Submits, BeginsEnd, Refuses, Returns
  <2> QED BY <2>1, FreedKept DEF Uses
<1>3. ASSUME Marks(t, r) PROVE \A q \in Runs : Uses(q)' = Uses(q)
  <2>1. run[t] = r /\ run'[t] = r /\ Freed(r)
    BY <1>3 DEF Marks, Freed
  <2>2. status'[r] # "accepted" /\ \A q \in Runs \ {r} : status'[q] = status[q]
    BY <1>3, <1>t DEF Marks
  <2>3. \A q \in Runs \ {r} : Freed(q)' = Freed(q)
    BY <2>1, FreedKept
  <2> QED BY <2>1, <2>2, <2>3 DEF Uses
<1>4. ASSUME Admits(t, r) PROVE ~Uses(r) /\ Uses(r)' /\ \A q \in Runs \ {r} : Uses(q)' = Uses(q)
  <2>1. /\ pc[t] = "accept" /\ pc'[t] = "list" /\ status[r] = "none"
        /\ status'[r] = "accepted" /\ \A q \in Runs \ {r} : status'[q] = status[q]
    BY <1>4, <1>t, <1>e DEF Admits
  <2>2. \A q \in Runs : Freed(q)' = Freed(q)
    BY <2>1, FreedKept
  <2>3. ~Freed(r)
    BY <1>e, <2>1 DEF Freed, EndLabels
  <2> QED BY <2>1, <2>2, <2>3 DEF Uses
<1>5. ASSUME Frees(t, r) PROVE Uses(r) /\ ~Uses(r)' /\ \A q \in Runs \ {r} : Uses(q)' = Uses(q)
  <2>1. /\ pc[t] \in {"release_slot", "fail_slot"} /\ pc'[t] \in {"release_mark", "fail_mark"}
        /\ run[t] = r /\ run'[t] = r /\ UNCHANGED status
    BY <1>5, <1>t DEF Frees
  <2>2. status[r] = "accepted" /\ ~Freed(r)
    BY <1>e, <2>1 DEF Freed, EndLabels
  <2>3. Freed(r)'
    BY <2>1 DEF Freed
  <2>4. \A q \in Runs \ {r} : Freed(q)' = Freed(q)
    BY <2>1, FreedKept
  <2> QED BY <2>1, <2>2, <2>3, <2>4 DEF Uses
<1> QED BY <1>1, <1>2, <1>3, <1>4, <1>5

LEMMA ExactStep ==
  ASSUME Rejecting, RejectInv, ExactInv, NEW t \in Threads, Elsewhere(t), NEW r \in Runs,
         \/ Replays(r) \/ Submits(t, r) \/ BeginsEnd(t, r) \/ Admits(t, r)
         \/ Refuses(t, r) \/ Returns(t, r) \/ Frees(t, r) \/ Marks(t, r)
  PROVE  ExactInv'
<1> SUFFICES ASSUME NEW s \in Sessions
             PROVE  /\ IsFiniteSet(Blocks(Users(s)', SlotsOf))
                    /\ Cardinality(Blocks(Users(s)', SlotsOf)) = active'[s]
  BY DEF ExactInv
<1>1. /\ IsFiniteSet(Blocks(Users(s), SlotsOf)) /\ Cardinality(Blocks(Users(s), SlotsOf)) = active[s]
      /\ active \in [Sessions -> Nat] /\ SlotsOf[r] \in Nat \ {0} /\ SessionOf[r] \in Sessions
  BY RunConstants DEF ExactInv, RejectInv, TypeOK, RecordsOK
<1>2. CASE Admits(t, r)
  <2>1. active' = [active EXCEPT ![SessionOf[r]] = active[SessionOf[r]] + SlotsOf[r]]
    BY <1>2 DEF Admits
  <2>2. CASE s = SessionOf[r]
    <3>1. Users(s)' = Users(s) \cup {r} /\ r \notin Users(s)
      BY <1>2, <2>2, UsesMove DEF Users
    <3>2. active'[s] = active[s] + SlotsOf[r]
      BY <1>1, <2>1, <2>2
    <3>3. /\ IsFiniteSet(Blocks(Users(s) \cup {r}, SlotsOf))
          /\ Cardinality(Blocks(Users(s) \cup {r}, SlotsOf)) = Cardinality(Blocks(Users(s), SlotsOf)) + SlotsOf[r]
      BY <1>1, <3>1, AddBlock
    <3> QED BY <1>1, <3>1, <3>2, <3>3
  <2>3. CASE s # SessionOf[r]
    <3>1. Users(s)' = Users(s)
      BY <1>2, <2>3, UsesMove DEF Users
    <3>2. active'[s] = active[s]
      BY <1>1, <2>1, <2>3
    <3> QED BY <1>1, <3>1, <3>2
  <2> QED BY <2>2, <2>3
<1>3. CASE Frees(t, r)
  <2>1. active' = [active EXCEPT ![SessionOf[r]] = NonNegative(active[SessionOf[r]] - SlotsOf[r])]
    BY <1>3 DEF Frees, FreeSlots, SetActive
  <2>2. CASE s = SessionOf[r]
    <3>1. Users(s)' = Users(s) \ {r} /\ r \in Users(s)
      BY <1>3, <2>2, UsesMove DEF Users
    <3>2. /\ IsFiniteSet(Blocks(Users(s) \ {r}, SlotsOf))
          /\ Cardinality(Blocks(Users(s) \ {r}, SlotsOf)) = Cardinality(Blocks(Users(s), SlotsOf)) - SlotsOf[r]
      BY <1>1, <3>1, RemoveBlock
    <3>3. active[s] - SlotsOf[r] \in Nat
      BY <1>1, <3>2, FS_CardinalityType
    <3>4. NonNegative(active[s] - SlotsOf[r]) = active[s] - SlotsOf[r]
      BY <3>3 DEF NonNegative
    <3>5. active'[s] = active[s] - SlotsOf[r]
      BY <1>1, <2>1, <2>2, <3>4
    <3> QED BY <1>1, <3>1, <3>2, <3>5
  <2>3. CASE s # SessionOf[r]
    <3>1. Users(s)' = Users(s)
      BY <1>3, <2>3, UsesMove DEF Users
    <3>2. active'[s] = active[s]
      BY <1>1, <2>1, <2>3
    <3> QED BY <1>1, <3>1, <3>2
  <2> QED BY <2>2, <2>3
<1>4. CASE Replays(r) \/ Submits(t, r) \/ BeginsEnd(t, r) \/ Refuses(t, r) \/ Returns(t, r) \/ Marks(t, r)
  <2>1. Users(s)' = Users(s)
    BY <1>4, UsesMove DEF Users
  <2>2. UNCHANGED active
    BY <1>4 DEF Replays, Submits, BeginsEnd, Refuses, Returns, Marks
  <2> QED BY <1>1, <2>1, <2>2
<1> QED BY <1>2, <1>3, <1>4

LEMMA ExactInit == Init => RejectInv /\ ExactInv
<1> SUFFICES ASSUME Init PROVE RejectInv /\ ExactInv
  OBVIOUS
<1>1. RejectInv
  BY TypeInit DEF Init, RejectInv, PlaceInv, SubmitInv, RecordInv, EnderInv, EndLabels
<1>2. ASSUME NEW s \in Sessions PROVE Users(s) = {} /\ active[s] = 0
  BY DEF Init, Users, Uses
<1>3. Blocks({}, SlotsOf) = {}
  BY DEF Blocks
<1> QED BY <1>1, <1>2, <1>3, FS_EmptySet DEF ExactInv

LEMMA ExactNext ==
  ASSUME Rejecting, RejectInv, ExactInv, [Next]_vars
  PROVE  RejectInv' /\ ExactInv'
<1>1. TypeOK'
  BY TypeKept DEF RejectInv
<1>2. CASE UNCHANGED <<status, created, active, pc, op, run, reply, ends>>
  <2>1. PlaceInv' /\ SubmitInv' /\ RecordInv' /\ EnderInv'
    BY <1>2 DEF RejectInv, PlaceInv, SubmitInv, RecordInv, EnderInv
  <2>2. \A s : Users(s)' = Users(s)
    BY <1>2 DEF Users, Uses, Freed
  <2> QED BY <1>1, <1>2, <2>1, <2>2 DEF RejectInv, ExactInv
<1>3. ASSUME NEW t \in Threads, Start(t) \/ Continue(t) PROVE RejectInv' /\ ExactInv'
  <2>1. PICK r \in Runs : \/ Replays(r) \/ Submits(t, r) \/ BeginsEnd(t, r) \/ Admits(t, r)
                          \/ Refuses(t, r) \/ Returns(t, r) \/ Frees(t, r) \/ Marks(t, r)
    BY <1>3, EightSteps
  <2>2. Elsewhere(t)
    BY <1>3, OneMoves DEF RejectInv
  <2>3. PlaceInv' /\ SubmitInv' /\ RecordInv' /\ EnderInv'
    BY <1>3, <2>1, PlaceStep, SubmitStep, RecordStep, EnderStep
  <2>4. ExactInv'
    BY <2>1, <2>2, ExactStep
  <2> QED BY <1>1, <2>3, <2>4 DEF RejectInv
<1>4. CASE World
  BY <1>2, <1>4 DEF World, Rollover, Heartbeat, BeatLapses, SpendTokens, recordVars, clientVars
<1> QED BY <1>2, <1>3, <1>4 DEF Next, vars, recordVars, clientVars

LEMMA FreedIs ==
  ASSUME TypeOK, PlaceInv, NEW r
  PROVE  SlotsFreed(r) = Freed(r) /\ ~SlotsTaken(r) /\ ~Pending(r)
<1>1. \A t \in Threads : op[t] \in Ops /\ pc[t] \in {"idle", "accept", "list"} \cup EndLabels
  BY DEF PlaceInv, TypeOK, ControlOK
<1> QED BY <1>1 DEF SlotsFreed, At, Freed, SlotsTaken, Taking, Pending, EndLabels

\* Under "reject", no interleaving of submissions, ends and failures leaks a slot or frees one
\* twice: the counter of a session is the number of slots its runs occupy.
THEOREM CountersAreExact == Rejecting => (Spec => []Accounting)
<1> SUFFICES ASSUME Rejecting PROVE Spec => []Accounting
  OBVIOUS
<1>1. Init => RejectInv /\ ExactInv
  BY ExactInit
<1>2. RejectInv /\ ExactInv /\ [Next]_vars => RejectInv' /\ ExactInv'
  BY ExactNext
<1>3. RejectInv /\ ExactInv => Accounting
  <2> SUFFICES ASSUME RejectInv, ExactInv, NEW s \in Sessions PROVE active[s] = OccupiedSlots(s)
    BY DEF Accounting
  <2>1. {r \in Runs : SessionOf[r] = s /\ Occupies(r)} = Users(s)
    BY FreedIs DEF RejectInv, Occupies, Users, Uses
  <2>2. SlotsOfAll(Users(s)) = Blocks(Users(s), SlotsOf)
    BY DEF SlotsOfAll, Blocks
  <2> QED BY <2>1, <2>2 DEF OccupiedSlots, ExactInv
<1> QED BY <1>1, <1>2, <1>3, PTL DEF Spec

-----------------------------------------------------------------------------
(* The scheduler implements Admission.                                      *)

Refused == {"rejected", "replay"}

\* what has become of a run, in terms of its record and its answer
LEMMA OutcomeIs ==
  ASSUME RejectInv, NEW r \in Runs
  PROVE  /\ reply[r] \in Refused => Outcome(r) = "refused"
         /\ reply[r] \notin Refused /\ status[r] = "none" => Outcome(r) = "new"
         /\ reply[r] \notin Refused /\ Uses(r) => Outcome(r) = "running"
         /\ reply[r] \notin Refused /\ status[r] # "none" /\ ~Uses(r) => Outcome(r) = "ended"
<1>1. ~Pending(r) /\ SlotsFreed(r) = Freed(r) /\ status[r] # "queued"
  BY FreedIs DEF RejectInv, RecordInv
<1> QED BY <1>1 DEF Outcome, Uses, Refused

LEMMA FreedIsNext ==
  ASSUME TypeOK', PlaceInv', NEW r
  PROVE  SlotsFreed(r)' = Freed(r)' /\ ~Pending(r)'
<1>1. \A t \in Threads : op'[t] \in Ops /\ pc'[t] \in {"idle", "accept", "list"} \cup EndLabels
  BY DEF PlaceInv, TypeOK, ControlOK
<1> QED BY <1>1 DEF SlotsFreed, At, Freed, Pending, EndLabels

LEMMA OutcomeIsNext ==
  ASSUME RejectInv', NEW r \in Runs
  PROVE  /\ reply'[r] \in Refused => Outcome(r)' = "refused"
         /\ reply'[r] \notin Refused /\ status'[r] = "none" => Outcome(r)' = "new"
         /\ reply'[r] \notin Refused /\ Uses(r)' => Outcome(r)' = "running"
         /\ reply'[r] \notin Refused /\ status'[r] # "none" /\ ~Uses(r)' => Outcome(r)' = "ended"
<1>1. ~Pending(r)' /\ SlotsFreed(r)' = Freed(r)' /\ status'[r] # "queued"
  BY FreedIsNext DEF RejectInv, RecordInv
<1> QED BY <1>1 DEF Outcome, Uses, Refused

\* a run to which nothing of this happens
LEMMA SameOutcome ==
  ASSUME RejectInv, RejectInv', NEW r \in Runs,
         reply'[r] \in Refused <=> reply[r] \in Refused,
         status'[r] = "none" <=> status[r] = "none", Uses(r)' = Uses(r)
  PROVE  Outcome(r)' = Outcome(r)
<1>1. Uses(r) => status[r] # "none"
  BY DEF Uses
<1> QED BY <1>1, OutcomeIs, OutcomeIsNext

OutcomeMap == [r \in Runs |-> Outcome(r)]
PlaceMap   == [r \in Runs |-> IF status[r] = "none" THEN 0 ELSE created[r]]

LEMMA MapsMove ==
  ASSUME NEW r \in Runs, NEW o, Outcome(r)' = o, \A q \in Runs \ {r} : Outcome(q)' = Outcome(q)
  PROVE  OutcomeMap' = [OutcomeMap EXCEPT ![r] = o]
  BY DEF OutcomeMap

LEMMA MapsStay ==
  ASSUME \A q \in Runs : Outcome(q)' = Outcome(q)
  PROVE  OutcomeMap' = OutcomeMap
  BY DEF OutcomeMap

LEMMA PlacesStay ==
  ASSUME RejectInv, RejectInv'
  PROVE  PlaceMap' = PlaceMap
<1>1. \A r \in Runs : created[r] = 0 /\ created'[r] = 0
  BY DEF RejectInv, RecordInv
<1> QED BY <1>1 DEF PlaceMap

\* the instance counts as this module does
LEMMA SameCount == \A S : Pool!Cardinality(S) = Cardinality(S)
  BY Zenon DEF Pool!Cardinality, Cardinality

LEMMA PoolStep ==
  ASSUME Rejecting, RejectInv, RejectInv', ExactInv, NEW t \in Threads, Elsewhere(t), NEW r \in Runs,
         \/ Replays(r) \/ Submits(t, r) \/ BeginsEnd(t, r) \/ Admits(t, r)
         \/ Refuses(t, r) \/ Returns(t, r) \/ Frees(t, r) \/ Marks(t, r)
  PROVE  [Pool!Next]_<<OutcomeMap, PlaceMap>>
<1>p. PlaceMap' = PlaceMap
  BY PlacesStay
<1>t. /\ reply \in [Runs -> Replies] /\ status \in [Runs -> Statuses]
      /\ pc[t] \notin {"idle", "sweep"} => run[t] \in Runs
  BY RunAt DEF RejectInv, TypeOK, ClientsOK, RecordsOK
<1>s. /\ op[t] = "submit" => reply[run[t]] = "none"
      /\ pc[t] = "accept" => op[t] = "submit" /\ status[run[t]] = "none"
  BY DEF RejectInv, SubmitInv, PlaceInv
\* it is refused
<1>1. CASE Replays(r) \/ Refuses(t, r)
  <2>1. /\ reply[r] = "none" /\ status[r] = "none" /\ reply'[r] \in Refused /\ UNCHANGED status
        /\ \A q \in Runs \ {r} : reply'[q] = reply[q]
    BY <1>1, <1>t, <1>s DEF Replays, Unseen, Refuses, Refused, RejectInv, RecordInv
  <2>2. Outcome(r) = "new" /\ Outcome(r)' = "refused"
    BY <2>1, OutcomeIs, OutcomeIsNext DEF Refused
  <2>3. \A q \in Runs \ {r} : Outcome(q)' = Outcome(q)
    BY <1>1, <2>1, UsesMove, SameOutcome
  <2>4. Pool!Refuse(r)
    BY <1>p, <2>2, <2>3, MapsMove DEF Pool!Refuse, Pool!Become, OutcomeMap, PlaceMap
  <2> QED BY <2>4 DEF Pool!Next
\* it is admitted
<1>2. CASE Admits(t, r)
  <2>1. /\ reply[r] = "none" /\ status[r] = "none" /\ UNCHANGED reply
        /\ status'[r] = "accepted" /\ \A q \in Runs \ {r} : status'[q] = status[q]
    BY <1>2, <1>t, <1>s DEF Admits
  <2>2. Outcome(r) = "new" /\ Outcome(r)' = "running"
    BY <1>2, <2>1, UsesMove, OutcomeIs, OutcomeIsNext DEF Refused
  <2>3. \A q \in Runs \ {r} : Outcome(q)' = Outcome(q)
    BY <1>2, <2>1, UsesMove, SameOutcome
  <2>4. Pool!HasRoom(r)
    <3> DEFINE s == SessionOf[r]
               S == Pool!Running(s) \cup {r}
    <3>1. s \in Sessions /\ SlotsOf[r] \in Nat \ {0} /\ r \notin Users(s)
      BY <1>2, RunConstants, UsesMove DEF Users
    <3>2. /\ IsFiniteSet(Blocks(Users(s) \cup {r}, SlotsOf))
          /\ Cardinality(Blocks(Users(s) \cup {r}, SlotsOf)) = active[s] + SlotsOf[r]
      BY <3>1, AddBlock DEF ExactInv
    <3>3. S \subseteq Users(s) \cup {r}
      <4>1. \A q \in Runs : Outcome(q) = "running" => Uses(q)
        BY OutcomeIs
      <4> QED BY <4>1 DEF Pool!Running, Users
    <3>4. IsFiniteSet(Blocks(S, SlotsOf)) /\ Cardinality(Blocks(S, SlotsOf)) <= active[s] + SlotsOf[r]
      BY <3>2, <3>3, FewerBlocks
    <3>5. Pool!SlotsOfAll(S) = Blocks(S, SlotsOf)
      BY DEF Pool!SlotsOfAll, Blocks
    <3>6. active[s] + SlotsOf[r] <= Cap /\ active[s] \in Nat /\ Cap \in Nat
      BY <1>2, <3>1, CapAssumption DEF Admits, CapAssumption, RejectInv, TypeOK, RecordsOK
    <3>7. Cardinality(Blocks(S, SlotsOf)) \in Nat
      BY <3>4, FS_CardinalityType
    <3>8. Cardinality(Blocks(S, SlotsOf)) <= Cap
      BY <3>1, <3>4, <3>6, <3>7
    <3> QED BY <3>5, <3>8, SameCount DEF Pool!HasRoom
  <2>5. Pool!Admit(r)
    BY <1>p, <2>2, <2>3, <2>4, MapsMove DEF Pool!Admit, Pool!Become, OutcomeMap, PlaceMap
  <2> QED BY <2>5 DEF Pool!Next
\* it ends: the slots are free, whatever is still to be written
<1>3. CASE Frees(t, r)
  <2>1. UNCHANGED <<reply, status>> /\ Uses(r) /\ ~Uses(r)'
    BY <1>3, UsesMove DEF Frees
  <2>2. reply[r] \notin Refused /\ status[r] # "none"
    BY <2>1 DEF RejectInv, RecordInv, Uses, Refused
  <2>3. Outcome(r) = "running" /\ Outcome(r)' = "ended"
    BY <2>1, <2>2, OutcomeIs, OutcomeIsNext
  <2>4. \A q \in Runs \ {r} : Outcome(q)' = Outcome(q)
    BY <1>3, <2>1, UsesMove, SameOutcome
  <2>5. Pool!End(r)
    BY <1>p, <2>3, <2>4, MapsMove DEF Pool!End, Pool!Become, OutcomeMap, PlaceMap
  <2> QED BY <2>5 DEF Pool!Next
\* nothing is to be seen
<1>4. CASE Submits(t, r) \/ BeginsEnd(t, r) \/ Returns(t, r) \/ Marks(t, r)
  <2>1. \A q \in Runs : Uses(q)' = Uses(q)
    BY <1>4, UsesMove
  <2>2. \A q \in Runs : reply'[q] \in Refused <=> reply[q] \in Refused
    <3>1. CASE UNCHANGED reply
      BY <3>1
    <3>2. CASE Returns(t, r) /\ op[t] = "submit"
      BY <1>t, <1>s, <3>2 DEF Returns, Refused
    <3> QED BY <1>4, <3>1, <3>2 DEF Submits, BeginsEnd, Returns, Marks
  <2>3. \A q \in Runs : status'[q] = "none" <=> status[q] = "none"
    <3>1. CASE UNCHANGED status
      BY <3>1
    <3>2. CASE Marks(t, r)
      BY <1>t, <3>2 DEF Marks, RejectInv, EnderInv, EndLabels
    <3> QED BY <1>4, <3>1, <3>2 DEF Submits, BeginsEnd, Returns
  <2>4. OutcomeMap' = OutcomeMap
    BY <2>1, <2>2, <2>3, SameOutcome, MapsStay
  <2> QED BY <1>p, <2>4
<1> QED BY <1>1, <1>2, <1>3, <1>4

LEMMA PoolInit == Init => Pool!Init
<1> SUFFICES ASSUME Init PROVE Pool!Init
  OBVIOUS
<1>1. RejectInv
  BY ExactInit
<1>2. ASSUME NEW r \in Runs PROVE Outcome(r) = "new" /\ status[r] = "none"
  <2>1. reply[r] = "none" /\ status[r] = "none"
    BY DEF Init
  <2> QED BY <1>1, <2>1, OutcomeIs DEF Refused
<1> QED BY <1>2 DEF Pool!Init

\* Under "reject", with threads, counters, locks and calls that end runs at any time, the
\* scheduler admits runs while they fit and ends or refuses them, and does nothing else: it is the
\* pool of slots that Admission describes.
THEOREM RejectingAdmits == Rejecting => (Spec => ImplementsAdmission)
<1> SUFFICES ASSUME Rejecting PROVE Spec => ImplementsAdmission
  OBVIOUS
<1>1. Init => Pool!Init
  BY PoolInit
<1>2. Init => RejectInv /\ ExactInv
  BY ExactInit
<1>3. RejectInv /\ ExactInv /\ [Next]_vars => RejectInv' /\ ExactInv'
  BY ExactNext
<1>4. RejectInv /\ ExactInv /\ RejectInv' /\ [Next]_vars => [Pool!Next]_<<OutcomeMap, PlaceMap>>
  <2> SUFFICES ASSUME RejectInv, ExactInv, RejectInv', [Next]_vars
               PROVE  [Pool!Next]_<<OutcomeMap, PlaceMap>>
    OBVIOUS
  <2>1. CASE UNCHANGED <<status, created, pc, op, run, reply>>
    BY <2>1 DEF OutcomeMap, PlaceMap, Outcome, Pending, SlotsFreed, At
  <2>2. ASSUME NEW t \in Threads, Start(t) \/ Continue(t)
        PROVE  [Pool!Next]_<<OutcomeMap, PlaceMap>>
    <3>1. PICK r \in Runs : \/ Replays(r) \/ Submits(t, r) \/ BeginsEnd(t, r) \/ Admits(t, r)
                            \/ Refuses(t, r) \/ Returns(t, r) \/ Frees(t, r) \/ Marks(t, r)
      BY <2>2, EightSteps
    <3>2. Elsewhere(t)
      BY <2>2, OneMoves DEF RejectInv
    <3> QED BY <3>1, <3>2, PoolStep
  <2>3. CASE World
    BY <2>1, <2>3 DEF World, Rollover, Heartbeat, BeatLapses, SpendTokens, recordVars, clientVars
  <2> QED BY <2>1, <2>2, <2>3 DEF Next, vars, recordVars, clientVars
<1> QED BY <1>1, <1>2, <1>3, <1>4, PTL DEF Spec, Pool!Spec, ImplementsAdmission, OutcomeMap, PlaceMap
=============================================================================
