------------------------- MODULE SchedulerLoneProofs -------------------------
(***************************************************************************)
(* Theorems about Scheduler in a single-threaded deployment, whatever the    *)
(* policy, the quotas, the sweeps and the ends that are repeated.  The first *)
(* part is about idempotency keys and rejected runs.  The second follows the *)
(* one call under way step by step: slots and quotas are counted exactly,    *)
(* ended runs stay ended, and the scheduler implements Admission.  The third *)
(* adds that there are no tenants: the queue is served, and in order.        *)
(***************************************************************************)
EXTENDS SchedulerProofs

-----------------------------------------------------------------------------
(* A single-threaded deployment: what submit promises for idempotency keys and *)
(* rejected runs.  With two threads neither holds: two submissions of one key   *)
(* may both look it up before one is accepted, and a run may be handed to a     *)
(* replay before its own submission is rolled back.                            *)

OneThread == \A t, u \in Threads : t = u

Submitting == {"submit", "enqueue"}

\* the labels at which submit may still reject its run
Trying == {"accept", "reserve", "soft", "rollback_slot", "rollback_mark", "rollback_quota"}

\* the labels at which a dequeue may still write the status of its run
Holding == {"take", "clobber", "dq_reserve", "dq_undo", "dq_soft", "restore_slot",
            "restore_mark", "dq_mark"}

\* where the call of t is and what it works on
CallInv(t) ==
    /\ op[t] \in Submitting => pc[t] \notin {"idle", "release_quota", "sweep", "fail_get"}
                               /\ reply[run[t]] = "none"
    /\ op[t] \in Submitting /\ pc[t] \notin {"accept", "save"} => status[run[t]] # "none"
    /\ pc[t] \in Trying \cup {"save", "confirm"} => op[t] \in Submitting
    /\ pc[t] \in {"accept", "save"} =>
         status[run[t]] = "none" /\ \A q \in Runs : SameKey(run[t], q) => ~Live(q)
    /\ pc[t] \in Trying => run[t] \notin known /\ dispatches[run[t]] = 0
    /\ pc[t] = "rollback_quota" => status[run[t]] = "failed"
    /\ pc[t] \in {"release_slot", "release_mark"} => Live(run[t])
    /\ pc[t] \in {"fail_get", "fail_slot", "fail_mark", "cancel_mark"} => status[run[t]] # "none"
    /\ pc[t] \in Holding => Live(cur[t])
    /\ pc[t] = "dispatch" => status[cur[t]] = "accepted"

\* a run with a record was answered or is being submitted; only a run with a record is handed out
HandedInv ==
    \A r \in Runs :
        /\ status[r] # "none" => \/ reply[r] # "none"
                                 \/ \E t \in Threads : run[t] = r /\ op[t] \in Submitting
        /\ status[r] = "none" => r \notin known /\ dispatches[r] = 0

LoneInv == (\A t \in Threads : CallInv(t)) /\ HandedInv /\ OneLiveRunPerKey /\ RejectedLeavesNothing

\* what a step of t may do to the record, the answer and the clients of r
Lawful(t, r) ==
    /\ status'[r] = "none" => status[r] = "none"
    /\ Live(r)' => Live(r) \/ (r = run[t] /\ pc[t] \in {"accept", "save"})
    /\ status'[r] \in {status[r], "failed"} \/ Live(r) \/ (r = run[t] /\ reply[r] = "none")
    /\ r \in known' => r \in known \/ (status'[r] # "none" /\ reply'[r] # "rejected")
    /\ dispatches'[r] = dispatches[r] \/ (status'[r] # "none" /\ reply'[r] # "rejected")
    /\ reply[r] # "none" => reply'[r] # "none"
    /\ reply'[r] = "rejected" => \/ reply[r] = "rejected"
                                 \/ /\ r = run[t] /\ pc[t] \in Trying /\ status'[r] \in {"none", "failed"}
                                    /\ UNCHANGED <<known, dispatches>>
    /\ status'[r] # "none" => \/ status[r] # "none" /\ reply[r] # "none"
                              \/ reply'[r] # "none"
                              \/ run'[t] = r /\ op'[t] \in Submitting

\* lawful steps keep the rest
LEMMA LawfulKeeps ==
  ASSUME TypeOK, LoneInv, NEW t \in Threads, OneThread, \A r \in Runs : Lawful(t, r)
  PROVE  HandedInv' /\ OneLiveRunPerKey' /\ RejectedLeavesNothing'
<1>1. /\ pc[t] \in Trying => run[t] \notin known /\ dispatches[run[t]] = 0
      /\ pc[t] \in {"accept", "save"} => \A q \in Runs : SameKey(run[t], q) => ~Live(q)
  BY DEF LoneInv, CallInv
<1>2. ASSUME NEW r \in Runs, NEW q \in Runs, r # q, SameKey(r, q)
      PROVE  ~(Live(r)' /\ Live(q)')
  <2>1. SameKey(q, r) /\ ~(Live(r) /\ Live(q))
    BY <1>2 DEF SameKey, LoneInv, OneLiveRunPerKey
  <2>2. /\ Live(r)' => Live(r) \/ (r = run[t] /\ pc[t] \in {"accept", "save"})
        /\ Live(q)' => Live(q) \/ (q = run[t] /\ pc[t] \in {"accept", "save"})
    BY DEF Lawful
  <2> QED BY <1>1, <1>2, <2>1, <2>2
<1>3. HandedInv'
  BY DEF Lawful, LoneInv, HandedInv
<1>4. ASSUME NEW r \in Runs, reply'[r] = "rejected"
      PROVE  status'[r] \in {"none", "failed"} /\ r \notin known' /\ dispatches'[r] = 0
  <2>1. CASE reply[r] = "rejected"
    <3>1. status[r] \in {"none", "failed"} /\ r \notin known /\ dispatches[r] = 0
      BY <2>1 DEF LoneInv, RejectedLeavesNothing
    <3>2. ~Live(r)
      BY <3>1 DEF Live
    <3> QED BY <1>4, <2>1, <3>1, <3>2 DEF Lawful
  <2>2. CASE reply[r] # "rejected"
    BY <1>1, <1>4, <2>2 DEF Lawful
  <2> QED BY <2>1, <2>2
<1> QED BY <1>2, <1>3, <1>4 DEF OneLiveRunPerKey, RejectedLeavesNothing, SameKey

\* a step that changes no record, answer or client
LEMMA IdleIsLawful ==
  ASSUME TypeOK, LoneInv, OneThread, NEW t \in Threads, UNCHANGED <<status, reply, known, dispatches>>,
         UNCHANGED <<op, run>> \/ op[t] \notin Submitting
  PROVE  \A r \in Runs : Lawful(t, r)
<1>1. (op'[t] = op[t] /\ run'[t] = run[t]) \/ op[t] \notin Submitting
  OBVIOUS
<1>2. ASSUME NEW r \in Runs, status[r] # "none", reply[r] = "none"
      PROVE  run[t] = r /\ op[t] \in Submitting
  BY <1>2 DEF LoneInv, HandedInv, OneThread
<1> QED BY <1>1, <1>2 DEF Lawful, Live

\* where a dequeue returns to, and what the caller then knows
LEMMA ReturnIs ==
  ASSUME TypeOK, NEW t \in Threads, run[t] \in Runs, NEW told, DequeueReturns(t, told)
  PROVE  /\ pc'[t] \in {"idle", "confirm", "release_quota", "sweep"}
         /\ IF op[t] = "enqueue" THEN pc'[t] = "confirm" /\ op'[t] = "enqueue" /\ run'[t] = run[t]
                                 ELSE pc'[t] # "confirm" /\ op'[t] \notin Submitting
         /\ \A r \in Runs : r # run[t] \/ op[t] # "submit" => reply'[r] = reply[r]
         /\ op[t] = "submit" => reply'[run[t]] = "accepted"
         /\ known' = known \cup told \cup (IF op[t] = "submit" THEN {run[t]} ELSE {})
<1>t. pc \in [Threads -> Labels] /\ op \in [Threads -> Ops] /\ run \in [Threads -> Runs \cup {NoRun}]
      /\ reply \in [Runs -> Replies]
  BY DEF TypeOK, ControlOK, ClientsOK
<1>1. CASE op[t] = "enqueue"
  BY <1>t, <1>1 DEF DequeueReturns, Goto, Submitting
<1>2. CASE op[t] # "enqueue"
  BY <1>t, <1>2 DEF DequeueReturns, Goto, Submitting
<1> QED BY <1>1, <1>2

\* a dequeue that returns after at most a write to its own run, dispatched if told
LEMMA ReturnIsLawful ==
  ASSUME TypeOK, LoneInv, OneThread, NEW t \in Threads, NEW told, DequeueReturns(t, told),
         pc[t] \in {"list", "get", "clobber", "restore_quota", "dispatch"},
         \A r \in Runs : /\ status'[r] = "none" <=> status[r] = "none"
                         /\ Live(r)' = Live(r)
                         /\ status'[r] = status[r] \/ Live(r),
         \A r \in told : r \in Runs => status[r] = "accepted",
         \A r \in Runs : dispatches'[r] = dispatches[r] \/ status[r] = "accepted"
  PROVE  (\A r \in Runs : Lawful(t, r)) /\ CallInv(t)'
<1>0. run[t] \in Runs /\ CallInv(t)
  BY RunAt DEF TypeOK, LoneInv
<1>1. /\ pc'[t] \in {"idle", "confirm", "release_quota", "sweep"}
      /\ IF op[t] = "enqueue" THEN pc'[t] = "confirm" /\ op'[t] = "enqueue" /\ run'[t] = run[t]
                              ELSE pc'[t] # "confirm" /\ op'[t] \notin Submitting
      /\ \A r \in Runs : r # run[t] \/ op[t] # "submit" => reply'[r] = reply[r]
      /\ op[t] = "submit" => reply'[run[t]] = "accepted"
      /\ known' = known \cup told \cup (IF op[t] = "submit" THEN {run[t]} ELSE {})
  BY <1>0, ReturnIs
<1>2. op[t] \in Submitting => status[run[t]] # "none" /\ reply[run[t]] = "none"
  BY <1>0 DEF CallInv
<1>3. CallInv(t)'
  BY <1>0, <1>1, <1>2 DEF CallInv, Submitting, Trying, Holding
<1>4. ASSUME NEW r \in Runs PROVE Lawful(t, r)
  <2>1. status[r] = "accepted" => reply[r] # "rejected" /\ status'[r] # "none"
    BY DEF LoneInv, RejectedLeavesNothing
  <2>2. status[r] # "none" /\ reply[r] = "none" => run[t] = r /\ op[t] \in Submitting
    BY DEF LoneInv, HandedInv, OneThread
  <2>3. reply'[r] = "rejected" => reply[r] = "rejected"
    BY <1>1
  <2>4. reply[r] # "none" => reply'[r] # "none"
    BY <1>1
  <2>5. r \in known' => r \in known \/ (status'[r] # "none" /\ reply'[r] # "rejected")
    BY <1>1, <1>2, <2>1, <2>3 DEF Submitting
  <2>6. dispatches'[r] = dispatches[r] \/ (status'[r] # "none" /\ reply'[r] # "rejected")
    BY <2>1, <2>3
  <2>7. status'[r] # "none" => \/ status[r] # "none" /\ reply[r] # "none"
                               \/ reply'[r] # "none"
                               \/ run'[t] = r /\ op'[t] \in Submitting
    BY <1>1, <2>2 DEF Submitting
  <2> QED BY <2>3, <2>4, <2>5, <2>6, <2>7 DEF Lawful
<1> QED BY <1>3, <1>4

LEMMA LoneStart ==
  ASSUME TypeOK, LoneInv, OneThread, NEW t \in Threads, Start(t)
  PROVE  (\A r \in Runs : Lawful(t, r)) /\ CallInv(t)'
<1>t. /\ pc \in [Threads -> Labels] /\ op \in [Threads -> Ops] /\ run \in [Threads -> Runs \cup {NoRun}]
      /\ reply \in [Runs -> Replies] /\ CallInv(t)
  BY DEF TypeOK, ControlOK, ClientsOK, LoneInv
<1>i. pc[t] = "idle" /\ op[t] \notin Submitting
  <2>1. pc[t] = "idle"
    BY DEF Start, Submit, Release, MarkFailed, ClientEnds, Sweep
  <2> QED BY <1>t, <2>1 DEF CallInv
<1>n. ASSUME NEW r \in Runs, reply[r] = "none"
      PROVE  status[r] = "none" /\ r \notin known /\ dispatches[r] = 0
  BY <1>i, <1>n DEF LoneInv, HandedInv, OneThread
<1>1. ASSUME NEW q \in Runs, Submit(t, q) PROVE (\A r \in Runs : Lawful(t, r)) /\ CallInv(t)'
  <2>1. status[q] = "none" /\ q \notin known /\ dispatches[q] = 0 /\ reply[q] = "none"
    BY <1>1, <1>n DEF Submit
  <2>2. CASE \E p \in Runs : /\ SameKey(q, p) /\ Live(p)
                             /\ reply' = [reply EXCEPT ![q] = "replay"]
                             /\ known' = known \cup {p}
                             /\ UNCHANGED <<pc, op, run>>
    <3>1. PICK p \in Runs : /\ Live(p) /\ reply' = [reply EXCEPT ![q] = "replay"]
                            /\ known' = known \cup {p} /\ UNCHANGED <<pc, op, run>>
      BY <2>2
    <3>2. UNCHANGED <<status, dispatches>>
      BY <1>1 DEF Submit, recordVars
    <3>3. status[p] # "none" /\ reply[p] \notin {"none", "rejected"}
      BY <1>n, <3>1 DEF Live, LoneInv, RejectedLeavesNothing
    <3>4. ASSUME NEW r \in Runs PROVE Lawful(t, r)
      BY <1>t, <1>i, <1>n, <2>1, <3>1, <3>2, <3>3 DEF Lawful, Live
    <3>5. CallInv(t)'
      BY <1>t, <1>i, <3>1, <3>2 DEF CallInv, Trying, Holding
    <3> QED BY <3>4, <3>5
  <2>3. CASE /\ \A p \in Runs : SameKey(q, p) => ~Live(p)
             /\ Call(t, "submit", q, "accept") /\ UNCHANGED <<reply, known>>
    <3>1. UNCHANGED <<status, dispatches>>
      BY <1>1 DEF Submit, recordVars
    <3>2. \A r \in Runs : Lawful(t, r)
      BY <1>i, <2>3, <3>1, IdleIsLawful
    <3>3. pc'[t] = "accept" /\ op'[t] = "submit" /\ run'[t] = q
      BY <1>t, <2>3 DEF Call, Goto
    <3>4. CallInv(t)'
      BY <2>1, <2>3, <3>1, <3>3 DEF CallInv, Submitting, Trying, Holding, SameKey, Live
    <3> QED BY <3>2, <3>4
  <2> QED BY <1>1, <2>2, <2>3 DEF Submit, Call
<1>2. ASSUME NEW q \in Runs, Release(t, q) \/ MarkFailed(t, q)
      PROVE  (\A r \in Runs : Lawful(t, r)) /\ CallInv(t)'
  <2>1. UNCHANGED <<status, reply, known, dispatches>> /\ Live(q)
    BY <1>2 DEF Release, MarkFailed, ClientEnds, recordVars, Live
  <2>2. \E l \in {"release_slot", "fail_slot", "cancel_mark"}, o \in {"release", "fail"} : Call(t, o, q, l)
    BY <1>2 DEF Release, MarkFailed, FailLabel
  <2>3. pc'[t] \in {"release_slot", "fail_slot", "cancel_mark"} /\ op'[t] \notin Submitting /\ run'[t] = q
    BY <1>t, <2>2 DEF Call, Goto, Submitting
  <2>4. CallInv(t)'
    BY <2>1, <2>3 DEF CallInv, Trying, Holding, Live
  <2> QED BY <1>i, <2>1, <2>4, IdleIsLawful
<1>3. CASE Sweep(t)
  <2>1. UNCHANGED <<status, reply, known, dispatches>>
    BY <1>3 DEF Sweep, recordVars, clientVars
  <2>2. pc'[t] = "sweep" /\ op'[t] \notin Submitting
    BY <1>t, <1>3 DEF Sweep, Call, Goto, Submitting
  <2>3. CallInv(t)'
    BY <2>2 DEF CallInv, Trying, Holding
  <2> QED BY <1>i, <2>1, <2>3, IdleIsLawful
<1> QED BY <1>1, <1>2, <1>3 DEF Start

\* one record is written
LEMMA WriteIsLawful ==
  ASSUME TypeOK, LoneInv, OneThread, NEW t \in Threads, UNCHANGED <<reply, known, dispatches, op, run>>,
         NEW q \in Runs, NEW st \in {"queued", "accepted", "done", "failed"},
         status' = [status EXCEPT ![q] = st],
         \/ Live(q)
         \/ st = "failed" /\ status[q] # "none"
         \/ q = run[t] /\ pc[t] \in {"accept", "save"}
  PROVE  \A r \in Runs : Lawful(t, r)
<1>1. status'[q] = st /\ \A r \in Runs \ {q} : status'[r] = status[r]
  BY DEF TypeOK, RecordsOK
<1>2. pc[t] \in {"accept", "save"} => op[t] \in Submitting /\ reply[run[t]] = "none"
  BY DEF LoneInv, CallInv, Trying
<1>3. \A r \in Runs : status[r] # "none" /\ reply[r] = "none" => run[t] = r /\ op[t] \in Submitting
  BY DEF LoneInv, HandedInv, OneThread
<1>4. ASSUME NEW r \in Runs, r # q PROVE Lawful(t, r)
  BY <1>1, <1>3, <1>4 DEF Lawful, Live
<1>5. CASE status[q] = "none"
  <2>1. q = run[t] /\ pc[t] \in {"accept", "save"}
    BY <1>5 DEF Live
  <2> QED BY <1>1, <1>2, <1>4, <2>1 DEF Lawful
<1>6. CASE status[q] # "none"
  <2>1. Live(q) \/ st = "failed"
    BY <1>6 DEF LoneInv, CallInv
  <2>2. st = "failed" => ~Live(q)'
    BY <1>1 DEF Live
  <2>3. Lawful(t, q)
    BY <1>1, <1>3, <1>6, <2>1, <2>2 DEF Lawful
  <2> QED BY <1>4, <2>3
<1> QED BY <1>5, <1>6

LEMMA LoneSubmit ==
  ASSUME TypeOK, LoneInv, OneThread, NEW t \in Threads,
         \/ Accept(t) \/ ReserveQuotas(t) \/ CheckSoftQuotas(t) \/ RollbackSlot(t) \/ RollbackMark(t)
         \/ RollbackQuota(t) \/ SaveQueued(t) \/ Confirm(t)
  PROVE  (\A r \in Runs : Lawful(t, r)) /\ CallInv(t)'
<1>t. /\ pc \in [Threads -> Labels] /\ op \in [Threads -> Ops] /\ run \in [Threads -> Runs \cup {NoRun}]
      /\ reply \in [Runs -> Replies] /\ status \in [Runs -> Statuses] /\ CallInv(t)
      /\ pc[t] \notin {"idle", "sweep"} => run[t] \in Runs
  BY RunAt DEF TypeOK, ControlOK, ClientsOK, RecordsOK, LoneInv
<1>n. \A r \in Runs : status[r] # "none" /\ reply[r] = "none" => run[t] = r /\ op[t] \in Submitting
  BY DEF LoneInv, HandedInv, OneThread
<1>1. CASE Accept(t)
  <2>1. pc[t] = "accept" /\ run[t] \in Runs /\ status[run[t]] = "none" /\ op[t] \in Submitting
        /\ run[t] \notin known /\ dispatches[run[t]] = 0 /\ reply[run[t]] = "none"
    BY <1>1, <1>t DEF Accept, CallInv, Trying
  <2>2. CASE Fits(run[t])
    <3>1. /\ status' = [status EXCEPT ![run[t]] = "accepted"]
          /\ UNCHANGED <<op, run, reply, known, dispatches>> /\ pc'[t] \in {"list", "reserve"}
      BY <1>1, <1>t, <2>2 DEF Accept, Goto, clientVars
    <3>2. \A r \in Runs : Lawful(t, r)
      BY <2>1, <3>1, WriteIsLawful
    <3>3. CallInv(t)'
      BY <1>t, <2>1, <3>1 DEF CallInv, Trying, Holding
    <3> QED BY <3>2, <3>3
  <2>3. CASE ~Fits(run[t]) /\ Policy = "reject"
    <3>1. /\ reply' = [reply EXCEPT ![run[t]] = "rejected"] /\ UNCHANGED <<status, known, dispatches>>
          /\ pc'[t] = "idle" /\ op'[t] = "none"
      BY <1>1, <1>t, <2>3 DEF Accept, Answer, Leave, Goto, recordVars
    <3>2. \A r \in Runs : Lawful(t, r)
      BY <1>t, <1>n, <2>1, <3>1 DEF Lawful, Live, Trying
    <3>3. CallInv(t)'
      BY <3>1 DEF CallInv, Submitting, Trying, Holding
    <3> QED BY <3>2, <3>3
  <2>4. CASE ~Fits(run[t]) /\ Policy # "reject"
    <3>1. /\ UNCHANGED <<status, reply, known, dispatches, run>>
          /\ pc'[t] = "save" /\ op'[t] = "enqueue"
      BY <1>1, <1>t, <2>4 DEF Accept, Goto, clientVars
    <3>2. \A r \in Runs : Lawful(t, r)
      BY <1>n, <3>1 DEF Lawful, Live, Submitting
    <3>3. CallInv(t)'
      BY <1>t, <2>1, <3>1 DEF CallInv, Submitting, Trying, Holding, SameKey, Live
    <3> QED BY <3>2, <3>3
  <2> QED BY <2>2, <2>3, <2>4
<1>2. CASE ReserveQuotas(t) \/ CheckSoftQuotas(t) \/ RollbackSlot(t)
  <2>1. /\ UNCHANGED <<status, reply, known, dispatches, op, run>>
        /\ pc[t] \in {"reserve", "soft", "rollback_slot"}
        /\ pc'[t] \in {"reserve", "soft", "rollback_slot", "rollback_mark", "list"}
    BY <1>2, <1>t DEF ReserveQuotas, TryReserve, CheckSoftQuotas, RollbackSlot, Goto, recordVars, clientVars
  <2>2. CallInv(t)'
    BY <1>t, <2>1 DEF CallInv, Trying, Holding
  <2> QED BY <2>1, <2>2, IdleIsLawful
<1>3. CASE RollbackMark(t)
  <2>1. /\ status' = [status EXCEPT ![run[t]] = "failed"] /\ run[t] \in Runs
        /\ UNCHANGED <<reply, known, dispatches, op, run>>
        /\ pc[t] = "rollback_mark" /\ pc'[t] = "rollback_quota"
    BY <1>3, <1>t DEF RollbackMark, MarkStatus, Goto, clientVars
  <2>2. status[run[t]] # "none"
    BY <1>t, <2>1 DEF CallInv, Trying
  <2>3. CallInv(t)'
    BY <1>t, <2>1 DEF CallInv, Trying, Holding
  <2> QED BY <2>1, <2>2, <2>3, WriteIsLawful
<1>4. CASE RollbackQuota(t)
  <2>1. pc[t] = "rollback_quota" /\ run[t] \in Runs /\ UNCHANGED status
    BY <1>4, <1>t DEF RollbackQuota, recordVars
  <2>2. CASE held[t] # {}
    <3>1. UNCHANGED <<reply, known, dispatches, op, run, pc>>
      BY <1>4, <2>2 DEF RollbackQuota, clientVars
    <3>2. CallInv(t)'
      BY <1>t, <2>1, <3>1 DEF CallInv, Trying, Holding
    <3> QED BY <2>1, <3>1, <3>2, IdleIsLawful
  <2>3. CASE held[t] = {}
    <3>1. /\ reply' = [reply EXCEPT ![run[t]] = "rejected"] /\ UNCHANGED <<known, dispatches>>
          /\ pc'[t] = "idle" /\ op'[t] = "none"
      BY <1>4, <1>t, <2>3 DEF RollbackQuota, Answer, Leave, Goto
    <3>2. status[run[t]] = "failed"
      BY <1>t, <2>1 DEF CallInv
    <3>3. \A r \in Runs : Lawful(t, r)
      BY <1>t, <1>n, <2>1, <3>1, <3>2 DEF Lawful, Live, Trying
    <3>4. CallInv(t)'
      BY <3>1 DEF CallInv, Submitting, Trying, Holding
    <3> QED BY <3>3, <3>4
  <2> QED BY <2>2, <2>3
<1>5. CASE SaveQueued(t)
  <2>1. /\ status' = [status EXCEPT ![run[t]] = "queued"] /\ run[t] \in Runs
        /\ UNCHANGED <<reply, known, dispatches, op, run>> /\ pc[t] = "save" /\ pc'[t] = "list"
    BY <1>5, <1>t DEF SaveQueued, Goto, clientVars
  <2>2. CallInv(t)'
    BY <1>t, <2>1 DEF CallInv, Trying, Holding
  <2> QED BY <2>1, <2>2, WriteIsLawful
<1>6. CASE Confirm(t)
  <2>1. /\ pc[t] = "confirm" /\ run[t] \in Runs /\ UNCHANGED <<status, dispatches>>
        /\ \E answer \in {"accepted", "queued"} : reply' = [reply EXCEPT ![run[t]] = answer]
        /\ known' = known \cup {run[t]}
        /\ pc'[t] = "idle" /\ op'[t] = "none"
    BY <1>6, <1>t DEF Confirm, Answer, Leave, Goto, recordVars
  <2>2. status[run[t]] # "none"
    BY <1>t, <2>1 DEF CallInv, Trying
  <2>3. \A r \in Runs : Lawful(t, r)
    BY <1>t, <1>n, <2>1, <2>2 DEF Lawful, Live
  <2>4. CallInv(t)'
    BY <2>1 DEF CallInv, Submitting, Trying, Holding
  <2> QED BY <2>3, <2>4
<1> QED BY <1>1, <1>2, <1>3, <1>4, <1>5, <1>6

LEMMA LoneDequeue ==
  ASSUME TypeOK, LoneInv, OneThread, NEW t \in Threads,
         \/ ListQueued(t) \/ GetHead(t) \/ Take(t) \/ Clobber(t) \/ DequeueReserve(t) \/ DequeueUndo(t)
         \/ DequeueSoft(t) \/ RestoreSlot(t) \/ RestoreMark(t) \/ RestoreQuota(t) \/ DequeueMark(t) \/ Dispatch(t)
  PROVE  (\A r \in Runs : Lawful(t, r)) /\ CallInv(t)'
<1>t. /\ pc \in [Threads -> Labels] /\ cur \in [Threads -> Runs \cup {NoRun}]
      /\ status \in [Runs -> Statuses] /\ dispatches \in [Runs -> Nat] /\ CallInv(t)
      /\ pc[t] \notin {"idle", "sweep"} => run[t] \in Runs
      /\ pc[t] \in DequeueLabels => cur[t] \in Runs
  BY RunAt DEF TypeOK, ControlOK, ClientsOK, RecordsOK, LoneInv
\* nothing is written and the dequeue goes on
<1>m. ASSUME UNCHANGED <<status, reply, known, dispatches, op, run>>,
             pc[t] \in {"list", "get", "take", "restore_quota"} \cup Holding,
             pc'[t] \in {"get", "restore_quota"} \cup Holding, pc'[t] = "restore_quota" => pc[t] = "restore_quota",
             pc'[t] \in Holding => Live(cur'[t])
      PROVE  (\A r \in Runs : Lawful(t, r)) /\ CallInv(t)'
  <2>1. CallInv(t)'
    BY <1>t, <1>m DEF CallInv, Trying, Holding, Live
  <2> QED BY <1>m, <2>1, IdleIsLawful
\* nothing is written and the dequeue returns
<1>r. ASSUME DequeueReturns(t, {}), UNCHANGED <<status, dispatches>>, pc[t] \in {"list", "get", "restore_quota"}
      PROVE  (\A r \in Runs : Lawful(t, r)) /\ CallInv(t)'
  BY <1>r, ReturnIsLawful DEF Live
<1>1. CASE ListQueued(t)
  <2>1. pc[t] = "list" /\ UNCHANGED <<status, dispatches>>
    BY <1>1 DEF ListQueued, recordVars
  <2>2. CASE DequeueReturns(t, {})
    BY <2>1, <2>2, <1>r
  <2>3. CASE ~DequeueReturns(t, {})
    <3>1. UNCHANGED <<reply, known, op, run>> /\ pc'[t] = "get"
      BY <1>1, <1>t, <2>3 DEF ListQueued, Goto
    <3> QED BY <2>1, <3>1, <1>m DEF Holding
  <2> QED BY <2>2, <2>3
<1>2. CASE GetHead(t)
  <2>1. pc[t] = "get" /\ UNCHANGED <<status, dispatches>>
    BY <1>2 DEF GetHead, recordVars
  <2>2. CASE DequeueReturns(t, {})
    BY <2>1, <2>2, <1>r
  <2>3. CASE ~DequeueReturns(t, {})
    <3>0. queue[t] \subseteq Runs
      BY DEF TypeOK, LocalsOK
    <3>1. /\ UNCHANGED <<reply, known, op, run>>
          /\ \/ pc'[t] = "take" /\ status[cur'[t]] = "queued"
             \/ pc'[t] = "get"
      BY <1>2, <1>t, <2>3, <3>0 DEF GetHead, Goto
    <3> QED BY <2>1, <3>1, <1>m DEF Holding, Live
  <2> QED BY <2>2, <2>3
<1>3. CASE Take(t) \/ DequeueReserve(t) \/ DequeueUndo(t) \/ DequeueSoft(t) \/ RestoreSlot(t)
  <2>1. /\ UNCHANGED <<status, reply, known, dispatches, op, run, cur>>
        /\ pc[t] \in Holding /\ pc'[t] \in Holding
    BY <1>3, <1>t DEF Take, DequeueReserve, TryReserve, DequeueUndo, DequeueSoft, RestoreSlot, Goto, recordVars,
       clientVars, localVars, Holding
  <2>2. Live(cur'[t])
    BY <1>t, <2>1 DEF CallInv
  <2>3. "restore_quota" \notin Holding
    BY DEF Holding
  <2> QED BY <2>1, <2>2, <2>3, <1>m
<1>4. CASE Clobber(t)
  <2>1. /\ pc[t] = "clobber" /\ cur[t] \in Runs /\ DequeueReturns(t, {}) /\ UNCHANGED dispatches
        /\ status' = [status EXCEPT ![cur[t]] = "queued"]
    BY <1>4, <1>t DEF Clobber, DequeueLabels
  <2>2. Live(cur[t])
    BY <1>t, <2>1 DEF CallInv, Holding
  <2>3. \A r \in Runs : /\ status'[r] = "none" <=> status[r] = "none"
                        /\ Live(r)' = Live(r)
                        /\ status'[r] = status[r] \/ Live(r)
    BY <1>t, <2>1, <2>2 DEF Live
  <2> QED BY <2>1, <2>3, ReturnIsLawful
<1>5. CASE RestoreMark(t) \/ DequeueMark(t)
  <2>1. /\ pc[t] \in Holding /\ cur[t] \in Runs /\ UNCHANGED <<reply, known, dispatches, op, run, cur>>
        /\ \/ pc'[t] = "restore_quota" /\ status' = [status EXCEPT ![cur[t]] = "queued"]
           \/ pc'[t] = "dispatch" /\ status' = [status EXCEPT ![cur[t]] = "accepted"]
    BY <1>5, <1>t DEF RestoreMark, DequeueMark, MarkStatus, Goto, Holding, DequeueLabels, clientVars, localVars
  <2>2. Live(cur[t])
    BY <1>t, <2>1 DEF CallInv
  <2>3. \A r \in Runs : Lawful(t, r)
    BY <2>1, <2>2, WriteIsLawful
  <2>4. /\ status'[cur[t]] # "none" /\ (pc'[t] = "dispatch" => status'[cur[t]] = "accepted")
        /\ \A r \in Runs : status[r] # "none" => status'[r] # "none"
    BY <1>t, <2>1
  <2>5. CallInv(t)'
    BY <1>t, <2>1, <2>4 DEF CallInv, Trying, Holding
  <2> QED BY <2>3, <2>5
<1>6. CASE RestoreQuota(t)
  <2>1. pc[t] = "restore_quota" /\ UNCHANGED <<status, dispatches>>
    BY <1>6 DEF RestoreQuota, recordVars
  <2>2. CASE DequeueReturns(t, {})
    BY <2>1, <2>2, <1>r
  <2>3. CASE ~DequeueReturns(t, {})
    <3>1. UNCHANGED <<reply, known, op, run, pc>>
      BY <1>6, <2>3 DEF RestoreQuota
    <3> QED BY <2>1, <3>1, <1>m DEF Holding
  <2> QED BY <2>2, <2>3
<1>7. CASE Dispatch(t)
  <2>1. /\ pc[t] = "dispatch" /\ cur[t] \in Runs /\ DequeueReturns(t, {cur[t]}) /\ UNCHANGED status
        /\ dispatches' = [dispatches EXCEPT ![cur[t]] = @ + 1]
    BY <1>7, <1>t DEF Dispatch, DequeueLabels
  <2>2. status[cur[t]] = "accepted"
    BY <1>t, <2>1 DEF CallInv
  <2>3. \A r \in Runs : dispatches'[r] = dispatches[r] \/ status[r] = "accepted"
    BY <1>t, <2>1, <2>2
  <2>4. \A r \in Runs : Live(r)' = Live(r)
    BY <2>1 DEF Live
  <2> QED BY <2>1, <2>2, <2>3, <2>4, ReturnIsLawful
<1> QED BY <1>1, <1>2, <1>3, <1>4, <1>5, <1>6, <1>7

LEMMA LoneEnd ==
  ASSUME TypeOK, LoneInv, OneThread, NEW t \in Threads,
         \/ ReleaseSlot(t) \/ ReleaseMark(t) \/ ReleaseQuota(t) \/ FailSlot(t) \/ FailMark(t) \/ FailQuota(t)
         \/ SweepNext(t) \/ SweepFails(t)
  PROVE  (\A r \in Runs : Lawful(t, r)) /\ CallInv(t)'
<1>t. /\ pc \in [Threads -> Labels] /\ op \in [Threads -> Ops] /\ run \in [Threads -> Runs \cup {NoRun}]
      /\ status \in [Runs -> Statuses] /\ CallInv(t)
      /\ pc[t] \notin {"idle", "sweep"} => run[t] \in Runs
  BY RunAt DEF TypeOK, ControlOK, RecordsOK, LoneInv
<1>1. CASE ReleaseSlot(t) \/ FailSlot(t) \/ FailQuota(t)
  <2>1. /\ UNCHANGED <<status, reply, known, dispatches, op, run>>
        /\ \/ pc[t] = "release_slot" /\ pc'[t] = "release_mark"
           \/ pc[t] = "fail_slot" /\ pc'[t] = "fail_mark"
           \/ pc[t] = "fail_quota" /\ pc'[t] = "list"
    BY <1>1, <1>t DEF ReleaseSlot, FailSlot, FailQuota, Goto, recordVars, clientVars
  <2>2. CallInv(t)'
    BY <1>t, <2>1 DEF CallInv, Trying, Holding, Live
  <2> QED BY <2>1, <2>2, IdleIsLawful
<1>2. CASE ReleaseMark(t) \/ FailMark(t)
  <2>1. PICK st \in {"done", "failed"} :
            /\ status' = [status EXCEPT ![run[t]] = st] /\ run[t] \in Runs
            /\ UNCHANGED <<reply, known, dispatches, op, run>> /\ pc'[t] \in {"list", "fail_quota"}
            /\ pc[t] = "release_mark" \/ (st = "failed" /\ pc[t] \in {"fail_mark", "cancel_mark"})
    BY <1>2, <1>t DEF ReleaseMark, FailMark, MarkStatus, Goto, clientVars
  <2>2. Live(run[t]) \/ (st = "failed" /\ status[run[t]] # "none")
    BY <1>t, <2>1 DEF CallInv
  <2>3. \A r \in Runs : Lawful(t, r)
    BY <2>1, <2>2, WriteIsLawful
  <2>4. status'[run[t]] # "none"
    BY <1>t, <2>1
  <2>5. CallInv(t)'
    BY <1>t, <2>1, <2>4 DEF CallInv, Trying, Holding
  <2> QED BY <2>3, <2>5
<1>3. CASE ReleaseQuota(t) \/ SweepNext(t) \/ SweepFails(t)
  <2>1. UNCHANGED <<status, reply, known, dispatches>> /\ pc[t] \in {"release_quota", "sweep", "fail_get"}
    BY <1>3 DEF ReleaseQuota, SweepNext, SweepFails, recordVars, clientVars
  <2>2. op[t] \notin Submitting
    BY <1>t, <2>1 DEF CallInv
  <2>z. zombies[t] \subseteq Runs
    BY DEF TypeOK, LocalsOK
  <2>3. /\ op'[t] \notin Submitting
        /\ \/ pc'[t] \in {"idle", "sweep"}
           \/ pc'[t] \in {"fail_get", "fail_slot", "cancel_mark"} /\ status[run'[t]] # "none"
    BY <1>3, <1>t, <2>2, <2>z
       DEF ReleaseQuota, SweepNext, SweepFails, Leave, Call, Goto, FailLabel, Live, Submitting
  <2>4. CallInv(t)'
    BY <2>1, <2>3 DEF CallInv, Trying, Holding
  <2> QED BY <2>1, <2>2, <2>4, IdleIsLawful
<1> QED BY <1>1, <1>2, <1>3

LEMMA LoneInit == Init => LoneInv
  BY DEF Init, LoneInv, CallInv, HandedInv, OneLiveRunPerKey, RejectedLeavesNothing, Live, Submitting, Trying, Holding

LEMMA LoneStep ==
  ASSUME OneThread, TypeOK, LoneInv, [Next]_vars
  PROVE  LoneInv'
<1>1. CASE UNCHANGED <<status, pc, op, run, cur, clientVars>>
  BY <1>1 DEF LoneInv, CallInv, HandedInv, OneLiveRunPerKey, RejectedLeavesNothing, Live, clientVars
<1>2. ASSUME NEW t \in Threads, Start(t) \/ Continue(t) PROVE LoneInv'
  <2>1. (\A r \in Runs : Lawful(t, r)) /\ CallInv(t)'
    <3>1. CASE Start(t)
      BY <3>1, LoneStart
    <3>2. CASE Continue(t)
      BY <3>2, LoneSubmit, LoneDequeue, LoneEnd DEF Continue
    <3> QED BY <1>2, <3>1, <3>2
  <2>2. HandedInv' /\ OneLiveRunPerKey' /\ RejectedLeavesNothing'
    BY <2>1, LawfulKeeps
  <2>3. ASSUME NEW u \in Threads PROVE CallInv(u)'
    <3>1. u = t
      BY DEF OneThread
    <3> QED BY <2>1, <3>1
  <2> QED BY <2>2, <2>3 DEF LoneInv
<1>3. CASE World
  BY <1>1, <1>3 DEF World, Rollover, Heartbeat, BeatLapses, SpendTokens, recordVars, localVars
<1> QED BY <1>1, <1>2, <1>3 DEF Next, vars, recordVars, localVars

\* In a single-threaded deployment, whatever the policy, the quotas and the sweeps do: an
\* idempotency key has one live run in its session, so a retried submit is answered with the run
\* of the first.
THEOREM KeysAreKept == OneThread => (Spec => []OneLiveRunPerKey)
<1> SUFFICES ASSUME OneThread PROVE Spec => []OneLiveRunPerKey
  OBVIOUS
<1>1. Init => LoneInv
  BY LoneInit
<1>2. TypeOK /\ LoneInv /\ [Next]_vars => LoneInv'
  BY LoneStep
<1>3. LoneInv => OneLiveRunPerKey
  BY DEF LoneInv
<1> QED BY <1>1, <1>2, <1>3, TypeCorrect, PTL DEF Spec

\* And a submission that was rejected, before or after it took its slots, leaves no run that is
\* live, that a client was given or that was dispatched.
THEOREM NoGhostRuns == OneThread => (Spec => []RejectedLeavesNothing)
<1> SUFFICES ASSUME OneThread PROVE Spec => []RejectedLeavesNothing
  OBVIOUS
<1>1. Init => LoneInv
  BY LoneInit
<1>2. TypeOK /\ LoneInv /\ [Next]_vars => LoneInv'
  BY LoneStep
<1>3. LoneInv => RejectedLeavesNothing
  BY DEF LoneInv
<1> QED BY <1>1, <1>2, <1>3, TypeCorrect, PTL DEF Spec

-----------------------------------------------------------------------------
(* The same deployment, in full: what the one call under way is about, step   *)
(* by step.                                                                  *)

Granting  == {"reserve", "soft", "rollback_slot", "rollback_mark", "rollback_quota"}
Counted   == {"dq_reserve", "dq_undo", "dq_soft", "restore_slot"}
Restoring == {"restore_slot", "restore_mark", "restore_quota"}
Promoting == {"take", "clobber", "dq_mark"} \cup Counted \cup Restoring
Returning == {"list", "get", "dispatch"} \cup Promoting

\* which method is at which label
MethodInv(t) ==
    /\ pc[t] = "idle" => op[t] = "none"
    /\ pc[t] \in Trying => op[t] = "submit"
    /\ pc[t] \in {"save", "confirm"} => op[t] = "enqueue"
    /\ pc[t] \in {"release_slot", "release_mark", "release_quota"} => op[t] = "release"
    /\ pc[t] \in {"sweep", "fail_get"} => op[t] = "sweep"
    /\ pc[t] \in {"fail_slot", "fail_mark", "fail_quota", "cancel_mark"} => op[t] \in {"fail", "sweep"}
    /\ pc[t] \in Returning => op[t] # "none"

\* what the record says of the run it is about, and of the one it takes from the queue
StatusInv(t) ==
    /\ pc[t] \in {"accept", "save"} => status[run[t]] = "none"
    /\ pc[t] \in {"reserve", "soft", "rollback_slot", "rollback_mark", "release_slot", "release_mark",
                  "fail_get", "fail_slot", "fail_mark"} => status[run[t]] = "accepted"
    /\ pc[t] \in {"rollback_quota", "fail_quota"} => status[run[t]] = "failed"
    /\ pc[t] = "cancel_mark" => status[run[t]] = "queued"
    /\ pc[t] = "confirm" => Live(run[t])
    /\ pc[t] = "release_quota" => status[run[t]] = "done"
    /\ pc[t] \in Returning =>
         /\ op[t] = "submit" => status[run[t]] = "accepted"
         /\ op[t] = "enqueue" => Live(run[t])
         /\ op[t] = "release" => status[run[t]] = "done"
         /\ op[t] \in {"fail", "sweep"} => status[run[t]] = "failed"
    /\ pc[t] \in Promoting => status[cur[t]] = "queued"
    /\ pc[t] = "dispatch" => status[cur[t]] = "accepted"

\* the list of queued runs stays what it was, and the run it takes stays the head
LineInv(t) ==
    /\ pc[t] = "get" => queue[t] = QueuedFor(run[t])
    /\ pc[t] \in Promoting => /\ cur[t] \in QueuedFor(run[t])
                              /\ \A q \in QueuedFor(run[t]) : created[cur[t]] <= created[q]

\* a count that may be written back is the counter
AfterInv(t) ==
    /\ pc[t] \in {"reserve", "soft", "rollback_slot"} => after[t] = active[SessionOf[run[t]]]
    /\ pc[t] \in Counted => after[t] = active[SessionOf[cur[t]]]

\* the reservations it holds
HeldInv(t) ==
    /\ held[t] # {} => pc[t] \in Granting \cup Counted \cup Restoring \cup {"list", "dq_mark", "dispatch"}
    /\ pc[t] \in Granting => TenantOf[run[t]] \in Tenants
    /\ pc[t] \in Counted \cup Restoring => TenantOf[cur[t]] \in Tenants
    /\ pc[t] = "soft" => Limited[TenantOf[run[t]]] \subseteq held[t]
    /\ pc[t] = "dq_soft" => Limited[TenantOf[cur[t]]] \subseteq held[t]
    /\ pc[t] = "dq_mark" /\ TenantOf[cur[t]] \in Tenants => Limited[TenantOf[cur[t]]] \subseteq held[t]

\* queued runs stand in the order in which they came
OrderInv(t) ==
    /\ \A r \in Runs : /\ created[r] < clock
                       /\ status[r] = "none" /\ ~(run[t] = r /\ pc[t] = "save") => created[r] = 0
                       /\ status[r] = "queued" => created[r] # 0
    /\ \A r, q \in Runs : created[r] = created[q] => r = q \/ created[r] = 0
    /\ pc[t] = "save" => /\ created[run[t]] # 0
                         /\ \A q \in Runs \ {run[t]} : created[q] < created[run[t]]

\* a submission answered with the run of another one has none of its own
ReplayInv == \A r \in Runs : reply[r] = "replay" => status[r] = "none"

PathInv(t) ==
    /\ MethodInv(t) /\ StatusInv(t) /\ LineInv(t) /\ AfterInv(t) /\ HeldInv(t) /\ OrderInv(t)
    /\ ReplayInv

-----------------------------------------------------------------------------
(* What one thread makes of slots, reservations and outcomes.                *)

Trial(t, r) == run[t] = r /\ op[t] = "submit" /\ pc[t] \in Granting

Slotted(t, r) ==
    \/ status[r] = "accepted" /\ ~(run[t] = r /\ pc[t] \in {"release_mark", "fail_mark", "rollback_mark"})
    \/ cur[t] = r /\ pc[t] \in Counted \cup {"dq_mark"}

Owed(t, r) ==
    \/ status[r] = "accepted" /\ ~Trial(t, r)
    \/ run[t] = r /\ op[t] \in {"fail", "sweep"} /\ pc[t] = "fail_quota"
    \/ run[t] = r /\ op[t] = "release" /\ pc[t] \notin {"idle", "release_slot", "release_mark"}
    \/ /\ "max_parallel" \in held[t]
       /\ Trial(t, r) \/ (cur[t] = r /\ pc[t] \in Promoting)

\* the tenant of r has a limit for max_parallel
Metered(r) == TenantOf[r] \in Tenants /\ "max_parallel" \in Limited[TenantOf[r]]
Reserved(t, r) == Metered(r) /\ Owed(t, r)

Fate(t, r) ==
    CASE reply[r] \in Refused -> "refused"
      [] reply[r] \notin Refused /\ Trial(t, r) -> "new"
      [] OTHER -> CASE status[r] = "none" -> "new"
                    [] status[r] = "queued" -> "queued"
                    [] status[r] = "accepted" /\ Slotted(t, r) -> "running"
                    [] OTHER -> "ended"

LEMMA AloneIs ==
  ASSUME OneThread, TypeOK, NEW t \in Threads, NEW r \in Runs
  PROVE  (Occupies(r) <=> Slotted(t, r)) /\ (HoldsQuota(r) <=> Owed(t, r)) /\ Outcome(r) = Fate(t, r)
<1>t. pc[t] \in Labels /\ op[t] \in Ops
  BY DEF TypeOK, ControlOK
<1>a. ASSUME NEW ops, NEW labels PROVE At(r, ops, labels) <=> run[t] = r /\ op[t] \in ops /\ pc[t] \in labels
  BY DEF At, OneThread
<1>c. ASSUME NEW labels PROVE Taking(r, labels) <=> cur[t] = r /\ pc[t] \in labels
  BY DEF Taking, OneThread
<1>1. Pending(r) <=> Trial(t, r)
  BY <1>a DEF Pending, Trial, Granting
<1>2. SlotsFreed(r) <=> run[t] = r /\ pc[t] \in {"release_mark", "fail_mark", "rollback_mark"}
  BY <1>a, <1>t DEF SlotsFreed
<1>3. SlotsTaken(r) <=> cur[t] = r /\ pc[t] \in Counted \cup {"dq_mark"}
  BY <1>c DEF SlotsTaken, Counted
<1>4. Occupies(r) <=> Slotted(t, r)
  BY <1>2, <1>3 DEF Occupies, Slotted
<1>5. HoldsQuota(r) <=> Owed(t, r)
  <2>1. At(r, {"fail", "sweep"}, {"fail_quota"}) <=> run[t] = r /\ op[t] \in {"fail", "sweep"} /\ pc[t] = "fail_quota"
    BY <1>a
  <2>2. At(r, {"release"}, Labels \ {"idle", "release_slot", "release_mark"})
          <=> run[t] = r /\ op[t] = "release" /\ pc[t] \notin {"idle", "release_slot", "release_mark"}
    BY <1>a, <1>t
  <2>3. (\E u \in Threads : /\ "max_parallel" \in held[u]
                            /\ \/ run[u] = r /\ Pending(r)
                               \/ cur[u] = r /\ pc[u] \in DequeueLabels \ {"dispatch"})
          <=> /\ "max_parallel" \in held[t]
              /\ Trial(t, r) \/ (cur[t] = r /\ pc[t] \in Promoting)
    BY <1>1 DEF OneThread, Trial, DequeueLabels, Promoting, Counted, Restoring
  <2> QED BY <1>1, <2>1, <2>2, <2>3 DEF HoldsQuota, Owed
<1>6. Outcome(r) = Fate(t, r)
  BY <1>1, <1>2, <1>3 DEF Outcome, Fate, Slotted, Refused
<1> QED BY <1>4, <1>5, <1>6

-----------------------------------------------------------------------------
(* What a step may do: to slots, reservations, outcomes and places in line.  *)

Place(r) == IF status[r] = "none" THEN 0 ELSE created[r]

\* nothing happens to r
Keeps(t, r) == /\ (Slotted(t, r)' <=> Slotted(t, r)) /\ (Reserved(t, r)' <=> Reserved(t, r))
               /\ Fate(t, r)' = Fate(t, r) /\ Place(r)' = Place(r)

SameLimits == \A te \in Tenants : "max_parallel" \in Limited[te]
                  => usage'[te]["max_parallel"] = usage[te]["max_parallel"]

SlotMove(t, r) ==
    \/ (Slotted(t, r)' <=> Slotted(t, r)) /\ UNCHANGED active
    \/ ~Slotted(t, r) /\ Slotted(t, r)'
       /\ active' = [active EXCEPT ![SessionOf[r]] = active[SessionOf[r]] + SlotsOf[r]]
    \/ Slotted(t, r) /\ ~Slotted(t, r)' /\ FreeSlots(r)

QuotaMove(t, r) ==
    \/ (Reserved(t, r)' <=> Reserved(t, r)) /\ SameLimits
    \/ ~Reserved(t, r) /\ Reserved(t, r)' /\ Reserve(TenantOf[r], "max_parallel", SlotsOf[r])
    \/ Reserved(t, r) /\ ~Reserved(t, r)' /\ Unreserve(TenantOf[r], "max_parallel", SlotsOf[r])

FateMove(t, r) ==
    \/ Fate(t, r)' = Fate(t, r) /\ Place(r)' = Place(r)
    \/ Fate(t, r) = "new" /\ Fate(t, r)' \in {"refused", "running"} /\ Place(r)' = Place(r)
    \/ /\ Fate(t, r) = "new" /\ Fate(t, r)' = "queued"
       /\ \A q \in Runs : Fate(t, q) = "queued" => Place(q) < Place(r)'
    \/ /\ Fate(t, r) = "queued" /\ Fate(t, r)' = "running" /\ Place(r)' = Place(r)
       /\ \A q \in Runs : /\ Fate(t, q) = "queued"
                          /\ SessionOf[q] = SessionOf[r] /\ TenantOf[q] = TenantOf[r]
                          => Place(r) <= Place(q)
    \/ Fate(t, r) \in {"queued", "running"} /\ Fate(t, r)' = "ended" /\ Place(r)' = Place(r)

Nothing(t) == (\A q \in Runs : Keeps(t, q)) /\ UNCHANGED active /\ SameLimits

Touches(t, r) ==
    /\ \A q \in Runs \ {r} : Keeps(t, q)
    /\ SlotMove(t, r) /\ QuotaMove(t, r) /\ FateMove(t, r)

Effect(t) == PathInv(t)' /\ (Nothing(t) \/ \E r \in Runs : Touches(t, r))

\* what the rest needs to know of the types
Typed(t) ==
    /\ pc \in [Threads -> Labels] /\ op \in [Threads -> Ops]
    /\ run \in [Threads -> Runs \cup {NoRun}] /\ cur \in [Threads -> Runs \cup {NoRun}]
    /\ pc[t] \notin {"idle", "sweep"} => run[t] \in Runs
    /\ pc[t] \in DequeueLabels => cur[t] \in Runs
    /\ status \in [Runs -> Statuses] /\ created \in [Runs -> Nat] /\ clock \in Nat
    /\ active \in [Sessions -> Nat] /\ usage \in [Tenants -> [Resources -> Nat]]
    /\ held \in [Threads -> SUBSET Resources] /\ queue \in [Threads -> SUBSET Runs]
    /\ after \in [Threads -> Nat] /\ zombies \in [Threads -> SUBSET Runs]
    /\ reply \in [Runs -> Replies]

LEMMA AloneTypes == ASSUME TypeOK, NEW t \in Threads PROVE Typed(t)
  BY RunAt DEF TypeOK, RecordsOK, TenantsOK, ControlOK, LocalsOK, ClientsOK, Typed

\* of a run that is submitted, and of one with a record, it is known how it was answered
LEMMA AnswerIs ==
  ASSUME OneThread, LoneInv, ReplayInv, NEW t \in Threads
  PROVE  /\ op[t] \in Submitting => reply[run[t]] = "none"
         /\ \A r \in Runs : Live(r) => reply[r] \notin Refused
         /\ \A r \in Runs : reply[r] = "none" /\ ~(run[t] = r /\ op[t] \in Submitting) => status[r] = "none"
<1>1. op[t] \in Submitting => reply[run[t]] = "none"
  BY DEF LoneInv, CallInv
<1>2. \A r \in Runs : Live(r) => reply[r] \notin Refused
  BY DEF LoneInv, RejectedLeavesNothing, ReplayInv, Live, Refused
<1>3. \A r \in Runs : reply[r] = "none" /\ ~(run[t] = r /\ op[t] \in Submitting) => status[r] = "none"
  BY DEF LoneInv, HandedInv, OneThread
<1> QED BY <1>1, <1>2, <1>3

LEMMA AloneSubmit ==
  ASSUME OneThread, TypeOK, LoneInv, NEW t \in Threads, PathInv(t), NEW q \in Runs, Submit(t, q)
  PROVE  Effect(t)
<1>t. Typed(t)
  BY AloneTypes
<1> USE <1>t DEF Typed
<1>i. /\ pc[t] = "idle" /\ op[t] = "none" /\ reply[q] = "none" /\ status[q] = "none" /\ held[t] = {}
      /\ UNCHANGED <<status, created, clock, active, usage, held, cur, queue, after>>
  <2>1. pc[t] = "idle" /\ op[t] = "none" /\ reply[q] = "none" /\ held[t] = {}
    BY DEF Submit, PathInv, MethodInv, HeldInv, Granting, Counted, Restoring
  <2>2. status[q] = "none"
    BY <2>1, AnswerIs DEF Submitting, PathInv
  <2> QED BY <2>1, <2>2 DEF Submit, recordVars, tenantVars, localVars
<1>1. CASE reply' = [reply EXCEPT ![q] = "replay"] /\ UNCHANGED <<pc, op, run>>
  <2>1. PathInv(t)'
    BY <1>i, <1>1 DEF PathInv, MethodInv, StatusInv, LineInv, AfterInv, HeldInv, OrderInv, ReplayInv, Live,
       QueuedFor
  <2>2. Touches(t, q)
    BY <1>i, <1>1 DEF Touches, Keeps, SlotMove, QuotaMove, FateMove, Slotted, Reserved, Owed, Fate, Place,
       Trial, SameLimits, Refused, Granting
  <2> QED BY <2>1, <2>2 DEF Effect
<1>2. CASE Call(t, "submit", q, "accept") /\ UNCHANGED reply
  <2>1. pc'[t] = "accept" /\ op'[t] = "submit" /\ run'[t] = q
    BY <1>2 DEF Call, Goto
  <2>2. PathInv(t)'
    BY <1>i, <1>2, <2>1 DEF PathInv, MethodInv, StatusInv, LineInv, AfterInv, HeldInv, OrderInv, ReplayInv, Live,
       QueuedFor, Trying, Granting, Counted, Restoring, Promoting, Returning
  <2>3. Nothing(t)
    BY <1>i, <1>2, <2>1 DEF Nothing, Keeps, Slotted, Reserved, Owed, Fate, Place, Trial, SameLimits, Granting,
       Counted, Promoting, Restoring
  <2> QED BY <2>2, <2>3 DEF Effect
<1> QED BY <1>1, <1>2 DEF Submit, Call

\* a step that saves no new place leaves the queue in order
LEMMA OrderKept ==
  ASSUME TypeOK, NEW t \in Threads, OrderInv(t), UNCHANGED <<created, clock>>, pc'[t] # "save",
         pc[t] = "save" => status'[run[t]] # "none",
         \A r \in Runs : /\ status'[r] = "none" => status[r] = "none"
                         /\ status'[r] = "queued" => created[r] # 0
  PROVE  OrderInv(t)'
<1>1. \A r \in Runs : created[r] < clock /\ (status'[r] = "none" => created[r] = 0)
  BY DEF OrderInv
<1> QED BY <1>1 DEF OrderInv

\* a slot count goes up exactly by what was asked for
LEMMA TakeIs ==
  ASSUME TypeOK, NEW t \in Threads, NEW r \in Runs, TakeSlots(t, r)
  PROVE  /\ active' = [active EXCEPT ![SessionOf[r]] = active[SessionOf[r]] + SlotsOf[r]]
         /\ after'[t] = active'[SessionOf[r]]
<1>1. /\ active[SessionOf[r]] + SlotsOf[r] \in Nat /\ SessionOf[r] \in Sessions
      /\ active \in [Sessions -> Nat] /\ after \in [Threads -> Nat]
  BY RunConstants DEF TypeOK, RecordsOK, LocalsOK
<1>2. NonNegative(active[SessionOf[r]] + SlotsOf[r]) = active[SessionOf[r]] + SlotsOf[r]
  BY <1>1 DEF NonNegative
<1>3. /\ active' = [active EXCEPT ![SessionOf[r]] = active[SessionOf[r]] + SlotsOf[r]]
      /\ after' = [after EXCEPT ![t] = active[SessionOf[r]] + SlotsOf[r]]
  BY <1>2 DEF TakeSlots, SetActive
<1> QED BY <1>1, <1>3

\* a run the thread is not busy with, before or after
LEMMA OthersKeep ==
  ASSUME NEW t \in Threads, NEW q \in Runs, q \notin {run[t], run'[t], cur[t], cur'[t]},
         status'[q] = status[q], reply'[q] = reply[q], created'[q] = created[q]
  PROVE  Keeps(t, q)
<1>1. Slotted(t, q)' <=> Slotted(t, q)
  BY DEF Slotted
<1>2. ~Trial(t, q) /\ ~Trial(t, q)'
  BY DEF Trial
<1>3. Reserved(t, q)' <=> Reserved(t, q)
  BY <1>2 DEF Reserved, Owed, Metered
<1>4. Fate(t, q)' = Fate(t, q)
  BY <1>1, <1>2 DEF Fate
<1> QED BY <1>1, <1>3, <1>4 DEF Keeps, Place

LEMMA OrderSame ==
  ASSUME TypeOK, NEW t \in Threads, OrderInv(t), UNCHANGED <<status, created, clock>>,
         pc[t] # "save", pc'[t] # "save"
  PROVE  OrderInv(t)'
<1>1. \A r \in Runs : /\ status'[r] = "none" => status[r] = "none"
                      /\ status'[r] = "queued" => created[r] # 0
  BY DEF OrderInv
<1> QED BY <1>1, OrderKept

-----------------------------------------------------------------------------
(* The steps, one after the other.  First those of the quotas, which submit   *)
(* and the dequeue share.                                                    *)

LEMMA ReserveIs ==
  ASSUME TypeOK, NEW t \in Threads, NEW r \in Runs, TenantOf[r] \in Tenants, NEW ok, NEW no,
         TryReserve(t, r, ok, no)
  PROVE  \/ /\ Limited[TenantOf[r]] \subseteq held[t] /\ Goto(t, ok) /\ UNCHANGED <<usage, held>>
         \/ /\ Goto(t, no) /\ UNCHANGED <<usage, held>>
         \/ \E res \in Limited[TenantOf[r]] \ held[t] :
              /\ held' = [held EXCEPT ![t] = held[t] \cup {res}] /\ UNCHANGED pc
              /\ IF res = "max_parallel" THEN Reserve(TenantOf[r], "max_parallel", SlotsOf[r]) ELSE SameLimits
<1> DEFINE te == TenantOf[r]
           todo == Limited[te] \ held[t]
           res == FirstOf(todo)
<1>1. todo \subseteq Resources
  BY QuotaAssumption DEF QuotaAssumption
<1>2. CASE todo = {}
  BY <1>2 DEF TryReserve
<1>3. CASE todo # {} /\ Goto(t, no) /\ UNCHANGED <<usage, held>>
  BY <1>3
<1>4. CASE todo # {} /\ Reserve(te, res, Amount(r, res)) /\ held' = [held EXCEPT ![t] = @ \cup {res}] /\ UNCHANGED pc
  <2>1. res \in todo
    BY <1>1, <1>4, FirstOfMember
  <2>2. held' = [held EXCEPT ![t] = held[t] \cup {res}]
    BY <1>4
  <2>3. res = "max_parallel" => Reserve(te, "max_parallel", SlotsOf[r])
    BY <1>4 DEF Amount
  <2>4. ASSUME res # "max_parallel" PROVE SameLimits
    BY <1>4, <2>4, AloneTypes DEF Typed, Reserve, SameLimits
  <2> QED BY <1>4, <2>1, <2>2, <2>3, <2>4
<1> QED BY <1>2, <1>3, <1>4 DEF TryReserve

LEMMA ReleaseIs ==
  ASSUME TypeOK, NEW t \in Threads, NEW r \in Runs, held[t] # {}, ReleaseOne(t, r)
  PROVE  \E res \in held[t] :
           /\ held' = [held EXCEPT ![t] = held[t] \ {res}]
           /\ IF res = "max_parallel" /\ Metered(r)
              THEN Unreserve(TenantOf[r], "max_parallel", SlotsOf[r]) ELSE SameLimits
<1> DEFINE res == FirstOf(held[t])
<1>1. res \in held[t]
  BY FirstOfMember, AloneTypes DEF Typed
<1>2. Unreserve(TenantOf[r], res, Amount(r, res)) /\ held' = [held EXCEPT ![t] = held[t] \ {res}]
  BY DEF ReleaseOne
<1>3. res = "max_parallel" => Unreserve(TenantOf[r], "max_parallel", SlotsOf[r])
  BY <1>2 DEF Amount
<1>4. ASSUME ~(res = "max_parallel" /\ Metered(r)) PROVE SameLimits
  <2> HIDE DEF res
  <2> QED BY <1>2, <1>4, AloneTypes DEF Typed, Unreserve, SameLimits, Metered
<1> QED BY <1>1, <1>2, <1>3, <1>4

LEMMA AloneAccept ==
  ASSUME OneThread, TypeOK, LoneInv, NEW t \in Threads, PathInv(t), Accept(t)
  PROVE  Effect(t)
<1>t. Typed(t)
  BY AloneTypes
<1>r. PICK r \in Runs : r = run[t]
  BY <1>t DEF Typed, Accept
<1>i. /\ pc[t] = "accept" /\ op[t] = "submit" /\ r \in Runs /\ reply[r] = "none" /\ status[r] = "none"
      /\ held[t] = {} /\ created[r] = 0
      /\ UNCHANGED <<usage, cur, held, queue>>
  <2>1. pc[t] = "accept" /\ op[t] = "submit" /\ r \in Runs /\ held[t] = {} /\ UNCHANGED <<usage, cur, held, queue>>
    BY <1>r, <1>t DEF Typed, Accept, PathInv, MethodInv, HeldInv, Granting, Counted, Restoring, Trying, tenantVars
  <2>2. reply[r] = "none"
    BY <1>r, <2>1, AnswerIs DEF Submitting, PathInv
  <2>3. status[r] = "none" /\ created[r] = 0
    BY <1>r, <2>1 DEF PathInv, StatusInv, OrderInv
  <2> QED BY <2>1, <2>2, <2>3
<1>o. \A q \in Runs : created[q] < clock /\ (status[q] = "none" => created[q] = 0)
                      /\ (status[q] = "queued" => created[q] # 0)
                      /\ (reply[q] = "replay" => status[q] = "none")
  BY <1>i DEF PathInv, OrderInv, ReplayInv
<1>1. CASE /\ Fits(r) /\ TakeSlots(t, r)
           /\ status' = [status EXCEPT ![r] = "accepted"]
           /\ Goto(t, IF TenantOf[r] = NoTenant THEN "list" ELSE "reserve")
           /\ UNCHANGED <<created, clock, op, run, clientVars>>
  <2>1. TenantOf[r] # NoTenant <=> TenantOf[r] \in Tenants
    BY <1>r, <1>i, RunConstants, RunsAssumption
  <2>2. /\ active' = [active EXCEPT ![SessionOf[r]] = active[SessionOf[r]] + SlotsOf[r]]
        /\ after'[t] = active'[SessionOf[r]]
    BY <1>1, <1>i, TakeIs
  <2>3. /\ pc'[t] = IF TenantOf[r] = NoTenant THEN "list" ELSE "reserve"
        /\ run' = run /\ op' = op /\ reply' = reply /\ status'[r] = "accepted"
        /\ \A q \in Runs \ {r} : status'[q] = status[q]
        /\ UNCHANGED <<created, clock>>
    BY <1>r, <1>1, <1>t, <1>i DEF Typed, Goto, clientVars
  <2>4. PathInv(t)'
    <3>1. OrderInv(t)'
      BY <1>r, <1>i, <1>o, <2>3, OrderKept DEF PathInv
    <3>2. MethodInv(t)' /\ StatusInv(t)' /\ LineInv(t)' /\ AfterInv(t)'
      BY <1>r, <1>i, <2>1, <2>2, <2>3 DEF MethodInv, StatusInv, LineInv, AfterInv,
         Trying, Granting, Counted, Restoring, Promoting, Returning
    <3>3. HeldInv(t)' /\ ReplayInv'
      BY <1>r, <1>i, <1>o, <2>1, <2>3 DEF HeldInv, ReplayInv, Granting, Counted, Restoring
    <3> QED BY <3>1, <3>2, <3>3 DEF PathInv
  <2>5. Touches(t, r)
    BY <1>r, <1>i, <2>1, <2>2, <2>3 DEF Touches, Keeps, SlotMove, QuotaMove, FateMove, Slotted, Reserved, Owed, Fate, Place,
       Trial, SameLimits, Refused, Granting, Counted, Promoting, Restoring, Metered
  <2> QED BY <1>r, <1>i, <2>4, <2>5 DEF Effect
<1>2. CASE Answer(t, "rejected") /\ Leave(t) /\ UNCHANGED <<recordVars, after>>
  <2>1. /\ pc'[t] = "idle" /\ op'[t] = "none" /\ run'[t] = NoRun
        /\ reply'[r] = "rejected" /\ \A q \in Runs \ {r} : reply'[q] = reply[q]
        /\ UNCHANGED <<status, created, clock, active>>
    BY <1>r, <1>2, <1>t, <1>i DEF Typed, Leave, Goto, Answer, recordVars
  <2>2. PathInv(t)'
    <3>1. OrderInv(t)'
      BY <1>r, <1>i, <1>o, <2>1, OrderKept DEF PathInv
    <3>2. MethodInv(t)' /\ StatusInv(t)' /\ LineInv(t)' /\ AfterInv(t)' /\ HeldInv(t)' /\ ReplayInv'
      BY <1>r, <1>i, <1>o, <2>1 DEF MethodInv, StatusInv, LineInv, AfterInv, HeldInv, ReplayInv,
         Trying, Granting, Counted, Restoring, Promoting, Returning
    <3> QED BY <3>1, <3>2 DEF PathInv
  <2>3. Touches(t, r)
    <3>0. NoRun \notin Runs
      BY RunsAssumption
    <3>1. \A q \in Runs \ {r} : Keeps(t, q)
      BY <1>r, <1>i, <2>1, <3>0 DEF Keeps, Slotted, Reserved, Owed, Fate, Place, Trial, Metered,
         Granting, Counted, Promoting, Restoring
    <3>2. /\ ~Slotted(t, r) /\ ~Slotted(t, r)' /\ ~Owed(t, r) /\ ~Owed(t, r)'
          /\ ~Trial(t, r)
      BY <1>r, <1>i, <2>1, <3>0 DEF Slotted, Owed, Trial, Granting, Counted, Promoting, Restoring
    <3>3. SlotMove(t, r) /\ QuotaMove(t, r)
      BY <1>r, <1>i, <2>1, <3>2 DEF SlotMove, QuotaMove, Reserved, SameLimits
    <3>4. Fate(t, r) = "new" /\ Fate(t, r)' = "refused" /\ Place(r)' = Place(r)
      BY <1>r, <1>i, <2>1, <3>2 DEF Fate, Place, Refused
    <3>5. FateMove(t, r)
      BY <3>4 DEF FateMove
    <3> QED BY <3>1, <3>3, <3>5 DEF Touches
  <2> QED BY <1>r, <1>i, <2>2, <2>3 DEF Effect
<1>3. CASE /\ created' = [created EXCEPT ![r] = clock] /\ clock' = clock + 1
           /\ op' = [op EXCEPT ![t] = "enqueue"] /\ Goto(t, "save")
           /\ UNCHANGED <<status, active, beat, run, after, clientVars>>
  <2>1. /\ pc'[t] = "save" /\ op'[t] = "enqueue" /\ UNCHANGED <<run, reply, status, active>>
        /\ created'[r] = clock /\ \A q \in Runs \ {r} : created'[q] = created[q]
        /\ clock \in Nat /\ clock' = clock + 1 /\ \A q \in Runs : created[q] \in Nat
    BY <1>r, <1>i, <1>3, <1>t DEF Typed, Goto, clientVars
  <2>2. OrderInv(t)'
    BY <1>r, <1>i, <1>o, <2>1 DEF PathInv, OrderInv
  <2>3. PathInv(t)'
    BY <1>r, <1>i, <2>1, <2>2 DEF PathInv, MethodInv, StatusInv, LineInv, AfterInv, HeldInv, ReplayInv,
       QueuedFor, Trying, Granting, Counted, Restoring, Promoting, Returning
  <2>4. Nothing(t)
    BY <1>r, <1>i, <2>1 DEF Nothing, Keeps, Slotted, Reserved, Owed, Fate, Place,
       Trial, SameLimits, Refused, Granting, Counted, Promoting, Restoring, Metered
  <2> QED BY <2>3, <2>4 DEF Effect
<1> QED BY <1>r, <1>1, <1>2, <1>3 DEF Accept

LEMMA AloneReserve ==
  ASSUME OneThread, TypeOK, LoneInv, NEW t \in Threads, PathInv(t), ReserveQuotas(t)
  PROVE  Effect(t)
<1>t. Typed(t)
  BY AloneTypes
<1>r. PICK r \in Runs : r = run[t]
  BY <1>t DEF Typed, ReserveQuotas
<1>i. /\ pc[t] = "reserve" /\ op[t] = "submit" /\ status[r] = "accepted" /\ TenantOf[r] \in Tenants
      /\ after[t] = active[SessionOf[r]]
      /\ UNCHANGED <<status, created, clock, active, reply, op, run, cur, after, queue>>
  BY <1>r, <1>t DEF Typed, ReserveQuotas, PathInv, MethodInv, StatusInv, AfterInv, HeldInv, Granting, Trying,
     recordVars, clientVars
<1>q. TryReserve(t, r, "soft", "rollback_slot")
  BY <1>r DEF ReserveQuotas
<1>k. ASSUME pc'[t] \in {"reserve", "soft", "rollback_slot"}, pc'[t] = "soft" => Limited[TenantOf[r]] \subseteq held'[t]
      PROVE  PathInv(t)'
  <2>1. OrderInv(t)'
    BY <1>i, <1>k, OrderSame DEF PathInv
  <2>2. MethodInv(t)' /\ StatusInv(t)' /\ LineInv(t)' /\ AfterInv(t)' /\ HeldInv(t)' /\ ReplayInv'
    BY <1>r, <1>i, <1>k DEF PathInv, MethodInv, StatusInv, LineInv, AfterInv, HeldInv, ReplayInv,
       Trying, Granting, Counted, Restoring, Promoting, Returning
  <2> QED BY <2>1, <2>2 DEF PathInv
<1>p. ASSUME pc'[t] \in {"reserve", "soft", "rollback_slot"}
      PROVE  /\ \A q \in Runs : /\ Slotted(t, q)' <=> Slotted(t, q)
                                /\ Fate(t, q)' = Fate(t, q) /\ Place(q)' = Place(q)
             /\ \A q \in Runs \ {r} : Reserved(t, q)' <=> Reserved(t, q)
             /\ Reserved(t, r) <=> Metered(r) /\ "max_parallel" \in held[t]
             /\ Reserved(t, r)' <=> Metered(r) /\ "max_parallel" \in held'[t]
  <2>1. \A q \in Runs : (Slotted(t, q)' <=> Slotted(t, q)) /\ Trial(t, q) = (q = r) /\ Trial(t, q)' = (q = r)
    BY <1>r, <1>i, <1>p DEF Slotted, Trial, Granting, Counted
  <2>2. \A q \in Runs : Fate(t, q)' = Fate(t, q) /\ Place(q)' = Place(q)
    BY <1>i, <2>1 DEF Fate, Place
  <2>3. \A q \in Runs : /\ Owed(t, q) <=> \/ status[q] = "accepted" /\ q # r
                                          \/ "max_parallel" \in held[t] /\ q = r
                        /\ Owed(t, q)' <=> \/ status[q] = "accepted" /\ q # r
                                           \/ "max_parallel" \in held'[t] /\ q = r
    BY <1>r, <1>i, <1>p, <2>1 DEF Owed, Promoting, Counted, Restoring
  <2> QED BY <1>r, <2>1, <2>2, <2>3 DEF Reserved, Metered
<1>1. CASE Limited[TenantOf[r]] \subseteq held[t] /\ Goto(t, "soft") /\ UNCHANGED <<usage, held>>
  <2>1. pc'[t] = "soft"
    BY <1>1, <1>t DEF Typed, Goto
  <2> QED BY <1>1, <1>i, <1>k, <1>p, <2>1 DEF Effect, Nothing, Keeps, SameLimits
<1>2. CASE Goto(t, "rollback_slot") /\ UNCHANGED <<usage, held>>
  <2>1. pc'[t] = "rollback_slot"
    BY <1>2, <1>t DEF Typed, Goto
  <2> QED BY <1>2, <1>i, <1>k, <1>p, <2>1 DEF Effect, Nothing, Keeps, SameLimits
<1>3. ASSUME NEW res \in Limited[TenantOf[r]] \ held[t],
             held' = [held EXCEPT ![t] = held[t] \cup {res}], UNCHANGED pc,
             IF res = "max_parallel" THEN Reserve(TenantOf[r], "max_parallel", SlotsOf[r]) ELSE SameLimits
      PROVE  Effect(t)
  <2>1. held'[t] = held[t] \cup {res} /\ pc'[t] = "reserve"
    BY <1>3, <1>t, <1>i DEF Typed
  <2>2. QuotaMove(t, r)
    BY <1>3, <1>i, <1>p, <2>1 DEF QuotaMove, Metered
  <2> QED BY <1>i, <1>k, <1>p, <2>1, <2>2 DEF Effect, Touches, Keeps, SlotMove, FateMove
<1> QED BY <1>q, <1>i, <1>1, <1>2, <1>3, ReserveIs

LEMMA AloneSoft ==
  ASSUME OneThread, TypeOK, LoneInv, NEW t \in Threads, PathInv(t), CheckSoftQuotas(t)
  PROVE  Effect(t)
<1>t. Typed(t)
  BY AloneTypes
<1>r. PICK r \in Runs : r = run[t]
  BY <1>t DEF Typed, CheckSoftQuotas
<1>i. /\ pc[t] = "soft" /\ op[t] = "submit" /\ status[r] = "accepted" /\ TenantOf[r] \in Tenants
      /\ after[t] = active[SessionOf[r]] /\ pc'[t] \in {"list", "rollback_slot"}
      /\ Limited[TenantOf[r]] \subseteq held[t]
      /\ UNCHANGED <<status, created, clock, active, usage, reply, op, run, cur, held, after, queue>>
  BY <1>r, <1>t DEF Typed, CheckSoftQuotas, PathInv, MethodInv, StatusInv, AfterInv, HeldInv, Granting, Trying,
     recordVars, clientVars, tenantVars, localVars, Goto
<1>n. reply[r] = "none"
  BY <1>r, <1>i, AnswerIs DEF PathInv, Submitting
<1>1. PathInv(t)'
  <2>1. OrderInv(t)'
    BY <1>i, OrderSame DEF PathInv
  <2>2. MethodInv(t)' /\ StatusInv(t)' /\ LineInv(t)' /\ AfterInv(t)' /\ HeldInv(t)' /\ ReplayInv'
    BY <1>r, <1>i DEF PathInv, MethodInv, StatusInv, LineInv, AfterInv, HeldInv, ReplayInv,
       Trying, Granting, Counted, Restoring, Promoting, Returning
  <2> QED BY <2>1, <2>2 DEF PathInv
<1>2. ASSUME NEW q \in Runs
      PROVE  /\ Slotted(t, q)' <=> Slotted(t, q)
             /\ Trial(t, q) = (q = r) /\ Trial(t, q)' = (q = r /\ pc'[t] = "rollback_slot")
             /\ Place(q)' = Place(q) /\ Slotted(t, r)
  BY <1>r, <1>i DEF Slotted, Trial, Granting, Counted, Place
<1>3. ASSUME NEW q \in Runs PROVE Reserved(t, q)' <=> Reserved(t, q)
  BY <1>r, <1>i, <1>2 DEF Reserved, Metered, Owed, Promoting, Counted, Restoring
<1>4. \A q \in Runs \ {r} : Fate(t, q)' = Fate(t, q)
  BY <1>i, <1>2 DEF Fate
<1>5. FateMove(t, r)
  <2>1. Fate(t, r) = "new" /\ Fate(t, r)' \in {"new", "running"}
    BY <1>i, <1>n, <1>2 DEF Fate, Refused
  <2> QED BY <1>2, <2>1 DEF FateMove
<1>6. Touches(t, r)
  BY <1>i, <1>2, <1>3, <1>4, <1>5 DEF Touches, Keeps, SlotMove, QuotaMove, SameLimits
<1> QED BY <1>1, <1>6 DEF Effect

LEMMA AloneRollbackSlot ==
  ASSUME OneThread, TypeOK, LoneInv, NEW t \in Threads, PathInv(t), RollbackSlot(t)
  PROVE  Effect(t)
<1>t. Typed(t)
  BY AloneTypes
<1>r. PICK r \in Runs : r = run[t]
  BY <1>t DEF Typed, RollbackSlot
<1>i. /\ pc[t] = "rollback_slot" /\ op[t] = "submit" /\ status[r] = "accepted" /\ TenantOf[r] \in Tenants
      /\ after[t] = active[SessionOf[r]] /\ pc'[t] = "rollback_mark"
      /\ UNCHANGED <<status, created, clock, usage, reply, op, run, cur, held, after, queue>>
  BY <1>r, <1>t DEF Typed, RollbackSlot, PathInv, MethodInv, StatusInv, AfterInv, HeldInv, Granting, Trying,
     clientVars, tenantVars, localVars, Goto
<1>f. FreeSlots(r)
  BY <1>r, <1>i DEF RollbackSlot, WriteBack, FreeSlots
<1>1. PathInv(t)'
  <2>1. OrderInv(t)'
    BY <1>i, OrderSame DEF PathInv
  <2>2. MethodInv(t)' /\ StatusInv(t)' /\ LineInv(t)' /\ AfterInv(t)' /\ HeldInv(t)' /\ ReplayInv'
    BY <1>r, <1>i DEF PathInv, MethodInv, StatusInv, LineInv, AfterInv, HeldInv, ReplayInv,
       Trying, Granting, Counted, Restoring, Promoting, Returning
  <2> QED BY <2>1, <2>2 DEF PathInv
<1>2. ASSUME NEW q \in Runs
      PROVE  /\ Slotted(t, q)' <=> Slotted(t, q) /\ q # r
             /\ Trial(t, q) = (q = r) /\ Trial(t, q)' = (q = r)
             /\ Place(q)' = Place(q) /\ Slotted(t, r)
  BY <1>r, <1>i DEF Slotted, Trial, Granting, Counted, Place
<1>3. ASSUME NEW q \in Runs PROVE Reserved(t, q)' <=> Reserved(t, q)
  BY <1>r, <1>i, <1>2 DEF Reserved, Metered, Owed, Promoting, Counted, Restoring
<1>4. ASSUME NEW q \in Runs PROVE Fate(t, q)' = Fate(t, q)
  BY <1>i, <1>2 DEF Fate
<1>5. Touches(t, r)
  BY <1>i, <1>f, <1>2, <1>3, <1>4 DEF Touches, Keeps, SlotMove, QuotaMove, FateMove, SameLimits
<1> QED BY <1>1, <1>5 DEF Effect

LEMMA AloneRollbackMark ==
  ASSUME OneThread, TypeOK, LoneInv, NEW t \in Threads, PathInv(t), RollbackMark(t)
  PROVE  Effect(t)
<1>t. Typed(t)
  BY AloneTypes
<1>r. PICK r \in Runs : r = run[t]
  BY <1>t DEF Typed, RollbackMark
<1>i. /\ pc[t] = "rollback_mark" /\ op[t] = "submit" /\ status[r] = "accepted" /\ TenantOf[r] \in Tenants
      /\ pc'[t] = "rollback_quota" /\ status'[r] = "failed" /\ \A q \in Runs \ {r} : status'[q] = status[q]
      /\ UNCHANGED <<created, clock, active, usage, reply, op, run, cur, held, after, queue>>
  BY <1>r, <1>t DEF Typed, RollbackMark, MarkStatus, PathInv, MethodInv, StatusInv, HeldInv, Granting, Trying,
     clientVars, tenantVars, localVars, Goto
<1>1. PathInv(t)'
  <2>1. OrderInv(t)'
    <3>1. \A q \in Runs : status[q] = "queued" => created[q] # 0
      BY DEF PathInv, OrderInv
    <3> QED BY <1>i, <3>1, OrderKept DEF PathInv
  <2>2. MethodInv(t)' /\ StatusInv(t)' /\ LineInv(t)' /\ AfterInv(t)' /\ HeldInv(t)' /\ ReplayInv'
    BY <1>r, <1>i DEF PathInv, MethodInv, StatusInv, LineInv, AfterInv, HeldInv, ReplayInv,
       Trying, Granting, Counted, Restoring, Promoting, Returning
  <2> QED BY <2>1, <2>2 DEF PathInv
<1>2. ASSUME NEW q \in Runs
      PROVE  /\ Slotted(t, q)' <=> Slotted(t, q)
             /\ Trial(t, q) = (q = r) /\ Trial(t, q)' = (q = r)
             /\ Place(q)' = Place(q)
  BY <1>r, <1>i DEF Slotted, Trial, Granting, Counted, Place
<1>3. ASSUME NEW q \in Runs PROVE Reserved(t, q)' <=> Reserved(t, q)
  BY <1>r, <1>i, <1>2 DEF Reserved, Metered, Owed, Promoting, Counted, Restoring
<1>4. ASSUME NEW q \in Runs PROVE Fate(t, q)' = Fate(t, q)
  BY <1>i, <1>2 DEF Fate
<1>5. Nothing(t)
  BY <1>i, <1>2, <1>3, <1>4 DEF Nothing, Keeps, SameLimits
<1> QED BY <1>1, <1>5 DEF Effect

LEMMA AloneRollbackQuota ==
  ASSUME OneThread, TypeOK, LoneInv, NEW t \in Threads, PathInv(t), RollbackQuota(t)
  PROVE  Effect(t)
<1>t. Typed(t)
  BY AloneTypes
<1>r. PICK r \in Runs : r = run[t]
  BY <1>t DEF Typed, RollbackQuota
<1>i. /\ pc[t] = "rollback_quota" /\ op[t] = "submit" /\ status[r] = "failed" /\ TenantOf[r] \in Tenants
      /\ UNCHANGED <<status, created, clock, active, cur, queue>>
  BY <1>r, <1>t DEF Typed, RollbackQuota, PathInv, MethodInv, StatusInv, HeldInv, Granting, Trying, recordVars
<1>n. reply[r] = "none"
  BY <1>r, <1>i, AnswerIs DEF PathInv, Submitting
<1>k. ASSUME \/ UNCHANGED <<pc, op, run, after, reply>>
             \/ /\ pc'[t] = "idle" /\ op'[t] = "none" /\ held'[t] = {}
                /\ \A q \in Runs : reply'[q] = "replay" => reply[q] = "replay"
      PROVE  PathInv(t)'
  <2>1. OrderInv(t)'
    BY <1>i, <1>k, OrderSame DEF PathInv
  <2>2. MethodInv(t)' /\ StatusInv(t)' /\ LineInv(t)' /\ AfterInv(t)' /\ HeldInv(t)' /\ ReplayInv'
    BY <1>r, <1>i, <1>k DEF PathInv, MethodInv, StatusInv, LineInv, AfterInv, HeldInv, ReplayInv,
       Trying, Granting, Counted, Restoring, Promoting, Returning
  <2> QED BY <2>1, <2>2 DEF PathInv
<1>1. CASE held[t] # {} /\ ReleaseOne(t, r) /\ UNCHANGED <<pc, op, run, after, clientVars>>
  <2>1. PICK res \in held[t] :
           /\ held' = [held EXCEPT ![t] = held[t] \ {res}]
           /\ IF res = "max_parallel" /\ Metered(r)
              THEN Unreserve(TenantOf[r], "max_parallel", SlotsOf[r]) ELSE SameLimits
    BY <1>1, ReleaseIs
  <2>2. held'[t] = held[t] \ {res} /\ UNCHANGED reply
    BY <1>1, <1>t, <2>1 DEF Typed, clientVars
  <2>3. ASSUME NEW q \in Runs
        PROVE  /\ Slotted(t, q)' <=> Slotted(t, q)
               /\ Trial(t, q) = (q = r) /\ Trial(t, q)' = (q = r)
               /\ Place(q)' = Place(q) /\ Fate(t, q)' = Fate(t, q)
    BY <1>r, <1>i, <1>1, <2>2 DEF Slotted, Trial, Granting, Counted, Place, Fate
  <2>4. ASSUME NEW q \in Runs \ {r} PROVE Reserved(t, q)' <=> Reserved(t, q)
    BY <1>r, <1>i, <1>1, <2>3 DEF Reserved, Metered, Owed, Promoting, Counted, Restoring
  <2>5. /\ Reserved(t, r) <=> Metered(r) /\ "max_parallel" \in held[t]
        /\ Reserved(t, r)' <=> Metered(r) /\ "max_parallel" \in held'[t]
    BY <1>r, <1>i, <1>1, <2>3 DEF Reserved, Metered, Owed, Promoting, Counted, Restoring
  <2>6. QuotaMove(t, r)
    BY <2>1, <2>2, <2>5 DEF QuotaMove
  <2>7. Touches(t, r)
    BY <1>i, <2>3, <2>4, <2>6 DEF Touches, Keeps, SlotMove, FateMove
  <2> QED BY <1>1, <1>k, <2>2, <2>7 DEF Effect
<1>2. CASE /\ held[t] = {} /\ Answer(t, "rejected") /\ Leave(t)
           /\ after' = [after EXCEPT ![t] = 0] /\ UNCHANGED <<usage, held>>
  <2>0. NoRun \notin Runs
    BY RunsAssumption
  <2>1. /\ pc'[t] = "idle" /\ op'[t] = "none" /\ run'[t] = NoRun /\ held'[t] = {}
        /\ reply'[r] = "rejected" /\ \A q \in Runs \ {r} : reply'[q] = reply[q]
    BY <1>r, <1>2, <1>t DEF Typed, Answer, Leave, Goto
  <2>2. ASSUME NEW q \in Runs
        PROVE  /\ Slotted(t, q)' <=> Slotted(t, q)
               /\ Trial(t, q) = (q = r) /\ ~Trial(t, q)' /\ Place(q)' = Place(q)
    BY <1>r, <1>i, <2>1 DEF Slotted, Trial, Granting, Counted, Place
  <2>3. ASSUME NEW q \in Runs PROVE Reserved(t, q)' <=> Reserved(t, q)
    BY <1>r, <1>i, <1>2, <2>0, <2>1, <2>2 DEF Reserved, Metered, Owed, Promoting, Counted, Restoring
  <2>4. ASSUME NEW q \in Runs \ {r} PROVE Fate(t, q)' = Fate(t, q)
    BY <1>i, <2>1, <2>2 DEF Fate
  <2>5. FateMove(t, r)
    BY <1>n, <2>1, <2>2 DEF Fate, FateMove, Refused
  <2>6. Touches(t, r)
    BY <1>i, <1>2, <2>2, <2>3, <2>4, <2>5 DEF Touches, Keeps, SlotMove, QuotaMove, SameLimits
  <2> QED BY <1>k, <2>1, <2>6 DEF Effect
<1> QED BY <1>r, <1>1, <1>2 DEF RollbackQuota

LEMMA AloneSave ==
  ASSUME OneThread, TypeOK, LoneInv, NEW t \in Threads, PathInv(t), SaveQueued(t)
  PROVE  Effect(t)
<1>t. Typed(t)
  BY AloneTypes
<1>r. PICK r \in Runs : r = run[t]
  BY <1>t DEF Typed, SaveQueued
<1>i. /\ pc[t] = "save" /\ op[t] = "enqueue" /\ status[r] = "none" /\ created[r] # 0 /\ held[t] = {}
      /\ \A q \in Runs \ {r} : created[q] < created[r]
      /\ pc'[t] = "list" /\ status'[r] = "queued" /\ \A q \in Runs \ {r} : status'[q] = status[q]
      /\ UNCHANGED <<created, clock, active, usage, reply, op, run, cur, held, after, queue>>
  BY <1>r, <1>t DEF Typed, SaveQueued, PathInv, MethodInv, StatusInv, HeldInv, OrderInv, Granting, Counted, Restoring,
     clientVars, tenantVars, localVars, Goto
<1>n. reply[r] = "none"
  BY <1>r, <1>i, AnswerIs DEF PathInv, Submitting
<1>1. PathInv(t)'
  <2>1. OrderInv(t)'
    <3>1. \A q \in Runs : status[q] = "queued" => created[q] # 0
      BY DEF PathInv, OrderInv
    <3> QED BY <1>r, <1>i, <3>1, OrderKept DEF PathInv
  <2>2. MethodInv(t)' /\ StatusInv(t)' /\ LineInv(t)' /\ AfterInv(t)' /\ HeldInv(t)' /\ ReplayInv'
    BY <1>r, <1>i, <1>n DEF PathInv, MethodInv, StatusInv, LineInv, AfterInv, HeldInv, ReplayInv, Live,
       Trying, Granting, Counted, Restoring, Promoting, Returning
  <2> QED BY <2>1, <2>2 DEF PathInv
<1>2. ASSUME NEW q \in Runs
      PROVE  /\ Slotted(t, q)' <=> Slotted(t, q)
             /\ ~Trial(t, q) /\ ~Trial(t, q)'
             /\ (q # r => Place(q)' = Place(q)) /\ Place(r)' = created[r]
  BY <1>r, <1>i DEF Slotted, Trial, Granting, Counted, Place
<1>3. ASSUME NEW q \in Runs PROVE Reserved(t, q)' <=> Reserved(t, q)
  BY <1>r, <1>i, <1>2 DEF Reserved, Metered, Owed, Promoting, Counted, Restoring
<1>4. \A q \in Runs \ {r} : Fate(t, q)' = Fate(t, q)
  BY <1>i, <1>2 DEF Fate
<1>5. FateMove(t, r)
  <2>1. Fate(t, r) = "new" /\ Fate(t, r)' = "queued"
    BY <1>i, <1>n, <1>2 DEF Fate, Refused
  <2>2. \A q \in Runs : Fate(t, q) = "queued" => status[q] = "queued" /\ q # r
    BY <1>2, <2>1 DEF Fate
  <2> QED BY <1>i, <1>2, <2>1, <2>2 DEF FateMove, Place
<1>6. Touches(t, r)
  BY <1>i, <1>2, <1>3, <1>4, <1>5 DEF Touches, Keeps, SlotMove, QuotaMove, SameLimits
<1> QED BY <1>1, <1>6 DEF Effect

LEMMA AloneConfirm ==
  ASSUME OneThread, TypeOK, LoneInv, NEW t \in Threads, PathInv(t), Confirm(t)
  PROVE  Effect(t)
<1>t. Typed(t)
  BY AloneTypes
<1>r. PICK r \in Runs : r = run[t]
  BY <1>t DEF Typed, Confirm
<1>0. NoRun \notin Runs
  BY RunsAssumption
<1>i. /\ pc[t] = "confirm" /\ op[t] = "enqueue" /\ held[t] = {}
      /\ pc'[t] = "idle" /\ op'[t] = "none" /\ run'[t] = NoRun
      /\ reply'[r] \in {"accepted", "queued"} /\ \A q \in Runs \ {r} : reply'[q] = reply[q]
      /\ UNCHANGED <<status, created, clock, active, usage, cur, held, after, queue>>
  BY <1>r, <1>t DEF Typed, Confirm, Answer, Leave, PathInv, MethodInv, HeldInv, Granting, Counted, Restoring,
     recordVars, tenantVars, localVars, Goto
<1>n. reply[r] = "none"
  BY <1>r, <1>i, AnswerIs DEF PathInv, Submitting
<1>1. PathInv(t)'
  <2>1. OrderInv(t)'
    BY <1>i, OrderSame DEF PathInv
  <2>2. MethodInv(t)' /\ StatusInv(t)' /\ LineInv(t)' /\ AfterInv(t)' /\ HeldInv(t)' /\ ReplayInv'
    BY <1>r, <1>i DEF PathInv, MethodInv, StatusInv, LineInv, AfterInv, HeldInv, ReplayInv, Live,
       Trying, Granting, Counted, Restoring, Promoting, Returning
  <2> QED BY <2>1, <2>2 DEF PathInv
<1>2. ASSUME NEW q \in Runs
      PROVE  /\ Slotted(t, q)' <=> Slotted(t, q)
             /\ ~Trial(t, q) /\ ~Trial(t, q)' /\ Place(q)' = Place(q)
  BY <1>r, <1>i, <1>0 DEF Slotted, Trial, Granting, Counted, Place
<1>3. ASSUME NEW q \in Runs PROVE Reserved(t, q)' <=> Reserved(t, q)
  BY <1>r, <1>i, <1>2, <1>0 DEF Reserved, Metered, Owed, Promoting, Counted, Restoring
<1>4. ASSUME NEW q \in Runs PROVE Fate(t, q)' = Fate(t, q)
  BY <1>r, <1>i, <1>n, <1>2 DEF Fate, Refused
<1>5. Nothing(t)
  BY <1>i, <1>2, <1>3, <1>4 DEF Nothing, Keeps, SameLimits
<1> QED BY <1>1, <1>5 DEF Effect

\* a dequeue that returns
LEMMA AloneReturn ==
  ASSUME OneThread, TypeOK, LoneInv, NEW t \in Threads, PathInv(t), NEW told, DequeueReturns(t, told),
         pc[t] \in {"list", "get", "clobber", "restore_quota", "dispatch"},
         pc[t] = "restore_quota" => held[t] = {},
         UNCHANGED <<status, created, clock, active, usage>>
  PROVE  Effect(t)
<1>t. Typed(t)
  BY AloneTypes
<1>r. PICK r \in Runs : r = run[t]
  BY <1>t DEF Typed
<1>0. NoRun \notin Runs
  BY RunsAssumption
<1>i. op[t] # "none" /\ (pc[t] \notin {"list", "dispatch"} => held[t] = {})
  BY DEF PathInv, MethodInv, HeldInv, Returning, Promoting, Restoring, Granting, Counted
<1>a. /\ op[t] = "submit" => status[r] = "accepted" /\ reply[r] = "none"
      /\ op[t] = "enqueue" => Live(r)
      /\ op[t] = "release" => status[r] = "done"
      /\ op[t] \in {"fail", "sweep"} => status[r] = "failed"
      /\ pc[t] = "dispatch" => status[cur[t]] = "accepted"
  BY <1>r, AnswerIs DEF PathInv, StatusInv, Returning, Promoting, Restoring, Submitting
<1>1. /\ pc'[t] = (CASE op[t] = "enqueue" -> "confirm"
                     [] op[t] = "release" /\ TenantOf[r] # NoTenant -> "release_quota"
                     [] op[t] = "sweep" -> "sweep"
                     [] OTHER -> "idle")
      /\ op'[t] = IF pc'[t] = "idle" THEN "none" ELSE op[t]
      /\ run'[t] = IF pc'[t] \in {"idle", "sweep"} THEN NoRun ELSE r
      /\ cur'[t] = NoRun /\ held'[t] = {}
      /\ reply' = IF op[t] = "submit" THEN [reply EXCEPT ![r] = "accepted"] ELSE reply
  BY <1>r, <1>t DEF Typed, DequeueReturns, Goto
<1>2. pc'[t] \in {"confirm", "release_quota", "sweep", "idle"}
  BY <1>1
<1>3. \A q \in Runs : \/ reply'[q] = reply[q]
                      \/ q = r /\ op[t] = "submit" /\ reply[q] = "none" /\ reply'[q] = "accepted"
  BY <1>1, <1>a, <1>t DEF Typed
<1>4. PathInv(t)'
  <2>1. OrderInv(t)'
    BY <1>2, OrderSame DEF PathInv
  <2>2. MethodInv(t)' /\ LineInv(t)' /\ AfterInv(t)' /\ HeldInv(t)'
    BY <1>r, <1>1, <1>i DEF MethodInv, LineInv, AfterInv, HeldInv,
       Trying, Granting, Counted, Restoring, Promoting, Returning
  <2>3. StatusInv(t)'
    <3>1. pc'[t] = "confirm" => run'[t] = r /\ Live(r)
      BY <1>1, <1>a
    <3>2. pc'[t] = "release_quota" => run'[t] = r /\ status[r] = "done"
      BY <1>1, <1>a
    <3> QED BY <3>1, <3>2, <1>2 DEF StatusInv, Live, Counted, Restoring, Promoting, Returning
  <2>4. ReplayInv'
    BY <1>3 DEF PathInv, ReplayInv
  <2> QED BY <2>1, <2>2, <2>3, <2>4 DEF PathInv
<1>5. ASSUME NEW q \in Runs
      PROVE  /\ Slotted(t, q)' <=> Slotted(t, q)
             /\ ~Trial(t, q) /\ ~Trial(t, q)' /\ Place(q)' = Place(q)
  <2>1. ~Trial(t, q) /\ ~Trial(t, q)'
    BY <1>2 DEF Trial, Granting
  <2>2. Slotted(t, q) <=> status[q] = "accepted"
    BY DEF Slotted, Counted
  <2>3. Slotted(t, q)' <=> status[q] = "accepted"
    BY <1>2 DEF Slotted, Counted
  <2> QED BY <2>1, <2>2, <2>3 DEF Place
<1>6. ASSUME NEW q \in Runs PROVE Reserved(t, q)' <=> Reserved(t, q)
  <2>1. Owed(t, q)' <=> \/ status[q] = "accepted"
                        \/ r = q /\ op[t] = "release" /\ TenantOf[r] # NoTenant
    <3>1. (pc'[t] = "release_quota") = (op[t] = "release" /\ TenantOf[r] # NoTenant)
      BY <1>1
    <3>2. pc'[t] = "release_quota" => run'[t] = r /\ op'[t] = "release"
      BY <1>1, <3>1
    <3>3. pc'[t] # "release_quota" => op'[t] # "release"
      BY <1>1
    <3> QED BY <3>1, <3>2, <3>3, <1>1, <1>2, <1>5 DEF Owed
  <2>2. Owed(t, q) <=> \/ status[q] = "accepted"
                       \/ r = q /\ op[t] = "release"
    <3>1. \/ held[t] = {} \/ pc[t] = "list" \/ (pc[t] = "dispatch" /\ status[cur[t]] = "accepted")
      BY <1>i, <1>a
    <3>2. ~Trial(t, q)
      BY <1>5
    <3>3. ~("max_parallel" \in held[t] /\ cur[t] = q /\ pc[t] \in Promoting) \/ status[q] = "accepted"
      BY <3>1 DEF Promoting, Counted, Restoring
    <3> QED BY <3>2, <3>3, <1>r DEF Owed
  <2>3. Metered(q) => (TenantOf[q] # NoTenant)
    BY RunsAssumption DEF Metered
  <2>4. Metered(q) => (Owed(t, q)' <=> Owed(t, q))
    BY <2>1, <2>2, <2>3
  <2>5. Metered(q)' <=> Metered(q)
    BY DEF Metered
  <2> QED BY <2>4, <2>5 DEF Reserved
<1>7. ASSUME NEW q \in Runs PROVE Fate(t, q)' = Fate(t, q)
  BY <1>3, <1>5 DEF Fate, Refused
<1>8. Nothing(t)
  BY <1>5, <1>6, <1>7 DEF Nothing, Keeps, SameLimits
<1> QED BY <1>4, <1>8 DEF Effect

LEMMA AloneList ==
  ASSUME OneThread, TypeOK, LoneInv, NEW t \in Threads, PathInv(t), ListQueued(t)
  PROVE  Effect(t)
<1>t. Typed(t)
  BY AloneTypes
<1>r. PICK r \in Runs : r = run[t]
  BY <1>t DEF Typed, ListQueued
<1>i. pc[t] = "list" /\ op[t] # "none" /\ UNCHANGED <<status, created, clock, active, usage>>
  BY DEF ListQueued, PathInv, MethodInv, Returning, recordVars, tenantVars
<1>1. CASE /\ queue' = [queue EXCEPT ![t] = QueuedFor(r)]
           /\ held' = [held EXCEPT ![t] = {}]
           /\ Goto(t, "get")
           /\ UNCHANGED <<op, run, cur, after, reply, known>>
  <2>1. /\ queue'[t] = QueuedFor(r) /\ held'[t] = {} /\ pc'[t] = "get"
        /\ UNCHANGED <<op, run, cur, after, reply>>
    BY <1>1, <1>t DEF Typed, Goto
  <2>2. OrderInv(t)'
    BY <1>i, <2>1, OrderSame DEF PathInv
  <2>3. MethodInv(t)' /\ StatusInv(t)' /\ LineInv(t)' /\ AfterInv(t)' /\ HeldInv(t)' /\ ReplayInv'
    BY <1>r, <1>i, <2>1 DEF PathInv, MethodInv, StatusInv, LineInv, AfterInv, HeldInv, ReplayInv, Live, QueuedFor,
       Trying, Granting, Counted, Restoring, Promoting, Returning
  <2>4. ASSUME NEW q \in Runs PROVE Keeps(t, q)
    <3>1. (Slotted(t, q)' <=> Slotted(t, q)) /\ ~Trial(t, q) /\ ~Trial(t, q)' /\ Place(q)' = Place(q)
      BY <1>i, <2>1 DEF Slotted, Trial, Granting, Counted, Place
    <3>2. Reserved(t, q)' <=> Reserved(t, q)
      BY <1>i, <2>1, <3>1 DEF Reserved, Metered, Owed, Promoting, Counted, Restoring
    <3>3. Fate(t, q)' = Fate(t, q)
      BY <1>i, <2>1, <3>1 DEF Fate
    <3> QED BY <3>1, <3>2, <3>3 DEF Keeps
  <2> QED BY <1>i, <2>2, <2>3, <2>4 DEF Effect, PathInv, Nothing, SameLimits
<1>2. CASE DequeueReturns(t, {})
  BY <1>2, <1>i, AloneReturn
<1> QED BY <1>r, <1>1, <1>2 DEF ListQueued

LEMMA AloneGet ==
  ASSUME OneThread, TypeOK, LoneInv, NEW t \in Threads, PathInv(t), GetHead(t)
  PROVE  Effect(t)
<1>t. Typed(t)
  BY AloneTypes
<1>r. PICK r \in Runs : r = run[t]
  BY <1>t DEF Typed, GetHead
<1>i. /\ pc[t] = "get" /\ op[t] # "none" /\ held[t] = {} /\ queue[t] = QueuedFor(r)
      /\ UNCHANGED <<status, created, clock, active, usage>>
  BY <1>r DEF GetHead, PathInv, MethodInv, LineInv, HeldInv, Granting, Counted, Restoring, Returning, recordVars, tenantVars
<1>1. PICK q \in Runs : /\ q \in QueuedFor(r) /\ \A p \in QueuedFor(r) : created[q] <= created[p]
                        /\ cur' = [cur EXCEPT ![t] = q] /\ Goto(t, "take")
                        /\ UNCHANGED <<op, run, after, held, queue, reply, known>>
  BY <1>i DEF GetHead, QueuedFor
<1>2. /\ cur'[t] = q /\ pc'[t] = "take" /\ status[q] = "queued"
  BY <1>1, <1>t DEF Typed, Goto, QueuedFor
<1>3. OrderInv(t)'
  BY <1>i, <1>2, OrderSame DEF PathInv
<1>4. MethodInv(t)' /\ StatusInv(t)' /\ AfterInv(t)' /\ HeldInv(t)' /\ ReplayInv'
  BY <1>r, <1>i, <1>1, <1>2 DEF PathInv, MethodInv, StatusInv, AfterInv, HeldInv, ReplayInv, Live,
     Trying, Granting, Counted, Restoring, Promoting, Returning
<1>5. LineInv(t)'
  BY <1>r, <1>i, <1>1, <1>2 DEF LineInv, QueuedFor
<1>6. ASSUME NEW p \in Runs PROVE Keeps(t, p)
  <2>1. (Slotted(t, p)' <=> Slotted(t, p)) /\ ~Trial(t, p) /\ ~Trial(t, p)' /\ Place(p)' = Place(p)
    BY <1>i, <1>1, <1>2 DEF Slotted, Trial, Granting, Counted, Place
  <2>2. Reserved(t, p)' <=> Reserved(t, p)
    BY <1>i, <1>1, <1>2, <2>1 DEF Reserved, Metered, Owed
  <2>3. Fate(t, p)' = Fate(t, p)
    BY <1>i, <1>1, <2>1 DEF Fate
  <2> QED BY <2>1, <2>2, <2>3 DEF Keeps
<1> QED BY <1>i, <1>3, <1>4, <1>5, <1>6 DEF Effect, PathInv, Nothing, SameLimits

LEMMA AloneTake ==
  ASSUME OneThread, TypeOK, LoneInv, NEW t \in Threads, PathInv(t), Take(t)
  PROVE  Effect(t)
<1>t. Typed(t)
  BY AloneTypes
<1>r. PICK r \in Runs : r = cur[t]
  BY <1>t DEF Typed, Take, DequeueLabels
<1>i. /\ pc[t] = "take" /\ op[t] # "none" /\ held[t] = {} /\ status[r] = "queued"
      /\ UNCHANGED <<status, created, clock, usage, reply, op, run, cur, held, queue>>
  BY <1>r DEF Take, PathInv, MethodInv, StatusInv, HeldInv, Granting, Counted, Restoring, Promoting, Returning,
     clientVars, tenantVars
<1>k. ASSUME pc'[t] \in {"clobber", "dq_mark", "dq_reserve"},
             pc'[t] = "dq_reserve" => TenantOf[r] \in Tenants /\ after'[t] = active'[SessionOf[r]],
             pc'[t] = "dq_mark" => TenantOf[r] \notin Tenants
      PROVE  PathInv(t)'
  <2>1. OrderInv(t)'
    BY <1>i, <1>k, OrderSame DEF PathInv
  <2>2. MethodInv(t)' /\ StatusInv(t)' /\ LineInv(t)' /\ AfterInv(t)' /\ HeldInv(t)' /\ ReplayInv'
    BY <1>r, <1>i, <1>k DEF PathInv, MethodInv, StatusInv, LineInv, AfterInv, HeldInv, ReplayInv, Live, QueuedFor,
       Trying, Granting, Counted, Restoring, Promoting, Returning
  <2> QED BY <2>1, <2>2 DEF PathInv
<1>p. ASSUME pc'[t] \in {"clobber", "dq_mark", "dq_reserve"}
      PROVE  /\ \A q \in Runs : (Reserved(t, q)' <=> Reserved(t, q))
                                /\ Fate(t, q)' = Fate(t, q) /\ Place(q)' = Place(q)
             /\ \A q \in Runs \ {r} : Slotted(t, q)' <=> Slotted(t, q)
             /\ ~Slotted(t, r) /\ (Slotted(t, r)' <=> pc'[t] # "clobber")
  <2>1. \A q \in Runs : ~Trial(t, q) /\ ~Trial(t, q)'
    BY <1>i, <1>p DEF Trial, Granting
  <2>2. \A q \in Runs : Reserved(t, q)' <=> Reserved(t, q)
    BY <1>i, <1>p, <2>1 DEF Reserved, Metered, Owed
  <2>3. /\ \A q \in Runs \ {r} : Slotted(t, q)' <=> Slotted(t, q)
        /\ ~Slotted(t, r) /\ (Slotted(t, r)' <=> pc'[t] # "clobber")
    BY <1>r, <1>i, <1>p DEF Slotted, Counted
  <2>4. ASSUME NEW q \in Runs PROVE Fate(t, q)' = Fate(t, q) /\ Place(q)' = Place(q)
    BY <1>i, <2>1, <2>3 DEF Fate, Place
  <2> QED BY <2>2, <2>3, <2>4
<1>1. CASE TakeSlots(t, r) /\ Goto(t, IF TenantOf[r] = NoTenant THEN "dq_mark" ELSE "dq_reserve")
  <2>1. /\ active' = [active EXCEPT ![SessionOf[r]] = active[SessionOf[r]] + SlotsOf[r]]
        /\ after'[t] = active'[SessionOf[r]]
    BY <1>1, TakeIs
  <2>2. pc'[t] = (IF TenantOf[r] = NoTenant THEN "dq_mark" ELSE "dq_reserve")
    BY <1>1, <1>t DEF Typed, Goto
  <2>3. TenantOf[r] # NoTenant <=> TenantOf[r] \in Tenants
    BY RunConstants, RunsAssumption
  <2>4. Touches(t, r)
    BY <1>i, <1>p, <2>1, <2>2 DEF Touches, Keeps, SlotMove, QuotaMove, FateMove, SameLimits
  <2> QED BY <1>k, <2>1, <2>2, <2>3, <2>4 DEF Effect
<1>2. CASE Goto(t, "clobber") /\ UNCHANGED <<active, after, beat>>
  <2>1. pc'[t] = "clobber"
    BY <1>2, <1>t DEF Typed, Goto
  <2>2. Nothing(t)
    BY <1>i, <1>p, <1>2, <2>1 DEF Nothing, Keeps, SameLimits
  <2> QED BY <1>k, <2>1, <2>2 DEF Effect
<1> QED BY <1>r, <1>1, <1>2 DEF Take

LEMMA AloneClobber ==
  ASSUME OneThread, TypeOK, LoneInv, NEW t \in Threads, PathInv(t), Clobber(t)
  PROVE  Effect(t)
<1>1. pc[t] = "clobber" /\ status[cur[t]] = "queued" /\ DequeueReturns(t, {})
  BY DEF Clobber, PathInv, StatusInv, Promoting
<1>2. UNCHANGED <<status, created, clock, active, usage>>
  <2>1. status' = [status EXCEPT ![cur[t]] = "queued"]
    BY DEF Clobber
  <2>2. status' = status
    BY <1>1, <2>1, AloneTypes DEF Typed
  <2> QED BY <2>2 DEF Clobber, tenantVars
<1> QED BY <1>1, <1>2, AloneReturn

\* what is known while a dequeue holds the slots of r
LEMMA CountedIs ==
  ASSUME OneThread, TypeOK, LoneInv, NEW t \in Threads, PathInv(t),
         pc[t] \in {"dq_reserve", "dq_undo", "dq_soft", "restore_slot", "restore_mark", "restore_quota", "dq_mark"}
  PROVE  /\ cur[t] \in Runs /\ op[t] # "none" /\ status[cur[t]] = "queued"
         /\ pc[t] # "dq_mark" => TenantOf[cur[t]] \in Tenants
         /\ pc[t] \in Counted => after[t] = active[SessionOf[cur[t]]]
         /\ run[t] = cur[t] => op[t] \notin {"submit", "release", "fail", "sweep"}
         /\ reply[cur[t]] \notin Refused
<1>1. cur[t] \in Runs
  BY AloneTypes DEF Typed, DequeueLabels
<1>2. status[cur[t]] = "queued"
  BY DEF PathInv, StatusInv, Promoting, Counted, Restoring
<1>3. run[t] = cur[t] => op[t] \notin {"submit", "release", "fail", "sweep"}
  BY <1>2 DEF PathInv, StatusInv, Returning, Promoting, Counted, Restoring
<1>4. reply[cur[t]] \notin Refused
  BY <1>1, <1>2, AnswerIs DEF PathInv, Live
<1> QED BY <1>1, <1>2, <1>3, <1>4 DEF PathInv, MethodInv, AfterInv, HeldInv, Returning, Promoting, Counted, Restoring

\* the steps of a dequeue between taking the slots and giving them back or keeping them
LEMMA CountedKeeps ==
  ASSUME OneThread, TypeOK, LoneInv, NEW t \in Threads, PathInv(t), NEW r \in Runs, r = cur[t],
         pc[t] \in Counted \cup Restoring, pc'[t] \in Counted \cup Restoring \cup {"dq_mark"},
         UNCHANGED <<status, created, clock, reply, op, run, cur, queue>>,
         pc'[t] \in Counted => after'[t] = active'[SessionOf[r]],
         pc'[t] \in {"dq_soft", "dq_mark"} => Limited[TenantOf[r]] \subseteq held'[t]
  PROVE  /\ PathInv(t)'
         /\ \A q \in Runs : Fate(t, q)' = Fate(t, q) /\ Place(q)' = Place(q)
         /\ \A q \in Runs \ {r} : (Reserved(t, q)' <=> Reserved(t, q)) /\ (Slotted(t, q)' <=> Slotted(t, q))
         /\ Reserved(t, r) <=> Metered(r) /\ "max_parallel" \in held[t]
         /\ Reserved(t, r)' <=> Metered(r) /\ "max_parallel" \in held'[t]
         /\ Slotted(t, r) <=> pc[t] \in Counted
         /\ Slotted(t, r)' <=> pc'[t] \in Counted \cup {"dq_mark"}
<1>i. /\ op[t] # "none" /\ status[r] = "queued" /\ TenantOf[r] \in Tenants
      /\ run[t] = r => op[t] \notin {"submit", "release", "fail", "sweep"}
  BY CountedIs DEF Counted, Restoring
<1>1. OrderInv(t)'
  BY OrderSame DEF PathInv, Counted, Restoring
<1>2. MethodInv(t)' /\ StatusInv(t)' /\ LineInv(t)' /\ ReplayInv'
  BY <1>i DEF PathInv, MethodInv, StatusInv, LineInv, ReplayInv, Live, QueuedFor,
     Trying, Granting, Counted, Restoring, Promoting, Returning
<1>3. AfterInv(t)' /\ HeldInv(t)'
  BY <1>i DEF AfterInv, HeldInv, Granting, Counted, Restoring
<1>4. \A q \in Runs : ~Trial(t, q) /\ ~Trial(t, q)'
  BY DEF Trial, Granting, Counted, Restoring
<1>5. /\ \A q \in Runs \ {r} : Slotted(t, q)' <=> Slotted(t, q)
      /\ Slotted(t, r) <=> pc[t] \in Counted
      /\ Slotted(t, r)' <=> pc'[t] \in Counted \cup {"dq_mark"}
  BY <1>i DEF Slotted, Counted, Restoring
<1>6. ASSUME NEW q \in Runs PROVE Fate(t, q)' = Fate(t, q) /\ Place(q)' = Place(q)
  BY <1>i, <1>4, <1>5 DEF Fate, Place
<1>7. /\ \A q \in Runs \ {r} : Reserved(t, q)' <=> Reserved(t, q)
      /\ Reserved(t, r) <=> Metered(r) /\ "max_parallel" \in held[t]
      /\ Reserved(t, r)' <=> Metered(r) /\ "max_parallel" \in held'[t]
  BY <1>i, <1>4 DEF Reserved, Metered, Owed, Promoting, Counted, Restoring
<1> QED BY <1>1, <1>2, <1>3, <1>5, <1>6, <1>7 DEF PathInv

LEMMA AloneDequeueReserve ==
  ASSUME OneThread, TypeOK, LoneInv, NEW t \in Threads, PathInv(t), DequeueReserve(t)
  PROVE  Effect(t)
<1>t. Typed(t)
  BY AloneTypes
<1>r. PICK r \in Runs : r = cur[t]
  BY <1>t DEF Typed, DequeueReserve, DequeueLabels
<1>i. /\ pc[t] = "dq_reserve" /\ TenantOf[r] \in Tenants /\ after[t] = active[SessionOf[r]]
      /\ UNCHANGED <<status, created, clock, active, reply, op, run, cur, after, queue>>
  BY <1>r, CountedIs DEF DequeueReserve, recordVars, clientVars, Counted
<1>q. TryReserve(t, r, "dq_soft", "dq_undo")
  BY <1>r DEF DequeueReserve
<1>1. CASE Limited[TenantOf[r]] \subseteq held[t] /\ Goto(t, "dq_soft") /\ UNCHANGED <<usage, held>>
  <2>1. pc'[t] = "dq_soft"
    BY <1>1, <1>t DEF Typed, Goto
  <2> QED BY <1>r, <1>1, <1>i, <2>1, CountedKeeps DEF Counted, Effect, Nothing, Keeps, SameLimits
<1>2. CASE Goto(t, "dq_undo") /\ UNCHANGED <<usage, held>>
  <2>1. pc'[t] = "dq_undo"
    BY <1>2, <1>t DEF Typed, Goto
  <2> QED BY <1>r, <1>2, <1>i, <2>1, CountedKeeps DEF Counted, Effect, Nothing, Keeps, SameLimits
<1>3. ASSUME NEW res \in Limited[TenantOf[r]] \ held[t],
             held' = [held EXCEPT ![t] = held[t] \cup {res}], UNCHANGED pc,
             IF res = "max_parallel" THEN Reserve(TenantOf[r], "max_parallel", SlotsOf[r]) ELSE SameLimits
      PROVE  Effect(t)
  <2>1. held'[t] = held[t] \cup {res} /\ pc'[t] = "dq_reserve"
    BY <1>3, <1>t, <1>i DEF Typed
  <2>2. /\ PathInv(t)'
        /\ \A q \in Runs : Fate(t, q)' = Fate(t, q) /\ Place(q)' = Place(q)
        /\ \A q \in Runs \ {r} : (Reserved(t, q)' <=> Reserved(t, q)) /\ (Slotted(t, q)' <=> Slotted(t, q))
        /\ Reserved(t, r) <=> Metered(r) /\ "max_parallel" \in held[t]
        /\ Reserved(t, r)' <=> Metered(r) /\ "max_parallel" \in held'[t]
        /\ Slotted(t, r)' <=> Slotted(t, r)
    BY <1>r, <1>i, <2>1, CountedKeeps DEF Counted
  <2>3. QuotaMove(t, r)
    BY <1>3, <1>i, <2>1, <2>2 DEF QuotaMove, Metered
  <2> QED BY <1>i, <2>2, <2>3 DEF Effect, Touches, Keeps, SlotMove, FateMove
<1> QED BY <1>q, <1>i, <1>1, <1>2, <1>3, ReserveIs

\* one of the reservations of an undone dequeue is given back
LEMMA AloneGivesBack ==
  ASSUME OneThread, TypeOK, LoneInv, NEW t \in Threads, PathInv(t), NEW r \in Runs, r = cur[t],
         pc[t] \in {"dq_undo", "restore_quota"}, held[t] # {}, ReleaseOne(t, r),
         UNCHANGED <<status, created, clock, active, reply, op, run, cur, after, queue, pc>>
  PROVE  Effect(t)
<1>t. Typed(t)
  BY AloneTypes
<1>1. PICK res \in held[t] :
         /\ held' = [held EXCEPT ![t] = held[t] \ {res}]
         /\ IF res = "max_parallel" /\ Metered(r)
            THEN Unreserve(TenantOf[r], "max_parallel", SlotsOf[r]) ELSE SameLimits
  BY ReleaseIs
<1>2. held'[t] = held[t] \ {res}
  BY <1>1, <1>t DEF Typed
<1>3. pc[t] \in Counted => after[t] = active[SessionOf[r]]
  BY CountedIs
<1>4. /\ PathInv(t)'
      /\ \A q \in Runs : Fate(t, q)' = Fate(t, q) /\ Place(q)' = Place(q)
      /\ \A q \in Runs \ {r} : (Reserved(t, q)' <=> Reserved(t, q)) /\ (Slotted(t, q)' <=> Slotted(t, q))
      /\ Reserved(t, r) <=> Metered(r) /\ "max_parallel" \in held[t]
      /\ Reserved(t, r)' <=> Metered(r) /\ "max_parallel" \in held'[t]
      /\ Slotted(t, r) <=> pc[t] \in Counted
      /\ Slotted(t, r)' <=> pc'[t] \in Counted \cup {"dq_mark"}
  BY <1>3, CountedKeeps DEF Counted, Restoring
<1>5. QuotaMove(t, r)
  BY <1>1, <1>2, <1>4 DEF QuotaMove
<1>6. Slotted(t, r)' <=> Slotted(t, r)
  BY <1>4 DEF Counted
<1> QED BY <1>4, <1>5, <1>6 DEF Effect, Touches, Keeps, SlotMove, FateMove

LEMMA AloneUndo ==
  ASSUME OneThread, TypeOK, LoneInv, NEW t \in Threads, PathInv(t), DequeueUndo(t)
  PROVE  Effect(t)
<1>t. Typed(t)
  BY AloneTypes
<1>r. PICK r \in Runs : r = cur[t]
  BY <1>t DEF Typed, DequeueUndo, DequeueLabels
<1>i. /\ pc[t] = "dq_undo" /\ after[t] = active[SessionOf[r]]
      /\ UNCHANGED <<status, created, clock, active, reply, op, run, cur, after, queue>>
  BY <1>r, CountedIs DEF DequeueUndo, recordVars, clientVars, Counted
<1>1. CASE held[t] # {} /\ ReleaseOne(t, r) /\ UNCHANGED pc
  BY <1>r, <1>i, <1>1, AloneGivesBack
<1>2. CASE held[t] = {} /\ Goto(t, "restore_slot") /\ UNCHANGED <<usage, held>>
  <2>1. pc'[t] = "restore_slot"
    BY <1>2, <1>t DEF Typed, Goto
  <2> QED BY <1>r, <1>2, <1>i, <2>1, CountedKeeps DEF Counted, Effect, Nothing, Keeps, SameLimits
<1> QED BY <1>r, <1>1, <1>2 DEF DequeueUndo

LEMMA AloneDequeueSoft ==
  ASSUME OneThread, TypeOK, LoneInv, NEW t \in Threads, PathInv(t), DequeueSoft(t)
  PROVE  Effect(t)
<1>t. Typed(t)
  BY AloneTypes
<1>r. PICK r \in Runs : r = cur[t]
  BY <1>t DEF Typed, DequeueSoft, DequeueLabels
<1>i. /\ pc[t] = "dq_soft" /\ after[t] = active[SessionOf[r]] /\ pc'[t] \in {"dq_mark", "restore_slot"}
      /\ Limited[TenantOf[r]] \subseteq held[t]
      /\ UNCHANGED <<status, created, clock, active, usage, reply, op, run, cur, held, after, queue>>
  BY <1>r, <1>t, CountedIs DEF DequeueSoft, recordVars, clientVars, tenantVars, localVars, Counted, Goto, Typed,
     PathInv, HeldInv
<1> QED BY <1>r, <1>i, CountedKeeps DEF Counted, Effect, Nothing, Keeps, SameLimits

LEMMA AloneRestoreSlot ==
  ASSUME OneThread, TypeOK, LoneInv, NEW t \in Threads, PathInv(t), RestoreSlot(t)
  PROVE  Effect(t)
<1>t. Typed(t)
  BY AloneTypes
<1>r. PICK r \in Runs : r = cur[t]
  BY <1>t DEF Typed, RestoreSlot, DequeueLabels
<1>i. /\ pc[t] = "restore_slot" /\ after[t] = active[SessionOf[r]] /\ pc'[t] = "restore_mark"
      /\ UNCHANGED <<status, created, clock, usage, reply, op, run, cur, held, after, queue>>
  BY <1>r, <1>t, CountedIs DEF RestoreSlot, clientVars, tenantVars, localVars, Counted, Goto, Typed
<1>f. FreeSlots(r)
  BY <1>r, <1>i DEF RestoreSlot, WriteBack, FreeSlots
<1>1. /\ PathInv(t)'
      /\ \A q \in Runs : Fate(t, q)' = Fate(t, q) /\ Place(q)' = Place(q)
      /\ \A q \in Runs \ {r} : (Reserved(t, q)' <=> Reserved(t, q)) /\ (Slotted(t, q)' <=> Slotted(t, q))
      /\ Reserved(t, r)' <=> Reserved(t, r)
      /\ Slotted(t, r) /\ ~Slotted(t, r)'
  BY <1>r, <1>i, CountedKeeps DEF Counted, Restoring
<1> QED BY <1>i, <1>f, <1>1 DEF Effect, Touches, Keeps, SlotMove, QuotaMove, FateMove, SameLimits

LEMMA AloneRestoreMark ==
  ASSUME OneThread, TypeOK, LoneInv, NEW t \in Threads, PathInv(t), RestoreMark(t)
  PROVE  Effect(t)
<1>t. Typed(t)
  BY AloneTypes
<1>r. PICK r \in Runs : r = cur[t]
  BY <1>t DEF Typed, RestoreMark, DequeueLabels
<1>i. /\ pc[t] = "restore_mark" /\ status[r] = "queued" /\ pc'[t] = "restore_quota"
      /\ status' = [status EXCEPT ![r] = "queued"]
      /\ UNCHANGED <<created, clock, active, usage, reply, op, run, cur, held, after, queue>>
  BY <1>r, <1>t, CountedIs DEF RestoreMark, MarkStatus, clientVars, tenantVars, localVars, Goto, Typed
<1>s. status' = status
  BY <1>i, <1>t DEF Typed
<1>1. /\ PathInv(t)'
      /\ \A q \in Runs : Fate(t, q)' = Fate(t, q) /\ Place(q)' = Place(q)
      /\ \A q \in Runs \ {r} : (Reserved(t, q)' <=> Reserved(t, q)) /\ (Slotted(t, q)' <=> Slotted(t, q))
      /\ Reserved(t, r)' <=> Reserved(t, r)
      /\ Slotted(t, r)' <=> Slotted(t, r)
  BY <1>r, <1>i, <1>s, CountedKeeps DEF Counted, Restoring
<1> QED BY <1>i, <1>1 DEF Effect, Nothing, Keeps, SameLimits

LEMMA AloneRestoreQuota ==
  ASSUME OneThread, TypeOK, LoneInv, NEW t \in Threads, PathInv(t), RestoreQuota(t)
  PROVE  Effect(t)
<1>r. PICK r \in Runs : r = cur[t]
  BY AloneTypes DEF Typed, RestoreQuota, DequeueLabels
<1>i. pc[t] = "restore_quota" /\ UNCHANGED <<status, created, clock, active>>
  BY DEF RestoreQuota, recordVars
<1>1. CASE held[t] # {} /\ ReleaseOne(t, r) /\ UNCHANGED <<pc, op, run, cur, after, queue, reply, known>>
  BY <1>r, <1>i, <1>1, AloneGivesBack
<1>2. CASE held[t] = {} /\ DequeueReturns(t, {}) /\ UNCHANGED usage
  BY <1>i, <1>2, AloneReturn
<1> QED BY <1>r, <1>1, <1>2 DEF RestoreQuota

LEMMA AloneMark ==
  ASSUME OneThread, TypeOK, LoneInv, NEW t \in Threads, PathInv(t), DequeueMark(t)
  PROVE  Effect(t)
<1>t. Typed(t)
  BY AloneTypes
<1>r. PICK r \in Runs : r = cur[t]
  BY <1>t DEF Typed, DequeueMark, DequeueLabels
<1>i. /\ pc[t] = "dq_mark" /\ status[r] = "queued" /\ pc'[t] = "dispatch" /\ op[t] # "none"
      /\ run[t] = r => op[t] \notin {"submit", "release", "fail", "sweep"}
      /\ status'[r] = "accepted" /\ \A q \in Runs \ {r} : status'[q] = status[q]
      /\ reply[r] \notin Refused
      /\ UNCHANGED <<created, clock, active, usage, reply, op, run, cur, held, after, queue>>
  BY <1>r, <1>t, CountedIs DEF DequeueMark, MarkStatus, clientVars, tenantVars, localVars, Goto, Typed
<1>1. PathInv(t)'
  <2>1. OrderInv(t)'
    <3>1. \A q \in Runs : status[q] = "queued" => created[q] # 0
      BY DEF PathInv, OrderInv
    <3> QED BY <1>r, <1>i, <3>1, OrderKept DEF PathInv
  <2>2. MethodInv(t)' /\ LineInv(t)' /\ AfterInv(t)' /\ HeldInv(t)'
    BY <1>r, <1>i DEF PathInv, MethodInv, LineInv, AfterInv, HeldInv,
       Trying, Granting, Counted, Restoring, Promoting, Returning
  <2>3. StatusInv(t)'
    <3>1. /\ op[t] = "submit" => status[run[t]] = "accepted"
          /\ op[t] = "enqueue" => Live(run[t])
          /\ op[t] = "release" => status[run[t]] = "done"
          /\ op[t] \in {"fail", "sweep"} => status[run[t]] = "failed"
      BY <1>i DEF PathInv, StatusInv, Returning, Promoting
    <3>2. run[t] \in Runs
      BY <1>t, <1>i DEF Typed
    <3> QED BY <1>r, <1>i, <3>1, <3>2 DEF StatusInv, Live, Counted, Restoring, Promoting, Returning
  <2>4. ReplayInv'
    BY <1>i DEF PathInv, ReplayInv, Refused
  <2> QED BY <2>1, <2>2, <2>3, <2>4 DEF PathInv
<1>2. ASSUME NEW q \in Runs
      PROVE  /\ Slotted(t, q)' <=> Slotted(t, q)
             /\ ~Trial(t, q) /\ ~Trial(t, q)' /\ Place(q)' = Place(q) /\ Slotted(t, r)
  BY <1>r, <1>i DEF Slotted, Trial, Granting, Counted, Place
<1>3. ASSUME NEW q \in Runs PROVE Reserved(t, q)' <=> Reserved(t, q)
  <2>1. CASE q # r
    BY <1>r, <1>i, <1>2, <2>1 DEF Reserved, Metered, Owed, Promoting, Counted, Restoring
  <2>2. CASE q = r
    <3>1. Metered(r) => "max_parallel" \in held[t]
      BY <1>r, <1>i DEF PathInv, HeldInv, Metered
    <3> QED BY <1>r, <1>i, <1>2, <2>2, <3>1 DEF Reserved, Metered, Owed, Promoting
  <2> QED BY <2>1, <2>2
<1>4. \A q \in Runs \ {r} : Fate(t, q)' = Fate(t, q)
  BY <1>i, <1>2 DEF Fate
<1>5. FateMove(t, r)
  <2>1. Fate(t, r) = "queued" /\ Fate(t, r)' = "running"
    BY <1>i, <1>2 DEF Fate
  <2>2. /\ r \in QueuedFor(run[t]) /\ \A q \in QueuedFor(run[t]) : created[r] <= created[q]
    BY <1>r, <1>i DEF PathInv, LineInv, Promoting
  <2>3. ASSUME NEW q \in Runs, Fate(t, q) = "queued", SessionOf[q] = SessionOf[r], TenantOf[q] = TenantOf[r]
        PROVE  Place(r) <= Place(q)
    <3>1. status[q] = "queued"
      BY <1>2, <2>3 DEF Fate
    <3>2. q \in QueuedFor(run[t])
      BY <2>2, <2>3, <3>1 DEF QueuedFor
    <3> QED BY <1>i, <2>2, <3>1, <3>2 DEF Place
  <2> QED BY <1>2, <2>1, <2>3 DEF FateMove
<1>6. Touches(t, r)
  BY <1>i, <1>2, <1>3, <1>4, <1>5 DEF Touches, Keeps, SlotMove, QuotaMove, SameLimits
<1> QED BY <1>1, <1>6 DEF Effect

LEMMA AloneDispatch ==
  ASSUME OneThread, TypeOK, LoneInv, NEW t \in Threads, PathInv(t), Dispatch(t)
  PROVE  Effect(t)
  BY AloneReturn DEF Dispatch, tenantVars

\* a call that begins, or ends, or goes on to its next run, with no slot touched
LEMMA AloneTurns ==
  ASSUME OneThread, TypeOK, NEW t \in Threads, PathInv(t),
         pc[t] \in {"idle", "sweep", "fail_get"}, op[t] \in {"none", "sweep"},
         UNCHANGED <<status, created, clock, active, usage, cur, held, after, queue, reply>>,
         \/ pc'[t] = "idle" /\ op'[t] = "none"
         \/ pc'[t] = "sweep" /\ op'[t] = "sweep"
         \/ pc'[t] = "fail_get" /\ op'[t] = "sweep" /\ status[run'[t]] = "accepted"
         \/ pc'[t] = "release_slot" /\ op'[t] = "release" /\ status[run'[t]] = "accepted"
         \/ pc'[t] = "fail_slot" /\ op'[t] \in {"fail", "sweep"} /\ status[run'[t]] = "accepted"
         \/ pc'[t] = "cancel_mark" /\ op'[t] = "fail" /\ status[run'[t]] = "queued"
  PROVE  Effect(t)
<1>l. pc'[t] \in {"idle", "sweep", "fail_get", "release_slot", "fail_slot", "cancel_mark"}
  OBVIOUS
<1>h. held[t] = {}
  BY DEF PathInv, HeldInv, Granting, Counted, Restoring
<1>1. PathInv(t)'
  <2>1. OrderInv(t)'
    BY <1>l, OrderSame DEF PathInv
  <2>2. MethodInv(t)'
    BY DEF MethodInv, Trying, Granting, Counted, Restoring, Promoting, Returning
  <2>3. StatusInv(t)'
    BY DEF StatusInv, Counted, Restoring, Promoting, Returning
  <2>4. LineInv(t)' /\ AfterInv(t)' /\ HeldInv(t)' /\ ReplayInv'
    BY <1>l, <1>h DEF PathInv, LineInv, AfterInv, HeldInv, ReplayInv, Granting, Counted, Restoring, Promoting
  <2> QED BY <2>1, <2>2, <2>3, <2>4 DEF PathInv
<1>2. ASSUME NEW q \in Runs
      PROVE  (Slotted(t, q)' <=> Slotted(t, q)) /\ ~Trial(t, q) /\ ~Trial(t, q)' /\ Place(q)' = Place(q)
  BY <1>l DEF Slotted, Trial, Granting, Counted, Place
<1>3. ASSUME NEW q \in Runs PROVE Reserved(t, q)' <=> Reserved(t, q)
  <2>1. Owed(t, q) <=> status[q] = "accepted"
    BY <1>h, <1>2 DEF Owed
  <2>2. Owed(t, q)' <=> status[q] = "accepted"
    BY <1>h, <1>2 DEF Owed
  <2> QED BY <2>1, <2>2 DEF Reserved, Metered
<1>4. ASSUME NEW q \in Runs PROVE Fate(t, q)' = Fate(t, q)
  BY <1>2 DEF Fate
<1> QED BY <1>1, <1>2, <1>3, <1>4 DEF Effect, Nothing, Keeps, SameLimits

LEMMA AloneBegins ==
  ASSUME OneThread, TypeOK, NEW t \in Threads, PathInv(t),
         \/ Sweep(t) \/ SweepNext(t) \/ SweepFails(t)
         \/ \E r \in Runs : Release(t, r) \/ MarkFailed(t, r)
  PROVE  Effect(t)
<1>t. Typed(t)
  BY AloneTypes
<1>i. /\ pc[t] = "idle" => op[t] = "none"
      /\ pc[t] \in {"sweep", "fail_get"} => op[t] = "sweep"
      /\ pc[t] = "fail_get" => status[run[t]] = "accepted"
  BY DEF PathInv, MethodInv, StatusInv
<1>1. CASE Sweep(t)
  <2>1. /\ pc[t] = "idle" /\ pc'[t] = "sweep" /\ op'[t] = "sweep"
        /\ UNCHANGED <<status, created, clock, active, usage, cur, held, after, queue, reply>>
    BY <1>1, <1>t DEF Typed, Sweep, Call, Goto, recordVars, tenantVars, clientVars
  <2> QED BY <1>i, <2>1, AloneTurns
<1>2. CASE SweepNext(t)
  <2>1. /\ pc[t] = "sweep"
        /\ UNCHANGED <<status, created, clock, active, usage, cur, held, after, queue, reply>>
    BY <1>2 DEF SweepNext, recordVars, tenantVars, clientVars
  <2>2. \/ pc'[t] = "idle" /\ op'[t] = "none"
        \/ pc'[t] = "sweep" /\ op'[t] = "sweep"
        \/ pc'[t] = "fail_get" /\ op'[t] = "sweep" /\ status[run'[t]] = "accepted"
    BY <1>2, <1>t, <1>i, <2>1 DEF Typed, SweepNext, Call, Leave, Goto
  <2> QED BY <1>i, <2>1, <2>2, AloneTurns
<1>3. CASE SweepFails(t)
  <2>1. /\ pc[t] = "fail_get" /\ UNCHANGED op
        /\ UNCHANGED <<status, created, clock, active, usage, cur, held, after, queue, reply>>
    BY <1>3 DEF SweepFails, recordVars, tenantVars, clientVars, localVars
  <2>2. pc'[t] = "fail_slot" /\ status[run'[t]] = "accepted"
    BY <1>3, <1>t, <1>i, <2>1 DEF Typed, SweepFails, FailLabel, Live, Goto
  <2> QED BY <1>i, <2>1, <2>2, AloneTurns
<1>4. ASSUME NEW r \in Runs, Release(t, r) \/ MarkFailed(t, r) PROVE Effect(t)
  <2>1. /\ pc[t] = "idle"
        /\ UNCHANGED <<status, created, clock, active, usage, cur, held, after, queue, reply>>
    BY <1>4 DEF Release, MarkFailed, ClientEnds, recordVars, tenantVars, localVars
  <2>2. \/ pc'[t] = "release_slot" /\ op'[t] = "release" /\ status[run'[t]] = "accepted"
        \/ pc'[t] = "fail_slot" /\ op'[t] \in {"fail", "sweep"} /\ status[run'[t]] = "accepted"
        \/ pc'[t] = "cancel_mark" /\ op'[t] = "fail" /\ status[run'[t]] = "queued"
    BY <1>4, <1>t DEF Typed, Release, MarkFailed, FailLabel, Live, Call, Goto
  <2> QED BY <1>i, <2>1, <2>2, AloneTurns
<1> QED BY <1>1, <1>2, <1>3, <1>4

\* the slots of a run that ends are given back
LEMMA AloneFrees ==
  ASSUME OneThread, TypeOK, LoneInv, NEW t \in Threads, PathInv(t), ReleaseSlot(t) \/ FailSlot(t)
  PROVE  Effect(t)
<1>t. Typed(t)
  BY AloneTypes
<1>r. PICK r \in Runs : r = run[t]
  BY <1>t DEF Typed, ReleaseSlot, FailSlot
<1>i. /\ \/ pc[t] = "release_slot" /\ pc'[t] = "release_mark" /\ op[t] = "release"
         \/ pc[t] = "fail_slot" /\ pc'[t] = "fail_mark" /\ op[t] \in {"fail", "sweep"}
      /\ status[r] = "accepted" /\ FreeSlots(r) /\ held[t] = {}
      /\ UNCHANGED <<status, created, clock, usage, reply, op, run, cur, held, after, queue>>
  BY <1>r, <1>t DEF Typed, ReleaseSlot, FailSlot, PathInv, MethodInv, StatusInv, HeldInv, Granting, Counted, Restoring,
     clientVars, tenantVars, localVars, Goto
<1>n. reply[r] \notin Refused
  BY <1>i, AnswerIs DEF PathInv, Live
<1>1. PathInv(t)'
  <2>1. OrderInv(t)'
    BY <1>i, OrderSame DEF PathInv
  <2>2. MethodInv(t)' /\ StatusInv(t)' /\ LineInv(t)' /\ AfterInv(t)' /\ HeldInv(t)' /\ ReplayInv'
    BY <1>r, <1>i DEF PathInv, MethodInv, StatusInv, LineInv, AfterInv, HeldInv, ReplayInv,
       Trying, Granting, Counted, Restoring, Promoting, Returning
  <2> QED BY <2>1, <2>2 DEF PathInv
<1>2. ASSUME NEW q \in Runs
      PROVE  /\ q # r => (Slotted(t, q)' <=> Slotted(t, q))
             /\ ~Trial(t, q) /\ ~Trial(t, q)' /\ Place(q)' = Place(q) /\ Slotted(t, r) /\ ~Slotted(t, r)'
  BY <1>r, <1>i DEF Slotted, Trial, Granting, Counted, Place
<1>3. ASSUME NEW q \in Runs PROVE Reserved(t, q)' <=> Reserved(t, q)
  BY <1>i, <1>2 DEF Reserved, Metered, Owed
<1>4. \A q \in Runs \ {r} : Fate(t, q)' = Fate(t, q)
  BY <1>i, <1>2 DEF Fate
<1>5. FateMove(t, r)
  <2>1. Fate(t, r) = "running" /\ Fate(t, r)' = "ended"
    BY <1>i, <1>n, <1>2 DEF Fate
  <2> QED BY <1>2, <2>1 DEF FateMove
<1>6. Touches(t, r)
  BY <1>i, <1>2, <1>3, <1>4, <1>5 DEF Touches, Keeps, SlotMove, QuotaMove, SameLimits
<1> QED BY <1>1, <1>6 DEF Effect

LEMMA AloneReleaseMark ==
  ASSUME OneThread, TypeOK, LoneInv, NEW t \in Threads, PathInv(t), ReleaseMark(t)
  PROVE  Effect(t)
<1>t. Typed(t)
  BY AloneTypes
<1>r. PICK r \in Runs : r = run[t]
  BY <1>t DEF Typed, ReleaseMark
<1>i. /\ pc[t] = "release_mark" /\ pc'[t] = "list" /\ op[t] = "release"
      /\ status[r] = "accepted" /\ held[t] = {}
      /\ status'[r] = "done" /\ \A q \in Runs \ {r} : status'[q] = status[q]
      /\ UNCHANGED <<created, clock, active, usage, reply, op, run, cur, held, after, queue>>
  BY <1>r, <1>t DEF Typed, ReleaseMark, MarkStatus, PathInv, MethodInv, StatusInv, HeldInv, Granting, Counted, Restoring,
     clientVars, tenantVars, localVars, Goto
<1>1. PathInv(t)'
  <2>1. OrderInv(t)'
    <3>1. \A q \in Runs : status[q] = "queued" => created[q] # 0
      BY DEF PathInv, OrderInv
    <3> QED BY <1>r, <1>i, <3>1, OrderKept DEF PathInv
  <2>2. MethodInv(t)' /\ StatusInv(t)' /\ LineInv(t)' /\ AfterInv(t)' /\ HeldInv(t)' /\ ReplayInv'
    BY <1>r, <1>i DEF PathInv, MethodInv, StatusInv, LineInv, AfterInv, HeldInv, ReplayInv,
       Trying, Granting, Counted, Restoring, Promoting, Returning
  <2> QED BY <2>1, <2>2 DEF PathInv
<1>2. ASSUME NEW q \in Runs
      PROVE  /\ Slotted(t, q)' <=> Slotted(t, q) /\ q # r
             /\ ~Slotted(t, r)
             /\ ~Trial(t, q) /\ ~Trial(t, q)' /\ Place(q)' = Place(q)
  BY <1>r, <1>i DEF Slotted, Trial, Granting, Counted, Place
<1>3. ASSUME NEW q \in Runs PROVE Reserved(t, q)' <=> Reserved(t, q)
  BY <1>r, <1>i, <1>2 DEF Reserved, Metered, Owed
<1>4. ASSUME NEW q \in Runs PROVE Fate(t, q)' = Fate(t, q)
  BY <1>i, <1>2 DEF Fate
<1> QED BY <1>1, <1>i, <1>2, <1>3, <1>4 DEF Effect, Nothing, Keeps, SameLimits

\* release_quota of a tenant without a limit, or of no tenant at all, changes no limit
LEMMA UnreserveIs ==
  ASSUME TypeOK, NEW r \in Runs, Unreserve(TenantOf[r], "max_parallel", SlotsOf[r]), ~Metered(r)
  PROVE  SameLimits
<1>1. usage \in [Tenants -> [Resources -> Nat]]
  BY DEF TypeOK, TenantsOK
<1> QED BY <1>1 DEF Unreserve, SameLimits, Metered

\* the reservation of a run that ends is given back
LEMMA AloneReturnsQuota ==
  ASSUME OneThread, TypeOK, LoneInv, NEW t \in Threads, PathInv(t), ReleaseQuota(t) \/ FailQuota(t)
  PROVE  Effect(t)
<1>t. Typed(t)
  BY AloneTypes
<1>r. PICK r \in Runs : r = run[t]
  BY <1>t DEF Typed, ReleaseQuota, FailQuota
<1>i. /\ \/ /\ pc[t] = "release_quota" /\ pc'[t] = "idle" /\ op[t] = "release" /\ op'[t] = "none"
            /\ status[r] = "done"
         \/ /\ pc[t] = "fail_quota" /\ pc'[t] = "list" /\ op[t] \in {"fail", "sweep"} /\ UNCHANGED <<op, run>>
            /\ status[r] = "failed"
      /\ Unreserve(TenantOf[r], "max_parallel", SlotsOf[r]) /\ held[t] = {}
      /\ UNCHANGED <<status, created, clock, active, reply, cur, held, after, queue>>
  <2>1. /\ pc[t] = "release_quota" => op[t] = "release" /\ status[r] = "done" /\ held[t] = {}
        /\ pc[t] = "fail_quota" => op[t] \in {"fail", "sweep"} /\ status[r] = "failed" /\ held[t] = {}
    BY <1>r DEF PathInv, MethodInv, StatusInv, HeldInv, Granting, Counted, Restoring
  <2> QED BY <1>r, <1>t, <2>1 DEF Typed, ReleaseQuota, FailQuota, Leave, Goto, clientVars, localVars, recordVars
<1>1. PathInv(t)'
  <2>1. OrderInv(t)'
    BY <1>i, OrderSame DEF PathInv
  <2>2. MethodInv(t)' /\ StatusInv(t)' /\ LineInv(t)' /\ AfterInv(t)' /\ HeldInv(t)' /\ ReplayInv'
    BY <1>r, <1>i DEF PathInv, MethodInv, StatusInv, LineInv, AfterInv, HeldInv, ReplayInv,
       Trying, Granting, Counted, Restoring, Promoting, Returning
  <2> QED BY <2>1, <2>2 DEF PathInv
<1>2. ASSUME NEW q \in Runs
      PROVE  /\ Slotted(t, q)' <=> Slotted(t, q)
             /\ ~Trial(t, q) /\ ~Trial(t, q)' /\ Place(q)' = Place(q)
  BY <1>i DEF Slotted, Trial, Granting, Counted, Place
<1>3. ASSUME NEW q \in Runs PROVE Fate(t, q)' = Fate(t, q)
  BY <1>i, <1>2 DEF Fate
<1>4. ASSUME NEW q \in Runs
      PROVE  (Owed(t, q) <=> status[q] = "accepted" \/ q = r) /\ (Owed(t, q)' <=> status[q] = "accepted")
  BY <1>r, <1>i, <1>2 DEF Owed
<1>5. QuotaMove(t, r)
  <2>1. CASE Metered(r)
    BY <1>i, <1>4, <2>1 DEF QuotaMove, Reserved, Metered
  <2>2. CASE ~Metered(r)
    BY <1>i, <2>2, UnreserveIs DEF QuotaMove, Reserved, Metered
  <2> QED BY <2>1, <2>2
<1>6. \A q \in Runs \ {r} : Reserved(t, q)' <=> Reserved(t, q)
  BY <1>4 DEF Reserved, Metered
<1> QED BY <1>1, <1>i, <1>2, <1>3, <1>5, <1>6 DEF Effect, Touches, Keeps, SlotMove, FateMove

LEMMA AloneFailMark ==
  ASSUME OneThread, TypeOK, LoneInv, NEW t \in Threads, PathInv(t), FailMark(t)
  PROVE  Effect(t)
<1>t. Typed(t)
  BY AloneTypes
<1>r. PICK r \in Runs : r = run[t]
  BY <1>t DEF Typed, FailMark
<1>i. /\ op[t] \in {"fail", "sweep"} /\ held[t] = {}
      /\ \/ pc[t] = "fail_mark" /\ status[r] = "accepted"
            /\ pc'[t] = IF TenantOf[r] # NoTenant THEN "fail_quota" ELSE "list"
         \/ pc[t] = "cancel_mark" /\ status[r] = "queued" /\ pc'[t] = "list"
      /\ status'[r] = "failed" /\ \A q \in Runs \ {r} : status'[q] = status[q]
      /\ UNCHANGED <<created, clock, active, usage, reply, op, run, cur, held, after, queue>>
  BY <1>r, <1>t DEF Typed, FailMark, MarkStatus, PathInv, MethodInv, StatusInv, HeldInv, Granting, Counted, Restoring,
     clientVars, tenantVars, localVars, Goto
<1>n. reply[r] \notin Refused
  BY <1>i, AnswerIs DEF PathInv, Live
<1>l. pc'[t] \in {"fail_quota", "list"}
  BY <1>i
<1>1. PathInv(t)'
  <2>1. OrderInv(t)'
    <3>1. \A q \in Runs : status[q] = "queued" => created[q] # 0
      BY DEF PathInv, OrderInv
    <3> QED BY <1>r, <1>i, <1>l, <3>1, OrderKept DEF PathInv
  <2>2. MethodInv(t)' /\ StatusInv(t)' /\ LineInv(t)' /\ AfterInv(t)' /\ HeldInv(t)'
    BY <1>r, <1>i, <1>l DEF PathInv, MethodInv, StatusInv, LineInv, AfterInv, HeldInv,
       Trying, Granting, Counted, Restoring, Promoting, Returning
  <2>3. ReplayInv'
    BY <1>i DEF PathInv, ReplayInv
  <2> QED BY <2>1, <2>2, <2>3 DEF PathInv
<1>2. ASSUME NEW q \in Runs
      PROVE  /\ Slotted(t, q)' <=> Slotted(t, q) /\ q # r
             /\ ~Slotted(t, r)
             /\ ~Trial(t, q) /\ ~Trial(t, q)' /\ Place(q)' = Place(q)
  <2>1. Slotted(t, q) <=> status[q] = "accepted" /\ q # r
    BY <1>r, <1>i DEF Slotted, Counted
  <2>2. Slotted(t, q)' <=> status[q] = "accepted" /\ q # r
    BY <1>r, <1>i, <1>l DEF Slotted, Counted
  <2>3. ~Trial(t, q) /\ ~Trial(t, q)' /\ Place(q)' = Place(q)
    BY <1>i, <1>l DEF Trial, Place
  <2>4. ~Slotted(t, r)
    BY <1>r, <1>i DEF Slotted, Counted
  <2> QED BY <2>1, <2>2, <2>3, <2>4
<1>3. ASSUME NEW q \in Runs PROVE Reserved(t, q)' <=> Reserved(t, q)
  <2>1. CASE q # r
    BY <1>r, <1>i, <1>2, <2>1 DEF Reserved, Metered, Owed
  <2>2. CASE q = r
    <3>1. Metered(r) => (TenantOf[r] # NoTenant)
      BY RunsAssumption DEF Metered
    <3>2. Owed(t, r) <=> pc[t] = "fail_mark"
      BY <1>r, <1>i, <1>2 DEF Owed
    <3>3. Owed(t, r)' <=> pc'[t] = "fail_quota"
      BY <1>r, <1>i, <1>2 DEF Owed
    <3>4. Metered(r) => (Owed(t, r)' <=> Owed(t, r))
      BY <1>i, <3>1, <3>2, <3>3
    <3> QED BY <2>2, <3>4 DEF Reserved, Metered
  <2> QED BY <2>1, <2>2
<1>4. \A q \in Runs \ {r} : Fate(t, q)' = Fate(t, q)
  BY <1>i, <1>2 DEF Fate
<1>5. FateMove(t, r)
  <2>1. Fate(t, r) \in {"queued", "ended"} /\ Fate(t, r)' = "ended"
    BY <1>i, <1>n, <1>2 DEF Fate
  <2> QED BY <1>2, <2>1 DEF FateMove
<1>6. Touches(t, r)
  BY <1>i, <1>2, <1>3, <1>4, <1>5 DEF Touches, Keeps, SlotMove, QuotaMove, SameLimits
<1> QED BY <1>1, <1>6 DEF Effect

LEMMA AloneWorld ==
  ASSUME OneThread, TypeOK, NEW t \in Threads, PathInv(t), World \/ UNCHANGED vars
  PROVE  Effect(t)
<1>1. UNCHANGED <<status, created, clock, active, pc, op, run, cur, after, held, queue, reply>>
  BY DEF World, Rollover, Heartbeat, BeatLapses, SpendTokens, vars, recordVars, localVars, clientVars
<1>2. SameLimits
  <2>1. CASE Rollover
    <3>1. usage \in [Tenants -> [Resources -> Nat]]
      BY DEF TypeOK, TenantsOK
    <3> QED BY <2>1, <3>1 DEF Rollover, SameLimits, Resources
  <2>2. CASE UNCHANGED usage
    BY <2>2 DEF SameLimits
  <2> QED BY <2>1, <2>2 DEF World, Heartbeat, BeatLapses, SpendTokens, vars, tenantVars
<1>3. PathInv(t)'
  BY <1>1 DEF PathInv, MethodInv, StatusInv, LineInv, AfterInv, HeldInv, OrderInv, ReplayInv, Live, QueuedFor
<1>4. ASSUME NEW q \in Runs PROVE Keeps(t, q)
  BY <1>1 DEF Keeps, Slotted, Reserved, Owed, Metered, Trial, Fate, Place
<1> QED BY <1>1, <1>2, <1>3, <1>4 DEF Effect, Nothing

LEMMA AloneStep ==
  ASSUME OneThread, TypeOK, LoneInv, NEW t \in Threads, PathInv(t), [Next]_vars
  PROVE  Effect(t)
<1>1. ASSUME NEW u \in Threads, Start(u) PROVE Effect(t)
  <2>1. Start(t)
    BY <1>1 DEF OneThread
  <2> QED BY <2>1, AloneSubmit, AloneBegins DEF Start
<1>2. ASSUME NEW u \in Threads, Continue(u) PROVE Effect(t)
  <2>1. Continue(t)
    BY <1>2 DEF OneThread
  <2>2. CASE Accept(t) \/ ReserveQuotas(t) \/ CheckSoftQuotas(t) \/ RollbackSlot(t) \/ RollbackMark(t)
             \/ RollbackQuota(t) \/ SaveQueued(t) \/ Confirm(t)
    BY <2>2, AloneAccept, AloneReserve, AloneSoft, AloneRollbackSlot, AloneRollbackMark, AloneRollbackQuota,
       AloneSave, AloneConfirm
  <2>3. CASE ListQueued(t) \/ GetHead(t) \/ Take(t) \/ Clobber(t) \/ DequeueReserve(t) \/ DequeueUndo(t)
             \/ DequeueSoft(t) \/ RestoreSlot(t) \/ RestoreMark(t) \/ RestoreQuota(t) \/ DequeueMark(t)
             \/ Dispatch(t)
    BY <2>3, AloneList, AloneGet, AloneTake, AloneClobber, AloneDequeueReserve, AloneUndo, AloneDequeueSoft,
       AloneRestoreSlot, AloneRestoreMark, AloneRestoreQuota, AloneMark, AloneDispatch
  <2>4. CASE ReleaseSlot(t) \/ ReleaseMark(t) \/ ReleaseQuota(t) \/ FailSlot(t) \/ FailMark(t) \/ FailQuota(t)
             \/ SweepNext(t) \/ SweepFails(t)
    BY <2>4, AloneFrees, AloneReleaseMark, AloneReturnsQuota, AloneFailMark, AloneBegins
  <2> QED BY <2>1, <2>2, <2>3, <2>4 DEF Continue
<1> QED BY <1>1, <1>2, AloneWorld DEF Next

-----------------------------------------------------------------------------
(* Slots and reservations, counted.                                         *)

Counts(S, n) == IsFiniteSet(Blocks(S, SlotsOf)) /\ Cardinality(Blocks(S, SlotsOf)) = n

SlottedOf(t, s)   == {r \in Runs : SessionOf[r] = s /\ Slotted(t, r)}
ReservedOf(t, te) == {r \in Runs : TenantOf[r] = te /\ Reserved(t, r)}

ExactSlots(t)  == \A s \in Sessions : Counts(SlottedOf(t, s), active[s])
ExactQuotas(t) == \A te \in Tenants : "max_parallel" \in Limited[te]
                      => Counts(ReservedOf(t, te), usage[te]["max_parallel"])

AloneInv(t) == /\ TypeOK /\ CounterInv /\ LoneInv /\ PathInv(t)
               /\ ExactSlots(t) /\ ExactQuotas(t)

LEMMA CountsMove ==
  ASSUME NEW r \in Runs, NEW S, NEW n \in Nat, Counts(S, n)
  PROVE  /\ r \notin S => Counts(S \cup {r}, n + SlotsOf[r])
         /\ r \in S => Counts(S \ {r}, NonNegative(n - SlotsOf[r]))
<1>1. SlotsOf[r] \in Nat \ {0}
  BY RunConstants
<1>2. ASSUME r \notin S PROVE Counts(S \cup {r}, n + SlotsOf[r])
  BY <1>1, <1>2, AddBlock DEF Counts
<1>3. ASSUME r \in S PROVE Counts(S \ {r}, NonNegative(n - SlotsOf[r]))
  <2>1. /\ IsFiniteSet(Blocks(S \ {r}, SlotsOf))
        /\ Cardinality(Blocks(S \ {r}, SlotsOf)) = n - SlotsOf[r]
    BY <1>1, <1>3, RemoveBlock DEF Counts
  <2>2. n - SlotsOf[r] \in Nat
    BY <2>1, FS_CardinalityType
  <2>3. NonNegative(n - SlotsOf[r]) = n - SlotsOf[r]
    BY <2>2 DEF NonNegative
  <2> QED BY <2>1, <2>3 DEF Counts
<1> QED BY <1>2, <1>3

LEMMA SlotsStayExact ==
  ASSUME TypeOK, NEW t \in Threads, ExactSlots(t), Nothing(t) \/ \E r \in Runs : Touches(t, r)
  PROVE  ExactSlots(t)'
<1> SUFFICES ASSUME NEW s \in Sessions PROVE Counts(SlottedOf(t, s)', active'[s])
  BY DEF ExactSlots, Counts
<1>1. Counts(SlottedOf(t, s), active[s]) /\ active \in [Sessions -> Nat]
  BY DEF ExactSlots, TypeOK, RecordsOK
<1>2. CASE Nothing(t)
  <2>1. SlottedOf(t, s)' = SlottedOf(t, s) /\ active'[s] = active[s]
    BY <1>2 DEF Nothing, Keeps, SlottedOf
  <2> QED BY <1>1, <2>1
<1>3. ASSUME NEW r \in Runs, Touches(t, r) PROVE Counts(SlottedOf(t, s)', active'[s])
  <2>o. \A q \in Runs \ {r} : Slotted(t, q)' <=> Slotted(t, q)
    BY <1>3 DEF Touches, Keeps
  <2>1. CASE Slotted(t, r) /\ ~Slotted(t, r)' /\ FreeSlots(r) /\ SessionOf[r] = s
    <3>1. r \in SlottedOf(t, s) /\ SlottedOf(t, s)' = SlottedOf(t, s) \ {r}
      BY <2>1, <2>o DEF SlottedOf
    <3>2. active'[s] = NonNegative(active[s] - SlotsOf[r])
      BY <1>1, <2>1 DEF FreeSlots, SetActive
    <3>3. active[s] \in Nat
      BY <1>1
    <3>4. Counts(SlottedOf(t, s) \ {r}, NonNegative(active[s] - SlotsOf[r]))
      BY <1>1, <3>1, <3>3, CountsMove
    <3> QED BY <3>1, <3>2, <3>4
  <2>2. CASE /\ ~Slotted(t, r) /\ Slotted(t, r)' /\ SessionOf[r] = s
             /\ active' = [active EXCEPT ![SessionOf[r]] = active[SessionOf[r]] + SlotsOf[r]]
    <3>1. r \notin SlottedOf(t, s) /\ SlottedOf(t, s)' = SlottedOf(t, s) \cup {r}
      BY <2>2, <2>o DEF SlottedOf
    <3>2. active'[s] = active[s] + SlotsOf[r]
      BY <1>1, <2>2
    <3>3. active[s] \in Nat
      BY <1>1
    <3>4. Counts(SlottedOf(t, s) \cup {r}, active[s] + SlotsOf[r])
      BY <1>1, <3>1, <3>3, CountsMove
    <3> QED BY <3>1, <3>2, <3>4
  <2>3. CASE (SessionOf[r] # s \/ (Slotted(t, r)' <=> Slotted(t, r))) /\ active'[s] = active[s]
    <3>1. SlottedOf(t, s)' = SlottedOf(t, s)
      BY <2>3, <2>o DEF SlottedOf
    <3> QED BY <1>1, <2>3, <3>1
  <2>4. SessionOf[r] # s => active'[s] = active[s]
    BY <1>1, <1>3 DEF Touches, SlotMove, FreeSlots, SetActive
  <2> QED BY <1>3, <2>1, <2>2, <2>3, <2>4 DEF Touches, SlotMove
<1> QED BY <1>2, <1>3

LEMMA QuotasStayExact ==
  ASSUME TypeOK, NEW t \in Threads, ExactQuotas(t), Nothing(t) \/ \E r \in Runs : Touches(t, r)
  PROVE  ExactQuotas(t)'
<1> SUFFICES ASSUME NEW te \in Tenants, "max_parallel" \in Limited[te]
             PROVE  Counts(ReservedOf(t, te)', usage'[te]["max_parallel"])
  BY DEF ExactQuotas, Counts
<1>1. /\ Counts(ReservedOf(t, te), usage[te]["max_parallel"]) /\ usage \in [Tenants -> [Resources -> Nat]]
      /\ "max_parallel" \in Resources
  BY DEF ExactQuotas, TypeOK, TenantsOK, Resources
<1>2. CASE Nothing(t)
  <2>1. ReservedOf(t, te)' = ReservedOf(t, te) /\ usage'[te]["max_parallel"] = usage[te]["max_parallel"]
    BY <1>2 DEF Nothing, Keeps, ReservedOf, SameLimits
  <2> QED BY <1>1, <2>1
<1>3. ASSUME NEW r \in Runs, Touches(t, r) PROVE Counts(ReservedOf(t, te)', usage'[te]["max_parallel"])
  <2>o. \A q \in Runs \ {r} : Reserved(t, q)' <=> Reserved(t, q)
    BY <1>3 DEF Touches, Keeps
  <2>1. CASE /\ Reserved(t, r) /\ ~Reserved(t, r)' /\ TenantOf[r] = te
             /\ Unreserve(TenantOf[r], "max_parallel", SlotsOf[r])
    <3>1. r \in ReservedOf(t, te) /\ ReservedOf(t, te)' = ReservedOf(t, te) \ {r}
      BY <2>1, <2>o DEF ReservedOf
    <3>2. usage'[te]["max_parallel"] = NonNegative(usage[te]["max_parallel"] - SlotsOf[r])
      BY <1>1, <2>1 DEF Unreserve
    <3>3. usage[te]["max_parallel"] \in Nat
      BY <1>1
    <3>4. Counts(ReservedOf(t, te) \ {r}, NonNegative(usage[te]["max_parallel"] - SlotsOf[r]))
      BY <1>1, <3>1, <3>3, CountsMove
    <3> QED BY <3>1, <3>2, <3>4
  <2>2. CASE /\ ~Reserved(t, r) /\ Reserved(t, r)' /\ TenantOf[r] = te
             /\ Reserve(TenantOf[r], "max_parallel", SlotsOf[r])
    <3>1. r \notin ReservedOf(t, te) /\ ReservedOf(t, te)' = ReservedOf(t, te) \cup {r}
      BY <2>2, <2>o DEF ReservedOf
    <3>2. usage'[te]["max_parallel"] = usage[te]["max_parallel"] + SlotsOf[r]
      BY <1>1, <2>2 DEF Reserve
    <3>3. usage[te]["max_parallel"] \in Nat
      BY <1>1
    <3>4. Counts(ReservedOf(t, te) \cup {r}, usage[te]["max_parallel"] + SlotsOf[r])
      BY <1>1, <3>1, <3>3, CountsMove
    <3> QED BY <3>1, <3>2, <3>4
  <2>3. CASE /\ TenantOf[r] # te \/ (Reserved(t, r)' <=> Reserved(t, r))
             /\ usage'[te]["max_parallel"] = usage[te]["max_parallel"]
    <3>1. ReservedOf(t, te)' = ReservedOf(t, te)
      BY <2>3, <2>o DEF ReservedOf
    <3> QED BY <1>1, <2>3, <3>1
  <2>4. ASSUME TenantOf[r] # te PROVE usage'[te]["max_parallel"] = usage[te]["max_parallel"]
    <3>1. QuotaMove(t, r)
      BY <1>3 DEF Touches
    <3> QED BY <1>1, <2>4, <3>1 DEF QuotaMove, Reserve, Unreserve, SameLimits
  <2>5. QuotaMove(t, r) /\ (SameLimits => usage'[te]["max_parallel"] = usage[te]["max_parallel"])
    BY <1>3 DEF Touches, SameLimits
  <2> QED BY <2>1, <2>2, <2>3, <2>4, <2>5 DEF QuotaMove
<1> QED BY <1>2, <1>3

LEMMA AloneInit ==
  ASSUME OneThread, NEW t \in Threads, Init
  PROVE  AloneInv(t)
<1>1. TypeOK /\ LoneInv
  BY TypeInit, LoneInit
<1>2. CounterInv
  BY CapAssumption DEF Init, CounterInv, ActiveWithinCap, CapAssumption
<1>3. PathInv(t)
  BY DEF Init, PathInv, MethodInv, StatusInv, LineInv, AfterInv, HeldInv, OrderInv, ReplayInv,
     Trying, Granting, Counted, Restoring, Promoting, Returning
<1>4. /\ \A r \in Runs : status[r] = "none" /\ pc[t] = "idle"
      /\ held[t] = {} /\ op[t] = "none"
  BY DEF Init
<1>5. \A r \in Runs : ~Slotted(t, r) /\ ~Reserved(t, r)
  BY <1>4 DEF Slotted, Reserved, Owed, Trial, Granting, Counted, Promoting
<1>6. Counts({}, 0)
  <2>1. Blocks({}, SlotsOf) = {}
    BY DEF Blocks
  <2> QED BY <2>1, FS_EmptySet DEF Counts
<1>7. ExactSlots(t)
  <2>1. \A s \in Sessions : SlottedOf(t, s) = {} /\ active[s] = 0
    BY <1>5 DEF SlottedOf, Init
  <2> QED BY <1>6, <2>1 DEF ExactSlots
<1>8. ExactQuotas(t)
  <2>1. \A te \in Tenants : ReservedOf(t, te) = {} /\ usage[te]["max_parallel"] = 0
    BY <1>5 DEF ReservedOf, Init, Resources
  <2> QED BY <1>6, <2>1 DEF ExactQuotas
<1> QED BY <1>1, <1>2, <1>3, <1>7, <1>8 DEF AloneInv

LEMMA AloneNext ==
  ASSUME OneThread, NEW t \in Threads, AloneInv(t), [Next]_vars
  PROVE  AloneInv(t)'
<1>1. TypeOK' /\ CounterInv' /\ LoneInv'
  BY TypeKept, CounterStep, LoneStep DEF AloneInv
<1>2. Effect(t)
  BY AloneStep DEF AloneInv
<1>3. PathInv(t)' /\ ExactSlots(t)' /\ ExactQuotas(t)'
  BY <1>2, SlotsStayExact, QuotasStayExact DEF AloneInv, Effect
<1> QED BY <1>1, <1>3 DEF AloneInv

-----------------------------------------------------------------------------
(* What a single-threaded deployment promises.                              *)

Alone == OneThread /\ Threads # {}

\* With one thread, whatever the policy, the tenants' quotas, the rollbacks, the dequeues that are
\* undone, the sweeps and the ends that are repeated: no call leaks a slot or frees one twice, the
\* counter of a session is the number of slots its runs occupy.
THEOREM SlotsAreExact == Alone => (Spec => []Accounting)
<1> SUFFICES ASSUME Alone PROVE Spec => []Accounting
  OBVIOUS
<1>t. OneThread /\ \E t \in Threads : TRUE
  BY DEF Alone
<1>p. PICK t \in Threads : TRUE
  BY <1>t
<1>1. Init => AloneInv(t)
  BY <1>t, AloneInit
<1>2. AloneInv(t) /\ [Next]_vars => AloneInv(t)'
  BY <1>t, AloneNext
<1>3. AloneInv(t) => Accounting
  <2> SUFFICES ASSUME AloneInv(t), NEW s \in Sessions PROVE active[s] = OccupiedSlots(s)
    BY DEF Accounting
  <2>1. {r \in Runs : SessionOf[r] = s /\ Occupies(r)} = SlottedOf(t, s)
    BY <1>t, AloneIs DEF SlottedOf, AloneInv
  <2>2. SlotsOfAll(SlottedOf(t, s)) = Blocks(SlottedOf(t, s), SlotsOf)
    BY DEF SlotsOfAll, Blocks
  <2> QED BY <2>1, <2>2 DEF OccupiedSlots, AloneInv, ExactSlots, Counts
<1> QED BY <1>1, <1>2, <1>3, PTL DEF Spec

\* And what a tenant has reserved of max_parallel is what its runs hold: a release, a failure, a
\* sweep, a rollback and an undone dequeue each give back what was reserved, once.
THEOREM QuotasAreExact == Alone => (Spec => []QuotaAccounting)
<1> SUFFICES ASSUME Alone PROVE Spec => []QuotaAccounting
  OBVIOUS
<1>t. OneThread /\ \E t \in Threads : TRUE
  BY DEF Alone
<1>p. PICK t \in Threads : TRUE
  BY <1>t
<1>1. Init => AloneInv(t)
  BY <1>t, AloneInit
<1>2. AloneInv(t) /\ [Next]_vars => AloneInv(t)'
  BY <1>t, AloneNext
<1>3. AloneInv(t) => QuotaAccounting
  <2> SUFFICES ASSUME AloneInv(t), NEW te \in Tenants, "max_parallel" \in Limited[te]
               PROVE  usage[te]["max_parallel"] =
                        Cardinality(SlotsOfAll({r \in Runs : TenantOf[r] = te /\ HoldsQuota(r)}))
    BY DEF QuotaAccounting
  <2>1. {r \in Runs : TenantOf[r] = te /\ HoldsQuota(r)} = ReservedOf(t, te)
    BY <1>t, AloneIs DEF ReservedOf, Reserved, Metered, AloneInv
  <2>2. SlotsOfAll(ReservedOf(t, te)) = Blocks(ReservedOf(t, te), SlotsOf)
    BY DEF SlotsOfAll, Blocks
  <2> QED BY <2>1, <2>2 DEF AloneInv, ExactQuotas, Counts
<1> QED BY <1>1, <1>2, <1>3, PTL DEF Spec

\* With one thread nothing brings a run back that is done or failed.
THEOREM EndedIsFinal == Alone => (Spec => TerminalIsFinal)
<1> SUFFICES ASSUME Alone PROVE Spec => TerminalIsFinal
  OBVIOUS
<1>t. OneThread /\ \E t \in Threads : TRUE
  BY DEF Alone
<1>p. PICK t \in Threads : TRUE
  BY <1>t
<1>1. Init => AloneInv(t)
  BY <1>t, AloneInit
<1>2. AloneInv(t) /\ [Next]_vars => AloneInv(t)'
  BY <1>t, AloneNext
<1>3. AloneInv(t) /\ [Next]_vars
        => [\A r \in Runs : status[r] \in {"done", "failed"} => status'[r] = status[r]]_vars
  <2> SUFFICES ASSUME AloneInv(t), Next, NEW r \in Runs, status[r] \in {"done", "failed"}
               PROVE  status'[r] = status[r]
    OBVIOUS
  <2>s. StatusInv(t) /\ status \in [Runs -> Statuses]
    BY DEF AloneInv, PathInv, TypeOK, RecordsOK
  <2>1. CASE UNCHANGED status
    BY <2>1
  <2>2. CASE Continue(t)
    <3>1. CASE Accept(t) \/ SaveQueued(t)
      <4>1. status[run[t]] = "none" /\ \A q \in Runs \ {run[t]} : status'[q] = status[q]
        BY <2>s, <3>1 DEF Accept, SaveQueued, StatusInv, recordVars
      <4> QED BY <4>1
    <3>2. CASE RollbackMark(t) \/ ReleaseMark(t) \/ FailMark(t)
      <4>1. status[run[t]] \in {"accepted", "queued"} /\ \A q \in Runs \ {run[t]} : status'[q] = status[q]
        BY <2>s, <3>2 DEF RollbackMark, ReleaseMark, FailMark, MarkStatus, StatusInv
      <4> QED BY <4>1
    <3>3. CASE Clobber(t) \/ RestoreMark(t) \/ DequeueMark(t)
      <4>1. status[cur[t]] = "queued" /\ \A q \in Runs \ {cur[t]} : status'[q] = status[q]
        BY <2>s, <3>3 DEF Clobber, RestoreMark, DequeueMark, MarkStatus, StatusInv, Promoting, Restoring
      <4> QED BY <4>1
    <3> QED BY <2>1, <2>2, <3>1, <3>2, <3>3
            DEF Continue, ReserveQuotas, CheckSoftQuotas, RollbackSlot, RollbackQuota, Confirm, ListQueued, GetHead,
                Take, DequeueReserve, DequeueUndo, DequeueSoft, RestoreSlot, RestoreQuota, Dispatch, ReleaseSlot,
                ReleaseQuota, FailSlot, FailQuota, SweepNext, SweepFails, recordVars
  <2>3. CASE Start(t) \/ World
    BY <2>1, <2>3 DEF Start, Submit, Release, MarkFailed, ClientEnds, Sweep, World, Rollover, Heartbeat,
                      BeatLapses, SpendTokens, recordVars
  <2>4. World \/ Start(t) \/ Continue(t)
    BY <1>t DEF Next, OneThread
  <2> QED BY <2>2, <2>3, <2>4
<1> QED BY <1>1, <1>2, <1>3, PTL DEF Spec, TerminalIsFinal

\* the accepted runs of a session that still hold their slots
LEMMA ExecutingFits ==
  ASSUME OneThread, NEW t \in Threads, AloneInv(t), NEW s \in Sessions, NEW S, S \subseteq SlottedOf(t, s)
  PROVE  /\ IsFiniteSet(Blocks(S, SlotsOf)) /\ Cardinality(Blocks(S, SlotsOf)) <= Cap
<1>1. Counts(SlottedOf(t, s), active[s]) /\ active[s] \in Nat /\ active[s] <= Cap /\ Cap \in Nat
  BY CapAssumption DEF AloneInv, ExactSlots, CounterInv, ActiveWithinCap, TypeOK, RecordsOK, CapAssumption
<1>2. /\ IsFiniteSet(Blocks(S, SlotsOf))
      /\ Cardinality(Blocks(S, SlotsOf)) <= Cardinality(Blocks(SlottedOf(t, s), SlotsOf))
  BY <1>1, FewerBlocks DEF Counts
<1>3. Cardinality(Blocks(S, SlotsOf)) \in Nat
  BY <1>2, FS_CardinalityType
<1> QED BY <1>1, <1>2, <1>3 DEF Counts

\* With one thread the accepted runs of a session never need more slots than it has.
THEOREM LoadFits == Alone => (Spec => []LoadWithinCap)
<1> SUFFICES ASSUME Alone PROVE Spec => []LoadWithinCap
  OBVIOUS
<1>t. OneThread /\ \E t \in Threads : TRUE
  BY DEF Alone
<1>p. PICK t \in Threads : TRUE
  BY <1>t
<1>1. Init => AloneInv(t)
  BY <1>t, AloneInit
<1>2. AloneInv(t) /\ [Next]_vars => AloneInv(t)'
  BY <1>t, AloneNext
<1>3. AloneInv(t) => LoadWithinCap
  <2> SUFFICES ASSUME AloneInv(t), NEW s \in Sessions
               PROVE  Cardinality(SlotsOfAll(Executing(s))) <= Cap
    BY DEF LoadWithinCap
  <2>1. Executing(s) \subseteq SlottedOf(t, s)
    BY <1>t, AloneIs DEF Executing, SlottedOf, Occupies, AloneInv
  <2>2. SlotsOfAll(Executing(s)) = Blocks(Executing(s), SlotsOf)
    BY DEF SlotsOfAll, Blocks
  <2> QED BY <1>t, <2>1, <2>2, ExecutingFits
<1> QED BY <1>1, <1>2, <1>3, PTL DEF Spec

-----------------------------------------------------------------------------
(* With one thread the scheduler implements Admission, whatever the policy.  *)

\* what is seen of a run, in terms of the one thread
SeenInv(t) == \A r \in Runs : Outcome(r) = Fate(t, r)

LEMMA AlonePoolInit ==
  ASSUME OneThread, NEW t \in Threads, Init
  PROVE  Pool!Init
<1>1. AloneInv(t)
  BY AloneInit
<1>2. ASSUME NEW r \in Runs PROVE Outcome(r) = "new" /\ status[r] = "none"
  <2>1. reply[r] = "none" /\ status[r] = "none" /\ pc[t] = "idle"
    BY DEF Init
  <2>2. Fate(t, r) = "new"
    BY <2>1 DEF Fate, Refused, Trial, Granting
  <2> QED BY <1>1, <2>1, <2>2, AloneIs DEF AloneInv
<1> QED BY <1>2 DEF Pool!Init

\* whoever joins those running finds room
LEMMA AloneRoom ==
  ASSUME OneThread, NEW t \in Threads, AloneInv(t)', SeenInv(t), NEW r \in Runs,
         Fate(t, r)' = "running", \A q \in Runs \ {r} : Keeps(t, q)
  PROVE  Pool!HasRoom(r)
<1> DEFINE s == SessionOf[r]
           S == Pool!Running(s) \cup {r}
<1>1. s \in Sessions
  BY RunConstants
<1>2. S \subseteq SlottedOf(t, s)'
  <2>1. ASSUME NEW q \in S PROVE q \in SlottedOf(t, s)'
    <3>1. q \in Runs /\ SessionOf[q] = s /\ (q = r \/ Outcome(q) = "running")
      BY <2>1 DEF Pool!Running
    <3>2. Fate(t, q)' = "running"
      BY <3>1 DEF SeenInv, Keeps
    <3>3. Slotted(t, q)'
      BY <3>2 DEF Fate
    <3> QED BY <3>1, <3>3 DEF SlottedOf
  <2> QED BY <2>1
<1>3. /\ IsFiniteSet(Blocks(SlottedOf(t, s)', SlotsOf))
      /\ Cardinality(Blocks(SlottedOf(t, s)', SlotsOf)) = active'[s]
      /\ active'[s] \in Nat /\ active'[s] <= Cap /\ Cap \in Nat
  BY <1>1, CapAssumption DEF AloneInv, ExactSlots, Counts, CounterInv, ActiveWithinCap, TypeOK, RecordsOK, CapAssumption
<1>4. IsFiniteSet(Blocks(S, SlotsOf)) /\ Cardinality(Blocks(S, SlotsOf)) <= active'[s]
  BY <1>2, <1>3, FewerBlocks
<1>5. Cardinality(Blocks(S, SlotsOf)) \in Nat
  BY <1>4, FS_CardinalityType
<1>6. Cardinality(Blocks(S, SlotsOf)) <= Cap
  BY <1>3, <1>4, <1>5
<1>7. Pool!SlotsOfAll(S) = Blocks(S, SlotsOf)
  BY DEF Pool!SlotsOfAll, Blocks
<1> QED BY <1>6, <1>7, SameCount DEF Pool!HasRoom

LEMMA AlonePoolStep ==
  ASSUME OneThread, NEW t \in Threads, AloneInv(t), AloneInv(t)', SeenInv(t), SeenInv(t)', [Next]_vars
  PROVE  [Pool!Next]_<<OutcomeMap, PlaceMap>>
<1>o. \A q \in Runs : Outcome(q) = Fate(t, q) /\ Outcome(q)' = Fate(t, q)'
  BY DEF SeenInv
<1>m. \A q \in Runs : PlaceMap[q] = Place(q) /\ PlaceMap'[q] = Place(q)' /\ OutcomeMap[q] = Outcome(q)
  BY DEF PlaceMap, Place, OutcomeMap
<1>1. CASE Nothing(t)
  <2>1. OutcomeMap' = OutcomeMap
    BY <1>1, <1>o, MapsStay DEF Nothing, Keeps
  <2>2. PlaceMap' = PlaceMap
    BY <1>1 DEF Nothing, Keeps, PlaceMap, Place
  <2> QED BY <2>1, <2>2
<1>2. ASSUME NEW r \in Runs, Touches(t, r) PROVE [Pool!Next]_<<OutcomeMap, PlaceMap>>
  <2>k. \A q \in Runs \ {r} : Keeps(t, q) /\ Outcome(q)' = Outcome(q) /\ Place(q)' = Place(q)
    BY <1>2, <1>o DEF Touches, Keeps
  <2>p. Place(r)' = Place(r) => PlaceMap' = PlaceMap
    BY <2>k DEF PlaceMap, Place
  <2>b. \A o : Outcome(r)' = o => Pool!Become(r, o)
    BY <2>k, MapsMove DEF Pool!Become, OutcomeMap
  <2>1. CASE Fate(t, r)' = Fate(t, r) /\ Place(r)' = Place(r)
    <3>1. OutcomeMap' = OutcomeMap
      BY <2>1, <2>k, <1>o, MapsStay
    <3> QED BY <2>1, <2>p, <3>1
  <2>2. CASE Fate(t, r) = "new" /\ Fate(t, r)' = "refused" /\ Place(r)' = Place(r)
    <3>1. Pool!Refuse(r)
      BY <2>2, <2>p, <2>b, <1>o DEF Pool!Refuse, OutcomeMap, PlaceMap
    <3> QED BY <3>1 DEF Pool!Next
  <2>3. CASE Fate(t, r) = "new" /\ Fate(t, r)' = "running" /\ Place(r)' = Place(r)
    <3>1. Pool!Admit(r)
      BY <2>3, <2>k, <2>p, <2>b, <1>o, AloneRoom DEF Pool!Admit, OutcomeMap, PlaceMap
    <3> QED BY <3>1 DEF Pool!Next
  <2>4. CASE /\ Fate(t, r) = "new" /\ Fate(t, r)' = "queued"
             /\ \A q \in Runs : Fate(t, q) = "queued" => Place(q) < Place(r)'
    <3>1. PlaceMap' = [PlaceMap EXCEPT ![r] = PlaceMap'[r]]
      BY <2>k DEF PlaceMap, Place
    <3>2. \A q \in Runs : OutcomeMap[q] = "queued" => PlaceMap[q] < PlaceMap'[r]
      BY <1>o, <1>m, <2>4
    <3>3. Pool!Enqueue(r)
      BY <2>4, <2>b, <3>1, <3>2, <1>o DEF Pool!Enqueue, OutcomeMap, PlaceMap
    <3> QED BY <3>3 DEF Pool!Next
  <2>5. CASE /\ Fate(t, r) = "queued" /\ Fate(t, r)' = "running" /\ Place(r)' = Place(r)
             /\ \A q \in Runs : /\ Fate(t, q) = "queued"
                                /\ SessionOf[q] = SessionOf[r] /\ TenantOf[q] = TenantOf[r]
                                => Place(r) <= Place(q)
    <3>1. \A q \in Runs : /\ OutcomeMap[q] = "queued"
                          /\ SessionOf[q] = SessionOf[r] /\ TenantOf[q] = TenantOf[r]
                          => PlaceMap[r] <= PlaceMap[q]
      BY <1>o, <1>m, <2>5
    <3>2. Pool!Promote(r)
      BY <2>5, <2>k, <2>p, <2>b, <3>1, <1>o, AloneRoom DEF Pool!Promote, OutcomeMap, PlaceMap
    <3> QED BY <3>2 DEF Pool!Next
  <2>6. CASE Fate(t, r) \in {"queued", "running"} /\ Fate(t, r)' = "ended" /\ Place(r)' = Place(r)
    <3>1. Pool!End(r)
      BY <2>6, <2>p, <2>b, <1>o DEF Pool!End, OutcomeMap, PlaceMap
    <3> QED BY <3>1 DEF Pool!Next
  <2> QED BY <1>2, <2>1, <2>2, <2>3, <2>4, <2>5, <2>6 DEF Touches, FateMove
<1> QED BY <1>1, <1>2, AloneStep DEF AloneInv, Effect

\* A single-threaded scheduler, with its counters, quotas, rollbacks, dequeues and sweeps, under
\* either policy, admits, refuses, queues, promotes in order and ends runs as Admission allows.
THEOREM AloneAdmits == Alone => (Spec => ImplementsAdmission)
<1> SUFFICES ASSUME Alone PROVE Spec => ImplementsAdmission
  OBVIOUS
<1>t. OneThread /\ \E t \in Threads : TRUE
  BY DEF Alone
<1>p. PICK t \in Threads : TRUE
  BY <1>t
<1>1. Init => AloneInv(t)
  BY <1>t, AloneInit
<1>2. AloneInv(t) /\ [Next]_vars => AloneInv(t)'
  BY <1>t, AloneNext
<1>3. AloneInv(t) => SeenInv(t)
  BY <1>t, AloneIs DEF AloneInv, SeenInv
<1>4. AloneInv(t) /\ AloneInv(t)' /\ SeenInv(t) /\ SeenInv(t)' /\ [Next]_vars
        => [Pool!Next]_<<OutcomeMap, PlaceMap>>
  BY <1>t, AlonePoolStep
<1>5. Init => Pool!Init
  BY <1>t, AlonePoolInit
<1> QED BY <1>1, <1>2, <1>3, <1>4, <1>5, PTL DEF Spec, Pool!Spec, ImplementsAdmission, OutcomeMap, PlaceMap

-----------------------------------------------------------------------------
(* Who waits, and what for.  Without tenants a session whose queue is not     *)
(* empty is n slots full between calls, and m slots while a call that ended a *)
(* run has not yet looked at the queue.                                     *)

Untenanted == Alone /\ \A r \in Runs : TenantOf[r] = NoTenant

\* no step of the counter leads from one bound past the other
Steady(n, m) == /\ n \in Nat /\ m \in Nat
                /\ \A r \in Runs : n <= m + SlotsOf[r] /\ n + SlotsOf[r] <= Cap + 1
                /\ m = 0 \/ \A r \in Runs : m + SlotsOf[r] <= n

\* a run was ended, the queue not yet looked at
Looking == {"release_mark", "fail_mark", "fail_quota", "list", "get", "take"}

FullInv(t, n, m) ==
    /\ \A r \in Runs : status[r] = "queued" =>
         \/ active[SessionOf[r]] >= n
         \/ SessionOf[r] = SessionOf[run[t]] /\ pc[t] \in Looking /\ active[SessionOf[r]] >= m
    /\ pc[t] = "save" => active[SessionOf[run[t]]] >= n

\* runs in line stay there, the counter stays: the thread may look, or look on
LEMMA FullKept ==
  ASSUME TypeOK, NEW t \in Threads, NEW n, NEW m, FullInv(t, n, m), UNCHANGED active,
         \A r \in Runs : status'[r] = "queued" => status[r] = "queued",
         pc[t] \in Looking => pc'[t] \in Looking /\ run'[t] = run[t],
         pc'[t] # "save"
  PROVE  FullInv(t, n, m)'
  BY DEF FullInv

LEMMA FullSubmit ==
  ASSUME Untenanted, NEW t \in Threads, AloneInv(t), NEW n, NEW m, Steady(n, m), FullInv(t, n, m),
         \/ Accept(t) \/ SaveQueued(t) \/ Confirm(t)
  PROVE  FullInv(t, n, m)'
<1>t. Typed(t)
  BY AloneTypes DEF AloneInv
<1>r. PICK r \in Runs : r = run[t]
  BY <1>t DEF Typed, Accept, SaveQueued, Confirm
<1>a. /\ active[SessionOf[r]] \in Nat /\ SlotsOf[r] \in Nat \ {0} /\ SessionOf[r] \in Sessions
      /\ Cap \in Nat /\ TenantOf[r] = NoTenant
      /\ \A q \in Runs : SessionOf[q] \in Sessions /\ active[SessionOf[q]] \in Nat
  BY <1>t, RunConstants, CapAssumption DEF Typed, Untenanted, CapAssumption
<1>1. CASE Accept(t)
  <2>0. pc[t] = "accept" /\ status[r] = "none"
    BY <1>1, <1>r DEF Accept, AloneInv, PathInv, StatusInv
  <2>f. \A q \in Runs : status[q] = "queued" => active[SessionOf[q]] >= n
    BY <2>0 DEF FullInv, Looking
  <2>1. CASE Fits(r)
    <3>1. /\ status'[r] = "accepted" /\ \A q \in Runs \ {r} : status'[q] = status[q]
          /\ pc'[t] = "list" /\ TakeSlots(t, r)
      BY <1>1, <1>r, <1>t, <1>a, <2>1 DEF Accept, Typed, Goto
    <3>2. \A s \in Sessions : active'[s] >= active[s]
      <4>1. active' = [active EXCEPT ![SessionOf[r]] = active[SessionOf[r]] + SlotsOf[r]]
        BY <3>1, TakeIs DEF AloneInv
      <4> QED BY <4>1, <1>a, <1>t DEF Typed
    <3>3. \A q \in Runs : active'[SessionOf[q]] >= active[SessionOf[q]] /\ active'[SessionOf[q]] \in Nat
      <4>1. active' = [active EXCEPT ![SessionOf[r]] = active[SessionOf[r]] + SlotsOf[r]]
        BY <3>1, TakeIs DEF AloneInv
      <4> QED BY <4>1, <3>2, <1>a, <1>t DEF Typed
    <3> QED BY <2>f, <3>1, <3>3, <1>a DEF FullInv, Steady
  <2>2. CASE ~Fits(r) /\ UNCHANGED <<status, active>> /\ pc'[t] \in {"idle", "save"}
             /\ (pc'[t] = "save" => run'[t] = r)
    <3>1. active[SessionOf[r]] >= n
      BY <1>a, <2>2 DEF Fits, Steady
    <3> QED BY <2>f, <2>2, <3>1 DEF FullInv
  <2>3. ~Fits(r) => /\ UNCHANGED <<status, active>> /\ pc'[t] \in {"idle", "save"}
                    /\ pc'[t] = "save" => run'[t] = r
    BY <1>1, <1>r, <1>t DEF Accept, Leave, Goto, Typed, recordVars
  <2> QED BY <2>1, <2>2, <2>3
<1>2. CASE SaveQueued(t)
  <2>1. /\ status'[r] = "queued" /\ \A q \in Runs \ {r} : status'[q] = status[q]
        /\ pc[t] = "save" /\ pc'[t] = "list" /\ UNCHANGED <<active, run>>
    BY <1>2, <1>r, <1>t DEF SaveQueued, Typed, Goto
  <2> QED BY <1>r, <2>1 DEF FullInv, Looking
<1>3. CASE Confirm(t)
  <2>1. UNCHANGED <<status, active>> /\ pc[t] = "confirm" /\ pc'[t] = "idle"
    BY <1>3, <1>t DEF Confirm, Leave, Goto, Typed, recordVars
  <2> QED BY <2>1, FullKept DEF AloneInv, Looking
<1> QED BY <1>1, <1>2, <1>3

LEMMA FullDequeue ==
  ASSUME Untenanted, NEW t \in Threads, AloneInv(t), NEW n, NEW m, Steady(n, m), FullInv(t, n, m),
         \/ ListQueued(t) \/ GetHead(t) \/ Take(t) \/ Clobber(t) \/ DequeueMark(t) \/ Dispatch(t)
  PROVE  FullInv(t, n, m)'
<1>t. Typed(t) /\ PathInv(t)
  BY AloneTypes DEF AloneInv
<1>r. PICK r \in Runs : r = run[t]
  BY <1>t DEF Typed, ListQueued, GetHead, Take, Clobber, DequeueMark, Dispatch
<1>a. /\ Cap \in Nat /\ TenantOf[r] = NoTenant
      /\ \A q \in Runs : /\ SessionOf[q] \in Sessions /\ active[SessionOf[q]] \in Nat
                         /\ SlotsOf[q] \in Nat \ {0} /\ TenantOf[q] = NoTenant
  BY <1>t, RunConstants, CapAssumption DEF Typed, Untenanted, CapAssumption
<1>b. ASSUME NEW told, DequeueReturns(t, told) PROVE pc'[t] # "save"
  BY <1>b, <1>r, ReturnIs DEF AloneInv
<1>1. CASE ListQueued(t)
  <2>0. pc[t] = "list" /\ UNCHANGED <<status, active>>
    BY <1>1 DEF ListQueued, recordVars
  <2>1. CASE pc'[t] = "get" /\ UNCHANGED run
    BY <2>0, <2>1, FullKept DEF AloneInv, Looking
  <2>2. CASE QueuedFor(r) = {} /\ DequeueReturns(t, {})
    <3>1. \A q \in Runs : status[q] = "queued" => active[SessionOf[q]] >= n
      BY <1>r, <1>a, <2>2 DEF FullInv, QueuedFor
    <3> QED BY <1>b, <2>0, <2>2, <3>1 DEF FullInv
  <2> QED BY <1>1, <1>r, <1>t, <2>1, <2>2 DEF ListQueued, Goto, Typed
<1>2. CASE GetHead(t)
  <2>1. pc[t] = "get" /\ UNCHANGED <<status, active, run>> /\ pc'[t] = "take"
    BY <1>2, <1>t DEF GetHead, PathInv, LineInv, QueuedFor, recordVars, Goto, Typed
  <2> QED BY <2>1, FullKept DEF AloneInv, Looking
<1>3. CASE Take(t)
  <2>c. PICK c \in Runs : c = cur[t]
    BY <1>3, <1>t DEF Take, Typed, DequeueLabels
  <2>0. /\ pc[t] = "take" /\ UNCHANGED <<status, run>> /\ status[c] = "queued" /\ SessionOf[c] = SessionOf[r]
    BY <1>3, <1>r, <1>t, <2>c DEF Take, PathInv, LineInv, QueuedFor, Promoting
  <2>f. \A q \in Runs : status[q] = "queued" =>
          \/ active[SessionOf[q]] >= n
          \/ SessionOf[q] = SessionOf[c] /\ active[SessionOf[q]] >= m
    BY <1>r, <2>0 DEF FullInv
  <2>1. CASE Fits(c) /\ TakeSlots(t, c) /\ pc'[t] \in {"dq_mark", "dq_reserve"}
    <3>1. active' = [active EXCEPT ![SessionOf[c]] = active[SessionOf[c]] + SlotsOf[c]]
      BY <2>1, TakeIs DEF AloneInv
    <3>2. ASSUME NEW q \in Runs, status[q] = "queued" PROVE active'[SessionOf[q]] >= n
      <4>1. CASE SessionOf[q] = SessionOf[c]
        <5>1. active'[SessionOf[q]] = active[SessionOf[q]] + SlotsOf[c]
          BY <1>a, <1>t, <3>1, <4>1 DEF Typed
        <5>2. active[SessionOf[q]] >= n \/ active[SessionOf[q]] >= m
          BY <2>f, <3>2
        <5>3. n <= m + SlotsOf[c] /\ SlotsOf[c] \in Nat /\ active[SessionOf[q]] \in Nat /\ n \in Nat /\ m \in Nat
          BY <1>a DEF Steady
        <5> QED BY <5>1, <5>2, <5>3
      <4>2. CASE SessionOf[q] # SessionOf[c]
        BY <1>a, <1>t, <2>f, <3>1, <3>2, <4>2 DEF Typed
      <4> QED BY <4>1, <4>2
    <3> QED BY <2>0, <2>1, <3>2 DEF FullInv
  <2>2. CASE ~Fits(c) /\ UNCHANGED active /\ pc'[t] = "clobber"
    <3>1. active[SessionOf[c]] >= n
      BY <1>a, <2>2 DEF Fits, Steady
    <3> QED BY <2>0, <2>f, <2>2, <3>1 DEF FullInv
  <2> QED BY <1>3, <1>t, <2>c, <2>1, <2>2 DEF Take, Goto, Typed
<1>4. CASE Clobber(t) \/ Dispatch(t)
  <2>1. pc[t] \in {"clobber", "dispatch"} /\ UNCHANGED active /\ pc'[t] # "save"
    BY <1>4, <1>b DEF Clobber, Dispatch
  <2>2. status' = status
    <3>1. CASE Clobber(t)
      <4>1. status[cur[t]] = "queued"
        BY <3>1, <1>t DEF Clobber, PathInv, StatusInv, Promoting
      <4> QED BY <3>1, <4>1, <1>t DEF Clobber, Typed
    <3> QED BY <1>4, <3>1 DEF Dispatch
  <2> QED BY <2>1, <2>2, FullKept DEF AloneInv, Looking
<1>5. CASE DequeueMark(t)
  <2>1. /\ pc[t] = "dq_mark" /\ pc'[t] = "dispatch" /\ UNCHANGED active
        /\ \A q \in Runs : status'[q] = "queued" => status[q] = "queued"
    BY <1>5, <1>t DEF DequeueMark, MarkStatus, Goto, Typed
  <2> QED BY <2>1, FullKept DEF AloneInv, Looking
<1> QED BY <1>1, <1>2, <1>3, <1>4, <1>5

LEMMA FullEnd ==
  ASSUME Untenanted, NEW t \in Threads, AloneInv(t), NEW n, NEW m, Steady(n, m), FullInv(t, n, m),
         \/ ReleaseSlot(t) \/ ReleaseMark(t) \/ ReleaseQuota(t) \/ FailSlot(t) \/ FailMark(t) \/ FailQuota(t)
         \/ SweepNext(t) \/ SweepFails(t)
  PROVE  FullInv(t, n, m)'
<1>t. Typed(t) /\ PathInv(t)
  BY AloneTypes DEF AloneInv
<1>1. CASE ReleaseSlot(t) \/ FailSlot(t)
  <2>r. PICK r \in Runs : r = run[t]
    BY <1>1, <1>t DEF Typed, ReleaseSlot, FailSlot
  <2>a. \A q \in Runs : SessionOf[q] \in Sessions /\ active[SessionOf[q]] \in Nat /\ SlotsOf[q] \in Nat \ {0}
    BY <1>t, RunConstants DEF Typed
  <2>1. /\ pc[t] \in {"release_slot", "fail_slot"} /\ pc'[t] \in {"release_mark", "fail_mark"}
        /\ UNCHANGED <<status, run>> /\ FreeSlots(r)
    BY <1>1, <1>t, <2>r DEF Typed, ReleaseSlot, FailSlot, Goto
  <2>2. \A q \in Runs : status[q] = "queued" => active[SessionOf[q]] >= n
    BY <2>1 DEF FullInv, Looking
  <2>3. active' = [active EXCEPT ![SessionOf[r]] = NonNegative(active[SessionOf[r]] - SlotsOf[r])]
    BY <2>1 DEF FreeSlots, SetActive
  <2>4. ASSUME NEW q \in Runs, status[q] = "queued"
        PROVE  \/ active'[SessionOf[q]] >= n
               \/ SessionOf[q] = SessionOf[r] /\ active'[SessionOf[q]] >= m
    <3>1. CASE SessionOf[q] # SessionOf[r]
      BY <1>t, <2>a, <2>2, <2>3, <2>4, <3>1 DEF Typed
    <3>2. CASE SessionOf[q] = SessionOf[r]
      <4>1. active'[SessionOf[q]] = NonNegative(active[SessionOf[q]] - SlotsOf[r])
        BY <1>t, <2>a, <2>3, <3>2 DEF Typed
      <4>2. active[SessionOf[q]] >= n /\ active[SessionOf[q]] \in Nat /\ SlotsOf[r] \in Nat
        BY <2>a, <2>2, <2>4
      <4>3. n \in Nat /\ m \in Nat /\ (m = 0 \/ m + SlotsOf[r] <= n)
        BY DEF Steady
      <4> QED BY <3>2, <4>1, <4>2, <4>3 DEF NonNegative
    <3> QED BY <3>1, <3>2
  <2> QED BY <2>r, <2>1, <2>4 DEF FullInv, Looking
<1>2. CASE ReleaseMark(t) \/ FailMark(t) \/ FailQuota(t)
  <2>1. /\ pc[t] \in {"release_mark", "fail_mark", "cancel_mark", "fail_quota"} /\ pc'[t] \in {"list", "fail_quota"}
        /\ UNCHANGED <<active, run>>
        /\ \A q \in Runs : status'[q] = "queued" => status[q] = "queued"
    BY <1>2, <1>t DEF Typed, ReleaseMark, FailMark, FailQuota, MarkStatus, Goto, recordVars
  <2> QED BY <2>1, FullKept DEF AloneInv, Looking
<1>3. CASE ReleaseQuota(t) \/ SweepNext(t) \/ SweepFails(t)
  <2>1. /\ pc[t] \in {"release_quota", "sweep", "fail_get"} /\ UNCHANGED <<active, status>>
        /\ pc'[t] # "save"
    BY <1>3, <1>t DEF Typed, ReleaseQuota, SweepNext, SweepFails, Call, Leave, FailLabel, Goto, recordVars
  <2> QED BY <2>1, FullKept DEF AloneInv, Looking
<1> QED BY <1>1, <1>2, <1>3

LEMMA FullStep ==
  ASSUME Untenanted, NEW t \in Threads, AloneInv(t), NEW n, NEW m, Steady(n, m), FullInv(t, n, m), [Next]_vars
  PROVE  FullInv(t, n, m)'
<1>t. Typed(t) /\ PathInv(t) /\ TypeOK
  BY AloneTypes DEF AloneInv
<1>1. CASE Start(t)
  <2>1. pc[t] = "idle" /\ UNCHANGED <<status, active>> /\ pc'[t] # "save"
    BY <1>1, <1>t DEF Typed, Start, Submit, Release, MarkFailed, ClientEnds, Sweep, Call, FailLabel, Goto, recordVars
  <2> QED BY <1>t, <2>1, FullKept DEF Looking
<1>2. CASE World \/ UNCHANGED vars
  <2>1. UNCHANGED <<status, active, pc, run>>
    BY <1>2 DEF World, Rollover, Heartbeat, BeatLapses, SpendTokens, vars, recordVars
  <2> QED BY <2>1 DEF FullInv
\* without a tenant there is no quota to reserve or to give back
<1>3. CASE \/ ReserveQuotas(t) \/ CheckSoftQuotas(t) \/ RollbackSlot(t) \/ RollbackMark(t) \/ RollbackQuota(t)
           \/ DequeueReserve(t) \/ DequeueUndo(t) \/ DequeueSoft(t) \/ RestoreSlot(t) \/ RestoreMark(t)
           \/ RestoreQuota(t)
  <2>1. pc[t] \in Granting \cup Counted \cup Restoring
    BY <1>3 DEF ReserveQuotas, CheckSoftQuotas, RollbackSlot, RollbackMark, RollbackQuota, DequeueReserve,
       DequeueUndo, DequeueSoft, RestoreSlot, RestoreMark, RestoreQuota, Granting, Counted, Restoring
  <2>2. \/ run[t] \in Runs /\ TenantOf[run[t]] \in Tenants
        \/ cur[t] \in Runs /\ TenantOf[cur[t]] \in Tenants
    BY <1>t, <2>1 DEF Typed, PathInv, HeldInv, Granting, Counted, Restoring, DequeueLabels
  <2> QED BY <2>2, RunsAssumption DEF Untenanted
<1>4. CASE Continue(t)
  BY <1>3, <1>4, FullSubmit, FullDequeue, FullEnd DEF Continue
<1>5. World \/ UNCHANGED vars \/ Start(t) \/ Continue(t)
  BY DEF Next, Untenanted, Alone, OneThread
<1> QED BY <1>1, <1>2, <1>4, <1>5

\* With one thread and no tenants, and runs that the session can hold at all, a run that waits
\* between calls waits for one that holds a slot: the end of that one will look at the queue.
THEOREM QueueIsServed ==
  Untenanted /\ (\A r \in Runs : SlotsOf[r] <= Cap) => (Spec => []SomeoneWillDequeue)
<1> SUFFICES ASSUME Untenanted, \A r \in Runs : SlotsOf[r] <= Cap PROVE Spec => []SomeoneWillDequeue
  OBVIOUS
<1>t. OneThread /\ \E t \in Threads : TRUE
  BY DEF Untenanted, Alone
<1>p. PICK t \in Threads : TRUE
  BY <1>t
<1>s. Steady(1, 0)
  BY RunConstants, CapAssumption DEF Steady, CapAssumption
<1>1. Init => AloneInv(t) /\ FullInv(t, 1, 0)
  <2>1. Init => FullInv(t, 1, 0)
    BY DEF Init, FullInv
  <2> QED BY <1>t, <2>1, AloneInit
<1>2. AloneInv(t) /\ FullInv(t, 1, 0) /\ [Next]_vars => AloneInv(t)' /\ FullInv(t, 1, 0)'
  BY <1>t, <1>s, AloneNext, FullStep
<1>3. AloneInv(t) /\ FullInv(t, 1, 0) => SomeoneWillDequeue
  <2> SUFFICES ASSUME AloneInv(t), FullInv(t, 1, 0), Quiet, NEW r \in Runs, status[r] = "queued"
               PROVE  active[SessionOf[r]] > 0
    BY DEF SomeoneWillDequeue
  <2>1. active[SessionOf[r]] >= 1 /\ active[SessionOf[r]] \in Nat
    BY RunConstants DEF Quiet, FullInv, Looking, AloneInv, TypeOK, RecordsOK
  <2> QED BY <2>1
<1> QED BY <1>1, <1>2, <1>3, PTL DEF Spec

\* With one thread, no tenants and runs of one slot, no run is accepted while an older one of its
\* session waits.
THEOREM NobodyOvertakes ==
  Untenanted /\ (\A r \in Runs : SlotsOf[r] = 1) => (Spec => NoOvertaking)
<1> SUFFICES ASSUME Untenanted, \A r \in Runs : SlotsOf[r] = 1 PROVE Spec => NoOvertaking
  OBVIOUS
<1>t. OneThread /\ \E t \in Threads : TRUE
  BY DEF Untenanted, Alone
<1>p. PICK t \in Threads : TRUE
  BY <1>t
<1>c. Cap \in Nat \ {0}
  BY CapAssumption DEF CapAssumption
<1>s. Steady(Cap, Cap - 1)
  BY <1>c DEF Steady
<1>1. Init => AloneInv(t) /\ FullInv(t, Cap, Cap - 1)
  <2>1. Init => FullInv(t, Cap, Cap - 1)
    BY DEF Init, FullInv
  <2> QED BY <1>t, <2>1, AloneInit
<1>2. AloneInv(t) /\ FullInv(t, Cap, Cap - 1) /\ [Next]_vars => AloneInv(t)' /\ FullInv(t, Cap, Cap - 1)'
  BY <1>t, <1>s, AloneNext, FullStep
<1>3. AloneInv(t) /\ FullInv(t, Cap, Cap - 1) /\ [Next]_vars
        => [\A r, q \in Runs :
              /\ status[r] \in {"none", "queued"} /\ status'[r] = "accepted"
              /\ status[q] = "queued" /\ q # r /\ SessionOf[q] = SessionOf[r]
              => status[r] = "queued" /\ created[r] < created[q]]_vars
  <2> SUFFICES ASSUME AloneInv(t), FullInv(t, Cap, Cap - 1), Next, NEW r \in Runs, NEW q \in Runs,
                      status[r] \in {"none", "queued"}, status'[r] = "accepted",
                      status[q] = "queued", q # r, SessionOf[q] = SessionOf[r]
               PROVE  status[r] = "queued" /\ created[r] < created[q]
    OBVIOUS
  <2>t. Typed(t) /\ PathInv(t)
    BY AloneTypes DEF AloneInv
  <2>1. CASE Accept(t)
    <3>1. r = run[t] /\ Fits(r) /\ pc[t] = "accept"
      BY <2>1, <2>t DEF Accept, Typed, recordVars
    <3>2. active[SessionOf[r]] >= Cap
      BY <3>1 DEF FullInv, Looking
    <3>3. active[SessionOf[r]] \in Nat
      BY <2>t, RunConstants DEF Typed
    <3> QED BY <1>c, <3>1, <3>2, <3>3 DEF Fits
  <2>2. CASE DequeueMark(t)
    <3>1. r = cur[t] /\ pc[t] = "dq_mark"
      BY <2>2, <2>t DEF DequeueMark, MarkStatus, Typed
    <3>2. r \in QueuedFor(run[t]) /\ \A p \in QueuedFor(run[t]) : created[r] <= created[p]
      BY <2>t, <3>1 DEF PathInv, LineInv, Promoting
    <3>3. run[t] \in Runs
      BY <2>t, <3>1 DEF Typed
    <3>4. q \in QueuedFor(run[t]) /\ status[r] = "queued"
      BY <3>2, <3>3 DEF QueuedFor, Untenanted
    <3>5. created[r] # created[q] /\ created[r] \in Nat /\ created[q] \in Nat
      BY <2>t, <3>4 DEF PathInv, OrderInv, Typed
    <3> QED BY <3>2, <3>4, <3>5
  <2>3. \/ Accept(t) \/ DequeueMark(t)
    <3>1. Start(t) \/ Continue(t) \/ World
      BY <1>t DEF Next, OneThread
    <3>2. status'[r] # status[r]
      OBVIOUS
    <3>3. CASE Start(t) \/ World
      BY <3>2, <3>3 DEF Start, Submit, Release, MarkFailed, ClientEnds, Sweep, World, Rollover, Heartbeat,
                        BeatLapses, SpendTokens, recordVars
    <3>4. CASE Continue(t)
      <4>1. CASE SaveQueued(t) \/ RollbackMark(t) \/ ReleaseMark(t) \/ FailMark(t) \/ Clobber(t) \/ RestoreMark(t)
        BY <2>t, <3>2, <4>1 DEF SaveQueued, RollbackMark, ReleaseMark, FailMark, Clobber, RestoreMark, MarkStatus, Typed
      <4> QED BY <3>2, <3>4, <4>1
              DEF Continue, ReserveQuotas, CheckSoftQuotas, RollbackSlot, RollbackQuota, Confirm, ListQueued,
                  GetHead, Take, DequeueReserve, DequeueUndo, DequeueSoft, RestoreSlot, RestoreQuota, Dispatch,
                  ReleaseSlot, ReleaseQuota, FailSlot, FailQuota, SweepNext, SweepFails, recordVars
    <3> QED BY <3>1, <3>3, <3>4
  <2> QED BY <2>1, <2>2, <2>3
<1> QED BY <1>1, <1>2, <1>3, PTL DEF Spec, NoOvertaking

=============================================================================
