---------------------------- MODULE Orchestrator ----------------------------
(***************************************************************************)
(* casa/orchestration/facade.py and replan_pipeline of plan_recovery.py:     *)
(* the plans an Orchestrator compiles, has reviewed, executes and replans,   *)
(* and the store it binds to them.  Compiling is one step, with the plan     *)
(* that PlanCompiler computes; execute is one step per wave, with the        *)
(* results that PlanExecution gives.  A stage is the agent it runs, and its  *)
(* artifact has the agent's name.                                            *)
(*                                                                          *)
(* Deployment: an InterruptController, no normalizer, one call at a time.    *)
(***************************************************************************)
EXTENDS Integers, FiniteSets

CONSTANTS
    Agents,
    Needs,        \* Needs[a]: the producers of a's inputs
    Core,         \* core_pipeline_ids
    Routes,       \* what the router may choose: sets of agents, {} without a router
    Policies,     \* the policies it may choose
    MayDeny,      \* whether a POST_COMPILE rule may deny a plan
    MayFail,      \* agents whose stage may fail
    MayBeLow,     \* agents whose result may have a quality_score below 0.7
    UserSignals,  \* the signals the user sends
    MaxSignals,   \* bound: user signals
    MaxPlans      \* bound: plans compiled

ASSUME OrchestratorAssumption ==
    /\ IsFiniteSet(Agents)
    /\ Needs \in [Agents -> SUBSET Agents] /\ Core \subseteq Agents
    /\ Routes \subseteq SUBSET Agents /\ Policies \subseteq {"start", "patch", "preview"}
    /\ MayDeny \in BOOLEAN /\ MayFail \subseteq Agents /\ MayBeLow \subseteq Agents
    /\ UserSignals \subseteq {"pause", "abort", "abort_now"}
    /\ MaxSignals \in Nat /\ MaxPlans \in Nat

VARIABLES
    compiled,         \* plans compiled so far
    pendingPlans,     \* _pending_plans
    approvedPlans,    \* _approved_plans
    rejected,         \* ids of the plans whose plan_type is "rejected"
    currentPlan,      \* _current_plan
    completedAgents,  \* _completed_agent_ids
    bound,            \* the plan whose directory the store is bound to, 0 for none
    dirs,             \* the artifacts in the directory of each plan
    signal,           \* InterruptState.signal; after a wave or a stage, a pause is the same here
    signals,          \* user signals so far
    call,             \* the call under way and the plan it works on
    place,            \* where it is
    left,             \* the stages it has still to run
    pre,              \* those marked pre_completed
    results,          \* stage_results so far
    result            \* what the last call gave its caller

planVars == <<compiled, pendingPlans, approvedPlans, rejected>>
mind     == <<currentPlan, completedAgents>>
store    == <<bound, dirs>>
ctrl     == <<signal, signals>>
exec     == <<call, place, left, pre, results>>
orchVars == <<planVars, mind, store, ctrl, exec, result>>

Plans   == [id : 0..MaxPlans, root : 0..MaxPlans, agents : SUBSET Agents,
            policy : {"start", "patch", "preview"}]
NoPlan  == [id |-> 0, root |-> 0, agents |-> {}, policy |-> "start"]
NoCall  == [op |-> "none", plan |-> NoPlan, warned |-> FALSE]
Nothing == [a \in {} |-> "good"]
Result(how, plan, rs, warned) == [how |-> how, plan |-> plan, results |-> rs, warned |-> warned]

OrchTypeOK ==
    /\ compiled \in 0..MaxPlans
    /\ pendingPlans \subseteq Plans /\ approvedPlans \subseteq Plans
    /\ rejected \subseteq 1..MaxPlans
    /\ currentPlan \in Plans /\ completedAgents \subseteq Agents
    /\ bound \in 0..MaxPlans /\ dirs \in [1..MaxPlans -> SUBSET Agents]
    /\ signal \in {"none", "pause", "abort", "abort_now"}
    /\ signals \in 0..MaxSignals
    /\ call \in [op : {"none", "run", "approved", "replan"}, plan : Plans, warned : BOOLEAN]
    /\ place \in {"idle", "prepared", "head", "wave"}
    /\ left \subseteq Agents /\ pre \subseteq Agents
    /\ DOMAIN results \subseteq Agents
    /\ \A a \in DOMAIN results : results[a] \in {"good", "low"}
    /\ result.how \in {"none", "returned", "raised"}

OrchInit ==
    /\ compiled = 0 /\ pendingPlans = {} /\ approvedPlans = {} /\ rejected = {}
    /\ currentPlan = NoPlan /\ completedAgents = {}
    /\ bound = 0 /\ dirs = [p \in 1..MaxPlans |-> {}]
    /\ signal = "none" /\ signals = 0
    /\ call = NoCall /\ place = "idle" /\ left = {} /\ pre = {} /\ results = Nothing
    /\ result = Result("none", NoPlan, Nothing, FALSE)

-----------------------------------------------------------------------------
(* Compiling                                                                 *)

Closed(P)  == \A a \in P : Needs[a] \subseteq P
Closure(P) == {a \in Agents : \A Q \in SUBSET Agents : P \subseteq Q /\ Closed(Q) => a \in Q}

\* a plan without predecessor is the root of its own revision history
Compile(seed, policy) ==
    [id |-> compiled + 1, root |-> compiled + 1, policy |-> policy,
     agents |-> Closure(seed \cup IF policy = "start" THEN Core ELSE {})]

MayCompile == compiled < MaxPlans /\ compiled' = compiled + 1

\* the artifacts the store shows: none before it is bound
Artifacts == IF bound = 0 THEN {} ELSE dirs[bound]

-----------------------------------------------------------------------------
(* Orchestrator.run, run_approved_plan, replan: up to PlanExecutor.execute   *)

Idle    == place' = "idle" /\ call' = NoCall /\ left' = {} /\ pre' = {} /\ results' = Nothing
Give(r) == result' = r /\ Idle

\* faulty: an initialised store stays where it is
PrepareOnce(plan) == bound' = (IF bound = 0 THEN plan.id ELSE bound)

\* _prepare_store_for_plan: a new plan without predecessor has a directory of its own
Prepare(plan) == bound' = plan.id

Execute(plan, marked) ==
    /\ currentPlan' = plan
    /\ left' = plan.agents /\ pre' = marked /\ results' = Nothing
    /\ place' = "head"

\* compiled, and put aside for its user to review
RunForReview(seed, policy) ==
    /\ place = "idle" /\ MayCompile
    /\ LET plan == Compile(seed, policy)
       IN  /\ pendingPlans' = pendingPlans \cup {plan}
           /\ Give(Result("returned", plan, Nothing, FALSE))
    /\ UNCHANGED <<approvedPlans, rejected, mind, store, ctrl>>

\* a POST_COMPILE rule denies the plan: it is returned with a warning
RunDenied(seed, policy) ==
    /\ place = "idle" /\ MayDeny /\ MayCompile
    /\ Give(Result("returned", Compile(seed, policy), Nothing, TRUE))
    /\ UNCHANGED <<pendingPlans, approvedPlans, rejected, mind, store, ctrl>>

\* the store is prepared, then the execute_start hooks are awaited
Run(seed, policy) ==
    /\ place = "idle" /\ MayCompile
    /\ LET plan == Compile(seed, policy)
       IN  Prepare(plan) /\ call' = [op |-> "run", plan |-> plan, warned |-> FALSE]
    /\ place' = "prepared"
    /\ UNCHANGED <<pendingPlans, approvedPlans, rejected, mind, dirs, ctrl, left, pre, results,
                   result>>

ExecuteStart ==
    /\ place = "prepared"
    /\ Execute(call.plan, {})
    /\ UNCHANGED <<planVars, completedAgents, store, ctrl, call, result>>

RunApproved(plan) ==
    /\ place = "idle" /\ plan \in approvedPlans
    /\ Prepare(plan)
    /\ call' = [op |-> "approved", plan |-> plan, warned |-> FALSE]
    /\ Execute(plan, {})
    /\ UNCHANGED <<planVars, completedAgents, dirs, ctrl, result>>

\* _detect_conflict: less than 70 % of the current plan is in the new one
Conflict(plan) ==
    10 * Cardinality(currentPlan.agents \cap plan.agents)
        < 7 * (IF currentPlan.agents = {} THEN 1 ELSE Cardinality(currentPlan.agents))

Reseed(wish, route) == completedAgents \cup Artifacts \cup wish \cup route

Revise(wish, route) ==
    [Compile(Reseed(wish, route), currentPlan.policy) EXCEPT
        !.root = IF currentPlan = NoPlan THEN @ ELSE currentPlan.root]

\* faulty: the artifacts of earlier rounds are made again
MarkNothing(plan) == {}

Marked(plan) == plan.agents \cap Artifacts

\* Too different from the current plan: nothing is executed, and what runs is told to stop.
\* Any revision carries a warning.
ReplanConflict(wish, route) ==
    /\ place = "idle" /\ currentPlan # NoPlan /\ MayCompile
    /\ LET plan == Revise(wish, route)
       IN  /\ Conflict(plan)
           /\ Give(Result("returned", plan, Nothing, TRUE))
    /\ signal' = "abort"
    /\ UNCHANGED <<pendingPlans, approvedPlans, rejected, mind, store, signals>>

Replan(wish, route) ==
    /\ place = "idle" /\ MayCompile
    /\ LET plan == Revise(wish, route)
       IN  /\ currentPlan = NoPlan \/ ~Conflict(plan)
           /\ call' = [op |-> "replan", plan |-> plan, warned |-> currentPlan # NoPlan]
           /\ Execute(plan, Marked(plan))
    /\ UNCHANGED <<pendingPlans, approvedPlans, rejected, completedAgents, store, ctrl, result>>

-----------------------------------------------------------------------------
(* PlanExecutor.execute, wave by wave, and what its callers do after it      *)

Ready == {a \in left : Needs[a] \cap left = {}}

\* a stage is skipped when its artifact is there and the plan or its policy says so
Skipped == {a \in Ready : a \in Artifacts /\ (a \in pre \/ call.plan.policy = "patch")}
Called  == Ready \ Skipped

Complete(rs) == completedAgents' = DOMAIN rs

\* execute has returned: all its results are successes
Return(rs) ==
    /\ Complete(rs)
    /\ approvedPlans' = IF call.op = "approved" THEN approvedPlans \ {call.plan}
                                                ELSE approvedPlans
    /\ Give(Result("returned", call.plan, rs, call.warned))

\* execute has raised: an approved plan stays approved, completedAgents what it was
Raise ==
    /\ Give(Result("raised", call.plan, Nothing, FALSE))
    /\ UNCHANGED <<approvedPlans, completedAgents>>

Head ==
    /\ place = "head"
    /\ \/ left = {} /\ Return(results)
       \/ left # {} /\ signal = "abort_now" /\ Raise
       \/ /\ left # {} /\ signal \in {"none", "abort"}
          /\ place' = "wave"
          /\ UNCHANGED <<approvedPlans, completedAgents, call, left, pre, results, result>>
    /\ UNCHANGED <<compiled, pendingPlans, rejected, currentPlan, store, ctrl>>

Store(S) == dirs' = [dirs EXCEPT ![bound] = @ \cup S]

\* the wave succeeds; a graceful abort is looked at only now
FinishWave ==
    /\ place = "wave" /\ bound # 0
    /\ Store(Called)
    /\ \E low \in SUBSET (Called \cap MayBeLow) :
          LET rs == [a \in DOMAIN results \cup Ready |->
                       IF a \in DOMAIN results THEN results[a]
                       ELSE IF a \in low THEN "low" ELSE "good"]
          IN  \/ signal = "abort" /\ Return(rs)
              \/ /\ signal # "abort"
                 /\ results' = rs /\ left' = left \ Ready /\ place' = "head"
                 /\ UNCHANGED <<approvedPlans, completedAgents, call, pre, result>>
    /\ UNCHANGED <<compiled, pendingPlans, rejected, currentPlan, bound, ctrl>>

\* a stage of the wave fails; some of its peers have written their artifacts
FailWave ==
    /\ place = "wave" /\ bound # 0
    /\ \E a \in Called \cap MayFail : \E written \in SUBSET (Called \ {a}) : Store(written)
    /\ Raise
    /\ UNCHANGED <<compiled, pendingPlans, rejected, currentPlan, bound, ctrl>>

\* the caller's wait_for gives up
Cancel ==
    /\ place # "idle"
    /\ Idle
    /\ UNCHANGED <<planVars, mind, store, ctrl, result>>

-----------------------------------------------------------------------------
(* The user, between the steps of a call                                     *)

\* faulty: the plan stays in the list of those to review
ApproveKeeping(plan) ==
    /\ plan \in pendingPlans
    /\ approvedPlans' = approvedPlans \cup {plan}
    /\ UNCHANGED <<compiled, pendingPlans, rejected, mind, store, ctrl, exec, result>>

ApprovePlan(plan) ==
    /\ plan \in pendingPlans
    /\ pendingPlans' = pendingPlans \ {plan}
    /\ approvedPlans' = approvedPlans \cup {plan}
    /\ UNCHANGED <<compiled, rejected, mind, store, ctrl, exec, result>>

RejectPlan(plan) ==
    /\ plan \in pendingPlans
    /\ pendingPlans' = pendingPlans \ {plan}
    /\ rejected' = rejected \cup {plan.id}
    /\ UNCHANGED <<compiled, approvedPlans, mind, store, ctrl, exec, result>>

\* pause, abort; each replaces what was there
Signal(sig) ==
    /\ signals < MaxSignals /\ signals' = signals + 1
    /\ signal' = sig
    /\ UNCHANGED <<planVars, mind, store, exec, result>>

\* resume, and respond_to, which resumes: either clears any signal
Resume ==
    /\ signal # "none"
    /\ signal' = "none"
    /\ UNCHANGED <<planVars, mind, store, signals, exec, result>>

UserStep ==
    \/ \E plan \in pendingPlans : ApprovePlan(plan) \/ RejectPlan(plan)
    \/ \E sig \in UserSignals : Signal(sig)
    \/ Resume

\* run, run_from_intent and run_approved_plan; only the loop replans
UserCall ==
    \/ \E seed \in Routes, policy \in Policies :
          RunForReview(seed, policy) \/ RunDenied(seed, policy) \/ Run(seed, policy)
    \/ \E plan \in approvedPlans : RunApproved(plan)

CallStep == ExecuteStart \/ Head \/ FinishWave \/ FailWave

-----------------------------------------------------------------------------
\* A plan its user rejected is never executed, nor one that still waits for its
\* review (facade.py:143 approve_plan, 202 reject_plan).
RejectedNeverRuns ==
    place # "idle" => call.plan.id \notin rejected \cup {p.id : p \in pendingPlans}
=============================================================================
