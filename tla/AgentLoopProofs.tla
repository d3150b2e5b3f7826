--------------------------- MODULE AgentLoopProofs ---------------------------
(***************************************************************************)
(* Theorems about AgentLoop over its Orchestrator, for every set of agents,  *)
(* every router and verifier, and any number of rounds, plans and signals.   *)
(***************************************************************************)
EXTENDS AgentLoop, TLAPS

RequestOK == request \in [seed : SUBSET Agents, policy : {"start", "patch", "preview"}]

\* every plan that was put aside is in one list, under an id of its own
PlansInv ==
    /\ \A p \in pendingPlans \cup approvedPlans :
          p.id >= 1 /\ p.id <= compiled /\ p.id \notin rejected
    /\ \A p, q \in pendingPlans \cup approvedPlans : p.id = q.id => p = q
    /\ pendingPlans \cap approvedPlans = {}
    /\ \A n \in rejected : n <= compiled
    /\ place # "idle" =>
          /\ call.plan.id >= 1 /\ call.plan.id <= compiled /\ call.plan.id \notin rejected
          /\ \A p \in pendingPlans : p.id # call.plan.id

\* a call of the orchestrator is under way only where the loop waits for it
PlaceInv ==
    /\ phase \notin {"none", "wait"} => place = "idle"
    /\ phase = "none" => ~prior
    /\ prior \/ phase \in {"review", "execute", "wait"} => iteration >= 1
    /\ prior /\ phase \in {"review", "execute"} => iteration > 1
    /\ stop # "none" => phase = "over"

\* what the loop builds on is in the directory the store is bound to
BindingInv ==
    /\ InLoop /\ place = "prepared" => bound = call.plan.root /\ ~prior
    /\ InLoop /\ place \in {"head", "wave"} =>
          currentPlan = call.plan /\ bound = call.plan.root /\ currentPlan # NoPlan
    /\ InLoop /\ place = "idle" /\ (prior \/ (phase = "wait" /\ Successes(result) # {})) =>
          currentPlan # NoPlan /\ bound = currentPlan.root

\* what a replan finds done is marked, and what is left has no artifact but a marked one
WorkInv ==
    /\ place = "prepared" => call.op = "run"
    /\ place \in {"head", "wave"} /\ call.op = "replan" =>
          /\ Artifacts \subseteq call.plan.agents /\ left \subseteq call.plan.agents
          /\ left \cap Artifacts \subseteq pre

\* an abort that nobody sent comes from a conflict, and its result carries a warning
ConflictInv ==
    InLoop /\ ~aborted /\ signal \in {"abort", "abort_now"} =>
        \/ phase = "top"
        \/ place = "idle" /\ result.warned /\ phase \in {"wait", "verify", "reverify"}

\* without an abort, an unwarned result has all stages of its plan
ResultInv ==
    /\ place \in {"head", "wave"} => call.plan.agents \subseteq DOMAIN results \cup left
    /\ phase \in {"verify", "reverify"} => result.how = "returned"
    /\ /\ place = "idle" /\ phase \in {"wait", "verify", "reverify"} /\ ~aborted
       /\ result.how = "returned" /\ ~result.warned
       => result.plan.agents \subseteq DOMAIN result.results

LoopInv ==
    /\ TypeOK /\ RequestOK /\ PlansInv /\ PlaceInv /\ BindingInv /\ WorkInv
    /\ ConflictInv /\ ResultInv /\ SuccessIsEarned

-----------------------------------------------------------------------------
(* Types.                                                                   *)

LEMMA CompileType ==
  ASSUME TypeOK, MayCompile, NEW seed, NEW policy \in {"start", "patch", "preview"}
  PROVE  /\ Compile(seed, policy) \in Plans
         /\ Compile(seed, policy).id = compiled + 1
         /\ Compile(seed, policy).root = compiled + 1
         /\ Compile(seed, policy).id \in 1..MaxPlans
         /\ compiled' = compiled + 1 /\ compiled' \in 0..MaxPlans
  BY OrchestratorAssumption
     DEF OrchestratorAssumption, TypeOK, OrchTypeOK, MayCompile, Compile, Plans, Closure

LEMMA ReviseType ==
  ASSUME TypeOK, MayCompile, NEW wish_, NEW route
  PROVE  /\ Revise(wish_, route) \in Plans
         /\ Revise(wish_, route).id = compiled + 1
         /\ Revise(wish_, route).id \in 1..MaxPlans
         /\ Revise(wish_, route).root =
               IF currentPlan = NoPlan THEN compiled + 1 ELSE currentPlan.root
         /\ Revise(wish_, route).agents = Compile(Reseed(wish_, route), currentPlan.policy).agents
         /\ compiled' = compiled + 1 /\ compiled' \in 0..MaxPlans
<1>1. currentPlan \in Plans
  BY DEF TypeOK, OrchTypeOK
<1>2. currentPlan.policy \in {"start", "patch", "preview"} /\ currentPlan.root \in 0..MaxPlans
  BY <1>1 DEF Plans
<1> DEFINE c == Compile(Reseed(wish_, route), currentPlan.policy)
<1>3. c \in Plans /\ c.id = compiled + 1 /\ c.root = compiled + 1 /\ c.id \in 1..MaxPlans
      /\ compiled' = compiled + 1 /\ compiled' \in 0..MaxPlans
  BY <1>2, CompileType
<1> HIDE DEF c
<1> QED BY <1>2, <1>3 DEF Revise, Plans, c

LEMMA WaveType ==
  ASSUME TypeOK
  PROVE  Ready \subseteq left /\ Called \subseteq Ready /\ Called \subseteq Agents
  BY DEF TypeOK, OrchTypeOK, Ready, Called, Skipped

\* what a plan starts from is in it
LEMMA SeedIsKept ==
  ASSUME NEW seed, NEW policy
  PROVE  seed \cap Agents \subseteq Compile(seed, policy).agents
  BY DEF Compile, Closure

LEMMA NoCallType ==
  /\ NoPlan \in Plans
  /\ NoCall \in [op : {"none", "run", "approved", "replan"}, plan : Plans, warned : BOOLEAN]
  /\ DOMAIN Nothing = {}
<1>1. NoPlan \in Plans
  BY OrchestratorAssumption DEF OrchestratorAssumption, NoPlan, Plans
<1> QED BY <1>1 DEF NoCall, Nothing

\* when a call ends nothing is left of it
LEMMA IdleType ==
  ASSUME Idle
  PROVE  /\ place' = "idle" /\ left' = {} /\ pre' = {} /\ DOMAIN results' = {}
         /\ call' \in [op : {"none", "run", "approved", "replan"}, plan : Plans, warned : BOOLEAN]
  BY NoCallType DEF Idle

LEMMA GiveType ==
  ASSUME NEW how, NEW plan, NEW rs, NEW warned, Give(Result(how, plan, rs, warned))
  PROVE  /\ Idle /\ result'.how = how /\ result'.plan = plan /\ result'.results = rs
         /\ result'.warned = warned
  BY DEF Give, Result

LEMMA TypeInit == Init => TypeOK /\ RequestOK
<1> SUFFICES ASSUME Init PROVE TypeOK /\ RequestOK
  OBVIOUS
<1>1. OrchInit /\ mode \in [verifier : Verifiers, double : DoublePass] /\ phase = "none"
      /\ iteration = 0 /\ request = [seed |-> {}, policy |-> "start"] /\ prior = FALSE
      /\ wish = {} /\ stop = "none"
  BY DEF Init
<1>2. compiled \in 0..MaxPlans /\ bound \in 0..MaxPlans /\ signals \in 0..MaxSignals
      /\ dirs \in [1..MaxPlans -> SUBSET Agents]
  BY <1>1, OrchestratorAssumption DEF OrchInit, OrchestratorAssumption
<1>3. result.how = "none"
  BY <1>1 DEF OrchInit, Result
<1>4. /\ results = Nothing /\ call = NoCall /\ currentPlan = NoPlan /\ place = "idle"
      /\ signal = "none" /\ left = {} /\ pre = {} /\ pendingPlans = {} /\ approvedPlans = {}
      /\ rejected = {} /\ completedAgents = {}
  BY <1>1 DEF OrchInit
<1>5. OrchTypeOK
  BY <1>2, <1>3, <1>4, NoCallType DEF OrchTypeOK
<1>6. TypeOK
  <2>1. iteration \in 0..MaxIterations
    BY <1>1, LoopAssumption DEF LoopAssumption
  <2>2. prior \in BOOLEAN
    BY <1>1, Zenon
  <2> QED BY <1>1, <1>5, <2>1, <2>2 DEF TypeOK
<1>7. RequestOK
  BY <1>1 DEF RequestOK
<1> QED BY <1>6, <1>7

\* the variables the loop itself changes between calls
LEMMA LoopTypeStep ==
  ASSUME TypeOK, RequestOK,
         Start \/ TopEnd \/ Plan \/ Review \/ ExecuteLate \/ Answer \/ Verify \/ Reverify
  PROVE  TypeOK' /\ RequestOK'
<1> USE OrchestratorAssumption, LoopAssumption
    DEF OrchestratorAssumption, LoopAssumption, orchVars, planVars, mind, store, ctrl, exec,
        TypeOK, OrchTypeOK, RequestOK, End
<1>1. CASE Start
  BY <1>1 DEF Start, NoResult, Result
<1>2. CASE TopEnd
  BY <1>2 DEF TopEnd
<1>3. CASE Plan
  <2>1. request' \in [seed : Routes, policy : Policies]
    BY <1>3 DEF Plan, Planned
  <2>2. request' \in [seed : SUBSET Agents, policy : {"start", "patch", "preview"}]
    BY <2>1
  <2> QED BY <1>3, <2>2 DEF Plan
<1>4. CASE Review
  BY <1>4 DEF Review
<1>5. CASE ExecuteLate
  BY <1>5 DEF ExecuteLate
<1>6. CASE Answer
  <2>1. UNCHANGED <<orchVars, mode, iteration, request>>
    BY <1>6 DEF Answer
  <2>2. /\ phase' \in {"over", "verify"} /\ wish' \subseteq Agents
        /\ stop' \in {stop, "raised"}
    BY <1>6 DEF Answer
  <2>3. prior' = prior \/ prior' = (prior \/ Successes(result) # {})
    BY <1>6 DEF Answer
  <2>4. prior' \in BOOLEAN
    <3>1. prior \in BOOLEAN
      BY DEF TypeOK
    <3> QED BY <2>3, <3>1, Zenon
  <2> QED BY <2>1, <2>2, <2>4
<1>7. CASE Verify \/ Reverify
  <2>1. UNCHANGED <<orchVars, mode, iteration, request, prior>>
    BY <1>7 DEF Verify, Reverify
  <2>2. \/ Iterate \/ Accept
        \/ phase' = "reverify" /\ UNCHANGED <<wish, stop, kept>>
    BY <1>7 DEF Verify, Reverify
  <2>3. phase' \in {"top", "reverify", "over"} /\ stop' \in {stop, "verified"}
        /\ wish' \subseteq Agents
    BY <2>2 DEF Iterate, Accept
  <2> QED BY <2>1, <2>3
<1> QED BY <1>1, <1>2, <1>3, <1>4, <1>5, <1>6, <1>7

\* a call of the orchestrator, from its start to its end
LEMMA CallTypeStep ==
  ASSUME OrchTypeOK, TypeOK, CallStep \/ Cancel
  PROVE  OrchTypeOK'
<1> USE DEF planVars, mind, store, ctrl, OrchTypeOK, Idle, Give, Result, NoCall, NoPlan, Plans,
            Nothing
<1>1. CASE ExecuteStart
  BY <1>1 DEF ExecuteStart, Execute
<1>2. CASE Head
  <2>1. UNCHANGED <<compiled, pendingPlans, rejected, currentPlan, store, ctrl>>
    BY <1>2 DEF Head
  <2>2. CASE Return(results)
    <3>1. completedAgents' \subseteq Agents /\ approvedPlans' \subseteq Plans
      BY <2>2 DEF Return, Complete
    <3>2. Idle /\ result'.how = "returned"
      BY <2>2, GiveType DEF Return
    <3> HIDE DEF Idle
    <3> QED BY <2>1, <3>1, <3>2, IdleType
  <2>3. CASE Raise
    <3>1. UNCHANGED <<approvedPlans, completedAgents>>
      BY <2>3 DEF Raise
    <3>2. Idle /\ result'.how = "raised"
      BY <2>3, GiveType DEF Raise
    <3> HIDE DEF Idle
    <3> QED BY <2>1, <3>1, <3>2, IdleType
  <2>4. CASE place' = "wave"
             /\ UNCHANGED <<approvedPlans, completedAgents, call, left, pre, results, result>>
    BY <2>1, <2>4
  <2> QED BY <1>2, <2>2, <2>3, <2>4 DEF Head
<1>3. CASE FinishWave
  <2>1. Ready \subseteq Agents /\ Called \subseteq Agents
    BY WaveType
  <2>2. dirs' \in [1..MaxPlans -> SUBSET Agents]
    BY <1>3, <2>1 DEF FinishWave, Store
  <2>3. PICK low \in SUBSET (Called \cap MayBeLow) :
          LET rs == [a \in DOMAIN results \cup Ready |->
                       IF a \in DOMAIN results THEN results[a]
                       ELSE IF a \in low THEN "low" ELSE "good"]
          IN  \/ signal = "abort" /\ Return(rs)
              \/ /\ signal # "abort"
                 /\ results' = rs /\ left' = left \ Ready /\ place' = "head"
                 /\ UNCHANGED <<approvedPlans, completedAgents, call, pre, result>>
    BY <1>3 DEF FinishWave
  <2> DEFINE rs == [a \in DOMAIN results \cup Ready |->
                       IF a \in DOMAIN results THEN results[a]
                       ELSE IF a \in low THEN "low" ELSE "good"]
  <2>4. DOMAIN rs \subseteq Agents /\ \A a \in DOMAIN rs : rs[a] \in {"good", "low"}
    BY <2>1
  <2>5. \/ signal = "abort" /\ Return(rs)
        \/ /\ signal # "abort"
           /\ results' = rs /\ left' = left \ Ready /\ place' = "head"
           /\ UNCHANGED <<approvedPlans, completedAgents, call, pre, result>>
    BY <2>3
  <2> HIDE DEF rs
  <2>6. UNCHANGED <<compiled, pendingPlans, rejected, currentPlan, bound, ctrl>>
    BY <1>3 DEF FinishWave
  <2>7. CASE signal = "abort" /\ Return(rs)
    <3>1. completedAgents' \subseteq Agents /\ approvedPlans' \subseteq Plans
      BY <2>4, <2>7 DEF Return, Complete
    <3>2. Idle /\ result'.how = "returned"
      BY <2>7, GiveType DEF Return
    <3> HIDE DEF Idle
    <3> QED BY <2>2, <2>6, <3>1, <3>2, IdleType
  <2>8. CASE signal # "abort" /\ results' = rs /\ left' = left \ Ready /\ place' = "head"
             /\ UNCHANGED <<approvedPlans, completedAgents, call, pre, result>>
    BY <2>2, <2>4, <2>6, <2>8
  <2> QED BY <2>5, <2>7, <2>8
<1>4. CASE FailWave
  <2>1. Called \subseteq Agents
    BY WaveType
  <2>2. dirs' \in [1..MaxPlans -> SUBSET Agents]
    BY <1>4, <2>1 DEF FailWave, Store
  <2>3. UNCHANGED <<compiled, pendingPlans, rejected, currentPlan, bound, ctrl>> /\ Raise
    BY <1>4 DEF FailWave
  <2>4. UNCHANGED <<approvedPlans, completedAgents>> /\ Idle /\ result'.how = "raised"
    BY <2>3, GiveType DEF Raise
  <2> HIDE DEF Idle
  <2> QED BY <2>2, <2>3, <2>4, IdleType
<1>5. CASE Cancel
  <2>1. Idle /\ UNCHANGED <<planVars, mind, store, ctrl, result>>
    BY <1>5 DEF Cancel
  <2> HIDE DEF Idle
  <2> QED BY <2>1, IdleType
<1> QED BY <1>1, <1>2, <1>3, <1>4, <1>5 DEF CallStep

\* the calls of the orchestrator that the loop and its user make
LEMMA RunTypeStep ==
  ASSUME TypeOK, NEW seed, NEW policy \in {"start", "patch", "preview"},
         RunForReview(seed, policy) \/ RunDenied(seed, policy) \/ Run(seed, policy)
  PROVE  OrchTypeOK'
<1>1. MayCompile
  BY DEF RunForReview, RunDenied, Run
<1>2. /\ Compile(seed, policy) \in Plans /\ Compile(seed, policy).id \in 1..MaxPlans
      /\ compiled' \in 0..MaxPlans
  BY <1>1, CompileType
<1> USE DEF planVars, mind, store, ctrl, TypeOK, OrchTypeOK, Idle, Give, Result, NoCall, NoPlan,
            Nothing
<1>3. NoPlan \in Plans
  BY OrchestratorAssumption DEF Plans, OrchestratorAssumption
<1>4. CASE RunForReview(seed, policy)
  BY <1>2, <1>3, <1>4 DEF RunForReview
<1>5. CASE RunDenied(seed, policy)
  BY <1>2, <1>3, <1>5 DEF RunDenied
<1>6. CASE Run(seed, policy)
  BY <1>2, <1>6 DEF Run, Prepare
<1> QED BY <1>4, <1>5, <1>6

LEMMA OtherCallTypeStep ==
  ASSUME TypeOK, PlansInv,
         \/ \E plan \in approvedPlans : RunApproved(plan)
         \/ \E wish_, route : ReplanConflict(wish_, route) \/ Replan(wish_, route)
         \/ UserStep
  PROVE  OrchTypeOK'
<1> USE DEF planVars, mind, store, ctrl, exec, TypeOK, OrchTypeOK, Idle, Give, Result, NoCall,
            Nothing
<1>1. CASE \E plan \in approvedPlans : RunApproved(plan)
  BY <1>1 DEF RunApproved, Prepare, Execute, Plans
<1>2. ASSUME NEW wish_, NEW route, ReplanConflict(wish_, route) \/ Replan(wish_, route)
      PROVE  OrchTypeOK'
  <2>1. MayCompile
    BY <1>2 DEF ReplanConflict, Replan
  <2>2. /\ Revise(wish_, route) \in Plans /\ compiled' \in 0..MaxPlans
        /\ Revise(wish_, route).agents \subseteq Agents
    BY <2>1, ReviseType DEF Plans
  <2>3. NoPlan \in Plans
    BY OrchestratorAssumption DEF Plans, NoPlan, OrchestratorAssumption
  <2>4. CASE ReplanConflict(wish_, route)
    BY <2>2, <2>3, <2>4 DEF ReplanConflict
  <2>5. CASE Replan(wish_, route)
    BY <2>2, <2>5 DEF Replan, Execute, Marked
  <2> QED BY <1>2, <2>4, <2>5
<1>3. CASE UserStep
  <2>1. ASSUME NEW plan \in pendingPlans, ApprovePlan(plan)
        PROVE  OrchTypeOK'
    BY <2>1 DEF ApprovePlan
  <2>2. ASSUME NEW plan \in pendingPlans, RejectPlan(plan)
        PROVE  OrchTypeOK'
    <3>1. plan.id \in 1..MaxPlans
      BY OrchestratorAssumption DEF PlansInv, Plans, OrchestratorAssumption
    <3> QED BY <2>2, <3>1 DEF RejectPlan
  <2>3. ASSUME NEW sig \in UserSignals, Signal(sig)
        PROVE  OrchTypeOK'
    BY <2>3, OrchestratorAssumption DEF Signal, OrchestratorAssumption
  <2>4. CASE Resume
    BY <2>4 DEF Resume
  <2> QED BY <1>3, <2>1, <2>2, <2>3, <2>4 DEF UserStep
<1> QED BY <1>1, <1>2, <1>3

LEMMA TypeStep ==
  ASSUME TypeOK, RequestOK, PlansInv, [Next]_vars
  PROVE  TypeOK' /\ RequestOK'
<1>1. ASSUME OrchTypeOK', UNCHANGED <<mode, phase, iteration, request, prior, wish, stop>>
      PROVE  TypeOK' /\ RequestOK'
  BY <1>1 DEF TypeOK, RequestOK
<1>2. CASE UNCHANGED vars
  BY <1>2 DEF vars, orchVars, loopVars, planVars, mind, store, ctrl, exec, TypeOK, OrchTypeOK,
              RequestOK
<1>3. CASE Start \/ TopEnd \/ Plan \/ Review \/ ExecuteLate \/ Answer \/ Verify \/ Reverify
  BY <1>3, LoopTypeStep
<1>4. CASE ExecuteRound
  <2>1. OrchTypeOK'
    <3>1. CASE \E route \in Routes : ReplanConflict(wish, route) \/ Replan(wish, route)
      BY <3>1, OtherCallTypeStep
    <3>2. CASE RunDenied(request.seed, request.policy) \/ Run(request.seed, request.policy)
      BY <3>2, RunTypeStep DEF RequestOK
    <3> QED BY <1>4, <3>1, <3>2 DEF ExecuteRound
  <2> QED BY <1>4, <2>1 DEF ExecuteRound, TypeOK, RequestOK
<1>5. CASE WaitTimeout
  <2>1. OrchTypeOK'
    BY <1>5, CallTypeStep DEF WaitTimeout, TypeOK
  <2> QED BY <1>5, <2>1 DEF WaitTimeout, End, TypeOK, RequestOK
<1>6. CASE CallStep /\ UNCHANGED loopVars
  <2>1. OrchTypeOK'
    BY <1>6, CallTypeStep DEF TypeOK
  <2> QED BY <1>1, <1>6, <2>1 DEF loopVars
<1>7. CASE phase # "over" /\ UserStep
           /\ UNCHANGED <<mode, phase, iteration, request, prior, wish, stop, kept>>
  BY <1>1, <1>7, OtherCallTypeStep
<1>8. CASE phase = "none" /\ UserCall /\ UNCHANGED loopVars
  <2>1. OrchTypeOK'
    <3>1. CASE \E seed \in Routes, policy \in Policies :
                 RunForReview(seed, policy) \/ RunDenied(seed, policy) \/ Run(seed, policy)
      BY <3>1, RunTypeStep, OrchestratorAssumption DEF OrchestratorAssumption
    <3>2. CASE \E plan \in approvedPlans : RunApproved(plan)
      BY <3>2, OtherCallTypeStep
    <3> QED BY <1>8, <3>1, <3>2 DEF UserCall
  <2> QED BY <1>1, <1>8, <2>1 DEF loopVars
<1> QED BY <1>2, <1>3, <1>4, <1>5, <1>6, <1>7, <1>8 DEF Next, LoopStep

-----------------------------------------------------------------------------
(* The lists of plans.                                                      *)

\* what the loop does between the calls leaves the orchestrator alone, but for its result
LEMMA LoopFrame ==
  ASSUME Start \/ TopEnd \/ Plan \/ Review \/ ExecuteLate \/ Answer \/ Verify \/ Reverify
  PROVE  /\ UNCHANGED <<planVars, mind, store, ctrl, exec>>
         /\ ~Start => UNCHANGED result
  BY DEF Start, TopEnd, Plan, Review, ExecuteLate, Answer, Verify, Reverify, orchVars

LEMMA PlansKept ==
  ASSUME PlansInv, UNCHANGED planVars, place' = "idle" \/ UNCHANGED <<place, call>>
  PROVE  PlansInv'
  BY DEF PlansInv, planVars

LEMMA PlansReturn ==
  ASSUME PlansInv, NEW rs, Return(rs), UNCHANGED <<compiled, pendingPlans, rejected>>
  PROVE  PlansInv'
<1>1. approvedPlans' \subseteq approvedPlans
  BY DEF Return
<1>2. place' = "idle"
  BY GiveType, IdleType DEF Return
<1> QED BY <1>1, <1>2 DEF PlansInv

\* a new plan has an id no other plan has or had
LEMMA NewPlan ==
  ASSUME TypeOK, PlansInv, NEW plan, plan.id = compiled + 1, compiled' = compiled + 1,
         UNCHANGED <<approvedPlans, rejected>>,
         \/ pendingPlans' = pendingPlans \cup {plan} /\ place' = "idle"
         \/ UNCHANGED pendingPlans /\ (place' = "idle" \/ call'.plan = plan)
  PROVE  PlansInv'
<1>1. compiled \in Nat /\ \A n \in rejected : n \in Nat
  BY OrchestratorAssumption DEF TypeOK, OrchTypeOK, OrchestratorAssumption
<1>2. \A p \in pendingPlans \cup approvedPlans : p.id \in Nat
  BY OrchestratorAssumption DEF TypeOK, OrchTypeOK, OrchestratorAssumption, Plans
<1> QED BY <1>1, <1>2 DEF PlansInv

LEMMA PlansStep ==
  ASSUME TypeOK, RequestOK, PlansInv, [Next]_vars
  PROVE  PlansInv'
<1>1. CASE UNCHANGED vars
  BY <1>1, PlansKept DEF vars, orchVars, planVars, exec
<1>2. CASE Start \/ TopEnd \/ Plan \/ Review \/ ExecuteLate \/ Answer \/ Verify \/ Reverify
  BY <1>2, LoopFrame, PlansKept DEF exec
<1>3. ASSUME NEW seed, NEW policy \in {"start", "patch", "preview"},
             RunForReview(seed, policy) \/ RunDenied(seed, policy) \/ Run(seed, policy)
      PROVE  PlansInv'
  <2>1. Compile(seed, policy).id = compiled + 1 /\ compiled' = compiled + 1
    BY <1>3, CompileType DEF RunForReview, RunDenied, Run
  <2>2. CASE RunForReview(seed, policy)
    <3>1. place' = "idle"
      BY <2>2, GiveType, IdleType DEF RunForReview
    <3> QED BY <2>1, <2>2, <3>1, NewPlan DEF RunForReview
  <2>3. CASE RunDenied(seed, policy)
    <3>1. place' = "idle"
      BY <2>3, GiveType, IdleType DEF RunDenied
    <3> QED BY <2>1, <2>3, <3>1, NewPlan DEF RunDenied
  <2>4. CASE Run(seed, policy)
    BY <2>1, <2>4, NewPlan DEF Run
  <2> QED BY <1>3, <2>2, <2>3, <2>4
<1>4. ASSUME NEW route, ReplanConflict(wish, route) \/ Replan(wish, route)
      PROVE  PlansInv'
  <2>1. Revise(wish, route).id = compiled + 1 /\ compiled' = compiled + 1
    BY <1>4, ReviseType DEF ReplanConflict, Replan
  <2>2. CASE ReplanConflict(wish, route)
    <3>1. place' = "idle"
      BY <2>2, GiveType, IdleType DEF ReplanConflict
    <3> QED BY <2>1, <2>2, <3>1, NewPlan DEF ReplanConflict
  <2>3. CASE Replan(wish, route)
    BY <2>1, <2>3, NewPlan DEF Replan
  <2> QED BY <1>4, <2>2, <2>3
<1>5. CASE ExecuteRound
  BY <1>3, <1>4, <1>5 DEF ExecuteRound, RequestOK
<1>6. CASE Cancel
  BY <1>6, IdleType, PlansKept DEF Cancel
<1>7. CASE CallStep
  <2>1. CASE ExecuteStart
    BY <2>1 DEF ExecuteStart, planVars, PlansInv, Execute
  <2>2. CASE Raise /\ UNCHANGED <<compiled, pendingPlans, rejected>>
    BY <2>2, GiveType, IdleType, PlansKept DEF Raise, planVars
  <2>3. CASE \E rs : Return(rs) /\ UNCHANGED <<compiled, pendingPlans, rejected>>
    BY <2>3, PlansReturn
  <2>4. CASE UNCHANGED <<compiled, pendingPlans, rejected, approvedPlans, call>> /\ place # "idle"
    BY <2>4 DEF PlansInv
  <2>5. CASE Head
    BY <2>2, <2>3, <2>4, <2>5 DEF Head
  <2>6. CASE FinishWave
    BY <2>3, <2>4, <2>6 DEF FinishWave
  <2>7. CASE FailWave
    BY <2>2, <2>7 DEF FailWave
  <2> QED BY <1>7, <2>1, <2>5, <2>6, <2>7 DEF CallStep
<1>8. CASE UserStep
  <2>1. ASSUME NEW plan \in pendingPlans, ApprovePlan(plan)
        PROVE  PlansInv'
    BY <2>1 DEF ApprovePlan, PlansInv, exec
  <2>2. ASSUME NEW plan \in pendingPlans, RejectPlan(plan)
        PROVE  PlansInv'
    BY <2>2 DEF RejectPlan, PlansInv, exec
  <2>3. CASE (\E sig \in UserSignals : Signal(sig)) \/ Resume
    BY <2>3, PlansKept DEF Signal, Resume, exec
  <2> QED BY <1>8, <2>1, <2>2, <2>3 DEF UserStep
<1>9. CASE UserCall
  <2>1. ASSUME NEW plan \in approvedPlans, RunApproved(plan)
        PROVE  PlansInv'
    BY <2>1 DEF RunApproved, PlansInv, planVars
  <2>2. CASE \E seed \in Routes, policy \in Policies :
               RunForReview(seed, policy) \/ RunDenied(seed, policy) \/ Run(seed, policy)
    BY <1>3, <2>2, OrchestratorAssumption DEF OrchestratorAssumption
  <2> QED BY <1>9, <2>1, <2>2 DEF UserCall
<1> QED BY <1>1, <1>2, <1>5, <1>6, <1>7, <1>8, <1>9 DEF Next, LoopStep, WaitTimeout

-----------------------------------------------------------------------------
(* Where a call may be under way, and what the store is bound to.           *)

LEMMA PlaceStep ==
  ASSUME TypeOK, PlaceInv, [Next]_vars
  PROVE  PlaceInv'
<1>0. iteration \in Nat
  BY LoopAssumption DEF TypeOK, LoopAssumption
<1> USE DEF PlaceInv
<1>1. CASE UNCHANGED vars
  BY <1>1 DEF vars, orchVars, loopVars, exec
<1>2. CASE Start
  BY <1>2 DEF Start, exec
<1>3. CASE TopEnd
  BY <1>0, <1>3 DEF TopEnd, End, orchVars, exec
<1>4. CASE Plan
  BY <1>0, <1>4 DEF Plan, orchVars, exec
<1>5. CASE Review \/ ExecuteLate
  BY <1>5 DEF Review, ExecuteLate, End, orchVars, exec
<1>6. CASE ExecuteRound
  BY <1>6 DEF ExecuteRound
<1>7. CASE Answer
  <2>1. /\ UNCHANGED <<place, iteration>> /\ place = "idle" /\ phase = "wait"
        /\ \/ phase' = "over" /\ prior' = prior
           \/ phase' = "verify" /\ stop' = stop
    BY <1>7 DEF Answer, End, orchVars, exec
  <2>2. prior' => iteration' >= 1
    <3>1. iteration >= 1
      BY <2>1
    <3> QED BY <2>1, <3>1
  <2> QED BY <2>1, <2>2
<1>8. CASE Verify \/ Reverify
  <2>1. UNCHANGED <<place, iteration, prior>> /\ phase \in {"verify", "reverify"}
    BY <1>8 DEF Verify, Reverify, orchVars, exec
  <2>2. \/ Iterate \/ Accept
        \/ phase' = "reverify" /\ UNCHANGED <<wish, stop, kept>>
    BY <1>8 DEF Verify, Reverify
  <2>3. phase' = "over" \/ (phase' \in {"top", "reverify"} /\ stop' = stop)
    BY <2>2 DEF Iterate, Accept, End
  <2> QED BY <2>1, <2>3
<1>9. CASE WaitTimeout
  BY <1>9, IdleType DEF WaitTimeout, Cancel, End
<1>10. CASE CallStep /\ UNCHANGED loopVars
  BY <1>10 DEF CallStep, loopVars, ExecuteStart, Head, FinishWave, FailWave
<1>11. CASE UserStep /\ UNCHANGED <<phase, iteration, prior, stop>>
  BY <1>11 DEF UserStep, ApprovePlan, RejectPlan, Signal, Resume, exec
<1>12. CASE phase = "none" /\ UserCall /\ UNCHANGED loopVars
  BY <1>12 DEF loopVars
<1> QED BY <1>1, <1>2, <1>3, <1>4, <1>5, <1>6, <1>7, <1>8, <1>9, <1>10, <1>11, <1>12
        DEF Next, LoopStep

\* a step that leaves the binding, the calls and what the loop knows of them
LEMMA BindingKept ==
  ASSUME BindingInv, UNCHANGED <<bound, currentPlan, place, call, result, prior>>,
         InLoop' => InLoop, phase' = "wait" => phase = "wait"
  PROVE  BindingInv'
  BY DEF BindingInv, Successes

LEMMA ReturnIsBound ==
  ASSUME BindingInv, place \in {"head", "wave"}, place' = "idle",
         UNCHANGED <<bound, currentPlan, prior, phase>>
  PROVE  BindingInv'
  BY DEF BindingInv, InLoop

LEMMA BindingStep ==
  ASSUME TypeOK, RequestOK, PlansInv, PlaceInv, BindingInv, [Next]_vars
  PROVE  BindingInv'
<1>1. CASE UNCHANGED vars
  BY <1>1, BindingKept DEF vars, orchVars, loopVars, store, mind, exec, InLoop
<1>2. CASE Start
  <2>1. ~prior' /\ place' = "idle" /\ phase' = "top"
    BY <1>2 DEF Start, PlaceInv, exec
  <2> QED BY <2>1 DEF BindingInv
<1>3. CASE TopEnd \/ Plan \/ Review \/ ExecuteLate
  <2>1. UNCHANGED <<orchVars, prior>> /\ InLoop /\ phase' # "wait"
    BY <1>3 DEF TopEnd, Plan, Review, ExecuteLate, End, InLoop
  <2> QED BY <2>1, BindingKept DEF orchVars, store, mind, exec
<1>4. CASE ExecuteRound
  <2>1. place = "idle" /\ phase = "execute" /\ phase' = "wait" /\ prior' = prior
        /\ (prior <=> ShouldReplan)
    BY <1>4 DEF ExecuteRound, PlaceInv, ShouldReplan
  <2>2. ASSUME NEW route, Replan(wish, route), prior
        PROVE  BindingInv'
    <3>1. currentPlan # NoPlan /\ bound = currentPlan.root
      BY <2>1, <2>2 DEF BindingInv, InLoop
    <3>2. Revise(wish, route).root = bound /\ Revise(wish, route).id >= 1
      BY <2>2, <3>1, ReviseType DEF Replan
    <3>3. Revise(wish, route) # NoPlan
      BY <3>2 DEF NoPlan
    <3>4. /\ currentPlan' = Revise(wish, route) /\ call'.plan = Revise(wish, route)
          /\ place' = "head" /\ bound' = bound
      BY <2>2 DEF Replan, Execute, store
    <3> QED BY <3>2, <3>3, <3>4 DEF BindingInv
  <2>3. ASSUME NEW route, ReplanConflict(wish, route), prior
        PROVE  BindingInv'
    <3>1. currentPlan # NoPlan /\ bound = currentPlan.root
      BY <2>1, <2>3 DEF BindingInv, InLoop
    <3>2. UNCHANGED <<bound, currentPlan>> /\ place' = "idle"
      BY <2>3, GiveType, IdleType DEF ReplanConflict, mind, store
    <3> QED BY <3>1, <3>2 DEF BindingInv
  <2>4. CASE RunDenied(request.seed, request.policy) /\ ~prior
    <3>1. place' = "idle" /\ Successes(result') = {}
      BY <2>4, GiveType, IdleType, NoCallType DEF RunDenied, Successes
    <3>2. Successes(result)' = {}
      BY <3>1 DEF Successes
    <3> QED BY <2>1, <2>4, <3>1, <3>2 DEF BindingInv
  <2>5. CASE Run(request.seed, request.policy) /\ ~prior
    <3>1. Compile(request.seed, request.policy).root = Compile(request.seed, request.policy).id
      BY <2>5, CompileType DEF Run, RequestOK
    <3>2. bound' = call'.plan.root /\ place' = "prepared"
      BY <2>5, <3>1 DEF Run, Prepare
    <3> QED BY <2>1, <2>5, <3>2 DEF BindingInv
  <2> QED BY <1>4, <2>1, <2>2, <2>3, <2>4, <2>5 DEF ExecuteRound
<1>5. CASE Answer
  <2>1. UNCHANGED orchVars /\ phase = "wait" /\ place = "idle"
        /\ \/ phase' = "over"
           \/ phase' = "verify" /\ prior' = (prior \/ Successes(result) # {})
    BY <1>5 DEF Answer, End
  <2>2. UNCHANGED <<bound, currentPlan, place>>
    BY <2>1 DEF orchVars, store, mind, exec
  <2> QED BY <2>1, <2>2 DEF BindingInv, InLoop
<1>6. CASE Verify \/ Reverify
  <2>1. UNCHANGED <<orchVars, prior>> /\ phase \in {"verify", "reverify"}
    BY <1>6 DEF Verify, Reverify
  <2>2. phase' # "wait"
    BY <1>6 DEF Verify, Reverify, Iterate, Accept, End
  <2> QED BY <2>1, <2>2, BindingKept DEF orchVars, store, mind, exec, InLoop
<1>7. CASE WaitTimeout
  BY <1>7 DEF WaitTimeout, End, BindingInv, InLoop
<1>8. CASE CallStep /\ UNCHANGED loopVars
  <2>1. UNCHANGED <<prior, phase>>
    BY <1>8 DEF loopVars
  <2>2. CASE ExecuteStart
    <3>1. /\ place = "prepared" /\ place' = "head" /\ currentPlan' = call.plan
          /\ UNCHANGED <<bound, call>>
      BY <2>2 DEF ExecuteStart, Execute, store
    <3>2. call.plan # NoPlan
      BY <3>1 DEF PlansInv, NoPlan
    <3> QED BY <2>1, <3>1, <3>2 DEF BindingInv, InLoop
  <2>3. CASE place \in {"head", "wave"} /\ UNCHANGED <<bound, currentPlan>> /\ place' = "idle"
    BY <2>1, <2>3, ReturnIsBound
  <2>4. CASE place \in {"head", "wave"} /\ UNCHANGED <<bound, currentPlan, call>>
             /\ place' \in {"head", "wave"}
    BY <2>1, <2>4 DEF BindingInv, InLoop
  <2>5. CASE Head
    BY <2>3, <2>4, <2>5, GiveType, IdleType DEF Head, Return, Raise, store
  <2>6. CASE FinishWave
    <3>1. place = "wave" /\ UNCHANGED <<bound, currentPlan>>
      BY <2>6 DEF FinishWave
    <3>2. (\E rs : Return(rs)) \/ (place' = "head" /\ call' = call)
      BY <2>6 DEF FinishWave
    <3> QED BY <2>3, <2>4, <3>1, <3>2, GiveType, IdleType DEF Return
  <2>7. CASE FailWave
    BY <2>3, <2>7, GiveType, IdleType DEF FailWave, Raise
  <2> QED BY <1>8, <2>2, <2>5, <2>6, <2>7 DEF CallStep
<1>9. CASE UserStep /\ UNCHANGED <<phase, prior>>
  <2>1. UNCHANGED <<mind, store, exec, result>>
    BY <1>9 DEF UserStep, ApprovePlan, RejectPlan, Signal, Resume
  <2> QED BY <1>9, <2>1, BindingKept DEF store, mind, exec, InLoop
<1>10. CASE phase = "none" /\ UNCHANGED loopVars
  BY <1>10 DEF loopVars, BindingInv, InLoop
<1> QED BY <1>1, <1>2, <1>3, <1>4, <1>5, <1>6, <1>7, <1>8, <1>9, <1>10 DEF Next, LoopStep

-----------------------------------------------------------------------------
(* What a replan runs.                                                      *)

LEMMA WorkKept ==
  ASSUME WorkInv, UNCHANGED <<bound, dirs>>, place' # "prepared",
         \/ place' = "idle"
         \/ UNCHANGED <<call, left, pre>> /\ place \in {"head", "wave"}
  PROVE  WorkInv'
  BY DEF WorkInv, Artifacts

\* a replan starts with all that is there marked
LEMMA WorkStart ==
  ASSUME TypeOK, NEW route, Replan(wish, route)
  PROVE  WorkInv'
<1>1. UNCHANGED <<bound, dirs>>
  BY DEF Replan, store
<1>2. Artifacts' = Artifacts
  BY <1>1 DEF Artifacts
<1>3. Artifacts \subseteq Agents
  BY DEF Artifacts, TypeOK, OrchTypeOK
<1>4. Artifacts \subseteq Revise(wish, route).agents
  <2>1. Artifacts \subseteq Reseed(wish, route) \cap Agents
    BY <1>3 DEF Reseed
  <2>2. Reseed(wish, route) \cap Agents
           \subseteq Compile(Reseed(wish, route), currentPlan.policy).agents
    BY SeedIsKept
  <2>3. Revise(wish, route).agents = Compile(Reseed(wish, route), currentPlan.policy).agents
    BY ReviseType DEF Replan
  <2> QED BY <2>1, <2>2, <2>3
<1>5. /\ call'.plan = Revise(wish, route) /\ left' = Revise(wish, route).agents
      /\ pre' = Marked(Revise(wish, route)) /\ place' = "head"
  BY DEF Replan, Execute
<1> QED BY <1>2, <1>4, <1>5 DEF WorkInv, Marked

\* a wave adds the artifacts of stages that are then no longer left
LEMMA WorkWave ==
  ASSUME TypeOK, WorkInv, FinishWave
  PROVE  WorkInv'
<1>1. Ready \subseteq left /\ Called \subseteq Ready
  BY WaveType
<1>2. bound' = bound /\ bound \in 1..MaxPlans /\ dirs' = [dirs EXCEPT ![bound] = @ \cup Called]
      /\ dirs \in [1..MaxPlans -> SUBSET Agents] /\ place = "wave"
  BY OrchestratorAssumption
     DEF FinishWave, Store, TypeOK, OrchTypeOK, OrchestratorAssumption
<1>3. Artifacts' = Artifacts \cup Called
  BY <1>2, OrchestratorAssumption DEF Artifacts, OrchestratorAssumption
<1>4. (\E rs : Return(rs)) \/ (left' = left \ Ready /\ UNCHANGED <<call, pre>> /\ place' = "head")
  BY DEF FinishWave
<1>5. CASE \E rs : Return(rs)
  <2>1. place' = "idle"
    BY <1>5, GiveType, IdleType DEF Return
  <2> QED BY <2>1 DEF WorkInv
<1>6. CASE left' = left \ Ready /\ UNCHANGED <<call, pre>> /\ place' = "head"
  BY <1>1, <1>2, <1>3, <1>6 DEF WorkInv
<1> QED BY <1>4, <1>5, <1>6

LEMMA WorkStep ==
  ASSUME TypeOK, WorkInv, [Next]_vars
  PROVE  WorkInv'
<1>1. CASE UNCHANGED vars
  BY <1>1 DEF vars, orchVars, store, exec, WorkInv, Artifacts
<1>2. CASE Start \/ TopEnd \/ Plan \/ Review \/ ExecuteLate \/ Answer \/ Verify \/ Reverify
  BY <1>2, LoopFrame DEF store, exec, WorkInv, Artifacts
<1>3. ASSUME NEW seed, NEW policy,
             RunForReview(seed, policy) \/ RunDenied(seed, policy) \/ Run(seed, policy)
      PROVE  WorkInv'
  <2>1. place' = "idle" \/ (place' = "prepared" /\ call'.op = "run")
    <3>1. CASE RunForReview(seed, policy)
      BY <3>1, GiveType, IdleType DEF RunForReview
    <3>2. CASE RunDenied(seed, policy)
      BY <3>2, GiveType, IdleType DEF RunDenied
    <3>3. CASE Run(seed, policy)
      BY <3>3 DEF Run
    <3> QED BY <1>3, <3>1, <3>2, <3>3
  <2> QED BY <2>1 DEF WorkInv
<1>4. CASE ExecuteRound
  <2>1. ASSUME NEW route, ReplanConflict(wish, route)
        PROVE  WorkInv'
    <3>1. place' = "idle"
      BY <2>1, GiveType, IdleType DEF ReplanConflict
    <3> QED BY <3>1 DEF WorkInv
  <2> QED BY <1>3, <1>4, <2>1, WorkStart DEF ExecuteRound
<1>5. CASE Cancel
  BY <1>5, IdleType DEF Cancel, WorkInv
<1>6. CASE CallStep
  <2>1. CASE ExecuteStart
    BY <2>1 DEF ExecuteStart, Execute, WorkInv, store, Artifacts
  <2>2. CASE Head
    <3>1. UNCHANGED <<bound, dirs>> /\ place = "head"
      BY <2>2 DEF Head, store
    <3>2. place' = "idle" \/ (UNCHANGED <<call, left, pre>> /\ place' = "wave")
      BY <2>2, GiveType, IdleType DEF Head, Return, Raise
    <3> QED BY <3>1, <3>2, WorkKept
  <2>3. CASE FinishWave
    BY <2>3, WorkWave
  <2>4. CASE FailWave
    BY <2>4, GiveType, IdleType DEF FailWave, Raise, WorkInv
  <2> QED BY <1>6, <2>1, <2>2, <2>3, <2>4 DEF CallStep
<1>7. CASE UserStep
  <2>1. UNCHANGED <<store, exec>>
    BY <1>7 DEF UserStep, ApprovePlan, RejectPlan, Signal, Resume
  <2> QED BY <2>1 DEF store, exec, WorkInv, Artifacts
<1>8. CASE UserCall
  <2>1. ASSUME NEW plan, RunApproved(plan)
        PROVE  WorkInv'
    <3>1. place' = "head" /\ call'.op = "approved"
      BY <2>1 DEF RunApproved, Execute
    <3> QED BY <3>1 DEF WorkInv
  <2> QED BY <1>3, <1>8, <2>1 DEF UserCall
<1> QED BY <1>1, <1>2, <1>4, <1>5, <1>6, <1>7, <1>8 DEF Next, LoopStep, WaitTimeout

-----------------------------------------------------------------------------
(* Where an abort comes from, and what a result is worth.                   *)

LEMMA ConflictStep ==
  ASSUME TypeOK, PlaceInv, ConflictInv, [Next]_vars
  PROVE  ConflictInv'
<1> USE DEF ConflictInv
<1>1. CASE UNCHANGED vars
  BY <1>1 DEF vars, orchVars, loopVars, ctrl, exec, InLoop
<1>2. CASE Start
  BY <1>2 DEF Start
<1>3. CASE TopEnd \/ Plan \/ Review \/ ExecuteLate
  <2>1. UNCHANGED <<orchVars, aborted>>
    BY <1>3 DEF TopEnd, Plan, Review, ExecuteLate
  <2>2. \/ phase' = "over"
        \/ phase = "top" /\ signal \notin {"abort", "abort_now"}
        \/ phase = "review"
    BY <1>3 DEF TopEnd, Plan, Review, ExecuteLate, End
  <2> QED BY <2>1, <2>2 DEF orchVars, ctrl, InLoop
<1>4. CASE ExecuteRound
  <2>1. phase = "execute" /\ phase' = "wait" /\ aborted' = aborted
    BY <1>4 DEF ExecuteRound
  <2>2. ASSUME NEW route, ReplanConflict(wish, route)
        PROVE  ConflictInv'
    BY <2>1, <2>2, GiveType, IdleType DEF ReplanConflict
  <2>3. CASE UNCHANGED signal
    BY <2>1, <2>3 DEF InLoop
  <2> QED BY <1>4, <2>2, <2>3 DEF ExecuteRound, Replan, RunDenied, Run, ctrl
<1>5. CASE Answer
  BY <1>5 DEF Answer, End, orchVars, ctrl, exec, InLoop
<1>6. CASE Verify \/ Reverify
  <2>1. UNCHANGED <<orchVars, aborted>> /\ phase \in {"verify", "reverify"}
    BY <1>6 DEF Verify, Reverify
  <2>2. phase' \in {"top", "reverify", "over"}
    BY <1>6 DEF Verify, Reverify, Iterate, Accept, End
  <2> QED BY <2>1, <2>2 DEF orchVars, ctrl, exec, InLoop
<1>7. CASE WaitTimeout
  BY <1>7 DEF WaitTimeout, End, InLoop
<1>8. CASE CallStep /\ UNCHANGED loopVars
  <2>1. place # "idle" /\ signal' = signal
    BY <1>8 DEF CallStep, ExecuteStart, Head, FinishWave, FailWave, ctrl
  <2> QED BY <1>8, <2>1 DEF loopVars, InLoop, PlaceInv
<1>9. CASE /\ UserStep
           /\ aborted' = (aborted \/ (InLoop /\ signals' # signals
                                          /\ signal' \in {"abort", "abort_now"}))
           /\ UNCHANGED phase
  <2>1. UNCHANGED <<place, result>>
    BY <1>9 DEF UserStep, ApprovePlan, RejectPlan, Signal, Resume, exec
  <2>2. \/ signal' = signal
        \/ signal' = "none"
        \/ signals' # signals
    <3>1. signals \in Nat
      BY DEF TypeOK, OrchTypeOK
    <3> QED BY <1>9, <3>1 DEF UserStep, ApprovePlan, RejectPlan, Signal, Resume, ctrl
  <2> QED BY <1>9, <2>1, <2>2 DEF InLoop
<1>10. CASE phase = "none" /\ UNCHANGED loopVars
  BY <1>10 DEF loopVars, InLoop
<1> QED BY <1>1, <1>2, <1>3, <1>4, <1>5, <1>6, <1>7, <1>8, <1>9, <1>10 DEF Next, LoopStep

LEMMA ResultStep ==
  ASSUME TypeOK, PlaceInv, ConflictInv, ResultInv, [Next]_vars
  PROVE  ResultInv'
<1> USE DEF ResultInv
<1>1. CASE UNCHANGED vars
  BY <1>1 DEF vars, orchVars, loopVars, exec
<1>2. CASE Start
  BY <1>2 DEF Start, exec, PlaceInv
<1>3. CASE TopEnd \/ Plan \/ Review \/ ExecuteLate
  <2>1. UNCHANGED orchVars /\ phase' \notin {"wait", "verify", "reverify"}
    BY <1>3 DEF TopEnd, Plan, Review, ExecuteLate, End
  <2> QED BY <2>1 DEF orchVars, exec
<1>4. ASSUME NEW plan, NEW marked, Execute(plan, marked), call'.plan = plan,
             phase' \notin {"verify", "reverify"}
      PROVE  ResultInv'
  BY <1>4 DEF Execute
<1>5. ASSUME place' = "idle", result'.warned, phase' \notin {"verify", "reverify"}
      PROVE  ResultInv'
  BY <1>5
<1>6. CASE ExecuteRound
  <2>1. phase' = "wait"
    BY <1>6 DEF ExecuteRound
  <2>2. ASSUME NEW route, ReplanConflict(wish, route)
        PROVE  ResultInv'
    BY <1>5, <2>1, <2>2, GiveType, IdleType DEF ReplanConflict
  <2>3. ASSUME NEW route, Replan(wish, route)
        PROVE  ResultInv'
    BY <1>4, <2>1, <2>3 DEF Replan
  <2>4. CASE RunDenied(request.seed, request.policy)
    BY <1>5, <2>1, <2>4, GiveType, IdleType DEF RunDenied
  <2>5. CASE Run(request.seed, request.policy)
    BY <2>1, <2>5 DEF Run
  <2> QED BY <1>6, <2>2, <2>3, <2>4, <2>5 DEF ExecuteRound
<1>7. CASE Answer
  <2>1. UNCHANGED <<orchVars, aborted>> /\ phase = "wait"
        /\ (phase' = "over" \/ (phase' = "verify" /\ result.how = "returned"))
    BY <1>7 DEF Answer, End
  <2> QED BY <2>1 DEF orchVars, exec
<1>8. CASE Verify \/ Reverify
  <2>1. UNCHANGED <<orchVars, aborted>> /\ phase \in {"verify", "reverify"}
    BY <1>8 DEF Verify, Reverify
  <2>2. phase' \in {"top", "reverify", "over"}
    BY <1>8 DEF Verify, Reverify, Iterate, Accept, End
  <2> QED BY <2>1, <2>2 DEF orchVars, exec
<1>9. CASE WaitTimeout
  <2>1. phase' = "over" /\ place' = "idle"
    BY <1>9, IdleType DEF WaitTimeout, Cancel, End
  <2> QED BY <2>1
<1>10. CASE CallStep /\ UNCHANGED loopVars
  <2>1. UNCHANGED <<phase, aborted>> /\ phase \in {"none", "wait"} /\ place # "idle"
    BY <1>10
       DEF loopVars, CallStep, ExecuteStart, Head, FinishWave, FailWave, PlaceInv
  <2>2. CASE ExecuteStart
    BY <1>4, <2>1, <2>2 DEF ExecuteStart
  <2>3. CASE Raise
    BY <2>1, <2>3, GiveType, IdleType DEF Raise
  <2>4. ASSUME NEW rs, Return(rs), call.plan.agents \subseteq DOMAIN rs \/ aborted \/ phase = "none"
        PROVE  ResultInv'
    <3>1. place' = "idle" /\ result'.plan = call.plan /\ result'.results = rs
      BY <2>4, GiveType, IdleType DEF Return
    <3> QED BY <2>1, <2>4, <3>1
  <2>5. CASE Head
    <3>1. CASE left = {} /\ Return(results)
      BY <2>4, <2>5, <3>1 DEF Head
    <3>2. CASE place' = "wave" /\ UNCHANGED <<call, left, results>>
      BY <2>1, <2>5, <3>2 DEF Head
    <3> QED BY <2>3, <2>5, <3>1, <3>2 DEF Head
  <2>6. CASE FinishWave
    <3>1. PICK low \in SUBSET (Called \cap MayBeLow) :
            LET rs == [a \in DOMAIN results \cup Ready |->
                         IF a \in DOMAIN results THEN results[a]
                         ELSE IF a \in low THEN "low" ELSE "good"]
            IN  \/ signal = "abort" /\ Return(rs)
                \/ /\ signal # "abort"
                   /\ results' = rs /\ left' = left \ Ready /\ place' = "head"
                   /\ UNCHANGED <<approvedPlans, completedAgents, call, pre, result>>
      BY <2>6 DEF FinishWave
    <3>2. CASE signal = "abort"
      <4>1. aborted \/ phase = "none"
        BY <2>1, <3>2 DEF ConflictInv, InLoop
      <4>2. \E rs : Return(rs)
        BY <3>1, <3>2
      <4> QED BY <2>4, <4>1, <4>2
    <3>3. CASE signal # "abort"
      <4>1. DOMAIN results' = DOMAIN results \cup Ready /\ left' = left \ Ready
            /\ call' = call /\ place' = "head"
        BY <3>1, <3>3
      <4> QED BY <2>1, <2>6, <4>1 DEF FinishWave
    <3> QED BY <3>2, <3>3
  <2>7. CASE FailWave
    BY <2>3, <2>7 DEF FailWave
  <2> QED BY <1>10, <2>2, <2>5, <2>6, <2>7 DEF CallStep
<1>11. CASE UserStep /\ UNCHANGED phase /\ (aborted => aborted')
  <2>1. UNCHANGED <<exec, result>>
    BY <1>11 DEF UserStep, ApprovePlan, RejectPlan, Signal, Resume
  <2> QED BY <1>11, <2>1 DEF exec
<1>12. CASE phase = "none" /\ UserCall /\ UNCHANGED loopVars
  <2>1. phase' = "none"
    BY <1>12 DEF loopVars
  <2>2. ASSUME NEW plan, RunApproved(plan)
        PROVE  ResultInv'
    <3>1. Execute(plan, {}) /\ call'.plan = plan
      BY <2>2 DEF RunApproved
    <3> QED BY <1>4, <2>1, <3>1
  <2>3. ASSUME NEW seed, NEW policy, RunForReview(seed, policy) \/ RunDenied(seed, policy)
                                     \/ Run(seed, policy)
        PROVE  ResultInv'
    <3>1. place' \in {"idle", "prepared"}
      <4>1. CASE RunForReview(seed, policy)
        BY <4>1, GiveType, IdleType DEF RunForReview
      <4>2. CASE RunDenied(seed, policy)
        BY <4>2, GiveType, IdleType DEF RunDenied
      <4>3. CASE Run(seed, policy)
        BY <4>3 DEF Run
      <4> QED BY <2>3, <4>1, <4>2, <4>3
    <3> QED BY <2>1, <3>1
  <2> QED BY <1>12, <2>2, <2>3 DEF UserCall
<1> QED BY <1>1, <1>2, <1>3, <1>6, <1>7, <1>8, <1>9, <1>10, <1>11, <1>12 DEF Next, LoopStep

LEMMA SuccessStep ==
  ASSUME TypeOK, PlaceInv, ResultInv, SuccessIsEarned, [Next]_vars
  PROVE  SuccessIsEarned'
<1> USE DEF SuccessIsEarned, Successes
<1>1. CASE UNCHANGED <<stop, kept, mode>> /\ (aborted => aborted')
  BY <1>1
<1>2. CASE stop' # "verified"
  BY <1>2
<1>3. CASE Verify \/ Reverify
  <2>1. UNCHANGED <<orchVars, mode, aborted>> /\ phase \in {"verify", "reverify"}
        /\ place = "idle"
    BY <1>3 DEF Verify, Reverify, PlaceInv
  <2>2. CASE Accept /\ (mode.verifier = "default" => Clean(result))
    <3>1. kept' = result
      BY <2>2 DEF Accept, End
    <3>2. ASSUME mode.verifier = "default", ~aborted
          PROVE  \A a \in result.plan.agents :
                    a \in DOMAIN result.results /\ result.results[a] = "good"
      BY <2>1, <2>2, <3>2 DEF Clean, ResultInv
    <3> QED BY <2>1, <3>1, <3>2
  <2>3. \/ UNCHANGED <<stop, kept>>
        \/ Accept /\ (mode.verifier = "default" => Clean(result))
    <3>1. ASSUME NEW again \in BOOLEAN, NEW issues \in Verdicts(again), ~issues,
                 mode.verifier = "default"
          PROVE  Clean(result)
      BY <3>1 DEF Verdicts
    <3> QED BY <1>3, <3>1 DEF Verify, Reverify, Iterate
  <2> QED BY <1>1, <2>1, <2>2, <2>3
<1>4. (UNCHANGED <<stop, kept, mode>> /\ (aborted => aborted')) \/ stop' # "verified"
      \/ Verify \/ Reverify
  <2>1. CASE [Start \/ Plan \/ Review \/ ExecuteRound]_vars
    BY <2>1 DEF vars, loopVars, Start, Plan, Review, ExecuteRound
  <2>2. CASE TopEnd \/ ExecuteLate \/ WaitTimeout
    BY <2>2 DEF TopEnd, ExecuteLate, WaitTimeout, End
  <2>3. CASE Answer
    BY <2>3 DEF Answer, End
  <2> QED BY <2>1, <2>2, <2>3 DEF Next, LoopStep, loopVars
<1> QED BY <1>1, <1>2, <1>3, <1>4

-----------------------------------------------------------------------------

LEMMA LoopInvariant == Spec => []LoopInv
<1>1. Init => LoopInv
  <2> SUFFICES ASSUME Init PROVE LoopInv
    OBVIOUS
  <2>1. TypeOK /\ RequestOK
    BY TypeInit
  <2>2. /\ pendingPlans = {} /\ approvedPlans = {} /\ rejected = {} /\ place = "idle"
        /\ phase = "none" /\ prior = FALSE /\ stop = "none"
    BY DEF Init, OrchInit
  <2> QED BY <2>1, <2>2
          DEF LoopInv, PlansInv, PlaceInv, BindingInv, WorkInv, ConflictInv, ResultInv,
              SuccessIsEarned, InLoop
<1>2. LoopInv /\ [Next]_vars => LoopInv'
  BY TypeStep, PlansStep, PlaceStep, BindingStep, WorkStep, ConflictStep, ResultStep, SuccessStep
     DEF LoopInv
<1> QED BY <1>1, <1>2, PTL DEF Spec

\* A plan that its user rejected, or that still waits for its review, is never executed,
\* whatever is approved, rejected or replanned while other plans run.
THEOREM ReviewIsRespected == Spec => []RejectedNeverRuns
<1>1. LoopInv => RejectedNeverRuns
  BY DEF LoopInv, PlansInv, RejectedNeverRuns
<1> QED BY <1>1, LoopInvariant, PTL

\* While the loop executes a plan, the store is bound to the directory in which the
\* revision history of that plan began.
THEOREM StoreIsRight == Spec => []StoreFollowsPlan
<1>1. LoopInv => StoreFollowsPlan
  BY DEF LoopInv, BindingInv, StoreFollowsPlan
<1> QED BY <1>1, LoopInvariant, PTL

\* A replanned round keeps the agents of all artifacts that are there and calls none of
\* them again, for every graph of needs, router and plan of the rounds before.
THEOREM WorkIsKept == Spec => []ReplanKeepsWork
<1>1. LoopInv => ReplanKeepsWork
  BY DEF LoopInv, WorkInv, ReplanKeepsWork, Called, Skipped, Ready
<1> QED BY <1>1, LoopInvariant, PTL

\* Success that the default verifier reports, if nobody aborted, is a plan of which every
\* stage has a good result.
THEOREM SuccessEarned == Spec => []SuccessIsEarned
<1>1. LoopInv => SuccessIsEarned
  BY DEF LoopInv
<1> QED BY <1>1, LoopInvariant, PTL

\* After its first success a loop never leaves the directory its artifacts are in.
THEOREM RoundsStayTogether == Spec => RoundsBuildOnEachOther
<1>1. LoopInv /\ [Next]_vars => [InLoop /\ prior => bound' = bound]_vars
  <2> SUFFICES ASSUME LoopInv, [Next]_vars, InLoop, prior
               PROVE  bound' = bound
    OBVIOUS
  <2>1. CASE UNCHANGED vars
    BY <2>1 DEF vars, orchVars, store
  <2>2. CASE Start \/ TopEnd \/ Plan \/ Review \/ ExecuteLate \/ Answer \/ Verify \/ Reverify
    BY <2>2, LoopFrame DEF store
  <2>3. CASE ExecuteRound
    <3>1. ShouldReplan
      BY <2>3 DEF ExecuteRound, LoopInv, PlaceInv, ShouldReplan
    <3> QED BY <2>3, <3>1 DEF ExecuteRound, ReplanConflict, Replan, store
  <2>4. CASE WaitTimeout
    BY <2>4 DEF WaitTimeout, Cancel, store
  <2>5. CASE CallStep
    BY <2>5 DEF CallStep, ExecuteStart, Head, FinishWave, FailWave, store
  <2>6. CASE UserStep
    BY <2>6 DEF UserStep, ApprovePlan, RejectPlan, Signal, Resume, store
  <2>7. phase # "none"
    BY DEF InLoop
  <2> QED BY <2>1, <2>2, <2>3, <2>4, <2>5, <2>6, <2>7 DEF Next, LoopStep
<1> QED BY <1>1, LoopInvariant, PTL DEF Spec, RoundsBuildOnEachOther
=============================================================================
