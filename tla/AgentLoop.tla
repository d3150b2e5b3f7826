------------------------------ MODULE AgentLoop ------------------------------
(***************************************************************************)
(* casa/loop.py: AgentLoop.run over an Orchestrator.  A round plans,         *)
(* possibly has the plan reviewed, executes it or replans, and verifies the  *)
(* result once or twice.  The user calls the orchestrator before the loop;   *)
(* signals and reviews come at any time.                                     *)
(***************************************************************************)
EXTENDS Orchestrator

CONSTANTS
    MaxIterations,  \* max_iterations
    DoublePass,     \* values of require_double_pass considered
    Verifiers,      \* "default": _default_verifier; "custom": any verdict
    Gated,          \* whether there is a review_gate
    Named,          \* agents whose id occurs in the intent
    MaxUserPlans    \* bound: plans the user has compiled before the loop

ASSUME LoopAssumption ==
    /\ MaxIterations \in Nat \ {0} /\ DoublePass \subseteq BOOLEAN
    /\ Verifiers \subseteq {"default", "custom"} /\ Gated \in BOOLEAN
    /\ Named \subseteq Agents /\ MaxUserPlans \in Nat

VARIABLES
    mode,        \* [verifier, double]: how this loop was made
    phase,       \* where run is; "none" before and "over" after it
    iteration,
    request,     \* what the router chose for this round
    prior,       \* prior_success, with the artifacts seen then
    wish,        \* pending_replan_agents
    stop,        \* stop_reason
    kept,        \* final_compile_result
    aborted      \* the user aborted during this loop (a history variable)

loopVars == <<mode, phase, iteration, request, prior, wish, stop, kept, aborted>>
vars     == <<orchVars, loopVars>>

NoResult == Result("none", NoPlan, Nothing, FALSE)

TypeOK ==
    /\ OrchTypeOK
    /\ mode \in [verifier : Verifiers, double : DoublePass]
    /\ phase \in {"none", "top", "review", "execute", "wait", "verify", "reverify", "over"}
    /\ iteration \in 0..MaxIterations
    /\ wish \subseteq Agents /\ prior \in BOOLEAN
    /\ stop \in {"none", "timeout", "aborted", "raised", "verified", "max_iterations"}

Init ==
    /\ OrchInit
    /\ mode \in [verifier : Verifiers, double : DoublePass]
    /\ phase = "none" /\ iteration = 0 /\ request = [seed |-> {}, policy |-> "start"]
    /\ prior = FALSE /\ wish = {}
    /\ stop = "none" /\ kept = NoResult /\ aborted = FALSE

-----------------------------------------------------------------------------
Start ==
    /\ phase = "none" /\ place = "idle"
    /\ phase' = "top" /\ result' = NoResult
    /\ UNCHANGED <<planVars, mind, store, ctrl, exec, mode, iteration, request, prior, wish, stop,
                   kept, aborted>>

\* result is also last_result: no one else calls the orchestrator
End(reason, res) == phase' = "over" /\ stop' = reason /\ kept' = res

Successes(res) == DOMAIN res.results

\* _usable_compile_result
Usable(res) == Successes(res) # {}

\* the loop gives up: the rounds are used up, the deadline has passed, or the user aborts
TopEnd ==
    /\ phase = "top"
    /\ \/ /\ iteration = MaxIterations
          /\ End("max_iterations", IF Usable(result) THEN result ELSE NoResult)
          /\ UNCHANGED iteration
       \/ /\ iteration < MaxIterations
          /\ End("timeout", NoResult)
          /\ UNCHANGED iteration
       \/ /\ iteration < MaxIterations /\ signal \in {"abort", "abort_now"}
          /\ iteration' = iteration + 1
          /\ End("aborted", NoResult)
    /\ UNCHANGED <<orchVars, mode, request, prior, wish, aborted>>

\* the router names agents and a policy; without one the request names none
Planned == [seed : Routes, policy : Policies]

\* a new round is planned
Plan ==
    /\ phase = "top" /\ iteration < MaxIterations
    /\ signal \notin {"abort", "abort_now"}
    /\ iteration' = iteration + 1
    /\ request' \in Planned
    /\ phase' = IF Gated THEN "review" ELSE "execute"
    /\ UNCHANGED <<orchVars, mode, prior, wish, stop, kept, aborted>>

\* the review gate sees a preview, which is not executed
Review ==
    /\ phase = "review"
    /\ phase' \in {"top", "execute"}
    /\ UNCHANGED <<orchVars, mode, iteration, request, prior, wish, stop, kept,
                   aborted>>

ExecuteLate ==
    /\ phase = "execute"
    /\ End("timeout", NoResult)
    /\ UNCHANGED <<orchVars, mode, iteration, request, prior, wish, aborted>>

\* faulty: every round starts afresh
NeverReplan == FALSE

ShouldReplan == iteration > 1 /\ prior

ExecuteRound ==
    /\ phase = "execute"
    /\ \/ /\ ShouldReplan
          /\ \E route \in Routes : ReplanConflict(wish, route) \/ Replan(wish, route)
       \/ /\ ~ShouldReplan
          /\ RunDenied(request.seed, request.policy) \/ Run(request.seed, request.policy)
    /\ phase' = "wait"
    /\ UNCHANGED <<mode, iteration, request, prior, wish, stop, kept, aborted>>

\* faulty: the call is awaited without a limit
WaitForEver == FALSE

\* wait_for gives up
WaitTimeout ==
    /\ phase = "wait" /\ Cancel
    /\ End("timeout", NoResult)
    /\ UNCHANGED <<mode, iteration, request, prior, wish, aborted>>

\* the orchestrator has answered; what it raises leaves run as well
Answer ==
    /\ phase = "wait" /\ place = "idle"
    /\ \/ /\ result.how = "raised"
          /\ End("raised", NoResult)
          /\ UNCHANGED <<prior, wish>>
       \/ /\ result.how = "returned"
          /\ prior' = (prior \/ Successes(result) # {})
          /\ wish' = {}
          /\ phase' = "verify"
          /\ UNCHANGED <<stop, kept>>
    /\ UNCHANGED <<orchVars, mode, iteration, request, aborted>>

\* faulty: warnings are no reason to act
CleanDespiteWarnings(res) == \A a \in Successes(res) : res.results[a] = "good"

\* review_feedback gives the default verifier nothing to complain about
Clean(res) == ~res.warned /\ \A a \in Successes(res) : res.results[a] = "good"

\* what the verifier may answer: whether it finds issues
Verdicts(again) ==
    IF mode.verifier = "custom" THEN BOOLEAN
    ELSE {~Clean(result) \/ (again /\ iteration >= MaxIterations)}

\* _default_replan_agents
Iterate ==
    /\ wish' = IF prior THEN Named \ completedAgents ELSE wish
    /\ phase' = "top"
    /\ UNCHANGED <<stop, kept>>

Accept ==
    /\ End("verified", result)
    /\ UNCHANGED wish

Verify ==
    /\ phase = "verify"
    /\ \E issues \in Verdicts(FALSE) :
          \/ issues /\ Iterate
          \/ ~issues /\ mode.double /\ phase' = "reverify" /\ UNCHANGED <<wish, stop, kept>>
          \/ ~issues /\ ~mode.double /\ Accept
    /\ UNCHANGED <<orchVars, mode, iteration, request, prior, aborted>>

Reverify ==
    /\ phase = "reverify"
    /\ \E issues \in Verdicts(TRUE) : \/ issues /\ Iterate
                                      \/ ~issues /\ Accept
    /\ UNCHANGED <<orchVars, mode, iteration, request, prior, aborted>>

LoopStep ==
    \/ TopEnd \/ Plan \/ Review \/ ExecuteLate \/ ExecuteRound \/ Answer \/ Verify \/ Reverify

InLoop == phase \notin {"none", "over"}

Next ==
    \/ Start \/ LoopStep \/ WaitTimeout
    \/ CallStep /\ UNCHANGED loopVars
    \/ phase # "over" /\ UserStep
       /\ aborted' = (aborted \/ (InLoop /\ signals' # signals
                                               /\ signal' \in {"abort", "abort_now"}))
                /\ UNCHANGED <<mode, phase, iteration, request, prior, wish,
                               stop, kept>>
    \/ phase = "none" /\ UserCall /\ compiled' <= MaxUserPlans /\ UNCHANGED loopVars

Spec == Init /\ [][Next]_vars

\* The event loop runs whatever is ready, and wait_for fires at the deadline: a round that is
\* paused, or whose stages never end, is given up.
FairSpec == Spec /\ WF_vars(LoopStep) /\ WF_vars(WaitTimeout)

-----------------------------------------------------------------------------
\* While a plan is executed the store is bound to the directory of the first plan of its
\* revision history: a replan finds what the earlier rounds wrote, a new run does not
\* (facade.py:74 _prepare_store_for_plan, plan_recovery.py:120).
StoreFollowsPlan ==
    InLoop /\ place \in {"head", "wave"} => bound = call.plan.root

\* Once a round of the loop has had a success, the later rounds stay in its directory
\* (loop.py:344 _should_replan).
RoundsBuildOnEachOther == [][InLoop /\ prior => bound' = bound]_vars

\* A replanned round contains all that the rounds before it made, and calls none of
\* those agents a second time (plan_recovery.py:74 "keeps the completed stages").
ReplanKeepsWork ==
    InLoop /\ call.op = "replan" /\ place = "wave"
        => Artifacts \subseteq call.plan.agents /\ Called \cap Artifacts = {}

\* Where the default verifier decides and nobody aborts, a loop that reports success
\* has executed every stage of its plan, all with good results (loop.py:390).
SuccessIsEarned ==
    stop = "verified" /\ mode.verifier = "default" /\ ~aborted
        => \A a \in kept.plan.agents : a \in Successes(kept) /\ kept.results[a] = "good"

\* A loop ends, even when its user pauses it for good (loop.py:120, 195).
LoopEnds == phase = "top" ~> phase = "over"

=============================================================================
