---------------------------- MODULE PlanExecution ----------------------------
(***************************************************************************)
(* casa/orchestration: PlanExecutor.execute with its StageRunner, the        *)
(* default RecoveryChain of casa/recovery.py and the InterruptController of  *)
(* casa/interrupt.py.                                                        *)
(*                                                                          *)
(* Everything runs in one asyncio event loop, so a step is the code between  *)
(* two awaits: of the executor's coroutine, of the task of a stage, or of    *)
(* the user code that pauses, resumes and aborts.  (Only the loop head is a  *)
(* step apart from the segment that leads to it; a signal in between has the *)
(* effect of one just before or just after that segment.)                    *)
(*                                                                          *)
(* Deployment: an InterruptController is given, no cache backend, agents end *)
(* when they are cancelled.                                                  *)
(***************************************************************************)
EXTENDS Integers, FiniteSets

CONSTANTS
    Stages,         \* stage ids of the plan
    Ids,            \* ids that depends_on may name, Stages among them
    Depends,        \* Depends[s]: depends_on of the plan as it is given
    Recompiled,     \* the same, as the compiler derives it after a deadlock
    Priority,       \* Stage.priority
    MaxParallel,    \* max_parallel_per_wave, 0 for no limit
    SimpleRetries, FreshRetries,
    AllowSkip,      \* usage_policy.allow_skip_core_if_artifacts_exist of the given plan
    OnDeadlock,     \* what the configuration, read at that moment, may say to do then
    PreCompleted,   \* stages marked pre_completed in the given plan
    Leftover,       \* what earlier plans left in the store
    MayAsk,         \* stages whose agent may request an interaction
    MayFail,        \* stages whose agent may raise or return invalid data
    UserSignals,    \* the signals the user of this instance sends
    LoopTimeouts,   \* whether a caller puts execute under wait_for
    MaxSignals,     \* bound: user signals
    MaxCalls        \* bound: calls of execute

Signals == {"none", "pause_wave", "pause_stage", "abort", "abort_now"}
Contents == {"none", "valid", "invalid"}

ASSUME PlanAssumption ==
    /\ Stages \subseteq Ids /\ IsFiniteSet(Stages)
    /\ Depends \in [Stages -> SUBSET Ids] /\ Recompiled \in [Stages -> SUBSET Ids]
    /\ Priority \in [Stages -> Int]
    /\ PreCompleted \subseteq Stages /\ Leftover \in [Stages -> Contents]
    /\ MayAsk \subseteq Stages /\ MayFail \subseteq Stages
ASSUME ConfigAssumption ==
    /\ MaxParallel \in Nat /\ SimpleRetries \in Nat /\ FreshRetries \in Nat
    /\ AllowSkip \in BOOLEAN /\ LoopTimeouts \in BOOLEAN
    /\ OnDeadlock \subseteq {"replan", "skip", "fail"}
    /\ UserSignals \subseteq Signals \ {"none"}
    /\ MaxSignals \in Nat /\ MaxCalls \in Nat

VARIABLES
    deps,       \* depends_on in the current plan
    pre,        \* the stages marked pre_completed
    skip,       \* its allow_skip_core_if_artifacts_exist
    pc,         \* where execute is
    outcome,    \* how the last call of execute ended
    pending, completed,
    results,    \* results; at the end, what the caller is given of them
    wave,       \* ready_stages
    limit,      \* wave_limit
    task,       \* the task of each stage
    attempt,    \* attempts the recovery chain has granted again
    tried,      \* RecoveryContext.fresh_session
    artifact,   \* the store: the artifact each stage produces
    asked,      \* StageRunner._pending_interactions
    signal,     \* InterruptState.signal
    event,      \* _resume_event is set
    signals, calls

planVars  == <<deps, pre, skip>>
loopVars  == <<pending, completed, results, wave, limit>>
taskVars  == <<task, attempt, tried>>
storeVars == <<artifact, asked>>
ctrlVars  == <<signal, event>>
bounds    == <<signals, calls>>
vars == <<planVars, pc, outcome, loopVars, taskVars, storeVars, ctrlVars, bounds>>

Places   == {"head", "paused", "woken", "wave_start", "wait", "drain", "wave_end",
             "pause_end", "held", "over"}
Outcomes == {"none", "returned", "interrupted", "deadlock", "stage_error", "cancelled",
             "timeout"}
Active   == {"queued", "running", "written"}
Good     == {"ok", "asks"}
Tasks    == {"none", "failed", "cancelled"} \cup Active \cup Good

TypeOK ==
    /\ deps \in [Stages -> SUBSET Ids] /\ pre \subseteq Stages /\ skip \in BOOLEAN
    /\ pc \in Places /\ outcome \in Outcomes
    /\ pending \subseteq Stages /\ completed \subseteq Stages /\ wave \subseteq Stages
    /\ results \in [Stages -> {"none", "deadlock"} \cup Good]
    /\ limit \in Nat
    /\ task \in [Stages -> Tasks]
    /\ attempt \in [Stages -> Nat] /\ tried \in [Stages -> BOOLEAN]
    /\ artifact \in [Stages -> Contents] /\ asked \subseteq Stages
    /\ signal \in Signals /\ event \in BOOLEAN
    /\ signals \in Nat /\ calls \in Nat

NoResults == [s \in Stages |-> "none"]

Init ==
    /\ deps = Depends /\ pre = PreCompleted /\ skip = AllowSkip
    /\ pc = "head" /\ outcome = "none"
    /\ pending = Stages /\ completed = {} /\ results = NoResults /\ wave = {} /\ limit = 0
    /\ task = [s \in Stages |-> "none"]
    /\ attempt = [s \in Stages |-> 0] /\ tried = [s \in Stages |-> FALSE]
    /\ artifact = Leftover /\ asked = {}
    /\ signal = "none" /\ event = TRUE
    /\ signals = 0 /\ calls = 1

-----------------------------------------------------------------------------
(* PlanExecutor.execute: the loop over waves.                               *)

Paused == signal \in {"pause_wave", "pause_stage"}

Over(how) == pc' = "over" /\ outcome' = how

\* faulty: one finished dependency is enough
EagerReady == {s \in pending : deps[s] = {} \/ deps[s] \cap completed # {}}

Ready == {s \in pending : deps[s] \subseteq completed}

\* no stage is ready: auto_replan_on_deadlock compiles the plan again, for a patch;
\* auto_skip_deadlocked_stages skips the rest, otherwise execute raises
Deadlock ==
    \/ /\ "replan" \in OnDeadlock
       /\ deps' = Recompiled /\ pre' = pre \ pending /\ skip' = TRUE
       /\ pending' = Stages \ completed
       /\ pc' = "head"
       /\ UNCHANGED <<outcome, completed, results>>
    \/ /\ "skip" \in OnDeadlock
       /\ results' = [s \in Stages |-> IF s \in pending THEN "deadlock" ELSE results[s]]
       /\ completed' = completed \cup pending /\ pending' = {}
       /\ Over("returned")
       /\ UNCHANGED planVars
    \/ /\ "fail" \in OnDeadlock
       /\ results' = NoResults
       /\ Over("deadlock")
       /\ UNCHANGED <<pending, completed, planVars>>

NextWave ==
    \/ /\ Ready # {}
       /\ wave' = Ready
       /\ pc' = "wave_start"
       /\ UNCHANGED <<outcome, pending, completed, results, planVars>>
    \/ /\ Ready = {}
       /\ Deadlock
       /\ UNCHANGED wave

Interrupted == Over("interrupted") /\ UNCHANGED <<pending, completed, results, wave, planVars>>

LoopHead ==
    /\ pc = "head"
    /\ \/ /\ pending = {}
          /\ Over("returned")
          /\ UNCHANGED <<pending, completed, results, wave, planVars>>
       \/ pending # {} /\ signal = "abort_now" /\ Interrupted
       \/ /\ pending # {} /\ Paused
          /\ pc' = "paused"
          /\ UNCHANGED <<outcome, pending, completed, results, wave, planVars>>
       \/ pending # {} /\ signal \in {"none", "abort"} /\ NextWave
    /\ UNCHANGED <<limit, taskVars, storeVars, ctrlVars, bounds>>

\* wait_if_paused has returned; a pause that came after the resume is not looked at
Woken ==
    /\ pc = "woken"
    /\ \/ signal = "abort_now" /\ Interrupted
       \/ signal # "abort_now" /\ NextWave
    /\ UNCHANGED <<limit, taskVars, storeVars, ctrlVars, bounds>>

\* _adaptive_max_parallel: the limit is doubled, up to the size of the wave, when two or more
\* agents of the wave have a record and took about equally long.  The records may be any.
Limits(W) ==
    LET n == Cardinality(W)
        double == IF 2 * MaxParallel < n THEN 2 * MaxParallel ELSE n
    IN  IF MaxParallel = 0 \/ n < 2 THEN {MaxParallel} ELSE {MaxParallel, double}

\* the wave_start hooks are done: a task for every ready stage
StartWave ==
    /\ pc = "wave_start"
    /\ limit' \in Limits(wave)
    /\ task' = [s \in Stages |-> IF s \in wave THEN "queued" ELSE task[s]]
    /\ pc' = "wait"
    /\ UNCHANGED <<outcome, pending, completed, results, wave, planVars, attempt, tried,
                   storeVars, ctrlVars, bounds>>

\* finished tasks of the wave that execute has not looked at yet
Unread == {s \in wave : task[s] \in Good \cup {"failed"} /\ results[s] = "none"}

Record(S) == results' = [s \in Stages |-> IF s \in S THEN task[s] ELSE results[s]]

Succeeded == {s \in wave : task[s] \in Good}

Peers == {s \in wave : task[s] \in Active}

CancelPeers == task' = [s \in Stages |-> IF s \in Peers THEN "cancelled" ELSE task[s]]

\* asyncio.wait returns the finished tasks; none of them ends the wave
Collect ==
    /\ pc = "wait" /\ Unread # {}
    /\ \A s \in Unread : task[s] # "failed" /\ ~(Paused /\ task[s] = "asks")
    /\ Record(Unread)
    /\ \/ /\ \A s \in wave : results'[s] # "none"
          /\ completed' = completed \cup wave /\ pending' = pending \ wave
          /\ pc' = "wave_end"
       \/ /\ \E s \in wave : results'[s] = "none"
          /\ UNCHANGED <<pc, pending, completed>>
    /\ UNCHANGED <<outcome, wave, limit, planVars, taskVars, storeVars, ctrlVars, bounds>>

\* faulty: the peers of a failed stage are left running
LenientCollectFailure ==
    /\ pc = "wait" /\ \E s \in Unread : task[s] = "failed"
    /\ Record(Succeeded) /\ Over("stage_error")
    /\ UNCHANGED <<pending, completed, wave, limit, planVars, taskVars, storeVars, ctrlVars, bounds>>

\* The peers of a failed stage are cancelled and awaited.  execute then asks every task for
\* its exception, and a cancelled one answers by raising CancelledError.
CollectFailure ==
    /\ pc = "wait"
    /\ \E s \in Unread : task[s] = "failed"
    /\ CancelPeers
    /\ \/ /\ Peers = {}
          /\ Record(Succeeded) /\ Over("stage_error")
       \/ /\ Peers # {}
          /\ results' = NoResults /\ Over("cancelled")
    /\ UNCHANGED <<pending, completed, wave, limit, planVars, attempt, tried, storeVars,
                   ctrlVars, bounds>>

\* a stage has asked its user: the rest of the wave is awaited before the pause
CollectPause ==
    /\ pc = "wait" /\ Paused
    /\ \E s \in Unread : task[s] = "asks"
    /\ pc' = "drain"
    /\ UNCHANGED <<outcome, loopVars, planVars, taskVars, storeVars, ctrlVars, bounds>>

\* faulty: a failure during the drain is reported without the other results
StingyDrain ==
    /\ pc = "drain" /\ Peers = {}
    /\ \/ Succeeded = wave /\ Record(wave) /\ pc' = "pause_end" /\ UNCHANGED outcome
       \/ Succeeded # wave /\ Over("stage_error") /\ UNCHANGED results
    /\ UNCHANGED <<pending, completed, wave, limit, planVars, taskVars, storeVars, ctrlVars, bounds>>

Drain ==
    /\ pc = "drain" /\ Peers = {}
    /\ Record(Succeeded)
    /\ \/ Succeeded = wave /\ pc' = "pause_end" /\ UNCHANGED outcome
       \/ Succeeded # wave /\ Over("stage_error")
    /\ UNCHANGED <<pending, completed, wave, limit, planVars, taskVars, storeVars, ctrlVars, bounds>>

\* faulty: the stages of a paused wave stay pending
ForgetfulPauseEnd ==
    /\ pc = "pause_end"
    /\ pc' = IF event THEN "head" ELSE "held"
    /\ UNCHANGED <<outcome, loopVars, planVars, taskVars, storeVars, ctrlVars, bounds>>

\* the wave_end hooks of a paused wave are done: wait until the event is set
PauseEnd ==
    /\ pc = "pause_end"
    /\ completed' = completed \cup wave /\ pending' = pending \ wave
    /\ pc' = IF event THEN "head" ELSE "held"
    /\ UNCHANGED <<outcome, results, wave, limit, planVars, taskVars, storeVars, ctrlVars, bounds>>

\* faulty: any signal ends the plan
HastyWaveEnd ==
    /\ pc = "wave_end"
    /\ \/ signal # "none" /\ Over("returned")
       \/ signal = "none" /\ pc' = "head" /\ UNCHANGED outcome
    /\ UNCHANGED <<loopVars, planVars, taskVars, storeVars, ctrlVars, bounds>>

\* the wave_end hooks of a complete wave are done
WaveEnd ==
    /\ pc = "wave_end"
    /\ \/ signal = "abort" /\ Over("returned")
       \/ signal = "pause_stage" /\ pc' = "held" /\ UNCHANGED outcome
       \/ signal \notin {"abort", "pause_stage"} /\ pc' = "head" /\ UNCHANGED outcome
    /\ UNCHANGED <<loopVars, planVars, taskVars, storeVars, ctrlVars, bounds>>

\* The caller's wait_for cancels execute.  gather passes the cancellation on to the tasks,
\* asyncio.wait does not.
Timeout ==
    /\ LoopTimeouts /\ pc \notin {"head", "over"}
    /\ \/ pc = "drain" /\ CancelPeers
       \/ pc # "drain" /\ UNCHANGED task
    /\ results' = NoResults
    /\ Over("timeout")
    /\ UNCHANGED <<pending, completed, wave, limit, planVars, attempt, tried, storeVars,
                   ctrlVars, bounds>>

\* execute is called again, by a replan that compiles the plan under the policy of the given
\* one and marks what the store already has.  Modelled once every task of the call before
\* has ended.
ExecuteAgain ==
    /\ pc = "over" /\ calls < MaxCalls
    /\ \A s \in Stages : task[s] \notin Active
    /\ calls' = calls + 1
    /\ pc' = "head" /\ outcome' = "none"
    /\ deps' = Recompiled /\ pre' = {s \in Stages : artifact[s] # "none"} /\ skip' = AllowSkip
    /\ pending' = Stages /\ completed' = {} /\ results' = NoResults /\ wave' = {} /\ limit' = 0
    /\ task' = [s \in Stages |-> "none"]
    /\ UNCHANGED <<attempt, tried, storeVars, ctrlVars, signals>>

-----------------------------------------------------------------------------
(* StageRunner.run, in the task of a stage.                                 *)

Running == {s \in Stages : task[s] \in {"running", "written"}}

\* the semaphore of the wave, first come first served in order of priority
MayBegin(s) ==
    /\ limit > 0 => Cardinality(Running) < limit
    /\ \A u \in Stages : task[u] = "queued" => Priority[s] <= Priority[u]

\* faulty: pre_completed is believed without a look at the store
TrustingHasArtifact(s) == s \in pre \/ (skip /\ artifact[s] = "valid")

HasArtifact(s) == artifact[s] # "none" /\ (s \in pre \/ (skip /\ artifact[s] = "valid"))

Become(s, st) == task' = [task EXCEPT ![s] = st]

\* skipped, when its artifact is there; otherwise an invalid artifact is deleted and the
\* agent called
Begin(s) ==
    /\ task[s] = "queued" /\ MayBegin(s)
    /\ \/ /\ HasArtifact(s)
          /\ Become(s, "ok")
          /\ UNCHANGED <<attempt, tried, artifact>>
       \/ /\ ~HasArtifact(s)
          /\ Become(s, "running")
          /\ attempt' = [attempt EXCEPT ![s] = 0]
          /\ tried' = [tried EXCEPT ![s] = FALSE]
          /\ artifact' = [artifact EXCEPT ![s] = IF skip THEN "none" ELSE @]
    /\ UNCHANGED <<planVars, pc, outcome, loopVars, asked, ctrlVars, bounds>>

\* valid data: _write keeps the request for an interaction and writes the artifact
AgentSucceeds(s) ==
    /\ task[s] = "running"
    /\ Become(s, "written")
    /\ artifact' = [artifact EXCEPT ![s] = "valid"]
    /\ \/ s \in MayAsk /\ asked' = asked \cup {s}
       \/ UNCHANGED asked
    /\ UNCHANGED <<planVars, pc, outcome, loopVars, attempt, tried, ctrlVars, bounds>>

\* SimpleRetryStrategy.attempt
SimpleGrants(s) == attempt[s] < SimpleRetries

\* FreshSessionStrategy.attempt, which grants one retry however many it was given
FreshGrants(s) == FreshRetries > 0 /\ ~tried[s]

\* the first strategy of the chain that does not fail
GrantsRetry(s) == SimpleGrants(s) \/ FreshGrants(s)

\* the agent raises, times out or returns data that does not validate
AgentFails(s) ==
    /\ task[s] = "running" /\ s \in MayFail
    /\ \/ /\ GrantsRetry(s)
          /\ attempt' = [attempt EXCEPT ![s] = IF SimpleGrants(s) THEN @ + 1 ELSE @]
          /\ tried' = [tried EXCEPT ![s] = ~SimpleGrants(s)]
          /\ UNCHANGED task
       \/ /\ ~GrantsRetry(s)
          /\ Become(s, "failed")
          /\ UNCHANGED <<attempt, tried>>
    /\ UNCHANGED <<planVars, pc, outcome, loopVars, storeVars, ctrlVars, bounds>>

\* the stage_end hooks are done: a request pauses the plan, whatever signal is in force
EndStage(s) ==
    /\ task[s] = "written"
    /\ \/ /\ s \in asked
          /\ Become(s, "asks")
          /\ asked' = asked \ {s}
          /\ signal' = "pause_stage" /\ event' = FALSE
       \/ /\ s \notin asked
          /\ Become(s, "ok")
          /\ UNCHANGED <<asked, ctrlVars>>
    /\ UNCHANGED <<planVars, pc, outcome, loopVars, attempt, tried, artifact, bounds>>

-----------------------------------------------------------------------------
(* InterruptController, called by the user.                                 *)

\* what setting the event does to an execute that waits for it
Wake == pc' = CASE pc = "paused" -> "woken" [] pc = "held" -> "head" [] OTHER -> pc

\* faulty: an immediate abort does not set the event
MuteSignal(sig) ==
    /\ signals < MaxSignals /\ sig \in UserSignals
    /\ signals' = signals + 1
    /\ signal' = sig
    /\ event' = (event /\ sig \notin {"pause_wave", "pause_stage"})
    /\ UNCHANGED <<planVars, pc, outcome, loopVars, taskVars, storeVars, calls>>

Signal(sig) ==
    /\ signals < MaxSignals /\ sig \in UserSignals
    /\ signals' = signals + 1
    /\ signal' = sig
    /\ \/ sig \in {"pause_wave", "pause_stage"} /\ event' = FALSE /\ UNCHANGED pc
       \/ sig = "abort" /\ UNCHANGED <<event, pc>>
       \/ sig = "abort_now" /\ event' = TRUE /\ Wake
    /\ UNCHANGED <<planVars, outcome, loopVars, taskVars, storeVars, calls>>

Resume ==
    /\ signal # "none"
    /\ signal' = "none" /\ event' = TRUE
    /\ Wake
    /\ UNCHANGED <<planVars, outcome, loopVars, taskVars, storeVars, bounds>>

-----------------------------------------------------------------------------

Execute ==
    \/ LoopHead \/ Woken \/ StartWave
    \/ Collect \/ CollectFailure \/ CollectPause \/ Drain \/ PauseEnd \/ WaveEnd

RunStage(s) == Begin(s) \/ AgentSucceeds(s) \/ AgentFails(s) \/ EndStage(s)

User == Resume \/ \E sig \in UserSignals : Signal(sig)

Next == Execute \/ (\E s \in Stages : RunStage(s)) \/ User \/ Timeout \/ ExecuteAgain

Spec == Init /\ [][Next]_vars

\* The event loop keeps running execute and the tasks, agents answer (or time out), and
\* the user resumes what is paused.
FairSpec ==
    /\ Spec
    /\ WF_vars(Execute)
    /\ \A s \in Stages : WF_vars(RunStage(s))
    /\ WF_vars(Paused /\ Resume)

-----------------------------------------------------------------------------
(* Properties.                                                              *)

\* An agent is called, and its artifact written, only while the artifact of every stage it
\* depends on is in the store.
InputsExist ==
    \A s \in Stages : task[s] \in {"running", "written"} =>
        \A d \in deps[s] : d \in Stages /\ artifact[d] # "none"

\* A stage that is reported as successful has its artifact in the store, however it got
\* there: by its agent, by an earlier call, or before a pause.
ResultsHaveArtifacts ==
    \A s \in Stages : results[s] \in Good => artifact[s] # "none"

\* Whoever gets the results, or the error of a failed stage or of an immediate abort, is told
\* of every stage that succeeded in this call: those of earlier waves, the peers that ended
\* together with the failing stage, and those awaited before a pause.  Three ends tell
\* nothing and are not claimed: the StageExecutionError of a deadlock, which has no
\* partial_results, the CancelledError a cancelled peer answers with, and the caller's timeout.
SuccessesReported ==
    pc = "over" /\ outcome \in {"returned", "interrupted", "stage_error"} =>
        \A s \in Stages : task[s] \in Good => results[s] = task[s]

\* When execute returns or raises, none of its stages is still at work.
NoPeerOutlives ==
    pc = "over" => \A s \in Stages : task[s] \notin Active

\* Within one call, a task is created for a stage at most once: neither a pause, nor a
\* resume, nor a recompiled plan runs finished work again.
OneTaskPerStage ==
    [][\A s \in Stages : task[s] # "none" /\ task'[s] = "queued" => task[s] = "queued"]_vars

\* A plan that returns has done all its stages, unless it was aborted or a deadlock was
\* skipped, and says so.
ReturnedIsComplete ==
    [][pc # "over" /\ pc' = "over" /\ outcome' = "returned" /\ signal # "abort" =>
          \A s \in Stages : results'[s] # "none"]_vars

\* A graceful abort has replaced the pause that execute waits out: the abort does not set
\* the event, and nothing tells the user that the plan still has to be resumed.
AbortUnheard == pc \in {"paused", "held"} /\ signal = "abort"

\* execute ends, or sleeps under a graceful abort that replaced a pause: there is no other
\* lost wake-up, and no wave waits for a task nobody runs.
PlanEnds == pc # "over" ~> (pc = "over" \/ AbortUnheard)

\* docstring of execute: what it raises is a StageExecutionError
RaisesStageError == outcome # "cancelled"

State(s) ==
    CASE task[s] \in {"none", "queued"} -> "todo"
      [] task[s] \in {"running", "written"} -> "running"
      [] task[s] \in Good -> "done"
      [] task[s] \in {"failed", "cancelled"} -> "stopped"

Run == INSTANCE DagRun WITH
    Plans <- {Depends, Recompiled},
    state <- [s \in Stages |-> State(s)],
    needs <- deps,
    over  <- pc = "over"

\* Waves, retries, pauses, skips and replans included, execute runs a plan the way DagRun
\* allows.
ImplementsDagRun == Run!Spec
=============================================================================
