------------------------- MODULE PlanExecutionProofs -------------------------
(***************************************************************************)
(* Theorems about PlanExecution, for every plan and configuration.           *)
(*                                                                          *)
(* PlanInv relates what execute knows (completed, results, wave) to what the *)
(* tasks have done and the store holds, place by place.                      *)
(***************************************************************************)
EXTENDS PlanExecution, FiniteSetTheorems, TLAPS

AnyActive == \E s \in Stages : task[s] \in Active

\* the places at which the tasks of the wave exist and are not yet counted as completed
InWave == {"wait", "drain", "pause_end"}

\* a stage that succeeded has its artifact, and so has one whose agent has answered
WrittenInv == \A s \in Stages : task[s] \in Good \cup {"written"} => artifact[s] # "none"

\* what is recorded as successful was successful
RecordInv == \A s \in Stages : results[s] \in Good => results[s] = task[s]

\* completed stages succeeded, unless a deadlock was skipped and everything is over
CompletedInv ==
    \A s \in completed : task[s] \in Good \/ results[s] = "deadlock"

SkippedInv == (\E s \in Stages : results[s] = "deadlock") => pc = "over" /\ ~AnyActive

\* a task at work has its dependencies completed
InputsInv ==
    \A s \in Stages : task[s] \in Active => deps[s] \subseteq completed /\ s \notin completed

\* outside the waits there is no task at work, and in them only those of the wave
ActiveInv ==
    pc # "over" => \A s \in Stages : task[s] \in Active => s \in wave /\ pc \in {"wait", "drain"}

\* a stage that is not completed has no task, but for those of the wave under way
FreshInv ==
    pc # "over" => \A s \in Stages :
        s \notin completed => task[s] = "none" \/ (s \in wave /\ pc \in InWave)

ReadyInv ==
    /\ pc # "over" => pending = Stages \ completed
    /\ pc \in {"wave_start"} \cup InWave => wave \cap completed = {}
    /\ pc = "wave_start" => \A s \in wave : deps[s] \subseteq completed
    /\ pc = "pause_end" => \A s \in wave : task[s] \in Good

\* what succeeded is recorded, but for the wave under way and for an end without results
ReportInv ==
    pc # "over" \/ outcome \in {"returned", "interrupted", "stage_error"} =>
        \A s \in Stages :
            task[s] \in Good => results[s] = task[s] \/ (s \in wave /\ pc \in {"wait", "drain"})

\* what is completed is recorded
CountedInv ==
    pc # "over" => \A s \in Stages :
        s \in completed \/ (s \in wave /\ pc = "pause_end") => results[s] # "none"

\* tasks at work at the end are the orphans of a caller that gave up
EndInv == pc = "over" /\ AnyActive => LoopTimeouts /\ outcome = "timeout"

PlanInv ==
    /\ TypeOK /\ WrittenInv /\ RecordInv /\ CompletedInv /\ SkippedInv /\ InputsInv
    /\ ActiveInv /\ FreshInv /\ ReadyInv /\ ReportInv /\ CountedInv /\ EndInv

-----------------------------------------------------------------------------
(* Types.                                                                   *)

\* the semaphore of a wave admits a number of tasks
LEMMA LimitsType ==
  ASSUME NEW W \in SUBSET Stages
  PROVE  Limits(W) \subseteq Nat
<1>1. Cardinality(W) \in Nat
  BY PlanAssumption, FS_Subset, FS_CardinalityType DEF PlanAssumption
<1> QED BY <1>1, ConfigAssumption DEF ConfigAssumption, Limits

\* one mark of a map of marks is changed
LEMMA BooleanUpdate ==
  ASSUME NEW f \in [Stages -> BOOLEAN], NEW s \in Stages, NEW b \in BOOLEAN
  PROVE  [f EXCEPT ![s] = b] \in [Stages -> BOOLEAN]
  BY Zenon

\* execute is called with a plan and nothing done yet
LEMMA TypeInit == Init => TypeOK
  BY PlanAssumption, ConfigAssumption
     DEF PlanAssumption, ConfigAssumption, Init, TypeOK, NoResults, Contents, Signals, Places,
         Outcomes, Tasks, Active, Good

\* every action writes values of the types of TypeOK
LEMMA TypeStep ==
  ASSUME TypeOK, [Next]_vars
  PROVE  TypeOK'
<1> USE DEF TypeOK, planVars, loopVars, taskVars, storeVars, ctrlVars, bounds
<1>1. CASE UNCHANGED vars
  BY <1>1 DEF vars
<1>2. CASE LoopHead
  BY <1>2, PlanAssumption
     DEF PlanAssumption, LoopHead, NextWave, Deadlock, Ready, Interrupted, Over, NoResults,
         Places, Outcomes
<1>3. CASE Woken
  BY <1>3, PlanAssumption
     DEF PlanAssumption, Woken, NextWave, Deadlock, Ready, Interrupted, Over, NoResults,
         Places, Outcomes
<1>4. CASE StartWave
  BY <1>4, LimitsType DEF StartWave, Places, Tasks, Active
<1>5. CASE Collect
  BY <1>5 DEF Collect, Record, Unread, Places, Good
<1>6. CASE CollectFailure
  BY <1>6
     DEF CollectFailure, CancelPeers, Peers, Record, Succeeded, Over, NoResults, Places,
         Outcomes, Tasks, Good
<1>7. CASE CollectPause
  BY <1>7 DEF CollectPause, Places
<1>8. CASE Drain
  BY <1>8 DEF Drain, Record, Succeeded, Over, Places, Outcomes, Good
<1>9. CASE PauseEnd
  BY <1>9 DEF PauseEnd, Places
<1>10. CASE WaveEnd
  BY <1>10 DEF WaveEnd, Over, Places, Outcomes
<1>11. ASSUME NEW s \in Stages, RunStage(s) PROVE TypeOK'
  <2>1. CASE Begin(s)
    <3>1. tried' \in [Stages -> BOOLEAN]
      BY <2>1, BooleanUpdate DEF Begin
    <3> QED BY <2>1, <3>1 DEF Begin, Become, Tasks, Active, Good, Contents
  <2>2. CASE AgentSucceeds(s)
    BY <2>2 DEF AgentSucceeds, Become, Tasks, Active, Contents
  <2>3. CASE AgentFails(s)
    <3>1. (attempt[s] >= SimpleRetries) \in BOOLEAN
      OBVIOUS
    <3>2. tried' \in [Stages -> BOOLEAN]
      BY <2>3, <3>1, BooleanUpdate, Zenon DEF AgentFails
    <3> QED BY <2>3, <3>2 DEF AgentFails, Become, Tasks
  <2>4. CASE EndStage(s)
    BY <2>4 DEF EndStage, Become, Tasks, Good, Signals
  <2> QED BY <1>11, <2>1, <2>2, <2>3, <2>4 DEF RunStage
<1>12. CASE User
  <2>1. pc' \in Places
    BY <1>12 DEF User, Resume, Signal, Wake, Places
  <2>2. event' \in BOOLEAN
    BY <1>12 DEF User, Resume, Signal
  <2>3. signal' \in Signals /\ signals' \in Nat
    BY <1>12, ConfigAssumption DEF ConfigAssumption, User, Resume, Signal, Signals
  <2> QED BY <1>12, <2>1, <2>2, <2>3 DEF User, Resume, Signal
<1>13. CASE Timeout
  BY <1>13 DEF Timeout, CancelPeers, Peers, Over, NoResults, Places, Outcomes, Tasks
<1>14. CASE ExecuteAgain
  BY <1>14, PlanAssumption, ConfigAssumption
     DEF PlanAssumption, ConfigAssumption, ExecuteAgain, NoResults, Places, Outcomes, Tasks
<1> QED
  BY <1>1, <1>2, <1>3, <1>4, <1>5, <1>6, <1>7, <1>8, <1>9, <1>10, <1>11, <1>12, <1>13, <1>14
     DEF Next, Execute

-----------------------------------------------------------------------------
(* Every action keeps PlanInv.                                              *)

PlanFacts ==
    /\ WrittenInv /\ RecordInv /\ CompletedInv /\ SkippedInv /\ InputsInv
    /\ ActiveInv /\ FreshInv /\ ReadyInv /\ ReportInv /\ CountedInv /\ EndInv

\* a task for each stage of the wave: their dependencies are completed, they had no task
LEMMA StartWaveStep ==
  ASSUME PlanInv, StartWave
  PROVE  PlanFacts'
<1>1. RecordInv'
  BY DEF PlanInv, RecordInv, FreshInv, ReadyInv, InWave, Good, StartWave
<1>2. CompletedInv'
  BY DEF PlanInv, CompletedInv, ReadyInv, TypeOK, StartWave
<1>3. InputsInv'
  BY DEF PlanInv, InputsInv, ReadyInv, planVars, StartWave
<1>4. ActiveInv'
  BY DEF PlanInv, ActiveInv, StartWave
<1>5. FreshInv'
  BY DEF PlanInv, FreshInv, InWave, StartWave
<1>6. ReportInv'
  BY DEF PlanInv, ReportInv, StartWave
<1> QED
  BY <1>1, <1>2, <1>3, <1>4, <1>5, <1>6 DEF PlanInv, PlanFacts, WrittenInv, SkippedInv,
     ReadyInv, CountedInv, EndInv, Good, storeVars, StartWave

\* a wave that is recorded is complete: nothing of it is at work
LEMMA CollectStep ==
  ASSUME PlanInv, Collect
  PROVE  PlanFacts'
<1>1. RecordInv'
  BY DEF PlanInv, RecordInv, taskVars, Collect, Record
<1>2. CompletedInv'
  BY DEF PlanInv, RecordInv, CompletedInv, TypeOK, taskVars, Collect, Record, Unread
<1>3. InputsInv'
  BY DEF PlanInv, RecordInv, SkippedInv, InputsInv, TypeOK, Active, Good, planVars, taskVars,
     Collect, Record, Unread
<1>4. FreshInv'
  BY DEF PlanInv, FreshInv, taskVars, Collect
<1>5. ReadyInv'
  BY DEF PlanInv, ReadyInv, InWave, Collect
<1>6. ReportInv'
  BY DEF PlanInv, RecordInv, SkippedInv, ReportInv, TypeOK, taskVars, Collect, Record
<1>7. CountedInv'
  BY DEF PlanInv, CountedInv, Collect, Record, Unread
<1> QED
  BY <1>1, <1>2, <1>3, <1>4, <1>5, <1>6, <1>7 DEF PlanInv, PlanFacts, WrittenInv, SkippedInv,
     InputsInv, ActiveInv, EndInv, Good, taskVars, storeVars, Collect, Record, Unread

\* the peers are the tasks at work, and all of them are cancelled
LEMMA CollectFailureStep ==
  ASSUME PlanInv, CollectFailure
  PROVE  PlanFacts'
<1>1. RecordInv'
  BY DEF PlanInv, RecordInv, Good, CollectFailure, CancelPeers, Record, NoResults
<1>2. CompletedInv'
  BY DEF PlanInv, CompletedInv, SkippedInv, TypeOK, Active, Good, CollectFailure, CancelPeers,
     Peers
<1>3. ReportInv'
  BY DEF PlanInv, ReportInv, CollectFailure, CancelPeers, Record, Succeeded, Over
<1>4. EndInv'
  BY DEF PlanInv, ActiveInv, EndInv, AnyActive, Active, CollectFailure, CancelPeers, Peers
<1> QED
  BY <1>1, <1>2, <1>3, <1>4 DEF PlanInv, PlanFacts, WrittenInv, SkippedInv, InputsInv,
     ActiveInv, FreshInv, ReadyInv, CountedInv, InWave, Good, planVars, storeVars, CollectFailure,
     CancelPeers, Peers, Record, Succeeded, Over, NoResults

\* the drain begins: the tasks stay as they are
LEMMA CollectPauseStep ==
  ASSUME PlanInv, CollectPause
  PROVE  PlanFacts'
<1>1. ActiveInv'
  BY DEF PlanInv, ActiveInv, loopVars, taskVars, CollectPause
<1>2. FreshInv'
  BY DEF PlanInv, FreshInv, InWave, loopVars, taskVars, CollectPause
<1> QED
  BY <1>1, <1>2 DEF PlanInv, PlanFacts, WrittenInv, RecordInv, CompletedInv, SkippedInv,
     InputsInv, ReadyInv, ReportInv, CountedInv, EndInv, InWave, planVars, loopVars, taskVars,
     storeVars, CollectPause

\* every task of the wave has ended; the successful ones are recorded
LEMMA DrainStep ==
  ASSUME PlanInv, Drain
  PROVE  PlanFacts'
<1>1. RecordInv'
  BY DEF PlanInv, RecordInv, taskVars, Drain, Record
<1>2. CompletedInv'
  BY DEF PlanInv, CompletedInv, TypeOK, taskVars, Drain, Record, Succeeded
<1>3. ActiveInv'
  BY DEF PlanInv, ActiveInv, taskVars, Drain, Peers
<1>4. ReadyInv'
  BY DEF PlanInv, ReadyInv, InWave, taskVars, Drain, Succeeded, Over
<1>5. ReportInv'
  BY DEF PlanInv, ReportInv, taskVars, Drain, Record, Succeeded
<1>6. CountedInv'
  BY DEF PlanInv, CountedInv, Good, Drain, Record, Succeeded, Over
<1>7. EndInv'
  BY DEF PlanInv, ActiveInv, EndInv, AnyActive, taskVars, Drain, Peers
<1> QED
  BY <1>1, <1>2, <1>3, <1>4, <1>5, <1>6, <1>7 DEF PlanInv, PlanFacts, WrittenInv, SkippedInv,
     InputsInv, FreshInv, InWave, Good, planVars, taskVars, storeVars, Drain, Record, Succeeded,
     Over

\* the wave of a pause has succeeded
LEMMA PauseEndStep ==
  ASSUME PlanInv, PauseEnd
  PROVE  PlanFacts'
<1>1. CompletedInv'
  BY DEF PlanInv, CompletedInv, ReadyInv, taskVars, PauseEnd
<1>2. FreshInv'
  BY DEF PlanInv, FreshInv, taskVars, PauseEnd
<1>3. ReadyInv'
  BY DEF PlanInv, ReadyInv, InWave, PauseEnd
<1>4. ReportInv'
  BY DEF PlanInv, ReportInv, taskVars, PauseEnd
<1>5. CountedInv'
  BY DEF PlanInv, CountedInv, PauseEnd
<1> QED
  BY <1>1, <1>2, <1>3, <1>4, <1>5 DEF PlanInv, PlanFacts, WrittenInv, RecordInv, SkippedInv,
     InputsInv, ActiveInv, EndInv, taskVars, storeVars, PauseEnd

\* nothing of the wave is at work any more
LEMMA WaveEndStep ==
  ASSUME PlanInv, WaveEnd
  PROVE  PlanFacts'
<1>1. ActiveInv'
  BY DEF PlanInv, ActiveInv, taskVars, WaveEnd
<1>2. EndInv'
  BY DEF PlanInv, ActiveInv, EndInv, AnyActive, taskVars, WaveEnd
<1> QED
  BY <1>1, <1>2 DEF PlanInv, PlanFacts, WrittenInv, RecordInv, CompletedInv, SkippedInv,
     InputsInv, FreshInv, ReadyInv, ReportInv, CountedInv, InWave, planVars, loopVars, taskVars,
     storeVars, WaveEnd, Over

\* orphans of a timeout are let through by EndInv
LEMMA TimeoutStep ==
  ASSUME PlanInv, Timeout
  PROVE  PlanFacts'
<1>1. RecordInv'
  BY DEF PlanInv, RecordInv, Good, Timeout, NoResults
<1>2. CompletedInv'
  BY DEF PlanInv, CompletedInv, SkippedInv, TypeOK, Active, Good, Timeout, CancelPeers, Peers
<1>3. SkippedInv'
  BY DEF PlanInv, SkippedInv, Timeout, NoResults
<1>4. EndInv'
  BY DEF PlanInv, EndInv, Timeout, Over
<1> QED
  BY <1>1, <1>2, <1>3, <1>4 DEF PlanInv, PlanFacts, WrittenInv, InputsInv, ActiveInv, FreshInv,
     ReadyInv, ReportInv, CountedInv, InWave, Good, planVars, storeVars, Timeout, CancelPeers,
     Peers, Over

\* a new call starts afresh over the same store
LEMMA ExecuteAgainStep ==
  ASSUME PlanInv, ExecuteAgain
  PROVE  PlanFacts'
<1>1. RecordInv'
  BY DEF PlanInv, RecordInv, ExecuteAgain, NoResults
<1>2. CompletedInv'
  BY DEF PlanInv, CompletedInv, ExecuteAgain
<1>3. SkippedInv'
  BY DEF PlanInv, SkippedInv, ExecuteAgain, NoResults
<1>4. InputsInv'
  BY DEF PlanInv, InputsInv, Active, ExecuteAgain
<1>5. FreshInv'
  BY DEF PlanInv, FreshInv, ExecuteAgain
<1> QED
  BY <1>1, <1>2, <1>3, <1>4, <1>5 DEF PlanInv, PlanFacts, WrittenInv, ActiveInv, ReadyInv,
     ReportInv, CountedInv, EndInv, Active, Good, ExecuteAgain

\* a wake-up moves execute between places where no task is at work
LEMMA UserStep ==
  ASSUME PlanInv, User
  PROVE  PlanFacts'
<1>1. ActiveInv'
  BY DEF PlanInv, ActiveInv, loopVars, taskVars, User, Resume, Signal, Wake
<1>2. FreshInv'
  BY DEF PlanInv, FreshInv, InWave, loopVars, taskVars, User, Resume, Signal, Wake
<1>3. ReadyInv'
  BY DEF PlanInv, ReadyInv, InWave, planVars, loopVars, taskVars, User, Resume, Signal, Wake
<1> QED
  BY <1>1, <1>2, <1>3 DEF PlanInv, PlanFacts, WrittenInv, RecordInv, CompletedInv, SkippedInv,
     InputsInv, ReportInv, CountedInv, EndInv, AnyActive, planVars, loopVars, taskVars, storeVars,
     User, Resume, Signal, Wake

\* between waves nothing is at work: depends_on may change, and what is pending be skipped
LEMMA NextWaveStep ==
  ASSUME PlanInv, pc \in {"head", "woken"}, NextWave,
         UNCHANGED <<limit, taskVars, storeVars, ctrlVars, bounds>>
  PROVE  PlanFacts'
<1>1. CompletedInv'
  BY DEF PlanInv, CompletedInv, SkippedInv, TypeOK, taskVars, NextWave, Deadlock
<1>2. SkippedInv'
  BY DEF PlanInv, SkippedInv, ActiveInv, AnyActive, taskVars, NextWave, Deadlock, Over
<1>3. InputsInv'
  BY DEF PlanInv, InputsInv, ReadyInv, planVars, taskVars, NextWave, Ready
<1>4. ActiveInv'
  BY DEF PlanInv, ActiveInv, taskVars
<1>5. FreshInv'
  BY DEF PlanInv, FreshInv, InWave, taskVars, NextWave, Deadlock
<1>6. ReadyInv'
  BY DEF PlanInv, ReadyInv, InWave, planVars, NextWave, Deadlock, Ready, Over
<1>7. ReportInv'
  BY DEF PlanInv, FreshInv, ReadyInv, ReportInv, InWave, Good, taskVars, NextWave, Deadlock,
     Over
<1>8. CountedInv'
  BY DEF PlanInv, CountedInv, NextWave, Deadlock, Over
<1>9. EndInv'
  BY DEF PlanInv, ActiveInv, EndInv, AnyActive, taskVars
<1> QED
  BY <1>1, <1>2, <1>3, <1>4, <1>5, <1>6, <1>7, <1>8, <1>9 DEF PlanInv, PlanFacts, WrittenInv,
     RecordInv, Good, taskVars, storeVars, NextWave, Deadlock, NoResults

\* the head of the loop returns, raises, waits or chooses a wave
LEMMA LoopHeadStep ==
  ASSUME PlanInv, LoopHead
  PROVE  PlanFacts'
<1>1. CASE NextWave
  BY <1>1, NextWaveStep DEF LoopHead
<1>2. CASE ~NextWave
  BY <1>2 DEF PlanInv, PlanFacts, WrittenInv, RecordInv, CompletedInv, SkippedInv, InputsInv,
     ActiveInv, FreshInv, ReadyInv, ReportInv, CountedInv, EndInv, AnyActive, InWave, taskVars,
     storeVars, LoopHead, Interrupted, Over
<1> QED BY <1>1, <1>2

\* after a pause, execute raises or chooses a wave
LEMMA WokenStep ==
  ASSUME PlanInv, Woken
  PROVE  PlanFacts'
<1>1. CASE NextWave
  BY <1>1, NextWaveStep DEF Woken
<1>2. CASE ~NextWave
  BY <1>2 DEF PlanInv, PlanFacts, WrittenInv, RecordInv, CompletedInv, SkippedInv, InputsInv,
     ActiveInv, FreshInv, ReadyInv, ReportInv, CountedInv, EndInv, AnyActive, InWave, taskVars,
     storeVars, Woken, Interrupted, Over
<1> QED BY <1>1, <1>2

\* a task moves on, or ends with its artifact in the store
LEMMA RunStageStep ==
  ASSUME PlanInv, NEW s \in Stages, RunStage(s)
  PROVE  PlanFacts'
<1>1. CASE Begin(s)
  <2>1. WrittenInv'
    BY <1>1 DEF PlanInv, WrittenInv, TypeOK, Good, Begin, Become, HasArtifact
  <2>2. RecordInv'
    BY <1>1 DEF PlanInv, RecordInv, TypeOK, Good, loopVars, Begin, Become
  <2>3. InputsInv'
    BY <1>1 DEF PlanInv, InputsInv, TypeOK, Good, Tasks, planVars, loopVars, Begin, Become
  <2>4. ActiveInv'
    BY <1>1 DEF PlanInv, ActiveInv, TypeOK, Good, Tasks, loopVars, Begin, Become
  <2>5. ReportInv'
    BY <1>1 DEF PlanInv, ActiveInv, ReportInv, EndInv, TypeOK, AnyActive, Good, Tasks, loopVars,
       Begin, Become
  <2> QED
    BY <1>1, <2>1, <2>2, <2>3, <2>4, <2>5 DEF PlanInv, PlanFacts, CompletedInv, SkippedInv,
       FreshInv, ReadyInv, CountedInv, EndInv, TypeOK, AnyActive, Good, Tasks, planVars, loopVars,
       Begin, Become
<1>2. CASE AgentSucceeds(s)
  <2>1. WrittenInv'
    BY <1>2 DEF PlanInv, WrittenInv, TypeOK, AgentSucceeds, Become
  <2>2. RecordInv'
    BY <1>2 DEF PlanInv, RecordInv, Good, loopVars, AgentSucceeds, Become
  <2>3. InputsInv'
    BY <1>2 DEF PlanInv, InputsInv, Active, planVars, loopVars, AgentSucceeds, Become
  <2>4. ActiveInv'
    BY <1>2 DEF PlanInv, ActiveInv, Active, loopVars, AgentSucceeds, Become
  <2>5. ReportInv'
    BY <1>2 DEF PlanInv, ReportInv, Good, loopVars, AgentSucceeds, Become
  <2> QED
    BY <1>2, <2>1, <2>2, <2>3, <2>4, <2>5 DEF PlanInv, PlanFacts, CompletedInv, SkippedInv,
       FreshInv, ReadyInv, CountedInv, EndInv, AnyActive, Active, Good, planVars, loopVars,
       AgentSucceeds, Become
<1>3. CASE AgentFails(s)
  <2>1. RecordInv'
    BY <1>3 DEF PlanInv, RecordInv, TypeOK, Good, loopVars, AgentFails, Become
  <2>2. InputsInv'
    BY <1>3 DEF PlanInv, InputsInv, TypeOK, Good, Tasks, planVars, loopVars, AgentFails, Become
  <2>3. ActiveInv'
    BY <1>3 DEF PlanInv, ActiveInv, TypeOK, Good, Tasks, loopVars, AgentFails, Become
  <2>4. ReportInv'
    BY <1>3 DEF PlanInv, ReportInv, TypeOK, Good, loopVars, AgentFails, Become
  <2>5. EndInv'
    BY <1>3 DEF PlanInv, EndInv, AnyActive, Active, AgentFails
  <2> QED
    BY <1>3, <2>1, <2>2, <2>3, <2>4, <2>5 DEF PlanInv, PlanFacts, WrittenInv, CompletedInv,
       SkippedInv, FreshInv, ReadyInv, CountedInv, TypeOK, AnyActive, Good, Tasks, planVars,
       loopVars, storeVars, AgentFails, Become
<1>4. CASE EndStage(s)
  <2>1. WrittenInv'
    BY <1>4 DEF PlanInv, WrittenInv, TypeOK, EndStage, Become
  <2>2. RecordInv'
    BY <1>4 DEF PlanInv, RecordInv, TypeOK, Good, loopVars, EndStage, Become
  <2>3. InputsInv'
    BY <1>4 DEF PlanInv, InputsInv, TypeOK, Good, Tasks, planVars, loopVars, EndStage, Become
  <2>4. ActiveInv'
    BY <1>4 DEF PlanInv, ActiveInv, TypeOK, Good, Tasks, loopVars, EndStage, Become
  <2>5. ReportInv'
    BY <1>4 DEF PlanInv, ActiveInv, ReportInv, EndInv, TypeOK, AnyActive, Good, Tasks, loopVars,
       EndStage, Become
  <2> QED
    BY <1>4, <2>1, <2>2, <2>3, <2>4, <2>5 DEF PlanInv, PlanFacts, CompletedInv, SkippedInv,
       FreshInv, ReadyInv, CountedInv, EndInv, TypeOK, AnyActive, Good, Tasks, planVars, loopVars,
       EndStage, Become
<1> QED BY <1>1, <1>2, <1>3, <1>4 DEF RunStage

\* PlanInv is inductive: what execute believes of the plan, its tasks and the store is true
\* at every await (plan_executor.py:52-276, execute.py:187-347).
THEOREM PlanInvariant == Spec => []PlanInv
<1>1. Init => PlanInv
  BY TypeInit
     DEF Init, PlanInv, WrittenInv, RecordInv, CompletedInv, SkippedInv, InputsInv, ActiveInv,
         FreshInv, ReadyInv, ReportInv, CountedInv, EndInv, AnyActive, InWave, Active, Good,
         NoResults
<1>2. PlanInv /\ [Next]_vars => PlanInv'
  <2> SUFFICES ASSUME PlanInv, [Next]_vars PROVE PlanInv'
    OBVIOUS
  <2>1. TypeOK'
    BY TypeStep DEF PlanInv
  <2>2. PlanFacts'
    <3>1. CASE UNCHANGED vars
      BY <3>1
         DEF vars, PlanInv, PlanFacts, WrittenInv, RecordInv, CompletedInv, SkippedInv, InputsInv,
             ActiveInv, FreshInv, ReadyInv, ReportInv, CountedInv, EndInv, AnyActive,
             planVars, loopVars, taskVars, storeVars
    <3>2. CASE Execute
      BY <3>2, LoopHeadStep, WokenStep, StartWaveStep, CollectStep, CollectFailureStep,
         CollectPauseStep, DrainStep, PauseEndStep, WaveEndStep DEF Execute
    <3> QED
      BY <3>1, <3>2, RunStageStep, UserStep, TimeoutStep, ExecuteAgainStep DEF Next
  <2> QED BY <2>1, <2>2 DEF PlanInv, PlanFacts
<1> QED BY <1>1, <1>2, PTL DEF Spec

\* Every variable keeps its type, for every plan and configuration (casa/orchestration's
\* PlanExecutor and StageRunner).
THEOREM PlanTypeCorrect == Spec => []TypeOK
<1>1. PlanInv => TypeOK BY DEF PlanInv
<1> QED BY <1>1, PlanInvariant, PTL

\* An agent runs only while the artifacts of all stages it depends on are in the store,
\* through retries, pauses, skipped stages and recompiled plans (plan_executor.py:92-99 with
\* execute.py:187-225).
THEOREM InputsAlwaysExist == Spec => []InputsExist
<1>1. PlanInv => InputsExist
  <2> SUFFICES ASSUME PlanInv, NEW s \in Stages, task[s] \in {"running", "written"},
                      NEW d \in deps[s]
               PROVE  d \in Stages /\ artifact[d] # "none"
    BY DEF InputsExist
  <2>1. d \in completed /\ d \in Stages
    BY DEF PlanInv, InputsInv, Active, TypeOK
  <2>2. results[d] # "deadlock"
    BY <2>1 DEF PlanInv, SkippedInv, AnyActive, Active
  <2> QED BY <2>1, <2>2 DEF PlanInv, CompletedInv, WrittenInv
<1> QED BY <1>1, PlanInvariant, PTL

\* What execute reports as a success is in the store (execute.py:211-225, 271-285).
THEOREM ResultsAreBacked == Spec => []ResultsHaveArtifacts
<1>1. PlanInv => ResultsHaveArtifacts
  BY DEF PlanInv, RecordInv, WrittenInv, ResultsHaveArtifacts
<1> QED BY <1>1, PlanInvariant, PTL

\* Unless a caller gives up on execute, no stage is at work once it has returned or raised:
\* peers of a failure are cancelled, those of a pause awaited (plan_executor.py:176-208).
THEOREM PeersEnd == ~LoopTimeouts => (Spec => []NoPeerOutlives)
<1> SUFFICES ASSUME ~LoopTimeouts PROVE Spec => []NoPeerOutlives
  OBVIOUS
<1>1. PlanInv => NoPeerOutlives
  BY DEF PlanInv, EndInv, AnyActive, NoPeerOutlives
<1> QED BY <1>1, PlanInvariant, PTL

\* Whoever gets results or a StageExecutionError is told of every success of the call
\* (plan_executor.py:176-231, 247-276).
THEOREM SuccessesAreTold == Spec => []SuccessesReported
<1>1. PlanInv => SuccessesReported
  BY DEF PlanInv, ReportInv, SuccessesReported
<1> QED BY <1>1, PlanInvariant, PTL

\* A plan that returns without an abort has a result for every stage
\* (plan_executor.py:69-137, 270-276).
THEOREM ReturnsAreComplete == Spec => ReturnedIsComplete
<1> DEFINE Complete ==
      pc # "over" /\ pc' = "over" /\ outcome' = "returned" /\ signal # "abort" =>
          \A s \in Stages : results'[s] # "none"
<1>1. PlanInv /\ [Next]_vars => [Complete]_vars
  <2> SUFFICES ASSUME PlanInv, Next, pc # "over", pc' = "over", outcome' = "returned",
                      signal # "abort", NEW s \in Stages
               PROVE  results'[s] # "none"
    OBVIOUS
  <2>1. s \in completed => results[s] # "none"
    BY DEF PlanInv, CountedInv
  <2>2. s \in pending \cup completed
    BY DEF PlanInv, ReadyInv, TypeOK
  <2>3. CASE LoopHead
    BY <2>1, <2>2, <2>3 DEF LoopHead, Interrupted, NextWave, Deadlock, Over
  <2>4. CASE Woken
    BY <2>1, <2>2, <2>4 DEF Woken, Interrupted, NextWave, Deadlock, Over
  <2>5. CASE Execute /\ ~LoopHead /\ ~Woken
    BY <2>5
       DEF Execute, StartWave, Collect, CollectFailure, CollectPause, Drain, PauseEnd, WaveEnd,
           Over
  <2>6. pc' = pc \/ ~\E u \in Stages : RunStage(u)
    BY DEF RunStage, Begin, AgentSucceeds, AgentFails, EndStage
  <2>7. CASE User
    BY <2>7 DEF User, Resume, Signal, Wake
  <2>8. CASE Timeout \/ ExecuteAgain
    BY <2>8 DEF Timeout, ExecuteAgain, Over
  <2> QED BY <2>3, <2>4, <2>5, <2>6, <2>7, <2>8 DEF Next
<1> QED BY <1>1, PlanInvariant, PTL DEF Spec, ReturnedIsComplete

\* No stage is started twice in one call (plan_executor.py:92-99, 233-272).
THEOREM NoSecondTask == Spec => OneTaskPerStage
<1> DEFINE Once == \A s \in Stages : task[s] # "none" /\ task'[s] = "queued" => task[s] = "queued"
<1>1. PlanInv /\ [Next]_vars => [Once]_vars
  <2> SUFFICES ASSUME PlanInv, Next, NEW s \in Stages, task[s] # "none", task'[s] = "queued"
               PROVE  task[s] = "queued"
    OBVIOUS
  <2> USE DEF PlanInv, TypeOK, planVars, loopVars, taskVars, storeVars, ctrlVars, bounds
  <2>1. CASE StartWave
    BY <2>1 DEF StartWave, FreshInv, ReadyInv, InWave
  <2>2. CASE Execute /\ ~StartWave
    BY <2>2
       DEF Execute, LoopHead, Woken, Collect, CollectFailure, CollectPause, Drain, PauseEnd,
           WaveEnd, CancelPeers
  <2>3. ASSUME NEW u \in Stages, RunStage(u) PROVE task[s] = "queued"
    BY <2>3 DEF RunStage, Begin, AgentSucceeds, AgentFails, EndStage, Become
  <2>4. CASE User
    BY <2>4 DEF User, Resume, Signal
  <2>5. CASE Timeout
    BY <2>5 DEF Timeout, CancelPeers
  <2>6. CASE ExecuteAgain
    BY <2>6 DEF ExecuteAgain
  <2> QED BY <2>1, <2>2, <2>3, <2>4, <2>5, <2>6 DEF Next
<1> QED BY <1>1, PlanInvariant, PTL DEF Spec, OneTaskPerStage
-----------------------------------------------------------------------------
(* PlanExecution implements DagRun.                                         *)

Mapped == [s \in Stages |-> State(s)]

\* a step in which no stage changes its state, and execute neither ends nor begins
LEMMA StutterStep ==
  ASSUME UNCHANGED deps, (pc = "over") = (pc' = "over"),
         \A s \in Stages : State(s)' = State(s)
  PROVE  UNCHANGED <<Mapped, deps, pc = "over">>
  BY DEF Mapped

\* execute returns or raises: what is done stays done, what is at work is stopped
LEMMA EndStep ==
  ASSUME TypeOK, TypeOK', pc # "over", pc' = "over", UNCHANGED deps,
         \A s \in Stages : task'[s] = task[s] \/ (task[s] \in Active /\ task'[s] = "cancelled"),
         ~AnyActive'
  PROVE  Run!End
<1>1. Mapped' \in [Stages -> Run!States]
  BY DEF TypeOK, Mapped, State, Run!States, Tasks, Active, Good
<1>2. \A s \in Stages : Mapped'[s] = State(s)' /\ Mapped[s] = State(s)
  BY DEF Mapped
<1>3. ASSUME NEW s \in Stages
      PROVE  /\ State(s)' \in {State(s), "stopped"} \ {"running"}
             /\ State(s) = "done" => State(s)' = "done"
  BY DEF State, TypeOK, AnyActive, Active, Good, Tasks
<1> QED BY <1>1, <1>2, <1>3 DEF Run!End, Mapped

\* a deadlock: every dependency of a stage that waits is looked for among what is done
LEMMA RecompileStep ==
  ASSUME PlanInv, pc # "over", pc' # "over", Ready = {}, deps' = Recompiled, UNCHANGED task,
         pc \in {"head", "woken"}
  PROVE  Run!Recompile
<1>1. ASSUME NEW s \in Stages PROVE State(s) # "running"
  BY DEF PlanInv, ActiveInv, State, Active, Good, Tasks, TypeOK
<1>2. ASSUME NEW s \in Stages, State(s) = "todo" PROVE ~(deps[s] \subseteq Run!Done)
  <2>1. s \in pending
    BY <1>2 DEF PlanInv, TypeOK, CompletedInv, SkippedInv, ReadyInv, State, Good
  <2>2. PICK d \in deps[s] : d \notin completed
    BY <2>1 DEF Ready
  <2>3. d \notin Run!Done
    BY <2>2 DEF PlanInv, TypeOK, FreshInv, InWave, Run!Done, State, Good
  <2> QED BY <2>2, <2>3
<1>3. \A s \in Stages : State(s)' = State(s)
  BY DEF State
<1> QED BY <1>1, <1>2, <1>3 DEF Run!Recompile, Run!CanStart

\* a step of a task is Start, Skip, Finish or Fail of its stage, or is not visible
LEMMA RefineRunStage ==
  ASSUME PlanInv, ~LoopTimeouts, NEW s \in Stages, RunStage(s)
  PROVE  Run!Next \/ UNCHANGED <<Mapped, deps, pc = "over">>
<1> USE DEF planVars
<1>1. task[s] \in Active /\ pc # "over"
  BY DEF RunStage, Begin, AgentSucceeds, AgentFails, EndStage, Active, PlanInv, EndInv, AnyActive
<1>2. pc' = pc /\ UNCHANGED deps
  BY DEF RunStage, Begin, AgentSucceeds, AgentFails, EndStage
<1>3. ASSUME NEW st, Become(s, st)
      PROVE  Mapped' = [Mapped EXCEPT ![s] = State(s)']
  <2>1. \A u \in Stages \ {s} : State(u)' = State(u)
    BY <1>3 DEF Become, State, PlanInv, TypeOK
  <2> QED BY <2>1 DEF Mapped
<1>4. CASE Begin(s)
  <2>1. deps[s] \subseteq Run!Done
    BY <1>1 DEF PlanInv, InputsInv, CompletedInv, SkippedInv, AnyActive, TypeOK, Run!Done, State,
                Good, Active
  <2>2. State(s) = "todo"
    BY <1>4 DEF Begin, State, Good
  <2>3. CASE Become(s, "running")
    <3>1. State(s)' = "running"
      BY <2>3 DEF Become, State, Good, PlanInv, TypeOK
    <3> QED
      BY <1>1, <1>2, <1>3, <2>1, <2>2, <2>3, <3>1
         DEF Run!Next, Run!Start, Run!CanStart, Run!Move, Mapped
  <2>4. CASE Become(s, "ok")
    <3>1. State(s)' = "done"
      BY <2>4 DEF Become, State, Good, PlanInv, TypeOK
    <3> QED
      BY <1>1, <1>2, <1>3, <2>1, <2>2, <2>4, <3>1
         DEF Run!Next, Run!Skip, Run!CanStart, Run!Move, Mapped
  <2> QED BY <1>4, <2>3, <2>4 DEF Begin
<1>5. CASE AgentSucceeds(s)
  <2>1. \A u \in Stages : State(u)' = State(u)
    BY <1>5 DEF AgentSucceeds, Become, State, Good, PlanInv, TypeOK
  <2> QED BY <1>2, <2>1, StutterStep
<1>6. CASE AgentFails(s)
  <2>1. CASE UNCHANGED task
    <3>1. \A u \in Stages : State(u)' = State(u)
      BY <2>1 DEF State
    <3> QED BY <1>2, <3>1, StutterStep
  <2>2. CASE Become(s, "failed")
    <3>1. State(s) = "running" /\ State(s)' = "stopped"
      BY <1>6, <2>2 DEF AgentFails, Become, State, Good, PlanInv, TypeOK
    <3> QED
      BY <1>1, <1>2, <1>3, <2>2, <3>1 DEF Run!Next, Run!Fail, Run!Move, Mapped
  <2> QED BY <1>6, <2>1, <2>2 DEF AgentFails
<1>7. CASE EndStage(s)
  <2>1. PICK st \in Good : Become(s, st)
    BY <1>7 DEF EndStage, Good
  <2>2. State(s) = "running" /\ State(s)' = "done"
    BY <1>7, <2>1 DEF EndStage, Become, State, Good, PlanInv, TypeOK
  <2> QED
    BY <1>1, <1>2, <1>3, <2>1, <2>2 DEF Run!Next, Run!Finish, Run!Move, Mapped
<1> QED BY <1>4, <1>5, <1>6, <1>7 DEF RunStage

\* a step of execute is Recompile or End, or is not visible
LEMMA RefineExecute ==
  ASSUME PlanInv, PlanInv', ~LoopTimeouts, Execute
  PROVE  Run!Next \/ UNCHANGED <<Mapped, deps, pc = "over">>
<1> USE DEF planVars, taskVars
<1>1. pc # "over"
  BY DEF Execute, LoopHead, Woken, StartWave, Collect, CollectFailure, CollectPause, Drain,
         PauseEnd, WaveEnd
<1>2. \/ UNCHANGED deps
      \/ /\ deps' = Recompiled /\ Ready = {} /\ pc' = "head" /\ UNCHANGED task
         /\ pc \in {"head", "woken"}
  BY DEF Execute, LoopHead, Woken, NextWave, Deadlock, Interrupted, StartWave, Collect,
         CollectFailure, CollectPause, Drain, PauseEnd, WaveEnd
<1>3. CASE deps' = Recompiled /\ Ready = {} /\ pc' = "head" /\ UNCHANGED task
           /\ pc \in {"head", "woken"}
  BY <1>1, <1>3, RecompileStep DEF Run!Next
<1>4. CASE UNCHANGED deps /\ pc' # "over"
  <2>1. CASE StartWave
    <3>1. \A s \in Stages : State(s)' = State(s)
      BY <2>1 DEF StartWave, PlanInv, TypeOK, FreshInv, ReadyInv, InWave, State, Good
    <3> QED BY <1>1, <1>4, <3>1, StutterStep
  <2>2. CASE ~StartWave
    <3>1. UNCHANGED task
      BY <1>4, <2>2
         DEF Execute, LoopHead, Woken, Collect, CollectFailure, CollectPause, Drain, PauseEnd,
             WaveEnd, Over
    <3>2. \A s \in Stages : State(s)' = State(s)
      BY <3>1 DEF State
    <3> QED BY <1>1, <1>4, <3>2, StutterStep
  <2> QED BY <2>1, <2>2
<1>5. CASE UNCHANGED deps /\ pc' = "over"
  <2>1. \A s \in Stages : task'[s] = task[s] \/ (task[s] \in Active /\ task'[s] = "cancelled")
    BY <1>5
       DEF Execute, LoopHead, Woken, StartWave, Collect, CollectFailure, CollectPause, Drain,
           PauseEnd, WaveEnd, CancelPeers, Peers, PlanInv, TypeOK
  <2>2. ~AnyActive'
    BY <1>5 DEF PlanInv, EndInv
  <2> QED BY <1>1, <1>5, <2>1, <2>2, EndStep DEF PlanInv, Run!Next
<1> QED BY <1>2, <1>3, <1>4, <1>5

\* For every plan, and unless a caller gives up on execute, waves, retries, pauses, skipped
\* stages and recompiled plans run each stage at most once, after what it needs, and
\* nothing after the end (PlanExecutor.execute, StageRunner.run).
THEOREM Refinement == ~LoopTimeouts => (Spec => ImplementsDagRun)
<1> SUFFICES ASSUME ~LoopTimeouts PROVE Spec => Run!Spec
  BY DEF ImplementsDagRun
<1>1. Init => Run!Init
  BY DEF Init, Run!Init, State, Good
<1>2. PlanInv /\ PlanInv' /\ [Next]_vars => [Run!Next]_<<Mapped, deps, pc = "over">>
  <2> SUFFICES ASSUME PlanInv, PlanInv', [Next]_vars
               PROVE  Run!Next \/ UNCHANGED <<Mapped, deps, pc = "over">>
    OBVIOUS
  <2>1. CASE UNCHANGED vars
    <3>1. \A s \in Stages : State(s)' = State(s)
      BY <2>1 DEF vars, taskVars, State
    <3> QED BY <2>1, <3>1, StutterStep DEF vars, planVars
  <2>2. CASE Execute
    BY <2>2, RefineExecute
  <2>3. ASSUME NEW s \in Stages, RunStage(s)
        PROVE  Run!Next \/ UNCHANGED <<Mapped, deps, pc = "over">>
    BY <2>3, RefineRunStage
  <2>4. CASE User
    <3>1. UNCHANGED <<deps, task>> /\ (pc = "over") = (pc' = "over")
      BY <2>4 DEF User, Resume, Signal, Wake, planVars, taskVars
    <3>2. \A s \in Stages : State(s)' = State(s)
      BY <3>1 DEF State
    <3> QED BY <3>1, <3>2, StutterStep
  <2>5. CASE ExecuteAgain
    <3>1. \A s \in Stages : State(s)' = "todo"
      BY <2>5 DEF ExecuteAgain, State, Good
    <3> QED BY <2>5, <3>1 DEF ExecuteAgain, Run!Next, Run!Again
  <2> QED BY <2>1, <2>2, <2>3, <2>4, <2>5 DEF Next, Timeout
<1> QED BY <1>1, <1>2, PlanInvariant, PTL DEF Spec, Run!Spec, Mapped
=============================================================================
