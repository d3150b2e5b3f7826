------------------------------- MODULE DagRun -------------------------------
(***************************************************************************)
(* What executing a plan promises, without waves, retries, pauses or a       *)
(* store: a stage runs at most once per call, only after every stage it      *)
(* needs is done, and nothing runs any more once the call has ended.         *)
(***************************************************************************)
CONSTANTS Stages, Plans   \* Plans: the dependency maps a plan may get

VARIABLES
    state,   \* "todo", "running", "done" or "stopped" (failed, cancelled)
    needs,   \* the stages each stage depends on
    over     \* the call has returned or raised

States == {"todo", "running", "done", "stopped"}

Init ==
    /\ state = [s \in Stages |-> "todo"]
    /\ needs \in Plans
    /\ over = FALSE

Done == {s \in Stages : state[s] = "done"}

CanStart(s) == state[s] = "todo" /\ needs[s] \subseteq Done

Move(s, to) == state' = [state EXCEPT ![s] = to] /\ UNCHANGED <<needs, over>>

Start(s) == ~over /\ CanStart(s) /\ Move(s, "running")

\* its artifact is already there
Skip(s) == ~over /\ CanStart(s) /\ Move(s, "done")

Finish(s) == ~over /\ state[s] = "running" /\ Move(s, "done")

Fail(s) == ~over /\ state[s] = "running" /\ Move(s, "stopped")

\* a plan in which nothing can run is compiled again
Recompile ==
    /\ ~over
    /\ \A s \in Stages : state[s] # "running" /\ ~CanStart(s)
    /\ needs' \in Plans
    /\ UNCHANGED <<state, over>>

End ==
    /\ ~over /\ over' = TRUE
    /\ state' \in [Stages -> States]
    /\ \A s \in Stages :
         /\ state'[s] \in {state[s], "stopped"} \ {"running"}
         /\ state[s] = "done" => state'[s] = "done"
    /\ UNCHANGED needs

Again ==
    /\ over /\ over' = FALSE
    /\ state' = [s \in Stages |-> "todo"]
    /\ needs' \in Plans

Next ==
    \/ \E s \in Stages : Start(s) \/ Skip(s) \/ Finish(s) \/ Fail(s)
    \/ Recompile \/ End \/ Again

Spec == Init /\ [][Next]_<<state, needs, over>>
=============================================================================
