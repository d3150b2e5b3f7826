----------------------------- MODULE Admission -----------------------------
(***************************************************************************)
(* What the session scheduler promises its clients, without counters,       *)
(* locks, quotas or heartbeats: runs of a session are admitted while they   *)
(* fit, may be made to wait in line, and end.                               *)
(***************************************************************************)
EXTENDS Integers, FiniteSets

CONSTANTS Runs, Sessions, SessionOf, TenantOf, SlotsOf, Cap

VARIABLES
    outcome,   \* what has become of each submission
    position   \* its place in the line, larger is later

Outcomes == {"new", "queued", "running", "ended", "refused"}

Init ==
    /\ outcome = [r \in Runs |-> "new"]
    /\ position = [r \in Runs |-> 0]

SlotsOfAll(S) == UNION {{r} \X (1..SlotsOf[r]) : r \in S}

Running(s) == {r \in Runs : SessionOf[r] = s /\ outcome[r] = "running"}

HasRoom(r) == Cardinality(SlotsOfAll(Running(SessionOf[r]) \cup {r})) <= Cap

Become(r, o) == outcome' = [outcome EXCEPT ![r] = o]

Admit(r) ==
    /\ outcome[r] = "new" /\ HasRoom(r)
    /\ Become(r, "running")
    /\ UNCHANGED position

Refuse(r) ==
    /\ outcome[r] = "new"
    /\ Become(r, "refused")
    /\ UNCHANGED position

\* a run that has to wait goes to the end of the line
Enqueue(r) ==
    /\ outcome[r] = "new"
    /\ Become(r, "queued")
    /\ \A q \in Runs : outcome[q] = "queued" => position[q] < position'[r]
    /\ position' = [position EXCEPT ![r] = position'[r]]

\* the line is kept per session and tenant
Promote(r) ==
    /\ outcome[r] = "queued" /\ HasRoom(r)
    /\ \A q \in Runs : /\ outcome[q] = "queued"
                       /\ SessionOf[q] = SessionOf[r] /\ TenantOf[q] = TenantOf[r]
                       => position[r] <= position[q]
    /\ Become(r, "running")
    /\ UNCHANGED position

End(r) ==
    /\ outcome[r] \in {"queued", "running"}
    /\ Become(r, "ended")
    /\ UNCHANGED position

Next == \E r \in Runs : Admit(r) \/ Refuse(r) \/ Enqueue(r) \/ Promote(r) \/ End(r)

Spec == Init /\ [][Next]_<<outcome, position>>

-----------------------------------------------------------------------------

\* The runs in progress in a session never need more slots than it has.
LoadWithinCap == \A s \in Sessions : Cardinality(SlotsOfAll(Running(s))) <= Cap
=============================================================================
