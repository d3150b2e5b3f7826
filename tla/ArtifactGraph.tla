--------------------------- MODULE ArtifactGraph ---------------------------
(***************************************************************************)
(* casa/artifact/dag.py: the graph that the inputs and outputs the agents   *)
(* declare span between them.  An agent outside the declarations ("a preset *)
(* may name one") has no inputs and produces nothing.                       *)
(***************************************************************************)
EXTENDS Naturals, Sequences

CONSTANTS
    Agents,        \* agent ids
    Kinds,         \* artifact kinds
    None,          \* the empty string
    Declared       \* the keys of agent_io_map, in its order

Known == {Declared[i] : i \in DOMAIN Declared}

ASSUME GraphAssumption ==
    /\ Declared \in Seq(Agents)
    /\ \A i, j \in DOMAIN Declared : Declared[i] = Declared[j] => i = j
    /\ None \notin Agents \cup Kinds

IOMaps == [Known -> [inputs : SUBSET Kinds, output : Kinds \cup {None}]]

Makers(io, k) == {i \in DOMAIN Declared : io[Declared[i]].output = k}

\* producers[k]: of several agents that declare the kind, the last one
Producer(io, k) ==
    IF Makers(io, k) = {} THEN None
    ELSE Declared[CHOOSE i \in Makers(io, k) : \A j \in Makers(io, k) : j <= i]

Inputs(io, a) == IF a \in Known THEN io[a].inputs ELSE {}

Feeds(io, a) == {Producer(io, k) : k \in Inputs(io, a)} \ {None}

\* an agent that consumes what it produces does not wait for itself
Neighbours(io, a) == Feeds(io, a) \ {a}

\* _output_for: nothing for an agent whose kind a later one produces
OutputFor(io, a) ==
    IF \E k \in Kinds : Producer(io, k) = a
    THEN CHOOSE k \in Kinds : Producer(io, k) = a ELSE None

-----------------------------------------------------------------------------
(* What the algorithms on the graph are to compute                           *)

\* every member of C has an edge to a member of C: on finite sets, a cycle
Loop(io, C) == C # {} /\ \A a \in C : Neighbours(io, a) \cap C # {}
Cyclic(io)  == \E C \in SUBSET Known : Loop(io, C)

Closed(io, P) == \A a \in P : Feeds(io, a) \subseteq P

\* P with all it needs and nothing else
IsClosure(io, P, Q) ==
    /\ P \subseteq Q /\ Closed(io, Q)
    /\ \A R \in SUBSET Agents : P \subseteq R /\ Closed(io, R) => Q \subseteq R

\* nobody consumes its own kind, and no kind has two producers
WellDeclared(io) ==
    /\ \A a \in Known : io[a].output \notin io[a].inputs
    /\ \A a, b \in Known : a # b => io[a].output = None \/ io[a].output # io[b].output
=============================================================================
