---------------------------- MODULE PlanCompiler ----------------------------
(***************************************************************************)
(* casa/orchestration/compile.py and plan_recovery.py on the algorithms of   *)
(* casa/artifact/dag.py: how declarations and a request become a plan, how   *)
(* the normalizer edits it, and how a plan whose execution is stuck is       *)
(* compiled again.  One step per iteration of each loop; everything else of  *)
(* a call is one step.                                                       *)
(***************************************************************************)
EXTENDS ArtifactGraph, FiniteSets, SequencesExt

CONSTANTS
    Declarations,  \* the agent_io_maps considered
    Core,          \* core_pipeline_ids, of the compiler and the normalizer
    Required,      \* required_agent_ids
    Sorted,        \* the agents in the order of their ids
    SetOrders,     \* the orders in which a process may enumerate a set of agents
    Evaluators,    \* agents whose capability row says is_evaluator
    MaxEval,       \* max_eval_stages_per_plan
    Requests,      \* compile requests considered
    Normalizers,   \* configurations of the normalizer, with the health it sees
    MaxRecoveries  \* bound: deadlocks of the executor

\* presets and seed_stages as the agents they name, the policy as its flags
RequestType == [preset : SUBSET Agents, stages : SUBSET Agents,
                core : BOOLEAN, closure : BOOLEAN]
\* enabled = {}: no whitelist; aware: it is given the agent_io_map
NormalizerType == [enabled : SUBSET Agents, forbidden : SUBSET Agents,
                   sick : SUBSET Agents, aware : BOOLEAN]

ASSUME CompilerAssumption ==
    /\ Declarations \subseteq IOMaps
    /\ Core \cup Required \subseteq Agents
    /\ Sorted \in Seq(Agents) /\ {Sorted[i] : i \in DOMAIN Sorted} = Agents
    /\ \A i, j \in DOMAIN Sorted : Sorted[i] = Sorted[j] => i = j
    /\ SetOrders \subseteq SetToSeqs(Agents)
    /\ Evaluators \subseteq Agents /\ MaxEval \in Nat
    /\ Requests \subseteq RequestType /\ Normalizers \subseteq NormalizerType
    /\ MaxRecoveries \in Nat

VARIABLES
    io,            \* agent_io_map
    setOrder,      \* the order of sets in this process
    path, black,   \* the cycle check: the calls of dfs under way, the nodes done
    phase,
    request, base, \* the request, and the agents the closure starts from
    pool,          \* the agents of the plan
    waves,         \* partition_waves so far
    plan,          \* plan.stages
    normalizer,    \* what the last normalize ran with, if it ran
    stuck          \* the deadlock the executor reported

graph   == <<io, setOrder, path, black>>
vars    == <<graph, phase, request, base, pool, waves, plan, normalizer, stuck>>

NoRequest == [preset |-> {}, stages |-> {}, core |-> FALSE, closure |-> FALSE]
NoNormalizer == [enabled |-> {}, forbidden |-> {}, sick |-> {None}, aware |-> TRUE]
NoDeadlock == [times |-> 0, pending |-> {}, agents |-> {}, succeeded |-> {}, artifacts |-> {}]

Init ==
    /\ io \in Declarations
    /\ setOrder \in SetOrders
    /\ path = <<>> /\ black = {}
    /\ phase = "check"
    /\ request = NoRequest
    /\ base = {} /\ pool = {} /\ waves = <<>> /\ plan = <<>>
    /\ normalizer = NoNormalizer
    /\ stuck = NoDeadlock

-----------------------------------------------------------------------------
(* Lists                                                                     *)

\* the members of S in the total order that the pairs of before give
Ranked(S, before) ==
    [n \in 1..Cardinality(S) |->
        CHOOSE c \in S : Cardinality({d \in S : <<d, c>> \in before}) = n]

\* the elements at the positions of I, in their order
Keep(list, I) ==
    LET at == Ranked(I, {p \in I \X I : p[1] <= p[2]})
    IN  [n \in DOMAIN at |-> list[at[n]]]

-----------------------------------------------------------------------------
(* _check_cycles                                                             *)

top == path[Len(path)]

VisitRoot(a) ==
    /\ phase = "check" /\ path = <<>> /\ a \notin black
    /\ path' = <<a>>
    /\ UNCHANGED <<io, setOrder, black, phase, request, base, pool, waves, plan, normalizer, stuck>>

Descend(a) ==
    /\ phase = "check" /\ path # <<>>
    /\ a \in Neighbours(io, top) /\ a \notin black \cup Range(path)
    /\ path' = Append(path, a)
    /\ UNCHANGED <<io, setOrder, black, phase, request, base, pool, waves, plan, normalizer, stuck>>

\* an edge to a gray node: from_declarations raises
Refuse ==
    /\ phase = "check" /\ path # <<>>
    /\ Neighbours(io, top) \cap Range(path) # {}
    /\ phase' = "refused"
    /\ UNCHANGED <<graph, request, base, pool, waves, plan, normalizer, stuck>>

\* faulty: a node counts as done when it is entered
EagerLeave ==
    /\ phase = "check" /\ path # <<>>
    /\ black' = black \cup {top}
    /\ path' = SubSeq(path, 1, Len(path) - 1)
    /\ UNCHANGED <<io, setOrder, phase, request, base, pool, waves, plan, normalizer, stuck>>

Leave ==
    /\ phase = "check" /\ path # <<>>
    /\ Neighbours(io, top) \subseteq black
    /\ black' = black \cup {top}
    /\ path' = SubSeq(path, 1, Len(path) - 1)
    /\ UNCHANGED <<io, setOrder, phase, request, base, pool, waves, plan, normalizer, stuck>>

Accept ==
    /\ phase = "check" /\ path = <<>> /\ black = Known
    /\ phase' = "idle"
    /\ UNCHANGED <<graph, request, base, pool, waves, plan, normalizer, stuck>>

CheckCycles == (\E a \in Known : VisitRoot(a) \/ Descend(a)) \/ Refuse \/ Leave \/ Accept

-----------------------------------------------------------------------------
(* PlanCompiler.compile                                                      *)

\* seed_stages are checked against the declarations, a preset alone is not
Unknown(r) == r.stages # {} /\ ~(r.preset \cup r.stages \subseteq Known)

\* what compile makes of the request before the closure
StartFrom(r) ==
    /\ request' = r
    /\ base' = r.preset \cup r.stages \cup (IF r.core THEN Core ELSE {})
                  \cup (IF r.closure THEN Required ELSE {})
    /\ pool' = base'
    /\ phase' = IF r.closure THEN "closing" ELSE "closed"
    /\ waves' = <<>>

Resolve(r) ==
    /\ phase = "idle"
    /\ IF Unknown(r)
       THEN phase' = "rejected" /\ UNCHANGED <<request, base, pool, waves>>
       ELSE StartFrom(r)
    /\ UNCHANGED <<graph, plan, normalizer, stuck>>

Include(a) ==
    /\ phase = "closing" /\ a \in pool
    /\ \E p \in Feeds(io, a) \ pool : pool' = pool \cup {p}
    /\ UNCHANGED <<graph, phase, request, base, waves, plan, normalizer, stuck>>

\* faulty: one round over the agents it started from
CloseOnce ==
    /\ phase = "closing" /\ \A a \in base : Feeds(io, a) \subseteq pool
    /\ phase' = "closed"
    /\ UNCHANGED <<graph, request, base, pool, waves, plan, normalizer, stuck>>

\* the loop ends with a round that adds nothing
CloseDone ==
    /\ phase = "closing" /\ Closed(io, pool)
    /\ phase' = "closed"
    /\ UNCHANGED <<graph, request, base, pool, waves, plan, normalizer, stuck>>

\* compute_dependencies
Deps(a) == Neighbours(io, a) \cap pool
Done    == UNION Range(waves)

Ready   == {a \in pool \ Done : Deps(a) \subseteq Done}

\* one round of partition_waves; with nothing ready it raises
PartitionWave ==
    /\ phase = "closed" /\ Done # pool
    /\ IF Ready = {}
       THEN phase' = "deadlocked" /\ UNCHANGED waves
       ELSE waves' = Append(waves, Ready) /\ UNCHANGED phase
    /\ UNCHANGED <<graph, request, base, pool, plan, normalizer, stuck>>

\* _inject_evaluators: each producer stage is followed by a stage per evaluator,
\* in the order the set of evaluators happens to have, while the limit lasts
RawStage(a) ==
    [id |-> a, agent |-> a, role |-> "producer", kind |-> OutputFor(io, a),
     deps |-> Deps(a), refs |-> Inputs(io, a), pre |-> FALSE]
\* faulty: the verdict goes to the kind of what it judges
EvalInPlace(s, e) ==
    [id |-> <<s.id, e>>, agent |-> e, role |-> "evaluator", kind |-> s.kind,
     deps |-> {s.id}, refs |-> {}, pre |-> FALSE]

EvalStage(s, e) ==
    [id |-> <<s.id, e>>, agent |-> e, role |-> "evaluator", kind |-> <<s.kind, "eval">>,
     deps |-> {s.id}, refs |-> {}, pre |-> FALSE]

\* place <<i, 0>> is for stage i, <<i, j>> for what evaluator j of setOrder says of it
UpTo(q, o) == q[1] < o[1] \/ (q[1] = o[1] /\ q[2] <= o[2])
Inject(stages) ==
    LET offers == {o \in (DOMAIN stages) \X (DOMAIN setOrder) :
                      setOrder[o[2]] \in Evaluators \ {stages[o[1]].agent}}
        taken  == {o \in offers : Cardinality({q \in offers : UpTo(q, o)}) <= MaxEval}
        places == ((DOMAIN stages) \X {0}) \cup taken
        list   == Ranked(places, {p \in places \X places : UpTo(p[1], p[2])})
        At(i, j) == IF j = 0 THEN stages[i] ELSE EvalStage(stages[i], setOrder[j])
    IN  [n \in DOMAIN list |-> At(list[n][1], list[n][2])]

Build ==
    /\ phase = "closed" /\ Done = pool
    /\ LET agents == Keep(Sorted, {i \in DOMAIN Sorted : Sorted[i] \in pool})
       IN  plan' = Inject([i \in DOMAIN agents |-> RawStage(agents[i])])
    /\ phase' = "compiled"
    /\ UNCHANGED <<graph, request, base, pool, waves, normalizer, stuck>>

Compile == (\E r \in Requests : Resolve(r)) \/ (\E a \in Agents : Include(a))
           \/ CloseDone \/ PartitionWave \/ Build

-----------------------------------------------------------------------------
(* PlanNormalizer.normalize                                                  *)

KindOf(s)      == IF s.kind = None THEN s.agent ELSE s.kind
Ids(stages)    == {stages[i].id : i \in DOMAIN stages}
Writers(stages, k) == {i \in DOMAIN stages : KindOf(stages[i]) = k}

\* producer_by_kind: the last stage of the list that writes the kind
WriterOf(stages, k) == stages[Max(Writers(stages, k))].id

\* faulty: references to stages that are gone stay
RelinkKeep(stages, aware) ==
    [i \in DOMAIN stages |->
        LET s  == stages[i]
            ks == {k \in Inputs(io, s.agent) : Writers(stages, k) # {}}
        IN  IF aware /\ s.agent \in Known
            THEN [s EXCEPT !.deps = s.deps \cup {WriterOf(stages, k) : k \in ks}, !.refs = ks]
            ELSE s]

Relink(stages, aware) ==
    [i \in DOMAIN stages |->
        LET s  == stages[i]
            ks == {k \in Inputs(io, s.agent) : Writers(stages, k) # {}}
        IN  IF aware /\ s.agent \in Known
            THEN [s EXCEPT !.deps = (s.deps \cap Ids(stages)) \cup {WriterOf(stages, k) : k \in ks},
                           !.refs = ks]
            ELSE [s EXCEPT !.deps = @ \cap Ids(stages)]]

\* a missing core stage; undeclared, or without the declarations, its kind is its name
CoreStage(a, aware) ==
    [id |-> a, agent |-> a, role |-> "producer",
     kind |-> IF aware /\ a \in Known /\ io[a].output # None THEN io[a].output ELSE a,
     deps |-> {}, refs |-> {}, pre |-> FALSE]

\* each missing core stage is inserted in front, so the last comes first
Normalized(stages, n) ==
    LET Admits(a) == n.enabled = {} \/ a \in n.enabled
        enabled  == Keep(stages, {i \in DOMAIN stages : Admits(stages[i].agent)})
        present  == {enabled[i].agent : i \in DOMAIN enabled}
        missing  == Reverse(Keep(setOrder, {i \in DOMAIN setOrder :
                                               setOrder[i] \in Core \ present /\ Admits(setOrder[i])}))
        whole    == [i \in DOMAIN missing |-> CoreStage(missing[i], n.aware)] \o enabled
        allowed  == Keep(whole, {i \in DOMAIN whole : whole[i].agent \notin n.forbidden})
        linked   == Relink(allowed, n.aware)
        healthy  == Keep(linked, {i \in DOMAIN linked : linked[i].agent \notin n.sick})
    IN  Relink(healthy, n.aware)

\* the configuration stays, the health of the agents does not
SameConfig(n) ==
    stuck.times = 0 \/ (normalizer # NoNormalizer /\ [n EXCEPT !.sick = {}] = [normalizer EXCEPT !.sick = {}])

Normalize(n) ==
    /\ phase = "compiled" /\ SameConfig(n)
    /\ plan' = IF plan = <<>> THEN plan ELSE Normalized(plan, n)
    /\ normalizer' = n
    /\ phase' = "ready"
    /\ UNCHANGED <<graph, request, base, pool, waves, stuck>>

-----------------------------------------------------------------------------
(* recover_plan_from_deadlock                                                *)

\* The executor is stuck on some stages of the plan it was given, which may be
\* one whose depends_on somebody edited before it was approved.  What was done has
\* its artifact in the store; the rest may have one of an earlier run (old).
Deadlock ==
    /\ phase = "recovered" \/ (phase \in {"compiled", "ready"} /\ stuck.times = 0)
    /\ stuck.times < MaxRecoveries
    /\ \E pending \in (SUBSET Ids(plan)) \ {{}}, skipped \in SUBSET Ids(plan), old \in BOOLEAN :
          LET completed == Ids(plan) \ pending
              At(S)     == {i \in DOMAIN plan : plan[i].id \in S}
          IN  /\ skipped \subseteq completed
              /\ stuck' = [times |-> stuck.times + 1, pending |-> pending,
                           agents |-> {plan[i].agent : i \in At(pending)},
                           succeeded |-> completed \ skipped,
                           artifacts |-> {KindOf(plan[i]) :
                                            i \in At(IF old THEN Ids(plan) ELSE completed)}]
              /\ LET seed == {plan[i].agent : i \in DOMAIN plan}
                 IN  IF seed \subseteq Known
                     THEN StartFrom([preset |-> {}, stages |-> seed, core |-> FALSE, closure |-> TRUE])
                     ELSE phase' = "rejected" /\ UNCHANGED <<request, base, pool, waves>>
    /\ UNCHANGED <<graph, plan, normalizer>>

\* faulty: whatever has an artifact is done, also what is to be retried
MarkAll(s) == [s EXCEPT !.pre = KindOf(s) \in stuck.artifacts]

Mark(s) ==
    IF s.id \in stuck.succeeded THEN [s EXCEPT !.pre = TRUE]
    ELSE IF s.agent \in stuck.agents THEN [s EXCEPT !.pre = FALSE]
    ELSE [s EXCEPT !.pre = KindOf(s) \in stuck.artifacts /\ s.id \notin stuck.pending]

Recover ==
    /\ stuck.times > 0
    /\ phase = IF normalizer = NoNormalizer THEN "compiled" ELSE "ready"
    /\ plan' = [i \in DOMAIN plan |-> Mark(plan[i])]
    /\ phase' = "recovered"
    /\ UNCHANGED <<graph, request, base, pool, waves, normalizer, stuck>>

Next ==
    \/ CheckCycles \/ Compile
    \/ \E n \in Normalizers : Normalize(n)
    \/ Deadlock \/ Recover

Spec == Init /\ [][Next]_vars

-----------------------------------------------------------------------------
TypeOK ==
    /\ io \in Declarations /\ setOrder \in SetOrders
    /\ path \in Seq(Known) /\ black \subseteq Known
    /\ phase \in {"check", "refused", "idle", "rejected", "closing", "closed", "deadlocked",
                  "compiled", "ready", "recovered"}
    /\ request \in RequestType
    /\ base \subseteq Agents /\ pool \subseteq Agents
    /\ waves \in Seq(SUBSET Agents)
    /\ normalizer \in Normalizers \cup {NoNormalizer}

\* from_declarations raises on a cycle between agents and on nothing else
\* (dag.py:67 _check_cycles).
CycleCheckIsExact ==
    /\ phase = "refused" => Cyclic(io)
    /\ phase \notin {"check", "refused"} => ~Cyclic(io)

\* closure adds every producer that the selected agents need, directly or not,
\* and no other agent (dag.py:211 closure).
ClosureIsLeast ==
    phase \in {"closed", "compiled"} /\ request.closure => IsClosure(io, base, pool)

\* Declarations that were accepted can always be split into waves: compile does
\* not raise the deadlock error of partition_waves, whatever is selected.
PartitionNeverStuck == phase # "deadlocked"

\* Every stage of a wave comes after the stages it depends on.
WavesFollowDeps ==
    \A i \in DOMAIN waves : \A a \in waves[i] :
        Deps(a) \subseteq UNION {waves[j] : j \in 1..(i - 1)}

\* In a plan that is handed to the executor, no stage waits for one that is not there,
\* and a producer stage waits for the stage that writes an input of its agent if the
\* plan has one, unless a normalizer without the declarations edited it: dropping
\* disabled, forbidden or unhealthy agents and adding core agents leaves no dangling
\* dependency and loses none of a producer.  Of an evaluator stage the inputs are not
\* looked at, only that what it waits for is there.
Linked(s) ==
    \A k \in Inputs(io, s.agent) :
        Writers(plan, k) # {} => \E i \in Writers(plan, k) : plan[i].id \in s.deps \cup {s.id}
PlanIsLinked ==
    phase \in {"compiled", "ready", "recovered"} =>
        \A i \in DOMAIN plan :
            /\ plan[i].deps \subseteq Ids(plan)
            /\ plan[i].role = "producer" /\ normalizer.aware => Linked(plan[i])

\* With declarations in which no agent consumes its own kind and no kind has two
\* producers, the stages of the plan can be executed in some order, also after
\* the normalizer; otherwise the normalizer may create a cycle.
PlanCanRun ==
    phase \in {"compiled", "ready", "recovered"} /\ WellDeclared(io) =>
        \A S \in (SUBSET DOMAIN plan) \ {{}} :
            \E i \in S : plan[i].deps \cap {plan[j].id : j \in S} = {}

\* The plan recovered from a deadlock still has every agent of the old one that the
\* normalizer admits.  What it takes for done has its artifact in the store, unless
\* a kind has two producers or the normalizer does not know the kinds, and
\* nothing that the executor was stuck on is taken for done.
RecoveryKeepsWork ==
    phase = "recovered" =>
        /\ \A a \in base : \/ \E i \in DOMAIN plan : plan[i].agent = a
                          \/ a \in normalizer.forbidden \cup normalizer.sick
                          \/ (normalizer.enabled # {} /\ a \notin normalizer.enabled)
        /\ \A i \in DOMAIN plan : plan[i].pre =>
              /\ plan[i].id \notin stuck.pending
              /\ WellDeclared(io) /\ normalizer.aware => KindOf(plan[i]) \in stuck.artifacts
=============================================================================
