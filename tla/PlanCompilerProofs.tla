------------------------- MODULE PlanCompilerProofs -------------------------
(***************************************************************************)
(* Theorems about PlanCompiler, for every set of declarations, every request *)
(* and every configuration.                                                 *)
(***************************************************************************)
EXTENDS PlanCompiler, FiniteSetTheorems, TLAPS

\* The depth-first search: nodes that are done lead only to nodes that are done and
\* have no cycle among them; the path is a chain of distinct nodes that are not done.
CheckInv ==
    /\ path \in Seq(Known) /\ black \subseteq Known
    /\ \A n \in black : Neighbours(io, n) \subseteq black
    /\ \A C \in SUBSET black : ~Loop(io, C)
    /\ \A i \in DOMAIN path : path[i] \notin black
    /\ \A i, j \in DOMAIN path : path[i] = path[j] => i = j
    /\ \A i \in 1..(Len(path) - 1) : path[i + 1] \in Neighbours(io, path[i])
    /\ phase \notin {"check", "refused"} => black = Known
    /\ phase = "refused" => Cyclic(io)

\* The closure grows inside every closed set that contains where it started.
CloseInv ==
    /\ base \subseteq pool
    /\ \A R \in SUBSET Agents : base \subseteq R /\ Closed(io, R) => pool \subseteq R
    /\ phase \in {"closed", "compiled"} /\ request.closure => Closed(io, pool)

\* The waves partition agents of the plan, each after what it depends on.
WaveInv ==
    /\ waves \in Seq(SUBSET pool)
    /\ phase = "closing" => waves = <<>>
    /\ WavesFollowDeps
    /\ phase # "deadlocked"

CompilerInv == CheckInv /\ CloseInv /\ WaveInv

-----------------------------------------------------------------------------
(* The cycle check.                                                         *)

\* what is said about the declarations stays true as long as they do
LEMMA GraphKept ==
  ASSUME io' = io
  PROVE  /\ \A n : Neighbours(io, n)' = Neighbours(io, n)
         /\ \A C : Loop(io, C)' <=> Loop(io, C)
         /\ Cyclic(io)' <=> Cyclic(io)
         /\ \A P : Closed(io, P)' <=> Closed(io, P)
<1>1. \A n : Neighbours(io, n)' = Neighbours(io, n)
  BY DEF Neighbours, Feeds, Inputs, Producer, Makers
<1>2. \A C : Loop(io, C)' <=> Loop(io, C)
  BY <1>1 DEF Loop
<1>3. Cyclic(io)' <=> Cyclic(io)
  BY <1>2 DEF Cyclic
<1>4. \A P : Closed(io, P)' <=> Closed(io, P)
  BY DEF Closed, Feeds, Inputs, Producer, Makers
<1> QED BY <1>1, <1>2, <1>3, <1>4

\* a chain that leads back into itself is a cycle
LEMMA ChainCloses ==
  ASSUME CheckInv, path # <<>>, Neighbours(io, top) \cap Range(path) # {}
  PROVE  Cyclic(io)
<1>1. PICK j \in DOMAIN path : path[j] \in Neighbours(io, top)
  BY DEF Range
<1> DEFINE C == {path[i] : i \in j..Len(path)}
<1>2. C \in SUBSET Known /\ C # {}
  BY DEF CheckInv
<1>3. \A a \in C : Neighbours(io, a) \cap C # {}
  <2> SUFFICES ASSUME NEW i \in j..Len(path)
               PROVE  Neighbours(io, path[i]) \cap C # {}
    OBVIOUS
  <2>1. CASE i = Len(path)
    BY <1>1, <2>1 DEF top, CheckInv
  <2>2. CASE i # Len(path)
    <3>1. i \in 1..(Len(path) - 1) /\ i + 1 \in j..Len(path)
      BY <2>2 DEF CheckInv
    <3> QED BY <3>1 DEF CheckInv
  <2> QED BY <2>1, <2>2
<1> HIDE DEF C
<1> QED BY <1>2, <1>3 DEF Cyclic, Loop

\* with all edges of a new node leading to done ones, no cycle is completed
LEMMA NoLoopAdded ==
  ASSUME CheckInv, NEW t \in Known, t \notin black, Neighbours(io, t) \subseteq black,
         NEW C \in SUBSET (black \cup {t}), Loop(io, C)
  PROVE  FALSE
<1>1. t \in C
  BY DEF CheckInv
<1> DEFINE D == C \ {t}
<1>2. D \in SUBSET black
  OBVIOUS
<1>3. \A a \in D : Neighbours(io, a) \cap D # {}
  <2> SUFFICES ASSUME NEW a \in D PROVE Neighbours(io, a) \cap D # {}
    OBVIOUS
  <2>1. PICK n \in Neighbours(io, a) : n \in C
    BY DEF Loop
  <2>2. n \in black
    BY <1>2, <2>1 DEF CheckInv
  <2> QED BY <2>1, <2>2
<1>4. D # {}
  <2>1. PICK n \in Neighbours(io, t) : n \in C
    BY <1>1 DEF Loop
  <2> QED BY <2>1
<1>5. Loop(io, D)
  BY <1>3, <1>4 DEF Loop
<1> QED BY <1>2, <1>5 DEF CheckInv

\* a step that leaves graph and search alone, not back into the check
LEMMA CheckKept ==
  ASSUME CheckInv, UNCHANGED graph, phase \notin {"check", "refused"},
         phase' \notin {"check", "refused"}
  PROVE  CheckInv'
  BY GraphKept DEF graph, CheckInv

LEMMA CheckStep ==
  ASSUME CheckInv, [Next]_vars
  PROVE  CheckInv'
<1> USE DEF CheckInv
<1>1. CASE UNCHANGED vars
  BY <1>1, GraphKept DEF vars, graph
<1>2. CASE \E a \in Known : VisitRoot(a)
  <2>1. PICK a \in Known : VisitRoot(a)
    BY <1>2
  <2>2. path' = <<a>> /\ UNCHANGED <<io, black, phase>> /\ phase = "check" /\ a \notin black
    BY <2>1 DEF VisitRoot
  <2> QED BY <2>2, GraphKept
<1>3. CASE \E a \in Known : Descend(a)
  <2>1. PICK a \in Known : Descend(a)
    BY <1>3
  <2>2. /\ path # <<>> /\ path' = Append(path, a) /\ UNCHANGED <<io, black, phase>>
        /\ phase = "check" /\ a \in Neighbours(io, top) /\ a \notin black \cup Range(path)
    BY <2>1 DEF Descend
  <2>3. /\ path' \in Seq(Known) /\ Len(path') = Len(path) + 1 /\ path'[Len(path) + 1] = a
        /\ \A i \in 1..Len(path) : path'[i] = path[i]
        /\ DOMAIN path' = 1..(Len(path) + 1) /\ DOMAIN path = 1..Len(path) /\ Len(path) \in Nat \ {0}
    BY <2>2
  <2>4. \A i \in DOMAIN path : path[i] # a
    BY <2>2 DEF Range
  <2>5. \A i \in DOMAIN path' : path'[i] \notin black
    BY <2>2, <2>3
  <2>6. \A i, j \in DOMAIN path' : path'[i] = path'[j] => i = j
    BY <2>3, <2>4
  <2>7. \A i \in 1..(Len(path') - 1) : path'[i + 1] \in Neighbours(io, path'[i])
    <3> SUFFICES ASSUME NEW i \in 1..Len(path)
                 PROVE  path'[i + 1] \in Neighbours(io, path'[i])
      BY <2>3
    <3>1. CASE i = Len(path)
      BY <3>1, <2>2, <2>3 DEF top
    <3>2. CASE i # Len(path)
      <4>1. i \in 1..(Len(path) - 1) /\ i + 1 \in 1..Len(path)
        <5> HIDE DEF CheckInv
        <5>1. i \in Int /\ 1 <= i /\ i <= Len(path) /\ Len(path) \in Int
          BY <2>3
        <5> QED BY <5>1, <3>2
      <4>2. path'[i] = path[i] /\ path'[i + 1] = path[i + 1]
        BY <4>1, <2>3
      <4> QED BY <4>1, <4>2
    <3> QED BY <3>1, <3>2
  <2> HIDE DEF CheckInv
  <2> QED BY <2>2, <2>3, <2>5, <2>6, <2>7, GraphKept DEF CheckInv
<1>4. CASE Refuse
  <2>1. Cyclic(io)
    BY <1>4, ChainCloses DEF Refuse
  <2> QED BY <1>4, <2>1, GraphKept DEF Refuse, graph
<1>5. CASE Leave
  <2>1. /\ path # <<>> /\ phase = "check" /\ UNCHANGED <<io, phase>>
        /\ Neighbours(io, top) \subseteq black
        /\ black' = black \cup {top} /\ path' = SubSeq(path, 1, Len(path) - 1)
    BY <1>5 DEF Leave
  <2>2. /\ Len(path) \in Nat \ {0} /\ DOMAIN path = 1..Len(path)
        /\ top \in Known /\ top \notin black
    BY <2>1 DEF top
  <2>3. /\ path' \in Seq(Known) /\ Len(path') = Len(path) - 1
        /\ DOMAIN path' = 1..(Len(path) - 1)
        /\ \A i \in 1..(Len(path) - 1) : path'[i] = path[i]
    BY <2>1, <2>2
  <2>4. \A C \in SUBSET black' : ~Loop(io, C)
    <3> HIDE DEF CheckInv
    <3> QED BY <2>1, <2>2, NoLoopAdded
  <2>5. \A n \in black' : Neighbours(io, n) \subseteq black'
    BY <2>1
  <2>6. \A i \in DOMAIN path' : path'[i] \notin black'
    BY <2>1, <2>2, <2>3 DEF top
  <2>7. \A i, j \in DOMAIN path' : path'[i] = path'[j] => i = j
    BY <2>2, <2>3
  <2>8. \A i \in 1..(Len(path') - 1) : path'[i + 1] \in Neighbours(io, path'[i])
    BY <2>2, <2>3
  <2>9. black' \subseteq Known /\ phase' = "check" /\ io' = io
    BY <2>1, <2>2
  <2> QED BY <2>3, <2>4, <2>5, <2>6, <2>7, <2>8, <2>9, GraphKept
<1>6. CASE Accept
  BY <1>6, GraphKept DEF Accept, graph
<1>7. CASE Compile
  <2>1. UNCHANGED graph /\ phase \notin {"check", "refused"} /\ phase' \notin {"check", "refused"}
    BY <1>7 DEF Compile, Resolve, StartFrom, Include, CloseDone, PartitionWave, Build
  <2> QED BY <2>1, CheckKept
<1>8. CASE \E n \in Normalizers : Normalize(n)
  BY <1>8, CheckKept DEF Normalize
<1>9. CASE Deadlock \/ Recover
  <2>1. UNCHANGED graph /\ phase \notin {"check", "refused"} /\ phase' \notin {"check", "refused"}
    BY <1>9 DEF Deadlock, StartFrom, Recover
  <2> QED BY <2>1, CheckKept
<1> QED BY <1>1, <1>2, <1>3, <1>4, <1>5, <1>6, <1>7, <1>8, <1>9 DEF Next, CheckCycles

-----------------------------------------------------------------------------
(* The closure.                                                             *)

LEMMA CloseStep ==
  ASSUME CloseInv, [Next]_vars
  PROVE  CloseInv'
<1> USE GraphKept DEF CloseInv
<1>1. CASE UNCHANGED vars
  BY <1>1 DEF vars, graph
<1>2. CASE CheckCycles
  BY <1>2 DEF CheckCycles, VisitRoot, Descend, Refuse, Leave, Accept, graph
<1>3. ASSUME NEW r, StartFrom(r), UNCHANGED io
      PROVE  CloseInv'
  BY <1>3 DEF StartFrom
<1>4. CASE \E r \in Requests : Resolve(r)
  <2>1. PICK r \in Requests : Resolve(r)
    BY <1>4
  <2>2. CASE Unknown(r)
    BY <2>1, <2>2 DEF Resolve, graph
  <2>3. CASE ~Unknown(r)
    BY <2>1, <2>3, <1>3 DEF Resolve, graph
  <2> QED BY <2>2, <2>3
<1>5. CASE \E a \in Agents : Include(a)
  <2>1. PICK a \in Agents : Include(a)
    BY <1>5
  <2>2. PICK p \in Feeds(io, a) \ pool : pool' = pool \cup {p}
    BY <2>1 DEF Include
  <2>3. a \in pool /\ io' = io /\ UNCHANGED <<base, request, phase>> /\ phase = "closing"
    BY <2>1 DEF Include, graph
  <2>4. ASSUME NEW R \in SUBSET Agents, base \subseteq R, Closed(io, R)
        PROVE  p \in R
    BY <2>2, <2>3, <2>4 DEF Closed
  <2> QED BY <2>2, <2>3, <2>4
<1>6. CASE CloseDone
  BY <1>6 DEF CloseDone, graph
<1>7. CASE PartitionWave \/ Build
  BY <1>7 DEF PartitionWave, Build, graph
<1>8. CASE \E n \in Normalizers : Normalize(n)
  BY <1>8 DEF Normalize, graph
<1>9. CASE Deadlock
  <2>1. \/ \E r : StartFrom(r)
        \/ phase' = "rejected" /\ UNCHANGED <<request, base, pool, waves>>
    BY <1>9 DEF Deadlock
  <2>2. io' = io
    BY <1>9 DEF Deadlock, graph
  <2> QED BY <2>1, <2>2, <1>3
<1>10. CASE Recover
  BY <1>10 DEF Recover, graph
<1> QED BY <1>1, <1>2, <1>4, <1>5, <1>6, <1>7, <1>8, <1>9, <1>10 DEF Next, Compile

-----------------------------------------------------------------------------
(* The waves.                                                               *)

\* agents that all wait for one another are a cycle of the declarations
LEMMA StuckIsCyclic ==
  ASSUME NEW W, W # {}, W \subseteq pool, \A a \in W : Deps(a) \cap W # {}
  PROVE  Cyclic(io)
<1>1. \A a \in W : Neighbours(io, a) \cap W # {}
  BY DEF Deps
<1>2. W \in SUBSET Known
  BY <1>1 DEF Neighbours, Feeds, Inputs
<1> QED BY <1>1, <1>2 DEF Cyclic, Loop

LEMMA WaveStep ==
  ASSUME CheckInv, WaveInv, [Next]_vars
  PROVE  WaveInv'
<1>1. ASSUME UNCHANGED <<io, pool, waves>>, phase' \notin {"closing", "deadlocked"}
      PROVE  WaveInv'
  BY <1>1, GraphKept DEF WaveInv, WavesFollowDeps, Deps
<1>2. CASE UNCHANGED vars
  BY <1>2, GraphKept DEF vars, graph, WaveInv, WavesFollowDeps, Deps
<1>3. CASE CheckCycles
  <2>1. UNCHANGED <<io, pool, waves>> /\ phase' \in {"check", "refused", "idle"}
    BY <1>3 DEF CheckCycles, VisitRoot, Descend, Refuse, Leave, Accept, graph
  <2> QED BY <2>1, <1>1
<1>4. ASSUME NEW r, StartFrom(r)
      PROVE  WaveInv'
  BY <1>4 DEF StartFrom, WaveInv, WavesFollowDeps
<1>5. CASE \E r \in Requests : Resolve(r)
  <2>1. PICK r \in Requests : Resolve(r)
    BY <1>5
  <2>2. CASE Unknown(r)
    <3>1. UNCHANGED <<io, pool, waves>> /\ phase' = "rejected"
      BY <2>1, <2>2 DEF Resolve, graph
    <3> QED BY <3>1, <1>1
  <2>3. CASE ~Unknown(r)
    BY <2>1, <2>3, <1>4 DEF Resolve
  <2> QED BY <2>2, <2>3
<1>6. CASE \E a \in Agents : Include(a)
  <2>1. phase = "closing" /\ phase' = "closing" /\ waves' = waves
    BY <1>6 DEF Include
  <2> QED BY <2>1 DEF WaveInv, WavesFollowDeps
<1>7. CASE CloseDone
  <2>1. UNCHANGED <<io, pool, waves>> /\ phase' = "closed"
    BY <1>7 DEF CloseDone, graph
  <2> QED BY <2>1, <1>1
<1>8. CASE PartitionWave
  <2>1. Ready # {}
    <3> SUFFICES ASSUME Ready = {} PROVE FALSE
      OBVIOUS
    <3> DEFINE W == pool \ Done
    <3>1. Done \subseteq pool
      BY DEF WaveInv, Done, Range
    <3>2. W # {}
      BY <1>8, <3>1 DEF PartitionWave
    <3>3. \A a \in W : Deps(a) \cap W # {}
      BY DEF Ready, Deps
    <3>4. Cyclic(io)
      <4> HIDE DEF W
      <4>1. W \subseteq pool
        BY DEF W
      <4> QED BY <3>2, <3>3, <4>1, StuckIsCyclic
    <3>5. black = Known
      BY <1>8 DEF PartitionWave, CheckInv
    <3> QED BY <3>4, <3>5 DEF CheckInv, Cyclic
  <2>2. UNCHANGED <<io, pool, phase>> /\ waves' = Append(waves, Ready) /\ phase = "closed"
    BY <1>8, <2>1 DEF PartitionWave, graph
  <2>3. waves \in Seq(SUBSET pool) /\ Ready \subseteq pool
    BY DEF WaveInv, Ready
  <2>4. /\ waves' \in Seq(SUBSET pool) /\ DOMAIN waves' = 1..(Len(waves) + 1)
        /\ DOMAIN waves = 1..Len(waves) /\ Len(waves) \in Nat
        /\ \A i \in 1..Len(waves) : waves'[i] = waves[i]
        /\ waves'[Len(waves) + 1] = Ready
    BY <2>2, <2>3
  <2>5. ASSUME NEW i \in DOMAIN waves', NEW a \in waves'[i]
        PROVE  Deps(a) \subseteq UNION {waves'[j] : j \in 1..(i - 1)}
    <3>1. CASE i = Len(waves) + 1
      <4>1. Deps(a) \subseteq Done
        BY <2>4, <2>5, <3>1 DEF Ready
      <4>2. Done \subseteq UNION {waves'[j] : j \in 1..Len(waves)}
        BY <2>4 DEF Done, Range
      <4> QED BY <3>1, <4>1, <4>2, <2>4
    <3>2. CASE i # Len(waves) + 1
      <4>1. i \in 1..Len(waves) /\ waves'[i] = waves[i]
        BY <3>2, <2>4
      <4>2. Deps(a) \subseteq UNION {waves[j] : j \in 1..(i - 1)}
        BY <4>1, <2>4, <2>5 DEF WaveInv, WavesFollowDeps
      <4>3. \A j \in 1..(i - 1) : waves'[j] = waves[j]
        BY <4>1, <2>4
      <4> QED BY <4>2, <4>3
    <3> QED BY <3>1, <3>2
  <2>6. \A a : Deps(a)' = Deps(a)
    BY <2>2, GraphKept DEF Deps
  <2>7. WavesFollowDeps'
    BY <2>5, <2>6 DEF WavesFollowDeps
  <2> QED BY <2>2, <2>4, <2>7 DEF WaveInv
<1>9. CASE Build \/ \E n \in Normalizers : Normalize(n)
  <2>1. UNCHANGED <<io, pool, waves>> /\ phase' \in {"compiled", "ready"}
    BY <1>9 DEF Build, Normalize, graph
  <2> QED BY <2>1, <1>1
<1>10. CASE Deadlock
  <2>1. \/ \E r : StartFrom(r)
        \/ phase' = "rejected" /\ UNCHANGED <<io, request, base, pool, waves>>
    BY <1>10 DEF Deadlock, graph
  <2> QED BY <2>1, <1>1, <1>4
<1>11. CASE Recover
  <2>1. UNCHANGED <<io, pool, waves>> /\ phase' = "recovered"
    BY <1>11 DEF Recover, graph
  <2> QED BY <2>1, <1>1
<1> QED BY <1>2, <1>3, <1>5, <1>6, <1>7, <1>8, <1>9, <1>10, <1>11 DEF Next, Compile

-----------------------------------------------------------------------------

LEMMA CompilerInvariant == Spec => []CompilerInv
<1>1. Init => CompilerInv
  <2> SUFFICES ASSUME Init PROVE CompilerInv
    OBVIOUS
  <2>1. path = <<>> /\ black = {} /\ phase = "check" /\ base = {} /\ pool = {} /\ waves = <<>>
    BY DEF Init
  <2>2. CheckInv
    BY <2>1 DEF CheckInv, Loop
  <2>3. CloseInv /\ WaveInv
    BY <2>1 DEF CloseInv, WaveInv, WavesFollowDeps
  <2> QED BY <2>2, <2>3 DEF CompilerInv
<1>2. CompilerInv /\ [Next]_vars => CompilerInv'
  BY CheckStep, CloseStep, WaveStep DEF CompilerInv
<1> QED BY <1>1, <1>2, PTL DEF Spec

\* from_declarations refuses declarations exactly if they have a cycle of agents: the
\* three-colour search of _check_cycles is right for every graph and every order of
\* visits.
THEOREM CycleCheckCorrect == Spec => []CycleCheckIsExact
<1>1. CompilerInv => CycleCheckIsExact
  BY DEF CompilerInv, CheckInv, CycleCheckIsExact, Cyclic
<1> QED BY <1>1, CompilerInvariant, PTL

\* What closure returns is the least set that contains the selected agents and every
\* producer its members need.
THEOREM ClosureCorrect == Spec => []ClosureIsLeast
<1>1. CompilerInv => ClosureIsLeast
  BY DEF CompilerInv, CloseInv, ClosureIsLeast, IsClosure
<1> QED BY <1>1, CompilerInvariant, PTL

\* Declarations that passed the cycle check never make partition_waves raise, whichever
\* agents the request selects.
THEOREM PartitionSucceeds == Spec => []PartitionNeverStuck
<1>1. CompilerInv => PartitionNeverStuck
  BY DEF CompilerInv, WaveInv, PartitionNeverStuck
<1> QED BY <1>1, CompilerInvariant, PTL

\* Every stage of a wave comes after the stages it depends on.
THEOREM WavesAreOrdered == Spec => []WavesFollowDeps
<1>1. CompilerInv => WavesFollowDeps
  BY DEF CompilerInv, WaveInv
<1> QED BY <1>1, CompilerInvariant, PTL

-----------------------------------------------------------------------------
(* Lists: what ranking, keeping and injecting leave of what they are given.  *)

\* B is a total order on S
Orders(S, B) ==
    /\ \A c \in S : <<c, c>> \in B
    /\ \A c, d \in S : <<c, d>> \in B \/ <<d, c>> \in B
    /\ \A c, d \in S : <<c, d>> \in B /\ <<d, c>> \in B => c = d
    /\ \A c, d, e \in S : <<c, d>> \in B /\ <<d, e>> \in B => <<c, e>> \in B

Rank(S, B, c) == Cardinality({d \in S : <<d, c>> \in B})

LEMMA RanksFill ==
  ASSUME NEW S, IsFiniteSet(S), NEW B, Orders(S, B)
  PROVE  /\ Cardinality(S) \in Nat
         /\ \A c \in S : Rank(S, B, c) \in 1..Cardinality(S)
         /\ \A n \in 1..Cardinality(S) : \E c \in S : Rank(S, B, c) = n
         /\ \A c, e \in S : Rank(S, B, c) = Rank(S, B, e) => c = e
<1> DEFINE N == Cardinality(S)
           Down(c) == {d \in S : <<d, c>> \in B}
           f == [c \in S |-> Cardinality(Down(c))]
<1>0. N \in Nat
  BY FS_CardinalityType
<1>1. ASSUME NEW c \in S PROVE IsFiniteSet(Down(c)) /\ Cardinality(Down(c)) \in 1..N
  <2>1. Down(c) \in SUBSET S /\ c \in Down(c)
    BY DEF Orders
  <2> HIDE DEF Down
  <2>2. IsFiniteSet(Down(c)) /\ Cardinality(Down(c)) <= N
    BY <2>1, FS_Subset
  <2>3. Cardinality(Down(c)) \in Nat /\ Cardinality(Down(c)) # 0
    BY <2>1, <2>2, FS_CardinalityType, FS_EmptySet
  <2> QED BY <1>0, <2>2, <2>3
<1>2. ASSUME NEW c \in S, NEW e \in S, <<c, e>> \in B, Cardinality(Down(c)) = Cardinality(Down(e))
      PROVE  c = e
  <2>1. Down(c) \in SUBSET Down(e) /\ e \in Down(e)
    BY <1>2 DEF Orders
  <2>2. Down(c) = Down(e)
    <3> HIDE DEF Down
    <3> QED BY <1>1, <1>2, <2>1, FS_Subset
  <2>3. e \in Down(c)
    BY <2>1, <2>2
  <2> QED BY <1>2, <2>3 DEF Orders
<1>3. ASSUME NEW c \in S, NEW e \in S, Cardinality(Down(c)) = Cardinality(Down(e))
      PROVE  c = e
  <2>1. CASE <<c, e>> \in B
    BY <1>2, <1>3, <2>1
  <2>2. CASE <<e, c>> \in B
    BY <1>2, <1>3, <2>2
  <2> QED BY <2>1, <2>2 DEF Orders
<1> HIDE DEF Down
<1>4. f \in Injection(S, 1..N)
  <2>1. f \in [S -> 1..N]
    BY <1>1
  <2>2. \A c, e \in S : f[c] = f[e] => c = e
    BY <1>3
  <2> QED BY <2>1, <2>2 DEF Injection, IsInjective
<1>5. IsFiniteSet(1..N) /\ Cardinality(1..N) = N
  BY <1>0, FS_Interval
<1>6. f \in Surjection(S, 1..N)
  <2> HIDE DEF f
  <2> QED BY <1>4, <1>5, FS_Injection
<1>7. \A n \in 1..N : \E c \in S : Cardinality(Down(c)) = n
  BY <1>6 DEF Surjection
<1> QED BY <1>0, <1>1, <1>3, <1>7 DEF Down, Rank

LEMMA RankedIs ==
  ASSUME NEW S, IsFiniteSet(S), NEW B, Orders(S, B)
  PROVE  /\ Ranked(S, B) \in Seq(S)
         /\ \A c \in S : \E n \in DOMAIN Ranked(S, B) : Ranked(S, B)[n] = c
<1> DEFINE N == Cardinality(S)
<1>1. /\ N \in Nat
      /\ \A c \in S : Rank(S, B, c) \in 1..N
      /\ \A n \in 1..N : \E c \in S : Rank(S, B, c) = n
      /\ \A c, e \in S : Rank(S, B, c) = Rank(S, B, e) => c = e
  BY RanksFill
<1>2. Ranked(S, B) = [n \in 1..N |-> CHOOSE c \in S : Rank(S, B, c) = n]
  BY DEF Ranked, Rank
<1> HIDE DEF N
<1>3. \A n \in 1..N : Ranked(S, B)[n] \in S /\ Rank(S, B, Ranked(S, B)[n]) = n
  BY <1>1, <1>2
<1>4. Ranked(S, B) \in [1..N -> S]
  BY <1>2, <1>3
<1>5. Ranked(S, B) \in Seq(S) /\ DOMAIN Ranked(S, B) = 1..N
  BY <1>1, <1>4
<1> QED BY <1>1, <1>3, <1>5

\* what comes last in a total order of a finite set
LEMMA LastIs ==
  ASSUME NEW S, IsFiniteSet(S), NEW B, Orders(S, B), S # {}
  PROVE  \E c \in S : \A d \in S : <<d, c>> \in B
<1> DEFINE N == Cardinality(S)
<1>1. N \in Nat /\ \A n \in 1..N : \E c \in S : Rank(S, B, c) = n
  BY RanksFill
<1>2. N # 0
  BY FS_EmptySet
<1>3. PICK c \in S : Rank(S, B, c) = N
  BY <1>1, <1>2
<1> DEFINE Down == {d \in S : <<d, c>> \in B}
<1>4. Down \in SUBSET S /\ Cardinality(Down) = Cardinality(S)
  BY <1>3 DEF Rank
<1> HIDE DEF Down
<1>5. Down = S
  BY <1>4, FS_Subset
<1> QED BY <1>5 DEF Down

\* a finite set of numbers has a greatest element
LEMMA MaxIs ==
  ASSUME NEW n \in Nat, NEW S \in SUBSET (1..n), S # {}
  PROVE  Max(S) \in S /\ \A d \in S : d <= Max(S)
<1> DEFINE B == {p \in S \X S : p[1] <= p[2]}
<1>1. IsFiniteSet(S)
  <2>1. IsFiniteSet(1..n)
    BY FS_Interval
  <2> QED BY <2>1, FS_Subset
<1>2. S \subseteq Nat
  OBVIOUS
<1>3. Orders(S, B)
  BY <1>2 DEF Orders
<1> HIDE DEF B
<1>4. \E c \in S : \A d \in S : <<d, c>> \in B
  BY <1>1, <1>3, LastIs
<1>5. \E c \in S : \A d \in S : c >= d
  BY <1>2, <1>4 DEF B
<1>6. PICK c \in S : \A d \in S : c >= d
  BY <1>5
<1>7. Max(S) \in S /\ \A d \in S : Max(S) >= d
  BY <1>6 DEF Max
<1> QED BY <1>2, <1>7

LEMMA KeepIs ==
  ASSUME NEW D, NEW list \in Seq(D), NEW I \in SUBSET DOMAIN list
  PROVE  /\ Keep(list, I) \in Seq(D)
         /\ \A n \in DOMAIN Keep(list, I) : \E i \in I : Keep(list, I)[n] = list[i]
         /\ \A i \in I : \E n \in DOMAIN Keep(list, I) : Keep(list, I)[n] = list[i]
<1> DEFINE B == {p \in I \X I : p[1] <= p[2]}
           at == Ranked(I, B)
<1>1. IsFiniteSet(I)
  <2>1. IsFiniteSet(1..Len(list))
    BY FS_Interval
  <2> QED BY <2>1, FS_Subset
<1>2. Orders(I, B)
  <2>1. I \subseteq Nat
    OBVIOUS
  <2> QED BY <2>1 DEF Orders
<1>3. Keep(list, I) = [n \in DOMAIN at |-> list[at[n]]]
  BY DEF Keep
<1> HIDE DEF B
<1>4. at \in Seq(I) /\ \A i \in I : \E n \in DOMAIN at : at[n] = i
  BY <1>1, <1>2, RankedIs
<1> HIDE DEF at
<1>5. DOMAIN at = 1..Len(at) /\ Len(at) \in Nat /\ \A n \in DOMAIN at : at[n] \in I
  BY <1>4
<1>6. \A i \in I : list[i] \in D
  OBVIOUS
<1>7. Keep(list, I) \in [1..Len(at) -> D]
  BY <1>3, <1>5, <1>6
<1>8. Keep(list, I) \in Seq(D) /\ DOMAIN Keep(list, I) = DOMAIN at
  BY <1>5, <1>7
<1> QED BY <1>3, <1>4, <1>5, <1>8

LEMMA UpToOrders ==
  ASSUME NEW S \in SUBSET (Nat \X Nat)
  PROVE  Orders(S, {p \in S \X S : UpTo(p[1], p[2])})
<1> DEFINE B == {p \in S \X S : UpTo(p[1], p[2])}
<1>1. \A c, d \in S : <<c, d>> \in B <=> UpTo(c, d)
  OBVIOUS
<1>2. \A c \in S : c = <<c[1], c[2]>> /\ c[1] \in Nat /\ c[2] \in Nat
  OBVIOUS
<1> HIDE DEF B
<1>3. \A c, d \in S : UpTo(c, d) \/ UpTo(d, c)
  BY <1>2 DEF UpTo
<1>4. \A c, d \in S : UpTo(c, d) /\ UpTo(d, c) => c = d
  BY <1>2 DEF UpTo
<1>5. \A c, d, e \in S : UpTo(c, d) /\ UpTo(d, e) => UpTo(c, e)
  BY <1>2 DEF UpTo
<1>6. \A c \in S : UpTo(c, c)
  BY <1>2 DEF UpTo
<1>7. Orders(S, B)
  BY <1>1, <1>3, <1>4, <1>5, <1>6 DEF Orders
<1> QED BY <1>7 DEF B

\* the stages stay, and verdicts on them join
LEMMA InjectIs ==
  ASSUME setOrder \in Seq(Agents), NEW T, NEW stages \in Seq(T),
         \A i \in DOMAIN stages, e \in Evaluators : EvalStage(stages[i], e) \in T
  PROVE  /\ Inject(stages) \in Seq(T)
         /\ \A n \in DOMAIN Inject(stages) : \E i \in DOMAIN stages :
               \/ Inject(stages)[n] = stages[i]
               \/ \E e \in Evaluators : Inject(stages)[n] = EvalStage(stages[i], e)
         /\ \A i \in DOMAIN stages : \E n \in DOMAIN Inject(stages) : Inject(stages)[n] = stages[i]
<1> DEFINE offers == {o \in (DOMAIN stages) \X (DOMAIN setOrder) :
                         setOrder[o[2]] \in Evaluators \ {stages[o[1]].agent}}
           taken  == {o \in offers : Cardinality({q \in offers : UpTo(q, o)}) <= MaxEval}
           places == ((DOMAIN stages) \X {0}) \cup taken
           list   == Ranked(places, {p \in places \X places : UpTo(p[1], p[2])})
           At(i, j) == IF j = 0 THEN stages[i] ELSE EvalStage(stages[i], setOrder[j])
<1>1. Inject(stages) = [n \in DOMAIN list |-> At(list[n][1], list[n][2])]
  BY DEF Inject
<1>2. /\ \A p \in places : p[1] \in DOMAIN stages
      /\ \A p \in places : p[2] = 0 \/ (p[2] # 0 /\ setOrder[p[2]] \in Evaluators)
      /\ places \subseteq (1..Len(stages)) \X (0..Len(setOrder))
      /\ \A i \in DOMAIN stages : <<i, 0>> \in places
  OBVIOUS
<1> HIDE DEF offers, taken, places
<1>3. IsFiniteSet(places)
  <2> DEFINE I == 1..Len(stages)
             J == 0..Len(setOrder)
  <2>1. IsFiniteSet(I) /\ IsFiniteSet(J)
    BY FS_Interval
  <2>2. places \in SUBSET (I \X J)
    BY <1>2
  <2> HIDE DEF I, J
  <2>3. IsFiniteSet(I \X J)
    BY <2>1, FS_Product
  <2> QED BY <2>2, <2>3, FS_Subset
<1>4. places \in SUBSET (Nat \X Nat)
  <2>1. (1..Len(stages)) \X (0..Len(setOrder)) \subseteq Nat \X Nat
    OBVIOUS
  <2> QED BY <1>2, <2>1
<1>5. list \in Seq(places) /\ \A p \in places : \E n \in DOMAIN list : list[n] = p
  <2> DEFINE B == {p \in places \X places : UpTo(p[1], p[2])}
  <2>1. Orders(places, B)
    BY <1>4, UpToOrders
  <2> HIDE DEF B
  <2>2. Ranked(places, B) \in Seq(places)
        /\ \A p \in places : \E n \in DOMAIN Ranked(places, B) : Ranked(places, B)[n] = p
    BY <1>3, <2>1, RankedIs
  <2> QED BY <2>2 DEF B
<1> HIDE DEF list
<1>6. DOMAIN list = 1..Len(list) /\ Len(list) \in Nat /\ \A n \in DOMAIN list : list[n] \in places
  BY <1>5
<1>7. ASSUME NEW n \in DOMAIN list
      PROVE  \E i \in DOMAIN stages :
               \/ Inject(stages)[n] = stages[i]
               \/ \E e \in Evaluators : Inject(stages)[n] = EvalStage(stages[i], e)
  <2>1. Inject(stages)[n] = At(list[n][1], list[n][2]) /\ list[n] \in places
    BY <1>1, <1>6
  <2> QED BY <1>2, <2>1
<1>8. ASSUME NEW i \in DOMAIN stages
      PROVE  \E n \in DOMAIN list : Inject(stages)[n] = stages[i]
  <2>1. PICK n \in DOMAIN list : list[n] = <<i, 0>>
    BY <1>2, <1>5
  <2> QED BY <1>1, <2>1
<1>9. DOMAIN Inject(stages) = DOMAIN list
  BY <1>1
<1>10. Inject(stages) \in Seq(T)
  <2>1. \A i \in DOMAIN stages : stages[i] \in T
    OBVIOUS
  <2>2. \A n \in DOMAIN list : Inject(stages)[n] \in T
    BY <1>7, <2>1
  <2>3. Inject(stages) \in [1..Len(list) -> T]
    BY <1>1, <1>6, <2>2
  <2> QED BY <1>6, <2>3
<1> QED BY <1>7, <1>8, <1>9, <1>10

-----------------------------------------------------------------------------
(* Plans.  The names that the compiler composes, of evaluator stages and of    *)
(* their verdicts, are no agents or kinds themselves, nor is a kind an agent.  *)

NamesApart ==
    /\ Agents \cap Kinds = {}
    /\ \A a, e \in Agents : <<a, e>> \notin Agents
    /\ \A k \in Kinds \cup {None} : <<k, "eval">> \notin Kinds \cup {None}

StageIds   == Agents \cup (Agents \X Agents)
StageKinds == Kinds \cup Agents \cup {None} \cup ((Kinds \cup {None}) \X {"eval"})
Stage == [id : StageIds, agent : Agents, role : {"producer", "evaluator"}, kind : StageKinds,
          deps : SUBSET StageIds, refs : SUBSET Kinds, pre : BOOLEAN]

\* what a stage is called and what it writes
Shape(s) ==
    /\ s \in Stage
    /\ s.role = "producer" => s.id = s.agent
    /\ s.role = "evaluator" => \E a \in Agents : s.id = <<a, s.agent>> /\ s.kind = <<OutputFor(io, a), "eval">>

\* a stage waits along the graph of the declarations only, or for a producer
Ordered(s) ==
    /\ s.role = "producer" => /\ s.kind \in Kinds => Producer(io, s.kind) = s.agent
                              /\ s.deps \subseteq Neighbours(io, s.agent) \cap Agents
    /\ s.role = "evaluator" => s.deps \subseteq Agents

\* the kind that a stage of this name writes, in whatever plan
KindFor(id) ==
    IF id \in Agents THEN (IF OutputFor(io, id) = None THEN id ELSE OutputFor(io, id))
    ELSE <<OutputFor(io, id[1]), "eval">>

\* who does it, under which name, and what it writes
Alike(s, t) ==
    /\ s.id = t.id /\ s.agent = t.agent /\ s.role = t.role /\ s.kind = t.kind

ShapedPlan(list)  == list \in Seq(Stage) /\ \A i \in DOMAIN list : Shape(list[i])
OrderedPlan(list) == \A i \in DOMAIN list : Ordered(list[i])
NamedPlan(list)   == \A i \in DOMAIN list : KindOf(list[i]) = KindFor(list[i].id)
LinkedPlan(list, aware) ==
    \A i \in DOMAIN list :
        /\ list[i].deps \subseteq Ids(list)
        /\ list[i].role = "producer" /\ aware =>
             \A k \in Inputs(io, list[i].agent) :
                 Writers(list, k) # {} =>
                     \E j \in Writers(list, k) : list[j].id \in list[i].deps \cup {list[i].id}

\* what all stages of a plan are like, with declarations that are well; named: the
\* kinds are those of the declarations
GoodPlan(list, named) ==
    /\ ShapedPlan(list)
    /\ WellDeclared(io) => OrderedPlan(list) /\ (named => NamedPlan(list))

\* A plan is shaped whatever happens to it, and from compile or normalize on it is as
\* the theorems want it, as far as the normalizer knows the declarations.
Exact    == phase = "compiled" \/ normalizer.aware
FactsInv ==
    /\ ShapedPlan(plan)
    /\ phase \in {"compiled", "ready", "recovered"} => GoodPlan(plan, Exact) /\ LinkedPlan(plan, Exact)

\* compile leaves out no agent, the normalizer those that it is told to
CoverInv ==
    /\ phase = "compiled" => \A a \in base : \E i \in DOMAIN plan : plan[i].agent = a
    /\ phase \in {"ready", "recovered"} =>
         \A a \in base : \/ \E i \in DOMAIN plan : plan[i].agent = a
                         \/ a \in normalizer.forbidden \cup normalizer.sick
                         \/ (normalizer.enabled # {} /\ a \notin normalizer.enabled)

\* What the executor succeeded with is not what it was stuck on, and has its artifact
\* under the kind that a stage of that name has in every plan.
StuckInv ==
    /\ stuck.times = 0 => stuck.succeeded = {}
    /\ stuck.succeeded \cap stuck.pending = {}
    /\ WellDeclared(io) /\ normalizer.aware => \A id \in stuck.succeeded : KindFor(id) \in stuck.artifacts

DoneInv ==
    phase = "recovered" =>
        \A i \in DOMAIN plan : plan[i].pre =>
              /\ plan[i].id \notin stuck.pending
              /\ WellDeclared(io) /\ normalizer.aware => KindOf(plan[i]) \in stuck.artifacts

PlanTypes ==
    /\ io \in IOMaps /\ setOrder \in Seq(Agents)
    /\ pool \subseteq Agents
    /\ normalizer \in Normalizers \cup {NoNormalizer}
    /\ stuck.times \in Nat

PlanInv == PlanTypes /\ FactsInv /\ CoverInv /\ StuckInv /\ DoneInv

LEMMA NamesAre ==
  /\ None \notin Agents /\ None \notin Kinds /\ Known \subseteq Agents
  /\ Core \subseteq Agents /\ Declarations \subseteq IOMaps
  BY GraphAssumption, CompilerAssumption DEF GraphAssumption, CompilerAssumption, Known

\* a producer is an agent
LEMMA ProducerIs ==
  ASSUME NEW k, Producer(io, k) # None
  PROVE  Producer(io, k) \in Agents
<1> DEFINE M == Makers(io, k)
           m == CHOOSE i \in M : \A j \in M : j <= i
<1>1. M \in SUBSET (1..Len(Declared)) /\ Len(Declared) \in Nat
  BY GraphAssumption DEF GraphAssumption, Makers
<1>2. M # {} /\ Producer(io, k) = Declared[m]
  BY DEF Producer
<1>3. m \in M
  <2> HIDE DEF M
  <2>1. Max(M) \in M /\ \A j \in M : j <= Max(M)
    BY <1>1, <1>2, MaxIs
  <2> QED BY <2>1
<1> QED BY <1>1, <1>2, <1>3, GraphAssumption DEF GraphAssumption

LEMMA InputTypes ==
  ASSUME io \in IOMaps, NEW a
  PROVE  Inputs(io, a) \subseteq Kinds /\ OutputFor(io, a) \in Kinds \cup {None}
         /\ (OutputFor(io, a) # None => Producer(io, OutputFor(io, a)) = a)
<1>1. Inputs(io, a) \subseteq Kinds
  BY DEF Inputs, IOMaps
<1>2. CASE \E k \in Kinds : Producer(io, k) = a
  BY <1>1, <1>2 DEF OutputFor
<1>3. CASE ~\E k \in Kinds : Producer(io, k) = a
  BY <1>1, <1>3 DEF OutputFor
<1> QED BY <1>2, <1>3

\* without two producers of a kind, the one it has
LEMMA OnlyProducer ==
  ASSUME io \in IOMaps, WellDeclared(io), NEW k \in Kinds
  PROVE  /\ \A a \in Known : io[a].output = k => Producer(io, k) = a
         /\ \A a \in Agents : Producer(io, k) = a => a \in Known /\ io[a].output = k
<1>1. ASSUME NEW a \in Known, io[a].output = k PROVE Producer(io, k) = a
  <2>1. PICK i \in DOMAIN Declared : Declared[i] = a
    BY DEF Known
  <2>2. Makers(io, k) = {i}
    <3>1. ASSUME NEW j \in DOMAIN Declared, io[Declared[j]].output = k PROVE j = i
      <4>1. Declared[j] \in Known
        BY DEF Known
      <4>2. Declared[j] = a
        BY <1>1, <3>1, <4>1, NamesAre DEF WellDeclared
      <4> QED BY <2>1, <4>2, GraphAssumption DEF GraphAssumption
    <3> QED BY <1>1, <2>1, <3>1 DEF Makers
  <2>3. (CHOOSE j \in {i} : \A n \in {i} : n <= j) = i
    BY GraphAssumption DEF GraphAssumption
  <2> QED BY <2>1, <2>2, <2>3 DEF Producer
<1>2. ASSUME NEW a \in Agents, Producer(io, k) = a PROVE a \in Known /\ io[a].output = k
  <2>1. Makers(io, k) # {}
    BY <1>2, NamesAre DEF Producer
  <2>2. PICK i \in DOMAIN Declared : io[Declared[i]].output = k
    BY <2>1 DEF Makers
  <2>3. Declared[i] \in Known
    BY DEF Known
  <2>4. Producer(io, k) = Declared[i]
    BY <1>1, <2>2, <2>3
  <2> QED BY <1>2, <2>2, <2>3, <2>4
<1> QED BY <1>1, <1>2

LEMMA OutputIs ==
  ASSUME io \in IOMaps, WellDeclared(io), NEW a \in Known
  PROVE  OutputFor(io, a) = io[a].output
<1>1. a \in Agents /\ io[a].output \in Kinds \cup {None}
  BY NamesAre DEF IOMaps
<1>2. CASE io[a].output = None
  <2>1. ~\E k \in Kinds : Producer(io, k) = a
    BY <1>1, <1>2, OnlyProducer, NamesAre
  <2> QED BY <1>2, <2>1 DEF OutputFor
<1>3. CASE io[a].output \in Kinds
  <2>1. Producer(io, io[a].output) = a
    BY <1>3, OnlyProducer
  <2>2. \A k \in Kinds : Producer(io, k) = a => k = io[a].output
    BY <1>1, OnlyProducer
  <2> QED BY <1>3, <2>1, <2>2 DEF OutputFor
<1> QED BY <1>1, <1>2, <1>3

\* who writes a declared kind is a producer, and not an evaluator
LEMMA WriterIs ==
  ASSUME NamesApart, io \in IOMaps, NEW s, Shape(s), KindOf(s) \in Kinds
  PROVE  s.role = "producer" /\ s.kind = KindOf(s) /\ s.id = s.agent /\ s.agent \in Agents
<1>1. s.agent \in Agents /\ s.role \in {"producer", "evaluator"}
  BY DEF Shape, Stage
<1>2. s.kind \in Kinds /\ s.kind = KindOf(s)
  BY <1>1 DEF KindOf, NamesApart
<1>3. s.role # "evaluator"
  BY <1>2, InputTypes DEF Shape, NamesApart
<1> QED BY <1>1, <1>2, <1>3 DEF Shape

-----------------------------------------------------------------------------
(* Relinking a list of stages.                                               *)

LEMMA LastWriter ==
  ASSUME NEW D, NEW list \in Seq(D), NEW k, Writers(list, k) # {}
  PROVE  Max(Writers(list, k)) \in Writers(list, k)
<1>1. Len(list) \in Nat /\ Writers(list, k) \in SUBSET (1..Len(list))
  BY DEF Writers
<1> QED BY <1>1, MaxIs

\* who writes what, and under which name, does not depend on the dependencies
LEMMA AlikeLists ==
  ASSUME NEW list, NEW R, DOMAIN R = DOMAIN list, \A i \in DOMAIN list : Alike(R[i], list[i])
  PROVE  /\ Ids(R) = Ids(list)
         /\ \A i \in DOMAIN list : KindOf(R[i]) = KindOf(list[i])
         /\ \A k : Writers(R, k) = Writers(list, k)
<1>1. \A i \in DOMAIN list : KindOf(R[i]) = KindOf(list[i])
  BY DEF Alike, KindOf
<1>2. Ids(R) = Ids(list)
  BY DEF Ids, Alike
<1> QED BY <1>1, <1>2 DEF Writers

\* only dependencies and references change: to stages of the list, for a known agent
\* that of each input, for any other some of what it had
LEMMA RelinkedStage ==
  ASSUME io \in IOMaps, NEW list, ShapedPlan(list), NEW aware \in BOOLEAN, NEW i \in DOMAIN list
  PROVE  LET s  == list[i]
             t  == Relink(list, aware)[i]
             ks == {k \in Inputs(io, s.agent) : Writers(list, k) # {}}
         IN  /\ Alike(t, s) /\ t \in Stage /\ Shape(t)
             /\ t.deps \subseteq Ids(list)
             /\ aware /\ s.agent \in Known => \A k \in ks : WriterOf(list, k) \in t.deps
             /\ \A d \in t.deps : d \in s.deps \/ \E k \in ks : d = WriterOf(list, k)
<1> DEFINE s  == list[i]
           t  == Relink(list, aware)[i]
           ks == {k \in Inputs(io, s.agent) : Writers(list, k) # {}}
           W  == {WriterOf(list, k) : k \in ks}
<1>1. s \in Stage /\ Shape(s)
  BY DEF ShapedPlan
<1>2. Ids(list) \subseteq StageIds
  <2>1. \A n \in DOMAIN list : list[n] \in Stage
    BY DEF ShapedPlan
  <2>2. \A n \in DOMAIN list : list[n].id \in StageIds
    BY <2>1 DEF Stage
  <2> QED BY <2>2 DEF Ids
<1>3. W \subseteq Ids(list)
  <2> SUFFICES ASSUME NEW k \in ks PROVE WriterOf(list, k) \in Ids(list)
    OBVIOUS
  <2>1. Max(Writers(list, k)) \in Writers(list, k)
    BY LastWriter DEF ShapedPlan
  <2> QED BY <2>1 DEF WriterOf, Ids, Writers
<1>4. ks \subseteq Kinds
  BY InputTypes
<1>5. t = IF aware /\ s.agent \in Known
          THEN [s EXCEPT !.deps = (s.deps \cap Ids(list)) \cup W, !.refs = ks]
          ELSE [s EXCEPT !.deps = @ \cap Ids(list)]
  BY DEF Relink
<1>6. \A k \in ks : WriterOf(list, k) \in W
  OBVIOUS
<1>7. \A d \in W : \E k \in ks : d = WriterOf(list, k)
  OBVIOUS
<1> HIDE DEF s, t, ks, W
<1>8. /\ Alike(t, s) /\ t \in Stage
      /\ t.deps \subseteq (s.deps \cap Ids(list)) \cup W
      /\ aware /\ s.agent \in Known => W \subseteq t.deps
  <2>1. CASE aware /\ s.agent \in Known
    <3>1. t = [s EXCEPT !.deps = (s.deps \cap Ids(list)) \cup W, !.refs = ks]
      BY <1>5, <2>1
    <3>2. t \in Stage
      BY <1>1, <1>2, <1>3, <1>4, <3>1 DEF Stage
    <3>3. Alike(t, s) /\ t.deps = (s.deps \cap Ids(list)) \cup W
      BY <1>1, <3>1 DEF Stage, Alike
    <3> QED BY <3>2, <3>3
  <2>2. CASE ~(aware /\ s.agent \in Known)
    <3>1. t = [s EXCEPT !.deps = @ \cap Ids(list)]
      BY <1>5, <2>2
    <3>2. t \in Stage
      BY <1>1, <1>2, <3>1 DEF Stage
    <3>3. Alike(t, s) /\ t.deps = s.deps \cap Ids(list)
      BY <1>1, <3>1 DEF Stage, Alike
    <3> QED BY <2>2, <3>2, <3>3
  <2> QED BY <2>1, <2>2
<1>9. Shape(t)
  BY <1>1, <1>8 DEF Shape, Alike
<1> QED BY <1>3, <1>6, <1>7, <1>8, <1>9 DEF s, t, ks, W

LEMMA RelinkIs ==
  ASSUME NamesApart, io \in IOMaps, NEW list, ShapedPlan(list), NEW aware \in BOOLEAN
  PROVE  /\ DOMAIN Relink(list, aware) = DOMAIN list
         /\ \A i \in DOMAIN list : Alike(Relink(list, aware)[i], list[i])
         /\ ShapedPlan(Relink(list, aware))
         /\ LinkedPlan(Relink(list, aware), aware)
<1> DEFINE R == Relink(list, aware)
<1>1. DOMAIN R = DOMAIN list
  BY DEF Relink
<1> HIDE DEF R
<1>2. \A i \in DOMAIN list : Alike(R[i], list[i]) /\ R[i] \in Stage /\ Shape(R[i])
  BY RelinkedStage DEF R
<1>3. R \in Seq(Stage)
  <2>1. DOMAIN R = 1..Len(list) /\ Len(list) \in Nat
    BY <1>1 DEF ShapedPlan
  <2>2. R = [i \in 1..Len(list) |-> R[i]]
    BY <2>1 DEF R, Relink
  <2>3. R \in [1..Len(list) -> Stage]
    BY <1>1, <1>2, <2>1, <2>2
  <2> QED BY <2>1, <2>3
<1>4. ShapedPlan(R)
  BY <1>1, <1>2, <1>3 DEF ShapedPlan
<1>5. Ids(R) = Ids(list) /\ \A k : Writers(R, k) = Writers(list, k)
  BY <1>1, <1>2, AlikeLists
<1>6. ASSUME NEW i \in DOMAIN R
      PROVE  /\ R[i].deps \subseteq Ids(R)
             /\ R[i].role = "producer" /\ aware =>
                  \A k \in Inputs(io, R[i].agent) :
                      Writers(R, k) # {} =>
                          \E j \in Writers(R, k) : R[j].id \in R[i].deps \cup {R[i].id}
  <2>1. R[i].deps \subseteq Ids(R)
    BY <1>1, <1>5, RelinkedStage DEF R
  <2>2. ASSUME aware, NEW k \in Inputs(io, R[i].agent), Writers(R, k) # {}
        PROVE  \E j \in Writers(R, k) : R[j].id \in R[i].deps
    <3>1. R[i].agent = list[i].agent
      BY <1>1, <1>2 DEF Alike
    <3>2. list[i].agent \in Known
      BY <2>2, <3>1 DEF Inputs
    <3>3. WriterOf(list, k) \in R[i].deps
      <4>1. k \in {q \in Inputs(io, list[i].agent) : Writers(list, q) # {}}
        BY <2>2, <3>1, <1>5
      <4> QED BY <1>1, <2>2, <3>2, <4>1, RelinkedStage DEF R
    <3>4. Max(Writers(list, k)) \in Writers(list, k)
      BY <1>5, <2>2, LastWriter DEF ShapedPlan
    <3>5. R[Max(Writers(list, k))].id = WriterOf(list, k)
      BY <1>2, <3>4 DEF WriterOf, Alike, Writers
    <3> QED BY <1>5, <3>3, <3>4, <3>5
  <2> QED BY <2>1, <2>2
<1>7. LinkedPlan(R, aware)
  BY <1>6 DEF LinkedPlan
<1> QED BY <1>1, <1>2, <1>4, <1>7 DEF R

\* relinking keeps the names, and follows the graph as long as nobody waits for itself
LEMMA RelinkKeeps ==
  ASSUME NamesApart, io \in IOMaps, NEW list, ShapedPlan(list), NEW aware \in BOOLEAN
  PROVE  /\ NamedPlan(list) => NamedPlan(Relink(list, aware))
         /\ WellDeclared(io) /\ OrderedPlan(list) => OrderedPlan(Relink(list, aware))
<1> DEFINE R == Relink(list, aware)
<1>1. DOMAIN R = DOMAIN list /\ \A i \in DOMAIN list : Alike(R[i], list[i])
  BY RelinkIs
<1>2. ASSUME NamedPlan(list) PROVE NamedPlan(R)
  <2> HIDE DEF R
  <2>1. \A i \in DOMAIN list : KindOf(R[i]) = KindOf(list[i])
    BY <1>1, AlikeLists
  <2> QED BY <1>1, <1>2, <2>1 DEF NamedPlan, Alike
<1>3. ASSUME WellDeclared(io), OrderedPlan(list), NEW i \in DOMAIN list
      PROVE  Ordered(R[i])
  <2> DEFINE s  == list[i]
             t  == R[i]
             ks == {k \in Inputs(io, s.agent) : Writers(list, k) # {}}
  <2>1. /\ Alike(t, s) /\ t \in Stage
        /\ \A d \in t.deps : d \in s.deps \/ \E k \in ks : d = WriterOf(list, k)
    BY RelinkedStage
  <2>2. Ordered(s) /\ Shape(s) /\ s.agent \in Agents
    BY <1>3 DEF OrderedPlan, ShapedPlan, Shape, Stage
  <2>3. ASSUME NEW k \in ks
        PROVE  WriterOf(list, k) \in Neighbours(io, s.agent) \cap Agents
    <3>1. k \in Kinds /\ k \in Inputs(io, s.agent) /\ s.agent \in Known
      BY <2>3, InputTypes DEF Inputs
    <3> DEFINE m == Max(Writers(list, k))
    <3>2. m \in Writers(list, k)
      BY <2>3, LastWriter DEF ShapedPlan
    <3>3. m \in DOMAIN list /\ KindOf(list[m]) = k /\ WriterOf(list, k) = list[m].id
      BY <3>2 DEF Writers, WriterOf
    <3> HIDE DEF m
    <3>4. Shape(list[m]) /\ Ordered(list[m])
      BY <1>3, <3>3 DEF ShapedPlan, OrderedPlan
    <3>5. list[m].role = "producer" /\ list[m].kind = k /\ list[m].id = list[m].agent
          /\ list[m].agent \in Agents
      BY <3>1, <3>3, <3>4, WriterIs
    <3>6. Producer(io, k) = list[m].agent
      BY <3>1, <3>4, <3>5 DEF Ordered
    <3>7. list[m].agent # s.agent
      <4>1. list[m].agent \in Known /\ io[list[m].agent].output = k
        BY <1>3, <3>1, <3>5, <3>6, OnlyProducer
      <4>2. k \in io[s.agent].inputs
        BY <3>1 DEF Inputs
      <4> QED BY <1>3, <3>1, <4>1, <4>2 DEF WellDeclared
    <3>8. list[m].agent \in Feeds(io, s.agent)
      BY <3>1, <3>5, <3>6, NamesAre DEF Feeds
    <3> QED BY <3>3, <3>5, <3>7, <3>8 DEF Neighbours
  <2> HIDE DEF s, t, ks
  <2>4. s.role \in {"producer", "evaluator"} /\ t.role = s.role /\ t.kind = s.kind /\ t.agent = s.agent
    BY <2>1, <2>2 DEF Alike, Shape, Stage
  <2>5. \A d \in t.deps : d \in s.deps \/ d \in Neighbours(io, s.agent) \cap Agents
    BY <2>1, <2>3
  <2>6. ASSUME s.role = "producer" PROVE Ordered(t)
    <3>1. /\ s.deps \subseteq Neighbours(io, s.agent) \cap Agents
          /\ s.kind \in Kinds => Producer(io, s.kind) = s.agent
      BY <2>2, <2>6 DEF Ordered
    <3>2. t.deps \subseteq Neighbours(io, t.agent) \cap Agents
      BY <2>4, <2>5, <3>1
    <3> QED BY <2>4, <2>6, <3>1, <3>2 DEF Ordered
  <2>7. ASSUME s.role = "evaluator" PROVE Ordered(t)
    <3>1. s.deps \subseteq Agents
      BY <2>2, <2>7 DEF Ordered
    <3>2. t.deps \subseteq Agents
      BY <2>5, <3>1
    <3> QED BY <2>4, <2>7, <3>2 DEF Ordered
  <2> QED BY <2>4, <2>6, <2>7 DEF t
<1>4. ASSUME WellDeclared(io), OrderedPlan(list) PROVE OrderedPlan(R)
  BY <1>1, <1>3, <1>4 DEF OrderedPlan
<1> QED BY <1>2, <1>4

-----------------------------------------------------------------------------
(* The normalizer.                                                           *)

LEMMA KeepGood ==
  ASSUME NEW named, NEW list, GoodPlan(list, named), NEW I \in SUBSET DOMAIN list
  PROVE  GoodPlan(Keep(list, I), named)
<1>1. list \in Seq(Stage)
  BY DEF GoodPlan, ShapedPlan
<1>2. /\ Keep(list, I) \in Seq(Stage)
      /\ \A n \in DOMAIN Keep(list, I) : \E i \in I : Keep(list, I)[n] = list[i]
  BY <1>1, KeepIs
<1>3. \A n \in DOMAIN Keep(list, I) : \E i \in DOMAIN list : Keep(list, I)[n] = list[i]
  BY <1>2
<1> QED BY <1>2, <1>3 DEF GoodPlan, ShapedPlan, OrderedPlan, NamedPlan

LEMMA JoinGood ==
  ASSUME NEW named, NEW p, GoodPlan(p, named), NEW q, GoodPlan(q, named)
  PROVE  GoodPlan(p \o q, named)
<1>1. p \in Seq(Stage) /\ q \in Seq(Stage)
  BY DEF GoodPlan, ShapedPlan
<1>2. p \o q \in Seq(Stage)
  BY <1>1
<1>3. \A n \in DOMAIN (p \o q) : \/ \E i \in DOMAIN p : (p \o q)[n] = p[i]
                                 \/ \E i \in DOMAIN q : (p \o q)[n] = q[i]
  <2> SUFFICES ASSUME NEW n \in DOMAIN (p \o q)
               PROVE  \/ \E i \in DOMAIN p : (p \o q)[n] = p[i]
                      \/ \E i \in DOMAIN q : (p \o q)[n] = q[i]
    OBVIOUS
  <2>1. n \in 1..(Len(p) + Len(q)) /\ Len(p) \in Nat /\ Len(q) \in Nat
        /\ DOMAIN p = 1..Len(p) /\ DOMAIN q = 1..Len(q)
    BY <1>1
  <2>2. CASE n <= Len(p)
    <3>1. n \in DOMAIN p /\ (p \o q)[n] = p[n]
      BY <1>1, <2>1, <2>2
    <3> QED BY <3>1
  <2>3. CASE ~(n <= Len(p))
    <3>1. n - Len(p) \in DOMAIN q /\ (p \o q)[n] = q[n - Len(p)]
      BY <1>1, <2>1, <2>3
    <3> QED BY <3>1
  <2> QED BY <2>2, <2>3
<1> HIDE DEF GoodPlan
<1>4. \A n \in DOMAIN (p \o q) : Shape((p \o q)[n])
  BY <1>3 DEF GoodPlan, ShapedPlan
<1>5. WellDeclared(io) => \A n \in DOMAIN (p \o q) : Ordered((p \o q)[n])
  BY <1>3 DEF GoodPlan, OrderedPlan
<1>6. WellDeclared(io) /\ named =>
        \A n \in DOMAIN (p \o q) : KindOf((p \o q)[n]) = KindFor((p \o q)[n].id)
  <2> SUFFICES ASSUME WellDeclared(io), named, NEW n \in DOMAIN (p \o q)
               PROVE  KindOf((p \o q)[n]) = KindFor((p \o q)[n].id)
    OBVIOUS
  <2>1. NamedPlan(p) /\ NamedPlan(q)
    BY DEF GoodPlan
  <2> QED BY <1>3, <2>1 DEF NamedPlan
<1> QED BY <1>2, <1>4, <1>5, <1>6 DEF GoodPlan, ShapedPlan, OrderedPlan, NamedPlan

LEMMA RelinkGood ==
  ASSUME NamesApart, io \in IOMaps, NEW aware \in BOOLEAN, NEW list, GoodPlan(list, aware)
  PROVE  GoodPlan(Relink(list, aware), aware)
  BY RelinkIs, RelinkKeeps DEF GoodPlan

\* a core stage that the normalizer adds
LEMMA CoreStageIs ==
  ASSUME NamesApart, io \in IOMaps, NEW aware \in BOOLEAN, NEW a \in Core
  PROVE  LET s == CoreStage(a, aware)
         IN  /\ s \in Stage /\ Shape(s)
             /\ WellDeclared(io) => Ordered(s) /\ (aware => KindOf(s) = KindFor(s.id))
<1> DEFINE s == CoreStage(a, aware)
           k == IF aware /\ a \in Known /\ io[a].output # None THEN io[a].output ELSE a
<1>1. a \in Agents /\ (a \in Known => io[a].output \in Kinds \cup {None})
  BY NamesAre DEF IOMaps
<1>2. /\ s.id = a /\ s.agent = a /\ s.role = "producer" /\ s.deps = {} /\ s.kind = k
  BY DEF CoreStage
<1>3. s \in Stage
  BY <1>1 DEF CoreStage, Stage, StageIds, StageKinds
<1>4. Shape(s)
  <2> HIDE DEF s, k
  <2> QED BY <1>2, <1>3 DEF Shape
<1>5. ASSUME WellDeclared(io)
      PROVE  Ordered(s) /\ (aware => KindOf(s) = KindFor(s.id))
  <2>1. k = a \/ (a \in Known /\ k = io[a].output)
    OBVIOUS
  <2>2. aware => k = IF OutputFor(io, a) = None THEN a ELSE OutputFor(io, a)
    <3>1. CASE a \in Known
      BY <1>5, <3>1, OutputIs
    <3>2. CASE a \notin Known
      <4>1. OutputFor(io, a) = None
        BY <1>1, <1>5, <3>2, OnlyProducer DEF OutputFor
      <4> QED BY <3>2, <4>1
    <3> QED BY <3>1, <3>2
  <2>3. k # None
    BY <1>1, NamesAre
  <2> HIDE DEF s, k
  <2>4. s.kind \in Kinds => Producer(io, s.kind) = s.agent
    <3> SUFFICES ASSUME k \in Kinds PROVE Producer(io, k) = a
      BY <1>2
    <3>1. k # a
      BY <1>1 DEF NamesApart
    <3> QED BY <1>5, <2>1, <3>1, OnlyProducer
  <2>5. Ordered(s)
    BY <1>2, <2>4 DEF Ordered
  <2>6. ASSUME aware PROVE KindOf(s) = KindFor(s.id)
    BY <1>1, <1>2, <2>2, <2>3, <2>6 DEF KindOf, KindFor
  <2> QED BY <2>5, <2>6
<1> QED BY <1>3, <1>4, <1>5

LEMMA CoreGood ==
  ASSUME NamesApart, io \in IOMaps, NEW aware \in BOOLEAN, NEW missing \in Seq(Core)
  PROVE  GoodPlan([i \in DOMAIN missing |-> CoreStage(missing[i], aware)], aware)
<1> DEFINE list == [i \in DOMAIN missing |-> CoreStage(missing[i], aware)]
<1>1. \A i \in DOMAIN missing :
         LET s == CoreStage(missing[i], aware)
         IN  /\ s \in Stage /\ Shape(s)
             /\ WellDeclared(io) => Ordered(s) /\ (aware => KindOf(s) = KindFor(s.id))
  <2>1. \A i \in DOMAIN missing : missing[i] \in Core
    OBVIOUS
  <2> QED BY <2>1, CoreStageIs
<1>2. DOMAIN missing = 1..Len(missing) /\ Len(missing) \in Nat
  OBVIOUS
<1>3. DOMAIN list = DOMAIN missing /\ \A i \in DOMAIN missing : list[i] = CoreStage(missing[i], aware)
  OBVIOUS
<1>4. list \in [1..Len(missing) -> Stage]
  BY <1>1, <1>2
<1>5. list \in Seq(Stage)
  BY <1>2, <1>4
<1> HIDE DEF list
<1>6. ShapedPlan(list)
  BY <1>1, <1>3, <1>5 DEF ShapedPlan
<1>7. WellDeclared(io) => OrderedPlan(list)
  BY <1>1, <1>3 DEF OrderedPlan
<1>8. WellDeclared(io) /\ aware => NamedPlan(list)
  BY <1>1, <1>3 DEF NamedPlan
<1> QED BY <1>6, <1>7, <1>8 DEF GoodPlan, list

\* What normalize returns is linked, and has a stage for every agent of the plan that it
\* is told neither to leave out nor not to leave in.
LEMMA NormalizedIs ==
  ASSUME NamesApart, io \in IOMaps, setOrder \in Seq(Agents), NEW n \in NormalizerType,
         NEW stages, GoodPlan(stages, n.aware)
  PROVE  /\ GoodPlan(Normalized(stages, n), n.aware)
         /\ LinkedPlan(Normalized(stages, n), n.aware)
         /\ \A i \in DOMAIN stages :
               \/ \E j \in DOMAIN Normalized(stages, n) : Normalized(stages, n)[j].agent = stages[i].agent
               \/ stages[i].agent \in n.forbidden \cup n.sick
               \/ n.enabled # {} /\ stages[i].agent \notin n.enabled
<1> DEFINE Admits(a) == n.enabled = {} \/ a \in n.enabled
           E        == {i \in DOMAIN stages : Admits(stages[i].agent)}
           enabled  == Keep(stages, E)
           present  == {enabled[i].agent : i \in DOMAIN enabled}
           M        == {i \in DOMAIN setOrder : setOrder[i] \in Core \ present /\ Admits(setOrder[i])}
           absent   == Keep(setOrder, M)
           missing  == Reverse(absent)
           added    == [i \in DOMAIN missing |-> CoreStage(missing[i], n.aware)]
           whole    == added \o enabled
           A        == {i \in DOMAIN whole : whole[i].agent \notin n.forbidden}
           allowed  == Keep(whole, A)
           linked   == Relink(allowed, n.aware)
           H        == {i \in DOMAIN linked : linked[i].agent \notin n.sick}
           healthy  == Keep(linked, H)
           final    == Relink(healthy, n.aware)
<1>1. Normalized(stages, n) = final
  BY DEF Normalized
<1>2. n.aware \in BOOLEAN
  BY DEF NormalizerType
<1>3. /\ E \in SUBSET DOMAIN stages
      /\ \A i \in DOMAIN stages : ~(n.enabled # {} /\ stages[i].agent \notin n.enabled) => i \in E
  OBVIOUS
<1> HIDE DEF E
<1>4. GoodPlan(enabled, n.aware)
      /\ \A i \in E : \E j \in DOMAIN enabled : enabled[j] = stages[i]
  <2>1. stages \in Seq(Stage)
    BY DEF GoodPlan, ShapedPlan
  <2> QED BY <1>3, <2>1, KeepGood, KeepIs
<1> HIDE DEF enabled
<1>5. M \in SUBSET DOMAIN setOrder /\ \A i \in M : setOrder[i] \in Core
  OBVIOUS
<1> HIDE DEF M
<1>6. absent \in Seq(Core)
  <2>1. absent \in Seq(Agents) /\ \A k \in DOMAIN absent : \E i \in M : absent[k] = setOrder[i]
    BY <1>5, KeepIs
  <2>2. \A k \in DOMAIN absent : absent[k] \in Core
    BY <1>5, <2>1
  <2> HIDE DEF absent
  <2> QED BY <2>1, <2>2
<1> HIDE DEF absent
<1>7. missing \in Seq(Core)
  <2>1. Len(absent) \in Nat /\ \A i \in 1..Len(absent) : absent[Len(absent) - i + 1] \in Core
    BY <1>6
  <2> QED BY <2>1 DEF Reverse
<1> HIDE DEF missing
<1>8. GoodPlan(added, n.aware)
  BY <1>2, <1>7, CoreGood
<1> HIDE DEF added
<1>9. GoodPlan(whole, n.aware) /\ \A j \in DOMAIN enabled : \E m \in DOMAIN whole : whole[m] = enabled[j]
  <2>1. GoodPlan(whole, n.aware)
    BY <1>4, <1>8, JoinGood
  <2>2. added \in Seq(Stage) /\ enabled \in Seq(Stage)
    BY <1>4, <1>8 DEF GoodPlan, ShapedPlan
  <2>3. ASSUME NEW j \in DOMAIN enabled PROVE \E m \in DOMAIN whole : whole[m] = enabled[j]
    <3>1. Len(added) \in Nat /\ Len(enabled) \in Nat /\ j \in 1..Len(enabled)
      BY <2>2
    <3>2. Len(added) + j \in DOMAIN whole /\ whole[Len(added) + j] = enabled[j]
      BY <2>2, <3>1
    <3> QED BY <3>2
  <2> QED BY <2>1, <2>3
<1> HIDE DEF whole
<1>10. A \in SUBSET DOMAIN whole /\ \A m \in DOMAIN whole : whole[m].agent \notin n.forbidden => m \in A
  OBVIOUS
<1> HIDE DEF A
<1>11. GoodPlan(allowed, n.aware)
       /\ \A m \in A : \E j \in DOMAIN allowed : allowed[j] = whole[m]
  <2>1. whole \in Seq(Stage)
    BY <1>9 DEF GoodPlan, ShapedPlan
  <2> QED BY <1>9, <1>10, <2>1, KeepGood, KeepIs
<1> HIDE DEF allowed
<1>12. GoodPlan(linked, n.aware)
       /\ DOMAIN linked = DOMAIN allowed /\ \A j \in DOMAIN allowed : linked[j].agent = allowed[j].agent
  <2>1. ShapedPlan(allowed)
    BY <1>11 DEF GoodPlan
  <2>2. DOMAIN linked = DOMAIN allowed /\ \A j \in DOMAIN allowed : Alike(linked[j], allowed[j])
    BY <1>2, <2>1, RelinkIs
  <2> HIDE DEF linked
  <2>3. GoodPlan(linked, n.aware)
    BY <1>2, <1>11, RelinkGood DEF linked
  <2> QED BY <2>2, <2>3 DEF Alike
<1> HIDE DEF linked
<1>13. H \in SUBSET DOMAIN linked /\ \A j \in DOMAIN linked : linked[j].agent \notin n.sick => j \in H
  OBVIOUS
<1> HIDE DEF H
<1>14. GoodPlan(healthy, n.aware)
       /\ \A m \in H : \E j \in DOMAIN healthy : healthy[j] = linked[m]
  <2>1. linked \in Seq(Stage)
    BY <1>12 DEF GoodPlan, ShapedPlan
  <2> QED BY <1>12, <1>13, <2>1, KeepGood, KeepIs
<1> HIDE DEF healthy
<1>15. GoodPlan(final, n.aware) /\ LinkedPlan(final, n.aware)
       /\ DOMAIN final = DOMAIN healthy /\ \A j \in DOMAIN healthy : final[j].agent = healthy[j].agent
  <2>1. ShapedPlan(healthy)
    BY <1>14 DEF GoodPlan
  <2>2. DOMAIN final = DOMAIN healthy /\ LinkedPlan(final, n.aware)
        /\ \A j \in DOMAIN healthy : Alike(final[j], healthy[j])
    BY <1>2, <2>1, RelinkIs
  <2> HIDE DEF final
  <2>3. GoodPlan(final, n.aware)
    BY <1>2, <1>14, RelinkGood DEF final
  <2> QED BY <2>2, <2>3 DEF Alike
<1> HIDE DEF final
<1>16. ASSUME NEW i \in DOMAIN stages, stages[i].agent \notin n.forbidden \cup n.sick,
              ~(n.enabled # {} /\ stages[i].agent \notin n.enabled)
       PROVE  \E j \in DOMAIN final : final[j].agent = stages[i].agent
  <2>1. PICK e \in DOMAIN enabled : enabled[e] = stages[i]
    BY <1>3, <1>4, <1>16
  <2>2. PICK w \in DOMAIN whole : whole[w] = enabled[e]
    BY <1>9
  <2>3. PICK k \in DOMAIN allowed : allowed[k] = whole[w]
    BY <1>10, <1>11, <1>16, <2>1, <2>2
  <2>4. linked[k].agent = stages[i].agent /\ k \in DOMAIN linked
    BY <1>12, <2>1, <2>2, <2>3
  <2>5. PICK j \in DOMAIN healthy : healthy[j] = linked[k]
    BY <1>13, <1>14, <1>16, <2>4
  <2> QED BY <1>15, <2>4, <2>5
<1> QED BY <1>1, <1>15, <1>16

-----------------------------------------------------------------------------
(* The compiler.                                                             *)

LEMMA OrderIsList ==
  ASSUME setOrder \in SetOrders
  PROVE  setOrder \in Seq(Agents)
<1> DEFINE D == 1..Len(Sorted)
<1>1. Len(Sorted) \in Nat /\ DOMAIN Sorted = D /\ Sorted \in [D -> Agents]
  BY CompilerAssumption DEF CompilerAssumption
<1>2. \A a \in Agents : \E i \in DOMAIN Sorted : Sorted[i] = a
  BY CompilerAssumption DEF CompilerAssumption
<1>3. IsFiniteSet(Agents)
  <2>1. IsFiniteSet(D)
    BY <1>1, FS_Interval
  <2> HIDE DEF D
  <2>2. Sorted \in Surjection(D, Agents)
    BY <1>1, <1>2 DEF Surjection
  <2> QED BY <2>1, <2>2, FS_Surjection
<1>4. Cardinality(Agents) \in Nat
  BY <1>3, FS_CardinalityType
<1>5. setOrder \in [1..Cardinality(Agents) -> Agents]
  BY CompilerAssumption DEF CompilerAssumption, SetToSeqs
<1> QED BY <1>4, <1>5

\* the stage of an agent, and what an evaluator adds to it
LEMMA RawStageIs ==
  ASSUME NamesApart, io \in IOMaps, pool \subseteq Agents, NEW a \in pool
  PROVE  LET s == RawStage(a)
         IN  /\ s \in Stage /\ Shape(s) /\ s.id = a /\ s.agent = a /\ s.role = "producer"
             /\ s.kind = OutputFor(io, a) /\ s.deps = Deps(a)
             /\ Ordered(s) /\ KindOf(s) = KindFor(s.id)
<1> DEFINE s == RawStage(a)
<1>1. a \in Agents
  OBVIOUS
<1>2. /\ Inputs(io, a) \subseteq Kinds /\ OutputFor(io, a) \in Kinds \cup {None}
      /\ OutputFor(io, a) # None => Producer(io, OutputFor(io, a)) = a
  BY InputTypes
<1>3. Deps(a) \subseteq Agents /\ Deps(a) \subseteq Neighbours(io, a)
  BY DEF Deps
<1>4. /\ s.id = a /\ s.agent = a /\ s.role = "producer" /\ s.kind = OutputFor(io, a)
      /\ s.deps = Deps(a)
  BY DEF RawStage
<1>5. s \in Stage
  BY <1>1, <1>2, <1>3 DEF RawStage, Stage, StageIds, StageKinds
<1> HIDE DEF s
<1>6. Shape(s)
  BY <1>4, <1>5 DEF Shape
<1>7. Ordered(s)
  BY <1>2, <1>3, <1>4, NamesAre DEF Ordered
<1>8. KindOf(s) = KindFor(s.id)
  BY <1>1, <1>4 DEF KindOf, KindFor
<1> QED BY <1>4, <1>5, <1>6, <1>7, <1>8 DEF s

LEMMA EvalStageIs ==
  ASSUME NamesApart, io \in IOMaps, pool \subseteq Agents, NEW a \in pool, NEW e \in Agents
  PROVE  LET s == EvalStage(RawStage(a), e)
         IN  /\ s \in Stage /\ Shape(s) /\ s.role = "evaluator" /\ s.deps = {a}
             /\ Ordered(s) /\ KindOf(s) = KindFor(s.id)
<1> DEFINE s == EvalStage(RawStage(a), e)
           k == OutputFor(io, a)
<1>1. a \in Agents /\ k \in Kinds \cup {None}
  BY InputTypes
<1>2. /\ s.id = <<a, e>> /\ s.agent = e /\ s.role = "evaluator" /\ s.kind = <<k, "eval">>
      /\ s.deps = {a}
  BY DEF EvalStage, RawStage
<1>3. s \in Stage
  <2>1. s = [id |-> <<a, e>>, agent |-> e, role |-> "evaluator", kind |-> <<k, "eval">>,
             deps |-> {a}, refs |-> {}, pre |-> FALSE]
    BY DEF EvalStage, RawStage
  <2>2. <<a, e>> \in StageIds /\ {a} \subseteq StageIds /\ <<k, "eval">> \in StageKinds
    BY <1>1 DEF StageIds, StageKinds
  <2> HIDE DEF s, k
  <2> QED BY <2>1, <2>2 DEF Stage
<1> HIDE DEF s
<1>4. Shape(s)
  BY <1>1, <1>2, <1>3 DEF Shape
<1>5. Ordered(s)
  BY <1>1, <1>2 DEF Ordered
<1>6. KindOf(s) = KindFor(s.id)
  <2>1. <<a, e>> \notin Agents /\ <<k, "eval">> # None
    BY <1>1 DEF NamesApart
  <2>2. KindOf(s) = <<k, "eval">>
    BY <1>2, <2>1 DEF KindOf
  <2>3. KindFor(<<a, e>>) = <<k, "eval">>
    BY <2>1 DEF KindFor
  <2> QED BY <1>2, <2>2, <2>3
<1> QED BY <1>2, <1>3, <1>4, <1>5, <1>6 DEF s

\* what compile returns
Compiled ==
    LET agents == Keep(Sorted, {i \in DOMAIN Sorted : Sorted[i] \in pool})
    IN  Inject([i \in DOMAIN agents |-> RawStage(agents[i])])

\* compile leaves out no agent of the pool; its plan is linked, with what each agent needs
\* of the pool, and ordered by the graph.
LEMMA CompiledIs ==
  ASSUME NamesApart, io \in IOMaps, setOrder \in Seq(Agents), pool \subseteq Agents
  PROVE  /\ GoodPlan(Compiled, TRUE) /\ LinkedPlan(Compiled, TRUE)
         /\ \A a \in pool : \E i \in DOMAIN Compiled : Compiled[i].agent = a
<1> DEFINE I      == {i \in DOMAIN Sorted : Sorted[i] \in pool}
           agents == Keep(Sorted, I)
           raw    == [i \in DOMAIN agents |-> RawStage(agents[i])]
           list   == Inject(raw)
<1>1. Compiled = list
  BY DEF Compiled
<1>2. I \in SUBSET DOMAIN Sorted /\ Sorted \in Seq(Agents)
      /\ \A a \in pool : \E i \in I : Sorted[i] = a
  BY CompilerAssumption DEF CompilerAssumption
<1>3. /\ agents \in Seq(Agents)
      /\ \A n \in DOMAIN agents : agents[n] \in pool
      /\ \A a \in pool : \E n \in DOMAIN agents : agents[n] = a
  <2>1. \A i \in I : Sorted[i] \in pool
    OBVIOUS
  <2> HIDE DEF I
  <2>2. /\ Keep(Sorted, I) \in Seq(Agents)
        /\ \A n \in DOMAIN Keep(Sorted, I) : \E i \in I : Keep(Sorted, I)[n] = Sorted[i]
        /\ \A i \in I : \E n \in DOMAIN Keep(Sorted, I) : Keep(Sorted, I)[n] = Sorted[i]
    BY <1>2, KeepIs
  <2> QED BY <1>2, <2>1, <2>2
<1> HIDE DEF agents
<1>4. /\ raw \in Seq(Stage)
      /\ \A n \in DOMAIN agents : n \in DOMAIN raw /\ raw[n] = RawStage(agents[n])
      /\ \A n \in DOMAIN raw : \E a \in pool : raw[n] = RawStage(a)
  <2>1. DOMAIN agents = 1..Len(agents) /\ Len(agents) \in Nat
    BY <1>3
  <2>2. \A a \in pool : RawStage(a) \in Stage
    BY RawStageIs
  <2>3. raw \in [1..Len(agents) -> Stage]
    BY <1>3, <2>1, <2>2
  <2> QED BY <1>3, <2>1, <2>3
<1> HIDE DEF raw
<1>5. Evaluators \subseteq Agents
  BY CompilerAssumption DEF CompilerAssumption
<1>6. /\ list \in Seq(Stage)
      /\ \A n \in DOMAIN list : \E i \in DOMAIN raw :
            list[n] = raw[i] \/ \E e \in Evaluators : list[n] = EvalStage(raw[i], e)
      /\ \A i \in DOMAIN raw : \E n \in DOMAIN list : list[n] = raw[i]
  <2>1. \A i \in DOMAIN raw, e \in Evaluators : EvalStage(raw[i], e) \in Stage
    BY <1>4, <1>5, EvalStageIs
  <2> QED BY <1>4, <2>1, InjectIs
<1> HIDE DEF list
<1>7. \A n \in DOMAIN list : \E a \in pool :
         list[n] = RawStage(a) \/ \E e \in Agents : list[n] = EvalStage(RawStage(a), e)
  BY <1>4, <1>5, <1>6
<1>8. \A a \in pool : \E n \in DOMAIN list : list[n] = RawStage(a)
  BY <1>3, <1>4, <1>6
<1>9. \A n \in DOMAIN list :
        /\ list[n] \in Stage /\ Shape(list[n])
        /\ Ordered(list[n]) /\ KindOf(list[n]) = KindFor(list[n].id)
  BY <1>7, RawStageIs, EvalStageIs
<1>11. GoodPlan(list, TRUE)
  BY <1>6, <1>9 DEF GoodPlan, ShapedPlan, OrderedPlan, NamedPlan
<1>12. \A a \in pool : a \in Ids(list)
  BY <1>8, RawStageIs DEF Ids
<1>13. ASSUME NEW n \in DOMAIN list
       PROVE  /\ list[n].deps \subseteq Ids(list)
              /\ list[n].role = "producer" =>
                   \A k \in Inputs(io, list[n].agent) :
                       Writers(list, k) # {} =>
                           \E j \in Writers(list, k) : list[j].id \in list[n].deps \cup {list[n].id}
  <2>1. PICK a \in pool : list[n] = RawStage(a) \/ \E e \in Agents : list[n] = EvalStage(RawStage(a), e)
    BY <1>7
  <2>2. CASE list[n] = RawStage(a)
    <3>1. list[n].deps = Deps(a) /\ list[n].agent = a /\ list[n].id = a
      BY <2>2, RawStageIs
    <3>2. list[n].deps \subseteq Ids(list)
      BY <1>12, <3>1 DEF Deps
    <3>3. ASSUME NEW k \in Inputs(io, a), NEW j \in Writers(list, k)
          PROVE  list[j].id \in Deps(a) \cup {a}
      <4>1. k \in Kinds
        BY InputTypes
      <4>2. j \in DOMAIN list /\ KindOf(list[j]) = k
        BY DEF Writers
      <4>3. /\ list[j].role = "producer" /\ list[j].kind = k
            /\ list[j].id = list[j].agent /\ list[j].agent \in Agents
        BY <1>9, <4>1, <4>2, WriterIs
      <4>4. PICK b \in pool : list[j] = RawStage(b) \/ \E e \in Agents : list[j] = EvalStage(RawStage(b), e)
        BY <1>7, <4>2
      <4>5. list[j] = RawStage(b)
        BY <4>3, <4>4, EvalStageIs
      <4>6. list[j].id = b /\ k = OutputFor(io, b)
        BY <4>3, <4>5, RawStageIs
      <4>7. Producer(io, k) = b
        BY <4>1, <4>6, NamesAre, InputTypes
      <4>8. b \in Feeds(io, a)
        BY <4>7, NamesAre DEF Feeds
      <4> QED BY <4>6, <4>8 DEF Deps, Neighbours
    <3> QED BY <3>1, <3>2, <3>3
  <2>3. CASE \E e \in Agents : list[n] = EvalStage(RawStage(a), e)
    <3>1. list[n].role = "evaluator" /\ list[n].deps = {a}
      BY <2>3, EvalStageIs
    <3> QED BY <1>12, <3>1
  <2> QED BY <2>1, <2>2, <2>3
<1>14. LinkedPlan(list, TRUE)
  BY <1>13 DEF LinkedPlan
<1>15. \A a \in pool : \E i \in DOMAIN list : list[i].agent = a
  BY <1>8, RawStageIs
<1> QED BY <1>1, <1>11, <1>14, <1>15

-----------------------------------------------------------------------------
(* The invariant of plans, step by step.                                     *)

LEMMA MarkIs ==
  ASSUME NEW s \in Stage
  PROVE  /\ Mark(s) \in Stage /\ Alike(Mark(s), s) /\ Mark(s).deps = s.deps
         /\ Mark(s).pre => \/ s.id \in stuck.succeeded
                           \/ KindOf(s) \in stuck.artifacts /\ s.id \notin stuck.pending
<1>1. ASSUME NEW b \in BOOLEAN
      PROVE  /\ [s EXCEPT !.pre = b] \in Stage /\ Alike([s EXCEPT !.pre = b], s)
             /\ [s EXCEPT !.pre = b].deps = s.deps /\ [s EXCEPT !.pre = b].pre = b
  BY DEF Stage, Alike
<1> DEFINE b == KindOf(s) \in stuck.artifacts /\ s.id \notin stuck.pending
<1>2. b \in BOOLEAN
  OBVIOUS
<1>3. Mark(s) = IF s.id \in stuck.succeeded THEN [s EXCEPT !.pre = TRUE]
                ELSE IF s.agent \in stuck.agents THEN [s EXCEPT !.pre = FALSE]
                ELSE [s EXCEPT !.pre = b]
  BY DEF Mark
<1>4. b => KindOf(s) \in stuck.artifacts /\ s.id \notin stuck.pending
  OBVIOUS
<1> HIDE DEF b
<1>5. CASE s.id \in stuck.succeeded
  BY <1>1, <1>3, <1>5
<1>6. CASE s.id \notin stuck.succeeded /\ s.agent \in stuck.agents
  BY <1>1, <1>3, <1>6
<1>7. CASE s.id \notin stuck.succeeded /\ s.agent \notin stuck.agents
  <2>1. Mark(s) = [s EXCEPT !.pre = b]
    BY <1>3, <1>7
  <2> QED BY <1>1, <1>2, <1>4, <2>1
<1> QED BY <1>5, <1>6, <1>7

LEMMA MarkedPlan ==
  ASSUME NEW e, NEW list, GoodPlan(list, e), LinkedPlan(list, e),
         NEW R \in Seq(Stage), DOMAIN R = DOMAIN list,
         \A i \in DOMAIN list : Alike(R[i], list[i]) /\ R[i].deps = list[i].deps
  PROVE  GoodPlan(R, e) /\ LinkedPlan(R, e)
<1>1. /\ Ids(R) = Ids(list)
      /\ \A i \in DOMAIN list : KindOf(R[i]) = KindOf(list[i])
      /\ \A k : Writers(R, k) = Writers(list, k)
  BY AlikeLists
<1>2. \A i \in DOMAIN list : R[i] \in Stage
  OBVIOUS
<1>3. ShapedPlan(R)
  BY <1>2 DEF GoodPlan, ShapedPlan, Shape, Alike
<1>4. WellDeclared(io) => OrderedPlan(R)
  BY DEF GoodPlan, OrderedPlan, Ordered, Alike
<1>5. WellDeclared(io) /\ e => NamedPlan(R)
  BY <1>1 DEF GoodPlan, NamedPlan, Alike
<1>6. ASSUME NEW i \in DOMAIN R
      PROVE  /\ R[i].deps \subseteq Ids(R)
             /\ R[i].role = "producer" /\ e =>
                  \A k \in Inputs(io, R[i].agent) :
                      Writers(R, k) # {} =>
                          \E j \in Writers(R, k) : R[j].id \in R[i].deps \cup {R[i].id}
  <2>1. R[i].deps = list[i].deps /\ R[i].role = list[i].role /\ R[i].agent = list[i].agent
        /\ R[i].id = list[i].id /\ i \in DOMAIN list
    BY DEF Alike
  <2>2. \A k : \A j \in Writers(list, k) : R[j].id = list[j].id
    BY DEF Writers, Alike
  <2> QED BY <1>1, <2>1, <2>2 DEF LinkedPlan
<1>7. LinkedPlan(R, e)
  BY <1>6 DEF LinkedPlan
<1> QED BY <1>3, <1>4, <1>5, <1>7 DEF GoodPlan

\* what is said about a plan stays true as long as the declarations do
LEMMA FactsNext ==
  ASSUME io' = io, NEW x, plan' = x, NEW e \in BOOLEAN, GoodPlan(x, e), LinkedPlan(x, e), Exact' <=> e
  PROVE  FactsInv'
<1>1. ShapedPlan(plan)'
  BY DEF GoodPlan, ShapedPlan, Shape
<1>2. WellDeclared(io)' => OrderedPlan(plan)'
  BY DEF GoodPlan, OrderedPlan, Ordered
<1>3. WellDeclared(io)' => (Exact' => NamedPlan(plan)')
  BY DEF GoodPlan, NamedPlan, KindFor
<1>4. LinkedPlan(plan, Exact)'
  BY DEF LinkedPlan
<1> QED BY <1>1, <1>2, <1>3, <1>4 DEF FactsInv, GoodPlan

\* steps that lead to no plan
LEMMA QuietStep ==
  ASSUME PlanInv, UNCHANGED <<io, setOrder, plan, normalizer, stuck>>, pool' \subseteq Agents,
         phase' \notin {"compiled", "ready", "recovered"}
  PROVE  PlanInv'
<1>1. PlanTypes'
  BY DEF PlanInv, PlanTypes
<1>2. FactsInv'
  BY DEF PlanInv, FactsInv, ShapedPlan, Shape
<1>3. CoverInv' /\ DoneInv'
  BY DEF CoverInv, DoneInv
<1>4. StuckInv'
  BY DEF PlanInv, StuckInv, KindFor
<1> QED BY <1>1, <1>2, <1>3, <1>4 DEF PlanInv

LEMMA PlanStutters ==
  ASSUME PlanInv, UNCHANGED vars
  PROVE  PlanInv'
<1> USE DEF vars, graph
<1>1. PlanTypes'
  BY DEF PlanInv, PlanTypes
<1>2. FactsInv'
  <2>1. CASE phase \in {"compiled", "ready", "recovered"}
    <3>1. GoodPlan(plan, Exact) /\ LinkedPlan(plan, Exact)
      BY <2>1 DEF PlanInv, FactsInv
    <3> QED BY <3>1 DEF FactsInv, GoodPlan, ShapedPlan, Shape, OrderedPlan, Ordered, NamedPlan,
                        KindFor, LinkedPlan, Exact
  <2>2. CASE phase \notin {"compiled", "ready", "recovered"}
    BY <2>2 DEF PlanInv, FactsInv, ShapedPlan, Shape
  <2> QED BY <2>1, <2>2
<1>3. CoverInv' /\ DoneInv'
  BY DEF PlanInv, CoverInv, DoneInv
<1>4. StuckInv'
  BY DEF PlanInv, StuckInv, KindFor
<1> QED BY <1>1, <1>2, <1>3, <1>4 DEF PlanInv

LEMMA BuildStep ==
  ASSUME NamesApart, CloseInv, PlanInv, Build
  PROVE  PlanInv'
<1>1. UNCHANGED <<io, setOrder, base, pool, normalizer, stuck>> /\ phase' = "compiled" /\ plan' = Compiled
  BY DEF Build, graph, Compiled
<1>2. io \in IOMaps /\ setOrder \in Seq(Agents) /\ pool \subseteq Agents /\ base \subseteq pool
  BY DEF PlanInv, PlanTypes, CloseInv
<1>3. /\ GoodPlan(Compiled, TRUE) /\ LinkedPlan(Compiled, TRUE)
      /\ \A a \in pool : \E i \in DOMAIN Compiled : Compiled[i].agent = a
  BY <1>2, CompiledIs
<1>4. PlanTypes'
  BY <1>1 DEF PlanInv, PlanTypes
<1>5. FactsInv'
  <2>1. PICK x : x = Compiled
    OBVIOUS
  <2>2. Exact' <=> TRUE
    BY <1>1 DEF Exact
  <2> QED BY <1>1, <1>3, <2>1, <2>2, FactsNext
<1>6. CoverInv' /\ DoneInv'
  BY <1>1, <1>2, <1>3 DEF CoverInv, DoneInv
<1>7. StuckInv'
  BY <1>1 DEF PlanInv, StuckInv, KindFor
<1> QED BY <1>4, <1>5, <1>6, <1>7 DEF PlanInv

LEMMA NormalizeStep ==
  ASSUME NamesApart, CloseInv, PlanInv, NEW n \in Normalizers, Normalize(n)
  PROVE  PlanInv'
<1>1. /\ UNCHANGED <<io, setOrder, base, pool, stuck>> /\ phase = "compiled" /\ phase' = "ready"
      /\ normalizer' = n /\ plan' = IF plan = <<>> THEN plan ELSE Normalized(plan, n)
  BY DEF Normalize, graph
<1>2. n \in NormalizerType /\ n.aware \in BOOLEAN
  BY CompilerAssumption DEF CompilerAssumption, NormalizerType
<1>3. GoodPlan(plan, n.aware) /\ \A a \in base : \E i \in DOMAIN plan : plan[i].agent = a
  BY <1>1 DEF PlanInv, FactsInv, GoodPlan, Exact, CoverInv
<1>4. PICK x : x = plan'
  OBVIOUS
<1>5. /\ GoodPlan(x, n.aware) /\ LinkedPlan(x, n.aware)
      /\ \A a \in base : \/ \E i \in DOMAIN x : x[i].agent = a
                         \/ a \in n.forbidden \cup n.sick
                         \/ (n.enabled # {} /\ a \notin n.enabled)
  <2>1. CASE plan = <<>>
    <3>1. x = plan /\ base = {}
      BY <1>1, <1>3, <1>4, <2>1
    <3> QED BY <1>3, <2>1, <3>1 DEF LinkedPlan
  <2>2. CASE plan # <<>>
    <3>1. x = Normalized(plan, n)
      BY <1>1, <1>4, <2>2
    <3>2. /\ GoodPlan(Normalized(plan, n), n.aware) /\ LinkedPlan(Normalized(plan, n), n.aware)
          /\ \A i \in DOMAIN plan :
               \/ \E j \in DOMAIN Normalized(plan, n) : Normalized(plan, n)[j].agent = plan[i].agent
               \/ plan[i].agent \in n.forbidden \cup n.sick
               \/ n.enabled # {} /\ plan[i].agent \notin n.enabled
      BY <1>2, <1>3, NormalizedIs DEF PlanInv, PlanTypes
    <3> QED BY <1>3, <3>1, <3>2
  <2> QED BY <2>1, <2>2
<1>6. PlanTypes'
  BY <1>1 DEF PlanInv, PlanTypes
<1>7. FactsInv'
  <2>1. Exact' <=> n.aware
    BY <1>1 DEF Exact
  <2> QED BY <1>1, <1>2, <1>4, <1>5, <2>1, FactsNext
<1>8. CoverInv' /\ DoneInv'
  BY <1>1, <1>4, <1>5 DEF CoverInv, DoneInv
<1>9. StuckInv'
  <2>1. CASE stuck.times = 0
    BY <1>1, <2>1 DEF PlanInv, StuckInv
  <2>2. CASE stuck.times # 0
    <3>1. normalizer \in NormalizerType /\ [n EXCEPT !.sick = {}] = [normalizer EXCEPT !.sick = {}]
      BY <2>2, CompilerAssumption DEF Normalize, SameConfig, PlanInv, PlanTypes, CompilerAssumption
    <3>2. n.aware = normalizer.aware
      <4>1. [n EXCEPT !.sick = {}].aware = n.aware
        BY <1>2 DEF NormalizerType
      <4>2. [normalizer EXCEPT !.sick = {}].aware = normalizer.aware
        BY <3>1 DEF NormalizerType
      <4> QED BY <3>1, <4>1, <4>2
    <3> QED BY <1>1, <3>2 DEF PlanInv, StuckInv, KindFor
  <2> QED BY <2>1, <2>2
<1> QED BY <1>6, <1>7, <1>8, <1>9 DEF PlanInv

LEMMA RecoverStep ==
  ASSUME PlanInv, Recover
  PROVE  PlanInv'
<1>1. /\ UNCHANGED <<io, setOrder, base, pool, normalizer, stuck>> /\ phase' = "recovered"
      /\ phase = IF normalizer = NoNormalizer THEN "compiled" ELSE "ready"
      /\ plan' = [i \in DOMAIN plan |-> Mark(plan[i])]
  BY DEF Recover, graph
<1>2. PICK x : x = plan'
  OBVIOUS
<1>3. normalizer.aware \in BOOLEAN
  <2>1. CASE normalizer = NoNormalizer
    BY <2>1 DEF NoNormalizer
  <2>2. CASE normalizer \in NormalizerType
    BY <2>2 DEF NormalizerType
  <2> QED BY <2>1, <2>2, CompilerAssumption DEF PlanInv, PlanTypes, CompilerAssumption
<1>4. GoodPlan(plan, normalizer.aware) /\ LinkedPlan(plan, normalizer.aware) /\ plan \in Seq(Stage)
  <2>1. Exact <=> normalizer.aware
    BY <1>1, <1>3 DEF Exact, NoNormalizer
  <2>2. GoodPlan(plan, Exact) /\ LinkedPlan(plan, Exact) /\ ShapedPlan(plan)
    BY <1>1 DEF PlanInv, FactsInv
  <2> QED BY <2>1, <2>2 DEF GoodPlan, LinkedPlan, ShapedPlan
<1>5. \A i \in DOMAIN plan : plan[i] \in Stage
  BY <1>4
<1>6. /\ x \in Seq(Stage) /\ DOMAIN x = DOMAIN plan
      /\ \A i \in DOMAIN plan : Alike(x[i], plan[i]) /\ x[i].deps = plan[i].deps
      /\ \A i \in DOMAIN plan : x[i].pre =>
            \/ plan[i].id \in stuck.succeeded
            \/ KindOf(plan[i]) \in stuck.artifacts /\ plan[i].id \notin stuck.pending
  <2>1. DOMAIN plan = 1..Len(plan) /\ Len(plan) \in Nat
    BY <1>4
  <2>2. \A i \in DOMAIN plan : x[i] = Mark(plan[i])
    BY <1>1, <1>2
  <2>3. x \in [1..Len(plan) -> Stage]
    BY <1>1, <1>2, <1>5, <2>1, MarkIs
  <2>4. x \in Seq(Stage) /\ DOMAIN x = DOMAIN plan
    BY <2>1, <2>3
  <2> QED BY <1>5, <2>2, <2>4, MarkIs
<1>7. GoodPlan(x, normalizer.aware) /\ LinkedPlan(x, normalizer.aware)
  BY <1>4, <1>6, MarkedPlan
<1>8. PlanTypes'
  BY <1>1 DEF PlanInv, PlanTypes
<1>9. FactsInv'
  <2>1. PICK e \in BOOLEAN : e = normalizer.aware
    BY <1>3
  <2>2. GoodPlan(x, e) /\ LinkedPlan(x, e)
    BY <1>7, <2>1
  <2>3. Exact' <=> e
    BY <1>1, <2>1 DEF Exact
  <2> QED BY <1>1, <1>2, <2>2, <2>3, FactsNext
<1>10. CoverInv'
  <2>1. \A i \in DOMAIN plan : x[i].agent = plan[i].agent
    BY <1>6 DEF Alike
  <2>2. \A a \in base : \/ \E i \in DOMAIN plan : plan[i].agent = a
                        \/ a \in normalizer.forbidden \cup normalizer.sick
                        \/ (normalizer.enabled # {} /\ a \notin normalizer.enabled)
    BY <1>1 DEF PlanInv, CoverInv
  <2> QED BY <1>1, <1>2, <1>6, <2>1, <2>2 DEF CoverInv
<1>11. DoneInv'
  <2> SUFFICES ASSUME NEW i \in DOMAIN x, x[i].pre
               PROVE  /\ x[i].id \notin stuck.pending
                      /\ WellDeclared(io) /\ normalizer.aware => KindOf(x[i]) \in stuck.artifacts
    BY <1>1, <1>2 DEF DoneInv
  <2>1. x[i].id = plan[i].id /\ KindOf(x[i]) = KindOf(plan[i]) /\ i \in DOMAIN plan
    BY <1>6 DEF Alike, KindOf
  <2>2. CASE plan[i].id \in stuck.succeeded
    <3>1. plan[i].id \notin stuck.pending
      BY <2>2 DEF PlanInv, StuckInv
    <3>2. ASSUME WellDeclared(io), normalizer.aware PROVE KindOf(plan[i]) \in stuck.artifacts
      <4>1. KindOf(plan[i]) = KindFor(plan[i].id)
        BY <1>4, <2>1, <3>2 DEF GoodPlan, NamedPlan
      <4> QED BY <2>2, <3>2, <4>1 DEF PlanInv, StuckInv
    <3> QED BY <2>1, <3>1, <3>2
  <2>3. CASE KindOf(plan[i]) \in stuck.artifacts /\ plan[i].id \notin stuck.pending
    BY <2>1, <2>3
  <2> QED BY <1>6, <2>1, <2>2, <2>3
<1>12. StuckInv'
  BY <1>1 DEF PlanInv, StuckInv, KindFor
<1> QED BY <1>8, <1>9, <1>10, <1>11, <1>12 DEF PlanInv

LEMMA DeadlockStep ==
  ASSUME PlanInv, Deadlock
  PROVE  PlanInv'
<1>1. UNCHANGED <<io, setOrder, plan, normalizer>> /\ phase \in {"compiled", "ready", "recovered"}
  BY DEF Deadlock, graph
<1>2. PICK pending \in (SUBSET Ids(plan)) \ {{}}, skipped \in SUBSET Ids(plan), old \in BOOLEAN :
         stuck' = [times |-> stuck.times + 1, pending |-> pending,
                   agents |-> {plan[i].agent : i \in {i \in DOMAIN plan : plan[i].id \in pending}},
                   succeeded |-> (Ids(plan) \ pending) \ skipped,
                   artifacts |-> {KindOf(plan[i]) :
                      i \in {i \in DOMAIN plan :
                               plan[i].id \in (IF old THEN Ids(plan) ELSE Ids(plan) \ pending)}}]
  BY DEF Deadlock
<1>3. /\ stuck'.times = stuck.times + 1 /\ stuck'.pending = pending
      /\ stuck'.succeeded = (Ids(plan) \ pending) \ skipped
      /\ \A i \in DOMAIN plan : plan[i].id \notin pending => KindOf(plan[i]) \in stuck'.artifacts
  <2>1. stuck'.times = stuck.times + 1 /\ stuck'.pending = pending
        /\ stuck'.succeeded = (Ids(plan) \ pending) \ skipped
        /\ stuck'.artifacts = {KindOf(plan[i]) :
                      i \in {i \in DOMAIN plan :
                               plan[i].id \in (IF old THEN Ids(plan) ELSE Ids(plan) \ pending)}}
    BY <1>2
  <2>2. \A i \in DOMAIN plan : plan[i].id \in Ids(plan)
    BY DEF Ids
  <2> QED BY <2>1, <2>2
<1>4. stuck.times \in Nat
  BY DEF PlanInv, PlanTypes
<1>5. \/ phase' = "rejected" /\ UNCHANGED pool
      \/ /\ pool' = {plan[i].agent : i \in DOMAIN plan} \cup Required
         /\ {plan[i].agent : i \in DOMAIN plan} \subseteq Known /\ phase' = "closing"
  BY DEF Deadlock, StartFrom
<1>6. pool' \subseteq Agents /\ phase' \notin {"compiled", "ready", "recovered"}
  <2>1. Required \subseteq Agents /\ Known \subseteq Agents
    BY CompilerAssumption, NamesAre DEF CompilerAssumption
  <2> QED BY <1>5, <2>1 DEF PlanInv, PlanTypes
<1>7. PlanTypes'
  BY <1>1, <1>3, <1>4, <1>6 DEF PlanInv, PlanTypes
<1>8. FactsInv'
  BY <1>1, <1>6 DEF PlanInv, FactsInv, ShapedPlan, Shape
<1>9. CoverInv' /\ DoneInv'
  BY <1>6 DEF CoverInv, DoneInv
<1>10. StuckInv'
  <2>1. stuck'.times # 0
    BY <1>3, <1>4
  <2>2. stuck'.succeeded \cap stuck'.pending = {}
    BY <1>3
  <2>3. ASSUME WellDeclared(io), normalizer.aware, NEW id \in stuck'.succeeded
        PROVE  KindFor(id) \in stuck'.artifacts
    <3>1. PICK i \in DOMAIN plan : plan[i].id = id
      BY <1>3 DEF Ids
    <3>2. KindOf(plan[i]) \in stuck'.artifacts
      BY <1>3, <3>1
    <3>3. GoodPlan(plan, Exact) /\ Exact
      BY <1>1, <2>3 DEF PlanInv, FactsInv, Exact
    <3> QED BY <2>3, <3>1, <3>2, <3>3 DEF GoodPlan, NamedPlan
  <2> QED BY <1>1, <2>1, <2>2, <2>3 DEF StuckInv, KindFor
<1> QED BY <1>7, <1>8, <1>9, <1>10 DEF PlanInv

LEMMA PlanStep ==
  ASSUME NamesApart, CloseInv, PlanInv, [Next]_vars
  PROVE  PlanInv'
<1>1. CASE UNCHANGED vars
  BY <1>1, PlanStutters
<1>2. CASE CheckCycles
  <2>1. UNCHANGED <<io, setOrder, pool, plan, normalizer, stuck>> /\ phase' \in {"check", "refused", "idle"}
    BY <1>2 DEF CheckCycles, VisitRoot, Descend, Refuse, Leave, Accept, graph
  <2> QED BY <2>1, QuietStep DEF PlanInv, PlanTypes
<1>3. CASE \E r \in Requests : Resolve(r)
  <2>1. PICK r \in Requests : Resolve(r)
    BY <1>3
  <2>2. UNCHANGED <<io, setOrder, plan, normalizer, stuck>>
    BY <2>1 DEF Resolve, graph
  <2>3. r.preset \subseteq Agents /\ r.stages \subseteq Agents /\ Core \subseteq Agents /\ Required \subseteq Agents
    BY CompilerAssumption, NamesAre DEF CompilerAssumption, RequestType
  <2>4. pool' \subseteq Agents /\ phase' \in {"rejected", "closing", "closed"}
    BY <2>1, <2>3 DEF Resolve, StartFrom, PlanInv, PlanTypes
  <2> QED BY <2>2, <2>4, QuietStep
<1>4. CASE \E a \in Agents : Include(a)
  <2>1. PICK a \in Agents : Include(a)
    BY <1>4
  <2>2. PICK p \in Feeds(io, a) \ pool : pool' = pool \cup {p}
    BY <2>1 DEF Include
  <2>3. UNCHANGED <<io, setOrder, plan, normalizer, stuck>> /\ phase' = "closing"
    BY <2>1 DEF Include, graph
  <2>4. p \in Agents
    <3>1. PICK k : p = Producer(io, k) /\ p # None
      BY <2>2 DEF Feeds
    <3>2. PICK b \in Agents : b = p
      BY <3>1, ProducerIs
    <3> QED BY <3>2
  <2>5. pool' \subseteq Agents
    BY <2>2, <2>4 DEF PlanInv, PlanTypes
  <2> QED BY <2>3, <2>5, QuietStep
<1>5. CASE CloseDone \/ PartitionWave
  <2>1. UNCHANGED <<io, setOrder, pool, plan, normalizer, stuck>> /\ phase' \in {"closed", "deadlocked"}
    BY <1>5 DEF CloseDone, PartitionWave, graph
  <2> QED BY <2>1, QuietStep DEF PlanInv, PlanTypes
<1>6. CASE Build
  BY <1>6, BuildStep
<1>7. CASE \E n \in Normalizers : Normalize(n)
  BY <1>7, NormalizeStep
<1>8. CASE Deadlock
  BY <1>8, DeadlockStep
<1>9. CASE Recover
  BY <1>9, RecoverStep
<1> QED BY <1>1, <1>2, <1>3, <1>4, <1>5, <1>6, <1>7, <1>8, <1>9 DEF Next, Compile

LEMMA PlanInvariant ==
  ASSUME NamesApart
  PROVE  Spec => []PlanInv
<1>1. Init => PlanInv
  <2> SUFFICES ASSUME Init PROVE PlanInv
    OBVIOUS
  <2>1. /\ io \in Declarations /\ setOrder \in SetOrders /\ phase = "check" /\ pool = {} /\ plan = <<>>
        /\ normalizer = NoNormalizer /\ stuck = NoDeadlock
    BY DEF Init
  <2>2. PlanTypes
    BY <2>1, NamesAre, OrderIsList DEF PlanTypes, NoDeadlock
  <2>3. FactsInv
    BY <2>1 DEF FactsInv, ShapedPlan
  <2>4. CoverInv /\ DoneInv
    BY <2>1 DEF CoverInv, DoneInv
  <2>5. StuckInv
    BY <2>1 DEF StuckInv, NoDeadlock
  <2> QED BY <2>2, <2>3, <2>4, <2>5 DEF PlanInv
<1>2. CompilerInv /\ PlanInv /\ [Next]_vars => PlanInv'
  BY PlanStep DEF CompilerInv
<1> QED BY <1>1, <1>2, CompilerInvariant, PTL DEF Spec

\* The plan handed to the executor is linked: every stage waits for a stage of the plan
\* that writes what its agent reads, if there is one, and for nothing that is not in the
\* plan, whatever compile injected and normalize removed, added and relinked, and also
\* after a recovery.
THEOREM PlansAreLinked ==
  ASSUME NamesApart
  PROVE  Spec => []PlanIsLinked
<1>1. PlanInv => PlanIsLinked
  <2> SUFFICES ASSUME PlanInv, phase \in {"compiled", "ready", "recovered"}, NEW i \in DOMAIN plan
               PROVE  /\ plan[i].deps \subseteq Ids(plan)
                      /\ plan[i].role = "producer" /\ normalizer.aware => Linked(plan[i])
    BY DEF PlanIsLinked
  <2>1. LinkedPlan(plan, Exact) /\ (normalizer.aware => Exact)
    BY DEF PlanInv, FactsInv, Exact
  <2> QED BY <2>1 DEF LinkedPlan, Linked
<1> QED BY <1>1, PlanInvariant, PTL

\* stages that all wait for one another would be a cycle of the agents of the producers
\* among them
LEMMA WaitingIsCyclic ==
  ASSUME NamesApart, NEW list, GoodPlan(list, FALSE), WellDeclared(io),
         NEW S \in SUBSET DOMAIN list, S # {},
         \A i \in S : list[i].deps \cap {list[j].id : j \in S} # {}
  PROVE  Cyclic(io)
<1> DEFINE C == {list[i].agent : i \in {m \in S : list[m].role = "producer"}}
<1>1. \A i \in S : Shape(list[i]) /\ Ordered(list[i]) /\ list[i].role \in {"producer", "evaluator"}
                   /\ list[i].agent \in Agents
  <2>1. \A i \in S : list[i] \in Stage /\ Shape(list[i]) /\ Ordered(list[i])
    BY DEF GoodPlan, ShapedPlan, OrderedPlan, Shape
  <2> QED BY <2>1 DEF Stage
<1>2. ASSUME NEW i \in S, NEW d \in list[i].deps, d \in Agents, d \in {list[j].id : j \in S}
      PROVE  d \in C
  <2>1. PICK j \in S : list[j].id = d
    BY <1>2
  <2>2. list[j].role = "producer"
    <3>1. ASSUME list[j].role = "evaluator" PROVE FALSE
      <4>1. PICK a \in Agents : d = <<a, list[j].agent>>
        BY <1>1, <2>1, <3>1 DEF Shape
      <4> QED BY <1>1, <1>2, <4>1 DEF NamesApart
    <3> QED BY <1>1, <3>1
  <2>3. list[j].agent = d
    BY <1>1, <2>1, <2>2 DEF Shape
  <2> QED BY <2>2, <2>3
<1>3. ASSUME NEW i \in S
      PROVE  /\ C # {}
             /\ list[i].role = "producer" => Neighbours(io, list[i].agent) \cap C # {}
  <2>1. PICK d \in list[i].deps : d \in {list[j].id : j \in S}
    OBVIOUS
  <2>2. d \in Agents /\ (list[i].role = "producer" => d \in Neighbours(io, list[i].agent))
    BY <1>1 DEF Ordered
  <2>3. d \in C
    BY <1>2, <2>1, <2>2
  <2> QED BY <2>2, <2>3
<1>4. C # {} /\ \A a \in C : Neighbours(io, a) \cap C # {}
  BY <1>3
<1> HIDE DEF C
<1>5. C \in SUBSET Known
  BY <1>4 DEF Neighbours, Feeds, Inputs
<1> QED BY <1>4, <1>5 DEF Cyclic, Loop

\* With declarations in which no agent consumes its own kind and no kind has two
\* producers, every set of stages of the plan has one that waits for none of the others:
\* the executor can run them all.
THEOREM PlansCanRun ==
  ASSUME NamesApart
  PROVE  Spec => []PlanCanRun
<1>1. CompilerInv /\ PlanInv => PlanCanRun
  <2> SUFFICES ASSUME CompilerInv, PlanInv, phase \in {"compiled", "ready", "recovered"}, WellDeclared(io),
                      NEW S \in (SUBSET DOMAIN plan) \ {{}},
                      \A i \in S : plan[i].deps \cap {plan[j].id : j \in S} # {}
               PROVE  FALSE
    BY DEF PlanCanRun
  <2>1. GoodPlan(plan, FALSE)
    BY DEF PlanInv, FactsInv, GoodPlan
  <2>2. S \in SUBSET DOMAIN plan /\ S # {}
    OBVIOUS
  <2>3. Cyclic(io)
    BY <2>1, <2>2, WaitingIsCyclic, Zenon
  <2>4. ~Cyclic(io)
    BY DEF CompilerInv, CheckInv, Cyclic
  <2> QED BY <2>3, <2>4
<1> QED BY <1>1, CompilerInvariant, PlanInvariant, PTL

\* The plan of recover_plan_from_deadlock has every agent of the old one that the
\* normalizer admits; what it takes for done has its artifact, and is nothing that the
\* executor was stuck on.
THEOREM RecoveryIsSound ==
  ASSUME NamesApart
  PROVE  Spec => []RecoveryKeepsWork
<1>1. PlanInv => RecoveryKeepsWork
  BY DEF PlanInv, CoverInv, DoneInv, RecoveryKeepsWork
<1> QED BY <1>1, PlanInvariant, PTL
=============================================================================
