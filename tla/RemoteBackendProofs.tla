------------------------- MODULE RemoteBackendProofs -------------------------
(***************************************************************************)
(* Theorems about RemoteBackend, for any number of replicas, runs and        *)
(* crashes: what the counter of a session and its saved runs have to do with *)
(* each other, on Redis and on PostgreSQL.                                   *)
(***************************************************************************)
EXTENDS RemoteBackend, FiniteSetTheorems, TLAPS

-----------------------------------------------------------------------------
(* The inductive invariant.                                                  *)

InTransaction == {"upsert", "insert"}

\* the run of a busy replica is its own, and has no record before it is accepted
MineInv ==
    /\ \A p, q \in Replicas : pc[p] # "idle" /\ pc[q] # "idle" /\ mine[p] = mine[q] => p = q
    /\ \A p \in Replicas : pc[p] \in {"accept", "full"} \cup InTransaction => status[mine[p]] = "none"

\* a transaction has seen no more than what is accepted, and found room for its run
SeenInv ==
    \A p \in Replicas : pc[p] \in InTransaction =>
        kind = "pg" /\ seen[p] <= Sum(Accepted) /\ Fits(p, seen[p])

\* who writes the row has its lock; once there is a row, so has who has read it, and it still
\* says what he read
LockInv ==
    /\ \A p \in Replicas : pc[p] = "insert" => lock = p
    /\ old # {} => row # NoRow
    /\ \A p \in Replicas : old # {} /\ pc[p] \in InTransaction => lock = p /\ seen[p] = row

RemoteInv == TypeOK /\ MineInv /\ SeenInv /\ LockInv /\ SlotsHaveRuns /\ LockedRowIsExact

-----------------------------------------------------------------------------
(* Sums of slots.                                                            *)

Width(r) == {r} \X (1..Slots[r])

LEMMA WidthSize ==
  ASSUME NEW r \in Runs
  PROVE  IsFiniteSet(Width(r)) /\ Cardinality(Width(r)) = Slots[r] /\ Slots[r] \in Nat \ {0}
<1> DEFINE n == Slots[r]
<1>0. n \in Nat \ {0}
  BY RemoteAssumption DEF RemoteAssumption
<1>1. IsFiniteSet({r}) /\ Cardinality({r}) = 1
  BY FS_Singleton
<1> HIDE DEF n
<1>2. IsFiniteSet(1..n) /\ Cardinality(1..n) = n
  BY <1>0, FS_Interval
<1>3. IsFiniteSet({r} \X (1..n)) /\ Cardinality({r} \X (1..n)) = 1 * Cardinality(1..n)
  BY <1>1, <1>2, FS_Product
<1> QED BY <1>0, <1>2, <1>3 DEF n, Width

LEMMA SumType ==
  ASSUME NEW S \in SUBSET Runs
  PROVE  IsFiniteSet(UNION {Width(r) : r \in S}) /\ Sum(S) \in Nat
<1>1. IsFiniteSet(S)
  BY RemoteAssumption, FS_Subset DEF RemoteAssumption
<1> DEFINE W == {Width(r) : r \in S}
           f == [r \in S |-> Width(r)]
<1>2. f \in Surjection(S, W)
  BY DEF Surjection
<1>3. IsFiniteSet(W)
  BY <1>1, <1>2, FS_Surjection
<1>4. \A T \in W : IsFiniteSet(T)
  BY WidthSize
<1>5. IsFiniteSet(UNION W)
  BY <1>3, <1>4, FS_UNION
<1> QED BY <1>5, FS_CardinalityType DEF Sum, Width

LEMMA SumAdds ==
  ASSUME NEW S \in SUBSET Runs, NEW r \in Runs \ S
  PROVE  Sum(S \cup {r}) = Sum(S) + Slots[r]
<1> DEFINE U == UNION {Width(q) : q \in S}
           V == Width(r)
<1>1. IsFiniteSet(U) /\ Sum(S) = Cardinality(U) /\ Sum(S) \in Nat
  BY SumType DEF Sum, Width
<1>2. IsFiniteSet(V) /\ Cardinality(V) = Slots[r] /\ Slots[r] \in Nat
  BY WidthSize
<1>3. Sum(S \cup {r}) = Cardinality(U \cup V)
  <2>1. UNION {Width(q) : q \in S \cup {r}} = U \cup V
    OBVIOUS
  <2> QED BY <2>1 DEF Sum, Width
<1>4. U \cap V = {}
  BY DEF Width
<1> HIDE DEF U, V
<1>5. Cardinality(U \cap V) = 0
  BY <1>4, FS_EmptySet
<1>6. Cardinality(U \cup V) = Cardinality(U) + Cardinality(V) - Cardinality(U \cap V)
  BY <1>1, <1>2, FS_Union
<1> QED BY <1>1, <1>2, <1>3, <1>5, <1>6

LEMMA AcceptAdds ==
  ASSUME TypeOK, NEW r \in Runs, status[r] = "none", status' = [status EXCEPT ![r] = "accepted"]
  PROVE  Sum(Accepted)' = Sum(Accepted) + Slots[r]
<1>1. Accepted' = Accepted \cup {r} /\ r \in Runs \ Accepted /\ Accepted \in SUBSET Runs
  BY DEF Accepted, TypeOK
<1>2. Sum(Accepted)' = Sum(Accepted')
  BY DEF Sum
<1> QED BY <1>1, <1>2, SumAdds

LEMMA ConstantTypes ==
  Cap \in Nat /\ Nobody \notin Replicas /\ NoRow \notin Nat /\ \A r \in Runs : Slots[r] \in Nat \ {0}
  BY RemoteAssumption DEF RemoteAssumption, NoRow

LEMMA CountTypes == ASSUME TypeOK PROVE Sum(Accepted) \in Nat /\ Active \in Nat
<1>1. Accepted \in SUBSET Runs
  BY DEF Accepted
<1> QED BY <1>1, SumType DEF TypeOK, Active

-----------------------------------------------------------------------------
(* The steps.                                                                *)

\* a step that leaves row and records alone
LEMMA NothingCounted ==
  ASSUME RemoteInv, UNCHANGED <<kind, old, row>>, Accepted' = Accepted
  PROVE  SlotsHaveRuns' /\ LockedRowIsExact'
<1>1. Sum(Accepted)' = Sum(Accepted)
  BY DEF Sum
<1> QED BY <1>1 DEF RemoteInv, SlotsHaveRuns, LockedRowIsExact, Active

LEMMA RemoteSubmit ==
  ASSUME RemoteInv, NEW p \in Replicas, NEW r \in Runs, Submit(p, r)
  PROVE  RemoteInv'
<1>1. TypeOK'
  BY DEF RemoteInv, TypeOK, Submit, Become
<1>2. MineInv'
  BY DEF RemoteInv, TypeOK, MineInv, InTransaction, Submit, Become
<1>3. Accepted' = Accepted
  BY DEF Accepted, Submit
<1>4. Sum(Accepted)' = Sum(Accepted)
  BY <1>3 DEF Sum
<1>5. SeenInv' /\ LockInv'
  BY <1>4 DEF RemoteInv, TypeOK, SeenInv, LockInv, InTransaction, Submit, Become, Fits
<1> QED BY <1>1, <1>2, <1>3, <1>5, NothingCounted DEF RemoteInv, Submit

LEMMA RemoteRedis ==
  ASSUME RemoteInv, NEW p \in Replicas, RedisAccept(p)
  PROVE  RemoteInv'
<1>c. mine[p] \in Runs /\ Slots[mine[p]] \in Nat \ {0} /\ Cap \in Nat /\ Active \in Nat /\ Sum(Accepted) \in Nat
      /\ row \in Nat \cup {NoRow}
  BY ConstantTypes, CountTypes DEF RemoteInv, TypeOK
<1>0. status[mine[p]] = "none"
  BY DEF RemoteInv, MineInv, RedisAccept
<1>1. TypeOK'
  BY <1>c DEF RemoteInv, TypeOK, RedisAccept, Become
<1>2. MineInv'
  BY <1>c DEF RemoteInv, TypeOK, MineInv, InTransaction, RedisAccept, Become
<1>3. CASE UNCHANGED <<row, status>>
  <2>1. Accepted' = Accepted
    BY <1>3 DEF Accepted
  <2>2. SeenInv' /\ LockInv'
    BY <1>3 DEF RemoteInv, TypeOK, SeenInv, LockInv, InTransaction, RedisAccept, Become
  <2> QED BY <1>1, <1>2, <1>3, <2>1, <2>2, NothingCounted DEF RemoteInv, RedisAccept
<1>4. CASE /\ Fits(p, Active) /\ row' = Active + Slots[mine[p]]
           /\ status' = [status EXCEPT ![mine[p]] = "accepted"]
  <2>1. Sum(Accepted)' = Sum(Accepted) + Slots[mine[p]]
    BY <1>0, <1>4, <1>c, AcceptAdds DEF RemoteInv
  <2>2. Active' = Active + Slots[mine[p]]
    BY <1>4, <1>c, ConstantTypes DEF Active, NoRow
  <2>3. SlotsHaveRuns' /\ LockedRowIsExact'
    BY <1>4, <1>c, <2>1, <2>2 DEF RemoteInv, SlotsHaveRuns, LockedRowIsExact, Fits, RedisAccept
  <2>4. SeenInv' /\ LockInv'
    <3>1. \A q \in Replicas : pc'[q] \notin InTransaction
      BY DEF RemoteInv, TypeOK, SeenInv, InTransaction, RedisAccept, Become
    <3>2. row' # NoRow
      BY <1>4, <1>c DEF NoRow
    <3> QED BY <3>1, <3>2 DEF SeenInv, LockInv, InTransaction
  <2> QED BY <1>1, <1>2, <2>3, <2>4 DEF RemoteInv
<1> QED BY <1>3, <1>4 DEF RedisAccept

LEMMA RemoteSelect ==
  ASSUME RemoteInv, NEW p \in Replicas, PgSelect(p)
  PROVE  RemoteInv'
<1>c. Active \in Nat /\ Sum(Accepted) \in Nat
  BY CountTypes DEF RemoteInv
<1>1. TypeOK'
  BY <1>c DEF RemoteInv, TypeOK, PgSelect, Become
<1>2. MineInv'
  BY DEF RemoteInv, TypeOK, MineInv, InTransaction, PgSelect, Become
<1>3. Accepted' = Accepted
  BY DEF Accepted, PgSelect
<1>4. Sum(Accepted)' = Sum(Accepted)
  BY <1>3 DEF Sum
<1>5. SeenInv'
  <2> SUFFICES ASSUME NEW q \in Replicas, pc'[q] \in InTransaction
               PROVE  kind' = "pg" /\ seen'[q] <= Sum(Accepted)' /\ Fits(q, seen[q])'
    BY DEF SeenInv
  <2>1. CASE q = p
    BY <1>4, <2>1 DEF RemoteInv, TypeOK, SlotsHaveRuns, InTransaction, PgSelect, Become, Fits
  <2>2. CASE q # p
    BY <1>4, <2>2 DEF RemoteInv, TypeOK, SeenInv, PgSelect, Become, Fits
  <2> QED BY <2>1, <2>2
<1>6. LockInv'
  <2>1. \A q \in Replicas : pc'[q] = "insert" => q # p /\ pc[q] = "insert"
    BY DEF RemoteInv, TypeOK, PgSelect, Become
  <2>2. \A q \in Replicas : pc'[q] = "insert" => lock' = q
    BY <2>1, ConstantTypes DEF RemoteInv, LockInv, PgSelect
  <2>3. old' # {} => row' # NoRow
    BY DEF RemoteInv, LockInv, PgSelect
  <2>4. ASSUME NEW q \in Replicas, old' # {}, pc'[q] \in InTransaction
        PROVE  lock' = q /\ seen'[q] = row'
    <3>0. row # NoRow /\ lock = Nobody /\ Active = row
      BY <2>4 DEF RemoteInv, LockInv, PgSelect, Active
    <3>1. CASE q = p
      BY <2>4, <3>0, <3>1 DEF RemoteInv, TypeOK, InTransaction, PgSelect, Become
    <3>2. CASE q # p
      <4>1. pc[q] \in InTransaction
        BY <2>4, <3>2 DEF RemoteInv, TypeOK, PgSelect, Become
      <4> QED BY <2>4, <3>0, <4>1, ConstantTypes DEF RemoteInv, LockInv, PgSelect
    <3> QED BY <3>1, <3>2
  <2> QED BY <2>2, <2>3, <2>4 DEF LockInv
<1> QED BY <1>1, <1>2, <1>3, <1>5, <1>6, NothingCounted DEF RemoteInv, PgSelect

LEMMA RemoteUpsert ==
  ASSUME RemoteInv, NEW p \in Replicas, PgUpsert(p)
  PROVE  RemoteInv'
<1>1. TypeOK'
  BY DEF RemoteInv, TypeOK, PgUpsert, Become
<1>2. MineInv'
  BY DEF RemoteInv, TypeOK, MineInv, InTransaction, PgUpsert, Become
<1>3. Accepted' = Accepted
  BY DEF Accepted, PgUpsert
<1>4. Sum(Accepted)' = Sum(Accepted)
  BY <1>3 DEF Sum
<1>5. SeenInv'
  BY <1>4 DEF RemoteInv, TypeOK, SeenInv, InTransaction, PgUpsert, Become, Fits
<1>6. LockInv'
  <2>1. ASSUME NEW q \in Replicas, pc'[q] = "insert" PROVE lock' = q
    BY <2>1, ConstantTypes DEF RemoteInv, TypeOK, LockInv, PgUpsert, Become
  <2>2. ASSUME NEW q \in Replicas, old' # {}, pc'[q] \in InTransaction
        PROVE  lock' = q /\ seen'[q] = row'
    <3>1. pc[q] \in InTransaction
      BY <2>2 DEF RemoteInv, TypeOK, InTransaction, PgUpsert, Become
    <3>2. lock = q /\ seen[q] = row
      BY <2>2, <3>1 DEF RemoteInv, LockInv, PgUpsert
    <3> QED BY <3>2, ConstantTypes DEF PgUpsert
  <2> QED BY <2>1, <2>2 DEF RemoteInv, LockInv, PgUpsert
<1> QED BY <1>1, <1>2, <1>3, <1>5, <1>6, NothingCounted DEF RemoteInv, PgUpsert

\* the commit: what it read may be stale, but only if the session had no row to lock
LEMMA RemoteCommit ==
  ASSUME RemoteInv, NEW p \in Replicas, PgCommit(p)
  PROVE  RemoteInv'
<1>c. /\ mine[p] \in Runs /\ Slots[mine[p]] \in Nat \ {0} /\ seen[p] \in Nat /\ row \in Nat \cup {NoRow}
      /\ Cap \in Nat /\ Active \in Nat /\ Sum(Accepted) \in Nat
  BY ConstantTypes, CountTypes DEF RemoteInv, TypeOK
<1>0. /\ status[mine[p]] = "none" /\ lock = p /\ kind = "pg"
      /\ seen[p] <= Sum(Accepted) /\ seen[p] + Slots[mine[p]] <= Cap
      /\ old # {} => seen[p] = row /\ Active = row
  BY DEF RemoteInv, MineInv, SeenInv, LockInv, InTransaction, PgCommit, Fits, Active
<1>1. TypeOK'
  BY <1>c DEF RemoteInv, TypeOK, PgCommit, Become
<1>2. MineInv'
  BY <1>c DEF RemoteInv, TypeOK, MineInv, InTransaction, PgCommit, Become
<1>3. Sum(Accepted)' = Sum(Accepted) + Slots[mine[p]]
  BY <1>0, <1>c, AcceptAdds DEF RemoteInv, PgCommit
<1>4. Active' = seen[p] + Slots[mine[p]] /\ row' = Active' /\ row' # NoRow
  BY <1>c, ConstantTypes DEF PgCommit, Active, NoRow
<1>5. SlotsHaveRuns' /\ LockedRowIsExact'
  <2>1. old # {} => Active = Sum(Accepted)
    BY DEF RemoteInv, LockedRowIsExact
  <2> QED BY <1>0, <1>c, <1>3, <1>4, <2>1 DEF SlotsHaveRuns, LockedRowIsExact, PgCommit
<1>6. \A q \in Replicas : pc'[q] \in InTransaction => q # p /\ pc[q] \in InTransaction /\ pc'[q] = pc[q]
  BY DEF RemoteInv, TypeOK, InTransaction, PgCommit, Become
<1>7. SeenInv'
  <2> SUFFICES ASSUME NEW q \in Replicas, pc'[q] \in InTransaction
               PROVE  kind' = "pg" /\ seen'[q] <= Sum(Accepted)' /\ Fits(q, seen[q])'
    BY DEF SeenInv
  <2>1. pc[q] \in InTransaction /\ seen[q] \in Nat
    BY <1>6 DEF RemoteInv, TypeOK
  <2> QED BY <1>0, <1>c, <1>3, <2>1 DEF RemoteInv, SeenInv, PgCommit, Fits
<1>8. LockInv'
  <2>1. ASSUME NEW q \in Replicas, pc'[q] \in InTransaction PROVE pc'[q] # "insert" /\ old' = {}
    BY <1>0, <1>6, <2>1 DEF RemoteInv, LockInv, PgCommit
  <2> QED BY <1>4, <2>1 DEF LockInv, InTransaction
<1> QED BY <1>1, <1>2, <1>5, <1>7, <1>8 DEF RemoteInv

\* the steps after an accept, and a crash: records of other statuses, and other locals
LEMMA RemoteRest ==
  ASSUME RemoteInv, NEW p \in Replicas, Full(p) \/ Dequeue(p) \/ Crash(p)
  PROVE  RemoteInv'
<1>0. /\ mine[p] \in Runs /\ pc[p] # "idle"
      /\ UNCHANGED <<kind, old, row, mine, seen>>
      /\ pc' = [pc EXCEPT ![p] = pc'[p]] /\ pc'[p] \in {"idle", "dequeue"}
      /\ lock' = lock \/ (lock = p /\ lock' = Nobody)
  BY DEF RemoteInv, TypeOK, Full, Dequeue, Crash, Become, Answer
<1>s. \/ status' = status
      \/ status' = [status EXCEPT ![mine[p]] = "queued"] /\ status[mine[p]] = "none"
  BY DEF RemoteInv, MineInv, Full, Dequeue, Crash
<1>1. TypeOK'
  BY <1>0, <1>s, RemoteAssumption DEF RemoteInv, TypeOK, Full, Dequeue, Crash, Become, Answer, RemoteAssumption
<1>2. \A q \in Replicas : pc'[q] \notin {"idle", "dequeue"} => q # p /\ pc'[q] = pc[q]
  BY <1>0 DEF RemoteInv, TypeOK
<1>3. MineInv'
  <2>1. ASSUME NEW q \in Replicas, NEW r \in Replicas, pc'[q] # "idle", pc'[r] # "idle", mine'[q] = mine'[r]
        PROVE  q = r
    <3>1. pc[q] # "idle" /\ pc[r] # "idle"
      BY <1>0, <2>1 DEF RemoteInv, TypeOK
    <3> QED BY <1>0, <2>1, <3>1 DEF RemoteInv, MineInv
  <2>2. ASSUME NEW q \in Replicas, pc'[q] \in {"accept", "full"} \cup InTransaction
        PROVE  status'[mine'[q]] = "none"
    <3>1. q # p /\ pc[q] \in {"accept", "full"} \cup InTransaction
      BY <1>2, <2>2 DEF InTransaction
    <3>2. mine[q] # mine[p] /\ status[mine[q]] = "none" /\ mine[q] \in Runs
      BY <1>0, <3>1 DEF RemoteInv, TypeOK, MineInv, InTransaction
    <3> QED BY <1>0, <1>s, <3>2 DEF RemoteInv, TypeOK
  <2> QED BY <2>1, <2>2 DEF MineInv
<1>4. Accepted' = Accepted
  BY <1>0, <1>s DEF Accepted, RemoteInv, TypeOK
<1>5. Sum(Accepted)' = Sum(Accepted)
  BY <1>4 DEF Sum
<1>6. SeenInv'
  BY <1>0, <1>2, <1>5 DEF RemoteInv, SeenInv, InTransaction, Fits
<1>7. LockInv'
  BY <1>0, <1>2 DEF RemoteInv, LockInv, InTransaction
<1> QED BY <1>0, <1>1, <1>3, <1>4, <1>6, <1>7, NothingCounted DEF RemoteInv

LEMMA RemoteInit == Init => RemoteInv
<1> SUFFICES ASSUME Init PROVE RemoteInv
  OBVIOUS
<1>0. old \in SUBSET Runs /\ Sum(old) <= Cap /\ Accepted = old
  BY DEF Init, Accepted
<1>1. Sum(old) \in Nat /\ Cap \in Nat /\ NoRow \notin Nat
  BY <1>0, SumType, ConstantTypes
<1>2. (CHOOSE r \in Runs : TRUE) \in Runs
  BY RemoteAssumption DEF RemoteAssumption
<1>3. TypeOK
  BY <1>0, <1>1, <1>2, RemoteAssumption DEF Init, TypeOK, RemoteAssumption
<1>4. MineInv /\ SeenInv /\ LockInv
  BY <1>1 DEF Init, MineInv, SeenInv, LockInv, InTransaction
<1>5. SlotsHaveRuns /\ LockedRowIsExact
  <2>1. CASE old = {}
    <3>1. Sum(old) = 0
      BY <2>1, FS_EmptySet DEF Sum
    <3> QED BY <1>0, <1>1, <2>1, <3>1 DEF Init, SlotsHaveRuns, LockedRowIsExact, Active
  <2>2. CASE old # {}
    BY <1>0, <1>1, <2>2 DEF Init, SlotsHaveRuns, LockedRowIsExact, Active
  <2> QED BY <2>1, <2>2
<1> QED BY <1>3, <1>4, <1>5 DEF RemoteInv

LEMMA RemoteNext == RemoteInv /\ [Next]_vars => RemoteInv'
<1> SUFFICES ASSUME RemoteInv, [Next]_vars PROVE RemoteInv'
  OBVIOUS
<1>1. CASE Next
  <2>1. PICK p \in Replicas :
          \/ \E r \in Runs : Submit(p, r)
          \/ RedisAccept(p) \/ PgSelect(p) \/ PgUpsert(p) \/ PgCommit(p)
          \/ Full(p) \/ Dequeue(p) \/ Crash(p)
    BY <1>1 DEF Next
  <2> QED BY <2>1, RemoteSubmit, RemoteRedis, RemoteSelect, RemoteUpsert, RemoteCommit, RemoteRest
<1>2. CASE UNCHANGED vars
  <2>1. Accepted' = Accepted
    BY <1>2 DEF Accepted, vars
  <2>2. Sum(Accepted)' = Sum(Accepted)
    BY <2>1 DEF Sum
  <2> QED BY <1>2, <2>2 DEF vars, RemoteInv, TypeOK, MineInv, SeenInv, LockInv, SlotsHaveRuns, LockedRowIsExact,
                            Fits, Active
<1> QED BY <1>1, <1>2

-----------------------------------------------------------------------------
\* The slots that the session counts never exceed those of its saved runs, wherever replicas die.
THEOREM NoSlotIsLeaked == Spec => []SlotsHaveRuns
<1>1. RemoteInv => SlotsHaveRuns
  BY DEF RemoteInv
<1> QED BY <1>1, RemoteInit, RemoteNext, PTL DEF Spec

\* On Redis, and on PostgreSQL once the session has a row, accepts of any number of replicas keep
\* the counter exact and within the cap.
THEOREM LockedAcceptsAreExact == Spec => []LockedRowIsExact
<1>1. RemoteInv => LockedRowIsExact
  BY DEF RemoteInv
<1> QED BY <1>1, RemoteInit, RemoteNext, PTL DEF Spec

=============================================================================
