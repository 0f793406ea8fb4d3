-------------------------- MODULE DispatchPlan_proofs --------------------------
(***************************************************************************)
(* Proofs about task graphs of any size, and about the plans as such.      *)
(***************************************************************************)
EXTENDS DispatchPlan, TaskBoard_proofs, FiniteSums

\* An accepted graph never locks: while some task is not complete and none of
\* those is being worked on, ready_indices returns one (build_dag, TaskDag).
THEOREM AcceptedGraphMoves ==
  ASSUME NEW tasks, NEW edges, NEW state,
         Accepted(tasks, edges),
         \E t \in tasks : state[t] # "complete",
         \A t \in tasks : state[t] \in {"pending", "complete"}
  PROVE  ReadyIndices(tasks, edges, state) # {}
<1> DEFINE Open == {t \in tasks : state[t] # "complete"}
<1>1. Open \in (SUBSET tasks) \ {{}}
  OBVIOUS
<1>2. PICK j \in Open : \A i \in Open : << i, j >> \notin edges
  BY <1>1 DEF Accepted, Acyclic
<1>3. ~ Blocked(edges, state, j)
  <2> SUFFICES ASSUME NEW e \in edges, e[2] = j, state[e[1]] # "complete"
               PROVE  FALSE
    BY DEF Blocked
  <2>1. e \in tasks \X tasks
    BY DEF Accepted
  <2>2. e = << e[1], j >> /\ e[1] \in Open
    BY <2>1
  <2> QED
    BY <1>2, <2>2
<1>4. state[j] = "pending"
  OBVIOUS
<1> QED
  BY <1>3, <1>4 DEF ReadyIndices

-----------------------------------------------------------------------------
(* What an order of the tasks is                                           *)

\* order numbers the tasks of S from 1, each once, and along the edges.
Sorts(order, S, edges) ==
  /\ order \in [S -> 1 .. Cardinality(S)]
  /\ \A i, k \in S : order[i] = order[k] => i = k
  /\ \A i, k \in S : << i, k >> \in edges => order[i] < order[k]

\* A task that waits for nobody goes first, the others follow.
LEMMA SortsOneMore ==
  ASSUME NEW S, IsFiniteSet(S), NEW edges, NEW first \in S,
         \A i \in S : << i, first >> \notin edges,
         NEW rest, Sorts(rest, S \ {first}, edges)
  PROVE  \E order : Sorts(order, S, edges)
<1> DEFINE others == S \ {first}
           order == [i \in S |-> IF i = first THEN 1 ELSE rest[i] + 1]
<1>1. /\ Cardinality(S) \in Nat /\ Cardinality(others) \in Nat
      /\ Cardinality(S) = Cardinality(others) + 1
  <2>1. IsFiniteSet(others) /\ Cardinality(others) = Cardinality(S) - 1
    BY FS_RemoveElement
  <2>2. Cardinality(S) \in Nat /\ Cardinality(others) \in Nat
    BY <2>1, FS_CardinalityType
  <2> QED
    BY <2>1, <2>2
<1>2. \A i \in others : rest[i] \in 1 .. Cardinality(others)
  BY DEF Sorts
<1>3. order \in [S -> 1 .. Cardinality(S)]
  BY <1>1, <1>2
<1>4. /\ order[first] = 1
      /\ \A i \in others : order[i] = rest[i] + 1 /\ order[i] > 1
  BY <1>1, <1>2
<1>5. /\ \A i, k \in others : rest[i] = rest[k] => i = k
      /\ \A i, k \in others : << i, k >> \in edges => rest[i] < rest[k]
  BY DEF Sorts
<1> HIDE DEF order
<1>6. \A i, k \in S : order[i] = order[k] => i = k
  BY <1>1, <1>2, <1>4, <1>5
<1>7. \A i, k \in S : << i, k >> \in edges => order[i] < order[k]
  BY <1>1, <1>2, <1>4, <1>5
<1> QED
  BY <1>3, <1>6, <1>7 DEF Sorts

\* Among numbered tasks one has the smallest number.
LEMMA FirstNumbered ==
  ASSUME NEW S, IsFiniteSet(S), S # {}, NEW order,
         \A i \in S : order[i] \in Nat
  PROVE  \E i \in S : \A k \in S : order[i] <= order[k]
<1> DEFINE C == {T \in SUBSET S : T # {} => \E i \in T : \A k \in T : order[i] <= order[k]}
<1>1. ASSUME NEW T \in SUBSET S, \A U \in SUBSET T : U # T => U \in C
      PROVE  T \in C
  <2> SUFFICES ASSUME T # {}
               PROVE  \E i \in T : \A k \in T : order[i] <= order[k]
    OBVIOUS
  <2>1. PICK x \in T : TRUE
    OBVIOUS
  <2>2. T \ {x} \in C
    BY <1>1
  <2>3. CASE T \ {x} = {}
    BY <2>3
  <2>4. CASE T \ {x} # {}
    <3>1. PICK i \in T \ {x} : \A k \in T \ {x} : order[i] <= order[k]
      BY <2>2, <2>4
    <3>2. order[i] \in Nat /\ order[x] \in Nat /\ \A k \in T : order[k] \in Nat
      OBVIOUS
    <3>3. CASE order[i] <= order[x]
      BY <3>1, <3>3
    <3>4. CASE order[x] < order[i]
      BY <3>1, <3>2, <3>4
    <3> QED
      BY <3>2, <3>3, <3>4
  <2> QED
    BY <2>3, <2>4
<1> HIDE DEF C
<1>2. S \in C
  BY <1>1, SetInduction
<1> QED
  BY <1>2 DEF C

\* The graphs build_dag takes for acyclic are those toposort can put in an
\* order (dag.rs, the call of toposort), whatever their size: Acyclic speaks
\* of sets of tasks, the code of an order, and they agree.
THEOREM AcyclicIsSortable ==
  ASSUME NEW tasks, IsFiniteSet(tasks), NEW edges
  PROVE  Acyclic(tasks, edges) <=> \E order : Sorts(order, tasks, edges)
<1>1. ASSUME Acyclic(tasks, edges)
      PROVE  \E order : Sorts(order, tasks, edges)
  <2> DEFINE C == {T \in SUBSET tasks : \E order : Sorts(order, T, edges)}
  <2>1. ASSUME NEW T \in SUBSET tasks, \A U \in SUBSET T : U # T => U \in C
        PROVE  T \in C
    <3>1. IsFiniteSet(T)
      BY FS_Subset
    <3>2. CASE T = {}
      <4>1. Sorts([i \in {} |-> 0], {}, edges)
        BY DEF Sorts
      <4> QED
        BY <3>2, <4>1
    <3>3. CASE T # {}
      <4>1. PICK first \in T : \A i \in T : << i, first >> \notin edges
        BY <1>1, <3>3 DEF Acyclic
      <4>2. T \ {first} \in C
        BY <2>1, <4>1
      <4>3. PICK rest : Sorts(rest, T \ {first}, edges)
        BY <4>2
      <4>4. \E order : Sorts(order, T, edges)
        BY <3>1, <4>1, <4>3, SortsOneMore
      <4> QED
        BY <4>4
    <3> QED
      BY <3>2, <3>3
  <2> HIDE DEF C
  <2>2. tasks \in C
    BY <2>1, SetInduction
  <2> QED
    BY <2>2 DEF C
<1>2. ASSUME NEW order, Sorts(order, tasks, edges)
      PROVE  Acyclic(tasks, edges)
  <2> SUFFICES ASSUME NEW S \in (SUBSET tasks) \ {{}}
               PROVE  \E k \in S : \A i \in S : << i, k >> \notin edges
    BY DEF Acyclic
  <2>1. IsFiniteSet(S) /\ S # {}
    BY FS_Subset
  <2>2. Cardinality(tasks) \in Nat
    BY FS_CardinalityType
  <2>3. \A i \in S : order[i] \in Nat
    BY <1>2, <2>2 DEF Sorts
  <2>4. PICK k \in S : \A i \in S : order[k] <= order[i]
    BY <2>1, <2>3, FirstNumbered
  <2>5. \A i \in S : << i, k >> \in edges => order[i] < order[k]
    BY <1>2 DEF Sorts
  <2> QED
    BY <2>3, <2>4, <2>5
<1> QED
  BY <1>1, <1>2

-----------------------------------------------------------------------------
(* The plans as graphs                                                     *)

LEMMA PositionBound ==
  ASSUME NEW t \in Tasks
  PROVE  Position(t) \in 0 .. 3
<1>1. TierOf[t[1]] \in JobTier
  BY TaskShape, BoardAssumption
<1>2. \A tier \in JobTier : \A i \in 1 .. Len(SubtaskPlan[tier]) :
        SubtaskPlan[tier][i].position \in 0 .. 3
  <2> SUFFICES ASSUME NEW tier \in JobTier, NEW i \in 1 .. Len(SubtaskPlan[tier])
               PROVE  SubtaskPlan[tier][i].position \in 0 .. 3
    OBVIOUS
  <2>1. CASE tier = "Standard"
    BY <2>1 DEF SubtaskPlan, PlanStep
  <2>2. CASE tier = "Paid"
    BY <2>2 DEF SubtaskPlan, PlanStep
  <2>3. CASE tier = "Premium"
    BY <2>3 DEF SubtaskPlan, PlanStep
  <2> QED
    BY <2>1, <2>2, <2>3 DEF JobTier
<1> QED
  BY <1>1, <1>2, TaskShape DEF PlanOf, Position

\* Among any tasks there is one at the smallest position.
LEMMA FirstByPosition ==
  ASSUME NEW S \in SUBSET Tasks, S # {}
  PROVE  \E t \in S : \A u \in S : Position(t) <= Position(u)
<1>1. \A u \in S : Position(u) \in 0 .. 3
  BY PositionBound
<1>2. CASE \E t \in S : Position(t) = 0
  BY <1>1, <1>2
<1>3. CASE (\A u \in S : Position(u) # 0) /\ \E t \in S : Position(t) = 1
  BY <1>1, <1>3
<1>4. CASE (\A u \in S : Position(u) \notin {0, 1}) /\ \E t \in S : Position(t) = 2
  BY <1>1, <1>4
<1>5. CASE \A u \in S : Position(u) \notin {0, 1, 2}
  BY <1>1, <1>5
<1> QED
  BY <1>2, <1>3, <1>4, <1>5

\* build_dag would accept every plan that submit_job seeds.
THEOREM PlansAreAccepted ==
  ASSUME NEW j \in Jobs
  PROVE  Accepted(TasksOf(j), {e \in PlanEdges : e[1][1] = j})
<1> DEFINE edges == {e \in PlanEdges : e[1][1] = j}
           n == Len(PlanOf(j))
<1>1. Cardinality(TasksOf(j)) \in 1 .. MaxTasks
  <2>1. TierOf[j] \in JobTier
    BY BoardAssumption
  <2>2. n \in 1 .. 5
    BY <2>1 DEF PlanOf, SubtaskPlan, JobTier
  <2>3. TasksOf(j) = {j} \X (1 .. n)
    BY DEF TasksOf, Tasks
  <2>4. IsFiniteSet({j}) /\ Cardinality({j}) = 1
    BY FS_Singleton
  <2>5. IsFiniteSet(1 .. n) /\ Cardinality(1 .. n) = n
    BY <2>2, FS_Interval
  <2>6. Cardinality({j} \X (1 .. n)) = Cardinality({j}) * Cardinality(1 .. n)
    BY <2>4, <2>5, FS_Product
  <2>7. Cardinality(TasksOf(j)) = n
    <3>1. Cardinality({j}) * Cardinality(1 .. n) = 1 * n
      BY <2>4, <2>5
    <3> HIDE DEF n
    <3> QED
      BY <2>2, <2>3, <2>6, <3>1
  <2> HIDE DEF n
  <2> QED
    BY <2>2, <2>7 DEF MaxTasks
<1>2. edges \subseteq TasksOf(j) \X TasksOf(j)
  BY DEF PlanEdges, TasksOf
<1>3. \A i \in TasksOf(j) : << i, i >> \notin edges
  BY PositionBound DEF PlanEdges, TasksOf
<1>4. Acyclic(TasksOf(j), edges)
  <2> SUFFICES ASSUME NEW S \in (SUBSET TasksOf(j)) \ {{}}
               PROVE  \E t \in S : \A i \in S : << i, t >> \notin edges
    BY DEF Acyclic
  <2>1. S \in SUBSET Tasks /\ S # {}
    BY DEF TasksOf
  <2>2. PICK t \in S : \A u \in S : Position(t) <= Position(u)
    BY <2>1, FirstByPosition
  <2>3. \A i \in S : << i, t >> \notin edges
    BY <2>1, <2>2, PositionBound DEF PlanEdges
  <2> QED
    BY <2>3
<1> QED
  BY <1>1, <1>2, <1>3, <1>4 DEF Accepted

-----------------------------------------------------------------------------
(* The dispatcher                                                          *)

\* Dependencies never lock a job, whatever fails and whatever part of its plan
\* is inserted: an open row that nobody was given leaves one to be claimed.
THEOREM NeverLocked == BoardSpec => []SomeTaskMoves
<1>1. BoardTypeOK => SomeTaskMoves
  <2> SUFFICES ASSUME BoardTypeOK, NEW j \in Jobs, ~ AllComplete(j)
               PROVE  \E t \in TasksOf(j) :
                        Eligible(t) \/ (Exists(t) /\ status[t] = "dispatched")
    BY DEF SomeTaskMoves
  <2> DEFINE Open == {t \in TasksOf(j) : Exists(t) /\ status[t] # "complete"}
  <2>1. Open \in SUBSET Tasks /\ Open # {}
    BY DEF AllComplete, TasksOf
  <2>2. PICK t \in Open : \A u \in Open : Position(t) <= Position(u)
    BY <2>1, FirstByPosition
  <2>3. \A dep \in TasksOf(j) :
          ~ (Exists(dep) /\ Position(dep) < Position(t) /\ status[dep] # "complete")
    <3> SUFFICES ASSUME NEW dep \in TasksOf(j), Exists(dep),
                        Position(dep) < Position(t), status[dep] # "complete"
                 PROVE  FALSE
      OBVIOUS
    <3>1. dep \in Open /\ dep \in Tasks /\ t \in Tasks
      BY <2>1
    <3> QED
      BY <2>2, <3>1, PositionBound
  <2>4. status[t] \in {"pending", "dispatched"}
    BY <2>1 DEF BoardTypeOK
  <2>5. TasksOf(t[1]) = TasksOf(j)
    BY DEF TasksOf
  <2> QED
    BY <2>3, <2>4, <2>5 DEF Eligible
<1> QED
  BY <1>1, TypeCorrect, PTL

=============================================================================
