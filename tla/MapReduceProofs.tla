-------------------------- MODULE MapReduceProofs --------------------------
(***************************************************************************)
(* Proofs about the module MapReduce, for every number of tasks, workers,  *)
(* crashes and late workers.                                               *)
(***************************************************************************)
EXTENDS MapReduce, FiniteSetTheorems, TLAPS

\* A task is a pair of a phase and an index.
LEMMA TaskPairs ==
    /\ \A t \in Task : \/ t[1] = "map" /\ t[2] \in MapIndex /\ t = <<"map", t[2]>>
                       \/ t[1] = "reduce" /\ t[2] \in ReduceIndex /\ t = <<"reduce", t[2]>>
    /\ \A m \in MapIndex : <<"map", m>> \in Task
    /\ \A r \in ReduceIndex : <<"reduce", r>> \in Task
    /\ NoTask \notin Task
    /\ Phase \subseteq Task
    /\ \A t \in Phase : t[1] = IF maptaskfinish THEN "reduce" ELSE "map"
BY DEF Task, NoTask, Phase

\* The number of workers a passing of time overtakes is a number.
LEMMA LateType ==
    ASSUME TypeOK, NEW n \in Nat, TimePasses(n)
    PROVE  late' \in Nat
<1>1. IsFiniteSet(Overtaken(n))
  BY WorkerAssumption, FS_Subset, Zenon DEF Overtaken
<1>2. Cardinality(Overtaken(n)) \in Nat
  BY <1>1, FS_CardinalityType, Zenon
<1> QED
  BY <1>2 DEF TimePasses, TypeOK

-----------------------------------------------------------------------------
(* Types and phases *)

\* The initial state satisfies PhaseInv.
LEMMA InitPhase == Init => PhaseInv
<1> SUFFICES ASSUME Init PROVE PhaseInv
  BY Zenon
<1>1. TypeOK
  BY Zenon DEF Init, TypeOK, Asking, Work
<1>2. WorkFitsTask
  BY Zenon DEF Init, WorkFitsTask, Asking
<1>3. PhasesInOrder
  BY TaskPairs, Zenon DEF Init, PhasesInOrder, Asking
<1> QED
  BY <1>1, <1>2, <1>3, Zenon DEF PhaseInv

\* Giving out a task keeps PhaseInv: a reduce task is given out only in its phase.
LEMMA AssignPhase ==
    ASSUME PhaseInv, NEW w \in Worker, NEW t \in Phase, Assign(w, t),
           UNCHANGED <<up, overdue, files, out, bounds>>
    PROVE  PhaseInv'
<1> DEFINE job == [at |-> IF t[1] = "map" THEN "rename" ELSE IF M = 0 THEN "create" ELSE "read",
                   task |-> t, stamp |-> clock + 1, next |-> 0]
<1>1. /\ t \in Task /\ clock + 1 \in Nat /\ given[t] + 1 \in Nat
      /\ t[1] = (IF maptaskfinish THEN "reduce" ELSE "map")
  BY TaskPairs DEF PhaseInv, TypeOK
<1>2. job \in Work
  BY <1>1, Zenon DEF Work
<1>3. work' = [work EXCEPT ![w] = job]
  BY Zenon DEF Assign, Timestamp
<1>4. TypeOK'
  <2>1. maptaskfinish' \in BOOLEAN /\ reducetaskfinish' \in BOOLEAN
    BY Zenon DEF Assign, PhaseInv, TypeOK
  <2>2. /\ mission' \in [Task -> {"Ready", "Running", "Done"}]
        /\ stamp' \in [Task -> Nat] /\ given' \in [Task -> Nat]
    BY <1>1, Zenon DEF Assign, PhaseInv, TypeOK, Timestamp
  <2>3. work' \in [Worker -> Work]
    BY <1>2, <1>3, Zenon DEF PhaseInv, TypeOK
  <2> QED
    BY <1>1, <2>1, <2>2, <2>3, Zenon DEF Assign, PhaseInv, TypeOK, bounds
<1>5. WorkFitsTask'
  <2>1. t # NoTask
    BY <1>1, TaskPairs, Zenon
  <2>2. 0 \in ReduceIndex /\ (M # 0 => 0 \in MapIndex)
    BY TasksAssumption DEF ReduceIndex, MapIndex
  <2>3. \A r \in ReduceIndex : ~(r < 0)
    BY DEF ReduceIndex
  <2>4. \A v \in Worker : work'[v] = IF v = w THEN job ELSE work[v]
    BY <1>3, Zenon DEF PhaseInv, TypeOK
  <2>5. t[1] \in {"map", "reduce"}
    BY <1>1, Zenon
  <2> SUFFICES ASSUME NEW v \in Worker PROVE
        /\ work'[v].at \in {"ask", "exited"} <=> work'[v].task = NoTask
        /\ work'[v].at = "rename" =>
              /\ work'[v].task[1] = "map" /\ work'[v].next \in ReduceIndex
              /\ \A r \in ReduceIndex : r < work'[v].next => <<work'[v].task[2], r>> \in files
        /\ work'[v].at = "read" => work'[v].task[1] = "reduce" /\ work'[v].next \in MapIndex
        /\ work'[v].at \in {"create", "output"} => work'[v].task[1] = "reduce"
        /\ work'[v].at = "report" /\ work'[v].task[1] = "map" =>
              \A r \in ReduceIndex : <<work'[v].task[2], r>> \in files
    BY Zenon DEF WorkFitsTask
  <2>6. CASE v = w
    BY <2>1, <2>2, <2>3, <2>4, <2>5, <2>6
  <2>7. CASE v # w
    BY <2>4, <2>7, Zenon DEF PhaseInv, WorkFitsTask
  <2> QED
    BY <2>6, <2>7, Zenon
<1>6. PhasesInOrder'
  <2>1. mission[t] # "Done"
    BY Zenon DEF Assign, Assignable
  <2>2. /\ maptaskfinish' = maptaskfinish
        /\ reducetaskfinish' => reducetaskfinish /\ ~maptaskfinish
    BY Zenon DEF Assign, PhaseInv, TypeOK
  <2>3. ~reducetaskfinish'
    BY <2>2, Zenon DEF PhaseInv, PhasesInOrder
  <2>4. \A s \in Task : mission'[s] = IF s = t THEN "Running" ELSE mission[s]
    BY <1>1, Zenon DEF Assign, PhaseInv, TypeOK
  <2>5. \A m \in MapIndex : mission'[<<"map", m>>] = "Done" => mission[<<"map", m>>] = "Done"
    BY <2>4, TaskPairs, Zenon
  <2>6. maptaskfinish => \A m \in MapIndex : <<"map", m>> # t
    BY <1>1, TaskPairs, Zenon
  <2>7. \A v \in Worker : work'[v] = IF v = w THEN job ELSE work[v]
    BY <1>3 DEF PhaseInv, TypeOK
  <2>8. job.task = t
    BY Zenon
  <2>9. \A v \in Worker : work'[v].task \in Task /\ work'[v].task[1] = "reduce" => maptaskfinish
    BY <1>1, <2>7, <2>8, Zenon DEF PhaseInv, PhasesInOrder
  <2>10. maptaskfinish => \A m \in MapIndex : mission'[<<"map", m>>] = "Done"
    BY <2>4, <2>6, TaskPairs, Zenon DEF PhaseInv, PhasesInOrder
  <2> QED
    BY <2>2, <2>3, <2>5, <2>9, <2>10, Zenon DEF PhaseInv, PhasesInOrder
<1> QED
  BY <1>4, <1>5, <1>6, Zenon DEF PhaseInv

\* A scan that finds nothing to give out ends a phase only if all its tasks are Done.
LEMMA WaitingPhase ==
    ASSUME PhaseInv, Waiting, UNCHANGED <<up, overdue, files, out, bounds>>
    PROVE  PhaseInv'
<1> DEFINE finish == \A t \in Phase : mission[t] # "Running"
<1>1. finish => \A t \in Phase : mission[t] = "Done"
  BY TaskPairs, Zenon DEF Waiting, Assignable, PhaseInv, TypeOK
<1>2. finish \in BOOLEAN
  BY Zenon
<1>3. TypeOK'
  BY Zenon DEF Waiting, PhaseInv, TypeOK, bounds, PhaseOver
<1>4. WorkFitsTask'
  BY Zenon DEF Waiting, PhaseInv, WorkFitsTask
<1>5. PhasesInOrder'
  <2>1. CASE maptaskfinish
    <3>1. maptaskfinish' = maptaskfinish /\ reducetaskfinish' = finish
      BY <2>1, Zenon DEF Waiting, PhaseOver
    <3>2. reducetaskfinish' => \A r \in ReduceIndex : mission[<<"reduce", r>>] = "Done"
      BY <1>1, <2>1, <3>1, Zenon DEF Phase
    <3> QED
      BY <2>1, <3>1, <3>2, Zenon DEF Waiting, PhaseInv, PhasesInOrder
  <2>2. CASE ~maptaskfinish
    <3>1. maptaskfinish' = finish /\ reducetaskfinish' = reducetaskfinish
      BY <2>2, Zenon DEF Waiting, PhaseOver
    <3>2. maptaskfinish' => \A m \in MapIndex : mission[<<"map", m>>] = "Done"
      BY <1>1, <2>2, <3>1, Zenon DEF Phase
    <3> QED
      BY <2>2, <3>1, <3>2, Zenon DEF Waiting, PhaseInv, PhasesInOrder
  <2> QED
    BY <2>1, <2>2, Zenon
<1> QED
  BY <1>3, <1>4, <1>5, Zenon DEF PhaseInv

\* A worker that stops or asks again keeps PhaseInv.
LEMMA ReleasePhase ==
    ASSUME PhaseInv, NEW w \in Worker, NEW idle \in {Asking, Exited},
           work' = [work EXCEPT ![w] = idle], TypeOK',
           UNCHANGED <<mission, maptaskfinish, reducetaskfinish, files>>
    PROVE  PhaseInv'
<1>1. \A v \in Worker : work'[v] = IF v = w THEN idle ELSE work[v]
  BY Zenon DEF PhaseInv, TypeOK
<1>2. idle.at \in {"ask", "exited"} /\ idle.task = NoTask /\ NoTask \notin Task
  BY TaskPairs DEF Asking, Exited
<1>3. WorkFitsTask'
  BY <1>1, <1>2 DEF PhaseInv, WorkFitsTask
<1>4. PhasesInOrder'
  BY <1>1, <1>2, Zenon DEF PhaseInv, PhasesInOrder
<1> QED
  BY <1>3, <1>4, Zenon DEF PhaseInv

\* An accepted report of a map task comes after all its files.
LEMMA FinishPhase ==
    ASSUME PhaseInv, NEW w \in Worker, HandleFinish(w)
    PROVE  PhaseInv'
<1> DEFINE t == work[w].task
<1>1. t \in Task
  BY Zenon DEF HandleFinish, PhaseInv, TypeOK, WorkFitsTask, Work
<1>2. TypeOK'
  BY <1>1, Zenon DEF HandleFinish, PhaseInv, TypeOK, time, bounds, Asking, Work
<1>3. \A v \in Worker : work'[v] = IF v = w THEN Asking ELSE work[v]
  BY <1>1, Zenon DEF HandleFinish, PhaseInv, TypeOK
<1>4. WorkFitsTask'
  BY <1>3 DEF HandleFinish, PhaseInv, WorkFitsTask, Asking
<1>5. \A s \in Task : mission'[s] = mission[s] \/ (mission'[s] = "Done" /\ s = t)
  <2>1. mission' = mission \/ mission' = [mission EXCEPT ![t] = "Done"]
    BY Zenon DEF HandleFinish
  <2> HIDE DEF t
  <2> QED
    BY <2>1, Zenon DEF PhaseInv, TypeOK
<1>6. t[1] = "map" => \A r \in ReduceIndex : <<t[2], r>> \in files
  BY Zenon DEF HandleFinish, PhaseInv, WorkFitsTask
<1>7. PhasesInOrder'
  <2>1. \A m \in MapIndex : mission'[<<"map", m>>] = "Done" =>
            \A r \in ReduceIndex : <<m, r>> \in files
    <3> SUFFICES ASSUME NEW m \in MapIndex, mission'[<<"map", m>>] = "Done"
                 PROVE  \A r \in ReduceIndex : <<m, r>> \in files
      BY Zenon
    <3>1. CASE mission[<<"map", m>>] = "Done"
      BY <3>1, Zenon DEF PhaseInv, PhasesInOrder
    <3>2. CASE mission[<<"map", m>>] # "Done"
      <4>1. t = <<"map", m>>
        BY <1>5, <3>2, TaskPairs, Zenon
      <4> QED
        BY <1>6, <4>1
    <3> QED
      BY <3>1, <3>2, Zenon
  <2>2. \A s \in Task : mission[s] = "Done" => mission'[s] = "Done"
    BY <1>5, Zenon
  <2>3. \A v \in Worker : work'[v].task \in Task => work'[v] = work[v]
    BY <1>3, TaskPairs DEF Asking
  <2> QED
    BY <2>1, <2>2, <2>3, TaskPairs, Zenon DEF HandleFinish, PhaseInv, PhasesInOrder
<1> QED
  BY <1>2, <1>4, <1>7, Zenon DEF PhaseInv

\* Renaming an intermediate file keeps PhaseInv.
LEMMA RenamePhase ==
    ASSUME PhaseInv, NEW w \in Worker, RenameBucket(w)
    PROVE  PhaseInv'
<1> DEFINE k == work[w]
           job == IF LastBucket(k.next) THEN [k EXCEPT !.at = "report", !.next = 0]
                  ELSE [k EXCEPT !.next = @ + 1]
<1>1. /\ k \in Work /\ k.at = "rename" /\ k.task \in Task
      /\ k.task[1] = "map" /\ k.task[2] \in MapIndex /\ k.next \in ReduceIndex
      /\ \A r \in ReduceIndex : r < k.next => <<k.task[2], r>> \in files
  <2>1. k \in Work /\ k.at = "rename"
    BY Zenon DEF RenameBucket, PhaseInv, TypeOK
  <2>2. k.task # NoTask /\ k.task[1] = "map" /\ k.next \in ReduceIndex
        /\ \A r \in ReduceIndex : r < k.next => <<k.task[2], r>> \in files
    BY <2>1, Zenon DEF PhaseInv, WorkFitsTask
  <2>3. k.task \in Task
    BY <2>1, <2>2, Zenon DEF Work
  <2> QED
    BY <2>1, <2>2, <2>3, TaskPairs, Zenon
<1>2. files' = files \cup {<<k.task[2], k.next>>}
  BY Zenon DEF RenameBucket
<1>3. \A v \in Worker : work'[v] = IF v = w THEN job ELSE work[v]
  <2>1. CASE ~LastBucket(k.next)
    BY <2>1, Zenon DEF RenameBucket, PhaseInv, TypeOK
  <2>2. CASE LastBucket(k.next)
    BY <2>2, Zenon DEF RenameBucket, PhaseInv, TypeOK
  <2> QED
    BY <2>1, <2>2, Zenon
<1>4. /\ job \in Work /\ job.task = k.task
      /\ \/ job.at = "rename" /\ job.next = k.next + 1 /\ ~LastBucket(k.next)
         \/ job.at = "report" /\ LastBucket(k.next)
  <2> HIDE DEF k
  <2>1. CASE ~LastBucket(k.next)
    <3>1. job = [k EXCEPT !.next = k.next + 1] /\ k.next + 1 \in Nat
      BY <1>1, <2>1 DEF ReduceIndex
    <3> QED
      BY <1>1, <2>1, <3>1, Zenon DEF Work
  <2>2. CASE LastBucket(k.next)
    <3>1. job = [k EXCEPT !.at = "report", !.next = 0]
      BY <2>2, Zenon
    <3> QED
      BY <1>1, <2>2, <3>1, Zenon DEF Work
  <2> QED
    BY <2>1, <2>2, Zenon
<1>5. work' \in [Worker -> Work]
  <2>1. work' = [v \in Worker |-> work'[v]]
    BY Zenon DEF RenameBucket, PhaseInv, TypeOK
  <2> QED
    BY <1>3, <1>4, <2>1, Zenon DEF PhaseInv, TypeOK
<1> HIDE DEF job, k
<1>6. TypeOK'
  BY <1>1, <1>2, <1>5 DEF RenameBucket, PhaseInv, TypeOK, coordinator, time, bounds
<1>7. WorkFitsTask'
  <2> SUFFICES ASSUME NEW v \in Worker PROVE
        /\ work'[v].at \in {"ask", "exited"} <=> work'[v].task = NoTask
        /\ work'[v].at = "rename" =>
              /\ work'[v].task[1] = "map" /\ work'[v].next \in ReduceIndex
              /\ \A r \in ReduceIndex : r < work'[v].next => <<work'[v].task[2], r>> \in files'
        /\ work'[v].at = "read" => work'[v].task[1] = "reduce" /\ work'[v].next \in MapIndex
        /\ work'[v].at \in {"create", "output"} => work'[v].task[1] = "reduce"
        /\ work'[v].at = "report" /\ work'[v].task[1] = "map" =>
              \A r \in ReduceIndex : <<work'[v].task[2], r>> \in files'
    BY Zenon DEF WorkFitsTask
  <2>1. CASE v # w
    BY <1>2, <1>3, <2>1, Zenon DEF PhaseInv, WorkFitsTask
  <2>2. CASE v = w
    <3>1. work'[v] = job /\ k.task # NoTask
      BY <1>1, <1>3, <2>2, TaskPairs, Zenon
    <3>2. \A r \in ReduceIndex : r <= k.next => <<k.task[2], r>> \in files'
      BY <1>1, <1>2 DEF ReduceIndex
    <3>3. CASE job.at = "rename"
      <4>1. job.next = k.next + 1 /\ job.next \in ReduceIndex
        BY <1>1, <1>4, <3>3, TasksAssumption DEF ReduceIndex, LastBucket
      <4>2. \A r \in ReduceIndex : r < job.next => r <= k.next
        BY <1>1, <4>1 DEF ReduceIndex
      <4> QED
        BY <1>1, <1>4, <3>1, <3>2, <3>3, <4>1, <4>2, Zenon
    <3>4. CASE job.at = "report"
      <4>1. \A r \in ReduceIndex : r <= k.next
        BY <1>1, <1>4, <3>4, TasksAssumption DEF ReduceIndex, LastBucket
      <4> QED
        BY <1>1, <1>4, <3>1, <3>2, <3>4, <4>1, Zenon
    <3> QED
      BY <1>4, <3>3, <3>4, Zenon
  <2> QED
    BY <2>1, <2>2, Zenon
<1>8. PhasesInOrder'
  <2>1. \A v \in Worker : work'[v].task = work[v].task
    BY <1>3, <1>4, Zenon DEF k
  <2> QED
    BY <1>2, <2>1, Zenon DEF RenameBucket, PhaseInv, PhasesInOrder, coordinator
<1> QED
  BY <1>6, <1>7, <1>8 DEF PhaseInv

\* A reduce worker that goes on with its task keeps PhaseInv.
LEMMA ReducePhase ==
    ASSUME PhaseInv, NEW w \in Worker, NEW job \in Work,
           work' = [work EXCEPT ![w] = job], TypeOK',
           work[w].task \in Task, work[w].task[1] = "reduce", job.task = work[w].task,
           \/ job.at = "read" /\ job.next \in MapIndex
           \/ job.at \in {"create", "output", "report"},
           UNCHANGED <<mission, maptaskfinish, reducetaskfinish, files>>
    PROVE  PhaseInv'
<1>1. \A v \in Worker : work'[v] = IF v = w THEN job ELSE work[v]
  BY Zenon DEF PhaseInv, TypeOK
<1>2. job.task # NoTask
  BY TaskPairs, Zenon
<1>3. WorkFitsTask'
  BY <1>1, <1>2 DEF PhaseInv, WorkFitsTask
<1>4. PhasesInOrder'
  BY <1>1, Zenon DEF PhaseInv, PhasesInOrder
<1> QED
  BY <1>3, <1>4, Zenon DEF PhaseInv

\* The steps of HandleReduce keep PhaseInv; the file it opens is always there.
LEMMA HandleReducePhase ==
    ASSUME PhaseInv, NEW w \in Worker,
           ReadBucket(w) \/ CreateOutput(w) \/ RenameOutput(w)
    PROVE  PhaseInv'
<1> DEFINE k == work[w]
<1>1. k \in Work /\ k.task \in Task /\ k.task[1] = "reduce" /\ k.task[2] \in ReduceIndex
  <2>1. k \in Work
    BY Zenon DEF PhaseInv, TypeOK
  <2>2. k.task # NoTask /\ k.task[1] = "reduce"
    BY Zenon DEF ReadBucket, CreateOutput, RenameOutput, PhaseInv, WorkFitsTask
  <2>3. k.task \in Task
    BY <2>1, <2>2, Zenon DEF Work
  <2> QED
    BY <2>1, <2>2, <2>3, TaskPairs, Zenon
<1>2. CASE ReadBucket(w)
  <2>1. k.at = "read" /\ k.next \in MapIndex
    BY <1>2, Zenon DEF ReadBucket, PhaseInv, WorkFitsTask
  <2>2. ASSUME work' = [work EXCEPT ![w] = Exited] PROVE PhaseInv'
    <3>1. TypeOK'
      BY <1>2, <2>2, Zenon DEF ReadBucket, PhaseInv, TypeOK, coordinator, time, bounds, Exited, Work
    <3> QED
      BY <1>2, <2>2, <3>1, ReleasePhase, Zenon DEF ReadBucket, coordinator
  <2>3. ASSUME k.next + 1 < M, work' = [work EXCEPT ![w].next = @ + 1] PROVE PhaseInv'
    <3> DEFINE job == [k EXCEPT !.next = k.next + 1]
    <3>1. k.next + 1 \in Nat /\ k.next + 1 \in MapIndex
      BY <2>1, <2>3, TasksAssumption DEF MapIndex
    <3>2. /\ job \in Work /\ job.task = k.task /\ job.at = "read"
          /\ job.next = k.next + 1
      BY <1>1, <2>1, <3>1, Zenon DEF Work
    <3>3. work' = [work EXCEPT ![w] = job]
      BY <2>3, Zenon
    <3> HIDE DEF job
    <3>4. TypeOK'
      BY <1>2, <3>2, <3>3, Zenon DEF ReadBucket, PhaseInv, TypeOK, coordinator, time, bounds
    <3> QED
      BY <1>1, <1>2, <3>1, <3>2, <3>3, <3>4, ReducePhase, Zenon DEF ReadBucket, coordinator
  <2>4. ASSUME work' = [work EXCEPT ![w].at = "create", ![w].next = 0] PROVE PhaseInv'
    <3> DEFINE job == [k EXCEPT !.at = "create", !.next = 0]
    <3>1. job \in Work /\ job.task = k.task /\ job.at = "create"
      BY <1>1, Zenon DEF Work
    <3>2. work' = [work EXCEPT ![w] = job]
      BY <2>4, Zenon DEF PhaseInv, TypeOK
    <3> HIDE DEF job
    <3>3. TypeOK'
      BY <1>2, <3>1, <3>2, Zenon DEF ReadBucket, PhaseInv, TypeOK, coordinator, time, bounds
    <3> QED
      BY <1>1, <1>2, <3>1, <3>2, <3>3, ReducePhase, Zenon DEF ReadBucket, coordinator
  <2> QED
    BY <1>2, <2>2, <2>3, <2>4, Zenon DEF ReadBucket
<1>3. CASE CreateOutput(w)
  <2> DEFINE job == [k EXCEPT !.at = "output"]
  <2>1. job \in Work /\ job.task = k.task /\ job.at = "output"
    BY <1>1, Zenon DEF Work
  <2>2. work' = [work EXCEPT ![w] = job]
    BY <1>3, Zenon DEF CreateOutput
  <2> HIDE DEF job
  <2>3. TypeOK'
    BY <1>1, <1>3, <2>1, <2>2 DEF CreateOutput, PhaseInv, TypeOK, coordinator, time, bounds
  <2> QED
    BY <1>1, <1>3, <2>1, <2>2, <2>3, ReducePhase, Zenon DEF CreateOutput, coordinator
<1>4. CASE RenameOutput(w)
  <2> DEFINE job == [k EXCEPT !.at = "report"]
  <2>1. job \in Work /\ job.task = k.task /\ job.at = "report"
    BY <1>1, Zenon DEF Work
  <2>2. work' = [work EXCEPT ![w] = job]
    BY <1>4, Zenon DEF RenameOutput
  <2> HIDE DEF job
  <2>3. TypeOK'
    BY <1>1, <1>4, <2>1, <2>2 DEF RenameOutput, PhaseInv, TypeOK, coordinator, time, bounds
  <2> QED
    BY <1>1, <1>4, <2>1, <2>2, <2>3, ReducePhase, Zenon DEF RenameOutput, coordinator
<1> QED
  BY <1>2, <1>3, <1>4, Zenon

\* Every step keeps PhaseInv.
LEMMA NextPhase == PhaseInv /\ [Next]_vars => PhaseInv'
<1> SUFFICES ASSUME PhaseInv, [Next]_vars PROVE PhaseInv'
  BY Zenon
<1>1. ASSUME NEW w \in Worker, AssignMission(w) PROVE PhaseInv'
  BY <1>1, AssignPhase, WaitingPhase, Zenon DEF AssignMission
<1>2. ASSUME NEW w \in Worker, HandleFinish(w) PROVE PhaseInv'
  BY <1>2, FinishPhase, Zenon
<1>3. ASSUME NEW w \in Worker, CallFails(w) PROVE PhaseInv'
  <2>1. TypeOK'
    BY <1>3, Zenon DEF CallFails, PhaseInv, TypeOK, coordinator, time, bounds, Exited, Work
  <2> QED
    BY <1>3, <2>1, ReleasePhase, Zenon DEF CallFails, coordinator
<1>4. ASSUME NEW w \in Worker, RenameBucket(w) PROVE PhaseInv'
  BY <1>4, RenamePhase
<1>5. ASSUME NEW w \in Worker, ReadBucket(w) \/ CreateOutput(w) \/ RenameOutput(w)
      PROVE  PhaseInv'
  BY <1>5, HandleReducePhase, Zenon
<1>6. ASSUME NEW w \in Worker, Crash(w) PROVE PhaseInv'
  <2>1. TypeOK'
    BY <1>6 DEF Crash, PhaseInv, TypeOK, coordinator, time, Exited, Work
  <2> QED
    BY <1>6, <2>1, ReleasePhase, Zenon DEF Crash, coordinator
<1>7. CASE CoordinatorExit
  BY <1>7, Zenon DEF CoordinatorExit, PhaseInv, TypeOK, WorkFitsTask, PhasesInOrder, coordinator,
     time, bounds
<1>8. ASSUME NEW n \in 1 .. clock, TimePasses(n) PROVE PhaseInv'
  <2>1. n \in Nat
    BY DEF PhaseInv, TypeOK
  <2>2. late' \in Nat
    BY <1>8, <2>1, LateType, Zenon DEF PhaseInv
  <2> QED
    BY <1>8, <2>1, <2>2, Zenon DEF TimePasses, PhaseInv, TypeOK, WorkFitsTask, PhasesInOrder, coordinator
<1>9. CASE UNCHANGED vars
  BY <1>9, Zenon DEF vars, PhaseInv, TypeOK, WorkFitsTask, PhasesInOrder
<1> QED
  BY <1>1, <1>2, <1>3, <1>4, <1>5, <1>6, <1>7, <1>8, <1>9, Zenon DEF Next, Step

\* PhaseInv holds at all times.
LEMMA PhaseInvariant == Spec => []PhaseInv
BY InitPhase, NextPhase, PTL DEF Spec

\* Type correctness of the coordinator, its workers and their files.
THEOREM TypeCorrect == Spec => []TypeOK
<1>1. PhaseInv => TypeOK
  BY Zenon DEF PhaseInv
<1> QED
  BY <1>1, PhaseInvariant, PTL

\* HandleReduce never fails to open an intermediate file: AssignMission gives out
\* reduce tasks only after the map tasks have left theirs, whoever crashes or is late.
THEOREM ReduceNeverMissesInput == Spec => []ReduceInputExists
<1>1. PhaseInv => ReduceInputExists
  <2> SUFFICES ASSUME PhaseInv, NEW w \in Worker, work[w].at = "read"
               PROVE  <<work[w].next, work[w].task[2]>> \in files
    BY Zenon DEF ReduceInputExists
  <2>1. work[w].task # NoTask /\ work[w].task[1] = "reduce" /\ work[w].next \in MapIndex
    BY Zenon DEF PhaseInv, WorkFitsTask
  <2>2. work[w].task \in Task
    BY <2>1, Zenon DEF PhaseInv, TypeOK, Work
  <2>3. work[w].task[2] \in ReduceIndex
    BY <2>1, <2>2, TaskPairs, Zenon
  <2> QED
    BY <2>1, <2>2, <2>3, Zenon DEF PhaseInv, PhasesInOrder
<1> QED
  BY <1>1, PhaseInvariant, PTL

\* Done() is true only when every task is Done.
THEOREM DoneMeansAllDone == Spec => []FinishedMeansDone
<1>1. PhaseInv => FinishedMeansDone
  BY TaskPairs DEF PhaseInv, PhasesInOrder, FinishedMeansDone
<1> QED
  BY <1>1, PhaseInvariant, PTL
-----------------------------------------------------------------------------
(* Done is final *)

\* The body of DoneIsFinal, for one step.
LEMMA NextDone ==
    ASSUME PhaseInv, [Next]_vars
    PROVE  /\ \A t \in Task : mission[t] = "Done" => mission'[t] = "Done"
           /\ maptaskfinish => maptaskfinish'
           /\ reducetaskfinish => reducetaskfinish'
<1>1. ASSUME NEW w \in Worker, NEW t \in Phase, Assign(w, t)
      PROVE  /\ \A s \in Task : mission[s] = "Done" => mission'[s] = "Done"
             /\ maptaskfinish => maptaskfinish'
             /\ reducetaskfinish => reducetaskfinish'
  <2>1. t \in Task /\ mission[t] # "Done" /\ mission' = [mission EXCEPT ![t] = "Running"]
    BY <1>1, TaskPairs, Zenon DEF Assign, Assignable
  <2>2. maptaskfinish => ~reducetaskfinish
    BY <2>1 DEF Phase, PhaseInv, PhasesInOrder
  <2>3. \A s \in Task : mission'[s] = IF s = t THEN "Running" ELSE mission[s]
    BY <2>1, Zenon DEF PhaseInv, TypeOK
  <2>4. reducetaskfinish => maptaskfinish
    BY Zenon DEF PhaseInv, PhasesInOrder
  <2> QED
    BY <1>1, <2>1, <2>2, <2>3, <2>4, Zenon DEF Assign
<1>2. ASSUME Waiting
      PROVE  /\ UNCHANGED mission
             /\ maptaskfinish => maptaskfinish'
             /\ reducetaskfinish => reducetaskfinish'
  <2>1. reducetaskfinish => maptaskfinish /\ \A t \in Phase : mission[t] = "Done"
    BY DEF Phase, PhaseInv, PhasesInOrder
  <2> QED
    BY <1>2, <2>1, Zenon DEF Waiting, PhaseOver
<1>3. ASSUME NEW w \in Worker, HandleFinish(w)
      PROVE  /\ \A s \in Task : mission[s] = "Done" => mission'[s] = "Done"
             /\ UNCHANGED <<maptaskfinish, reducetaskfinish>>
  <2>1. mission' = mission \/ mission' = [mission EXCEPT ![work[w].task] = "Done"]
    BY <1>3, Zenon DEF HandleFinish
  <2> QED
    BY <1>3, <2>1, Zenon DEF HandleFinish, PhaseInv, TypeOK
<1>4. CASE UNCHANGED coordinator
  BY <1>4, Zenon DEF coordinator
<1> QED
  BY <1>1, <1>2, <1>3, <1>4, Zenon DEF Next, Step, AssignMission, CallFails, RenameBucket, ReadBucket,
     CreateOutput, RenameOutput, Crash, CoordinatorExit, TimePasses, coordinator, vars

\* A finished task, phase or job stays finished: AssignMission never gives out a task
\* that is Done, and a second scan does not take back that a phase is over.
THEOREM DoneStays == Spec => DoneIsFinal
<1>1. PhaseInv /\ [Next]_vars =>
        [/\ \A t \in Task : mission[t] = "Done" => mission'[t] = "Done"
         /\ maptaskfinish => maptaskfinish'
         /\ reducetaskfinish => reducetaskfinish']_vars
  BY NextDone, Zenon
<1> QED
  BY <1>1, PhaseInvariant, PTL DEF Spec, DoneIsFinal

-----------------------------------------------------------------------------
(* Attempts *)

\* A step without an assignment gives no worker a new task or timestamp.
LEMMA OldWork ==
    ASSUME PhaseInv, [Next]_vars
    PROVE  \/ \E w \in Worker, t \in Phase :
                  /\ Assign(w, t) /\ work[w].at = "ask"
                  /\ UNCHANGED out
           \/ /\ UNCHANGED <<stamp, clock, given>>
              /\ \A w \in Worker :
                    \/ work'[w].task = work[w].task /\ work'[w].stamp = work[w].stamp
                    \/ work'[w].task = NoTask /\ work'[w].stamp = 0
<1> DEFINE Old == /\ UNCHANGED <<stamp, clock, given>>
                  /\ \A w \in Worker :
                        \/ work'[w].task = work[w].task /\ work'[w].stamp = work[w].stamp
                        \/ work'[w].task = NoTask /\ work'[w].stamp = 0
<1>0. work \in [Worker -> Work]
  BY Zenon DEF PhaseInv, TypeOK
<1>1. ASSUME NEW w \in Worker, HandleFinish(w) PROVE Old
  BY <1>0, <1>1, Zenon DEF HandleFinish, Asking, time
<1>2. ASSUME NEW w \in Worker, CallFails(w) \/ Crash(w) PROVE Old
  BY <1>0, <1>2 DEF CallFails, Crash, Exited, time, coordinator
<1>3. ASSUME NEW w \in Worker, RenameBucket(w) PROVE Old
  <2>1. \/ work' = [work EXCEPT ![w] = [work[w] EXCEPT !.next = work[w].next + 1]]
        \/ work' = [work EXCEPT ![w] = [work[w] EXCEPT !.at = "report", !.next = 0]]
    BY <1>0, <1>3, Zenon DEF RenameBucket
  <2>2. work[w] \in Work
    BY <1>0, Zenon
  <2> QED
    BY <1>0, <1>3, <2>1, <2>2, Zenon DEF RenameBucket, time, coordinator, Work
<1>4. ASSUME NEW w \in Worker, ReadBucket(w) PROVE Old
  <2>1. \/ work' = [work EXCEPT ![w] = [work[w] EXCEPT !.next = work[w].next + 1]]
        \/ work' = [work EXCEPT ![w] = [work[w] EXCEPT !.at = "create", !.next = 0]]
        \/ work' = [work EXCEPT ![w] = Exited]
    BY <1>0, <1>4, Zenon DEF ReadBucket
  <2>2. work[w] \in Work
    BY <1>0
  <2> QED
    BY <1>0, <1>4, <2>1, <2>2 DEF ReadBucket, time, coordinator, Work, Exited
<1>5. ASSUME NEW w \in Worker, CreateOutput(w) \/ RenameOutput(w) PROVE Old
  BY <1>0, <1>5 DEF CreateOutput, RenameOutput, time, coordinator, Work
<1>6. CASE CoordinatorExit \/ \E n \in 1 .. clock : TimePasses(n)
  BY <1>6, Zenon DEF CoordinatorExit, TimePasses, time, coordinator
<1>7. CASE UNCHANGED vars
  BY <1>7, Zenon DEF vars
<1>8. ASSUME NEW w \in Worker, AssignMission(w)
      PROVE  \/ \E t \in Phase : Assign(w, t) /\ work[w].at = "ask" /\ UNCHANGED out
             \/ Old
  BY <1>8, Zenon DEF AssignMission, Waiting
<1> QED
  BY <1>1, <1>2, <1>3, <1>4, <1>5, <1>6, <1>7, <1>8, Zenon DEF Next, Step

\* Every step keeps AttemptInv.
LEMMA NextAttempt == PhaseInv /\ AttemptInv /\ [Next]_vars => AttemptInv'
<1> SUFFICES ASSUME PhaseInv, AttemptInv, [Next]_vars PROVE AttemptInv'
  BY Zenon
<1>0. TypeOK' /\ clock \in Nat /\ NoTask \notin Task
  BY NextPhase, TaskPairs, Zenon DEF PhaseInv, TypeOK
<1>1. ASSUME NEW w \in Worker, NEW t \in Phase, Assign(w, t) PROVE AttemptInv'
  <2>1. t \in Task /\ clock' = clock + 1
    BY <1>1, TaskPairs, Zenon DEF Assign
  <2>2. \A s \in Task : stamp'[s] = IF s = t THEN clock + 1 ELSE stamp[s]
    BY <1>1, <2>1, Zenon DEF Assign, PhaseInv, TypeOK, Timestamp
  <2>3. /\ work'[w].task = t /\ work'[w].stamp = clock + 1
        /\ \A v \in Worker : v # w => work'[v] = work[v]
    BY <1>1, Zenon DEF Assign, PhaseInv, TypeOK, Timestamp
  <2>4. \A v \in Worker : work[v].stamp \in Nat /\ work[v].stamp <= clock
    BY Zenon DEF AttemptInv, StampsArePast, TypeOK, Work
  <2>5. \A s \in Task : stamp[s] \in Nat /\ stamp[s] <= clock
    BY Zenon DEF AttemptInv, StampsArePast, TypeOK
  <2>6. StampsArePast'
    BY <1>0, <2>1, <2>2, <2>3, <2>4, <2>5 DEF StampsArePast
  <2>7. OneCurrentAttempt'
    BY <1>0, <2>3, <2>4 DEF AttemptInv, OneCurrentAttempt
  <2> QED
    BY <1>0, <2>6, <2>7, Zenon DEF AttemptInv
<1>2. ASSUME UNCHANGED <<stamp, clock>>,
             \A w \in Worker :
                 \/ work'[w].task = work[w].task /\ work'[w].stamp = work[w].stamp
                 \/ work'[w].task = NoTask /\ work'[w].stamp = 0
      PROVE  AttemptInv'
  <2>1. StampsArePast'
    BY <1>0, <1>2 DEF AttemptInv, StampsArePast
  <2>2. OneCurrentAttempt'
    BY <1>2 DEF AttemptInv, OneCurrentAttempt
  <2> QED
    BY <1>0, <2>1, <2>2, Zenon DEF AttemptInv
<1> QED
  BY <1>1, <1>2, OldWork, Zenon

\* However often a task is given out again, no two of its attempts carry the same
\* timestamp, so HandleMapFinish and HandleReduceFinish accept one of them at most.
THEOREM AttemptsDiffer == Spec => []OneCurrentAttempt
<1>1. Init => AttemptInv
  <2>1. Init => TypeOK
    BY InitPhase, Zenon DEF PhaseInv
  <2> QED
    BY <2>1 DEF Init, AttemptInv, StampsArePast, OneCurrentAttempt, Asking
<1>2. AttemptInv => OneCurrentAttempt
  BY Zenon DEF AttemptInv
<1> QED
  BY <1>1, <1>2, NextAttempt, PhaseInvariant, PTL DEF Spec

\* What replacing the work of one worker does to all of them.
LEMMA WorkExcept ==
    ASSUME TypeOK, NEW w \in Worker, NEW job, work' = [work EXCEPT ![w] = job]
    PROVE  work'[w] = job /\ \A v \in Worker : v # w => work'[v] = work[v]
BY Zenon DEF TypeOK

\* A worker that holds a reduce task reports it only from the step after RenameOutput.
LEMMA NextFirst == PhaseInv /\ FirstAttempt /\ [Next]_vars => FirstAttempt'
<1> SUFFICES ASSUME PhaseInv, FirstAttempt, [Next]_vars, NEW r \in ReduceIndex
             PROVE  FirstAttemptAt(<<"reduce", r>>)'
  BY Zenon DEF FirstAttempt
<1> DEFINE t == <<"reduce", r>>
           Goal == FirstAttemptAt(t)'
<1>0. /\ t \in Task /\ t # NoTask /\ t[1] = "reduce" /\ given[t] \in Nat
      /\ mission \in [Task -> {"Ready", "Running", "Done"}]
      /\ work \in [Worker -> Work] /\ out \in [ReduceIndex -> {"absent", "empty", "complete"}]
      /\ given \in [Task -> Nat]
  BY TaskPairs, Zenon DEF PhaseInv, TypeOK
<1>1. FirstAttemptAt(t) /\ t[2] = r
  BY Zenon DEF FirstAttempt
<1>2. \A w \in Worker, u \in Task : work[w].task = u /\ u[1] = "reduce" /\ u[2] = r => u = t
  BY TaskPairs, Zenon
<1>3. \A u \in Task : u = t => u[2] = r
  OBVIOUS
<1> HIDE DEF t
<1>4. ASSUME NEW w \in Worker, NEW u \in Phase, Assign(w, u), UNCHANGED out PROVE Goal
  <2>1. u \in Task
    BY TaskPairs, Zenon
  <2>2. /\ \A s \in Task : mission'[s] = IF s = u THEN "Running" ELSE mission[s]
        /\ \A s \in Task : given'[s] = IF s = u THEN given[u] + 1 ELSE given[s]
    BY <1>0, <1>4, <2>1, Zenon DEF Assign
  <2>3. /\ work'[w].task = u /\ (u[1] = "reduce" => work'[w].at # "report")
        /\ \A v \in Worker : v # w => work'[v] = work[v]
    BY <1>0, <1>4, Zenon DEF Assign
  <2>4. CASE u = t
    BY <1>0, <1>1, <2>2, <2>3, <2>4 DEF FirstAttemptAt
  <2>5. CASE u # t
    BY <1>0, <1>1, <1>4, <2>2, <2>3, <2>5 DEF FirstAttemptAt
  <2> QED
    BY <2>4, <2>5, Zenon
<1>5. ASSUME UNCHANGED <<mission, given, out>>,
             \A w \in Worker : work'[w].task = work[w].task \/ work'[w].task = NoTask,
             \A w \in Worker : work'[w].at = "report" /\ work'[w].task = t =>
                 work[w].at = "report"
      PROVE  Goal
  BY <1>0, <1>1, <1>5 DEF FirstAttemptAt
<1>6. ASSUME NEW w \in Worker, HandleFinish(w) PROVE Goal
  <2>1. \A v \in Worker : work'[v] = IF v = w THEN Asking ELSE work[v]
    BY <1>0, <1>6, Zenon DEF HandleFinish
  <2>2. /\ UNCHANGED <<given, out>> /\ work[w].at = "report" /\ work[w].task \in Task
        /\ Asking.task = NoTask
        /\ mission' = mission \/ mission' = [mission EXCEPT ![work[w].task] = "Done"]
    BY <1>6, Zenon DEF HandleFinish, PhaseInv, TypeOK, WorkFitsTask, Work, Asking
  <2>3. CASE work[w].task = t
    BY <1>0, <1>1, <2>1, <2>2, <2>3 DEF FirstAttemptAt
  <2>4. CASE work[w].task # t
    <3>1. mission'[t] = mission[t]
      BY <1>0, <2>2, <2>4, Zenon
    <3> QED
      BY <1>0, <1>1, <2>1, <2>2, <2>4, <3>1 DEF FirstAttemptAt
  <2> QED
    BY <2>3, <2>4, Zenon
<1>7. ASSUME NEW w \in Worker, CreateOutput(w) \/ RenameOutput(w) PROVE Goal
  <2>0. work[w].task \in Task /\ work[w].task[1] = "reduce" /\ work[w].task[2] \in ReduceIndex
    <3>1. work[w].task # NoTask /\ work[w].task[1] = "reduce"
      BY <1>7, Zenon DEF CreateOutput, RenameOutput, PhaseInv, WorkFitsTask
    <3>2. work[w].task \in Task
      BY <1>0, <3>1, Zenon DEF Work
    <3> QED
      BY <3>1, <3>2, TaskPairs, Zenon
  <2>1. /\ UNCHANGED <<mission, given>>
        /\ \A v \in Worker : v # w => work'[v] = work[v]
        /\ work'[w].task = work[w].task
    BY <1>0, <1>7 DEF CreateOutput, RenameOutput, coordinator, Work
  <2>2. CASE work[w].task # t
    <3>1. out'[r] = out[r]
      BY <1>0, <1>2, <1>7, <2>0, <2>2, Zenon DEF CreateOutput, RenameOutput
    <3> QED
      BY <1>1, <2>1, <2>2, <3>1 DEF FirstAttemptAt
  <2>3. CASE work[w].task = t /\ CreateOutput(w)
    <3>1. work'[w].at = "output"
      BY <1>0, <2>3, Zenon DEF CreateOutput, Work
    <3> QED
      BY <1>1, <2>1, <2>3, <3>1, Zenon DEF FirstAttemptAt
  <2>4. CASE work[w].task = t /\ RenameOutput(w)
    <3>1. out'[r] = "complete"
      BY <1>0, <1>3, <2>0, <2>4, Zenon DEF RenameOutput
    <3> QED
      BY <1>1, <2>1, <2>4, <3>1, Zenon DEF FirstAttemptAt
  <2> QED
    BY <1>7, <2>2, <2>3, <2>4, Zenon
<1> HIDE DEF Goal
<1>8. ASSUME NEW w \in Worker, CallFails(w) \/ Crash(w) PROVE Goal
  BY <1>0, <1>5, <1>8 DEF CallFails, Crash, Exited, coordinator
<1>9. ASSUME NEW w \in Worker, RenameBucket(w) PROVE Goal
  <2>1. \/ work' = [work EXCEPT ![w] = [work[w] EXCEPT !.next = work[w].next + 1]]
        \/ work' = [work EXCEPT ![w] = [work[w] EXCEPT !.at = "report", !.next = 0]]
    BY <1>0, <1>9, Zenon DEF RenameBucket
  <2>2. work[w] \in Work /\ work[w].at = "rename" /\ work[w].task # t
    BY <1>0, <1>9, Zenon DEF RenameBucket, PhaseInv, WorkFitsTask
  <2>3. /\ \A v \in Worker : v # w => work'[v] = work[v]
        /\ work'[w].task = work[w].task
    <3>1. \A job : work' = [work EXCEPT ![w] = job] =>
             work'[w] = job /\ \A v \in Worker : v # w => work'[v] = work[v]
      BY WorkExcept, Zenon DEF PhaseInv
    <3>2. /\ [work[w] EXCEPT !.next = work[w].next + 1].task = work[w].task
          /\ [work[w] EXCEPT !.at = "report", !.next = 0].task = work[w].task
      BY <2>2, Zenon DEF Work
    <3> QED
      BY <2>1, <3>1, <3>2, Zenon
  <2> QED
    BY <1>5, <1>9, <2>2, <2>3, Zenon DEF RenameBucket, coordinator
<1>10. ASSUME NEW w \in Worker, ReadBucket(w) PROVE Goal
  <2>1. \/ work' = [work EXCEPT ![w] = [work[w] EXCEPT !.next = work[w].next + 1]]
        \/ work' = [work EXCEPT ![w] = [work[w] EXCEPT !.at = "create", !.next = 0]]
        \/ work' = [work EXCEPT ![w] = Exited]
    BY <1>0, <1>10, Zenon DEF ReadBucket
  <2>2. work[w] \in Work /\ work[w].at = "read"
    BY <1>0, <1>10, Zenon DEF ReadBucket
  <2>3. /\ \A v \in Worker : v # w => work'[v] = work[v]
        /\ work'[w].task = work[w].task \/ work'[w].task = NoTask
        /\ work'[w].at # "report"
    <3>1. \A job : work' = [work EXCEPT ![w] = job] =>
             work'[w] = job /\ \A v \in Worker : v # w => work'[v] = work[v]
      BY WorkExcept, Zenon DEF PhaseInv
    <3>2. /\ [work[w] EXCEPT !.next = work[w].next + 1].task = work[w].task
          /\ [work[w] EXCEPT !.next = work[w].next + 1].at = "read"
          /\ [work[w] EXCEPT !.at = "create", !.next = 0].task = work[w].task
          /\ [work[w] EXCEPT !.at = "create", !.next = 0].at = "create"
          /\ Exited.task = NoTask /\ Exited.at = "exited"
      BY <2>2, Zenon DEF Work, Exited
    <3> QED
      BY <2>1, <3>1, <3>2, Zenon
  <2> QED
    BY <1>5, <1>10, <2>3, Zenon DEF ReadBucket, coordinator
<1>11. ASSUME CoordinatorExit \/ (\E n \in 1 .. clock : TimePasses(n)) \/ UNCHANGED vars
       PROVE  Goal
  <2>1. UNCHANGED <<mission, given, out, work>>
    BY <1>11, Zenon DEF CoordinatorExit, TimePasses, coordinator, vars
  <2> QED
    BY <1>5, <2>1, Zenon
<1>12. ASSUME NEW w \in Worker, AssignMission(w) PROVE Goal
  <2>1. CASE Waiting
    BY <1>5, <1>12, <2>1, Zenon DEF AssignMission, Waiting
  <2> QED
    BY <1>4, <1>12, <2>1, Zenon DEF AssignMission
<1>13. Goal
  <2>1. CASE UNCHANGED vars
    BY <1>11, <2>1, Zenon
  <2>2. CASE Next
    BY <2>2, <1>6, <1>7, <1>8, <1>9, <1>10, <1>11, <1>12, Zenon DEF Next, Step
  <2> QED
    BY <2>1, <2>2, Zenon
<1> QED
  BY <1>13, Zenon DEF Goal, t

\* A reduce task that was given out once and is Done has its complete output in
\* mr-out-r: os.Create's truncation is harmless as long as nobody was late.
THEOREM SingleAttemptOutput == Spec => []OutputOfSingleAttempt
<1>1. Init => FirstAttempt
  <2> SUFFICES ASSUME Init, NEW r \in ReduceIndex
               PROVE  /\ given[<<"reduce", r>>] = 0 /\ mission[<<"reduce", r>>] = "Ready"
                      /\ \A w \in Worker : work[w].task # <<"reduce", r>>
    BY Zenon DEF FirstAttempt, FirstAttemptAt
  <2>1. <<"reduce", r>> \in Task /\ <<"reduce", r>> # NoTask
    BY TaskPairs, Zenon
  <2> QED
    BY <2>1, Zenon DEF Init, Asking
<1>2. FirstAttempt => OutputOfSingleAttempt
  BY Zenon DEF FirstAttempt, FirstAttemptAt, OutputOfSingleAttempt
<1> QED
  BY <1>1, <1>2, NextFirst, PhaseInvariant, PTL DEF Spec

=============================================================================
