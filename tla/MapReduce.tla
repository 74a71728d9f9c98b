----------------------------- MODULE MapReduce -----------------------------
(***************************************************************************)
(* The coordinator (mr/coordinator.go), its workers (mr/worker.go) and the *)
(* files they share.  A step is one RPC handler, which runs under the      *)
(* coordinator's mutex, or one file-system call of a worker.               *)
(*                                                                         *)
(* The coordinator knows a worker only by the time at which it gave out a  *)
(* task: a task that has been Running for more than 40 seconds is given to *)
(* the next worker that asks, with a new timestamp, and a report counts    *)
(* only if it carries the task's present timestamp.                        *)
(*                                                                         *)
(* Time is the number of assignments made so far: time.Now() differs from  *)
(* one assignment of a task to the next.  Every assignment up to overdue   *)
(* is more than 40 seconds old.                                            *)
(***************************************************************************)
EXTENDS Naturals, FiniteSets

CONSTANTS
    M,           \* number of input files, hence of map tasks
    R,           \* nReduce
    Worker,
    MaxCrashes,  \* bound: workers that crash
    MaxLate      \* bound: tasks that become overdue while their worker is alive

ASSUME TasksAssumption == M \in Nat /\ R \in Nat \ {0}
ASSUME WorkerAssumption == IsFiniteSet(Worker)
ASSUME BoundsAssumption == MaxCrashes \in Nat /\ MaxLate \in Nat

MapIndex == 0 .. M - 1
ReduceIndex == 0 .. R - 1
Task == ({"map"} \X MapIndex) \cup ({"reduce"} \X ReduceIndex)
NoTask == <<"none", 0>>

VARIABLES
    mission,           \* Missionstate of every task
    stamp,             \* Timestamp of every task, 0 for the zero time
    maptaskfinish,
    reducetaskfinish,
    up,                \* the coordinator process has not exited
    clock, overdue,    \* time, see above
    work,              \* what every worker does
    files,             \* <<m, r>> for every file mr-m-r that exists
    out,               \* the output files mr-out-r
    crashes, late,     \* for the bounds
    given              \* history: how often each task was assigned

coordinator == <<mission, stamp, maptaskfinish, reducetaskfinish>>
time == <<clock, overdue>>
bounds == <<crashes, late>>
vars == <<mission, stamp, maptaskfinish, reducetaskfinish, up, clock, overdue, work,
          files, out, crashes, late, given>>

\* "ask": about to call AssignMission (or asleep before that);
\* "rename": next is the intermediate file a map worker renames;
\* "read": next is the intermediate file a reduce worker opens;
\* "create", "output": before os.Create and before os.Rename of mr-out-r;
\* "report": about to call HandleMapFinish or HandleReduceFinish;
\* "exited": crashed, or ended by log.Fatal.
Work == [at : {"ask", "rename", "read", "create", "output", "report", "exited"},
         task : Task \cup {NoTask}, stamp : Nat, next : Nat]

Asking == [at |-> "ask", task |-> NoTask, stamp |-> 0, next |-> 0]
Exited == [at |-> "exited", task |-> NoTask, stamp |-> 0, next |-> 0]

TypeOK ==
    /\ mission \in [Task -> {"Ready", "Running", "Done"}]
    /\ stamp \in [Task -> Nat]
    /\ maptaskfinish \in BOOLEAN
    /\ reducetaskfinish \in BOOLEAN
    /\ up \in BOOLEAN
    /\ clock \in Nat /\ overdue \in Nat
    /\ work \in [Worker -> Work]
    /\ files \subseteq MapIndex \X ReduceIndex
    /\ out \in [ReduceIndex -> {"absent", "empty", "complete"}]
    /\ crashes \in Nat /\ late \in Nat
    /\ given \in [Task -> Nat]

\* MakeCoordinator
Init ==
    /\ mission = [t \in Task |-> "Ready"]
    /\ stamp = [t \in Task |-> 0]
    /\ maptaskfinish = FALSE
    /\ reducetaskfinish = FALSE
    /\ up = TRUE
    /\ clock = 0 /\ overdue = 0
    /\ work = [w \in Worker |-> Asking]
    /\ files = {}
    /\ out = [r \in ReduceIndex |-> "absent"]
    /\ crashes = 0 /\ late = 0
    /\ given = [t \in Task |-> 0]

-----------------------------------------------------------------------------
(* RPCs: the handler and the worker's part *)

\* The tasks AssignMission looks at.
Phase == IF maptaskfinish THEN {"reduce"} \X ReduceIndex ELSE {"map"} \X MapIndex

\* Mutant: a task that is Running is never given out again.
AssignableOnce(t) == mission[t] = "Ready"

\* Mutant: the age is tested without the state.
AssignableByAge(t) == mission[t] = "Ready" \/ stamp[t] <= overdue

\* Ready, or Running for more than 40 seconds.
Assignable(t) ==
    \/ mission[t] = "Ready"
    \/ mission[t] = "Running" /\ stamp[t] <= overdue

\* Mutant: a task that is given out again keeps its timestamp.
FirstTimestamp(t) == IF mission[t] = "Running" THEN stamp[t] ELSE clock + 1

\* time.Now() in the assignment of t.
Timestamp(t) == clock + 1

\* The scan stops at the first task that can be assigned.
Assign(w, t) ==
    /\ Assignable(t)
    /\ \A s \in Phase : Assignable(s) => t[2] <= s[2]
    /\ clock' = clock + 1
    /\ stamp' = [stamp EXCEPT ![t] = Timestamp(t)]
    /\ mission' = [mission EXCEPT ![t] = "Running"]
    /\ given' = [given EXCEPT ![t] = @ + 1]
    /\ work' = [work EXCEPT ![w] =
           [at |-> IF t[1] = "map" THEN "rename" ELSE IF M = 0 THEN "create" ELSE "read",
            task |-> t, stamp |-> Timestamp(t), next |-> 0]]
    /\ IF maptaskfinish
       THEN reducetaskfinish' = FALSE /\ UNCHANGED maptaskfinish
       ELSE maptaskfinish' = FALSE /\ UNCHANGED reducetaskfinish

\* Mutant: Running tasks are overlooked.
PhaseOverEarly == TRUE

\* tmpCheckAllFinish after the scan.
PhaseOver == \A t \in Phase : mission[t] # "Running"

\* The scan finds nothing to assign: the phase is over if nothing is Running.  The
\* worker is told to wait and asks again.
Waiting ==
    /\ \A t \in Phase : ~Assignable(t)
    /\ IF maptaskfinish
       THEN reducetaskfinish' = PhaseOver /\ UNCHANGED maptaskfinish
       ELSE maptaskfinish' = PhaseOver /\ UNCHANGED reducetaskfinish
    /\ UNCHANGED <<mission, stamp, clock, work, given>>

AssignMission(w) ==
    /\ work[w].at = "ask"
    /\ up
    /\ (\E t \in Phase : Assign(w, t)) \/ Waiting
    /\ UNCHANGED <<up, overdue, files, out, bounds>>

\* HandleMapFinish and HandleReduceFinish
HandleFinish(w) ==
    /\ work[w].at = "report"
    /\ up
    /\ mission' = IF work[w].stamp = stamp[work[w].task]
                  THEN [mission EXCEPT ![work[w].task] = "Done"]
                  ELSE mission
    /\ work' = [work EXCEPT ![w] = Asking]
    /\ UNCHANGED <<stamp, maptaskfinish, reducetaskfinish, up, time, files, out, bounds, given>>

\* call() cannot dial the coordinator any more: log.Fatal.
CallFails(w) ==
    /\ work[w].at \in {"ask", "report"}
    /\ ~up
    /\ work' = [work EXCEPT ![w] = Exited]
    /\ UNCHANGED <<coordinator, up, time, files, out, bounds, given>>

-----------------------------------------------------------------------------
(* HandleMap: the map function has run and its output is in temporary files *)

\* Mutant: one file too many.
LastBucketOffByOne(r) == r >= R

LastBucket(r) == r + 1 >= R

RenameBucket(w) ==
    /\ work[w].at = "rename"
    /\ files' = files \cup {<<work[w].task[2], work[w].next>>}
    /\ work' = IF LastBucket(work[w].next)
               THEN [work EXCEPT ![w].at = "report", ![w].next = 0]
               ELSE [work EXCEPT ![w].next = @ + 1]
    /\ UNCHANGED <<coordinator, up, time, out, bounds, given>>

-----------------------------------------------------------------------------
(* HandleReduce *)

\* os.Open of the next mr-m-r; a missing file ends the worker.
ReadBucket(w) ==
    /\ work[w].at = "read"
    /\ IF <<work[w].next, work[w].task[2]>> \in files
       THEN work' = IF work[w].next + 1 < M
                    THEN [work EXCEPT ![w].next = @ + 1]
                    ELSE [work EXCEPT ![w].at = "create", ![w].next = 0]
       ELSE work' = [work EXCEPT ![w] = Exited]
    /\ UNCHANGED <<coordinator, up, time, files, out, bounds, given>>

\* Mutant: the task is reported before its output is renamed into place.
ReportBeforeRename(w) ==
    /\ work[w].at = "create"
    /\ out' = [out EXCEPT ![work[w].task[2]] = "empty"]
    /\ work' = [work EXCEPT ![w].at = "report"]
    /\ UNCHANGED <<coordinator, up, time, files, bounds, given>>

\* os.Create truncates mr-out-r if it exists.
CreateOutput(w) ==
    /\ work[w].at = "create"
    /\ out' = [out EXCEPT ![work[w].task[2]] = "empty"]
    /\ work' = [work EXCEPT ![w].at = "output"]
    /\ UNCHANGED <<coordinator, up, time, files, bounds, given>>

\* The temporary file, completely written, is renamed to mr-out-r.
RenameOutput(w) ==
    /\ work[w].at = "output"
    /\ out' = [out EXCEPT ![work[w].task[2]] = "complete"]
    /\ work' = [work EXCEPT ![w].at = "report"]
    /\ UNCHANGED <<coordinator, up, time, files, bounds, given>>

-----------------------------------------------------------------------------
(* Processes and time *)

\* A worker is killed, or a map or reduce function exits (mrapps/crash.go).
Crash(w) ==
    /\ work[w].at # "exited"
    /\ crashes < MaxCrashes
    /\ crashes' = crashes + 1
    /\ work' = [work EXCEPT ![w] = Exited]
    /\ UNCHANGED <<coordinator, up, time, files, out, late, given>>

\* main/mrcoordinator.go: Done() is polled, then the process exits.
CoordinatorExit ==
    /\ up
    /\ maptaskfinish /\ reducetaskfinish
    /\ up' = FALSE
    /\ UNCHANGED <<coordinator, time, work, files, out, bounds, given>>

\* Live workers whose task becomes overdue when time passes up to n.
Overtaken(n) ==
    {w \in Worker : /\ work[w].task \in Task
                    /\ work[w].stamp = stamp[work[w].task]
                    /\ overdue < work[w].stamp /\ work[w].stamp <= n}

\* 40 seconds go by for the assignments up to n.
TimePasses(n) ==
    /\ overdue < n
    /\ late + Cardinality(Overtaken(n)) <= MaxLate
    /\ overdue' = n
    /\ late' = late + Cardinality(Overtaken(n))
    /\ UNCHANGED <<coordinator, up, clock, work, files, out, crashes, given>>

Step(w) ==
    \/ AssignMission(w) \/ HandleFinish(w) \/ CallFails(w)
    \/ RenameBucket(w) \/ ReadBucket(w) \/ CreateOutput(w) \/ RenameOutput(w)

Next ==
    \/ \E w \in Worker : Step(w)
    \/ \E w \in Worker : Crash(w)
    \/ CoordinatorExit
    \/ \E n \in 1 .. clock : TimePasses(n)

Spec == Init /\ [][Next]_vars

\* Workers that have not crashed run, mrcoordinator polls, and time passes.
Fairness ==
    /\ \A w \in Worker : WF_vars(Step(w))
    /\ WF_vars(CoordinatorExit)
    /\ WF_vars(\E n \in 1 .. clock : TimePasses(n))

FairSpec == Spec /\ Fairness

-----------------------------------------------------------------------------
(* Safety *)

\* A reduce worker never meets a missing intermediate file: reduce tasks are given
\* out only after every map task has left all its files.
ReduceInputExists ==
    \A w \in Worker : work[w].at = "read" =>
        <<work[w].next, work[w].task[2]>> \in files

\* No two workers hold the same task with the same timestamp, so at most one of the
\* attempts at a task can be reported successfully.
OneCurrentAttempt ==
    \A v, w \in Worker :
        v # w /\ work[v].task = work[w].task /\ work[v].task # NoTask =>
            work[v].stamp # work[w].stamp

\* When Done() is true every task is Done.
FinishedMeansDone ==
    maptaskfinish /\ reducetaskfinish => \A t \in Task : mission[t] = "Done"

\* The output of a reduce task that is Done is complete if it was assigned once.
OutputOfSingleAttempt ==
    \A r \in ReduceIndex :
        mission[<<"reduce", r>>] = "Done" /\ given[<<"reduce", r>>] = 1 =>
            out[r] = "complete"

\* A task that is Done stays Done, and Done() stays true.
DoneIsFinal ==
    [][/\ \A t \in Task : mission[t] = "Done" => mission'[t] = "Done"
       /\ maptaskfinish => maptaskfinish'
       /\ reducetaskfinish => reducetaskfinish']_vars

-----------------------------------------------------------------------------
(* The inductive invariant behind the safety properties *)

\* Timestamps are of the past.
StampsArePast ==
    /\ \A t \in Task : stamp[t] <= clock
    /\ \A w \in Worker : work[w].stamp <= clock

\* What a worker does fits the task it holds; a map worker has left the files it has
\* gone past.
WorkFitsTask ==
    \A w \in Worker : LET k == work[w] IN
        /\ k.at \in {"ask", "exited"} <=> k.task = NoTask
        /\ k.at = "rename" => /\ k.task[1] = "map" /\ k.next \in ReduceIndex
                              /\ \A r \in ReduceIndex : r < k.next => <<k.task[2], r>> \in files
        /\ k.at = "read" => k.task[1] = "reduce" /\ k.next \in MapIndex
        /\ k.at \in {"create", "output"} => k.task[1] = "reduce"
        /\ k.at = "report" /\ k.task[1] = "map" =>
               \A r \in ReduceIndex : <<k.task[2], r>> \in files

\* Reduce work exists only after the map phase, whose tasks are then Done with all
\* their files.
PhasesInOrder ==
    /\ \A m \in MapIndex : mission[<<"map", m>>] = "Done" =>
           \A r \in ReduceIndex : <<m, r>> \in files
    /\ maptaskfinish => \A m \in MapIndex : mission[<<"map", m>>] = "Done"
    /\ reducetaskfinish => /\ maptaskfinish
                           /\ \A r \in ReduceIndex : mission[<<"reduce", r>>] = "Done"
    /\ \A w \in Worker : work[w].task \in Task /\ work[w].task[1] = "reduce" => maptaskfinish

\* A reduce task given out once has one worker, and none after it is Done.
FirstAttemptAt(t) ==
    /\ given[t] = 0 => mission[t] = "Ready" /\ \A w \in Worker : work[w].task # t
    /\ given[t] = 1 =>
           /\ \A v, w \in Worker : work[v].task = t /\ work[w].task = t => v = w
           /\ \A w \in Worker : work[w].task = t /\ work[w].at = "report" =>
                  out[t[2]] = "complete"
           /\ mission[t] = "Done" =>
                  out[t[2]] = "complete" /\ \A w \in Worker : work[w].task # t

FirstAttempt == \A r \in ReduceIndex : FirstAttemptAt(<<"reduce", r>>)

PhaseInv == TypeOK /\ WorkFitsTask /\ PhasesInOrder
AttemptInv == TypeOK /\ StampsArePast /\ OneCurrentAttempt

-----------------------------------------------------------------------------
(* Liveness *)

\* If one worker survives, the job is finished, the coordinator exits, and then the
\* workers exit.
JobCompletes == <>(~up) /\ <>[](\A w \in Worker : work[w].at = "exited")

-----------------------------------------------------------------------------
(* What a comment says and the code does not do *)

\* When the coordinator and all workers are gone the output of every reduce task is
\* complete: a crash never leaves a partly written output behind.
FinalOutputComplete ==
    ~up /\ (\A w \in Worker : work[w].at = "exited") =>
        \A r \in ReduceIndex : out[r] = "complete"

=============================================================================
