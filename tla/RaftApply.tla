----------------------------- MODULE RaftApply ------------------------------
(***************************************************************************)
(* raft/config.go: the part of the Raft harness that watches what servers  *)
(* apply.  One applier goroutine per incarnation of a server records every *)
(* ApplyMsg in cfg.logs and stops the test when servers disagree; one()    *)
(* and nCommitted() read cfg.logs meanwhile.  The Raft under test is       *)
(* external: a faulty one applies anything, a correct one applies a single *)
(* log in order.  raft/raft.go applies nothing yet (Start is a stub).      *)
(***************************************************************************)
EXTENDS Integers, FiniteSets

CONSTANTS
    N,                  \* cfg.n
    Cmd,                \* commands
    MaxIndex,           \* log indices are 1..MaxIndex
    MaxStarts,          \* incarnations of a server, at most
    Restarting,         \* the servers that crash
    Expected,           \* how many servers one() may wait for
    SnapShotInterval,
    absent,             \* no entry in a map
    null                \* the nil command that index 0 of a snapshot holds

ASSUME ParameterAssumption ==
    /\ N \in Nat \ {0} /\ MaxIndex \in Nat \ {0} /\ MaxStarts \in Nat \ {0}
    /\ SnapShotInterval \in Nat \ {0}
    /\ Restarting \subseteq 0..(N - 1) /\ Expected \subseteq 1..N
    /\ absent \notin Cmd /\ null \notin Cmd /\ absent # null

Server == 0..(N - 1)
Index == 1..MaxIndex
Incarnation == Server \X (1..MaxStarts)
Log == [0..MaxIndex -> Cmd \union {absent, null}]
Snapshot == [index : Index, log : Log]

VARIABLES
    faulty,        \* the Raft under test may apply anything
    snapshot,      \* the argument of make_config: applierSnap instead of applier
    truth,         \* the log a correct Raft has agreed on
    logs,          \* cfg.logs
    lastApplied,   \* cfg.lastApplied
    started,       \* incarnations so far
    running,       \* the servers whose cfg.rafts is not nil
    upTo,          \* the index up to which a correct Raft has handed over its log
    applier,       \* what the applier of an incarnation is about to do
    hand,          \* the message it has received
    disk,          \* the snapshot in cfg.saved[i], if any
    failed,        \* an error was found; log.Fatalf or t.Fatal follows
    applied,       \* history: who applied what, where
    overtaken,     \* history: who was started while an old applier still had work to do
    one            \* the test's goroutine, in one()

harness == <<logs, lastApplied, started, running, upTo, applier, hand, disk, applied, overtaken>>
vars == <<faulty, snapshot, truth, harness, failed, one>>

NoMsg == [kind |-> "none"]
CommandMsg == [kind : {"command"}, index : Index, cmd : Cmd]
SnapshotMsg == [kind : {"snapshot"}, snap : Snapshot]
NoSnap == [index |-> 0]

NotAsking == [at |-> "idle"]
Asking == [at : {"polling"}, cmd : Cmd, expected : 1..N, index : Index,
           server : 0..N, count : 0..N, seen : Cmd \union {null}]
Agreed == [at : {"returned"}, cmd : Cmd, expected : 1..N, index : Index]
GaveUp == [at |-> "gaveUp"]

\* Types; nCommitted has counted no more servers than it has asked.
TypeOK ==
    /\ faulty \in BOOLEAN /\ snapshot \in BOOLEAN /\ failed \in BOOLEAN
    /\ truth \in [Index -> Cmd]
    /\ logs \in [Server -> Log]
    /\ lastApplied \in [Server -> 0..MaxIndex]
    /\ started \in [Server -> 0..MaxStarts]
    /\ running \subseteq Server
    /\ upTo \in [Incarnation -> 0..MaxIndex]
    /\ applier \in [Incarnation -> {"ready", "received", "inOrder", "checked", "noted"}]
    /\ hand \in [Incarnation -> {NoMsg} \union CommandMsg \union SnapshotMsg]
    /\ disk \in [Server -> {NoSnap} \union Snapshot]
    /\ applied \subseteq Server \X Index \X Cmd
    /\ overtaken \subseteq Server
    /\ one \in {NotAsking, GaveUp} \union Asking \union Agreed
    /\ one.at = "polling" => one.count <= one.server

EmptyLog == [k \in 0..MaxIndex |-> absent]

\* With snapshots a faulty Raft can escape notice: ingestSnap forgets what was applied
\* beyond the snapshot.  Nothing is claimed of that case.
Init ==
    /\ faulty \in BOOLEAN
    /\ snapshot \in BOOLEAN
    /\ ~(faulty /\ snapshot)
    /\ truth \in [Index -> Cmd]
    /\ faulty => \A k \in Index : truth[k] = truth[1]
    /\ logs = [i \in Server |-> EmptyLog]
    /\ lastApplied = [i \in Server |-> 0]
    /\ started = [i \in Server |-> 0]
    /\ running = {}
    /\ upTo = [x \in Incarnation |-> 0]
    /\ applier = [x \in Incarnation |-> "ready"]
    /\ hand = [x \in Incarnation |-> NoMsg]
    /\ disk = [i \in Server |-> NoSnap]
    /\ failed = FALSE
    /\ applied = {}
    /\ overtaken = {}
    /\ one = NotAsking

-----------------------------------------------------------------------------
(* Starting and crashing *)

\* What ingestSnap leaves of a log: the snapshot and nothing else.
Restored(snap) == [k \in 0..MaxIndex |-> IF k <= snap.index THEN snap.log[k] ELSE absent]

\* No applier of i is at work.
Quiet(i) == \A g \in 1..started[i] : applier[<<i, g>>] = "ready"

\* Mutant: lastApplied is not reset.
start1KeepingIndex(i) ==
    LET g == started[i] + 1
        snap == disk[i]
    IN  /\ i \notin running
        /\ g <= MaxStarts
        /\ started' = [started EXCEPT ![i] = g]
        /\ running' = running \union {i}
        /\ logs' = [logs EXCEPT ![i] = IF snap = NoSnap THEN @ ELSE Restored(snap)]
        /\ upTo' = [upTo EXCEPT ![<<i, g>>] = snap.index]
        /\ overtaken' = IF Quiet(i) THEN overtaken ELSE overtaken \union {i}
        /\ UNCHANGED <<faulty, snapshot, truth, lastApplied, applier, hand, disk, failed, applied, one>>

\* start1.  Appliers of earlier incarnations keep running and share logs and
\* lastApplied with the new one.
start1(i) ==
    LET g == started[i] + 1
        snap == disk[i]
    IN  /\ i \notin running
        /\ g <= MaxStarts
        /\ started' = [started EXCEPT ![i] = g]
        /\ running' = running \union {i}
        /\ logs' = [logs EXCEPT ![i] = IF snap = NoSnap THEN @ ELSE Restored(snap)]
        /\ lastApplied' = [lastApplied EXCEPT ![i] = snap.index]
        /\ upTo' = [upTo EXCEPT ![<<i, g>>] = snap.index]
        /\ overtaken' = IF Quiet(i) THEN overtaken ELSE overtaken \union {i}
        /\ UNCHANGED <<faulty, snapshot, truth, applier, hand, disk, failed, applied, one>>

\* crash1: kills the Raft; its applier goes on.
crash1(i) ==
    /\ i \in running \intersect Restarting
    /\ running' = running \ {i}
    /\ UNCHANGED <<faulty, snapshot, truth, logs, lastApplied, started, upTo, applier, hand, disk,
                   failed, applied, overtaken, one>>

Current(x) == x[1] \in running /\ x[2] = started[x[1]]

-----------------------------------------------------------------------------
(* The Raft under test: external *)

\* The Raft of server i saves a snapshot it gets from another; it passes it on later.
InstallSnapshot(i, j) ==
    /\ snapshot /\ i \in running
    /\ disk[j].index > upTo[<<i, started[i]>>] /\ disk[j].index > disk[i].index
    /\ disk' = [disk EXCEPT ![i] = disk[j]]
    /\ UNCHANGED <<faulty, snapshot, truth, logs, lastApplied, started, running, upTo, applier, hand,
                   failed, applied, overtaken, one>>

\* Without snapshots the applier ignores other messages, so they are left out.
Messages(x) ==
    IF faulty THEN CommandMsg
    ELSE {m \in CommandMsg : m.index = upTo[x] + 1 /\ m.cmd = truth[m.index]}
         \union {[kind |-> "snapshot", snap |-> s] :
                     s \in {d \in {disk[x[1]]} : snapshot /\ Current(x) /\ d.index > upTo[x]}}

\* The channel is not buffered: a message is handed over when the applier is ready.  A
\* Raft that was killed may still hand over until its goroutines see killed().
Deliver(x, m) ==
    /\ x[2] <= started[x[1]]
    /\ applier[x] = "ready"
    /\ applier' = [applier EXCEPT ![x] = "received"]
    /\ hand' = [hand EXCEPT ![x] = m]
    /\ upTo' = IF faulty THEN upTo
               ELSE [upTo EXCEPT ![x] = IF m.kind = "command" THEN m.index ELSE m.snap.index]
    /\ overtaken' = IF x[2] = started[x[1]] THEN overtaken ELSE overtaken \union {x[1]}
    /\ UNCHANGED <<faulty, snapshot, truth, logs, lastApplied, started, running, disk, failed,
                   applied, one>>

-----------------------------------------------------------------------------
(* applier *)

\* The applier is done with its message.
Release(x) ==
    /\ applier' = [applier EXCEPT ![x] = "ready"]
    /\ hand' = [hand EXCEPT ![x] = NoMsg]

\* Mutant: a server is compared with itself only.
conflictOwn(i, m) == logs[i][m.index] \notin {absent, m.cmd}

\* Some server has another value at this index.
conflict(i, m) == \E j \in Server : logs[j][m.index] \notin {absent, m.cmd}

\* Mutant: gaps are accepted.
gapIgnored(i, m) == FALSE

\* Not the first index, and the one before it is missing.
gap(i, m) == m.index > 1 /\ logs[i][m.index - 1] = absent

\* checkLogs, in one critical section, and the caller's test of its two results, made
\* after it.
checkLogs(i, m) ==
    /\ logs' = [logs EXCEPT ![i][m.index] = m.cmd]
    /\ applied' = applied \union {<<i, m.index, m.cmd>>}
    /\ failed' = (failed \/ conflict(i, m) \/ gap(i, m))

Apply(x) ==
    /\ ~snapshot
    /\ applier[x] = "received"
    /\ checkLogs(x[1], hand[x])
    /\ Release(x)
    /\ UNCHANGED <<faulty, snapshot, truth, lastApplied, started, running, upTo, disk, overtaken, one>>

-----------------------------------------------------------------------------
(* applierSnap *)

\* cfg.lastApplied is read without the mutex.
SnapCompare(x) ==
    LET m == hand[x] IN
    /\ snapshot
    /\ applier[x] = "received" /\ m.kind = "command"
    /\ IF m.index = lastApplied[x[1]] + 1
       THEN applier' = [applier EXCEPT ![x] = "inOrder"] /\ UNCHANGED failed
       ELSE applier' = [applier EXCEPT ![x] = "checked"] /\ failed' = TRUE
    /\ UNCHANGED <<faulty, snapshot, truth, logs, lastApplied, started, running, upTo, hand, disk,
                   applied, overtaken, one>>

SnapCheck(x) ==
    /\ applier[x] = "inOrder"
    /\ checkLogs(x[1], hand[x])
    /\ applier' = [applier EXCEPT ![x] = "checked"]
    /\ UNCHANGED <<faulty, snapshot, truth, lastApplied, started, running, upTo, hand, disk,
                   overtaken, one>>

SnapNote(x) ==
    /\ applier[x] = "checked"
    /\ lastApplied' = [lastApplied EXCEPT ![x[1]] = hand[x].index]
    /\ applier' = [applier EXCEPT ![x] = "noted"]
    /\ UNCHANGED <<faulty, snapshot, truth, logs, started, running, upTo, hand, disk, failed,
                   applied, overtaken, one>>

\* xlog: entries 0 to index; what is missing in the map is encoded as nil.
SnapshotOf(i, index) ==
    [index |-> index,
     log |-> [k \in 0..MaxIndex |->
                 CASE k > index -> absent
                   [] k <= index /\ logs[i][k] = absent -> null
                   [] OTHER -> logs[i][k]]]

\* Every SnapShotInterval entries a snapshot is passed to the Raft, which saves it; a
\* killed one has a Persister of its own.
SnapTake(x) ==
    LET m == hand[x] IN
    /\ applier[x] = "noted"
    /\ Release(x)
    /\ disk' = IF (m.index + 1) % SnapShotInterval = 0 /\ Current(x)
               THEN [disk EXCEPT ![x[1]] = SnapshotOf(x[1], m.index)] ELSE disk
    /\ UNCHANGED <<faulty, snapshot, truth, logs, lastApplied, started, running, upTo, failed,
                   applied, overtaken, one>>

\* ingestSnap.
SnapIngest(x) ==
    LET m == hand[x] IN
    /\ applier[x] = "received" /\ m.kind = "snapshot"
    /\ logs' = [logs EXCEPT ![x[1]] = Restored(m.snap)]
    /\ lastApplied' = [lastApplied EXCEPT ![x[1]] = m.snap.index]
    /\ Release(x)
    /\ UNCHANGED <<faulty, snapshot, truth, started, running, upTo, disk, failed, applied,
                   overtaken, one>>

-----------------------------------------------------------------------------
(* one() and nCommitted() *)

\* Some server claims to lead and to have put the command at an index.
OneStart(cmd, expected, index) ==
    /\ one = NotAsking
    /\ running # {}
    /\ one' = [at |-> "polling", cmd |-> cmd, expected |-> expected, index |-> index,
               server |-> 0, count |-> 0, seen |-> null]
    /\ UNCHANGED <<faulty, snapshot, truth, harness, failed>>

\* nCommitted takes and releases the mutex for every server.
OnePoll ==
    /\ one.at = "polling" /\ one.server < N
    /\ LET c == logs[one.server][one.index]
       IN  IF c = absent THEN one' = [one EXCEPT !.server = @ + 1] /\ UNCHANGED failed
           ELSE /\ one' = [one EXCEPT !.server = @ + 1, !.count = @ + 1, !.seen = c]
                /\ failed' = (failed \/ (one.count > 0 /\ one.seen # c))
    /\ UNCHANGED <<faulty, snapshot, truth, harness>>

\* Mutant: the next nCommitted goes on counting where the last one stopped.
OneDecideCounting ==
    /\ one.at = "polling" /\ one.server = N
    /\ one' = IF one.count >= one.expected /\ one.seen = one.cmd
              THEN [at |-> "returned", cmd |-> one.cmd, expected |-> one.expected, index |-> one.index]
              ELSE [one EXCEPT !.server = 0]
    /\ UNCHANGED <<faulty, snapshot, truth, harness, failed>>

\* Mutant: the command is not compared.
OneDecideAny ==
    /\ one.at = "polling" /\ one.server = N
    /\ one' = IF one.count >= one.expected
              THEN [at |-> "returned", cmd |-> one.cmd, expected |-> one.expected, index |-> one.index]
              ELSE [one EXCEPT !.server = 0, !.count = 0, !.seen = null]
    /\ UNCHANGED <<faulty, snapshot, truth, harness, failed>>

\* Enough servers and the right command: return; otherwise ask again.
OneDecide ==
    /\ one.at = "polling" /\ one.server = N
    /\ one' = IF one.count >= one.expected /\ one.seen = one.cmd
              THEN [at |-> "returned", cmd |-> one.cmd, expected |-> one.expected, index |-> one.index]
              ELSE [one EXCEPT !.server = 0, !.count = 0, !.seen = null]
    /\ UNCHANGED <<faulty, snapshot, truth, harness, failed>>

\* Two seconds have passed: with retry, and within ten seconds, try again, perhaps with
\* another server and index; otherwise t.Fatalf.
OneRetry(again) ==
    /\ one.at = "polling" /\ one.server = 0
    /\ one' = IF again THEN NotAsking ELSE GaveUp
    /\ UNCHANGED <<faulty, snapshot, truth, harness, failed>>

Step(x) == Apply(x) \/ SnapCompare(x) \/ SnapCheck(x) \/ SnapNote(x) \/ SnapTake(x) \/ SnapIngest(x)

\* A failure ends the test.
Next ==
    /\ ~failed /\ one # GaveUp
    /\ \/ \E i \in Server : start1(i) \/ crash1(i) \/ \E j \in Server : InstallSnapshot(i, j)
       \/ \E x \in Incarnation : Step(x) \/ \E m \in Messages(x) : Deliver(x, m)
       \/ \E cmd \in Cmd, expected \in Expected, index \in Index : OneStart(cmd, expected, index)
       \/ OnePoll \/ OneDecide \/ \E again \in BOOLEAN : OneRetry(again)

Spec == Init /\ [][Next]_vars

-----------------------------------------------------------------------------
(* Properties *)

\* Without snapshots: as long as the test has not been stopped, no two servers, and no
\* two incarnations of one, have ever applied different commands at an index,
\* whatever the Raft does and however its appliers interleave (checkLogs).
AgreementChecked ==
    ~snapshot /\ ~failed =>
        \A a, b \in applied : a[2] = b[2] => a[3] = b[3]

\* Without snapshots: as long as the test has not been stopped, every server has
\* applied all the indices below one that it has applied.
AppliedInOrder ==
    ~snapshot /\ ~failed =>
        \A i \in Server, k \in Index : k > 1 /\ logs[i][k] # absent => logs[i][k - 1] # absent

\* A correct Raft is accused, by an applier or by nCommitted, only in a test with
\* snapshots in which an old applier went on after its server was started again: not
\* because servers restart, applyCh replays the log, or logs are replaced by snapshots
\* between the reads of nCommitted.
AlarmNeedsOvertaking == ~faulty /\ failed => snapshot /\ overtaken # {}

\* When one() returns, the command has been applied at that index by as many servers
\* as expected; with a correct Raft, snapshots included, it is the one agreed on.
OneMeansAgreed ==
    one.at = "returned" /\ ~failed =>
        /\ ~snapshot => Cardinality({i \in Server : <<i, one.index, one.cmd>> \in applied}) >= one.expected
        /\ ~faulty => truth[one.index] = one.cmd

-----------------------------------------------------------------------------
(* What the comment of start1 says and the code does not do *)

\* The previous instance of a server is isolated from the new one: a correct Raft is not
\* accused because an applier of the old instance finishes late.
NoFalseAlarm == ~faulty => ~failed

=============================================================================
