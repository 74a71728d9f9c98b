# Verification of the 6.5840 labs

TLA+ models of the Go programs in `src/6.5840/src`, the model-checking runs over them, and
theorems about them that TLAPS checks. Paths below are relative to that directory.

## The system

| part | where | state | operations |
|---|---|---|---|
| Raft: election and heartbeats | `raft/raft.go` | role, term, vote, vote count, time of the last RPC; per server a ticker, election goroutines, RPC goroutines, heartbeat loops | `Make`, `ticker`, `emitElection`, `RequestVote`, `sendHeartBeat`, `GetHeartbeat`, `Kill` |
| Raft: log, snapshots | `raft/raft.go` | none | `Start`, `Snapshot`: stubs |
| Raft: persistence | `raft/raft.go`, `raft/persister.go` | a byte slice | `persist` and `readPersist` save and restore nothing |
| Raft harness | `raft/config.go` | servers, connections, `cfg.logs` | `crash1`, `start1`, `applier`, `applierSnap`, `checkLogs`, `ingestSnap`, `nCommitted`, `one`, `checkOneLeader` |
| Key-value server and clerk | `kvsrv/` | `StoreMap`, `IDMap`; a clerk's current call | `Get`, `Put`, `Append`, `CheckIfNeedChange`; the clerk's loops |
| Model of the store | `models/kv.go` | the value of a key | `Init`, `Step`, `Partition` |
| MapReduce coordinator | `mr/coordinator.go`, `main/mrcoordinator.go` | state and timestamp of every task, two phase flags | `AssignMission`, `HandleMapFinish`, `HandleReduceFinish`, `Done` |
| MapReduce worker | `mr/worker.go` | the task in hand; files | `HandleMap`, `HandleReduce` |
| MapReduce applications | `mrapps/`, `main/mrsequential.go` | none | `Map`, `Reduce` |
| Simulated network | `labrpc/labrpc.go` | ends, servers, flags | `Call`, `processReq`, administration |
| Linearizability checker | `porcupine/` | search stack, cache | `checkSingle`, `checkParallel` |
| Harness of the replicated stores | `kvraft/config.go`, `raft/persister.go`; the same code in `shardctrler/config.go` | servers, clerks, Persisters, ends | `StartServer`, `ShutdownServer`, `partition`, `ConnectAll`, `makeClient`, ... |
| Encoding | `labgob/labgob.go` | warnings given | encode, decode, checks |
| Sharded and replicated stores | `kvraft/`, `shardctrler/`, `shardkv/` | clerks only | retry loops; the servers are stubs |

Raft servers and clerks talk through labrpc, which executes a call at most once and may lose the
request or the reply (`Labrpc`, `AtMostOnce`); in long-reordering mode it holds replies back for up
to 2.2 s. Workers talk to the coordinator through net/rpc on a socket and to each other through files.

What is hard about each part, and the property that covers it, is listed under `hazards` in
`PROJECT.json`.

## Modules

| module | models | notes |
|---|---|---|
| `Raft` | `raft/raft.go` | one action per critical section of `rf.mu`, or per read made outside it |
| `RaftRestart` | `Raft` with `crash1` and `start1` | a restarted server has only what `Make` assigns; calls of the old object arrive late |
| `KvSrv` | `kvsrv/server.go`, `kvsrv/client.go` | clerks, server and the calls between them |
| `KvAtomic` | `models/kv.go` | the abstract specification: an atomic store |
| `MapReduce` | `mr/`, `main/mrcoordinator.go`, `mrapps/crash.go` | coordinator, workers and files |
| `MapReduceOutput` | `mr/worker.go`, `mrapps/wc.go`, `mrapps/indexer.go`, `main/mrsequential.go` | extends `MapReduce` with what the files hold |
| `Labrpc` | `labrpc/labrpc.go` | the network: callers, `processReq`, administration |
| `AtMostOnce` | the head of `labrpc/labrpc.go` | the abstract specification of a call |
| `KvHarness` | `kvraft/config.go`, `raft/persister.go` | extends `Labrpc`: servers that are shut down and restarted on that network |
| `RaftApply` | `raft/config.go` | appliers, snapshots, `one()` |
| `Porcupine` | `porcupine/`, `models/kv.go` | the linearizability checker |
| `MCRaft`, `MCKvSrv`, `MCMapReduce`, `MCLabrpc`, `MCKvHarness`, `MCRaftApply`, `MCPorcupine` | | instances for TLC |
| `RaftProofs`, `KvSrvProofs`, `MapReduceProofs`, `LabrpcProofs`, `KvHarnessTestProofs`, `KvHarnessProofs`, `KvHarnessSilentProofs`, `RaftApplyProofs` | | theorems |

Operators introduced by a comment that begins with "Mutant:" are faulty variants of the definition
that follows them. They are used by no specification; `PROJECT.json` says which property notices each.

### Raft

`state`, `currentTerm`, `votedFor`, `votednumber` and `dead` are the fields of `Raft`. `window` is
`lastTimeReceiveRPC` compared with the ticker's `startWaitTime`. `electing` counts `emitElection`
goroutines that were started and have not taken the mutex; nothing is tested again when they do.
`voteCalls` and `beatCalls` are the goroutines waiting in `Call`, `beats` the `sendHeartBeat` loops
with their position in the code. `ballots` and `elected` are history.

- A refused vote and an accepted heartbeat have no effect on the caller and are not kept as replies.
- `sendHeartBeat` reads `rf.state` without the mutex, which is a data race. The model reads the value
  the variable has at that moment.
- `LongReordering` says whether a vote reply can arrive after its candidate has begun another
  election. Without it the code relies on time: a request is delayed at most 27 ms, a reply not at
  all, and the ticker sleeps at least 300 ms. `Outstanding` states this assumption. It presumes
  that the Go scheduler does not hold a goroutine back for hundreds of milliseconds.

`RaftRestart` adds restarts. `start1` first calls `crash1`, then `Make` makes a new object, which starts
from nothing because `persist` and `readPersist` are stubs. Calls that other servers have sent to the
server go on to its name, and reach the new object. Requests that the old object has sent stay in the
network: `LateVote` and `LateBeat` carry them out whenever they arrive, and their replies go to the old
object, of which nothing is seen any more since its ends are disabled.

### KvSrv

A value is the sequence of strings put and appended. `pc` is the loop a clerk is in and `call` says
whether its request or its reply is in the network. A lost request leaves everything as it was, so
only lost replies are a step. Ids are taken to be distinct; `nrand` makes that very likely.

### MapReduce

Time is the number of assignments made. `TimePasses` makes a prefix of them older than 40 seconds.
(The comment at `mr/coordinator.go:85` says 10 seconds, the code tests 40.) A worker step is one RPC
or one file-system call that others can see: each rename of an intermediate file, each open by a
reduce worker, `os.Create` and `os.Rename` of the output. A crash can fall between any two. Map
functions are taken to be deterministic, so a file written twice has the same contents.

`MapReduceOutput` says what those contents are: the buckets by `ihash`, the concatenation, every result
an unstable sort may give, the loop that groups equal keys. Words are numbers in the order of the
strings; `ihash` is any function. The reference is `mrsequential`, compared as `main/test-mr.sh` does.

### Labrpc and KvHarness

`pc[c]` is where a call is, from the caller's `select` to the value `Call` returned; `handler[c]` is the
goroutine that runs its RPC handler, which is not tied to the caller any more once processReq has given
up. `info[c]` is what `readEndnameInfo` returned: it is read once and used afterwards, while
`isServerDead` reads the registry again. A `Server` object is a member of `Instance`, so that a server
registered again under its old name is a different one, as the pointer comparison in the code has it.
`hanging` is the set of calls whose handler never returns. Bytes, counters, delays and the number of
RPCs are left out; a delay is a step that has not been taken.

`KvHarness` adds the test's goroutine. `op` is where it stands in `ShutdownServer` or `StartServer`, each
call of the network and each critical section of `cfg.mu` being a step. The server object of incarnation
`g` of server `i` is `<<i, g>>`. A server that was shut down is still there: it makes calls through the
ends it has, and executes calls that reached it. Persisters are numbered, `contents` is what is saved in
each, and `memory` what an incarnation knows. The server itself is external, since `kvraft/server.go` is
a stub: it is assumed to save everything before a handler returns, which is what the comment in
`processReq` speaks of. `partition` and `ConnectAll` happen only while all servers run, as in the tests;
`connectUnlocked` is not written for other uses. Each of them is one step, although it enables ends one
by one: what is claimed of the ends is claimed of the states before and after.

### RaftApply

`applier[x]` and `hand[x]` are the goroutine started by `start1` for incarnation `x`; those of killed
incarnations go on. The Raft under test is external. A correct one hands over one log in order, or a
snapshot and what follows it, and may save a snapshot it got from another server before it passes it on
(`InstallSnapshot`); a killed one may still hand over what it holds. A faulty Raft hands over anything.
It is not combined with snapshots, because `ingestSnap` forgets what a server applied beyond the snapshot
and the check is then incomplete.

An applier makes its test, `checkLogs` and the writes that follow in critical sections of `cfg.mu`; what
it reads outside them (`applierSnap` compares with `cfg.lastApplied`) is a step of its own. The
`log.Fatalf` that follows a failed `checkLogs` is made after the mutex is released; other goroutines may
run in between, but none can undo the error. `failed` says that an error was found, and nothing is done after it.

`one` is the loop of `cfg.one()`. Without `retry` it ends the test if no agreement is reached in two
seconds (`GaveUp`), with it another server is asked. `overtaken` is history: the servers of which an old
applier was, or has been since, at work after a restart.

### Porcupine

`search[p]` holds the local variables of the `checkSingle` of partition `p`, one step being one turn of
its loop; `main` those of `checkParallel`. Nodes of the linked list are numbers and keep their pointers
when they are lifted, as in the code. Bitsets are sets of bits by word. A cache entry is a pair of
linearized set and state, without the hash by which the code finds it. `sort.Sort` is not stable, so
calls of one time come in any order, and so do returns. Histories that differ only in the names of
times are one.

## Runs

Distinct states are those TLC reports.

| run | result | states | what it shows |
|---|---|---|---|
| `RaftElection` | pass | 1,293,793 | votes, majorities, one leader per term, leaders keep their loop, terms grow |
| `RaftGoroutines` | pass | 29,749 | a deposed leader's loops end, whatever else runs or is killed |
| `KvLinearizable` | pass | 69,193 | exactly once, `IDMap` is freed, the store is linearizable, every operation returns |
| `MrJob` | pass | 35,925 | order of phases, one valid attempt per task, results are final, the job ends, with the output of the sequential program |
| `Labrpc` | pass | 93,840 | a call is executed at most once and true means executed; callers get an answer, also when a server is deleted under a hanging handler |
| `KvHarness` | pass | 717,243 | what was acknowledged survives a shutdown; servers that were shut down reach nobody; enabled ends are the intended ones |
| `RaftApply` | pass | 1,185,393 | disagreement and gaps stop the test, a correct Raft does so only where an old applier goes on, and `one()` returns only what was agreed on |
| `Porcupine` | pass | 396,245 | the verdict is that of the definition of linearizability, the list survives backtracking, partial results are the longest, the check returns |
| `RaftReordered` | violation | | see below |
| `RaftRejoin` | violation | | see below |
| `MrTruncated` | violation | | see below |
| `RaftApplyOverlap` | violation | | see below |

The violations, each a disagreement between the code and a comment, note or test:

- **RaftReordered.** Server 0 asks for votes in term 1; server 1 grants its vote and the reply is held
  back. Servers 0 and 1 both start elections for term 2. Server 0 counts the old reply and leads in
  term 2; server 1 gets the vote of server 2 and leads in term 2 as well. The counting goroutine does
  not compare terms.
- **RaftRejoin.** A leader is deposed by a vote request while its loop sleeps. The loop starts another
  round, reads the *new* term and sends it, and the new leader accepts it as a heartbeat of its own
  term and steps down.
- **MrTruncated.** A reduce task is given to a second worker, which finishes it. The first worker, late,
  calls `os.Create` on the same output, which truncates it, and crashes. The job is reported as done
  and the output is empty.
- **RaftApplyOverlap.** With snapshots. The applier of a server has a command in hand when `crash1` and
  `start1` follow one another, as in the 3D tests. `start1` resets `cfg.lastApplied`; then the old applier
  stores its own index there. The new one gets the same command from a correct Raft and stops the test:
  "apply out of order". The comment of `start1` says that the previous instance is isolated. It is, on
  the network, but it shares `cfg` with its successor. `AlarmNeedsOvertaking` says that this is the only
  way in which a correct Raft is stopped.

More things a reader of the code should know, which no run is about:

- `GetHeartbeat` does not set `Term` in its reply, so a rejected leader never learns of the larger term
  this way. It is deposed by other messages only.
- The heartbeat loop does not call `killed()`: a killed leader goes on sending.
- `persist` and `readPersist` are stubs (lab 3C), so a restarted server has forgotten its vote and can
  vote again in the same term, so that a term can have two leaders. What remains true is
  `TwoLeadersShareForgetful`: some server that restarted has voted for both. It is proved, not run.
- `GetHeartbeat` raises the term and leaves `votedFor` as it was. This costs votes in the new term; it
  does not endanger `VoteOncePerTerm`.
- The server answers a repeated Put with the new value (`kvsrv/server.go:71`), where the notes on lab 2
  say the old one. `Clerk.Put` discards the answer.
- `checkParallel` on an empty history waits for ever without a timeout, and says Unknown with one:
  there is no goroutine that could answer (`porcupine/checker.go:292`). `CheckReturns` excludes the
  first case.

### Bounds

- `N = 3` with two terms is the smallest cluster in which a majority is not everybody and in which an
  old leader, a new one and a voter interact. Only servers in `Timers` time out; the third one votes.
  One emitted election per server may be pending. At most `MaxBeatCalls` heartbeats are in flight; a
  further one counts as lost, which the network allows. The liveness runs have `N = 2`.
- Two clerks with two operations each on one key let a repeated call overlap with a complete operation
  of the other clerk. Keys do not interact in `kvsrv/server.go` except through the mutex.
- Two map and two reduce tasks, two workers, one crash and two late tasks let both attempts at a task
  overlap in either phase. Files of up to two of three words give keys that are alone in a bucket, share
  one, and occur in both files; `ihash` ranges over all functions to `0..R`.
- `Labrpc`: calls share nothing but the registry, which the administration changes at every moment, so
  one call is enough; two server objects under one name are what a replacement takes.
- `KvHarness`: two servers, two incarnations each, a clerk and a call. A call of a server that was shut
  down, one that its successor makes, and a clerk's are all possible choices for that one call.
- `RaftApply`: two servers, of which one restarts once, two indices, two commands, a snapshot after
  index 1.
- `Porcupine`: up to three operations on two keys, in every order of calls and returns, for which three
  times are enough; on one key Get with two outputs, Put and Append, on the other an Append that returns
  what it found. Words of two bits, so that a bitset has two words. Deeper backtracking than three
  operations allow is not explored.
- The runs of KvSrv, MapReduce, KvHarness, RaftApply and Porcupine do not check deadlock: they end when
  operations or restarts are used up, or the job, the test or the check is over. The Raft and Labrpc
  runs do.

### Fairness

- Raft: goroutines are scheduled (weak fairness of ticker, elections and heartbeat loops). Nothing is
  assumed of the network.
- KvSrv: weak fairness of the server. Strong fairness of receiving a reply: labrpc drops each reply
  with probability 1/10, independently, so a call repeated for ever gets through.
- MapReduce: workers that have not crashed run, `mrcoordinator` polls `Done`, time passes. `MaxLate`
  bounds how often a live worker is overtaken, and `MaxCrashes` is below the number of workers. Without
  the first, workers that always need more than 40 seconds would never finish a task; without the second,
  nobody would be left to ask.
- Labrpc: callers, `processReq` and handlers are goroutines that run, time passes (the 100 ms timer), and
  handlers not in `hanging` return. Nothing is assumed of the test's goroutine: it may change flags
  and registry for ever.
- Porcupine: as long as some goroutine can run, one does. Which one does not matter, as none of them
  takes infinitely many steps.

## Proofs

The theorems hold for all values of the constants, subject to the named assumptions: `N` is positive,
the bounds are natural numbers, `Worker` is finite, there is at least one reduce task, `Key` and `Piece`
are not empty, `nil`, `absent` and `null` are distinct from values, ends and server objects are the
names the harness makes. The bounds remain in the guards, and since they are arbitrary they limit nothing.

The proofs about `KvHarness` are in three modules: the invariant and what the test's goroutine does to it,
the network's steps and the first two theorems, and the silence of dead servers and the links. Leaves
that need no arithmetic name the prover Zenon, because translating their large hypotheses for the SMT
solver takes longer than proving them; `ZenonT` gives the longest more time.

- **Raft.** `TypeCorrect`, `TermsGrow` and `LeaderLoops` follow action by action. `VotesOnce` needs
  `VoteInv`: no ballot is of a term later than its voter's, and one of the voter's present term is the
  vote it remembers. It holds with long reordering too. `WinnersHaveMajority` needs `ElectionInv`:
  a granted call has its ballot (`CallsMatchBallots`), and `votednumber`, a bare counter, never exceeds
  the voters whose reply is no longer waited for (`CountMatchesBallots`). That fails when old replies are counted, hence the hypothesis
  `~LongReordering`; `RaftReordered` shows that it is needed for `OneLeaderPerTerm`. `ElectionSafety`
  follows because two majorities intersect. `RestartSafety` is what is left of it when servers restart
  and forget: `VoteInv` is `TypeOK` and `Faithful` of every server, and a server stays faithful as long as it is
  not restarted, whatever late requests of old objects arrive. The count of a candidate is still
  covered by ballots, so two winners of a term have a common voter, which cannot be a faithful one.
- **KvSrv.** `IInv` ties each clerk's loop to the server: in the first loop the operation has been applied
  exactly if its id is in `IDMap`; in the second it has been applied once. From it follow
  `AppliedExactlyOnce`, `IDMapFreed` and `Linearizable`: `KvSrv` implements `KvAtomic` under a mapping
  in which an operation takes effect when its id enters `IDMap` (a Get, when it is answered).
- **MapReduce.** `PhaseInv` says that a finished map task has left all its files and that reduce work exists
  only after the map phase; it gives `ReduceNeverMissesInput`, `DoneMeansAllDone` and `DoneStays`.
  `AttemptInv` (timestamps are of the past) gives `AttemptsDiffer`. `FirstAttempt` gives
  `SingleAttemptOutput`: without a second attempt a finished output is complete, which `MrTruncated`
  shows to be false with one.
- **Labrpc.** `AtMostOnceImplemented`: `Labrpc` implements `AtMostOnce` if a call counts as executed once its
  handler ran, on the object in `info`. The inductive invariant says where a call has to be for its
  handler to exist, and that `replyOK` is set only after the handler's result was taken; so what is
  returned as true was executed, while a handler that its caller gave up may still run, once.
- **KvHarness.** `HInv` gives `AcknowledgedSurvives`. The Persister of incarnation `g` is number `2g - 1`, so no
  two incarnations write to the same one; what a registered server has in memory is in its Persister,
  which is the one that the next shutdown copies; and the last test of `processReq` succeeds only while the
  server is registered. Since `ShutdownServer` deletes the server before it copies, an acknowledged call
  is in every later copy. `SilentInv` gives `DeadServersSilent`: names of ends are never used twice, and
  only ends of latest incarnations are ever enabled. `LinksInv` gives `LinksFollowTheTest`: it adds that
  servers which are to reach one another run and are not being shut down, so a start finds no link of
  its server and its new ends, all disabled, are what the test has asked for.
- **RaftApply.** `PlainInv`, for tests without snapshots: everything that was applied is recorded in
  `cfg.logs`, and while the test has not been stopped the logs agree and have no gaps. From it follow
  `DisagreementStops` and `GapsStop`, for a faulty Raft as well.

Model-checked only: the liveness properties; `AlarmNeedsOvertaking`, `OneMeansAgreed` and
the types of `RaftApply`; everything about Porcupine and about what MapReduce computes (folds and sorting
over data, out of the prover's reach); all violations.

## Not modelled

- `Start`, `Snapshot`, and the servers of `kvraft`, `shardctrler` and `shardkv`: stubs. The clerks of
  `shardctrler` and `shardkv` are loops around them, and what they achieve depends on handlers that are not
  written. In particular `shardkv/client.go` repeats an Append without an id.
- `checkOneLeader`, `checkNoLeader`, `checkTerms` and `wait` of the Raft harness: observers that sleep between
  reads. Composed with the goroutines of `Raft` they exceed what TLC can explore; `OneLeaderPerTerm` states
  what the first one looks for.
- The harnesses of `kvsrv` (its losses are in `KvSrv`) and of `shardkv` (groups of stubs).
- `checkEvents` of porcupine, which nothing calls, and its visualization, except that what it replays can
  be replayed.
- `labgob`: a wrapper of encoding/gob that warns about field names, by reflection.
- Applications in `mrapps/` that only measure parallelism, and leftover programs in `main/` for packages that
  are not here.
- A cluster of one server, which never elects itself since the majority test is made on replies only.
