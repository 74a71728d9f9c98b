----------------------------- MODULE KvHarness ------------------------------
(***************************************************************************)
(* kvraft/config.go: how the tests shut down, restart and partition the    *)
(* servers of a replicated store over the network of Labrpc, and           *)
(* raft/persister.go, through which a server hands its state to its        *)
(* successor.  A server that was shut down keeps running: it can only be   *)
(* cut off.  shardctrler/config.go holds the same code.                    *)
(***************************************************************************)
EXTENDS Labrpc, Naturals

CONSTANTS
    Server,      \* cfg.n servers
    Clerk,       \* the clerks that are ever made
    MaxStarts    \* how often a server is started, at most

ASSUME StartsAssumption == MaxStarts \in Nat

\* The name of the end by which an incarnation of a server, or a clerk, reaches j;
\* randstring(20) is taken to give a fresh name each time.
End(who, incarnation, j) == <<who, incarnation, j>>

ServerEnd == {End(i, g, j) : i \in Server, g \in 1..MaxStarts, j \in Server}
ClerkEnd == {End(k, 1, j) : k \in Clerk, j \in Server}

ASSUME NamesAssumption ==
    /\ ServerName = Server
    /\ Instance = Server \X (1..MaxStarts)
    /\ EndName = ServerEnd \union ClerkEnd
    /\ Server \intersect Clerk = {}

VARIABLES
    op,          \* what the test's goroutine is doing, and to which server
    started,     \* incarnations of a server so far; 0 if cfg.endnames[i] is nil
    kvservers,   \* the servers whose cfg.kvservers is not nil
    saved,       \* cfg.saved: the number of the server's latest Persister, 0 if nil
    contents,    \* the calls whose effect each Persister of a server holds
    persister,   \* the Persister an incarnation was given
    memory,      \* the calls whose effect an incarnation has in memory
    clerks,      \* cfg.clerks
    linked,      \* history: who the test last wanted to reach whom
    posthumous   \* history: the calls made by servers that had been shut down

config == <<op, started, kvservers, saved, contents, persister, memory, clerks, linked, posthumous>>
hvars == <<vars, config>>

\* One for every start and one for every shutdown.
PersisterNumber == 0..(2 * MaxStarts)

Phase == {"idle", "delete", "copy", "kill", "add"}

\* Types of the harness's variables and of the network's; a server is registered as its
\* latest incarnation or not at all.
HarnessTypeOK ==
    /\ TypeOK
    /\ op \in [at : Phase, server : Server \union {nil}]
    /\ started \in [Server -> 0..MaxStarts]
    /\ kvservers \subseteq Server
    /\ saved \in [Server -> PersisterNumber]
    /\ contents \in [Server -> [PersisterNumber -> SUBSET Call]]
    /\ persister \in [Instance -> PersisterNumber]
    /\ memory \in [Instance -> SUBSET Call]
    /\ clerks \subseteq Clerk
    /\ linked \subseteq (Server \union Clerk) \X Server
    /\ posthumous \subseteq Call
    /\ \A i \in Server : servers[i] \in {nil, <<i, started[i]>>}

Idle == [at |-> "idle", server |-> nil]

\* Handlers hang only in runs about liveness: without fairness, one that is never
\* scheduled does the same.
HarnessInit ==
    /\ Init
    /\ hanging = {}
    /\ op = Idle
    /\ started = [i \in Server |-> 0]
    /\ kvservers = {}
    /\ saved = [i \in Server |-> 0]
    /\ contents = [i \in Server |-> [n \in PersisterNumber |-> {}]]
    /\ persister = [x \in Instance |-> 0]
    /\ memory = [x \in Instance |-> {}]
    /\ clerks = {}
    /\ linked = {}
    /\ posthumous = {}

-----------------------------------------------------------------------------
(* Network flags *)

netExceptEnabled ==
    <<ends, connections, servers, reliable, longReordering, registered, done, callVars>>

\* cfg.endnames[i][j], of the latest incarnation.
EndOf(i, j) == End(i, started[i], j)

\* The ends connectUnlocked enables: both directions.
Links(i, group) == {EndOf(i, j) : j \in group} \union {EndOf(j, i) : j \in group}

\* The ends enabled or disabled when each of one group meets each of another.
Between(from, to) == UNION {Links(i, to) : i \in from}

\* Mutant: others can still reach i.
disconnectOutgoing(i, group) == enabled \ {EndOf(i, j) : j \in group}

\* Mutant: i can still reach others.
disconnectIncoming(i, group) == enabled \ {EndOf(j, i) : j \in group}

\* A server that was never started has no ends, and EndOf is then not a name.
disconnectUnlocked(i, group) == enabled \ Links(i, group)

Pairs(i, group) == ({i} \X group) \union (group \X {i})

\* The test's goroutine is free, and the test is not over.
Ready == op = Idle /\ ~done

AllRunning == kvservers = Server

\* The tests partition and heal only while every server runs.
Partition(p1) ==
    LET p2 == Server \ p1 IN
    /\ Ready
    /\ AllRunning
    /\ enabled' = (enabled \ Between(p1, p2)) \union Between(p1, p1) \union Between(p2, p2)
    /\ linked' = (linked \ (Server \X Server)) \union (p1 \X p1) \union (p2 \X p2)
    /\ UNCHANGED <<netExceptEnabled, op, started, kvservers, saved, contents, persister, memory, clerks, posthumous>>

ConnectAll ==
    /\ Ready
    /\ AllRunning
    /\ enabled' = enabled \union Between(Server, Server)
    /\ linked' = linked \union (Server \X Server)
    /\ UNCHANGED <<netExceptEnabled, op, started, kvservers, saved, contents, persister, memory, clerks, posthumous>>

\* The last thing make_config does for a test on an unreliable network.
Unreliable ==
    /\ Ready
    /\ AllRunning
    /\ Reliable(FALSE)
    /\ UNCHANGED config

-----------------------------------------------------------------------------
(* Clerks; cfg.mu is free while the servers' goroutine is outside it *)

MutexFree == op.at \in {"idle", "kill", "add"} /\ ~done

makeClient(k, to) ==
    LET new == {End(k, 1, j) : j \in Server} IN
    /\ MutexFree
    /\ k \notin clerks
    /\ new \intersect ends = {}
    /\ ends' = ends \union new
    /\ connections' = [e \in EndName |-> IF e \in new THEN e[3] ELSE connections[e]]
    /\ enabled' = enabled \union {End(k, 1, j) : j \in to}
    /\ clerks' = clerks \union {k}
    /\ linked' = linked \union ({k} \X to)
    /\ UNCHANGED <<servers, reliable, longReordering, registered, done, callVars>>
    /\ UNCHANGED <<op, started, kvservers, saved, contents, persister, memory, posthumous>>

\* The clerk is forgotten; its ends stay as they are.
deleteClient(k) ==
    /\ MutexFree
    /\ k \in clerks
    /\ clerks' = clerks \ {k}
    /\ UNCHANGED <<vars, op, started, kvservers, saved, contents, persister, memory, linked, posthumous>>

ConnectClient(k, to) ==
    /\ MutexFree
    /\ k \in clerks
    /\ enabled' = enabled \union {End(k, 1, j) : j \in to}
    /\ linked' = linked \union ({k} \X to)
    /\ UNCHANGED <<netExceptEnabled, op, started, kvservers, saved, contents, persister, memory, clerks, posthumous>>

DisconnectClient(k, from) ==
    /\ MutexFree
    /\ k \in clerks
    /\ enabled' = enabled \ {End(k, 1, j) : j \in from}
    /\ linked' = linked \ ({k} \X from)
    /\ UNCHANGED <<netExceptEnabled, op, started, kvservers, saved, contents, persister, memory, clerks, posthumous>>

-----------------------------------------------------------------------------
(* Shutting down and starting *)

\* disconnectUnlocked(i, cfg.All()), with cfg.mu held until the Persister is copied.
ShutdownServer(i) ==
    /\ Ready
    /\ i \in kvservers
    /\ op' = [at |-> "delete", server |-> i]
    /\ enabled' = disconnectUnlocked(i, Server)
    /\ linked' = linked \ Pairs(i, Server)
    /\ UNCHANGED <<netExceptEnabled, started, kvservers, saved, contents, persister, memory, clerks, posthumous>>

\* Mutant: the server stays registered.
ShutdownKeep ==
    /\ op.at = "delete"
    /\ op' = [op EXCEPT !.at = "copy"]
    /\ UNCHANGED <<vars, started, kvservers, saved, contents, persister, memory, clerks, linked, posthumous>>

ShutdownDelete ==
    /\ op.at = "delete"
    /\ DeleteServer(op.server)
    /\ op' = [op EXCEPT !.at = "copy"]
    /\ UNCHANGED <<started, kvservers, saved, contents, persister, memory, clerks, linked, posthumous>>

\* Persister.Copy: a new one with the same contents.  MakePersister makes an empty
\* one, as number 0 is.
Copy(i) ==
    /\ saved' = [saved EXCEPT ![i] = @ + 1]
    /\ contents' = [contents EXCEPT ![i][saved[i] + 1] = contents[i][saved[i]]]

ShutdownCopy ==
    /\ op.at = "copy"
    /\ Copy(op.server)
    /\ op' = [op EXCEPT !.at = "kill"]
    /\ UNCHANGED <<vars, started, kvservers, persister, memory, clerks, linked, posthumous>>

\* kv.Kill() outside the mutex.  Nothing stops a server that does not look at it.
ShutdownKill ==
    /\ op.at = "kill"
    /\ kvservers' = kvservers \ {op.server}
    /\ op' = Idle
    /\ UNCHANGED <<vars, started, saved, contents, persister, memory, clerks, linked, posthumous>>

\* Fresh ends and a fresh Persister, inside cfg.mu.
StartServer(i) ==
    LET g == started[i] + 1
        new == {End(i, g, j) : j \in Server}
    IN  /\ Ready
        /\ i \notin kvservers
        /\ g <= MaxStarts
        /\ started' = [started EXCEPT ![i] = g]
        /\ ends' = ends \union new
        /\ connections' = [e \in EndName |-> IF e \in new THEN e[3] ELSE connections[e]]
        /\ Copy(i)
        /\ persister' = [persister EXCEPT ![<<i, g>>] = saved[i] + 1]
        /\ memory' = [memory EXCEPT ![<<i, g>>] = contents[i][saved[i]]]
        /\ op' = [at |-> "add", server |-> i]
        /\ UNCHANGED <<enabled, servers, reliable, longReordering, registered, done, callVars>>
        /\ UNCHANGED <<kvservers, clerks, linked, posthumous>>

\* The new server is made, then registered, outside cfg.mu.
StartAdd ==
    /\ op.at = "add"
    /\ AddServer(op.server, <<op.server, started[op.server]>>)
    /\ kvservers' = kvservers \union {op.server}
    /\ op' = Idle
    /\ UNCHANGED <<started, saved, contents, persister, memory, clerks, linked, posthumous>>

\* The test is over.
cleanup ==
    /\ Ready
    /\ Cleanup
    /\ UNCHANGED config

-----------------------------------------------------------------------------
(* The network at work *)

\* Whose end it is; an incarnation is shut down once ShutdownServer has begun on it.
ShutDown(e) ==
    /\ e[1] \in Server
    /\ \/ e[2] < started[e[1]]
       \/ e[1] \notin kvservers /\ op # [at |-> "add", server |-> e[1]]
       \/ op.server = e[1] /\ op.at \in {"delete", "copy", "kill"}

HarnessCall(c, e) ==
    /\ StartCall(c, e)
    /\ posthumous' = IF ShutDown(e) THEN posthumous \union {c} ELSE posthumous
    /\ UNCHANGED <<op, started, kvservers, saved, contents, persister, memory, clerks, linked>>

\* A handler saves all of its server's state before it returns, in the Persister its
\* incarnation was given.
HarnessExecute(c) ==
    LET x == info[c].server IN
    /\ Execute(c)
    /\ memory' = [memory EXCEPT ![x] = @ \union {c}]
    /\ contents' = [contents EXCEPT ![x[1]][persister[x]] = memory'[x]]
    /\ UNCHANGED <<op, started, kvservers, saved, persister, clerks, linked, posthumous>>

NetworkStep ==
    /\ \/ \E c \in Call : CallerStep(c) \/ ProcessReq(c) \/ HandlerReturns(c)
       \/ StopListening
    /\ UNCHANGED config

HarnessNext ==
    \/ \E p1 \in SUBSET Server : Partition(p1)
    \/ ConnectAll
    \/ Unreliable
    \/ \E k \in Clerk, group \in SUBSET Server :
           makeClient(k, group) \/ ConnectClient(k, group) \/ DisconnectClient(k, group)
    \/ \E k \in Clerk : deleteClient(k)
    \/ \E i \in Server : ShutdownServer(i) \/ StartServer(i)
    \/ ShutdownDelete \/ ShutdownCopy \/ ShutdownKill \/ StartAdd
    \/ cleanup
    \/ \E c \in Call : HarnessExecute(c) \/ \E e \in EndName : HarnessCall(c, e)
    \/ NetworkStep

HarnessSpec == HarnessInit /\ [][HarnessNext]_hvars

-----------------------------------------------------------------------------
(* Properties *)

Saved(i) == contents[i][saved[i]]

\* A call that is answered with true, or is past the last test of processReq, is in
\* the state that the next incarnation of its server will be given, for ever, though
\* its server may have been shut down while its handler ran
\* (labrpc/labrpc.go:264-270, kvraft/config.go:261-267).
AckedIsPersisted ==
    \A c \in Call :
        pc[c] \in {"replying", "delayed", "true"} => c \in Saved(info[c].server[1])

\* A server that has been shut down cannot reach anybody: a call that it makes from
\* then on is never executed, whatever is partitioned, healed or restarted later.
DeadServersAreSilent == \A c \in posthumous : handler[c] = "none"

\* The ends that are enabled are those of the latest incarnations, and they are the
\* ones the last partition, ConnectAll, ShutdownServer or ConnectClient asked for.
LinksAsIntended ==
    enabled = {EndOf(p[1], p[2]) : p \in linked \intersect (Server \X Server)}
              \union {End(p[1], 1, p[2]) : p \in linked \intersect (Clerk \X Server)}
=============================================================================
