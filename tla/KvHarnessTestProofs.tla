------------------------ MODULE KvHarnessTestProofs -------------------------
(***************************************************************************)
(* The inductive invariant of KvHarness, and that what the test's goroutine*)
(* does to servers, clerks and links preserves it.                         *)
(***************************************************************************)
EXTENDS KvHarness, LabrpcProofs

\* The latest incarnation of i still uses the latest Persister.
Fresh(i) ==
    \/ i \in kvservers /\ ~(op.server = i /\ op.at = "kill")
    \/ op.at = "add" /\ op.server = i

\* The test's goroutine works on a server that is running, or on one that is not.
OpFits ==
    /\ op.at = "idle" <=> op.server = nil
    /\ op.at \in {"delete", "copy", "kill"} => op.server \in kvservers
    /\ op.at = "add" => op.server \notin kvservers

\* A server is registered only while it runs and its Persister has not been copied.
RegisteredRuns ==
    \A i \in Server :
        servers[i] # nil => i \in kvservers /\ ~(op.server = i /\ op.at \in {"copy", "kill"})

\* Persisters: their number, who has the latest, that no two incarnations have the same,
\* and that each holds what the incarnation it was given to has in memory.
PersistersHoldMemory ==
    \A i \in Server :
        /\ saved[i] = 2 * started[i] - (IF Fresh(i) THEN 1 ELSE 0)
        /\ Fresh(i) => started[i] >= 1 /\ persister[<<i, started[i]>>] = saved[i]
        /\ \A g \in 1..started[i] :
               /\ persister[<<i, g>>] = 2 * g - 1 /\ persister[<<i, g>>] <= saved[i]
               /\ memory[<<i, g>>] = contents[i][persister[<<i, g>>]]

\* A call is sent to an incarnation that was started, which remembers what it executed.
ExecutedIsRemembered ==
    \A c \in Call :
        /\ info[c].server # nil => info[c].server[2] <= started[info[c].server[1]]
        /\ Ran(c) => c \in memory[info[c].server]

HInv ==
    /\ HarnessTypeOK /\ HandlerFollowsCall
    /\ OpFits /\ RegisteredRuns /\ PersistersHoldMemory /\ ExecutedIsRemembered
    /\ AckedIsPersisted

-----------------------------------------------------------------------------
(* Names *)

\* Instances and ends are tuples of what they are made of.
LEMMA Names ==
    /\ \A x \in Instance : x[1] \in Server /\ x[2] \in 1..MaxStarts /\ x = <<x[1], x[2]>>
    /\ \A i \in Server, g \in 1..MaxStarts : <<i, g>> \in Instance
    /\ \A i \in Server, g \in 1..MaxStarts, j \in Server : End(i, g, j) \in EndName
    /\ \A k \in Clerk, j \in Server : End(k, 1, j) \in EndName
    /\ \A e \in EndName : e[3] \in Server /\ e[3] \in ServerName
    /\ nil \notin Server /\ nil \notin Instance
  BY NamesAssumption, NilAssumption DEF ServerEnd, ClerkEnd, End

\* How often each server was started.
LEMMA StartedType ==
    ASSUME HInv
    PROVE  started \in [Server -> 0..MaxStarts] /\ \A j \in Server : started[j] \in Nat
<1>1. started \in [Server -> 0..MaxStarts]
  BY Zenon DEF HInv, HarnessTypeOK
<1> QED
  BY <1>1, StartsAssumption

\* make_config establishes the invariant.
LEMMA HarnessInitInv == HarnessInit => HInv
<1> SUFFICES ASSUME HarnessInit PROVE HInv
  BY Zenon
<1>1. TypeOK /\ HandlerFollowsCall
  BY InitInv, Zenon DEF HarnessInit, IInv
<1>2. HarnessTypeOK
  BY <1>1, StartsAssumption, NamesAssumption DEF HarnessInit, HarnessTypeOK, Idle, Phase, PersisterNumber, Init
<1>3. OpFits /\ RegisteredRuns
  BY NamesAssumption, Zenon DEF HarnessInit, OpFits, RegisteredRuns, Idle, Init
<1>4. PersistersHoldMemory
  BY DEF HarnessInit, PersistersHoldMemory, Fresh, Idle
<1>5. ExecutedIsRemembered /\ AckedIsPersisted
  BY Zenon DEF HarnessInit, ExecutedIsRemembered, AckedIsPersisted, Ran, Init
<1> QED
  BY <1>1, <1>2, <1>3, <1>4, <1>5, Zenon DEF HInv

-----------------------------------------------------------------------------
(* The steps *)

\* The variables that partitions, clerks and the end of the test leave alone.
core == <<servers, registered, callVars, op, started, kvservers, saved, contents, persister, memory, posthumous>>

\* A step that only sets flags, ends and clerks keeps the invariant.
LEMMA FlagsInv ==
    ASSUME HInv, UNCHANGED core,
           enabled' \subseteq EndName, ends' \subseteq EndName,
           connections' \in [EndName -> ServerName \union {nil}],
           reliable' \in BOOLEAN, longReordering' \in BOOLEAN, done' \in BOOLEAN,
           clerks' \subseteq Clerk,
           linked' \subseteq (Server \union Clerk) \X Server
    PROVE  HInv'
<1> USE DEF core, callVars, locals
<1>1. HarnessTypeOK'
  BY Zenon DEF HInv, HarnessTypeOK, TypeOK
<1>2. HandlerFollowsCall' /\ OpFits' /\ RegisteredRuns'
  BY Zenon DEF HInv, HandlerFollowsCall, OpFits, RegisteredRuns
<1>3. PersistersHoldMemory'
  BY DEF HInv, PersistersHoldMemory, Fresh
<1>4. ExecutedIsRemembered' /\ AckedIsPersisted'
  BY Zenon DEF HInv, ExecutedIsRemembered, Ran, AckedIsPersisted, Saved
<1> QED
  BY <1>1, <1>2, <1>3, <1>4, Zenon DEF HInv

\* While every server runs and the test's goroutine is free, the ends that partitions
\* enable exist.
LEMMA BetweenAreEnds ==
    ASSUME HInv, Ready, AllRunning, NEW from \in SUBSET Server, NEW to \in SUBSET Server
    PROVE  Between(from, to) \subseteq EndName
<1>1. \A j \in Server : Fresh(j)
  BY Zenon DEF Fresh, Ready, AllRunning, Idle
<1>2. \A j \in Server : started[j] \in 1..MaxStarts
  <2>1. started \in [Server -> 0..MaxStarts]
    BY Zenon DEF HInv, HarnessTypeOK
  <2>2. \A j \in Server : started[j] >= 1
    BY <1>1, Zenon DEF HInv, PersistersHoldMemory
  <2> QED
    BY <2>1, <2>2, StartsAssumption
<1>3. \A j, k \in Server : EndOf(j, k) \in EndName
  BY <1>2, Names, Zenon DEF EndOf
<1> QED
  BY <1>3 DEF Between, Links

\* Partitions, clerks and the end of the test keep the invariant.
LEMMA TestInv ==
    ASSUME HInv,
           \/ \E p1 \in SUBSET Server : Partition(p1)
           \/ ConnectAll \/ Unreliable \/ cleanup
           \/ \E k \in Clerk, group \in SUBSET Server :
                  makeClient(k, group) \/ ConnectClient(k, group) \/ DisconnectClient(k, group)
           \/ \E k \in Clerk : deleteClient(k)
    PROVE  HInv'
<1> USE DEF netExceptEnabled
<1>0. /\ enabled \subseteq EndName /\ ends \subseteq EndName
      /\ connections \in [EndName -> ServerName \union {nil}]
      /\ reliable \in BOOLEAN /\ longReordering \in BOOLEAN /\ done \in BOOLEAN
      /\ clerks \subseteq Clerk /\ linked \subseteq (Server \union Clerk) \X Server
  BY Zenon DEF HInv, HarnessTypeOK, TypeOK
<1>1. ASSUME NEW p1 \in SUBSET Server, Partition(p1) PROVE HInv'
  <2>1. enabled' \subseteq EndName
    <3>1. Between(p1, p1) \subseteq EndName /\ Between(Server \ p1, Server \ p1) \subseteq EndName
      BY <1>1, BetweenAreEnds, Zenon DEF Partition
    <3> QED
      BY <1>0, <1>1, <3>1, Zenon DEF Partition
  <2>2. linked' \subseteq (Server \union Clerk) \X Server
    BY <1>0, <1>1, Zenon DEF Partition
  <2> QED
    BY <1>0, <1>1, <2>1, <2>2, FlagsInv, Zenon DEF Partition, core
<1>2. CASE ConnectAll
  <2>1. enabled' \subseteq EndName
    BY <1>0, <1>2, BetweenAreEnds, Zenon DEF ConnectAll
  <2> QED
    BY <1>0, <1>2, <2>1, FlagsInv, Zenon DEF ConnectAll, core
<1>3. CASE Unreliable \/ cleanup
  BY <1>0, <1>3, FlagsInv, Zenon DEF Unreliable, Reliable, cleanup, Cleanup, core, config
<1>4. ASSUME NEW k \in Clerk, NEW group \in SUBSET Server, makeClient(k, group) PROVE HInv'
  <2>1. connections' \in [EndName -> ServerName \union {nil}]
    BY <1>0, <1>4, Names, Zenon DEF makeClient
  <2>2. enabled' \subseteq EndName /\ ends' \subseteq EndName
    BY <1>0, <1>4, Names DEF makeClient
  <2> QED
    BY <1>0, <1>4, <2>1, <2>2, FlagsInv, Zenon DEF makeClient, core
<1>5. ASSUME NEW k \in Clerk, NEW group \in SUBSET Server,
             ConnectClient(k, group) \/ DisconnectClient(k, group)
      PROVE  HInv'
  <2>1. enabled' \subseteq EndName
    BY <1>0, <1>5, Names DEF ConnectClient, DisconnectClient
  <2> QED
    BY <1>0, <1>5, <2>1, FlagsInv, Zenon DEF ConnectClient, DisconnectClient, core
<1>6. ASSUME NEW k \in Clerk, deleteClient(k) PROVE HInv'
  BY <1>0, <1>6, FlagsInv, Zenon DEF deleteClient, vars, admin, callVars, core
<1> QED
  BY <1>1, <1>2, <1>3, <1>4, <1>5, <1>6, Zenon

\* Cutting a server off and taking it out of the registry.
LEMMA DeleteInv ==
    ASSUME HInv, (\E i \in Server : ShutdownServer(i)) \/ ShutdownDelete
    PROVE  HInv'
<1> USE DEF netExceptEnabled, callVars, locals
<1>1. ASSUME NEW i \in Server, ShutdownServer(i) PROVE HInv'
  <2>1. HarnessTypeOK'
    BY <1>1, Zenon DEF HInv, HarnessTypeOK, TypeOK, ShutdownServer, disconnectUnlocked, Phase
  <2>2. OpFits'
    BY <1>1, Names, Zenon DEF HInv, OpFits, ShutdownServer
  <2>3. HandlerFollowsCall' /\ RegisteredRuns'
    BY <1>1, Names, Zenon DEF HInv, HandlerFollowsCall, RegisteredRuns, ShutdownServer, Ready, Idle
  <2>4. \A j \in Server : Fresh(j)' = Fresh(j)
    BY <1>1, Names, Zenon DEF Fresh, ShutdownServer, Ready, Idle
  <2>5. PersistersHoldMemory'
    BY <1>1, <2>4, Zenon DEF HInv, PersistersHoldMemory, ShutdownServer
  <2>6. ExecutedIsRemembered' /\ AckedIsPersisted'
    BY <1>1, Zenon DEF HInv, ExecutedIsRemembered, AckedIsPersisted, Ran, Saved, ShutdownServer
  <2> QED
    BY <2>1, <2>2, <2>3, <2>5, <2>6, Zenon DEF HInv
<1>2. CASE ShutdownDelete
  <2> USE DEF ShutdownDelete, DeleteServer
  <2>0. op.server \in Server /\ op' = [at |-> "copy", server |-> op.server]
    BY <1>2, Names, Zenon DEF HInv, HarnessTypeOK, OpFits
  <2>1. HarnessTypeOK'
    BY <1>2, <2>0, NamesAssumption, Zenon DEF HInv, HarnessTypeOK, TypeOK, Phase
  <2>2. OpFits'
    BY <1>2, <2>0, Names, Zenon DEF HInv, OpFits
  <2>3. HandlerFollowsCall'
    BY <1>2, Zenon DEF HInv, HandlerFollowsCall
  <2>4. RegisteredRuns'
    BY <1>2, <2>0, NamesAssumption, Zenon DEF HInv, HarnessTypeOK, TypeOK, RegisteredRuns
  <2>5. \A j \in Server : Fresh(j)' = Fresh(j)
    BY <1>2, <2>0, Zenon DEF Fresh
  <2>6. PersistersHoldMemory'
    BY <1>2, <2>5, Zenon DEF HInv, PersistersHoldMemory
  <2>7. ExecutedIsRemembered' /\ AckedIsPersisted'
    BY <1>2, Zenon DEF HInv, ExecutedIsRemembered, AckedIsPersisted, Ran, Saved
  <2> QED
    BY <2>1, <2>2, <2>3, <2>4, <2>6, <2>7, Zenon DEF HInv
<1> QED
  BY <1>1, <1>2, Zenon

\* Forgetting a server, and registering a new incarnation.
LEMMA KillAddInv ==
    ASSUME HInv, ShutdownKill \/ StartAdd
    PROVE  HInv'
<1> USE DEF callVars, locals
<1>0. op.server \in Server /\ op.at # "idle"
  BY Names, Zenon DEF HInv, HarnessTypeOK, OpFits, ShutdownKill, StartAdd
<1>1. CASE ShutdownKill
  <2> USE DEF ShutdownKill, vars, admin
  <2>1. HarnessTypeOK'
    BY <1>1, <1>0, Zenon DEF HInv, HarnessTypeOK, TypeOK, Phase, Idle
  <2>2. OpFits'
    BY <1>1, <1>0, Zenon DEF HInv, OpFits, Idle
  <2>3. HandlerFollowsCall' /\ RegisteredRuns'
    BY <1>1, <1>0, Zenon DEF HInv, HandlerFollowsCall, RegisteredRuns, Idle
  <2>4. \A j \in Server : Fresh(j)' = Fresh(j)
    BY <1>1, <1>0, Names, Zenon DEF Fresh, Idle
  <2>5. PersistersHoldMemory'
    BY <1>1, <2>4, Zenon DEF HInv, PersistersHoldMemory
  <2>6. ExecutedIsRemembered' /\ AckedIsPersisted'
    BY <1>1, Zenon DEF HInv, ExecutedIsRemembered, AckedIsPersisted, Ran, Saved
  <2> QED
    BY <2>1, <2>2, <2>3, <2>5, <2>6, Zenon DEF HInv
<1>2. CASE StartAdd
  <2> USE DEF StartAdd, AddServer
  <2>0. <<op.server, started[op.server]>> \in Instance
    <3>1. Fresh(op.server)
      BY <1>2, Zenon DEF Fresh
    <3>2. started[op.server] >= 1 /\ started[op.server] \in 0..MaxStarts
      BY <1>0, <3>1, Zenon DEF HInv, HarnessTypeOK, PersistersHoldMemory
    <3> QED
      BY <1>0, <3>2, StartsAssumption, Names
  <2>1. HarnessTypeOK'
    BY <1>2, <1>0, <2>0, NamesAssumption, ZenonT(30) DEF HInv, HarnessTypeOK, TypeOK, Phase, Idle
  <2>2. OpFits'
    BY <1>2, Zenon DEF OpFits, Idle
  <2>3. HandlerFollowsCall'
    BY <1>2, Zenon DEF HInv, HandlerFollowsCall
  <2>4. RegisteredRuns'
    BY <1>2, <1>0, NamesAssumption DEF HInv, HarnessTypeOK, TypeOK, RegisteredRuns, Idle
  <2>5. \A j \in Server : Fresh(j)' = Fresh(j)
    BY <1>2, <1>0, Names, Zenon DEF Fresh, Idle, HInv, OpFits
  <2>6. PersistersHoldMemory'
    BY <1>2, <2>5, Zenon DEF HInv, PersistersHoldMemory
  <2>7. ExecutedIsRemembered' /\ AckedIsPersisted'
    BY <1>2, Zenon DEF HInv, ExecutedIsRemembered, AckedIsPersisted, Ran, Saved
  <2> QED
    BY <2>1, <2>2, <2>3, <2>4, <2>6, <2>7, Zenon DEF HInv
<1> QED
  BY <1>1, <1>2, Zenon

\* The copy made at a shutdown holds what the server has in memory.
LEMMA CopyInv == ASSUME HInv, ShutdownCopy PROVE HInv'
<1> USE DEF ShutdownCopy, Copy, vars, admin, locals
<1> DEFINE i == op.server
<1>0. /\ i \in Server /\ i \in kvservers /\ op' = [at |-> "kill", server |-> i]
      /\ Fresh(i) /\ ~Fresh(i)' /\ servers[i] = nil
  BY Names, Zenon DEF HInv, HarnessTypeOK, OpFits, Fresh, RegisteredRuns
<1>1. \A j \in Server \ {i} : Fresh(j)' = Fresh(j)
  BY <1>0, Zenon DEF Fresh
<1>2. /\ started \in [Server -> 0..MaxStarts] /\ saved \in [Server -> PersisterNumber]
      /\ contents \in [Server -> [PersisterNumber -> SUBSET Call]]
      /\ persister \in [Instance -> PersisterNumber]
  BY Zenon DEF HInv, HarnessTypeOK
<1>3. saved[i] = 2 * started[i] - 1 /\ saved[i] + 1 \in PersisterNumber
  <2>1. saved[i] = 2 * started[i] - 1 /\ started[i] >= 1
    BY <1>0, Zenon DEF HInv, PersistersHoldMemory
  <2>2. started[i] \in 0..MaxStarts
    BY <1>0, <1>2, Zenon
  <2> QED
    BY <2>1, <2>2, StartsAssumption DEF PersisterNumber
<1>4. \A j \in Server : /\ saved'[j] = IF j = i THEN saved[j] + 1 ELSE saved[j]
                        /\ \A n \in PersisterNumber :
                               contents'[j][n] = IF j = i /\ n = saved[i] + 1 THEN contents[i][saved[i]]
                                                                             ELSE contents[j][n]
  BY <1>0, <1>2, <1>3, Zenon
<1>5. HarnessTypeOK'
  <2>1. contents' \in [Server -> [PersisterNumber -> SUBSET Call]]
    BY <1>0, <1>2, <1>3
  <2>2. saved' \in [Server -> PersisterNumber]
    BY <1>0, <1>2, <1>3, Zenon
  <2> QED
    BY <1>0, <2>1, <2>2, Zenon DEF HInv, HarnessTypeOK, TypeOK, Phase
<1>6. OpFits' /\ HandlerFollowsCall' /\ RegisteredRuns'
  BY <1>0, Names, ZenonT(30) DEF HInv, OpFits, HandlerFollowsCall, RegisteredRuns
<1>7. PersistersHoldMemory'
  <2> SUFFICES ASSUME NEW j \in Server
      PROVE  /\ saved'[j] = 2 * started[j] - (IF Fresh(j)' THEN 1 ELSE 0)
             /\ Fresh(j)' => started[j] >= 1 /\ persister[<<j, started[j]>>] = saved'[j]
             /\ \A g \in 1..started[j] :
                    /\ persister[<<j, g>>] = 2 * g - 1 /\ persister[<<j, g>>] <= saved'[j]
                    /\ memory[<<j, g>>] = contents'[j][persister[<<j, g>>]]
    BY DEF PersistersHoldMemory
  <2>1. \A g \in 1..started[j] : persister[<<j, g>>] \in PersisterNumber
    BY <1>2, Names, StartsAssumption
  <2>2. \A g \in 1..started[j] : /\ persister[<<j, g>>] = 2 * g - 1 /\ persister[<<j, g>>] <= saved[j]
                                 /\ memory[<<j, g>>] = contents[j][persister[<<j, g>>]]
    BY Zenon DEF HInv, PersistersHoldMemory
  <2>3. saved[j] \in Nat
    BY <1>2, StartsAssumption DEF PersisterNumber
  <2>4. \A g \in 1..started[j] : persister[<<j, g>>] \in Nat
    BY <2>1, StartsAssumption DEF PersisterNumber
  <2>5. \A g \in 1..started[j] : /\ persister[<<j, g>>] = 2 * g - 1 /\ persister[<<j, g>>] <= saved'[j]
                                 /\ memory[<<j, g>>] = contents'[j][persister[<<j, g>>]]
    BY <1>4, <2>1, <2>2, <2>3, <2>4
  <2>6. CASE j = i
    BY <1>0, <1>2, <1>3, <1>4, <2>5, <2>6, StartsAssumption
  <2>7. CASE j # i
    BY <1>1, <1>4, <2>5, <2>7, ZenonT(30) DEF HInv, PersistersHoldMemory
  <2> QED
    BY <2>6, <2>7, Zenon
<1>8. ExecutedIsRemembered'
  BY Zenon DEF HInv, ExecutedIsRemembered, Ran
<1>9. AckedIsPersisted'
  <2>1. \A j \in Server : Saved(j)' = Saved(j)
    BY <1>2, <1>3, <1>4, StartsAssumption DEF Saved, PersisterNumber
  <2>2. \A c \in Call : pc[c] \in {"replying", "delayed", "true"} => info[c].server[1] \in Server
    BY Names DEF HInv, HarnessTypeOK, TypeOK, HandlerFollowsCall, Info
  <2> QED
    BY <2>1, <2>2, Zenon DEF HInv, AckedIsPersisted
<1> QED
  BY <1>5, <1>6, <1>7, <1>8, <1>9, Zenon DEF HInv

\* A new incarnation begins with what its server's latest Persister holds.
LEMMA StartInv == ASSUME HInv, NEW i \in Server, StartServer(i) PROVE HInv'
<1> USE DEF Copy, callVars, locals
<1> DEFINE g == started[i] + 1
           n == saved[i] + 1
<1>0. /\ i \notin kvservers /\ op = Idle /\ op' = [at |-> "add", server |-> i]
      /\ ~Fresh(i) /\ Fresh(i)' /\ servers[i] = nil
  BY Names, Zenon DEF HInv, RegisteredRuns, StartServer, Ready, Fresh, Idle
<1>1. \A j \in Server \ {i} : Fresh(j)' = Fresh(j)
  BY <1>0, Zenon DEF StartServer, Fresh, Idle
<1>2. /\ started \in [Server -> 0..MaxStarts] /\ saved \in [Server -> PersisterNumber]
      /\ contents \in [Server -> [PersisterNumber -> SUBSET Call]]
      /\ persister \in [Instance -> PersisterNumber] /\ memory \in [Instance -> SUBSET Call]
  BY Zenon DEF HInv, HarnessTypeOK
<1>3. /\ saved[i] = 2 * started[i] /\ g \in 1..MaxStarts /\ n \in PersisterNumber
      /\ n = 2 * g - 1 /\ <<i, g>> \in Instance
  <2>1. saved[i] = 2 * started[i] - 0
    BY <1>0, Zenon DEF HInv, PersistersHoldMemory
  <2>2. started[i] \in 0..MaxStarts /\ g <= MaxStarts
    BY <1>2, Zenon DEF StartServer
  <2>3. g \in 1..MaxStarts /\ n \in PersisterNumber /\ saved[i] = 2 * started[i] /\ n = 2 * g - 1
    BY <2>1, <2>2, StartsAssumption DEF PersisterNumber
  <2> QED
    BY <2>3, Names, Zenon
<1>4. \A j \in Server :
          /\ saved'[j] = IF j = i THEN n ELSE saved[j]
          /\ started'[j] = IF j = i THEN g ELSE started[j]
          /\ \A m \in PersisterNumber :
                 contents'[j][m] = IF j = i /\ m = n THEN contents[i][saved[i]] ELSE contents[j][m]
  BY <1>2, <1>3, Zenon DEF StartServer
<1>5. /\ persister' = [persister EXCEPT ![<<i, g>>] = n]
      /\ memory' = [memory EXCEPT ![<<i, g>>] = contents[i][saved[i]]]
  BY Zenon DEF StartServer
<1>6. HarnessTypeOK'
  <2>1. /\ contents' \in [Server -> [PersisterNumber -> SUBSET Call]]
        /\ saved' \in [Server -> PersisterNumber]
    BY <1>2, <1>3, Zenon DEF StartServer
  <2>2. started' \in [Server -> 0..MaxStarts]
    BY <1>2, <1>3, StartsAssumption DEF StartServer
  <2>3. persister' \in [Instance -> PersisterNumber] /\ memory' \in [Instance -> SUBSET Call]
    BY <1>2, <1>3, <1>5
  <2>4. TypeOK'
    <3>1. \A j \in Server : End(i, g, j) \in EndName
      BY <1>3, Names, Zenon
    <3>2. ends' \subseteq EndName
      BY <3>1 DEF HInv, HarnessTypeOK, TypeOK, StartServer
    <3>3. connections' \in [EndName -> ServerName \union {nil}]
      BY Names, Zenon DEF HInv, HarnessTypeOK, TypeOK, StartServer
    <3> QED
      BY <3>2, <3>3, Zenon DEF HInv, HarnessTypeOK, TypeOK, StartServer
  <2>5. \A j \in Server : servers'[j] \in {nil, <<j, started'[j]>>}
    BY <1>0, <1>4, Zenon DEF HInv, HarnessTypeOK, StartServer
  <2> QED
    BY <1>0, <2>1, <2>2, <2>3, <2>4, <2>5 DEF HInv, HarnessTypeOK, StartServer, Phase
<1>7. OpFits' /\ HandlerFollowsCall' /\ RegisteredRuns'
  BY <1>0, Names DEF HInv, OpFits, HandlerFollowsCall, RegisteredRuns, StartServer
<1>8. PersistersHoldMemory'
  <2> SUFFICES ASSUME NEW j \in Server
      PROVE  /\ saved'[j] = 2 * started'[j] - (IF Fresh(j)' THEN 1 ELSE 0)
             /\ Fresh(j)' => started'[j] >= 1 /\ persister'[<<j, started'[j]>>] = saved'[j]
             /\ \A h \in 1..started'[j] :
                    /\ persister'[<<j, h>>] = 2 * h - 1 /\ persister'[<<j, h>>] <= saved'[j]
                    /\ memory'[<<j, h>>] = contents'[j][persister'[<<j, h>>]]
    BY Zenon DEF PersistersHoldMemory
  <2>1. \A h \in 1..started[j] :
            /\ <<j, h>> \in Instance /\ <<j, h>> # <<i, g>>
            /\ persister[<<j, h>>] \in PersisterNumber
    BY <1>2, Names, StartsAssumption
  <2>2. \A h \in 1..started[j] : /\ persister[<<j, h>>] = 2 * h - 1 /\ persister[<<j, h>>] <= saved[j]
                                 /\ memory[<<j, h>>] = contents[j][persister[<<j, h>>]]
    BY Zenon DEF HInv, PersistersHoldMemory
  <2>3. saved[j] \in Nat /\ \A h \in 1..started[j] : persister[<<j, h>>] \in Nat
    BY <1>2, <2>1, StartsAssumption DEF PersisterNumber
  <2>4. \A h \in 1..started[j] : persister'[<<j, h>>] = persister[<<j, h>>]
                                 /\ memory'[<<j, h>>] = memory[<<j, h>>]
    BY <1>2, <1>5, <2>1, Zenon
  <2>5. \A h \in 1..started[j] : /\ persister'[<<j, h>>] = 2 * h - 1 /\ persister'[<<j, h>>] <= saved'[j]
                                 /\ memory'[<<j, h>>] = contents'[j][persister'[<<j, h>>]]
    BY <1>4, <2>1, <2>2, <2>3, <2>4
  <2>6. CASE j = i
    <3>1. persister'[<<i, g>>] = n /\ memory'[<<i, g>>] = contents[i][saved[i]]
      BY <1>2, <1>3, <1>5, Zenon
    <3>2. contents'[i][n] = contents[i][saved[i]] /\ saved'[i] = n /\ started'[i] = g
      BY <1>3, <1>4, Zenon
    <3>3. started[i] \in Nat /\ n \in Nat
      BY <1>2, <1>3, StartsAssumption DEF PersisterNumber
    <3>4. \A h \in 1..g : h \in 1..started[i] \/ h = g
      BY <3>3
    <3>5. /\ persister'[<<i, g>>] = 2 * g - 1 /\ persister'[<<i, g>>] <= saved'[i]
          /\ memory'[<<i, g>>] = contents'[i][persister'[<<i, g>>]]
      BY <1>3, <3>1, <3>2, <3>3
    <3>6. \A h \in 1..started'[i] :
              /\ persister'[<<i, h>>] = 2 * h - 1 /\ persister'[<<i, h>>] <= saved'[i]
              /\ memory'[<<i, h>>] = contents'[i][persister'[<<i, h>>]]
      <4> SUFFICES ASSUME NEW h \in 1..started'[i]
          PROVE  /\ persister'[<<i, h>>] = 2 * h - 1 /\ persister'[<<i, h>>] <= saved'[i]
                 /\ memory'[<<i, h>>] = contents'[i][persister'[<<i, h>>]]
        BY Zenon
      <4>1. h \in 1..g
        BY <3>2, Zenon
      <4>2. CASE h \in 1..started[i]
        BY <2>5, <2>6, <4>2, Zenon
      <4>3. CASE h = g
        BY <3>5, <4>3, Zenon
      <4> QED
        BY <3>4, <4>1, <4>2, <4>3, Zenon
    <3>7. /\ saved'[i] = 2 * started'[i] - 1 /\ started'[i] >= 1
          /\ persister'[<<i, started'[i]>>] = saved'[i]
      BY <1>3, <3>1, <3>2, <3>3
    <3> QED
      BY <1>0, <2>6, <3>6, <3>7, Zenon
  <2>7. CASE j # i
    <3>1. Fresh(j)' => started[j] >= 1 /\ persister[<<j, started[j]>>] = saved[j]
      BY <1>1, <2>7, Zenon DEF HInv, PersistersHoldMemory
    <3>2. saved[j] = 2 * started[j] - (IF Fresh(j)' THEN 1 ELSE 0)
      BY <1>1, <2>7, Zenon DEF HInv, PersistersHoldMemory
    <3>3. started[j] \in Nat
      BY <1>2, StartsAssumption
    <3>4. Fresh(j)' => persister'[<<j, started[j]>>] = saved[j]
      BY <2>4, <3>1, <3>3
    <3> QED
      BY <1>4, <2>5, <2>7, <3>1, <3>2, <3>4, Zenon
  <2> QED
    BY <2>6, <2>7, Zenon
<1>9. \A c \in Call : info[c].server # nil =>
          /\ info[c].server \in Instance /\ info[c].server[1] \in Server
          /\ info[c].server[2] <= started[info[c].server[1]]
          /\ info[c].server # <<i, g>>
  <2>1. \A c \in Call : info[c].server # nil =>
            info[c].server \in Instance /\ info[c].server[2] <= started[info[c].server[1]]
    BY Zenon DEF HInv, HarnessTypeOK, TypeOK, Info, ExecutedIsRemembered
  <2> QED
    BY <1>2, <2>1, Names, StartsAssumption
<1>10. ExecutedIsRemembered'
  <2>1. \A c \in Call : Ran(c) => info[c].server # nil
    BY Zenon DEF HInv, HarnessTypeOK, TypeOK, Ran
  <2>2. \A j \in Server : started[j] \in Nat /\ started'[j] \in Nat /\ started[j] <= started'[j]
    <3>1. \A j \in Server : started'[j] = IF j = i THEN g ELSE started[j]
      BY <1>4, Zenon
    <3> QED
      BY <3>1, StartedType
  <2>3. \A x \in Instance : x[2] \in Nat
    BY Names, StartsAssumption
  <2>4. \A c \in Call : info[c].server # nil => info[c].server[2] <= started'[info[c].server[1]]
    BY <1>9, <2>2, <2>3
  <2>5. \A c \in Call : Ran(c) => c \in memory'[info[c].server]
    BY <1>2, <1>5, <1>9, <2>1, Zenon DEF HInv, ExecutedIsRemembered
  <2> QED
    BY <2>4, <2>5, Zenon DEF ExecutedIsRemembered, Ran, StartServer
<1>11. AckedIsPersisted'
  <2>1. \A j \in Server : Saved(j)' = Saved(j)
    BY <1>2, <1>3, <1>4 DEF Saved
  <2>2. \A c \in Call : pc[c] \in {"replying", "delayed", "true"} => info[c].server # nil
    BY Zenon DEF HInv, HarnessTypeOK, TypeOK, HandlerFollowsCall
  <2> QED
    BY <1>9, <2>1, <2>2, Zenon DEF HInv, AckedIsPersisted, StartServer
<1> QED
  BY <1>6, <1>7, <1>8, <1>10, <1>11, Zenon DEF HInv
=============================================================================
