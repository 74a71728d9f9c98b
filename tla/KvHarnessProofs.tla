-------------------------- MODULE KvHarnessProofs ---------------------------
(***************************************************************************)
(* Proofs about KvHarness for every set of servers, clerks and calls: an   *)
(* acknowledged call is in the state handed to every later incarnation of  *)
(* its server.                                                             *)
(***************************************************************************)
EXTENDS KvHarnessTestProofs

\* A step that leaves the registry, the Persisters and the servers' memory alone keeps
\* what the invariant says of them.
LEMMA ConfigInv ==
    ASSUME HInv, TypeOK', HandlerFollowsCall', posthumous' \subseteq Call,
           ExecutedIsRemembered', AckedIsPersisted',
           UNCHANGED <<servers, op, started, kvservers, saved, contents, persister, memory, clerks, linked>>
    PROVE  HInv'
<1>1. HarnessTypeOK'
  BY Zenon DEF HInv, HarnessTypeOK
<1>2. OpFits' /\ RegisteredRuns'
  BY Zenon DEF HInv, OpFits, RegisteredRuns
<1>3. PersistersHoldMemory'
  BY DEF HInv, PersistersHoldMemory, Fresh
<1> QED
  BY <1>1, <1>2, <1>3, Zenon DEF HInv

\* The invariant of the network's calls is part of the harness's.
LEMMA NetworkInv == HInv => IInv
  BY Zenon DEF HInv, HarnessTypeOK, IInv

\* Making a call.
LEMMA HarnessCallInv ==
    ASSUME HInv, NEW c \in Call, NEW e \in EndName, HarnessCall(c, e) PROVE HInv'
<1>1. IInv'
  BY NetworkInv, CallInv, Zenon DEF HarnessCall
<1>2. UNCHANGED <<servers, info, handler>>
  BY Zenon DEF HarnessCall, StartCall, admin
<1>3. ExecutedIsRemembered'
  BY <1>2, Zenon DEF HInv, ExecutedIsRemembered, Ran, HarnessCall
<1>4. AckedIsPersisted'
  BY <1>2, Zenon DEF HInv, HarnessTypeOK, TypeOK, AckedIsPersisted, Saved, HarnessCall, StartCall, Goto
<1>5. posthumous' \subseteq Call
  BY Zenon DEF HInv, HarnessTypeOK, HarnessCall
<1> QED
  BY <1>1, <1>2, <1>3, <1>4, <1>5, ConfigInv, Zenon DEF IInv, HarnessCall

\* A call is answered only after the last test found its server registered, and then the
\* server's Persister is the one that will be copied.
LEMMA CheckedIsPersisted ==
    ASSUME HInv, NEW c \in Call, pc[c] = "checking", replyOK[c], ~isServerDead(c)
    PROVE  c \in Saved(info[c].server[1])
<1> DEFINE x == info[c].server
<1>1. handler[c] = "collected" /\ x # nil /\ x \in Instance /\ info[c].name \in Server
  BY NamesAssumption, Zenon DEF HInv, HarnessTypeOK, TypeOK, HandlerFollowsCall, Info
<1>2. servers[info[c].name] = x
  BY Zenon DEF isServerDead
<1>3. x = <<info[c].name, started[info[c].name]>>
  BY <1>1, <1>2, Zenon DEF HInv, HarnessTypeOK
<1>4. x[1] = info[c].name /\ x[2] = started[x[1]] /\ x[2] \in 1..MaxStarts
  BY <1>1, <1>3, Names
<1>5. Fresh(x[1])
  BY <1>1, <1>2, <1>4, Zenon DEF HInv, RegisteredRuns, Fresh
<1>6. persister[x] = saved[x[1]] /\ memory[x] = contents[x[1]][persister[x]]
  <2>1. x = <<x[1], started[x[1]]>> /\ x[1] \in Server
    BY <1>1, <1>3, <1>4, Zenon
  <2>2. \A i \in Server : Fresh(i) =>
            /\ persister[<<i, started[i]>>] = saved[i]
            /\ memory[<<i, started[i]>>] = contents[i][persister[<<i, started[i]>>]]
    <3>1. \A i \in Server : started[i] \in Nat
      BY StartedType, Zenon
    <3> QED
      BY <3>1 DEF HInv, PersistersHoldMemory
  <2> HIDE DEF x
  <2> QED
    BY <1>5, <2>1, <2>2, Zenon
<1>7. c \in memory[x]
  BY <1>1, Zenon DEF HInv, ExecutedIsRemembered, Ran
<1> QED
  BY <1>6, <1>7, Zenon DEF Saved

\* The network's goroutines.
LEMMA NetworkStepInv == ASSUME HInv, NetworkStep PROVE HInv'
<1>0. UNCHANGED config /\ UNCHANGED servers
  BY Zenon DEF NetworkStep, CallerStep, Accept, Abandon, StopListening, ProcessReq, ReadInfo, DropRequest,
         Dispatch, TakeReply, Poll, Check, DropReply, DelayReply, ReturnTrue, ReturnFalse,
         HandlerReturns, admin
<1>1. ASSUME NEW c \in Call, ReadInfo(c) PROVE HInv'
  <2>1. IInv'
    BY <1>1, NetworkInv, CallInv, Zenon DEF ProcessReq
  <2>2. endname[c] \in EndName /\ handler[c] = "none" /\ UNCHANGED handler
    BY <1>1, Zenon DEF HInv, HandlerFollowsCall, ReadInfo
  <2>3. info' = [info EXCEPT ![c] = EndnameInfo(endname[c])]
    BY <1>1, Zenon DEF ReadInfo
  <2>4. LET s == EndnameInfo(endname[c]).server IN s # nil => s[2] <= started[s[1]]
    <3> DEFINE n == connections[endname[c]]
    <3>1. CASE n = nil
      BY <3>1, Zenon DEF EndnameInfo
    <3>2. CASE n # nil
      <4>1. n \in Server /\ EndnameInfo(endname[c]).server = servers[n]
        BY <2>2, <3>2, NamesAssumption DEF HInv, HarnessTypeOK, TypeOK, EndnameInfo
      <4>2. servers[n] # nil => servers[n] = <<n, started[n]>>
        BY <4>1, Zenon DEF HInv, HarnessTypeOK
      <4>3. started[n] \in Nat
        BY <4>1, StartedType, Zenon
      <4> QED
        BY <4>1, <4>2, <4>3
    <3> QED
      BY <3>1, <3>2, Zenon
  <2>5. ExecutedIsRemembered'
    <3>1. ASSUME NEW d \in Call
          PROVE  /\ info'[d].server # nil => info'[d].server[2] <= started[info'[d].server[1]]
                 /\ Ran(d) => c # d /\ info'[d] = info[d]
      BY <2>2, <2>3, <2>4, Zenon DEF HInv, HarnessTypeOK, TypeOK, ExecutedIsRemembered, Ran
    <3> QED
      BY <1>0, <2>2, <3>1, Zenon DEF HInv, ExecutedIsRemembered, Ran, config
  <2>6. AckedIsPersisted'
    <3>1. pc \in [Call -> Position] /\ info \in [Call -> Info] /\ AckedIsPersisted
      BY Zenon DEF HInv, HarnessTypeOK, TypeOK
    <3>2. pc' = [pc EXCEPT ![c] = pc'[c]] /\ pc'[c] \in {"delivering", "failing"}
      BY <1>1, <3>1, Zenon DEF ReadInfo, Goto
    <3>3. \A d \in Call : pc'[d] \in {"replying", "delayed", "true"} => pc'[d] = pc[d] /\ info'[d] = info[d]
      BY <2>3, <3>1, <3>2, Zenon
    <3> QED
      BY <1>0, <3>1, <3>3, Zenon DEF AckedIsPersisted, Saved, config
  <2> QED
    BY <1>0, <2>1, <2>5, <2>6, ConfigInv, Zenon DEF HInv, HarnessTypeOK, IInv, config
<1>2. ASSUME NEW c \in Call,
             \/ CallerStep(c) \/ HandlerReturns(c) \/ DropRequest(c) \/ Dispatch(c) \/ TakeReply(c)
             \/ Poll(c) \/ Check(c) \/ DropReply(c) \/ DelayReply(c) \/ ReturnTrue(c) \/ ReturnFalse(c)
      PROVE  HInv'
  <2>1. IInv'
    BY <1>2, NetworkInv, CallInv, Zenon DEF ProcessReq
  <2>2. UNCHANGED info
    BY <1>2, Zenon DEF CallerStep, Accept, Abandon, HandlerReturns, DropRequest, Dispatch, TakeReply, Poll,
                Check, DropReply, DelayReply, ReturnTrue, ReturnFalse, locals
  <2>3. \A d \in Call : Ran(d)' => Ran(d)
    BY <1>2, ZenonT(30) DEF HInv, HarnessTypeOK, TypeOK, Ran, CallerStep, Accept, Abandon, HandlerReturns,
                DropRequest, Dispatch, TakeReply, Poll, Check, DropReply, DelayReply, ReturnTrue,
                ReturnFalse
  <2>4. ExecutedIsRemembered'
    BY <1>0, <2>2, <2>3, Zenon DEF HInv, ExecutedIsRemembered, config
  <2>5. \A d \in Call : pc'[d] \in {"replying", "delayed", "true"} =>
            \/ pc[d] \in {"replying", "delayed", "true"}
            \/ pc[d] = "checking" /\ replyOK[d] /\ ~isServerDead(d)
    BY <1>2 DEF HInv, HarnessTypeOK, TypeOK, Goto, CallerStep, Accept, Abandon, HandlerReturns,
                DropRequest, Dispatch, TakeReply, Poll, Check, DropReply, DelayReply, ReturnTrue,
                ReturnFalse
  <2>6. \A d \in Call : pc'[d] \in {"replying", "delayed", "true"} => d \in Saved(info[d].server[1])
    BY <2>5, CheckedIsPersisted, Zenon DEF HInv, AckedIsPersisted
  <2>7. AckedIsPersisted'
    BY <1>0, <2>2, <2>6, Zenon DEF AckedIsPersisted, Saved, config
  <2> QED
    BY <1>0, <2>1, <2>4, <2>7, ConfigInv DEF HInv, HarnessTypeOK, IInv, config
<1>3. CASE StopListening
  <2>1. UNCHANGED <<admin, pc, locals, handler>> /\ listening' = FALSE
    BY <1>3, Zenon DEF StopListening
  <2>2. TypeOK' /\ HandlerFollowsCall'
    BY <2>1, Zenon DEF HInv, HarnessTypeOK, TypeOK, HandlerFollowsCall, admin, locals
  <2>3. ExecutedIsRemembered' /\ AckedIsPersisted'
    BY <1>0, <2>1, Zenon DEF HInv, ExecutedIsRemembered, AckedIsPersisted, Ran, Saved, locals, config
  <2> QED
    BY <1>0, <2>2, <2>3, ConfigInv, Zenon DEF HInv, HarnessTypeOK, config
<1> QED
  BY <1>1, <1>2, <1>3, Zenon DEF NetworkStep, ProcessReq

\* A handler saves its server's memory in the Persister it was given; if that has been
\* copied already, the copy is not touched.
LEMMA ExecuteInv == ASSUME HInv, NEW c \in Call, HarnessExecute(c) PROVE HInv'
<1> DEFINE x == info[c].server
           i == x[1]
           p == persister[x]
<1>1. IInv'
  BY NetworkInv, CallInv, Zenon DEF HarnessExecute
<1>2. /\ UNCHANGED <<op, started, kvservers, saved, persister, clerks, linked, posthumous>>
      /\ UNCHANGED <<admin, pc, info>> /\ handler[c] = "running"
      /\ handler' = [handler EXCEPT ![c] = "executed"]
      /\ memory' = [memory EXCEPT ![x] = @ \union {c}]
      /\ contents' = [contents EXCEPT ![i][p] = memory'[x]]
  BY Zenon DEF HarnessExecute, Execute, locals
<1>3. /\ x # nil /\ x \in Instance /\ i \in Server /\ x = <<i, x[2]>>
      /\ x[2] \in 1..started[i]
  <2>1. x # nil /\ x \in Instance /\ x[2] <= started[i]
    BY <1>2, Zenon DEF HInv, HarnessTypeOK, TypeOK, Info, ExecutedIsRemembered
  <2>2. i \in Server /\ x[2] \in 1..MaxStarts /\ x = <<i, x[2]>>
    BY <2>1, Names, Zenon
  <2>3. started[i] \in Nat
    BY <2>2, StartedType, Zenon
  <2> QED
    BY <2>1, <2>2, <2>3
<1>4. /\ saved \in [Server -> PersisterNumber]
      /\ contents \in [Server -> [PersisterNumber -> SUBSET Call]]
      /\ persister \in [Instance -> PersisterNumber] /\ memory \in [Instance -> SUBSET Call]
      /\ started \in [Server -> 0..MaxStarts]
  BY Zenon DEF HInv, HarnessTypeOK
<1>5. memory[x] = contents[i][p]
  <2>1. \A j \in Server : \A g \in 1..started[j] : memory[<<j, g>>] = contents[j][persister[<<j, g>>]]
    BY Zenon DEF HInv, PersistersHoldMemory
  <2>2. memory[<<i, x[2]>>] = contents[i][persister[<<i, x[2]>>]]
    BY <1>3, <2>1, Zenon
  <2> QED
    BY <1>3, <2>2, Zenon
<1>6. p \in PersisterNumber /\ memory[x] \subseteq Call
  BY <1>3, <1>4, Zenon
<1>7. \A y \in Instance : memory'[y] = IF y = x THEN memory[x] \union {c} ELSE memory[y]
  BY <1>2, <1>3, <1>4, Zenon
<1>8. \A j \in Server : \A n \in PersisterNumber :
          contents'[j][n] = IF j = i /\ n = p THEN memory[x] \union {c} ELSE contents[j][n]
  <2>1. memory'[x] = memory[x] \union {c}
    BY <1>3, <1>7, ZenonT(30)
  <2> QED
    BY <1>2, <1>3, <1>4, <1>6, <2>1, Zenon
<1>9. \A j \in Server : \A n \in PersisterNumber : contents[j][n] \subseteq contents'[j][n]
  <2> SUFFICES ASSUME NEW j \in Server, NEW n \in PersisterNumber
               PROVE  contents[j][n] \subseteq contents'[j][n]
    BY Zenon
  <2>1. contents'[j][n] = IF j = i /\ n = p THEN memory[x] \union {c} ELSE contents[j][n]
    BY <1>8, Zenon
  <2>2. CASE j = i /\ n = p
    <3>1. contents'[j][n] = memory[x] \union {c} /\ contents[j][n] = memory[x]
      BY <1>5, <2>1, <2>2, Zenon
    <3> QED
      BY <3>1, Zenon
  <2>3. CASE ~(j = i /\ n = p)
    <3>1. contents'[j][n] = contents[j][n]
      BY <2>1, <2>3, Zenon
    <3> QED
      BY <3>1, Zenon
  <2> QED
    BY <2>2, <2>3, Zenon
<1>10. HarnessTypeOK'
  <2>1. memory' \in [Instance -> SUBSET Call]
    BY <1>2, <1>3, <1>4, Zenon
  <2>2. contents' \in [Server -> [PersisterNumber -> SUBSET Call]]
    <3>1. memory'[x] \in SUBSET Call
      BY <1>3, <2>1, Zenon
    <3> QED
      BY <1>2, <1>3, <1>4, <1>6, <3>1, Zenon
  <2> QED
    BY <1>1, <1>2, <2>1, <2>2, Zenon DEF IInv, HInv, HarnessTypeOK, admin
<1>11. OpFits' /\ RegisteredRuns' /\ HandlerFollowsCall'
  BY <1>1, <1>2, Zenon DEF HInv, OpFits, RegisteredRuns, IInv, admin
<1>12. PersistersHoldMemory'
  <2>1. \A j \in Server : Fresh(j)' = Fresh(j)
    BY <1>2, Zenon DEF Fresh
  <2>2. ASSUME NEW j \in Server, NEW g \in 1..started[j]
        PROVE  memory'[<<j, g>>] = contents'[j][persister[<<j, g>>]]
    <3>1. /\ <<j, g>> \in Instance /\ persister[<<j, g>>] \in PersisterNumber
          /\ g \in Nat /\ x[2] \in Nat
      BY <1>3, <1>4, <2>2, Names, StartsAssumption
    <3>2. persister[<<j, g>>] = 2 * g - 1 /\ memory[<<j, g>>] = contents[j][persister[<<j, g>>]]
      BY <2>2, Zenon DEF HInv, PersistersHoldMemory
    <3>3. p = 2 * x[2] - 1
      <4>1. persister[<<i, x[2]>>] = 2 * x[2] - 1
        BY <1>3, Zenon DEF HInv, PersistersHoldMemory
      <4> QED
        BY <1>3, <4>1, Zenon
    <3>4. CASE <<j, g>> = x
      <4>1. j = i /\ persister[<<j, g>>] = p
        BY <3>4
      <4> QED
        BY <1>3, <1>6, <1>7, <1>8, <3>1, <3>4, <4>1, Zenon
    <3>5. CASE <<j, g>> # x
      <4>1. ~(j = i /\ persister[<<j, g>>] = p)
        <5>1. j = i => g # x[2]
          BY <1>3, <3>5, Zenon
        <5> QED
          BY <3>1, <3>2, <3>3, <5>1
      <4>2. memory'[<<j, g>>] = memory[<<j, g>>]
        BY <1>7, <3>1, <3>5, Zenon
      <4>3. contents'[j][persister[<<j, g>>]] = contents[j][persister[<<j, g>>]]
        BY <1>8, <3>1, <4>1, Zenon
      <4> QED
        BY <3>2, <4>2, <4>3, Zenon
    <3> QED
      BY <3>4, <3>5, Zenon
  <2>3. ASSUME NEW j \in Server
        PROVE  /\ saved[j] = 2 * started[j] - (IF Fresh(j)' THEN 1 ELSE 0)
               /\ Fresh(j)' => started[j] >= 1 /\ persister[<<j, started[j]>>] = saved[j]
               /\ \A g \in 1..started[j] :
                      /\ persister[<<j, g>>] = 2 * g - 1 /\ persister[<<j, g>>] <= saved[j]
                      /\ memory'[<<j, g>>] = contents'[j][persister[<<j, g>>]]
    BY <2>1, <2>2, <2>3, Zenon DEF HInv, PersistersHoldMemory
  <2>4. saved' = saved /\ started' = started /\ persister' = persister
    BY <1>2, Zenon
  <2> QED
    BY <2>3, <2>4, ZenonT(30) DEF PersistersHoldMemory
<1>13. ExecutedIsRemembered'
  <2>1. ASSUME NEW d \in Call, Ran(d)' PROVE d \in memory'[info[d].server]
    <3>1. info[d].server \in Instance
      BY <1>1, <1>2, <2>1, Zenon DEF IInv, TypeOK, Info, Ran
    <3>2. d = c \/ Ran(d)
      BY <1>2, <2>1, Zenon DEF HInv, HarnessTypeOK, TypeOK, Ran
    <3>3. Ran(d) => d \in memory[info[d].server]
      BY Zenon DEF HInv, ExecutedIsRemembered
    <3> QED
      BY <1>3, <1>7, <3>1, <3>2, <3>3, Zenon
  <2> QED
    BY <1>2, <2>1, Zenon DEF HInv, ExecutedIsRemembered
<1>14. AckedIsPersisted'
  <2>1. ASSUME NEW d \in Call, pc[d] \in {"replying", "delayed", "true"}
        PROVE  d \in contents'[info[d].server[1]][saved[info[d].server[1]]]
    <3> DEFINE j == info[d].server[1]
    <3>1. j \in Server
      BY <2>1, Names DEF HInv, HarnessTypeOK, TypeOK, HandlerFollowsCall, Info
    <3>2. saved[j] \in PersisterNumber
      BY <1>4, <3>1, Zenon
    <3>3. d \in contents[j][saved[j]]
      BY <2>1, Zenon DEF HInv, AckedIsPersisted, Saved
    <3> HIDE DEF j
    <3>4. d \in contents'[j][saved[j]]
      BY <1>9, <3>1, <3>2, <3>3, Zenon
    <3> QED
      BY <3>4, Zenon DEF j
  <2> QED
    BY <1>2, <2>1, Zenon DEF AckedIsPersisted, Saved
<1> QED
  BY <1>10, <1>11, <1>12, <1>13, <1>14, Zenon DEF HInv

\* The invariant is inductive.
LEMMA HarnessNextInv == HInv /\ [HarnessNext]_hvars => HInv'
<1> SUFFICES ASSUME HInv, [HarnessNext]_hvars PROVE HInv'
  BY Zenon
<1>1. CASE UNCHANGED hvars
  <2>1. UNCHANGED core /\ UNCHANGED <<enabled, ends, connections, reliable, longReordering, done, clerks, linked>>
    BY <1>1, Zenon DEF hvars, vars, admin, config, core, callVars
  <2> QED
    BY <2>1, FlagsInv, Zenon DEF HInv, HarnessTypeOK, TypeOK
<1> QED
  BY <1>1, TestInv, DeleteInv, KillAddInv, CopyInv, StartInv, HarnessCallInv, ExecuteInv, NetworkStepInv, Zenon
     DEF HarnessNext

\* The harness's variables keep their types, and a server name is never registered for an
\* incarnation other than the latest.
THEOREM HarnessTypeCorrect == HarnessSpec => []HarnessTypeOK
<1>1. HInv => HarnessTypeOK
  BY Zenon DEF HInv
<1> QED
  BY <1>1, HarnessInitInv, HarnessNextInv, PTL DEF HarnessSpec

\* No acknowledged call is lost by a shutdown: processReq's last test makes sure that the
\* handler's effect was in the Persister before ShutdownServer copied it.
THEOREM AcknowledgedSurvives == HarnessSpec => []AckedIsPersisted
<1>1. HInv => AckedIsPersisted
  BY Zenon DEF HInv
<1> QED
  BY <1>1, HarnessInitInv, HarnessNextInv, PTL DEF HarnessSpec
=============================================================================
