----------------------- MODULE KvHarnessSilentProofs ------------------------
(***************************************************************************)
(* Proofs that a server of KvHarness that was shut down reaches nobody,    *)
(* and that the enabled ends are those the test has asked for.             *)
(***************************************************************************)
EXTENDS KvHarnessProofs

\* An end belongs to an incarnation that has been started.
Made(e) == e \in EndName /\ (e[1] \in Server => e[2] \in Nat /\ e[2] <= started[e[1]])

\* No end of an incarnation that was shut down is enabled, and the calls such an
\* incarnation makes do not get past readEndnameInfo.
SilentInv ==
    /\ \A e \in ends : Made(e)
    /\ \A e \in enabled : Made(e) /\ ~ShutDown(e)
    /\ \A c \in posthumous :
           /\ Made(endname[c]) /\ ShutDown(endname[c])
           /\ pc[c] \in {"sending", "received", "failing", "false"}
           /\ handler[c] = "none"

\* The ends of servers and of clerks differ.
LEMMA Owners ==
    /\ \A g, j : \A i \in Server : End(i, g, j)[1] = i /\ End(i, g, j)[2] = g
    /\ \A g, j : \A k \in Clerk : End(k, g, j)[1] \notin Server
    /\ \A e \in EndName : e[1] \in Server =>
           e[2] \in Nat /\ e[3] \in Server /\ e = End(e[1], e[2], e[3])
  BY NamesAssumption, StartsAssumption DEF ServerEnd, ClerkEnd, End

\* The steps that change what ShutDown says.
LEMMA Lifecycle ==
    ASSUME [HarnessNext]_hvars
    PROVE  \/ UNCHANGED <<op, started, kvservers>>
           \/ (\E i \in Server : ShutdownServer(i) \/ StartServer(i))
           \/ ShutdownDelete \/ ShutdownCopy \/ ShutdownKill \/ StartAdd
  BY ZenonT(30) DEF HarnessNext, hvars, config, Partition, ConnectAll, Unreliable, makeClient, ConnectClient,
         DisconnectClient, deleteClient, cleanup, HarnessExecute, HarnessCall, NetworkStep

\* The lifecycle variables after a step.
LEMMA StartedGrows ==
    ASSUME HInv, [HarnessNext]_hvars
    PROVE  \A j \in Server : started[j] \in Nat /\ started'[j] \in Nat /\ started[j] <= started'[j]
<1>1. started \in [Server -> 0..MaxStarts] /\ \A j \in Server : started[j] \in Nat
  BY StartedType, Zenon
<1>2. ASSUME NEW i \in Server, StartServer(i)
      PROVE  \A j \in Server : started'[j] \in Nat /\ started[j] <= started'[j]
  <2>1. started' = [started EXCEPT ![i] = started[i] + 1]
    BY <1>2, Zenon DEF StartServer
  <2> QED
    BY <1>1, <2>1
<1>3. CASE UNCHANGED started
  BY <1>1, <1>3
<1> QED
  BY <1>1, <1>2, <1>3, Lifecycle, Zenon
     DEF ShutdownServer, ShutdownDelete, ShutdownCopy, ShutdownKill, StartAdd

\* What has been shut down stays so.
LEMMA StaysDown ==
    ASSUME HInv, [HarnessNext]_hvars, NEW e, Made(e), ShutDown(e)
    PROVE  ShutDown(e)'
<1> DEFINE i == e[1]
<1>0. i \in Server /\ e[2] \in Nat /\ e[2] <= started[i] /\ started[i] \in Nat /\ started'[i] \in Nat
      /\ started[i] <= started'[i]
  BY StartedGrows, Zenon DEF Made, ShutDown
<1>1. CASE e[2] < started[i]
  BY <1>0, <1>1 DEF ShutDown
<1>2. CASE i \notin kvservers /\ op # [at |-> "add", server |-> i]
  <2>1. CASE UNCHANGED <<op, started, kvservers>>
    BY <1>0, <1>2, <2>1, Zenon DEF ShutDown
  <2>2. ASSUME NEW j \in Server, StartServer(j) PROVE ShutDown(e)'
    <3>1. CASE j = i
      <4>1. started'[i] = started[i] + 1
        BY <1>0, <2>2, <3>1, StartedType, Zenon DEF StartServer
      <4>2. e[2] < started'[i]
        BY <1>0, <4>1
      <4> QED
        BY <1>0, <4>2, Zenon DEF ShutDown
    <3>2. CASE j # i
      BY <1>0, <1>2, <2>2, <3>2, Zenon DEF StartServer, ShutDown
    <3> QED
      BY <3>1, <3>2, Zenon
  <2>3. ASSUME NEW j \in Server, ShutdownServer(j) PROVE ShutDown(e)'
    BY <1>0, <1>2, <2>3, Zenon DEF ShutdownServer, ShutDown
  <2>4. CASE ShutdownDelete \/ ShutdownCopy
    <3>1. kvservers' = kvservers /\ op'.at # "add"
      BY <2>4, Zenon DEF ShutdownDelete, ShutdownCopy, HInv, HarnessTypeOK
    <3> QED
      BY <1>0, <1>2, <3>1 DEF ShutDown
  <2>5. CASE ShutdownKill
    BY <1>0, <1>2, <2>5, Zenon DEF ShutdownKill, ShutDown, Idle
  <2>6. CASE StartAdd
    <3>1. op.server # i
      BY <1>2, <2>6, Zenon DEF StartAdd, HInv, HarnessTypeOK
    <3> QED
      BY <1>0, <1>2, <2>6, <3>1, Zenon DEF StartAdd, ShutDown, Idle
  <2> QED
    BY <2>1, <2>2, <2>3, <2>4, <2>5, <2>6, Lifecycle, Zenon
<1>3. CASE op.server = i /\ op.at \in {"delete", "copy", "kill"}
  <2>1. CASE UNCHANGED <<op, started, kvservers>>
    BY <1>0, <1>3, <2>1, Zenon DEF ShutDown
  <2>2. CASE ShutdownDelete \/ ShutdownCopy
    <3>1. op'.server = i /\ op'.at \in {"copy", "kill"}
      BY <1>3, <2>2, Zenon DEF ShutdownDelete, ShutdownCopy, HInv, HarnessTypeOK
    <3> QED
      BY <1>0, <3>1, Zenon DEF ShutDown
  <2>3. CASE ShutdownKill
    BY <1>0, <1>3, <2>3, Zenon DEF ShutdownKill, ShutDown, Idle
  <2>4. ~StartAdd /\ \A j \in Server : ~ShutdownServer(j) /\ ~StartServer(j)
    <3>1. op.at # "add" /\ op # Idle
      BY <1>3 DEF Idle
    <3> QED
      BY <3>1, Zenon DEF StartAdd, ShutdownServer, StartServer, Ready
  <2> QED
    BY <2>1, <2>2, <2>3, <2>4, Lifecycle, Zenon
<1> QED
  BY <1>1, <1>2, <1>3, Zenon DEF ShutDown

\* Ends stay made.
LEMMA MadeStays ==
    ASSUME HInv, [HarnessNext]_hvars, NEW e, Made(e)
    PROVE  Made(e)'
<1>1. CASE e[1] \in Server
  BY <1>1, StartedGrows DEF Made
<1>2. CASE e[1] \notin Server
  BY <1>2, Zenon DEF Made
<1> QED
  BY <1>1, <1>2, Zenon

\* An enabled end of a running incarnation becomes one of an incarnation that was shut
\* down only by ShutdownServer, which disables it.
LEMMA EnabledStayUp ==
    ASSUME HInv, SilentInv, [HarnessNext]_hvars, NEW e \in enabled, e \in enabled'
    PROVE  ~ShutDown(e)'
<1> DEFINE i == e[1]
<1>0. Made(e) /\ ~ShutDown(e) /\ e \in EndName
  BY Zenon DEF SilentInv, Made
<1> SUFFICES ASSUME i \in Server PROVE ~ShutDown(e)'
  BY Zenon DEF ShutDown
<1>1. e[2] = started[i] /\ started[i] \in Nat
  BY <1>0, StartedGrows DEF Made, ShutDown
<1>2. /\ i \in kvservers \/ op = [at |-> "add", server |-> i]
      /\ ~(op.server = i /\ op.at \in {"delete", "copy", "kill"})
  BY <1>0, Zenon DEF ShutDown
<1>3. CASE UNCHANGED <<op, started, kvservers>>
  BY <1>0, <1>3, Zenon DEF ShutDown
<1>4. ASSUME NEW j \in Server, StartServer(j) PROVE ~ShutDown(e)'
  <2>1. i \in kvservers /\ j # i
    BY <1>2, <1>4, Zenon DEF StartServer, Ready, Idle
  <2>2. started'[i] = started[i] /\ kvservers' = kvservers /\ op' = [at |-> "add", server |-> j]
    BY <1>4, <2>1, StartedType, Zenon DEF StartServer
  <2> QED
    BY <1>1, <2>1, <2>2 DEF ShutDown
<1>5. ASSUME NEW j \in Server, ShutdownServer(j) PROVE ~ShutDown(e)'
  <2>1. j # i
    <3>1. e = End(i, started[i], e[3]) /\ e[3] \in Server
      BY <1>0, <1>1, Owners, Zenon
    <3>2. e \in Links(i, Server)
      BY <3>1, Zenon DEF Links, EndOf
    <3>3. e \notin Links(j, Server)
      BY <1>5, Zenon DEF ShutdownServer, disconnectUnlocked
    <3> QED
      BY <3>2, <3>3, Zenon
  <2>2. i \in kvservers
    BY <1>2, <1>5, Zenon DEF ShutdownServer, Ready, Idle
  <2> QED
    BY <1>1, <1>5, <2>1, <2>2 DEF ShutdownServer, ShutDown
<1>6. CASE ShutdownDelete \/ ShutdownCopy
  <2>1. kvservers' = kvservers /\ started' = started /\ op'.server = op.server /\ i \in kvservers /\ op.server # i
    BY <1>2, <1>6 DEF ShutdownDelete, ShutdownCopy, HInv, HarnessTypeOK
  <2> QED
    BY <1>1, <2>1 DEF ShutDown
<1>7. CASE ShutdownKill
  BY <1>1, <1>2, <1>7, Names DEF ShutdownKill, ShutDown, Idle
<1>8. CASE StartAdd
  <2>1. i \in kvservers'
    BY <1>2, <1>8 DEF StartAdd
  <2> QED
    BY <1>1, <1>8, <2>1, Names DEF StartAdd, ShutDown, Idle
<1> QED
  BY <1>3, <1>4, <1>5, <1>6, <1>7, <1>8, Lifecycle, Zenon

\* A step enables ends of clerks, or, while every server runs, of the latest incarnations.
LEMMA NewlyEnabled ==
    ASSUME HInv, [HarnessNext]_hvars, NEW e \in enabled', e \notin enabled
    PROVE  Made(e)' /\ ~ShutDown(e)'
<1>1. ASSUME NEW from \in SUBSET Server, NEW to \in SUBSET Server, Ready, AllRunning,
             UNCHANGED <<op, started, kvservers>>, e \in Between(from, to)
      PROVE  Made(e)' /\ ~ShutDown(e)'
  <2>1. PICK i \in Server, j \in Server : e = End(i, started[i], j)
    BY <1>1, Zenon DEF Between, Links, EndOf
  <2>2. e \in EndName
    BY <1>1, BetweenAreEnds, Zenon
  <2>3. e[1] = i /\ e[2] = started[i] /\ started[i] \in Nat
    BY <2>1, StartedGrows, Owners
  <2> QED
    BY <1>1, <2>2, <2>3, Names DEF Made, ShutDown, Ready, AllRunning, Idle
<1>2. ASSUME NEW k \in Clerk, NEW j \in Server, e = End(k, 1, j) PROVE Made(e)' /\ ~ShutDown(e)'
  BY <1>2, Names, Owners, Zenon DEF Made, ShutDown
<1>3. ASSUME NEW p1 \in SUBSET Server, Partition(p1) PROVE Made(e)' /\ ~ShutDown(e)'
  <2>1. e \in Between(p1, p1) \/ e \in Between(Server \ p1, Server \ p1)
    BY <1>3, Zenon DEF Partition
  <2> QED
    BY <1>1, <1>3, <2>1, Zenon DEF Partition
<1>4. CASE ConnectAll
  BY <1>1, <1>4, Zenon DEF ConnectAll
<1>5. ASSUME NEW k \in Clerk, NEW to \in SUBSET Server, makeClient(k, to) \/ ConnectClient(k, to)
      PROVE  Made(e)' /\ ~ShutDown(e)'
  <2>1. \E j \in Server : e = End(k, 1, j)
    BY <1>5, Zenon DEF makeClient, ConnectClient
  <2> QED
    BY <1>2, <2>1, Zenon
<1>6. \/ enabled' \subseteq enabled
      \/ \E p1 \in SUBSET Server : Partition(p1)
      \/ ConnectAll
      \/ \E k \in Clerk, to \in SUBSET Server : makeClient(k, to) \/ ConnectClient(k, to)
  BY ZenonT(30) DEF HarnessNext, hvars, vars, admin, Unreliable, Reliable, DisconnectClient, deleteClient,
         ShutdownServer, disconnectUnlocked, StartServer, ShutdownDelete, DeleteServer, ShutdownCopy,
         ShutdownKill, StartAdd, AddServer, cleanup, Cleanup, HarnessExecute, Execute, HarnessCall,
         StartCall, NetworkStep, CallerStep, Accept, Abandon, StopListening, ProcessReq, ReadInfo,
         DropRequest, Dispatch, TakeReply, Poll, Check, DropReply, DelayReply, ReturnTrue, ReturnFalse,
         HandlerReturns
<1> QED
  BY <1>3, <1>4, <1>5, <1>6, Zenon

\* New ends are those of an incarnation that is being started, or of a clerk.
LEMMA NewEnds ==
    ASSUME HInv, [HarnessNext]_hvars, NEW e \in ends', e \notin ends
    PROVE  Made(e)'
<1>1. ASSUME NEW i \in Server, StartServer(i) PROVE Made(e)'
  <2>1. PICK j \in Server : e = End(i, started[i] + 1, j)
    BY <1>1, Zenon DEF StartServer
  <2>2. started[i] + 1 \in 1..MaxStarts /\ started'[i] = started[i] + 1
    <3>1. started' = [started EXCEPT ![i] = started[i] + 1] /\ started[i] + 1 <= MaxStarts
      BY <1>1, Zenon DEF StartServer
    <3> QED
      BY <3>1, StartedType, StartsAssumption
  <2> QED
    BY <2>1, <2>2, Names, Owners DEF Made
<1>2. ASSUME NEW k \in Clerk, NEW to \in SUBSET Server, makeClient(k, to) PROVE Made(e)'
  <2>1. PICK j \in Server : e = End(k, 1, j)
    BY <1>2, ZenonT(30) DEF makeClient
  <2> QED
    BY <2>1, Names, Owners, Zenon DEF Made
<1>3. \/ ends' = ends
      \/ \E i \in Server : StartServer(i)
      \/ \E k \in Clerk, to \in SUBSET Server : makeClient(k, to)
  BY ZenonT(30) DEF HarnessNext, hvars, vars, admin, netExceptEnabled, Partition, ConnectAll, Unreliable, Reliable,
         ConnectClient, DisconnectClient, deleteClient, ShutdownServer, ShutdownDelete, DeleteServer,
         ShutdownCopy, ShutdownKill, StartAdd, AddServer, cleanup, Cleanup, HarnessExecute, Execute,
         HarnessCall, StartCall, NetworkStep, CallerStep, Accept, Abandon, StopListening, ProcessReq,
         ReadInfo, DropRequest, Dispatch, TakeReply, Poll, Check, DropReply, DelayReply, ReturnTrue,
         ReturnFalse, HandlerReturns
<1> QED
  BY <1>1, <1>2, <1>3, Zenon

\* A call of a server that was shut down is refused because its end is disabled.
LEMMA PosthumousFail ==
    ASSUME HInv, SilentInv, [HarnessNext]_hvars, NEW c \in posthumous
    PROVE  /\ endname'[c] = endname[c]
           /\ pc'[c] \in {"sending", "received", "failing", "false"}
           /\ handler'[c] = "none"
<1>0. /\ c \in Call /\ handler[c] = "none" /\ pc[c] \in {"sending", "received", "failing", "false"}
      /\ endname[c] \notin enabled
      /\ pc \in [Call -> Position] /\ handler \in [Call -> Handler] /\ endname \in [Call -> EndName \union {nil}]
  BY Zenon DEF HInv, HarnessTypeOK, TypeOK, SilentInv
<1>1. CASE UNCHANGED <<pc, handler, endname>>
  BY <1>0, <1>1, Zenon
<1>2. ASSUME NEW d \in Call, NEW e \in EndName, HarnessCall(d, e)
      PROVE  /\ endname'[c] = endname[c]
             /\ pc'[c] \in {"sending", "received", "failing", "false"}
             /\ handler'[c] = "none"
  BY <1>0, <1>2, Zenon DEF HarnessCall, StartCall, Goto
<1>3. ASSUME NEW d \in Call,
             \/ HarnessExecute(d) \/ HandlerReturns(d) \/ CallerStep(d) \/ ProcessReq(d)
      PROVE  /\ endname'[c] = endname[c]
             /\ pc'[c] \in {"sending", "received", "failing", "false"}
             /\ handler'[c] = "none"
  <2>1. endname' = endname
    BY <1>3, Zenon DEF HarnessExecute, Execute, HandlerReturns, CallerStep, Accept, Abandon, ProcessReq, ReadInfo,
                DropRequest, Dispatch, TakeReply, Poll, Check, DropReply, DelayReply, ReturnTrue,
                ReturnFalse, locals
  <2>2. handler'[c] = "none"
    BY <1>0, <1>3, Zenon DEF HarnessExecute, Execute, HandlerReturns, CallerStep, Accept, Abandon, ProcessReq,
                ReadInfo, DropRequest, Dispatch, TakeReply, Poll, Check, DropReply, DelayReply,
                ReturnTrue, ReturnFalse
  <2>3. pc'[c] \in {"sending", "received", "failing", "false"}
    BY <1>0, <1>3, ZenonT(30) DEF HarnessExecute, Execute, HandlerReturns, CallerStep, Accept, Abandon, ProcessReq,
                ReadInfo, DropRequest, Dispatch, TakeReply, Poll, Check, DropReply, DelayReply,
                ReturnTrue, ReturnFalse, Goto
  <2> QED
    BY <2>1, <2>2, <2>3, Zenon
<1>4. \/ UNCHANGED <<pc, handler, endname>>
      \/ \E d \in Call, e \in EndName : HarnessCall(d, e)
      \/ \E d \in Call : HarnessExecute(d) \/ HandlerReturns(d) \/ CallerStep(d) \/ ProcessReq(d)
  BY ZenonT(30) DEF HarnessNext, hvars, vars, locals, callVars, netExceptEnabled, Partition, ConnectAll, Unreliable,
         Reliable, makeClient, ConnectClient, DisconnectClient, deleteClient, ShutdownServer, StartServer,
         ShutdownDelete, DeleteServer, ShutdownCopy, ShutdownKill, StartAdd, AddServer, cleanup, Cleanup,
         NetworkStep, StopListening
<1> QED
  BY <1>1, <1>2, <1>3, <1>4, Zenon

\* A call is posthumous only if it was, or is made by a server that was shut down.
LEMMA NewlyPosthumous ==
    ASSUME HInv, SilentInv, [HarnessNext]_hvars, NEW c \in posthumous', c \notin posthumous
    PROVE  /\ Made(endname'[c]) /\ ShutDown(endname'[c])
           /\ pc'[c] = "sending" /\ handler'[c] = "none"
<1>1. PICK d \in Call, e \in EndName : HarnessCall(d, e)
  BY Zenon DEF HarnessNext, hvars, config, Partition, ConnectAll, Unreliable, makeClient, ConnectClient,
         DisconnectClient, deleteClient, ShutdownServer, StartServer, ShutdownDelete, ShutdownCopy,
         ShutdownKill, StartAdd, cleanup, HarnessExecute, NetworkStep
<1>2. d = c /\ ShutDown(e)
  BY <1>1, Zenon DEF HarnessCall
<1>3. endname'[c] = e /\ e \in ends /\ pc'[c] = "sending" /\ handler'[c] = handler[c] /\ pc[c] = "idle"
  BY <1>1, <1>2, Zenon DEF HarnessCall, StartCall, Goto, HInv, HarnessTypeOK, TypeOK
<1>4. handler[c] = "none"
  BY <1>2, <1>3, Zenon DEF HInv, HandlerFollowsCall
<1>5. Made(e)
  BY <1>3, Zenon DEF SilentInv
<1> QED
  BY <1>2, <1>3, <1>4, <1>5, Zenon

\* The invariant is inductive, given the other.
LEMMA SilentNext == HInv /\ SilentInv /\ [HarnessNext]_hvars => SilentInv'
<1> SUFFICES ASSUME HInv, SilentInv, [HarnessNext]_hvars PROVE SilentInv'
  BY Zenon
<1>1. ASSUME NEW e \in ends' PROVE Made(e)'
  <2>1. CASE e \in ends
    BY <2>1, MadeStays, Zenon DEF SilentInv
  <2>2. CASE e \notin ends
    BY <2>2, NewEnds, Zenon
  <2> QED
    BY <2>1, <2>2, Zenon
<1>2. ASSUME NEW e \in enabled' PROVE Made(e)' /\ ~ShutDown(e)'
  <2>1. CASE e \in enabled
    BY <2>1, MadeStays, EnabledStayUp, Zenon DEF SilentInv
  <2>2. CASE e \notin enabled
    BY <2>2, NewlyEnabled, Zenon
  <2> QED
    BY <2>1, <2>2, Zenon
<1>3. ASSUME NEW c \in posthumous'
      PROVE  /\ Made(endname[c])' /\ ShutDown(endname[c])'
             /\ pc'[c] \in {"sending", "received", "failing", "false"}
             /\ handler'[c] = "none"
  <2>1. /\ Made(endname'[c]) /\ ShutDown(endname'[c])
        /\ pc'[c] \in {"sending", "received", "failing", "false"}
        /\ handler'[c] = "none"
    <3>1. CASE c \in posthumous
      <4>1. Made(endname[c]) /\ ShutDown(endname[c])
        BY <3>1, Zenon DEF SilentInv
      <4> QED
        BY <3>1, <4>1, PosthumousFail, Zenon
    <3>2. CASE c \notin posthumous
      BY <3>2, NewlyPosthumous, Zenon
    <3> QED
      BY <3>1, <3>2, Zenon
  <2>2. PICK e : e = endname'[c]
    BY Zenon
  <2>3. Made(e)' /\ ShutDown(e)'
    BY <2>1, <2>2, MadeStays, StaysDown, Zenon
  <2> QED
    BY <2>1, <2>2, <2>3, Zenon DEF Made, ShutDown
<1> QED
  BY <1>1, <1>2, <1>3, Zenon DEF SilentInv

\* No call made by a server after its shutdown has begun is ever executed: all its ends
\* were disabled, and no later partition, ConnectAll or restart enables one of them.
THEOREM DeadServersSilent == HarnessSpec => []DeadServersAreSilent
<1>1. HarnessInit => SilentInv
  BY Zenon DEF HarnessInit, Init, SilentInv
<1>2. SilentInv => DeadServersAreSilent
  BY Zenon DEF SilentInv, DeadServersAreSilent
<1> QED
  BY <1>1, <1>2, HarnessInitInv, HarnessNextInv, SilentNext, PTL DEF HarnessSpec

-----------------------------------------------------------------------------
(* Links *)

\* Servers that are to reach one another run, and nobody is shutting them down.
LinksRun ==
    \A i, j \in Server :
        <<i, j>> \in linked =>
            \A s \in {i, j} : s \in kvservers /\ ~(op.server = s /\ op.at \in {"delete", "copy", "kill"})

\* An end of a latest incarnation, or of a clerk, is enabled when the test wants it to
\* be, and there are no others.
EnabledAreLinks ==
    /\ \A i, j \in Server : EndOf(i, j) \in enabled <=> <<i, j>> \in linked
    /\ \A k \in Clerk, j \in Server : End(k, 1, j) \in enabled <=> <<k, j>> \in linked
    /\ \A e \in enabled :
           \/ \E i, j \in Server : e = EndOf(i, j)
           \/ \E k \in Clerk, j \in Server : e = End(k, 1, j)

LinksInv == LinksRun /\ EnabledAreLinks

\* The ends between two groups are those of the pairs.
LEMMA BetweenPairs ==
    ASSUME NEW from \in SUBSET Server, NEW to \in SUBSET Server
    PROVE  /\ \A i, j \in Server : EndOf(i, j) \in Between(from, to) <=>
                  (i \in from /\ j \in to) \/ (j \in from /\ i \in to)
           /\ \A e \in Between(from, to) : \E i, j \in Server : e = EndOf(i, j)
<1>1. \A i, j, k, l : EndOf(i, j) = EndOf(k, l) => i = k /\ j = l
  BY DEF EndOf, End
<1>2. ASSUME NEW i \in Server, NEW j \in Server
      PROVE  EndOf(i, j) \in Between(from, to) <=> (i \in from /\ j \in to) \/ (j \in from /\ i \in to)
  <2>1. ASSUME EndOf(i, j) \in Between(from, to) PROVE (i \in from /\ j \in to) \/ (j \in from /\ i \in to)
    <3>1. PICK k \in from : EndOf(i, j) \in Links(k, to)
      BY <2>1, Zenon DEF Between
    <3>2. PICK l \in to : EndOf(i, j) = EndOf(k, l) \/ EndOf(i, j) = EndOf(l, k)
      BY <3>1, Zenon DEF Links
    <3> QED
      BY <1>1, <3>2, Zenon
  <2>2. ASSUME i \in from, j \in to
        PROVE  EndOf(i, j) \in Between(from, to) /\ EndOf(j, i) \in Between(from, to)
    <3>1. EndOf(i, j) \in Links(i, to) /\ EndOf(j, i) \in Links(i, to)
      BY <2>2, Zenon DEF Links
    <3> QED
      BY <2>2, <3>1, Zenon DEF Between
  <2>3. ASSUME j \in from, i \in to
        PROVE  EndOf(i, j) \in Between(from, to)
    <3>1. EndOf(i, j) \in Links(j, to)
      BY <2>3, Zenon DEF Links
    <3> QED
      BY <2>3, <3>1, Zenon DEF Between
  <2> QED
    BY <2>1, <2>2, <2>3, Zenon
<1>3. ASSUME NEW e \in Between(from, to) PROVE \E i, j \in Server : e = EndOf(i, j)
  <2>1. PICK k \in from : e \in Links(k, to)
    BY Zenon DEF Between
  <2>2. PICK l \in to : e = EndOf(k, l) \/ e = EndOf(l, k)
    BY <2>1, Zenon DEF Links
  <2> QED
    BY <2>2, Zenon
<1> QED
  BY <1>2, <1>3, Zenon

\* Steps that move links while nobody starts or stops.
LEMMA FlagLinks ==
    ASSUME LinksInv, UNCHANGED <<op, started, kvservers>>,
           \/ \E p1 \in SUBSET Server : Partition(p1)
           \/ ConnectAll
           \/ \E k \in Clerk, group \in SUBSET Server :
                  makeClient(k, group) \/ ConnectClient(k, group) \/ DisconnectClient(k, group)
    PROVE  LinksInv'
<1>1. \A i, j : EndOf(i, j)' = EndOf(i, j)
  BY Zenon DEF EndOf
<1>2. \A i \in Server, k \in Clerk : i # k
  BY NamesAssumption
<1>3. \A i \in Server, k \in Clerk, j, l \in Server : EndOf(i, j) # End(k, 1, l)
  BY <1>2 DEF EndOf, End
<1>4. \A k, l \in Clerk, i, j \in Server : End(k, 1, i) = End(l, 1, j) => k = l /\ i = j
  BY DEF End
<1>5. ASSUME NEW p1 \in SUBSET Server, Partition(p1) PROVE LinksInv'
  <2> DEFINE p2 == Server \ p1
             cut == Between(p1, p2)
             joined == Between(p1, p1) \union Between(p2, p2)
  <2>1. enabled' = (enabled \ cut) \union joined
    BY <1>5, Zenon DEF Partition
  <2>2. p1 \in SUBSET Server /\ p2 \in SUBSET Server
    OBVIOUS
  <2>3. /\ \A i, j \in Server : EndOf(i, j) \in cut <=> (i \in p1 /\ j \in p2) \/ (j \in p1 /\ i \in p2)
        /\ \A e \in cut : \E i, j \in Server : e = EndOf(i, j)
    BY <2>2, BetweenPairs
  <2>4. /\ \A i, j \in Server : EndOf(i, j) \in joined <=> (i \in p1 /\ j \in p1) \/ (i \in p2 /\ j \in p2)
        /\ \A e \in joined : \E i, j \in Server : e = EndOf(i, j)
    BY <2>2, BetweenPairs
  <2> HIDE DEF cut, joined
  <2>5. \A k \in Clerk, j \in Server : End(k, 1, j) \notin cut /\ End(k, 1, j) \notin joined
    <3> SUFFICES ASSUME NEW k \in Clerk, NEW j \in Server, NEW e, e = End(k, 1, j)
                 PROVE  e \notin cut /\ e \notin joined
      BY Zenon
    <3>1. \A i, l \in Server : e # EndOf(i, l)
      BY <1>3, Zenon
    <3>2. /\ \A d \in cut : \E i, l \in Server : d = EndOf(i, l)
          /\ \A d \in joined : \E i, l \in Server : d = EndOf(i, l)
      BY <2>3, <2>4
    <3> QED
      BY <3>1, <3>2, Zenon
  <2>6. \A i, j \in Server : <<i, j>> \in linked' <=> (i \in p1 /\ j \in p1) \/ (i \in p2 /\ j \in p2)
    BY <1>5 DEF Partition
  <2>7. \A k \in Clerk, j \in Server : <<k, j>> \in linked' <=> <<k, j>> \in linked
    BY <1>2, <1>5 DEF Partition
  <2>8. \A i, j \in Server : EndOf(i, j)' \in enabled' <=> <<i, j>> \in linked'
    BY <1>1, <2>1, <2>3, <2>4, <2>6, Zenon
  <2>9. \A k \in Clerk, j \in Server : End(k, 1, j) \in enabled' <=> <<k, j>> \in linked'
    BY <2>1, <2>5, <2>7, Zenon DEF LinksInv, EnabledAreLinks
  <2>10. \A e \in enabled' : \/ \E i, j \in Server : e = EndOf(i, j)'
                             \/ \E k \in Clerk, j \in Server : e = End(k, 1, j)
    BY <1>1, <2>1, <2>4, Zenon DEF LinksInv, EnabledAreLinks
  <2>11. LinksRun'
    <3>1. Server \subseteq kvservers' /\ op'.at = "idle"
      BY <1>5 DEF Partition, Ready, AllRunning, Idle
    <3> QED
      BY <3>1 DEF LinksRun
  <2> QED
    BY <2>8, <2>9, <2>10, <2>11, Zenon DEF LinksInv, EnabledAreLinks
<1>6. CASE ConnectAll
  <2> DEFINE joined == Between(Server, Server)
  <2>1. enabled' = enabled \union joined
    BY <1>6, Zenon DEF ConnectAll
  <2>2. /\ \A i, j \in Server : EndOf(i, j) \in joined
        /\ \A e \in joined : \E i, j \in Server : e = EndOf(i, j)
    BY BetweenPairs
  <2>3. \A k \in Clerk, j \in Server : End(k, 1, j) \notin joined
    BY <1>3, <2>2
  <2> HIDE DEF joined
  <2>4. /\ \A i, j \in Server : <<i, j>> \in linked'
        /\ \A k \in Clerk, j \in Server : <<k, j>> \in linked' <=> <<k, j>> \in linked
    BY <1>2, <1>6 DEF ConnectAll
  <2>5. EnabledAreLinks'
    <3>1. \A i, j \in Server : EndOf(i, j)' \in enabled' <=> <<i, j>> \in linked'
      BY <1>1, <2>1, <2>2, <2>4, Zenon
    <3>2. \A k \in Clerk, j \in Server : End(k, 1, j) \in enabled' <=> <<k, j>> \in linked'
      BY <2>1, <2>3, <2>4, Zenon DEF LinksInv, EnabledAreLinks
    <3>3. \A e \in enabled' : \/ \E i, j \in Server : e = EndOf(i, j)'
                              \/ \E k \in Clerk, j \in Server : e = End(k, 1, j)
      BY <1>1, <2>1, <2>2, Zenon DEF LinksInv, EnabledAreLinks
    <3> QED
      BY <3>1, <3>2, <3>3, Zenon DEF EnabledAreLinks
  <2>6. LinksRun'
    <3>1. Server \subseteq kvservers' /\ op'.at = "idle"
      BY <1>6 DEF ConnectAll, Ready, AllRunning, Idle
    <3> QED
      BY <3>1 DEF LinksRun
  <2> QED
    BY <2>5, <2>6, Zenon DEF LinksInv
<1>7. ASSUME NEW k \in Clerk, NEW group \in SUBSET Server,
             makeClient(k, group) \/ ConnectClient(k, group) \/ DisconnectClient(k, group)
      PROVE  LinksInv'
  <2> DEFINE those == {End(k, 1, j) : j \in group}
             pairs == {k} \X group
  <2>1. \/ enabled' = enabled \union those /\ linked' = linked \union pairs
        \/ enabled' = enabled \ those /\ linked' = linked \ pairs
    BY <1>7, Zenon DEF makeClient, ConnectClient, DisconnectClient
  <2>2. \A i, j \in Server : EndOf(i, j) \notin those /\ <<i, j>> \notin pairs
    BY <1>2, <1>3
  <2>3. \A l \in Clerk, j \in Server : End(l, 1, j) \in those <=> <<l, j>> \in pairs
    BY <1>4
  <2>4. \A e \in those : \E l \in Clerk, j \in Server : e = End(l, 1, j)
    OBVIOUS
  <2> HIDE DEF those, pairs
  <2>5. EnabledAreLinks'
    <3>1. \A i, j \in Server : EndOf(i, j)' \in enabled' <=> <<i, j>> \in linked'
      BY <1>1, <2>1, <2>2, Zenon DEF LinksInv, EnabledAreLinks
    <3>2. \A l \in Clerk, j \in Server : End(l, 1, j) \in enabled' <=> <<l, j>> \in linked'
      BY <2>1, <2>3, Zenon DEF LinksInv, EnabledAreLinks
    <3>3. \A e \in enabled' : \/ \E i, j \in Server : e = EndOf(i, j)'
                              \/ \E l \in Clerk, j \in Server : e = End(l, 1, j)
      BY <1>1, <2>1, <2>4, Zenon DEF LinksInv, EnabledAreLinks
    <3> QED
      BY <3>1, <3>2, <3>3, Zenon DEF EnabledAreLinks
  <2>6. LinksRun'
    BY <2>1, <2>2, Zenon DEF LinksInv, LinksRun
  <2> QED
    BY <2>5, <2>6, Zenon DEF LinksInv
<1> QED
  BY <1>5, <1>6, <1>7, Zenon

\* A shutdown cuts its server's links, and a start leaves its new ends disabled.
LEMMA LifecycleLinks ==
    ASSUME HInv, LinksInv,
           \/ \E s \in Server : ShutdownServer(s) \/ StartServer(s)
           \/ ShutdownDelete \/ ShutdownCopy \/ ShutdownKill \/ StartAdd
    PROVE  LinksInv'
<1>1. \A i \in Server, k \in Clerk : i # k
  BY NamesAssumption
<1>2. \A i \in Server, k \in Clerk, j, l \in Server : EndOf(i, j) # End(k, 1, l)
  BY <1>1 DEF EndOf, End
<1>3. ASSUME UNCHANGED <<enabled, linked, started>> PROVE EnabledAreLinks'
  BY <1>3, Zenon DEF LinksInv, EnabledAreLinks, EndOf
<1>4. ASSUME NEW s \in Server, ShutdownServer(s) PROVE LinksInv'
  <2>1. /\ enabled' = enabled \ Links(s, Server) /\ linked' = linked \ Pairs(s, Server)
        /\ op' = [at |-> "delete", server |-> s] /\ UNCHANGED <<started, kvservers>>
    BY <1>4, Zenon DEF ShutdownServer, disconnectUnlocked
  <2>2. \A i, j \in Server : EndOf(i, j) \in Links(s, Server) <=> i = s \/ j = s
    BY DEF Links, EndOf, End
  <2>3. \A i, j \in Server : <<i, j>> \in Pairs(s, Server) <=> i = s \/ j = s
    BY DEF Pairs
  <2>4. \A k \in Clerk, j \in Server : End(k, 1, j) \notin Links(s, Server) /\ <<k, j>> \notin Pairs(s, Server)
    BY <1>1, <1>2 DEF Links, Pairs
  <2>5. EnabledAreLinks'
    <3>1. \A i, j : EndOf(i, j)' = EndOf(i, j)
      BY <2>1, Zenon DEF EndOf
    <3>2. \A i, j \in Server : EndOf(i, j)' \in enabled' <=> <<i, j>> \in linked'
      BY <2>1, <2>2, <2>3, <3>1, Zenon DEF LinksInv, EnabledAreLinks
    <3>3. \A l \in Clerk, j \in Server : End(l, 1, j) \in enabled' <=> <<l, j>> \in linked'
      BY <2>1, <2>4, Zenon DEF LinksInv, EnabledAreLinks
    <3>4. \A e \in enabled' : \/ \E i, j \in Server : e = EndOf(i, j)'
                              \/ \E l \in Clerk, j \in Server : e = End(l, 1, j)
      BY <2>1, <3>1, Zenon DEF LinksInv, EnabledAreLinks
    <3> QED
      BY <3>2, <3>3, <3>4, Zenon DEF EnabledAreLinks
  <2>6. LinksRun'
    BY <2>1, <2>3 DEF LinksInv, LinksRun
  <2> QED
    BY <2>5, <2>6, Zenon DEF LinksInv
<1>5. ASSUME NEW s \in Server, StartServer(s) PROVE LinksInv'
  <2>1. /\ UNCHANGED <<enabled, linked, kvservers>> /\ s \notin kvservers
        /\ started' = [started EXCEPT ![s] = started[s] + 1] /\ op' = [at |-> "add", server |-> s]
    BY <1>5, Zenon DEF StartServer
  <2>2. /\ \A i, j \in Server : i # s => EndOf(i, j)' = EndOf(i, j)
        /\ \A i, j, l \in Server : EndOf(s, j)' # EndOf(i, l)
        /\ \A j, l \in Server, k \in Clerk : EndOf(s, j)' # End(k, 1, l)
    BY <1>1, <2>1, StartedType DEF EndOf, End
  <2>3. \A j \in Server : <<s, j>> \notin linked
    BY <2>1, Zenon DEF LinksInv, LinksRun
  <2>4. \A j \in Server : EndOf(s, j)' \notin enabled
    <3> SUFFICES ASSUME NEW j \in Server, NEW e, e = EndOf(s, j)' PROVE e \notin enabled
      BY Zenon
    <3>1. \A i, l \in Server : e # EndOf(i, l)
      BY <2>2, Zenon
    <3>2. \A k \in Clerk, l \in Server : e # End(k, 1, l)
      BY <2>2, Zenon
    <3> QED
      BY <3>1, <3>2, Zenon DEF LinksInv, EnabledAreLinks
  <2>5. \A i, j \in Server : EndOf(i, j)' \in enabled' <=> <<i, j>> \in linked'
    <3> SUFFICES ASSUME NEW i \in Server, NEW j \in Server
                 PROVE  EndOf(i, j)' \in enabled <=> <<i, j>> \in linked
      BY <2>1, Zenon
    <3>1. CASE i = s
      BY <2>3, <2>4, <3>1, Zenon
    <3>2. CASE i # s
      BY <2>2, <3>2, Zenon DEF LinksInv, EnabledAreLinks
    <3> QED
      BY <3>1, <3>2, Zenon
  <2>6. ASSUME NEW e \in enabled PROVE \/ \E i, j \in Server : e = EndOf(i, j)'
                                       \/ \E l \in Clerk, j \in Server : e = End(l, 1, j)
    <3>1. ASSUME NEW i \in Server, NEW j \in Server, e = EndOf(i, j) PROVE e = EndOf(i, j)'
      <4>1. <<i, j>> \in linked
        BY <3>1, Zenon DEF LinksInv, EnabledAreLinks
      <4>2. i # s
        BY <2>3, <4>1, Zenon
      <4> QED
        BY <2>2, <3>1, <4>2, Zenon
    <3> QED
      BY <3>1, Zenon DEF LinksInv, EnabledAreLinks
  <2>7. EnabledAreLinks'
    BY <2>1, <2>5, <2>6, Zenon DEF LinksInv, EnabledAreLinks
  <2>8. LinksRun'
    BY <2>1 DEF LinksInv, LinksRun
  <2> QED
    BY <2>7, <2>8, Zenon DEF LinksInv
<1>6. CASE ShutdownDelete \/ ShutdownCopy
  <2>1. /\ UNCHANGED <<enabled, linked, started, kvservers>> /\ op'.server = op.server
        /\ op.at \in {"delete", "copy"}
    BY <1>6 DEF ShutdownDelete, ShutdownCopy, DeleteServer, vars, admin, HInv, HarnessTypeOK
  <2>2. LinksRun'
    BY <2>1, Zenon DEF LinksInv, LinksRun
  <2> QED
    BY <1>3, <2>1, <2>2, Zenon DEF LinksInv
<1>7. CASE ShutdownKill
  <2>1. /\ UNCHANGED <<enabled, linked, started>> /\ op' = Idle
        /\ op.at = "kill" /\ kvservers' = kvservers \ {op.server}
    BY <1>7 DEF ShutdownKill, vars, admin
  <2>2. LinksRun'
    BY <2>1 DEF LinksInv, LinksRun, Idle
  <2> QED
    BY <1>3, <2>1, <2>2, Zenon DEF LinksInv
<1>8. CASE StartAdd
  <2>1. /\ UNCHANGED <<enabled, linked, started>> /\ op' = Idle
        /\ kvservers' = kvservers \union {op.server}
    BY <1>8 DEF StartAdd, AddServer
  <2>2. LinksRun'
    BY <2>1, Zenon DEF LinksInv, LinksRun, Idle
  <2> QED
    BY <1>3, <2>1, <2>2, Zenon DEF LinksInv
<1> QED
  BY <1>4, <1>5, <1>6, <1>7, <1>8, Zenon

LEMMA LinksNext == HInv /\ LinksInv /\ [HarnessNext]_hvars => LinksInv'
<1> SUFFICES ASSUME HInv, LinksInv, [HarnessNext]_hvars PROVE LinksInv'
  BY Zenon
<1>1. CASE UNCHANGED <<op, started, kvservers, enabled, linked>>
  <2>1. LinksRun' = LinksRun
    BY <1>1, Zenon DEF LinksRun
  <2>2. EnabledAreLinks' = EnabledAreLinks
    BY <1>1, Zenon DEF EnabledAreLinks, EndOf
  <2> QED
    BY <2>1, <2>2, Zenon DEF LinksInv
<1>2. CASE \/ Unreliable \/ cleanup \/ NetworkStep \/ (\E k \in Clerk : deleteClient(k))
           \/ (\E c \in Call : HarnessExecute(c) \/ \E e \in EndName : HarnessCall(c, e))
  <2>1. UNCHANGED enabled
    BY <1>2, ZenonT(30) DEF Unreliable, Reliable, cleanup, Cleanup, NetworkStep, deleteClient, vars, admin,
           HarnessExecute, Execute, HarnessCall, StartCall,
           CallerStep, Accept, Abandon, StopListening, ProcessReq, ReadInfo, DropRequest,
           Dispatch, TakeReply, Poll, Check, DropReply, DelayReply, ReturnTrue, ReturnFalse, HandlerReturns
  <2>2. UNCHANGED <<op, started, kvservers, linked>>
    BY <1>2, Zenon DEF Unreliable, cleanup, NetworkStep, deleteClient, config, HarnessExecute, HarnessCall
  <2> QED
    BY <1>1, <2>1, <2>2, Zenon
<1>3. CASE \/ \E p1 \in SUBSET Server : Partition(p1)
           \/ ConnectAll
           \/ \E k \in Clerk, group \in SUBSET Server :
                  makeClient(k, group) \/ ConnectClient(k, group) \/ DisconnectClient(k, group)
  <2>1. UNCHANGED <<op, started, kvservers>>
    BY <1>3, Zenon DEF Partition, ConnectAll, makeClient, ConnectClient, DisconnectClient
  <2> QED
    BY <1>3, <2>1, FlagLinks, Zenon
<1>4. CASE UNCHANGED hvars
  BY <1>1, <1>4, Zenon DEF hvars, vars, admin, config
<1> QED
  BY <1>2, <1>3, <1>4, LifecycleLinks, Zenon DEF HarnessNext

\* The ends that are enabled are exactly those the test last asked for, between latest
\* incarnations, though each restart replaces a server's ends and leaves the old ones
\* in the network.
THEOREM LinksFollowTheTest == HarnessSpec => []LinksAsIntended
<1>1. HarnessInit => LinksInv
  BY Zenon DEF HarnessInit, Init, LinksInv, LinksRun, EnabledAreLinks
<1>2. LinksInv => LinksAsIntended
  <2> SUFFICES ASSUME LinksInv PROVE LinksAsIntended
    BY Zenon
  <2> DEFINE SS == linked \intersect (Server \X Server)
             CS == linked \intersect (Clerk \X Server)
             A == {EndOf(p[1], p[2]) : p \in SS}
             B == {End(p[1], 1, p[2]) : p \in CS}
  <2>1. /\ \A p \in SS : p[1] \in Server /\ p[2] \in Server /\ <<p[1], p[2]>> \in linked
        /\ \A i, j \in Server : <<i, j>> \in linked => <<i, j>> \in SS
    OBVIOUS
  <2>2. /\ \A p \in CS : p[1] \in Clerk /\ p[2] \in Server /\ <<p[1], p[2]>> \in linked
        /\ \A k \in Clerk, j \in Server : <<k, j>> \in linked => <<k, j>> \in CS
    OBVIOUS
  <2> HIDE DEF SS, CS
  <2>3. ASSUME NEW e \in enabled PROVE e \in A \union B
    <3>1. ASSUME NEW i \in Server, NEW j \in Server, e = EndOf(i, j) PROVE e \in A
      <4>1. <<i, j>> \in SS
        BY <2>1, <3>1, Zenon DEF LinksInv, EnabledAreLinks
      <4> QED
        BY <3>1, <4>1
    <3>2. ASSUME NEW k \in Clerk, NEW j \in Server, e = End(k, 1, j) PROVE e \in B
      <4>1. <<k, j>> \in CS
        BY <2>2, <3>2, Zenon DEF LinksInv, EnabledAreLinks
      <4> QED
        BY <3>2, <4>1
    <3> QED
      BY <3>1, <3>2, Zenon DEF LinksInv, EnabledAreLinks
  <2>4. ASSUME NEW e \in A \union B PROVE e \in enabled
    BY <2>1, <2>2, Zenon DEF LinksInv, EnabledAreLinks
  <2>5. enabled = A \union B
    BY <2>3, <2>4, Zenon
  <2> QED
    BY <2>5, Zenon DEF LinksAsIntended, SS, CS
<1> QED
  BY <1>1, <1>2, HarnessInitInv, HarnessNextInv, LinksNext, PTL DEF HarnessSpec

=============================================================================
