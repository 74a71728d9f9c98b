------------------------------- MODULE Labrpc -------------------------------
(***************************************************************************)
(* labrpc/labrpc.go: the simulated network.  Every call is handled by a    *)
(* goroutine of its own (processReq), which reads the network's state      *)
(* under rn.mu three times: before the handler is started, while it runs,  *)
(* and after it returned.  The test's goroutine changes that state at any  *)
(* moment in between.  Times, byte counts and encoding are left out.       *)
(***************************************************************************)

CONSTANTS
    Call,         \* the calls that are made: a reqMsg and its reply channel each
    EndName,      \* names of ClientEnds
    ServerName,   \* names of servers
    Instance,     \* Server objects, each registered at most once
    nil

ASSUME NilAssumption == nil \notin ServerName \union Instance \union EndName

VARIABLES
    ends,             \* names of rn.ends
    enabled,          \* names whose rn.enabled is true
    connections,      \* rn.connections, nil where there is no entry
    servers,          \* rn.servers, nil where there is no entry
    reliable,         \* rn.reliable
    longReordering,   \* rn.longReordering
    registered,       \* Server objects that AddServer has been given
    done,             \* rn.done is closed
    listening,        \* the goroutine of MakeNetwork is in its loop
    pc,               \* how far a call is, in Call and processReq
    endname,          \* req.endname
    info,             \* what readEndnameInfo returned
    replyOK,          \* replyOK of processReq
    handler,          \* the goroutine that runs the RPC handler
    hanging           \* the calls whose handler does not return

admin == <<ends, enabled, connections, servers, reliable, longReordering, registered, done>>
locals == <<endname, info, replyOK, hanging>>
vars == <<admin, listening, pc, locals, handler>>

Position ==
    {"idle", "sending", "received", "delivering", "waiting", "checking",
     "replying", "delayed", "failing", "true", "false"}

Handler == {"none", "running", "executed", "returned", "collected"}

Info == [name : ServerName \union {nil}, server : Instance \union {nil},
         reliable : BOOLEAN, reordering : BOOLEAN]

\* Types; a handler is only started on a server that exists.
TypeOK ==
    /\ enabled \subseteq EndName /\ ends \subseteq EndName
    /\ connections \in [EndName -> ServerName \union {nil}]
    /\ servers \in [ServerName -> Instance \union {nil}]
    /\ reliable \in BOOLEAN /\ longReordering \in BOOLEAN
    /\ registered \subseteq Instance
    /\ done \in BOOLEAN /\ listening \in BOOLEAN
    /\ pc \in [Call -> Position]
    /\ endname \in [Call -> EndName \union {nil}]
    /\ info \in [Call -> Info]
    /\ replyOK \in [Call -> BOOLEAN]
    /\ handler \in [Call -> Handler]
    /\ hanging \subseteq Call
    /\ \A c \in Call : handler[c] # "none" => info[c].server # nil /\ info[c].name # nil

\* MakeNetwork.
Init ==
    /\ ends = {} /\ enabled = {}
    /\ connections = [e \in EndName |-> nil]
    /\ servers = [s \in ServerName |-> nil]
    /\ reliable = TRUE /\ longReordering = FALSE
    /\ registered = {}
    /\ done = FALSE /\ listening = TRUE
    /\ pc = [c \in Call |-> "idle"]
    /\ endname = [c \in Call |-> nil]
    /\ info = [c \in Call |-> [name |-> nil, server |-> nil, reliable |-> TRUE, reordering |-> FALSE]]
    /\ replyOK = [c \in Call |-> FALSE]
    /\ handler = [c \in Call |-> "none"]
    /\ hanging \in SUBSET Call

-----------------------------------------------------------------------------
(* ClientEnd.Call and the goroutine of MakeNetwork *)

Goto(c, p) == pc' = [pc EXCEPT ![c] = p]

\* A call on end e: it stands in its select, between sending and rn.done.
StartCall(c, e) ==
    /\ pc[c] = "idle"
    /\ e \in ends
    /\ Goto(c, "sending")
    /\ endname' = [endname EXCEPT ![c] = e]
    /\ UNCHANGED <<admin, listening, info, replyOK, hanging, handler>>

\* The network's goroutine takes the request and starts processReq.
Accept(c) ==
    /\ pc[c] = "sending"
    /\ listening
    /\ Goto(c, "received")
    /\ UNCHANGED <<admin, listening, locals, handler>>

\* Mutant: the caller only waits for the network to take its request.
AbandonNever(c) == FALSE /\ UNCHANGED vars

\* rn.done is closed: the network has been destroyed.
Abandon(c) ==
    /\ pc[c] = "sending"
    /\ done
    /\ Goto(c, "false")
    /\ UNCHANGED <<admin, listening, locals, handler>>

StopListening ==
    /\ listening /\ done
    /\ listening' = FALSE
    /\ UNCHANGED <<admin, pc, locals, handler>>

-----------------------------------------------------------------------------
(* processReq *)

\* readEndnameInfo, in one critical section.
EndnameInfo(e) ==
    [name |-> connections[e],
     server |-> IF connections[e] = nil THEN nil ELSE servers[connections[e]],
     reliable |-> reliable,
     reordering |-> longReordering]

\* Mutant: only the end is tested.
ReadInfoUntested(c) ==
    LET e == endname[c]
        i == EndnameInfo(e)
    IN  /\ pc[c] = "received"
        /\ info' = [info EXCEPT ![c] = i]
        /\ Goto(c, IF e \in enabled THEN "delivering" ELSE "failing")
        /\ UNCHANGED <<admin, listening, endname, replyOK, hanging, handler>>

ReadInfo(c) ==
    LET e == endname[c]
        i == EndnameInfo(e)
    IN  /\ pc[c] = "received"
        /\ info' = [info EXCEPT ![c] = i]
        /\ Goto(c, IF e \in enabled /\ i.name # nil /\ i.server # nil THEN "delivering" ELSE "failing")
        /\ UNCHANGED <<admin, listening, endname, replyOK, hanging, handler>>

DropRequest(c) ==
    /\ pc[c] = "delivering"
    /\ ~info[c].reliable
    /\ Goto(c, "failing")
    /\ UNCHANGED <<admin, listening, locals, handler>>

\* The handler is called on the Server object read before, whatever became of it.
Dispatch(c) ==
    /\ pc[c] = "delivering"
    /\ Goto(c, "waiting")
    /\ handler' = [handler EXCEPT ![c] = "running"]
    /\ UNCHANGED <<admin, listening, locals>>

\* Server.dispatch and Service.dispatch find the method and call it.
Execute(c) ==
    /\ handler[c] = "running"
    /\ handler' = [handler EXCEPT ![c] = "executed"]
    /\ UNCHANGED <<admin, listening, pc, locals>>

\* The handler returns and offers its reply on ech.
HandlerReturns(c) ==
    /\ handler[c] = "executed"
    /\ c \notin hanging
    /\ handler' = [handler EXCEPT ![c] = "returned"]
    /\ UNCHANGED <<admin, listening, pc, locals>>

\* Mutant: a name that is registered again counts as alive.
NameUnregistered(c) ==
    \/ endname[c] \notin enabled
    \/ servers[info[c].name] = nil

isServerDead(c) ==
    \/ endname[c] \notin enabled
    \/ servers[info[c].name] # info[c].server

TakeReply(c) ==
    /\ pc[c] = "waiting"
    /\ handler[c] = "returned"
    /\ handler' = [handler EXCEPT ![c] = "collected"]
    /\ replyOK' = [replyOK EXCEPT ![c] = TRUE]
    /\ Goto(c, "checking")
    /\ UNCHANGED <<admin, listening, endname, info, hanging>>

\* Mutant: the 100 ms timer looks at the caller's end only.
PollEnd(c) ==
    /\ pc[c] = "waiting"
    /\ endname[c] \notin enabled
    /\ Goto(c, "checking")
    /\ UNCHANGED <<admin, listening, locals, handler>>

\* The 100 ms timer fires and the server is dead; if it is alive, nothing changes.
Poll(c) ==
    /\ pc[c] = "waiting"
    /\ isServerDead(c)
    /\ Goto(c, "checking")
    /\ UNCHANGED <<admin, listening, locals, handler>>

\* Mutant: the outcome of waiting is not looked at.
CheckDeadOnly(c) ==
    /\ pc[c] = "checking"
    /\ Goto(c, IF ~isServerDead(c) THEN "replying" ELSE "failing")
    /\ UNCHANGED <<admin, listening, locals, handler>>

\* The test after the loop.
Check(c) ==
    /\ pc[c] = "checking"
    /\ Goto(c, IF replyOK[c] /\ ~isServerDead(c) THEN "replying" ELSE "failing")
    /\ UNCHANGED <<admin, listening, locals, handler>>

DropReply(c) ==
    /\ pc[c] = "replying"
    /\ ~info[c].reliable
    /\ Goto(c, "failing")
    /\ UNCHANGED <<admin, listening, locals, handler>>

DelayReply(c) ==
    /\ pc[c] = "replying"
    /\ info[c].reordering
    /\ Goto(c, "delayed")
    /\ UNCHANGED <<admin, listening, locals, handler>>

ReturnTrue(c) ==
    /\ pc[c] \in {"replying", "delayed"}
    /\ Goto(c, "true")
    /\ UNCHANGED <<admin, listening, locals, handler>>

ReturnFalse(c) ==
    /\ pc[c] = "failing"
    /\ Goto(c, "false")
    /\ UNCHANGED <<admin, listening, locals, handler>>

CallerStep(c) == Accept(c) \/ Abandon(c)

ProcessReq(c) ==
    \/ ReadInfo(c) \/ DropRequest(c) \/ Dispatch(c) \/ TakeReply(c) \/ Poll(c) \/ Check(c)
    \/ DropReply(c) \/ DelayReply(c) \/ ReturnTrue(c) \/ ReturnFalse(c)

-----------------------------------------------------------------------------
(* What a test's goroutine does, each in one critical section of rn.mu *)

callVars == <<listening, pc, locals, handler>>

\* log.Fatalf if the name is taken.
MakeEnd(e) ==
    /\ e \notin ends
    /\ ends' = ends \union {e}
    /\ enabled' = enabled \ {e}
    /\ connections' = [connections EXCEPT ![e] = nil]
    /\ UNCHANGED <<servers, reliable, longReordering, registered, done, callVars>>

DeleteEnd(e) ==
    /\ e \in ends
    /\ ends' = ends \ {e}
    /\ enabled' = enabled \ {e}
    /\ connections' = [connections EXCEPT ![e] = nil]
    /\ UNCHANGED <<servers, reliable, longReordering, registered, done, callVars>>

\* Every caller passes a Server it has just made.
AddServer(s, i) ==
    /\ i \notin registered
    /\ registered' = registered \union {i}
    /\ servers' = [servers EXCEPT ![s] = i]
    /\ UNCHANGED <<ends, enabled, connections, reliable, longReordering, done, callVars>>

DeleteServer(s) ==
    /\ servers' = [servers EXCEPT ![s] = nil]
    /\ UNCHANGED <<ends, enabled, connections, reliable, longReordering, registered, done, callVars>>

Connect(e, s) ==
    /\ connections' = [connections EXCEPT ![e] = s]
    /\ UNCHANGED <<ends, enabled, servers, reliable, longReordering, registered, done, callVars>>

Enable(e, on) ==
    /\ enabled' = IF on THEN enabled \union {e} ELSE enabled \ {e}
    /\ UNCHANGED <<ends, connections, servers, reliable, longReordering, registered, done, callVars>>

Reliable(yes) ==
    /\ reliable' = yes
    /\ UNCHANGED <<ends, enabled, connections, servers, longReordering, registered, done, callVars>>

LongReordering(yes) ==
    /\ longReordering' = yes
    /\ UNCHANGED <<ends, enabled, connections, servers, reliable, registered, done, callVars>>

\* Closing rn.done twice would panic.
Cleanup ==
    /\ ~done
    /\ done' = TRUE
    /\ UNCHANGED <<ends, enabled, connections, servers, reliable, longReordering, registered, callVars>>

Administer ==
    \/ \E e \in EndName : MakeEnd(e) \/ DeleteEnd(e)
    \/ \E e \in ends, s \in ServerName : Connect(e, s)
    \/ \E e \in ends, on \in BOOLEAN : Enable(e, on)
    \/ \E s \in ServerName : DeleteServer(s) \/ \E i \in Instance : AddServer(s, i)
    \/ \E yes \in BOOLEAN : Reliable(yes) \/ LongReordering(yes)
    \/ Cleanup

Next ==
    \/ \E c \in Call, e \in EndName : StartCall(c, e)
    \/ \E c \in Call : CallerStep(c) \/ ProcessReq(c) \/ Execute(c) \/ HandlerReturns(c)
    \/ StopListening
    \/ Administer

Spec == Init /\ [][Next]_vars

\* Goroutines run, time passes, and handlers that do not hang return.
Fairness ==
    /\ WF_vars(StopListening)
    /\ \A c \in Call : /\ WF_vars(CallerStep(c)) /\ WF_vars(ProcessReq(c))
                       /\ WF_vars(Execute(c)) /\ WF_vars(HandlerReturns(c))

FairSpec == Spec /\ Fairness

-----------------------------------------------------------------------------
(* Properties *)

Answered(c) == pc[c] \in {"true", "false"}

Ran(c) == handler[c] \in {"executed", "returned", "collected"}

Status == [c \in Call |-> IF pc[c] = "idle" \/ Answered(c) THEN pc[c] ELSE "pending"]

RanOn == [c \in Call |-> IF Ran(c) THEN info[c].server ELSE nil]

Abstract == INSTANCE AtMostOnce WITH status <- Status, ranOn <- RanOn

\* Call() returns true only if a server executed the request, and no request is
\* executed twice, whatever is deleted, replaced, disabled or destroyed while
\* processReq is under way (labrpc/labrpc.go:29-32).
ImplementsAtMostOnce == Abstract!Spec

\* Call() returns unless its handler does not (labrpc/labrpc.go:37-38), also when
\* the network is cleaned up and when the flags change all the time.
CallsReturn == \A c \in Call : (pc[c] # "idle" /\ c \notin hanging) ~> Answered(c)

\* Call() returns even if its handler hangs once the server has been deleted or
\* replaced: the wait loop looks at the registry every 100 ms.
DeletedServerFreesCallers ==
    \A c \in Call :
        (pc[c] = "waiting" /\ servers[info[c].name] # info[c].server) ~> Answered(c)
=============================================================================
