---------------------------- MODULE LabrpcProofs ----------------------------
(***************************************************************************)
(* Proofs about Labrpc for every set of calls, ends, servers and server    *)
(* objects: the type invariant, and that processReq, interleaved with any  *)
(* administration of the network, implements AtMostOnce.                   *)
(***************************************************************************)
EXTENDS Labrpc, TLAPS

\* How far the handler of a call is agrees with how far the call is.
HandlerFollowsCall ==
    \A c \in Call :
        /\ pc[c] # "idle" => endname[c] \in EndName
        /\ pc[c] \in {"idle", "sending", "received", "delivering"} => handler[c] = "none"
        /\ pc[c] = "delivering" => info[c].server # nil /\ info[c].name # nil
        /\ replyOK[c] => handler[c] = "collected"
        /\ pc[c] \in {"replying", "delayed", "true"} => handler[c] = "collected"

IInv == TypeOK /\ HandlerFollowsCall

-----------------------------------------------------------------------------
(* The inductive invariant *)

\* MakeNetwork establishes the invariant.
LEMMA InitInv == Init => IInv
<1> SUFFICES ASSUME Init PROVE IInv
  OBVIOUS
<1>1. TypeOK
  BY Zenon DEF Init, TypeOK, Position, Handler, Info
<1>2. HandlerFollowsCall
  BY Zenon DEF Init, HandlerFollowsCall
<1> QED
  BY <1>1, <1>2 DEF IInv

\* A step of the test's goroutine changes none of what the invariant says of calls.
LEMMA AdminInv == IInv /\ Administer => IInv'
<1> SUFFICES ASSUME IInv, Administer PROVE IInv'
  OBVIOUS
<1>1. UNCHANGED callVars
  BY DEF Administer, MakeEnd, DeleteEnd, AddServer, DeleteServer, Connect, Enable, Reliable,
         LongReordering, Cleanup
<1>2. /\ enabled' \subseteq EndName /\ ends' \subseteq EndName
      /\ connections' \in [EndName -> ServerName \union {nil}]
      /\ servers' \in [ServerName -> Instance \union {nil}]
      /\ reliable' \in BOOLEAN /\ longReordering' \in BOOLEAN
      /\ registered' \subseteq Instance
      /\ done' \in BOOLEAN
  <2> USE DEF IInv, TypeOK
  <2>1. CASE \E e \in EndName : MakeEnd(e)
    BY <2>1 DEF MakeEnd
  <2>2. CASE \E e \in EndName : DeleteEnd(e)
    BY <2>2 DEF DeleteEnd
  <2>3. CASE \E e \in ends, s \in ServerName : Connect(e, s)
    BY <2>3 DEF Connect
  <2>4. CASE \E e \in ends, on \in BOOLEAN : Enable(e, on)
    BY <2>4 DEF Enable
  <2>5. CASE \E s \in ServerName : DeleteServer(s)
    BY <2>5 DEF DeleteServer
  <2>6. CASE \E s \in ServerName, i \in Instance : AddServer(s, i)
    BY <2>6 DEF AddServer
  <2>7. CASE \E yes \in BOOLEAN : Reliable(yes)
    BY <2>7 DEF Reliable
  <2>8. CASE \E yes \in BOOLEAN : LongReordering(yes)
    BY <2>8 DEF LongReordering
  <2>9. CASE Cleanup
    BY <2>9 DEF Cleanup
  <2> QED
    BY <2>1, <2>2, <2>3, <2>4, <2>5, <2>6, <2>7, <2>8, <2>9 DEF Administer
<1> QED
  BY <1>1, <1>2 DEF IInv, TypeOK, HandlerFollowsCall, callVars, locals

\* A step that only moves one call on keeps the types.
LEMMA GotoType ==
    ASSUME TypeOK, NEW c \in Call, NEW p \in Position, Goto(c, p),
           UNCHANGED <<admin, listening, locals, handler>>
    PROVE  TypeOK'
  BY DEF TypeOK, Goto, admin, locals

\* What readEndnameInfo returns has its type.
LEMMA InfoType ==
    ASSUME TypeOK, NEW e \in EndName
    PROVE  EndnameInfo(e) \in Info
  BY DEF TypeOK, EndnameInfo, Info

\* Every step of a call keeps the invariant.
LEMMA CallInv ==
    ASSUME IInv, NEW c \in Call,
           \/ \E e \in EndName : StartCall(c, e)
           \/ CallerStep(c) \/ ProcessReq(c) \/ Execute(c) \/ HandlerReturns(c)
    PROVE  IInv'
<1> USE DEF IInv
<1>1. ASSUME NEW e \in EndName, StartCall(c, e) PROVE IInv'
  <2>1. TypeOK'
    BY <1>1 DEF TypeOK, StartCall, Goto, admin, Position
  <2>2. HandlerFollowsCall'
    BY <1>1 DEF TypeOK, StartCall, Goto, admin, HandlerFollowsCall
  <2> QED
    BY <2>1, <2>2
<1>2. CASE CallerStep(c)
  <2>1. TypeOK'
    BY <1>2, GotoType DEF CallerStep, Accept, Abandon, Position
  <2>2. HandlerFollowsCall'
    BY <1>2 DEF TypeOK, CallerStep, Accept, Abandon, Goto, locals, HandlerFollowsCall
  <2> QED
    BY <2>1, <2>2
<1>3. CASE ReadInfo(c)
  <2>1. endname[c] \in EndName /\ handler[c] = "none"
    BY <1>3 DEF ReadInfo, HandlerFollowsCall
  <2>2. EndnameInfo(endname[c]) \in Info
    BY <2>1, InfoType
  <2>3. TypeOK'
    BY <1>3, <2>1, <2>2 DEF TypeOK, ReadInfo, Goto, admin, Position
  <2>4. HandlerFollowsCall'
    BY <1>3, <2>1, <2>2 DEF TypeOK, ReadInfo, Goto, HandlerFollowsCall
  <2> QED
    BY <2>3, <2>4
<1>4. CASE DropRequest(c) \/ Poll(c) \/ Check(c) \/ DropReply(c) \/ DelayReply(c)
           \/ ReturnTrue(c) \/ ReturnFalse(c)
  <2>1. TypeOK'
    BY <1>4, GotoType DEF DropRequest, Poll, Check, DropReply, DelayReply, ReturnTrue, ReturnFalse,
                          Position
  <2>2. HandlerFollowsCall'
    BY <1>4 DEF TypeOK, DropRequest, Poll, Check, DropReply, DelayReply, ReturnTrue, ReturnFalse,
                Goto, locals, HandlerFollowsCall
  <2> QED
    BY <2>1, <2>2
<1>5. CASE Dispatch(c)
  <2>1. TypeOK'
    BY <1>5 DEF TypeOK, Dispatch, Goto, admin, locals, Position, Handler, HandlerFollowsCall
  <2>2. HandlerFollowsCall'
    BY <1>5 DEF TypeOK, Dispatch, Goto, locals, HandlerFollowsCall
  <2> QED
    BY <2>1, <2>2
<1>6. CASE TakeReply(c)
  <2>1. TypeOK'
    BY <1>6 DEF TypeOK, TakeReply, Goto, admin, Position, Handler
  <2>2. HandlerFollowsCall'
    BY <1>6 DEF TypeOK, TakeReply, Goto, HandlerFollowsCall
  <2> QED
    BY <2>1, <2>2
<1>7. CASE Execute(c) \/ HandlerReturns(c)
  <2>1. TypeOK'
    BY <1>7 DEF TypeOK, Execute, HandlerReturns, admin, locals, Handler
  <2>2. HandlerFollowsCall'
    BY <1>7 DEF TypeOK, Execute, HandlerReturns, locals, HandlerFollowsCall
  <2> QED
    BY <2>1, <2>2
<1> QED
  BY <1>1, <1>2, <1>3, <1>4, <1>5, <1>6, <1>7 DEF ProcessReq

\* The invariant is inductive.
LEMMA NextInv == IInv /\ [Next]_vars => IInv'
<1> SUFFICES ASSUME IInv, [Next]_vars PROVE IInv'
  OBVIOUS
<1>1. CASE StopListening \/ UNCHANGED vars
  BY <1>1, Zenon DEF StopListening, IInv, TypeOK, HandlerFollowsCall, vars, admin, locals
<1> QED
  BY <1>1, CallInv, AdminInv DEF Next

\* The state of the network, of its calls and of their handlers is well typed, and no
\* handler is started on a server that does not exist.
THEOREM TypeCorrect == Spec => []TypeOK
<1>1. IInv => TypeOK
  BY DEF IInv
<1> QED
  BY <1>1, InitInv, NextInv, PTL DEF Spec

-----------------------------------------------------------------------------
(* Refinement *)

\* The network starts as the abstract one does.
LEMMA InitRefines == Init => Abstract!Init
  BY DEF Init, Abstract!Init, Status, RanOn, Answered, Ran

\* A call is answered once its goroutine is through with it.
LEMMA AnswerRefines ==
    ASSUME IInv, NEW c \in Call, NEW p \in {"true", "false"}, Goto(c, p),
           pc[c] \notin {"idle", "true", "false"}, UNCHANGED <<info, handler>>
    PROVE  UNCHANGED RanOn /\ Status' = [Status EXCEPT ![c] = p] /\ Status[c] = "pending"
<1>1. UNCHANGED RanOn
  BY DEF RanOn, Ran
<1>2. Status[c] = "pending"
  BY DEF Status, Answered
<1>3. Status' = [Status EXCEPT ![c] = p]
  BY Zenon DEF IInv, TypeOK, Status, Answered, Goto
<1> QED
  BY <1>1, <1>2, <1>3

\* A step of a goroutine between the call and its answer is not seen by the caller.
LEMMA InnerStutters ==
    ASSUME IInv, NEW c \in Call, NEW p \in Position \ {"idle", "true", "false"}, Goto(c, p),
           pc[c] \notin {"idle", "true", "false"}
    PROVE  UNCHANGED Status
  BY DEF IInv, TypeOK, Status, Answered, Goto

\* Every step of a call is a step of the abstract call, or changes nothing of it.
LEMMA CallRefines ==
    ASSUME IInv, NEW c \in Call,
           \/ \E e \in EndName : StartCall(c, e)
           \/ CallerStep(c) \/ ProcessReq(c) \/ Execute(c) \/ HandlerReturns(c)
    PROVE  [Abstract!Next]_(Abstract!vars)
<1>1. ASSUME NEW e \in EndName, StartCall(c, e) PROVE Abstract!Invoke(c)
  <2>1. UNCHANGED RanOn
    BY <1>1 DEF StartCall, RanOn, Ran
  <2>2. Status[c] = "idle" /\ Status' = [Status EXCEPT ![c] = "pending"]
    BY <1>1, Zenon DEF StartCall, Goto, IInv, TypeOK, Status, Answered
  <2> QED
    BY <2>1, <2>2 DEF Abstract!Invoke
<1>2. CASE Accept(c) \/ DropRequest(c) \/ Poll(c) \/ Check(c) \/ DropReply(c) \/ DelayReply(c)
  <2>1. UNCHANGED RanOn
    BY <1>2 DEF Accept, DropRequest, Poll, Check, DropReply, DelayReply, locals, RanOn, Ran
  <2>2. UNCHANGED Status
    BY <1>2, InnerStutters DEF Accept, DropRequest, Poll, Check, DropReply, DelayReply, Position
  <2> QED
    BY <2>1, <2>2 DEF Abstract!vars
<1>3. CASE Abandon(c) \/ ReturnFalse(c)
  <2>1. UNCHANGED RanOn /\ Status' = [Status EXCEPT ![c] = "false"] /\ Status[c] = "pending"
    BY <1>3, AnswerRefines DEF Abandon, ReturnFalse, locals
  <2> QED
    BY <2>1, Zenon DEF Abstract!Next, Abstract!ReturnFalse
<1>4. CASE ReturnTrue(c)
  <2>1. UNCHANGED RanOn /\ Status' = [Status EXCEPT ![c] = "true"] /\ Status[c] = "pending"
    BY <1>4, AnswerRefines DEF ReturnTrue, locals
  <2>2. RanOn[c] # nil
    BY <1>4 DEF ReturnTrue, IInv, TypeOK, HandlerFollowsCall, RanOn, Ran
  <2> QED
    BY <2>1, <2>2, Zenon DEF Abstract!Next, Abstract!ReturnTrue
<1>5. CASE ReadInfo(c)
  <2>1. UNCHANGED RanOn
    BY <1>5 DEF ReadInfo, IInv, TypeOK, HandlerFollowsCall, RanOn, Ran
  <2>2. UNCHANGED Status
    BY <1>5, InnerStutters DEF ReadInfo, Position
  <2> QED
    BY <2>1, <2>2 DEF Abstract!vars
<1>6. CASE Dispatch(c) \/ TakeReply(c)
  <2>1. UNCHANGED RanOn
    BY <1>6 DEF Dispatch, TakeReply, locals, IInv, TypeOK, HandlerFollowsCall, RanOn, Ran
  <2>2. UNCHANGED Status
    BY <1>6, InnerStutters DEF Dispatch, TakeReply, Position
  <2> QED
    BY <2>1, <2>2 DEF Abstract!vars
<1>7. CASE Execute(c)
  <2>1. UNCHANGED Status /\ Status[c] \in {"pending", "false"}
    BY <1>7 DEF Execute, IInv, HandlerFollowsCall, Status, Answered
  <2>2. RanOn[c] = nil /\ RanOn' = [RanOn EXCEPT ![c] = info[c].server]
    BY <1>7, Zenon DEF Execute, locals, IInv, TypeOK, RanOn, Ran
  <2>3. info[c].server \in Instance
    BY <1>7 DEF Execute, IInv, TypeOK, Info
  <2> QED
    BY <2>1, <2>2, <2>3, Zenon DEF Abstract!Next, Abstract!Execute
<1>8. CASE HandlerReturns(c)
  <2>1. UNCHANGED RanOn /\ UNCHANGED Status
    BY <1>8 DEF HandlerReturns, locals, IInv, TypeOK, RanOn, Ran, Status, Answered
  <2> QED
    BY <2>1 DEF Abstract!vars
<1> QED
  BY <1>1, <1>2, <1>3, <1>4, <1>5, <1>6, <1>7, <1>8 DEF CallerStep, ProcessReq, Abstract!Next

\* Every step of the network is a step of the abstract one, or changes nothing of it.
LEMMA NextRefines == IInv /\ [Next]_vars => [Abstract!Next]_(Abstract!vars)
<1> SUFFICES ASSUME IInv, [Next]_vars PROVE [Abstract!Next]_(Abstract!vars)
  OBVIOUS
<1>1. CASE StopListening \/ Administer \/ UNCHANGED vars
  <2>1. UNCHANGED <<pc, info, handler>>
    BY <1>1 DEF StopListening, Administer, MakeEnd, DeleteEnd, AddServer, DeleteServer, Connect,
                Enable, Reliable, LongReordering, Cleanup, callVars, vars, locals
  <2> QED
    BY <2>1 DEF Abstract!vars, Status, RanOn, Answered, Ran
<1> QED
  BY <1>1, CallRefines DEF Next

\* The network implements AtMostOnce: true is answered only for a call that a server
\* has executed, and no call is executed twice, however processReq is interleaved
\* with the deletion, replacement and disabling of servers and ends.
THEOREM AtMostOnceImplemented == Spec => ImplementsAtMostOnce
<1>1. Init => Abstract!Init
  BY InitRefines
<1>2. IInv /\ [Next]_vars => [Abstract!Next]_(Abstract!vars)
  BY NextRefines
<1> QED
  BY <1>1, <1>2, InitInv, NextInv, PTL DEF Spec, ImplementsAtMostOnce, Abstract!Spec

=============================================================================
