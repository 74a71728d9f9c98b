---------------------------- MODULE KvSrvProofs ----------------------------
(***************************************************************************)
(* Proofs about KvSrv for every set of clerks, keys and strings: the type  *)
(* invariant, exactly-once application, the bound on IDMap, and that the   *)
(* server and its clerks implement KvAtomic.                               *)
(***************************************************************************)
EXTENDS KvSrv, TLAPS

\* A map lookup yields a text, whether or not the key is present.
LEMMA AtType ==
    ASSUME NEW map, NEW k, map \in [DOMAIN map -> Text]
    PROVE  At(map, k) \in Text
  BY DEF At, Text, Empty

\* The three texts a handler works with are texts.
LEMMA PieceType ==
    /\ Empty \in Text
    /\ \A p \in Piece : <<p>> \in Text
    /\ \A v \in Text, p \in Piece : Append(v, p) \in Text
  BY DEF Empty, Text

-----------------------------------------------------------------------------
(* Type correctness *)

\* The initial state is well typed.
LEMMA InitType == Init => TypeOK
<1> SUFFICES ASSUME Init PROVE TypeOK
  OBVIOUS
<1>1. \A c \in Clerk : NoArgs(c) \in Args
  BY KeyAssumption, PieceAssumption DEF NoArgs, Args, Kind, Id
<1> QED
  BY <1>1, PieceType DEF Init, TypeOK

\* A Modify that changes the store keeps the state well typed.
LEMMA ChangeType ==
    ASSUME TypeOK, NEW c \in Clerk, NEW new \in Text, NEW saved \in Text,
           Change(c, new, saved)
    PROVE  TypeOK'
<1>1. At(StoreMap, args[c].key) \in Text
  BY AtType DEF TypeOK
<1>2. args[c].key \in Key /\ args[c].id \in Id
  BY DEF TypeOK, Args
<1>3. DOMAIN StoreMap' \subseteq Key /\ StoreMap' \in [DOMAIN StoreMap' -> Text]
  <2>1. StoreMap' = Store(StoreMap, args[c].key, new)
    BY DEF Change
  <2> QED
    BY <1>2, <2>1 DEF TypeOK, Store
<1>4. DOMAIN IDMap' \subseteq Id /\ IDMap' \in [DOMAIN IDMap' -> Text]
  <2>1. IDMap' = Store(IDMap, args[c].id, saved)
    BY DEF Change
  <2> QED
    BY <1>2, <2>1 DEF TypeOK, Store
<1> QED
  BY <1>1, <1>3, <1>4 DEF TypeOK, Change, Answer

\* A repeated Modify or an Ack keeps the state well typed.
LEMMA RepeatType ==
    ASSUME TypeOK, NEW c \in Clerk, Repeat(c)
    PROVE  TypeOK'
<1>1. /\ DOMAIN CheckedIDMap(c) \subseteq Id
      /\ CheckedIDMap(c) \in [DOMAIN CheckedIDMap(c) -> Text]
  BY DEF CheckedIDMap, Delete, TypeOK
<1>2. At(CheckedIDMap(c), args[c].id) \in Text
  BY <1>1, AtType
<1> QED
  BY <1>1, <1>2 DEF TypeOK, Repeat, Answer

\* Every step keeps the state well typed.
LEMMA NextType == TypeOK /\ [Next]_vars => TypeOK'
<1> SUFFICES ASSUME TypeOK, [Next]_vars PROVE TypeOK'
  OBVIOUS
<1>1. ASSUME NEW c \in Clerk, NEW kind \in Kind, NEW k \in Key, NEW p \in Piece,
             Invoke(c, kind, k, p)
      PROVE  TypeOK'
  <2>1. [kind |-> kind, key |-> k, piece |-> p, id |-> <<c, ops[c] + 1>>] \in Args
    BY DEF TypeOK, Args, Id
  <2> QED
    BY <1>1, <2>1, PieceType DEF Invoke, TypeOK, server
<1>2. ASSUME NEW c \in Clerk, Get(c) PROVE TypeOK'
  <2>1. At(StoreMap, args[c].key) \in Text
    BY AtType DEF TypeOK
  <2> QED
    BY <1>2, <2>1 DEF Get, Answer, TypeOK, server
<1>3. ASSUME NEW c \in Clerk, Put(c) PROVE TypeOK'
  <2>1. <<args[c].piece>> \in Text
    BY PieceType DEF TypeOK, Args
  <2> QED
    BY <1>3, <2>1, ChangeType, RepeatType DEF Put
<1>4. ASSUME NEW c \in Clerk, AppendPiece(c) PROVE TypeOK'
  <2>1. At(StoreMap, args[c].key) \in Text
    BY AtType DEF TypeOK
  <2>2. Append(At(StoreMap, args[c].key), args[c].piece) \in Text
    BY <2>1, PieceType DEF TypeOK, Args
  <2> QED
    BY <1>4, <2>1, <2>2, ChangeType, RepeatType DEF AppendPiece
<1>5. ASSUME NEW c \in Clerk, Receive(c) \/ LoseReply(c) PROVE TypeOK'
  BY <1>5, PieceType
    DEF Receive, ReturnGet, Acknowledge, ReturnPutAppend, LoseReply, Received, TypeOK,
        server
<1>6. CASE UNCHANGED vars
  BY <1>6 DEF vars, TypeOK
<1> QED
  BY <1>1, <1>2, <1>3, <1>4, <1>5, <1>6 DEF Next, Receive

\* Every reachable state of the server and its clerks is well typed.
THEOREM TypeCorrect == Spec => []TypeOK
  BY InitType, NextType, PTL DEF Spec

-----------------------------------------------------------------------------
(* Exactly-once application and the bound on IDMap *)

\* No two clerks use the same id.
LEMMA IdsDiffer ==
    ASSUME IdsAreOwn, NEW c \in Clerk, NEW d \in Clerk, c # d
    PROVE  args[c].id # args[d].id
  BY DEF IdsAreOwn

\* The initial state satisfies the inductive invariant.
LEMMA InitInv == Init => IInv
  BY InitType DEF Init, IInv, IdsAreOwn, IDMapIsFreed, LoopsMatchServer, NoArgs

\* A new operation takes an id the server has never seen.
LEMMA InvokeInv ==
    ASSUME IInv, NEW c \in Clerk, NEW kind \in Kind, NEW k \in Key, NEW p \in Piece,
           Invoke(c, kind, k, p), TypeOK'
    PROVE  IInv'
<1> USE DEF IInv
<1>1. IdsAreOwn'
  BY DEF Invoke, IdsAreOwn, TypeOK
<1>2. \A d \in Clerk : d # c => args'[d] = args[d] /\ pc'[d] = pc[d]
  BY DEF Invoke, TypeOK
<1>3. IDMap' = IDMap
  BY DEF Invoke, server
<1>4. <<c, ops[c] + 1>> \notin DOMAIN IDMap
  BY DEF Invoke, IDMapIsFreed, IdsAreOwn, TypeOK
<1>5. IDMapIsFreed'
  BY <1>2, <1>3 DEF Invoke, IDMapIsFreed
<1>6. LoopsMatchServer'
  BY <1>3, <1>4 DEF Invoke, LoopsMatchServer, TypeOK, Kind
<1> QED
  BY <1>1, <1>5, <1>6

\* A Modify that changes the store is the first one of its operation.
LEMMA ChangeInv ==
    ASSUME IInv, NEW c \in Clerk, NEW new \in Text, NEW saved \in Text,
           args[c].kind = "Append" => saved = At(StoreMap, args[c].key),
           Change(c, new, saved), call[c] = "request", TypeOK'
    PROVE  IInv'
<1> USE DEF IInv
<1>1. /\ DOMAIN IDMap' = DOMAIN IDMap \cup {args[c].id}
      /\ IDMap'[args[c].id] = saved
      /\ \A x \in DOMAIN IDMap : x # args[c].id => IDMap'[x] = IDMap[x]
  BY DEF Change, Store
<1>2. args' = args /\ pc' = pc /\ ops' = ops
  BY DEF Change, Answer
<1>3. IdsAreOwn'
  BY <1>2 DEF IdsAreOwn
<1>4. IDMapIsFreed'
  BY <1>1, <1>2 DEF IDMapIsFreed, Change, NeedChange
<1>5. ASSUME NEW d \in Clerk, d # c
      PROVE  /\ args[d].id \in DOMAIN IDMap' <=> args[d].id \in DOMAIN IDMap
             /\ args[d].id \in DOMAIN IDMap => IDMap'[args[d].id] = IDMap[args[d].id]
             /\ call'[d] = call[d] /\ reply'[d] = reply[d] /\ applied'[d] = applied[d]
  BY <1>1, <1>5, IdsDiffer DEF Change, Answer, TypeOK
<1>6. LoopsMatchServer'
  <2>1. args[c].id \in DOMAIN IDMap' /\ applied'[c] = 1 /\ pc[c] = "modify"
    BY <1>1 DEF Change, NeedChange, LoopsMatchServer, TypeOK
  <2>2. reply'[c] = At(StoreMap, args[c].key)
    BY DEF Change, Answer, TypeOK
  <2> QED
    BY <1>1, <1>2, <1>5, <2>1, <2>2 DEF LoopsMatchServer
<1> QED
  BY <1>3, <1>4, <1>6

\* A repeated Modify finds the saved answer, an Ack deletes it.
LEMMA RepeatInv ==
    ASSUME IInv, NEW c \in Clerk, pc[c] \in {"modify", "ack"}, Repeat(c), TypeOK'
    PROVE  IInv'
<1> USE DEF IInv
<1>1. args' = args /\ pc' = pc /\ ops' = ops /\ applied' = applied
  BY DEF Repeat, Answer
<1>2. /\ DOMAIN IDMap' \subseteq DOMAIN IDMap
      /\ \A x \in DOMAIN IDMap : x # args[c].id => x \in DOMAIN IDMap' /\ IDMap'[x] = IDMap[x]
      /\ pc[c] = "modify" => IDMap' = IDMap
      /\ pc[c] = "ack" => args[c].id \notin DOMAIN IDMap'
  BY DEF Repeat, CheckedIDMap, Delete
<1>3. IdsAreOwn'
  BY <1>1 DEF IdsAreOwn
<1>4. IDMapIsFreed'
  BY <1>1, <1>2 DEF IDMapIsFreed
<1>5. ASSUME NEW d \in Clerk, d # c
      PROVE  /\ args[d].id \in DOMAIN IDMap' <=> args[d].id \in DOMAIN IDMap
             /\ args[d].id \in DOMAIN IDMap => IDMap'[args[d].id] = IDMap[args[d].id]
             /\ call'[d] = call[d] /\ reply'[d] = reply[d]
  BY <1>2, <1>5, IdsDiffer DEF Repeat, Answer, TypeOK
<1>6. pc[c] = "modify" => args[c].id \in DOMAIN IDMap /\ reply'[c] = IDMap[args[c].id]
  BY DEF Repeat, NeedChange, CheckedIDMap, Answer, At, TypeOK
<1>7. LoopsMatchServer'
  BY <1>1, <1>2, <1>5, <1>6 DEF LoopsMatchServer
<1> QED
  BY <1>3, <1>4, <1>7

\* Every step keeps the inductive invariant.
LEMMA NextInv == IInv /\ [Next]_vars => IInv'
<1> SUFFICES ASSUME IInv, [Next]_vars PROVE IInv'
  OBVIOUS
<1>0. TypeOK /\ TypeOK'
  BY NextType DEF IInv
<1>1. ASSUME NEW c \in Clerk, NEW kind \in Kind, NEW k \in Key, NEW p \in Piece,
             Invoke(c, kind, k, p)
      PROVE  IInv'
  BY <1>0, <1>1, InvokeInv
<1>2. ASSUME NEW c \in Clerk, Get(c) PROVE IInv'
  BY <1>0, <1>2
    DEF Get, Answer, IInv, TypeOK, IdsAreOwn, IDMapIsFreed, LoopsMatchServer, server
<1>3. ASSUME NEW c \in Clerk, Put(c) PROVE IInv'
  <2>1. <<args[c].piece>> \in Text
    BY <1>0, PieceType DEF TypeOK, Args
  <2> QED
    BY <1>0, <1>3, <2>1, ChangeInv, RepeatInv DEF Put, Handles
<1>4. ASSUME NEW c \in Clerk, AppendPiece(c) PROVE IInv'
  <2>1. At(StoreMap, args[c].key) \in Text
    BY <1>0, AtType DEF TypeOK
  <2>2. Append(At(StoreMap, args[c].key), args[c].piece) \in Text
    BY <1>0, <2>1, PieceType DEF TypeOK, Args
  <2> QED
    BY <1>0, <1>4, <2>1, <2>2, ChangeInv, RepeatInv DEF AppendPiece, Handles
<1>5. ASSUME NEW c \in Clerk, ReturnGet(c) PROVE IInv'
  BY <1>0, <1>5
    DEF ReturnGet, Received, IInv, TypeOK, IdsAreOwn, IDMapIsFreed, LoopsMatchServer,
        server
<1>6. ASSUME NEW c \in Clerk, Acknowledge(c) PROVE IInv'
  BY <1>0, <1>6
    DEF Acknowledge, Received, IInv, TypeOK, IdsAreOwn, IDMapIsFreed, LoopsMatchServer,
        server
<1>7. ASSUME NEW c \in Clerk, ReturnPutAppend(c) PROVE IInv'
  BY <1>0, <1>7
    DEF ReturnPutAppend, Received, IInv, TypeOK, IdsAreOwn, IDMapIsFreed, LoopsMatchServer,
        server
<1>8. ASSUME NEW c \in Clerk, LoseReply(c) PROVE IInv'
  BY <1>0, <1>8
    DEF LoseReply, IInv, TypeOK, IdsAreOwn, IDMapIsFreed, LoopsMatchServer, server
<1>9. CASE UNCHANGED vars
  BY <1>0, <1>9 DEF vars, IInv, IdsAreOwn, IDMapIsFreed, LoopsMatchServer
<1> QED
  BY <1>1, <1>2, <1>3, <1>4, <1>5, <1>6, <1>7, <1>8, <1>9 DEF Next

\* The inductive invariant holds in every reachable state.
THEOREM Invariance == Spec => []IInv
  BY InitInv, NextInv, PTL DEF Spec

\* Exactly-once application, for any number of clerks: a Put or Append changes the
\* store once, however many of its requests are carried out.
THEOREM AppliedExactlyOnce == Spec => []ExactlyOnce
<1>1. IInv => ExactlyOnce
  BY DEF IInv, LoopsMatchServer, ExactlyOnce
<1> QED
  BY <1>1, Invariance, PTL

\* IDMap holds entries of operations under way only, so it never has more of them
\* than there are clerks.
THEOREM IDMapFreed == Spec => []IDMapIsFreed
<1>1. IInv => IDMapIsFreed
  BY DEF IInv
<1> QED
  BY <1>1, Invariance, PTL

-----------------------------------------------------------------------------
(* Linearizability *)

\* The initial state is an initial state of the atomic store.
LEMMA InitRefines == Init => Atomic!Init
<1> SUFFICES ASSUME Init PROVE Atomic!Init
  OBVIOUS
<1>1. storeBar = [k \in Key |-> Empty]
  BY DEF Init, storeBar, At
<1>2. statusBar = [c \in Clerk |-> "idle"] /\ resultBar = [c \in Clerk |-> Empty]
  BY DEF Init, statusBar, resultBar, StatusOf, ResultOf, NoArgs, Effected
<1>3. opBar = [c \in Clerk |-> Atomic!NoOp]
  BY DEF Init, opBar, NoArgs, Atomic!NoOp
<1> QED
  BY <1>1, <1>2, <1>3 DEF Init, Atomic!Init, Atomic!Empty, Empty

\* A step leaves clerk d alone: its own variables, and the server's memory of its id.
Same(d) ==
    /\ pc'[d] = pc[d] /\ args'[d] = args[d] /\ call'[d] = call[d]
    /\ reply'[d] = reply[d] /\ reslt'[d] = reslt[d]
    /\ args[d].id \in DOMAIN IDMap' <=> args[d].id \in DOMAIN IDMap
    /\ args[d].id \in DOMAIN IDMap => IDMap'[args[d].id] = IDMap[args[d].id]

OpOf(c) == [kind |-> args[c].kind, key |-> args[c].key, piece |-> args[c].piece]

\* A clerk that a step leaves alone looks the same to the atomic store.
LEMMA SameAbstractly ==
    ASSUME NEW d \in Clerk, Same(d)
    PROVE  StatusOf(d)' = StatusOf(d) /\ ResultOf(d)' = ResultOf(d) /\ OpOf(d)' = OpOf(d)
<1>1. Effected(d)' <=> Effected(d)
  BY DEF Same, Effected
<1>2. StatusOf(d)' = StatusOf(d)
  BY <1>1 DEF Same, StatusOf
<1>3. ResultOf(d)' = ResultOf(d)
  BY <1>1 DEF Same, ResultOf, Effected
<1>4. OpOf(d)' = OpOf(d)
  BY DEF Same, OpOf
<1> QED
  BY <1>2, <1>3, <1>4

\* A step that leaves the other clerks alone changes the abstract state at c only.
LEMMA AbstractUpdate ==
    ASSUME NEW c \in Clerk, \A d \in Clerk : d # c => Same(d)
    PROVE  /\ statusBar' = [statusBar EXCEPT ![c] = StatusOf(c)']
           /\ resultBar' = [resultBar EXCEPT ![c] = ResultOf(c)']
           /\ opBar' = [opBar EXCEPT ![c] = OpOf(c)']
<1>1. \A d \in Clerk : d # c =>
        StatusOf(d)' = StatusOf(d) /\ ResultOf(d)' = ResultOf(d) /\ OpOf(d)' = OpOf(d)
  BY SameAbstractly
<1>2. statusBar' = [statusBar EXCEPT ![c] = StatusOf(c)']
  BY <1>1, Zenon DEF statusBar
<1>3. resultBar' = [resultBar EXCEPT ![c] = ResultOf(c)']
  BY <1>1, Zenon DEF resultBar
<1>4. opBar' = [opBar EXCEPT ![c] = OpOf(c)']
  BY <1>1, Zenon DEF opBar, OpOf
<1> QED
  BY <1>2, <1>3, <1>4

\* A step that changes nothing of c abstractly either is a stuttering step.
LEMMA AbstractStutter ==
    ASSUME NEW c \in Clerk, \A d \in Clerk : d # c => Same(d),
           StatusOf(c)' = StatusOf(c), ResultOf(c)' = ResultOf(c), args'[c] = args[c],
           StoreMap' = StoreMap, ret' = ret, ops' = ops
    PROVE  UNCHANGED Atomic!vars
<1>1. OpOf(c)' = OpOf(c)
  BY DEF OpOf
<1>2. statusBar' = statusBar /\ resultBar' = resultBar /\ opBar' = opBar
  BY <1>1, AbstractUpdate, ZenonT(30) DEF statusBar, resultBar, opBar, OpOf
<1>3. storeBar' = storeBar
  BY DEF storeBar
<1> QED
  BY <1>2, <1>3 DEF Atomic!vars

\* A step on clerk c that leaves IDMap as it is leaves the other clerks alone.
LEMMA OthersSame ==
    ASSUME TypeOK, NEW c \in Clerk, IDMap' = IDMap,
           \A d \in Clerk : d # c =>
               /\ pc'[d] = pc[d] /\ args'[d] = args[d] /\ call'[d] = call[d]
               /\ reply'[d] = reply[d] /\ reslt'[d] = reslt[d]
    PROVE  \A d \in Clerk : d # c => Same(d)
  BY DEF Same

\* Calling an operation is an abstract call.
LEMMA InvokeRefines ==
    ASSUME IInv, NEW c \in Clerk, NEW kind \in Kind, NEW k \in Key, NEW p \in Piece,
           Invoke(c, kind, k, p)
    PROVE  Atomic!Invoke(c)
<1> USE DEF IInv
<1>1. \A d \in Clerk : d # c => Same(d)
  BY OthersSame DEF Invoke, TypeOK, server
<1>2. args'[c] = [kind |-> kind, key |-> k, piece |-> p, id |-> <<c, ops[c] + 1>>]
  BY DEF Invoke, TypeOK
<1>3. pc[c] = "idle" /\ call'[c] = "request" /\ pc'[c] \in {"get", "modify"}
  BY DEF Invoke, TypeOK, LoopsMatchServer
<1>4. args'[c].id \notin DOMAIN IDMap'
  BY <1>2 DEF Invoke, IDMapIsFreed, IdsAreOwn, TypeOK, server
<1>5. ~Effected(c)'
  BY <1>3, <1>4 DEF Effected
<1>6. StatusOf(c)' = "invoked" /\ StatusOf(c) = "idle"
  BY <1>3, <1>5 DEF StatusOf
<1>7. ResultOf(c)' = Empty /\ ResultOf(c) = Empty
  BY <1>3, <1>5 DEF ResultOf
<1>8. OpOf(c)' = [kind |-> kind, key |-> k, piece |-> p]
  BY <1>2 DEF OpOf
<1>9. statusBar[c] = "idle" /\ statusBar' = [statusBar EXCEPT ![c] = "invoked"]
  BY <1>1, <1>6, AbstractUpdate DEF statusBar
<1>10. resultBar' = resultBar
  BY <1>1, <1>7, AbstractUpdate, Zenon DEF resultBar
<1>11. opBar' = [opBar EXCEPT ![c] = [kind |-> kind, key |-> k, piece |-> p]]
  BY <1>1, <1>8, AbstractUpdate
<1>12. storeBar' = storeBar
  BY DEF storeBar, Invoke, server
<1> QED
  BY <1>9, <1>10, <1>11, <1>12, Zenon DEF Atomic!Invoke, Atomic!Kind, Kind, Invoke

\* The Get handler is the moment at which a Get takes effect.
LEMMA GetRefines ==
    ASSUME IInv, NEW c \in Clerk, Get(c)
    PROVE  Atomic!TakeEffect(c)
<1> USE DEF IInv
<1>1. \A d \in Clerk : d # c => Same(d)
  BY OthersSame DEF Get, Answer, TypeOK, server
<1>2. /\ pc[c] = "get" /\ call[c] = "request" /\ args[c].kind = "Get"
      /\ pc'[c] = "get" /\ call'[c] = "reply" /\ args' = args
      /\ reply'[c] = At(StoreMap, args[c].key)
      /\ StoreMap' = StoreMap /\ ret' = ret /\ ops' = ops
  BY DEF Get, Answer, TypeOK, LoopsMatchServer, server
<1>3. ~Effected(c) /\ Effected(c)'
  BY <1>2 DEF Effected
<1>4. StatusOf(c) = "invoked" /\ StatusOf(c)' = "done"
  BY <1>2, <1>3 DEF StatusOf
<1>5. ResultOf(c)' = At(StoreMap, args[c].key)
  BY <1>2, <1>3 DEF ResultOf
<1>6. args[c].key \in Key /\ storeBar[args[c].key] = At(StoreMap, args[c].key)
  BY DEF TypeOK, Args, storeBar
<1>7. opBar[c].kind = "Get" /\ opBar[c].key = args[c].key
  BY <1>2 DEF opBar
<1>8. opBar' = opBar /\ storeBar' = storeBar
  BY <1>2 DEF opBar, storeBar
<1>9. statusBar[c] = "invoked" /\ statusBar' = [statusBar EXCEPT ![c] = "done"]
  BY <1>1, <1>4, AbstractUpdate DEF statusBar
<1>10. resultBar' = [resultBar EXCEPT ![c] = storeBar[args[c].key]]
  BY <1>1, <1>5, <1>6, AbstractUpdate
<1> QED
  BY <1>2, <1>7, <1>8, <1>9, <1>10 DEF Atomic!TakeEffect

\* What a Modify that changes the store does to the abstract state.
LEMMA ChangeRefines ==
    ASSUME IInv, NEW c \in Clerk, NEW new \in Text, NEW saved \in Text,
           call[c] = "request", Change(c, new, saved)
    PROVE  /\ statusBar[c] = "invoked" /\ statusBar' = [statusBar EXCEPT ![c] = "done"]
           /\ resultBar' = [resultBar EXCEPT ![c] =
                                IF args[c].kind = "Append" THEN saved ELSE Empty]
           /\ opBar' = opBar /\ ret' = ret /\ ops' = ops
           /\ args[c].key \in Key
           /\ storeBar[args[c].key] = At(StoreMap, args[c].key)
           /\ storeBar' = [storeBar EXCEPT ![args[c].key] = new]
<1> USE DEF IInv
<1>1. /\ DOMAIN IDMap' = DOMAIN IDMap \cup {args[c].id}
      /\ IDMap'[args[c].id] = saved
      /\ \A x \in DOMAIN IDMap : x # args[c].id => IDMap'[x] = IDMap[x]
  BY DEF Change, Store
<1>2. \A d \in Clerk : d # c => Same(d)
  BY <1>1, IdsDiffer DEF Same, Change, Answer, TypeOK
<1>3. /\ pc[c] = "modify" /\ pc' = pc /\ args' = args /\ ret' = ret /\ ops' = ops
      /\ args[c].id \notin DOMAIN IDMap
  BY DEF Change, NeedChange, Answer
<1>4. ~Effected(c) /\ Effected(c)'
  BY <1>1, <1>3 DEF Effected
<1>5. StatusOf(c) = "invoked" /\ StatusOf(c)' = "done"
  BY <1>3, <1>4 DEF StatusOf
<1>6. ResultOf(c)' = IF args[c].kind = "Append" THEN saved ELSE Empty
  BY <1>1, <1>3, <1>4 DEF ResultOf
<1>7. args[c].key \in Key
  BY DEF TypeOK, Args
<1>8. storeBar' = [storeBar EXCEPT ![args[c].key] = new]
  <2>1. \A k \in Key : At(StoreMap', k) = IF k = args[c].key THEN new ELSE At(StoreMap, k)
    BY DEF Change, Store, At
  <2> QED
    BY <1>7, <2>1, Zenon DEF storeBar
<1>9. statusBar[c] = "invoked" /\ statusBar' = [statusBar EXCEPT ![c] = "done"]
  BY <1>2, <1>5, AbstractUpdate DEF statusBar
<1>10. resultBar' = [resultBar EXCEPT ![c] =
                        IF args[c].kind = "Append" THEN saved ELSE Empty]
  BY <1>2, <1>6, AbstractUpdate
<1>11. opBar' = opBar
  BY <1>3 DEF opBar
<1>12. storeBar[args[c].key] = At(StoreMap, args[c].key)
  BY <1>7 DEF storeBar
<1> QED
  BY <1>3, <1>7, <1>8, <1>9, <1>10, <1>11, <1>12

\* A repeated Modify or an Ack changes nothing abstractly.
LEMMA RepeatRefines ==
    ASSUME IInv, NEW c \in Clerk, pc[c] \in {"modify", "ack"}, Repeat(c)
    PROVE  UNCHANGED Atomic!vars
<1> USE DEF IInv
<1>1. /\ DOMAIN IDMap' \subseteq DOMAIN IDMap
      /\ \A x \in DOMAIN IDMap : x # args[c].id => x \in DOMAIN IDMap' /\ IDMap'[x] = IDMap[x]
      /\ pc[c] = "modify" => IDMap' = IDMap
  BY DEF Repeat, CheckedIDMap, Delete
<1>2. \A d \in Clerk : d # c => Same(d)
  BY <1>1, IdsDiffer DEF Same, Repeat, Answer, TypeOK
<1>3. /\ pc' = pc /\ args' = args /\ reslt' = reslt /\ ret' = ret /\ ops' = ops
      /\ StoreMap' = StoreMap
      /\ pc[c] = "modify" => args[c].id \in DOMAIN IDMap
  BY DEF Repeat, NeedChange, Answer
<1>4. Effected(c) /\ Effected(c)'
  BY <1>1, <1>3 DEF Effected
<1>5. StatusOf(c)' = StatusOf(c)
  BY <1>3, <1>4 DEF StatusOf
<1>6. ResultOf(c)' = ResultOf(c)
  BY <1>1, <1>3, <1>4 DEF ResultOf
<1> QED
  BY <1>2, <1>3, <1>5, <1>6, AbstractStutter

\* The first Put handler is the moment at which a Put takes effect.
LEMMA PutRefines ==
    ASSUME IInv, NEW c \in Clerk, Put(c)
    PROVE  Atomic!TakeEffect(c) \/ UNCHANGED Atomic!vars
<1>1. CASE Change(c, <<args[c].piece>>, <<args[c].piece>>)
  <2>1. <<args[c].piece>> \in Text
    BY PieceType DEF IInv, TypeOK, Args
  <2>2. args[c].kind = "Put" /\ call[c] = "request"
    BY DEF Put, Handles
  <2>3. opBar[c].kind = "Put" /\ opBar[c].key = args[c].key /\ opBar[c].piece = args[c].piece
    BY <2>2 DEF opBar
  <2> QED
    BY <1>1, <2>1, <2>2, <2>3, ChangeRefines DEF Atomic!TakeEffect, Atomic!Empty, Empty
<1>2. CASE Repeat(c)
  BY <1>2, RepeatRefines DEF Put, Handles
<1> QED
  BY <1>1, <1>2 DEF Put

\* The first Append handler is the moment at which an Append takes effect.
LEMMA AppendRefines ==
    ASSUME IInv, NEW c \in Clerk, AppendPiece(c)
    PROVE  Atomic!TakeEffect(c) \/ UNCHANGED Atomic!vars
<1> DEFINE old == At(StoreMap, args[c].key)
           new == Append(old, args[c].piece)
<1>1. CASE Change(c, new, old)
  <2>1. old \in Text
    BY AtType DEF IInv, TypeOK
  <2>2. new \in Text
    BY <2>1, PieceType DEF IInv, TypeOK, Args
  <2>3. args[c].kind = "Append" /\ call[c] = "request"
    BY DEF AppendPiece, Handles
  <2>4. opBar[c].kind = "Append" /\ opBar[c].key = args[c].key /\ opBar[c].piece = args[c].piece
    BY <2>3 DEF opBar
  <2>5. /\ statusBar[c] = "invoked" /\ statusBar' = [statusBar EXCEPT ![c] = "done"]
        /\ resultBar' = [resultBar EXCEPT ![c] = old]
        /\ opBar' = opBar /\ ret' = ret /\ ops' = ops
        /\ args[c].key \in Key
        /\ storeBar[args[c].key] = old
        /\ storeBar' = [storeBar EXCEPT ![args[c].key] = new]
    <3> HIDE DEF new
    <3> QED
      BY <1>1, <2>1, <2>2, <2>3, ChangeRefines
  <2> QED
    BY <2>4, <2>5, Zenon DEF Atomic!TakeEffect, Atomic!Empty, storeBar
<1>2. CASE Repeat(c)
  BY <1>2, RepeatRefines DEF AppendPiece, Handles
<1> QED
  BY <1>1, <1>2 DEF AppendPiece

\* ReturnGet and ReturnPutAppend both hand the abstract result to the caller.
LEMMA ReturnRefines ==
    ASSUME IInv, NEW c \in Clerk, ReturnGet(c) \/ ReturnPutAppend(c)
    PROVE  Atomic!Return(c)
<1> USE DEF IInv
<1>1. \A d \in Clerk : d # c => Same(d)
  BY OthersSame DEF ReturnGet, ReturnPutAppend, Received, TypeOK, server
<1>2. /\ pc[c] \in {"get", "ack"} /\ call[c] = "reply" /\ pc'[c] = "idle"
      /\ args' = args /\ StoreMap' = StoreMap /\ ops' = ops
  BY DEF ReturnGet, ReturnPutAppend, Received, TypeOK, server
<1>3. Effected(c)
  BY <1>2 DEF Effected
<1>4. StatusOf(c) = "done" /\ StatusOf(c)' = "idle"
  BY <1>2, <1>3 DEF StatusOf
<1>5. ResultOf(c)' = Empty
  BY <1>2 DEF ResultOf
<1>6. ret' = [ret EXCEPT ![c] = ResultOf(c)]
  BY <1>2, <1>3 DEF ResultOf, ReturnGet, ReturnPutAppend, Received, LoopsMatchServer
<1>7. statusBar[c] = "done" /\ statusBar' = [statusBar EXCEPT ![c] = "idle"]
  BY <1>1, <1>4, AbstractUpdate DEF statusBar
<1>8. resultBar[c] = ResultOf(c) /\ resultBar' = [resultBar EXCEPT ![c] = Empty]
  BY <1>1, <1>5, AbstractUpdate DEF resultBar
<1>9. opBar' = opBar /\ storeBar' = storeBar
  BY <1>2 DEF opBar, storeBar
<1> QED
  BY <1>2, <1>6, <1>7, <1>8, <1>9 DEF Atomic!Return, Atomic!Empty, Empty

\* Going from the Modify loop to the Ack loop changes nothing abstractly.
LEMMA AcknowledgeRefines ==
    ASSUME IInv, NEW c \in Clerk, Acknowledge(c)
    PROVE  UNCHANGED Atomic!vars
<1> USE DEF IInv
<1>1. \A d \in Clerk : d # c => Same(d)
  BY OthersSame DEF Acknowledge, Received, TypeOK, server
<1>2. /\ pc[c] = "modify" /\ call[c] = "reply" /\ pc'[c] = "ack"
      /\ args' = args /\ StoreMap' = StoreMap /\ ret' = ret /\ ops' = ops
      /\ reslt'[c] = reply[c]
  BY DEF Acknowledge, Received, TypeOK, server
<1>3. /\ args[c].id \in DOMAIN IDMap
      /\ args[c].kind = "Append" => reply[c] = IDMap[args[c].id]
  BY <1>2 DEF LoopsMatchServer
<1>4. Effected(c) /\ Effected(c)'
  BY <1>2, <1>3 DEF Effected
<1>5. StatusOf(c)' = StatusOf(c)
  BY <1>2, <1>4 DEF StatusOf
<1>6. ResultOf(c)' = ResultOf(c)
  BY <1>2, <1>3, <1>4 DEF ResultOf
<1> QED
  BY <1>1, <1>2, <1>5, <1>6, AbstractStutter

\* A lost reply lets a Get take effect again and changes nothing else.
LEMMA LoseReplyRefines ==
    ASSUME IInv, NEW c \in Clerk, LoseReply(c)
    PROVE  Atomic!GetAgain(c) \/ UNCHANGED Atomic!vars
<1> USE DEF IInv
<1>1. \A d \in Clerk : d # c => Same(d)
  BY OthersSame DEF LoseReply, TypeOK, server
<1>2. /\ call[c] = "reply" /\ call'[c] = "request" /\ pc' = pc /\ args' = args
      /\ reslt' = reslt /\ StoreMap' = StoreMap /\ IDMap' = IDMap /\ ret' = ret /\ ops' = ops
      /\ pc[c] \in {"get", "modify", "ack"}
  BY DEF LoseReply, TypeOK, server, LoopsMatchServer
<1>3. CASE pc[c] = "get"
  <2>1. Effected(c) /\ ~Effected(c)'
    BY <1>2, <1>3 DEF Effected
  <2>2. StatusOf(c) = "done" /\ StatusOf(c)' = "invoked"
    BY <1>2, <1>3, <2>1 DEF StatusOf
  <2>3. ResultOf(c)' = Empty
    BY <1>2, <1>3, <2>1 DEF ResultOf
  <2>4. statusBar[c] = "done" /\ statusBar' = [statusBar EXCEPT ![c] = "invoked"]
    BY <1>1, <2>2, AbstractUpdate DEF statusBar
  <2>5. resultBar' = [resultBar EXCEPT ![c] = Empty]
    BY <1>1, <2>3, AbstractUpdate
  <2>6. opBar' = opBar /\ storeBar' = storeBar /\ opBar[c].kind = "Get"
    BY <1>2, <1>3 DEF opBar, storeBar, LoopsMatchServer
  <2> QED
    BY <1>2, <2>4, <2>5, <2>6 DEF Atomic!GetAgain, Atomic!Empty, Empty
<1>4. CASE pc[c] # "get"
  <2>1. Effected(c)' <=> Effected(c)
    BY <1>2, <1>4 DEF Effected
  <2>2. StatusOf(c)' = StatusOf(c) /\ ResultOf(c)' = ResultOf(c)
    BY <1>2, <1>4, <2>1 DEF StatusOf, ResultOf
  <2> QED
    BY <1>1, <1>2, <2>2, AbstractStutter
<1> QED
  BY <1>3, <1>4

\* Every step is a step of the atomic store or changes nothing of it.
LEMMA NextRefines == IInv /\ [Next]_vars => [Atomic!Next]_(Atomic!vars)
<1> SUFFICES ASSUME IInv, [Next]_vars
             PROVE  (\E c \in Clerk : \/ Atomic!Invoke(c) \/ Atomic!TakeEffect(c)
                                      \/ Atomic!GetAgain(c) \/ Atomic!Return(c))
                    \/ UNCHANGED Atomic!vars
  BY DEF Atomic!Next
<1>1. ASSUME NEW c \in Clerk, NEW kind \in Kind, NEW k \in Key, NEW p \in Piece,
             Invoke(c, kind, k, p)
      PROVE  Atomic!Invoke(c)
  BY <1>1, InvokeRefines
<1>2. ASSUME NEW c \in Clerk, Get(c) PROVE Atomic!TakeEffect(c)
  BY <1>2, GetRefines
<1>3. ASSUME NEW c \in Clerk, Put(c) \/ AppendPiece(c)
      PROVE  Atomic!TakeEffect(c) \/ UNCHANGED Atomic!vars
  BY <1>3, PutRefines, AppendRefines
<1>4. ASSUME NEW c \in Clerk, ReturnGet(c) \/ ReturnPutAppend(c) PROVE Atomic!Return(c)
  BY <1>4, ReturnRefines
<1>5. ASSUME NEW c \in Clerk, Acknowledge(c) PROVE UNCHANGED Atomic!vars
  BY <1>5, AcknowledgeRefines
<1>6. ASSUME NEW c \in Clerk, LoseReply(c)
      PROVE  Atomic!GetAgain(c) \/ UNCHANGED Atomic!vars
  BY <1>6, LoseReplyRefines
<1>7. CASE UNCHANGED vars
  BY <1>7 DEF vars, Atomic!vars, storeBar, statusBar, opBar, resultBar, StatusOf, ResultOf,
              Effected
<1> QED
  BY <1>1, <1>2, <1>3, <1>4, <1>5, <1>6, <1>7 DEF Next

\* Linearizability for any number of clerks, keys and strings: every behaviour of
\* the server and its clerks is one of the atomic store.
THEOREM Linearizable == Spec => ImplementsAtomic
<1>1. Init => Atomic!Init
  BY InitRefines
<1>2. IInv /\ [Next]_vars => [Atomic!Next]_(Atomic!vars)
  BY NextRefines
<1> QED
  BY <1>1, <1>2, Invariance, PTL DEF Spec, ImplementsAtomic, Atomic!Spec

=============================================================================
