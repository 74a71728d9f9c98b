------------------------------- MODULE KvSrv -------------------------------
(***************************************************************************)
(* The key-value server of kvsrv/server.go and the Clerks of               *)
(* kvsrv/client.go, over a network that loses requests and replies.        *)
(*                                                                         *)
(* A Put or Append is two loops of RPCs: Modify until a reply comes back,  *)
(* then Ack until a reply comes back.  The server remembers the answer to  *)
(* a Modify under the operation's random id until the Ack deletes it.      *)
(*                                                                         *)
(* A value is the sequence of the strings that were put and appended; the  *)
(* empty sequence is "".                                                   *)
(***************************************************************************)
EXTENDS Naturals, Sequences, FiniteSets

CONSTANTS
    Clerk,
    Key,
    Piece,   \* the strings that clients put and append
    MaxOps   \* bound: operations per clerk

ASSUME KeyAssumption == Key # {}
ASSUME PieceAssumption == Piece # {}
ASSUME MaxOpsAssumption == MaxOps \in Nat

Empty == << >>
Text == Seq(Piece)
Kind == {"Get", "Put", "Append"}

\* nrand(): 62 random bits, taken to be different for every operation.
Id == Clerk \X Nat

VARIABLES
    StoreMap,  \* KVServer.StoreMap, a map from a subset of Key
    IDMap,     \* KVServer.IDMap, a map from the ids not yet acknowledged
    pc,        \* where a clerk is: "idle", or the loop it is in
    args,      \* the arguments of its operation
    call,      \* its current Call(): the request or the reply is in the network
    reply,     \* the Value in that reply
    reslt,     \* what PutAppend keeps while it sends Acks
    ret,       \* what the last operation of the clerk returned to its caller
    ops,       \* operations started so far
    applied    \* history: how often the current operation changed the store

server == <<StoreMap, IDMap>>
vars == <<StoreMap, IDMap, pc, args, call, reply, reslt, ret, ops, applied>>

Args == [kind : Kind, key : Key, piece : Piece, id : Id]

\* A Go map yields "" for a missing key.
At(map, k) == IF k \in DOMAIN map THEN map[k] ELSE Empty

Store(map, k, v) == [x \in DOMAIN map \cup {k} |-> IF x = k THEN v ELSE map[x]]

Delete(map, k) == [x \in DOMAIN map \ {k} |-> map[x]]

TypeOK ==
    /\ DOMAIN StoreMap \subseteq Key /\ StoreMap \in [DOMAIN StoreMap -> Text]
    /\ DOMAIN IDMap \subseteq Id /\ IDMap \in [DOMAIN IDMap -> Text]
    /\ pc \in [Clerk -> {"idle", "get", "modify", "ack"}]
    /\ args \in [Clerk -> Args]
    /\ call \in [Clerk -> {"request", "reply"}]
    /\ reply \in [Clerk -> Text]
    /\ reslt \in [Clerk -> Text]
    /\ ret \in [Clerk -> Text]
    /\ ops \in [Clerk -> Nat]
    /\ applied \in [Clerk -> Nat]

-----------------------------------------------------------------------------
\* No operation: the value args has before the first one.
NoArgs(c) == [kind |-> "Get", key |-> CHOOSE k \in Key : TRUE,
              piece |-> CHOOSE p \in Piece : TRUE, id |-> <<c, 0>>]

\* StartKVServer and MakeClerk.
Init ==
    /\ StoreMap = [k \in {} |-> Empty]
    /\ IDMap = [i \in {} |-> Empty]
    /\ pc = [c \in Clerk |-> "idle"]
    /\ args = [c \in Clerk |-> NoArgs(c)]
    /\ call = [c \in Clerk |-> "request"]
    /\ reply = [c \in Clerk |-> Empty]
    /\ reslt = [c \in Clerk |-> Empty]
    /\ ret = [c \in Clerk |-> Empty]
    /\ ops = [c \in Clerk |-> 0]
    /\ applied = [c \in Clerk |-> 0]

-----------------------------------------------------------------------------
(* The clerk *)

\* Clerk.Get, Put or Append is called; the loop's first request is sent.
Invoke(c, kind, k, p) ==
    /\ pc[c] = "idle"
    /\ ops[c] < MaxOps
    /\ ops' = [ops EXCEPT ![c] = @ + 1]
    /\ args' = [args EXCEPT ![c] = [kind |-> kind, key |-> k, piece |-> p,
                                   id |-> <<c, ops[c] + 1>>]]
    /\ pc' = [pc EXCEPT ![c] = IF kind = "Get" THEN "get" ELSE "modify"]
    /\ applied' = [applied EXCEPT ![c] = 0]
    /\ UNCHANGED <<server, call, reply, reslt, ret>>

\* Call() returns true with the reply: leave the loop.
Received(c, loop) ==
    /\ pc[c] = loop
    /\ call[c] = "reply"
    /\ call' = [call EXCEPT ![c] = "request"]
    /\ reply' = [reply EXCEPT ![c] = Empty]

ReturnGet(c) ==
    /\ Received(c, "get")
    /\ ret' = [ret EXCEPT ![c] = reply[c]]
    /\ pc' = [pc EXCEPT ![c] = "idle"]
    /\ UNCHANGED <<server, args, reslt, ops, applied>>

\* Mutant: args.State stays Modify.
AcknowledgeForgotten(c) ==
    /\ Received(c, "modify")
    /\ reslt' = [reslt EXCEPT ![c] = reply[c]]
    /\ UNCHANGED <<server, pc, args, ret, ops, applied>>

\* The first loop of PutAppend is over, the second one starts.
Acknowledge(c) ==
    /\ Received(c, "modify")
    /\ reslt' = [reslt EXCEPT ![c] = reply[c]]
    /\ pc' = [pc EXCEPT ![c] = "ack"]
    /\ UNCHANGED <<server, args, ret, ops, applied>>

\* Clerk.Append returns what PutAppend returns, Clerk.Put discards it.
ReturnPutAppend(c) ==
    /\ Received(c, "ack")
    /\ ret' = [ret EXCEPT ![c] = IF args[c].kind = "Append" THEN reslt[c] ELSE Empty]
    /\ reslt' = [reslt EXCEPT ![c] = Empty]
    /\ pc' = [pc EXCEPT ![c] = "idle"]
    /\ UNCHANGED <<server, args, ops, applied>>

\* The network drops the reply, Call() returns false and the loop calls again.  A
\* dropped request followed by the next call leaves everything as it was.
LoseReply(c) ==
    /\ call[c] = "reply"
    /\ call' = [call EXCEPT ![c] = "request"]
    /\ reply' = [reply EXCEPT ![c] = Empty]
    /\ UNCHANGED <<server, pc, args, reslt, ret, ops, applied>>

-----------------------------------------------------------------------------
(* The server: each handler runs under kv.mu *)

Answer(c, value) ==
    /\ call' = [call EXCEPT ![c] = "reply"]
    /\ reply' = [reply EXCEPT ![c] = value]
    /\ UNCHANGED <<pc, args, reslt, ret, ops>>

Get(c) ==
    /\ pc[c] = "get"
    /\ call[c] = "request"
    /\ Answer(c, At(StoreMap, args[c].key))
    /\ UNCHANGED <<server, applied>>

\* Mutant: IDMap is not looked up.
NeedChangeAlways(c) == pc[c] = "modify"

\* CheckIfNeedChange: an Ack forgets the id, a Modify changes the store unless its
\* id is known.
NeedChange(c) == pc[c] = "modify" /\ args[c].id \notin DOMAIN IDMap

\* Mutant: the Ack does not delete.
KeptIDMap(c) == IDMap

CheckedIDMap(c) == IF pc[c] = "ack" THEN Delete(IDMap, args[c].id) ELSE IDMap

Handles(c, kind) ==
    /\ pc[c] \in {"modify", "ack"}
    /\ args[c].kind = kind
    /\ call[c] = "request"

\* Mutant: the answer is remembered under the key instead of the id.
ChangeByKey(c, new, saved) ==
    /\ NeedChange(c)
    /\ StoreMap' = Store(StoreMap, args[c].key, new)
    /\ IDMap' = Store(IDMap, args[c].key, saved)
    /\ Answer(c, At(StoreMap, args[c].key))
    /\ UNCHANGED applied

\* The store is changed to new; saved is kept for a repeated Modify.
Change(c, new, saved) ==
    /\ NeedChange(c)
    /\ StoreMap' = Store(StoreMap, args[c].key, new)
    /\ IDMap' = Store(IDMap, args[c].id, saved)
    /\ Answer(c, At(StoreMap, args[c].key))
    /\ applied' = [applied EXCEPT ![c] = @ + 1]

Repeat(c) ==
    /\ ~NeedChange(c)
    /\ IDMap' = CheckedIDMap(c)
    /\ Answer(c, At(CheckedIDMap(c), args[c].id))
    /\ UNCHANGED <<StoreMap, applied>>

\* Put saves the new value, not the one it answers with.
Put(c) ==
    /\ Handles(c, "Put")
    /\ \/ Change(c, <<args[c].piece>>, <<args[c].piece>>)
       \/ Repeat(c)

\* Mutant: Append saves the new value, as Put does.
AppendSavingNew(c) ==
    /\ Handles(c, "Append")
    /\ LET new == Append(At(StoreMap, args[c].key), args[c].piece)
       IN  Change(c, new, new) \/ Repeat(c)

AppendPiece(c) ==
    /\ Handles(c, "Append")
    /\ LET old == At(StoreMap, args[c].key)
       IN  \/ Change(c, Append(old, args[c].piece), old)
           \/ Repeat(c)

-----------------------------------------------------------------------------
Handle(c) == Get(c) \/ Put(c) \/ AppendPiece(c)
Receive(c) == ReturnGet(c) \/ Acknowledge(c) \/ ReturnPutAppend(c)

Next == \E c \in Clerk :
    \/ \E kind \in Kind, k \in Key, p \in Piece : Invoke(c, kind, k, p)
    \/ Get(c)
    \/ Put(c)
    \/ AppendPiece(c)
    \/ ReturnGet(c)
    \/ Acknowledge(c)
    \/ ReturnPutAppend(c)
    \/ LoseReply(c)

Spec == Init /\ [][Next]_vars

\* The server takes up a request that is sent again and again, and the network,
\* which drops each reply with probability 1/10, does not drop all of them.
Fairness == \A c \in Clerk : WF_vars(Handle(c)) /\ SF_vars(Receive(c))

FairSpec == Spec /\ Fairness

-----------------------------------------------------------------------------
(* Safety *)

\* A Put or Append changes the store at most once however often its Modify is
\* carried out, and has changed it exactly once when its first loop ends.
ExactlyOnce ==
    \A c \in Clerk :
        /\ pc[c] \in {"modify", "ack"} => applied[c] <= 1
        /\ pc[c] = "ack" => applied[c] = 1

\* The server remembers only operations that are under way: IDMap never holds more
\* entries than there are clerks, and is empty when all of them are idle.
IDMapIsFreed ==
    DOMAIN IDMap \subseteq {args[c].id : c \in {d \in Clerk : pc[d] \in {"modify", "ack"}}}

(* The inductive invariant behind both *)

IdsAreOwn == \A c \in Clerk : args[c].id = <<c, ops[c]>>

LoopsMatchServer ==
    \A c \in Clerk :
        /\ pc[c] = "idle" => call[c] = "request"
        /\ pc[c] = "get" => args[c].kind = "Get"
        /\ pc[c] \in {"modify", "ack"} => args[c].kind \in {"Put", "Append"}
        /\ pc[c] = "modify" => applied[c] = IF args[c].id \in DOMAIN IDMap THEN 1 ELSE 0
        /\ pc[c] = "modify" /\ call[c] = "reply" => args[c].id \in DOMAIN IDMap
        /\ pc[c] = "modify" /\ call[c] = "reply" /\ args[c].kind = "Append" =>
               reply[c] = IDMap[args[c].id]
        /\ pc[c] = "ack" => applied[c] = 1
        /\ pc[c] = "ack" /\ call[c] = "reply" => args[c].id \notin DOMAIN IDMap

IInv == TypeOK /\ IdsAreOwn /\ IDMapIsFreed /\ LoopsMatchServer

-----------------------------------------------------------------------------
(* Linearizability: the first execution of a Modify, and every execution of a *)
(* Get, is the atomic step of KvAtomic.                                       *)

Effected(c) ==
    \/ pc[c] = "get" /\ call[c] = "reply"
    \/ pc[c] = "modify" /\ args[c].id \in DOMAIN IDMap
    \/ pc[c] = "ack"

StatusOf(c) == IF pc[c] = "idle" THEN "idle" ELSE IF Effected(c) THEN "done" ELSE "invoked"

ResultOf(c) ==
    CASE pc[c] = "get" /\ Effected(c) -> reply[c]
      [] args[c].kind = "Append" /\ pc[c] = "modify" /\ Effected(c) -> IDMap[args[c].id]
      [] args[c].kind = "Append" /\ pc[c] = "ack" -> reslt[c]
      [] OTHER -> Empty

storeBar == [k \in Key |-> At(StoreMap, k)]
statusBar == [c \in Clerk |-> StatusOf(c)]
opBar == [c \in Clerk |-> [kind |-> args[c].kind, key |-> args[c].key, piece |-> args[c].piece]]
resultBar == [c \in Clerk |-> ResultOf(c)]

Atomic == INSTANCE KvAtomic WITH
    store <- storeBar, status <- statusBar, op <- opBar, result <- resultBar

\* The server and its clerks implement the atomic store: every operation appears to
\* take effect once, between its call and its return, and answers accordingly.
ImplementsAtomic == Atomic!Spec

-----------------------------------------------------------------------------
(* Liveness *)

\* Every Get, Put and Append returns, although the network loses messages.
OperationsReturn == \A c \in Clerk : pc[c] # "idle" ~> pc[c] = "idle"

=============================================================================
