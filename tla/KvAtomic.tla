------------------------------ MODULE KvAtomic ------------------------------
(***************************************************************************)
(* What kvsrv promises its clients: a linearizable key-value store.  An    *)
(* operation takes effect in one atomic step between its invocation and    *)
(* its return; a Put or Append takes effect exactly once, a Get may be     *)
(* taken again as long as its answer has not been returned.  The effect is *)
(* that of KvModel.Step in models/kv.go, against which the tests check the *)
(* histories they record.                                                  *)
(***************************************************************************)
EXTENDS Naturals, Sequences

CONSTANTS Clerk, Key, Piece, MaxOps

VARIABLES
    store,   \* the value of every key
    status,  \* of the clerk's operation: "idle", "invoked" or "done"
    op,      \* the operation
    result,  \* its answer once it is done
    ret,     \* what the clerk's last operation returned
    ops      \* operations started so far

vars == <<store, status, op, result, ret, ops>>

Empty == << >>
Kind == {"Get", "Put", "Append"}
NoOp == [kind |-> "Get", key |-> CHOOSE k \in Key : TRUE, piece |-> CHOOSE p \in Piece : TRUE]

Init ==
    /\ store = [k \in Key |-> Empty]
    /\ status = [c \in Clerk |-> "idle"]
    /\ op = [c \in Clerk |-> NoOp]
    /\ result = [c \in Clerk |-> Empty]
    /\ ret = [c \in Clerk |-> Empty]
    /\ ops = [c \in Clerk |-> 0]

Invoke(c) ==
    /\ status[c] = "idle"
    /\ ops[c] < MaxOps
    /\ ops' = [ops EXCEPT ![c] = @ + 1]
    /\ status' = [status EXCEPT ![c] = "invoked"]
    /\ \E kind \in Kind, k \in Key, p \in Piece :
           op' = [op EXCEPT ![c] = [kind |-> kind, key |-> k, piece |-> p]]
    /\ UNCHANGED <<store, result, ret>>

\* The atomic step.  A Put has no answer.
TakeEffect(c) ==
    /\ status[c] = "invoked"
    /\ status' = [status EXCEPT ![c] = "done"]
    /\ LET old == store[op[c].key]
       IN  /\ store' = CASE op[c].kind = "Get"    -> store
                         [] op[c].kind = "Put"    -> [store EXCEPT ![op[c].key] = <<op[c].piece>>]
                         [] op[c].kind = "Append" -> [store EXCEPT ![op[c].key] = Append(@, op[c].piece)]
           /\ result' = [result EXCEPT ![c] = IF op[c].kind = "Put" THEN Empty ELSE old]
    /\ UNCHANGED <<op, ret, ops>>

\* The answer to a Get is dropped; it will be taken again.
GetAgain(c) ==
    /\ status[c] = "done"
    /\ op[c].kind = "Get"
    /\ status' = [status EXCEPT ![c] = "invoked"]
    /\ result' = [result EXCEPT ![c] = Empty]
    /\ UNCHANGED <<store, op, ret, ops>>

Return(c) ==
    /\ status[c] = "done"
    /\ status' = [status EXCEPT ![c] = "idle"]
    /\ ret' = [ret EXCEPT ![c] = result[c]]
    /\ result' = [result EXCEPT ![c] = Empty]
    /\ UNCHANGED <<store, op, ops>>

Next == \E c \in Clerk : Invoke(c) \/ TakeEffect(c) \/ GetAgain(c) \/ Return(c)

Spec == Init /\ [][Next]_vars

=============================================================================
