----------------------------- MODULE AtMostOnce -----------------------------
(***************************************************************************)
(* What the head of labrpc/labrpc.go promises of Call(): a call that       *)
(* returns true was executed by a server; one that returns false may have  *)
(* been executed, or may yet be; none is executed twice.                   *)
(***************************************************************************)

CONSTANTS Call, Instance, nil

VARIABLES
    status,   \* what the caller knows: "idle", "pending", "true" or "false"
    ranOn     \* the server object that executed the call, or nil

vars == <<status, ranOn>>

Init ==
    /\ status = [c \in Call |-> "idle"]
    /\ ranOn = [c \in Call |-> nil]

Invoke(c) ==
    /\ status[c] = "idle"
    /\ status' = [status EXCEPT ![c] = "pending"]
    /\ UNCHANGED ranOn

\* The caller may have been told false already.
Execute(c) ==
    /\ status[c] \in {"pending", "false"}
    /\ ranOn[c] = nil
    /\ \E i \in Instance : ranOn' = [ranOn EXCEPT ![c] = i]
    /\ UNCHANGED status

ReturnTrue(c) ==
    /\ status[c] = "pending"
    /\ ranOn[c] # nil
    /\ status' = [status EXCEPT ![c] = "true"]
    /\ UNCHANGED ranOn

ReturnFalse(c) ==
    /\ status[c] = "pending"
    /\ status' = [status EXCEPT ![c] = "false"]
    /\ UNCHANGED ranOn

Next == \E c \in Call : Invoke(c) \/ Execute(c) \/ ReturnTrue(c) \/ ReturnFalse(c)

Spec == Init /\ [][Next]_vars
=============================================================================
