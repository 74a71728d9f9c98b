---------------------------- MODULE RaftRestart ----------------------------
(***************************************************************************)
(* Raft with servers that crash and restart, as the harness of             *)
(* raft/config.go does it.  start1 crashes the server and calls Make with  *)
(* what was saved.  persist() writes nothing, so readPersist returns at    *)
(* once and the new object has only what Make assigns.  The goroutines of  *)
(* the old object keep that object; they can no longer send.               *)
(***************************************************************************)
EXTENDS Raft

VARIABLES
    lateVotes,  \* RequestVote calls of old objects that labrpc has dispatched
    lateBeats,  \* likewise GetHeartbeat calls
    restarted   \* history: the servers that have restarted

lateVars == <<lateVotes, lateBeats>>
varsR == <<vars, lateVars, restarted>>

InitR == Init /\ lateVotes = {} /\ lateBeats = {} /\ restarted = {}

\* crash1: the ends from and to i are disabled and its server is deleted.  A request of
\* the old object that was dispatched before is still carried out by its receiver, and
\* nobody waits for the reply.  A reply of the old object that has passed processReq's
\* last test still arrives, and a request to i that was not yet dispatched may reach the
\* new object; any of these may also be lost, and then never takes a step.
crash1(i) ==
    /\ lateVotes' = {c \in lateVotes : c.to # i} \cup
                    {c \in voteCalls : c.from = i /\ c.phase = "request"}
    /\ lateBeats' = {c \in lateBeats : c.to # i} \cup
                    {c \in beatCalls : c.from = i /\ c.phase = "request"}
    /\ voteCalls' = {c \in voteCalls : c.from # i}
    /\ beatCalls' = {c \in beatCalls : c.from # i}
    /\ beats' = {b \in beats : b.srv # i}

\* start1: crash1, and a new object.
start1(i) ==
    /\ restarted' = restarted \cup {i}
    /\ crash1(i)
    /\ state' = [state EXCEPT ![i] = "Follower"]
    /\ currentTerm' = [currentTerm EXCEPT ![i] = InitialTerm]
    /\ votedFor' = [votedFor EXCEPT ![i] = None]
    /\ votednumber' = [votednumber EXCEPT ![i] = 0]
    /\ dead' = [dead EXCEPT ![i] = FALSE]
    /\ window' = [window EXCEPT ![i] = "quiet"]
    /\ electing' = [electing EXCEPT ![i] = 0]
    /\ UNCHANGED <<ballots, elected>>

LateVote(c) ==
    /\ Vote(c)
    /\ lateVotes' = lateVotes \ {c}
    /\ UNCHANGED <<votednumber, dead, electing, beats, voteCalls, beatCalls, elected,
                   lateBeats, restarted>>

LateBeat(c) ==
    /\ Heed(c)
    /\ lateBeats' = lateBeats \ {c}
    /\ UNCHANGED <<votedFor, votednumber, dead, electing, beats, voteCalls, beatCalls,
                   ballots, elected, lateVotes, restarted>>

NextR ==
    \/ Next /\ UNCHANGED <<lateVars, restarted>>
    \/ \E i \in Server : start1(i)
    \/ \E c \in lateVotes : LateVote(c)
    \/ \E c \in lateBeats : LateBeat(c)

SpecR == InitR /\ [][NextR]_varsR

-----------------------------------------------------------------------------
\* A term is won by two servers only if some server voted for both, and one that has
\* restarted in between and so forgotten its vote: nothing else that a crash leaves
\* behind (late requests, late replies, a candidate that runs for the same term again)
\* lets a vote count twice.
TwoLeadersShareForgetful ==
    \A e, f \in elected : e[1] = f[1] /\ e[2] # f[2] =>
        Voters(e[1], e[2]) \cap Voters(f[1], f[2]) \cap restarted # {}

=============================================================================
