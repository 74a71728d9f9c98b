-------------------------------- MODULE Raft --------------------------------
(***************************************************************************)
(* Leader election and heartbeats of raft/raft.go, the part of Raft the    *)
(* repository implements.  Every server is one Raft object with a mutex;   *)
(* each action below is one critical section of that mutex, or one read of *)
(* shared state that the code does outside it.  The goroutines of a server *)
(* are explicit: the ticker, the emitElection goroutines it has started    *)
(* and which have not run yet, the goroutines waiting in an RPC (the calls *)
(* in flight), and the sendHeartBeat loops.                                *)
(*                                                                         *)
(* The network is labrpc: a call is carried out at most once, may be lost  *)
(* on the way there or back, and may be delayed past any other.            *)
(***************************************************************************)
EXTENDS Integers, FiniteSets

CONSTANTS
    N,               \* len(rf.peers)
    LongReordering,  \* may a vote reply outlive the election it belongs to?
    MaxTerm,         \* bound: no election is started beyond this term
    MaxPending,      \* bound: emitElection goroutines tracked per server
    MaxKills,        \* bound: calls of Kill()
    MaxBeatCalls,    \* bound: GetHeartbeat calls in flight, a further one is lost
    Timers           \* bound: the servers whose ticker gets to run

ASSUME NAssumption == N \in Nat \ {0}
ASSUME LongReorderingAssumption == LongReordering \in BOOLEAN
ASSUME BoundsAssumption ==
    MaxTerm \in Nat /\ MaxPending \in Nat /\ MaxKills \in Nat /\ MaxBeatCalls \in Nat

Server == 0 .. N - 1
None == -1

ASSUME TimersAssumption == Timers \subseteq Server

VARIABLES
    state,         \* Follower, Candidate or Leader
    currentTerm,
    votedFor,
    votednumber,
    dead,          \* set by Kill()
    window,        \* lastTimeReceiveRPC against the ticker's startWaitTime
    electing,      \* emitElection goroutines started, critical section not run
    beats,         \* sendHeartBeat goroutines
    voteCalls,     \* RequestVote calls in flight
    beatCalls,     \* GetHeartbeat calls in flight
    ballots,       \* history: <<voter, term, candidate>> of every vote given
    elected        \* history: <<term, server>> of every candidate that won

rfVars == <<state, currentTerm, votedFor, votednumber>>
threadVars == <<dead, window, electing, beats>>
vars == <<state, currentTerm, votedFor, votednumber, dead, window, electing,
          beats, voteCalls, beatCalls, ballots, elected>>

ServerState == {"Follower", "Candidate", "Leader"}

\* "heard" and "quiet": the ticker sleeps, and an RPC has (no RPC has) stamped
\* lastTimeReceiveRPC since its startWaitTime; "stopped": it saw killed().
Window == {"quiet", "heard", "stopped"}

VoteCall == [from : Server, to : Server, term : Nat, phase : {"request", "granted"}]
BeatCall == [from : Server, to : Server, term : Nat, phase : {"request", "rejected"}]

\* A sendHeartBeat goroutine of srv, started when srv won term born.  next = -1
\* is the head of the loop, 0 .. N-1 the peer to send to, N the test after the
\* inner loop; term is the copy of currentTerm in appendentries.
Beat == [srv : Server, born : Nat, next : -1 .. N, term : Nat]

TypeOK ==
    /\ state \in [Server -> ServerState]
    /\ currentTerm \in [Server -> Nat]
    /\ votedFor \in [Server -> Server \cup {None}]
    /\ votednumber \in [Server -> Nat]
    /\ dead \in [Server -> BOOLEAN]
    /\ window \in [Server -> Window]
    /\ electing \in [Server -> Nat]
    /\ beats \subseteq Beat
    /\ voteCalls \subseteq VoteCall
    /\ beatCalls \subseteq BeatCall
    /\ ballots \subseteq Server \X Nat \X Server
    /\ elected \subseteq Nat \X Server

-----------------------------------------------------------------------------
\* Mutant: Make starts at -1, like votedFor.
InitialTermUnset == -1

InitialTerm == 0

\* Make().  readPersist finds nothing: persist() never writes.
Init ==
    /\ state = [i \in Server |-> "Follower"]
    /\ currentTerm = [i \in Server |-> InitialTerm]
    /\ votedFor = [i \in Server |-> None]
    /\ votednumber = [i \in Server |-> 0]
    /\ dead = [i \in Server |-> FALSE]
    /\ window = [i \in Server |-> "quiet"]
    /\ electing = [i \in Server |-> 0]
    /\ beats = {}
    /\ voteCalls = {}
    /\ beatCalls = {}
    /\ ballots = {}
    /\ elected = {}

\* lastTimeReceiveRPC = time.Now()
Stamp(i) == [window EXCEPT ![i] = IF @ = "quiet" THEN "heard" ELSE @]

-----------------------------------------------------------------------------
(* The ticker goroutine *)

\* The loop test.
TickerContinues(i) == ~dead[i]

\* After the sleep: start an election if nothing was heard and i does not lead;
\* then the loop test and the next startWaitTime.  (An RPC that falls between the
\* two is forgotten, as if it had been heard and one more idle wait had followed.)
TickerCheck(i) ==
    /\ i \in Timers
    /\ window[i] # "stopped"
    /\ electing' = IF window[i] = "quiet" /\ state[i] # "Leader" /\ electing[i] < MaxPending
                   THEN [electing EXCEPT ![i] = @ + 1]
                   ELSE electing
    /\ window' = [window EXCEPT ![i] = IF TickerContinues(i) THEN "quiet" ELSE "stopped"]
    /\ UNCHANGED <<rfVars, dead, beats, voteCalls, beatCalls, ballots, elected>>

Kill(i) ==
    /\ Cardinality({j \in Server : dead[j]}) < MaxKills
    /\ ~dead[i]
    /\ dead' = [dead EXCEPT ![i] = TRUE]
    /\ UNCHANGED <<rfVars, window, electing, beats, voteCalls, beatCalls, ballots, elected>>

-----------------------------------------------------------------------------
(* Elections *)

\* The calls that can still return when i starts an election.  A request reaches its
\* handler within 27 ms or never, and the ticker sleeps at least 300 ms, so those of
\* the previous election have been carried out or are lost.  Their replies have
\* arrived as well, except under long reordering, which holds them back for up to
\* 2.2 s.  A call that stays in voteCalls for ever is lost, too.
Outstanding(i) ==
    {c \in voteCalls : c.from = i => LongReordering /\ c.phase = "granted"}

\* emitElection looks at neither rf.state nor killed().
emitElection(i) ==
    /\ electing[i] > 0
    /\ currentTerm[i] < MaxTerm
    /\ electing' = [electing EXCEPT ![i] = @ - 1]
    /\ LET term == currentTerm[i] + 1
       IN  /\ currentTerm' = [currentTerm EXCEPT ![i] = term]
           /\ voteCalls' = Outstanding(i) \cup
                  {[from |-> i, to |-> j, term |-> term, phase |-> "request"] :
                       j \in Server \ {i}}
           /\ ballots' = ballots \cup {<<i, term, i>>}
    /\ state' = [state EXCEPT ![i] = "Candidate"]
    /\ votedFor' = [votedFor EXCEPT ![i] = i]
    /\ votednumber' = [votednumber EXCEPT ![i] = 1]
    /\ UNCHANGED <<dead, window, beats, beatCalls, elected>>

\* Mutant: votedFor is not tested.
GrantsAlways(c) == currentTerm[c.to] <= c.term

\* Will the receiver of c give its vote?  It forgets an older term's vote first.
Grants(c) ==
    /\ currentTerm[c.to] <= c.term
    /\ currentTerm[c.to] < c.term \/ votedFor[c.to] \in {None, c.from}

\* What the handler does to the receiver of c.
Vote(c) ==
    LET rf    == c.to
        newer == currentTerm[rf] < c.term
        vote  == IF newer THEN None ELSE votedFor[rf]
    IN  /\ currentTerm' = [currentTerm EXCEPT ![rf] = IF newer THEN c.term ELSE @]
        /\ state' = [state EXCEPT ![rf] = IF newer THEN "Follower" ELSE @]
        /\ votedFor' = [votedFor EXCEPT ![rf] = IF Grants(c) THEN c.from ELSE vote]
        /\ window' = Stamp(rf)
        /\ ballots' = IF Grants(c) THEN ballots \cup {<<rf, c.term, c.from>>} ELSE ballots

\* The handler and its reply.  A refusal is not kept as a reply: the caller ignores it.
RequestVote(c) ==
    /\ c.phase = "request"
    /\ Vote(c)
    /\ voteCalls' = (voteCalls \ {c}) \cup
           (IF Grants(c) THEN {[c EXCEPT !.phase = "granted"]} ELSE {})
    /\ UNCHANGED <<votednumber, dead, electing, beats, beatCalls, elected>>

\* Mutant: rf.state is not tested.
WinsInAnyState(i) == votednumber[i] + 1 > N \div 2

\* Does one more vote make i the leader?
Wins(i) == state[i] = "Candidate" /\ votednumber[i] + 1 > N \div 2

\* The goroutine of emitElection once its call returned with VoteGranted; the
\* winner starts sendHeartBeat (LeaderOperation).
CountVote(c) ==
    /\ c.phase = "granted"
    /\ LET rf  == c.from
           won == Wins(rf)
       IN  /\ votednumber' = [votednumber EXCEPT ![rf] = @ + 1]
           /\ state' = [state EXCEPT ![rf] = IF won THEN "Leader" ELSE @]
           /\ beats' = IF won
                       THEN beats \cup {[srv |-> rf, born |-> currentTerm[rf],
                                         next |-> -1, term |-> 0]}
                       ELSE beats
           /\ elected' = IF won THEN elected \cup {<<currentTerm[rf], rf>>} ELSE elected
    /\ voteCalls' = voteCalls \ {c}
    /\ UNCHANGED <<currentTerm, votedFor, dead, window, electing, beatCalls, ballots>>

-----------------------------------------------------------------------------
(* Heartbeats *)

\* Mutant: one round of heartbeats, no loop.
LoopsNever(b) == FALSE

\* Mutant: a candidate goes on as well.
LoopsUnlessFollower(b) == state[b.srv] # "Follower"

\* The test of rf.state in the loop, made without the mutex.
Loops(b) == state[b.srv] = "Leader"

\* The peer that follows p in rf.peers, i itself skipped.
NextPeer(i, p) == IF p + 1 = i THEN p + 2 ELSE p + 1

MoveBeat(b, next, term) ==
    beats' = (beats \ {b}) \cup {[b EXCEPT !.next = next, !.term = term]}

\* Loop head: appendentries is filled under the mutex, rf.state is not tested.
BeatRead(b) ==
    /\ b.next = -1
    /\ MoveBeat(b, NextPeer(b.srv, -1), currentTerm[b.srv])
    /\ UNCHANGED <<rfVars, dead, window, electing, voteCalls, beatCalls, ballots, elected>>

\* Send to one peer, then test rf.state without the mutex.  A further copy of a
\* heartbeat still in flight counts as lost.
BeatSend(b) ==
    /\ b.next \in Server
    /\ beatCalls' = IF Cardinality(beatCalls) < MaxBeatCalls
                    THEN beatCalls \cup {[from |-> b.srv, to |-> b.next,
                                          term |-> b.term, phase |-> "request"]}
                    ELSE beatCalls
    /\ IF Loops(b) /\ NextPeer(b.srv, b.next) < N
       THEN MoveBeat(b, NextPeer(b.srv, b.next), b.term)
       ELSE MoveBeat(b, N, 0)
    /\ UNCHANGED <<rfVars, dead, window, electing, voteCalls, ballots, elected>>

\* The second test of rf.state: leave the loop, or sleep and go round.
BeatCheck(b) ==
    /\ b.next = N
    /\ IF Loops(b) THEN MoveBeat(b, -1, 0) ELSE beats' = beats \ {b}
    /\ UNCHANGED <<rfVars, dead, window, electing, voteCalls, beatCalls, ballots, elected>>

\* Mutant: every heartbeat is accepted.
RejectsNone(c) == FALSE

\* Is the heartbeat of an older term?
Rejects(c) == currentTerm[c.to] > c.term

\* What the handler does to the receiver of c.
Heed(c) ==
    IF Rejects(c) THEN UNCHANGED <<state, currentTerm, window>>
    ELSE /\ state' = [state EXCEPT ![c.to] = "Follower"]
         /\ currentTerm' = [currentTerm EXCEPT ![c.to] = c.term]
         /\ window' = Stamp(c.to)

\* The handler and its reply.  The goroutine behind an accepted heartbeat does nothing
\* more, so only a rejection is kept as a reply.
GetHeartbeat(c) ==
    /\ c.phase = "request"
    /\ Heed(c)
    /\ beatCalls' = (beatCalls \ {c}) \cup
           (IF Rejects(c) THEN {[c EXCEPT !.phase = "rejected"]} ELSE {})
    /\ UNCHANGED <<votedFor, votednumber, dead, electing, beats, voteCalls, ballots, elected>>

\* GetHeartbeat never assigns reply.Term.
HeartbeatReplyTerm == 0

\* The goroutine of sendHeartBeat once a rejected call returned.
HeartbeatReply(c) ==
    /\ c.phase = "rejected"
    /\ beatCalls' = beatCalls \ {c}
    /\ state' = [state EXCEPT ![c.from] =
                     IF currentTerm[c.from] < HeartbeatReplyTerm THEN "Follower" ELSE @]
    /\ UNCHANGED <<currentTerm, votedFor, votednumber, threadVars, voteCalls, ballots, elected>>

\* The request or its reply is lost: Call() returns false, with the zero reply.
LoseBeat(c) ==
    /\ c.phase = "request"
    /\ beatCalls' = beatCalls \ {c}
    /\ UNCHANGED <<rfVars, threadVars, voteCalls, ballots, elected>>

-----------------------------------------------------------------------------
ServerStep(i) == TickerCheck(i) \/ Kill(i) \/ emitElection(i)
VoteStep(c) == RequestVote(c) \/ CountVote(c)
BeatStep(b) == BeatRead(b) \/ BeatSend(b) \/ BeatCheck(b)
BeatCallStep(c) == GetHeartbeat(c) \/ HeartbeatReply(c) \/ LoseBeat(c)

Next ==
    \/ \E i \in Server : ServerStep(i)
    \/ \E c \in voteCalls : VoteStep(c)
    \/ \E b \in beats : BeatStep(b)
    \/ \E c \in beatCalls : BeatCallStep(c)

Spec == Init /\ [][Next]_vars

-----------------------------------------------------------------------------
(* Safety *)

\* A server gives its vote to at most one candidate of a term: RequestVote tests
\* votedFor, and GetHeartbeat, which raises the term without clearing votedFor,
\* only makes the server refuse more.
VoteOncePerTerm ==
    \A a, b \in ballots : a[1] = b[1] /\ a[2] = b[2] => a[3] = b[3]

Voters(t, c) == {v \in Server : <<v, t, c>> \in ballots}

\* Every candidate that won a term was voted for in that term by a majority of the
\* servers, although votednumber only counts replies and forgets who sent them.
WinnerHasMajority ==
    \A e \in elected : 2 * Cardinality(Voters(e[1], e[2])) > N

\* No term is ever won by two servers.
OneLeaderPerTerm ==
    \A e, f \in elected : e[1] = f[1] => e[2] = f[2]

\* A leader always has the sendHeartBeat loop it started when it won its term: the
\* loop's two tests of rf.state, made without the mutex, never end it too early.
LeaderHasHeartbeatLoop ==
    \A i \in Server : state[i] = "Leader" =>
        \E b \in beats : b.srv = i /\ b.born = currentTerm[i]

\* No handler, election or late reply moves a server back to an older term, and a
\* server that stays leader stays in the term it won.
TermsOnlyGrow ==
    [][\A i \in Server :
          /\ currentTerm[i] <= currentTerm'[i]
          /\ state[i] = "Leader" /\ state'[i] = "Leader" =>
                 currentTerm'[i] = currentTerm[i]]_vars

-----------------------------------------------------------------------------
(* The inductive invariants behind the safety properties *)

\* Server v has given no two votes in a term and none in a term later than its own, and
\* a vote of its present term is the one it remembers.
Faithful(v) ==
    /\ \A a, b \in ballots : a[1] = v /\ b[1] = v /\ a[2] = b[2] => a[3] = b[3]
    /\ \A b \in ballots : b[1] = v =>
           b[2] <= currentTerm[v] /\ (b[2] = currentTerm[v] => votedFor[v] = b[3])

VoteInv == TypeOK /\ \A v \in Server : Faithful(v)

\* A call is carried out at most once, and its ballot is cast when it is granted; nobody
\* has two calls to the same peer.
CallsMatchBallots ==
    /\ \A c \in voteCalls :
           c.from # c.to /\ (c.phase = "granted" => <<c.to, c.term, c.from>> \in ballots)
    /\ \A c, d \in voteCalls : c.from = d.from /\ c.to = d.to => c = d

\* The peers whose reply i still waits for.
Asked(i) == {v \in Server : \E c \in voteCalls : c.from = i /\ c.to = v}

\* A candidate waits only for the replies of its present election, and has counted only
\* voters whose reply it no longer waits for.
CountMatchesBallots ==
    \A i \in Server : state[i] = "Candidate" =>
        /\ \A c \in voteCalls : c.from = i => c.term = currentTerm[i]
        /\ votednumber[i] <= Cardinality(Voters(currentTerm[i], i) \ Asked(i))

ElectionInv == TypeOK /\ CallsMatchBallots /\ CountMatchesBallots /\ WinnerHasMajority

-----------------------------------------------------------------------------
(* What comments, notes and tests say and the code does not do *)

\* A leader steps down only when it learns of a newer term: an old leader that
\* rejoins does not disturb the new one.
LeaderDeposedByNewerTermOnly ==
    [][\A i \in Server : state[i] = "Leader" /\ state'[i] = "Follower" =>
           currentTerm'[i] > currentTerm[i]]_vars

-----------------------------------------------------------------------------
(* Liveness *)

\* Goroutines are scheduled.  Nothing is assumed of the network.
Fairness ==
    /\ \A i \in Timers : WF_vars(TickerCheck(i)) /\ WF_vars(emitElection(i))
    /\ \A i \in Server, t \in 1 .. MaxTerm :
           WF_vars(\E b \in beats : b.srv = i /\ b.born = t /\ BeatStep(b))

FairSpec == Spec /\ Fairness

Looping(i) == \E b \in beats : b.srv = i

\* A server that is never leader again ends all its sendHeartBeat loops.
DeposedLeaderGoesSilent ==
    \A i \in Server : <>[](state[i] # "Leader") => <>[](~Looping(i))

=============================================================================
