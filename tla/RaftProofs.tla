----------------------------- MODULE RaftProofs -----------------------------
(***************************************************************************)
(* Proofs about the modules Raft and RaftRestart, for every number of      *)
(* servers and every bound.                                                *)
(***************************************************************************)
EXTENDS RaftRestart, FiniteSetTheorems, TLAPS

-----------------------------------------------------------------------------
(* Types *)

\* The position after a peer is again a position of the sending loop.
LEMMA NextPeerType ==
    ASSUME NEW i \in Server, NEW p \in -1 .. N - 1
    PROVE  NextPeer(i, p) \in -1 .. N
BY NAssumption DEF NextPeer, Server

\* Moving a heartbeat loop keeps beats well typed.
LEMMA MoveBeatType ==
    ASSUME TypeOK, NEW b \in beats, NEW next \in -1 .. N, NEW term \in Nat,
           MoveBeat(b, next, term)
    PROVE  beats' \subseteq Beat
BY Zenon DEF MoveBeat, TypeOK, Beat

\* What RequestVote does to its receiver is well typed.
LEMMA VoteType ==
    ASSUME TypeOK, NEW c \in VoteCall, Vote(c)
    PROVE  /\ currentTerm' \in [Server -> Nat] /\ state' \in [Server -> ServerState]
           /\ votedFor' \in [Server -> Server \cup {None}]
           /\ window' \in [Server -> Window]
           /\ ballots' \subseteq Server \X Nat \X Server
<1>1. ballots' \subseteq Server \X Nat \X Server
  BY DEF Vote, TypeOK, VoteCall
<1>2. window' \in [Server -> Window]
  BY Zenon DEF Vote, TypeOK, Stamp, Window, VoteCall
<1>3. votedFor' \in [Server -> Server \cup {None}]
  BY Zenon DEF Vote, TypeOK, VoteCall
<1>4. currentTerm' \in [Server -> Nat] /\ state' \in [Server -> ServerState]
  BY Zenon DEF Vote, TypeOK, VoteCall, ServerState
<1> QED
  BY <1>1, <1>2, <1>3, <1>4, Zenon

\* What GetHeartbeat does to its receiver is well typed.
LEMMA HeedType ==
    ASSUME TypeOK, NEW c \in BeatCall, Heed(c)
    PROVE  /\ currentTerm' \in [Server -> Nat] /\ state' \in [Server -> ServerState]
           /\ window' \in [Server -> Window]
<1>1. c.to \in Server /\ c.term \in Nat
  BY Zenon DEF BeatCall
<1> QED
  BY <1>1 DEF Heed, TypeOK, Stamp, Window, ServerState

\* Every action keeps the state well typed.
LEMMA NextType == TypeOK /\ [Next]_vars => TypeOK'
<1> SUFFICES ASSUME TypeOK, [Next]_vars PROVE TypeOK'
  BY Zenon
<1> USE NAssumption
<1>1. ASSUME NEW i \in Server, TickerCheck(i) PROVE TypeOK'
  BY <1>1 DEF TickerCheck, TypeOK, rfVars, Window
<1>2. ASSUME NEW i \in Server, Kill(i) PROVE TypeOK'
  BY <1>2, Zenon DEF Kill, TypeOK, rfVars
<1>3. ASSUME NEW i \in Server, emitElection(i) PROVE TypeOK'
  <2>1. currentTerm[i] + 1 \in Nat /\ electing[i] - 1 \in Nat
    BY <1>3 DEF emitElection, TypeOK
  <2>2. voteCalls' \subseteq VoteCall
    BY <1>3, <2>1 DEF emitElection, TypeOK, Outstanding, VoteCall
  <2>3. ballots' \subseteq Server \X Nat \X Server
    BY <1>3, <2>1 DEF emitElection, TypeOK
  <2> QED
    BY <1>3, <2>1, <2>2, <2>3, Zenon DEF emitElection, TypeOK, ServerState
<1>4. ASSUME NEW c \in voteCalls, RequestVote(c) PROVE TypeOK'
  <2>1. c \in VoteCall
    BY Zenon DEF TypeOK
  <2>2. voteCalls' \subseteq VoteCall
    BY <1>4, <2>1, Zenon DEF RequestVote, TypeOK, VoteCall
  <2> QED
    BY <1>4, <2>1, <2>2, VoteType, Zenon DEF RequestVote, TypeOK
<1>5. ASSUME NEW c \in voteCalls, CountVote(c) PROVE TypeOK'
  <2>1. c \in VoteCall
    BY DEF TypeOK
  <2>2. beats' \subseteq Beat
    BY <1>5, <2>1 DEF CountVote, TypeOK, VoteCall, Beat
  <2>3. elected' \subseteq Nat \X Server
    BY <1>5, <2>1 DEF CountVote, TypeOK, VoteCall
  <2>4. votednumber' \in [Server -> Nat] /\ state' \in [Server -> ServerState]
    BY <1>5, <2>1 DEF CountVote, TypeOK, VoteCall, ServerState
  <2> QED
    BY <1>5, <2>2, <2>3, <2>4, Zenon DEF CountVote, TypeOK
<1>6. ASSUME NEW b \in beats, BeatStep(b) PROVE TypeOK'
  <2>0. b \in Beat /\ b.srv \in Server /\ b.term \in Nat /\ -1 \in -1 .. N /\ N \in -1 .. N
    BY DEF TypeOK, Beat
  <2>1. CASE BeatRead(b)
    <3>1. beats' \subseteq Beat
      BY <2>0, <2>1, NextPeerType, MoveBeatType DEF BeatRead, TypeOK
    <3> QED
      BY <2>1, <3>1, Zenon DEF BeatRead, TypeOK, rfVars
  <2>2. CASE BeatSend(b)
    <3>1. b.next \in -1 .. N - 1
      BY <2>2 DEF BeatSend, Server
    <3>2. NextPeer(b.srv, b.next) \in -1 .. N
      BY <2>0, <3>1, NextPeerType, Zenon
    <3>3. beats' \subseteq Beat
      BY <2>0, <2>2, <3>2, MoveBeatType, Zenon DEF BeatSend
    <3>4. beatCalls' \subseteq BeatCall
      BY <2>0, <2>2 DEF BeatSend, TypeOK, BeatCall
    <3> QED
      BY <2>2, <3>3, <3>4, Zenon DEF BeatSend, TypeOK, rfVars
  <2>3. CASE BeatCheck(b)
    <3>1. beats' \subseteq Beat
      BY <2>0, <2>3, MoveBeatType, Zenon DEF BeatCheck, TypeOK
    <3> QED
      BY <2>3, <3>1, Zenon DEF BeatCheck, TypeOK, rfVars
  <2> QED
    BY <1>6, <2>1, <2>2, <2>3, Zenon DEF BeatStep
<1>7. ASSUME NEW c \in beatCalls, BeatCallStep(c) PROVE TypeOK'
  <2>0. c \in BeatCall
    BY Zenon DEF TypeOK
  <2>1. CASE GetHeartbeat(c)
    <3>1. beatCalls' \subseteq BeatCall
      BY <2>0, <2>1, ZenonT(30) DEF GetHeartbeat, TypeOK, BeatCall
    <3> QED
      BY <2>0, <2>1, <3>1, HeedType, Zenon DEF GetHeartbeat, TypeOK
  <2>2. CASE HeartbeatReply(c)
    BY <2>0, <2>2, Zenon DEF HeartbeatReply, TypeOK, BeatCall, ServerState, threadVars
  <2>3. CASE LoseBeat(c)
    BY <2>3, Zenon DEF LoseBeat, TypeOK, rfVars, threadVars
  <2> QED
    BY <1>7, <2>1, <2>2, <2>3 DEF BeatCallStep
<1>8. CASE UNCHANGED vars
  BY <1>8, Zenon DEF vars, TypeOK
<1> QED
  BY <1>1, <1>2, <1>3, <1>4, <1>5, <1>6, <1>7, <1>8, Zenon DEF Next, ServerStep, VoteStep

\* The initial state is well typed.
LEMMA InitType == Init => TypeOK
BY DEF Init, TypeOK, ServerState, Window, InitialTerm

\* Type correctness of raft.go's model: votes, calls, goroutines and history keep
\* their types through every handler and goroutine step.
THEOREM TypeCorrect == Spec => []TypeOK
BY InitType, NextType, PTL DEF Spec
-----------------------------------------------------------------------------
(* Terms *)

\* Neither handler lowers a term, nor raises that of a server which goes on leading.
LEMMA VoteTerms ==
    ASSUME TypeOK, NEW c \in VoteCall, Vote(c), NEW i \in Server
    PROVE  /\ currentTerm[i] <= currentTerm'[i]
           /\ state'[i] = "Leader" => currentTerm'[i] = currentTerm[i]
<1>1. c.to \in Server /\ c.term \in Nat
  BY Zenon DEF VoteCall
<1> QED
  BY <1>1 DEF Vote, TypeOK

LEMMA HeedTerms ==
    ASSUME TypeOK, NEW c \in BeatCall, Heed(c), NEW i \in Server
    PROVE  /\ currentTerm[i] <= currentTerm'[i]
           /\ state'[i] = "Leader" => currentTerm'[i] = currentTerm[i]
<1>1. c.to \in Server /\ c.term \in Nat
  BY Zenon DEF BeatCall
<1> QED
  BY <1>1 DEF Heed, TypeOK, Rejects

\* No step lowers a term, and a leader that stays leader keeps its term.
LEMMA NextTermsGrow ==
    ASSUME TypeOK, [Next]_vars, NEW i \in Server
    PROVE  /\ currentTerm[i] <= currentTerm'[i]
           /\ state[i] = "Leader" /\ state'[i] = "Leader" => currentTerm'[i] = currentTerm[i]
<1>1. ASSUME NEW j \in Server, emitElection(j) PROVE
        /\ currentTerm[i] <= currentTerm'[i]
        /\ state'[i] = "Leader" => currentTerm'[i] = currentTerm[i]
  BY <1>1 DEF emitElection, TypeOK
<1>2. ASSUME NEW c \in voteCalls, RequestVote(c) PROVE
        /\ currentTerm[i] <= currentTerm'[i]
        /\ state'[i] = "Leader" => currentTerm'[i] = currentTerm[i]
  BY <1>2, VoteTerms, Zenon DEF RequestVote, TypeOK
<1>3. ASSUME NEW c \in beatCalls, GetHeartbeat(c) PROVE
        /\ currentTerm[i] <= currentTerm'[i]
        /\ state'[i] = "Leader" => currentTerm'[i] = currentTerm[i]
  BY <1>3, HeedTerms, Zenon DEF GetHeartbeat, TypeOK
<1>4. CASE UNCHANGED currentTerm
  BY <1>4 DEF TypeOK
<1> QED
  BY <1>1, <1>2, <1>3, <1>4, Zenon DEF Next, ServerStep, VoteStep, BeatStep, BeatCallStep,
     TickerCheck, Kill, CountVote, BeatRead, BeatSend, BeatCheck, HeartbeatReply, LoseBeat,
     rfVars, vars

\* Terms never decrease and belong to one leadership of a server, whatever late
\* RequestVote, GetHeartbeat or reply arrives.
THEOREM TermsGrow == Spec => TermsOnlyGrow
<1>1. TypeOK /\ [Next]_vars =>
        [\A i \in Server :
            /\ currentTerm[i] <= currentTerm'[i]
            /\ state[i] = "Leader" /\ state'[i] = "Leader" =>
                   currentTerm'[i] = currentTerm[i]]_vars
  BY NextTermsGrow, Zenon
<1> QED
  BY <1>1, TypeCorrect, PTL DEF Spec, TermsOnlyGrow

-----------------------------------------------------------------------------
(* Heartbeat loops *)

\* Every step keeps the loop of a leader.
LEMMA NextLoops ==
    TypeOK /\ LeaderHasHeartbeatLoop /\ [Next]_vars => LeaderHasHeartbeatLoop'
<1> SUFFICES ASSUME TypeOK, LeaderHasHeartbeatLoop, [Next]_vars,
                    NEW i \in Server, state'[i] = "Leader"
             PROVE  \E b \in beats' : b.srv = i /\ b.born = currentTerm'[i]
  BY Zenon DEF LeaderHasHeartbeatLoop
<1>1. ASSUME NEW j \in Server, emitElection(j)
      PROVE  state[i] = "Leader" /\ currentTerm'[i] = currentTerm[i] /\ beats' = beats
  BY <1>1, Zenon DEF emitElection, TypeOK
<1>2. ASSUME NEW c \in voteCalls, RequestVote(c)
      PROVE  state[i] = "Leader" /\ currentTerm'[i] = currentTerm[i] /\ beats' = beats
  <2>1. c.to \in Server /\ c.term \in Nat
    BY Zenon DEF TypeOK, VoteCall
  <2> QED
    BY <1>2, <2>1, Zenon DEF RequestVote, Vote, TypeOK
<1>3. ASSUME NEW c \in voteCalls, CountVote(c)
      PROVE  \E b \in beats' : b.srv = i /\ b.born = currentTerm'[i]
  <2>1. c.from \in Server
    BY Zenon DEF TypeOK, VoteCall
  <2>2. CASE state[i] = "Leader"
    BY <1>3, <2>2, Zenon DEF CountVote, LeaderHasHeartbeatLoop
  <2>3. CASE state[i] # "Leader"
    <3> DEFINE new == [srv |-> i, born |-> currentTerm[i], next |-> -1, term |-> 0]
    <3>1. i = c.from /\ state[i] = "Candidate" /\ votednumber[i] + 1 > N \div 2
      BY <1>3, <2>1, <2>3, Zenon DEF CountVote, TypeOK, Wins
    <3>2. new \in beats' /\ currentTerm' = currentTerm
      BY <1>3, <3>1 DEF CountVote
    <3>3. new.srv = i /\ new.born = currentTerm[i]
      BY Zenon
    <3> QED
      BY <3>2, <3>3, Zenon
  <2> QED
    BY <2>2, <2>3, Zenon
<1>4. ASSUME NEW b \in beats, BeatStep(b)
      PROVE  \E d \in beats' : d.srv = i /\ d.born = currentTerm'[i]
  <2>1. state[i] = "Leader" /\ currentTerm'[i] = currentTerm[i]
    BY <1>4, Zenon DEF BeatStep, BeatRead, BeatSend, BeatCheck, rfVars
  <2>2. PICK d \in beats : d.srv = i /\ d.born = currentTerm[i]
    BY <2>1, Zenon DEF LeaderHasHeartbeatLoop
  <2>3. CASE d # b
    BY <1>4, <2>1, <2>2, <2>3, Zenon DEF BeatStep, BeatRead, BeatSend, BeatCheck, MoveBeat
  <2>4. CASE d = b
    <3>1. b \in Beat
      BY Zenon DEF TypeOK
    <3>2. \E next, term : MoveBeat(b, next, term)
      BY <1>4, <2>1, <2>2, <2>4, Zenon DEF BeatStep, BeatRead, BeatSend, BeatCheck, Loops
    <3>3. PICK next, term : MoveBeat(b, next, term)
      BY <3>2, Zenon
    <3>4. [b EXCEPT !.next = next, !.term = term] \in beats'
      BY <3>3, Zenon DEF MoveBeat
    <3>5. [b EXCEPT !.next = next, !.term = term].srv = b.srv
          /\ [b EXCEPT !.next = next, !.term = term].born = b.born
      BY <3>1, Zenon DEF Beat
    <3> QED
      BY <2>1, <2>2, <2>4, <3>4, <3>5, Zenon
  <2> QED
    BY <2>3, <2>4, Zenon
<1>5. ASSUME NEW c \in beatCalls, BeatCallStep(c)
      PROVE  state[i] = "Leader" /\ currentTerm'[i] = currentTerm[i] /\ beats' = beats
  <2>1. c.to \in Server /\ c.from \in Server /\ c.term \in Nat
    BY Zenon DEF TypeOK, BeatCall
  <2>2. CASE GetHeartbeat(c)
    BY <2>1, <2>2, Zenon DEF GetHeartbeat, Heed, TypeOK
  <2>3. CASE HeartbeatReply(c)
    BY <2>1, <2>3, Zenon DEF HeartbeatReply, TypeOK, threadVars
  <2>4. CASE LoseBeat(c)
    BY <2>4, Zenon DEF LoseBeat, rfVars, threadVars
  <2> QED
    BY <1>5, <2>2, <2>3, <2>4, Zenon DEF BeatCallStep
<1>6. ASSUME NEW j \in Server, TickerCheck(j) \/ Kill(j)
      PROVE  state[i] = "Leader" /\ currentTerm'[i] = currentTerm[i] /\ beats' = beats
  BY <1>6, Zenon DEF TickerCheck, Kill, rfVars
<1>7. CASE UNCHANGED vars
  BY <1>7, Zenon DEF vars, LeaderHasHeartbeatLoop
<1> QED
  BY <1>1, <1>2, <1>3, <1>4, <1>5, <1>6, <1>7, Zenon
     DEF Next, ServerStep, VoteStep, LeaderHasHeartbeatLoop

\* A leader always has the sendHeartBeat loop of its term, although the loop reads
\* rf.state without the mutex.
THEOREM LeaderLoops == Spec => []LeaderHasHeartbeatLoop
<1>1. Init => LeaderHasHeartbeatLoop
  BY Zenon DEF Init, LeaderHasHeartbeatLoop
<1> QED
  BY <1>1, NextLoops, TypeCorrect, PTL DEF Spec

-----------------------------------------------------------------------------
(* Votes *)

\* A step that casts no ballot of v, and changes the vote v remembers only with its term.
LEMMA FrameFaithful ==
    ASSUME TypeOK, TypeOK', NEW v \in Server, Faithful(v),
           \A b \in ballots' : b[1] = v => b \in ballots,
           currentTerm[v] <= currentTerm'[v],
           currentTerm'[v] = currentTerm[v] => votedFor'[v] = votedFor[v]
    PROVE  Faithful(v)'
<1>1. \A a, b \in ballots' : a[1] = v /\ b[1] = v /\ a[2] = b[2] => a[3] = b[3]
  BY Zenon DEF Faithful
<1>2. ASSUME NEW b \in ballots', b[1] = v
      PROVE  b[2] <= currentTerm'[v] /\ (b[2] = currentTerm'[v] => votedFor'[v] = b[3])
  <2>1. b[2] <= currentTerm[v] /\ (b[2] = currentTerm[v] => votedFor[v] = b[3])
    BY <1>2, Zenon DEF Faithful
  <2>2. b[2] \in Nat /\ currentTerm[v] \in Nat /\ currentTerm'[v] \in Nat
    BY Zenon DEF TypeOK
  <2>3. b[2] <= currentTerm'[v]
    BY <2>1, <2>2
  <2>4. b[2] = currentTerm'[v] => currentTerm'[v] = currentTerm[v]
    BY <2>1, <2>2
  <2> QED
    BY <2>1, <2>3, <2>4, Zenon
<1> QED
  BY <1>1, <1>2, Zenon DEF Faithful

\* A ballot that v casts in a later term, or in its own with no other vote given.
LEMMA CastFaithful ==
    ASSUME TypeOK, TypeOK', NEW v \in Server, NEW t \in Nat, NEW c \in Server, Faithful(v),
           ballots' = ballots \cup {<<v, t, c>>}, currentTerm'[v] = t, votedFor'[v] = c,
           currentTerm[v] < t \/ (currentTerm[v] = t /\ votedFor[v] \in {None, c})
    PROVE  Faithful(v)'
<1> DEFINE new == <<v, t, c>>
<1>1. new[1] = v /\ new[2] = t /\ new[3] = c
  BY Zenon
<1> HIDE DEF new
<1>2. ASSUME NEW b \in ballots, b[1] = v
      PROVE  b[2] \in Nat /\ b[3] \in Server /\ b[2] <= t /\ (b[2] = t => b[3] = c)
  <2>1. b[2] \in Nat /\ b[3] \in Server /\ currentTerm[v] \in Nat
    BY Zenon DEF TypeOK
  <2>2. b[2] <= currentTerm[v] /\ (b[2] = currentTerm[v] => votedFor[v] = b[3])
    BY <1>2, Zenon DEF Faithful
  <2> QED
    BY <2>1, <2>2 DEF None, Server
<1>3. ASSUME NEW a \in ballots', NEW b \in ballots', a[1] = v, b[1] = v, a[2] = b[2]
      PROVE  a[3] = b[3]
  <2>1. CASE a \in ballots /\ b \in ballots
    BY <1>3, <2>1, Zenon DEF Faithful
  <2>2. CASE a = new
    BY <1>1, <1>2, <1>3, <2>2, Zenon DEF new
  <2>3. CASE b = new
    BY <1>1, <1>2, <1>3, <2>3, Zenon DEF new
  <2> QED
    BY <2>1, <2>2, <2>3, Zenon DEF new
<1>4. ASSUME NEW b \in ballots', b[1] = v
      PROVE  b[2] <= t /\ (b[2] = t => b[3] = c)
  <2>1. CASE b \in ballots
    BY <1>2, <1>4, <2>1, Zenon
  <2>2. CASE b = new
    BY <1>1, <2>2
  <2> QED
    BY <2>1, <2>2, Zenon DEF new
<1>5. ASSUME NEW b \in ballots', b[1] = v
      PROVE  b[2] <= currentTerm'[v] /\ (b[2] = currentTerm'[v] => votedFor'[v] = b[3])
  BY <1>4, <1>5, Zenon
<1>6. /\ \A a, b \in ballots' : a[1] = v /\ b[1] = v /\ a[2] = b[2] => a[3] = b[3]
      /\ \A b \in ballots' : b[1] = v =>
             b[2] <= currentTerm'[v] /\ (b[2] = currentTerm'[v] => votedFor'[v] = b[3])
  BY <1>3, <1>5
<1> QED
  BY <1>6 DEF Faithful

\* Starting an election casts the first ballot of the new term.
LEMMA ElectionFaithful ==
    ASSUME TypeOK, TypeOK', NEW i \in Server, emitElection(i), NEW v \in Server, Faithful(v)
    PROVE  Faithful(v)'
<1> DEFINE term == currentTerm[i] + 1
<1>1. term \in Nat /\ currentTerm[i] \in Nat /\ currentTerm[i] < term
  BY DEF TypeOK
<1>2. /\ ballots' = ballots \cup {<<i, term, i>>}
      /\ currentTerm' = [currentTerm EXCEPT ![i] = term]
      /\ votedFor' = [votedFor EXCEPT ![i] = i]
  BY Zenon DEF emitElection
<1> HIDE DEF term
<1>3. CASE v = i
  <2>1. currentTerm'[i] = term /\ votedFor'[i] = i
    BY <1>2, Zenon DEF TypeOK
  <2> QED
    BY <1>1, <1>2, <1>3, <2>1, CastFaithful, Zenon
<1>4. CASE v # i
  <2>1. currentTerm'[v] = currentTerm[v] /\ votedFor'[v] = votedFor[v]
    BY <1>2, <1>4, Zenon DEF TypeOK
  <2>2. \A b \in ballots' : b[1] = v => b \in ballots
    BY <1>2, <1>4
  <2>3. currentTerm[v] <= currentTerm'[v]
    BY <2>1 DEF TypeOK
  <2> QED
    BY <2>1, <2>2, <2>3, FrameFaithful, Zenon
<1> QED
  BY <1>3, <1>4, Zenon

\* Handling RequestVote casts at most one ballot, for the voter's present term.
LEMMA VoteFaithful ==
    ASSUME TypeOK, TypeOK', NEW c \in VoteCall, Vote(c), NEW v \in Server, Faithful(v)
    PROVE  Faithful(v)'
<1>0. /\ c.to \in Server /\ c.from \in Server /\ c.term \in Nat /\ currentTerm[c.to] \in Nat
      /\ currentTerm[v] <= currentTerm'[v]
  BY VoteTerms, Zenon DEF TypeOK, VoteCall
<1>1. CASE v = c.to /\ Grants(c)
  <2>1. ballots' = ballots \cup {<<v, c.term, c.from>>} /\ votedFor'[v] = c.from
    BY <1>1, Zenon DEF Vote, TypeOK
  <2>2. currentTerm[v] < c.term \/ (currentTerm[v] = c.term /\ votedFor[v] \in {None, c.from})
    BY <1>0, <1>1 DEF Grants
  <2>3. currentTerm'[v] = c.term
    BY <1>0, <1>1, <2>2 DEF Vote, TypeOK
  <2> QED
    BY <1>0, <2>1, <2>2, <2>3, CastFaithful, Zenon
<1>2. CASE v # c.to \/ ~Grants(c)
  <2>1. \A b \in ballots' : b[1] = v => b \in ballots
    BY <1>2 DEF Vote
  <2>2. ASSUME currentTerm'[v] = currentTerm[v] PROVE votedFor'[v] = votedFor[v]
    BY <1>0, <1>2, <2>2 DEF Vote, TypeOK
  <2> QED
    BY <1>0, <2>1, <2>2, FrameFaithful, Zenon
<1> QED
  BY <1>1, <1>2, Zenon

\* Every step keeps every server faithful.
LEMMA NextFaithful ==
    ASSUME TypeOK, [Next]_vars, NEW v \in Server, Faithful(v)
    PROVE  Faithful(v)'
<1>0. TypeOK' /\ currentTerm[v] <= currentTerm'[v]
  BY NextType, NextTermsGrow, Zenon
<1>1. ASSUME NEW i \in Server, emitElection(i) PROVE Faithful(v)'
  BY <1>0, <1>1, ElectionFaithful, Zenon
<1>2. ASSUME NEW c \in voteCalls, RequestVote(c) PROVE Faithful(v)'
  BY <1>0, <1>2, VoteFaithful, Zenon DEF RequestVote, TypeOK
<1>3. CASE UNCHANGED <<votedFor, ballots>>
  BY <1>0, <1>3, FrameFaithful, Zenon
<1> QED
  BY <1>1, <1>2, <1>3, Zenon DEF Next, ServerStep, VoteStep, BeatStep, BeatCallStep,
     TickerCheck, Kill, CountVote, BeatRead, BeatSend, BeatCheck, GetHeartbeat, HeartbeatReply,
     LoseBeat, rfVars, vars

\* VoteInv holds at all times.
LEMMA VotesInvariant == Spec => []VoteInv
<1>1. Init => VoteInv
  BY InitType, Zenon DEF Init, VoteInv, Faithful
<1>2. VoteInv /\ [Next]_vars => VoteInv'
  BY NextType, NextFaithful, Zenon DEF VoteInv
<1> QED
  BY <1>1, <1>2, PTL DEF Spec

\* No server votes for two candidates of a term, however calls are delayed and
\* reordered, although GetHeartbeat raises the term without clearing votedFor.
THEOREM VotesOnce == Spec => []VoteOncePerTerm
<1>1. ASSUME VoteInv, NEW a \in ballots, NEW b \in ballots, a[1] = b[1], a[2] = b[2]
      PROVE  a[3] = b[3]
  <2>1. a[1] \in Server /\ Faithful(a[1])
    BY <1>1, Zenon DEF VoteInv, TypeOK
  <2> QED
    BY <1>1, <2>1, Zenon DEF Faithful
<1>2. VoteInv => VoteOncePerTerm
  BY <1>1, Zenon DEF VoteOncePerTerm
<1> QED
  BY <1>2, VotesInvariant, PTL
-----------------------------------------------------------------------------
(* Elections *)

\* The replies candidate i has counted, at most.
Counted(i) == Voters(currentTerm[i], i) \ Asked(i)

\* There are finitely many servers, hence voters.
LEMMA FiniteServers ==
    /\ IsFiniteSet(Server) /\ Cardinality(Server) = N
    /\ \A S \in SUBSET Server : IsFiniteSet(S) /\ Cardinality(S) \in Nat
    /\ \A S, T \in SUBSET Server : S \subseteq T => Cardinality(S) <= Cardinality(T)
<1>1. IsFiniteSet(Server) /\ Cardinality(Server) = N
  BY NAssumption, FS_Interval DEF Server
<1>2. \A S \in SUBSET Server : IsFiniteSet(S)
  BY <1>1, FS_Subset, Zenon
<1> QED
  BY <1>1, <1>2, FS_Subset, FS_CardinalityType, Zenon

\* What a step must do to a candidate to keep its count sound.
LEMMA CountFrame ==
    ASSUME TypeOK, CountMatchesBallots, NEW i \in Server,
           state[i] = "Candidate", currentTerm'[i] = currentTerm[i],
           votednumber'[i] = votednumber[i],
           \A d \in voteCalls' : d.from = i => d.term = currentTerm[i],
           Counted(i) \subseteq Counted(i)'
    PROVE  /\ \A d \in voteCalls' : d.from = i => d.term = currentTerm'[i]
           /\ votednumber'[i] <= Cardinality(Counted(i)')
<1>1. Counted(i) \in SUBSET Server /\ Counted(i)' \in SUBSET Server
  BY Zenon DEF Counted, Voters
<1>2. Cardinality(Counted(i)) <= Cardinality(Counted(i)')
  BY <1>1, FiniteServers, Zenon
<1>3. Cardinality(Counted(i)) \in Nat /\ Cardinality(Counted(i)') \in Nat
  BY <1>1, FiniteServers, Zenon
<1>4. votednumber[i] \in Nat /\ votednumber[i] <= Cardinality(Counted(i))
  BY Zenon DEF CountMatchesBallots, Counted, TypeOK
<1> QED
  BY <1>2, <1>3, <1>4

\* A new election starts with the candidate's own vote and no old call.
LEMMA ElectionKeepsCount ==
    ASSUME ~LongReordering, TypeOK, CallsMatchBallots, CountMatchesBallots,
           NEW i \in Server, emitElection(i)
    PROVE  CallsMatchBallots' /\ CountMatchesBallots'
<1> DEFINE Request(k) == [from |-> i, to |-> k, term |-> currentTerm[i] + 1,
                          phase |-> "request"]
<1>1. Outstanding(i) = {d \in voteCalls : d.from # i}
  BY Zenon DEF Outstanding
<1>2. voteCalls' = Outstanding(i) \cup {Request(k) : k \in Server \ {i}}
  BY Zenon DEF emitElection
<1>3. \A k : /\ Request(k).from = i /\ Request(k).to = k
             /\ Request(k).term = currentTerm[i] + 1 /\ Request(k).phase = "request"
  BY Zenon
<1> HIDE DEF Request
<1>4. /\ \A d \in voteCalls' :
            \/ d \in voteCalls /\ d.from # i
            \/ \E k \in Server \ {i} : d = Request(k)
      /\ \A d \in voteCalls : d.from # i => d \in voteCalls'
  BY <1>1, <1>2, Zenon
<1>5. CallsMatchBallots'
  <2>1. ASSUME NEW d \in voteCalls'
        PROVE  d.from # d.to /\ (d.phase = "granted" => <<d.to, d.term, d.from>> \in ballots')
    <3>1. CASE d \in voteCalls
      BY <3>1, Zenon DEF CallsMatchBallots, emitElection
    <3>2. ASSUME NEW k \in Server \ {i}, d = Request(k)
          PROVE  d.from # d.to /\ d.phase # "granted"
      <4>1. k # i
        OBVIOUS
      <4>2. d.from = i /\ d.to = k /\ d.phase = "request"
        BY <1>3, <3>2, Zenon
      <4> QED
        BY <4>1, <4>2
    <3> QED
      BY <1>4, <3>1, <3>2, Zenon
  <2>2. ASSUME NEW c \in voteCalls', NEW d \in voteCalls', c.from = d.from, c.to = d.to
        PROVE  c = d
    <3>1. CASE c.from # i
      <4>1. c \in voteCalls /\ d \in voteCalls
        BY <1>3, <1>4, <2>2, <3>1, Zenon
      <4> QED
        BY <2>2, <4>1, Zenon DEF CallsMatchBallots
    <3>2. CASE c.from = i
      <4>1. PICK k \in Server : c = Request(k)
        BY <1>4, <3>2, Zenon
      <4>2. PICK l \in Server : d = Request(l)
        BY <1>4, <2>2, <3>2, Zenon
      <4>3. Request(k).to = k /\ Request(l).to = l
        BY <1>3, Zenon
      <4> QED
        BY <2>2, <4>1, <4>2, <4>3
    <3> QED
      BY <3>1, <3>2, Zenon
  <2> QED
    BY <2>1, <2>2, Zenon DEF CallsMatchBallots
<1>6. ASSUME NEW j \in Server, state'[j] = "Candidate"
      PROVE  /\ \A d \in voteCalls' : d.from = j => d.term = currentTerm'[j]
             /\ votednumber'[j] <= Cardinality(Counted(j)')
  <2>1. CASE j = i
    <3>1. currentTerm'[i] = currentTerm[i] + 1 /\ votednumber'[i] = 1
          /\ <<i, currentTerm[i] + 1, i>> \in ballots'
      BY Zenon DEF emitElection, TypeOK
    <3>2. i \in Counted(i)'
      <4>1. i \notin Asked(i)'
        BY <1>5, Zenon DEF CallsMatchBallots, Asked
      <4> QED
        BY <3>1, <4>1, Zenon DEF Counted, Voters
    <3>3. Counted(i)' \in SUBSET Server
      BY Zenon DEF Counted, Voters
    <3>4. Cardinality({i}) = 1 /\ {i} \in SUBSET Server
      BY FS_Singleton, Zenon
    <3>5. Cardinality({i}) <= Cardinality(Counted(i)')
      BY <3>2, <3>3, <3>4, FiniteServers, Zenon
    <3>6. \A d \in voteCalls' : d.from = i => d.term = currentTerm'[i]
      BY <1>3, <1>4, <3>1, Zenon
    <3> QED
      BY <2>1, <3>1, <3>4, <3>5, <3>6, Zenon
  <2>2. CASE j # i
    <3>1. /\ state[j] = "Candidate" /\ currentTerm'[j] = currentTerm[j]
          /\ votednumber'[j] = votednumber[j] /\ ballots \subseteq ballots'
      BY <1>6, <2>2, Zenon DEF emitElection, TypeOK
    <3>2. \A d \in voteCalls' : d.from = j => d \in voteCalls
      BY <1>3, <1>4, <2>2, ZenonT(30)
    <3>3. \A d \in voteCalls' : d.from = j => d.term = currentTerm[j]
      BY <3>1, <3>2, Zenon DEF CountMatchesBallots
    <3>4. Counted(j) \subseteq Counted(j)'
      BY <3>1, <3>2, Zenon DEF Counted, Voters, Asked
    <3> QED
      BY <3>1, <3>3, <3>4, CountFrame, Zenon
  <2> QED
    BY <2>1, <2>2, Zenon
<1> QED
  BY <1>5, <1>6, Zenon DEF CountMatchesBallots, Counted

\* A vote that has just been granted is not yet counted.
LEMMA VoteKeepsCount ==
    ASSUME TypeOK, CountMatchesBallots, NEW c \in VoteCall, Vote(c), UNCHANGED votednumber,
           \A d \in voteCalls' : \E e \in voteCalls :
               d.from = e.from /\ d.to = e.to /\ d.term = e.term
    PROVE  CountMatchesBallots'
<1> SUFFICES ASSUME NEW j \in Server, state'[j] = "Candidate"
             PROVE  /\ \A d \in voteCalls' : d.from = j => d.term = currentTerm'[j]
                    /\ votednumber'[j] <= Cardinality(Counted(j)')
  BY Zenon DEF CountMatchesBallots, Counted
<1>0. c.to \in Server /\ ballots \subseteq ballots'
  BY Zenon DEF VoteCall, Vote
<1>1. /\ state[j] = "Candidate" /\ currentTerm'[j] = currentTerm[j]
      /\ votednumber'[j] = votednumber[j]
  BY <1>0, Zenon DEF Vote, TypeOK
<1>2. \A d \in voteCalls' : d.from = j => d.term = currentTerm[j]
  BY <1>1, Zenon DEF CountMatchesBallots
<1>3. Counted(j) \subseteq Counted(j)'
  <2>1. Asked(j)' \subseteq Asked(j)
    BY Zenon DEF Asked
  <2> QED
    BY <1>0, <1>1, <2>1, Zenon DEF Counted, Voters
<1> QED
  BY <1>1, <1>2, <1>3, CountFrame, Zenon

\* The same of a call that its caller waits for.
LEMMA RequestKeepsCount ==
    ASSUME TypeOK, CallsMatchBallots, CountMatchesBallots,
           NEW c \in voteCalls, RequestVote(c)
    PROVE  CallsMatchBallots' /\ CountMatchesBallots'
<1> DEFINE done == [c EXCEPT !.phase = "granted"]
<1>0. c \in VoteCall
  BY Zenon DEF TypeOK
<1>1. done.from = c.from /\ done.to = c.to /\ done.term = c.term
  BY <1>0, Zenon DEF VoteCall
<1>2. /\ \A d \in voteCalls' : \/ d \in voteCalls /\ d # c
                               \/ d = done /\ <<c.to, c.term, c.from>> \in ballots'
      /\ ballots \subseteq ballots'
  BY Zenon DEF RequestVote, Vote
<1> HIDE DEF done
<1>3. CallsMatchBallots'
  <2>1. ASSUME NEW d \in voteCalls'
        PROVE  d.from # d.to /\ (d.phase = "granted" => <<d.to, d.term, d.from>> \in ballots')
    BY <1>1, <1>2, Zenon DEF CallsMatchBallots
  <2>2. ASSUME NEW d \in voteCalls', NEW e \in voteCalls', d.from = e.from, d.to = e.to
        PROVE  d = e
    BY <1>1, <1>2, <2>2, Zenon DEF CallsMatchBallots
  <2> QED
    BY <2>1, <2>2, Zenon DEF CallsMatchBallots
<1>4. \A d \in voteCalls' : \E e \in voteCalls :
          d.from = e.from /\ d.to = e.to /\ d.term = e.term
  BY <1>1, <1>2, Zenon
<1>5. CountMatchesBallots'
  BY <1>0, <1>4, VoteKeepsCount, Zenon DEF RequestVote
<1> QED
  BY <1>3, <1>5, Zenon

\* Counting a reply adds a voter that was not counted before.
LEMMA CountVoteCounts ==
    ASSUME TypeOK, CallsMatchBallots, CountMatchesBallots,
           NEW c \in voteCalls, CountVote(c), state[c.from] = "Candidate"
    PROVE  votednumber[c.from] + 1 <= Cardinality(Counted(c.from)')
<1> DEFINE i == c.from
<1>0. /\ c \in VoteCall /\ c.phase = "granted" /\ i \in Server /\ c.to \in Server
      /\ UNCHANGED <<ballots, currentTerm>> /\ voteCalls' = voteCalls \ {c}
  BY Zenon DEF CountVote, TypeOK, VoteCall
<1>1. \A d \in voteCalls : d.from = i => d.term = currentTerm[i]
  BY <1>0, Zenon DEF CountMatchesBallots
<1>2. c.to \in Voters(currentTerm[i], i) /\ c.to \in Asked(i)
  BY <1>0, <1>1, Zenon DEF CallsMatchBallots, Voters, Asked
<1>3. c.to \notin Asked(i)'
  BY <1>0, Zenon DEF CallsMatchBallots, Asked
<1>4. Counted(i) \cup {c.to} \subseteq Counted(i)' /\ c.to \notin Counted(i)
  BY <1>0, <1>2, <1>3, Zenon DEF Counted, Voters, Asked
<1>5. /\ Counted(i) \in SUBSET Server /\ Counted(i)' \in SUBSET Server
      /\ Counted(i) \cup {c.to} \in SUBSET Server
  BY <1>0, Zenon DEF Counted, Voters
<1>6. Cardinality(Counted(i) \cup {c.to}) = Cardinality(Counted(i)) + 1
  BY <1>4, <1>5, FiniteServers, FS_AddElement, Zenon
<1>7. Cardinality(Counted(i) \cup {c.to}) <= Cardinality(Counted(i)')
  BY <1>4, <1>5, FiniteServers, Zenon
<1>8. Cardinality(Counted(i)) \in Nat /\ Cardinality(Counted(i)') \in Nat
  BY <1>5, FiniteServers, Zenon
<1>9. votednumber[i] \in Nat /\ votednumber[i] <= Cardinality(Counted(i))
  BY <1>0, Zenon DEF CountMatchesBallots, Counted, TypeOK
<1> QED
  BY <1>6, <1>7, <1>8, <1>9

\* Counting a reply keeps every candidate's count sound.
LEMMA CountKeepsCount ==
    ASSUME TypeOK, CallsMatchBallots, CountMatchesBallots,
           NEW c \in voteCalls, CountVote(c)
    PROVE  CallsMatchBallots' /\ CountMatchesBallots'
<1>1. CallsMatchBallots'
  BY Zenon DEF CallsMatchBallots, CountVote
<1> SUFFICES ASSUME NEW j \in Server, state'[j] = "Candidate"
             PROVE  /\ \A d \in voteCalls' : d.from = j => d.term = currentTerm'[j]
                    /\ votednumber'[j] <= Cardinality(Counted(j)')
  BY <1>1, Zenon DEF CountMatchesBallots, Counted
<1>2. /\ c.from \in Server /\ state[j] = "Candidate"
      /\ UNCHANGED <<ballots, currentTerm>> /\ voteCalls' = voteCalls \ {c}
  BY Zenon DEF CountVote, TypeOK, VoteCall
<1>3. \A d \in voteCalls' : d.from = j => d.term = currentTerm[j]
  BY <1>2, Zenon DEF CountMatchesBallots
<1>4. CASE j = c.from
  <2>1. votednumber'[j] = votednumber[j] + 1
    BY <1>4, Zenon DEF CountVote, TypeOK
  <2> QED
    BY <1>2, <1>3, <1>4, <2>1, CountVoteCounts, Zenon
<1>5. CASE j # c.from
  <2>1. votednumber'[j] = votednumber[j]
    BY <1>2, <1>5, Zenon DEF CountVote, TypeOK
  <2>2. Counted(j) \subseteq Counted(j)'
    BY <1>2, Zenon DEF Counted, Voters, Asked
  <2> QED
    BY <1>2, <1>3, <2>1, <2>2, CountFrame, Zenon
<1> QED
  BY <1>4, <1>5, Zenon

\* The remaining steps leave candidates, their calls and the ballots alone.
LEMMA OtherKeepsCount ==
    ASSUME CallsMatchBallots, CountMatchesBallots,
           UNCHANGED <<votednumber, voteCalls, ballots>>,
           \A i \in Server : state'[i] = "Candidate" =>
               state[i] = "Candidate" /\ currentTerm'[i] = currentTerm[i]
    PROVE  CallsMatchBallots' /\ CountMatchesBallots'
<1>1. CallsMatchBallots'
  BY Zenon DEF CallsMatchBallots
<1>2. CountMatchesBallots'
  BY Zenon DEF CountMatchesBallots, Voters, Asked
<1> QED
  BY <1>1, <1>2, Zenon

\* Ballots are only added, so a majority stays one.
LEMMA BallotsGrow ==
    ASSUME WinnerHasMajority, ballots \subseteq ballots', NEW e \in elected
    PROVE  2 * Cardinality(Voters(e[1], e[2])') > N
<1>1. /\ Voters(e[1], e[2]) \in SUBSET Server /\ Voters(e[1], e[2])' \in SUBSET Server
      /\ Voters(e[1], e[2]) \subseteq Voters(e[1], e[2])'
  BY Zenon DEF Voters
<1>2. /\ Cardinality(Voters(e[1], e[2])) <= Cardinality(Voters(e[1], e[2])')
      /\ Cardinality(Voters(e[1], e[2])) \in Nat
      /\ Cardinality(Voters(e[1], e[2])') \in Nat
  BY <1>1, FiniteServers, Zenon
<1>3. 2 * Cardinality(Voters(e[1], e[2])) > N
  BY Zenon DEF WinnerHasMajority
<1> QED
  BY <1>2, <1>3, NAssumption

\* A candidate wins with the votes of a majority.
LEMMA CountKeepsMajority ==
    ASSUME TypeOK, CallsMatchBallots, CountMatchesBallots, WinnerHasMajority,
           NEW c \in voteCalls, CountVote(c)
    PROVE  WinnerHasMajority'
<1> SUFFICES ASSUME NEW e \in elected' PROVE 2 * Cardinality(Voters(e[1], e[2])') > N
  BY Zenon DEF WinnerHasMajority, Voters
<1>1. CASE e \in elected
  BY <1>1, BallotsGrow, Zenon DEF CountVote
<1>2. CASE e \notin elected
  <2> DEFINE i == c.from
  <2>1. /\ e = <<currentTerm[i], i>> /\ state[i] = "Candidate"
        /\ votednumber[i] + 1 > N \div 2 /\ UNCHANGED currentTerm
    BY <1>2, Zenon DEF CountVote, Wins
  <2>2. i \in Server /\ votednumber[i] \in Nat
    BY Zenon DEF TypeOK, VoteCall
  <2>3. votednumber[i] + 1 <= Cardinality(Counted(i)')
    BY <2>1, CountVoteCounts, Zenon
  <2>4. /\ Counted(i)' \in SUBSET Server /\ Voters(e[1], e[2])' \in SUBSET Server
        /\ Counted(i)' \subseteq Voters(e[1], e[2])'
    BY <2>1, Zenon DEF Counted, Voters
  <2>5. /\ Cardinality(Counted(i)') <= Cardinality(Voters(e[1], e[2])')
        /\ Cardinality(Counted(i)') \in Nat /\ Cardinality(Voters(e[1], e[2])') \in Nat
    BY <2>4, FiniteServers, Zenon
  <2> HIDE DEF i
  <2> QED
    BY <2>1, <2>2, <2>3, <2>5, NAssumption
<1> QED
  BY <1>1, <1>2, Zenon

\* Every step keeps ElectionInv.
LEMMA NextElection ==
    ASSUME ~LongReordering
    PROVE  ElectionInv /\ [Next]_vars => ElectionInv'
<1> SUFFICES ASSUME ElectionInv, [Next]_vars PROVE ElectionInv'
  BY Zenon
<1>0. TypeOK /\ TypeOK' /\ CallsMatchBallots /\ CountMatchesBallots /\ WinnerHasMajority
  BY NextType, Zenon DEF ElectionInv
<1>1. ASSUME ballots \subseteq ballots', elected' = elected PROVE WinnerHasMajority'
  BY <1>0, <1>1, BallotsGrow, Zenon DEF WinnerHasMajority, Voters
<1>2. ASSUME NEW i \in Server, emitElection(i) PROVE ElectionInv'
  <2>1. CallsMatchBallots' /\ CountMatchesBallots'
    BY <1>0, <1>2, ElectionKeepsCount, Zenon
  <2> QED
    BY <1>0, <1>1, <1>2, <2>1, Zenon DEF ElectionInv, emitElection
<1>3. ASSUME NEW c \in voteCalls, RequestVote(c) PROVE ElectionInv'
  <2>1. CallsMatchBallots' /\ CountMatchesBallots'
    BY <1>0, <1>3, RequestKeepsCount, Zenon
  <2>2. ballots \subseteq ballots' /\ elected' = elected
    BY <1>3, Zenon DEF RequestVote, Vote
  <2> QED
    BY <1>0, <1>1, <2>1, <2>2, Zenon DEF ElectionInv
<1>4. ASSUME NEW c \in voteCalls, CountVote(c) PROVE ElectionInv'
  BY <1>0, <1>4, CountKeepsCount, CountKeepsMajority, Zenon DEF ElectionInv
<1>5. ASSUME UNCHANGED <<votednumber, voteCalls, ballots, elected>>,
             \A i \in Server : state'[i] = "Candidate" =>
                 state[i] = "Candidate" /\ currentTerm'[i] = currentTerm[i]
      PROVE  ElectionInv'
  BY <1>0, <1>1, <1>5, OtherKeepsCount, Zenon DEF ElectionInv
<1>6. ASSUME NEW c \in beatCalls, BeatCallStep(c) PROVE ElectionInv'
  <2>0. c.to \in Server /\ c.from \in Server
    BY <1>0, Zenon DEF TypeOK, BeatCall
  <2>1. CASE GetHeartbeat(c)
    BY <1>0, <1>5, <2>0, <2>1, Zenon DEF GetHeartbeat, Heed, TypeOK
  <2>2. CASE HeartbeatReply(c)
    BY <1>0, <1>5, <2>0, <2>2, Zenon DEF HeartbeatReply, TypeOK
  <2>3. CASE LoseBeat(c)
    BY <1>5, <2>3, Zenon DEF LoseBeat, rfVars
  <2> QED
    BY <1>6, <2>1, <2>2, <2>3, Zenon DEF BeatCallStep
<1>7. CASE UNCHANGED <<rfVars, voteCalls, ballots, elected>>
  BY <1>5, <1>7, Zenon DEF rfVars
<1> QED
  BY <1>2, <1>3, <1>4, <1>6, <1>7, Zenon DEF Next, ServerStep, VoteStep, BeatStep, TickerCheck, Kill,
     BeatRead, BeatSend, BeatCheck, rfVars, vars

LEMMA InitElection == Init => ElectionInv
<1>1. Init => CallsMatchBallots /\ CountMatchesBallots /\ WinnerHasMajority
  BY Zenon DEF Init, CallsMatchBallots, CountMatchesBallots, WinnerHasMajority
<1> QED
  BY <1>1, InitType, Zenon DEF ElectionInv

\* ElectionInv holds at all times if no reply outlives its election.
LEMMA ElectionInvariant ==
    ASSUME ~LongReordering
    PROVE  Spec => []ElectionInv
<1>1. ElectionInv /\ [Next]_vars => ElectionInv'
  BY NextElection, Zenon
<1> QED
  BY <1>1, InitElection, PTL DEF Spec

\* If no reply to RequestVote outlives the election it belongs to, emitElection's
\* bare counter is right: a winner has the votes of a majority in its term.
THEOREM WinnersHaveMajority ==
    ASSUME ~LongReordering
    PROVE  Spec => []WinnerHasMajority
<1>1. ElectionInv => WinnerHasMajority
  BY Zenon DEF ElectionInv
<1> QED
  BY <1>1, ElectionInvariant, PTL

\* Two majorities share a voter.
LEMMA MajoritiesShareVoter ==
    ASSUME WinnerHasMajority, NEW e \in elected, NEW f \in elected
    PROVE  \E v \in Server : v \in Voters(e[1], e[2]) /\ v \in Voters(f[1], f[2])
<1> DEFINE S == Voters(e[1], e[2])
           T == Voters(f[1], f[2])
<1>1. S \in SUBSET Server /\ T \in SUBSET Server
  BY Zenon DEF Voters
<1>2. 2 * Cardinality(S) > N /\ 2 * Cardinality(T) > N
  BY Zenon DEF WinnerHasMajority
<1>3. Cardinality(S) \in Nat /\ Cardinality(T) \in Nat
  BY <1>1, FiniteServers, Zenon
<1> HIDE DEF S, T
<1>4. Cardinality(S) + Cardinality(T) > Cardinality(Server)
  BY <1>2, <1>3, FiniteServers, NAssumption
<1>5. S \cap T # {}
  BY <1>1, <1>4, FiniteServers, FS_MajoritiesIntersect, Zenon
<1> QED
  BY <1>1, <1>5, Zenon DEF S, T

\* A server that voted for both winners of a term is not faithful.
LEMMA FaithfulVoter ==
    ASSUME NEW v \in Server, Faithful(v), NEW e, NEW f, e[1] = f[1],
           v \in Voters(e[1], e[2]), v \in Voters(f[1], f[2])
    PROVE  e[2] = f[2]
<1> DEFINE a == <<v, e[1], e[2]>>
           b == <<v, f[1], f[2]>>
<1>1. a \in ballots /\ b \in ballots
  BY Zenon DEF Voters
<1>2. a[1] = v /\ b[1] = v /\ a[2] = b[2] /\ a[3] = e[2] /\ b[3] = f[2]
  BY Zenon
<1> QED
  BY <1>1, <1>2, Zenon DEF Faithful

\* Election safety: if no reply to RequestVote outlives the election it belongs to,
\* no term is won by two servers.
THEOREM ElectionSafety ==
    ASSUME ~LongReordering
    PROVE  Spec => []OneLeaderPerTerm
<1>1. ASSUME VoteInv, ElectionInv, NEW e \in elected, NEW f \in elected, e[1] = f[1]
      PROVE  e[2] = f[2]
  <2>1. PICK v \in Server : v \in Voters(e[1], e[2]) /\ v \in Voters(f[1], f[2])
    BY <1>1, MajoritiesShareVoter, Zenon DEF ElectionInv
  <2> QED
    BY <1>1, <2>1, FaithfulVoter, Zenon DEF VoteInv
<1>2. VoteInv /\ ElectionInv => OneLeaderPerTerm
  BY <1>1, Zenon DEF OneLeaderPerTerm
<1> QED
  BY <1>2, VotesInvariant, ElectionInvariant, PTL

-----------------------------------------------------------------------------
(* Restarts *)

\* The invariant with restarts: only servers that have restarted may have forgotten a vote.
RestartInv ==
    /\ ElectionInv
    /\ lateVotes \subseteq VoteCall /\ lateBeats \subseteq BeatCall
    /\ restarted \subseteq Server
    /\ \A v \in Server \ restarted : Faithful(v)

\* The object that Make returns is well typed.
LEMMA start1Type == ASSUME TypeOK, NEW i \in Server, start1(i) PROVE TypeOK'
<1>1. /\ state' \in [Server -> ServerState] /\ window' \in [Server -> Window]
      /\ dead' \in [Server -> BOOLEAN] /\ votedFor' \in [Server -> Server \cup {None}]
  BY Zenon DEF start1, TypeOK, ServerState, Window
<1>2. /\ currentTerm' \in [Server -> Nat] /\ votednumber' \in [Server -> Nat]
      /\ electing' \in [Server -> Nat]
  BY DEF start1, TypeOK, InitialTerm
<1>3. beats' \subseteq Beat /\ voteCalls' \subseteq VoteCall /\ beatCalls' \subseteq BeatCall
  BY Zenon DEF start1, crash1, TypeOK
<1> QED
  BY <1>1, <1>2, <1>3, Zenon DEF start1, TypeOK

\* The new object counts nothing of the old one's, and what others have counted stays.
LEMMA start1Election ==
    ASSUME ElectionInv, NEW i \in Server, start1(i) PROVE ElectionInv'
<1>1. /\ TypeOK /\ CallsMatchBallots /\ CountMatchesBallots /\ WinnerHasMajority
      /\ voteCalls' \subseteq voteCalls /\ UNCHANGED <<ballots, elected>>
  BY Zenon DEF ElectionInv, start1, crash1
<1>2. TypeOK'
  BY <1>1, start1Type, Zenon
<1>3. CallsMatchBallots'
  BY <1>1, Zenon DEF CallsMatchBallots
<1>4. WinnerHasMajority'
  BY <1>1, Zenon DEF WinnerHasMajority, Voters
<1>5. ASSUME NEW j \in Server, state'[j] = "Candidate"
      PROVE  /\ \A d \in voteCalls' : d.from = j => d.term = currentTerm'[j]
             /\ votednumber'[j] <= Cardinality(Counted(j)')
  <2>1. /\ state[j] = "Candidate" /\ currentTerm'[j] = currentTerm[j]
        /\ votednumber'[j] = votednumber[j]
    BY <1>1, <1>5 DEF start1, TypeOK
  <2>2. \A d \in voteCalls' : d.from = j => d.term = currentTerm[j]
    BY <1>1, <2>1, Zenon DEF CountMatchesBallots
  <2>3. Counted(j) \subseteq Counted(j)'
    BY <1>1, <2>1, Zenon DEF Counted, Voters, Asked
  <2> QED
    BY <1>1, <2>1, <2>2, <2>3, CountFrame, Zenon
<1> QED
  BY <1>2, <1>3, <1>4, <1>5, Zenon DEF ElectionInv, CountMatchesBallots, Counted

\* A restart keeps RestartInv: the votes of the other servers are as they were.
LEMMA start1Keeps == ASSUME RestartInv, NEW i \in Server, start1(i) PROVE RestartInv'
<1>1. ElectionInv /\ TypeOK /\ ElectionInv' /\ TypeOK'
  BY start1Election, Zenon DEF RestartInv, ElectionInv
<1>2. /\ lateVotes' \subseteq VoteCall /\ lateBeats' \subseteq BeatCall
      /\ restarted' \subseteq Server
  BY <1>1, Zenon DEF RestartInv, start1, crash1, TypeOK
<1>3. ASSUME NEW v \in Server \ restarted' PROVE Faithful(v)'
  <2>1. v \in Server /\ v # i /\ Faithful(v) /\ ballots' = ballots
    BY Zenon DEF RestartInv, start1
  <2>2. currentTerm'[v] = currentTerm[v] /\ votedFor'[v] = votedFor[v]
    BY <1>1, <2>1, Zenon DEF start1, TypeOK
  <2> QED
    BY <2>1, <2>2, Zenon DEF Faithful
<1> QED
  BY <1>1, <1>2, <1>3, Zenon DEF RestartInv

\* A late request keeps it: its receiver votes as ever, and nobody counts the vote.
LEMMA LateVoteKeeps ==
    ASSUME RestartInv, NEW c \in lateVotes, LateVote(c) PROVE RestartInv'
<1>1. /\ TypeOK /\ CallsMatchBallots /\ CountMatchesBallots /\ WinnerHasMajority
      /\ c \in VoteCall /\ ballots \subseteq ballots'
  BY Zenon DEF RestartInv, ElectionInv, LateVote, Vote
<1>2. TypeOK'
  BY <1>1, VoteType, Zenon DEF LateVote, TypeOK
<1>3. CallsMatchBallots'
  BY <1>1, Zenon DEF CallsMatchBallots, LateVote
<1>4. CountMatchesBallots'
  BY <1>1, VoteKeepsCount, Zenon DEF LateVote
<1>5. WinnerHasMajority'
  BY <1>1, BallotsGrow, Zenon DEF WinnerHasMajority, Voters, LateVote
<1>6. \A v \in Server \ restarted' : Faithful(v)'
  BY <1>1, <1>2, VoteFaithful, Zenon DEF RestartInv, LateVote
<1>7. lateVotes' \subseteq VoteCall /\ lateBeats' \subseteq BeatCall /\ restarted' \subseteq Server
  BY Zenon DEF RestartInv, LateVote
<1> QED
  BY <1>2, <1>3, <1>4, <1>5, <1>6, <1>7, Zenon DEF RestartInv, ElectionInv

\* A late heartbeat keeps it: it makes a follower of its receiver, and casts no ballot.
LEMMA LateBeatKeeps ==
    ASSUME RestartInv, NEW c \in lateBeats, LateBeat(c) PROVE RestartInv'
<1>1. /\ TypeOK /\ CallsMatchBallots /\ CountMatchesBallots /\ WinnerHasMajority
      /\ c \in BeatCall /\ c.to \in Server
      /\ UNCHANGED <<votedFor, votednumber, voteCalls, ballots, elected>>
  BY Zenon DEF RestartInv, ElectionInv, LateBeat, BeatCall
<1>2. TypeOK'
  BY <1>1, HeedType, Zenon DEF LateBeat, TypeOK
<1>3. CallsMatchBallots' /\ CountMatchesBallots'
  <2>1. \A i \in Server : state'[i] = "Candidate" =>
            state[i] = "Candidate" /\ currentTerm'[i] = currentTerm[i]
    BY <1>1, Zenon DEF LateBeat, Heed, TypeOK
  <2> QED
    BY <1>1, <2>1, OtherKeepsCount, Zenon
<1>4. WinnerHasMajority'
  BY <1>1, Zenon DEF WinnerHasMajority, Voters
<1>5. ASSUME NEW v \in Server \ restarted' PROVE Faithful(v)'
  <2>1. v \in Server /\ Faithful(v) /\ currentTerm[v] <= currentTerm'[v]
    BY <1>1, HeedTerms, Zenon DEF RestartInv, LateBeat
  <2> QED
    BY <1>1, <1>2, <2>1, FrameFaithful, Zenon
<1>6. lateVotes' \subseteq VoteCall /\ lateBeats' \subseteq BeatCall /\ restarted' \subseteq Server
  BY Zenon DEF RestartInv, LateBeat
<1> QED
  BY <1>2, <1>3, <1>4, <1>5, <1>6, Zenon DEF RestartInv, ElectionInv

\* Every step keeps RestartInv.
LEMMA NextRestart ==
    ASSUME ~LongReordering
    PROVE  RestartInv /\ [NextR]_varsR => RestartInv'
<1> SUFFICES ASSUME RestartInv, [NextR]_varsR PROVE RestartInv'
  BY Zenon
<1>1. ASSUME [Next]_vars, UNCHANGED <<lateVotes, lateBeats, restarted>> PROVE RestartInv'
  <2>1. ElectionInv /\ TypeOK /\ ElectionInv'
    BY <1>1, NextElection, Zenon DEF RestartInv, ElectionInv
  <2>2. \A v \in Server \ restarted' : Faithful(v)'
    BY <1>1, <2>1, NextFaithful, Zenon DEF RestartInv
  <2> QED
    BY <1>1, <2>1, <2>2, Zenon DEF RestartInv
<1>2. ASSUME NEW i \in Server, start1(i) PROVE RestartInv'
  BY <1>2, start1Keeps, Zenon
<1>3. ASSUME NEW c \in lateVotes, LateVote(c) PROVE RestartInv'
  BY <1>3, LateVoteKeeps, Zenon
<1>4. ASSUME NEW c \in lateBeats, LateBeat(c) PROVE RestartInv'
  BY <1>4, LateBeatKeeps, Zenon
<1> QED
  BY <1>1, <1>2, <1>3, <1>4, Zenon DEF NextR, varsR, lateVars

\* Servers may crash and restart any number of times, forgetting their term and vote, and
\* the requests of their old objects arrive late: if a term is nevertheless won by two
\* servers, a server that has restarted voted for both.  (No reply to RequestVote outlives
\* the election of the object it was sent to.)
THEOREM RestartSafety ==
    ASSUME ~LongReordering
    PROVE  SpecR => []TwoLeadersShareForgetful
<1>1. InitR => RestartInv
  BY InitElection, Zenon DEF InitR, Init, RestartInv, Faithful
<1>2. ASSUME RestartInv, NEW e \in elected, NEW f \in elected, e[1] = f[1], e[2] # f[2]
      PROVE  Voters(e[1], e[2]) \cap Voters(f[1], f[2]) \cap restarted # {}
  <2>1. PICK v \in Server : v \in Voters(e[1], e[2]) /\ v \in Voters(f[1], f[2])
    BY <1>2, MajoritiesShareVoter, Zenon DEF RestartInv, ElectionInv
  <2>2. ~Faithful(v)
    BY <1>2, <2>1, FaithfulVoter, Zenon
  <2> QED
    BY <1>2, <2>1, <2>2, Zenon DEF RestartInv
<1>3. RestartInv => TwoLeadersShareForgetful
  BY <1>2, Zenon DEF TwoLeadersShareForgetful
<1>4. RestartInv /\ [NextR]_varsR => RestartInv'
  BY NextRestart, Zenon
<1> QED
  BY <1>1, <1>3, <1>4, PTL DEF SpecR

=============================================================================
