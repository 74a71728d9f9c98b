-------------------------- MODULE RaftApplyProofs ---------------------------
(***************************************************************************)
(* Proofs about RaftApply without snapshots, for every number of servers,  *)
(* commands, indices and restarts: as long as the test has not been        *)
(* stopped, what servers applied agrees and is without gaps.               *)
(***************************************************************************)
EXTENDS RaftApply, TLAPS

\* Types, as far as the proofs need them.  No snapshot is ever saved or received.
PlainTypes ==
    /\ logs \in [Server -> Log]
    /\ applied \subseteq Server \X Index \X Cmd
    /\ disk = [i \in Server |-> NoSnap]
    /\ applier \in [Incarnation -> {"ready", "received"}]
    /\ hand \in [Incarnation -> {NoMsg} \union CommandMsg]
    /\ \A x \in Incarnation : applier[x] = "received" => hand[x] \in CommandMsg

\* What was applied is still in the logs.
Recorded == \A a \in applied : logs[a[1]][a[2]] = a[3]

\* Any two logs agree where both have an entry.
LogsAgree ==
    \A i, j \in Server, k \in Index :
        logs[i][k] # absent /\ logs[j][k] # absent => logs[i][k] = logs[j][k]

NoGaps ==
    \A i \in Server, k \in Index : k > 1 /\ logs[i][k] # absent => logs[i][k - 1] # absent

PlainInv == ~snapshot => PlainTypes /\ (~failed => Recorded /\ LogsAgree /\ NoGaps)

-----------------------------------------------------------------------------

\* make_config establishes the invariant.
LEMMA ApplyInit == Init => PlainInv
<1> SUFFICES ASSUME Init PROVE PlainInv
  OBVIOUS
<1>1. EmptyLog \in Log
  BY DEF EmptyLog, Log
<1>2. PlainTypes
  BY <1>1 DEF Init, PlainTypes
<1>3. \A i \in Server, k \in Index : logs[i][k] = absent
  BY DEF Init, EmptyLog, Index
<1>4. Recorded /\ LogsAgree /\ NoGaps
  BY <1>3 DEF Init, Recorded, LogsAgree, NoGaps
<1> QED
  BY <1>2, <1>4 DEF PlainInv

\* A step that touches neither logs nor messages keeps the invariant.
LEMMA LogsUntouched ==
    ASSUME PlainInv, UNCHANGED <<snapshot, logs, applied, disk>>, ~failed,
           ~snapshot => PlainTypes'
    PROVE  PlainInv'
  BY DEF PlainInv, Recorded, LogsAgree, NoGaps

\* checkLogs: the log of one server gets one entry, which, if the test goes on, was
\* missing or the same, conflicts with no other log, and follows an entry.
LEMMA ApplyKeeps ==
    ASSUME PlainInv, ~failed, NEW x \in Incarnation, Apply(x)
    PROVE  PlainInv'
<1> DEFINE i == x[1]
           m == hand[x]
           n == m.index
<1>1. ~snapshot /\ PlainTypes /\ Recorded /\ LogsAgree /\ NoGaps
  BY DEF Apply, PlainInv
<1>2. i \in Server /\ m \in CommandMsg /\ n \in Index /\ m.cmd \in Cmd /\ m.cmd # absent
  BY <1>1, ParameterAssumption DEF PlainTypes, Apply, Incarnation, CommandMsg
<1>3. /\ logs' = [logs EXCEPT ![i][n] = m.cmd]
      /\ applied' = applied \union {<<i, n, m.cmd>>}
      /\ failed' = (failed \/ conflict(i, m) \/ gap(i, m))
      /\ UNCHANGED <<snapshot, disk>> /\ Release(x)
  BY DEF Apply, checkLogs
<1>4. Index \subseteq 0..MaxIndex /\ Index \subseteq Int /\ logs \in [Server -> Log]
  BY <1>1, ParameterAssumption DEF Index, PlainTypes
<1>5. \A j \in Server, k \in 0..MaxIndex :
          logs'[j][k] = IF j = i /\ k = n THEN m.cmd ELSE logs[j][k]
  BY <1>2, <1>3, <1>4, Zenon DEF Log
<1>6. PlainTypes'
  <2>1. logs' \in [Server -> Log]
    BY <1>2, <1>3, <1>4, Zenon DEF Log
  <2>2. applied' \subseteq Server \X Index \X Cmd
    BY <1>1, <1>2, <1>3 DEF PlainTypes
  <2>3. /\ applier' \in [Incarnation -> {"ready", "received"}]
        /\ hand' \in [Incarnation -> {NoMsg} \union CommandMsg]
        /\ \A y \in Incarnation : applier'[y] = "received" => hand'[y] \in CommandMsg
    BY <1>1, <1>3 DEF PlainTypes, Release
  <2> QED
    BY <1>1, <1>3, <2>1, <2>2, <2>3 DEF PlainTypes
<1>7. ASSUME ~failed' PROVE Recorded' /\ LogsAgree' /\ NoGaps'
  <2>1. \A j \in Server : logs[j][n] \in {absent, m.cmd}
    BY <1>3, <1>7, Zenon DEF conflict
  <2>2. n > 1 => logs[i][n - 1] # absent
    BY <1>3, <1>7, Zenon DEF gap
  <2>3. Recorded'
    <3>1. ASSUME NEW a \in applied PROVE logs'[a[1]][a[2]] = a[3]
      <4>1. a[1] \in Server /\ a[2] \in Index /\ a[3] \in Cmd /\ logs[a[1]][a[2]] = a[3]
        BY <1>1, <3>1 DEF PlainTypes, Recorded
      <4>2. a[3] # absent
        BY <4>1, ParameterAssumption
      <4> QED
        BY <1>4, <1>5, <2>1, <4>1, <4>2, ZenonT(30)
    <3>2. logs'[i][n] = m.cmd
      BY <1>2, <1>4, <1>5, Zenon
    <3> QED
      BY <1>3, <3>1, <3>2 DEF Recorded
  <2>4. LogsAgree'
    <3>1. ASSUME NEW j \in Server, NEW k \in Server, NEW l \in Index,
                 logs'[j][l] # absent, logs'[k][l] # absent
          PROVE  logs'[j][l] = logs'[k][l]
      <4>1. CASE l = n
        BY <1>2, <1>4, <1>5, <2>1, <3>1, <4>1
      <4>2. CASE l # n
        <5>1. logs'[j][l] = logs[j][l] /\ logs'[k][l] = logs[k][l]
          BY <1>4, <1>5, <4>2
        <5> QED
          BY <1>1, <3>1, <5>1 DEF LogsAgree
      <4> QED
        BY <4>1, <4>2
    <3> QED
      BY <3>1 DEF LogsAgree
  <2>5. NoGaps'
    <3>1. ASSUME NEW j \in Server, NEW k \in Index, k > 1, logs'[j][k] # absent
          PROVE  logs'[j][k - 1] # absent
      <4>1. k - 1 \in Index /\ k - 1 \in 0..MaxIndex /\ k \in 0..MaxIndex
        BY <3>1, ParameterAssumption DEF Index
      <4>2. logs[j][k - 1] # absent
        BY <1>1, <1>5, <2>2, <3>1, <4>1 DEF NoGaps
      <4> QED
        BY <1>2, <1>5, <4>1, <4>2
    <3> QED
      BY <3>1 DEF NoGaps
  <2> QED
    BY <2>3, <2>4, <2>5
<1> QED
  BY <1>6, <1>7 DEF PlainInv

\* Receiving a message.
LEMMA DeliverKeeps ==
    ASSUME PlainInv, ~failed, NEW x \in Incarnation, NEW m \in Messages(x), Deliver(x, m)
    PROVE  PlainInv'
<1>1. UNCHANGED <<snapshot, logs, applied, disk>>
  BY DEF Deliver
<1>2. ASSUME ~snapshot PROVE PlainTypes'
  <2>1. m \in CommandMsg
    BY <1>2 DEF Messages
  <2>2. PlainTypes
    BY <1>2 DEF PlainInv
  <2>3. applier' = [applier EXCEPT ![x] = "received"] /\ hand' = [hand EXCEPT ![x] = m]
    BY DEF Deliver
  <2> QED
    BY <1>1, <2>1, <2>2, <2>3 DEF PlainTypes
<1> QED
  BY <1>1, <1>2, LogsUntouched

\* Starting a server: without a snapshot its log stays as it is.
LEMMA StartKeeps ==
    ASSUME PlainInv, ~failed, NEW i \in Server, start1(i)
    PROVE  PlainInv'
<1>1. UNCHANGED <<snapshot, applied, disk, applier, hand>>
  BY DEF start1
<1>2. CASE snapshot
  BY <1>1, <1>2 DEF PlainInv
<1>3. CASE ~snapshot
  <2>1. PlainTypes
    BY <1>3 DEF PlainInv
  <2>2. logs' = [logs EXCEPT ![i] = @]
    BY <2>1 DEF PlainTypes, start1
  <2>3. logs' = logs
    BY <2>1, <2>2 DEF PlainTypes
  <2>4. PlainTypes'
    BY <1>1, <2>1, <2>3 DEF PlainTypes
  <2> QED
    BY <1>1, <2>3, <2>4, LogsUntouched
<1> QED
  BY <1>2, <1>3

\* The steps of applierSnap are not taken without snapshots.
LEMMA SnapKeeps ==
    ASSUME PlainInv, ~failed, NEW x \in Incarnation,
           SnapCompare(x) \/ SnapCheck(x) \/ SnapNote(x) \/ SnapTake(x) \/ SnapIngest(x)
    PROVE  PlainInv'
<1>1. snapshot' = snapshot
  BY DEF SnapCompare, SnapCheck, SnapNote, SnapTake, SnapIngest
<1>2. ASSUME ~snapshot PROVE FALSE
  <2>1. applier[x] \in {"ready", "received"} /\ (applier[x] = "received" => hand[x] \in CommandMsg)
    BY <1>2 DEF PlainInv, PlainTypes
  <2> QED
    BY <1>2, <2>1 DEF SnapCompare, SnapCheck, SnapNote, SnapTake, SnapIngest, CommandMsg
<1> QED
  BY <1>1, <1>2 DEF PlainInv

\* The invariant is inductive.
LEMMA ApplyNext == PlainInv /\ [Next]_vars => PlainInv'
<1> SUFFICES ASSUME PlainInv, [Next]_vars PROVE PlainInv'
  OBVIOUS
<1>1. CASE UNCHANGED vars
  BY <1>1 DEF vars, harness, PlainInv, PlainTypes, Recorded, LogsAgree, NoGaps
<1>2. CASE Next
  <2>1. ~failed
    BY <1>2 DEF Next
  <2>2. ASSUME (\E i \in Server : crash1(i)) \/ OnePoll \/ OneDecide
               \/ (\E again \in BOOLEAN : OneRetry(again))
               \/ \E cmd \in Cmd, expected \in Expected, index \in Index : OneStart(cmd, expected, index)
        PROVE  PlainInv'
    <3>1. UNCHANGED <<snapshot, logs, applied, disk, applier, hand>>
      BY <2>2 DEF crash1, OnePoll, OneDecide, OneRetry, OneStart, harness
    <3>2. ~snapshot => PlainTypes'
      BY <3>1 DEF PlainInv, PlainTypes
    <3> QED
      BY <2>1, <3>1, <3>2, LogsUntouched
  <2>3. ASSUME NEW i \in Server, NEW j \in Server, InstallSnapshot(i, j) PROVE PlainInv'
    BY <2>3 DEF InstallSnapshot, PlainInv
  <2> QED
    BY <1>2, <2>1, <2>2, <2>3, ApplyKeeps, DeliverKeeps, StartKeeps, SnapKeeps DEF Next, Step
<1> QED
  BY <1>1, <1>2

\* Whatever the Raft under test applies, a test without snapshots that has not been
\* stopped has seen no disagreement: checkLogs compares under the mutex that the
\* appliers of all servers, dead ones included, share.
THEOREM DisagreementStops == Spec => []AgreementChecked
<1>1. PlainInv => AgreementChecked
  <2> SUFFICES ASSUME PlainInv, ~snapshot, ~failed, NEW a \in applied, NEW b \in applied, a[2] = b[2]
               PROVE  a[3] = b[3]
    BY DEF AgreementChecked
  <2>1. PlainTypes /\ Recorded /\ LogsAgree
    BY DEF PlainInv
  <2>2. /\ a[1] \in Server /\ a[2] \in Index /\ a[3] \in Cmd
        /\ b[1] \in Server /\ b[2] \in Index /\ b[3] \in Cmd
    BY <2>1 DEF PlainTypes
  <2>3. logs[a[1]][a[2]] = a[3] /\ logs[b[1]][a[2]] = b[3]
    BY <2>1 DEF Recorded
  <2> QED
    BY <2>1, <2>2, <2>3, ParameterAssumption DEF LogsAgree
<1> QED
  BY <1>1, ApplyInit, ApplyNext, PTL DEF Spec

\* Likewise a server that skips an index stops a test without snapshots.
THEOREM GapsStop == Spec => []AppliedInOrder
<1>1. PlainInv => AppliedInOrder
  BY DEF PlainInv, NoGaps, AppliedInOrder
<1> QED
  BY <1>1, ApplyInit, ApplyNext, PTL DEF Spec

=============================================================================
