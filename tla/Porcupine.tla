----------------------------- MODULE Porcupine ------------------------------
(***************************************************************************)
(* porcupine/checker.go, the linearizability checker behind the tests of   *)
(* the key-value stores, with the model of the store in models/kv.go.      *)
(* checkParallel starts a goroutine for every key of the history; each     *)
(* searches for an order of the operations on its key, by backtracking     *)
(* over a doubly linked list of calls and returns.                         *)
(***************************************************************************)
EXTENDS Integers, SequencesExt

CONSTANTS
    Key,         \* keys, numbered in their order as strings
    Outcome,     \* for each key, what an operation did: op, value and output
    MaxTime,     \* times are 1..MaxTime
    MaxOps,      \* length of a history, at most
    ChunkBits    \* bits of a word of a bitset; 64 in the code

ASSUME BoundsAssumption ==
    /\ Key \subseteq Nat
    /\ MaxTime \in Nat /\ MaxOps \in Nat /\ ChunkBits \in Nat \ {0}

VARIABLES
    history,      \* the Operations to check
    computeInfo,  \* partial linearizations are asked for
    timeout,      \* there is a timeout
    parts,        \* the entries of each partition, sorted
    search,       \* the local variables of each checkSingle
    kill,         \* the flag that all searches read
    results,      \* the channel of their answers
    main          \* the local variables of checkParallel

input == <<history, computeInfo, timeout, parts>>
vars == <<input, search, kill, results, main>>

-----------------------------------------------------------------------------
(* models/kv.go *)

InitState == <<>>

\* KvModel.Step; the last case is an Append that returns the old value.
Step(state, o) ==
    CASE o.op = "get" -> [ok |-> o.output = state, state |-> state]
      [] o.op = "put" -> [ok |-> TRUE, state |-> o.value]
      [] o.op = "append" -> [ok |-> TRUE, state |-> state \o o.value]
      [] OTHER -> [ok |-> o.output = state, state |-> state \o o.value]

\* KvModel.Partition: one history for each key that occurs, in the order of keys.
Partition(h) ==
    LET keys == SetToSortSeq({h[i].key : i \in DOMAIN h}, <)
    IN  [p \in DOMAIN keys |-> SelectSeq(h, LAMBDA o : o.key = keys[p])]

-----------------------------------------------------------------------------
(* Entries and the linked list *)

\* byTime.Less.  sort.Sort is not stable: rank orders, for each kind, what Less leaves open.
less(a, b, rank) ==
    IF a.time # b.time THEN a.time < b.time
    ELSE IF a.kind # b.kind THEN a.kind = "call"
    ELSE rank[a.kind][a.id] < rank[b.kind][b.id]

\* An entry holds its Operation, from which checkSingle uses Input or Output.
makeEntries(h, rank) ==
    LET call(i) == [kind |-> "call", id |-> i, time |-> h[i].call, of |-> h[i]]
        return(i) == [kind |-> "return", id |-> i, time |-> h[i].return, of |-> h[i]]
    IN  SortSeq([i \in DOMAIN h |-> call(i)] \o [i \in DOMAIN h |-> return(i)],
                LAMBDA a, b : less(a, b, rank))

\* A node is the index of its entry; the head of the list is 0.
NoNode == -1

match(p, k) ==
    IF parts[p][k].kind = "return" THEN NoNode
    ELSE CHOOSE m \in DOMAIN parts[p] : parts[p][m].kind = "return" /\ parts[p][m].id = parts[p][k].id

\* newBitset: words of ChunkBits bits each, as the sets of their bits.
newBitset(n) ==
    LET extra == IF n % ChunkBits # 0 THEN 1 ELSE 0
    IN  [w \in 0..(n \div ChunkBits + extra - 1) |-> {}]

\* Positions start at 0, ids of the model at 1.
setBit(b, id) == [b EXCEPT ![(id - 1) \div ChunkBits] = @ \union {(id - 1) % ChunkBits}]

clearBit(b, id) == [b EXCEPT ![(id - 1) \div ChunkBits] = @ \ {(id - 1) % ChunkBits}]

\* insertBefore: node n in front of node mark, if there is one.
insertBefore(list, n, mark) ==
    LET before == list.prev[mark] IN
    IF mark = NoNode THEN list
    ELSE IF before = NoNode THEN [list EXCEPT !.prev[mark] = n, !.next[n] = mark]
    ELSE [list EXCEPT !.prev[mark] = n, !.next[n] = mark, !.prev[n] = before, !.next[before] = n]

\* makeLinkedEntries, from the last entry to the first.
makeLinkedEntries(entries) ==
    LET len == Len(entries)
        unlinked == [next |-> [k \in 0..len |-> NoNode], prev |-> [k \in 0..len |-> NoNode]]
    IN  FoldRight(LAMBDA n, list : insertBefore(list, n, IF n = len THEN NoNode ELSE n + 1),
                  [k \in 1..len |-> k], unlinked)

\* What checkSingle starts with; its head stands before the first node.
initSearch(entries) ==
    LET n == Len(entries) \div 2
        first == IF entries = <<>> THEN NoNode ELSE 1
        list == insertBefore(makeLinkedEntries(entries), 0, first)
    IN  [next |-> list.next,
         prev |-> list.prev,
         entry |-> first,
         state |-> InitState,
         linearized |-> newBitset(n),
         calls |-> <<>>,
         cache |-> {},
         longest |-> [i \in 1..n |-> <<>>],
         answer |-> "none"]

\* Takes node k out of its place.
unlink(s, k) ==
    [s EXCEPT !.next[s.prev[k]] = s.next[k],
              !.prev = IF s.next[k] = NoNode THEN @ ELSE [@ EXCEPT ![s.next[k]] = s.prev[k]]]

\* Mutant: only the forward pointer is put back.
relinkForward(s, k) == [s EXCEPT !.next[s.prev[k]] = k]

\* Puts node k back where its own pointers say.
relink(s, k) ==
    [s EXCEPT !.next[s.prev[k]] = k,
              !.prev = IF s.next[k] = NoNode THEN @ ELSE [@ EXCEPT ![s.next[k]] = k]]

lift(s, k, m) == unlink(unlink(s, k), m)

unlift(s, k, m) == relink(relink(s, m), k)

-----------------------------------------------------------------------------
(* checkSingle *)

Position(s) == [i \in DOMAIN s.calls |-> s.calls[i].id]

\* Mutant: the first sequence found is kept.
firstSequence(s) ==
    [i \in DOMAIN s.longest |->
        IF s.longest[i] = <<>> /\ Contains(Position(s), i) THEN Position(s) ELSE s.longest[i]]

\* The longest sequence so far for each operation of the stack.
longerSequence(s) ==
    [i \in DOMAIN s.longest |->
        IF Contains(Position(s), i) /\ Len(s.calls) > Len(s.longest[i]) THEN Position(s) ELSE s.longest[i]]

\* Mutant: only the set of operations is looked up in the cache.
cacheContainsSet(cache, e) == \E c \in cache : c.linearized = e.linearized

cacheContains(cache, e) == e \in cache

\* Mutant: after a choice, the search goes on behind it.
tryCallGoingOn(p, s) ==
    LET o == parts[p][s.entry].of
        id == parts[p][s.entry].id
        step == Step(s.state, o)
        new == [linearized |-> setBit(s.linearized, id), state |-> step.state]
        lifted == lift(s, s.entry, match(p, s.entry))
    IN  IF step.ok /\ ~cacheContains(s.cache, new)
        THEN [lifted EXCEPT !.cache = @ \union {new},
                            !.calls = Append(@, [node |-> s.entry, id |-> id, state |-> s.state]),
                            !.state = step.state,
                            !.linearized = new.linearized,
                            !.entry = s.next[s.entry]]
        ELSE [s EXCEPT !.entry = s.next[s.entry]]

\* Mutant: a call that cannot be linearized now is looked at again.
tryCallStaying(p, s) ==
    LET o == parts[p][s.entry].of
        id == parts[p][s.entry].id
        step == Step(s.state, o)
        new == [linearized |-> setBit(s.linearized, id), state |-> step.state]
        lifted == lift(s, s.entry, match(p, s.entry))
    IN  IF step.ok /\ ~cacheContains(s.cache, new)
        THEN [lifted EXCEPT !.cache = @ \union {new},
                            !.calls = Append(@, [node |-> s.entry, id |-> id, state |-> s.state]),
                            !.state = step.state,
                            !.linearized = new.linearized,
                            !.entry = lifted.next[0]]
        ELSE s

\* A call entry: linearize its operation now if the model allows it and the outcome
\* is new; otherwise look at the next entry.
tryCall(p, s) ==
    LET o == parts[p][s.entry].of
        id == parts[p][s.entry].id
        step == Step(s.state, o)
        new == [linearized |-> setBit(s.linearized, id), state |-> step.state]
        lifted == lift(s, s.entry, match(p, s.entry))
    IN  IF step.ok /\ ~cacheContains(s.cache, new)
        THEN [lifted EXCEPT !.cache = @ \union {new},
                            !.calls = Append(@, [node |-> s.entry, id |-> id, state |-> s.state]),
                            !.state = step.state,
                            !.linearized = new.linearized,
                            !.entry = lifted.next[0]]
        ELSE [s EXCEPT !.entry = s.next[s.entry]]

\* A return entry: its operation should have been linearized by now, so undo the last
\* choice and go on behind it.
backtrack(p, s) ==
    LET top == Last(s.calls)
        restored == unlift(s, top.node, match(p, top.node))
    IN  IF s.calls = <<>> THEN [s EXCEPT !.answer = "false"]
        ELSE [restored EXCEPT !.longest = IF computeInfo THEN longerSequence(s) ELSE @,
                              !.state = top.state,
                              !.linearized = clearBit(@, top.id),
                              !.calls = Front(@),
                              !.entry = restored.next[top.node]]

\* One turn of the loop, up to the answer.
iterate(p, s) ==
    CASE s.next[0] = NoNode -> [s EXCEPT !.answer = "true", !.longest = [i \in DOMAIN @ |-> Position(s)]]
      [] s.next[0] # NoNode /\ kill -> [s EXCEPT !.answer = "false"]
      [] s.next[0] # NoNode /\ ~kill /\ match(p, s.entry) # NoNode -> tryCall(p, s)
      [] OTHER -> backtrack(p, s)

\* The goroutine of partition p.  The channel has room for all the answers.
CheckSingle(p) ==
    LET s == iterate(p, search[p]) IN
    /\ search[p].answer = "none"
    /\ search' = [search EXCEPT ![p] = s]
    /\ results' = IF s.answer = "none" THEN results ELSE Append(results, s.answer)
    /\ UNCHANGED <<input, kill, main>>

-----------------------------------------------------------------------------
(* checkParallel *)

Finish(m) ==
    [m EXCEPT !.at = "done",
              !.result = IF ~m.ok THEN "Illegal" ELSE IF m.timedOut THEN "Unknown" ELSE "Ok"]

\* After the loop: with computeInfo, first wait for every goroutine.
AfterLoop(m) ==
    IF computeInfo /\ m.count < Len(parts) THEN [m EXCEPT !.at = "drain"] ELSE Finish(m)

Receive ==
    /\ main.at = "loop"
    /\ results # <<>>
    /\ results' = Tail(results)
    /\ LET m == [main EXCEPT !.count = @ + 1, !.ok = @ /\ Head(results) = "true"]
           stop == ~m.ok /\ ~computeInfo
       IN  /\ kill' = (kill \/ stop)
           /\ main' = IF stop \/ m.count >= Len(parts) THEN AfterLoop(m) ELSE m
    /\ UNCHANGED <<input, search>>

Timeout ==
    /\ main.at = "loop"
    /\ timeout
    /\ kill' = TRUE
    /\ main' = AfterLoop([main EXCEPT !.timedOut = TRUE])
    /\ UNCHANGED <<input, search, results>>

\* The answers of searches that were stopped are thrown away.
Drain ==
    /\ main.at = "drain"
    /\ results # <<>>
    /\ results' = Tail(results)
    /\ main' = AfterLoop([main EXCEPT !.count = @ + 1])
    /\ UNCHANGED <<input, search, kill>>

Operation ==
    {o \in [key : Key, did : UNION Range(Outcome), call : 1..MaxTime, return : 1..MaxTime] :
        o.did \in Outcome[o.key] /\ o.call <= o.return}

Record(o) ==
    [key |-> o.key, op |-> o.did.op, value |-> o.did.value, output |-> o.did.output,
     call |-> o.call, return |-> o.return]

\* Histories are logged in the order in which operations end.  Only the order of
\* calls and returns matters, so a time without a call or without a return can be
\* merged with a neighbour.
Representative(h) ==
    /\ \A i \in 1..(Len(h) - 1) : h[i].return <= h[i + 1].return
    /\ {h[i].call : i \in DOMAIN h} = {h[i].return : i \in DOMAIN h}
    /\ \A i \in DOMAIN h : \A t \in 1..h[i].call : \E j \in DOMAIN h : h[j].call = t

\* checkOperations.
Init ==
    /\ \E n \in 0..MaxOps : \E h \in {g \in [1..n -> Operation] : Representative(g)} :
           history = [i \in 1..n |-> Record(h[i])]
    /\ \E calls, returns \in Permutations(DOMAIN history) :
           parts = [p \in DOMAIN Partition(history) |->
                       makeEntries(Partition(history)[p], [call |-> calls, return |-> returns])]
    /\ computeInfo \in BOOLEAN /\ timeout \in BOOLEAN
    /\ search = [p \in DOMAIN parts |-> initSearch(parts[p])]
    /\ kill = FALSE
    /\ results = <<>>
    /\ main = [at |-> "loop", count |-> 0, ok |-> TRUE, timedOut |-> FALSE, result |-> "none"]

Next ==
    \/ \E p \in DOMAIN search : CheckSingle(p)
    \/ Receive \/ Timeout \/ Drain

Spec == Init /\ [][Next]_vars

\* Some goroutine that can run does: no one else's fairness is needed, since none of
\* them takes infinitely many steps.
Fairness == WF_vars(Next)

FairSpec == Spec /\ Fairness

-----------------------------------------------------------------------------
(* Reference definition of linearizability, over the whole history *)

Precedes(h, i, j) == h[i].return < h[j].call

\* Orders of some of the operations that respect real time: what precedes a member
\* is a member, and comes first.
Order(h) ==
    {s \in UNION {[1..n -> DOMAIN h] : n \in 0..Len(h)} :
        /\ IsInjective(s)
        /\ \A b \in DOMAIN s, i \in DOMAIN h :
               Precedes(h, i, s[b]) => \E a \in 1..(b - 1) : s[a] = i}

\* The operations of one key, in the order of s, agree with the store from its
\* initial state on.
Legal(h, s, k) ==
    FoldLeft(LAMBDA acc, i :
                IF h[i].key # k THEN acc
                ELSE [ok |-> acc.ok /\ Step(acc.state, h[i]).ok, state |-> Step(acc.state, h[i]).state],
             [ok |-> TRUE, state |-> InitState], s).ok

LegalOrder(h) == {s \in Order(h) : \A k \in Key : Legal(h, s, k)}

Linearizable(h) == \E s \in LegalOrder(h) : Len(s) = Len(h)

\* computeVisualizationData replays a sequence, and panics if a step is not allowed.
replays(p, s) ==
    FoldLeft(LAMBDA acc, i :
                LET step == Step(acc.state, Partition(history)[p][i])
                IN  [ok |-> acc.ok /\ step.ok, state |-> step.state],
             [ok |-> TRUE, state |-> InitState], s).ok

-----------------------------------------------------------------------------
(* Properties *)

\* Types: while its list is not empty, a search stands on a node that is in the list
\* (checkSingle dereferences entry without a test).
TypeOK ==
    /\ kill \in BOOLEAN
    /\ main.at \in {"loop", "drain", "done"} /\ main.count \in 0..Len(parts)
    /\ main.result \in {"none", "Ok", "Illegal", "Unknown"}
    /\ \A p \in DOMAIN parts :
        LET s == search[p] IN
        s.next[0] # NoNode /\ s.answer = "none" =>
            s.entry \in DOMAIN parts[p] /\ ~Contains(Position(s), parts[p][s.entry].id)

\* The answer is about the history as a whole, although every key is searched by
\* itself, with a cache, and is stopped by a timeout or by another key's failure:
\* Ok means that the history is linearizable, Illegal that it is not, and Unknown is
\* said only after a timeout (checkParallel, KvModel.Partition).
ResultIsRight ==
    /\ main.result = "Ok" => Linearizable(history)
    /\ main.result = "Illegal" => ~Linearizable(history)
    /\ main.result = "Unknown" => timeout

\* lift and unlift leave every search with the entries of the operations it has not
\* linearized, in order, doubly linked.
ListIsRemainder ==
    \A p \in DOMAIN parts :
        LET s == search[p]
            gone == {parts[p][s.calls[i].node].id : i \in DOMAIN s.calls}
            left == {k \in DOMAIN parts[p] : parts[p][k].id \notin gone}
        IN  /\ \A k \in left \union {0} :
                 s.next[k] = IF \E m \in left : m > k THEN CHOOSE m \in left : m > k /\ \A o \in left : o > k => m <= o
                             ELSE NoNode
            /\ \A k \in left : s.next[s.prev[k]] = k

\* What is handed to the visualization can be replayed, so its panic is out of
\* reach, also after a timeout; and after a search that was not stopped, the sequence
\* kept for an operation is as long as any that includes it ("longest linearizable
\* prefix that includes the given entry", porcupine/checker.go:185).
PartialsAreLongest ==
    main.at = "done" /\ computeInfo =>
        \A p \in DOMAIN parts :
            LET h == Partition(history)[p]
                kept == search[p].longest
                legal == LegalOrder(h)
            IN  \A i \in DOMAIN kept :
                    /\ replays(p, kept[i])
                    /\ kept[i] # <<>> => Contains(kept[i], i)
                    /\ ~main.timedOut =>
                        \A s \in legal : Contains(s, i) => Len(s) <= Len(kept[i])

\* The check returns, and every search ends, the ones that are no longer needed
\* included, unless the history is empty and there is no timeout: then there is no
\* goroutine to wait for and the loop waits for ever (porcupine/checker.go:292).
CheckReturns ==
    (parts # <<>> \/ timeout) =>
        <>(main.at = "done" /\ \A p \in DOMAIN search : search[p].answer # "none")
=============================================================================
