-------------------------- MODULE MapReduceOutput ---------------------------
(***************************************************************************)
(* What the files of MapReduce hold: HandleMap distributes the output of   *)
(* the map function over mr-m-r, HandleReduce gathers, sorts and groups    *)
(* what it reads, and main/mrsequential.go says what should come out.      *)
(* The applications are mrapps/wc.go and mrapps/indexer.go.  JSON gives    *)
(* back the words it was given: they consist of letters only.              *)
(***************************************************************************)
EXTENDS MapReduce, SequencesExt

CONSTANTS
    Word,       \* words, numbered in their order as strings
    MaxWords    \* length of an input file, at most

ASSUME WordAssumption == Word \subseteq Nat /\ MaxWords \in Nat

App == {"wc", "indexer"}

\* A pair for every occurrence of a word.
wcMap(words) == [i \in DOMAIN words |-> [key |-> words[i], value |-> 1]]

\* The number of occurrences.
wcReduce(values) == <<Len(values)>>

\* A pair with the document's name for every distinct word.  They come in the order of a
\* Go map; any one order will do here, as the keys differ and are sorted later.
indexerMap(document, words) ==
    SetToSeq({[key |-> w, value |-> document] : w \in ToSet(words)})

\* The number of documents and their names, sorted.
indexerReduce(values) == <<Len(values)>> \o SortSeq(values, <)

Map(app, document, words) == IF app = "wc" THEN wcMap(words) ELSE indexerMap(document, words)

Reduce(app, values) == IF app = "wc" THEN wcReduce(values) ELSE indexerReduce(values)

\* FNV-1a without the sign bit: some function to the natural numbers.
ihash(hash, key) == hash[key]

\* Mutant: the bucket is chosen by the value.
BucketByValue(kva, hash, r) == SelectSeq(kva, LAMBDA kv : kv.value % R = r)

\* What HandleMap writes into mr-m-r.
Bucket(kva, hash, r) == SelectSeq(kva, LAMBDA kv : ihash(hash, kv.key) % R = r)

\* What sort.Sort(ByKey(kva)) can leave: pairs of equal keys are in any order.
ByKey(kva) ==
    LET perms == SetToSeqs(DOMAIN kva)
        sorted == {[i \in DOMAIN p |-> kva[p[i]]] : p \in perms}
    IN  {s \in sorted : IsSorted([i \in DOMAIN s |-> s[i].key], <=)}

\* The loop over i and j: a line for every run of equal keys.
Lines(app, s) ==
    LET first == SetToSortSeq({i \in DOMAIN s : i = 1 \/ s[i].key # s[i - 1].key}, <)
        end(g) == IF g = Len(first) THEN Len(s) ELSE first[g + 1] - 1
        values(g) == [k \in 1..(end(g) - first[g] + 1) |-> s[first[g] + k - 1].value]
    IN  [g \in DOMAIN first |-> <<s[first[g]].key, Reduce(app, values(g))>>]

\* What HandleReduce can write into mr-out-r, given the inputs of all map tasks.
HandleReduceOutput(app, input, hash, r) ==
    LET gathered == FlattenSeq([m \in 1..M |-> Bucket(Map(app, m, input[m]), hash, r)])
    IN  {Lines(app, s) : s \in ByKey(gathered)}

\* What mrsequential can write into mr-out-0.
SequentialOutput(app, input) ==
    LET intermediate == FlattenSeq([m \in 1..M |-> Map(app, m, input[m])])
    IN  {Lines(app, s) : s \in ByKey(intermediate)}

\* The comparison of main/test-mr.sh: the sorted lines of all output files together.
Together(outputs) == ToBag(FlattenSeq(outputs))

\* The two agree on every input, however the words hash and the sorts turn out.
SameAsSequential ==
    \A app \in App, input \in [1..M -> BoundedSeq(Word, MaxWords)], hash \in [Word -> 0..R] :
        LET written == [r \in 1..R |-> HandleReduceOutput(app, input, hash, r - 1)]
        IN  \A correct \in SequentialOutput(app, input),
               outputs \in {f \in [1..R -> UNION {written[r] : r \in 1..R}] :
                               \A r \in 1..R : f[r] \in written[r]} :
                Together(outputs) = ToBag(correct)

\* When the output of every reduce task is in place, the files hold what the
\* sequential program writes: no key is in two of them, none is missing, and its
\* values are those of all map tasks (mr/worker.go:204, main/mrsequential.go).
OutputAsSequential ==
    (\A r \in ReduceIndex : out[r] = "complete") => SameAsSequential
=============================================================================
