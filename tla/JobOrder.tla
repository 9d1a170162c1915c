------------------------------- MODULE JobOrder -------------------------------
(***************************************************************************)
(* delay.py: what is done with a graph of jobs once it is built: which     *)
(* jobs are stored, what each waits for, the order in which they are run   *)
(* directly; and the batches a delayable is split in.  Functions only.     *)
(*                                                                         *)
(* A job is a number; an edge <<d, j>> says that j depends on d.           *)
(***************************************************************************)
EXTENDS Naturals, Sequences, FiniteSets

Elements(s) == {s[i] : i \in 1..Len(s)}

\* add_depends, for each edge: what the job waits for.
Dependencies(edges, j) == {l[1] : l \in {m \in edges : m[2] = j}}

\* Which vertices' jobs are stored, when keyed have an identity key and existing are
\* those of which there is a job already: none if every key has a job, all otherwise.
ToStore(vertices, keyed, existing) ==
    IF keyed # {} /\ keyed \subseteq existing THEN {} ELSE vertices

\* The order among jobs that become free together is that of their numbers.
Ordered(set) ==
    CHOOSE s \in [1..Cardinality(set) -> set] :
      \A i, k \in 1..Cardinality(set) : i < k => s[i] < s[k]

\* The root vertices.
Start(vertices, edges) ==
    [queue |-> Ordered({j \in vertices : Dependencies(edges, j) = {}}), yielded |-> <<>>]

\* The first job of the queue is yielded; those of which it was the last dependency
\* left are put at the end.
Yield(vertices, edges, sort) ==
    LET v    == Head(sort.queue)
        seen == Elements(sort.yielded) \cup {v}
        free == {j \in vertices : <<v, j>> \in edges /\ Dependencies(edges, j) \subseteq seen}
    IN  IF sort.queue = <<>> THEN sort
        ELSE [queue   |-> Tail(sort.queue) \o Ordered(free),
              yielded |-> Append(sort.yielded, v)]

\* As long as the queue is not empty, which is once for each job at most.
topological_sort(vertices, edges) ==
    LET sort[n \in 0..Cardinality(vertices)] ==
          IF n = 0 THEN Start(vertices, edges) ELSE Yield(vertices, edges, sort[n - 1])
    IN  sort[Cardinality(vertices)].yielded

\* split: batches of the records, as a group or a chain.
split(records, size) ==
    [b \in 1..((Len(records) + size - 1) \div size) |->
       SubSeq(records, (b - 1) * size + 1,
              IF b * size < Len(records) THEN b * size ELSE Len(records))]
=============================================================================
