------------------------------- MODULE JobGraph -------------------------------
(***************************************************************************)
(* delay.py: the graph of jobs that delayables, chains and groups of them  *)
(* are turned into.  Functions only: nothing here has a state.             *)
(*                                                                         *)
(* A delayable is a record: its kind, the job it makes or the delayables   *)
(* it is made of, in order, and those that follow it (on_done).  Each has  *)
(* a graph of its own, of which it or its parts are the vertices.          *)
(***************************************************************************)
EXTENDS JobOrder

JobNode(j)     == [kind |-> "job", job |-> j, next |-> <<>>]
ChainOf(parts) == [kind |-> "chain", parts |-> parts, next |-> <<>>]
GroupOf(parts) == [kind |-> "group", parts |-> parts, next |-> <<>>]
on_done(e, f)  == [e EXCEPT !.next = Append(@, f)]

\* The jobs a delayable starts and ends with, as the code has it: a chain hands the
\* question for its head to its first part as one for the tail, and the other way
\* round.  The two turns of a chain in a chain do not cancel out.
RECURSIVE Borders(_, _)
Borders(e, side) ==
    CASE e.kind = "job"   -> {e.job}
      [] e.kind = "group" -> UNION {Borders(f, side) : f \in Elements(e.parts)}
      [] e.kind = "chain" -> IF side = "head" THEN Borders(e.parts[1], "tail")
                                              ELSE Borders(e.parts[Len(e.parts)], "head")

\* The edges of the delayable's own graph, between delayables.
Links(e) ==
    LET s == e.parts
        after == Elements(e.next)
    IN  CASE e.kind = "job"   -> {e} \X after
          [] e.kind = "group" -> Elements(s) \X after
          [] e.kind = "chain" -> {<<s[i], s[i + 1]>> : i \in 1..(Len(s) - 1)}
                                   \cup {s[Len(s)]} \X after

Parts(e) == IF e.kind = "job" THEN {} ELSE Elements(e.parts)

RECURSIVE Visited(_)
Visited(e) == {e} \cup UNION {Visited(f) : f \in Parts(e) \cup Elements(e.next)}

\* _merge_graph: the tails of each vertex, linked to the heads of its neighbours.
Merged(links) == UNION {Borders(l[1], "tail") \X Borders(l[2], "head") : l \in links}

\* _connect_graphs: the graphs of all delayables that can be reached, merged.
GraphEdges(e) == Merged(UNION {Links(f) : f \in Visited(e)})
Vertices(e) == {f.job : f \in {g \in Visited(e) : g.kind = "job"}}

-----------------------------------------------------------------------------
(* What the graph is meant to be.                                          *)

\* The jobs of a delayable itself, without what follows it.
RECURSIVE Own(_)
Own(e) == IF e.kind = "job" THEN {e.job} ELSE UNION {Own(f) : f \in Parts(e)}

\* "Jobs must be executed sequentially" in a chain, and what follows a delayable is
\* executed when that is done.
RECURSIVE Required(_)
Required(e) ==
    (IF e.kind = "chain"
     THEN UNION {Own(e.parts[i]) \X Own(e.parts[i + 1]) : i \in 1..(Len(e.parts) - 1)}
     ELSE {})
      \cup UNION {Own(e) \X Own(f) : f \in Elements(e.next)}
      \cup UNION {Required(f) : f \in Parts(e) \cup Elements(e.next)}

\* Transitive closure: n squarings for a path of up to 2^n edges.
RECURSIVE Closure(_, _)
Closure(r, n) ==
    IF n = 0 THEN r
    ELSE LET s == r \cup {<<a[1], b[2]>> : <<a, b>> \in {x \in r \X r : x[1][2] = x[2][1]}}
         IN  Closure(s, n - 1)

\* A chain does not begin or end with a chain, or a group of chains.
RECURSIVE WithoutChain(_)
WithoutChain(e) == e.kind # "chain" /\ \A f \in Parts(e) : WithoutChain(f)
SimpleEnds(e) ==
    e.kind = "chain" => WithoutChain(e.parts[1]) /\ WithoutChain(e.parts[Len(e.parts)])

\* The delayables of the jobs lo..hi, in this order: a job, a chain or a group of parts.
RECURSIVE Shapes(_, _), Rows(_, _)
Rows(lo, hi) ==
    UNION {{<<e>> \o r : e \in Shapes(lo, m),
                        r \in Rows(m + 1, hi) \cup {<<x>> : x \in Shapes(m + 1, hi)}} :
             m \in lo..(hi - 1)}
Shapes(lo, hi) ==
    IF lo = hi THEN {JobNode(lo)}
    ELSE {ChainOf(r) : r \in Rows(lo, hi)} \cup {GroupOf(r) : r \in Rows(lo, hi)}

\* One of them, one followed by another, and a chain that begins with such a pair.
Followed(n) ==
    UNION {{on_done(e, f) : e \in Shapes(1, m), f \in Shapes(m + 1, n)} : m \in 1..(n - 1)}
Delayables ==
    UNION {Shapes(1, n) : n \in 1..4} \cup Followed(4)
      \cup {ChainOf(<<e, JobNode(4)>>) : e \in Followed(3)}

\* A job waits for what it must, and for nothing else.  A chain that begins or ends
\* with a chain is good only at the top: as a part of another delayable, or after one,
\* it is linked by the wrong jobs.
OrderKept ==
    \A e \in Delayables :
      (\A f \in Visited(e) \ {e} : SimpleEnds(f))
        => Closure(GraphEdges(e), 2) = Closure(Required(e), 2)

\* No job waits for itself, not even there: each can run some time.
NoCycle ==
    \A e \in Delayables :
      LET before == Closure(GraphEdges(e), 2)
      IN  \A v \in Vertices(e) : <<v, v>> \notin before

\* A job is not stored only if there is one with its identity - provided that all jobs
\* of the graph have an identity key, or none: those without are dropped with the rest.
NothingLost ==
    \A vertices \in SUBSET (1..4) : \A existing \in SUBSET vertices : \A keyed \in {{}, vertices} :
      vertices \ ToStore(vertices, keyed, existing) \subseteq keyed \cap existing

\* Run directly, each job comes once, and after those it depends on.
DirectOrder ==
    \A e \in Delayables :
      LET edges == GraphEdges(e)
          order == topological_sort(Vertices(e), edges)
      IN  /\ Len(order) = Cardinality(Vertices(e)) /\ Elements(order) = Vertices(e)
          /\ \A i, k \in 1..Len(order) : <<order[i], order[k]>> \in edges => i < k

\* Each record is in the batch of its position, and in its order there.
SplitCovers ==
    \A size \in 1..4 : \A total \in 0..4 :
      LET records == [i \in 1..total |-> i]
          batches == split(records, size)
      IN  \A i \in 1..total : batches[(i - 1) \div size + 1][((i - 1) % size) + 1] = i

ASSUME GraphsAreRight == OrderKept /\ NoCycle /\ NothingLost /\ DirectOrder /\ SplitCovers
=============================================================================
