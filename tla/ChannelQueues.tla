---------------------------- MODULE ChannelQueues ----------------------------
(***************************************************************************)
(* channels.py: the queue of a channel as it is built.  Functions only,    *)
(* and checks that they do what module Channels takes a queue for: a set,  *)
(* of which the least job that may run is popped.                          *)
(*                                                                         *)
(* A PriorityQueue is a heap in which a removed object stays until it is   *)
(* first.  A ChannelQueue is two of them, of the jobs with an eta and of   *)
(* those without; a job's sorting key changes while it is handed on.       *)
(* A job is a number, which stands for its key, the eta aside.             *)
(***************************************************************************)
EXTENDS Naturals, FiniteSets
LOCAL INSTANCE Folds

EmptyHeap == [known |-> {}, removed |-> {}]
Live(q) == q.known \ q.removed
HeapAdd(q, o) == [known |-> q.known \cup {o}, removed |-> q.removed \ {o}]
HeapRemove(q, o) == IF o \in q.known THEN [q EXCEPT !.removed = @ \cup {o}] ELSE q

Less(etas, o, x) == etas[o] < etas[x] \/ (etas[o] = etas[x] /\ o < x)
First(set, etas) == CHOOSE o \in set : \A x \in set \ {o} : Less(etas, o, x)

\* What is removed goes when it comes before the first that is not.
Settled(q, etas) ==
    LET gone == {o \in q.removed : \A x \in Live(q) : Less(etas, o, x)}
    IN  [known |-> q.known \ gone, removed |-> q.removed \ gone]

HeapPop(q, etas) ==
    LET s == Settled(q, etas)
    IN  IF Live(q) = {} THEN s ELSE [s EXCEPT !.known = @ \ {First(Live(q), etas)}]

-----------------------------------------------------------------------------
NewQueue(etas) == [late |-> EmptyHeap, ready |-> EmptyHeap, etas |-> etas]

Add(c, j) == IF c.etas[j] # 0 THEN [c EXCEPT !.late = HeapAdd(@, j)]
                              ELSE [c EXCEPT !.ready = HeapAdd(@, j)]

Removed(c, j) ==
    [late |-> HeapRemove(c.late, j), ready |-> HeapRemove(c.ready, j), etas |-> c.etas]

\* The first job with an eta, if that is past due, competes with the others.
Handed(c, now) ==
    LET j == First(Live(c.late), c.etas)
    IN  IF Live(c.late) = {} THEN c
        ELSE IF c.etas[j] > now THEN [c EXCEPT !.late = Settled(@, c.etas)]
        ELSE [late  |-> HeapPop(c.late, c.etas),
              ready |-> HeapAdd(c.ready, j),
              etas  |-> [c.etas EXCEPT ![j] = 0]]

\* As often as there may be jobs to hand over; then nothing changes any more.
AllHanded(c, now) ==
    LET n == Cardinality(c.late.known)
        hand[i \in 0..n] == IF i = 0 THEN c ELSE Handed(hand[i - 1], now)
    IN  hand[n]

\* What is popped, 0 for nothing, and what is left.
Popped(c, now, sequential) ==
    LET d == AllHanded(c, now)
        held == /\ sequential /\ Live(d.late) # {} /\ Live(d.ready) # {}
                /\ First(Live(d.late), d.etas) < First(Live(d.ready), d.etas)
    IN  IF held THEN [job |-> 0, left |-> [d EXCEPT !.ready = Settled(@, d.etas)]]
        ELSE [job  |-> IF Live(d.ready) = {} THEN 0 ELSE First(Live(d.ready), d.etas),
              left |-> [d EXCEPT !.ready = HeapPop(@, d.etas)]]

get_wakeup_time(c) == IF Live(c.late) = {} THEN 0 ELSE c.etas[First(Live(c.late), c.etas)]

-----------------------------------------------------------------------------
(* The queue as a set of jobs, as module Channels has it.                  *)

Members(c) == Live(c.late) \cup Live(c.ready)

PopOfSet(set, etas, now, sequential) ==
    LET late  == {j \in set : etas[j] > now}
        ready == set \ late
        held  == sequential /\ late # {} /\ \A j \in ready : First(late, etas) < j
    IN  IF ready = {} \/ held THEN 0 ELSE CHOOSE j \in ready : \A k \in ready : j <= k

-----------------------------------------------------------------------------
(* Checks, of every queue that operations on three jobs lead to.           *)

Js == 1..3
Times == 0..2
After(c) ==
    {Add(c, j) : j \in Js} \cup {Removed(c, j) : j \in Js}
      \cup {Popped(c, now, s).left : now \in Times, s \in BOOLEAN}
Longest == 8       \* bound: operations on a queue; beyond it there is no new queue
Queues ==
    MapThenFoldSet(LAMBDA i, set : set \cup UNION {After(c) : c \in set},
                   {NewQueue(etas) : etas \in [Js -> Times]},
                   LAMBDA i : i, LAMBDA s : CHOOSE i \in s : TRUE, 1..Longest)

\* "Jobs with an eta are set aside until their eta is past due, at which point they start
\* competing normally with other jobs": whatever was added, removed and added again
\* while it was still in a heap, what is popped is what the set of jobs would yield, and
\* that job alone leaves.
PopsTheLeast ==
    \A c \in Queues : \A now \in Times, s \in BOOLEAN :
      LET p == Popped(c, now, s)
      IN  /\ p.job = PopOfSet(Members(c), c.etas, now, s)
          /\ Members(p.left) = Members(c) \ {p.job}

\* A job is in one of the two heaps at most, and adding and removing it is what it is for a set.
AddsAndRemoves ==
    \A c \in Queues :
      /\ Live(c.late) \cap Live(c.ready) = {}
      /\ \A j \in Js : /\ Members(Add(c, j)) = Members(c) \cup {j}
                       /\ Members(Removed(c, j)) = Members(c) \ {j}

\* "If one job 'eta' is set, and the other is None, it raises TypeError": no heap holds
\* two such jobs, not even removed ones.
KeysCompare ==
    \A c \in Queues : (\A j \in c.late.known : c.etas[j] # 0) /\ (\A j \in c.ready.known : c.etas[j] = 0)

\* The wakeup time is the first eta of the queue, removed jobs aside.
WakesForTheFirst ==
    \A c \in Queues :
      LET etas == {c.etas[j] : j \in Members(c)} \ {0}
      IN  get_wakeup_time(c) = IF etas = {} THEN 0 ELSE CHOOSE t \in etas : \A u \in etas : t <= u

\* The bound leaves nothing out.
AllFound == UNION {After(c) : c \in Queues} \subseteq Queues

ASSUME QueuesAreSets ==
    AddsAndRemoves /\ PopsTheLeast /\ KeysCompare /\ WakesForTheFirst /\ AllFound
=============================================================================
