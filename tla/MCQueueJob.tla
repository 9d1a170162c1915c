------------------------------ MODULE MCQueueJob ------------------------------
(* Instances of QueueJob for TLC: the jobs of chain(p, c), as delay stores    *)
(* them.                                                                      *)
EXTENDS QueueJob, JobGraph, TLC

CONSTANTS p, c

Chain ==
    [j \in {p, c} |-> Dependencies(GraphEdges(ChainOf(<<JobNode(p), JobNode(c)>>)), j)]
===============================================================================
