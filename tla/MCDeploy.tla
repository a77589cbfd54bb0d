----------------------------- MODULE MCDeploy -----------------------------
(* Instances of Deploy with two worker threads for one node. *)
EXTENDS Deploy, TLC, FiniteSets

CONSTANTS j1, j2

TwoThreads == {j1, j2}
ThreadSymmetry == Permutations(TwoThreads)

\* The locals of a request that has ended say nothing any more, unless it was
\* the last one to start and was alone: no guard and no property reads them.
ReadLater ==
  <<kind, certs, files, running, versions, orphan, before, overlapped, suspect, strays,
    IF overlapped THEN {} ELSE {<<latest, torn>>},
    [j \in Jobs |-> IF Active(j) \/ (~overlapped /\ j = latest)
                     THEN <<pc[j], mode[j], cfg[j]>> ELSE <<>>]>>

\* Bound: two at work on the node at a time, requests or orphans.
AtMostTwo == Cardinality({j \in Jobs : Active(j)}) + Cardinality({s \in Slots : Lives(s)}) <= 2
===========================================================================
