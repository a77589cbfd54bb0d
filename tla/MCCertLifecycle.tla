--------------------------- MODULE MCCertLifecycle ---------------------------
(* Instances of CertLifecycle. *)
EXTENDS CertLifecycle, FiniteSets

CONSTANTS t1, s1

OneThread == {t1}

\* Bound: beside an upload that has outlived its delivery at most one thread is
\* at work, and the application does not restart.
LateBesideOne ==
  (\E s \in Slots : Lives(s)) => restarts = 0 /\ Cardinality({t \in All : Busy(t)}) <= 1
=============================================================================
