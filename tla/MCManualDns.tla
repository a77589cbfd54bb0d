----------------------------- MODULE MCManualDns -----------------------------
(* Instances of ManualDns. *)
EXTENDS ManualDns

CONSTANTS t1, t2, d1, d2

TwoThreads == {t1, t2}
TwoDomains == {d1, d2}

\* Bound: a third attempt is explored only if it begins alone, after two that
\* may have overlapped.
Bounded == attempts = MaxAttempts => ~overlapped
=============================================================================
