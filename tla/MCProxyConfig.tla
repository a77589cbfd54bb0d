--------------------------- MODULE MCProxyConfig ---------------------------
(* Instances of ProxyConfig. *)
EXTENDS ProxyConfig, TLC

SerialSymmetry == Permutations(Certs) \cup Permutations(Backends)
SharedSymmetry == Permutations(Certs) \cup Permutations(Jobs)
=============================================================================
