----------------------------- MODULE MCTransport -----------------------------
(* Instances of Transport. *)
EXTENDS Transport

CONSTANTS u1, c1, h1, h2, t1, t2, k1, k2

OneUpload == {u1}
OneCommand == {c1}
OneOfEach == {u1, c1}
TwoHosts == {h1, h2}
TwoTypes == {t1, t2}
\* One host changes the type of its key, the other does not.
ThreeEntries == {<<h1, t1>>, <<h1, t2>>, <<h2, t1>>}
TwoKeys == {k1, k2}

\* Bound: no other thread visits a host while a call is connected.  A connected
\* call does not look at known_hosts again, so that nothing is lost by it.
Apart ==
  (\E u \in Uploads : ~At(u, "connect")) => \A c \in Commands : InVisit(c, "idle")
=============================================================================
