-------------------------- MODULE ProxyConfigProofs --------------------------
(***************************************************************************)
(* Proofs about module ProxyConfig, for any tables, names, limit and       *)
(* number of requests.                                                     *)
(*                                                                         *)
(* What refers to what (NoDanglingReference, OwnListsWithinLimit) is kept  *)
(* by every step.  What frontends load is not: SavedInv says that what the *)
(* check of a request that began alone has found is so until its last      *)
(* commit, and that frontends load what they should but for those the      *)
(* request under way is changing and those that have been disturbed.       *)
(***************************************************************************)
EXTENDS ProxyConfig, SequenceTheorems, FiniteSetTheorems, TLAPS

-----------------------------------------------------------------------------
(* Lists of certificates *)

\* They are the lists without repetition, however long.
LEMMA CertListFacts ==
  \A s : s \in CertLists <=> s \in Seq(Certs) /\ IsInjective(s)
  <1>1. ASSUME NEW s \in CertLists PROVE s \in Seq(Certs) /\ IsInjective(s)
    <2>1. IsInjective(s)
      BY DEF CertLists
    <2>2. Cardinality(Certs) \in Nat
      BY FS_CardinalityType, ProxyAssumption
    <2>3. PICK m \in 0..Cardinality(Certs) : s \in [1..m -> Certs]
      BY DEF CertLists, SeqOf
    <2>4. m \in Nat
      BY <2>2, <2>3
    <2> QED
      BY <2>1, <2>3, <2>4, SeqDef
  <1>2. ASSUME NEW s \in Seq(Certs), IsInjective(s) PROVE s \in CertLists
    <2>1. Len(s) \in Nat /\ s \in [1..Len(s) -> Certs]
      BY LenProperties
    <2>2. s \in Injection(1..Len(s), Certs)
      BY <1>2, <2>1 DEF Injection
    <2>3. Cardinality(1..Len(s)) <= Cardinality(Certs)
      BY <2>2, FS_Injection, ProxyAssumption
    <2>4. Cardinality(1..Len(s)) = Len(s)
      BY <2>1, FS_Interval
    <2>5. Cardinality(Certs) \in Nat
      BY FS_CardinalityType, ProxyAssumption
    <2>6. Len(s) \in 0..Cardinality(Certs)
      BY <2>1, <2>3, <2>4, <2>5
    <2> QED
      BY <1>2, <2>1, <2>6 DEF CertLists, SeqOf
  <1> QED
    BY <1>1, <1>2

LEMMA ListParts ==
  ASSUME NEW s \in CertLists
  PROVE  /\ s \in Seq(Certs) /\ IsInjective(s) /\ Len(s) \in Nat
         /\ DOMAIN s = 1..Len(s) /\ \A i \in 1..Len(s) : s[i] \in Certs
         /\ Range(s) \subseteq Certs /\ (s = <<>> <=> Len(s) = 0)
         /\ (s # <<>> => s[1] \in Range(s))
  <1>1. s \in Seq(Certs) /\ IsInjective(s)
    BY CertListFacts
  <1>2. Len(s) \in Nat /\ DOMAIN s = 1..Len(s) /\ \A i \in 1..Len(s) : s[i] \in Certs
    BY <1>1, LenProperties, ElementOfSeq
  <1>3. s = <<>> <=> Len(s) = 0
    BY <1>1, EmptySeq
  <1>4. Range(s) \subseteq Certs
    BY <1>2 DEF Range
  <1>5. s # <<>> => s[1] \in Range(s)
    BY <1>2, <1>3 DEF Range
  <1> QED
    BY <1>1, <1>2, <1>3, <1>4, <1>5

LEMMA EmptyList == <<>> \in CertLists /\ Range(<<>>) = {} /\ Len(<<>>) = 0
  <1>1. <<>> \in Seq(Certs) /\ Len(<<>>) = 0
    BY EmptySeq
  <1>2. DOMAIN <<>> = {}
    OBVIOUS
  <1> QED
    BY <1>1, <1>2, CertListFacts DEF IsInjective, Range

\* A list of one.
LEMMA OneList ==
  ASSUME NEW c \in Certs
  PROVE  /\ <<c>> \in CertLists /\ Range(<<c>>) = {c} /\ Len(<<c>>) = 1 /\ <<c>>[1] = c
         /\ <<c>> # <<>>
  <1>1. <<c>> \in Seq(Certs) /\ Len(<<c>>) = 1 /\ DOMAIN <<c>> = {1} /\ <<c>>[1] = c
    OBVIOUS
  <1>2. IsInjective(<<c>>)
    BY <1>1 DEF IsInjective
  <1>3. Range(<<c>>) = {c}
    BY <1>1 DEF Range
  <1>4. <<c>> # <<>>
    OBVIOUS
  <1> QED
    BY <1>1, <1>2, <1>3, <1>4, CertListFacts

\* What is left without an element, in its order.
LEMMA WithoutFacts ==
  ASSUME NEW s \in CertLists, NEW c
  PROVE  /\ Without(s, c) \in CertLists
         /\ Range(Without(s, c)) = Range(s) \ {c}
         /\ Len(Without(s, c)) <= Len(s)
         /\ s # <<>> /\ s[1] # c => Without(s, c) # <<>> /\ Without(s, c)[1] = s[1]
  <1>0. /\ s \in Seq(Certs) /\ IsInjective(s) /\ Len(s) \in Nat
        /\ DOMAIN s = 1..Len(s) /\ \A i \in 1..Len(s) : s[i] \in Certs
        /\ (s = <<>> <=> Len(s) = 0)
    BY ListParts
  <1>1. CASE c \notin Range(s)
    BY <1>0, <1>1 DEF Without
  <1>2. CASE c \in Range(s)
    <2> DEFINE k == CHOOSE i \in DOMAIN s : s[i] = c
    <2> DEFINE a == SubSeq(s, 1, k - 1)
    <2> DEFINE b == SubSeq(s, k + 1, Len(s))
    <2> DEFINE r == a \o b
    <2>1. k \in 1..Len(s) /\ s[k] = c
      BY <1>0, <1>2 DEF Range
    <2>2. Without(s, c) = r
      BY <1>2 DEF Without, RemoveAt
    <2> HIDE DEF k
    <2>3. a \in Seq(Certs) /\ Len(a) = k - 1 /\ \A i \in 1..k - 1 : a[i] = s[i]
      BY <1>0, <2>1, SubSeqProperties
    <2>4. b \in Seq(Certs) /\ Len(b) = Len(s) - k /\ \A i \in 1..Len(s) - k : b[i] = s[k + i]
      <3>1. k + 1 \in Int /\ Len(s) \in Int /\ \A i \in k + 1..Len(s) : s[i] \in Certs
        BY <1>0, <2>1
      <3> DEFINE m == k + 1
      <3>2. m \in Int /\ \A i \in m..Len(s) : s[i] \in Certs
        BY <3>1
      <3> HIDE DEF m
      <3>3. /\ SubSeq(s, m, Len(s)) \in Seq(Certs)
            /\ Len(SubSeq(s, m, Len(s))) = IF m <= Len(s) THEN Len(s) - m + 1 ELSE 0
            /\ \A i \in 1..Len(s) - m + 1 : SubSeq(s, m, Len(s))[i] = s[m + i - 1]
        BY <3>1, <3>2, SubSeqProperties
      <3>4. b = SubSeq(s, m, Len(s))
        BY DEF m
      <3> HIDE DEF b
      <3>5. b \in Seq(Certs)
        BY <3>3, <3>4
      <3>6. Len(b) = Len(s) - k
        <4>1. Len(b) = IF m <= Len(s) THEN Len(s) - m + 1 ELSE 0
          BY <3>3, <3>4
        <4>2. m = k + 1
          BY DEF m
        <4>3. k \in Nat /\ Len(s) \in Nat /\ k <= Len(s)
          BY <1>0, <2>1
        <4>4. CASE k = Len(s)
          BY <4>1, <4>2, <4>3, <4>4
        <4>5. CASE k < Len(s)
          BY <4>1, <4>2, <4>3, <4>5
        <4> QED
          BY <4>3, <4>4, <4>5
      <3>7. \A i \in 1..Len(s) - k : b[i] = s[k + i]
        BY <1>0, <2>1, <3>3, <3>4 DEF m
      <3> QED
        BY <3>5, <3>6, <3>7
    <2> HIDE DEF a, b
    <2>5. r \in Seq(Certs) /\ Len(r) = Len(s) - 1
          /\ \A i \in 1..Len(s) - 1 : r[i] = IF i <= k - 1 THEN a[i] ELSE b[i - (k - 1)]
      <3>1. /\ r \in Seq(Certs) /\ Len(r) = Len(a) + Len(b)
            /\ \A i \in 1..Len(a) + Len(b) : r[i] = IF i <= Len(a) THEN a[i] ELSE b[i - Len(a)]
        BY <2>3, <2>4, ConcatProperties
      <3>2. Len(a) + Len(b) = Len(s) - 1
        BY <1>0, <2>1, <2>3, <2>4
      <3> HIDE DEF r
      <3> QED
        BY <2>3, <3>1, <3>2
    <2>6. \A i \in 1..Len(s) - 1 : r[i] = IF i < k THEN s[i] ELSE s[i + 1]
      BY <1>0, <2>1, <2>3, <2>4, <2>5
    <2>7. DOMAIN r = 1..Len(s) - 1
      BY <1>0, <2>5, LenProperties
    <2> HIDE DEF r
    <2>8. IsInjective(r)
      BY <1>0, <2>1, <2>6, <2>7 DEF IsInjective
    <2>9. Range(r) \subseteq Range(s) \ {c}
      <3> SUFFICES ASSUME NEW i \in 1..Len(s) - 1 PROVE r[i] \in Range(s) \ {c}
        BY <2>7 DEF Range
      <3>1. CASE i < k
        BY <1>0, <2>1, <2>6, <3>1 DEF Range, IsInjective
      <3>2. CASE ~(i < k)
        BY <1>0, <2>1, <2>6, <3>2 DEF Range, IsInjective
      <3> QED
        BY <3>1, <3>2
    <2>10. Range(s) \ {c} \subseteq Range(r)
      <3> SUFFICES ASSUME NEW i \in 1..Len(s), s[i] # c PROVE s[i] \in Range(r)
        BY <1>0 DEF Range
      <3>1. CASE i < k
        <4>1. i \in 1..Len(s) - 1 /\ r[i] = s[i]
          BY <1>0, <2>1, <2>6, <3>1
        <4> QED
          BY <2>7, <4>1 DEF Range
      <3>2. CASE i > k
        <4>1. i - 1 \in 1..Len(s) - 1 /\ r[i - 1] = s[i]
          BY <1>0, <2>1, <2>6, <3>2
        <4> QED
          BY <2>7, <4>1 DEF Range
      <3> QED
        BY <1>0, <2>1, <3>1, <3>2
    <2>11. s[1] # c => r # <<>> /\ r[1] = s[1]
      <3> SUFFICES ASSUME s[1] # c PROVE r # <<>> /\ r[1] = s[1]
        OBVIOUS
      <3>1. 1 < k /\ 1 \in 1..Len(s) - 1
        BY <1>0, <2>1
      <3> QED
        BY <2>5, <2>6, <3>1, EmptySeq
    <2> QED
      BY <1>0, <2>2, <2>5, <2>8, <2>9, <2>10, <2>11, CertListFacts
  <1> QED
    BY <1>1, <1>2

\* An element in front of the others.
LEMMA FrontFacts ==
  ASSUME NEW s \in CertLists, NEW c \in Certs
  PROVE  LET r == <<c>> \o Without(s, c) IN r \in CertLists /\ r # <<>>
  <1> DEFINE w == Without(s, c)
  <1> DEFINE r == <<c>> \o w
  <1>1. w \in Seq(Certs) /\ IsInjective(w) /\ c \notin Range(w) /\ Len(w) \in Nat /\ DOMAIN w = 1..Len(w)
    BY WithoutFacts, ListParts
  <1> HIDE DEF w
  <1>2. <<c>> \in Seq(Certs) /\ Len(<<c>>) = 1 /\ <<c>>[1] = c
    BY OneList, CertListFacts
  <1>3. /\ r \in Seq(Certs) /\ Len(r) = 1 + Len(w)
        /\ \A i \in 1..1 + Len(w) : r[i] = IF i <= 1 THEN <<c>>[i] ELSE w[i - 1]
    BY <1>1, <1>2, ConcatProperties
  <1>4. \A i \in 1..1 + Len(w) : r[i] = IF i = 1 THEN c ELSE w[i - 1]
    BY <1>1, <1>2, <1>3
  <1>5. DOMAIN r = 1..1 + Len(w)
    BY <1>3, LenProperties
  <1> HIDE DEF r
  <1>6. IsInjective(r)
    BY <1>1, <1>4, <1>5 DEF IsInjective, Range
  <1>7. r # <<>>
    BY <1>1, <1>3, EmptySeq
  <1> QED
    BY <1>3, <1>6, <1>7, CertListFacts DEF r, w

-----------------------------------------------------------------------------
(* Invariants *)

FirstOf(own) == IF own = <<>> THEN None ELSE own[1]
FeJob == [at : {"fe_row", "fe_links"}, id : Frontends, create : BOOLEAN,
          own : CertLists, row : FeRow]
BeJob == [at : {"be_row", "be_links"}, id : Backends, create : BOOLEAN,
          name : Names, own : SUBSET Certs]
\* What has passed the check of a frontend.
FeJobs == {r \in FeJob : Len(r.own) <= Limit /\ r.row.cert = FirstOf(r.own)}

TypeInv == TypeOK /\ job \in [Jobs -> {Idle} \cup FeJobs \cup BeJob]

\* A request that began alone is the only one at work, and frontends are only
\* saved whole by such a one.
Alone == ~overlapped => \A j, k \in Jobs : Busy(j) /\ Busy(k) => j = k
OverlapInv == overlapped => disturbed = Frontends

\* The parts of NoDanglingReference.
FeKeys(f) ==
  /\ Range(feLinks[f]) \subseteq certs
  /\ feLinks[f] # <<>> => FeExists(f)
  /\ FeExists(f) => /\ fe[f].cert \in certs \cup {None}
                    /\ fe[f].default # None => BeExists(fe[f].default)
BeKeys(b) == beLinks[b] \subseteq certs /\ (beLinks[b] # {} => BeExists(b))

\* The row of f has been committed, its links not yet.
Pending(f) == \E j \in Jobs : job[j].at = "fe_links" /\ job[j].id = f
Mirrored(f) == feLinks[f] # <<>> => fe[f].cert \in {None, feLinks[f][1]}
MirrorInv == \A f \in Frontends \ disturbed : Pending(f) \/ Mirrored(f)

Changing(f) == Pending(f) \/ \E j \in Jobs : job[j].at = "be_links"
Good(f, loads) == Cardinality(loads) <= Limit /\ (loads = {} => f \in bereft)

\* What f loads when the links of backend b are these.
LoadsWith(f, name, links) == Effective(OwnCerts(f), fe[f].default, fe[f].rule, name, links)
Requested(r) == Effective(r.own, r.row.default, r.row.rule, be, beLinks)

\* What the check of a request has found is so until its last commit.
FeCaptured(r) == r.row.ssl => Cardinality(Requested(r)) \in 1..Limit
Captured(j) ==
  LET r == job[j]
  IN  /\ r.at = "fe_row" => FeCaptured(r)
      /\ r.at = "fe_links" => FeCaptured(r) /\ (FeExists(r.id) => fe[r.id] = r.row)
      /\ r.at = "be_row" => be[r.id] # Gone /\ NoChangeProblems(r.id, r.name, r.own)
      /\ r.at = "be_links" =>
           \A f \in SslFrontends \ disturbed :
             Good(f, LoadsWith(f, be, [beLinks EXCEPT ![r.id] = r.own]))

SavedInv ==
  /\ \A f \in SslFrontends \ disturbed : Changing(f) \/ Good(f, Loads(f))
  /\ ~overlapped => \A j \in Jobs : Captured(j)

IInv == /\ TypeInv /\ NoDanglingReference /\ OwnListsWithinLimit
        /\ Alone /\ OverlapInv /\ MirrorInv /\ SavedInv

-----------------------------------------------------------------------------
(* Rows and requests *)

Moved(r, at) == [r EXCEPT !.at = at]
WithCert(row, c) == [row EXCEPT !.cert = c]
WithDefault(row, b) == [row EXCEPT !.default = b]

LEMMA RowFields ==
  ASSUME NEW row \in FeRow
  PROVE  /\ row \notin {Unused, Gone} /\ row.ssl \in BOOLEAN
         /\ row.default \in Backends \cup {None} /\ row.rule \in RuleNames \cup {None}
         /\ row.cert \in Certs \cup {None}
         /\ \A c \in Certs \cup {None} :
              /\ WithCert(row, c) \in FeRow /\ WithCert(row, c).cert = c
              /\ WithCert(row, c).ssl = row.ssl /\ WithCert(row, c).default = row.default
              /\ WithCert(row, c).rule = row.rule
              /\ c = row.cert => WithCert(row, c) = row
         /\ \A b \in Backends \cup {None} :
              /\ WithDefault(row, b) \in FeRow /\ WithDefault(row, b).default = b
              /\ WithDefault(row, b).ssl = row.ssl /\ WithDefault(row, b).cert = row.cert
              /\ WithDefault(row, b).rule = row.rule
  <1>1. row \notin {Unused, Gone}
    BY ProxyAssumption
  <1>2. /\ row.ssl \in BOOLEAN /\ row.default \in Backends \cup {None}
        /\ row.rule \in RuleNames \cup {None} /\ row.cert \in Certs \cup {None}
    BY DEF FeRow
  <1>3. ASSUME NEW c \in Certs \cup {None}
        PROVE  /\ WithCert(row, c) \in FeRow /\ WithCert(row, c).cert = c
               /\ WithCert(row, c).ssl = row.ssl /\ WithCert(row, c).default = row.default
               /\ WithCert(row, c).rule = row.rule
               /\ c = row.cert => WithCert(row, c) = row
    BY DEF WithCert, FeRow
  <1>4. ASSUME NEW b \in Backends \cup {None}
        PROVE  /\ WithDefault(row, b) \in FeRow /\ WithDefault(row, b).default = b
               /\ WithDefault(row, b).ssl = row.ssl /\ WithDefault(row, b).cert = row.cert
               /\ WithDefault(row, b).rule = row.rule
    BY DEF WithDefault, FeRow
  <1> QED
    BY <1>1, <1>2, <1>3, <1>4

LEMMA FirstFacts ==
  ASSUME NEW own \in CertLists
  PROVE  /\ FirstOf(own) \in Range(own) \cup {None} /\ FirstOf(own) \in Certs \cup {None}
         /\ own # <<>> => FirstOf(own) = own[1]
         /\ own = <<>> => FirstOf(own) = None
  BY ListParts DEF FirstOf

LEMMA FeJobFields ==
  ASSUME NEW r \in FeJobs
  PROVE  /\ r.at \in {"fe_row", "fe_links"} /\ r.id \in Frontends /\ r.create \in BOOLEAN
         /\ r.own \in CertLists /\ Len(r.own) <= Limit
         /\ r.row \in FeRow /\ r.row.cert = FirstOf(r.own)
         /\ Moved(r, "fe_links") \in FeJobs /\ Moved(r, "fe_links").at = "fe_links"
         /\ Moved(r, "fe_links").id = r.id /\ Moved(r, "fe_links").own = r.own
         /\ Moved(r, "fe_links").row = r.row
  BY DEF FeJobs, FeJob, Moved

LEMMA BeJobFields ==
  ASSUME NEW r \in BeJob
  PROVE  /\ r.at \in {"be_row", "be_links"} /\ r.id \in Backends /\ r.create \in BOOLEAN
         /\ r.name \in Names /\ r.own \subseteq Certs
         /\ Moved(r, "be_links") \in BeJob /\ Moved(r, "be_links").at = "be_links"
         /\ Moved(r, "be_links").id = r.id /\ Moved(r, "be_links").own = r.own
         /\ Moved(r, "be_links").name = r.name
  BY DEF BeJob, Moved

\* A request is what its step says.
LEMMA Kinds ==
  ASSUME TypeInv, NEW j \in Jobs
  PROVE  /\ job[j].at \in {"fe_row", "fe_links"} => job[j] \in FeJobs
         /\ job[j].at \in {"be_row", "be_links"} => job[j] \in BeJob
         /\ job[j].at \in {"idle", "fe_row", "fe_links", "be_row", "be_links"}
         /\ Busy(j) <=> job[j].at # "idle"
         /\ Busy(j) <=> job[j].at \in {"fe_row", "fe_links", "be_row", "be_links"}
  <1>1. Idle.at = "idle"
    BY DEF Idle
  <1>2. job[j] \in {Idle} \cup FeJobs \cup BeJob
    BY DEF TypeInv
  <1>3. CASE job[j] = Idle
    BY <1>1, <1>3 DEF Busy
  <1>4. CASE job[j] \in FeJobs
    <2>1. job[j].at \in {"fe_row", "fe_links"}
      BY <1>4, FeJobFields
    <2> QED
      BY <1>1, <1>4, <2>1 DEF Busy
  <1>5. CASE job[j] \in BeJob
    <2>1. job[j].at \in {"be_row", "be_links"}
      BY <1>5, BeJobFields
    <2> QED
      BY <1>1, <1>5, <2>1 DEF Busy
  <1> QED
    BY <1>2, <1>3, <1>4, <1>5

\* The parts of a typed state.
LEMMA Parts ==
  ASSUME TypeInv
  PROVE  /\ fe \in [Frontends -> FeRow \cup {Unused, Gone}] /\ feLinks \in [Frontends -> CertLists]
         /\ be \in [Backends -> Names \cup {Unused, Gone}] /\ beLinks \in [Backends -> SUBSET Certs]
         /\ certs \subseteq Certs /\ bereft \subseteq Frontends
         /\ overlapped \in BOOLEAN /\ disturbed \subseteq Frontends
         /\ job \in [Jobs -> {Idle} \cup FeJobs \cup BeJob]
         /\ \A f \in Frontends : FeExists(f) <=> fe[f] \in FeRow
         /\ \A b \in Backends : BeExists(b) <=> be[b] \in Names
  <1>1. \A row \in FeRow : row \notin {Unused, Gone}
    BY RowFields
  <1>2. \A n \in Names : n \notin {Unused, Gone}
    BY ProxyAssumption
  <1> QED
    BY <1>1, <1>2 DEF TypeInv, TypeOK, FeExists, BeExists

\* What is typed by its job.
LEMMA TypedJobs ==
  ASSUME job' \in [Jobs -> {Idle} \cup FeJobs \cup BeJob]
  PROVE  \A j \in Jobs : job'[j].at \in {"idle", "fe_row", "fe_links", "be_row", "be_links"}
  BY FeJobFields, BeJobFields DEF Idle

\* A step changes the request of its thread only.
LEMMA OneMoves ==
  ASSUME TypeInv, NEW j \in Jobs, NEW r \in {Idle} \cup FeJobs \cup BeJob, job' = [job EXCEPT ![j] = r]
  PROVE  /\ job' \in [Jobs -> {Idle} \cup FeJobs \cup BeJob]
         /\ job'[j] = r /\ \A k \in Jobs \ {j} : job'[k] = job[k]
  BY DEF TypeInv

-----------------------------------------------------------------------------
(* Loads *)

\* A frontend's own certificates are a list.
LEMMA OwnFacts ==
  ASSUME TypeInv, NEW f \in Frontends
  PROVE  OwnCerts(f) \in CertLists
  <1>1. feLinks[f] \in CertLists /\ (FeExists(f) => fe[f].cert \in Certs \cup {None})
    BY Parts, RowFields
  <1>2. CASE feLinks[f] # <<>>
    BY <1>1, <1>2 DEF OwnCerts
  <1>3. CASE feLinks[f] = <<>> /\ FeExists(f) /\ fe[f].cert # None
    <2>1. OwnCerts(f) = <<fe[f].cert>>
      BY <1>3 DEF OwnCerts
    <2> QED
      BY <1>1, <1>3, <2>1, OneList
  <1>4. CASE feLinks[f] = <<>> /\ ~(FeExists(f) /\ fe[f].cert # None)
    <2>1. OwnCerts(f) = <<>>
      BY <1>4 DEF OwnCerts
    <2> QED
      BY <2>1, EmptyList
  <1> QED
    BY <1>2, <1>3, <1>4

\* What is loaded can be counted.
LEMMA CountFacts ==
  \A A, B : A \subseteq Certs /\ B \subseteq A =>
    Cardinality(A) \in Nat /\ Cardinality(B) \in Nat /\ Cardinality(B) <= Cardinality(A)
    /\ (A = {} <=> Cardinality(A) = 0)
  <1> SUFFICES ASSUME NEW A \in SUBSET Certs, NEW B \in SUBSET A
               PROVE  /\ Cardinality(A) \in Nat /\ Cardinality(B) \in Nat
                      /\ Cardinality(B) <= Cardinality(A) /\ (A = {} <=> Cardinality(A) = 0)
    OBVIOUS
  <1>1. IsFiniteSet(A) /\ IsFiniteSet(B)
    BY FS_Subset, ProxyAssumption
  <1> QED
    BY <1>1, FS_Subset, FS_CardinalityType, FS_EmptySet

LEMMA EffectiveBounds ==
  ASSUME NEW own \in CertLists, NEW default, NEW rule, NEW name \in [Backends -> Names \cup {Unused, Gone}],
         NEW links \in [Backends -> SUBSET Certs]
  PROVE  Effective(own, default, rule, name, links) \subseteq Certs
  <1>1. Range(own) \subseteq Certs
    BY ListParts
  <1> QED
    BY <1>1 DEF Effective, Routed

LEMMA LoadsFacts ==
  ASSUME TypeInv, NEW f \in Frontends
  PROVE  Loads(f) \subseteq Certs /\ Loads(f) = LoadsWith(f, be, beLinks)
  BY Parts, OwnFacts, EffectiveBounds DEF Loads, LoadsWith

-----------------------------------------------------------------------------
(* Parts that most steps keep *)

\* Nothing but requests and history has changed.
LEMMA TablesSame ==
  ASSUME IInv, UNCHANGED tables
  PROVE  /\ NoDanglingReference' /\ OwnListsWithinLimit'
         /\ SslFrontends' = SslFrontends
         /\ \A f \in Frontends : Loads(f)' = Loads(f) /\ Mirrored(f)' = Mirrored(f)
         /\ \A f \in Frontends : OwnCerts(f)' = OwnCerts(f) /\ FeExists(f)' = FeExists(f)
  BY DEF IInv, tables, NoDanglingReference, OwnListsWithinLimit, SslFrontends, Loads, Mirrored,
         OwnCerts, FeExists, BeExists

\* A request under way that goes on or ends overlaps no other by that.
LEMMA AloneKeeps ==
  ASSUME IInv, NEW j \in Jobs, Busy(j), overlapped' = overlapped,
         \A k \in Jobs \ {j} : job'[k] = job[k]
  PROVE  Alone'
  BY DEF IInv, Alone, Busy

\* A new request is the only one or has overlapped.
LEMMA AloneBegins ==
  ASSUME IInv, NEW j \in Jobs, Meets(Jobs \ {j}),
         \A k \in Jobs \ {j} : job'[k] = job[k]
  PROVE  /\ Alone'
         /\ overlapped' => disturbed' = Frontends
         /\ ~overlapped' => disturbed' = disturbed /\ \A k \in Jobs \ {j} : ~Busy(k)
         /\ overlapped' \in BOOLEAN /\ disturbed' \subseteq Frontends
  <1>1. disturbed \subseteq Frontends
    BY Parts DEF IInv
  <1> QED
    BY <1>1 DEF Alone, Busy, Meets

\* Nothing is said of frontends when all are disturbed.
LEMMA Excused ==
  ASSUME disturbed' = Frontends, ~overlapped' => \A k \in Jobs : job'[k].at = "idle"
  PROVE  OverlapInv' /\ MirrorInv' /\ SavedInv'
  BY DEF OverlapInv, MirrorInv, SavedInv, SslFrontends, Captured

\* When no request has a commit left, every row agrees with its links and every
\* SSL frontend loads what it should.
LEMMA RestFacts ==
  ASSUME IInv, \A j \in Jobs : job[j].at \notin {"fe_links", "be_links"}
  PROVE  /\ \A f \in Frontends \ disturbed : Mirrored(f)
         /\ \A f \in SslFrontends \ disturbed : Good(f, Loads(f))
  <1>1. \A f \in Frontends : ~Pending(f) /\ ~Changing(f)
    BY DEF Pending, Changing
  <1> QED
    BY <1>1 DEF IInv, MirrorInv, SavedInv, SslFrontends

LEMMA KeysAre ==
  /\ NoDanglingReference <=> (\A f \in Frontends : FeKeys(f)) /\ \A b \in Backends : BeKeys(b)
  /\ NoDanglingReference' <=> (\A f \in Frontends : FeKeys(f)') /\ \A b \in Backends : BeKeys(b)'
  BY DEF NoDanglingReference, FeKeys, BeKeys

-----------------------------------------------------------------------------
(* Checks *)

LEMMA CheckFrontendInv ==
  ASSUME IInv, NEW j \in Jobs, NEW f \in Frontends, CheckFrontend(j, f)
  PROVE  IInv'
  <1>1. TypeInv /\ ~Busy(j) /\ UNCHANGED tables /\ bereft' = bereft
        /\ Meets(Jobs \ {j})
    BY DEF IInv, CheckFrontend
  <1>2. PICK ssl \in BOOLEAN, default \in Backends \cup {None},
             rule \in RuleNames \cup {None}, own \in RequestedCerts(f) :
          /\ FrontendAccepts(ssl, default, rule, own)
          /\ job' = [job EXCEPT ![j] =
               [at |-> "fe_row", id |-> f, create |-> fe[f] = Unused, own |-> own,
                row |-> [ssl |-> ssl, default |-> default, rule |-> rule,
                         cert |-> IF own = <<>> THEN None ELSE own[1]]]]
    BY DEF CheckFrontend
  <1> DEFINE row == [ssl |-> ssl, default |-> default, rule |-> rule, cert |-> FirstOf(own)]
  <1> DEFINE r == [at |-> "fe_row", id |-> f, create |-> fe[f] = Unused, own |-> own, row |-> row]
  <1>3. own \in CertLists
    <2>1. OwnCerts(f) \in CertLists
      BY <1>1, OwnFacts
    <2> QED
      BY <1>2, <2>1, FrontFacts DEF RequestedCerts
  <1>4. FirstOf(own) \in Certs \cup {None}
    BY <1>3, FirstFacts
  <1>5. row \in FeRow /\ row.ssl = ssl /\ row.default = default /\ row.rule = rule /\ row.cert = FirstOf(own)
    BY <1>4 DEF FeRow
  <1>6. job' = [job EXCEPT ![j] = r]
    BY <1>2 DEF FirstOf
  <1>7. Len(own) <= Limit
    BY <1>2 DEF FrontendAccepts
  <1> HIDE DEF row
  <1>8. r \in FeJob /\ r.at = "fe_row" /\ r.id = f /\ r.own = own /\ r.row = row
    BY <1>3, <1>5 DEF FeJob
  <1> HIDE DEF r
  <1>9. PICK q \in FeJobs : q = r
    BY <1>5, <1>7, <1>8 DEF FeJobs
  <1>10. /\ job' \in [Jobs -> {Idle} \cup FeJobs \cup BeJob]
         /\ job'[j] = q /\ \A k \in Jobs \ {j} : job'[k] = job[k]
    BY <1>1, <1>6, <1>9, OneMoves
  <1>11. TypeInv'
    <2>1. overlapped' \in BOOLEAN /\ disturbed' \subseteq Frontends
      BY <1>1, <1>10, AloneBegins
    <2> QED
      BY <1>1, <1>10, <2>1, Parts, TypedJobs DEF TypeInv, TypeOK, tables
  <1>12. /\ Alone'
         /\ overlapped' => disturbed' = Frontends
         /\ ~overlapped' => disturbed' = disturbed /\ \A k \in Jobs \ {j} : ~Busy(k)
    BY <1>1, <1>10, AloneBegins
  <1>13. NoDanglingReference' /\ OwnListsWithinLimit' /\ SslFrontends' = SslFrontends
         /\ \A x \in Frontends : Loads(x)' = Loads(x) /\ Mirrored(x)' = Mirrored(x)
    BY <1>1, TablesSame
  <1>14. ASSUME ~overlapped' PROVE MirrorInv' /\ SavedInv'
    <2>1. disturbed' = disturbed /\ \A k \in Jobs : ~Busy(k)
      BY <1>1, <1>12, <1>14
    <2>2. \A k \in Jobs : job[k].at \notin {"fe_links", "be_links"}
      BY <1>1, <2>1, Kinds
    <2>3. /\ \A x \in Frontends \ disturbed : Mirrored(x)
          /\ \A x \in SslFrontends \ disturbed : Good(x, Loads(x))
      BY <2>2, RestFacts
    <2>4. MirrorInv'
      BY <1>13, <2>1, <2>3 DEF MirrorInv
    <2>5. \A x \in SslFrontends' \ disturbed' : Good(x, Loads(x))'
      BY <1>1, <1>13, <2>1, <2>3 DEF Good, SslFrontends
    <2>6. ASSUME NEW k \in Jobs \ {j} PROVE Captured(k)'
      <3>1. job'[k].at = "idle"
        BY <1>1, <1>10, <2>1, Kinds
      <3> QED
        BY <3>1 DEF Captured
    <2>7. Captured(j)'
      <3>1. q.at = "fe_row" /\ q.own = own /\ q.row.ssl = ssl /\ q.row.default = default /\ q.row.rule = rule
        BY <1>5, <1>8, <1>9
      <3>2. FeCaptured(q)
        BY <1>2, <3>1 DEF FeCaptured, Requested, FrontendAccepts
      <3>3. FeCaptured(q)'
        <4>1. be' = be /\ beLinks' = beLinks
          BY <1>1 DEF tables
        <4>2. Requested(q)' = Requested(q)
          BY <4>1 DEF Requested, Effective, Routed
        <4> QED
          BY <3>2, <4>2 DEF FeCaptured
      <3> QED
        BY <1>10, <3>1, <3>3 DEF Captured
    <2>8. SavedInv'
      BY <2>5, <2>6, <2>7 DEF SavedInv
    <2> QED
      BY <2>4, <2>8
  <1>15. OverlapInv' /\ MirrorInv' /\ SavedInv'
    BY <1>12, <1>14, Excused DEF OverlapInv
  <1> QED
    BY <1>11, <1>12, <1>13, <1>15 DEF IInv

LEMMA CheckBackendInv ==
  ASSUME IInv, NEW j \in Jobs, NEW b \in Backends, CheckBackend(j, b)
  PROVE  IInv'
  <1>1. TypeInv /\ ~Busy(j) /\ UNCHANGED tables /\ bereft' = bereft /\ be[b] # Gone
        /\ Meets(Jobs \ {j})
    BY DEF IInv, CheckBackend
  <1>2. PICK name \in Names, new \in SUBSET Certs :
          /\ BackendAccepts(b, name, new)
          /\ job' = [job EXCEPT ![j] =
               [at |-> "be_row", id |-> b, create |-> be[b] = Unused, name |-> name, own |-> new]]
    BY DEF CheckBackend
  <1> DEFINE r == [at |-> "be_row", id |-> b, create |-> be[b] = Unused, name |-> name, own |-> new]
  <1>3. r \in BeJob /\ r.at = "be_row" /\ r.id = b /\ r.own = new /\ r.name = name
    BY DEF BeJob
  <1>4. job' = [job EXCEPT ![j] = r]
    BY <1>2
  <1> HIDE DEF r
  <1>10. /\ job' \in [Jobs -> {Idle} \cup FeJobs \cup BeJob]
         /\ job'[j] = r /\ \A k \in Jobs \ {j} : job'[k] = job[k]
    BY <1>1, <1>3, <1>4, OneMoves
  <1>11. TypeInv'
    <2>1. overlapped' \in BOOLEAN /\ disturbed' \subseteq Frontends
      BY <1>1, <1>10, AloneBegins
    <2> QED
      BY <1>1, <1>10, <2>1, Parts, TypedJobs DEF TypeInv, TypeOK, tables
  <1>12. /\ Alone'
         /\ overlapped' => disturbed' = Frontends
         /\ ~overlapped' => disturbed' = disturbed /\ \A k \in Jobs \ {j} : ~Busy(k)
    BY <1>1, <1>10, AloneBegins
  <1>13. NoDanglingReference' /\ OwnListsWithinLimit' /\ SslFrontends' = SslFrontends
         /\ \A x \in Frontends : Loads(x)' = Loads(x) /\ Mirrored(x)' = Mirrored(x)
    BY <1>1, TablesSame
  <1>14. ASSUME ~overlapped' PROVE MirrorInv' /\ SavedInv'
    <2>1. disturbed' = disturbed /\ \A k \in Jobs : ~Busy(k)
      BY <1>1, <1>12, <1>14
    <2>2. \A k \in Jobs : job[k].at \notin {"fe_links", "be_links"}
      BY <1>1, <2>1, Kinds
    <2>3. /\ \A x \in Frontends \ disturbed : Mirrored(x)
          /\ \A x \in SslFrontends \ disturbed : Good(x, Loads(x))
      BY <2>2, RestFacts
    <2>4. MirrorInv'
      BY <1>13, <2>1, <2>3 DEF MirrorInv
    <2>5. \A x \in SslFrontends' \ disturbed' : Good(x, Loads(x))'
      BY <1>1, <1>13, <2>1, <2>3 DEF Good, SslFrontends
    <2>6. ASSUME NEW k \in Jobs \ {j} PROVE Captured(k)'
      <3>1. job'[k].at = "idle"
        BY <1>1, <1>10, <2>1, Kinds
      <3> QED
        BY <3>1 DEF Captured
    <2>7. Captured(j)'
      <3>1. NoChangeProblems(b, name, new)
        BY <1>2 DEF BackendAccepts
      <3>2. NoChangeProblems(b, name, new)'
        <4>1. fe' = fe /\ feLinks' = feLinks /\ be' = be /\ beLinks' = beLinks
          BY <1>1 DEF tables
        <4>2. \A x \in Frontends : OwnCerts(x)' = OwnCerts(x)
          BY <4>1 DEF OwnCerts, FeExists
        <4> QED
          BY <1>13, <3>1, <4>1, <4>2 DEF NoChangeProblems, SslFrontends, Effective, Routed
      <3>3. be'[b] # Gone
        BY <1>1 DEF tables
      <3> QED
        BY <1>3, <1>10, <3>2, <3>3 DEF Captured
    <2>8. SavedInv'
      BY <2>5, <2>6, <2>7 DEF SavedInv
    <2> QED
      BY <2>4, <2>8
  <1>15. OverlapInv' /\ MirrorInv' /\ SavedInv'
    BY <1>12, <1>14, Excused DEF OverlapInv
  <1> QED
    BY <1>11, <1>12, <1>13, <1>15 DEF IInv

-----------------------------------------------------------------------------
(* Commits *)

\* A request that ends without a further commit.
LEMMA EndsInv ==
  ASSUME IInv, NEW j \in Jobs, Busy(j), Ends(j), UNCHANGED tables, bereft' = bereft,
         overlapped' = overlapped,
         \/ disturbed' = disturbed /\ job[j].at \in {"fe_row", "be_row"}
         \/ disturbed' = disturbed \cup Half(j) /\ job[j].at \in {"fe_links", "be_links"}
  PROVE  IInv'
  <1>1. TypeInv /\ Alone /\ OverlapInv
    BY DEF IInv
  <1>2. /\ job' \in [Jobs -> {Idle} \cup FeJobs \cup BeJob]
        /\ job'[j] = Idle /\ \A k \in Jobs \ {j} : job'[k] = job[k]
    BY <1>1, OneMoves DEF Ends
  <1>3. disturbed \subseteq disturbed' /\ disturbed' \subseteq Frontends
    <2>1. disturbed \subseteq Frontends
      BY <1>1, Parts
    <2>2. job[j].at = "fe_links" => job[j].id \in Frontends
      BY <1>1, Kinds, FeJobFields
    <2> QED
      BY <2>1, <2>2 DEF Half
  <1>4. TypeInv'
    BY <1>1, <1>2, <1>3, Parts, TypedJobs DEF TypeInv, TypeOK, tables
  <1>5. Alone'
    BY <1>1, <1>2, AloneKeeps
  <1>6. NoDanglingReference' /\ OwnListsWithinLimit' /\ SslFrontends' = SslFrontends
        /\ \A x \in Frontends : Loads(x)' = Loads(x) /\ Mirrored(x)' = Mirrored(x)
    BY TablesSame
  <1>7. CASE overlapped
    <2>1. overlapped' /\ disturbed' = Frontends
      BY <1>1, <1>3, <1>7 DEF OverlapInv
    <2> QED
      BY <1>4, <1>5, <1>6, <2>1, Excused DEF IInv
  <1>8. CASE ~overlapped
    <2>1. \A k \in Jobs \ {j} : job[k].at = "idle"
      BY <1>1, <1>8, Kinds DEF Alone
    <2>2. \A k \in Jobs : job'[k].at = "idle"
      BY <1>2, <2>1 DEF Idle
    <2>3. ASSUME NEW x \in Frontends \ disturbed'
          PROVE  x \notin disturbed /\ ~Pending(x) /\ ~Changing(x)
      BY <1>3, <2>1 DEF Pending, Changing, Half
    <2>4. MirrorInv'
      BY <1>6, <2>3 DEF IInv, MirrorInv
    <2>5. ASSUME NEW x \in SslFrontends' \ disturbed' PROVE Good(x, Loads(x))'
      <3>1. x \in SslFrontends \ disturbed /\ x \in Frontends /\ ~Changing(x)
        BY <1>6, <2>3 DEF SslFrontends
      <3>2. Good(x, Loads(x))
        BY <3>1 DEF IInv, SavedInv
      <3> QED
        BY <1>6, <3>1, <3>2 DEF Good
    <2>6. \A k \in Jobs : Captured(k)'
      BY <2>2 DEF Captured
    <2>7. OverlapInv' /\ SavedInv'
      BY <1>8, <2>5, <2>6 DEF OverlapInv, SavedInv
    <2> QED
      BY <1>4, <1>5, <1>6, <2>4, <2>7 DEF IInv
  <1> QED
    BY <1>7, <1>8

LEMMA FrontendRowInv ==
  ASSUME IInv, NEW j \in Jobs, FrontendRow(j)
  PROVE  IInv'
  <1>1. TypeInv /\ Alone /\ job[j].at = "fe_row" /\ Busy(j)
        /\ UNCHANGED <<feLinks, be, beLinks, certs, bereft, overlapped, disturbed>>
    BY Kinds DEF IInv, FrontendRow
  <1>2. PICK r \in FeJobs : r = job[j]
    BY <1>1, Kinds
  <1>3. CASE Ends(j) /\ UNCHANGED fe
    BY <1>1, <1>3, EndsInv DEF tables
  <1>4. CASE /\ r.row.cert \in certs \cup {None}
             /\ r.row.default # None => BeExists(r.row.default)
             /\ fe' = IF fe[r.id] = Gone THEN fe ELSE [fe EXCEPT ![r.id] = r.row]
             /\ job' = [job EXCEPT ![j].at = "fe_links"]
    <2> DEFINE m == Moved(r, "fe_links")
    <2>1. /\ r.id \in Frontends /\ r.own \in CertLists /\ Len(r.own) <= Limit
          /\ r.row \in FeRow /\ r.row \notin {Unused, Gone}
          /\ m \in FeJobs /\ m.at = "fe_links" /\ m.id = r.id /\ m.own = r.own /\ m.row = r.row
      BY FeJobFields, RowFields
    <2>2. job' = [job EXCEPT ![j] = m]
      BY <1>2, <1>4 DEF Moved
    <2> HIDE DEF m
    <2>3. /\ job' \in [Jobs -> {Idle} \cup FeJobs \cup BeJob]
          /\ job'[j] = m /\ \A k \in Jobs \ {j} : job'[k] = job[k]
      BY <1>1, <2>1, <2>2, OneMoves
    <2>4. /\ fe' \in [Frontends -> FeRow \cup {Unused, Gone}]
          /\ \A x \in Frontends \ {r.id} : fe'[x] = fe[x]
          /\ fe'[r.id] = r.row \/ (fe'[r.id] = Gone /\ fe[r.id] = Gone)
      <3>1. fe \in [Frontends -> FeRow \cup {Unused, Gone}]
        BY <1>1, Parts
      <3>2. CASE fe[r.id] = Gone
        BY <1>4, <3>1, <3>2
      <3>3. CASE fe[r.id] # Gone
        <4>1. fe' = [fe EXCEPT ![r.id] = r.row]
          BY <1>4, <3>3
        <4> QED
          BY <2>1, <3>1, <4>1
      <3> QED
        BY <3>2, <3>3
    <2>5. TypeInv'
      BY <1>1, <2>3, <2>4, Parts, TypedJobs DEF TypeInv, TypeOK
    <2>6. \A x \in Frontends : FeExists(x) => FeExists(x)'
      BY <2>1, <2>4 DEF FeExists
    <2>7. NoDanglingReference'
      <3>1. ASSUME NEW x \in Frontends \ {r.id} PROVE FeKeys(x)'
        <4>1. FeKeys(x)
          BY KeysAre DEF IInv
        <4> QED
          BY <1>1, <2>4, <4>1 DEF FeKeys, FeExists, BeExists
      <3>2. FeKeys(r.id)'
        <4>1. FeKeys(r.id)
          BY <2>1, KeysAre DEF IInv
        <4>2. CASE fe'[r.id] = r.row
          BY <1>1, <1>4, <2>1, <4>1, <4>2 DEF FeKeys, FeExists, BeExists
        <4>3. CASE fe'[r.id] = Gone /\ fe[r.id] = Gone
          BY <1>1, <4>1, <4>3 DEF FeKeys, FeExists
        <4> QED
          BY <2>4, <4>2, <4>3
      <3>3. \A b \in Backends : BeKeys(b)'
        BY <1>1, KeysAre DEF IInv, BeKeys, BeExists
      <3> QED
        BY <3>1, <3>2, <3>3, KeysAre
    <2>8. OwnListsWithinLimit'
      BY <1>1 DEF IInv, OwnListsWithinLimit, BeExists
    <2>9. Alone'
      BY <1>1, <2>3, AloneKeeps
    <2>10. ASSUME ~overlapped' PROVE MirrorInv' /\ SavedInv'
      <3>1. ~overlapped
        BY <1>1, <2>10
      <3>2. \A k \in Jobs \ {j} : job[k].at = "idle"
        BY <1>1, <3>1, Kinds DEF Alone
      <3>3. /\ \A x \in Frontends \ disturbed : Mirrored(x)
            /\ \A x \in SslFrontends \ disturbed : Good(x, Loads(x))
        BY <1>1, <3>2, RestFacts
      <3>4. Pending(r.id)'
        BY <2>1, <2>3 DEF Pending
      <3>5. MirrorInv'
        <4>1. ASSUME NEW x \in Frontends \ disturbed, x # r.id PROVE Mirrored(x)'
          BY <1>1, <2>4, <3>3, <4>1 DEF Mirrored
        <4> QED
          BY <1>1, <3>4, <4>1 DEF MirrorInv
      <3>6. ASSUME NEW x \in SslFrontends' \ disturbed' PROVE Changing(x)' \/ Good(x, Loads(x))'
        <4>1. CASE x = r.id
          BY <3>4, <4>1 DEF Changing
        <4>2. CASE x # r.id
          <5>1. x \in Frontends /\ fe'[x] = fe[x] /\ x \in SslFrontends
            BY <2>4, <4>2 DEF SslFrontends, FeExists
          <5>2. Loads(x)' = Loads(x)
            BY <1>1, <5>1 DEF Loads, OwnCerts, FeExists
          <5> QED
            BY <1>1, <3>3, <5>1, <5>2 DEF Good
        <4> QED
          BY <4>1, <4>2
      <3>7. ASSUME NEW k \in Jobs \ {j} PROVE Captured(k)'
        <4>1. job'[k].at = "idle"
          BY <2>3, <3>2
        <4> QED
          BY <4>1 DEF Captured
      <3>8. Captured(j)'
        <4>1. FeCaptured(r)
          BY <1>1, <1>2, <3>1 DEF IInv, SavedInv, Captured
        <4>2. Requested(m)' = Requested(r)
          <5>1. m' = m
            BY DEF m
          <5> QED
            BY <1>1, <2>1, <5>1 DEF Requested
        <4>3. FeCaptured(m)'
          BY <2>1, <4>1, <4>2 DEF FeCaptured, m
        <4>4. FeExists(r.id)' => fe'[r.id] = r.row
          BY <2>4 DEF FeExists
        <4> QED
          BY <2>1, <2>3, <4>3, <4>4 DEF Captured, m
      <3> QED
        BY <3>5, <3>6, <3>7, <3>8 DEF SavedInv
    <2>11. OverlapInv' /\ MirrorInv' /\ SavedInv'
      BY <1>1, <2>10, Excused DEF IInv, OverlapInv
    <2> QED
      BY <2>5, <2>7, <2>8, <2>9, <2>11 DEF IInv
  <1> QED
    BY <1>2, <1>3, <1>4 DEF FrontendRow

LEMMA FrontendLinksInv ==
  ASSUME IInv, NEW j \in Jobs, FrontendLinks(j)
  PROVE  IInv'
  <1>1. TypeInv /\ Alone /\ job[j].at = "fe_links" /\ Busy(j)
        /\ UNCHANGED <<be, beLinks, certs, overlapped>>
    BY Kinds DEF IInv, FrontendLinks
  <1>2. PICK r \in FeJobs : r = job[j]
    BY <1>1, Kinds
  <1>3. CASE StopsHalfWay(j) /\ UNCHANGED <<fe, feLinks, bereft>>
    BY <1>1, <1>3, EndsInv DEF StopsHalfWay, tables
  <1>4. CASE /\ Range(r.own) \subseteq certs /\ (r.own # <<>> => FeExists(r.id))
             /\ feLinks' = [feLinks EXCEPT ![r.id] = r.own]
             /\ fe' = IF FeExists(r.id) THEN [fe EXCEPT ![r.id].cert = r.row.cert] ELSE fe
             /\ SavedWhole(r.id)
             /\ Ends(j)
    <2>1. /\ r.id \in Frontends /\ r.own \in CertLists /\ Len(r.own) <= Limit
          /\ r.row \in FeRow /\ r.row.cert = FirstOf(r.own)
          /\ FirstOf(r.own) \in Range(r.own) \cup {None} /\ FirstOf(r.own) \in Certs \cup {None}
          /\ r.own # <<>> => FirstOf(r.own) = r.own[1]
          /\ r.own = <<>> => FirstOf(r.own) = None
      BY FeJobFields, FirstFacts
    <2>2. /\ job' \in [Jobs -> {Idle} \cup FeJobs \cup BeJob]
          /\ job'[j] = Idle /\ \A k \in Jobs \ {j} : job'[k] = job[k]
      BY <1>1, <1>4, OneMoves DEF Ends
    <2>3. /\ feLinks' \in [Frontends -> CertLists] /\ feLinks'[r.id] = r.own
          /\ \A x \in Frontends \ {r.id} : feLinks'[x] = feLinks[x]
      BY <1>1, <1>4, <2>1, Parts
    <2>4. /\ fe' \in [Frontends -> FeRow \cup {Unused, Gone}]
          /\ \A x \in Frontends \ {r.id} : fe'[x] = fe[x]
          /\ FeExists(r.id) => fe'[r.id] = WithCert(fe[r.id], r.row.cert)
          /\ ~FeExists(r.id) => fe'[r.id] = fe[r.id]
      <3>1. fe \in [Frontends -> FeRow \cup {Unused, Gone}] /\ (FeExists(r.id) => fe[r.id] \in FeRow)
        BY <1>1, <2>1, Parts
      <3>2. CASE FeExists(r.id)
        <4>1. WithCert(fe[r.id], r.row.cert) \in FeRow
          BY <2>1, <3>1, <3>2, RowFields
        <4>2. fe' = [fe EXCEPT ![r.id] = WithCert(fe[r.id], r.row.cert)]
          BY <1>4, <3>2 DEF WithCert
        <4> QED
          BY <2>1, <3>1, <3>2, <4>1, <4>2
      <3>3. CASE ~FeExists(r.id)
        BY <1>4, <3>1, <3>3
      <3> QED
        BY <3>2, <3>3
    <2>5. FeExists(r.id) => /\ fe[r.id] \in FeRow
                            /\ fe'[r.id] \in FeRow /\ fe'[r.id].cert = FirstOf(r.own)
                            /\ fe'[r.id].default = fe[r.id].default
                            /\ fe'[r.id] \notin {Unused, Gone}
      BY <1>1, <2>1, <2>4, Parts, RowFields
    <2>6. FeExists(r.id)' = FeExists(r.id)
      BY <2>4, <2>5 DEF FeExists
    <2>7. TypeInv'
      <3>1. bereft' \subseteq Frontends /\ disturbed' \subseteq Frontends
        BY <1>1, <1>4, Parts DEF SavedWhole
      <3> QED
        BY <1>1, <1>4, <2>2, <2>3, <2>4, <3>1, Parts, TypedJobs DEF TypeInv, TypeOK
    <2>8. NoDanglingReference'
      <3>1. ASSUME NEW x \in Frontends \ {r.id} PROVE FeKeys(x)'
        <4>1. FeKeys(x)
          BY KeysAre DEF IInv
        <4> QED
          BY <1>1, <2>3, <2>4, <4>1 DEF FeKeys, FeExists, BeExists
      <3>2. FeKeys(r.id)'
        <4>1. FeKeys(r.id)
          BY <2>1, KeysAre DEF IInv
        <4>2. Range(feLinks[r.id])' \subseteq certs' /\ (feLinks'[r.id] # <<>> => FeExists(r.id)')
          BY <1>1, <1>4, <2>3, <2>6
        <4>3. FeExists(r.id) => /\ fe'[r.id].cert \in certs' \cup {None}
                                /\ (fe[r.id].default # None => BeExists(fe[r.id].default))'
          BY <1>1, <1>4, <2>1, <2>5, <4>1 DEF FeKeys, BeExists
        <4> QED
          BY <2>6, <4>2, <4>3 DEF FeKeys
      <3>3. \A b \in Backends : BeKeys(b)'
        BY <1>1, KeysAre DEF IInv, BeKeys, BeExists
      <3> QED
        BY <3>1, <3>2, <3>3, KeysAre
    <2>9. OwnListsWithinLimit'
      BY <1>1, <2>1, <2>3 DEF IInv, OwnListsWithinLimit, BeExists
    <2>10. Alone'
      BY <1>1, <1>4, <2>2, AloneKeeps
    <2>11. ASSUME ~overlapped' PROVE MirrorInv' /\ SavedInv'
      <3>1. ~overlapped /\ bereft' = bereft \ {r.id} /\ disturbed' = disturbed \ {r.id}
        BY <1>1, <1>4, <2>11 DEF SavedWhole
      <3>2. \A k \in Jobs \ {j} : job[k].at = "idle"
        BY <1>1, <3>1, Kinds DEF Alone
      <3>3. \A k \in Jobs : job'[k].at = "idle"
        BY <2>2, <3>2 DEF Idle
      <3>4. ASSUME NEW x \in Frontends \ {r.id} PROVE ~Pending(x) /\ ~Changing(x)
        BY <1>1, <1>2, <3>2 DEF Pending, Changing
      <3>5. MirrorInv'
        <4>1. ASSUME NEW x \in Frontends \ disturbed, x # r.id PROVE Mirrored(x)'
          <5>1. Mirrored(x)
            BY <3>4, <4>1 DEF IInv, MirrorInv
          <5> QED
            BY <2>3, <2>4, <4>1, <5>1 DEF Mirrored
        <4>2. Mirrored(r.id)'
          BY <1>4, <2>1, <2>3, <2>5 DEF Mirrored
        <4> QED
          BY <3>1, <4>1, <4>2 DEF MirrorInv
      <3>6. ASSUME NEW x \in SslFrontends' \ disturbed' PROVE Good(x, Loads(x))'
        <4>1. CASE x # r.id
          <5>1. x \in Frontends /\ fe'[x] = fe[x] /\ feLinks'[x] = feLinks[x] /\ x \in SslFrontends
            BY <2>3, <2>4, <4>1 DEF SslFrontends, FeExists
          <5>2. Loads(x)' = Loads(x)
            BY <1>1, <5>1 DEF Loads, OwnCerts, FeExists
          <5>3. Good(x, Loads(x))
            BY <3>1, <3>4, <4>1, <5>1 DEF IInv, SavedInv
          <5> QED
            BY <3>1, <4>1, <5>2, <5>3 DEF Good
        <4>2. CASE x = r.id
          <5>1. FeExists(r.id) /\ FeExists(r.id)' /\ fe'[r.id].ssl
            BY <2>6, <4>2 DEF SslFrontends
          <5>2. Captured(j)
            BY <3>1 DEF IInv, SavedInv
          <5>3. FeCaptured(r) /\ fe[r.id] = r.row
            BY <1>1, <1>2, <5>1, <5>2 DEF Captured
          <5>4. fe'[r.id] = r.row
            BY <2>1, <2>4, <5>1, <5>3, RowFields
          <5>5. OwnCerts(x)' = r.own
            <6>1. CASE r.own # <<>>
              BY <2>3, <4>2, <6>1 DEF OwnCerts
            <6>2. CASE r.own = <<>>
              <7>1. feLinks'[x] = <<>> /\ fe'[x].cert = None
                BY <2>1, <2>3, <4>2, <5>4, <6>2
              <7> QED
                BY <6>2, <7>1 DEF OwnCerts
            <6> QED
              BY <6>1, <6>2
          <5>6. Loads(x)' = Requested(r)
            BY <1>1, <4>2, <5>4, <5>5 DEF Loads, Requested
          <5>7. Cardinality(Requested(r)) \in 1..Limit
            BY <5>1, <5>3, <5>4 DEF FeCaptured
          <5>8. Requested(r) # {}
            BY <5>7, FS_EmptySet
          <5>9. Cardinality(Requested(r)) <= Limit
            BY <5>7
          <5> QED
            BY <5>6, <5>8, <5>9 DEF Good
        <4> QED
          BY <4>1, <4>2
      <3>7. ASSUME NEW k \in Jobs PROVE Captured(k)'
        BY <3>3 DEF Captured
      <3> QED
        BY <3>5, <3>6, <3>7 DEF SavedInv
    <2>12. OverlapInv' /\ MirrorInv' /\ SavedInv'
      <3>1. overlapped' => disturbed' = Frontends
        BY <1>1, <1>4 DEF IInv, OverlapInv, SavedWhole
      <3> QED
        BY <2>11, <3>1, Excused DEF OverlapInv
    <2> QED
      BY <2>7, <2>8, <2>9, <2>10, <2>12 DEF IInv
  <1> QED
    BY <1>2, <1>3, <1>4 DEF FrontendLinks

LEMMA BackendRowInv ==
  ASSUME IInv, NEW j \in Jobs, BackendRow(j)
  PROVE  IInv'
  <1>1. TypeInv /\ Alone /\ job[j].at = "be_row" /\ Busy(j)
        /\ UNCHANGED <<fe, feLinks, beLinks, certs, bereft, overlapped>>
    BY Kinds DEF IInv, BackendRow
  <1>2. PICK r \in BeJob : r = job[j]
    BY <1>1, Kinds
  <1>3. CASE Ends(j) /\ UNCHANGED <<be, disturbed>>
    BY <1>1, <1>3, EndsInv DEF tables
  <1>4. CASE /\ \A x \in Backends \ {r.id} : be[x] # r.name
             /\ be' = IF be[r.id] = Gone THEN be ELSE [be EXCEPT ![r.id] = r.name]
             /\ \/ job' = [job EXCEPT ![j].at = "be_links"] /\ UNCHANGED disturbed
                \/ StopsHalfWay(j)
    <2>1. PICK m \in {Idle} \cup BeJob :
            /\ job' = [job EXCEPT ![j] = m]
            /\ \/ disturbed' = Frontends /\ m = Idle
               \/ disturbed' = disturbed /\ m.at = "be_links" /\ m.id = r.id /\ m.own = r.own
      <3>1. CASE StopsHalfWay(j)
        BY <1>1, <3>1, Parts DEF StopsHalfWay, Ends, Half
      <3>2. CASE job' = [job EXCEPT ![j].at = "be_links"] /\ UNCHANGED disturbed
        <4>1. job' = [job EXCEPT ![j] = Moved(r, "be_links")]
          BY <1>2, <3>2 DEF Moved
        <4> QED
          BY <1>1, <3>2, <4>1, BeJobFields, Parts
      <3> QED
        BY <1>4, <3>1, <3>2
    <2>2. r.id \in Backends /\ r.name \in Names /\ r.name \notin {Unused, Gone} /\ r.own \subseteq Certs
      BY BeJobFields, ProxyAssumption
    <2>3. /\ job' \in [Jobs -> {Idle} \cup FeJobs \cup BeJob]
          /\ job'[j] = m /\ \A k \in Jobs \ {j} : job'[k] = job[k]
      BY <1>1, <2>1, OneMoves
    <2>4. /\ be' \in [Backends -> Names \cup {Unused, Gone}]
          /\ \A x \in Backends \ {r.id} : be'[x] = be[x]
          /\ be'[r.id] = r.name \/ (be'[r.id] = Gone /\ be[r.id] = Gone)
      <3>1. be \in [Backends -> Names \cup {Unused, Gone}]
        BY <1>1, Parts
      <3> QED
        BY <1>4, <2>2, <3>1
    <2>5. TypeInv'
      <3>1. disturbed' \subseteq Frontends
        BY <1>1, <2>1, Parts
      <3> QED
        BY <1>1, <2>3, <2>4, <3>1, Parts, TypedJobs DEF TypeInv, TypeOK
    <2>6. \A x \in Backends : BeExists(x) => be'[x] \notin {Unused, Gone}
      BY <2>2, <2>4 DEF BeExists
    <2>7. NoDanglingReference'
      <3>1. ASSUME NEW x \in Frontends PROVE FeKeys(x)'
        <4>1. FeKeys(x)
          BY KeysAre DEF IInv
        <4>2. FeExists(x) => fe[x].default \in Backends \cup {None}
          BY <1>1, Parts, RowFields
        <4> QED
          BY <1>1, <2>6, <4>1, <4>2 DEF FeKeys, FeExists, BeExists
      <3>2. \A b \in Backends : BeKeys(b)'
        BY <1>1, <2>6, KeysAre DEF IInv, BeKeys, BeExists
      <3> QED
        BY <3>1, <3>2, KeysAre
    <2>8. OwnListsWithinLimit'
      <3>1. \A f \in Frontends : Len(feLinks'[f]) <= Limit
        BY <1>1 DEF IInv, OwnListsWithinLimit
      <3>2. ASSUME NEW a \in Backends, NEW b \in Backends, be'[a] \notin {Unused, Gone}, be'[a] = be'[b]
            PROVE  a = b
        BY <1>4, <2>4, <3>2 DEF IInv, OwnListsWithinLimit, BeExists
      <3> QED
        BY <3>1, <3>2 DEF OwnListsWithinLimit, BeExists
    <2>9. Alone'
      BY <1>1, <2>1, <2>3, AloneKeeps
    <2>10. ASSUME ~overlapped, disturbed' = disturbed, m.at = "be_links", m.id = r.id, m.own = r.own
           PROVE  MirrorInv' /\ SavedInv'
      <3>1. ~overlapped /\ m.at = "be_links" /\ m.id = r.id /\ m.own = r.own
        BY <2>10
      <3>2. \A k \in Jobs \ {j} : job[k].at = "idle"
        BY <1>1, <3>1, Kinds DEF Alone
      <3>3. /\ \A x \in Frontends \ disturbed : Mirrored(x)
            /\ \A x \in SslFrontends \ disturbed : Good(x, Loads(x))
        BY <1>1, <3>2, RestFacts
      <3>4. MirrorInv'
        BY <1>1, <2>10, <3>3 DEF MirrorInv, Mirrored
      <3>5. \A x \in Frontends : Changing(x)'
        BY <2>3, <3>1 DEF Changing
      <3>6. ASSUME NEW k \in Jobs \ {j} PROVE Captured(k)'
        <4>1. job'[k].at = "idle"
          BY <2>3, <3>2
        <4> QED
          BY <4>1 DEF Captured
      <3>7. be[r.id] # Gone /\ NoChangeProblems(r.id, r.name, r.own)
        BY <1>1, <1>2, <3>1 DEF IInv, SavedInv, Captured
      <3>8. be' = [be EXCEPT ![r.id] = r.name]
        BY <1>4, <3>7
      <3>9. ASSUME NEW x \in SslFrontends \ disturbed
            PROVE  Good(x, LoadsWith(x, [be EXCEPT ![r.id] = r.name], [beLinks EXCEPT ![r.id] = r.own]))
        <4> DEFINE after == LoadsWith(x, [be EXCEPT ![r.id] = r.name], [beLinks EXCEPT ![r.id] = r.own])
        <4>1. /\ Loads(x) # {} => after # {}
              /\ Cardinality(after) > Limit => Cardinality(after) <= Cardinality(Loads(x))
          BY <3>7 DEF NoChangeProblems, LoadsWith
        <4>2. after \subseteq Certs
          <5>1. x \in Frontends /\ be \in [Backends -> Names \cup {Unused, Gone}]
                /\ beLinks \in [Backends -> SUBSET Certs]
            BY <1>1, Parts DEF SslFrontends
          <5>2. /\ [be EXCEPT ![r.id] = r.name] \in [Backends -> Names \cup {Unused, Gone}]
                /\ [beLinks EXCEPT ![r.id] = r.own] \in [Backends -> SUBSET Certs]
            BY <2>2, <5>1
          <5> QED
            BY <1>1, <5>1, <5>2, OwnFacts, EffectiveBounds DEF LoadsWith
        <4>3. Loads(x) \subseteq Certs
          BY <1>1, LoadsFacts DEF SslFrontends
        <4> HIDE DEF after
        <4>4. Cardinality(after) \in Nat /\ Cardinality(Loads(x)) \in Nat /\ Limit \in Nat
          BY <4>2, <4>3, CountFacts, ProxyAssumption
        <4>5. Cardinality(Loads(x)) <= Limit /\ (Loads(x) = {} => x \in bereft)
          BY <3>3 DEF Good
        <4>6. Cardinality(after) <= Limit /\ (after = {} => x \in bereft)
          BY <4>1, <4>4, <4>5
        <4> QED
          BY <4>6 DEF Good, after
      <3>10. Captured(j)'
        <4>1. SslFrontends' = SslFrontends
          BY <1>1 DEF SslFrontends, FeExists
        <4>2. ASSUME NEW x \in SslFrontends' \ disturbed'
              PROVE  Good(x, LoadsWith(x, be, [beLinks EXCEPT ![r.id] = r.own]))'
          <5>1. LoadsWith(x, be, [beLinks EXCEPT ![r.id] = r.own])'
                  = LoadsWith(x, [be EXCEPT ![r.id] = r.name], [beLinks EXCEPT ![r.id] = r.own])
            BY <1>1, <3>8 DEF LoadsWith, OwnCerts, FeExists
          <5> QED
            BY <1>1, <2>10, <3>9, <4>1, <4>2, <5>1 DEF Good
        <4> QED
          BY <2>3, <3>1, <4>2 DEF Captured
      <3> QED
        BY <3>4, <3>5, <3>6, <3>10 DEF SavedInv, SslFrontends
    <2>11. OverlapInv' /\ MirrorInv' /\ SavedInv'
      <3>1. CASE overlapped
        BY <1>1, <2>1, <3>1, Excused DEF IInv, OverlapInv
      <3>2. CASE ~overlapped /\ disturbed' = Frontends /\ m = Idle
        <4>1. \A k \in Jobs : job'[k].at = "idle"
          BY <1>1, <2>3, <3>2, Kinds DEF Alone, Idle
        <4> QED
          BY <3>2, <4>1, Excused
      <3>3. CASE ~overlapped /\ ~(disturbed' = Frontends /\ m = Idle)
        BY <1>1, <2>1, <2>10, <3>3 DEF OverlapInv
      <3> QED
        BY <3>1, <3>2, <3>3
    <2> QED
      BY <2>5, <2>7, <2>8, <2>9, <2>11 DEF IInv
  <1> QED
    BY <1>2, <1>3, <1>4 DEF BackendRow

LEMMA BackendLinksInv ==
  ASSUME IInv, NEW j \in Jobs, BackendLinks(j)
  PROVE  IInv'
  <1>1. TypeInv /\ Alone /\ job[j].at = "be_links" /\ Busy(j)
        /\ UNCHANGED <<fe, feLinks, be, certs, bereft, overlapped>>
    BY Kinds DEF IInv, BackendLinks
  <1>2. PICK r \in BeJob : r = job[j]
    BY <1>1, Kinds
  <1>3. CASE StopsHalfWay(j) /\ UNCHANGED beLinks
    BY <1>1, <1>3, EndsInv DEF StopsHalfWay, tables
  <1>4. CASE /\ r.own \subseteq certs /\ (r.own # {} => BeExists(r.id))
             /\ beLinks' = [beLinks EXCEPT ![r.id] = r.own]
             /\ Ends(j)
             /\ UNCHANGED disturbed
    <2>1. r.id \in Backends /\ r.own \subseteq Certs
      BY BeJobFields
    <2>2. /\ job' \in [Jobs -> {Idle} \cup FeJobs \cup BeJob]
          /\ job'[j] = Idle /\ \A k \in Jobs \ {j} : job'[k] = job[k]
      BY <1>1, <1>4, OneMoves DEF Ends
    <2>3. /\ beLinks' \in [Backends -> SUBSET Certs]
          /\ beLinks'[r.id] = r.own /\ \A x \in Backends \ {r.id} : beLinks'[x] = beLinks[x]
      BY <1>1, <1>4, <2>1, Parts
    <2>4. TypeInv'
      BY <1>1, <1>4, <2>2, <2>3, Parts, TypedJobs DEF TypeInv, TypeOK
    <2>5. NoDanglingReference'
      <3>1. \A x \in Frontends : FeKeys(x)'
        BY <1>1, KeysAre DEF IInv, FeKeys, FeExists, BeExists
      <3>2. \A b \in Backends : BeKeys(b)'
        BY <1>1, <1>4, <2>3, KeysAre DEF IInv, BeKeys, BeExists
      <3> QED
        BY <3>1, <3>2, KeysAre
    <2>6. OwnListsWithinLimit'
      BY <1>1 DEF IInv, OwnListsWithinLimit, BeExists
    <2>7. Alone'
      BY <1>1, <1>4, <2>2, AloneKeeps
    <2>8. ASSUME ~overlapped' PROVE MirrorInv' /\ SavedInv'
      <3>1. ~overlapped
        BY <1>1, <2>8
      <3>2. \A k \in Jobs \ {j} : job[k].at = "idle"
        BY <1>1, <3>1, Kinds DEF Alone
      <3>3. \A k \in Jobs : job'[k].at = "idle"
        BY <2>2, <3>2 DEF Idle
      <3>4. \A x \in Frontends \ disturbed : Mirrored(x)
        <4>1. \A x \in Frontends : ~Pending(x)
          BY <1>1, <3>2 DEF Pending
        <4> QED
          BY <4>1 DEF IInv, MirrorInv
      <3>5. MirrorInv'
        BY <1>1, <1>4, <3>4 DEF MirrorInv, Mirrored
      <3>6. ASSUME NEW x \in SslFrontends' \ disturbed' PROVE Good(x, Loads(x))'
        <4>1. x \in SslFrontends \ disturbed
          BY <1>1, <1>4 DEF SslFrontends, FeExists
        <4>2. Captured(j)
          BY <3>1 DEF IInv, SavedInv
        <4>3. Good(x, LoadsWith(x, be, [beLinks EXCEPT ![r.id] = r.own]))
          BY <1>1, <1>2, <4>1, <4>2 DEF Captured
        <4>4. Loads(x)' = LoadsWith(x, be, [beLinks EXCEPT ![r.id] = r.own])
          BY <1>1, <1>4 DEF Loads, LoadsWith, OwnCerts, FeExists
        <4> QED
          BY <1>1, <4>3, <4>4 DEF Good
      <3>7. ASSUME NEW k \in Jobs PROVE Captured(k)'
        BY <3>3 DEF Captured
      <3> QED
        BY <3>5, <3>6, <3>7 DEF SavedInv
    <2>9. OverlapInv' /\ MirrorInv' /\ SavedInv'
      BY <1>1, <1>4, <2>8, Excused DEF IInv, OverlapInv
    <2> QED
      BY <2>4, <2>5, <2>6, <2>7, <2>9 DEF IInv
  <1> QED
    BY <1>2, <1>3, <1>4 DEF BackendLinks

-----------------------------------------------------------------------------
(* Deletions *)

\* A deletion while no request is under way, after which no frontend loads
\* more, and history knows which load nothing any more.
LEMMA DeletionKeeps ==
  ASSUME IInv, UNCHANGED job, Meets(Jobs),
         \A f \in Frontends : Mirrored(f) => Mirrored(f)',
         ASSUME NEW f \in SslFrontends', Mirrored(f)
         PROVE  /\ f \in SslFrontends /\ Loads(f)' \subseteq Loads(f)
                /\ f \in bereft => f \in bereft'
                /\ Loads(f) # {} /\ Loads(f)' = {} => f \in bereft'
  PROVE  Alone' /\ OverlapInv' /\ MirrorInv' /\ SavedInv'
  <1>1. TypeInv /\ Alone
    BY DEF IInv
  <1>2. ASSUME ~overlapped' PROVE Alone' /\ MirrorInv' /\ SavedInv'
    <2>1. disturbed' = disturbed /\ \A j \in Jobs : ~Busy(j)
      BY <1>2 DEF Meets
    <2>2. \A j \in Jobs : job[j].at = "idle" /\ job'[j].at = "idle" /\ ~Busy(j)'
      BY <1>1, <2>1, Kinds DEF Busy
    <2>3. /\ \A f \in Frontends \ disturbed : Mirrored(f)
          /\ \A f \in SslFrontends \ disturbed : Good(f, Loads(f))
      BY <2>2, RestFacts
    <2>4. Alone'
      BY <2>2 DEF Alone
    <2>5. MirrorInv'
      BY <2>1, <2>3 DEF MirrorInv
    <2>6. ASSUME NEW f \in SslFrontends' \ disturbed' PROVE Good(f, Loads(f))'
      <3>1. f \in Frontends
        BY DEF SslFrontends
      <3>2. /\ f \in SslFrontends /\ Loads(f)' \subseteq Loads(f)
            /\ f \in bereft => f \in bereft'
            /\ Loads(f) # {} /\ Loads(f)' = {} => f \in bereft'
        BY <2>1, <2>3, <3>1
      <3>3. Good(f, Loads(f))
        BY <2>1, <2>3, <3>2
      <3>4. /\ Cardinality(Loads(f)') \in Nat /\ Cardinality(Loads(f)) \in Nat /\ Limit \in Nat
            /\ Cardinality(Loads(f)') <= Cardinality(Loads(f))
        BY <1>1, <3>1, <3>2, LoadsFacts, CountFacts, ProxyAssumption
      <3>5. Cardinality(Loads(f)') <= Limit
        BY <3>3, <3>4 DEF Good
      <3>6. Loads(f)' = {} => f \in bereft'
        BY <3>2, <3>3 DEF Good
      <3> QED
        BY <3>5, <3>6 DEF Good
    <2>7. \A j \in Jobs : Captured(j)'
      BY <2>2 DEF Captured
    <2> QED
      BY <2>4, <2>5, <2>6, <2>7 DEF SavedInv
  <1> QED
    BY <1>2, Excused DEF Alone, OverlapInv, Meets

LEMMA DeleteCertInv ==
  ASSUME IInv, NEW c \in Certs, DeleteCert(c)
  PROVE  IInv'
  <1>1. TypeInv /\ UNCHANGED <<be, job>> /\ certs' = certs \ {c}
        /\ bereft' = bereft \cup NewlyBereft
        /\ Meets(Jobs)
    BY DEF IInv, DeleteCert, DeletionHistory
  <1>2. /\ feLinks' \in [Frontends -> CertLists]
        /\ \A f \in Frontends : /\ feLinks[f] \in CertLists
                                /\ feLinks'[f] = Without(feLinks[f], c)
                                /\ Range(feLinks'[f]) = Range(feLinks[f]) \ {c}
                                /\ Len(feLinks'[f]) <= Len(feLinks[f])
                                /\ Len(feLinks[f]) \in Nat /\ Len(feLinks'[f]) \in Nat
                                /\ feLinks[f] = <<>> => feLinks'[f] = <<>>
    <2>1. feLinks' = [f \in Frontends |-> Without(feLinks[f], c)]
      BY DEF DeleteCert
    <2>2. ASSUME NEW s \in CertLists
          PROVE  /\ Without(s, c) \in CertLists /\ Range(Without(s, c)) = Range(s) \ {c}
                 /\ Len(Without(s, c)) <= Len(s) /\ Len(s) \in Nat /\ Len(Without(s, c)) \in Nat
                 /\ s = <<>> => Without(s, c) = <<>>
      <3>1. /\ Without(s, c) \in CertLists /\ Range(Without(s, c)) = Range(s) \ {c}
            /\ Len(Without(s, c)) <= Len(s)
        BY WithoutFacts
      <3>2. Len(s) \in Nat /\ Len(Without(s, c)) \in Nat
        BY <3>1, ListParts
      <3>3. s = <<>> => Without(s, c) = <<>>
        BY EmptyList DEF Without
      <3> QED
        BY <3>1, <3>2, <3>3
    <2>3. \A f \in Frontends : feLinks[f] \in CertLists
      BY <1>1, Parts
    <2> QED
      BY <2>1, <2>2, <2>3
  <1>3. /\ beLinks' \in [Backends -> SUBSET Certs]
        /\ \A b \in Backends : beLinks'[b] = beLinks[b] \ {c}
    BY <1>1, Parts DEF DeleteCert
  <1>4. /\ fe' \in [Frontends -> FeRow \cup {Unused, Gone}]
        /\ \A f \in Frontends :
             /\ ~FeExists(f) => fe'[f] = fe[f]
             /\ FeExists(f) => /\ fe[f] \in FeRow /\ fe'[f] \in FeRow
                               /\ fe'[f].ssl = fe[f].ssl /\ fe'[f].default = fe[f].default
                               /\ fe'[f].rule = fe[f].rule
                               /\ fe'[f].cert = IF fe[f].cert = c THEN None ELSE fe[f].cert
    <2>1. fe' = [f \in Frontends |->
                   IF FeExists(f) /\ fe[f].cert = c THEN WithCert(fe[f], None) ELSE fe[f]]
      BY DEF DeleteCert, WithCert
    <2>2. ASSUME NEW f \in Frontends, FeExists(f)
          PROVE  /\ fe[f] \in FeRow /\ fe'[f] \in FeRow
                 /\ fe'[f].ssl = fe[f].ssl /\ fe'[f].default = fe[f].default
                 /\ fe'[f].rule = fe[f].rule
                 /\ fe'[f].cert = IF fe[f].cert = c THEN None ELSE fe[f].cert
      <3>1. fe[f] \in FeRow
        BY <1>1, <2>2, Parts
      <3>2. CASE fe[f].cert = c
        <4>1. fe'[f] = WithCert(fe[f], None)
          BY <2>1, <2>2, <3>2
        <4> QED
          BY <3>1, <3>2, <4>1, RowFields
      <3>3. CASE fe[f].cert # c
        BY <2>1, <3>1, <3>3
      <3> QED
        BY <3>2, <3>3
    <2>3. \A f \in Frontends : ~FeExists(f) => fe'[f] = fe[f]
      BY <2>1
    <2>4. \A f \in Frontends : fe[f] \in FeRow \cup {Unused, Gone}
      BY <1>1, Parts
    <2>5. \A f \in Frontends : fe'[f] \in FeRow \cup {Unused, Gone}
      BY <2>2, <2>3, <2>4
    <2>6. fe' \in [Frontends -> FeRow \cup {Unused, Gone}]
      BY <2>1, <2>5
    <2> QED
      BY <2>2, <2>3, <2>6
  <1>5. \A f \in Frontends : FeExists(f)' <=> FeExists(f)
    <2>1. \A row \in FeRow : row \notin {Unused, Gone}
      BY RowFields
    <2> QED
      BY <1>4, <2>1 DEF FeExists
  <1>6. TypeInv'
    <2>1. bereft' \subseteq Frontends /\ overlapped' \in BOOLEAN /\ disturbed' \subseteq Frontends
      BY <1>1, Parts DEF NewlyBereft, SslFrontends, Meets
    <2>2. certs' \subseteq Certs
      BY <1>1, Parts
    <2> QED
      BY <1>1, <1>2, <1>3, <1>4, <2>1, <2>2, Parts, TypedJobs DEF TypeInv, TypeOK
  <1>7. NoDanglingReference'
    <2>1. ASSUME NEW f \in Frontends PROVE FeKeys(f)'
      <3>1. FeKeys(f)
        BY KeysAre DEF IInv
      <3>2. Range(feLinks'[f]) \subseteq certs' /\ (feLinks'[f] # <<>> => FeExists(f)')
        BY <1>1, <1>2, <1>5, <3>1 DEF FeKeys
      <3>3. FeExists(f) => /\ fe'[f].cert \in certs' \cup {None}
                           /\ (fe[f].default # None => BeExists(fe[f].default))'
        BY <1>1, <1>4, <3>1 DEF FeKeys, BeExists
      <3> QED
        BY <1>5, <3>2, <3>3 DEF FeKeys
    <2>2. \A b \in Backends : BeKeys(b)'
      BY <1>1, <1>3, KeysAre DEF IInv, BeKeys, BeExists
    <2> QED
      BY <2>1, <2>2, KeysAre
  <1>8. OwnListsWithinLimit'
    <2>1. Limit \in Nat
      BY ProxyAssumption
    <2> QED
      BY <1>1, <1>2, <2>1 DEF IInv, OwnListsWithinLimit, BeExists
  <1>9. ASSUME NEW f \in Frontends, Mirrored(f)
        PROVE  Mirrored(f)' /\ Range(OwnCerts(f)') \subseteq Range(OwnCerts(f))
    <2>1. feLinks[f] # <<>> => FeExists(f)
      BY KeysAre DEF IInv, FeKeys
    <2>2. CASE feLinks[f] = <<>>
      <3>1. feLinks'[f] = <<>>
        BY <1>2, <2>2
      <3>2. Mirrored(f)'
        BY <3>1 DEF Mirrored
      <3>3. OwnCerts(f)' = OwnCerts(f) \/ OwnCerts(f)' = <<>>
        BY <1>4, <1>5, <2>2, <3>1 DEF OwnCerts
      <3> QED
        BY <3>2, <3>3, EmptyList
    <2>3. CASE feLinks[f] # <<>>
      <3>1. OwnCerts(f) = feLinks[f] /\ fe[f].cert \in {None, feLinks[f][1]} /\ FeExists(f)
        BY <1>9, <2>1, <2>3 DEF OwnCerts, Mirrored
      <3>2. fe'[f].cert \in {None, feLinks[f][1]} /\ fe'[f].cert # c
        BY <1>4, <3>1, ProxyAssumption
      <3>3. CASE feLinks'[f] # <<>>
        <4>1. Range(OwnCerts(f)') \subseteq Range(OwnCerts(f))
          BY <1>2, <3>1, <3>3 DEF OwnCerts
        <4>2. CASE feLinks[f][1] # c
          <5>1. feLinks'[f][1] = feLinks[f][1]
            BY <1>2, <2>3, <4>2, WithoutFacts
          <5> QED
            BY <3>2, <4>1, <5>1 DEF Mirrored
        <4>3. CASE feLinks[f][1] = c
          BY <3>2, <4>1, <4>3 DEF Mirrored
        <4> QED
          BY <4>2, <4>3
      <3>4. CASE feLinks'[f] = <<>>
        <4>1. feLinks[f][1] = c
          BY <1>2, <2>3, <3>4, WithoutFacts
        <4>2. fe'[f].cert = None
          BY <3>2, <4>1
        <4>3. OwnCerts(f)' = <<>>
          BY <3>4, <4>2 DEF OwnCerts
        <4>4. Mirrored(f)'
          BY <3>4 DEF Mirrored
        <4> QED
          BY <4>3, <4>4, EmptyList
      <3> QED
        BY <3>3, <3>4
    <2> QED
      BY <2>2, <2>3
  <1>10. ASSUME NEW f \in SslFrontends', Mirrored(f)
         PROVE  /\ f \in SslFrontends /\ Loads(f)' \subseteq Loads(f)
                /\ f \in bereft => f \in bereft'
                /\ Loads(f) # {} /\ Loads(f)' = {} => f \in bereft'
    <2>1. f \in Frontends /\ FeExists(f) /\ f \in SslFrontends
      BY <1>4, <1>5 DEF SslFrontends
    <2>2. Range(OwnCerts(f)') \subseteq Range(OwnCerts(f))
      BY <1>9, <1>10, <2>1
    <2>3. fe'[f].default = fe[f].default /\ fe'[f].rule = fe[f].rule /\ be' = be
      BY <1>1, <1>4, <2>1
    <2>4. \A b \in Routed(fe[f].default, fe[f].rule, be) : beLinks'[b] \subseteq beLinks[b]
      <3>1. DOMAIN be = Backends
        BY <1>1, Parts
      <3> QED
        BY <1>3, <3>1 DEF Routed
    <2>5. Loads(f)' \subseteq Loads(f)
      BY <2>2, <2>3, <2>4 DEF Loads, Effective
    <2> QED
      BY <1>1, <2>1, <2>5 DEF NewlyBereft
  <1>11. Alone' /\ OverlapInv' /\ MirrorInv' /\ SavedInv'
    BY <1>1, <1>9, <1>10, DeletionKeeps
  <1> QED
    BY <1>6, <1>7, <1>8, <1>11 DEF IInv

LEMMA DeleteBackendInv ==
  ASSUME IInv, NEW b \in Backends, DeleteBackend(b)
  PROVE  IInv'
  <1>1. TypeInv /\ UNCHANGED <<feLinks, certs, job>>
        /\ bereft' = bereft \cup NewlyBereft
        /\ Meets(Jobs)
    BY DEF IInv, DeleteBackend, DeletionHistory
  <1>2. /\ be \in [Backends -> Names \cup {Unused, Gone}]
        /\ be' \in [Backends -> Names \cup {Unused, Gone}]
        /\ be'[b] = Gone /\ \A x \in Backends \ {b} : be'[x] = be[x]
    BY <1>1, Parts DEF DeleteBackend
  <1>3. /\ beLinks' \in [Backends -> SUBSET Certs]
        /\ beLinks'[b] = {} /\ \A x \in Backends \ {b} : beLinks'[x] = beLinks[x]
    BY <1>1, Parts DEF DeleteBackend
  <1>4. /\ fe' \in [Frontends -> FeRow \cup {Unused, Gone}]
        /\ \A f \in Frontends :
             /\ ~FeExists(f) => fe'[f] = fe[f]
             /\ FeExists(f) => /\ fe[f] \in FeRow /\ fe'[f] \in FeRow
                               /\ fe'[f].ssl = fe[f].ssl /\ fe'[f].cert = fe[f].cert
                               /\ fe'[f].rule = fe[f].rule
                               /\ fe'[f].default = IF fe[f].default = b THEN None ELSE fe[f].default
    <2>1. fe' = [f \in Frontends |->
                   IF FeExists(f) /\ fe[f].default = b THEN WithDefault(fe[f], None) ELSE fe[f]]
      BY DEF DeleteBackend, WithDefault
    <2>2. ASSUME NEW f \in Frontends, FeExists(f)
          PROVE  /\ fe[f] \in FeRow /\ fe'[f] \in FeRow
                 /\ fe'[f].ssl = fe[f].ssl /\ fe'[f].cert = fe[f].cert
                 /\ fe'[f].rule = fe[f].rule
                 /\ fe'[f].default = IF fe[f].default = b THEN None ELSE fe[f].default
      <3>1. fe[f] \in FeRow
        BY <1>1, <2>2, Parts
      <3>2. CASE fe[f].default = b
        <4>1. fe'[f] = WithDefault(fe[f], None)
          BY <2>1, <2>2, <3>2
        <4> QED
          BY <3>1, <3>2, <4>1, RowFields
      <3>3. CASE fe[f].default # b
        BY <2>1, <3>1, <3>3
      <3> QED
        BY <3>2, <3>3
    <2>3. \A f \in Frontends : ~FeExists(f) => fe'[f] = fe[f]
      BY <2>1
    <2>4. \A f \in Frontends : fe[f] \in FeRow \cup {Unused, Gone}
      BY <1>1, Parts
    <2>5. \A f \in Frontends : fe'[f] \in FeRow \cup {Unused, Gone}
      BY <2>2, <2>3, <2>4
    <2>6. fe' \in [Frontends -> FeRow \cup {Unused, Gone}]
      BY <2>1, <2>5
    <2> QED
      BY <2>2, <2>3, <2>6
  <1>5. \A f \in Frontends : FeExists(f)' <=> FeExists(f)
    <2>1. \A row \in FeRow : row \notin {Unused, Gone}
      BY RowFields
    <2> QED
      BY <1>4, <2>1 DEF FeExists
  <1>6. TypeInv'
    <2>1. bereft' \subseteq Frontends /\ overlapped' \in BOOLEAN /\ disturbed' \subseteq Frontends
      BY <1>1, Parts DEF NewlyBereft, SslFrontends, Meets
    <2> QED
      BY <1>1, <1>2, <1>3, <1>4, <2>1, Parts, TypedJobs DEF TypeInv, TypeOK
  <1>7. NoDanglingReference'
    <2>1. ASSUME NEW f \in Frontends PROVE FeKeys(f)'
      <3>1. FeKeys(f)
        BY KeysAre DEF IInv
      <3>2. Range(feLinks'[f]) \subseteq certs' /\ (feLinks'[f] # <<>> => FeExists(f)')
        BY <1>1, <1>5, <3>1 DEF FeKeys
      <3>3. FeExists(f) => fe'[f].cert \in certs' \cup {None}
        BY <1>1, <1>4, <3>1 DEF FeKeys
      <3>4. FeExists(f) => (fe[f].default # None => BeExists(fe[f].default))'
        <4> SUFFICES ASSUME FeExists(f), fe'[f].default # None PROVE be'[fe'[f].default] \notin {Unused, Gone}
          BY DEF BeExists
        <4>1. fe'[f].default = fe[f].default /\ fe[f].default # b /\ fe[f].default \in Backends
          BY <1>4, RowFields
        <4>2. BeExists(fe[f].default)
          BY <3>1, <4>1 DEF FeKeys
        <4> QED
          BY <1>2, <4>1, <4>2 DEF BeExists
      <3> QED
        BY <1>5, <3>2, <3>3, <3>4 DEF FeKeys
    <2>2. \A x \in Backends : BeKeys(x)'
      BY <1>1, <1>2, <1>3, KeysAre DEF IInv, BeKeys, BeExists
    <2> QED
      BY <2>1, <2>2, KeysAre
  <1>8. OwnListsWithinLimit'
    BY <1>1, <1>2 DEF IInv, OwnListsWithinLimit, BeExists
  <1>9. \A f \in Frontends : Mirrored(f) => Mirrored(f)'
    <2>1. \A f \in Frontends : feLinks[f] # <<>> => FeExists(f)
      BY KeysAre DEF IInv, FeKeys
    <2> QED
      BY <1>1, <1>4, <2>1 DEF Mirrored
  <1>10. ASSUME NEW f \in SslFrontends', Mirrored(f)
         PROVE  /\ f \in SslFrontends /\ Loads(f)' \subseteq Loads(f)
                /\ f \in bereft => f \in bereft'
                /\ Loads(f) # {} /\ Loads(f)' = {} => f \in bereft'
    <2>1. f \in Frontends /\ FeExists(f) /\ f \in SslFrontends
      BY <1>4, <1>5 DEF SslFrontends
    <2>2. OwnCerts(f)' = OwnCerts(f)
      BY <1>1, <1>4, <1>5, <2>1 DEF OwnCerts
    <2>3. Routed(fe'[f].default, fe'[f].rule, be') \subseteq Routed(fe[f].default, fe[f].rule, be) \ {b}
      BY <1>2, <1>4, <2>1, ProxyAssumption DEF Routed
    <2>4. \A x \in Routed(fe'[f].default, fe'[f].rule, be') : beLinks'[x] = beLinks[x]
      <3>1. DOMAIN be = Backends
        BY <1>2
      <3>2. Routed(fe[f].default, fe[f].rule, be) \subseteq Backends
        BY <3>1 DEF Routed
      <3> QED
        BY <1>3, <2>3, <3>2
    <2>5. Loads(f)' \subseteq Loads(f)
      BY <2>2, <2>3, <2>4 DEF Loads, Effective
    <2> QED
      BY <1>1, <2>1, <2>5 DEF NewlyBereft
  <1>11. Alone' /\ OverlapInv' /\ MirrorInv' /\ SavedInv'
    BY <1>1, <1>9, <1>10, DeletionKeeps
  <1> QED
    BY <1>6, <1>7, <1>8, <1>11 DEF IInv

LEMMA DeleteFrontendInv ==
  ASSUME IInv, NEW f \in Frontends, DeleteFrontend(f)
  PROVE  IInv'
  <1>1. TypeInv /\ UNCHANGED <<be, beLinks, certs, job>>
        /\ bereft' = bereft \ {f}
        /\ Meets(Jobs)
    BY DEF IInv, DeleteFrontend
  <1>2. /\ fe' \in [Frontends -> FeRow \cup {Unused, Gone}]
        /\ fe'[f] = Gone /\ \A x \in Frontends \ {f} : fe'[x] = fe[x]
    BY <1>1, Parts DEF DeleteFrontend
  <1>3. /\ feLinks' \in [Frontends -> CertLists]
        /\ feLinks'[f] = <<>> /\ \A x \in Frontends \ {f} : feLinks'[x] = feLinks[x]
    BY <1>1, Parts, EmptyList DEF DeleteFrontend
  <1>4. TypeInv'
    <2>1. bereft' \subseteq Frontends /\ overlapped' \in BOOLEAN /\ disturbed' \subseteq Frontends
      BY <1>1, Parts DEF Meets
    <2> QED
      BY <1>1, <1>2, <1>3, <2>1, Parts, TypedJobs DEF TypeInv, TypeOK
  <1>5. NoDanglingReference'
    <2>1. ASSUME NEW x \in Frontends \ {f} PROVE FeKeys(x)'
      <3>1. FeKeys(x)
        BY KeysAre DEF IInv
      <3> QED
        BY <1>1, <1>2, <1>3, <3>1 DEF FeKeys, FeExists, BeExists
    <2>2. FeKeys(f)'
      BY <1>2, <1>3, EmptyList DEF FeKeys, FeExists
    <2>3. \A b \in Backends : BeKeys(b)'
      BY <1>1, KeysAre DEF IInv, BeKeys, BeExists
    <2> QED
      BY <2>1, <2>2, <2>3, KeysAre
  <1>6. OwnListsWithinLimit'
    <2>1. Limit \in Nat
      BY ProxyAssumption
    <2> QED
      BY <1>1, <1>3, <2>1, EmptyList DEF IInv, OwnListsWithinLimit, BeExists
  <1>7. \A x \in Frontends : Mirrored(x) => Mirrored(x)'
    BY <1>2, <1>3 DEF Mirrored
  <1>8. ASSUME NEW x \in SslFrontends', Mirrored(x)
        PROVE  /\ x \in SslFrontends /\ Loads(x)' \subseteq Loads(x)
               /\ x \in bereft => x \in bereft'
               /\ Loads(x) # {} /\ Loads(x)' = {} => x \in bereft'
    <2>1. x \in Frontends \ {f}
      BY <1>2 DEF SslFrontends, FeExists
    <2>2. x \in SslFrontends
      BY <1>2, <2>1 DEF SslFrontends, FeExists
    <2>3. Loads(x)' = Loads(x)
      BY <1>1, <1>2, <1>3, <2>1 DEF Loads, OwnCerts, FeExists
    <2> QED
      BY <1>1, <2>1, <2>2, <2>3
  <1>9. Alone' /\ OverlapInv' /\ MirrorInv' /\ SavedInv'
    BY <1>1, <1>7, <1>8, DeletionKeeps
  <1> QED
    BY <1>4, <1>5, <1>6, <1>9 DEF IInv

LEMMA CrashInv ==
  ASSUME IInv, Crash
  PROVE  IInv'
  <1>1. TypeInv /\ UNCHANGED tables /\ bereft' = bereft
        /\ job' = [j \in Jobs |-> Idle]
        /\ overlapped' = overlapped
        /\ disturbed' = disturbed \cup
             UNION {Half(j) : j \in {k \in Jobs : job[k].at \in {"fe_links", "be_links"}}}
    BY DEF IInv, Crash
  <1>2. job' \in [Jobs -> {Idle} \cup FeJobs \cup BeJob]
        /\ \A j \in Jobs : job'[j].at = "idle" /\ ~Busy(j)'
    BY <1>1 DEF Idle, Busy
  <1>3. TypeInv'
    <2>1. disturbed' \subseteq Frontends
      <3>1. \A j \in Jobs : job[j].at = "fe_links" => job[j].id \in Frontends
        BY <1>1, Kinds, FeJobFields
      <3> QED
        BY <1>1, <3>1, Parts DEF Half
    <2> QED
      BY <1>1, <1>2, <2>1, Parts, TypedJobs DEF TypeInv, TypeOK, tables
  <1>4. NoDanglingReference' /\ OwnListsWithinLimit' /\ SslFrontends' = SslFrontends
        /\ \A x \in Frontends : Loads(x)' = Loads(x) /\ Mirrored(x)' = Mirrored(x)
    BY <1>1, TablesSame
  <1>5. Alone'
    BY <1>2 DEF Alone
  <1>6. ASSUME NEW x \in Frontends \ disturbed' PROVE x \notin disturbed /\ ~Pending(x) /\ ~Changing(x)
    <2>1. \A j \in Jobs : job[j].at \in {"fe_links", "be_links"} => x \notin Half(j)
      BY <1>1, <1>6
    <2> QED
      BY <1>1, <1>6, <2>1 DEF Pending, Changing, Half
  <1>7. OverlapInv' /\ MirrorInv' /\ SavedInv'
    <2>1. OverlapInv'
      BY <1>1, <1>3, Parts DEF IInv, OverlapInv, TypeInv, TypeOK
    <2>2. MirrorInv'
      BY <1>4, <1>6 DEF IInv, MirrorInv
    <2>3. ASSUME NEW x \in SslFrontends' \ disturbed' PROVE Good(x, Loads(x))'
      <3>1. x \in SslFrontends \ disturbed /\ x \in Frontends /\ ~Changing(x)
        BY <1>4, <1>6 DEF SslFrontends
      <3>2. Good(x, Loads(x))
        BY <3>1 DEF IInv, SavedInv
      <3> QED
        BY <1>1, <1>4, <3>1, <3>2 DEF Good
    <2>4. \A j \in Jobs : Captured(j)'
      BY <1>2 DEF Captured
    <2> QED
      BY <2>1, <2>2, <2>3, <2>4 DEF SavedInv
  <1> QED
    BY <1>3, <1>4, <1>5, <1>7 DEF IInv

-----------------------------------------------------------------------------
(* The theorems *)

LEMMA InitInv == Init => IInv
  <1> SUFFICES ASSUME Init PROVE IInv
    OBVIOUS
  <1>1. /\ \A f \in Frontends : fe[f] = Unused \/ (fe[f] \in FeRow /\ fe[f].default = None
                                                   /\ fe[f].rule = None /\ fe[f].cert \in Certs)
        /\ fe \in [Frontends -> FeRow \cup {Unused, Gone}]
    <2>1. ASSUME NEW c \in Certs
          PROVE  LET row == [ssl |-> TRUE, default |-> None, rule |-> None, cert |-> c]
                 IN  row \in FeRow /\ row.default = None /\ row.rule = None /\ row.cert = c
      BY DEF FeRow
    <2> QED
      BY <2>1 DEF Init
  <1>2. \A j \in Jobs : job[j] = Idle /\ job[j].at = "idle" /\ ~Busy(j)
    BY DEF Init, Idle, Busy
  <1>3. TypeInv
    <2>1. job \in [Jobs -> {Idle} \cup FeJobs \cup BeJob]
      BY DEF Init
    <2>2. feLinks \in [Frontends -> CertLists]
      BY EmptyList DEF Init
    <2> QED
      BY <1>1, <1>2, <2>1, <2>2 DEF Init, TypeInv, TypeOK
  <1>4. NoDanglingReference
    <2>1. \A f \in Frontends : FeKeys(f)
      BY <1>1, EmptyList DEF Init, FeKeys, FeExists
    <2>2. \A b \in Backends : BeKeys(b)
      BY DEF Init, BeKeys
    <2> QED
      BY <2>1, <2>2, KeysAre
  <1>5. OwnListsWithinLimit
    <2>1. Limit \in Nat /\ 0 <= Limit
      BY ProxyAssumption
    <2> QED
      BY <2>1, EmptyList DEF Init, OwnListsWithinLimit, BeExists
  <1>6. Alone /\ OverlapInv /\ MirrorInv
    BY <1>2 DEF Alone, OverlapInv, MirrorInv, Mirrored, Init
  <1>7. ASSUME NEW f \in SslFrontends PROVE Good(f, Loads(f))
    <2>1. f \in Frontends /\ fe[f].cert \in Certs /\ FeExists(f)
      BY <1>1 DEF SslFrontends, FeExists
    <2>2. OwnCerts(f) = <<fe[f].cert>>
      BY <2>1, ProxyAssumption DEF OwnCerts, Init
    <2>3. Routed(fe[f].default, fe[f].rule, be) = {}
      BY DEF Routed, Init
    <2>4. Loads(f) = {fe[f].cert}
      BY <2>1, <2>2, <2>3, OneList DEF Loads, Effective
    <2>5. Cardinality(Loads(f)) = 1
      BY <2>4, FS_Singleton
    <2> QED
      BY <2>4, <2>5, ProxyAssumption DEF Good
  <1>8. SavedInv
    BY <1>2, <1>7 DEF SavedInv, Captured
  <1> QED
    BY <1>3, <1>4, <1>5, <1>6, <1>8 DEF IInv

LEMMA NextInv == IInv /\ [Next]_vars => IInv'
  <1> SUFFICES ASSUME IInv, [Next]_vars PROVE IInv'
    OBVIOUS
  <1>1. CASE UNCHANGED vars
    <2>1. /\ UNCHANGED tables /\ UNCHANGED <<fe, feLinks, be, beLinks, certs>>
          /\ UNCHANGED <<job, bereft, overlapped, disturbed>>
      BY <1>1 DEF vars, tables
    <2>2. TypeInv' /\ Alone' /\ OverlapInv'
      BY <2>1 DEF IInv, TypeInv, TypeOK, Alone, OverlapInv, Busy
    <2>3. /\ NoDanglingReference' /\ OwnListsWithinLimit' /\ SslFrontends' = SslFrontends
          /\ \A x \in Frontends : Loads(x)' = Loads(x) /\ Mirrored(x)' = Mirrored(x)
          /\ \A x \in Frontends : OwnCerts(x)' = OwnCerts(x)
      BY <2>1, TablesSame
    <2>4. \A x \in Frontends : Pending(x)' = Pending(x) /\ Changing(x)' = Changing(x)
      BY <2>1 DEF Pending, Changing
    <2>5. MirrorInv'
      BY <2>1, <2>3, <2>4 DEF IInv, MirrorInv
    <2>7. SavedInv'
      <3>1. SavedInv
        BY DEF IInv
      <3>2. ASSUME NEW x \in SslFrontends' \ disturbed' PROVE Changing(x)' \/ Good(x, Loads(x))'
        <4>1. x \in SslFrontends \ disturbed /\ x \in Frontends
          BY <2>1, <2>3 DEF SslFrontends
        <4>2. Changing(x) \/ Good(x, Loads(x))
          BY <3>1, <4>1 DEF SavedInv
        <4> QED
          BY <2>1, <2>3, <2>4, <4>1, <4>2 DEF Good
      <3>3. ASSUME NEW j \in Jobs, ~overlapped PROVE Captured(j)'
        <4>1. PICK r : r = job[j] /\ r = job'[j]
          BY <2>1
        <4>2. Captured(j)
          BY <3>1, <3>3 DEF SavedInv
        <4>3. FeCaptured(r)' = FeCaptured(r) /\ FeExists(r.id)' = FeExists(r.id)
          BY <2>1 DEF FeCaptured, Requested, Effective, Routed, FeExists
        <4>4. NoChangeProblems(r.id, r.name, r.own) => NoChangeProblems(r.id, r.name, r.own)'
          <5> SUFFICES ASSUME NoChangeProblems(r.id, r.name, r.own)
                       PROVE  NoChangeProblems(r.id, r.name, r.own)'
            OBVIOUS
          <5>1. ASSUME NEW x \in SslFrontends
                PROVE  LET after == LoadsWith(x, [be EXCEPT ![r.id] = r.name],
                                              [beLinks EXCEPT ![r.id] = r.own])
                       IN  /\ Loads(x) # {} => after # {}
                           /\ Cardinality(after) > Limit => Cardinality(after) <= Cardinality(Loads(x))
            BY DEF NoChangeProblems, LoadsWith
          <5>2. ASSUME NEW x \in Frontends
                PROVE  LoadsWith(x, [be EXCEPT ![r.id] = r.name], [beLinks EXCEPT ![r.id] = r.own])'
                         = LoadsWith(x, [be EXCEPT ![r.id] = r.name], [beLinks EXCEPT ![r.id] = r.own])
            BY <2>1, <2>3 DEF LoadsWith, Effective, Routed
          <5>3. ASSUME NEW x \in SslFrontends'
                PROVE  LET after == LoadsWith(x, [be EXCEPT ![r.id] = r.name],
                                              [beLinks EXCEPT ![r.id] = r.own])'
                       IN  /\ Loads(x)' # {} => after # {}
                           /\ Cardinality(after) > Limit => Cardinality(after) <= Cardinality(Loads(x)')
            <6>1. x \in SslFrontends /\ x \in Frontends
              BY <2>3 DEF SslFrontends
            <6> QED
              BY <2>3, <5>1, <5>2, <6>1
          <5> QED
            BY <5>3 DEF NoChangeProblems, LoadsWith
        <4>5. ASSUME NEW x \in Frontends
              PROVE  LoadsWith(x, be, [beLinks EXCEPT ![r.id] = r.own])'
                       = LoadsWith(x, be, [beLinks EXCEPT ![r.id] = r.own])
          BY <2>1, <2>3 DEF LoadsWith, Effective, Routed
        <4>6. ASSUME NEW x \in SslFrontends
              PROVE  Good(x, LoadsWith(x, be, [beLinks EXCEPT ![r.id] = r.own]))
                       => Good(x, LoadsWith(x, be, [beLinks EXCEPT ![r.id] = r.own]))'
          <5>1. x \in Frontends
            BY DEF SslFrontends
          <5> QED
            BY <2>1, <4>5, <5>1 DEF Good
        <4> QED
          BY <2>1, <2>3, <4>1, <4>2, <4>3, <4>4, <4>6 DEF Captured
      <3> QED
        BY <2>1, <3>2, <3>3 DEF SavedInv
    <2> QED
      BY <2>2, <2>3, <2>5, <2>7 DEF IInv
  <1>2. ASSUME NEW j \in Jobs, NEW f \in Frontends, CheckFrontend(j, f) PROVE IInv'
    BY <1>2, CheckFrontendInv
  <1>3. ASSUME NEW j \in Jobs, NEW b \in Backends, CheckBackend(j, b) PROVE IInv'
    BY <1>3, CheckBackendInv
  <1>4. ASSUME NEW j \in Jobs, FrontendRow(j) \/ FrontendLinks(j) \/ BackendRow(j) \/ BackendLinks(j)
        PROVE  IInv'
    BY <1>4, FrontendRowInv, FrontendLinksInv, BackendRowInv, BackendLinksInv
  <1>5. ASSUME NEW c \in Certs, DeleteCert(c) PROVE IInv'
    BY <1>5, DeleteCertInv
  <1>6. ASSUME NEW b \in Backends, DeleteBackend(b) PROVE IInv'
    BY <1>6, DeleteBackendInv
  <1>7. ASSUME NEW f \in Frontends, DeleteFrontend(f) PROVE IInv'
    BY <1>7, DeleteFrontendInv
  <1>8. CASE Crash
    BY <1>8, CrashInv
  <1> QED
    BY <1>1, <1>2, <1>3, <1>4, <1>5, <1>6, <1>7, <1>8 DEF Next

\* Every reachable state satisfies the invariant the properties follow from.
THEOREM Invariance == Spec => []IInv
  BY InitInv, NextInv, PTL DEF Spec

\* Tables and requests stay in their sets.
THEOREM TypesHold == Spec => []TypeOK
  BY Invariance, PTL DEF IInv, TypeInv

\* No link or row refers to a row that is gone, however requests interleave.
THEOREM NoDanglingReferenceHolds == Spec => []NoDanglingReference
  BY Invariance, PTL DEF IInv

\* One list within the limit per frontend, one backend per name.
THEOREM OwnListsWithinLimitHolds == Spec => []OwnListsWithinLimit
  BY Invariance, PTL DEF IInv

\* At rest no request has a commit left.
LEMMA AtRestFacts ==
  ASSUME IInv, AtRest
  PROVE  /\ \A f \in Frontends \ disturbed : Mirrored(f)
         /\ \A f \in SslFrontends \ disturbed : Good(f, Loads(f))
  <1>1. \A j \in Jobs : job[j].at \notin {"fe_links", "be_links"}
    BY Kinds DEF AtRest, IInv
  <1> QED
    BY <1>1, RestFacts

\* No save lets an SSL frontend load more certificates than a bind line holds.
THEOREM LimitKeptHolds == Spec => []LimitKept
  <1>1. IInv => LimitKept
    BY AtRestFacts DEF LimitKept, Good
  <1> QED
    BY <1>1, Invariance, PTL

\* Only a deletion takes an SSL frontend's last certificate.
THEOREM LastCertOnlyLostByDeletionHolds == Spec => []LastCertOnlyLostByDeletion
  <1>1. IInv => LastCertOnlyLostByDeletion
    BY AtRestFacts DEF LastCertOnlyLostByDeletion, Good
  <1> QED
    BY <1>1, Invariance, PTL

\* A row names the first of its links, or none.
THEOREM MirrorAgreesHolds == Spec => []MirrorAgrees
  <1>1. IInv => MirrorAgrees
    BY AtRestFacts DEF MirrorAgrees, Mirrored
  <1> QED
    BY <1>1, Invariance, PTL
=============================================================================
